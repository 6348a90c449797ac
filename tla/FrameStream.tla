---------------------------- MODULE FrameStream ----------------------------
(***************************************************************************)
(* Frames on a byte stream (src/transport/frame.cpp): encode_frame,        *)
(* decode_frame and FrameStreamDecoder.                                    *)
(*                                                                         *)
(* A stream is a sequence of cells <<frame, part>>.  The parts of a frame  *)
(* are its magic number, the rest of its header, each unit of its payload  *)
(* and its trailing checksum, in this order: what a reader that was given  *)
(* part of a frame can tell apart.  A frame has at least the fields        *)
(* `size', the units of its payload, and `sound', which is "sound" unless  *)
(* the frame arrives with a wrong magic number ("magic"), a damaged header *)
(* or payload ("header", "payload"), or comes from a build with another    *)
(* frame version or more message types ("version", "type").                *)
(***************************************************************************)
EXTENDS Naturals, Sequences

Soundness == {"sound", "magic", "header", "payload", "version", "type"}

\* Cells of the header and of the trailer.
kFrameHeaderCells == 2
kFrameTrailerCells == 1

FrameCells(size) == kFrameHeaderCells + size + kFrameTrailerCells

\* encode_frame: refused beyond the ceiling, or the cells of the frame.
encodable(frame, ceiling) == frame.size <= ceiling
encode_frame(frame) == [part \in 1..FrameCells(frame.size) |-> <<frame, part>>]

Result(disposition, frames, consumed) ==
    [disposition |-> disposition, frames |-> frames, consumed |-> consumed]

\* decode_frame, in the order of its checks; frames is the frame that is complete, if any.
decode_frame(buffer, ceiling) ==
    LET frame == buffer[1][1]
        total == FrameCells(frame.size)
    IN  IF buffer = <<>> THEN Result("Incomplete", <<>>, 0)
        ELSE IF frame.sound = "magic" \/ buffer[1][2] # 1 THEN Result("Corrupt", <<>>, 0)
        ELSE IF Len(buffer) < kFrameHeaderCells THEN Result("Incomplete", <<>>, 0)
        ELSE IF frame.sound = "header" THEN Result("Corrupt", <<>>, 0)
        ELSE IF frame.sound \in {"version", "type"} THEN Result("Unsupported", <<>>, 0)
        ELSE IF frame.size > ceiling THEN Result("Corrupt", <<>>, 0)
        ELSE IF Len(buffer) < total THEN Result("Incomplete", <<>>, 0)
        ELSE IF frame.sound = "payload" THEN Result("Corrupt", <<>>, 0)
        ELSE Result("Complete", <<frame>>, total)

\* FrameStreamDecoder: [buffer, sticky], sticky the disposition that ended the stream.
NewDecoder == [buffer |-> <<>>, sticky |-> "none"]
DecoderCapacity(ceiling) == 2 * FrameCells(ceiling)

\* feed: whether the chunk is accepted, and the decoder after it.
feed_accepts(decoder, chunk, ceiling) ==
    /\ decoder.sticky = "none"
    /\ Len(decoder.buffer) + Len(chunk) <= DecoderCapacity(ceiling)
feed(decoder, chunk, ceiling) ==
    IF feed_accepts(decoder, chunk, ceiling)
    THEN [decoder EXCEPT !.buffer = @ \o chunk] ELSE decoder

\* next: the result, and the decoder after it.
next_result(decoder, ceiling) ==
    IF decoder.sticky = "none" THEN decode_frame(decoder.buffer, ceiling)
    ELSE Result(decoder.sticky, <<>>, 0)
next_decoder(decoder, ceiling) ==
    LET result == next_result(decoder, ceiling)
    IN  [buffer |-> SubSeq(decoder.buffer, result.consumed + 1, Len(decoder.buffer)),
         sticky |-> IF result.disposition \in {"Corrupt", "Unsupported"}
                    THEN result.disposition ELSE decoder.sticky]
=============================================================================
