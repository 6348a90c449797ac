---------------------------- MODULE ClientProofs ----------------------------
(***************************************************************************)
(* The safety of a client shared by several threads, for every number of   *)
(* threads, every bound on frames and sequences and every stream.          *)
(*                                                                         *)
(* round_trip never compares the sequence of the frame it returns with the *)
(* one it sent. That the frame is the answer all the same rests on what    *)
(* the inductive invariant says of the whole connection: the io mutex lets *)
(* one request be under way, its cells are on the wire, in the server's    *)
(* decoder or with the handler, or the answer's cells are on the way back, *)
(* and no other cell is anywhere while the stream is open.                 *)
(*                                                                         *)
(* A second invariant, on top of the first, is about sizes: a frame beyond *)
(* the server's bound can only be a Hello, sent by a client that has no    *)
(* session and, because the server leaves, never gets one.                 *)
(***************************************************************************)
EXTENDS Client, TLAPS

\* The outcomes that a response carries.
Codes == {"Ok", "Exhausted", "NotFound", "Invalid", "Replay", "Unauthorized"}

\* The frames of this connection, and a cell of one.
FrameRecord == [type : Operations \cup {"HelloAck", "Result", "Error"}, session : Nat, seq : Nat,
                size : Nat, sound : {"sound"}, grant : Nat, code : Codes]
Cell == FrameRecord \X Nat

DecoderRecord == [buffer : Seq(Cell), sticky : {"none", "Corrupt", "Unsupported"}]
ThreadRecord == [pc : {"idle", "entered", "sending", "decoding", "receiving", "adopting"},
                 op : Operations \cup {"none"}, size : Nat, request : Seq(FrameRecord), grant : Nat]
WorkerRecord == [pc : {"queued", "top", "reading", "handling", "answering", "gone"},
                 decoder : DecoderRecord, request : Seq(FrameRecord), response : Seq(FrameRecord)]

Types ==
    /\ guard \in {"open", "closing"} /\ io \in Threads \cup {None}
    /\ handshaken \in BOOLEAN /\ session \in Nat
    /\ next_seq \in 1..UINT64_MAX /\ sequence_exhausted \in BOOLEAN
    /\ max_frame_payload \in Nat
    /\ decoder \in DecoderRecord
    /\ thread \in [Threads -> ThreadRecord]
    /\ up \in Seq(Cell) /\ down \in Seq(Cell)
    /\ worker \in WorkerRecord
    /\ sessions \in Seq(Nat)
-----------------------------------------------------------------------------
\* A decoder's buffer and the cells still in flight behind it are the cells of one frame.
Carries(buffer, wire, frame) ==
    /\ Len(buffer) + Len(wire) = FrameCells(frame.size)
    /\ \A i \in 1..Len(buffer) : buffer[i] = <<frame, i>>
    /\ \A i \in 1..Len(wire) : wire[i] = <<frame, Len(buffer) + i>>

\* A sequence that was handed out.
Issued(seq) == seq < next_seq \/ (sequence_exhausted /\ seq = next_seq)

\* While the worker serves: a session is open, no session has seen a sequence yet.
Known(owner) == worker.pc # "gone" => owner \in DOMAIN sessions
Fresh(seq) == worker.pc # "gone" => \A i \in DOMAIN sessions : sessions[i] < seq

\* A request that the client may send.
Sendable(request) ==
    /\ request.type \in Operations
    /\ request.seq # 0 /\ Issued(request.seq)
    /\ request.type = "Query" => Known(request.session)

\* An answer of the server to a request.
AnswerTo(request, answer) ==
    /\ answer.seq = request.seq
    /\ answer.type \in IF request.type = "Hello" THEN {"HelloAck", "Error"}
                       ELSE IF request.type = "Query" THEN {"Result", "Error"} ELSE {"Goodbye"}
    /\ answer.size # 0 => request.type # "Goodbye"
    /\ answer.grant # 0 => Known(answer.grant)

\* The server has nothing to do for the client, or has the whole of one request: on its way,
\* with the handler, or answered and not yet sent.
Quiet ==
    worker.pc # "gone" =>
        worker.pc \in {"queued", "top", "reading"} /\ worker.decoder.buffer = <<>> /\ up = <<>>
Serves(request) ==
    worker.pc # "gone" =>
        \/ /\ worker.pc \in {"queued", "top", "reading"}
           /\ Carries(worker.decoder.buffer, up, request)
           /\ Fresh(request.seq)
        \/ /\ worker.pc \in {"handling", "answering"}
           /\ worker.decoder.buffer = <<>> /\ up = <<>>
           /\ worker.request = <<request>>
           /\ worker.pc = "handling" => Fresh(request.seq)
           /\ worker.pc = "answering" =>
                  Len(worker.response) = 1 /\ AnswerTo(request, worker.response[1])

\* Nothing is on its way to the client.
Silence == decoder.buffer = <<>> /\ down = <<>>
-----------------------------------------------------------------------------
\* The io mutex is held by the one thread inside a round trip, whose request is numbered.
InCall == {"sending", "decoding", "receiving", "adopting"}
CallOK(t) ==
    /\ thread[t].pc \in InCall <=> io = t
    /\ thread[t].pc # "idle" => thread[t].op \in Operations
    /\ thread[t].pc \in {"sending", "decoding", "receiving"} =>
           /\ Len(thread[t].request) = 1
           /\ thread[t].request[1].type = thread[t].op
           /\ Sendable(thread[t].request[1])
    /\ thread[t].pc = "adopting" => Known(thread[t].grant)
CallInv == \A t \in Threads : CallOK(t)

\* What the handshake settled, and the sequences that sessions have seen.
SessionInv ==
    /\ handshaken => Known(session)
    /\ worker.pc # "gone" => \A i \in DOMAIN sessions : Issued(sessions[i])

\* At most one request is with the server, also after the client has dropped it.
ServerInv ==
    /\ worker.pc # "gone" => worker.decoder.sticky = "none"
    /\ Quiet \/ \E request \in FrameRecord : Sendable(request) /\ Serves(request)
    /\ ServerNeverSeesReplay

Waiting(t) == thread[t].pc \in {"decoding", "receiving"}

\* A waiting thread's request is with the server, or its answer is on the way and nothing else.
Answered(t) ==
    \E answer \in FrameRecord :
        /\ AnswerTo(thread[t].request[1], answer)
        /\ Carries(decoder.buffer, down, answer)
WaitOK(t) ==
    /\ decoder.sticky = "none"
    /\ \/ Silence /\ Serves(thread[t].request[1])
       \/ Quiet /\ Answered(t)
StreamInv ==
    /\ \A t \in Threads : Waiting(t) => WaitOK(t)
    /\ guard = "open" => decoder.sticky = "none"
    /\ (guard = "open" /\ \A t \in Threads : ~Waiting(t)) => Silence /\ Quiet
    /\ \A t \in Threads :
           (guard = "open" /\ thread[t].pc = "sending") => Fresh(thread[t].request[1].seq)

Inv == CallInv /\ SessionInv /\ ServerInv /\ StreamInv
-----------------------------------------------------------------------------
(* Frames on the stream. *)

\* A chunk that moves from the wire to the buffer keeps the frame whole.
LEMMA Moves ==
    ASSUME NEW frame \in FrameRecord, NEW buffer \in Seq(Cell), NEW wire \in Seq(Cell),
           Carries(buffer, wire, frame), NEW n \in 1..Len(wire)
    PROVE  /\ buffer \o SubSeq(wire, 1, n) \in Seq(Cell)
           /\ SubSeq(wire, n + 1, Len(wire)) \in Seq(Cell)
           /\ Carries(buffer \o SubSeq(wire, 1, n), SubSeq(wire, n + 1, Len(wire)), frame)
<1> DEFINE chunk == SubSeq(wire, 1, n)
           rest == SubSeq(wire, n + 1, Len(wire))
<1>1. /\ chunk \in Seq(Cell) /\ Len(chunk) = n
      /\ \A i \in 1..n : chunk[i] = wire[i]
  OBVIOUS
<1>2. /\ rest \in Seq(Cell) /\ Len(rest) = Len(wire) - n
      /\ \A i \in 1..(Len(wire) - n) : rest[i] = wire[n + i]
  OBVIOUS
<1> HIDE DEF chunk, rest
<1>3. /\ buffer \o chunk \in Seq(Cell) /\ Len(buffer \o chunk) = Len(buffer) + n
      /\ \A i \in 1..(Len(buffer) + n) :
             (buffer \o chunk)[i] = IF i <= Len(buffer) THEN buffer[i] ELSE chunk[i - Len(buffer)]
  BY <1>1, SMTT(20)
<1>4. FrameCells(frame.size) \in Nat
  BY DEF FrameRecord, FrameCells, kFrameHeaderCells, kFrameTrailerCells
<1>5. \A i \in 1..(Len(buffer) + n) : (buffer \o chunk)[i] = <<frame, i>>
  <2> SUFFICES ASSUME NEW i \in 1..(Len(buffer) + n)
               PROVE  (buffer \o chunk)[i] = <<frame, i>>
    BY Zenon
  <2>1. CASE i <= Len(buffer)
    BY <2>1, <1>3 DEF Carries
  <2>2. CASE ~(i <= Len(buffer))
    <3>1. i - Len(buffer) \in 1..n /\ i - Len(buffer) \in 1..Len(wire)
          /\ Len(buffer) + (i - Len(buffer)) = i
      BY <2>2
    <3>2. wire[i - Len(buffer)] = <<frame, i>>
      BY <3>1, Zenon DEF Carries
    <3>3. (buffer \o chunk)[i] = chunk[i - Len(buffer)]
      BY <2>2, <1>3, Zenon
    <3>4. chunk[i - Len(buffer)] = wire[i - Len(buffer)]
      BY <3>1, <1>1, Zenon
    <3> QED  BY <3>2, <3>3, <3>4, Zenon
  <2> QED  BY <2>1, <2>2, Zenon
<1>6. \A i \in 1..(Len(wire) - n) : rest[i] = <<frame, (Len(buffer) + n) + i>>
  <2> SUFFICES ASSUME NEW i \in 1..(Len(wire) - n)
               PROVE  rest[i] = <<frame, (Len(buffer) + n) + i>>
    BY Zenon
  <2>1. n + i \in 1..Len(wire) /\ Len(buffer) + (n + i) = (Len(buffer) + n) + i
    OBVIOUS
  <2> QED  BY <2>1, <1>2, Zenon DEF Carries
<1>7. (Len(buffer) + n) + (Len(wire) - n) = FrameCells(frame.size)
  BY <1>4 DEF Carries
<1>8. Carries(buffer \o chunk, rest, frame)
  BY <1>2, <1>3, <1>5, <1>6, <1>7, Zenon DEF Carries
<1> QED  BY <1>2, <1>3, <1>8, Zenon DEF chunk, rest

\* encode_frame puts one frame on a quiet wire.
LEMMA Encodes ==
    ASSUME NEW frame \in FrameRecord
    PROVE  /\ encode_frame(frame) \in Seq(Cell)
           /\ Carries(<<>>, <<>> \o encode_frame(frame), frame)
<1> DEFINE n == FrameCells(frame.size)
<1>1. n \in Nat /\ frame.size \in Nat
  BY DEF FrameRecord, FrameCells, kFrameHeaderCells, kFrameTrailerCells
<1>2. encode_frame(frame) = [part \in 1..n |-> <<frame, part>>]
  BY Zenon DEF encode_frame
<1> HIDE DEF n
<1>3. \A part \in 1..n : <<frame, part>> \in Cell
  BY <1>1 DEF Cell
<1>4. /\ encode_frame(frame) \in Seq(Cell) /\ Len(encode_frame(frame)) = n
      /\ \A i \in 1..n : encode_frame(frame)[i] = <<frame, i>>
  BY <1>1, <1>2, <1>3
<1>5. <<>> \o encode_frame(frame) = encode_frame(frame)
  BY <1>4
<1>6. \A i \in 1..n : encode_frame(frame)[i] = <<frame, Len(<<>>) + i>>
  BY <1>4, <1>1
<1> QED  BY <1>1, <1>4, <1>5, <1>6 DEF Carries, n

\* What next does with a decoder whose buffer holds nothing.
LEMMA DecodesNothing ==
    ASSUME NEW d \in DecoderRecord, NEW ceiling \in Nat, d.sticky = "none", d.buffer = <<>>
    PROVE  next_result(d, ceiling).disposition = "Incomplete" /\ next_decoder(d, ceiling) = d
<1>1. next_result(d, ceiling) = Result("Incomplete", <<>>, 0)
  BY Zenon DEF next_result, decode_frame
<1>2. next_result(d, ceiling).disposition = "Incomplete" /\ next_result(d, ceiling).consumed = 0
  BY <1>1 DEF Result
<1>3. SubSeq(d.buffer, 0 + 1, Len(d.buffer)) = <<>>
  OBVIOUS
<1>4. next_decoder(d, ceiling) = [buffer |-> <<>>, sticky |-> "none"]
  BY <1>2, <1>3, Zenon DEF next_decoder
<1>5. d = [buffer |-> <<>>, sticky |-> "none"]
  BY Zenon DEF DecoderRecord
<1> QED  BY <1>2, <1>4, <1>5, Zenon

\* What next does with a decoder that holds part of one frame, or the whole of it.
LEMMA DecodesFrame ==
    ASSUME NEW frame \in FrameRecord, NEW d \in DecoderRecord, NEW wire \in Seq(Cell),
           NEW ceiling \in Nat, d.sticky = "none", Carries(d.buffer, wire, frame)
    PROVE  \/ next_result(d, ceiling).disposition = "Incomplete" /\ next_decoder(d, ceiling) = d
           \/ /\ next_result(d, ceiling).disposition = "Complete"
              /\ next_result(d, ceiling).frames = <<frame>>
              /\ next_decoder(d, ceiling) = NewDecoder
              /\ wire = <<>>
           \/ /\ next_result(d, ceiling).disposition = "Corrupt" /\ frame.size > ceiling
              /\ next_decoder(d, ceiling) \in DecoderRecord
<1> DEFINE total == FrameCells(frame.size)
           result == next_result(d, ceiling)
<1>1. PICK b : b = d.buffer
  BY Zenon
<1>2. b \in Seq(Cell) /\ Len(b) \in Nat /\ frame.size \in Nat /\ frame.sound = "sound"
  BY <1>1 DEF DecoderRecord, FrameRecord
<1>3. total \in Nat /\ total >= 2 /\ Len(b) + Len(wire) = total
  BY <1>1, <1>2 DEF Carries, FrameCells, kFrameHeaderCells, kFrameTrailerCells
<1>4. d = [buffer |-> b, sticky |-> "none"]
  BY <1>1, Zenon DEF DecoderRecord
<1>5. result = decode_frame(b, ceiling)
  BY <1>1, Zenon DEF next_result
<1>6. CASE b = <<>>
  BY <1>1, <1>6, DecodesNothing, Zenon
<1>7. CASE b # <<>>
  <2>1. Len(b) >= 1 /\ b[1] = <<frame, 1>>
    <3>1. Len(b) >= 1
      BY <1>2, <1>7
    <3> QED  BY <3>1, <1>1, <1>2 DEF Carries
  <2>2. b[1][1] = frame /\ b[1][2] = 1
    BY <2>1
  <2>3. result = IF Len(b) < 2 THEN Result("Incomplete", <<>>, 0)
                 ELSE IF frame.size > ceiling THEN Result("Corrupt", <<>>, 0)
                 ELSE IF Len(b) < total THEN Result("Incomplete", <<>>, 0)
                 ELSE Result("Complete", <<frame>>, total)
    BY <1>2, <1>5, <1>7, <2>2, Zenon DEF decode_frame, kFrameHeaderCells
  <2> HIDE DEF result, total
  <2>4. next_decoder(d, ceiling) =
            [buffer |-> SubSeq(b, result.consumed + 1, Len(b)),
             sticky |-> IF result.disposition \in {"Corrupt", "Unsupported"}
                        THEN result.disposition ELSE "none"]
    BY <1>1, Zenon DEF next_decoder, result
  <2>5. CASE result = Result("Incomplete", <<>>, 0)
    <3>1. result.disposition = "Incomplete" /\ result.consumed = 0
      BY <2>5, Zenon DEF Result
    <3>2. SubSeq(b, 0 + 1, Len(b)) = b
      BY <1>2
    <3>3. next_decoder(d, ceiling) = [buffer |-> b, sticky |-> "none"]
      BY <2>4, <3>1, <3>2, Zenon
    <3> QED  BY <1>4, <3>1, <3>3, Zenon DEF result
  <2>6. CASE frame.size > ceiling /\ result = Result("Corrupt", <<>>, 0)
    <3>1. result.disposition = "Corrupt" /\ result.consumed = 0
      BY <2>6, Zenon DEF Result
    <3>2. SubSeq(b, 0 + 1, Len(b)) = b
      BY <1>2
    <3>3. next_decoder(d, ceiling) = [buffer |-> b, sticky |-> "Corrupt"]
      BY <2>4, <3>1, <3>2, Zenon
    <3> QED  BY <2>6, <1>2, <3>1, <3>3 DEF result, DecoderRecord
  <2>7. CASE ~(Len(b) < total) /\ result = Result("Complete", <<frame>>, total)
    <3>1. result.disposition = "Complete" /\ result.consumed = total /\ result.frames = <<frame>>
      BY <2>7, Zenon DEF Result
    <3>2. Len(b) = total /\ Len(wire) = 0
      BY <2>7, <1>2, <1>3
    <3>3. SubSeq(b, total + 1, Len(b)) = <<>>
      BY <1>2, <1>3, <3>2
    <3>4. next_decoder(d, ceiling) = NewDecoder
      BY <2>4, <3>1, <3>3, Zenon DEF NewDecoder
    <3>5. wire = <<>>
      BY <3>2
    <3> QED  BY <3>1, <3>4, <3>5, Zenon DEF result
  <2> QED  BY <2>3, <2>5, <2>6, <2>7, Zenon
<1> QED  BY <1>6, <1>7, Zenon

-----------------------------------------------------------------------------
(* What the steps keep. *)

\* Sequences stay issued and sessions stay known.
Kept ==
    /\ \A seq \in Nat : Issued(seq) => Issued(seq)'
    /\ \A owner \in Nat : Known(owner) => Known(owner)'

\* A request that the client may send stays one.
LEMMA SendableKept ==
    ASSUME NEW request \in FrameRecord, Kept, Sendable(request)
    PROVE  Sendable(request)'
<1>1. request.seq \in Nat /\ request.session \in Nat
  BY Zenon DEF FrameRecord
<1> QED  BY <1>1, Zenon DEF Kept, Sendable

\* A step that leaves the worker, the sessions and the sequence alone keeps both.
LEMMA KeptStill ==
    ASSUME UNCHANGED <<next_seq, sequence_exhausted, worker, sessions>>
    PROVE  Kept
  BY Zenon DEF Kept, Issued, Known

\* A thread that a step leaves alone keeps its call.
LEMMA CallKept ==
    ASSUME Types, Kept, NEW t \in Threads, CallOK(t), thread'[t] = thread[t],
           (io' = t) <=> (io = t)
    PROVE  CallOK(t)'
<1>1. thread[t] \in ThreadRecord
  BY Zenon DEF Types
<1>2. CASE thread[t].pc \in {"sending", "decoding", "receiving"}
  <2>1. Len(thread[t].request) = 1 /\ Sendable(thread[t].request[1])
    BY <1>2, Zenon DEF CallOK
  <2>2. thread[t].request \in Seq(FrameRecord)
    BY <1>1, Zenon DEF ThreadRecord
  <2>3. thread[t].request[1] \in FrameRecord
    BY <2>1, <2>2
  <2>4. Sendable(thread[t].request[1])'
    <3> DEFINE r == thread[t].request[1]
    <3>1. PICK s \in FrameRecord : s = r
      BY <2>3, Zenon
    <3>2. Sendable(s)'
      BY <2>1, <3>1, SendableKept, Zenon
    <3>3. r' = s
      BY <3>1, Zenon
    <3> QED  BY <3>2, <3>3, Zenon DEF Sendable, Known, Issued
  <2> QED  BY <1>2, <2>4, Zenon DEF CallOK, InCall
<1>3. CASE thread[t].pc = "adopting"
  <2>1. thread[t].grant \in Nat /\ Known(thread[t].grant)
    BY <1>1, <1>3, Zenon DEF CallOK, ThreadRecord
  <2>2. Known(thread[t].grant)'
    BY <2>1, Zenon DEF Kept, Known
  <2> QED  BY <1>3, <2>2, Zenon DEF CallOK, InCall
<1>4. CASE thread[t].pc \in {"idle", "entered"}
  BY <1>4, Zenon DEF CallOK, InCall
<1> QED  BY <1>1, <1>2, <1>3, <1>4, Zenon DEF ThreadRecord

\* Only one thread is inside a round trip.
LEMMA OneCall ==
    ASSUME CallInv, NEW t \in Threads, NEW u \in Threads, u # t, io = t
    PROVE  thread[u].pc \notin InCall
  BY Zenon DEF CallInv, CallOK

\* A fresh connection, with nothing on it in either direction and every thread outside.
LEMMA InitInv == Init => Types /\ Inv
<1> SUFFICES ASSUME Init PROVE Types /\ Inv
  BY Zenon
<1> USE ClientAssumption
<1>1. <<>> \in Seq(Cell) /\ <<>> \in Seq(FrameRecord) /\ <<>> \in Seq(Nat)
  OBVIOUS
<1>2. NewDecoder \in DecoderRecord /\ Idle \in ThreadRecord
  BY <1>1, Zenon DEF NewDecoder, DecoderRecord, Idle, ThreadRecord
<1>3. worker \in WorkerRecord
  BY <1>1, <1>2, Zenon DEF Init, WorkerRecord
<1>4. Types
  <2>1. thread \in [Threads -> ThreadRecord] /\ decoder \in DecoderRecord
    BY <1>2, Zenon DEF Init
  <2>2. next_seq \in 1..UINT64_MAX /\ max_frame_payload \in Nat /\ session \in Nat
    BY DEF Init
  <2>3. /\ guard \in {"open", "closing"} /\ io \in Threads \cup {None}
        /\ handshaken \in BOOLEAN /\ sequence_exhausted \in BOOLEAN
    BY Zenon DEF Init
  <2>4. up \in Seq(Cell) /\ down \in Seq(Cell) /\ sessions \in Seq(Nat)
    BY <1>1, Zenon DEF Init
  <2> QED  BY <1>3, <2>1, <2>2, <2>3, <2>4, Zenon DEF Types
<1>5. \A t \in Threads : thread[t].pc = "idle"
  BY Zenon DEF Init, Idle
<1>6. CallInv
  BY <1>5, Zenon DEF Init, CallInv, CallOK, InCall
<1>7. SessionInv
  BY DEF Init, SessionInv
<1>8. Quiet /\ Silence /\ decoder.sticky = "none" /\ worker.decoder.sticky = "none"
  BY Zenon DEF Init, Quiet, Silence, NewDecoder
<1>9. ServerInv
  BY <1>8 DEF Init, ServerInv, ServerNeverSeesReplay
<1>10. StreamInv
  BY <1>5, <1>8, Zenon DEF StreamInv, Waiting
<1> QED  BY <1>4, <1>6, <1>7, <1>9, <1>10, Zenon DEF Inv

\* A step of the client that sends nothing leaves the server as it is.
LEMMA ServerStill ==
    ASSUME UNCHANGED <<up, worker, sessions>>
    PROVE  /\ Quiet <=> Quiet'
           /\ \A request \in FrameRecord : Serves(request) <=> Serves(request)'
           /\ \A seq \in Nat : Fresh(seq) <=> Fresh(seq)'
           /\ Kept /\ ServerInv => ServerInv'
<1>1. Quiet <=> Quiet'
  BY Zenon DEF Quiet
<1>2. \A request \in FrameRecord : Serves(request) <=> Serves(request)'
  BY DEF Serves, Carries, Fresh, AnswerTo, Known
<1>3. \A seq \in Nat : Fresh(seq) <=> Fresh(seq)'
  BY Zenon DEF Fresh
<1>4. ASSUME Kept, ServerInv PROVE ServerInv'
  <2>1. ServerNeverSeesReplay' /\ (worker'.pc # "gone" => worker'.decoder.sticky = "none")
    BY <1>4, Zenon DEF ServerInv, ServerNeverSeesReplay
  <2>2. CASE Quiet
    BY <2>1, <2>2, <1>1, Zenon DEF ServerInv
  <2>3. CASE \E request \in FrameRecord : Sendable(request) /\ Serves(request)
    <3>1. PICK request \in FrameRecord : Sendable(request) /\ Serves(request)
      BY <2>3, Zenon
    <3>2. Sendable(request)' /\ Serves(request)'
      BY <3>1, <1>2, <1>4, SendableKept, Zenon
    <3> QED  BY <2>1, <3>2, Zenon DEF ServerInv
  <2> QED  BY <1>4, <2>2, <2>3, Zenon DEF ServerInv
<1> QED  BY <1>1, <1>2, <1>3, <1>4, Zenon

\* A step that leaves the handshake and the sessions alone keeps what the handshake settled.
LEMMA SessionStill ==
    ASSUME Types, UNCHANGED <<handshaken, session, max_frame_payload, worker, sessions>>, Kept,
           SessionInv
    PROVE  SessionInv'
<1>1. \A i \in DOMAIN sessions : sessions[i] \in Nat
  BY DEF Types
<1> QED  BY <1>1, Zenon DEF SessionInv, Kept, Known, Types

-----------------------------------------------------------------------------
(* The client's steps. *)

\* The thread that a step changes is the only one that changes.
LEMMA Updated ==
    ASSUME Types, NEW t \in Threads, NEW call \in ThreadRecord,
           thread' = [thread EXCEPT ![t] = call]
    PROVE  /\ thread' \in [Threads -> ThreadRecord]
           /\ thread'[t] = call
           /\ \A u \in Threads \ {t} : thread'[u] = thread[u]
  BY Zenon DEF Types

\* A thread outside every call.
LEMMA IdleType == Idle \in ThreadRecord /\ Idle.pc = "idle"
<1>1. <<>> \in Seq(FrameRecord)
  OBVIOUS
<1> QED  BY <1>1, Zenon DEF Idle, ThreadRecord

\* After a call gives the mutex back every thread's call is in order.
LEMMA CallsReleased ==
    ASSUME Types, CallInv, NEW t \in Threads, thread[t].pc \in InCall, Kept, Returned(t), io' = None
    PROVE  /\ thread' \in [Threads -> ThreadRecord] /\ CallInv'
           /\ \A u \in Threads : thread'[u].pc \notin InCall
<1>1. thread' = [thread EXCEPT ![t] = Idle]
  BY Zenon DEF Returned
<1>2. /\ thread' \in [Threads -> ThreadRecord] /\ thread'[t] = Idle
      /\ \A u \in Threads \ {t} : thread'[u] = thread[u]
  BY <1>1, IdleType, Updated, Zenon
<1>3. io = t /\ None \notin Threads
  BY ClientAssumption, Zenon DEF CallInv, CallOK
<1>4. \A u \in Threads \ {t} : CallOK(u)'
  <2> SUFFICES ASSUME NEW u \in Threads \ {t} PROVE CallOK(u)'
    BY Zenon
  <2>1. CallOK(u) /\ thread'[u] = thread[u] /\ io' # u /\ io # u
    BY <1>2, <1>3, Zenon DEF CallInv
  <2> QED  BY <2>1, CallKept, Zenon
<1>5. CallOK(t)'
  BY <1>2, <1>3, IdleType, Zenon DEF CallOK, InCall
<1>6. CallInv'
  BY <1>4, <1>5, Zenon DEF CallInv
<1>7. \A u \in Threads : thread'[u].pc \notin InCall
  BY <1>2, <1>3, IdleType, OneCall, Zenon DEF InCall
<1> QED  BY <1>2, <1>6, <1>7, Zenon

\* A round trip that fails drops the connection; nobody uses it any more.
LEMMA DropInv ==
    ASSUME Types, Inv, NEW t \in Threads, thread[t].pc \in InCall, Drop(t),
           UNCHANGED <<handshaken, session, next_seq, sequence_exhausted, max_frame_payload, up,
                       worker, sessions>>,
           down' \in Seq(Cell), decoder' \in DecoderRecord
    PROVE  Types' /\ Inv'
<1>1. Kept
  BY KeptStill, Zenon
<1>2. /\ thread' \in [Threads -> ThreadRecord] /\ CallInv'
      /\ \A u \in Threads : thread'[u].pc \notin InCall
  BY <1>1, CallsReleased, Zenon DEF Drop, Inv
<1>3. Types'
  BY <1>2, Zenon DEF Drop, Types
<1>4. SessionInv' /\ ServerInv'
  BY <1>1, ServerStill, SessionStill, Zenon DEF Inv
<1>5. StreamInv'
  BY <1>2, Zenon DEF StreamInv, Waiting, Drop, InCall
<1> QED  BY <1>2, <1>3, <1>4, <1>5, Zenon DEF Inv

\* A call that ends well leaves nothing behind on the connection.
LEMMA ReturnInv ==
    ASSUME Types, Inv, NEW t \in Threads, thread[t].pc \in InCall, Returned(t), io' = None,
           Silence', Quiet, decoder' \in DecoderRecord, decoder'.sticky = "none", SessionInv',
           handshaken' \in BOOLEAN, session' \in Nat, max_frame_payload' \in Nat,
           UNCHANGED <<guard, next_seq, sequence_exhausted, up, down, worker, sessions>>
    PROVE  Types' /\ Inv'
<1>1. Kept
  BY KeptStill, Zenon
<1>2. /\ thread' \in [Threads -> ThreadRecord] /\ CallInv'
      /\ \A u \in Threads : thread'[u].pc \notin InCall
  BY <1>1, CallsReleased, Zenon DEF Inv
<1>3. Types'
  BY <1>2, Zenon DEF Types
<1>4. ServerInv' /\ Quiet'
  BY <1>1, ServerStill, Zenon DEF Inv
<1>5. StreamInv'
  BY <1>2, <1>4, Zenon DEF StreamInv, Waiting, InCall
<1> QED  BY <1>2, <1>3, <1>4, <1>5, Zenon DEF Inv

\* What a thread waits for stays as it is while nobody touches the connection.
LEMMA WaitKept ==
    ASSUME Types, NEW u \in Threads, CallOK(u), Waiting(u), WaitOK(u),
           thread'[u].request = thread[u].request,
           UNCHANGED <<decoder, up, down, worker, sessions>>
    PROVE  WaitOK(u)'
<1>1. PICK request \in FrameRecord : request = thread[u].request[1]
  <2>1. Len(thread[u].request) = 1
    BY Zenon DEF CallOK, Waiting
  <2>2. thread[u].request \in Seq(FrameRecord)
    BY Zenon DEF Types, ThreadRecord
  <2> QED  BY <2>1, <2>2
<1>2. (thread[u].request[1])' = request
  BY <1>1, Zenon
<1>3. WaitOK(u)
  BY Zenon
<1>4. CASE Silence /\ Serves(request)
  <2>1. Silence' /\ Serves(request)'
    BY <1>4, ServerStill, Zenon DEF Silence
  <2>2. Serves(thread[u].request[1])'
    BY <1>2, <2>1, Zenon DEF Serves, Carries, Fresh, AnswerTo, Known
  <2> QED  BY <1>3, <2>1, <2>2, Zenon DEF WaitOK
<1>5. CASE Quiet /\ Answered(u)
  <2>1. Quiet'
    BY <1>5, ServerStill, Zenon
  <2>2. Answered(u)'
    BY <1>5, <1>1, <1>2, Zenon DEF Answered, AnswerTo, Known, Carries
  <2> QED  BY <1>3, <2>1, <2>2, Zenon DEF WaitOK
<1> QED  BY <1>1, <1>3, <1>4, <1>5, Zenon DEF WaitOK

\* A step of a thread outside every round trip.
LEMMA OutsideInv ==
    ASSUME Types, Inv, NEW t \in Threads, NEW call \in ThreadRecord,
           thread' = [thread EXCEPT ![t] = call],
           thread[t].pc \notin InCall, call.pc \notin InCall,
           call.pc # "idle" => call.op \in Operations,
           Kept, next_seq' \in 1..UINT64_MAX, sequence_exhausted' \in BOOLEAN,
           UNCHANGED <<guard, io, handshaken, session, max_frame_payload, decoder, up, down, worker,
                       sessions>>
    PROVE  Types' /\ Inv'
<1>1. Kept
  BY Zenon
<1>2. /\ thread' \in [Threads -> ThreadRecord] /\ thread'[t] = call
      /\ \A u \in Threads \ {t} : thread'[u] = thread[u]
  BY Updated, Zenon
<1>3. Types'
  BY <1>2, Zenon DEF Types
<1>4. io # t /\ io' = io
  BY Zenon DEF Inv, CallInv, CallOK
<1>5. CallInv'
  <2>1. \A u \in Threads \ {t} : CallOK(u)'
    BY <1>1, <1>2, <1>4, CallKept, Zenon DEF Inv, CallInv
  <2>2. CallOK(t)'
    BY <1>2, <1>4, Zenon DEF CallOK, InCall
  <2> QED  BY <2>1, <2>2, Zenon DEF CallInv
<1>6. SessionInv' /\ ServerInv'
  BY <1>1, ServerStill, SessionStill, Zenon DEF Inv
<1>7. \A u \in Threads : Waiting(u) <=> Waiting(u)'
  BY <1>2, Zenon DEF Waiting, InCall
<1>8. \A u \in Threads : Waiting(u)' => WaitOK(u)'
  <2>1. ~Waiting(t)'
    BY <1>2, Zenon DEF Waiting, InCall
  <2>2. ASSUME NEW u \in Threads \ {t}, Waiting(u)' PROVE WaitOK(u)'
    <3>1. CallOK(u) /\ Waiting(u) /\ WaitOK(u) /\ thread'[u] = thread[u]
      BY <1>2, <1>7, <2>2, Zenon DEF Inv, CallInv, StreamInv
    <3> QED  BY <3>1, WaitKept, Zenon
  <2> QED  BY <2>1, <2>2, Zenon
<1>9. guard' = guard /\ (guard = "open" => decoder'.sticky = "none")
  BY Zenon DEF Inv, StreamInv
<1>10. (guard = "open" /\ \A u \in Threads : ~Waiting(u)') => Silence' /\ Quiet'
  BY <1>7, ServerStill, Zenon DEF Inv, StreamInv, Silence
<1>11. \A u \in Threads :
          (guard = "open" /\ thread'[u].pc = "sending") => Fresh(thread[u].request[1].seq)'
  <2> SUFFICES ASSUME NEW u \in Threads, guard = "open", thread'[u].pc = "sending"
               PROVE  Fresh(thread[u].request[1].seq)'
    BY Zenon
  <2>1. u # t /\ thread'[u] = thread[u]
    BY <1>2, Zenon DEF InCall
  <2>2. Fresh(thread[u].request[1].seq)
    BY <2>1, Zenon DEF Inv, StreamInv
  <2> QED  BY <2>1, <2>2, Zenon DEF Fresh
<1>12. StreamInv'
  BY <1>8, <1>9, <1>10, <1>11, Zenon DEF StreamInv
<1> QED  BY <1>3, <1>5, <1>6, <1>12, Zenon DEF Inv

\* A call goes to wait for the io mutex.
LEMMA EnterInv ==
    ASSUME Types, Inv, NEW t \in Threads, NEW op \in Operations, NEW size \in PayloadSizes(op),
           Enter(t, op, size)
    PROVE  Types' /\ Inv'
<1>1. thread[t] \in ThreadRecord /\ thread[t].pc = "idle"
  BY Zenon DEF Types, Enter
<1>2. /\ UNCHANGED <<clientVars, up, down, worker, sessions>>
      /\ thread' = [thread EXCEPT ![t].pc = "entered", ![t].op = op, ![t].size = size]
  BY Zenon DEF Enter, serverVars
<1>3. size \in Nat
  BY ClientAssumption DEF PayloadSizes, Operations
<1>4. PICK call : call = [thread[t] EXCEPT !.pc = "entered", !.op = op, !.size = size]
  BY Zenon
<1>5. call \in ThreadRecord /\ call.pc = "entered" /\ call.op = op
  BY <1>1, <1>3, <1>4, Zenon DEF ThreadRecord
<1>6. thread' = [thread EXCEPT ![t] = call]
  BY <1>2, <1>4, Zenon DEF Types
<1>7. Kept /\ next_seq' \in 1..UINT64_MAX /\ sequence_exhausted' \in BOOLEAN
  BY <1>2, KeptStill, Zenon DEF clientVars, Types
<1> QED  BY <1>1, <1>2, <1>5, <1>6, <1>7, OutsideInv, Zenon DEF InCall, clientVars

\* take_sequence hands out a sequence that no request had.
LEMMA SequenceTaken ==
    ASSUME Types, take_sequence, ~sequence_exhausted, UNCHANGED <<worker, sessions>>
    PROVE  /\ next_seq' \in 1..UINT64_MAX /\ sequence_exhausted' \in BOOLEAN
           /\ Kept /\ next_seq \in Nat \ {0}
           /\ \A seq \in Nat : seq = next_seq => Issued(seq)'
           /\ \A seq \in Nat : Issued(seq) => seq < next_seq
<1>1. next_seq \in Nat \ {0} /\ UINT64_MAX \in Nat /\ next_seq <= UINT64_MAX
  BY ClientAssumption DEF Types
<1>2. next_seq' \in 1..UINT64_MAX /\ sequence_exhausted' \in BOOLEAN
  <2>1. next_seq' \in 1..UINT64_MAX
    BY <1>1 DEF take_sequence
  <2>2. sequence_exhausted' \in BOOLEAN
    BY Zenon DEF take_sequence, Types
  <2> QED  BY <2>1, <2>2, Zenon
<1>3. \A seq \in Nat : Issued(seq) => seq < next_seq
  BY Zenon DEF Issued
<1>4. \A seq \in Nat : (seq < next_seq \/ seq = next_seq) =>
          seq < next_seq' \/ (sequence_exhausted' /\ seq = next_seq')
  BY <1>1 DEF take_sequence
<1>5. \A seq \in Nat : Issued(seq) => Issued(seq)'
  BY <1>3, <1>4, Zenon DEF Issued
<1>6. \A owner \in Nat : Known(owner) => Known(owner)'
  BY Zenon DEF Known
<1>7. \A seq \in Nat : seq = next_seq => Issued(seq)'
  BY <1>4, Zenon DEF Issued
<1> QED  BY <1>1, <1>2, <1>3, <1>5, <1>6, <1>7, Zenon DEF Kept

\* A call takes the mutex: it is refused and returns, or its one request is numbered, and sent
\* unless it is a Hello beyond the client's own bound.
LEMMA BeginInv ==
    ASSUME Types, Inv, NEW t \in Threads, Begin(t)
    PROVE  Types' /\ Inv'
<1> DEFINE call == thread[t]
<1>1. call \in ThreadRecord /\ call.pc = "entered" /\ io = None
  BY Zenon DEF Types, Begin
<1>2. UNCHANGED <<guard, handshaken, session, max_frame_payload, decoder, closer, up, down, worker,
                  sessions>>
  BY Zenon DEF Begin, serverVars
<1>3. CASE Refused(call)
  <2>1. thread' = [thread EXCEPT ![t] = Idle] /\ UNCHANGED <<io, next_seq, sequence_exhausted>>
    BY <1>3, Zenon DEF Begin, Returned
  <2>2. Kept /\ next_seq' \in 1..UINT64_MAX /\ sequence_exhausted' \in BOOLEAN
    BY <1>2, <2>1, KeptStill, Zenon DEF Types
  <2> QED  BY <1>1, <1>2, <2>1, <2>2, IdleType, OutsideInv, Zenon DEF InCall
<1>4. CASE ~Refused(call) /\ ~(call.size <= max_frame_payload)
  <2>1. thread' = [thread EXCEPT ![t] = Idle] /\ UNCHANGED io /\ take_sequence
    BY <1>4, Zenon DEF Begin, Returned
  <2>2. Kept /\ next_seq' \in 1..UINT64_MAX /\ sequence_exhausted' \in BOOLEAN
    BY <1>2, <1>4, <2>1, SequenceTaken, Zenon DEF Refused
  <2> QED  BY <1>1, <1>2, <2>1, <2>2, IdleType, OutsideInv, Zenon DEF InCall
<1>5. CASE ~Refused(call) /\ call.size <= max_frame_payload
  <2>1. io' = t /\ take_sequence /\ thread' = Requested(t)
    BY <1>5, Zenon DEF Begin
  <2>2. (call.op # "Hello" => handshaken) /\ ~sequence_exhausted
    BY <1>5, Zenon DEF Refused
  <2>3. /\ next_seq' \in 1..UINT64_MAX /\ sequence_exhausted' \in BOOLEAN
        /\ Kept /\ next_seq \in Nat \ {0}
        /\ \A seq \in Nat : seq = next_seq => Issued(seq)'
        /\ \A seq \in Nat : Issued(seq) => seq < next_seq
    BY <1>2, <2>1, <2>2, SequenceTaken, Zenon
  <2>4. call.op \in Operations /\ call.size \in Nat
    BY <1>1, Zenon DEF Inv, CallInv, CallOK, ThreadRecord
  <2>5. PICK request : request = Frame(call.op, IF call.op = "Hello" THEN 0 ELSE session,
                                       next_seq, call.size)
    BY Zenon
  <2>6. /\ request \in FrameRecord /\ request.type = call.op /\ request.size = call.size
        /\ request.seq = next_seq
        /\ call.op # "Hello" => request.session = session
    BY <2>3, <2>4, <2>5, Zenon DEF Frame, FrameRecord, Operations, Codes, Types
  <2>7. PICK c : c = [call EXCEPT !.pc = "sending", !.request = <<request>>]
    BY Zenon
  <2>8. /\ c \in ThreadRecord /\ c.pc = "sending" /\ c.request = <<request>> /\ c.op = call.op
        /\ c.size = call.size
    <3>1. <<request>> \in Seq(FrameRecord)
      BY <2>6
    <3> QED  BY <1>1, <2>7, <3>1, Zenon DEF ThreadRecord
  <2>9. thread' = [thread EXCEPT ![t] = c]
    BY <2>1, <2>5, <2>7, Zenon DEF Requested, Types
  <2>10. /\ thread' \in [Threads -> ThreadRecord] /\ thread'[t] = c
         /\ \A u \in Threads \ {t} : thread'[u] = thread[u]
    BY <2>8, <2>9, Updated, Zenon
  <2>11. Types'
    BY <1>2, <2>1, <2>3, <2>10, Zenon DEF Types
  <2>13. Sendable(request)'
    <3>1. request.type = "Query" => Known(request.session)'
      BY <1>2, <2>2, <2>6, Zenon DEF Inv, SessionInv, Known
    <3>2. Issued(request.seq)' /\ request.seq # 0
      BY <2>3, <2>6, Zenon
    <3> QED  BY <2>4, <2>6, <3>1, <3>2, Zenon DEF Sendable
  <2>14. \A u \in Threads : thread[u].pc \notin InCall
    BY <1>1, ClientAssumption, Zenon DEF Inv, CallInv, CallOK
  <2>15. CallInv'
    <3>1. ASSUME NEW u \in Threads \ {t} PROVE CallOK(u)'
      <4>1. CallOK(u) /\ thread'[u] = thread[u] /\ io # u /\ io' # u
        BY <1>1, <2>1, <2>10, ClientAssumption, Zenon DEF Inv, CallInv
      <4> QED  BY <2>3, <4>1, CallKept, Zenon
    <3>2. (thread[t].request[1])' = request /\ Len(thread'[t].request) = 1
      BY <2>8, <2>10
    <3>3. Sendable(thread[t].request[1])'
      BY <2>13, <3>2, Zenon DEF Sendable, Issued, Known
    <3>4. thread'[t].request[1].type = thread'[t].op
      BY <2>6, <2>8, <2>10, <3>2, Zenon
    <3>5. CallOK(t)'
      BY <2>1, <2>4, <2>8, <2>10, <3>2, <3>3, <3>4, Zenon DEF CallOK, InCall
    <3> QED  BY <3>1, <3>5, Zenon DEF CallInv
  <2>16. SessionInv' /\ ServerInv'
    BY <1>2, <2>3, ServerStill, SessionStill, Zenon DEF Inv
  <2>17. \A u \in Threads : ~Waiting(u) /\ ~Waiting(u)'
    BY <2>8, <2>10, <2>14, Zenon DEF Waiting, InCall
  <2>18. Fresh(next_seq)
    <3>1. \A i \in DOMAIN sessions : sessions[i] \in Nat
      BY DEF Types
    <3> QED  BY <2>3, <3>1, Zenon DEF Inv, SessionInv, Fresh
  <2>19. \A u \in Threads :
            thread'[u].pc = "sending" => Fresh(thread[u].request[1].seq)'
    <3> SUFFICES ASSUME NEW u \in Threads, thread'[u].pc = "sending"
                 PROVE  Fresh(thread[u].request[1].seq)'
      BY Zenon
    <3>1. u = t
      BY <2>10, <2>14, Zenon DEF InCall
    <3>2. (thread[u].request[1].seq)' = next_seq
      BY <2>6, <2>8, <2>10, <3>1
    <3> QED  BY <1>2, <2>18, <3>2, Zenon DEF Fresh
  <2>20. StreamInv'
    BY <1>2, <2>17, <2>19, ServerStill, Zenon DEF Inv, StreamInv, Silence
  <2> QED  BY <2>11, <2>15, <2>16, <2>20, Zenon DEF Inv
<1> QED  BY <1>3, <1>4, <1>5, Zenon

\* The holder of the mutex goes on waiting.
LEMMA HolderWaits ==
    ASSUME Types, CallInv, NEW t \in Threads, NEW pc \in {"decoding", "receiving"},
           thread[t].pc \in {"sending", "decoding", "receiving"},
           thread' = [thread EXCEPT ![t].pc = pc],
           UNCHANGED <<io, next_seq, sequence_exhausted, worker, sessions>>
    PROVE  /\ thread' \in [Threads -> ThreadRecord] /\ CallInv'
           /\ thread'[t].pc = pc /\ thread'[t].request = thread[t].request
           /\ \A u \in Threads \ {t} : thread'[u].pc \notin InCall
<1>1. PICK call : call = [thread[t] EXCEPT !.pc = pc]
  BY Zenon
<1>2. /\ call \in ThreadRecord /\ call.pc = pc /\ call.op = thread[t].op
      /\ call.size = thread[t].size /\ call.request = thread[t].request
  BY <1>1, Zenon DEF Types, ThreadRecord
<1>3. thread' = [thread EXCEPT ![t] = call]
  BY <1>1, Zenon DEF Types
<1>4. /\ thread' \in [Threads -> ThreadRecord] /\ thread'[t] = call
      /\ \A u \in Threads \ {t} : thread'[u] = thread[u]
  BY <1>2, <1>3, Updated, Zenon
<1>5. Kept
  BY KeptStill, Zenon
<1>6. io = t /\ io' = t /\ CallOK(t)
  BY Zenon DEF CallInv, CallOK, InCall
<1>7. ASSUME NEW u \in Threads \ {t} PROVE CallOK(u)' /\ thread'[u].pc \notin InCall
  <2>1. CallOK(u) /\ thread'[u] = thread[u] /\ thread[u].pc \notin InCall
    BY <1>4, <1>6, OneCall, Zenon DEF CallInv
  <2> QED  BY <1>5, <1>6, <2>1, CallKept, Zenon
<1>8. CallOK(t)'
  <2>1. /\ Len(thread[t].request) = 1 /\ thread[t].request[1].type = thread[t].op
        /\ Sendable(thread[t].request[1]) /\ thread[t].op \in Operations
    BY <1>6, Zenon DEF CallOK
  <2>2. Sendable(thread[t].request[1])'
    BY <1>2, <1>4, <2>1, Zenon DEF Sendable, Known, Issued
  <2> QED  BY <1>2, <1>4, <1>6, <2>1, <2>2, Zenon DEF CallOK, InCall
<1> QED  BY <1>2, <1>4, <1>7, <1>8, Zenon DEF CallInv

\* A thread between sending and its answer has one request.
LEMMA RequestType ==
    ASSUME Types, CallInv, NEW t \in Threads,
           thread[t].pc \in {"sending", "decoding", "receiving"}
    PROVE  /\ thread[t].request[1] \in FrameRecord /\ Sendable(thread[t].request[1])
           /\ thread[t].request[1].type = thread[t].op
<1>1. /\ Len(thread[t].request) = 1 /\ Sendable(thread[t].request[1])
      /\ thread[t].request[1].type = thread[t].op
  BY Zenon DEF CallInv, CallOK
<1>2. thread[t].request \in Seq(FrameRecord)
  BY Zenon DEF Types, ThreadRecord
<1> QED  BY <1>1, <1>2

\* send_all puts the whole frame on a quiet connection, or the call drops the connection.
LEMMA SendInv ==
    ASSUME Types, Inv, NEW t \in Threads, Send(t)
    PROVE  Types' /\ Inv'
<1>1. thread[t].pc = "sending" /\ thread[t].pc \in InCall
  BY Zenon DEF Send, InCall
<1>2. UNCHANGED <<handshaken, session, next_seq, sequence_exhausted, max_frame_payload, decoder,
                  down, worker, sessions>>
  BY Zenon DEF Send, serverVars
<1>3. PICK request \in FrameRecord : request = thread[t].request[1] /\ Sendable(request)
  BY <1>1, RequestType, Zenon DEF Inv
<1>4. CASE Drop(t) /\ UNCHANGED up
  BY <1>1, <1>2, <1>4, DropInv, Zenon DEF Types
<1>5. CASE /\ guard = "open" /\ up' = up \o encode_frame(request)
           /\ thread' = [thread EXCEPT ![t].pc = "decoding"]
           /\ UNCHANGED <<guard, io>>
  <2>1. /\ thread' \in [Threads -> ThreadRecord] /\ CallInv'
        /\ thread'[t].pc = "decoding" /\ thread'[t].request = thread[t].request
        /\ \A u \in Threads \ {t} : thread'[u].pc \notin InCall
    BY <1>1, <1>2, <1>5, HolderWaits, Zenon DEF Inv
  <2>2. encode_frame(request) \in Seq(Cell)
    BY Encodes, Zenon
  <2>3. Types'
    <3>1. up' \in Seq(Cell)
      BY <1>5, <2>2 DEF Types
    <3> QED  BY <1>2, <1>5, <2>1, <3>1, Zenon DEF Types
  <2>4. Silence /\ Quiet /\ Fresh(request.seq) /\ decoder.sticky = "none"
    <3>1. io = t
      BY <1>1, Zenon DEF Inv, CallInv, CallOK
    <3>2. \A u \in Threads : ~Waiting(u)
      BY <1>1, <3>1, OneCall, Zenon DEF Inv, Waiting, InCall
    <3> QED  BY <1>1, <1>3, <1>5, <3>2, Zenon DEF Inv, StreamInv
  <2>5. Serves(request)'
    <3> SUFFICES ASSUME worker'.pc # "gone" PROVE Serves(request)'
      BY Zenon DEF Serves
    <3>1. worker.pc \in {"queued", "top", "reading"} /\ worker.decoder.buffer = <<>> /\ up = <<>>
      BY <1>2, <2>4, Zenon DEF Quiet
    <3>2. Carries(worker'.decoder.buffer, up', request)
      BY <1>2, <1>5, <3>1, Encodes, Zenon
    <3>3. Carries(worker.decoder.buffer, up, request)' /\ Fresh(request.seq)'
      BY <1>2, <2>4, <3>2, Zenon DEF Carries, Fresh
    <3> QED  BY <1>2, <3>1, <3>3, Zenon DEF Serves
  <2>6. Kept /\ SessionInv'
    BY <1>2, KeptStill, SessionStill, Zenon DEF Inv
  <2>7. ServerInv'
    <3>1. Sendable(request)'
      BY <1>3, <2>6, SendableKept, Zenon
    <3>2. (worker'.pc # "gone" => worker'.decoder.sticky = "none") /\ ServerNeverSeesReplay'
      BY <1>2, Zenon DEF Inv, ServerInv, ServerNeverSeesReplay
    <3> QED  BY <2>5, <3>1, <3>2, Zenon DEF ServerInv
  <2>8. WaitOK(t)'
    <3>1. (thread[t].request[1])' = request
      BY <1>3, <2>1, Zenon
    <3>2. Serves(thread[t].request[1])'
      BY <2>5, <3>1, Zenon DEF Serves, Carries, Fresh, AnswerTo, Known
    <3> QED  BY <1>2, <2>4, <3>2, Zenon DEF WaitOK, Silence
  <2>9. Waiting(t)' /\ \A u \in Threads \ {t} : ~Waiting(u)' /\ thread'[u].pc # "sending"
    BY <2>1, Zenon DEF Waiting, InCall
  <2>10. StreamInv'
    BY <1>2, <2>1, <2>4, <2>8, <2>9, Zenon DEF StreamInv
  <2> QED  BY <2>1, <2>3, <2>6, <2>7, <2>10, Zenon DEF Inv
<1> QED  BY <1>3, <1>4, <1>5, Zenon DEF Send

\* A thread that waits goes on waiting, with its request at the server or its answer on the way.
LEMMA WaitingInv ==
    ASSUME Types, Inv, NEW t \in Threads, NEW pc \in {"decoding", "receiving"}, Waiting(t),
           thread' = [thread EXCEPT ![t].pc = pc],
           UNCHANGED <<guard, io, handshaken, session, next_seq, sequence_exhausted,
                       max_frame_payload, up, worker, sessions>>,
           decoder' \in DecoderRecord, down' \in Seq(Cell), WaitOK(t)'
    PROVE  Types' /\ Inv'
<1>1. /\ thread' \in [Threads -> ThreadRecord] /\ CallInv'
      /\ thread'[t].pc = pc /\ thread'[t].request = thread[t].request
      /\ \A u \in Threads \ {t} : thread'[u].pc \notin InCall
  BY HolderWaits, Zenon DEF Inv, Waiting
<1>2. Types'
  BY <1>1, Zenon DEF Types
<1>3. SessionInv' /\ ServerInv'
  BY KeptStill, SessionStill, ServerStill, Zenon DEF Inv
<1>4. Waiting(t)' /\ \A u \in Threads \ {t} : ~Waiting(u)' /\ thread'[u].pc # "sending"
  BY <1>1, Zenon DEF Waiting, InCall
<1>5. decoder'.sticky = "none"
  BY Zenon DEF WaitOK
<1>6. StreamInv'
  BY <1>1, <1>4, <1>5, Zenon DEF StreamInv
<1> QED  BY <1>1, <1>2, <1>3, <1>6, Zenon DEF Inv

\* What the decoder has for a thread that waits: part of its answer, the whole of it and nothing
\* behind it, or an answer beyond the decoder's bound.
LEMMA WaitDecodes ==
    ASSUME Types, Inv, NEW t \in Threads, Waiting(t)
    PROVE  \/ /\ next_result(decoder, decoder_ceiling).disposition = "Incomplete"
              /\ next_decoder(decoder, decoder_ceiling) = decoder
           \/ /\ Quiet /\ down = <<>>
              /\ next_result(decoder, decoder_ceiling).disposition = "Complete"
              /\ next_decoder(decoder, decoder_ceiling) = NewDecoder
              /\ \E answer \in FrameRecord :
                     /\ AnswerTo(thread[t].request[1], answer)
                     /\ next_result(decoder, decoder_ceiling).frames = <<answer>>
           \/ /\ next_result(decoder, decoder_ceiling).disposition = "Corrupt"
              /\ next_decoder(decoder, decoder_ceiling) \in DecoderRecord
<1>1. /\ decoder \in DecoderRecord /\ decoder.sticky = "none" /\ down \in Seq(Cell)
      /\ decoder_ceiling \in Nat
  BY ClientAssumption, Zenon DEF Types, Inv, StreamInv, WaitOK
<1>2. CASE Silence
  BY <1>1, <1>2, DecodesNothing, Zenon DEF Silence
<1>3. CASE Quiet /\ Answered(t)
  <2>1. PICK answer \in FrameRecord :
            AnswerTo(thread[t].request[1], answer) /\ Carries(decoder.buffer, down, answer)
    BY <1>3, Zenon DEF Answered
  <2> QED  BY <1>1, <1>3, <2>1, DecodesFrame, Zenon
<1> QED  BY <1>2, <1>3, Zenon DEF Inv, StreamInv, WaitOK

\* The frame that the client's decoder hands out is the whole answer to the one request.
LEMMA DecodeInv ==
    ASSUME Types, Inv, NEW t \in Threads, Decode(t)
    PROVE  Types' /\ Inv'
<1> DEFINE result == next_result(decoder, decoder_ceiling)
<1>1. Waiting(t) /\ thread[t].pc \in InCall
  BY Zenon DEF Decode, Waiting, InCall
<1>2. /\ UNCHANGED <<handshaken, session, next_seq, sequence_exhausted, max_frame_payload, up, down,
                     worker, sessions>>
      /\ decoder' = next_decoder(decoder, decoder_ceiling)
  BY Zenon DEF Decode, serverVars
<1>3. CASE result.disposition = "Incomplete" /\ decoder' = decoder
  <2>1. thread' = [thread EXCEPT ![t].pc = "receiving"] /\ UNCHANGED <<guard, io>>
    BY <1>3, Zenon DEF Decode
  <2>2. thread'[t].request = thread[t].request
    BY <2>1, Zenon DEF Types, ThreadRecord
  <2>3. WaitOK(t) /\ CallOK(t)
    BY <1>1, Zenon DEF Inv, CallInv, StreamInv
  <2>4. WaitOK(t)'
    BY <1>1, <1>2, <1>3, <2>2, <2>3, WaitKept, Zenon
  <2> QED  BY <1>1, <1>2, <1>3, <2>1, <2>4, WaitingInv, Zenon DEF Types
<1>4. CASE /\ Quiet /\ down = <<>> /\ result.disposition = "Complete" /\ decoder' = NewDecoder
           /\ \E answer \in FrameRecord :
                  AnswerTo(thread[t].request[1], answer) /\ result.frames = <<answer>>
  <2>1. PICK answer \in FrameRecord :
            AnswerTo(thread[t].request[1], answer) /\ result.frames = <<answer>>
    BY <1>4, Zenon
  <2>2. UNCHANGED guard /\ Delivered(t, answer)
    BY <1>4, <2>1, SMTT(20) DEF Decode
  <2>3. /\ decoder' \in DecoderRecord /\ decoder'.sticky = "none" /\ Silence'
    <3>1. <<>> \in Seq(Cell)
      OBVIOUS
    <3> QED  BY <1>2, <1>4, <3>1 DEF Silence, NewDecoder, DecoderRecord
  <2>4. Kept /\ SessionInv'
    BY <1>2, KeptStill, SessionStill, Zenon DEF Inv
  <2>5. CASE Returned(t) /\ io' = None
    BY <1>1, <1>2, <1>4, <2>2, <2>3, <2>4, <2>5, ReturnInv, Zenon DEF Types
  <2>6. CASE /\ answer.grant # 0
             /\ thread' = [thread EXCEPT ![t].pc = "adopting", ![t].grant = answer.grant]
             /\ UNCHANGED io
    <3>1. PICK call : call = [thread[t] EXCEPT !.pc = "adopting", !.grant = answer.grant]
      BY Zenon
    <3>2. /\ call \in ThreadRecord /\ call.pc = "adopting" /\ call.op = thread[t].op
          /\ call.size = thread[t].size /\ call.grant = answer.grant
      BY <3>1, Zenon DEF Types, ThreadRecord, FrameRecord
    <3>3. thread' = [thread EXCEPT ![t] = call]
      BY <2>6, <3>1, Zenon DEF Types
    <3>4. /\ thread' \in [Threads -> ThreadRecord] /\ thread'[t] = call
          /\ \A u \in Threads \ {t} : thread'[u] = thread[u]
      BY <3>2, <3>3, Updated, Zenon
    <3>5. Types'
      BY <1>2, <2>2, <2>3, <2>6, <3>4, Zenon DEF Types
    <3>6. io = t /\ io' = t /\ CallOK(t)
      BY <1>1, <2>6, Zenon DEF Inv, CallInv, CallOK
    <3>7. ASSUME NEW u \in Threads \ {t} PROVE CallOK(u)' /\ thread'[u].pc \notin InCall
      <4>1. CallOK(u) /\ thread'[u] = thread[u] /\ thread[u].pc \notin InCall
        BY <3>4, <3>6, OneCall, Zenon DEF Inv, CallInv
      <4> QED  BY <2>4, <3>6, <4>1, CallKept, Zenon
    <3>8. CallOK(t)'
      <4>1. Known(answer.grant)'
        BY <1>2, <2>1, <2>6, Zenon DEF AnswerTo, Known
      <4>2. Known(thread[t].grant)'
        BY <3>2, <3>4, <4>1, Zenon DEF Known
      <4>3. thread[t].op \in Operations
        BY <1>1, <3>6, Zenon DEF CallOK, InCall
      <4> QED  BY <3>2, <3>4, <3>6, <4>2, <4>3, Zenon DEF CallOK, InCall
    <3>9. CallInv'
      BY <3>7, <3>8, Zenon DEF CallInv
    <3>10. ServerInv' /\ Quiet'
      BY <1>2, <1>4, <2>4, ServerStill, Zenon DEF Inv
    <3>11. \A u \in Threads : ~Waiting(u)' /\ thread'[u].pc # "sending"
      BY <3>2, <3>4, <3>7, Zenon DEF Waiting, InCall
    <3>12. StreamInv'
      BY <2>3, <3>10, <3>11, Zenon DEF StreamInv
    <3> QED  BY <2>4, <3>5, <3>9, <3>10, <3>12, Zenon DEF Inv
  <2> QED  BY <2>2, <2>5, <2>6, Zenon DEF Delivered
<1>5. CASE result.disposition = "Corrupt" /\ decoder' \in DecoderRecord
  <2>1. Drop(t)
    BY <1>5, Zenon DEF Decode
  <2> QED  BY <1>1, <1>2, <1>5, <2>1, DropInv, Zenon DEF Types
<1> QED  BY <1>1, <1>2, <1>3, <1>4, <1>5, WaitDecodes, Zenon

\* A chunk of the answer moves into the decoder, or the stream ends and the call drops it.
LEMMA ReceiveInv ==
    ASSUME Types, Inv, NEW t \in Threads, Receive(t)
    PROVE  Types' /\ Inv'
<1>1. Waiting(t) /\ thread[t].pc \in InCall /\ WaitOK(t)
  BY Zenon DEF Receive, Waiting, InCall, Inv, StreamInv
<1>2. UNCHANGED <<handshaken, session, next_seq, sequence_exhausted, max_frame_payload, up, worker,
                  sessions>>
  BY Zenon DEF Receive, serverVars
<1>3. decoder \in DecoderRecord /\ decoder.buffer \in Seq(Cell) /\ down \in Seq(Cell)
  BY Zenon DEF Types, DecoderRecord
<1>4. CASE Drop(t) /\ UNCHANGED <<down, decoder>>
  BY <1>1, <1>2, <1>3, <1>4, DropInv, Zenon
<1>5. ASSUME NEW n \in 1..Len(down), down' = SubSeq(down, n + 1, Len(down)),
             IF feed_accepts(decoder, SubSeq(down, 1, n), decoder_ceiling)
             THEN /\ decoder' = feed(decoder, SubSeq(down, 1, n), decoder_ceiling)
                  /\ thread' = [thread EXCEPT ![t].pc = "decoding"]
                  /\ UNCHANGED <<guard, io>>
             ELSE Drop(t) /\ UNCHANGED decoder
      PROVE  Types' /\ Inv'
  <2>1. Quiet /\ Answered(t)
    <3>1. ~Silence
      BY <1>3, <1>5 DEF Silence
    <3> QED  BY <1>1, <3>1, Zenon DEF WaitOK
  <2>2. PICK answer \in FrameRecord :
            AnswerTo(thread[t].request[1], answer) /\ Carries(decoder.buffer, down, answer)
    BY <2>1, Zenon DEF Answered
  <2>3. PICK buffer : buffer = decoder.buffer \o SubSeq(down, 1, n)
    BY Zenon
  <2>4. buffer \in Seq(Cell) /\ down' \in Seq(Cell) /\ Carries(buffer, down', answer)
    BY <1>3, <1>5, <2>2, <2>3, Moves, Zenon
  <2>5. CASE feed_accepts(decoder, SubSeq(down, 1, n), decoder_ceiling)
    <3>1. /\ decoder' = [decoder EXCEPT !.buffer = buffer]
          /\ thread' = [thread EXCEPT ![t].pc = "decoding"] /\ UNCHANGED <<guard, io>>
      BY <1>5, <2>3, <2>5, Zenon DEF feed
    <3>2. /\ decoder' \in DecoderRecord /\ decoder'.buffer = buffer /\ decoder'.sticky = "none"
      BY <1>1, <1>3, <2>4, <3>1, Zenon DEF DecoderRecord, WaitOK
    <3>3. thread'[t].request = thread[t].request
      BY <3>1, Zenon DEF Types, ThreadRecord
    <3>4. AnswerTo(thread[t].request[1], answer)'
      BY <1>2, <2>2, <3>3, Zenon DEF AnswerTo, Known
    <3>5. Carries(decoder.buffer, down, answer)'
      BY <2>4, <3>2, Zenon DEF Carries
    <3>6. Quiet' /\ Answered(t)'
      BY <1>2, <2>1, <3>4, <3>5, ServerStill, Zenon DEF Answered
    <3>7. WaitOK(t)'
      BY <3>2, <3>6, Zenon DEF WaitOK
    <3> QED  BY <1>1, <1>2, <2>4, <3>1, <3>2, <3>7, WaitingInv, Zenon
  <2>6. CASE ~feed_accepts(decoder, SubSeq(down, 1, n), decoder_ceiling)
    BY <1>1, <1>2, <1>3, <1>5, <2>4, <2>6, DropInv, Zenon
  <2> QED  BY <2>5, <2>6, Zenon
<1> QED  BY <1>4, <1>5, Zenon DEF Receive

\* handshake adopts a session that the server opened.
LEMMA AdoptInv ==
    ASSUME Types, Inv, NEW t \in Threads, Adopt(t)
    PROVE  Types' /\ Inv'
<1>1. thread[t].pc = "adopting" /\ thread[t].pc \in InCall
  BY Zenon DEF Adopt, InCall
<1>2. /\ UNCHANGED <<guard, next_seq, sequence_exhausted, decoder, up, down, worker, sessions>>
      /\ handshaken' = TRUE /\ session' = thread[t].grant /\ io' = None /\ Returned(t)
  BY Zenon DEF Adopt, serverVars
<1>3. max_frame_payload' \in Nat
  BY ClientAssumption DEF Adopt, Types
<1>4. session' \in Nat /\ Known(session)'
  <2>1. thread[t].grant \in Nat
    BY Zenon DEF Types, ThreadRecord
  <2>2. Known(thread[t].grant)
    BY <1>1, Zenon DEF Inv, CallInv, CallOK
  <2> QED  BY <1>2, <2>1, <2>2, Zenon DEF Known
<1>5. Kept
  BY <1>2, KeptStill, Zenon
<1>6. SessionInv'
  BY <1>2, <1>4, Zenon DEF Inv, SessionInv, Issued
<1>7. Types'
  BY <1>2, <1>3, <1>4, <1>5, CallsReleased, <1>1, Zenon DEF Types, Inv
<1>8. /\ CallInv' /\ \A u \in Threads : thread'[u].pc \notin InCall
  BY <1>1, <1>2, <1>5, CallsReleased, Zenon DEF Inv
<1>9. ServerInv' /\ (Quiet => Quiet')
  BY <1>2, <1>5, ServerStill, Zenon DEF Inv
<1>10. io = t
  BY <1>1, Zenon DEF Inv, CallInv, CallOK
<1>11. \A u \in Threads : ~Waiting(u)
  BY <1>1, <1>10, OneCall, Zenon DEF Inv, Waiting, InCall
<1>12. StreamInv'
  BY <1>2, <1>8, <1>9, <1>11, Zenon DEF Inv, StreamInv, Waiting, InCall, Silence
<1> QED  BY <1>6, <1>7, <1>8, <1>9, <1>12, Zenon DEF Inv

\* A step that only closes the client, or touches nothing that the invariant speaks of.
LEMMA CloseInv ==
    ASSUME Types, Inv, guard' \in {guard, "closing"}, handshaken' \in {handshaken, FALSE},
           UNCHANGED <<io, session, next_seq, sequence_exhausted, max_frame_payload, decoder,
                       thread, up, down, worker, sessions>>
    PROVE  Types' /\ Inv'
<1>1. Types'
  BY Zenon DEF Types
<1>2. Kept
  BY KeptStill, Zenon
<1>3. CallInv'
  BY <1>2, CallKept, Zenon DEF Inv, CallInv
<1>4. SessionInv'
  <2>1. handshaken' => handshaken
    BY Zenon DEF Types
  <2> QED  BY <2>1, Zenon DEF Inv, SessionInv, Known, Issued
<1>5. ServerInv' /\ (Quiet => Quiet')
  BY <1>2, ServerStill, Zenon DEF Inv
<1>6. \A t \in Threads : Waiting(t) <=> Waiting(t)'
  BY Zenon DEF Waiting
<1>7. ASSUME NEW t \in Threads, Waiting(t)' PROVE WaitOK(t)'
  <2>1. CallOK(t) /\ Waiting(t) /\ WaitOK(t)
    BY <1>6, <1>7, Zenon DEF Inv, CallInv, StreamInv
  <2> QED  BY <2>1, WaitKept, Zenon
<1>8. guard' = "open" => guard = "open"
  BY Zenon
<1>9. \A t \in Threads :
         (guard' = "open" /\ thread'[t].pc = "sending") => Fresh(thread[t].request[1].seq)'
  BY <1>8, Zenon DEF Inv, StreamInv, Fresh
<1>10. StreamInv'
  BY <1>5, <1>6, <1>7, <1>8, <1>9, Zenon DEF Inv, StreamInv, Silence
<1> QED  BY <1>1, <1>3, <1>4, <1>5, <1>10, Zenon DEF Inv
-----------------------------------------------------------------------------
(* The server's steps. *)

\* A request stays with the server, or its answer goes out.
ServedOn(request) ==
    \/ Serves(request)' /\ down' = down
    \/ /\ Quiet'
       /\ \E answer \in FrameRecord :
              AnswerTo(request, answer)' /\ down' = down \o encode_frame(answer)

\* A step of the server keeps the invariant if it keeps its half of the connection in order.
LEMMA ServerStepInv ==
    ASSUME Types, Inv, UNCHANGED <<clientVars, thread>>,
           worker' \in WorkerRecord, sessions' \in Seq(Nat), up' \in Seq(Cell),
           down' \in Seq(Cell),
           worker'.pc # "gone" => worker'.decoder.sticky = "none", ServerNeverSeesReplay', Kept,
           worker'.pc # "gone" => \A i \in DOMAIN sessions' : Issued(sessions'[i]),
           Quiet => Quiet' /\ down' = down /\ \A seq \in Nat : Fresh(seq) => Fresh(seq)',
           \A request \in FrameRecord : Sendable(request) /\ Serves(request) => ServedOn(request)
    PROVE  Types' /\ Inv'
<1>1. Types'
  BY Zenon DEF Types, clientVars
<1>2. CallInv'
  BY CallKept, Zenon DEF Inv, CallInv, clientVars
<1>3. SessionInv'
  <2>1. handshaken' => Known(session)'
    BY Zenon DEF Inv, SessionInv, Kept, Types, clientVars, Known
  <2>2. worker'.pc # "gone" => \A i \in DOMAIN sessions' : Issued(sessions[i])'
    BY Zenon DEF Issued, clientVars
  <2> QED  BY <2>1, <2>2, Zenon DEF SessionInv
<1>4. ServerInv'
  <2>1. CASE Quiet
    BY <2>1, Zenon DEF ServerInv
  <2>2. CASE \E request \in FrameRecord : Sendable(request) /\ Serves(request)
    <3>1. PICK request \in FrameRecord : Sendable(request) /\ Serves(request)
      BY <2>2, Zenon
    <3>2. Sendable(request)' /\ ServedOn(request)
      BY <3>1, SendableKept, Zenon
    <3> QED  BY <3>2, Zenon DEF ServedOn, ServerInv
  <2> QED  BY <2>1, <2>2, Zenon DEF Inv, ServerInv
<1>5. guard' = guard /\ decoder' = decoder /\ \A t \in Threads : Waiting(t) <=> Waiting(t)'
  BY Zenon DEF clientVars, Waiting
<1>6. ASSUME NEW t \in Threads, Waiting(t) PROVE WaitOK(t)'
  <2>1. WaitOK(t)
    BY <1>6, Zenon DEF Inv, StreamInv
  <2>2. PICK request \in FrameRecord : request = thread[t].request[1] /\ Sendable(request)
    BY <1>6, RequestType, Zenon DEF Inv, Waiting
  <2>3. (thread[t].request[1])' = request
    BY <2>2, Zenon
  <2>4. CASE Silence /\ Serves(request)
    <3>1. ServedOn(request)
      BY <2>2, <2>4, Zenon
    <3>2. CASE Serves(request)' /\ down' = down
      <4>1. Serves(thread[t].request[1])'
        BY <2>3, <3>2, Zenon DEF Serves, Carries, Fresh, AnswerTo, Known
      <4> QED  BY <1>5, <2>1, <2>4, <3>2, <4>1, Zenon DEF WaitOK, Silence
    <3>3. CASE /\ Quiet'
               /\ \E answer \in FrameRecord :
                      AnswerTo(request, answer)' /\ down' = down \o encode_frame(answer)
      <4>1. PICK answer \in FrameRecord :
                AnswerTo(request, answer)' /\ down' = down \o encode_frame(answer)
        BY <3>3, Zenon
      <4>2. AnswerTo(thread[t].request[1], answer)'
        BY <2>3, <4>1, Zenon DEF AnswerTo, Known
      <4>3. Carries(decoder.buffer, down, answer)'
        <5>1. Carries(<<>>, down', answer) /\ decoder'.buffer = <<>>
          BY <1>5, <2>4, <4>1, Encodes, Zenon DEF Silence
        <5> QED  BY <5>1, Zenon DEF Carries
      <4>4. Answered(t)'
        BY <4>2, <4>3, Zenon DEF Answered
      <4> QED  BY <1>5, <2>1, <3>3, <4>4, Zenon DEF WaitOK
    <3> QED  BY <3>1, <3>2, <3>3, Zenon DEF ServedOn
  <2>5. CASE Quiet /\ Answered(t)
    <3>1. PICK answer \in FrameRecord :
              AnswerTo(request, answer) /\ Carries(decoder.buffer, down, answer)
      BY <2>2, <2>5, Zenon DEF Answered
    <3>2. answer.grant \in Nat
      BY Zenon DEF FrameRecord
    <3>3. AnswerTo(thread[t].request[1], answer)'
      BY <2>3, <3>1, <3>2, Zenon DEF AnswerTo, Kept, Known
    <3>4. Quiet' /\ Carries(decoder.buffer, down, answer)'
      <4>1. Quiet' /\ decoder'.buffer = decoder.buffer /\ down' = down
        BY <1>5, <2>5, Zenon
      <4> QED  BY <3>1, <4>1, Zenon DEF Carries
    <3>5. Answered(t)'
      BY <3>3, <3>4, Zenon DEF Answered
    <3> QED  BY <1>5, <2>1, <3>4, <3>5, Zenon DEF WaitOK
  <2> QED  BY <2>1, <2>2, <2>4, <2>5, Zenon DEF WaitOK
<1>7. (guard = "open" /\ \A t \in Threads : ~Waiting(t)) => Silence' /\ Quiet'
  BY <1>5, Zenon DEF Inv, StreamInv, Silence
<1>8. ASSUME NEW t \in Threads, guard = "open", thread[t].pc = "sending"
      PROVE  Fresh(thread[t].request[1].seq)'
  <2>1. io = t /\ thread[t].pc \in InCall
    BY <1>8, Zenon DEF Inv, CallInv, CallOK, InCall
  <2>2. \A u \in Threads : ~Waiting(u)
    BY <1>8, <2>1, OneCall, Zenon DEF Inv, Waiting, InCall
  <2>3. Quiet /\ Fresh(thread[t].request[1].seq)
    BY <1>8, <2>2, Zenon DEF Inv, StreamInv
  <2>4. thread[t].request[1].seq \in Nat
    BY <1>8, RequestType, Zenon DEF Inv, FrameRecord
  <2>5. PICK seq \in Nat : seq = thread[t].request[1].seq /\ Fresh(seq)'
    BY <2>3, <2>4, Zenon
  <2>6. (thread[t].request[1].seq)' = seq
    BY <2>5, Zenon
  <2> QED  BY <2>5, <2>6, Zenon DEF Fresh
<1>9. StreamInv'
  BY <1>5, <1>6, <1>7, <1>8, Zenon DEF Inv, StreamInv
<1> QED  BY <1>1, <1>2, <1>3, <1>4, <1>9, Zenon DEF Inv

\* Once the worker is gone the server owes the client nothing.
LEMMA GoneInv ==
    ASSUME Types, Inv, UNCHANGED <<clientVars, thread, down>>, up' \in Seq(Cell),
           sessions' \in Seq(Nat), NEW decoded \in DecoderRecord, worker' = Gone(decoded)
    PROVE  Types' /\ Inv'
<1>1. worker' \in WorkerRecord /\ worker'.pc = "gone" /\ worker'.response = <<>>
  <2>1. <<>> \in Seq(Cell) /\ <<>> \in Seq(FrameRecord)
    OBVIOUS
  <2>2. [buffer |-> <<>>, sticky |-> decoded.sticky] \in DecoderRecord
    BY <2>1, Zenon DEF DecoderRecord
  <2> QED  BY <2>1, <2>2, Zenon DEF Gone, WorkerRecord
<1>2. ServerNeverSeesReplay'
  BY <1>1 DEF ServerNeverSeesReplay
<1>3. Kept
  BY <1>1, Zenon DEF Kept, Issued, Known, clientVars
<1>4. /\ Quiet' /\ \A seq \in Nat : Fresh(seq)'
      /\ \A request \in FrameRecord : Serves(request)'
  BY <1>1, Zenon DEF Quiet, Fresh, Serves
<1>5. \A request \in FrameRecord : ServedOn(request)
  BY <1>4, Zenon DEF ServedOn
<1>6. down' \in Seq(Cell)
  BY Zenon DEF Types
<1> QED  BY <1>1, <1>2, <1>3, <1>4, <1>5, <1>6, ServerStepInv, Zenon

\* What the worker is after it asked its decoder: waiting for more, with the request whole, or gone
\* because the request is beyond the server's bound.
Asked(fed) ==
    \/ worker' = [worker EXCEPT !.pc = "reading", !.decoder = fed]
    \/ \E request \in FrameRecord :
          /\ ~Quiet /\ up' = <<>>
          /\ worker' = [worker EXCEPT !.pc = "handling", !.decoder = NewDecoder,
                                       !.request = <<request>>]
          /\ \A r \in FrameRecord : Sendable(r) /\ Serves(r) => r = request
          /\ Serves(request)
    \/ \E request \in FrameRecord, decoded \in DecoderRecord :
          /\ ~Quiet /\ Carries(fed.buffer, up', request) /\ fed.buffer # <<>>
          /\ request.size > server_ceiling
          /\ worker' = Gone(decoded)
LEMMA ServerAsked ==
    ASSUME Types, Inv, worker.pc \in {"queued", "top", "reading"},
           NEW fed \in DecoderRecord, fed.sticky = "none", up' \in Seq(Cell), ServerDecodes(fed),
           Quiet => fed.buffer = <<>> /\ up' = <<>>,
           \A request \in FrameRecord : Serves(request) => Carries(fed.buffer, up', request)
    PROVE  Asked(fed)
<1> DEFINE result == next_result(fed, server_ceiling)
           left == next_decoder(fed, server_ceiling)
<1>1. server_ceiling \in Nat
  BY ClientAssumption
<1>2. ASSUME NEW request \in FrameRecord, Serves(request)
      PROVE  \/ result.disposition = "Incomplete" /\ left = fed
             \/ /\ result.disposition = "Complete" /\ result.frames = <<request>>
                /\ left = NewDecoder /\ up' = <<>>
             \/ /\ result.disposition = "Corrupt" /\ request.size > server_ceiling
                /\ left \in DecoderRecord
  <2>1. Carries(fed.buffer, up', request)
    BY <1>2, Zenon
  <2> QED  BY <1>1, <2>1, DecodesFrame, Zenon
<1>3. fed.buffer = <<>> => result.disposition = "Incomplete" /\ left = fed
  BY <1>1, DecodesNothing, Zenon
<1>4. CASE result.disposition = "Incomplete" /\ left = fed
  <2>1. worker' = [worker EXCEPT !.pc = "reading", !.decoder = fed]
    BY <1>4, Zenon DEF ServerDecodes
  <2> QED  BY <2>1, Zenon DEF Asked
<1>5. CASE ~Quiet
  <2>1. PICK request \in FrameRecord : Sendable(request) /\ Serves(request)
    BY <1>5, Zenon DEF Inv, ServerInv
  <2>2. CASE /\ result.disposition = "Complete" /\ result.frames = <<request>>
             /\ left = NewDecoder /\ up' = <<>>
    <3>1. worker' = [worker EXCEPT !.pc = "handling", !.decoder = NewDecoder,
                                   !.request = <<request>>]
      BY <2>2, Zenon DEF ServerDecodes
    <3>2. ASSUME NEW r \in FrameRecord, Serves(r) PROVE r = request
      <4>1. result.frames = <<r>>
        BY <1>2, <2>2, <3>2, Zenon
      <4> QED  BY <2>2, <4>1
    <3> QED  BY <1>5, <2>1, <2>2, <3>1, <3>2, Zenon DEF Asked
  <2>3. CASE /\ result.disposition = "Corrupt" /\ request.size > server_ceiling
             /\ left \in DecoderRecord
    <3>1. worker' = Gone(left)
      BY <2>3, Zenon DEF ServerDecodes
    <3>2. fed.buffer # <<>> /\ Carries(fed.buffer, up', request)
      BY <1>3, <2>1, <2>3, Zenon
    <3> QED  BY <1>5, <2>3, <3>1, <3>2, Zenon DEF Asked
  <2> QED  BY <1>2, <1>4, <2>1, <2>2, <2>3, Zenon
<1> QED  BY <1>3, <1>4, <1>5, Zenon

\* The server's decoder waits for more, has the request whole, or refuses it.
LEMMA ServerDecodesInv ==
    ASSUME Types, Inv, worker.pc \in {"queued", "top", "reading"},
           UNCHANGED <<clientVars, thread, down, sessions>>,
           NEW fed \in DecoderRecord, fed.sticky = "none", up' \in Seq(Cell), ServerDecodes(fed),
           Quiet => fed.buffer = <<>> /\ up' = <<>>,
           \A request \in FrameRecord : Serves(request) => Carries(fed.buffer, up', request)
    PROVE  Types' /\ Inv'
<1>3. Asked(fed)
  BY ServerAsked, Zenon
<1>4. ASSUME worker' = [worker EXCEPT !.pc = "reading", !.decoder = fed]
      PROVE  Types' /\ Inv'
  <2>2. /\ worker' \in WorkerRecord /\ worker'.pc = "reading" /\ worker'.decoder = fed
        /\ worker'.response = worker.response
    BY <1>4, Zenon DEF Types, WorkerRecord
  <2>3. worker'.decoder.sticky = "none" /\ ServerNeverSeesReplay'
    BY <2>2, Zenon DEF Inv, ServerInv, ServerNeverSeesReplay
  <2>4. Kept /\ \A seq \in Nat : Fresh(seq) => Fresh(seq)'
    BY <2>2, Zenon DEF Kept, Issued, Known, Fresh, clientVars
  <2>5. \A i \in DOMAIN sessions' : Issued(sessions'[i])
    BY Zenon DEF Inv, SessionInv
  <2>6. Quiet => Quiet'
    BY <2>2, Zenon DEF Quiet
  <2>7. ASSUME NEW request \in FrameRecord, Serves(request) PROVE ServedOn(request)
    <3>1. Carries(worker.decoder.buffer, up, request)'
      BY <2>2, <2>7 DEF Carries
    <3>2. Fresh(request.seq)'
      BY <2>2, <2>7, Zenon DEF Serves, Fresh
    <3>3. Serves(request)'
      BY <2>2, <3>1, <3>2, Zenon DEF Serves
    <3> QED  BY <3>3, Zenon DEF ServedOn
  <2>8. down' \in Seq(Cell) /\ sessions' \in Seq(Nat)
    BY Zenon DEF Types
  <2> QED  BY <2>2, <2>3, <2>4, <2>5, <2>6, <2>7, <2>8, ServerStepInv, Zenon
<1>5. ASSUME NEW request \in FrameRecord, ~Quiet, up' = <<>>,
             worker' = [worker EXCEPT !.pc = "handling", !.decoder = NewDecoder,
                                      !.request = <<request>>],
             \A r \in FrameRecord : Sendable(r) /\ Serves(r) => r = request, Serves(request)
      PROVE  Types' /\ Inv'
  <2>4. NewDecoder \in DecoderRecord /\ <<request>> \in Seq(FrameRecord)
    <3>1. <<>> \in Seq(Cell) /\ <<request>> \in Seq(FrameRecord)
      OBVIOUS
    <3> QED  BY <3>1, Zenon DEF NewDecoder, DecoderRecord
  <2>5. /\ worker' \in WorkerRecord /\ worker'.pc = "handling" /\ worker'.decoder = NewDecoder
        /\ worker'.response = worker.response /\ worker'.request = <<request>>
    BY <1>5, <2>4, Zenon DEF Types, WorkerRecord
  <2>6. worker'.decoder.sticky = "none" /\ ServerNeverSeesReplay'
    BY <2>5 DEF Inv, ServerInv, ServerNeverSeesReplay, NewDecoder
  <2>7. Kept /\ \A seq \in Nat : Fresh(seq) => Fresh(seq)'
    BY <2>5, Zenon DEF Kept, Issued, Known, Fresh, clientVars
  <2>8. \A i \in DOMAIN sessions' : Issued(sessions'[i])
    BY Zenon DEF Inv, SessionInv
  <2>9. ASSUME NEW r \in FrameRecord, Sendable(r), Serves(r) PROVE ServedOn(r)
    <3>2. r = request
      BY <1>5, <2>9, Zenon
    <3>3. Fresh(request.seq)'
      BY <1>5, <2>5, Zenon DEF Serves, Fresh
    <3>4. worker'.decoder.buffer = <<>>
      <4>1. NewDecoder.buffer = <<>>
        BY Zenon DEF NewDecoder
      <4> QED  BY <2>5, <4>1, Zenon
    <3>5. Serves(request)'
      BY <1>5, <2>5, <3>3, <3>4, Zenon DEF Serves
    <3> QED  BY <3>2, <3>5, Zenon DEF ServedOn
  <2>10. down' \in Seq(Cell) /\ sessions' \in Seq(Nat)
    BY Zenon DEF Types
  <2> QED  BY <1>5, <2>5, <2>6, <2>7, <2>8, <2>9, <2>10, ServerStepInv, Zenon
<1>6. ASSUME NEW decoded \in DecoderRecord, worker' = Gone(decoded)
      PROVE  Types' /\ Inv'
  <2>1. sessions' \in Seq(Nat)
    BY Zenon DEF Types
  <2> QED  BY <1>6, <2>1, GoneInv, Zenon
<1> QED  BY <1>3, <1>4, <1>5, <1>6, Zenon DEF Asked

\* The top of serve: it stops with the server, or asks its decoder.
LEMMA ServerTopInv ==
    ASSUME Types, Inv, ServerTop
    PROVE  Types' /\ Inv'
<1>1. /\ worker.pc = "top" /\ up' = up
      /\ UNCHANGED <<clientVars, thread, down, sessions>>
  BY Zenon DEF ServerTop
<1>2. worker.decoder \in DecoderRecord /\ worker.decoder.sticky = "none" /\ up' \in Seq(Cell)
  BY <1>1, Zenon DEF Types, WorkerRecord, Inv, ServerInv
<1>3. CASE Leave
  BY <1>1, <1>2, <1>3, GoneInv, Zenon DEF Leave, Types
<1>4. CASE ServerDecodes(worker.decoder)
  <2>1. Quiet => worker.decoder.buffer = <<>> /\ up' = <<>>
    BY <1>1, Zenon DEF Quiet
  <2>2. \A request \in FrameRecord :
            Serves(request) => Carries(worker.decoder.buffer, up', request)
    BY <1>1, Zenon DEF Serves
  <2> QED  BY <1>1, <1>2, <1>4, <2>1, <2>2, ServerDecodesInv, Zenon
<1> QED  BY <1>3, <1>4, Zenon DEF ServerTop

\* A chunk of the request moves into the server's decoder, or the client is gone.
LEMMA ServerReceiveInv ==
    ASSUME Types, Inv, ServerReceive
    PROVE  Types' /\ Inv'
<1>1. worker.pc = "reading" /\ UNCHANGED <<clientVars, thread, down, sessions>>
  BY Zenon DEF ServerReceive
<1>2. /\ worker.decoder \in DecoderRecord /\ worker.decoder.sticky = "none"
      /\ worker.decoder.buffer \in Seq(Cell) /\ up \in Seq(Cell)
  BY <1>1, Zenon DEF Types, WorkerRecord, DecoderRecord, Inv, ServerInv
<1>3. CASE Leave /\ UNCHANGED up
  BY <1>1, <1>2, <1>3, GoneInv, Zenon DEF Leave, Types
<1>4. ASSUME NEW n \in 1..Len(up), up' = SubSeq(up, n + 1, Len(up)),
             IF feed_accepts(worker.decoder, SubSeq(up, 1, n), server_ceiling)
             THEN ServerDecodes(feed(worker.decoder, SubSeq(up, 1, n), server_ceiling))
             ELSE Leave
      PROVE  Types' /\ Inv'
  <2>1. up' \in Seq(Cell) /\ ~Quiet
    BY <1>1, <1>2, <1>4 DEF Quiet
  <2>2. CASE feed_accepts(worker.decoder, SubSeq(up, 1, n), server_ceiling)
    <3>1. PICK fed : fed = [worker.decoder EXCEPT !.buffer = @ \o SubSeq(up, 1, n)]
      BY Zenon
    <3>2. ServerDecodes(fed)
      BY <1>4, <2>2, <3>1, Zenon DEF feed
    <3>3. worker.decoder.buffer \o SubSeq(up, 1, n) \in Seq(Cell)
      BY <1>2, <1>4
    <3>4. /\ fed \in DecoderRecord /\ fed.sticky = "none"
          /\ fed.buffer = worker.decoder.buffer \o SubSeq(up, 1, n)
      BY <1>2, <3>1, <3>3, Zenon DEF DecoderRecord
    <3>5. ASSUME NEW request \in FrameRecord, Serves(request)
          PROVE  Carries(fed.buffer, up', request)
      <4>1. Carries(worker.decoder.buffer, up, request)
        BY <1>1, <3>5, Zenon DEF Serves
      <4> QED  BY <1>2, <1>4, <3>4, <4>1, Moves, Zenon
    <3> QED  BY <1>1, <2>1, <3>2, <3>4, <3>5, ServerDecodesInv, Zenon
  <2>3. CASE ~feed_accepts(worker.decoder, SubSeq(up, 1, n), server_ceiling)
    <3>1. worker' = Gone(worker.decoder)
      BY <1>4, <2>3, Zenon DEF Leave
    <3>2. sessions' \in Seq(Nat)
      BY <1>1, Zenon DEF Types
    <3> QED  BY <1>1, <1>2, <2>1, <3>1, <3>2, GoneInv, Zenon
  <2> QED  BY <2>2, <2>3, Zenon
<1> QED  BY <1>3, <1>4, Zenon DEF ServerReceive

\* The handler has one request, which the client may send and no session has seen.
LEMMA Handled ==
    ASSUME Types, Inv, worker.pc \in {"handling", "answering"}
    PROVE  \E request \in FrameRecord :
               /\ worker.request = <<request>> /\ Sendable(request) /\ Serves(request)
               /\ worker.decoder.buffer = <<>> /\ up = <<>>
               /\ worker.pc = "handling" => \A i \in DOMAIN sessions : sessions[i] < request.seq
<1>1. ~Quiet
  BY Zenon DEF Quiet
<1>2. PICK request \in FrameRecord : Sendable(request) /\ Serves(request)
  BY <1>1, Zenon DEF Inv, ServerInv
<1>3. /\ worker.request = <<request>> /\ worker.decoder.buffer = <<>> /\ up = <<>>
      /\ worker.pc = "handling" => Fresh(request.seq)
  BY <1>2, Zenon DEF Serves
<1> QED  BY <1>2, <1>3, Zenon DEF Fresh

\* The handler answers the request it has, and the sessions hold only sequences of the client.
LEMMA AnswersInv ==
    ASSUME Types, Inv, worker.pc = "handling", UNCHANGED <<clientVars, thread, up, down>>,
           NEW request \in FrameRecord, worker.request = <<request>>, Sendable(request),
           NEW frame \in FrameRecord, Answers(frame),
           frame.type \in IF request.type = "Hello" THEN {"HelloAck", "Error"}
                          ELSE IF request.type = "Query" THEN {"Result", "Error"} ELSE {"Goodbye"},
           frame.size # 0 => request.type # "Goodbye",
           frame.grant # 0 => frame.grant \in DOMAIN sessions',
           frame.code \notin {"Replay", "Unauthorized"},
           sessions' \in Seq(Nat), DOMAIN sessions \subseteq DOMAIN sessions',
           \A i \in DOMAIN sessions' : Issued(sessions'[i])
    PROVE  Types' /\ Inv'
<1>1. PICK answer : answer = [frame EXCEPT !.session = request.session, !.seq = request.seq]
  BY Zenon
<1>2. /\ answer \in FrameRecord /\ answer.seq = request.seq /\ answer.type = frame.type
      /\ answer.size = frame.size /\ answer.grant = frame.grant /\ answer.code = frame.code
  BY <1>1, Zenon DEF FrameRecord
<1>3. <<answer>> \in Seq(FrameRecord) /\ Len(<<answer>>) = 1 /\ <<answer>>[1] = answer
  <2> HIDE DEF FrameRecord
  <2>1. <<answer>> \in Seq(FrameRecord)
    BY <1>2
  <2> QED  BY <2>1, Zenon
<1>4. worker' = [worker EXCEPT !.pc = "answering", !.response = <<answer>>]
  BY <1>1 DEF Answers, Bound
<1>5. /\ worker' \in WorkerRecord /\ worker'.pc = "answering" /\ worker'.response = <<answer>>
      /\ worker'.decoder = worker.decoder /\ worker'.request = <<request>>
  BY <1>3, <1>4, Zenon DEF Types, WorkerRecord
<1>6. worker'.decoder.sticky = "none"
  BY <1>5, Zenon DEF Inv, ServerInv
<1>7. ServerNeverSeesReplay'
  BY <1>2, <1>5 DEF ServerNeverSeesReplay
<1>8. Kept
  BY <1>5, Zenon DEF Kept, Issued, Known, clientVars
<1>9. ~Quiet
  BY Zenon DEF Quiet
<1>10. AnswerTo(request, answer)'
  BY <1>2, <1>5, Zenon DEF AnswerTo, Known
<1>11. ASSUME NEW r \in FrameRecord, Serves(r) PROVE ServedOn(r)
  <2>1. worker.request = <<r>> /\ worker.decoder.buffer = <<>> /\ up = <<>>
    BY <1>11, Zenon DEF Serves
  <2>2. r = request
    <3>1. r = worker.request[1]
      BY <2>1
    <3>2. request = worker.request[1]
      OBVIOUS
    <3> QED  BY <3>1, <3>2, Zenon
  <2>3. Len(worker'.response) = 1 /\ AnswerTo(request, worker.response[1])'
    BY <1>3, <1>5, <1>10, Zenon DEF AnswerTo, Known
  <2>4. Serves(request)'
    BY <1>5, <2>1, <2>3, Zenon DEF Serves
  <2> QED  BY <2>2, <2>4, Zenon DEF ServedOn
<1>12. up' \in Seq(Cell) /\ down' \in Seq(Cell)
  BY Zenon DEF Types
<1> QED  BY <1>5, <1>6, <1>7, <1>8, <1>9, <1>11, <1>12, ServerStepInv, Zenon

\* Each handler answers the request it was given; a session accepts a sequence once.
LEMMA HandleInv ==
    ASSUME Types, Inv, Handle
    PROVE  Types' /\ Inv'
<1>1. worker.pc = "handling" /\ UNCHANGED <<clientVars, thread, up, down>>
  BY Zenon DEF Handle
<1>2. PICK request \in FrameRecord :
          /\ worker.request = <<request>> /\ Sendable(request)
          /\ \A i \in DOMAIN sessions : sessions[i] < request.seq
  BY <1>1, Handled, Zenon
<1>3. worker.request[1] = request
  BY <1>2
<1>4. sessions \in Seq(Nat) /\ DOMAIN sessions = 1..Len(sessions) /\ Len(sessions) \in Nat
  BY DEF Types
<1>5. \A i \in DOMAIN sessions : Issued(sessions[i])
  BY <1>1, Zenon DEF Inv, SessionInv
<1>6. Issued(0)
  BY DEF Types, Issued
<1> DEFINE Settled ==
               /\ sessions' \in Seq(Nat) /\ DOMAIN sessions \subseteq DOMAIN sessions'
               /\ \A i \in DOMAIN sessions' : Issued(sessions'[i])
<1>7. ASSUME NEW code \in Codes \ {"Replay", "Unauthorized"}, Fails(code), Settled,
              request.type # "Goodbye"
       PROVE  Types' /\ Inv'
  <2>1. PICK size \in ErrorSizes : Answers(ErrorFrame(code, size))
    BY <1>7, Zenon DEF Fails
  <2>2. PICK frame : frame = ErrorFrame(code, size)
    BY Zenon
  <2>3. size \in Nat
    BY ClientAssumption
  <2>4. frame \in FrameRecord /\ frame.type = "Error" /\ frame.grant = 0 /\ frame.code = code
    BY <2>2, <2>3, <1>7, Zenon DEF ErrorFrame, Frame, FrameRecord
  <2>5. request.type \in {"Hello", "Query"}
    BY <1>2, <1>7, Zenon DEF Sendable, Operations
  <2> QED  BY <1>1, <1>2, <1>7, <2>1, <2>2, <2>4, <2>5, AnswersInv, Zenon
<1>8. ASSUME NEW grant \in Nat, NEW code \in {"Ok", "Exhausted"}, Answers(HelloAck(grant, code)),
              Settled, grant # 0 => grant \in DOMAIN sessions', request.type = "Hello"
       PROVE  Types' /\ Inv'
  <2>1. PICK frame : frame = HelloAck(grant, code)
    BY Zenon
  <2>2. AckSize \in Nat
    BY ClientAssumption
  <2>3. /\ frame \in FrameRecord /\ frame.type = "HelloAck" /\ frame.grant = grant
        /\ frame.code = code
    BY <1>8, <2>1, <2>2, Zenon DEF HelloAck, Frame, FrameRecord, Codes
  <2> QED  BY <1>1, <1>2, <1>8, <2>1, <2>3, AnswersInv, Zenon
<1>9. "Invalid" \in Codes \ {"Replay", "Unauthorized"}
       /\ "NotFound" \in Codes \ {"Replay", "Unauthorized"}
  BY Zenon DEF Codes
<1>10. CASE request.type = "Hello"
  <2>1. ASSUME sessions' = Append(sessions, 0),
               Answers(HelloAck(Len(sessions) + 1, "Ok")) \/ Fails("Invalid")
        PROVE  Types' /\ Inv'
    <3>1. /\ sessions' \in Seq(Nat) /\ Len(sessions') = Len(sessions) + 1
          /\ DOMAIN sessions' = 1..(Len(sessions) + 1)
          /\ \A i \in 1..(Len(sessions) + 1) :
                 sessions'[i] = IF i <= Len(sessions) THEN sessions[i] ELSE 0
      BY <1>4, <2>1
    <3>2. /\ DOMAIN sessions \subseteq DOMAIN sessions'
          /\ Len(sessions) + 1 \in Nat /\ Len(sessions) + 1 \in DOMAIN sessions'
      BY <1>4, <3>1
    <3>3. \A i \in DOMAIN sessions' : Issued(sessions'[i])
      BY <1>4, <1>5, <1>6, <3>1
    <3> QED  BY <1>10, <1>7, <1>8, <1>9, <2>1, <3>1, <3>2, <3>3, Zenon
  <2>2. ASSUME UNCHANGED sessions, Answers(HelloAck(0, "Exhausted")) \/ Fails("Invalid")
        PROVE  Types' /\ Inv'
    <3>1. Settled
      BY <1>4, <1>5, <2>2, Zenon
    <3>2. 0 \in Nat
      OBVIOUS
    <3> QED  BY <1>10, <1>7, <1>8, <1>9, <2>2, <3>1, <3>2, Zenon
  <2> QED  BY <1>3, <1>10, <2>1, <2>2, Zenon DEF Handle
<1>11. CASE request.type = "Goodbye"
  <2>1. Answers(Frame("Goodbye", 0, 0, 0)) /\ UNCHANGED sessions
    BY <1>3, <1>11, Zenon DEF Handle
  <2>2. PICK frame : frame = Frame("Goodbye", 0, 0, 0)
    BY Zenon
  <2>3. /\ frame \in FrameRecord /\ frame.type = "Goodbye" /\ frame.size = 0
        /\ frame.grant = 0 /\ frame.code = "Ok"
    BY <2>2, Zenon DEF Frame, FrameRecord, Codes, Operations
  <2> QED  BY <1>1, <1>2, <1>4, <1>5, <1>11, <2>1, <2>2, <2>3, AnswersInv, Zenon
<1>12. CASE request.type = "Query"
  <2>1. request.session \in DOMAIN sessions /\ sessions[request.session] < request.seq
    BY <1>1, <1>2, <1>12, Zenon DEF Sendable, Known
  <2>2. request.seq \in Nat /\ sessions[request.session] \in Nat
    BY <1>4, <2>1 DEF FrameRecord
  <2>3. authorise(request) = "Ok"
    BY <2>1, <2>2 DEF authorise
  <2>4. sessions' = [sessions EXCEPT ![request.session] = request.seq]
    BY <1>3, <1>12, <2>3, Zenon DEF Handle
  <2>5. /\ sessions' \in Seq(Nat) /\ DOMAIN sessions' = DOMAIN sessions
        /\ \A i \in DOMAIN sessions :
               sessions'[i] = IF i = request.session THEN request.seq ELSE sessions[i]
    BY <1>4, <2>1, <2>2, <2>4, SMTT(20)
  <2>6. \A i \in DOMAIN sessions' : Issued(sessions'[i])
    BY <1>2, <1>5, <2>5, Zenon DEF Sendable
  <2>7. CASE Fails("NotFound")
    BY <1>12, <1>7, <1>9, <2>5, <2>6, <2>7, Zenon
  <2>8. ASSUME NEW size \in ResultSizes, Answers(Frame("Result", 0, 0, size))
        PROVE  Types' /\ Inv'
    <3>1. PICK frame : frame = Frame("Result", 0, 0, size)
      BY Zenon
    <3>2. /\ frame \in FrameRecord /\ frame.type = "Result" /\ frame.grant = 0
          /\ frame.code = "Ok"
      BY <3>1, ClientAssumption, Zenon DEF Frame, FrameRecord, Codes
    <3> QED  BY <1>1, <1>2, <1>12, <2>5, <2>6, <2>8, <3>1, <3>2, AnswersInv, Zenon
  <2> QED  BY <1>3, <1>12, <2>3, <2>7, <2>8, Zenon DEF Handle
<1> QED  BY <1>2, <1>10, <1>11, <1>12, Zenon DEF Sendable, Operations

\* The answer goes out whole, and the server is quiet again until the next request.
LEMMA RespondInv ==
    ASSUME Types, Inv, Respond
    PROVE  Types' /\ Inv'
<1>1. worker.pc = "answering" /\ UNCHANGED <<clientVars, thread, up, sessions>>
  BY Zenon DEF Respond
<1>2. PICK request \in FrameRecord :
          /\ worker.request = <<request>> /\ Sendable(request) /\ Serves(request)
          /\ worker.decoder.buffer = <<>> /\ up = <<>>
  BY <1>1, Handled, Zenon
<1>3. up' \in Seq(Cell) /\ sessions' \in Seq(Nat)
  BY <1>1, Zenon DEF Types
<1>4. CASE Leave /\ UNCHANGED down
  BY <1>1, <1>3, <1>4, GoneInv, Zenon DEF Leave, Types, WorkerRecord
<1>5. ASSUME NEW frame \in Outgoing(worker.response[1]), down' = down \o encode_frame(frame),
             worker' = [worker EXCEPT !.pc = "top", !.request = <<>>, !.response = <<>>]
      PROVE  Types' /\ Inv'
  <2>1. <<>> \in Seq(FrameRecord)
    OBVIOUS
  <2>2. /\ worker' \in WorkerRecord /\ worker'.pc = "top" /\ worker'.response = <<>>
        /\ worker'.decoder = worker.decoder
    BY <1>5, <2>1, Zenon DEF Types, WorkerRecord
  <2>3. PICK response \in FrameRecord :
            response = worker.response[1] /\ AnswerTo(request, response)
    <3>1. Len(worker.response) = 1 /\ AnswerTo(request, worker.response[1])
      BY <1>1, <1>2, Zenon DEF Serves
    <3>2. worker.response \in Seq(FrameRecord)
      BY Zenon DEF Types, WorkerRecord
    <3> QED  BY <3>1, <3>2, SMTT(20)
  <2>4. frame \in FrameRecord /\ AnswerTo(request, frame)
    <3>1. CASE encodable(response, server_ceiling)
      BY <1>5, <2>3, <3>1, Zenon DEF Outgoing
    <3>2. CASE ~encodable(response, server_ceiling)
      <4>1. PICK size \in ErrorSizes : frame = Bound(ErrorFrame("Exhausted", size))
        BY <1>5, <2>3, <3>2, Zenon DEF Outgoing
      <4>2. PICK error : error = ErrorFrame("Exhausted", size)
        BY Zenon
      <4>3. size \in Nat
        BY ClientAssumption
      <4>4. error \in FrameRecord /\ error.type = "Error" /\ error.grant = 0
        BY <4>2, <4>3, Zenon DEF ErrorFrame, Frame, FrameRecord, Codes
      <4>5. frame = [error EXCEPT !.session = request.session, !.seq = request.seq]
        BY <1>2, <4>1, <4>2 DEF Bound
      <4>6. /\ frame \in FrameRecord /\ frame.seq = request.seq /\ frame.type = "Error"
            /\ frame.grant = 0
        BY <4>4, <4>5, Zenon DEF FrameRecord
      <4>7. response.size # 0
        BY <3>2, ClientAssumption DEF encodable
      <4>8. request.type \in {"Hello", "Query"}
        BY <1>2, <2>3, <4>7, Zenon DEF AnswerTo, Sendable, Operations
      <4> QED  BY <4>6, <4>8, Zenon DEF AnswerTo
    <3> QED  BY <3>1, <3>2, Zenon
  <2>5. PICK answer \in FrameRecord :
            AnswerTo(request, answer) /\ down' = down \o encode_frame(answer)
    BY <1>5, <2>4, Zenon
  <2>6. down' \in Seq(Cell)
    BY <2>5, Encodes DEF Types
  <2>7. Quiet' /\ ~Quiet
    BY <1>1, <1>2, <2>2, Zenon DEF Quiet
  <2>8. worker'.decoder.sticky = "none" /\ ServerNeverSeesReplay'
    BY <1>1, <2>2, SMTT(20) DEF Inv, ServerInv, ServerNeverSeesReplay
  <2>9. Kept /\ \A i \in DOMAIN sessions' : Issued(sessions'[i])
    BY <1>1, <2>2, Zenon DEF Kept, Issued, Known, clientVars, Inv, SessionInv
  <2>10. ASSUME NEW r \in FrameRecord, Serves(r) PROVE ServedOn(r)
    <3>1. worker.request = <<r>>
      BY <1>1, <2>10, Zenon DEF Serves
    <3>2. r = request
      BY <1>2, <3>1
    <3>3. AnswerTo(request, answer)'
      BY <1>1, <2>2, <2>5, Zenon DEF AnswerTo, Known
    <3> QED  BY <2>5, <2>7, <3>2, <3>3, Zenon DEF ServedOn
  <2> QED  BY <1>1, <1>3, <2>2, <2>6, <2>7, <2>8, <2>9, <2>10, ServerStepInv, Zenon
<1> QED  BY <1>4, <1>5, Zenon DEF Respond

\* A worker takes the connection; what was sent meanwhile waits for it.
LEMMA TakeInv ==
    ASSUME Types, Inv, TakeConnection
    PROVE  Types' /\ Inv'
<1>1. /\ worker.pc = "queued" /\ UNCHANGED <<clientVars, thread, up, down, sessions>>
      /\ worker' = [worker EXCEPT !.pc = "top"]
  BY Zenon DEF TakeConnection
<1>2. /\ worker' \in WorkerRecord /\ worker'.pc = "top" /\ worker'.decoder = worker.decoder
      /\ worker'.response = worker.response
  BY <1>1, Zenon DEF Types, WorkerRecord
<1>3. worker'.decoder.sticky = "none" /\ ServerNeverSeesReplay'
  BY <1>1, <1>2, Zenon DEF Inv, ServerInv, ServerNeverSeesReplay
<1>4. Kept /\ \A seq \in Nat : Fresh(seq) => Fresh(seq)'
  BY <1>1, <1>2, Zenon DEF Kept, Issued, Known, Fresh, clientVars
<1>5. \A i \in DOMAIN sessions' : Issued(sessions'[i])
  BY <1>1, Zenon DEF Inv, SessionInv
<1>6. Quiet => Quiet'
  BY <1>1, <1>2, Zenon DEF Quiet
<1>7. ASSUME NEW request \in FrameRecord, Serves(request) PROVE ServedOn(request)
  <2>1. Carries(worker.decoder.buffer, up, request) /\ Fresh(request.seq)
    BY <1>1, <1>7, Zenon DEF Serves
  <2>2. Carries(worker.decoder.buffer, up, request)' /\ Fresh(request.seq)'
    BY <1>1, <1>2, <2>1, Zenon DEF Carries, Fresh
  <2> QED  BY <1>1, <1>2, <2>2, Zenon DEF Serves, ServedOn
<1>8. up' \in Seq(Cell) /\ down' \in Seq(Cell) /\ sessions' \in Seq(Nat)
  BY <1>1, Zenon DEF Types
<1> QED  BY <1>1, <1>2, <1>3, <1>4, <1>5, <1>6, <1>7, <1>8, ServerStepInv, Zenon

\* The coordinator forgets its sessions after the worker has left.
LEMMA JoinInv ==
    ASSUME Types, Inv, MainJoins
    PROVE  Types' /\ Inv'
<1>1. /\ worker.pc = "gone" /\ UNCHANGED <<clientVars, thread, up, down, worker>>
      /\ sessions' = <<>>
  BY Zenon DEF MainJoins
<1>2. worker' \in WorkerRecord /\ up' \in Seq(Cell) /\ down' \in Seq(Cell) /\ worker'.pc = "gone"
  BY <1>1, Zenon DEF Types
<1>3. ServerNeverSeesReplay'
  BY <1>1, Zenon DEF Inv, ServerInv, ServerNeverSeesReplay
<1>4. Kept
  BY <1>1, <1>2, Zenon DEF Kept, Issued, Known, clientVars
<1>5. /\ Quiet' /\ \A seq \in Nat : Fresh(seq)'
      /\ \A request \in FrameRecord : Serves(request)'
  BY <1>2, Zenon DEF Quiet, Fresh, Serves
<1>6. \A request \in FrameRecord : ServedOn(request)
  BY <1>1, <1>5, Zenon DEF ServedOn
<1>7. sessions' \in Seq(Nat)
  BY <1>1
<1> QED  BY <1>1, <1>2, <1>3, <1>4, <1>5, <1>6, <1>7, ServerStepInv, Zenon

-----------------------------------------------------------------------------
(* The theorems. *)

\* One case per action of Next.
LEMMA StepInv ==
    ASSUME Types, Inv, [Next]_vars
    PROVE  Types' /\ Inv'
<1>1. CASE UNCHANGED vars
  BY <1>1, CloseInv, Zenon DEF vars, clientVars, serverVars
<1>2. ASSUME NEW t \in Threads, NEW op \in Operations, NEW size \in PayloadSizes(op),
             Enter(t, op, size)
      PROVE  Types' /\ Inv'
  BY <1>2, EnterInv, Zenon
<1>3. ASSUME NEW t \in Threads,
             Begin(t) \/ Send(t) \/ Decode(t) \/ Receive(t) \/ Adopt(t)
      PROVE  Types' /\ Inv'
  BY <1>3, BeginInv, SendInv, DecodeInv, ReceiveInv, AdoptInv, Zenon
<1>4. CASE Close
  BY <1>4, CloseInv, Zenon DEF Close, serverVars
<1>5. CASE CloseForgets
  BY <1>5, CloseInv, Zenon DEF CloseForgets, serverVars
<1>6. CASE ServerTop \/ ServerReceive \/ Handle \/ Respond
  BY <1>6, ServerTopInv, ServerReceiveInv, HandleInv, RespondInv, Zenon
<1>7. CASE FallSilent
  BY <1>7, CloseInv, Zenon DEF FallSilent, clientVars, serverVars
<1>8. /\ <<>> \in Seq(Nat) /\ up \in Seq(Cell) /\ sessions \in Seq(Nat)
      /\ worker.decoder \in DecoderRecord
  <2>1. worker.decoder \in DecoderRecord
    BY Zenon DEF Types, WorkerRecord
  <2> QED  BY <2>1 DEF Types
<1>9. CASE RefuseConnection
  BY <1>8, <1>9, GoneInv, Zenon DEF RefuseConnection, Leave
<1>10. CASE TakeConnection
  BY <1>10, TakeInv, Zenon
<1>11. CASE MainWakes \/ StopElsewhere
  <2>1. /\ UNCHANGED <<clientVars, thread, up, down, sessions>>
        /\ worker' = Gone(worker.decoder) \/ UNCHANGED worker
    BY <1>11, Zenon DEF MainWakes, StopElsewhere, Stops
  <2>2. CASE worker' = Gone(worker.decoder)
    BY <1>8, <2>1, <2>2, GoneInv, Zenon
  <2>3. CASE UNCHANGED worker
    BY <2>1, <2>3, CloseInv, Zenon DEF clientVars
  <2> QED  BY <2>1, <2>2, <2>3, Zenon
<1>12. CASE MainJoins
  BY <1>12, JoinInv, Zenon
<1>13. CASE Die
  BY <1>8, <1>13, GoneInv, Zenon DEF Die, Leave
<1> QED
  BY <1>1, <1>2, <1>3, <1>4, <1>5, <1>6, <1>7, <1>9, <1>10, <1>11, <1>12, <1>13, Zenon DEF Next

\* The inductive invariant: at most one request is under way, and wherever the request or its
\* answer is, it is whole.
LEMMA InvHolds == Spec => [](Types /\ Inv)
  BY InitInv, StepInv, PTL DEF Spec

\* The frame that round_trip is about to hand to a caller answers the caller's own request, though
\* round_trip never compares sequences.
THEOREM AnswersReachTheirRequests == Spec => []AnswerIsForTheRequest
<1>1. ASSUME Types, Inv PROVE AnswerIsForTheRequest
  <2> DEFINE result == next_result(decoder, decoder_ceiling)
  <2> SUFFICES ASSUME NEW t \in Threads, thread[t].pc = "decoding", result.disposition = "Complete"
               PROVE  /\ result.frames[1].seq = thread[t].request[1].seq
                      /\ result.frames[1].type \in
                             IF thread[t].op = "Hello" THEN {"HelloAck", "Error"}
                             ELSE IF thread[t].op = "Query" THEN {"Result", "Error"}
                             ELSE {"Goodbye"}
    BY Zenon DEF AnswerIsForTheRequest
  <2>1. Waiting(t)
    BY Zenon DEF Waiting
  <2>2. PICK answer \in FrameRecord :
            AnswerTo(thread[t].request[1], answer) /\ result.frames = <<answer>>
    BY <1>1, <2>1, WaitDecodes, Zenon
  <2>3. thread[t].request[1].type = thread[t].op
    BY <1>1, RequestType, Zenon DEF Inv
  <2>4. result.frames[1] = answer
    BY <2>2
  <2> QED  BY <2>2, <2>3, <2>4, Zenon DEF AnswerTo
<1> QED  BY <1>1, InvHolds, PTL

\* The session registry refuses no request of this client as a replay or as unauthorised.
THEOREM RequestsAreNeverReplays == Spec => []ServerNeverSeesReplay
<1>1. Inv => ServerNeverSeesReplay
  BY Zenon DEF Inv, ServerInv
<1> QED  BY <1>1, InvHolds, PTL

-----------------------------------------------------------------------------
(* The payload bound. A Hello is sent before any bound is agreed, so the   *)
(* server may refuse it; from the adoption on nothing else may be refused. *)

\* What the handshake agreed: a client with a session that may still send keeps to the server's
\* bound, also in the request that it is about to send.
Agreed ==
    /\ handshaken => max_frame_payload <= server_ceiling
    /\ closer # "idle" => guard = "closing"
    /\ session # 0 /\ guard = "open" => handshaken
    /\ \A t \in Threads :
           guard = "open" /\ thread[t].pc = "sending" /\ session # 0 =>
               thread[t].request[1].size <= server_ceiling

\* No session was adopted, and none is on its way to the client.
Unadopted ==
    /\ session = 0
    /\ \A t \in Threads : thread[t].pc # "adopting" /\ (Waiting(t) => Silence)

\* A frame that the server will refuse, or has refused, was sent before any session was adopted.
Large(cells) == \E i \in DOMAIN cells : cells[i][1].size > server_ceiling
Early ==
    /\ worker.pc # "gone" /\ (Large(worker.decoder.buffer) \/ Large(up)) => Unadopted
    /\ worker.decoder.sticky # "none" => worker.pc = "gone" /\ Unadopted

\* A step that starts no request keeps what was agreed.
LEMMA AgreedStill ==
    ASSUME Agreed, guard' \in {guard, "closing"},
           UNCHANGED <<handshaken, session, max_frame_payload, closer>>,
           \A t \in Threads : thread'[t].pc = "sending" => thread'[t] = thread[t]
    PROVE  Agreed'
<1>1. guard' = "open" => guard = "open"
  BY Zenon
<1>2. ASSUME NEW t \in Threads, guard' = "open", thread'[t].pc = "sending", session' # 0
      PROVE  thread'[t].request[1].size <= server_ceiling
  BY <1>1, <1>2, Zenon DEF Agreed
<1> QED  BY <1>1, <1>2, Zenon DEF Agreed

\* A step that neither adopts nor sends to either side.
LEMMA EarlyStill ==
    ASSUME Early, UNCHANGED <<worker, up>>, Unadopted => Unadopted'
    PROVE  Early'
  BY Zenon DEF Early, Large

\* A step that leaves the threads, the session and the client's stream alone.
LEMMA UnadoptedStill ==
    ASSUME UNCHANGED <<session, thread, decoder, down>>
    PROVE  Unadopted => Unadopted'
  BY Zenon DEF Unadopted, Waiting, Silence

\* A thread that leaves its round trip, or is not in one, waits for no session.
LEMMA UnadoptedReturns ==
    ASSUME Types, NEW t \in Threads, NEW call \in ThreadRecord, thread' = [thread EXCEPT ![t] = call],
           call.pc \in {"idle", "entered", "sending"}, session' = session,
           UNCHANGED <<decoder, down>> \/ \A u \in Threads : ~Waiting(u)'
    PROVE  Unadopted => Unadopted'
<1>1. thread'[t] = call /\ \A u \in Threads \ {t} : thread'[u] = thread[u]
  BY Updated, Zenon
<1>2. ASSUME Unadopted, NEW u \in Threads
      PROVE  thread'[u].pc # "adopting" /\ (Waiting(u)' => Silence')
  <2>1. thread'[u].pc # "adopting"
    BY <1>1, <1>2, Zenon DEF Unadopted
  <2>2. ASSUME Waiting(u)' PROVE Silence'
    <3>1. Waiting(u) /\ UNCHANGED <<decoder, down>>
      BY <1>1, <2>2, Zenon DEF Waiting
    <3> QED  BY <1>2, <3>1, Zenon DEF Unadopted, Silence
  <2> QED  BY <2>1, <2>2, Zenon
<1> QED  BY <1>2, Zenon DEF Unadopted

\* Begin makes a request only within the client's bound, and a query only after the handshake.
LEMMA BeginBound ==
    ASSUME Types, Inv, Agreed, Early, NEW t \in Threads, Begin(t)
    PROVE  Agreed' /\ Early'
<1>1. /\ UNCHANGED <<guard, handshaken, session, max_frame_payload, closer, decoder, up, down, worker>>
      /\ thread[t] \in ThreadRecord
  BY Zenon DEF Begin, serverVars, Types
<1>2. CASE Returned(t)
  <2>1. thread' = [thread EXCEPT ![t] = Idle] /\ Idle \in ThreadRecord /\ Idle.pc = "idle"
    BY <1>2, IdleType, Zenon DEF Returned
  <2>2. thread'[t] = Idle /\ \A u \in Threads \ {t} : thread'[u] = thread[u]
    BY <2>1, Updated, Zenon
  <2>3. Agreed'
    BY <1>1, <2>1, <2>2, AgreedStill, Zenon
  <2> QED  BY <1>1, <2>1, <2>3, UnadoptedReturns, EarlyStill, Zenon
<1>3. CASE ~Refused(thread[t]) /\ thread[t].size <= max_frame_payload /\ thread' = Requested(t)
  <2>1. PICK request : request = Frame(thread[t].op, IF thread[t].op = "Hello" THEN 0 ELSE session,
                                       next_seq, thread[t].size)
    BY Zenon
  <2>2. PICK call : call = [thread[t] EXCEPT !.pc = "sending", !.request = <<request>>]
    BY Zenon
  <2>3. request.size = thread[t].size /\ thread' = [thread EXCEPT ![t] = call]
    BY <1>3, <2>1, <2>2, Zenon DEF Requested, Frame, Types
  <2>4. call.pc = "sending" /\ call.request = <<request>>
    BY <1>1, <2>2, Zenon DEF ThreadRecord
  <2>5. /\ thread'[t] = call /\ \A u \in Threads \ {t} : thread'[u] = thread[u]
    BY <2>3, Zenon DEF Types
  <2>6. thread'[t].request[1] = request
    BY <2>4, <2>5
  <2>7. ASSUME guard = "open", session # 0 PROVE request.size <= server_ceiling
    <3>1. handshaken /\ max_frame_payload <= server_ceiling
      BY <2>7, Zenon DEF Agreed
    <3>2. thread[t].size \in Nat /\ max_frame_payload \in Nat /\ server_ceiling \in Nat
      <4>1. thread[t].size \in Nat /\ max_frame_payload \in Nat
        BY <1>1, Zenon DEF ThreadRecord, Types
      <4> QED  BY <4>1, ClientAssumption
    <3> QED  BY <1>3, <2>3, <3>1, <3>2
  <2>8. ASSUME NEW u \in Threads, guard' = "open", thread'[u].pc = "sending", session' # 0
        PROVE  thread'[u].request[1].size <= server_ceiling
    <3>1. CASE u = t
      BY <1>1, <2>6, <2>7, <2>8, <3>1, Zenon
    <3>2. CASE u # t
      BY <1>1, <2>5, <2>8, <3>2, Zenon DEF Agreed
    <3> QED  BY <3>1, <3>2, Zenon
  <2>9. Agreed'
    BY <1>1, <2>8, Zenon DEF Agreed
  <2>10. Unadopted => Unadopted'
    <3>1. ASSUME Unadopted, NEW u \in Threads
          PROVE  thread'[u].pc # "adopting" /\ (Waiting(u)' => Silence')
      <4>1. CASE u = t
        BY <2>4, <2>5, <4>1, Zenon DEF Waiting
      <4>2. CASE u # t
        BY <1>1, <2>5, <3>1, <4>2, Zenon DEF Unadopted, Waiting, Silence
      <4> QED  BY <4>1, <4>2, Zenon
    <3> QED  BY <1>1, <3>1, Zenon DEF Unadopted
  <2> QED  BY <1>1, <2>9, <2>10, EarlyStill, Zenon
<1> QED  BY <1>2, <1>3, Zenon DEF Begin

\* A round trip that fails leaves the handshake alone and waits for nothing.
LEMMA DropBound ==
    ASSUME Types, Inv, Agreed, Early, NEW t \in Threads, thread[t].pc \in InCall, Drop(t),
           UNCHANGED <<handshaken, session, next_seq, sequence_exhausted, max_frame_payload, closer,
                       up, worker, sessions>>
    PROVE  Agreed' /\ Early'
<1>1. Kept
  BY KeptStill, Zenon
<1>2. \A u \in Threads : thread'[u].pc \notin InCall
  BY <1>1, CallsReleased, Zenon DEF Drop, Inv
<1>3. Agreed'
  BY <1>2, AgreedStill, Zenon DEF Drop, InCall
<1>4. Unadopted => Unadopted'
  BY <1>2, Zenon DEF Unadopted, Waiting, InCall
<1> QED  BY <1>3, <1>4, EarlyStill, Zenon

\* A Hello is sent on a quiet connection by a client without a session.
LEMMA SendBound ==
    ASSUME Types, Inv, Agreed, Early, NEW t \in Threads, Send(t)
    PROVE  Agreed' /\ Early'
<1>1. thread[t].pc = "sending" /\ thread[t].pc \in InCall
  BY Zenon DEF Send, InCall
<1>2. UNCHANGED <<handshaken, session, next_seq, sequence_exhausted, max_frame_payload, decoder,
                  closer, down, worker, sessions>>
  BY Zenon DEF Send, serverVars
<1>3. CASE Drop(t) /\ UNCHANGED up
  BY <1>1, <1>2, <1>3, DropBound, Zenon
<1>4. CASE /\ guard = "open" /\ up' = up \o encode_frame(thread[t].request[1])
           /\ thread' = [thread EXCEPT ![t].pc = "decoding"]
           /\ UNCHANGED <<guard, io>>
  <2>1. PICK request \in FrameRecord : request = thread[t].request[1]
    BY <1>1, RequestType, Zenon DEF Inv
  <2>2. /\ thread'[t].pc = "decoding" /\ \A u \in Threads \ {t} : thread'[u].pc \notin InCall
    BY <1>1, <1>2, <1>4, HolderWaits, Zenon DEF Inv
  <2>3. Agreed'
    BY <1>2, <1>4, <2>2, AgreedStill, Zenon DEF InCall
  <2>4. io = t
    BY <1>1, Zenon DEF Inv, CallInv, CallOK
  <2>5. \A u \in Threads : ~Waiting(u)
    BY <1>1, <2>4, OneCall, Zenon DEF Inv, Waiting, InCall
  <2>6. Silence /\ Quiet
    BY <1>4, <2>5, Zenon DEF Inv, StreamInv
  <2>7. \A u \in Threads : thread'[u].pc # "adopting" /\ Silence'
    BY <1>2, <2>2, <2>6, Zenon DEF InCall, Silence
  <2>8. session = 0 => Unadopted'
    BY <1>2, <2>7, Zenon DEF Unadopted
  <2>9. ASSUME worker.pc # "gone", Large(worker'.decoder.buffer) \/ Large(up')
        PROVE  session = 0
    <3>1. worker'.decoder.buffer = <<>> /\ up' = <<>> \o encode_frame(request)
      BY <1>2, <1>4, <2>1, <2>6, <2>9, Zenon DEF Quiet
    <3>2. Carries(<<>>, up', request) /\ up' \in Seq(Cell)
      BY <3>1, Encodes DEF Cell
    <3>3. \A i \in DOMAIN up' : up'[i] = <<request, i>>
      <4>1. DOMAIN up' = 1..Len(up') /\ \A i \in 1..Len(up') : Len(<<>>) + i = i
        BY <3>2
      <4>2. \A i \in 1..Len(up') : up'[i] = <<request, Len(<<>>) + i>>
        BY <3>2, Zenon DEF Carries
      <4> QED  BY <4>1, <4>2, Zenon
    <3>4. request.size > server_ceiling
      <4>1. ~Large(<<>>)
        BY DEF Large
      <4>2. PICK i \in DOMAIN up' : up'[i][1].size > server_ceiling
        BY <2>9, <3>1, <4>1, Zenon DEF Large
      <4>3. up'[i][1] = request
        BY <3>3, <4>2
      <4> QED  BY <4>2, <4>3, Zenon
    <3>5. ~(request.size <= server_ceiling)
      BY <3>4, ClientAssumption DEF FrameRecord
    <3> QED  BY <1>1, <1>4, <2>1, <3>5, Zenon DEF Agreed
  <2>10. worker.decoder.sticky # "none" => session = 0 /\ worker.pc = "gone"
    BY Zenon DEF Early, Unadopted
  <2>11. Early'
    BY <1>2, <2>8, <2>9, <2>10, Zenon DEF Early, Large
  <2> QED  BY <2>3, <2>11, Zenon
<1> QED  BY <1>3, <1>4, Zenon DEF Send

\* Nothing is decoded while no answer is on its way.
LEMMA DecodeBound ==
    ASSUME Types, Inv, Agreed, Early, NEW t \in Threads, Decode(t)
    PROVE  Agreed' /\ Early'
<1> DEFINE result == next_result(decoder, decoder_ceiling)
<1>1. Waiting(t) /\ thread[t].pc \in InCall /\ io = t
  BY Zenon DEF Decode, Waiting, InCall, Inv, CallInv, CallOK
<1>2. /\ UNCHANGED <<handshaken, session, next_seq, sequence_exhausted, max_frame_payload, closer, up,
                     down, worker, sessions>>
      /\ decoder' = next_decoder(decoder, decoder_ceiling)
  BY Zenon DEF Decode, serverVars
<1>3. \A u \in Threads \ {t} : thread[u].pc \notin InCall
  BY <1>1, OneCall, Zenon DEF Inv
<1>4. CASE Drop(t)
  BY <1>1, <1>2, <1>4, DropBound, Zenon
<1>5. CASE result.disposition = "Incomplete" /\ UNCHANGED guard
           /\ thread' = [thread EXCEPT ![t].pc = "receiving"]
  <2>1. thread'[t].pc = "receiving" /\ \A u \in Threads \ {t} : thread'[u] = thread[u]
    BY <1>5, Zenon DEF Types, ThreadRecord
  <2>2. Agreed'
    BY <1>2, <1>5, <2>1, AgreedStill, Zenon
  <2>3. decoder' = decoder
    BY <1>1, <1>2, <1>5, WaitDecodes, Zenon
  <2>4. ASSUME Unadopted PROVE Unadopted'
    <3>1. Silence'
      BY <1>1, <1>2, <2>3, <2>4, Zenon DEF Unadopted, Silence
    <3> QED  BY <1>2, <2>1, <2>4, <3>1, Zenon DEF Unadopted
  <2> QED  BY <1>2, <2>2, <2>4, EarlyStill, Zenon
<1>6. CASE result.disposition = "Complete" /\ UNCHANGED guard /\ Delivered(t, result.frames[1])
  <2>1. ~Unadopted
    <3>1. decoder \in DecoderRecord /\ decoder.sticky = "none" /\ decoder_ceiling \in Nat
      <4>1. decoder \in DecoderRecord /\ decoder.sticky = "none"
        BY <1>1, Zenon DEF Types, Inv, StreamInv, WaitOK
      <4> QED  BY <4>1, ClientAssumption
    <3>2. decoder.buffer # <<>>
      BY <1>6, <3>1, DecodesNothing, Zenon
    <3> QED  BY <1>1, <3>2, Zenon DEF Unadopted, Silence
  <2>2. \A u \in Threads : thread'[u].pc = "sending" => thread'[u] = thread[u]
    <3>1. CASE Returned(t)
      BY <3>1, IdleType, Updated, Zenon DEF Returned
    <3>2. CASE thread' = [thread EXCEPT ![t].pc = "adopting", ![t].grant = result.frames[1].grant]
      <4>1. thread'[t].pc = "adopting" /\ \A u \in Threads \ {t} : thread'[u] = thread[u]
        BY <3>2, Zenon DEF Types, ThreadRecord
      <4> QED  BY <4>1, Zenon
    <3> QED  BY <1>6, <3>1, <3>2, Zenon DEF Delivered
  <2>3. Agreed'
    BY <1>2, <1>6, <2>2, AgreedStill, Zenon
  <2> QED  BY <1>2, <2>1, <2>3, EarlyStill, Zenon
<1> QED  BY <1>4, <1>5, <1>6, Zenon DEF Decode

\* Nothing is received while no answer is on its way.
LEMMA ReceiveBound ==
    ASSUME Types, Inv, Agreed, Early, NEW t \in Threads, Receive(t)
    PROVE  Agreed' /\ Early'
<1>1. Waiting(t) /\ thread[t].pc \in InCall
  BY Zenon DEF Receive, Waiting, InCall
<1>2. UNCHANGED <<handshaken, session, next_seq, sequence_exhausted, max_frame_payload, closer, up,
                  worker, sessions>>
  BY Zenon DEF Receive, serverVars
<1>3. CASE Drop(t)
  BY <1>1, <1>2, <1>3, DropBound, Zenon
<1>4. ASSUME NEW n \in 1..Len(down), thread' = [thread EXCEPT ![t].pc = "decoding"], UNCHANGED guard
      PROVE  Agreed' /\ Early'
  <2>1. thread'[t].pc = "decoding" /\ \A u \in Threads \ {t} : thread'[u] = thread[u]
    BY <1>4, Zenon DEF Types, ThreadRecord
  <2>2. Agreed'
    BY <1>2, <1>4, <2>1, AgreedStill, Zenon
  <2>3. down # <<>>
    BY <1>4
  <2>4. ~Unadopted
    BY <1>1, <2>3, Zenon DEF Unadopted, Silence
  <2> QED  BY <1>2, <2>2, <2>4, EarlyStill, Zenon
<1> QED  BY <1>3, <1>4, Zenon DEF Receive

\* The adoption takes the server's bound, and no frame beyond it is with the server then.
LEMMA AdoptBound ==
    ASSUME Types, Inv, Agreed, Early, NEW t \in Threads, Adopt(t)
    PROVE  Agreed' /\ Early'
<1>1. thread[t].pc = "adopting" /\ thread[t].pc \in InCall /\ io = t
  BY Zenon DEF Adopt, InCall, Inv, CallInv, CallOK
<1>2. /\ UNCHANGED <<guard, next_seq, sequence_exhausted, closer, up, worker, sessions>>
      /\ handshaken' = TRUE /\ io' = None /\ Returned(t)
  BY Zenon DEF Adopt, serverVars
<1>3. max_frame_payload' <= server_ceiling
  BY ClientAssumption DEF Adopt, Types
<1>4. \A u \in Threads : thread'[u].pc \notin InCall
  BY <1>1, <1>2, KeptStill, CallsReleased, Zenon DEF Inv
<1>5. Agreed'
  BY <1>2, <1>3, <1>4, Zenon DEF Agreed, InCall
<1>6. ~Unadopted
  BY <1>1, Zenon DEF Unadopted
<1> QED  BY <1>2, <1>5, <1>6, EarlyStill, Zenon

\* A worker that leaves has refused nothing.
LEMMA GoneBound ==
    ASSUME Types, Agreed, Early, UNCHANGED <<clientVars, thread, down>>, worker' = Gone(worker.decoder)
    PROVE  Agreed' /\ Early'
<1>1. worker'.pc = "gone" /\ worker'.decoder.sticky = worker.decoder.sticky
  BY Zenon DEF Gone
<1>2. Unadopted => Unadopted'
  BY UnadoptedStill, Zenon DEF clientVars
<1>3. Agreed'
  BY AgreedStill, Zenon DEF clientVars
<1> QED  BY <1>1, <1>2, <1>3, Zenon DEF Early

\* The cells that the decoder was given came from the wire, and a frame that the decoder refuses is
\* one of those beyond the bound.
LEMMA ServerDecodesBound ==
    ASSUME Types, Inv, Agreed, Early, worker.pc \in {"queued", "top", "reading"},
           UNCHANGED <<clientVars, thread, down>>,
           NEW fed \in DecoderRecord, fed.sticky = "none", up' \in Seq(Cell), Asked(fed),
           Large(fed.buffer) => Large(worker.decoder.buffer) \/ Large(up),
           Large(up') => Large(up)
    PROVE  Agreed' /\ Early'
<1>1. Unadopted => Unadopted'
  BY UnadoptedStill, Zenon DEF clientVars
<1>2. Agreed'
  BY AgreedStill, Zenon DEF clientVars
<1>3. Large(fed.buffer) \/ Large(up') => Unadopted
  BY Zenon DEF Early
<1>4. CASE worker' = [worker EXCEPT !.pc = "reading", !.decoder = fed]
  <2>1. worker'.decoder = fed
    BY <1>4, Zenon DEF Types, WorkerRecord
  <2> QED  BY <1>1, <1>2, <1>3, <2>1, Zenon DEF Early, Large
<1>5. ASSUME NEW request \in FrameRecord, up' = <<>>,
             worker' = [worker EXCEPT !.pc = "handling", !.decoder = NewDecoder,
                                      !.request = <<request>>]
      PROVE  Early'
  <2>1. worker'.decoder.buffer = <<>> /\ worker'.decoder.sticky = "none"
    BY <1>5, Zenon DEF Types, WorkerRecord, NewDecoder
  <2>2. ~Large(<<>>)
    BY DEF Large
  <2> QED  BY <1>5, <2>1, <2>2, Zenon DEF Early, Large
<1>6. ASSUME NEW request \in FrameRecord, NEW decoded \in DecoderRecord, worker' = Gone(decoded),
             Carries(fed.buffer, up', request), fed.buffer # <<>>, request.size > server_ceiling
      PROVE  Early'
  <2>1. 1 \in DOMAIN fed.buffer /\ 1 \in 1..Len(fed.buffer)
    BY <1>6 DEF DecoderRecord
  <2>2. fed.buffer[1] = <<request, 1>>
    BY <1>6, <2>1, Zenon DEF Carries
  <2>3. fed.buffer[1][1] = request
    BY <2>2
  <2>4. Large(fed.buffer)
    BY <1>6, <2>1, <2>3, Zenon DEF Large
  <2>5. worker'.pc = "gone"
    BY <1>6, Zenon DEF Gone
  <2> QED  BY <1>1, <1>3, <2>4, <2>5, Zenon DEF Early
<1> QED  BY <1>2, <1>4, <1>5, <1>6, Zenon DEF Asked

\* What serve feeds and decodes.
LEMMA ServerReadsBound ==
    ASSUME Types, Inv, Agreed, Early, ServerTop \/ ServerReceive
    PROVE  Agreed' /\ Early'
<1>1. worker.pc \in {"top", "reading"} /\ UNCHANGED <<clientVars, thread, down, sessions>>
  BY Zenon DEF ServerTop, ServerReceive
<1>2. /\ worker.decoder \in DecoderRecord /\ worker.decoder.sticky = "none"
      /\ worker.decoder.buffer \in Seq(Cell) /\ up \in Seq(Cell)
  BY <1>1, Zenon DEF Types, WorkerRecord, DecoderRecord, Inv, ServerInv
<1>3. CASE Leave
  BY <1>1, <1>3, GoneBound, Zenon DEF Leave
<1>4. CASE ServerDecodes(worker.decoder) /\ UNCHANGED up
  <2>1. Quiet => worker.decoder.buffer = <<>> /\ up' = <<>>
    BY <1>1, <1>4, Zenon DEF Quiet
  <2>2. \A request \in FrameRecord :
            Serves(request) => Carries(worker.decoder.buffer, up', request)
    BY <1>1, <1>4, Zenon DEF Serves
  <2>3. Asked(worker.decoder)
    BY <1>1, <1>2, <1>4, <2>1, <2>2, ServerAsked, Zenon
  <2> QED  BY <1>1, <1>2, <1>4, <2>3, ServerDecodesBound, Zenon
<1>5. ASSUME NEW n \in 1..Len(up), up' = SubSeq(up, n + 1, Len(up)),
             feed_accepts(worker.decoder, SubSeq(up, 1, n), server_ceiling),
             ServerDecodes(feed(worker.decoder, SubSeq(up, 1, n), server_ceiling)),
             worker.pc = "reading"
      PROVE  Agreed' /\ Early'
  <2>1. PICK fed : fed = [worker.decoder EXCEPT !.buffer = @ \o SubSeq(up, 1, n)]
    BY Zenon
  <2>2. ServerDecodes(fed)
    BY <1>5, <2>1, Zenon DEF feed
  <2>3. worker.decoder.buffer \o SubSeq(up, 1, n) \in Seq(Cell) /\ up' \in Seq(Cell)
    BY <1>2, <1>5
  <2>4. /\ fed \in DecoderRecord /\ fed.sticky = "none"
        /\ fed.buffer = worker.decoder.buffer \o SubSeq(up, 1, n)
    BY <1>2, <2>1, <2>3, Zenon DEF DecoderRecord
  <2>5. ~Quiet
    BY <1>2, <1>5 DEF Quiet
  <2>6. ASSUME NEW request \in FrameRecord, Serves(request)
        PROVE  Carries(fed.buffer, up', request)
    <3>1. Carries(worker.decoder.buffer, up, request)
      BY <1>5, <2>6, Zenon DEF Serves
    <3> QED  BY <1>2, <1>5, <2>4, <3>1, Moves, Zenon
  <2>7. Asked(fed)
    BY <1>1, <2>2, <2>3, <2>4, <2>5, <2>6, ServerAsked, Zenon
  <2>8. \A i \in DOMAIN up' : i + n \in DOMAIN up /\ up'[i] = up[i + n]
    BY <1>2, <1>5
  <2>9. Large(up') => Large(up)
    BY <2>8, Zenon DEF Large
  <2>10. PICK buffer \in Seq(Cell) : buffer = worker.decoder.buffer
    BY <1>2, Zenon
  <2>11. \A i \in DOMAIN fed.buffer :
             \/ i \in DOMAIN buffer /\ fed.buffer[i] = buffer[i]
             \/ i - Len(buffer) \in DOMAIN up /\ fed.buffer[i] = up[i - Len(buffer)]
    <3>1. SubSeq(up, 1, n) \in Seq(Cell)
      BY <1>2, <1>5
    <3>2. PICK chunk \in Seq(Cell) : chunk = SubSeq(up, 1, n)
      BY <3>1, Zenon
    <3>3. Len(chunk) = n /\ \A i \in 1..n : chunk[i] = up[i] /\ i \in DOMAIN up
      BY <1>2, <1>5, <3>2
    <3>4. fed.buffer = buffer \o chunk
      BY <2>4, <2>10, <3>2, Zenon
    <3>5. ASSUME NEW i \in DOMAIN (buffer \o chunk)
          PROVE  \/ i \in DOMAIN buffer /\ (buffer \o chunk)[i] = buffer[i]
                 \/ i - Len(buffer) \in 1..n /\ (buffer \o chunk)[i] = chunk[i - Len(buffer)]
      BY <3>3
    <3> QED  BY <3>3, <3>4, <3>5, Zenon
  <2>12. Large(fed.buffer) => Large(worker.decoder.buffer) \/ Large(up)
    BY <2>10, <2>11, Zenon DEF Large
  <2> QED  BY <1>1, <2>3, <2>4, <2>7, <2>9, <2>12, ServerDecodesBound, Zenon
<1>6. CASE ServerTop
  BY <1>3, <1>4, <1>6, Zenon DEF ServerTop
<1>7. CASE ServerReceive
  BY <1>3, <1>5, <1>7, Zenon DEF ServerReceive
<1> QED  BY <1>6, <1>7, Zenon

\* While the handler has a request no cell is with the server.
LEMMA ServerAnswersBound ==
    ASSUME Types, Inv, Agreed, Early, Handle \/ Respond
    PROVE  Agreed' /\ Early'
<1>1. worker.pc \in {"handling", "answering"} /\ UNCHANGED <<clientVars, thread, up>>
  BY Zenon DEF Handle, Respond
<1>2. worker.decoder.buffer = <<>> /\ up = <<>> /\ worker.decoder.sticky = "none"
  BY <1>1, Handled, Zenon DEF Inv, ServerInv
<1>3. CASE Leave /\ UNCHANGED down
  BY <1>1, <1>3, GoneBound, Zenon DEF Leave
<1>4. CASE worker'.decoder = worker.decoder
  <2>1. Agreed'
    BY <1>1, AgreedStill, Zenon DEF clientVars
  <2>2. ~Large(<<>>)
    BY DEF Large
  <2> QED  BY <1>1, <1>2, <1>4, <2>1, <2>2, Zenon DEF Early, Large
<1>5. CASE Handle
  <2>1. \E frame : Answers(frame)
    BY <1>5, Zenon DEF Handle, Fails
  <2>2. worker'.decoder = worker.decoder
    BY <2>1, Zenon DEF Answers, Types, WorkerRecord
  <2> QED  BY <1>4, <2>2, Zenon
<1>6. CASE Respond
  <2>1. \/ Leave /\ UNCHANGED down
        \/ worker' = [worker EXCEPT !.pc = "top", !.request = <<>>, !.response = <<>>]
    BY <1>6, Zenon DEF Respond
  <2>2. CASE worker' = [worker EXCEPT !.pc = "top", !.request = <<>>, !.response = <<>>]
    <3>1. worker'.decoder = worker.decoder
      BY <2>2, Zenon DEF Types, WorkerRecord
    <3> QED  BY <1>4, <3>1, Zenon
  <2> QED  BY <1>3, <2>1, <2>2, Zenon
<1> QED  BY <1>5, <1>6, Zenon

\* One case per action of Next.
LEMMA StepBound ==
    ASSUME Types, Inv, Agreed, Early, [Next]_vars
    PROVE  Agreed' /\ Early'
<1>1. ASSUME UNCHANGED <<handshaken, session, max_frame_payload, decoder, thread, up, down, worker>>,
             guard' \in {guard, "closing"}, UNCHANGED closer \/ guard' = "closing"
      PROVE  Agreed' /\ Early'
  <2>1. guard' = "open" => guard = "open"
    BY <1>1, Zenon
  <2>2. Agreed'
    BY <1>1, <2>1, Zenon DEF Agreed
  <2> QED  BY <1>1, <2>2, UnadoptedStill, EarlyStill, Zenon
<1>2. CASE UNCHANGED vars \/ FallSilent
  BY <1>1, <1>2, Zenon DEF FallSilent, vars, clientVars, serverVars
<1>3. CASE Close
  BY <1>1, <1>3, Zenon DEF Close, serverVars
<1>4. CASE CloseForgets
  <2>1. guard = "closing" /\ UNCHANGED <<guard, session, decoder, thread, up, down, worker>>
    BY <1>4, Zenon DEF CloseForgets, Agreed, serverVars
  <2>2. Agreed'
    BY <1>4, <2>1, Zenon DEF Agreed, CloseForgets
  <2> QED  BY <2>1, <2>2, UnadoptedStill, EarlyStill, Zenon
<1>5. ASSUME NEW t \in Threads, NEW op \in Operations, NEW size \in PayloadSizes(op),
             Enter(t, op, size)
      PROVE  Agreed' /\ Early'
  <2>1. /\ UNCHANGED <<clientVars, up, down, worker>> /\ thread[t] \in ThreadRecord
        /\ thread' = [thread EXCEPT ![t].pc = "entered", ![t].op = op, ![t].size = size]
    BY <1>5, Zenon DEF Enter, serverVars, Types
  <2>2. size \in Nat
    BY <1>5, ClientAssumption DEF PayloadSizes, Operations
  <2>3. PICK call : call = [thread[t] EXCEPT !.pc = "entered", !.op = op, !.size = size]
    BY Zenon
  <2>4. call \in ThreadRecord /\ call.pc = "entered" /\ thread' = [thread EXCEPT ![t] = call]
    BY <1>5, <2>1, <2>2, <2>3, Zenon DEF ThreadRecord, Types
  <2>5. \A u \in Threads : thread'[u].pc = "sending" => thread'[u] = thread[u]
    BY <2>4, Updated, Zenon
  <2>6. Agreed'
    BY <2>1, <2>5, AgreedStill, Zenon DEF clientVars
  <2>7. Unadopted => Unadopted'
    BY <2>1, <2>4, UnadoptedReturns, Zenon DEF clientVars
  <2> QED  BY <2>1, <2>6, <2>7, EarlyStill, Zenon
<1>6. ASSUME NEW t \in Threads,
             Begin(t) \/ Send(t) \/ Decode(t) \/ Receive(t) \/ Adopt(t)
      PROVE  Agreed' /\ Early'
  BY <1>6, BeginBound, SendBound, DecodeBound, ReceiveBound, AdoptBound, Zenon
<1>7. CASE ServerTop \/ ServerReceive \/ Handle \/ Respond
  BY <1>7, ServerReadsBound, ServerAnswersBound, Zenon
<1>8. CASE RefuseConnection \/ Die
  BY <1>8, GoneBound, Zenon DEF RefuseConnection, Die, Leave
<1>9. CASE TakeConnection
  <2>1. /\ worker.pc = "queued" /\ UNCHANGED <<clientVars, thread, up, down>>
        /\ worker'.decoder = worker.decoder
    BY <1>9, Zenon DEF TakeConnection, Types, WorkerRecord
  <2>2. Agreed'
    BY <2>1, AgreedStill, Zenon DEF clientVars
  <2>3. Unadopted => Unadopted'
    BY <2>1, UnadoptedStill, Zenon DEF clientVars
  <2> QED  BY <2>1, <2>2, <2>3, Zenon DEF Early, Large
<1>10. CASE MainWakes \/ StopElsewhere
  <2>1. /\ UNCHANGED <<clientVars, thread, up, down>>
        /\ worker' = Gone(worker.decoder) \/ UNCHANGED worker
    BY <1>10, Zenon DEF MainWakes, StopElsewhere, Stops
  <2>2. CASE worker' = Gone(worker.decoder)
    BY <2>1, <2>2, GoneBound, Zenon
  <2>3. CASE UNCHANGED worker
    BY <1>1, <2>1, <2>3, Zenon DEF clientVars
  <2> QED  BY <2>1, <2>2, <2>3, Zenon
<1>11. CASE MainJoins
  BY <1>1, <1>11, Zenon DEF MainJoins, clientVars
<1> QED
  BY <1>2, <1>3, <1>4, <1>5, <1>6, <1>7, <1>8, <1>9, <1>10, <1>11, Zenon DEF Next

\* From the adoption of a session on, the server's decoder has refused no frame of this client: the
\* only frame it may refuse is a Hello, and then no session is ever adopted.
THEOREM FramesAreAccepted == Spec => []ServerAcceptsEveryFrame
<1>1. Init => Agreed /\ Early
  <2> SUFFICES ASSUME Init PROVE Agreed /\ Early
    BY Zenon
  <2>1. \A t \in Threads : thread[t].pc = "idle"
    BY Zenon DEF Init, Idle
  <2>2. Agreed
    BY <2>1, Zenon DEF Init, Agreed
  <2>3. Unadopted
    BY <2>1, Zenon DEF Init, Unadopted, Waiting
  <2>4. worker.decoder.sticky = "none"
    BY Zenon DEF Init, NewDecoder
  <2> QED  BY <2>2, <2>3, <2>4, Zenon DEF Early
<1>2. Early => ServerAcceptsEveryFrame
  BY Zenon DEF Early, Unadopted, ServerAcceptsEveryFrame
<1> QED  BY <1>1, <1>2, StepBound, InvHolds, PTL DEF Spec
=============================================================================
