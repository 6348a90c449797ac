------------------------------- MODULE Client -------------------------------
(***************************************************************************)
(* The blocking client (src/transport/client.cpp) on one connection to the *)
(* server process of the command line tool (tools/sffctl.cpp, serve):      *)
(* threads that share a client, a thread that closes it, the connection,   *)
(* the worker of the server that takes it with the handler behind it, and  *)
(* the main thread of the server process that waits for a Goodbye.         *)
(*                                                                         *)
(* A worker serves one connection for as long as that connection lasts, so *)
(* this one may wait in the server's queue for ever while other clients    *)
(* keep the workers.                                                       *)
(*                                                                         *)
(* A call is split where it holds no lock another party needs: before the  *)
(* io mutex, at the send, at each receive and at the adoption of the       *)
(* server's answer.  The connection delivers what was sent in order, in    *)
(* chunks of any size; it may fall silent for ever.                        *)
(***************************************************************************)
EXTENDS FrameStream, FiniteSets

CONSTANTS
    Threads,           \* caller threads of the client
    None,
    UINT64_MAX,        \* the last request sequence
    client_ceiling,    \* max_frame_payload of the limits given to connect
    decoder_ceiling,   \* Limits::defaults().max_frame_payload, the client decoder's bound
    server_ceiling,    \* max_frame_payload of the server's limits
    HelloSizes,        \* payload sizes of a Hello: the version and the principal
    AckSize,           \* payload size of a HelloAck, whose fields are fixed
    RequestSizes,      \* payload sizes of the callers' queries
    ResultSizes,       \* payload sizes of the handler's results
    ErrorSizes,        \* payload sizes of an Error: the code and the message
    MaxCalls           \* bound on the calls of all threads together

ASSUME ClientAssumption ==
    /\ UINT64_MAX \in Nat \ {0}
    \* Limits::validate, called by connect and by FrameServer::start
    /\ {client_ceiling, decoder_ceiling, server_ceiling} \subseteq Nat \ {0}
    /\ None \notin Threads
    /\ AckSize \in Nat \ {0}
    /\ HelloSizes \cup ErrorSizes \subseteq Nat \ {0}
    /\ RequestSizes \cup ResultSizes \subseteq Nat
    /\ MaxCalls \in Nat

VARIABLES
    guard,       \* "open" or "closing": the client's GuardedSocket
    io,          \* holder of io_mutex, or None
    handshaken, session, next_seq, sequence_exhausted,
    max_frame_payload, \* the client's limit, lowered by the handshake
    decoder,     \* the client's FrameStreamDecoder
    thread,      \* thread -> [pc, op, size, request, grant]
    calls,       \* calls made so far
    closer,      \* the thread that calls close(): "idle", "closing" or "closed"
    up, down,    \* cells in flight to the server and to the client
    silent,      \* the network delivers nothing any more
    peer,        \* the server's end: "open" or "closed"
    worker,      \* [pc, decoder, request, response]
    sessions,    \* coordinator: session -> last request sequence
    stop_requested,
    main         \* the server's main thread

clientVars == <<guard, io, handshaken, session, next_seq, sequence_exhausted, max_frame_payload,
                decoder, closer>>
serverVars == <<peer, worker, sessions, stop_requested, main>>
vars == <<clientVars, thread, calls, up, down, silent, serverVars>>

Operations == {"Hello", "Query", "Goodbye"}

\* The payload sizes of a request; a Goodbye has no payload.
PayloadSizes(op) ==
    CASE op = "Hello" -> HelloSizes [] op = "Query" -> RequestSizes [] op = "Goodbye" -> {0}

Idle == [pc |-> "idle", op |-> "none", size |-> 0, request |-> <<>>, grant |-> 0]

\* grant is the session a HelloAck carries in its payload, code the code of an Error.
Frame(type, owner, seq, size) ==
    [type |-> type, session |-> owner, seq |-> seq, size |-> size, sound |-> "sound",
     grant |-> 0, code |-> "Ok"]
HelloAck(grant, code) == [Frame("HelloAck", 0, 0, AckSize) EXCEPT !.grant = grant, !.code = code]
ErrorFrame(code, size) == [Frame("Error", 0, 0, size) EXCEPT !.code = code]

Init ==
    /\ guard = "open" /\ io = None
    /\ handshaken = FALSE /\ session = 0
    /\ next_seq = 1 /\ sequence_exhausted = FALSE
    /\ max_frame_payload = client_ceiling
    /\ decoder = NewDecoder
    /\ thread = [t \in Threads |-> Idle] /\ calls = 0
    /\ closer = "idle"
    /\ up = <<>> /\ down = <<>> /\ silent = FALSE
    /\ peer = "open"
    /\ worker = [pc |-> "queued", decoder |-> NewDecoder, request |-> <<>>, response |-> <<>>]
    /\ sessions = <<>>
    /\ stop_requested = FALSE
    /\ main = "waiting"
-----------------------------------------------------------------------------
(* The client. *)

\* A call returns to its caller.
Returned(t) == thread' = [thread EXCEPT ![t] = Idle]

\* handshake and call up to the io mutex.  A closed client refuses at once and nothing changes.
Enter(t, op, size) ==
    /\ thread[t].pc = "idle" /\ guard = "open"
    /\ calls < MaxCalls
    /\ calls' = calls + 1
    /\ thread' = [thread EXCEPT ![t].pc = "entered", ![t].op = op, ![t].size = size]
    /\ UNCHANGED <<clientVars, up, down, silent, serverVars>>

take_sequenceMutant ==
    /\ next_seq' = IF next_seq = UINT64_MAX THEN next_seq ELSE next_seq + 1
    /\ UNCHANGED sequence_exhausted

\* take_sequence: the last value is handed out once.
take_sequence ==
    IF next_seq = UINT64_MAX THEN sequence_exhausted' = TRUE /\ UNCHANGED next_seq
    ELSE next_seq' = next_seq + 1 /\ UNCHANGED sequence_exhausted

\* Whether handshake or call refuses a request before it is numbered, once it holds the io mutex.
Refused(call) ==
    \/ call.op = "Hello" /\ handshaken
    \/ call.op # "Hello" /\ (~handshaken \/ call.size > max_frame_payload)
    \/ sequence_exhausted

\* The request of a call, numbered.
Requested(t) ==
    [thread EXCEPT ![t].pc = "sending",
                   ![t].request = <<Frame(thread[t].op,
                                          IF thread[t].op = "Hello" THEN 0 ELSE session,
                                          next_seq, thread[t].size)>>]

BeginMutant(t) ==
    /\ thread[t].pc = "entered" /\ io = None
    /\ \/ /\ Refused(thread[t])
          /\ Returned(t)
          /\ UNCHANGED <<io, next_seq, sequence_exhausted>>
       \/ /\ ~Refused(thread[t])
          /\ take_sequence
          /\ thread' = Requested(t)
          /\ UNCHANGED io
    /\ UNCHANGED <<guard, handshaken, session, max_frame_payload, decoder, closer, up, down, silent, calls,
                   serverVars>>

\* The io mutex is taken; the request is refused, or numbered and made.  A Hello beyond the client's
\* own bound is refused by encode_frame at the head of round_trip, after it was numbered.
Begin(t) ==
    /\ thread[t].pc = "entered" /\ io = None
    /\ \/ /\ Refused(thread[t])
          /\ Returned(t)
          /\ UNCHANGED <<io, next_seq, sequence_exhausted>>
       \/ /\ ~Refused(thread[t])
          /\ take_sequence
          /\ IF thread[t].size <= max_frame_payload
             THEN io' = t /\ thread' = Requested(t)
             ELSE Returned(t) /\ UNCHANGED io
    /\ UNCHANGED <<guard, handshaken, session, max_frame_payload, decoder, closer, up, down, silent, calls,
                   serverVars>>

\* round_trip fails: the connection is dropped and the mutex released.
Drop(t) ==
    /\ guard' = "closing"
    /\ io' = None
    /\ Returned(t)

\* round_trip sends; a peer that has closed may or may not be noticed.
Send(t) ==
    /\ thread[t].pc = "sending"
    /\ \/ /\ guard = "open"
          /\ up' = up \o encode_frame(thread[t].request[1])
          /\ thread' = [thread EXCEPT ![t].pc = "decoding"]
          /\ UNCHANGED <<guard, io>>
       \/ /\ guard = "closing" \/ peer = "closed"
          /\ Drop(t)
          /\ UNCHANGED up
    /\ UNCHANGED <<handshaken, session, next_seq, sequence_exhausted, max_frame_payload, decoder,
                   closer, down, silent, calls, serverVars>>

\* A frame reaches its caller: a handshake that was granted a session goes on to adopt it.
Delivered(t, frame) ==
    IF thread[t].op = "Hello" /\ frame.type = "HelloAck" /\ frame.grant # 0
    THEN thread' = [thread EXCEPT ![t].pc = "adopting", ![t].grant = frame.grant] /\ UNCHANGED io
    ELSE Returned(t) /\ io' = None

\* round_trip asks the decoder for a frame.
Decode(t) ==
    /\ thread[t].pc = "decoding"
    /\ LET result == next_result(decoder, decoder_ceiling)
       IN  /\ decoder' = next_decoder(decoder, decoder_ceiling)
           /\ \/ /\ result.disposition = "Complete"
                 /\ Delivered(t, result.frames[1])
                 /\ UNCHANGED guard
              \/ /\ result.disposition = "Incomplete"
                 /\ thread' = [thread EXCEPT ![t].pc = "receiving"]
                 /\ UNCHANGED <<guard, io>>
              \/ /\ result.disposition \in {"Corrupt", "Unsupported"}
                 /\ Drop(t)
    /\ UNCHANGED <<handshaken, session, next_seq, sequence_exhausted, max_frame_payload, closer,
                   up, down, silent, calls, serverVars>>

\* round_trip receives a chunk, or learns that either end is closed (a reset may overtake what
\* the peer sent).
Receive(t) ==
    /\ thread[t].pc = "receiving"
    /\ \/ /\ guard = "open" /\ ~silent
          /\ \E n \in 1..Len(down) :
                 /\ down' = SubSeq(down, n + 1, Len(down))
                 /\ IF feed_accepts(decoder, SubSeq(down, 1, n), decoder_ceiling)
                    THEN /\ decoder' = feed(decoder, SubSeq(down, 1, n), decoder_ceiling)
                         /\ thread' = [thread EXCEPT ![t].pc = "decoding"]
                         /\ UNCHANGED <<guard, io>>
                    ELSE Drop(t) /\ UNCHANGED decoder
       \/ /\ guard = "closing" \/ (peer = "closed" /\ ~silent)
          /\ Drop(t)
          /\ UNCHANGED <<down, decoder>>
    /\ UNCHANGED <<handshaken, session, next_seq, sequence_exhausted, max_frame_payload, closer,
                   up, silent, calls, serverVars>>

AdoptMutant(t) ==
    /\ thread[t].pc = "adopting"
    /\ handshaken' = TRUE
    /\ session' = thread[t].grant
    /\ UNCHANGED max_frame_payload
    /\ io' = None
    /\ Returned(t)
    /\ UNCHANGED <<guard, next_seq, sequence_exhausted, decoder, closer, up, down, silent, calls, serverVars>>

\* handshake adopts the session and the server's payload bound, and returns.
Adopt(t) ==
    /\ thread[t].pc = "adopting"
    /\ handshaken' = TRUE
    /\ session' = thread[t].grant
    /\ max_frame_payload' = IF server_ceiling = 0 \/ max_frame_payload < server_ceiling
                            THEN max_frame_payload ELSE server_ceiling
    /\ io' = None
    /\ Returned(t)
    /\ UNCHANGED <<guard, next_seq, sequence_exhausted, decoder, closer, up, down, silent, calls, serverVars>>

CloseMutant ==
    /\ closer = "idle"
    /\ closer' = "closing"
    /\ UNCHANGED <<guard, io, handshaken, session, next_seq, sequence_exhausted, max_frame_payload,
                   decoder, thread, up, down, silent, calls, serverVars>>

\* close: the socket first, the handshake after it.
Close ==
    /\ closer = "idle"
    /\ guard' = "closing" /\ closer' = "closing"
    /\ UNCHANGED <<io, handshaken, session, next_seq, sequence_exhausted, max_frame_payload, decoder,
                   thread, up, down, silent, calls, serverVars>>
CloseForgets ==
    /\ closer = "closing"
    /\ handshaken' = FALSE /\ closer' = "closed"
    /\ UNCHANGED <<guard, io, session, next_seq, sequence_exhausted, max_frame_payload, decoder,
                   thread, up, down, silent, calls, serverVars>>
-----------------------------------------------------------------------------
(* The server's end. *)

\* serve returns, or never began: its frames and its decoder are gone with it, and only whether
\* the decoder refused a frame is remembered.
Gone(decoded) ==
    [pc |-> "gone", decoder |-> [buffer |-> <<>>, sticky |-> decoded.sticky],
     request |-> <<>>, response |-> <<>>]

\* The connection is closed and nobody serves it.
Leave == worker' = Gone(worker.decoder) /\ peer' = "closed"

\* accept_connection refuses the connection when the server has as many as it may have.
RefuseConnection ==
    /\ worker.pc = "queued"
    /\ Leave
    /\ UNCHANGED <<clientVars, thread, calls, up, down, silent, sessions, stop_requested, main>>

\* worker_main: a worker that has left its last connection takes this one from the queue.
TakeConnection ==
    /\ worker.pc = "queued"
    /\ worker' = [worker EXCEPT !.pc = "top"]
    /\ UNCHANGED <<clientVars, thread, calls, up, down, silent, peer, sessions, stop_requested, main>>

\* serve asks its decoder for a frame.
ServerDecodes(fed) ==
    LET result == next_result(fed, server_ceiling)
        decoded == next_decoder(fed, server_ceiling)
    IN  /\ worker' = CASE result.disposition = "Complete"
                            -> [worker EXCEPT !.pc = "handling", !.decoder = decoded,
                                              !.request = result.frames]
                       [] result.disposition = "Incomplete"
                            -> [worker EXCEPT !.pc = "reading", !.decoder = decoded]
                       [] OTHER -> Gone(decoded)
        /\ peer' = IF result.disposition \in {"Complete", "Incomplete"} THEN peer ELSE "closed"

\* The head of serve's loop: a stop ends it, otherwise a frame may already be buffered.
ServerTop ==
    /\ worker.pc = "top"
    /\ IF main = "waiting" THEN ServerDecodes(worker.decoder) ELSE Leave
    /\ UNCHANGED <<clientVars, thread, calls, up, down, silent, sessions, stop_requested, main>>

\* serve receives a chunk; it leaves when either end is closed.
ServerReceive ==
    /\ worker.pc = "reading"
    /\ \/ /\ peer = "open" /\ ~silent
          /\ \E n \in 1..Len(up) :
                 /\ up' = SubSeq(up, n + 1, Len(up))
                 /\ IF feed_accepts(worker.decoder, SubSeq(up, 1, n), server_ceiling)
                    THEN ServerDecodes(feed(worker.decoder, SubSeq(up, 1, n), server_ceiling))
                    ELSE Leave
       \/ /\ peer = "closed" \/ (guard = "closing" /\ ~silent)
          /\ Leave
          /\ UNCHANGED up
    /\ UNCHANGED <<clientVars, thread, calls, down, silent, sessions, stop_requested, main>>

\* SessionRegistry::authorise, for the incarnation that serves.
authorise(frame) ==
    IF frame.session \notin DOMAIN sessions THEN "Unauthorized"
    ELSE IF frame.seq <= sessions[frame.session] THEN "Replay" ELSE "Ok"

\* serve keeps the request's session and sequence in whatever the handler answered.
Bound(frame) ==
    [frame EXCEPT !.session = worker.request[1].session, !.seq = worker.request[1].seq]
Answers(frame) ==
    worker' = [worker EXCEPT !.pc = "answering", !.response = <<Bound(frame)>>]

\* serve turns a handler that fails or throws into an Error.
Fails(code) == \E size \in ErrorSizes : Answers(ErrorFrame(code, size))

\* The handler of run_serve: what it changes and what it answers.  A Hello may not decode, the
\* registry may be full with the sessions of other clients, and the handler may throw before or
\* after it has opened the session; a query may fail, and its result may have any size.
Handle ==
    LET request == worker.request[1]
    IN  /\ worker.pc = "handling"
        /\ \/ /\ request.type = "Hello"
              /\ \/ /\ sessions' = Append(sessions, 0)
                    /\ Answers(HelloAck(Len(sessions) + 1, "Ok")) \/ Fails("Invalid")
                 \/ /\ UNCHANGED sessions
                    /\ Answers(HelloAck(0, "Exhausted")) \/ Fails("Invalid")
              /\ UNCHANGED stop_requested
           \/ /\ request.type = "Goodbye"
              /\ stop_requested' = TRUE
              /\ Answers(Frame("Goodbye", 0, 0, 0))
              /\ UNCHANGED sessions
           \/ /\ request.type = "Query"
              /\ IF authorise(request) = "Ok"
                 THEN /\ sessions' = [sessions EXCEPT ![request.session] = request.seq]
                      /\ \/ Fails("NotFound")
                         \/ \E size \in ResultSizes : Answers(Frame("Result", 0, 0, size))
                 ELSE UNCHANGED sessions /\ Fails(authorise(request))
              /\ UNCHANGED stop_requested
        /\ UNCHANGED <<clientVars, thread, calls, up, down, silent, peer, main>>

\* What serve sends for an answer: an answer beyond the payload bound becomes an Error.
Outgoing(frame) ==
    IF encodable(frame, server_ceiling) THEN {frame}
    ELSE {Bound(ErrorFrame("Exhausted", size)) : size \in ErrorSizes}

RespondMutant ==
    /\ worker.pc = "answering"
    /\ \/ /\ peer = "open"
          /\ down' = IF encodable(worker.response[1], server_ceiling)
                     THEN down \o encode_frame(worker.response[1]) ELSE down
          /\ worker' = [worker EXCEPT !.pc = "top", !.request = <<>>, !.response = <<>>]
          /\ UNCHANGED peer
       \/ /\ peer = "closed" \/ guard = "closing"
          /\ Leave
          /\ UNCHANGED down
    /\ UNCHANGED <<clientVars, thread, calls, up, silent, sessions, stop_requested, main>>

\* serve sends the answer; it leaves when it cannot, or when even the Error is beyond the bound.
Respond ==
    /\ worker.pc = "answering"
    /\ \E frame \in Outgoing(worker.response[1]) :
          \/ /\ peer = "open" /\ encodable(frame, server_ceiling)
             /\ down' = down \o encode_frame(frame)
             /\ worker' = [worker EXCEPT !.pc = "top", !.request = <<>>, !.response = <<>>]
             /\ UNCHANGED peer
          \/ /\ peer = "closed" \/ guard = "closing" \/ ~encodable(frame, server_ceiling)
             /\ Leave
             /\ UNCHANGED down
    /\ UNCHANGED <<clientVars, thread, calls, up, silent, sessions, stop_requested, main>>

StopsMutant ==
    /\ main = "waiting" /\ main' = "stopping"
    /\ worker' = IF worker.pc = "queued" THEN Gone(worker.decoder) ELSE worker
    /\ UNCHANGED peer

\* FrameServer::stop closes every connection, and no worker takes one from the queue any more.
Stops ==
    /\ main = "waiting" /\ main' = "stopping"
    /\ worker' = IF worker.pc = "queued" THEN Gone(worker.decoder) ELSE worker
    /\ peer' = "closed"

\* run_serve: wait_for_stop, FrameServer::stop, Coordinator::shutdown.  The Goodbye that wakes the
\* main thread is this client's, or one that another worker handled.
MainWakes ==
    /\ stop_requested /\ Stops
    /\ UNCHANGED <<clientVars, thread, calls, up, down, silent, sessions, stop_requested>>
StopElsewhere ==
    /\ ~stop_requested /\ stop_requested' = TRUE /\ Stops
    /\ UNCHANGED <<clientVars, thread, calls, up, down, silent, sessions>>
MainJoins ==
    /\ main = "stopping" /\ worker.pc = "gone"
    /\ main' = "done" /\ sessions' = <<>>
    /\ UNCHANGED <<clientVars, thread, calls, up, down, silent, peer, worker, stop_requested>>

\* The server process ends without a stop.
Die ==
    /\ main = "waiting"
    /\ main' = "dead" /\ Leave
    /\ sessions' = <<>>
    /\ UNCHANGED <<clientVars, thread, calls, up, down, silent, stop_requested>>

FallSilent ==
    /\ ~silent /\ silent' = TRUE
    /\ UNCHANGED <<clientVars, thread, calls, up, down, serverVars>>
-----------------------------------------------------------------------------
Next ==
    \/ \E t \in Threads :
          \/ \E op \in Operations : \E size \in PayloadSizes(op) : Enter(t, op, size)
          \/ Begin(t) \/ Send(t) \/ Decode(t) \/ Receive(t) \/ Adopt(t)
    \/ Close \/ CloseForgets
    \/ RefuseConnection \/ TakeConnection
    \/ ServerTop \/ ServerReceive \/ Handle \/ Respond
    \/ StopElsewhere \/ MainWakes \/ MainJoins
    \/ Die \/ FallSilent

\* A thread inside the library keeps running, and so do a worker that has the connection and the
\* main thread.  No worker has to come for the connection: each may be with another client for
\* ever.  Nobody has to call, to close, to stop the server, to die or to lose the network.
Fairness ==
    /\ \A t \in Threads :
          WF_vars(Begin(t) \/ Send(t) \/ Decode(t) \/ Receive(t) \/ Adopt(t))
    /\ WF_vars(CloseForgets)
    /\ WF_vars(ServerTop \/ ServerReceive \/ Handle \/ Respond)
    /\ WF_vars(MainWakes \/ MainJoins)

Spec == Init /\ [][Next]_vars /\ Fairness
-----------------------------------------------------------------------------
(* Properties. *)

\* Every variable has its type, the sequence counter never passes UINT64_MAX, the decoder's buffer
\* never exceeds its capacity and the client's session is one the server opened.
TypeOK ==
    /\ guard \in {"open", "closing"}
    /\ handshaken \in BOOLEAN /\ sequence_exhausted \in BOOLEAN
    /\ silent \in BOOLEAN /\ stop_requested \in BOOLEAN
    /\ next_seq \in 1..UINT64_MAX
    /\ max_frame_payload \in 0..client_ceiling
    /\ session \in 0..Len(sessions) \/ main \in {"done", "dead"}
    /\ \A i \in DOMAIN sessions : sessions[i] \in 0..UINT64_MAX
    /\ Len(decoder.buffer) <= DecoderCapacity(decoder_ceiling)
    /\ io \in Threads \cup {None}
    /\ \A t \in Threads :
          thread[t].pc \in {"idle", "entered", "sending", "decoding", "receiving", "adopting"}
    /\ peer \in {"open", "closed"}
    /\ worker.pc \in {"queued", "top", "reading", "handling", "answering", "gone"}
    /\ main \in {"waiting", "stopping", "done", "dead"}

\* client.cpp promises that a response can never be attributed to the wrong request, yet
\* round_trip never compares the sequence of what it receives: the frame a caller is about to be
\* handed carries the sequence of the caller's own request, whatever was dropped, closed or cut before.
AnswerIsForTheRequest ==
    \A t \in Threads :
        LET result == next_result(decoder, decoder_ceiling)
        IN  (thread[t].pc = "decoding" /\ result.disposition = "Complete") =>
                /\ result.frames[1].seq = thread[t].request[1].seq
                /\ result.frames[1].type \in IF thread[t].op = "Hello" THEN {"HelloAck", "Error"}
                                             ELSE IF thread[t].op = "Query" THEN {"Result", "Error"}
                                             ELSE {"Goodbye"}

\* client.cpp promises that a replayed request sequence is impossible by construction: the session
\* registry never refuses a request of this client as a replay or as unauthorised, also when the
\* sequence space is used up and the calls come from several threads.
ServerNeverSeesReplay ==
    \A i \in DOMAIN worker.response : worker.response[i].code \notin {"Replay", "Unauthorized"}

\* handshake adopts the server's lower payload bound so that the server's decoder never has to
\* drop the connection because of a frame this client sent: from the adoption on, the decoder has
\* refused no frame, not even one of a thread that was waiting for the mutex meanwhile.  Only a
\* Hello, sent while nothing is agreed, can be too large for the server.
ServerAcceptsEveryFrame == session # 0 => worker.decoder.sticky = "none"

\* close() releases a blocked read by shutting the socket down: every call in progress returns,
\* also when the network has fallen silent.
CloseReleasesCalls == (closer # "idle") ~> (\A t \in Threads : thread[t].pc = "idle")

\* serve gives exactly one definite response to every request, or closes: once a worker has the
\* connection every call returns, unless the network falls silent.  In the queue a call may wait
\* for as long as the workers are with other clients.
CallsReturn ==
    \A t \in Threads :
        (thread[t].pc # "idle") ~> (thread[t].pc = "idle" \/ silent \/ worker.pc = "queued")

\* The stop path of serve is a protocol message, never a timer: once a Goodbye was handled, the
\* server joins its worker and shuts the coordinator down, whatever its peers do.
GoodbyeStops == stop_requested ~> main \in {"done", "dead"}
=============================================================================
