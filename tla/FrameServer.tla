---------------------------- MODULE FrameServer ----------------------------
(***************************************************************************)
(* FrameServer (src/transport/server.cpp) over GuardedSocket and Socket    *)
(* (src/transport/socket.cpp): one accept thread, a pool of workers, and   *)
(* the threads that stop the server: its owner's, and a worker's when a    *)
(* handler calls stop().                                                   *)
(*                                                                         *)
(* A critical section is one step, and so is the return of a system call.  *)
(* After begin() has allowed an operation, the handle is read with no lock *)
(* held, the system call looks it up in the descriptor table, and the call *)
(* returns; a handle closed in between may already name another            *)
(* connection.  What a peer does (connect, send, read, leave) is the       *)
(* return of the call that notices it, and is never obliged to happen.  A  *)
(* request is one read and an answer one write.                            *)
(***************************************************************************)
EXTENDS Naturals, Sequences, FiniteSets

CONSTANTS
    Workers, Conns, Handles,
    None,
    max_connections,            \* ServerOptions::max_connections
    kMaxConsecutiveAcceptErrors,
    MaxRequests                 \* bound: requests on a connection

ASSUME ServerAssumption ==
    /\ max_connections \in Nat \ {0}
    /\ kMaxConsecutiveAcceptErrors \in Nat \ {0}
    /\ MaxRequests \in Nat
    /\ None \notin Workers \cup Conns \cup Handles
    /\ "main" \notin Workers

VARIABLES
    arrivals,   \* connections not yet accepted
    read,       \* per connection: requests taken off it
    responses,  \* per connection: the requests answered on it, in order
    fds,        \* the process's descriptor table: handle -> connection or None
    shut,       \* connections the server has shut down
    handle_,    \* Connection::guard.socket_.handle_; None is kInvalidSocket
    closing_,   \* connections whose guard is closing
    queue, live, stopping, stopped,
    wake,       \* the wakeup socket is readable
    accepter,   \* the accept thread: [pc, conn, errors]
    worker,     \* per worker: [pc, conn, fd, file, req]
    stopper     \* per thread that may call stop: [pc, snapshot]

traffic == <<read, responses>>
sockets == <<fds, shut, handle_, closing_>>
flags == <<stopping, stopped, wake>>
vars == <<arrivals, traffic, sockets, queue, live, flags,
          accepter, worker, stopper>>

Threads == {"main"} \cup Workers

Queued == {queue[i] : i \in DOMAIN queue}

Idle == [pc |-> "idle", conn |-> None, fd |-> None, file |-> None, req |-> None]

\* FrameServer::start, once every thread has been created
Init ==
    /\ arrivals = Conns
    /\ read = [c \in Conns |-> 0]
    /\ responses = [c \in Conns |-> <<>>]
    /\ fds = [h \in Handles |-> None]
    /\ shut = {}
    /\ handle_ = [c \in Conns |-> None]
    /\ closing_ = {}
    /\ queue = <<>> /\ live = {}
    /\ stopping = FALSE /\ stopped = FALSE /\ wake = FALSE
    /\ accepter = [pc |-> "check", conn |-> None, errors |-> 0]
    /\ worker = [w \in Workers |-> Idle]
    /\ stopper = [t \in Threads |-> [pc |-> "out", snapshot |-> {}]]

-----------------------------------------------------------------------------
(* Sockets *)

\* Socket::close for every connection of cs: shut down, then closed, once each
CloseAll(cs) ==
    LET open == {c \in cs : handle_[c] # None} IN
    /\ fds' = [h \in Handles |-> IF \E c \in open : handle_[c] = h THEN None ELSE fds[h]]
    /\ shut' = shut \cup open
    /\ handle_' = [c \in Conns |-> IF c \in cs THEN None ELSE handle_[c]]

\* GuardedSocket::request_close
request_close(c) ==
    /\ closing_' = closing_ \cup {c}
    /\ CloseAll(IF c \in closing_ THEN {} ELSE {c})

\* GuardedSocket::begin
Usable(c) == c \notin closing_ /\ handle_[c] # None

-----------------------------------------------------------------------------
(* The condition variable: a woken worker checks the predicate again *)

WakeAll == [w \in Workers |-> IF worker[w].pc = "asleep" THEN Idle ELSE worker[w]]

notify_none == UNCHANGED worker

notify_one ==
    IF \E w \in Workers : worker[w].pc = "asleep"
    THEN \E w \in Workers : /\ worker[w].pc = "asleep"
                            /\ worker' = [worker EXCEPT ![w] = Idle]
    ELSE UNCHANGED worker

-----------------------------------------------------------------------------
(* accept_main, accept_connection *)

MarkNothing == UNCHANGED stopping

MarkStopping == stopping' = TRUE

AcceptStep(from, to) ==
    /\ accepter.pc = from
    /\ accepter' = [accepter EXCEPT !.pc = to]

\* The head of the loop
AcceptCheck ==
    /\ AcceptStep("check", IF stopping THEN "exited" ELSE "poll")
    /\ UNCHANGED <<arrivals, traffic, sockets, queue, live, flags, worker, stopper>>

\* wait_readable_pair, which reports the wakeup end first
AcceptWoken ==
    /\ wake
    /\ AcceptStep("poll", "woken")
    /\ UNCHANGED <<arrivals, traffic, sockets, queue, live, flags, worker, stopper>>

\* ... or a connection to accept, or fails
AcceptPolled ==
    /\ \/ ~wake /\ arrivals # {} /\ AcceptStep("poll", "ready")
       \/ AcceptStep("poll", "unwaited")
    /\ UNCHANGED <<arrivals, traffic, sockets, queue, live, flags, worker, stopper>>

AfterPoll(pc) == CASE stopping \/ pc = "woken" -> "exited"
                   [] ~stopping /\ pc = "unwaited" -> "mark"
                   [] ~stopping /\ pc = "ready" -> "accept"

AcceptWaited ==
    /\ accepter.pc \in {"woken", "unwaited", "ready"}
    /\ accepter' = [accepter EXCEPT !.pc = AfterPoll(accepter.pc)]
    /\ UNCHANGED <<arrivals, traffic, sockets, queue, live, flags, worker, stopper>>

\* accept_tcp takes a connection, on any free handle; or the connection was
\* aborted (Code::Closed); or the call fails and leaves it there
accept_tcp ==
    /\ accepter.pc = "accept"
    /\ \/ \E c \in arrivals, h \in Handles :
             /\ fds[h] = None
             /\ arrivals' = arrivals \ {c}
             /\ fds' = [fds EXCEPT ![h] = c]
             /\ handle_' = [handle_ EXCEPT ![c] = h]
             /\ accepter' = [accepter EXCEPT !.pc = "accepted", !.conn = c]
       \/ \E c \in arrivals :
             /\ arrivals' = arrivals \ {c}
             /\ AcceptStep("accept", "closed")
             /\ UNCHANGED <<fds, handle_>>
       \/ AcceptStep("accept", "failed") /\ UNCHANGED <<arrivals, fds, handle_>>
    /\ UNCHANGED <<traffic, shut, closing_, queue, live, flags, worker, stopper>>

\* Back from accept_tcp; when stopping, the accepted Socket's destructor closes it
AcceptReturned ==
    /\ accepter.pc = "accepted"
    /\ IF stopping
         THEN /\ accepter' = [accepter EXCEPT !.pc = "exited", !.conn = None]
              /\ CloseAll({accepter.conn})
         ELSE /\ accepter' = [accepter EXCEPT !.pc = "admit", !.errors = 0]
              /\ UNCHANGED <<fds, shut, handle_>>
    /\ UNCHANGED <<arrivals, traffic, closing_, queue, live, flags, worker, stopper>>

\* Code::Closed, or one error too many in a row
GiveUp == accepter.pc = "closed" \/ accepter.errors + 1 >= kMaxConsecutiveAcceptErrors

AcceptFailed ==
    /\ accepter.pc \in {"failed", "closed"}
    /\ accepter' = [accepter EXCEPT
          !.errors = IF stopping \/ GiveUp THEN 0 ELSE @ + 1,
          !.pc = IF stopping THEN "exited" ELSE IF GiveUp THEN "mark" ELSE "check"]
    /\ UNCHANGED <<arrivals, traffic, sockets, queue, live, flags, worker, stopper>>

Admit(c) ==
    /\ live' = live \cup {c}
    /\ queue' = Append(queue, c)
    /\ accepter' = [accepter EXCEPT !.pc = "notify", !.conn = None]
    /\ UNCHANGED sockets

Refuse(c) ==
    /\ request_close(c)
    /\ accepter' = [accepter EXCEPT !.pc = "check", !.conn = None]
    /\ UNCHANGED <<live, queue>>

HasRoomForOneMore == ~stopping /\ Cardinality(live) <= max_connections

HasRoom == ~stopping /\ Cardinality(live) < max_connections

\* Admitted and queued, or refused and closed at once
accept_connection ==
    /\ accepter.pc = "admit"
    /\ IF HasRoom THEN Admit(accepter.conn) ELSE Refuse(accepter.conn)
    /\ UNCHANGED <<arrivals, traffic, flags, worker, stopper>>

\* ... or an allocation throws: before the connection is in live, or between
\* live and queue, where live keeps it
AcceptThrows ==
    /\ accepter.pc = "admit"
    /\ accepter' = [accepter EXCEPT !.pc = "mark", !.conn = None]
    /\ \/ CloseAll({accepter.conn}) /\ UNCHANGED live
       \/ /\ HasRoom
          /\ live' = live \cup {accepter.conn}
          /\ UNCHANGED <<fds, shut, handle_>>
    /\ UNCHANGED <<arrivals, traffic, closing_, queue, flags, worker, stopper>>

AcceptNotify ==
    /\ AcceptStep("notify", "check")
    /\ notify_one
    /\ UNCHANGED <<arrivals, traffic, sockets, queue, live, flags, stopper>>

\* mark_stopping: the flag under the lock, then notify_all
AcceptMark ==
    /\ \/ AcceptStep("mark", "marked") /\ MarkStopping /\ UNCHANGED worker
       \/ AcceptStep("marked", "exited") /\ worker' = WakeAll /\ UNCHANGED stopping
    /\ UNCHANGED <<arrivals, traffic, sockets, queue, live, stopped, wake, stopper>>

-----------------------------------------------------------------------------
(* worker_main, serve *)

WorkerStep(w, from, to) ==
    /\ worker[w].pc = from
    /\ worker' = [worker EXCEPT ![w].pc = to]

\* Back to the head of the loop or out of serve: the call's locals are dead
Ended(w, to) == worker' = [worker EXCEPT ![w] = [Idle EXCEPT !.pc = to, !.conn = worker[w].conn]]

Peeked == queue

Popped == Tail(queue)

\* The wait, and the connection taken off the queue under the same lock
WorkerTakes(w) ==
    /\ worker[w].pc = "idle"
    /\ \/ stopping /\ WorkerStep(w, "idle", "exited") /\ UNCHANGED queue
       \/ /\ ~stopping /\ queue = <<>>
          /\ WorkerStep(w, "idle", "asleep") /\ UNCHANGED queue
       \/ /\ ~stopping /\ queue # <<>>
          /\ worker' = [worker EXCEPT ![w].pc = "loop", ![w].conn = Head(queue)]
          /\ queue' = Popped
    /\ UNCHANGED <<arrivals, traffic, sockets, live, flags, accepter, stopper>>

\* A condition variable may wake its waiter for no reason
SpuriousWakeup(w) ==
    /\ WorkerStep(w, "asleep", "idle")
    /\ UNCHANGED <<arrivals, traffic, sockets, queue, live, flags, accepter, stopper>>

ServeLoop(w) ==
    /\ worker[w].pc = "loop"
    /\ \/ WorkerStep(w, "loop", IF stopping THEN "finish" ELSE "recv_begin")
       \/ Ended(w, "mark")
    /\ UNCHANGED <<arrivals, traffic, sockets, queue, live, flags, accepter, stopper>>

\* GuardedSocketUse: begin() under the guard's lock
Begin(w) ==
    LET ok == Usable(worker[w].conn) IN
    /\ \/ WorkerStep(w, "recv_begin", IF ok THEN "recv_arg" ELSE "finish")
       \/ WorkerStep(w, "send_begin", IF ok THEN "send_arg" ELSE "finish")
    /\ UNCHANGED <<arrivals, traffic, sockets, queue, live, flags, accepter, stopper>>

\* valid() and native(): handle_ read with no lock held
ReadHandle(w) ==
    LET h == handle_[worker[w].conn] IN
    /\ worker[w].pc \in {"recv_arg", "send_arg"}
    /\ worker' = [worker EXCEPT
          ![w].fd = h,
          ![w].pc = IF h = None THEN "finish"
                    ELSE IF @ = "recv_arg" THEN "recv_call" ELSE "send_call"]
    /\ UNCHANGED <<arrivals, traffic, sockets, queue, live, flags, accepter, stopper>>

\* The system call finds what the handle now names
EnterCall(w) ==
    LET f == fds[worker[w].fd] IN
    /\ worker[w].pc \in {"recv_call", "send_call"}
    /\ worker' = [worker EXCEPT
          ![w].file = f,
          ![w].pc = IF f = None THEN "finish"
                    ELSE IF @ = "recv_call" THEN "recv" ELSE "send"]
    /\ UNCHANGED <<arrivals, traffic, sockets, queue, live, flags, accepter, stopper>>

\* recv returns a request
Receive(w) ==
    LET f == worker[w].file IN
    /\ worker[w].pc = "recv" /\ read[f] < MaxRequests
    /\ read' = [read EXCEPT ![f] = @ + 1]
    /\ worker' = [worker EXCEPT ![w].pc = "handle", ![w].req = <<f, read[f] + 1>>,
                                ![w].fd = None, ![w].file = None]
    /\ UNCHANGED <<arrivals, responses, sockets, queue, live, flags, accepter, stopper>>

\* The frame is decoded and handled, and there is always an answer to send; or
\* the frame, or every answer to it, is refused; or an allocation throws
HandleRequest(w) ==
    /\ worker[w].pc = "handle" /\ stopper[w].pc \in {"out", "done"}
    /\ \/ WorkerStep(w, "handle", "send_begin")
       \/ Ended(w, "finish")
       \/ Ended(w, "mark")
    /\ UNCHANGED <<arrivals, traffic, sockets, queue, live, flags, accepter, stopper>>

\* send takes the whole answer
Send(w) ==
    LET f == worker[w].file IN
    /\ worker[w].pc = "send" /\ f \notin shut
    /\ responses' = [responses EXCEPT ![f] = Append(@, worker[w].req)]
    /\ Ended(w, "loop")
    /\ UNCHANGED <<arrivals, read, sockets, queue, live, flags, accepter, stopper>>

\* A call on a connection that is shut down returns; so does one whose peer leaves
CallEnds(w) ==
    /\ worker[w].pc \in {"recv", "send"}
    /\ Ended(w, "finish")
    /\ UNCHANGED <<arrivals, traffic, sockets, queue, live, flags, accepter, stopper>>

Released(w) == worker[w].file \in shut /\ CallEnds(w)

Finish(w) ==
    /\ worker[w].pc = "finish"
    /\ Ended(w, "erase")
    /\ request_close(worker[w].conn)
    /\ UNCHANGED <<arrivals, traffic, queue, live, flags, accepter, stopper>>

Erase(w) ==
    /\ worker[w].pc = "erase"
    /\ worker' = [worker EXCEPT ![w] = Idle]
    /\ live' = live \ {worker[w].conn}
    /\ UNCHANGED <<arrivals, traffic, sockets, queue, flags, accepter, stopper>>

\* An exception ends the worker; the connection stays live, unserved
WorkerMark(w) ==
    /\ \/ /\ worker[w].pc = "mark"
          /\ worker' = [worker EXCEPT ![w] = [Idle EXCEPT !.pc = "marked"]]
          /\ MarkStopping
       \/ /\ worker[w].pc = "marked"
          /\ worker' = [WakeAll EXCEPT ![w].pc = "exited"]
          /\ UNCHANGED stopping
    /\ UNCHANGED <<arrivals, traffic, sockets, queue, live, stopped, wake,
                   accepter, stopper>>

-----------------------------------------------------------------------------
(* stop_all, by the thread that owns the server or from inside a handler *)

StopStep(t, from, to) ==
    /\ stopper[t].pc = from
    /\ stopper' = [stopper EXCEPT ![t].pc = to]

\* The flag under the lock; a stop after a stop that returned does nothing
StopBegins(t) ==
    /\ t \in Workers => worker[t].pc = "handle"
    /\ ~stopped
    /\ StopStep(t, "out", "notify")
    /\ MarkStopping
    /\ UNCHANGED <<arrivals, traffic, sockets, queue, live, stopped, wake,
                   accepter, worker>>

StopNotifies(t) ==
    /\ StopStep(t, "notify", "wake")
    /\ worker' = WakeAll
    /\ UNCHANGED <<arrivals, traffic, sockets, queue, live, flags, accepter>>

StopWakes(t) ==
    /\ StopStep(t, "wake", "snapshot")
    /\ wake' = TRUE
    /\ UNCHANGED <<arrivals, traffic, sockets, queue, live, stopping, stopped,
                   accepter, worker>>

SnapshotOfQueue == Queued

Snapshot == live

StopSnapshots(t) ==
    /\ stopper[t].pc = "snapshot"
    /\ stopper' = [stopper EXCEPT ![t] = [pc |-> "close", snapshot |-> Snapshot]]
    /\ UNCHANGED <<arrivals, traffic, sockets, queue, live, flags, accepter, worker>>

\* The snapshot is closed connection by connection; a server thread then returns Busy
StopCloses(t) ==
    /\ stopper[t].pc = "close"
    /\ \/ \E c \in stopper[t].snapshot :
             /\ request_close(c)
             /\ stopper' = [stopper EXCEPT ![t].snapshot = @ \ {c}]
       \/ /\ stopper[t].snapshot = {}
          /\ StopStep(t, "close", IF t \in Workers THEN "done" ELSE "join")
          /\ UNCHANGED sockets
    /\ UNCHANGED <<arrivals, traffic, queue, live, flags, accepter, worker>>

\* Every thread joined; the last references to the connections are dropped
StopJoins ==
    /\ accepter.pc = "exited"
    /\ \A w \in Workers : worker[w].pc = "exited"
    /\ StopStep("main", "join", "done")
    /\ CloseAll(live)
    /\ live' = {} /\ queue' = <<>>
    /\ stopped' = TRUE
    /\ UNCHANGED <<arrivals, traffic, closing_, stopping, wake, accepter, worker>>

-----------------------------------------------------------------------------
(* The threads *)

AcceptThread ==
    \/ AcceptCheck \/ AcceptWaited \/ accept_tcp \/ AcceptReturned \/ AcceptFailed
    \/ accept_connection \/ AcceptThrows \/ AcceptNotify \/ AcceptMark \/ AcceptWoken

WorkerThread(w) ==
    \/ WorkerTakes(w) \/ ServeLoop(w) \/ Begin(w) \/ ReadHandle(w) \/ EnterCall(w)
    \/ HandleRequest(w) \/ Released(w) \/ Finish(w) \/ Erase(w)
    \/ WorkerMark(w)

Stopping(t) ==
    StopNotifies(t) \/ StopWakes(t) \/ StopSnapshots(t) \/ StopCloses(t)

Next ==
    \/ AcceptThread \/ AcceptPolled
    \/ \E w \in Workers :
          WorkerThread(w) \/ SpuriousWakeup(w) \/ Receive(w) \/ Send(w) \/ CallEnds(w)
    \/ \E t \in Threads : StopBegins(t) \/ Stopping(t)
    \/ StopJoins

\* The scheduler runs every thread that can run, and a handler returns.  Nothing
\* is assumed of a peer: one that stops reading blocks the sender (Send).
Fairness ==
    /\ WF_vars(AcceptThread)
    /\ \A w \in Workers : WF_vars(WorkerThread(w))
    /\ \A t \in Threads : WF_vars(Stopping(t))
    /\ WF_vars(StopJoins)

Spec == Init /\ [][Next]_vars /\ Fairness

-----------------------------------------------------------------------------
(* Properties *)

ConnectionOrNone == Conns \cup {None}

\* Types, and the bound on consecutive accept errors (kMaxConsecutiveAcceptErrors)
TypeOK ==
    /\ arrivals \subseteq Conns
    /\ read \in [Conns -> 0 .. MaxRequests]
    /\ responses \in [Conns -> Seq(Conns \X (1 .. MaxRequests))]
    /\ fds \in [Handles -> ConnectionOrNone]
    /\ shut \subseteq Conns
    /\ handle_ \in [Conns -> Handles \cup {None}]
    /\ closing_ \subseteq Conns
    /\ queue \in Seq(Conns) /\ live \subseteq Conns
    /\ stopping \in BOOLEAN /\ stopped \in BOOLEAN /\ wake \in BOOLEAN
    /\ accepter.pc \in {"check", "poll", "woken", "ready", "unwaited", "accept",
                        "accepted", "failed", "closed", "admit", "notify", "mark",
                        "marked", "exited"}
    /\ accepter.conn \in ConnectionOrNone
    /\ accepter.errors \in 0 .. kMaxConsecutiveAcceptErrors - 1
    /\ \A w \in Workers :
          /\ worker[w].pc \in {"idle", "asleep", "loop", "recv_begin", "recv_arg",
                               "recv_call", "recv", "handle", "send_begin", "send_arg",
                               "send_call", "send", "finish", "erase", "mark",
                               "marked", "exited"}
          /\ worker[w].conn \in ConnectionOrNone
          /\ worker[w].file \in ConnectionOrNone
    /\ \A t \in Threads : stopper[t].snapshot \subseteq Conns

\* A connection is in one place: the accept thread's hands, the queue, or one
\* worker's; the last two only while it is live (queue and live change under
\* one lock, and the worker that pops a connection is the one that erases it).
ConnectionHasOneOwner ==
    /\ Cardinality(Queued) = Len(queue)
    /\ accepter.conn \notin live
    /\ \A w \in Workers : worker[w].conn # None =>
          /\ worker[w].conn \in live \ Queued
          /\ \A v \in Workers : worker[v].conn = worker[w].conn => v = w

\* Open handles are bounded by max_connections and one more, the accept
\* thread's: each belongs to a live connection or to the one being accepted,
\* which holds because a worker closes before it erases.  A stop that has
\* returned leaves none.
HandlesAreAccountedFor ==
    /\ Cardinality(live) <= max_connections
    /\ \A h \in Handles : fds[h] # None => fds[h] \in live \cup {accepter.conn}
    /\ stopped => \A h \in Handles : fds[h] = None

\* Until the server is stopping, a connection carries the answers to its own
\* requests, each once and in the order read ("exactly one definite response").
AnswersInOrder ==
    ~stopping =>
       \A c \in Conns :
          /\ responses[c] = [i \in 1 .. Len(responses[c]) |-> <<c, i>>]
          /\ Len(responses[c]) <= read[c]

\* No wakeup is lost: a queued connection is taken unless every worker is busy
\* with another connection, or the server is stopping.
AdmittedIsServed ==
    \A c \in Conns :
       c \in Queued ~> \/ c \notin Queued
                       \/ stopping
                       \/ \A w \in Workers : worker[w].conn # None

\* stop() "never blocks on a peer that has gone silent" (server.hpp): whatever
\* the peers do, a stop that has begun joins every thread and returns.
StopReturns == stopper["main"].pc = "notify" ~> stopped

\* A handle value is used on another connection than its own only while the
\* server stops, and then on a connection that is never admitted.  It can
\* happen: handle_ is read after begin() released the guard's lock, and the
\* accept thread may be given the number that stop_all has just closed.
RecycledHandleIsNeverServed ==
    \A w \in Workers :
       worker[w].file \notin {None, worker[w].conn} => stopping /\ worker[w].file \notin live
=============================================================================
