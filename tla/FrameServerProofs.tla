------------------------- MODULE FrameServerProofs -------------------------
(***************************************************************************)
(* Machine-checked results about FrameServer, for any number of workers,   *)
(* connections, handles and requests, and whatever thread stops it.        *)
(*                                                                         *)
(* The invariant comes in layers, each proved from the ones before it: the *)
(* types and what each program counter says of its thread's locals; who    *)
(* owns a connection; which handles are open; what a handle read without   *)
(* the lock can name; how far a connection's answers are; and how many     *)
(* connections there are, last because only it counts finite sets.         *)
(***************************************************************************)
EXTENDS FrameServer, Integers, TLAPS

AccepterPcs == {"check", "poll", "woken", "ready", "unwaited", "accept", "accepted",
                "failed", "closed", "admit", "notify", "mark", "marked", "exited"}

WorkerPcs == {"idle", "asleep", "loop", "recv_begin", "recv_arg", "recv_call", "recv",
              "handle", "send_begin", "send_arg", "send_call", "send", "finish",
              "erase", "mark", "marked", "exited"}

StopperPcs == {"out", "notify", "wake", "snapshot", "close", "join", "done"}

(* A worker that serves nothing, one inside a system call or about to enter *)
(* it, one before and one after it has read a request.                      *)
Free == {"idle", "asleep", "marked", "exited"}
Calling == {"recv_call", "recv", "send_call", "send"}
Asking == {"loop", "recv_begin", "recv_arg", "recv_call", "recv"}
Answering == {"handle", "send_begin", "send_arg", "send_call", "send"}

Requests == Conns \X (1 .. MaxRequests)

AccepterState == [pc : AccepterPcs, conn : ConnectionOrNone,
                  errors : 0 .. kMaxConsecutiveAcceptErrors - 1]

WorkerState == [pc : WorkerPcs, conn : ConnectionOrNone, fd : Handles \cup {None},
                file : ConnectionOrNone, req : Requests \cup {None}]

StopperState == [pc : StopperPcs, snapshot : SUBSET Conns]

(* The locals of a thread fit its program counter.                          *)
AccepterFits == accepter.conn # None <=> accepter.pc \in {"accepted", "admit"}

WorkerFits(r) ==
    /\ r.conn = None <=> r.pc \in Free
    /\ r.pc \in Calling => r.fd # None
    /\ r.file # None <=> r.pc \in {"recv", "send"}
    /\ r.pc \in Answering => r.req \in Requests

Types ==
    /\ arrivals \subseteq Conns
    /\ read \in [Conns -> 0 .. MaxRequests]
    /\ responses \in [Conns -> Seq(Requests)]
    /\ fds \in [Handles -> ConnectionOrNone]
    /\ shut \subseteq Conns
    /\ handle_ \in [Conns -> Handles \cup {None}]
    /\ closing_ \subseteq Conns
    /\ queue \in Seq(Conns) /\ live \subseteq Conns
    /\ stopping \in BOOLEAN /\ stopped \in BOOLEAN /\ wake \in BOOLEAN
    /\ accepter \in AccepterState
    /\ AccepterFits
    /\ worker \in [Workers -> WorkerState]
    /\ \A w \in Workers : WorkerFits(worker[w])
    /\ stopper \in [Threads -> StopperState]

(* A connection has not arrived, is in the accept thread's hands, or is     *)
(* live; a live one is queued at one place or served by one worker.         *)
Owners ==
    /\ \A i, j \in 1 .. Len(queue) : queue[i] = queue[j] => i = j
    /\ \A i \in 1 .. Len(queue) : queue[i] \in live
    /\ arrivals \cap live = {}
    /\ accepter.conn \notin live \cup arrivals
    /\ \A w \in Workers : worker[w].conn # None =>
          /\ worker[w].conn \in live
          /\ \A i \in 1 .. Len(queue) : queue[i] # worker[w].conn
          /\ \A v \in Workers : worker[v].conn = worker[w].conn => v = w

(* fds and handle_ are inverse to each other, an open handle belongs to a   *)
(* live connection or to the one being accepted, and a connection whose     *)
(* guard is closing, or that its worker is about to erase, has none.        *)
HandlesInv ==
    /\ \A h \in Handles, c \in Conns : fds[h] = c <=> handle_[c] = h
    /\ \A c \in Conns : handle_[c] # None => c \in live \/ c = accepter.conn
    /\ \A c \in closing_ : handle_[c] = None
    /\ closing_ \cap arrivals = {}
    /\ \A t \in Threads : stopper[t].snapshot \cap arrivals = {}
    /\ \A w \in Workers : worker[w].pc = "erase" => handle_[worker[w].conn] = None
-----------------------------------------------------------------------------
(* Types and program counters. *)

(* What wakes sleeping workers leaves every worker typed and fitting.       *)
LEMMA WakeTypes ==
    ASSUME Types, worker' = WakeAll \/ notify_one
    PROVE  /\ worker' \in [Workers -> WorkerState]
           /\ \A w \in Workers : WorkerFits(worker'[w])
<1>1. Idle \in WorkerState /\ WorkerFits(Idle)
  BY Zenon DEF Idle, WorkerState, WorkerPcs, ConnectionOrNone, WorkerFits, Free, Calling, Answering
<1> QED
  BY <1>1, Zenon DEF Types, WakeAll, notify_one

(* Closing sockets leaves the descriptor table and the handles typed.       *)
LEMMA CloseTypes ==
    ASSUME Types, NEW cs \in SUBSET Conns, CloseAll(cs)
    PROVE  /\ fds' \in [Handles -> ConnectionOrNone]
           /\ shut' \subseteq Conns
           /\ handle_' \in [Conns -> Handles \cup {None}]
  BY Zenon DEF Types, CloseAll, ConnectionOrNone

(* request_close leaves the sockets typed.                                  *)
LEMMA RequestCloseTypes ==
    ASSUME Types, NEW c \in Conns, request_close(c)
    PROVE  /\ fds' \in [Handles -> ConnectionOrNone]
           /\ shut' \subseteq Conns
           /\ handle_' \in [Conns -> Handles \cup {None}]
           /\ closing_' \subseteq Conns
<1>1. (IF c \in closing_ THEN {} ELSE {c}) \in SUBSET Conns
  BY Zenon
<1>2. CloseAll(IF c \in closing_ THEN {} ELSE {c})
  BY Zenon DEF request_close
<1> QED
  BY <1>1, <1>2, CloseTypes, Zenon DEF Types, request_close

(* The accept thread takes a connection or lets go of it.                   *)
LEMMA AccepterHolds ==
    ASSUME Types, NEW pc \in AccepterPcs, NEW conn \in ConnectionOrNone,
           accepter' = [accepter EXCEPT !.pc = pc, !.conn = conn]
    PROVE  accepter' \in AccepterState /\ accepter'.pc = pc /\ accepter'.conn = conn
<1>1. accepter \in AccepterState
  BY Zenon DEF Types
<1> QED
  BY <1>1, Zenon DEF AccepterState

(* The steps of the accept thread keep the types.                           *)
LEMMA AcceptTypes ==
    ASSUME Types, AcceptThread \/ AcceptPolled
    PROVE  Types'
<1> USE ServerAssumption DEF Types, AccepterFits, AccepterState, AccepterPcs, ConnectionOrNone
<1>1. CASE AcceptCheck
  BY <1>1, Zenon DEF AcceptCheck, AcceptStep, traffic, sockets, flags
<1>2. CASE AcceptWoken \/ AcceptPolled
  BY <1>2 DEF AcceptWoken, AcceptPolled, AcceptStep, traffic, sockets, flags
<1>3. CASE AcceptWaited
  BY <1>3, Zenon DEF AcceptWaited, AfterPoll, traffic, sockets, flags
<1>4. CASE accept_tcp
  <2>1. CASE \E c \in arrivals, h \in Handles :
                /\ fds[h] = None
                /\ arrivals' = arrivals \ {c}
                /\ fds' = [fds EXCEPT ![h] = c]
                /\ handle_' = [handle_ EXCEPT ![c] = h]
                /\ accepter' = [accepter EXCEPT !.pc = "accepted", !.conn = c]
    <3>1. accepter' \in AccepterState /\ AccepterFits'
      <4>1. PICK c \in Conns : accepter' = [accepter EXCEPT !.pc = "accepted", !.conn = c]
        BY <2>1, Zenon
      <4>2. "accepted" \in AccepterPcs /\ c \in ConnectionOrNone /\ c # None
        BY Zenon
      <4>3. accepter' \in AccepterState /\ accepter'.pc = "accepted" /\ accepter'.conn = c
        BY <4>1, <4>2, AccepterHolds, Zenon
      <4> QED
        BY <4>2, <4>3, Zenon
    <3>2. /\ arrivals' \subseteq Conns
          /\ fds' \in [Handles -> ConnectionOrNone]
          /\ handle_' \in [Conns -> Handles \cup {None}]
      BY <2>1
    <3> QED
      BY <1>4, <3>1, <3>2, Zenon DEF accept_tcp, traffic, flags
  <2>2. CASE /\ arrivals' \subseteq arrivals
             /\ AcceptStep("accept", "closed") \/ AcceptStep("accept", "failed")
             /\ UNCHANGED <<fds, handle_>>
    BY <1>4, <2>2, ZenonT(30) DEF accept_tcp, AcceptStep, traffic, flags
  <2> QED
    BY <1>4, <2>1, <2>2, Zenon DEF accept_tcp
<1>5. CASE AcceptReturned
  <2>2. accepter.conn \in Conns
    BY <1>5, Zenon DEF AcceptReturned
  <2>1. accepter' \in AccepterState /\ AccepterFits'
    <3>1. CASE stopping
      <4>1. accepter' = [accepter EXCEPT !.pc = "exited", !.conn = None]
        BY <1>5, <3>1, Zenon DEF AcceptReturned
      <4>2. "exited" \in AccepterPcs /\ None \in ConnectionOrNone
        BY Zenon
      <4>3. accepter' \in AccepterState /\ accepter'.pc = "exited" /\ accepter'.conn = None
        BY <4>1, <4>2, AccepterHolds, Zenon
      <4> QED
        BY <4>3, Zenon
    <3>2. CASE ~stopping
      <4>1. /\ accepter' = [accepter EXCEPT !.pc = "admit", !.errors = 0]
            /\ accepter.pc = "accepted"
        BY <1>5, <3>2, Zenon DEF AcceptReturned
      <4>2. 0 \in 0 .. kMaxConsecutiveAcceptErrors - 1 /\ accepter \in AccepterState
        OBVIOUS
      <4>3. accepter'.pc = "admit" /\ accepter'.conn = accepter.conn /\ accepter' \in AccepterState
        BY <4>1, <4>2, Zenon
      <4> QED
        BY <2>2, <4>3, Zenon
    <3> QED
      BY <3>1, <3>2, Zenon
  <2>3. CASE stopping
    <3>1. CloseAll({accepter.conn}) /\ {accepter.conn} \in SUBSET Conns
      BY <1>5, <2>2, <2>3, Zenon DEF AcceptReturned
    <3>2. /\ fds' \in [Handles -> ConnectionOrNone]
          /\ shut' \subseteq Conns
          /\ handle_' \in [Conns -> Handles \cup {None}]
      BY <3>1, CloseTypes, Zenon
    <3> QED
      BY <1>5, <2>1, <3>2, Zenon DEF AcceptReturned, traffic, flags
  <2>4. CASE ~stopping
    BY <1>5, <2>1, <2>4, Zenon DEF AcceptReturned, traffic, flags
  <2> QED
    BY <2>3, <2>4, Zenon
<1>6. CASE AcceptFailed
  <2>1. /\ accepter' = [accepter EXCEPT !.errors = accepter'.errors, !.pc = accepter'.pc]
        /\ accepter'.pc \in {"exited", "mark", "check"}
        /\ accepter'.errors = 0 \/ (accepter'.errors = accepter.errors + 1 /\ ~GiveUp)
    BY <1>6, Zenon DEF AcceptFailed
  <2>2. accepter'.errors \in 0 .. kMaxConsecutiveAcceptErrors - 1
    BY <2>1 DEF GiveUp
  <2>3. accepter' \in AccepterState /\ AccepterFits'
    BY <1>6, <2>1, <2>2, Zenon DEF AcceptFailed
  <2> QED
    BY <1>6, <2>3, Zenon DEF AcceptFailed, traffic, sockets, flags
<1>7. CASE accept_connection
  <2>1. accepter.conn \in Conns
    BY <1>7, Zenon DEF accept_connection
  <2>2. CASE Admit(accepter.conn)
    <3>1. accepter' \in AccepterState /\ AccepterFits'
      <4>1. "notify" \in AccepterPcs /\ None \in ConnectionOrNone
        BY Zenon
      <4>2. accepter' \in AccepterState /\ accepter'.pc = "notify" /\ accepter'.conn = None
        BY <2>2, <4>1, AccepterHolds, Zenon DEF Admit
      <4> QED
        BY <4>2, Zenon
    <3>2. live' \subseteq Conns /\ queue' \in Seq(Conns)
      BY <2>1, <2>2 DEF Admit
    <3> QED
      BY <1>7, <2>2, <3>1, <3>2, Zenon DEF accept_connection, Admit, traffic, sockets, flags
  <2>3. CASE Refuse(accepter.conn)
    <3>1. /\ fds' \in [Handles -> ConnectionOrNone]
          /\ shut' \subseteq Conns
          /\ handle_' \in [Conns -> Handles \cup {None}]
          /\ closing_' \subseteq Conns
      BY <2>1, <2>3, RequestCloseTypes, Zenon DEF Refuse
    <3> QED
      BY <1>7, <2>3, <3>1, Zenon DEF accept_connection, Refuse, traffic, flags
  <2> QED
    BY <1>7, <2>2, <2>3, Zenon DEF accept_connection
<1>8. CASE AcceptThrows
  <2>1. {accepter.conn} \in SUBSET Conns
    BY <1>8, Zenon DEF AcceptThrows
  <2>2. /\ fds' \in [Handles -> ConnectionOrNone]
        /\ shut' \subseteq Conns
        /\ handle_' \in [Conns -> Handles \cup {None}]
    BY <1>8, <2>1, CloseTypes, Zenon DEF AcceptThrows
  <2> QED
    BY <1>8, <2>1, <2>2, Zenon DEF AcceptThrows, traffic, flags
<1>9. CASE AcceptNotify
  BY <1>9, WakeTypes, Zenon DEF AcceptNotify, AcceptStep, traffic, sockets, flags
<1>10. CASE AcceptMark
  BY <1>10, WakeTypes, ZenonT(30) DEF AcceptMark, AcceptStep, MarkStopping, traffic, sockets
<1> QED
  BY <1>1, <1>2, <1>3, <1>4, <1>5, <1>6, <1>7, <1>8, <1>9, <1>10, Zenon DEF AcceptThread

(* A worker's step, by what it makes of the worker's locals.                *)
Becomes(w, pc, conn, fd, file, req) ==
    /\ worker' \in [Workers -> WorkerState]
    /\ worker'[w].pc = pc
    /\ worker'[w].conn = conn
    /\ worker'[w].fd = fd
    /\ worker'[w].file = file
    /\ worker'[w].req = req
    /\ \A v \in Workers \ {w} : worker'[v] = worker[v]

Goes(w, pc) ==
    Becomes(w, pc, worker[w].conn, worker[w].fd, worker[w].file, worker[w].req)

Drops(w, pc) == Becomes(w, pc, worker[w].conn, None, None, None)

(* A worker step that only moves the program counter.                       *)
LEMMA StepGoes ==
    ASSUME Types, NEW w \in Workers, NEW to \in WorkerPcs, worker' = [worker EXCEPT ![w].pc = to]
    PROVE  Goes(w, to)
<1>1. worker \in [Workers -> WorkerState]
  BY Zenon DEF Types
<1> QED
  BY <1>1, Zenon DEF Goes, Becomes, WorkerState

(* A system call or a request that ends: the worker keeps its connection    *)
(* and forgets the rest.                                                    *)
LEMMA EndedDrops ==
    ASSUME Types, NEW w \in Workers, NEW to \in WorkerPcs, Ended(w, to)
    PROVE  Drops(w, to)
<1>1. worker \in [Workers -> WorkerState]
  BY Zenon DEF Types
<1>2. Idle \in WorkerState /\ Idle.fd = None /\ Idle.file = None /\ Idle.req = None
  BY Zenon DEF Idle, WorkerState, WorkerPcs, ConnectionOrNone
<1> HIDE DEF Idle
<1> QED
  BY <1>1, <1>2, Zenon DEF Ended, Drops, Becomes, WorkerState

(* What the steps of serve that change more than the program counter make   *)
(* of their worker.                                                         *)
LEMMA ServeBecomes ==
    ASSUME Types, NEW w \in Workers
    PROVE  /\ ReadHandle(w) =>
                 Becomes(w, IF handle_[worker[w].conn] = None THEN "finish"
                            ELSE IF worker[w].pc = "recv_arg" THEN "recv_call" ELSE "send_call",
                         worker[w].conn, handle_[worker[w].conn], worker[w].file, worker[w].req)
           /\ EnterCall(w) =>
                 Becomes(w, IF fds[worker[w].fd] = None THEN "finish"
                            ELSE IF worker[w].pc = "recv_call" THEN "recv" ELSE "send",
                         worker[w].conn, worker[w].fd, fds[worker[w].fd], worker[w].req)
           /\ Receive(w) =>
                 Becomes(w, "handle", worker[w].conn, None, None,
                         <<worker[w].file, read[worker[w].file] + 1>>)
           /\ WorkerTakes(w) =>
                 \/ stopping /\ Goes(w, "exited") /\ queue' = queue
                 \/ ~stopping /\ queue = <<>> /\ Goes(w, "asleep") /\ queue' = queue
                 \/ /\ ~stopping /\ queue # <<>> /\ queue' = Tail(queue)
                    /\ Becomes(w, "loop", Head(queue), worker[w].fd, worker[w].file, worker[w].req)
<1>1. /\ worker \in [Workers -> WorkerState] /\ WorkerFits(worker[w])
      /\ worker[w] \in WorkerState
  BY Zenon DEF Types
<1>2. /\ fds \in [Handles -> ConnectionOrNone]
      /\ handle_ \in [Conns -> Handles \cup {None}]
      /\ read \in [Conns -> 0 .. MaxRequests]
      /\ queue \in Seq(Conns)
  BY Zenon DEF Types
<1>3. ASSUME ReadHandle(w)
      PROVE  Becomes(w, IF handle_[worker[w].conn] = None THEN "finish"
                        ELSE IF worker[w].pc = "recv_arg" THEN "recv_call" ELSE "send_call",
                     worker[w].conn, handle_[worker[w].conn], worker[w].file, worker[w].req)
  <2> DEFINE pc == IF handle_[worker[w].conn] = None THEN "finish"
                   ELSE IF worker[w].pc = "recv_arg" THEN "recv_call" ELSE "send_call"
             h == handle_[worker[w].conn]
  <2>1. pc \in WorkerPcs
    BY Zenon DEF WorkerPcs
  <2>2. worker[w].conn \in Conns
    BY <1>1, <1>3, Zenon DEF ReadHandle, WorkerFits, Free, WorkerState, ConnectionOrNone
  <2>3. h \in Handles \cup {None}
    BY <1>2, <2>2, Zenon
  <2>4. worker' = [worker EXCEPT ![w].fd = h, ![w].pc = pc]
    BY <1>1, <1>3, Zenon DEF ReadHandle
  <2> HIDE DEF pc, h
  <2>5. Becomes(w, pc, worker[w].conn, h, worker[w].file, worker[w].req)
    BY <1>1, <2>1, <2>3, <2>4, Zenon DEF Becomes, WorkerState
  <2> QED
    BY <2>5, Zenon DEF pc, h
<1>4. ASSUME EnterCall(w)
      PROVE  Becomes(w, IF fds[worker[w].fd] = None THEN "finish"
                        ELSE IF worker[w].pc = "recv_call" THEN "recv" ELSE "send",
                     worker[w].conn, worker[w].fd, fds[worker[w].fd], worker[w].req)
  <2> DEFINE pc == IF fds[worker[w].fd] = None THEN "finish"
                   ELSE IF worker[w].pc = "recv_call" THEN "recv" ELSE "send"
             f == fds[worker[w].fd]
  <2>1. pc \in WorkerPcs
    BY Zenon DEF WorkerPcs
  <2>2. worker[w].fd \in Handles
    BY <1>1, <1>4, Zenon DEF EnterCall, WorkerFits, Calling, WorkerState
  <2>3. f \in ConnectionOrNone
    BY <1>2, <2>2, Zenon
  <2>4. worker' = [worker EXCEPT ![w].file = f, ![w].pc = pc]
    BY <1>1, <1>4, Zenon DEF EnterCall
  <2> HIDE DEF pc, f
  <2>5. Becomes(w, pc, worker[w].conn, worker[w].fd, f, worker[w].req)
    BY <1>1, <2>1, <2>3, <2>4, Zenon DEF Becomes, WorkerState
  <2> QED
    BY <2>5, Zenon DEF pc, f
<1>5. ASSUME Receive(w)
      PROVE  Becomes(w, "handle", worker[w].conn, None, None,
                     <<worker[w].file, read[worker[w].file] + 1>>)
  <2> DEFINE req == <<worker[w].file, read[worker[w].file] + 1>>
  <2>1. worker[w].file \in Conns
    BY <1>1, <1>5, Zenon DEF Receive, WorkerFits, WorkerState, ConnectionOrNone
  <2>2. read[worker[w].file] + 1 \in 1 .. MaxRequests
    BY <1>2, <1>5, <2>1, ServerAssumption DEF Receive
  <2>3. req \in Requests
    BY <2>1, <2>2, Zenon DEF Requests
  <2>4. worker' = [worker EXCEPT ![w].pc = "handle", ![w].req = req,
                                 ![w].fd = None, ![w].file = None]
    BY <1>5, Zenon DEF Receive
  <2>5. "handle" \in WorkerPcs /\ None \in ConnectionOrNone
    BY Zenon DEF WorkerPcs, ConnectionOrNone
  <2> HIDE DEF req
  <2>6. Becomes(w, "handle", worker[w].conn, None, None, req)
    BY <1>1, <2>3, <2>4, <2>5, Zenon DEF Becomes, WorkerState
  <2> QED
    BY <2>6, Zenon DEF req
<1>6. ASSUME WorkerTakes(w)
      PROVE  \/ stopping /\ Goes(w, "exited") /\ queue' = queue
             \/ ~stopping /\ queue = <<>> /\ Goes(w, "asleep") /\ queue' = queue
             \/ /\ ~stopping /\ queue # <<>> /\ queue' = Tail(queue)
                /\ Becomes(w, "loop", Head(queue), worker[w].fd, worker[w].file, worker[w].req)
  <2>0. "exited" \in WorkerPcs /\ "asleep" \in WorkerPcs /\ "loop" \in WorkerPcs
    BY Zenon DEF WorkerPcs
  <2>1. CASE stopping
    BY <1>6, <2>0, <2>1, StepGoes, Zenon DEF WorkerTakes, WorkerStep
  <2>2. CASE ~stopping /\ queue = <<>>
    BY <1>6, <2>0, <2>2, StepGoes, Zenon DEF WorkerTakes, WorkerStep
  <2>3. CASE ~stopping /\ queue # <<>>
    <3>1. Head(queue) \in ConnectionOrNone
      BY <1>2, <2>3 DEF ConnectionOrNone
    <3>2. /\ worker' = [worker EXCEPT ![w].pc = "loop", ![w].conn = Head(queue)]
          /\ queue' = Tail(queue)
      BY <1>6, <2>3, Zenon DEF WorkerTakes, Popped
    <3>3. Becomes(w, "loop", Head(queue), worker[w].fd, worker[w].file, worker[w].req)
      BY <1>1, <2>0, <3>1, <3>2, Zenon DEF Becomes, WorkerState
    <3> QED
      BY <2>3, <3>2, <3>3, Zenon
  <2> QED
    BY <2>1, <2>2, <2>3, Zenon
<1> QED
  BY <1>3, <1>4, <1>5, <1>6, Zenon

(* A worker that erases its connection, or that an exception ends, lets go  *)
(* of everything.                                                           *)
LEMMA EraseBecomes ==
    ASSUME Types, NEW w \in Workers
    PROVE  /\ Erase(w) => Becomes(w, "idle", None, None, None, None)
           /\ worker[w].pc = "mark" /\ WorkerMark(w) =>
                 Becomes(w, "marked", None, None, None, None) /\ stopping' = TRUE
<1>1. worker \in [Workers -> WorkerState]
  BY Zenon DEF Types
<1>2. /\ Idle \in WorkerState /\ Idle.pc = "idle" /\ Idle.conn = None
      /\ Idle.fd = None /\ Idle.file = None /\ Idle.req = None
  BY Zenon DEF Idle, WorkerState, WorkerPcs, ConnectionOrNone
<1>3. "marked" \in WorkerPcs
  BY Zenon DEF WorkerPcs
<1>4. ASSUME Erase(w) PROVE Becomes(w, "idle", None, None, None, None)
  BY <1>1, <1>2, <1>4, Zenon DEF Erase, Becomes, WorkerState
<1>5. ASSUME worker[w].pc = "mark", WorkerMark(w)
      PROVE  Becomes(w, "marked", None, None, None, None) /\ stopping' = TRUE
  BY <1>1, <1>2, <1>3, <1>5 DEF WorkerMark, MarkStopping, Becomes, WorkerState
<1> QED
  BY <1>4, <1>5, Zenon

(* A worker that leaves wakes the ones that sleep.                          *)
LEMMA ExitTypes ==
    ASSUME Types, NEW w \in Workers, worker[w].pc = "marked",
           worker' = [WakeAll EXCEPT ![w].pc = "exited"]
    PROVE  /\ worker' \in [Workers -> WorkerState]
           /\ worker'[w].pc = "exited" /\ worker'[w].conn = worker[w].conn
           /\ worker'[w].file = worker[w].file
           /\ \A v \in Workers \ {w} :
                 worker'[v] = IF worker[v].pc = "asleep" THEN Idle ELSE worker[v]
<1>1. worker \in [Workers -> WorkerState]
  BY Zenon DEF Types
<1>2. Idle \in WorkerState
  BY Zenon DEF Idle, WorkerState, WorkerPcs, ConnectionOrNone
<1>3. /\ WakeAll \in [Workers -> WorkerState]
      /\ WakeAll[w] = worker[w]
      /\ \A v \in Workers \ {w} :
            WakeAll[v] = IF worker[v].pc = "asleep" THEN Idle ELSE worker[v]
  BY <1>1, <1>2, Zenon DEF WakeAll
<1>4. "exited" \in WorkerPcs
  BY Zenon DEF WorkerPcs
<1> HIDE DEF WakeAll
<1> QED
  BY <1>1, <1>3, <1>4, SMTT(20) DEF WorkerState

(* The steps of a worker keep the types.                                    *)
LEMMA ServeTypes ==
    ASSUME Types, NEW w \in Workers,
           WorkerThread(w) \/ SpuriousWakeup(w) \/ Receive(w) \/ Send(w) \/ CallEnds(w)
    PROVE  Types'
<1>0. /\ worker[w] \in WorkerState /\ \A v \in Workers : WorkerFits(worker[v])
      /\ worker[w].conn = None <=> worker[w].pc \in Free
      /\ worker[w].pc \in Calling => worker[w].fd # None
      /\ worker[w].file # None <=> worker[w].pc \in {"recv", "send"}
      /\ worker[w].pc \in Answering => worker[w].req \in Requests
  BY Zenon DEF Types, WorkerFits
<1> DEFINE Fine == /\ worker' \in [Workers -> WorkerState]
                   /\ \A v \in Workers : WorkerFits(worker'[v])
<1>1. ASSUME NEW pc, NEW conn, NEW fd, NEW file, NEW req, Becomes(w, pc, conn, fd, file, req),
             conn = None <=> pc \in Free,
             pc \in Calling => fd # None,
             file # None <=> pc \in {"recv", "send"},
             pc \in Answering => req \in Requests
      PROVE  Fine
  BY <1>0, <1>1, Zenon DEF Becomes, WorkerFits
<1>2. ASSUME NEW to \in WorkerPcs, Goes(w, to),
             to \in Free <=> worker[w].pc \in Free,
             to \in Calling => worker[w].pc \in Calling,
             to \in {"recv", "send"} <=> worker[w].pc \in {"recv", "send"},
             to \in Answering => worker[w].pc \in Answering
      PROVE  Fine
  BY <1>0, <1>1, <1>2 DEF Goes
<1>3. ASSUME NEW to \in {"finish", "mark", "loop", "erase"}, Drops(w, to), worker[w].pc \notin Free
      PROVE  Fine
  BY <1>0, <1>1, <1>3, Zenon DEF Drops, Free, Calling, Answering
<1> HIDE DEF Fine
<1>4. ASSUME Fine, UNCHANGED <<arrivals, accepter, stopper>>,
             /\ read' \in [Conns -> 0 .. MaxRequests]
             /\ responses' \in [Conns -> Seq(Requests)]
             /\ fds' \in [Handles -> ConnectionOrNone]
             /\ shut' \subseteq Conns
             /\ handle_' \in [Conns -> Handles \cup {None}]
             /\ closing_' \subseteq Conns
             /\ queue' \in Seq(Conns) /\ live' \subseteq Conns
             /\ stopping' \in BOOLEAN /\ stopped' \in BOOLEAN /\ wake' \in BOOLEAN
      PROVE  Types'
  BY <1>4, Zenon DEF Fine, Types, AccepterFits
<1>5. ASSUME Fine, UNCHANGED <<arrivals, read, responses, fds, shut, handle_, closing_, queue, live,
                               stopping, stopped, wake, accepter, stopper>>
      PROVE  Types'
  BY <1>4, <1>5, Zenon DEF Types
<1> USE DEF Free, Calling, Answering
<1>6. CASE WorkerTakes(w)
  <2>1. worker[w].pc = "idle" /\ UNCHANGED <<arrivals, read, responses, fds, shut, handle_, closing_,
                                             live, stopping, stopped, wake, accepter, stopper>>
    BY <1>6, Zenon DEF WorkerTakes, traffic, sockets, flags
  <2>2. CASE queue' = queue /\ (Goes(w, "exited") \/ Goes(w, "asleep"))
    <3>1. Fine
      BY <1>2, <2>1, <2>2, Zenon DEF WorkerPcs
    <3> QED
      BY <1>5, <2>1, <2>2, <3>1, Zenon
  <2>3. CASE /\ queue # <<>> /\ queue' = Tail(queue)
             /\ Becomes(w, "loop", Head(queue), worker[w].fd, worker[w].file, worker[w].req)
    <3>1. Head(queue) \in Conns /\ queue' \in Seq(Conns)
      BY <2>3 DEF Types
    <3>2. Head(queue) # None
      BY <3>1, ServerAssumption, Zenon
    <3>3. WorkerFits(worker'[w])
      BY <1>0, <2>1, <2>3, <3>2, Zenon DEF Becomes, WorkerFits
    <3>4. Fine
      BY <1>0, <2>3, <3>3, Zenon DEF Becomes, Fine
    <3> QED
      BY <1>4, <2>1, <3>1, <3>4, Zenon DEF Types
  <2> QED
    BY <1>6, <2>2, <2>3, ServeBecomes, Zenon
<1>7. CASE SpuriousWakeup(w)
  <2>1. Goes(w, "idle") /\ worker[w].pc = "asleep"
    BY <1>7, StepGoes, Zenon DEF SpuriousWakeup, WorkerStep, WorkerPcs
  <2>2. Fine
    BY <1>2, <2>1, Zenon DEF WorkerPcs
  <2> QED
    BY <1>5, <1>7, <2>2, Zenon DEF SpuriousWakeup, traffic, sockets, flags
<1>8. CASE ServeLoop(w)
  <2>1. /\ worker[w].pc = "loop"
        /\ Goes(w, "finish") \/ Goes(w, "recv_begin") \/ Drops(w, "mark")
    BY <1>8, StepGoes, EndedDrops, Zenon DEF ServeLoop, WorkerStep, WorkerPcs
  <2>2. Fine
    BY <1>2, <1>3, <2>1, Zenon DEF WorkerPcs
  <2> QED
    BY <1>5, <1>8, <2>2, Zenon DEF ServeLoop, traffic, sockets, flags
<1>9. CASE Begin(w)
  <2>1. \/ worker[w].pc = "recv_begin" /\ (Goes(w, "finish") \/ Goes(w, "recv_arg"))
        \/ worker[w].pc = "send_begin" /\ (Goes(w, "finish") \/ Goes(w, "send_arg"))
    BY <1>9, StepGoes, Zenon DEF Begin, WorkerStep, WorkerPcs
  <2>2. Fine
    BY <1>2, <2>1, Zenon DEF WorkerPcs
  <2> QED
    BY <1>5, <1>9, <2>2, Zenon DEF Begin, traffic, sockets, flags
<1>10. CASE ReadHandle(w)
  <2>1. worker[w].pc \in {"recv_arg", "send_arg"}
    BY <1>10, Zenon DEF ReadHandle
  <2>0. Becomes(w, IF handle_[worker[w].conn] = None THEN "finish"
                   ELSE IF worker[w].pc = "recv_arg" THEN "recv_call" ELSE "send_call",
                worker[w].conn, handle_[worker[w].conn], worker[w].file, worker[w].req)
    BY <1>10, ServeBecomes, Zenon
  <2>2. WorkerFits(worker'[w])
    BY <1>0, <2>0, <2>1, Zenon DEF Becomes, WorkerFits
  <2>3. Fine
    BY <1>0, <2>0, <2>2, Zenon DEF Becomes, Fine
  <2> QED
    BY <1>5, <1>10, <2>3, Zenon DEF ReadHandle, traffic, sockets, flags
<1>11. CASE EnterCall(w)
  <2>1. worker[w].pc \in {"recv_call", "send_call"}
    BY <1>11, Zenon DEF EnterCall
  <2>0. Becomes(w, IF fds[worker[w].fd] = None THEN "finish"
                   ELSE IF worker[w].pc = "recv_call" THEN "recv" ELSE "send",
                worker[w].conn, worker[w].fd, fds[worker[w].fd], worker[w].req)
    BY <1>11, ServeBecomes, Zenon
  <2>2. WorkerFits(worker'[w])
    BY <1>0, <2>0, <2>1, Zenon DEF Becomes, WorkerFits
  <2>3. Fine
    BY <1>0, <2>0, <2>2, Zenon DEF Becomes, Fine
  <2> QED
    BY <1>5, <1>11, <2>3, Zenon DEF EnterCall, traffic, sockets, flags
<1>12. CASE Receive(w)
  <2>1. Becomes(w, "handle", worker[w].conn, None, None,
                <<worker[w].file, read[worker[w].file] + 1>>)
    BY <1>12, ServeBecomes, Zenon
  <2>2. worker[w].pc = "recv" /\ worker[w].file \in Conns
    BY <1>0, <1>12, Zenon DEF Receive, WorkerState, ConnectionOrNone
  <2>3. read[worker[w].file] + 1 \in 1 .. MaxRequests
    BY <1>12, <2>2, ServerAssumption DEF Receive, Types
  <2>4. WorkerFits(worker'[w])
    BY <1>0, <2>1, <2>2, <2>3, SMTT(20) DEF Becomes, WorkerFits, Requests
  <2>5. Fine
    BY <1>0, <2>1, <2>4, Zenon DEF Becomes, Fine
  <2>6. read' \in [Conns -> 0 .. MaxRequests]
    BY <1>12, <2>2, <2>3 DEF Receive, Types
  <2> QED
    BY <1>4, <1>12, <2>5, <2>6, Zenon DEF Receive, sockets, flags, Types
<1>13. CASE HandleRequest(w)
  <2>1. /\ worker[w].pc = "handle"
        /\ Goes(w, "send_begin") \/ Drops(w, "finish") \/ Drops(w, "mark")
    BY <1>13, StepGoes, EndedDrops, Zenon DEF HandleRequest, WorkerStep, WorkerPcs
  <2>2. Fine
    BY <1>2, <1>3, <2>1, Zenon DEF WorkerPcs
  <2> QED
    BY <1>5, <1>13, <2>2, Zenon DEF HandleRequest, traffic, sockets, flags
<1>14. CASE Send(w)
  <2>1. worker[w].pc = "send" /\ Drops(w, "loop")
    BY <1>14, EndedDrops, Zenon DEF Send, WorkerPcs
  <2>2. Fine
    BY <1>3, <2>1, Zenon
  <2>3. worker[w].file \in Conns /\ worker[w].req \in Requests
    BY <1>0, <2>1, Zenon DEF WorkerState, ConnectionOrNone
  <2>4. responses' \in [Conns -> Seq(Requests)]
    BY <1>14, <2>3 DEF Send, Types
  <2> QED
    BY <1>4, <1>14, <2>2, <2>4, Zenon DEF Send, sockets, flags, Types
<1>15. CASE CallEnds(w) \/ Released(w)
  <2>1. worker[w].pc \in {"recv", "send"} /\ Drops(w, "finish")
    BY <1>15, EndedDrops, Zenon DEF CallEnds, Released, WorkerPcs
  <2>2. Fine
    BY <1>3, <2>1, Zenon
  <2> QED
    BY <1>5, <1>15, <2>2, Zenon DEF CallEnds, Released, traffic, sockets, flags
<1>16. CASE Finish(w)
  <2>1. worker[w].pc = "finish" /\ Drops(w, "erase")
    BY <1>16, EndedDrops, Zenon DEF Finish, WorkerPcs
  <2>2. Fine
    BY <1>3, <2>1, Zenon
  <2>3. worker[w].conn \in Conns
    BY <1>0, <2>1, Zenon DEF WorkerState, ConnectionOrNone
  <2>4. /\ fds' \in [Handles -> ConnectionOrNone]
        /\ shut' \subseteq Conns
        /\ handle_' \in [Conns -> Handles \cup {None}]
        /\ closing_' \subseteq Conns
    BY <1>16, <2>3, RequestCloseTypes, Zenon DEF Finish
  <2> QED
    BY <1>4, <1>16, <2>2, <2>4, Zenon DEF Finish, traffic, flags, Types
<1>17. CASE Erase(w)
  <2>1. Becomes(w, "idle", None, None, None, None)
    BY <1>17, EraseBecomes, Zenon
  <2>2. WorkerFits(worker'[w])
    BY <2>1, Zenon DEF Becomes, WorkerFits
  <2>3. Fine
    BY <1>0, <2>1, <2>2, Zenon DEF Becomes, Fine
  <2> QED
    BY <1>4, <1>17, <2>3, Zenon DEF Erase, traffic, sockets, flags, Types
<1>18. CASE WorkerMark(w)
  <2>1. CASE worker[w].pc = "mark"
    <3>1. Becomes(w, "marked", None, None, None, None) /\ stopping' = TRUE
      BY <1>18, <2>1, EraseBecomes, Zenon
    <3>2. WorkerFits(worker'[w])
      BY <3>1, Zenon DEF Becomes, WorkerFits
    <3>3. Fine
      BY <1>0, <3>1, <3>2, Zenon DEF Becomes, Fine
    <3> QED
      BY <1>4, <1>18, <3>1, <3>3, Zenon DEF WorkerMark, traffic, sockets, Types
  <2>2. CASE worker[w].pc = "marked"
    <3>1. worker' = [WakeAll EXCEPT ![w].pc = "exited"] /\ stopping' = stopping
      BY <1>18, <2>2, Zenon DEF WorkerMark
    <3>2. /\ worker' \in [Workers -> WorkerState]
          /\ worker'[w].pc = "exited" /\ worker'[w].conn = worker[w].conn
          /\ worker'[w].file = worker[w].file
          /\ \A v \in Workers \ {w} :
                worker'[v] = IF worker[v].pc = "asleep" THEN Idle ELSE worker[v]
      BY <2>2, <3>1, ExitTypes, Zenon
    <3>3. WorkerFits(worker'[w]) /\ WorkerFits(Idle)
      BY <1>0, <2>2, <3>2, Zenon DEF WorkerFits, Idle
    <3>4. Fine
      BY <1>0, <3>2, <3>3, Zenon DEF Fine
    <3> QED
      BY <1>4, <1>18, <3>1, <3>4, Zenon DEF WorkerMark, traffic, sockets, Types
  <2> QED
    BY <1>18, <2>1, <2>2, Zenon DEF WorkerMark
<1> QED
  BY <1>6, <1>7, <1>8, <1>9, <1>10, <1>11, <1>12, <1>13, <1>14, <1>15, <1>16, <1>17, <1>18, Zenon
  DEF WorkerThread

(* The steps of stop keep the types.                                        *)
LEMMA StopTypes ==
    ASSUME Types, NEW t \in Threads, StopBegins(t) \/ Stopping(t) \/ StopJoins
    PROVE  Types'
<1>0. /\ stopper \in [Threads -> StopperState] /\ "main" \in Threads
      /\ stopper[t].snapshot \in SUBSET Conns
  BY Zenon DEF Types, StopperState, Threads
<1>1. ASSUME NEW u \in Threads, NEW from, NEW to \in StopperPcs, StopStep(u, from, to)
      PROVE  stopper' \in [Threads -> StopperState]
  BY <1>0, <1>1, Zenon DEF StopStep, StopperState
<1>2. CASE StopBegins(t)
  <2>1. stopper' \in [Threads -> StopperState]
    BY <1>1, <1>2, Zenon DEF StopBegins, StopperPcs
  <2> QED
    BY <1>2, <2>1, Zenon DEF StopBegins, MarkStopping, Types, AccepterFits, traffic, sockets
<1>3. CASE StopNotifies(t)
  <2>1. stopper' \in [Threads -> StopperState]
    BY <1>1, <1>3, Zenon DEF StopNotifies, StopperPcs
  <2> QED
    BY <1>3, <2>1, WakeTypes, Zenon DEF StopNotifies, Types, AccepterFits, traffic, sockets, flags
<1>4. CASE StopWakes(t)
  <2>1. stopper' \in [Threads -> StopperState]
    BY <1>1, <1>4, Zenon DEF StopWakes, StopperPcs
  <2> QED
    BY <1>4, <2>1, Zenon DEF StopWakes, Types, AccepterFits, traffic, sockets
<1>5. CASE StopSnapshots(t)
  <2>1. stopper' \in [Threads -> StopperState]
    BY <1>0, <1>5, Zenon DEF StopSnapshots, Snapshot, StopperState, StopperPcs, Types
  <2> QED
    BY <1>5, <2>1, Zenon DEF StopSnapshots, Types, AccepterFits, traffic, sockets, flags
<1>6. CASE StopCloses(t)
  <2>1. CASE \E c \in stopper[t].snapshot :
                /\ request_close(c)
                /\ stopper' = [stopper EXCEPT ![t].snapshot = @ \ {c}]
    <3>1. PICK c \in Conns :
             /\ request_close(c)
             /\ stopper' = [stopper EXCEPT ![t].snapshot = stopper[t].snapshot \ {c}]
      BY <1>0, <2>1, Zenon
    <3>2. stopper' \in [Threads -> StopperState]
      BY <1>0, <3>1, Zenon DEF StopperState
    <3>3. /\ fds' \in [Handles -> ConnectionOrNone]
          /\ shut' \subseteq Conns
          /\ handle_' \in [Conns -> Handles \cup {None}]
          /\ closing_' \subseteq Conns
      BY <3>1, RequestCloseTypes, Zenon
    <3> QED
      BY <1>6, <3>2, <3>3, Zenon DEF StopCloses, Types, AccepterFits, traffic, flags
  <2>2. CASE /\ StopStep(t, "close", IF t \in Workers THEN "done" ELSE "join")
             /\ UNCHANGED sockets
    <3>1. stopper' \in [Threads -> StopperState]
      BY <1>1, <2>2, Zenon DEF StopperPcs
    <3> QED
      BY <1>6, <2>2, <3>1, Zenon DEF StopCloses, Types, AccepterFits, traffic, sockets, flags
  <2> QED
    BY <1>6, <2>1, <2>2, Zenon DEF StopCloses
<1>7. CASE StopJoins
  <2>1. stopper' \in [Threads -> StopperState]
    BY <1>0, <1>1, <1>7, Zenon DEF StopJoins, StopperPcs
  <2>2. /\ fds' \in [Handles -> ConnectionOrNone]
        /\ shut' \subseteq Conns
        /\ handle_' \in [Conns -> Handles \cup {None}]
    BY <1>7, CloseTypes, Zenon DEF StopJoins, Types
  <2> QED
    BY <1>7, <2>1, <2>2 DEF StopJoins, Types, AccepterFits, traffic
<1> QED
  BY <1>2, <1>3, <1>4, <1>5, <1>6, <1>7, Zenon DEF Stopping

(* Every step is one of the accept thread, of a worker, or of a stop.       *)
LEMMA Steps ==
    ASSUME Next
    PROVE  \/ AcceptThread \/ AcceptPolled
           \/ \E w \in Workers :
                 WorkerThread(w) \/ SpuriousWakeup(w) \/ Receive(w) \/ Send(w) \/ CallEnds(w)
           \/ \E t \in Threads : StopBegins(t) \/ Stopping(t) \/ StopJoins
<1>1. "main" \in Threads
  BY Zenon DEF Threads
<1> QED
  BY <1>1, Zenon DEF Next

(* The types hold in every reachable state, and the locals of every thread  *)
(* fit its program counter.                                                 *)
LEMMA TypesInvariant == Spec => []Types
<1>1. Init => Types
  <2>1. SUFFICES ASSUME Init PROVE Types
    BY Zenon
  <2>2. Idle \in WorkerState /\ WorkerFits(Idle)
    BY Zenon DEF Idle, WorkerState, WorkerPcs, ConnectionOrNone, WorkerFits, Free, Calling,
                 Answering
  <2>3. accepter \in AccepterState /\ AccepterFits
    BY <2>1, ServerAssumption DEF Init, AccepterState, AccepterPcs, ConnectionOrNone, AccepterFits
  <2>4. stopper \in [Threads -> StopperState]
    BY <2>1, Zenon DEF Init, StopperState, StopperPcs
  <2>5. /\ worker \in [Workers -> WorkerState]
        /\ \A w \in Workers : WorkerFits(worker[w])
    BY <2>1, <2>2, Zenon DEF Init
  <2>6. /\ arrivals \subseteq Conns /\ shut \subseteq Conns /\ closing_ \subseteq Conns
        /\ read \in [Conns -> 0 .. MaxRequests] /\ responses \in [Conns -> Seq(Requests)]
    BY <2>1, ServerAssumption, SMTT(20) DEF Init
  <2>7. /\ fds \in [Handles -> ConnectionOrNone] /\ handle_ \in [Conns -> Handles \cup {None}]
        /\ queue \in Seq(Conns) /\ live \subseteq Conns
    BY <2>1 DEF Init, ConnectionOrNone
  <2>8. stopping \in BOOLEAN /\ stopped \in BOOLEAN /\ wake \in BOOLEAN
    BY <2>1, Zenon DEF Init
  <2> QED
    BY <2>3, <2>4, <2>5, <2>6, <2>7, <2>8, Zenon DEF Types
<1>2. ASSUME Types, [Next]_vars PROVE Types'
  <2>1. CASE Next
    BY <1>2, <2>1, Steps, AcceptTypes, ServeTypes, StopTypes, Zenon
  <2>2. CASE UNCHANGED vars
    BY <1>2, <2>2, Zenon DEF vars, Types, AccepterFits, traffic, sockets, flags
  <2> QED
    BY <1>2, <2>1, <2>2, Zenon
<1> QED
  BY <1>1, <1>2, PTL DEF Spec
-----------------------------------------------------------------------------
(* Who owns a connection. *)

(* Waking workers changes no worker's connection.                           *)
LEMMA WakeKeepsConns ==
    ASSUME Types, worker' = WakeAll \/ notify_one
    PROVE  \A w \in Workers : worker'[w] = worker[w] \/ (worker[w].pc = "asleep" /\ worker'[w] = Idle)
  BY Zenon DEF Types, WakeAll, notify_one

(* A step that adds nothing to live, to the queue, or to anyone's hands.    *)
Quiet ==
    /\ live' = live /\ queue' = queue
    /\ arrivals' \subseteq arrivals
    /\ accepter'.conn \in {accepter.conn, None}
    /\ \A w \in Workers : worker'[w].conn \in {worker[w].conn, None}

(* Such a step leaves every connection with its owner, or drops it.         *)
LEMMA QuietOwners ==
    ASSUME Types, Types', Owners, Quiet
    PROVE  Owners'
<1>1. None \notin live' /\ None \notin arrivals'
  BY ServerAssumption, Zenon DEF Types
<1> QED
  BY <1>1, Zenon DEF Owners, Quiet

(* The accept thread takes a connection no one has, and hands it to live    *)
(* and the queue at once.                                                   *)
LEMMA AcceptOwners ==
    ASSUME Types, Types', Owners, AcceptThread \/ AcceptPolled
    PROVE  Owners'
<1>0. accepter \in AccepterState /\ accepter' \in AccepterState
  BY Zenon DEF Types
<1>1. ASSUME AcceptCheck \/ AcceptWoken \/ AcceptPolled \/ AcceptWaited \/ AcceptFailed
      PROVE  Quiet
  BY <1>0, <1>1, Zenon DEF AcceptCheck, AcceptWoken, AcceptPolled, AcceptWaited, AcceptFailed,
                           AcceptStep, AccepterState, Quiet
<1>2. ASSUME AcceptNotify \/ AcceptMark
      PROVE  Quiet
  <2>1. \A w \in Workers : worker'[w].conn \in {worker[w].conn, None}
    BY <1>2, WakeKeepsConns DEF AcceptNotify, AcceptMark, Idle
  <2> QED
    BY <1>0, <1>2, <2>1, Zenon DEF AcceptNotify, AcceptMark, AcceptStep, AccepterState, Quiet
<1>3. ASSUME AcceptReturned
      PROVE  Quiet
  BY <1>0, <1>3, Zenon DEF AcceptReturned, AccepterState, Quiet
<1>4. CASE accept_tcp
  <2>1. CASE \E c \in arrivals, h \in Handles :
                /\ fds[h] = None
                /\ arrivals' = arrivals \ {c}
                /\ fds' = [fds EXCEPT ![h] = c]
                /\ handle_' = [handle_ EXCEPT ![c] = h]
                /\ accepter' = [accepter EXCEPT !.pc = "accepted", !.conn = c]
    <3>1. PICK c \in arrivals :
             /\ arrivals' = arrivals \ {c}
             /\ accepter'.conn = c
      BY <1>0, <2>1, Zenon DEF AccepterState
    <3>2. live' = live /\ queue' = queue /\ worker' = worker
      BY <1>4, Zenon DEF accept_tcp
    <3> QED
      BY <3>1, <3>2, Zenon DEF Owners
  <2>2. CASE /\ arrivals' \subseteq arrivals
             /\ AcceptStep("accept", "closed") \/ AcceptStep("accept", "failed")
    <3>1. Quiet
      BY <1>0, <1>4, <2>2, Zenon DEF accept_tcp, AcceptStep, AccepterState, Quiet
    <3> QED
      BY <3>1, QuietOwners, Zenon
  <2> QED
    BY <1>4, <2>1, <2>2, Zenon DEF accept_tcp
<1>5. ASSUME NEW c, c = accepter.conn, c # None, accepter'.conn = None, live' = live \cup {c},
             queue' = queue \/ queue' = Append(queue, c),
             UNCHANGED <<arrivals, worker>>
      PROVE  Owners'
  <2>1. c \in Conns /\ c \notin live /\ c \notin arrivals /\ queue \in Seq(Conns)
    BY <1>0, <1>5, Zenon DEF Owners, AccepterState, ConnectionOrNone, Types
  <2>2. /\ Len(queue) \in Nat
        /\ \A i \in 1 .. Len(queue) : queue'[i] = queue[i] /\ queue[i] \in live /\ queue[i] # c
        /\ Len(queue') = Len(queue) \/ (Len(queue') = Len(queue) + 1 /\ queue'[Len(queue) + 1] = c)
    <3>1. \A i \in 1 .. Len(queue) : queue[i] \in live /\ queue[i] # c
      BY <2>1, Zenon DEF Owners
    <3> QED
      BY <1>5, <2>1, <3>1
  <2>3. \A i \in 1 .. Len(queue') : i \in 1 .. Len(queue) \/ (i = Len(queue) + 1 /\ queue'[i] = c)
    BY <2>2
  <2>4. \A i, j \in 1 .. Len(queue') : queue'[i] = queue'[j] => i = j
    <3>1. \A i, j \in 1 .. Len(queue) : queue[i] = queue[j] => i = j
      BY Zenon DEF Owners
    <3> QED
      BY <2>2, <2>3, <3>1, Zenon
  <2>5. \A i \in 1 .. Len(queue') : queue'[i] \in live'
    BY <1>5, <2>2, <2>3, Zenon
  <2>6. None \notin live' /\ None \notin arrivals'
    BY ServerAssumption, Zenon DEF Types
  <2>7. ASSUME NEW w \in Workers, worker'[w].conn # None
        PROVE  /\ worker'[w].conn \in live'
               /\ \A i \in 1 .. Len(queue') : queue'[i] # worker'[w].conn
               /\ \A v \in Workers : worker'[v].conn = worker'[w].conn => v = w
    <3>1. /\ worker[w].conn \in live
          /\ \A i \in 1 .. Len(queue) : queue[i] # worker[w].conn
          /\ \A v \in Workers : worker[v].conn = worker[w].conn => v = w
      BY <1>5, <2>7, Zenon DEF Owners
    <3> QED
      BY <1>5, <2>1, <2>2, <2>3, <3>1, Zenon
  <2> QED
    BY <1>5, <2>1, <2>4, <2>5, <2>6, <2>7, SMTT(20) DEF Owners
<1>6. CASE accept_connection
  <2>1. CASE Admit(accepter.conn)
    BY <1>0, <1>5, <1>6, <2>1, Zenon DEF accept_connection, Admit, AccepterState, Types,
                                         AccepterFits
  <2>2. CASE Refuse(accepter.conn)
    <3>1. Quiet
      BY <1>0, <1>6, <2>2, Zenon DEF accept_connection, Refuse, AccepterState, Quiet
    <3> QED
      BY <3>1, QuietOwners, Zenon
  <2> QED
    BY <1>6, <2>1, <2>2, Zenon DEF accept_connection
<1>7. CASE AcceptThrows
  <2>1. CASE live' = live
    <3>1. Quiet
      BY <1>0, <1>7, <2>1, Zenon DEF AcceptThrows, AccepterState, Quiet
    <3> QED
      BY <3>1, QuietOwners, Zenon
  <2>2. CASE live' = live \cup {accepter.conn}
    BY <1>0, <1>5, <1>7, <2>2, Zenon DEF AcceptThrows, AccepterState, Types, AccepterFits
  <2> QED
    BY <1>7, <2>1, <2>2, Zenon DEF AcceptThrows
<1> QED
  BY <1>1, <1>2, <1>3, <1>4, <1>6, <1>7, QuietOwners, Zenon DEF AcceptThread

(* A worker's step with the connection it has, or that of none.             *)
LEMMA BecomesQuiet ==
    ASSUME NEW w \in Workers, NEW pc, NEW conn, NEW fd, NEW file, NEW req,
           Becomes(w, pc, conn, fd, file, req), conn \in {worker[w].conn, None},
           UNCHANGED <<arrivals, queue, live, accepter>>
    PROVE  Quiet
  BY Zenon DEF Becomes, Quiet

(* The steps of serve that neither take a connection nor erase it are       *)
(* quiet.                                                                   *)
LEMMA LocalQuiet ==
    ASSUME Types, NEW w \in Workers,
           \/ SpuriousWakeup(w) \/ ServeLoop(w) \/ Begin(w) \/ ReadHandle(w) \/ EnterCall(w)
           \/ Receive(w) \/ HandleRequest(w) \/ Send(w) \/ CallEnds(w) \/ Released(w)
           \/ Finish(w) \/ WorkerMark(w)
    PROVE  Quiet
<1>0. UNCHANGED <<arrivals, queue, live, accepter>>
  BY Zenon DEF SpuriousWakeup, ServeLoop, Begin, ReadHandle, EnterCall, Receive, HandleRequest,
               Send, CallEnds, Released, Finish, WorkerMark
<1>1. ASSUME NEW to, Goes(w, to) PROVE Quiet
  BY <1>0, <1>1, BecomesQuiet, Zenon DEF Goes
<1>2. ASSUME NEW to, Drops(w, to) PROVE Quiet
  BY <1>0, <1>2, BecomesQuiet, Zenon DEF Drops
<1>3. CASE SpuriousWakeup(w) \/ ServeLoop(w) \/ Begin(w) \/ HandleRequest(w)
  BY <1>1, <1>2, <1>3, StepGoes, EndedDrops, Zenon
  DEF SpuriousWakeup, ServeLoop, Begin, HandleRequest, WorkerStep, WorkerPcs
<1>4. CASE Send(w) \/ CallEnds(w) \/ Released(w) \/ Finish(w)
  BY <1>2, <1>4, EndedDrops, Zenon DEF Send, CallEnds, Released, Finish, WorkerPcs
<1>5. CASE ReadHandle(w) \/ EnterCall(w) \/ Receive(w)
  BY <1>0, <1>5, ServeBecomes, Zenon DEF Becomes, Quiet
<1>6. CASE WorkerMark(w)
  <2>1. CASE worker[w].pc = "mark"
    BY <1>0, <1>6, <2>1, EraseBecomes, Zenon DEF Becomes, Quiet
  <2>2. CASE worker[w].pc = "marked"
    BY <1>0, <1>6, <2>2, ExitTypes DEF WorkerMark, Idle, Quiet
  <2> QED
    BY <1>6, <2>1, <2>2, Zenon DEF WorkerMark
<1> QED
  BY <1>3, <1>4, <1>5, <1>6, Zenon

(* A worker takes the head of the queue, which no other worker can have.    *)
LEMMA ServeOwners ==
    ASSUME Types, Types', Owners, NEW w \in Workers,
           WorkerThread(w) \/ SpuriousWakeup(w) \/ Receive(w) \/ Send(w) \/ CallEnds(w)
    PROVE  Owners'
<1>0. /\ queue \in Seq(Conns) /\ live \subseteq Conns
      /\ None \notin live /\ None \notin arrivals
  BY ServerAssumption, Zenon DEF Types
<1>1. CASE WorkerTakes(w)
  <2>0. UNCHANGED <<arrivals, live, accepter>> /\ worker[w].pc = "idle"
    BY <1>1, Zenon DEF WorkerTakes
  <2>1. CASE queue' = queue /\ (Goes(w, "exited") \/ Goes(w, "asleep"))
    <3>1. Quiet
      BY <2>0, <2>1, BecomesQuiet, Zenon DEF Goes
    <3> QED
      BY <3>1, QuietOwners, Zenon
  <2>2. CASE /\ queue # <<>> /\ queue' = Tail(queue)
             /\ Becomes(w, "loop", Head(queue), worker[w].fd, worker[w].file, worker[w].req)
    <3>1. /\ Len(queue) \in Nat /\ Len(queue) > 0 /\ Len(queue') = Len(queue) - 1
          /\ Head(queue) = queue[1]
          /\ \A i \in 1 .. Len(queue') : queue'[i] = queue[i + 1] /\ i + 1 \in 1 .. Len(queue)
      BY <1>0, <2>2
    <3>2. 1 \in 1 .. Len(queue) /\ \A i \in 1 .. Len(queue') : i + 1 # 1
      BY <3>1
    <3>3. \A i, j \in 1 .. Len(queue') : queue'[i] = queue'[j] => i = j
      <4>1. ASSUME NEW i \in 1 .. Len(queue'), NEW j \in 1 .. Len(queue'), queue'[i] = queue'[j]
            PROVE  i = j
        <5>1. i + 1 = j + 1
          BY <3>1, <4>1, SMTT(20) DEF Owners
        <5> QED
          BY <3>1, <5>1
      <4> QED
        BY <4>1, Zenon
    <3>4. ASSUME NEW i \in 1 .. Len(queue') PROVE queue'[i] \in live /\ queue'[i] # queue[1]
      <4>1. queue'[i] = queue[i + 1] /\ i + 1 \in 1 .. Len(queue) /\ i + 1 # 1
        BY <3>1, <3>2, Zenon
      <4> QED
        BY <3>2, <4>1, Zenon DEF Owners
    <3>5. /\ queue[1] \in live
          /\ \A v \in Workers : worker[v].conn # queue[1]
      <4>1. queue[1] \in live /\ queue[1] # None
        BY <1>0, <3>2, ServerAssumption, Zenon DEF Owners
      <4> QED
        BY <3>2, <4>1, Zenon DEF Owners
    <3>6. ASSUME NEW u \in Workers, worker'[u].conn # None
          PROVE  /\ worker'[u].conn \in live'
                 /\ \A i \in 1 .. Len(queue') : queue'[i] # worker'[u].conn
                 /\ \A v \in Workers : worker'[v].conn = worker'[u].conn => v = u
      <4>1. CASE u = w
        <5>1. worker'[u].conn = queue[1]
          BY <2>2, <3>1, <4>1, Zenon DEF Becomes
        <5>2. \A v \in Workers : v # u => worker'[v] = worker[v]
          BY <2>2, <4>1, Zenon DEF Becomes
        <5> QED
          BY <2>0, <3>4, <3>5, <5>1, <5>2, Zenon
      <4>2. CASE u # w
        <5>1. worker'[u] = worker[u]
          BY <2>2, <4>2, Zenon DEF Becomes
        <5>2. /\ worker[u].conn \in live
              /\ \A i \in 1 .. Len(queue) : queue[i] # worker[u].conn
              /\ \A v \in Workers : worker[v].conn = worker[u].conn => v = u
          BY <3>6, <5>1, Zenon DEF Owners
        <5>3. ASSUME NEW v \in Workers, worker'[v].conn = worker'[u].conn PROVE v = u
          BY <2>2, <3>1, <3>5, <5>1, <5>2, <5>3, Zenon DEF Becomes
        <5> QED
          BY <2>0, <3>1, <5>1, <5>2, <5>3, Zenon
      <4> QED
        BY <4>1, <4>2, Zenon
    <3> QED
      BY <2>0, <3>3, <3>4, <3>6, Zenon DEF Owners
  <2> QED
    BY <1>1, <2>1, <2>2, ServeBecomes, Zenon
<1>2. CASE Erase(w)
  <2>1. /\ Becomes(w, "idle", None, None, None, None)
        /\ live' = live \ {worker[w].conn} /\ UNCHANGED <<arrivals, queue, accepter>>
    BY <1>2, EraseBecomes, Zenon DEF Erase
  <2>2. worker[w].conn # None
    BY <1>2, Zenon DEF Erase, Types, WorkerFits, Free
  <2>3. \A i \in 1 .. Len(queue) : queue[i] \in live'
    BY <2>1, <2>2, Zenon DEF Owners
  <2>4. ASSUME NEW u \in Workers, worker'[u].conn # None
        PROVE  /\ worker'[u].conn \in live'
               /\ \A i \in 1 .. Len(queue') : queue'[i] # worker'[u].conn
               /\ \A v \in Workers : worker'[v].conn = worker'[u].conn => v = u
    <3>1. u # w /\ worker'[u] = worker[u]
      BY <2>1, <2>4, Zenon DEF Becomes
    <3>2. ASSUME NEW v \in Workers, worker'[v].conn = worker'[u].conn PROVE v = u
      <4>1. v # w
        BY <2>1, <2>4, <3>2, Zenon DEF Becomes
      <4>2. worker'[v] = worker[v]
        BY <2>1, <4>1, Zenon DEF Becomes
      <4>3. worker[u].conn # None /\ worker[v].conn = worker[u].conn
        BY <2>4, <3>1, <3>2, <4>2, Zenon
      <4> QED
        BY <4>3, Zenon DEF Owners
    <3> QED
      BY <2>1, <2>2, <2>4, <3>1, <3>2, Zenon DEF Owners
  <2> QED
    BY <2>1, <2>3, <2>4 DEF Owners
<1> QED
  BY <1>1, <1>2, LocalQuiet, QuietOwners, Zenon DEF WorkerThread

(* stop drops connections and hands none over.                              *)
LEMMA StopOwners ==
    ASSUME Types, Types', Owners, NEW t \in Threads, StopBegins(t) \/ Stopping(t) \/ StopJoins
    PROVE  Owners'
<1>1. CASE StopBegins(t) \/ StopWakes(t) \/ StopSnapshots(t) \/ StopCloses(t)
  <2>1. Quiet
    BY <1>1, Zenon DEF StopBegins, StopWakes, StopSnapshots, StopCloses, Quiet
  <2> QED
    BY <2>1, QuietOwners, Zenon
<1>2. CASE StopNotifies(t)
  <2>1. Quiet
    <3>1. UNCHANGED <<live, queue, arrivals, accepter>> /\ worker' = WakeAll
      BY <1>2, Zenon DEF StopNotifies
    <3>2. \A w \in Workers : worker'[w] = worker[w] \/ worker'[w] = Idle
      BY <3>1, WakeKeepsConns, Zenon
    <3>3. Idle.conn = None
      BY Zenon DEF Idle
    <3> QED
      BY <3>1, <3>2, <3>3, Zenon DEF Quiet
  <2> QED
    BY <2>1, QuietOwners, Zenon
<1>3. CASE StopJoins
  <2>1. /\ \A w \in Workers : worker'[w].conn = None
        /\ accepter' = accepter /\ arrivals' = arrivals /\ live' = {} /\ queue' = <<>>
    BY <1>3, Zenon DEF StopJoins, Types, WorkerFits, Free
  <2>2. 1 .. Len(queue') = {}
    BY <2>1
  <2> QED
    BY <2>1, <2>2, Zenon DEF Owners
<1> QED
  BY <1>1, <1>2, <1>3, Zenon DEF Stopping

(* Every connection has one owner in every reachable state.                 *)
LEMMA OwnersInvariant == Spec => []Owners
<1>1. Init => Owners
  <2>1. SUFFICES ASSUME Init PROVE Owners
    BY Zenon
  <2>2. 1 .. Len(queue) = {} /\ live = {} /\ accepter.conn = None
    BY <2>1 DEF Init
  <2>3. \A w \in Workers : worker[w].conn = None
    BY <2>1, Zenon DEF Init, Idle
  <2> QED
    BY <2>1, <2>2, <2>3, ServerAssumption, Zenon DEF Init, Owners
<1>2. ASSUME Types, Types', Owners, [Next]_vars PROVE Owners'
  <2>1. CASE Next
    BY <1>2, <2>1, Steps, AcceptOwners, ServeOwners, StopOwners, Zenon
  <2>2. CASE UNCHANGED vars
    BY <1>2, <2>2, Zenon DEF vars, Owners
  <2> QED
    BY <1>2, <2>1, <2>2, Zenon
<1> QED
  BY <1>1, <1>2, TypesInvariant, PTL DEF Spec

-----------------------------------------------------------------------------
(* Which handles are open. *)

(* Closing sockets, connection by connection and handle by handle.          *)
Closes(cs) ==
    /\ \A c \in Conns : handle_'[c] = IF c \in cs THEN None ELSE handle_[c]
    /\ \A h \in Handles : fds'[h] = IF fds[h] \in cs THEN None ELSE fds[h]

(* Closing a set of connections closes their handles and no other.          *)
LEMMA CloseAllCloses ==
    ASSUME Types, HandlesInv, NEW cs \in SUBSET Conns, CloseAll(cs)
    PROVE  Closes(cs)
<1>1. \A c \in Conns : handle_'[c] = IF c \in cs THEN None ELSE handle_[c]
  BY Zenon DEF CloseAll
<1>2. ASSUME NEW h \in Handles
      PROVE  fds'[h] = IF fds[h] \in cs THEN None ELSE fds[h]
  <2>1. (\E c \in cs : handle_[c] # None /\ handle_[c] = h) <=> fds[h] \in cs
    BY ServerAssumption, SMTT(20) DEF HandlesInv
  <2> QED
    BY <2>1, Zenon DEF CloseAll
<1> QED
  BY <1>1, <1>2, Zenon DEF Closes

(* request_close closes the one connection it names.                        *)
LEMMA RequestCloses ==
    ASSUME Types, HandlesInv, NEW c \in Conns, request_close(c)
    PROVE  Closes({c}) /\ closing_' = closing_ \cup {c}
<1>1. closing_' = closing_ \cup {c}
  BY Zenon DEF request_close
<1>2. CASE c \notin closing_
  <2>1. CloseAll({c})
    BY <1>2, Zenon DEF request_close
  <2> QED
    BY <1>1, <2>1, CloseAllCloses, Zenon
<1>3. CASE c \in closing_
  <2>1. CloseAll({})
    BY <1>3, Zenon DEF request_close
  <2>2. Closes({})
    BY <2>1, CloseAllCloses, Zenon
  <2>3. handle_[c] = None /\ \A h \in Handles : fds[h] # c
    BY <1>3, ServerAssumption DEF HandlesInv
  <2> QED
    BY <1>1, <2>2, <2>3, Zenon DEF Closes
<1> QED
  BY <1>2, <1>3, Zenon

(* A step that closes the sockets of cs and accepts nothing.                *)
LEMMA HandlesStep ==
    ASSUME Types, Types', Owners, HandlesInv, NEW cs \in SUBSET Conns, Closes(cs),
           cs \cap arrivals = {}, closing_' \subseteq closing_ \cup cs, arrivals' \subseteq arrivals,
           \A c \in live \ live' : handle_'[c] = None,
           accepter.conn \in live' \cup cs \cup {accepter'.conn, None},
           \A t \in Threads : stopper'[t].snapshot \subseteq stopper[t].snapshot \cup live,
           \A w \in Workers : worker'[w].pc = "erase" =>
               worker'[w] = worker[w] \/ worker'[w].conn \in cs
    PROVE  HandlesInv'
<1>0. /\ handle_ \in [Conns -> Handles \cup {None}]
      /\ fds \in [Handles -> ConnectionOrNone]
      /\ closing_ \subseteq Conns /\ closing_' \subseteq Conns /\ live \subseteq Conns
  BY Zenon DEF Types
<1>1. ASSUME NEW h \in Handles, NEW c \in Conns PROVE fds'[h] = c <=> handle_'[c] = h
  <2>1. /\ fds[h] = c <=> handle_[c] = h
        /\ handle_'[c] = IF c \in cs THEN None ELSE handle_[c]
        /\ fds'[h] = IF fds[h] \in cs THEN None ELSE fds[h]
    BY Zenon DEF HandlesInv, Closes
  <2>2. None # c /\ None # h
    BY ServerAssumption, Zenon
  <2> QED
    BY <2>1, <2>2
<1>2. ASSUME NEW c \in Conns, handle_'[c] # None PROVE c \in live' \/ c = accepter'.conn
  <2>1. c \notin cs /\ handle_[c] # None
    BY <1>2, Zenon DEF Closes
  <2>2. c \in live \/ c = accepter.conn
    BY <2>1, Zenon DEF HandlesInv
  <2> QED
    BY <1>2, <2>1, <2>2, ServerAssumption, Zenon
<1>3. ASSUME NEW c \in closing_' PROVE handle_'[c] = None
  BY <1>0, Zenon DEF HandlesInv, Closes
<1>4. closing_' \cap arrivals' = {}
  BY Zenon DEF HandlesInv
<1>5. ASSUME NEW t \in Threads PROVE stopper'[t].snapshot \cap arrivals' = {}
  <2>1. /\ stopper[t].snapshot \cap arrivals = {} /\ arrivals \cap live = {}
        /\ stopper'[t].snapshot \subseteq stopper[t].snapshot \cup live
    BY Zenon DEF HandlesInv, Owners
  <2> QED
    BY <2>1, Zenon
<1>6. ASSUME NEW w \in Workers, worker'[w].pc = "erase" PROVE handle_'[worker'[w].conn] = None
  <2>1. worker'[w].conn \in Conns
    BY <1>6, Zenon DEF Types, WorkerFits, Free, WorkerState, ConnectionOrNone
  <2>2. CASE worker'[w].conn \in cs
    BY <2>1, <2>2, Zenon DEF Closes
  <2>3. CASE worker'[w] = worker[w]
    <3>1. handle_[worker[w].conn] = None
      BY <1>6, <2>3, Zenon DEF HandlesInv
    <3> QED
      BY <2>1, <2>3, <3>1, Zenon DEF Closes
  <2> QED
    BY <1>6, <2>2, <2>3, Zenon
<1> QED
  BY <1>1, <1>2, <1>3, <1>4, <1>5, <1>6, Zenon DEF HandlesInv

(* The same for a step that closes nothing.                                 *)
LEMMA HandlesKept ==
    ASSUME Types, Types', Owners, HandlesInv, UNCHANGED <<fds, handle_, closing_>>,
           arrivals' \subseteq arrivals,
           \A c \in live \ live' : handle_[c] = None,
           accepter.conn \in live' \cup {accepter'.conn, None},
           \A t \in Threads : stopper'[t].snapshot \subseteq stopper[t].snapshot \cup live,
           \A w \in Workers : worker'[w].pc = "erase" => worker'[w] = worker[w]
    PROVE  HandlesInv'
<1>1. Closes({})
  BY Zenon DEF Closes
<1> QED
  BY <1>1, HandlesStep, Zenon

(* The accept thread does nothing to a worker but wake it.                  *)
LEMMA AcceptWakes ==
    ASSUME Types, AcceptThread \/ AcceptPolled
    PROVE  \A w \in Workers :
              worker'[w] = worker[w] \/ (worker[w].pc = "asleep" /\ worker'[w] = Idle)
<1>1. worker' = worker \/ worker' = WakeAll \/ notify_one
  BY Zenon DEF AcceptThread, AcceptCheck, AcceptWoken, AcceptPolled, AcceptWaited, AcceptFailed,
         AcceptNotify, AcceptMark, AcceptReturned, accept_tcp, accept_connection, AcceptThrows
<1> QED
  BY <1>1, WakeKeepsConns, Zenon

(* The accept thread opens a handle that was closed, and closes only its    *)
(* own connection.                                                          *)
LEMMA AcceptHandles ==
    ASSUME Types, Types', Owners, HandlesInv, AcceptThread \/ AcceptPolled
    PROVE  HandlesInv'
<1>0. accepter \in AccepterState /\ accepter' \in AccepterState
  BY Zenon DEF Types
<1>stops. stopper' = stopper
  BY Zenon DEF AcceptThread, AcceptCheck, AcceptWoken, AcceptPolled, AcceptWaited,
               AcceptFailed, AcceptNotify, AcceptMark, AcceptReturned, accept_tcp,
               accept_connection, AcceptThrows
<1>woken. \A w \in Workers : worker'[w].pc = "erase" => worker'[w] = worker[w]
  BY AcceptWakes DEF Idle
<1>1. CASE \/ AcceptCheck \/ AcceptWoken \/ AcceptPolled \/ AcceptWaited \/ AcceptFailed
           \/ AcceptNotify \/ AcceptMark
  <2>1. /\ UNCHANGED <<fds, handle_, closing_, arrivals, live>>
        /\ accepter'.conn = accepter.conn
    BY <1>0, <1>1, Zenon DEF AcceptCheck, AcceptWoken, AcceptPolled, AcceptWaited, AcceptFailed,
                      AcceptNotify, AcceptMark, AcceptStep, AccepterState, sockets
  <2> QED
    BY <1>stops, <1>woken, <2>1, HandlesKept, Zenon
<1>2. ASSUME CloseAll({accepter.conn}), accepter.conn # None, closing_' = closing_,
             live' = live, arrivals' = arrivals
      PROVE  HandlesInv'
  <2>1. {accepter.conn} \in SUBSET Conns
    BY <1>0, <1>2, Zenon DEF AccepterState, ConnectionOrNone
  <2>2. Closes({accepter.conn})
    BY <1>2, <2>1, CloseAllCloses, Zenon
  <2>3. {accepter.conn} \cap arrivals = {}
    BY Zenon DEF Owners
  <2> QED
    BY <1>stops, <1>woken, <1>2, <2>1, <2>2, <2>3, HandlesStep, Zenon
<1>3. CASE AcceptReturned
  <2>1. CASE stopping
    BY <1>2, <1>3, <2>1, Zenon DEF AcceptReturned, Types, AccepterFits
  <2>2. CASE ~stopping
    <3>1. /\ UNCHANGED <<fds, handle_, closing_, arrivals, live>>
          /\ accepter'.conn = accepter.conn
      BY <1>0, <1>3, <2>2, Zenon DEF AcceptReturned, AccepterState
    <3> QED
      BY <1>stops, <1>woken, <3>1, HandlesKept, Zenon
  <2> QED
    BY <2>1, <2>2, Zenon
<1>4. CASE accept_tcp
  <2>0. UNCHANGED <<closing_, live>>
    BY <1>4, Zenon DEF accept_tcp
  <2>1. CASE \E c \in arrivals, h \in Handles :
                /\ fds[h] = None
                /\ arrivals' = arrivals \ {c}
                /\ fds' = [fds EXCEPT ![h] = c]
                /\ handle_' = [handle_ EXCEPT ![c] = h]
                /\ accepter' = [accepter EXCEPT !.pc = "accepted", !.conn = c]
    <3>1. PICK c \in arrivals, h \in Handles :
             /\ fds[h] = None
             /\ arrivals' = arrivals \ {c}
             /\ fds' = [fds EXCEPT ![h] = c]
             /\ handle_' = [handle_ EXCEPT ![c] = h]
             /\ accepter'.conn = c
      BY <1>0, <2>1, Zenon DEF AccepterState
    <3>2. /\ c \in Conns /\ c \notin closing_ /\ c \notin live
          /\ handle_ \in [Conns -> Handles \cup {None}]
          /\ fds \in [Handles -> ConnectionOrNone]
          /\ closing_ \subseteq Conns
      BY Zenon DEF Types, HandlesInv, Owners
    <3>3. accepter.conn = None
      BY <1>4, Zenon DEF accept_tcp, Types, AccepterFits
    <3>4. handle_[c] = None /\ \A d \in Conns : handle_[d] # h
      <4>1. c # accepter.conn
        BY Zenon DEF Owners
      <4>2. handle_[c] # None => c \in live \/ c = accepter.conn
        BY <3>2, Zenon DEF HandlesInv
      <4>3. ASSUME NEW d \in Conns PROVE handle_[d] # h
        <5>1. fds[h] = d <=> handle_[d] = h
          BY <3>1, Zenon DEF HandlesInv
        <5> QED
          BY <3>1, <5>1, ServerAssumption, Zenon
      <4> QED
        BY <3>2, <4>1, <4>2, <4>3, Zenon
    <3>5. ASSUME NEW g \in Handles, NEW d \in Conns PROVE fds'[g] = d <=> handle_'[d] = g
      <4>1. fds[g] = d <=> handle_[d] = g
        BY Zenon DEF HandlesInv
      <4> QED
        BY <3>1, <3>2, <3>4, <4>1, ServerAssumption, Zenon
    <3>6. ASSUME NEW d \in Conns, handle_'[d] # None PROVE d \in live' \/ d = accepter'.conn
      BY <2>0, <3>1, <3>2, <3>3, <3>6, ServerAssumption, SMTT(20) DEF HandlesInv
    <3>7. ASSUME NEW d \in closing_' PROVE handle_'[d] = None
      BY <2>0, <3>1, <3>2, SMTT(20) DEF HandlesInv
    <3>8. closing_' \cap arrivals' = {} /\ \A t \in Threads : stopper'[t].snapshot \cap arrivals' = {}
      BY <1>stops, <2>0, <3>1, Zenon DEF HandlesInv
    <3>9. ASSUME NEW w \in Workers, worker'[w].pc = "erase" PROVE handle_'[worker'[w].conn] = None
      <4>1. worker'[w] = worker[w] /\ handle_[worker[w].conn] = None
        BY <1>woken, <3>9, Zenon DEF HandlesInv
      <4>2. worker[w].conn \in live /\ worker[w].conn # c
        <5>1. worker[w].conn # None /\ worker[w].conn \in live
          BY <3>9, <4>1, Zenon DEF Owners, Types, WorkerFits, Free
        <5> QED
          BY <3>2, <5>1, Zenon
      <4> QED
        BY <3>1, <3>2, <4>1, <4>2, Zenon DEF Types
    <3> QED
      BY <3>5, <3>6, <3>7, <3>8, <3>9, Zenon DEF HandlesInv
  <2>2. CASE /\ arrivals' \subseteq arrivals /\ UNCHANGED <<fds, handle_>>
             /\ AcceptStep("accept", "closed") \/ AcceptStep("accept", "failed")
    <3>1. accepter'.conn = accepter.conn
      BY <1>0, <2>2, Zenon DEF AcceptStep, AccepterState
    <3> QED
      BY <1>stops, <1>woken, <2>0, <2>2, <3>1, HandlesKept, Zenon
  <2> QED
    BY <1>4, <2>1, <2>2, Zenon DEF accept_tcp
<1>5. ASSUME UNCHANGED <<fds, handle_, closing_, arrivals>>, live' = live \cup {accepter.conn}
      PROVE  HandlesInv'
  BY <1>stops, <1>woken, <1>5, HandlesKept, Zenon
<1>6. CASE accept_connection
  <2>1. accepter.conn \in Conns
    BY <1>0, <1>6, Zenon DEF accept_connection, Types, AccepterFits, AccepterState, ConnectionOrNone
  <2>2. CASE Admit(accepter.conn)
    BY <1>5, <1>6, <2>2, Zenon DEF accept_connection, Admit, sockets
  <2>3. CASE Refuse(accepter.conn)
    <3>1. Closes({accepter.conn}) /\ closing_' = closing_ \cup {accepter.conn}
      BY <2>1, <2>3, RequestCloses, Zenon DEF Refuse
    <3>2. {accepter.conn} \cap arrivals = {}
      BY Zenon DEF Owners
    <3>3. UNCHANGED <<live, arrivals>>
      BY <1>6, <2>3, Zenon DEF accept_connection, Refuse
    <3> QED
      BY <1>stops, <1>woken, <2>1, <3>1, <3>2, <3>3, HandlesStep, Zenon
  <2> QED
    BY <1>6, <2>2, <2>3, Zenon DEF accept_connection
<1>7. CASE AcceptThrows
  BY <1>2, <1>5, <1>7, Zenon DEF AcceptThrows, Types, AccepterFits
<1> QED
  BY <1>1, <1>3, <1>4, <1>6, <1>7, Zenon DEF AcceptThread

(* The steps of a worker that neither take, close nor erase a connection.   *)
Serves(w) ==
    \/ SpuriousWakeup(w) \/ ServeLoop(w) \/ Begin(w) \/ ReadHandle(w) \/ EnterCall(w)
    \/ Receive(w) \/ HandleRequest(w) \/ Send(w) \/ CallEnds(w) \/ Released(w)
    \/ WorkerMark(w)

(* The steps of serve that neither take, close nor erase a connection.      *)
LEMMA ServesPcs ==
    ASSUME Types, NEW w \in Workers, Serves(w)
    PROVE  /\ worker'[w].pc # "erase"
           /\ \A v \in Workers \ {w} :
                 worker'[v] = worker[v] \/ (worker[v].pc = "asleep" /\ worker'[v] = Idle)
           /\ UNCHANGED <<arrivals, sockets, queue, live, stopped, wake, accepter, stopper>>
<1>1. UNCHANGED <<arrivals, sockets, queue, live, stopped, wake, accepter, stopper>>
  BY Zenon DEF Serves, SpuriousWakeup, ServeLoop, Begin, ReadHandle, EnterCall, Receive,
               HandleRequest, Send, CallEnds, Released, WorkerMark, flags
<1>2. CASE SpuriousWakeup(w) \/ ServeLoop(w) \/ Begin(w) \/ HandleRequest(w)
  <2>1. \E to \in WorkerPcs \ {"erase"} : Goes(w, to) \/ Drops(w, to)
    BY <1>2, StepGoes, EndedDrops, Zenon
    DEF SpuriousWakeup, ServeLoop, Begin, HandleRequest, WorkerStep, WorkerPcs
  <2> QED
    BY <1>1, <2>1, Zenon DEF Goes, Drops, Becomes
<1>3. CASE Send(w) \/ CallEnds(w) \/ Released(w)
  <2>1. \E to \in WorkerPcs \ {"erase"} : Drops(w, to)
    BY <1>3, EndedDrops, Zenon DEF Send, CallEnds, Released, WorkerPcs
  <2> QED
    BY <1>1, <2>1, Zenon DEF Drops, Becomes
<1>4. CASE ReadHandle(w) \/ EnterCall(w) \/ Receive(w)
  BY <1>1, <1>4, ServeBecomes, Zenon DEF Becomes
<1>5. CASE WorkerMark(w)
  <2>1. CASE worker[w].pc = "mark"
    BY <1>1, <1>5, <2>1, EraseBecomes, Zenon DEF Becomes
  <2>2. CASE worker[w].pc = "marked"
    BY <1>1, <1>5, <2>2, ExitTypes, Zenon DEF WorkerMark
  <2> QED
    BY <1>5, <2>1, <2>2, Zenon DEF WorkerMark
<1> QED
  BY <1>2, <1>3, <1>4, <1>5, Zenon DEF Serves

(* A worker closes the handle of its connection before it erases it from    *)
(* live.                                                                    *)
LEMMA ServeHandles ==
    ASSUME Types, Types', Owners, HandlesInv, NEW w \in Workers,
           WorkerThread(w) \/ SpuriousWakeup(w) \/ Receive(w) \/ Send(w) \/ CallEnds(w)
    PROVE  HandlesInv'
<1>1. CASE Serves(w)
  <2>1. \A v \in Workers : worker'[v].pc = "erase" => worker'[v] = worker[v]
    <3>1. Idle.pc # "erase"
      BY Zenon DEF Idle
    <3> QED
      BY <1>1, <3>1, ServesPcs, Zenon
  <2>2. UNCHANGED <<fds, handle_, closing_, arrivals, live, accepter, stopper>>
    BY <1>1, ServesPcs, Zenon DEF sockets
  <2> QED
    BY <2>1, <2>2, HandlesKept, Zenon
<1>2. CASE WorkerTakes(w)
  <2>1. \A v \in Workers : worker'[v].pc = "erase" => worker'[v] = worker[v]
    BY <1>2, ServeBecomes, Zenon DEF Goes, Becomes
  <2>2. UNCHANGED <<fds, handle_, closing_, arrivals, live, accepter, stopper>>
    BY <1>2, Zenon DEF WorkerTakes, sockets
  <2> QED
    BY <2>1, <2>2, HandlesKept, Zenon
<1>3. CASE Finish(w)
  <2>1. worker[w].pc = "finish" /\ Drops(w, "erase")
    BY <1>3, EndedDrops, Zenon DEF Finish, WorkerPcs
  <2>2. worker[w].conn \in Conns /\ worker[w].conn \in live
    BY <2>1, Zenon DEF Types, WorkerFits, Free, WorkerState, ConnectionOrNone, Owners
  <2>3. Closes({worker[w].conn}) /\ closing_' = closing_ \cup {worker[w].conn}
    BY <1>3, <2>2, RequestCloses, Zenon DEF Finish
  <2>4. {worker[w].conn} \cap arrivals = {}
    BY <2>2 DEF Owners
  <2>5. UNCHANGED <<arrivals, live, accepter, stopper>>
    BY <1>3, Zenon DEF Finish
  <2>6. \A v \in Workers : worker'[v].pc = "erase" =>
           worker'[v] = worker[v] \/ worker'[v].conn \in {worker[w].conn}
    BY <2>1, Zenon DEF Drops, Becomes
  <2> QED
    BY <2>2, <2>3, <2>4, <2>5, <2>6, HandlesStep, Zenon
<1>4. CASE Erase(w)
  <2>1. \A v \in Workers : worker'[v].pc = "erase" => worker'[v] = worker[v]
    BY <1>4, EraseBecomes, Zenon DEF Becomes
  <2>2. /\ UNCHANGED <<fds, handle_, closing_, arrivals, accepter, stopper>>
        /\ live' = live \ {worker[w].conn} /\ handle_[worker[w].conn] = None
    BY <1>4, Zenon DEF Erase, sockets, HandlesInv
  <2> QED
    BY <2>1, <2>2, HandlesKept, Zenon
<1> QED
  BY <1>1, <1>2, <1>3, <1>4, Zenon DEF Serves, WorkerThread

(* stop closes what its snapshot names, and in the end every live           *)
(* connection.                                                              *)
LEMMA StopHandles ==
    ASSUME Types, Types', Owners, HandlesInv, NEW t \in Threads,
           StopBegins(t) \/ Stopping(t) \/ StopJoins
    PROVE  HandlesInv'
<1>0. stopper \in [Threads -> StopperState]
  BY Zenon DEF Types
<1>1. \A w \in Workers : worker'[w].pc = "erase" => worker'[w] = worker[w]
  BY WakeKeepsConns
  DEF StopBegins, Stopping, StopNotifies, StopWakes, StopSnapshots, StopCloses, StopJoins, Idle
<1>2. CASE StopBegins(t) \/ StopNotifies(t) \/ StopWakes(t)
  <2>1. /\ UNCHANGED <<fds, handle_, closing_, arrivals, live, accepter>>
        /\ \A u \in Threads : stopper'[u].snapshot = stopper[u].snapshot
    BY <1>0, <1>2 DEF StopBegins, StopNotifies, StopWakes, StopStep, StopperState, sockets
  <2> QED
    BY <1>1, <2>1, HandlesKept, Zenon
<1>3. CASE StopSnapshots(t)
  <2>1. /\ UNCHANGED <<fds, handle_, closing_, arrivals, live, accepter>>
        /\ \A u \in Threads : stopper'[u].snapshot \subseteq stopper[u].snapshot \cup live
    BY <1>0, <1>3, Zenon DEF StopSnapshots, Snapshot, StopperState, sockets
  <2> QED
    BY <1>1, <2>1, HandlesKept, Zenon
<1>4. CASE StopCloses(t)
  <2>0. UNCHANGED <<arrivals, live, accepter>>
    BY <1>4, Zenon DEF StopCloses
  <2>1. CASE \E c \in stopper[t].snapshot :
                /\ request_close(c)
                /\ stopper' = [stopper EXCEPT ![t].snapshot = @ \ {c}]
    <3>1. PICK c \in stopper[t].snapshot :
             /\ request_close(c)
             /\ stopper' = [stopper EXCEPT ![t].snapshot = stopper[t].snapshot \ {c}]
      BY <2>1, Zenon
    <3>2. c \in Conns /\ {c} \cap arrivals = {}
      <4>1. stopper[t] \in StopperState /\ stopper[t].snapshot \cap arrivals = {}
        BY <1>0, Zenon DEF HandlesInv
      <4>2. stopper[t].snapshot \subseteq Conns
        BY <4>1, Zenon DEF StopperState
      <4> QED
        BY <4>1, <4>2, Zenon
    <3>3. Closes({c}) /\ closing_' = closing_ \cup {c}
      BY <3>1, <3>2, RequestCloses, Zenon
    <3>4. \A u \in Threads : stopper'[u].snapshot \subseteq stopper[u].snapshot
      BY <1>0, <3>1, Zenon DEF StopperState
    <3> QED
      BY <1>1, <2>0, <3>2, <3>3, <3>4, HandlesStep, Zenon
  <2>2. CASE /\ StopStep(t, "close", IF t \in Workers THEN "done" ELSE "join")
             /\ UNCHANGED sockets
    <3>1. /\ UNCHANGED <<fds, handle_, closing_>>
          /\ \A u \in Threads : stopper'[u].snapshot = stopper[u].snapshot
      BY <1>0, <2>2, Zenon DEF StopStep, StopperState, sockets
    <3> QED
      BY <1>1, <2>0, <3>1, HandlesKept
  <2> QED
    BY <1>4, <2>1, <2>2, Zenon DEF StopCloses
<1>5. CASE StopJoins
  <2>1. /\ UNCHANGED <<closing_, arrivals, accepter>> /\ live' = {}
        /\ \A u \in Threads : stopper'[u].snapshot = stopper[u].snapshot
    BY <1>0, <1>5, Zenon DEF StopJoins, StopStep, StopperState
  <2>2. live \in SUBSET Conns /\ live \cap arrivals = {}
    BY Zenon DEF Types, Owners
  <2>3. Closes(live)
    BY <1>5, <2>2, CloseAllCloses, Zenon DEF StopJoins
  <2>4. \A c \in live \ live' : handle_'[c] = None
    BY <2>2, <2>3, Zenon DEF Closes
  <2> QED
    BY <1>1, <2>1, <2>2, <2>3, <2>4, HandlesStep
<1> QED
  BY <1>2, <1>3, <1>4, <1>5, Zenon DEF Stopping

(* Handles and connections match in every reachable state.                  *)
LEMMA HandlesInvariant == Spec => []HandlesInv
<1>1. Init => HandlesInv
  <2>1. SUFFICES ASSUME Init PROVE HandlesInv
    BY Zenon
  <2>2. \A w \in Workers : worker[w].pc = "idle"
    BY <2>1, Zenon DEF Init, Idle
  <2>3. \A t \in Threads : stopper[t].snapshot = {}
    BY <2>1, Zenon DEF Init
  <2> QED
    BY <2>1, <2>2, <2>3, ServerAssumption, Zenon DEF Init, HandlesInv
<1>2. ASSUME Types, Types', Owners, HandlesInv, [Next]_vars PROVE HandlesInv'
  <2>1. CASE Next
    BY <1>2, <2>1, Steps, AcceptHandles, ServeHandles, StopHandles, Zenon
  <2>2. CASE UNCHANGED vars
    BY <1>2, <2>2, Zenon DEF vars, sockets, HandlesInv
  <2> QED
    BY <1>2, <2>1, <2>2, Zenon
<1> QED
  BY <1>1, <1>2, TypesInvariant, OwnersInvariant, PTL DEF Spec
-----------------------------------------------------------------------------
(* While the server is not stopping only its worker closes a connection, so *)
(* the handle the worker read is still the connection's.  Once it stops, a  *)
(* handle may name a connection accepted since, which is never admitted.    *)
RecycledInv ==
    /\ \A t \in Threads : stopper[t].pc # "out" => stopping
    /\ \A w \in Workers : worker[w].pc \in Calling =>
          /\ stopping \/ handle_[worker[w].conn] = worker[w].fd
          /\ fds[worker[w].fd] \notin {None, worker[w].conn} =>
                stopping /\ fds[worker[w].fd] \notin live
          /\ worker[w].file \notin {None, worker[w].conn} =>
                stopping /\ worker[w].file \notin live

(* The answers of a connection are its requests in the order read, and the  *)
(* one request without an answer is in the hands of the worker serving it.  *)
(* A worker that dropped a request closes its connection, or leaves it to   *)
(* no one; so only connections that are all answered are ever served.       *)
Answered(c) == read[c] = Len(responses[c])

InOrder(c) ==
    /\ responses[c] = [i \in 1 .. Len(responses[c]) |-> <<c, i>>]
    /\ Len(responses[c]) <= read[c]

AnswersInv ==
    ~stopping =>
       /\ \A c \in Conns : InOrder(c)
       /\ \A c \in arrivals : Answered(c)
       /\ accepter.conn # None => Answered(accepter.conn)
       /\ \A i \in 1 .. Len(queue) : Answered(queue[i])
       /\ \A w \in Workers :
             /\ worker[w].pc \in Asking => Answered(worker[w].conn)
             /\ worker[w].pc \in Answering =>
                   /\ read[worker[w].conn] = Len(responses[worker[w].conn]) + 1
                   /\ worker[w].req = <<worker[w].conn, read[worker[w].conn]>>
-----------------------------------------------------------------------------
(* What a handle read without the lock can name. *)

(* A step in which no worker reads a handle or enters a system call, and no *)
(* connection is accepted.                                                  *)
LEMMA RecycledStep ==
    ASSUME Types, Types', Owners, HandlesInv, RecycledInv, NEW cs, Closes(cs),
           stopping => stopping',
           live' \subseteq live \/ ~stopping,
           \A t \in Threads : stopper'[t].pc # "out" => stopping',
           \A w \in Workers : worker'[w].pc \in Calling =>
               /\ worker'[w] = worker[w]
               /\ worker[w].conn \in cs => stopping
    PROVE  RecycledInv'
<1>1. SUFFICES ASSUME NEW w \in Workers, worker'[w].pc \in Calling
               PROVE  /\ stopping' \/ handle_'[worker[w].conn] = worker[w].fd
                      /\ fds'[worker[w].fd] \notin {None, worker[w].conn} =>
                            stopping' /\ fds'[worker[w].fd] \notin live'
                      /\ worker[w].file \notin {None, worker[w].conn} =>
                            stopping' /\ worker[w].file \notin live'
  BY Zenon DEF RecycledInv
<1>2. /\ worker'[w] = worker[w] /\ worker[w].pc \in Calling
      /\ worker[w].conn \in cs => stopping
  BY <1>1, Zenon
<1>3. worker[w].conn \in Conns /\ worker[w].fd \in Handles
  BY <1>2, Zenon DEF Types, WorkerFits, Free, Calling, WorkerState, ConnectionOrNone
<1>4. /\ stopping \/ handle_[worker[w].conn] = worker[w].fd
      /\ fds[worker[w].fd] \notin {None, worker[w].conn} =>
            stopping /\ fds[worker[w].fd] \notin live
      /\ worker[w].file \notin {None, worker[w].conn} =>
            stopping /\ worker[w].file \notin live
  BY <1>2, Zenon DEF RecycledInv
<1> QED
  BY <1>2, <1>3, <1>4, Zenon DEF Closes

(* A handle a worker still holds is closed, and so reused, only once the    *)
(* server is stopping.                                                      *)
LEMMA AcceptRecycled ==
    ASSUME Types, Types', Owners, HandlesInv, RecycledInv, AcceptThread \/ AcceptPolled
    PROVE  RecycledInv'
<1>0. accepter \in AccepterState
  BY Zenon DEF Types
<1>1. /\ stopper' = stopper
      /\ stopping => stopping'
      /\ live' \subseteq live \/ ~stopping
  <2>1. stopper' = stopper /\ (stopping' = stopping \/ stopping' = TRUE)
    BY Zenon DEF AcceptThread, AcceptCheck, AcceptWoken, AcceptPolled, AcceptWaited, AcceptFailed,
           AcceptNotify, AcceptMark, AcceptReturned, accept_tcp, accept_connection, AcceptThrows,
           MarkStopping, flags
  <2>2. live' = live \/ HasRoom
    BY Zenon DEF AcceptThread, AcceptCheck, AcceptWoken, AcceptPolled, AcceptWaited, AcceptFailed,
           AcceptNotify, AcceptMark, AcceptReturned, accept_tcp, accept_connection, AcceptThrows,
           Refuse
  <2> QED
    BY <2>1, <2>2 DEF HasRoom
<1>2. \A w \in Workers : worker'[w].pc \in Calling => worker'[w] = worker[w]
  BY AcceptWakes DEF Idle, Calling
<1>3. \A t \in Threads : stopper'[t].pc # "out" => stopping'
  BY <1>1, Zenon DEF RecycledInv
<1>4. \A w \in Workers : worker[w].pc \in Calling => worker[w].conn # accepter.conn
  BY Zenon DEF Types, WorkerFits, Free, Calling, Owners
<1>5. CASE Closes({})
  BY <1>1, <1>2, <1>3, <1>5, RecycledStep, Zenon
<1>6. CASE Closes({accepter.conn})
  BY <1>1, <1>2, <1>3, <1>4, <1>6, RecycledStep, Zenon
<1>7. CASE accept_tcp /\ ~UNCHANGED <<fds, handle_>>
  <2>1. PICK c \in arrivals, h \in Handles :
           /\ fds[h] = None
           /\ fds' = [fds EXCEPT ![h] = c]
           /\ handle_' = [handle_ EXCEPT ![c] = h]
    BY <1>7, Zenon DEF accept_tcp
  <2>2. c \in Conns /\ c \notin live /\ live' = live /\ stopping' = stopping
    BY <1>7, Zenon DEF accept_tcp, flags, Types, Owners
  <2>3. ASSUME NEW w \in Workers, worker'[w].pc \in Calling
        PROVE  /\ stopping' \/ handle_'[worker[w].conn] = worker[w].fd
               /\ fds'[worker[w].fd] \notin {None, worker[w].conn} =>
                     stopping' /\ fds'[worker[w].fd] \notin live'
               /\ worker[w].file \notin {None, worker[w].conn} =>
                     stopping' /\ worker[w].file \notin live'
    <3>1. worker'[w] = worker[w] /\ worker[w].pc \in Calling
      BY <1>2, <2>3, Zenon
    <3>2. worker[w].conn \in Conns /\ worker[w].fd \in Handles /\ worker[w].conn \in live
      BY <3>1, Zenon DEF Types, WorkerFits, Free, Calling, WorkerState, ConnectionOrNone, Owners
    <3>3. /\ stopping \/ handle_[worker[w].conn] = worker[w].fd
          /\ fds[worker[w].fd] \notin {None, worker[w].conn} =>
                stopping /\ fds[worker[w].fd] \notin live
          /\ worker[w].file \notin {None, worker[w].conn} =>
                stopping /\ worker[w].file \notin live
      BY <3>1, Zenon DEF RecycledInv
    <3>4. handle_'[worker[w].conn] = handle_[worker[w].conn]
      BY <2>1, <2>2, <3>2, Zenon DEF Types
    <3>5. CASE worker[w].fd = h
      <4>1. handle_[worker[w].conn] # h
        BY <2>1, <3>2, ServerAssumption, Zenon DEF HandlesInv
      <4>2. stopping /\ fds'[h] = c
        BY <2>1, <3>3, <3>5, <4>1, Zenon DEF Types
      <4> QED
        BY <2>2, <3>3, <3>5, <4>2, Zenon
    <3>6. CASE worker[w].fd # h
      <4>1. fds'[worker[w].fd] = fds[worker[w].fd]
        BY <2>1, <3>2, <3>6, Zenon DEF Types
      <4> QED
        BY <2>2, <3>3, <3>4, <4>1, Zenon
    <3> QED
      BY <3>5, <3>6, Zenon
  <2> QED
    BY <1>2, <1>3, <2>3, Zenon DEF RecycledInv
<1>8. UNCHANGED <<fds, handle_>> => Closes({})
  BY Zenon DEF Closes
<1>9. CASE \/ AcceptCheck \/ AcceptWoken \/ AcceptPolled \/ AcceptWaited \/ AcceptFailed
           \/ AcceptNotify \/ AcceptMark
  BY <1>5, <1>8, <1>9, Zenon DEF AcceptCheck, AcceptWoken, AcceptPolled, AcceptWaited, AcceptFailed,
                          AcceptNotify, AcceptMark, sockets
<1>10. ASSUME accepter.pc \in {"accepted", "admit"}
       PROVE  {accepter.conn} \in SUBSET Conns /\ accepter.conn \in Conns
  BY <1>0, <1>10, Zenon DEF Types, AccepterFits, AccepterState, ConnectionOrNone
<1>11. CASE AcceptReturned \/ AcceptThrows
  <2>1. UNCHANGED <<fds, handle_>> \/ CloseAll({accepter.conn})
    BY <1>11, Zenon DEF AcceptReturned, AcceptThrows
  <2> QED
    BY <1>5, <1>6, <1>8, <1>10, <1>11, <2>1, CloseAllCloses, Zenon DEF AcceptReturned, AcceptThrows
<1>12. CASE accept_connection
  <2>1. UNCHANGED <<fds, handle_>> \/ request_close(accepter.conn)
    BY <1>12, Zenon DEF accept_connection, Admit, Refuse, sockets
  <2> QED
    BY <1>5, <1>6, <1>8, <1>10, <1>12, <2>1, RequestCloses, Zenon DEF accept_connection
<1>13. CASE accept_tcp /\ UNCHANGED <<fds, handle_>>
  BY <1>5, <1>8, <1>13, Zenon
<1> QED
  BY <1>7, <1>9, <1>11, <1>12, <1>13, Zenon DEF AcceptThread

(* A worker reads the handle of its own connection, and closes no           *)
(* connection but its own.                                                  *)
LEMMA ServeRecycled ==
    ASSUME Types, Types', Owners, HandlesInv, RecycledInv, NEW w \in Workers,
           WorkerThread(w) \/ SpuriousWakeup(w) \/ Receive(w) \/ Send(w) \/ CallEnds(w)
    PROVE  RecycledInv'
<1>1. /\ stopper' = stopper /\ live' \subseteq live
      /\ stopping' = stopping \/ stopping' = TRUE
  BY DEF WorkerThread, WorkerTakes, SpuriousWakeup, ServeLoop, Begin, ReadHandle, EnterCall,
         Receive,
         HandleRequest, Send, CallEnds, Released, Finish, Erase, WorkerMark, MarkStopping, flags
<1>2. \A t \in Threads : stopper'[t].pc # "out" => stopping'
  BY <1>1 DEF RecycledInv
<1>3. ASSUME worker'[w].pc \notin Calling, Closes({}),
             \A v \in Workers \ {w} :
                worker'[v] = worker[v] \/ (worker[v].pc = "asleep" /\ worker'[v] = Idle)
      PROVE  RecycledInv'
  <2>1. \A v \in Workers : worker'[v].pc \in Calling => worker'[v] = worker[v]
    BY <1>3 DEF Idle, Calling
  <2>2. (stopping => stopping') /\ live' \subseteq live
    BY <1>1
  <2>3. \A v \in Workers : worker'[v].pc \in Calling =>
           worker'[v] = worker[v] /\ (worker[v].conn \in {} => stopping)
    BY <2>1, Zenon
  <2> QED
    BY <1>2, <1>3, <2>2, <2>3, RecycledStep, ZenonT(30)
<1>4. UNCHANGED <<fds, handle_>> => Closes({})
  BY Zenon DEF Closes
<1>5. CASE SpuriousWakeup(w) \/ ServeLoop(w) \/ Begin(w) \/ HandleRequest(w) \/ Send(w)
           \/ CallEnds(w) \/ Released(w)
  <2>1. \E to \in WorkerPcs \ Calling : Goes(w, to) \/ Drops(w, to)
    BY <1>5, StepGoes, EndedDrops, Zenon
    DEF SpuriousWakeup, ServeLoop, Begin, HandleRequest, Send, CallEnds, Released, WorkerStep,
        WorkerPcs, Calling
  <2>2. UNCHANGED <<fds, handle_>>
    BY <1>5, Zenon DEF SpuriousWakeup, ServeLoop, Begin, HandleRequest, Send, CallEnds, Released,
                       sockets
  <2> QED
    <3>1. PICK to \in WorkerPcs \ Calling : Goes(w, to) \/ Drops(w, to)
      BY <2>1, Zenon
    <3>2. /\ worker'[w].pc \notin Calling
          /\ \A v \in Workers \ {w} : worker'[v] = worker[v]
      BY <3>1, Zenon DEF Goes, Drops, Becomes, Types
    <3> QED
      BY <1>3, <1>4, <2>2, <3>2, Zenon
<1>6. CASE WorkerTakes(w) \/ Receive(w) \/ Erase(w)
  <2>1. /\ worker'[w].pc \in {"exited", "asleep", "loop", "handle", "idle"}
        /\ \A v \in Workers \ {w} : worker'[v] = worker[v]
    BY <1>6, ServeBecomes, EraseBecomes, Zenon DEF Goes, Becomes
  <2>2. UNCHANGED <<fds, handle_>>
    BY <1>6, Zenon DEF WorkerTakes, Receive, Erase, sockets
  <2> QED
    BY <1>3, <1>4, <2>1, <2>2, Zenon DEF Calling
<1>7. CASE WorkerMark(w)
  <2>1. /\ worker'[w].pc \in {"marked", "exited"}
        /\ \A v \in Workers \ {w} :
              worker'[v] = worker[v] \/ (worker[v].pc = "asleep" /\ worker'[v] = Idle)
    <3>1. CASE worker[w].pc = "mark"
      BY <1>7, <3>1, EraseBecomes, Zenon DEF Becomes
    <3>2. CASE worker[w].pc # "mark"
      <4>1. worker[w].pc = "marked" /\ worker' = [WakeAll EXCEPT ![w].pc = "exited"]
        BY <1>7, <3>2, Zenon DEF WorkerMark
      <4> QED
        BY <4>1, ExitTypes, Zenon
    <3> QED
      BY <3>1, <3>2
  <2>2. UNCHANGED <<fds, handle_>>
    BY <1>7, Zenon DEF WorkerMark, sockets
  <2> QED
    BY <1>3, <1>4, <2>1, <2>2, Zenon DEF Calling
<1>8. CASE Finish(w)
  <2>1. worker[w].pc = "finish" /\ Drops(w, "erase")
    BY <1>8, EndedDrops DEF Finish, WorkerPcs
  <2>2. worker[w].conn \in Conns /\ worker[w].conn # None
    BY <2>1, Zenon DEF Types, WorkerFits, Free, WorkerState, ConnectionOrNone
  <2>3. Closes({worker[w].conn})
    BY <1>8, <2>2, RequestCloses DEF Finish
  <2>4. \A v \in Workers : worker'[v].pc \in Calling => v # w /\ worker'[v] = worker[v]
    BY <2>1, Zenon DEF Drops, Becomes, Calling
  <2>5. \A v \in Workers : worker'[v].pc \in Calling => worker[v].conn # worker[w].conn
    BY <2>2, <2>4 DEF Owners
  <2>6. (stopping => stopping') /\ live' \subseteq live
    BY <1>1, SMTT(20)
  <2>7. \A v \in Workers : worker'[v].pc \in Calling =>
           worker'[v] = worker[v] /\ (worker[v].conn \in {worker[w].conn} => stopping)
    BY <2>4, <2>5, Zenon
  <2> QED
    BY <1>2, <2>3, <2>6, <2>7, RecycledStep, ZenonT(30)
<1>9. CASE ReadHandle(w) \/ EnterCall(w)
  <2>0. /\ UNCHANGED <<fds, handle_, live, stopping>>
        /\ \A v \in Workers \ {w} : worker'[v] = worker[v]
        /\ worker'[w].conn = worker[w].conn
    BY <1>9, ServeBecomes, Zenon DEF ReadHandle, EnterCall, sockets, flags, Becomes
  <2>1. worker[w].conn \in Conns
    BY <1>9, Zenon DEF ReadHandle, EnterCall, Types, WorkerFits, Free, WorkerState, ConnectionOrNone
  <2>2. ASSUME worker'[w].pc \in Calling
        PROVE  /\ stopping \/ handle_[worker[w].conn] = worker'[w].fd
               /\ fds[worker'[w].fd] \notin {None, worker[w].conn} =>
                     stopping /\ fds[worker'[w].fd] \notin live
               /\ worker'[w].file \notin {None, worker[w].conn} =>
                     stopping /\ worker'[w].file \notin live
    <3>1. CASE ReadHandle(w)
      <4>1. /\ worker'[w].fd = handle_[worker[w].conn] /\ worker'[w].file = worker[w].file
            /\ handle_[worker[w].conn] # None
        BY <2>2, <3>1, ServeBecomes, Zenon DEF Becomes, Calling
      <4>2. worker[w].file = None
        BY <3>1, Zenon DEF ReadHandle, Types, WorkerFits
      <4>3. handle_[worker[w].conn] \in Handles
        BY <2>1, <4>1, Zenon DEF Types
      <4>4. fds[handle_[worker[w].conn]] = worker[w].conn
        BY <2>1, <4>3 DEF HandlesInv
      <4> QED
        BY <4>1, <4>2, <4>4
    <3>2. CASE EnterCall(w)
      <4>1. worker'[w].fd = worker[w].fd /\ worker'[w].file = fds[worker[w].fd]
        BY <3>2, ServeBecomes, Zenon DEF Becomes
      <4>2. worker[w].pc \in Calling
        BY <3>2, Zenon DEF EnterCall, Calling
      <4> QED
        BY <4>1, <4>2, Zenon DEF RecycledInv
    <3> QED
      BY <1>9, <3>1, <3>2, SMTT(20)
  <2> QED
    BY <1>2, <2>0, <2>2, Zenon DEF RecycledInv
<1> QED
  BY <1>5, <1>6, <1>7, <1>8, <1>9, ZenonT(30) DEF WorkerThread

(* A stop closes the connections of others, but has marked the server       *)
(* stopping before.                                                         *)
LEMMA StopRecycled ==
    ASSUME Types, Types', Owners, HandlesInv, RecycledInv, NEW t \in Threads,
           StopBegins(t) \/ Stopping(t) \/ StopJoins
    PROVE  RecycledInv'
<1>0. stopper \in [Threads -> StopperState] /\ "main" \in Threads
  BY Zenon DEF Types, Threads
<1>1. /\ live' \subseteq live
      /\ stopping' = stopping \/ stopping' = TRUE
  BY Zenon DEF StopBegins, Stopping, StopNotifies, StopWakes, StopSnapshots, StopCloses, StopJoins,
         MarkStopping, flags
<1>2. \A w \in Workers : worker'[w].pc \in Calling => worker'[w] = worker[w]
  BY WakeKeepsConns
  DEF StopBegins, Stopping, StopNotifies, StopWakes, StopSnapshots, StopCloses, StopJoins, Idle, Calling
<1>3. CASE StopBegins(t)
  <2>1. stopping' = TRUE /\ Closes({})
    BY <1>3, Zenon DEF StopBegins, MarkStopping, sockets, Closes
  <2> QED
    BY <1>1, <1>2, <2>1, RecycledStep, Zenon
<1>4. CASE Stopping(t) \/ StopJoins
  <2>1. \E u \in Threads : stopper[u].pc # "out"
    BY <1>0, <1>4, Zenon DEF Stopping, StopNotifies, StopWakes, StopSnapshots, StopCloses,
                             StopJoins, StopStep
  <2>2. stopping /\ stopping'
    BY <1>1, <2>1 DEF RecycledInv
  <2>3. \E cs \in SUBSET Conns : Closes(cs)
    <3>1. CASE UNCHANGED <<fds, handle_>>
      <4>1. Closes({})
        BY <3>1, Zenon DEF Closes
      <4> QED
        BY <4>1, Zenon
    <3>2. CASE \E c \in stopper[t].snapshot : request_close(c)
      <4>1. PICK c \in stopper[t].snapshot : request_close(c)
        BY <3>2, Zenon
      <4>2. c \in Conns
        BY <1>0, Zenon DEF StopperState
      <4>3. Closes({c})
        BY <4>1, <4>2, RequestCloses, Zenon
      <4> QED
        BY <4>2, <4>3, Zenon
    <3>3. CASE StopJoins
      <4>1. live \in SUBSET Conns
        BY Zenon DEF Types
      <4> QED
        BY <3>3, <4>1, CloseAllCloses, Zenon DEF StopJoins
    <3> QED
      BY <1>4, <3>1, <3>2, <3>3, Zenon
      DEF Stopping, StopNotifies, StopWakes, StopSnapshots, StopCloses, sockets
  <2> QED
    BY <1>1, <1>2, <2>2, <2>3, RecycledStep, Zenon
<1> QED
  BY <1>3, <1>4, Zenon

(* What a handle read without the lock can name, in every reachable state.  *)
LEMMA RecycledInvariant == Spec => []RecycledInv
<1>1. Init => RecycledInv
  BY DEF Init, RecycledInv, Idle, Calling
<1>2. ASSUME Types, Types', Owners, HandlesInv, RecycledInv, [Next]_vars PROVE RecycledInv'
  <2>1. CASE UNCHANGED vars
    BY <1>2, <2>1, Zenon DEF vars, sockets, flags, RecycledInv
  <2> QED
    BY <1>2, <2>1, Steps, AcceptRecycled, ServeRecycled, StopRecycled, Zenon
<1> QED
  BY <1>1, <1>2, TypesInvariant, OwnersInvariant, HandlesInvariant, PTL DEF Spec

(* serve: the handle of a closed connection may be reused by the next one   *)
(* accepted, and a worker that read it without the lock may then enter a    *)
(* system call on that other connection; no connection the server serves is *)
(* ever read from, or written to, that way.                                 *)
THEOREM RecycledNotServed == Spec => []RecycledHandleIsNeverServed
<1>1. RecycledInv /\ Types => RecycledHandleIsNeverServed
  BY Zenon DEF RecycledInv, RecycledHandleIsNeverServed, Types, WorkerFits, Calling
<1> QED
  BY <1>1, RecycledInvariant, TypesInvariant, PTL

-----------------------------------------------------------------------------
(* The order of the answers. *)

(* A step that moves no request and no answer, and in which no connection   *)
(* is taken over but one that is all answered.                              *)
LEMMA AnswersKept ==
    ASSUME AnswersInv, UNCHANGED <<read, responses>>, stopping => stopping',
           arrivals' \subseteq arrivals,
           accepter'.conn \in arrivals \cup {accepter.conn, None},
           \A i \in 1 .. Len(queue') :
              \/ queue'[i] = accepter.conn /\ accepter.conn # None
              \/ \E j \in 1 .. Len(queue) : queue'[i] = queue[j],
           \A w \in Workers : worker'[w].pc \in Asking =>
              \/ worker[w].pc \in Asking /\ worker'[w].conn = worker[w].conn
              \/ \E j \in 1 .. Len(queue) : worker'[w].conn = queue[j],
           \A w \in Workers : worker'[w].pc \in Answering =>
              /\ worker[w].pc \in Answering
              /\ worker'[w].conn = worker[w].conn /\ worker'[w].req = worker[w].req
    PROVE  AnswersInv'
<1>1. SUFFICES ASSUME ~stopping' PROVE AnswersInv'
  BY Zenon DEF AnswersInv
<1>2. /\ \A c \in Conns : InOrder(c)'
      /\ \A c : Answered(c)' <=> Answered(c)
  BY <1>1, Zenon DEF AnswersInv, InOrder, Answered
<1>3. /\ \A c \in arrivals' : Answered(c)
      /\ accepter'.conn # None => Answered(accepter'.conn)
      /\ \A i \in 1 .. Len(queue') : Answered(queue'[i])
      /\ \A w \in Workers : worker'[w].pc \in Asking => Answered(worker'[w].conn)
  BY <1>1, Zenon DEF AnswersInv
<1>4. \A w \in Workers : worker'[w].pc \in Answering =>
         /\ read'[worker'[w].conn] = Len(responses'[worker'[w].conn]) + 1
         /\ worker'[w].req = <<worker'[w].conn, read'[worker'[w].conn]>>
  BY <1>1, Zenon DEF AnswersInv
<1>5. /\ \A c \in arrivals' : Answered(c)'
      /\ accepter'.conn # None => Answered(accepter.conn)'
      /\ \A i \in 1 .. Len(queue') : Answered(queue[i])'
      /\ \A w \in Workers : worker'[w].pc \in Asking => Answered(worker[w].conn)'
  BY <1>3, Zenon DEF Answered
<1> QED
  BY <1>2, <1>4, <1>5, Zenon DEF AnswersInv

(* The accept thread brings in connections that have neither asked nor been *)
(* answered.                                                                *)
LEMMA AcceptAnswers ==
    ASSUME Types, Types', AnswersInv, AcceptThread \/ AcceptPolled
    PROVE  AnswersInv'
<1>1. /\ UNCHANGED <<read, responses>> /\ arrivals' \subseteq arrivals
      /\ stopping' = stopping \/ stopping' = TRUE
  BY Zenon DEF AcceptThread, AcceptCheck, AcceptWoken, AcceptPolled, AcceptWaited,
               AcceptFailed, AcceptNotify, AcceptMark, AcceptReturned, accept_tcp,
               accept_connection, AcceptThrows, MarkStopping, flags, traffic
<1>2. accepter \in AccepterState /\ queue \in Seq(Conns)
  BY Zenon DEF Types
<1>3. accepter'.conn \in arrivals \cup {accepter.conn, None}
  BY <1>2, Zenon DEF AcceptThread, AcceptCheck, AcceptWoken, AcceptPolled, AcceptWaited,
                     AcceptFailed, AcceptNotify, AcceptMark, AcceptReturned, accept_tcp,
                     accept_connection, AcceptThrows, Admit, Refuse, AcceptStep, AccepterState
<1>4. queue' = queue \/ (queue' = Append(queue, accepter.conn) /\ accepter.pc = "admit")
  BY Zenon DEF AcceptThread, AcceptCheck, AcceptWoken, AcceptPolled, AcceptWaited,
               AcceptFailed, AcceptNotify, AcceptMark, AcceptReturned, accept_tcp,
               accept_connection, AcceptThrows, Admit, Refuse
<1>5. \A i \in 1 .. Len(queue') :
         \/ queue'[i] = accepter.conn /\ accepter.conn # None
         \/ \E j \in 1 .. Len(queue) : queue'[i] = queue[j]
  <2>1. CASE queue' = queue
    BY <2>1, Zenon
  <2>2. CASE queue' = Append(queue, accepter.conn) /\ accepter.pc = "admit"
    <3>1. accepter.conn # None
      BY <2>2, Zenon DEF Types, AccepterFits
    <3>2. ASSUME NEW i \in 1 .. Len(queue')
          PROVE  (i \in 1 .. Len(queue) /\ queue'[i] = queue[i]) \/ queue'[i] = accepter.conn
      BY <1>2, <2>2, <3>2
    <3> QED
      BY <3>1, <3>2, Zenon
  <2> QED
    BY <1>4, <2>1, <2>2, Zenon
<1>6. \A w \in Workers : worker'[w] = worker[w] \/ worker'[w].pc = "idle"
  BY AcceptWakes DEF Idle
<1>7. \A w \in Workers : worker'[w].pc \in Asking \cup Answering => worker'[w] = worker[w]
  BY <1>6, Zenon DEF Asking, Answering
<1>8. \A w \in Workers : worker'[w].pc \in Asking =>
         worker[w].pc \in Asking /\ worker'[w].conn = worker[w].conn
  BY <1>7, Zenon
<1>9. \A w \in Workers : worker'[w].pc \in Answering =>
         /\ worker[w].pc \in Answering
         /\ worker'[w].conn = worker[w].conn /\ worker'[w].req = worker[w].req
  BY <1>7, Zenon
<1>10. stopping => stopping'
  BY <1>1, Zenon
<1> QED
  BY <1>1, <1>3, <1>5, <1>8, <1>9, <1>10, AnswersKept, ZenonT(30)

(* A stop begins by marking the server stopping.                            *)
LEMMA StopAnswers ==
    ASSUME Types, Types', RecycledInv, AnswersInv, NEW t \in Threads,
           StopBegins(t) \/ Stopping(t) \/ StopJoins
    PROVE  AnswersInv'
<1>1. "main" \in Threads
  BY Zenon DEF Threads
<1>2. CASE StopBegins(t)
  BY <1>2, Zenon DEF StopBegins, MarkStopping, AnswersInv
<1>3. CASE Stopping(t) \/ StopJoins
  <2>1. \E u \in Threads : stopper[u].pc # "out"
    BY <1>1, <1>3, Zenon DEF Stopping, StopNotifies, StopWakes, StopSnapshots, StopCloses,
                             StopJoins, StopStep
  <2>2. stopping /\ stopping' = stopping
    BY <1>3, <2>1, Zenon DEF RecycledInv, Stopping, StopNotifies, StopWakes, StopSnapshots,
                             StopCloses, StopJoins, flags
  <2> QED
    BY <2>2, Zenon DEF AnswersInv
<1> QED
  BY <1>2, <1>3, Zenon

(* A worker that receives or sends while the server is not stopping does so *)
(* on the connection it serves, and no one else holds that connection.      *)
LEMMA CallIsOwn ==
    ASSUME Types, Owners, RecycledInv, ~stopping, NEW w \in Workers,
           worker[w].pc \in {"recv", "send"}
    PROVE  /\ worker[w].file = worker[w].conn /\ worker[w].conn \in Conns
           /\ worker[w].conn \notin arrivals /\ worker[w].conn # accepter.conn
           /\ \A i \in 1 .. Len(queue) : queue[i] # worker[w].conn
           /\ \A v \in Workers \ {w} : worker[v].conn # worker[w].conn
<1>1. worker[w].conn \in Conns /\ worker[w].conn # None /\ worker[w].file # None
  BY Zenon DEF Types, WorkerFits, Free, WorkerState, ConnectionOrNone
<1>2. worker[w].file = worker[w].conn
  BY <1>1, Zenon DEF RecycledInv, Calling
<1> QED
  BY <1>1, <1>2, Zenon DEF Owners

(* Whoever holds a connection holds one of Conns.                           *)
LEMMA HeldAreConns ==
    ASSUME Types
    PROVE  /\ arrivals \subseteq Conns
           /\ accepter.conn # None => accepter.conn \in Conns
           /\ \A i \in 1 .. Len(queue) : queue[i] \in Conns
           /\ \A v \in Workers : worker[v].pc \in Asking \cup Answering => worker[v].conn \in Conns
<1>1. arrivals \subseteq Conns /\ \A i \in 1 .. Len(queue) : queue[i] \in Conns
  BY DEF Types
<1>2. accepter.conn # None => accepter.conn \in Conns
  BY Zenon DEF Types, AccepterState, ConnectionOrNone
<1>3. ASSUME NEW v \in Workers, worker[v].pc \in Asking \cup Answering PROVE worker[v].conn \in Conns
  <2>1. worker[v] \in WorkerState /\ WorkerFits(worker[v])
    BY Zenon DEF Types
  <2>2. worker[v].pc \notin Free
    BY <1>3, Zenon DEF Asking, Answering, Free
  <2> QED
    BY <2>1, <2>2, Zenon DEF WorkerFits, WorkerState, ConnectionOrNone
<1> QED
  BY <1>1, <1>2, <1>3, Zenon

(* A request is read from a connection whose requests are all answered.     *)
LEMMA ReceiveAnswers ==
    ASSUME Types, Types', Owners, RecycledInv, AnswersInv, ~stopping, NEW w \in Workers, Receive(w)
    PROVE  AnswersInv'
<1> DEFINE c == worker[w].conn
<1>1. /\ worker[w].pc = "recv" /\ worker[w].file = c /\ c \in Conns
      /\ c \notin arrivals /\ c # accepter.conn
      /\ \A i \in 1 .. Len(queue) : queue[i] # c
      /\ \A v \in Workers \ {w} : worker[v].conn # c
  BY CallIsOwn, Zenon DEF Receive
<1>2. /\ UNCHANGED <<arrivals, responses, queue, accepter, stopping>>
      /\ read' = [read EXCEPT ![c] = @ + 1]
  BY <1>1, Zenon DEF Receive, flags
<1>3. /\ worker'[w].pc = "handle" /\ worker'[w].conn = c /\ worker'[w].req = <<c, read[c] + 1>>
      /\ \A v \in Workers \ {w} : worker'[v] = worker[v]
  BY <1>1, ServeBecomes, Zenon DEF Becomes
<1>4. read \in [Conns -> 0 .. MaxRequests]
  BY Zenon DEF Types
<1>5. read'[c] = read[c] + 1 /\ \A d \in Conns \ {c} : read'[d] = read[d]
  BY <1>1, <1>2, <1>4, Zenon
<1>6. read[c] = Len(responses[c])
  BY <1>1, Zenon DEF AnswersInv, Asking, Answered
<1> HIDE DEF c
<1>7. \A d \in Conns : InOrder(d)'
  <2>1. \A d \in Conns : InOrder(d)
    BY Zenon DEF AnswersInv
  <2>2. ASSUME NEW d \in Conns PROVE read'[d] >= read[d] /\ read'[d] \in Int /\ read[d] \in Int
    BY <1>1, <1>4, <1>5, SMTT(20)
  <2>3. ASSUME NEW d \in Conns PROVE Len(responses[d]) \in Nat
    BY DEF Types
  <2> QED
    BY <1>2, <2>1, <2>2, <2>3 DEF InOrder
<1>8. /\ \A d \in arrivals : Answered(d)
      /\ accepter.conn # None => Answered(accepter.conn)
      /\ \A i \in 1 .. Len(queue) : Answered(queue[i])
      /\ \A v \in Workers :
            /\ worker[v].pc \in Asking => Answered(worker[v].conn)
            /\ worker[v].pc \in Answering =>
                  /\ read[worker[v].conn] = Len(responses[worker[v].conn]) + 1
                  /\ worker[v].req = <<worker[v].conn, read[worker[v].conn]>>
  BY Zenon DEF AnswersInv
<1>9. /\ \A d \in arrivals' : Answered(d)'
      /\ accepter'.conn # None => Answered(accepter.conn)'
      /\ \A i \in 1 .. Len(queue') : Answered(queue[i])'
  <2>1. \A d \in Conns \ {c} : Answered(d) => Answered(d)'
    BY <1>2, <1>5, Zenon DEF Answered
  <2>2. \A d \in arrivals' : Answered(d)'
    BY <1>1, <1>2, <1>8, <2>1, HeldAreConns, Zenon
  <2>3. accepter'.conn # None => Answered(accepter.conn)'
    <3>1. accepter.conn # None => accepter.conn \in Conns \ {c} /\ Answered(accepter.conn)
      BY <1>1, <1>8, HeldAreConns, Zenon
    <3>2. accepter.conn # None => read'[accepter.conn] = Len(responses'[accepter.conn])
      BY <1>2, <1>5, <3>1, Zenon DEF Answered
    <3> QED
      BY <1>2, <3>2, Zenon DEF Answered
  <2>4. ASSUME NEW i \in 1 .. Len(queue') PROVE Answered(queue[i])'
    <3>1. i \in 1 .. Len(queue)
      BY <1>2, Zenon
    <3>2. queue[i] \in Conns \ {c} /\ Answered(queue[i])
      BY <1>1, <1>8, <3>1, HeldAreConns, Zenon
    <3>3. read'[queue[i]] = Len(responses'[queue[i]])
      BY <1>2, <1>5, <3>2, Zenon DEF Answered
    <3> QED
      BY <1>2, <3>3, Zenon DEF Answered
  <2> QED
    BY <2>2, <2>3, <2>4, Zenon
<1>10. ASSUME NEW v \in Workers
       PROVE  /\ worker'[v].pc \in Asking => Answered(worker[v].conn)'
              /\ worker'[v].pc \in Answering =>
                    /\ read'[worker'[v].conn] = Len(responses'[worker'[v].conn]) + 1
                    /\ worker'[v].req = <<worker'[v].conn, read'[worker'[v].conn]>>
  <2>1. CASE v = w
    BY <1>2, <1>3, <1>5, <1>6, <2>1, Zenon DEF Asking
  <2>2. CASE v # w
    <3>1. worker'[v] = worker[v] /\ worker[v].conn # c
      BY <1>1, <1>3, <2>2, SMTT(20)
    <3>2. worker[v].pc \in Asking \cup Answering => read'[worker[v].conn] = read[worker[v].conn]
      BY <1>5, <3>1, HeldAreConns
    <3> QED
      BY <1>2, <1>8, <3>1, <3>2, Zenon DEF Answered
  <2> QED
    BY <2>1, <2>2, Zenon
<1> QED
  BY <1>7, <1>9, <1>10, Zenon DEF AnswersInv

(* An answer is the one to the last request read.                           *)
LEMMA SendAnswers ==
    ASSUME Types, Types', Owners, RecycledInv, AnswersInv, ~stopping, NEW w \in Workers, Send(w)
    PROVE  AnswersInv'
<1>0. PICK c \in Conns : c = worker[w].conn
  BY CallIsOwn, Zenon DEF Send
<1>00. PICK n \in Nat : n = Len(responses[c])
  BY DEF Types
<1>1. /\ worker[w].pc = "send" /\ worker[w].file = c /\ c = worker[w].conn
      /\ c \notin arrivals /\ c # accepter.conn
      /\ \A i \in 1 .. Len(queue) : queue[i] # c
      /\ \A v \in Workers \ {w} : worker[v].conn # c
  BY <1>0, CallIsOwn, Zenon DEF Send
<1>2. UNCHANGED <<arrivals, read, queue, accepter, stopping>>
  BY Zenon DEF Send, flags
<1>3. /\ worker'[w].pc = "loop" /\ worker'[w].conn = c
      /\ \A v \in Workers \ {w} : worker'[v] = worker[v]
  BY <1>0, EndedDrops, Zenon DEF Send, Drops, Becomes, WorkerPcs
<1>4. /\ responses \in [Conns -> Seq(Requests)] /\ responses[c] \in Seq(Requests)
      /\ read \in [Conns -> 0 .. MaxRequests]
  BY Zenon DEF Types
<1>5. read[c] = n + 1 /\ worker[w].req = <<c, n + 1>> /\ <<c, n + 1>> \in Requests
  <2>1. worker[w].pc \in Answering
    BY <1>1, Zenon DEF Answering
  <2>2. worker[w].req \in Requests
    BY <2>1, Zenon DEF Types, WorkerFits
  <2>3. /\ read[worker[w].conn] = Len(responses[worker[w].conn]) + 1
        /\ worker[w].req = <<worker[w].conn, read[worker[w].conn]>>
    BY <2>1, Zenon DEF AnswersInv
  <2> QED
    BY <1>0, <1>00, <2>2, <2>3, Zenon
<1>6. /\ responses'[c] = Append(responses[c], <<c, n + 1>>)
      /\ \A d \in Conns \ {c} : responses'[d] = responses[d]
  <2>1. responses' = [responses EXCEPT ![c] = Append(responses[c], <<c, n + 1>>)]
    BY <1>1, <1>5, Zenon DEF Send
  <2> QED
    BY <1>4, <2>1, Zenon
<1>7. responses[c] = [i \in 1 .. n |-> <<c, i>>]
  BY <1>00, Zenon DEF AnswersInv, InOrder
<1>8. responses'[c] = [i \in 1 .. n + 1 |-> <<c, i>>] /\ Len(responses'[c]) = n + 1
  <2>1. /\ Append(responses[c], <<c, n + 1>>) = [i \in 1 .. n + 1 |-> <<c, i>>]
        /\ Len(Append(responses[c], <<c, n + 1>>)) = n + 1
    <3>1. <<c, n + 1>> \in Requests /\ n = Len(responses[c]) /\ responses[c] \in Seq(Requests)
      BY <1>4, <1>5, <1>00, Zenon
    <3>2. PICK s \in Seq(Requests) : s = responses[c]
      BY <3>1, Zenon
    <3>3. n = Len(s) /\ s = [i \in 1 .. n |-> <<c, i>>]
      BY <1>7, <3>1, <3>2, Zenon
    <3>4. /\ Append(s, <<c, n + 1>>) = [i \in 1 .. n + 1 |-> <<c, i>>]
          /\ Len(Append(s, <<c, n + 1>>)) = n + 1
      <4> DEFINE a == Append(s, <<c, n + 1>>)
      <4>1. a \in Seq(Requests) /\ Len(a) = n + 1
        BY <3>1, <3>3
      <4>2. \A i \in 1 .. n : a[i] = s[i] /\ s[i] = <<c, i>>
        BY <3>3
      <4>3. a[n + 1] = <<c, n + 1>>
        BY <3>3
      <4>4. DOMAIN a = 1 .. n + 1 /\ a = [i \in DOMAIN a |-> a[i]]
        BY <4>1
      <4> HIDE DEF a
      <4>5. \A i \in 1 .. n + 1 : a[i] = <<c, i>>
        BY <4>2, <4>3
      <4>6. a = [i \in 1 .. n + 1 |-> <<c, i>>]
        BY <4>4, <4>5, Zenon
      <4> QED
        BY <4>1, <4>6, Zenon DEF a
    <3> QED
      BY <3>2, <3>4, Zenon
  <2> QED
    BY <1>6, <2>1, Zenon
<1>9. \A d \in Conns : InOrder(d)'
  <2>1. \A d \in Conns : InOrder(d)
    BY SMTT(20) DEF AnswersInv
  <2>2. \A d \in Conns \ {c} : InOrder(d)'
    BY <1>2, <1>6, <2>1, Zenon DEF InOrder
  <2>3. InOrder(c)'
    BY <1>2, <1>4, <1>5, <1>8 DEF InOrder
  <2> QED
    BY <2>2, <2>3, Zenon
<1>10. /\ \A d \in arrivals : Answered(d)
       /\ accepter.conn # None => Answered(accepter.conn)
       /\ \A i \in 1 .. Len(queue) : Answered(queue[i])
       /\ \A v \in Workers :
             /\ worker[v].pc \in Asking => Answered(worker[v].conn)
             /\ worker[v].pc \in Answering =>
                   /\ read[worker[v].conn] = Len(responses[worker[v].conn]) + 1
                   /\ worker[v].req = <<worker[v].conn, read[worker[v].conn]>>
  BY Zenon DEF AnswersInv
<1>11. /\ \A d \in arrivals' : Answered(d)'
       /\ accepter'.conn # None => Answered(accepter.conn)'
       /\ \A i \in 1 .. Len(queue') : Answered(queue[i])'
  BY <1>1, <1>2, <1>6, <1>10, HeldAreConns, Zenon DEF Answered
<1>12. ASSUME NEW v \in Workers
       PROVE  /\ worker'[v].pc \in Asking => Answered(worker[v].conn)'
              /\ worker'[v].pc \in Answering =>
                    /\ read'[worker'[v].conn] = Len(responses'[worker'[v].conn]) + 1
                    /\ worker'[v].req = <<worker'[v].conn, read'[worker'[v].conn]>>
  <2>1. CASE v = w
    BY <1>2, <1>3, <1>5, <1>8, <2>1, Zenon DEF Answering, Answered
  <2>2. CASE v # w
    <3>1. worker'[v] = worker[v] /\ worker[v].conn # c
      BY <1>1, <1>3, <2>2, Zenon
    <3>2. /\ worker[v].pc \in Asking => Answered(worker[v].conn)
          /\ worker[v].pc \in Answering =>
                /\ read[worker[v].conn] = Len(responses[worker[v].conn]) + 1
                /\ worker[v].req = <<worker[v].conn, read[worker[v].conn]>>
      BY <1>10, Zenon
    <3>3. worker[v].pc \in Asking \cup Answering =>
             responses'[worker[v].conn] = responses[worker[v].conn]
      BY <1>6, <3>1, HeldAreConns, Zenon
    <3> QED
      BY <1>2, <3>1, <3>2, <3>3, Zenon DEF Answered
  <2> QED
    BY <2>1, <2>2, Zenon
<1> QED
  BY <1>9, <1>11, <1>12, Zenon DEF AnswersInv

(* The steps of a worker keep the answers in order.                         *)
LEMMA ServeAnswers ==
    ASSUME Types, Types', Owners, RecycledInv, AnswersInv, NEW w \in Workers,
           WorkerThread(w) \/ SpuriousWakeup(w) \/ Receive(w) \/ Send(w) \/ CallEnds(w)
    PROVE  AnswersInv'
<1>1. stopping' = stopping \/ stopping' = TRUE
  BY Zenon DEF WorkerThread, WorkerTakes, SpuriousWakeup, ServeLoop, Begin, ReadHandle,
               EnterCall, Receive, HandleRequest, Send, CallEnds, Released, Finish, Erase,
               WorkerMark, MarkStopping, flags
<1>2. CASE stopping
  BY <1>1, <1>2, Zenon DEF AnswersInv
<1>3. CASE Receive(w) /\ ~stopping
  BY <1>3, ReceiveAnswers, Zenon
<1>4. CASE Send(w) /\ ~stopping
  BY <1>4, SendAnswers, Zenon
<1>5. CASE WorkerTakes(w) /\ ~stopping
  <2>1. UNCHANGED <<read, responses, arrivals, accepter>>
    BY <1>5, Zenon DEF WorkerTakes, traffic
  <2>2. CASE queue = <<>> /\ Goes(w, "asleep") /\ queue' = queue
    <3>1. \A v \in Workers : worker'[v].pc \in Asking \cup Answering => worker'[v] = worker[v]
      BY <2>2, Zenon DEF Goes, Becomes, Asking, Answering
    <3>2. \A v \in Workers : worker'[v].pc \in Asking =>
             worker[v].pc \in Asking /\ worker'[v].conn = worker[v].conn
      BY <3>1, Zenon
    <3>3. \A v \in Workers : worker'[v].pc \in Answering =>
             /\ worker[v].pc \in Answering
             /\ worker'[v].conn = worker[v].conn /\ worker'[v].req = worker[v].req
      BY <3>1, Zenon
    <3>4. stopping => stopping'
      BY <1>1, Zenon
    <3>5. \A i \in 1 .. Len(queue') : \E j \in 1 .. Len(queue) : queue'[i] = queue[j]
      BY <2>2, Zenon
    <3> QED
      BY <2>1, <3>2, <3>3, <3>4, <3>5, AnswersKept, ZenonT(30)
  <2>3. CASE /\ queue # <<>> /\ queue' = Tail(queue)
             /\ Becomes(w, "loop", Head(queue), worker[w].fd, worker[w].file, worker[w].req)
    <3>1. 1 \in 1 .. Len(queue) /\ Head(queue) = queue[1]
      BY <2>3, SMTT(20) DEF Types
    <3>2. \A i \in 1 .. Len(queue') : i + 1 \in 1 .. Len(queue) /\ queue'[i] = queue[i + 1]
      BY <2>3, SMTT(20) DEF Types
    <3>3. \A v \in Workers : worker'[v].pc \in Asking =>
              \/ worker[v].pc \in Asking /\ worker'[v].conn = worker[v].conn
              \/ \E j \in 1 .. Len(queue) : worker'[v].conn = queue[j]
      BY <2>3, <3>1, Zenon DEF Becomes
    <3>4. \A v \in Workers : worker'[v].pc \in Answering => worker'[v] = worker[v]
      BY <2>3, SMTT(20) DEF Becomes, Answering
    <3>5. \A i \in 1 .. Len(queue') : \E j \in 1 .. Len(queue) : queue'[i] = queue[j]
      BY <3>2, Zenon
    <3>6. \A v \in Workers : worker'[v].pc \in Answering =>
             /\ worker[v].pc \in Answering
             /\ worker'[v].conn = worker[v].conn /\ worker'[v].req = worker[v].req
      BY <3>4, Zenon
    <3>7. stopping => stopping'
      BY <1>1, Zenon
    <3> QED
      BY <2>1, <3>3, <3>5, <3>6, <3>7, AnswersKept, ZenonT(30)
  <2> QED
    BY <1>5, <2>2, <2>3, ServeBecomes, Zenon
<1>6. CASE \/ SpuriousWakeup(w) \/ ServeLoop(w) \/ Begin(w) \/ HandleRequest(w) \/ CallEnds(w)
           \/ Released(w) \/ Finish(w) \/ ReadHandle(w) \/ EnterCall(w) \/ Erase(w)
           \/ WorkerMark(w)
  <2>1. UNCHANGED <<read, responses, arrivals, accepter, queue>>
    BY <1>6, Zenon DEF SpuriousWakeup, ServeLoop, Begin, HandleRequest, CallEnds, Released, Finish,
                ReadHandle, EnterCall, Erase, WorkerMark, traffic
  <2>2. ASSUME worker'[w].pc \in Asking => worker[w].pc \in Asking,
               worker'[w].pc \in Answering => worker[w].pc \in Answering,
               worker'[w].pc \in Asking \cup Answering =>
                  worker'[w].conn = worker[w].conn /\ worker'[w].req = worker[w].req,
               \A v \in Workers \ {w} : worker'[v] = worker[v] \/ worker'[v] = Idle
        PROVE  AnswersInv'
    <3>1. Idle.pc \notin Asking \cup Answering
      BY Zenon DEF Idle, Asking, Answering
    <3>2. \A v \in Workers \ {w} : worker'[v].pc \in Asking \cup Answering => worker'[v] = worker[v]
      BY <2>2, <3>1, Zenon
    <3>3. \A v \in Workers : worker'[v].pc \in Asking =>
             worker[v].pc \in Asking /\ worker'[v].conn = worker[v].conn
      BY <2>2, <3>2, Zenon
    <3>4. \A v \in Workers : worker'[v].pc \in Answering =>
             /\ worker[v].pc \in Answering
             /\ worker'[v].conn = worker[v].conn /\ worker'[v].req = worker[v].req
      BY <2>2, <3>2, Zenon
    <3>5. \A i \in 1 .. Len(queue') : \E j \in 1 .. Len(queue) : queue'[i] = queue[j]
      BY <2>1, Zenon
    <3>6. /\ UNCHANGED <<read, responses>> /\ (stopping => stopping')
          /\ arrivals' \subseteq arrivals
          /\ accepter'.conn \in arrivals \cup {accepter.conn, None}
      BY <1>1, <2>1
    <3> QED
      BY <3>3, <3>4, <3>5, <3>6, AnswersKept, Zenon
  <2>3. CASE SpuriousWakeup(w) \/ ServeLoop(w) \/ Begin(w) \/ HandleRequest(w)
    <3>1. \E to \in WorkerPcs :
             /\ Goes(w, to) \/ (Drops(w, to) /\ to \in {"finish", "mark"})
             /\ to \in Asking => worker[w].pc \in Asking
             /\ to \in Answering => worker[w].pc \in Answering
      BY <2>3, StepGoes, EndedDrops, Zenon
      DEF SpuriousWakeup, ServeLoop, Begin, HandleRequest, WorkerStep, WorkerPcs, Asking, Answering
    <3> QED
      BY <2>2, <3>1, Zenon DEF Goes, Drops, Becomes, Asking, Answering
  <2>4. CASE CallEnds(w) \/ Released(w) \/ Finish(w)
    <3>1. Drops(w, "finish") \/ Drops(w, "erase")
      BY <2>4, EndedDrops, Zenon DEF CallEnds, Released, Finish, WorkerPcs
    <3> QED
      BY <2>2, <3>1, Zenon DEF Drops, Becomes, Asking, Answering
  <2>5. CASE ReadHandle(w)
    <3>1. worker[w].pc \in {"recv_arg", "send_arg"}
      BY <2>5, Zenon DEF ReadHandle
    <3> QED
      BY <2>2, <2>5, <3>1, ServeBecomes, Zenon DEF Becomes, Asking, Answering
  <2>6. CASE EnterCall(w)
    <3>1. worker[w].pc \in {"recv_call", "send_call"}
      BY <2>6, Zenon DEF EnterCall
    <3> QED
      BY <2>2, <2>6, <3>1, ServeBecomes, Zenon DEF Becomes, Asking, Answering
  <2>7. CASE Erase(w)
    BY <2>2, <2>7, EraseBecomes, Zenon DEF Becomes, Asking, Answering
  <2>8. CASE WorkerMark(w)
    <3>1. CASE worker[w].pc = "mark"
      BY <2>2, <2>8, <3>1, EraseBecomes, Zenon DEF Becomes, Asking, Answering
    <3>2. CASE worker[w].pc # "mark"
      <4>1. worker[w].pc = "marked" /\ worker' = [WakeAll EXCEPT ![w].pc = "exited"]
        BY <2>8, <3>2, Zenon DEF WorkerMark
      <4> QED
        BY <2>2, <4>1, ExitTypes, Zenon DEF Asking, Answering
    <3> QED
      BY <3>1, <3>2, Zenon
  <2> QED
    BY <1>6, <2>3, <2>4, <2>5, <2>6, <2>7, <2>8, Zenon
<1> QED
  BY <1>2, <1>3, <1>4, <1>5, <1>6, Zenon DEF WorkerThread

(* The answers of every connection are in the order of its requests.        *)
LEMMA AnswersInvariant == Spec => []AnswersInv
<1>1. Init => AnswersInv
  BY DEF Init, AnswersInv, InOrder, Answered, Idle, Asking, Answering
<1>2. ASSUME Types, Types', Owners, RecycledInv, AnswersInv, [Next]_vars PROVE AnswersInv'
  <2>1. CASE UNCHANGED vars
    BY <1>2, <2>1, Zenon DEF vars, traffic, flags, AnswersInv, InOrder, Answered
  <2> QED
    BY <1>2, <2>1, Steps, AcceptAnswers, ServeAnswers, StopAnswers, Zenon
<1> QED
  BY <1>1, <1>2, TypesInvariant, OwnersInvariant, RecycledInvariant, PTL DEF Spec

(* serve: until the server stops, each connection gets its answers in the   *)
(* order of its requests, one for each, though the workers share the queue  *)
(* and handles are reused.                                                  *)
THEOREM InOrderAnswers == Spec => []AnswersInOrder
<1>1. AnswersInv => AnswersInOrder
  BY Zenon DEF AnswersInv, AnswersInOrder, InOrder
<1> QED
  BY <1>1, AnswersInvariant, PTL
-----------------------------------------------------------------------------
(* Who serves a connection, and how many there are. *)
INSTANCE FiniteSetTheorems

(* The live connections fit max_connections, and a stop that has returned   *)
(* has left neither a thread nor a connection.                              *)
LiveInv ==
    /\ IsFiniteSet(live) /\ Cardinality(live) <= max_connections
    /\ stopped => /\ accepter.pc = "exited"
                  /\ \A w \in Workers : worker[w].pc = "exited"
                  /\ live = {}

(* accept_connection, worker_main: a connection is in one place, and served *)
(* by one worker, in every state of every server.                           *)
THEOREM OneOwner == Spec => []ConnectionHasOneOwner
<1>1. ASSUME Types, Owners PROVE ConnectionHasOneOwner
  <2>1. queue \in [1 .. Len(queue) -> Queued] /\ DOMAIN queue = 1 .. Len(queue) /\ Len(queue) \in Nat
    BY <1>1, SMTT(20) DEF Types, Queued
  <2>2. queue \in Bijection(1 .. Len(queue), Queued)
    BY <1>1, <2>1, Zenon DEF Owners, Queued, Bijection, Injection, Surjection, IsInjective
  <2>3. IsFiniteSet(1 .. Len(queue)) /\ Cardinality(1 .. Len(queue)) = Len(queue)
    <3> DEFINE n == Len(queue)
    <3>0. n \in Nat
      BY <2>1, Zenon
    <3> HIDE DEF n
    <3>1. 1 \in Int /\ n \in Int
      BY <3>0
    <3>2. IsFiniteSet(1 .. n) /\ Cardinality(1 .. n) = IF 1 > n THEN 0 ELSE n - 1 + 1
      BY <3>1, FS_Interval, Zenon
    <3>3. Cardinality(1 .. n) = n
      BY <3>0, <3>2
    <3> QED
      BY <3>2, <3>3, Zenon DEF n
  <2>4. Cardinality(Queued) = Len(queue)
    BY <2>2, <2>3, FS_Bijection DEF ExistsBijection
  <2>5. ASSUME NEW w \in Workers, worker[w].conn # None
        PROVE  /\ worker[w].conn \in live \ Queued
               /\ \A v \in Workers : worker[v].conn = worker[w].conn => v = w
    BY <1>1, <2>1, <2>5, Zenon DEF Owners, Queued
  <2> QED
    BY <1>1, <2>4, <2>5, Zenon DEF ConnectionHasOneOwner, Owners
<1> QED
  BY <1>1, TypesInvariant, OwnersInvariant, PTL

(* live is bounded, and a stop that returned left no thread and no          *)
(* connection.                                                              *)
LEMMA LiveInvariant == Spec => []LiveInv
<1>1. Init => LiveInv
  <2>1. IsFiniteSet({}) /\ Cardinality({}) = 0
    BY FS_EmptySet
  <2> QED
    BY <2>1, ServerAssumption DEF Init, LiveInv
<1>2. ASSUME Types, Owners, LiveInv, [Next]_vars PROVE LiveInv'
  <2>0. /\ IsFiniteSet(live) /\ Cardinality(live) <= max_connections /\ Cardinality(live) \in Nat
        /\ max_connections \in Nat
    BY <1>2, FS_CardinalityType, ServerAssumption DEF LiveInv
  <2>1. CASE AcceptThread \/ AcceptPolled
    <3>1. accepter.pc # "exited" /\ stopped' = stopped
      BY <2>1, Zenon DEF AcceptThread, AcceptCheck, AcceptWoken, AcceptPolled, AcceptWaited,
                         AcceptFailed, AcceptNotify, AcceptMark, AcceptReturned, accept_tcp,
                         accept_connection, AcceptThrows, AcceptStep, flags
    <3>2. ~stopped'
      BY <1>2, <3>1, Zenon DEF LiveInv
    <3>3. live' = live \/ (live' = live \cup {accepter.conn} /\ HasRoom)
      BY <2>1, Zenon DEF AcceptThread, AcceptCheck, AcceptWoken, AcceptPolled, AcceptWaited,
                         AcceptFailed, AcceptNotify, AcceptMark, AcceptReturned, accept_tcp,
                         accept_connection, AcceptThrows, Admit, Refuse
    <3>4. CASE live' = live
      BY <2>0, <3>2, <3>4, Zenon DEF LiveInv
    <3>5. CASE live' = live \cup {accepter.conn} /\ HasRoom
      <4>1. accepter.conn \notin live
        BY <1>2, Zenon DEF Owners
      <4>2. IsFiniteSet(live') /\ Cardinality(live') = Cardinality(live) + 1
        <5>1. /\ IsFiniteSet(live \cup {accepter.conn})
              /\ Cardinality(live \cup {accepter.conn})
                   = IF accepter.conn \in live THEN Cardinality(live) ELSE Cardinality(live) + 1
          BY <2>0, FS_AddElement, Zenon
        <5> QED
          BY <3>5, <4>1, <5>1, Zenon
      <4>3. Cardinality(live) < max_connections
        BY <3>5, Zenon DEF HasRoom
      <4> QED
        BY <2>0, <3>2, <4>2, <4>3, SMTT(20) DEF LiveInv
    <3> QED
      BY <3>3, <3>4, <3>5, Zenon
  <2>2. ASSUME NEW w \in Workers,
               WorkerThread(w) \/ SpuriousWakeup(w) \/ Receive(w) \/ Send(w) \/ CallEnds(w)
        PROVE  LiveInv'
    <3>1. worker[w].pc # "exited" /\ stopped' = stopped
      BY <2>2, Zenon DEF WorkerThread, WorkerTakes, SpuriousWakeup, ServeLoop, Begin,
                         ReadHandle, EnterCall, Receive, HandleRequest, Send, CallEnds,
                         Released, Finish, Erase, WorkerMark, WorkerStep, flags
    <3>2. ~stopped'
      BY <1>2, <3>1, Zenon DEF LiveInv
    <3>3. live' \subseteq live
      BY <2>2, Zenon DEF WorkerThread, WorkerTakes, SpuriousWakeup, ServeLoop, Begin,
                         ReadHandle, EnterCall, Receive, HandleRequest, Send, CallEnds,
                         Released, Finish, Erase, WorkerMark
    <3>4. IsFiniteSet(live') /\ Cardinality(live') <= Cardinality(live) /\ Cardinality(live') \in Nat
      BY <2>0, <3>3, FS_Subset, FS_CardinalityType, SMTT(20)
    <3> QED
      BY <2>0, <3>2, <3>4 DEF LiveInv
  <2>3. ASSUME NEW t \in Threads, StopBegins(t) \/ Stopping(t)
        PROVE  LiveInv'
    <3>1. live' = live /\ stopped' = stopped /\ accepter' = accepter
      BY <2>3, Zenon DEF StopBegins, Stopping, StopNotifies, StopWakes, StopSnapshots, StopCloses,
                         flags
    <3>2. \A w \in Workers : worker[w].pc = "exited" => worker'[w] = worker[w]
      BY <1>2, <2>3, WakeKeepsConns, Zenon
      DEF StopBegins, Stopping, StopNotifies, StopWakes, StopSnapshots, StopCloses
    <3> QED
      BY <1>2, <3>1, <3>2, Zenon DEF LiveInv
  <2>4. CASE StopJoins
    <3>1. /\ live' = {} /\ accepter'.pc = "exited"
          /\ \A w \in Workers : worker'[w].pc = "exited"
      BY <2>4, Zenon DEF StopJoins
    <3>2. IsFiniteSet({}) /\ Cardinality({}) = 0
      BY FS_EmptySet, SMTT(20)
    <3> QED
      BY <2>0, <3>1, <3>2, SMTT(20) DEF LiveInv
  <2>5. CASE UNCHANGED vars
    BY <1>2, <2>5, Zenon DEF vars, flags, LiveInv
  <2> QED
    BY <1>2, <2>1, <2>2, <2>3, <2>4, <2>5, Zenon DEF Next
<1> QED
  BY <1>1, <1>2, TypesInvariant, OwnersInvariant, PTL DEF Spec

(* GuardedSocket, stop_all: no handle is open that belongs to neither a     *)
(* live connection nor the one being accepted, however many connections     *)
(* come and go, and none is left when stop has returned.                    *)
THEOREM HandlesAccounted == Spec => []HandlesAreAccountedFor
<1>1. ASSUME Types, HandlesInv, LiveInv PROVE HandlesAreAccountedFor
  <2>1. ASSUME NEW h \in Handles, fds[h] # None
        PROVE  fds[h] \in live \cup {accepter.conn} /\ fds[h] \in Conns
    <3>1. fds[h] \in Conns
      BY <1>1, <2>1, Zenon DEF Types, ConnectionOrNone
    <3>2. handle_[fds[h]] # None
      BY <1>1, <3>1, ServerAssumption DEF HandlesInv
    <3> QED
      BY <1>1, <3>1, <3>2, Zenon DEF HandlesInv
  <2>2. ASSUME stopped, NEW h \in Handles PROVE fds[h] = None
    <3>1. live = {} /\ accepter.conn = None
      BY <1>1, <2>2, Zenon DEF LiveInv, Types, AccepterFits
    <3> QED
      BY <2>1, <3>1, ServerAssumption, Zenon
  <2> QED
    BY <1>1, <2>1, <2>2, Zenon DEF HandlesAreAccountedFor, LiveInv
<1> QED
  BY <1>1, TypesInvariant, HandlesInvariant, LiveInvariant, PTL
=============================================================================
