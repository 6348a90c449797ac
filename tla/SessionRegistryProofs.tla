----------------------- MODULE SessionRegistryProofs -----------------------
(***************************************************************************)
(* Machine-checked results about SessionRegistry, for any number of        *)
(* incarnations, sessions and requests.                                    *)
(***************************************************************************)
EXTENDS SessionRegistry, FiniteSetTheorems, TLAPS

(* What was authorised by the current incarnation is at or below the        *)
(* session's last_request_seq; what was authorised by an earlier one is     *)
(* bound to that one, and its bindings are never current again.             *)
LedgerInv ==
    /\ \A b \in bindings : b.boot <= boot
    /\ \A i \in DOMAIN ledger :
          /\ ledger[i].by <= boot
          /\ ledger[i].binding.boot = ledger[i].by
          /\ ledger[i].by = boot =>
                /\ ledger[i].binding.session \in DOMAIN sessions_
                /\ ledger[i].request_seq <=
                      sessions_[ledger[i].binding.session].last_request_seq

(* A binding's epoch is at or below the durable header.  An incarnation     *)
(* being opened is above the header and has issued nothing; a running one   *)
(* has recorded its epoch, and earlier incarnations' epochs are below it.   *)
EpochInv ==
    /\ entering => phase = "running"
    /\ phase = "opening" => \A b \in bindings : b.boot < boot
    /\ enable_durability =>
          /\ \A b \in bindings : b.epoch <= header
          /\ phase = "opening" => header < epoch
          /\ phase = "running" =>
                /\ header = epoch
                /\ \A b \in bindings : b.boot # boot => b.epoch < epoch

(* After close_all an open_session still in flight finds every session      *)
(* closed, and when it has ended at most its own session is open.           *)
ShutdownInv ==
    shutdown_ = "done" =>
        /\ entering => \A i \in DOMAIN sessions_ : sessions_[i].closed
        /\ \A i, j \in DOMAIN sessions_ :
              ~sessions_[i].closed /\ ~sessions_[j].closed => i = j

(* Without durability no header is ever recorded.                           *)
HeaderInv == ~enable_durability => header = 0

-----------------------------------------------------------------------------
(* No step without durability writes a StreamHeader.                        *)
LEMMA NoHeaderUndurable == Spec => []HeaderInv
<1>1. Init => HeaderInv
  BY DEF Init, HeaderInv
<1>2. ASSUME HeaderInv, [Next]_vars PROVE HeaderInv'
  <2>1. enable_durability' = enable_durability
    BY <1>2, Zenon DEF Next, vars, Boot, Serve, Crash, open_session, open,
                IssueSession, close, authorise, Consume, shutdown, close_all
  <2>2. CASE Serve \/ Crash
    BY <1>2, <2>1, <2>2 DEF HeaderInv, Serve, Crash
  <2>3. CASE ~(Serve \/ Crash)
    <3>1. header' = header
      BY <1>2, <2>3, Zenon DEF Next, vars, Boot, open_session, open, IssueSession, close,
                        authorise, Consume, shutdown, close_all
    <3> QED
      BY <1>2, <2>1, <3>1 DEF HeaderInv
  <2> QED
    BY <2>2, <2>3
<1> QED
  BY <1>1, <1>2, PTL DEF Spec

(* SessionRegistry::open and authorise: every reachable state has its type, *)
(* and the registry never holds more than max_sessions sessions.            *)
THEOREM SessionTypeCorrect == Spec => []TypeOK
<1> USE SessionAssumption DEF TypeOK
<1>0. DOMAIN NoSessions = 1 .. (1 - 1) /\ NoSessions \in [DOMAIN NoSessions -> SessionRecord]
  <2>1. DOMAIN NoSessions = {}
    BY DEF NoSessions
  <2>2. 1 .. (1 - 1) = {}
    BY SMT
  <2>3. NoSessions = [id \in DOMAIN NoSessions |-> NoSessions[id]]
    BY DEF NoSessions
  <2>4. NoSessions \in [DOMAIN NoSessions -> SessionRecord]
    BY <2>1, <2>3, Zenon
  <2> QED
    BY <2>1, <2>2, <2>4
<1>1. Init => TypeOK
  <2>1. SUFFICES ASSUME Init PROVE TypeOK
    OBVIOUS
  <2>2. ledger \in Seq(LedgerEntry) /\ bindings \subseteq SessionBinding
    BY <2>1 DEF Init
  <2>3. sessions_ = NoSessions /\ next_session_ = 1
    BY <2>1 DEF Init
  <2>4. /\ DOMAIN sessions_ = 1 .. (next_session_ - 1)
        /\ sessions_ \in [DOMAIN sessions_ -> SessionRecord]
    BY <1>0, <2>3
  <2>5. next_session_ \in 1 .. (max_sessions + 1) /\ header \in 0 .. epoch
    BY <2>1 DEF Init
  <2>6. /\ enable_durability \in BOOLEAN /\ phase \in {"down", "opening", "running"}
        /\ boot \in Nat /\ epoch \in Nat /\ entering \in BOOLEAN
        /\ shutdown_ \in {"no", "stopped", "done"}
    BY <2>1, Zenon DEF Init
  <2> QED
    BY <2>2, <2>4, <2>5, <2>6
<1>2. ASSUME TypeOK, HeaderInv, [Next]_vars PROVE TypeOK'
  <2>1. CASE Boot
    <3>1. sessions_' = NoSessions /\ next_session_' = 1
      BY <2>1 DEF Boot
    <3>2. /\ DOMAIN sessions_' = 1 .. (next_session_' - 1)
          /\ sessions_' \in [DOMAIN sessions_' -> SessionRecord]
      BY <1>0, <3>1
    <3>3. next_session_' \in 1 .. (max_sessions + 1)
      BY <3>1
    <3>4. boot' \in Nat
      <4>1. boot \in Nat /\ boot' = boot + 1
        BY <1>2, <2>1 DEF Boot
      <4> QED
        BY <4>1
    <3>5. epoch' \in Nat /\ header' \in 0 .. epoch'
      <4>1. epoch \in Nat /\ header \in 0 .. epoch /\ (header # 0 => enable_durability)
        BY <1>2 DEF HeaderInv
      <4>2. /\ header' = header
            /\ epoch' = IF enable_durability /\ header # 0 THEN header + 1 ELSE 1
        BY <2>1 DEF Boot
      <4>3. CASE header = 0
        BY <4>2, <4>3
      <4>4. CASE header # 0
        <5>1. epoch' = header + 1
          BY <4>1, <4>2, <4>4
        <5> QED
          BY <4>1, <4>2, <5>1
      <4> QED
        BY <4>3, <4>4
    <3>6. /\ phase' \in {"down", "opening", "running"}
          /\ shutdown_' \in {"no", "stopped", "done"}
          /\ UNCHANGED <<enable_durability, entering, bindings, ledger>>
      BY <2>1 DEF Boot
    <3> QED
      BY <1>2, <3>2, <3>3, <3>4, <3>5, <3>6
  <2>2. CASE Serve
    BY <1>2, <2>2 DEF Serve
  <2>3. CASE Crash
    <3>1. header' = header \/ header' = epoch
      BY <2>3 DEF Crash
    <3>2. header' \in 0 .. epoch'
      BY <1>2, <2>3, <3>1 DEF Crash
    <3> QED
      BY <1>2, <2>3, <3>2, Zenon DEF Crash
  <2>4. CASE open_session
    BY <1>2, <2>4 DEF open_session
  <2>5. CASE open
    <3>1. CASE Cardinality(DOMAIN sessions_) < max_sessions /\ IssueSession
      <4>1. Cardinality(DOMAIN sessions_) = next_session_ - 1
        <5>1. next_session_ - 1 \in Int /\ ~(1 > next_session_ - 1 + 1)
          BY <1>2
        <5>2. Cardinality(1 .. (next_session_ - 1)) =
                 IF 1 > next_session_ - 1 THEN 0 ELSE next_session_ - 1 - 1 + 1
          BY <5>1, FS_Interval
        <5> QED
          BY <1>2, <5>2
      <4>2. next_session_' \in 1 .. (max_sessions + 1)
        <5>1. next_session_ \in 1 .. (max_sessions + 1) /\ max_sessions \in Nat
          BY <1>2, SessionAssumption
        <5>2. next_session_' = next_session_ + 1 /\ next_session_ - 1 < max_sessions
          BY <3>1, <4>1, Zenon DEF IssueSession
        <5> QED
          BY <5>1, <5>2
      <4>3. DOMAIN sessions_' = 1 .. (next_session_' - 1)
        <5>1. next_session_ \in Nat \ {0} /\ DOMAIN sessions_ = 1 .. (next_session_ - 1)
          BY <1>2, SessionAssumption
        <5>2. /\ next_session_' = next_session_ + 1
              /\ DOMAIN sessions_' = DOMAIN sessions_ \cup {next_session_}
          BY <3>1, Zenon DEF IssueSession
        <5> QED
          BY <5>1, <5>2
      <4>4. sessions_' \in [DOMAIN sessions_' -> SessionRecord]
        BY <1>2, <3>1 DEF IssueSession, SessionRecord
      <4>5. bindings' \subseteq SessionBinding
        BY <1>2, <3>1 DEF IssueSession, SessionBinding
      <4> QED
        BY <1>2, <3>1, <4>2, <4>3, <4>4, <4>5, Zenon DEF IssueSession
    <3>2. CASE ~(Cardinality(DOMAIN sessions_) < max_sessions /\ IssueSession)
      BY <1>2, <2>5, <3>2, Zenon DEF open
    <3> QED
      BY <3>1, <3>2
  <2>6. ASSUME NEW id \in DOMAIN sessions_, close(id) PROVE TypeOK'
    BY <1>2, <2>6, Zenon DEF close, SessionRecord
  <2>7. ASSUME NEW b \in bindings, NEW seq \in RequestSeqs, authorise(b, seq) PROVE TypeOK'
    <3>1. seq \in Nat /\ b \in SessionBinding
      BY <1>2
    <3>2. sessions_' \in [DOMAIN sessions_ -> SessionRecord]
      BY <1>2, <2>7, <3>1, Zenon DEF authorise, Consume, Current, SessionRecord
    <3>3. ledger' \in Seq(LedgerEntry)
      <4>1. [binding |-> b, request_seq |-> seq, by |-> boot] \in LedgerEntry
        BY <1>2, <3>1 DEF LedgerEntry
      <4> QED
        BY <1>2, <2>7, <4>1 DEF authorise, Consume
    <3> QED
      BY <1>2, <2>7, <3>2, <3>3 DEF authorise, Consume
  <2>8. CASE shutdown
    BY <1>2, <2>8 DEF shutdown
  <2>9. CASE close_all
    BY <1>2, <2>9, Zenon DEF close_all, SessionRecord
  <2>10. CASE UNCHANGED vars
    BY <1>2, <2>10 DEF vars
  <2> QED
    BY <1>2, <2>1, <2>2, <2>3, <2>4, <2>5, <2>6, <2>7, <2>8, <2>9, <2>10, Zenon DEF Next
<1> QED
  BY <1>1, <1>2, NoHeaderUndurable, PTL DEF Spec

(* However requests are delayed, repeated or reordered over restarts, the   *)
(* ledger and the sessions agree: every reachable state satisfies both the  *)
(* ledger invariant and the two properties it carries.                      *)
THEOREM LedgerInvariant == Spec => [](LedgerInv /\ AuthorisedOnceInOrder)
<1> USE DEF LedgerInv, AuthorisedOnceInOrder
<1>1. Init => LedgerInv /\ AuthorisedOnceInOrder
  BY DEF Init
<1>2. ASSUME TypeOK, TypeOK', LedgerInv, AuthorisedOnceInOrder, [Next]_vars
      PROVE  (LedgerInv /\ AuthorisedOnceInOrder)'
  <2>0. /\ boot \in Nat
        /\ ledger \in Seq(LedgerEntry)
        /\ \A i \in DOMAIN ledger : ledger[i] \in LedgerEntry
        /\ \A b \in bindings : b \in SessionBinding
    BY <1>2 DEF TypeOK
  <2>1. CASE Boot
    <3>1. \A i \in DOMAIN ledger : ledger[i].by <= boot' /\ ledger[i].by # boot'
      BY <1>2, <2>0, <2>1 DEF Boot, LedgerEntry
    <3>2. \A b \in bindings : b.boot <= boot'
      BY <1>2, <2>0, <2>1 DEF Boot, SessionBinding
    <3> QED
      BY <1>2, <2>1, <3>1, <3>2 DEF Boot
  <2>2. CASE Serve \/ Crash \/ open_session \/ shutdown \/ UNCHANGED vars
    BY <1>2, <2>2 DEF Serve, Crash, open_session, shutdown, vars
  <2>3. CASE open
    <3>1. next_session_ \notin DOMAIN sessions_
      BY <1>2 DEF TypeOK
    <3>2. CASE IssueSession
      <4>1. /\ UNCHANGED <<boot, ledger>>
            /\ bindings' = bindings \cup
                  {[session |-> next_session_, epoch |-> epoch, boot |-> boot]}
            /\ DOMAIN sessions_ \subseteq DOMAIN sessions_'
            /\ \A id \in DOMAIN sessions_ : sessions_'[id] = sessions_[id]
        BY <3>1, <3>2 DEF IssueSession
      <4>2. \A b \in bindings' : b.boot <= boot'
        BY <1>2, <2>0, <4>1
      <4>3. \A i \in DOMAIN ledger :
               ledger[i].by = boot =>
                  /\ ledger[i].binding.session \in DOMAIN sessions_'
                  /\ ledger[i].request_seq <=
                        sessions_'[ledger[i].binding.session].last_request_seq
        BY <1>2, <4>1
      <4> QED
        BY <1>2, <4>1, <4>2, <4>3
    <3>3. CASE UNCHANGED <<boot, sessions_, bindings, ledger>>
      BY <1>2, <3>3
    <3> QED
      BY <2>3, <3>2, <3>3 DEF open
  <2>4. ASSUME NEW id \in DOMAIN sessions_, close(id) PROVE (LedgerInv /\ AuthorisedOnceInOrder)'
    <3>1. /\ DOMAIN sessions_' = DOMAIN sessions_
          /\ \A k \in DOMAIN sessions_ :
                sessions_'[k].last_request_seq = sessions_[k].last_request_seq
      BY <1>2, <2>4 DEF close, TypeOK, SessionRecord
    <3> QED
      BY <1>2, <2>4, <3>1 DEF close
  <2>5. CASE close_all
    <3>1. /\ DOMAIN sessions_' = DOMAIN sessions_
          /\ \A k \in DOMAIN sessions_ :
                sessions_'[k].last_request_seq = sessions_[k].last_request_seq
      BY <1>2, <2>5 DEF close_all, TypeOK, SessionRecord
    <3> QED
      BY <1>2, <2>5, <3>1 DEF close_all
  <2>6. ASSUME NEW b \in bindings, NEW seq \in RequestSeqs, authorise(b, seq)
        PROVE  (LedgerInv /\ AuthorisedOnceInOrder)'
    <3> DEFINE n == Len(ledger) + 1
               e == [binding |-> b, request_seq |-> seq, by |-> boot]
    <3>1. /\ b.session \in DOMAIN sessions_ /\ b.boot = boot
          /\ seq \in Nat
          /\ seq > sessions_[b.session].last_request_seq
          /\ ledger' = Append(ledger, e)
          /\ UNCHANGED <<boot, bindings>>
          /\ sessions_' = [sessions_ EXCEPT ![b.session].last_request_seq = seq]
      BY <2>6, SessionAssumption DEF authorise, Current, Consume
    <3>2. /\ DOMAIN ledger' = DOMAIN ledger \cup {n}
          /\ n \notin DOMAIN ledger /\ \A i \in DOMAIN ledger : i < n
          /\ ledger'[n] = e
          /\ \A i \in DOMAIN ledger : ledger'[i] = ledger[i]
      BY <2>0, <3>1
    <3>3. /\ DOMAIN sessions_' = DOMAIN sessions_
          /\ sessions_'[b.session].last_request_seq = seq
          /\ \A k \in DOMAIN sessions_ :
                /\ sessions_[k].last_request_seq \in Nat
                /\ sessions_'[k].last_request_seq \in Nat
                /\ sessions_[k].last_request_seq <= sessions_'[k].last_request_seq
      <4>1. sessions_ \in [DOMAIN sessions_ -> SessionRecord]
        BY <1>2 DEF TypeOK
      <4>2. \A k \in DOMAIN sessions_ : sessions_[k].last_request_seq \in Nat
        BY <4>1 DEF SessionRecord
      <4>3. /\ DOMAIN sessions_' = DOMAIN sessions_
            /\ sessions_'[b.session].last_request_seq = seq
            /\ \A k \in DOMAIN sessions_ : k # b.session => sessions_'[k] = sessions_[k]
        BY <3>1, <4>1 DEF SessionRecord
      <4> QED
        BY <3>1, <4>2, <4>3
    <3>4. LedgerInv'
      <4>1. ASSUME NEW i \in DOMAIN ledger', i # n
            PROVE  /\ ledger'[i].by <= boot
                   /\ ledger'[i].binding.boot = ledger'[i].by
                   /\ ledger'[i].by = boot =>
                         /\ ledger'[i].binding.session \in DOMAIN sessions_'
                         /\ ledger'[i].request_seq <=
                               sessions_'[ledger'[i].binding.session].last_request_seq
        <5>1. i \in DOMAIN ledger /\ ledger'[i] = ledger[i] /\ ledger[i].request_seq \in Nat
          BY <2>0, <3>2, <4>1 DEF LedgerEntry
        <5>2. /\ ledger[i].by <= boot
              /\ ledger[i].binding.boot = ledger[i].by
              /\ ledger[i].by = boot =>
                    /\ ledger[i].binding.session \in DOMAIN sessions_
                    /\ ledger[i].request_seq <=
                          sessions_[ledger[i].binding.session].last_request_seq
          BY <1>2, <5>1
        <5> QED
          BY <3>3, <5>1, <5>2
      <4>2. /\ e.by <= boot
            /\ e.binding.boot = e.by
            /\ e.binding.session \in DOMAIN sessions_'
            /\ e.request_seq <= sessions_'[e.binding.session].last_request_seq
        BY <2>0, <3>1, <3>3
      <4>3. ASSUME NEW i \in DOMAIN ledger'
            PROVE  /\ ledger'[i].by <= boot
                   /\ ledger'[i].binding.boot = ledger'[i].by
                   /\ ledger'[i].by = boot =>
                         /\ ledger'[i].binding.session \in DOMAIN sessions_'
                         /\ ledger'[i].request_seq <=
                               sessions_'[ledger'[i].binding.session].last_request_seq
        <5>1. CASE i = n
          BY <3>2, <4>2, <5>1
        <5>2. CASE i # n
          BY <4>1, <5>2
        <5> QED
          BY <5>1, <5>2
      <4>4. \A a \in bindings' : a.boot <= boot'
        BY <1>2, <3>1
      <4> QED
        BY <3>1, <4>3, <4>4
    <3>5. AuthorisedOnceInOrder'
      <4>1. ASSUME NEW i \in DOMAIN ledger, ledger[i].binding = b
            PROVE  ledger[i].request_seq < seq
        <5>1. ledger[i].by = boot /\ ledger[i].request_seq \in Nat
          <6>1. ledger[i] \in LedgerEntry /\ ledger[i].binding.boot = ledger[i].by
            BY <1>2, <2>0, <4>1
          <6> QED
            BY <3>1, <4>1, <6>1 DEF LedgerEntry
        <5>2. ledger[i].request_seq <= sessions_[b.session].last_request_seq
          BY <1>2, <4>1, <5>1
        <5> QED
          BY <3>1, <3>3, <5>1, <5>2
      <4>2. \A i, j \in DOMAIN ledger' : i < j => i \in DOMAIN ledger
        BY <2>0, <3>2
      <4>3. e.binding = b /\ e.request_seq = seq
        OBVIOUS
      <4> QED
        BY <1>2, <3>2, <4>1, <4>2, <4>3
    <3> QED
      BY <3>4, <3>5
  <2> QED
    BY <1>2, <2>1, <2>2, <2>3, <2>4, <2>5, <2>6 DEF Next
<1> QED
  BY <1>1, <1>2, SessionTypeCorrect, PTL DEF Spec

(* authorise: a request takes effect at most once, and the requests of one  *)
(* session take effect in the order of their numbers, over any restarts.    *)
THEOREM OnceInOrder == Spec => []AuthorisedOnceInOrder
BY LedgerInvariant, PTL

(* authorise: an incarnation acts only on bindings it issued itself.        *)
THEOREM ByIssuer == Spec => []AuthorisedByIssuer
<1>1. LedgerInv => AuthorisedByIssuer
  BY DEF LedgerInv, AuthorisedByIssuer
<1> QED
  BY <1>1, LedgerInvariant, PTL

(* Coordinator::open: with durability, two incarnations that issued         *)
(* sessions never share an epoch, wherever each of them crashed.            *)
THEOREM EpochsAreUnique == Spec => []EpochNamesIncarnation
<1> USE DEF EpochInv, EpochNamesIncarnation
<1>1. Init => EpochInv /\ EpochNamesIncarnation
  BY DEF Init
<1>2. ASSUME TypeOK, TypeOK', LedgerInv, EpochInv, EpochNamesIncarnation, [Next]_vars
      PROVE  (EpochInv /\ EpochNamesIncarnation)'
  <2>0. /\ boot \in Nat /\ epoch \in Nat /\ header \in Nat /\ header <= epoch
        /\ \A b \in bindings : b.epoch \in Nat /\ b.boot \in Nat /\ b.boot <= boot
    <3>1. boot \in Nat /\ epoch \in Nat /\ header \in 0 .. epoch
      BY <1>2 DEF TypeOK
    <3>2. \A b \in bindings : b \in SessionBinding /\ b.boot <= boot
      BY <1>2 DEF TypeOK, LedgerInv
    <3>3. \A b \in SessionBinding : b.epoch \in Nat /\ b.boot \in Nat
      BY DEF SessionBinding
    <3> QED
      BY <3>1, <3>2, <3>3
  <2>1. CASE Boot
    <3>1. enable_durability => header < epoch'
      BY <2>0, <2>1 DEF Boot
    <3>2. \A b \in bindings : b.boot < boot'
      BY <2>0, <2>1 DEF Boot
    <3> QED
      BY <1>2, <2>1, <3>1, <3>2 DEF Boot
  <2>2. CASE Serve
    <3>1. enable_durability =>
             /\ header' = epoch'
             /\ \A b \in bindings : b.epoch < epoch' /\ b.epoch <= header'
      BY <1>2, <2>0, <2>2 DEF Serve
    <3> QED
      BY <1>2, <2>2, <3>1 DEF Serve
  <2>3. CASE Crash
    <3>1. header <= header' /\ header' \in Nat
      BY <2>0, <2>3 DEF Crash
    <3>2. enable_durability => \A b \in bindings : b.epoch <= header'
      BY <1>2, <2>0, <3>1
    <3> QED
      BY <1>2, <2>3, <3>2 DEF Crash
  <2>4. CASE open_session
    BY <1>2, <2>4 DEF open_session
  <2>5. CASE open
    <3>1. CASE IssueSession
      <4> DEFINE new == [session |-> next_session_, epoch |-> epoch, boot |-> boot]
      <4>1. /\ bindings' = bindings \cup {new}
            /\ new.epoch = epoch /\ new.boot = boot
            /\ phase = "running"
            /\ UNCHANGED <<enable_durability, phase, boot, epoch, header>>
            /\ entering' = FALSE
        BY <1>2, <3>1 DEF IssueSession
      <4>2. enable_durability => header = epoch /\ epoch <= header
        BY <1>2, <2>0, <4>1
      <4>3. EpochInv'
        BY <1>2, <4>1, <4>2
      <4>4. enable_durability => \A b \in bindings : b.epoch = epoch => b.boot = boot
        BY <1>2, <2>0, <4>1
      <4> HIDE DEF new
      <4>5. EpochNamesIncarnation'
        BY <1>2, <4>1, <4>4
      <4> QED
        BY <4>3, <4>5
    <3>2. CASE UNCHANGED <<enable_durability, phase, boot, epoch, header, bindings>> /\ entering' = FALSE
      BY <1>2, <3>2
    <3> QED
      BY <2>5, <3>1, <3>2, Zenon DEF open
  <2>6. CASE \/ shutdown \/ close_all \/ UNCHANGED vars
             \/ \E id \in DOMAIN sessions_ : close(id)
             \/ \E b \in bindings, seq \in RequestSeqs : authorise(b, seq)
    <3>1. UNCHANGED <<enable_durability, phase, boot, epoch, header, entering, bindings>>
      BY <2>6, Zenon DEF shutdown, close_all, vars, close, authorise, Consume
    <3> QED
      BY <1>2, <3>1
  <2> QED
    BY <1>2, <2>1, <2>2, <2>3, <2>4, <2>5, <2>6 DEF Next
<1> QED
  BY <1>1, <1>2, SessionTypeCorrect, LedgerInvariant, PTL DEF Spec

(* shutdown and open_session: the flag is set without the state mutex, but  *)
(* however the two interleave at most one session outlives a shutdown.      *)
THEOREM OneOutlivesShutdown == Spec => []OneSessionOutlivesShutdown
<1>1. Init => ShutdownInv
  BY DEF Init, ShutdownInv
<1>2. ASSUME TypeOK, ShutdownInv, [Next]_vars PROVE ShutdownInv'
  <2>0. sessions_ \in [DOMAIN sessions_ -> SessionRecord]
    BY <1>2 DEF TypeOK
  <2>1. CASE Boot \/ shutdown \/ open_session
    BY <1>2, <2>1 DEF Boot, shutdown, open_session, ShutdownInv
  <2>2. CASE Serve \/ Crash \/ UNCHANGED vars
    BY <1>2, <2>2 DEF Serve, Crash, vars, ShutdownInv
  <2>3. CASE open
    <3>1. CASE IssueSession
      <4>1. /\ entering /\ ~entering' /\ shutdown_' = shutdown_
            /\ DOMAIN sessions_' = DOMAIN sessions_ \cup {next_session_}
            /\ \A i \in DOMAIN sessions_ : i # next_session_ => sessions_'[i] = sessions_[i]
        BY <3>1 DEF IssueSession
      <4> QED
        BY <1>2, <4>1 DEF ShutdownInv
    <3>2. CASE ~IssueSession
      <4>1. ~entering' /\ UNCHANGED <<sessions_, shutdown_>>
        BY <2>3, <3>2 DEF open
      <4> QED
        BY <1>2, <4>1 DEF ShutdownInv
    <3> QED
      BY <3>1, <3>2
  <2>4. ASSUME NEW id \in DOMAIN sessions_, close(id) PROVE ShutdownInv'
    <3>1. /\ DOMAIN sessions_' = DOMAIN sessions_
          /\ \A i \in DOMAIN sessions_ : sessions_[i].closed => sessions_'[i].closed
      BY <2>0, <2>4 DEF close, SessionRecord
    <3> QED
      BY <1>2, <2>4, <3>1 DEF close, ShutdownInv
  <2>5. ASSUME NEW b \in bindings, NEW seq \in RequestSeqs, authorise(b, seq) PROVE ShutdownInv'
    <3>1. /\ DOMAIN sessions_' = DOMAIN sessions_
          /\ \A i \in DOMAIN sessions_ : sessions_'[i].closed = sessions_[i].closed
      BY <2>0, <2>5 DEF authorise, Consume, SessionRecord
    <3> QED
      BY <1>2, <2>5, <3>1 DEF authorise, Consume, ShutdownInv
  <2>6. CASE close_all
    <3>1. /\ DOMAIN sessions_' = DOMAIN sessions_
          /\ \A i \in DOMAIN sessions_ : sessions_'[i].closed
      BY <2>0, <2>6 DEF close_all, SessionRecord
    <3> QED
      BY <3>1 DEF ShutdownInv
  <2> QED
    BY <1>2, <2>1, <2>2, <2>3, <2>4, <2>5, <2>6 DEF Next
<1>3. ShutdownInv => OneSessionOutlivesShutdown
  BY DEF ShutdownInv, OneSessionOutlivesShutdown
<1> QED
  BY <1>1, <1>2, <1>3, SessionTypeCorrect, PTL DEF Spec
=============================================================================
