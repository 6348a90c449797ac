# Switch Failover Fabric: TLA+ specifications

The Switch Failover Fabric (SFF) decides, when a switch generation fails, which
forwarding authority must be withdrawn, which reconstruction may replace it and when
service may be restored. Its promise is *fence first*: authority on a failed
generation is fenced, the fence is durable, and only then is anything rebuilt. These
modules specify that promise and the machinery below it, check it with TLC on small
instances and prove with TLAPS, for every size, the safety of all parts but the planner
and the documents.

## The system

A `SwitchKey` is a switch identity with a generation; authority is always for exact
generations.

| part | source | what it does | state |
|---|---|---|---|
| authority registry | `model/authority` | grants, permanent fences, the authority query | `AuthorityRegistry` |
| evidence | `model/evidence` | bounded, expiring observations; committed failures; `assess_switch` | `Evidence` |
| durable store | `persist/store`, `persist/records` | append-only journal, torn-tail recovery, compaction, snapshot | `DurableStore`, `Journal` |
| sessions | `runtime/session` | request sequences bound to an epoch and a boot digest | `SessionRegistry` |
| failover pipeline | `runtime/failover`, `runtime/coordinator` | failure → fence → plan → apply → verify → restore; restart | `Failover` |
| planner, validator | `plan/*` | candidate filtering, capacity, bounded search, reference solver, independent validation | `Planner`; the state-dependent checks in `Failover` too |
| topology | `model/topology` | snapshots, bounded dependency closure | `Topology` |
| frame server | `transport/server`, `transport/socket` | accept thread, worker pool, guarded sockets, stop | `FrameServer` |
| frames | `transport/frame` | framing, reassembly from any chunks | `FrameStream` |
| client, serving process | `transport/client`, `tools/sffctl` (`serve`) | shared blocking client, request sequences, close; handler and stop path | `Client` |
| documents | `codec/bytes`, `persist/records`, `transport/frame`, `plan/plan`, `runtime/policy` | canonical encodings with bounds | `Codec` |
| logs, core types, the rest of `sffctl` | `core`, `model/decision`, `tools` | value types, diagnostics, command line | not modelled |

The coordinator holds one state mutex over every public call, and calls into the
subsystems, each with a leaf lock. A call therefore interleaves with another call only
where it does not take that mutex: `shutdown`, and the registries when they are used
directly. What a call cannot exclude is a crash or a failed write at each record it
persists, and the passage of time. Those are the places where the modules split an
operation into several actions. The frame server is the one part with threads of its
own; it calls the coordinator through a handler and shares no lock with it. The client
has none, but may be shared by the threads of its caller.

## Modules

**`AuthorityRegistry`** — class `AuthorityRegistry`. Variables are its maps and
counters (`grants_`, `fences_`, the next identities) and the clock. One action per
operation: `grant`, `revoke`, `revoke_dependent`, `fence_generations`,
`commit_fence`, `expire_due`, `withdraw_all`, `restore_grant`, `restore_fence`,
`invalidate_pre_restart`. `declare_failure` calls `fence_generations` and then
`commit_fence`, two critical sections of the registry; no grant falls between them
because the coordinator's mutex is held, and the module keeps the intermediate state
visible. The expiry of a grant saturates at the end of the time axis, as in the code.

**`Evidence`** — `EvidenceStore`, `FailureTable` and `assess_switch`. A record is its
trust, its claim (failure, recovery, good health, recovering, administratively
unavailable, enabled, other), its observation time and its validity window; wrapped
expiry is kept (`% TimestampModulus`). History variables remember the latest failure
committed and the latest evidence that may clear one.

**`Journal`** and **`DurableStore`** — `Journal` is what `store.hpp` promises: a log
of records that grows by one published record at a time, survives crashes and may be
compacted. `DurableStore` is the file: items that may be short of cells, what is
forced to stable storage, the replay scan with its torn-tail rule, `append` split
between write and sync, `compact` and `write_snapshot` with their staging files.
`ImplementsJournal` is the refinement: the abstract log is the journal without the record
being written and without a last item that a crash cut short. A write may fail at any time; the history
variable `faulted` remembers that one did, and the promises that hold only until then
say so.

**`SessionRegistry`** — `SessionRegistry` with the parts of the coordinator that choose
the epoch and the boot identity, open sessions and shut down. The ledger records every
authorised request. `enable_durability` is chosen in the initial state, so one run
covers both configurations.

**`Topology`** — `TopologySnapshot`. `build` refuses malformed, contradictory, dangling
or oversized declarations and otherwise derives the dependency edges and their reverse
index; `closure` starts a traversal whose every queue and adjacency step is an action,
with both budgets. The code walks in canonical order, the model in any order.

**`Failover`** — the coordinator's calls over the journal. `durable` is the state that
replay of the journal rebuilds, since a later record about the same generation, plan
or step supersedes an earlier one; this is what `Journal` licenses as long as no append
fails. `declare_failure` is split at the failure record and the fence record, `apply_plan`
at the write-ahead record, each restore step, the receipt and the final plan record.
`Crash` may fall between any two of them, and any append may fail (`Failed`): before a byte
is written, in the middle of the record, or with the record written and not forced.
`damage` is what that leaves in the file. Behind a fragment or an unpublished record an
append succeeds (`Accepted`) and its record is not there after a restart, or no restart
accepts the file. The history variable `faulted` says that an append of this incarnation
has failed, `assured` holds what was acknowledged before one did, `acked` all fences
acknowledged, and `issued` the plans that minted authority. The durable promises are stated
for `assured`; stated for `acked`, as the documentation has them, they are violated. The
registry and the evidence are abstracted to what the pipeline reads: the active
grants, the fenced generations, and whether the fresh evidence about a generation is
bad, a later recovery, or absent. The planner's result is any set of admissible
restore steps. A plan decodes at replay when its lists are within `max_plan_steps` and the
rest of it, which `Codec` has field by field, fits (`Decodes`).

**`FrameServer`** — the accept thread, the workers, and the threads that stop the
server: its owner's (`"main"`), and a worker's when a handler calls `stop()`, which
gets `Busy`. Program counters (`accepter`, `worker`, `stopper`) stand between critical
sections and system calls. `handle_` and `closing_` are the guard of each connection,
`fds` is the process's descriptor table: an operation reads `handle_` without a lock
after `begin()`, then enters the system call, and `file` is what the descriptor named
at that moment. A peer connects, sends, reads or leaves by letting a call return.

**`Planner`** — `src/plan`. `Init` takes a scenario: a topology, a supply of
candidates, the planning policy, limits, failed and fenced generations.
`plan_reconstruction` builds the candidate table, admits alternatives, and assigns them
by the code's paths: the greedy one when capacity cannot bind, else branch and bound over
each component of demands that share capacity, under one budget of nodes. Then fences,
evidence, topology, supply and epoch may change, and `validate_plan` judges the plan in
the world as it is now. Sums of costs saturate at `UINT64_MAX`. The reference of
`ProvenPlanIsOptimal` is the set of all feasible assignments under the order of
`assignment_better`. The closure and the adjudication are inputs (`Topology`,
`Evidence`).

**`FrameStream`** — `encode_frame`, `decode_frame` and `FrameStreamDecoder`, as
operators. A stream is a sequence of cells (magic number, rest of the header, payload
units, trailer), so that a chunk may end anywhere a reader can tell; the decoder keeps
its buffer, its bound and its first failure.

**`Client`** — extends `FrameStream` with threads that share a client, a thread that
closes it, the two directions of a connection, the worker of the server that takes the
connection from the queue, with the handler of `sffctl serve`, and that process's main
thread. A call is split at the io mutex, the send, each receive and the adoption of the
answer (`Enter`, `Begin`, `Send`, `Receive`, `Decode`, `Adopt`), a close at the shutdown of
the socket and the closing of the handle. The connection may be refused at the limit
(`RefuseConnection`), wait in the queue while every worker is with another client
(`TakeConnection`), and end because another client's Goodbye stops the server
(`StopElsewhere`). The three payload bounds (the client's limit, its decoder's default, the
server's) differ, and a Hello, an acknowledgement, an Error, a request and a result have
sizes of their own: an Error, the one that replaces an answer beyond the bound included, may
itself be beyond it, and then the server closes the connection (`Respond`). A handler that
throws answers a Hello with an Error, before or after it has opened the session.

**`Codec`** — every document as the list of fields its encoder writes and the list its
decoder reads, each in its own order, with the widths, ranges, element counts and limits
of `ByteWriter` and `ByteReader`. A document is written, may lose its end or gain a byte
on its way, and is read (`Write`, `Shorten`, `Lengthen`, `Read`); the values written
are samples, one field at a time at its least, greatest and neighbouring values. It
shares no state with the other modules.

`MC...` modules give TLC the constants that a cfg cannot express. `MCRegistries` puts the
three registries and the documents into one run. No step of one depends on the state of
another, so a behaviour follows one of the four while the rest stay as they were at the
start, and the states reached are the union of those of four separate runs.

## Runs

Passing runs:

| run | cfg | checks |
|---|---|---|
| `registries` | `MCRegistries.cfg` | *authority*: no Active grant on a fenced generation; the query contract; nothing withdrawn becomes active again; identities are never minted twice. *evidence*: committed failures hold until later authoritative evidence; usable exactly when affirmed. *sessions*: requests authorised once and in order; a serving durable incarnation has its own epoch; at most one session outlives a shutdown. *documents*: they decode to what was encoded, damaged ones to nothing |
| `store` | `MCDurableStore.cfg` | whole snapshots; increasing sequence numbers and the refinement to `Journal` until a write fails; forced records behind whole records are never lost, with or without failures |
| `topology` | `MCTopology.cfg` | a closure not marked Truncated is exactly the affected set; both budgets; truncation only at a bound; every call returns |
| `planner` | `MCPlanner.cfg` | a plan called optimal is; a larger budget never gives a worse one, and none exceeds a capacity; the validator takes what the planner makes, and later only what is admissible then; proven reasons are |
| `failover` | `MCFailover.cfg` | fences acknowledged before an append failed hold over restarts; no authority behind a fence; no restore over a failure so acknowledged; write-ahead of what is applied; until an append fails, the fence is in the journal before reconstruction |
| `server` | `MCFrameServer.cfg` | one owner per connection; answers once and in order; a recycled handle reaches only a connection that is never served |
| `server_stop` | `MCFrameServerStop.cfg` | connection limit and open handles; no lost wakeup; a stop returns whatever the peers do |
| `client` | `MCClient.cfg` | an answer is for the caller's request; no request looks replayed; no frame of an adopted session is too large for the server; close releases every call; a call on a connection that a worker has taken returns unless the network falls silent; a Goodbye stops the server |

`TypeOK` (`AuthorityTypeOK`, `EvidenceTypeOK`) says what each variable holds. It is proved for `AuthorityRegistry` and
`SessionRegistry`, and the other proof modules prove the types they need; elsewhere it holds on the bounds of the runs when it is
added to their cfg, and is left out of them for the sake of the other properties.

Runs that end in a violation. Each states a sentence of the documentation, a comment
or a test, and TLC shows an execution of the code's model that contradicts it
(`findings` in `PROJECT.json` quotes the line and tells the execution):

| run | sentence | what happens |
|---|---|---|
| `failover_verified` | acknowledgement is distinguished from verified effect | the greatest replacement key decides, not the current one |
| `failover_fences` | a fence record is never removed | a short write leaves a fragment; a fence declared after it is acknowledged and cut off by the next open. Or: after a refused record the repeated call succeeds without writing one |
| `failover_order` | the fence is committed durably before any reconstruction | a fence whose record was refused stays in memory, where a plan is made and applied on it |
| `failover_plans` | a plan about to take effect must survive a crash | a plan with more steps than `max_plan_steps` is applied, and replay skips its record |

Other places where the modules follow the code and a sentence says more; no run is
kept for them:

- `README.md:109`, only a genuine torn tail is dropped: records behind the fragment of a
  failed append are dropped with it at the next open (`store.cpp:172`);
- `src/model/evidence.cpp:12`, "retention never silently changes the answer": a record
  that is not authoritative may evict the authoritative failure that outweighed good
  health (`UsableIffAffirmed` is about the records that are left);
- `src/plan/planning_core.cpp:524`, the per-demand minimum is the global optimum: not
  when the sum of costs saturates and hops break the tie (`ProvenPlanIsOptimal` then
  speaks of the number of dependents only);
- `src/plan/planning_core.cpp:634`: a dependent may be reported as blocked by capacity
  when `max_candidates_per_dependent` cut its alternatives short; the plan is not called
  proven then;
- `src/plan/plan.cpp:274` orders candidates by other fields than the planner's ties; which
  of two candidates that differ only in source survives depends on an unstable sort;
- the planner looks at no links: a candidate over an unknown link is planned and then
  rejected by the validator (`PlannerOutputValidates` excepts it);
- `src/transport/client.cpp:158`: the client's decoder keeps the default limits, whatever
  limits `connect` was given, so a result the server may send can end the connection;
- `src/transport/server.cpp:173`, "so the peer always gets exactly one definite response": the
  Error that replaces an answer beyond the bound may be beyond it too, and the server then
  closes the connection (`CallsReturn` is what holds);
- `src/transport/client.cpp:230`: a handshake that ends after `close` leaves
  `handshaken()` true; its calls are refused all the same;
- readers of the stream header check neither tag nor end, and the codes of an
  apply receipt and a restore decision are not checked for their range;
- `include/sff/persist/store.hpp:63`: after a failed append a sequence number is used
  again (`SequencesIncrease` is stated for executions without one);
- `tests/test_persistence.cpp:1679`: the journal's record count restarts at every open;
- `README.md:92`: the supersession of plans by a fence is not persisted;
- `README.md:96`: rejected plans are retained without making room;
- `README.md:94`: a fenced generation is refused new grants after its recovery as well;
- `include/sff/model/evidence.hpp:106`: an administrative enablement clears a failure;
- `src/runtime/coordinator.cpp:507`, "sessions invalidated at shutdown": an
  `open_session` in progress adds one after `close_all` (`OneSessionOutlivesShutdown` is
  what holds);
- `docs/CONCURRENCY_AUDIT.md:91`, "Superseded plans are retained as history and are not
  applicable": `apply_plan` revalidates the plan and does not look at its state;
- `src/transport/socket.hpp:17`, "a recycled handle value can never be observed": it can,
  when stop closes a handle between a worker's `begin()` and its system call and the
  accept thread is given the same number (`RecycledHandleIsNeverServed` is what holds);
- `docs/CONCURRENCY_AUDIT.md:104`: `stop` closes the listener after joining, not before;
- `include/sff/model/topology.hpp:155`: a traversal stopped in the middle of a node does
  not count that node's unexamined entries in `omitted_edges`.

## Bounds

- `AuthorityRegistry`: two generations, one or two dependents, a short time axis whose
  end is reached, so that expiry saturates; limits small enough to be hit.
- `Evidence`: one subject (adjudication never looks at another one), a retention of two
  records so that eviction happens, three times and a window of one, so that records lapse
  and the last expiry wraps, four policies: the default and each switch that changes the
  order of the rules.
- `DurableStore`: two record kinds of different length, headers of two cells, so that
  a write tears inside the header and inside the body; enough items for a fragment, a
  record behind it and one more.
- `SessionRegistry`: three boots, two sessions, request numbers from zero to two; one crash before
  the header record is written and one after it.
- `Topology`: two switch generations, a link, a path and a service; every subset of five
  explicit edges, among them cycles between dependents and through a switch; repeated,
  contradictory, dangling and empty declarations; budgets below, at and above the size
  of the graph; a root the snapshot does not hold.
- `FrameServer`: two workers, two connections, two handles. `server` has two requests
  per connection, so that two workers could answer in the wrong order, and uses the
  symmetry of workers, connections and handles (it checks invariants only);
  `server_stop` has a limit of one connection, so that a second one is refused, and no
  symmetry. Two accept errors in a row end the loop. Each thread calls `stop` once.
- `Planner`: three dependents that compete for the capacity of two switches, with
  budgets that end the search early, in the middle and not at all; every single way in
  which an alternative is inadmissible; sums of costs that saturate (at 4); two changes of
  the world after planning.
- `Client`: two threads, three calls, two sequence numbers, so that they run out; a Hello, a
  request, a result and an Error within and beyond the server's bound of 2, results beyond
  the client's decoder's bound of 1. A Hello beyond the client's own bound of 3 is left to
  the proofs. `Codec`: lists of up to one element more than `max_plan_steps` (2), and a
  writer limit (320) that some of these plans exceed.
- `Failover`: two generations of which a plan targets one at a time (`Targets`), one
  dependent, two fences and two grants, one plan per incarnation, one restart, recovery
  reported of the generation that carries the dependent (`Reports`). Any append of the first
  incarnation may fail (`FaultyEpochs`), any number of times; what a second faulty
  incarnation does is left to the proofs. The hazards listed need one restart and a plan on
  either side of it. An apply that stops between two dependents' steps, and a plan that does
  not decode, are outside this bound (`Fits`, `max_plan_steps`); the run `failover_plans` has
  both. Generations are ordered, because the restore decision depends on the order, so no
  symmetry is used.

## Assumptions

A write tears at a cell boundary and a crash keeps a prefix of what was not forced;
what survived one crash survives the next. A rename is atomic and durable. A CRC
distinguishes every whole record from anything else. Boot digests of different
incarnations differ. In `FrameServer`, only the server opens handles in its process, a
listener reported readable has a connection to accept, and shutting a connection down
makes a blocked `recv` or `send` on it return. One thread at a time owns the server and
calls `stop` from outside. In `Client` a connection delivers what was sent, in order and in
any chunks, until it falls silent for good; a reset may overtake data; a Hello may be
refused because of other clients' sessions, and other clients may keep every worker; handles
are not reused (`FrameServer` is about that). A digest stands for the document it is taken of.

Fairness: `Topology` assumes weak fairness of the traversal's steps. It is one thread's
loop without waiting, so it keeps running until it returns. `FrameServer`
assumes weak fairness of each thread, that is, that the scheduler runs what can run and
that a handler returns. Nothing is assumed of a peer: the return of `recv` with data, of
`send`, and of `poll` with a connection may never come, and only a closed connection or
the wakeup byte is certain to release a thread. A fair mutex is not needed, since a
critical section is one step. `Client` assumes weak fairness of a
caller's thread inside the library, of the closing of the handle, of a worker that has the
connection and of the main thread: none of them waits for anything but a lock, data or the
end of the connection. It assumes nothing of the queue: `run_serve` has two workers for
sixteen connections, no operation has a time limit, and so a connection may stay queued for
ever behind clients that keep theirs open. `CallsReturn` excepts exactly that and a silent
network. Nobody has to call, close, stop the server or fail. The
io mutex need not be fair, since the calls are bounded. The other modules assume none and state no liveness:
their calls run to completion under one mutex.

## Proofs

Each proof module extends the module it is about. A theorem carries the name of the run's
property in its statement; the invariants below are the strengthenings it needs.

**`AuthorityRegistryProofs`**, for any set of generations, dependents, limits and any
length of the time axis:

- `TypeCorrect`: `AuthoritySpec => []AuthorityTypeOK`;
- `FencedNeverActive`: `AuthoritySpec => []NoActiveGrantOnFencedGeneration`;
- `WithdrawnForever`: a grant that is not Active never becomes Active again;
- `FreshIdentities`: a minted grant has an identity no grant, live or restored, has;
- `QueryIsContract`: `AuthoritySpec => []QueryMatchesContract`. The code asks whether any generation
  of any active grant is fenced, the contract whether one active grant has none that is.
  They agree because no active grant has a fenced generation at all (`RegistryInv`). A fenced
  grant is always explained by a generation, because none binds nothing (`GrantsBind`).

The inductive invariant is `RegistryInv`. `NoActiveGrantOnFencedGeneration` is not
inductive alone: between `fence_generations` and `commit_fence` the generation has no
fence yet, and the step that commits it needs to know that no Active grant binds the
generation in progress. `FreshIdentities` needs every identity in the registry to be
below the next one, which `restore_grant` keeps by moving the counter. Assumptions are
those of `RegistryAssumption`.

**`FailoverProofs`**, for any generations, dependents, topologies, candidates, limits,
and any number of plans, restarts and failed appends: each invariant of the run
`failover`.

- `FencesSurvive`, `FencedCarryNothing`, `RestoresAvoidFailures`, `FencedFirst`: from
  `PipelineInv`. What was acknowledged is not inductive: the argument is about three
  copies of a fence. Until an append fails, the journal is undamaged (`JournalSound`) and a
  fence in memory is in it, except the one being written; afterwards too, a fence in the
  journal is in memory while the coordinator runs, and what was assured to callers is in
  the journal (`FencesOnRecord`; `FailuresOnRecord` is the same for failures). An append that
  fails, or that lands behind the damage of one, takes nothing away (`FailedAppends`,
  `AcceptedAppends`). Grants avoid the fences in memory (`GrantsUnfenced`), and a plan is
  validated while no fence is half made, so that the fences of a plan being applied are in
  the journal (`EffectsFenced`);
- `WrittenAhead`: from `WriteAheadInv`. Plan identities start again at every restart, so a
  record may belong to another plan of the same identity. Within an epoch an identity is
  given once, replayed plans are of earlier epochs, and a change of state leaves
  identity, epoch and restores alone; the plan in flight, if it decodes and the journal is
  undamaged, is in the journal as Applying, and the outcome of each of its steps is to
  come, in the receipt, or durable.

Assumptions are those of `FailoverAssumption`, and what the module takes from
`DurableStore`: a record accepted by an undamaged journal is replayed.

**`EvidenceProofs`**, for any subjects, policies, retention, windows and histories:

- `FailureHolds`: `EvidenceSpec => []DurableFailureHolds`. From `FailureInv`: the table holds the
  latest failure committed, whatever the order they came in, and no retained recovery or
  enablement is later than the latest one admitted, since eviction only removes records;
- `UsableIsAffirmed`: `EvidenceSpec => []UsableIffAffirmed`. Type correctness of the records is
  enough: the order of the rules of `assess_switch` and the maxima it compares amount to
  the property's reading by quantifiers. `LatestIs` is the lemma about the maxima.

**`DurableStoreProofs`**, for any record kinds and lengths, limits and documents, and
crashes and failed writes anywhere:

- `SnapshotWhole`: `SnapshotNeverTorn`, from `SnapshotInv`: what is renamed into place was
  forced, and what is forced is whole;
- `StableKept`: `ForcedPrefixKept`. The scan of `open` accepts exactly the items before
  the first one that does not follow (`ScanStops`), and a crash keeps what is forced;
- `SequencesGrow` and `JournalImplemented`: `SequencesIncrease` and `ImplementsJournal`, from
  `LogInv`, which speaks of executions without a failed append: numbers are contiguous, all
  items but a last one cut short are whole, all but the one being written are forced, the
  next number continues the last record, and the staged journal of a compaction is a suffix
  of the journal. The refinement is proved action by action: `append`'s write, its sync, a
  crash, `open` and the compaction's rename are the steps of `Journal`, and the rest
  stutters. The fragment that `open` cuts off was never part of the abstract log.

**`FrameServerProofs`**, for any number of workers, connections, handles and requests, and
any mixture of threads that stop the server. The invariant is a tower, each layer proved
from those below it:

- `Types`: types, and what a program counter says of its thread's locals;
- `Owners`: a connection has not arrived, is the accept thread's, or is live, and then is
  queued at one place or served by one worker. `OneOwner` (`ConnectionHasOneOwner`) follows;
- `HandlesInv`: the descriptor table and the connections' handles are inverse to each other;
  a closing connection has none. With `LiveInv`, `HandlesAccounted`
  (`HandlesAreAccountedFor`) follows;
- `RecycledInv`: a worker past `begin()` holds a handle that is still its connection's,
  unless the server is stopping. Then the handle may name a connection accepted since, and
  that one is never admitted. `RecycledNotServed` (`RecycledHandleIsNeverServed`) follows;
- `AnswersInv`: a connection has at most one request without an answer, which its worker
  holds. It needs `RecycledInv`: an answer written to a foreign connection would be out of
  order there. `InOrderAnswers` (`AnswersInOrder`) follows.

Assumptions are those of `ServerAssumption`.

**`ClientProofs`**, for any number of threads, calls and sequence numbers, any payload
bounds on either side, any chunks, and a connection that is closed, falls silent or dies
with its server anywhere:

- `AnswersReachTheirRequests`: `Spec => []AnswerIsForTheRequest`;
- `RequestsAreNeverReplays`: `Spec => []ServerNeverSeesReplay`;
- `FramesAreAccepted`: `Spec => []ServerAcceptsEveryFrame`.

None of the three is inductive. `round_trip` returns the next frame and compares no
sequence, so the invariant has to say what can be on the connection at all (`Inv`):

- `CallInv`: only the holder of the io mutex is inside a round trip. Its request is
  numbered, and a query names a session the server opened;
- `SessionInv`: the adopted session is one the server opened, and sessions have seen only
  sequences that were handed out;
- `ServerInv`: the server is quiet or has one request, whole (`Serves`): cut anywhere
  between the wire and its decoder (`Carries`), with the handler, or answered and not yet
  sent. A request that the client has given up on counts too;
- `StreamInv`: a waiting thread's request is with the server and nothing is on the way
  back, or the server is quiet and the cells on the way back are those of the one answer.
  On an open connection where nobody waits there is nothing in either direction, and the
  sequence about to be sent is above all that a session has seen (`Fresh`). A round trip
  that fails closes the connection, which is why a late answer has no next caller to reach.

`FramesAreAccepted` rests on a second invariant on top of it. A Hello is sent before any
bound is agreed and may be beyond the server's, so the decoder may refuse it. `Agreed`: a
client with a session keeps to the server's bound. `Early`: while a frame beyond the bound is
in the server's decoder or on its way there, and ever after one was refused, no session has
been adopted and none is on its way, since the server leaves without an answer.

`Moves`, `Encodes`, `DecodesNothing` and `DecodesFrame` are the lemmas about the stream: a chunk
that moves into a decoder keeps the frame whole, and `next` on a part of one sound frame
asks for more, hands out the frame and leaves nothing, or refuses it for its size alone.
Assumptions are those of `ClientAssumption`; that the server's bound is not zero is what
`Limits::validate` demands before the server runs. `FramesAreAccepted` needs it: a client
takes a bound of zero for none (`client.cpp:231`).

**`TopologyProofs`**, for any declarations, budgets and roots, cyclic or not:

- `ClosureExact`: `Spec => []NoSilentOmission`. A closure reported Empty or Complete is
  exactly the least set that holds the roots and, with a node, its dependents;
- `NothingUnrelated`: `Spec => []MembersAreAffected`, truncated closures included;
- `BudgetsRespected`: `Spec => []BudgetsHold`, for finite sets of roots. The members are
  finite at every step and grow by one, with the node budget not reached;
- `TruncatedAtABound`: `Spec => []TruncatedOnlyAtABound`. The entries counted are edges, no
  edge is counted twice, because a node leaves the queue once (`ExaminedInv`), and each
  ends in an affected node; so a counter at its bound shows as many of them. Only this
  theorem uses `FiniteDefinitionsAssumption`: declarations are finite (vectors in the code).

The invariant is `ClosureInv`. `NoSilentOmission` says nothing of a traversal in
progress; `Covered` does: a member is queued, or all that depends on it is a member or
about to be examined. When the queue and the entries run out, the members are closed,
and `AffectedLeast` gives the inclusion. `IndexExact` is the lemma that the reverse
index and the declared edges agree.

**`SessionRegistryProofs`**, for any number of incarnations, sessions and requests:

- `SessionTypeCorrect`: `Spec => []TypeOK`. `TypeOK` is not inductive alone: that a boot
  never falls behind the header needs `HeaderInv`, no header without durability;
- `OnceInOrder` and `ByIssuer`: `AuthorisedOnceInOrder` and `AuthorisedByIssuer`, from
  `LedgerInv`: what the current incarnation authorised is at or below the session's
  `last_request_seq`, and what an earlier one authorised is bound to that one;
- `EpochsAreUnique`: `EpochNamesIncarnation`, from `EpochInv`: every binding's epoch is
  at or below the durable header, and an incarnation being opened is above it;
- `OneOutlivesShutdown`: `OneSessionOutlivesShutdown`, from `ShutdownInv`: after `close_all`
  every session is closed as long as an `open_session` that had entered is still to add its
  own, and none enters after it.

Assumptions are those of `SessionAssumption`, and the uniqueness of boot digests.

The proof system has no induction over data that a proof can instantiate, but a set of
natural numbers that is not empty has a least member (`Least`, from the library's theorems
on well-founded relations), and that is how the loops of `store.cpp` and the maxima of
`evidence.cpp` are reasoned about.

Model-checked only, on the bounds above:

- liveness (`ClosureReturns`, `AdmittedIsServed`, `StopReturns`, `CloseReleasesCalls`,
  `CallsReturn`, `GoodbyeStops`): fairness is out of the proof system's reach;
- the planner (`AcceptedPlanIsAdmissibleNow`, `PlannerOutputValidates`, `BudgetOnlyHelps`,
  `ProvenPlanIsOptimal`, `CertificatesHold`) and the documents
  (`DecodesWhatWasEncoded`): recursive definitions, which take the provers away from every
  module that uses them.

## Not modelled

- Digests, identities, error texts and clocks: value types and pure functions.
- Decision and event logs: nothing reads them back but diagnostics.
- Policies installed at run time: a policy is constant in a behaviour.
- Truncated closures in `Failover`: `Topology` and `Planner` have them, `Failover` takes the
  closure as complete.
- The commands of `sffctl` other than `serve`: argument parsing around one call each.
- `shutdown` appending its record beside a call that has passed its running check
  (`coordinator.cpp:498`): the store has no lock of its own, so two appends at once are
  undefined. The sessions' side of this race is in `SessionRegistry`.
- `FailureTable::supersede`, `FrameStreamDecoder::reset`, `ByteWriter::blob` and the replay
  of `GrantMinted` have no caller or writer in the source; the registry's side of the
  last, `restore_grant`, is modelled because it is public.
