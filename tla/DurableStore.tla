---------------------------- MODULE DurableStore ----------------------------
(***************************************************************************)
(* The journal and the snapshot on disk: class DurableStore of             *)
(* src/persist/store.cpp with the record framing of src/persist/records.cpp. *)
(*                                                                         *)
(* The journal file is a sequence of items.  An item is what one append    *)
(* left behind: the leading `have` cells of a record of Total(kind) cells. *)
(* A cell is a fixed number of bytes; the header takes HeaderCells of them *)
(* (so a write can tear inside the header, and inside the body), and a     *)
(* complete record whose bytes are not its own fails its CRC.  `at` is the *)
(* position of the item in the file.                                       *)
(*                                                                         *)
(* A crash keeps what was forced to stable storage and some prefix of what *)
(* was written after it.  A write, a sync or a rename may also fail while  *)
(* the process lives on (full disk, I/O error).                            *)
(***************************************************************************)
EXTENDS Integers, Sequences

CONSTANTS
    RecordKinds,          \* RecordKind
    BodyCells,            \* payload and payload CRC of a record of each kind
    max_journal_records,  \* Limits::max_journal_records
    Documents,            \* snapshot documents
    MaxItems,             \* bound: items in the journal
    MaxSeq                \* bound: sequence numbers

ASSUME StoreAssumption ==
    /\ BodyCells \in [RecordKinds -> Nat \ {0}]
    /\ max_journal_records \in Nat \ {0}
    /\ MaxItems \in Nat
    /\ MaxSeq \in Nat

VARIABLES
    file,             \* the journal on disk
    stable,           \* how many leading items are on stable storage
    open,             \* DurableStoreImpl::open
    next_sequence,
    records_written,
    writing,          \* append is between its write and its sync
    staging,          \* <<>>, or <<the rewritten journal>> during compact()
    snapshot,         \* <<>>, or <<the live snapshot>>
    snapshot_staging, \* <<>>, or <<the staged snapshot>>
    faulted           \* history: an append has failed

vars == <<file, stable, open, next_sequence, records_written, writing, staging,
          snapshot, snapshot_staging, faulted>>

HeaderCells == 2
Total(kind) == HeaderCells + BodyCells[kind]

Item == [at : Nat, seq : Nat \ {0}, kind : RecordKinds, have : Nat \ {0}]

End(f) == IF f = <<>> THEN 0 ELSE f[Len(f)].at + f[Len(f)].have

SnapshotFile == [doc : Documents, forced : BOOLEAN, torn : BOOLEAN]

Optional(S) == {<<>>} \cup {<<x>> : x \in S}

TypeOK ==
    /\ file \in Seq(Item)
    /\ \A i \in 1..Len(file) :
          /\ file[i].have <= Total(file[i].kind)
          /\ file[i].at = End(SubSeq(file, 1, i - 1))
    /\ stable \in 0..Len(file)
    /\ open \in BOOLEAN
    /\ next_sequence \in Nat \ {0}
    /\ records_written \in 0..max_journal_records
    /\ writing \in BOOLEAN
    /\ writing => open /\ file # <<>>
    /\ staging = <<>> \/ \E f \in {staging[1]} : staging = <<f>> /\ f \in Seq(Item)
    /\ snapshot \in Optional(SnapshotFile)
    /\ snapshot_staging \in Optional(SnapshotFile)
    /\ faulted \in BOOLEAN
-----------------------------------------------------------------------------
(* replay(): scan the file up to the first item that is not acceptable. *)

Whole(i) == file[i].have = Total(file[i].kind)

\* Continuity is anchored on the first record present.
InSequence(i) == file[i].seq = file[1].seq + i - 1

Acceptable(i) == Whole(i) /\ InSequence(i) /\ i <= max_journal_records

\* The number of records the scan materialises.
Scanned ==
    CHOOSE n \in 0..Len(file) :
        /\ \A i \in 1..n : Acceptable(i)
        /\ n = Len(file) \/ ~Acceptable(n + 1)

\* The cells from item i to the end of the file.
Rest(i) == End(file) - file[i].at

\* The scan stops at a record that is short for want of file, not of content: a
\* header cut short by the end of the file, or a good header that declares more
\* than the file holds.  Whatever items follow are taken for its body.
TornTail ==
    /\ Scanned < Len(file)
    /\ LET i == Scanned + 1
       IN  ~Whole(i) /\ Rest(i) < IF file[i].have < HeaderCells THEN HeaderCells
                                  ELSE Total(file[i].kind)

Refused == Scanned < Len(file) /\ ~TornTail

ScanOutcome == IF Refused THEN "refused" ELSE IF TornTail THEN "torn" ELSE "complete"

LastSequence == IF Scanned = 0 THEN 0 ELSE file[Scanned].seq
-----------------------------------------------------------------------------
OpenDroppingOneMore ==
    /\ ~open
    /\ ScanOutcome # "refused"
    /\ file' = SubSeq(file, 1, IF TornTail THEN Scanned - 1 ELSE Scanned)
    /\ stable' = IF stable <= Len(file') THEN stable ELSE Len(file')
    /\ next_sequence' = LastSequence + 1
    /\ records_written' = 0
    /\ open' = TRUE
    /\ staging' = <<>>
    /\ UNCHANGED <<writing, snapshot, snapshot_staging, faulted>>

\* open(): replay, drop the torn tail, position at the end.  A refused scan
\* leaves the file as it is and yields no store.
open_store ==
    /\ ~open
    /\ ScanOutcome # "refused"
    /\ file' = SubSeq(file, 1, Scanned)
    /\ stable' = IF stable <= Scanned THEN stable ELSE Scanned
    /\ next_sequence' = LastSequence + 1
    /\ records_written' = 0
    /\ open' = TRUE
    /\ staging' = <<>>
    /\ UNCHANGED <<writing, snapshot, snapshot_staging, faulted>>

\* append(), up to and including fwrite.
append(kind) ==
    /\ records_written < max_journal_records
    /\ open /\ ~writing /\ staging = <<>>
    /\ Len(file) < MaxItems /\ next_sequence <= MaxSeq
    /\ file' = Append(file, [at |-> End(file), seq |-> next_sequence, kind |-> kind,
                             have |-> Total(kind)])
    /\ writing' = TRUE
    /\ UNCHANGED <<stable, open, next_sequence, records_written, staging, snapshot,
                   snapshot_staging, faulted>>

PublishUnsynced ==
    /\ writing
    /\ next_sequence' = next_sequence + 1
    /\ records_written' = records_written + 1
    /\ writing' = FALSE
    /\ UNCHANGED <<file, stable, open, staging, snapshot, snapshot_staging, faulted>>

\* The rest of append(): the bytes are forced to stable storage, then the record
\* counts as published.
publish ==
    /\ writing
    /\ stable' = Len(file)
    /\ next_sequence' = next_sequence + 1
    /\ records_written' = records_written + 1
    /\ writing' = FALSE
    /\ UNCHANGED <<file, open, staging, snapshot, snapshot_staging, faulted>>

\* The file after its last item has lost all but `have` of its cells.
Shortened(f, have) ==
    IF have = 0 THEN SubSeq(f, 1, Len(f) - 1)
    ELSE [f EXCEPT ![Len(f)].have = have]

\* The write was short or could not be forced: append() returns IoError and
\* leaves in the file whatever part of the record reached it.
append_failed ==
    /\ writing
    /\ \E have \in 0..file[Len(file)].have : file' = Shortened(file, have)
    /\ writing' = FALSE
    /\ faulted' = TRUE
    /\ UNCHANGED <<stable, open, next_sequence, records_written, staging, snapshot,
                   snapshot_staging>>

sync ==
    /\ open /\ ~writing
    /\ stable < Len(file)
    /\ stable' = Len(file)
    /\ UNCHANGED <<file, open, next_sequence, records_written, writing, staging,
                   snapshot, snapshot_staging, faulted>>

close ==
    /\ open /\ ~writing /\ staging = <<>>
    /\ stable' \in {Len(file), stable}
    /\ open' = FALSE
    /\ UNCHANGED <<file, next_sequence, records_written, writing, staging, snapshot,
                   snapshot_staging, faulted>>

AfterCrash(s) ==
    {s} \cup {<<[s[i] EXCEPT !.torn = TRUE]>> : i \in {j \in DOMAIN s : ~s[j].forced}}

\* The process or the machine stops: the unforced end of each file may be lost.
Crash ==
    /\ \E n \in stable..Len(file) :
          \/ file' = SubSeq(file, 1, n)
          \/ /\ n < Len(file)
             /\ \E have \in 1..file[n + 1].have :
                    file' = Shortened(SubSeq(file, 1, n + 1), have)
    /\ stable' = Len(file')
    /\ open' = FALSE
    /\ writing' = FALSE
    /\ staging' = <<>>
    /\ snapshot' \in AfterCrash(snapshot)
    /\ snapshot_staging' = <<>>
    /\ UNCHANGED <<next_sequence, records_written, faulted>>
-----------------------------------------------------------------------------
(* compact(): rewrite the journal with the given records, here a suffix of *)
(* the ones the journal holds, in a staging file that replaces it.         *)

CompactStage(n) ==
    /\ open /\ ~writing /\ staging = <<>>
    /\ ScanOutcome = "complete"
    /\ n \in 0..Len(file)
    /\ staging' = <<[i \in 1..(Len(file) - n) |->
                       [file[n + i] EXCEPT !.at = @ - file[n + 1].at]]>>
    /\ UNCHANGED <<file, stable, open, next_sequence, records_written, writing,
                   snapshot, snapshot_staging, faulted>>

CompactKeepingSequence ==
    /\ staging # <<>>
    /\ file' = staging[1]
    /\ stable' = Len(staging[1])
    /\ next_sequence' = 1
    /\ records_written' = Len(staging[1])
    /\ staging' = <<>>
    /\ UNCHANGED <<open, writing, snapshot, snapshot_staging, faulted>>

CompactReplace ==
    /\ staging # <<>>
    /\ file' = staging[1]
    /\ stable' = Len(staging[1])
    /\ next_sequence' = IF staging[1] = <<>> THEN 1
                         ELSE staging[1][Len(staging[1])].seq + 1
    /\ records_written' = Len(staging[1])
    /\ staging' = <<>>
    /\ UNCHANGED <<open, writing, snapshot, snapshot_staging, faulted>>

\* Staging could not be written; or it was, and the old file could not be
\* replaced; or it was replaced and could not be reopened.
compact_failed ==
    /\ staging # <<>>
    /\ \/ UNCHANGED <<file, stable, open>>
       \/ open' = FALSE /\ UNCHANGED <<file, stable>>
       \/ open' = FALSE /\ file' = staging[1] /\ stable' = Len(staging[1])
    /\ staging' = <<>>
    /\ UNCHANGED <<next_sequence, records_written, writing, snapshot,
                   snapshot_staging, faulted>>
-----------------------------------------------------------------------------
(* write_snapshot(): staging file, forced to stable storage, then renamed. *)

SnapshotStage(doc) ==
    /\ open /\ snapshot_staging = <<>>
    /\ snapshot_staging' = <<[doc |-> doc, forced |-> FALSE, torn |-> FALSE]>>
    /\ UNCHANGED <<file, stable, open, next_sequence, records_written, writing,
                   staging, snapshot, faulted>>

SnapshotForce ==
    /\ snapshot_staging # <<>>
    /\ ~snapshot_staging[1].forced
    /\ snapshot_staging' = [snapshot_staging EXCEPT ![1].forced = TRUE]
    /\ UNCHANGED <<file, stable, open, next_sequence, records_written, writing,
                   staging, snapshot, faulted>>

SnapshotRenameUnforced ==
    /\ snapshot_staging # <<>>
    /\ snapshot' = snapshot_staging
    /\ snapshot_staging' = <<>>
    /\ UNCHANGED <<file, stable, open, next_sequence, records_written, writing,
                   staging, faulted>>

SnapshotRename ==
    /\ snapshot_staging # <<>>
    /\ snapshot_staging[1].forced
    /\ snapshot' = snapshot_staging
    /\ snapshot_staging' = <<>>
    /\ UNCHANGED <<file, stable, open, next_sequence, records_written, writing,
                   staging, faulted>>

\* The staging file could not be written or renamed; it is removed.
SnapshotFailed ==
    /\ snapshot_staging # <<>>
    /\ snapshot_staging' = <<>>
    /\ UNCHANGED <<file, stable, open, next_sequence, records_written, writing,
                   staging, snapshot, faulted>>
-----------------------------------------------------------------------------
Init ==
    /\ file = <<>>
    /\ stable = 0
    /\ open = FALSE
    /\ next_sequence = 1
    /\ records_written = 0
    /\ writing = FALSE
    /\ staging = <<>>
    /\ snapshot = <<>>
    /\ snapshot_staging = <<>>
    /\ faulted = FALSE

Next ==
    \/ open_store
    \/ \E kind \in RecordKinds : append(kind)
    \/ publish
    \/ append_failed
    \/ sync
    \/ close
    \/ Crash
    \/ \E n \in 0..Len(file) : CompactStage(n)
    \/ CompactReplace
    \/ compact_failed
    \/ \E doc \in Documents : SnapshotStage(doc)
    \/ SnapshotForce
    \/ SnapshotRename
    \/ SnapshotFailed

Spec == Init /\ [][Next]_vars
-----------------------------------------------------------------------------
(* Properties. *)

Content(f) == [i \in 1..Len(f) |-> [seq |-> f[i].seq, kind |-> f[i].kind]]

\* The records of a file no failed append has left anything in: its items, without
\* the last one where a crash cut that one short.
WholeRecords ==
    IF file = <<>> \/ Whole(Len(file)) THEN file ELSE SubSeq(file, 1, Len(file) - 1)

\* The log of the abstract journal: the whole records of the file, without the
\* one that append() has not published yet.
LogOf == Content(IF writing THEN SubSeq(WholeRecords, 1, Len(WholeRecords) - 1)
                 ELSE WholeRecords)

InflightOf == IF writing THEN Content(SubSeq(file, Len(file), Len(file))) ELSE <<>>

J == INSTANCE Journal WITH log <- LogOf, inflight <- InflightOf, up <- open

\* As long as no append fails, the store implements the abstract journal:
\* whatever the instant of a crash, and whatever becomes of a compaction, reopening
\* recovers the published records in order, at most the one record under way
\* besides, and no part of a record (store.hpp:49-54).
ImplementsJournal == J!Init /\ [][faulted' \/ J!Next]_<<LogOf, InflightOf, open>>

\* A live snapshot is a whole document in every state, those after a crash in the
\* middle of write_snapshot included (store.hpp:51-54): it is forced to stable
\* storage before the rename.
SnapshotNeverTorn == snapshot = <<>> \/ ~snapshot[1].torn

\* Whatever writes fail, and whatever the crashes, a record on stable storage
\* with only whole records before it is never lost but by compaction: neither a
\* failed append, nor a crash, nor the truncation that open() does reaches it.
ForcedPrefixKept ==
    [][staging = <<>> =>
          \A i \in 1..stable :
              (\A j \in 1..i : Whole(j)) => i <= Len(file') /\ file'[i] = file[i]]_vars

\* Sequence numbers "are strictly increasing" (store.hpp:63-64) as long as no append
\* fails: of two records in the journal the later one has the larger number, over
\* crashes, restarts and compactions.
SequencesIncrease ==
    ~faulted =>
        \A i, j \in 1..Len(file) :
            i < j /\ Whole(i) /\ Whole(j) => file[i].seq < file[j].seq
=============================================================================
