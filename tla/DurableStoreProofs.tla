------------------------- MODULE DurableStoreProofs -------------------------
(***************************************************************************)
(* Machine-checked results about DurableStore, for any record sizes,       *)
(* journal limit and documents, and crashes at any instant.                *)
(***************************************************************************)
EXTENDS DurableStore, WellFoundedInduction, TLAPS

Entry == [at : Int, seq : Nat, kind : RecordKinds, have : Nat \ {0}]

(* What is on disk and in memory, and how far an append or a compaction is: *)
(* the record being written is not on stable storage yet, and neither is    *)
(* under way together with the other or in a store that is not open.        *)
Types ==
    /\ file \in Seq(Entry)
    /\ stable \in 0 .. Len(file)
    /\ next_sequence \in Nat
    /\ staging = <<>> \/ \E f \in Seq(Entry) : staging = <<f>>
    /\ staging # <<>> => open
    /\ writing => open /\ staging = <<>> /\ stable < Len(file)

(* The live snapshot has been forced, and what is forced is not torn.       *)
Documented(s) == s = <<>> \/ \E f \in SnapshotFile : s = <<f>> /\ ~f.torn

SnapshotInv ==
    /\ Documented(snapshot) /\ Documented(snapshot_staging)
    /\ snapshot # <<>> => snapshot[1].forced

(* f holds the records of the file from the n-th on, those after n.         *)
Suffix(f, n) ==
    /\ Len(f) = Len(file) - n
    /\ \A i \in 1 .. Len(f) : /\ f[i].seq = file[n + i].seq
                              /\ f[i].kind = file[n + i].kind
                              /\ f[i].have = file[n + i].have

(* The journal as long as no append has failed: contiguous records, all     *)
(* whole but for a last one that a crash cut short, and on stable storage   *)
(* but for the one being written.  The next number continues the last       *)
(* record, and a staged journal is a suffix of this one.                    *)
Sound ==
    /\ \A i \in 1 .. Len(file) : file[i].seq = file[1].seq + i - 1
    /\ \A i \in 1 .. Len(file) - 1 : Whole(i)
    /\ open /\ file # <<>> => Whole(Len(file))
    /\ stable = IF writing THEN Len(file) - 1 ELSE Len(file)
    /\ open => next_sequence = IF file = <<>> THEN 1
                               ELSE IF writing THEN file[Len(file)].seq
                               ELSE file[Len(file)].seq + 1
    /\ staging # <<>> => \E n \in 0 .. Len(file) : Suffix(staging[1], n)

LogInv == ~faulted => Sound
-----------------------------------------------------------------------------
(* The scan. *)

(* A set of natural numbers that is not empty has a least member.           *)
LEMMA Least ==
    ASSUME NEW S, S \subseteq Nat, S # {}
    PROVE  \E n \in S : \A m \in S : n <= m
<1> DEFINE R == OpToRel(<, Nat)
<1>1. IsWellFoundedOn(R, Nat)
  BY NatLessThanWellFounded, Zenon
<1>2. \A x, y \in Nat : <<x, y>> \in R <=> x < y
  BY DEF OpToRel
<1> HIDE DEF R
<1>3. PICK n \in S : \A m \in S : <<m, n>> \notin R
  BY <1>1, WFMin, Zenon
<1>4. ASSUME NEW m \in S PROVE n <= m
  <2>1. n \in Nat /\ m \in Nat /\ <<m, n>> \notin R
    BY <1>3
  <2> QED
    BY <1>2, <2>1
<1> QED
  BY <1>4

(* The scan of replay() accepts the items before the first that is not      *)
(* acceptable, and no other.                                                *)
LEMMA ScanStops ==
    ASSUME file \in Seq(Entry)
    PROVE  /\ Scanned \in 0 .. Len(file)
           /\ \A i \in 1 .. Scanned : Acceptable(i)
           /\ Scanned = Len(file) \/ ~Acceptable(Scanned + 1)
<1> DEFINE S == {n \in 0 .. Len(file) : n = Len(file) \/ ~Acceptable(n + 1)}
<1>1. Len(file) \in Nat /\ S \subseteq Nat /\ Len(file) \in S
  OBVIOUS
<1>2. \A n : n \in S <=> n \in 0 .. Len(file) /\ (n = Len(file) \/ ~Acceptable(n + 1))
  OBVIOUS
<1> HIDE DEF S
<1>3. PICK n \in S : \A m \in S : n <= m
  BY <1>1, Least, Zenon
<1>4. ASSUME NEW i \in 1 .. n PROVE Acceptable(i)
  <2>1. n \in Nat /\ n <= Len(file)
    BY <1>1, <1>2
  <2>2. i - 1 \in 0 .. Len(file) /\ (i - 1) + 1 = i /\ ~(n <= i - 1)
    BY <1>1, <2>1
  <2>3. i - 1 \notin S
    BY <1>3, <2>2
  <2> QED
    BY <1>2, <2>2, <2>3
<1>5. \E k \in 0 .. Len(file) :
         (\A i \in 1 .. k : Acceptable(i)) /\ (k = Len(file) \/ ~Acceptable(k + 1))
  BY <1>2, <1>4
<1> QED
  BY <1>5, Zenon DEF Scanned
-----------------------------------------------------------------------------
(* Files. *)

(* The first n items of a file.                                             *)
LEMMA PrefixIs ==
    ASSUME NEW f \in Seq(Entry), NEW n \in 0 .. Len(f)
    PROVE  /\ SubSeq(f, 1, n) \in Seq(Entry) /\ Len(SubSeq(f, 1, n)) = n
           /\ \A i \in 1 .. n : SubSeq(f, 1, n)[i] = f[i]
  OBVIOUS

(* A file that lost cells at its end: every other item is as it was, and of *)
(* the last one, unless it is gone, the first `have` cells are left.        *)
LEMMA ShortenedIs ==
    ASSUME NEW f \in Seq(Entry), f # <<>>, NEW have \in 0 .. f[Len(f)].have
    PROVE  /\ Len(f) \in Nat \ {0} /\ Shortened(f, have) \in Seq(Entry)
           /\ Len(Shortened(f, have)) = IF have = 0 THEN Len(f) - 1 ELSE Len(f)
           /\ \A i \in 1 .. Len(f) - 1 : Shortened(f, have)[i] = f[i]
           /\ have # 0 => /\ Shortened(f, have)[Len(f)].seq = f[Len(f)].seq
                          /\ Shortened(f, have)[Len(f)].kind = f[Len(f)].kind
                          /\ Shortened(f, have)[Len(f)].have = have
<1>1. Len(f) \in Nat \ {0} /\ f[Len(f)] \in Entry
  OBVIOUS
<1>2. have \in Nat
  BY <1>1 DEF Entry
<1>3. CASE have = 0
  <2>1. Shortened(f, have) = SubSeq(f, 1, Len(f) - 1) /\ Len(f) - 1 \in 0 .. Len(f)
    BY <1>1, <1>3 DEF Shortened
  <2> QED
    BY <1>1, <1>3, <2>1, PrefixIs
<1>4. CASE have # 0
  <2>1. Shortened(f, have) = [f EXCEPT ![Len(f)] = [f[Len(f)] EXCEPT !.have = have]]
    BY <1>4 DEF Shortened
  <2>2. PICK r \in Entry : /\ r = [f[Len(f)] EXCEPT !.have = have]
                          /\ r.seq = f[Len(f)].seq /\ r.kind = f[Len(f)].kind /\ r.have = have
    <3>1. PICK e \in Entry : e = f[Len(f)]
      BY <1>1, Zenon
    <3>2. [e EXCEPT !.have = have] \in Entry
      BY <1>2, <1>4, Zenon DEF Entry
    <3>3. /\ [e EXCEPT !.have = have].seq = e.seq /\ [e EXCEPT !.have = have].kind = e.kind
          /\ [e EXCEPT !.have = have].have = have
      BY DEF Entry
    <3> QED
      BY <3>1, <3>2, <3>3, Zenon
  <2>3. Shortened(f, have) = [f EXCEPT ![Len(f)] = r]
    BY <2>1, <2>2, Zenon
  <2>4. PICK g : g = [f EXCEPT ![Len(f)] = r]
    BY Zenon
  <2>5. /\ g \in Seq(Entry) /\ Len(g) = Len(f) /\ g[Len(f)] = r
        /\ \A i \in 1 .. Len(f) - 1 : g[i] = f[i]
    BY <1>1, <2>4
  <2> QED
    BY <1>1, <1>4, <2>2, <2>3, <2>4, <2>5, Zenon
<1> QED
  BY <1>3, <1>4

(* The files a crash can leave: a prefix of the file that holds all that    *)
(* is on stable storage, or such a prefix and a part of the next item.      *)
LEMMA CrashKeeps ==
    ASSUME Types, Crash
    PROVE  /\ file' \in Seq(Entry)
           /\ Len(file') \in stable .. Len(file)
           /\ \A i \in 1 .. stable : file'[i] = file[i]
           /\ \A i \in 1 .. Len(file') - 1 : file'[i] = file[i]
           /\ \A i \in 1 .. Len(file') : file'[i].seq = file[i].seq /\ file'[i].kind = file[i].kind
<1>1. file \in Seq(Entry) /\ Len(file) \in Nat /\ stable \in 0 .. Len(file)
  BY DEF Types
<1>2. PICK n \in stable .. Len(file) :
         \/ file' = SubSeq(file, 1, n)
         \/ /\ n < Len(file)
            /\ \E have \in 1 .. file[n + 1].have : file' = Shortened(SubSeq(file, 1, n + 1), have)
  BY Zenon DEF Crash
<1>3. CASE file' = SubSeq(file, 1, n)
  BY <1>1, <1>2, <1>3
<1>4. ASSUME n < Len(file), NEW have \in 1 .. file[n + 1].have,
             file' = Shortened(SubSeq(file, 1, n + 1), have)
      PROVE  /\ file' \in Seq(Entry) /\ Len(file') = n + 1
             /\ \A i \in 1 .. n : file'[i] = file[i]
             /\ file'[n + 1].seq = file[n + 1].seq /\ file'[n + 1].kind = file[n + 1].kind
  <2>1. PICK f \in Seq(Entry) : f = SubSeq(file, 1, n + 1)
    <3>1. n + 1 \in 0 .. Len(file)
      BY <1>1, <1>2, <1>4
    <3> QED
      BY <1>1, <3>1, PrefixIs, Zenon
  <2>2. Len(f) = n + 1 /\ f # <<>> /\ \A i \in 1 .. n + 1 : f[i] = file[i]
    <3>1. n \in Nat /\ n + 1 \in 0 .. Len(file)
      BY <1>1, <1>2, <1>4
    <3>2. Len(f) = n + 1 /\ \A i \in 1 .. n + 1 : f[i] = file[i]
      BY <1>1, <2>1, <3>1, PrefixIs, Zenon
    <3> QED
      BY <3>1, <3>2
  <2>3. have \in 0 .. f[Len(f)].have /\ have # 0
    <3>1. f[Len(f)] = file[n + 1] /\ file[n + 1] \in Entry
      BY <1>1, <1>2, <1>4, <2>2
    <3>2. file[n + 1].have \in Nat
      BY <3>1 DEF Entry
    <3> QED
      BY <3>1, <3>2
  <2>4. file' = Shortened(f, have)
    BY <1>4, <2>1
  <2>5. /\ file' \in Seq(Entry) /\ Len(file') = Len(f)
        /\ \A i \in 1 .. Len(f) - 1 : file'[i] = f[i]
        /\ file'[Len(f)].seq = f[Len(f)].seq /\ file'[Len(f)].kind = f[Len(f)].kind
    BY <2>2, <2>3, <2>4, ShortenedIs
  <2> QED
    BY <1>1, <1>2, <2>2, <2>5
<1>5. CASE /\ n < Len(file)
           /\ \E have \in 1 .. file[n + 1].have : file' = Shortened(SubSeq(file, 1, n + 1), have)
  <2>1. /\ file' \in Seq(Entry) /\ Len(file') = n + 1
        /\ \A i \in 1 .. n : file'[i] = file[i]
        /\ file'[n + 1].seq = file[n + 1].seq /\ file'[n + 1].kind = file[n + 1].kind
    BY <1>4, <1>5
  <2>2. /\ n \in Nat /\ Len(file') \in stable .. Len(file)
        /\ \A i \in 1 .. stable : i \in 1 .. n
        /\ \A i \in 1 .. Len(file') : i \in 1 .. n \/ i = n + 1
        /\ \A i \in 1 .. Len(file') - 1 : i \in 1 .. n
    BY <1>1, <1>2, <1>5, <2>1
  <2> QED
    BY <2>1, <2>2
<1> QED
  BY <1>2, <1>3, <1>5

(* compact() stages the records from some position on, with new positions.  *)
LEMMA StagedIs ==
    ASSUME Types, NEW n \in 0 .. Len(file), CompactStage(n)
    PROVE  \E f \in Seq(Entry) :
              /\ staging' = <<f>> /\ Len(f) = Len(file) - n
              /\ \A i \in 1 .. Len(f) : /\ f[i].seq = file[n + i].seq
                                       /\ f[i].kind = file[n + i].kind
                                       /\ f[i].have = file[n + i].have
<1> DEFINE f == [i \in 1 .. (Len(file) - n) |-> [file[n + i] EXCEPT !.at = @ - file[n + 1].at]]
<1>1. file \in Seq(Entry) /\ Len(file) \in Nat /\ Len(file) - n \in Nat
  BY DEF Types
<1>2. ASSUME NEW i \in 1 .. (Len(file) - n)
      PROVE  /\ f[i] \in Entry
             /\ f[i].seq = file[n + i].seq /\ f[i].kind = file[n + i].kind
             /\ f[i].have = file[n + i].have
  <2>1. file[n + i] \in Entry /\ file[n + 1] \in Entry
    BY <1>1
  <2>2. PICK r \in Entry, a \in Int : r = file[n + i] /\ a = file[n + i].at - file[n + 1].at
    <3>1. file[n + i].at \in Int /\ file[n + 1].at \in Int
      BY <2>1 DEF Entry
    <3>2. file[n + i].at - file[n + 1].at \in Int
      BY <3>1
    <3> QED
      BY <2>1, <3>2, Zenon
  <2>3. f[i] = [r EXCEPT !.at = a]
    BY <2>2
  <2>4. /\ [r EXCEPT !.at = a] \in Entry /\ [r EXCEPT !.at = a].seq = r.seq
        /\ [r EXCEPT !.at = a].kind = r.kind /\ [r EXCEPT !.at = a].have = r.have
    BY DEF Entry
  <2> HIDE DEF f
  <2> QED
    BY <2>2, <2>3, <2>4
<1>3. f \in [1 .. (Len(file) - n) -> Entry]
  BY <1>2
<1>4. f \in Seq(Entry) /\ Len(f) = Len(file) - n
  <2>1. ASSUME NEW m \in Nat, NEW g \in [1 .. m -> Entry] PROVE g \in Seq(Entry) /\ Len(g) = m
    OBVIOUS
  <2> QED
    BY <1>1, <1>3, <2>1, Zenon
<1>5. staging' = <<f>>
  BY DEF CompactStage
<1> HIDE DEF f
<1> QED
  BY <1>2, <1>4, <1>5

(* The types hold in every state.                                           *)
LEMMA TypesInvariant == Spec => []Types
<1>1. Init => Types
  <2>1. <<>> \in Seq(Entry) /\ Len(<<>>) = 0
    OBVIOUS
  <2> QED
    BY <2>1 DEF Init, Types
<1>2. ASSUME Types, [Next]_vars PROVE Types'
  <2>0. /\ file \in Seq(Entry) /\ Len(file) \in Nat /\ stable \in 0 .. Len(file)
        /\ next_sequence \in Nat
        /\ staging = <<>> \/ \E f \in Seq(Entry) : staging = <<f>>
        /\ staging # <<>> => open
        /\ writing => open /\ staging = <<>> /\ stable < Len(file)
    BY <1>2 DEF Types
  <2>1. CASE open_store
    <3>1. /\ Scanned \in 0 .. Len(file) /\ file' \in Seq(Entry) /\ Len(file') = Scanned
      BY <2>0, <2>1, ScanStops, PrefixIs DEF open_store
    <3>2. LastSequence \in Nat
      <4>1. Scanned # 0 => file[Scanned] \in Entry
        BY <2>0, <3>1
      <4> QED
        BY <4>1 DEF LastSequence, Entry
    <3>3. ~writing'
      BY <2>0, <2>1 DEF open_store
    <3>4. stable' \in 0 .. Len(file') /\ next_sequence' \in Nat /\ staging' = <<>>
      BY <2>0, <2>1, <3>1, <3>2 DEF open_store
    <3> QED
      BY <3>1, <3>3, <3>4 DEF Types
  <2>2. ASSUME NEW kind \in RecordKinds, append(kind) PROVE Types'
    <3>1. End(file) \in Int /\ Total(kind) \in Nat \ {0}
      <4>1. file # <<>> => file[Len(file)] \in Entry
        BY <2>0
      <4>2. End(file) \in Int
        BY <4>1 DEF End, Entry
      <4> QED
        BY <4>2, StoreAssumption DEF Total, HeaderCells
    <3>2. [at |-> End(file), seq |-> next_sequence, kind |-> kind, have |-> Total(kind)] \in Entry
      BY <2>0, <3>1 DEF Entry
    <3>3. file' \in Seq(Entry) /\ Len(file') = Len(file) + 1
      BY <2>0, <2>2, <3>2 DEF append
    <3>4. UNCHANGED <<stable, open, next_sequence, staging>> /\ open /\ staging = <<>>
      BY <2>2 DEF append
    <3> QED
      BY <2>0, <3>3, <3>4 DEF Types
  <2>3. CASE publish
    <3>1. UNCHANGED <<file, open, staging>> /\ ~writing'
      BY <2>3 DEF publish
    <3>2. stable' = Len(file) /\ next_sequence' = next_sequence + 1
      BY <2>3 DEF publish
    <3> QED
      BY <2>0, <3>1, <3>2 DEF Types
  <2>4. CASE append_failed
    <3>1. file # <<>> /\ stable < Len(file)
      BY <2>0, <2>4 DEF append_failed
    <3>2. file' \in Seq(Entry) /\ Len(file') \in {Len(file) - 1, Len(file)}
      BY <2>0, <2>4, <3>1, ShortenedIs DEF append_failed
    <3>3. UNCHANGED <<stable, open, next_sequence, staging>> /\ ~writing'
      BY <2>4 DEF append_failed
    <3> QED
      BY <2>0, <3>1, <3>2, <3>3 DEF Types
  <2>5. CASE sync \/ close
    <3>1. /\ UNCHANGED <<file, next_sequence, staging>> /\ ~writing'
          /\ open' = open \/ staging = <<>>
      BY <2>5 DEF sync, close
    <3>2. stable' \in {Len(file), stable}
      BY <2>5 DEF sync, close
    <3> QED
      BY <2>0, <3>1, <3>2 DEF Types
  <2>6. CASE Crash
    <3>1. file' \in Seq(Entry) /\ stable' = Len(file')
      BY <1>2, <2>6, CrashKeeps, Zenon DEF Crash
    <3>2. ~writing' /\ staging' = <<>> /\ next_sequence' = next_sequence
      BY <2>6 DEF Crash
    <3> QED
      BY <2>0, <3>1, <3>2 DEF Types
  <2>7. ASSUME NEW n \in 0 .. Len(file), CompactStage(n) PROVE Types'
    <3>1. PICK f \in Seq(Entry) : staging' = <<f>>
      BY <1>2, <2>7, StagedIs
    <3>2. UNCHANGED <<file, stable, next_sequence>> /\ open' /\ ~writing'
      BY <2>7 DEF CompactStage
    <3> QED
      BY <2>0, <3>1, <3>2 DEF Types
  <2>8. CASE CompactReplace \/ compact_failed
    <3>1. PICK f \in Seq(Entry) : staging = <<f>> /\ staging[1] = f
      BY <2>0, <2>8 DEF CompactReplace, compact_failed
    <3>2. ~writing' /\ staging' = <<>>
      <4>1. staging # <<>> /\ staging' = <<>> /\ writing' = writing
        BY <2>8 DEF CompactReplace, compact_failed
      <4> QED
        BY <2>0, <4>1
    <3>3. (file' = f /\ stable' = Len(f)) \/ UNCHANGED <<file, stable>>
      BY <2>8, <3>1 DEF CompactReplace, compact_failed
    <3>4. next_sequence' \in Nat
      <4>1. f # <<>> => f[Len(f)] \in Entry
        OBVIOUS
      <4>2. next_sequence' \in {next_sequence, 1} \/ (f # <<>> /\ next_sequence' = f[Len(f)].seq + 1)
        BY <2>8, <3>1, Zenon DEF CompactReplace, compact_failed
      <4>3. f # <<>> => f[Len(f)].seq \in Nat
        BY <4>1, Zenon DEF Entry
      <4>4. next_sequence \in Nat
        BY <2>0
      <4> QED
        BY <4>2, <4>3, <4>4
    <3> QED
      BY <2>0, <3>2, <3>3, <3>4 DEF Types
  <2>9. CASE \/ \E doc \in Documents : SnapshotStage(doc)
             \/ SnapshotForce \/ SnapshotRename \/ SnapshotFailed \/ UNCHANGED vars
    <3>1. UNCHANGED <<file, stable, open, next_sequence, writing, staging, faulted>>
      BY <2>9, Zenon DEF SnapshotStage, SnapshotForce, SnapshotRename, SnapshotFailed, vars
    <3> QED
      BY <1>2, <3>1 DEF Types
  <2> QED
    BY <1>2, <2>1, <2>2, <2>3, <2>4, <2>5, <2>6, <2>7, <2>8, <2>9, Zenon DEF Next
<1> QED
  BY <1>1, <1>2, PTL DEF Spec
-----------------------------------------------------------------------------
(* The snapshot. *)

(* The live snapshot is never torn.  A crash tears only what is not forced  *)
(* to stable storage, and the rename takes a staging file that has been.    *)
THEOREM SnapshotWhole == Spec => []SnapshotNeverTorn
<1>1. Init => SnapshotInv
  BY DEF Init, SnapshotInv, Documented
<1>2. ASSUME SnapshotInv, [Next]_vars PROVE SnapshotInv'
  <2>1. ASSUME NEW doc \in Documents, SnapshotStage(doc) PROVE SnapshotInv'
    <3>1. [doc |-> doc, forced |-> FALSE, torn |-> FALSE] \in SnapshotFile
      BY DEF SnapshotFile
    <3> QED
      BY <1>2, <2>1, <3>1 DEF SnapshotStage, SnapshotInv, Documented
  <2>2. CASE SnapshotForce
    <3>1. PICK f \in SnapshotFile : snapshot_staging = <<f>> /\ ~f.torn
      BY <1>2, <2>2 DEF SnapshotForce, SnapshotInv, Documented
    <3>2. PICK g \in SnapshotFile : g = [f EXCEPT !.forced = TRUE] /\ ~g.torn
      <4>1. [f EXCEPT !.forced = TRUE] \in SnapshotFile
        BY Zenon DEF SnapshotFile
      <4>2. [f EXCEPT !.forced = TRUE].torn = f.torn
        BY DEF SnapshotFile
      <4> QED
        BY <3>1, <4>1, <4>2, Zenon
    <3>3. snapshot_staging' = <<g>> /\ snapshot' = snapshot
      <4>1. snapshot_staging' = [snapshot_staging EXCEPT ![1] = [snapshot_staging[1] EXCEPT !.forced = TRUE]]
        BY <2>2 DEF SnapshotForce
      <4>2. snapshot_staging' = [<<f>> EXCEPT ![1] = g]
        BY <3>1, <3>2, <4>1
      <4>3. [<<f>> EXCEPT ![1] = g] = <<g>>
        OBVIOUS
      <4> QED
        BY <2>2, <4>2, <4>3, Zenon DEF SnapshotForce
    <3> QED
      BY <1>2, <3>2, <3>3, Zenon DEF SnapshotInv, Documented
  <2>3. CASE SnapshotRename \/ SnapshotFailed
    <3>1. snapshot_staging' = <<>>
      BY <2>3 DEF SnapshotRename, SnapshotFailed
    <3>2. \/ snapshot' = snapshot
          \/ snapshot' = snapshot_staging /\ snapshot_staging[1].forced
      BY <2>3 DEF SnapshotRename, SnapshotFailed
    <3> QED
      BY <1>2, <3>1, <3>2 DEF SnapshotInv, Documented
  <2>4. CASE Crash
    <3>1. snapshot_staging' = <<>> /\ snapshot' \in AfterCrash(snapshot)
      BY <2>4 DEF Crash
    <3>2. snapshot' = snapshot
      <4>1. CASE snapshot = <<>>
        BY <3>1, <4>1 DEF AfterCrash
      <4>2. CASE snapshot # <<>>
        <5>1. DOMAIN snapshot = {1} /\ snapshot[1].forced
          BY <1>2, <4>2 DEF SnapshotInv, Documented
        <5> QED
          BY <3>1, <5>1 DEF AfterCrash
      <4> QED
        BY <4>1, <4>2
    <3> QED
      BY <1>2, <3>1, <3>2 DEF SnapshotInv, Documented
  <2>5. CASE UNCHANGED <<snapshot, snapshot_staging>>
    BY <1>2, <2>5 DEF SnapshotInv, Documented
  <2> QED
    BY <1>2, <2>1, <2>2, <2>3, <2>4, <2>5, Zenon
    DEF Next, vars, open_store, append, publish, append_failed, sync, close, CompactStage,
        CompactReplace, compact_failed
<1>3. SnapshotInv => SnapshotNeverTorn
  BY DEF SnapshotInv, Documented, SnapshotNeverTorn
<1> QED
  BY <1>1, <1>2, <1>3, PTL DEF Spec
-----------------------------------------------------------------------------
(* What is on stable storage. *)

(* A record on stable storage with only whole records before it stays where *)
(* it is: an append that fails leaves at least what was forced before it, a *)
(* crash leaves all that was forced, and open() either accepts such a       *)
(* record or refuses the file.                                              *)
THEOREM StableKept == Spec => ForcedPrefixKept
<1>1. ASSUME Types, [Next]_vars, staging = <<>>, NEW i \in 1 .. stable, \A j \in 1 .. i : Whole(j)
      PROVE  i <= Len(file') /\ file'[i] = file[i]
  <2>0. /\ file \in Seq(Entry) /\ Len(file) \in Nat /\ stable \in 0 .. Len(file)
        /\ i \in 1 .. Len(file)
    BY <1>1 DEF Types
  <2>1. CASE open_store
    <3>1. /\ Scanned \in 0 .. Len(file)
          /\ \A j \in 1 .. Scanned : Acceptable(j)
          /\ Scanned = Len(file) \/ ~Acceptable(Scanned + 1)
      BY <2>0, ScanStops
    <3>2. i <= Scanned
      <4>1. SUFFICES ASSUME Scanned + 1 \in 1 .. i, Scanned < Len(file) PROVE FALSE
        BY <2>0, <3>1
      <4>2. Whole(Scanned + 1)
        BY <1>1, <4>1
      <4>3. ~TornTail
        BY <4>2 DEF TornTail
      <4> QED
        BY <2>1, <4>1, <4>3 DEF open_store, ScanOutcome, Refused
    <3>3. file' = SubSeq(file, 1, Scanned)
      BY <2>1 DEF open_store
    <3> QED
      BY <2>0, <3>1, <3>2, <3>3, PrefixIs
  <2>2. ASSUME NEW kind \in RecordKinds, append(kind) PROVE i <= Len(file') /\ file'[i] = file[i]
    <3>1. PICK r : file' = Append(file, r)
      BY <2>2 DEF append
    <3> QED
      BY <2>0, <3>1
  <2>3. CASE append_failed
    <3>1. file # <<>> /\ stable < Len(file)
      BY <1>1, <2>0, <2>3 DEF Types, append_failed
    <3>2. PICK have \in 0 .. file[Len(file)].have : file' = Shortened(file, have)
      BY <2>3 DEF append_failed
    <3> QED
      BY <2>0, <3>1, <3>2, ShortenedIs
  <2>4. CASE Crash
    BY <1>1, <2>0, <2>4, CrashKeeps
  <2>5. CASE file' = file
    BY <2>0, <2>5
  <2> QED
    BY <1>1, <2>1, <2>2, <2>3, <2>4, <2>5, Zenon
    DEF Next, vars, publish, sync, close, CompactStage, CompactReplace, compact_failed,
        SnapshotStage, SnapshotForce, SnapshotRename, SnapshotFailed
<1>2. ASSUME Types, [Next]_vars
      PROVE  [staging = <<>> =>
                \A i \in 1 .. stable :
                    (\A j \in 1 .. i : Whole(j)) => i <= Len(file') /\ file'[i] = file[i]]_vars
  BY <1>1, <1>2, Zenon
<1> QED
  BY <1>2, TypesInvariant, PTL DEF Spec, ForcedPrefixKept
-----------------------------------------------------------------------------
(* The journal while no append has failed. *)

(* open() truncates to whole records and continues the last one's number.   *)
LEMMA OpenSound ==
    ASSUME Types, Sound, open_store
    PROVE  Sound'
<1>0. file \in Seq(Entry) /\ Len(file) \in Nat /\ stable = Len(file) /\ ~writing
  BY DEF Types, Sound, open_store
<1>1. /\ Scanned \in 0 .. Len(file)
      /\ \A j \in 1 .. Scanned : Acceptable(j)
  BY <1>0, ScanStops
<1>2. /\ file' \in Seq(Entry) /\ Len(file') = Scanned
      /\ \A i \in 1 .. Scanned : file'[i] = file[i]
  BY <1>0, <1>1, PrefixIs DEF open_store
<1>3. stable' = Scanned /\ staging' = <<>> /\ ~writing'
  BY <1>0, <1>1 DEF open_store
<1>4. \A i \in 1 .. Scanned : Whole(i)' /\ file'[i].seq = file'[1].seq + i - 1
  BY <1>0, <1>1, <1>2 DEF Acceptable, Whole, InSequence
<1>5. next_sequence' = IF file' = <<>> THEN 1 ELSE file'[Len(file')].seq + 1
  BY <1>1, <1>2 DEF open_store, LastSequence
<1>6. \A i \in 1 .. Len(file') - 1 : i \in 1 .. Scanned
  BY <1>1, <1>2
<1>7. file' # <<>> => Len(file') \in 1 .. Scanned
  BY <1>1, <1>2
<1> QED
  BY <1>2, <1>3, <1>4, <1>5, <1>6, <1>7 DEF Sound

(* append() writes a whole record with the next number.                     *)
LEMMA AppendSound ==
    ASSUME Types, Sound, NEW kind \in RecordKinds, append(kind)
    PROVE  /\ Sound'
           /\ \A i \in 1 .. Len(file) : file'[i] = file[i]
           /\ Len(file') = Len(file) + 1
           /\ file'[Len(file) + 1].seq = next_sequence /\ file'[Len(file) + 1].kind = kind
<1>0. /\ file \in Seq(Entry) /\ Len(file) \in Nat /\ stable = Len(file)
      /\ ~writing /\ open /\ staging = <<>>
  BY DEF Types, Sound, append
<1>1. PICK r : /\ r = [at |-> End(file), seq |-> next_sequence, kind |-> kind, have |-> Total(kind)]
               /\ file' = Append(file, r)
  BY DEF append
<1>2. r.seq = next_sequence /\ r.kind = kind /\ r.have = Total(kind)
  BY <1>1
<1>3. /\ Len(file') = Len(file) + 1 /\ file' # <<>>
      /\ \A i \in 1 .. Len(file) : file'[i] = file[i]
      /\ file'[Len(file) + 1] = r
  BY <1>0, <1>1
<1>4. UNCHANGED <<stable, next_sequence, staging>> /\ writing' = TRUE
  BY DEF append
<1>5. \A i \in 1 .. Len(file') : i \in 1 .. Len(file) \/ i = Len(file) + 1
  BY <1>0, <1>3
<1>6. \A i \in 1 .. Len(file) : Whole(i)
  BY <1>0 DEF Sound
<1>7. \A i \in 1 .. Len(file') : Whole(i)'
  BY <1>2, <1>3, <1>5, <1>6 DEF Whole
<1>8. \A i \in 1 .. Len(file') : file'[i].seq = file'[1].seq + i - 1
  <2>1. CASE file = <<>>
    <3>1. next_sequence \in Nat
      BY DEF Types
    <3> QED
      BY <1>2, <1>3, <2>1, <3>1
  <2>2. CASE file # <<>>
    <3>1. /\ 1 \in 1 .. Len(file) /\ Len(file) \in 1 .. Len(file)
          /\ file[1].seq \in Nat /\ file[Len(file)].seq \in Nat
      <4>1. 1 \in 1 .. Len(file) /\ Len(file) \in 1 .. Len(file)
        BY <1>0, <2>2
      <4>2. file[1] \in Entry /\ file[Len(file)] \in Entry
        BY <1>0, <4>1
      <4> QED
        BY <4>1, <4>2 DEF Entry
    <3>2. next_sequence = file[1].seq + Len(file)
      BY <1>0, <2>2, <3>1 DEF Sound
    <3>3. \A i \in 1 .. Len(file) : file'[i].seq = file'[1].seq + i - 1
      BY <1>3, <3>1, Zenon DEF Sound
    <3> QED
      BY <1>0, <1>2, <1>3, <1>5, <3>1, <3>2, <3>3
  <2> QED
    BY <2>1, <2>2
<1>9. /\ \A i \in 1 .. Len(file') - 1 : i \in 1 .. Len(file')
      /\ Len(file') \in 1 .. Len(file') /\ stable' = Len(file') - 1
  BY <1>0, <1>3, <1>4
<1>10. Sound'
  BY <1>0, <1>2, <1>3, <1>4, <1>7, <1>8, <1>9 DEF Sound
<1> QED
  BY <1>2, <1>3, <1>10

(* The staged journal replaces this one: the records of a suffix, all whole. *)
LEMMA ReplacedSound ==
    ASSUME Types, Sound, NEW f \in Seq(Entry), staging = <<f>>, file' = f
    PROVE  \E n \in 0 .. Len(file) :
              /\ Len(f) = Len(file) - n
              /\ \A i \in 1 .. Len(f) :
                    /\ n + i \in 1 .. Len(file) /\ Whole(i)'
                    /\ f[i].seq = file[n + i].seq /\ f[i].kind = file[n + i].kind
                    /\ f[i].seq = f[1].seq + i - 1
<1>0. /\ file \in Seq(Entry) /\ Len(file) \in Nat /\ Len(f) \in Nat /\ open /\ staging[1] = f
  BY DEF Types
<1>1. PICK n \in 0 .. Len(file) : Suffix(f, n)
  BY <1>0 DEF Sound
<1>2. \A i \in 1 .. Len(f) : n + i \in 1 .. Len(file)
  BY <1>0, <1>1 DEF Suffix
<1>3. \A i \in 1 .. Len(file) : Whole(i)
  <2>1. \A i \in 1 .. Len(file) : i \in 1 .. Len(file) - 1 \/ (i = Len(file) /\ file # <<>>)
    BY <1>0
  <2> QED
    BY <1>0, <2>1 DEF Sound
<1>4. ASSUME NEW i \in 1 .. Len(f)
      PROVE  Whole(i)' /\ f[i].seq = file[n + i].seq /\ f[i].kind = file[n + i].kind
  BY <1>1, <1>2, <1>3 DEF Suffix, Whole
<1>5. ASSUME NEW i \in 1 .. Len(f) PROVE f[i].seq = f[1].seq + i - 1
  <2>1. 1 \in 1 .. Len(f) /\ n + 1 \in 1 .. Len(file) /\ n + i \in 1 .. Len(file)
    BY <1>0, <1>2
  <2>2. f[i].seq = file[n + i].seq /\ f[1].seq = file[n + 1].seq
    BY <1>4, <2>1
  <2>3. file[n + i].seq = file[1].seq + (n + i) - 1 /\ file[n + 1].seq = file[1].seq + (n + 1) - 1
    BY <2>1 DEF Sound
  <2>4. file[1].seq \in Nat
    <3>1. file[1] \in Entry
      BY <1>0, <2>1
    <3> QED
      BY <3>1 DEF Entry
  <2>5. n \in Nat /\ i \in Nat
    BY <1>0
  <2>6. PICK a \in Nat : a = file[1].seq
    BY <2>4
  <2>7. f[i].seq = a + (n + i) - 1 /\ f[1].seq = a + (n + 1) - 1
    BY <2>2, <2>3, <2>6, Zenon
  <2> QED
    BY <2>5, <2>7
<1> QED
  BY <1>1, <1>2, <1>4, <1>5 DEF Suffix

(* As long as no append has failed the journal is sound, whatever crashes.  *)
LEMMA LogInvariant == Spec => []LogInv
<1>1. Init => LogInv
  BY DEF Init, LogInv, Sound
<1>2. ASSUME Types, Types', LogInv, [Next]_vars PROVE LogInv'
  <2>0. SUFFICES ASSUME ~faulted' PROVE Sound'
    BY DEF LogInv
  <2>1. ~faulted
    BY <1>2, <2>0, Zenon
    DEF Next, vars, open_store, append, publish, append_failed, sync, close, Crash, CompactStage,
        CompactReplace, compact_failed, SnapshotStage, SnapshotForce, SnapshotRename, SnapshotFailed
  <2>2. /\ Sound /\ file \in Seq(Entry) /\ Len(file) \in Nat
    BY <1>2, <2>1 DEF LogInv, Types
  <2>3. CASE open_store
    BY <1>2, <2>2, <2>3, OpenSound
  <2>4. ASSUME NEW kind \in RecordKinds, append(kind) PROVE Sound'
    BY <1>2, <2>2, <2>4, AppendSound
  <2>5. CASE publish
    <3>1. /\ UNCHANGED <<file, open, staging>> /\ ~writing' /\ writing /\ open /\ file # <<>>
          /\ staging = <<>>
      BY <1>2, <2>2, <2>5 DEF publish, Types
    <3>2. stable' = Len(file) /\ next_sequence' = next_sequence + 1
      BY <2>5 DEF publish
    <3> QED
      BY <2>2, <3>1, <3>2 DEF Sound, Whole
  <2>6. CASE sync \/ close
    <3>1. UNCHANGED <<file, next_sequence, staging>> /\ ~writing /\ ~writing' /\ open
      BY <2>6 DEF sync, close
    <3>2. stable' = Len(file)
      BY <2>2, <2>6, <3>1, Zenon DEF sync, close, Sound
    <3> QED
      BY <2>2, <3>1, <3>2 DEF Sound, Whole, Suffix
  <2>7. CASE Crash
    <3>1. ~open' /\ ~writing' /\ staging' = <<>> /\ stable' = Len(file')
      BY <2>7 DEF Crash
    <3>2. /\ file' \in Seq(Entry) /\ Len(file') \in Nat /\ Len(file') <= Len(file)
          /\ \A i \in 1 .. Len(file') - 1 : file'[i] = file[i]
          /\ \A i \in 1 .. Len(file') : file'[i].seq = file[i].seq
      BY <1>2, <2>2, <2>7, CrashKeeps DEF Types
    <3>3. ASSUME NEW i \in 1 .. Len(file') - 1 PROVE Whole(i)'
      <4>1. i \in 1 .. Len(file) - 1 /\ file'[i] = file[i]
        BY <2>2, <3>2
      <4>2. Whole(i)
        BY <2>2, <4>1 DEF Sound
      <4> QED
        BY <4>1, <4>2 DEF Whole
    <3>4. \A i \in 1 .. Len(file') : file'[i].seq = file'[1].seq + i - 1
      <4>1. ASSUME NEW i \in 1 .. Len(file') PROVE file'[i].seq = file'[1].seq + i - 1
        <5>1. 1 \in 1 .. Len(file') /\ i \in 1 .. Len(file)
          BY <2>2, <3>2
        <5> QED
          BY <2>2, <3>2, <5>1 DEF Sound
      <4> QED
        BY <4>1
    <3> QED
      BY <3>1, <3>3, <3>4 DEF Sound
  <2>8. ASSUME NEW n \in 0 .. Len(file), CompactStage(n) PROVE Sound'
    <3>1. PICK f \in Seq(Entry) :
             /\ staging' = <<f>> /\ Len(f) = Len(file) - n
             /\ \A i \in 1 .. Len(f) : /\ f[i].seq = file[n + i].seq
                                      /\ f[i].kind = file[n + i].kind
                                      /\ f[i].have = file[n + i].have
      BY <1>2, <2>8, StagedIs
    <3>2. UNCHANGED <<file, stable, next_sequence, open, writing>>
      BY <2>8 DEF CompactStage
    <3>3. Suffix(staging[1], n)'
      BY <3>1, <3>2 DEF Suffix
    <3> QED
      BY <2>2, <3>2, <3>3 DEF Sound, Whole
  <2>9. CASE CompactReplace \/ compact_failed
    <3>1. PICK f \in Seq(Entry) : staging = <<f>> /\ staging[1] = f
      BY <1>2, <2>9 DEF CompactReplace, compact_failed, Types
    <3>2. staging # <<>> /\ staging' = <<>> /\ writing' = writing
      BY <2>9 DEF CompactReplace, compact_failed
    <3>3. ~writing /\ ~writing' /\ open
      BY <1>2, <3>2 DEF Types
    <3>4. CASE /\ file' = f /\ stable' = Len(f)
               /\ ~open' \/ next_sequence' = IF f = <<>> THEN 1 ELSE f[Len(f)].seq + 1
      <4>1. PICK n \in 0 .. Len(file) :
               /\ Len(f) = Len(file) - n
               /\ \A i \in 1 .. Len(f) : Whole(i)' /\ f[i].seq = f[1].seq + i - 1
        BY <1>2, <2>2, <3>1, <3>4, ReplacedSound, Zenon
      <4>2. /\ Len(f) \in Nat /\ \A i \in 1 .. Len(f) - 1 : i \in 1 .. Len(f)
            /\ f # <<>> => Len(f) \in 1 .. Len(f)
        OBVIOUS
      <4> QED
        BY <3>2, <3>3, <3>4, <4>1, <4>2 DEF Sound
    <3>5. CASE /\ UNCHANGED <<file, stable, next_sequence>>
               /\ open' = open \/ ~open'
      BY <2>2, <3>2, <3>3, <3>5 DEF Sound, Whole
    <3> QED
      BY <2>9, <3>1, <3>4, <3>5, Zenon DEF CompactReplace, compact_failed
  <2>10. CASE UNCHANGED <<file, stable, open, next_sequence, writing, staging>>
    BY <2>2, <2>10 DEF Sound, Whole, Suffix
  <2> QED
    BY <1>2, <2>0, <2>3, <2>4, <2>5, <2>6, <2>7, <2>8, <2>9, <2>10, Zenon
    DEF Next, vars, append_failed, SnapshotStage, SnapshotForce, SnapshotRename, SnapshotFailed
<1> QED
  BY <1>1, <1>2, TypesInvariant, PTL DEF Spec

(* Of two whole records the later one has the larger number, as long as no  *)
(* append has failed: append() continues the last number, and open() and    *)
(* compact() resume from the last record they keep.                         *)
THEOREM SequencesGrow == Spec => []SequencesIncrease
<1>1. ASSUME Types, LogInv PROVE SequencesIncrease
  <2>1. SUFFICES ASSUME ~faulted, NEW i \in 1 .. Len(file), NEW j \in 1 .. Len(file), i < j
                 PROVE  file[i].seq < file[j].seq
    BY DEF SequencesIncrease
  <2>2. Sound /\ file \in Seq(Entry) /\ Len(file) \in Nat
    BY <1>1, <2>1 DEF LogInv, Types
  <2>3. PICK a \in Nat : a = file[1].seq
    <3>1. file[1] \in Entry
      BY <2>2
    <3> QED
      BY <3>1 DEF Entry
  <2>4. file[i].seq = a + i - 1 /\ file[j].seq = a + j - 1
    BY <2>2, <2>3, Zenon DEF Sound
  <2> QED
    BY <2>1, <2>4
<1> QED
  BY <1>1, TypesInvariant, LogInvariant, PTL
-----------------------------------------------------------------------------
(* The abstract journal. *)

Rec(i) == [seq |-> file[i].seq, kind |-> file[i].kind]

(* How many records of the file are published.                              *)
Published == IF writing \/ (file # <<>> /\ ~Whole(Len(file))) THEN Len(file) - 1 ELSE Len(file)

(* The refinement mapping, record by record.                                *)
Mapping ==
    /\ Published \in 0 .. Len(file)
    /\ LogOf = [i \in 1 .. Published |-> Rec(i)]
    /\ writing => Len(file) = Published + 1 /\ InflightOf = <<Rec(Published + 1)>>
    /\ ~writing => InflightOf = <<>>

(* In a sound journal the log is the published records of the file, and the *)
(* record in flight is the one after them.                                  *)
LEMMA LogIs ==
    ASSUME Types, Sound
    PROVE  Mapping
<1>0. file \in Seq(Entry) /\ Len(file) \in Nat
  BY DEF Types
<1>1. writing => file # <<>> /\ Whole(Len(file))
  BY <1>0 DEF Types, Sound
<1>2. Published \in 0 .. Len(file)
  BY <1>0, <1>1 DEF Published
<1>3. ASSUME NEW n \in 0 .. Len(file)
      PROVE  Content(SubSeq(file, 1, n)) = [i \in 1 .. n |-> Rec(i)]
  BY <1>0, PrefixIs DEF Content, Rec
<1>4. Content(file) = [i \in 1 .. Len(file) |-> Rec(i)]
  BY DEF Content, Rec
<1>5. LogOf = [i \in 1 .. Published |-> Rec(i)]
  <2>1. CASE writing
    <3>1. WholeRecords = file
      BY <1>1, <2>1 DEF WholeRecords
    <3>2. LogOf = Content(SubSeq(file, 1, Len(file) - 1)) /\ Published = Len(file) - 1
      BY <2>1, <3>1 DEF LogOf, Published
    <3> QED
      BY <1>2, <1>3, <3>2
  <2>2. CASE ~writing
    <3>1. LogOf = Content(WholeRecords)
      BY <2>2 DEF LogOf
    <3>2. CASE file = <<>> \/ Whole(Len(file))
      BY <1>4, <2>2, <3>1, <3>2 DEF WholeRecords, Published
    <3>3. CASE ~(file = <<>> \/ Whole(Len(file)))
      <4>1. WholeRecords = SubSeq(file, 1, Len(file) - 1) /\ Published = Len(file) - 1
        BY <2>2, <3>3 DEF WholeRecords, Published
      <4> QED
        BY <1>2, <1>3, <3>1, <4>1
    <3> QED
      BY <3>2, <3>3
  <2> QED
    BY <2>1, <2>2
<1>6. ASSUME writing PROVE Len(file) = Published + 1 /\ InflightOf = <<Rec(Published + 1)>>
  <2>1. Len(file) = Published + 1 /\ Len(file) \in 1 .. Len(file)
    BY <1>0, <1>1, <1>6 DEF Published
  <2>2. InflightOf = Content(SubSeq(file, Len(file), Len(file)))
    BY <1>6 DEF InflightOf
  <2>3. PICK n, g : n \in 1 .. Len(file) /\ n = Len(file) /\ g = SubSeq(file, n, n)
    BY <2>1, Zenon
  <2>4. Len(g) = 1 /\ g[1] = file[n]
    BY <1>0, <2>3
  <2>5. Content(g) = [i \in 1 .. 1 |-> Rec(n)]
    BY <2>4 DEF Content, Rec
  <2>6. [i \in 1 .. 1 |-> Rec(n)] = <<Rec(n)>>
    OBVIOUS
  <2> QED
    BY <2>1, <2>2, <2>3, <2>5, <2>6
<1>7. ~writing => InflightOf = <<>>
  BY DEF InflightOf
<1> QED
  BY <1>2, <1>5, <1>6, <1>7 DEF Mapping

(* Two files with the same published records map to the same log.           *)
LEMMA SameLog ==
    ASSUME Mapping, Mapping', Published' = Published,
           \A i \in 1 .. Published : file'[i].seq = file[i].seq /\ file'[i].kind = file[i].kind
    PROVE  LogOf' = LogOf
<1>1. LogOf = [i \in 1 .. Published |-> Rec(i)] /\ LogOf' = [i \in 1 .. Published' |-> Rec(i)']
  BY DEF Mapping
<1>2. \A i \in 1 .. Published : Rec(i)' = Rec(i)
  BY DEF Rec
<1> QED
  BY <1>1, <1>2, Zenon

(* A record more, with those before it as they were, is the log with the    *)
(* record in flight appended.                                               *)
LEMMA GrownLog ==
    ASSUME Mapping, Mapping', writing, Published' = Published + 1,
           \A i \in 1 .. Published + 1 : file'[i].seq = file[i].seq /\ file'[i].kind = file[i].kind
    PROVE  LogOf' = LogOf \o InflightOf
<1>1. PICK k \in Nat : k = Published
  BY DEF Mapping
<1>2. /\ LogOf = [i \in 1 .. k |-> Rec(i)] /\ LogOf' = [i \in 1 .. k + 1 |-> Rec(i)']
      /\ InflightOf = <<Rec(k + 1)>>
  BY <1>1 DEF Mapping
<1>3. \A i \in 1 .. k + 1 : Rec(i)' = Rec(i)
  BY <1>1 DEF Rec
<1>4. LogOf' = [i \in 1 .. k + 1 |-> Rec(i)]
  BY <1>2, <1>3, Zenon
<1>5. [i \in 1 .. k |-> Rec(i)] \o <<Rec(k + 1)>> = [i \in 1 .. k + 1 |-> Rec(i)]
  OBVIOUS
<1> QED
  BY <1>2, <1>4, <1>5

(* open() recovers the published records: what it truncates is the record   *)
(* that a crash cut short.                                                  *)
LEMMA OpenImplements ==
    ASSUME Types, Sound, Mapping, Mapping', open_store
    PROVE  J!Open
<1>0. /\ file \in Seq(Entry) /\ Len(file) \in Nat /\ ~open /\ ~writing /\ ~writing'
      /\ open' = TRUE
  BY DEF Types, open_store
<1>1. /\ Scanned \in 0 .. Len(file)
      /\ \A j \in 1 .. Scanned : Acceptable(j)
      /\ Scanned = Len(file) \/ ~Acceptable(Scanned + 1)
  BY <1>0, ScanStops
<1>2. /\ Len(file') = Scanned /\ file' \in Seq(Entry)
      /\ \A i \in 1 .. Scanned : file'[i] = file[i]
  BY <1>0, <1>1, PrefixIs DEF open_store
<1>3. Published' = Scanned
  <2>1. file' # <<>> => Scanned \in 1 .. Scanned
    BY <1>1, <1>2
  <2>2. file' # <<>> => Whole(Len(file))'
    BY <1>1, <1>2, <2>1 DEF Acceptable, Whole
  <2> QED
    BY <1>0, <1>2, <2>2 DEF Published
<1>4. Published = Scanned
  <2>1. CASE Scanned = Len(file)
    <3>1. file # <<>> => Len(file) \in 1 .. Scanned
      BY <1>0, <2>1
    <3>2. file # <<>> => Whole(Len(file))
      BY <1>1, <3>1 DEF Acceptable
    <3> QED
      BY <1>0, <2>1, <3>2 DEF Published
  <2>2. CASE Scanned # Len(file)
    <3>1. ~Whole(Scanned + 1)
      <4>1. Scanned < Len(file)
        BY <1>0, <1>1, <2>2
      <4> QED
        BY <4>1 DEF open_store, ScanOutcome, Refused, TornTail
    <3>2. Scanned + 1 \notin 1 .. Len(file) - 1
      BY <3>1 DEF Sound
    <3>3. Scanned + 1 = Len(file)
      BY <1>0, <1>1, <2>2, <3>2
    <3>4. file # <<>> /\ ~Whole(Len(file))
      BY <1>0, <1>1, <3>1, <3>3
    <3> QED
      BY <1>0, <1>1, <3>3, <3>4 DEF Published
  <2> QED
    BY <2>1, <2>2
<1>5. LogOf' = LogOf
  BY <1>2, <1>3, <1>4, SameLog
<1>6. InflightOf' = InflightOf
  BY <1>0 DEF Mapping
<1> QED
  BY <1>0, <1>5, <1>6 DEF J!Open

(* append() begins the record that continues the log.                       *)
LEMMA AppendImplements ==
    ASSUME Types, Sound, Mapping, Mapping', NEW kind \in RecordKinds, append(kind)
    PROVE  J!Begin(kind)
<1>0. /\ file \in Seq(Entry) /\ Len(file) \in Nat /\ open /\ open' = open
      /\ ~writing /\ writing' = TRUE
  BY DEF Types, append
<1>1. /\ Sound' /\ Len(file') = Len(file) + 1
      /\ \A i \in 1 .. Len(file) : file'[i] = file[i]
      /\ file'[Len(file) + 1].seq = next_sequence /\ file'[Len(file) + 1].kind = kind
  BY AppendSound
<1>2. PICK k \in Nat : k = Len(file)
  BY <1>0
<1>3. Published = k /\ Published' = k
  <2>1. Published = k
    BY <1>0, <1>2 DEF Published, Sound
  <2>2. Published' = Len(file') - 1
    BY <1>0 DEF Published
  <2> QED
    BY <1>1, <1>2, <2>1, <2>2
<1>4. LogOf' = LogOf
  BY <1>1, <1>2, <1>3, SameLog
<1>5. InflightOf = <<>> /\ InflightOf' = <<[seq |-> next_sequence, kind |-> kind]>>
  <2>1. InflightOf' = <<Rec(k + 1)'>>
    BY <1>0, <1>3 DEF Mapping
  <2>2. Rec(k + 1)' = [seq |-> next_sequence, kind |-> kind]
    BY <1>1, <1>2 DEF Rec
  <2> QED
    BY <1>0, <2>1, <2>2 DEF Mapping
<1>6. next_sequence = J!NextSeq
  <2>1. LogOf = [i \in 1 .. k |-> Rec(i)]
    BY <1>3 DEF Mapping
  <2>2. CASE k = 0
    <3>1. file = <<>> /\ LogOf = <<>>
      <4>2. 1 .. k = {}
        BY <2>2
      <4>1. file = <<>>
        <5>1. file = [i \in 1 .. k |-> file[i]]
          BY <1>0, <1>2
        <5>2. file = [i \in {} |-> file[i]]
          BY <4>2, <5>1, Zenon
        <5> QED
          BY <5>2
      <4>3. LogOf = [i \in {} |-> Rec(i)]
        BY <2>1, <4>2, Zenon
      <4> QED
        BY <4>1, <4>3
    <3> QED
      BY <1>0, <3>1 DEF Sound, J!NextSeq
  <2>3. CASE k # 0
    <3>1. LogOf # <<>> /\ Len(LogOf) = k /\ LogOf[k] = Rec(k)
      BY <2>1, <2>3
    <3>2. file # <<>>
      BY <1>0, <1>2, <2>3
    <3>3. next_sequence = file[k].seq + 1
      BY <1>0, <1>2, <3>2 DEF Sound
    <3>4. Rec(k).seq = file[k].seq
      BY DEF Rec
    <3> QED
      BY <3>1, <3>3, <3>4 DEF J!NextSeq
  <2> QED
    BY <2>2, <2>3
<1> QED
  BY <1>0, <1>4, <1>5, <1>6 DEF J!Begin

(* The forced record is published.                                          *)
LEMMA PublishImplements ==
    ASSUME Types, Sound, Mapping, Mapping', publish
    PROVE  J!Publish
<1>0. /\ file \in Seq(Entry) /\ Len(file) \in Nat /\ open' = open /\ file' = file
      /\ writing /\ ~writing' /\ open /\ file # <<>>
  BY DEF Types, publish
<1>1. Len(file) = Published + 1
  BY <1>0 DEF Mapping
<1>2. Published' = Published + 1
  BY <1>0, <1>1 DEF Published, Sound, Whole
<1>3. LogOf' = LogOf \o InflightOf
  BY <1>0, <1>2, GrownLog
<1>4. InflightOf' = <<>> /\ InflightOf # <<>>
  <2>1. <<Rec(Published + 1)>> # <<>>
    OBVIOUS
  <2> QED
    BY <1>0, <2>1, Zenon DEF Mapping
<1> QED
  BY <1>0, <1>3, <1>4 DEF J!Publish

(* A crash loses no published record.  Of the record in flight it keeps all *)
(* or the log is as before.                                                 *)
LEMMA CrashImplements ==
    ASSUME Types, Types', Sound, Mapping, Mapping', Crash
    PROVE  J!Crash
<1>0. /\ file \in Seq(Entry) /\ Len(file) \in Nat /\ file' \in Seq(Entry) /\ Len(file') \in Nat
      /\ open' = FALSE /\ ~writing'
  BY DEF Types, Crash
<1>1. /\ Len(file') \in stable .. Len(file)
      /\ \A i \in 1 .. stable : file'[i] = file[i]
      /\ \A i \in 1 .. Len(file') : file'[i].seq = file[i].seq /\ file'[i].kind = file[i].kind
  BY CrashKeeps
<1>2. InflightOf' = <<>>
  BY <1>0 DEF Mapping
<1>3. CASE ~writing
  <2>1. stable = Len(file) /\ Len(file') = Len(file)
    BY <1>0, <1>1, <1>3 DEF Sound
  <2>2. file' = [i \in 1 .. Len(file') |-> file'[i]] /\ file = [i \in 1 .. Len(file) |-> file[i]]
    BY <1>0
  <2>3. file' = file
    BY <1>1, <2>1, <2>2, Zenon
  <2>4. Published' = Published
    BY <1>0, <1>3, <2>3 DEF Published, Whole
  <2>5. LogOf' = LogOf
    BY <2>3, <2>4, SameLog
  <2> QED
    BY <1>0, <1>2, <2>5 DEF J!Crash
<1>4. CASE writing
  <2>1. stable = Len(file) - 1 /\ Len(file) = Published + 1 /\ Published \in Nat
    BY <1>0, <1>4 DEF Sound, Mapping
  <2>2. \A i \in 1 .. Published : file'[i].seq = file[i].seq /\ file'[i].kind = file[i].kind
    BY <1>1, <2>1
  <2>3. CASE Published' = Published
    BY <1>0, <1>2, <2>2, <2>3, SameLog DEF J!Crash
  <2>4. CASE Published' = Published + 1
    <3>1. Len(file') = Published + 1
      BY <1>0, <1>1, <2>1, <2>4 DEF Mapping
    <3>2. LogOf' = LogOf \o InflightOf
      BY <1>1, <1>4, <2>4, <3>1, GrownLog
    <3> QED
      BY <1>0, <1>2, <3>2 DEF J!Crash
  <2>5. Published' \in {Published, Published + 1}
    <3>1. CASE Len(file') = Published + 1
      BY <1>0, <2>1, <3>1 DEF Published
    <3>2. CASE Len(file') = Published
      <4>1. file' # <<>> => Published \in 1 .. Len(file) - 1
        BY <1>0, <2>1, <3>2
      <4>2. file' # <<>> => Whole(Published)
        BY <4>1 DEF Sound
      <4>3. file' # <<>> => Whole(Len(file))'
        BY <1>1, <2>1, <3>2, <4>1, <4>2 DEF Whole
      <4> QED
        BY <1>0, <3>2, <4>3 DEF Published
    <3> QED
      BY <1>0, <1>1, <2>1, <3>1, <3>2
  <2> QED
    BY <2>3, <2>4, <2>5
<1> QED
  BY <1>3, <1>4

(* Compaction drops a prefix of the log or, where it fails, nothing.        *)
LEMMA CompactImplements ==
    ASSUME Types, Sound, Sound', Mapping, Mapping', CompactReplace \/ compact_failed
    PROVE  J!Compact \/ J!Crash \/ UNCHANGED <<LogOf, InflightOf, open>>
<1>0. file \in Seq(Entry) /\ Len(file) \in Nat
  BY DEF Types
<1>1. staging # <<>> /\ writing' = writing
  BY DEF CompactReplace, compact_failed
<1>2. PICK f \in Seq(Entry) : staging = <<f>> /\ staging[1] = f
  BY <1>1 DEF Types
<1>3. ~writing /\ ~writing' /\ open
  BY <1>1 DEF Types
<1>4. InflightOf = <<>> /\ InflightOf' = <<>>
  BY <1>3 DEF Mapping
<1>5. open' = open \/ open' = FALSE
  BY Zenon DEF CompactReplace, compact_failed
<1>6. CASE file' = f
  <2>1. PICK n \in 0 .. Len(file) :
           /\ Len(f) = Len(file) - n
           /\ \A i \in 1 .. Len(f) :
                 /\ n + i \in 1 .. Len(file) /\ Whole(i)'
                 /\ f[i].seq = file[n + i].seq /\ f[i].kind = file[n + i].kind
    BY <1>2, <1>6, ReplacedSound
  <2>2. PICK k \in Nat, m \in Nat : k = Len(file) /\ m = Len(f) /\ m = k - n
    BY <1>0, <2>1
  <2>3. LogOf = [i \in 1 .. k |-> Rec(i)]
    <3>1. Published = k
      BY <1>3, <2>2 DEF Published, Sound
    <3> QED
      BY <3>1 DEF Mapping
  <2>4. LogOf' = [i \in 1 .. m |-> Rec(i)']
    <3>1. f # <<>> => Len(f) \in 1 .. Len(f)
      OBVIOUS
    <3>2. file' # <<>> => Whole(Len(file))'
      BY <1>6, <2>1, <3>1
    <3>3. Published' = m
      BY <1>3, <1>6, <2>2, <3>2 DEF Published
    <3> QED
      BY <3>3 DEF Mapping
  <2>5. \A i \in 1 .. m : Rec(i)' = Rec(n + i)
    BY <1>6, <2>1, <2>2 DEF Rec
  <2>6. LogOf' = [i \in 1 .. m |-> Rec(n + i)]
    BY <2>4, <2>5, Zenon
  <2>7. Len(LogOf) = k /\ n \in 0 .. Len(LogOf)
    BY <2>2, <2>3
  <2>8. SubSeq(LogOf, n + 1, Len(LogOf)) = [i \in 1 .. m |-> Rec(n + i)]
    BY <2>2, <2>3, <2>7
  <2>9. open' \in BOOLEAN
    BY <1>3, <1>5, Zenon
  <2> QED
    BY <1>3, <1>4, <2>6, <2>7, <2>8, <2>9, Zenon DEF J!Compact
<1>7. CASE file' = file
  <2>1. Published' = Published
    BY <1>3, <1>7 DEF Published, Whole
  <2>2. LogOf' = LogOf
    BY <1>7, <2>1, SameLog
  <2> QED
    BY <1>4, <1>5, <2>2 DEF J!Crash
<1> QED
  BY <1>2, <1>6, <1>7, Zenon DEF CompactReplace, compact_failed

(* The mapping in every state in which no append has failed.                *)
MappingInv == ~faulted => Mapping

(* The store implements the abstract journal as long as no append fails:    *)
(* every step of the store is a step of the journal or leaves its log, its  *)
(* record in flight and whether it is up as they are.                       *)
THEOREM JournalImplemented == Spec => ImplementsJournal
<1>1. Init => J!Init
  <2>1. ASSUME Init PROVE LogOf = <<>> /\ InflightOf = <<>> /\ open = FALSE
    <3>1. file = <<>> /\ writing = FALSE /\ open = FALSE
      BY <2>1 DEF Init
    <3>2. LogOf = Content(<<>>) /\ InflightOf = <<>>
      BY <3>1 DEF LogOf, InflightOf, WholeRecords
    <3>3. Content(<<>>) = <<>>
      BY DEF Content
    <3> QED
      BY <3>1, <3>2, <3>3
  <2> QED
    BY <2>1 DEF J!Init
<1>2. Types /\ LogInv => MappingInv
  BY LogIs DEF LogInv, MappingInv
<1>3. ASSUME Types, Types', LogInv, LogInv', MappingInv, MappingInv', [Next]_vars
      PROVE  [faulted' \/ J!Next]_<<LogOf, InflightOf, open>>
  <2>0. SUFFICES ASSUME ~faulted'
                 PROVE  J!Next \/ UNCHANGED <<LogOf, InflightOf, open>>
    OBVIOUS
  <2>1. ~faulted
    BY <1>3, <2>0, Zenon
    DEF Next, vars, open_store, append, publish, append_failed, sync, close, Crash, CompactStage,
        CompactReplace, compact_failed, SnapshotStage, SnapshotForce, SnapshotRename, SnapshotFailed
  <2>2. Sound /\ Sound' /\ Mapping /\ Mapping'
    BY <1>3, <2>0, <2>1 DEF LogInv, MappingInv
  <2>3. CASE open_store
    BY <1>3, <2>2, <2>3, OpenImplements DEF J!Next
  <2>4. ASSUME NEW kind \in RecordKinds, append(kind) PROVE J!Next
    BY <1>3, <2>2, <2>4, AppendImplements DEF J!Next
  <2>5. CASE publish
    BY <1>3, <2>2, <2>5, PublishImplements DEF J!Next
  <2>6. CASE Crash
    BY <1>3, <2>2, <2>6, CrashImplements DEF J!Next
  <2>7. CASE CompactReplace \/ compact_failed
    BY <1>3, <2>2, <2>7, CompactImplements DEF J!Next
  <2>8. CASE UNCHANGED <<file, writing>>
    <3>1. Published' = Published
      BY <2>8 DEF Published, Whole
    <3>2. LogOf' = LogOf
      BY <2>2, <2>8, <3>1, SameLog
    <3>3. InflightOf' = InflightOf
      BY <2>8, Zenon DEF InflightOf, Content
    <3>4. CASE close
      <4>1. ~writing /\ open' = FALSE
        BY <3>4 DEF close
      <4>2. InflightOf' = <<>>
        BY <2>2, <3>3, <4>1 DEF Mapping
      <4> QED
        BY <3>2, <4>1, <4>2 DEF J!Crash, J!Next
    <3>5. CASE open' = open
      BY <3>2, <3>3, <3>5
    <3> QED
      BY <1>3, <2>3, <2>4, <2>5, <2>6, <2>7, <2>0, <3>4, <3>5, Zenon
      DEF Next, vars, append_failed, sync, CompactStage, SnapshotStage, SnapshotForce,
          SnapshotRename, SnapshotFailed
  <2> QED
    BY <1>3, <2>0, <2>3, <2>4, <2>5, <2>6, <2>7, <2>8, Zenon
    DEF Next, vars, append_failed, sync, close, CompactStage, SnapshotStage, SnapshotForce,
        SnapshotRename, SnapshotFailed
<1> QED
  BY <1>1, <1>2, <1>3, TypesInvariant, LogInvariant, PTL DEF Spec, ImplementsJournal
=============================================================================
