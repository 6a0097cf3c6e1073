----------------------- MODULE SnapshotBinding_proofs -----------------------
(***************************************************************************)
(* Proofs about what is done with a configuration: SnapshotManager, for    *)
(* any number of callers and snapshots, and Binding and Validation, for    *)
(* any struct types, rules and maps.                                       *)
(***************************************************************************)
EXTENDS SnapshotManager, Validation,
        FiniteSetTheorems, SequenceTheorems, WellFoundedInduction, TLAPS

USE DEF mgrVars, takeVars, readVars, snapVars

-----------------------------------------------------------------------------
(* The inductive invariant: what is stored is ordered and not ahead of the *)
(* counters, and a search has discarded no index that could be its answer. *)

Counted ==
    \A i \in 1..Len(snaps) : snaps[i].id <= nextID /\ snaps[i].at <= now

Bounds ==
    \A r \in Readers :
        pc[r] \in {"get", "at"} => left[r] \in 1..right[r] + 1 /\ right[r] \in 0..Len(snaps)

GetKeeps ==
    \A r \in Readers : pc[r] = "get" =>
        \A i \in 1..Len(snaps) : snaps[i].id = arg[r] => i \in left[r]..right[r]

AtKeeps ==
    \A r \in Readers : pc[r] = "at" =>
        /\ left[r] <= right[r]
        /\ \A i \in right[r] + 1..Len(snaps) : snaps[i].at > arg[r]
        /\ left[r] = 1 \/ snaps[left[r]].at <= arg[r]

Searching == Bounds /\ GetKeeps /\ AtKeeps /\ GetIsExact /\ AtIsLastBefore

SnapshotInv == SnapTypeOK /\ Ordered /\ Counted /\ Searching

-----------------------------------------------------------------------------
(* The manager keeps a suffix of what it stores.                           *)

\* The part of an ordered sequence from one index on is ordered.
LEMMA SuffixOrdered ==
    ASSUME SnapTypeOK, Ordered, Counted, NEW k \in 1..Len(snaps) + 1,
           snaps' = SubSeq(snaps, k, Len(snaps)), nextID' = nextID, now' = now
    PROVE  snaps' \in Seq(Snapshot) /\ Ordered' /\ Counted'
<1> DEFINE n == Len(snaps)
<1>1. snaps \in Seq(Snapshot) /\ n \in Nat
  BY DEF SnapTypeOK
<1>2. /\ snaps' \in Seq(Snapshot)
      /\ Len(snaps') = n - k + 1
      /\ \A i \in 1..Len(snaps') : snaps'[i] = snaps[i + k - 1]
  BY <1>1
<1>3. \A i \in 1..Len(snaps') : i + k - 1 \in 1..n
  BY <1>1, <1>2
<1>4. Ordered'
  <2>1. Len(snaps') <= MaxSize
    BY <1>1, <1>2, SnapshotAssumption DEF Ordered
  <2> SUFFICES ASSUME NEW i \in 1..Len(snaps'), NEW j \in 1..Len(snaps'), i < j
               PROVE  snaps'[i].id < snaps'[j].id /\ snaps'[i].at <= snaps'[j].at
    BY <2>1 DEF Ordered
  <2>2. i + k - 1 < j + k - 1
    BY <1>1, <1>2
  <2> QED  BY <2>2, <1>2, <1>3 DEF Ordered
<1>5. Counted'
  BY <1>2, <1>3 DEF Counted
<1> QED  BY <1>2, <1>4, <1>5

\* When every reader is idle nothing is said of a search.
LEMMA IdleSearching == Unlocked /\ pc' = pc => Searching'
BY DEF Unlocked, Searching, Bounds, GetKeeps, AtKeeps, GetIsExact, AtIsLastBefore

\* Prune computes an index within the snapshots.
LEMMA OldCount ==
    ASSUME SnapTypeOK, NEW cutoff \in Nat
    PROVE  Cardinality(Old(cutoff)) \in 0..Len(snaps)
<1>1. Len(snaps) \in Nat
  BY DEF SnapTypeOK
<1>2. IsFiniteSet(1..Len(snaps)) /\ Cardinality(1..Len(snaps)) = Len(snaps)
  <2>1. /\ IsFiniteSet(1..Len(snaps))
        /\ Cardinality(1..Len(snaps)) = IF 1 > Len(snaps) THEN 0 ELSE Len(snaps) - 1 + 1
    BY <1>1, FS_Interval
  <2> QED  BY <1>1, <2>1
<1>3. Old(cutoff) \subseteq 1..Len(snaps)
  BY DEF Old
<1>4. IsFiniteSet(Old(cutoff)) /\ Cardinality(Old(cutoff)) <= Cardinality(1..Len(snaps))
  BY <1>2, <1>3, FS_Subset
<1>5. Cardinality(Old(cutoff)) \in Nat
  BY <1>4, FS_CardinalityType
<1> QED  BY <1>1, <1>2, <1>4, <1>5

LEMMA TakeKeeps ==
    ASSUME SnapshotInv, NEW t \in Takers, Take(t)
    PROVE  SnapshotInv'
<1> DEFINE n == Len(snaps)
           new == [id |-> nextID + 1, at |-> now, conf |-> read[t], overlap |-> overlaps[t]]
           full == Append(snaps, new)
<1>1. SnapTypeOK /\ Ordered /\ Counted
  BY DEF SnapshotInv
<1>2. snaps \in Seq(Snapshot) /\ n \in Nat /\ nextID \in Nat /\ now \in Nat
  BY <1>1, SnapshotAssumption DEF SnapTypeOK
<1>3. new \in Snapshot /\ new.id = nextID + 1 /\ new.at = now
  BY <1>1, SnapshotAssumption DEF SnapTypeOK, Snapshot, Take
<1> HIDE DEF new
<1>4. /\ full \in Seq(Snapshot) /\ Len(full) = n + 1
      /\ \A i \in 1..n : full[i] = snaps[i]
      /\ full[n + 1] = new
  BY <1>2, <1>3
<1>5. \A i \in 1..n : /\ snaps[i].id \in Nat /\ snaps[i].at \in Nat
                      /\ snaps[i].id < new.id /\ snaps[i].at <= new.at
  <2> SUFFICES ASSUME NEW i \in 1..n
               PROVE  /\ snaps[i].id \in Nat /\ snaps[i].at \in Nat
                      /\ snaps[i].id < new.id /\ snaps[i].at <= new.at
    OBVIOUS
  <2>1. snaps[i] \in Snapshot
    BY <1>2
  <2>2. snaps[i].id \in Nat /\ snaps[i].at \in Nat
    BY <2>1, SnapshotAssumption DEF Snapshot
  <2>3. snaps[i].id <= nextID /\ snaps[i].at <= now
    BY <1>1 DEF Counted
  <2> QED  BY <2>2, <2>3, <1>2, <1>3
<1>6. \A i, j \in 1..n + 1 : i < j => full[i].id < full[j].id /\ full[i].at <= full[j].at
  <2> SUFFICES ASSUME NEW i \in 1..n + 1, NEW j \in 1..n + 1, i < j
               PROVE  full[i].id < full[j].id /\ full[i].at <= full[j].at
    OBVIOUS
  <2>1. CASE j = n + 1
    BY <2>1, <1>2, <1>4, <1>5
  <2>2. CASE j # n + 1
    <3>1. i \in 1..n /\ j \in 1..n
      BY <2>2, <1>2
    <3> QED  BY <3>1, <1>1, <1>4 DEF Ordered
  <2> QED  BY <2>1, <2>2
<1>7. \A i \in 1..n + 1 : full[i].id <= nextID + 1 /\ full[i].at <= now
  <2> SUFFICES ASSUME NEW i \in 1..n + 1
               PROVE  full[i].id <= nextID + 1 /\ full[i].at <= now
    OBVIOUS
  <2>1. CASE i = n + 1
    BY <2>1, <1>2, <1>3, <1>4
  <2>2. CASE i # n + 1
    <3>1. i \in 1..n
      BY <2>2, <1>2
    <3> QED  BY <3>1, <1>2, <1>3, <1>4, <1>5
  <2> QED  BY <2>1, <2>2
<1>8. snaps' = Keep(full) /\ nextID' = nextID + 1 /\ now' = now
  BY DEF Take, new
<1>9. n <= MaxSize /\ MaxSize \in Nat \ {0}
  BY <1>1, SnapshotAssumption DEF Ordered
<1> HIDE DEF full
<1>10. snaps' \in Seq(Snapshot) /\ Ordered' /\ Counted'
  <2>1. CASE n + 1 <= MaxSize
    <3>1. snaps' = full
      BY <2>1, <1>2, <1>4, <1>8, <1>9 DEF Keep
    <3> QED  BY <3>1, <2>1, <1>4, <1>6, <1>7, <1>8 DEF Ordered, Counted
  <2>2. CASE n + 1 > MaxSize
    <3>1. snaps' = Tail(full)
      BY <2>2, <1>2, <1>4, <1>8, <1>9 DEF Keep
    <3>2. /\ snaps' \in Seq(Snapshot) /\ Len(snaps') = n
          /\ \A i \in 1..n : snaps'[i] = full[i + 1] /\ i + 1 \in 1..n + 1
      BY <3>1, <1>2, <1>4
    <3>3. Ordered'
      <4>1. Len(snaps') <= MaxSize
        BY <3>2, <1>9
      <4> SUFFICES ASSUME NEW i \in 1..n, NEW j \in 1..n, i < j
                   PROVE  snaps'[i].id < snaps'[j].id /\ snaps'[i].at <= snaps'[j].at
        BY <3>2, <4>1 DEF Ordered
      <4>2. i + 1 < j + 1
        BY <1>2
      <4> QED  BY <3>2, <1>6, <4>2
    <3>4. Counted'
      BY <3>2, <1>7, <1>8 DEF Counted
    <3> QED  BY <3>2, <3>3, <3>4
  <2> QED  BY <2>1, <2>2, <1>2, <1>9
<1>11. SnapTypeOK'
  BY <1>1, <1>2, <1>10, SnapshotAssumption DEF SnapTypeOK, Take
<1>12. Searching'
  BY IdleSearching DEF Take
<1> QED  BY <1>10, <1>11, <1>12 DEF SnapshotInv

-----------------------------------------------------------------------------
(* A search.  The manager does not change while it runs.                   *)

\* The manager is left alone and the search variables keep their types.
Held == UNCHANGED <<mgrVars, now, conf, takeVars>>

LEMMA HeldKeeps ==
    ASSUME SnapshotInv, Held,
           pc' \in [Readers -> {"idle", "get", "at", "got", "atdone"}],
           arg' \in [Readers -> Nat], left' \in [Readers -> Nat],
           right' \in [Readers -> Nat], res' \in [Readers -> Nat]
    PROVE  SnapTypeOK' /\ Ordered' /\ Counted'
BY DEF SnapshotInv, SnapTypeOK, Ordered, Counted, Held

\* The other readers are where they were.
Others(r) ==
    \A q \in Readers \ {r} :
        /\ pc'[q] = pc[q] /\ arg'[q] = arg[q] /\ res'[q] = res[q]
        /\ left'[q] = left[q] /\ right'[q] = right[q]

\* What Searching says of one reader.
Sound(r) ==
    /\ pc[r] \in {"get", "at"} => left[r] \in 1..right[r] + 1 /\ right[r] \in 0..Len(snaps)
    /\ pc[r] = "get" =>
          \A i \in 1..Len(snaps) : snaps[i].id = arg[r] => i \in left[r]..right[r]
    /\ pc[r] = "at" =>
          /\ left[r] <= right[r]
          /\ \A i \in right[r] + 1..Len(snaps) : snaps[i].at > arg[r]
          /\ left[r] = 1 \/ snaps[left[r]].at <= arg[r]
    /\ pc[r] = "got" =>
          IF \E i \in 1..Len(snaps) : snaps[i].id = arg[r]
          THEN res[r] \in 1..Len(snaps) /\ snaps[res[r]].id = arg[r]
          ELSE res[r] = 0
    /\ pc[r] = "atdone" =>
          /\ res[r] \in 1..Len(snaps)
          /\ \A i \in res[r] + 1..Len(snaps) : snaps[i].at > arg[r]
          /\ snaps[res[r]].at <= arg[r] \/ res[r] = 1

LEMMA SearchingIsSound == Searching <=> \A r \in Readers : Sound(r)
BY DEF Searching, Bounds, GetKeeps, AtKeeps, GetIsExact, AtIsLastBefore, Sound

LEMMA OneReader ==
    ASSUME Searching, NEW r \in Readers, Held, Others(r), Sound(r)'
    PROVE  Searching'
<1>1. \A q \in Readers \ {r} : Sound(q)'
  BY SearchingIsSound DEF Held, Others, Sound
<1>2. (\A q \in Readers : Sound(q))'
  BY <1>1
<1>3. Searching' <=> (\A q \in Readers : Sound(q))'
  BY DEF Searching, Bounds, GetKeeps, AtKeeps, GetIsExact, AtIsLastBefore, Sound
<1> QED  BY <1>2, <1>3

LEMMA Elements ==
    ASSUME SnapTypeOK
    PROVE  /\ Len(snaps) \in Nat
           /\ \A i \in 1..Len(snaps) : snaps[i].id \in Nat /\ snaps[i].at \in Nat
<1>1. snaps \in Seq(Snapshot) /\ Len(snaps) \in Nat
  BY DEF SnapTypeOK
<1>2. \A i \in 1..Len(snaps) : snaps[i] \in Snapshot
  BY <1>1
<1> QED  BY <1>1, <1>2, SnapshotAssumption DEF Snapshot

LEMMA SearchKeeps ==
    ASSUME SnapshotInv, NEW r \in Readers, NEW to \in {"get", "at"}, NEW a \in Nat,
           to = "at" => snaps # <<>>, Search(r, to, a)
    PROVE  SnapshotInv'
<1>1. SnapTypeOK /\ Searching
  BY DEF SnapshotInv
<1>2. Len(snaps) \in Nat /\ (to = "at" => Len(snaps) > 0)
  BY <1>1, Elements DEF SnapTypeOK
<1>3. /\ pc'[r] = to /\ arg'[r] = a /\ left'[r] = 1 /\ right'[r] = Len(snaps)
      /\ snaps' = snaps
  BY <1>1 DEF Search, SnapTypeOK
<1>4. Held /\ Others(r)
  BY <1>1 DEF Search, Held, Others, SnapTypeOK
<1>5. Sound(r)'
  BY <1>2, <1>3 DEF Sound
<1>6. SnapTypeOK' /\ Ordered' /\ Counted'
  BY <1>1, <1>2, <1>4, HeldKeeps DEF Search, SnapTypeOK
<1>7. Searching'
  BY <1>1, <1>4, <1>5, OneReader
<1> QED  BY <1>6, <1>7 DEF SnapshotInv

\* A search that narrows its bounds keeps the indices that may be its answer.
LEMMA NarrowKeeps ==
    ASSUME SnapshotInv, NEW r \in Readers, NEW l \in Nat, NEW h \in Nat,
           pc[r] \in {"get", "at"}, Narrow(r, l, h),
           l \in 1..h + 1, h \in 0..Len(snaps),
           pc[r] = "get" =>
               \A i \in 1..Len(snaps) : snaps[i].id = arg[r] => i \in l..h,
           pc[r] = "at" =>
               /\ l <= h
               /\ \A i \in h + 1..Len(snaps) : snaps[i].at > arg[r]
               /\ l = 1 \/ snaps[l].at <= arg[r]
    PROVE  SnapshotInv'
<1>1. SnapTypeOK /\ Searching
  BY DEF SnapshotInv
<1>2. /\ pc'[r] = pc[r] /\ arg'[r] = arg[r] /\ left'[r] = l /\ right'[r] = h
      /\ snaps' = snaps
  BY <1>1 DEF Narrow, SnapTypeOK
<1>3. Held /\ Others(r)
  BY <1>1 DEF Narrow, Held, Others, SnapTypeOK
<1>4. Sound(r)'
  BY <1>2 DEF Sound
<1>5. SnapTypeOK' /\ Ordered' /\ Counted'
  BY <1>1, <1>3, HeldKeeps DEF Narrow, SnapTypeOK
<1>6. Searching'
  BY <1>1, <1>3, <1>4, OneReader
<1> QED  BY <1>5, <1>6 DEF SnapshotInv

LEMMA AnswerKeeps ==
    ASSUME SnapshotInv, NEW r \in Readers, NEW to \in {"got", "atdone"}, NEW k \in Nat,
           Answer(r, to, k),
           to = "got" =>
               IF \E i \in 1..Len(snaps) : snaps[i].id = arg[r]
               THEN k \in 1..Len(snaps) /\ snaps[k].id = arg[r]
               ELSE k = 0,
           to = "atdone" =>
               /\ k \in 1..Len(snaps)
               /\ \A i \in k + 1..Len(snaps) : snaps[i].at > arg[r]
               /\ snaps[k].at <= arg[r] \/ k = 1
    PROVE  SnapshotInv'
<1>1. SnapTypeOK /\ Searching
  BY DEF SnapshotInv
<1>2. pc'[r] = to /\ arg'[r] = arg[r] /\ res'[r] = k /\ snaps' = snaps
  BY <1>1 DEF Answer, SnapTypeOK
<1>3. Held /\ Others(r)
  BY <1>1 DEF Answer, Held, Others, SnapTypeOK
<1>4. Sound(r)'
  BY <1>2 DEF Sound
<1>5. SnapTypeOK' /\ Ordered' /\ Counted'
  BY <1>1, <1>3, HeldKeeps DEF Answer, SnapTypeOK
<1>6. Searching'
  BY <1>1, <1>3, <1>4, OneReader
<1> QED  BY <1>5, <1>6 DEF SnapshotInv

LEMMA GetStepKeeps ==
    ASSUME SnapshotInv, NEW r \in Readers, GetStep(r)
    PROVE  SnapshotInv'
<1> DEFINE n == Len(snaps)
           mid == (left[r] + right[r]) \div 2
<1>1. SnapTypeOK /\ Ordered /\ Sound(r)
  BY SearchingIsSound DEF SnapshotInv
<1>2. n \in Nat /\ \A i \in 1..n : snaps[i].id \in Nat
  BY <1>1, Elements
<1>3. /\ pc[r] = "get" /\ left[r] <= right[r] /\ left[r] \in Nat /\ right[r] \in Nat
      /\ left[r] >= 1 /\ right[r] <= n /\ arg[r] \in Nat
      /\ \A i \in 1..n : snaps[i].id = arg[r] => i \in left[r]..right[r]
  BY <1>1 DEF GetStep, SnapTypeOK, Sound
<1>4. mid \in Nat /\ left[r] <= mid /\ mid <= right[r] /\ mid \in 1..n
  BY <1>2, <1>3
<1>5. \A i, j \in 1..n : i < j => snaps[i].id < snaps[j].id
  BY <1>1 DEF Ordered
<1>6. \/ snaps[mid].id = arg[r] /\ Answer(r, "got", mid)
      \/ snaps[mid].id < arg[r] /\ Narrow(r, mid + 1, right[r])
      \/ snaps[mid].id > arg[r] /\ Narrow(r, left[r], mid - 1)
  BY DEF GetStep
<1> HIDE DEF mid
<1>7. CASE snaps[mid].id = arg[r] /\ Answer(r, "got", mid)
  BY <1>4, <1>7, AnswerKeeps
<1>8. CASE snaps[mid].id < arg[r] /\ Narrow(r, mid + 1, right[r])
  <2>1. ASSUME NEW i \in 1..n, snaps[i].id = arg[r] PROVE i > mid
    <3>1. i # mid
      BY <1>8, <2>1, <1>2, <1>3, <1>4
    <3>2. ~(i < mid)
      <4>1. i < mid => snaps[i].id < snaps[mid].id
        BY <1>4, <1>5
      <4> QED  BY <1>2, <1>3, <1>4, <1>8, <2>1, <4>1
    <3> QED  BY <1>2, <1>4, <3>1, <3>2
  <2>2. \A i \in 1..n : snaps[i].id = arg[r] => i \in mid + 1..right[r]
    BY <2>1, <1>3, <1>4
  <2>3. mid + 1 \in 1..right[r] + 1 /\ right[r] \in 0..n
    BY <1>2, <1>3, <1>4
  <2> QED  BY <1>3, <1>4, <1>8, <2>2, <2>3, NarrowKeeps
<1>9. CASE snaps[mid].id > arg[r] /\ Narrow(r, left[r], mid - 1)
  <2>1. ASSUME NEW i \in 1..n, snaps[i].id = arg[r] PROVE i < mid
    <3>1. i # mid
      BY <1>9, <2>1, <1>2, <1>3, <1>4
    <3>2. ~(mid < i)
      <4>1. mid < i => snaps[mid].id < snaps[i].id
        BY <1>4, <1>5
      <4> QED  BY <1>2, <1>3, <1>4, <1>9, <2>1, <4>1
    <3> QED  BY <1>2, <1>4, <3>1, <3>2
  <2>2. \A i \in 1..n : snaps[i].id = arg[r] => i \in left[r]..mid - 1
    BY <2>1, <1>3, <1>4
  <2>3. left[r] \in 1..(mid - 1) + 1 /\ mid - 1 \in 0..n /\ mid - 1 \in Nat
    BY <1>2, <1>3, <1>4
  <2> QED  BY <1>3, <1>4, <1>9, <2>2, <2>3, NarrowKeeps
<1> QED  BY <1>6, <1>7, <1>8, <1>9

LEMMA AtStepKeeps ==
    ASSUME SnapshotInv, NEW r \in Readers, AtStep(r)
    PROVE  SnapshotInv'
<1> DEFINE n == Len(snaps)
           mid == Middle(r)
<1>1. SnapTypeOK /\ Ordered /\ Sound(r)
  BY SearchingIsSound DEF SnapshotInv
<1>2. n \in Nat /\ \A i \in 1..n : snaps[i].at \in Nat
  BY <1>1, Elements
<1>3. /\ pc[r] = "at" /\ left[r] < right[r] /\ left[r] \in Nat /\ right[r] \in Nat
      /\ left[r] >= 1 /\ right[r] <= n /\ arg[r] \in Nat
      /\ \A i \in right[r] + 1..n : snaps[i].at > arg[r]
      /\ left[r] = 1 \/ snaps[left[r]].at <= arg[r]
  BY <1>1 DEF AtStep, SnapTypeOK, Sound
<1>4. mid \in Nat /\ left[r] < mid /\ mid <= right[r] /\ mid \in 1..n
  BY <1>2, <1>3 DEF Middle
<1>5. \A i, j \in 1..n : i < j => snaps[i].at <= snaps[j].at
  BY <1>1 DEF Ordered
<1>6. \/ snaps[mid].at <= arg[r] /\ Narrow(r, mid, right[r])
      \/ ~(snaps[mid].at <= arg[r]) /\ Narrow(r, left[r], mid - 1)
  BY DEF AtStep, NotAfter
<1> HIDE DEF mid
<1>7. CASE snaps[mid].at <= arg[r] /\ Narrow(r, mid, right[r])
  <2>1. mid \in 1..right[r] + 1 /\ right[r] \in 0..n
    BY <1>2, <1>3, <1>4
  <2> QED  BY <1>3, <1>4, <1>7, <2>1, NarrowKeeps
<1>8. CASE ~(snaps[mid].at <= arg[r]) /\ Narrow(r, left[r], mid - 1)
  <2>1. \A i \in (mid - 1) + 1..n : snaps[i].at > arg[r]
    <3> SUFFICES ASSUME NEW i \in (mid - 1) + 1..n  PROVE snaps[i].at > arg[r]
      OBVIOUS
    <3>1. i \in 1..n /\ (i = mid \/ mid < i)
      BY <1>2, <1>4
    <3> QED  BY <3>1, <1>2, <1>3, <1>4, <1>5, <1>8
  <2>2. /\ left[r] \in 1..(mid - 1) + 1 /\ mid - 1 \in 0..n
        /\ mid - 1 \in Nat /\ left[r] <= mid - 1
    BY <1>2, <1>3, <1>4
  <2> QED  BY <1>3, <1>8, <2>1, <2>2, NarrowKeeps
<1> QED  BY <1>6, <1>7, <1>8

LEMMA EndKeeps ==
    ASSUME SnapshotInv, NEW r \in Readers, GetNotFound(r) \/ AtFound(r) \/ Return(r)
    PROVE  SnapshotInv'
<1>1. SnapTypeOK /\ Searching /\ Sound(r)
  BY SearchingIsSound DEF SnapshotInv
<1>2. Len(snaps) \in Nat /\ left[r] \in Nat /\ right[r] \in Nat
  BY <1>1, Elements DEF SnapTypeOK
<1>3. CASE GetNotFound(r)
  <2>1. ~\E i \in 1..Len(snaps) : snaps[i].id = arg[r]
    BY <1>1, <1>2, <1>3 DEF GetNotFound, Sound
  <2>2. Answer(r, "got", 0)
    BY <1>3 DEF GetNotFound
  <2> QED  BY <2>1, <2>2, AnswerKeeps
<1>4. CASE AtFound(r)
  <2>1. Answer(r, "atdone", left[r])
    BY <1>4 DEF AtFound
  <2>2. pc[r] = "at" /\ left[r] = right[r]
    BY <1>4 DEF AtFound
  <2>3. /\ left[r] \in 1..Len(snaps)
        /\ \A i \in left[r] + 1..Len(snaps) : snaps[i].at > arg[r]
        /\ snaps[left[r]].at <= arg[r] \/ left[r] = 1
    BY <2>2, <1>1, <1>2 DEF Sound
  <2> QED  BY <2>1, <2>3, <1>2, AnswerKeeps
<1>5. CASE Return(r)
  <2>1. Held /\ Others(r) /\ pc'[r] = "idle"
    BY <1>1, <1>5 DEF Return, Held, Others, SnapTypeOK
  <2>2. Sound(r)'
    BY <2>1 DEF Sound
  <2>3. SnapTypeOK' /\ Ordered' /\ Counted'
    BY <1>1, <1>5, <2>1, HeldKeeps DEF Return, SnapTypeOK
  <2> QED  BY <1>1, <2>1, <2>2, <2>3, OneReader DEF SnapshotInv
<1> QED  BY <1>3, <1>4, <1>5

-----------------------------------------------------------------------------
(* The invariant is inductive.                                             *)

LEMMA InitKeeps == SnapInit => SnapshotInv
BY SnapshotAssumption DEF SnapInit, SnapshotInv, SnapTypeOK, Ordered, Counted, Searching,
   Bounds, GetKeeps, AtKeeps, GetIsExact, AtIsLastBefore

LEMMA PruneKeeps ==
    ASSUME SnapshotInv, Prune
    PROVE  SnapshotInv'
<1>1. SnapTypeOK /\ Ordered /\ Counted /\ now \in Nat
  BY SnapshotAssumption DEF SnapshotInv, SnapTypeOK
<1>2. PICK cutoff \in 0..now :
        LET pruned == Cardinality(Old(cutoff))
            first  == IF pruned = Len(snaps) THEN 1 ELSE pruned + 1
        IN /\ Unlocked
           /\ snaps' = SubSeq(snaps, first, Len(snaps))
           /\ UNCHANGED <<nextID, now, conf, takeVars, readVars>>
  BY DEF Prune
<1> DEFINE pruned == Cardinality(Old(cutoff))
           first  == IF pruned = Len(snaps) THEN 1 ELSE pruned + 1
<1>3. Len(snaps) \in Nat /\ pruned \in 0..Len(snaps)
  BY <1>1, OldCount, Elements
<1>4. first \in 1..Len(snaps) + 1
  BY <1>3
<1>5. /\ snaps' = SubSeq(snaps, first, Len(snaps))
      /\ UNCHANGED <<nextID, now, conf, takeVars, readVars>>
      /\ Unlocked
  BY <1>2
<1> HIDE DEF pruned, first
<1>6. snaps' \in Seq(Snapshot) /\ Ordered' /\ Counted'
  BY <1>1, <1>4, <1>5, SuffixOrdered
<1>7. SnapTypeOK'
  BY <1>1, <1>4, <1>5, <1>6 DEF SnapTypeOK
<1> QED  BY <1>5, <1>6, <1>7, IdleSearching DEF SnapshotInv

LEMMA RestKeeps ==
    ASSUME SnapshotInv, Change \/ Tick \/ (\E t \in Takers : ReadState(t)) \/ Clear
    PROVE  SnapshotInv'
<1>1. SnapTypeOK /\ Ordered /\ Counted /\ Searching
  BY DEF SnapshotInv
<1>2. CASE Change \/ \E t \in Takers : ReadState(t)
  <2>1. SnapTypeOK'
    <3>1. CASE Change
      <4>1. conf' \in 0..MaxChange
        BY <1>1, <3>1, SnapshotAssumption DEF SnapTypeOK, Change
      <4> QED  BY <1>1, <3>1, <4>1 DEF SnapTypeOK, Change
    <3>2. ASSUME NEW t \in Takers, ReadState(t)  PROVE SnapTypeOK'
      BY <1>1, <3>2 DEF SnapTypeOK, ReadState
    <3> QED  BY <1>2, <3>1, <3>2
  <2>2. UNCHANGED <<mgrVars, now, readVars>>
    BY <1>2 DEF Change, ReadState
  <2> QED
    BY <1>1, <2>1, <2>2
    DEF SnapshotInv, Ordered, Counted, Searching, Bounds, GetKeeps, AtKeeps, GetIsExact,
        AtIsLastBefore
<1>3. CASE Tick
  <2>1. SnapTypeOK' /\ now' = now + 1 /\ now \in Nat
    BY <1>1, <1>3, SnapshotAssumption DEF SnapTypeOK, Tick
  <2>2. \A i \in 1..Len(snaps) : snaps[i].at \in Nat
    BY <1>1, Elements
  <2>3. UNCHANGED <<mgrVars, readVars>>
    BY <1>3 DEF Tick
  <2>4. Counted'
    BY <1>1, <2>1, <2>2, <2>3 DEF Counted
  <2> QED
    BY <1>1, <2>1, <2>3, <2>4
    DEF SnapshotInv, Ordered, Searching, Bounds, GetKeeps, AtKeeps, GetIsExact, AtIsLastBefore
<1>4. CASE Clear
  <2>1. snaps' = <<>> /\ UNCHANGED <<nextID, now, conf, takeVars, readVars>> /\ Unlocked
    BY <1>4 DEF Clear
  <2>2. snaps' \in Seq(Snapshot) /\ Len(snaps') = 0
    BY <2>1
  <2>3. SnapTypeOK'
    BY <1>1, <2>1, <2>2 DEF SnapTypeOK
  <2>4. Ordered' /\ Counted'
    BY <2>2, SnapshotAssumption DEF Ordered, Counted
  <2> QED  BY <2>1, <2>3, <2>4, IdleSearching DEF SnapshotInv
<1> QED  BY <1>2, <1>3, <1>4

LEMMA StepKeeps == SnapshotInv /\ [SnapNext]_snapVars => SnapshotInv'
<1> SUFFICES ASSUME SnapshotInv, [SnapNext]_snapVars  PROVE SnapshotInv'
  OBVIOUS
<1>1. ASSUME NEW r \in Readers, Get(r)  PROVE SnapshotInv'
  <2>1. PICK id \in 0..MaxID : Search(r, "get", id)
    BY <1>1 DEF Get
  <2>2. id \in Nat
    BY SnapshotAssumption
  <2> QED  BY <2>1, <2>2, SearchKeeps
<1>2. ASSUME NEW r \in Readers, At(r)  PROVE SnapshotInv'
  <2>1. snaps # <<>>
    BY <1>2 DEF At
  <2>2. PICK t \in 0..MaxTime : Search(r, "at", t)
    BY <1>2 DEF At
  <2>3. t \in Nat
    BY SnapshotAssumption
  <2> QED  BY <2>1, <2>2, <2>3, SearchKeeps
<1>3. ASSUME NEW r \in Readers, ReadStep(r)  PROVE SnapshotInv'
  BY <1>3, GetStepKeeps, AtStepKeeps, EndKeeps DEF ReadStep
<1>4. CASE UNCHANGED snapVars
  BY <1>4
  DEF SnapshotInv, SnapTypeOK, Ordered, Counted, Searching, Bounds, GetKeeps, AtKeeps,
      GetIsExact, AtIsLastBefore
<1> QED  BY <1>1, <1>2, <1>3, <1>4, TakeKeeps, PruneKeeps, RestKeeps DEF SnapNext

\* The inductive invariant holds.
THEOREM Invariant == SnapSpec => []SnapshotInv
BY InitKeeps, StepKeeps, PTL DEF SnapSpec

\* The variables keep their types whatever the interleaving.
THEOREM TypeCorrect == SnapSpec => []SnapTypeOK
BY Invariant, PTL DEF SnapshotInv

\* Take, Clear and Prune leave the snapshots in the order of their ids and of
\* their timestamps, and no more than the limit (snapshot.go:107-134, 245-275).
THEOREM SnapshotsOrdered == SnapSpec => []Ordered
BY Invariant, PTL DEF SnapshotInv

\* The binary searches find what is stored: Get a snapshot if and only if its
\* id is there, At the last one that is not younger than the time asked for,
\* or the oldest (snapshot.go:162-217).
THEOREM SearchesCorrect == SnapSpec => []SearchesAreExact
<1>1. SnapshotInv => SearchesAreExact
  BY DEF SnapshotInv, Searching, SearchesAreExact
<1>. QED  BY <1>1, Invariant, PTL

-----------------------------------------------------------------------------
(* What a step leaves is the end of what was stored, or of that and a new  *)
(* snapshot: the oldest go first, and the configurations keep their order. *)

Suffix(s, full, k) ==
    /\ Len(s) = Len(full) - k + 1
    /\ \A j \in 1..Len(s) : s[j] = full[j + k - 1]

New(t) == [id |-> nextID + 1, at |-> now, conf |-> read[t], overlap |-> overlaps[t]]

\* Take stores one snapshot and drops at most one.
LEMMA TakeLeaves ==
    ASSUME SnapshotInv, NEW t \in Takers, Take(t)
    PROVE  /\ Len(snaps) \in Nat
           /\ Len(Append(snaps, New(t))) = Len(snaps) + 1
           /\ \A i \in 1..Len(snaps) : Append(snaps, New(t))[i] = snaps[i]
           /\ Append(snaps, New(t))[Len(snaps) + 1] = New(t)
           /\ Len(snaps') \in Nat
           /\ \E k \in {1, 2} : Suffix(snaps', Append(snaps, New(t)), k)
<1> DEFINE n == Len(snaps)
           full == Append(snaps, New(t))
<1>1. snaps \in Seq(Snapshot) /\ n \in Nat /\ nextID \in Nat
  BY SnapshotAssumption DEF SnapshotInv, SnapTypeOK
<1>2. New(t) \in Snapshot
  BY SnapshotAssumption DEF SnapshotInv, SnapTypeOK, Snapshot, Take, New
<1>3. /\ full \in Seq(Snapshot) /\ Len(full) = n + 1
      /\ \A i \in 1..n : full[i] = snaps[i]
      /\ full[n + 1] = New(t)
  BY <1>1, <1>2
<1>4. snaps' = Keep(full)
  BY DEF Take, New
<1> HIDE DEF full
<1>5. CASE snaps' = full
  <2>1. Suffix(snaps', full, 1) /\ Len(snaps') \in Nat
    BY <1>1, <1>3, <1>5 DEF Suffix
  <2> QED  BY <2>1, <1>1, <1>3 DEF full
<1>6. CASE snaps' = Tail(full)
  <2>1. /\ Len(snaps') = n
        /\ \A j \in 1..n : snaps'[j] = full[j + 1]
    BY <1>1, <1>3, <1>6
  <2>2. Suffix(snaps', full, 2) /\ Len(snaps') \in Nat
    BY <1>1, <1>3, <2>1 DEF Suffix
  <2> QED  BY <2>2, <1>1, <1>3 DEF full
<1> QED  BY <1>4, <1>5, <1>6 DEF Keep

\* Clear and Prune only drop snapshots.
LEMMA RemovalLeaves ==
    ASSUME SnapshotInv, Clear \/ Prune
    PROVE  /\ Len(snaps') \in Nat
           /\ UNCHANGED <<conf, takeVars>>
           /\ \E k \in 1..Len(snaps) + 1 : Suffix(snaps', snaps, k)
<1>1. snaps \in Seq(Snapshot) /\ Len(snaps) \in Nat /\ SnapTypeOK /\ now \in Nat
  BY SnapshotAssumption DEF SnapshotInv, SnapTypeOK
<1>2. CASE Clear
  <2>1. snaps' = <<>> /\ UNCHANGED <<conf, takeVars>>
    BY <1>2 DEF Clear
  <2>2. Suffix(snaps', snaps, Len(snaps) + 1) /\ Len(snaps') \in Nat
    BY <1>1, <2>1 DEF Suffix
  <2> QED  BY <1>1, <2>1, <2>2
<1>3. CASE Prune
  <2>1. PICK cutoff \in 0..now :
          LET pruned == Cardinality(Old(cutoff))
              first  == IF pruned = Len(snaps) THEN 1 ELSE pruned + 1
          IN /\ snaps' = SubSeq(snaps, first, Len(snaps))
             /\ UNCHANGED <<conf, takeVars>>
    BY <1>3 DEF Prune
  <2> DEFINE pruned == Cardinality(Old(cutoff))
             first  == IF pruned = Len(snaps) THEN 1 ELSE pruned + 1
  <2>2. pruned \in 0..Len(snaps)
    <3>1. cutoff \in Nat
      BY <1>1
    <3> QED  BY <3>1, <1>1, OldCount
  <2>3. first \in 1..Len(snaps) + 1
    BY <1>1, <2>2
  <2>4. snaps' = SubSeq(snaps, first, Len(snaps)) /\ UNCHANGED <<conf, takeVars>>
    BY <2>1
  <2> HIDE DEF pruned, first
  <2>5. Suffix(snaps', snaps, first) /\ Len(snaps') \in Nat
    BY <1>1, <2>3, <2>4 DEF Suffix
  <2> QED  BY <2>3, <2>4, <2>5
<1> QED  BY <1>2, <1>3

\* A suffix of an ordered list lacks only elements older than all it has.
LEMMA SuffixIsYounger ==
    ASSUME NEW s, NEW full, NEW k \in Nat \ {0}, NEW n \in Nat,
           Len(full) \in Nat, Len(s) \in Nat, n <= Len(full), Suffix(s, full, k),
           \A i, j \in 1..Len(full) : i < j => full[i].id < full[j].id,
           NEW i \in 1..n, \A j \in 1..Len(s) : s[j].id # full[i].id,
           NEW j \in 1..Len(s)
    PROVE  full[i].id < s[j].id
<1>1. i < k
  <2> SUFFICES ASSUME i >= k PROVE FALSE
    OBVIOUS
  <2>1. i - k + 1 \in 1..Len(s) /\ (i - k + 1) + k - 1 = i
    BY DEF Suffix
  <2>2. s[i - k + 1] = full[i]
    BY <2>1 DEF Suffix
  <2> QED  BY <2>1, <2>2
<1>2. j + k - 1 \in 1..Len(full) /\ i < j + k - 1 /\ i \in 1..Len(full)
  BY <1>1 DEF Suffix
<1>3. s[j] = full[j + k - 1]
  BY DEF Suffix
<1> QED  BY <1>2, <1>3

\* Whatever is removed, by Take, Clear or Prune, is older than all that is
\* kept (snapshot.go:128-131, 245-275).
THEOREM OldestGoFirst == SnapSpec => OldestFirst
<1> DEFINE Older == \A i \in 1..Len(snaps) :
                      (\A j \in 1..Len(snaps') : snaps'[j].id # snaps[i].id) =>
                          \A j \in 1..Len(snaps') : snaps'[j].id > snaps[i].id
<1>1. ASSUME SnapshotInv, [SnapNext]_snapVars  PROVE [Older]_snaps
  <2>0. /\ Len(snaps) \in Nat /\ nextID \in Nat
        /\ \A i \in 1..Len(snaps) : snaps[i].id \in Nat /\ snaps[i].id <= nextID
        /\ \A i, j \in 1..Len(snaps) : i < j => snaps[i].id < snaps[j].id
    BY <1>1, Elements, SnapshotAssumption DEF SnapshotInv, SnapTypeOK, Ordered, Counted
  <2>1. ASSUME NEW t \in Takers, Take(t)  PROVE Older
    <3> DEFINE full == Append(snaps, New(t))
    <3>1. /\ Len(full) = Len(snaps) + 1 /\ Len(snaps') \in Nat
          /\ \A i \in 1..Len(snaps) : full[i] = snaps[i]
          /\ full[Len(snaps) + 1] = New(t)
          /\ \E k \in {1, 2} : Suffix(snaps', full, k)
      BY <1>1, <2>1, TakeLeaves
    <3>2. New(t).id = nextID + 1
      BY DEF New
    <3> HIDE DEF full
    <3>3. \A i, j \in 1..Len(full) : i < j => full[i].id < full[j].id
      <4> SUFFICES ASSUME NEW i \in 1..Len(full), NEW j \in 1..Len(full), i < j
                   PROVE  full[i].id < full[j].id
        OBVIOUS
      <4>1. i \in 1..Len(snaps)
        BY <2>0, <3>1
      <4>2. CASE j = Len(snaps) + 1
        BY <2>0, <3>1, <3>2, <4>1, <4>2
      <4>3. CASE j \in 1..Len(snaps)
        BY <2>0, <3>1, <4>1, <4>3
      <4> QED  BY <2>0, <3>1, <4>2, <4>3
    <3>4. PICK k \in {1, 2} : Suffix(snaps', full, k)
      BY <3>1
    <3> SUFFICES ASSUME NEW i \in 1..Len(snaps),
                        \A j \in 1..Len(snaps') : snaps'[j].id # snaps[i].id,
                        NEW j \in 1..Len(snaps')
                 PROVE  snaps[i].id < snaps'[j].id
      <4>1. \A i \in 1..Len(snaps) : snaps[i].id \in Nat
        BY <2>0
      <4> QED  BY <4>1
    <3>5. full[i].id < snaps'[j].id
      <4>1. /\ Len(full) \in Nat /\ Len(snaps) <= Len(full) /\ k \in Nat \ {0}
            /\ \A m \in 1..Len(snaps') : snaps'[m].id # full[i].id
        BY <2>0, <3>1
      <4> QED  BY <2>0, <3>1, <3>3, <3>4, <4>1, SuffixIsYounger
    <3> QED  BY <3>1, <3>5
  <2>2. ASSUME Clear \/ Prune  PROVE Older
    <3>1. Len(snaps') \in Nat /\ \E k \in 1..Len(snaps) + 1 : Suffix(snaps', snaps, k)
      BY <1>1, <2>2, RemovalLeaves
    <3>2. PICK k \in 1..Len(snaps) + 1 : Suffix(snaps', snaps, k)
      BY <3>1
    <3> SUFFICES ASSUME NEW i \in 1..Len(snaps),
                        \A j \in 1..Len(snaps') : snaps'[j].id # snaps[i].id,
                        NEW j \in 1..Len(snaps')
                 PROVE  snaps[i].id < snaps'[j].id
      OBVIOUS
    <3>3. k \in Nat \ {0} /\ Len(snaps) \in Nat /\ Len(snaps) <= Len(snaps)
      BY <2>0
    <3>4. \A l, m \in 1..Len(snaps) : l < m => snaps[l].id < snaps[m].id
      BY <2>0
    <3> QED  BY <3>1, <3>2, <3>3, <3>4, SuffixIsYounger
  <2>3. CASE UNCHANGED snapVars
    BY <2>3
  <2>4. CASE \/ Change \/ Tick \/ (\E t \in Takers : ReadState(t))
             \/ (\E r \in Readers : Get(r) \/ At(r) \/ ReadStep(r))
    <3>1. UNCHANGED snaps
      BY <2>4 DEF Change, Tick, ReadState, Get, At, Search, ReadStep, GetNotFound, GetStep,
                  AtFound, AtStep, Return, Answer, Narrow
    <3> QED  BY <3>1
  <2> QED  BY <1>1, <2>1, <2>2, <2>3, <2>4 DEF SnapNext
<1>2. QED  BY <1>1, Invariant, PTL DEF SnapSpec, OldestFirst

-----------------------------------------------------------------------------
(* No snapshot is ahead of the configuration, nor, while no other Take has *)
(* come between, of what a caller of Config.Snapshot has read.             *)

ConfSound ==
    /\ \A i \in 1..Len(snaps) : snaps[i].conf <= conf
    /\ \A t \in Takers : taker[t] = "read" =>
          /\ read[t] <= conf
          /\ overlaps[t] \/ \A i \in 1..Len(snaps) : snaps[i].conf <= read[t]

FollowInv == ConfSound /\ SnapshotsFollow

\* The numbers of configurations are numbers.
LEMMA Confs ==
    ASSUME SnapTypeOK
    PROVE  /\ Len(snaps) \in Nat /\ conf \in Nat
           /\ \A t \in Takers : read[t] \in Nat /\ overlaps[t] \in BOOLEAN
           /\ \A i \in 1..Len(snaps) : snaps[i].conf \in Nat
<1>1. snaps \in Seq(Snapshot) /\ Len(snaps) \in Nat
  BY DEF SnapTypeOK
<1>2. \A i \in 1..Len(snaps) : snaps[i] \in Snapshot
  BY <1>1
<1>3. conf \in Nat /\ \A t \in Takers : read[t] \in Nat /\ overlaps[t] \in BOOLEAN
  BY SnapshotAssumption DEF SnapTypeOK
<1> QED  BY <1>1, <1>2, <1>3, SnapshotAssumption DEF Snapshot

LEMMA FollowTake ==
    ASSUME SnapshotInv, FollowInv, NEW t \in Takers, Take(t)
    PROVE  FollowInv'
<1> DEFINE n == Len(snaps)
           full == Append(snaps, New(t))
<1>1. /\ n \in Nat /\ Len(full) = n + 1 /\ Len(snaps') \in Nat
      /\ \A i \in 1..n : full[i] = snaps[i]
      /\ full[n + 1] = New(t)
      /\ \E k \in {1, 2} : Suffix(snaps', full, k)
  BY TakeLeaves
<1>2. SnapTypeOK /\ SnapTypeOK'
  BY TakeKeeps DEF SnapshotInv
<1>3. /\ conf \in Nat /\ read[t] \in Nat
      /\ \A i \in 1..n : snaps[i].conf \in Nat
  BY <1>2, Confs
<1>4. /\ New(t).conf = read[t] /\ New(t).overlap = overlaps[t]
      /\ read[t] <= conf /\ conf' = conf
      /\ overlaps[t] \/ \A i \in 1..n : snaps[i].conf <= read[t]
  BY DEF New, Take, FollowInv, ConfSound
<1>5. \A u \in Takers : taker'[u] = "read" => overlaps'[u] /\ read'[u] <= conf'
  <2> SUFFICES ASSUME NEW u \in Takers, taker'[u] = "read"
               PROVE  overlaps'[u] /\ read'[u] <= conf'
    OBVIOUS
  <2>1. u # t /\ taker[u] = "read" /\ read'[u] = read[u]
    BY <1>2 DEF Take, SnapTypeOK
  <2>2. overlaps'[u] = (u # t /\ taker[u] = "read")
    BY DEF Take
  <2> QED  BY <1>4, <2>1, <2>2 DEF FollowInv, ConfSound
<1>6. PICK k \in {1, 2} : Suffix(snaps', full, k)
  BY <1>1
<1> HIDE DEF full
<1>7. \A i \in 1..n + 1 : full[i].conf <= conf
  <2> SUFFICES ASSUME NEW i \in 1..n + 1  PROVE full[i].conf <= conf
    OBVIOUS
  <2>1. CASE i = n + 1
    BY <2>1, <1>1, <1>4
  <2>2. CASE i \in 1..n
    BY <2>2, <1>1 DEF FollowInv, ConfSound
  <2> QED  BY <2>1, <2>2, <1>1
<1>8. \A i, j \in 1..n + 1 : i < j => full[i].conf <= full[j].conf \/ full[j].overlap
  <2> SUFFICES ASSUME NEW i \in 1..n + 1, NEW j \in 1..n + 1, i < j
               PROVE  full[i].conf <= full[j].conf \/ full[j].overlap
    OBVIOUS
  <2>0. i \in 1..n
    BY <1>1
  <2>1. CASE j = n + 1
    BY <2>0, <2>1, <1>1, <1>4
  <2>2. CASE j \in 1..n
    BY <2>0, <2>2, <1>1 DEF FollowInv, SnapshotsFollow
  <2> QED  BY <2>1, <2>2, <1>1
<1>9. /\ \A i \in 1..Len(snaps') : snaps'[i] = full[i + k - 1] /\ i + k - 1 \in 1..n + 1
      /\ \A i, j \in 1..Len(snaps') : i < j => i + k - 1 < j + k - 1
  BY <1>1, <1>6 DEF Suffix
<1>10. ConfSound'
  BY <1>4, <1>5, <1>7, <1>9 DEF ConfSound
<1>11. SnapshotsFollow'
  <2> SUFFICES ASSUME NEW i \in 1..Len(snaps'), NEW j \in 1..Len(snaps'), i < j
               PROVE  snaps'[i].conf <= snaps'[j].conf \/ snaps'[j].overlap
    BY DEF SnapshotsFollow
  <2> QED  BY <1>8, <1>9
<1> QED  BY <1>10, <1>11 DEF FollowInv

LEMMA FollowRemoval ==
    ASSUME SnapshotInv, FollowInv, Clear \/ Prune
    PROVE  FollowInv'
<1>1. Len(snaps) \in Nat
  BY Confs DEF SnapshotInv
<1>2. /\ Len(snaps') \in Nat /\ UNCHANGED <<conf, takeVars>>
      /\ \E k \in 1..Len(snaps) + 1 : Suffix(snaps', snaps, k)
  BY RemovalLeaves
<1>3. PICK k \in 1..Len(snaps) + 1 : Suffix(snaps', snaps, k)
  BY <1>2
<1>4. /\ \A i \in 1..Len(snaps') : /\ snaps'[i] = snaps[i + k - 1]
                                  /\ i + k - 1 \in 1..Len(snaps)
      /\ \A i, j \in 1..Len(snaps') : i < j => i + k - 1 < j + k - 1
  BY <1>1, <1>2, <1>3 DEF Suffix
<1>5. ConfSound'
  BY <1>2, <1>4 DEF FollowInv, ConfSound
<1>6. SnapshotsFollow'
  <2> SUFFICES ASSUME NEW i \in 1..Len(snaps'), NEW j \in 1..Len(snaps'), i < j
               PROVE  snaps'[i].conf <= snaps'[j].conf \/ snaps'[j].overlap
    BY DEF SnapshotsFollow
  <2> QED  BY <1>4 DEF FollowInv, SnapshotsFollow
<1> QED  BY <1>5, <1>6 DEF FollowInv

LEMMA FollowRest ==
    ASSUME SnapshotInv, FollowInv,
           \/ Change \/ Tick \/ (\E t \in Takers : ReadState(t))
           \/ (\E r \in Readers : Get(r) \/ At(r) \/ ReadStep(r))
    PROVE  FollowInv'
<1>1. SnapTypeOK
  BY DEF SnapshotInv
<1>2. /\ Len(snaps) \in Nat /\ conf \in Nat
      /\ \A t \in Takers : read[t] \in Nat
      /\ \A i \in 1..Len(snaps) : snaps[i].conf \in Nat
  BY <1>1, Confs
<1>3. CASE Change
  <2>1. conf' = conf + 1 /\ UNCHANGED <<snaps, takeVars>>
    BY <1>3 DEF Change
  <2> QED  BY <1>2, <2>1 DEF FollowInv, ConfSound, SnapshotsFollow
<1>4. CASE Tick \/ (\E r \in Readers : Get(r) \/ At(r) \/ ReadStep(r))
  <2>1. UNCHANGED <<snaps, conf, takeVars>>
    BY <1>4 DEF Tick, Get, At, Search, ReadStep, GetNotFound, GetStep, AtFound, AtStep,
                Return, Answer, Narrow
  <2> QED  BY <2>1 DEF FollowInv, ConfSound, SnapshotsFollow
<1>5. ASSUME NEW t \in Takers, ReadState(t)  PROVE FollowInv'
  <2>1. /\ UNCHANGED <<snaps, conf>> /\ read'[t] = conf
        /\ \A u \in Takers : u # t => /\ taker'[u] = taker[u] /\ read'[u] = read[u]
                                    /\ overlaps'[u] = overlaps[u]
    BY <1>1, <1>5 DEF ReadState, SnapTypeOK
  <2>2. \A u \in Takers : taker'[u] = "read" =>
          /\ read'[u] <= conf
          /\ overlaps'[u] \/ \A i \in 1..Len(snaps) : snaps[i].conf <= read'[u]
    <3> SUFFICES ASSUME NEW u \in Takers, taker'[u] = "read"
                 PROVE  /\ read'[u] <= conf
                        /\ overlaps'[u] \/ \A i \in 1..Len(snaps) : snaps[i].conf <= read'[u]
      OBVIOUS
    <3>1. CASE u = t
      BY <3>1, <2>1, <1>2 DEF FollowInv, ConfSound
    <3>2. CASE u # t
      BY <3>2, <2>1 DEF FollowInv, ConfSound
    <3> QED  BY <3>1, <3>2
  <2> QED  BY <2>1, <2>2 DEF FollowInv, ConfSound, SnapshotsFollow
<1> QED  BY <1>3, <1>4, <1>5

\* However many callers, a later snapshot holds no older configuration, unless
\* another Take came between its reading of the state and its storing it
\* (config.go:431-435).
THEOREM LaterIsNewer == SnapSpec => []SnapshotsFollow
<1>1. SnapInit => FollowInv
  BY DEF SnapInit, FollowInv, ConfSound, SnapshotsFollow
<1>2. SnapshotInv /\ FollowInv /\ [SnapNext]_snapVars => FollowInv'
  <2> SUFFICES ASSUME SnapshotInv, FollowInv, [SnapNext]_snapVars  PROVE FollowInv'
    OBVIOUS
  <2>1. CASE UNCHANGED snapVars
    BY <2>1 DEF FollowInv, ConfSound, SnapshotsFollow
  <2> QED  BY <2>1, FollowTake, FollowRemoval, FollowRest DEF SnapNext
<1>3. FollowInv => SnapshotsFollow
  BY DEF FollowInv
<1> QED  BY <1>1, <1>2, <1>3, Invariant, PTL DEF SnapSpec

-----------------------------------------------------------------------------
(* Induction over the numbers, as the library states it with a relation.   *)

LEMMA Induction ==
  ASSUME NEW T \in SUBSET Nat, 0 \in T, \A n \in T : n + 1 \in T
  PROVE  T = Nat
<1> SUFFICES ASSUME T # Nat PROVE FALSE
  OBVIOUS
<1> DEFINE less == {ss \in Nat \X Nat : ss[1] < ss[2]}
           rest == Nat \ T
<1>1. rest \subseteq Nat /\ rest # {}
  OBVIOUS
<1>2. IsWellFoundedOn(less, Nat)
  BY NatLessThanWellFounded DEF OpToRel
<1>3. \A m, n \in Nat : m < n => <<m, n>> \in less
  OBVIOUS
<1> HIDE DEF less, rest
<1>4. PICK n \in rest : \A m \in rest : ~(<<m, n>> \in less)
  BY <1>1, <1>2, WFMin
<1> USE DEF rest
<1>5. n \in Nat /\ n # 0
  BY <1>4
<1>6. n - 1 \in Nat /\ n - 1 < n /\ n - 1 + 1 = n
  BY <1>5
<1>7. n - 1 \in T
  BY <1>3, <1>4, <1>5, <1>6
<1> QED  BY <1>4, <1>6, <1>7

-----------------------------------------------------------------------------
(* Binding.  The recursive definitions, by the depth of a type.            *)

NumberOfTypes == Cardinality(DOMAIN Types)

Depths ==
    {depth \in [DOMAIN Types -> 1..NumberOfTypes] :
        \A type \in DOMAIN Types : \A f \in ToSet(Types[type]) :
           f.kind \in Structs => depth[f.of] < depth[type]}

LEMMA TypesOK ==
  /\ \A type \in DOMAIN Types : Types[type] \in Seq(ToSet(Types[type]))
  /\ \A type \in DOMAIN Types : \A f \in ToSet(Types[type]) : FieldOK(f)
  /\ \A vals \in Maps : \A key \in DOMAIN vals : RawOK(vals[key])
  /\ \E depth : depth \in Depths
BY BindingAssumption DEF Depths, NumberOfTypes

LEMMA DepthFacts ==
  ASSUME NEW depth \in Depths, NEW type \in DOMAIN Types
  PROVE  NumberOfTypes \in Nat /\ depth[type] \in Nat /\ 1 <= depth[type] /\ depth[type] <= NumberOfTypes
<1>1. NumberOfTypes \in Nat
  BY BindingAssumption, FS_CardinalityType DEF NumberOfTypes
<1> QED  BY <1>1 DEF Depths

FieldsStep(F, type) ==
    UNION {LET f == Types[type][i] IN
           {[place |-> <<i>>, key |-> <<f.key>>, pointers |-> {}, field |-> f]}
           \cup {Inside(f, i, d) : d \in IF f.kind \in Structs THEN F[f.of] ELSE {}} :
           i \in DOMAIN Types[type]}

\* What a struct type has depends on the types of less depth alone.
LEMMA FieldsStepSame ==
  ASSUME NEW depth \in Depths, NEW type \in DOMAIN Types, NEW F, NEW G,
         \A t \in DOMAIN Types : depth[t] < depth[type] => F[t] = G[t]
  PROVE  FieldsStep(F, type) = FieldsStep(G, type)
<1>1. ASSUME NEW i \in DOMAIN Types[type]
      PROVE  (IF Types[type][i].kind \in Structs THEN F[Types[type][i].of] ELSE {})
                = IF Types[type][i].kind \in Structs THEN G[Types[type][i].of] ELSE {}
  <2>1. Types[type][i] \in ToSet(Types[type])
    BY DEF ToSet
  <2>2. FieldOK(Types[type][i])
    BY <2>1, TypesOK
  <2> QED  BY <2>1, <2>2 DEF Depths, FieldOK
<1> QED  BY <1>1 DEF FieldsStep

LEMMA StructFieldsAre ==
  /\ DOMAIN StructFields = DOMAIN Types
  /\ \A type \in DOMAIN Types : StructFields[type] = FieldsStep(StructFields, type)
<1>1. PICK depth : depth \in Depths
  BY TypesOK
<1> DEFINE Reach(m) == {type \in DOMAIN Types : depth[type] <= m}
           T == {m \in Nat : \E F : F = [type \in Reach(m) |-> FieldsStep(F, type)]}
<1>2. 0 \in T
  <2> DEFINE E == [type \in {} |-> 0]
             F == [type \in Reach(0) |-> FieldsStep(E, type)]
  <2>1. ASSUME NEW type \in Reach(0) PROVE FieldsStep(E, type) = FieldsStep(F, type)
    <3>1. \A t \in DOMAIN Types : ~(depth[t] < depth[type])
      BY <1>1, DepthFacts
    <3> HIDE DEF E, F
    <3> QED  BY <1>1, <3>1, FieldsStepSame
  <2>2. F = [type \in Reach(0) |-> FieldsStep(F, type)]
    <3> HIDE DEF Reach
    <3> QED  BY <2>1
  <2> HIDE DEF F
  <2> QED  BY <2>2
<1>3. ASSUME NEW m \in T PROVE m + 1 \in T
  <2>1. m \in Nat /\ \E F : F = [type \in Reach(m) |-> FieldsStep(F, type)]
    OBVIOUS
  <2>2. PICK F : F = [type \in Reach(m) |-> FieldsStep(F, type)]
    BY <2>1
  <2> DEFINE G == [type \in Reach(m + 1) |-> FieldsStep(F, type)]
  <2>3. ASSUME NEW type \in Reach(m) PROVE F[type] = G[type]
    <3>1. type \in Reach(m + 1)
      BY <1>1, <2>1, DepthFacts
    <3> HIDE DEF Reach
    <3>2. F[type] = FieldsStep(F, type) /\ G[type] = FieldsStep(F, type)
      BY <2>2, <3>1
    <3> QED  BY <3>2
  <2>4. ASSUME NEW type \in Reach(m + 1) PROVE FieldsStep(F, type) = FieldsStep(G, type)
    <3>1. \A t \in DOMAIN Types : depth[t] < depth[type] => t \in Reach(m)
      BY <1>1, <2>1, DepthFacts
    <3> HIDE DEF G
    <3> QED  BY <1>1, <2>3, <3>1, FieldsStepSame
  <2>5. G = [type \in Reach(m + 1) |-> FieldsStep(G, type)]
    <3> HIDE DEF Reach
    <3> QED  BY <2>4
  <2> HIDE DEF G, Reach
  <2>6. m + 1 \in Nat /\ \E H : H = [type \in Reach(m + 1) |-> FieldsStep(H, type)]
    BY <2>1, <2>5
  <2> QED  BY <2>6
<1>4. T = Nat
  <2>1. T \subseteq Nat
    OBVIOUS
  <2> HIDE DEF T
  <2> QED  BY <1>2, <1>3, <2>1, Induction
<1>5. NumberOfTypes \in Nat /\ Reach(NumberOfTypes) = DOMAIN Types
  <2>1. NumberOfTypes \in Nat
    BY BindingAssumption, FS_CardinalityType DEF NumberOfTypes
  <2> QED  BY <1>1, <2>1, DepthFacts
<1>6. \E F : F = [type \in DOMAIN Types |-> FieldsStep(F, type)]
  <2>1. NumberOfTypes \in T
    BY <1>4, <1>5
  <2>2. \E F : F = [type \in Reach(NumberOfTypes) |-> FieldsStep(F, type)]
    BY <2>1
  <2> HIDE DEF Reach
  <2> QED  BY <1>5, <2>2
<1>7. StructFields = CHOOSE F : F = [type \in DOMAIN Types |-> FieldsStep(F, type)]
  BY DEF StructFields, FieldsStep
<1>8. StructFields = [type \in DOMAIN Types |-> FieldsStep(StructFields, type)]
  BY <1>6, <1>7
<1> QED  BY <1>8

WalkStep(F, type) ==
    FlattenSeq([i \in DOMAIN Types[type] |-> LET f == Types[type][i] IN WalkField(f, i, F[f.of])])

LEMMA WalkStepSame ==
  ASSUME NEW depth \in Depths, NEW type \in DOMAIN Types, NEW F, NEW G,
         \A t \in DOMAIN Types : depth[t] < depth[type] => F[t] = G[t]
  PROVE  WalkStep(F, type) = WalkStep(G, type)
<1>1. ASSUME NEW i \in DOMAIN Types[type]
      PROVE  WalkField(Types[type][i], i, F[Types[type][i].of]) = WalkField(Types[type][i], i, G[Types[type][i].of])
  <2>1. Types[type][i] \in ToSet(Types[type])
    BY DEF ToSet
  <2>2. FieldOK(Types[type][i])
    BY <2>1, TypesOK
  <2>3. Types[type][i].kind \in Structs => F[Types[type][i].of] = G[Types[type][i].of]
    BY <2>1, <2>2 DEF Depths, FieldOK
  <2> QED  BY <2>3 DEF WalkField, Structs
<1> QED  BY <1>1 DEF WalkStep

LEMMA WalkFieldsAre ==
  /\ DOMAIN WalkFields = DOMAIN Types
  /\ \A type \in DOMAIN Types : WalkFields[type] = WalkStep(WalkFields, type)
<1>1. PICK depth : depth \in Depths
  BY TypesOK
<1> DEFINE Reach(m) == {type \in DOMAIN Types : depth[type] <= m}
           T == {m \in Nat : \E F : F = [type \in Reach(m) |-> WalkStep(F, type)]}
<1>2. 0 \in T
  <2> DEFINE E == [type \in {} |-> 0]
             F == [type \in Reach(0) |-> WalkStep(E, type)]
  <2>1. ASSUME NEW type \in Reach(0) PROVE WalkStep(E, type) = WalkStep(F, type)
    <3>1. \A t \in DOMAIN Types : ~(depth[t] < depth[type])
      BY <1>1, DepthFacts
    <3> HIDE DEF E, F
    <3> QED  BY <1>1, <3>1, WalkStepSame
  <2>2. F = [type \in Reach(0) |-> WalkStep(F, type)]
    <3> HIDE DEF Reach
    <3> QED  BY <2>1
  <2> HIDE DEF F
  <2> QED  BY <2>2
<1>3. ASSUME NEW m \in T PROVE m + 1 \in T
  <2>1. m \in Nat /\ \E F : F = [type \in Reach(m) |-> WalkStep(F, type)]
    OBVIOUS
  <2>2. PICK F : F = [type \in Reach(m) |-> WalkStep(F, type)]
    BY <2>1
  <2> DEFINE G == [type \in Reach(m + 1) |-> WalkStep(F, type)]
  <2>3. ASSUME NEW type \in Reach(m) PROVE F[type] = G[type]
    <3>1. type \in Reach(m + 1)
      BY <1>1, <2>1, DepthFacts
    <3> HIDE DEF Reach
    <3>2. F[type] = WalkStep(F, type) /\ G[type] = WalkStep(F, type)
      BY <2>2, <3>1
    <3> QED  BY <3>2
  <2>4. ASSUME NEW type \in Reach(m + 1) PROVE WalkStep(F, type) = WalkStep(G, type)
    <3>1. \A t \in DOMAIN Types : depth[t] < depth[type] => t \in Reach(m)
      BY <1>1, <2>1, DepthFacts
    <3> HIDE DEF G
    <3> QED  BY <1>1, <2>3, <3>1, WalkStepSame
  <2>5. G = [type \in Reach(m + 1) |-> WalkStep(G, type)]
    <3> HIDE DEF Reach
    <3> QED  BY <2>4
  <2> HIDE DEF G, Reach
  <2>6. m + 1 \in Nat /\ \E H : H = [type \in Reach(m + 1) |-> WalkStep(H, type)]
    BY <2>1, <2>5
  <2> QED  BY <2>6
<1>4. T = Nat
  <2>1. T \subseteq Nat
    OBVIOUS
  <2> HIDE DEF T
  <2> QED  BY <1>2, <1>3, <2>1, Induction
<1>5. NumberOfTypes \in Nat /\ Reach(NumberOfTypes) = DOMAIN Types
  <2>1. NumberOfTypes \in Nat
    BY BindingAssumption, FS_CardinalityType DEF NumberOfTypes
  <2> QED  BY <1>1, <2>1, DepthFacts
<1>6. \E F : F = [type \in DOMAIN Types |-> WalkStep(F, type)]
  <2>1. NumberOfTypes \in T
    BY <1>4, <1>5
  <2>2. \E F : F = [type \in Reach(NumberOfTypes) |-> WalkStep(F, type)]
    BY <2>1
  <2> HIDE DEF Reach
  <2> QED  BY <1>5, <2>2
<1>7. WalkFields = CHOOSE F : F = [type \in DOMAIN Types |-> WalkStep(F, type)]
  BY Zenon DEF WalkFields, WalkStep
<1>8. WalkFields = [type \in DOMAIN Types |-> WalkStep(WalkFields, type)]
  BY <1>6, <1>7
<1> QED  BY <1>8

-----------------------------------------------------------------------------
(* Places and keys: sequences of which the first parts are cut off.        *)

Parts == Nat \cup UNION {{f.key : f \in ToSet(Types[type])} : type \in DOMAIN Types}

Trails == Seq(Parts)

FirstOf(p, i) == SubSeq(p, 1, i)
From(p, m) == SubSeq(p, m + 1, Len(p))
Prefixed(n, r) == <<n>> \o r

LEMMA SameTrail ==
  ASSUME NEW p \in Trails, NEW q \in Trails, Len(p) = Len(q), \A i \in 1..Len(p) : p[i] = q[i]
  PROVE  p = q
BY SeqEqual DEF Trails

LEMMA TrailFacts ==
  ASSUME NEW p \in Trails
  PROVE  Len(p) \in Nat /\ (\A i \in 1..Len(p) : p[i] \in Parts)
BY LenProperties, ElementOfSeq DEF Trails

LEMMA FirstParts ==
  ASSUME NEW p \in Trails, NEW m \in 0..Len(p)
  PROVE  /\ FirstOf(p, m) \in Trails /\ Len(FirstOf(p, m)) = m
         /\ \A i \in 1..m : FirstOf(p, m)[i] = p[i]
<1>1. Len(p) \in Nat /\ \A i \in 1..m : p[i] \in Parts /\ 1 + i - 1 = i
  BY TrailFacts
<1>2. m - 1 + 1 = m /\ m \in Int /\ 1 \in Int /\ (IF 1 <= m THEN m - 1 + 1 ELSE 0) = m
  BY <1>1
<1>3. /\ FirstOf(p, m) \in Seq(Parts)
      /\ Len(FirstOf(p, m)) = IF 1 <= m THEN m - 1 + 1 ELSE 0
      /\ \A i \in 1..(m - 1 + 1) : FirstOf(p, m)[i] = p[1 + i - 1]
  <2>1. \A i \in 1..m : p[i] \in Parts
    BY <1>1
  <2> QED  BY ONLY <1>2, <2>1, SubSeqProperties DEF FirstOf
<1> QED  BY <1>1, <1>2, <1>3 DEF Trails

LEMMA LastParts ==
  ASSUME NEW p \in Trails, NEW m \in 0..Len(p)
  PROVE  /\ From(p, m) \in Trails /\ Len(From(p, m)) = Len(p) - m
         /\ \A i \in 1..(Len(p) - m) : From(p, m)[i] = p[m + i]
<1>1. Len(p) \in Nat /\ m \in Nat /\ m + 1 \in Int /\ Len(p) \in Int
  BY TrailFacts
<1>2. \A i \in (m + 1)..Len(p) : p[i] \in Parts
  BY <1>1, TrailFacts
<1>3. /\ Len(p) - (m + 1) + 1 = Len(p) - m
      /\ (IF m + 1 <= Len(p) THEN Len(p) - (m + 1) + 1 ELSE 0) = Len(p) - m
  BY <1>1
<1>4. /\ From(p, m) \in Seq(Parts)
      /\ Len(From(p, m)) = IF m + 1 <= Len(p) THEN Len(p) - (m + 1) + 1 ELSE 0
      /\ \A i \in 1..(Len(p) - (m + 1) + 1) : From(p, m)[i] = p[(m + 1) + i - 1]
  BY ONLY <1>1, <1>2, SubSeqProperties DEF From
<1>5. \A i \in 1..(Len(p) - m) : (m + 1) + i - 1 = m + i
  BY <1>1
<1> QED  BY <1>3, <1>4, <1>5 DEF Trails

LEMMA WholeTrail ==
  ASSUME NEW p \in Trails
  PROVE  FirstOf(p, Len(p)) = p /\ From(p, 0) = p
<1>1. Len(p) \in Nat /\ 0 \in 0..Len(p) /\ Len(p) \in 0..Len(p) /\ Len(p) - 0 = Len(p)
  BY TrailFacts
<1>2. \A i \in 1..Len(p) : 0 + i = i
  BY <1>1
<1>3. FirstOf(p, Len(p)) = p
  <2>1. /\ FirstOf(p, Len(p)) \in Trails /\ Len(FirstOf(p, Len(p))) = Len(p)
        /\ \A i \in 1..Len(p) : FirstOf(p, Len(p))[i] = p[i]
    BY <1>1, FirstParts
  <2> QED  BY <2>1, SameTrail
<1>4. From(p, 0) = p
  <2>1. From(p, 0) \in Trails /\ Len(From(p, 0)) = Len(p) /\ \A i \in 1..Len(p) : From(p, 0)[i] = p[i]
    BY <1>1, <1>2, LastParts
  <2> QED  BY <2>1, SameTrail
<1> QED  BY <1>3, <1>4

LEMMA PrefixedFacts ==
  ASSUME NEW n \in Parts, NEW r \in Trails
  PROVE  /\ Prefixed(n, r) \in Trails /\ Len(Prefixed(n, r)) = Len(r) + 1
         /\ Prefixed(n, r)[1] = n /\ \A i \in 1..Len(r) : Prefixed(n, r)[i + 1] = r[i]
<1>1. <<n>> \in Seq(Parts) /\ Len(<<n>>) = 1 /\ <<n>>[1] = n
  OBVIOUS
<1>2. r \in Seq(Parts) /\ Len(r) \in Nat
  BY TrailFacts DEF Trails
<1>3. /\ Prefixed(n, r) \in Seq(Parts) /\ Len(Prefixed(n, r)) = 1 + Len(r)
      /\ \A i \in 1..(1 + Len(r)) : Prefixed(n, r)[i] = IF i <= 1 THEN <<n>>[i] ELSE r[i - 1]
  BY <1>1, <1>2, ConcatProperties DEF Prefixed
<1>4. Prefixed(n, r)[1] = n
  <2>1. 1 \in 1..(1 + Len(r)) /\ 1 <= 1
    BY <1>2
  <2> QED  BY <1>1, <1>3, <2>1
<1>5. ASSUME NEW i \in 1..Len(r) PROVE Prefixed(n, r)[i + 1] = r[i]
  <2>1. i + 1 \in 1..(1 + Len(r)) /\ ~(i + 1 <= 1) /\ i + 1 - 1 = i
    BY <1>2
  <2> QED  BY <1>3, <2>1
<1>6. Len(Prefixed(n, r)) = Len(r) + 1
  BY <1>2, <1>3
<1> QED  BY <1>3, <1>4, <1>5, <1>6 DEF Trails

LEMMA PrefixedSame ==
  ASSUME NEW n \in Parts, NEW r \in Trails, NEW m \in Parts, NEW s \in Trails,
         Prefixed(n, r) = Prefixed(m, s)
  PROVE  n = m /\ r = s
<1>1. n = m
  BY PrefixedFacts
<1>2. Len(r) = Len(s)
  <2>1. Len(r) \in Nat /\ Len(s) \in Nat /\ Len(r) + 1 = Len(s) + 1
    BY TrailFacts, PrefixedFacts
  <2> QED  BY <2>1
<1>3. \A i \in 1..Len(r) : r[i] = s[i]
  <2>1. ASSUME NEW i \in 1..Len(r) PROVE r[i] = s[i]
    <3>1. i \in 1..Len(s)
      BY <1>2
    <3>2. Prefixed(n, r)[i + 1] = r[i]
      BY PrefixedFacts
    <3>3. Prefixed(m, s)[i + 1] = s[i]
      BY <3>1, PrefixedFacts
    <3> QED  BY <3>2, <3>3
  <2> QED  BY <2>1
<1> QED  BY <1>1, <1>2, <1>3, SameTrail

\* The first parts, and the last, of a trail that begins with n.
LEMMA PrefixedCut ==
  ASSUME NEW n \in Parts, NEW r \in Trails, NEW m \in 0..Len(r)
  PROVE  /\ FirstOf(Prefixed(n, r), m + 1) = Prefixed(n, FirstOf(r, m))
         /\ From(Prefixed(n, r), m + 1) = From(r, m)
<1> DEFINE p == Prefixed(n, r)
<1>1. /\ p \in Trails /\ Len(p) = Len(r) + 1 /\ Len(r) \in Nat /\ m \in Nat
      /\ p[1] = n /\ \A i \in 1..Len(r) : p[i + 1] = r[i]
  BY PrefixedFacts, TrailFacts
<1> HIDE DEF p
<1> DEFINE k == m + 1
<1>2. k = m + 1 /\ k \in 0..Len(p) /\ Len(p) - k = Len(r) - m
  BY <1>1
<1> HIDE DEF k
<1>3. FirstOf(p, k) = Prefixed(n, FirstOf(r, m))
  <2> DEFINE u == FirstOf(r, m)
             v == FirstOf(p, k)
  <2>1. u \in Trails /\ Len(u) = m /\ \A i \in 1..m : u[i] = r[i]
    BY FirstParts
  <2>2. v \in Trails /\ Len(v) = k /\ \A i \in 1..k : v[i] = p[i]
    BY <1>1, <1>2, FirstParts
  <2> HIDE DEF u, v
  <2>3. /\ Prefixed(n, u) \in Trails /\ Len(Prefixed(n, u)) = k /\ Prefixed(n, u)[1] = n
        /\ \A i \in 1..m : Prefixed(n, u)[i + 1] = u[i]
    BY <1>2, <2>1, PrefixedFacts
  <2>4. ASSUME NEW i \in 1..k PROVE v[i] = Prefixed(n, u)[i]
    <3>1. CASE i = 1
      BY <1>1, <2>2, <2>3, <3>1
    <3>2. CASE i # 1
      <4>1. i - 1 \in 1..m /\ i - 1 \in 1..Len(r) /\ i - 1 + 1 = i
        BY <1>1, <1>2, <3>2
      <4>2. p[i] = r[i - 1] /\ Prefixed(n, u)[i] = u[i - 1] /\ u[i - 1] = r[i - 1]
        BY <1>1, <2>1, <2>3, <4>1
      <4> QED  BY <2>2, <4>2
    <3> QED  BY <3>1, <3>2
  <2>5. v = Prefixed(n, u)
    BY <2>2, <2>3, <2>4, SameTrail
  <2> QED  BY <2>5 DEF u, v
<1>4. From(p, k) = From(r, m)
  <2> DEFINE u == From(r, m)
             v == From(p, k)
  <2>1. u \in Trails /\ Len(u) = Len(r) - m /\ \A i \in 1..(Len(r) - m) : u[i] = r[m + i]
    BY LastParts
  <2>2. v \in Trails /\ Len(v) = Len(r) - m /\ \A i \in 1..(Len(r) - m) : v[i] = p[k + i]
    BY <1>1, <1>2, LastParts
  <2> HIDE DEF u, v
  <2>3. ASSUME NEW i \in 1..(Len(r) - m) PROVE v[i] = u[i]
    <3>1. m + i \in 1..Len(r) /\ k + i = (m + i) + 1
      BY <1>1, <1>2
    <3>2. p[(m + i) + 1] = r[m + i]
      BY <1>1, <3>1
    <3> QED  BY <2>1, <2>2, <3>1, <3>2
  <2>4. v = u
    BY <2>1, <2>2, <2>3, SameTrail
  <2> QED  BY <2>4 DEF u, v
<1> QED  BY <1>2, <1>3, <1>4 DEF p

LEMMA CutTwice ==
  ASSUME NEW p \in Trails, NEW m \in 0..Len(p), NEW n \in 0..(Len(p) - m)
  PROVE  m + n \in 0..Len(p) /\ From(From(p, m), n) = From(p, m + n)
<1>1. /\ Len(p) \in Nat /\ m \in Nat /\ n \in Nat /\ m + n \in 0..Len(p)
      /\ (Len(p) - m) - n = Len(p) - (m + n)
  BY TrailFacts
<1> DEFINE u == From(p, m)
           v == From(u, n)
           w == From(p, m + n)
<1>2. u \in Trails /\ Len(u) = Len(p) - m /\ \A i \in 1..(Len(p) - m) : u[i] = p[m + i]
  BY LastParts
<1> HIDE DEF u
<1>3. v \in Trails /\ Len(v) = Len(p) - (m + n) /\ \A i \in 1..(Len(p) - (m + n)) : v[i] = u[n + i]
  <2>1. n \in 0..Len(u) /\ Len(u) - n = Len(p) - (m + n)
    BY <1>1, <1>2
  <2>2. v \in Trails /\ Len(v) = Len(u) - n /\ \A i \in 1..(Len(u) - n) : v[i] = u[n + i]
    BY <1>2, <2>1, LastParts
  <2> QED  BY <2>1, <2>2
<1>4. /\ w \in Trails /\ Len(w) = Len(p) - (m + n)
      /\ \A i \in 1..(Len(p) - (m + n)) : w[i] = p[(m + n) + i]
  BY <1>1, LastParts
<1> HIDE DEF v, w
<1>5. ASSUME NEW i \in 1..(Len(p) - (m + n)) PROVE v[i] = w[i]
  <2>1. n + i \in 1..(Len(p) - m) /\ m + (n + i) = (m + n) + i
    BY <1>1
  <2> QED  BY <1>2, <1>3, <1>4, <2>1
<1>6. v = w
  BY <1>3, <1>4, <1>5, SameTrail
<1> QED  BY <1>1, <1>6 DEF u, v, w

\* What is between the first m parts and the next n.
LEMMA CutBetween ==
  ASSUME NEW p \in Trails, NEW m \in 0..Len(p), NEW n \in 0..(Len(p) - m)
  PROVE  FirstOf(p, m + n) = FirstOf(p, m) \o FirstOf(From(p, m), n)
<1>1. Len(p) \in Nat /\ m \in Nat /\ n \in Nat /\ m + n \in 0..Len(p)
  BY TrailFacts
<1> DEFINE u == From(p, m)
           v == FirstOf(u, n)
           w == FirstOf(p, m)
           x == FirstOf(p, m + n)
<1>2. u \in Trails /\ Len(u) = Len(p) - m /\ \A i \in 1..(Len(p) - m) : u[i] = p[m + i]
  BY LastParts
<1> HIDE DEF u
<1>3. v \in Trails /\ Len(v) = n /\ \A i \in 1..n : v[i] = u[i]
  BY <1>1, <1>2, FirstParts
<1>4. w \in Trails /\ Len(w) = m /\ \A i \in 1..m : w[i] = p[i]
  BY <1>1, FirstParts
<1>5. x \in Trails /\ Len(x) = m + n /\ \A i \in 1..(m + n) : x[i] = p[i]
  BY <1>1, FirstParts
<1> HIDE DEF v, w, x
<1>6. /\ w \o v \in Trails /\ Len(w \o v) = m + n
      /\ \A i \in 1..(m + n) : (w \o v)[i] = IF i <= m THEN w[i] ELSE v[i - m]
  BY <1>3, <1>4, ConcatProperties DEF Trails
<1>7. ASSUME NEW i \in 1..(m + n) PROVE x[i] = (w \o v)[i]
  <2>1. CASE i <= m
    <3>1. i \in 1..m
      BY <1>1, <2>1
    <3> QED  BY <1>4, <1>5, <1>6, <2>1, <3>1
  <2>2. CASE ~(i <= m)
    <3>1. i - m \in 1..n /\ i - m \in 1..(Len(p) - m) /\ m + (i - m) = i
      BY <1>1, <2>2
    <3>2. v[i - m] = p[i]
      BY <1>2, <1>3, <3>1
    <3> QED  BY <1>5, <1>6, <2>2, <3>2
  <2> QED  BY <2>1, <2>2
<1>8. x = w \o v
  BY <1>5, <1>6, <1>7, SameTrail
<1> QED  BY <1>8 DEF u, v, w, x

LEMMA CutOfFirst ==
  ASSUME NEW p \in Trails, NEW m \in 0..Len(p), NEW n \in 0..m
  PROVE  FirstOf(FirstOf(p, m), n) = FirstOf(p, n)
<1>1. Len(p) \in Nat /\ m \in Nat /\ n \in Nat /\ n \in 0..Len(p)
  BY TrailFacts
<1> DEFINE u == FirstOf(p, m)
           v == FirstOf(u, n)
           w == FirstOf(p, n)
<1>2. u \in Trails /\ Len(u) = m /\ \A i \in 1..m : u[i] = p[i]
  BY FirstParts
<1> HIDE DEF u
<1>3. v \in Trails /\ Len(v) = n /\ \A i \in 1..n : v[i] = u[i]
  BY <1>1, <1>2, FirstParts
<1>4. w \in Trails /\ Len(w) = n /\ \A i \in 1..n : w[i] = p[i]
  BY <1>1, FirstParts
<1> HIDE DEF v, w
<1>5. ASSUME NEW i \in 1..n PROVE v[i] = w[i]
  <2>1. i \in 1..m
    BY <1>1
  <2> QED  BY <1>2, <1>3, <1>4, <2>1
<1>6. v = w
  BY <1>3, <1>4, <1>5, SameTrail
<1> QED  BY <1>6 DEF u, v, w

-----------------------------------------------------------------------------
(* The fields of a struct type, by induction on the types.                 *)

LEMMA TypeInduction ==
  ASSUME NEW S \in SUBSET DOMAIN Types,
         \A type \in DOMAIN Types :
            (\A f \in ToSet(Types[type]) : f.kind \in Structs => f.of \in S) => type \in S
  PROVE  S = DOMAIN Types
<1>1. PICK depth : depth \in Depths
  BY TypesOK
<1> DEFINE T == {m \in Nat : \A type \in DOMAIN Types : depth[type] <= m => type \in S}
<1>2. 0 \in T
  BY <1>1, DepthFacts
<1>3. ASSUME NEW m \in T PROVE m + 1 \in T
  <2>1. m \in Nat /\ \A type \in DOMAIN Types : depth[type] <= m => type \in S
    OBVIOUS
  <2>2. ASSUME NEW type \in DOMAIN Types, depth[type] <= m + 1 PROVE type \in S
    <3>1. ASSUME NEW f \in ToSet(Types[type]), f.kind \in Structs PROVE f.of \in S
      <4>1. f.of \in DOMAIN Types /\ depth[f.of] < depth[type]
        BY <1>1, <3>1, TypesOK DEF Depths, FieldOK
      <4>2. depth[f.of] <= m
        BY <1>1, <2>1, <2>2, <4>1, DepthFacts
      <4> QED  BY <2>1, <4>1, <4>2
    <3> QED  BY <3>1
  <2> QED  BY <2>1, <2>2
<1>4. T = Nat
  <2>1. T \subseteq Nat
    OBVIOUS
  <2> HIDE DEF T
  <2> QED  BY <1>2, <1>3, <2>1, Induction
<1>5. NumberOfTypes \in T
  <2>1. NumberOfTypes \in Nat
    BY BindingAssumption, FS_CardinalityType DEF NumberOfTypes
  <2> HIDE DEF T
  <2> QED  BY <1>4, <2>1
<1>6. \A type \in DOMAIN Types : type \in S
  BY <1>1, <1>5, DepthFacts
<1> QED  BY <1>6

\* The field of a struct itself.
Direct(type, i) == [place |-> <<i>>, key |-> <<Types[type][i].key>>, pointers |-> {}, field |-> Types[type][i]]

Tags == UNION {ToSet(Types[type]) : type \in DOMAIN Types}

AnyField == [place : Trails, key : Trails, pointers : SUBSET (Nat \ {0}), field : Tags]

LEMMA FieldsOfType ==
  ASSUME NEW type \in DOMAIN Types, NEW i \in DOMAIN Types[type]
  PROVE  /\ i \in Nat /\ Types[type][i] \in ToSet(Types[type]) /\ Types[type][i] \in Tags
         /\ i \in Parts /\ Types[type][i].key \in Parts /\ FieldOK(Types[type][i])
<1>1. Types[type] \in Seq(ToSet(Types[type]))
  BY TypesOK
<1>2. i \in Nat
  BY <1>1
<1>3. Types[type][i] \in ToSet(Types[type])
  BY DEF ToSet
<1>4. FieldOK(Types[type][i])
  BY <1>3, TypesOK
<1> QED  BY <1>2, <1>3, <1>4 DEF Tags, Parts

LEMMA DirectIsField ==
  ASSUME NEW type \in DOMAIN Types, NEW i \in DOMAIN Types[type]
  PROVE  Direct(type, i) \in StructFields[type]
<1>1. StructFields[type] = FieldsStep(StructFields, type)
  BY StructFieldsAre
<1>2. Direct(type, i) \in LET f == Types[type][i] IN
         {[place |-> <<i>>, key |-> <<f.key>>, pointers |-> {}, field |-> f]}
         \cup {Inside(f, i, d) : d \in IF f.kind \in Structs THEN StructFields[f.of] ELSE {}}
  BY DEF Direct
<1> QED  BY <1>1, <1>2 DEF FieldsStep

LEMMA InsideIsField ==
  ASSUME NEW type \in DOMAIN Types, NEW i \in DOMAIN Types[type], Types[type][i].kind \in Structs,
         NEW x \in StructFields[Types[type][i].of]
  PROVE  Inside(Types[type][i], i, x) \in StructFields[type]
<1>1. StructFields[type] = FieldsStep(StructFields, type)
  BY StructFieldsAre
<1> QED  BY <1>1 DEF FieldsStep

LEMMA FieldCases ==
  ASSUME NEW type \in DOMAIN Types, NEW d \in StructFields[type]
  PROVE  \E i \in DOMAIN Types[type] :
            \/ d = Direct(type, i)
            \/ /\ Types[type][i].kind \in Structs
               /\ \E x \in StructFields[Types[type][i].of] : d = Inside(Types[type][i], i, x)
<1>1. d \in FieldsStep(StructFields, type)
  BY StructFieldsAre
<1>2. PICK i \in DOMAIN Types[type] :
         d \in LET f == Types[type][i] IN
               {[place |-> <<i>>, key |-> <<f.key>>, pointers |-> {}, field |-> f]}
               \cup {Inside(f, i, x) : x \in IF f.kind \in Structs THEN StructFields[f.of] ELSE {}}
  BY <1>1 DEF FieldsStep
<1> QED  BY <1>2 DEF Direct

LEMMA DirectTyped ==
  ASSUME NEW type \in DOMAIN Types, NEW i \in DOMAIN Types[type]
  PROVE  /\ Direct(type, i) \in AnyField
         /\ Len(Direct(type, i).place) = 1 /\ Len(Direct(type, i).key) = 1
         /\ Direct(type, i).place[1] = i
<1>1. <<i>> \in Trails /\ <<Types[type][i].key>> \in Trails
  BY FieldsOfType DEF Trails
<1> QED  BY <1>1, FieldsOfType DEF Direct, AnyField

LEMMA InsideTyped ==
  ASSUME NEW i \in Nat, NEW f \in Tags, f.key \in Parts, NEW x \in AnyField
  PROVE  Inside(f, i, x) \in AnyField
<1>1. i \in Parts
  BY DEF Parts
<1>2. x.place \in Trails /\ x.key \in Trails /\ x.pointers \in SUBSET (Nat \ {0}) /\ x.field \in Tags
  BY DEF AnyField
<1>3. <<i>> \o x.place \in Trails /\ <<f.key>> \o x.key \in Trails
  BY <1>1, <1>2, PrefixedFacts DEF Prefixed
<1>4. {q + 1 : q \in x.pointers} \cup {q \in {1} : f.kind = "pointer"} \in SUBSET (Nat \ {0})
  BY <1>2
<1> QED  BY <1>2, <1>3, <1>4 DEF Inside, AnyField

LEMMA FieldsTyped ==
  ASSUME NEW type \in DOMAIN Types
  PROVE  StructFields[type] \subseteq AnyField
<1> DEFINE S == {t \in DOMAIN Types : StructFields[t] \subseteq AnyField}
<1>1. ASSUME NEW t \in DOMAIN Types, \A f \in ToSet(Types[t]) : f.kind \in Structs => f.of \in S
      PROVE  t \in S
  <2>1. ASSUME NEW d \in StructFields[t] PROVE d \in AnyField
    <3>1. PICK i \in DOMAIN Types[t] :
             \/ d = Direct(t, i)
             \/ /\ Types[t][i].kind \in Structs
                /\ \E x \in StructFields[Types[t][i].of] : d = Inside(Types[t][i], i, x)
      BY FieldCases
    <3>2. CASE d = Direct(t, i)
      BY <3>2, DirectTyped
    <3>3. ASSUME Types[t][i].kind \in Structs, NEW x \in StructFields[Types[t][i].of],
                 d = Inside(Types[t][i], i, x)
          PROVE  d \in AnyField
      <4>1. x \in AnyField
        BY <1>1, <3>3, FieldsOfType
      <4> QED  BY <3>3, <4>1, InsideTyped, FieldsOfType
    <3> QED  BY <3>1, <3>2, <3>3
  <2> QED  BY <2>1
<1>2. S = DOMAIN Types
  <2>1. S \in SUBSET DOMAIN Types
    OBVIOUS
  <2> HIDE DEF S
  <2> QED  BY <1>1, <2>1, TypeInduction
<1> QED  BY <1>2

-----------------------------------------------------------------------------
(* Types that embed nothing: a place and its key have the same length.     *)

Tidy == {type \in DOMAIN Types : ~Embeds(type)}

LEMMA TidyFields ==
  ASSUME NEW type \in Tidy, NEW i \in DOMAIN Types[type]
  PROVE  /\ type \in DOMAIN Types
         /\ Types[type][i].kind # "embedded"
         /\ Types[type][i].kind \in Structs =>
               Types[type][i].kind \in {"struct", "pointer"} /\ Types[type][i].of \in Tidy
<1>1. type \in DOMAIN Types /\ \A d \in StructFields[type] : d.field.kind # "embedded"
  BY DEF Tidy, Embeds
<1>2. Types[type][i].kind # "embedded"
  <2>1. Direct(type, i) \in StructFields[type] /\ Direct(type, i).field = Types[type][i]
    BY <1>1, DirectIsField DEF Direct
  <2> QED  BY <1>1, <2>1
<1>3. ASSUME Types[type][i].kind \in Structs PROVE Types[type][i].of \in Tidy
  <2>1. Types[type][i].of \in DOMAIN Types
    BY <1>1, <1>3, FieldsOfType DEF FieldOK
  <2>2. ASSUME NEW x \in StructFields[Types[type][i].of] PROVE x.field.kind # "embedded"
    <3>1. /\ Inside(Types[type][i], i, x) \in StructFields[type]
          /\ Inside(Types[type][i], i, x).field = x.field
      BY <1>1, <1>3, InsideIsField DEF Inside
    <3> QED  BY <1>1, <3>1
  <2> QED  BY <2>1, <2>2 DEF Tidy, Embeds
<1> QED  BY <1>1, <1>2, <1>3 DEF Structs

\* A field of a struct in the struct around it.
LEMMA InsideFacts ==
  ASSUME NEW i \in Nat, NEW f \in Tags, f.key \in Parts, f.kind # "embedded", NEW x \in AnyField
  PROVE  /\ Inside(f, i, x).place = Prefixed(i, x.place) /\ Inside(f, i, x).key = Prefixed(f.key, x.key)
         /\ Inside(f, i, x).field = x.field
         /\ \A q \in Nat \ {0} : q + 1 \in Inside(f, i, x).pointers <=> q \in x.pointers
         /\ 1 \in Inside(f, i, x).pointers <=> f.kind = "pointer"
<1>1. \A q \in x.pointers : q \in Nat /\ q # 0 /\ q + 1 # 1
  BY DEF AnyField
<1>2. Inside(f, i, x).pointers = {q + 1 : q \in x.pointers} \cup {q \in {1} : f.kind = "pointer"}
  BY DEF Inside
<1>3. 1 \in Inside(f, i, x).pointers <=> f.kind = "pointer"
  BY <1>1, <1>2
<1>4. \A q \in Nat \ {0} : q + 1 \in Inside(f, i, x).pointers <=> q \in x.pointers
  BY <1>1, <1>2
<1> QED  BY <1>3, <1>4 DEF Inside, Prefixed

LEMMA InnerOfInside ==
  ASSUME NEW i \in Nat, NEW f \in Tags, f.key \in Parts, f.kind # "embedded", NEW x \in AnyField,
         Len(x.place) = Len(x.key), NEW m \in 0..Len(x.key)
  PROVE  Inner(Inside(f, i, x), m + 1) = Inner(x, m)
<1> DEFINE d == Inside(f, i, x)
<1>1. x.place \in Trails /\ x.key \in Trails /\ x.pointers \subseteq Nat \ {0} /\ i \in Parts
  BY DEF AnyField, Parts
<1>2. m \in Nat /\ m \in 0..Len(x.place)
  BY <1>1, TrailFacts
<1>3. /\ d.place = Prefixed(i, x.place) /\ d.key = Prefixed(f.key, x.key) /\ d.field = x.field
      /\ \A q \in Nat \ {0} : q + 1 \in d.pointers <=> q \in x.pointers
      /\ d \in AnyField
  <2>1. d \in AnyField
    BY InsideTyped
  <2>2. /\ d.place = Prefixed(i, x.place) /\ d.key = Prefixed(f.key, x.key) /\ d.field = x.field
        /\ \A q \in Nat \ {0} : q + 1 \in d.pointers <=> q \in x.pointers
    BY InsideFacts
  <2> QED  BY <2>1, <2>2
<1> HIDE DEF d
<1>4. From(d.place, m + 1) = From(x.place, m) /\ From(d.key, m + 1) = From(x.key, m)
  <2>1. From(Prefixed(i, x.place), m + 1) = From(x.place, m)
    BY <1>1, <1>2, PrefixedCut
  <2>2. From(Prefixed(f.key, x.key), m + 1) = From(x.key, m)
    BY <1>1, PrefixedCut
  <2> QED  BY <1>3, <2>1, <2>2
<1>5. {q - (m + 1) : q \in {q \in d.pointers : q > m + 1}} = {q - m : q \in {q \in x.pointers : q > m}}
  <2>1. ASSUME NEW q \in d.pointers, q > m + 1
        PROVE  \E r \in x.pointers : r > m /\ q - (m + 1) = r - m
    <3>1. q \in Nat
      BY <1>3 DEF AnyField
    <3>2. q - 1 \in Nat \ {0} /\ q - 1 + 1 = q /\ q - 1 > m /\ q - (m + 1) = (q - 1) - m
      BY <1>2, <2>1, <3>1
    <3>3. q - 1 \in x.pointers
      BY <1>3, <3>2
    <3> QED  BY <3>2, <3>3
  <2>2. ASSUME NEW r \in x.pointers, r > m
        PROVE  \E q \in d.pointers : q > m + 1 /\ q - (m + 1) = r - m
    <3>1. r \in Nat \ {0}
      BY <1>1
    <3>2. r + 1 > m + 1 /\ (r + 1) - (m + 1) = r - m /\ r + 1 \in d.pointers
      BY <1>2, <1>3, <2>2, <3>1
    <3> QED  BY <3>2
  <2> QED  BY <2>1, <2>2
<1> QED  BY <1>3, <1>4, <1>5 DEF Inner, From, d

LEMMA InnerOfNone ==
  ASSUME NEW x \in AnyField
  PROVE  Inner(x, 0) = x
<1>1. From(x.place, 0) = x.place /\ From(x.key, 0) = x.key
  BY WholeTrail DEF AnyField
<1>2. {q - 0 : q \in {q \in x.pointers : q > 0}} = x.pointers
  BY DEF AnyField
<1> QED  BY <1>1, <1>2 DEF Inner, From, AnyField

SameLengths(d) ==
    /\ d \in AnyField /\ Len(d.place) = Len(d.key) /\ Len(d.key) \in Nat /\ 1 <= Len(d.key)
    /\ d.pointers \subseteq 1..(Len(d.key) - 1)

LEMMA TidyLengths ==
  ASSUME NEW type \in Tidy, NEW e \in StructFields[type]
  PROVE  SameLengths(e)
<1> DEFINE S == {t \in DOMAIN Types : t \in Tidy => \A d \in StructFields[t] : SameLengths(d)}
<1>1. ASSUME NEW t \in DOMAIN Types, \A f \in ToSet(Types[t]) : f.kind \in Structs => f.of \in S
      PROVE  t \in S
  <2>1. ASSUME t \in Tidy, NEW d \in StructFields[t] PROVE SameLengths(d)
    <3>1. PICK i \in DOMAIN Types[t] :
             \/ d = Direct(t, i)
             \/ /\ Types[t][i].kind \in Structs
                /\ \E x \in StructFields[Types[t][i].of] : d = Inside(Types[t][i], i, x)
      BY FieldCases
    <3>2. CASE d = Direct(t, i)
      <4>1. d.pointers = {}
        BY <3>2 DEF Direct
      <4> QED  BY <3>2, <4>1, DirectTyped DEF SameLengths
    <3>3. ASSUME Types[t][i].kind \in Structs, NEW x \in StructFields[Types[t][i].of],
                 d = Inside(Types[t][i], i, x)
          PROVE  SameLengths(d)
      <4>1. Types[t][i].of \in S /\ Types[t][i].of \in Tidy /\ Types[t][i].kind # "embedded"
        BY <1>1, <2>1, <3>3, FieldsOfType, TidyFields
      <4>2. SameLengths(x)
        BY <4>1
      <4>3. x \in AnyField /\ x.place \in Trails /\ x.key \in Trails
        BY <4>2 DEF SameLengths, AnyField
      <4> DEFINE f == Types[t][i]
      <4>7. i \in Nat /\ f \in Tags /\ f.key \in Parts /\ i \in Parts
        BY FieldsOfType
      <4> HIDE DEF f
      <4>8. d = Inside(f, i, x) /\ f.kind # "embedded"
        BY <3>3, <4>1 DEF f
      <4>4. /\ d.place = Prefixed(i, x.place) /\ d.key = Prefixed(f.key, x.key)
            /\ \A q \in Nat \ {0} : q + 1 \in d.pointers <=> q \in x.pointers
            /\ d \in AnyField
        BY <4>3, <4>7, <4>8, InsideFacts, InsideTyped
      <4>5. Len(d.place) = Len(x.place) + 1 /\ Len(d.key) = Len(x.key) + 1
        <5>1. /\ Len(Prefixed(i, x.place)) = Len(x.place) + 1
              /\ Len(Prefixed(f.key, x.key)) = Len(x.key) + 1
          BY <4>3, <4>7, PrefixedFacts
        <5> QED  BY <4>4, <5>1
      <4>6. ASSUME NEW q \in d.pointers PROVE q \in 1..(Len(d.key) - 1)
        <5>1. q \in Nat \ {0}
          BY <4>4 DEF AnyField
        <5>2. CASE q = 1
          BY <4>2, <4>5, <5>2 DEF SameLengths
        <5>3. CASE q # 1
          <6>1. q - 1 \in Nat \ {0} /\ q - 1 + 1 = q
            BY <5>1, <5>3
          <6>2. q - 1 \in x.pointers
            BY <4>4, <6>1
          <6>3. q - 1 \in 1..(Len(x.key) - 1)
            BY <4>2, <6>2 DEF SameLengths
          <6> QED  BY <4>2, <4>5, <5>1, <6>3 DEF SameLengths
        <5> QED  BY <5>2, <5>3
      <4>9. Len(x.place) = Len(x.key) /\ Len(x.key) \in Nat
        BY <4>2 DEF SameLengths
      <4>10. Len(d.place) = Len(d.key) /\ Len(d.key) \in Nat /\ 1 <= Len(d.key)
        BY ONLY <4>5, <4>9
      <4>11. d.pointers \subseteq 1..(Len(d.key) - 1)
        BY <4>6
      <4> QED  BY <4>4, <4>10, <4>11 DEF SameLengths
    <3> QED  BY <3>1, <3>2, <3>3
  <2> QED  BY <2>1
<1>2. S = DOMAIN Types
  <2>1. S \in SUBSET DOMAIN Types
    OBVIOUS
  <2> HIDE DEF S
  <2> QED  BY <1>1, <2>1, TypeInduction
<1>3. type \in DOMAIN Types
  BY DEF Tidy
<1> QED  BY <1>2, <1>3

-----------------------------------------------------------------------------
(* What is above a field, and what is in a struct.                         *)

\* The struct e has the field d at the parts of d after the first m.
HoldsAt(e, d, m) ==
    /\ e.place = FirstOf(d.place, m) /\ e.key = FirstOf(d.key, m)
    /\ e.field.kind \in {"struct", "pointer"} /\ e.field.of \in Tidy
    /\ e.pointers = {q \in d.pointers : q < m}
    /\ m \in d.pointers <=> e.field.kind = "pointer"
    /\ Inner(d, m) \in StructFields[e.field.of]

\* The field i of a type has a struct in it with the field x.
LEMMA InTidyStruct ==
  ASSUME NEW type \in Tidy, NEW i \in DOMAIN Types[type], Types[type][i].kind \in Structs,
         NEW x \in StructFields[Types[type][i].of], NEW d, d = Inside(Types[type][i], i, x)
  PROVE  /\ i \in Nat /\ Types[type][i] \in Tags /\ Types[type][i].key \in Parts /\ i \in Parts
         /\ Types[type][i].kind \in {"struct", "pointer"} /\ Types[type][i].of \in Tidy
         /\ x \in AnyField /\ x.place \in Trails /\ x.key \in Trails /\ x.pointers \subseteq Nat \ {0}
         /\ Len(x.place) = Len(x.key) /\ Len(x.key) \in Nat /\ 1 <= Len(x.key)
         /\ x.pointers \subseteq 1..(Len(x.key) - 1)
         /\ d.place = Prefixed(i, x.place) /\ d.key = Prefixed(Types[type][i].key, x.key)
         /\ Len(d.place) = Len(x.place) + 1 /\ Len(d.key) = Len(x.key) + 1
         /\ d \in StructFields[type] /\ d \in AnyField /\ d.field = x.field
<1> DEFINE f == Types[type][i]
<1>1. type \in DOMAIN Types /\ f.kind \in {"struct", "pointer"} /\ f.of \in Tidy
  BY TidyFields
<1>2. i \in Nat /\ f \in Tags /\ f.key \in Parts /\ i \in Parts
  BY <1>1, FieldsOfType
<1>3. SameLengths(x)
  BY <1>1, TidyLengths
<1>4. x \in AnyField /\ x.place \in Trails /\ x.key \in Trails /\ x.pointers \subseteq Nat \ {0}
  BY <1>3 DEF SameLengths, AnyField
<1>5. d \in StructFields[type]
  BY <1>1, InsideIsField
<1> HIDE DEF f
<1>6. d = Inside(f, i, x) /\ f.kind # "embedded"
  BY <1>1 DEF f
<1>7. d \in AnyField /\ d.field = x.field
  BY <1>2, <1>4, <1>6, InsideTyped, InsideFacts
<1>8. d.place = Prefixed(i, x.place) /\ d.key = Prefixed(f.key, x.key)
  BY <1>2, <1>4, <1>6, InsideFacts
<1>9. Len(d.place) = Len(x.place) + 1 /\ Len(d.key) = Len(x.key) + 1
  <2>1. Len(Prefixed(i, x.place)) = Len(x.place) + 1 /\ Len(Prefixed(f.key, x.key)) = Len(x.key) + 1
    BY <1>2, <1>4, PrefixedFacts
  <2> QED  BY <1>8, <2>1
<1> QED  BY <1>1, <1>2, <1>3, <1>4, <1>5, <1>7, <1>8, <1>9 DEF f, SameLengths

\* What holds x in a struct holds it in the struct around.
LEMMA HoldsInside ==
  ASSUME NEW type \in Tidy, NEW i \in DOMAIN Types[type], Types[type][i].kind \in Structs,
         NEW x \in StructFields[Types[type][i].of], NEW y \in StructFields[Types[type][i].of],
         NEW m \in 1..(Len(x.key) - 1), HoldsAt(y, x, m)
  PROVE  HoldsAt(Inside(Types[type][i], i, y), Inside(Types[type][i], i, x), m + 1)
<1> DEFINE f == Types[type][i]
           d == Inside(f, i, x)
           e == Inside(f, i, y)
<1>1. /\ i \in Nat /\ f \in Tags /\ f.key \in Parts /\ i \in Parts /\ f.kind # "embedded"
      /\ x \in AnyField /\ x.place \in Trails /\ x.key \in Trails
      /\ Len(x.place) = Len(x.key) /\ Len(x.key) \in Nat
      /\ d.place = Prefixed(i, x.place) /\ d.key = Prefixed(f.key, x.key)
  BY InTidyStruct
<1>2. /\ y \in AnyField /\ e.place = Prefixed(i, y.place) /\ e.key = Prefixed(f.key, y.key)
      /\ e.field = y.field
  BY InTidyStruct
<1>3. /\ \A q \in Nat \ {0} : q + 1 \in d.pointers <=> q \in x.pointers
      /\ 1 \in d.pointers <=> f.kind = "pointer"
      /\ \A q \in Nat \ {0} : q + 1 \in e.pointers <=> q \in y.pointers
      /\ 1 \in e.pointers <=> f.kind = "pointer"
  <2> HIDE DEF f
  <2> QED  BY <1>1, <1>2, InsideFacts
<1>4. d \in AnyField /\ e \in AnyField
  BY InTidyStruct
<1>5. Inner(d, m + 1) = Inner(x, m)
  <2>1. m \in 0..Len(x.key)
    BY <1>1
  <2> HIDE DEF f
  <2> QED  BY <1>1, <2>1, InnerOfInside
<1> HIDE DEF f, d, e
<1>6. m \in Nat \ {0} /\ m \in 0..Len(x.place) /\ m \in 0..Len(x.key)
  BY <1>1
<1>7. /\ FirstOf(d.place, m + 1) = Prefixed(i, FirstOf(x.place, m))
      /\ FirstOf(d.key, m + 1) = Prefixed(f.key, FirstOf(x.key, m))
  BY <1>1, <1>6, PrefixedCut
<1>8. e.place = FirstOf(d.place, m + 1) /\ e.key = FirstOf(d.key, m + 1)
  BY <1>2, <1>7 DEF HoldsAt
<1>9. e.pointers = {q \in d.pointers : q < m + 1}
  <2>1. ASSUME NEW q \in Nat \ {0} PROVE q \in e.pointers <=> q \in d.pointers /\ q < m + 1
    <3>1. CASE q = 1
      <4>1. 1 \in e.pointers <=> 1 \in d.pointers
        BY <1>3
      <4>2. 1 < m + 1
        BY <1>6
      <4> QED  BY <3>1, <4>1, <4>2
    <3>2. CASE q # 1
      <4>1. q - 1 \in Nat \ {0} /\ q - 1 + 1 = q
        BY <3>2
      <4>2. (q \in e.pointers <=> q - 1 \in y.pointers) /\ (q \in d.pointers <=> q - 1 \in x.pointers)
        BY <1>3, <4>1
      <4>3. q - 1 \in y.pointers <=> q - 1 \in x.pointers /\ q - 1 < m
        BY DEF HoldsAt
      <4> QED  BY <1>6, <4>1, <4>2, <4>3
    <3> QED  BY <3>1, <3>2
  <2> QED  BY <1>4, <2>1 DEF AnyField
<1>10. m + 1 \in d.pointers <=> e.field.kind = "pointer"
  BY <1>2, <1>3, <1>6 DEF HoldsAt
<1> QED  BY <1>2, <1>5, <1>8, <1>9, <1>10 DEF HoldsAt, d, e, f

LEMMA FirstInner ==
  ASSUME NEW type \in Tidy, NEW i \in DOMAIN Types[type], Types[type][i].kind \in Structs,
         NEW x \in StructFields[Types[type][i].of]
  PROVE  Inner(Inside(Types[type][i], i, x), 1) = x
<1> DEFINE f == Types[type][i]
<1>1. /\ i \in Nat /\ f \in Tags /\ f.key \in Parts /\ f.kind # "embedded"
      /\ x \in AnyField /\ Len(x.place) = Len(x.key) /\ Len(x.key) \in Nat
  BY InTidyStruct
<1> HIDE DEF f
<1>2. 0 \in 0..Len(x.key) /\ 0 + 1 = 1
  BY <1>1
<1>3. Inner(Inside(f, i, x), 0 + 1) = Inner(x, 0)
  BY <1>1, <1>2, InnerOfInside
<1>4. Inner(Inside(f, i, x), 1) = x
  BY <1>1, <1>2, <1>3, InnerOfNone
<1> QED  BY <1>4 DEF f

\* The outermost of the structs around a field holds it.
LEMMA FirstHolds ==
  ASSUME NEW type \in Tidy, NEW i \in DOMAIN Types[type], Types[type][i].kind \in Structs,
         NEW x \in StructFields[Types[type][i].of]
  PROVE  HoldsAt(Direct(type, i), Inside(Types[type][i], i, x), 1)
<1> DEFINE f == Types[type][i]
           d == Inside(f, i, x)
           e == Direct(type, i)
<1>1. /\ i \in Nat /\ f \in Tags /\ f.key \in Parts /\ i \in Parts /\ f.kind # "embedded"
      /\ f.kind \in {"struct", "pointer"} /\ f.of \in Tidy
      /\ x \in AnyField /\ x.place \in Trails /\ x.key \in Trails
      /\ Len(x.place) = Len(x.key) /\ Len(x.key) \in Nat
      /\ d.place = Prefixed(i, x.place) /\ d.key = Prefixed(f.key, x.key) /\ d \in AnyField
      /\ Len(d.place) = Len(x.place) + 1 /\ Len(d.key) = Len(x.key) + 1
  BY InTidyStruct
<1>2. e.place = <<i>> /\ e.key = <<f.key>> /\ e.pointers = {} /\ e.field = f
  BY DEF Direct
<1>3. 1 \in d.pointers <=> f.kind = "pointer"
  <2> HIDE DEF f
  <2> QED  BY <1>1, InsideFacts
<1>4. Inner(d, 1) = x
  BY FirstInner
<1> HIDE DEF d, e
<1>5. FirstOf(d.place, 1) = <<i>> /\ FirstOf(d.key, 1) = <<f.key>>
  <2> HIDE DEF f
  <2>1. \A n \in Parts : \A r \in Trails : FirstOf(Prefixed(n, r), 1) = <<n>>
    <3>1. ASSUME NEW n \in Parts, NEW r \in Trails PROVE FirstOf(Prefixed(n, r), 1) = <<n>>
      <4>1. Len(r) \in Nat /\ 1 \in 0..(Len(r) + 1)
        BY TrailFacts
      <4>2. Prefixed(n, r) \in Trails /\ Prefixed(n, r)[1] = n /\ 1 \in 0..Len(Prefixed(n, r))
        BY <4>1, PrefixedFacts
      <4>3. /\ FirstOf(Prefixed(n, r), 1) \in Trails /\ Len(FirstOf(Prefixed(n, r), 1)) = 1
            /\ \A j \in 1..1 : FirstOf(Prefixed(n, r), 1)[j] = Prefixed(n, r)[j]
        BY <4>2, FirstParts
      <4>4. <<n>> \in Trails /\ Len(<<n>>) = 1 /\ <<n>>[1] = n
        BY DEF Trails
      <4> QED  BY <4>2, <4>3, <4>4, SameTrail
    <3> QED  BY <3>1
  <2> QED  BY <1>1, <2>1
<1>6. {q \in d.pointers : q < 1} = {}
  BY <1>1 DEF AnyField
<1> QED  BY <1>1, <1>2, <1>3, <1>4, <1>5, <1>6 DEF HoldsAt, d, e

LEMMA TidyAncestors ==
  ASSUME NEW type \in Tidy, NEW d \in StructFields[type], NEW m \in 1..(Len(d.key) - 1)
  PROVE  \E e \in StructFields[type] : HoldsAt(e, d, m)
<1> DEFINE S == {t \in DOMAIN Types : t \in Tidy =>
                    \A b \in StructFields[t] : \A n \in 1..(Len(b.key) - 1) :
                       \E e \in StructFields[t] : HoldsAt(e, b, n)}
<1>1. ASSUME NEW t \in DOMAIN Types, \A f \in ToSet(Types[t]) : f.kind \in Structs => f.of \in S
      PROVE  t \in S
  <2>1. ASSUME t \in Tidy, NEW b \in StructFields[t], NEW n \in 1..(Len(b.key) - 1)
        PROVE  \E e \in StructFields[t] : HoldsAt(e, b, n)
    <3>1. PICK i \in DOMAIN Types[t] :
             \/ b = Direct(t, i)
             \/ /\ Types[t][i].kind \in Structs
                /\ \E x \in StructFields[Types[t][i].of] : b = Inside(Types[t][i], i, x)
      BY FieldCases
    <3>2. b # Direct(t, i)
      <4>1. Len(Direct(t, i).key) = 1
        BY DirectTyped
      <4>2. 1..(1 - 1) = {}
        OBVIOUS
      <4> QED  BY <2>1, <4>1, <4>2
    <3>3. PICK x \in StructFields[Types[t][i].of] : b = Inside(Types[t][i], i, x)
      BY <3>1, <3>2
    <3>4. Types[t][i].kind \in Structs
      BY <3>1, <3>2
    <3>5. Len(x.key) \in Nat /\ Len(b.key) = Len(x.key) + 1
      BY <2>1, <3>3, <3>4, InTidyStruct
    <3>6. CASE n = 1
      <4>1. HoldsAt(Direct(t, i), b, 1)
        BY <2>1, <3>3, <3>4, FirstHolds
      <4> QED  BY <3>6, <4>1, DirectIsField
    <3>7. CASE n # 1
      <4>1. n - 1 \in 1..(Len(x.key) - 1) /\ n - 1 + 1 = n
        BY <3>5, <3>7
      <4>2. Types[t][i].of \in S /\ Types[t][i].of \in Tidy
        BY <1>1, <2>1, <3>4, FieldsOfType, TidyFields
      <4>3. PICK y \in StructFields[Types[t][i].of] : HoldsAt(y, x, n - 1)
        BY <4>1, <4>2
      <4>4. HoldsAt(Inside(Types[t][i], i, y), b, n - 1 + 1)
        BY <2>1, <3>3, <3>4, <4>1, <4>3, HoldsInside
      <4>5. Inside(Types[t][i], i, y) \in StructFields[t]
        BY <3>4, InsideIsField
      <4> QED  BY <4>1, <4>4, <4>5
    <3> QED  BY <3>6, <3>7
  <2> QED  BY <2>1
<1>2. S = DOMAIN Types
  <2>1. S \in SUBSET DOMAIN Types
    OBVIOUS
  <2> HIDE DEF S
  <2> QED  BY <1>1, <2>1, TypeInduction
<1>3. type \in DOMAIN Types
  BY DEF Tidy
<1> QED  BY <1>2, <1>3

LEMMA PlacesDiffer ==
  ASSUME NEW type \in Tidy, NEW d \in StructFields[type], NEW e \in StructFields[type], d.place = e.place
  PROVE  d = e
<1> DEFINE S == {t \in DOMAIN Types : t \in Tidy =>
                    \A b, c \in StructFields[t] : b.place = c.place => b = c}
<1>1. ASSUME NEW t \in DOMAIN Types, \A f \in ToSet(Types[t]) : f.kind \in Structs => f.of \in S
      PROVE  t \in S
  <2>1. ASSUME t \in Tidy, NEW b \in StructFields[t], NEW c \in StructFields[t], b.place = c.place
        PROVE  b = c
    <3>1. PICK i \in DOMAIN Types[t] :
             \/ b = Direct(t, i)
             \/ /\ Types[t][i].kind \in Structs
                /\ \E x \in StructFields[Types[t][i].of] : b = Inside(Types[t][i], i, x)
      BY FieldCases
    <3>2. PICK j \in DOMAIN Types[t] :
             \/ c = Direct(t, j)
             \/ /\ Types[t][j].kind \in Structs
                /\ \E x \in StructFields[Types[t][j].of] : c = Inside(Types[t][j], j, x)
      BY FieldCases
    <3>3. ASSUME NEW h \in DOMAIN Types[t], Types[t][h].kind \in Structs,
                 NEW x \in StructFields[Types[t][h].of]
          PROVE  Len(Inside(Types[t][h], h, x).place) # 1
      <4>1. /\ Len(Inside(Types[t][h], h, x).place) = Len(x.place) + 1
            /\ Len(x.place) = Len(x.key) /\ Len(x.key) \in Nat /\ 1 <= Len(x.key)
        BY <2>1, <3>3, InTidyStruct
      <4> QED  BY <4>1
    <3>4. CASE b = Direct(t, i)
      <4>0. Len(c.place) = 1
        BY <2>1, <3>4, DirectTyped
      <4>1. c = Direct(t, j)
        <5>1. ASSUME Types[t][j].kind \in Structs, NEW y \in StructFields[Types[t][j].of],
                     c = Inside(Types[t][j], j, y)
              PROVE  FALSE
          BY <3>3, <4>0, <5>1
        <5> QED  BY <3>2, <5>1
      <4>2. i = j
        BY <2>1, <3>4, <4>1, DirectTyped
      <4> QED  BY <3>4, <4>1, <4>2
    <3>5. ASSUME Types[t][i].kind \in Structs, NEW x \in StructFields[Types[t][i].of],
                 b = Inside(Types[t][i], i, x)
          PROVE  b = c
      <4>0. Len(c.place) # 1
        BY <2>1, <3>3, <3>5
      <4>8. Len(Direct(t, j).place) = 1
        BY DirectTyped
      <4>9. c # Direct(t, j)
        BY <4>0, <4>8
      <4>1. Types[t][j].kind \in Structs /\ c # Direct(t, j)
        BY <3>2, <4>9
      <4>2. PICK y \in StructFields[Types[t][j].of] : c = Inside(Types[t][j], j, y)
        BY <3>2, <4>1
      <4>3. /\ b.place = Prefixed(i, x.place) /\ i \in Parts /\ x.place \in Trails
            /\ Types[t][i].of \in Tidy
        BY <2>1, <3>5, InTidyStruct
      <4>4. c.place = Prefixed(j, y.place) /\ j \in Parts /\ y.place \in Trails
        BY <2>1, <4>1, <4>2, InTidyStruct
      <4>5. i = j /\ x.place = y.place
        <5>1. Prefixed(i, x.place) = Prefixed(j, y.place)
          BY <2>1, <4>3, <4>4
        <5> QED  BY <4>3, <4>4, <5>1, PrefixedSame
      <4>6. Types[t][i].of \in S
        BY <1>1, <3>5, FieldsOfType
      <4>7. x = y
        BY <4>3, <4>5, <4>6
      <4> QED  BY <3>5, <4>2, <4>5, <4>7
    <3> QED  BY <3>1, <3>4, <3>5
  <2> QED  BY <2>1
<1>2. S = DOMAIN Types
  <2>1. S \in SUBSET DOMAIN Types
    OBVIOUS
  <2> HIDE DEF S
  <2> QED  BY <1>1, <2>1, TypeInduction
<1>3. type \in DOMAIN Types
  BY DEF Tidy
<1> QED  BY <1>2, <1>3

\* The field d is the field x of the struct e.
HasInside(e, d, x) ==
    /\ Len(e.place) \in 1..(Len(d.key) - 1) /\ FirstOf(d.place, Len(e.place)) = e.place
    /\ Inner(d, Len(e.place)) = x /\ d.field = x.field

LEMMA FieldsOfStructs ==
  ASSUME NEW type \in Tidy, NEW e \in StructFields[type], e.field.kind \in Structs,
         NEW x \in StructFields[e.field.of]
  PROVE  \E d \in StructFields[type] : HasInside(e, d, x)
<1> DEFINE S == {t \in DOMAIN Types : t \in Tidy =>
                    \A b \in StructFields[t] : b.field.kind \in Structs =>
                       \A y \in StructFields[b.field.of] : \E d \in StructFields[t] : HasInside(b, d, y)}
<1>1. ASSUME NEW t \in DOMAIN Types, \A f \in ToSet(Types[t]) : f.kind \in Structs => f.of \in S
      PROVE  t \in S
  <2>1. ASSUME t \in Tidy, NEW b \in StructFields[t], b.field.kind \in Structs,
               NEW y \in StructFields[b.field.of]
        PROVE  \E d \in StructFields[t] : HasInside(b, d, y)
    <3>1. PICK i \in DOMAIN Types[t] :
             \/ b = Direct(t, i)
             \/ /\ Types[t][i].kind \in Structs
                /\ \E x1 \in StructFields[Types[t][i].of] : b = Inside(Types[t][i], i, x1)
      BY FieldCases
    <3>2. CASE b = Direct(t, i)
      <4>1. Types[t][i].kind \in Structs /\ y \in StructFields[Types[t][i].of]
        BY <2>1, <3>2 DEF Direct
      <4> DEFINE d == Inside(Types[t][i], i, y)
      <4>2. /\ d \in StructFields[t] /\ Len(d.key) = Len(y.key) + 1 /\ Len(y.key) \in Nat
            /\ 1 <= Len(y.key)
               /\ d.field = y.field
        BY <2>1, <4>1, InTidyStruct
      <4>3. Inner(d, 1) = y
        BY <2>1, <4>1, FirstInner
      <4>4. FirstOf(d.place, 1) = b.place
        BY <2>1, <3>2, <4>1, FirstHolds DEF HoldsAt
      <4> HIDE DEF d
      <4>5. Len(b.place) = 1 /\ 1 \in 1..(Len(d.key) - 1)
        BY <3>2, <4>2, DirectTyped
      <4>6. HasInside(b, d, y)
        BY <4>2, <4>3, <4>4, <4>5 DEF HasInside
      <4> QED  BY <4>2, <4>6
    <3>3. ASSUME Types[t][i].kind \in Structs, NEW z \in StructFields[Types[t][i].of],
                 b = Inside(Types[t][i], i, z)
          PROVE  \E d \in StructFields[t] : HasInside(b, d, y)
      <4>1. Types[t][i].of \in S /\ Types[t][i].of \in Tidy
        BY <1>1, <2>1, <3>3, FieldsOfType, TidyFields
      <4>2. /\ b.field = z.field /\ b.place = Prefixed(i, z.place) /\ i \in Parts /\ z.place \in Trails
            /\ Len(b.place) = Len(z.place) + 1
        BY <2>1, <3>3, InTidyStruct
      <4>3. PICK g \in StructFields[Types[t][i].of] : HasInside(z, g, y)
        BY <2>1, <4>1, <4>2
      <4> DEFINE d == Inside(Types[t][i], i, g)
                 n == Len(z.place)
      <4>4. /\ d \in StructFields[t] /\ d.field = g.field /\ d.place = Prefixed(i, g.place)
            /\ Len(d.key) = Len(g.key) + 1 /\ Len(g.key) \in Nat /\ Len(g.place) = Len(g.key)
            /\ g.place \in Trails /\ g \in AnyField
            /\ i \in Nat /\ Types[t][i] \in Tags /\ Types[t][i].key \in Parts
            /\ Types[t][i].kind # "embedded"
        BY <2>1, <3>3, InTidyStruct
      <4>5. /\ n \in 1..(Len(g.key) - 1) /\ FirstOf(g.place, n) = z.place /\ Inner(g, n) = y
            /\ g.field = y.field
        BY <4>3 DEF HasInside
      <4> HIDE DEF n
      <4>6. n \in 0..Len(g.place) /\ n \in 0..Len(g.key) /\ n + 1 \in 1..(Len(d.key) - 1)
        BY <4>4, <4>5
      <4>7. Inner(d, n + 1) = y
        <5>1. Inner(d, n + 1) = Inner(g, n)
          BY <4>4, <4>6, InnerOfInside
        <5> QED  BY <4>5, <5>1
      <4> HIDE DEF d
      <4>8. FirstOf(d.place, n + 1) = b.place
        <5>1. FirstOf(Prefixed(i, g.place), n + 1) = Prefixed(i, FirstOf(g.place, n))
          BY <4>2, <4>4, <4>6, PrefixedCut
        <5> QED  BY <4>2, <4>4, <4>5, <5>1
      <4>9. Len(b.place) = n + 1
        BY <4>2 DEF n
      <4>10. HasInside(b, d, y)
        BY <4>4, <4>5, <4>6, <4>7, <4>8, <4>9 DEF HasInside
      <4> QED  BY <4>4, <4>10
    <3> QED  BY <3>1, <3>2, <3>3
  <2> QED  BY <2>1
<1>2. S = DOMAIN Types
  <2>1. S \in SUBSET DOMAIN Types
    OBVIOUS
  <2> HIDE DEF S
  <2> QED  BY <1>1, <2>1, TypeInduction
<1>3. type \in DOMAIN Types
  BY DEF Tidy
<1> QED  BY <1>2, <1>3

-----------------------------------------------------------------------------
(* FlattenSeq: the elements of the parts, in the order of the parts.       *)

Sorted(s, before) == \A i, j \in DOMAIN s : i < j => <<s[i], s[j]>> \in before

LEMMA ConcatOrdered ==
  ASSUME NEW A, NEW s \in Seq(A), NEW t \in Seq(A), NEW before,
         Sorted(s, before), Sorted(t, before), \A x \in ToSet(s), y \in ToSet(t) : <<x, y>> \in before
  PROVE  s \o t \in Seq(A) /\ ToSet(s \o t) = ToSet(s) \cup ToSet(t) /\ Sorted(s \o t, before)
<1> DEFINE m == Len(s)
           n == Len(t)
           u == s \o t
<1>1. m \in Nat /\ n \in Nat /\ DOMAIN s = 1..m /\ DOMAIN t = 1..n
  BY LenProperties
<1>2. u \in Seq(A) /\ Len(u) = m + n /\ \A i \in 1..(m + n) : u[i] = IF i <= m THEN s[i] ELSE t[i - m]
  BY ONLY s \in Seq(A), t \in Seq(A), ConcatProperties
<1>3. DOMAIN u = 1..(m + n)
  BY <1>2, LenProperties
<1> HIDE DEF u, m, n
<1>4. \A i \in 1..m : i \in 1..(m + n) /\ u[i] = s[i]
  BY <1>1, <1>2
<1>5. \A i \in 1..n : i + m \in 1..(m + n) /\ u[i + m] = t[i]
  <2>1. ASSUME NEW i \in 1..n PROVE i + m \in 1..(m + n) /\ u[i + m] = t[i]
    <3> DEFINE k == i + m
    <3>1. k \in 1..(m + n) /\ ~(k <= m) /\ k - m = i
      BY <1>1
    <3> HIDE DEF k
    <3>2. u[k] = t[k - m]
      BY <1>2, <3>1
    <3> QED  BY <3>1, <3>2 DEF k
  <2> QED  BY <2>1
<1>6. ASSUME NEW i \in 1..(m + n)
      PROVE  (i \in 1..m /\ u[i] = s[i]) \/ (i - m \in 1..n /\ u[i] = t[i - m])
  BY <1>1, <1>2
<1>7. ToSet(u) = ToSet(s) \cup ToSet(t)
  BY <1>1, <1>3, <1>4, <1>5, <1>6 DEF ToSet
<1>8. ASSUME NEW i \in 1..(m + n), NEW j \in 1..(m + n), i < j PROVE <<u[i], u[j]>> \in before
  <2>1. CASE j \in 1..m
    <3>1. i \in 1..m
      BY <1>1, <1>8, <2>1
    <3> QED  BY <1>1, <1>4, <1>8, <2>1, <3>1 DEF Sorted
  <2>2. CASE i \in 1..m /\ j \notin 1..m
    <3>1. u[i] \in ToSet(s) /\ u[j] \in ToSet(t)
      BY <1>1, <1>4, <1>6, <2>2 DEF ToSet
    <3> QED  BY <3>1
  <2>3. CASE i \notin 1..m
    <3>1. i - m \in 1..n /\ j - m \in 1..n /\ i - m < j - m
      BY <1>1, <1>8, <2>3
    <3>2. j \notin 1..m
      BY <1>1, <1>8, <2>3
    <3>3. u[i] = t[i - m] /\ u[j] = t[j - m]
      BY <1>6, <2>3, <3>2
    <3> QED  BY <1>1, <3>1, <3>3 DEF Sorted
  <2> QED  BY <2>1, <2>2, <2>3
<1> QED  BY <1>2, <1>3, <1>7, <1>8 DEF Sorted, u

JoinStep(F, ss, i) == IF i = 1 THEN ss[i] ELSE F[i - 1] \o ss[i]

LEMMA JoinedStepwise ==
  ASSUME NEW ss, Len(ss) \in Nat, Len(ss) # 0
  PROVE  \E F : F[Len(ss)] = FlattenSeq(ss) /\ \A i \in 1..Len(ss) : F[i] = JoinStep(F, ss, i)
<1> DEFINE T == {n \in Nat : \E F : F = [i \in 1..n |-> JoinStep(F, ss, i)]}
<1>1. 0 \in T
  <2> DEFINE F == [i \in 1..0 |-> ss[i]]
  <2>1. F = [i \in 1..0 |-> JoinStep(F, ss, i)]
    OBVIOUS
  <2> HIDE DEF F
  <2> QED  BY <2>1
<1>2. ASSUME NEW n \in T PROVE n + 1 \in T
  <2>1. n \in Nat
    OBVIOUS
  <2>2. PICK F : F = [i \in 1..n |-> JoinStep(F, ss, i)]
    OBVIOUS
  <2> DEFINE G == [i \in 1..(n + 1) |-> JoinStep(F, ss, i)]
  <2>3. ASSUME NEW i \in 1..(n + 1) PROVE JoinStep(F, ss, i) = JoinStep(G, ss, i)
    <3>1. CASE i = 1
      BY <3>1 DEF JoinStep
    <3>2. CASE i # 1
      <4>1. i - 1 \in 1..n /\ i - 1 \in 1..(n + 1)
        BY <2>1, <3>2
      <4>2. F[i - 1] = G[i - 1]
        BY <2>2, <4>1
      <4> HIDE DEF G
      <4> QED  BY <3>2, <4>2 DEF JoinStep
    <3> QED  BY <3>1, <3>2
  <2>4. G = [i \in 1..(n + 1) |-> JoinStep(G, ss, i)]
    BY <2>3
  <2> HIDE DEF G
  <2> QED  BY <2>1, <2>4
<1>3. T = Nat
  <2>1. T \subseteq Nat
    OBVIOUS
  <2> HIDE DEF T
  <2> QED  BY <1>1, <1>2, <2>1, Induction
<1>4. \E F : F = [i \in 1..Len(ss) |-> JoinStep(F, ss, i)]
  <2>1. Len(ss) \in T
    <3> HIDE DEF T
    <3> QED  BY <1>3
  <2> QED  BY <2>1
<1> DEFINE flatten == CHOOSE F : F = [i \in 1..Len(ss) |-> JoinStep(F, ss, i)]
<1>5. flatten = [i \in 1..Len(ss) |-> JoinStep(flatten, ss, i)]
  BY <1>4
<1>6. FlattenSeq(ss) = flatten[Len(ss)]
  BY DEF FlattenSeq, JoinStep
<1> HIDE DEF flatten
<1>7. flatten[Len(ss)] = FlattenSeq(ss) /\ \A i \in 1..Len(ss) : flatten[i] = JoinStep(flatten, ss, i)
  BY <1>5, <1>6
<1> QED  BY <1>7

\* What the first i parts have been flattened to.
JoinedUpTo(u, ss, i, A, before) ==
    u \in Seq(A) /\ ToSet(u) = UNION {ToSet(ss[j]) : j \in 1..i} /\ Sorted(u, before)

LEMMA Concatenated ==
  ASSUME NEW A, NEW ss \in Seq(Seq(A)), NEW before,
         \A i \in 1..Len(ss) : Sorted(ss[i], before),
         \A i, j \in 1..Len(ss) : i < j =>
            \A x \in ToSet(ss[i]), y \in ToSet(ss[j]) : <<x, y>> \in before
  PROVE  JoinedUpTo(FlattenSeq(ss), ss, Len(ss), A, before)
<1>1. Len(ss) \in Nat /\ \A i \in 1..Len(ss) : ss[i] \in Seq(A)
  OBVIOUS
<1>2. CASE Len(ss) = 0
  <2>1. ss = <<>> /\ FlattenSeq(ss) = <<>>
    BY <1>2 DEF FlattenSeq
  <2>2. ToSet(<<>>) = {} /\ Sorted(<<>>, before) /\ <<>> \in Seq(A)
    BY DEF ToSet, Sorted
  <2>3. UNION {ToSet(ss[j]) : j \in 1..Len(ss)} = {}
    BY <1>2
  <2> QED  BY <2>1, <2>2, <2>3 DEF JoinedUpTo
<1>3. CASE Len(ss) # 0
  <2>1. PICK F : F[Len(ss)] = FlattenSeq(ss) /\ \A i \in 1..Len(ss) : F[i] = JoinStep(F, ss, i)
    BY <1>1, <1>3, JoinedStepwise
  <2> DEFINE T == {n \in Nat : n \in 1..Len(ss) => JoinedUpTo(F[n], ss, n, A, before)}
  <2>2. 0 \in T
    OBVIOUS
  <2>3. ASSUME NEW n \in T PROVE n + 1 \in T
    <3>1. n \in Nat /\ (n \in 1..Len(ss) => JoinedUpTo(F[n], ss, n, A, before))
      OBVIOUS
    <3>2. ASSUME n + 1 \in 1..Len(ss) PROVE JoinedUpTo(F[n + 1], ss, n + 1, A, before)
      <4> DEFINE k == n + 1
      <4>0. k = n + 1 /\ k \in 1..Len(ss)
        BY <3>2
      <4> HIDE DEF k
      <4>1. F[k] = JoinStep(F, ss, k) /\ ss[k] \in Seq(A) /\ Sorted(ss[k], before)
        BY <1>1, <2>1, <4>0
      <4> SUFFICES JoinedUpTo(F[k], ss, k, A, before)
        BY <4>0
      <4>2. CASE n = 0
        <5>0. k = 1
          BY <4>0, <4>2
        <5>1. F[k] = ss[k]
          BY <4>1, <5>0 DEF JoinStep
        <5>2. UNION {ToSet(ss[j]) : j \in 1..k} = ToSet(ss[k])
          BY <5>0
        <5> QED  BY <4>1, <5>1, <5>2 DEF JoinedUpTo
      <4>3. CASE n # 0
        <5>1. n \in 1..Len(ss) /\ k # 1 /\ k - 1 = n
          BY <1>1, <3>1, <4>0, <4>3
        <5>2. F[k] = F[n] \o ss[k]
          BY <4>1, <5>1 DEF JoinStep
        <5>3. /\ F[n] \in Seq(A) /\ ToSet(F[n]) = UNION {ToSet(ss[j]) : j \in 1..n}
              /\ Sorted(F[n], before)
          BY <3>1, <5>1 DEF JoinedUpTo
        <5>4. \A x \in ToSet(F[n]), y \in ToSet(ss[k]) : <<x, y>> \in before
          <6>1. ASSUME NEW x \in ToSet(F[n]), NEW y \in ToSet(ss[k]) PROVE <<x, y>> \in before
            <7>1. PICK j \in 1..n : x \in ToSet(ss[j])
              BY <5>3
            <7>2. j \in 1..Len(ss) /\ j < k
              BY <1>1, <3>1, <4>0, <5>1
            <7> QED  BY <4>0, <7>1, <7>2
          <6> QED  BY <6>1
        <5>5. /\ F[n] \o ss[k] \in Seq(A) /\ ToSet(F[n] \o ss[k]) = ToSet(F[n]) \cup ToSet(ss[k])
              /\ Sorted(F[n] \o ss[k], before)
          BY <4>1, <5>3, <5>4, ConcatOrdered
        <5>6. 1..k = 1..n \cup {k}
          BY <3>1, <4>0
        <5>7. ToSet(F[k]) = UNION {ToSet(ss[j]) : j \in 1..k}
          BY <5>2, <5>3, <5>5, <5>6
        <5> QED  BY <5>2, <5>5, <5>7 DEF JoinedUpTo
      <4> QED  BY <4>2, <4>3
    <3> QED  BY <3>1, <3>2
  <2>4. T = Nat
    <3>1. T \subseteq Nat
      OBVIOUS
    <3> HIDE DEF T
    <3> QED  BY <2>2, <2>3, <3>1, Induction
  <2>5. Len(ss) \in T
    <3> HIDE DEF T
    <3> QED  BY <1>1, <2>4
  <2>6. Len(ss) \in 1..Len(ss)
    BY <1>1, <1>3
  <2> QED  BY <2>1, <2>5, <2>6
<1> QED  BY <1>2, <1>3

-----------------------------------------------------------------------------
(* The metadata of a type that embeds nothing is that of its fields that   *)
(* are not behind a pointer, no index of which begins an earlier one.      *)

MetaOf(e) == [index |-> e.place, key |-> e.key, required |-> e.field.required, default |-> e.field.default]

Seen(type) == {e \in StructFields[type] : e.pointers = {} /\ e.field.kind # "hidden"}

Listed(type) == {MetaOf(e) : e \in Seen(type)}

Later(type) ==
    {r \in Listed(type) \X Listed(type) : \A l \in 0..Len(r[1].index) : r[2].index # FirstOf(r[1].index, l)}

MetasOf(type) ==
    /\ WalkFields[type] \in Seq(Listed(type)) /\ ToSet(WalkFields[type]) = Listed(type)
    /\ Sorted(WalkFields[type], Later(type))

LEMMA SeenFields ==
  ASSUME NEW type \in Tidy, NEW e \in Seen(type)
  PROVE  /\ MetaOf(e) \in Listed(type) /\ MetaOf(e).index = e.place
         /\ e \in StructFields[type] /\ e.place \in Trails /\ Len(e.place) \in Nat /\ 1 <= Len(e.place)
<1>1. e \in StructFields[type]
  BY DEF Seen
<1>2. SameLengths(e)
  BY <1>1, TidyLengths
<1> QED  BY <1>1, <1>2 DEF SameLengths, AnyField, Listed, MetaOf

LEMMA SeenDirect ==
  ASSUME NEW type \in Tidy, NEW i \in DOMAIN Types[type]
  PROVE  /\ Direct(type, i) \in Seen(type) <=> Types[type][i].kind # "hidden"
         /\ Direct(type, i).place[1] = i
<1>1. type \in DOMAIN Types
  BY DEF Tidy
<1>2. Direct(type, i) \in StructFields[type] /\ Direct(type, i).place[1] = i
  BY <1>1, DirectIsField, DirectTyped
<1>3. Direct(type, i).pointers = {} /\ Direct(type, i).field = Types[type][i]
  BY DEF Direct
<1> QED  BY <1>2, <1>3 DEF Seen

LEMMA SeenInside ==
  ASSUME NEW type \in Tidy, NEW i \in DOMAIN Types[type], Types[type][i].kind \in Structs,
         NEW x \in StructFields[Types[type][i].of], NEW d, d = Inside(Types[type][i], i, x)
  PROVE  /\ d \in Seen(type) <=> Types[type][i].kind = "struct" /\ x \in Seen(Types[type][i].of)
         /\ d.place[1] = i
<1> DEFINE f == Types[type][i]
<1>1. /\ i \in Nat /\ f \in Tags /\ f.key \in Parts /\ i \in Parts /\ f.kind \in {"struct", "pointer"}
      /\ x \in AnyField /\ x.place \in Trails /\ d.place = Prefixed(i, x.place)
      /\ d \in StructFields[type] /\ d \in AnyField /\ d.field = x.field
  <2>1. /\ i \in Nat /\ Types[type][i] \in Tags /\ Types[type][i].key \in Parts /\ i \in Parts
        /\ Types[type][i].kind \in {"struct", "pointer"}
    BY InTidyStruct
  <2>2. /\ x \in AnyField /\ x.place \in Trails /\ d.place = Prefixed(i, x.place)
        /\ d \in StructFields[type] /\ d \in AnyField /\ d.field = x.field
    BY InTidyStruct
  <2> QED  BY <2>1, <2>2
<1>2. d.place[1] = i
  BY <1>1, PrefixedFacts
<1> HIDE DEF f
<1>3. d = Inside(f, i, x)
  BY DEF f
<1>4. /\ \A q \in Nat \ {0} : q + 1 \in d.pointers <=> q \in x.pointers
      /\ 1 \in d.pointers <=> f.kind = "pointer"
  BY <1>1, <1>3, InsideFacts
<1>5. d.pointers = {} <=> f.kind = "struct" /\ x.pointers = {}
  <2>1. ASSUME d.pointers = {} PROVE f.kind = "struct" /\ x.pointers = {}
    BY <1>1, <1>4, <2>1 DEF AnyField
  <2>2. ASSUME f.kind = "struct", x.pointers = {} PROVE d.pointers = {}
    <3>1. ASSUME NEW q \in d.pointers PROVE FALSE
      <4>1. q \in Nat \ {0} /\ q # 1
        BY <1>1, <1>4, <2>2 DEF AnyField
      <4>2. q - 1 \in Nat \ {0} /\ q - 1 + 1 = q
        BY <4>1
      <4> QED  BY <1>4, <2>2, <4>2
    <3> QED  BY <3>1
  <2> QED  BY <2>1, <2>2
<1>6. x \in StructFields[f.of]
  BY DEF f
<1>7. d \in Seen(type) <=> f.kind = "struct" /\ x \in Seen(f.of)
  BY <1>1, <1>5, <1>6 DEF Seen
<1> QED  BY <1>2, <1>7 DEF f

LEMMA SeenCases ==
  ASSUME NEW type \in Tidy, NEW e \in Seen(type)
  PROVE  \E i \in DOMAIN Types[type] :
            /\ e.place[1] = i
            /\ \/ e = Direct(type, i) /\ Types[type][i].kind # "hidden"
               \/ /\ Types[type][i].kind = "struct"
                  /\ \E x \in Seen(Types[type][i].of) : e = Inside(Types[type][i], i, x)
<1>1. e \in StructFields[type] /\ type \in DOMAIN Types
  BY DEF Seen, Tidy
<1>2. PICK i \in DOMAIN Types[type] :
         \/ e = Direct(type, i)
         \/ /\ Types[type][i].kind \in Structs
            /\ \E x \in StructFields[Types[type][i].of] : e = Inside(Types[type][i], i, x)
  BY <1>1, FieldCases
<1>3. CASE e = Direct(type, i)
  BY <1>3, SeenDirect
<1>4. ASSUME Types[type][i].kind \in Structs, NEW x \in StructFields[Types[type][i].of],
             e = Inside(Types[type][i], i, x)
      PROVE  e.place[1] = i /\ Types[type][i].kind = "struct" /\ x \in Seen(Types[type][i].of)
  BY <1>4, SeenInside
<1> QED  BY <1>2, <1>3, <1>4

\* The metadata of field i of a type.
WalkedAs(ms, type, i) ==
    /\ ms \in Seq(Listed(type)) /\ ToSet(ms) = {m \in Listed(type) : m.index[1] = i}
    /\ Sorted(ms, Later(type))

LEMMA NotListed ==
  ASSUME NEW type \in Tidy, NEW i \in DOMAIN Types[type], Types[type][i].kind = "hidden"
  PROVE  WalkedAs(<<>>, type, i)
<1>1. ASSUME NEW m \in Listed(type) PROVE m.index[1] # i
  <2>1. PICK e \in Seen(type) : m = MetaOf(e)
    BY DEF Listed
  <2> QED  BY <2>1, SeenCases, SeenFields
<1> QED  BY <1>1 DEF WalkedAs, ToSet, Sorted

LEMMA OneListed ==
  ASSUME NEW type \in Tidy, NEW i \in DOMAIN Types[type], Types[type][i].kind \notin {"hidden", "struct"}
  PROVE  WalkedAs(<<MetaOf(Direct(type, i))>>, type, i)
<1> DEFINE top == MetaOf(Direct(type, i))
<1>1. Direct(type, i) \in Seen(type) /\ Direct(type, i).place[1] = i
  BY SeenDirect
<1>2. top \in Listed(type) /\ top.index[1] = i
  BY <1>1, SeenFields
<1>3. ASSUME NEW m \in Listed(type), m.index[1] = i PROVE m = top
  <2>1. PICK e \in Seen(type) : m = MetaOf(e)
    BY DEF Listed
  <2>2. e.place[1] = i
    BY <1>3, <2>1, SeenFields
  <2>3. e = Direct(type, i)
    BY <2>2, SeenCases
  <2> QED  BY <2>1, <2>3
<1> HIDE DEF top
<1>4. <<top>> \in Seq(Listed(type)) /\ ToSet(<<top>>) = {top} /\ Sorted(<<top>>, Later(type))
  BY <1>2 DEF ToSet, Sorted
<1>5. WalkedAs(<<top>>, type, i)
  BY <1>2, <1>3, <1>4 DEF WalkedAs
<1> QED  BY <1>5 DEF top

LEMMA MetaWith ==
  ASSUME NEW index, NEW key, NEW required, NEW default, NEW s, NEW t, NEW m, NEW n,
         m = [index |-> index, key |-> key, required |-> required, default |-> default],
         n = [m EXCEPT !.index = s \o @, !.key = t \o @]
  PROVE  n = [index |-> s \o index, key |-> t \o key, required |-> required, default |-> default]
<1>1. DOMAIN m = {"index", "key", "required", "default"}
  OBVIOUS
<1>2. n = [f \in {"index", "key", "required", "default"} |-> n[f]]
  BY <1>1
<1>3. n = [index |-> n.index, key |-> n.key, required |-> n.required, default |-> n.default]
  BY <1>2
<1>4. n.index = s \o index /\ n.key = t \o key
  BY <1>1
<1>5. n.required = required /\ n.default = default
  BY <1>1
<1> QED  BY <1>3, <1>4, <1>5

\* The metadata of a field of a struct, in the struct around it.
LEMMA HoistedMeta ==
  ASSUME NEW type \in Tidy, NEW i \in DOMAIN Types[type], Types[type][i].kind = "struct",
         NEW x \in Seen(Types[type][i].of), NEW top, top = MetaOf(Direct(type, i))
  PROVE  /\ Inside(Types[type][i], i, x) \in Seen(type)
         /\ [MetaOf(x) EXCEPT !.index = top.index \o @, !.key = top.key \o @]
               = MetaOf(Inside(Types[type][i], i, x))
         /\ MetaOf(Inside(Types[type][i], i, x)).index = Prefixed(i, x.place)
         /\ i \in Parts /\ x.place \in Trails /\ Len(x.place) \in Nat /\ 1 <= Len(x.place)
<1> DEFINE f == Types[type][i]
<1>1. f.kind \in Structs /\ f.kind # "embedded" /\ x \in StructFields[f.of]
  BY DEF Structs, Seen
<1>2. Inside(f, i, x) \in Seen(type)
  BY <1>1, SeenInside
<1>3. i \in Parts /\ x.place \in Trails /\ Len(x.place) \in Nat /\ 1 <= Len(x.place)
  BY <1>1, InTidyStruct
<1>4. top.index = <<i>> /\ top.key = <<f.key>>
  BY DEF MetaOf, Direct
<1> HIDE DEF f
<1>5. MetaOf(Inside(f, i, x)) = [index |-> <<i>> \o x.place, key |-> <<f.key>> \o x.key,
                                 required |-> x.field.required, default |-> x.field.default]
  BY <1>1 DEF MetaOf, Inside
<1>6. [MetaOf(x) EXCEPT !.index = top.index \o @, !.key = top.key \o @]
         = [index |-> <<i>> \o x.place, key |-> <<f.key>> \o x.key,
            required |-> x.field.required, default |-> x.field.default]
  <2>1. MetaOf(x) = [index |-> x.place, key |-> x.key,
                     required |-> x.field.required, default |-> x.field.default]
    BY DEF MetaOf
  <2> DEFINE m == MetaOf(x)
             n == [m EXCEPT !.index = top.index \o @, !.key = top.key \o @]
             s == top.index
             t == top.key
  <2>2. m = [index |-> x.place, key |-> x.key, required |-> x.field.required, default |-> x.field.default]
    BY <2>1
  <2>3. n = [m EXCEPT !.index = s \o @, !.key = t \o @]
    OBVIOUS
  <2>4. s = <<i>> /\ t = <<f.key>>
    BY <1>4
  <2> HIDE DEF m, n, s, t
  <2>5. n = [index |-> s \o x.place, key |-> t \o x.key,
             required |-> x.field.required, default |-> x.field.default]
    BY ONLY <2>2, <2>3, MetaWith
  <2>6. n = [index |-> <<i>> \o x.place, key |-> <<f.key>> \o x.key,
             required |-> x.field.required, default |-> x.field.default]
    BY ONLY <2>4, <2>5
  <2> QED  BY <2>6 DEF n, m
<1> QED  BY <1>2, <1>3, <1>5, <1>6 DEF Prefixed, f

LEMMA StructListed ==
  ASSUME NEW type \in Tidy, NEW i \in DOMAIN Types[type], Types[type][i].kind = "struct",
         MetasOf(Types[type][i].of)
  PROVE  WalkedAs(WalkField(Types[type][i], i, WalkFields[Types[type][i].of]), type, i)
<1> DEFINE f == Types[type][i]
           top == MetaOf(Direct(type, i))
           nested == WalkFields[f.of]
           ms == InStruct(top, nested)
           In(x) == Inside(f, i, x)
           A == Listed(type)
<1>1. f.kind \in Structs /\ f.of \in Tidy
  BY TidyFields DEF Structs
<1>2. nested \in Seq(Listed(f.of)) /\ ToSet(nested) = Listed(f.of) /\ Sorted(nested, Later(f.of))
  BY DEF MetasOf
<1>3. Direct(type, i) \in Seen(type) /\ Direct(type, i).place[1] = i
  BY SeenDirect
<1>4. top \in A /\ top.index[1] = i /\ top.index = <<i>>
  BY <1>3, SeenFields DEF MetaOf, Direct
<1>5. \A x \in Seen(f.of) :
         /\ In(x) \in Seen(type)
         /\ [MetaOf(x) EXCEPT !.index = top.index \o @, !.key = top.key \o @] = MetaOf(In(x))
         /\ MetaOf(In(x)).index = Prefixed(i, x.place)
         /\ i \in Parts /\ x.place \in Trails /\ Len(x.place) \in Nat /\ 1 <= Len(x.place)
  BY HoistedMeta
<1>6. WalkField(f, i, nested) = <<top>> \o ms
  BY DEF WalkField, MetaOf, Direct
<1>7. \A x \in Seen(f.of) : MetaOf(In(x)) \in A
  BY <1>5 DEF Listed
<1>8. /\ DOMAIN nested = 1..Len(nested) /\ Len(nested) \in Nat
      /\ \A j \in DOMAIN nested : nested[j] \in Listed(f.of)
  BY <1>2
<1>9. ASSUME NEW j \in DOMAIN nested
      PROVE  \E x \in Seen(f.of) : nested[j] = MetaOf(x) /\ ms[j] = MetaOf(In(x))
  <2>1. PICK x \in Seen(f.of) : nested[j] = MetaOf(x)
    BY <1>8 DEF Listed
  <2>2. ms[j] = [nested[j] EXCEPT !.index = top.index \o @, !.key = top.key \o @]
    BY DEF InStruct
  <2> HIDE DEF ms, nested, top, In
  <2> QED  BY <1>5, <2>1, <2>2
<1>10. DOMAIN ms = DOMAIN nested
  BY DEF InStruct
<1> HIDE DEF nested, top
<1>11. ms \in Seq(A)
  <2>1. \A j \in 1..Len(nested) : ms[j] \in A
    <3> HIDE DEF ms, A, In
    <3> QED  BY <1>7, <1>8, <1>9
  <2>2. ms = [j \in 1..Len(nested) |-> ms[j]]
    BY <1>8 DEF InStruct
  <2> HIDE DEF ms
  <2> QED  BY <1>8, <2>1, <2>2
<1> HIDE DEF ms, In, A
<1>12. ToSet(ms) = {MetaOf(In(x)) : x \in Seen(f.of)}
  <2>1. ASSUME NEW x \in Seen(f.of) PROVE MetaOf(In(x)) \in ToSet(ms)
    <3>1. MetaOf(x) \in ToSet(nested)
      BY <1>2 DEF Listed
    <3>2. PICK j \in DOMAIN nested : nested[j] = MetaOf(x)
      BY <3>1 DEF ToSet
    <3>3. PICK y \in Seen(f.of) : nested[j] = MetaOf(y) /\ ms[j] = MetaOf(In(y))
      BY <1>9
    <3>4. x = y
      <4>1. x.place = y.place
        BY <3>2, <3>3 DEF MetaOf
      <4> QED  BY <1>1, <4>1, PlacesDiffer DEF Seen
    <3> QED  BY <1>10, <3>3, <3>4 DEF ToSet
  <2>2. ASSUME NEW m \in ToSet(ms) PROVE \E x \in Seen(f.of) : m = MetaOf(In(x))
    <3>1. PICK j \in DOMAIN ms : m = ms[j]
      BY DEF ToSet
    <3> QED  BY <1>9, <1>10, <3>1
  <2> QED  BY <2>1, <2>2
<1>13. ASSUME NEW j \in DOMAIN ms, NEW k \in DOMAIN ms, j < k PROVE <<ms[j], ms[k]>> \in Later(type)
  <2>1. PICK x \in Seen(f.of) : nested[j] = MetaOf(x) /\ ms[j] = MetaOf(In(x))
    BY <1>9, <1>10
  <2>2. PICK y \in Seen(f.of) : nested[k] = MetaOf(y) /\ ms[k] = MetaOf(In(y))
    BY <1>9, <1>10
  <2>3. <<MetaOf(x), MetaOf(y)>> \in Later(f.of)
    BY <1>2, <1>10, <1>13, <2>1, <2>2 DEF Sorted
  <2>4. \A l \in 0..Len(x.place) : y.place # FirstOf(x.place, l)
    BY <2>3 DEF Later, MetaOf
  <2>5. /\ ms[j].index = Prefixed(i, x.place) /\ ms[k].index = Prefixed(i, y.place)
        /\ i \in Parts /\ x.place \in Trails /\ y.place \in Trails
        /\ Len(x.place) \in Nat /\ Len(y.place) \in Nat /\ 1 <= Len(y.place)
    BY <1>5, <2>1, <2>2
  <2>6. /\ Len(ms[j].index) = Len(x.place) + 1 /\ ms[j].index \in Trails
        /\ Len(ms[k].index) = Len(y.place) + 1
    BY <2>5, PrefixedFacts
  <2>7. ASSUME NEW l \in 0..Len(ms[j].index) PROVE ms[k].index # FirstOf(ms[j].index, l)
    <3>1. CASE l = 0
      <4>1. Len(FirstOf(ms[j].index, l)) = 0
        BY <2>6, <3>1, FirstParts
      <4> QED  BY <2>5, <2>6, <4>1
    <3>2. CASE l # 0
      <4>1. l - 1 \in 0..Len(x.place) /\ l - 1 + 1 = l
        BY <2>5, <2>6, <3>2
      <4> DEFINE n == l - 1
      <4>2. n \in 0..Len(x.place) /\ n + 1 = l
        BY <4>1
      <4> HIDE DEF n
      <4>3. FirstOf(ms[j].index, l) = Prefixed(i, FirstOf(x.place, n))
        BY <2>5, <4>2, PrefixedCut
      <4>4. FirstOf(x.place, n) \in Trails
        BY <2>5, <4>2, FirstParts
      <4>5. Prefixed(i, FirstOf(x.place, n)) # Prefixed(i, y.place)
        BY <2>4, <2>5, <4>2, <4>4, PrefixedSame
      <4> QED  BY <2>5, <4>3, <4>5
    <3> QED  BY <3>1, <3>2
  <2>8. ms[j] \in Listed(type) /\ ms[k] \in Listed(type)
    BY <1>7, <2>1, <2>2 DEF A
  <2> QED  BY <2>7, <2>8 DEF Later
<1>14. ASSUME NEW m \in ToSet(ms) PROVE <<top, m>> \in Later(type)
  <2>1. PICK x \in Seen(f.of) : m = MetaOf(In(x))
    BY <1>12
  <2>2. /\ m.index = Prefixed(i, x.place) /\ i \in Parts /\ x.place \in Trails
        /\ Len(x.place) \in Nat /\ 1 <= Len(x.place)
    BY <1>5, <2>1
  <2>3. Len(m.index) = Len(x.place) + 1
    BY <2>2, PrefixedFacts
  <2>4. top.index \in Trails /\ Len(top.index) = 1
    BY <1>4, <2>2 DEF Trails
  <2>5. \A l \in 0..Len(top.index) : m.index # FirstOf(top.index, l)
    <3>1. ASSUME NEW l \in 0..Len(top.index), m.index = FirstOf(top.index, l) PROVE FALSE
      <4>1. Len(FirstOf(top.index, l)) = l
        BY <2>4, FirstParts
      <4>2. l = Len(x.place) + 1 /\ l <= 1
        BY <2>3, <2>4, <3>1, <4>1
      <4> QED  BY <2>2, <4>2
    <3> QED  BY <3>1
  <2>6. m \in Listed(type) /\ top \in Listed(type)
    BY <1>4, <1>7, <2>1 DEF A
  <2> QED  BY <2>5, <2>6 DEF Later
<1>15. <<top>> \in Seq(A) /\ ToSet(<<top>>) = {top} /\ Sorted(<<top>>, Later(type))
  BY <1>4 DEF ToSet, Sorted
<1>16. Sorted(ms, Later(type))
  BY <1>13 DEF Sorted
<1>17. /\ <<top>> \o ms \in Seq(A) /\ ToSet(<<top>> \o ms) = {top} \cup ToSet(ms)
       /\ Sorted(<<top>> \o ms, Later(type))
  <2> DEFINE s == <<top>>
  <2>1. \A x \in ToSet(s), y \in ToSet(ms) : <<x, y>> \in Later(type)
    BY <1>14, <1>15
  <2>2. s \in Seq(A) /\ ToSet(s) = {top} /\ Sorted(s, Later(type))
    BY <1>15
  <2> HIDE DEF s
  <2>3. s \o ms \in Seq(A) /\ ToSet(s \o ms) = ToSet(s) \cup ToSet(ms) /\ Sorted(s \o ms, Later(type))
    BY <1>11, <1>16, <2>1, <2>2, ConcatOrdered
  <2> QED  BY <2>2, <2>3 DEF s
<1>18. {top} \cup ToSet(ms) = {m \in A : m.index[1] = i}
  <2>1. ASSUME NEW m \in A, m.index[1] = i PROVE m \in {top} \cup ToSet(ms)
    <3>1. PICK e \in Seen(type) : m = MetaOf(e)
      BY DEF A, Listed
    <3>2. e.place[1] = i
      BY <2>1, <3>1, SeenFields
    <3>3. e = Direct(type, i) \/ \E x \in Seen(f.of) : e = In(x)
      BY <3>2, SeenCases DEF In
    <3> QED  BY <1>12, <3>1, <3>3 DEF top
  <2>2. ASSUME NEW m \in ToSet(ms) PROVE m \in A /\ m.index[1] = i
    <3>1. PICK x \in Seen(f.of) : m = MetaOf(In(x))
      BY <1>12
    <3>2. m \in A /\ m.index = Prefixed(i, x.place) /\ i \in Parts /\ x.place \in Trails
      BY <1>5, <1>7, <3>1
    <3> QED  BY <3>2, PrefixedFacts
  <2> QED  BY <1>4, <2>1, <2>2
<1>19. WalkedAs(<<top>> \o ms, type, i)
  BY <1>17, <1>18 DEF WalkedAs, A
<1> QED  BY <1>6, <1>19 DEF nested, top, ms

LEMMA FieldWalked ==
  ASSUME NEW type \in Tidy, NEW i \in DOMAIN Types[type],
         Types[type][i].kind \in Structs => MetasOf(Types[type][i].of)
  PROVE  WalkedAs(WalkField(Types[type][i], i, WalkFields[Types[type][i].of]), type, i)
<1> DEFINE f == Types[type][i]
<1>1. f.kind # "embedded"
  BY TidyFields
<1>2. CASE f.kind = "hidden"
  <2>1. WalkField(f, i, WalkFields[f.of]) = <<>>
    BY <1>2 DEF WalkField
  <2> QED  BY <1>2, <2>1, NotListed
<1>3. CASE f.kind = "struct"
  BY <1>3, StructListed DEF Structs
<1>4. CASE f.kind \notin {"hidden", "struct"}
  <2>1. WalkField(f, i, WalkFields[f.of]) = <<MetaOf(Direct(type, i))>>
    BY <1>1, <1>4 DEF WalkField, MetaOf, Direct
  <2> QED  BY <1>4, <2>1, OneListed
<1> QED  BY <1>2, <1>3, <1>4

LEMMA TypeWalked ==
  ASSUME NEW type \in Tidy, \A i \in DOMAIN Types[type] :
            Types[type][i].kind \in Structs => MetasOf(Types[type][i].of)
  PROVE  MetasOf(type)
<1> DEFINE ss == [i \in DOMAIN Types[type] |-> WalkField(Types[type][i], i, WalkFields[Types[type][i].of])]
           n == Len(Types[type])
           A == Listed(type)
<1>1. type \in DOMAIN Types /\ n \in Nat /\ DOMAIN Types[type] = 1..n
  <2>1. type \in DOMAIN Types
    BY DEF Tidy
  <2>2. Types[type] \in Seq(ToSet(Types[type]))
    BY <2>1, TypesOK
  <2> QED  BY <2>1, <2>2
<1>2. \A i \in 1..n : ss[i] = WalkField(Types[type][i], i, WalkFields[Types[type][i].of])
  BY <1>1
<1>3. ss = [i \in 1..n |-> ss[i]]
  BY <1>1
<1>4. WalkFields[type] = FlattenSeq(ss)
  BY <1>1, WalkFieldsAre DEF WalkStep
<1> HIDE DEF ss, n
<1>5. \A i \in 1..n : WalkedAs(ss[i], type, i)
  BY <1>1, <1>2, FieldWalked
<1>6. \A i \in 1..n : ss[i] \in Seq(A) /\ ToSet(ss[i]) = {m \in A : m.index[1] = i} /\ Sorted(ss[i], Later(type))
  BY <1>5 DEF WalkedAs
<1> HIDE DEF A
<1>7. ss \in Seq(Seq(A)) /\ Len(ss) = n
  BY <1>1, <1>3, <1>6
<1>8. ASSUME NEW i \in 1..n, NEW j \in 1..n, i < j, NEW x \in ToSet(ss[i]), NEW y \in ToSet(ss[j])
      PROVE  <<x, y>> \in Later(type)
  <2>1. x \in A /\ x.index[1] = i /\ y \in A /\ y.index[1] = j
    BY <1>6
  <2>2. PICK e \in Seen(type) : x = MetaOf(e)
    BY <2>1 DEF A, Listed
  <2>3. PICK d \in Seen(type) : y = MetaOf(d)
    BY <2>1 DEF A, Listed
  <2>4. /\ x.index \in Trails /\ Len(x.index) \in Nat /\ y.index \in Trails
        /\ Len(y.index) \in Nat /\ 1 <= Len(y.index)
    BY <2>2, <2>3, SeenFields
  <2>5. ASSUME NEW l \in 0..Len(x.index), y.index = FirstOf(x.index, l) PROVE FALSE
    <3>1. Len(FirstOf(x.index, l)) = l /\ \A k \in 1..l : FirstOf(x.index, l)[k] = x.index[k]
      BY <2>4, FirstParts
    <3>2. 1 \in 1..l
      BY <2>4, <2>5, <3>1
    <3>3. y.index[1] = x.index[1]
      BY <2>5, <3>1, <3>2
    <3> QED  BY <1>1, <1>8, <2>1, <3>3
  <2> QED  BY <2>1, <2>5 DEF Later, A
<1>9. JoinedUpTo(FlattenSeq(ss), ss, n, A, Later(type))
  BY <1>6, <1>7, <1>8, Concatenated
<1>10. UNION {ToSet(ss[i]) : i \in 1..n} = A
  <2>1. ASSUME NEW m \in A PROVE \E i \in 1..n : m \in ToSet(ss[i])
    <3>1. PICK e \in Seen(type) : m = MetaOf(e)
      BY DEF A, Listed
    <3>2. PICK i \in DOMAIN Types[type] : e.place[1] = i
      BY SeenCases
    <3>3. m.index[1] = i /\ i \in 1..n
      BY <1>1, <3>1, <3>2, SeenFields
    <3> QED  BY <1>6, <3>3
  <2> QED  BY <1>6, <2>1
<1> QED  BY <1>4, <1>9, <1>10 DEF JoinedUpTo, MetasOf, A

LEMMA TidyMetas ==
  ASSUME NEW type \in Tidy
  PROVE  MetasOf(type)
<1> DEFINE S == {t \in DOMAIN Types : t \in Tidy => MetasOf(t)}
<1>1. ASSUME NEW t \in DOMAIN Types, \A f \in ToSet(Types[t]) : f.kind \in Structs => f.of \in S
      PROVE  t \in S
  <2>1. ASSUME t \in Tidy PROVE MetasOf(t)
    <3>1. ASSUME NEW i \in DOMAIN Types[t], Types[t][i].kind \in Structs PROVE MetasOf(Types[t][i].of)
      <4>1. Types[t][i].of \in S
        BY <1>1, <3>1, FieldsOfType
      <4> QED  BY <2>1, <3>1, <4>1, TidyFields
    <3> QED  BY <2>1, <3>1, TypeWalked
  <2> QED  BY <2>1
<1>2. S = DOMAIN Types
  <2>1. S \in SUBSET DOMAIN Types
    OBVIOUS
  <2> HIDE DEF S
  <2> QED  BY <1>1, <2>1, TypeInduction
<1>3. type \in DOMAIN Types
  BY DEF Tidy
<1> QED  BY <1>2, <1>3

-----------------------------------------------------------------------------
(* What is meant and given for a field, by induction on its key.           *)

LEMMA FieldsAreTidy ==
  ASSUME NEW d \in Fields
  PROVE  \E type \in Tidy : d \in StructFields[type]
BY DEF Fields, Tidy

LEMMA InnerFields ==
  ASSUME NEW d \in Fields
  PROVE  /\ SameLengths(d) /\ Len(d.key) \in Nat
         /\ \A m \in 1..(Len(d.key) - 1) :
               /\ Inner(d, m) \in Fields
               /\ Len(Inner(d, m).key) = Len(d.key) - m /\ Inner(d, m).field = d.field
<1>1. PICK type \in Tidy : d \in StructFields[type]
  BY FieldsAreTidy
<1>2. SameLengths(d)
  BY <1>1, TidyLengths
<1>3. Len(d.key) \in Nat /\ d.key \in Trails
  BY <1>2 DEF SameLengths, AnyField
<1>4. ASSUME NEW m \in 1..(Len(d.key) - 1)
      PROVE  Inner(d, m) \in Fields /\ Len(Inner(d, m).key) = Len(d.key) - m /\ Inner(d, m).field = d.field
  <2>1. PICK e \in StructFields[type] : HoldsAt(e, d, m)
    BY <1>1, TidyAncestors
  <2>2. Inner(d, m) \in Fields
    BY <2>1 DEF HoldsAt, Fields, Tidy
  <2>3. m \in 0..Len(d.key)
    BY <1>3
  <2>4. Len(From(d.key, m)) = Len(d.key) - m
    BY <1>3, <2>3, LastParts
  <2>5. Inner(d, m).key = From(d.key, m) /\ Inner(d, m).field = d.field
    BY DEF Inner, From
  <2> QED  BY <2>2, <2>4, <2>5
<1> QED  BY <1>2, <1>3, <1>4

LEMMA KeysAreShort ==
  ASSUME NEW depth \in Depths, NEW type \in Tidy, NEW d \in StructFields[type]
  PROVE  Len(d.key) <= depth[type]
<1> DEFINE S == {t \in DOMAIN Types : t \in Tidy => \A b \in StructFields[t] : Len(b.key) <= depth[t]}
<1>1. ASSUME NEW t \in DOMAIN Types, \A f \in ToSet(Types[t]) : f.kind \in Structs => f.of \in S
      PROVE  t \in S
  <2>1. ASSUME t \in Tidy, NEW b \in StructFields[t] PROVE Len(b.key) <= depth[t]
    <3>1. PICK i \in DOMAIN Types[t] :
             \/ b = Direct(t, i)
             \/ /\ Types[t][i].kind \in Structs
                /\ \E x \in StructFields[Types[t][i].of] : b = Inside(Types[t][i], i, x)
      BY FieldCases
    <3>2. CASE b = Direct(t, i)
      BY <3>2, DirectTyped, DepthFacts
    <3>3. ASSUME Types[t][i].kind \in Structs, NEW x \in StructFields[Types[t][i].of],
                 b = Inside(Types[t][i], i, x)
          PROVE  Len(b.key) <= depth[t]
      <4>1. Types[t][i] \in ToSet(Types[t]) /\ Types[t][i].of \in Tidy
        BY <2>1, <3>3, FieldsOfType, TidyFields
      <4>2. depth[Types[t][i].of] < depth[t] /\ Types[t][i].of \in S /\ Types[t][i].of \in DOMAIN Types
        BY <1>1, <3>3, <4>1 DEF Depths, Tidy
      <4>3. Len(x.key) <= depth[Types[t][i].of]
        BY <4>1, <4>2
      <4>4. Len(b.key) = Len(x.key) + 1 /\ Len(x.key) \in Nat
        BY <2>1, <3>3, InTidyStruct
      <4>5. depth[Types[t][i].of] \in Nat /\ depth[t] \in Nat
        BY <4>2, DepthFacts
      <4> HIDE DEF S
      <4> QED  BY <4>2, <4>3, <4>4, <4>5
    <3> QED  BY <3>1, <3>2, <3>3
  <2> QED  BY <2>1
<1>2. S = DOMAIN Types
  <2>1. S \in SUBSET DOMAIN Types
    OBVIOUS
  <2> HIDE DEF S
  <2> QED  BY <1>1, <2>1, TypeInduction
<1>3. type \in DOMAIN Types
  BY DEF Tidy
<1> QED  BY <1>2, <1>3

LEMMA MapsInMaps ==
  ASSUME NEW d, NEW vals \in Maps, NEW m \in MapsAbove(d, vals)
  PROVE  m \in 1..(Len(d.key) - 1) /\ vals[Above(d, m)].of \in Maps
<1>1. m \in 1..(Len(d.key) - 1) /\ Above(d, m) \in DOMAIN vals /\ vals[Above(d, m)].is = "map"
  BY DEF MapsAbove
<1>2. RawOK(vals[Above(d, m)])
  BY <1>1, TypesOK
<1> QED  BY <1>1, <1>2 DEF RawOK, Numbers

MeantStep(M, d, vals) ==
    LET MeantBy(m) == M[Inner(d, m)][vals[Above(d, m)].of]
        giving     == {m \in MapsAbove(d, vals) : MeantBy(m) # {}}
    IN  IF Own(d, vals) # {} THEN Own(d, vals)
        ELSE UNION {MeantBy(m) : m \in {m \in giving : \A o \in giving : o <= m}}

GivenStep(M, d, vals) ==
    Own(d, vals) \cup UNION {M[Inner(d, m)][vals[Above(d, m)].of] : m \in MapsAbove(d, vals)}

\* F and G are the same for all that is in d.
SameInner(F, G, d) ==
    \A m \in 1..(Len(d.key) - 1) : \A vals \in Maps : F[Inner(d, m)][vals] = G[Inner(d, m)][vals]

LEMMA MeantStepSame ==
  ASSUME NEW d, NEW vals \in Maps, NEW F, NEW G, SameInner(F, G, d)
  PROVE  MeantStep(F, d, vals) = MeantStep(G, d, vals) /\ GivenStep(F, d, vals) = GivenStep(G, d, vals)
<1>1. \A m \in MapsAbove(d, vals) : F[Inner(d, m)][vals[Above(d, m)].of] = G[Inner(d, m)][vals[Above(d, m)].of]
  BY MapsInMaps DEF SameInner
<1>2. {m \in MapsAbove(d, vals) : F[Inner(d, m)][vals[Above(d, m)].of] # {}}
         = {m \in MapsAbove(d, vals) : G[Inner(d, m)][vals[Above(d, m)].of] # {}}
  BY <1>1
<1> DEFINE f(m) == F[Inner(d, m)][vals[Above(d, m)].of]
           g(m) == G[Inner(d, m)][vals[Above(d, m)].of]
           giving == {m \in MapsAbove(d, vals) : f(m) # {}}
<1>3. giving = {m \in MapsAbove(d, vals) : g(m) # {}} /\ giving \subseteq MapsAbove(d, vals)
  BY <1>2
<1>4. \A m \in MapsAbove(d, vals) : f(m) = g(m)
  BY <1>1
<1>5. MeantStep(F, d, vals) = IF Own(d, vals) # {} THEN Own(d, vals)
                               ELSE UNION {f(m) : m \in {m \in giving : \A o \in giving : o <= m}}
  BY DEF MeantStep
<1>6. MeantStep(G, d, vals) = IF Own(d, vals) # {} THEN Own(d, vals)
                               ELSE UNION {g(m) : m \in {m \in {k \in MapsAbove(d, vals) : g(k) # {}} :
                                                         \A o \in {k \in MapsAbove(d, vals) : g(k) # {}} : o <= m}}
  BY DEF MeantStep
<1>7. GivenStep(F, d, vals) = Own(d, vals) \cup UNION {f(m) : m \in MapsAbove(d, vals)}
  BY DEF GivenStep
<1>8. GivenStep(G, d, vals) = Own(d, vals) \cup UNION {g(m) : m \in MapsAbove(d, vals)}
  BY DEF GivenStep
<1> HIDE DEF f, g, giving
<1>9. MeantStep(G, d, vals) = IF Own(d, vals) # {} THEN Own(d, vals)
                               ELSE UNION {g(m) : m \in {m \in giving : \A o \in giving : o <= m}}
  BY <1>3, <1>6
<1>10. {f(m) : m \in {m \in giving : \A o \in giving : o <= m}} = {g(m) : m \in {m \in giving : \A o \in giving : o <= m}}
  BY <1>3, <1>4
<1>11. {f(m) : m \in MapsAbove(d, vals)} = {g(m) : m \in MapsAbove(d, vals)}
  BY <1>4
<1>12. MeantStep(F, d, vals) = MeantStep(G, d, vals)
  <2> DEFINE U == UNION {f(m) : m \in {m \in giving : \A o \in giving : o <= m}}
             V == UNION {g(m) : m \in {m \in giving : \A o \in giving : o <= m}}
  <2>1. U = V
    BY ONLY <1>10
  <2>2. MeantStep(F, d, vals) = IF Own(d, vals) # {} THEN Own(d, vals) ELSE U
    BY ONLY <1>5
  <2>3. MeantStep(G, d, vals) = IF Own(d, vals) # {} THEN Own(d, vals) ELSE V
    BY ONLY <1>9
  <2> HIDE DEF U, V
  <2> QED  BY ONLY <2>1, <2>2, <2>3
<1>13. GivenStep(F, d, vals) = GivenStep(G, d, vals)
  BY ONLY <1>7, <1>8, <1>11
<1> QED  BY <1>12, <1>13

LEMMA MeantAre ==
  ASSUME NEW d \in Fields, NEW vals \in Maps
  PROVE  Meant[d][vals] = MeantStep(Meant, d, vals)
<1> DEFINE Reach(n) == {b \in Fields : Len(b.key) <= n}
           Step(F) == [b \in Fields |-> [m \in Maps |-> MeantStep(F, b, m)]]
           StepOn(F, n) == [b \in Reach(n) |-> [m \in Maps |-> MeantStep(F, b, m)]]
           T == {n \in Nat : \E F : F = StepOn(F, n)}
<1>1. ASSUME NEW n \in Nat, NEW F, NEW G, NEW b \in Reach(n + 1), \A x \in Reach(n) : F[x] = G[x]
      PROVE  [m \in Maps |-> MeantStep(F, b, m)] = [m \in Maps |-> MeantStep(G, b, m)]
  <2>1. b \in Fields /\ Len(b.key) \in Nat /\ Len(b.key) <= n + 1
    BY InnerFields
  <2>2. ASSUME NEW m \in 1..(Len(b.key) - 1) PROVE Inner(b, m) \in Reach(n)
    BY <2>1, InnerFields
  <2>3. SameInner(F, G, b)
    BY <1>1, <2>2 DEF SameInner
  <2> QED  BY <2>3, MeantStepSame
<1>2. 0 \in T
  <2> DEFINE F == [b \in Reach(0) |-> 0]
  <2>1. Reach(0) = {}
    <3>1. \A b \in Fields : ~(Len(b.key) <= 0)
      BY InnerFields DEF SameLengths
    <3> QED  BY <3>1
  <2>2. F = StepOn(F, 0)
    BY <2>1
  <2> HIDE DEF F
  <2> QED  BY <2>2
<1>3. ASSUME NEW n \in T PROVE n + 1 \in T
  <2>1. n \in Nat
    OBVIOUS
  <2>2. PICK F : F = StepOn(F, n)
    OBVIOUS
  <2> DEFINE G == StepOn(F, n + 1)
  <2>3. \A b \in Reach(n) : b \in Reach(n + 1)
    BY <2>1, InnerFields
  <2> HIDE DEF Reach, G
  <2>4. \A b \in Reach(n) : F[b] = [m \in Maps |-> MeantStep(F, b, m)]
    BY <2>2
  <2>5. \A b \in Reach(n + 1) : G[b] = [m \in Maps |-> MeantStep(F, b, m)]
    BY DEF G
  <2>6. \A b \in Reach(n) : F[b] = G[b]
    BY <2>3, <2>4, <2>5
  <2>7. \A b \in Reach(n + 1) : [m \in Maps |-> MeantStep(F, b, m)] = [m \in Maps |-> MeantStep(G, b, m)]
    BY <1>1, <2>1, <2>6
  <2>8. G = StepOn(G, n + 1)
    <3>1. G = StepOn(F, n + 1)
      BY DEF G
    <3>2. StepOn(F, n + 1) = StepOn(G, n + 1)
      BY <2>7
    <3> QED  BY <3>1, <3>2
  <2> QED  BY <2>1, <2>8
<1>4. T = Nat
  <2>1. T \subseteq Nat
    OBVIOUS
  <2> HIDE DEF T
  <2> QED  BY <1>2, <1>3, <2>1, Induction
<1>5. PICK depth : depth \in Depths
  BY TypesOK
<1>6. NumberOfTypes \in Nat /\ Reach(NumberOfTypes) = Fields
  <2>1. NumberOfTypes \in Nat
    BY BindingAssumption, FS_CardinalityType DEF NumberOfTypes
  <2>2. ASSUME NEW b \in Fields PROVE Len(b.key) <= NumberOfTypes
    <3>1. PICK type \in Tidy : b \in StructFields[type]
      BY FieldsAreTidy
    <3>2. type \in DOMAIN Types
      BY DEF Tidy
    <3>3. /\ Len(b.key) <= depth[type] /\ depth[type] <= NumberOfTypes /\ Len(b.key) \in Nat
          /\ depth[type] \in Nat
      BY <1>5, <3>1, <3>2, KeysAreShort, DepthFacts, InnerFields
    <3> QED  BY <2>1, <3>3
  <2> QED  BY <2>1, <2>2
<1>7. \E F : F = Step(F)
  <2>1. NumberOfTypes \in T
    <3> HIDE DEF T
    <3> QED  BY <1>4, <1>6
  <2>2. PICK F : F = StepOn(F, NumberOfTypes)
    BY <2>1
  <2> HIDE DEF Reach
  <2>3. F = Step(F)
    BY <1>6, <2>2
  <2> QED  BY <2>3
<1>8. Meant = CHOOSE F : F = Step(F)
  BY DEF Meant, MeantStep
<1>9. Meant = Step(Meant)
  <2> HIDE DEF Step
  <2> QED  BY <1>7, <1>8
<1>10. Meant[d] = [m \in Maps |-> MeantStep(Meant, d, m)]
  BY <1>9
<1> QED  BY <1>10

LEMMA GivenAre ==
  ASSUME NEW d \in Fields, NEW vals \in Maps
  PROVE  Given[d][vals] = GivenStep(Given, d, vals)
<1> DEFINE Reach(n) == {b \in Fields : Len(b.key) <= n}
           Step(F) == [b \in Fields |-> [m \in Maps |-> GivenStep(F, b, m)]]
           StepOn(F, n) == [b \in Reach(n) |-> [m \in Maps |-> GivenStep(F, b, m)]]
           T == {n \in Nat : \E F : F = StepOn(F, n)}
<1>1. ASSUME NEW n \in Nat, NEW F, NEW G, NEW b \in Reach(n + 1), \A x \in Reach(n) : F[x] = G[x]
      PROVE  [m \in Maps |-> GivenStep(F, b, m)] = [m \in Maps |-> GivenStep(G, b, m)]
  <2>1. b \in Fields /\ Len(b.key) \in Nat /\ Len(b.key) <= n + 1
    BY InnerFields
  <2>2. ASSUME NEW m \in 1..(Len(b.key) - 1) PROVE Inner(b, m) \in Reach(n)
    BY <2>1, InnerFields
  <2>3. SameInner(F, G, b)
    BY <1>1, <2>2 DEF SameInner
  <2> QED  BY <2>3, MeantStepSame
<1>2. 0 \in T
  <2> DEFINE F == [b \in Reach(0) |-> 0]
  <2>1. Reach(0) = {}
    <3>1. \A b \in Fields : ~(Len(b.key) <= 0)
      BY InnerFields DEF SameLengths
    <3> QED  BY <3>1
  <2>2. F = StepOn(F, 0)
    BY <2>1
  <2> HIDE DEF F
  <2> QED  BY <2>2
<1>3. ASSUME NEW n \in T PROVE n + 1 \in T
  <2>1. n \in Nat
    OBVIOUS
  <2>2. PICK F : F = StepOn(F, n)
    OBVIOUS
  <2> DEFINE G == StepOn(F, n + 1)
  <2>3. \A b \in Reach(n) : b \in Reach(n + 1)
    BY <2>1, InnerFields
  <2> HIDE DEF Reach, G
  <2>4. \A b \in Reach(n) : F[b] = [m \in Maps |-> GivenStep(F, b, m)]
    BY <2>2
  <2>5. \A b \in Reach(n + 1) : G[b] = [m \in Maps |-> GivenStep(F, b, m)]
    BY DEF G
  <2>6. \A b \in Reach(n) : F[b] = G[b]
    BY <2>3, <2>4, <2>5
  <2>7. \A b \in Reach(n + 1) : [m \in Maps |-> GivenStep(F, b, m)] = [m \in Maps |-> GivenStep(G, b, m)]
    BY <1>1, <2>1, <2>6
  <2>8. G = StepOn(G, n + 1)
    <3>1. G = StepOn(F, n + 1)
      BY DEF G
    <3>2. StepOn(F, n + 1) = StepOn(G, n + 1)
      BY <2>7
    <3> QED  BY <3>1, <3>2
  <2> QED  BY <2>1, <2>8
<1>4. T = Nat
  <2>1. T \subseteq Nat
    OBVIOUS
  <2> HIDE DEF T
  <2> QED  BY <1>2, <1>3, <2>1, Induction
<1>5. PICK depth : depth \in Depths
  BY TypesOK
<1>6. NumberOfTypes \in Nat /\ Reach(NumberOfTypes) = Fields
  <2>1. NumberOfTypes \in Nat
    BY BindingAssumption, FS_CardinalityType DEF NumberOfTypes
  <2>2. ASSUME NEW b \in Fields PROVE Len(b.key) <= NumberOfTypes
    <3>1. PICK type \in Tidy : b \in StructFields[type]
      BY FieldsAreTidy
    <3>2. type \in DOMAIN Types
      BY DEF Tidy
    <3>3. /\ Len(b.key) <= depth[type] /\ depth[type] <= NumberOfTypes /\ Len(b.key) \in Nat
          /\ depth[type] \in Nat
      BY <1>5, <3>1, <3>2, KeysAreShort, DepthFacts, InnerFields
    <3> QED  BY <2>1, <3>3
  <2> QED  BY <2>1, <2>2
<1>7. \E F : F = Step(F)
  <2>1. NumberOfTypes \in T
    <3> HIDE DEF T
    <3> QED  BY <1>4, <1>6
  <2>2. PICK F : F = StepOn(F, NumberOfTypes)
    BY <2>1
  <2> HIDE DEF Reach
  <2>3. F = Step(F)
    BY <1>6, <2>2
  <2> QED  BY <2>3
<1>8. Given = CHOOSE F : F = Step(F)
  BY DEF Given, GivenStep
<1>9. Given = Step(Given)
  <2> HIDE DEF Step
  <2> QED  BY <1>7, <1>8
<1>10. Given[d] = [m \in Maps |-> GivenStep(Given, d, m)]
  BY <1>9
<1> QED  BY <1>10

-----------------------------------------------------------------------------
(* What a list of metadata gives for a field x: what the last one gives    *)
(* that is for x itself or for a struct around it.                         *)

By(x, vals, m) ==
    IF m.index = x.place THEN Own(x, vals)
    ELSE UNION {Meant[Inner(x, n)][vals[Above(x, n)].of] :
                n \in {n \in MapsAbove(x, vals) : m.index = FirstOf(x.place, n)}}

LastGiving(x, vals, ms) ==
    {j \in DOMAIN ms : /\ By(x, vals, ms[j]) # {}
                       /\ \A k \in DOMAIN ms : By(x, vals, ms[k]) # {} => k <= j}

ByList(x, vals, ms) == UNION {By(x, vals, ms[j]) : j \in LastGiving(x, vals, ms)}

LEMMA LastIndex ==
  ASSUME NEW n \in Nat, NEW P \in SUBSET (1..n), P # {}
  PROVE  \E j \in P : \A k \in P : k <= j
<1> DEFINE T == {m \in Nat : \A Q \in SUBSET (1..m) : Q # {} => \E j \in Q : \A k \in Q : k <= j}
<1>1. 0 \in T
  <2>1. 1..0 = {}
    OBVIOUS
  <2> QED  BY <2>1
<1>2. ASSUME NEW m \in T PROVE m + 1 \in T
  <2>1. m \in Nat
    OBVIOUS
  <2>2. ASSUME NEW Q \in SUBSET (1..(m + 1)), Q # {} PROVE \E j \in Q : \A k \in Q : k <= j
    <3>1. CASE m + 1 \in Q
      BY <2>1, <3>1
    <3>2. CASE m + 1 \notin Q
      <4>1. Q \in SUBSET (1..m)
        BY <2>1, <3>2
      <4> QED  BY <2>2, <4>1
    <3> QED  BY <3>1, <3>2
  <2> QED  BY <2>1, <2>2
<1>3. T = Nat
  <2>1. T \subseteq Nat
    OBVIOUS
  <2> HIDE DEF T
  <2> QED  BY <1>1, <1>2, <2>1, Induction
<1> QED  BY <1>3

LEMMA ByLast ==
  ASSUME NEW x, NEW vals, NEW ms, DOMAIN ms \subseteq Nat, NEW j \in DOMAIN ms, By(x, vals, ms[j]) # {},
         \A k \in DOMAIN ms : By(x, vals, ms[k]) # {} => k <= j
  PROVE  ByList(x, vals, ms) = By(x, vals, ms[j])
<1>1. j \in LastGiving(x, vals, ms)
  BY DEF LastGiving
<1>2. \A k \in LastGiving(x, vals, ms) : k = j
  <2>1. ASSUME NEW k \in LastGiving(x, vals, ms) PROVE k = j
    <3>1. k \in DOMAIN ms /\ k <= j /\ j <= k
      BY DEF LastGiving
    <3>2. k \in Nat /\ j \in Nat
      BY <3>1
    <3> QED  BY <3>1, <3>2
  <2> QED  BY <2>1
<1>3. LastGiving(x, vals, ms) = {j}
  BY <1>1, <1>2
<1> QED  BY <1>3 DEF ByList

LEMMA ByNone ==
  ASSUME NEW x, NEW vals, NEW ms, \A k \in DOMAIN ms : By(x, vals, ms[k]) = {}
  PROVE  ByList(x, vals, ms) = {}
BY DEF ByList, LastGiving

LEMMA BySome ==
  ASSUME NEW x, NEW vals, NEW A, NEW ms \in Seq(A), NEW i \in DOMAIN ms, By(x, vals, ms[i]) # {}
  PROVE  \E j \in DOMAIN ms :
            /\ By(x, vals, ms[j]) # {} /\ ByList(x, vals, ms) = By(x, vals, ms[j])
            /\ \A k \in DOMAIN ms : By(x, vals, ms[k]) # {} => k <= j
<1> DEFINE P == {k \in DOMAIN ms : By(x, vals, ms[k]) # {}}
<1>1. Len(ms) \in Nat /\ DOMAIN ms = 1..Len(ms)
  BY LenProperties
<1>2. P \in SUBSET (1..Len(ms)) /\ P # {}
  BY <1>1
<1>3. PICK j \in P : \A k \in P : k <= j
  <2> HIDE DEF P
  <2> QED  BY <1>1, <1>2, LastIndex
<1>4. /\ j \in DOMAIN ms /\ By(x, vals, ms[j]) # {}
      /\ \A k \in DOMAIN ms : By(x, vals, ms[k]) # {} => k <= j
  BY <1>3
<1>5. DOMAIN ms \subseteq Nat
  BY <1>1
<1>6. ByList(x, vals, ms) = By(x, vals, ms[j])
  BY <1>4, <1>5, ByLast
<1> QED  BY <1>4, <1>6

LEMMA ByTail ==
  ASSUME NEW x, NEW vals, NEW A, NEW ms \in Seq(A), ms # <<>>
  PROVE  ByList(x, vals, ms) = IF ByList(x, vals, Tail(ms)) # {} THEN ByList(x, vals, Tail(ms))
                               ELSE By(x, vals, Head(ms))
<1> DEFINE t == Tail(ms)
           n == Len(ms)
           B(m) == By(x, vals, m)
<1>1. /\ n \in Nat /\ n # 0 /\ DOMAIN ms = 1..n /\ Head(ms) = ms[1]
      /\ t \in Seq(A) /\ Len(t) = n - 1 /\ DOMAIN t = 1..(n - 1)
      /\ \A i \in 1..(n - 1) : t[i] = ms[i + 1]
  <2>1. n \in Nat /\ n # 0 /\ DOMAIN ms = 1..n /\ Head(ms) = ms[1]
    BY EmptySeq, LenProperties
  <2>2. t \in Seq(A) /\ Len(t) = n - 1 /\ \A i \in 1..(n - 1) : t[i] = ms[i + 1]
    BY HeadTailProperties
  <2>3. DOMAIN t = 1..(n - 1)
    BY <2>2, LenProperties
  <2> QED  BY <2>1, <2>2, <2>3
<1> HIDE DEF t, n
<1>2. CASE \E i \in DOMAIN t : B(t[i]) # {}
  <2>1. PICK j \in DOMAIN t : /\ B(t[j]) # {} /\ ByList(x, vals, t) = B(t[j])
                              /\ \A k \in DOMAIN t : B(t[k]) # {} => k <= j
    BY <1>1, <1>2, BySome
  <2>2. j + 1 \in DOMAIN ms /\ ms[j + 1] = t[j]
    BY <1>1
  <2>3. ASSUME NEW k \in DOMAIN ms, B(ms[k]) # {} PROVE k <= j + 1
    <3>1. CASE k = 1
      BY <1>1, <3>1
    <3>2. CASE k # 1
      <4> DEFINE i == k - 1
      <4>1. i \in DOMAIN t /\ k = i + 1
        BY <1>1, <3>2
      <4> HIDE DEF i
      <4>2. t[i] = ms[k]
        BY <1>1, <4>1
      <4>3. i <= j
        BY <2>1, <2>3, <4>1, <4>2
      <4> QED  BY <1>1, <4>1, <4>3
    <3> QED  BY <3>1, <3>2
  <2> DEFINE l == j + 1
  <2>4. l \in DOMAIN ms /\ ms[l] = t[j] /\ \A k \in DOMAIN ms : B(ms[k]) # {} => k <= l
    BY <2>2, <2>3
  <2> HIDE DEF l
  <2>5. DOMAIN ms \subseteq Nat
    BY <1>1
  <2>6. ByList(x, vals, ms) = B(t[j])
    BY <2>1, <2>4, <2>5, ByLast
  <2> QED  BY <2>1, <2>6 DEF t
<1>3. CASE \A i \in DOMAIN t : B(t[i]) = {}
  <2>1. ByList(x, vals, t) = {}
    BY <1>3, ByNone
  <2>2. \A k \in DOMAIN ms : B(ms[k]) # {} => k = 1
    <3>1. ASSUME NEW k \in DOMAIN ms, k # 1 PROVE B(ms[k]) = {}
      <4> DEFINE i == k - 1
      <4>1. i \in DOMAIN t /\ k = i + 1
        BY <1>1, <3>1
      <4> HIDE DEF i
      <4>2. t[i] = ms[k]
        BY <1>1, <4>1
      <4> QED  BY <1>3, <4>1, <4>2
    <3> QED  BY <3>1
  <2>3. ByList(x, vals, ms) = B(ms[1])
    <3>1. CASE B(ms[1]) = {}
      <4>1. \A k \in DOMAIN ms : B(ms[k]) = {}
        BY <2>2, <3>1
      <4> QED  BY <3>1, <4>1, ByNone
    <3>2. CASE B(ms[1]) # {}
      <4>1. 1 \in DOMAIN ms /\ DOMAIN ms \subseteq Nat /\ \A k \in DOMAIN ms : B(ms[k]) # {} => k <= 1
        BY <1>1, <2>2
      <4> QED  BY <3>2, <4>1, ByLast
    <3> QED  BY <3>1, <3>2
  <2> QED  BY <1>1, <2>1, <2>3 DEF t
<1> QED  BY <1>2, <1>3

\* What a map for the struct around x at the first n parts gives.
MeantBy(x, vals, n) == Meant[Inner(x, n)][vals[Above(x, n)].of]

LEMMA ByMap ==
  ASSUME NEW x, SameLengths(x), NEW vals, NEW m, NEW n \in MapsAbove(x, vals), m.index = FirstOf(x.place, n)
  PROVE  By(x, vals, m) = MeantBy(x, vals, n)
<1>1. x.place \in Trails /\ Len(x.place) = Len(x.key) /\ Len(x.key) \in Nat
  BY DEF SameLengths, AnyField
<1>2. \A k \in MapsAbove(x, vals) : k \in 1..(Len(x.key) - 1)
  BY DEF MapsAbove
<1>3. \A k \in MapsAbove(x, vals) : k \in 0..Len(x.place) /\ k # Len(x.place)
  BY <1>1, <1>2
<1>4. \A k \in MapsAbove(x, vals) : Len(FirstOf(x.place, k)) = k
  BY <1>1, <1>3, FirstParts
<1>5. m.index # x.place
  BY <1>3, <1>4
<1>6. {k \in MapsAbove(x, vals) : m.index = FirstOf(x.place, k)} = {n}
  BY <1>4
<1> QED  BY <1>5, <1>6 DEF By, MeantBy

LEMMA ByOther ==
  ASSUME NEW x, NEW vals, NEW m, By(x, vals, m) # {}
  PROVE  \/ m.index = x.place /\ By(x, vals, m) = Own(x, vals)
         \/ \E n \in MapsAbove(x, vals) : m.index = FirstOf(x.place, n)
BY DEF By

\* Metadata of structs around a field, or of the field, in their order.
LEMMA OuterFirst ==
  ASSUME NEW type \in Tidy, NEW ms, Sorted(ms, Later(type)), NEW p \in Trails,
         NEW i \in 0..Len(p), NEW j \in 0..i, NEW k \in DOMAIN ms, NEW l \in DOMAIN ms,
         ms[k].index = FirstOf(p, i), ms[l].index = FirstOf(p, j)
  PROVE  ~(k < l)
<1>1. SUFFICES ASSUME k < l PROVE FALSE
  OBVIOUS
<1>2. <<ms[k], ms[l]>> \in Later(type)
  BY <1>1 DEF Sorted
<1>3. \A n \in 0..Len(ms[k].index) : ms[l].index # FirstOf(ms[k].index, n)
  BY <1>2 DEF Later
<1>4. Len(ms[k].index) = i
  BY FirstParts
<1>5. FirstOf(ms[k].index, j) = ms[l].index
  BY CutOfFirst
<1> QED  BY <1>3, <1>4, <1>5

LEMMA ListIsMeant ==
  ASSUME NEW type \in Tidy, NEW x \in StructFields[type], x.field.kind \in Plain, NEW vals \in Maps
  PROVE  ByList(x, vals, WalkFields[type]) = Meant[x][vals]
<1> DEFINE W == WalkFields[type]
           size == Len(x.key)
           Mb(n) == MeantBy(x, vals, n)
           giving == {n \in MapsAbove(x, vals) : Mb(n) # {}}
<1>1. /\ W \in Seq(Listed(type)) /\ ToSet(W) = Listed(type) /\ Sorted(W, Later(type))
      /\ DOMAIN W \subseteq Nat
  <2>1. MetasOf(type)
    BY TidyMetas
  <2> QED  BY <2>1 DEF MetasOf
<1>2. /\ SameLengths(x) /\ x \in AnyField /\ x.place \in Trails /\ Len(x.place) = size
      /\ size \in Nat /\ 1 <= size
  <2>1. SameLengths(x)
    BY TidyLengths
  <2> QED  BY <2>1 DEF SameLengths, AnyField
<1>3. x \in Fields
  BY DEF Fields, Tidy
<1>4. Meant[x][vals] = IF Own(x, vals) # {} THEN Own(x, vals)
                       ELSE UNION {Mb(n) : n \in {n \in giving : \A o \in giving : o <= n}}
  BY <1>3, MeantAre DEF MeantStep, MeantBy
<1>5. \A n \in MapsAbove(x, vals) : n \in 1..(size - 1) /\ \A q \in x.pointers : n <= q
  BY DEF MapsAbove
<1>6. \A n \in MapsAbove(x, vals) : \E j \in DOMAIN W : W[j].index = FirstOf(x.place, n)
  <2>1. ASSUME NEW n \in MapsAbove(x, vals) PROVE \E j \in DOMAIN W : W[j].index = FirstOf(x.place, n)
    <3>1. PICK e \in StructFields[type] : HoldsAt(e, x, n)
      BY <1>5, TidyAncestors
    <3>2. {q \in x.pointers : q < n} = {}
      <4>1. \A q \in x.pointers : q \in Nat /\ n \in Nat /\ n <= q
        BY <1>2, <1>5 DEF AnyField
      <4> QED  BY <4>1
    <3>3. e \in Seen(type) /\ e.place = FirstOf(x.place, n)
      BY <3>1, <3>2 DEF HoldsAt, Seen
    <3>4. MetaOf(e) \in ToSet(W) /\ MetaOf(e).index = FirstOf(x.place, n)
      BY <1>1, <3>3, SeenFields
    <3> QED  BY <3>4 DEF ToSet
  <2> QED  BY <2>1
<1> HIDE DEF W, size
<1>7. CASE Own(x, vals) # {}
  <2>1. x.pointers = {}
    BY <1>7 DEF Own
  <2>2. x \in Seen(type)
    BY <2>1 DEF Seen, Plain
  <2>3. MetaOf(x) \in ToSet(W) /\ MetaOf(x).index = x.place
    BY <1>1, <2>2, SeenFields
  <2>4. PICK j \in DOMAIN W : W[j].index = x.place
    BY <2>3 DEF ToSet
  <2>5. By(x, vals, W[j]) = Own(x, vals)
    BY <2>4 DEF By
  <2>6. size \in 0..Len(x.place) /\ FirstOf(x.place, size) = x.place
    BY <1>2, WholeTrail
  <2>7. ASSUME NEW k \in DOMAIN W, By(x, vals, W[k]) # {} PROVE k <= j
    <3>1. \E n \in 0..size : W[k].index = FirstOf(x.place, n)
      <4>1. CASE W[k].index = x.place
        BY <1>2, <2>6, <4>1
      <4>2. CASE \E n \in MapsAbove(x, vals) : W[k].index = FirstOf(x.place, n)
        <5>1. PICK n \in MapsAbove(x, vals) : W[k].index = FirstOf(x.place, n)
          BY <4>2
        <5>2. n \in 0..size
          BY <1>2, <1>5
        <5> QED  BY <5>1, <5>2
      <4> QED  BY <2>7, <4>1, <4>2, ByOther
    <3>2. PICK n \in 0..size : W[k].index = FirstOf(x.place, n)
      BY <3>1
    <3>3. ~(j < k)
      BY <1>1, <1>2, <2>4, <2>6, <3>2, OuterFirst
    <3> QED  BY <1>1, <3>3
  <2>8. ByList(x, vals, W) = By(x, vals, W[j])
    BY <1>1, <1>7, <2>5, <2>7, ByLast
  <2> QED  BY <1>4, <1>7, <2>5, <2>8 DEF W
<1>8. CASE Own(x, vals) = {}
  <2>1. \A k \in DOMAIN W : By(x, vals, W[k]) # {} =>
           \E n \in giving : W[k].index = FirstOf(x.place, n)
    <3>1. ASSUME NEW k \in DOMAIN W, By(x, vals, W[k]) # {}
          PROVE  \E n \in giving : W[k].index = FirstOf(x.place, n)
      <4>1. PICK n \in MapsAbove(x, vals) : W[k].index = FirstOf(x.place, n)
        BY <1>8, <3>1, ByOther
      <4>2. By(x, vals, W[k]) = Mb(n)
        BY <1>2, <4>1, ByMap
      <4> QED  BY <3>1, <4>1, <4>2
    <3> QED  BY <3>1
  <2>2. CASE giving = {}
    <3>1. ByList(x, vals, W) = {}
      BY <2>1, <2>2, ByNone
    <3>2. Meant[x][vals] = {}
      <4> HIDE DEF giving
      <4> QED  BY <1>4, <1>8, <2>2
    <3> QED  BY <3>1, <3>2 DEF W
  <2>3. CASE giving # {}
    <3>1. giving \in SUBSET (1..(size - 1)) /\ size - 1 \in Nat
      BY <1>2, <1>5
    <3>2. PICK n \in giving : \A o \in giving : o <= n
      <4> HIDE DEF giving
      <4> QED  BY <2>3, <3>1, LastIndex
    <3>3. n \in MapsAbove(x, vals) /\ Mb(n) # {} /\ n \in 1..(size - 1)
      BY <3>1, <3>2
    <3>4. PICK j \in DOMAIN W : W[j].index = FirstOf(x.place, n)
      BY <1>6, <3>3
    <3>5. By(x, vals, W[j]) = Mb(n)
      BY <1>2, <3>3, <3>4, ByMap
    <3>6. ASSUME NEW k \in DOMAIN W, By(x, vals, W[k]) # {} PROVE k <= j
      <4>1. PICK o \in giving : W[k].index = FirstOf(x.place, o)
        BY <2>1, <3>6
      <4>2. o \in 0..n /\ n \in 0..Len(x.place)
        BY <1>2, <3>1, <3>2, <3>3
      <4>3. ~(j < k)
        BY <1>1, <1>2, <3>4, <4>1, <4>2, OuterFirst
      <4> QED  BY <1>1, <4>3
    <3>7. ByList(x, vals, W) = Mb(n)
      BY <1>1, <3>3, <3>5, <3>6, ByLast
    <3>8. {o \in giving : \A b \in giving : b <= o} = {n}
      <4>1. \A o \in giving : o \in Nat
        BY <3>1
      <4> QED  BY <3>2, <4>1
    <3>9. Meant[x][vals] = Mb(n)
      <4> HIDE DEF giving
      <4> QED  BY <1>4, <1>8, <3>8
    <3> QED  BY <3>7, <3>9 DEF W
  <2> QED  BY <2>2, <2>3
<1> QED  BY <1>7, <1>8

-----------------------------------------------------------------------------
(* What is under a place.                                                  *)

LEMMA TwoParts ==
  ASSUME NEW p \in Trails, NEW m \in 0..Len(p)
  PROVE  p = FirstOf(p, m) \o From(p, m)
<1>1. Len(p) \in Nat /\ m \in Nat /\ Len(p) - m \in 0..(Len(p) - m) /\ m + (Len(p) - m) = Len(p)
  BY TrailFacts
<1>2. From(p, m) \in Trails /\ Len(From(p, m)) = Len(p) - m
  BY LastParts
<1> DEFINE n == Len(p) - m
<1>3. n \in 0..(Len(p) - m) /\ m + n = Len(p) /\ n = Len(From(p, m))
  BY <1>1, <1>2
<1> HIDE DEF n
<1>4. FirstOf(p, m + n) = FirstOf(p, m) \o FirstOf(From(p, m), n)
  BY <1>3, CutBetween
<1>5. FirstOf(p, m + n) = p /\ FirstOf(From(p, m), n) = From(p, m)
  BY <1>2, <1>3, WholeTrail
<1> QED  BY <1>4, <1>5

LEMMA JoinFacts ==
  ASSUME NEW b \in Trails, NEW s \in Trails
  PROVE  /\ b \o s \in Trails /\ Len(b \o s) = Len(b) + Len(s) /\ Len(b) \in Nat /\ Len(s) \in Nat
         /\ FirstOf(b \o s, Len(b)) = b /\ From(b \o s, Len(b)) = s
<1> DEFINE p == b \o s
           m == Len(b)
           n == Len(s)
<1>1. m \in Nat /\ n \in Nat
  BY TrailFacts
<1>2. p \in Trails /\ Len(p) = m + n /\ \A i \in 1..(m + n) : p[i] = IF i <= m THEN b[i] ELSE s[i - m]
  BY ConcatProperties DEF Trails
<1> HIDE DEF p, m, n
<1>3. m = Len(b) /\ n = Len(s)
  BY DEF m, n
<1>4. m \in 0..Len(p) /\ Len(p) - m = n
  BY <1>1, <1>2
<1>5. FirstOf(p, m) = b
  <2>1. FirstOf(p, m) \in Trails /\ Len(FirstOf(p, m)) = m /\ \A i \in 1..m : FirstOf(p, m)[i] = p[i]
    BY <1>2, <1>4, FirstParts
  <2>2. \A i \in 1..m : p[i] = b[i]
    BY <1>1, <1>2
  <2> QED  BY <1>3, <2>1, <2>2, SameTrail
<1>6. From(p, m) = s
  <2>1. From(p, m) \in Trails /\ Len(From(p, m)) = n /\ \A i \in 1..n : From(p, m)[i] = p[m + i]
    BY <1>2, <1>4, LastParts
  <2>2. ASSUME NEW i \in 1..n PROVE p[m + i] = s[i]
    <3> DEFINE k == m + i
    <3>1. k \in 1..(m + n) /\ ~(k <= m) /\ k - m = i
      BY <1>1
    <3> HIDE DEF k
    <3>2. p[k] = s[k - m]
      BY <1>2, <3>1
    <3> QED  BY <3>1, <3>2 DEF k
  <2> QED  BY <1>3, <2>1, <2>2, SameTrail
<1> QED  BY <1>1, <1>2, <1>5, <1>6 DEF p, m, n

LEMMA InnerTwice ==
  ASSUME NEW d, SameLengths(d), NEW m \in 0..Len(d.key), NEW n \in 0..(Len(d.key) - m)
  PROVE  Inner(d, m + n) = Inner(Inner(d, m), n)
<1>1. /\ d.place \in Trails /\ d.key \in Trails /\ Len(d.place) = Len(d.key) /\ Len(d.key) \in Nat
      /\ d.pointers \subseteq Nat \ {0}
  BY DEF SameLengths, AnyField
<1>2. m \in Nat /\ n \in Nat /\ m \in 0..Len(d.place) /\ n \in 0..(Len(d.place) - m)
  BY <1>1
<1>3. From(d.place, m + n) = From(From(d.place, m), n) /\ From(d.key, m + n) = From(From(d.key, m), n)
  BY <1>1, <1>2, CutTwice
<1>4. {q - (m + n) : q \in {q \in d.pointers : q > m + n}}
         = {r - n : r \in {r \in {q - m : q \in {q \in d.pointers : q > m}} : r > n}}
  <2>1. ASSUME NEW q \in d.pointers, q > m + n
        PROVE  q > m /\ q - m > n /\ (q - m) - n = q - (m + n)
    BY <1>1, <1>2, <2>1
  <2>2. ASSUME NEW q \in d.pointers, q > m, q - m > n
        PROVE  q > m + n /\ q - (m + n) = (q - m) - n
    BY <1>1, <1>2, <2>2
  <2> QED  BY <2>1, <2>2
<1> QED  BY <1>3, <1>4 DEF Inner, From

Under(d, b) == Len(b) \in 0..(Len(d.place) - 1) /\ FirstOf(d.place, Len(b)) = b

LEMMA UnderFacts ==
  ASSUME NEW d, SameLengths(d), NEW b \in Trails, Under(d, b)
  PROVE  /\ d.place = b \o Inner(d, Len(b)).place
         /\ Inner(d, Len(b)).place \in Trails
         /\ Len(Inner(d, Len(b)).place) = Len(d.place) - Len(b)
         /\ Inner(d, Len(b)).field = d.field
         /\ Len(b) \in Nat /\ Len(b) \in 0..Len(d.key) /\ Len(d.key) = Len(d.place)
         /\ Len(d.place) \in Nat
<1>1. d.place \in Trails /\ Len(d.place) = Len(d.key) /\ Len(d.key) \in Nat
  BY DEF SameLengths, AnyField
<1>2. Len(b) \in 0..Len(d.place) /\ Len(b) \in Nat
  BY <1>1 DEF Under
<1>3. d.place = FirstOf(d.place, Len(b)) \o From(d.place, Len(b))
  BY <1>1, <1>2, TwoParts
<1>4. From(d.place, Len(b)) \in Trails /\ Len(From(d.place, Len(b))) = Len(d.place) - Len(b)
  BY <1>1, <1>2, LastParts
<1> QED  BY <1>1, <1>2, <1>3, <1>4 DEF Inner, From, Under

\* To be under b and then s is to be under b, and under s from there on.
LEMMA UnderTwice ==
  ASSUME NEW d, SameLengths(d), NEW b \in Trails, NEW s \in Trails
  PROVE  /\ Under(d, b \o s) <=> Under(d, b) /\ Under(Inner(d, Len(b)), s)
         /\ Under(d, b \o s) => Inner(d, Len(b \o s)) = Inner(Inner(d, Len(b)), Len(s))
<1> DEFINE p == d.place
           m == Len(b)
           n == Len(s)
<1>1. p \in Trails /\ Len(p) = Len(d.key) /\ Len(p) \in Nat
  BY DEF SameLengths, AnyField
<1>2. /\ b \o s \in Trails /\ Len(b \o s) = m + n /\ m \in Nat /\ n \in Nat
      /\ FirstOf(b \o s, m) = b /\ From(b \o s, m) = s
  BY JoinFacts
<1>3. Inner(d, m).place = From(p, m)
  BY DEF Inner, From
<1> HIDE DEF p, m, n
<1>4. ASSUME Under(d, b \o s) PROVE Under(d, b) /\ Under(Inner(d, m), s)
  <2>1. m + n \in 0..(Len(p) - 1) /\ FirstOf(p, m + n) = b \o s
    BY <1>2, <1>4 DEF Under, p
  <2>2. /\ m \in 0..(Len(p) - 1) /\ m \in 0..(m + n) /\ m + n \in 0..Len(p) /\ m \in 0..Len(p)
        /\ n \in 0..(Len(p) - m)
    BY <1>1, <1>2, <2>1
  <2>3. FirstOf(p, m) = b
    <3>1. FirstOf(FirstOf(p, m + n), m) = FirstOf(p, m)
      BY <1>1, <2>2, CutOfFirst
    <3> QED  BY <1>2, <2>1, <3>1
  <2>4. Under(d, b)
    BY <2>2, <2>3 DEF Under, p, m
  <2>5. From(p, m) \in Trails /\ Len(From(p, m)) = Len(p) - m
    BY <1>1, <2>2, LastParts
  <2>6. FirstOf(From(p, m), n) = s
    <3> DEFINE u == FirstOf(From(p, m), n)
    <3>1. u \in Trails
      <4>1. n \in 0..Len(From(p, m))
        BY <2>2, <2>5
      <4> QED  BY <2>5, <4>1, FirstParts
    <3>2. b \o u = b \o s
      BY <1>1, <2>1, <2>2, <2>3, CutBetween
    <3>3. From(b \o u, m) = u
      <4> HIDE DEF u
      <4> QED  BY <3>1, JoinFacts DEF m
    <3> QED  BY <1>2, <3>2, <3>3
  <2>7. n \in 0..(Len(From(p, m)) - 1)
    BY <1>1, <1>2, <2>1, <2>5
  <2>8. Under(Inner(d, m), s)
    BY <1>3, <2>6, <2>7 DEF Under, n
  <2> QED  BY <2>4, <2>8
<1>5. ASSUME Under(d, b), Under(Inner(d, m), s) PROVE Under(d, b \o s)
  <2>1. m \in 0..(Len(p) - 1) /\ FirstOf(p, m) = b
    BY <1>5 DEF Under, p, m
  <2>2. n \in 0..(Len(From(p, m)) - 1) /\ FirstOf(From(p, m), n) = s
    BY <1>3, <1>5 DEF Under, n
  <2>3. m \in 0..Len(p)
    BY <1>1, <2>1
  <2>4. Len(From(p, m)) = Len(p) - m
    BY <1>1, <2>3, LastParts
  <2>5. n \in 0..(Len(p) - m) /\ m + n \in 0..(Len(p) - 1)
    BY <1>1, <1>2, <2>1, <2>2, <2>4
  <2>6. FirstOf(p, m + n) = b \o s
    BY <1>1, <2>1, <2>2, <2>3, <2>5, CutBetween
  <2> QED  BY <1>2, <2>5, <2>6 DEF Under, p
<1>6. ASSUME Under(d, b \o s) PROVE Inner(d, Len(b \o s)) = Inner(Inner(d, m), n)
  <2>1. m + n \in 0..(Len(p) - 1)
    BY <1>2, <1>6 DEF Under, p
  <2>2. m \in 0..Len(d.key) /\ n \in 0..(Len(d.key) - m)
    BY <1>1, <1>2, <2>1
  <2>3. Inner(d, m + n) = Inner(Inner(d, m), n)
    BY <2>2, InnerTwice
  <2> QED  BY <1>2, <2>3
<1> QED  BY <1>4, <1>5, <1>6 DEF m, n

LEMMA UnderNothing ==
  ASSUME NEW d, SameLengths(d)
  PROVE  <<>> \in Trails /\ Under(d, <<>>) /\ Inner(d, Len(<<>>)) = d
<1>1. d \in AnyField /\ d.place \in Trails /\ Len(d.place) \in Nat /\ 1 <= Len(d.place)
  BY DEF SameLengths, AnyField
<1>2. <<>> \in Trails /\ Len(<<>>) = 0 /\ 0 \in 0..Len(d.place) /\ 0 \in 0..(Len(d.place) - 1)
  BY <1>1 DEF Trails
<1>3. FirstOf(d.place, 0) \in Trails /\ Len(FirstOf(d.place, 0)) = 0
  BY <1>1, <1>2, FirstParts
<1>4. FirstOf(d.place, 0) = <<>>
  BY <1>2, <1>3, SameTrail
<1> QED  BY <1>1, <1>2, <1>4, InnerOfNone DEF Under

-----------------------------------------------------------------------------
(* What the first of the remaining metadata of a frame gives.              *)

LEMMA AboveHolds ==
  ASSUME NEW type \in Tidy, NEW x \in StructFields[type], NEW y \in StructFields[type],
         NEW n \in 1..(Len(x.key) - 1), y.place = FirstOf(x.place, n)
  PROVE  HoldsAt(y, x, n) /\ n = Len(y.place) /\ Under(x, y.place)
<1>1. SameLengths(x) /\ x.place \in Trails /\ Len(x.place) = Len(x.key) /\ Len(x.key) \in Nat
  <2>1. SameLengths(x)
    BY TidyLengths
  <2> QED  BY <2>1 DEF SameLengths, AnyField
<1>2. PICK e \in StructFields[type] : HoldsAt(e, x, n)
  BY TidyAncestors
<1>3. e = y
  BY <1>2, PlacesDiffer DEF HoldsAt
<1>4. n \in 0..Len(x.place) /\ n \in 0..(Len(x.place) - 1)
  BY <1>1
<1>5. Len(FirstOf(x.place, n)) = n
  BY <1>1, <1>4, FirstParts
<1> QED  BY <1>2, <1>3, <1>4, <1>5 DEF Under

LEMMA UnderStruct ==
  ASSUME NEW type \in Tidy, NEW x \in StructFields[type], NEW y \in StructFields[type], Under(x, y.place)
  PROVE  Len(y.place) \in 1..(Len(x.key) - 1) /\ HoldsAt(y, x, Len(y.place))
<1>1. SameLengths(x) /\ SameLengths(y)
  BY TidyLengths
<1>2. Len(y.place) \in 1..(Len(x.key) - 1)
  BY <1>1 DEF SameLengths, Under
<1> QED  BY <1>2, AboveHolds DEF Under

LEMMA OwnOfSeen ==
  ASSUME NEW type, NEW y \in Seen(type), NEW vals
  PROVE  Own(y, vals) = IF y.key \in DOMAIN vals THEN {vals[y.key]} ELSE y.field.default
BY DEF Own, Seen

\* What a field of the type gives for another one.
LEMMA ByField ==
  ASSUME NEW type \in Tidy, NEW x \in StructFields[type], NEW y \in Seen(type), NEW vals,
         By(x, vals, MetaOf(y)) # {}
  PROVE  \/ x = y
         \/ /\ Under(x, y.place) /\ y.field.kind \in Structs
            /\ y.key \in DOMAIN vals /\ vals[y.key].is = "map"
<1>1. y \in StructFields[type] /\ MetaOf(y).index = y.place
  BY SeenFields
<1>2. CASE MetaOf(y).index = x.place
  BY <1>1, <1>2, PlacesDiffer
<1>3. CASE \E n \in MapsAbove(x, vals) : MetaOf(y).index = FirstOf(x.place, n)
  <2>1. PICK n \in MapsAbove(x, vals) : y.place = FirstOf(x.place, n)
    BY <1>1, <1>3
  <2>2. n \in 1..(Len(x.key) - 1) /\ Above(x, n) \in DOMAIN vals /\ vals[Above(x, n)].is = "map"
    BY DEF MapsAbove
  <2>3. HoldsAt(y, x, n) /\ Under(x, y.place)
    BY <1>1, <2>1, <2>2, AboveHolds
  <2>4. y.key = Above(x, n) /\ y.field.kind \in Structs
    BY <2>3 DEF HoldsAt, Above, FirstOf, Structs
  <2> QED  BY <2>2, <2>3, <2>4
<1> QED  BY <1>2, <1>3, ByOther

LEMMA PassOver ==
  ASSUME NEW type \in Tidy, NEW x \in StructFields[type], NEW y \in Seen(type), NEW vals, Own(y, vals) = {}
  PROVE  By(x, vals, MetaOf(y)) = {}
<1> SUFFICES ASSUME By(x, vals, MetaOf(y)) # {} PROVE FALSE
  OBVIOUS
<1>1. y.key \notin DOMAIN vals
  BY OwnOfSeen
<1>2. x = y
  BY <1>1, ByField
<1>3. MetaOf(y).index = y.place
  BY SeenFields
<1>4. By(x, vals, MetaOf(y)) = Own(y, vals)
  BY <1>2, <1>3 DEF By
<1> QED  BY <1>4

LEMMA WriteOther ==
  ASSUME NEW type \in Tidy, NEW x \in StructFields[type], NEW y \in Seen(type), NEW vals,
         y.field.kind \in Plain, x # y
  PROVE  By(x, vals, MetaOf(y)) = {}
BY ByField DEF Structs, Plain

LEMMA WriteThis ==
  ASSUME NEW type \in Tidy, NEW y \in Seen(type), NEW vals,
         NEW ms \in Seq(Listed(type)), Sorted(ms, Later(type)), ms # <<>>, Head(ms) = MetaOf(y)
  PROVE  By(y, vals, MetaOf(y)) = Own(y, vals) /\ ByList(y, vals, Tail(ms)) = {}
<1>1. y \in StructFields[type] /\ MetaOf(y).index = y.place
  BY SeenFields
<1>2. SameLengths(y) /\ y.place \in Trails /\ Len(y.place) = Len(y.key) /\ Len(y.key) \in Nat
  <2>1. SameLengths(y)
    BY <1>1, TidyLengths
  <2> QED  BY <2>1 DEF SameLengths, AnyField
<1>3. By(y, vals, MetaOf(y)) = Own(y, vals)
  BY <1>1 DEF By
<1> DEFINE t == Tail(ms)
           n == Len(ms)
<1>4. /\ n \in Nat /\ n # 0 /\ DOMAIN ms = 1..n /\ Head(ms) = ms[1] /\ DOMAIN t = 1..(n - 1)
      /\ \A i \in 1..(n - 1) : t[i] = ms[i + 1]
  <2>1. n \in Nat /\ n # 0 /\ DOMAIN ms = 1..n /\ Head(ms) = ms[1]
    BY EmptySeq, LenProperties
  <2>2. t \in Seq(Listed(type)) /\ Len(t) = n - 1 /\ \A i \in 1..(n - 1) : t[i] = ms[i + 1]
    BY HeadTailProperties
  <2>3. DOMAIN t = 1..(n - 1)
    BY <2>2, LenProperties
  <2> QED  BY <2>1, <2>2, <2>3
<1> HIDE DEF t, n
<1>5. Len(y.place) \in 0..Len(y.place) /\ FirstOf(y.place, Len(y.place)) = y.place
  BY <1>2, WholeTrail
<1>6. ASSUME NEW i \in DOMAIN t PROVE By(y, vals, t[i]) = {}
  <2> SUFFICES ASSUME By(y, vals, t[i]) # {} PROVE FALSE
    OBVIOUS
  <2> DEFINE k == i + 1
  <2>1. k \in DOMAIN ms /\ 1 \in DOMAIN ms /\ 1 < k /\ t[i] = ms[k]
    BY <1>4
  <2> HIDE DEF k
  <2>2. \E j \in 0..Len(y.place) : ms[k].index = FirstOf(y.place, j)
    <3>1. CASE t[i].index = y.place
      BY <1>5, <2>1, <3>1
    <3>2. CASE \E j \in MapsAbove(y, vals) : t[i].index = FirstOf(y.place, j)
      <4>1. PICK j \in MapsAbove(y, vals) : t[i].index = FirstOf(y.place, j)
        BY <3>2
      <4>2. j \in 1..(Len(y.key) - 1)
        BY DEF MapsAbove
      <4>3. j \in 0..Len(y.place)
        BY <1>2, <4>2
      <4> QED  BY <2>1, <4>1, <4>3
    <3> QED  BY <3>1, <3>2, ByOther
  <2>3. PICK j \in 0..Len(y.place) : ms[k].index = FirstOf(y.place, j)
    BY <2>2
  <2>4. ms[1].index = FirstOf(y.place, Len(y.place))
    BY <1>1, <1>4, <1>5
  <2>5. ~(1 < k)
    BY <1>2, <1>5, <2>1, <2>3, <2>4, OuterFirst
  <2> QED  BY <2>1, <2>5
<1>7. ByList(y, vals, t) = {}
  BY <1>6, ByNone
<1> QED  BY <1>3, <1>7 DEF t

LEMMA EnterMap ==
  ASSUME NEW type \in Tidy, NEW x \in StructFields[type], x.field.kind \in Plain,
         NEW y \in Seen(type), y.field.kind \in Structs, NEW vals \in Maps,
         y.key \in DOMAIN vals, vals[y.key].is = "map", Under(x, y.place)
  PROVE  LET n == Len(y.place) IN
         /\ vals[y.key].of \in Maps /\ y.field.of \in Tidy
         /\ Inner(x, n) \in StructFields[y.field.of] /\ Inner(x, n).field = x.field
         /\ By(x, vals, MetaOf(y)) = Meant[Inner(x, n)][vals[y.key].of]
         /\ Given[Inner(x, n)][vals[y.key].of] \subseteq Given[x][vals]
<1> DEFINE n == Len(y.place)
<1>1. y \in StructFields[type] /\ MetaOf(y).index = y.place
  BY SeenFields
<1>2. n \in 1..(Len(x.key) - 1) /\ HoldsAt(y, x, n)
  BY <1>1, UnderStruct
<1>3. SameLengths(x) /\ x \in Fields
  BY TidyLengths DEF Fields, Tidy
<1>4. /\ y.place = FirstOf(x.place, n) /\ y.key = Above(x, n)
      /\ Inner(x, n) \in StructFields[y.field.of] /\ y.field.of \in Tidy
  BY <1>2 DEF HoldsAt, Above, FirstOf
<1>5. \A q \in x.pointers : n <= q
  <2>1. {q \in x.pointers : q < n} = {}
    BY <1>2 DEF HoldsAt, Seen
  <2>2. \A q \in x.pointers : q \in Nat
    BY <1>3 DEF SameLengths, AnyField
  <2>3. n \in Nat
    BY <1>2
  <2> HIDE DEF n
  <2> QED  BY <2>1, <2>2, <2>3
<1> HIDE DEF n
<1>6. n \in MapsAbove(x, vals)
  BY <1>2, <1>4, <1>5 DEF MapsAbove
<1>7. vals[Above(x, n)].of \in Maps
  BY <1>6, MapsInMaps
<1>8. By(x, vals, MetaOf(y)) = Meant[Inner(x, n)][vals[Above(x, n)].of]
  BY <1>1, <1>3, <1>4, <1>6, ByMap DEF MeantBy
<1>9. Given[Inner(x, n)][vals[Above(x, n)].of] \subseteq Given[x][vals]
  <2>1. Given[x][vals] = GivenStep(Given, x, vals)
    BY <1>3, GivenAre
  <2> QED  BY <1>6, <2>1 DEF GivenStep
<1>10. Inner(x, n).field = x.field
  BY DEF Inner
<1> QED  BY <1>4, <1>7, <1>8, <1>9, <1>10 DEF n

LEMMA HeadListed ==
  ASSUME NEW type \in Tidy, NEW ms \in Seq(Listed(type)), Sorted(ms, Later(type)), ms # <<>>
  PROVE  /\ \E y \in Seen(type) : Head(ms) = MetaOf(y)
         /\ Tail(ms) \in Seq(Listed(type)) /\ Sorted(Tail(ms), Later(type))
<1> DEFINE t == Tail(ms)
           n == Len(ms)
<1>1. n \in Nat /\ n # 0 /\ DOMAIN ms = 1..n /\ Head(ms) = ms[1] /\ Head(ms) \in Listed(type)
  BY EmptySeq, LenProperties
<1>2. t \in Seq(Listed(type)) /\ Len(t) = n - 1 /\ \A i \in 1..(n - 1) : t[i] = ms[i + 1]
  BY HeadTailProperties
<1>3. DOMAIN t = 1..(n - 1)
  BY <1>2, LenProperties
<1> HIDE DEF t, n
<1>4. ASSUME NEW i \in DOMAIN t, NEW j \in DOMAIN t, i < j PROVE <<t[i], t[j]>> \in Later(type)
  <2> DEFINE k == i + 1
             l == j + 1
  <2>1. k \in DOMAIN ms /\ l \in DOMAIN ms /\ k < l /\ t[i] = ms[k] /\ t[j] = ms[l]
    BY <1>1, <1>2, <1>3, <1>4
  <2> HIDE DEF k, l
  <2> QED  BY <2>1 DEF Sorted
<1>5. \E y \in Seen(type) : Head(ms) = MetaOf(y)
  BY <1>1 DEF Listed
<1> QED  BY <1>2, <1>4, <1>5 DEF t, Sorted

LEMMA FieldFound ==
  ASSUME NEW type \in Tidy, NEW y \in Seen(type)
  PROVE  FieldAt(type, MetaOf(y).index) = {y.field}
<1>1. y \in StructFields[type] /\ MetaOf(y).index = y.place
  BY SeenFields
<1>2. {d \in StructFields[type] : d.place = MetaOf(y).index} = {y}
  BY <1>1, PlacesDiffer
<1> QED  BY <1>2 DEF FieldAt

-----------------------------------------------------------------------------
(* What is written stands for what is given.                               *)

LEMMA CutTo8Bits ==
  ASSUME NEW n \in Int
  PROVE  /\ Int8(n) \in -128..127 /\ (Int8(n) - n) % 256 = 0
         /\ n % 256 \in 0..255 /\ ((n % 256) - n) % 256 = 0
<1>1. Int8(n) \in -128..127 /\ n % 256 \in 0..255
  BY DEF Int8
<1>2. ((n % 256) - n) % 256 = 0
  OBVIOUS
<1>3. (Int8(n) - n) % 256 = 0
  BY DEF Int8
<1> QED  BY <1>1, <1>2, <1>3

LEMMA ConvertStands ==
  ASSUME NEW kind \in Plain, NEW raw, RawOK(raw), Convert(kind, raw) # Fails
  PROVE  Stands(kind, Convert(kind, raw).value, raw)
<1>0. kind \in {"int", "int8", "uint8", "text", "list"}
  BY DEF Plain
<1>1. CASE kind = "text"
  BY <1>1 DEF Convert, Stands, Ok
<1>2. CASE kind = "int"
  BY <1>2 DEF Convert, Stands, Ok
<1>3. CASE kind = "int8"
  <2>1. raw.is \in Numbers /\ Convert(kind, raw).value = Int8(raw.n)
    BY <1>3 DEF Convert, Ok
  <2>2. raw.n \in Int
    BY <2>1 DEF RawOK, Numbers
  <2> QED  BY <1>3, <2>1, <2>2, CutTo8Bits DEF Stands
<1>4. CASE kind = "uint8"
  <2>1. raw.is \in Numbers /\ raw.n >= 0 /\ Convert(kind, raw).value = raw.n % 256
    BY <1>4 DEF Convert, Ok
  <2>2. raw.n \in Int
    BY <2>1 DEF RawOK, Numbers
  <2> QED  BY <1>4, <2>1, <2>2, CutTo8Bits DEF Stands
<1>5. CASE kind = "list"
  <2>1. raw.is = "list" /\ Convert(kind, raw) = Ok([i \in DOMAIN raw.of |-> Element(raw.of[i]).value])
    BY <1>5 DEF Convert
  <2>2. raw.of \in Seq(ToSet(raw.of))
    BY <2>1 DEF RawOK, Numbers
  <2> DEFINE v == [i \in DOMAIN raw.of |-> Element(raw.of[i]).value]
  <2>3. Convert(kind, raw).value = v
    BY <2>1 DEF Ok
  <2>4. DOMAIN raw.of = 1..Len(raw.of) /\ Len(raw.of) \in Nat
    BY <2>2, LenProperties
  <2>5. DOMAIN v = 1..Len(raw.of)
    BY <2>4
  <2> HIDE DEF v
  <2>6. Len(v) = Len(raw.of)
    BY <2>4, <2>5
  <2> QED  BY <1>5, <2>3, <2>6 DEF Stands
<1> QED  BY <1>0, <1>1, <1>2, <1>3, <1>4, <1>5

-----------------------------------------------------------------------------
(* The calls of Bind under way.                                            *)

Metas == UNION {Listed(type) : type \in Tidy}

AnyFrame == [type : Tidy, base : Trails, data : Maps, fields : Seq(Metas)]

Advance(F) == [F EXCEPT !.fields = Tail(@)]

\* A call of Bind for a struct of the given type, bound to the data, or for
\* one in it.
FrameSound(F, type, vals) ==
    /\ F \in AnyFrame /\ F.fields \in Seq(Listed(F.type)) /\ Sorted(F.fields, Later(F.type))
    /\ \A x \in StructFields[F.type] :
          \E d \in StructFields[type] : Under(d, F.base) /\ Inner(d, Len(F.base)) = x
    /\ \A d \in StructFields[type] : Under(d, F.base) =>
          /\ Inner(d, Len(F.base)) \in StructFields[F.type]
          /\ d.field.kind \in Plain => Given[Inner(d, Len(F.base))][F.data] \subseteq Given[d][vals]

LEMMA MetasOfFrame ==
  ASSUME NEW type \in Tidy, NEW ms \in Seq(Listed(type))
  PROVE  ms \in Seq(Metas)
<1>1. Listed(type) \subseteq Metas
  BY DEF Metas
<1>2. Len(ms) \in Nat /\ ms \in [1..Len(ms) -> Listed(type)]
  BY LenProperties
<1> HIDE DEF Metas
<1>3. ms \in [1..Len(ms) -> Metas]
  BY <1>1, <1>2
<1> QED  BY <1>2, <1>3

LEMMA AdvanceFacts ==
  ASSUME NEW F \in AnyFrame
  PROVE  /\ Advance(F).type = F.type /\ Advance(F).base = F.base /\ Advance(F).data = F.data
         /\ Advance(F).fields = Tail(F.fields)
         /\ Advance(F) = [type |-> F.type, base |-> F.base, data |-> F.data, fields |-> Tail(F.fields)]
<1> DEFINE G == Advance(F)
           t == Tail(F.fields)
<1>1. DOMAIN F = {"type", "base", "data", "fields"}
  BY DEF AnyFrame
<1>2. G = [F EXCEPT !.fields = t]
  BY DEF Advance
<1> HIDE DEF G, t
<1>3. /\ DOMAIN G = {"type", "base", "data", "fields"}
      /\ G.type = F.type /\ G.base = F.base /\ G.data = F.data /\ G.fields = t
  BY <1>1, <1>2
<1>4. G = [a \in {"type", "base", "data", "fields"} |-> G[a]]
  BY <1>1, <1>2
<1>5. G = [type |-> F.type, base |-> F.base, data |-> F.data, fields |-> t]
  BY <1>3, <1>4
<1> QED  BY <1>3, <1>5 DEF G, t

LEMMA AdvanceSound ==
  ASSUME NEW F, NEW type, NEW vals, FrameSound(F, type, vals), F.fields # <<>>
  PROVE  FrameSound(Advance(F), type, vals)
<1>1. F \in AnyFrame /\ F.type \in Tidy /\ F.base \in Trails /\ F.data \in Maps
  BY DEF FrameSound, AnyFrame
<1>2. Tail(F.fields) \in Seq(Listed(F.type)) /\ Sorted(Tail(F.fields), Later(F.type))
  <2>1. F.fields \in Seq(Listed(F.type)) /\ Sorted(F.fields, Later(F.type))
    BY DEF FrameSound
  <2> QED  BY <1>1, <2>1, HeadListed
<1>3. Tail(F.fields) \in Seq(Metas)
  BY <1>1, <1>2, MetasOfFrame
<1> DEFINE t == Tail(F.fields)
           G == Advance(F)
<1>4. /\ G.type = F.type /\ G.base = F.base /\ G.data = F.data /\ G.fields = t
      /\ G = [type |-> F.type, base |-> F.base, data |-> F.data, fields |-> t]
  BY <1>1, AdvanceFacts
<1>5. t \in Seq(Metas) /\ t \in Seq(Listed(F.type)) /\ Sorted(t, Later(F.type))
  BY <1>2, <1>3
<1> HIDE DEF t, G
<1>6. G \in AnyFrame
  BY <1>1, <1>4, <1>5 DEF AnyFrame
<1> QED  BY <1>4, <1>5, <1>6 DEF FrameSound, G

\* The first call.
LEMMA FirstFrame ==
  ASSUME NEW type \in Tidy, NEW vals \in Maps
  PROVE  /\ FrameSound(Frame(type, <<>>, vals), type, vals)
         /\ Frame(type, <<>>, vals).type = type /\ Frame(type, <<>>, vals).base = <<>>
         /\ Frame(type, <<>>, vals).data = vals /\ Frame(type, <<>>, vals).fields = WalkFields[type]
<1> DEFINE F == Frame(type, <<>>, vals)
           none == <<>>
           W == WalkFields[type]
<1>1. F.type = type /\ F.base = none /\ F.data = vals /\ F.fields = W
  BY DEF Frame
<1>2. W \in Seq(Listed(type)) /\ Sorted(W, Later(type))
  BY TidyMetas DEF MetasOf
<1>3. \A d \in StructFields[type] : Under(d, none) /\ Inner(d, Len(none)) = d
  BY TidyLengths, UnderNothing
<1>4. none \in Trails
  BY DEF Trails
<1>5. W \in Seq(Metas)
  BY <1>2, MetasOfFrame
<1>6. F = [type |-> type, base |-> none, data |-> vals, fields |-> W]
  BY DEF Frame
<1> HIDE DEF F, none, W
<1>7. F \in AnyFrame
  BY <1>4, <1>5, <1>6 DEF AnyFrame
<1>8. FrameSound(F, type, vals)
  BY <1>1, <1>2, <1>3, <1>7 DEF FrameSound
<1> QED  BY <1>1, <1>8 DEF F, none, W

LEMMA StructsAreTidy ==
  ASSUME NEW type \in Tidy, NEW e \in StructFields[type], e.field.kind \in Structs
  PROVE  e.field.of \in Tidy
<1> DEFINE S == {t \in DOMAIN Types : t \in Tidy =>
                    \A d \in StructFields[t] : d.field.kind \in Structs => d.field.of \in Tidy}
<1>1. ASSUME NEW t \in DOMAIN Types, \A f \in ToSet(Types[t]) : f.kind \in Structs => f.of \in S
      PROVE  t \in S
  <2>1. ASSUME t \in Tidy, NEW d \in StructFields[t], d.field.kind \in Structs PROVE d.field.of \in Tidy
    <3>1. PICK i \in DOMAIN Types[t] :
             \/ d = Direct(t, i)
             \/ /\ Types[t][i].kind \in Structs
                /\ \E x \in StructFields[Types[t][i].of] : d = Inside(Types[t][i], i, x)
      BY FieldCases
    <3>2. CASE d = Direct(t, i)
      <4>1. d.field = Types[t][i]
        BY <3>2 DEF Direct
      <4> QED  BY <2>1, <4>1, TidyFields
    <3>3. ASSUME Types[t][i].kind \in Structs, NEW x \in StructFields[Types[t][i].of],
                 d = Inside(Types[t][i], i, x)
          PROVE  d.field.of \in Tidy
      <4>1. Types[t][i].of \in S /\ Types[t][i].of \in Tidy
        BY <1>1, <2>1, <3>3, FieldsOfType, TidyFields
      <4>2. d.field = x.field
        BY <3>3 DEF Inside
      <4> QED  BY <2>1, <4>1, <4>2
    <3> QED  BY <3>1, <3>2, <3>3
  <2> QED  BY <2>1
<1>2. S = DOMAIN Types
  <2>1. S \in SUBSET DOMAIN Types
    OBVIOUS
  <2> HIDE DEF S
  <2> QED  BY <1>1, <2>1, TypeInduction
<1>3. type \in DOMAIN Types
  BY DEF Tidy
<1> QED  BY <1>2, <1>3

\* A call for a struct of a frame's type, with the map that is given for it.
LEMMA NextFrame ==
  ASSUME NEW type \in Tidy, NEW vals, NEW F, FrameSound(F, type, vals),
         NEW y \in Seen(F.type), y.field.kind \in Structs,
         y.key \in DOMAIN F.data, F.data[y.key].is = "map"
  PROVE  FrameSound(Frame(y.field.of, F.base \o y.place, F.data[y.key].of), type, vals)
<1> DEFINE b == F.base
           s == y.place
           c == b \o s
           inner == y.field.of
           map == F.data[y.key].of
           W == WalkFields[inner]
           G == Frame(inner, c, map)
<1>1. F.type \in Tidy /\ b \in Trails /\ F.data \in Maps
  BY DEF FrameSound, AnyFrame
<1>2. y \in StructFields[F.type] /\ s \in Trails
  BY <1>1, SeenFields
<1>3. inner \in Tidy /\ map \in Maps
  <2>1. RawOK(F.data[y.key])
    BY <1>1, TypesOK
  <2>2. map \in Maps
    BY <2>1 DEF RawOK, Numbers
  <2> QED  BY <1>1, <1>2, <2>2, StructsAreTidy
<1>4. W \in Seq(Listed(inner)) /\ Sorted(W, Later(inner)) /\ W \in Seq(Metas)
  <2>1. W \in Seq(Listed(inner)) /\ Sorted(W, Later(inner))
    BY <1>3, TidyMetas DEF MetasOf
  <2> HIDE DEF W
  <2> QED  BY <1>3, <2>1, MetasOfFrame
<1>5. /\ G.type = inner /\ G.base = c /\ G.data = map /\ G.fields = W
      /\ G = [type |-> inner, base |-> c, data |-> map, fields |-> W]
  BY DEF Frame
<1>6. c \in Trails
  BY <1>1, <1>2, JoinFacts
<1>7. ASSUME NEW d \in StructFields[type]
      PROVE  /\ Under(d, c) <=> Under(d, b) /\ Under(Inner(d, Len(b)), s)
             /\ Under(d, c) => Inner(d, Len(c)) = Inner(Inner(d, Len(b)), Len(s))
  BY <1>1, <1>2, TidyLengths, UnderTwice
<1>8. ASSUME NEW x \in StructFields[inner]
      PROVE  \E d \in StructFields[type] : Under(d, c) /\ Inner(d, Len(c)) = x
  <2>1. PICK z \in StructFields[F.type] : HasInside(y, z, x)
    BY <1>1, <1>2, FieldsOfStructs
  <2>2. SameLengths(z)
    BY <1>1, TidyLengths
  <2>3. Under(z, s) /\ Inner(z, Len(s)) = x
    BY <2>1, <2>2 DEF HasInside, Under, SameLengths
  <2>4. PICK d \in StructFields[type] : Under(d, b) /\ Inner(d, Len(b)) = z
    BY DEF FrameSound
  <2> HIDE DEF b, s, c
  <2> QED  BY <1>7, <2>3, <2>4
<1>9. ASSUME NEW d \in StructFields[type], Under(d, c)
      PROVE  /\ Inner(d, Len(c)) \in StructFields[inner]
             /\ d.field.kind \in Plain => Given[Inner(d, Len(c))][map] \subseteq Given[d][vals]
  <2> DEFINE x == Inner(d, Len(b))
  <2>1. Under(d, b) /\ Under(x, s) /\ Inner(d, Len(c)) = Inner(x, Len(s))
    BY <1>7, <1>9
  <2>2. x \in StructFields[F.type] /\ (d.field.kind \in Plain => Given[x][F.data] \subseteq Given[d][vals])
    BY <2>1 DEF FrameSound
  <2>3. x.field = d.field
    BY DEF Inner
  <2> HIDE DEF x
  <2>4. Inner(x, Len(s)) \in StructFields[inner]
    BY <1>1, <1>2, <2>1, <2>2, UnderStruct DEF HoldsAt
  <2>5. ASSUME d.field.kind \in Plain PROVE Given[Inner(x, Len(s))][map] \subseteq Given[x][F.data]
    BY <1>1, <2>1, <2>2, <2>3, <2>5, EnterMap
  <2> QED  BY <2>1, <2>2, <2>4, <2>5
<1> HIDE DEF c, inner, map, W, G
<1>10. G \in AnyFrame
  BY <1>3, <1>4, <1>5, <1>6 DEF AnyFrame
<1>11. FrameSound(G, type, vals)
  BY <1>4, <1>5, <1>8, <1>9, <1>10 DEF FrameSound
<1> QED  BY <1>11 DEF G, c, inner, map

-----------------------------------------------------------------------------
(* What a call of Bind has still to give for a field.                      *)

Due(d, F) == IF Under(d, F.base) THEN ByList(Inner(d, Len(F.base)), F.data, F.fields) ELSE {}

\* The call F has the field x for d, and looks next at the field y.
LEMMA DueHead ==
  ASSUME NEW type \in Tidy, NEW vals, NEW F, FrameSound(F, type, vals), F.fields # <<>>,
         NEW d \in StructFields[type], Under(d, F.base), NEW x, x = Inner(d, Len(F.base))
  PROVE  /\ x \in StructFields[F.type] /\ x.field = d.field
         /\ Due(d, F) = IF Due(d, Advance(F)) # {} THEN Due(d, Advance(F)) ELSE By(x, F.data, Head(F.fields))
         /\ Due(d, Advance(F)) = ByList(x, F.data, Tail(F.fields))
<1>1. F \in AnyFrame /\ F.fields \in Seq(Listed(F.type)) /\ x \in StructFields[F.type]
  BY DEF FrameSound
<1>2. Advance(F).base = F.base /\ Advance(F).data = F.data /\ Advance(F).fields = Tail(F.fields)
  BY <1>1, AdvanceFacts
<1>3. Due(d, Advance(F)) = ByList(x, F.data, Tail(F.fields))
  BY <1>2 DEF Due
<1>4. Due(d, F) = ByList(x, F.data, F.fields)
  BY DEF Due
<1>5. ByList(x, F.data, F.fields) = IF ByList(x, F.data, Tail(F.fields)) # {} THEN ByList(x, F.data, Tail(F.fields))
                                    ELSE By(x, F.data, Head(F.fields))
  BY <1>1, ByTail
<1>6. x.field = d.field
  BY DEF Inner
<1> QED  BY <1>1, <1>3, <1>4, <1>5, <1>6

LEMMA DueElsewhere ==
  ASSUME NEW F \in AnyFrame, NEW d, ~Under(d, F.base)
  PROVE  Due(d, F) = {} /\ Due(d, Advance(F)) = {}
BY AdvanceFacts DEF Due

LEMMA DuePast ==
  ASSUME NEW type \in Tidy, NEW vals, NEW F, FrameSound(F, type, vals), F.fields # <<>>,
         NEW y \in Seen(F.type), Head(F.fields) = MetaOf(y), Own(y, F.data) = {},
         NEW d \in StructFields[type]
  PROVE  Due(d, Advance(F)) = Due(d, F)
<1>1. F \in AnyFrame /\ F.type \in Tidy
  BY DEF FrameSound, AnyFrame
<1>2. CASE Under(d, F.base)
  <2> DEFINE x == Inner(d, Len(F.base))
  <2>1. /\ x \in StructFields[F.type]
        /\ Due(d, F) = IF Due(d, Advance(F)) # {} THEN Due(d, Advance(F)) ELSE By(x, F.data, Head(F.fields))
    BY <1>2, DueHead
  <2> HIDE DEF x
  <2>2. By(x, F.data, Head(F.fields)) = {}
    BY <1>1, <2>1, PassOver
  <2> QED  BY <2>1, <2>2
<1> QED  BY <1>1, <1>2, DueElsewhere

LEMMA DueNotWritten ==
  ASSUME NEW type \in Tidy, NEW vals, NEW F, FrameSound(F, type, vals), F.fields # <<>>,
         NEW y \in Seen(F.type), Head(F.fields) = MetaOf(y), y.field.kind \in Plain,
         NEW d \in StructFields[type], d.place # F.base \o y.place
  PROVE  Due(d, Advance(F)) = Due(d, F)
<1>1. F \in AnyFrame /\ F.type \in Tidy /\ F.base \in Trails
  BY DEF FrameSound, AnyFrame
<1>2. CASE Under(d, F.base)
  <2> DEFINE x == Inner(d, Len(F.base))
  <2>1. /\ x \in StructFields[F.type]
        /\ Due(d, F) = IF Due(d, Advance(F)) # {} THEN Due(d, Advance(F)) ELSE By(x, F.data, Head(F.fields))
    BY <1>2, DueHead
  <2>2. d.place = F.base \o x.place
    BY <1>1, <1>2, TidyLengths, UnderFacts
  <2> HIDE DEF x
  <2>3. By(x, F.data, Head(F.fields)) = {}
    BY <1>1, <2>1, <2>2, WriteOther
  <2> QED  BY <2>1, <2>3
<1> QED  BY <1>1, <1>2, DueElsewhere

\* The field that the struct has at y in the call F.
HasAt(F, y, d) ==
    /\ Under(d, F.base) /\ Inner(d, Len(F.base)) = y
    /\ d.place = F.base \o y.place /\ d.field = y.field

LEMMA FieldInFrame ==
  ASSUME NEW type \in Tidy, NEW vals, NEW F, FrameSound(F, type, vals), NEW y \in Seen(F.type)
  PROVE  \E d \in StructFields[type] : HasAt(F, y, d)
<1>1. F.type \in Tidy /\ F.base \in Trails
  BY DEF FrameSound, AnyFrame
<1>2. y \in StructFields[F.type]
  BY <1>1, SeenFields
<1>3. PICK d \in StructFields[type] : Under(d, F.base) /\ Inner(d, Len(F.base)) = y
  BY <1>2 DEF FrameSound
<1>4. d.place = F.base \o y.place
  BY <1>1, <1>3, TidyLengths, UnderFacts
<1>5. d.field = y.field
  BY <1>3 DEF Inner
<1> QED  BY <1>3, <1>4, <1>5 DEF HasAt

LEMMA DueWritten ==
  ASSUME NEW type \in Tidy, NEW vals, NEW F, FrameSound(F, type, vals), F.fields # <<>>,
         NEW y \in Seen(F.type), Head(F.fields) = MetaOf(y),
         NEW d \in StructFields[type], HasAt(F, y, d)
  PROVE  Due(d, Advance(F)) = {} /\ Due(d, F) = Own(y, F.data)
<1>1. /\ F \in AnyFrame /\ F.type \in Tidy /\ F.fields \in Seq(Listed(F.type))
      /\ Sorted(F.fields, Later(F.type))
  BY DEF FrameSound, AnyFrame
<1>2. Under(d, F.base) /\ Inner(d, Len(F.base)) = y
  BY DEF HasAt
<1>3. /\ Due(d, F) = IF Due(d, Advance(F)) # {} THEN Due(d, Advance(F)) ELSE By(y, F.data, Head(F.fields))
      /\ Due(d, Advance(F)) = ByList(y, F.data, Tail(F.fields))
  BY <1>2, DueHead
<1>4. By(y, F.data, MetaOf(y)) = Own(y, F.data) /\ ByList(y, F.data, Tail(F.fields)) = {}
  BY <1>1, WriteThis
<1> QED  BY <1>3, <1>4

\* What the map of a struct was to give is what the call for it gives.
LEMMA DueEntered ==
  ASSUME NEW type \in Tidy, NEW vals, NEW F, FrameSound(F, type, vals), F.fields # <<>>,
         NEW y \in Seen(F.type), Head(F.fields) = MetaOf(y), y.field.kind \in Structs,
         y.key \in DOMAIN F.data, F.data[y.key].is = "map",
         NEW d \in StructFields[type], d.field.kind \in Plain,
         NEW G, G = Frame(y.field.of, F.base \o y.place, F.data[y.key].of)
  PROVE  Due(d, F) = IF Due(d, Advance(F)) # {} THEN Due(d, Advance(F)) ELSE Due(d, G)
<1>1. F \in AnyFrame /\ F.type \in Tidy /\ F.base \in Trails /\ F.data \in Maps
  BY DEF FrameSound, AnyFrame
<1>2. y \in StructFields[F.type] /\ y.place \in Trails
  BY <1>1, SeenFields
<1>3. /\ G.base = F.base \o y.place /\ G.data = F.data[y.key].of
      /\ G.fields = WalkFields[y.field.of]
  BY DEF Frame
<1>4. SameLengths(d)
  BY TidyLengths
<1> DEFINE x == Inner(d, Len(F.base))
<1>5. /\ Under(d, G.base) <=> Under(d, F.base) /\ Under(x, y.place)
      /\ Under(d, G.base) => Inner(d, Len(G.base)) = Inner(x, Len(y.place))
  <2> DEFINE b == F.base
             s == y.place
  <2>1. b \in Trails /\ s \in Trails /\ G.base = b \o s
    BY <1>1, <1>2, <1>3
  <2> HIDE DEF b, s
  <2>2. /\ Under(d, b \o s) <=> Under(d, b) /\ Under(Inner(d, Len(b)), s)
        /\ Under(d, b \o s) => Inner(d, Len(b \o s)) = Inner(Inner(d, Len(b)), Len(s))
    BY <1>4, <2>1, UnderTwice
  <2> QED  BY <2>1, <2>2 DEF b, s
<1>6. CASE ~Under(d, F.base)
  <2>1. Due(d, G) = {}
    BY <1>5, <1>6 DEF Due
  <2> QED  BY <1>1, <1>6, <2>1, DueElsewhere
<1>7. CASE Under(d, F.base)
  <2>1. /\ x \in StructFields[F.type] /\ x.field = d.field
        /\ Due(d, F) = IF Due(d, Advance(F)) # {} THEN Due(d, Advance(F)) ELSE By(x, F.data, Head(F.fields))
    BY <1>7, DueHead
  <2> HIDE DEF x
  <2>2. CASE Under(x, y.place)
    <3> DEFINE z == Inner(x, Len(y.place))
    <3>1. /\ F.data[y.key].of \in Maps /\ y.field.of \in Tidy
          /\ z \in StructFields[y.field.of] /\ z.field = x.field
          /\ By(x, F.data, MetaOf(y)) = Meant[z][F.data[y.key].of]
      BY <1>1, <2>1, <2>2, EnterMap
    <3>2. Due(d, G) = ByList(z, G.data, G.fields)
      BY <1>5, <1>7, <2>2 DEF Due
    <3> HIDE DEF z
    <3>3. ByList(z, G.data, G.fields) = Meant[z][F.data[y.key].of]
      BY <1>3, <2>1, <3>1, ListIsMeant
    <3> QED  BY <2>1, <3>1, <3>2, <3>3
  <2>3. CASE ~Under(x, y.place)
    <3>1. Due(d, G) = {}
      BY <1>5, <2>3 DEF Due
    <3>2. x # y
      BY <2>1 DEF Plain, Structs
    <3>3. By(x, F.data, MetaOf(y)) = {}
      BY <1>1, <2>1, <2>3, <3>2, ByField
    <3> QED  BY <2>1, <3>1, <3>3
  <2> QED  BY <2>2, <2>3
<1> QED  BY <1>6, <1>7

-----------------------------------------------------------------------------
(* The list of the calls.                                                  *)

FramesSound(fs, type, vals) ==
    fs \in Seq(AnyFrame) /\ fs # <<>> /\ \A j \in DOMAIN fs : FrameSound(fs[j], type, vals)

AdvanceLast(fs) == [fs EXCEPT ![Len(fs)].fields = Tail(@)]

LEMMA AdvanceLastFacts ==
  ASSUME NEW fs \in Seq(AnyFrame), fs # <<>>
  PROVE  /\ Len(fs) \in Nat /\ 1 <= Len(fs) /\ DOMAIN fs = 1..Len(fs) /\ Len(fs) \in DOMAIN fs
         /\ Last(fs) = fs[Len(fs)]
         /\ DOMAIN AdvanceLast(fs) = 1..Len(fs)
         /\ AdvanceLast(fs)[Len(fs)] = Advance(Last(fs))
         /\ \A j \in DOMAIN fs : j # Len(fs) => AdvanceLast(fs)[j] = fs[j]
<1> DEFINE n == Len(fs)
           gs == AdvanceLast(fs)
<1>1. n \in Nat /\ n # 0 /\ DOMAIN fs = 1..n /\ Last(fs) = fs[n]
  BY EmptySeq, LenProperties DEF Last
<1>2. n \in DOMAIN fs /\ 1 <= n
  BY <1>1
<1>3. gs = [fs EXCEPT ![n] = Advance(fs[n])]
  BY <1>2 DEF AdvanceLast, Advance
<1> HIDE DEF gs, n
<1>4. DOMAIN gs = DOMAIN fs /\ gs[n] = Advance(fs[n]) /\ \A j \in DOMAIN fs : j # n => gs[j] = fs[j]
  BY <1>2, <1>3
<1> QED  BY <1>1, <1>2, <1>4 DEF gs, n

LEMMA FramesAdvance ==
  ASSUME NEW type, NEW vals, NEW fs, FramesSound(fs, type, vals), Last(fs).fields # <<>>
  PROVE  FramesSound(AdvanceLast(fs), type, vals)
<1> DEFINE n == Len(fs)
           gs == AdvanceLast(fs)
<1>1. fs \in Seq(AnyFrame) /\ fs # <<>> /\ \A j \in DOMAIN fs : FrameSound(fs[j], type, vals)
  BY DEF FramesSound
<1>2. /\ n \in Nat /\ 1 <= n /\ DOMAIN fs = 1..n /\ n \in DOMAIN fs /\ Last(fs) = fs[n]
      /\ DOMAIN gs = 1..n /\ gs[n] = Advance(Last(fs)) /\ \A j \in DOMAIN fs : j # n => gs[j] = fs[j]
  BY <1>1, AdvanceLastFacts
<1>3. FrameSound(Advance(Last(fs)), type, vals)
  BY <1>1, <1>2, AdvanceSound
<1>4. gs = [j \in 1..n |-> gs[j]]
  BY <1>1, <1>2 DEF AdvanceLast
<1> HIDE DEF gs, n
<1>5. \A j \in 1..n : FrameSound(gs[j], type, vals)
  BY <1>1, <1>2, <1>3
<1>6. \A j \in 1..n : gs[j] \in AnyFrame
  BY <1>5 DEF FrameSound
<1>7. gs \in [1..n -> AnyFrame]
  BY <1>4, <1>6
<1>8. gs \in Seq(AnyFrame)
  BY <1>2, <1>7
<1>9. gs # <<>>
  BY <1>2
<1> QED  BY <1>2, <1>5, <1>8, <1>9 DEF FramesSound, gs

Pushed(fs, G) == Append(fs, G)

\* The calls gs are the n calls fs and then G.
IsPushed(gs, fs, n, G) == DOMAIN gs = 1..(n + 1) /\ gs[n + 1] = G /\ \A j \in 1..n : gs[j] = fs[j]

LEMMA FramesPushed ==
  ASSUME NEW type, NEW vals, NEW fs, FramesSound(fs, type, vals), NEW G, FrameSound(G, type, vals)
  PROVE  FramesSound(Pushed(fs, G), type, vals) /\ IsPushed(Pushed(fs, G), fs, Len(fs), G)
<1> DEFINE n == Len(fs)
           gs == Pushed(fs, G)
           l == n + 1
<1>1. fs \in Seq(AnyFrame) /\ fs # <<>> /\ \A j \in DOMAIN fs : FrameSound(fs[j], type, vals)
  BY DEF FramesSound
<1>2. G \in AnyFrame
  BY DEF FrameSound
<1>3. n \in Nat /\ DOMAIN fs = 1..n
  BY <1>1, LenProperties
<1>4. gs \in Seq(AnyFrame) /\ Len(gs) = l /\ gs[l] = G /\ \A j \in 1..n : gs[j] = fs[j]
  BY <1>1, <1>2, AppendProperties DEF Pushed
<1>5. DOMAIN gs = 1..l /\ gs # <<>>
  <2> HIDE DEF gs
  <2> QED  BY <1>3, <1>4, LenProperties, EmptySeq
<1>6. \A j \in 1..l : j = l \/ j \in 1..n
  BY <1>3
<1>8. IsPushed(gs, fs, n, G)
  BY <1>4, <1>5 DEF IsPushed
<1> HIDE DEF gs, n, l
<1>7. \A j \in DOMAIN gs : FrameSound(gs[j], type, vals)
  BY <1>1, <1>3, <1>4, <1>5, <1>6
<1>9. FramesSound(gs, type, vals)
  BY <1>4, <1>5, <1>7 DEF FramesSound
<1> QED  BY <1>8, <1>9 DEF gs, n

LEMMA FramesPopped ==
  ASSUME NEW type, NEW vals, NEW fs, FramesSound(fs, type, vals), NEW n, n = Len(fs), n > 1,
         NEW gs, gs = Front(fs)
  PROVE  /\ FramesSound(gs, type, vals) /\ n \in Nat /\ DOMAIN fs = 1..n /\ DOMAIN gs = 1..(n - 1)
         /\ \A j \in 1..(n - 1) : gs[j] = fs[j]
<1>1. fs \in Seq(AnyFrame) /\ fs # <<>> /\ \A j \in DOMAIN fs : FrameSound(fs[j], type, vals)
  BY DEF FramesSound
<1>2. n \in Nat /\ DOMAIN fs = 1..n /\ n > 1
  BY <1>1, LenProperties
<1>3. gs \in Seq(AnyFrame) /\ Len(gs) = n - 1 /\ \A j \in 1..(n - 1) : gs[j] = fs[j]
  <2>1. gs = SubSeq(fs, 1, n - 1)
    BY DEF Front
  <2>2. n - 1 \in Nat
    BY <1>2
  <2>3. gs = [j \in 1..(n - 1) |-> fs[j]]
    BY <1>1, <1>2, <2>1
  <2>4. \A j \in 1..(n - 1) : j \in 1..n /\ fs[j] \in AnyFrame
    <3>1. \A j \in 1..(n - 1) : j \in 1..n
      BY <1>2
    <3> QED  BY <1>1, <1>2, <3>1 DEF FrameSound
  <2>5. gs \in [1..(n - 1) -> AnyFrame]
    BY <2>3, <2>4
  <2> QED  BY <2>2, <2>3, <2>5
<1>4. DOMAIN gs = 1..(n - 1) /\ gs # <<>>
  BY <1>2, <1>3, LenProperties, EmptySeq
<1>5. \A j \in DOMAIN gs : j \in DOMAIN fs /\ gs[j] = fs[j]
  BY <1>2, <1>3, <1>4
<1>6. FramesSound(gs, type, vals)
  BY <1>1, <1>3, <1>4, <1>5 DEF FramesSound
<1> QED  BY <1>2, <1>3, <1>4, <1>6

-----------------------------------------------------------------------------
(* Each field: what is meant for it is still due, in the outermost of the  *)
(* calls that have something for it, or it has been written.               *)

NothingDue(d, fs) == \A j \in DOMAIN fs : Due(d, fs[j]) = {}

Pending(d, fs, meant) ==
    \E i \in DOMAIN fs : Due(d, fs[i]) = meant /\ \A j \in DOMAIN fs : j < i => Due(d, fs[j]) = {}

WrittenTo(d, written, meant) ==
    IF meant = {} THEN d.place \notin DOMAIN written
    ELSE d.place \in DOMAIN written /\ \A raw \in meant : Stands(d.field.kind, written[d.place], raw)

Settled(d, fs, written, meant) ==
    \/ meant # {} /\ Pending(d, fs, meant)
    \/ NothingDue(d, fs) /\ WrittenTo(d, written, meant)

LEMMA SettledSame ==
  ASSUME NEW d, NEW fs, NEW gs, NEW v, NEW w, NEW meant, Settled(d, fs, v, meant),
         DOMAIN gs = DOMAIN fs, \A j \in DOMAIN fs : Due(d, gs[j]) = Due(d, fs[j]),
         WrittenTo(d, v, meant) => WrittenTo(d, w, meant)
  PROVE  Settled(d, gs, w, meant)
<1>1. CASE meant # {} /\ Pending(d, fs, meant)
  BY <1>1 DEF Settled, Pending
<1>2. CASE NothingDue(d, fs) /\ WrittenTo(d, v, meant)
  BY <1>2 DEF Settled, NothingDue
<1> QED  BY <1>1, <1>2 DEF Settled

\* The last call writes the field.
LEMMA SettledWritten ==
  ASSUME NEW d, NEW fs, NEW gs, NEW v, NEW w, NEW meant, Settled(d, fs, v, meant),
         NEW n \in Nat, DOMAIN fs = 1..n, DOMAIN gs = 1..n, n \in DOMAIN fs,
         \A j \in 1..n : j # n => Due(d, gs[j]) = Due(d, fs[j]),
         Due(d, fs[n]) # {}, Due(d, gs[n]) = {},
         Due(d, fs[n]) = meant => WrittenTo(d, w, meant)
  PROVE  Settled(d, gs, w, meant)
<1>1. meant # {} /\ Pending(d, fs, meant)
  BY DEF Settled, NothingDue
<1>2. PICK i \in DOMAIN fs : Due(d, fs[i]) = meant /\ \A j \in DOMAIN fs : j < i => Due(d, fs[j]) = {}
  BY <1>1 DEF Pending
<1>3. CASE i = n
  <2>1. \A j \in 1..n : j # n => j < n
    OBVIOUS
  <2>2. NothingDue(d, gs)
    BY <1>2, <1>3, <2>1 DEF NothingDue
  <2> QED  BY <1>2, <1>3, <2>2 DEF Settled
<1>4. CASE i # n
  <2>1. \A j \in 1..n : j < i => j # n
    BY <1>2
  <2>2. Pending(d, gs, meant)
    BY <1>2, <1>4, <2>1 DEF Pending
  <2> QED  BY <1>1, <2>2 DEF Settled
<1> QED  BY <1>3, <1>4

\* The last call makes another, for a struct.
LEMMA SettledPushed ==
  ASSUME NEW d, NEW fs, NEW gs, NEW v, NEW meant, Settled(d, fs, v, meant),
         NEW n \in Nat, DOMAIN fs = 1..n, n \in DOMAIN fs, NEW l, l = n + 1, DOMAIN gs = 1..l,
         \A j \in 1..n : j # n => Due(d, gs[j]) = Due(d, fs[j]),
         Due(d, fs[n]) = IF Due(d, gs[n]) # {} THEN Due(d, gs[n]) ELSE Due(d, gs[l])
  PROVE  Settled(d, gs, v, meant)
<1>0. l \in 1..l /\ (\A j \in 1..n : j \in 1..l /\ j < l) /\ \A j \in 1..l : j \in 1..n \/ j = l
  OBVIOUS
<1>1. CASE meant # {} /\ Pending(d, fs, meant)
  <2>1. PICK i \in DOMAIN fs : Due(d, fs[i]) = meant /\ \A j \in DOMAIN fs : j < i => Due(d, fs[j]) = {}
    BY <1>1 DEF Pending
  <2>2. \A j \in 1..n : j < i => j # n
    BY <2>1
  <2>3. CASE i # n \/ Due(d, gs[n]) # {}
    <3>1. Due(d, gs[i]) = meant
      BY <2>1, <2>3
    <3>2. \A j \in 1..l : j < i => j \in 1..n
      BY <2>1
    <3>3. Pending(d, gs, meant)
      BY <1>0, <2>1, <2>2, <3>1, <3>2 DEF Pending
    <3> QED  BY <1>1, <3>3 DEF Settled
  <2>4. CASE i = n /\ Due(d, gs[n]) = {}
    <3>1. Due(d, gs[l]) = meant
      BY <2>1, <2>4
    <3>2. \A j \in 1..l : j < l => j \in 1..n
      OBVIOUS
    <3>3. \A j \in 1..n : j = n \/ j < n
      OBVIOUS
    <3>4. \A j \in 1..l : j < l => Due(d, gs[j]) = {}
      BY <2>1, <2>4, <3>2, <3>3
    <3>5. Pending(d, gs, meant)
      BY <1>0, <3>1, <3>4 DEF Pending
    <3> QED  BY <1>1, <3>5 DEF Settled
  <2> QED  BY <2>3, <2>4
<1>2. CASE NothingDue(d, fs) /\ WrittenTo(d, v, meant)
  <2>1. Due(d, gs[n]) = {} /\ Due(d, gs[l]) = {}
    BY <1>2 DEF NothingDue
  <2>2. NothingDue(d, gs)
    BY <1>0, <1>2, <2>1 DEF NothingDue
  <2> QED  BY <1>2, <2>2 DEF Settled
<1> QED  BY <1>1, <1>2 DEF Settled

\* The last call returns, with nothing due.
LEMMA SettledPopped ==
  ASSUME NEW d, NEW fs, NEW gs, NEW v, NEW meant, Settled(d, fs, v, meant),
         NEW n \in Nat, DOMAIN fs = 1..n, DOMAIN gs = 1..(n - 1), n > 1,
         \A j \in 1..(n - 1) : gs[j] = fs[j], Due(d, fs[n]) = {}
  PROVE  Settled(d, gs, v, meant)
<1>0. (\A j \in 1..(n - 1) : j \in 1..n) /\ \A j \in 1..n : j \in 1..(n - 1) \/ j = n
  OBVIOUS
<1>1. CASE meant # {} /\ Pending(d, fs, meant)
  <2>1. PICK i \in DOMAIN fs : Due(d, fs[i]) = meant /\ \A j \in DOMAIN fs : j < i => Due(d, fs[j]) = {}
    BY <1>1 DEF Pending
  <2>2. i \in 1..(n - 1)
    BY <1>0, <1>1, <2>1
  <2>3. Pending(d, gs, meant)
    BY <1>0, <2>1, <2>2 DEF Pending
  <2> QED  BY <1>1, <2>3 DEF Settled
<1>2. CASE NothingDue(d, fs) /\ WrittenTo(d, v, meant)
  BY <1>0, <1>2 DEF Settled, NothingDue
<1> QED  BY <1>1, <1>2 DEF Settled

-----------------------------------------------------------------------------
(* The invariant of Bind: each call is for a struct of the target with the *)
(* map that is given for it, each field is settled, what has been written  *)
(* stands for something that is given, and what is asked for and not given *)
(* has not been passed.                                                    *)

Declared(type) == {d \in StructFields[type] : d.field.kind \in Plain}

GivenFor(type, vals, p, v) ==
    \E d \in Declared(type) : d.place = p /\ \E raw \in Given[d][vals] : Stands(d.field.kind, v, raw)

Asked(type, vals, F) ==
    /\ F.type = type /\ F.data = vals
    /\ \A e \in Seen(type) : e.field.required /\ Own(e, vals) = {} => MetaOf(e) \in ToSet(F.fields)

CallsSound(type, vals, fs, w) ==
    /\ type \in Tidy /\ vals \in Maps /\ FramesSound(fs, type, vals)
    /\ \A d \in Declared(type) : Settled(d, fs, w, Meant[d][vals])
    /\ \A p \in DOMAIN w : GivenFor(type, vals, p, w[p])
    /\ Asked(type, vals, fs[1])

\* The field that the last call looks at.
LEMMA FieldAtHand ==
  ASSUME NEW type, NEW vals, NEW fs, NEW w, CallsSound(type, vals, fs, w), Last(fs).fields # <<>>
  PROVE  \E y \in Seen(Last(fs).type) :
            /\ Head(Last(fs).fields) = MetaOf(y) /\ MetaOf(y).index = y.place
            /\ FieldAt(Last(fs).type, y.place) = {y.field}
            /\ Chosen(Last(fs), MetaOf(y)) = Own(y, Last(fs).data)
<1> DEFINE F == Last(fs)
<1>1. FramesSound(fs, type, vals) /\ fs \in Seq(AnyFrame) /\ fs # <<>>
  BY DEF CallsSound, FramesSound
<1>2. FrameSound(F, type, vals)
  BY <1>1, AdvanceLastFacts DEF FramesSound
<1>3. F.type \in Tidy /\ F.fields \in Seq(Listed(F.type)) /\ Sorted(F.fields, Later(F.type))
  BY <1>2 DEF FrameSound, AnyFrame
<1> HIDE DEF F
<1>4. F.fields # <<>>
  BY DEF F
<1>5. PICK y \in Seen(F.type) : Head(F.fields) = MetaOf(y)
  BY <1>3, <1>4, HeadListed
<1>6. FieldAt(F.type, MetaOf(y).index) = {y.field} /\ MetaOf(y).index = y.place
  BY <1>3, FieldFound, SeenFields
<1>7. Own(y, F.data) = IF y.key \in DOMAIN F.data THEN {F.data[y.key]} ELSE y.field.default
  BY <1>3, OwnOfSeen
<1>8. MetaOf(y).key = y.key /\ MetaOf(y).default = y.field.default
  BY DEF MetaOf
<1>9. Chosen(F, MetaOf(y)) = Own(y, F.data)
  BY <1>7, <1>8 DEF Chosen
<1> QED  BY <1>5, <1>6, <1>9 DEF F

LEMMA AskedAfter ==
  ASSUME NEW type \in Tidy, NEW vals, NEW fs, FramesSound(fs, type, vals), Asked(type, vals, fs[1]),
         Last(fs).fields # <<>>, NEW y \in Seen(Last(fs).type), Head(Last(fs).fields) = MetaOf(y),
         Own(y, Last(fs).data) # {} \/ ~y.field.required
  PROVE  Asked(type, vals, AdvanceLast(fs)[1])
<1> DEFINE F == Last(fs)
           n == Len(fs)
           gs == AdvanceLast(fs)
           t == Tail(F.fields)
<1>1. fs \in Seq(AnyFrame) /\ fs # <<>>
  BY DEF FramesSound
<1>2. /\ n \in Nat /\ 1 <= n /\ DOMAIN fs = 1..n /\ n \in DOMAIN fs /\ F = fs[n] /\ gs[n] = Advance(F)
      /\ \A j \in DOMAIN fs : j # n => gs[j] = fs[j]
  BY <1>1, AdvanceLastFacts
<1>3. CASE n # 1
  <2>1. 1 \in DOMAIN fs
    BY <1>2
  <2> QED  BY <1>2, <1>3, <2>1
<1>4. CASE n = 1
  <2>1. F \in AnyFrame /\ F.type = type /\ F.data = vals /\ F.fields \in Seq(Metas)
    BY <1>2, <1>4 DEF FramesSound, FrameSound, AnyFrame, Asked
  <2>2. Advance(F).type = type /\ Advance(F).data = vals /\ Advance(F).fields = t
    BY <2>1, AdvanceFacts
  <2>3. ToSet(F.fields) \subseteq {Head(F.fields)} \cup ToSet(t)
    <3> DEFINE ms == F.fields
    <3>1. ms \in Seq(Metas) /\ ms # <<>> /\ t = Tail(ms)
      BY <2>1
    <3> HIDE DEF ms, t
    <3>2. Len(ms) \in Nat /\ DOMAIN ms = 1..Len(ms) /\ Head(ms) = ms[1]
      BY <3>1, LenProperties
    <3>3. t \in Seq(Metas) /\ Len(t) = Len(ms) - 1 /\ \A i \in 1..(Len(ms) - 1) : t[i] = ms[i + 1]
      BY <3>1, HeadTailProperties
    <3>4. DOMAIN t = 1..(Len(ms) - 1)
      BY <3>3, LenProperties
    <3>5. ASSUME NEW i \in DOMAIN ms PROVE ms[i] = Head(ms) \/ ms[i] \in ToSet(t)
      <4>1. CASE i = 1
        BY <3>2, <4>1
      <4>2. CASE i # 1
        <5> DEFINE k == i - 1
        <5>1. k \in DOMAIN t /\ k + 1 = i
          BY <3>2, <3>4, <4>2
        <5> HIDE DEF k
        <5>2. t[k] = ms[i]
          BY <3>3, <3>4, <5>1
        <5> QED  BY <5>1, <5>2 DEF ToSet
      <4> QED  BY <4>1, <4>2
    <3>6. ToSet(ms) \subseteq {Head(ms)} \cup ToSet(t)
      BY <3>5 DEF ToSet
    <3> QED  BY <3>6 DEF ms
  <2> HIDE DEF F, gs, n, t
  <2>4. ASSUME NEW e \in Seen(type), e.field.required, Own(e, vals) = {} PROVE MetaOf(e) \in ToSet(t)
    <3>1. MetaOf(e) \in ToSet(F.fields)
      BY <1>2, <1>4, <2>4 DEF Asked
    <3>2. y \in Seen(type) /\ Head(F.fields) = MetaOf(y)
      BY <2>1 DEF F
    <3>3. MetaOf(e) = MetaOf(y) => e = y
      <4>1. /\ MetaOf(e).index = e.place /\ MetaOf(y).index = y.place
            /\ e \in StructFields[type] /\ y \in StructFields[type]
        BY <3>2, SeenFields
      <4> QED  BY <4>1, PlacesDiffer
    <3>4. Own(y, vals) # {} \/ ~y.field.required
      BY <2>1 DEF F
    <3> QED  BY <2>3, <2>4, <3>1, <3>2, <3>3, <3>4
  <2>5. gs[1] = Advance(F)
    BY <1>2, <1>4
  <2> QED  BY <2>2, <2>4, <2>5 DEF Asked, gs
<1> QED  BY <1>3, <1>4

\* What the frames are after a step of the last of them.
LEMMA FramesAfter ==
  ASSUME NEW type, NEW vals, NEW fs, FramesSound(fs, type, vals), Last(fs).fields # <<>>
  PROVE  LET n  == Len(fs)
             gs == AdvanceLast(fs)
         IN  /\ n \in Nat /\ 1 <= n /\ DOMAIN fs = 1..n /\ DOMAIN gs = 1..n /\ n \in DOMAIN fs
             /\ Last(fs) = fs[n] /\ gs[n] = Advance(fs[n]) /\ \A j \in 1..n : j # n => gs[j] = fs[j]
             /\ FrameSound(fs[n], type, vals) /\ FramesSound(gs, type, vals)
<1>1. fs \in Seq(AnyFrame) /\ fs # <<>> /\ \A j \in DOMAIN fs : FrameSound(fs[j], type, vals)
  BY DEF FramesSound
<1> QED  BY <1>1, AdvanceLastFacts, FramesAdvance

LEMMA PassStep ==
  ASSUME NEW type, NEW vals, NEW fs, NEW w, CallsSound(type, vals, fs, w), Last(fs).fields # <<>>,
         NEW y \in Seen(Last(fs).type), Head(Last(fs).fields) = MetaOf(y),
         Own(y, Last(fs).data) = {}, ~y.field.required
  PROVE  CallsSound(type, vals, AdvanceLast(fs), w)
<1> DEFINE n == Len(fs)
           gs == AdvanceLast(fs)
<1>1. type \in Tidy /\ FramesSound(fs, type, vals)
  BY DEF CallsSound
<1>2. /\ n \in Nat /\ 1 <= n /\ DOMAIN fs = 1..n /\ DOMAIN gs = 1..n /\ n \in DOMAIN fs
      /\ Last(fs) = fs[n] /\ gs[n] = Advance(fs[n]) /\ \A j \in 1..n : j # n => gs[j] = fs[j]
      /\ FrameSound(fs[n], type, vals) /\ FramesSound(gs, type, vals)
  BY <1>1, FramesAfter
<1>3. Asked(type, vals, gs[1])
  BY <1>1, AskedAfter DEF CallsSound
<1> HIDE DEF gs, n
<1>4. ASSUME NEW d \in Declared(type) PROVE Settled(d, gs, w, Meant[d][vals])
  <2>1. d \in StructFields[type]
    BY DEF Declared
  <2>2. Due(d, gs[n]) = Due(d, fs[n])
    BY <1>1, <1>2, <2>1, DuePast
  <2>3. Settled(d, fs, w, Meant[d][vals])
    BY DEF CallsSound
  <2> QED  BY <1>2, <2>2, <2>3, SettledSame
<1> QED  BY <1>2, <1>3, <1>4 DEF CallsSound, gs


\* What a field has of its own: one raw value at most.
LEMMA OwnRaw ==
  ASSUME NEW type \in Tidy, NEW y \in Seen(type), NEW vals \in Maps, NEW raw \in Own(y, vals)
  PROVE  /\ Own(y, vals) = {raw} /\ RawOK(raw)
         /\ raw.is = "map" => y.key \in DOMAIN vals /\ raw = vals[y.key]
         /\ raw \in Given[y][vals]
         /\ y.field.kind \in Structs \cup Plain
<1>1. y \in StructFields[type]
  BY SeenFields
<1>2. y.field \in Tags
  BY <1>1, FieldsTyped DEF AnyField, Tidy
<1>3. FieldOK(y.field)
  BY <1>2, TypesOK DEF Tags
<1>4. Own(y, vals) = IF y.key \in DOMAIN vals THEN {vals[y.key]} ELSE y.field.default
  BY OwnOfSeen
<1>5. Given[y][vals] = GivenStep(Given, y, vals)
  BY <1>1, GivenAre DEF Fields, Tidy
<1>6. raw \in Given[y][vals]
  BY <1>5 DEF GivenStep
<1>7. y.field.kind \in Structs \cup Plain
  BY <1>3 DEF FieldOK, Seen
<1>8. CASE y.key \in DOMAIN vals
  <2>1. RawOK(vals[y.key])
    BY <1>8, TypesOK
  <2> QED  BY <1>4, <1>6, <1>7, <1>8, <2>1
<1>9. CASE y.key \notin DOMAIN vals
  <2>1. raw \in y.field.default
    BY <1>4, <1>9
  <2>2. PICK r \in y.field.default : y.field.default = {r} /\ r.is \in {"digits", "word"} /\ RawOK(r)
    BY <1>3, <2>1 DEF FieldOK
  <2>3. raw = r
    BY <2>1, <2>2
  <2> QED  BY <1>4, <1>6, <1>7, <1>9, <2>2, <2>3
<1> QED  BY <1>8, <1>9

Filled(w, place, v) == [p \in DOMAIN w \cup {place} |-> IF p = place THEN v ELSE w[p]]

LEMMA WriteStep ==
  ASSUME NEW type, NEW vals, NEW fs, NEW w, CallsSound(type, vals, fs, w), Last(fs).fields # <<>>,
         NEW y \in Seen(Last(fs).type), Head(Last(fs).fields) = MetaOf(y),
         NEW raw \in Own(y, Last(fs).data), y.field.kind \notin Structs,
         Convert(y.field.kind, raw) # Fails,
         NEW place, place = Last(fs).base \o y.place,
         NEW written, written = Filled(w, place, Convert(y.field.kind, raw).value)
  PROVE  CallsSound(type, vals, AdvanceLast(fs), written)
<1> DEFINE n == Len(fs)
           gs == AdvanceLast(fs)
           v == Convert(y.field.kind, raw).value
           F == fs[n]
<1>1. type \in Tidy /\ vals \in Maps /\ FramesSound(fs, type, vals)
  BY DEF CallsSound
<1>2. /\ n \in Nat /\ 1 <= n /\ DOMAIN fs = 1..n /\ DOMAIN gs = 1..n /\ n \in DOMAIN fs
      /\ Last(fs) = F /\ gs[n] = Advance(F) /\ \A j \in 1..n : j # n => gs[j] = fs[j]
      /\ FrameSound(F, type, vals) /\ FramesSound(gs, type, vals)
  BY <1>1, FramesAfter
<1>3. Asked(type, vals, gs[1])
  BY <1>1, AskedAfter DEF CallsSound
<1>4. F.type \in Tidy /\ F.data \in Maps
  BY <1>2 DEF FrameSound, AnyFrame
<1>5. written = [p \in DOMAIN w \cup {place} |-> IF p = place THEN v ELSE w[p]]
  BY DEF Filled
<1> HIDE DEF gs, n, v, F
<1>6. /\ y \in Seen(F.type) /\ Head(F.fields) = MetaOf(y) /\ F.fields # <<>> /\ place = F.base \o y.place
      /\ raw \in Own(y, F.data)
  BY <1>2
<1>7. /\ Own(y, F.data) = {raw} /\ RawOK(raw) /\ raw \in Given[y][F.data] /\ y.field.kind \in Plain
  BY <1>4, <1>6, OwnRaw
<1>8. Stands(y.field.kind, v, raw)
  BY <1>7, ConvertStands DEF v
<1>0. PICK b \in StructFields[type] : HasAt(F, y, b)
  BY <1>1, <1>2, <1>6, FieldInFrame
<1>9. Under(b, F.base) /\ Inner(b, Len(F.base)) = y /\ b.place = place /\ b.field = y.field
  BY <1>0, <1>6 DEF HasAt
<1>10. b \in Declared(type)
  BY <1>7, <1>9 DEF Declared
<1>11. raw \in Given[b][vals]
  BY <1>2, <1>7, <1>9 DEF FrameSound
<1>12. /\ DOMAIN written = DOMAIN w \cup {place} /\ written[place] = v
       /\ \A p \in DOMAIN w : p # place => written[p] = w[p]
  BY <1>5
<1> HIDE DEF CallsSound
<1>13. ASSUME NEW d \in Declared(type) PROVE Settled(d, gs, written, Meant[d][vals])
  <2>1. d \in StructFields[type] /\ Settled(d, fs, w, Meant[d][vals])
    BY DEF Declared, CallsSound
  <2> DEFINE meant == Meant[d][vals]
  <2>2. CASE d.place = place
    <3>1. d = b
      BY <1>1, <1>9, <2>1, <2>2, PlacesDiffer
    <3>2. Due(d, Advance(F)) = {} /\ Due(d, F) = Own(y, F.data)
      BY <1>0, <1>1, <1>2, <1>6, <2>1, <3>1, DueWritten
    <3>3. Due(d, gs[n]) = {} /\ Due(d, fs[n]) = {raw}
      BY <1>2, <1>7, <3>2 DEF F
    <3> HIDE DEF meant
    <3>4. ASSUME {raw} = meant PROVE WrittenTo(d, written, meant)
      BY <1>8, <1>9, <1>12, <2>2, <3>1, <3>4 DEF WrittenTo
    <3>5. Settled(d, fs, w, meant)
      BY <2>1 DEF meant
    <3>6. \A j \in 1..n : j # n => Due(d, gs[j]) = Due(d, fs[j])
      BY <1>2
    <3>7. Due(d, fs[n]) # {} /\ (Due(d, fs[n]) = meant => WrittenTo(d, written, meant))
      BY <3>3, <3>4
    <3>8. Settled(d, gs, written, meant)
      BY <1>2, <3>3, <3>5, <3>6, <3>7, SettledWritten
    <3> QED  BY <3>8 DEF meant
  <2>3. CASE d.place # place
    <3>1. Due(d, Advance(F)) = Due(d, F)
      BY <1>1, <1>2, <1>6, <1>7, <2>1, <2>3, DueNotWritten
    <3>2. \A j \in DOMAIN fs : Due(d, gs[j]) = Due(d, fs[j])
      BY <1>2, <3>1 DEF F
    <3>3. WrittenTo(d, w, meant) => WrittenTo(d, written, meant)
      BY <1>12, <2>3 DEF WrittenTo
    <3>4. Settled(d, fs, w, meant) /\ DOMAIN gs = DOMAIN fs
      BY <1>2, <2>1
    <3> HIDE DEF meant
    <3>5. Settled(d, gs, written, meant)
      BY <3>2, <3>3, <3>4, SettledSame
    <3> QED  BY <3>5 DEF meant
  <2> QED  BY <2>2, <2>3
<1>14. ASSUME NEW p \in DOMAIN written PROVE GivenFor(type, vals, p, written[p])
  <2>1. CASE p = place
    BY <1>6, <1>8, <1>9, <1>10, <1>11, <1>12, <2>1 DEF GivenFor
  <2>2. CASE p # place
    <3>1. p \in DOMAIN w /\ written[p] = w[p]
      BY <1>12, <2>2
    <3> QED  BY <3>1 DEF CallsSound
  <2> QED  BY <2>1, <2>2
<1> QED  BY <1>1, <1>2, <1>3, <1>13, <1>14 DEF CallsSound, gs

LEMMA EnterStep ==
  ASSUME NEW type, NEW vals, NEW fs, NEW w, CallsSound(type, vals, fs, w), Last(fs).fields # <<>>,
         NEW y \in Seen(Last(fs).type), Head(Last(fs).fields) = MetaOf(y),
         NEW raw \in Own(y, Last(fs).data), y.field.kind \in Structs, raw.is = "map"
  PROVE  CallsSound(type, vals,
               Pushed(AdvanceLast(fs), Frame(y.field.of, Last(fs).base \o y.place, raw.of)), w)
<1> DEFINE n == Len(fs)
           hs == AdvanceLast(fs)
           F == fs[n]
           G == Frame(y.field.of, F.base \o y.place, raw.of)
           gs == Pushed(hs, G)
           l == n + 1
<1>1. type \in Tidy /\ vals \in Maps /\ FramesSound(fs, type, vals)
  BY DEF CallsSound
<1>2. /\ n \in Nat /\ 1 <= n /\ DOMAIN fs = 1..n /\ DOMAIN hs = 1..n /\ n \in DOMAIN fs
      /\ Last(fs) = F /\ hs[n] = Advance(F) /\ \A j \in 1..n : j # n => hs[j] = fs[j]
      /\ FrameSound(F, type, vals) /\ FramesSound(hs, type, vals)
  BY <1>1, FramesAfter
<1>3. Asked(type, vals, hs[1])
  BY <1>1, AskedAfter DEF CallsSound
<1>4. F.type \in Tidy /\ F.data \in Maps
  BY <1>2 DEF FrameSound, AnyFrame
<1>5. /\ y \in Seen(F.type) /\ Head(F.fields) = MetaOf(y) /\ F.fields # <<>> /\ raw \in Own(y, F.data)
  BY <1>2
<1> HIDE DEF hs, n, F
<1>6. y.key \in DOMAIN F.data /\ raw = F.data[y.key]
  BY <1>4, <1>5, OwnRaw
<1>7. F.data[y.key].is = "map" /\ G = Frame(y.field.of, F.base \o y.place, F.data[y.key].of)
  BY <1>6
<1> HIDE DEF G
<1>8. FrameSound(G, type, vals)
  BY <1>1, <1>2, <1>5, <1>6, <1>7, NextFrame
<1>9. Len(hs) = n
  <2>1. hs \in Seq(AnyFrame)
    BY <1>2 DEF FramesSound
  <2>2. Len(hs) \in Nat /\ DOMAIN hs = 1..Len(hs)
    BY <2>1, LenProperties
  <2> QED  BY <1>2, <2>2
<1>11. l = n + 1 /\ gs = Pushed(hs, G)
  OBVIOUS
<1> HIDE DEF gs, l
<1>10. FramesSound(gs, type, vals) /\ DOMAIN gs = 1..l /\ gs[l] = G /\ \A j \in 1..n : gs[j] = hs[j]
  <2>1. FramesSound(hs, type, vals)
    BY <1>2
  <2>2. FramesSound(Pushed(hs, G), type, vals) /\ IsPushed(Pushed(hs, G), hs, Len(hs), G)
    BY <1>8, <2>1, FramesPushed
  <2> QED  BY <1>9, <1>11, <2>2 DEF IsPushed
<1>12. gs[1] = hs[1]
  <2>1. 1 \in 1..n
    BY <1>2
  <2> QED  BY <1>10, <2>1
<1>13. ASSUME NEW d \in Declared(type) PROVE Settled(d, gs, w, Meant[d][vals])
  <2>1. d \in StructFields[type] /\ d.field.kind \in Plain /\ Settled(d, fs, w, Meant[d][vals])
    BY DEF Declared, CallsSound
  <2>2. Due(d, F) = IF Due(d, Advance(F)) # {} THEN Due(d, Advance(F)) ELSE Due(d, G)
    BY <1>1, <1>2, <1>5, <1>6, <1>7, <2>1, DueEntered
  <2>3. gs[n] = Advance(F) /\ gs[l] = G /\ \A j \in 1..n : j # n => Due(d, gs[j]) = Due(d, fs[j])
    BY <1>2, <1>10
  <2>4. Due(d, fs[n]) = IF Due(d, gs[n]) # {} THEN Due(d, gs[n]) ELSE Due(d, gs[l])
    BY <2>2, <2>3 DEF F
  <2> DEFINE meant == Meant[d][vals]
  <2> HIDE DEF meant
  <2>5. Settled(d, fs, w, meant)
    BY <2>1 DEF meant
  <2>6. /\ n \in Nat /\ DOMAIN fs = 1..n /\ n \in DOMAIN fs /\ l = n + 1 /\ DOMAIN gs = 1..l
        /\ \A j \in 1..n : j # n => Due(d, gs[j]) = Due(d, fs[j])
    BY <1>2, <1>10, <1>11, <2>3
  <2>7. Settled(d, gs, w, meant)
    BY ONLY <2>4, <2>5, <2>6, SettledPushed
  <2> QED  BY <2>7 DEF meant
<1>14. \A p \in DOMAIN w : GivenFor(type, vals, p, w[p])
  BY DEF CallsSound
<1> HIDE DEF CallsSound
<1>15. CallsSound(type, vals, gs, w)
  BY <1>1, <1>3, <1>10, <1>12, <1>13, <1>14 DEF CallsSound
<1> QED  BY <1>2, <1>15 DEF gs, G, hs

LEMMA EmptyFrame ==
  ASSUME NEW F, F.fields = <<>>, NEW d
  PROVE  Due(d, F) = {}
<1>1. \A x : ByList(x, F.data, <<>>) = {}
  BY ByNone
<1> QED  BY <1>1 DEF Due

LEMMA ReturnStep ==
  ASSUME NEW type, NEW vals, NEW fs, NEW w, CallsSound(type, vals, fs, w), Last(fs).fields = <<>>, Len(fs) > 1
  PROVE  CallsSound(type, vals, Front(fs), w)
<1> DEFINE n == Len(fs)
           gs == Front(fs)
<1>1. type \in Tidy /\ vals \in Maps /\ FramesSound(fs, type, vals)
  BY DEF CallsSound
<1>3. Last(fs) = fs[n]
  BY DEF Last
<1>4. n = Len(fs) /\ n > 1 /\ gs = Front(fs)
  OBVIOUS
<1> HIDE DEF gs, n
<1>2. /\ FramesSound(gs, type, vals) /\ n \in Nat /\ DOMAIN fs = 1..n /\ DOMAIN gs = 1..(n - 1)
      /\ \A j \in 1..(n - 1) : gs[j] = fs[j]
  <2>1. FramesSound(fs, type, vals) /\ Len(fs) > 1
    BY <1>1, <1>4
  <2>2. /\ FramesSound(Front(fs), type, vals) /\ Len(fs) \in Nat /\ DOMAIN fs = 1..Len(fs)
        /\ DOMAIN Front(fs) = 1..(Len(fs) - 1) /\ \A j \in 1..(Len(fs) - 1) : Front(fs)[j] = fs[j]
    BY ONLY <2>1, FramesPopped
  <2> QED  BY <1>4, <2>2
<1>5. gs[1] = fs[1]
  <2>1. 1 \in 1..(n - 1)
    BY <1>2, <1>4
  <2> QED  BY <1>2, <2>1
<1>6. ASSUME NEW d \in Declared(type) PROVE Settled(d, gs, w, Meant[d][vals])
  <2>1. Settled(d, fs, w, Meant[d][vals])
    BY DEF CallsSound
  <2>2. Due(d, fs[n]) = {}
    BY <1>3, EmptyFrame
  <2> QED  BY <1>2, <1>4, <2>1, <2>2, SettledPopped
<1> QED  BY <1>1, <1>2, <1>5, <1>6 DEF CallsSound, gs

LEMMA StartSound ==
  ASSUME NEW type \in Tidy, NEW vals \in Maps
  PROVE  CallsSound(type, vals, <<Frame(type, <<>>, vals)>>, <<>>)
<1> DEFINE F == Frame(type, <<>>, vals)
           fs == <<F>>
           none == <<>>
<1>1. /\ FrameSound(F, type, vals) /\ F.type = type /\ F.base = none /\ F.data = vals
      /\ F.fields = WalkFields[type]
  BY FirstFrame
<1> HIDE DEF F
<1>2. F \in AnyFrame
  BY <1>1 DEF FrameSound
<1>3. fs \in Seq(AnyFrame) /\ fs # <<>> /\ DOMAIN fs = {1} /\ fs[1] = F
  BY <1>2
<1> HIDE DEF fs
<1>4. FramesSound(fs, type, vals)
  BY <1>1, <1>3 DEF FramesSound
<1>5. ASSUME NEW d \in Declared(type) PROVE Settled(d, fs, none, Meant[d][vals])
  <2>1. d \in StructFields[type] /\ d.field.kind \in Plain
    BY DEF Declared
  <2>2. SameLengths(d)
    BY <2>1, TidyLengths
  <2>3. Under(d, none) /\ Inner(d, Len(none)) = d
    BY <2>2, UnderNothing
  <2>4. Due(d, F) = ByList(d, vals, WalkFields[type])
    BY <1>1, <2>3 DEF Due
  <2>5. Due(d, F) = Meant[d][vals]
    BY <2>1, <2>4, ListIsMeant
  <2>6. d.place \notin DOMAIN none
    OBVIOUS
  <2> HIDE DEF none
  <2>7. CASE Meant[d][vals] = {}
    BY <1>3, <2>5, <2>6, <2>7 DEF Settled, NothingDue, WrittenTo
  <2>8. CASE Meant[d][vals] # {}
    <3>1. ~(1 < 1)
      OBVIOUS
    <3> QED  BY <1>3, <2>5, <2>8, <3>1 DEF Settled, Pending
  <2> QED  BY <2>7, <2>8
<1>6. Asked(type, vals, fs[1])
  <2>1. ToSet(WalkFields[type]) = Listed(type)
    BY TidyMetas DEF MetasOf
  <2>2. \A e \in Seen(type) : MetaOf(e) \in Listed(type)
    BY DEF Listed
  <2> QED  BY <1>1, <1>3, <2>1, <2>2 DEF Asked
<1>7. \A p \in DOMAIN none : GivenFor(type, vals, p, none[p])
  OBVIOUS
<1> HIDE DEF none
<1>8. CallsSound(type, vals, fs, none)
  BY <1>4, <1>5, <1>6, <1>7 DEF CallsSound
<1> QED  BY <1>8 DEF fs, F, none


BindSound ==
    /\ CallsSound(root, config, frames, target)
    /\ bind \in {"running", "ok", "err"}
    /\ bind = "ok" => Len(frames) = 1 /\ Top.fields = <<>>

\* Where no struct is embedded, the calls of Bind are sound.
BindInv == ~Embeds(root) => BindSound

LEMMA BindInvInit ==
  ASSUME BindInit
  PROVE  BindInv
<1> SUFFICES ASSUME ~Embeds(root) PROVE BindSound
  BY DEF BindInv
<1>1. root \in Tidy /\ config \in Maps
  BY BindingAssumption DEF BindInit, BindOf, Tidy
<1>2. frames = <<Frame(root, <<>>, config)>> /\ target = <<>> /\ bind = "running"
  BY DEF BindInit, BindOf
<1> QED  BY <1>1, <1>2, StartSound DEF BindSound

\* A step at a field.
LEMMA BindFieldSound ==
  ASSUME BindSound, BindField
  PROVE  BindSound' /\ root' = root
<1> DEFINE F == Top
           m == Head(F.fields)
<1>1. /\ CallsSound(root, config, frames, target) /\ bind = "running" /\ F.fields # <<>>
      /\ F = Last(frames)
  BY DEF BindSound, BindField, Top
<1>2. PICK y \in Seen(F.type) : /\ m = MetaOf(y) /\ m.index = y.place
                                /\ FieldAt(F.type, m.index) = {y.field} /\ Chosen(F, m) = Own(y, F.data)
  <2>1. PICK y \in Seen(F.type) : /\ m = MetaOf(y) /\ MetaOf(y).index = y.place
                                  /\ FieldAt(F.type, y.place) = {y.field}
                                  /\ Chosen(F, MetaOf(y)) = Own(y, F.data)
    <3> HIDE DEF m
    <3> QED  BY <1>1, FieldAtHand DEF m
  <2> QED  BY <2>1
<1>3. y.field.kind # "hidden" /\ m.required = y.field.required
  BY <1>2 DEF Seen, MetaOf
<1>4. Advanced = AdvanceLast(frames)
  BY DEF Advanced, AdvanceLast
<1>5. F.type \in Tidy /\ F.data \in Maps
  <2>1. FramesSound(frames, root, config)
    BY <1>1 DEF CallsSound
  <2>2. FrameSound(frames[Len(frames)], root, config) /\ Last(frames) = frames[Len(frames)]
    BY <1>1, <2>1, FramesAfter
  <2> QED  BY <1>1, <2>2 DEF FrameSound, AnyFrame
<1> DEFINE chosen == Chosen(F, m)
           place == F.base \o m.index
<1>6. \/ \E f \in FieldAt(F.type, m.index) :
            /\ f.kind = "hidden" \/ (chosen = {} /\ ~m.required)
            /\ frames' = Advanced /\ UNCHANGED <<root, config, target, bind>>
      \/ bind' = "err" /\ UNCHANGED <<root, config, target, frames>>
      \/ \E f \in FieldAt(F.type, m.index), raw \in chosen :
            /\ f.kind \notin Structs \cup {"hidden"} /\ Convert(f.kind, raw) # Fails
            /\ target' = [p \in DOMAIN target \cup {place} |->
                             IF p = place THEN Convert(f.kind, raw).value ELSE target[p]]
            /\ frames' = Advanced /\ UNCHANGED <<root, config, bind>>
      \/ \E f \in FieldAt(F.type, m.index), raw \in chosen :
            /\ f.kind \in Structs /\ raw.is = "map"
            /\ frames' = Append(Advanced, Frame(f.of, place, raw.of))
            /\ UNCHANGED <<root, config, target, bind>>
  <2>1. FieldAt(F.type, m.index) # {}
    BY <1>2
  <2> HIDE DEF F, m, chosen, place
  <2> QED  BY <2>1 DEF BindField, Ends, F, m, chosen, place
<1> HIDE DEF F, m
<1>7. CASE /\ \E f \in FieldAt(F.type, m.index) : f.kind = "hidden" \/ (chosen = {} /\ ~m.required)
           /\ frames' = Advanced /\ UNCHANGED <<root, config, target, bind>>
  <2>1. Own(y, F.data) = {} /\ ~y.field.required
    BY <1>2, <1>3, <1>7
  <2>2. CallsSound(root, config, AdvanceLast(frames), target)
    BY <1>1, <1>2, <2>1, PassStep DEF m
  <2> QED  BY <1>1, <1>4, <1>7, <2>2 DEF BindSound, Top
<1>8. CASE bind' = "err" /\ UNCHANGED <<root, config, target, frames>>
  BY <1>1, <1>8 DEF BindSound, Top
<1>9. ASSUME NEW f \in FieldAt(F.type, m.index), NEW raw \in chosen,
             f.kind \notin Structs \cup {"hidden"}, Convert(f.kind, raw) # Fails,
             target' = [p \in DOMAIN target \cup {place} |->
                           IF p = place THEN Convert(f.kind, raw).value ELSE target[p]],
             frames' = Advanced, UNCHANGED <<root, config, bind>>
      PROVE  BindSound' /\ root' = root
  <2>1. f = y.field /\ raw \in Own(y, F.data) /\ place = F.base \o y.place
    BY <1>2, <1>9
  <2>2. CallsSound(root, config, AdvanceLast(frames), target')
    <3> DEFINE written == target'
    <3>1. written = Filled(target, place, Convert(y.field.kind, raw).value)
      BY <1>9, <2>1 DEF Filled
    <3>2. y.field.kind \notin Structs /\ Convert(y.field.kind, raw) # Fails
      BY <1>9, <2>1
    <3> HIDE DEF written, place
    <3>3. /\ CallsSound(root, config, frames, target) /\ Last(frames).fields # <<>> /\ y \in Seen(Last(frames).type)
          /\ Head(Last(frames).fields) = MetaOf(y) /\ raw \in Own(y, Last(frames).data)
          /\ place = Last(frames).base \o y.place
      BY <1>1, <1>2, <2>1 DEF m
    <3>4. CallsSound(root, config, AdvanceLast(frames), written)
      BY ONLY <3>1, <3>2, <3>3, WriteStep
    <3> QED  BY <3>4 DEF written
  <2> QED  BY <1>1, <1>4, <1>9, <2>2 DEF BindSound, Top
<1>10. ASSUME NEW f \in FieldAt(F.type, m.index), NEW raw \in chosen, f.kind \in Structs, raw.is = "map",
              frames' = Append(Advanced, Frame(f.of, place, raw.of)),
              UNCHANGED <<root, config, target, bind>>
       PROVE  BindSound' /\ root' = root
  <2>1. f = y.field /\ raw \in Own(y, F.data) /\ place = F.base \o y.place
    BY <1>2, <1>10
  <2>2. CallsSound(root, config, Pushed(AdvanceLast(frames), Frame(y.field.of, F.base \o y.place, raw.of)), target)
    BY <1>1, <1>2, <1>10, <2>1, EnterStep DEF m
  <2>3. frames' = Pushed(AdvanceLast(frames), Frame(y.field.of, F.base \o y.place, raw.of))
    BY <1>4, <1>10, <2>1 DEF Pushed
  <2> QED  BY <1>1, <1>10, <2>2, <2>3 DEF BindSound, Top
<1> QED  BY <1>6, <1>7, <1>8, <1>9, <1>10

LEMMA BindReturnsSound ==
  ASSUME BindSound, BindReturns
  PROVE  BindSound' /\ root' = root
<1>1. /\ CallsSound(root, config, frames, target) /\ bind = "running" /\ Top.fields = <<>>
      /\ Top = Last(frames)
  BY DEF BindSound, BindReturns, Top
<1>2. CASE Len(frames) > 1
  <2>1. CallsSound(root, config, Front(frames), target)
    BY <1>1, <1>2, ReturnStep
  <2>2. frames' = Front(frames) /\ UNCHANGED <<root, config, target, bind>>
    BY <1>2 DEF BindReturns
  <2> QED  BY <1>1, <2>1, <2>2 DEF BindSound, Top
<1>3. CASE ~(Len(frames) > 1)
  <2>1. bind' = "ok" /\ UNCHANGED <<root, config, target, frames>>
    BY <1>3 DEF BindReturns
  <2>2. Len(frames) = 1
    <3>1. frames \in Seq(AnyFrame) /\ frames # <<>>
      BY <1>1 DEF CallsSound, FramesSound
    <3>2. Len(frames) \in Nat /\ 1 <= Len(frames)
      BY <3>1, AdvanceLastFacts
    <3> QED  BY <1>3, <3>2
  <2> QED  BY <1>1, <2>1, <2>2 DEF BindSound, Top
<1> QED  BY <1>2, <1>3

LEMMA BindInvStep ==
  ASSUME BindInv, [BindNext]_bindVars
  PROVE  BindInv'
<1>1. root' = root
  BY DEF BindNext, BindField, BindReturns, Ends, bindVars
<1> SUFFICES ASSUME ~Embeds(root) PROVE BindSound'
  BY <1>1 DEF BindInv
<1>2. BindSound
  BY DEF BindInv
<1>3. CASE BindField
  BY <1>2, <1>3, BindFieldSound
<1>4. CASE BindReturns
  BY <1>2, <1>4, BindReturnsSound
<1>5. CASE UNCHANGED bindVars
  BY <1>2, <1>5 DEF bindVars, BindSound, Top
<1> QED  BY <1>3, <1>4, <1>5 DEF BindNext

LEMMA SoundIsExact ==
  ASSUME BindInv
  PROVE  BindExact
<1> SUFFICES ASSUME ~Embeds(root) PROVE BindExact
  BY DEF BindExact
<1>1. BindSound /\ CallsSound(root, config, frames, target)
  BY DEF BindInv, BindSound
<1>2. DeclaredFields = Declared(root)
  BY DEF DeclaredFields, Declared
<1>3. bind # "panic"
  BY <1>1 DEF BindSound
<1>4. ASSUME bind = "ok", NEW d \in DeclaredFields
      PROVE  WrittenTo(d, target, Meant[d][config])
  <2>1. Len(frames) = 1 /\ Last(frames).fields = <<>> /\ Last(frames) = frames[1]
    BY <1>1, <1>4 DEF BindSound, Top, Last
  <2>2. Due(d, frames[1]) = {}
    BY <2>1, EmptyFrame
  <2>3. DOMAIN frames = {1}
    <3>1. frames \in Seq(AnyFrame)
      BY <1>1 DEF CallsSound, FramesSound
    <3>2. DOMAIN frames = 1..Len(frames)
      BY <3>1, LenProperties
    <3> QED  BY <2>1, <3>2
  <2>4. Settled(d, frames, target, Meant[d][config])
    BY <1>1, <1>2 DEF CallsSound
  <2> QED  BY <2>2, <2>3, <2>4 DEF Settled, Pending
<1>5. \A p \in DOMAIN target : GivenFor(root, config, p, target[p])
  BY <1>1 DEF CallsSound
<1> QED  BY <1>2, <1>3, <1>4, <1>5 DEF BindExact, WrittenTo, GivenFor

\* A Bind that succeeds has written to each field what is meant for it, and
\* to no other; one that fails has written only what is given (bind.go:372-448).
THEOREM BindsExactly == BindSpec => []BindExact
<1>1. BindInit => BindInv
  BY BindInvInit
<1>2. BindInv /\ [BindNext]_bindVars => BindInv'
  BY BindInvStep
<1>3. BindInv => BindExact
  BY SoundIsExact
<1> QED  BY <1>1, <1>2, <1>3, PTL DEF BindSpec

-----------------------------------------------------------------------------
(* The rules of a plan.                                                    *)

Need(f) == [key |-> <<f.key>>, required |-> TRUE, validator |-> {}]

Asking(f, rule) == [key |-> <<f.key>>, required |-> FALSE, validator |-> {rule}]

Asks(f) == {r \in {Need(f)} : f.required} \cup {Asking(f, rule) : rule \in ToSet(f.rules)}

PlanOf(type) == FlattenSeq([i \in DOMAIN Types[type] |-> RulesOf(Types[type][i])])

LEMMA RulesOfField ==
  ASSUME NEW f, f.rules \in Seq(ToSet(f.rules))
  PROVE  RulesOf(f) \in Seq(Asks(f)) /\ ToSet(RulesOf(f)) = Asks(f)
<1> DEFINE A == Asks(f)
           needs == IF f.required THEN <<Need(f)>> ELSE <<>>
           rest == [j \in DOMAIN f.rules |-> Asking(f, f.rules[j])]
           before == A \X A
<1>1. RulesOf(f) = needs \o rest
  BY DEF RulesOf, Need, Asking
<1>2. needs \in Seq(A) /\ ToSet(needs) = {r \in {Need(f)} : f.required}
  <2>1. CASE f.required
    <3>1. needs = <<Need(f)>> /\ Need(f) \in A
      BY <2>1 DEF Asks
    <3> DEFINE r == Need(f)
    <3> HIDE DEF A, r
    <3>2. <<r>> \in Seq(A) /\ ToSet(<<r>>) = {r}
      BY <3>1 DEF ToSet, r
    <3> QED  BY <2>1, <3>1, <3>2 DEF r
  <2>2. CASE ~f.required
    BY <2>2 DEF ToSet
  <2> QED  BY <2>1, <2>2
<1>3. rest \in Seq(A) /\ ToSet(rest) = {Asking(f, rule) : rule \in ToSet(f.rules)}
  <2>1. DOMAIN f.rules = 1..Len(f.rules) /\ Len(f.rules) \in Nat
    BY LenProperties
  <2>2. DOMAIN rest = 1..Len(f.rules) /\ \A j \in DOMAIN rest : rest[j] \in A
    BY <2>1 DEF Asks, ToSet
  <2>3. rest \in [1..Len(f.rules) -> A]
    <3>1. rest = [j \in 1..Len(f.rules) |-> rest[j]]
      BY <2>1
    <3> HIDE DEF rest, A
    <3> QED  BY <2>2, <3>1
  <2>4. rest \in Seq(A)
    <3> HIDE DEF rest, A
    <3> QED  BY <2>1, <2>3
  <2>5. ToSet(rest) = {Asking(f, rule) : rule \in ToSet(f.rules)}
    BY DEF ToSet
  <2> QED  BY <2>4, <2>5
<1>4. /\ Sorted(needs, before) /\ Sorted(rest, before)
      /\ \A x \in ToSet(needs), y \in ToSet(rest) : <<x, y>> \in before
  <2>1. ASSUME NEW s \in Seq(A) PROVE \A j \in DOMAIN s : s[j] \in A
    OBVIOUS
  <2>2. ASSUME NEW s \in Seq(A) PROVE Sorted(s, before)
    <3> HIDE DEF A
    <3> QED  BY <2>1 DEF Sorted
  <2>3. ToSet(needs) \subseteq A /\ ToSet(rest) \subseteq A
    <3> HIDE DEF needs, rest
    <3> QED  BY <1>2, <1>3 DEF Asks
  <2> HIDE DEF A, needs, rest
  <2> QED  BY <1>2, <1>3, <2>2, <2>3
<1> HIDE DEF A, needs, rest, before
<1>5. needs \o rest \in Seq(A) /\ ToSet(needs \o rest) = ToSet(needs) \cup ToSet(rest)
  BY <1>2, <1>3, <1>4, ConcatOrdered
<1> QED  BY <1>1, <1>2, <1>3, <1>5 DEF Asks, A

\* The plan asks for all that the tags of the fields say.
LEMMA PlanAsks ==
  ASSUME NEW type \in DOMAIN Types, NEW i \in DOMAIN Types[type]
  PROVE  Asks(Types[type][i]) \subseteq ToSet(PlanOf(type))
<1> DEFINE A == UNION {Asks(f) : f \in ToSet(Types[type])}
           ss == [j \in DOMAIN Types[type] |-> RulesOf(Types[type][j])]
           before == A \X A
           n == Len(Types[type])
<1>1. n \in Nat /\ DOMAIN Types[type] = 1..n /\ \A j \in 1..n : Types[type][j] \in ToSet(Types[type])
  <2>1. Types[type] \in Seq(ToSet(Types[type]))
    BY TypesOK
  <2> QED  BY <2>1, LenProperties DEF ToSet
<1>2. ASSUME NEW j \in 1..n
      PROVE  ss[j] \in Seq(A) /\ ToSet(ss[j]) = Asks(Types[type][j]) /\ ToSet(ss[j]) \subseteq A /\ Sorted(ss[j], before)
  <2> DEFINE f == Types[type][j]
             B == Asks(f)
             s == ss[j]
  <2>1. f \in ToSet(Types[type]) /\ f.rules \in Seq(ToSet(f.rules))
    BY <1>1, ValidationAssumption
  <2>2. s = RulesOf(f)
    BY <1>1
  <2> HIDE DEF s
  <2>3. s \in Seq(B) /\ ToSet(s) = B
    <3> HIDE DEF f
    <3> QED  BY <2>1, <2>2, RulesOfField DEF B
  <2>4. B \subseteq A
    BY <2>1
  <2> HIDE DEF A, B
  <2>5. Len(s) \in Nat /\ DOMAIN s = 1..Len(s) /\ s \in [1..Len(s) -> B]
    BY <2>3, LenProperties
  <2>6. s \in [1..Len(s) -> A]
    BY <2>4, <2>5
  <2>7. s \in Seq(A)
    BY <2>5, <2>6
  <2>8. Sorted(s, before)
    BY <2>5, <2>6 DEF Sorted
  <2> QED  BY <2>3, <2>4, <2>7, <2>8 DEF s, B
<1>3. ss \in Seq(Seq(A)) /\ Len(ss) = n
  <2>1. ss = [j \in 1..n |-> ss[j]]
    BY <1>1
  <2> HIDE DEF ss, A, n
  <2>2. ss \in [1..n -> Seq(A)]
    BY <1>2, <2>1
  <2> QED  BY <1>1, <2>2
<1> HIDE DEF ss, A, n
<1>4. \A j, k \in 1..n : j < k => \A x \in ToSet(ss[j]), y \in ToSet(ss[k]) : <<x, y>> \in before
  BY <1>2
<1> HIDE DEF before
<1>5. JoinedUpTo(FlattenSeq(ss), ss, n, A, before)
  BY <1>2, <1>3, <1>4, Concatenated
<1>6. PlanOf(type) = FlattenSeq(ss)
  BY DEF PlanOf, ss
<1>7. i \in 1..n /\ ToSet(ss[i]) = Asks(Types[type][i])
  BY <1>1, <1>2
<1>8. ToSet(ss[i]) \in {ToSet(ss[j]) : j \in 1..n}
  BY <1>7
<1>9. ToSet(PlanOf(type)) = UNION {ToSet(ss[j]) : j \in 1..n}
  BY <1>5, <1>6 DEF JoinedUpTo
<1> QED  BY <1>7, <1>8, <1>9


-----------------------------------------------------------------------------
(* The plan and the struct validator.                                      *)

FailingOf(rules, vals) ==
    {r \in ToSet(rules) :
        IF r.key \notin DOMAIN vals THEN r.required
        ELSE \E v \in r.validator : Violates(v, Raw(vals[r.key]))}

\* The value a struct validator is given, of a struct filled with w.
ValueIn(w, f, i) ==
    LET Or(zero) == IF <<i>> \in DOMAIN w THEN w[<<i>>] ELSE zero IN
    CASE f.kind = "int"               -> [type |-> "int", n |-> Or(0)]
      [] f.kind \in {"int8", "uint8"} -> [type |-> "narrow", n |-> Or(0)]
      [] f.kind = "list"              -> [type |-> "slice", len |-> Len(Or(<<>>))]
      [] f.kind = "text"              -> String(Or(""))
      [] f.kind \in Structs           -> [type |-> "struct"]

BrokenIn(type, w) ==
    UNION {LET f == Types[type][i] IN
           {<<i, rule>> : rule \in {rule \in TagRules(f) : Violates(rule, ValueIn(w, f, i))}} :
           i \in {i \in DOMAIN Types[type] : Types[type][i].kind # "hidden"}}

\* The validators have found what there is to find.
FoundSound ==
    /\ planErrors \subseteq {FailingOf(PlanOf(root), config)}
    /\ structErrors \subseteq {BrokenIn(root, target)}
    /\ structErrors # {} => bind = "ok"

ValidInv == root \in DOMAIN Types /\ BindInv /\ FoundSound

LEMMA ValidInvStep ==
  ASSUME ValidInv, [ValidNext]_validVars
  PROVE  ValidInv'
<1>1. CASE BindNext /\ UNCHANGED <<planErrors, structErrors>>
  <2>1. BindInv'
    BY <1>1, BindInvStep DEF ValidInv
  <2>2. root' = root /\ config' = config /\ bind = "running"
    BY <1>1 DEF BindNext, BindField, BindReturns, Ends
  <2>3. structErrors = {}
    BY <2>2 DEF ValidInv, FoundSound
  <2>4. FoundSound'
    BY <1>1, <2>2, <2>3 DEF ValidInv, FoundSound
  <2> QED  BY <2>1, <2>2, <2>4 DEF ValidInv
<1>2. CASE ValidatePlan
  <2>1. UNCHANGED bindVars /\ structErrors' = structErrors /\ planErrors' = {Failing(Plan)}
    BY <1>2 DEF ValidatePlan
  <2>2. Plan = PlanOf(root)
    BY DEF Plan, PlanOf
  <2>3. Failing(Plan) = FailingOf(PlanOf(root), config)
    BY <2>2 DEF Failing, FailingOf
  <2>4. BindInv'
    BY <2>1, BindInvStep DEF ValidInv
  <2>5. FoundSound'
    BY <2>1, <2>3 DEF ValidInv, FoundSound, bindVars
  <2> QED  BY <2>1, <2>4, <2>5 DEF ValidInv, bindVars
<1>3. CASE ValidateStruct
  <2>1. /\ UNCHANGED bindVars /\ planErrors' = planErrors /\ bind = "ok"
        /\ structErrors' = {UNION {LET f == Types[root][i] IN
                                   {<<i, rule>> : rule \in {rule \in TagRules(f) : Violates(rule, FieldValue(f, i))}} :
                                   i \in {i \in DOMAIN Types[root] : Types[root][i].kind # "hidden"}}}
    BY <1>3 DEF ValidateStruct
  <2>2. \A f, i : FieldValue(f, i) = ValueIn(target, f, i)
    BY DEF FieldValue, ValueIn
  <2>3. structErrors' = {BrokenIn(root, target)}
    BY <2>1, <2>2 DEF BrokenIn
  <2>4. BindInv'
    BY <2>1, BindInvStep DEF ValidInv
  <2>5. FoundSound'
    BY <2>1, <2>3 DEF ValidInv, FoundSound, bindVars
  <2> QED  BY <2>1, <2>4, <2>5 DEF ValidInv, bindVars
<1>4. CASE UNCHANGED validVars
  <2>1. BindInv'
    BY <1>4, BindInvStep DEF ValidInv, validVars
  <2>2. FoundSound'
    BY <1>4 DEF ValidInv, FoundSound, validVars, bindVars
  <2> QED  BY <1>4, <2>1, <2>2 DEF ValidInv, validVars, bindVars
<1> QED  BY <1>1, <1>2, <1>3, <1>4 DEF ValidNext

\* A field of the struct itself that has its own value is filled with it.
LEMMA FilledAs ==
  ASSUME ValidInv, ~Embeds(root), bind = "ok", NEW i \in DOMAIN Types[root],
         NEW f, f = Types[root][i], NEW raw, raw = config[<<f.key>>],
         <<f.key>> \in DOMAIN config, f.kind \in {"int", "text"}
  PROVE  <<i>> \in DOMAIN target /\ Stands(f.kind, target[<<i>>], raw)
<1> DEFINE d == Direct(root, i)
<1>1. root \in Tidy /\ config \in Maps /\ BindInv
  BY DEF ValidInv, BindInv, BindSound, CallsSound
<1>2. BindExact
  BY <1>1, SoundIsExact
<1>3. d \in StructFields[root] /\ d.place = <<i>> /\ d.key = <<f.key>> /\ d.pointers = {} /\ d.field = f
  BY <1>1, DirectIsField DEF Direct, Tidy
<1> HIDE DEF d
<1>4. d \in DeclaredFields
  BY <1>3 DEF DeclaredFields, Plain
<1>5. Own(d, config) = {raw}
  BY <1>3 DEF Own
<1>6. d \in Fields
  BY <1>1, <1>3 DEF Fields, Tidy
<1>7. Meant[d][config] = {raw}
  <2>1. Meant[d][config] = MeantStep(Meant, d, config)
    BY <1>1, <1>6, MeantAre
  <2> QED  BY <1>5, <2>1 DEF MeantStep
<1>8. d.place \in DOMAIN target /\ Stands(d.field.kind, target[d.place], raw)
  BY <1>2, <1>4, <1>7 DEF BindExact
<1> QED  BY <1>3, <1>8

LEMMA SameValue ==
  ASSUME ValidInv, ~Embeds(root), bind = "ok", NEW i \in DOMAIN Types[root],
         NEW f, f = Types[root][i], NEW raw, raw = config[<<f.key>>],
         <<f.key>> \in DOMAIN config, SameType(f, raw)
  PROVE  ValueIn(target, f, i) = Raw(raw)
<1>1. CASE f.kind = "int" /\ raw.is = "int"
  <2>1. <<i>> \in DOMAIN target /\ Stands("int", target[<<i>>], raw)
    BY <1>1, FilledAs
  <2>2. target[<<i>>] = raw.n
    BY <2>1 DEF Stands
  <2>3. ValueIn(target, f, i) = [type |-> "int", n |-> raw.n]
    BY <1>1, <2>1, <2>2 DEF ValueIn, Structs
  <2>4. Raw(raw) = [type |-> "int", n |-> raw.n]
    BY <1>1 DEF Raw
  <2> QED  BY <2>3, <2>4
<1>2. CASE f.kind = "text" /\ raw.is \in {"digits", "word"}
  <2>1. <<i>> \in DOMAIN target /\ Stands("text", target[<<i>>], raw)
    BY <1>2, FilledAs
  <2>2. target[<<i>>] = raw.text
    BY <2>1 DEF Stands
  <2>3. ValueIn(target, f, i) = String(raw.text)
    BY <1>2, <2>1, <2>2 DEF ValueIn, Structs
  <2>4. Raw(raw) = String(raw.text)
    BY <1>2 DEF Raw
  <2> QED  BY <2>3, <2>4
<1> QED  BY <1>1, <1>2 DEF SameType

LEMMA FoundAgrees ==
  ASSUME ValidInv
  PROVE  ValidatorsAgree
<1> SUFFICES ASSUME ~Embeds(root), NEW p \in planErrors, NEW s \in structErrors, NEW i \in DOMAIN Types[root],
                    NEW f, f = Types[root][i]
             PROVE  /\ <<f.key>> \in DOMAIN config /\ SameType(f, config[<<f.key>>]) =>
                          \A rule \in ToSet(f.rules) :
                             rule.is # "range" => (Asking(f, rule) \in p <=> <<i, rule>> \in s)
                    /\ f.kind # "hidden" /\ f.required /\ Need(f) \in p => f.default # {}
  BY DEF ValidatorsAgree, Asking, Need
<1>1. /\ bind = "ok" /\ root \in DOMAIN Types /\ p = FailingOf(PlanOf(root), config) /\ s = BrokenIn(root, target)
  BY DEF ValidInv, FoundSound
<1>2. Asks(f) \subseteq ToSet(PlanOf(root))
  BY <1>1, PlanAsks
<1>3. ASSUME <<f.key>> \in DOMAIN config, SameType(f, config[<<f.key>>]),
             NEW rule \in ToSet(f.rules), rule.is # "range"
      PROVE  Asking(f, rule) \in p <=> <<i, rule>> \in s
  <2> DEFINE raw == config[<<f.key>>]
  <2>1. Asking(f, rule) \in p <=> Violates(rule, Raw(raw))
    <3>1. Asking(f, rule) \in ToSet(PlanOf(root))
      BY <1>2 DEF Asks
    <3>2. Asking(f, rule).key = <<f.key>> /\ Asking(f, rule).validator = {rule}
      BY DEF Asking
    <3> QED  BY <1>1, <1>3, <3>1, <3>2 DEF FailingOf
  <2>2. f.kind # "hidden" /\ rule \in TagRules(f)
    BY <1>3 DEF SameType, TagRules
  <2>3. <<i, rule>> \in s <=> Violates(rule, ValueIn(target, f, i))
    <3>1. ASSUME Violates(rule, ValueIn(target, f, i)) PROVE <<i, rule>> \in s
      BY <1>1, <2>2, <3>1 DEF BrokenIn
    <3>2. ASSUME <<i, rule>> \in s PROVE Violates(rule, ValueIn(target, f, i))
      <4>1. PICK j \in DOMAIN Types[root] :
               <<i, rule>> \in {<<j, other>> : other \in {other \in TagRules(Types[root][j]) :
                                                          Violates(other, ValueIn(target, Types[root][j], j))}}
        BY <1>1, <3>2 DEF BrokenIn
      <4>2. PICK other \in TagRules(Types[root][j]) :
               <<i, rule>> = <<j, other>> /\ Violates(other, ValueIn(target, Types[root][j], j))
        BY <4>1
      <4>3. i = j /\ rule = other
        BY <4>2
      <4> QED  BY <4>2, <4>3
    <3> QED  BY <3>1, <3>2
  <2>4. ValueIn(target, f, i) = Raw(raw)
    BY <1>1, <1>3, SameValue
  <2> QED  BY <2>1, <2>3, <2>4
<1>4. ASSUME f.kind # "hidden", f.required, Need(f) \in p PROVE f.default # {}
  <2> DEFINE e == Direct(root, i)
  <2>1. BindSound /\ root \in Tidy
    BY <1>1 DEF ValidInv, BindInv, Tidy
  <2>2. e \in Seen(root) /\ e.pointers = {} /\ e.key = <<f.key>> /\ e.field = f
    BY <1>4, <2>1, SeenDirect DEF Direct
  <2>3. Need(f).key \notin DOMAIN config
    BY <1>1, <1>4 DEF FailingOf, Need
  <2>4. <<f.key>> \notin DOMAIN config
    BY <2>3 DEF Need
  <2> HIDE DEF e
  <2>5. Own(e, config) = f.default
    BY <2>2, <2>4 DEF Own
  <2>6. frames[1].fields = <<>>
    BY <1>1, <2>1 DEF BindSound, Top, Last
  <2>7. ToSet(frames[1].fields) = {}
    BY <2>6 DEF ToSet
  <2>8. Asked(root, config, frames[1])
    BY <2>1 DEF BindSound, CallsSound
  <2> QED  BY <1>4, <2>2, <2>5, <2>7, <2>8 DEF Asked
<1> QED  BY <1>3, <1>4

\* Of a field that has its own value, of its type, the plan and the struct
\* validator find the same rules broken, and what the plan misses Bind has a
\* default for (validate.go:58-97, 291-334, 490-534, 585-623).
THEOREM FindTheSame == ValidSpec => []ValidatorsAgree
<1>1. ValidInit => ValidInv
  BY BindInvInit, BindingAssumption DEF ValidInit, ValidInv, FoundSound, BindInit, BindOf
<1>2. ValidInv /\ [ValidNext]_validVars => ValidInv'
  BY ValidInvStep
<1>3. ValidInv => ValidatorsAgree
  BY FoundAgrees
<1> QED  BY <1>1, <1>2, <1>3, PTL DEF ValidSpec

=============================================================================
