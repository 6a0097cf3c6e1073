--------------------------- MODULE Helpers_proofs ---------------------------
(***************************************************************************)
(* Proofs about three parts of DataPaths, Loading, Parsing and Nesting,    *)
(* for any sources, lines and keys, and about the parts that Helpers puts  *)
(* side by side, each on its own, for any number of callers and bounds.    *)
(***************************************************************************)
EXTENDS Helpers, Loading, Parsing, Nesting,
        FiniteSetTheorems, SequenceTheorems, WellFoundedInduction, TLAPS

-----------------------------------------------------------------------------
(* Loading.  What is merged so far is what the strategy makes of the       *)
(* sources merged so far.                                                  *)

\* The value of w for k stays when s has one too.
Prevails(w, s, k) ==
    \/ strategy \in {"priority", "concurrent"} /\ holds[w][k] > holds[s][k]
    \/ strategy = "priority" /\ holds[w][k] = holds[s][k] /\ w <= s
    \/ strategy = "concurrent" /\ holds[w][k] = holds[s][k]
    \/ strategy = "merge-first" /\ w <= s
    \/ strategy \in {"chained", "merge-last"} /\ w >= s

Wins(w, k, S) ==
    k \in DOMAIN holds[w] /\ \A s \in S : k \in DOMAIN holds[s] => Prevails(w, s, k)

IsMerged(m, S) ==
    /\ DOMAIN m = UNION {DOMAIN holds[s] : s \in S}
    /\ \A k \in DOMAIN m : \E w \in S : Wins(w, k, S) /\ m[k] = Values(w)[k]

Waiting == {s \in 1..MaxSources : worker[s] \in {"load", "ok", "failed"}}

Collected ==
    {s \in 1..MaxSources :
        worker[s] = "sent" /\ \A i \in 1..Len(results) : results[i].source # s}

\* Each goroutine has a place in the channel for its result.
ResultsSound ==
    /\ \A i \in 1..Len(results) :
          worker[results[i].source] = IF results[i].failed THEN "gave up" ELSE "sent"
    /\ \A i, j \in 1..Len(results) : results[i].source = results[j].source => i = j
    /\ \A s \in 1..MaxSources : worker[s] # "none" => s <= taken
    /\ Len(results) + Cardinality(Waiting) <= taken

LoadingStarts ==
    /\ phase = "idle" => taken = 0 /\ received = 0 /\ merged = <<>>
    /\ phase = "idle" \/ strategy # "concurrent" =>
          results = <<>> /\ \A s \in 1..MaxSources : worker[s] = "none"

InLine ==
    phase = "load" =>
        strategy # "concurrent" /\ next \in 1..taken + 1 /\ IsMerged(merged, 1..next - 1)

AtOnce ==
    phase = "collect" =>
        /\ strategy = "concurrent"
        /\ received = Cardinality(Collected) /\ IsMerged(merged, Collected)

LoadingEnds ==
    phase = "done" =>
        /\ IsMerged(merged, 1..taken)
        /\ strategy = "concurrent" => \A s \in 1..taken : worker[s] = "sent"

LoadingInv ==
    LoadingTypeOK /\ ResultsSound /\ LoadingStarts /\ InLine /\ AtOnce /\ LoadingEnds

LEMMA ContentsType ==
  ASSUME holds \in [1..MaxSources -> Contents], NEW s \in 1..MaxSources
  PROVE  /\ DOMAIN holds[s] \subseteq Keys
         /\ \A k \in DOMAIN holds[s] : holds[s][k] \in Nat
         /\ DOMAIN Values(s) = DOMAIN holds[s]
         /\ \A k \in DOMAIN holds[s] : Values(s)[k] = [source |-> s, priority |-> holds[s][k]]
<1>1. holds[s] \in Contents
  OBVIOUS
<1>2. PICK K \in SUBSET Keys : holds[s] \in [K -> Priorities]
  BY <1>1 DEF Contents
<1> QED  BY <1>2, LoadingAssumption DEF Values

\* One more source is merged.
LEMMA MergeOne ==
  ASSUME holds \in [1..MaxSources -> Contents], strategy \in Strategies,
         NEW S \in SUBSET (1..MaxSources), NEW n \in (1..MaxSources) \ S,
         strategy = "concurrent" \/ \A s \in S : s < n,
         NEW m, IsMerged(m, S)
  PROVE  IsMerged(Merge(m, Values(n)), S \cup {n})
<1> DEFINE more == Merge(m, Values(n))
<1>1. /\ DOMAIN Values(n) = DOMAIN holds[n]
      /\ \A k \in DOMAIN holds[n] : /\ Values(n)[k] = [source |-> n, priority |-> holds[n][k]]
                                    /\ holds[n][k] \in Nat
  BY ContentsType
<1>2. \A s \in S : \A k \in DOMAIN holds[s] : holds[s][k] \in Nat
  BY ContentsType
<1>3. /\ DOMAIN m = UNION {DOMAIN holds[s] : s \in S}
      /\ \A k \in DOMAIN m : \E w \in S : Wins(w, k, S) /\ m[k] = Values(w)[k]
  BY DEF IsMerged
<1>4. /\ DOMAIN more = DOMAIN m \cup DOMAIN holds[n]
      /\ \A k \in DOMAIN m \ DOMAIN holds[n] : more[k] = m[k]
      /\ \A k \in DOMAIN holds[n] \ DOMAIN m : more[k] = Values(n)[k]
      /\ \A k \in DOMAIN holds[n] \cap DOMAIN m :
            more[k] = CASE strategy \in {"priority", "concurrent"} ->
                              IF Values(n)[k].priority > m[k].priority THEN Values(n)[k] ELSE m[k]
                        [] strategy = "merge-first" -> m[k]
                        [] strategy \in {"chained", "merge-last"} -> Values(n)[k]
  <2>1. CASE strategy \in {"priority", "concurrent"}
    BY <1>1, <2>1 DEF Merge, MergePriority, Outranks
  <2>2. CASE strategy = "merge-first"
    BY <1>1, <2>2 DEF Merge, MergeFirst
  <2>3. CASE strategy \in {"chained", "merge-last"}
    BY <1>1, <2>3 DEF Merge, MergeLast, MergeFirst
  <2> QED  BY <2>1, <2>2, <2>3 DEF Strategies
<1> HIDE DEF more
<1>5. DOMAIN more = UNION {DOMAIN holds[s] : s \in S \cup {n}}
  BY <1>3, <1>4
<1>6. ASSUME NEW k \in DOMAIN more
      PROVE  \E w \in S \cup {n} : Wins(w, k, S \cup {n}) /\ more[k] = Values(w)[k]
  <2>1. CASE k \notin DOMAIN m
    <3>1. k \in DOMAIN holds[n] /\ more[k] = Values(n)[k]
      BY <1>4, <2>1
    <3>2. \A s \in S : k \notin DOMAIN holds[s]
      BY <1>3, <2>1
    <3>3. Prevails(n, n, k)
      BY <1>1, <3>1 DEF Prevails, Strategies
    <3> QED  BY <3>1, <3>2, <3>3 DEF Wins
  <2>2. CASE k \in DOMAIN m
    <3>1. PICK w \in S : Wins(w, k, S) /\ m[k] = Values(w)[k]
      BY <1>3, <2>2
    <3>2. /\ k \in DOMAIN holds[w] /\ holds[w][k] \in Nat
          /\ m[k] = [source |-> w, priority |-> holds[w][k]]
          /\ \A s \in S : k \in DOMAIN holds[s] => Prevails(w, s, k)
      BY <3>1, ContentsType DEF Wins
    <3>3. CASE k \notin DOMAIN holds[n]
      BY <1>4, <2>2, <3>1, <3>2, <3>3 DEF Wins
    <3>4. CASE k \in DOMAIN holds[n] /\ strategy \in {"priority", "concurrent"}
      <4>1. more[k] = IF holds[n][k] > holds[w][k] THEN Values(n)[k] ELSE m[k]
        BY <1>1, <1>4, <2>2, <3>2, <3>4
      <4>2. CASE holds[n][k] > holds[w][k]
        <5>1. \A s \in S : k \in DOMAIN holds[s] => holds[w][k] >= holds[s][k]
          BY <1>2, <3>2, <3>4 DEF Prevails
        <5>2. \A s \in S \cup {n} : k \in DOMAIN holds[s] => Prevails(n, s, k)
          BY <1>1, <1>2, <3>2, <3>4, <4>2, <5>1 DEF Prevails
        <5> QED  BY <3>4, <4>1, <4>2, <5>2 DEF Wins
      <4>3. CASE ~(holds[n][k] > holds[w][k])
        <5>1. Prevails(w, n, k)
          BY <1>1, <3>2, <3>4, <4>3 DEF Prevails
        <5> QED  BY <3>1, <3>2, <4>1, <4>3, <5>1 DEF Wins
      <4> QED  BY <4>2, <4>3
    <3>5. CASE k \in DOMAIN holds[n] /\ strategy = "merge-first"
      <4>1. more[k] = m[k]
        BY <1>4, <2>2, <3>5
      <4>2. Prevails(w, n, k)
        BY <3>5 DEF Prevails
      <4> QED  BY <3>1, <3>2, <4>1, <4>2 DEF Wins
    <3>6. CASE k \in DOMAIN holds[n] /\ strategy \in {"chained", "merge-last"}
      <4>1. more[k] = Values(n)[k]
        BY <1>4, <2>2, <3>6
      <4>2. \A s \in S \cup {n} : Prevails(n, s, k)
        BY <3>6 DEF Prevails
      <4> QED  BY <3>6, <4>1, <4>2 DEF Wins
    <3> QED  BY <3>3, <3>4, <3>5, <3>6 DEF Strategies
  <2> QED  BY <2>1, <2>2
<1> QED  BY <1>5, <1>6 DEF IsMerged, more

LEMMA LoadingInitInv == LoadInit => LoadingInv
<1> SUFFICES ASSUME LoadInit PROVE LoadingInv
  OBVIOUS
<1>1. PICK k \in Strategies, contents \in [1..MaxSources -> Contents] : LoadOf(k, contents)
  BY DEF LoadInit
<1>2. /\ strategy \in Strategies /\ holds \in [1..MaxSources -> Contents]
      /\ sources = 1 /\ phase = "idle" /\ taken = 0 /\ next = 0
      /\ worker = [s \in 1..MaxSources |-> "none"]
      /\ results = <<>> /\ received = 0 /\ merged = <<>>
  BY <1>1 DEF LoadOf
<1>3. LoadingTypeOK
  <2>1. DOMAIN merged = {} /\ results \in Seq([source : 1..MaxSources, failed : BOOLEAN])
    BY <1>2
  <2>2. /\ worker \in [1..MaxSources -> {"none", "load", "ok", "failed", "sent", "gave up"}]
        /\ phase \in {"idle", "load", "collect", "done", "err"}
    BY <1>2
  <2>3. /\ sources \in 1..MaxSources /\ taken \in 0..MaxSources /\ next \in 0..MaxSources + 1
        /\ received \in Nat
    BY <1>2, LoadingAssumption
  <2> QED  BY <1>2, <2>1, <2>2, <2>3 DEF LoadingTypeOK
<1>4. ResultsSound
  <2>1. Waiting = {} /\ Len(results) = 0
    BY <1>2 DEF Waiting
  <2> QED  BY <1>2, <2>1, FS_EmptySet DEF ResultsSound
<1>5. LoadingStarts /\ InLine /\ AtOnce /\ LoadingEnds
  BY <1>2 DEF LoadingStarts, InLine, AtOnce, LoadingEnds
<1> QED  BY <1>3, <1>4, <1>5 DEF LoadingInv

LEMMA LoadingSizes ==
  ASSUME LoadingInv
  PROVE  /\ sources \in 1..MaxSources /\ taken \in 0..MaxSources /\ next \in 0..MaxSources + 1
         /\ received \in Nat /\ MaxSources \in Nat \ {0} /\ Len(results) \in Nat
         /\ IsFiniteSet(Waiting) /\ Cardinality(Waiting) \in Nat
<1>1. IsFiniteSet(1..MaxSources) /\ Waiting \subseteq 1..MaxSources
  BY LoadingAssumption, FS_Interval DEF Waiting
<1>2. IsFiniteSet(Waiting) /\ Cardinality(Waiting) \in Nat
  BY <1>1, FS_Subset, FS_CardinalityType
<1>3. Len(results) \in Nat
  <2>1. results \in Seq([source : 1..MaxSources, failed : BOOLEAN])
    BY DEF LoadingInv, LoadingTypeOK
  <2> QED  BY <2>1, LenProperties
<1> QED  BY <1>2, <1>3, LoadingAssumption DEF LoadingInv, LoadingTypeOK

LEMMA LoadingTypes ==
  ASSUME LoadingInv
  PROVE  /\ strategy \in Strategies /\ holds \in [1..MaxSources -> Contents]
         /\ phase \in {"idle", "load", "collect", "done", "err"}
         /\ worker \in [1..MaxSources -> {"none", "load", "ok", "failed", "sent", "gave up"}]
         /\ ResultsSound /\ LoadingStarts /\ InLine /\ AtOnce /\ LoadingEnds
BY DEF LoadingInv, LoadingTypeOK

\* What is merged depends on nothing that a Load changes.
LEMMA MergedStays ==
  ASSUME UNCHANGED <<strategy, holds>>, NEW m, NEW S, IsMerged(m, S)
  PROVE  IsMerged(m, S)'
<1>1. \A w, s, k : Prevails(w, s, k)' <=> Prevails(w, s, k)
  BY DEF Prevails
<1>2. \A w, k : Wins(w, k, S)' <=> Wins(w, k, S)
  BY <1>1 DEF Wins
<1>3. \A w : Values(w)' = Values(w)
  BY DEF Values
<1> QED  BY <1>2, <1>3 DEF IsMerged

LEMMA LoadingResults ==
  ASSUME LoadingInv
  PROVE  /\ results \in Seq([source : 1..MaxSources, failed : BOOLEAN]) /\ Len(results) \in Nat
         /\ \A i \in 1..Len(results) : results[i].source \in 1..MaxSources
<1> DEFINE type == [source : 1..MaxSources, failed : BOOLEAN]
<1>1. results \in Seq(type)
  BY DEF LoadingInv, LoadingTypeOK
<1>2. \A r \in type : r.source \in 1..MaxSources
  OBVIOUS
<1> HIDE DEF type
<1>3. Len(results) \in Nat /\ results \in [1..Len(results) -> type]
  BY <1>1, LenProperties
<1>4. \A i \in 1..Len(results) : results[i] \in type
  BY <1>3
<1>5. \A i \in 1..Len(results) : results[i].source \in 1..MaxSources
  BY <1>2, <1>4
<1> QED  BY <1>1, <1>3, <1>5 DEF type

LEMMA AtOnceStays ==
  ASSUME LoadingInv, UNCHANGED <<strategy, holds, phase, received, merged>>,
         Collected' = Collected
  PROVE  AtOnce'
<1>1. AtOnce
  BY DEF LoadingInv
<1>2. CASE phase = "collect"
  <2>1. PICK m, S : m = merged /\ S = Collected
    OBVIOUS
  <2>2. IsMerged(m, S)'
    BY <1>1, <1>2, <2>1, MergedStays DEF AtOnce
  <2>3. m = merged' /\ S = Collected'
    BY <2>1
  <2>4. IsMerged(merged, Collected)'
    BY <2>2, <2>3
  <2> QED  BY <1>1, <1>2, <2>4 DEF AtOnce
<1>3. CASE phase # "collect"
  BY <1>3 DEF AtOnce
<1> QED  BY <1>2, <1>3

\* The steps that only move on: nothing is merged, and no goroutine moves.
LEMMA LoadingMoves ==
  ASSUME LoadingInv,
         \/ Add \/ NextFails \/ LoadEnds \/ CollectCancelled \/ UNCHANGED loadVars
  PROVE  LoadingInv'
<1>a. /\ sources \in 1..MaxSources /\ taken \in 0..MaxSources /\ next \in 0..MaxSources + 1
      /\ received \in Nat /\ MaxSources \in Nat \ {0} /\ Len(results) \in Nat
      /\ IsFiniteSet(Waiting) /\ Cardinality(Waiting) \in Nat
  BY LoadingSizes
<1>b. ResultsSound /\ LoadingStarts /\ InLine /\ AtOnce /\ LoadingEnds
  BY LoadingTypes
<1>1. /\ UNCHANGED <<strategy, holds, taken, next, worker, results, received, merged>>
      /\ sources' \in 1..MaxSources
      /\ \/ phase' = phase \/ phase' = "err"
         \/ phase' = "done" /\ phase = "load" /\ next > taken
  <2>1. CASE Add
    BY <2>1, <1>a DEF Add
  <2>2. CASE NextFails \/ LoadEnds \/ CollectCancelled \/ UNCHANGED loadVars
    BY <2>2, <1>a DEF NextFails, LoadEnds, CollectCancelled, loadVars
  <2> QED  BY <2>1, <2>2
<1>2. LoadingTypeOK'
  BY <1>1 DEF LoadingInv, LoadingTypeOK
<1>3. Waiting' = Waiting /\ Collected' = Collected
  BY <1>1 DEF Waiting, Collected
<1>4. ResultsSound'
  BY <1>1, <1>3 DEF LoadingInv, ResultsSound
<1>5. LoadingStarts'
  BY <1>1 DEF LoadingInv, LoadingStarts
<1>6. InLine'
  BY <1>1 DEF LoadingInv, InLine, IsMerged, Wins, Prevails, Values
<1>7. AtOnce'
  BY <1>1, <1>3 DEF LoadingInv, AtOnce, IsMerged, Wins, Prevails, Values
<1>8. LoadingEnds'
  <2>1. CASE phase' = "done" /\ phase = "load" /\ next > taken
    <3>1. strategy # "concurrent" /\ next = taken + 1 /\ IsMerged(merged, 1..next - 1)
      BY <2>1, <1>a, <1>b DEF InLine
    <3>2. 1..next - 1 = 1..taken
      BY <3>1, <1>a
    <3>3. IsMerged(merged, 1..taken)
      BY <3>1, <3>2
    <3>4. strategy' # "concurrent"
      BY <1>1, <3>1
    <3>5. IsMerged(merged, 1..taken)'
      <4>1. PICK m, S : m = merged /\ S = 1..taken
        OBVIOUS
      <4>2. IsMerged(m, S)'
        BY <1>1, <3>3, <4>1, MergedStays
      <4>3. m = merged' /\ S = 1..taken'
        BY <1>1, <4>1
      <4> QED  BY <4>2, <4>3
    <3> QED  BY <3>4, <3>5 DEF LoadingEnds
  <2>2. CASE phase' = phase \/ phase' = "err"
    BY <1>1, <2>2 DEF LoadingInv, LoadingEnds, IsMerged, Wins, Prevails, Values
  <2> QED  BY <1>1, <2>1, <2>2
<1> QED  BY <1>2, <1>4, <1>5, <1>6, <1>7, <1>8 DEF LoadingInv

\* Load copies the list, and starts a goroutine for each of its sources.
LEMMA LoadingBegins ==
  ASSUME LoadingInv, Begin
  PROVE  LoadingInv'
<1>a. /\ sources \in 1..MaxSources /\ taken \in 0..MaxSources /\ next \in 0..MaxSources + 1
      /\ received \in Nat /\ MaxSources \in Nat \ {0} /\ Len(results) \in Nat
      /\ IsFiniteSet(Waiting) /\ Cardinality(Waiting) \in Nat
  BY LoadingSizes
<1>b. ResultsSound /\ LoadingStarts /\ InLine /\ AtOnce /\ LoadingEnds
  BY LoadingTypes
<1>1. /\ UNCHANGED <<strategy, holds, sources, results, received, merged>>
      /\ phase = "idle" /\ taken' = sources /\ next' = 1
      /\ phase' = IF strategy = "concurrent" THEN "collect" ELSE "load"
      /\ worker' = IF strategy = "concurrent"
                      THEN [s \in 1..MaxSources |-> IF s <= sources THEN "load" ELSE "none"]
                      ELSE worker
  BY DEF Begin
<1>2. /\ received = 0 /\ merged = <<>> /\ results = <<>> /\ Len(results) = 0
      /\ \A s \in 1..MaxSources : worker[s] = "none"
  BY <1>1, <1>b DEF LoadingStarts
<1>3. worker' \in [1..MaxSources -> {"none", "load", "ok", "failed", "sent", "gave up"}]
  BY <1>1 DEF LoadingInv, LoadingTypeOK
<1>4. LoadingTypeOK'
  <2>1. taken' \in 0..MaxSources /\ next' \in 0..MaxSources + 1
    BY <1>1, <1>a
  <2> QED  BY <1>1, <1>3, <2>1 DEF LoadingInv, LoadingTypeOK
<1>5. DOMAIN merged' = {}
  BY <1>1, <1>2
<1>6. \A s \in 1..MaxSources :
        worker'[s] = IF strategy = "concurrent" /\ s <= sources THEN "load" ELSE "none"
  BY <1>1, <1>2
<1>7. Cardinality(Waiting') <= sources
  <2>1. CASE strategy = "concurrent"
    <3>1. Waiting' = 1..sources
      BY <1>6, <2>1, <1>a DEF Waiting
    <3>2. 1 \in Int /\ sources \in Int /\ ~(1 > sources) /\ sources - 1 + 1 = sources
      BY <1>a
    <3>3. Cardinality(1..sources) = sources
      BY <3>2, FS_Interval
    <3> QED  BY <3>1, <3>2, <3>3
  <2>2. CASE strategy # "concurrent"
    <3>1. Waiting' = {}
      BY <1>6, <2>2 DEF Waiting
    <3> QED  BY <3>1, FS_EmptySet, <1>a
  <2> QED  BY <2>1, <2>2
<1>8. ResultsSound'
  <2>1. Waiting' \subseteq 1..MaxSources
    BY DEF Waiting
  <2>2. Cardinality(Waiting') \in Nat
    <3>1. IsFiniteSet(1..MaxSources)
      BY <1>a, FS_Interval
    <3> QED  BY <2>1, <3>1, FS_Subset, FS_CardinalityType
  <2>3. Len(results') = 0
    BY <1>1, <1>2
  <2>4. Len(results') + Cardinality(Waiting') <= taken'
    BY <1>1, <1>7, <2>2, <2>3, <1>a
  <2>5. \A s \in 1..MaxSources : worker'[s] # "none" => s <= taken'
    BY <1>1, <1>6
  <2> QED  BY <2>3, <2>4, <2>5 DEF ResultsSound
<1>9. LoadingStarts' /\ LoadingEnds'
  BY <1>1, <1>2, <1>6 DEF LoadingStarts, LoadingEnds
<1>10. InLine'
  <2>1. 1..next' - 1 = {}
    BY <1>1
  <2>2. next' \in 1..taken' + 1
    BY <1>1, <1>a
  <2>3. phase' = "load" => strategy' # "concurrent"
    BY <1>1
  <2> QED  BY <1>5, <2>1, <2>2, <2>3 DEF InLine, IsMerged
<1>11. AtOnce'
  <2>1. Collected' = {}
    BY <1>6 DEF Collected
  <2>2. received' = Cardinality(Collected')
    BY <1>1, <1>2, <2>1, FS_EmptySet
  <2>3. phase' = "collect" => strategy' = "concurrent"
    BY <1>1
  <2> QED  BY <1>5, <2>1, <2>2, <2>3 DEF AtOnce, IsMerged
<1> QED  BY <1>4, <1>8, <1>9, <1>10, <1>11 DEF LoadingInv

\* Loader, ChainedLoader, MultiSource: one source after the other.
LEMMA LoadingInLine ==
  ASSUME LoadingInv, LoadNext
  PROVE  LoadingInv'
<1>a. /\ sources \in 1..MaxSources /\ taken \in 0..MaxSources /\ next \in 0..MaxSources + 1
      /\ received \in Nat /\ MaxSources \in Nat \ {0} /\ Len(results) \in Nat
      /\ IsFiniteSet(Waiting) /\ Cardinality(Waiting) \in Nat
  BY LoadingSizes
<1>b. ResultsSound /\ LoadingStarts /\ InLine /\ AtOnce /\ LoadingEnds
  BY LoadingTypes
<1>1. /\ UNCHANGED <<strategy, holds, sources, phase, taken, worker, results, received>>
      /\ phase = "load" /\ next <= taken /\ next' = next + 1
      /\ merged' = Merge(merged, Values(next))
  BY DEF LoadNext
<1>2. strategy # "concurrent" /\ next \in 1..taken + 1 /\ IsMerged(merged, 1..next - 1)
  BY <1>1, <1>a, <1>b DEF InLine
<1>3. IsMerged(merged', 1..next)
  <2>1. /\ 1..next - 1 \in SUBSET (1..MaxSources) /\ next \in (1..MaxSources) \ (1..next - 1)
        /\ \A s \in 1..next - 1 : s < next
    BY <1>1, <1>2, <1>a
  <2>2. strategy \in Strategies /\ holds \in [1..MaxSources -> Contents]
    BY LoadingTypes
  <2>3. IsMerged(Merge(merged, Values(next)), (1..next - 1) \cup {next})
    BY <1>2, <2>1, <2>2, MergeOne
  <2>4. (1..next - 1) \cup {next} = 1..next
    BY <1>2, <1>a
  <2> QED  BY <1>1, <2>3, <2>4
<1>4. LoadingTypeOK'
  <2>1. DOMAIN merged' \subseteq Keys
    <3>1. \A s \in 1..next : DOMAIN holds[s] \subseteq Keys
      <4>1. 1..next \subseteq 1..MaxSources
        BY <1>1, <1>2, <1>a
      <4>2. holds \in [1..MaxSources -> Contents]
        BY LoadingTypes
      <4> QED  BY <4>1, <4>2, ContentsType
    <3> QED  BY <1>3, <3>1 DEF IsMerged
  <2>2. next' \in 0..MaxSources + 1
    BY <1>1, <1>2, <1>a
  <2> QED  BY <1>1, <2>1, <2>2 DEF LoadingInv, LoadingTypeOK
<1>5. Waiting' = Waiting
  BY <1>1 DEF Waiting
<1>6. ResultsSound'
  BY <1>1, <1>5 DEF LoadingInv, ResultsSound
<1>7. LoadingStarts' /\ AtOnce' /\ LoadingEnds'
  BY <1>1, <1>2, <1>b DEF LoadingStarts, AtOnce, LoadingEnds
<1>8. InLine'
  <2>1. 1..next' - 1 = 1..next /\ next' \in 1..taken' + 1
    BY <1>1, <1>2, <1>a
  <2>2. PICK m, S : m = merged' /\ S = 1..next
    OBVIOUS
  <2>3. IsMerged(m, S)'
    BY <1>1, <1>3, <2>2, MergedStays
  <2>4. S = (1..next - 1)'
    BY <2>1, <2>2
  <2>5. IsMerged(merged, 1..next - 1)'
    BY <2>2, <2>3, <2>4
  <2> QED  BY <1>1, <1>2, <2>1, <2>5 DEF InLine
<1> QED  BY <1>4, <1>6, <1>7, <1>8 DEF LoadingInv

\* A goroutine that has not sent its result is one of a Load that is under
\* way or has given up.
LEMMA LoadingWorkers ==
  ASSUME LoadingInv, NEW s \in 1..MaxSources, worker[s] \in {"load", "ok", "failed"}
  PROVE  /\ strategy = "concurrent" /\ phase \in {"collect", "err"} /\ s <= taken
         /\ s \in Waiting /\ s \notin Collected
         /\ \A i \in 1..Len(results) : results[i].source # s
<1>1. strategy = "concurrent" /\ phase # "idle" /\ s <= taken
  BY DEF LoadingInv, LoadingStarts, ResultsSound
<1>2. s \in 1..taken
  BY <1>1, LoadingSizes
<1>3. phase \notin {"load", "done"}
  BY <1>1, <1>2 DEF LoadingInv, InLine, LoadingEnds
<1>4. phase \in {"collect", "err"}
  BY <1>1, <1>3, LoadingTypes
<1>5. \A i \in 1..Len(results) : worker[results[i].source] \in {"sent", "gave up"}
  BY DEF LoadingInv, ResultsSound
<1> QED  BY <1>1, <1>4, <1>5 DEF Waiting, Collected

LEMMA LoadingWorkerLoads ==
  ASSUME LoadingInv, NEW s \in 1..MaxSources, Loaded(s)
  PROVE  LoadingInv'
<1>1. /\ UNCHANGED <<strategy, holds, sources, phase, taken, next, results, received, merged>>
      /\ worker[s] = "load"
  BY DEF Loaded
<1>2. PICK w \in {"ok", "failed"} : worker' = [worker EXCEPT ![s] = w]
  BY DEF Loaded
<1>3. worker \in [1..MaxSources -> {"none", "load", "ok", "failed", "sent", "gave up"}]
  BY LoadingTypes
<1>4. /\ worker' \in [1..MaxSources -> {"none", "load", "ok", "failed", "sent", "gave up"}]
      /\ worker'[s] = w
      /\ \A o \in 1..MaxSources : o # s => worker'[o] = worker[o]
  BY <1>2, <1>3
<1>5. /\ strategy = "concurrent" /\ phase \in {"collect", "err"} /\ s <= taken
      /\ \A i \in 1..Len(results) : results[i].source # s
  BY <1>1, LoadingWorkers
<1>6. LoadingTypeOK'
  BY <1>1, <1>4 DEF LoadingInv, LoadingTypeOK
<1>7. Waiting' = Waiting /\ Collected' = Collected
  BY <1>1, <1>2, <1>4 DEF Waiting, Collected
<1>8. ResultsSound'
  <2>1. \A i \in 1..Len(results) :
          worker'[results[i].source] = IF results[i].failed THEN "gave up" ELSE "sent"
    <3>1. \A i \in 1..Len(results) : results[i].source \in 1..MaxSources
      BY LoadingResults
    <3> QED  BY <1>4, <1>5, <3>1 DEF LoadingInv, ResultsSound
  <2>2. \A o \in 1..MaxSources : worker'[o] # "none" => o <= taken
    BY <1>4, <1>5 DEF LoadingInv, ResultsSound
  <2> QED  BY <1>1, <1>7, <2>1, <2>2 DEF LoadingInv, ResultsSound
<1>9. LoadingStarts' /\ InLine' /\ LoadingEnds'
  BY <1>1, <1>5 DEF LoadingStarts, InLine, LoadingEnds
<1>10. AtOnce'
  BY <1>1, <1>7, AtOnceStays
<1> QED  BY <1>6, <1>8, <1>9, <1>10 DEF LoadingInv

LEMMA LoadingWorkerSends ==
  ASSUME LoadingInv, NEW s \in 1..MaxSources, Send(s)
  PROVE  LoadingInv'
<1> DEFINE message == [source |-> s, failed |-> worker[s] = "failed"]
           type == [source : 1..MaxSources, failed : BOOLEAN]
<1>1. /\ UNCHANGED <<strategy, holds, sources, phase, taken, next, received, merged>>
      /\ worker[s] \in {"ok", "failed"} /\ results' = Append(results, message)
      /\ worker' = [worker EXCEPT ![s] = IF @ = "ok" THEN "sent" ELSE "gave up"]
  BY DEF Send
<1>2. worker \in [1..MaxSources -> {"none", "load", "ok", "failed", "sent", "gave up"}]
  BY LoadingTypes
<1>3. /\ worker' \in [1..MaxSources -> {"none", "load", "ok", "failed", "sent", "gave up"}]
      /\ worker'[s] = IF worker[s] = "ok" THEN "sent" ELSE "gave up"
      /\ \A o \in 1..MaxSources : o # s => worker'[o] = worker[o]
  BY <1>1, <1>2
<1>4. /\ strategy = "concurrent" /\ phase \in {"collect", "err"} /\ s <= taken
      /\ s \in Waiting /\ s \notin Collected
      /\ \A i \in 1..Len(results) : results[i].source # s
  BY <1>1, LoadingWorkers
<1>5. results \in Seq(type) /\ message \in type
  BY DEF LoadingInv, LoadingTypeOK
<1>6. message.source = s /\ message.failed = (worker[s] = "failed")
  OBVIOUS
<1> HIDE DEF message
<1>7. /\ results' \in Seq(type) /\ Len(results') = Len(results) + 1
      /\ \A i \in 1..Len(results) : results'[i] = results[i] /\ results[i].source \in 1..MaxSources
      /\ results'[Len(results) + 1] = message /\ Len(results) \in Nat
  <2>1. Len(results) \in Nat /\ \A i \in 1..Len(results) : results[i].source \in 1..MaxSources
    BY LoadingResults
  <2> HIDE DEF type
  <2>2. /\ Append(results, message) \in Seq(type)
        /\ Len(Append(results, message)) = Len(results) + 1
        /\ \A i \in 1..Len(results) : Append(results, message)[i] = results[i]
        /\ Append(results, message)[Len(results) + 1] = message
    BY <1>5, AppendProperties
  <2> QED  BY <1>1, <2>1, <2>2
<1>8. LoadingTypeOK'
  BY <1>1, <1>3, <1>7 DEF LoadingInv, LoadingTypeOK
<1>9. 1..Len(results') = 1..Len(results) \cup {Len(results) + 1}
  BY <1>7
<1>10. Waiting' = Waiting \ {s}
  BY <1>1, <1>3 DEF Waiting
<1>11. Collected' = Collected
  <2>1. ASSUME NEW o \in 1..MaxSources, o # s
        PROVE  o \in Collected' <=> o \in Collected
    <3>1. (\A i \in 1..Len(results') : results'[i].source # o) <=>
          (\A i \in 1..Len(results) : results[i].source # o)
      BY <1>6, <1>7, <1>9, <2>1
    <3>2. worker'[o] = worker[o]
      BY <1>3, <2>1
    <3> QED  BY <3>1, <3>2 DEF Collected
  <2>2. s \notin Collected'
    BY <1>6, <1>7, <1>9 DEF Collected
  <2>3. Collected \subseteq 1..MaxSources /\ Collected' \subseteq 1..MaxSources
    BY DEF Collected
  <2>4. s \notin Collected
    BY <1>4
  <2>5. \A o \in 1..MaxSources : o \in Collected' <=> o \in Collected
    BY <2>1, <2>2, <2>4
  <2>6. \A o : o \in Collected' <=> o \in Collected
    BY <2>3, <2>5
  <2> QED  BY <2>6
<1>12. ResultsSound'
  <2>1. \A i \in 1..Len(results') :
          worker'[results'[i].source] = IF results'[i].failed THEN "gave up" ELSE "sent"
    <3>1. \A i \in 1..Len(results) :
            worker'[results[i].source] = IF results[i].failed THEN "gave up" ELSE "sent"
      BY <1>3, <1>4, <1>7 DEF LoadingInv, ResultsSound
    <3>2. worker'[message.source] = IF message.failed THEN "gave up" ELSE "sent"
      BY <1>1, <1>3, <1>6
    <3> QED  BY <1>7, <1>9, <3>1, <3>2
  <2>2. \A i, j \in 1..Len(results') : results'[i].source = results'[j].source => i = j
    <3>1. \A i, j \in 1..Len(results) : results[i].source = results[j].source => i = j
      BY DEF LoadingInv, ResultsSound
    <3> QED  BY <1>4, <1>6, <1>7, <1>9, <3>1
  <2>3. \A o \in 1..MaxSources : worker'[o] # "none" => o <= taken'
    BY <1>1, <1>3, <1>4 DEF LoadingInv, ResultsSound
  <2>4. Len(results') + Cardinality(Waiting') <= taken'
    <3>1. IsFiniteSet(Waiting) /\ Cardinality(Waiting) \in Nat /\ taken \in Nat
      BY LoadingSizes
    <3>2. Cardinality(Waiting') = Cardinality(Waiting) - 1
      BY <1>4, <1>10, <3>1, FS_RemoveElement
    <3>3. Len(results) + Cardinality(Waiting) <= taken
      BY DEF LoadingInv, ResultsSound
    <3>4. taken' = taken
      BY <1>1
    <3> QED  BY <1>7, <3>1, <3>2, <3>3, <3>4
  <2> QED  BY <2>1, <2>2, <2>3, <2>4 DEF ResultsSound
<1>13. LoadingStarts' /\ InLine' /\ LoadingEnds'
  BY <1>1, <1>4 DEF LoadingStarts, InLine, LoadingEnds
<1>14. AtOnce'
  BY <1>1, <1>11, AtOnceStays
<1> QED  BY <1>8, <1>12, <1>13, <1>14 DEF LoadingInv

\* ConcurrentLoader.Load takes a message, and merges what it brings.
LEMMA LoadingCollects ==
  ASSUME LoadingInv, Collect
  PROVE  LoadingInv'
<1> DEFINE type == [source : 1..MaxSources, failed : BOOLEAN]
           n == results[1].source
<1>1. /\ UNCHANGED <<strategy, holds, sources, taken, next, worker>>
      /\ phase = "collect" /\ received < taken /\ results # <<>> /\ results' = Tail(results)
      /\ Head(results).failed => phase' = "err" /\ UNCHANGED <<received, merged>>
      /\ ~Head(results).failed => /\ merged' = Merge(merged, Values(Head(results).source))
                                  /\ received' = received + 1 /\ phase' = phase
  BY DEF Collect
<1>2. /\ results \in Seq(type) /\ Len(results) \in Nat
      /\ \A i \in 1..Len(results) : results[i].source \in 1..MaxSources
  BY LoadingResults
<1>3. /\ Tail(results) \in Seq(type) /\ Len(Tail(results)) = Len(results) - 1
      /\ \A i \in 1..Len(Tail(results)) : Tail(results)[i] = results[i + 1]
  <2> HIDE DEF type
  <2> QED  BY <1>1, <1>2, HeadTailProperties
<1>4. Len(results) >= 1 /\ Head(results) = results[1]
  <2>1. Len(results) # 0
    BY <1>1, <1>2
  <2> QED  BY <1>2, <2>1
<1>5. /\ results' \in Seq(type) /\ Len(results') = Len(results) - 1
      /\ \A i \in 1..Len(results') : i + 1 \in 1..Len(results) /\ results'[i] = results[i + 1]
  BY <1>1, <1>2, <1>3, <1>4
<1>6. 1 \in 1..Len(results) /\ n \in 1..MaxSources
  BY <1>2, <1>4
<1>7. /\ \A i \in 1..Len(results) :
            worker[results[i].source] = IF results[i].failed THEN "gave up" ELSE "sent"
      /\ \A i, j \in 1..Len(results) : results[i].source = results[j].source => i = j
      /\ \A s \in 1..MaxSources : worker[s] # "none" => s <= taken
      /\ Len(results) + Cardinality(Waiting) <= taken
  BY DEF LoadingInv, ResultsSound
<1>8. strategy = "concurrent" /\ received = Cardinality(Collected) /\ IsMerged(merged, Collected)
  BY <1>1 DEF LoadingInv, AtOnce
<1>9. strategy \in Strategies /\ holds \in [1..MaxSources -> Contents]
  BY LoadingTypes
<1>10. ResultsSound'
  <2>1. \A i \in 1..Len(results') :
          worker'[results'[i].source] = IF results'[i].failed THEN "gave up" ELSE "sent"
    <3>1. \A i \in 1..Len(results') : i + 1 \in 1..Len(results) /\ results'[i] = results[i + 1]
      BY <1>5
    <3>2. worker' = worker
      BY <1>1
    <3>3. \A i \in 1..Len(results) :
            worker[results[i].source] = IF results[i].failed THEN "gave up" ELSE "sent"
      BY <1>7
    <3>4. ASSUME NEW i \in 1..Len(results')
          PROVE  worker'[results'[i].source] = IF results'[i].failed THEN "gave up" ELSE "sent"
      <4>1. PICK j \in 1..Len(results) : j = i + 1
        BY <3>1
      <4>2. results'[i] = results[j]
        BY <3>1, <4>1
      <4> QED  BY <3>2, <3>3, <4>2
    <3> QED  BY <3>4
  <2>2. \A i, j \in 1..Len(results') : results'[i].source = results'[j].source => i = j
    <3>1. ASSUME NEW i \in 1..Len(results'), NEW j \in 1..Len(results'),
                 results'[i].source = results'[j].source
          PROVE  i = j
      <4>1. i + 1 \in 1..Len(results) /\ j + 1 \in 1..Len(results)
        BY <1>2, <1>5
      <4>2. results[i + 1].source = results[j + 1].source
        BY <1>5, <3>1
      <4>3. i + 1 = j + 1
        BY <1>7, <4>1, <4>2
      <4> QED  BY <1>2, <1>5, <4>3
    <3> QED  BY <3>1
  <2>3. Len(results') + Cardinality(Waiting') <= taken'
    <3>1. Waiting' = Waiting /\ taken' = taken
      BY <1>1 DEF Waiting
    <3>2. Cardinality(Waiting) \in Nat /\ taken \in Nat
      BY LoadingSizes
    <3>3. Len(results) \in Nat /\ Len(results) + Cardinality(Waiting) <= taken
      BY <1>2, <1>7
    <3>4. Len(results') = Len(results) - 1
      BY <1>5
    <3> QED  BY <3>1, <3>2, <3>3, <3>4
  <2>4. \A s \in 1..MaxSources : worker'[s] # "none" => s <= taken'
    BY <1>1, <1>7
  <2> QED  BY <2>1, <2>2, <2>3, <2>4 DEF ResultsSound
<1>11. CASE Head(results).failed
  <2>1. phase' = "err" /\ received' = received /\ merged' = merged
    BY <1>1, <1>11
  <2>2. LoadingTypeOK'
    BY <1>1, <1>5, <2>1 DEF LoadingInv, LoadingTypeOK
  <2>3. LoadingStarts' /\ InLine' /\ AtOnce' /\ LoadingEnds'
    BY <1>1, <1>8, <2>1 DEF LoadingStarts, InLine, AtOnce, LoadingEnds
  <2> QED  BY <1>10, <2>2, <2>3 DEF LoadingInv
<1>12. CASE ~Head(results).failed
  <2>1. phase' = "collect" /\ received' = received + 1 /\ merged' = Merge(merged, Values(n))
    BY <1>1, <1>4, <1>12
  <2>2. worker[n] = "sent"
    BY <1>4, <1>6, <1>7, <1>12
  <2>3. n \notin Collected
    BY <1>6 DEF Collected
  <2>4. Collected' = Collected \cup {n}
    <3>1. ASSUME NEW s \in 1..MaxSources, s # n
          PROVE  s \in Collected' <=> s \in Collected
      <4>1. \A i \in 1..Len(results) : i = 1 \/ i - 1 \in 1..Len(results')
        BY <1>2, <1>5
      <4>2. \A i \in 1..Len(results) : i - 1 + 1 = i
        BY <1>2
      <4>3. \A i \in 1..Len(results) : i = 1 \/ results[i] = results'[i - 1]
        BY <1>5, <4>1, <4>2
      <4>4. \A i \in 1..Len(results') : i + 1 \in 1..Len(results) /\ results'[i] = results[i + 1]
        BY <1>5
      <4>5. ASSUME \A i \in 1..Len(results') : results'[i].source # s,
                   NEW i \in 1..Len(results)
            PROVE  results[i].source # s
        <5>1. CASE i = 1
          BY <1>6, <3>1, <5>1
        <5>2. CASE i # 1
          BY <4>1, <4>3, <4>5, <5>2
        <5> QED  BY <5>1, <5>2
      <4>6. ASSUME \A i \in 1..Len(results) : results[i].source # s,
                   NEW i \in 1..Len(results')
            PROVE  results'[i].source # s
        BY <4>4, <4>6
      <4> QED  BY <1>1, <4>5, <4>6 DEF Collected
    <3>2. \A i \in 1..Len(results') : results'[i].source # n
      <4>1. ASSUME NEW i \in 1..Len(results'), results'[i].source = n
            PROVE  FALSE
        <5>1. i + 1 \in 1..Len(results) /\ results[i + 1].source = results[1].source
          BY <1>2, <1>5, <4>1
        <5>2. i + 1 = 1
          BY <1>6, <1>7, <5>1
        <5> QED  BY <1>2, <1>5, <5>2
      <4> QED  BY <4>1
    <3>3. n \in Collected'
      BY <1>1, <1>6, <2>2, <3>2 DEF Collected
    <3>4. Collected \subseteq 1..MaxSources /\ Collected' \subseteq 1..MaxSources
      BY DEF Collected
    <3> HIDE DEF n
    <3>5. \A s \in 1..MaxSources : s \in Collected' <=> s \in Collected \cup {n}
      BY <3>1, <3>3
    <3>6. \A s : s \in Collected' <=> s \in Collected \cup {n}
      BY <1>6, <3>4, <3>5
    <3> QED  BY <3>6
  <2>5. received' = Cardinality(Collected')
    <3>1. IsFiniteSet(1..MaxSources) /\ Collected \subseteq 1..MaxSources
      BY LoadingAssumption, FS_Interval DEF Collected
    <3>2. IsFiniteSet(Collected)
      BY <3>1, FS_Subset
    <3> QED  BY <1>8, <2>1, <2>3, <2>4, <3>2, FS_AddElement
  <2>6. IsMerged(Merge(merged, Values(n)), Collected \cup {n})
    <3>1. Collected \in SUBSET (1..MaxSources) /\ n \in (1..MaxSources) \ Collected
      BY <1>6, <2>3 DEF Collected
    <3> HIDE DEF n
    <3> QED  BY <1>8, <1>9, <3>1, MergeOne
  <2>7. IsMerged(merged, Collected)'
    <3>1. PICK m, S : m = Merge(merged, Values(n)) /\ S = Collected \cup {n}
      OBVIOUS
    <3>2. IsMerged(m, S)'
      BY <1>1, <2>6, <3>1, MergedStays
    <3>3. m = merged' /\ S = Collected'
      BY <2>1, <2>4, <3>1
    <3> QED  BY <3>2, <3>3
  <2>8. LoadingTypeOK'
    <3>1. DOMAIN merged' \subseteq Keys
      <4>1. DOMAIN merged' = UNION {DOMAIN holds[s] : s \in Collected \cup {n}}
        BY <2>1, <2>6 DEF IsMerged
      <4>2. Collected \cup {n} \subseteq 1..MaxSources
        BY <1>6 DEF Collected
      <4>3. \A s \in 1..MaxSources : DOMAIN holds[s] \subseteq Keys
        BY <1>9, ContentsType
      <4> QED  BY <4>1, <4>2, <4>3
    <3>2. received' \in Nat
      BY <2>1, LoadingSizes
    <3> QED  BY <1>1, <1>5, <2>1, <3>1, <3>2 DEF LoadingInv, LoadingTypeOK
  <2>9. AtOnce'
    BY <1>1, <1>8, <2>5, <2>7 DEF AtOnce
  <2>10. LoadingStarts' /\ InLine' /\ LoadingEnds'
    BY <1>1, <1>8, <2>1 DEF LoadingStarts, InLine, LoadingEnds
  <2> QED  BY <1>10, <2>8, <2>9, <2>10 DEF LoadingInv
<1> QED  BY <1>11, <1>12

\* Each of the taken sources has been collected when as many have been.
LEMMA LoadingCollected ==
  ASSUME LoadingInv, CollectEnds
  PROVE  LoadingInv'
<1>1. /\ UNCHANGED <<strategy, holds, sources, taken, next, worker, results, received, merged>>
      /\ phase = "collect" /\ received = taken /\ phase' = "done"
  BY DEF CollectEnds
<1>2. strategy = "concurrent" /\ received = Cardinality(Collected) /\ IsMerged(merged, Collected)
  BY <1>1 DEF LoadingInv, AtOnce
<1>3. Collected = 1..taken
  <2>1. taken \in 0..MaxSources /\ taken \in Int /\ 1 \in Int
    BY LoadingSizes
  <2>2. Collected \subseteq 1..taken
    <3>1. \A s \in Collected : s \in 1..MaxSources /\ s <= taken
      BY DEF LoadingInv, ResultsSound, Collected
    <3> QED  BY <2>1, <3>1
  <2>3. IsFiniteSet(1..taken) /\ Cardinality(1..taken) = taken
    <3>1. Cardinality(1..taken) = IF 1 > taken THEN 0 ELSE taken - 1 + 1
      BY <2>1, FS_Interval
    <3>2. (IF 1 > taken THEN 0 ELSE taken - 1 + 1) = taken
      BY <2>1
    <3> QED  BY <2>1, <3>1, <3>2, FS_Interval
  <2>4. Cardinality(1..taken) = Cardinality(Collected)
    BY <1>1, <1>2, <2>3
  <2> QED  BY <2>2, <2>3, <2>4, FS_Subset
<1>4. LoadingTypeOK'
  BY <1>1 DEF LoadingInv, LoadingTypeOK
<1>5. Waiting' = Waiting
  BY <1>1 DEF Waiting
<1>6. ResultsSound'
  BY <1>1, <1>5 DEF LoadingInv, ResultsSound
<1>7. LoadingStarts' /\ InLine' /\ AtOnce'
  BY <1>1, <1>2 DEF LoadingStarts, InLine, AtOnce
<1>8. LoadingEnds'
  <2>1. PICK m, S : m = merged /\ S = 1..taken
    OBVIOUS
  <2>2. IsMerged(m, S)'
    BY <1>1, <1>2, <1>3, <2>1, MergedStays
  <2>3. m = merged' /\ S = 1..taken'
    BY <1>1, <2>1
  <2>4. IsMerged(merged, 1..taken)'
    BY <2>2, <2>3
  <2>5. \A s \in 1..taken' : worker'[s] = "sent"
    BY <1>1, <1>3 DEF Collected
  <2> QED  BY <2>4, <2>5 DEF LoadingEnds
<1> QED  BY <1>4, <1>6, <1>7, <1>8 DEF LoadingInv

LEMMA LoadingInvHolds == LoadingSpec => []LoadingInv
<1>1. LoadingInv /\ [LoadingNext]_loadVars => LoadingInv'
  <2> SUFFICES ASSUME LoadingInv, [LoadingNext]_loadVars PROVE LoadingInv'
    OBVIOUS
  <2>1. CASE \/ Add \/ NextFails \/ LoadEnds \/ CollectCancelled \/ UNCHANGED loadVars
    BY <2>1, LoadingMoves
  <2>2. CASE Begin
    BY <2>2, LoadingBegins
  <2>3. CASE LoadNext
    BY <2>3, LoadingInLine
  <2>4. CASE Collect
    BY <2>4, LoadingCollects
  <2>5. CASE CollectEnds
    BY <2>5, LoadingCollected
  <2>6. CASE \E s \in 1..MaxSources : Loaded(s) \/ Send(s)
    BY <2>6, LoadingWorkerLoads, LoadingWorkerSends
  <2> QED  BY <2>1, <2>2, <2>3, <2>4, <2>5, <2>6 DEF LoadingNext
<1> QED  BY <1>1, LoadingInitInv, PTL DEF LoadingSpec

\* A Load that succeeds has the result of each of its sources, and whenever a
\* goroutine has a result to send, the channel has room for it, whether the
\* Load still collects or has given up (ConcurrentLoader.Load).
THEOREM WorkersNeverBlock == LoadingSpec => []WorkersFinish
<1>1. LoadingInv => WorkersFinish
  <2> SUFFICES ASSUME LoadingInv PROVE WorkersFinish
    OBVIOUS
  <2>1. phase = "done" => \A s \in 1..taken : strategy = "concurrent" => worker[s] = "sent"
    BY DEF LoadingInv, LoadingEnds
  <2>2. ASSUME NEW s \in 1..MaxSources, worker[s] \in {"ok", "failed"}
        PROVE  Len(results) < ResultsRoom
    <3>1. s \in Waiting
      BY <2>2 DEF Waiting
    <3>2. /\ IsFiniteSet(Waiting) /\ Cardinality(Waiting) \in Nat
          /\ Len(results) \in Nat /\ taken \in Nat
      BY LoadingSizes
    <3>3. Cardinality(Waiting) # 0
      BY <3>1, <3>2, FS_EmptySet
    <3>4. Len(results) + Cardinality(Waiting) <= taken
      BY DEF LoadingInv, ResultsSound
    <3> QED  BY <3>2, <3>3, <3>4 DEF ResultsRoom
  <2> QED  BY <2>1, <2>2 DEF WorkersFinish
<1> QED  BY <1>1, LoadingInvHolds, PTL

LEMMA MergedByTheWinners ==
  ASSUME LoadingInv, phase = "done"
  PROVE  AllMerged
<1>1. IsMerged(merged, 1..taken)
  BY DEF LoadingInv, LoadingEnds
<1>2. ASSUME NEW k \in DOMAIN merged
      PROVE  \E s \in Winners(k) : merged[k] = Values(s)[k]
  <2>1. PICK w \in 1..taken : Wins(w, k, 1..taken) /\ merged[k] = Values(w)[k]
    BY <1>1 DEF IsMerged
  <2>2. w \in Holders(k) /\ \A s \in Holders(k) : Prevails(w, s, k)
    BY <2>1 DEF Wins, Holders
  <2>3. \A s \in Holders(k) : s \in 1..taken /\ s \in Nat /\ holds[s][k] \in Nat
    <3>1. holds \in [1..MaxSources -> Contents]
      BY LoadingTypes
    <3>2. 1..taken \subseteq 1..MaxSources
      BY LoadingSizes
    <3>3. \A s \in Holders(k) : s \in 1..taken /\ k \in DOMAIN holds[s]
      BY DEF Holders
    <3> QED  BY <3>1, <3>2, <3>3, ContentsType
  <2>4. w \in Winners(k)
    <3>1. CASE strategy = "priority"
      <4>1. \A s \in Holders(k) : holds[w][k] >= holds[s][k] /\ (holds[w][k] = holds[s][k] => w <= s)
        BY <2>2, <2>3, <3>1 DEF Prevails
      <4>2. w \in Best(k)
        BY <2>2, <4>1 DEF Best
      <4>3. \A s \in Best(k) : s \in Holders(k) /\ holds[s][k] >= holds[w][k]
        BY <2>2 DEF Best
      <4>4. \A s \in Best(k) : w <= s
        <5>1. ASSUME NEW s \in Best(k) PROVE w <= s
          <6>1. holds[s][k] \in Nat /\ holds[w][k] \in Nat
            BY <2>2, <2>3, <4>3
          <6>2. holds[w][k] >= holds[s][k] /\ holds[s][k] >= holds[w][k]
            BY <4>1, <4>3
          <6>3. holds[w][k] = holds[s][k]
            BY <6>1, <6>2
          <6> QED  BY <4>1, <4>3, <6>3
        <5> QED  BY <5>1
      <4> QED  BY <3>1, <4>2, <4>4 DEF Winners, First
    <3>2. CASE strategy = "concurrent"
      <4>1. \A s \in Holders(k) : holds[w][k] >= holds[s][k]
        BY <2>2, <2>3, <3>2 DEF Prevails
      <4> QED  BY <2>2, <3>2, <4>1 DEF Winners, Best
    <3>3. CASE strategy = "merge-first"
      BY <2>2, <3>3 DEF Winners, First, Prevails
    <3>4. CASE strategy \in {"chained", "merge-last"}
      BY <2>2, <3>4 DEF Winners, Latest, Prevails
    <3> QED  BY <3>1, <3>2, <3>3, <3>4, LoadingTypes DEF Strategies
  <2> QED  BY <2>1, <2>4
<1> QED  BY <1>1, <1>2 DEF AllMerged, IsMerged

-----------------------------------------------------------------------------
(* Resolver.  Induction over the numbers of values and of sources, with    *)
(* the set of the numbers that something holds for.                        *)

LEMMA Induction ==
  ASSUME NEW T \in SUBSET Nat, 0 \in T, \A n \in T : n + 1 \in T
  PROVE  T = Nat
<1> SUFFICES ASSUME T # Nat PROVE FALSE
  OBVIOUS
<1> DEFINE less == {ss \in Nat \X Nat : ss[1] < ss[2]}
           rest == Nat \ T
<1>1. rest \subseteq Nat /\ rest # {}
  OBVIOUS
<1>2. IsWellFoundedOn(less, Nat)
  BY NatLessThanWellFounded DEF OpToRel
<1>3. \A m, n \in Nat : m < n => <<m, n>> \in less
  OBVIOUS
<1> HIDE DEF less, rest
<1>4. PICK n \in rest : \A m \in rest : ~(<<m, n>> \in less)
  BY <1>1, <1>2, WFMin
<1> USE DEF rest
<1>5. n \in Nat /\ n # 0
  BY <1>4
<1>6. n - 1 \in Nat /\ n - 1 < n /\ n - 1 + 1 = n
  BY <1>5
<1>7. n - 1 \in T
  BY <1>3, <1>4, <1>5, <1>6
<1> QED  BY <1>4, <1>6, <1>7

\* What the recursive definition says is so.
LEMMA BestSoFarLoop ==
  ASSUME NEW n \in Nat, NEW values, DOMAIN values = 1..n
  PROVE  LET best == BestSoFar(values)
         IN  \A i \in 1..n :
                best[i] = IF i = 1 THEN values[1]
                          ELSE IF values[i].priority > best[i - 1].priority
                               THEN values[i] ELSE best[i - 1]
<1> DEFINE Step(g, i) == IF i = 1 THEN values[1]
                         ELSE IF values[i].priority > g[i - 1].priority
                              THEN values[i] ELSE g[i - 1]
           T == {m \in Nat : \E g : g = [i \in 1..m |-> Step(g, i)]}
<1>1. 0 \in T
  <2>1. \A g : 1..0 = {} /\ [i \in 1..0 |-> Step(g, i)] = [i \in 1..0 |-> 0]
    OBVIOUS
  <2> QED  BY <2>1
<1>2. ASSUME NEW m \in T PROVE m + 1 \in T
  <2>1. PICK g : g = [i \in 1..m |-> Step(g, i)]
    OBVIOUS
  <2> DEFINE h == [i \in 1..m + 1 |-> IF i <= m THEN g[i] ELSE Step(g, i)]
  <2>2. m \in Nat
    OBVIOUS
  <2>3. ASSUME NEW i \in 1..m + 1 PROVE h[i] = Step(h, i)
    <3>1. h[i] = Step(g, i)
      <4>1. CASE i <= m
        <5>1. i \in 1..m
          BY <2>2, <4>1
        <5> QED  BY <2>1, <4>1, <5>1
      <4>2. CASE ~(i <= m)
        BY <4>2
      <4> QED  BY <4>1, <4>2
    <3>2. i # 1 => i - 1 \in 1..m + 1 /\ i - 1 <= m
      BY <2>2
    <3>3. i # 1 => h[i - 1] = g[i - 1]
      BY <3>2
    <3> QED  BY <3>1, <3>3
  <2> HIDE DEF Step
  <2>4. h = [i \in 1..m + 1 |-> Step(h, i)]
    BY <2>3
  <2> HIDE DEF h
  <2>5. \E f : f = [i \in 1..m + 1 |-> Step(f, i)]
    BY <2>4
  <2>6. m + 1 \in Nat
    BY <2>2
  <2> QED  BY <2>5, <2>6
<1>3. T = Nat
  <2> HIDE DEF T
  <2>1. T \subseteq Nat
    BY DEF T
  <2> QED  BY <1>1, <1>2, <2>1, Induction
<1>4. PICK g : g = [i \in 1..n |-> Step(g, i)]
  <2>1. n \in T
    BY <1>3
  <2> HIDE DEF Step
  <2> QED  BY <2>1
<1>5. BestSoFar(values) = CHOOSE best : best = [i \in 1..n |-> Step(best, i)]
  BY DEF BestSoFar
<1> DEFINE best == BestSoFar(values)
<1>6. best = [i \in 1..n |-> Step(best, i)]
  <2> HIDE DEF Step
  <2> QED  BY <1>4, <1>5
<1> HIDE DEF best
<1>7. \A i \in 1..n : best[i] = Step(best, i)
  <2> HIDE DEF Step
  <2> QED  BY <1>6
<1> QED  BY <1>7 DEF best

\* The loop ends with the first of the values of the highest priority.
LEMMA BestIsFirst ==
  ASSUME NEW n \in Nat \ {0}, NEW values, DOMAIN values = 1..n,
         \A i \in 1..n : values[i].priority \in Nat
  PROVE  \E j \in 1..n :
            /\ BestSoFar(values)[n] = values[j]
            /\ \A m \in 1..n : /\ values[j].priority >= values[m].priority
                               /\ values[j].priority = values[m].priority => j <= m
<1> DEFINE best == BestSoFar(values)
           IsBest(j, i) ==
              \A m \in 1..i : /\ values[j].priority >= values[m].priority
                              /\ values[j].priority = values[m].priority => j <= m
           T == {i \in Nat : i + 1 <= n => \E j \in 1..i + 1 : best[i + 1] = values[j] /\ IsBest(j, i + 1)}
<1>1. \A i \in 1..n :
         best[i] = IF i = 1 THEN values[1]
                   ELSE IF values[i].priority > best[i - 1].priority
                        THEN values[i] ELSE best[i - 1]
  BY BestSoFarLoop
<1> HIDE DEF best
<1>2. 0 \in T
  <2>1. best[1] = values[1] /\ IsBest(1, 1)
    BY <1>1
  <2> QED  BY <2>1
<1>3. ASSUME NEW i \in T PROVE i + 1 \in T
  <2> SUFFICES ASSUME i + 1 + 1 <= n
               PROVE  \E j \in 1..i + 1 + 1 : best[i + 1 + 1] = values[j] /\ IsBest(j, i + 1 + 1)
    OBVIOUS
  <2>1. i \in Nat /\ i + 1 <= n
    OBVIOUS
  <2>2. PICK j \in 1..i + 1 : best[i + 1] = values[j] /\ IsBest(j, i + 1)
    BY <2>1
  <2> DEFINE next1 == i + 1 + 1
  <2>3. /\ next1 \in 1..n /\ next1 # 1 /\ next1 - 1 = i + 1 /\ j \in 1..n /\ j <= i + 1 /\ j <= next1
        /\ \A m \in 1..next1 : m \in 1..i + 1 \/ m = next1
        /\ values[j].priority \in Nat /\ values[next1].priority \in Nat
        /\ \A m \in 1..i + 1 : m \in 1..n /\ values[m].priority \in Nat
    BY <2>1
  <2>4. best[next1] = IF values[next1].priority > values[j].priority THEN values[next1] ELSE values[j]
    BY <1>1, <2>2, <2>3
  <2>5. CASE values[next1].priority > values[j].priority
    <3>1. \A m \in 1..i + 1 : values[next1].priority > values[m].priority
      BY <2>2, <2>3, <2>5
    <3>2. IsBest(next1, next1)
      BY <2>3, <3>1
    <3> QED  BY <2>3, <2>4, <2>5, <3>2
  <2>6. CASE ~(values[next1].priority > values[j].priority)
    <3>1. values[j].priority >= values[next1].priority
      BY <2>3, <2>6
    <3>2. IsBest(j, next1)
      BY <2>2, <2>3, <3>1
    <3> QED  BY <2>3, <2>4, <2>6, <3>2
  <2> QED  BY <2>5, <2>6
<1>4. T = Nat
  <2> HIDE DEF T
  <2>1. T \subseteq Nat
    BY DEF T
  <2> QED  BY <1>2, <1>3, <2>1, Induction
<1>5. n - 1 \in Nat /\ n - 1 + 1 = n
  OBVIOUS
<1>6. n - 1 \in T
  <2> HIDE DEF T
  <2> QED  BY <1>4, <1>5
<1>7. \E j \in 1..n : best[n] = values[j] /\ IsBest(j, n)
  BY <1>5, <1>6
<1> QED  BY <1>7 DEF best

\* The sources can be listed in order.
LEMMA ListingExists ==
  ASSUME taken \in Nat, NEW S \in SUBSET (1..taken)
  PROVE  Listings(S) # {}
<1> DEFINE Lists(list, m, n) ==
              /\ list \in [1..m -> S]
              /\ \A i \in 1..m : list[i] <= n
              /\ \A s \in S : s <= n => \E i \in 1..m : list[i] = s
              /\ \A i, j \in 1..m : i < j => list[i] < list[j]
           T == {n \in Nat : n <= taken => \E m \in 0..n : \E list : Lists(list, m, n)}
<1>1. 0 \in T
  <2>1. Lists([i \in 1..0 |-> 0], 0, 0)
    OBVIOUS
  <2> HIDE DEF Lists
  <2>2. \E m \in 0..0 : \E list : Lists(list, m, 0)
    BY <2>1
  <2> QED  BY <2>2
<1>2. ASSUME NEW n \in T PROVE n + 1 \in T
  <2> SUFFICES ASSUME n + 1 <= taken
               PROVE  \E m \in 0..n + 1 : \E list : Lists(list, m, n + 1)
    OBVIOUS
  <2>1. n \in Nat /\ n <= taken
    OBVIOUS
  <2>2. PICK m \in 0..n : \E list : Lists(list, m, n)
    BY <2>1
  <2>3. PICK list : Lists(list, m, n)
    BY <2>2
  <2>4. \A i \in 1..m : list[i] \in S /\ list[i] \in Nat
    <3>1. \A i \in 1..m : list[i] \in S
      BY <2>3
    <3>2. S \subseteq Nat
      OBVIOUS
    <3> QED  BY <3>1, <3>2
  <2>5. CASE n + 1 \notin S
    <3>1. \A s \in S : s <= n + 1 => s <= n
      BY <2>1, <2>5
    <3>2. \A i \in 1..m : list[i] <= n + 1
      BY <2>1, <2>3, <2>4
    <3>3. Lists(list, m, n + 1)
      BY <2>3, <3>1, <3>2
    <3>4. m \in 0..n + 1
      BY <2>1
    <3> QED  BY <3>3, <3>4
  <2>6. CASE n + 1 \in S
    <3> DEFINE more == [i \in 1..m + 1 |-> IF i <= m THEN list[i] ELSE n + 1]
    <3>1. /\ \A i \in 1..m : i \in 1..m + 1 /\ more[i] = list[i]
          /\ \A i \in 1..m + 1 : i \in 1..m \/ i = m + 1
          /\ m + 1 \in 1..m + 1 /\ more[m + 1] = n + 1
      BY <2>1
    <3>2. more \in [1..m + 1 -> S]
      BY <2>4, <2>6
    <3> HIDE DEF more
    <3>3. \A i \in 1..m + 1 : more[i] <= n + 1
      BY <2>1, <2>3, <2>4, <3>1
    <3>4. \A s \in S : s <= n + 1 => \E i \in 1..m + 1 : more[i] = s
      <4>1. \A s \in S : s <= n + 1 => s <= n \/ s = n + 1
        BY <2>1
      <4> QED  BY <2>3, <3>1, <4>1
    <3>5. \A i, j \in 1..m + 1 : i < j => more[i] < more[j]
      <4>1. \A i \in 1..m : more[i] < n + 1
        BY <2>1, <2>3, <2>4, <3>1
      <4>2. \A i, j \in 1..m + 1 : i < j => i \in 1..m
        OBVIOUS
      <4> QED  BY <2>3, <3>1, <4>1, <4>2
    <3>6. Lists(more, m + 1, n + 1) /\ m + 1 \in 0..n + 1
      BY <2>1, <3>2, <3>3, <3>4, <3>5
    <3> QED  BY <3>6
  <2> QED  BY <2>5, <2>6
<1>3. T = Nat
  <2> HIDE DEF T
  <2>1. T \subseteq Nat
    BY DEF T
  <2> QED  BY <1>1, <1>2, <2>1, Induction
<1>4. PICK m \in 0..taken : \E list : Lists(list, m, taken)
  <2>1. taken \in T
    <3> HIDE DEF T
    <3> QED  BY <1>3
  <2> HIDE DEF Lists
  <2> QED  BY <2>1
<1>5. PICK list : Lists(list, m, taken)
  BY <1>4
<1>6. DOMAIN list = 1..m /\ \A s \in S : s <= taken
  BY <1>5
<1>7. list \in Listings(S)
  BY <1>5, <1>6 DEF Listings
<1> QED  BY <1>7

\* The Resolver picks the winner, for it is given the values in the order of
\* the list.
LEMMA ResolvesTheWinner ==
  ASSUME LoadingInv, NEW k \in Keys, NEW w \in Winners(k)
  PROVE  \/ Resolve(ValuesOf(k)) = Values(w)[k]
         \/ strategy = "concurrent" /\ \E s, o \in Best(k) : s # o
<1>1. holds \in [1..MaxSources -> Contents] /\ strategy \in Strategies
  BY LoadingTypes
<1>2. taken \in Nat /\ 1..taken \subseteq 1..MaxSources
  BY LoadingSizes
<1>3. \A s \in Holders(k) : /\ s \in 1..taken /\ s \in Nat /\ holds[s][k] \in Nat
                            /\ Values(s)[k] = [source |-> s, priority |-> holds[s][k]]
  <2>1. \A s \in Holders(k) : s \in 1..taken /\ k \in DOMAIN holds[s]
    BY DEF Holders
  <2> QED  BY <1>1, <1>2, <2>1, ContentsType
<1>4. w \in Holders(k)
  BY <1>1 DEF Winners, First, Latest, Best, Strategies
<1> DEFINE list == CHOOSE list \in Listings(Holders(k)) : TRUE
<1>5. list \in Listings(Holders(k))
  <2>1. Holders(k) \in SUBSET (1..taken)
    BY DEF Holders
  <2> QED  BY <1>2, <2>1, ListingExists
<1> HIDE DEF list
<1>6. PICK n \in 0..taken : list \in [1..n -> Holders(k)]
  BY <1>5 DEF Listings
<1>7. /\ \A s \in Holders(k) : \E i \in 1..n : list[i] = s
      /\ \A i, j \in 1..n : i < j => list[i] < list[j]
      /\ \A i \in 1..n : list[i] \in Holders(k)
  BY <1>5, <1>6 DEF Listings
<1>8. n \in Nat \ {0} /\ 1 \in 1..n /\ n \in 1..n
  <2>1. PICK i \in 1..n : list[i] = w
    BY <1>4, <1>7
  <2> QED  BY <1>2, <2>1
<1>9. \A i, j \in 1..n : i <= j => list[i] <= list[j]
  <2>1. \A i \in 1..n : list[i] \in Nat
    BY <1>3, <1>7
  <2>2. \A i, j \in 1..n : i < j => list[i] < list[j]
    BY <1>7
  <2>3. ASSUME NEW i \in 1..n, NEW j \in 1..n, i <= j PROVE list[i] <= list[j]
    <3>1. i = j \/ i < j
      BY <2>3
    <3>2. CASE i = j
      BY <2>1, <3>2
    <3>3. CASE i < j
      BY <2>1, <2>2, <3>3
    <3> QED  BY <3>1, <3>2, <3>3
  <2> QED  BY <2>3
<1> DEFINE values == ValuesOf(k)
<1>10. values = [i \in 1..n |-> Values(list[i])[k]]
  BY <1>6 DEF ValuesOf, list
<1>11. /\ DOMAIN values = 1..n /\ Len(values) = n
       /\ \A i \in 1..n : values[i] = [source |-> list[i], priority |-> holds[list[i]][k]]
  BY <1>3, <1>7, <1>8, <1>10
<1> HIDE DEF values
<1>12. CASE strategy \in {"priority", "concurrent"}
  <2>1. PICK j \in 1..n :
           /\ BestSoFar(values)[n] = values[j]
           /\ \A m \in 1..n : /\ values[j].priority >= values[m].priority
                              /\ values[j].priority = values[m].priority => j <= m
    <3>1. \A i \in 1..n : values[i].priority \in Nat
      BY <1>3, <1>7, <1>11
    <3> QED  BY <1>8, <1>11, <3>1, BestIsFirst
  <2> DEFINE o == list[j]
  <2>2. o \in Holders(k) /\ values[j] = Values(o)[k]
    BY <1>3, <1>7, <1>11
  <2>3. \A s \in Holders(k) : /\ holds[o][k] >= holds[s][k]
                              /\ holds[o][k] = holds[s][k] => o <= s
    BY <1>7, <1>9, <1>11, <2>1
  <2> HIDE DEF o
  <2>4. o \in Best(k)
    BY <2>2, <2>3 DEF Best
  <2>5. Resolve(values) = Values(o)[k]
    BY <1>11, <1>12, <2>1, <2>2 DEF Resolve
  <2>6. CASE strategy = "priority"
    <3>1. w \in Best(k) /\ w <= o
      BY <2>4, <2>6 DEF Winners, First
    <3>2. holds[w][k] >= holds[o][k] /\ holds[o][k] >= holds[w][k]
      BY <1>4, <2>2, <2>3, <3>1 DEF Best
    <3>3. holds[o][k] = holds[w][k]
      <4>1. holds[o][k] \in Nat /\ holds[w][k] \in Nat
        BY <1>3, <1>4, <2>2
      <4> QED  BY <3>2, <4>1
    <3>4. o <= w
      BY <1>4, <2>3, <3>3
    <3>5. o = w
      <4>1. o \in Nat /\ w \in Nat
        BY <1>3, <1>4, <2>2
      <4> QED  BY <3>1, <3>4, <4>1
    <3> QED  BY <2>5, <3>5 DEF values
  <2>7. CASE strategy = "concurrent"
    <3>1. w \in Best(k)
      BY <2>7 DEF Winners
    <3> QED  BY <2>4, <2>5, <2>7, <3>1 DEF values
  <2> QED  BY <1>12, <2>6, <2>7
<1>13. CASE strategy = "merge-first"
  <2>1. list[1] \in Holders(k) /\ \A s \in Holders(k) : list[1] <= s
    BY <1>7, <1>8, <1>9
  <2>2. \A s \in Holders(k) : w <= s
    BY <1>13 DEF Winners, First
  <2>3. list[1] = w
    <3>1. list[1] \in Nat /\ w \in Nat
      BY <1>3, <1>4, <2>1
    <3>2. list[1] <= w /\ w <= list[1]
      BY <1>4, <2>1, <2>2
    <3> QED  BY <3>1, <3>2
  <2>4. Resolve(values) = Values(w)[k]
    BY <1>3, <1>4, <1>8, <1>11, <1>13, <2>3 DEF Resolve
  <2> QED  BY <2>4 DEF values
<1>14. CASE strategy \in {"chained", "merge-last"}
  <2>1. list[n] \in Holders(k) /\ \A s \in Holders(k) : list[n] >= s
    BY <1>7, <1>8, <1>9
  <2>2. \A s \in Holders(k) : w >= s
    BY <1>14 DEF Winners, Latest
  <2>3. list[n] = w
    <3>1. list[n] \in Nat /\ w \in Nat
      BY <1>3, <1>4, <2>1
    <3>2. list[n] >= w /\ w >= list[n]
      BY <1>4, <2>1, <2>2
    <3> QED  BY <3>1, <3>2
  <2>4. Resolve(values) = Values(w)[k]
    BY <1>3, <1>4, <1>8, <1>11, <1>14, <2>3 DEF Resolve
  <2> QED  BY <2>4 DEF values
<1> QED  BY <1>1, <1>12, <1>13, <1>14 DEF Strategies

\* A Load that succeeds has every key of every source it took, with the value
\* of the source that wins by its strategy, in whatever order the sources are
\* loaded, and a Resolver agrees.
THEOREM LoadTakesTheWinners == LoadingSpec => []LoadIsPriority
<1>1. LoadingInv => LoadIsPriority
  <2> SUFFICES ASSUME LoadingInv, phase = "done" PROVE AllMerged /\ ResolverAgrees
    BY DEF LoadIsPriority
  <2>1. AllMerged
    BY MergedByTheWinners
  <2>2. ASSUME NEW k \in DOMAIN merged
        PROVE  \/ Resolve(ValuesOf(k)) = merged[k]
               \/ strategy = "concurrent" /\ \E s, o \in Best(k) : s # o
    <3>1. PICK w \in Winners(k) : merged[k] = Values(w)[k]
      BY <2>1 DEF AllMerged
    <3>2. k \in Keys
      BY DEF LoadingInv, LoadingTypeOK
    <3> QED  BY <3>1, <3>2, ResolvesTheWinner
  <2> QED  BY <2>1, <2>2 DEF ResolverAgrees
<1> QED  BY <1>1, LoadingInvHolds, PTL

-----------------------------------------------------------------------------
(* Parsing.  The keys on a path: those of lines, and the names of sections *)
(* each on its own.                                                        *)

KeyParts == LineKeys \cup {<<name>> : name \in UNION {ToSet(key) : key \in LineKeys}}

DocPaths == Seq(KeyParts)

SectionPath(names) == [n \in 1..Len(names) |-> <<names[n]>>]

LEMMA SectionPathType ==
  ASSUME NEW key \in LineKeys
  PROVE  /\ Len(key) \in Nat
         /\ \A n \in 1..Len(key) : <<key[n]>> \in KeyParts
         /\ SectionPath(key) \in DocPaths
<1>1. key \in Seq(ToSet(key))
  BY ParsingAssumption
<1>2. Len(key) \in Nat /\ DOMAIN key = 1..Len(key)
  BY <1>1, LenProperties
<1>3. \A n \in 1..Len(key) : <<key[n]>> \in KeyParts
  BY <1>2 DEF KeyParts, ToSet
<1>4. SectionPath(key) \in DocPaths
  BY <1>2, <1>3 DEF SectionPath, DocPaths
<1> QED  BY <1>2, <1>3, <1>4

\* A set of numbers with a bound has a greatest one.
LEMMA Greatest ==
  ASSUME NEW n \in Nat, NEW S, S \subseteq 0..n, S # {}
  PROVE  Max(S) \in S /\ \A m \in S : m <= Max(S)
<1> DEFINE T == {b \in Nat : \A P : P \subseteq 0..b /\ P # {} => \E m \in P : \A k \in P : m >= k}
<1>1. 0 \in T
  <2>1. ASSUME NEW P, P \subseteq 0..0, P # {} PROVE \E m \in P : \A k \in P : m >= k
    <3>1. \A k \in P : k \in 0..0
      BY <2>1
    <3>2. \A k \in 0..0 : k = 0
      OBVIOUS
    <3>3. PICK k \in P : k = 0
      BY <2>1, <3>1, <3>2
    <3>4. \A l \in P : l = 0
      BY <3>1, <3>2
    <3>5. 0 >= 0
      OBVIOUS
    <3> QED  BY <3>3, <3>4, <3>5
  <2> QED  BY <2>1
<1>2. ASSUME NEW b \in T PROVE b + 1 \in T
  <2>1. ASSUME NEW P, P \subseteq 0..(b + 1), P # {} PROVE \E m \in P : \A k \in P : m >= k
    <3>1. CASE b + 1 \in P
      BY <2>1, <3>1
    <3>2. CASE b + 1 \notin P
      <4>1. P \subseteq 0..b
        BY <2>1, <3>2
      <4> QED  BY <2>1, <4>1
    <3> QED  BY <3>1, <3>2
  <2> QED  BY <2>1
<1>3. T = Nat
  <2>1. T \subseteq Nat
    OBVIOUS
  <2> HIDE DEF T
  <2> QED  BY <1>1, <1>2, <2>1, Induction
<1>4. \E m \in S : \A k \in S : m >= k
  <2>1. n \in T
    BY <1>3
  <2> QED  BY <2>1
<1> QED  BY <1>4 DEF Max

LEMMA AroundIsBefore ==
  ASSUME NEW f, NEW ls \in Seq(Lines), NEW i \in Nat, Around(f, ls, i) # {}
  PROVE  /\ Max(Around(f, ls, i)) \in Around(f, ls, i)
         /\ Max(Around(f, ls, i)) \in 1..(i - 1)
         /\ \A j \in Around(f, ls, i) : j <= Max(Around(f, ls, i))
<1>1. Around(f, ls, i) \subseteq 1..(i - 1) /\ Around(f, ls, i) \subseteq 0..i
  BY DEF Around
<1> HIDE DEF Around
<1> QED  BY <1>1, Greatest

\* The path of line i, from those before it.
PathStep(f, ls, path, i) ==
    IF f # "yaml" /\ ls[i].kind = "map" THEN SectionPath(ls[i].key)
    ELSE Append(IF Around(f, ls, i) = {} THEN <<>> ELSE path[Max(Around(f, ls, i))], ls[i].key)

LEMMA PathStepLooksBack ==
  ASSUME NEW f, NEW ls \in Seq(Lines), NEW i \in Nat, NEW g, NEW h,
         \A m \in 1..(i - 1) : g[m] = h[m]
  PROVE  PathStep(f, ls, g, i) = PathStep(f, ls, h, i)
<1>1. CASE Around(f, ls, i) = {}
  BY <1>1 DEF PathStep
<1>2. CASE Around(f, ls, i) # {}
  <2>1. g[Max(Around(f, ls, i))] = h[Max(Around(f, ls, i))]
    BY <1>2, AroundIsBefore
  <2> QED  BY <1>2, <2>1 DEF PathStep
<1> QED  BY <1>1, <1>2

\* The recursive definition of the paths is sound.
LEMMA PathsDefined ==
  ASSUME NEW f, NEW ls \in Seq(Lines)
  PROVE  \A i \in 1..Len(ls) : PathsIn(f, ls)[i] = PathStep(f, ls, PathsIn(f, ls), i)
<1> DEFINE T == {n \in Nat : \E g : g = [i \in 1..n |-> PathStep(f, ls, g, i)]}
<1>1. 0 \in T
  <2>1. \A g : 1..0 = {} /\ [i \in 1..0 |-> PathStep(f, ls, g, i)] = [i \in 1..0 |-> 0]
    OBVIOUS
  <2> QED  BY <2>1
<1>2. ASSUME NEW n \in T PROVE n + 1 \in T
  <2>1. PICK g : g = [i \in 1..n |-> PathStep(f, ls, g, i)]
    OBVIOUS
  <2>2. n \in Nat
    OBVIOUS
  <2> DEFINE h == [i \in 1..(n + 1) |-> PathStep(f, ls, g, i)]
  <2>3. ASSUME NEW i \in 1..n PROVE h[i] = g[i]
    <3>1. i \in 1..(n + 1)
      BY <2>2
    <3>2. h[i] = PathStep(f, ls, g, i)
      BY <3>1
    <3> QED  BY <2>1, <3>2
  <2> HIDE DEF h
  <2>4. ASSUME NEW i \in 1..(n + 1) PROVE PathStep(f, ls, h, i) = PathStep(f, ls, g, i)
    <3>1. \A m \in 1..(i - 1) : m \in 1..n
      BY <2>2
    <3>2. \A m \in 1..(i - 1) : h[m] = g[m]
      BY <2>3, <3>1
    <3> QED  BY <2>2, <3>2, PathStepLooksBack
  <2>5. h = [i \in 1..(n + 1) |-> PathStep(f, ls, h, i)]
    BY <2>4 DEF h
  <2>6. n + 1 \in Nat /\ \E k : k = [i \in 1..(n + 1) |-> PathStep(f, ls, k, i)]
    BY <2>2, <2>5
  <2> QED  BY <2>6
<1>3. T = Nat
  <2>1. T \subseteq Nat
    OBVIOUS
  <2> HIDE DEF T
  <2> QED  BY <1>1, <1>2, <2>1, Induction
<1>4. PICK g : g = [i \in 1..Len(ls) |-> PathStep(f, ls, g, i)]
  <2>1. Len(ls) \in T
    BY <1>3, LenProperties
  <2> QED  BY <2>1
<1>5. DOMAIN ls = 1..Len(ls)
  BY LenProperties
<1>6. PathsIn(f, ls) = CHOOSE path : path = [i \in 1..Len(ls) |-> PathStep(f, ls, path, i)]
  BY <1>5 DEF PathsIn, PathStep, SectionPath
<1> DEFINE path == PathsIn(f, ls)
<1>7. path = [i \in 1..Len(ls) |-> PathStep(f, ls, path, i)]
  BY <1>4, <1>6
<1> HIDE DEF path
<1>8. \A i \in 1..Len(ls) : path[i] = PathStep(f, ls, path, i)
  BY <1>7
<1> QED  BY <1>8 DEF path

LEMMA LineType ==
  ASSUME NEW ls \in Seq(Lines), NEW i \in 1..Len(ls)
  PROVE  /\ ls[i] \in Lines /\ ls[i].indent \in Nat /\ ls[i].key \in LineKeys
         /\ ls[i].kind \in {"map", "value", "other"}
<1>1. ls[i] \in Lines
  BY ElementOfSeq, LenProperties
<1> QED  BY <1>1, ParsingAssumption DEF Lines

LEMMA PathsType ==
  ASSUME NEW f, NEW ls \in Seq(Lines)
  PROVE  \A i \in 1..Len(ls) : PathsIn(f, ls)[i] \in DocPaths
<1> DEFINE path == PathsIn(f, ls)
           T == {n \in Nat : \A i \in 1..Len(ls) : i <= n => path[i] \in DocPaths}
<1>1. 0 \in T
  OBVIOUS
<1>2. ASSUME NEW n \in T PROVE n + 1 \in T
  <2>1. n \in Nat /\ \A i \in 1..Len(ls) : i <= n => path[i] \in DocPaths
    OBVIOUS
  <2>2. ASSUME NEW i \in 1..Len(ls), i = n + 1 PROVE path[i] \in DocPaths
    <3>1. path[i] = PathStep(f, ls, path, i)
      BY PathsDefined
    <3> HIDE DEF path
    <3>2. ls[i].key \in LineKeys /\ ls[i].key \in KeyParts
      BY LineType DEF KeyParts
    <3>3. <<>> \in DocPaths /\ \A p \in DocPaths : Append(p, ls[i].key) \in DocPaths
      BY <3>2 DEF DocPaths
    <3>4. Around(f, ls, i) # {} => path[Max(Around(f, ls, i))] \in DocPaths
      <4>1. ASSUME Around(f, ls, i) # {}
            PROVE  Max(Around(f, ls, i)) \in 1..Len(ls) /\ Max(Around(f, ls, i)) <= n
        <5>1. Max(Around(f, ls, i)) \in 1..(i - 1) /\ Len(ls) \in Nat
          BY <4>1, AroundIsBefore, LenProperties
        <5> QED  BY <2>1, <2>2, <5>1
      <4> QED  BY <2>1, <4>1
    <3>5. SectionPath(ls[i].key) \in DocPaths
      BY <3>2, SectionPathType
    <3> QED  BY <3>1, <3>3, <3>4, <3>5 DEF PathStep
  <2> HIDE DEF path
  <2>3. Len(ls) \in Nat
    BY LenProperties
  <2>4. \A i \in 1..Len(ls) : i <= n + 1 => path[i] \in DocPaths
    BY <2>1, <2>2, <2>3
  <2> QED  BY <2>1, <2>4
<1>3. T = Nat
  <2>1. T \subseteq Nat
    OBVIOUS
  <2> HIDE DEF T
  <2> QED  BY <1>1, <1>2, <2>1, Induction
<1>4. Len(ls) \in T /\ Len(ls) \in Nat
  BY <1>3, LenProperties
<1> QED  BY <1>4

\* A line that comes after them leaves the paths as they are.
LEMMA PathsStay ==
  ASSUME NEW f, NEW ls \in Seq(Lines), NEW line \in Lines
  PROVE  /\ \A i \in 1..Len(ls) : Around(f, Append(ls, line), i) = Around(f, ls, i)
         /\ \A i \in 1..Len(ls) : PathsIn(f, Append(ls, line))[i] = PathsIn(f, ls)[i]
<1> DEFINE ms == Append(ls, line)
           path == PathsIn(f, ls)
           new == PathsIn(f, ms)
<1>1. Len(ls) \in Nat /\ ms \in Seq(Lines) /\ Len(ms) = Len(ls) + 1
  BY LenProperties, AppendProperties
<1>2. \A i \in 1..Len(ls) : ms[i] = ls[i]
  BY AppendProperties
<1>3. ASSUME NEW i \in 1..Len(ls) PROVE Around(f, ms, i) = Around(f, ls, i)
  <2> HIDE DEF ms
  <2>1. ASSUME NEW j \in 1..(i - 1)
        PROVE  /\ ms[j] = ls[j]
               /\ \A k \in (j + 1)..i : ms[k] = ls[k]
    <3>1. j \in 1..Len(ls) /\ \A k \in (j + 1)..i : k \in 1..Len(ls)
      BY <1>1
    <3> QED  BY <1>2, <3>1
  <2> QED  BY <2>1 DEF Around
<1> DEFINE T == {n \in Nat : \A i \in 1..Len(ls) : i <= n => new[i] = path[i]}
<1>4. 0 \in T
  BY <1>1
<1>5. ASSUME NEW n \in T PROVE n + 1 \in T
  <2>1. n \in Nat /\ \A i \in 1..Len(ls) : i <= n => new[i] = path[i]
    OBVIOUS
  <2>2. ASSUME NEW i \in 1..Len(ls), i = n + 1 PROVE new[i] = path[i]
    <3>1. path[i] = PathStep(f, ls, path, i)
      BY PathsDefined
    <3>2. new[i] = PathStep(f, ms, new, i)
      <4>1. i \in 1..Len(ms)
        BY <1>1
      <4> HIDE DEF ms
      <4> QED  BY <1>1, <4>1, PathsDefined
    <3> HIDE DEF ms, path, new
    <3>3. PathStep(f, ms, new, i) = PathStep(f, ls, new, i)
      BY <1>2, <1>3 DEF PathStep
    <3>4. \A m \in 1..(i - 1) : m \in 1..Len(ls) /\ m <= n
      BY <1>1, <2>1, <2>2
    <3>5. PathStep(f, ls, new, i) = PathStep(f, ls, path, i)
      BY <2>1, <3>4, PathStepLooksBack
    <3> QED  BY <3>1, <3>2, <3>3, <3>5
  <2> HIDE DEF path, new
  <2>3. \A i \in 1..Len(ls) : i <= n + 1 => new[i] = path[i]
    BY <1>1, <2>1, <2>2
  <2> QED  BY <2>1, <2>3
<1>6. T = Nat
  <2>1. T \subseteq Nat
    OBVIOUS
  <2> HIDE DEF T
  <2> QED  BY <1>4, <1>5, <2>1, Induction
<1>7. Len(ls) \in T
  BY <1>1, <1>6
<1>8. \A i \in 1..Len(ls) : i <= Len(ls)
  BY <1>1
<1> QED  BY <1>3, <1>7, <1>8

\* A line has been added to those read: line n, with the path p.
Adds(line, n, p) ==
    /\ lines' = Append(lines, line) /\ UNCHANGED format
    /\ n = Len(lines) + 1 /\ p = PathOf(n)'

LEMMA LineAdded ==
  ASSUME lines \in Seq(Lines), NEW line \in Lines, NEW n, NEW p, Adds(line, n, p)
  PROVE  /\ Len(lines) \in Nat /\ DOMAIN lines = 1..Len(lines)
         /\ lines' \in Seq(Lines) /\ Len(lines') = n /\ DOMAIN lines' = 1..n
         /\ \A i \in 1..Len(lines) : i \in 1..n /\ i # n /\ lines'[i] = lines[i] /\ PathOf(i)' = PathOf(i)
         /\ \A i \in 1..n : i \in 1..Len(lines) \/ i = n
         /\ n \in Nat /\ n # 0 /\ lines'[n] = line
<1>1. Len(lines) \in Nat /\ DOMAIN lines = 1..Len(lines) /\ n = Len(lines) + 1
  BY LenProperties DEF Adds
<1>2. lines' = Append(lines, line)
  BY DEF Adds
<1>3. /\ lines' \in Seq(Lines) /\ Len(lines') = n /\ DOMAIN lines' = 1..n
      /\ \A i \in 1..Len(lines) : lines'[i] = lines[i]
      /\ lines'[n] = line
  BY <1>1, <1>2, AppendProperties, LenProperties
<1>4. ASSUME NEW i \in 1..Len(lines) PROVE PathOf(i)' = PathOf(i)
  <2>1. PathsIn(format, lines')[i] = PathsIn(format, lines)[i]
    BY <1>2, PathsStay
  <2> QED  BY <2>1 DEF PathOf, Adds
<1> QED  BY <1>1, <1>3, <1>4

LEMMA PrefixOfItself == \A s : Len(s) \in Nat => IsPrefix(s, s)
BY DEF IsPrefix

\* Of the values, those that the line replaces are kept no longer.
Writes(line) == line.kind = "value" \/ (format = "yaml" /\ line.kind = "map")

LEMMA KeptStep ==
  ASSUME lines \in Seq(Lines), NEW line \in Lines, NEW n, NEW p, Adds(line, n, p)
  PROVE  /\ \A i : i \in Kept' <=> \/ i \in Kept /\ ~(Writes(line) /\ IsPrefix(p, PathOf(i)))
                                   \/ i = n /\ line.kind = "value"
         /\ \A i \in Kept : i \in 1..Len(lines)
<1>1. \A i : i \in ValueLines' <=> i \in ValueLines \/ (i = n /\ line.kind = "value")
  BY LineAdded DEF ValueLines
<1>2. \A i \in ValueLines : i \in 1..Len(lines)
  BY LineAdded DEF ValueLines
<1>3. \A i, j \in 1..Len(lines) : Replaces(j, i)' <=> Replaces(j, i)
  BY LineAdded DEF Replaces, Adds
<1>4. \A i \in 1..Len(lines) : Replaces(n, i)' <=> Writes(line) /\ IsPrefix(p, PathOf(i))
  BY LineAdded DEF Replaces, Adds, Writes
<1>5. \A j \in 1..n : ~Replaces(j, n)'
  BY LineAdded DEF Replaces
<1>6. DOMAIN lines = 1..Len(lines) /\ DOMAIN lines' = 1..n
  BY LineAdded
<1>7. ASSUME NEW i \in ValueLines
      PROVE  i \in Kept' <=> i \in Kept /\ ~(Writes(line) /\ IsPrefix(p, PathOf(i)))
  <2>1. (\E j \in 1..n : Replaces(j, i)') <=> (\E j \in 1..Len(lines) : Replaces(j, i)') \/ Replaces(n, i)'
    BY LineAdded
  <2>2. (\E j \in 1..Len(lines) : Replaces(j, i)') <=> (\E j \in 1..Len(lines) : Replaces(j, i))
    BY <1>2, <1>3
  <2>3. i \in Kept <=> ~\E j \in 1..Len(lines) : Replaces(j, i)
    BY <1>6 DEF Kept
  <2>4. i \in Kept' <=> ~\E j \in 1..n : Replaces(j, i)'
    BY <1>1, <1>6 DEF Kept
  <2> QED  BY <1>2, <1>4, <2>1, <2>2, <2>3, <2>4
<1>8. n \in Kept' <=> line.kind = "value"
  <2>1. n \in Kept' <=> n \in ValueLines' /\ ~\E j \in 1..n : Replaces(j, n)'
    BY <1>6 DEF Kept
  <2>2. n \notin ValueLines
    BY <1>2, LineAdded
  <2> QED  BY <1>1, <1>5, <2>1, <2>2
<1>9. \A i : (i \in Kept => i \in ValueLines) /\ (i \in Kept' => i \in ValueLines')
  BY DEF Kept
<1>10. n \notin ValueLines
  BY <1>2, LineAdded
<1> QED  BY <1>1, <1>2, <1>7, <1>8, <1>9, <1>10

LEMMA NamedStays ==
  ASSUME lines \in Seq(Lines), NEW line \in Lines, NEW n, NEW p, Adds(line, n, p), NamedLikeValue
  PROVE  NamedLikeValue'
<1>1. PICK j \in ValueLines, i \in DOMAIN lines :
           lines[i].kind = "map" /\ j < i /\ IsPrefix(PathOf(j), PathOf(i))
  BY DEF NamedLikeValue
<1>2. /\ j \in 1..Len(lines) /\ i \in 1..Len(lines) /\ j \in 1..n /\ i \in 1..n
      /\ DOMAIN lines' = 1..n
  BY <1>1, LineAdded DEF ValueLines
<1>3. /\ lines'[i] = lines[i] /\ lines'[j] = lines[j]
      /\ PathOf(i)' = PathOf(i) /\ PathOf(j)' = PathOf(j)
  BY <1>2, LineAdded
<1>4. j \in ValueLines'
  BY <1>1, <1>2, <1>3 DEF ValueLines
<1>5. format' = "toml"
  BY DEF NamedLikeValue, Adds
<1> QED  BY <1>1, <1>2, <1>3, <1>4, <1>5 DEF NamedLikeValue

\* The values of the document are those of the lines kept, at their paths.
DocHoldsKept ==
    /\ \A q \in DOMAIN doc : doc[q] # 0 => doc[q] \in Kept /\ PathOf(doc[q]) = q
    /\ \A i \in Kept : PathOf(i) \in DOMAIN doc /\ doc[PathOf(i)] = i

\* A line that writes its path.
LEMMA DocWritten ==
  ASSUME lines \in Seq(Lines), NEW line \in Lines, NEW n, NEW p, Adds(line, n, p),
         DocHoldsKept, Writes(line),
         doc' = Put(doc, p, IF line.kind = "value" THEN n ELSE 0)
  PROVE  DocHoldsKept'
<1> DEFINE new == PathsIn(format', lines')
           v == IF line.kind = "value" THEN n ELSE 0
<1>1. \A i \in Kept : i # n /\ new[i] = PathOf(i)
  <2>1. \A i \in Kept : i \in 1..Len(lines)
    BY KeptStep
  <2> QED  BY <2>1, LineAdded DEF PathOf
<1>2. new[n] = p /\ n # 0 /\ n \in 1..Len(lines') /\ lines' \in Seq(Lines)
  BY LineAdded DEF Adds, PathOf
<1>3. IsPrefix(p, p)
  <2>1. p \in DocPaths
    BY <1>2, PathsType
  <2> QED  BY <2>1, PrefixOfItself, LenProperties DEF DocPaths
<1>4. \A i : i \in Kept' <=> \/ i \in Kept /\ ~IsPrefix(p, PathOf(i))
                             \/ i = n /\ line.kind = "value"
  BY KeptStep
<1> HIDE DEF new
<1>5. /\ DOMAIN doc' = {q \in DOMAIN doc : ~IsPrefix(p, q)} \cup {p}
      /\ \A q \in DOMAIN doc' : doc'[q] = IF q = p THEN v ELSE doc[q]
  BY DEF Put
<1>6. ASSUME NEW q \in DOMAIN doc', doc'[q] # 0 PROVE doc'[q] \in Kept' /\ new[doc'[q]] = q
  <2>1. CASE q = p
    <3>1. doc'[q] = n /\ line.kind = "value"
      BY <1>5, <1>6, <2>1
    <3> QED  BY <1>2, <1>4, <2>1, <3>1
  <2>2. CASE q # p
    <3>1. q \in DOMAIN doc /\ ~IsPrefix(p, q) /\ doc'[q] = doc[q]
      BY <1>5, <2>2
    <3>2. doc[q] \in Kept /\ PathOf(doc[q]) = q
      BY <1>6, <3>1 DEF DocHoldsKept
    <3> QED  BY <1>1, <1>4, <3>1, <3>2
  <2> QED  BY <2>1, <2>2
<1>7. ASSUME NEW i \in Kept' PROVE new[i] \in DOMAIN doc' /\ doc'[new[i]] = i
  <2>1. CASE i \in Kept /\ ~IsPrefix(p, PathOf(i))
    <3>1. PathOf(i) \in DOMAIN doc /\ doc[PathOf(i)] = i /\ PathOf(i) # p
      BY <1>3, <2>1 DEF DocHoldsKept
    <3> QED  BY <1>1, <1>5, <2>1, <3>1
  <2>2. CASE i = n /\ line.kind = "value"
    BY <1>2, <1>5, <2>2
  <2> QED  BY <1>4, <2>1, <2>2
<1> QED  BY <1>6, <1>7 DEF DocHoldsKept, PathOf, new

\* A line that writes nothing, while the document keeps its values.
LEMMA DocUnwritten ==
  ASSUME lines \in Seq(Lines), NEW line \in Lines, NEW n, NEW p, Adds(line, n, p),
         DocHoldsKept, ~Writes(line),
         \A q : q \in DOMAIN doc' /\ doc'[q] # 0 <=> q \in DOMAIN doc /\ doc[q] # 0,
         \A q \in DOMAIN doc : doc[q] # 0 => doc'[q] = doc[q]
  PROVE  DocHoldsKept'
<1> DEFINE new == PathsIn(format', lines')
<1>1. \A i \in Kept : i # 0 /\ new[i] = PathOf(i)
  <2>1. \A i \in Kept : i \in 1..Len(lines)
    BY KeptStep
  <2> QED  BY <2>1, LineAdded DEF PathOf
<1>2. Kept' = Kept
  BY KeptStep DEF Writes
<1> HIDE DEF new
<1>3. ASSUME NEW q \in DOMAIN doc', doc'[q] # 0 PROVE doc'[q] \in Kept' /\ new[doc'[q]] = q
  BY <1>1, <1>2, <1>3 DEF DocHoldsKept
<1>4. ASSUME NEW i \in Kept' PROVE new[i] \in DOMAIN doc' /\ doc'[new[i]] = i
  BY <1>1, <1>2, <1>4 DEF DocHoldsKept
<1> QED  BY <1>3, <1>4 DEF DocHoldsKept, PathOf, new

\* The lines that a line further to the right would be nested in.
OpenIn(ls) ==
    {j \in 1..Len(ls) : ls[j].kind = "map" /\ \A k \in (j + 1)..Len(ls) : ls[k].indent > ls[j].indent}

Those(open, n) == {open[m] : m \in 1..n}

\* The path of the map that the m-th of the open lines opens.
Level(path, open, m) == IF m = 0 THEN <<>> ELSE path[open[m]]

\* The path of a line in that map.
Placed(path, open, m, line) == Append(Level(path, open, m), line.key)

\* The open lines, in order, are those on the stack.
Opens(open, ls, path, s, at) ==
    /\ open \in [1..Len(s) -> 1..Len(ls)]
    /\ \A m, n \in 1..Len(s) : m < n => open[m] < open[n]
    /\ OpenIn(ls) = Those(open, Len(s))
    /\ \A m \in 1..Len(s) : s[m].indent = ls[open[m]].indent /\ s[m].around = Level(path, open, m - 1)
    /\ at = Level(path, open, Len(s))

\* What YamlLine pops ends with a map that is still open.
LastOpen(s, line) ==
    CHOOSE n \in 0..Len(s) :
        /\ n = 0 \/ StillOpen(s[n], line)
        /\ \A m \in (n + 1)..Len(s) : ~StillOpen(s[m], line)

LEMMA LastOpenExists ==
  ASSUME NEW line, NEW s, Len(s) \in Nat
  PROVE  LET n == LastOpen(s, line)
         IN  /\ n \in 0..Len(s)
             /\ n = 0 \/ StillOpen(s[n], line)
             /\ \A m \in (n + 1)..Len(s) : ~StillOpen(s[m], line)
<1> DEFINE S == {n \in 0..Len(s) : n = 0 \/ StillOpen(s[n], line)}
<1>1. S \subseteq 0..Len(s) /\ 0 \in S
  OBVIOUS
<1>2. Max(S) \in S /\ \A m \in S : m <= Max(S)
  <2> HIDE DEF S
  <2> QED  BY <1>1, Greatest
<1>3. \A m \in (Max(S) + 1)..Len(s) : m \in 0..Len(s) /\ ~(m <= Max(S))
  <2> DEFINE n == Max(S)
  <2>1. n \in 0..Len(s)
    BY <1>1, <1>2
  <2> HIDE DEF n
  <2> QED  BY <2>1 DEF n
<1>4. \E n \in 0..Len(s) : /\ n = 0 \/ StillOpen(s[n], line)
                           /\ \A m \in (n + 1)..Len(s) : ~StillOpen(s[m], line)
  BY <1>1, <1>2, <1>3
<1> HIDE DEF S
<1> QED  BY <1>4 DEF LastOpen

\* Line comes after ls, with the maps on s open, of which n stay open.
ComesAfter(line, ls, ms, open, s, at, n) ==
    /\ ls \in Seq(Lines) /\ line \in Lines /\ ms = Append(ls, line) /\ Len(s) \in Nat
    /\ Opens(open, ls, PathsIn("yaml", ls), s, at)
    /\ n = LastOpen(s, line)

LEMMA Nested ==
  ASSUME NEW ls, NEW line, NEW ms, NEW open, NEW s, NEW at, NEW n,
         ComesAfter(line, ls, ms, open, s, at, n)
  PROVE  /\ n \in 0..Len(s)
         /\ \A m \in 1..n : open[m] \in 1..Len(ls)
         /\ {j \in OpenIn(ls) : ls[j].indent < line.indent} = Those(open, n)
         /\ (IF n < Len(s) THEN s[n + 1].around ELSE at) = Level(PathsIn("yaml", ls), open, n)
<1> DEFINE path == PathsIn("yaml", ls)
<1>0. /\ ls \in Seq(Lines) /\ line \in Lines /\ ms = Append(ls, line) /\ Len(s) \in Nat
      /\ Opens(open, ls, path, s, at) /\ n = LastOpen(s, line)
  BY DEF ComesAfter
<1> HIDE DEF path
<1>1. /\ n \in 0..Len(s)
      /\ n = 0 \/ StillOpen(s[n], line)
      /\ \A m \in (n + 1)..Len(s) : ~StillOpen(s[m], line)
  BY <1>0, LastOpenExists
<1>2. \A m \in 1..Len(s) : open[m] \in OpenIn(ls) /\ open[m] \in 1..Len(ls)
  BY <1>0 DEF Opens, Those
<1>3. \A m \in 1..Len(s) : s[m].indent = ls[open[m]].indent /\ ls[open[m]].indent \in Nat
  BY <1>0, <1>2, LineType DEF Opens
<1>4. line.indent \in Nat
  BY <1>0, ParsingAssumption DEF Lines
<1>5. ASSUME NEW m \in 1..n PROVE ls[open[m]].indent < line.indent
  <2>1. m \in 1..Len(s) /\ n \in 1..Len(s) /\ n # 0
    BY <1>1
  <2>2. ls[open[n]].indent < line.indent
    BY <1>1, <1>3, <2>1 DEF StillOpen
  <2>3. m = n \/ ls[open[n]].indent > ls[open[m]].indent
    <3>1. ASSUME m # n PROVE open[m] < open[n]
      BY <1>0, <1>1, <2>1, <3>1 DEF Opens
    <3>2. ASSUME open[m] < open[n] PROVE open[n] \in (open[m] + 1)..Len(ls)
      BY <1>2, <2>1, <3>2
    <3>3. \A k \in (open[m] + 1)..Len(ls) : ls[k].indent > ls[open[m]].indent
      BY <1>2, <2>1 DEF OpenIn
    <3> QED  BY <3>1, <3>2, <3>3
  <2> QED  BY <1>3, <1>4, <2>1, <2>2, <2>3
<1>6. ASSUME NEW m \in (n + 1)..Len(s) PROVE m \in 1..Len(s) /\ ~(ls[open[m]].indent < line.indent)
  <2>1. m \in 1..Len(s)
    BY <1>1
  <2> QED  BY <1>1, <1>3, <2>1 DEF StillOpen
<1>7. \A m \in 1..Len(s) : m \in 1..n \/ m \in (n + 1)..Len(s)
  BY <1>1
<1>8. \A m \in 1..n : m \in 1..Len(s)
  BY <1>1
<1>9. {j \in OpenIn(ls) : ls[j].indent < line.indent} = Those(open, n)
  <2>1. OpenIn(ls) = Those(open, Len(s))
    BY <1>0 DEF Opens
  <2> QED  BY <1>5, <1>6, <1>7, <1>8, <2>1 DEF Those
<1>10. (IF n < Len(s) THEN s[n + 1].around ELSE at) = Level(path, open, n)
  <2>1. CASE n < Len(s)
    <3>1. n + 1 \in 1..Len(s) /\ n + 1 - 1 = n
      BY <1>1, <2>1
    <3>2. PICK m \in 1..Len(s) : m = n + 1 /\ m - 1 = n
      BY <1>1, <3>1
    <3>3. s[m].around = Level(path, open, m - 1)
      BY <1>0 DEF Opens
    <3> QED  BY <2>1, <3>2, <3>3
  <2>2. CASE ~(n < Len(s))
    <3>1. n = Len(s)
      BY <1>1, <2>2
    <3> QED  BY <1>0, <2>2, <3>1 DEF Opens
  <2> QED  BY <2>1, <2>2
<1> QED  BY <1>1, <1>2, <1>8, <1>9, <1>10 DEF path

\* The line's path, and the maps that stay open at it.
LEMMA NestedPath ==
  ASSUME NEW ls, NEW line, NEW ms, NEW open, NEW s, NEW at, NEW n,
         ComesAfter(line, ls, ms, open, s, at, n)
  PROVE  /\ Around("yaml", ms, Len(ms)) = Those(open, n)
         /\ PathsIn("yaml", ms)[Len(ms)] = Placed(PathsIn("yaml", ls), open, n, line)
<1> DEFINE path == PathsIn("yaml", ls)
           new == PathsIn("yaml", ms)
           in == {j \in OpenIn(ls) : ls[j].indent < line.indent}
<1>0. /\ ls \in Seq(Lines) /\ line \in Lines /\ ms = Append(ls, line) /\ Len(s) \in Nat
      /\ Opens(open, ls, path, s, at) /\ n = LastOpen(s, line)
  BY DEF ComesAfter
<1>1. Len(ls) \in Nat /\ ms \in Seq(Lines) /\ Len(ms) = Len(ls) + 1
  BY <1>0, LenProperties, AppendProperties
<1>2. (\A i \in 1..Len(ls) : ms[i] = ls[i]) /\ ms[Len(ms)] = line
  BY <1>0, <1>1, AppendProperties
<1>3. /\ n \in 0..Len(s)
      /\ \A m \in 1..n : open[m] \in 1..Len(ls)
      /\ in = Those(open, n)
  BY Nested
<1>4. Around("yaml", ms, Len(ms)) = in
  <2>1. ASSUME NEW j \in 1..Len(ls)
        PROVE  (\A k \in (j + 1)..Len(ms) : ms[k].indent > ms[j].indent)
               <=> /\ \A k \in (j + 1)..Len(ls) : ls[k].indent > ls[j].indent
                   /\ ls[j].indent < line.indent
    <3>1. /\ \A k \in (j + 1)..Len(ls) : k \in 1..Len(ls) /\ k \in (j + 1)..Len(ms)
          /\ \A k \in (j + 1)..Len(ms) : k \in (j + 1)..Len(ls) \/ k = Len(ms)
          /\ Len(ms) \in (j + 1)..Len(ms)
      BY <1>1
    <3>2. \A k \in (j + 1)..Len(ls) : ms[k] = ls[k]
      BY <1>2, <3>1
    <3>3. ms[j] = ls[j] /\ ls[j].indent \in Nat /\ line.indent \in Nat
      <4>1. line.indent \in Nat
        BY <1>0, ParsingAssumption DEF Lines
      <4>2. ls[j].indent \in Nat
        BY <1>0, LineType
      <4> QED  BY <1>2, <4>1, <4>2
    <3>4. line.indent > ls[j].indent <=> ls[j].indent < line.indent
      BY <3>3
    <3> QED  BY <1>2, <3>1, <3>2, <3>3, <3>4
  <2>2. 1..(Len(ms) - 1) = 1..Len(ls)
    BY <1>1
  <2> QED  BY <1>2, <2>1, <2>2 DEF Around, OpenIn
<1>5. new[Len(ms)] = Append(IF in = {} THEN <<>> ELSE new[Max(in)], line.key)
  <2>1. Len(ms) \in 1..Len(ms)
    BY <1>1
  <2>2. new[Len(ms)] = PathStep("yaml", ms, new, Len(ms))
    BY <1>1, <2>1, PathsDefined
  <2> HIDE DEF new, in
  <2> QED  BY <1>2, <1>4, <2>2 DEF PathStep
<1>6. CASE n = 0
  <2>1. in = {}
    BY <1>3, <1>6 DEF Those
  <2> QED  BY <1>3, <1>4, <1>5, <1>6, <2>1 DEF Level, Placed
<1>7. CASE n # 0
  <2>1. n \in 1..n /\ n \in Nat
    BY <1>3, <1>7
  <2>2. in # {}
    BY <1>3, <2>1 DEF Those
  <2>3. Max(in) \in in /\ \A j \in in : j <= Max(in)
    <3>1. Around("yaml", ms, Len(ms)) # {} /\ Len(ms) \in Nat
      BY <1>1, <1>4, <2>2
    <3>2. /\ Max(Around("yaml", ms, Len(ms))) \in Around("yaml", ms, Len(ms))
          /\ \A j \in Around("yaml", ms, Len(ms)) : j <= Max(Around("yaml", ms, Len(ms)))
      BY <1>1, <3>1, AroundIsBefore
    <3> HIDE DEF in
    <3> QED  BY <1>4, <3>2
  <2>4. PICK m \in 1..n : Max(in) = open[m]
    BY <1>3, <2>3 DEF Those
  <2>5. open[n] <= open[m]
    BY <1>3, <2>1, <2>3, <2>4 DEF Those
  <2>6. m = n
    <3>1. m # n => open[m] < open[n]
      <4>1. m \in 1..Len(s) /\ n \in 1..Len(s) /\ (m # n => m < n)
        BY <1>3, <2>1
      <4> QED  BY <1>0, <4>1 DEF Opens
    <3>2. open[m] \in Nat /\ open[n] \in Nat
      BY <1>1, <1>3, <2>1
    <3> QED  BY <2>5, <3>1, <3>2
  <2>7. new[open[n]] = path[open[n]]
    BY <1>0, <1>3, <2>1, PathsStay
  <2> HIDE DEF new, path, in
  <2>8. new[Len(ms)] = Append(path[open[n]], line.key)
    BY <1>5, <2>2, <2>4, <2>6, <2>7
  <2> QED  BY <1>3, <1>4, <1>7, <2>8 DEF Level, Placed, new, path
<1> QED  BY <1>6, <1>7

\* A line that opens no map leaves those open that it is nested in.
LEMMA StaysOpen ==
  ASSUME NEW ls \in Seq(Lines), NEW line \in Lines, line.kind # "map",
         NEW S, NEW s \in Seq(S),
         NEW open, NEW at, NEW n, NEW ms,
         ComesAfter(line, ls, ms, open, s, at, n)
  PROVE  Opens([m \in 1..n |-> open[m]], ms, PathsIn("yaml", ms), SubSeq(s, 1, n),
               Level(PathsIn("yaml", ls), open, n))
<1> DEFINE path == PathsIn("yaml", ls)
           new == PathsIn("yaml", ms)
           left == SubSeq(s, 1, n)
           still == [m \in 1..n |-> open[m]]
<1>0. Opens(open, ls, path, s, at) /\ ms = Append(ls, line)
  BY DEF ComesAfter
<1>1. Len(s) \in Nat /\ Len(ls) \in Nat /\ Len(ms) = Len(ls) + 1
  BY <1>0, LenProperties, AppendProperties
<1>2. (\A i \in 1..Len(ls) : ms[i] = ls[i]) /\ ms[Len(ms)] = line
  BY <1>0, <1>1, AppendProperties
<1>3. /\ n \in 0..Len(s)
      /\ \A m \in 1..n : open[m] \in 1..Len(ls)
  BY Nested
<1>4. Len(left) = n /\ \A m \in 1..n : left[m] = s[m] /\ m \in 1..Len(s)
  BY <1>1, <1>3, SubSeqProperties
<1>5. Around("yaml", ms, Len(ms)) = Those(open, n)
  BY NestedPath
<1>6. \A i \in 1..Len(ls) : new[i] = path[i]
  BY <1>0, PathsStay
<1>7. OpenIn(ms) = Around("yaml", ms, Len(ms))
  <2>1. Len(ms) \notin OpenIn(ms)
    BY <1>2 DEF OpenIn
  <2>2. \A j \in 1..Len(ms) : j \in 1..(Len(ms) - 1) \/ j = Len(ms)
    BY <1>1
  <2>3. \A j \in 1..(Len(ms) - 1) : j \in 1..Len(ms)
    BY <1>1
  <2> QED  BY <2>1, <2>2, <2>3 DEF OpenIn, Around
<1>8. still \in [1..Len(left) -> 1..Len(ms)]
  <2>1. \A i \in 1..Len(ls) : i \in 1..Len(ms)
    BY <1>1
  <2> QED  BY <1>3, <1>4, <2>1
<1>9. \A m, k \in 1..Len(left) : m < k => still[m] < still[k]
  BY <1>0, <1>4 DEF Opens
<1>10. OpenIn(ms) = Those(still, Len(left))
  BY <1>4, <1>5, <1>7 DEF Those
<1>11. \A m \in 0..n : Level(path, open, m) = Level(new, still, m)
  <2>1. \A m \in 0..n : m # 0 => m \in 1..n
    BY <1>3
  <2> HIDE DEF path, new
  <2> QED  BY <1>3, <1>6, <2>1 DEF Level
<1>12. ASSUME NEW m \in 1..Len(left)
       PROVE  left[m].indent = ms[still[m]].indent /\ left[m].around = Level(new, still, m - 1)
  <2>1. m - 1 \in 0..n /\ m \in 1..n
    BY <1>3, <1>4
  <2>2. s[m].indent = ls[open[m]].indent /\ s[m].around = Level(path, open, m - 1)
    BY <1>0, <1>4, <2>1 DEF Opens
  <2>3. ms[still[m]] = ls[open[m]]
    BY <1>2, <1>3, <2>1
  <2> HIDE DEF path, new, still, left
  <2> QED  BY <1>4, <1>11, <2>1, <2>2, <2>3
<1>13. Level(path, open, n) = Level(new, still, Len(left))
  BY <1>3, <1>4, <1>11
<1> QED
  <2> HIDE DEF path, new, still, left
  <2>1. Opens(still, ms, new, left, Level(path, open, n))
    BY <1>8, <1>9, <1>10, <1>12, <1>13 DEF Opens
  <2> QED  BY <2>1 DEF path, new, still, left

\* A line that opens a map is open from then on.
LEMMA OpensAnother ==
  ASSUME NEW ls \in Seq(Lines), NEW line \in Lines, line.kind = "map",
         NEW S, NEW s \in Seq(S),
         NEW open, NEW at, NEW n, NEW ms, ComesAfter(line, ls, ms, open, s, at, n),
         NEW entry \in S, entry.indent = line.indent,
         entry.around = Level(PathsIn("yaml", ls), open, n)
  PROVE  Opens([m \in 1..(n + 1) |-> IF m = n + 1 THEN Len(ms) ELSE open[m]], ms,
               PathsIn("yaml", ms), Append(SubSeq(s, 1, n), entry),
               PathsIn("yaml", ms)[Len(ms)])
<1> DEFINE path == PathsIn("yaml", ls)
           new == PathsIn("yaml", ms)
           left == SubSeq(s, 1, n)
           pushed == Append(left, entry)
           now == [m \in 1..(n + 1) |-> IF m = n + 1 THEN Len(ms) ELSE open[m]]
<1>0. Opens(open, ls, path, s, at) /\ ms = Append(ls, line)
  BY DEF ComesAfter
<1>1. Len(s) \in Nat /\ Len(ls) \in Nat /\ Len(ms) = Len(ls) + 1
  BY <1>0, LenProperties, AppendProperties
<1>2. (\A i \in 1..Len(ls) : ms[i] = ls[i]) /\ ms[Len(ms)] = line
  BY <1>0, <1>1, AppendProperties
<1>3. /\ n \in 0..Len(s)
      /\ \A m \in 1..n : open[m] \in 1..Len(ls)
  BY Nested
<1>4. left \in Seq(S) /\ Len(left) = n /\ \A m \in 1..n : left[m] = s[m] /\ m \in 1..Len(s)
  BY <1>1, <1>3, SubSeqProperties
<1>5. Len(pushed) = n + 1 /\ (\A m \in 1..n : pushed[m] = s[m]) /\ pushed[n + 1] = entry
  BY <1>4, AppendProperties
<1>6. Around("yaml", ms, Len(ms)) = Those(open, n)
  BY NestedPath
<1>7. \A i \in 1..Len(ls) : new[i] = path[i]
  BY <1>0, PathsStay
<1>8. \A m \in 1..(n + 1) : m = n + 1 \/ m \in 1..n
  BY <1>3
<1>9. n + 1 \in 1..(n + 1) /\ \A m \in 1..n : m \in 1..(n + 1) /\ m # n + 1
  BY <1>3
<1>10. now[n + 1] = Len(ms) /\ \A m \in 1..n : now[m] = open[m]
  BY <1>9
<1>11. now \in [1..Len(pushed) -> 1..Len(ms)]
  <2>1. Len(ms) \in 1..Len(ms) /\ \A i \in 1..Len(ls) : i \in 1..Len(ms)
    BY <1>1
  <2> QED  BY <1>3, <1>5, <1>8, <2>1
<1> HIDE DEF now, pushed, left
<1>12. OpenIn(ms) = Those(now, Len(pushed))
  <2>1. Len(ms) \in OpenIn(ms)
    <3>1. Len(ms) \in 1..Len(ms) /\ (Len(ms) + 1)..Len(ms) = {}
      BY <1>1
    <3> QED  BY <1>2, <3>1 DEF OpenIn
  <2>2. \A j \in 1..Len(ms) : j \in 1..(Len(ms) - 1) \/ j = Len(ms)
    BY <1>1
  <2>3. \A j \in 1..(Len(ms) - 1) : j \in 1..Len(ms)
    BY <1>1
  <2>4. OpenIn(ms) = Around("yaml", ms, Len(ms)) \cup {Len(ms)}
    BY <2>1, <2>2, <2>3 DEF OpenIn, Around
  <2>5. Those(now, Len(pushed)) = Those(open, n) \cup {Len(ms)}
    BY <1>5, <1>8, <1>9, <1>10 DEF Those
  <2> QED  BY <1>6, <2>4, <2>5
<1>13. ASSUME NEW m \in 1..Len(pushed), NEW k \in 1..Len(pushed), m < k PROVE now[m] < now[k]
  <2>1. m \in 1..n
    BY <1>3, <1>5, <1>13
  <2>2. CASE k = n + 1
    BY <1>1, <1>3, <1>10, <2>1, <2>2
  <2>3. CASE k \in 1..n
    BY <1>0, <1>4, <1>10, <1>13, <2>1, <2>3 DEF Opens
  <2> QED  BY <1>5, <1>8, <2>2, <2>3
<1>14. \A m \in 0..n : Level(path, open, m) = Level(new, now, m)
  <2>1. \A m \in 0..n : m # 0 => m \in 1..n
    BY <1>3
  <2> HIDE DEF path, new
  <2> QED  BY <1>3, <1>7, <1>10, <2>1 DEF Level
<1>15. ASSUME NEW m \in 1..Len(pushed)
       PROVE  pushed[m].indent = ms[now[m]].indent /\ pushed[m].around = Level(new, now, m - 1)
  <2>1. CASE m \in 1..n
    <3>1. m - 1 \in 0..n
      BY <1>3, <2>1
    <3>2. s[m].indent = ls[open[m]].indent /\ s[m].around = Level(path, open, m - 1)
      BY <1>0, <1>4, <2>1 DEF Opens
    <3>3. ms[now[m]] = ls[open[m]]
      BY <1>2, <1>3, <1>10, <2>1
    <3> HIDE DEF path, new
    <3> QED  BY <1>5, <1>14, <2>1, <3>1, <3>2, <3>3
  <2>2. CASE m = n + 1
    <3>1. m - 1 = n /\ n \in 0..n
      BY <1>3, <2>2
    <3> QED  BY <1>2, <1>5, <1>10, <1>14, <2>2, <3>1
  <2> QED  BY <1>5, <1>8, <2>1, <2>2
<1>16. new[Len(ms)] = Level(new, now, Len(pushed))
  <2>1. Len(pushed) # 0 /\ now[Len(pushed)] = Len(ms)
    BY <1>3, <1>5, <1>10
  <2> QED  BY <2>1 DEF Level
<1> QED
  <2> HIDE DEF path, new
  <2>1. Opens(now, ms, new, pushed, new[Len(ms)])
    BY <1>11, <1>12, <1>13, <1>15, <1>16 DEF Opens
  <2> QED  BY <2>1 DEF new, now, pushed, left

ParseTypeOK ==
    /\ format \in {"yaml", "toml"} /\ lines \in Seq(Lines)
    /\ format = "yaml" => current \in DocPaths /\ stack \in Seq([indent : Nat, around : DocPaths])

StackIsOpen == \E open : Opens(open, lines, PathsIn("yaml", lines), stack, current)

LEMMA YamlStep ==
  ASSUME ParseTypeOK, format = "yaml", StackIsOpen, DocHoldsKept,
         NEW line \in Lines, lines' = Append(lines, line), UNCHANGED format, YamlLine(line)
  PROVE  ParseTypeOK' /\ StackIsOpen' /\ DocHoldsKept'
<1> DEFINE path == PathsIn("yaml", lines)
           new == PathsIn("yaml", lines')
           k == LastOpen(stack, line)
           left == SubSeq(stack, 1, k)
           Stacked == [indent : Nat, around : DocPaths]
<1>0. PICK n : n = Len(lines) + 1
  OBVIOUS
<1>1. /\ lines \in Seq(Lines) /\ stack \in Seq(Stacked) /\ current \in DocPaths
      /\ Len(stack) \in Nat
  BY LenProperties DEF ParseTypeOK
<1>2. PICK open : Opens(open, lines, path, stack, current)
  BY DEF StackIsOpen
<1>3. ComesAfter(line, lines, lines', open, stack, current, k)
  BY <1>1, <1>2 DEF ComesAfter
<1> DEFINE around == Level(path, open, k)
           p == Append(around, line.key)
<1>4. /\ k \in 0..Len(stack)
      /\ (IF k < Len(stack) THEN stack[k + 1].around ELSE current) = around
  BY <1>3, Nested
<1>5. Len(lines) \in Nat /\ Len(lines') = n /\ lines' \in Seq(Lines)
  BY <1>0, <1>1, LenProperties, AppendProperties
<1>6. new[n] = p
  <2>1. new[Len(lines')] = Placed(path, open, k, line)
    BY ONLY <1>3, NestedPath
  <2> QED  BY <1>5, <2>1 DEF Placed
<1>7. Adds(line, n, p)
  BY <1>0, <1>6 DEF Adds, PathOf
<1>8. left \in Seq(Stacked) /\ Len(left) = k
  <2> HIDE DEF Stacked, k
  <2> QED  BY <1>1, <1>4, SubSeqProperties
<1>9. around \in DocPaths
  <2>1. k = 0 \/ (k \in 1..k /\ open[k] \in 1..Len(lines))
    <3>1. \A m \in 1..k : open[m] \in 1..Len(lines)
      BY <1>3, Nested
    <3>2. k = 0 \/ k \in 1..k
      BY <1>1, <1>4
    <3> QED  BY <3>1, <3>2
  <2>2. <<>> \in DocPaths
    BY DEF DocPaths
  <2>3. \A i \in 1..Len(lines) : path[i] \in DocPaths
    BY <1>1, PathsType
  <2> QED  BY <2>1, <2>2, <2>3 DEF Level
<1>10. line.indent \in Nat /\ line.kind \in {"map", "value", "other"} /\ p \in DocPaths
  <2>1. line.key \in KeyParts
    BY DEF Lines, KeyParts
  <2>2. p \in DocPaths
    BY <1>9, <2>1 DEF DocPaths
  <2> QED  BY <2>2, ParsingAssumption DEF Lines
<1>11. \/ /\ line.kind = "map" /\ doc' = Put(doc, p, 0) /\ current' = p
          /\ stack' = Append(left, [indent |-> line.indent, around |-> around])
       \/ /\ line.kind = "value" /\ doc' = Put(doc, p, n) /\ current' = around /\ stack' = left
       \/ /\ line.kind = "other" /\ doc' = doc /\ current' = around /\ stack' = left
  <2> DEFINE popped == SubSeq(stack, 1, CHOOSE m \in 0..Len(stack) :
                                  /\ m = 0 \/ StillOpen(stack[m], line)
                                  /\ \A l \in (m + 1)..Len(stack) : ~StillOpen(stack[l], line))
             outer == IF Len(popped) < Len(stack) THEN stack[Len(popped) + 1].around ELSE current
             there == Append(outer, line.key)
  <2>1. CASE line.kind = "map"
    <3>1. doc' = Put(doc, there, 0) /\ current' = there
          /\ stack' = Append(popped, [indent |-> line.indent, around |-> outer])
      BY <2>1 DEF YamlLine
    <3>2. popped = left
      BY DEF LastOpen
    <3> HIDE DEF popped, left, k, path
    <3>3. outer = around
      BY <1>4, <1>8, <3>2
    <3>4. there = p
      BY <3>3
    <3> HIDE DEF outer, there, p, around
    <3> QED  BY <2>1, <3>1, <3>2, <3>3, <3>4
  <2>2. CASE line.kind = "value"
    <3>1. doc' = Put(doc, there, n) /\ current' = outer /\ stack' = popped
      BY <1>0, <2>2 DEF YamlLine
    <3>2. popped = left
      BY DEF LastOpen
    <3> HIDE DEF popped, left, k, path
    <3>3. outer = around
      BY <1>4, <1>8, <3>2
    <3> QED  BY <2>2, <3>1, <3>2, <3>3
  <2>3. CASE line.kind = "other"
    <3>1. doc' = doc /\ current' = outer /\ stack' = popped
      BY <2>3 DEF YamlLine
    <3>2. popped = left
      BY DEF LastOpen
    <3> HIDE DEF popped, left, k, path
    <3>3. outer = around
      BY <1>4, <1>8, <3>2
    <3> QED  BY <2>3, <3>1, <3>2, <3>3
  <2> QED  BY <1>10, <2>1, <2>2, <2>3
<1> HIDE DEF path, new, k, left, around, p
<1>12. ParseTypeOK'
  <2> DEFINE entry == [indent |-> line.indent, around |-> around]
  <2>1. entry \in Stacked
    BY <1>9, <1>10
  <2>2. stack' \in Seq(Stacked)
    <3> HIDE DEF entry, Stacked
    <3>1. Append(left, entry) \in Seq(Stacked)
      BY <1>8, <2>1, AppendProperties
    <3> QED  BY <1>8, <1>11, <3>1 DEF entry
  <2>3. current' \in DocPaths
    BY <1>9, <1>10, <1>11
  <2>4. format' \in {"yaml", "toml"}
    OBVIOUS
  <2> QED  BY <1>5, <2>2, <2>3, <2>4 DEF ParseTypeOK
<1>13. StackIsOpen'
  <2>1. CASE line.kind = "map"
    <3> DEFINE entry == [indent |-> line.indent, around |-> around]
               now == [m \in 1..(k + 1) |-> IF m = k + 1 THEN Len(lines') ELSE open[m]]
    <3>1. /\ entry \in Stacked /\ entry.indent = line.indent
          /\ entry.around = Level(PathsIn("yaml", lines), open, k)
      BY <1>9, <1>10 DEF around, path
    <3> HIDE DEF entry, Stacked
    <3>2. Opens(now, lines', new, Append(left, entry), new[Len(lines')])
      BY <1>1, <1>3, <2>1, <3>1, OpensAnother DEF new, left
    <3>3. stack' = Append(left, entry) /\ current' = new[Len(lines')]
      BY <1>5, <1>6, <1>11, <2>1 DEF entry
    <3> HIDE DEF now
    <3> QED  BY <3>2, <3>3 DEF StackIsOpen, new
  <2>2. CASE line.kind # "map"
    <3> DEFINE still == [m \in 1..k |-> open[m]]
    <3> HIDE DEF Stacked
    <3>1. Opens(still, lines', new, left, around)
      BY <1>1, <1>3, <2>2, StaysOpen DEF new, left, around, path
    <3>2. stack' = left /\ current' = around
      BY <1>11, <2>2
    <3> HIDE DEF still
    <3> QED  BY <3>1, <3>2 DEF StackIsOpen, new
  <2> QED  BY <2>1, <2>2
<1>14. DocHoldsKept'
  <2>1. CASE line.kind = "other"
    <3>1. doc' = doc /\ ~Writes(line)
      BY <1>11, <2>1 DEF Writes
    <3> QED  BY <1>1, <1>7, <3>1, DocUnwritten
  <2>2. CASE line.kind # "other"
    <3>1. doc' = Put(doc, p, IF line.kind = "value" THEN n ELSE 0) /\ Writes(line)
      BY <1>11, <2>2 DEF Writes
    <3> QED  BY <1>1, <1>7, <3>1, DocWritten
  <2> QED  BY <2>1, <2>2
<1> QED  BY <1>12, <1>13, <1>14

-----------------------------------------------------------------------------
(* The document of TOML: every path in it begins with paths of it.         *)

Whole(d) ==
    \A q \in DOMAIN d : q \in DocPaths /\ \A n \in 1..Len(q) : SubSeq(q, 1, n) \in DOMAIN d

Within(d, at) == at \in DocPaths /\ (at = <<>> \/ at \in DOMAIN d)

LEMMA PathFacts ==
  ASSUME NEW q \in DocPaths
  PROVE  /\ Len(q) \in Nat /\ (\A i \in 1..Len(q) : q[i] \in KeyParts)
         /\ SubSeq(q, 1, Len(q)) = q
         /\ \A n \in 0..Len(q) : /\ SubSeq(q, 1, n) \in DocPaths /\ Len(SubSeq(q, 1, n)) = n
                                 /\ \A i \in 1..n : SubSeq(q, 1, n)[i] = q[i]
<1>1. q \in Seq(KeyParts) /\ Len(q) \in Nat /\ \A i \in 1..Len(q) : q[i] \in KeyParts
  BY LenProperties, ElementOfSeq DEF DocPaths
<1>2. SubSeq(q, 1, Len(q)) = q
  BY <1>1, SubSeqFull
<1>3. ASSUME NEW n \in 0..Len(q)
      PROVE  /\ SubSeq(q, 1, n) \in DocPaths /\ Len(SubSeq(q, 1, n)) = n
             /\ \A i \in 1..n : SubSeq(q, 1, n)[i] = q[i]
  <2>1. \A i \in 1..n : q[i] \in KeyParts /\ 1 + i - 1 = i
    BY <1>1
  <2>2. n - 1 + 1 = n /\ n \in Int /\ 1 \in Int /\ (IF 1 <= n THEN n - 1 + 1 ELSE 0) = n
    BY <1>1
  <2> QED  BY <2>1, <2>2, SubSeqProperties DEF DocPaths
<1> QED  BY <1>1, <1>2, <1>3

\* Two paths are one if they have the same keys.
LEMMA SamePath ==
  ASSUME NEW q \in DocPaths, NEW r \in DocPaths, Len(q) = Len(r),
         \A i \in 1..Len(q) : q[i] = r[i]
  PROVE  q = r
BY SeqEqual DEF DocPaths

LEMMA PrefixIs ==
  ASSUME NEW q \in DocPaths, NEW r \in DocPaths
  PROVE  IsPrefix(q, r) <=> Len(q) <= Len(r) /\ q = SubSeq(r, 1, Len(q))
BY PathFacts DEF IsPrefix

LEMMA BeginsWith ==
  ASSUME NEW q \in DocPaths, NEW n \in 0..Len(q), NEW m \in 0..n
  PROVE  SubSeq(SubSeq(q, 1, n), 1, m) = SubSeq(q, 1, m)
<1>1. m \in 0..Len(q) /\ m \in Nat /\ n \in Nat /\ \A i \in 1..m : i \in 1..n
  BY PathFacts
<1>2. /\ SubSeq(q, 1, n) \in DocPaths /\ Len(SubSeq(q, 1, n)) = n
      /\ \A i \in 1..n : SubSeq(q, 1, n)[i] = q[i]
  BY PathFacts
<1>3. /\ SubSeq(q, 1, m) \in DocPaths /\ Len(SubSeq(q, 1, m)) = m
      /\ \A i \in 1..m : SubSeq(q, 1, m)[i] = q[i]
  BY <1>1, PathFacts
<1> DEFINE r == SubSeq(q, 1, n)
<1> HIDE DEF r
<1>4. /\ SubSeq(r, 1, m) \in DocPaths /\ Len(SubSeq(r, 1, m)) = m
      /\ \A i \in 1..m : SubSeq(r, 1, m)[i] = r[i]
  BY <1>2, PathFacts DEF r
<1>5. \A i \in 1..m : SubSeq(r, 1, m)[i] = SubSeq(q, 1, m)[i]
  BY <1>1, <1>2, <1>3, <1>4 DEF r
<1> QED  BY <1>3, <1>4, <1>5, SamePath DEF r

\* The path of a key in the map at a path.
InMap(at, key) == Append(at, key)

LEMMA KeyIn ==
  ASSUME NEW at \in DocPaths, NEW key \in KeyParts, NEW p, p = InMap(at, key)
  PROVE  /\ p \in DocPaths /\ Len(p) = Len(at) + 1
         /\ \A n \in 1..Len(p) :
                SubSeq(p, 1, n) = p \/ (n \in 1..Len(at) /\ SubSeq(p, 1, n) = SubSeq(at, 1, n))
<1>1. p \in DocPaths /\ Len(p) = Len(at) + 1 /\ \A i \in 1..Len(at) : p[i] = at[i]
  BY AppendProperties DEF DocPaths, InMap
<1>2. Len(at) \in Nat
  BY PathFacts
<1>3. ASSUME NEW n \in 1..Len(at) PROVE SubSeq(p, 1, n) = SubSeq(at, 1, n)
  <2>1. n \in 0..Len(at) /\ n \in 0..Len(p) /\ \A i \in 1..n : i \in 1..Len(at)
    BY <1>1, <1>2
  <2>2. /\ SubSeq(at, 1, n) \in DocPaths /\ Len(SubSeq(at, 1, n)) = n
        /\ \A i \in 1..n : SubSeq(at, 1, n)[i] = at[i]
    BY <2>1, PathFacts
  <2>3. /\ SubSeq(p, 1, n) \in DocPaths /\ Len(SubSeq(p, 1, n)) = n
        /\ \A i \in 1..n : SubSeq(p, 1, n)[i] = p[i]
    BY <1>1, <2>1, PathFacts
  <2>4. \A i \in 1..n : SubSeq(p, 1, n)[i] = SubSeq(at, 1, n)[i]
    BY <1>1, <2>1, <2>2, <2>3
  <2> QED  BY <2>2, <2>3, <2>4, SamePath
<1>4. SubSeq(p, 1, Len(p)) = p
  BY <1>1, PathFacts
<1>5. \A n \in 1..Len(p) : n = Len(p) \/ n \in 1..Len(at)
  BY <1>1, <1>2
<1> QED  BY <1>1, <1>3, <1>4, <1>5

\* What is written in a map of the document leaves it whole, and the map in it.
LEMMA PutWhole ==
  ASSUME NEW d, Whole(d), NEW at, Within(d, at), NEW key \in KeyParts,
         NEW p, p = InMap(at, key), NEW v
  PROVE  Whole(Put(d, p, v)) /\ Within(Put(d, p, v), at) /\ Within(Put(d, p, v), p)
<1> DEFINE e == Put(d, p, v)
<1>1. at \in DocPaths /\ (at = <<>> \/ at \in DOMAIN d)
  BY DEF Within
<1>2. /\ p \in DocPaths /\ Len(p) = Len(at) + 1 /\ Len(at) \in Nat
      /\ \A n \in 1..Len(p) : SubSeq(p, 1, n) = p \/ (n \in 1..Len(at) /\ SubSeq(p, 1, n) = SubSeq(at, 1, n))
  <2>1. Len(at) \in Nat
    BY <1>1, PathFacts
  <2> QED  BY <1>1, <2>1, KeyIn
<1>3. DOMAIN e = {q \in DOMAIN d : ~IsPrefix(p, q)} \cup {p}
  BY DEF Put
<1>4. \A q \in DocPaths : Len(q) <= Len(at) => ~IsPrefix(p, q)
  <2>1. ASSUME NEW q \in DocPaths, Len(q) <= Len(at) PROVE ~(Len(p) <= Len(q))
    BY <1>2, <2>1, PathFacts
  <2> QED  BY <1>2, <2>1, PrefixIs
<1> HIDE DEF e
<1>5. at = <<>> \/ at \in DOMAIN e
  BY <1>1, <1>2, <1>3, <1>4
<1>6. ASSUME NEW q \in DOMAIN d, ~IsPrefix(p, q), NEW n \in 1..Len(q)
      PROVE  SubSeq(q, 1, n) \in DOMAIN e
  <2>1. q \in DocPaths /\ SubSeq(q, 1, n) \in DOMAIN d
    BY DEF Whole
  <2>2. n \in 0..Len(q) /\ Len(q) \in Nat
    BY <2>1, PathFacts
  <2>3. SubSeq(q, 1, n) \in DocPaths /\ Len(SubSeq(q, 1, n)) = n
    BY <2>1, <2>2, PathFacts
  <2>4. ASSUME IsPrefix(p, SubSeq(q, 1, n)) PROVE FALSE
    <3>1. Len(p) <= n /\ p = SubSeq(SubSeq(q, 1, n), 1, Len(p))
      BY <1>2, <2>3, <2>4, PrefixIs
    <3>2. Len(p) \in 0..n /\ Len(p) <= Len(q)
      BY <1>2, <2>2, <3>1
    <3>3. p = SubSeq(q, 1, Len(p))
      BY <2>1, <2>2, <3>1, <3>2, BeginsWith
    <3> QED  BY <1>2, <1>6, <2>1, <3>2, <3>3, PrefixIs
  <2> QED  BY <1>3, <2>1, <2>4
<1>7. ASSUME NEW n \in 1..Len(p) PROVE SubSeq(p, 1, n) \in DOMAIN e
  <2>1. CASE SubSeq(p, 1, n) = p
    BY <1>3, <2>1
  <2>2. CASE n \in 1..Len(at) /\ SubSeq(p, 1, n) = SubSeq(at, 1, n)
    <3>1. at # <<>>
      BY <2>2, EmptySeq
    <3>2. SubSeq(at, 1, n) \in DOMAIN d
      BY <1>1, <2>2, <3>1 DEF Whole
    <3>3. n \in 0..Len(at)
      BY <1>2, <2>2
    <3>4. SubSeq(at, 1, n) \in DocPaths /\ Len(SubSeq(at, 1, n)) <= Len(at)
      BY <1>1, <1>2, <3>3, PathFacts
    <3> QED  BY <1>3, <1>4, <2>2, <3>2, <3>4
  <2> QED  BY <1>2, <2>1, <2>2
<1>8. Whole(e)
  BY <1>2, <1>3, <1>6, <1>7 DEF Whole
<1>9. Within(e, at) /\ Within(e, p)
  BY <1>1, <1>2, <1>3, <1>5 DEF Within
<1> QED  BY <1>8, <1>9 DEF e

\* The two documents have the same values.
SameValues(d, e) ==
    /\ \A q : q \in DOMAIN d /\ d[q] # 0 <=> q \in DOMAIN e /\ e[q] # 0
    /\ \A q \in DOMAIN d : d[q] # 0 => e[q] = d[q]

SectionStep(s, name) ==
    LET p == Append(s.at, <<name>>)
    IN  IF p \notin DOMAIN s.doc THEN [doc |-> Put(s.doc, p, 0), at |-> p]
        ELSE [s EXCEPT !.at = IF s.doc[p] = 0 THEN p ELSE @]

LEMMA SectionDefined ==
  ASSUME NEW d, NEW names, Len(names) \in Nat
  PROVE  \E s : /\ s[0] = [doc |-> d, at |-> <<>>]
                /\ \A n \in 1..Len(names) : s[n] = SectionStep(s[n - 1], names[n])
                /\ Section(d, names) = s[Len(names)]
<1> DEFINE Step(s, n) == IF n = 0 THEN [doc |-> d, at |-> <<>>]
                         ELSE SectionStep(s[n - 1], names[n])
           T == {m \in Nat : \E s : s = [n \in 0..m |-> Step(s, n)]}
<1>1. 0 \in T
  <2> DEFINE s == [n \in 0..0 |-> [doc |-> d, at |-> <<>>]]
  <2>1. \A n \in 0..0 : Step(s, n) = [doc |-> d, at |-> <<>>]
    OBVIOUS
  <2> HIDE DEF Step
  <2>2. s = [n \in 0..0 |-> Step(s, n)]
    BY <2>1
  <2> HIDE DEF s
  <2> QED  BY <2>2
<1>2. ASSUME NEW m \in T PROVE m + 1 \in T
  <2>1. PICK s : s = [n \in 0..m |-> Step(s, n)]
    OBVIOUS
  <2>2. m \in Nat
    OBVIOUS
  <2> DEFINE t == [n \in 0..(m + 1) |-> Step(s, n)]
  <2> HIDE DEF Step
  <2>3. ASSUME NEW n \in 0..m PROVE t[n] = s[n]
    <3>1. n \in 0..(m + 1)
      BY <2>2
    <3>2. t[n] = Step(s, n)
      BY <3>1
    <3> QED  BY <2>1, <3>2
  <2>4. ASSUME NEW n \in 0..(m + 1) PROVE Step(t, n) = Step(s, n)
    <3>1. n # 0 => n - 1 \in 0..m
      BY <2>2
    <3> HIDE DEF t
    <3> QED  BY <2>3, <3>1 DEF Step
  <2>5. t = [n \in 0..(m + 1) |-> Step(t, n)]
    <3> QED  BY <2>4
  <2> HIDE DEF t
  <2>6. m + 1 \in Nat /\ \E u : u = [n \in 0..(m + 1) |-> Step(u, n)]
    BY <2>2, <2>5
  <2> QED  BY <2>6
<1>3. T = Nat
  <2>1. T \subseteq Nat
    OBVIOUS
  <2> HIDE DEF T
  <2> QED  BY <1>1, <1>2, <2>1, Induction
<1> DEFINE s == CHOOSE s : s = [n \in 0..Len(names) |-> Step(s, n)]
<1>4. Section(d, names) = s[Len(names)]
  BY DEF Section, SectionStep
<1>5. s = [n \in 0..Len(names) |-> Step(s, n)]
  <2>1. \E u : u = [n \in 0..Len(names) |-> Step(u, n)]
    BY <1>3
  <2> HIDE DEF Step
  <2> QED  BY <2>1
<1> HIDE DEF s
<1>6. \A n \in 0..Len(names) : s[n] = Step(s, n)
  <2> HIDE DEF Step
  <2> QED  BY <1>5
<1>7. s[0] = [doc |-> d, at |-> <<>>]
  BY <1>6
<1>8. \A n \in 1..Len(names) : s[n] = SectionStep(s[n - 1], names[n])
  BY <1>6
<1> QED  BY <1>4, <1>7, <1>8

\* The names of a section lead from map to map, and the section takes no
\* value away, unless one of them is that of a value.
SectionAt(s, d, key, n) ==
    /\ s = [doc |-> s.doc, at |-> s.at] /\ s.at = SubSeq(SectionPath(key), 1, n)
    /\ Whole(s.doc) /\ Within(s.doc, s.at) /\ SameValues(d, s.doc)

NoValueOn(d, path) ==
    \A n \in 1..Len(path) : SubSeq(path, 1, n) \in DOMAIN d => d[SubSeq(path, 1, n)] = 0

LEMMA NextName ==
  ASSUME NEW d, NEW key \in LineKeys, NoValueOn(d, SectionPath(key)),
         NEW n \in 0..(Len(key) - 1), NEW s, SectionAt(s, d, key, n)
  PROVE  SectionAt(SectionStep(s, key[n + 1]), d, key, n + 1)
<1> DEFINE path == SectionPath(key)
           p == Append(s.at, <<key[n + 1]>>)
           t == SectionStep(s, key[n + 1])
<1>1. /\ Len(key) \in Nat /\ path \in DocPaths /\ Len(path) = Len(key)
      /\ n + 1 \in 1..Len(path) /\ n \in 0..Len(path) /\ n + 1 \in 0..Len(path)
      /\ <<key[n + 1]>> \in KeyParts /\ path[n + 1] = <<key[n + 1]>>
  <2>1. Len(key) \in Nat /\ path \in DocPaths
    BY SectionPathType
  <2>2. Len(path) = Len(key) /\ \A i \in 1..Len(key) : path[i] = <<key[i]>>
    BY <2>1 DEF SectionPath
  <2>3. n + 1 \in 1..Len(key) /\ n \in 0..Len(key) /\ n + 1 \in 0..Len(key)
    BY <2>1
  <2>4. <<key[n + 1]>> \in KeyParts
    BY <2>3, SectionPathType
  <2> HIDE DEF path
  <2> QED  BY <2>1, <2>2, <2>3, <2>4
<1> HIDE DEF path
<1>2. /\ s.at = SubSeq(path, 1, n) /\ s.at \in DocPaths /\ Len(s.at) = n
      /\ \A i \in 1..n : s.at[i] = path[i]
  <2>1. s.at = SubSeq(path, 1, n)
    BY DEF SectionAt, path
  <2> QED  BY <1>1, <2>1, PathFacts
<1>3. p = SubSeq(path, 1, n + 1) /\ p \in DocPaths
  <2>1. /\ p \in DocPaths /\ Len(p) = n + 1
        /\ (\A i \in 1..n : p[i] = s.at[i]) /\ p[n + 1] = <<key[n + 1]>>
    BY <1>1, <1>2, AppendProperties DEF DocPaths
  <2>2. /\ SubSeq(path, 1, n + 1) \in DocPaths /\ Len(SubSeq(path, 1, n + 1)) = n + 1
        /\ \A i \in 1..(n + 1) : SubSeq(path, 1, n + 1)[i] = path[i]
    BY <1>1, PathFacts
  <2>3. \A i \in 1..(n + 1) : i \in 1..n \/ i = n + 1
    BY <1>1
  <2>4. \A i \in 1..(n + 1) : p[i] = SubSeq(path, 1, n + 1)[i]
    <3> HIDE DEF p
    <3> QED  BY <1>1, <1>2, <2>1, <2>2, <2>3
  <2> HIDE DEF p
  <2> QED  BY <2>1, <2>2, <2>4, SamePath
<1>4. /\ Whole(Put(s.doc, p, 0)) /\ Within(Put(s.doc, p, 0), p)
  <2>1. Whole(s.doc) /\ Within(s.doc, s.at)
    BY DEF SectionAt
  <2>2. p = InMap(s.at, <<key[n + 1]>>)
    BY DEF InMap
  <2> HIDE DEF p
  <2> QED  BY <1>1, <2>1, <2>2, PutWhole
<1>5. s = [doc |-> s.doc, at |-> s.at] /\ Whole(s.doc) /\ SameValues(d, s.doc)
  BY DEF SectionAt
<1>6. t = IF p \notin DOMAIN s.doc THEN [doc |-> Put(s.doc, p, 0), at |-> p]
          ELSE [s EXCEPT !.at = IF s.doc[p] = 0 THEN p ELSE @]
  BY DEF SectionStep
<1>7. p \in DOMAIN s.doc => s.doc[p] = 0
  <2> HIDE DEF p
  <2>1. p \in DOMAIN d => d[p] = 0
    BY <1>1, <1>3 DEF NoValueOn, path
  <2> QED  BY <1>5, <2>1 DEF SameValues
<1> HIDE DEF p, t
<1>8. CASE p \in DOMAIN s.doc
  <2>1. t = [s EXCEPT !.at = p]
    BY <1>6, <1>7, <1>8
  <2>2. t = [doc |-> s.doc, at |-> p] /\ t.doc = s.doc /\ t.at = p
    BY <1>5, <2>1
  <2>3. Within(s.doc, p)
    BY <1>3, <1>8 DEF Within
  <2> QED  BY <1>3, <1>5, <2>2, <2>3 DEF SectionAt, path, t
<1>9. CASE p \notin DOMAIN s.doc
  <2> DEFINE e == Put(s.doc, p, 0)
  <2>1. t = [doc |-> e, at |-> p]
    BY <1>6, <1>9
  <2>2. t.doc = e /\ t.at = p
    BY <2>1
  <2>3. SameValues(d, e)
    <3>1. ASSUME NEW q \in DOMAIN s.doc PROVE ~IsPrefix(p, q)
      <4>1. q \in DocPaths /\ \A m \in 1..Len(q) : SubSeq(q, 1, m) \in DOMAIN s.doc
        BY <1>5 DEF Whole
      <4>2. Len(p) \in Nat /\ Len(p) # 0
        <5>1. Len(p) = n + 1
          BY <1>1, <1>3, PathFacts
        <5> QED  BY <1>1, <5>1
      <4>3. Len(q) \in Nat
        BY <4>1, PathFacts
      <4>4. Len(p) <= Len(q) => Len(p) \in 1..Len(q)
        BY <4>2, <4>3
      <4> QED  BY <1>3, <1>9, <4>1, <4>4, PrefixIs
    <3>2. DOMAIN e = DOMAIN s.doc \cup {p} /\ \A q \in DOMAIN e : e[q] = IF q = p THEN 0 ELSE s.doc[q]
      BY <3>1 DEF Put
    <3> HIDE DEF e
    <3> QED  BY <1>5, <1>9, <3>2 DEF SameValues
  <2> HIDE DEF e
  <2>4. Whole(e) /\ Within(e, p)
    BY <1>4 DEF e
  <2> QED  BY <1>3, <2>1, <2>2, <2>3, <2>4 DEF SectionAt, path, t
<1> QED  BY <1>8, <1>9 DEF t

LEMMA SectionOpens ==
  ASSUME NEW d, Whole(d), NEW key \in LineKeys, NoValueOn(d, SectionPath(key))
  PROVE  LET s == Section(d, key)
         IN  /\ s.at = SectionPath(key)
             /\ Whole(s.doc) /\ Within(s.doc, s.at) /\ SameValues(d, s.doc)
<1>1. Len(key) \in Nat /\ SectionPath(key) \in DocPaths
  BY SectionPathType
<1>2. Len(SectionPath(key)) = Len(key)
  BY <1>1 DEF SectionPath
<1>3. PICK s : /\ s[0] = [doc |-> d, at |-> <<>>]
               /\ \A n \in 1..Len(key) : s[n] = SectionStep(s[n - 1], key[n])
               /\ Section(d, key) = s[Len(key)]
  BY <1>1, SectionDefined
<1> DEFINE T == {n \in Nat : n <= Len(key) => SectionAt(s[n], d, key, n)}
<1>4. 0 \in T
  <2>1. SubSeq(SectionPath(key), 1, 0) = <<>>
    BY SubSeqEmpty
  <2>2. s[0].doc = d /\ s[0].at = <<>>
    BY <1>3
  <2>3. <<>> \in DocPaths
    BY DEF DocPaths
  <2> QED  BY <1>3, <2>1, <2>2, <2>3 DEF SectionAt, Within, SameValues
<1>5. ASSUME NEW n \in T PROVE n + 1 \in T
  <2>1. n \in Nat /\ (n <= Len(key) => SectionAt(s[n], d, key, n))
    OBVIOUS
  <2>2. ASSUME n + 1 <= Len(key) PROVE SectionAt(s[n + 1], d, key, n + 1)
    <3>1. n + 1 \in 1..Len(key) /\ n \in 0..(Len(key) - 1) /\ n <= Len(key) /\ n + 1 - 1 = n
      BY <1>1, <2>1, <2>2
    <3>2. s[n + 1] = SectionStep(s[n], key[n + 1])
      BY <1>3, <3>1
    <3> QED  BY <2>1, <3>1, <3>2, NextName
  <2> QED  BY <2>1, <2>2
<1>6. T = Nat
  <2>1. T \subseteq Nat
    OBVIOUS
  <2> HIDE DEF T
  <2> QED  BY <1>4, <1>5, <2>1, Induction
<1>7. SectionAt(s[Len(key)], d, key, Len(key))
  <2>1. Len(key) \in T /\ Len(key) <= Len(key)
    BY <1>1, <1>6
  <2> QED  BY <2>1
<1>8. SubSeq(SectionPath(key), 1, Len(key)) = SectionPath(key)
  BY <1>1, <1>2, PathFacts
<1> QED  BY <1>3, <1>7, <1>8 DEF SectionAt

\* The section that a line would be added to is the last, and in the document.
SectionIsLast ==
    /\ current = IF Around("toml", lines, Len(lines) + 1) = {} THEN <<>>
                 ELSE PathsIn("toml", lines)[Max(Around("toml", lines, Len(lines) + 1))]
    /\ Whole(doc) /\ Within(doc, current)

\* The headers before line n, and before the one after it.
LEMMA Headers ==
  ASSUME lines \in Seq(Lines), NEW line \in Lines, NEW n, NEW p, Adds(line, n, p)
  PROVE  /\ Around("toml", lines', n) = Around("toml", lines, n)
         /\ Around("toml", lines', n + 1) =
               Around("toml", lines, n) \cup (IF line.kind = "map" THEN {n} ELSE {})
<1>1. /\ n \in Nat /\ n # 0 /\ Len(lines) \in Nat /\ n = Len(lines) + 1
      /\ lines'[n] = line /\ \A i \in 1..Len(lines) : lines'[i] = lines[i]
  BY LineAdded DEF Adds
<1>2. 1..(n - 1) = 1..Len(lines) /\ 1..(n + 1 - 1) = 1..Len(lines) \cup {n} /\ n \notin 1..Len(lines)
  BY <1>1
<1>3. /\ \A ls, i : Around("toml", ls, i) = {j \in 1..(i - 1) : ls[j].kind = "map"}
  BY DEF Around
<1>4. Around("toml", lines', n) = Around("toml", lines, n)
  <2>1. Around("toml", lines', n) = {j \in 1..Len(lines) : lines'[j].kind = "map"}
    BY <1>2, <1>3
  <2>2. Around("toml", lines, n) = {j \in 1..Len(lines) : lines[j].kind = "map"}
    BY <1>2, <1>3
  <2> QED  BY <1>1, <2>1, <2>2
<1>5. Around("toml", lines', n + 1) = {j \in 1..Len(lines) \cup {n} : lines'[j].kind = "map"}
  BY <1>2, <1>3
<1>6. Around("toml", lines, n) = {j \in 1..Len(lines) : lines[j].kind = "map"}
  BY <1>2, <1>3
<1> QED  BY <1>1, <1>2, <1>4, <1>5, <1>6

LEMMA LastAround ==
  ASSUME NEW f, NEW ls \in Seq(Lines), NEW n \in Nat, n \in Around(f, ls, n + 1)
  PROVE  Around(f, ls, n + 1) # {} /\ Max(Around(f, ls, n + 1)) = n
<1>1. PICK m \in Nat : m = n + 1
  OBVIOUS
<1>2. Max(Around(f, ls, m)) \in 1..(m - 1) /\ \A j \in Around(f, ls, m) : j <= Max(Around(f, ls, m))
  BY <1>1, AroundIsBefore
<1> QED  BY <1>1, <1>2

LEMMA TomlStep ==
  ASSUME ParseTypeOK, format = "toml", SectionIsLast, DocHoldsKept,
         NEW line \in Lines, lines' = Append(lines, line), UNCHANGED format, TomlLine(line),
         ~NamedLikeValue'
  PROVE  SectionIsLast' /\ DocHoldsKept'
<1> DEFINE path == PathsIn("toml", lines)
           new == PathsIn("toml", lines')
           p == IF line.kind = "map" THEN SectionPath(line.key) ELSE Append(current, line.key)
<1>1. PICK n : n = Len(lines) + 1
  OBVIOUS
<1>2. lines \in Seq(Lines) /\ Adds(line, n, new[n])
  BY <1>1 DEF ParseTypeOK, Adds, PathOf
<1>3. /\ Len(lines) \in Nat /\ n \in Nat /\ n # 0 /\ n \in 1..Len(lines') /\ Len(lines') = n
      /\ lines' \in Seq(Lines) /\ lines'[n] = line
      /\ DOMAIN lines = 1..Len(lines) /\ DOMAIN lines' = 1..n
  <2> HIDE DEF new
  <2>1. /\ Len(lines) \in Nat /\ n \in Nat /\ n # 0 /\ Len(lines') = n
        /\ lines' \in Seq(Lines) /\ lines'[n] = line
        /\ DOMAIN lines = 1..Len(lines) /\ DOMAIN lines' = 1..n
    BY <1>2, LineAdded
  <2> QED  BY <2>1
<1>4. \A i \in 1..Len(lines) : new[i] = path[i] /\ i \in 1..n
  <2>1. \A i \in 1..Len(lines) : new[i] = path[i]
    BY <1>2, PathsStay
  <2>2. \A i \in 1..Len(lines) : i \in 1..n
    BY <1>1, <1>3
  <2> QED  BY <2>1, <2>2
<1> DEFINE H == Around("toml", lines, n)
<1>5. H # {} => Max(H) \in 1..Len(lines)
  <2>1. H # {} => Max(H) \in 1..(n - 1)
    BY <1>2, <1>3, AroundIsBefore
  <2>2. 1..(n - 1) = 1..Len(lines)
    BY <1>1, <1>3
  <2> QED  BY <2>1, <2>2
<1>6. current = IF H = {} THEN <<>> ELSE path[Max(H)]
  BY <1>1 DEF SectionIsLast
<1>7. /\ Around("toml", lines', n) = H
      /\ Around("toml", lines', n + 1) = H \cup (IF line.kind = "map" THEN {n} ELSE {})
  <2> HIDE DEF new
  <2> QED  BY <1>2, Headers
<1>8. new[n] = p
  <2>1. new[n] = PathStep("toml", lines', new, n)
    BY ONLY <1>3, PathsDefined
  <2> HIDE DEF new, path, H
  <2>2. PathStep("toml", lines', new, n) = p
    <3>1. CASE line.kind = "map"
      BY <1>3, <3>1 DEF PathStep
    <3>2. CASE line.kind # "map"
      <4>1. (IF H = {} THEN <<>> ELSE new[Max(H)]) = current
        BY <1>4, <1>5, <1>6
      <4> QED  BY <1>3, <1>7, <3>2, <4>1 DEF PathStep
    <3> QED  BY <3>1, <3>2
  <2> QED  BY <2>1, <2>2
<1>9. line.kind \in {"map", "value", "other"} /\ line.key \in LineKeys /\ line.key \in KeyParts
  BY DEF Lines, KeyParts
<1>10. Whole(doc) /\ Within(doc, current)
  BY DEF SectionIsLast
<1> HIDE DEF new, path, H, p
<1>11. CASE line.kind = "map"
  <2> DEFINE s == Section(doc, line.key)
  <2>1. doc' = s.doc /\ current' = s.at
    BY <1>11 DEF TomlLine
  <2>2. p = SectionPath(line.key) /\ p \in DocPaths
    BY <1>9, <1>11, SectionPathType DEF p
  <2>3. NoValueOn(doc, p)
    <3> SUFFICES ASSUME NEW m \in 1..Len(p), SubSeq(p, 1, m) \in DOMAIN doc, doc[SubSeq(p, 1, m)] # 0
                 PROVE  FALSE
      BY DEF NoValueOn
    <3> DEFINE q == SubSeq(p, 1, m)
    <3>1. PICK j : j = doc[q]
      OBVIOUS
    <3>2. j \in Kept /\ PathOf(j) = q
      BY <3>1 DEF DocHoldsKept
    <3>3. j \in 1..Len(lines) /\ lines[j].kind = "value"
      BY <1>3, <3>2 DEF Kept, ValueLines
    <3>4. j \in 1..n /\ j < n /\ lines'[j] = lines[j]
      <4>1. j \in 1..n /\ j < n
        BY <1>1, <1>3, <3>3
      <4> QED  BY <1>2, <3>3, <4>1, LineAdded
    <3>5. new[j] = q
      BY <1>4, <3>2, <3>3 DEF PathOf, path
    <3>6. IsPrefix(q, p)
      <4>1. Len(p) \in Nat /\ m \in 0..Len(p)
        BY <2>2, PathFacts
      <4>2. q \in DocPaths /\ Len(q) = m /\ m <= Len(p)
        BY <2>2, <4>1, PathFacts
      <4>3. q = SubSeq(p, 1, Len(q))
        BY <4>2
      <4> HIDE DEF q
      <4> QED  BY <2>2, <4>2, <4>3, PrefixIs
    <3> HIDE DEF q
    <3>7. NamedLikeValue'
      <4>1. format' = "toml" /\ n \in DOMAIN lines' /\ j \in ValueLines'
        BY <1>3, <3>3, <3>4 DEF ValueLines
      <4>2. IsPrefix(PathsIn(format', lines')[j], PathsIn(format', lines')[n])
        BY <1>8, <3>5, <3>6 DEF new
      <4> QED  BY <1>3, <1>11, <3>4, <4>1, <4>2 DEF NamedLikeValue, PathOf
    <3> QED  BY <3>7
  <2>4. /\ s.at = p /\ Whole(s.doc) /\ Within(s.doc, s.at) /\ SameValues(doc, s.doc)
    BY <1>9, <1>10, <2>2, <2>3, SectionOpens
  <2> HIDE DEF s
  <2>5. DocHoldsKept'
    <3>1. ~Writes(line)
      BY <1>11 DEF Writes
    <3>2. /\ \A q : q \in DOMAIN doc' /\ doc'[q] # 0 <=> q \in DOMAIN doc /\ doc[q] # 0
          /\ \A q \in DOMAIN doc : doc[q] # 0 => doc'[q] = doc[q]
      BY <2>1, <2>4 DEF SameValues
    <3> QED  BY <1>2, <3>1, <3>2, DocUnwritten
  <2>6. Around("toml", lines', n + 1) # {} /\ Max(Around("toml", lines', n + 1)) = n
    <3>1. n \in Around("toml", lines', n + 1)
      BY <1>7, <1>11
    <3>2. n \in Nat /\ lines' \in Seq(Lines)
      BY <1>3
    <3> QED  BY ONLY <3>1, <3>2, LastAround
  <2>7. SectionIsLast'
    <3>1. current' = IF Around("toml", lines', n + 1) = {} THEN <<>>
                     ELSE PathsIn("toml", lines')[Max(Around("toml", lines', n + 1))]
      BY <1>8, <2>1, <2>4, <2>6 DEF new
    <3> QED  BY <1>3, <2>1, <2>4, <3>1 DEF SectionIsLast
  <2> QED  BY <2>5, <2>7
<1>12. CASE line.kind # "map"
  <2>1. /\ Around("toml", lines', n + 1) = H /\ p = Append(current, line.key)
    BY <1>7, <1>12 DEF p
  <2>2. current' = current
    BY <1>9, <1>12 DEF TomlLine
  <2>3. current' = IF Around("toml", lines', n + 1) = {} THEN <<>>
                   ELSE PathsIn("toml", lines')[Max(Around("toml", lines', n + 1))]
    BY <1>4, <1>5, <1>6, <2>1, <2>2 DEF new
  <2>4. CASE line.kind = "value"
    <3>1. doc' = Put(doc, p, n)
      BY <1>1, <2>1, <2>4 DEF TomlLine
    <3>2. Whole(doc') /\ Within(doc', current)
      <4>1. p = InMap(current, line.key)
        BY <2>1 DEF InMap
      <4> QED  BY <1>9, <1>10, <3>1, <4>1, PutWhole
    <3>3. DocHoldsKept'
      <4>1. Writes(line) /\ doc' = Put(doc, p, IF line.kind = "value" THEN n ELSE 0)
        BY <2>4, <3>1 DEF Writes
      <4>2. Adds(line, n, p)
        BY <1>2, <1>8
      <4> QED  BY <1>2, <4>1, <4>2, DocWritten
    <3> QED  BY <1>3, <2>2, <2>3, <3>2, <3>3 DEF SectionIsLast
  <2>5. CASE line.kind = "other"
    <3>1. doc' = doc
      BY <2>5 DEF TomlLine
    <3>2. DocHoldsKept'
      <4>1. ~Writes(line)
        BY <2>5 DEF Writes
      <4> QED  BY <1>2, <3>1, <4>1, DocUnwritten
    <3> QED  BY <1>3, <1>10, <2>2, <2>3, <3>1, <3>2 DEF SectionIsLast
  <2> QED  BY <1>9, <1>12, <2>4, <2>5
<1> QED  BY <1>11, <1>12

-----------------------------------------------------------------------------
(* What Flatten makes of a document that holds the values kept.            *)

ParseInv ==
    /\ ParseTypeOK /\ ParsedAsNested
    /\ ~NamedLikeValue => /\ DocHoldsKept
                          /\ format = "yaml" => StackIsOpen
                          /\ format = "toml" => SectionIsLast

LEMMA ParseInitInv == ParseInit => ParseInv
<1> SUFFICES ASSUME ParseInit PROVE ParseInv
  OBVIOUS
<1>1. /\ format \in {"yaml", "toml"} /\ lines = <<>> /\ doc = <<>> /\ current = <<>>
      /\ stack = <<>> /\ flat = {}
  BY DEF ParseInit, ParseOf
<1>2. ParseTypeOK
  BY <1>1 DEF ParseTypeOK, DocPaths
<1>3. Kept = {}
  BY <1>1 DEF Kept, ValueLines
<1>4. DocHoldsKept
  BY <1>1, <1>3 DEF DocHoldsKept
<1>5. StackIsOpen
  <2> DEFINE open == [m \in 1..0 |-> 0]
  <2>1. Len(lines) = 0 /\ Len(stack) = 0
    BY <1>1
  <2>2. \A m \in 1..0 : FALSE
    OBVIOUS
  <2>3. OpenIn(lines) = {} /\ Those(open, 0) = {}
    BY <2>1, <2>2 DEF OpenIn, Those
  <2>4. open \in [1..0 -> 1..0]
    OBVIOUS
  <2> HIDE DEF open
  <2>5. Opens(open, lines, PathsIn("yaml", lines), stack, current)
    BY <1>1, <2>1, <2>2, <2>3, <2>4 DEF Opens, Level
  <2> QED  BY <2>5 DEF StackIsOpen
<1>6. SectionIsLast
  <2>1. Around("toml", lines, Len(lines) + 1) = {}
    BY <1>1 DEF Around
  <2>2. Whole(doc) /\ Within(doc, current)
    BY <1>1 DEF Whole, Within, DocPaths
  <2> QED  BY <1>1, <2>1, <2>2 DEF SectionIsLast
<1>7. ParsedAsNested
  BY <1>1 DEF ParsedAsNested
<1> QED  BY <1>2, <1>4, <1>5, <1>6, <1>7 DEF ParseInv

LEMMA ParseLineStep == ParseInv /\ ParseLine => ParseInv'
<1> SUFFICES ASSUME ParseInv, ParseLine PROVE ParseInv'
  OBVIOUS
<1>1. PICK line \in Lines :
          /\ lines' = Append(lines, line) /\ UNCHANGED format
          /\ IF format = "yaml" THEN YamlLine(line) ELSE TomlLine(line)
  BY DEF ParseLine
<1>2. flat' = {}
  BY <1>1 DEF ParseLine, YamlLine, TomlLine
<1>3. ParsedAsNested'
  BY <1>2 DEF ParsedAsNested
<1>4. format \in {"yaml", "toml"} /\ lines \in Seq(Lines) /\ ParseTypeOK
  BY DEF ParseInv, ParseTypeOK
<1>5. CASE format = "yaml"
  <2>1. ~NamedLikeValue
    BY <1>5 DEF NamedLikeValue
  <2>2. ParseTypeOK' /\ StackIsOpen' /\ DocHoldsKept'
    BY <1>1, <1>4, <1>5, <2>1, YamlStep DEF ParseInv
  <2> QED  BY <1>1, <1>3, <1>5, <2>2 DEF ParseInv
<1>6. CASE format = "toml"
  <2>1. ParseTypeOK'
    <3>1. lines' \in Seq(Lines)
      BY <1>1, <1>4, AppendProperties
    <3> QED  BY <1>1, <1>6, <3>1 DEF ParseTypeOK
  <2>2. ASSUME ~NamedLikeValue' PROVE SectionIsLast' /\ DocHoldsKept'
    <3>1. PICK n : n = Len(lines) + 1
      OBVIOUS
    <3>2. PICK p : p = PathOf(n)'
      OBVIOUS
    <3>3. Adds(line, n, p)
      BY <1>1, <3>1, <3>2 DEF Adds
    <3>4. ~NamedLikeValue
      BY <1>4, <2>2, <3>3, NamedStays
    <3> QED  BY <1>1, <1>4, <1>6, <2>2, <3>4, TomlStep DEF ParseInv
  <2> QED  BY <1>1, <1>3, <1>6, <2>1, <2>2 DEF ParseInv
<1> QED  BY <1>4, <1>5, <1>6

LEMMA FlattenIsKept ==
  ASSUME lines \in Seq(Lines), DocHoldsKept, Flatten, NEW f \in flat'
  PROVE  /\ DOMAIN f = {FlattenSeq(PathOf(i)) : i \in Kept}
         /\ \A key \in DOMAIN f : f[key] \in Kept /\ FlattenSeq(PathOf(f[key])) = key
<1> DEFINE values == {p \in DOMAIN doc : doc[p] # 0}
           dotted == {FlattenSeq(p) : p \in values}
<1>1. PICK last \in [dotted -> values] :
          /\ \A key \in dotted : FlattenSeq(last[key]) = key
          /\ flat' = {[key \in dotted |-> doc[last[key]]]}
  BY DEF Flatten
<1>2. f = [key \in dotted |-> doc[last[key]]]
  BY <1>1
<1>3. values = {PathOf(i) : i \in Kept}
  <2>1. ASSUME NEW i \in Kept PROVE PathOf(i) \in values
    <3>1. i # 0
      <4>1. i \in DOMAIN lines
        BY DEF Kept, ValueLines
      <4> QED  BY <4>1, LenProperties
    <3> QED  BY <3>1 DEF DocHoldsKept
  <2>2. ASSUME NEW q \in values PROVE \E i \in Kept : q = PathOf(i)
    BY DEF DocHoldsKept
  <2> HIDE DEF values
  <2> QED  BY <2>1, <2>2
<1>4. dotted = {FlattenSeq(PathOf(i)) : i \in Kept}
  <2> HIDE DEF values
  <2> QED  BY <1>3
<1>5. ASSUME NEW key \in dotted PROVE f[key] \in Kept /\ FlattenSeq(PathOf(f[key])) = key
  <2>1. last[key] \in values /\ FlattenSeq(last[key]) = key /\ f[key] = doc[last[key]]
    <3> HIDE DEF values, dotted
    <3> QED  BY <1>1, <1>2
  <2>2. doc[last[key]] \in Kept /\ PathOf(doc[last[key]]) = last[key]
    BY <2>1 DEF DocHoldsKept
  <2> QED  BY <2>1, <2>2
<1> HIDE DEF dotted
<1>6. DOMAIN f = dotted
  BY <1>2
<1> QED  BY <1>4, <1>5, <1>6

LEMMA ParseStays ==
  ASSUME ParseInv, UNCHANGED <<format, lines, doc, current, stack>>, ParsedAsNested'
  PROVE  ParseInv'
<1>1. Kept' = Kept /\ NamedLikeValue' = NamedLikeValue
  BY DEF Kept, ValueLines, Replaces, PathOf, NamedLikeValue
<1>2. DocHoldsKept' = DocHoldsKept
  BY <1>1 DEF DocHoldsKept, PathOf
<1>3. /\ ParseTypeOK' = ParseTypeOK /\ StackIsOpen' = StackIsOpen /\ SectionIsLast' = SectionIsLast
  BY DEF ParseTypeOK, StackIsOpen, SectionIsLast
<1> QED  BY <1>1, <1>2, <1>3 DEF ParseInv

\* The flattened document holds the values that the indentation, or the
\* section headers, place at each key, for documents of any length, any keys
\* and any depth (parser.go:113-163, 286-316, 384-397).
THEOREM ParsesAsNested == ParseSpec => []ParsedAsNested
<1>1. ParseInv /\ Flatten => ParseInv'
  <2> SUFFICES ASSUME ParseInv, Flatten PROVE ParseInv'
    OBVIOUS
  <2>1. UNCHANGED <<format, lines, doc, current, stack>>
    BY DEF Flatten
  <2>2. Kept' = Kept /\ NamedLikeValue' = NamedLikeValue /\ \A i : PathOf(i)' = PathOf(i)
    BY <2>1 DEF Kept, ValueLines, Replaces, PathOf, NamedLikeValue
  <2>3. lines \in Seq(Lines) /\ (~NamedLikeValue => DocHoldsKept)
    BY DEF ParseInv, ParseTypeOK
  <2>4. ASSUME NEW f \in flat', ~NamedLikeValue
        PROVE  /\ DOMAIN f = {FlattenSeq(PathOf(i)) : i \in Kept}
               /\ \A key \in DOMAIN f : f[key] \in Kept /\ FlattenSeq(PathOf(f[key])) = key
    BY <2>3, <2>4, FlattenIsKept
  <2>5. ParsedAsNested'
    BY <2>1, <2>2, <2>4 DEF ParsedAsNested, PathOf
  <2> QED  BY <2>1, <2>5, ParseStays
<1>2. ParseInv /\ UNCHANGED parseVars => ParseInv'
  <2> SUFFICES ASSUME ParseInv, UNCHANGED parseVars PROVE ParseInv'
    OBVIOUS
  <2>1. UNCHANGED <<format, lines, doc, current, stack>> /\ UNCHANGED flat
    BY DEF parseVars
  <2>2. Kept' = Kept /\ NamedLikeValue' = NamedLikeValue
    BY <2>1 DEF Kept, ValueLines, Replaces, PathOf, NamedLikeValue
  <2>3. ParsedAsNested'
    BY <2>1, <2>2 DEF ParseInv, ParsedAsNested, PathOf
  <2> QED  BY <2>1, <2>3, ParseStays
<1>3. ParseInv /\ [ParseNext]_parseVars => ParseInv'
  BY <1>1, <1>2, ParseLineStep DEF ParseNext
<1>4. ParseInv => ParsedAsNested
  BY DEF ParseInv
<1> QED  BY <1>3, <1>4, ParseInitInv, PTL DEF ParseSpec

-----------------------------------------------------------------------------
(* Nesting.  Keys, their first parts, and the keys below them.             *)

Names == MapNames \cup UNION {ToSet(p) : p \in Paths}

DotKeys == Seq(Names)

Upto(p, i) == SubSeq(p, 1, i)

LEMMA PathsAreKeys == \A p \in Paths : p \in DotKeys /\ p # <<>> /\ Len(p) \in Nat /\ Len(p) > 0
<1> SUFFICES ASSUME NEW p \in Paths PROVE p \in DotKeys /\ p # <<>> /\ Len(p) \in Nat /\ Len(p) > 0
  OBVIOUS
<1>1. p \in Seq(ToSet(p)) /\ p # <<>>
  BY NestingAssumption
<1>2. ToSet(p) \subseteq Names
  BY DEF Names
<1>3. Len(p) \in Nat /\ p \in [1..Len(p) -> ToSet(p)]
  BY <1>1, LenProperties
<1>4. p \in [1..Len(p) -> Names]
  BY <1>2, <1>3
<1>5. p \in DotKeys
  BY <1>3, <1>4, IsASeq DEF DotKeys
<1>6. Len(p) \in Nat \ {0}
  BY <1>1, EmptySeq
<1> QED  BY <1>1, <1>5, <1>6

LEMMA UptoFacts ==
  ASSUME NEW p \in DotKeys
  PROVE  /\ Len(p) \in Nat /\ (\A i \in 1..Len(p) : p[i] \in Names)
         /\ Upto(p, Len(p)) = p /\ Upto(p, 0) = <<>>
         /\ \A n \in 0..Len(p) : /\ Upto(p, n) \in DotKeys /\ Len(Upto(p, n)) = n
                                 /\ \A i \in 1..n : Upto(p, n)[i] = p[i]
<1>1. p \in Seq(Names) /\ Len(p) \in Nat /\ \A i \in 1..Len(p) : p[i] \in Names
  BY LenProperties, ElementOfSeq DEF DotKeys
<1>2. Upto(p, Len(p)) = p
  BY <1>1, SubSeqFull DEF Upto
<1>3. ASSUME NEW n \in 0..Len(p)
      PROVE  /\ Upto(p, n) \in DotKeys /\ Len(Upto(p, n)) = n
             /\ \A i \in 1..n : Upto(p, n)[i] = p[i]
  <2>1. \A i \in 1..n : p[i] \in Names /\ 1 + i - 1 = i
    BY <1>1
  <2>2. n - 1 + 1 = n /\ n \in Int /\ 1 \in Int /\ (IF 1 <= n THEN n - 1 + 1 ELSE 0) = n
    BY <1>1
  <2> QED  BY <2>1, <2>2, SubSeqProperties DEF DotKeys, Upto
<1>4. Upto(p, 0) = <<>>
  <2>1. Upto(p, 0) \in Seq(Names) /\ Len(Upto(p, 0)) = 0
    BY <1>1, <1>3 DEF DotKeys
  <2> QED  BY <2>1, EmptySeq
<1> QED  BY <1>1, <1>2, <1>3, <1>4

LEMMA SameKey ==
  ASSUME NEW p \in DotKeys, NEW q \in DotKeys, Len(p) = Len(q), \A i \in 1..Len(p) : p[i] = q[i]
  PROVE  p = q
BY SeqEqual DEF DotKeys

LEMMA InMapFacts ==
  ASSUME NEW p \in DotKeys, NEW n \in Names
  PROVE  /\ InMap(p, n) \in DotKeys /\ InMap(p, n) # <<>> /\ Len(InMap(p, n)) = Len(p) + 1
         /\ (\A i \in 1..Len(p) : InMap(p, n)[i] = p[i]) /\ InMap(p, n)[Len(p) + 1] = n
BY AppendProperties DEF DotKeys, InMap

LEMMA InMapSame ==
  ASSUME NEW p \in DotKeys, NEW n \in Names, NEW q \in DotKeys, NEW m \in Names,
         InMap(p, n) = InMap(q, m)
  PROVE  p = q /\ n = m
BY AppendInjective DEF DotKeys, InMap

LEMMA UptoNext ==
  ASSUME NEW p \in DotKeys, NEW i \in 1..Len(p)
  PROVE  /\ i - 1 \in 0..Len(p) /\ Upto(p, i - 1) \in DotKeys /\ p[i] \in Names
         /\ Upto(p, i) = InMap(Upto(p, i - 1), p[i])
<1>1. Len(p) \in Nat /\ i - 1 \in 0..Len(p) /\ i \in 0..Len(p) /\ p[i] \in Names /\ i - 1 + 1 = i
  BY UptoFacts
<1> DEFINE q == Upto(p, i - 1)
<1>2. q \in DotKeys /\ Len(q) = i - 1 /\ \A j \in 1..(i - 1) : q[j] = p[j]
  BY <1>1, UptoFacts
<1>3. Upto(p, i) \in DotKeys /\ Len(Upto(p, i)) = i /\ \A j \in 1..i : Upto(p, i)[j] = p[j]
  BY <1>1, UptoFacts
<1> HIDE DEF q
<1>4. /\ InMap(q, p[i]) \in DotKeys /\ Len(InMap(q, p[i])) = i
      /\ (\A j \in 1..(i - 1) : InMap(q, p[i])[j] = q[j]) /\ InMap(q, p[i])[i] = p[i]
  BY <1>1, <1>2, InMapFacts
<1>5. \A j \in 1..i : j \in 1..(i - 1) \/ j = i
  BY <1>1
<1>6. \A j \in 1..i : InMap(q, p[i])[j] = Upto(p, i)[j]
  BY <1>2, <1>3, <1>4, <1>5
<1>7. Upto(p, i) = InMap(q, p[i])
  BY <1>3, <1>4, <1>6, SameKey
<1> QED  BY <1>1, <1>2, <1>7 DEF q

\* A key is that of an entry in the map at its first parts.
LEMMA LastIn ==
  ASSUME NEW p \in DotKeys, p # <<>>
  PROVE  /\ Front(p) \in DotKeys /\ Last(p) \in Names /\ p = InMap(Front(p), Last(p))
         /\ Front(p) = Upto(p, Len(p) - 1) /\ Len(p) \in 1..Len(p) /\ Len(p) - 1 \in 0..Len(p)
<1>1. Len(p) \in Nat \ {0}
  BY EmptySeq DEF DotKeys
<1>2. Len(p) \in 1..Len(p)
  BY <1>1
<1>3. Upto(p, Len(p)) = p
  BY UptoFacts
<1> QED  BY <1>2, <1>3, UptoNext DEF Front, Last, Upto

LEMMA PrefixUpto ==
  ASSUME NEW p \in DotKeys, NEW q \in DotKeys
  PROVE  IsPrefix(p, q) <=> Len(p) <= Len(q) /\ p = Upto(q, Len(p))
BY UptoFacts DEF IsPrefix, Upto

LEMMA PrefixParts ==
  ASSUME NEW p \in DotKeys, NEW q \in DotKeys
  PROVE  IsPrefix(p, q) <=> Len(p) <= Len(q) /\ \A i \in 1..Len(p) : p[i] = q[i]
<1>1. Len(p) \in Nat /\ Len(q) \in Nat
  BY UptoFacts
<1>2. ASSUME Len(p) <= Len(q)
      PROVE  p = Upto(q, Len(p)) <=> \A i \in 1..Len(p) : p[i] = q[i]
  <2>1. Len(p) \in 0..Len(q)
    BY <1>1, <1>2
  <2>2. Upto(q, Len(p)) \in DotKeys /\ Len(Upto(q, Len(p))) = Len(p)
        /\ \A i \in 1..Len(p) : Upto(q, Len(p))[i] = q[i]
    BY <2>1, UptoFacts
  <2>3. (\A i \in 1..Len(p) : p[i] = q[i]) => p = Upto(q, Len(p))
    BY <2>2, SameKey
  <2>4. p = Upto(q, Len(p)) => \A i \in 1..Len(p) : p[i] = q[i]
    BY <2>2
  <2> QED  BY <2>3, <2>4
<1> QED  BY <1>1, <1>2, PrefixUpto

\* The keys above an entry are those above its map, and its own.
LEMMA PrefixFacts ==
  ASSUME NEW p \in DotKeys
  PROVE  /\ IsPrefix(p, p) /\ IsPrefix(<<>>, p) /\ <<>> \in DotKeys
         /\ \A q \in DotKeys : IsPrefix(p, q) => Len(p) <= Len(q) /\ (Len(p) = Len(q) => p = q)
         /\ \A q, r \in DotKeys : IsPrefix(p, q) /\ IsPrefix(q, r) => IsPrefix(p, r)
<1>1. <<>> \in DotKeys /\ Len(<<>>) = 0
  BY EmptySeq DEF DotKeys
<1>2. Len(p) \in Nat
  BY UptoFacts
<1>3. IsPrefix(p, p)
  BY <1>2, PrefixParts
<1>4. IsPrefix(<<>>, p)
  <2>1. 0 <= Len(p) /\ \A i \in 1..0 : <<>>[i] = p[i]
    BY <1>2
  <2> QED  BY <1>1, <2>1, PrefixParts
<1>5. ASSUME NEW q \in DotKeys, IsPrefix(p, q)
      PROVE  Len(p) <= Len(q) /\ (Len(p) = Len(q) => p = q)
  BY <1>5, PrefixParts, SameKey
<1>6. ASSUME NEW q \in DotKeys, NEW r \in DotKeys, IsPrefix(p, q), IsPrefix(q, r)
      PROVE  IsPrefix(p, r)
  <2>1. Len(q) \in Nat /\ Len(r) \in Nat
    BY UptoFacts
  <2>2. Len(p) <= Len(q) /\ \A i \in 1..Len(p) : p[i] = q[i]
    BY <1>6, PrefixParts
  <2>3. Len(q) <= Len(r) /\ \A i \in 1..Len(q) : q[i] = r[i]
    BY <1>6, PrefixParts
  <2>4. Len(p) <= Len(r) /\ \A i \in 1..Len(p) : p[i] = r[i]
    BY <1>2, <2>1, <2>2, <2>3
  <2> QED  BY <2>4, PrefixParts
<1> QED  BY <1>1, <1>3, <1>4, <1>5, <1>6

LEMMA PrefixInMap ==
  ASSUME NEW p \in DotKeys, NEW q \in DotKeys, NEW n \in Names
  PROVE  IsPrefix(p, InMap(q, n)) <=> IsPrefix(p, q) \/ p = InMap(q, n)
<1> DEFINE r == InMap(q, n)
<1>1. Len(p) \in Nat /\ Len(q) \in Nat
  BY UptoFacts
<1>2. r \in DotKeys /\ Len(r) = Len(q) + 1 /\ \A i \in 1..Len(q) : r[i] = q[i]
  BY InMapFacts
<1> HIDE DEF r
<1>3. IsPrefix(q, r)
  BY <1>1, <1>2, PrefixParts
<1>4. IsPrefix(p, q) => IsPrefix(p, r)
  BY <1>2, <1>3, PrefixFacts
<1>5. p = r => IsPrefix(p, r)
  BY <1>2, PrefixFacts
<1>6. ASSUME IsPrefix(p, r), p # r PROVE IsPrefix(p, q)
  <2>1. Len(p) <= Len(r) /\ Len(p) # Len(r)
    BY <1>2, <1>6, PrefixFacts
  <2>2. \A i \in 1..Len(p) : p[i] = r[i]
    BY <1>2, <1>6, PrefixParts
  <2>3. Len(p) <= Len(q) /\ \A i \in 1..Len(p) : p[i] = q[i]
    BY <1>1, <1>2, <2>1, <2>2
  <2> QED  BY <2>3, PrefixParts
<1> QED  BY <1>4, <1>5, <1>6 DEF r

\* A key below another is in the map there, or below an entry of it.
LEMMA BelowInMap ==
  ASSUME NEW p \in DotKeys, NEW q \in DotKeys, IsPrefix(p, q), p # q
  PROVE  \E n \in Names : IsPrefix(InMap(p, n), q)
<1>1. Len(p) \in Nat /\ Len(q) \in Nat
  BY UptoFacts
<1>2. Len(p) <= Len(q) /\ Len(p) # Len(q) /\ p = Upto(q, Len(p))
  BY PrefixFacts, PrefixUpto
<1> DEFINE i == Len(p) + 1
<1>3. i \in 1..Len(q) /\ i - 1 = Len(p) /\ i \in 0..Len(q)
  BY <1>1, <1>2
<1> HIDE DEF i
<1>4. q[i] \in Names /\ Upto(q, i) = InMap(p, q[i])
  BY <1>2, <1>3, UptoNext
<1>5. Upto(q, i) \in DotKeys /\ Len(Upto(q, i)) = i
  BY <1>3, UptoFacts
<1>6. IsPrefix(Upto(q, i), q)
  BY <1>3, <1>5, PrefixUpto
<1> QED  BY <1>4, <1>6

LEMMA UptoAbove ==
  ASSUME NEW p \in DotKeys, NEW i \in 0..Len(p)
  PROVE  IsPrefix(Upto(p, i), p) /\ (i # Len(p) => Below(p, Upto(p, i)))
<1>1. Upto(p, i) \in DotKeys /\ Len(Upto(p, i)) = i /\ Len(p) \in Nat
  BY UptoFacts
<1>2. IsPrefix(Upto(p, i), p)
  BY <1>1, PrefixUpto
<1> QED  BY <1>1, <1>2 DEF Below

\* Maps and entries are told apart by what they are made of.
LEMMA Entries ==
  /\ \A p, q : Made(p) = Made(q) => p = q
  /\ \A p, s, q : Made(p) # RawMap(s, q)
  /\ \A s, p, t, q : RawMap(s, p) = RawMap(t, q) => s = t /\ p = q
  /\ \A i : IsMap(Map(i)) /\ Map(i).map = i
  /\ \A i, j : Map(i) = Map(j) => i = j
  /\ \A s, p : ~IsMap(Leaf(s, p)) /\ ~IsMap(Value(s, p)) /\ KeyOf(Leaf(s, p)) = p /\ KeyOf(Value(s, p)) = p
<1>1. ASSUME NEW p, NEW q, Made(p) = Made(q) PROVE p = q
  <2>1. Made(p).made = Made(q).made
    BY <1>1
  <2> QED  BY <2>1 DEF Made
<1>2. ASSUME NEW p, NEW s, NEW q PROVE Made(p) # RawMap(s, q)
  <2>1. "raw" \notin DOMAIN Made(p) /\ "raw" \in DOMAIN RawMap(s, q)
    BY DEF Made, RawMap
  <2> QED  BY <2>1
<1>3. ASSUME NEW s, NEW p, NEW t, NEW q, RawMap(s, p) = RawMap(t, q) PROVE s = t /\ p = q
  <2>1. RawMap(s, p).source = RawMap(t, q).source /\ RawMap(s, p).raw = RawMap(t, q).raw
    BY <1>3
  <2> QED  BY <2>1 DEF RawMap
<1>4. \A i : IsMap(Map(i)) /\ Map(i).map = i
  BY DEF IsMap, Map
<1>5. \A i, j : Map(i) = Map(j) => i = j
  BY <1>4
<1>6. ASSUME NEW s, NEW p
      PROVE  ~IsMap(Leaf(s, p)) /\ ~IsMap(Value(s, p)) /\ KeyOf(Leaf(s, p)) = p /\ KeyOf(Value(s, p)) = p
  BY DEF IsMap, Leaf, Value, KeyOf
<1> QED  BY <1>1, <1>2, <1>3, <1>4, <1>5, <1>6

\* The map j is an entry of the map i; the names of a key lead to a map.
Leads(h, i, n, j) == n \in DOMAIN h[i] /\ h[i][n] = Map(j) /\ j \in DOMAIN h

Chain(h, c, p) == c[0] = Root /\ \A i \in 1..Len(p) : Leads(h, c[i - 1], p[i], c[i])

MapAt(h, p, id) == Root \in DOMAIN h /\ \E c : Chain(h, c, p) /\ c[Len(p)] = id

LEMMA MapAtRoot == \A h, id : MapAt(h, <<>>, id) <=> id = Root /\ Root \in DOMAIN h
<1> SUFFICES ASSUME NEW h, NEW id PROVE MapAt(h, <<>>, id) <=> id = Root /\ Root \in DOMAIN h
  OBVIOUS
<1>1. Len(<<>>) = 0
  BY EmptySeq
<1>2. MapAt(h, <<>>, id) => id = Root /\ Root \in DOMAIN h
  BY <1>1 DEF MapAt, Chain
<1>3. ASSUME Root \in DOMAIN h PROVE MapAt(h, <<>>, Root)
  <2> DEFINE c == [i \in {0} |-> Root]
  <2>1. c[0] = Root
    OBVIOUS
  <2> HIDE DEF c
  <2>2. Chain(h, c, <<>>)
    BY <1>1, <2>1 DEF Chain
  <2> QED  BY <1>1, <1>3, <2>1, <2>2 DEF MapAt
<1> QED  BY <1>2, <1>3

LEMMA MapAtNext ==
  ASSUME NEW h, NEW p \in DotKeys, NEW n \in Names, NEW q, q = InMap(p, n), NEW j
  PROVE  MapAt(h, q, j) <=> \E i : MapAt(h, p, i) /\ Leads(h, i, n, j)
<1>1. /\ q \in DotKeys /\ Len(q) = Len(p) + 1 /\ (\A i \in 1..Len(p) : q[i] = p[i])
      /\ q[Len(p) + 1] = n /\ Len(p) \in Nat
  BY InMapFacts, UptoFacts
<1>2. ASSUME MapAt(h, q, j) PROVE \E i : MapAt(h, p, i) /\ Leads(h, i, n, j)
  <2>1. PICK c : Chain(h, c, q) /\ c[Len(q)] = j
    BY <1>2 DEF MapAt
  <2>2. \A i \in 1..Len(p) : i \in 1..Len(q)
    BY <1>1
  <2>3. Chain(h, c, p)
    BY <1>1, <2>1, <2>2 DEF Chain
  <2>4. Len(q) \in 1..Len(q) /\ Len(q) - 1 = Len(p)
    BY <1>1
  <2>5. Leads(h, c[Len(p)], n, j)
    BY <1>1, <2>1, <2>4 DEF Chain
  <2> QED  BY <1>2, <2>3, <2>5 DEF MapAt
<1>3. ASSUME NEW i, MapAt(h, p, i), Leads(h, i, n, j) PROVE MapAt(h, q, j)
  <2>1. PICK c : Chain(h, c, p) /\ c[Len(p)] = i
    BY <1>3 DEF MapAt
  <2> DEFINE d == [m \in 0..Len(q) |-> IF m = Len(q) THEN j ELSE c[m]]
  <2>2. d[Len(q)] = j /\ \A m \in 0..Len(p) : d[m] = c[m]
    BY <1>1
  <2> HIDE DEF d
  <2>3. ASSUME NEW m \in 1..Len(q) PROVE Leads(h, d[m - 1], q[m], d[m])
    <3>1. CASE m = Len(q)
      <4>1. m - 1 \in 0..Len(p) /\ m - 1 = Len(p) /\ m = Len(p) + 1
        BY <1>1, <3>1
      <4> QED  BY <1>1, <1>3, <2>1, <2>2, <3>1, <4>1
    <3>2. CASE m # Len(q)
      <4>1. m \in 1..Len(p) /\ m \in 0..Len(p) /\ m - 1 \in 0..Len(p)
        BY <1>1, <3>2
      <4> QED  BY <1>1, <2>1, <2>2, <4>1 DEF Chain
    <3> QED  BY <3>1, <3>2
  <2>4. 0 \in 0..Len(p)
    BY <1>1
  <2>5. Chain(h, d, q)
    BY <2>1, <2>2, <2>3, <2>4 DEF Chain
  <2> QED  BY <1>3, <2>2, <2>5 DEF MapAt
<1> QED  BY <1>2, <1>3

\* Induction over the length of keys.
LEMMA KeyInduction ==
  ASSUME NEW Q, Q \subseteq DotKeys, <<>> \in Q,
         \A p \in Q, n \in Names : InMap(p, n) \in Q
  PROVE  Q = DotKeys
<1> DEFINE T == {m \in Nat : \A p \in DotKeys : Len(p) = m => p \in Q}
<1>1. 0 \in T
  BY EmptySeq DEF DotKeys
<1>2. ASSUME NEW m \in T PROVE m + 1 \in T
  <2>1. m \in Nat /\ \A p \in DotKeys : Len(p) = m => p \in Q
    OBVIOUS
  <2>2. ASSUME NEW p \in DotKeys, Len(p) = m + 1 PROVE p \in Q
    <3>1. Len(p) # 0 /\ Len(<<>>) = 0 /\ Len(p) \in Nat /\ Len(p) - 1 = m /\ Len(p) - 1 \in 0..Len(p)
      BY <2>1, <2>2, EmptySeq
    <3>2. p # <<>>
      BY <3>1
    <3>3. /\ Front(p) \in DotKeys /\ Last(p) \in Names
          /\ p = InMap(Front(p), Last(p)) /\ Front(p) = Upto(p, Len(p) - 1)
      BY <3>2, LastIn
    <3>4. Len(Front(p)) = m
      BY <3>1, <3>3, UptoFacts
    <3>5. Front(p) \in Q
      BY <2>1, <3>3, <3>4
    <3> HIDE DEF T
    <3> QED  BY <3>3, <3>5
  <2> QED  BY <2>1, <2>2
<1>3. T = Nat
  <2>1. T \subseteq Nat
    OBVIOUS
  <2> HIDE DEF T
  <2> QED  BY <1>1, <1>2, <2>1, Induction
<1>4. \A p \in DotKeys : Len(p) \in T
  BY <1>3, UptoFacts
<1> QED  BY <1>4

\* One map is at a key, and one at each key above it.
LEMMA MapAtOne ==
  ASSUME NEW h, NEW p \in DotKeys, NEW i, MapAt(h, p, i), NEW j, MapAt(h, p, j)
  PROVE  i = j
<1> DEFINE Q == {q \in DotKeys : \A k, m : MapAt(h, q, k) /\ MapAt(h, q, m) => k = m}
<1>1. <<>> \in Q
  BY MapAtRoot, PrefixFacts
<1>2. ASSUME NEW q \in Q, NEW n \in Names PROVE InMap(q, n) \in Q
  <2>1. q \in DotKeys /\ InMap(q, n) \in DotKeys
    BY InMapFacts
  <2>2. ASSUME NEW k, NEW m, MapAt(h, InMap(q, n), k), MapAt(h, InMap(q, n), m) PROVE k = m
    <3>1. PICK k1 : MapAt(h, q, k1) /\ Leads(h, k1, n, k)
      BY <2>1, <2>2, MapAtNext
    <3>2. PICK m1 : MapAt(h, q, m1) /\ Leads(h, m1, n, m)
      BY <2>1, <2>2, MapAtNext
    <3>3. k1 = m1
      BY <3>1, <3>2
    <3> QED  BY <3>1, <3>2, <3>3, Entries DEF Leads
  <2> QED  BY <2>1, <2>2
<1>3. Q = DotKeys
  <2>1. Q \subseteq DotKeys
    OBVIOUS
  <2> HIDE DEF Q
  <2> QED  BY <1>1, <1>2, <2>1, KeyInduction
<1> QED  BY <1>3

LEMMA MapAtAbove ==
  ASSUME NEW h, NEW p \in DotKeys, NEW q \in DotKeys, IsPrefix(p, q), NEW j, MapAt(h, q, j)
  PROVE  \E i : MapAt(h, p, i)
<1> DEFINE Q == {r \in DotKeys : IsPrefix(p, r) => \A k : MapAt(h, r, k) => \E i : MapAt(h, p, i)}
<1>1. <<>> \in Q
  <2>1. <<>> \in DotKeys /\ Len(<<>>) = 0 /\ Len(p) \in Nat
    BY PrefixFacts, EmptySeq, UptoFacts
  <2>2. IsPrefix(p, <<>>) => p = <<>>
    BY <2>1, PrefixFacts
  <2> QED  BY <2>1, <2>2
<1>2. ASSUME NEW r \in Q, NEW n \in Names PROVE InMap(r, n) \in Q
  <2>1. r \in DotKeys /\ InMap(r, n) \in DotKeys
    BY InMapFacts
  <2>2. ASSUME IsPrefix(p, InMap(r, n)), NEW k, MapAt(h, InMap(r, n), k) PROVE \E i : MapAt(h, p, i)
    <3>1. CASE p = InMap(r, n)
      BY <2>2, <3>1
    <3>2. CASE IsPrefix(p, r)
      <4>1. PICK k1 : MapAt(h, r, k1)
        BY <2>1, <2>2, MapAtNext
      <4> QED  BY <3>2, <4>1
    <3> QED  BY <2>1, <2>2, <3>1, <3>2, PrefixInMap
  <2> QED  BY <2>1, <2>2
<1>3. Q = DotKeys
  <2>1. Q \subseteq DotKeys
    OBVIOUS
  <2> HIDE DEF Q
  <2> QED  BY <1>1, <1>2, <2>1, KeyInduction
<1> QED  BY <1>3

LEMMA MapAtIn ==
  ASSUME NEW h, NEW p \in DotKeys, NEW i, MapAt(h, p, i)
  PROVE  i \in DOMAIN h
<1>1. CASE p = <<>>
  BY <1>1, MapAtRoot
<1>2. CASE p # <<>>
  <2>1. Front(p) \in DotKeys /\ Last(p) \in Names /\ p = InMap(Front(p), Last(p))
    BY <1>2, LastIn
  <2> QED  BY <2>1, MapAtNext DEF Leads
<1> QED  BY <1>1, <1>2

\* Where the entries have not changed, the same maps are at the same keys.
LEMMA MapsKept ==
  ASSUME NEW h, NEW k, NEW X, X \subseteq DotKeys, DOMAIN h \subseteq DOMAIN k,
         \A p \in DotKeys : \A i : MapAt(h, p, i) =>
            \A n \in DOMAIN h[i] \cap Names : InMap(p, n) \notin X => n \in DOMAIN k[i] /\ k[i][n] = h[i][n]
  PROVE  \A p \in DotKeys : \A i : MapAt(h, p, i) /\ (\A x \in X : ~IsPrefix(x, p)) => MapAt(k, p, i)
<1> DEFINE Q == {p \in DotKeys : \A i : MapAt(h, p, i) /\ (\A x \in X : ~IsPrefix(x, p)) => MapAt(k, p, i)}
<1>1. <<>> \in Q
  <2>1. <<>> \in DotKeys
    BY EmptySeq DEF DotKeys
  <2> QED  BY <2>1, MapAtRoot
<1>2. ASSUME NEW p \in Q, NEW n \in Names PROVE InMap(p, n) \in Q
  <2>1. p \in DotKeys /\ InMap(p, n) \in DotKeys
    BY InMapFacts
  <2>2. ASSUME NEW j, MapAt(h, InMap(p, n), j), \A x \in X : ~IsPrefix(x, InMap(p, n))
        PROVE  MapAt(k, InMap(p, n), j)
    <3>1. PICK i : MapAt(h, p, i) /\ Leads(h, i, n, j)
      BY <2>1, <2>2, MapAtNext
    <3>2. \A x \in X : ~IsPrefix(x, p) /\ x # InMap(p, n)
      BY <2>1, <2>2, PrefixInMap
    <3>3. MapAt(k, p, i)
      BY <3>1, <3>2
    <3>4. InMap(p, n) \notin X /\ n \in DOMAIN h[i] \cap Names
      BY <3>1, <3>2 DEF Leads
    <3>5. n \in DOMAIN k[i] /\ k[i][n] = h[i][n]
      BY <2>1, <3>1, <3>4
    <3>6. Leads(k, i, n, j)
      BY <3>1, <3>5 DEF Leads
    <3> QED  BY <2>1, <3>3, <3>6, MapAtNext
  <2> QED  BY <2>1, <2>2
<1>3. Q = DotKeys
  <2>1. Q \subseteq DotKeys
    OBVIOUS
  <2> HIDE DEF Q
  <2> QED  BY <1>1, <1>2, <2>1, KeyInduction
<1> QED  BY <1>3

\* The key of a map, and the maps that may be entries at a key.
Loc(id) == IF "made" \in DOMAIN id THEN id.made ELSE id.raw

KeysOf(g) == DOMAIN g[1] \cup DOMAIN g[2]

GivenOK(t, g) ==
    /\ t \in {"index", "export", "deep"} /\ (t # "deep" => DOMAIN g[2] = {})
    /\ \A s \in Sources : DOMAIN g[s] \subseteq Paths /\ \A p \in DOMAIN g[s] : g[s][p] \in Raws(p)

Attached(t, g, p, id) ==
    \/ id = Made(p) /\ \E q \in KeysOf(g) : Below(q, p)
    \/ t # "deep" /\ p \in DOMAIN g[1] /\ g[1][p] = "map" /\ id = RawMap(1, p)

Fits(h, t, g, p, e) ==
    \/ \E id \in DOMAIN h : e = Map(id) /\ Attached(t, g, p, id)
    \/ ~IsMap(e) /\ KeyOf(e) = p

IsId(g, id) ==
    \/ id = Root
    \/ \E p \in DotKeys : id = Made(p) /\ \E q \in KeysOf(g) : Below(q, p)
    \/ \E s \in Sources, p \in MapPaths : id = RawMap(s, p)

\* The raw maps that may be reached, and the keys of leaves.
Live(g, id) ==
    \A s \in Sources, p \in MapPaths :
        id = RawMap(s, p) => s = 1 /\ p \in DOMAIN g[1] /\ g[1][p] = "map"

LeavesOf(g) ==
    {p \in DOMAIN g[1] : g[1][p] = "leaf"}
        \cup {Append(p, n) : p \in {q \in DOMAIN g[1] : g[1][q] = "map"}, n \in MapNames}

RawWritten(t, g, s, p) == t # "deep" /\ \E q \in DOMAIN g[s] : Below(q, p)

\* Every entry is one for its key, and what the raw maps hold is known.
Sound(h, t, g) ==
    /\ Root \in DOMAIN h /\ \A s \in Sources, p \in MapPaths : RawMap(s, p) \in DOMAIN h
    /\ \A id \in DOMAIN h : IsId(g, id)
    /\ \A id \in DOMAIN h : \A n \in DOMAIN h[id] : n \in Names /\ Fits(h, t, g, InMap(Loc(id), n), h[id][n])
    /\ \A s \in Sources, p \in MapPaths : h[RawMap(s, p)] # RawContent(s, p) => RawWritten(t, g, s, p)
    /\ t = "export" => \A id \in DOMAIN h : Live(g, id) =>
          \A n \in DOMAIN h[id] : IsMap(h[id][n]) \/ InMap(Loc(id), n) \in LeavesOf(g)

LEMMA LocFacts == /\ \A p : Loc(Made(p)) = p
                  /\ \A s, p : Loc(RawMap(s, p)) = p
                  /\ Loc(Root) = <<>>
BY DEF Loc, Made, RawMap, Root

\* The map at a key is one that was made there, or the raw map given for it.
LEMMA MapAtLoc ==
  ASSUME NEW h, NEW t, NEW g, Sound(h, t, g), NEW p \in DotKeys, NEW id, MapAt(h, p, id)
  PROVE  /\ id \in DOMAIN h /\ Loc(id) = p /\ Live(g, id)
         /\ (p = <<>> /\ id = Root) \/ (p # <<>> /\ Attached(t, g, p, id))
<1>1. id \in DOMAIN h
  BY MapAtIn
<1>2. CASE p = <<>>
  <2>1. id = Root
    BY <1>2, MapAtRoot
  <2>2. Loc(id) = p /\ Live(g, id)
    BY <1>2, <2>1, LocFacts, Entries DEF Live, Root
  <2> QED  BY <1>1, <1>2, <2>1, <2>2
<1>3. CASE p # <<>>
  <2> DEFINE Q == {q \in DotKeys : \A j : MapAt(h, q, j) =>
                      Loc(j) = q /\ (q = <<>> \/ Attached(t, g, q, j))}
  <2>1. <<>> \in Q
    BY MapAtRoot, LocFacts, EmptySeq DEF DotKeys
  <2>2. ASSUME NEW q \in Q, NEW n \in Names PROVE InMap(q, n) \in Q
    <3>1. q \in DotKeys /\ InMap(q, n) \in DotKeys
      BY InMapFacts
    <3>2. ASSUME NEW j, MapAt(h, InMap(q, n), j)
          PROVE  Loc(j) = InMap(q, n) /\ Attached(t, g, InMap(q, n), j)
      <4>1. PICK i : MapAt(h, q, i) /\ Leads(h, i, n, j)
        BY <3>1, <3>2, MapAtNext
      <4>2. Loc(i) = q /\ i \in DOMAIN h
        BY <3>1, <4>1, MapAtIn
      <4>3. Fits(h, t, g, InMap(q, n), Map(j))
        BY <4>1, <4>2 DEF Sound, Leads
      <4>4. Attached(t, g, InMap(q, n), j)
        BY <4>3, Entries DEF Fits
      <4>5. Loc(j) = InMap(q, n)
        BY <4>4, LocFacts DEF Attached
      <4> QED  BY <4>4, <4>5
    <3> QED  BY <3>1, <3>2
  <2>3. Q = DotKeys
    <3>1. Q \subseteq DotKeys
      OBVIOUS
    <3> HIDE DEF Q
    <3> QED  BY <2>1, <2>2, <3>1, KeyInduction
  <2>4. Loc(id) = p /\ Attached(t, g, p, id)
    BY <1>3, <2>3
  <2>5. Live(g, id)
    BY <2>4, Entries DEF Live, Attached
  <2> QED  BY <1>1, <1>3, <2>4, <2>5
<1> QED  BY <1>2, <1>3

\* What is at a key that is not above q has been kept.
Keeps(h, k, q) ==
    \A p \in DotKeys : \A id : MapAt(h, p, id) =>
        /\ MapAt(k, p, id)
        /\ \A n \in DOMAIN h[id] \cap Names :
              ~Below(q, InMap(p, n)) => n \in DOMAIN k[id] /\ k[id][n] = h[id][n]

Makes(h, at, q, i, k, id) == WithMap(h, at, q, i) = [heap |-> k, at |-> id]

\* An empty map, made at an entry of "at" that was no map.
Staged(h, k, at, name, id) ==
    /\ DOMAIN k = DOMAIN h \cup {id} /\ DOMAIN k[id] = {}
    /\ DOMAIN k[at] = DOMAIN h[at] \cup {name} /\ k[at][name] = Map(id)
    /\ \A n \in DOMAIN h[at] : n # name => k[at][n] = h[at][n]
    /\ \A x \in DOMAIN h : x # at /\ x # id => k[x] = h[x]

LEMMA StageHeap ==
  ASSUME NEW h, NEW at \in DOMAIN h, NEW q, NEW i, NEW k, NEW id, id = Made(Upto(q, i)), at # id,
         Makes(h, at, q, i, k, id)
  PROVE  Staged(h, k, at, q[i], id)
<1> DEFINE w == With(h, at, q[i], Map(id))
<1>1. k = Store(w, id, <<>>)
  <2>1. k = WithMap(h, at, q, i).heap
    BY DEF Makes
  <2> QED  BY <2>1 DEF WithMap, Upto
<1>2. w = Store(h, at, Store(h[at], q[i], Map(id)))
  BY DEF With
<1> HIDE DEF w
<1>3. /\ DOMAIN w = DOMAIN h /\ w[at] = Store(h[at], q[i], Map(id))
      /\ \A x \in DOMAIN h : x # at => w[x] = h[x]
  BY <1>2 DEF Store
<1>4. DOMAIN k = DOMAIN h \cup {id} /\ k[id] = <<>> /\ \A x \in DOMAIN h : x # id => k[x] = w[x]
  BY <1>1, <1>3 DEF Store
<1>5. DOMAIN <<>> = {}
  OBVIOUS
<1>6. k[at] = Store(h[at], q[i], Map(id))
  BY <1>3, <1>4
<1>7. /\ DOMAIN k[at] = DOMAIN h[at] \cup {q[i]} /\ k[at][q[i]] = Map(id)
      /\ \A n \in DOMAIN h[at] : n # q[i] => k[at][n] = h[at][n]
  BY <1>6 DEF Store
<1> QED  BY <1>3, <1>4, <1>5, <1>7 DEF Staged

LEMMA StageKeeps ==
  ASSUME NEW h, NEW t, NEW g, Sound(h, t, g), NEW q \in DotKeys, NEW i \in 1..(Len(q) - 1),
         NEW at, MapAt(h, Upto(q, i - 1), at), NEW k, NEW id,
         ~(q[i] \in DOMAIN h[at] /\ IsMap(h[at][q[i]])),
         Makes(h, at, q, i, k, id)
  PROVE  /\ id = Made(Upto(q, i)) /\ at \in DOMAIN h /\ at # id /\ Loc(at) = Upto(q, i - 1)
         /\ Keeps(h, k, q) /\ MapAt(k, Upto(q, i), id)
<1> DEFINE p == Upto(q, i - 1)
           r == Upto(q, i)
<1>1. Len(q) \in Nat /\ i \in 1..Len(q) /\ i \in 0..Len(q) /\ i # Len(q) /\ i \in Nat
  BY UptoFacts
<1>2. p \in DotKeys /\ q[i] \in Names /\ r = InMap(p, q[i]) /\ r \in DotKeys
  BY <1>1, UptoNext, UptoFacts
<1>3. id = Made(r)
  <2>1. id = WithMap(h, at, q, i).at
    BY DEF Makes
  <2> QED  BY <2>1 DEF WithMap, Upto
<1>4. Loc(id) = r
  BY <1>3, LocFacts
<1>5. at \in DOMAIN h /\ Loc(at) = p
  BY <1>2, MapAtLoc
<1>6. p # r
  <2>1. Len(r) = Len(p) + 1 /\ Len(p) \in Nat
    BY <1>2, InMapFacts, UptoFacts
  <2> QED  BY <2>1
<1>7. at # id
  BY <1>4, <1>5, <1>6
<1>8. /\ DOMAIN k = DOMAIN h \cup {id} /\ DOMAIN k[id] = {}
      /\ DOMAIN k[at] = DOMAIN h[at] \cup {q[i]} /\ k[at][q[i]] = Map(id)
      /\ \A n \in DOMAIN h[at] : n # q[i] => k[at][n] = h[at][n]
      /\ \A x \in DOMAIN h : x # at /\ x # id => k[x] = h[x]
  <2>1. Staged(h, k, at, q[i], id)
    BY <1>3, <1>5, <1>7, StageHeap
  <2> QED  BY <2>1 DEF Staged
<1>9. Below(q, r)
  BY <1>1, UptoAbove
<1>10. MapAt(h, p, at)
  OBVIOUS
<1>11. ~\E j : MapAt(h, r, j)
  <2>1. ASSUME NEW j, MapAt(h, r, j) PROVE FALSE
    <3>1. PICK m : MapAt(h, p, m) /\ Leads(h, m, q[i], j)
      BY <1>2, <2>1, MapAtNext
    <3>2. m = at
      BY <1>2, <1>10, <3>1, MapAtOne
    <3> QED  BY <3>1, <3>2, Entries DEF Leads
  <2> QED  BY <2>1
<1> HIDE DEF p, r
<1>12. ASSUME NEW s \in DotKeys, NEW j, MapAt(h, s, j), NEW n \in DOMAIN h[j] \cap Names, InMap(s, n) # r
       PROVE  n \in DOMAIN k[j] /\ k[j][n] = h[j][n]
  <2>1. j \in DOMAIN h /\ Loc(j) = s
    BY <1>12, MapAtLoc
  <2>2. j # id
    BY <1>4, <1>11, <1>12, <2>1
  <2>3. CASE j = at
    BY <1>2, <1>5, <1>8, <1>12, <2>1, <2>3
  <2>4. CASE j # at
    BY <1>8, <1>12, <2>1, <2>2, <2>4
  <2> QED  BY <2>3, <2>4
<1>13. ASSUME NEW s \in DotKeys, NEW j, MapAt(h, s, j) PROVE MapAt(k, s, j)
  <2>1. ~IsPrefix(r, s)
    BY <1>2, <1>11, <1>13, MapAtAbove
  <2> DEFINE X == {r}
  <2>2. X \subseteq DotKeys /\ DOMAIN h \subseteq DOMAIN k /\ \A x \in X : ~IsPrefix(x, s)
    BY <1>2, <1>8, <2>1
  <2>3. \A u \in DotKeys : \A m : MapAt(h, u, m) =>
           \A n \in DOMAIN h[m] \cap Names : InMap(u, n) \notin X => n \in DOMAIN k[m] /\ k[m][n] = h[m][n]
    BY <1>12
  <2> HIDE DEF X
  <2> QED  BY <1>13, <2>2, <2>3, MapsKept
<1>14. Keeps(h, k, q)
  BY <1>9, <1>12, <1>13 DEF Keeps
<1>15. MapAt(k, r, id)
  <2>1. MapAt(k, p, at) /\ Leads(k, at, q[i], id)
    BY <1>2, <1>8, <1>10, <1>13 DEF Leads
  <2> QED  BY <1>2, <2>1, MapAtNext
<1> QED  BY <1>3, <1>5, <1>7, <1>14, <1>15 DEF p, r

LEMMA FitsMore ==
  ASSUME NEW h, NEW k, NEW t, NEW g, NEW p, NEW e, Fits(h, t, g, p, e), DOMAIN h \subseteq DOMAIN k
  PROVE  Fits(k, t, g, p, e)
BY DEF Fits

LEMMA StageSound ==
  ASSUME NEW h, NEW t, NEW g, GivenOK(t, g), Sound(h, t, g), NEW q \in DotKeys, q \in KeysOf(g),
         NEW i \in 1..(Len(q) - 1), NEW at, MapAt(h, Upto(q, i - 1), at), NEW k, NEW id,
         ~(q[i] \in DOMAIN h[at] /\ IsMap(h[at][q[i]])),
         Makes(h, at, q, i, k, id)
  PROVE  Sound(k, t, g)
<1>1. /\ id = Made(Upto(q, i)) /\ at \in DOMAIN h /\ at # id /\ Loc(at) = Upto(q, i - 1)
  BY StageKeeps
<1>2. /\ DOMAIN k = DOMAIN h \cup {id} /\ DOMAIN k[id] = {}
      /\ DOMAIN k[at] = DOMAIN h[at] \cup {q[i]} /\ k[at][q[i]] = Map(id)
      /\ \A n \in DOMAIN h[at] : n # q[i] => k[at][n] = h[at][n]
      /\ \A x \in DOMAIN h : x # at /\ x # id => k[x] = h[x]
  <2>1. Staged(h, k, at, q[i], id)
    BY <1>1, StageHeap
  <2> QED  BY <2>1 DEF Staged
<1>3. /\ Len(q) \in Nat /\ i \in 1..Len(q) /\ i \in 0..Len(q) /\ i # Len(q)
      /\ i - 1 \in 0..Len(q) /\ i - 1 # Len(q)
  BY UptoFacts
<1>4. /\ Upto(q, i - 1) \in DotKeys /\ Upto(q, i) \in DotKeys /\ q[i] \in Names
      /\ Upto(q, i) = InMap(Upto(q, i - 1), q[i])
  BY <1>3, UptoNext, UptoFacts
<1>5. Below(q, Upto(q, i)) /\ Below(q, Upto(q, i - 1))
  BY <1>3, UptoAbove
<1>6. Attached(t, g, Upto(q, i), id) /\ IsId(g, id)
  BY <1>1, <1>4, <1>5 DEF Attached, IsId
<1>7. \A x \in DOMAIN k : \A n \in DOMAIN k[x] :
         (x = at /\ n = q[i]) \/ (x \in DOMAIN h /\ n \in DOMAIN h[x] /\ k[x][n] = h[x][n])
  BY <1>2
<1>8. ASSUME NEW x \in DOMAIN k, NEW n \in DOMAIN k[x]
      PROVE  n \in Names /\ Fits(k, t, g, InMap(Loc(x), n), k[x][n])
  <2>1. CASE x = at /\ n = q[i]
    <3>1. Fits(k, t, g, Upto(q, i), Map(id))
      BY <1>2, <1>6 DEF Fits
    <3> QED  BY <1>1, <1>2, <1>4, <2>1, <3>1
  <2>2. CASE x \in DOMAIN h /\ n \in DOMAIN h[x] /\ k[x][n] = h[x][n]
    <3>1. n \in Names /\ Fits(h, t, g, InMap(Loc(x), n), h[x][n])
      BY <2>2 DEF Sound
    <3> QED  BY <1>2, <2>2, <3>1, FitsMore
  <2> QED  BY <1>7, <2>1, <2>2
<1>9. ASSUME NEW s \in Sources, NEW p \in MapPaths, k[RawMap(s, p)] # RawContent(s, p)
      PROVE  RawWritten(t, g, s, p)
  <2>1. RawMap(s, p) \in DOMAIN h /\ (h[RawMap(s, p)] # RawContent(s, p) => RawWritten(t, g, s, p))
    BY DEF Sound
  <2>2. RawMap(s, p) # id
    BY <1>1, Entries
  <2>3. CASE RawMap(s, p) # at
    BY <1>2, <1>9, <2>1, <2>2, <2>3
  <2>4. CASE RawMap(s, p) = at
    <3>1. Live(g, at)
      BY <1>4, MapAtLoc
    <3>2. s = 1 /\ p = Upto(q, i - 1)
      BY <1>1, <2>4, <3>1, LocFacts DEF Live
    <3>3. (Upto(q, i - 1) = <<>> /\ at = Root) \/ Attached(t, g, Upto(q, i - 1), at)
      BY <1>4, MapAtLoc
    <3>4. t # "deep"
      BY <2>4, <3>3, Entries DEF Attached, Root
    <3>5. q \in DOMAIN g[1]
      BY <3>4 DEF GivenOK, KeysOf
    <3> QED  BY <1>5, <3>2, <3>4, <3>5 DEF RawWritten
  <2> QED  BY <2>3, <2>4
<1>10. ASSUME t = "export", NEW x \in DOMAIN k, Live(g, x), NEW n \in DOMAIN k[x]
       PROVE  IsMap(k[x][n]) \/ InMap(Loc(x), n) \in LeavesOf(g)
  <2>1. CASE x = at /\ n = q[i]
    BY <1>2, <2>1, Entries
  <2>2. CASE x \in DOMAIN h /\ n \in DOMAIN h[x] /\ k[x][n] = h[x][n]
    BY <1>10, <2>2 DEF Sound
  <2> QED  BY <1>7, <2>1, <2>2
<1>11. /\ Root \in DOMAIN k /\ \A s \in Sources, p \in MapPaths : RawMap(s, p) \in DOMAIN k
       /\ \A x \in DOMAIN k : IsId(g, x)
  BY <1>2, <1>6 DEF Sound
<1> QED  BY <1>8, <1>9, <1>10, <1>11 DEF Sound

DescentStep(p, passing, d, i) ==
    CASE p[i] \in DOMAIN d.heap[d.at] /\ IsMap(d.heap[d.at][p[i]]) ->
            [heap |-> d.heap, at |-> d.heap[d.at][p[i]].map]
      [] p[i] \in DOMAIN d.heap[d.at] /\ ~IsMap(d.heap[d.at][p[i]]) /\ passing -> d
      [] OTHER -> WithMap(d.heap, d.at, p, i)

DescendsBy(h, p, passing, to) ==
    /\ to[0] = [heap |-> h, at |-> Root]
    /\ \A i \in 1..(Len(p) - 1) : to[i] = DescentStep(p, passing, to[i - 1], i)
    /\ Descent(h, p, passing) = to[Len(p) - 1]

LEMMA DescentDefined ==
  ASSUME NEW h, NEW p, NEW passing, Len(p) - 1 \in Nat
  PROVE  \E to : DescendsBy(h, p, passing, to)
<1> DEFINE last == Len(p) - 1
           Step(to, i) == IF i = 0 THEN [heap |-> h, at |-> Root]
                          ELSE DescentStep(p, passing, to[i - 1], i)
           T == {m \in Nat : \E to : to = [i \in 0..m |-> Step(to, i)]}
<1>1. 0 \in T
  <2> DEFINE to == [i \in 0..0 |-> [heap |-> h, at |-> Root]]
  <2>1. \A i \in 0..0 : Step(to, i) = [heap |-> h, at |-> Root]
    OBVIOUS
  <2> HIDE DEF Step
  <2>2. to = [i \in 0..0 |-> Step(to, i)]
    BY <2>1
  <2> HIDE DEF to
  <2> QED  BY <2>2
<1>2. ASSUME NEW m \in T PROVE m + 1 \in T
  <2>1. PICK to : to = [i \in 0..m |-> Step(to, i)]
    OBVIOUS
  <2>2. m \in Nat
    OBVIOUS
  <2> DEFINE on == [i \in 0..(m + 1) |-> Step(to, i)]
  <2> HIDE DEF Step
  <2>3. ASSUME NEW i \in 0..m PROVE on[i] = to[i]
    <3>1. i \in 0..(m + 1)
      BY <2>2
    <3>2. on[i] = Step(to, i)
      BY <3>1
    <3> QED  BY <2>1, <3>2
  <2>4. ASSUME NEW i \in 0..(m + 1) PROVE Step(on, i) = Step(to, i)
    <3>1. i # 0 => i - 1 \in 0..m
      BY <2>2
    <3> HIDE DEF on
    <3> QED  BY <2>3, <3>1 DEF Step
  <2>5. on = [i \in 0..(m + 1) |-> Step(on, i)]
    BY <2>4
  <2> HIDE DEF on
  <2>6. m + 1 \in Nat /\ \E to2 : to2 = [i \in 0..(m + 1) |-> Step(to2, i)]
    BY <2>2, <2>5
  <2> QED  BY <2>6
<1>3. T = Nat
  <2>1. T \subseteq Nat
    OBVIOUS
  <2> HIDE DEF T
  <2> QED  BY <1>1, <1>2, <2>1, Induction
<1> DEFINE to == CHOOSE to : to = [i \in 0..last |-> Step(to, i)]
<1>4. Descent(h, p, passing) = to[last]
  BY DEF Descent, DescentStep
<1>5. to = [i \in 0..last |-> Step(to, i)]
  <2>1. last \in Nat
    OBVIOUS
  <2>2. \E to2 : to2 = [i \in 0..last |-> Step(to2, i)]
    BY <1>3, <2>1
  <2> HIDE DEF Step, last
  <2> QED  BY <2>2
<1> HIDE DEF to
<1>6. \A i \in 0..last : to[i] = Step(to, i)
  <2> HIDE DEF Step
  <2> QED  BY <1>5
<1>7. to[0] = [heap |-> h, at |-> Root]
  BY <1>6
<1>8. \A i \in 1..last : to[i] = DescentStep(p, passing, to[i - 1], i)
  BY <1>6
<1>9. DescendsBy(h, p, passing, to)
  BY <1>4, <1>7, <1>8 DEF DescendsBy
<1> QED  BY <1>9

LEMMA KeepsOn ==
  ASSUME NEW h, NEW k, NEW l, NEW q, Keeps(h, k, q), Keeps(k, l, q)
  PROVE  Keeps(h, l, q)
<1> SUFFICES ASSUME NEW p \in DotKeys, NEW id, MapAt(h, p, id)
             PROVE  /\ MapAt(l, p, id)
                    /\ \A n \in DOMAIN h[id] \cap Names :
                          ~Below(q, InMap(p, n)) => n \in DOMAIN l[id] /\ l[id][n] = h[id][n]
  BY DEF Keeps
<1>1. /\ MapAt(k, p, id)
      /\ \A n \in DOMAIN h[id] \cap Names :
            ~Below(q, InMap(p, n)) => n \in DOMAIN k[id] /\ k[id][n] = h[id][n]
  BY DEF Keeps
<1>2. /\ MapAt(l, p, id)
      /\ \A n \in DOMAIN k[id] \cap Names :
            ~Below(q, InMap(p, n)) => n \in DOMAIN l[id] /\ l[id][n] = k[id][n]
  BY <1>1 DEF Keeps
<1> QED  BY <1>1, <1>2

NoneBelowLeaves(g) == \A q \in DOMAIN g[1], p \in LeavesOf(g) : ~Below(q, p)

Descended(h, t, g, q, i, d) ==
    Sound(d.heap, t, g) /\ MapAt(d.heap, Upto(q, i), d.at) /\ Keeps(h, d.heap, q)

\* A map is entered, or made, and in an export there is no leaf on the way.
LEMMA DescendOne ==
  ASSUME NEW h, NEW t, NEW g, GivenOK(t, g), NEW q \in DotKeys, q \in KeysOf(g),
         NEW passing \in BOOLEAN, passing => t = "export" /\ NoneBelowLeaves(g),
         NEW i \in 1..(Len(q) - 1), NEW d, Descended(h, t, g, q, i - 1, d)
  PROVE  Descended(h, t, g, q, i, DescentStep(q, passing, d, i))
<1> DEFINE k == d.heap
           at == d.at
           e  == k[at][q[i]]
<1>1. Sound(k, t, g) /\ MapAt(k, Upto(q, i - 1), at) /\ Keeps(h, k, q)
  BY DEF Descended
<1>2. Len(q) \in Nat /\ i \in 1..Len(q) /\ i \in 0..Len(q) /\ i # Len(q) /\ i \in Nat
  BY UptoFacts
<1>3. /\ Upto(q, i - 1) \in DotKeys /\ q[i] \in Names /\ Upto(q, i) \in DotKeys
      /\ Upto(q, i) = InMap(Upto(q, i - 1), q[i]) /\ Below(q, Upto(q, i))
  BY <1>2, UptoNext, UptoFacts, UptoAbove
<1> HIDE DEF k, at
<1>4. at \in DOMAIN k /\ Loc(at) = Upto(q, i - 1) /\ Live(g, at)
  BY <1>1, <1>3, MapAtLoc
<1>5. CASE q[i] \in DOMAIN k[at] /\ IsMap(e)
  <2>1. Fits(k, t, g, Upto(q, i), e)
    BY <1>1, <1>3, <1>4, <1>5 DEF Sound
  <2>2. PICK id \in DOMAIN k : e = Map(id)
    BY <1>5, <2>1 DEF Fits
  <2>3. e.map = id
    BY <2>2, Entries
  <2>4. DescentStep(q, passing, d, i) = [heap |-> k, at |-> id]
    BY <1>5, <2>3 DEF DescentStep, k, at
  <2>5. Leads(k, at, q[i], id)
    BY <1>5, <2>2 DEF Leads
  <2>6. MapAt(k, Upto(q, i), id)
    BY <1>1, <1>3, <2>5, MapAtNext
  <2> QED  BY <1>1, <2>4, <2>6 DEF Descended
<1>6. CASE q[i] \in DOMAIN k[at] /\ ~IsMap(e) /\ passing
  <2>1. InMap(Loc(at), q[i]) \in LeavesOf(g)
    BY <1>1, <1>4, <1>6 DEF Sound
  <2>2. q \in DOMAIN g[1]
    BY <1>6 DEF GivenOK, KeysOf
  <2> QED  BY <1>3, <1>4, <1>6, <2>1, <2>2 DEF NoneBelowLeaves
<1>7. CASE ~(q[i] \in DOMAIN k[at] /\ IsMap(e)) /\ ~(q[i] \in DOMAIN k[at] /\ ~IsMap(e) /\ passing)
  <2> DEFINE l  == WithMap(k, at, q, i).heap
             id == WithMap(k, at, q, i).at
  <2>1. DescentStep(q, passing, d, i) = WithMap(k, at, q, i)
    BY <1>7 DEF DescentStep, k, at
  <2>2. Makes(k, at, q, i, l, id)
    BY DEF Makes, WithMap
  <2> HIDE DEF l, id
  <2>3. Sound(l, t, g)
    BY <1>1, <1>7, <2>2, StageSound
  <2>4. MapAt(l, Upto(q, i), id) /\ Keeps(k, l, q)
    BY <1>1, <1>7, <2>2, StageKeeps
  <2>5. Keeps(h, l, q)
    BY <1>1, <2>4, KeepsOn
  <2> QED  BY <2>1, <2>3, <2>4, <2>5 DEF Descended, l, id
<1> QED  BY <1>5, <1>6, <1>7

LEMMA DescentSound ==
  ASSUME NEW h, NEW t, NEW g, GivenOK(t, g), Sound(h, t, g), NEW q \in DotKeys, q \in KeysOf(g),
         q # <<>>, NEW passing \in BOOLEAN, passing => t = "export" /\ NoneBelowLeaves(g)
  PROVE  Descended(h, t, g, q, Len(q) - 1, Descent(h, q, passing))
<1>1. Len(q) - 1 \in Nat
  BY EmptySeq DEF DotKeys
<1>2. PICK to : /\ to[0] = [heap |-> h, at |-> Root]
                /\ \A i \in 1..(Len(q) - 1) : to[i] = DescentStep(q, passing, to[i - 1], i)
                /\ Descent(h, q, passing) = to[Len(q) - 1]
  <2>1. PICK to : DescendsBy(h, q, passing, to)
    BY <1>1, DescentDefined
  <2> QED  BY <2>1 DEF DescendsBy
<1> DEFINE T == {i \in Nat : i <= Len(q) - 1 => Descended(h, t, g, q, i, to[i])}
<1>3. 0 \in T
  <2>1. to[0].heap = h /\ to[0].at = Root /\ Upto(q, 0) = <<>>
    BY <1>2, UptoFacts
  <2>2. MapAt(h, <<>>, Root)
    BY MapAtRoot DEF Sound
  <2>3. Keeps(h, h, q)
    BY DEF Keeps
  <2> QED  BY <2>1, <2>2, <2>3 DEF Descended
<1>4. ASSUME NEW i \in T PROVE i + 1 \in T
  <2>1. i \in Nat /\ (i <= Len(q) - 1 => Descended(h, t, g, q, i, to[i]))
    OBVIOUS
  <2>2. ASSUME i + 1 <= Len(q) - 1 PROVE Descended(h, t, g, q, i + 1, to[i + 1])
    <3>1. i + 1 \in 1..(Len(q) - 1) /\ i + 1 - 1 = i /\ i <= Len(q) - 1
      BY <1>1, <2>1, <2>2
    <3>2. to[i + 1] = DescentStep(q, passing, to[i], i + 1)
      BY <1>2, <3>1
    <3>3. Descended(h, t, g, q, i + 1 - 1, to[i])
      BY <2>1, <3>1
    <3>4. Descended(h, t, g, q, i + 1, DescentStep(q, passing, to[i], i + 1))
      BY <3>1, <3>3, DescendOne
    <3> QED  BY <3>2, <3>4
  <2> QED  BY <2>1, <2>2
<1>5. T = Nat
  <2>1. T \subseteq Nat
    OBVIOUS
  <2> HIDE DEF T
  <2> QED  BY <1>3, <1>4, <2>1, Induction
<1>6. Descended(h, t, g, q, Len(q) - 1, to[Len(q) - 1])
  BY <1>1, <1>5
<1> QED  BY <1>2, <1>6

\* The entry that the names of a key lead to.
Holds(h, p, e) ==
    \E s, n, id :
        /\ s \in DotKeys /\ n \in Names /\ p = InMap(s, n)
        /\ MapAt(h, s, id) /\ n \in DOMAIN h[id] /\ h[id][n] = e

LEMMA HoldsNext ==
  ASSUME NEW h, NEW s \in DotKeys, NEW n \in Names, NEW p, p = InMap(s, n), NEW e
  PROVE  Holds(h, p, e) <=> \E id : MapAt(h, s, id) /\ n \in DOMAIN h[id] /\ h[id][n] = e
<1>1. ASSUME Holds(h, p, e) PROVE \E id : MapAt(h, s, id) /\ n \in DOMAIN h[id] /\ h[id][n] = e
  <2>1. PICK u, m, id :
           /\ u \in DotKeys /\ m \in Names /\ p = InMap(u, m)
           /\ MapAt(h, u, id) /\ m \in DOMAIN h[id] /\ h[id][m] = e
    BY <1>1 DEF Holds
  <2>2. u = s /\ m = n
    <3>1. InMap(u, m) = InMap(s, n) /\ u \in DotKeys /\ m \in Names
      BY <2>1
    <3> QED  BY ONLY <3>1, s \in DotKeys, n \in Names, InMapSame
  <2> QED  BY <2>1, <2>2
<1> QED  BY <1>1 DEF Holds

HeldIn(h, s, n, e) == \E id : MapAt(h, s, id) /\ n \in DOMAIN h[id] /\ h[id][n] = e

LEMMA HoldsIn ==
  ASSUME NEW h, NEW s \in DotKeys, NEW n \in Names, NEW e, Holds(h, InMap(s, n), e)
  PROVE  HeldIn(h, s, n, e)
<1> DEFINE p == InMap(s, n)
<1>1. p = InMap(s, n) /\ Holds(h, p, e)
  OBVIOUS
<1> HIDE DEF p
<1>2. \E id : MapAt(h, s, id) /\ n \in DOMAIN h[id] /\ h[id][n] = e
  BY <1>1, HoldsNext
<1> QED  BY <1>2 DEF HeldIn

LEMMA HoldsOne ==
  ASSUME NEW h, NEW p, NEW e, NEW f, Holds(h, p, e), Holds(h, p, f)
  PROVE  e = f
<1>1. PICK s, n, id :
         /\ s \in DotKeys /\ n \in Names /\ p = InMap(s, n)
         /\ MapAt(h, s, id) /\ n \in DOMAIN h[id] /\ h[id][n] = e
  BY DEF Holds
<1>2. PICK j : MapAt(h, s, j) /\ n \in DOMAIN h[j] /\ h[j][n] = f
  BY <1>1, HoldsNext
<1>3. id = j
  BY <1>1, <1>2, MapAtOne
<1> QED  BY <1>1, <1>2, <1>3

LEMMA DescentHolds ==
  ASSUME NEW h, NEW k, NEW q, Keeps(h, k, q), NEW p, NEW e, Holds(h, p, e), ~Below(q, p)
  PROVE  Holds(k, p, e)
<1>1. PICK s, n, id :
         /\ s \in DotKeys /\ n \in Names /\ p = InMap(s, n)
         /\ MapAt(h, s, id) /\ n \in DOMAIN h[id] /\ h[id][n] = e
  BY DEF Holds
<1>2. MapAt(k, s, id) /\ n \in DOMAIN k[id] /\ k[id][n] = e
  BY <1>1 DEF Keeps
<1> QED  BY <1>1, <1>2 DEF Holds

\* What holds of a heap after an entry of a map has been written.
HoldsElse(k, l, q) == \A p, x : Holds(k, p, x) /\ p # q /\ ~Below(p, q) => Holds(l, p, x)

LEMMA PutSound ==
  ASSUME NEW k, NEW t, NEW g, GivenOK(t, g), Sound(k, t, g), NEW q \in DotKeys, q # <<>>,
         q \in KeysOf(g), NEW at, MapAt(k, Upto(q, Len(q) - 1), at),
         NEW e, Fits(k, t, g, q, e), t = "export" => IsMap(e) \/ q \in LeavesOf(g),
         NEW l, l = With(k, at, Last(q), e)
  PROVE  Sound(l, t, g) /\ Holds(l, q, e) /\ HoldsElse(k, l, q)
<1> DEFINE f == Upto(q, Len(q) - 1)
           n == Last(q)
<1>1. f \in DotKeys /\ n \in Names /\ q = InMap(f, n) /\ Len(q) - 1 \in 0..Len(q) /\ Len(q) - 1 # Len(q)
  <2>1. /\ Front(q) \in DotKeys /\ Last(q) \in Names /\ q = InMap(Front(q), Last(q))
        /\ Front(q) = Upto(q, Len(q) - 1) /\ Len(q) - 1 \in 0..Len(q)
    BY LastIn
  <2>2. Len(q) \in Nat
    BY UptoFacts
  <2> QED  BY <2>1, <2>2
<1>2. Below(q, f)
  BY <1>1, UptoAbove
<1>3. MapAt(k, f, at)
  OBVIOUS
<1> HIDE DEF f, n
<1>4. /\ at \in DOMAIN k /\ Loc(at) = f /\ Live(g, at)
      /\ (f = <<>> /\ at = Root) \/ (f # <<>> /\ Attached(t, g, f, at))
  BY <1>1, <1>3, MapAtLoc
<1>5. /\ DOMAIN l = DOMAIN k /\ DOMAIN l[at] = DOMAIN k[at] \cup {n} /\ l[at][n] = e
      /\ \A m \in DOMAIN k[at] : m # n => l[at][m] = k[at][m]
      /\ \A x \in DOMAIN k : x # at => l[x] = k[x]
  <2>1. l = Store(k, at, Store(k[at], n, e))
    BY DEF With, n
  <2>2. DOMAIN l = DOMAIN k /\ l[at] = Store(k[at], n, e) /\ \A x \in DOMAIN k : x # at => l[x] = k[x]
    BY <1>4, <2>1 DEF Store
  <2> QED  BY <2>2 DEF Store
<1>6. \A x \in DOMAIN l : \A m \in DOMAIN l[x] :
         (x = at /\ m = n) \/ (x \in DOMAIN k /\ m \in DOMAIN k[x] /\ l[x][m] = k[x][m])
  BY <1>5
<1>7. ASSUME NEW x \in DOMAIN l, NEW m \in DOMAIN l[x]
      PROVE  /\ m \in Names /\ Fits(l, t, g, InMap(Loc(x), m), l[x][m])
             /\ t = "export" /\ Live(g, x) => IsMap(l[x][m]) \/ InMap(Loc(x), m) \in LeavesOf(g)
  <2>1. CASE x = at /\ m = n
    <3>1. Fits(l, t, g, q, e)
      BY <1>5, FitsMore
    <3> QED  BY <1>1, <1>4, <1>5, <2>1, <3>1
  <2>2. CASE x \in DOMAIN k /\ m \in DOMAIN k[x] /\ l[x][m] = k[x][m]
    <3>1. m \in Names /\ Fits(k, t, g, InMap(Loc(x), m), k[x][m])
      BY <2>2 DEF Sound
    <3>2. t = "export" /\ Live(g, x) => IsMap(k[x][m]) \/ InMap(Loc(x), m) \in LeavesOf(g)
      BY <2>2 DEF Sound
    <3> QED  BY <1>5, <2>2, <3>1, <3>2, FitsMore
  <2> QED  BY <1>6, <2>1, <2>2
<1>8. ASSUME NEW s \in Sources, NEW p \in MapPaths, l[RawMap(s, p)] # RawContent(s, p)
      PROVE  RawWritten(t, g, s, p)
  <2>1. RawMap(s, p) \in DOMAIN k /\ (k[RawMap(s, p)] # RawContent(s, p) => RawWritten(t, g, s, p))
    BY DEF Sound
  <2>2. CASE RawMap(s, p) # at
    BY <1>5, <1>8, <2>1, <2>2
  <2>3. CASE RawMap(s, p) = at
    <3>1. s = 1 /\ p = f
      BY <1>4, <2>3, LocFacts DEF Live
    <3>2. t # "deep"
      BY <1>4, <2>3, Entries DEF Attached, Root
    <3>3. q \in DOMAIN g[1]
      BY <3>2 DEF GivenOK, KeysOf
    <3> QED  BY <1>2, <3>1, <3>2, <3>3 DEF RawWritten
  <2> QED  BY <2>2, <2>3
<1>9. Sound(l, t, g)
  <2>1. /\ Root \in DOMAIN l /\ \A s \in Sources, p \in MapPaths : RawMap(s, p) \in DOMAIN l
        /\ \A x \in DOMAIN l : IsId(g, x)
    BY <1>5 DEF Sound
  <2> QED  BY <1>7, <1>8, <2>1 DEF Sound
<1>10. ASSUME NEW s \in DotKeys, NEW j, MapAt(k, s, j), NEW m \in DOMAIN k[j] \cap Names, InMap(s, m) # q
       PROVE  m \in DOMAIN l[j] /\ l[j][m] = k[j][m]
  <2>1. j \in DOMAIN k /\ Loc(j) = s
    BY <1>10, MapAtLoc
  <2>2. CASE j = at
    BY <1>1, <1>4, <1>5, <1>10, <2>1, <2>2
  <2>3. CASE j # at
    BY <1>5, <1>10, <2>1, <2>3
  <2> QED  BY <2>2, <2>3
<1>11. ASSUME NEW s \in DotKeys, NEW j, MapAt(k, s, j), ~IsPrefix(q, s) PROVE MapAt(l, s, j)
  <2> DEFINE X == {q}
  <2>1. X \subseteq DotKeys /\ DOMAIN k \subseteq DOMAIN l /\ \A x \in X : ~IsPrefix(x, s)
    BY <1>5, <1>11
  <2>2. \A u \in DotKeys : \A i : MapAt(k, u, i) =>
           \A m \in DOMAIN k[i] \cap Names : InMap(u, m) \notin X => m \in DOMAIN l[i] /\ l[i][m] = k[i][m]
    BY <1>10
  <2> HIDE DEF X
  <2>3. \A u \in DotKeys : \A i : MapAt(k, u, i) /\ (\A x \in X : ~IsPrefix(x, u)) => MapAt(l, u, i)
    BY ONLY <2>1, <2>2, MapsKept
  <2> QED  BY <1>11, <2>1, <2>3
<1>12. Holds(l, q, e)
  <2>1. ~IsPrefix(q, f)
    BY <1>1, <1>2, PrefixFacts, InMapFacts DEF Below
  <2>2. MapAt(l, f, at)
    BY <1>1, <1>3, <1>11, <2>1
  <2> QED  BY <1>1, <1>5, <2>2 DEF Holds
<1>13. HoldsElse(k, l, q)
  <2> SUFFICES ASSUME NEW p, NEW x, Holds(k, p, x), p # q, ~Below(p, q) PROVE Holds(l, p, x)
    BY DEF HoldsElse
  <2>1. PICK s, m, j :
           /\ s \in DotKeys /\ m \in Names /\ p = InMap(s, m)
           /\ MapAt(k, s, j) /\ m \in DOMAIN k[j] /\ k[j][m] = x
    BY DEF Holds
  <2>2. ~IsPrefix(q, s)
    BY <2>1, PrefixInMap DEF Below
  <2>3. MapAt(l, s, j) /\ m \in DOMAIN l[j] /\ l[j][m] = x
    BY <1>10, <1>11, <2>1, <2>2
  <2> QED  BY <2>1, <2>3 DEF Holds
<1> QED  BY <1>9, <1>12, <1>13

\* A raw map is copied into the map at its key, by the deep merge alone.
LEMMA MergeSound ==
  ASSUME NEW k, NEW t, NEW g, GivenOK(t, g), t = "deep", Sound(k, t, g),
         NEW s \in Sources, NEW q \in DotKeys, q \in MapPaths, NEW id, MapAt(k, q, id), q # <<>>,
         NEW l, l = Store(k, id, Over(k[RawMap(s, q)], k[id]))
  PROVE  Sound(l, t, g) /\ HoldsElse(k, l, q)
<1>1. /\ id \in DOMAIN k /\ Loc(id) = q /\ Attached(t, g, q, id)
  BY MapAtLoc
<1>2. k[RawMap(s, q)] = [n \in MapNames |-> Leaf(s, Append(q, n))]
  <2>1. k[RawMap(s, q)] = RawContent(s, q)
    BY DEF Sound, RawWritten
  <2> QED  BY <2>1 DEF RawContent
<1>3. /\ DOMAIN l = DOMAIN k /\ DOMAIN l[id] = DOMAIN k[id] \cup MapNames
      /\ \A n \in MapNames : l[id][n] = Leaf(s, InMap(q, n))
      /\ \A n \in DOMAIN k[id] : n \notin MapNames => l[id][n] = k[id][n]
      /\ \A x \in DOMAIN k : x # id => l[x] = k[x]
  <2>1. /\ DOMAIN l = DOMAIN k /\ l[id] = Over(k[RawMap(s, q)], k[id])
        /\ \A x \in DOMAIN k : x # id => l[x] = k[x]
    BY <1>1 DEF Store
  <2> QED  BY <1>2, <2>1 DEF Over, InMap
<1>4. \A n \in MapNames : n \in Names
  BY DEF Names
<1>5. \A x \in DOMAIN l : \A m \in DOMAIN l[x] :
         (x = id /\ m \in MapNames) \/ (x \in DOMAIN k /\ m \in DOMAIN k[x] /\ l[x][m] = k[x][m])
  BY <1>3
<1>6. ASSUME NEW x \in DOMAIN l, NEW m \in DOMAIN l[x]
      PROVE  m \in Names /\ Fits(l, t, g, InMap(Loc(x), m), l[x][m])
  <2>1. CASE x = id /\ m \in MapNames
    <3>1. l[x][m] = Leaf(s, InMap(q, m))
      BY <1>3, <2>1
    <3> QED  BY <1>1, <1>4, <2>1, <3>1, Entries DEF Fits
  <2>2. CASE x \in DOMAIN k /\ m \in DOMAIN k[x] /\ l[x][m] = k[x][m]
    <3>1. m \in Names /\ Fits(k, t, g, InMap(Loc(x), m), k[x][m])
      BY <2>2 DEF Sound
    <3> QED  BY <1>3, <2>2, <3>1, FitsMore
  <2> QED  BY <1>5, <2>1, <2>2
<1>7. ASSUME NEW u \in Sources, NEW p \in MapPaths PROVE l[RawMap(u, p)] = RawContent(u, p)
  <2>1. RawMap(u, p) \in DOMAIN k /\ k[RawMap(u, p)] = RawContent(u, p)
    BY DEF Sound, RawWritten
  <2>2. RawMap(u, p) # id
    BY <1>1, Entries DEF Attached
  <2> QED  BY <1>3, <2>1, <2>2
<1>8. Sound(l, t, g)
  <2>1. /\ Root \in DOMAIN l /\ \A u \in Sources, p \in MapPaths : RawMap(u, p) \in DOMAIN l
        /\ \A x \in DOMAIN l : IsId(g, x)
    BY <1>3 DEF Sound
  <2>2. t # "export"
    OBVIOUS
  <2> QED  BY <1>6, <1>7, <2>1, <2>2 DEF Sound
<1> DEFINE X == {InMap(q, n) : n \in MapNames}
<1>9. ASSUME NEW u \in DotKeys, NEW j, MapAt(k, u, j), NEW m \in DOMAIN k[j] \cap Names, InMap(u, m) \notin X
      PROVE  m \in DOMAIN l[j] /\ l[j][m] = k[j][m]
  <2>1. j \in DOMAIN k /\ Loc(j) = u
    BY <1>9, MapAtLoc
  <2>2. CASE j = id
    <3>1. m \notin MapNames
      BY <1>1, <1>9, <2>1, <2>2
    <3> QED  BY <1>3, <1>9, <2>2, <3>1
  <2>3. CASE j # id
    BY <1>3, <1>9, <2>1, <2>3
  <2> QED  BY <2>2, <2>3
<1>10. X \subseteq DotKeys
  BY <1>4, InMapFacts
<1>11. \A x \in X : x # q /\ IsPrefix(q, x)
  <2> SUFFICES ASSUME NEW n \in MapNames PROVE InMap(q, n) # q /\ IsPrefix(q, InMap(q, n))
    OBVIOUS
  <2>1. Len(InMap(q, n)) = Len(q) + 1 /\ Len(q) \in Nat
    BY <1>4, InMapFacts, UptoFacts
  <2>2. IsPrefix(q, q)
    BY PrefixFacts
  <2> QED  BY <1>4, <2>1, <2>2, PrefixInMap
<1> HIDE DEF X
<1>12. \A u \in DotKeys : \A i : MapAt(k, u, i) /\ (\A x \in X : ~IsPrefix(x, u)) => MapAt(l, u, i)
  <2>1. DOMAIN k \subseteq DOMAIN l
    BY <1>3
  <2>2. \A u \in DotKeys : \A i : MapAt(k, u, i) =>
           \A m \in DOMAIN k[i] \cap Names : InMap(u, m) \notin X => m \in DOMAIN l[i] /\ l[i][m] = k[i][m]
    BY <1>9
  <2> QED  BY ONLY <1>10, <2>1, <2>2, MapsKept
<1>13. HoldsElse(k, l, q)
  <2> SUFFICES ASSUME NEW p, NEW x, Holds(k, p, x), p # q, ~Below(p, q) PROVE Holds(l, p, x)
    BY DEF HoldsElse
  <2>1. PICK u, m, j :
           /\ u \in DotKeys /\ m \in Names /\ p = InMap(u, m)
           /\ MapAt(k, u, j) /\ m \in DOMAIN k[j] /\ k[j][m] = x
    BY DEF Holds
  <2>2. ~IsPrefix(q, p) /\ p \in DotKeys
    BY <2>1, InMapFacts DEF Below
  <2>3. \A y \in X : ~IsPrefix(y, p)
    BY <1>10, <1>11, <2>2, PrefixFacts
  <2>4. \A y \in X : ~IsPrefix(y, u) /\ y # p
    BY <1>10, <2>1, <2>2, <2>3, PrefixInMap, PrefixFacts
  <2>5. MapAt(l, u, j) /\ m \in DOMAIN l[j] /\ l[j][m] = x
    BY <1>9, <1>12, <2>1, <2>4
  <2> QED  BY <2>1, <2>5 DEF Holds
<1> QED  BY <1>8, <1>13

\* A key that begins with a name.
Beginning(n, r) == <<n>> \o r

Joined(s, r) == s \o r

LEMMA BeginningFacts ==
  ASSUME NEW n \in Names, NEW r \in DotKeys
  PROVE  Beginning(n, r) \in DotKeys /\ Len(Beginning(n, r)) = Len(r) + 1 /\ Beginning(n, r) # <<>>
         /\ Beginning(n, r)[1] = n /\ \A i \in 1..Len(r) : Beginning(n, r)[i + 1] = r[i]
<1>1. <<n>> \in Seq(Names) /\ Len(<<n>>) = 1 /\ <<n>>[1] = n
  OBVIOUS
<1>2. r \in Seq(Names) /\ Len(r) \in Nat
  BY UptoFacts DEF DotKeys
<1>3. /\ Beginning(n, r) \in Seq(Names) /\ Len(Beginning(n, r)) = 1 + Len(r)
      /\ \A i \in 1..(1 + Len(r)) : Beginning(n, r)[i] = IF i <= 1 THEN <<n>>[i] ELSE r[i - 1]
  BY <1>1, <1>2, ConcatProperties DEF Beginning
<1>4. Beginning(n, r)[1] = n
  <2>1. 1 \in 1..(1 + Len(r)) /\ 1 <= 1
    BY <1>2
  <2> QED  BY <1>1, <1>3, <2>1
<1>5. ASSUME NEW i \in 1..Len(r) PROVE Beginning(n, r)[i + 1] = r[i]
  <2>1. i + 1 \in 1..(1 + Len(r)) /\ ~(i + 1 <= 1) /\ i + 1 - 1 = i
    BY <1>2
  <2> QED  BY <1>3, <2>1
<1>6. Beginning(n, r) # <<>>
  BY <1>2, <1>3, EmptySeq
<1> QED  BY <1>2, <1>3, <1>4, <1>5, <1>6 DEF DotKeys

LEMMA JoinedFacts ==
  ASSUME NEW s \in DotKeys, NEW r \in DotKeys
  PROVE  /\ Joined(s, r) \in DotKeys /\ Len(Joined(s, r)) = Len(s) + Len(r)
         /\ \A i \in 1..Len(s) : Joined(s, r)[i] = s[i]
         /\ \A i \in 1..Len(r) : Joined(s, r)[Len(s) + i] = r[i]
<1>1. s \in Seq(Names) /\ r \in Seq(Names) /\ Len(s) \in Nat /\ Len(r) \in Nat
  BY UptoFacts DEF DotKeys
<1>2. /\ Joined(s, r) \in Seq(Names) /\ Len(Joined(s, r)) = Len(s) + Len(r)
      /\ \A i \in 1..(Len(s) + Len(r)) : Joined(s, r)[i] = IF i <= Len(s) THEN s[i] ELSE r[i - Len(s)]
  BY <1>1, ConcatProperties DEF Joined
<1>3. \A i \in 1..Len(s) : i \in 1..(Len(s) + Len(r)) /\ i <= Len(s)
  BY <1>1
<1>4. ASSUME NEW i \in 1..Len(r) PROVE Joined(s, r)[Len(s) + i] = r[i]
  <2>1. Len(s) + i \in 1..(Len(s) + Len(r)) /\ ~(Len(s) + i <= Len(s)) /\ Len(s) + i - Len(s) = i
    BY <1>1
  <2> QED  BY <1>2, <2>1
<1> QED  BY <1>2, <1>3, <1>4 DEF DotKeys

LEMMA JoinedRoot ==
  ASSUME NEW r \in DotKeys
  PROVE  Joined(<<>>, r) = r
BY ConcatEmptySeq DEF DotKeys, Joined

\* A key below a map begins with the name of an entry of the map.
LEMMA JoinedNext ==
  ASSUME NEW s \in DotKeys, NEW n \in Names, NEW r \in DotKeys
  PROVE  /\ Joined(s, Beginning(n, r)) = Joined(InMap(s, n), r)
         /\ IsPrefix(InMap(s, n), Joined(s, Beginning(n, r)))
         /\ InMap(s, n) = Joined(s, Beginning(n, r)) <=> r = <<>>
<1> DEFINE p == InMap(s, n)
           a == Joined(p, r)
<1>1. Joined(s, Beginning(n, r)) = a
  <2>1. s \in Seq(Names) /\ r \in Seq(Names) /\ <<n>> \in Seq(Names)
    BY DEF DotKeys
  <2>2. (s \o <<n>>) \o r = s \o (<<n>> \o r)
    BY <2>1, ConcatAssociative
  <2>3. p = s \o <<n>>
    BY <2>1, AppendIsConcat DEF InMap
  <2> HIDE DEF p
  <2> QED  BY <2>2, <2>3 DEF Beginning, Joined
<1>2. p \in DotKeys /\ Len(p) \in Nat /\ Len(r) \in Nat
  BY InMapFacts, UptoFacts
<1> HIDE DEF p
<1>3. a \in DotKeys /\ Len(a) = Len(p) + Len(r) /\ \A i \in 1..Len(p) : a[i] = p[i]
  BY <1>2, JoinedFacts
<1> HIDE DEF a
<1>4. IsPrefix(p, a)
  BY <1>2, <1>3, PrefixParts
<1>5. p = a <=> r = <<>>
  <2>1. r = <<>> <=> Len(r) = 0
    BY EmptySeq DEF DotKeys
  <2>2. p = a <=> Len(p) = Len(a)
    BY <1>2, <1>3, <1>4, PrefixFacts
  <2> QED  BY <1>2, <1>3, <2>1, <2>2
<1> QED  BY <1>1, <1>4, <1>5 DEF p, a

LEMMA BeginningOf ==
  ASSUME NEW r \in DotKeys, r # <<>>
  PROVE  \E n \in Names, u \in DotKeys : r = Beginning(n, u)
<1>1. Len(r) \in Nat \ {0} /\ r \in Seq(Names) /\ \A i \in 1..Len(r) : r[i] \in Names
  BY EmptySeq, ElementOfSeq DEF DotKeys
<1> DEFINE m == Len(r) - 1
           u == [i \in 1..m |-> r[i + 1]]
<1>2. m \in Nat /\ Len(r) = m + 1
  BY <1>1
<1>3. u \in DotKeys /\ Len(u) = m /\ \A i \in 1..m : u[i] = r[i + 1]
  <2>1. \A i \in 1..m : i + 1 \in 1..Len(r)
    BY <1>2
  <2> HIDE DEF m
  <2> QED  BY <1>1, <1>2, <2>1 DEF DotKeys
<1>4. r[1] \in Names
  BY <1>1
<1> HIDE DEF m, u
<1>5. /\ Beginning(r[1], u) \in DotKeys /\ Len(Beginning(r[1], u)) = m + 1 /\ Beginning(r[1], u)[1] = r[1]
      /\ \A i \in 1..m : Beginning(r[1], u)[i + 1] = u[i]
  BY <1>3, <1>4, BeginningFacts
<1>6. ASSUME NEW i \in 1..Len(r) PROVE Beginning(r[1], u)[i] = r[i]
  <2>1. CASE i = 1
    BY <1>5, <2>1
  <2>2. CASE i # 1
    <3>1. i - 1 \in 1..m /\ (i - 1) + 1 = i
      BY <1>2, <2>2
    <3> QED  BY <1>3, <1>5, <3>1
  <2> QED  BY <2>1, <2>2
<1>7. Beginning(r[1], u) = r
  BY <1>2, <1>5, <1>6, SameKey
<1> QED  BY <1>3, <1>4, <1>7

\* There is a longest key.
LEMMA LongestKey == \E b \in Nat : \A p \in Paths : Len(p) <= b
<1>1. PICK n \in Nat : ExistsBijection(1..n, Paths)
  BY NestingAssumption, FS_NatBijection
<1>2. PICK f : f \in Surjection(1..n, Paths)
  BY <1>1 DEF ExistsBijection, Bijection
<1>3. /\ \A i \in 1..n : f[i] \in Paths /\ Len(f[i]) \in Nat
      /\ \A p \in Paths : \E i \in 1..n : f[i] = p
  BY <1>2, PathsAreKeys DEF Surjection
<1> DEFINE T == {m \in Nat : m <= n => \E b \in Nat : \A i \in 1..m : Len(f[i]) <= b}
<1>4. 0 \in T
  <2>1. \A i \in 1..0 : Len(f[i]) <= 0
    OBVIOUS
  <2> QED  BY <2>1
<1>5. ASSUME NEW m \in T PROVE m + 1 \in T
  <2>1. m \in Nat /\ (m <= n => \E b \in Nat : \A i \in 1..m : Len(f[i]) <= b)
    OBVIOUS
  <2>2. ASSUME m + 1 <= n PROVE \E b \in Nat : \A i \in 1..(m + 1) : Len(f[i]) <= b
    <3>1. PICK b \in Nat : \A i \in 1..m : Len(f[i]) <= b
      BY <2>1, <2>2
    <3>2. m + 1 \in 1..n /\ \A i \in 1..(m + 1) : i \in 1..n /\ (i \in 1..m \/ i = m + 1)
      BY <2>1, <2>2
    <3> DEFINE c == b + Len(f[m + 1])
    <3>3. c \in Nat /\ b <= c /\ Len(f[m + 1]) <= c
      BY <1>3, <3>2
    <3> HIDE DEF c
    <3>4. \A i \in 1..(m + 1) : Len(f[i]) <= c
      BY <1>3, <3>1, <3>2, <3>3
    <3> QED  BY <3>3, <3>4
  <2> QED  BY <2>1, <2>2
<1>6. T = Nat
  <2>1. T \subseteq Nat
    OBVIOUS
  <2> HIDE DEF T
  <2> QED  BY <1>4, <1>5, <2>1, Induction
<1>7. PICK b \in Nat : \A i \in 1..n : Len(f[i]) <= b
  <2>1. n \in T
    <3> HIDE DEF T
    <3> QED  BY <1>6
  <2>2. n <= n
    OBVIOUS
  <2> QED  BY <2>1, <2>2
<1> QED  BY <1>3, <1>7

Longest == CHOOSE b \in Nat : \A p \in Paths : Len(p) <= b

LEMMA LongestIs == Longest \in Nat /\ \A p \in Paths : Len(p) <= Longest
BY LongestKey DEF Longest

\* How much further the names under a map may lead.
Depth(id) == Longest + 1 - Len(Loc(id))

LEMMA DepthFalls ==
  ASSUME NEW h, NEW t, NEW g, GivenOK(t, g), Sound(h, t, g)
  PROVE  /\ \A id \in DOMAIN h : Loc(id) \in DotKeys /\ Depth(id) \in Nat /\ Depth(id) > 0
         /\ \A id \in DOMAIN h : \A n \in DOMAIN h[id] :
               IsMap(h[id][n]) => h[id][n].map \in DOMAIN h /\ Depth(h[id][n].map) = Depth(id) - 1
<1>1. ASSUME NEW id \in DOMAIN h
      PROVE  Loc(id) \in DotKeys /\ Len(Loc(id)) \in Nat /\ Len(Loc(id)) <= Longest
  <2>1. IsId(g, id)
    BY DEF Sound
  <2>2. CASE id = Root
    BY <2>2, LocFacts, LongestIs, EmptySeq DEF DotKeys
  <2>3. ASSUME NEW p \in DotKeys, id = Made(p), NEW q \in KeysOf(g), Below(q, p)
        PROVE  Loc(id) \in DotKeys /\ Len(Loc(id)) \in Nat /\ Len(Loc(id)) <= Longest
    <3>1. q \in Paths
      BY <2>3 DEF GivenOK, KeysOf, Sources
    <3>2. q \in DotKeys /\ Len(q) \in Nat /\ Len(q) <= Longest /\ Len(p) \in Nat
      BY <3>1, PathsAreKeys, LongestIs, UptoFacts
    <3>3. Len(p) <= Len(q)
      BY <2>3, <3>2, PrefixFacts DEF Below
    <3> QED  BY <2>3, <3>2, <3>3, LocFacts, LongestIs
  <2>4. ASSUME NEW s \in Sources, NEW p \in MapPaths, id = RawMap(s, p)
        PROVE  Loc(id) \in DotKeys /\ Len(Loc(id)) \in Nat /\ Len(Loc(id)) <= Longest
    <3>1. p \in Paths
      BY NestingAssumption
    <3> QED  BY <2>4, <3>1, PathsAreKeys, LongestIs, LocFacts
  <2> QED  BY <2>1, <2>2, <2>3, <2>4 DEF IsId
<1>2. ASSUME NEW id \in DOMAIN h, NEW n \in DOMAIN h[id], IsMap(h[id][n])
      PROVE  h[id][n].map \in DOMAIN h /\ Depth(h[id][n].map) = Depth(id) - 1
  <2>1. n \in Names /\ Fits(h, t, g, InMap(Loc(id), n), h[id][n])
    BY DEF Sound
  <2>2. PICK j \in DOMAIN h : h[id][n] = Map(j) /\ Attached(t, g, InMap(Loc(id), n), j)
    BY <1>2, <2>1 DEF Fits
  <2>3. h[id][n].map = j
    BY <2>2, Entries
  <2>4. Loc(j) = InMap(Loc(id), n)
    BY <2>2, LocFacts DEF Attached
  <2>5. Len(Loc(j)) = Len(Loc(id)) + 1
    BY <1>1, <2>1, <2>4, InMapFacts
  <2> QED  BY <1>1, <2>3, <2>5, LongestIs DEF Depth
<1>3. \A id \in DOMAIN h : Depth(id) \in Nat /\ Depth(id) > 0
  BY <1>1, LongestIs DEF Depth
<1> QED  BY <1>1, <1>2, <1>3

FlatStep(h, u, id) ==
    UNION {IF IsMap(h[id][n]) THEN {<<<<n>> \o e[1], e[2]>> : e \in u[h[id][n].map]}
                              ELSE {<<<<n>>, h[id][n]>>} : n \in DOMAIN h[id]}

LEMMA FlatStepSame ==
  ASSUME NEW h, NEW id, NEW u, NEW v,
         \A n \in DOMAIN h[id] : IsMap(h[id][n]) => u[h[id][n].map] = v[h[id][n].map]
  PROVE  FlatStep(h, u, id) = FlatStep(h, v, id)
<1> DEFINE Of(w, n) == IF IsMap(h[id][n]) THEN {<<<<n>> \o e[1], e[2]>> : e \in w[h[id][n].map]}
                                          ELSE {<<<<n>>, h[id][n]>>}
<1>1. \A n \in DOMAIN h[id] : Of(u, n) = Of(v, n)
  OBVIOUS
<1>2. FlatStep(h, u, id) = UNION {Of(u, n) : n \in DOMAIN h[id]}
      /\ FlatStep(h, v, id) = UNION {Of(v, n) : n \in DOMAIN h[id]}
  BY DEF FlatStep
<1> HIDE DEF Of
<1> QED  BY <1>1, <1>2

\* What is under a map is found in as many steps as the map is deep.
LEMMA FlattenedDefined ==
  ASSUME NEW h, NEW t, NEW g, GivenOK(t, g), Sound(h, t, g)
  PROVE  \E u : (\A id \in DOMAIN h : u[id] = FlatStep(h, u, id)) /\ Flattened(h) = u[Root]
<1> DEFINE Right(u, m) == \A id \in DOMAIN h : Depth(id) <= m => u[id] = FlatStep(h, u, id)
           T == {m \in Nat : \E u : Right(u, m)}
<1>1. 0 \in T
  BY DepthFalls
<1>2. ASSUME NEW m \in T PROVE m + 1 \in T
  <2>1. PICK u : Right(u, m)
    OBVIOUS
  <2>2. m \in Nat
    OBVIOUS
  <2> DEFINE v == [id \in DOMAIN h |-> FlatStep(h, u, id)]
  <2>3. \A id \in DOMAIN h : v[id] = FlatStep(h, u, id)
    OBVIOUS
  <2> HIDE DEF v
  <2>4. ASSUME NEW id \in DOMAIN h, Depth(id) <= m + 1 PROVE v[id] = FlatStep(h, v, id)
    <3>1. ASSUME NEW n \in DOMAIN h[id], IsMap(h[id][n]) PROVE u[h[id][n].map] = v[h[id][n].map]
      <4>1. h[id][n].map \in DOMAIN h /\ Depth(h[id][n].map) <= m
        BY <2>2, <2>4, <3>1, DepthFalls
      <4> QED  BY <2>1, <2>3, <4>1
    <3>2. FlatStep(h, u, id) = FlatStep(h, v, id)
      BY <3>1, FlatStepSame
    <3> QED  BY <2>3, <3>2
  <2>5. Right(v, m + 1)
    BY <2>4
  <2> HIDE DEF Right
  <2> QED  BY <2>2, <2>5
<1>3. T = Nat
  <2>1. T \subseteq Nat
    OBVIOUS
  <2> HIDE DEF T
  <2> QED  BY <1>1, <1>2, <2>1, Induction
<1>4. PICK u : Right(u, Longest + 1)
  <2>1. Longest + 1 \in Nat
    BY LongestIs
  <2> HIDE DEF Right
  <2> QED  BY <1>3, <2>1
<1>5. \A id \in DOMAIN h : u[id] = FlatStep(h, u, id)
  <2>1. ASSUME NEW id \in DOMAIN h PROVE Depth(id) <= Longest + 1
    <3>1. Len(Loc(id)) \in Nat
      BY DepthFalls, UptoFacts
    <3> QED  BY <3>1, LongestIs DEF Depth
  <2> QED  BY <1>4, <2>1
<1> DEFINE w == [id \in DOMAIN h |-> u[id]]
<1>6. \A id \in DOMAIN h : w[id] = FlatStep(h, w, id)
  <2>1. \A id \in DOMAIN h : w[id] = u[id]
    OBVIOUS
  <2> HIDE DEF w
  <2>2. ASSUME NEW id \in DOMAIN h PROVE FlatStep(h, u, id) = FlatStep(h, w, id)
    <3>1. \A n \in DOMAIN h[id] : IsMap(h[id][n]) => u[h[id][n].map] = w[h[id][n].map]
      BY <2>1, DepthFalls
    <3> QED  BY <3>1, FlatStepSame
  <2> QED  BY <1>5, <2>1, <2>2
<1>7. w = [id \in DOMAIN h |-> w[id]]
  OBVIOUS
<1> HIDE DEF w
<1>8. w = [id \in DOMAIN h |-> FlatStep(h, w, id)]
  BY <1>6, <1>7
<1> DEFINE under == CHOOSE x : x = [id \in DOMAIN h |-> FlatStep(h, x, id)]
<1>9. Flattened(h) = under[Root]
  BY DEF Flattened, FlatStep
<1>10. under = [id \in DOMAIN h |-> FlatStep(h, under, id)]
  BY <1>8
<1> HIDE DEF under
<1>11. \A id \in DOMAIN h : under[id] = FlatStep(h, under, id)
  BY <1>10
<1> QED  BY <1>9, <1>11

FlatIs(h, s, set) ==
    \A x : x \in set <=> \E r, e :
                            /\ r \in DotKeys /\ x = <<r, e>> /\ r # <<>>
                            /\ Holds(h, Joined(s, r), e) /\ ~IsMap(e)

LEMMA InFlatStep ==
  ASSUME NEW h, NEW u, NEW id, NEW x
  PROVE  x \in FlatStep(h, u, id) <=>
            \E n \in DOMAIN h[id] :
               \/ IsMap(h[id][n]) /\ \E y \in u[h[id][n].map] : x = <<Beginning(n, y[1]), y[2]>>
               \/ ~IsMap(h[id][n]) /\ x = <<Beginning(n, <<>>), h[id][n]>>
<1>1. \A n : Beginning(n, <<>>) = <<n>>
  BY DEF Beginning
<1>2. x \in FlatStep(h, u, id) <=>
         \E n \in DOMAIN h[id] :
            x \in IF IsMap(h[id][n]) THEN {<<<<n>> \o e[1], e[2]>> : e \in u[h[id][n].map]}
                                     ELSE {<<<<n>>, h[id][n]>>}
  BY DEF FlatStep
<1>3. ASSUME NEW n \in DOMAIN h[id]
      PROVE  (x \in IF IsMap(h[id][n]) THEN {<<<<n>> \o e[1], e[2]>> : e \in u[h[id][n].map]}
                                       ELSE {<<<<n>>, h[id][n]>>})
             <=> \/ IsMap(h[id][n]) /\ \E y \in u[h[id][n].map] : x = <<Beginning(n, y[1]), y[2]>>
                 \/ ~IsMap(h[id][n]) /\ x = <<Beginning(n, <<>>), h[id][n]>>
  <2>1. CASE IsMap(h[id][n])
    BY <2>1 DEF Beginning
  <2>2. CASE ~IsMap(h[id][n])
    BY <1>1, <2>2
  <2> QED  BY <2>1, <2>2
<1> QED  BY <1>2, <1>3

\* What is found under a map are the entries that the names below it lead to.
LEMMA UnderMap ==
  ASSUME NEW h, NEW t, NEW g, GivenOK(t, g), Sound(h, t, g), NEW u,
         \A id \in DOMAIN h : u[id] = FlatStep(h, u, id),
         NEW s \in DotKeys, NEW id, MapAt(h, s, id),
         \A n \in Names : \A j : MapAt(h, InMap(s, n), j) => FlatIs(h, InMap(s, n), u[j])
  PROVE  FlatIs(h, s, u[id])
<1>1. id \in DOMAIN h /\ Loc(id) = s /\ \A n \in DOMAIN h[id] : n \in Names
  BY MapAtLoc DEF Sound
<1>2. u[id] = FlatStep(h, u, id)
  BY <1>1
<1>3. <<>> \in DotKeys
  BY EmptySeq DEF DotKeys
<1>4. ASSUME NEW x, x \in u[id]
      PROVE  \E r, e : r \in DotKeys /\ x = <<r, e>> /\ r # <<>> /\ Holds(h, Joined(s, r), e) /\ ~IsMap(e)
  <2>1. PICK n \in DOMAIN h[id] :
           \/ IsMap(h[id][n]) /\ \E y \in u[h[id][n].map] : x = <<Beginning(n, y[1]), y[2]>>
           \/ ~IsMap(h[id][n]) /\ x = <<Beginning(n, <<>>), h[id][n]>>
    BY <1>2, <1>4, InFlatStep
  <2>2. n \in Names
    BY <1>1
  <2>3. CASE IsMap(h[id][n]) /\ \E y \in u[h[id][n].map] : x = <<Beginning(n, y[1]), y[2]>>
    <3>1. PICK y \in u[h[id][n].map] : x = <<Beginning(n, y[1]), y[2]>>
      BY <2>3
    <3>2. Fits(h, t, g, InMap(s, n), h[id][n])
      BY <1>1 DEF Sound
    <3>3. PICK j \in DOMAIN h : h[id][n] = Map(j)
      BY <2>3, <3>2 DEF Fits
    <3>4. h[id][n].map = j /\ Leads(h, id, n, j)
      BY <3>3, Entries DEF Leads
    <3>5. MapAt(h, InMap(s, n), j)
      BY <2>2, <3>4, MapAtNext
    <3>6. FlatIs(h, InMap(s, n), u[j])
      BY <2>2, <3>5
    <3>7. PICK r, e :
             /\ r \in DotKeys /\ y = <<r, e>> /\ r # <<>>
             /\ Holds(h, Joined(InMap(s, n), r), e) /\ ~IsMap(e)
      BY <3>1, <3>4, <3>6 DEF FlatIs
    <3>8. Joined(s, Beginning(n, r)) = Joined(InMap(s, n), r)
      BY <2>2, <3>7, JoinedNext
    <3>9. Beginning(n, r) \in DotKeys /\ Beginning(n, r) # <<>>
      BY <2>2, <3>7, BeginningFacts
    <3>10. y[1] = r /\ y[2] = e
      BY <3>7
    <3> QED  BY <3>1, <3>7, <3>8, <3>9, <3>10
  <2>4. CASE ~IsMap(h[id][n]) /\ x = <<Beginning(n, <<>>), h[id][n]>>
    <3>1. Beginning(n, <<>>) \in DotKeys /\ Beginning(n, <<>>) # <<>>
      BY <1>3, <2>2, BeginningFacts
    <3>2. InMap(s, n) = Joined(s, Beginning(n, <<>>))
      BY <1>3, <2>2, JoinedNext
    <3>3. Holds(h, InMap(s, n), h[id][n])
      BY <2>2, HoldsNext
    <3> QED  BY <2>4, <3>1, <3>2, <3>3
  <2> QED  BY <2>1, <2>3, <2>4
<1>5. ASSUME NEW x, NEW r \in DotKeys, NEW e,
             x = <<r, e>>, r # <<>>, Holds(h, Joined(s, r), e), ~IsMap(e)
      PROVE  x \in u[id]
  <2>1. PICK n \in Names, v \in DotKeys : r = Beginning(n, v)
    BY <1>5, BeginningOf
  <2>2. /\ Joined(s, r) = Joined(InMap(s, n), v) /\ IsPrefix(InMap(s, n), Joined(s, r))
        /\ (InMap(s, n) = Joined(s, r) <=> v = <<>>)
    BY <2>1, JoinedNext
  <2>3. InMap(s, n) \in DotKeys
    BY InMapFacts
  <2>4. CASE v = <<>>
    <3>1. PICK j : MapAt(h, s, j) /\ n \in DOMAIN h[j] /\ h[j][n] = e
      BY <1>5, <2>2, <2>4, HoldsNext
    <3>2. j = id
      BY <3>1, MapAtOne
    <3> QED  BY <1>2, <1>5, <2>1, <2>4, <3>1, <3>2, InFlatStep
  <2>5. CASE v # <<>>
    <3>1. PICK w, m, k : w \in DotKeys /\ m \in Names /\ Joined(s, r) = InMap(w, m) /\ MapAt(h, w, k)
      BY <1>5 DEF Holds
    <3>2. IsPrefix(InMap(s, n), w)
      BY <2>2, <2>3, <2>5, <3>1, PrefixInMap
    <3>3. PICK j : MapAt(h, InMap(s, n), j)
      BY <2>3, <3>1, <3>2, MapAtAbove
    <3>4. PICK i : MapAt(h, s, i) /\ Leads(h, i, n, j)
      BY <3>3, MapAtNext
    <3>5. i = id
      BY <3>4, MapAtOne
    <3>6. n \in DOMAIN h[id] /\ IsMap(h[id][n]) /\ h[id][n].map = j
      BY <3>4, <3>5, Entries DEF Leads
    <3>7. FlatIs(h, InMap(s, n), u[j])
      BY <3>3
    <3>8. <<v, e>> \in u[j]
      BY <1>5, <2>2, <2>5, <3>7 DEF FlatIs
    <3>9. x = <<Beginning(n, <<v, e>>[1]), <<v, e>>[2]>>
      BY <1>5, <2>1
    <3> QED  BY <1>2, <3>6, <3>8, <3>9, InFlatStep
  <2> QED  BY <2>4, <2>5
<1> QED  BY <1>4, <1>5 DEF FlatIs

LEMMA FlattenedIs ==
  ASSUME NEW h, NEW t, NEW g, GivenOK(t, g), Sound(h, t, g)
  PROVE  FlatIs(h, <<>>, Flattened(h))
<1>1. PICK u : (\A id \in DOMAIN h : u[id] = FlatStep(h, u, id)) /\ Flattened(h) = u[Root]
  BY FlattenedDefined
<1> DEFINE T == {m \in Nat : \A s \in DotKeys : \A id :
                                MapAt(h, s, id) /\ Depth(id) <= m => FlatIs(h, s, u[id])}
<1>2. 0 \in T
  <2>1. ASSUME NEW s \in DotKeys, NEW id, MapAt(h, s, id), Depth(id) <= 0 PROVE FALSE
    BY <2>1, MapAtIn, DepthFalls
  <2> QED  BY <2>1
<1>3. ASSUME NEW m \in T PROVE m + 1 \in T
  <2>1. m \in Nat /\ \A s \in DotKeys : \A id : MapAt(h, s, id) /\ Depth(id) <= m => FlatIs(h, s, u[id])
    OBVIOUS
  <2>2. ASSUME NEW s \in DotKeys, NEW id, MapAt(h, s, id), Depth(id) <= m + 1
        PROVE  FlatIs(h, s, u[id])
    <3>1. ASSUME NEW n \in Names, NEW j, MapAt(h, InMap(s, n), j)
          PROVE  FlatIs(h, InMap(s, n), u[j])
      <4>1. PICK i : MapAt(h, s, i) /\ Leads(h, i, n, j)
        BY <3>1, MapAtNext
      <4>2. i = id /\ id \in DOMAIN h
        BY <2>2, <4>1, MapAtOne, MapAtIn
      <4>3. n \in DOMAIN h[id] /\ IsMap(h[id][n]) /\ h[id][n].map = j
        BY <4>1, <4>2, Entries DEF Leads
      <4>4. Depth(id) \in Nat /\ Depth(j) = Depth(id) - 1
        BY <4>2, <4>3, DepthFalls
      <4>5. Depth(j) <= m
        BY <2>1, <2>2, <4>4
      <4> QED  BY <2>1, <3>1, <4>5, InMapFacts
    <3> QED  BY <1>1, <2>2, <3>1, UnderMap
  <2> QED  BY <2>1, <2>2
<1>4. T = Nat
  <2>1. T \subseteq Nat
    OBVIOUS
  <2> HIDE DEF T
  <2> QED  BY <1>2, <1>3, <2>1, Induction
<1>5. Root \in DOMAIN h /\ MapAt(h, <<>>, Root) /\ <<>> \in DotKeys
  BY MapAtRoot, EmptySeq DEF Sound, DotKeys
<1>6. Depth(Root) \in T /\ Depth(Root) <= Depth(Root)
  BY <1>4, <1>5, DepthFalls
<1>7. FlatIs(h, <<>>, u[Root])
  BY <1>5, <1>6
<1> QED  BY <1>1, <1>7

\* The entry of a key that source s gives.
EntryOf(t, g, s, p) ==
    IF t = "deep" THEN Value(s, p) ELSE IF g[1][p] = "map" THEN Map(RawMap(1, p)) ELSE Leaf(1, p)

ClearIn(g, p) == ~\E q \in KeysOf(g) : Below(q, p) \/ Below(p, q)

\* A key with none above or below it, and given, keeps the last value inserted.
LastIsHeld(h, t, g, d) ==
    \A p \in KeysOf(g) : ClearIn(g, p) =>
        \A s \in Sources :
            /\ p \in DOMAIN g[s] \ d[s]
            /\ \A u \in Sources : u > s => p \notin DOMAIN g[u] \ d[u]
            => Holds(h, p, EntryOf(t, g, s, p))

TodoOK(t, g, d) ==
    /\ d \in [Sources -> SUBSET Paths]
    /\ \A s \in Sources : d[s] \subseteq DOMAIN g[s]
    /\ d[1] # {} => d[2] = DOMAIN g[2]

NestState ==
    /\ GivenOK(task, given)
    /\ TodoOK(task, given, todo)
    /\ (task = "export" => NoneBelowLeaves(given)) =>
          Sound(heap, task, given) /\ LastIsHeld(heap, task, given, todo)

\* The other keys stay where they are when the key q is inserted.
LEMMA OthersHeld ==
  ASSUME NEW h, NEW k, NEW l, NEW t, NEW g, NEW d, NEW e, TodoOK(t, g, d), TodoOK(t, g, e),
         LastIsHeld(h, t, g, d), NEW q, q \in KeysOf(g), Keeps(h, k, q), HoldsElse(k, l, q),
         NEW s \in Sources, q \in d[s], e = [d EXCEPT ![s] = @ \ {q}],
         ClearIn(g, q) => Holds(l, q, EntryOf(t, g, s, q)),
         s = 1 => d[2] = DOMAIN g[2]
  PROVE  LastIsHeld(l, t, g, e)
<1> SUFFICES ASSUME NEW p \in KeysOf(g), ClearIn(g, p), NEW u \in Sources,
                    p \in DOMAIN g[u] \ e[u],
                    \A v \in Sources : v > u => p \notin DOMAIN g[v] \ e[v]
             PROVE  Holds(l, p, EntryOf(t, g, u, p))
  BY DEF LastIsHeld
<1>1. \A v \in Sources : e[v] = IF v = s THEN d[s] \ {q} ELSE d[v]
  BY DEF TodoOK
<1>2. CASE p = q
  <2>1. q \in DOMAIN g[s] \ e[s]
    BY <1>1 DEF TodoOK
  <2>2. u = s
    BY <1>1, <1>2, <2>1 DEF Sources
  <2> QED  BY <1>2, <2>2
<1>3. CASE p # q
  <2>1. p \in DOMAIN g[u] \ d[u] /\ \A v \in Sources : v > u => p \notin DOMAIN g[v] \ d[v]
    BY <1>1, <1>3
  <2>2. Holds(h, p, EntryOf(t, g, u, p))
    BY <2>1 DEF LastIsHeld
  <2>3. ~Below(q, p) /\ ~Below(p, q)
    BY DEF ClearIn
  <2>4. Holds(k, p, EntryOf(t, g, u, p))
    BY <2>2, <2>3, DescentHolds
  <2> QED  BY <1>3, <2>3, <2>4 DEF HoldsElse
<1> QED  BY <1>2, <1>3

\* What State.insertIndexed and buildNested put at a key.
LEMMA InsertsRaw ==
  ASSUME NEW h, NEW t, NEW g, GivenOK(t, g), Sound(h, t, g), NEW d, TodoOK(t, g, d),
         LastIsHeld(h, t, g, d), NEW q, q \in d[1], NEW passing \in BOOLEAN, t # "deep",
         passing => t = "export" /\ NoneBelowLeaves(g),
         NEW x, x = Descent(h, q, passing), NEW l, l = With(x.heap, x.at, Last(q), EntryOf(t, g, 1, q)),
         NEW e, e = [d EXCEPT ![1] = @ \ {q}]
  PROVE  Sound(l, t, g) /\ LastIsHeld(l, t, g, e) /\ TodoOK(t, g, e)
<1>1. q \in Paths /\ q \in DOMAIN g[1] /\ q \in KeysOf(g) /\ 1 \in Sources /\ 2 \in Sources
      /\ g[1][q] \in Raws(q)
  BY DEF TodoOK, GivenOK, KeysOf, Sources
<1>2. q \in DotKeys /\ q # <<>>
  BY <1>1, PathsAreKeys
<1>3. Descended(h, t, g, q, Len(q) - 1, x)
  BY <1>1, <1>2, DescentSound
<1> DEFINE k  == x.heap
           at == x.at
           en == EntryOf(t, g, 1, q)
<1>4. Sound(k, t, g) /\ MapAt(k, Upto(q, Len(q) - 1), at) /\ Keeps(h, k, q)
  BY <1>3 DEF Descended
<1>5. l = With(k, at, Last(q), en)
  OBVIOUS
<1> HIDE DEF k, at
<1>6. Fits(k, t, g, q, en) /\ (t = "export" => IsMap(en) \/ q \in LeavesOf(g))
  <2>1. CASE g[1][q] = "map"
    <3>1. q \in MapPaths /\ en = Map(RawMap(1, q))
      BY <1>1, <2>1 DEF Raws, EntryOf
    <3>2. RawMap(1, q) \in DOMAIN k
      BY <1>1, <1>4, <3>1 DEF Sound
    <3> QED  BY <1>1, <2>1, <3>1, <3>2, Entries DEF Fits, Attached
  <2>2. CASE g[1][q] # "map"
    <3>1. g[1][q] = "leaf" /\ en = Leaf(1, q)
      BY <1>1, <2>2 DEF Raws, EntryOf
    <3>2. q \in LeavesOf(g)
      BY <1>1, <3>1 DEF LeavesOf
    <3> QED  BY <3>1, <3>2, Entries DEF Fits
  <2> QED  BY <2>1, <2>2
<1>7. Sound(l, t, g) /\ Holds(l, q, en) /\ HoldsElse(k, l, q)
  <2> HIDE DEF en
  <2> QED  BY <1>1, <1>2, <1>4, <1>5, <1>6, PutSound
<1>8. TodoOK(t, g, e)
  BY <1>1 DEF TodoOK, Sources
<1>9. d[2] = DOMAIN g[2]
  BY DEF TodoOK
<1>10. LastIsHeld(l, t, g, e)
  <2> HIDE DEF en
  <2>1. ClearIn(g, q) => Holds(l, q, EntryOf(t, g, 1, q))
    BY <1>7 DEF en
  <2> QED  BY <1>1, <1>4, <1>7, <1>8, <1>9, <2>1, OthersHeld
<1> QED  BY <1>7, <1>8, <1>10

\* What insertNested puts at a key.
InsertsAs(x, q, s, raw, l) ==
    LET here == x.heap[x.at] IN
    l = IF Last(q) \in DOMAIN here /\ IsMap(here[Last(q)]) /\ raw = "map"
        THEN LET id == here[Last(q)].map IN Store(x.heap, id, Over(x.heap[RawMap(s, q)], x.heap[id]))
        ELSE With(x.heap, x.at, Last(q), Value(s, q))

LEMMA InsertsValue ==
  ASSUME NEW h, NEW t, NEW g, GivenOK(t, g), Sound(h, t, g), NEW d, TodoOK(t, g, d),
         LastIsHeld(h, t, g, d), NEW s \in Sources, NEW q, q \in d[s], t = "deep",
         \A u \in 1..(s - 1) : d[u] = {},
         NEW x, x = Descent(h, q, FALSE), NEW l, InsertsAs(x, q, s, g[s][q], l),
         NEW e, e = [d EXCEPT ![s] = @ \ {q}]
  PROVE  Sound(l, t, g) /\ LastIsHeld(l, t, g, e) /\ TodoOK(t, g, e)
<1>1. q \in Paths /\ q \in DOMAIN g[s] /\ q \in KeysOf(g) /\ g[s][q] \in Raws(q)
  BY DEF TodoOK, GivenOK, KeysOf, Sources
<1>2. q \in DotKeys /\ q # <<>>
  BY <1>1, PathsAreKeys
<1>3. Descended(h, t, g, q, Len(q) - 1, x)
  BY <1>1, <1>2, DescentSound
<1> DEFINE k  == x.heap
           at == x.at
           n  == Last(q)
           f  == Upto(q, Len(q) - 1)
<1>4. Sound(k, t, g) /\ MapAt(k, f, at) /\ Keeps(h, k, q)
  BY <1>3 DEF Descended
<1>5. l = IF n \in DOMAIN k[at] /\ IsMap(k[at][n]) /\ g[s][q] = "map"
          THEN Store(k, k[at][n].map, Over(k[RawMap(s, q)], k[k[at][n].map]))
          ELSE With(k, at, n, Value(s, q))
  BY DEF InsertsAs
<1>6. f \in DotKeys /\ n \in Names /\ q = InMap(f, n)
  BY <1>2, LastIn
<1> HIDE DEF k, at, f
<1>7. at \in DOMAIN k /\ Loc(at) = f
  BY <1>4, <1>6, MapAtLoc
<1>8. Sound(l, t, g) /\ HoldsElse(k, l, q) /\ (ClearIn(g, q) => Holds(l, q, Value(s, q)))
  <2>1. CASE n \in DOMAIN k[at] /\ IsMap(k[at][n]) /\ g[s][q] = "map"
    <3>1. q \in MapPaths
      BY <1>1, <2>1 DEF Raws
    <3>2. Fits(k, t, g, q, k[at][n])
      BY <1>4, <1>6, <1>7, <2>1 DEF Sound
    <3>3. PICK id \in DOMAIN k : k[at][n] = Map(id) /\ Attached(t, g, q, id)
      BY <2>1, <3>2 DEF Fits
    <3>4. k[at][n].map = id /\ Leads(k, at, n, id)
      BY <2>1, <3>3, Entries DEF Leads
    <3>5. MapAt(k, q, id)
      BY <1>4, <1>6, <3>4, MapAtNext
    <3>6. l = Store(k, id, Over(k[RawMap(s, q)], k[id]))
      BY <1>5, <2>1, <3>4
    <3>7. Sound(l, t, g) /\ HoldsElse(k, l, q)
      BY <1>2, <1>4, <3>1, <3>5, <3>6, MergeSound
    <3>8. ~ClearIn(g, q)
      BY <3>3 DEF ClearIn, Attached
    <3> QED  BY <3>7, <3>8
  <2>2. CASE ~(n \in DOMAIN k[at] /\ IsMap(k[at][n]) /\ g[s][q] = "map")
    <3>1. l = With(k, at, Last(q), Value(s, q))
      BY <1>5, <2>2
    <3>2. Fits(k, t, g, q, Value(s, q)) /\ t # "export"
      BY Entries DEF Fits
    <3>3. MapAt(k, Upto(q, Len(q) - 1), at)
      BY <1>4 DEF f
    <3> QED  BY <1>1, <1>2, <1>4, <3>1, <3>2, <3>3, PutSound
  <2> QED  BY <2>1, <2>2
<1>9. TodoOK(t, g, e)
  BY <1>1 DEF TodoOK, Sources
<1>10. s = 1 => d[2] = DOMAIN g[2]
  BY DEF TodoOK
<1>11. EntryOf(t, g, s, q) = Value(s, q)
  BY DEF EntryOf
<1>12. ClearIn(g, q) => Holds(l, q, EntryOf(t, g, s, q))
  BY <1>8, <1>11
<1>13. LastIsHeld(l, t, g, e)
  BY <1>1, <1>4, <1>8, <1>9, <1>10, <1>12, OthersHeld
<1> QED  BY <1>8, <1>9, <1>13

LEMMA RawEntries ==
  ASSUME NEW s, NEW p
  PROVE  /\ DOMAIN RawContent(s, p) = MapNames
         /\ \A n \in MapNames : RawContent(s, p)[n] = Leaf(s, InMap(p, n)) /\ n \in Names
BY DEF RawContent, InMap, Names

\* At first the raw maps hold their leaves, and the map at the root nothing.
LEMMA StartsSound ==
  ASSUME NEW t, NEW g, NestOf(t, g), GivenOK(t, g)
  PROVE  Sound(heap, t, g)
<1>1. /\ DOMAIN heap = {Root} \cup {RawMap(s, p) : s \in Sources, p \in MapPaths}
      /\ heap[Root] = <<>>
  BY DEF NestOf
<1>2. ASSUME NEW s \in Sources, NEW p \in MapPaths
      PROVE  RawMap(s, p) \in DOMAIN heap /\ heap[RawMap(s, p)] = RawContent(s, p)
  <2>1. RawMap(s, p) # Root
    BY Entries DEF Root
  <2>2. RawMap(s, p).source = s /\ RawMap(s, p).raw = p
    BY DEF RawMap
  <2>3. RawMap(s, p) \in {RawMap(u, q) : u \in Sources, q \in MapPaths}
    OBVIOUS
  <2>4. \A id \in {Root} \cup {RawMap(u, q) : u \in Sources, q \in MapPaths} :
           heap[id] = IF id = Root THEN <<>> ELSE RawContent(id.source, id.raw)
    BY DEF NestOf
  <2> QED  BY <1>1, <2>1, <2>2, <2>3, <2>4
<1>3. \A id \in DOMAIN heap : id = Root \/ \E s \in Sources, p \in MapPaths : id = RawMap(s, p)
  BY <1>1
<1>4. DOMAIN heap[Root] = {}
  <2>1. DOMAIN <<>> = {}
    OBVIOUS
  <2> QED  BY <1>1, <2>1
<1>5. \A id \in DOMAIN heap : IsId(g, id)
  BY <1>3 DEF IsId
<1>6. ASSUME NEW id \in DOMAIN heap, NEW n \in DOMAIN heap[id]
      PROVE  /\ n \in Names /\ Fits(heap, t, g, InMap(Loc(id), n), heap[id][n])
             /\ Live(g, id) => IsMap(heap[id][n]) \/ InMap(Loc(id), n) \in LeavesOf(g)
  <2>1. PICK s \in Sources, p \in MapPaths : id = RawMap(s, p)
    BY <1>3, <1>4, <1>6
  <2>2. heap[id] = RawContent(s, p) /\ Loc(id) = p
    BY <1>2, <2>1, LocFacts
  <2>3. n \in MapNames
    BY <1>6, <2>2, RawEntries
  <2>4. n \in Names /\ heap[id][n] = Leaf(s, InMap(p, n))
    BY <2>2, <2>3, RawEntries
  <2>5. Fits(heap, t, g, InMap(p, n), heap[id][n])
    BY <2>4, Entries DEF Fits
  <2>6. Live(g, id) => p \in DOMAIN g[1] /\ g[1][p] = "map"
    BY <2>1 DEF Live
  <2>7. Live(g, id) => InMap(p, n) \in LeavesOf(g)
    BY <2>3, <2>6 DEF LeavesOf, InMap
  <2> QED  BY <2>2, <2>4, <2>5, <2>7
<1>7. Root \in DOMAIN heap
  BY <1>1
<1> QED  BY <1>2, <1>5, <1>6, <1>7 DEF Sound

LEMMA NestInitState == NestInit => NestState /\ found = {}
<1>1. ASSUME NEW t \in {"index", "export", "deep"}, NEW keysHeld, NEW g,
             g \in Holding(keysHeld), NestOf(t, g),
             \A s \in Sources : keysHeld[s] \subseteq Paths, t # "deep" => keysHeld[2] = {}
      PROVE  NestState /\ found = {}
  <2>1. /\ task = t /\ given = g /\ found = {} /\ todo = [s \in Sources |-> DOMAIN g[s]]
    BY <1>1 DEF NestOf
  <2>2. \A s \in Sources : DOMAIN g[s] = keysHeld[s] /\ \A p \in keysHeld[s] : g[s][p] \in Raws(p)
    BY <1>1 DEF Holding
  <2>3. GivenOK(t, g)
    BY <1>1, <2>2 DEF GivenOK, Sources
  <2>4. TodoOK(t, g, todo)
    BY <2>1, <2>3 DEF TodoOK, GivenOK, Sources
  <2>5. Sound(heap, t, g)
    BY <1>1, <2>3, StartsSound
  <2>6. LastIsHeld(heap, t, g, todo)
    BY <2>1 DEF LastIsHeld
  <2> QED  BY <2>1, <2>3, <2>4, <2>5, <2>6 DEF NestState
<1>2. ASSUME NEW keysHeld \in [Sources -> SUBSET Paths], NEW g \in Holding(keysHeld), NestOf("deep", g)
      PROVE  NestState /\ found = {}
  BY <1>1, <1>2
<1>3. ASSUME NEW keys \in SUBSET Paths, NEW g \in Holding(<<keys, {}>>),
             NEW t \in {"index", "export"}, NestOf(t, g)
      PROVE  NestState /\ found = {}
  <2> DEFINE keysHeld == <<keys, {}>>
  <2>1. keysHeld[2] = {} /\ \A s \in Sources : keysHeld[s] \subseteq Paths
    BY DEF Sources
  <2>2. g \in Holding(keysHeld) /\ t \in {"index", "export", "deep"}
    OBVIOUS
  <2> HIDE DEF keysHeld
  <2> QED  BY <1>1, <1>3, <2>1, <2>2
<1> QED  BY <1>2, <1>3 DEF NestInit

NestInv == NestState /\ (found = {} \/ (found = {Flattened(heap)} /\ \A s \in Sources : todo[s] = {}))

LEMMA NestInitInv == NestInit => NestInv
BY NestInitState DEF NestInv

\* No key is inserted after the end, so that what was found stays.
LEMMA NotYetFound ==
  ASSUME NestInv, NEW s \in Sources, NEW q, q \in todo[s]
  PROVE  found = {}
BY DEF NestInv

LEMMA NestNextInv == NestInv /\ NestNext => NestInv'
<1> SUFFICES ASSUME NestInv, NestNext PROVE NestInv'
  OBVIOUS
<1>1. GivenOK(task, given) /\ TodoOK(task, given, todo)
  BY DEF NestInv, NestState
<1> DEFINE Even == task = "export" => NoneBelowLeaves(given)
<1>2. Even => Sound(heap, task, given) /\ LastIsHeld(heap, task, given, todo)
  BY DEF NestInv, NestState
<1>3. ASSUME NEW s \in Sources, NEW q, q \in todo[s], todo' = [todo EXCEPT ![s] = @ \ {q}],
             UNCHANGED <<task, given, found>>,
             Even => Sound(heap', task, given) /\ LastIsHeld(heap', task, given, todo')
                     /\ TodoOK(task, given, todo'),
             TodoOK(task, given, todo')
      PROVE  NestInv'
  <2>1. found = {}
    BY <1>3, NotYetFound
  <2> QED  BY <1>1, <1>3, <2>1 DEF NestInv, NestState
<1>4. ASSUME NEW q \in Paths, InsertIndexed(q) PROVE NestInv'
  <2>1. /\ task = "index" /\ q \in todo[1] /\ UNCHANGED <<task, given, found>>
        /\ todo' = [todo EXCEPT ![1] = @ \ {q}]
        /\ heap' = With(Descend(heap, q).heap, Descend(heap, q).at, Last(q), Stored(q))
    BY <1>4 DEF InsertIndexed
  <2>2. Stored(q) = EntryOf(task, given, 1, q)
    BY <2>1 DEF Stored, EntryOf
  <2>3. Even
    BY <2>1
  <2>4. heap' = With(Descent(heap, q, FALSE).heap, Descent(heap, q, FALSE).at, Last(q),
                     EntryOf(task, given, 1, q))
    BY <2>1, <2>2 DEF Descend
  <2>5. Sound(heap', task, given) /\ LastIsHeld(heap', task, given, todo') /\ TodoOK(task, given, todo')
    BY <1>1, <1>2, <2>1, <2>3, <2>4, InsertsRaw
  <2>6. 1 \in Sources
    BY DEF Sources
  <2> QED  BY <1>3, <2>1, <2>5, <2>6
<1>5. ASSUME NEW q \in Paths, InsertExported(q) PROVE NestInv'
  <2>1. /\ task = "export" /\ q \in todo[1] /\ UNCHANGED <<task, given, found>>
        /\ todo' = [todo EXCEPT ![1] = @ \ {q}]
        /\ heap' = With(DescendPassing(heap, q).heap, DescendPassing(heap, q).at, Last(q), Stored(q))
    BY <1>5 DEF InsertExported
  <2>2. Stored(q) = EntryOf(task, given, 1, q)
    BY <2>1 DEF Stored, EntryOf
  <2>3. heap' = With(Descent(heap, q, TRUE).heap, Descent(heap, q, TRUE).at, Last(q),
                     EntryOf(task, given, 1, q))
    BY <2>1, <2>2 DEF DescendPassing
  <2>4. Even =>
           /\ Sound(heap', task, given) /\ LastIsHeld(heap', task, given, todo')
           /\ TodoOK(task, given, todo')
    BY <1>1, <1>2, <2>1, <2>3, InsertsRaw
  <2>5. TodoOK(task, given, todo')
    BY <1>1, <2>1 DEF TodoOK, GivenOK, Sources
  <2>6. 1 \in Sources
    BY DEF Sources
  <2> QED  BY <1>3, <2>1, <2>4, <2>5, <2>6
<1>6. ASSUME NEW s \in Sources, NEW q \in Paths, InsertNested(s, q) PROVE NestInv'
  <2>1. /\ task = "deep" /\ q \in todo[s] /\ UNCHANGED <<task, given, found>>
        /\ todo' = [todo EXCEPT ![s] = @ \ {q}] /\ \A u \in 1..(s - 1) : todo[u] = {}
    BY <1>6 DEF InsertNested
  <2>2. InsertsAs(Descent(heap, q, FALSE), q, s, given[s][q], heap')
    BY <1>6 DEF InsertNested, InsertsAs, Descend
  <2>3. Even
    BY <2>1
  <2> DEFINE x == Descent(heap, q, FALSE)
             d == [todo EXCEPT ![s] = @ \ {q}]
  <2>4. /\ x = Descent(heap, q, FALSE) /\ d = [todo EXCEPT ![s] = @ \ {q}]
        /\ InsertsAs(x, q, s, given[s][q], heap')
    BY <2>2
  <2> HIDE DEF x, d
  <2>5. todo' = d
    BY <2>1, <2>4
  <2>6. Sound(heap, task, given) /\ LastIsHeld(heap, task, given, todo)
    BY <1>2, <2>3
  <2>7. Sound(heap', task, given) /\ LastIsHeld(heap', task, given, d) /\ TodoOK(task, given, d)
    BY <1>1, <2>1, <2>4, <2>6, InsertsValue
  <2> QED  BY <1>3, <2>1, <2>5, <2>7
<1>7. ASSUME NestEnds PROVE NestInv'
  BY <1>7 DEF Sources, NestEnds, NestInv, NestState
<1> QED  BY <1>4, <1>5, <1>6, <1>7 DEF NestNext

\* A key with none above or below it is found with its entry, or with the
\* leaves of its raw map.
LEMMA FoundAsExpected ==
  ASSUME NestState, ~Misplaced, \A s \in Sources : todo[s] = {}, NEW p \in AllKeys, Alone(p)
  PROVE  {e \in Flattened(heap) : IsPrefix(p, e[1])} = Expected(p)
<1> DEFINE f == Flattened(heap)
           s == IF p \in DOMAIN given[2] THEN 2 ELSE 1
           en == EntryOf(task, given, s, p)
<1>1. GivenOK(task, given) /\ TodoOK(task, given, todo)
  BY DEF NestState
<1>2. Sound(heap, task, given) /\ LastIsHeld(heap, task, given, todo)
  BY DEF NestState, Misplaced, NoneBelowLeaves, LeafKeys, LeavesOf
<1>3. p \in KeysOf(given) /\ ClearIn(given, p) /\ s \in Sources /\ p \in DOMAIN given[s]
      /\ \A u \in Sources : u > s => p \notin DOMAIN given[u]
  BY DEF AllKeys, Alone, KeysOf, ClearIn, Sources
<1>4. p \in DotKeys /\ p # <<>> /\ (task # "deep" => s = 1)
  BY <1>1, <1>3, PathsAreKeys DEF GivenOK, Sources
<1> HIDE DEF s
<1>5. Holds(heap, p, en)
  BY <1>2, <1>3 DEF LastIsHeld
<1>6. FlatIs(heap, <<>>, f)
  BY <1>1, <1>2, FlattenedIs
<1> HIDE DEF f
<1>7. ASSUME NEW x
      PROVE  x \in f <=> \E r, e : r \in DotKeys /\ x = <<r, e>> /\ r # <<>> /\ Holds(heap, r, e) /\ ~IsMap(e)
  BY <1>6, JoinedRoot DEF FlatIs
<1>8. PICK d, n, at :
         /\ d \in DotKeys /\ n \in Names /\ p = InMap(d, n)
         /\ MapAt(heap, d, at) /\ n \in DOMAIN heap[at] /\ heap[at][n] = en
  BY <1>5 DEF Holds
<1>9. ASSUME NEW r \in DotKeys, NEW e, Holds(heap, r, e), IsPrefix(p, r), r # p
      PROVE  \E id : en = Map(id) /\ MapAt(heap, p, id)
  <2>1. PICK u, m, k : u \in DotKeys /\ m \in Names /\ r = InMap(u, m) /\ MapAt(heap, u, k)
    BY <1>9 DEF Holds
  <2>2. IsPrefix(p, u)
    BY <1>4, <1>9, <2>1, PrefixInMap
  <2>3. PICK id : MapAt(heap, p, id)
    BY <1>4, <2>1, <2>2, MapAtAbove
  <2>4. PICK i : MapAt(heap, d, i) /\ Leads(heap, i, n, id)
    BY <1>8, <2>3, MapAtNext
  <2>5. i = at
    BY <1>8, <2>4, MapAtOne
  <2> QED  BY <1>8, <2>3, <2>4, <2>5 DEF Leads
<1>10. CASE ~IsMap(en)
  <2>1. ASSUME NEW x, x \in f, IsPrefix(p, x[1]) PROVE x = <<p, en>>
    <3>1. PICK r, e : r \in DotKeys /\ x = <<r, e>> /\ r # <<>> /\ Holds(heap, r, e) /\ ~IsMap(e)
      BY <1>7, <2>1
    <3>2. x[1] = r
      BY <3>1
    <3>3. r = p
      BY <1>9, <1>10, <2>1, <3>1, <3>2, Entries
    <3>4. e = en
      BY <1>5, <3>1, <3>3, HoldsOne
    <3> QED  BY <3>1, <3>3, <3>4
  <2>2. <<p, en>> \in f /\ IsPrefix(p, <<p, en>>[1])
    BY <1>4, <1>5, <1>7, <1>10, PrefixFacts
  <2>3. {e \in f : IsPrefix(p, e[1])} = {<<p, en>>}
    BY <2>1, <2>2
  <2>4. Expected(p) = {<<p, en>>}
    <3>1. CASE task = "deep"
      BY <3>1 DEF Expected, EntryOf, s
    <3>2. CASE task # "deep"
      <4>1. given[1][p] \in Raws(p) /\ given[1][p] # "map" /\ s = 1
        BY <1>1, <1>3, <1>4, <1>10, <3>2, Entries DEF GivenOK, EntryOf, Sources
      <4>2. given[1][p] = "leaf" /\ given[s][p] = "leaf"
        BY <4>1 DEF Raws
      <4> QED  BY <3>2, <4>1, <4>2 DEF Expected, EntryOf, s
    <3> QED  BY <3>1, <3>2
  <2> QED  BY <2>3, <2>4 DEF f
<1>11. CASE IsMap(en)
  <2>1. task # "deep" /\ given[1][p] = "map" /\ en = Map(RawMap(1, p)) /\ s = 1
    BY <1>4, <1>11, Entries DEF EntryOf
  <2> DEFINE id == RawMap(1, p)
  <2>2. p \in MapPaths /\ p \in DOMAIN given[1]
    BY <1>1, <1>3, <2>1 DEF GivenOK, Raws, Sources
  <2>3. id \in DOMAIN heap /\ heap[id] = RawContent(1, p)
    <3>1. 1 \in Sources
      BY DEF Sources
    <3>2. ~RawWritten(task, given, 1, p)
      BY <1>3 DEF RawWritten, ClearIn, KeysOf
    <3> QED  BY <1>2, <2>2, <3>1, <3>2 DEF Sound
  <2>4. MapAt(heap, p, id)
    BY <1>8, <2>1, <2>3, MapAtNext DEF Leads
  <2> HIDE DEF id
  <2>5. /\ DOMAIN heap[id] = MapNames
        /\ \A m \in MapNames : heap[id][m] = Leaf(1, InMap(p, m)) /\ m \in Names
    BY <2>3, RawEntries
  <2>6. ASSUME NEW x, x \in f, IsPrefix(p, x[1])
        PROVE  \E m \in MapNames : x = <<InMap(p, m), Leaf(1, InMap(p, m))>>
    <3>1. PICK r, e : r \in DotKeys /\ x = <<r, e>> /\ r # <<>> /\ Holds(heap, r, e) /\ ~IsMap(e)
      BY <1>7, <2>6
    <3>2. x[1] = r
      BY <3>1
    <3>3. r # p
      BY <1>5, <1>11, <3>1, HoldsOne
    <3>4. PICK m \in Names : IsPrefix(InMap(p, m), r)
      BY <1>4, <2>6, <3>1, <3>2, <3>3, BelowInMap
    <3>5. InMap(p, m) \in DotKeys
      BY <1>4, InMapFacts
    <3>6. r = InMap(p, m)
      <4>1. ASSUME r # InMap(p, m) PROVE FALSE
        <5>1. PICK u, v, k : u \in DotKeys /\ v \in Names /\ r = InMap(u, v) /\ MapAt(heap, u, k)
          BY <3>1 DEF Holds
        <5>2. IsPrefix(InMap(p, m), u)
          BY <3>4, <3>5, <4>1, <5>1, PrefixInMap
        <5>3. PICK j : MapAt(heap, InMap(p, m), j)
          BY <3>5, <5>1, <5>2, MapAtAbove
        <5>4. PICK i : MapAt(heap, p, i) /\ Leads(heap, i, m, j)
          BY <1>4, <5>3, MapAtNext
        <5>5. i = id
          BY <1>4, <2>4, <5>4, MapAtOne
        <5> QED  BY <2>5, <5>4, <5>5, Entries DEF Leads
      <4> QED  BY <4>1
    <3>7. PICK i : MapAt(heap, p, i) /\ m \in DOMAIN heap[i] /\ heap[i][m] = e
      <4>1. m \in Names /\ Holds(heap, r, e)
        BY <3>1, <3>4
      <4>2. p \in DotKeys
        BY <1>4
      <4>3. HeldIn(heap, p, m, e)
        BY <3>6, <4>1, <4>2, HoldsIn
      <4> QED  BY <4>3 DEF HeldIn
    <3>8. i = id
      BY <1>4, <2>4, <3>7, MapAtOne
    <3> QED  BY <2>5, <3>1, <3>6, <3>7, <3>8
  <2>7. ASSUME NEW m \in MapNames
        PROVE  <<InMap(p, m), Leaf(1, InMap(p, m))>> \in f /\ IsPrefix(p, InMap(p, m))
    <3>1. InMap(p, m) \in DotKeys /\ InMap(p, m) # <<>>
      BY <1>4, <2>5, InMapFacts
    <3>2. Holds(heap, InMap(p, m), Leaf(1, InMap(p, m)))
      BY <1>4, <2>4, <2>5, HoldsNext
    <3>3. IsPrefix(p, InMap(p, m))
      BY <1>4, <2>5, PrefixFacts, PrefixInMap
    <3> QED  BY <1>7, <3>1, <3>2, <3>3, Entries
  <2>8. Expected(p) = {<<InMap(p, m), Leaf(1, InMap(p, m))>> : m \in MapNames}
    BY <2>1 DEF Expected, s, InMap
  <2>9. {e \in f : IsPrefix(p, e[1])} = {<<InMap(p, m), Leaf(1, InMap(p, m))>> : m \in MapNames}
    <3>1. \A x : x \in f /\ IsPrefix(p, x[1])
                 <=> \E m \in MapNames : x = <<InMap(p, m), Leaf(1, InMap(p, m))>>
      <4>1. ASSUME NEW x, NEW m \in MapNames, x = <<InMap(p, m), Leaf(1, InMap(p, m))>>
            PROVE  x \in f /\ IsPrefix(p, x[1])
        BY <2>7, <4>1
      <4> QED  BY <2>6, <4>1
    <3> QED  BY <3>1
  <2> QED  BY <2>8, <2>9 DEF f
<1> QED  BY <1>10, <1>11

LEMMA NestInvFound == NestInv => NestedAsDotted
<1> SUFFICES ASSUME NestInv, ~Misplaced PROVE NestedAsDotted
  BY DEF NestedAsDotted
<1>1. NestState
  BY DEF NestInv
<1>2. GivenOK(task, given) /\ Sound(heap, task, given)
  BY <1>1 DEF NestState, Misplaced, NoneBelowLeaves, LeafKeys, LeavesOf
<1>3. ASSUME NEW f \in found
      PROVE  /\ \A p \in AllKeys : Alone(p) => {e \in f : IsPrefix(p, e[1])} = Expected(p)
             /\ \A e \in f : KeyOf(e[2]) = e[1]
  <2>1. f = Flattened(heap) /\ \A s \in Sources : todo[s] = {}
    BY <1>3 DEF NestInv
  <2>2. \A p \in AllKeys : Alone(p) => {e \in f : IsPrefix(p, e[1])} = Expected(p)
    BY <1>1, <2>1, FoundAsExpected
  <2>3. FlatIs(heap, <<>>, f)
    BY <1>2, <2>1, FlattenedIs
  <2>4. ASSUME NEW x \in f PROVE KeyOf(x[2]) = x[1]
    <3>1. PICK r, e : r \in DotKeys /\ x = <<r, e>> /\ Holds(heap, Joined(<<>>, r), e) /\ ~IsMap(e)
      BY <2>3 DEF FlatIs
    <3>2. Holds(heap, r, e)
      BY <3>1, JoinedRoot
    <3>3. PICK s, n, id :
             /\ s \in DotKeys /\ n \in Names /\ r = InMap(s, n)
             /\ MapAt(heap, s, id) /\ n \in DOMAIN heap[id] /\ heap[id][n] = e
      BY <3>2 DEF Holds
    <3>4. id \in DOMAIN heap /\ Loc(id) = s
      BY <1>2, <3>3, MapAtLoc
    <3>5. Fits(heap, task, given, r, e)
      BY <1>2, <3>3, <3>4 DEF Sound
    <3>6. KeyOf(e) = r
      BY <3>1, <3>5, Entries DEF Fits
    <3> QED  BY <3>1, <3>6
  <2> QED  BY <2>2, <2>4
<1>4. \A s \in Sources, p \in MapPaths :
         heap[RawMap(s, p)] # RawContent(s, p) => task # "deep" /\ \E q \in DOMAIN given[s] : Below(q, p)
  BY <1>2 DEF Sound, RawWritten
<1> QED  BY <1>3, <1>4 DEF NestedAsDotted

\* In whatever order the keys are inserted, and for any keys and any raw
\* maps: each key with none above or below it is found with its last value
\* and nothing else, and no raw map is written to but for a key below it.
THEOREM NestsAsDotted == NestSpec => []NestedAsDotted
<1>1. NestInv /\ [NestNext]_nestVars => NestInv'
  <2> SUFFICES ASSUME NestInv, [NestNext]_nestVars PROVE NestInv'
    OBVIOUS
  <2>1. CASE NestNext
    BY <2>1, NestNextInv
  <2>2. CASE UNCHANGED nestVars
    BY <2>2 DEF nestVars, NestInv, NestState
  <2> QED  BY <2>1, <2>2
<1> QED  BY <1>1, NestInitInv, NestInvFound, PTL DEF NestSpec

-----------------------------------------------------------------------------
USE DebouncerAssumption, OnceAssumption, LazyLoaderAssumption, BarrierAssumption
USE DEF Nothing, Errs, Callers

-----------------------------------------------------------------------------
(* Debouncer.  A change is pending as long as its timer is set.            *)

TimerRuns ==
    /\ deb = "select" => (timer <=> pending # Nothing)
    /\ deb = "emit" => ~timer /\ pending # Nothing

NothingYet == deb = "off" => pending = Nothing /\ owed = Nothing /\ ~timer

DebInv == DebTypeOK /\ NothingYet /\ TimerRuns /\ NewestIsKept

LEMMA DebInitInv == DebInit => DebInv
<1> SUFFICES ASSUME DebInit PROVE DebInv
  OBVIOUS
<1>1. source \in Seq({0, 1})
  BY DEF DebInit
<1>2. DebTypeOK
  <2>1. sourceShut \in BOOLEAN /\ timer \in BOOLEAN /\ debCtx \in BOOLEAN
    BY DEF DebInit
  <2>2. /\ offer \in {0, 1} /\ deb \in {"off", "select", "emit", "done"}
        /\ pending \in {0, 1, Nothing} /\ owed \in {0, 1, Nothing}
        /\ resets \in {0, 1} /\ debStop \in {"idle", "wait", "stopped"}
    BY DEF DebInit
  <2>3. output \in 0..OutRoom
    BY DEF DebInit
  <2> QED  BY <1>1, <2>1, <2>2, <2>3 DEF DebTypeOK
<1>3. NothingYet
  BY DEF DebInit, NothingYet
<1>4. TimerRuns /\ NewestIsKept
  BY DEF DebInit, TimerRuns, NewestIsKept
<1> QED  BY <1>2, <1>3, <1>4 DEF DebInv

\* The change received is the first of the source.
LEMMA DebReceived ==
  ASSUME DebInv, DebReceive
  PROVE  DebInv'
<1>1. source \in Seq({0, 1}) /\ source # <<>> /\ resets \in {0, 1}
  BY DEF DebInv, DebTypeOK, DebReceive
<1>2. Head(source) \in {0, 1} /\ Tail(source) \in Seq({0, 1})
  BY <1>1, HeadTailProperties
<1> QED
  BY <1>1, <1>2 DEF DebReceive, DebInv, DebTypeOK, NothingYet, TimerRuns, NewestIsKept

\* The goroutine, while it takes nothing from the source.
LEMMA DebRuns ==
  ASSUME DebInv, DebStart \/ DebFires \/ DebEmit \/ DebLeave
  PROVE  DebInv'
<1> USE DEF DebInv, DebTypeOK, NothingYet, TimerRuns, NewestIsKept, sourceVars
<1>1. CASE DebStart
  BY <1>1 DEF DebStart
<1>2. CASE DebFires
  BY <1>2 DEF DebFires
<1>3. CASE DebEmit
  BY <1>3 DEF DebEmit, PutOut
<1>4. CASE DebLeave
  BY <1>4 DEF DebLeave
<1> QED  BY <1>1, <1>2, <1>3, <1>4

LEMMA DebCloses ==
  ASSUME DebInv, DebSourceClosed
  PROVE  DebInv'
<1>1. output \in 0..OutRoom /\ owed \in {0, 1, Nothing} /\ OutRoom \in Nat
  BY DEF DebInv, DebTypeOK
<1>2. /\ UNCHANGED <<source, sourceShut, offer, resets, debStop, debCtx>>
      /\ deb' = "done" /\ timer' = FALSE /\ pending' = Nothing
      /\ output' \in 0..OutRoom /\ owed' \in {0, 1, Nothing}
  BY <1>1 DEF DebSourceClosed, PutOut, sourceVars
<1> QED  BY <1>2 DEF DebInv, DebTypeOK, NothingYet, TimerRuns, NewestIsKept

\* Those who send, read, cancel and stop do not touch what is pending.
LEMMA DebOthers ==
  ASSUME DebInv, \/ Offer \/ CloseSource \/ ReadOutput \/ CancelDebouncer
                 \/ DebStopCall \/ DebStopReturn \/ UNCHANGED debVars
  PROVE  DebInv'
<1>1. source \in Seq({0, 1}) /\ offer \in {0, 1} /\ output \in 0..OutRoom /\ OutRoom \in Nat
  BY DEF DebInv, DebTypeOK
<1>2. source' \in Seq({0, 1}) /\ offer' \in {0, 1}
  <2>1. CASE Offer
    <3>1. Append(source, offer) \in Seq({0, 1})
      BY <1>1, AppendProperties
    <3> QED  BY <1>1, <2>1, <3>1 DEF Offer
  <2>2. CASE ~Offer
    BY <1>1, <2>2 DEF CloseSource, ReadOutput, CancelDebouncer, DebStopCall, DebStopReturn,
                      debVars, sourceVars
  <2> QED  BY <2>1, <2>2
<1>3. /\ UNCHANGED <<deb, pending, timer, resets, owed>> /\ output' \in 0..OutRoom
  BY <1>1 DEF Offer, CloseSource, ReadOutput, CancelDebouncer, DebStopCall, DebStopReturn,
              debVars, sourceVars, runVars
<1>4. /\ sourceShut' \in BOOLEAN /\ debCtx' \in BOOLEAN
      /\ debStop' \in {"idle", "wait", "stopped"}
  <2>1. /\ sourceShut \in BOOLEAN /\ debCtx \in BOOLEAN
        /\ debStop \in {"idle", "wait", "stopped"}
    BY DEF DebInv, DebTypeOK
  <2> QED
    BY <2>1 DEF Offer, CloseSource, ReadOutput, CancelDebouncer, DebStopCall, DebStopReturn,
                debVars, sourceVars, runVars
<1> QED  BY <1>2, <1>3, <1>4 DEF DebInv, DebTypeOK, NothingYet, TimerRuns, NewestIsKept

\* Whatever the room in the channels and whoever sends, reads, cancels or
\* stops: the debouncer owes the last change it has received, and it is the
\* one that is pending (watch.go:486-509).
THEOREM NewestKept == DebSpec => []NewestIsKept
<1>1. DebInv /\ [DebNext]_debVars => DebInv'
  BY DebReceived, DebRuns, DebCloses, DebOthers DEF DebNext
<1>2. DebInv => NewestIsKept
  BY DEF DebInv
<1> QED  BY <1>1, <1>2, DebInitInv, PTL DEF DebSpec

\* A change never stays pending without a timer that will put it out
\* (watch.go:498-503).
THEOREM TimerNeverForgotten == DebSpec => []TimerRuns
<1>1. DebInv /\ [DebNext]_debVars => DebInv'
  BY DebReceived, DebRuns, DebCloses, DebOthers DEF DebNext
<1>2. DebInv => TimerRuns
  BY DEF DebInv
<1> QED  BY <1>1, <1>2, DebInitInv, PTL DEF DebSpec

-----------------------------------------------------------------------------
(* OnceWithErr.                                                            *)

\* c is between lock and unlock of the mutex, since the last Reset.
InFunction(c) == do[c] \in {"run", "ran", "stored"} /\ began[c] = Period

\* Once more than the functions of before that have unlocked it, the mutex
\* is taken to begin a function: it is free again only with the flag set.
BegunOnce == begun <= crossed + (IF held \/ finished THEN 1 ELSE 0)

\* Two functions of one period, or one without the mutex, need a function of
\* before that has unlocked the mutex of this period.
MutexGoesOnce ==
    /\ \A c \in Dos : InFunction(c) /\ ~held => crossed > 0
    /\ \A c, d \in Dos : InFunction(c) /\ InFunction(d) /\ c # d => crossed > 0
    /\ crashed => crossed > 0

\* The flag is set by the functions, and stays until a Reset.
FlagOfPeriod ==
    /\ \A c \in Dos : InFunction(c) /\ do[c] = "stored" => finished
    /\ finished => lastEnd = Period

InOrder ==
    /\ lastEnd <= Period
    /\ \A c \in Dos : began[c] <= Period /\ called[c] <= Period
    /\ \A c \in Dos : do[c] \in {"stored", "read", "done"} => lastEnd >= called[c]

OnceInv == OnceTypeOK /\ BegunOnce /\ MutexGoesOnce /\ FlagOfPeriod /\ InOrder

LEMMA OnceInitInv == OnceInit => OnceInv
<1> SUFFICES ASSUME OnceInit PROVE OnceInv
  OBVIOUS
<1>1. OnceTypeOK
  <2>1. finished \in BOOLEAN /\ held \in BOOLEAN /\ crashed \in BOOLEAN
    BY DEF OnceInit
  <2>2. /\ do \in [Dos -> {"idle", "lock", "run", "ran", "stored", "read", "done"}]
        /\ got \in [Dos -> Errs \cup {"none"}]
    BY DEF OnceInit
  <2>3. called \in [Dos -> Nat] /\ began \in [Dos -> Nat]
    BY DEF OnceInit
  <2>4. /\ resetsDone \in Nat /\ clearing \in Nat /\ err \in Errs
        /\ begun \in Nat /\ crossed \in Nat /\ lastEnd \in Nat
    BY DEF OnceInit
  <2> QED  BY <2>1, <2>2, <2>3, <2>4 DEF OnceTypeOK
<1>2. BegunOnce /\ MutexGoesOnce /\ FlagOfPeriod /\ InOrder
  BY DEF OnceInit, BegunOnce, MutexGoesOnce, FlagOfPeriod, InOrder, InFunction, Period
<1> QED  BY <1>1, <1>2 DEF OnceInv

\* A call that finds the flag, or returns, leaves what the functions do.
LEMMA OnceCalls ==
  ASSUME OnceInv, NEW c \in Dos, Do(c) \/ DoReturn(c) \/ (DoLock(c) /\ finished)
  PROVE  OnceInv'
<1> USE DEF OnceInv, onceHistory, Period
<1>1. /\ do' = [do EXCEPT ![c] = do'[c]]
      /\ do[c] \in {"idle", "lock", "read"} /\ do'[c] \in {"lock", "read", "done"}
      /\ called' = [called EXCEPT ![c] = called'[c]]
      /\ called'[c] \in Nat /\ called'[c] <= Period
      /\ do'[c] \in {"read", "done"} => lastEnd >= called'[c]
      /\ UNCHANGED <<finished, held, err, crashed, resetsDone, clearing>>
      /\ UNCHANGED <<began, begun, crossed, lastEnd>>
  BY DEF Do, DoReturn, DoLock, OnceTypeOK, InOrder, FlagOfPeriod
<1>2. got' \in [Dos -> Errs \cup {"none"}]
  BY DEF Do, DoReturn, DoLock, OnceTypeOK
<1>3. \A d \in Dos : InFunction(d)' => InFunction(d) /\ do'[d] = do[d]
  BY <1>1 DEF InFunction, OnceTypeOK
<1>4. OnceTypeOK'
  BY <1>1, <1>2 DEF OnceTypeOK
<1>5. BegunOnce' /\ MutexGoesOnce'
  BY <1>1, <1>3 DEF BegunOnce, MutexGoesOnce
<1>6. FlagOfPeriod' /\ InOrder'
  BY <1>1, <1>3 DEF FlagOfPeriod, InOrder, OnceTypeOK
<1> QED  BY <1>4, <1>5, <1>6

\* The mutex is free and the flag is not set: whoever is in a function of
\* this period has lost the mutex to one of before.
LEMMA OnceBegins ==
  ASSUME OnceInv, NEW c \in Dos, DoLock(c), ~finished
  PROVE  OnceInv'
<1> USE DEF OnceInv, Period
<1>1. /\ ~held /\ do[c] = "lock" /\ do' = [do EXCEPT ![c] = "run"] /\ held' = TRUE
      /\ began' = [began EXCEPT ![c] = Period] /\ begun' = begun + 1
      /\ UNCHANGED <<finished, err, got, crashed, resetsDone, clearing>>
      /\ UNCHANGED <<called, crossed, lastEnd>>
  BY DEF DoLock
<1>2. \A d \in Dos : d # c => (InFunction(d)' <=> InFunction(d)) /\ do'[d] = do[d]
  BY <1>1 DEF InFunction, OnceTypeOK
<1>3. OnceTypeOK'
  BY <1>1 DEF OnceTypeOK
<1>4. BegunOnce'
  BY <1>1 DEF BegunOnce, OnceTypeOK
<1>5. MutexGoesOnce'
  BY <1>1, <1>2 DEF MutexGoesOnce
<1>6. FlagOfPeriod'
  BY <1>1, <1>2 DEF FlagOfPeriod, InFunction, OnceTypeOK
<1>7. InOrder'
  BY <1>1 DEF InOrder, OnceTypeOK
<1> QED  BY <1>3, <1>4, <1>5, <1>6, <1>7

\* The function runs, and sets the flag of the period it ends in.
LEMMA OnceRuns ==
  ASSUME OnceInv, NEW c \in Dos, DoRun(c) \/ DoStore(c)
  PROVE  OnceInv'
<1> USE DEF OnceInv, onceHistory, Period
<1>1. /\ do' = [do EXCEPT ![c] = do'[c]] /\ do[c] \in {"run", "ran"} /\ err' \in Errs
      /\ do'[c] \in {"ran", "stored"}
      /\ UNCHANGED <<held, got, crashed, resetsDone, clearing>>
      /\ UNCHANGED <<called, began, begun, crossed>>
  BY DEF DoRun, DoStore, OnceTypeOK
<1>2. \/ do'[c] = "ran" /\ finished' = finished /\ lastEnd' = lastEnd
      \/ do'[c] = "stored" /\ finished' = TRUE /\ lastEnd' = Period
  BY DEF DoRun, DoStore, OnceTypeOK
<1>3. \A d \in Dos : (InFunction(d)' <=> InFunction(d)) /\ (d # c => do'[d] = do[d])
  BY <1>1 DEF InFunction, OnceTypeOK
<1>4. OnceTypeOK'
  <2>1. finished' \in BOOLEAN /\ held' \in BOOLEAN /\ crashed' \in BOOLEAN
    BY Zenon, <1>1, <1>2 DEF OnceTypeOK
  <2>2. lastEnd' \in Nat
    BY <1>2 DEF OnceTypeOK
  <2> QED  BY <1>1, <2>1, <2>2 DEF OnceTypeOK
<1>5. BegunOnce' /\ MutexGoesOnce'
  BY <1>1, <1>2, <1>3 DEF BegunOnce, MutexGoesOnce, OnceTypeOK
<1>6. FlagOfPeriod'
  BY <1>1, <1>2, <1>3 DEF FlagOfPeriod, OnceTypeOK
<1>7. InOrder'
  BY <1>1, <1>2, <1>3 DEF InOrder, OnceTypeOK
<1> QED  BY <1>4, <1>5, <1>6, <1>7

\* A function of before unlocks a mutex that may not be its own; one of this
\* period leaves the flag set.
LEMMA OnceUnlocks ==
  ASSUME OnceInv, NEW c \in Dos, DoUnlock(c)
  PROVE  OnceInv'
<1> USE DEF OnceInv, Period
<1>1. /\ do[c] = "stored" /\ do' = [do EXCEPT ![c] = "read"]
      /\ held' = FALSE /\ crashed' = ~held
      /\ crossed' = IF began[c] = Period THEN crossed ELSE crossed + 1
      /\ UNCHANGED <<finished, err, got, resetsDone, clearing>>
      /\ UNCHANGED <<called, began, begun, lastEnd>>
  BY DEF DoUnlock
<1>2. \A d \in Dos : /\ InFunction(d)' => InFunction(d) /\ d # c
                     /\ d # c => do'[d] = do[d]
  BY <1>1 DEF InFunction, OnceTypeOK
<1>3. OnceTypeOK'
  <2>1. crashed' \in BOOLEAN /\ held' \in BOOLEAN /\ finished' \in BOOLEAN
    BY Zenon, <1>1 DEF OnceTypeOK
  <2>2. crossed' \in Nat
    BY <1>1 DEF OnceTypeOK
  <2> QED  BY <1>1, <2>1, <2>2 DEF OnceTypeOK
<1>4. CASE began[c] = Period
  <2>1. InFunction(c) /\ finished /\ crossed' = crossed
    BY <1>1, <1>4 DEF InFunction, FlagOfPeriod
  <2>2. BegunOnce' /\ MutexGoesOnce'
    BY <1>1, <1>2, <2>1 DEF BegunOnce, MutexGoesOnce
  <2>3. FlagOfPeriod' /\ InOrder'
    BY <1>1, <1>2, <2>1 DEF FlagOfPeriod, InOrder, OnceTypeOK
  <2> QED  BY <1>3, <2>2, <2>3
<1>5. CASE began[c] # Period
  <2>1. crossed' = crossed + 1
    BY <1>1, <1>5
  <2>2. BegunOnce' /\ MutexGoesOnce'
    BY <1>1, <1>2, <2>1 DEF BegunOnce, MutexGoesOnce, OnceTypeOK
  <2>3. FlagOfPeriod' /\ InOrder'
    BY <1>1, <1>2 DEF FlagOfPeriod, InOrder, OnceTypeOK
  <2> QED  BY <1>3, <2>2, <2>3
<1> QED  BY <1>4, <1>5

\* After a Reset every function is of before.
LEMMA OnceResets ==
  ASSUME OnceInv, ~crashed, ResetOnce \/ ResetErr
  PROVE  OnceInv'
<1> USE DEF OnceInv, Period
<1>1. CASE ResetOnce
  <2>1. /\ finished' = FALSE /\ held' = FALSE /\ resetsDone' = resetsDone + 1
        /\ clearing' = clearing + 1 /\ begun' = 0 /\ crossed' = 0
        /\ UNCHANGED <<err, do, got, crashed, called, began, lastEnd>>
    BY <1>1 DEF ResetOnce
  <2>2. OnceTypeOK'
    <3>1. finished' \in BOOLEAN /\ held' \in BOOLEAN /\ crashed' \in BOOLEAN
      BY Zenon, <2>1 DEF OnceTypeOK
    <3> QED  BY <2>1, <3>1 DEF OnceTypeOK
  <2>3. \A c \in Dos : ~InFunction(c)'
    <3> SUFFICES ASSUME NEW c \in Dos PROVE began'[c] # resetsDone' + 1
      BY DEF InFunction
    <3>1. began[c] <= resetsDone + 1 /\ began[c] \in Nat /\ resetsDone \in Nat
      BY DEF InOrder, OnceTypeOK
    <3> QED  BY <2>1, <3>1
  <2>4. BegunOnce' /\ FlagOfPeriod'
    BY <2>1, <2>3 DEF BegunOnce, FlagOfPeriod
  <2>5. MutexGoesOnce'
    BY <2>1, <2>3 DEF MutexGoesOnce
  <2>6. InOrder'
    BY <2>1 DEF InOrder, OnceTypeOK
  <2> QED  BY <2>2, <2>4, <2>5, <2>6
<1>2. CASE ResetErr
  <2>1. /\ clearing' \in Nat /\ err' \in Errs
        /\ UNCHANGED <<finished, held, do, got, crashed, resetsDone>>
        /\ UNCHANGED <<called, began, begun, crossed, lastEnd>>
    BY <1>2 DEF ResetErr, OnceTypeOK, onceHistory
  <2>2. \A c \in Dos : InFunction(c)' <=> InFunction(c)
    BY <2>1 DEF InFunction
  <2> QED
    BY <2>1, <2>2 DEF OnceTypeOK, BegunOnce, MutexGoesOnce, FlagOfPeriod, InOrder
<1> QED  BY <1>1, <1>2

\* For any number of calls of Do and of Reset, in any order: what a Reset
\* during a call of Do can do is that the function of that call unlocks the
\* mutex of another, so that one more is begun; without it the function is
\* begun once between two Resets, and nothing crashes (syncutil.go:17-30).
THEOREM RunsOnce == OnceSpec => []OnceBetweenResets
<1>1. OnceInv /\ [OnceNext]_onceVars => OnceInv'
  <2> SUFFICES ASSUME OnceInv, [OnceNext]_onceVars PROVE OnceInv'
    OBVIOUS
  <2>1. CASE UNCHANGED onceVars
    BY <2>1 DEF onceVars, onceHistory, OnceInv, OnceTypeOK, BegunOnce, MutexGoesOnce,
                FlagOfPeriod, InOrder, InFunction, Period
  <2>2. CASE OnceNext
    <3>1. CASE ResetOnce \/ ResetErr
      BY <2>2, <3>1, OnceResets DEF OnceNext
    <3>2. ASSUME NEW c \in Dos, DoStep(c) PROVE OnceInv'
      BY <3>2, OnceCalls, OnceBegins, OnceRuns, OnceUnlocks DEF DoStep
    <3> QED  BY <2>2, <3>1, <3>2 DEF OnceNext
  <2> QED  BY <2>1, <2>2
<1>2. OnceInv => OnceBetweenResets
  BY DEF OnceInv, OnceBetweenResets, BegunOnce, MutexGoesOnce, InOrder, OnceTypeOK
<1> QED  BY <1>1, <1>2, OnceInitInv, PTL DEF OnceSpec

-----------------------------------------------------------------------------
(* LazyLoader.                                                             *)

\* The first load, and what the others wait for.
FirstLoad ==
    /\ \A c \in LazyLoads :
          /\ lazy[c] \in {"idle", "load", "store", "check", "done", "err"}
          /\ lazy[c] \in {"load", "store"} => once = "running" /\ first = {c}
          /\ lazy[c] \in {"check", "done", "err"} => once = "done"
          /\ lazy[c] \in {"idle", "load"} => fetched[c] = 0
    /\ once = "new" => first = {}
    /\ \A c, d \in first : c = d
    /\ once # "done" => ~loadErr /\ ~undone
    /\ once = "done" /\ ~loadErr => lazyData # 0

\* Whoever reloads has the lock, and reads what nobody stores before it.
Reloading ==
    /\ newest # 0 /\ lazyData <= newest
    /\ \A c \in Reloads :
          /\ lazy[c] \in {"idle", "reload", "restore", "done", "err"}
          /\ lazy[c] \in {"reload", "restore"} <=> mutex = {c}
          /\ lazy[c] = "restore" => lazyData <= fetched[c]
    /\ \A c, d \in mutex : c = d
    /\ \A c \in Callers : /\ fetched[c] <= newest
                          /\ lazy[c] \in {"store", "restore"} => fetched[c] # 0

LazyInv == LazyTypeOK /\ FirstLoad /\ Reloading /\ LazyIsCurrent

LEMMA LazyInitInv == LazyInit => LazyInv
<1> SUFFICES ASSUME LazyInit PROVE LazyInv
  OBVIOUS
<1>1. LazyTypeOK
  <2>1. loaded \in BOOLEAN /\ loadErr \in BOOLEAN /\ undone \in BOOLEAN
    BY DEF LazyInit
  <2>2. /\ lazy \in [Callers -> {"idle", "load", "store", "check", "reload", "restore", "done", "err"}]
        /\ fetched \in [Callers -> Nat] /\ answer \in [LazyLoads -> Nat]
    BY DEF LazyInit
  <2> QED  BY <2>1, <2>2 DEF LazyInit, LazyTypeOK
<1>2. FirstLoad
  BY DEF LazyInit, FirstLoad
<1>3. Reloading
  BY DEF LazyInit, Reloading
<1>4. LazyIsCurrent
  BY DEF LazyInit, LazyIsCurrent
<1> QED  BY <1>1, <1>2, <1>3, <1>4 DEF LazyInv

\* The steps of the first load.
LEMMA LazyLoadSteps ==
  ASSUME LazyInv, NEW c \in LazyLoads, LazyOnce(c) \/ LazyReads(c) \/ LazyReturns(c)
  PROVE  LazyInv'
<1> USE DEF LazyInv, LazyTypeOK, FirstLoad, Reloading, LazyIsCurrent
<1>1. CASE LazyOnce(c)
  <2>1. CASE once = "new"
    <3>1. /\ once' = "running" /\ first' = {c} /\ lazy' = [lazy EXCEPT ![c] = "load"]
          /\ lazy[c] = "idle"
          /\ UNCHANGED <<newest, lazyData, loaded, loadErr, mutex, fetched, answer, undone>>
      BY <1>1, <2>1 DEF LazyOnce
    <3>2. LazyTypeOK'
      BY <3>1
    <3>3. FirstLoad'
      BY <2>1, <3>1
    <3>4. Reloading' /\ LazyIsCurrent'
      BY <2>1, <3>1
    <3> QED  BY <3>2, <3>3, <3>4
  <2>2. CASE once = "done"
    <3>1. /\ lazy' = [lazy EXCEPT ![c] = "check"] /\ lazy[c] = "idle"
          /\ UNCHANGED <<newest, lazyData, loaded, loadErr, once, mutex, fetched, answer,
                         first, undone>>
      BY <1>1, <2>2 DEF LazyOnce
    <3>2. LazyTypeOK'
      BY <3>1
    <3>3. FirstLoad'
      BY <2>2, <3>1
    <3>4. Reloading' /\ LazyIsCurrent'
      BY <2>2, <3>1
    <3> QED  BY <3>2, <3>3, <3>4
  <2> QED  BY <1>1, <2>1, <2>2 DEF LazyOnce
<1>2. CASE LazyReads(c)
  <2>1. /\ lazy[c] = "load" /\ lazy' = [lazy EXCEPT ![c] = "store"]
        /\ fetched' = [fetched EXCEPT ![c] = newest]
        /\ UNCHANGED <<newest, lazyData, loaded, loadErr, once, mutex, answer, first, undone>>
    BY <1>2 DEF LazyReads
  <2>2. LazyTypeOK'
    BY <2>1
  <2>3. FirstLoad'
    BY <2>1
  <2>4. Reloading' /\ LazyIsCurrent'
    BY <2>1
  <2> QED  BY <2>2, <2>3, <2>4
<1>3. CASE LazyReturns(c)
  <2>1. /\ lazy[c] = "check"
        /\ UNCHANGED <<newest, lazyData, loaded, loadErr, once, mutex, fetched, first, undone>>
        /\ \/ loadErr /\ lazy' = [lazy EXCEPT ![c] = "err"] /\ answer' = answer
           \/ /\ ~loadErr /\ lazy' = [lazy EXCEPT ![c] = "done"]
              /\ answer' = [answer EXCEPT ![c] = lazyData]
    BY <1>3 DEF LazyReturns
  <2>2. LazyTypeOK'
    BY <2>1
  <2>3. FirstLoad'
    BY <2>1
  <2>4. Reloading' /\ LazyIsCurrent'
    BY <2>1
  <2> QED  BY <2>2, <2>3, <2>4
<1> QED  BY <1>1, <1>2, <1>3

\* The first load ends: everybody else is idle or reloads, and only a Reload
\* that has finished can be undone.
LEMMA LazyFirstEnds ==
  ASSUME LazyInv, NEW c \in LazyLoads, LazyFails(c) \/ LazyStores(c)
  PROVE  LazyInv'
<1> USE DEF LazyInv, LazyTypeOK, FirstLoad, Reloading, LazyIsCurrent
<1>1. CASE LazyFails(c)
  <2>1. /\ lazy[c] = "load" /\ loadErr' = TRUE /\ once' = "done"
        /\ lazy' = [lazy EXCEPT ![c] = "check"]
        /\ UNCHANGED <<newest, lazyData, loaded, mutex, fetched, answer, first, undone>>
    BY <1>1 DEF LazyFails
  <2>2. LazyTypeOK'
    BY <2>1
  <2>3. FirstLoad'
    BY <2>1
  <2>4. Reloading' /\ LazyIsCurrent'
    BY <2>1
  <2> QED  BY <2>2, <2>3, <2>4
<1>2. CASE LazyStores(c)
  <2>1. /\ lazy[c] = "store" /\ mutex = {} /\ lazyData' = fetched[c] /\ loaded' = TRUE
        /\ once' = "done" /\ undone' = (fetched[c] < lazyData)
        /\ lazy' = [lazy EXCEPT ![c] = "check"]
        /\ UNCHANGED <<newest, loadErr, mutex, fetched, answer, first>>
    BY <1>2 DEF LazyStores
  <2>2. LazyTypeOK'
    <3>1. undone' \in BOOLEAN /\ loaded' \in BOOLEAN
      BY <2>1
    <3> QED  BY <2>1, <3>1
  <2>3. FirstLoad'
    BY <2>1
  <2>4. Reloading'
    BY <2>1
  <2>5. LazyIsCurrent'
    <3>1. ASSUME ~undone', NEW d \in Callers, d \in Reloads \cup first', lazy'[d] \in {"check", "done"}
          PROVE  fetched[d] <= fetched[c]
      <4>1. lazyData <= fetched[c] /\ ~undone
        <5>1. ~(fetched[c] < lazyData)
          BY Zenon, <2>1, <3>1
        <5>2. fetched[c] \in Nat /\ lazyData \in Nat /\ once = "running"
          BY <2>1
        <5> QED  BY <5>1, <5>2
      <4>2. CASE d = c
        BY <4>2
      <4>3. CASE d # c
        <5>1. fetched[d] <= lazyData
          BY <2>1, <3>1, <4>1, <4>3
        <5> QED  BY <4>1, <5>1
      <4> QED  BY <4>2, <4>3
    <3>2. \A d \in LazyLoads : lazy'[d] # "done"
      BY <2>1
    <3> QED  BY <2>1, <3>1, <3>2
  <2> QED  BY <2>2, <2>3, <2>4, <2>5
<1> QED  BY <1>1, <1>2

\* Reload holds the lock from its start to its end.
LEMMA ReloadSteps ==
  ASSUME LazyInv, NEW c \in Reloads,
         ReloadLocks(c) \/ ReloadReads(c) \/ ReloadFails(c) \/ ReloadStores(c)
  PROVE  LazyInv'
<1> USE DEF LazyInv, LazyTypeOK, FirstLoad, Reloading, LazyIsCurrent
<1>1. CASE ReloadLocks(c)
  <2>1. LazyTypeOK' /\ FirstLoad'
    BY <1>1 DEF ReloadLocks
  <2>2. Reloading' /\ LazyIsCurrent'
    BY <1>1 DEF ReloadLocks
  <2> QED  BY <2>1, <2>2
<1>2. CASE ReloadReads(c)
  <2>1. LazyTypeOK' /\ FirstLoad'
    BY <1>2 DEF ReloadReads
  <2>2. Reloading' /\ LazyIsCurrent'
    BY <1>2 DEF ReloadReads
  <2> QED  BY <2>1, <2>2
<1>3. CASE ReloadFails(c)
  <2>1. LazyTypeOK' /\ FirstLoad'
    BY <1>3 DEF ReloadFails
  <2>2. Reloading' /\ LazyIsCurrent'
    BY <1>3 DEF ReloadFails
  <2> QED  BY <2>1, <2>2
<1>4. CASE ReloadStores(c)
  <2>1. LazyTypeOK' /\ FirstLoad'
    BY <1>4 DEF ReloadStores
  <2>2. Reloading' /\ LazyIsCurrent'
    BY <1>4 DEF ReloadStores
  <2> QED  BY <2>1, <2>2
<1> QED  BY <1>1, <1>2, <1>3, <1>4

LEMMA LazyStepInv == LazyInv /\ [LazyNext]_lazyVars => LazyInv'
<1> SUFFICES ASSUME LazyInv, [LazyNext]_lazyVars PROVE LazyInv'
  OBVIOUS
<1>1. CASE SourcesChange
  BY <1>1 DEF SourcesChange, LazyInv, LazyTypeOK, FirstLoad, Reloading, LazyIsCurrent
<1>2. CASE UNCHANGED lazyVars
  BY <1>2 DEF lazyVars, LazyInv, LazyTypeOK, FirstLoad, Reloading, LazyIsCurrent
<1> QED  BY <1>1, <1>2, LazyLoadSteps, LazyFirstEnds, ReloadSteps DEF LazyNext

\* For any number of calls of Load and Reload and any changes of the sources:
\* what Load returns, and the newest that any of them has stored, is not
\* replaced by anything older, but for the one Reload that the first load
\* may undo (loader.go:187-240).
THEOREM LazyStaysCurrent == LazySpec => []LazyIsCurrent
<1>1. LazyInv => LazyIsCurrent
  BY DEF LazyInv
<1> QED  BY <1>1, LazyInitInv, LazyStepInv, PTL DEF LazySpec

-----------------------------------------------------------------------------
(* Barrier.                                                                *)

Closing(p) == wait[p] \in {"close", "renew", "reset"}

Resetting == \E p \in Parties : Closing(p)

\* One goroutine resets the barrier at a time, and meanwhile nobody else is
\* the last one.
OneResets ==
    /\ \A p, q \in Parties : Closing(p) /\ Closing(q) => p = q
    /\ IF Resetting THEN count >= N ELSE Parties = {} \/ count < N

\* The channels before the current one are closed, each once.
Closed ==
    /\ \A n \in Nat : n \in opened <=>
          n # 0 /\ (n < ch \/ (n = ch /\ \E p \in Parties : wait[p] = "renew"))
    /\ \A p \in Parties : wait[p] = "reset" => ch > 1
    /\ ~twice

CallsCounted ==
    \A p \in Parties :
        IF wait[p] = "idle" THEN passed[p] = arrived[p] ELSE arrived[p] = passed[p] + 1

At(round, n) == {p \in Parties : round[p] = n}

\* Between two resets the goroutines are in the round of the current channel,
\* or have not begun it.
Gathering ==
    \A p \in Parties :
        \/ arrived[p] = ch /\ wait[p] \in {"read", "blocked"}
        \/ arrived[p] = ch - 1

\* During a reset they are all in the same round.
Turning ==
    \A p, q \in Parties :
        Closing(q) => arrived[p] = IF wait[q] = "reset" THEN ch - 1 ELSE ch

InRounds ==
    /\ IF Resetting THEN Turning ELSE Gathering /\ count = Cardinality(At(arrived, ch))
    /\ \A p \in Parties : wait[p] = "blocked" => seen[p] = arrived[p]

FirstRound ==
    /\ opened = {} /\ ~Resetting => ~late
    /\ (opened # {} \/ Resetting) => \A p \in Parties : arrived[p] # 0
    /\ opened = {} => \A p \in Parties : passed[p] = 0

BarrierInv ==
    BarrierTypeOK /\ OneResets /\ Closed /\ CallsCounted /\ FirstRound /\ (~late => InRounds)

LEMMA AtCount ==
  ASSUME NEW round, NEW n
  PROVE  /\ IsFiniteSet(At(round, n)) /\ Cardinality(At(round, n)) \in Nat /\ N \in Nat
         /\ Cardinality(At(round, n)) = N => At(round, n) = Parties
<1>1. At(round, n) \subseteq Parties
  BY DEF At
<1> QED  BY <1>1, FS_Subset, FS_CardinalityType DEF N

\* One more is in a round.
LEMMA AtArrives ==
  ASSUME NEW round \in [Parties -> Nat], NEW p \in Parties, NEW n \in Nat, round[p] # n
  PROVE  Cardinality(At([round EXCEPT ![p] = n], n)) = Cardinality(At(round, n)) + 1
<1>1. At([round EXCEPT ![p] = n], n) = At(round, n) \cup {p} /\ p \notin At(round, n)
  BY DEF At
<1> QED  BY <1>1, AtCount, FS_AddElement

LEMMA BarrierInitInv == BarrierInit => BarrierInv
<1> SUFFICES ASSUME BarrierInit PROVE BarrierInv
  OBVIOUS
<1>1. BarrierTypeOK
  <2>1. late \in BOOLEAN /\ twice \in BOOLEAN
    BY DEF BarrierInit
  <2> QED  BY <2>1 DEF BarrierInit, BarrierTypeOK
<1>2. ~Resetting /\ \A p \in Parties : wait[p] = "idle" /\ arrived[p] = 0 /\ passed[p] = 0
  BY DEF BarrierInit, Resetting, Closing
<1>3. OneResets
  <2>1. Parties = {} \/ 0 < N
    BY FS_EmptySet, FS_CardinalityType DEF N
  <2> QED  BY <1>2, <2>1 DEF BarrierInit, OneResets, Closing
<1>4. Closed
  BY <1>2 DEF BarrierInit, Closed
<1>5. CallsCounted /\ FirstRound
  BY <1>2 DEF BarrierInit, CallsCounted, FirstRound
<1>6. InRounds
  <2>1. At(arrived, ch) = {}
    BY <1>2 DEF BarrierInit, At
  <2>2. count = Cardinality(At(arrived, ch))
    BY <2>1, FS_EmptySet DEF BarrierInit
  <2> QED  BY <1>2, <2>2 DEF BarrierInit, InRounds, Gathering
<1> QED  BY <1>1, <1>3, <1>4, <1>5, <1>6 DEF BarrierInv

\* Somebody comes, and may be the last one.
LEMMA BarrierArrive ==
  ASSUME BarrierInv, NEW p \in Parties, Arrive(p)
  PROVE  BarrierInv'
<1>1. BarrierTypeOK /\ OneResets /\ Closed /\ CallsCounted /\ FirstRound /\ (~late => InRounds)
  BY DEF BarrierInv
<1>2. /\ wait[p] = "idle" /\ count' = count + 1
      /\ wait' = [wait EXCEPT ![p] = IF count + 1 = N THEN "close" ELSE "read"]
      /\ arrived' = [arrived EXCEPT ![p] = arrived[p] + 1]
      /\ UNCHANGED <<ch, opened, seen, passed, twice>>
  BY DEF Arrive
<1>3. late' <=> late \/ count >= N
  BY DEF Arrive
<1>4. BarrierTypeOK'
  <2>1. late' \in BOOLEAN
    BY DEF Arrive
  <2> QED  BY <1>1, <1>2, <2>1 DEF BarrierTypeOK
<1>5. /\ count \in Nat /\ ch \in Nat \ {0} /\ arrived \in [Parties -> Nat]
      /\ wait \in [Parties -> {"idle", "read", "blocked", "close", "renew", "reset"}]
      /\ passed \in [Parties -> Nat] /\ N \in Nat
  BY <1>1, AtCount DEF BarrierTypeOK
<1>6. /\ \A q \in Parties \ {p} : wait'[q] = wait[q] /\ arrived'[q] = arrived[q]
      /\ wait'[p] \in {"close", "read"} /\ arrived'[p] = arrived[p] + 1
      /\ wait'[p] = "close" <=> count + 1 = N
  BY <1>2, <1>5
<1>7. Closed'
  BY <1>1, <1>2, <1>6 DEF Closed
<1>8. CallsCounted'
  BY <1>1, <1>2, <1>5, <1>6 DEF CallsCounted
<1>9. CASE Resetting
  <2>1. count >= N /\ wait'[p] = "read" /\ late'
    BY <1>1, <1>3, <1>5, <1>6, <1>9 DEF OneResets
  <2>2. Resetting' /\ \A q \in Parties : Closing(q)' <=> Closing(q)
    BY <1>2, <1>6, <1>9, <2>1 DEF Resetting, Closing
  <2>3. OneResets'
    BY <1>1, <1>2, <1>5, <2>1, <2>2 DEF OneResets
  <2>4. FirstRound'
    BY <1>1, <1>2, <1>5, <1>6, <1>9, <2>2 DEF FirstRound
  <2> QED  BY <1>4, <1>7, <1>8, <2>1, <2>3, <2>4 DEF BarrierInv
<1>10. CASE ~Resetting
  <2>1. count < N /\ (late' <=> late)
    BY <1>1, <1>3, <1>5, <1>10 DEF OneResets
  <2>2. \A q \in Parties : Closing(q)' <=> q = p /\ count + 1 = N
    BY <1>2, <1>6, <1>10 DEF Resetting, Closing
  <2>3. Resetting' <=> count + 1 = N
    BY <2>2 DEF Resetting
  <2>4. OneResets'
    BY <1>2, <1>5, <2>1, <2>2, <2>3 DEF OneResets
  \* In this case p begins the round of the current channel.
  <2>5. ASSUME ~late
        PROVE  /\ arrived[p] = ch - 1
               /\ Cardinality(At(arrived', ch)) = count + 1
               /\ Gathering
               /\ count + 1 = N => \A q \in Parties : arrived'[q] = ch
    <3>1. InRounds /\ Gathering /\ count = Cardinality(At(arrived, ch))
      BY <1>1, <1>10, <2>5 DEF InRounds
    <3>2. arrived[p] = ch - 1
      BY <1>2, <3>1 DEF Gathering
    <3>3. arrived' = [arrived EXCEPT ![p] = ch] /\ arrived[p] # ch
      BY <1>2, <1>5, <3>2
    <3>4. Cardinality(At(arrived', ch)) = count + 1
      BY <1>5, <3>1, <3>3, AtArrives
    <3>5. ASSUME count + 1 = N PROVE \A q \in Parties : arrived'[q] = ch
      <4>1. At(arrived', ch) = Parties
        BY <3>4, <3>5, AtCount
      <4> QED  BY <4>1 DEF At
    <3> QED  BY <3>1, <3>2, <3>4, <3>5
  <2>6. FirstRound'
    <3>1. opened' = {} /\ ~Resetting' => ~late'
      BY <1>1, <1>2, <1>10, <2>1 DEF FirstRound
    <3>2. ASSUME opened' # {} \/ Resetting', NEW q \in Parties PROVE arrived'[q] # 0
      <4>1. CASE opened # {}
        BY <1>1, <1>5, <1>6, <4>1 DEF FirstRound
      <4>2. CASE opened = {}
        BY <1>1, <1>2, <1>5, <1>10, <2>3, <2>5, <3>2, <4>2 DEF FirstRound
      <4> QED  BY <4>1, <4>2
    <3> QED  BY <1>1, <1>2, <3>1, <3>2 DEF FirstRound
  <2>7. ASSUME ~late' PROVE InRounds'
    <3>1. InRounds /\ Gathering /\ arrived'[p] = ch
      BY <1>1, <1>5, <1>6, <2>1, <2>5, <2>7
    <3>2. \A q \in Parties : wait'[q] = "blocked" => seen'[q] = arrived'[q]
      BY <1>2, <1>6, <3>1 DEF InRounds
    <3>3. CASE count + 1 = N
      BY <1>2, <1>6, <2>1, <2>2, <2>3, <2>5, <2>7, <3>2, <3>3 DEF InRounds, Turning
    <3>4. CASE count + 1 # N
      <4>1. Gathering'
        BY <1>2, <1>6, <3>1, <3>4 DEF Gathering
      <4> QED  BY <1>2, <2>1, <2>3, <2>5, <2>7, <3>2, <3>4, <4>1 DEF InRounds
    <3> QED  BY <3>3, <3>4
  <2> QED  BY <1>4, <1>7, <1>8, <2>4, <2>6, <2>7 DEF BarrierInv
<1> QED  BY <1>9, <1>10

\* Somebody takes the channel, or passes: who resets the barrier does not
\* change.
LEMMA BarrierRead ==
  ASSUME BarrierInv, NEW p \in Parties, ReadChannel(p)
  PROVE  BarrierInv'
<1>1. BarrierTypeOK /\ OneResets /\ Closed /\ CallsCounted /\ FirstRound /\ (~late => InRounds)
  BY DEF BarrierInv
<1>2. /\ wait[p] = "read" /\ wait' = [wait EXCEPT ![p] = "blocked"]
      /\ seen' = [seen EXCEPT ![p] = ch]
      /\ UNCHANGED <<count, ch, opened, arrived, passed, twice>>
  BY DEF ReadChannel
<1>3. late' <=> late \/ ch # arrived[p]
  BY DEF ReadChannel
<1>4. BarrierTypeOK'
  <2>1. late' \in BOOLEAN
    BY DEF ReadChannel
  <2> QED  BY <1>1, <1>2, <2>1 DEF BarrierTypeOK
<1>5. /\ ch \in Nat \ {0} /\ arrived \in [Parties -> Nat] /\ seen \in [Parties -> Nat]
      /\ wait \in [Parties -> {"idle", "read", "blocked", "close", "renew", "reset"}]
      /\ passed \in [Parties -> Nat]
  BY <1>1 DEF BarrierTypeOK
<1>6. /\ \A q \in Parties \ {p} : wait'[q] = wait[q] /\ seen'[q] = seen[q]
      /\ wait'[p] = "blocked" /\ seen'[p] = ch
  BY <1>2, <1>5
<1>7. (Resetting' <=> Resetting) /\ \A q \in Parties : Closing(q)' <=> Closing(q)
  BY <1>2, <1>6 DEF Resetting, Closing
<1>8. OneResets' /\ Closed' /\ CallsCounted'
  BY <1>1, <1>2, <1>6, <1>7 DEF OneResets, Closed, CallsCounted
<1>9. FirstRound'
  <2>1. ASSUME opened = {}, ~Resetting PROVE ch = arrived[p]
    <3>1. InRounds /\ Gathering
      BY <1>1, <2>1 DEF FirstRound, InRounds
    <3>2. ch = 1
      <4>1. ch = 1 \/ (1 \in opened)
        BY <1>1, <1>5 DEF Closed
      <4> QED  BY <2>1, <4>1
    <3>3. arrived[p] = passed[p] + 1
      BY <1>1, <1>2 DEF CallsCounted
    <3> QED  BY <1>5, <3>1, <3>2, <3>3 DEF Gathering
  <2> QED  BY <1>1, <1>2, <1>3, <1>7, <2>1 DEF FirstRound
<1>10. ASSUME ~late' PROVE InRounds'
  <2>1. InRounds /\ ch = arrived[p]
    BY <1>1, <1>3, <1>10
  <2>2. \A q \in Parties : wait'[q] = "blocked" => seen'[q] = arrived'[q]
    BY <1>2, <1>6, <2>1 DEF InRounds
  <2>3. CASE Resetting
    <3>1. Turning'
      BY <1>2, <1>6, <1>7, <2>1, <2>3 DEF InRounds, Turning, Closing
    <3> QED  BY <1>7, <2>2, <2>3, <3>1 DEF InRounds
  <2>4. CASE ~Resetting
    <3>1. Gathering'
      BY <1>2, <1>6, <2>1, <2>4 DEF InRounds, Gathering
    <3> QED  BY <1>2, <1>7, <2>1, <2>2, <2>4, <3>1 DEF InRounds
  <2> QED  BY <2>3, <2>4
<1> QED  BY <1>4, <1>8, <1>9, <1>10 DEF BarrierInv

LEMMA BarrierReleased ==
  ASSUME BarrierInv, NEW p \in Parties, Released(p)
  PROVE  BarrierInv'
<1>1. BarrierTypeOK /\ OneResets /\ Closed /\ CallsCounted /\ FirstRound /\ (~late => InRounds)
  BY DEF BarrierInv
<1>2. /\ wait[p] = "blocked" /\ wait' = [wait EXCEPT ![p] = "idle"] /\ seen[p] \in opened
      /\ passed' = [passed EXCEPT ![p] = passed[p] + 1]
      /\ UNCHANGED <<count, ch, opened, seen, arrived, late, twice>>
  BY DEF Released, Return
<1>3. /\ ch \in Nat \ {0} /\ arrived \in [Parties -> Nat] /\ seen \in [Parties -> Nat]
      /\ wait \in [Parties -> {"idle", "read", "blocked", "close", "renew", "reset"}]
      /\ passed \in [Parties -> Nat]
  BY <1>1 DEF BarrierTypeOK
<1>4. BarrierTypeOK'
  BY <1>1, <1>2 DEF BarrierTypeOK
<1>5. /\ \A q \in Parties \ {p} : wait'[q] = wait[q] /\ passed'[q] = passed[q]
      /\ wait'[p] = "idle" /\ passed'[p] = passed[p] + 1
  BY <1>2, <1>3
<1>6. (Resetting' <=> Resetting) /\ \A q \in Parties : Closing(q)' <=> Closing(q)
  BY <1>2, <1>5 DEF Resetting, Closing
<1>7. OneResets' /\ Closed'
  BY <1>1, <1>2, <1>5, <1>6 DEF OneResets, Closed
<1>8. CallsCounted'
  BY <1>1, <1>2, <1>3, <1>5 DEF CallsCounted
<1>9. FirstRound'
  BY <1>1, <1>2, <1>6 DEF FirstRound
<1>10. ASSUME ~late' PROVE InRounds'
  <2>1. InRounds /\ seen[p] = arrived[p]
    BY <1>1, <1>2, <1>10 DEF InRounds
  <2>2. \A q \in Parties : wait'[q] = "blocked" => seen'[q] = arrived'[q]
    BY <1>2, <1>5, <2>1 DEF InRounds
  <2>3. CASE Resetting
    <3>1. Turning'
      BY <1>2, <1>5, <1>6, <2>1, <2>3 DEF InRounds, Turning, Closing
    <3> QED  BY <1>6, <2>2, <2>3, <3>1 DEF InRounds
  <2>4. CASE ~Resetting
    <3>1. arrived[p] < ch
      <4>1. \A q \in Parties : wait[q] # "renew"
        BY <2>4 DEF Resetting, Closing
      <4> QED  BY <1>1, <1>2, <1>3, <2>1, <4>1 DEF Closed
    <3>2. Gathering'
      BY <1>2, <1>3, <1>5, <2>1, <2>4, <3>1 DEF InRounds, Gathering
    <3> QED  BY <1>2, <1>6, <2>1, <2>2, <2>4, <3>2 DEF InRounds
  <2> QED  BY <2>3, <2>4
<1> QED  BY <1>4, <1>7, <1>8, <1>9, <1>10 DEF BarrierInv

\* The last one closes the channel of the round, which nobody has closed ...
LEMMA BarrierClose ==
  ASSUME BarrierInv, NEW p \in Parties, Close(p)
  PROVE  BarrierInv'
<1>1. BarrierTypeOK /\ OneResets /\ Closed /\ CallsCounted /\ FirstRound /\ (~late => InRounds)
  BY DEF BarrierInv
<1>2. /\ wait[p] = "close" /\ wait' = [wait EXCEPT ![p] = "renew"] /\ opened' = opened \cup {ch}
      /\ UNCHANGED <<count, ch, seen, arrived, passed, late>>
  BY DEF Close
<1>3. /\ ch \in Nat \ {0} /\ opened \subseteq Nat
      /\ wait \in [Parties -> {"idle", "read", "blocked", "close", "renew", "reset"}]
  BY <1>1 DEF BarrierTypeOK
<1>4. Closing(p) /\ Resetting /\ \A q \in Parties : q # p => ~Closing(q)
  BY <1>1, <1>2 DEF OneResets, Resetting, Closing
<1>5. ch \notin opened
  <2>1. \A q \in Parties : wait[q] # "renew"
    BY <1>2, <1>4 DEF Closing
  <2> QED  BY <1>1, <1>3, <2>1 DEF Closed
<1>6. ~twice' /\ twice' \in BOOLEAN
  BY <1>1, <1>5 DEF Close, Closed
<1>7. \A q \in Parties \ {p} : wait'[q] = wait[q]
  BY <1>2, <1>3
<1>8. wait'[p] = "renew"
  BY <1>2, <1>3
<1>9. Resetting' /\ \A q \in Parties : Closing(q)' <=> Closing(q)
  BY <1>2, <1>4, <1>7, <1>8 DEF Resetting, Closing
<1>10. BarrierTypeOK'
  BY <1>1, <1>2, <1>6 DEF BarrierTypeOK
<1>11. OneResets' /\ CallsCounted'
  BY <1>1, <1>2, <1>4, <1>7, <1>8, <1>9 DEF OneResets, CallsCounted
<1>12. Closed'
  <2>1. \A q \in Parties : wait[q] # "renew"
    BY <1>2, <1>4 DEF Closing
  <2> QED  BY <1>1, <1>2, <1>3, <1>6, <1>8, <2>1 DEF Closed
<1>13. FirstRound'
  <2>1. \A q \in Parties : passed[q] = 0 \/ opened # {}
    BY <1>1 DEF FirstRound
  <2> QED  BY <1>1, <1>2, <1>4, <1>9, <2>1 DEF FirstRound
<1>14. ASSUME ~late' PROVE InRounds'
  <2>1. InRounds /\ \A q \in Parties : arrived[q] = ch
    BY <1>1, <1>2, <1>4, <1>14 DEF InRounds, Turning
  <2> QED  BY <1>2, <1>4, <1>7, <1>8, <1>9, <2>1 DEF InRounds, Turning, Closing
<1> QED  BY <1>10, <1>11, <1>12, <1>13, <1>14 DEF BarrierInv

\* ... makes the channel of the next one ...
LEMMA BarrierRenew ==
  ASSUME BarrierInv, NEW p \in Parties, Renew(p)
  PROVE  BarrierInv'
<1>1. BarrierTypeOK /\ OneResets /\ Closed /\ CallsCounted /\ FirstRound /\ (~late => InRounds)
  BY DEF BarrierInv
<1>2. /\ wait[p] = "renew" /\ wait' = [wait EXCEPT ![p] = "reset"] /\ ch' = ch + 1
      /\ UNCHANGED <<count, opened, seen, arrived, passed, late, twice>>
  BY DEF Renew
<1>3. /\ ch \in Nat \ {0} /\ opened \subseteq Nat
      /\ wait \in [Parties -> {"idle", "read", "blocked", "close", "renew", "reset"}]
      /\ arrived \in [Parties -> Nat]
  BY <1>1 DEF BarrierTypeOK
<1>4. Closing(p) /\ Resetting /\ \A q \in Parties : q # p => ~Closing(q)
  BY <1>1, <1>2 DEF OneResets, Resetting, Closing
<1>5. \A q \in Parties \ {p} : wait'[q] = wait[q]
  BY <1>2, <1>3
<1>6. wait'[p] = "reset"
  BY <1>2, <1>3
<1>7. Resetting' /\ \A q \in Parties : Closing(q)' <=> Closing(q)
  BY <1>2, <1>4, <1>5, <1>6 DEF Resetting, Closing
<1>8. BarrierTypeOK'
  BY <1>1, <1>2, <1>3 DEF BarrierTypeOK
<1>9. OneResets' /\ CallsCounted'
  BY <1>1, <1>2, <1>4, <1>5, <1>6, <1>7 DEF OneResets, CallsCounted
<1>10. Closed'
  <2>1. \A q \in Parties : wait'[q] # "renew"
    BY <1>4, <1>5, <1>6 DEF Closing
  <2>2. \A n \in Nat : n < ch + 1 <=> n < ch \/ n = ch
    BY <1>3
  <2> QED  BY <1>1, <1>2, <1>3, <2>1, <2>2 DEF Closed
<1>11. FirstRound'
  BY <1>1, <1>2, <1>4, <1>7 DEF FirstRound
<1>12. ASSUME ~late' PROVE InRounds'
  <2>1. InRounds /\ \A q \in Parties : arrived[q] = ch
    BY <1>1, <1>2, <1>4, <1>12 DEF InRounds, Turning
  <2>2. \A q \in Parties : arrived'[q] = ch' - 1
    BY <1>2, <1>3, <2>1
  <2>3. Turning'
    BY <1>4, <1>6, <1>7, <2>2 DEF Turning
  <2> QED  BY <1>2, <1>5, <1>6, <1>7, <2>1, <2>3 DEF InRounds
<1> QED  BY <1>8, <1>9, <1>10, <1>11, <1>12 DEF BarrierInv

\* ... and starts to count again.
LEMMA BarrierReset ==
  ASSUME BarrierInv, NEW p \in Parties, Reset(p)
  PROVE  BarrierInv'
<1>1. BarrierTypeOK /\ OneResets /\ Closed /\ CallsCounted /\ FirstRound /\ (~late => InRounds)
  BY DEF BarrierInv
<1>2. /\ wait[p] = "reset" /\ wait' = [wait EXCEPT ![p] = "idle"] /\ count' = 0
      /\ passed' = [passed EXCEPT ![p] = passed[p] + 1]
      /\ UNCHANGED <<ch, opened, seen, arrived, late, twice>>
  BY DEF Reset, Return
<1>3. /\ ch \in Nat \ {0} /\ opened \subseteq Nat
      /\ wait \in [Parties -> {"idle", "read", "blocked", "close", "renew", "reset"}]
      /\ arrived \in [Parties -> Nat] /\ passed \in [Parties -> Nat]
  BY <1>1 DEF BarrierTypeOK
<1>4. Closing(p) /\ Resetting /\ \A q \in Parties : q # p => ~Closing(q)
  BY <1>1, <1>2 DEF OneResets, Resetting, Closing
<1>5. /\ \A q \in Parties \ {p} : wait'[q] = wait[q] /\ passed'[q] = passed[q]
      /\ wait'[p] = "idle" /\ passed'[p] = passed[p] + 1
  BY <1>2, <1>3
<1>6. ~Resetting' /\ \A q \in Parties : ~Closing(q)'
  BY <1>4, <1>5 DEF Resetting, Closing
<1>7. BarrierTypeOK'
  BY <1>1, <1>2 DEF BarrierTypeOK
<1>8. OneResets'
  <2>1. 0 < N
    BY FS_EmptySet, FS_CardinalityType DEF N
  <2> QED  BY <1>2, <1>6, <2>1 DEF OneResets
<1>9. CallsCounted'
  BY <1>1, <1>2, <1>3, <1>5 DEF CallsCounted
<1>10. Closed'
  <2>1. \A q \in Parties : wait[q] # "renew" /\ wait'[q] # "renew"
    BY <1>2, <1>4, <1>5 DEF Closing
  <2> QED  BY <1>1, <1>2, <2>1 DEF Closed
<1>11. FirstRound'
  <2>1. opened # {}
    <3>1. 1 \in opened
      BY <1>1, <1>2, <1>3 DEF Closed
    <3> QED  BY <3>1
  <2> QED  BY <1>1, <1>2, <1>6, <2>1 DEF FirstRound
<1>12. ASSUME ~late' PROVE InRounds'
  <2>1. InRounds /\ \A q \in Parties : arrived[q] = ch - 1
    BY <1>1, <1>2, <1>4, <1>12 DEF InRounds, Turning
  <2>2. At(arrived', ch') = {}
    BY <1>2, <1>3, <2>1 DEF At
  <2>3. count' = Cardinality(At(arrived', ch'))
    BY <1>2, <2>2, FS_EmptySet
  <2>4. Gathering'
    BY <1>2, <2>1 DEF Gathering
  <2> QED  BY <1>2, <1>5, <1>6, <2>1, <2>3, <2>4 DEF InRounds
<1> QED  BY <1>7, <1>8, <1>9, <1>10, <1>11, <1>12 DEF BarrierInv

\* For any number of goroutines and of rounds: no channel is closed twice, the
\* first calls of Wait return only when all have called, and so do the later
\* ones until somebody comes while the barrier is being reset
\* (syncutil.go:344-360).
THEOREM AllPassTogether == BarrierSpec => []PassesTogether
<1>1. BarrierInv /\ [BarrierNext]_barrierVars => BarrierInv'
  <2> SUFFICES ASSUME BarrierInv, [BarrierNext]_barrierVars PROVE BarrierInv'
    OBVIOUS
  <2>1. CASE UNCHANGED barrierVars
    BY <2>1 DEF barrierVars, BarrierInv, BarrierTypeOK, OneResets, Resetting, Closing, Closed,
                CallsCounted, FirstRound, InRounds, Turning, Gathering, At
  <2> QED
    BY <2>1, BarrierArrive, BarrierRead, BarrierReleased, BarrierClose, BarrierRenew, BarrierReset
    DEF BarrierNext, WaitStep
<1>2. BarrierInv => PassesTogether
  <2> SUFFICES ASSUME BarrierInv, NEW p \in Parties, NEW q \in Parties, passed[p] > arrived[q]
               PROVE  passed[p] > 1 /\ late
    BY DEF BarrierInv, Closed, PassesTogether
  <2>1. /\ arrived \in [Parties -> Nat] /\ passed \in [Parties -> Nat] /\ ch \in Nat \ {0}
        /\ CallsCounted /\ FirstRound /\ (~late => InRounds)
    BY DEF BarrierInv, BarrierTypeOK
  <2>2. arrived[q] # 0
    BY <2>1 DEF FirstRound
  <2>3. ASSUME ~late PROVE FALSE
    <3>1. arrived[p] >= passed[p] /\ (wait[p] # "idle" => arrived[p] = passed[p] + 1)
      BY <2>1 DEF CallsCounted
    <3>2. CASE Resetting
      <4>1. arrived[p] = arrived[q]
        BY <2>1, <2>3, <3>2 DEF InRounds, Turning, Resetting
      <4> QED  BY <2>1, <3>1, <4>1
    <3>3. CASE ~Resetting
      BY <2>1, <2>3, <3>1, <3>3 DEF InRounds, Gathering
    <3> QED  BY <3>2, <3>3
  <2> QED  BY <2>1, <2>2, <2>3
<1> QED  BY <1>1, <1>2, BarrierInitInv, PTL DEF BarrierSpec

-----------------------------------------------------------------------------
(* ContextMutex.                                                           *)

\* A helper that waits for the lock, or has it, works for a caller that waits
\* or has given up: GiveBack and Unlock cannot both unlock for one call.
HelperServes ==
    \A c \in Calls : helper[c] \in {"lock", "got"} => call[c] \in {"select", "err"}

MutexInv == MutexTypeOK /\ HelperServes /\ MutualExclusion

\* Initially nobody has the lock.
LEMMA MutexInitInv == MutexInit => MutexInv
  BY ContextMutexAssumption
  DEF MutexInit, MutexInv, MutexTypeOK, HelperServes, MutualExclusion

\* The steps that neither take nor return the lock.
LEMMA MutexQuietSteps ==
  ASSUME MutexInv, NEW c \in Calls,
         \/ LockCall(c) \/ TryLockFails(c) \/ LockContext(c)
         \/ Expire(c) \/ LockContextFails(c)
  PROVE  MutexInv'
<1> USE DEF MutexInv, MutexTypeOK, HelperServes, MutualExclusion
<1>1. CASE LockCall(c)
  BY <1>1 DEF LockCall
<1>2. CASE TryLockFails(c)
  BY <1>2 DEF TryLockFails
<1>3. CASE LockContext(c)
  BY <1>3 DEF LockContext
<1>4. CASE Expire(c)
  BY <1>4 DEF Expire
<1>5. CASE LockContextFails(c)
  BY <1>5 DEF LockContextFails
<1> QED BY <1>1, <1>2, <1>3, <1>4, <1>5

\* The steps in which the lock is taken: nobody had it before.
LEMMA MutexTakingSteps ==
  ASSUME MutexInv, NEW c \in Calls,
         Locked(c) \/ TryLock(c) \/ HelperLocks(c)
  PROVE  MutexInv'
<1> USE DEF MutexInv, MutexTypeOK, HelperServes, MutualExclusion
<1>0. /\ mu = Free /\ mu' = c /\ c # Free
      /\ \A d \in Calls : call[d] # "held" /\ helper[d] # "got"
  BY ContextMutexAssumption DEF Locked, TryLock, HelperLocks
<1>1. CASE Locked(c)
  BY <1>0, <1>1 DEF Locked
<1>2. CASE TryLock(c)
  BY <1>0, <1>2 DEF TryLock
<1>3. CASE HelperLocks(c)
  BY <1>0, <1>3 DEF HelperLocks
<1> QED BY <1>1, <1>2, <1>3

\* The steps in which it is returned, or handed over by a helper: the call
\* had it, and no other did.
LEMMA MutexReturningSteps ==
  ASSUME MutexInv, NEW c \in Calls,
         Unlock(c) \/ GiveBack(c) \/ LockContextGets(c)
  PROVE  MutexInv'
<1> USE DEF MutexInv, MutexTypeOK, HelperServes, MutualExclusion
<1>0. /\ mu = c /\ c # Free
      /\ \A d \in Calls : d # c => call[d] # "held" /\ helper[d] # "got"
  BY ContextMutexAssumption DEF Unlock, GiveBack, LockContextGets
<1>1. CASE Unlock(c)
  BY <1>0, <1>1, ContextMutexAssumption DEF Unlock
<1>2. CASE GiveBack(c)
  BY <1>0, <1>2, ContextMutexAssumption DEF GiveBack
<1>3. CASE LockContextGets(c)
  BY <1>0, <1>3 DEF LockContextGets
<1> QED BY <1>1, <1>2, <1>3

\* Every step keeps the invariant.
LEMMA MutexStepInv == MutexInv /\ [MutexNext]_mutexVars => MutexInv'
<1> SUFFICES ASSUME MutexInv, [MutexNext]_mutexVars
             PROVE  MutexInv'
  OBVIOUS
<1>1. CASE UNCHANGED mutexVars
  BY <1>1 DEF mutexVars, MutexInv, MutexTypeOK, HelperServes, MutualExclusion
<1>2. CASE MutexNext
  <2>1. PICK c \in Calls :
            \/ LockCall(c) \/ TryLock(c) \/ TryLockFails(c) \/ Unlock(c) \/ LockContext(c)
            \/ Expire(c) \/ LockStep(c)
    BY <1>2 DEF MutexNext
  <2> QED BY <2>1, MutexQuietSteps, MutexTakingSteps, MutexReturningSteps DEF LockStep
<1> QED BY <1>1, <1>2

\* The variables keep their types.
THEOREM MutexTypeCorrect == MutexSpec => []MutexTypeOK
<1>1. MutexInv => MutexTypeOK
  BY DEF MutexInv
<1> QED BY <1>1, MutexInitInv, MutexStepInv, PTL DEF MutexSpec

\* For any number of calls, of which any may be abandoned at any time, one
\* caller has the lock, and it is locked for whom it has been given to.
THEOREM MutualExclusionHolds == MutexSpec => []MutualExclusion
<1>1. MutexInv => MutualExclusion
  BY DEF MutexInv
<1> QED BY <1>1, MutexInitInv, MutexStepInv, PTL DEF MutexSpec

-----------------------------------------------------------------------------
(* SourceCache.                                                            *)

\* What a call has read is not older than what was asked for when it began;
\* nor than what has been asked for since, if it is not in flight.
ReadSound ==
    /\ asked <= version
    /\ \A c \in Loads :
          /\ floor[c] <= asked
          /\ load[c] = "store" => /\ data[c] >= floor[c]
                                  /\ data[c] >= asked \/ c \in inFlight

\* Neither is a cache that is fresh, unless a call in flight has filled it.
CacheSound ==
    fresh => \/ cache >= asked
             \/ \E d \in inFlight : load[d] = "done" /\ cache = data[d]

CacheInv == CacheTypeOK /\ ReadSound /\ CacheSound /\ InvalidateHolds

\* Before the first call nothing is cached and nothing was asked for.
LEMMA CacheInitInv == CacheInit => CacheInv
<1> SUFFICES ASSUME CacheInit PROVE CacheInv
  OBVIOUS
<1>1. CacheTypeOK
  BY DEF CacheInit, CacheTypeOK
<1>2. ReadSound /\ CacheSound /\ InvalidateHolds
  BY DEF CacheInit, ReadSound, CacheSound, InvalidateHolds
<1> QED  BY <1>1, <1>2 DEF CacheInv

\* The steps of the world outside: no call of Load moves.
LEMMA CacheOutsideSteps ==
  ASSUME CacheInv, SourceChanges \/ CacheExpires \/ Invalidate
  PROVE  CacheInv'
<1>1. CacheTypeOK /\ ReadSound /\ CacheSound /\ InvalidateHolds
  BY DEF CacheInv
<1>2. /\ UNCHANGED <<cache, load, data, floor, result>>
      /\ inFlight \subseteq inFlight' /\ inFlight' \subseteq Loads
  BY <1>1 DEF SourceChanges, CacheExpires, Invalidate, CacheTypeOK
<1>3. InvalidateHolds'
  BY <1>1, <1>2 DEF InvalidateHolds
<1>4. CASE SourceChanges
  <2>1. version' = version + 1 /\ UNCHANGED <<fresh, asked, inFlight>>
    BY <1>4 DEF SourceChanges
  <2> QED
    BY <1>1, <1>2, <1>3, <2>1 DEF CacheInv, CacheTypeOK, ReadSound, CacheSound
<1>5. CASE CacheExpires
  BY <1>1, <1>2, <1>3, <1>5 DEF CacheExpires, CacheInv, CacheTypeOK, ReadSound, CacheSound
<1>6. CASE Invalidate
  <2>1. /\ fresh' = FALSE /\ asked' = version /\ version' = version
        /\ inFlight' = inFlight \cup {c \in Loads : load[c] = "store" /\ data[c] < version}
    BY <1>6 DEF Invalidate
  <2>2. ReadSound'
    <3> SUFFICES ASSUME NEW c \in Loads
                 PROVE  /\ floor[c] <= version
                        /\ load[c] = "store" => /\ data[c] >= floor[c]
                                                /\ data[c] >= version \/ c \in inFlight'
      BY <1>1, <1>2, <2>1 DEF ReadSound, CacheTypeOK
    <3>1. floor[c] \in Nat /\ data[c] \in Nat /\ asked \in Nat /\ version \in Nat
      BY <1>1 DEF CacheTypeOK
    <3>2. floor[c] <= asked /\ asked <= version /\ (load[c] = "store" => data[c] >= floor[c])
      BY <1>1 DEF ReadSound
    <3> QED  BY <2>1, <3>1, <3>2
  <2>3. CacheTypeOK'
    BY <1>1, <1>2, <2>1 DEF CacheTypeOK
  <2> QED  BY <1>3, <2>1, <2>2, <2>3 DEF CacheInv, CacheSound
<1> QED  BY <1>4, <1>5, <1>6

\* A call begins, with what is cached or not.
LEMMA CacheBeginStep ==
  ASSUME CacheInv, NEW c \in Loads, LoadBegins(c)
  PROVE  CacheInv'
<1>1. CacheTypeOK /\ ReadSound /\ CacheSound /\ InvalidateHolds
  BY DEF CacheInv
<1>2. /\ load[c] = "idle" /\ floor' = [floor EXCEPT ![c] = asked]
      /\ UNCHANGED <<version, cache, fresh, data, asked, inFlight>>
  BY DEF LoadBegins
<1>3. \/ /\ fresh /\ load' = [load EXCEPT ![c] = "done"]
         /\ result' = [result EXCEPT ![c] = cache]
      \/ load' = [load EXCEPT ![c] = "fetch"] /\ UNCHANGED result
  BY DEF LoadBegins
<1>4. CacheTypeOK'
  BY <1>1, <1>2, <1>3 DEF CacheTypeOK
<1>5. /\ \A d \in Loads \ {c} : /\ load'[d] = load[d] /\ floor'[d] = floor[d]
                                /\ result'[d] = result[d]
      /\ floor'[c] = asked /\ load'[c] # "store"
      /\ load'[c] = "done" => fresh /\ result'[c] = cache
  BY <1>1, <1>2, <1>3 DEF CacheTypeOK
<1>6. \A d \in inFlight : load[d] = "done" =>
            d \in inFlight' /\ load'[d] = "done" /\ data'[d] = data[d]
  BY <1>1, <1>2, <1>5 DEF CacheTypeOK
<1>7. ReadSound'
  BY <1>1, <1>2, <1>5 DEF ReadSound, CacheTypeOK
<1>8. CacheSound'
  BY <1>1, <1>2, <1>6 DEF CacheSound
<1>9. InvalidateHolds'
  <2> SUFFICES ASSUME NEW d \in Loads, load'[d] = "done"
               PROVE  \/ result'[d] >= floor'[d]
                      \/ \E e \in inFlight' : load'[e] = "done" /\ result'[d] = data'[e]
    BY DEF InvalidateHolds
  <2>1. CASE d = c
    BY <1>1, <1>5, <1>6, <2>1 DEF CacheSound
  <2>2. CASE d # c
    <3>1. \/ result[d] >= floor[d]
         \/ \E e \in inFlight : load[e] = "done" /\ result[d] = data[e]
      BY <1>1, <1>5, <2>2 DEF InvalidateHolds
    <3> QED  BY <1>5, <1>6, <2>2, <3>1
  <2> QED  BY <2>1, <2>2
<1> QED  BY <1>4, <1>7, <1>8, <1>9 DEF CacheInv

\* A call reads the source, or cannot.
LEMMA CacheReadSteps ==
  ASSUME CacheInv, NEW c \in Loads, LoadReads(c) \/ LoadFails(c)
  PROVE  CacheInv'
<1>1. CacheTypeOK /\ ReadSound /\ CacheSound /\ InvalidateHolds
  BY DEF CacheInv
<1>2. /\ load[c] = "fetch"
      /\ UNCHANGED <<version, cache, fresh, floor, asked, inFlight, result>>
  BY DEF LoadReads, LoadFails
<1>3. \/ load' = [load EXCEPT ![c] = "store"] /\ data' = [data EXCEPT ![c] = version]
      \/ load' = [load EXCEPT ![c] = "err"] /\ UNCHANGED data
  BY DEF LoadReads, LoadFails
<1>4. CacheTypeOK'
  BY <1>1, <1>2, <1>3 DEF CacheTypeOK
<1>5. /\ \A d \in Loads \ {c} : load'[d] = load[d] /\ data'[d] = data[d]
      /\ load'[c] # "done" /\ (load'[c] = "store" => data'[c] = version)
  BY <1>1, <1>2, <1>3 DEF CacheTypeOK
<1>6. \A d \in inFlight : load[d] = "done" =>
            d \in inFlight' /\ load'[d] = "done" /\ data'[d] = data[d]
  BY <1>1, <1>2, <1>5 DEF CacheTypeOK
<1>7. ReadSound'
  <2>1. floor[c] <= asked /\ asked <= version /\ floor[c] \in Nat /\ asked \in Nat
        /\ version \in Nat
    BY <1>1 DEF ReadSound, CacheTypeOK
  <2>2. version >= floor[c] /\ version >= asked
    BY <2>1
  <2> QED  BY <1>1, <1>2, <1>5, <2>2 DEF ReadSound
<1>8. CacheSound'
  BY <1>1, <1>2, <1>6 DEF CacheSound
<1>9. InvalidateHolds'
  <2> SUFFICES ASSUME NEW d \in Loads, load'[d] = "done"
               PROVE  \/ result'[d] >= floor'[d]
                      \/ \E e \in inFlight' : load'[e] = "done" /\ result'[d] = data'[e]
    BY DEF InvalidateHolds
  <2>1. load[d] = "done"
    BY <1>5
  <2>2. \/ result[d] >= floor[d]
         \/ \E e \in inFlight : load[e] = "done" /\ result[d] = data[e]
    BY <1>1, <2>1 DEF InvalidateHolds
  <2> QED  BY <1>2, <1>6, <2>2
<1> QED  BY <1>4, <1>7, <1>8, <1>9 DEF CacheInv

\* A call stores what it has read, and returns it.
LEMMA CacheStoreStep ==
  ASSUME CacheInv, NEW c \in Loads, LoadStores(c)
  PROVE  CacheInv'
<1>1. CacheTypeOK /\ ReadSound /\ CacheSound /\ InvalidateHolds
  BY DEF CacheInv
<1>2. /\ load[c] = "store" /\ cache' = data[c] /\ fresh' = TRUE
      /\ load' = [load EXCEPT ![c] = "done"] /\ result' = [result EXCEPT ![c] = data[c]]
      /\ UNCHANGED <<version, data, floor, asked, inFlight>>
  BY DEF LoadStores
<1>3. CacheTypeOK'
  BY <1>1, <1>2 DEF CacheTypeOK
<1>4. /\ \A d \in Loads \ {c} : load'[d] = load[d] /\ result'[d] = result[d]
      /\ load'[c] = "done" /\ result'[c] = data[c]
  BY <1>1, <1>2 DEF CacheTypeOK
<1>5. \A d \in inFlight : load[d] = "done" =>
            d \in inFlight' /\ load'[d] = "done" /\ data'[d] = data[d]
  BY <1>1, <1>2, <1>4 DEF CacheTypeOK
<1>6. data[c] >= floor[c] /\ (data[c] >= asked \/ c \in inFlight)
  BY <1>1, <1>2 DEF ReadSound
<1>7. ReadSound'
  BY <1>1, <1>2, <1>4 DEF ReadSound
<1>8. CacheSound'
  BY <1>2, <1>4, <1>6 DEF CacheSound
<1>9. InvalidateHolds'
  <2> SUFFICES ASSUME NEW d \in Loads, load'[d] = "done"
               PROVE  \/ result'[d] >= floor'[d]
                      \/ \E e \in inFlight' : load'[e] = "done" /\ result'[d] = data'[e]
    BY DEF InvalidateHolds
  <2>1. CASE d = c
    BY <1>2, <1>4, <1>6, <2>1
  <2>2. CASE d # c
    <3>1. \/ result[d] >= floor[d]
         \/ \E e \in inFlight : load[e] = "done" /\ result[d] = data[e]
      BY <1>1, <1>4, <2>2 DEF InvalidateHolds
    <3> QED  BY <1>2, <1>4, <1>5, <2>2, <3>1
  <2> QED  BY <2>1, <2>2
<1> QED  BY <1>3, <1>7, <1>8, <1>9 DEF CacheInv

\* Every step keeps the invariant.
LEMMA CacheStepInv == CacheInv /\ [CacheNext]_cacheVars => CacheInv'
<1> SUFFICES ASSUME CacheInv, [CacheNext]_cacheVars  PROVE CacheInv'
  OBVIOUS
<1>1. CASE UNCHANGED cacheVars
  BY <1>1 DEF cacheVars, CacheInv, CacheTypeOK, ReadSound, CacheSound, InvalidateHolds
<1> QED  BY <1>1, CacheOutsideSteps, CacheBeginStep, CacheReadSteps, CacheStoreStep DEF CacheNext

\* The variables keep their types.
THEOREM CacheTypeCorrect == CacheSpec => []CacheTypeOK
<1>1. CacheInv => CacheTypeOK
  BY DEF CacheInv
<1> QED  BY <1>1, CacheInitInv, CacheStepInv, PTL DEF CacheSpec

\* For any number of calls of Load: one that begins after Invalidate returns
\* nothing older than the source was then, unless a call in flight has filled
\* the cache again with what it had read before (loader.go:403-437,
\* source.go:411-466).
THEOREM InvalidationHolds == CacheSpec => []InvalidateHolds
<1>1. CacheInv => InvalidateHolds
  BY DEF CacheInv
<1> QED  BY <1>1, CacheInitInv, CacheStepInv, PTL DEF CacheSpec

-----------------------------------------------------------------------------
(* Side by side.                                                           *)

\* The parts share nothing: side by side each one does what it does alone, so
\* that what is proved of them alone holds in Helpers.
THEOREM EachOnItsOwn ==
  FairSpec => /\ DebSpec /\ MutexSpec /\ BarrierSpec
              /\ OnceSpec /\ CacheSpec /\ LazySpec
<1>1. Init => /\ DebInit /\ MutexInit /\ BarrierInit
              /\ OnceInit /\ CacheInit /\ LazyInit
  BY DEF Init
<1>2. [Next]_vars => /\ [DebNext]_debVars /\ [MutexNext]_mutexVars /\ [BarrierNext]_barrierVars
                     /\ [OnceNext]_onceVars /\ [CacheNext]_cacheVars /\ [LazyNext]_lazyVars
  BY DEF Next, vars, DebouncerStep, MutexStep, BarrierStep, OnceStep, CacheStep, LazyStep
<1> QED
  BY <1>1, <1>2, PTL
     DEF FairSpec, DebSpec, MutexSpec, BarrierSpec, OnceSpec, CacheSpec, LazySpec

=============================================================================
