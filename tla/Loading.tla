------------------------------ MODULE Loading ------------------------------
(***************************************************************************)
(* The loaders of the package loader, source.MultiSource, and the merge    *)
(* strategies of the package merge: several sources are loaded, one after  *)
(* the other or each in a goroutine, and what they hold is merged.         *)
(*                                                                         *)
(* A value is known by the source it comes from and by its priority; a     *)
(* source is known by its place in the list of the loader.                 *)
(***************************************************************************)
EXTENDS Naturals, Sequences

CONSTANTS
    Keys,
    Priorities,
    MaxSources \* bound: sources of the loader

ASSUME LoadingAssumption == Priorities \subseteq Nat /\ MaxSources \in Nat \ {0}

VARIABLES
    strategy,     \* what is used to load
    holds,    \* what each source holds: the priorities of its values
    sources,  \* number of sources added so far
    phase,    \* progress of the Load looked at
    taken,    \* number of sources in its copy of the list
    next,     \* the source it loads next
    worker,   \* the goroutines of ConcurrentLoader
    results,  \* the channel they send to: the source, and if it failed
    received, \* number of results received
    merged    \* the map built so far

loadVars == <<strategy, holds, sources, phase, taken, next, worker, results, received, merged>>

\* merge-first and merge-last stand for a caller that loads each source and
\* gives the maps to merge.Merger.
Strategies == {"priority", "chained", "concurrent", "merge-first", "merge-last"}

Contents == UNION {[S -> Priorities] : S \in SUBSET Keys}

LoadingTypeOK ==
    /\ strategy \in Strategies /\ holds \in [1..MaxSources -> Contents]
    /\ sources \in 1..MaxSources /\ taken \in 0..MaxSources /\ next \in 0..MaxSources + 1
    /\ phase \in {"idle", "load", "collect", "done", "err"}
    /\ worker \in [1..MaxSources -> {"none", "load", "ok", "failed", "sent", "gave up"}]
    /\ results \in Seq([source : 1..MaxSources, failed : BOOLEAN]) /\ received \in Nat
    /\ DOMAIN merged \subseteq Keys

Values(s) == [k \in DOMAIN holds[s] |-> [source |-> s, priority |-> holds[s][k]]]

-----------------------------------------------------------------------------
(* Merging a map into the one built so far.                                *)

\* Mutant: an equal priority outranks.
OutranksOrEquals(v, w) == v.priority >= w.priority

Outranks(v, w) == v.priority > w.priority

MergePriority(old, new) ==
    [k \in DOMAIN old \cup DOMAIN new |->
        IF k \notin DOMAIN old \/ (k \in DOMAIN new /\ Outranks(new[k], old[k]))
        THEN new[k] ELSE old[k]]

MergeFirst(old, new) ==
    [k \in DOMAIN old \cup DOMAIN new |-> IF k \in DOMAIN old THEN old[k] ELSE new[k]]

MergeLast(old, new) == MergeFirst(new, old)

Merge(old, new) ==
    CASE strategy \in {"priority", "concurrent"}  -> MergePriority(old, new)
      [] strategy = "merge-first"                 -> MergeFirst(old, new)
      [] strategy \in {"chained", "merge-last"}   -> MergeLast(old, new)

\* What the loop of Resolver.resolve holds after each value.
BestSoFar(values) ==
    LET best[i \in DOMAIN values] ==
            IF i = 1 THEN values[1]
            ELSE IF values[i].priority > best[i - 1].priority THEN values[i] ELSE best[i - 1]
    IN  best

\* Resolver.Record: the value chosen among those of one key.
Resolve(values) ==
    CASE strategy \in {"priority", "concurrent"} -> BestSoFar(values)[Len(values)]
      [] strategy = "merge-first"                -> values[1]
      [] strategy \in {"chained", "merge-last"}  -> values[Len(values)]

-----------------------------------------------------------------------------

LoadOf(k, contents) ==
    /\ strategy = k /\ holds = contents
    /\ sources = 1 /\ phase = "idle" /\ taken = 0 /\ next = 0
    /\ worker = [s \in 1..MaxSources |-> "none"]
    /\ results = <<>> /\ received = 0 /\ merged = <<>>

LoadInit == \E k \in Strategies, contents \in [1..MaxSources -> Contents] : LoadOf(k, contents)

Add ==
    /\ sources < MaxSources
    /\ sources' = sources + 1
    /\ UNCHANGED <<strategy, holds, phase, taken, next, worker, results, received, merged>>

\* Load copies the list of the sources.
Begin ==
    /\ phase = "idle"
    /\ taken' = sources /\ next' = 1
    /\ phase' = IF strategy = "concurrent" THEN "collect" ELSE "load"
    /\ worker' = IF strategy = "concurrent"
                    THEN [s \in 1..MaxSources |-> IF s <= sources THEN "load" ELSE "none"]
                    ELSE worker
    /\ UNCHANGED <<strategy, holds, sources, results, received, merged>>

\* Loader, ChainedLoader, MultiSource: the next source is loaded and merged.
LoadNext ==
    /\ phase = "load" /\ next <= taken
    /\ merged' = Merge(merged, Values(next))
    /\ next' = next + 1
    /\ UNCHANGED <<strategy, holds, sources, phase, taken, worker, results, received>>

NextFails ==
    /\ phase = "load" /\ next <= taken
    /\ phase' = "err"
    /\ UNCHANGED <<strategy, holds, sources, taken, next, worker, results, received, merged>>

LoadEnds ==
    /\ phase = "load" /\ next > taken
    /\ phase' = "done"
    /\ UNCHANGED <<strategy, holds, sources, taken, next, worker, results, received, merged>>

-----------------------------------------------------------------------------
(* ConcurrentLoader.                                                       *)

\* Mutant: a channel with room for one result.
ResultsRoomOne == 1

ResultsRoom == taken

\* The goroutine of source s: Load has returned.
Loaded(s) ==
    /\ worker[s] = "load"
    /\ \E w \in {"ok", "failed"} : worker' = [worker EXCEPT ![s] = w]
    /\ UNCHANGED <<strategy, holds, sources, phase, taken, next, results, received, merged>>

Send(s) ==
    /\ worker[s] \in {"ok", "failed"} /\ Len(results) < ResultsRoom
    /\ results' = Append(results, [source |-> s, failed |-> worker[s] = "failed"])
    /\ worker' = [worker EXCEPT ![s] = IF @ = "ok" THEN "sent" ELSE "gave up"]
    /\ UNCHANGED <<strategy, holds, sources, phase, taken, next, received, merged>>

Collect ==
    /\ phase = "collect" /\ received < taken /\ results # <<>>
    /\ IF Head(results).failed
          THEN phase' = "err" /\ UNCHANGED <<received, merged>>
          ELSE /\ merged' = Merge(merged, Values(Head(results).source))
               /\ received' = received + 1
               /\ UNCHANGED phase
    /\ results' = Tail(results)
    /\ UNCHANGED <<strategy, holds, sources, taken, next, worker>>

\* The context of the call has been cancelled.
CollectCancelled ==
    /\ phase = "collect" /\ received < taken
    /\ phase' = "err"
    /\ UNCHANGED <<strategy, holds, sources, taken, next, worker, results, received, merged>>

CollectEnds ==
    /\ phase = "collect" /\ received = taken
    /\ phase' = "done"
    /\ UNCHANGED <<strategy, holds, sources, taken, next, worker, results, received, merged>>

LoadingNext ==
    \/ Add \/ Begin \/ LoadNext \/ NextFails \/ LoadEnds
    \/ Collect \/ CollectCancelled \/ CollectEnds
    \/ \E s \in 1..MaxSources : Loaded(s) \/ Send(s)

LoadingSpec == LoadInit /\ [][LoadingNext]_loadVars

-----------------------------------------------------------------------------

\* The sources that hold key k.
Holders(k) == {s \in 1..taken : k \in DOMAIN holds[s]}

Best(k) == {s \in Holders(k) : \A o \in Holders(k) : holds[s][k] >= holds[o][k]}

First(S) == {s \in S : \A o \in S : s <= o}

Latest(S) == {s \in S : \A o \in S : s >= o}

Winners(k) ==
    CASE strategy = "priority"                  -> First(Best(k))
      [] strategy = "concurrent"                -> Best(k)
      [] strategy = "merge-first"               -> First(Holders(k))
      [] strategy \in {"chained", "merge-last"} -> Latest(Holders(k))

AllMerged ==
    /\ DOMAIN merged = UNION {DOMAIN holds[s] : s \in 1..taken}
    /\ \A k \in DOMAIN merged : \E s \in Winners(k) : merged[k] = Values(s)[k]

\* S in the order of the list of the sources.
Listings(S) ==
    {list \in UNION {[1..n -> S] : n \in 0..taken} :
        /\ \A s \in S : \E i \in DOMAIN list : list[i] = s
        /\ \A i, j \in DOMAIN list : i < j => list[i] < list[j]}

ValuesOf(k) ==
    LET list == CHOOSE list \in Listings(Holders(k)) : TRUE
    IN  [i \in DOMAIN list |-> Values(list[i])[k]]

ResolverAgrees ==
    \A k \in DOMAIN merged :
        \/ Resolve(ValuesOf(k)) = merged[k]
        \/ strategy = "concurrent" /\ \E s, o \in Best(k) : s # o

\* A Load that succeeds has every key of every source it took, with the
\* value of the source that wins by the strategy: the first of those with
\* the highest priority, or, when they are loaded concurrently, any of them;
\* the first, or the last, in the list.  A Resolver, given the values in the
\* order of the list, picks the same value, unless chance has picked it
\* (loader.go:46-58, 303-316, 360-370, merge.go:52-113, 284-310).
LoadIsPriority == phase = "done" => AllMerged /\ ResolverAgrees

\* A failed source fails the Load, and the goroutines that are still loading
\* when it has returned find room for what they send (loader.go:291-317).
WorkersFinish ==
    /\ phase = "done" => \A s \in 1..taken : strategy = "concurrent" => worker[s] = "sent"
    /\ \A s \in 1..MaxSources : worker[s] \in {"ok", "failed"} => Len(results) < ResultsRoom

=============================================================================
