------------------------------ MODULE Barrier ------------------------------
(***************************************************************************)
(* syncutil.Barrier (internal/syncutil/syncutil.go) for the goroutines     *)
(* Parties.  A channel of Barrier.ch is known by its number.               *)
(***************************************************************************)
EXTENDS Naturals, FiniteSets

CONSTANTS
    Parties,
    MaxRounds  \* bound: calls of Wait by one goroutine

ASSUME BarrierAssumption == IsFiniteSet(Parties) /\ MaxRounds \in Nat

VARIABLES
    count,    \* Barrier.count
    ch,       \* the number of the channel Barrier.ch holds
    opened,   \* the channels that are closed
    wait,     \* progress of Wait, by goroutine
    seen,     \* the channel it waits on
    arrived,  \* history: calls of Wait begun
    passed,   \* history: calls of Wait that have returned
    late,     \* history: somebody came during a reset, or read the channel after it
    twice     \* history: a channel was closed twice

barrierVars == <<count, ch, opened, wait, seen, arrived, passed, late, twice>>

N == Cardinality(Parties)

BarrierTypeOK ==
    /\ count \in Nat /\ ch \in Nat \ {0} /\ opened \subseteq Nat
    /\ wait \in [Parties -> {"idle", "read", "blocked", "close", "renew", "reset"}]
    /\ seen \in [Parties -> Nat] /\ arrived \in [Parties -> Nat] /\ passed \in [Parties -> Nat]
    /\ late \in BOOLEAN /\ twice \in BOOLEAN

BarrierInit ==
    /\ count = 0 /\ ch = 1 /\ opened = {}
    /\ wait = [p \in Parties |-> "idle"] /\ seen = [p \in Parties |-> 0]
    /\ arrived = [p \in Parties |-> 0] /\ passed = [p \in Parties |-> 0]
    /\ late = FALSE /\ twice = FALSE

Return(p) == passed' = [passed EXCEPT ![p] = @ + 1] /\ wait' = [wait EXCEPT ![p] = "idle"]

\* Mutant: the last but one lets all pass.
ArriveEarly(p) ==
    /\ wait[p] = "idle" /\ arrived[p] < MaxRounds
    /\ count' = count + 1
    /\ wait' = [wait EXCEPT ![p] = IF count + 2 = N THEN "close" ELSE "read"]
    /\ arrived' = [arrived EXCEPT ![p] = @ + 1]
    /\ late' = (late \/ count >= N)
    /\ UNCHANGED <<ch, opened, seen, passed, twice>>

\* Mutant: nobody is the last.
ArriveNoLast(p) ==
    /\ wait[p] = "idle" /\ arrived[p] < MaxRounds
    /\ count' = count + 1
    /\ wait' = [wait EXCEPT ![p] = IF count + 1 > N THEN "close" ELSE "read"]
    /\ arrived' = [arrived EXCEPT ![p] = @ + 1]
    /\ late' = (late \/ count >= N)
    /\ UNCHANGED <<ch, opened, seen, passed, twice>>

Arrive(p) ==
    /\ wait[p] = "idle" /\ arrived[p] < MaxRounds
    /\ count' = count + 1
    /\ wait' = [wait EXCEPT ![p] = IF count + 1 = N THEN "close" ELSE "read"]
    /\ arrived' = [arrived EXCEPT ![p] = @ + 1]
    /\ late' = (late \/ count >= N)
    /\ UNCHANGED <<ch, opened, seen, passed, twice>>

\* Whoever is not the last reads Barrier.ch, without a lock, and waits on it.
ReadChannel(p) ==
    /\ wait[p] = "read"
    /\ seen' = [seen EXCEPT ![p] = ch]
    /\ late' = (late \/ ch # arrived[p])
    /\ wait' = [wait EXCEPT ![p] = "blocked"]
    /\ UNCHANGED <<count, ch, opened, arrived, passed, twice>>

Released(p) ==
    /\ wait[p] = "blocked" /\ seen[p] \in opened
    /\ Return(p)
    /\ UNCHANGED <<count, ch, opened, seen, arrived, late, twice>>

\* The last one closes the channel, makes another one, then resets the count.
Close(p) ==
    /\ wait[p] = "close"
    /\ opened' = opened \cup {ch}
    /\ twice' = (twice \/ ch \in opened)
    /\ wait' = [wait EXCEPT ![p] = "renew"]
    /\ UNCHANGED <<count, ch, seen, arrived, passed, late>>

Renew(p) ==
    /\ wait[p] = "renew"
    /\ ch' = ch + 1
    /\ wait' = [wait EXCEPT ![p] = "reset"]
    /\ UNCHANGED <<count, opened, seen, arrived, passed, late, twice>>

Reset(p) ==
    /\ wait[p] = "reset"
    /\ count' = 0
    /\ Return(p)
    /\ UNCHANGED <<ch, opened, seen, arrived, late, twice>>

WaitStep(p) == ReadChannel(p) \/ Released(p) \/ Close(p) \/ Renew(p) \/ Reset(p)

BarrierNext == \E p \in Parties : Arrive(p) \/ WaitStep(p)

BarrierSpec == BarrierInit /\ [][BarrierNext]_barrierVars

BarrierFairness == \A p \in Parties : WF_barrierVars(WaitStep(p))

-----------------------------------------------------------------------------
(* Properties.                                                             *)

\* The first call of Wait of a goroutine returns only when all have called it,
\* and no channel is ever closed twice.  For later calls this holds as long as
\* nobody comes while the last one is resetting the barrier: a goroutine that
\* calls Wait again that early passes alone
\* (syncutil.go:344-360).
PassesTogether ==
    /\ ~twice
    /\ \A p, q \in Parties :
          passed[p] > arrived[q] => passed[p] > 1 /\ late

\* When all have called Wait equally often, all calls return, unless somebody
\* came during a reset or read Barrier.ch after it: it then waits for a round
\* nobody else is in
\* (syncutil.go:348-359).
StuckOnlyFromLateRead ==
    \A k \in 1..MaxRounds :
        (\A p \in Parties : arrived[p] >= k) ~> ((\A p \in Parties : passed[p] >= k) \/ late)

=============================================================================
