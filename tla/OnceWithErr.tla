---------------------------- MODULE OnceWithErr ----------------------------
(***************************************************************************)
(* syncutil.OnceWithErr (internal/syncutil/syncutil.go): a sync.Once that  *)
(* keeps the error of the function and can be reset.  sync.Once is a flag, *)
(* and a mutex held from before the function runs until the flag is set;   *)
(* Reset overwrites both, whoever holds the mutex.                         *)
(*                                                                         *)
(* An element of Dos is one call of Do, of a function that succeeds or     *)
(* fails.                                                                  *)
(***************************************************************************)
EXTENDS Naturals, FiniteSets

CONSTANTS
    Dos,
    MaxResets  \* bound: calls of Reset

ASSUME OnceAssumption == IsFiniteSet(Dos) /\ MaxResets \in Nat

VARIABLES
    finished, \* the flag of sync.Once
    held,     \* its mutex is locked
    err,      \* OnceWithErr.err: "nil", or the error of a call
    do,       \* progress of Do
    got,      \* what Do has returned
    crashed,  \* a mutex that is not locked was unlocked: a fatal error
    resetsDone, \* calls of Reset so far
    clearing,   \* those that have still to clear the error
    \* history variables; a period is the time between two Resets
    called,   \* by call of Do, its period
    began,    \* by call of Do, the period in which its function began, 0 for none
    begun,    \* functions begun in this period
    crossed,  \* functions of earlier periods that unlocked the mutex in this one
    lastEnd   \* the last period in which a function set the flag, 0 for none

onceHistory == <<called, began, begun, crossed, lastEnd>>
onceVars == <<finished, held, err, do, got, crashed, resetsDone, clearing, onceHistory>>

Errs == {"nil", "error"}
Period == resetsDone + 1

OnceTypeOK ==
    /\ finished \in BOOLEAN /\ held \in BOOLEAN /\ err \in Errs
    /\ do \in [Dos -> {"idle", "lock", "run", "ran", "stored", "read", "done"}]
    /\ got \in [Dos -> Errs \cup {"none"}]
    /\ crashed \in BOOLEAN /\ resetsDone \in Nat /\ clearing \in Nat
    /\ called \in [Dos -> Nat] /\ began \in [Dos -> Nat]
    /\ begun \in Nat /\ crossed \in Nat /\ lastEnd \in Nat

OnceInit ==
    /\ finished = FALSE /\ held = FALSE /\ err = "nil"
    /\ do = [c \in Dos |-> "idle"] /\ got = [c \in Dos |-> "none"]
    /\ crashed = FALSE /\ resetsDone = 0 /\ clearing = 0
    /\ called = [c \in Dos |-> 0] /\ began = [c \in Dos |-> 0]
    /\ begun = 0 /\ crossed = 0 /\ lastEnd = 0

Do(c) ==
    /\ do[c] = "idle"
    /\ do' = [do EXCEPT ![c] = IF finished THEN "read" ELSE "lock"]
    /\ called' = [called EXCEPT ![c] = Period]
    /\ UNCHANGED <<finished, held, err, got, crashed, resetsDone, clearing,
                   began, begun, crossed, lastEnd>>

DoLock(c) ==
    /\ do[c] = "lock" /\ ~held
    /\ \/ /\ finished
          /\ do' = [do EXCEPT ![c] = "read"]
          /\ UNCHANGED <<held, began, begun>>
       \/ /\ ~finished
          /\ do' = [do EXCEPT ![c] = "run"]
          /\ held' = TRUE
          /\ began' = [began EXCEPT ![c] = Period] /\ begun' = begun + 1
    /\ UNCHANGED <<finished, err, got, crashed, resetsDone, clearing, called, crossed, lastEnd>>

\* The function returns e, which is kept.
DoRun(c) ==
    /\ do[c] = "run"
    /\ \E e \in Errs : err' = e
    /\ do' = [do EXCEPT ![c] = "ran"]
    /\ UNCHANGED <<finished, held, got, crashed, resetsDone, clearing, onceHistory>>

DoStore(c) ==
    /\ do[c] = "ran"
    /\ finished' = TRUE
    /\ do' = [do EXCEPT ![c] = "stored"]
    /\ lastEnd' = Period
    /\ UNCHANGED <<held, err, got, crashed, resetsDone, clearing, called, began, begun, crossed>>

DoUnlock(c) ==
    /\ do[c] = "stored"
    /\ held' = FALSE /\ crashed' = ~held
    /\ do' = [do EXCEPT ![c] = "read"]
    /\ crossed' = IF began[c] = Period THEN crossed ELSE crossed + 1
    /\ UNCHANGED <<finished, err, got, resetsDone, clearing, called, began, begun, lastEnd>>

\* Mutant: Do forgets a function that failed, so that the next call tries again.
DoReturnRetries(c) ==
    /\ do[c] = "read"
    /\ got' = [got EXCEPT ![c] = err]
    /\ do' = [do EXCEPT ![c] = "done"]
    /\ finished' = (err = "nil")
    /\ UNCHANGED <<held, err, crashed, resetsDone, clearing, onceHistory>>

DoReturn(c) ==
    /\ do[c] = "read"
    /\ got' = [got EXCEPT ![c] = err]
    /\ do' = [do EXCEPT ![c] = "done"]
    /\ UNCHANGED <<finished, held, err, crashed, resetsDone, clearing, onceHistory>>

ResetOnce ==
    /\ resetsDone < MaxResets
    /\ resetsDone' = resetsDone + 1
    /\ finished' = FALSE /\ held' = FALSE
    /\ clearing' = clearing + 1
    /\ begun' = 0 /\ crossed' = 0
    /\ UNCHANGED <<err, do, got, crashed, called, began, lastEnd>>

ResetErr ==
    /\ clearing > 0
    /\ clearing' = clearing - 1
    /\ err' = "nil"
    /\ UNCHANGED <<finished, held, do, got, crashed, resetsDone, onceHistory>>

DoStep(c) ==
    Do(c) \/ DoLock(c) \/ DoRun(c) \/ DoStore(c) \/ DoUnlock(c) \/ DoReturn(c)

OnceNext ==
    /\ ~crashed
    /\ ResetOnce \/ ResetErr \/ \E c \in Dos : DoStep(c)

OnceSpec == OnceInit /\ [][OnceNext]_onceVars

\* What a Reset may do to the calls of Do it overlaps, and no more.  Between
\* two Resets one function is begun, and one more for each function of before
\* that unlocks the mutex meanwhile, which may be another's.  Without such a
\* function nothing crashes.  In any case a call of Do returns only when a
\* function has ended since the last Reset before the call
\* (syncutil.go:17-30).
OnceBetweenResets ==
    /\ begun <= 1 + crossed
    /\ crashed => crossed > 0
    /\ \A c \in Dos : do[c] \in {"read", "done"} => lastEnd >= called[c]

=============================================================================
