---------------------------- MODULE ContextMutex ----------------------------
(***************************************************************************)
(* syncutil.Mutex (internal/syncutil/syncutil.go): a lock that can be      *)
(* asked for with a context.  LockContext leaves the waiting to a helper   *)
(* goroutine; when the context ends first, another one gives the lock back *)
(* as soon as the helper has it.                                           *)
(*                                                                         *)
(* An element of Calls is one call of Lock, TryLock or LockContext and, if *)
(* it gets the lock, the call of Unlock that goes with it.                 *)
(***************************************************************************)
CONSTANTS
    Calls,
    Free   \* nobody has the lock

ASSUME ContextMutexAssumption == Free \notin Calls

VARIABLES
    mu,      \* the call for which sync.Mutex is locked, or Free
    call,    \* progress of the caller
    helper,  \* progress of the helper goroutine
    expired  \* calls whose context is done

mutexVars == <<mu, call, helper, expired>>

MutexTypeOK ==
    /\ mu \in Calls \cup {Free}
    /\ call \in [Calls -> {"idle", "lock", "select", "held", "unlocked", "refused", "err"}]
    /\ helper \in [Calls -> {"off", "lock", "got", "gone"}]
    /\ expired \subseteq Calls

MutexInit ==
    /\ mu = Free
    /\ call = [c \in Calls |-> "idle"]
    /\ helper = [c \in Calls |-> "off"]
    /\ expired = {}

-----------------------------------------------------------------------------

LockCall(c) ==
    /\ call[c] = "idle"
    /\ call' = [call EXCEPT ![c] = "lock"]
    /\ UNCHANGED <<mu, helper, expired>>

Locked(c) ==
    /\ call[c] = "lock" /\ mu = Free
    /\ mu' = c
    /\ call' = [call EXCEPT ![c] = "held"]
    /\ UNCHANGED <<helper, expired>>

\* TryLock, or the first attempt of LockContext.
TryLock(c) ==
    /\ call[c] = "idle" /\ mu = Free
    /\ mu' = c
    /\ call' = [call EXCEPT ![c] = "held"]
    /\ UNCHANGED <<helper, expired>>

TryLockFails(c) ==
    /\ call[c] = "idle" /\ mu # Free
    /\ call' = [call EXCEPT ![c] = "refused"]
    /\ UNCHANGED <<mu, helper, expired>>

Unlock(c) ==
    /\ call[c] = "held"
    /\ mu' = Free
    /\ call' = [call EXCEPT ![c] = "unlocked"]
    /\ UNCHANGED <<helper, expired>>

\* LockContext has not got the lock at once: it starts its helper ...
LockContext(c) ==
    /\ call[c] = "idle" /\ mu # Free
    /\ call' = [call EXCEPT ![c] = "select"]
    /\ helper' = [helper EXCEPT ![c] = "lock"]
    /\ UNCHANGED <<mu, expired>>

\* ... which waits, and says so when it has the lock.
HelperLocks(c) ==
    /\ helper[c] = "lock" /\ mu = Free
    /\ mu' = c
    /\ helper' = [helper EXCEPT ![c] = "got"]
    /\ UNCHANGED <<call, expired>>

LockContextGets(c) ==
    /\ call[c] = "select" /\ helper[c] = "got"
    /\ call' = [call EXCEPT ![c] = "held"]
    /\ helper' = [helper EXCEPT ![c] = "gone"]
    /\ UNCHANGED <<mu, expired>>

Expire(c) ==
    /\ c \notin expired
    /\ expired' = expired \cup {c}
    /\ UNCHANGED <<mu, call, helper>>

LockContextFails(c) ==
    /\ call[c] = "select" /\ c \in expired
    /\ call' = [call EXCEPT ![c] = "err"]
    /\ UNCHANGED <<mu, helper, expired>>

\* Mutant: the lock is given back when the context ends, got or not.
GiveBackAtOnce(c) ==
    /\ call[c] = "err" /\ helper[c] \in {"lock", "got"}
    /\ mu' = Free
    /\ helper' = [helper EXCEPT ![c] = "gone"]
    /\ UNCHANGED <<call, expired>>

\* Mutant: it is not given back.
GiveBackNever(c) == FALSE /\ UNCHANGED mutexVars

\* The other goroutine waits for the helper, then unlocks.
GiveBack(c) ==
    /\ call[c] = "err" /\ helper[c] = "got"
    /\ mu' = Free
    /\ helper' = [helper EXCEPT ![c] = "gone"]
    /\ UNCHANGED <<call, expired>>

-----------------------------------------------------------------------------

LockStep(c) ==
    \/ Locked(c) \/ HelperLocks(c) \/ LockContextGets(c) \/ LockContextFails(c) \/ GiveBack(c)

MutexNext ==
    \E c \in Calls :
        \/ LockCall(c) \/ TryLock(c) \/ TryLockFails(c) \/ Unlock(c) \/ LockContext(c)
        \/ Expire(c) \/ LockStep(c)

MutexSpec == MutexInit /\ [][MutexNext]_mutexVars

\* Goroutines run; callers may keep the lock.
MutexFairness == \A c \in Calls : WF_mutexVars(LockStep(c))

-----------------------------------------------------------------------------
(* Properties.                                                             *)

\* The lock is held by one caller at most, whatever calls are abandoned; and
\* it is given to a caller or to its helper, never to both: nobody unlocks a
\* lock of another (syncutil.go:185-208).
MutualExclusion ==
    /\ \A c, d \in Calls : (call[c] = "held" /\ call[d] = "held") => c = d
    /\ \A c \in Calls :
          (mu = c) <=> (call[c] = "held" \/ helper[c] = "got")

\* A lock that is taken for a call whose context has ended is given back
\* (syncutil.go:199-206).
AbandonedIsGivenBack == \A c \in Calls : call[c] = "err" ~> mu # c /\ helper[c] # "got"

=============================================================================
