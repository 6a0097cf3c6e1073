------------------------------ MODULE Helpers ------------------------------
(***************************************************************************)
(* The parts of the library that work on their own, side by side: the      *)
(* debouncer of the package watch, the locks of syncutil, and the caches   *)
(* of loader and source.  They share nothing, so that one of them is       *)
(* looked at in a behaviour, and the others stay as they are.              *)
(***************************************************************************)
EXTENDS Debouncer, ContextMutex, Barrier, OnceWithErr, SourceCache, LazyLoader

VARIABLE subject

vars == <<subject, debVars, mutexVars, barrierVars, onceVars, cacheVars, lazyVars>>

Subjects == {"debouncer", "mutex", "barrier", "once", "cache", "lazy"}

Init ==
    /\ subject \in Subjects
    /\ DebInit /\ MutexInit /\ BarrierInit /\ OnceInit /\ CacheInit /\ LazyInit

DebouncerStep ==
    /\ subject = "debouncer" /\ DebNext
    /\ UNCHANGED <<subject, mutexVars, barrierVars, onceVars, cacheVars, lazyVars>>

MutexStep ==
    /\ subject = "mutex" /\ MutexNext
    /\ UNCHANGED <<subject, debVars, barrierVars, onceVars, cacheVars, lazyVars>>

BarrierStep ==
    /\ subject = "barrier" /\ BarrierNext
    /\ UNCHANGED <<subject, debVars, mutexVars, onceVars, cacheVars, lazyVars>>

OnceStep ==
    /\ subject = "once" /\ OnceNext
    /\ UNCHANGED <<subject, debVars, mutexVars, barrierVars, cacheVars, lazyVars>>

CacheStep ==
    /\ subject = "cache" /\ CacheNext
    /\ UNCHANGED <<subject, debVars, mutexVars, barrierVars, onceVars, lazyVars>>

LazyStep ==
    /\ subject = "lazy" /\ LazyNext
    /\ UNCHANGED <<subject, debVars, mutexVars, barrierVars, onceVars, cacheVars>>

Next == DebouncerStep \/ MutexStep \/ BarrierStep \/ OnceStep \/ CacheStep \/ LazyStep

FairSpec == Init /\ [][Next]_vars /\ DebFairness /\ MutexFairness /\ BarrierFairness

=============================================================================
