----------------------------- MODULE LazyLoader -----------------------------
(***************************************************************************)
(* loader.LazyLoader (loader/loader.go): the first Load loads, within a    *)
(* sync.Once, and keeps the error; Reload loads again, with the lock held. *)
(*                                                                         *)
(* Data is known by the version of the sources.  An element of LazyLoads   *)
(* is one call of Load, an element of Reloads one call of Reload.          *)
(***************************************************************************)
EXTENDS Naturals, FiniteSets

CONSTANTS
    LazyLoads,
    Reloads,
    MaxSource  \* bound: changes of the sources

ASSUME LazyLoaderAssumption ==
    /\ IsFiniteSet(LazyLoads) /\ IsFiniteSet(Reloads) /\ LazyLoads \cap Reloads = {}
    /\ MaxSource \in Nat

VARIABLES
    newest,  \* the version of the sources
    lazyData, \* LazyLoader.data: the version loaded, 0 for none
    loaded,   \* LazyLoader.loaded
    loadErr,  \* LazyLoader.loadErr is set
    once,     \* the sync.Once: "new", "running" or "done"
    mutex,    \* the Reload that has locked LazyLoader.mu, if any
    lazy,     \* progress of Load, or of Reload
    fetched,  \* the version it has loaded
    \* history variables
    answer,   \* what Load has returned
    first,    \* the call that ran the first load
    undone    \* a Reload was undone by the first load

lazyVars == <<newest, lazyData, loaded, loadErr, once, mutex, lazy, fetched,
              answer, first, undone>>

Callers == LazyLoads \cup Reloads

LazyTypeOK ==
    /\ newest \in Nat /\ lazyData \in Nat /\ loaded \in BOOLEAN /\ loadErr \in BOOLEAN
    /\ once \in {"new", "running", "done"} /\ mutex \subseteq Reloads
    /\ lazy \in [Callers -> {"idle", "load", "store", "check", "reload", "restore", "done", "err"}]
    /\ fetched \in [Callers -> Nat] /\ answer \in [LazyLoads -> Nat]
    /\ first \subseteq LazyLoads /\ undone \in BOOLEAN

LazyInit ==
    /\ newest = 1 /\ lazyData = 0 /\ loaded = FALSE /\ loadErr = FALSE
    /\ once = "new" /\ mutex = {}
    /\ lazy = [c \in Callers |-> "idle"] /\ fetched = [c \in Callers |-> 0]
    /\ answer = [c \in LazyLoads |-> 0] /\ first = {} /\ undone = FALSE

SourcesChange ==
    /\ newest < MaxSource
    /\ newest' = newest + 1
    /\ UNCHANGED <<lazyData, loaded, loadErr, once, mutex, lazy, fetched, answer, first, undone>>

-----------------------------------------------------------------------------
(* Load.                                                                   *)

LazyOnce(c) ==
    /\ lazy[c] = "idle" /\ once # "running"
    /\ IF once = "new"
          THEN once' = "running" /\ first' = {c} /\ lazy' = [lazy EXCEPT ![c] = "load"]
          ELSE lazy' = [lazy EXCEPT ![c] = "check"] /\ UNCHANGED <<once, first>>
    /\ UNCHANGED <<newest, lazyData, loaded, loadErr, mutex, fetched, answer, undone>>

LazyReads(c) ==
    /\ lazy[c] = "load"
    /\ fetched' = [fetched EXCEPT ![c] = newest]
    /\ lazy' = [lazy EXCEPT ![c] = "store"]
    /\ UNCHANGED <<newest, lazyData, loaded, loadErr, once, mutex, answer, first, undone>>

LazyFails(c) ==
    /\ lazy[c] = "load"
    /\ loadErr' = TRUE /\ once' = "done"
    /\ lazy' = [lazy EXCEPT ![c] = "check"]
    /\ UNCHANGED <<newest, lazyData, loaded, mutex, fetched, answer, first, undone>>

LazyStores(c) ==
    /\ lazy[c] = "store" /\ mutex = {}
    /\ lazyData' = fetched[c] /\ loaded' = TRUE /\ once' = "done"
    /\ undone' = (fetched[c] < lazyData)
    /\ lazy' = [lazy EXCEPT ![c] = "check"]
    /\ UNCHANGED <<newest, loadErr, mutex, fetched, answer, first>>

LazyReturns(c) ==
    /\ lazy[c] = "check"
    /\ IF loadErr
          THEN lazy' = [lazy EXCEPT ![c] = "err"] /\ UNCHANGED answer
          ELSE /\ mutex = {}
               /\ answer' = [answer EXCEPT ![c] = lazyData]
               /\ lazy' = [lazy EXCEPT ![c] = "done"]
    /\ UNCHANGED <<newest, lazyData, loaded, loadErr, once, mutex, fetched, first, undone>>

-----------------------------------------------------------------------------
(* Reload.                                                                 *)

ReloadLocks(c) ==
    /\ lazy[c] = "idle" /\ mutex = {}
    /\ mutex' = {c}
    /\ lazy' = [lazy EXCEPT ![c] = "reload"]
    /\ UNCHANGED <<newest, lazyData, loaded, loadErr, once, fetched, answer, first, undone>>

\* Mutant: Reload does not hold the lock while it loads.
ReloadReadsUnlocked(c) ==
    /\ lazy[c] = "reload"
    /\ fetched' = [fetched EXCEPT ![c] = newest]
    /\ lazy' = [lazy EXCEPT ![c] = "restore"]
    /\ mutex' = {}
    /\ UNCHANGED <<newest, lazyData, loaded, loadErr, once, answer, first, undone>>

ReloadReads(c) ==
    /\ lazy[c] = "reload"
    /\ fetched' = [fetched EXCEPT ![c] = newest]
    /\ lazy' = [lazy EXCEPT ![c] = "restore"]
    /\ UNCHANGED <<newest, lazyData, loaded, loadErr, once, mutex, answer, first, undone>>

ReloadFails(c) ==
    /\ lazy[c] = "reload"
    /\ mutex' = {}
    /\ lazy' = [lazy EXCEPT ![c] = "err"]
    /\ UNCHANGED <<newest, lazyData, loaded, loadErr, once, fetched, answer, first, undone>>

ReloadStores(c) ==
    /\ lazy[c] = "restore"
    /\ lazyData' = fetched[c] /\ loaded' = TRUE
    /\ mutex' = {}
    /\ lazy' = [lazy EXCEPT ![c] = "done"]
    /\ UNCHANGED <<newest, loadErr, once, fetched, answer, first, undone>>

-----------------------------------------------------------------------------

LazyNext ==
    \/ SourcesChange
    \/ \E c \in LazyLoads :
          LazyOnce(c) \/ LazyReads(c) \/ LazyFails(c) \/ LazyStores(c) \/ LazyReturns(c)
    \/ \E c \in Reloads :
          ReloadLocks(c) \/ ReloadReads(c) \/ ReloadFails(c) \/ ReloadStores(c)

LazySpec == LazyInit /\ [][LazyNext]_lazyVars

\* Load returns data only if the first load succeeded, and then the newest a
\* finished load or reload has stored; the first load alone may undo a Reload
\* that overtook it.  When the first load has failed, Load fails for ever,
\* even when Reload has loaded the data since (loader.go:187-240).
LazyIsCurrent ==
    /\ \A c \in LazyLoads : lazy[c] = "done" => ~loadErr /\ answer[c] # 0
    /\ undone \/ \A c \in Callers :
          (c \in Reloads \cup first /\ lazy[c] \in {"check", "done"}) => fetched[c] <= lazyData

=============================================================================
