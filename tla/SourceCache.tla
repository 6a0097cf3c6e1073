---------------------------- MODULE SourceCache ----------------------------
(***************************************************************************)
(* The cache of loader.CachedLoader and source.RemoteSource: Load looks at *)
(* the cache under a read lock, loads without a lock, and stores what it   *)
(* got under the write lock; Invalidate makes the cache stale.             *)
(*                                                                         *)
(* Data is known by the version of the source it was read from.  An        *)
(* element of Loads is one call of Load.                                   *)
(***************************************************************************)
EXTENDS Naturals, FiniteSets

CONSTANTS
    Loads,
    MaxVersion, \* bound: changes of the source
    Empty       \* versions in which the source has no data

ASSUME SourceCacheAssumption ==
    IsFiniteSet(Loads) /\ MaxVersion \in Nat /\ Empty \subseteq Nat

VARIABLES
    version,  \* of the source
    cache,    \* the version cached
    fresh,    \* the cache has not expired
    load,     \* progress of Load
    data,     \* the version it has read
    \* history variables
    floor,    \* the version an invalidation before the call asked for
    asked,    \* the version at the last Invalidate
    inFlight, \* calls that had read the source, or were about to, at an Invalidate
    result    \* the version a call returned

cacheVars == <<version, cache, fresh, load, data, floor, asked, inFlight, result>>

CacheTypeOK ==
    /\ version \in Nat /\ cache \in Nat /\ asked \in Nat /\ fresh \in BOOLEAN
    /\ load \in [Loads -> {"idle", "fetch", "store", "err", "done"}]
    /\ data \in [Loads -> Nat] /\ floor \in [Loads -> Nat] /\ result \in [Loads -> Nat]
    /\ inFlight \subseteq Loads

CacheInit ==
    /\ version = 1 /\ cache = 0 /\ fresh = FALSE
    /\ load = [c \in Loads |-> "idle"] /\ data = [c \in Loads |-> 0]
    /\ floor = [c \in Loads |-> 0] /\ asked = 0 /\ inFlight = {}
    /\ result = [c \in Loads |-> 0]

SourceChanges ==
    /\ version < MaxVersion
    /\ version' = version + 1
    /\ UNCHANGED <<cache, fresh, load, data, floor, asked, inFlight, result>>

\* The time to live has passed.
CacheExpires ==
    /\ fresh
    /\ fresh' = FALSE
    /\ UNCHANGED <<version, cache, load, data, floor, asked, inFlight, result>>

\* Mutant: only an empty cache is filled.
LoadBeginsEver(c) ==
    /\ load[c] = "idle"
    /\ floor' = [floor EXCEPT ![c] = asked]
    /\ IF cache # 0
          THEN /\ result' = [result EXCEPT ![c] = cache]
               /\ load' = [load EXCEPT ![c] = "done"]
          ELSE /\ load' = [load EXCEPT ![c] = "fetch"]
               /\ UNCHANGED result
    /\ UNCHANGED <<version, cache, fresh, data, asked, inFlight>>

\* A cache without data is not used, however fresh.
LoadBegins(c) ==
    /\ load[c] = "idle"
    /\ floor' = [floor EXCEPT ![c] = asked]
    /\ IF fresh /\ cache \notin Empty \cup {0}
          THEN /\ result' = [result EXCEPT ![c] = cache]
               /\ load' = [load EXCEPT ![c] = "done"]
          ELSE /\ load' = [load EXCEPT ![c] = "fetch"]
               /\ UNCHANGED result
    /\ UNCHANGED <<version, cache, fresh, data, asked, inFlight>>

LoadReads(c) ==
    /\ load[c] = "fetch"
    /\ data' = [data EXCEPT ![c] = version]
    /\ load' = [load EXCEPT ![c] = "store"]
    /\ UNCHANGED <<version, cache, fresh, floor, asked, inFlight, result>>

LoadFails(c) ==
    /\ load[c] = "fetch"
    /\ load' = [load EXCEPT ![c] = "err"]
    /\ UNCHANGED <<version, cache, fresh, data, floor, asked, inFlight, result>>

LoadStores(c) ==
    /\ load[c] = "store"
    /\ cache' = data[c] /\ fresh' = TRUE
    /\ result' = [result EXCEPT ![c] = data[c]]
    /\ load' = [load EXCEPT ![c] = "done"]
    /\ UNCHANGED <<version, data, floor, asked, inFlight>>

Invalidate ==
    /\ asked < version
    /\ fresh' = FALSE
    /\ asked' = version
    /\ inFlight' = inFlight \cup {c \in Loads : load[c] = "store" /\ data[c] < version}
    /\ UNCHANGED <<version, cache, load, data, floor, result>>

CacheNext ==
    \/ SourceChanges \/ CacheExpires \/ Invalidate
    \/ \E c \in Loads : LoadBegins(c) \/ LoadReads(c) \/ LoadFails(c) \/ LoadStores(c)

CacheSpec == CacheInit /\ [][CacheNext]_cacheVars

\* A Load that begins after Invalidate returns what the source had then or
\* has had since, unless another Load had read the source before Invalidate
\* and stores what it read after it: that undoes the invalidation
\* (loader.go:403-437, source.go:411-466).
InvalidateHolds ==
    \A c \in Loads : load[c] = "done" =>
        \/ result[c] >= floor[c]
        \/ \E d \in inFlight : load[d] = "done" /\ result[c] = data[d]

=============================================================================
