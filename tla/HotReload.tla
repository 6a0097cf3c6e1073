----------------------------- MODULE HotReload -----------------------------
(***************************************************************************)
(* Hot reload: Config.Watch and Config.Close (config.go) with the polling  *)
(* watcher each FileSource starts (source/source.go).                      *)
(*                                                                         *)
(* The sources are the files 1..NumFiles, in order.  A file is known by    *)
(* the number of its last write, which is also its modification time: two  *)
(* writes are assumed to differ in it.  Engine.Update is one step here;    *)
(* ConfigEngine has its steps.                                             *)
(***************************************************************************)
EXTENDS Naturals, FiniteSets

CONSTANTS
    NumFiles,
    Watches,   \* calls of Config.Watch, each with a context of its own
    MayVanish, \* files that may disappear and come back as they were
    MaxWrites, \* bound: writes of one file
    None

ASSUME HotReloadAssumption ==
    /\ NumFiles \in Nat /\ MaxWrites \in Nat
    /\ MayVanish \subseteq 1..NumFiles
    /\ None \notin Watches

VARIABLES
    disk,      \* the files: number of the last write, and what a reader finds
    conf,      \* by file, the write the engine's state comes from
    mu,        \* the Watch call that holds Config.mu for writing
    watched,   \* FileSource.watched
    assigned,  \* FileSource.watcher is set
    wmu,       \* FileWatcher.mu is held by Stop
    modTime,   \* FileWatcher.modTime
    stop,      \* FileWatcher.stop is closed
    poller,    \* progress of FileWatcher.watch; "stopped" closes its channel
    owner,     \* the call of Watch whose context the poller has
    got,       \* what the poller's reload has read so far, by file
    next,      \* the source it loads next
    call, at,  \* progress of a call of Watch, and the source it is at
    cancelled, \* contexts that are done
    closing,   \* progress of Config.Close
    closeAt,   \* the source it is at
    engClosed, \* the engine is closed
    handlers,  \* goroutines with an EventReload for the observer
    seen,      \* the configuration the observer last read
    \* history variables
    missed,    \* files written between their load and the start of the poller
    failed,    \* a reload has failed
    crossed,   \* two reloads have overlapped
    late       \* calls of Watch under way, or not yet begun, when Close began

fileVars  == <<disk, conf>>
watchVars == <<mu, watched, assigned, modTime, owner, call, at>>
pollVars  == <<poller, got, next>>
stopVars  == <<wmu, stop, closing, closeAt, engClosed>>
obsVars   == <<handlers, seen>>
history   == <<missed, failed, crossed, late>>
vars == <<fileVars, watchVars, pollVars, stopVars, cancelled, obsVars, history>>

Files == 1..NumFiles
Running(f) == poller[f] \notin {"off", "stopped"}
Reloading(f) == poller[f] \in {"loading", "publish"}

TypeOK ==
    /\ disk \in [Files -> [n : 0..MaxWrites, st : {"ok", "broken", "gone"}]]
    /\ conf \in [Files -> 0..MaxWrites]
    /\ mu \in Watches \cup {None}
    /\ watched \in [Files -> BOOLEAN] /\ assigned \in [Files -> BOOLEAN]
    /\ wmu \in [Files -> BOOLEAN] /\ stop \in [Files -> BOOLEAN]
    /\ modTime \in [Files -> 0..MaxWrites]
    /\ poller \in [Files -> {"off", "select", "changed", "loading", "publish", "notify",
                             "stopped"}]
    /\ owner \in [Files -> Watches \cup {None}]
    /\ got \in [Files -> [Files -> 0..MaxWrites]]
    /\ next \in [Files -> 1..NumFiles + 1]
    /\ call \in [Watches -> {"idle", "files", "start", "nil", "err"}]
    /\ at \in [Watches -> 1..NumFiles + 1]
    /\ cancelled \subseteq Watches
    /\ closing \in {"no", "swapped", "sources", "stopping", "returned"}
    /\ closeAt \in 1..NumFiles + 1
    /\ engClosed \in BOOLEAN
    /\ \A f \in Files : poller[f] = "loading" => next[f] \in Files
    /\ \A w \in Watches : call[w] = "start" => at[w] \in Files
    /\ closing = "stopping" => closeAt \in Files
    /\ handlers \in Nat
    /\ seen \in [Files -> 0..MaxWrites]
    /\ missed \subseteq Files /\ late \subseteq Watches
    /\ failed \in BOOLEAN /\ crossed \in BOOLEAN

\* New has loaded the files, and the observer has read the result.
Init ==
    /\ disk = [f \in Files |-> [n |-> 0, st |-> "ok"]]
    /\ conf = [f \in Files |-> 0]
    /\ mu = None
    /\ watched = [f \in Files |-> FALSE] /\ assigned = [f \in Files |-> FALSE]
    /\ wmu = [f \in Files |-> FALSE] /\ stop = [f \in Files |-> FALSE]
    /\ modTime = [f \in Files |-> 0]
    /\ poller = [f \in Files |-> "off"]
    /\ owner = [f \in Files |-> None]
    /\ got = [f \in Files |-> conf]
    /\ next = [f \in Files |-> 1]
    /\ call = [w \in Watches |-> "idle"]
    /\ at = [w \in Watches |-> 1]
    /\ cancelled = {}
    /\ closing = "no" /\ closeAt = 1 /\ engClosed = FALSE
    /\ handlers = 0 /\ seen = conf
    /\ missed = {} /\ failed = FALSE /\ crossed = FALSE /\ late = {}

-----------------------------------------------------------------------------
(* The files.                                                              *)

Write(f) ==
    /\ disk[f].st # "gone" /\ disk[f].n < MaxWrites
    /\ \E st \in {"ok", "broken"} : disk' = [disk EXCEPT ![f] = [n |-> @.n + 1, st |-> st]]
    /\ UNCHANGED <<conf, watchVars, pollVars, stopVars, cancelled, obsVars, history>>

Vanish(f) ==
    /\ f \in MayVanish /\ disk[f].st = "ok"
    /\ disk' = [disk EXCEPT ![f].st = "gone"]
    /\ UNCHANGED <<conf, watchVars, pollVars, stopVars, cancelled, obsVars, history>>

ComeBack(f) ==
    /\ disk[f].st = "gone"
    /\ disk' = [disk EXCEPT ![f].st = "ok"]
    /\ UNCHANGED <<conf, watchVars, pollVars, stopVars, cancelled, obsVars, history>>

-----------------------------------------------------------------------------
(* Config.Watch: under Config.mu, FileSource.Watch of every source.        *)

WatchBegin(w) ==
    /\ call[w] = "idle" /\ mu = None
    /\ mu' = w
    /\ call' = [call EXCEPT ![w] = "files"]
    /\ UNCHANGED <<fileVars, watched, assigned, modTime, owner, at, pollVars, stopVars,
                   cancelled, obsVars, history>>

\* FileSource.Watch, up to Start: it returns nil if it was called before.
WatchFile(w) ==
    LET f == at[w]
    IN /\ call[w] = "files" /\ f \in Files
       /\ watched' = [watched EXCEPT ![f] = TRUE]
       /\ assigned' = [assigned EXCEPT ![f] = TRUE]
       /\ IF watched[f] THEN at' = [at EXCEPT ![w] = f + 1] /\ UNCHANGED call
                        ELSE call' = [call EXCEPT ![w] = "start"] /\ UNCHANGED at
       /\ UNCHANGED <<fileVars, mu, modTime, owner, pollVars, stopVars, cancelled, obsVars,
                      history>>

\* FileWatcher.Start, which Watch calls with the file's mutex free.
WatchStart(w) ==
    LET f == at[w]
    IN /\ call[w] = "start" /\ ~wmu[f] /\ disk[f].st # "gone"
       /\ modTime' = [modTime EXCEPT ![f] = disk[f].n]
       /\ poller' = [poller EXCEPT ![f] = "select"]
       /\ owner' = [owner EXCEPT ![f] = w]
       /\ missed' = IF conf[f] < disk[f].n THEN missed \cup {f} ELSE missed
       /\ at' = [at EXCEPT ![w] = f + 1]
       /\ call' = [call EXCEPT ![w] = "files"]
       /\ UNCHANGED <<fileVars, mu, watched, assigned, got, next, stopVars, cancelled, obsVars,
                      failed, crossed, late>>

\* os.Stat fails; so does Watch, at this source.
WatchFails(w) ==
    /\ call[w] = "start" /\ ~wmu[at[w]] /\ disk[at[w]].st = "gone"
    /\ call' = [call EXCEPT ![w] = "err"]
    /\ mu' = None
    /\ UNCHANGED <<fileVars, watched, assigned, modTime, owner, at, pollVars, stopVars,
                   cancelled, obsVars, history>>

\* Mutant: Watch keeps Config.mu.
WatchReturnLocked(w) ==
    /\ call[w] = "files" /\ at[w] = NumFiles + 1
    /\ call' = [call EXCEPT ![w] = "nil"]
    /\ UNCHANGED <<fileVars, mu, watched, assigned, modTime, owner, at, pollVars, stopVars,
                   cancelled, obsVars, history>>

WatchReturn(w) ==
    /\ call[w] = "files" /\ at[w] = NumFiles + 1
    /\ call' = [call EXCEPT ![w] = "nil"]
    /\ mu' = None
    /\ UNCHANGED <<fileVars, watched, assigned, modTime, owner, at, pollVars, stopVars,
                   cancelled, obsVars, history>>

Cancel(w) ==
    /\ call[w] # "idle" /\ w \notin cancelled
    /\ cancelled' = cancelled \cup {w}
    /\ UNCHANGED <<fileVars, watchVars, pollVars, stopVars, obsVars, history>>

-----------------------------------------------------------------------------
(* FileWatcher.watch, one goroutine for a file, and the reload it calls.   *)

Poll(f, from, to) ==
    /\ poller[f] = from
    /\ poller' = [poller EXCEPT ![f] = to]
    /\ UNCHANGED <<watched, assigned, owner, call, at, mu, stopVars, cancelled, disk, late>>

\* A tick finds a newer modification time, and records it.
Notice(f) ==
    /\ Poll(f, "select", "changed")
    /\ disk[f].st # "gone" /\ disk[f].n > modTime[f]
    /\ modTime' = [modTime EXCEPT ![f] = disk[f].n]
    /\ UNCHANGED <<conf, got, next, obsVars, missed, failed, crossed>>

PollEnd(f) ==
    /\ Poll(f, "select", "stopped")
    /\ stop[f] \/ owner[f] \in cancelled
    /\ UNCHANGED <<conf, modTime, got, next, obsVars, missed, failed, crossed>>

\* Config.reload copies the sources under Config.mu; Engine.Load begins.
ReloadBegin(f) ==
    /\ Poll(f, "changed", "loading")
    /\ mu = None /\ ~engClosed
    /\ next' = [next EXCEPT ![f] = 1]
    /\ crossed' = (crossed \/ \E g \in Files \ {f} : Reloading(g))
    /\ UNCHANGED <<conf, modTime, got, obsVars, missed, failed>>

\* Mutant: a source returns what it loaded first.
LoadFileCached(f) ==
    LET g == next[f]
    IN /\ Poll(f, "loading", IF g = NumFiles THEN "publish" ELSE "loading")
       /\ disk[g].st = "ok"
       /\ got' = [got EXCEPT ![f][g] = 0]
       /\ next' = [next EXCEPT ![f] = g + 1]
       /\ UNCHANGED <<conf, modTime, obsVars, missed, failed, crossed>>

LoadFile(f) ==
    LET g == next[f]
    IN /\ Poll(f, "loading", IF g = NumFiles THEN "publish" ELSE "loading")
       /\ disk[g].st = "ok"
       /\ got' = [got EXCEPT ![f][g] = disk[g].n]
       /\ next' = [next EXCEPT ![f] = g + 1]
       /\ UNCHANGED <<conf, modTime, obsVars, missed, failed, crossed>>

\* Engine.Update
Publish(f) ==
    /\ Poll(f, "publish", "notify")
    /\ ~engClosed
    /\ conf' = got[f]
    /\ UNCHANGED <<modTime, got, next, obsVars, missed, failed, crossed>>

\* The engine is closed, or a source cannot be loaded: the error is ignored.
ReloadFails(f) ==
    /\ \E from \in {"changed", "loading", "publish"} :
          /\ Poll(f, from, "notify")
          /\ CASE from = "loading" -> disk[next[f]].st # "ok"
               [] from = "changed" -> mu = None /\ engClosed
               [] OTHER -> engClosed
    /\ failed' = TRUE
    /\ UNCHANGED <<conf, modTime, got, next, obsVars, missed, crossed>>

\* Mutant: nobody is told.
TellNever(f) ==
    /\ Poll(f, "notify", "select")
    /\ UNCHANGED <<conf, modTime, got, next, obsVars, missed, failed, crossed>>

\* Config.notifyObservers starts a goroutine for the observer.
Tell(f) ==
    /\ Poll(f, "notify", "select")
    /\ handlers' = handlers + 1
    /\ UNCHANGED <<conf, modTime, got, next, seen, missed, failed, crossed>>

\* The observer reads the configuration.
Handle ==
    /\ handlers > 0
    /\ handlers' = handlers - 1
    /\ seen' = conf
    /\ UNCHANGED <<fileVars, watchVars, pollVars, stopVars, cancelled, history>>

-----------------------------------------------------------------------------
(* Config.Close, called once: FileSource.Close of every source, then the   *)
(* engine.                                                                 *)

CloseSwap ==
    /\ closing = "no"
    /\ closing' = "swapped"
    /\ late' = {w \in Watches : call[w] \in {"idle", "files", "start"}}
    /\ UNCHANGED <<fileVars, watchVars, pollVars, wmu, stop, closeAt, engClosed, cancelled,
                   obsVars, missed, failed, crossed>>

\* The sources are copied under Config.mu.
CloseSources ==
    /\ closing = "swapped" /\ mu = None
    /\ closing' = "sources"
    /\ UNCHANGED <<fileVars, watchVars, pollVars, wmu, stop, closeAt, engClosed, cancelled,
                   obsVars, history>>

\* No watcher, or one whose goroutine has ended.
CloseSkip ==
    /\ closing = "sources" /\ closeAt \in Files
    /\ ~assigned[closeAt] \/ poller[closeAt] = "stopped"
    /\ closeAt' = closeAt + 1
    /\ UNCHANGED <<fileVars, watchVars, pollVars, wmu, stop, closing, engClosed, cancelled,
                   obsVars, history>>

\* FileWatcher.Stop takes its mutex, closes the channel, and waits.
CloseStop ==
    /\ closing = "sources" /\ closeAt \in Files
    /\ assigned[closeAt] /\ poller[closeAt] # "stopped"
    /\ wmu' = [wmu EXCEPT ![closeAt] = TRUE]
    /\ stop' = [stop EXCEPT ![closeAt] = TRUE]
    /\ closing' = "stopping"
    /\ UNCHANGED <<fileVars, watchVars, pollVars, closeAt, engClosed, cancelled,
                   obsVars, history>>

CloseStopped ==
    /\ closing = "stopping" /\ poller[closeAt] = "stopped"
    /\ wmu' = [wmu EXCEPT ![closeAt] = FALSE]
    /\ closeAt' = closeAt + 1
    /\ closing' = "sources"
    /\ UNCHANGED <<fileVars, watchVars, pollVars, stop, engClosed, cancelled,
                   obsVars, history>>

CloseEngine ==
    /\ closing = "sources" /\ closeAt = NumFiles + 1
    /\ engClosed' = TRUE
    /\ closing' = "returned"
    /\ UNCHANGED <<fileVars, watchVars, pollVars, wmu, stop, closeAt, cancelled,
                   obsVars, history>>

-----------------------------------------------------------------------------
(* The system.                                                             *)

WatchStep(w) == WatchFile(w) \/ WatchStart(w) \/ WatchFails(w) \/ WatchReturn(w)
PollStep(f) ==
    \/ Notice(f) \/ PollEnd(f)
    \/ ReloadBegin(f) \/ LoadFile(f) \/ Publish(f) \/ ReloadFails(f)
    \/ Tell(f)
CloseStep == CloseSources \/ CloseSkip \/ CloseStop \/ CloseStopped \/ CloseEngine

Next ==
    \/ \E f \in Files : Write(f) \/ Vanish(f) \/ ComeBack(f) \/ PollStep(f)
    \/ \E w \in Watches : WatchBegin(w) \/ WatchStep(w) \/ Cancel(w)
    \/ Handle
    \/ CloseSwap \/ CloseStep

Spec == Init /\ [][Next]_vars

\* Goroutines inside the library keep running, tickers keep ticking.
Fairness ==
    /\ \A f \in Files : WF_vars(PollStep(f))
    /\ \A w \in Watches : WF_vars(WatchStep(w))
    /\ WF_vars(CloseStep)

FairSpec == Spec /\ Fairness

-----------------------------------------------------------------------------
(* Properties.                                                             *)

\* A change a poller has noticed is in the configuration when the poller is
\* back at its select, unless a reload has failed, two reloads have
\* overlapped, or the file had changed before the poller started
\* (source.go:530-538, config.go:386-391).
NoticedIsLoaded ==
    (~failed /\ ~crossed) =>
        \A f \in Files \ missed : poller[f] = "select" => conf[f] >= modTime[f]

\* When no poller is at work and no event is on its way, the observer has
\* read the configuration as it is: every publication is followed by an event
\* that reads no older one (config.go:388-397, 422-426).
ObserverIsCurrent ==
    (handlers = 0 /\ \A f \in Files : poller[f] # "notify") => seen = conf

\* When Close has returned, a poller still running was started by a call of
\* Watch that Close did not wait for (config.go:378-406, 557-577).
PollerOnlyFromLateWatch ==
    closing = "returned" => \A f \in Files : Running(f) => owner[f] \in late

\* A watcher without a goroutine: Start has failed, or not happened yet.
Orphan(f) == assigned[f] /\ poller[f] = "off"

\* Close returns, whatever the pollers and their reloads are doing, unless a
\* watcher has no goroutine that could answer Stop (source.go:544-557).
CloseEnds == closing = "swapped" ~> (closing = "returned" \/ \E f \in Files : Orphan(f))

\* A reload that has begun ends: Watch and Close, which hold Config.mu or
\* wait for the poller, do not block it unless a watcher has no goroutine
\* (config.go:366-370, 379, 562-565).
ReloadEnds ==
    \A f \in Files : poller[f] = "changed"
        ~> (poller[f] \in {"select", "stopped"} \/ \E g \in Files : Orphan(g))

\* Neither Close nor a reload is blocked for ever by the two locks and the
\* goroutine they wait for (config.go:366-370, 556-577, source.go:501-557).
OperationsEnd == CloseEnds /\ ReloadEnds

=============================================================================
