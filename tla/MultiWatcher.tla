---------------------------- MODULE MultiWatcher ----------------------------
(***************************************************************************)
(* watch.MultiWatcher (watch/watch.go): file watchers, a goroutine for     *)
(* each that forwards its changes into one channel, and a reader of that   *)
(* channel, which may stop reading, as a blocked Debouncer does.           *)
(*                                                                         *)
(* An element of Runs is one call of Start, an element of Stops one call   *)
(* of Stop.  FileWatcher.Start never fails, so that Start does not either. *)
(* Callers do not start it again when it has been stopped (WatchManager    *)
(* shows what becomes of the file watchers then).                          *)
(***************************************************************************)
EXTENDS FileWatcher

CONSTANTS
    Stops,
    Room,   \* capacity of MultiWatcher.changes
    None

ASSUME MultiWatcherAssumption ==
    Room \in Nat \ {0} /\ None \notin Runs \cup Files

VARIABLES
    active,   \* MultiWatcher.running
    ctx,      \* the run whose context MultiWatcher.ctx is
    wg,       \* the goroutines MultiWatcher.wg counts
    merged,   \* MultiWatcher.changes
    mergedShut, \* ... and whether it is closed
    start, toStart,            \* progress of a call of Start
    stopping, toStop, waitFor, \* progress of a call of Stop
    fwd, carried,              \* progress of forward, and the change it holds
    \* history variables
    seen,     \* by file, the last write the reader was told about
    launched, overlap, timedOut \* as in WatchManager

multiVars == <<active, ctx, wg, merged, mergedShut>>
callVars  == <<start, toStart, stopping, toStop, waitFor>>
fwdVars   == <<fwd, carried>>
history   == <<seen, launched, overlap, timedOut>>
ownVars   == <<multiVars, callVars, fwdVars, history>>
vars == <<watcherVars, ownVars>>

TypeOK ==
    /\ WatcherTypeOK
    /\ active \in BOOLEAN /\ ctx \in Runs \cup {None} /\ wg \subseteq Runs \X Files
    /\ merged \in Seq(Files \X Change) /\ Len(merged) <= Room
    /\ mergedShut \in BOOLEAN
    /\ start \in [Runs -> {"idle", "swapped", "files", "nil"}]
    /\ toStart \in [Runs -> SUBSET Files]
    /\ stopping \in [Stops -> {"idle", "nil", "swapped", "files", "close", "stopped"}]
    /\ toStop \in [Stops -> SUBSET Files] /\ waitFor \in [Stops -> Files \cup {None}]
    /\ fwd \in [Runs -> [Files -> {"off", "select", "send", "done"}]]
    /\ carried \in [Runs -> [Files -> Change]]
    /\ seen \in [Files -> Change]
    /\ launched \subseteq Runs /\ overlap \in [Stops -> SUBSET Runs] /\ timedOut \subseteq Stops

Init ==
    /\ WatcherInit
    /\ active = FALSE /\ ctx = None /\ wg = {}
    /\ merged = <<>> /\ mergedShut = FALSE
    /\ start = [r \in Runs |-> "idle"] /\ toStart = [r \in Runs |-> {}]
    /\ stopping = [s \in Stops |-> "idle"]
    /\ toStop = [s \in Stops |-> {}] /\ waitFor = [s \in Stops |-> None]
    /\ fwd = [r \in Runs |-> [f \in Files |-> "off"]]
    /\ carried = [r \in Runs |-> [f \in Files |-> Deleted]]
    /\ seen = [f \in Files |-> 0]
    /\ launched = {} /\ overlap = [s \in Stops |-> {}] /\ timedOut = {}

-----------------------------------------------------------------------------
(* Start.                                                                  *)

StartSwap(r) ==
    /\ start[r] = "idle"
    /\ active \/ launched = {}
    /\ active' = TRUE
    /\ start' = [start EXCEPT ![r] = IF active THEN "nil" ELSE "swapped"]
    /\ launched' = IF active THEN launched ELSE launched \cup {r}
    /\ UNCHANGED <<watcherVars, ctx, wg, merged, mergedShut, toStart, stopping, toStop,
                   waitFor, fwdVars, seen, overlap, timedOut>>

StartContext(r) ==
    /\ start[r] = "swapped"
    /\ ctx' = r
    /\ start' = [start EXCEPT ![r] = "files"]
    /\ toStart' = [toStart EXCEPT ![r] = Files]
    /\ UNCHANGED <<watcherVars, active, wg, merged, mergedShut, stopping, toStop, waitFor,
                   fwdVars, history>>

StartFile(r, f) ==
    /\ start[r] = "files" /\ f \in toStart[r]
    /\ StartWatcher(r, f)
    /\ toStart' = [toStart EXCEPT ![r] = @ \ {f}]
    /\ wg' = wg \cup {<<r, f>>}
    /\ fwd' = [fwd EXCEPT ![r][f] = "select"]
    /\ UNCHANGED <<active, ctx, merged, mergedShut, start, stopping, toStop, waitFor,
                   carried, history>>

StartReturn(r) ==
    /\ start[r] = "files" /\ toStart[r] = {}
    /\ start' = [start EXCEPT ![r] = "nil"]
    /\ UNCHANGED <<watcherVars, multiVars, toStart, stopping, toStop, waitFor, fwdVars, history>>

StartStep(r) == StartContext(r) \/ StartReturn(r) \/ \E f \in Files : StartFile(r, f)

-----------------------------------------------------------------------------
(* forward.  It reads MultiWatcher.ctx at each turn.                       *)

ContextDone == ctx \in done

ForwardTake(r, f) ==
    /\ fwd[r][f] = "select"
    /\ Receive(f)
    /\ fwd' = [fwd EXCEPT ![r][f] = "send"]
    /\ carried' = [carried EXCEPT ![r][f] = Head(changes[f])]
    /\ UNCHANGED <<multiVars, callVars, history>>

ForwardSend(r, f) ==
    /\ fwd[r][f] = "send" /\ ~mergedShut /\ Len(merged) < Room
    /\ merged' = Append(merged, <<f, carried[r][f]>>)
    /\ fwd' = [fwd EXCEPT ![r][f] = "select"]
    /\ carried' = [carried EXCEPT ![r][f] = Deleted]
    /\ UNCHANGED <<watcherVars, active, ctx, wg, mergedShut, callVars, history>>

ForwardPanics(r, f) ==
    /\ fwd[r][f] = "send" /\ mergedShut
    /\ Panic
    /\ UNCHANGED ownVars

ForwardEnds(r, f) ==
    /\ \/ fwd[r][f] = "select" /\ (ContextDone \/ Drained(f))
       \/ fwd[r][f] = "send" /\ ContextDone
    /\ fwd' = [fwd EXCEPT ![r][f] = "done"]
    /\ carried' = [carried EXCEPT ![r][f] = Deleted]
    /\ wg' = wg \ {<<r, f>>}
    /\ UNCHANGED <<watcherVars, active, ctx, merged, mergedShut, callVars, history>>

ForwardStep(r, f) ==
    ForwardTake(r, f) \/ ForwardSend(r, f) \/ ForwardPanics(r, f) \/ ForwardEnds(r, f)

Read ==
    /\ merged # <<>>
    /\ merged' = Tail(merged)
    /\ LET f == Head(merged)[1]
           n == Head(merged)[2]
       IN seen' = [seen EXCEPT ![f] = IF n = Deleted THEN @ ELSE n]
    /\ UNCHANGED <<watcherVars, active, ctx, wg, mergedShut, callVars, fwdVars,
                   launched, overlap, timedOut>>

-----------------------------------------------------------------------------
(* Stop.                                                                   *)

StopSwap(s) ==
    /\ stopping[s] = "idle"
    /\ active' = FALSE
    /\ stopping' = [stopping EXCEPT ![s] = IF active THEN "swapped" ELSE "nil"]
    /\ overlap' = [overlap EXCEPT ![s] = {r \in Runs : start[r] # "nil"}]
    /\ UNCHANGED <<watcherVars, ctx, wg, merged, mergedShut, start, toStart, toStop,
                   waitFor, fwdVars, seen, launched, timedOut>>

\* Mutant: Stop does not cancel the context.
StopNoCancel(s) ==
    /\ stopping[s] = "swapped"
    /\ stopping' = [stopping EXCEPT ![s] = "files"]
    /\ toStop' = [toStop EXCEPT ![s] = Files]
    /\ UNCHANGED <<watcherVars, multiVars, start, toStart, waitFor, fwdVars, history>>

StopCancel(s) ==
    /\ stopping[s] = "swapped"
    /\ done' = done \cup ({ctx} \ {None})
    /\ stopping' = [stopping EXCEPT ![s] = "files"]
    /\ toStop' = [toStop EXCEPT ![s] = Files]
    /\ UNCHANGED <<disk, lastMod, running, chanVars, pollVars, panicked, multiVars,
                   start, toStart, waitFor, fwdVars, history>>

\* Mutant: the last watcher is left out.
StopFileMissed(s, f) ==
    /\ stopping[s] = "files" /\ f \in toStop[s]
    /\ toStop' = [toStop EXCEPT ![s] = {}]
    /\ UNCHANGED <<watcherVars, multiVars, start, toStart, stopping, waitFor, fwdVars, history>>

\* One watcher after the other ...
StopFile(s, f) ==
    /\ stopping[s] = "files" /\ waitFor[s] = None /\ f \in toStop[s]
    /\ toStop' = [toStop EXCEPT ![s] = @ \ {f}]
    /\ \/ StopWatcher(f) /\ waitFor' = [waitFor EXCEPT ![s] = f]
       \/ ~running[f] /\ UNCHANGED <<watcherVars, waitFor>>
    /\ UNCHANGED <<multiVars, start, toStart, stopping, fwdVars, history>>

StopFileDone(s) ==
    /\ waitFor[s] # None /\ stopped[waitFor[s]]
    /\ waitFor' = [waitFor EXCEPT ![s] = None]
    /\ UNCHANGED <<watcherVars, multiVars, start, toStart, stopping, toStop, fwdVars, history>>

\* Mutant: Stop does not wait for the goroutines.
StopWaitsNot(s) ==
    /\ stopping[s] = "files" /\ waitFor[s] = None /\ toStop[s] = {}
    /\ stopping' = [stopping EXCEPT ![s] = "close"]
    /\ UNCHANGED <<watcherVars, multiVars, start, toStart, toStop, waitFor, fwdVars, history>>

\* ... then the goroutines: they have finished, or have had five seconds.
StopWaited(s) ==
    /\ stopping[s] = "files" /\ waitFor[s] = None /\ toStop[s] = {}
    /\ stopping' = [stopping EXCEPT ![s] = "close"]
    /\ timedOut' = IF wg = {} THEN timedOut ELSE timedOut \cup {s}
    /\ UNCHANGED <<watcherVars, multiVars, start, toStart, toStop, waitFor, fwdVars,
                   seen, launched, overlap>>

\* No other Stop has got this far, and closed the channel.
StopReturn(s) ==
    /\ stopping[s] = "close"
    /\ mergedShut' = TRUE
    /\ stopping' = [stopping EXCEPT ![s] = "stopped"]
    /\ UNCHANGED <<watcherVars, active, ctx, wg, merged, start, toStart, toStop, waitFor,
                   fwdVars, history>>

StopStep(s) ==
    \/ StopCancel(s) \/ StopFileDone(s) \/ StopWaited(s) \/ StopReturn(s)
    \/ \E f \in Files : StopFile(s, f)

-----------------------------------------------------------------------------
(* The system.                                                             *)

WatcherStep ==
    /\ \/ \E f \in Files : Write(f) \/ Vanish(f) \/ ComeBack(f)
       \/ \E r \in Runs : Cancel(r)
       \/ \E r \in Runs, f \in Files : PollStep(r, f)
    /\ UNCHANGED ownVars

Next ==
    /\ ~panicked
    /\ \/ WatcherStep
       \/ \E r \in Runs : StartSwap(r) \/ StartStep(r)
       \/ \E r \in Runs, f \in Files : ForwardStep(r, f)
       \/ Read
       \/ \E s \in Stops : StopSwap(s) \/ StopStep(s)

Spec == Init /\ [][Next]_vars

\* Goroutines keep running and tickers keep ticking; nobody need read.
Fairness ==
    /\ \A r \in Runs, f \in Files :
          /\ WF_vars(~panicked /\ PollStep(r, f) /\ UNCHANGED ownVars)
          /\ SF_vars(~panicked /\ Leave(r, f) /\ UNCHANGED ownVars)
          /\ WF_vars(~panicked /\ ForwardStep(r, f))
          /\ SF_vars(~panicked /\ ForwardEnds(r, f))
    /\ \A r \in Runs : WF_vars(~panicked /\ StartStep(r))
    /\ \A s \in Stops : WF_vars(~panicked /\ StopStep(s))

FairSpec == Spec /\ Fairness

-----------------------------------------------------------------------------
(* Properties.                                                             *)

Clean(s) == launched \cap overlap[s] = {} /\ s \notin timedOut

\* No goroutine sends on a closed channel and none is closed twice, as long
\* as no Stop begins while Start is under way and the goroutines end within
\* five seconds: it is Stop that closes the channel they send on
\* (watch.go:350-394, 397-428).
PanicOnlyFromRace == (\A s \in Stops : Clean(s)) => ~panicked

\* The changes of a file pass through the two channels and the goroutine
\* between them in the order of the writes, and none twice: whatever is still
\* to be read is younger than what was read (watch.go:274-283, 375-394).
InOrderOnce ==
    \A f \in Files :
        LET unread == {carried[r][f] : r \in Runs}
                          \cup {merged[i][2] : i \in {j \in 1..Len(merged) : merged[j][1] = f}}
                          \cup {changes[f][i] : i \in 1..Len(changes[f])}
        IN \A n \in unread \ {Deleted} : n > seen[f]

\* When Stop returns no goroutine runs any more, unless a call of Start was
\* under way since Stop began, or a goroutine was slower than five seconds
\* (watch.go:397-428).
LeakOnlyFromRace ==
    [][\A s \in Stops :
          (stopping[s] = "close" /\ stopping'[s] = "stopped" /\ Clean(s)) =>
              \A r \in Runs, f \in Files :
                  ~Polling(r, f) /\ fwd[r][f] \in {"off", "done"}]_stopping

\* Stop returns, even if nobody reads the changes, unless it came before
\* Start had stored its context, which nobody then cancels (watch.go:355-356,
\* 402-411).
StopReturns ==
    \A s \in Stops : stopping[s] = "swapped"
        ~> \/ stopping[s] = "stopped" \/ panicked
           \/ ~(launched \cap overlap[s] \subseteq done)

=============================================================================
