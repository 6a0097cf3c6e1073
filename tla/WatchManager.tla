---------------------------- MODULE WatchManager ----------------------------
(***************************************************************************)
(* watch.Manager (watch/watch.go) over file watchers: Start, Stop, and a   *)
(* goroutine for each watcher that forwards its changes to the callbacks.  *)
(*                                                                         *)
(* An element of Runs is one call of Start, an element of Stops one call   *)
(* of Stop.  Files stands for the registered watchers.                     *)
(***************************************************************************)
EXTENDS FileWatcher

CONSTANTS
    Stops,
    MayFail, \* watchers, of another implementation, whose Start may fail
    Hanging, \* watchers whose changes a callback may hang on
    MayRestart, \* whether callers call Start when Stop has been called
    None

ASSUME WatchManagerAssumption ==
    /\ MayFail \subseteq Files /\ Hanging \subseteq Files
    /\ MayRestart \in BOOLEAN
    /\ None \notin Runs \cup Files

VARIABLES
    active,    \* Manager.running
    ctx,       \* the run whose context Manager.ctx is, and cancel cancels
    wg,        \* the counter of Manager.wg
    start,     \* progress of a call of Start
    toStart,   \* watchers it has still to start
    fwd,       \* progress of forwardChanges, by run
    sees,      \* the run whose context its select waits for
    stopping,  \* progress of a call of Stop
    toStop,    \* watchers it has still to stop
    waitFor,   \* the watcher whose goroutine it waits for
    \* history variables
    told,      \* by file, the writes the callbacks were told about, in order
    launched,  \* runs that have passed the check of Start
    overlap,   \* by Stop, the runs that had not returned when it began
    timedOut   \* calls of Stop that did not wait to the end

mgrVars  == <<active, ctx, wg>>
callVars == <<start, toStart, stopping, toStop, waitFor>>
history  == <<told, launched, overlap, timedOut>>
fwdVars  == <<fwd, sees>>
ownVars  == <<mgrVars, callVars, fwdVars, history>>
vars == <<watcherVars, ownVars>>

Forwarding(r, f) == fwd[r][f] \in {"begun", "select", "call"}

TypeOK ==
    /\ WatcherTypeOK
    /\ active \in BOOLEAN
    /\ ctx \in Runs \cup {None}
    /\ wg \in Nat
    /\ start \in [Runs -> {"idle", "swapped", "files", "nil", "err"}]
    /\ toStart \in [Runs -> SUBSET Files]
    /\ fwd \in [Runs -> [Files -> {"off", "begun", "select", "call", "done"}]]
    /\ sees \in [Runs -> [Files -> Runs \cup {None}]]
    /\ stopping \in [Stops -> {"idle", "swapped", "wait", "files", "stopped", "nil"}]
    /\ toStop \in [Stops -> SUBSET Files]
    /\ waitFor \in [Stops -> Files \cup {None}]
    /\ \A s \in Stops : waitFor[s] # None => stopping[s] = "files"
    /\ told \in [Files -> Seq(Change)]
    /\ launched \subseteq Runs
    /\ overlap \in [Stops -> SUBSET Runs]
    /\ timedOut \subseteq Stops

Init ==
    /\ WatcherInit
    /\ active = FALSE /\ ctx = None /\ wg = 0
    /\ start = [r \in Runs |-> "idle"]
    /\ toStart = [r \in Runs |-> {}]
    /\ fwd = [r \in Runs |-> [f \in Files |-> "off"]]
    /\ sees = [r \in Runs |-> [f \in Files |-> None]]
    /\ stopping = [s \in Stops |-> "idle"]
    /\ toStop = [s \in Stops |-> {}] /\ waitFor = [s \in Stops |-> None]
    /\ told = [f \in Files |-> <<>>]
    /\ launched = {}
    /\ overlap = [s \in Stops |-> {}] /\ timedOut = {}

-----------------------------------------------------------------------------
(* Start.                                                                  *)

StartSwap(r) ==
    /\ start[r] = "idle"
    /\ active \/ launched = {} \/ MayRestart
    /\ active' = TRUE
    /\ start' = [start EXCEPT ![r] = IF active THEN "nil" ELSE "swapped"]
    /\ launched' = IF active THEN launched ELSE launched \cup {r}
    /\ UNCHANGED <<watcherVars, ctx, wg, toStart, stopping, toStop, waitFor, fwdVars,
                   told, overlap, timedOut>>

StartContext(r) ==
    /\ start[r] = "swapped"
    /\ ctx' = r
    /\ start' = [start EXCEPT ![r] = "files"]
    /\ toStart' = [toStart EXCEPT ![r] = Files]
    /\ UNCHANGED <<watcherVars, active, wg, stopping, toStop, waitFor, fwdVars, history>>

\* A watcher is started, then a goroutine to forward its changes.
StartFile(r, f) ==
    /\ start[r] = "files" /\ f \in toStart[r]
    /\ StartWatcher(r, f)
    /\ toStart' = [toStart EXCEPT ![r] = @ \ {f}]
    /\ wg' = wg + 1
    /\ fwd' = [fwd EXCEPT ![r][f] = "begun"]
    /\ UNCHANGED <<active, ctx, sees, start, stopping, toStop, waitFor, history>>

StartFails(r) ==
    /\ start[r] = "files" /\ toStart[r] \cap MayFail # {}
    /\ start' = [start EXCEPT ![r] = "err"]
    /\ UNCHANGED <<watcherVars, mgrVars, toStart, stopping, toStop, waitFor, fwdVars, history>>

StartReturn(r) ==
    /\ start[r] = "files" /\ toStart[r] = {}
    /\ start' = [start EXCEPT ![r] = "nil"]
    /\ UNCHANGED <<watcherVars, mgrVars, toStart, stopping, toStop, waitFor, fwdVars, history>>

StartStep(r) ==
    \/ StartContext(r) \/ StartReturn(r) \/ StartFails(r)
    \/ \E f \in Files : StartFile(r, f)

-----------------------------------------------------------------------------
(* forwardChanges.                                                         *)

\* Each turn of the loop reads Manager.ctx once, on the way to its select,
\* and waits for that context even if a later Start replaces it.
Select(r, f) ==
    /\ fwd' = [fwd EXCEPT ![r][f] = "select"]
    /\ sees' = [sees EXCEPT ![r][f] = ctx]
    /\ UNCHANGED <<watcherVars, mgrVars, callVars, history>>

FirstTurn(r, f) == fwd[r][f] = "begun" /\ Select(r, f)

\* Mutant: a callback that panics ends the goroutine.
ForwardedDies(r, f) ==
    /\ fwd[r][f] = "call"
    /\ fwd' = [fwd EXCEPT ![r][f] = "done"]
    /\ wg' = wg - 1
    /\ UNCHANGED <<watcherVars, active, ctx, callVars, sees, history>>

\* The callbacks have returned, failed or panicked (which is recovered).
Forwarded(r, f) == fwd[r][f] = "call" /\ Select(r, f)

Forward(r, f) ==
    /\ fwd[r][f] = "select"
    /\ Receive(f)
    /\ fwd' = [fwd EXCEPT ![r][f] = "call"]
    /\ sees' = [sees EXCEPT ![r][f] = None]
    /\ told' = [told EXCEPT ![f] = IF Head(changes[f]) = Deleted THEN @
                                   ELSE Append(@, Head(changes[f]))]
    /\ UNCHANGED <<mgrVars, callVars, launched, overlap, timedOut>>

ContextDone(r, f) == sees[r][f] \in done

ForwardEnds(r, f) ==
    /\ fwd[r][f] = "select" /\ (ContextDone(r, f) \/ Drained(f))
    /\ fwd' = [fwd EXCEPT ![r][f] = "done"]
    /\ sees' = [sees EXCEPT ![r][f] = None]
    /\ wg' = wg - 1
    /\ UNCHANGED <<watcherVars, active, ctx, callVars, history>>

-----------------------------------------------------------------------------
(* Stop.                                                                   *)

StopSwap(s) ==
    /\ stopping[s] = "idle"
    /\ active' = FALSE
    /\ stopping' = [stopping EXCEPT ![s] = IF active THEN "swapped" ELSE "nil"]
    /\ overlap' = [overlap EXCEPT ![s] = {r \in Runs : start[r] \notin {"nil", "err"}}]
    /\ UNCHANGED <<watcherVars, ctx, wg, start, toStart, toStop, waitFor, fwdVars,
                   told, launched, timedOut>>

StopCancel(s) ==
    /\ stopping[s] = "swapped"
    /\ done' = done \cup ({ctx} \ {None})
    /\ stopping' = [stopping EXCEPT ![s] = "wait"]
    /\ UNCHANGED <<disk, lastMod, running, chanVars, pollVars, panicked,
                   mgrVars, start, toStart, toStop, waitFor, fwdVars, history>>

\* The goroutines have finished ...
StopWaited(s) ==
    /\ stopping[s] = "wait" /\ wg = 0
    /\ stopping' = [stopping EXCEPT ![s] = "files"]
    /\ toStop' = [toStop EXCEPT ![s] = Files]
    /\ UNCHANGED <<watcherVars, mgrVars, start, toStart, waitFor, fwdVars, history>>

\* Mutant: Stop waits as long as it takes.
StopTimeoutNever(s) == FALSE /\ UNCHANGED vars

\* ... or five seconds have passed.
StopTimeout(s) ==
    /\ stopping[s] = "wait"
    /\ stopping' = [stopping EXCEPT ![s] = "files"]
    /\ toStop' = [toStop EXCEPT ![s] = Files]
    /\ timedOut' = timedOut \cup {s}
    /\ UNCHANGED <<watcherVars, mgrVars, start, toStart, waitFor, fwdVars,
                   told, launched, overlap>>

\* Mutant: FileWatcher.Stop does not wait for stopped.
StopFileNoWait(s, f) ==
    /\ stopping[s] = "files" /\ f \in toStop[s]
    /\ toStop' = [toStop EXCEPT ![s] = @ \ {f}]
    /\ StopWatcher(f) \/ (~running[f] /\ UNCHANGED watcherVars)
    /\ UNCHANGED <<mgrVars, start, toStart, stopping, waitFor, fwdVars, history>>

StopFile(s, f) ==
    /\ stopping[s] = "files" /\ waitFor[s] = None /\ f \in toStop[s]
    /\ toStop' = [toStop EXCEPT ![s] = @ \ {f}]
    /\ \/ StopWatcher(f) /\ waitFor' = [waitFor EXCEPT ![s] = f]
       \/ ~running[f] /\ UNCHANGED <<watcherVars, waitFor>>
    /\ UNCHANGED <<mgrVars, start, toStart, stopping, fwdVars, history>>

StopFileDone(s) ==
    /\ waitFor[s] # None /\ stopped[waitFor[s]]
    /\ waitFor' = [waitFor EXCEPT ![s] = None]
    /\ UNCHANGED <<watcherVars, mgrVars, start, toStart, stopping, toStop, fwdVars, history>>

StopReturn(s) ==
    /\ stopping[s] = "files" /\ waitFor[s] = None /\ toStop[s] = {}
    /\ stopping' = [stopping EXCEPT ![s] = "stopped"]
    /\ UNCHANGED <<watcherVars, mgrVars, start, toStart, toStop, waitFor, fwdVars, history>>

StopStep(s) ==
    \/ StopCancel(s) \/ StopWaited(s) \/ StopTimeout(s)
    \/ \E f \in Files : StopFile(s, f)
    \/ StopFileDone(s) \/ StopReturn(s)

-----------------------------------------------------------------------------
(* The system.                                                             *)

ForwardStep(r, f) == FirstTurn(r, f) \/ Forward(r, f) \/ ForwardEnds(r, f)

WatcherStep ==
    /\ \/ \E f \in Files : Write(f) \/ Vanish(f) \/ ComeBack(f)
       \/ \E r \in Runs : Cancel(r)
       \/ \E r \in Runs, f \in Files : PollStep(r, f)
    /\ UNCHANGED ownVars

\* A panic ends the program.
Next ==
    /\ ~panicked
    /\ \/ WatcherStep
       \/ \E r \in Runs : StartSwap(r) \/ StartStep(r)
       \/ \E r \in Runs, f \in Files : ForwardStep(r, f) \/ Forwarded(r, f)
       \/ \E s \in Stops : StopSwap(s) \/ StopStep(s)

Spec == Init /\ [][Next]_vars

\* Goroutines inside the package keep running, tickers keep ticking, and a
\* callback that does not hang returns.
Fairness ==
    /\ \A r \in Runs, f \in Files :
          /\ WF_vars(~panicked /\ PollStep(r, f) /\ UNCHANGED ownVars)
          /\ SF_vars(~panicked /\ Leave(r, f) /\ UNCHANGED ownVars)
          /\ WF_vars(~panicked /\ ForwardStep(r, f))
          /\ SF_vars(~panicked /\ ForwardEnds(r, f))
          /\ f \notin Hanging => WF_vars(~panicked /\ Forwarded(r, f))
    /\ \A r \in Runs : WF_vars(~panicked /\ StartStep(r))
    /\ \A s \in Stops : WF_vars(~panicked /\ StopStep(s))

FairSpec == Spec /\ Fairness

-----------------------------------------------------------------------------
(* Properties.                                                             *)

Once == \A r, q \in launched : r = q

\* While one call of Start has got past its check, the callbacks are told of
\* each write at most once and in order, whatever contexts are cancelled
\* (watch.go:108-141, 274-283).
InOrderOnce ==
    Once => \A f \in Files : \A i, j \in 1..Len(told[f]) : i < j => told[f][i] < told[f][j]

\* While one call of Start has got past its check, no goroutine panics: no
\* channel is closed twice or sent on when it is closed, however many calls
\* of Stop run and whatever they interrupt (watch.go:239-297).
PanicOnlyFromRestart == Once => ~panicked

\* Manager.wg counts the goroutines that forward changes, so that Stop does not
\* wait for one that has ended, nor pass by one that runs (watch.go:98-99,
\* 109, 156).
Forwarders == {p \in Runs \X Files : Forwarding(p[1], p[2])}

WaitGroupExact == wg = Cardinality(Forwarders)

\* When Stop returns nothing runs any more, except goroutines that forward
\* changes if Stop has not waited for them longer than five seconds, unless a
\* call of Start was under way since Stop began, or another Stop still is
\* (watch.go:144-178, "zero goroutine leaks" in watch.go:2).
Alone(s) ==
    /\ launched \cap overlap[s] = {}
    /\ \A t \in Stops \ {s} : stopping[t] \in {"idle", "nil", "stopped"}

LeakOnlyFromRace ==
    [][\A s \in Stops :
          (stopping[s] = "files" /\ stopping'[s] = "stopped" /\ Alone(s)) =>
              \A r \in Runs, f \in Files :
                  ~Polling(r, f) /\ (Forwarding(r, f) => s \in timedOut)]_stopping

\* Stop returns, even if callbacks hang, unless it came before Start had
\* stored its context, which nobody then cancels (watch.go:87-88, 149-167).
StopReturns ==
    \A s \in Stops : stopping[s] = "swapped"
        ~> \/ stopping[s] = "stopped" \/ panicked
           \/ \E r \in overlap[s] \cap launched, f \in Hanging : fwd[r][f] = "call"

\* A write to a watched file is told to the callbacks, in order and not twice,
\* unless the file vanishes, a callback hangs or the manager is stopped: the
\* channel may be full, but no change is dropped (watch.go:108-141, 274-283).
Watched(f) == \E r \in Runs \ done : Polling(r, f) /\ start[r] = "nil"

Hung(f) == f \in Hanging /\ \E r \in Runs : fwd[r][f] = "call"

WriteIsTold ==
    /\ []InOrderOnce
    /\ \A f \in Files : \A n \in 1..MaxWrites :
           (Watched(f) /\ disk[f] = [n |-> n, here |-> TRUE] /\ lastMod[f] < n)
               ~> \/ \E i \in 1..Len(told[f]) : told[f][i] >= n
                  \/ ~disk[f].here \/ ~Watched(f) \/ stop[f] \/ Hung(f) \/ panicked

=============================================================================
