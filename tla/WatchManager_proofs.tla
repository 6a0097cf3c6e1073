------------------------ MODULE WatchManager_proofs ------------------------
(***************************************************************************)
(* Proofs about WatchManager, for any number of watchers and calls.        *)
(***************************************************************************)
EXTENDS WatchManager, FileWatcher_proofs, FiniteSetTheorems

USE FileWatcherAssumption, WatchManagerAssumption
USE DEF chanVars, pollVars, mgrVars, callVars, fwdVars, history, ownVars, Change, Deleted

-----------------------------------------------------------------------------
(* Type correctness, with what Manager.wg counts.                          *)

LEMMA ForwardersFinite == IsFiniteSet(Forwarders) /\ Cardinality(Forwarders) \in Nat
  BY FS_Product, FS_Subset, FS_CardinalityType DEF Forwarders

LEMMA ForwarderStarts ==
  ASSUME NEW r \in Runs, NEW f \in Files, <<r, f>> \notin Forwarders,
         Forwarders' = Forwarders \cup {<<r, f>>}
  PROVE  Cardinality(Forwarders') = Cardinality(Forwarders) + 1
  BY ForwardersFinite, FS_AddElement

LEMMA ForwarderEnds ==
  ASSUME NEW r \in Runs, NEW f \in Files, <<r, f>> \in Forwarders,
         Forwarders' = Forwarders \ {<<r, f>>}
  PROVE  /\ Cardinality(Forwarders') = Cardinality(Forwarders) - 1
         /\ Cardinality(Forwarders) > 0
<1>1. Cardinality(Forwarders \ {<<r, f>>}) = Cardinality(Forwarders) - 1
  BY ForwardersFinite, FS_RemoveElement
<1>2. IsFiniteSet(Forwarders \ {<<r, f>>}) /\ Cardinality(Forwarders \ {<<r, f>>}) \in Nat
  BY ForwardersFinite, FS_RemoveElement, FS_CardinalityType
<1> QED  BY <1>1, <1>2, ForwardersFinite

\* The part of TypeOK about the manager.
OwnTypeOK ==
  /\ active \in BOOLEAN
  /\ ctx \in Runs \cup {None}
  /\ wg \in Nat
  /\ start \in [Runs -> {"idle", "swapped", "files", "nil", "err"}]
  /\ toStart \in [Runs -> SUBSET Files]
  /\ fwd \in [Runs -> [Files -> {"off", "begun", "select", "call", "done"}]]
  /\ sees \in [Runs -> [Files -> Runs \cup {None}]]
  /\ stopping \in [Stops -> {"idle", "swapped", "wait", "files", "stopped", "nil"}]
  /\ toStop \in [Stops -> SUBSET Files]
  /\ waitFor \in [Stops -> Files \cup {None}]
  /\ \A s \in Stops : waitFor[s] # None => stopping[s] = "files"
  /\ told \in [Files -> Seq(Change)]
  /\ launched \subseteq Runs
  /\ overlap \in [Stops -> SUBSET Runs]
  /\ timedOut \subseteq Stops

\* A goroutine forwards the changes of a watcher only once the watcher has
\* been started.
StartedInv ==
  \A r \in Runs, f \in Files :
      f \in toStart[r] \/ start[r] \in {"idle", "swapped"} => fwd[r][f] = "off"

CountedTypeOK == WatcherTypeOK /\ OwnTypeOK /\ StartedInv /\ WaitGroupExact

LEMMA TypeInit == Init => CountedTypeOK
<1> SUFFICES ASSUME Init PROVE CountedTypeOK
  OBVIOUS
<1>1. WatcherTypeOK
  BY TypeWatcherInit DEF Init
<1>2. OwnTypeOK /\ StartedInv
  <2>1. told \in [Files -> Seq(Change)]
    BY DEF Init
  <2> QED  BY <2>1 DEF Init, OwnTypeOK, StartedInv
<1>3. Forwarders = {}
  BY DEF Init, Forwarders, Forwarding
<1> QED  BY <1>1, <1>2, <1>3, FS_EmptySet DEF CountedTypeOK, WaitGroupExact, Init

-----------------------------------------------------------------------------
(* The actions of the manager.                                             *)

\* Nothing that Forwarders or StartedInv depend on changes.
LEMMA CountedSame ==
  ASSUME CountedTypeOK, WatcherTypeOK', OwnTypeOK', UNCHANGED <<fwd, wg>>,
         \A r \in Runs : /\ toStart'[r] \subseteq toStart[r]
                         /\ start'[r] \in {"idle", "swapped"} => start[r] \in {"idle", "swapped"}
  PROVE  CountedTypeOK'
<1>1. Forwarders' = Forwarders
  BY DEF Forwarders, Forwarding
<1>2. StartedInv'
  BY DEF CountedTypeOK, StartedInv
<1> QED  BY <1>1, <1>2 DEF CountedTypeOK, WaitGroupExact

LEMMA TypeWatcherStep ==
  ASSUME CountedTypeOK, WatcherStep
  PROVE  CountedTypeOK'
<1>1. WatcherTypeOK'
  <2>1. ASSUME NEW r \in Runs, Cancel(r) PROVE WatcherTypeOK'
    BY <2>1 DEF CountedTypeOK, WatcherTypeOK, Cancel
  <2> QED  BY <2>1, TypeFiles, TypePoll DEF CountedTypeOK, WatcherStep
<1>2. UNCHANGED ownVars
  BY DEF WatcherStep
<1>3. OwnTypeOK'
  BY <1>2 DEF CountedTypeOK, OwnTypeOK
<1> QED  BY <1>1, <1>2, <1>3, CountedSame

LEMMA TypeStart ==
  ASSUME CountedTypeOK, NEW r \in Runs, StartSwap(r) \/ StartStep(r)
  PROVE  CountedTypeOK'
<1> USE DEF CountedTypeOK
<1>1. CASE StartSwap(r)
  <2>1. WatcherTypeOK'
    BY <1>1 DEF StartSwap, WatcherTypeOK, watcherVars
  <2>2. OwnTypeOK'
    BY <1>1 DEF StartSwap, OwnTypeOK
  <2>3. \A q \in Runs : start'[q] \in {"idle", "swapped"} => start[q] \in {"idle", "swapped"}
    BY <1>1 DEF StartSwap, OwnTypeOK
  <2> QED  BY <1>1, <2>1, <2>2, <2>3, CountedSame DEF StartSwap
<1>2. CASE StartContext(r)
  <2>1. WatcherTypeOK'
    BY <1>2 DEF StartContext, WatcherTypeOK, watcherVars
  <2>2. OwnTypeOK'
    BY <1>2 DEF StartContext, OwnTypeOK
  <2>3. Forwarders' = Forwarders
    BY <1>2 DEF StartContext, Forwarders, Forwarding
  <2>4. StartedInv'
    BY <1>2 DEF StartContext, StartedInv, OwnTypeOK
  <2> QED  BY <1>2, <2>1, <2>2, <2>3, <2>4 DEF StartContext, WaitGroupExact
<1>3. ASSUME NEW f \in Files, StartFile(r, f) PROVE CountedTypeOK'
  <2>1. WatcherTypeOK'
    BY <1>3, TypeStartStop DEF StartFile
  <2>2. OwnTypeOK'
    BY <1>3 DEF StartFile, OwnTypeOK
  <2>3. fwd[r][f] = "off"
    BY <1>3 DEF StartFile, StartedInv
  <2>4. <<r, f>> \notin Forwarders /\ Forwarders' = Forwarders \cup {<<r, f>>}
    <3>1. /\ fwd' = [fwd EXCEPT ![r][f] = "begun"]
          /\ fwd \in [Runs -> [Files -> {"off", "begun", "select", "call", "done"}]]
      BY <1>3 DEF StartFile, OwnTypeOK
    <3>2. /\ fwd'[r][f] = "begun"
          /\ \A q \in Runs, g \in Files : <<q, g>> # <<r, f>> => fwd'[q][g] = fwd[q][g]
      BY <3>1
    <3> QED  BY <2>3, <3>2 DEF Forwarders, Forwarding
  <2>5. StartedInv'
    BY <1>3 DEF StartFile, StartedInv, OwnTypeOK
  <2> QED  BY <1>3, <2>1, <2>2, <2>4, <2>5, ForwarderStarts DEF StartFile, WaitGroupExact
<1>4. CASE StartFails(r) \/ StartReturn(r)
  <2>1. WatcherTypeOK'
    BY <1>4 DEF StartFails, StartReturn, WatcherTypeOK, watcherVars
  <2>2. OwnTypeOK'
    <3>1. /\ start' = [start EXCEPT ![r] = start'[r]] /\ start'[r] \in {"nil", "err"}
          /\ UNCHANGED <<mgrVars, toStart, stopping, toStop, waitFor, fwdVars, history>>
      BY <1>4 DEF StartFails, StartReturn, OwnTypeOK
    <3> QED  BY <3>1 DEF OwnTypeOK
  <2>3. \A q \in Runs : start'[q] \in {"idle", "swapped"} => start[q] \in {"idle", "swapped"}
    BY <1>4 DEF StartFails, StartReturn, OwnTypeOK
  <2> QED  BY <1>4, <2>1, <2>2, <2>3, CountedSame DEF StartFails, StartReturn
<1> QED  BY <1>1, <1>2, <1>3, <1>4 DEF StartStep

LEMMA TypeForward ==
  ASSUME CountedTypeOK, NEW r \in Runs, NEW f \in Files,
         ForwardStep(r, f) \/ Forwarded(r, f)
  PROVE  CountedTypeOK'
<1> USE DEF CountedTypeOK
<1>1. CASE Forward(r, f)
  <2>1. WatcherTypeOK' /\ Head(changes[f]) \in Change
    BY <1>1, TypeReceive DEF Forward
  <2>2. told' \in [Files -> Seq(Change)]
    <3>1. told[f] \in Seq(0..MaxWrites)
      BY DEF OwnTypeOK
    <3>2. Append(told[f], Head(changes[f])) \in Seq(0..MaxWrites)
      BY <2>1, <3>1
    <3> QED  BY <1>1, <3>1, <3>2 DEF Forward, OwnTypeOK
  <2>3. OwnTypeOK'
    BY <1>1, <2>2 DEF Forward, OwnTypeOK
  <2>4. Forwarders' = Forwarders
    BY <1>1 DEF Forward, Forwarders, Forwarding, OwnTypeOK
  <2>5. StartedInv'
    BY <1>1 DEF Forward, StartedInv, OwnTypeOK
  <2> QED  BY <1>1, <2>1, <2>3, <2>4, <2>5 DEF Forward, WaitGroupExact
<1>2. CASE FirstTurn(r, f) \/ Forwarded(r, f)
  <2>1. fwd[r][f] \in {"begun", "call"} /\ Select(r, f)
    BY <1>2 DEF FirstTurn, Forwarded
  <2>2. WatcherTypeOK'
    BY <2>1 DEF Select, WatcherTypeOK, watcherVars
  <2>3. OwnTypeOK'
    BY <2>1 DEF Select, OwnTypeOK
  <2>4. Forwarders' = Forwarders
    BY <2>1 DEF Select, Forwarders, Forwarding, OwnTypeOK
  <2>5. StartedInv'
    BY <2>1 DEF Select, StartedInv, OwnTypeOK
  <2> QED  BY <2>1, <2>2, <2>3, <2>4, <2>5 DEF Select, WaitGroupExact
<1>3. CASE ForwardEnds(r, f)
  <2>1. WatcherTypeOK'
    BY <1>3 DEF ForwardEnds, WatcherTypeOK, watcherVars
  <2>2. <<r, f>> \in Forwarders /\ Forwarders' = Forwarders \ {<<r, f>>}
    <3>1. /\ fwd[r][f] = "select" /\ fwd' = [fwd EXCEPT ![r][f] = "done"]
          /\ fwd \in [Runs -> [Files -> {"off", "begun", "select", "call", "done"}]]
      BY <1>3 DEF ForwardEnds, OwnTypeOK
    <3>2. /\ fwd'[r][f] = "done"
          /\ \A q \in Runs, g \in Files : <<q, g>> # <<r, f>> => fwd'[q][g] = fwd[q][g]
      BY <3>1
    <3> QED  BY <3>1, <3>2 DEF Forwarders, Forwarding
  <2>3. Cardinality(Forwarders') = Cardinality(Forwarders) - 1 /\ Cardinality(Forwarders) > 0
    BY <2>2, ForwarderEnds
  <2>4. WaitGroupExact' /\ wg' \in Nat
    BY <1>3, <2>3, ForwardersFinite DEF ForwardEnds, WaitGroupExact
  <2>5. OwnTypeOK'
    BY <1>3, <2>4 DEF ForwardEnds, OwnTypeOK
  <2>6. StartedInv'
    BY <1>3 DEF ForwardEnds, StartedInv, OwnTypeOK
  <2> QED  BY <2>1, <2>4, <2>5, <2>6
<1> QED  BY <1>1, <1>2, <1>3 DEF ForwardStep

LEMMA TypeStop ==
  ASSUME CountedTypeOK, NEW s \in Stops, StopSwap(s) \/ StopStep(s)
  PROVE  CountedTypeOK'
<1>1. /\ WatcherTypeOK' /\ OwnTypeOK'
  <2> USE DEF CountedTypeOK
  <2>1. CASE StopSwap(s)
    <3>1. WatcherTypeOK'
      BY <2>1 DEF StopSwap, WatcherTypeOK, watcherVars
    <3>2. {r \in Runs : start[r] \notin {"nil", "err"}} \in SUBSET Runs
      OBVIOUS
    <3>3. OwnTypeOK'
      BY <2>1, <3>2 DEF StopSwap, OwnTypeOK
    <3> QED  BY <3>1, <3>3
  <2>2. CASE StopCancel(s)
    <3>1. WatcherTypeOK'
      BY <2>2 DEF StopCancel, WatcherTypeOK, OwnTypeOK
    <3>2. OwnTypeOK'
      BY <2>2 DEF StopCancel, OwnTypeOK
    <3> QED  BY <3>1, <3>2
  <2>3. CASE StopWaited(s) \/ StopTimeout(s)
    <3>1. WatcherTypeOK'
      BY <2>3 DEF StopWaited, StopTimeout, WatcherTypeOK, watcherVars
    <3>2. /\ stopping' = [stopping EXCEPT ![s] = "files"]
          /\ toStop' = [toStop EXCEPT ![s] = Files]
          /\ timedOut' \subseteq timedOut \cup {s}
          /\ UNCHANGED <<mgrVars, start, toStart, waitFor, fwdVars, told, launched, overlap>>
      BY <2>3 DEF StopWaited, StopTimeout
    <3>3. OwnTypeOK'
      BY <3>2 DEF OwnTypeOK
    <3> QED  BY <3>1, <3>3
  <2>4. ASSUME NEW f \in Files, StopFile(s, f) PROVE WatcherTypeOK' /\ OwnTypeOK'
    <3>1. WatcherTypeOK'
      <4>1. CASE StopWatcher(f)
        BY <4>1, TypeStartStop
      <4>2. CASE UNCHANGED watcherVars
        BY <4>2 DEF WatcherTypeOK, watcherVars
      <4> QED  BY <2>4, <4>1, <4>2 DEF StopFile
    <3>2. OwnTypeOK'
      <4>1. /\ toStop' = [toStop EXCEPT ![s] = @ \ {f}] /\ stopping[s] = "files"
            /\ waitFor' = waitFor \/ waitFor' = [waitFor EXCEPT ![s] = f]
            /\ UNCHANGED <<mgrVars, start, toStart, stopping, fwdVars, history>>
        BY <2>4 DEF StopFile
      <4>2. waitFor' \in [Stops -> Files \cup {None}]
        BY <4>1 DEF OwnTypeOK
      <4>3. \A t \in Stops : waitFor'[t] # None => stopping'[t] = "files"
        BY <4>1 DEF OwnTypeOK
      <4> QED  BY <4>1, <4>2, <4>3 DEF OwnTypeOK
    <3> QED  BY <3>1, <3>2
  <2>5. CASE StopFileDone(s) \/ StopReturn(s)
    <3>1. WatcherTypeOK'
      BY <2>5 DEF StopFileDone, StopReturn, WatcherTypeOK, watcherVars
    <3>2. CASE StopFileDone(s)
      BY <3>1, <3>2 DEF StopFileDone, OwnTypeOK
    <3>3. CASE StopReturn(s)
      BY <3>1, <3>3 DEF StopReturn, OwnTypeOK
    <3> QED  BY <2>5, <3>2, <3>3
  <2> QED  BY <2>1, <2>2, <2>3, <2>4, <2>5 DEF StopStep
<1>2. UNCHANGED <<start, toStart, fwd, wg>>
  BY DEF StopStep, StopSwap, StopCancel, StopWaited, StopTimeout, StopFile, StopFileDone,
         StopReturn
<1> QED  BY <1>1, <1>2, CountedSame

LEMMA TypeNext == CountedTypeOK /\ [Next]_vars => CountedTypeOK'
<1> SUFFICES ASSUME CountedTypeOK, [Next]_vars PROVE CountedTypeOK'
  OBVIOUS
<1>1. CASE UNCHANGED vars
  <2>1. WatcherTypeOK' /\ OwnTypeOK'
    BY <1>1 DEF CountedTypeOK, WatcherTypeOK, OwnTypeOK, vars, watcherVars
  <2> QED  BY <1>1, <2>1, CountedSame DEF vars
<1>2. CASE Next
  BY <1>2, TypeWatcherStep, TypeStart, TypeForward, TypeStop DEF Next
<1> QED  BY <1>1, <1>2

\* Every state of the manager and its watchers is of its type: in particular
\* the counter of Manager.wg never goes below zero (watch.go:98-99, 109).
THEOREM TypeCorrect == Spec => []TypeOK
<1>1. CountedTypeOK => TypeOK
  BY DEF CountedTypeOK, OwnTypeOK, TypeOK
<1> QED  BY <1>1, TypeInit, TypeNext, PTL DEF Spec

\* For any number of watchers and calls, Manager.wg counts the goroutines that
\* forward changes (watch.go:98-99, 109, 156).
THEOREM WaitGroupCounts == Spec => []WaitGroupExact
<1>1. CountedTypeOK => WaitGroupExact
  BY DEF CountedTypeOK
<1> QED  BY <1>1, TypeInit, TypeNext, PTL DEF Spec

-----------------------------------------------------------------------------
(* Why no goroutine panics.  While one call of Start has got past its      *)
(* check, a watcher has one goroutine in its life: the one that closes its *)
(* channel.  It has not when it still polls, and a watcher that runs has   *)
(* not been stopped.                                                       *)

PollersLaunched ==
  /\ \A r \in Runs : start[r] \in {"swapped", "files", "err"} => r \in launched
  /\ \A r \in Runs, f \in Files :
        poller[r][f] # "off" =>
            /\ r \in launched /\ f \notin toStart[r]
            /\ start[r] \notin {"idle", "swapped"}
  /\ \A f \in Files :
        running[f] \/ stop[f] \/ shut[f] => \E r \in Runs : poller[r][f] # "off"

ChannelsSafe == ~panicked /\ ChannelsOpen

PanicInv == CountedTypeOK /\ PollersLaunched /\ (Once => ChannelsSafe)

LEMMA PanicInit == Init => PanicInv
  BY TypeInit DEF Init, WatcherInit, PanicInv, PollersLaunched, ChannelsSafe, ChannelsOpen

\* A step of a goroutine that polls.
LEMMA PanicPoll ==
  ASSUME PanicInv, NEW r \in Runs, NEW f \in Files, PollStep(r, f), UNCHANGED ownVars
  PROVE  PollersLaunched' /\ (Once' => ChannelsSafe')
<1>1. WatcherTypeOK
  BY DEF PanicInv, CountedTypeOK
<1>2. PollersLaunched'
  <2>1. CASE Panic
    BY <2>1 DEF Panic, PanicInv, PollersLaunched
  <2>2. CASE ~Panic
    <3>1. /\ UNCHANGED <<running, stop>>
          /\ poller[r][f] # "off" /\ poller'[r][f] # "off"
          /\ \A q \in Runs, g \in Files : <<q, g>> # <<r, f>> => poller'[q][g] = poller[q][g]
          /\ \A g \in Files \ {f} : shut'[g] = shut[g]
      BY <1>1, <2>2, PollEffect
    <3> QED  BY <3>1 DEF PanicInv, PollersLaunched
  <2> QED  BY <2>1, <2>2
<1>3. ASSUME Once PROVE ChannelsSafe'
  <2>1. \A q \in Runs : poller[q][f] # "off" => q = r
    <3>1. poller[r][f] # "off"
      BY <1>1, PollEffect
    <3> QED  BY <1>3, <3>1 DEF PanicInv, PollersLaunched, Once
  <2> QED  BY <1>1, <1>3, <2>1, ChannelsPoll DEF PanicInv, ChannelsSafe, ChannelsOpen
<1> QED  BY <1>2, <1>3 DEF Once

\* A call of Start gets past its check, goes on, or fails.
LEMMA PanicStart ==
  ASSUME PanicInv, NEW r \in Runs, StartSwap(r) \/ StartStep(r)
  PROVE  PollersLaunched' /\ (Once' => ChannelsSafe')
<1>1. /\ poller \in [Runs -> [Files -> {"off", "select", "send", "exiting", "done"}]]
      /\ running \in [Files -> BOOLEAN] /\ launched \subseteq Runs
      /\ start \in [Runs -> {"idle", "swapped", "files", "nil", "err"}]
      /\ toStart \in [Runs -> SUBSET Files]
  BY DEF PanicInv, CountedTypeOK, WatcherTypeOK, OwnTypeOK
<1>2. CASE StartSwap(r)
  <2>1. /\ UNCHANGED <<running, stop, shut, poller, panicked, toStart>>
        /\ start[r] = "idle" /\ start'[r] \in {"nil", "swapped"}
        /\ start'[r] = "swapped" => r \in launched'
        /\ \A q \in Runs \ {r} : start'[q] = start[q]
        /\ launched \subseteq launched'
    BY <1>1, <1>2 DEF StartSwap, watcherVars
  <2>2. \A f \in Files : poller[r][f] = "off"
    BY <2>1 DEF PanicInv, PollersLaunched
  <2>3. PollersLaunched'
    BY <2>1, <2>2 DEF PanicInv, PollersLaunched
  <2>4. Once' => Once
    BY <2>1 DEF Once
  <2> QED  BY <2>1, <2>3, <2>4 DEF PanicInv, ChannelsSafe, ChannelsOpen
<1>3. CASE StartContext(r)
  <2>1. /\ UNCHANGED <<running, stop, shut, poller, panicked, launched>>
        /\ start[r] = "swapped" /\ start'[r] = "files"
        /\ \A q \in Runs \ {r} : start'[q] = start[q] /\ toStart'[q] = toStart[q]
    BY <1>1, <1>3 DEF StartContext, watcherVars
  <2>2. \A f \in Files : poller[r][f] = "off"
    BY <2>1 DEF PanicInv, PollersLaunched
  <2>3. PollersLaunched'
    BY <2>1, <2>2 DEF PanicInv, PollersLaunched
  <2> QED  BY <2>1, <2>3 DEF PanicInv, ChannelsSafe, ChannelsOpen, Once
<1>4. ASSUME NEW f \in Files, StartFile(r, f)
      PROVE  PollersLaunched' /\ (Once' => ChannelsSafe')
  <2>1. /\ UNCHANGED <<stop, shut, panicked, launched, start>>
        /\ start[r] = "files" /\ f \in toStart[r] /\ r \in launched
        /\ \A q \in Runs \ {r} : toStart'[q] = toStart[q]
        /\ toStart'[r] = toStart[r] \ {f}
        /\ running' = [running EXCEPT ![f] = TRUE]
        /\ poller' = [poller EXCEPT ![r][f] = IF running[f] THEN poller[r][f] ELSE "select"]
    BY <1>1, <1>4 DEF StartFile, StartWatcher, PanicInv, PollersLaunched
  <2>2. /\ poller[r][f] = "off"
        /\ poller'[r][f] \in {"off", "select"}
        /\ ~running[f] => poller'[r][f] = "select"
        /\ \A q \in Runs, g \in Files : <<q, g>> # <<r, f>> => poller'[q][g] = poller[q][g]
        /\ \A g \in Files \ {f} : running'[g] = running[g]
    BY <1>1, <2>1 DEF PanicInv, PollersLaunched
  <2>3. PollersLaunched'
    <3>1. \A q \in Runs : start'[q] \in {"swapped", "files", "err"} => q \in launched'
      BY <2>1 DEF PanicInv, PollersLaunched
    <3>2. \A q \in Runs, g \in Files :
             poller'[q][g] # "off" => /\ q \in launched' /\ g \notin toStart'[q]
                                      /\ start'[q] \notin {"idle", "swapped"}
      BY <2>1, <2>2 DEF PanicInv, PollersLaunched
    <3>3. ASSUME NEW g \in Files, running'[g] \/ stop'[g] \/ shut'[g]
          PROVE  \E q \in Runs : poller'[q][g] # "off"
      <4>1. CASE g = f /\ ~running[f]
        BY <2>2, <4>1
      <4>2. CASE g # f \/ running[f]
        <5>1. PICK q \in Runs : poller[q][g] # "off"
          BY <2>1, <2>2, <3>3, <4>2 DEF PanicInv, PollersLaunched
        <5> QED  BY <2>2, <5>1
      <4> QED  BY <4>1, <4>2
    <3> QED  BY <3>1, <3>2, <3>3 DEF PollersLaunched
  <2>4. ASSUME Once PROVE ChannelsSafe'
    <3>1. \A q \in Runs : poller[q][f] = "off"
      BY <2>1, <2>2, <2>4 DEF PanicInv, PollersLaunched, Once
    <3>2. ~running[f] /\ ~stop[f] /\ ~shut[f]
      BY <3>1 DEF PanicInv, PollersLaunched
    <3>3. ChannelsSafe /\ WatcherTypeOK /\ StartWatcher(r, f)
      BY <1>4, <2>4 DEF PanicInv, CountedTypeOK, StartFile
    <3> QED  BY <3>2, <3>3, ChannelsStart DEF ChannelsSafe
  <2> QED  BY <2>1, <2>3, <2>4 DEF Once
<1>5. CASE StartFails(r) \/ StartReturn(r)
  <2>1. /\ UNCHANGED <<running, stop, shut, poller, panicked, toStart, launched>>
        /\ start[r] = "files" /\ start'[r] \in {"nil", "err"}
        /\ \A q \in Runs \ {r} : start'[q] = start[q]
    BY <1>1, <1>5 DEF StartFails, StartReturn, watcherVars
  <2>2. PollersLaunched'
    BY <2>1 DEF PanicInv, PollersLaunched
  <2> QED  BY <2>1, <2>2 DEF PanicInv, ChannelsSafe, ChannelsOpen, Once
<1> QED  BY <1>2, <1>3, <1>4, <1>5 DEF StartStep

\* The other steps leave the goroutines that poll as they are.
LEMMA PanicSame ==
  ASSUME PanicInv, UNCHANGED <<running, stop, shut, poller, panicked, start, toStart, launched>>
  PROVE  PollersLaunched' /\ (Once' => ChannelsSafe')
  BY DEF PanicInv, PollersLaunched, ChannelsSafe, ChannelsOpen, Once

\* Stop closes the channel of a watcher that runs.
LEMMA PanicStop ==
  ASSUME PanicInv, NEW s \in Stops, NEW f \in Files, StopFile(s, f)
  PROVE  PollersLaunched' /\ (Once' => ChannelsSafe')
<1>1. UNCHANGED <<start, toStart, launched, poller, shut>>
  BY DEF StopFile, StopWatcher, Panic, watcherVars
<1>2. CASE ~running[f] /\ UNCHANGED watcherVars
  BY <1>1, <1>2, PanicSame DEF watcherVars
<1>3. CASE StopWatcher(f)
  <2>1. PollersLaunched'
    <3>1. running \in [Files -> BOOLEAN] /\ stop \in [Files -> BOOLEAN]
      BY DEF PanicInv, CountedTypeOK, WatcherTypeOK
    <3>2. \A g \in Files : running'[g] \/ stop'[g] => running[g] \/ stop[g]
      BY <1>3, <3>1 DEF StopWatcher, Panic
    <3> QED  BY <1>1, <3>2 DEF PanicInv, PollersLaunched
  <2>2. Once' => ChannelsSafe'
    BY <1>1, <1>3, ChannelsStop DEF PanicInv, CountedTypeOK, ChannelsSafe, Once
  <2> QED  BY <2>1, <2>2
<1> QED  BY <1>2, <1>3 DEF StopFile

LEMMA PanicNext == PanicInv /\ [Next]_vars => PanicInv'
<1> SUFFICES ASSUME PanicInv, [Next]_vars PROVE PanicInv'
  OBVIOUS
<1>1. CountedTypeOK'
  BY TypeNext DEF PanicInv
<1>2. PollersLaunched' /\ (Once' => ChannelsSafe')
  <2>1. CASE UNCHANGED vars
    BY <2>1, PanicSame DEF vars, watcherVars
  <2>2. CASE WatcherStep
    <3>1. ASSUME NEW f \in Files, Write(f) \/ Vanish(f) \/ ComeBack(f), UNCHANGED ownVars
          PROVE  PollersLaunched' /\ (Once' => ChannelsSafe')
      BY <3>1, PanicSame DEF Write, Vanish, ComeBack
    <3>2. ASSUME NEW r \in Runs, Cancel(r), UNCHANGED ownVars
          PROVE  PollersLaunched' /\ (Once' => ChannelsSafe')
      BY <3>2, PanicSame DEF Cancel
    <3> QED  BY <2>2, <3>1, <3>2, PanicPoll DEF WatcherStep
  <2>3. ASSUME NEW r \in Runs, StartSwap(r) \/ StartStep(r)
        PROVE  PollersLaunched' /\ (Once' => ChannelsSafe')
    BY <2>3, PanicStart
  <2>4. ASSUME NEW r \in Runs, NEW f \in Files, ForwardStep(r, f) \/ Forwarded(r, f)
        PROVE  PollersLaunched' /\ (Once' => ChannelsSafe')
    BY <2>4, PanicSame
       DEF ForwardStep, Forward, ForwardEnds, FirstTurn, Forwarded, Select, Receive, watcherVars
  <2>5. ASSUME NEW s \in Stops, StopSwap(s) \/ StopStep(s)
        PROVE  PollersLaunched' /\ (Once' => ChannelsSafe')
    <3>1. CASE \E f \in Files : StopFile(s, f)
      BY <3>1, PanicStop
    <3>2. CASE ~\E f \in Files : StopFile(s, f)
      BY <2>5, <3>2, PanicSame
         DEF StopStep, StopSwap, StopCancel, StopWaited, StopTimeout, StopFileDone, StopReturn,
             watcherVars
    <3> QED  BY <3>1, <3>2
  <2> QED  BY <2>1, <2>2, <2>3, <2>4, <2>5 DEF Next
<1> QED  BY <1>1, <1>2 DEF PanicInv

\* For any number of watchers, calls of Start and calls of Stop, no channel is
\* closed twice or sent on when closed while only one call of Start has got
\* past its check: a panic takes a Start after a Stop (watch.go:82-85,
\* 222-256, 289-297).
THEOREM PanicTakesRestart == Spec => []PanicOnlyFromRestart
<1>1. PanicInv => PanicOnlyFromRestart
  BY DEF PanicInv, ChannelsSafe, PanicOnlyFromRestart
<1> QED  BY <1>1, PanicInit, PanicNext, PTL DEF Spec
-----------------------------------------------------------------------------
(* The order of what the callbacks are told.                               *)

Told(f) == {told[f][i] : i \in 1..Len(told[f])}

Increasing(s) == \A i, j \in 1..Len(s) : i < j => s[i] < s[j]

ToldInOrder ==
  \A f \in Files :
      Increasing(told[f]) /\ Pipeline(Told(f), changes[f], Pending(f), lastMod[f])

OrderInv == PanicInv /\ SendingOK /\ (Once => ToldInOrder)

LEMMA OrderTypes ==
  ASSUME CountedTypeOK, NEW f \in Files
  PROVE  /\ told[f] \in Seq(Nat) /\ Told(f) \in SUBSET Nat /\ changes[f] \in Seq(Nat)
         /\ Pending(f) \in SUBSET Nat /\ lastMod[f] \in Nat /\ disk[f].n \in Nat
<1>1. /\ told[f] \in Seq(0..MaxWrites) /\ changes[f] \in Seq(0..MaxWrites)
      /\ sending \in [Runs -> [Files -> 0..MaxWrites]] /\ lastMod[f] \in 0..MaxWrites
      /\ disk[f] \in [n : 0..MaxWrites, here : BOOLEAN]
  BY DEF CountedTypeOK, WatcherTypeOK, OwnTypeOK
<1>2. told[f] \in Seq(Nat) /\ changes[f] \in Seq(Nat)
  BY <1>1
<1> QED  BY <1>1, <1>2 DEF Told, Pending

LEMMA OrderInit == Init => OrderInv
<1> SUFFICES ASSUME Init PROVE OrderInv
  OBVIOUS
<1>1. SendingOK
  BY DEF Init, WatcherInit, SendingOK
<1>2. ASSUME NEW f \in Files
      PROVE  Increasing(told[f]) /\ Pipeline(Told(f), changes[f], Pending(f), lastMod[f])
  <2>1. /\ told[f] = <<>> /\ changes[f] = <<>> /\ lastMod[f] = 0
        /\ \A r \in Runs : sending[r][f] = 0
    BY DEF Init, WatcherInit
  <2>2. Told(f) = {} /\ \A p \in Pending(f) : p = 0
    BY <2>1 DEF Told, Pending
  <2> QED  BY <2>1, <2>2 DEF Increasing, Pipeline
<1> QED  BY <1>1, <1>2, PanicInit DEF OrderInv, ToldInOrder

\* Nothing moves on.
LEMMA OrderSame ==
  ASSUME OrderInv, UNCHANGED <<changes, sending, told>>, Once' => Once,
         \A f \in Files : lastMod[f] <= lastMod'[f] /\ lastMod'[f] <= disk'[f].n,
         \A r \in Runs, f \in Files : poller[r][f] = "send" => poller'[r][f] = "send",
         CountedTypeOK'
  PROVE  SendingOK' /\ (Once' => ToldInOrder')
<1>1. SendingOK'
  BY DEF OrderInv, SendingOK
<1>2. ASSUME Once, NEW f \in Files
      PROVE  Increasing(told'[f]) /\ Pipeline(Told(f)', changes'[f], Pending(f)', lastMod'[f])
  <2>1. Told(f)' = Told(f) /\ Pending(f)' = Pending(f)
    BY DEF Told, Pending
  <2>2. Increasing(told[f]) /\ Pipeline(Told(f), changes[f], Pending(f), lastMod[f])
    BY <1>2 DEF OrderInv, ToldInOrder
  <2>3. /\ Told(f) \in SUBSET Nat /\ changes[f] \in Seq(Nat)
        /\ Pending(f) \in SUBSET Nat /\ lastMod[f] \in Nat
    BY OrderTypes DEF OrderInv, PanicInv
  <2>4. lastMod'[f] \in Nat /\ lastMod[f] <= lastMod'[f]
    BY DEF CountedTypeOK, WatcherTypeOK
  <2>5. Pipeline(Told(f), changes[f], Pending(f), lastMod'[f])
    BY <2>2, <2>3, <2>4, PipelineLater
  <2> QED  BY <2>1, <2>2, <2>5
<1> QED  BY <1>1, <1>2 DEF ToldInOrder

LEMMA OrderPoll ==
  ASSUME OrderInv, NEW r \in Runs, NEW f \in Files, PollStep(r, f), UNCHANGED ownVars
  PROVE  SendingOK' /\ (Once' => ToldInOrder')
<1>1. WatcherTypeOK /\ CountedTypeOK /\ PollersLaunched
  BY DEF OrderInv, PanicInv, CountedTypeOK
<1>2. /\ SendingOK'
      /\ \A past \in SUBSET Nat, g \in Files :
               /\ Pipeline(past, changes[g], Pending(g), lastMod[g])
               /\ \A q \in Runs \ {r} : poller[q][g] # "send"
               => Pipeline(past, changes'[g], Pending(g)', lastMod'[g])
  BY <1>1, PollKeepsOrder DEF OrderInv
<1>3. ASSUME Once, NEW g \in Files
      PROVE  Increasing(told'[g]) /\ Pipeline(Told(g)', changes'[g], Pending(g)', lastMod'[g])
  <2>1. Told(g)' = Told(g) /\ told'[g] = told[g]
    BY DEF Told
  <2>2. \A q \in Runs \ {r} : poller[q][g] # "send"
    <3>1. poller[r][f] # "off"
      BY <1>1, PollEffect
    <3> QED  BY <1>1, <1>3, <3>1 DEF PollersLaunched, Once
  <2>3. Told(g) \in SUBSET Nat /\ Increasing(told[g])
        /\ Pipeline(Told(g), changes[g], Pending(g), lastMod[g])
    BY <1>1, <1>3, OrderTypes DEF OrderInv, ToldInOrder
  <2> QED  BY <1>2, <2>1, <2>2, <2>3
<1> QED  BY <1>2, <1>3 DEF ToldInOrder, Once

\* A goroutine of the manager takes a change.
LEMMA OrderForward ==
  ASSUME OrderInv, NEW r \in Runs, NEW f \in Files, Forward(r, f)
  PROVE  SendingOK' /\ (Once' => ToldInOrder')
<1>1. CountedTypeOK
  BY DEF OrderInv, PanicInv
<1>2. /\ UNCHANGED <<disk, lastMod, sending, poller, launched>> /\ changes[f] # <<>>
      /\ changes'[f] = Tail(changes[f])
      /\ told'[f] = IF Head(changes[f]) = Deleted THEN told[f]
                    ELSE Append(told[f], Head(changes[f]))
      /\ \A g \in Files \ {f} : changes'[g] = changes[g] /\ told'[g] = told[g]
  BY <1>1 DEF Forward, Receive, CountedTypeOK, WatcherTypeOK, OwnTypeOK
<1>3. SendingOK'
  BY <1>2 DEF OrderInv, SendingOK
<1>4. ASSUME Once, NEW g \in Files
      PROVE  Increasing(told'[g]) /\ Pipeline(Told(g)', changes'[g], Pending(g)', lastMod'[g])
  <2>1. /\ told[g] \in Seq(Nat) /\ Told(g) \in SUBSET Nat /\ changes[g] \in Seq(Nat)
        /\ Pending(g) \in SUBSET Nat /\ lastMod[g] \in Nat
    BY <1>1, OrderTypes
  <2>2. Pending(g)' = Pending(g)
    BY <1>2 DEF Pending
  <2>3. Increasing(told[g]) /\ Pipeline(Told(g), changes[g], Pending(g), lastMod[g])
    BY <1>4 DEF OrderInv, ToldInOrder
  <2>4. CASE g # f
    <3>1. Told(g)' = Told(g)
      BY <1>2, <2>4 DEF Told
    <3> QED  BY <1>2, <2>2, <2>3, <2>4, <3>1
  <2>5. CASE g = f
    <3> DEFINE new == Head(changes[f])
    <3>1. /\ Pipeline(Told(f) \cup {new}, Tail(changes[f]), Pending(f), lastMod[f])
          /\ new # Deleted => \A n \in Told(f) : n < new
      BY <1>2, <2>1, <2>3, <2>5, PipelineReceived
    <3>2. new \in Nat /\ Tail(changes[f]) \in Seq(Nat)
      BY <1>2, <2>1, <2>5, HeadTailProperties
    <3> HIDE DEF new
    <3>3. CASE new = Deleted
      <4>1. told'[f] = told[f] /\ Told(f)' = Told(f)
        BY <1>2, <3>3 DEF Told, new
      <4>2. Pipeline(Told(f), Tail(changes[f]), Pending(f), lastMod[f])
        BY <2>1, <2>5, <3>1, <3>2 DEF Pipeline
      <4> QED  BY <1>2, <2>2, <2>3, <2>5, <4>1, <4>2
    <3>4. CASE new # Deleted
      <4>1. told'[f] = Append(told[f], new)
        BY <1>2, <3>4 DEF new
      <4>2. /\ Len(told'[f]) = Len(told[f]) + 1 /\ Len(told[f]) \in Nat
            /\ told'[f][Len(told[f]) + 1] = new
            /\ \A i \in 1..Len(told[f]) : told'[f][i] = told[f][i] /\ told[f][i] \in Told(f)
        BY <2>1, <2>5, <3>2, <4>1, AppendProperties DEF Told
      <4>3. \A i \in 1..Len(told'[f]) : i \in 1..Len(told[f]) \/ i = Len(told[f]) + 1
        BY <4>2
      <4>4. Increasing(told'[f])
        BY <2>3, <2>5, <3>1, <3>4, <4>2, <4>3 DEF Increasing
      <4>5. Told(f)' \subseteq Told(f) \cup {new}
        BY <4>2, <4>3 DEF Told
      <4>6. Pipeline(Told(f)', Tail(changes[f]), Pending(f), lastMod[f])
        BY <3>1, <4>5 DEF Pipeline
      <4> QED  BY <1>2, <2>2, <2>5, <4>4, <4>6
    <3> QED  BY <3>3, <3>4
  <2> QED  BY <2>4, <2>5
<1> QED  BY <1>2, <1>3, <1>4 DEF ToldInOrder, Once

LEMMA OrderNext == OrderInv /\ [Next]_vars => OrderInv'
<1> SUFFICES ASSUME OrderInv, [Next]_vars PROVE OrderInv'
  OBVIOUS
<1>1. PanicInv' /\ CountedTypeOK' /\ CountedTypeOK /\ WatcherTypeOK
  BY PanicNext DEF OrderInv, PanicInv, CountedTypeOK
<1>2. \A f \in Files : lastMod[f] <= disk[f].n /\ lastMod[f] \in Nat /\ disk[f].n \in Nat
  BY <1>1, OrderTypes DEF OrderInv, SendingOK
<1>3. \A f \in Files : lastMod[f] <= lastMod[f]
  BY <1>2
\* The steps that touch neither files nor goroutines.
<1>4. ASSUME UNCHANGED <<disk, lastMod, poller, changes, sending, told>>, Once' => Once
      PROVE  SendingOK' /\ (Once' => ToldInOrder')
  BY <1>1, <1>2, <1>3, <1>4, OrderSame
<1>5. CASE UNCHANGED vars
  BY <1>1, <1>4, <1>5 DEF OrderInv, vars, watcherVars, Once
<1>6. CASE WatcherStep
  <2>1. UNCHANGED ownVars /\ (Once' => Once)
    BY <1>6 DEF WatcherStep, Once
  <2>2. ASSUME NEW f \in Files, Write(f) \/ Vanish(f) \/ ComeBack(f)
        PROVE  SendingOK' /\ (Once' => ToldInOrder')
    <3>1. disk \in [Files -> [n : 0..MaxWrites, here : BOOLEAN]]
      BY <1>1 DEF WatcherTypeOK
    <3>2. \A g \in Files : disk'[g].n = disk[g].n \/ disk'[g].n = disk[g].n + 1
      BY <2>2, <3>1 DEF Write, Vanish, ComeBack
    <3>3. UNCHANGED <<lastMod, poller, changes, sending>>
      BY <2>2 DEF Write, Vanish, ComeBack
    <3> QED  BY <1>1, <1>2, <2>1, <3>2, <3>3, OrderSame
  <2>3. ASSUME NEW r \in Runs, Cancel(r) PROVE SendingOK' /\ (Once' => ToldInOrder')
    BY <1>4, <2>1, <2>3 DEF Cancel
  <2> QED  BY <1>1, <1>6, <2>1, <2>2, <2>3, OrderPoll DEF WatcherStep, OrderInv
<1>7. ASSUME NEW r \in Runs, StartSwap(r) \/ StartStep(r)
      PROVE  SendingOK' /\ (Once' => ToldInOrder')
  <2>1. Once' => Once
    BY <1>7 DEF StartSwap, StartStep, StartContext, StartFile, StartFails, StartReturn, Once
  <2>2. CASE \E f \in Files : StartFile(r, f)
    <3>1. PICK f \in Files : StartFile(r, f)
      BY <2>2
    <3>2. /\ UNCHANGED <<disk, changes, sending, told>> /\ poller[r][f] = "off"
          /\ poller' = [poller EXCEPT ![r][f] = IF running[f] THEN poller[r][f] ELSE "select"]
          /\ lastMod' = [lastMod EXCEPT ![f] =
                            IF ~running[f] /\ disk[f].here THEN disk[f].n ELSE lastMod[f]]
          /\ lastMod \in [Files -> 0..MaxWrites]
          /\ poller \in [Runs -> [Files -> {"off", "select", "send", "exiting", "done"}]]
      BY <1>1, <3>1 DEF StartFile, StartWatcher, OrderInv, PanicInv, PollersLaunched, WatcherTypeOK
    <3>3. \A g \in Files : lastMod'[g] = lastMod[g] \/ lastMod'[g] = disk[g].n
      BY <3>2
    <3>4. \A q \in Runs, g \in Files : poller[q][g] = "send" => poller'[q][g] = "send"
      BY <3>2
    <3>5. \A g \in Files : lastMod[g] <= lastMod'[g] /\ lastMod'[g] <= disk[g].n
      BY <1>2, <3>3
    <3> QED  BY <1>1, <2>1, <3>2, <3>4, <3>5, OrderSame
  <2>3. CASE ~\E f \in Files : StartFile(r, f)
    BY <1>4, <1>7, <2>1, <2>3
       DEF StartSwap, StartStep, StartContext, StartFails, StartReturn, watcherVars
  <2> QED  BY <2>2, <2>3
<1>8. ASSUME NEW r \in Runs, NEW f \in Files, ForwardStep(r, f) \/ Forwarded(r, f)
      PROVE  SendingOK' /\ (Once' => ToldInOrder')
  BY <1>4, <1>8, OrderForward
     DEF ForwardStep, ForwardEnds, FirstTurn, Forwarded, Select, watcherVars, Once
<1>9. ASSUME NEW s \in Stops, StopSwap(s) \/ StopStep(s)
      PROVE  SendingOK' /\ (Once' => ToldInOrder')
  BY <1>4, <1>9
     DEF StopStep, StopSwap, StopCancel, StopWaited, StopTimeout, StopFile, StopWatcher, Panic,
         StopFileDone, StopReturn, watcherVars, Once
<1> QED  BY <1>1, <1>5, <1>6, <1>7, <1>8, <1>9 DEF Next, OrderInv

\* For any number of watchers, writes and calls, and any capacity of the
\* channels: while one call of Start has got past its check, the callbacks are
\* told of each write of a file at most once and in order (watch.go:108-141,
\* 274-283).
THEOREM CallbacksInOrder == Spec => []InOrderOnce
<1>1. OrderInv => InOrderOnce
  BY DEF OrderInv, ToldInOrder, Increasing, InOrderOnce
<1> QED  BY <1>1, OrderInit, OrderNext, PTL DEF Spec
-----------------------------------------------------------------------------
(* What is left when Stop returns.                                         *)

\* A goroutine of a watcher that runs no more is waited for.
Awaited ==
  \A f \in Files :
      ~running[f] /\ (\E r \in Runs : Polling(r, f)) => \E t \in Stops : waitFor[t] = f

\* The calls of Start that are under way when Stop is.
Overlaps ==
  \A s \in Stops, r \in Runs :
      stopping[s] # "idle" /\ start[r] \notin {"nil", "err"} => r \in overlap[s]

\* What Stop leaves behind it on its way.
Passed ==
  \A s \in Stops :
      stopping[s] = "files" /\ launched \cap overlap[s] = {} =>
          /\ \A f \in Files \ toStop[s] : running[f] => panicked
          /\ s \in timedOut \/ \A r \in Runs, f \in Files : ~Forwarding(r, f)

LeakInv == PanicInv /\ OneGoroutine /\ Awaited /\ Overlaps /\ Passed

LEMMA LeakInit == Init => LeakInv
<1> SUFFICES ASSUME Init PROVE LeakInv
  OBVIOUS
<1>1. OneGoroutine
  BY GoroutinesInit DEF Init
<1> QED  BY <1>1, PanicInit
         DEF Init, WatcherInit, LeakInv, Awaited, Overlaps, Passed, Polling, Forwarding

\* The steps after which no more goroutines run than before.
LEMMA LeakSame ==
  ASSUME LeakInv, UNCHANGED <<running, stop, stopped, poller, waitFor, stopping, toStop, overlap,
                              timedOut>>,
         launched \subseteq launched', panicked => panicked',
         \A r \in Runs : start'[r] \notin {"nil", "err"} => start[r] \notin {"nil", "err"},
         \A r \in Runs, f \in Files : Forwarding(r, f)' => Forwarding(r, f)
  PROVE  OneGoroutine' /\ Awaited' /\ Overlaps' /\ Passed'
<1>1. OneGoroutine'
  BY GoroutinesSame DEF LeakInv
<1>2. Awaited' /\ Overlaps'
  BY DEF LeakInv, Awaited, Overlaps, Polling
<1>3. Passed'
  BY DEF LeakInv, Passed
<1> QED  BY <1>1, <1>2, <1>3

LEMMA LeakPoll ==
  ASSUME LeakInv, NEW r \in Runs, NEW f \in Files, PollStep(r, f), UNCHANGED ownVars
  PROVE  OneGoroutine' /\ Awaited' /\ Overlaps' /\ Passed'
<1>1. WatcherTypeOK
  BY DEF LeakInv, PanicInv, CountedTypeOK
<1>2. /\ UNCHANGED running /\ (panicked => panicked')
      /\ \A q \in Runs, g \in Files : Polling(q, g)' => Polling(q, g)
  <2>1. CASE Panic
    BY <2>1 DEF Panic, Polling
  <2>2. CASE ~Panic
    BY <1>1, <2>2, PollEffect DEF Polling
  <2> QED  BY <2>1, <2>2
<1>3. OneGoroutine'
  BY <1>1, GoroutinesPoll DEF LeakInv
<1>4. Awaited' /\ Overlaps'
  BY <1>2 DEF LeakInv, Awaited, Overlaps
<1>5. Passed'
  BY <1>2 DEF LeakInv, Passed, Forwarding
<1> QED  BY <1>3, <1>4, <1>5

\* A call of Start that has got past its check overlaps every Stop under way.
LEMMA LeakStartFile ==
  ASSUME LeakInv, NEW r \in Runs, NEW f \in Files, StartFile(r, f)
  PROVE  OneGoroutine' /\ Awaited' /\ Overlaps' /\ Passed'
<1>1. /\ WatcherTypeOK /\ poller[r][f] = "off" /\ StartWatcher(r, f)
      /\ r \in launched /\ start[r] = "files"
      /\ UNCHANGED <<start, stopping, toStop, waitFor, launched, overlap, timedOut>>
  BY DEF LeakInv, PanicInv, CountedTypeOK, PollersLaunched, StartFile
<1>2. OneGoroutine'
  BY <1>1, GoroutinesStart DEF LeakInv
<1>3. Awaited'
  <2>1. /\ poller \in [Runs -> [Files -> {"off", "select", "send", "exiting", "done"}]]
        /\ running \in [Files -> BOOLEAN]
    BY <1>1 DEF WatcherTypeOK
  <2>2. /\ running'[f] /\ \A g \in Files \ {f} : running'[g] = running[g]
        /\ \A q \in Runs, g \in Files \ {f} : poller'[q][g] = poller[q][g]
    BY <1>1, <2>1 DEF StartWatcher
  <2> QED  BY <1>1, <2>2 DEF LeakInv, Awaited, Polling
<1>4. Overlaps'
  BY <1>1 DEF LeakInv, Overlaps
<1>5. \A s \in Stops : stopping[s] # "idle" => r \in launched \cap overlap[s]
  BY <1>1 DEF LeakInv, Overlaps
<1>6. Passed'
  BY <1>1, <1>5 DEF Passed
<1> QED  BY <1>2, <1>3, <1>4, <1>6

LEMMA LeakStop ==
  ASSUME LeakInv, NEW s \in Stops, StopSwap(s) \/ StopStep(s)
  PROVE  OneGoroutine' /\ Awaited' /\ Overlaps' /\ Passed'
<1>1. /\ WatcherTypeOK /\ OwnTypeOK /\ WaitGroupExact
      /\ stopping \in [Stops -> {"idle", "swapped", "wait", "files", "stopped", "nil"}]
      /\ toStop \in [Stops -> SUBSET Files] /\ waitFor \in [Stops -> Files \cup {None}]
      /\ overlap \in [Stops -> SUBSET Runs]
  BY DEF LeakInv, PanicInv, CountedTypeOK, OwnTypeOK
<1>2. UNCHANGED <<launched, fwd, start>>
  BY DEF StopSwap, StopStep, StopCancel, StopWaited, StopTimeout, StopFile, StopFileDone,
         StopReturn
\* The steps that do not concern a watcher.
<1>3. ASSUME UNCHANGED <<running, stop, stopped, poller, panicked, waitFor>>,
             \A t \in Stops \ {s} : stopping'[t] = stopping[t] /\ overlap'[t] = overlap[t]
                                     /\ toStop'[t] = toStop[t],
             stopping[s] = "idle" => \A r \in Runs : start[r] \notin {"nil", "err"} => r \in overlap'[s],
             stopping[s] # "idle" => overlap'[s] = overlap[s],
             timedOut \subseteq timedOut',
             stopping'[s] = "files" => /\ toStop'[s] = Files
                                       /\ s \in timedOut' \/ Forwarders = {}
      PROVE  OneGoroutine' /\ Awaited' /\ Overlaps' /\ Passed'
  <2>1. OneGoroutine'
    BY <1>3, GoroutinesSame DEF LeakInv
  <2>2. Awaited'
    BY <1>3 DEF LeakInv, Awaited, Polling
  <2>3. Overlaps'
    BY <1>2, <1>3 DEF LeakInv, Overlaps
  <2>4. Forwarders = {} => \A r \in Runs, f \in Files : ~Forwarding(r, f)
    <3>1. \A r \in Runs, f \in Files : Forwarding(r, f) => <<r, f>> \in Forwarders
      BY DEF Forwarders
    <3> QED  BY <3>1
  <2>5. \A r \in Runs, f \in Files : Forwarding(r, f)' = Forwarding(r, f)
    BY <1>2 DEF Forwarding
  <2>6. Passed'
    <3>1. SUFFICES ASSUME NEW t \in Stops, stopping'[t] = "files", launched' \cap overlap'[t] = {}
                   PROVE  /\ \A f \in Files \ toStop'[t] : running'[f] => panicked'
                          /\ t \in timedOut' \/ \A r \in Runs, f \in Files : ~Forwarding(r, f)'
      BY DEF Passed
    <3>2. CASE t = s
      BY <1>3, <2>4, <2>5, <3>1, <3>2
    <3>3. CASE t # s
      BY <1>2, <1>3, <2>5, <3>1, <3>3 DEF LeakInv, Passed
    <3> QED  BY <3>2, <3>3
  <2> QED  BY <2>1, <2>2, <2>3, <2>6
<1>4. CASE StopSwap(s)
  <2>1. /\ UNCHANGED <<running, stop, stopped, poller, panicked, waitFor, toStop, timedOut>>
        /\ stopping[s] = "idle" /\ stopping'[s] \in {"swapped", "nil"}
        /\ overlap'[s] = {r \in Runs : start[r] \notin {"nil", "err"}}
        /\ \A t \in Stops \ {s} : stopping'[t] = stopping[t] /\ overlap'[t] = overlap[t]
    BY <1>1, <1>4 DEF StopSwap, watcherVars
  <2> QED  BY <1>3, <2>1
<1>5. CASE StopCancel(s)
  <2>1. /\ UNCHANGED <<running, stop, stopped, poller, panicked, waitFor, toStop, timedOut, overlap>>
        /\ stopping[s] = "swapped" /\ stopping'[s] = "wait"
        /\ \A t \in Stops \ {s} : stopping'[t] = stopping[t]
    BY <1>1, <1>5 DEF StopCancel
  <2> QED  BY <1>3, <2>1
<1>6. CASE StopWaited(s) \/ StopTimeout(s)
  <2>1. /\ UNCHANGED <<running, stop, stopped, poller, panicked, waitFor, overlap>>
        /\ stopping[s] = "wait" /\ stopping'[s] = "files" /\ toStop'[s] = Files
        /\ timedOut \subseteq timedOut' /\ (wg = 0 \/ s \in timedOut')
        /\ \A t \in Stops \ {s} : stopping'[t] = stopping[t] /\ toStop'[t] = toStop[t]
    BY <1>1, <1>6 DEF StopWaited, StopTimeout, watcherVars
  <2>2. wg = 0 => Forwarders = {}
    BY <1>1, ForwardersFinite, FS_EmptySet DEF WaitGroupExact
  <2> QED  BY <1>3, <2>1, <2>2
<1>7. ASSUME NEW f \in Files, StopFile(s, f)
      PROVE  OneGoroutine' /\ Awaited' /\ Overlaps' /\ Passed'
  <2>1. /\ UNCHANGED <<stopping, overlap, timedOut>>
        /\ waitFor[s] = None
        /\ toStop'[s] = toStop[s] \ {f}
        /\ \A t \in Stops \ {s} : toStop'[t] = toStop[t] /\ waitFor'[t] = waitFor[t]
    BY <1>1, <1>7 DEF StopFile
  <2>2. /\ UNCHANGED poller
        /\ \A g \in Files \ {f} : running'[g] = running[g]
        /\ running'[f] => running[f]
        /\ running'[f] => panicked'
        /\ panicked => panicked'
        /\ ~running'[f] => ~running[f] \/ waitFor'[s] = f
    <3>1. CASE StopWatcher(f) /\ waitFor' = [waitFor EXCEPT ![s] = f]
      <4>1. running \in [Files -> BOOLEAN]
        BY <1>1 DEF WatcherTypeOK
      <4>2. waitFor'[s] = f
        BY <1>1, <3>1
      <4> QED  BY <3>1, <4>1, <4>2 DEF StopWatcher, Panic
    <3>2. CASE ~running[f] /\ UNCHANGED <<watcherVars, waitFor>>
      BY <3>2 DEF watcherVars
    <3> QED  BY <1>7, <3>1, <3>2 DEF StopFile
  <2>3. OneGoroutine'
    <3>1. CASE StopWatcher(f)
      BY <1>1, <3>1, GoroutinesStop DEF LeakInv
    <3>2. CASE UNCHANGED watcherVars
      BY <3>2, GoroutinesSame DEF LeakInv, watcherVars
    <3> QED  BY <1>7, <3>1, <3>2 DEF StopFile
  <2>4. Awaited'
    <3>1. SUFFICES ASSUME NEW g \in Files, ~running'[g], NEW r \in Runs, Polling(r, g)'
                   PROVE  \E t \in Stops : waitFor'[t] = g
      BY DEF Awaited
    <3>2. Polling(r, g)
      BY <2>2, <3>1 DEF Polling
    <3>3. CASE g = f /\ waitFor'[s] = f
      BY <3>3
    <3>4. CASE ~running[g]
      <4>1. PICK t \in Stops : waitFor[t] = g
        BY <3>2, <3>4 DEF LeakInv, Awaited
      <4>2. t # s
        BY <2>1, <4>1
      <4> QED  BY <2>1, <4>1, <4>2
    <3> QED  BY <2>2, <3>1, <3>3, <3>4
  <2>5. Overlaps'
    BY <1>2, <2>1 DEF LeakInv, Overlaps
  <2>6. Passed'
    BY <1>2, <2>1, <2>2 DEF LeakInv, Passed, Forwarding
  <2> QED  BY <2>3, <2>4, <2>5, <2>6
<1>8. CASE StopFileDone(s)
  <2>1. /\ UNCHANGED <<running, stop, stopped, poller, panicked, stopping, toStop, overlap, timedOut>>
        /\ waitFor[s] # None /\ stopped[waitFor[s]]
        /\ \A t \in Stops \ {s} : waitFor'[t] = waitFor[t]
    BY <1>1, <1>8 DEF StopFileDone, watcherVars
  <2>2. OneGoroutine' /\ Overlaps' /\ Passed'
    BY <1>2, <2>1, GoroutinesSame DEF LeakInv, Overlaps, Passed, Forwarding
  <2>3. Awaited'
    <3>1. SUFFICES ASSUME NEW g \in Files, ~running[g], NEW r \in Runs, Polling(r, g)
                   PROVE  \E t \in Stops : waitFor'[t] = g
      BY <2>1 DEF Awaited, Polling
    <3>2. PICK t \in Stops : waitFor[t] = g
      BY <3>1 DEF LeakInv, Awaited
    <3>3. t # s
      <4>1. SUFFICES ASSUME t = s PROVE FALSE
        OBVIOUS
      <4>2. PICK q \in Runs : poller[q][g] = "done"
        BY <2>1, <3>2, <4>1 DEF LeakInv, OneGoroutine
      <4>3. q = r
        BY <3>1, <4>2 DEF LeakInv, OneGoroutine, Polling
      <4> QED  BY <3>1, <4>2, <4>3 DEF Polling
    <3> QED  BY <2>1, <3>2, <3>3
  <2> QED  BY <2>2, <2>3
<1>9. CASE StopReturn(s)
  <2>1. /\ UNCHANGED <<running, stop, stopped, poller, panicked, waitFor, toStop, timedOut, overlap>>
        /\ stopping[s] = "files" /\ stopping'[s] = "stopped"
        /\ \A t \in Stops \ {s} : stopping'[t] = stopping[t]
    BY <1>1, <1>9 DEF StopReturn, watcherVars
  <2> QED  BY <1>3, <2>1
<1> QED  BY <1>4, <1>5, <1>6, <1>7, <1>8, <1>9 DEF StopStep

LEMMA LeakNext == LeakInv /\ [Next]_vars => LeakInv'
<1> SUFFICES ASSUME LeakInv, [Next]_vars PROVE LeakInv'
  OBVIOUS
<1>1. PanicInv' /\ CountedTypeOK
  BY PanicNext DEF LeakInv, PanicInv
<1>2. OneGoroutine' /\ Awaited' /\ Overlaps' /\ Passed'
  <2>1. CASE UNCHANGED vars
    BY <2>1, LeakSame DEF vars, watcherVars, Forwarding
  <2>2. CASE WatcherStep
    <3>1. ASSUME NEW f \in Files, Write(f) \/ Vanish(f) \/ ComeBack(f), UNCHANGED ownVars
          PROVE  OneGoroutine' /\ Awaited' /\ Overlaps' /\ Passed'
      BY <3>1, LeakSame DEF Write, Vanish, ComeBack, Forwarding
    <3>2. ASSUME NEW r \in Runs, Cancel(r), UNCHANGED ownVars
          PROVE  OneGoroutine' /\ Awaited' /\ Overlaps' /\ Passed'
      BY <3>2, LeakSame DEF Cancel, Forwarding
    <3> QED  BY <2>2, <3>1, <3>2, LeakPoll DEF WatcherStep
  <2>3. ASSUME NEW r \in Runs, StartSwap(r) \/ StartStep(r)
        PROVE  OneGoroutine' /\ Awaited' /\ Overlaps' /\ Passed'
    <3>1. CASE \E f \in Files : StartFile(r, f)
      BY <3>1, LeakStartFile
    <3>2. CASE ~\E f \in Files : StartFile(r, f)
      <4>1. start \in [Runs -> {"idle", "swapped", "files", "nil", "err"}]
        BY <1>1 DEF CountedTypeOK, OwnTypeOK
      <4>2. \A q \in Runs : start'[q] \notin {"nil", "err"} => start[q] \notin {"nil", "err"}
        BY <2>3, <3>2, <4>1 DEF StartSwap, StartStep, StartContext, StartFails, StartReturn
      <4> QED  BY <2>3, <3>2, <4>2, LeakSame
               DEF StartSwap, StartStep, StartContext, StartFails, StartReturn, watcherVars,
                   Forwarding
    <3> QED  BY <3>1, <3>2
  <2>4. ASSUME NEW r \in Runs, NEW f \in Files, ForwardStep(r, f) \/ Forwarded(r, f)
        PROVE  OneGoroutine' /\ Awaited' /\ Overlaps' /\ Passed'
    <3>1. fwd \in [Runs -> [Files -> {"off", "begun", "select", "call", "done"}]]
      BY <1>1 DEF CountedTypeOK, OwnTypeOK
    <3>2. \A q \in Runs, g \in Files : Forwarding(q, g)' => Forwarding(q, g)
      BY <2>4, <3>1 DEF ForwardStep, Forward, ForwardEnds, FirstTurn, Forwarded, Select, Forwarding
    <3> QED  BY <2>4, <3>2, LeakSame
             DEF ForwardStep, Forward, ForwardEnds, FirstTurn, Forwarded, Select, Receive, watcherVars
  <2>5. ASSUME NEW s \in Stops, StopSwap(s) \/ StopStep(s)
        PROVE  OneGoroutine' /\ Awaited' /\ Overlaps' /\ Passed'
    BY <2>5, LeakStop
  <2> QED  BY <2>1, <2>2, <2>3, <2>4, <2>5 DEF Next
<1> QED  BY <1>1, <1>2 DEF LeakInv

\* For any number of watchers, calls of Start and calls of Stop: a Stop that
\* returns leaves no goroutine that polls, and none that forwards unless it
\* has not waited for it longer than five seconds, if no Start was under way
\* since it began and no other Stop still is (watch.go:144-178).
THEOREM LeaksComeFromRaces == Spec => LeakOnlyFromRace
<1> DEFINE Returns(s) ==
      (stopping[s] = "files" /\ stopping'[s] = "stopped" /\ Alone(s)) =>
          \A r \in Runs, f \in Files : ~Polling(r, f) /\ (Forwarding(r, f) => s \in timedOut)
<1>1. LeakInv /\ [Next]_vars => [\A s \in Stops : Returns(s)]_stopping
  <2>1. SUFFICES ASSUME LeakInv, [Next]_vars, NEW s \in Stops,
                        stopping[s] = "files", stopping'[s] = "stopped", Alone(s),
                        NEW r \in Runs, NEW f \in Files
                 PROVE  ~Polling(r, f) /\ (Forwarding(r, f) => s \in timedOut)
    OBVIOUS
  <2>2. /\ stopping \in [Stops -> {"idle", "swapped", "wait", "files", "stopped", "nil"}]
        /\ \A t \in Stops : waitFor[t] # None => stopping[t] = "files"
    BY <2>1 DEF LeakInv, PanicInv, CountedTypeOK, OwnTypeOK
  <2>3. ~panicked /\ waitFor[s] = None /\ toStop[s] = {}
    <3>1. Next
      BY <2>1 DEF vars
    <3>2. PICK t \in Stops : StopSwap(t) \/ StopStep(t)
      BY <2>1, <3>1
         DEF Next, WatcherStep, StartSwap, StartStep, StartContext, StartFile, StartFails,
             StartReturn, ForwardStep, Forward, ForwardEnds, FirstTurn, Forwarded, Select
    <3>3. stopping[t] # stopping'[t] => t = s
      BY <2>1, <2>2, <3>2
         DEF StopSwap, StopStep, StopCancel, StopWaited, StopTimeout, StopFile, StopFileDone,
             StopReturn
    <3>4. StopReturn(s)
      BY <2>1, <2>2, <3>2, <3>3
         DEF StopSwap, StopStep, StopCancel, StopWaited, StopTimeout, StopFile, StopFileDone,
             StopReturn
    <3> QED  BY <3>1, <3>4 DEF Next, StopReturn
  <2>4. ~running[f] /\ (Forwarding(r, f) => s \in timedOut)
    BY <2>1, <2>3 DEF LeakInv, Passed, Alone
  <2>5. ~Polling(r, f)
    <3>1. SUFFICES ASSUME Polling(r, f) PROVE FALSE
      OBVIOUS
    <3>2. PICK t \in Stops : waitFor[t] = f
      BY <2>1, <2>4, <3>1 DEF LeakInv, Awaited
    <3>3. stopping[t] = "files" /\ t # s
      BY <2>2, <2>3, <3>2
    <3> QED  BY <2>1, <3>3 DEF Alone
  <2> QED  BY <2>4, <2>5
<1>2. LeakOnlyFromRace <=> [][\A s \in Stops : Returns(s)]_stopping
  BY DEF LeakOnlyFromRace
<1> QED  BY <1>1, <1>2, LeakInit, LeakNext, PTL DEF Spec

=============================================================================
