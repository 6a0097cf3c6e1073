------------------------ MODULE MultiWatcher_proofs ------------------------
(***************************************************************************)
(* Proofs about MultiWatcher, for any number of watchers and calls.        *)
(***************************************************************************)
EXTENDS MultiWatcher, FileWatcher_proofs

USE FileWatcherAssumption, MultiWatcherAssumption
USE DEF chanVars, pollVars, multiVars, callVars, fwdVars, history, ownVars, Change, Deleted

-----------------------------------------------------------------------------
(* Type correctness.                                                       *)

\* The part of TypeOK about the calls, and the part about the changes.
CallsTypeOK ==
  /\ active \in BOOLEAN /\ ctx \in Runs \cup {None} /\ wg \subseteq Runs \X Files
  /\ mergedShut \in BOOLEAN
  /\ start \in [Runs -> {"idle", "swapped", "files", "nil"}]
  /\ toStart \in [Runs -> SUBSET Files]
  /\ stopping \in [Stops -> {"idle", "nil", "swapped", "files", "close", "stopped"}]
  /\ toStop \in [Stops -> SUBSET Files] /\ waitFor \in [Stops -> Files \cup {None}]
  /\ fwd \in [Runs -> [Files -> {"off", "select", "send", "done"}]]
  /\ launched \subseteq Runs /\ overlap \in [Stops -> SUBSET Runs] /\ timedOut \subseteq Stops

ChangesTypeOK ==
  /\ merged \in Seq(Files \X Change) /\ Len(merged) <= Room
  /\ carried \in [Runs -> [Files -> Change]]
  /\ seen \in [Files -> Change]

LEMMA TypeParts == TypeOK <=> WatcherTypeOK /\ CallsTypeOK /\ ChangesTypeOK
  BY DEF TypeOK, CallsTypeOK, ChangesTypeOK

LEMMA TypeInit == Init => TypeOK
<1> SUFFICES ASSUME Init PROVE TypeOK
  OBVIOUS
<1>1. WatcherTypeOK
  BY TypeWatcherInit DEF Init
<1>2. ChangesTypeOK
  BY DEF Init, ChangesTypeOK
<1>3. CallsTypeOK
  BY DEF Init, CallsTypeOK
<1> QED  BY <1>1, <1>2, <1>3, TypeParts

LEMMA TypeStart ==
  ASSUME TypeOK, NEW r \in Runs, StartSwap(r) \/ StartStep(r)
  PROVE  TypeOK'
<1>1. WatcherTypeOK /\ CallsTypeOK /\ ChangesTypeOK
  BY TypeParts
<1>2. CASE \E f \in Files : StartFile(r, f)
  <2>1. PICK f \in Files : StartFile(r, f)
    BY <1>2
  <2>2. WatcherTypeOK'
    BY <1>1, <2>1, TypeStartStop DEF StartFile
  <2>3. CallsTypeOK'
    BY <1>1, <2>1 DEF StartFile, CallsTypeOK
  <2>4. ChangesTypeOK'
    BY <1>1, <2>1 DEF StartFile, ChangesTypeOK
  <2> QED  BY <2>2, <2>3, <2>4 DEF TypeOK, CallsTypeOK, ChangesTypeOK
<1>3. CASE StartSwap(r) \/ StartContext(r) \/ StartReturn(r)
  <2>1. WatcherTypeOK' /\ ChangesTypeOK'
    BY <1>1, <1>3 DEF StartSwap, StartContext, StartReturn, WatcherTypeOK, watcherVars, ChangesTypeOK
  <2>2. CallsTypeOK'
    <3>1. CASE StartSwap(r)
      BY <1>1, <3>1 DEF StartSwap, CallsTypeOK
    <3>2. CASE StartContext(r)
      BY <1>1, <3>2 DEF StartContext, CallsTypeOK
    <3>3. CASE StartReturn(r)
      BY <1>1, <3>3 DEF StartReturn, CallsTypeOK
    <3> QED  BY <1>3, <3>1, <3>2, <3>3
  <2> QED  BY <2>1, <2>2 DEF TypeOK, CallsTypeOK, ChangesTypeOK
<1> QED  BY <1>2, <1>3 DEF StartStep

LEMMA TypeForward ==
  ASSUME TypeOK, NEW r \in Runs, NEW f \in Files, ForwardStep(r, f)
  PROVE  TypeOK'
<1>1. /\ WatcherTypeOK /\ CallsTypeOK /\ ChangesTypeOK
      /\ fwd \in [Runs -> [Files -> {"off", "select", "send", "done"}]]
      /\ carried \in [Runs -> [Files -> 0..MaxWrites]] /\ merged \in Seq(Files \X (0..MaxWrites))
  BY TypeParts DEF CallsTypeOK, ChangesTypeOK
<1>2. CASE ForwardTake(r, f)
  <2>1. WatcherTypeOK' /\ Head(changes[f]) \in 0..MaxWrites
    BY <1>1, <1>2, TypeReceive DEF ForwardTake
  <2>2. CallsTypeOK' /\ ChangesTypeOK'
    BY <1>1, <1>2, <2>1 DEF ForwardTake, CallsTypeOK, ChangesTypeOK
  <2> QED  BY <2>1, <2>2 DEF TypeOK, CallsTypeOK, ChangesTypeOK
<1>3. CASE ForwardSend(r, f)
  <2>1. WatcherTypeOK' /\ CallsTypeOK'
    BY <1>1, <1>3 DEF ForwardSend, WatcherTypeOK, watcherVars, CallsTypeOK
  <2>2. <<f, carried[r][f]>> \in Files \X (0..MaxWrites)
    BY <1>1
  <2>3. merged' \in Seq(Files \X (0..MaxWrites)) /\ Len(merged') <= Room
    <3>1. /\ merged' = Append(merged, <<f, carried[r][f]>>) /\ Len(merged) < Room
          /\ Len(merged) \in Nat
      BY <1>1, <1>3, LenProperties DEF ForwardSend
    <3> QED  BY <1>1, <2>2, <3>1, AppendProperties
  <2>4. ChangesTypeOK'
    BY <1>1, <1>3, <2>3 DEF ForwardSend, ChangesTypeOK
  <2> QED  BY <2>1, <2>4 DEF TypeOK, CallsTypeOK, ChangesTypeOK
<1>4. CASE ForwardPanics(r, f)
  <2>1. WatcherTypeOK' /\ CallsTypeOK' /\ ChangesTypeOK'
    BY <1>1, <1>4 DEF ForwardPanics, Panic, WatcherTypeOK, CallsTypeOK, ChangesTypeOK
  <2> QED  BY <2>1 DEF TypeOK, CallsTypeOK, ChangesTypeOK
<1>5. CASE ForwardEnds(r, f)
  <2>1. WatcherTypeOK' /\ CallsTypeOK' /\ ChangesTypeOK'
    BY <1>1, <1>5 DEF ForwardEnds, WatcherTypeOK, watcherVars, CallsTypeOK, ChangesTypeOK
  <2> QED  BY <2>1 DEF TypeOK, CallsTypeOK, ChangesTypeOK
<1> QED  BY <1>2, <1>3, <1>4, <1>5 DEF ForwardStep

LEMMA TypeRead == TypeOK /\ Read => TypeOK'
<1> SUFFICES ASSUME TypeOK, Read PROVE TypeOK'
  OBVIOUS
<1>1. /\ WatcherTypeOK /\ CallsTypeOK /\ ChangesTypeOK
      /\ merged \in Seq(Files \X (0..MaxWrites)) /\ merged # <<>> /\ Len(merged) <= Room
  BY TypeParts DEF ChangesTypeOK, Read
<1>2. /\ Head(merged) \in Files \X (0..MaxWrites) /\ Tail(merged) \in Seq(Files \X (0..MaxWrites))
      /\ Len(Tail(merged)) = Len(merged) - 1 /\ Len(merged) \in Nat
  BY <1>1, HeadTailProperties, LenProperties
<1>3. ChangesTypeOK'
  <2>1. seen' \in [Files -> 0..MaxWrites]
    BY <1>1, <1>2 DEF Read, ChangesTypeOK
  <2> QED  BY <1>1, <1>2, <2>1 DEF Read, ChangesTypeOK
<1>4. WatcherTypeOK' /\ CallsTypeOK'
  BY <1>1 DEF Read, WatcherTypeOK, watcherVars, CallsTypeOK
<1> QED  BY <1>3, <1>4 DEF TypeOK, CallsTypeOK, ChangesTypeOK

LEMMA TypeStop ==
  ASSUME TypeOK, NEW s \in Stops, StopSwap(s) \/ StopStep(s)
  PROVE  TypeOK'
<1>1. WatcherTypeOK /\ CallsTypeOK /\ ChangesTypeOK
  BY TypeParts
<1>2. ChangesTypeOK'
  BY <1>1 DEF StopSwap, StopStep, StopCancel, StopFile, StopFileDone, StopWaited, StopReturn,
              ChangesTypeOK
<1>3. WatcherTypeOK'
  <2>1. ASSUME NEW f \in Files, StopFile(s, f) PROVE WatcherTypeOK'
    <3>1. CASE StopWatcher(f)
      BY <1>1, <3>1, TypeStartStop
    <3>2. CASE UNCHANGED watcherVars
      BY <1>1, <3>2 DEF WatcherTypeOK, watcherVars
    <3> QED  BY <2>1, <3>1, <3>2 DEF StopFile
  <2>2. CASE StopCancel(s)
    BY <1>1, <2>2 DEF StopCancel, WatcherTypeOK, CallsTypeOK
  <2>3. CASE UNCHANGED watcherVars
    BY <1>1, <2>3 DEF WatcherTypeOK, watcherVars
  <2> QED  BY <2>1, <2>2, <2>3 DEF StopSwap, StopStep, StopFileDone, StopWaited, StopReturn
<1>4. CallsTypeOK'
  <2>1. CASE StopSwap(s)
    <3>1. {r \in Runs : start[r] # "nil"} \in SUBSET Runs
      OBVIOUS
    <3> QED  BY <1>1, <2>1, <3>1 DEF StopSwap, CallsTypeOK
  <2>2. CASE StopCancel(s)
    BY <1>1, <2>2 DEF StopCancel, CallsTypeOK
  <2>3. CASE \E f \in Files : StopFile(s, f)
    BY <1>1, <2>3 DEF StopFile, CallsTypeOK
  <2>4. CASE StopFileDone(s)
    BY <1>1, <2>4 DEF StopFileDone, CallsTypeOK
  <2>5. CASE StopWaited(s)
    BY <1>1, <2>5 DEF StopWaited, CallsTypeOK
  <2>6. CASE StopReturn(s)
    BY <1>1, <2>6 DEF StopReturn, CallsTypeOK
  <2> QED  BY <2>1, <2>2, <2>3, <2>4, <2>5, <2>6 DEF StopStep
<1> QED  BY <1>2, <1>3, <1>4 DEF TypeOK, CallsTypeOK, ChangesTypeOK

LEMMA TypeNext == TypeOK /\ [Next]_vars => TypeOK'
<1> SUFFICES ASSUME TypeOK, [Next]_vars PROVE TypeOK'
  OBVIOUS
<1>1. WatcherTypeOK /\ CallsTypeOK /\ ChangesTypeOK
  BY TypeParts
<1>2. ASSUME UNCHANGED ownVars, WatcherTypeOK' PROVE TypeOK'
  <2>1. CallsTypeOK' /\ ChangesTypeOK'
    BY <1>1, <1>2 DEF CallsTypeOK, ChangesTypeOK
  <2> QED  BY <1>2, <2>1 DEF TypeOK, CallsTypeOK, ChangesTypeOK
<1>3. CASE UNCHANGED vars
  BY <1>1, <1>2, <1>3 DEF vars, watcherVars, WatcherTypeOK
<1>4. CASE WatcherStep
  <2>1. ASSUME NEW r \in Runs, Cancel(r) PROVE WatcherTypeOK'
    BY <1>1, <2>1 DEF WatcherTypeOK, Cancel
  <2> QED  BY <1>1, <1>2, <1>4, <2>1, TypeFiles, TypePoll DEF WatcherStep
<1> QED  BY <1>3, <1>4, TypeStart, TypeForward, TypeRead, TypeStop DEF Next

\* Every state of the multi-watcher and its file watchers is of its type: in
\* particular the merged channel never holds more than it has room for
\* (watch.go:316-335, 375-394).
THEOREM TypeCorrect == Spec => []TypeOK
  BY TypeInit, TypeNext, PTL DEF Spec
-----------------------------------------------------------------------------
(* Why no goroutine panics, and none is left when Stop returns.            *)

\* One call of Start at most gets past its check, and what runs is its doing.
StartInv ==
  /\ \A r \in Runs : start[r] \in {"swapped", "files"} => r \in launched
  /\ \A r \in Runs, f \in Files :
        poller[r][f] # "off" \/ fwd[r][f] # "off" =>
            r \in launched /\ f \notin toStart[r] /\ start[r] \notin {"idle", "swapped"}
  /\ \A f \in Files :
        running[f] \/ stop[f] \/ shut[f] => \E r \in Runs : poller[r][f] # "off"
  /\ \A r, q \in launched : r = q
  /\ active => launched # {}

\* One call of Stop at most gets past its check, and it closes the channel.
UnderWay(s) == stopping[s] \notin {"idle", "nil"}

StopInv ==
  /\ \A s \in Stops : UnderWay(s) =>
        ~active /\ launched # {} /\ \A t \in Stops : UnderWay(t) => t = s
  /\ mergedShut => \E s \in Stops : stopping[s] = "stopped"
  /\ \A s \in Stops :
        /\ waitFor[s] # None => stopping[s] = "files"
        /\ stopping[s] \in {"close", "stopped"} => toStop[s] = {}

Forwarding(r, f) == fwd[r][f] \in {"select", "send"}

Counted == \A r \in Runs, f \in Files : <<r, f>> \in wg <=> Forwarding(r, f)

\* A goroutine of a watcher that runs no more is waited for.
Awaited ==
  \A f \in Files :
      ~running[f] /\ (\E r \in Runs : Polling(r, f)) => \E t \in Stops : waitFor[t] = f

\* The calls of Start that are under way when Stop is.
Overlaps ==
  \A s \in Stops, r \in Runs : stopping[s] # "idle" /\ start[r] # "nil" => r \in overlap[s]

\* What Stop leaves behind it on its way.
Passed ==
  \A s \in Stops :
      stopping[s] \in {"files", "close", "stopped"} /\ launched \cap overlap[s] = {} =>
          /\ \A f \in Files \ toStop[s] : ~running[f]
          /\ stopping[s] \in {"close", "stopped"} /\ s \notin timedOut => wg = {}

CallsInv == StartInv /\ StopInv /\ Counted /\ Overlaps /\ Passed
WatchersInv == ChannelsOpen /\ OneGoroutine /\ Awaited

StopsInv == TypeOK /\ CallsInv /\ WatchersInv /\ PanicOnlyFromRace

LEMMA StopsInit == Init => StopsInv
<1> SUFFICES ASSUME Init PROVE StopsInv
  OBVIOUS
<1>1. CallsInv
  BY DEF Init, WatcherInit, CallsInv, StartInv, StopInv, UnderWay, Counted, Forwarding, Overlaps,
         Passed
<1>2. WatchersInv
  BY GoroutinesInit DEF Init, WatcherInit, WatchersInv, ChannelsOpen, Awaited, Polling
<1>3. PanicOnlyFromRace
  BY DEF Init, WatcherInit, PanicOnlyFromRace
<1> QED  BY <1>1, <1>2, <1>3, TypeInit DEF StopsInv

\* Neither the calls nor the goroutines move.
LEMMA StopsSame ==
  ASSUME StopsInv, ~panicked,
         UNCHANGED <<running, stop, stopped, shut, poller, panicked, active, wg, mergedShut, start,
                     toStart, stopping, toStop, waitFor, fwd, launched, overlap, timedOut>>
  PROVE  CallsInv' /\ WatchersInv' /\ PanicOnlyFromRace'
<1>1. CallsInv'
  BY DEF StopsInv, CallsInv, StartInv, StopInv, UnderWay, Counted, Forwarding, Overlaps, Passed
<1>2. WatchersInv'
  BY GoroutinesSame DEF StopsInv, WatchersInv, ChannelsOpen, Awaited, Polling
<1> QED  BY <1>1, <1>2 DEF PanicOnlyFromRace

LEMMA StopsPoll ==
  ASSUME StopsInv, ~panicked, NEW r \in Runs, NEW f \in Files, PollStep(r, f), UNCHANGED ownVars
  PROVE  CallsInv' /\ WatchersInv' /\ PanicOnlyFromRace'
<1>1. WatcherTypeOK
  BY TypeParts DEF StopsInv
<1>2. \A q \in Runs : poller[q][f] # "off" => q = r
  <2>1. poller[r][f] # "off"
    BY <1>1, PollEffect
  <2> QED  BY <2>1 DEF StopsInv, CallsInv, StartInv
<1>3. ChannelsOpen' /\ panicked' = panicked
  BY <1>1, <1>2, ChannelsPoll DEF StopsInv, WatchersInv
<1>4. /\ UNCHANGED <<running, stop>>
      /\ poller[r][f] \in {"select", "send", "exiting"} /\ poller'[r][f] # "off"
      /\ \A q \in Runs, g \in Files : <<q, g>> # <<r, f>> => poller'[q][g] = poller[q][g]
      /\ \A g \in Files \ {f} : shut'[g] = shut[g]
  BY <1>1, <1>3, PollEffect DEF Panic
<1>5. CallsInv'
  <2>1. StartInv'
    BY <1>4 DEF StopsInv, CallsInv, StartInv
  <2> QED  BY <1>4, <2>1 DEF StopsInv, CallsInv, StopInv, UnderWay, Counted, Forwarding, Overlaps,
                           Passed
<1>6. OneGoroutine'
  BY <1>1, GoroutinesPoll DEF StopsInv, WatchersInv
<1>7. Awaited'
  BY <1>4 DEF StopsInv, WatchersInv, Awaited, Polling
<1> QED  BY <1>3, <1>5, <1>6, <1>7 DEF WatchersInv, PanicOnlyFromRace

\* The watchers and forwarders a call of Start starts overlap every Stop.
LEMMA StopsStartFile ==
  ASSUME StopsInv, ~panicked, NEW r \in Runs, NEW f \in Files, StartFile(r, f)
  PROVE  CallsInv' /\ WatchersInv' /\ PanicOnlyFromRace'
<1>1. /\ WatcherTypeOK /\ StartWatcher(r, f)
      /\ poller \in [Runs -> [Files -> {"off", "select", "send", "exiting", "done"}]]
      /\ running \in [Files -> BOOLEAN]
      /\ fwd \in [Runs -> [Files -> {"off", "select", "send", "done"}]]
      /\ toStart \in [Runs -> SUBSET Files]
  BY TypeParts DEF StopsInv, WatcherTypeOK, CallsTypeOK, StartFile
<1>2. /\ r \in launched /\ start[r] = "files" /\ f \in toStart[r]
      /\ poller[r][f] = "off" /\ fwd[r][f] = "off"
  BY DEF StopsInv, CallsInv, StartInv, StartFile
<1>3. \A q \in Runs : poller[q][f] = "off"
  BY <1>2 DEF StopsInv, CallsInv, StartInv
<1>4. ~running[f] /\ ~stop[f] /\ ~shut[f]
  BY <1>3 DEF StopsInv, CallsInv, StartInv
<1>5. ChannelsOpen' /\ panicked' = panicked /\ OneGoroutine'
  BY <1>1, <1>2, <1>4, ChannelsStart, GoroutinesStart DEF StopsInv, WatchersInv
<1>6. /\ UNCHANGED <<stop, shut, active, mergedShut, start, stopping, toStop, waitFor, launched,
                     overlap, timedOut>>
      /\ poller'[r][f] = "select" /\ running'[f]
      /\ \A q \in Runs, g \in Files : <<q, g>> # <<r, f>> =>
            poller'[q][g] = poller[q][g] /\ fwd'[q][g] = fwd[q][g]
      /\ \A g \in Files \ {f} : running'[g] = running[g]
      /\ toStart'[r] = toStart[r] \ {f} /\ \A q \in Runs \ {r} : toStart'[q] = toStart[q]
      /\ wg' = wg \cup {<<r, f>>} /\ fwd'[r][f] = "select"
  BY <1>1, <1>4 DEF StartFile, StartWatcher
<1>7. StartInv'
  BY <1>2, <1>6 DEF StopsInv, CallsInv, StartInv
<1>8. StopInv' /\ Overlaps' /\ Counted'
  BY <1>6 DEF StopsInv, CallsInv, StopInv, UnderWay, Overlaps, Counted, Forwarding
<1>9. Passed'
  <2>1. \A s \in Stops : stopping[s] # "idle" => r \in launched \cap overlap[s]
    BY <1>2 DEF StopsInv, CallsInv, Overlaps
  <2> QED  BY <1>6, <2>1 DEF Passed
<1>10. Awaited'
  BY <1>6 DEF StopsInv, WatchersInv, Awaited, Polling
<1> QED  BY <1>5, <1>7, <1>8, <1>9, <1>10 DEF CallsInv, WatchersInv, PanicOnlyFromRace

LEMMA StopsStart ==
  ASSUME StopsInv, ~panicked, NEW r \in Runs, StartSwap(r) \/ StartContext(r) \/ StartReturn(r)
  PROVE  CallsInv' /\ WatchersInv' /\ PanicOnlyFromRace'
<1>1. /\ start \in [Runs -> {"idle", "swapped", "files", "nil"}]
      /\ toStart \in [Runs -> SUBSET Files] /\ launched \subseteq Runs
  BY TypeParts DEF StopsInv, CallsTypeOK
<1>2. UNCHANGED <<running, stop, stopped, shut, poller, panicked, wg, mergedShut, stopping, toStop,
                  waitFor, fwd, overlap, timedOut>>
  BY DEF StartSwap, StartContext, StartReturn, watcherVars
<1>3. WatchersInv' /\ PanicOnlyFromRace'
  BY <1>2, GoroutinesSame
     DEF StopsInv, WatchersInv, ChannelsOpen, Awaited, Polling, PanicOnlyFromRace
<1>4. /\ launched \subseteq launched' /\ start[r] # "nil"
      /\ \A q \in Runs \ {r} : start'[q] = start[q]
  BY <1>1 DEF StartSwap, StartContext, StartReturn
<1>5. Counted' /\ Overlaps' /\ Passed'
  BY <1>2, <1>4 DEF StopsInv, CallsInv, Counted, Forwarding, Overlaps, Passed
<1>6. CASE StartSwap(r)
  <2>1. /\ start[r] = "idle" /\ active' /\ toStart' = toStart
        /\ \/ active /\ launched' = launched /\ start'[r] = "nil"
           \/ launched = {} /\ launched' = {r} /\ start'[r] \in {"nil", "swapped"} /\ ~active
    BY <1>1, <1>6 DEF StartSwap
  <2>2. \A f \in Files : poller[r][f] = "off" /\ fwd[r][f] = "off"
    BY <2>1 DEF StopsInv, CallsInv, StartInv
  <2>3. StartInv'
    BY <1>2, <1>4, <2>1, <2>2 DEF StopsInv, CallsInv, StartInv
  <2>4. \A s \in Stops : ~UnderWay(s)
    BY <2>1 DEF StopsInv, CallsInv, StopInv, StartInv
  <2>5. StopInv'
    BY <1>2, <2>4 DEF StopsInv, CallsInv, StopInv, UnderWay
  <2> QED  BY <1>3, <1>5, <2>3, <2>5 DEF CallsInv
<1>7. CASE StartContext(r) \/ StartReturn(r)
  <2>1. /\ UNCHANGED <<active, launched>>
        /\ \/ start[r] = "swapped" /\ start'[r] = "files"
           \/ start[r] = "files" /\ start'[r] = "nil" /\ toStart' = toStart
        /\ \A q \in Runs \ {r} : toStart'[q] = toStart[q]
    BY <1>1, <1>7 DEF StartContext, StartReturn
  <2>2. start[r] = "swapped" => \A f \in Files : poller[r][f] = "off" /\ fwd[r][f] = "off"
    BY DEF StopsInv, CallsInv, StartInv
  <2>3. StartInv'
    BY <1>2, <1>4, <2>1, <2>2 DEF StopsInv, CallsInv, StartInv
  <2>4. StopInv'
    BY <1>2, <2>1 DEF StopsInv, CallsInv, StopInv, UnderWay
  <2> QED  BY <1>3, <1>5, <2>3, <2>4 DEF CallsInv
<1> QED  BY <1>6, <1>7

\* Only a Stop that was slower, or raced with Start, closes the channel while
\* a goroutine forwards.
LEMMA StopsForward ==
  ASSUME StopsInv, ~panicked, NEW r \in Runs, NEW f \in Files, ForwardStep(r, f)
  PROVE  CallsInv' /\ WatchersInv' /\ PanicOnlyFromRace'
<1>1. fwd \in [Runs -> [Files -> {"off", "select", "send", "done"}]]
  BY TypeParts DEF StopsInv, CallsTypeOK
<1>2. CASE ForwardPanics(r, f)
  <2>1. <<r, f>> \in wg
    BY <1>2 DEF StopsInv, CallsInv, Counted, Forwarding, ForwardPanics
  <2>2. PICK s \in Stops : stopping[s] = "stopped"
    BY <1>2 DEF StopsInv, CallsInv, StopInv, ForwardPanics
  <2>3. ~Clean(s)
    BY <2>1, <2>2 DEF StopsInv, CallsInv, Passed, Clean
  <2>4. PanicOnlyFromRace'
    BY <1>2, <2>3 DEF ForwardPanics, PanicOnlyFromRace, Clean
  <2>5. UNCHANGED <<running, stop, stopped, shut, poller>> /\ UNCHANGED ownVars
    BY <1>2 DEF ForwardPanics, Panic
  <2>6. CallsInv'
    BY <2>5 DEF StopsInv, CallsInv, StartInv, StopInv, UnderWay, Counted, Forwarding, Overlaps, Passed
  <2>7. WatchersInv'
    BY <2>5, GoroutinesSame DEF StopsInv, WatchersInv, ChannelsOpen, Awaited, Polling
  <2> QED  BY <2>4, <2>6, <2>7
<1>3. CASE ForwardTake(r, f) \/ ForwardSend(r, f) \/ ForwardEnds(r, f)
  <2>1. /\ UNCHANGED <<running, stop, stopped, shut, poller, panicked, active, mergedShut, start,
                       toStart, stopping, toStop, waitFor, launched, overlap, timedOut>>
        /\ Forwarding(r, f) /\ wg' \subseteq wg
        /\ \A q \in Runs, g \in Files : <<q, g>> # <<r, f>> => fwd'[q][g] = fwd[q][g]
    BY <1>1, <1>3 DEF ForwardTake, ForwardSend, ForwardEnds, Receive, watcherVars, Forwarding
  <2>2. Counted'
    <3>1. CASE ForwardTake(r, f) \/ ForwardSend(r, f)
      <4>1. wg' = wg /\ fwd'[r][f] \in {"select", "send"}
        BY <1>1, <3>1 DEF ForwardTake, ForwardSend
      <4> QED  BY <2>1, <4>1 DEF StopsInv, CallsInv, Counted, Forwarding
    <3>2. CASE ForwardEnds(r, f)
      <4>1. wg' = wg \ {<<r, f>>} /\ fwd'[r][f] = "done"
        BY <1>1, <3>2 DEF ForwardEnds
      <4> QED  BY <2>1, <4>1 DEF StopsInv, CallsInv, Counted, Forwarding
    <3> QED  BY <1>3, <3>1, <3>2
  <2>3. StartInv'
    BY <2>1 DEF StopsInv, CallsInv, StartInv, Forwarding
  <2>4. StopInv' /\ Overlaps' /\ Passed'
    BY <2>1 DEF StopsInv, CallsInv, StopInv, UnderWay, Overlaps, Passed
  <2>5. WatchersInv' /\ PanicOnlyFromRace'
    BY <2>1, GoroutinesSame
       DEF StopsInv, WatchersInv, ChannelsOpen, Awaited, Polling, PanicOnlyFromRace
  <2> QED  BY <2>2, <2>3, <2>4, <2>5 DEF CallsInv
<1> QED  BY <1>2, <1>3 DEF ForwardStep

\* Stop waits for what it stops, one watcher after the other.
LEMMA StopsStopFile ==
  ASSUME StopsInv, ~panicked, NEW s \in Stops, NEW f \in Files, StopFile(s, f)
  PROVE  CallsInv' /\ WatchersInv' /\ PanicOnlyFromRace'
<1>1. /\ WatcherTypeOK /\ running \in [Files -> BOOLEAN] /\ stop \in [Files -> BOOLEAN]
      /\ toStop \in [Stops -> SUBSET Files] /\ waitFor \in [Stops -> Files \cup {None}]
  BY TypeParts DEF StopsInv, WatcherTypeOK, CallsTypeOK
<1>2. /\ UNCHANGED <<active, wg, mergedShut, start, toStart, stopping, fwd, launched, overlap, timedOut>>
      /\ stopping[s] = "files" /\ waitFor[s] = None
      /\ toStop'[s] = toStop[s] \ {f} /\ waitFor'[s] \in {None, f}
      /\ \A t \in Stops \ {s} : toStop'[t] = toStop[t] /\ waitFor'[t] = waitFor[t]
  BY <1>1 DEF StopFile
<1>3. /\ ChannelsOpen' /\ OneGoroutine' /\ UNCHANGED <<panicked, shut, poller>>
      /\ ~running'[f]
      /\ \A g \in Files \ {f} : running'[g] = running[g]
      /\ \A g \in Files : running'[g] \/ stop'[g] => running[g] \/ stop[g]
      /\ ~running[f] \/ waitFor'[s] = f
  <2>1. CASE StopWatcher(f) /\ waitFor' = [waitFor EXCEPT ![s] = f]
    <3>1. ChannelsOpen' /\ panicked' = panicked /\ OneGoroutine'
      BY <1>1, <2>1, ChannelsStop, GoroutinesStop DEF StopsInv, WatchersInv
    <3>2. running[f] /\ waitFor'[s] = f
      BY <1>1, <2>1 DEF StopWatcher
    <3> QED  BY <1>1, <2>1, <3>1, <3>2 DEF StopWatcher, Panic
  <2>2. CASE ~running[f] /\ UNCHANGED watcherVars
    BY <2>2, GoroutinesSame DEF watcherVars, StopsInv, WatchersInv, ChannelsOpen
  <2> QED  BY <2>1, <2>2 DEF StopFile
<1>4. StartInv' /\ Counted' /\ Overlaps'
  BY <1>2, <1>3 DEF StopsInv, CallsInv, StartInv, Counted, Forwarding, Overlaps
<1>5. StopInv'
  BY <1>1, <1>2 DEF StopsInv, CallsInv, StopInv, UnderWay
<1>6. Passed'
  BY <1>2, <1>3 DEF StopsInv, CallsInv, Passed
<1>7. Awaited'
  <2>1. SUFFICES ASSUME NEW g \in Files, ~running'[g], NEW r \in Runs, Polling(r, g)
                 PROVE  \E t \in Stops : waitFor'[t] = g
    BY <1>3 DEF Awaited, Polling
  <2>2. CASE running[g]
    BY <1>3, <2>1, <2>2
  <2>3. CASE ~running[g]
    <3>1. PICK t \in Stops : waitFor[t] = g
      BY <2>1, <2>3 DEF StopsInv, WatchersInv, Awaited
    <3>2. t # s
      BY <1>2, <3>1
    <3> QED  BY <1>2, <3>1, <3>2
  <2> QED  BY <2>2, <2>3
<1> QED  BY <1>3, <1>4, <1>5, <1>6, <1>7 DEF CallsInv, WatchersInv, PanicOnlyFromRace

LEMMA StopsStop ==
  ASSUME StopsInv, ~panicked, NEW s \in Stops, StopSwap(s) \/ StopStep(s)
  PROVE  CallsInv' /\ WatchersInv' /\ PanicOnlyFromRace'
<1>1. /\ stopping \in [Stops -> {"idle", "nil", "swapped", "files", "close", "stopped"}]
      /\ toStop \in [Stops -> SUBSET Files] /\ waitFor \in [Stops -> Files \cup {None}]
      /\ overlap \in [Stops -> SUBSET Runs]
  BY TypeParts DEF StopsInv, CallsTypeOK
<1>2. CASE \E f \in Files : StopFile(s, f)
  BY <1>2, StopsStopFile
<1>3. CASE StopFileDone(s)
  <2>1. /\ UNCHANGED <<running, stop, stopped, shut, poller, panicked, active, wg, mergedShut, start,
                       toStart, stopping, toStop, fwd, launched, overlap, timedOut>>
        /\ waitFor[s] # None /\ stopped[waitFor[s]] /\ waitFor'[s] = None
        /\ \A t \in Stops \ {s} : waitFor'[t] = waitFor[t]
    BY <1>1, <1>3 DEF StopFileDone, watcherVars
  <2>2. CallsInv' /\ PanicOnlyFromRace'
    BY <2>1 DEF StopsInv, CallsInv, StartInv, StopInv, UnderWay, Counted, Forwarding, Overlaps,
                Passed, PanicOnlyFromRace
  <2>3. ChannelsOpen' /\ OneGoroutine'
    BY <2>1, GoroutinesSame DEF StopsInv, WatchersInv, ChannelsOpen
  <2>4. Awaited'
    <3>1. SUFFICES ASSUME NEW g \in Files, ~running[g], NEW r \in Runs, Polling(r, g)
                   PROVE  \E t \in Stops : waitFor'[t] = g
      BY <2>1 DEF Awaited, Polling
    <3>2. PICK t \in Stops : waitFor[t] = g
      BY <3>1 DEF StopsInv, WatchersInv, Awaited
    <3>3. t # s
      <4>1. SUFFICES ASSUME t = s PROVE FALSE
        OBVIOUS
      <4>2. PICK q \in Runs : poller[q][g] = "done"
        BY <2>1, <3>2, <4>1 DEF StopsInv, WatchersInv, OneGoroutine
      <4>3. q = r
        BY <3>1, <4>2 DEF StopsInv, WatchersInv, OneGoroutine, Polling
      <4> QED  BY <3>1, <4>2, <4>3 DEF Polling
    <3> QED  BY <2>1, <3>2, <3>3
  <2> QED  BY <2>2, <2>3, <2>4 DEF WatchersInv
<1>4. CASE StopSwap(s) \/ StopCancel(s) \/ StopWaited(s) \/ StopReturn(s)
  <2>1. /\ UNCHANGED <<running, stop, stopped, shut, poller, panicked, wg, start, toStart, waitFor,
                       fwd, launched>>
        /\ \A t \in Stops \ {s} :
              stopping'[t] = stopping[t] /\ toStop'[t] = toStop[t] /\ overlap'[t] = overlap[t]
    BY <1>1, <1>4 DEF StopSwap, StopCancel, StopWaited, StopReturn, watcherVars
  <2>2. WatchersInv' /\ Counted' /\ PanicOnlyFromRace'
    BY <2>1, GoroutinesSame
       DEF StopsInv, WatchersInv, ChannelsOpen, Awaited, Polling, CallsInv, Counted, Forwarding,
           PanicOnlyFromRace
  <2>3. CASE StopSwap(s)
    <3>1. /\ stopping[s] = "idle" /\ ~active' /\ UNCHANGED <<mergedShut, timedOut, toStop>>
          /\ stopping'[s] = IF active THEN "swapped" ELSE "nil"
          /\ overlap'[s] = {r \in Runs : start[r] # "nil"}
      BY <1>1, <2>3 DEF StopSwap
    <3>2. StartInv' /\ Overlaps' /\ Passed'
      BY <2>1, <3>1 DEF StopsInv, CallsInv, StartInv, Overlaps, Passed
    <3>3. StopInv'
      BY <2>1, <3>1 DEF StopsInv, CallsInv, StopInv, StartInv, UnderWay
    <3> QED  BY <2>2, <3>2, <3>3 DEF CallsInv
  <2>4. CASE StopCancel(s)
    <3>1. /\ stopping[s] = "swapped" /\ stopping'[s] = "files" /\ toStop'[s] = Files
          /\ UNCHANGED <<active, mergedShut, timedOut, overlap>>
      BY <1>1, <2>4 DEF StopCancel
    <3>2. StartInv' /\ StopInv' /\ Overlaps' /\ Passed'
      BY <2>1, <3>1 DEF StopsInv, CallsInv, StartInv, StopInv, UnderWay, Overlaps, Passed
    <3> QED  BY <2>2, <3>2 DEF CallsInv
  <2>5. CASE StopWaited(s)
    <3>1. /\ stopping[s] = "files" /\ stopping'[s] = "close" /\ toStop[s] = {} /\ waitFor[s] = None
          /\ (wg = {} \/ s \in timedOut') /\ timedOut \subseteq timedOut'
          /\ UNCHANGED <<active, mergedShut, toStop, overlap>>
      BY <1>1, <2>5 DEF StopWaited
    <3>2. StartInv' /\ StopInv' /\ Overlaps' /\ Passed'
      BY <2>1, <3>1 DEF StopsInv, CallsInv, StartInv, StopInv, UnderWay, Overlaps, Passed
    <3> QED  BY <2>2, <3>2 DEF CallsInv
  <2>6. CASE StopReturn(s)
    <3>1. /\ stopping[s] = "close" /\ stopping'[s] = "stopped"
          /\ UNCHANGED <<active, timedOut, toStop, overlap>>
      BY <1>1, <2>6 DEF StopReturn
    <3>2. StartInv' /\ StopInv' /\ Overlaps' /\ Passed'
      BY <2>1, <3>1 DEF StopsInv, CallsInv, StartInv, StopInv, UnderWay, Overlaps, Passed
    <3> QED  BY <2>2, <3>2 DEF CallsInv
  <2> QED  BY <1>4, <2>3, <2>4, <2>5, <2>6
<1> QED  BY <1>2, <1>3, <1>4 DEF StopStep

LEMMA StopsNext == StopsInv /\ [Next]_vars => StopsInv'
<1> SUFFICES ASSUME StopsInv, [Next]_vars PROVE StopsInv'
  OBVIOUS
<1>1. TypeOK'
  BY TypeNext DEF StopsInv
<1>2. CASE UNCHANGED vars
  <2>1. CallsInv'
    BY <1>2 DEF vars, watcherVars, StopsInv, CallsInv, StartInv, StopInv, UnderWay, Counted,
                Forwarding, Overlaps, Passed
  <2>2. WatchersInv' /\ PanicOnlyFromRace'
    BY <1>2, GoroutinesSame
       DEF vars, watcherVars, StopsInv, WatchersInv, ChannelsOpen, Awaited, Polling,
           PanicOnlyFromRace, Clean
  <2> QED  BY <1>1, <2>1, <2>2 DEF StopsInv
<1>3. CASE Next
  <2>1. ~panicked
    BY <1>3 DEF Next
  <2>2. CASE WatcherStep
    <3>1. ASSUME NEW f \in Files, Write(f) \/ Vanish(f) \/ ComeBack(f), UNCHANGED ownVars
          PROVE  CallsInv' /\ WatchersInv' /\ PanicOnlyFromRace'
      BY <2>1, <3>1, StopsSame DEF Write, Vanish, ComeBack
    <3>2. ASSUME NEW r \in Runs, Cancel(r), UNCHANGED ownVars
          PROVE  CallsInv' /\ WatchersInv' /\ PanicOnlyFromRace'
      BY <2>1, <3>2, StopsSame DEF Cancel
    <3> QED  BY <1>1, <2>1, <2>2, <3>1, <3>2, StopsPoll DEF WatcherStep, StopsInv
  <2>3. CASE Read
    <3>1. CallsInv' /\ WatchersInv' /\ PanicOnlyFromRace'
      BY <2>1, <2>3, StopsSame DEF Read, watcherVars
    <3> QED  BY <1>1, <3>1 DEF StopsInv
  <2>4. ASSUME NEW r \in Runs, StartSwap(r) \/ StartStep(r) PROVE StopsInv'
    BY <1>1, <2>1, <2>4, StopsStart, StopsStartFile DEF StartStep, StopsInv
  <2> QED  BY <1>1, <1>3, <2>1, <2>2, <2>3, <2>4, StopsForward, StopsStop DEF Next, StopsInv
<1> QED  BY <1>2, <1>3

\* For any number of watchers and calls: no goroutine sends on a closed channel
\* or closes one twice, if every Stop begins when no Start that has got past
\* its check is under way, and the goroutines end within five seconds
\* (watch.go:350-394, 397-428).
THEOREM PanicsComeFromRaces == Spec => []PanicOnlyFromRace
<1>1. StopsInv => PanicOnlyFromRace
  BY DEF StopsInv
<1> QED  BY <1>1, StopsInit, StopsNext, PTL DEF Spec

\* For any number of watchers and calls: a Stop that returns leaves no goroutine
\* that polls or forwards, unless a Start was under way since it began or the
\* goroutines took longer than five seconds (watch.go:397-428).
THEOREM LeaksComeFromRaces == Spec => LeakOnlyFromRace
<1> DEFINE Returns(s) ==
      (stopping[s] = "close" /\ stopping'[s] = "stopped" /\ Clean(s)) =>
          \A r \in Runs, f \in Files : ~Polling(r, f) /\ fwd[r][f] \in {"off", "done"}
<1>1. StopsInv => \A s \in Stops : Returns(s)
  <2>1. SUFFICES ASSUME StopsInv, NEW s \in Stops, stopping[s] = "close", Clean(s),
                        NEW r \in Runs, NEW f \in Files
                 PROVE  ~Polling(r, f) /\ fwd[r][f] \in {"off", "done"}
    OBVIOUS
  <2>2. ~running[f] /\ wg = {}
    BY <2>1 DEF StopsInv, CallsInv, StopInv, Passed, Clean
  <2>3. fwd[r][f] \in {"off", "done"}
    <3>1. fwd[r][f] \in {"off", "select", "send", "done"}
      BY TypeParts, <2>1 DEF StopsInv, CallsTypeOK
    <3> QED  BY <2>1, <2>2, <3>1 DEF StopsInv, CallsInv, Counted, Forwarding
  <2>4. ~Polling(r, f)
    <3>1. SUFFICES ASSUME Polling(r, f) PROVE FALSE
      OBVIOUS
    <3>2. PICK t \in Stops : waitFor[t] = f
      BY <2>1, <2>2, <3>1 DEF StopsInv, WatchersInv, Awaited
    <3>3. stopping[t] = "files"
      BY <2>1, <3>2 DEF StopsInv, CallsInv, StopInv
    <3> QED  BY <2>1, <3>3 DEF StopsInv, CallsInv, StopInv, UnderWay
  <2> QED  BY <2>3, <2>4
<1>2. LeakOnlyFromRace <=> [][\A s \in Stops : Returns(s)]_stopping
  BY DEF LeakOnlyFromRace
<1>3. StopsInv => [\A s \in Stops : Returns(s)]_stopping
  BY <1>1
<1> QED  BY <1>2, <1>3, StopsInit, StopsNext, PTL DEF Spec
-----------------------------------------------------------------------------
(* The order of what the reader is told.  A change goes through two        *)
(* pipelines: from the file to the goroutine that forwards it, and from    *)
(* there to the reader.                                                    *)

\* Queues of the changes of all files.
Queues == Seq(Files \X (0..MaxWrites))

\* The changes of f in a queue of the changes of all files, at their places.
Of(queue, f) == [i \in 1..Len(queue) |-> IF queue[i][1] = f THEN queue[i][2] ELSE Deleted]

MergedOf(f) == Of(merged, f)

Carried(f) == {carried[r][f] : r \in Runs}

Past(f) == {seen[f]} \cup {MergedOf(f)[i] : i \in 1..Len(merged)} \cup Carried(f)

InOrder(f) ==
  /\ Pipeline(Past(f), changes[f], Pending(f), lastMod[f])
  /\ Pipeline({seen[f]}, MergedOf(f), Carried(f), MaxWrites)

CarriedOK == \A r \in Runs, f \in Files : carried[r][f] # Deleted => fwd[r][f] = "send"

OrderInv == StopsInv /\ SendingOK /\ CarriedOK /\ \A f \in Files : InOrder(f)

LEMMA OfType ==
  ASSUME NEW queue \in Queues, NEW f \in Files
  PROVE  /\ Of(queue, f) \in Seq(Nat) /\ Len(Of(queue, f)) = Len(queue) /\ Len(queue) \in Nat
         /\ \A i \in 1..Len(queue) :
               /\ Of(queue, f)[i] = IF queue[i][1] = f THEN queue[i][2] ELSE Deleted
               /\ Of(queue, f)[i] \in 0..MaxWrites
<1>1. Len(queue) \in Nat /\ \A i \in 1..Len(queue) : queue[i] \in Files \X (0..MaxWrites)
  BY LenProperties, ElementOfSeq DEF Queues
<1>2. \A i \in 1..Len(queue) : (IF queue[i][1] = f THEN queue[i][2] ELSE Deleted) \in 0..MaxWrites
  BY <1>1
<1>3. Of(queue, f) \in [1..Len(queue) -> 0..MaxWrites]
  BY <1>2 DEF Of
<1>4. Of(queue, f) \in Seq(Nat) /\ Len(Of(queue, f)) = Len(queue)
  <2>1. Of(queue, f) \in [1..Len(queue) -> Nat]
    BY <1>3
  <2>2. Of(queue, f) \in Seq(Nat)
    BY <1>1, <2>1, SeqDef
  <2>3. DOMAIN Of(queue, f) = 1..Len(Of(queue, f)) /\ Len(Of(queue, f)) \in Nat
    BY <2>2, LenProperties
  <2> QED  BY <1>1, <2>1, <2>2, <2>3
<1>5. \A i \in 1..Len(queue) : Of(queue, f)[i] = IF queue[i][1] = f THEN queue[i][2] ELSE Deleted
  BY DEF Of
<1> QED  BY <1>1, <1>3, <1>4, <1>5

LEMMA OfAppend ==
  ASSUME NEW queue \in Queues, NEW f \in Files, NEW g \in Files,
         NEW n \in 0..MaxWrites
  PROVE  Of(Append(queue, <<f, n>>), g) = Append(Of(queue, g), IF g = f THEN n ELSE Deleted)
<1> DEFINE longer == Append(queue, <<f, n>>)
           new    == IF g = f THEN n ELSE Deleted
           left   == Of(longer, g)
           right  == Append(Of(queue, g), new)
<1>1. /\ longer \in Queues /\ Len(longer) = Len(queue) + 1
      /\ longer[Len(queue) + 1] = <<f, n>> /\ Len(queue) \in Nat
      /\ \A i \in 1..Len(queue) : longer[i] = queue[i]
  <2>1. <<f, n>> \in Files \X (0..MaxWrites)
    OBVIOUS
  <2> QED  BY <2>1, AppendProperties, LenProperties DEF Queues
<1>2. new \in Nat
  OBVIOUS
<1> HIDE DEF longer, new
<1>3. /\ left \in Seq(Nat) /\ Len(left) = Len(queue) + 1
      /\ \A i \in 1..Len(longer) :
            left[i] = IF longer[i][1] = g THEN longer[i][2] ELSE Deleted
  BY <1>1, OfType
<1>4. /\ Of(queue, g) \in Seq(Nat) /\ Len(Of(queue, g)) = Len(queue)
      /\ \A i \in 1..Len(queue) : Of(queue, g)[i] = IF queue[i][1] = g THEN queue[i][2] ELSE Deleted
  BY OfType
<1>5. /\ right \in Seq(Nat) /\ Len(right) = Len(queue) + 1 /\ right[Len(queue) + 1] = new
      /\ \A i \in 1..Len(queue) : right[i] = Of(queue, g)[i]
  BY <1>2, <1>4, AppendProperties
<1> HIDE DEF left, right
<1>6. ASSUME NEW i \in 1..Len(left) PROVE left[i] = right[i]
  <2>1. CASE i \in 1..Len(queue)
    <3>1. left[i] = IF queue[i][1] = g THEN queue[i][2] ELSE Deleted
      BY <1>1, <1>3, <2>1
    <3> QED  BY <1>4, <1>5, <2>1, <3>1
  <2>2. CASE i = Len(queue) + 1
    <3>1. left[i] = IF f = g THEN n ELSE Deleted
      BY <1>1, <1>3, <2>2
    <3> QED  BY <1>5, <2>2, <3>1 DEF new
  <2> QED  BY <1>1, <1>3, <2>1, <2>2
<1>7. left = right
  BY <1>3, <1>5, <1>6, SeqEqual
<1> QED  BY <1>7 DEF left, right, longer, new

LEMMA OfTail ==
  ASSUME NEW queue \in Queues, NEW g \in Files, queue # <<>>
  PROVE  /\ Of(Tail(queue), g) = Tail(Of(queue, g)) /\ Of(queue, g) # <<>>
         /\ Head(Of(queue, g)) = IF Head(queue)[1] = g THEN Head(queue)[2] ELSE Deleted
<1> DEFINE rest  == Tail(queue)
           left  == Of(rest, g)
           right == Tail(Of(queue, g))
<1>1. /\ rest \in Queues /\ Len(rest) = Len(queue) - 1
      /\ \A i \in 1..Len(rest) : rest[i] = queue[i + 1]
      /\ Len(queue) \in Nat \ {0} /\ Head(queue) = queue[1]
  BY HeadTailProperties, EmptySeq DEF Queues
<1>2. /\ Of(queue, g) \in Seq(Nat) /\ Len(Of(queue, g)) = Len(queue)
      /\ \A i \in 1..Len(queue) : Of(queue, g)[i] = IF queue[i][1] = g THEN queue[i][2] ELSE Deleted
  BY OfType
<1>3. Of(queue, g) # <<>>
  BY <1>1, <1>2, EmptySeq
<1>4. /\ right \in Seq(Nat) /\ Len(right) = Len(queue) - 1
      /\ \A i \in 1..Len(right) : right[i] = Of(queue, g)[i + 1]
      /\ Head(Of(queue, g)) = Of(queue, g)[1]
  BY <1>2, <1>3, HeadTailProperties
<1> HIDE DEF rest
<1>5. /\ left \in Seq(Nat) /\ Len(left) = Len(rest)
      /\ \A i \in 1..Len(rest) : left[i] = IF rest[i][1] = g THEN rest[i][2] ELSE Deleted
  BY <1>1, OfType
<1> HIDE DEF left, right
<1>6. ASSUME NEW i \in 1..Len(left) PROVE left[i] = right[i]
  <2>1. i \in 1..Len(rest) /\ i \in 1..Len(right) /\ i + 1 \in 1..Len(queue)
    BY <1>1, <1>4, <1>5
  <2>2. left[i] = IF queue[i + 1][1] = g THEN queue[i + 1][2] ELSE Deleted
    BY <1>1, <1>5, <2>1
  <2> QED  BY <1>2, <1>4, <2>1, <2>2
<1>7. left = right
  BY <1>1, <1>4, <1>5, <1>6, SeqEqual
<1>8. 1 \in 1..Len(queue)
  BY <1>1
<1> QED  BY <1>1, <1>2, <1>3, <1>4, <1>7, <1>8 DEF left, right, rest

LEMMA OrderTypes ==
  ASSUME TypeOK, NEW f \in Files
  PROVE  /\ changes[f] \in Seq(Nat) /\ MergedOf(f) \in Seq(Nat) /\ Len(MergedOf(f)) = Len(merged)
         /\ merged \in Queues
         /\ seen[f] \in Nat /\ Past(f) \in SUBSET Nat
         /\ Carried(f) \in SUBSET (0..MaxWrites) /\ Pending(f) \in SUBSET Nat
         /\ lastMod[f] \in Nat /\ disk[f].n \in Nat
<1>1. /\ changes[f] \in Seq(0..MaxWrites)
      /\ sending \in [Runs -> [Files -> 0..MaxWrites]] /\ lastMod[f] \in 0..MaxWrites
      /\ carried \in [Runs -> [Files -> 0..MaxWrites]] /\ seen[f] \in 0..MaxWrites
      /\ disk[f] \in [n : 0..MaxWrites, here : BOOLEAN]
      /\ merged \in Queues
  BY TypeParts DEF WatcherTypeOK, ChangesTypeOK, Queues
<1>2. /\ MergedOf(f) \in Seq(Nat) /\ Len(MergedOf(f)) = Len(merged)
      /\ \A i \in 1..Len(merged) : MergedOf(f)[i] \in Nat
  BY <1>1, OfType DEF MergedOf
<1>3. Past(f) \in SUBSET Nat
  BY <1>1, <1>2 DEF Past, Carried
<1>4. changes[f] \in Seq(Nat)
  BY <1>1
<1> QED  BY <1>1, <1>2, <1>3, <1>4 DEF Carried, Pending

LEMMA OrderInit == Init => OrderInv
<1> SUFFICES ASSUME Init PROVE OrderInv
  OBVIOUS
<1>1. SendingOK /\ CarriedOK
  BY DEF Init, WatcherInit, SendingOK, CarriedOK
<1>2. ASSUME NEW f \in Files PROVE InOrder(f)
  <2>1. /\ merged = <<>> /\ changes[f] = <<>> /\ lastMod[f] = 0 /\ seen[f] = 0
        /\ \A r \in Runs : sending[r][f] = 0 /\ carried[r][f] = 0
    BY DEF Init, WatcherInit
  <2>2. /\ \A n \in Past(f) : n = 0
        /\ \A p \in Pending(f) : p = 0
        /\ \A p \in Carried(f) : p = 0
        /\ Len(MergedOf(f)) = 0
    BY <2>1, OrderTypes, TypeInit DEF Past, Pending, Carried
  <2>3. Pipeline(Past(f), changes[f], Pending(f), lastMod[f])
    BY <2>1, <2>2 DEF Pipeline
  <2>4. Pipeline({seen[f]}, MergedOf(f), Carried(f), MaxWrites)
    BY <2>1, <2>2 DEF Pipeline
  <2> QED  BY <2>3, <2>4 DEF InOrder
<1> QED  BY <1>1, <1>2, StopsInit DEF OrderInv

\* No change moves.
LEMMA OrderSame ==
  ASSUME OrderInv, TypeOK', UNCHANGED <<changes, sending, merged, carried, seen>>,
         \A f \in Files : lastMod[f] <= lastMod'[f] /\ lastMod'[f] <= disk'[f].n,
         \A r \in Runs, f \in Files : /\ poller[r][f] = "send" => poller'[r][f] = "send"
                                      /\ fwd[r][f] = "send" => fwd'[r][f] = "send"
  PROVE  SendingOK' /\ CarriedOK' /\ \A f \in Files : InOrder(f)'
<1>1. SendingOK' /\ CarriedOK'
  BY DEF OrderInv, SendingOK, CarriedOK
<1>2. ASSUME NEW f \in Files PROVE InOrder(f)'
  <2>1. /\ MergedOf(f)' = MergedOf(f) /\ Carried(f)' = Carried(f) /\ Pending(f)' = Pending(f)
        /\ Past(f)' = Past(f)
    BY DEF MergedOf, Carried, Pending, Past
  <2>2. /\ Past(f) \in SUBSET Nat /\ changes[f] \in Seq(Nat)
        /\ Pending(f) \in SUBSET Nat /\ lastMod[f] \in Nat
    BY OrderTypes DEF OrderInv, StopsInv
  <2>3. lastMod'[f] \in Nat /\ lastMod[f] <= lastMod'[f]
    BY DEF TypeOK, WatcherTypeOK
  <2>4. Pipeline(Past(f), changes[f], Pending(f), lastMod'[f])
    BY <2>2, <2>3, PipelineLater DEF OrderInv, InOrder
  <2> QED  BY <2>1, <2>4 DEF OrderInv, InOrder
<1> QED  BY <1>1, <1>2

LEMMA OrderPoll ==
  ASSUME OrderInv, NEW r \in Runs, NEW f \in Files, PollStep(r, f), UNCHANGED ownVars
  PROVE  SendingOK' /\ CarriedOK' /\ \A g \in Files : InOrder(g)'
<1>1. WatcherTypeOK /\ TypeOK /\ StartInv
  BY TypeParts DEF OrderInv, StopsInv, CallsInv
<1>2. /\ SendingOK'
      /\ \A past \in SUBSET Nat, g \in Files :
               /\ Pipeline(past, changes[g], Pending(g), lastMod[g])
               /\ \A q \in Runs \ {r} : poller[q][g] # "send"
               => Pipeline(past, changes'[g], Pending(g)', lastMod'[g])
  BY <1>1, PollKeepsOrder DEF OrderInv
<1>3. CarriedOK'
  BY DEF OrderInv, CarriedOK
<1>4. ASSUME NEW g \in Files PROVE InOrder(g)'
  <2>1. Past(g)' = Past(g) /\ MergedOf(g)' = MergedOf(g) /\ Carried(g)' = Carried(g)
    BY DEF Past, MergedOf, Carried
  <2>2. \A q \in Runs \ {r} : poller[q][g] # "send"
    <3>1. poller[r][f] # "off"
      BY <1>1, PollEffect
    <3> QED  BY <1>1, <3>1 DEF StartInv
  <2>3. Past(g) \in SUBSET Nat /\ InOrder(g)
    BY <1>1, OrderTypes DEF OrderInv
  <2> QED  BY <1>2, <2>1, <2>2, <2>3 DEF InOrder
<1> QED  BY <1>2, <1>3, <1>4

\* The changes of other files are as before.
LEMMA OrderOther ==
  ASSUME OrderInv, NEW f \in Files, UNCHANGED <<lastMod, sending, merged, seen>>,
         \A g \in Files \ {f} : changes'[g] = changes[g],
         \A r \in Runs, g \in Files \ {f} : carried'[r][g] = carried[r][g]
  PROVE  \A g \in Files \ {f} : InOrder(g)'
<1>1. SUFFICES ASSUME NEW g \in Files \ {f} PROVE InOrder(g)'
  OBVIOUS
<1>2. /\ MergedOf(g)' = MergedOf(g) /\ Carried(g)' = Carried(g) /\ Pending(g)' = Pending(g)
      /\ Past(g)' = Past(g)
  BY <1>1 DEF MergedOf, Carried, Pending, Past
<1> QED  BY <1>2 DEF OrderInv, InOrder

\* The goroutine takes a change, younger than all the reader was told about and
\* all it will be told about first.
LEMMA OrderTake ==
  ASSUME OrderInv, NEW r \in Runs, NEW f \in Files, ForwardTake(r, f)
  PROVE  SendingOK' /\ CarriedOK' /\ \A g \in Files : InOrder(g)'
<1> DEFINE new == Head(changes[f])
<1>1. TypeOK /\ WatcherTypeOK /\ StartInv /\ InOrder(f) /\ CarriedOK
  BY TypeParts DEF OrderInv, StopsInv, CallsInv
<1>2. /\ UNCHANGED <<disk, lastMod, sending, poller, merged, seen>> /\ changes[f] # <<>>
      /\ changes'[f] = Tail(changes[f]) /\ carried'[r][f] = new /\ fwd'[r][f] = "send"
      /\ fwd[r][f] = "select"
      /\ \A g \in Files \ {f} : changes'[g] = changes[g]
      /\ \A q \in Runs, g \in Files : <<q, g>> # <<r, f>> =>
            carried'[q][g] = carried[q][g] /\ fwd'[q][g] = fwd[q][g]
  <2>1. /\ fwd \in [Runs -> [Files -> {"off", "select", "send", "done"}]]
        /\ carried \in [Runs -> [Files -> 0..MaxWrites]] /\ changes \in [Files -> Seq(0..MaxWrites)]
    BY <1>1, TypeParts DEF CallsTypeOK, ChangesTypeOK, WatcherTypeOK
  <2> QED  BY <2>1 DEF ForwardTake, Receive
<1>3. SendingOK' /\ CarriedOK'
  BY <1>2 DEF OrderInv, SendingOK, CarriedOK
<1>4. /\ changes[f] \in Seq(Nat) /\ MergedOf(f) \in Seq(Nat) /\ seen[f] \in Nat
      /\ Past(f) \in SUBSET Nat /\ Pending(f) \in SUBSET Nat /\ lastMod[f] \in Nat
  BY <1>1, OrderTypes
<1>5. /\ Pipeline(Past(f) \cup {new}, Tail(changes[f]), Pending(f), lastMod[f])
      /\ new # Deleted => \A n \in Past(f) : n < new
  BY <1>1, <1>2, <1>4, PipelineReceived DEF InOrder
<1>6. new \in 0..MaxWrites /\ Tail(changes[f]) \in Seq(Nat)
  <2>1. new \in 0..MaxWrites
    BY <1>1, <1>2, HeadTailProperties DEF WatcherTypeOK
  <2> QED  BY <1>2, <1>4, <2>1, HeadTailProperties
<1> HIDE DEF new
<1>7. Carried(f) \subseteq {Deleted} /\ Carried(f)' \subseteq {Deleted, new}
  <2>1. \A q \in Runs : carried[q][f] = Deleted
    BY <1>1, <1>2 DEF CarriedOK, StartInv
  <2> QED  BY <1>2, <2>1 DEF Carried
<1>8. MergedOf(f)' = MergedOf(f) /\ Pending(f)' = Pending(f)
  BY <1>2 DEF MergedOf, Pending
<1>9. Pipeline(Past(f)', changes'[f], Pending(f)', lastMod'[f])
  <2>1. Past(f)' \subseteq Past(f) \cup {new} \cup {Deleted}
    BY <1>2, <1>7, <1>8 DEF Past
  <2>2. Past(f) \cup {new} \in SUBSET Nat /\ lastMod[f] <= lastMod[f]
    BY <1>4, <1>6
  <2>3. Pipeline(Past(f)', Tail(changes[f]), Pending(f), lastMod[f])
    BY <1>4, <1>5, <1>6, <2>1, <2>2, PipelineLater
  <2> QED  BY <1>2, <1>8, <2>3
<1>10. Pipeline({seen'[f]}, MergedOf(f)', Carried(f)', MaxWrites)
  <2>1. Pipeline({seen[f]}, MergedOf(f), {Deleted}, MaxWrites)
    BY <1>1, <1>7 DEF InOrder, Pipeline
  <2>2. CASE new = Deleted
    <3>1. {Deleted} \in SUBSET Nat /\ MaxWrites <= MaxWrites /\ {seen[f]} \in SUBSET Nat
      BY <1>4
    <3> DEFINE carriedNow == Carried(f)'
    <3>2. carriedNow \in SUBSET ({Deleted} \cup {Deleted})
      BY <1>7, <2>2
    <3> HIDE DEF carriedNow
    <3>3. {seen[f]} \in SUBSET ({seen[f]} \cup {Deleted}) /\ MaxWrites \in Nat
      OBVIOUS
    <3>4. Pipeline({seen[f]}, MergedOf(f), carriedNow, MaxWrites)
      BY <1>4, <2>1, <3>1, <3>2, <3>3, PipelineLater
    <3> QED  BY <1>2, <1>8, <3>4 DEF carriedNow
  <2>3. CASE new # Deleted
    <3>1. new \in Nat /\ new <= MaxWrites /\ MaxWrites <= MaxWrites /\ {seen[f]} \in SUBSET Nat
      BY <1>4, <1>6
    <3>2. /\ \A n \in {seen[f]} : n < new
          /\ \A i \in 1..Len(MergedOf(f)) : MergedOf(f)[i] < new
      BY <1>1, <1>5, <2>3, OrderTypes DEF Past
    <3>3. Pipeline({seen[f]}, MergedOf(f), {Deleted, new}, MaxWrites)
      BY <1>4, <2>1, <3>1, <3>2, PipelineNoticed
    <3> DEFINE carriedNow == Carried(f)'
    <3>4. {Deleted, new} \in SUBSET Nat /\ carriedNow \in SUBSET ({Deleted, new} \cup {Deleted})
      BY <1>7, <3>1
    <3> HIDE DEF carriedNow
    <3>5. {seen[f]} \in SUBSET ({seen[f]} \cup {Deleted}) /\ MaxWrites \in Nat
      OBVIOUS
    <3>6. Pipeline({seen[f]}, MergedOf(f), carriedNow, MaxWrites)
      BY <1>4, <3>1, <3>3, <3>4, <3>5, PipelineLater
    <3> QED  BY <1>2, <1>8, <3>6 DEF carriedNow
  <2> QED  BY <2>2, <2>3
<1>11. \A g \in Files \ {f} : InOrder(g)'
  BY <1>2, OrderOther
<1> QED  BY <1>3, <1>9, <1>10, <1>11 DEF InOrder

\* The goroutine hands the change it holds on to the reader.
LEMMA OrderSend ==
  ASSUME OrderInv, TypeOK', NEW r \in Runs, NEW f \in Files, ForwardSend(r, f)
  PROVE  SendingOK' /\ CarriedOK' /\ \A g \in Files : InOrder(g)'
<1> DEFINE new == carried[r][f]
<1>1. TypeOK /\ StartInv /\ CarriedOK
  BY DEF OrderInv, StopsInv, CallsInv
<1>2. /\ UNCHANGED <<disk, lastMod, sending, poller, changes, seen>>
      /\ merged' = Append(merged, <<f, new>>) /\ carried'[r][f] = Deleted
      /\ fwd[r][f] = "send" /\ fwd'[r][f] = "select" /\ new \in 0..MaxWrites
      /\ \A q \in Runs, g \in Files : <<q, g>> # <<r, f>> =>
            carried'[q][g] = carried[q][g] /\ fwd'[q][g] = fwd[q][g]
  <2>1. /\ fwd \in [Runs -> [Files -> {"off", "select", "send", "done"}]]
        /\ carried \in [Runs -> [Files -> 0..MaxWrites]]
    BY <1>1, TypeParts DEF CallsTypeOK, ChangesTypeOK
  <2> QED  BY <2>1 DEF ForwardSend, watcherVars
<1>3. SendingOK' /\ CarriedOK'
  BY <1>2 DEF OrderInv, SendingOK, CarriedOK
<1>4. ASSUME NEW g \in Files PROVE InOrder(g)'
  <2> DEFINE place == IF g = f THEN new ELSE Deleted
  <2>1. /\ changes[g] \in Seq(Nat) /\ MergedOf(g) \in Seq(Nat) /\ {seen[g]} \in SUBSET Nat
        /\ Past(g) \in SUBSET Nat /\ Carried(g) \in SUBSET Nat /\ Pending(g) \in SUBSET Nat
        /\ lastMod[g] \in Nat /\ Len(MergedOf(g)) = Len(merged)
        /\ merged \in Queues /\ InOrder(g)
    BY <1>1, OrderTypes DEF OrderInv
  <2>2. MergedOf(g)' = Append(MergedOf(g), place)
    BY <1>2, <2>1, OfAppend DEF MergedOf
  <2>3. place \in Nat /\ place \in Carried(g) \cup {Deleted}
    BY <1>2 DEF Carried
  <2>4. /\ Len(merged') = Len(merged) + 1 /\ Len(merged) \in Nat
        /\ MergedOf(g)'[Len(merged) + 1] = place
        /\ \A i \in 1..Len(merged) : MergedOf(g)'[i] = MergedOf(g)[i]
    <3>1. Len(merged') = Len(merged) + 1 /\ Len(merged) \in Nat
      <4>1. <<f, new>> \in Files \X (0..MaxWrites)
        BY <1>2
      <4> QED  BY <1>2, <2>1, <4>1, AppendProperties, LenProperties
    <3> HIDE DEF place
    <3> QED  BY <2>1, <2>2, <2>3, <3>1, AppendProperties
  <2> HIDE DEF place
  <2>5. Carried(g)' \subseteq Carried(g) \cup {Deleted}
    <3>1. \A q \in Runs : carried'[q][g] = carried[q][g] \/ carried'[q][g] = Deleted
      BY <1>2
    <3> QED  BY <3>1 DEF Carried
  <2>6. Past(g)' \subseteq Past(g) \cup {Deleted}
    <3>1. \A i \in 1..Len(merged') : i \in 1..Len(merged) \/ i = Len(merged) + 1
      BY <2>4
    <3> QED  BY <1>2, <2>3, <2>4, <2>5, <3>1 DEF Past
  <2>7. Pipeline(Past(g)', changes'[g], Pending(g)', lastMod'[g])
    <3>1. Pending(g)' = Pending(g) /\ lastMod[g] <= lastMod[g]
      BY <1>2, <2>1 DEF Pending
    <3>2. Pipeline(Past(g)', changes[g], Pending(g), lastMod[g])
      BY <2>1, <2>6, <3>1, PipelineLater DEF InOrder
    <3> QED  BY <1>2, <3>1, <3>2
  <2>8. Pipeline({seen'[g]}, MergedOf(g)', Carried(g)', MaxWrites)
    <3>1. CASE g = f
      <4>1. Carried(f)' \subseteq {Deleted} \cup {Deleted}
        <5>1. \A q \in Runs : carried'[q][f] = Deleted
          BY <1>1, <1>2 DEF CarriedOK, StartInv
        <5> QED  BY <5>1 DEF Carried
      <4>2. new \in Carried(f) /\ place = new
        BY <3>1 DEF Carried, place
      <4>3. Pipeline({seen[f]}, Append(MergedOf(f), new), {Deleted}, MaxWrites)
        BY <2>1, <3>1, <4>2, PipelineSent DEF InOrder
      <4>4. /\ Append(MergedOf(f), new) \in Seq(Nat) /\ MaxWrites <= MaxWrites
            /\ {Deleted} \in SUBSET Nat
        BY <2>1, <2>3, <3>1, <4>2
      <4>5. Pipeline({seen[f]}, Append(MergedOf(f), new), Carried(f)', MaxWrites)
        BY <2>1, <3>1, <4>1, <4>3, <4>4, PipelineLater
      <4> QED  BY <1>2, <2>2, <3>1, <4>2, <4>5
    <3>2. CASE g # f
      <4>1. Carried(g)' = Carried(g) /\ place = Deleted
        BY <1>2, <3>2 DEF Carried, place
      <4>2. Pipeline({seen[g]}, Append(MergedOf(g), Deleted), Carried(g), MaxWrites)
        BY <2>1, PipelineSkips DEF InOrder
      <4> QED  BY <1>2, <2>2, <4>1, <4>2
    <3> QED  BY <3>1, <3>2
  <2> QED  BY <2>7, <2>8 DEF InOrder
<1> QED  BY <1>3, <1>4

\* A goroutine that ends loses the change it holds.
LEMMA OrderEnds ==
  ASSUME OrderInv, NEW r \in Runs, NEW f \in Files, ForwardEnds(r, f)
  PROVE  SendingOK' /\ CarriedOK' /\ \A g \in Files : InOrder(g)'
<1>1. /\ UNCHANGED <<disk, lastMod, sending, poller, changes, seen, merged>>
      /\ carried'[r][f] = Deleted
      /\ \A q \in Runs, g \in Files : <<q, g>> # <<r, f>> =>
            carried'[q][g] = carried[q][g] /\ fwd'[q][g] = fwd[q][g]
  <2>1. /\ fwd \in [Runs -> [Files -> {"off", "select", "send", "done"}]]
        /\ carried \in [Runs -> [Files -> 0..MaxWrites]]
    BY TypeParts DEF CallsTypeOK, ChangesTypeOK, OrderInv, StopsInv
  <2> QED  BY <2>1 DEF ForwardEnds, watcherVars
<1>2. SendingOK' /\ CarriedOK'
  BY <1>1 DEF OrderInv, SendingOK, CarriedOK
<1>3. ASSUME NEW g \in Files PROVE InOrder(g)'
  <2>1. /\ changes[g] \in Seq(Nat) /\ MergedOf(g) \in Seq(Nat) /\ {seen[g]} \in SUBSET Nat
        /\ Past(g) \in SUBSET Nat /\ Carried(g) \in SUBSET Nat /\ Pending(g) \in SUBSET Nat
        /\ lastMod[g] \in Nat /\ InOrder(g)
        /\ lastMod[g] <= lastMod[g] /\ MaxWrites <= MaxWrites
    BY OrderTypes DEF OrderInv, StopsInv
  <2>2. Carried(g)' \subseteq Carried(g) \cup {Deleted}
    <3>1. \A q \in Runs : carried'[q][g] = carried[q][g] \/ carried'[q][g] = Deleted
      BY <1>1
    <3> QED  BY <3>1 DEF Carried
  <2>3. MergedOf(g)' = MergedOf(g) /\ Pending(g)' = Pending(g)
    BY <1>1 DEF MergedOf, Pending
  <2>4. Past(g)' \subseteq Past(g) \cup {Deleted}
    BY <1>1, <2>2, <2>3 DEF Past
  <2>5. Pipeline(Past(g)', changes[g], Pending(g), lastMod[g])
    BY <2>1, <2>4, PipelineLater DEF InOrder
  <2>6. Pipeline({seen[g]}, MergedOf(g), Carried(g)', MaxWrites)
    BY <2>1, <2>2, PipelineLater DEF InOrder
  <2> QED  BY <1>1, <2>3, <2>5, <2>6 DEF InOrder
<1> QED  BY <1>2, <1>3

\* The reader takes a change.
LEMMA OrderRead ==
  ASSUME OrderInv, Read
  PROVE  SendingOK' /\ CarriedOK' /\ \A g \in Files : InOrder(g)'
<1>1. /\ UNCHANGED <<disk, lastMod, sending, poller, changes, carried, fwd>>
      /\ merged # <<>> /\ merged' = Tail(merged)
  BY DEF Read, watcherVars
<1>2. SendingOK' /\ CarriedOK'
  BY <1>1 DEF OrderInv, SendingOK, CarriedOK
<1>3. ASSUME NEW g \in Files PROVE InOrder(g)'
  <2> DEFINE new == Head(MergedOf(g))
  <2>1. /\ changes[g] \in Seq(Nat) /\ MergedOf(g) \in Seq(Nat) /\ {seen[g]} \in SUBSET Nat
        /\ Past(g) \in SUBSET Nat /\ Carried(g) \in SUBSET Nat /\ Pending(g) \in SUBSET Nat
        /\ lastMod[g] \in Nat /\ Len(MergedOf(g)) = Len(merged) /\ seen[g] \in Nat
        /\ merged \in Queues /\ InOrder(g)
        /\ lastMod[g] <= lastMod[g] /\ MaxWrites <= MaxWrites
    BY OrderTypes DEF OrderInv, StopsInv
  <2>2. /\ MergedOf(g)' = Tail(MergedOf(g)) /\ MergedOf(g) # <<>>
        /\ new = IF Head(merged)[1] = g THEN Head(merged)[2] ELSE Deleted
    BY <1>1, <2>1, OfTail DEF MergedOf
  <2>3. seen'[g] = IF new = Deleted THEN seen[g] ELSE new
    <3>1. seen \in [Files -> 0..MaxWrites]
      BY TypeParts DEF ChangesTypeOK, OrderInv, StopsInv
    <3>2. Head(merged)[1] \in Files
      BY <1>1, <2>1, HeadTailProperties DEF Queues
    <3> QED  BY <2>2, <3>1, <3>2 DEF Read
  <2>4. /\ new = MergedOf(g)[1] /\ new \in Nat /\ Tail(MergedOf(g)) \in Seq(Nat)
        /\ Len(merged') = Len(merged) - 1 /\ Len(merged) \in Nat \ {0}
        /\ \A i \in 1..Len(merged') : MergedOf(g)'[i] = MergedOf(g)[i + 1]
    <3>1. /\ new = MergedOf(g)[1] /\ new \in Nat /\ Tail(MergedOf(g)) \in Seq(Nat)
          /\ Len(Tail(MergedOf(g))) = Len(merged) - 1
          /\ \A i \in 1..Len(Tail(MergedOf(g))) : Tail(MergedOf(g))[i] = MergedOf(g)[i + 1]
      BY <2>1, <2>2, HeadTailProperties
    <3>2. Len(merged') = Len(merged) - 1 /\ Len(merged) \in Nat \ {0}
      BY <1>1, <2>1, HeadTailProperties, EmptySeq DEF Queues
    <3> QED  BY <2>2, <3>1, <3>2
  <2> HIDE DEF new
  <2>5. Carried(g)' = Carried(g) /\ Pending(g)' = Pending(g)
    BY <1>1 DEF Carried, Pending
  <2>6. Past(g)' \subseteq Past(g) \cup {Deleted}
    <3>1. 1 \in 1..Len(merged) /\ \A i \in 1..Len(merged') : i + 1 \in 1..Len(merged)
      BY <2>4
    <3> QED  BY <2>3, <2>4, <2>5, <3>1 DEF Past
  <2>7. Pipeline(Past(g)', changes[g], Pending(g), lastMod[g])
    BY <2>1, <2>6, PipelineLater DEF InOrder
  <2>8. Pipeline({seen'[g]}, MergedOf(g)', Carried(g)', MaxWrites)
    <3>1. Pipeline({seen[g]} \cup {new}, Tail(MergedOf(g)), Carried(g), MaxWrites)
      BY <2>1, <2>2, PipelineReceived DEF InOrder, new
    <3> DEFINE told == {seen[g]} \cup {new}
    <3>2. told \in SUBSET Nat /\ {seen'[g]} \in SUBSET (told \cup {Deleted})
      BY <2>1, <2>3, <2>4
    <3> HIDE DEF told
    <3>3. Pipeline({seen'[g]}, Tail(MergedOf(g)), Carried(g), MaxWrites)
      <4>1. Pipeline(told, Tail(MergedOf(g)), Carried(g), MaxWrites)
        BY <3>1 DEF told
      <4> QED  BY <2>1, <2>4, <3>2, <4>1, PipelineLater
    <3> QED  BY <2>2, <2>5, <3>3
  <2> QED  BY <1>1, <2>5, <2>7, <2>8 DEF InOrder
<1> QED  BY <1>2, <1>3

LEMMA OrderNext == OrderInv /\ [Next]_vars => OrderInv'
<1> SUFFICES ASSUME OrderInv, [Next]_vars PROVE OrderInv'
  OBVIOUS
<1>1. StopsInv' /\ TypeOK' /\ TypeOK /\ WatcherTypeOK /\ StartInv
  BY StopsNext, TypeParts DEF OrderInv, StopsInv, CallsInv
<1>2. \A f \in Files : lastMod[f] <= disk[f].n /\ lastMod[f] \in Nat /\ disk[f].n \in Nat
  BY <1>1, OrderTypes DEF OrderInv, SendingOK
<1>3. \A f \in Files : lastMod[f] <= lastMod[f]
  BY <1>2
\* The steps that move no change.
<1>4. ASSUME UNCHANGED <<disk, lastMod, poller, changes, sending, merged, carried, seen, fwd>>
      PROVE  SendingOK' /\ CarriedOK' /\ \A f \in Files : InOrder(f)'
  BY <1>1, <1>2, <1>3, <1>4, OrderSame
<1>5. CASE UNCHANGED vars
  BY <1>1, <1>4, <1>5 DEF OrderInv, vars, watcherVars
<1>6. CASE WatcherStep
  <2>1. UNCHANGED ownVars
    BY <1>6 DEF WatcherStep
  <2>2. ASSUME NEW f \in Files, Write(f) \/ Vanish(f) \/ ComeBack(f)
        PROVE  SendingOK' /\ CarriedOK' /\ \A g \in Files : InOrder(g)'
    <3>1. disk \in [Files -> [n : 0..MaxWrites, here : BOOLEAN]]
      BY <1>1 DEF WatcherTypeOK
    <3>2. \A g \in Files : disk'[g].n = disk[g].n \/ disk'[g].n = disk[g].n + 1
      BY <2>2, <3>1 DEF Write, Vanish, ComeBack
    <3>3. UNCHANGED <<lastMod, poller, changes, sending>>
      BY <2>2 DEF Write, Vanish, ComeBack
    <3> QED  BY <1>1, <1>2, <2>1, <3>2, <3>3, OrderSame
  <2>3. ASSUME NEW r \in Runs, Cancel(r)
        PROVE  SendingOK' /\ CarriedOK' /\ \A g \in Files : InOrder(g)'
    BY <1>4, <2>1, <2>3 DEF Cancel
  <2> QED  BY <1>1, <1>6, <2>1, <2>2, <2>3, OrderPoll DEF WatcherStep, OrderInv
<1>7. ASSUME NEW r \in Runs, StartSwap(r) \/ StartStep(r) PROVE OrderInv'
  <2>1. CASE \E f \in Files : StartFile(r, f)
    <3>1. PICK f \in Files : StartFile(r, f)
      BY <2>1
    <3>2. /\ UNCHANGED <<disk, changes, sending, merged, carried, seen>>
          /\ poller[r][f] = "off" /\ fwd[r][f] = "off"
          /\ poller' = [poller EXCEPT ![r][f] = IF running[f] THEN poller[r][f] ELSE "select"]
          /\ fwd' = [fwd EXCEPT ![r][f] = "select"]
          /\ lastMod' = [lastMod EXCEPT ![f] =
                            IF ~running[f] /\ disk[f].here THEN disk[f].n ELSE lastMod[f]]
          /\ lastMod \in [Files -> 0..MaxWrites]
          /\ poller \in [Runs -> [Files -> {"off", "select", "send", "exiting", "done"}]]
          /\ fwd \in [Runs -> [Files -> {"off", "select", "send", "done"}]]
      BY <1>1, <3>1, TypeParts
         DEF StartFile, StartWatcher, StartInv, WatcherTypeOK, CallsTypeOK
    <3>3. \A g \in Files : lastMod'[g] = lastMod[g] \/ lastMod'[g] = disk[g].n
      BY <3>2
    <3>4. \A q \in Runs, g \in Files :
              /\ poller[q][g] = "send" => poller'[q][g] = "send"
              /\ fwd[q][g] = "send" => fwd'[q][g] = "send"
      BY <3>2
    <3>5. \A g \in Files : lastMod[g] <= lastMod'[g] /\ lastMod'[g] <= disk[g].n
      BY <1>2, <3>3
    <3> QED  BY <1>1, <3>2, <3>4, <3>5, OrderSame DEF OrderInv
  <2>2. CASE ~\E f \in Files : StartFile(r, f)
    BY <1>1, <1>4, <1>7, <2>2
       DEF StartSwap, StartStep, StartContext, StartReturn, watcherVars, OrderInv
  <2> QED  BY <2>1, <2>2
<1>8. ASSUME NEW r \in Runs, NEW f \in Files, ForwardStep(r, f) PROVE OrderInv'
  BY <1>1, <1>4, <1>8, OrderTake, OrderSend, OrderEnds
     DEF ForwardStep, ForwardPanics, Panic, OrderInv
<1>9. ASSUME NEW s \in Stops, StopSwap(s) \/ StopStep(s) PROVE OrderInv'
  BY <1>1, <1>4, <1>9
     DEF StopSwap, StopStep, StopCancel, StopFile, StopWatcher, Panic, StopFileDone, StopWaited,
         StopReturn, watcherVars, OrderInv
<1>10. CASE Read
  BY <1>1, <1>10, OrderRead DEF OrderInv
<1> QED  BY <1>1, <1>5, <1>6, <1>7, <1>8, <1>9, <1>10 DEF Next, OrderInv

\* For any number of watchers and writes and any room in the channels: the
\* reader is told of the writes of a file in order and of none twice, through
\* both channels and the goroutine between them (watch.go:274-283, 375-394).
THEOREM ReaderInOrder == Spec => []InOrderOnce
<1>1. OrderInv => InOrderOnce
  <2>1. SUFFICES ASSUME OrderInv, NEW f \in Files
                 PROVE  /\ \A r \in Runs : carried[r][f] # Deleted => carried[r][f] > seen[f]
                        /\ \A i \in 1..Len(merged) :
                              merged[i][1] = f /\ merged[i][2] # Deleted => merged[i][2] > seen[f]
                        /\ \A i \in 1..Len(changes[f]) :
                              changes[f][i] # Deleted => changes[f][i] > seen[f]
    BY DEF InOrderOnce
  <2>2. InOrder(f) /\ seen[f] \in Nat /\ merged \in Queues
        /\ changes[f] \in Seq(Nat) /\ Carried(f) \in SUBSET (0..MaxWrites)
    BY <2>1, OrderTypes DEF OrderInv, StopsInv
  <2>3. ASSUME NEW r \in Runs, carried[r][f] # Deleted PROVE carried[r][f] > seen[f]
    <3>1. carried[r][f] \in Carried(f)
      BY DEF Carried
    <3> QED  BY <2>2, <2>3, <3>1 DEF InOrder, Pipeline
  <2>4. ASSUME NEW i \in 1..Len(merged), merged[i][1] = f, merged[i][2] # Deleted
        PROVE  merged[i][2] > seen[f]
    <3>1. MergedOf(f)[i] = merged[i][2] /\ i \in 1..Len(MergedOf(f)) /\ merged[i][2] \in 0..MaxWrites
      BY <2>2, <2>4, OfType DEF MergedOf
    <3> QED  BY <2>2, <2>4, <3>1 DEF InOrder, Pipeline
  <2>5. ASSUME NEW i \in 1..Len(changes[f]), changes[f][i] # Deleted
        PROVE  changes[f][i] > seen[f]
    <3>1. seen[f] \in Past(f) /\ changes[f][i] \in Nat
      BY <2>2 DEF Past
    <3> QED  BY <2>2, <2>5, <3>1 DEF InOrder, Pipeline
  <2> QED  BY <2>3, <2>4, <2>5
<1> QED  BY <1>1, OrderInit, OrderNext, PTL DEF Spec

=============================================================================
