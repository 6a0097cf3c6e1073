-------------------------- MODULE HotReload_proofs --------------------------
(***************************************************************************)
(* Proofs about HotReload, for any number of files and calls of Watch.     *)
(***************************************************************************)
EXTENDS HotReload, TLAPS

USE DEF fileVars, watchVars, pollVars, stopVars, obsVars, history

-----------------------------------------------------------------------------
(* Type correctness.                                                       *)

\* Indices of the sources.
LEMMA Indices ==
  /\ Files \subseteq 1..NumFiles + 1 /\ NumFiles + 1 \in 1..NumFiles + 1
  /\ 1 \in 1..NumFiles + 1 /\ 0 \in 0..MaxWrites
  /\ \A f \in Files : 1 \in Files /\ f + 1 \in 1..NumFiles + 1
                      /\ (f # NumFiles => f + 1 \in Files)
  BY HotReloadAssumption DEF Files

LEMMA TypeInit == Init => TypeOK
<1> SUFFICES ASSUME Init PROVE TypeOK
  OBVIOUS
<1>1. /\ disk \in [Files -> [n : 0..MaxWrites, st : {"ok", "broken", "gone"}]]
      /\ conf \in [Files -> 0..MaxWrites] /\ seen \in [Files -> 0..MaxWrites]
      /\ modTime \in [Files -> 0..MaxWrites]
  BY Indices DEF Init
<1>2. got \in [Files -> [Files -> 0..MaxWrites]]
  BY <1>1 DEF Init
<1>3. /\ watched \in [Files -> BOOLEAN] /\ assigned \in [Files -> BOOLEAN]
      /\ wmu \in [Files -> BOOLEAN] /\ stop \in [Files -> BOOLEAN]
  BY DEF Init
<1>4. /\ poller \in [Files -> {"off"}] /\ call \in [Watches -> {"idle"}]
      /\ owner \in [Files -> Watches \cup {None}]
  BY DEF Init
<1>5. /\ next \in [Files -> 1..NumFiles + 1] /\ at \in [Watches -> 1..NumFiles + 1]
      /\ closeAt \in 1..NumFiles + 1
  BY Indices DEF Init
<1>6. /\ mu \in Watches \cup {None} /\ cancelled \subseteq Watches
      /\ closing = "no" /\ engClosed \in BOOLEAN /\ handlers \in Nat
      /\ missed \subseteq Files /\ late \subseteq Watches
      /\ failed \in BOOLEAN /\ crossed \in BOOLEAN
  BY DEF Init
<1>7. /\ \A f \in Files : poller[f] # "loading"
      /\ \A w \in Watches : call[w] # "start"
  BY <1>4
<1> QED  BY <1>1, <1>2, <1>3, <1>4, <1>5, <1>6, <1>7 DEF TypeOK

LEMMA TypeFiles ==
  ASSUME TypeOK, NEW f \in Files, Write(f) \/ Vanish(f) \/ ComeBack(f)
  PROVE  TypeOK'
<1>1. disk[f] \in [n : 0..MaxWrites, st : {"ok", "broken", "gone"}]
  BY DEF TypeOK
<1>2. \E d \in [n : 0..MaxWrites, st : {"ok", "broken", "gone"}] : disk' = [disk EXCEPT ![f] = d]
  <2>1. CASE Write(f)
    <3>1. disk[f].n + 1 \in 0..MaxWrites
      BY <1>1, <2>1, HotReloadAssumption DEF Write
    <3> QED  BY <2>1, <3>1 DEF Write
  <2>2. CASE Vanish(f)
    BY <1>1, <2>2 DEF Vanish
  <2>3. CASE ComeBack(f)
    BY <1>1, <2>3 DEF ComeBack
  <2> QED  BY <2>1, <2>2, <2>3
<1>3. disk' \in [Files -> [n : 0..MaxWrites, st : {"ok", "broken", "gone"}]]
  BY <1>2 DEF TypeOK
<1>4. UNCHANGED <<conf, watchVars, pollVars, stopVars, cancelled, obsVars, history>>
  BY DEF Write, Vanish, ComeBack
<1> QED  BY <1>3, <1>4 DEF TypeOK

LEMMA TypeWatch ==
  ASSUME TypeOK, NEW w \in Watches, WatchBegin(w) \/ WatchStep(w) \/ Cancel(w)
  PROVE  TypeOK'
<1>1. CASE WatchBegin(w)
  BY <1>1 DEF TypeOK, WatchBegin
<1>2. CASE WatchFails(w)
  BY <1>2 DEF TypeOK, WatchFails
<1>3. CASE WatchReturn(w)
  BY <1>3 DEF TypeOK, WatchReturn
<1>4. CASE Cancel(w)
  BY <1>4 DEF TypeOK, Cancel
<1>5. CASE WatchFile(w)
  <2>1. at[w] \in Files /\ at[w] + 1 \in 1..NumFiles + 1
    BY <1>5, Indices DEF WatchFile
  <2>2. /\ watched' \in [Files -> BOOLEAN] /\ assigned' \in [Files -> BOOLEAN]
        /\ at' \in [Watches -> 1..NumFiles + 1]
        /\ call' \in [Watches -> {"idle", "files", "start", "nil", "err"}]
    BY <1>5, <2>1 DEF TypeOK, WatchFile
  <2>3. \A v \in Watches : call'[v] = "start" => at'[v] \in Files
    BY <1>5, <2>1 DEF TypeOK, WatchFile
  <2> QED  BY <1>5, <2>2, <2>3 DEF TypeOK, WatchFile
<1>6. CASE WatchStart(w)
  <2>1. at[w] \in Files /\ at[w] + 1 \in 1..NumFiles + 1 /\ disk[at[w]].n \in 0..MaxWrites
    BY <1>6, Indices DEF TypeOK, WatchStart
  <2>2. /\ modTime' \in [Files -> 0..MaxWrites] /\ missed' \subseteq Files
        /\ at' \in [Watches -> 1..NumFiles + 1]
        /\ call' \in [Watches -> {"idle", "files", "start", "nil", "err"}]
        /\ owner' \in [Files -> Watches \cup {None}]
    BY <1>6, <2>1 DEF TypeOK, WatchStart
  <2>3. \A v \in Watches : call'[v] = "start" => at'[v] \in Files
    BY <1>6, <2>1 DEF TypeOK, WatchStart
  <2>4. /\ poller' \in [Files -> {"off", "select", "changed", "loading", "publish", "notify",
                                  "stopped"}]
        /\ \A f \in Files : poller'[f] = "loading" => next'[f] \in Files
    BY <1>6, <2>1 DEF TypeOK, WatchStart
  <2> QED  BY <1>6, <2>2, <2>3, <2>4 DEF TypeOK, WatchStart
<1> QED  BY <1>1, <1>2, <1>3, <1>4, <1>5, <1>6 DEF WatchStep

\* What does not change at a step of a poller keeps its type.
LEMMA TypePolled ==
  ASSUME TypeOK, NEW f \in Files, NEW from,
         NEW to \in {"select", "changed", "loading", "publish", "notify", "stopped"},
         Poll(f, from, to), to = "loading" => next'[f] \in Files,
         next' \in [Files -> 1..NumFiles + 1],
         \A g \in Files \ {f} : next'[g] = next[g],
         conf' \in [Files -> 0..MaxWrites], modTime' \in [Files -> 0..MaxWrites],
         got' \in [Files -> [Files -> 0..MaxWrites]],
         handlers' \in Nat, seen' = seen, missed' = missed,
         failed' \in BOOLEAN, crossed' \in BOOLEAN
  PROVE  TypeOK'
<1>1. /\ poller' \in [Files -> {"off", "select", "changed", "loading", "publish", "notify",
                                "stopped"}]
      /\ \A g \in Files : poller'[g] = "loading" => next'[g] \in Files
  BY DEF TypeOK, Poll
<1>2. UNCHANGED <<watched, assigned, owner, call, at, mu, stopVars, cancelled, disk, late>>
  BY DEF Poll
<1> QED  BY <1>1, <1>2 DEF TypeOK

LEMMA TypePoll ==
  ASSUME TypeOK, NEW f \in Files, PollStep(f) PROVE TypeOK'
<1>1. /\ next \in [Files -> 1..NumFiles + 1] /\ conf \in [Files -> 0..MaxWrites]
      /\ modTime \in [Files -> 0..MaxWrites] /\ got \in [Files -> [Files -> 0..MaxWrites]]
      /\ handlers \in Nat /\ failed \in BOOLEAN /\ crossed \in BOOLEAN
      /\ \A g \in Files : disk[g].n \in 0..MaxWrites
  BY DEF TypeOK
<1>2. CASE Notice(f)
  BY <1>1, <1>2, TypePolled DEF Notice
<1>3. CASE PollEnd(f)
  BY <1>1, <1>3, TypePolled DEF PollEnd
<1>4. CASE Tell(f)
  BY <1>1, <1>4, TypePolled DEF Tell
<1>5. CASE ReloadBegin(f)
  <2>1. next'[f] \in Files /\ next' \in [Files -> 1..NumFiles + 1]
        /\ \A g \in Files \ {f} : next'[g] = next[g]
    BY <1>1, <1>5, Indices DEF ReloadBegin
  <2>2. crossed' \in BOOLEAN
    BY <1>1, <1>5 DEF ReloadBegin
  <2> QED  BY <1>1, <1>5, <2>1, <2>2, TypePolled DEF ReloadBegin
<1>6. CASE LoadFile(f)
  <2> DEFINE g == next[f]
             to == IF g = NumFiles THEN "publish" ELSE "loading"
  <2>1. poller[f] = "loading" /\ Poll(f, "loading", to)
    BY <1>6 DEF LoadFile, Poll
  <2>2. g \in Files
    BY <2>1 DEF TypeOK
  <2>3. g + 1 \in 1..NumFiles + 1 /\ (to = "loading" => g + 1 \in Files)
    BY <2>2, Indices
  <2>4. next' = [next EXCEPT ![f] = g + 1] /\ got' = [got EXCEPT ![f][g] = disk[g].n]
    BY <1>6 DEF LoadFile
  <2>5. next'[f] = g + 1 /\ next' \in [Files -> 1..NumFiles + 1]
        /\ \A h \in Files \ {f} : next'[h] = next[h]
    BY <1>1, <2>3, <2>4
  <2>6. got' \in [Files -> [Files -> 0..MaxWrites]]
    BY <1>1, <2>2, <2>4
  <2> QED  BY <1>1, <1>6, <2>1, <2>3, <2>5, <2>6, TypePolled DEF LoadFile
<1>7. CASE Publish(f)
  <2>1. conf' \in [Files -> 0..MaxWrites]
    BY <1>1, <1>7 DEF Publish
  <2> QED  BY <1>1, <1>7, <2>1, TypePolled DEF Publish
<1>8. CASE ReloadFails(f)
  BY <1>1, <1>8, TypePolled DEF ReloadFails
<1> QED  BY <1>2, <1>3, <1>4, <1>5, <1>6, <1>7, <1>8 DEF PollStep

LEMMA TypeClose ==
  ASSUME TypeOK, Handle \/ CloseSwap \/ CloseStep PROVE TypeOK'
<1>1. CASE Handle
  <2>1. handlers' \in Nat
    BY <1>1 DEF TypeOK, Handle
  <2> QED  BY <1>1, <2>1 DEF TypeOK, Handle
<1>2. CASE CloseSwap
  <2>1. late' \subseteq Watches
    BY <1>2 DEF CloseSwap
  <2> QED  BY <1>2, <2>1 DEF TypeOK, CloseSwap
<1>3. CASE CloseSources
  BY <1>3 DEF TypeOK, CloseSources
<1>4. CASE CloseEngine
  BY <1>4 DEF TypeOK, CloseEngine
<1>5. CASE CloseSkip
  <2>1. closeAt' \in 1..NumFiles + 1 /\ closing' # "stopping"
    BY <1>5, Indices DEF CloseSkip
  <2> QED  BY <1>5, <2>1 DEF TypeOK, CloseSkip
<1>6. CASE CloseStop
  <2>1. wmu' \in [Files -> BOOLEAN] /\ stop' \in [Files -> BOOLEAN]
    BY <1>6 DEF TypeOK, CloseStop
  <2> QED  BY <1>6, <2>1 DEF TypeOK, CloseStop
<1>7. CASE CloseStopped
  <2>1. wmu' \in [Files -> BOOLEAN] /\ closeAt' \in 1..NumFiles + 1
    BY <1>7, Indices DEF TypeOK, CloseStopped
  <2> QED  BY <1>7, <2>1 DEF TypeOK, CloseStopped
<1> QED  BY <1>1, <1>2, <1>3, <1>4, <1>5, <1>6, <1>7 DEF CloseStep

LEMMA TypeNext == TypeOK /\ [Next]_vars => TypeOK'
<1>1. ASSUME TypeOK, UNCHANGED vars PROVE TypeOK'
  BY <1>1 DEF vars, TypeOK
<1> QED  BY <1>1, TypeFiles, TypeWatch, TypePoll, TypeClose DEF Next

\* Every variable keeps its type; no loop over the sources runs past the last.
THEOREM TypeCorrect == Spec => []TypeOK
  BY TypeInit, TypeNext, PTL DEF Spec

-----------------------------------------------------------------------------
(* What has been noticed is loaded.  A reload that is alone has read, of    *)
(* every file it is past, a content no older than the configuration's and,  *)
(* unless the file has been noticed to have changed again, no older than    *)
(* what its poller has noticed.                                             *)

Read(g, f) == poller[g] = "publish" \/ (poller[g] = "loading" /\ f < next[g])

\* Config.mu is the caller's, and FileSource.watched lets a poller be started
\* only once.
WatchInv ==
    /\ \A w \in Watches : call[w] \in {"files", "start"} => mu = w
    /\ \A w \in Watches : call[w] = "start" => poller[at[w]] = "off" /\ watched[at[w]]
    /\ \A f \in Files : ~watched[f] => poller[f] = "off"

DiskIsNewest ==
    /\ \A f \in Files : conf[f] <= disk[f].n /\ modTime[f] <= disk[f].n
    /\ \A f \in Files : poller[f] = "off" => modTime[f] = 0
    /\ \A f, g \in Files : Read(g, f) => got[g][f] <= disk[f].n

NoticedInv ==
    (~failed /\ ~crossed) =>
        /\ \A f, g \in Files : Reloading(f) /\ Reloading(g) => f = g
        /\ \A f \in Files \ missed :
              poller[f] \in {"off", "select", "notify", "stopped"} => conf[f] >= modTime[f]
        /\ \A f, g \in Files : Read(g, f) => got[g][f] >= conf[f]
        /\ \A f \in Files \ missed, g \in Files :
              Read(g, f) /\ poller[f] # "changed" => got[g][f] >= modTime[f]

LoadedInv == TypeOK /\ WatchInv /\ DiskIsNewest /\ NoticedInv

LEMMA LoadedInit == Init => LoadedInv
<1> SUFFICES ASSUME Init PROVE LoadedInv
  OBVIOUS
<1>1. /\ TypeOK /\ \A f \in Files : poller[f] = "off" /\ conf[f] = 0 /\ modTime[f] = 0
      /\ \A f \in Files : disk[f].n = 0
      /\ \A w \in Watches : call[w] = "idle"
  BY TypeInit DEF Init
<1> QED  BY <1>1 DEF LoadedInv, WatchInv, DiskIsNewest, NoticedInv, Read, Reloading

LEMMA Numbers ==
  ASSUME TypeOK
  PROVE  \A f \in Files : /\ conf[f] \in Nat /\ modTime[f] \in Nat /\ disk[f].n \in Nat
                          /\ next[f] \in Nat /\ f \in Nat
                          /\ \A g \in Files : got[g][f] \in Nat
<1>1. 0..MaxWrites \subseteq Nat /\ 1..NumFiles + 1 \subseteq Nat /\ Files \subseteq Nat
  BY HotReloadAssumption DEF Files
<1>2. \A f \in Files : /\ conf[f] \in 0..MaxWrites /\ modTime[f] \in 0..MaxWrites
                        /\ disk[f].n \in 0..MaxWrites /\ next[f] \in 1..NumFiles + 1
                        /\ \A g \in Files : got[g][f] \in 0..MaxWrites
  BY DEF TypeOK
<1> QED  BY <1>1, <1>2

LEMMA LoadedFiles ==
  ASSUME LoadedInv, TypeOK', NEW f \in Files, Write(f) \/ Vanish(f) \/ ComeBack(f)
  PROVE  LoadedInv'
<1>1. TypeOK
  BY DEF LoadedInv
<1>2. \A g \in Files : disk[g].n <= disk'[g].n
  <2>1. CASE Write(f)
    <3>1. disk'[f].n = disk[f].n + 1 /\ \A g \in Files \ {f} : disk'[g] = disk[g]
      BY <1>1, <2>1 DEF Write, TypeOK
    <3> QED  BY <1>1, <3>1, Numbers
  <2>2. CASE Vanish(f) \/ ComeBack(f)
    <3>1. \A g \in Files : disk'[g].n = disk[g].n
      BY <1>1, <2>2 DEF Vanish, ComeBack, TypeOK
    <3> QED  BY <1>1, <3>1, Numbers
  <2> QED  BY <2>1, <2>2
<1>3. \A g \in Files : disk[g].n \in Nat /\ disk'[g].n \in Nat
  BY <1>1, HotReloadAssumption DEF TypeOK
<1>4. UNCHANGED <<conf, watchVars, pollVars, stopVars, cancelled, obsVars, history>>
  BY DEF Write, Vanish, ComeBack
<1>5. DiskIsNewest'
  BY <1>1, <1>2, <1>3, <1>4, Numbers DEF LoadedInv, DiskIsNewest, Read
<1> QED  BY <1>4, <1>5 DEF LoadedInv, WatchInv, NoticedInv, Read, Reloading

LEMMA LoadedWatch ==
  ASSUME LoadedInv, TypeOK', NEW w \in Watches, WatchBegin(w) \/ WatchStep(w) \/ Cancel(w)
  PROVE  LoadedInv'
<1>1. TypeOK
  BY DEF LoadedInv
<1>2. CASE WatchBegin(w) \/ WatchFails(w) \/ WatchReturn(w) \/ Cancel(w)
  <2>1. /\ UNCHANGED <<fileVars, pollVars, modTime, watched, at, missed, failed, crossed>>
        /\ \A v \in Watches : call'[v] = "start" => call[v] = "start"
    BY <1>1, <1>2 DEF WatchBegin, WatchFails, WatchReturn, Cancel, TypeOK
  <2>2. \A v \in Watches : call'[v] \in {"files", "start"} => mu' = v
    <3>1. CASE WatchBegin(w)
      BY <1>1, <3>1, HotReloadAssumption DEF WatchBegin, TypeOK, LoadedInv, WatchInv
    <3>2. CASE WatchFails(w) \/ WatchReturn(w)
      <4>1. call[w] \in {"files", "start"} /\ call'[w] \notin {"files", "start"}
            /\ \A v \in Watches \ {w} : call'[v] = call[v]
        BY <1>1, <3>2 DEF WatchFails, WatchReturn, TypeOK
      <4> QED  BY <4>1 DEF LoadedInv, WatchInv
    <3>3. CASE Cancel(w)
      BY <3>3 DEF Cancel, LoadedInv, WatchInv
    <3> QED  BY <1>2, <3>1, <3>2, <3>3
  <2>3. WatchInv'
    BY <2>1, <2>2 DEF LoadedInv, WatchInv
  <2> QED  BY <2>1, <2>3 DEF LoadedInv, DiskIsNewest, NoticedInv, Read, Reloading
<1>3. CASE WatchFile(w)
  <2> DEFINE f == at[w]
  <2>1. /\ UNCHANGED <<fileVars, pollVars, modTime, mu, missed, failed, crossed>>
        /\ call[w] = "files" /\ f \in Files
        /\ watched' = [watched EXCEPT ![f] = TRUE]
        /\ IF watched[f] THEN at' = [at EXCEPT ![w] = f + 1] /\ call' = call
                         ELSE call' = [call EXCEPT ![w] = "start"] /\ at' = at
    BY <1>3 DEF WatchFile
  <2>2. \A v \in Watches : call'[v] \in {"files", "start"} => call[v] \in {"files", "start"}
    BY <1>1, <2>1 DEF TypeOK
  <2>3. \A v \in Watches : call'[v] = "start" =>
            at'[v] = at[v] /\ (call[v] = "start" \/ (v = w /\ ~watched[f]))
    BY <1>1, <2>1 DEF TypeOK
  <2>4. WatchInv'
    BY <1>1, <2>1, <2>2, <2>3 DEF LoadedInv, WatchInv, TypeOK
  <2> QED  BY <2>1, <2>4 DEF LoadedInv, DiskIsNewest, NoticedInv, Read, Reloading
<1>4. CASE WatchStart(w)
  <2> DEFINE f == at[w]
  <2>1. /\ UNCHANGED <<fileVars, got, next, mu, watched, failed, crossed>>
        /\ call[w] = "start" /\ f \in Files
        /\ modTime' = [modTime EXCEPT ![f] = disk[f].n]
        /\ poller' = [poller EXCEPT ![f] = "select"]
        /\ missed' = IF conf[f] < disk[f].n THEN missed \cup {f} ELSE missed
        /\ at' = [at EXCEPT ![w] = f + 1]
        /\ call' = [call EXCEPT ![w] = "files"]
    BY <1>1, <1>4 DEF WatchStart, TypeOK
  <2>2. mu = w /\ poller[f] = "off"
    BY <2>1 DEF LoadedInv, WatchInv
  <2>3. /\ poller'[f] = "select" /\ modTime'[f] = disk[f].n
        /\ \A g \in Files \ {f} : poller'[g] = poller[g] /\ modTime'[g] = modTime[g]
    BY <1>1, <2>1 DEF TypeOK
  <2>4. \A v \in Watches : call'[v] \in {"files", "start"} => v = w
    BY <1>1, <2>1, <2>2 DEF TypeOK, LoadedInv, WatchInv
  <2>5. call'[w] = "files"
    BY <1>1, <2>1 DEF TypeOK
  <2>6. watched[f]
    BY <1>1, <2>1 DEF LoadedInv, WatchInv, TypeOK
  <2>7. WatchInv'
    BY <2>1, <2>2, <2>3, <2>4, <2>5, <2>6 DEF LoadedInv, WatchInv
  <2>8. \A g, h \in Files : Read(g, h)' => Read(g, h) /\ g # f
    BY <2>1, <2>2, <2>3 DEF Read
  <2>9. DiskIsNewest'
    BY <1>1, <2>1, <2>3, <2>8, Numbers DEF LoadedInv, DiskIsNewest
  <2>10. f \in missed' \/ conf[f] >= disk[f].n
    BY <1>1, <2>1, Numbers
  <2>11. NoticedInv'
    BY <1>1, <2>1, <2>2, <2>3, <2>8, <2>10, Numbers DEF LoadedInv, NoticedInv, Reloading
  <2> QED  BY <2>7, <2>9, <2>11 DEF LoadedInv
<1> QED  BY <1>2, <1>3, <1>4 DEF WatchStep

LEMMA LoadedPoll ==
  ASSUME LoadedInv, TypeOK', NEW f \in Files, PollStep(f) PROVE LoadedInv'
<1>1. TypeOK
  BY DEF LoadedInv
<1>2. ASSUME NEW from, NEW to, Poll(f, from, to)
      PROVE  /\ poller[f] = from /\ poller'[f] = to
             /\ \A g \in Files \ {f} : poller'[g] = poller[g]
             /\ UNCHANGED <<disk, watched, call, at, mu>>
  BY <1>1, <1>2 DEF Poll, TypeOK
\* A poller at work has been started, so Watch does not start it.
<1>3. ASSUME NEW from, NEW to, Poll(f, from, to), from # "off" PROVE WatchInv'
  BY <1>1, <1>2, <1>3 DEF LoadedInv, WatchInv, TypeOK
<1>4. CASE Notice(f)
  <2>1. /\ Poll(f, "select", "changed") /\ modTime' = [modTime EXCEPT ![f] = disk[f].n]
        /\ UNCHANGED <<conf, got, next, missed, failed, crossed>>
    BY <1>4 DEF Notice
  <2>2. modTime'[f] = disk[f].n /\ \A g \in Files \ {f} : modTime'[g] = modTime[g]
    BY <1>1, <2>1 DEF TypeOK
  <2>3. WatchInv'
    BY <1>3, <2>1
  <2>4. /\ poller[f] = "select" /\ poller'[f] = "changed"
        /\ \A g \in Files \ {f} : poller'[g] = poller[g]
        /\ disk' = disk
    BY <1>2, <2>1
  <2>5. \A g, h \in Files : Read(g, h)' => Read(g, h)
    BY <2>1, <2>4 DEF Read
  <2>6. DiskIsNewest'
    BY <1>1, <2>1, <2>2, <2>4, <2>5, Numbers DEF LoadedInv, DiskIsNewest
  <2>7. NoticedInv'
    BY <2>1, <2>2, <2>4, <2>5 DEF LoadedInv, NoticedInv, Reloading
  <2> QED  BY <2>3, <2>6, <2>7 DEF LoadedInv
<1>5. CASE PollEnd(f) \/ Tell(f)
  <2>1. /\ Poll(f, "select", "stopped") \/ Poll(f, "notify", "select")
        /\ UNCHANGED <<conf, modTime, got, next, missed, failed, crossed>>
    BY <1>5 DEF PollEnd, Tell
  <2>2. WatchInv'
    BY <1>3, <2>1
  <2>3. /\ poller[f] \in {"select", "notify"} /\ poller'[f] \in {"select", "stopped"}
        /\ \A g \in Files \ {f} : poller'[g] = poller[g]
        /\ disk' = disk
    BY <1>2, <2>1
  <2>4. \A g, h \in Files : Read(g, h)' => Read(g, h)
    BY <2>1, <2>3 DEF Read
  <2>5. DiskIsNewest'
    BY <2>1, <2>3, <2>4 DEF LoadedInv, DiskIsNewest
  <2>6. NoticedInv'
    BY <2>1, <2>3, <2>4 DEF LoadedInv, NoticedInv, Reloading
  <2> QED  BY <2>2, <2>5, <2>6 DEF LoadedInv
<1>6. CASE ReloadBegin(f)
  <2>1. /\ Poll(f, "changed", "loading") /\ next' = [next EXCEPT ![f] = 1]
        /\ crossed' = (crossed \/ \E g \in Files \ {f} : Reloading(g))
        /\ UNCHANGED <<conf, modTime, got, missed, failed>>
    BY <1>6 DEF ReloadBegin
  <2>2. WatchInv'
    BY <1>3, <2>1
  <2>3. /\ poller[f] = "changed" /\ poller'[f] = "loading"
        /\ \A g \in Files \ {f} : poller'[g] = poller[g]
        /\ disk' = disk
    BY <1>2, <2>1
  <2>4. next'[f] = 1 /\ \A g \in Files \ {f} : next'[g] = next[g]
    BY <1>1, <2>1 DEF TypeOK
  <2>5. \A h \in Files : ~Read(f, h)'
    BY <2>3, <2>4, HotReloadAssumption DEF Read, Files
  <2>6. \A g, h \in Files : Read(g, h)' => Read(g, h)
    BY <2>3, <2>4, <2>5 DEF Read
  <2>7. DiskIsNewest'
    BY <2>1, <2>3, <2>6 DEF LoadedInv, DiskIsNewest
  <2>8. ~crossed' => \A g \in Files \ {f} : ~Reloading(g) /\ \A h \in Files : ~Read(g, h)'
    BY <2>1, <2>3, <2>6 DEF Reloading, Read
  <2>9. NoticedInv'
    BY <2>1, <2>3, <2>5, <2>8 DEF LoadedInv, NoticedInv, Reloading
  <2> QED  BY <2>2, <2>7, <2>9 DEF LoadedInv
<1>7. CASE LoadFile(f)
  <2> DEFINE g == next[f]
  <2>1. /\ \E to \in {"loading", "publish"} : Poll(f, "loading", to) /\ (to = "publish" => g = NumFiles)
        /\ got' = [got EXCEPT ![f][g] = disk[g].n]
        /\ next' = [next EXCEPT ![f] = g + 1]
        /\ UNCHANGED <<conf, modTime, missed, failed, crossed>>
    BY <1>7 DEF LoadFile
  <2>2. WatchInv'
    BY <1>3, <2>1
  <2>3. /\ poller[f] = "loading" /\ poller'[f] \in {"loading", "publish"}
        /\ poller'[f] = "publish" => g = NumFiles
        /\ \A h \in Files \ {f} : poller'[h] = poller[h]
        /\ disk' = disk
    BY <1>2, <2>1
  <2>4. g \in Files
    BY <1>1, <2>3 DEF TypeOK
  <2>5. /\ next'[f] = g + 1 /\ \A h \in Files \ {f} : next'[h] = next[h]
        /\ got'[f][g] = disk[g].n /\ \A h \in Files \ {g} : got'[f][h] = got[f][h]
        /\ \A h \in Files \ {f} : got'[h] = got[h]
    BY <1>1, <2>1, <2>4 DEF TypeOK
  <2>6. \A h \in Files : h <= NumFiles /\ h \in Nat
    BY HotReloadAssumption DEF Files
  <2>7. \A h \in Files : Read(f, h)' => h = g \/ Read(f, h)
    BY <2>3, <2>4, <2>5, <2>6 DEF Read
  <2>8. \A e \in Files \ {f}, h \in Files : Read(e, h)' => Read(e, h)
    BY <2>3, <2>5 DEF Read
  <2>9. DiskIsNewest'
    BY <1>1, <2>1, <2>3, <2>4, <2>5, <2>7, <2>8, Numbers DEF LoadedInv, DiskIsNewest
  <2>10. conf[g] <= disk[g].n /\ modTime[g] <= disk[g].n
    BY <2>4 DEF LoadedInv, DiskIsNewest
  <2>11. \A h \in Files : poller'[h] = "changed" <=> poller[h] = "changed"
    BY <2>3
  <2>12. \A h \in Files : Reloading(h)' <=> Reloading(h)
    BY <2>3 DEF Reloading
  <2>13. NoticedInv'
    <3> SUFFICES ASSUME ~failed, ~crossed PROVE NoticedInv'
      BY <2>1 DEF NoticedInv
    <3>1. \A e, h \in Files : Reloading(e)' /\ Reloading(h)' => e = h
      BY <2>12 DEF LoadedInv, NoticedInv
    <3>2. \A h \in Files \ missed :
             poller'[h] \in {"off", "select", "notify", "stopped"} => conf[h] >= modTime[h]
      BY <2>3 DEF LoadedInv, NoticedInv
    <3>3. \A e, h \in Files : Read(e, h)' => got'[e][h] >= conf[h]
      BY <1>1, <2>5, <2>7, <2>8, <2>10, Numbers DEF LoadedInv, NoticedInv
    <3>4. \A h \in Files \ missed, e \in Files :
              Read(e, h)' /\ poller'[h] # "changed" => got'[e][h] >= modTime[h]
      BY <1>1, <2>4, <2>5, <2>7, <2>8, <2>10, <2>11, Numbers DEF LoadedInv, NoticedInv
    <3> QED  BY <2>1, <3>1, <3>2, <3>3, <3>4 DEF NoticedInv
  <2> QED  BY <2>2, <2>9, <2>13 DEF LoadedInv
<1>8. CASE Publish(f)
  <2>1. /\ Poll(f, "publish", "notify") /\ conf' = got[f]
        /\ UNCHANGED <<modTime, got, next, missed, failed, crossed>>
    BY <1>8 DEF Publish
  <2>2. WatchInv'
    BY <1>3, <2>1
  <2>3. /\ poller[f] = "publish" /\ poller'[f] = "notify"
        /\ \A g \in Files \ {f} : poller'[g] = poller[g]
        /\ disk' = disk
    BY <1>2, <2>1
  <2>4. \A h \in Files : Read(f, h)
    BY <2>3 DEF Read
  <2>5. \A g, h \in Files : Read(g, h)' => Read(g, h) /\ g # f
    BY <2>1, <2>3 DEF Read
  <2>6. DiskIsNewest'
    BY <2>1, <2>3, <2>4, <2>5 DEF LoadedInv, DiskIsNewest
  <2>7. NoticedInv'
    <3> SUFFICES ASSUME ~failed, ~crossed PROVE NoticedInv'
      BY <2>1 DEF NoticedInv
    <3>1. \A g \in Files \ {f} : ~Reloading(g) /\ \A h \in Files : ~Read(g, h)
      BY <2>3 DEF LoadedInv, NoticedInv, Reloading, Read
    <3>2. \A h \in Files \ missed : poller[h] # "changed" => got[f][h] >= modTime[h]
      BY <2>4 DEF LoadedInv, NoticedInv
    <3> QED  BY <2>1, <2>3, <2>5, <3>1, <3>2 DEF NoticedInv, Reloading
  <2> QED  BY <2>2, <2>6, <2>7 DEF LoadedInv
<1>9. CASE ReloadFails(f)
  <2>1. PICK from \in {"changed", "loading", "publish"} : Poll(f, from, "notify")
    BY <1>9 DEF ReloadFails
  <2>2. failed' = TRUE /\ UNCHANGED <<conf, modTime, got, next, missed>>
    BY <1>9 DEF ReloadFails
  <2>3. WatchInv'
    BY <1>3, <2>1
  <2>4. /\ poller'[f] = "notify" /\ \A g \in Files \ {f} : poller'[g] = poller[g]
        /\ disk' = disk
    BY <1>2, <2>1
  <2>5. \A g, h \in Files : Read(g, h)' => Read(g, h)
    BY <2>2, <2>4 DEF Read
  <2>6. DiskIsNewest'
    BY <2>2, <2>4, <2>5 DEF LoadedInv, DiskIsNewest
  <2> QED  BY <2>2, <2>3, <2>6 DEF LoadedInv, NoticedInv
<1> QED  BY <1>4, <1>5, <1>6, <1>7, <1>8, <1>9 DEF PollStep

LEMMA LoadedNext == LoadedInv /\ [Next]_vars => LoadedInv'
<1> SUFFICES ASSUME LoadedInv, [Next]_vars PROVE LoadedInv'
  OBVIOUS
<1>1. TypeOK'
  BY TypeNext DEF LoadedInv
<1>2. CASE UNCHANGED <<fileVars, watchVars, pollVars, failed, crossed, missed>>
  BY <1>1, <1>2 DEF LoadedInv, WatchInv, DiskIsNewest, NoticedInv, Read, Reloading
<1>3. CASE UNCHANGED vars \/ Handle \/ CloseSwap \/ CloseStep
  BY <1>2, <1>3 DEF vars, Handle, CloseSwap, CloseStep, CloseSources, CloseSkip, CloseStop,
                    CloseStopped, CloseEngine
<1> QED  BY <1>1, <1>3, LoadedFiles, LoadedWatch, LoadedPoll DEF Next

\* As long as no reload has failed and no two have overlapped, a change that a
\* poller has noticed is in the configuration once the poller is back at its
\* select, for any number of files, writes and calls of Watch
\* (source.go:530-538, config.go:386-391).
THEOREM WhatIsNoticedIsLoaded == Spec => []NoticedIsLoaded
<1>1. LoadedInv => NoticedIsLoaded
  BY DEF LoadedInv, NoticedInv, NoticedIsLoaded
<1> QED  BY <1>1, LoadedInit, LoadedNext, PTL DEF Spec

-----------------------------------------------------------------------------
(* Close and the pollers.                                                  *)

ClosedInv ==
    /\ closing = "no" => closeAt = 1
    /\ closing # "no" => \A w \in Watches : call[w] \in {"idle", "files", "start"} => w \in late
    /\ closing = "returned" => closeAt = NumFiles + 1
    /\ \A f \in Files : ~assigned[f] => poller[f] = "off"
    /\ \A w \in Watches : call[w] = "start" => assigned[at[w]]
    /\ \A f \in Files : f < closeAt /\ Running(f) => owner[f] \in late

PollersInv == TypeOK /\ ClosedInv

LEMMA PollersNext == PollersInv /\ [Next]_vars => PollersInv'
<1> SUFFICES ASSUME PollersInv, [Next]_vars PROVE PollersInv'
  OBVIOUS
<1>1. TypeOK /\ TypeOK'
  BY TypeNext DEF PollersInv
<1>2. CASE UNCHANGED <<watchVars, poller, closing, closeAt, late>>
  BY <1>1, <1>2 DEF PollersInv, ClosedInv, Running
<1>3. CASE UNCHANGED vars \/ Handle \/ \E f \in Files : Write(f) \/ Vanish(f) \/ ComeBack(f)
  BY <1>2, <1>3 DEF vars, Handle, Write, Vanish, ComeBack
<1>4. ASSUME NEW f \in Files, PollStep(f) PROVE PollersInv'
  <2>1. UNCHANGED <<assigned, owner, call, at, closing, closeAt, late>>
    BY <1>4 DEF PollStep, Notice, PollEnd, ReloadBegin, LoadFile, Publish, ReloadFails, Tell, Poll
  <2>2. \E from \in {"select", "changed", "loading", "publish", "notify"} : \E to :
            poller[f] = from /\ poller' = [poller EXCEPT ![f] = to]
    BY <1>4 DEF PollStep, Notice, PollEnd, ReloadBegin, LoadFile, Publish, ReloadFails, Tell, Poll
  <2>3. Running(f) /\ poller[f] # "off" /\ \A g \in Files \ {f} : poller'[g] = poller[g]
    BY <1>1, <2>2 DEF Running, TypeOK
  <2> QED  BY <1>1, <2>1, <2>3 DEF PollersInv, ClosedInv, Running
<1>5. ASSUME NEW w \in Watches, WatchBegin(w) \/ WatchFails(w) \/ WatchReturn(w) \/ Cancel(w)
      PROVE  PollersInv'
  <2>1. /\ UNCHANGED <<assigned, owner, at, poller, closing, closeAt, late>>
        /\ \A v \in Watches : /\ call'[v] = "start" => call[v] = "start"
                              /\ call'[v] \in {"idle", "files", "start"}
                                    => call[v] \in {"idle", "files", "start"}
    BY <1>1, <1>5 DEF WatchBegin, WatchFails, WatchReturn, Cancel, TypeOK
  <2> QED  BY <1>1, <2>1 DEF PollersInv, ClosedInv, Running
<1>6. ASSUME NEW w \in Watches, WatchFile(w) PROVE PollersInv'
  <2> DEFINE f == at[w]
  <2>1. /\ UNCHANGED <<owner, poller, closing, closeAt, late>>
        /\ call[w] = "files" /\ f \in Files
        /\ assigned' = [assigned EXCEPT ![f] = TRUE]
        /\ \/ at' = [at EXCEPT ![w] = f + 1] /\ call' = call
           \/ call' = [call EXCEPT ![w] = "start"] /\ at' = at
    BY <1>6 DEF WatchFile
  <2>2. \A g \in Files : assigned'[g] = (assigned[g] \/ g = f)
    BY <1>1, <2>1 DEF TypeOK
  <2>3. \A v \in Watches : /\ call'[v] = "start" => (call[v] = "start" /\ at'[v] = at[v])
                                                       \/ (v = w /\ at'[v] = f)
                           /\ call'[v] \in {"idle", "files", "start"}
                                => call[v] \in {"idle", "files", "start"}
    BY <1>1, <2>1 DEF TypeOK
  <2>4. \A v \in Watches : call[v] = "start" => at[v] \in Files
    BY <1>1 DEF TypeOK
  <2>5. \A v \in Watches : call'[v] = "start" => assigned'[at'[v]]
    <3>1. ASSUME NEW v \in Watches, call[v] = "start", at'[v] = at[v]
          PROVE  assigned'[at'[v]]
      BY <2>2, <2>4, <3>1 DEF PollersInv, ClosedInv
    <3>2. assigned'[f]
      BY <2>1, <2>2
    <3> QED  BY <2>3, <3>1, <3>2
  <2>6. \A g \in Files : ~assigned'[g] => poller'[g] = "off"
    BY <2>1, <2>2 DEF PollersInv, ClosedInv
  <2>7. closing' # "no" =>
           \A v \in Watches : call'[v] \in {"idle", "files", "start"} => v \in late'
    BY <2>1, <2>3 DEF PollersInv, ClosedInv
  <2>8. /\ closing' = "no" => closeAt' = 1
        /\ closing' = "returned" => closeAt' = NumFiles + 1
        /\ \A g \in Files : g < closeAt' /\ Running(g)' => owner'[g] \in late'
    BY <2>1 DEF PollersInv, ClosedInv, Running
  <2> QED  BY <1>1, <2>5, <2>6, <2>7, <2>8 DEF PollersInv, ClosedInv
<1>7. ASSUME NEW w \in Watches, WatchStart(w) PROVE PollersInv'
  <2> DEFINE f == at[w]
  <2>1. /\ UNCHANGED <<assigned, closing, closeAt, late>>
        /\ call[w] = "start" /\ f \in Files
        /\ poller' = [poller EXCEPT ![f] = "select"]
        /\ owner' = [owner EXCEPT ![f] = w]
        /\ at' = [at EXCEPT ![w] = f + 1]
        /\ call' = [call EXCEPT ![w] = "files"]
    BY <1>1, <1>7 DEF WatchStart, TypeOK
  <2>2. /\ poller'[f] = "select" /\ owner'[f] = w
        /\ \A g \in Files \ {f} : poller'[g] = poller[g] /\ owner'[g] = owner[g]
        /\ call'[w] = "files"
        /\ \A v \in Watches \ {w} : call'[v] = call[v] /\ at'[v] = at[v]
    BY <1>1, <2>1 DEF TypeOK
  <2>3. closing = "no" => ~(f < closeAt)
    BY <2>1, HotReloadAssumption DEF PollersInv, ClosedInv, Files
  <2> QED  BY <1>1, <2>1, <2>2, <2>3 DEF PollersInv, ClosedInv, Running
<1>8. CASE CloseSwap
  <2>1. closeAt = 1 /\ closing' = "swapped" /\ UNCHANGED <<watchVars, poller, closeAt>>
    BY <1>8 DEF CloseSwap, PollersInv, ClosedInv
  <2>2. \A w \in Watches : call'[w] \in {"idle", "files", "start"} => w \in late'
    BY <1>8 DEF CloseSwap
  <2>3. \A f \in Files : ~(f < 1)
    BY HotReloadAssumption DEF Files
  <2> QED  BY <1>1, <2>1, <2>2, <2>3 DEF PollersInv, ClosedInv, Running
<1>9. CASE CloseSources \/ CloseStop \/ CloseEngine
  BY <1>1, <1>9 DEF CloseSources, CloseStop, CloseEngine, PollersInv, ClosedInv, Running
<1>10. CASE CloseSkip \/ CloseStopped
  <2>1. /\ closing \in {"sources", "stopping"} /\ closing' = "sources" /\ closeAt \in Files
        /\ closeAt' = closeAt + 1 /\ ~Running(closeAt)
        /\ UNCHANGED <<watchVars, poller, late>>
    BY <1>1, <1>10 DEF CloseSkip, CloseStopped, PollersInv, ClosedInv, Running, TypeOK
  <2>2. \A f \in Files : f < closeAt + 1 => f < closeAt \/ f = closeAt
    BY <2>1, HotReloadAssumption DEF Files
  <2> QED  BY <1>1, <2>1, <2>2 DEF PollersInv, ClosedInv, Running
<1> QED  BY <1>3, <1>4, <1>5, <1>6, <1>7, <1>8, <1>9, <1>10 DEF Next, WatchStep, CloseStep

\* Whatever the order of Watch, Close, cancellations and reloads, a poller
\* that survives Close belongs to a call of Watch that had not returned when
\* Close began (config.go:378-406, 557-577).
THEOREM PollersEnd == Spec => []PollerOnlyFromLateWatch
<1>1. Init => PollersInv
  <2> SUFFICES ASSUME Init PROVE PollersInv
    OBVIOUS
  <2>1. /\ closing = "no" /\ closeAt = 1
        /\ \A f \in Files : poller[f] = "off"
        /\ \A w \in Watches : call[w] = "idle"
    BY DEF Init
  <2> QED  BY <2>1, TypeInit DEF PollersInv, ClosedInv, Running
<1>2. PollersInv => PollerOnlyFromLateWatch
  BY HotReloadAssumption DEF PollersInv, ClosedInv, PollerOnlyFromLateWatch, Files
<1> QED  BY <1>1, <1>2, PollersNext, PTL DEF Spec

-----------------------------------------------------------------------------
(* The observer.                                                           *)

\* A step that publishes leaves its poller about to tell the observer; telling
\* it starts a handler, and a handler reads what was published last.
LEMMA ObserverNext == TypeOK /\ WatchInv /\ ObserverIsCurrent /\ [Next]_vars => ObserverIsCurrent'
<1> SUFFICES ASSUME TypeOK, WatchInv, ObserverIsCurrent, [Next]_vars  PROVE ObserverIsCurrent'
  OBVIOUS
<1>1. CASE UNCHANGED <<handlers, poller, seen, conf>>
  BY <1>1 DEF ObserverIsCurrent
<1>2. ASSUME NEW f \in Files, Publish(f)  PROVE ObserverIsCurrent'
  <2>1. poller'[f] = "notify"
    BY <1>2 DEF Publish, Poll, TypeOK
  <2> QED  BY <2>1 DEF ObserverIsCurrent
<1>3. ASSUME NEW f \in Files, Tell(f)  PROVE ObserverIsCurrent'
  <2>1. handlers' = handlers + 1 /\ handlers \in Nat
    BY <1>3 DEF Tell, TypeOK
  <2>2. handlers' # 0
    BY <2>1
  <2> QED  BY <2>2 DEF ObserverIsCurrent
<1>4. CASE Handle
  BY <1>4 DEF Handle, ObserverIsCurrent
<1>5. ASSUME NEW f \in Files,
             Notice(f) \/ PollEnd(f) \/ ReloadBegin(f) \/ LoadFile(f) \/ ReloadFails(f)
      PROVE  ObserverIsCurrent'
  <2>1. /\ UNCHANGED <<conf, seen, handlers>> /\ poller[f] # "notify"
        /\ \A g \in Files : poller[g] = "notify" => poller'[g] = "notify"
    BY <1>5 DEF Notice, PollEnd, ReloadBegin, LoadFile, ReloadFails, Poll, TypeOK
  <2> QED  BY <2>1 DEF ObserverIsCurrent
<1>6. ASSUME NEW w \in Watches, WatchBegin(w) \/ WatchStep(w) \/ Cancel(w)
      PROVE  ObserverIsCurrent'
  <2>1. CASE WatchStart(w)
    <3>1. /\ UNCHANGED <<conf, seen, handlers>>
          /\ \A g \in Files : poller[g] = "notify" /\ g # at[w] => poller'[g] = "notify"
          /\ poller[at[w]] # "notify"
      BY <2>1 DEF WatchStart, WatchInv, TypeOK
    <3> QED  BY <3>1 DEF ObserverIsCurrent
  <2>2. CASE ~WatchStart(w)
    BY <1>6, <2>2, <1>1 DEF WatchBegin, WatchStep, WatchFile, WatchFails, WatchReturn, Cancel
  <2> QED  BY <2>1, <2>2
<1>7. ASSUME NEW f \in Files, Write(f) \/ Vanish(f) \/ ComeBack(f)
      PROVE  ObserverIsCurrent'
  BY <1>7, <1>1 DEF Write, Vanish, ComeBack
<1>8. CASE CloseSwap \/ CloseStep
  BY <1>8, <1>1 DEF CloseSwap, CloseStep, CloseSources, CloseSkip, CloseStop, CloseStopped,
                    CloseEngine
<1>9. CASE UNCHANGED vars
  BY <1>9, <1>1 DEF vars
<1> QED  BY <1>2, <1>3, <1>4, <1>5, <1>6, <1>7, <1>8, <1>9 DEF Next, PollStep

\* For any number of files, pollers and events on their way: once they have
\* come to rest the observer has read what was published last
\* (config.go:388-397, 422-426).
THEOREM ObserverCatchesUp == Spec => []ObserverIsCurrent
<1>1. Init => ObserverIsCurrent
  BY DEF Init, ObserverIsCurrent
<1>2. LoadedInv => TypeOK /\ WatchInv
  BY DEF LoadedInv
<1> QED  BY <1>1, <1>2, LoadedInit, LoadedNext, ObserverNext, PTL DEF Spec

=============================================================================
