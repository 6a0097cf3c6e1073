------------------------- MODULE FileWatcher_proofs -------------------------
(***************************************************************************)
(* What the steps of FileWatcher do, whoever starts and stops the          *)
(* watchers: lemmas for the proofs about WatchManager and MultiWatcher.    *)
(***************************************************************************)
EXTENDS FileWatcher, SequenceTheorems, TLAPS

USE FileWatcherAssumption
USE DEF chanVars, pollVars, Change, Deleted

-----------------------------------------------------------------------------
(* Type correctness.                                                       *)

LEMMA TypeWatcherInit == WatcherInit => WatcherTypeOK
<1> SUFFICES ASSUME WatcherInit PROVE WatcherTypeOK
  OBVIOUS
<1>1. 0 \in 0..MaxWrites /\ [n |-> 0, here |-> TRUE] \in [n : 0..MaxWrites, here : BOOLEAN]
  OBVIOUS
<1>2. \A f \in Files : Len(changes[f]) <= Capacity
  BY DEF WatcherInit
<1>3. changes \in [Files -> Seq(Change)]
  BY DEF WatcherInit
<1> QED  BY <1>1, <1>2, <1>3 DEF WatcherInit, WatcherTypeOK

\* The files and the goroutines of the watchers.
LEMMA TypeFiles ==
  ASSUME WatcherTypeOK, NEW f \in Files, Write(f) \/ Vanish(f) \/ ComeBack(f)
  PROVE  WatcherTypeOK'
<1>1. disk[f] \in [n : 0..MaxWrites, here : BOOLEAN]
  BY DEF WatcherTypeOK
<1>2. CASE Write(f)
  <2>1. disk[f].n + 1 \in 0..MaxWrites
    BY <1>1, <1>2 DEF Write
  <2> QED  BY <1>1, <1>2, <2>1 DEF WatcherTypeOK, Write
<1>3. CASE Vanish(f)
  BY <1>1, <1>3 DEF WatcherTypeOK, Vanish
<1>4. CASE ComeBack(f)
  BY <1>1, <1>4 DEF WatcherTypeOK, ComeBack
<1> QED  BY <1>2, <1>3, <1>4

LEMMA TypePoll ==
  ASSUME WatcherTypeOK, NEW r \in Runs, NEW f \in Files, PollStep(r, f)
  PROVE  WatcherTypeOK'
<1>1. CASE TickModified(r, f)
  <2>1. disk[f].n \in 0..MaxWrites
    BY DEF WatcherTypeOK
  <2> QED  BY <1>1, <2>1 DEF WatcherTypeOK, TickModified
<1>2. CASE TickDeleted(r, f)
  BY <1>2 DEF WatcherTypeOK, TickDeleted
<1>3. CASE Send(r, f)
  <2>1. CASE Panic
    BY <2>1 DEF WatcherTypeOK, Panic
  <2>2. CASE ~Panic
    <3>1. /\ Len(changes[f]) < Capacity
          /\ changes' = [changes EXCEPT ![f] = Append(@, sending[r][f])]
          /\ poller' = [poller EXCEPT ![r][f] = "select"]
          /\ sending' = [sending EXCEPT ![r][f] = Deleted]
          /\ UNCHANGED <<disk, lastMod, running, stop, stopped, shut, done, panicked>>
      BY <1>3, <2>2 DEF Send
    <3>2. changes[f] \in Seq(0..MaxWrites) /\ sending[r][f] \in 0..MaxWrites
      BY DEF WatcherTypeOK
    <3>3. /\ Append(changes[f], sending[r][f]) \in Seq(0..MaxWrites)
          /\ Len(Append(changes[f], sending[r][f])) <= Capacity
      BY <3>1, <3>2
    <3>4. /\ changes' \in [Files -> Seq(0..MaxWrites)]
          /\ \A g \in Files : Len(changes'[g]) <= Capacity
      BY <3>1, <3>3 DEF WatcherTypeOK
    <3> QED  BY <3>1, <3>4 DEF WatcherTypeOK
  <2> QED  BY <2>1, <2>2
<1>4. CASE SendGivesUp(r, f)
  BY <1>4 DEF WatcherTypeOK, SendGivesUp
<1>5. CASE Leave(r, f)
  <2>1. CASE Panic
    BY <2>1 DEF WatcherTypeOK, Panic
  <2>2. CASE ~Panic
    <3>1. /\ shut' = [shut EXCEPT ![f] = TRUE]
          /\ poller' = [poller EXCEPT ![r][f] = "exiting"]
          /\ UNCHANGED <<disk, lastMod, running, stop, stopped, changes, sending, done, panicked>>
      BY <1>5, <2>2 DEF Leave
    <3> QED  BY <3>1 DEF WatcherTypeOK
  <2> QED  BY <2>1, <2>2
<1>6. CASE Left(r, f)
  BY <1>6 DEF WatcherTypeOK, Left
<1> QED  BY <1>1, <1>2, <1>3, <1>4, <1>5, <1>6 DEF PollStep

LEMMA TypeStartStop ==
  ASSUME WatcherTypeOK, NEW f \in Files,
         StopWatcher(f) \/ \E r \in Runs : StartWatcher(r, f)
  PROVE  WatcherTypeOK'
<1>1. CASE StopWatcher(f)
  BY <1>1 DEF WatcherTypeOK, StopWatcher, Panic
<1>2. ASSUME NEW r \in Runs, StartWatcher(r, f) PROVE WatcherTypeOK'
  <2>1. disk[f].n \in 0..MaxWrites
    BY DEF WatcherTypeOK
  <2> QED  BY <1>2, <2>1 DEF WatcherTypeOK, StartWatcher
<1> QED  BY <1>1, <1>2

\* A goroutine of the manager takes a change.
LEMMA TypeReceive ==
  ASSUME WatcherTypeOK, NEW f \in Files, Receive(f)
  PROVE  WatcherTypeOK' /\ Head(changes[f]) \in Change
<1>1. changes[f] \in Seq(0..MaxWrites) /\ changes[f] # <<>> /\ Len(changes[f]) <= Capacity
  BY DEF WatcherTypeOK, Receive
<1>2. /\ Tail(changes[f]) \in Seq(0..MaxWrites) /\ Head(changes[f]) \in 0..MaxWrites
      /\ Len(Tail(changes[f])) <= Capacity
  <2>1. /\ Tail(changes[f]) \in Seq(0..MaxWrites) /\ Head(changes[f]) \in 0..MaxWrites
        /\ Len(Tail(changes[f])) = Len(changes[f]) - 1 /\ Len(changes[f]) \in Nat
    BY <1>1, HeadTailProperties, LenProperties
  <2> QED  BY <1>1, <2>1
<1>3. /\ changes' \in [Files -> Seq(0..MaxWrites)]
      /\ \A g \in Files : Len(changes'[g]) <= Capacity
  BY <1>2 DEF WatcherTypeOK, Receive
<1> QED  BY <1>2, <1>3 DEF WatcherTypeOK, Receive
-----------------------------------------------------------------------------
(* The goroutines that poll.                                               *)

\* What a step of watch changes: it panics, on a channel that is closed, or it
\* goes on, and closes the channel only when it leaves.
LEMMA PollEffect ==
  ASSUME WatcherTypeOK, NEW r \in Runs, NEW f \in Files, PollStep(r, f)
  PROVE  /\ poller[r][f] \in {"select", "send", "exiting"}
         /\ UNCHANGED <<running, stop>>
         /\ \/ Panic /\ shut[f] /\ poller[r][f] \in {"select", "send"}
            \/ /\ UNCHANGED panicked
               /\ poller'[r][f] \in {"select", "send", "exiting", "done"}
               /\ poller'[r][f] \in {"select", "send"} =>
                     shut' = shut /\ poller[r][f] \in {"select", "send"}
               /\ stopped'[f] => stopped[f] \/ poller'[r][f] = "done"
               /\ \A q \in Runs, g \in Files :
                     <<q, g>> # <<r, f>> => poller'[q][g] = poller[q][g]
               /\ \A g \in Files \ {f} : shut'[g] = shut[g] /\ stopped'[g] = stopped[g]
<1>1. /\ poller \in [Runs -> [Files -> {"off", "select", "send", "exiting", "done"}]]
      /\ stopped \in [Files -> BOOLEAN] /\ shut \in [Files -> BOOLEAN]
  BY DEF WatcherTypeOK
<1>2. CASE TickModified(r, f) \/ TickDeleted(r, f)
  BY <1>1, <1>2 DEF TickModified, TickDeleted
<1>3. CASE Send(r, f)
  BY <1>1, <1>3 DEF Send, Panic
<1>4. CASE SendGivesUp(r, f)
  BY <1>1, <1>4 DEF SendGivesUp
<1>5. CASE Leave(r, f)
  BY <1>1, <1>5 DEF Leave, Panic
<1>6. CASE Left(r, f)
  BY <1>1, <1>6 DEF Left
<1> QED  BY <1>2, <1>3, <1>4, <1>5, <1>6 DEF PollStep

\* A watcher that has not been stopped, or has been and runs no more, has had
\* one goroutine at most, and stopped is closed by one that has ended.
OneGoroutine ==
  \A f \in Files :
      /\ \A r \in Runs : poller[r][f] # "off" => running[f] \/ stop[f]
      /\ ~running[f] \/ ~stop[f] =>
            \A r, q \in Runs : poller[r][f] # "off" /\ poller[q][f] # "off" => r = q
      /\ stopped[f] => \E r \in Runs : poller[r][f] = "done"

LEMMA GoroutinesInit == WatcherInit => OneGoroutine
  BY DEF WatcherInit, OneGoroutine

LEMMA GoroutinesSame ==
  ASSUME OneGoroutine, UNCHANGED <<running, stop, stopped, poller>>
  PROVE  OneGoroutine'
  BY DEF OneGoroutine

LEMMA GoroutinesPoll ==
  ASSUME WatcherTypeOK, OneGoroutine, NEW r \in Runs, NEW f \in Files, PollStep(r, f)
  PROVE  OneGoroutine'
<1>1. CASE Panic
  BY <1>1, GoroutinesSame DEF Panic
<1>2. CASE ~Panic
  <2>1. /\ poller[r][f] \in {"select", "send", "exiting"} /\ poller'[r][f] # "off"
        /\ UNCHANGED <<running, stop>>
        /\ stopped'[f] => stopped[f] \/ poller'[r][f] = "done"
        /\ \A q \in Runs, g \in Files : <<q, g>> # <<r, f>> => poller'[q][g] = poller[q][g]
        /\ \A g \in Files \ {f} : stopped'[g] = stopped[g]
    BY <1>2, PollEffect
  <2>2. \A q \in Runs, g \in Files :
            /\ poller'[q][g] # "off" <=> poller[q][g] # "off"
            /\ poller[q][g] = "done" => poller'[q][g] = "done"
    BY <2>1
  <2>3. \A g \in Files : stopped'[g] => \E q \in Runs : poller'[q][g] = "done"
    BY <2>1, <2>2 DEF OneGoroutine
  <2> QED  BY <2>1, <2>2, <2>3 DEF OneGoroutine
<1> QED  BY <1>1, <1>2

LEMMA GoroutinesStart ==
  ASSUME WatcherTypeOK, OneGoroutine, NEW r \in Runs, NEW f \in Files,
         StartWatcher(r, f), poller[r][f] = "off"
  PROVE  OneGoroutine'
<1>1. /\ poller \in [Runs -> [Files -> {"off", "select", "send", "exiting", "done"}]]
      /\ running \in [Files -> BOOLEAN]
  BY DEF WatcherTypeOK
<1>2. /\ running'[f] /\ UNCHANGED <<stop, stopped>>
      /\ \A g \in Files \ {f} : running'[g] = running[g]
      /\ \A q \in Runs, g \in Files : <<q, g>> # <<r, f>> => poller'[q][g] = poller[q][g]
      /\ running[f] => poller'[r][f] = "off"
  BY <1>1 DEF StartWatcher
<1>3. ~running[f] /\ ~stop[f] => \A q \in Runs : poller[q][f] = "off"
  BY DEF OneGoroutine
<1>4. \A q \in Runs, g \in Files : poller[q][g] = "done" => poller'[q][g] = "done"
  BY <1>2
<1> QED  BY <1>2, <1>3, <1>4 DEF OneGoroutine

LEMMA GoroutinesStop ==
  ASSUME WatcherTypeOK, OneGoroutine, NEW f \in Files, StopWatcher(f)
  PROVE  OneGoroutine'
<1>1. CASE Panic
  BY <1>1, GoroutinesSame DEF Panic
<1>2. CASE ~Panic
  <2>1. /\ running \in [Files -> BOOLEAN] /\ stop \in [Files -> BOOLEAN]
    BY DEF WatcherTypeOK
  <2>2. /\ ~stop[f] /\ stop'[f] /\ UNCHANGED <<poller, stopped>>
        /\ \A g \in Files \ {f} : running'[g] = running[g] /\ stop'[g] = stop[g]
    BY <1>2, <2>1 DEF StopWatcher
  <2> QED  BY <2>2 DEF OneGoroutine
<1> QED  BY <1>1, <1>2
\* A watcher that runs has not been stopped, and a channel is open as long as
\* a goroutine may send on it or close it: then none panics.
ChannelsOpen ==
  /\ \A f \in Files : running[f] => ~stop[f]
  /\ \A r \in Runs, f \in Files : poller[r][f] \in {"select", "send"} => ~shut[f]

LEMMA ChannelsPoll ==
  ASSUME WatcherTypeOK, ChannelsOpen, NEW r \in Runs, NEW f \in Files, PollStep(r, f),
         \A q \in Runs : poller[q][f] # "off" => q = r
  PROVE  ChannelsOpen' /\ UNCHANGED panicked
<1>1. /\ UNCHANGED <<running, stop, panicked>>
      /\ poller'[r][f] \in {"select", "send"} =>
            shut' = shut /\ poller[r][f] \in {"select", "send"}
      /\ \A q \in Runs, g \in Files : <<q, g>> # <<r, f>> => poller'[q][g] = poller[q][g]
      /\ \A g \in Files \ {f} : shut'[g] = shut[g]
  BY PollEffect DEF ChannelsOpen
<1>2. ASSUME NEW q \in Runs, NEW g \in Files, poller'[q][g] \in {"select", "send"}
      PROVE  ~shut'[g]
  <2>1. CASE g = f /\ q = r
    BY <1>1, <1>2, <2>1 DEF ChannelsOpen
  <2>2. CASE g = f /\ q # r
    BY <1>1, <1>2, <2>2
  <2>3. CASE g # f
    BY <1>1, <1>2, <2>3 DEF ChannelsOpen
  <2> QED  BY <2>1, <2>2, <2>3
<1> QED  BY <1>1, <1>2 DEF ChannelsOpen

LEMMA ChannelsStart ==
  ASSUME WatcherTypeOK, ChannelsOpen, NEW r \in Runs, NEW f \in Files, StartWatcher(r, f),
         ~stop[f], ~shut[f]
  PROVE  ChannelsOpen' /\ UNCHANGED panicked
<1>1. /\ poller \in [Runs -> [Files -> {"off", "select", "send", "exiting", "done"}]]
      /\ running \in [Files -> BOOLEAN]
  BY DEF WatcherTypeOK
<1>2. /\ UNCHANGED <<stop, shut, panicked>>
      /\ \A g \in Files \ {f} : running'[g] = running[g]
      /\ \A q \in Runs, g \in Files : <<q, g>> # <<r, f>> => poller'[q][g] = poller[q][g]
  BY <1>1 DEF StartWatcher
<1> QED  BY <1>2 DEF ChannelsOpen

LEMMA ChannelsStop ==
  ASSUME WatcherTypeOK, ChannelsOpen, NEW f \in Files, StopWatcher(f)
  PROVE  ChannelsOpen' /\ UNCHANGED panicked
<1>1. running \in [Files -> BOOLEAN] /\ stop \in [Files -> BOOLEAN]
  BY DEF WatcherTypeOK
<1>2. /\ ~running'[f] /\ UNCHANGED <<shut, poller, panicked>>
      /\ \A g \in Files \ {f} : running'[g] = running[g] /\ stop'[g] = stop[g]
  BY <1>1 DEF StopWatcher, ChannelsOpen
<1> QED  BY <1>2 DEF ChannelsOpen

-----------------------------------------------------------------------------
(* The order of the changes of a file.                                     *)

\* The changes that have been taken from the channel, those in it, and those
\* about to be sent follow each other, and none is younger than lastMod.
Pipeline(past, queue, pending, last) ==
  /\ \A n \in past :
        /\ n <= last
        /\ \A i \in 1..Len(queue) : queue[i] # Deleted => n < queue[i]
        /\ \A p \in pending : p # Deleted => n < p
  /\ \A i, j \in 1..Len(queue) :
        i < j /\ queue[i] # Deleted /\ queue[j] # Deleted => queue[i] < queue[j]
  /\ \A i \in 1..Len(queue) :
        /\ queue[i] <= last
        /\ \A p \in pending : p # Deleted => queue[i] < p
  /\ \A p \in pending : p <= last

\* A change younger than all these is about to be sent.
LEMMA PipelineNoticed ==
  ASSUME NEW past \in SUBSET Nat, NEW queue \in Seq(Nat), NEW last \in Nat, NEW new \in Nat,
         NEW later \in Nat, Pipeline(past, queue, {Deleted}, last),
         \A n \in past : n < new, \A i \in 1..Len(queue) : queue[i] < new,
         new <= later, last <= later
  PROVE  Pipeline(past, queue, {Deleted, new}, later)
<1>1. \A i \in 1..Len(queue) : queue[i] \in Nat
  OBVIOUS
<1> QED  BY <1>1 DEF Pipeline

\* It is sent ...
LEMMA PipelineSent ==
  ASSUME NEW past \in SUBSET Nat, NEW queue \in Seq(Nat), NEW last \in Nat,
         NEW pending \in SUBSET Nat, NEW p \in pending,
         Pipeline(past, queue, pending, last)
  PROVE  Pipeline(past, Append(queue, p), {Deleted}, last)
<1> DEFINE longer == Append(queue, p)
<1>1. /\ Len(longer) = Len(queue) + 1 /\ Len(queue) \in Nat
      /\ longer[Len(queue) + 1] = p
      /\ \A i \in 1..Len(queue) : longer[i] = queue[i] /\ queue[i] \in Nat
  BY AppendProperties
<1>2. \A i \in 1..Len(longer) : i \in 1..Len(queue) \/ i = Len(queue) + 1
  BY <1>1
<1> HIDE DEF longer
<1> QED  BY <1>1, <1>2 DEF Pipeline, longer

\* ... and received.
LEMMA PipelineReceived ==
  ASSUME NEW past \in SUBSET Nat, NEW queue \in Seq(Nat), NEW last \in Nat,
         NEW pending \in SUBSET Nat, queue # <<>>,
         Pipeline(past, queue, pending, last)
  PROVE  /\ Pipeline(past \cup {Head(queue)}, Tail(queue), pending, last)
         /\ Head(queue) # Deleted => \A n \in past : n < Head(queue)
<1> DEFINE rest == Tail(queue)
<1>1. /\ Len(queue) \in Nat \ {0} /\ Len(rest) = Len(queue) - 1
      /\ Head(queue) = queue[1]
      /\ \A i \in 1..Len(rest) : rest[i] = queue[i + 1]
      /\ \A i \in 1..Len(queue) : queue[i] \in Nat
  BY HeadTailProperties, LenProperties
<1>2. 1 \in 1..Len(queue) /\ \A i \in 1..Len(rest) : i + 1 \in 1..Len(queue) /\ 1 < i + 1
  BY <1>1
<1> HIDE DEF rest
<1>3. \A i \in 1..Len(rest) : rest[i] # Deleted => Head(queue) < rest[i]
  <2>1. SUFFICES ASSUME NEW i \in 1..Len(rest), rest[i] # Deleted PROVE queue[1] < queue[i + 1]
    BY <1>1
  <2>2. i + 1 \in 1..Len(queue) /\ 1 < i + 1 /\ queue[i + 1] # Deleted
    BY <1>1, <1>2, <2>1
  <2>3. CASE queue[1] = Deleted
    BY <1>1, <2>2, <2>3
  <2>4. CASE queue[1] # Deleted
    BY <1>2, <2>2, <2>4 DEF Pipeline
  <2> QED  BY <2>3, <2>4
<1> QED  BY <1>1, <1>2, <1>3 DEF Pipeline, rest

\* A place of the queue taken by something else is left out.
LEMMA PipelineSkips ==
  ASSUME NEW past \in SUBSET Nat, NEW queue \in Seq(Nat), NEW pending \in SUBSET Nat,
         NEW last \in Nat, Pipeline(past, queue, pending, last)
  PROVE  Pipeline(past, Append(queue, Deleted), pending, last)
<1> DEFINE longer == Append(queue, Deleted)
<1>1. /\ Len(longer) = Len(queue) + 1 /\ Len(queue) \in Nat
      /\ longer[Len(queue) + 1] = Deleted
      /\ \A i \in 1..Len(queue) : longer[i] = queue[i] /\ queue[i] \in Nat
  BY AppendProperties
<1>2. \A i \in 1..Len(longer) : i \in 1..Len(queue) \/ i = Len(queue) + 1
  BY <1>1
<1> HIDE DEF longer
<1> QED  BY <1>1, <1>2 DEF Pipeline, longer

LEMMA PipelineLater ==
  ASSUME NEW past \in SUBSET Nat, NEW queue \in Seq(Nat), NEW pending \in SUBSET Nat,
         NEW last \in Nat, NEW older \in SUBSET (past \cup {Deleted}),
         NEW fewer \in SUBSET (pending \cup {Deleted}),
         NEW later \in Nat, last <= later,
         Pipeline(past, queue, pending, last)
  PROVE  Pipeline(older, queue, fewer, later)
<1>1. \A i \in 1..Len(queue) : queue[i] \in Nat
  OBVIOUS
<1> QED  BY <1>1 DEF Pipeline

\* The changes about to be sent.
Pending(f) == {sending[r][f] : r \in Runs}

SendingOK ==
  /\ \A f \in Files : lastMod[f] <= disk[f].n
  /\ \A r \in Runs, f \in Files : sending[r][f] # Deleted => poller[r][f] = "send"

LEMMA PollKeepsOrder ==
  ASSUME WatcherTypeOK, SendingOK, NEW r \in Runs, NEW f \in Files, PollStep(r, f)
  PROVE  /\ SendingOK'
         /\ \A past \in SUBSET Nat, g \in Files :
               /\ Pipeline(past, changes[g], Pending(g), lastMod[g])
               /\ \A q \in Runs \ {r} : poller[q][g] # "send"
               => Pipeline(past, changes'[g], Pending(g)', lastMod'[g])
<1>1. /\ poller \in [Runs -> [Files -> {"off", "select", "send", "exiting", "done"}]]
      /\ sending \in [Runs -> [Files -> 0..MaxWrites]]
      /\ lastMod \in [Files -> 0..MaxWrites] /\ changes \in [Files -> Seq(0..MaxWrites)]
      /\ disk \in [Files -> [n : 0..MaxWrites, here : BOOLEAN]]
  BY DEF WatcherTypeOK
<1>2. \A g \in Files : /\ changes[g] \in Seq(Nat) /\ Pending(g) \in SUBSET Nat
                       /\ lastMod[g] \in Nat /\ disk[g].n \in Nat
  BY <1>1 DEF Pending
<1>3. \A g \in Files :
          (\A q \in Runs : poller[q][g] # "send") => Pending(g) \subseteq {Deleted}
  BY DEF Pending, SendingOK
\* A step after which nothing new is in the channel or about to be sent.
<1>4. ASSUME UNCHANGED <<disk, lastMod, changes>>, NEW to \in {"select", "send", "exiting", "done"},
             poller' = [poller EXCEPT ![r][f] = to],
             \/ sending' = [sending EXCEPT ![r][f] = Deleted]
             \/ sending' = sending /\ sending[r][f] = Deleted
      PROVE  /\ SendingOK'
             /\ \A past \in SUBSET Nat, g \in Files :
                   Pipeline(past, changes[g], Pending(g), lastMod[g])
                   => Pipeline(past, changes'[g], Pending(g)', lastMod'[g])
  <2>1. \A q \in Runs, g \in Files : sending'[q][g] = sending[q][g] \/ sending'[q][g] = Deleted
    <3>1. CASE sending' = [sending EXCEPT ![r][f] = Deleted]
      BY <1>1, <3>1
    <3>2. CASE sending' = sending
      BY <3>2
    <3> QED  BY <1>4, <3>1, <3>2
  <2>2. \A q \in Runs, g \in Files : sending'[q][g] # Deleted => poller'[q][g] = "send"
    BY <1>1, <1>4 DEF SendingOK
  <2>3. \A g \in Files : Pending(g)' \in SUBSET (Pending(g) \cup {Deleted})
    BY <2>1 DEF Pending
  <2> QED  BY <1>2, <1>4, <2>2, <2>3, PipelineLater DEF SendingOK
<1>5. CASE TickModified(r, f)
  <2>1. /\ poller[r][f] = "select" /\ lastMod[f] < disk[f].n /\ disk' = disk
        /\ changes' = changes
        /\ lastMod'[f] = disk[f].n /\ \A g \in Files \ {f} : lastMod'[g] = lastMod[g]
        /\ sending'[r][f] = disk[f].n /\ poller'[r][f] = "send"
        /\ \A q \in Runs, g \in Files : <<q, g>> # <<r, f>> =>
              poller'[q][g] = poller[q][g] /\ sending'[q][g] = sending[q][g]
    BY <1>1, <1>2, <1>5 DEF TickModified
  <2>2. SendingOK'
    BY <1>2, <2>1 DEF SendingOK
  <2>3. ASSUME NEW past \in SUBSET Nat, Pipeline(past, changes[f], Pending(f), lastMod[f]),
               \A q \in Runs \ {r} : poller[q][f] # "send"
        PROVE  Pipeline(past, changes'[f], Pending(f)', lastMod'[f])
    <3>1. Pending(f) = {Deleted} /\ Pending(f)' \subseteq {Deleted, disk[f].n}
      BY <2>1, <2>3 DEF Pending, SendingOK
    <3>2. Pipeline(past, changes[f], {Deleted, disk[f].n}, disk[f].n)
      <4>1. /\ \A n \in past : n < disk[f].n
            /\ \A i \in 1..Len(changes[f]) : changes[f][i] < disk[f].n
        <5>1. \A i \in 1..Len(changes[f]) : changes[f][i] \in Nat
          BY <1>2
        <5> QED  BY <1>2, <2>1, <2>3, <5>1 DEF Pipeline
      <4>2. disk[f].n <= disk[f].n /\ lastMod[f] <= disk[f].n
        BY <1>2, <2>1
      <4> QED  BY <1>2, <2>1, <2>3, <3>1, <4>1, <4>2, PipelineNoticed
    <3>3. {Deleted, disk[f].n} \in SUBSET Nat /\ disk[f].n <= disk[f].n
      BY <1>2
    <3> QED  BY <1>2, <2>1, <3>1, <3>2, <3>3, PipelineLater
  <2>4. \A g \in Files \ {f} : Pending(g)' = Pending(g)
    BY <2>1 DEF Pending
  <2> QED  BY <2>1, <2>2, <2>3, <2>4
<1>6. CASE TickDeleted(r, f)
  BY <1>4, <1>6 DEF TickDeleted
<1>7. CASE Send(r, f) /\ ~Panic
  <2>1. /\ poller[r][f] = "send" /\ UNCHANGED <<disk, lastMod>>
        /\ changes'[f] = Append(changes[f], sending[r][f])
        /\ \A g \in Files \ {f} : changes'[g] = changes[g]
        /\ sending'[r][f] = Deleted
        /\ \A q \in Runs, g \in Files : <<q, g>> # <<r, f>> =>
              poller'[q][g] = poller[q][g] /\ sending'[q][g] = sending[q][g]
    BY <1>1, <1>7 DEF Send
  <2>2. SendingOK'
    BY <2>1 DEF SendingOK
  <2>3. ASSUME NEW past \in SUBSET Nat, Pipeline(past, changes[f], Pending(f), lastMod[f]),
               \A q \in Runs \ {r} : poller[q][f] # "send"
        PROVE  Pipeline(past, changes'[f], Pending(f)', lastMod'[f])
    <3>1. Pending(f)' = {Deleted} /\ sending[r][f] \in Pending(f)
      BY <2>1, <2>3 DEF Pending, SendingOK
    <3> QED  BY <1>2, <2>1, <2>3, <3>1, PipelineSent
  <2>4. \A g \in Files \ {f} : Pending(g)' = Pending(g) /\ changes'[g] = changes[g]
    BY <2>1 DEF Pending
  <2> HIDE DEF Deleted
  <2> QED  BY <2>1, <2>2, <2>3, <2>4, Zenon
<1>8. CASE SendGivesUp(r, f)
  BY <1>4, <1>8 DEF SendGivesUp
<1>9. CASE (Leave(r, f) \/ Left(r, f)) /\ ~Panic
  <2>1. sending[r][f] = Deleted /\ sending' = sending
    BY <1>9 DEF Leave, Left, SendingOK
  <2> QED  BY <1>4, <1>9, <2>1 DEF Leave, Left
<1>10. CASE Panic
  <2>1. \A g \in Files : Pending(g)' = Pending(g)
    BY <1>10 DEF Panic, Pending
  <2> QED  BY <1>10, <2>1 DEF Panic, SendingOK
<1> QED  BY <1>5, <1>6, <1>7, <1>8, <1>9, <1>10 DEF PollStep

=============================================================================
