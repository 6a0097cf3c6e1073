----------------------- MODULE ObserverManager_proofs -----------------------
(***************************************************************************)
(* Proofs about ObserverManager for all values of its constants.           *)
(***************************************************************************)
EXTENDS ObserverManager, FiniteSetTheorems, SequenceTheorems, TLAPS

USE ConstantsAssumption DEF mgrVars, subVars, callVars, history, Rangers

-----------------------------------------------------------------------------
(* Type correctness.  That m.wg never goes below zero needs to know what   *)
(* it counts.                                                              *)

\* A processor that starts is counted, one that ends is counted out, and the
\* others stay as they are.
LEMMA AliveFinite == IsFiniteSet(Alive) /\ Cardinality(Alive) \in Nat
  BY FS_Subset, FS_CardinalityType DEF Alive

LEMMA AliveStarts ==
  ASSUME NEW s \in Subs, s \notin Alive, Alive' = Alive \cup {s}
  PROVE  Cardinality(Alive') = Cardinality(Alive) + 1
  BY AliveFinite, FS_AddElement

LEMMA AliveEnds ==
  ASSUME NEW s \in Subs, s \in Alive, Alive' = Alive \ {s}
  PROVE  /\ Cardinality(Alive') = Cardinality(Alive) - 1
         /\ Cardinality(Alive) > 0
<1>1. Cardinality(Alive \ {s}) = Cardinality(Alive) - 1
  BY AliveFinite, FS_RemoveElement
<1>2. IsFiniteSet(Alive \ {s}) /\ Cardinality(Alive \ {s}) \in Nat
  BY AliveFinite, FS_RemoveElement, FS_CardinalityType
<1> QED  BY <1>1, <1>2, AliveFinite

CountedTypeOK == TypeOK /\ WaitGroupExact

LEMMA InitCounted == Init => CountedTypeOK
<1> SUFFICES ASSUME Init PROVE CountedTypeOK
  OBVIOUS
<1>1. TypeOK
  <2>1. /\ queue \in [Subs -> Seq(Event)] /\ delivered \in [Subs -> Seq(Event)]
        /\ wg \in Nat /\ count \in [Notifiers -> 0..MaxEvents]
    BY DEF Init
  <2> QED  BY <2>1 DEF Init, TypeOK
<1>2. Alive = {}
  BY DEF Init, Alive
<1> QED  BY <1>1, <1>2, FS_EmptySet DEF Init, CountedTypeOK, WaitGroupExact

\* The event a notifier is notifying.
LEMMA EventOfType ==
  ASSUME TypeOK, NEW n \in Notifiers, pc[n] # "idle"
  PROVE  EventOf(n) \in Event
  BY DEF TypeOK, EventOf, Event

LEMMA TypeSubscribe ==
  ASSUME CountedTypeOK, NEW s \in Subs,
         SubscribeCheck(s) \/ SubscribeStep(s) \/ Unsubscribe(s) \/ ParentCancel(s)
  PROVE  CountedTypeOK'
<1>1. CASE SubscribeCheck(s)
  <2>1. TypeOK'  BY <1>1 DEF CountedTypeOK, TypeOK, SubscribeCheck
  <2>2. Alive' = Alive  BY <1>1 DEF CountedTypeOK, TypeOK, SubscribeCheck, Alive
  <2> QED  BY <1>1, <2>1, <2>2 DEF CountedTypeOK, WaitGroupExact, SubscribeCheck
<1>2. CASE SubscribeStore(s)
  <2>1. TypeOK'  BY <1>2 DEF CountedTypeOK, TypeOK, SubscribeStore
  <2>2. Alive' = Alive  BY <1>2 DEF CountedTypeOK, TypeOK, SubscribeStore, Alive
  <2> QED  BY <1>2, <2>1, <2>2 DEF CountedTypeOK, WaitGroupExact, SubscribeStore
<1>3. CASE SubscribeStart(s)
  <2>1. TypeOK'  BY <1>3 DEF CountedTypeOK, TypeOK, SubscribeStart
  <2>2. s \notin Alive /\ Alive' = Alive \cup {s}
    BY <1>3 DEF CountedTypeOK, TypeOK, SubscribeStart, Alive
  <2> QED  BY <1>3, <2>1, <2>2, AliveStarts DEF CountedTypeOK, WaitGroupExact, SubscribeStart
<1>4. CASE Unsubscribe(s)
  <2>1. TypeOK'  BY <1>4 DEF CountedTypeOK, TypeOK, Unsubscribe
  <2>2. Alive' = Alive  BY <1>4 DEF Unsubscribe, Alive
  <2> QED  BY <1>4, <2>1, <2>2 DEF CountedTypeOK, WaitGroupExact, Unsubscribe
<1>5. CASE ParentCancel(s)
  <2>1. TypeOK'  BY <1>5 DEF CountedTypeOK, TypeOK, ParentCancel
  <2>2. Alive' = Alive  BY <1>5 DEF ParentCancel, Alive
  <2> QED  BY <1>5, <2>1, <2>2 DEF CountedTypeOK, WaitGroupExact, ParentCancel
<1> QED  BY <1>1, <1>2, <1>3, <1>4, <1>5 DEF SubscribeStep

LEMMA TypeProcess ==
  ASSUME CountedTypeOK, NEW s \in Subs, ProcessStep(s)
  PROVE  CountedTypeOK'
<1>1. CASE ProcessTake(s)
  <2>1. /\ Head(queue[s]) \in Event /\ Tail(queue[s]) \in Seq(Event)
        /\ Append(delivered[s], Head(queue[s])) \in Seq(Event)
    BY <1>1 DEF CountedTypeOK, TypeOK, ProcessTake
  <2>2. TypeOK'  BY <1>1, <2>1 DEF CountedTypeOK, TypeOK, ProcessTake
  <2>3. Alive' = Alive  BY <1>1 DEF CountedTypeOK, TypeOK, ProcessTake, Alive
  <2> QED  BY <1>1, <2>2, <2>3 DEF CountedTypeOK, WaitGroupExact, ProcessTake
<1>2. CASE ProcessObserved(s)
  <2>1. TypeOK'  BY <1>2 DEF CountedTypeOK, TypeOK, ProcessObserved
  <2>2. Alive' = Alive  BY <1>2 DEF CountedTypeOK, TypeOK, ProcessObserved, Alive
  <2> QED  BY <1>2, <2>1, <2>2 DEF CountedTypeOK, WaitGroupExact, ProcessObserved
<1>3. CASE ProcessClose(s)
  <2>1. TypeOK'  BY <1>3 DEF CountedTypeOK, TypeOK, ProcessClose
  <2>2. Alive' = Alive  BY <1>3 DEF CountedTypeOK, TypeOK, ProcessClose, Alive
  <2> QED  BY <1>3, <2>1, <2>2 DEF CountedTypeOK, WaitGroupExact, ProcessClose
<1>4. CASE ProcessDone(s)
  <2>1. s \in Alive /\ Alive' = Alive \ {s}
    BY <1>4 DEF CountedTypeOK, TypeOK, ProcessDone, Alive
  <2>2. Cardinality(Alive') = Cardinality(Alive) - 1 /\ Cardinality(Alive) > 0
    BY <2>1, AliveEnds
  <2>3. WaitGroupExact' /\ wg' \in Nat
    BY <1>4, <2>2, AliveFinite DEF CountedTypeOK, WaitGroupExact, ProcessDone
  <2>4. TypeOK'  BY <1>4, <2>3 DEF CountedTypeOK, TypeOK, ProcessDone
  <2> QED  BY <2>3, <2>4 DEF CountedTypeOK
<1> QED  BY <1>1, <1>2, <1>3, <1>4 DEF ProcessStep, ProcessSelect

LEMMA TypeNotify ==
  ASSUME CountedTypeOK, NEW n \in Notifiers, NotifyCheck(n) \/ NotifyStep(n)
  PROVE  CountedTypeOK'
<1>1. Alive' = Alive /\ wg' = wg
  BY DEF NotifyCheck, NotifyStep, NotifyRange, NotifySkip, NotifyVisit, NotifyQueue,
         NotifyDrop, NotifyPanic, NotifySend, NotifyReturn, Alive
<1>2. WaitGroupExact'
  BY <1>1 DEF CountedTypeOK, WaitGroupExact
<1>3. TypeOK'
  <2>1. CASE NotifyCheck(n)
    BY <2>1 DEF CountedTypeOK, TypeOK, NotifyCheck
  <2>2. CASE NotifyRange(n)
    BY <2>2 DEF CountedTypeOK, TypeOK, NotifyRange, RangeBegin
  <2>3. ASSUME NEW s \in Subs, NotifySkip(n, s) PROVE TypeOK'
    BY <2>3 DEF CountedTypeOK, TypeOK, NotifySkip, RangeVisit
  <2>4. ASSUME NEW s \in Subs, NotifyVisit(n, s) PROVE TypeOK'
    BY <2>4 DEF CountedTypeOK, TypeOK, NotifyVisit, RangeVisit
  <2>5. CASE NotifyQueue(n)
    <3>1. EventOf(n) \in Event /\ cur[n] \in Subs
      BY <2>5, EventOfType DEF CountedTypeOK, TypeOK, NotifyQueue, NotifySend
    <3>2. Append(queue[cur[n]], EventOf(n)) \in Seq(Event)
      BY <3>1 DEF CountedTypeOK, TypeOK
    <3> QED  BY <2>5, <3>1, <3>2 DEF CountedTypeOK, TypeOK, NotifyQueue, NotifySend
  <2>6. CASE NotifyDrop(n)
    <3>1. EventOf(n) \in Event /\ cur[n] \in Subs
      BY <2>6, EventOfType DEF CountedTypeOK, TypeOK, NotifyDrop, NotifySend
    <3> QED  BY <2>6, <3>1 DEF CountedTypeOK, TypeOK, NotifyDrop, NotifySend
  <2>7. CASE NotifyPanic(n)
    BY <2>7 DEF CountedTypeOK, TypeOK, NotifyPanic, NotifySend
  <2>8. CASE NotifyReturn(n)
    <3>1. EventOf(n) \in Event
      BY <2>8, EventOfType DEF CountedTypeOK, NotifyReturn
    <3>2. {EventOf(n)} \X audience[n] \subseteq Event \X Subs
      BY <3>1 DEF CountedTypeOK, TypeOK
    <3> QED  BY <2>8, <3>2 DEF CountedTypeOK, TypeOK, NotifyReturn, RangeEnd
  <2> QED  BY <2>1, <2>2, <2>3, <2>4, <2>5, <2>6, <2>7, <2>8 DEF NotifyStep
<1> QED  BY <1>2, <1>3 DEF CountedTypeOK

LEMMA TypeClose ==
  ASSUME CountedTypeOK,
         (\E c \in Closers : CloseSwap(c) \/ CloseStep(c)) \/ WaiterDone
  PROVE  CountedTypeOK'
<1>1. Alive' = Alive /\ wg' = wg
  BY DEF CloseSwap, CloseStep, CloseRange, CloseVisit, CloseWait, CloseReturnNil,
         CloseReturnErr, WaiterDone, Alive
<1>2. WaitGroupExact'
  BY <1>1 DEF CountedTypeOK, WaitGroupExact
<1>3. TypeOK'
  <2>1. ASSUME NEW c \in Closers, CloseSwap(c) PROVE TypeOK'
    BY <2>1 DEF CountedTypeOK, TypeOK, CloseSwap
  <2>2. ASSUME NEW c \in Closers, CloseRange(c) PROVE TypeOK'
    BY <2>2 DEF CountedTypeOK, TypeOK, CloseRange, RangeBegin
  <2>3. ASSUME NEW c \in Closers, NEW s \in Subs, CloseVisit(c, s) PROVE TypeOK'
    BY <2>3 DEF CountedTypeOK, TypeOK, CloseVisit, RangeVisit
  <2>4. ASSUME NEW c \in Closers, CloseWait(c) PROVE TypeOK'
    BY <2>4 DEF CountedTypeOK, TypeOK, CloseWait, RangeEnd
  <2>5. ASSUME NEW c \in Closers, CloseReturnNil(c) \/ CloseReturnErr(c) PROVE TypeOK'
    BY <2>5 DEF CountedTypeOK, TypeOK, CloseReturnNil, CloseReturnErr
  <2>6. CASE WaiterDone
    BY <2>6 DEF CountedTypeOK, TypeOK, WaiterDone
  <2> QED  BY <2>1, <2>2, <2>3, <2>4, <2>5, <2>6 DEF CloseStep
<1> QED  BY <1>2, <1>3 DEF CountedTypeOK

LEMMA NextCounted == CountedTypeOK /\ [Next]_vars => CountedTypeOK'
<1> SUFFICES ASSUME CountedTypeOK, [Next]_vars PROVE CountedTypeOK'
  OBVIOUS
<1>1. CASE UNCHANGED vars
  BY <1>1 DEF vars, CountedTypeOK, TypeOK, WaitGroupExact, Alive
<1> QED  BY <1>1, TypeSubscribe, TypeProcess, TypeNotify, TypeClose DEF Next

\* Every variable keeps its type; in particular m.wg never goes below zero,
\* where sync.WaitGroup panics (observer.go:69, 116).
THEOREM TypeCorrect == Spec => []TypeOK
<1>1. Spec => []CountedTypeOK
  BY InitCounted, NextCounted, PTL DEF Spec
<1>2. CountedTypeOK => TypeOK
  BY DEF CountedTypeOK
<1> QED  BY <1>1, <1>2, PTL

\* m.wg counts exactly the processors that have not finished.
THEOREM WaitGroupCorrect == Spec => []WaitGroupExact
<1>1. Spec => []CountedTypeOK
  BY InitCounted, NextCounted, PTL DEF Spec
<1>2. CountedTypeOK => WaitGroupExact
  BY DEF CountedTypeOK
<1> QED  BY <1>1, <1>2, PTL

-----------------------------------------------------------------------------
(* The queue's capacity.                                                   *)

LEMMA NextBounded == TypeOK /\ QueueBounded /\ [Next]_vars => QueueBounded'
<1> SUFFICES ASSUME TypeOK, QueueBounded, [Next]_vars PROVE QueueBounded'
  OBVIOUS
<1>1. ASSUME NEW s \in Subs, ProcessTake(s) PROVE QueueBounded'
  <2>1. queue[s] \in Seq(Event) /\ queue[s] # <<>> /\ queue' = [queue EXCEPT ![s] = Tail(@)]
    BY <1>1 DEF TypeOK, ProcessTake
  <2>2. Len(Tail(queue[s])) = Len(queue[s]) - 1
    BY <2>1
  <2>3. queue \in [Subs -> Seq(Event)] /\ Len(queue[s]) \in Nat
    BY <2>1 DEF TypeOK
  <2> QED  BY <2>1, <2>2, <2>3 DEF QueueBounded
<1>2. ASSUME NEW n \in Notifiers, NotifyQueue(n) PROVE QueueBounded'
  <2> DEFINE s == cur[n]
  <2>1. /\ s \in Subs /\ queue[s] \in Seq(Event) /\ EventOf(n) \in Event
        /\ Len(queue[s]) < QueueSize
        /\ queue' = [queue EXCEPT ![s] = Append(@, EventOf(n))]
    BY <1>2, EventOfType DEF TypeOK, NotifyQueue, NotifySend, Full
  <2>2. Len(Append(queue[s], EventOf(n))) = Len(queue[s]) + 1
    BY <2>1
  <2>3. queue \in [Subs -> Seq(Event)] /\ Len(queue[s]) \in Nat
    BY <2>1 DEF TypeOK
  <2> HIDE DEF s
  <2> QED  BY <2>1, <2>2, <2>3 DEF QueueBounded
<1>3. ASSUME UNCHANGED queue PROVE QueueBounded'
  BY <1>3 DEF QueueBounded
<1>4. CASE UNCHANGED vars
  BY <1>4, <1>3 DEF vars
<1>5. ASSUME NEW s \in Subs,
             \/ SubscribeCheck(s) \/ SubscribeStep(s) \/ Unsubscribe(s) \/ ParentCancel(s)
             \/ ProcessObserved(s) \/ ProcessClose(s) \/ ProcessDone(s)
      PROVE  UNCHANGED queue
  BY <1>5 DEF SubscribeCheck, SubscribeStep, SubscribeStore, SubscribeStart, Unsubscribe,
              ParentCancel, ProcessObserved, ProcessClose, ProcessDone
<1>6. ASSUME NEW n \in Notifiers, NotifyCheck(n) \/ NotifyStep(n), ~NotifyQueue(n)
      PROVE  UNCHANGED queue
  BY <1>6 DEF NotifyCheck, NotifyStep, NotifyRange, NotifySkip, NotifyVisit, NotifyDrop,
              NotifyPanic, NotifyReturn
<1>7. ASSUME (\E c \in Closers : CloseSwap(c) \/ CloseStep(c)) \/ WaiterDone
      PROVE  UNCHANGED queue
  BY <1>7 DEF CloseSwap, CloseStep, CloseRange, CloseVisit, CloseWait, CloseReturnNil,
              CloseReturnErr, WaiterDone
<1> QED  BY <1>1, <1>2, <1>3, <1>4, <1>5, <1>6, <1>7 DEF Next, ProcessStep, ProcessSelect

\* No queue ever holds more than its capacity: the send never blocks.
THEOREM QueueStaysBounded == Spec => []QueueBounded
<1>1. Init => QueueBounded
  BY DEF Init, QueueBounded
<1> QED  BY <1>1, TypeCorrect, NextBounded, PTL DEF Spec

-----------------------------------------------------------------------------
(* What survives a successful Close.                                       *)

\* Once the flag is set no Subscribe passes the check any more, so the ones
\* that have still to start their processor are those of the moment Close
\* swapped the flag; and when the waiter saw m.wg at zero, nobody was alive.
LeakInv ==
    /\ \A c \in Closers : pc[c] # "idle" => closed
    /\ waiter # "off" => closed
    /\ closed => {s \in Subs : proc[s] \in {"checked", "stored"}} \subseteq racing
    /\ LeakOnlyFromRace

LEMMA NextLeak == CountedTypeOK /\ LeakInv /\ [Next]_vars => LeakInv'
<1> SUFFICES ASSUME CountedTypeOK, LeakInv, [Next]_vars PROVE LeakInv'
  OBVIOUS
<1> USE DEF LeakInv, LeakOnlyFromRace, Alive
<1>1. CASE UNCHANGED vars
  BY <1>1 DEF vars
<1>2. ASSUME NEW s \in Subs, SubscribeCheck(s) \/ SubscribeStep(s) PROVE LeakInv'
  BY <1>2 DEF CountedTypeOK, TypeOK, SubscribeCheck, SubscribeStep, SubscribeStore, SubscribeStart
<1>3. ASSUME NEW s \in Subs, Unsubscribe(s) \/ ParentCancel(s) PROVE LeakInv'
  BY <1>3 DEF Unsubscribe, ParentCancel
<1>4. ASSUME NEW s \in Subs, ProcessStep(s) PROVE LeakInv'
  BY <1>4 DEF CountedTypeOK, TypeOK, ProcessStep, ProcessSelect, ProcessTake, ProcessObserved,
              ProcessClose, ProcessDone
<1>5. ASSUME NEW n \in Notifiers, NotifyCheck(n) \/ NotifyStep(n) PROVE LeakInv'
  <2>1. \A c \in Closers : pc'[c] = pc[c]
    BY <1>5 DEF CountedTypeOK, TypeOK, NotifyCheck, NotifyStep, NotifyRange, NotifySkip,
                NotifyVisit, NotifyQueue, NotifyDrop, NotifyPanic, NotifySend, NotifyReturn
  <2>2. UNCHANGED <<closed, waiter, proc, racing>>
    BY <1>5 DEF NotifyCheck, NotifyStep, NotifyRange, NotifySkip, NotifyVisit, NotifyQueue,
                NotifyDrop, NotifyPanic, NotifySend, NotifyReturn
  <2> QED  BY <2>1, <2>2
<1>6. ASSUME NEW c \in Closers, CloseSwap(c) PROVE LeakInv'
  BY <1>6 DEF CountedTypeOK, TypeOK, CloseSwap
<1>7. ASSUME NEW c \in Closers, CloseStep(c) PROVE LeakInv'
  BY <1>7 DEF CountedTypeOK, TypeOK, CloseStep, CloseRange, CloseVisit, CloseWait,
              CloseReturnNil, CloseReturnErr
<1>8. CASE WaiterDone
  <2>1. Cardinality(Alive) = 0
    BY <1>8 DEF CountedTypeOK, WaitGroupExact, WaiterDone
  <2>2. Alive = {}
    BY <2>1, AliveFinite, FS_EmptySet
  <2> QED  BY <1>8, <2>2 DEF WaiterDone
<1> QED  BY <1>1, <1>2, <1>3, <1>4, <1>5, <1>6, <1>7, <1>8 DEF Next

\* A processor that runs after a successful Close belongs to a Subscribe that
\* raced with it, whatever the number of subscriptions, writers and Closes.
THEOREM LeaksComeFromRaces == Spec => []LeakOnlyFromRace
<1>1. Init => LeakInv
  BY DEF Init, LeakInv, LeakOnlyFromRace
<1>2. Spec => []CountedTypeOK
  BY InitCounted, NextCounted, PTL DEF Spec
<1>3. LeakInv => LeakOnlyFromRace
  BY DEF LeakInv
<1> QED  BY <1>1, <1>2, <1>3, NextLeak, PTL DEF Spec

-----------------------------------------------------------------------------
(* Order.                                                                  *)

Got(s) == delivered[s] \o queue[s]

\* Handing an event over does not change what a subscription has got.
LEMMA MoveHead ==
  ASSUME NEW S, NEW d \in Seq(S), NEW q \in Seq(S), q # <<>>
  PROVE  Append(d, Head(q)) \o Tail(q) = d \o q
<1> DEFINE l == Append(d, Head(q)) \o Tail(q)
           r == d \o q
<1>1. /\ Head(q) \in S /\ Tail(q) \in Seq(S) /\ Len(Tail(q)) = Len(q) - 1
      /\ Head(q) = q[1]
      /\ \A i \in 1..Len(Tail(q)) : Tail(q)[i] = q[i + 1]
  BY HeadTailProperties
<1>2. /\ Append(d, Head(q)) \in Seq(S) /\ Len(Append(d, Head(q))) = Len(d) + 1
      /\ Append(d, Head(q))[Len(d) + 1] = Head(q)
      /\ \A i \in 1..Len(d) : Append(d, Head(q))[i] = d[i]
  BY <1>1
<1>3. Len(d) \in Nat /\ Len(q) \in Nat /\ Len(q) > 0
  BY EmptySeq
<1>4. /\ r \in Seq(S) /\ Len(r) = Len(d) + Len(q)
      /\ \A i \in 1..(Len(d) + Len(q)) :
           r[i] = IF i <= Len(d) THEN d[i] ELSE q[i - Len(d)]
  BY ConcatProperties
<1>5. /\ l \in Seq(S) /\ Len(l) = Len(d) + Len(q)
      /\ \A i \in 1..(Len(d) + Len(q)) :
           l[i] = IF i <= Len(d) + 1 THEN Append(d, Head(q))[i] ELSE Tail(q)[i - (Len(d) + 1)]
  BY <1>1, <1>2, <1>3, ConcatProperties
<1> HIDE DEF l, r
<1>6. ASSUME NEW i \in 1..(Len(d) + Len(q)) PROVE l[i] = r[i]
  <2>1. CASE i <= Len(d)
    <3>1. i \in 1..Len(d) /\ i <= Len(d) + 1  BY <2>1, <1>3
    <3>2. l[i] = Append(d, Head(q))[i]  BY <3>1, <1>5
    <3>3. r[i] = d[i]  BY <3>1, <1>4
    <3> QED  BY <3>1, <3>2, <3>3, <1>2
  <2>2. CASE i = Len(d) + 1
    <3>1. l[i] = q[1]  BY <2>2, <1>1, <1>2, <1>3, <1>5
    <3>2. r[i] = q[i - Len(d)]  BY <2>2, <1>3, <1>4
    <3>3. i - Len(d) = 1  BY <2>2, <1>3
    <3> QED  BY <3>1, <3>2, <3>3
  <2>3. CASE i > Len(d) + 1
    <3>1. i - (Len(d) + 1) \in 1..Len(Tail(q)) /\ (i - (Len(d) + 1)) + 1 = i - Len(d)
      BY <2>3, <1>1, <1>3
    <3>2. Tail(q)[i - (Len(d) + 1)] = q[i - Len(d)]
      BY <3>1, <1>1
    <3> QED  BY <2>3, <3>2, <1>3, <1>4, <1>5
  <2> QED  BY <2>1, <2>2, <2>3, <1>3
<1>7. l = r
  BY <1>4, <1>5, <1>6, SeqEqual
<1> QED  BY <1>7 DEF l, r

\* An event that is queued comes after all those got before.
LEMMA QueueLast ==
  ASSUME NEW S, NEW d \in Seq(S), NEW q \in Seq(S), NEW e \in S,
         NEW before, before = d \o q, NEW after, after = d \o Append(q, e)
  PROVE  /\ Len(after) = Len(before) + 1
         /\ after[Len(before) + 1] = e
         /\ \A i \in 1..Len(before) : after[i] = before[i]
<1>1. after = (d \o q) \o <<e>>
  BY AppendIsConcat, ConcatAssociative
<1>2. before \in Seq(S) /\ Len(before) \in Nat
  BY ConcatProperties
<1>3. after = Append(before, e)
  BY <1>1, <1>2, AppendIsConcat
<1> QED  BY <1>2, <1>3

\* n has still to send its current event to s.
Unsent(n, s) ==
    pc[n] = "checked" \/ s \in todo[n] \cup may[n] \/ (pc[n] = "send" /\ cur[n] = s)

New(s) == proc[s] \in {"none", "checked", "rejected"}

\* What every Range and every subscription is about, besides their types.
RangeInv ==
    /\ \A n \in Notifiers : pc[n] \in {"idle", "checked"} => todo[n] = {} /\ may[n] = {}
    /\ \A n \in Notifiers : \A s \in todo[n] \cup may[n] : ~New(s)
    /\ \A n \in Notifiers : pc[n] = "send" => cur[n] \notin todo[n] \cup may[n] /\ ~New(cur[n])
    /\ \A s \in subscribers : ~New(s)
    /\ \A s \in Subs : New(s) => delivered[s] = <<>> /\ queue[s] = <<>> /\ ~active[s]

\* The events a subscription has got from n are older than the one n has
\* still to send to it.
OrderInv ==
    /\ \A s \in Subs : \A i \in 1..Len(Got(s)) : \A n \in Notifiers :
          Got(s)[i].by = n => /\ Got(s)[i].k <= count[n]
                              /\ Unsent(n, s) => Got(s)[i].k < count[n]
    /\ \A s \in Subs : \A i, j \in 1..Len(Got(s)) :
          (i < j /\ Got(s)[i].by = Got(s)[j].by) => Got(s)[i].k < Got(s)[j].k

LEMMA GotType ==
  ASSUME TypeOK, NEW s \in Subs
  PROVE  /\ Got(s) \in Seq(Event) /\ Len(Got(s)) \in Nat
         /\ \A i \in 1..Len(Got(s)) : Got(s)[i] \in Event
<1>1. Got(s) \in Seq(Event)
  BY ConcatProperties DEF TypeOK, Got
<1> QED  BY <1>1

LEMMA InitRange == Init => RangeInv /\ OrderInv
<1> SUFFICES ASSUME Init PROVE RangeInv /\ OrderInv
  OBVIOUS
<1>1. \A s \in Subs : Got(s) = <<>>
  BY ConcatEmptySeq, EmptySeq DEF Init, Got
<1>2. OrderInv
  BY <1>1 DEF OrderInv
<1>3. RangeInv
  BY DEF Init, RangeInv, New
<1> QED  BY <1>2, <1>3

LEMMA NextRange == TypeOK /\ RangeInv /\ [Next]_vars => RangeInv'
<1> SUFFICES ASSUME TypeOK, RangeInv, [Next]_vars PROVE RangeInv'
  OBVIOUS
<1> USE DEF RangeInv, New
<1>1. CASE UNCHANGED vars
  BY <1>1 DEF vars
<1>2. ASSUME NEW s \in Subs, SubscribeCheck(s) PROVE RangeInv'
  BY <1>2 DEF TypeOK, SubscribeCheck
<1>3. ASSUME NEW s \in Subs, SubscribeStore(s) PROVE RangeInv'
  BY <1>3 DEF TypeOK, SubscribeStore
<1>4. ASSUME NEW s \in Subs, SubscribeStart(s) PROVE RangeInv'
  BY <1>4 DEF TypeOK, SubscribeStart
<1>5. ASSUME NEW s \in Subs, Unsubscribe(s) PROVE RangeInv'
  BY <1>5 DEF TypeOK, Unsubscribe
<1>6. ASSUME NEW s \in Subs, ParentCancel(s) PROVE RangeInv'
  BY <1>6 DEF ParentCancel
<1>7. ASSUME NEW s \in Subs, ProcessStep(s) PROVE RangeInv'
  <2>1. CASE ProcessTake(s)
    BY <2>1 DEF TypeOK, ProcessTake
  <2>2. CASE ProcessObserved(s)
    BY <2>2 DEF TypeOK, ProcessObserved
  <2>3. CASE ProcessClose(s)
    BY <2>3 DEF TypeOK, ProcessClose
  <2>4. CASE ProcessDone(s)
    BY <2>4 DEF TypeOK, ProcessDone
  <2> QED  BY <1>7, <2>1, <2>2, <2>3, <2>4 DEF ProcessStep, ProcessSelect
<1>8. ASSUME NEW n \in Notifiers, NotifyCheck(n) \/ NotifyRange(n) \/ NotifyReturn(n) PROVE RangeInv'
  <2>1. CASE NotifyCheck(n)
    BY <2>1 DEF TypeOK, NotifyCheck
  <2>2. CASE NotifyRange(n)
    BY <2>2 DEF TypeOK, NotifyRange, RangeBegin
  <2>3. CASE NotifyReturn(n)
    BY <2>3 DEF TypeOK, NotifyReturn, RangeEnd
  <2> QED  BY <1>8, <2>1, <2>2, <2>3
<1>9. ASSUME NEW n \in Notifiers, NEW s \in Subs, NotifySkip(n, s) PROVE RangeInv'
  BY <1>9 DEF TypeOK, NotifySkip, RangeVisit
<1>10. ASSUME NEW n \in Notifiers, NEW s \in Subs, NotifyVisit(n, s) PROVE RangeInv'
  BY <1>10 DEF TypeOK, NotifyVisit, RangeVisit
<1>11. ASSUME NEW n \in Notifiers, NotifyQueue(n) \/ NotifyDrop(n) \/ NotifyPanic(n) PROVE RangeInv'
  <2>1. CASE NotifyQueue(n)
    BY <2>1 DEF TypeOK, NotifyQueue, NotifySend
  <2>2. CASE NotifyDrop(n)
    BY <2>2 DEF TypeOK, NotifyDrop, NotifySend
  <2>3. CASE NotifyPanic(n)
    BY <2>3 DEF TypeOK, NotifyPanic, NotifySend
  <2> QED  BY <1>11, <2>1, <2>2, <2>3
<1>12. ASSUME NEW c \in Closers, CloseSwap(c) \/ CloseStep(c) PROVE RangeInv'
  <2>1. \A n \in Notifiers : pc'[n] = pc[n] /\ todo'[n] = todo[n] /\ may'[n] = may[n]
    BY <1>12 DEF TypeOK, CloseSwap, CloseStep, CloseRange, CloseVisit, CloseWait, CloseReturnNil,
                 CloseReturnErr, RangeBegin, RangeVisit, RangeEnd
  <2>2. /\ UNCHANGED <<cur, proc, subscribers, delivered, queue>>
        /\ \A s \in Subs : active'[s] => active[s]
    BY <1>12 DEF TypeOK, CloseSwap, CloseStep, CloseRange, CloseVisit, CloseWait, CloseReturnNil,
                 CloseReturnErr
  <2> QED  BY <2>1, <2>2
<1>13. CASE WaiterDone
  BY <1>13 DEF WaiterDone
<1> QED
  BY <1>1, <1>2, <1>3, <1>4, <1>5, <1>6, <1>7, <1>8, <1>9, <1>10, <1>11, <1>12, <1>13
     DEF Next, SubscribeStep, NotifyStep

\* Steps that send nothing and begin no event keep what is known of the order,
\* if they make nobody unsent.
LEMMA OrderKept ==
  ASSUME TypeOK, OrderInv, TypeOK', count' = count,
         \A s \in Subs : Got(s)' = Got(s),
         \A s \in Subs, n \in Notifiers :
             Unsent(n, s)' => Unsent(n, s) \/ Got(s) = <<>>
  PROVE  OrderInv'
<1>1. ASSUME NEW s \in Subs, NEW i \in 1..Len(Got(s)'), NEW n \in Notifiers,
             (Got(s)')[i].by = n
      PROVE  (Got(s)')[i].k <= count'[n] /\ (Unsent(n, s)' => (Got(s)')[i].k < count'[n])
  <2>1. Got(s)' = Got(s) /\ i \in 1..Len(Got(s)) /\ Got(s) # <<>>
    BY <1>1
  <2>2. Got(s)[i].k <= count[n] /\ (Unsent(n, s) => Got(s)[i].k < count[n])
    BY <1>1, <2>1 DEF OrderInv
  <2> QED  BY <2>1, <2>2
<1>2. \A s \in Subs : \A i, j \in 1..Len(Got(s)') :
         (i < j /\ (Got(s)')[i].by = (Got(s)')[j].by) => (Got(s)')[i].k < (Got(s)')[j].k
  BY DEF OrderInv
<1> QED  BY <1>1, <1>2 DEF OrderInv

LEMMA OrderQueue ==
  ASSUME TypeOK, RangeInv, OrderInv, TypeOK', NEW n \in Notifiers, NotifyQueue(n),
         NEW s \in Subs, s = cur[n]
  PROVE  OrderInv'
<1> DEFINE g == Got(s)
           e == EventOf(n)
<1>1. /\ s \in Subs /\ e \in Event /\ pc[n] = "send" /\ e.by = n /\ e.k = count[n]
      /\ queue[s] \in Seq(Event) /\ delivered[s] \in Seq(Event)
      /\ queue' = [queue EXCEPT ![s] = Append(@, e)] /\ delivered' = delivered
      /\ s \notin todo[n] \cup may[n]
      /\ UNCHANGED <<count, todo, may>>
      /\ pc' = [pc EXCEPT ![n] = "range"] /\ cur' = [cur EXCEPT ![n] = None]
  BY EventOfType DEF TypeOK, NotifyQueue, NotifySend, RangeInv, EventOf
<1>2. /\ Len(Got(s)') = Len(g) + 1 /\ (Got(s)')[Len(g) + 1] = e
      /\ \A i \in 1..Len(g) : (Got(s)')[i] = g[i]
      /\ Len(g) \in Nat
  <2> DEFINE d == delivered[s]
             q == queue[s]
             a == Got(s)'
  <2>1. g = d \o q /\ a = d \o Append(q, e)
    BY <1>1 DEF TypeOK, Got
  <2>2. Len(g) \in Nat
    BY GotType
  <2>3. d \in Seq(Event) /\ q \in Seq(Event) /\ e \in Event
    BY <1>1
  <2>4. Len(a) = Len(g) + 1 /\ a[Len(g) + 1] = e /\ \A i \in 1..Len(g) : a[i] = g[i]
    <3> HIDE DEF g, e, d, q, a
    <3> QED  BY <2>1, <2>3, QueueLast
  <2> QED  BY <2>2, <2>4
<1>3. \A t \in Subs \ {s} : Got(t)' = Got(t)
  BY <1>1 DEF TypeOK, Got
<1>4. \A m \in Notifiers, t \in Subs : Unsent(m, t)' => Unsent(m, t)
  BY <1>1 DEF TypeOK, Unsent, Rangers
<1>5. ~Unsent(n, s)'
  BY <1>1 DEF TypeOK, Unsent, Rangers
<1>6. Unsent(n, s)
  BY <1>1 DEF Unsent
<1>7. \A i \in 1..Len(g) : g[i].k \in Nat
  BY <1>1, GotType DEF Event
<1>8. \A i \in 1..Len(g) : g[i].by = n => g[i].k < count[n]
  BY <1>1, <1>6 DEF OrderInv
<1>9. ASSUME NEW t \in Subs, NEW i \in 1..Len(Got(t)'), NEW m \in Notifiers,
             (Got(t)')[i].by = m
      PROVE  (Got(t)')[i].k <= count'[m] /\ (Unsent(m, t)' => (Got(t)')[i].k < count'[m])
  <2>1. CASE t # s
    <3>1. Got(t)' = Got(t) /\ i \in 1..Len(Got(t))
      BY <2>1, <1>3, <1>9
    <3>2. Got(t)[i].k <= count[m] /\ (Unsent(m, t) => Got(t)[i].k < count[m])
      BY <1>9, <3>1 DEF OrderInv
    <3> QED  BY <3>1, <3>2, <1>1, <1>4
  <2>2. CASE t = s /\ i \in 1..Len(g)
    <3>1. (Got(t)')[i] = g[i]
      BY <2>2, <1>2
    <3>2. g[i].k <= count[m] /\ (Unsent(m, s) => g[i].k < count[m])
      BY <2>2, <1>1, <1>9, <3>1 DEF OrderInv
    <3> QED  BY <2>2, <3>1, <3>2, <1>1, <1>4
  <2>3. CASE t = s /\ i = Len(g) + 1
    <3>1. (Got(t)')[i] = e /\ count[n] \in Nat
      BY <2>3, <1>2 DEF TypeOK
    <3> QED  BY <2>3, <3>1, <1>1, <1>5, <1>9
  <2> QED  BY <2>1, <2>2, <2>3, <1>2
<1>10. ASSUME NEW t \in Subs, NEW i \in 1..Len(Got(t)'), NEW j \in 1..Len(Got(t)'),
              i < j, (Got(t)')[i].by = (Got(t)')[j].by
       PROVE  (Got(t)')[i].k < (Got(t)')[j].k
  <2>1. CASE t # s
    BY <2>1, <1>3, <1>10 DEF OrderInv
  <2>2. CASE t = s /\ j \in 1..Len(g)
    <3>1. i \in 1..Len(g)
      BY <2>2, <1>2, <1>10
    <3> QED  BY <2>2, <3>1, <1>1, <1>2, <1>10 DEF OrderInv
  <2>3. CASE t = s /\ j = Len(g) + 1
    <3>1. i \in 1..Len(g)
      BY <2>3, <1>2, <1>10
    <3>2. (Got(t)')[j] = e /\ (Got(t)')[i] = g[i]
      BY <2>3, <3>1, <1>2
    <3> QED  BY <3>1, <3>2, <1>1, <1>6, <1>8, <1>10
  <2> QED  BY <2>1, <2>2, <2>3, <1>2
<1> QED  BY <1>9, <1>10 DEF OrderInv

LEMMA NextOrder == TypeOK /\ RangeInv /\ OrderInv /\ TypeOK' /\ [Next]_vars => OrderInv'
<1> SUFFICES ASSUME TypeOK, RangeInv, OrderInv, TypeOK', [Next]_vars PROVE OrderInv'
  OBVIOUS
<1>1. CASE UNCHANGED vars
  BY <1>1, OrderKept DEF vars, Got, Unsent
<1>2. ASSUME NEW s \in Subs, SubscribeCheck(s) \/ SubscribeStart(s) \/ ParentCancel(s)
                             \/ ProcessObserved(s) \/ ProcessClose(s) \/ ProcessDone(s)
      PROVE  OrderInv'
  BY <1>2, OrderKept DEF SubscribeCheck, SubscribeStart, ParentCancel, ProcessObserved,
                         ProcessClose, ProcessDone, Got, Unsent
<1>3. ASSUME NEW s \in Subs, SubscribeStore(s) PROVE OrderInv'
  <2>1. /\ UNCHANGED <<count, pc, cur, todo, delivered, queue>>
        /\ \A n \in Notifiers : may'[n] \subseteq may[n] \cup {s}
        /\ proc[s] = "checked"
    BY <1>3 DEF SubscribeStore, TypeOK
  <2>2. delivered[s] = <<>> /\ queue[s] = <<>>
    BY <2>1 DEF RangeInv, New
  <2>3. Got(s) = <<>>
    BY <2>2, ConcatEmptySeq, EmptySeq DEF Got
  <2>4. \A t \in Subs : Got(t)' = Got(t)
    BY <2>1 DEF Got
  <2>5. \A t \in Subs, n \in Notifiers : Unsent(n, t)' => Unsent(n, t) \/ Got(t) = <<>>
    BY <2>1, <2>3 DEF Unsent
  <2> QED  BY <2>1, <2>4, <2>5, OrderKept
<1>4. ASSUME NEW s \in Subs, Unsubscribe(s) PROVE OrderInv'
  BY <1>4, OrderKept DEF Unsubscribe, Got, Unsent
<1>5. ASSUME NEW s \in Subs, ProcessTake(s) PROVE OrderInv'
  <2>1. \A t \in Subs : Got(t)' = Got(t)
    <3>1. /\ delivered \in [Subs -> Seq(Event)] /\ queue \in [Subs -> Seq(Event)]
          /\ delivered' = [delivered EXCEPT ![s] = Append(@, Head(queue[s]))]
          /\ queue' = [queue EXCEPT ![s] = Tail(@)] /\ queue[s] # <<>>
      BY <1>5 DEF TypeOK, ProcessTake
    <3>2. Append(delivered[s], Head(queue[s])) \o Tail(queue[s]) = delivered[s] \o queue[s]
      BY <3>1, MoveHead
    <3> QED  BY <3>1, <3>2 DEF Got
  <2> QED  BY <1>5, <2>1, OrderKept DEF ProcessTake, Unsent
<1>6. ASSUME NEW n \in Notifiers, NotifyCheck(n) PROVE OrderInv'
  <2>1. /\ count' = [count EXCEPT ![n] = @ + 1] /\ count \in [Notifiers -> Nat]
        /\ \A m \in Notifiers, t \in Subs : m # n /\ Unsent(m, t)' => Unsent(m, t)
        /\ \A t \in Subs : Got(t)' = Got(t)
    BY <1>6 DEF NotifyCheck, TypeOK, Unsent, Got, Rangers
  <2>2. ASSUME NEW s \in Subs, NEW i \in 1..Len(Got(s)'), NEW m \in Notifiers,
               (Got(s)')[i].by = m
        PROVE  (Got(s)')[i].k <= count'[m] /\ (Unsent(m, s)' => (Got(s)')[i].k < count'[m])
    <3>1. Got(s)' = Got(s) /\ i \in 1..Len(Got(s)) /\ Got(s)[i].k \in Nat
      BY <2>1, <2>2, GotType DEF Event
    <3>2. Got(s)[i].k <= count[m] /\ (Unsent(m, s) => Got(s)[i].k < count[m])
      BY <2>2, <3>1 DEF OrderInv
    <3> QED  BY <2>1, <3>1, <3>2
  <2>3. \A s \in Subs : \A i, j \in 1..Len(Got(s)') :
           (i < j /\ (Got(s)')[i].by = (Got(s)')[j].by) => (Got(s)')[i].k < (Got(s)')[j].k
    BY <2>1 DEF OrderInv
  <2> QED  BY <2>2, <2>3 DEF OrderInv
<1>7. ASSUME NEW n \in Notifiers, NotifyRange(n) PROVE OrderInv'
  <2>1. \A m \in Notifiers, t \in Subs : Unsent(m, t)' => Unsent(m, t)
    BY <1>7 DEF NotifyRange, RangeBegin, TypeOK, Unsent, Rangers
  <2> QED  BY <1>7, <2>1, OrderKept DEF NotifyRange, Got
<1>8. ASSUME NEW n \in Notifiers, NEW s \in Subs, NotifySkip(n, s) \/ NotifyVisit(n, s)
      PROVE  OrderInv'
  <2>1. \A m \in Notifiers, t \in Subs : Unsent(m, t)' => Unsent(m, t)
    <3>1. CASE NotifySkip(n, s)
      BY <3>1 DEF NotifySkip, RangeVisit, TypeOK, Unsent
    <3>2. CASE NotifyVisit(n, s)
      BY <3>2 DEF NotifyVisit, RangeVisit, TypeOK, Unsent
    <3> QED  BY <1>8, <3>1, <3>2
  <2> QED  BY <1>8, <2>1, OrderKept DEF NotifySkip, NotifyVisit, Got
<1>9. ASSUME NEW n \in Notifiers, NotifyDrop(n) \/ NotifyPanic(n) \/ NotifyReturn(n)
      PROVE  OrderInv'
  <2>1. \A m \in Notifiers, t \in Subs : Unsent(m, t)' => Unsent(m, t)
    <3>1. CASE NotifyDrop(n)
      BY <3>1 DEF NotifyDrop, NotifySend, TypeOK, Unsent
    <3>2. CASE NotifyPanic(n)
      BY <3>2 DEF NotifyPanic, NotifySend, TypeOK, Unsent
    <3>3. CASE NotifyReturn(n)
      BY <3>3 DEF NotifyReturn, RangeEnd, TypeOK, Unsent
    <3> QED  BY <1>9, <3>1, <3>2, <3>3
  <2> QED  BY <1>9, <2>1, OrderKept DEF NotifyDrop, NotifyPanic, NotifySend, NotifyReturn, Got
<1>10. ASSUME NEW c \in Closers, CloseSwap(c) \/ CloseStep(c) PROVE OrderInv'
  <2>1. \A n \in Notifiers : pc'[n] = pc[n] /\ todo'[n] = todo[n] /\ may'[n] = may[n]
    BY <1>10 DEF TypeOK, CloseSwap, CloseStep, CloseRange, CloseVisit, CloseWait, CloseReturnNil,
                 CloseReturnErr, RangeBegin, RangeVisit, RangeEnd
  <2>2. UNCHANGED <<cur, count, delivered, queue>>
    BY <1>10 DEF CloseSwap, CloseStep, CloseRange, CloseVisit, CloseWait, CloseReturnNil,
                 CloseReturnErr
  <2> QED  BY <2>1, <2>2, OrderKept DEF Got, Unsent
<1>11. CASE WaiterDone
  BY <1>11, OrderKept DEF WaiterDone, Got, Unsent
<1>12. ASSUME NEW n \in Notifiers, NotifyQueue(n) PROVE OrderInv'
  <2>1. cur[n] \in Subs
    BY <1>12 DEF TypeOK, NotifyQueue, NotifySend
  <2> QED  BY <1>12, <2>1, OrderQueue
<1> QED
  BY <1>1, <1>2, <1>3, <1>4, <1>5, <1>6, <1>7, <1>8, <1>9, <1>10, <1>11, <1>12
     DEF Next, SubscribeStep, NotifyStep, ProcessStep, ProcessSelect

\* The events of one goroutine reach an observer in order and none twice.
THEOREM EventsInOrder == Spec => []InOrderOnce
<1>1. TypeOK /\ TypeOK' /\ (RangeInv /\ OrderInv) /\ [Next]_vars => (RangeInv /\ OrderInv)'
  BY NextRange, NextOrder
<1>2. OrderInv => InOrderOnce
  BY DEF OrderInv, InOrderOnce, Got
<1> QED  BY <1>1, <1>2, InitRange, TypeCorrect, PTL DEF Spec

-----------------------------------------------------------------------------
(* Nobody is missed.                                                       *)

Served(e, s) == Has(delivered[s], e) \/ Has(queue[s], e) \/ e \in dropped[s]

\* n's Range has still to do something about s.
Due(n, s) == s \in todo[n] \/ (pc[n] = "send" /\ cur[n] = s)

Ranging(n) == pc[n] \in {"range", "send"}

AudienceInv ==
    /\ \A n \in Notifiers : \A s \in audience[n] :
          /\ ~New(s)
          /\ Ranging(n) /\ active[s] => Due(n, s) \/ Served(EventOf(n), s)
    /\ \A es \in owed : ~New(es[2])
    /\ \A es \in owed : active[es[2]] => Served(es[1], es[2])

LEMMA HasMoved ==
  ASSUME NEW S, NEW d \in Seq(S), NEW q \in Seq(S), q # <<>>, NEW e,
         Has(d, e) \/ Has(q, e)
  PROVE  Has(Append(d, Head(q)), e) \/ Has(Tail(q), e)
<1>1. /\ Head(q) \in S /\ Tail(q) \in Seq(S) /\ Len(Tail(q)) = Len(q) - 1
      /\ Head(q) = q[1]
      /\ \A i \in 1..Len(Tail(q)) : Tail(q)[i] = q[i + 1]
  BY HeadTailProperties
<1>2. Len(d) \in Nat /\ Len(q) \in Nat
  OBVIOUS
<1>3. /\ Len(Append(d, Head(q))) = Len(d) + 1
      /\ Append(d, Head(q))[Len(d) + 1] = Head(q)
      /\ \A i \in 1..Len(d) : Append(d, Head(q))[i] = d[i]
  BY <1>1
<1>4. CASE Has(d, e)
  BY <1>2, <1>3, <1>4 DEF Has
<1>5. CASE Has(q, e)
  <2>1. PICK i \in 1..Len(q) : q[i] = e
    BY <1>5 DEF Has
  <2>2. CASE i = 1
    BY <1>1, <1>2, <1>3, <2>1, <2>2 DEF Has
  <2>3. CASE i # 1
    <3>1. i - 1 \in 1..Len(Tail(q)) /\ (i - 1) + 1 = i
      BY <1>1, <1>2, <2>1, <2>3
    <3>2. Tail(q)[i - 1] = e
      BY <1>1, <2>1, <3>1
    <3> QED  BY <3>1, <3>2 DEF Has
  <2> QED  BY <2>2, <2>3
<1> QED  BY <1>4, <1>5

LEMMA HasAppended ==
  ASSUME NEW S, NEW q \in Seq(S), NEW e \in S
  PROVE  Has(Append(q, e), e) /\ \A f : Has(q, f) => Has(Append(q, e), f)
<1>1. Len(q) \in Nat /\ Len(Append(q, e)) = Len(q) + 1 /\ Append(q, e)[Len(q) + 1] = e
  OBVIOUS
<1>2. \A i \in 1..Len(q) : Append(q, e)[i] = q[i]
  OBVIOUS
<1> QED  BY <1>1, <1>2 DEF Has

\* What a step of others may do to an audience.
LEMMA AudienceKept ==
  ASSUME TypeOK, AudienceInv,
         UNCHANGED <<audience, owed, count>>,
         \A s \in Subs : ~New(s) => ~New(s)' /\ (active'[s] => active[s]),
         \A s \in Subs : \A e : Served(e, s) => Served(e, s)',
         \A n \in Notifiers : Ranging(n)' => Ranging(n),
         \A n \in Notifiers, s \in Subs :
             Due(n, s) /\ active'[s] /\ Ranging(n)'
                => Due(n, s)' \/ Served(EventOf(n), s)'
  PROVE  AudienceInv'
<1>1. ASSUME NEW n \in Notifiers, NEW s \in audience[n]
      PROVE  ~New(s)' /\ (Ranging(n)' /\ active'[s] => Due(n, s)' \/ Served(EventOf(n), s)')
  <2>1. s \in Subs
    BY DEF TypeOK
  <2>2. ~New(s) /\ (Ranging(n) /\ active[s] => Due(n, s) \/ Served(EventOf(n), s))
    BY DEF AudienceInv
  <2>3. EventOf(n)' = EventOf(n)
    BY DEF EventOf
  <2>4. ~New(s)' /\ (active'[s] => active[s])
    BY <2>1, <2>2
  <2>5. Served(EventOf(n), s) => Served(EventOf(n), s)'
    <3> DEFINE e == EventOf(n)
    <3>1. e' = e
      BY <2>3
    <3> HIDE DEF e
    <3>2. Served(e, s) => Served(e, s)'
      BY <2>1, <3>1 DEF Served
    <3> QED  BY <3>2 DEF e
  <2> QED  BY <2>1, <2>2, <2>4, <2>5
<1>2. \A n \in Notifiers : EventOf(n)' = EventOf(n)
  BY DEF EventOf
<1>3. \A es \in owed : /\ es[2] \in Subs /\ ~New(es[2])'
                       /\ active'[es[2]] => Served(es[1], es[2])'
  BY DEF TypeOK, AudienceInv
<1> QED  BY <1>1, <1>2, <1>3 DEF AudienceInv

LEMMA InitAudience == Init => AudienceInv
  BY DEF Init, AudienceInv

LEMMA NextAudience == TypeOK /\ RangeInv /\ AudienceInv /\ [Next]_vars => AudienceInv'
<1> SUFFICES ASSUME TypeOK, RangeInv, AudienceInv, [Next]_vars PROVE AudienceInv'
  OBVIOUS
<1>1. CASE UNCHANGED vars
  BY <1>1, AudienceKept DEF vars, New, Served, Ranging, Due
<1>2. ASSUME NEW s \in Subs, SubscribeCheck(s) \/ SubscribeStart(s) \/ ParentCancel(s)
                             \/ ProcessObserved(s) \/ ProcessClose(s) \/ ProcessDone(s)
      PROVE  AudienceInv'
  <2>1. UNCHANGED <<audience, owed, count, pc, cur, todo, active, delivered, queue, dropped>>
    BY <1>2 DEF SubscribeCheck, SubscribeStart, ParentCancel, ProcessObserved, ProcessClose,
                ProcessDone
  <2>2. \A t \in Subs : ~New(t) => ~New(t)'
    BY <1>2 DEF SubscribeCheck, SubscribeStart, ParentCancel, ProcessObserved, ProcessClose,
                ProcessDone, TypeOK, New
  <2> QED  BY <2>1, <2>2, AudienceKept DEF Served, Ranging, Due
<1>3. ASSUME NEW s \in Subs, SubscribeStore(s) PROVE AudienceInv'
  <2>1. UNCHANGED <<audience, owed, count, pc, cur, todo, delivered, queue, dropped>>
    BY <1>3 DEF SubscribeStore
  <2>2. \A t \in Subs : ~New(t) => ~New(t)' /\ (active'[t] => active[t])
    BY <1>3 DEF SubscribeStore, TypeOK, New
  <2> QED  BY <2>1, <2>2, AudienceKept DEF Served, Ranging, Due
<1>4. ASSUME NEW s \in Subs, Unsubscribe(s) PROVE AudienceInv'
  <2>1. UNCHANGED <<audience, owed, count, pc, cur, proc, delivered, queue, dropped>>
    BY <1>4 DEF Unsubscribe
  <2>2. /\ \A t \in Subs : active'[t] => active[t] /\ t # s
        /\ \A n \in Notifiers : todo'[n] = todo[n] \ {s}
    BY <1>4 DEF Unsubscribe, TypeOK
  <2> QED  BY <2>1, <2>2, AudienceKept DEF New, Served, Ranging, Due
<1>5. ASSUME NEW s \in Subs, ProcessTake(s) PROVE AudienceInv'
  <2>1. UNCHANGED <<audience, owed, count, pc, cur, todo, active, dropped>>
    BY <1>5 DEF ProcessTake
  <2>2. \A t \in Subs : ~New(t) => ~New(t)'
    BY <1>5 DEF ProcessTake, TypeOK, New
  <2>3. /\ delivered \in [Subs -> Seq(Event)] /\ queue \in [Subs -> Seq(Event)]
        /\ delivered' = [delivered EXCEPT ![s] = Append(@, Head(queue[s]))]
        /\ queue' = [queue EXCEPT ![s] = Tail(@)] /\ queue[s] # <<>>
    BY <1>5 DEF TypeOK, ProcessTake
  <2>4. ASSUME NEW t \in Subs, NEW e, Served(e, t) PROVE Served(e, t)'
    <3>1. CASE t = s
      BY <2>1, <2>3, <2>4, <3>1, HasMoved DEF Served
    <3>2. CASE t # s
      BY <2>1, <2>3, <2>4, <3>2 DEF Served
    <3> QED  BY <3>1, <3>2
  <2> QED  BY <2>1, <2>2, <2>4, AudienceKept DEF Ranging, Due
<1>6. ASSUME NEW n \in Notifiers, NotifyCheck(n) PROVE AudienceInv'
  <2>1. UNCHANGED <<audience, owed, proc, active, cur, todo, delivered, queue, dropped>>
    BY <1>6 DEF NotifyCheck
  <2>2. ~Ranging(n)' /\ \A m \in Notifiers \ {n} : pc'[m] = pc[m] /\ count'[m] = count[m]
    BY <1>6 DEF NotifyCheck, Ranging, TypeOK
  <2>3. \A m \in Notifiers \ {n} : EventOf(m)' = EventOf(m)
    BY <2>2 DEF EventOf
  <2>4. /\ \A t \in Subs : \A e : Served(e, t)' <=> Served(e, t)
        /\ \A t \in Subs : New(t)' <=> New(t)
    BY <2>1 DEF Served, New
  <2>5. ASSUME NEW m \in Notifiers, NEW s \in audience[m]
        PROVE  ~New(s)' /\ (Ranging(m)' /\ active'[s] => Due(m, s)' \/ Served(EventOf(m), s)')
    <3>1. s \in Subs
      BY DEF TypeOK
    <3>2. CASE m = n
      BY <2>2, <2>4, <3>1, <3>2 DEF AudienceInv
    <3>3. CASE m # n
      <4>1. Ranging(m)' = Ranging(m) /\ Due(m, s)' = Due(m, s)
        BY <2>1, <2>2, <3>3 DEF Ranging, Due
      <4> QED  BY <2>1, <2>3, <2>4, <3>1, <3>3, <4>1 DEF AudienceInv
    <3> QED  BY <3>2, <3>3
  <2>6. \A es \in owed : ~New(es[2])' /\ (active'[es[2]] => Served(es[1], es[2])')
    BY <2>1, <2>4 DEF AudienceInv, TypeOK
  <2> QED  BY <2>1, <2>5, <2>6 DEF AudienceInv
<1>7. ASSUME NEW n \in Notifiers, NotifyRange(n) PROVE AudienceInv'
  <2>1. UNCHANGED <<owed, count, proc, active, cur, delivered, queue, dropped>>
    BY <1>7 DEF NotifyRange
  <2>2. /\ \A m \in Notifiers \ {n} : /\ pc'[m] = pc[m] /\ todo'[m] = todo[m]
                                      /\ audience'[m] = audience[m]
        /\ audience'[n] \subseteq subscribers /\ todo'[n] = subscribers
    BY <1>7 DEF NotifyRange, RangeBegin, TypeOK, Rangers
  <2>3. \A m \in Notifiers : EventOf(m)' = EventOf(m)
    BY <2>1 DEF EventOf
  <2>4. /\ \A t \in Subs : \A e : Served(e, t)' <=> Served(e, t)
        /\ \A t \in Subs : New(t)' <=> New(t)
    BY <2>1 DEF Served, New
  <2>5. ASSUME NEW m \in Notifiers, NEW s \in audience'[m]
        PROVE  ~New(s)' /\ (Ranging(m)' /\ active'[s] => Due(m, s)' \/ Served(EventOf(m), s)')
    <3>1. CASE m = n
      <4>1. s \in subscribers /\ s \in Subs /\ Due(m, s)'
        BY <2>2, <2>5, <3>1 DEF TypeOK, Due
      <4> QED  BY <2>4, <4>1 DEF RangeInv
    <3>2. CASE m # n
      <4>1. s \in audience[m] /\ s \in Subs
        BY <2>2, <2>5, <3>2 DEF TypeOK
      <4>2. Ranging(m)' = Ranging(m) /\ Due(m, s)' = Due(m, s)
        BY <2>1, <2>2, <3>2 DEF Ranging, Due
      <4> QED  BY <2>1, <2>3, <2>4, <4>1, <4>2 DEF AudienceInv
    <3> QED  BY <3>1, <3>2
  <2>6. \A es \in owed : ~New(es[2])' /\ (active'[es[2]] => Served(es[1], es[2])')
    BY <2>1, <2>4 DEF AudienceInv, TypeOK
  <2> QED  BY <2>1, <2>5, <2>6 DEF AudienceInv
<1>8. ASSUME NEW n \in Notifiers, NEW s \in Subs, NotifySkip(n, s) PROVE AudienceInv'
  <2>1. /\ UNCHANGED <<audience, owed, count, pc, cur, proc, active, delivered, queue, dropped>>
        /\ ~active[s]
    BY <1>8 DEF NotifySkip
  <2>2. \A m \in Notifiers : todo[m] \subseteq todo'[m] \cup {s}
    BY <1>8 DEF NotifySkip, RangeVisit, TypeOK, Rangers
  <2> QED  BY <2>1, <2>2, AudienceKept DEF New, Served, Ranging, Due
<1>9. ASSUME NEW n \in Notifiers, NEW s \in Subs, NotifyVisit(n, s) PROVE AudienceInv'
  <2>1. UNCHANGED <<audience, owed, count, proc, active, delivered, queue, dropped>>
    BY <1>9 DEF NotifyVisit
  <2>2. /\ \A m \in Notifiers \ {n} : pc'[m] = pc[m] /\ cur'[m] = cur[m] /\ todo'[m] = todo[m]
        /\ pc[n] = "range" /\ pc'[n] = "send" /\ cur'[n] = s /\ todo'[n] = todo[n] \ {s}
    BY <1>9 DEF NotifyVisit, RangeVisit, TypeOK, Rangers
  <2>3. \A m \in Notifiers, t \in Subs : Due(m, t) => Due(m, t)'
    BY <2>2 DEF Due
  <2>4. \A m \in Notifiers : Ranging(m)' => Ranging(m)
    BY <2>2 DEF Ranging
  <2> QED  BY <2>1, <2>3, <2>4, AudienceKept DEF New, Served
<1>10. ASSUME NEW n \in Notifiers, NotifyQueue(n) PROVE AudienceInv'
  <2>1. /\ UNCHANGED <<audience, owed, count, proc, active, delivered, dropped, todo>>
        /\ cur[n] \in Subs /\ EventOf(n) \in Event /\ queue[cur[n]] \in Seq(Event)
        /\ queue' = [queue EXCEPT ![cur[n]] = Append(@, EventOf(n))]
        /\ pc[n] = "send" /\ pc'[n] = "range"
        /\ \A m \in Notifiers \ {n} : pc'[m] = pc[m] /\ cur'[m] = cur[m]
    BY <1>10, EventOfType DEF NotifyQueue, NotifySend, TypeOK
  <2>2. ASSUME NEW t \in Subs, NEW e, Served(e, t) PROVE Served(e, t)'
    BY <2>1, <2>2, HasAppended DEF Served, TypeOK
  <2>3. ASSUME NEW t \in Subs, t = cur[n] PROVE Served(EventOf(n), t)'
    <3>1. queue'[t] = Append(queue[t], EventOf(n)) /\ queue[t] \in Seq(Event)
      BY <2>1, <2>3 DEF TypeOK
    <3>2. Has(queue'[t], EventOf(n)) /\ EventOf(n)' = EventOf(n)
      BY <2>1, <3>1, HasAppended DEF EventOf
    <3> QED  BY <3>2 DEF Served
  <2>4. \A m \in Notifiers, t \in Subs : Due(m, t) => Due(m, t)' \/ Served(EventOf(m), t)'
    BY <2>1, <2>3 DEF Due
  <2>5. \A m \in Notifiers : Ranging(m)' => Ranging(m)
    BY <2>1 DEF Ranging
  <2> QED  BY <2>1, <2>2, <2>4, <2>5, AudienceKept DEF New
<1>11. ASSUME NEW n \in Notifiers, NotifyDrop(n) PROVE AudienceInv'
  <2>1. /\ UNCHANGED <<audience, owed, count, proc, active, delivered, queue, todo>>
        /\ cur[n] \in Subs /\ dropped' = [dropped EXCEPT ![cur[n]] = @ \cup {EventOf(n)}]
        /\ pc[n] = "send" /\ pc'[n] = "range"
        /\ \A m \in Notifiers \ {n} : pc'[m] = pc[m] /\ cur'[m] = cur[m]
    BY <1>11 DEF NotifyDrop, NotifySend, TypeOK
  <2>2. \A t \in Subs : \A e : Served(e, t) => Served(e, t)'
    BY <2>1 DEF Served, TypeOK
  <2>3. EventOf(n)' = EventOf(n) /\ EventOf(n) \in dropped'[cur[n]]
    BY <2>1 DEF EventOf, TypeOK
  <2>4. \A m \in Notifiers, t \in Subs : Due(m, t) => Due(m, t)' \/ Served(EventOf(m), t)'
    BY <2>1, <2>3 DEF Due, Served
  <2>5. \A m \in Notifiers : Ranging(m)' => Ranging(m)
    BY <2>1 DEF Ranging
  <2> QED  BY <2>1, <2>2, <2>4, <2>5, AudienceKept DEF New
<1>12. ASSUME NEW n \in Notifiers, NotifyPanic(n) PROVE AudienceInv'
  <2>1. /\ UNCHANGED <<audience, owed, count, proc, active, delivered, queue, dropped, todo>>
        /\ pc'[n] = "panicked" /\ \A m \in Notifiers \ {n} : pc'[m] = pc[m] /\ cur'[m] = cur[m]
    BY <1>12 DEF NotifyPanic, NotifySend, TypeOK
  <2>2. /\ \A m \in Notifiers : Ranging(m)' => Ranging(m)
        /\ \A m \in Notifiers, t \in Subs : Due(m, t) /\ Ranging(m)' => Due(m, t)'
    BY <2>1 DEF Ranging, Due
  <2> QED  BY <2>1, <2>2, AudienceKept DEF New, Served
<1>13. ASSUME NEW n \in Notifiers, NotifyReturn(n) PROVE AudienceInv'
  <2>1. /\ UNCHANGED <<count, proc, active, delivered, queue, dropped, todo, cur>>
        /\ pc[n] = "range" /\ pc'[n] = "idle" /\ todo[n] = {}
        /\ \A m \in Notifiers \ {n} : pc'[m] = pc[m] /\ audience'[m] = audience[m]
        /\ audience'[n] = {} /\ owed' = owed \cup ({EventOf(n)} \X audience[n])
    BY <1>13 DEF NotifyReturn, RangeEnd, TypeOK
  <2>2. /\ \A m \in Notifiers : EventOf(m)' = EventOf(m)
        /\ \A t \in Subs : \A e : Served(e, t)' <=> Served(e, t)
        /\ \A t \in Subs : New(t)' <=> New(t)
    BY <2>1 DEF EventOf, Served, New
  <2>3. ASSUME NEW m \in Notifiers, NEW s \in audience'[m]
        PROVE  ~New(s)' /\ (Ranging(m)' /\ active'[s] => Due(m, s)' \/ Served(EventOf(m), s)')
    <3>1. m # n /\ s \in audience[m] /\ s \in Subs
      BY <2>1, <2>3 DEF TypeOK
    <3>2. Ranging(m)' = Ranging(m) /\ Due(m, s)' = Due(m, s)
      BY <2>1, <3>1 DEF Ranging, Due
    <3> QED  BY <2>1, <2>2, <3>1, <3>2 DEF AudienceInv
  <2>4. \A s \in audience[n] : /\ s \in Subs /\ ~New(s)
                               /\ active[s] => Served(EventOf(n), s)
    BY <2>1 DEF AudienceInv, Ranging, Due, TypeOK
  <2>5. \A es \in owed' : ~New(es[2])' /\ (active'[es[2]] => Served(es[1], es[2])')
    BY <2>1, <2>2, <2>4 DEF AudienceInv, TypeOK
  <2> QED  BY <2>3, <2>5 DEF AudienceInv
<1>14. ASSUME NEW c \in Closers, CloseSwap(c) \/ CloseStep(c) PROVE AudienceInv'
  <2>1. \A n \in Notifiers : pc'[n] = pc[n] /\ todo'[n] = todo[n]
    BY <1>14 DEF TypeOK, CloseSwap, CloseStep, CloseRange, CloseVisit, CloseWait, CloseReturnNil,
                 CloseReturnErr, RangeBegin, RangeVisit, RangeEnd
  <2>2. /\ UNCHANGED <<cur, count, proc, delivered, queue, dropped, audience, owed>>
        /\ \A s \in Subs : active'[s] => active[s]
    BY <1>14 DEF TypeOK, CloseSwap, CloseStep, CloseRange, CloseVisit, CloseWait, CloseReturnNil,
                 CloseReturnErr
  <2> QED  BY <2>1, <2>2, AudienceKept DEF New, Served, Ranging, Due
<1>15. CASE WaiterDone
  BY <1>15, AudienceKept DEF WaiterDone, New, Served, Ranging, Due
<1> QED
  BY <1>1, <1>2, <1>3, <1>4, <1>5, <1>6, <1>7, <1>8, <1>9, <1>10, <1>11, <1>12, <1>13,
     <1>14, <1>15
     DEF Next, SubscribeStep, NotifyStep, ProcessStep, ProcessSelect

\* A Notify that has returned served every subscription that was active when
\* its Range began and still is, with the event or a full queue.
THEOREM NobodyIsMissed == Spec => []NobodyMissed
<1>1. TypeOK /\ (RangeInv /\ AudienceInv) /\ [Next]_vars => (RangeInv /\ AudienceInv)'
  BY NextRange, NextAudience
<1>2. Init => RangeInv /\ AudienceInv
  BY InitRange, InitAudience
<1>3. AudienceInv => NobodyMissed
  BY DEF AudienceInv, NobodyMissed, Served
<1> QED  BY <1>1, <1>2, <1>3, TypeCorrect, PTL DEF Spec

-----------------------------------------------------------------------------
(* A closed queue behind an active subscription.                           *)

\* A subscription that was ended by its cancel function or by Close has been
\* stored, and is not active again.
EndedInv ==
    /\ \A c \in Closers : \A s \in todo[c] \cup may[c] : ~New(s)
    /\ \A s \in subscribers : ~New(s)
    /\ \A s \in Subs : QueueClosed(s) => cancelled[s]
    /\ \A s \in Subs \ ParentCtxSubs : cancelled[s] => ~New(s) /\ ~active[s]

LEMMA NextEnded == TypeOK /\ EndedInv /\ [Next]_vars => EndedInv'
<1> SUFFICES ASSUME TypeOK, EndedInv, [Next]_vars PROVE EndedInv'
  OBVIOUS
<1> USE DEF EndedInv, New, QueueClosed
<1>1. CASE UNCHANGED vars
  BY <1>1 DEF vars
<1>2. ASSUME NEW s \in Subs, SubscribeCheck(s) PROVE EndedInv'
  BY <1>2 DEF TypeOK, SubscribeCheck
<1>3. ASSUME NEW s \in Subs, SubscribeStore(s) PROVE EndedInv'
  BY <1>3 DEF TypeOK, SubscribeStore
<1>4. ASSUME NEW s \in Subs, SubscribeStart(s) PROVE EndedInv'
  BY <1>4 DEF TypeOK, SubscribeStart
<1>5. ASSUME NEW s \in Subs, Unsubscribe(s) PROVE EndedInv'
  BY <1>5 DEF TypeOK, Unsubscribe, Started
<1>6. ASSUME NEW s \in Subs, ParentCancel(s) PROVE EndedInv'
  BY <1>6 DEF TypeOK, ParentCancel
<1>7. ASSUME NEW s \in Subs, ProcessTake(s) \/ ProcessObserved(s) PROVE EndedInv'
  BY <1>7 DEF TypeOK, ProcessTake, ProcessObserved
<1>8. ASSUME NEW s \in Subs, ProcessClose(s) \/ ProcessDone(s) PROVE EndedInv'
  BY <1>8 DEF TypeOK, ProcessClose, ProcessDone
<1>9. ASSUME NEW n \in Notifiers, NotifyCheck(n) \/ NotifyStep(n) PROVE EndedInv'
  <2>1. \A c \in Closers : todo'[c] = todo[c] /\ may'[c] = may[c]
    BY <1>9 DEF TypeOK, NotifyCheck, NotifyStep, NotifyRange, NotifySkip, NotifyVisit,
                NotifyQueue, NotifyDrop, NotifyPanic, NotifySend, NotifyReturn, RangeBegin,
                RangeVisit, RangeEnd
  <2>2. UNCHANGED <<subscribers, proc, active, cancelled>>
    BY <1>9 DEF NotifyCheck, NotifyStep, NotifyRange, NotifySkip, NotifyVisit, NotifyQueue,
                NotifyDrop, NotifyPanic, NotifySend, NotifyReturn
  <2> QED  BY <2>1, <2>2
<1>10. ASSUME NEW c \in Closers, CloseSwap(c) \/ CloseRange(c) \/ CloseWait(c)
                                 \/ CloseReturnNil(c) \/ CloseReturnErr(c)
       PROVE  EndedInv'
  <2>1. UNCHANGED <<subscribers, proc, active, cancelled>>
    BY <1>10 DEF CloseSwap, CloseRange, CloseWait, CloseReturnNil, CloseReturnErr
  <2>2. \A d \in Closers : todo'[d] \cup may'[d] \subseteq todo[d] \cup may[d] \cup subscribers
    <3>1. CASE CloseRange(c)
      BY <3>1 DEF TypeOK, CloseRange, RangeBegin
    <3>2. CASE CloseWait(c)
      BY <3>2 DEF TypeOK, CloseWait, RangeEnd
    <3> QED  BY <1>10, <3>1, <3>2 DEF CloseSwap, CloseReturnNil, CloseReturnErr
  <2> QED  BY <2>1, <2>2
<1>11. ASSUME NEW c \in Closers, NEW s \in Subs, CloseVisit(c, s) PROVE EndedInv'
  BY <1>11 DEF TypeOK, CloseVisit, RangeVisit
<1>12. CASE WaiterDone
  BY <1>12 DEF WaiterDone
<1> QED
  BY <1>1, <1>2, <1>3, <1>4, <1>5, <1>6, <1>7, <1>8, <1>9, <1>10, <1>11, <1>12
     DEF Next, SubscribeStep, ProcessStep, ProcessSelect, CloseStep

\* Neither the cancel function nor Close leaves a closed queue behind an active
\* subscription: a Notify that panics has read the flag before it was cleared,
\* or the caller has cancelled the context it passed.
THEOREM PanicsComeFromRaces == Spec => []PanicOnlyFromRace
<1>1. Init => EndedInv
  BY DEF Init, EndedInv, New, QueueClosed
<1>2. TypeOK /\ EndedInv => PanicOnlyFromRace
  BY DEF TypeOK, EndedInv, PanicOnlyFromRace
<1> QED  BY <1>1, <1>2, NextEnded, TypeCorrect, PTL DEF Spec

=============================================================================
