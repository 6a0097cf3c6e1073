-------------------------- MODULE ObserverManager --------------------------
(***************************************************************************)
(* core/observer.go: the fan-out of configuration events to observers.     *)
(*                                                                         *)
(* An element of Subs is one call of Subscribe (an id is never used        *)
(* again) with its processor goroutine, an element of Notifiers a          *)
(* goroutine that calls Notify for MaxEvents events one after the other,   *)
(* an element of Closers one call of Close.                                *)
(***************************************************************************)
EXTENDS Naturals, Sequences, FiniteSets

CONSTANTS
    Subs, Notifiers, Closers,
    ParentCtxSubs,   \* subscriptions whose caller may cancel the context it passed
    DeadlineClosers, \* calls of Close whose context expires
    Hanging,         \* subscriptions whose observer may never return
    Reentrant,       \* pairs <<c, s>>: the observer of s makes the call c of Close
    QueueSize,       \* capacity of a subscription's queue
    MaxEvents,       \* bound: calls of Notify by one notifier
    None

ASSUME ConstantsAssumption ==
    /\ IsFiniteSet(Subs) /\ None \notin Subs
    /\ ParentCtxSubs \subseteq Subs /\ Hanging \subseteq Subs
    /\ DeadlineClosers \subseteq Closers
    /\ Reentrant \subseteq Closers \X Subs
    /\ QueueSize \in Nat /\ MaxEvents \in Nat
    /\ Notifiers \cap Closers = {}

VARIABLES
    closed,      \* m.closed
    subscribers, \* the keys of m.subscribers
    wg,          \* the counter of m.wg
    waiter,      \* the goroutine in which Close waits for m.wg
    proc,        \* progress of a Subscribe, then of its processEvents
    active,      \* sub.active
    cancelled,   \* the subscription's context is done
    queue,       \* sub.queue
    pc,          \* progress of a Notify or a Close
    cur,         \* the subscription a Notify is about to send to
    todo, may,   \* subscriptions a Range must, or may, still visit
    count,       \* events the notifier has notified, the current one included
    \* history variables
    delivered,   \* events handed to the observer, in order
    dropped,     \* events lost because the queue was full
    audience,    \* active subscriptions when the notifier's Range began
    owed,        \* pairs <<event, subscription>> of the Notifys that returned
    racing       \* Subscribes under way when Close swapped m.closed

mgrVars  == <<closed, subscribers, wg, waiter>>
subVars  == <<proc, active, cancelled, queue>>
callVars == <<pc, cur, todo, may, count>>
history  == <<delivered, dropped, audience, owed, racing>>
vars     == <<mgrVars, subVars, callVars, history>>

Rangers == Notifiers \cup Closers
Event == [by : Notifiers, k : 1..MaxEvents]

EventOf(n) == [by |-> n, k |-> count[n]]    \* the event n is notifying

Started(s) == proc[s] \in {"select", "observer", "exiting", "done"}
Alive == {s \in Subs : proc[s] \in {"select", "observer", "exiting"}}
QueueClosed(s) == proc[s] \in {"exiting", "done"}

TypeOK ==
    /\ closed \in BOOLEAN
    /\ subscribers \subseteq Subs
    /\ wg \in Nat
    /\ waiter \in {"off", "waiting", "done"}
    /\ proc \in [Subs -> {"none", "checked", "stored", "rejected",
                          "select", "observer", "exiting", "done"}]
    /\ active \in [Subs -> BOOLEAN]
    /\ cancelled \in [Subs -> BOOLEAN]
    /\ queue \in [Subs -> Seq(Event)]
    /\ pc \in [Rangers -> {"idle", "checked", "range", "send", "panicked",
                           "swapped", "wait", "nil", "err"}]
    /\ cur \in [Notifiers -> Subs \cup {None}]
    /\ \A n \in Notifiers : pc[n] = "send" => cur[n] # None
    /\ todo \in [Rangers -> SUBSET Subs]
    /\ may \in [Rangers -> SUBSET Subs]
    /\ count \in [Notifiers -> 0..MaxEvents]
    /\ \A n \in Notifiers : pc[n] # "idle" => count[n] > 0
    /\ delivered \in [Subs -> Seq(Event)]
    /\ dropped \in [Subs -> SUBSET Event]
    /\ audience \in [Notifiers -> SUBSET Subs]
    /\ owed \subseteq Event \X Subs
    /\ racing \subseteq Subs

Init ==
    /\ closed = FALSE /\ subscribers = {} /\ wg = 0 /\ waiter = "off"
    /\ proc = [s \in Subs |-> "none"]
    /\ active = [s \in Subs |-> FALSE]
    /\ cancelled = [s \in Subs |-> FALSE]
    /\ queue = [s \in Subs |-> <<>>]
    /\ pc = [r \in Rangers |-> "idle"]
    /\ cur = [n \in Notifiers |-> None]
    /\ todo = [r \in Rangers |-> {}]
    /\ may = [r \in Rangers |-> {}]
    /\ count = [n \in Notifiers |-> 0]
    /\ delivered = [s \in Subs |-> <<>>]
    /\ dropped = [s \in Subs |-> {}]
    /\ audience = [n \in Notifiers |-> {}]
    /\ owed = {} /\ racing = {}

-----------------------------------------------------------------------------
(* sync.Map.Range visits every key that is in the map from its start to    *)
(* its end, none twice; a key stored meanwhile is visited or not.          *)

RangeBegin(r) == todo' = [todo EXCEPT ![r] = subscribers]

\* Mutant: the iteration does not remember what it has visited.
RangeVisitAgain(r, s) ==
    s \in todo[r] \cup may[r] /\ UNCHANGED <<todo, may>>

RangeVisit(r, s) ==
    /\ s \in todo[r] \cup may[r]
    /\ todo' = [todo EXCEPT ![r] = @ \ {s}]
    /\ may' = [may EXCEPT ![r] = @ \ {s}]

RangeEnd(r) == todo[r] = {} /\ may' = [may EXCEPT ![r] = {}]

-----------------------------------------------------------------------------
(* Subscribe, and the end of a subscription.                               *)

\* Mutant: Subscribe does not look at m.closed.
SubscribeUnchecked(s) ==
    /\ proc[s] = "none"
    /\ proc' = [proc EXCEPT ![s] = "checked"]
    /\ UNCHANGED <<mgrVars, active, cancelled, queue, callVars, history>>

SubscribeCheck(s) ==
    /\ proc[s] = "none"
    /\ proc' = [proc EXCEPT ![s] = IF closed THEN "rejected" ELSE "checked"]
    /\ UNCHANGED <<mgrVars, active, cancelled, queue, callVars, history>>

SubscribeStore(s) ==
    /\ proc[s] = "checked"
    /\ proc' = [proc EXCEPT ![s] = "stored"]
    /\ active' = [active EXCEPT ![s] = TRUE]
    /\ subscribers' = subscribers \cup {s}
    /\ may' = [r \in Rangers |->
                 IF pc[r] \in {"range", "send"} THEN may[r] \cup {s} ELSE may[r]]
    /\ UNCHANGED <<closed, wg, waiter, cancelled, queue, pc, cur, todo, count, history>>

SubscribeStart(s) ==
    /\ proc[s] = "stored"
    /\ proc' = [proc EXCEPT ![s] = "select"]
    /\ wg' = wg + 1
    /\ UNCHANGED <<closed, subscribers, waiter, active, cancelled, queue, callVars, history>>

\* Mutant: the cancel function only cancels the context.
UnsubscribeCancelOnly(s) ==
    /\ Started(s) /\ ~cancelled[s]
    /\ cancelled' = [cancelled EXCEPT ![s] = TRUE]
    /\ UNCHANGED <<mgrVars, proc, active, queue, callVars, history>>

\* The cancel function Subscribe returned.  A Range that would visit s after
\* the deletion finds it inactive, which is to skip it.
Unsubscribe(s) ==
    /\ Started(s)
    /\ s \in subscribers
    /\ subscribers' = subscribers \ {s}
    /\ todo' = [r \in Rangers |-> todo[r] \ {s}]
    /\ active' = [active EXCEPT ![s] = FALSE]
    /\ cancelled' = [cancelled EXCEPT ![s] = TRUE]
    /\ UNCHANGED <<closed, wg, waiter, proc, queue, pc, cur, may, count, history>>

\* The caller cancels the context it passed to Subscribe.
ParentCancel(s) ==
    /\ s \in ParentCtxSubs
    /\ proc[s] # "none" /\ ~cancelled[s]
    /\ cancelled' = [cancelled EXCEPT ![s] = TRUE]
    /\ UNCHANGED <<mgrVars, proc, active, queue, callVars, history>>

-----------------------------------------------------------------------------
(* Notify.                                                                 *)

NotifyCheck(n) ==
    /\ pc[n] = "idle" /\ count[n] < MaxEvents
    /\ count' = [count EXCEPT ![n] = @ + 1]
    /\ pc' = [pc EXCEPT ![n] = IF closed THEN "idle" ELSE "checked"]
    /\ UNCHANGED <<mgrVars, subVars, cur, todo, may, history>>

NotifyRange(n) ==
    /\ pc[n] = "checked"
    /\ pc' = [pc EXCEPT ![n] = "range"]
    /\ RangeBegin(n)
    /\ audience' = [audience EXCEPT ![n] = {s \in subscribers : active[s]}]
    /\ UNCHANGED <<mgrVars, subVars, cur, may, count, delivered, dropped, owed, racing>>

\* Mutant: the Range callback returns false at an inactive subscription.
NotifySkipStops(n, s) ==
    /\ pc[n] = "range" /\ ~active[s]
    /\ s \in todo[n] \cup may[n]
    /\ todo' = [todo EXCEPT ![n] = {}]
    /\ UNCHANGED <<mgrVars, subVars, pc, cur, may, count, history>>

NotifySkip(n, s) ==
    /\ pc[n] = "range" /\ ~active[s]
    /\ RangeVisit(n, s)
    /\ UNCHANGED <<mgrVars, subVars, pc, cur, count, history>>

NotifyVisit(n, s) ==
    /\ pc[n] = "range" /\ active[s]
    /\ RangeVisit(n, s)
    /\ pc' = [pc EXCEPT ![n] = "send"]
    /\ cur' = [cur EXCEPT ![n] = s]
    /\ UNCHANGED <<mgrVars, subVars, count, history>>

\* The select with a default.
NotifySend(n, next) ==
    /\ pc[n] = "send"
    /\ pc' = [pc EXCEPT ![n] = next]
    /\ cur' = [cur EXCEPT ![n] = None]
    /\ UNCHANGED <<mgrVars, proc, active, cancelled, todo, may, count,
                   delivered, audience, owed, racing>>

Full(s) == Len(queue[s]) >= QueueSize

NotifyQueue(n) ==
    /\ NotifySend(n, "range")
    /\ ~QueueClosed(cur[n]) /\ ~Full(cur[n])
    /\ queue' = [queue EXCEPT ![cur[n]] = Append(@, EventOf(n))]
    /\ UNCHANGED dropped

NotifyDrop(n) ==
    /\ NotifySend(n, "range")
    /\ ~QueueClosed(cur[n]) /\ Full(cur[n])
    /\ dropped' = [dropped EXCEPT ![cur[n]] = @ \cup {EventOf(n)}]
    /\ UNCHANGED queue

\* A send on a closed channel panics in the goroutine that called Notify.
NotifyPanic(n) ==
    /\ NotifySend(n, "panicked")
    /\ QueueClosed(cur[n])
    /\ UNCHANGED <<queue, dropped>>

NotifyReturn(n) ==
    /\ pc[n] = "range"
    /\ RangeEnd(n)
    /\ pc' = [pc EXCEPT ![n] = "idle"]
    /\ owed' = owed \cup ({EventOf(n)} \X audience[n])
    /\ audience' = [audience EXCEPT ![n] = {}]
    /\ UNCHANGED <<mgrVars, subVars, cur, todo, count, delivered, dropped, racing>>

-----------------------------------------------------------------------------
(* processEvents.  When the context is done and the queue is not empty,    *)
(* select takes either.                                                    *)

ProcessTake(s) ==
    /\ proc[s] = "select" /\ queue[s] # <<>>
    /\ delivered' = [delivered EXCEPT ![s] = Append(@, Head(queue[s]))]
    /\ queue' = [queue EXCEPT ![s] = Tail(@)]
    /\ proc' = [proc EXCEPT ![s] = "observer"]
    /\ UNCHANGED <<mgrVars, active, cancelled, callVars, dropped, audience, owed, racing>>

\* Mutant: a panic of the observer ends the processor.
ProcessObservedDies(s) ==
    /\ proc[s] = "observer"
    /\ proc' = [proc EXCEPT ![s] = "exiting"]
    /\ UNCHANGED <<mgrVars, active, cancelled, queue, callVars, history>>

\* The observer returns, fails or panics (which is recovered).  An observer
\* that called Close returns after it.
ProcessObserved(s) ==
    /\ proc[s] = "observer"
    /\ \A c \in Closers : <<c, s>> \in Reentrant => pc[c] \in {"idle", "nil", "err"}
    /\ proc' = [proc EXCEPT ![s] = "select"]
    /\ UNCHANGED <<mgrVars, active, cancelled, queue, callVars, history>>

\* The context is done: the deferred calls close the queue ...
ProcessClose(s) ==
    /\ proc[s] = "select" /\ cancelled[s]
    /\ proc' = [proc EXCEPT ![s] = "exiting"]
    /\ UNCHANGED <<mgrVars, active, cancelled, queue, callVars, history>>

\* ... and then tell the wait group.
ProcessDone(s) ==
    /\ proc[s] = "exiting"
    /\ proc' = [proc EXCEPT ![s] = "done"]
    /\ wg' = wg - 1
    /\ UNCHANGED <<closed, subscribers, waiter, active, cancelled, queue, callVars, history>>

-----------------------------------------------------------------------------
(* Close.                                                                  *)

CloseSwap(c) ==
    /\ pc[c] = "idle"
    /\ \A s \in Subs : <<c, s>> \in Reentrant => proc[s] = "observer"
    /\ closed' = TRUE
    /\ pc' = [pc EXCEPT ![c] = IF closed THEN "nil" ELSE "swapped"]
    /\ racing' = IF closed THEN racing
                 ELSE {s \in Subs : proc[s] \in {"checked", "stored"}}
    /\ UNCHANGED <<subscribers, wg, waiter, subVars, cur, todo, may, count,
                   delivered, dropped, audience, owed>>

CloseRange(c) ==
    /\ pc[c] = "swapped"
    /\ pc' = [pc EXCEPT ![c] = "range"]
    /\ RangeBegin(c)
    /\ UNCHANGED <<mgrVars, subVars, cur, may, count, history>>

\* Mutant: Close deactivates a subscription without cancelling it.
CloseVisitNoCancel(c, s) ==
    /\ pc[c] = "range"
    /\ RangeVisit(c, s)
    /\ active' = [active EXCEPT ![s] = FALSE]
    /\ UNCHANGED <<mgrVars, proc, cancelled, queue, pc, cur, count, history>>

CloseVisit(c, s) ==
    /\ pc[c] = "range"
    /\ RangeVisit(c, s)
    /\ active' = [active EXCEPT ![s] = FALSE]
    /\ cancelled' = [cancelled EXCEPT ![s] = TRUE]
    /\ UNCHANGED <<mgrVars, proc, queue, pc, cur, count, history>>

CloseWait(c) ==
    /\ pc[c] = "range"
    /\ RangeEnd(c)
    /\ pc' = [pc EXCEPT ![c] = "wait"]
    /\ waiter' = "waiting"
    /\ UNCHANGED <<closed, subscribers, wg, subVars, cur, todo, count, history>>

\* The goroutine Close starts: m.wg.Wait returns and done is closed.
WaiterDone ==
    /\ waiter = "waiting" /\ wg = 0
    /\ waiter' = "done"
    /\ UNCHANGED <<closed, subscribers, wg, subVars, callVars, history>>

CloseReturnNil(c) ==
    /\ pc[c] = "wait" /\ waiter = "done"
    /\ pc' = [pc EXCEPT ![c] = "nil"]
    /\ UNCHANGED <<mgrVars, subVars, cur, todo, may, count, history>>

CloseReturnErr(c) ==
    /\ pc[c] = "wait" /\ c \in DeadlineClosers
    /\ pc' = [pc EXCEPT ![c] = "err"]
    /\ UNCHANGED <<mgrVars, subVars, cur, todo, may, count, history>>

-----------------------------------------------------------------------------
(* The system.                                                             *)

SubscribeStep(s) == SubscribeStore(s) \/ SubscribeStart(s)
NotifyStep(n) ==
    \/ NotifyRange(n)
    \/ \E s \in Subs : NotifySkip(n, s) \/ NotifyVisit(n, s)
    \/ NotifyQueue(n) \/ NotifyDrop(n) \/ NotifyPanic(n)
    \/ NotifyReturn(n)
ProcessSelect(s) == ProcessTake(s) \/ ProcessClose(s) \/ ProcessDone(s)
ProcessStep(s) == ProcessSelect(s) \/ ProcessObserved(s)
CloseStep(c) ==
    \/ CloseRange(c) \/ CloseWait(c)
    \/ \E s \in Subs : CloseVisit(c, s)
    \/ CloseReturnNil(c) \/ CloseReturnErr(c)

Next ==
    \/ \E s \in Subs : \/ SubscribeCheck(s) \/ SubscribeStep(s)
                       \/ Unsubscribe(s) \/ ParentCancel(s)
                       \/ ProcessStep(s)
    \/ \E n \in Notifiers : NotifyCheck(n) \/ NotifyStep(n)
    \/ \E c \in Closers : CloseSwap(c) \/ CloseStep(c)
    \/ WaiterDone

Spec == Init /\ [][Next]_vars

\* A goroutine inside the manager keeps running, and an observer that does not
\* hang returns: the code waits for it with no limit.  Nobody has to begin a
\* call.
Fairness ==
    /\ \A n \in Notifiers : WF_vars(NotifyStep(n))
    /\ \A s \in Subs : WF_vars(SubscribeStep(s)) /\ WF_vars(ProcessSelect(s))
    /\ \A s \in Subs \ Hanging : WF_vars(ProcessObserved(s))
    /\ \A c \in Closers : WF_vars(CloseStep(c))
    /\ WF_vars(WaiterDone)

FairSpec == Spec /\ Fairness

-----------------------------------------------------------------------------
(* Properties.                                                             *)

Has(seq, e) == \E i \in 1..Len(seq) : seq[i] = e

\* The events of one goroutine reach an observer in the order they were
\* notified and none twice, whatever other goroutines notify meanwhile and
\* whatever was dropped: a Range visits a subscription once, and one
\* processor serves a queue (observer.go:94-111, 115-140).
InOrderOnce ==
    \A s \in Subs :
        LET got == delivered[s] \o queue[s]
        IN \A i, j \in 1..Len(got) :
              (i < j /\ got[i].by = got[j].by) => got[i].k < got[j].k

\* Once a Notify has returned, every subscription that was active when its
\* Range began, and still is, has got the event in its queue or has lost it
\* to a full queue: no slow, closed or vanishing subscription makes Range
\* stop early or miss another one (observer.go:94-111).
NobodyMissed ==
    \A es \in owed :
        LET e == es[1]
            s == es[2]
        IN active[s] => Has(delivered[s], e) \/ Has(queue[s], e) \/ e \in dropped[s]

\* A queue never holds more than its capacity (observer.go:61, 102-108).
QueueBounded == \A s \in Subs : Len(queue[s]) <= QueueSize

\* m.wg counts exactly the processors that have not finished (observer.go:69, 116).
WaitGroupExact == wg = Cardinality(Alive)

\* When Close has waited successfully, a processor still running belongs to a
\* Subscribe that was between its closed check and its start at the moment
\* Close swapped the flag, and to no other (observer.go:49-76, 143-166).
LeakOnlyFromRace == waiter = "done" => Alive \subseteq racing

\* A Notify about to send on a closed queue has read the subscription's
\* active flag before it was cleared, unless the caller cancelled the context
\* it had passed: neither the cancel function nor Close ever leaves a closed
\* queue behind an active subscription (observer.go:79-85, 97, 117, 149-155).
PanicOnlyFromRace ==
    \A n \in Notifiers :
        (pc[n] = "send" /\ QueueClosed(cur[n]) /\ active[cur[n]]) => cur[n] \in ParentCtxSubs

\* A queued event is handed to its observer unless the subscription ends
\* first, even if the observer failed or panicked on the events before it, and
\* other observers hang (observer.go:118-139).
QueuedIsDelivered ==
    \A s \in Subs \ Hanging : \A e \in Event :
        Has(queue[s], e) ~> (Has(delivered[s], e) \/ cancelled[s])

\* What may keep a processor alive when Close has cancelled it: its observer
\* hangs, or waits for a Close, or its Subscribe raced with Close.
Excused(s) ==
    \/ s \in racing \cup Hanging
    \/ \E c \in Closers : <<c, s>> \in Reentrant /\ pc[c] = "wait"

\* A Close with no deadline returns, however many events are still queued,
\* unless a processor is excused (observer.go:118-139, 151-166).
CloseEnds ==
    \A c \in Closers :
        pc[c] = "swapped" ~> (pc[c] \in {"nil", "err"} \/ \E s \in Alive : Excused(s))

=============================================================================
