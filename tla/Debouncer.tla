----------------------------- MODULE Debouncer -----------------------------
(***************************************************************************)
(* watch.Debouncer (watch/watch.go): a goroutine that keeps the last       *)
(* change received and puts it out when no other has come for an interval. *)
(* Its source is a channel of changes, as that of a MultiWatcher; it is    *)
(* started once and stopped once.  Consecutive changes are told apart, no  *)
(* more: a change is 0 or 1.                                               *)
(***************************************************************************)
EXTENDS Naturals, Sequences

CONSTANTS
    Room,    \* capacity of the source
    OutRoom  \* capacity of Debouncer.output

ASSUME DebouncerAssumption == Room \in Nat \ {0} /\ OutRoom \in Nat \ {0}

VARIABLES
    source, sourceShut, \* Debouncer.source
    offer,     \* the next change offered
    deb,      \* progress of run
    pending,  \* its pending change, or Nothing
    timer,    \* whether its timer is set
    resets,   \* number of times the timer was reset, modulo 2
    output,   \* number of changes in Debouncer.output
    debStop,  \* progress of Stop; Debouncer.stop is closed unless it is "idle"
    debCtx,   \* the context is done
    owed      \* history: the last change received that has not been put out

sourceVars == <<source, sourceShut, offer>>
runVars == <<deb, pending, timer, resets, output, owed>>
debVars == <<sourceVars, runVars, debStop, debCtx>>

Nothing == 2

DebTypeOK ==
    /\ source \in Seq({0, 1}) /\ sourceShut \in BOOLEAN /\ offer \in {0, 1}
    /\ deb \in {"off", "select", "emit", "done"}
    /\ pending \in {0, 1, Nothing} /\ owed \in {0, 1, Nothing}
    /\ timer \in BOOLEAN /\ resets \in {0, 1} /\ output \in 0..OutRoom
    /\ debStop \in {"idle", "wait", "stopped"} /\ debCtx \in BOOLEAN

DebInit ==
    /\ source = <<>> /\ sourceShut = FALSE /\ offer = 0
    /\ deb = "off" /\ pending = Nothing /\ timer = FALSE /\ resets = 0
    /\ output = 0 /\ owed = Nothing
    /\ debStop = "idle" /\ debCtx = FALSE

-----------------------------------------------------------------------------
(* Who sends, who reads, and who holds the context.                        *)

Offer ==
    /\ ~sourceShut /\ Len(source) < Room
    /\ source' = Append(source, offer) /\ offer' = 1 - offer
    /\ UNCHANGED <<sourceShut, runVars, debStop, debCtx>>

CloseSource ==
    /\ ~sourceShut
    /\ sourceShut' = TRUE
    /\ UNCHANGED <<source, offer, runVars, debStop, debCtx>>

ReadOutput ==
    /\ output > 0
    /\ output' = output - 1
    /\ UNCHANGED <<sourceVars, deb, pending, timer, resets, owed, debStop, debCtx>>

CancelDebouncer ==
    /\ deb # "off" /\ ~debCtx
    /\ debCtx' = TRUE
    /\ UNCHANGED <<sourceVars, runVars, debStop>>

-----------------------------------------------------------------------------
(* Start and run.                                                          *)

DebStart ==
    /\ deb = "off"
    /\ deb' = "select"
    /\ UNCHANGED <<sourceVars, pending, timer, resets, output, owed, debStop, debCtx>>

\* Mutant: a second change stops the timer and does not set it again.
DebReceiveNoReset ==
    /\ deb = "select" /\ source # <<>>
    /\ source' = Tail(source)
    /\ pending' = Head(source) /\ owed' = Head(source)
    /\ timer' = (pending = Nothing)
    /\ UNCHANGED <<sourceShut, offer, deb, resets, output, debStop, debCtx>>

DebReceive ==
    /\ deb = "select" /\ source # <<>>
    /\ source' = Tail(source)
    /\ pending' = Head(source) /\ owed' = Head(source)
    /\ timer' = TRUE /\ resets' = 1 - resets
    /\ UNCHANGED <<sourceShut, offer, deb, output, debStop, debCtx>>

\* The interval has passed since the last change.
DebFires ==
    /\ deb = "select" /\ timer
    /\ deb' = "emit" /\ timer' = FALSE
    /\ UNCHANGED <<sourceVars, pending, resets, output, owed, debStop, debCtx>>

PutOut == output' = output + 1 /\ owed' = IF owed = pending THEN Nothing ELSE owed

\* Mutant: a full output loses the change.
DebEmitOrDrop ==
    /\ deb = "emit"
    /\ IF output < OutRoom THEN PutOut ELSE UNCHANGED <<output, owed>>
    /\ pending' = Nothing /\ deb' = "select"
    /\ UNCHANGED <<sourceVars, timer, resets, debStop, debCtx>>

DebEmit ==
    /\ deb = "emit" /\ output < OutRoom
    /\ PutOut
    /\ pending' = Nothing /\ deb' = "select"
    /\ UNCHANGED <<sourceVars, timer, resets, debStop, debCtx>>

\* Mutant: run sees the context only between two changes.
DebLeaveIdle ==
    /\ deb = "select" /\ (debCtx \/ debStop # "idle") /\ pending = Nothing
    /\ deb' = "done" /\ timer' = FALSE /\ pending' = Nothing
    /\ UNCHANGED <<sourceVars, resets, output, owed, debStop, debCtx>>

\* The deferred calls stop the timer, close output and then stopped.
DebLeave ==
    /\ \/ deb = "select" /\ (debCtx \/ debStop # "idle")
       \/ deb = "emit" /\ debCtx
    /\ deb' = "done" /\ timer' = FALSE /\ pending' = Nothing
    /\ UNCHANGED <<sourceVars, resets, output, owed, debStop, debCtx>>

\* The source is closed: what is pending goes out if there is room for it.
DebSourceClosed ==
    /\ deb = "select" /\ sourceShut /\ source = <<>>
    /\ IF pending # Nothing /\ output < OutRoom THEN PutOut ELSE UNCHANGED <<output, owed>>
    /\ deb' = "done" /\ timer' = FALSE /\ pending' = Nothing
    /\ UNCHANGED <<sourceVars, resets, debStop, debCtx>>

-----------------------------------------------------------------------------
(* Stop.                                                                   *)

DebStopCall ==
    /\ debStop = "idle" /\ deb # "off"
    /\ debStop' = "wait"
    /\ UNCHANGED <<sourceVars, runVars, debCtx>>

DebStopReturn ==
    /\ debStop = "wait" /\ deb = "done"
    /\ debStop' = "stopped"
    /\ UNCHANGED <<sourceVars, runVars, debCtx>>

-----------------------------------------------------------------------------
(* The system.                                                             *)

DebNext ==
    \/ Offer \/ CloseSource \/ ReadOutput \/ CancelDebouncer
    \/ DebStart \/ DebReceive \/ DebFires \/ DebEmit \/ DebLeave \/ DebSourceClosed
    \/ DebStopCall \/ DebStopReturn

DebSpec == DebInit /\ [][DebNext]_debVars

\* The goroutine runs, and a select takes each branch that stays open some
\* time; but the timer fires only if it is not reset for a whole interval.
\* Nobody need send, read or cancel.
DebFairness ==
    /\ SF_debVars(DebReceive) /\ WF_debVars(DebSourceClosed)
    /\ \A n \in {0, 1} : WF_debVars(DebFires /\ resets = n)
    /\ WF_debVars(DebEmit) /\ SF_debVars(DebLeave) /\ WF_debVars(DebStopReturn)

-----------------------------------------------------------------------------
(* Properties.                                                             *)

\* A change the debouncer has received is put out, is pending, or was replaced
\* by a younger one, until the debouncer ends (watch.go:498-509).
NewestIsKept == deb \in {"select", "emit"} => owed = pending

\* A change is pending for ever only if changes keep coming, faster than the
\* interval, or nobody reads what is put out (watch.go:486-509).
OutputFull == deb = "emit" /\ output = OutRoom

PendingWaits ==
    <>[](pending # Nothing) => \/ []<>(resets = 0) /\ []<>(resets = 1)
                               \/ <>[]OutputFull

\* Stop hangs only while a change nobody reads blocks the debouncer in a send
\* that does not look at stop (watch.go:484, 502-509, 515-524).
StopHangsOnlyUnread == <>[](debStop = "wait") => <>[]OutputFull

=============================================================================
