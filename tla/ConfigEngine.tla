---------------------------- MODULE ConfigEngine ----------------------------
(***************************************************************************)
(* The state engine (core/state.go) under the operations of config.go that *)
(* write to it: Set, Delete, Restore, Merge, Reload and Close.             *)
(*                                                                         *)
(* Each of them reads what it builds on, builds a new map and hands it to  *)
(* Engine.Update, with no lock.  The read with which an operation begins,  *)
(* a closed check, a load or store of the state, a load of a source and a  *)
(* notification are one step each.  There may be several calls of Close.   *)
(***************************************************************************)
EXTENDS ConfigData, FiniteSets

CONSTANTS
    Writers,      \* goroutines that call the operations
    Closers,      \* calls of Config.Close
    Contents,     \* what the i-th source may return: a set for each i
    Others,       \* states of the configurations passed to Merge
    Kinds,        \* kinds of operation the writers call
    MaxOps,       \* bound: operations of one writer
    NoOp

ASSUME EngineAssumption ==
    /\ IsFiniteSet(Keys) /\ IsFiniteSet(Writers)
    /\ Contents \in [1..NumSources -> SUBSET Data]
    /\ Others \subseteq Data
    /\ MaxOps \in Nat
    /\ NoOp \notin Operation

VARIABLES
    state,     \* engine.state: the values and the version
    snapshot,  \* the last snapshot taken
    cfgClosed, \* Config.closed
    engClosed, \* Engine.closed
    obsClosed, \* ObserverManager.closed
    pc,        \* progress of a writer's operation
    op,        \* the operation
    new,       \* the values it has built
    old,       \* the state Update read before the swap
    pending,   \* keys whose events it has still to notify
    ops,       \* operations the writer has begun
    closePc,   \* progress of a call of Close
    \* history variables
    last,       \* the operation that made the current state
    pubs,       \* number of swaps
    overlapped, \* two swaps have overlapped
    replica,    \* raw values as an observer knows them from the events
    inFlight,   \* operations past Update's check when the engine was closed
    afterClose, \* operations begun after a call of Close had returned
    duringClose, \* operations begun between the two flags of a call of Close
    published   \* operations that have swapped the state

engine   == <<state, snapshot, cfgClosed, engClosed, obsClosed>>
writing  == <<pc, op, new, old, pending, ops>>
history  == <<last, pubs, overlapped, replica, inFlight, afterClose,
              duringClose, published>>
vars     == <<engine, writing, closePc, history>>

State == [data : Data, version : Nat]
Empty == [k \in Keys |-> Absent]

\* What an observer sees of a value: only the raw value makes an event.
Raw(v) == IF v = Absent THEN Absent ELSE v.raw

\* The current operation of w, for the history variables.
Id(w) == <<w, ops[w]>>
Ids == Writers \X (0..MaxOps)

TypeOK ==
    /\ state \in State
    /\ snapshot \in Data
    /\ cfgClosed \in BOOLEAN /\ engClosed \in BOOLEAN /\ obsClosed \in BOOLEAN
    /\ pc \in [Writers -> {"idle", "open", "loading", "built", "checked", "swap", "notify"}]
    /\ op \in [Writers -> Operation \cup {NoOp}]
    /\ \A w \in Writers : pc[w] # "idle" => op[w] # NoOp
    /\ \A w \in Writers : pc[w] = "loading" => op[w] \in Reloads
    /\ \A w \in Writers : pc[w] = "open" => op[w] \in Edits
    /\ new \in [Writers -> Data]
    /\ old \in [Writers -> State]
    /\ pending \in [Writers -> SUBSET Keys]
    /\ ops \in [Writers -> 0..MaxOps]
    /\ closePc \in [Closers -> {"idle", "swapped", "engine", "returned"}]
    /\ last \in Operation \cup {NoOp}
    /\ pubs \in Nat
    /\ overlapped \in BOOLEAN
    /\ replica \in [Keys -> Raws \cup {Absent}]
    /\ inFlight \subseteq Ids /\ published \subseteq Ids
    /\ afterClose \subseteq Ids /\ duringClose \subseteq Ids

Init ==
    /\ state = [data |-> Empty, version |-> 1]
    /\ snapshot = Empty
    /\ cfgClosed = FALSE /\ engClosed = FALSE /\ obsClosed = FALSE
    /\ pc = [w \in Writers |-> "idle"]
    /\ op = [w \in Writers |-> NoOp]
    /\ new = [w \in Writers |-> Empty]
    /\ old = [w \in Writers |-> state]
    /\ pending = [w \in Writers |-> {}]
    /\ ops = [w \in Writers |-> 0]
    /\ closePc = [c \in Closers |-> "idle"]
    /\ last = NoOp /\ pubs = 0 /\ overlapped = FALSE
    /\ replica = Empty
    /\ inFlight = {} /\ afterClose = {} /\ duringClose = {} /\ published = {}

-----------------------------------------------------------------------------
(* The operations of config.go, up to Engine.Update.                       *)

Begin(w, kind, next) ==
    LET begun == {<<w, ops[w] + 1>>}
    IN /\ pc[w] = "idle" /\ ops[w] < MaxOps /\ kind \in Kinds
       /\ ops' = [ops EXCEPT ![w] = @ + 1]
       /\ pc' = [pc EXCEPT ![w] = next]
       /\ afterClose' = afterClose \cup
              IF \E c \in Closers : closePc[c] = "returned" THEN begun ELSE {}
       /\ duringClose' = duringClose \cup
              IF \E c \in Closers : closePc[c] = "swapped" THEN begun ELSE {}
       /\ UNCHANGED <<engine, old, pending, closePc,
                      last, pubs, overlapped, replica, inFlight, published>>

Build(w, o, d) ==
    /\ op' = [op EXCEPT ![w] = o]
    /\ new' = [new EXCEPT ![w] = d]

Goto(w, next) == pc' = [pc EXCEPT ![w] = next]

\* Set and Delete check the configuration's flag, then read the state.
Set(w) ==
    /\ ~cfgClosed
    /\ Begin(w, "set", "open")
    /\ \E k \in Keys, r \in Raws : Build(w, [kind |-> "set", key |-> k, raw |-> r], Empty)

Delete(w) ==
    /\ ~cfgClosed
    /\ Begin(w, "delete", "open")
    /\ \E k \in Keys : Build(w, [kind |-> "delete", key |-> k], Empty)

Edited(o, d) ==
    [d EXCEPT ![o.key] = IF o.kind = "set" THEN [raw |-> o.raw, pri |-> SetPri] ELSE Absent]

Edit(w) ==
    /\ pc[w] = "open"
    /\ Goto(w, "built")
    /\ Build(w, op[w], Edited(op[w], state.data))
    /\ UNCHANGED <<engine, old, pending, ops, closePc, history>>

Restore(w) ==
    /\ Begin(w, "restore", "built")
    /\ Build(w, [kind |-> "restore", with |-> snapshot], snapshot)

\* merge.StrategyLast: the other configuration's keys win.
Merge(w) ==
    /\ Begin(w, "merge", "built")
    /\ \E other \in Others :
          Build(w, [kind |-> "merge", with |-> other],
                [k \in Keys |-> IF other[k] = Absent THEN state.data[k] ELSE other[k]])

\* Reload, that is Engine.Load: the closed check.
Reload(w) ==
    /\ ~engClosed
    /\ Begin(w, "reload", "loading")
    /\ Build(w, [kind |-> "reload", contents |-> <<>>], Empty)

\* Mutant: a source of the same priority replaces what an earlier one said.
MergeSourceLater(d, content) ==
    [k \in Keys |-> IF content[k] # Absent /\ (d[k] = Absent \/ content[k].pri >= d[k].pri)
                    THEN content[k] ELSE d[k]]

MergeSource(d, content) ==
    [k \in Keys |-> IF content[k] # Absent /\ (d[k] = Absent \/ content[k].pri > d[k].pri)
                    THEN content[k] ELSE d[k]]

\* The next source is loaded and merged by priority.
LoadSource(w) ==
    LET i == Len(op[w].contents) + 1
    IN /\ pc[w] = "loading" /\ i <= NumSources
       /\ \E content \in Contents[i] :
             Build(w, [kind |-> "reload", contents |-> Append(op[w].contents, content)],
                   MergeSource(new[w], content))
       /\ UNCHANGED <<engine, pc, old, pending, ops, closePc, history>>

Loaded(w) ==
    /\ pc[w] = "loading" /\ Len(op[w].contents) = NumSources
    /\ Goto(w, "built")
    /\ UNCHANGED <<engine, op, new, old, pending, ops, closePc, history>>

\* A source fails, or a hook before the load: Reload returns the error.
LoadFails(w) ==
    /\ pc[w] = "loading"
    /\ Goto(w, "idle")
    /\ UNCHANGED <<engine, op, new, old, pending, ops, closePc, history>>

-----------------------------------------------------------------------------
(* Engine.Update.                                                          *)

\* Mutant: the engine does not look at its flag.
UpdateUnchecked(w) ==
    /\ pc[w] = "built"
    /\ Goto(w, "checked")
    /\ UNCHANGED <<engine, op, new, old, pending, ops, closePc, history>>

UpdateCheck(w) ==
    /\ pc[w] = "built"
    /\ Goto(w, IF engClosed THEN "idle" ELSE "checked")
    /\ UNCHANGED <<engine, op, new, old, pending, ops, closePc, history>>

\* A hook of type BeforeSet fails.
BeforeSetFails(w) ==
    /\ pc[w] = "checked"
    /\ Goto(w, "idle")
    /\ UNCHANGED <<engine, op, new, old, pending, ops, closePc, history>>

\* The hooks have succeeded; the old state is read.
ReadOld(w) ==
    /\ pc[w] = "checked"
    /\ Goto(w, "swap")
    /\ old' = [old EXCEPT ![w] = state]
    /\ overlapped' = (overlapped \/ \E v \in Writers \ {w} : pc[v] \in {"swap", "notify"})
    /\ UNCHANGED <<engine, op, new, pending, ops, closePc,
                   last, pubs, replica, inFlight, afterClose, duringClose, published>>

\* Mutant: nothing is notified for a key that has disappeared.
ChangedButNotDeleted(before, after) ==
    {k \in Keys : after[k] # Absent /\ Raw(before[k]) # Raw(after[k])}

\* The keys with an event: created, updated or deleted.
Changed(before, after) == {k \in Keys : Raw(before[k]) # Raw(after[k])}

\* Mutant: the version is not incremented.
NextVersionSame(s) == s.version
NextVersion(s) == s.version + 1

Swap(w) ==
    /\ pc[w] = "swap"
    /\ state' = [data |-> new[w], version |-> NextVersion(old[w])]
    /\ pending' = [pending EXCEPT ![w] = Changed(old[w].data, new[w])]
    /\ Goto(w, "notify")
    /\ last' = op[w]
    /\ pubs' = pubs + 1
    /\ published' = published \cup {Id(w)}
    /\ UNCHANGED <<snapshot, cfgClosed, engClosed, obsClosed, op, new, old, ops, closePc,
                   overlapped, replica, inFlight, afterClose, duringClose>>

\* One event; deletions come after the others, in no order otherwise.
Notify(w, k) ==
    /\ pc[w] = "notify" /\ k \in pending[w]
    /\ new[w][k] = Absent => \A j \in pending[w] : new[w][j] = Absent
    /\ pending' = [pending EXCEPT ![w] = @ \ {k}]
    /\ replica' = IF obsClosed THEN replica ELSE [replica EXCEPT ![k] = Raw(new[w][k])]
    /\ UNCHANGED <<engine, pc, op, new, old, ops, closePc,
                   last, pubs, overlapped, inFlight, afterClose, duringClose, published>>

\* The hooks after the swap succeed or fail, and the operation returns.
Return(w) ==
    /\ pc[w] = "notify" /\ pending[w] = {}
    /\ Goto(w, "idle")
    /\ UNCHANGED <<engine, op, new, old, pending, ops, closePc, history>>

-----------------------------------------------------------------------------
(* Snapshot, and Config.Close: its own flag first, the engine's last.      *)

TakeSnapshot ==
    /\ "restore" \in Kinds
    /\ snapshot' = state.data
    /\ UNCHANGED <<state, cfgClosed, engClosed, obsClosed, writing, closePc, history>>

Close(c) ==
    /\ closePc[c] = "idle"
    /\ cfgClosed' = TRUE
    /\ closePc' = [closePc EXCEPT ![c] = IF cfgClosed THEN "returned" ELSE "swapped"]
    /\ UNCHANGED <<state, snapshot, engClosed, obsClosed, writing, history>>

\* The sources are closed; Engine.Close swaps the engine's flag.
CloseEngine(c) ==
    /\ closePc[c] = "swapped"
    /\ engClosed' = TRUE
    /\ closePc' = [closePc EXCEPT ![c] = "engine"]
    /\ inFlight' = {Id(w) : w \in {v \in Writers : pc[v] \in {"checked", "swap"}}}
    /\ UNCHANGED <<state, snapshot, cfgClosed, obsClosed, writing,
                   last, pubs, overlapped, replica, afterClose, duringClose, published>>

CloseObservers(c) ==
    /\ closePc[c] = "engine"
    /\ obsClosed' = TRUE
    /\ closePc' = [closePc EXCEPT ![c] = "returned"]
    /\ UNCHANGED <<state, snapshot, cfgClosed, engClosed, writing, history>>

-----------------------------------------------------------------------------
(* The system.                                                             *)

Operate(w) ==
    \/ Set(w) \/ Delete(w) \/ Edit(w) \/ Restore(w) \/ Merge(w)
    \/ Reload(w) \/ LoadSource(w) \/ Loaded(w) \/ LoadFails(w)
Update(w) ==
    \/ UpdateCheck(w) \/ BeforeSetFails(w) \/ ReadOld(w) \/ Swap(w)
    \/ \E k \in Keys : Notify(w, k)
    \/ Return(w)

Next ==
    \/ \E w \in Writers : Operate(w) \/ Update(w)
    \/ TakeSnapshot
    \/ \E c \in Closers : Close(c) \/ CloseEngine(c) \/ CloseObservers(c)

Spec == Init /\ [][Next]_vars

\* The lock the write path is documented with (README.md:384): one operation
\* at a time, from its first read to its return.
OneWriter == \A v, w \in Writers : pc[v] # "idle" /\ pc[w] # "idle" => v = w

SerialSpec == Init /\ [][Next /\ OneWriter']_vars

-----------------------------------------------------------------------------
(* Properties.                                                             *)

\* Under one writer at a time the engine is an atomic configuration: what an
\* operation publishes is its effect on the state it replaces, and nothing
\* else ever changes the state, a failed Reload or hook included
\* (state.go:245-308, config.go:321-373, 438-446, 790-804).
Atomic == INSTANCE AtomicConfig WITH data <- state.data, version <- state.version
AtomicSpec == Atomic!Spec

\* The version counts the swaps, unless two swaps have overlapped; it never
\* counts more (state.go:256-262).
VersionCountsSwaps ==
    /\ state.version <= pubs + 1
    /\ ~overlapped => state.version = pubs + 1

\* An observer that replays the events knows the engine's raw values whenever
\* no Update is notifying, unless two swaps have overlapped or the observers
\* were closed: no change is left out and none is reported wrong
\* (state.go:334-379).
ReplicaFollows ==
    (~overlapped /\ ~obsClosed /\ \A w \in Writers : pc[w] # "notify")
        => \A k \in Keys : replica[k] = Raw(state.data[k])

\* What Close still lets through, however many calls of it there are.  Each
\* operation takes effect once.  When the engine is closed, only one that was
\* past Update's check at that moment does; the second check stops a Reload
\* that was loading its sources.  Between the two flags of Close a Restore,
\* Merge or Reload may still be begun, but no Set or Delete.  A call of Close
\* that has returned stops all others, unless it was a second one, which
\* returns at once, and the first was still between its flags
\* (config.go:322, 345, 557-577, state.go:246, 273).
CloseHolds ==
    [][pubs' # pubs =>
          LET swapped == published' \ published
          IN /\ swapped # {}
             /\ engClosed => swapped \subseteq inFlight
             /\ swapped \cap afterClose \subseteq duringClose
             /\ last'.kind \in {"set", "delete"} =>
                    swapped \cap (afterClose \cup duringClose) = {}]_vars

\* An operation that takes effect is applied to the values it replaces: no
\* other operation is undone by it (README.md:384, config.go:321-341).
NothingIsLost == [][state' # state => state'.data = Atomic!Apply(last', state.data)]_vars

=============================================================================
