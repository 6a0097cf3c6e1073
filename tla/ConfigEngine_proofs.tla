------------------------ MODULE ConfigEngine_proofs ------------------------
(***************************************************************************)
(* Proofs about ConfigEngine for all values of its constants.              *)
(***************************************************************************)
EXTENDS ConfigEngine, TLAPS

USE DataAssumption, EngineAssumption DEF engine, writing, history, Edits

-----------------------------------------------------------------------------
(* Type correctness.                                                       *)

LEMMA RawType == \A v \in Value \cup {Absent} : Raw(v) \in Raws \cup {Absent}
  BY DEF Raw, Value

LEMMA EmptyType == Empty \in Data
  BY DEF Empty, Data

\* What an operation builds is a map of values.
LEMMA BuildType ==
  ASSUME NEW d \in Data, NEW e \in Data
  PROVE  /\ [j \in Keys |-> IF e[j] = Absent THEN d[j] ELSE e[j]] \in Data
         /\ MergeSource(d, e) \in Data
         /\ \A o \in Edits : Edited(o, d) \in Data
<1>1. /\ [j \in Keys |-> IF e[j] = Absent THEN d[j] ELSE e[j]] \in Data
      /\ MergeSource(d, e) \in Data
  BY DEF Data, MergeSource
<1>2. ASSUME NEW o \in Edits PROVE Edited(o, d) \in Data
  <2>1. o.key \in Keys /\ (o.kind = "set" => [raw |-> o.raw, pri |-> SetPri] \in Value)
    BY <1>2 DEF Value
  <2> QED  BY <2>1 DEF Edited, Data
<1> QED  BY <1>1, <1>2

LEMMA TypeInit == Init => TypeOK
<1> SUFFICES ASSUME Init PROVE TypeOK
  OBVIOUS
<1>1. state \in State /\ snapshot \in Data
  BY EmptyType DEF Init, State
<1>2. replica \in [Keys -> Raws \cup {Absent}]
  BY DEF Init, Empty
<1>3. /\ pc \in [Writers -> {"idle"}] /\ ops \in [Writers -> 0..MaxOps]
      /\ op \in [Writers -> Operation \cup {NoOp}]
  BY DEF Init
<1>4. new \in [Writers -> Data] /\ old \in [Writers -> State]
  BY <1>1, EmptyType DEF Init
<1>5. /\ pending \in [Writers -> SUBSET Keys]
      /\ closePc \in [Closers -> {"idle", "swapped", "engine", "returned"}]
  BY DEF Init
<1>6. /\ cfgClosed \in BOOLEAN /\ engClosed \in BOOLEAN /\ obsClosed \in BOOLEAN
      /\ last \in Operation \cup {NoOp} /\ pubs \in Nat /\ overlapped \in BOOLEAN
      /\ inFlight \subseteq Ids /\ published \subseteq Ids
      /\ afterClose \subseteq Ids /\ duringClose \subseteq Ids
  BY DEF Init
<1>7. \A w \in Writers : pc[w] = "idle"
  BY <1>3
<1> QED  BY <1>1, <1>2, <1>3, <1>4, <1>5, <1>6, <1>7 DEF TypeOK

LEMMA TypeBegin ==
  ASSUME TypeOK, NEW w \in Writers, NEW kind, NEW next \in {"built", "open", "loading"},
         Begin(w, kind, next), NEW o \in Operation, NEW d \in Data, Build(w, o, d),
         next = "loading" => o \in Reloads, next = "open" => o \in Edits
  PROVE  TypeOK'
<1>1. o # NoOp
  OBVIOUS
<1>2. ops' \in [Writers -> 0..MaxOps] /\ <<w, ops[w] + 1>> \in Ids
  BY DEF TypeOK, Begin, Ids
<1>3. afterClose' \subseteq Ids /\ duringClose' \subseteq Ids
  BY <1>2 DEF TypeOK, Begin
<1> QED  BY <1>1, <1>2, <1>3 DEF TypeOK, Begin, Build

LEMMA TypeOperate == ASSUME TypeOK, NEW w \in Writers, Operate(w) PROVE TypeOK'
<1> USE DEF Operation, Reloads
<1>1. CASE Set(w)
  <2>1. PICK k \in Keys, r \in Raws : Build(w, [kind |-> "set", key |-> k, raw |-> r], Empty)
    BY <1>1 DEF Set
  <2>2. Begin(w, "set", "open")
    BY <1>1 DEF Set
  <2>3. [kind |-> "set", key |-> k, raw |-> r] \in Edits
    OBVIOUS
  <2> QED  BY <2>1, <2>2, <2>3, EmptyType, TypeBegin
<1>2. CASE Delete(w)
  <2>1. PICK k \in Keys : Build(w, [kind |-> "delete", key |-> k], Empty)
    BY <1>2 DEF Delete
  <2>2. Begin(w, "delete", "open")
    BY <1>2 DEF Delete
  <2>3. [kind |-> "delete", key |-> k] \in Edits
    OBVIOUS
  <2> QED  BY <2>1, <2>2, <2>3, EmptyType, TypeBegin
<1>8. CASE Edit(w)
  <2>1. op[w] \in Edits /\ state.data \in Data
    BY <1>8 DEF TypeOK, State, Edit
  <2>2. Edited(op[w], state.data) \in Data
    BY <2>1, BuildType, EmptyType
  <2> HIDE DEF Edits
  <2> QED  BY <1>8, <2>1, <2>2 DEF TypeOK, Edit, Build, Goto
<1>3. CASE Restore(w)
  <2>1. [kind |-> "restore", with |-> snapshot] \in Operation /\ snapshot \in Data
    BY DEF TypeOK
  <2> QED  BY <1>3, <2>1, TypeBegin DEF Restore
<1>4. CASE Merge(w)
  <2>1. PICK other \in Others :
           Build(w, [kind |-> "merge", with |-> other],
                 [k \in Keys |-> IF other[k] = Absent THEN state.data[k] ELSE other[k]])
    BY <1>4 DEF Merge
  <2>2. state.data \in Data /\ other \in Data /\ Begin(w, "merge", "built")
    BY <1>4 DEF TypeOK, State, Merge
  <2>3. [k \in Keys |-> IF other[k] = Absent THEN state.data[k] ELSE other[k]] \in Data
    BY <2>2 DEF Data
  <2>4. [kind |-> "merge", with |-> other] \in Operation
    BY <2>2
  <2> QED  BY <2>1, <2>2, <2>3, <2>4, TypeBegin
<1>5. CASE Reload(w)
  <2>1. [kind |-> "reload", contents |-> <<>>] \in Reloads
    OBVIOUS
  <2> QED  BY <1>5, <2>1, TypeBegin, EmptyType DEF Reload
<1>6. CASE LoadSource(w)
  <2> DEFINE i == Len(op[w].contents) + 1
  <2>1. op[w] \in Reloads /\ op[w].contents \in Seq(Data) /\ i \in 1..NumSources
    BY <1>6 DEF TypeOK, LoadSource
  <2>2. PICK content \in Contents[i] :
           Build(w, [kind |-> "reload", contents |-> Append(op[w].contents, content)],
                 MergeSource(new[w], content))
    BY <1>6 DEF LoadSource
  <2>3. content \in Data /\ new[w] \in Data
    BY <2>1, <2>2 DEF TypeOK
  <2>4. MergeSource(new[w], content) \in Data
    BY <2>3 DEF MergeSource, Data
  <2>5. [kind |-> "reload", contents |-> Append(op[w].contents, content)] \in Reloads
    BY <2>1, <2>3
  <2>6. UNCHANGED <<engine, pc, old, pending, ops, closePc, history>>
    BY <1>6 DEF LoadSource
  <2>7. pc[w] = "loading"
    BY <1>6 DEF LoadSource
  <2>8. /\ op' = [op EXCEPT ![w] = [kind |-> "reload", contents |-> Append(op[w].contents, content)]]
        /\ new' = [new EXCEPT ![w] = MergeSource(new[w], content)]
    BY <2>2 DEF Build
  <2>9. /\ op'[w] \in Reloads /\ op'[w] # NoOp /\ op' \in [Writers -> Operation \cup {NoOp}]
        /\ \A v \in Writers \ {w} : op'[v] = op[v]
    BY <2>5, <2>8 DEF TypeOK
  <2>10. new' \in [Writers -> Data]
    BY <2>4, <2>8 DEF TypeOK
  <2> HIDE DEF Edits, Operation, Reloads
  <2> QED  BY <2>6, <2>7, <2>9, <2>10 DEF TypeOK
<1>7. CASE Loaded(w) \/ LoadFails(w)
  <2>1. CASE Loaded(w)
    BY <2>1 DEF TypeOK, Loaded, Goto
  <2>2. CASE LoadFails(w)
    BY <2>2 DEF TypeOK, LoadFails, Goto
  <2> QED  BY <1>7, <2>1, <2>2
<1> QED  BY <1>1, <1>2, <1>3, <1>4, <1>5, <1>6, <1>7, <1>8 DEF Operate

LEMMA TypeUpdate == ASSUME TypeOK, NEW w \in Writers, Update(w) PROVE TypeOK'
<1>1. CASE UpdateCheck(w) \/ BeforeSetFails(w) \/ Return(w)
  BY <1>1 DEF TypeOK, UpdateCheck, BeforeSetFails, Return, Goto
<1>2. CASE ReadOld(w)
  BY <1>2 DEF TypeOK, ReadOld, Goto
<1>3. CASE Swap(w)
  <2>1. /\ new[w] \in Data /\ old[w].version + 1 \in Nat
        /\ op[w] \in Operation /\ Id(w) \in Ids
        /\ Changed(old[w].data, new[w]) \subseteq Keys
    BY <1>3 DEF TypeOK, Swap, State, Id, Ids, Changed
  <2>2. state' \in State
    BY <1>3, <2>1 DEF Swap, NextVersion, State
  <2> QED  BY <1>3, <2>1, <2>2 DEF TypeOK, Swap, Goto
<1>4. ASSUME NEW k \in Keys, Notify(w, k) PROVE TypeOK'
  <2>1. Raw(new[w][k]) \in Raws \cup {Absent}
    BY RawType DEF TypeOK, Data
  <2> QED  BY <1>4, <2>1 DEF TypeOK, Notify
<1> QED  BY <1>1, <1>2, <1>3, <1>4 DEF Update

LEMMA TypeRest ==
  ASSUME TypeOK,
         TakeSnapshot \/ \E c \in Closers : Close(c) \/ CloseEngine(c) \/ CloseObservers(c)
  PROVE  TypeOK'
<1>1. CASE TakeSnapshot
  BY <1>1 DEF TypeOK, State, TakeSnapshot
<1>2. ASSUME NEW c \in Closers, Close(c) \/ CloseObservers(c) PROVE TypeOK'
  BY <1>2 DEF TypeOK, Close, CloseObservers
<1>3. ASSUME NEW c \in Closers, CloseEngine(c) PROVE TypeOK'
  <2>1. inFlight' \subseteq Ids
    BY <1>3 DEF TypeOK, CloseEngine, Id, Ids
  <2> QED  BY <1>3, <2>1 DEF TypeOK, CloseEngine
<1> QED  BY <1>1, <1>2, <1>3

LEMMA TypeNext == TypeOK /\ [Next]_vars => TypeOK'
<1>1. ASSUME TypeOK, UNCHANGED vars PROVE TypeOK'
  BY <1>1 DEF vars, TypeOK
<1> QED  BY <1>1, TypeOperate, TypeUpdate, TypeRest DEF Next

\* Every variable keeps its type: what is published is always a map of values.
THEOREM TypeCorrect == Spec => []TypeOK
  BY TypeInit, TypeNext, PTL DEF Spec

-----------------------------------------------------------------------------
(* Versions and events.  As long as no two swaps have overlapped, the old   *)
(* state of a writer about to swap is the current one, nobody else is past  *)
(* that read, and the observers are behind by the pending events exactly.   *)

VersionInv ==
    /\ state.version <= pubs + 1
    /\ \A w \in Writers : pc[w] = "swap" => old[w].version <= pubs + 1
    /\ ~overlapped => state.version = pubs + 1

OneSwapInv ==
    ~overlapped =>
        /\ \A v, w \in Writers : pc[v] \in {"swap", "notify"} /\ pc[w] \in {"swap", "notify"}
                                    => v = w
        /\ \A w \in Writers : pc[w] = "swap" => old[w] = state

NotifyingInv ==
    (~overlapped /\ ~obsClosed) =>
        /\ ReplicaFollows
        /\ \A w \in Writers : pc[w] = "notify" =>
              /\ state.data = new[w]
              /\ \A k \in Keys : replica[k] = IF k \in pending[w] THEN Raw(old[w].data[k])
                                                                  ELSE Raw(new[w][k])

EventsInv == TypeOK /\ VersionInv /\ OneSwapInv /\ NotifyingInv

\* The steps that neither swap nor notify.
LEMMA EventsQuiet ==
  ASSUME EventsInv, TypeOK', UNCHANGED <<state, old, pending, pubs, overlapped, replica>>,
         obsClosed' = obsClosed \/ obsClosed',
         \A w \in Writers :
            \/ pc'[w] = pc[w] /\ (pc[w] = "notify" => new'[w] = new[w])
            \/ pc[w] # "notify" /\ pc'[w] \notin {"swap", "notify"}
            \/ pc[w] = "notify" /\ pc'[w] = "idle" /\ pending[w] = {}
  PROVE  EventsInv'
<1>1. VersionInv'
  BY DEF EventsInv, VersionInv
<1>2. OneSwapInv'
  BY DEF EventsInv, OneSwapInv
<1>3. ASSUME ~overlapped', ~obsClosed' PROVE ReplicaFollows'
  <2>1. CASE \A w \in Writers : pc[w] # "notify"
    BY <1>3, <2>1 DEF EventsInv, NotifyingInv, ReplicaFollows
  <2>2. ASSUME NEW w \in Writers, pc[w] = "notify", pc'[w] # "notify"
        PROVE  \A k \in Keys : replica'[k] = Raw(state'.data[k])
    <3>1. pending[w] = {}
      BY <2>2
    <3> QED  BY <1>3, <2>2, <3>1 DEF EventsInv, NotifyingInv
  <2> QED  BY <1>3, <2>1, <2>2 DEF ReplicaFollows
<1>4. ASSUME ~overlapped', ~obsClosed', NEW w \in Writers, pc'[w] = "notify"
      PROVE  /\ state'.data = new'[w]
             /\ \A k \in Keys : replica'[k] = IF k \in pending'[w] THEN Raw(old'[w].data[k])
                                                                   ELSE Raw(new'[w][k])
  <2>1. pc[w] = "notify" /\ new'[w] = new[w]
    BY <1>4
  <2> QED  BY <1>4, <2>1 DEF EventsInv, NotifyingInv
<1> QED  BY <1>1, <1>2, <1>3, <1>4 DEF EventsInv, NotifyingInv

LEMMA EventsOperate ==
  ASSUME EventsInv, TypeOK', NEW w \in Writers, Operate(w) PROVE EventsInv'
<1>1. UNCHANGED <<state, old, pending, pubs, overlapped, replica, obsClosed>>
  BY DEF Operate, Set, Delete, Edit, Restore, Merge, Reload, LoadSource, Loaded, LoadFails, Begin
<1>2. pc[w] \in {"idle", "open", "loading"} /\ pc'[w] \in {"idle", "open", "loading", "built"}
  BY DEF Operate, Set, Delete, Edit, Restore, Merge, Reload, LoadSource, Loaded, LoadFails, Begin,
         Goto, EventsInv, TypeOK
<1>3. \A v \in Writers \ {w} : pc'[v] = pc[v] /\ new'[v] = new[v]
  BY DEF Operate, Set, Delete, Edit, Restore, Merge, Reload, LoadSource, Loaded, LoadFails, Begin,
         Build, Goto, EventsInv, TypeOK
<1> QED  BY <1>1, <1>2, <1>3, EventsQuiet

LEMMA EventsUpdate ==
  ASSUME EventsInv, TypeOK', NEW w \in Writers, Update(w) PROVE EventsInv'
<1>1. CASE UpdateCheck(w) \/ BeforeSetFails(w) \/ Return(w)
  <2>1. UNCHANGED <<state, old, new, pending, pubs, overlapped, replica, obsClosed>>
    BY <1>1 DEF UpdateCheck, BeforeSetFails, Return
  <2>2. \A v \in Writers :
           \/ pc'[v] = pc[v]
           \/ pc[v] # "notify" /\ pc'[v] \notin {"swap", "notify"}
           \/ pc[v] = "notify" /\ pc'[v] = "idle" /\ pending[v] = {}
    BY <1>1 DEF UpdateCheck, BeforeSetFails, Return, Goto, EventsInv, TypeOK
  <2> QED  BY <2>1, <2>2, EventsQuiet
<1>2. CASE ReadOld(w)
  <2>1. /\ pc[w] = "checked" /\ pc' = [pc EXCEPT ![w] = "swap"]
        /\ old' = [old EXCEPT ![w] = state]
        /\ overlapped' = (overlapped \/ \E v \in Writers \ {w} : pc[v] \in {"swap", "notify"})
        /\ UNCHANGED <<state, new, pending, pubs, replica, obsClosed>>
    BY <1>2 DEF ReadOld, Goto
  <2>2. pc'[w] = "swap" /\ old'[w] = state
        /\ \A v \in Writers \ {w} : pc'[v] = pc[v] /\ old'[v] = old[v]
    BY <2>1 DEF EventsInv, TypeOK
  <2>3. VersionInv'
    BY <2>1, <2>2 DEF EventsInv, VersionInv
  <2>4. OneSwapInv'
    BY <2>1, <2>2 DEF EventsInv, OneSwapInv
  <2>5. NotifyingInv'
    BY <2>1, <2>2 DEF EventsInv, NotifyingInv, ReplicaFollows
  <2> QED  BY <2>3, <2>4, <2>5 DEF EventsInv
<1>3. CASE Swap(w)
  <2>1. /\ pc[w] = "swap" /\ pc' = [pc EXCEPT ![w] = "notify"]
        /\ state' = [data |-> new[w], version |-> old[w].version + 1]
        /\ pending' = [pending EXCEPT ![w] = Changed(old[w].data, new[w])]
        /\ pubs' = pubs + 1
        /\ UNCHANGED <<new, old, overlapped, replica, obsClosed>>
    BY <1>3 DEF Swap, Goto, NextVersion
  <2>2. /\ pc'[w] = "notify" /\ pending'[w] = Changed(old[w].data, new[w])
        /\ \A v \in Writers \ {w} : pc'[v] = pc[v]
    BY <2>1 DEF EventsInv, TypeOK
  <2>3. pubs \in Nat /\ state.version \in Nat /\ \A v \in Writers : old[v].version \in Nat
    BY DEF EventsInv, TypeOK, State
  <2>4. VersionInv'
    <3>1. state'.version = old[w].version + 1
      BY <2>1
    <3>2. old[w].version <= pubs + 1 /\ (~overlapped => old[w].version = pubs + 1)
      BY <2>1 DEF EventsInv, VersionInv, OneSwapInv
    <3>3. \A v \in Writers : pc'[v] = "swap" => old'[v].version <= pubs' + 1
      BY <2>1, <2>2, <2>3 DEF EventsInv, VersionInv
    <3> QED  BY <2>1, <2>3, <3>1, <3>2, <3>3 DEF VersionInv
  <2>5. OneSwapInv'
    BY <2>1, <2>2 DEF EventsInv, OneSwapInv
  <2>6. ASSUME ~overlapped, ~obsClosed
        PROVE  /\ \A v \in Writers : pc'[v] = "notify" => v = w
               /\ \A k \in Keys : replica[k] = Raw(old[w].data[k])
    BY <2>1, <2>2, <2>6 DEF EventsInv, OneSwapInv, NotifyingInv, ReplicaFollows
  <2>7. NotifyingInv'
    BY <2>1, <2>2, <2>6 DEF NotifyingInv, ReplicaFollows, Changed
  <2> QED  BY <2>4, <2>5, <2>7 DEF EventsInv
<1>4. ASSUME NEW k \in Keys, Notify(w, k) PROVE EventsInv'
  <2>1. /\ pc[w] = "notify" /\ k \in pending[w]
        /\ pending' = [pending EXCEPT ![w] = @ \ {k}]
        /\ ~obsClosed => replica' = [replica EXCEPT ![k] = Raw(new[w][k])]
        /\ UNCHANGED <<state, pc, new, old, pubs, overlapped, obsClosed>>
    BY <1>4 DEF Notify
  <2>2. pending'[w] = pending[w] \ {k}
    BY <2>1 DEF EventsInv, TypeOK
  <2>3. ASSUME ~obsClosed
        PROVE  replica'[k] = Raw(new[w][k]) /\ \A j \in Keys \ {k} : replica'[j] = replica[j]
    BY <2>1, <2>3 DEF EventsInv, TypeOK
  <2>4. VersionInv' /\ OneSwapInv'
    BY <2>1 DEF EventsInv, VersionInv, OneSwapInv
  <2>5. NotifyingInv'
    BY <2>1, <2>2, <2>3 DEF EventsInv, OneSwapInv, NotifyingInv, ReplicaFollows
  <2> QED  BY <2>4, <2>5 DEF EventsInv
<1> QED  BY <1>1, <1>2, <1>3, <1>4 DEF Update

LEMMA EventsInit == Init => EventsInv
<1> SUFFICES ASSUME Init PROVE EventsInv
  OBVIOUS
<1>1. TypeOK /\ \A w \in Writers : pc[w] = "idle"
  BY TypeInit DEF Init
<1>2. state.version = pubs + 1 /\ pubs \in Nat
  BY DEF Init
<1>3. \A k \in Keys : replica[k] = Raw(state.data[k])
  BY DEF Init, Empty, Raw
<1> QED  BY <1>1, <1>2, <1>3 DEF EventsInv, VersionInv, OneSwapInv, NotifyingInv, ReplicaFollows

LEMMA EventsNext == EventsInv /\ [Next]_vars => EventsInv'
<1> SUFFICES ASSUME EventsInv, [Next]_vars PROVE EventsInv'
  OBVIOUS
<1>1. TypeOK'
  BY TypeNext DEF EventsInv
<1>2. CASE UNCHANGED vars
  BY <1>1, <1>2, EventsQuiet DEF vars
<1>3. CASE \E w \in Writers : Operate(w) \/ Update(w)
  BY <1>1, <1>3, EventsOperate, EventsUpdate
<1>4. CASE TakeSnapshot \/ \E c \in Closers : Close(c) \/ CloseEngine(c) \/ CloseObservers(c)
  <2>1. UNCHANGED <<state, old, new, pc, pending, pubs, overlapped, replica>>
    BY <1>4 DEF TakeSnapshot, Close, CloseEngine, CloseObservers
  <2>2. obsClosed' = obsClosed \/ obsClosed'
    BY <1>4 DEF TakeSnapshot, Close, CloseEngine, CloseObservers
  <2> QED  BY <1>1, <2>1, <2>2, EventsQuiet
<1> QED  BY <1>2, <1>3, <1>4 DEF Next

\* The version of the state never exceeds the number of swaps that made it,
\* and counts them exactly while no two swaps have overlapped: for any number
\* of writers, keys and sources (state.go:256-262).
THEOREM VersionsCount == Spec => []VersionCountsSwaps
<1>1. EventsInv => VersionCountsSwaps
  BY DEF EventsInv, VersionInv, VersionCountsSwaps
<1> QED  BY <1>1, EventsInit, EventsNext, PTL DEF Spec

\* Replaying the events gives the engine's raw values whenever nobody is
\* notifying: no event is missing and none is wrong, whatever the order in
\* which the events of one Update are sent (state.go:334-379).
THEOREM ObserversFollow == Spec => []ReplicaFollows
<1>1. EventsInv => ReplicaFollows
  BY DEF EventsInv, NotifyingInv, ReplicaFollows
<1> QED  BY <1>1, EventsInit, EventsNext, PTL DEF Spec

-----------------------------------------------------------------------------
(* Close.  One call at most gets past Config.Close's swap of the flag, so   *)
(* the engine is closed once, and what is past Update's check then is all    *)
(* that ever will be.                                                       *)

ClosersInv ==
    /\ ~cfgClosed => \A c \in Closers : closePc[c] = "idle"
    /\ \A c, d \in Closers : closePc[c] = "swapped" /\ closePc[d] = "swapped" => c = d
    /\ engClosed => cfgClosed /\ \A c \in Closers : closePc[c] # "swapped"

\* An operation has published only if it is past its swap or over.
PublishedInv ==
    \A w \in Writers, n \in 0..MaxOps : <<w, n>> \in published =>
        n < ops[w] \/ (n = ops[w] /\ pc[w] \in {"notify", "idle"})

PastCheckInv ==
    engClosed => \A w \in Writers : pc[w] \in {"checked", "swap"} => Id(w) \in inFlight

CloseInv == TypeOK /\ ClosersInv /\ PublishedInv /\ PastCheckInv

LEMMA CloseInit == Init => CloseInv
  BY TypeInit DEF Init, CloseInv, ClosersInv, PublishedInv, PastCheckInv

\* The steps of a writer's operation that do not publish.
LEMMA CloseQuiet ==
  ASSUME CloseInv, TypeOK', NEW w \in Writers,
         UNCHANGED <<cfgClosed, engClosed, closePc, inFlight, published>>,
         \A v \in Writers \ {w} : pc'[v] = pc[v] /\ ops'[v] = ops[v],
         \/ ops'[w] = ops[w] + 1 /\ pc'[w] \in {"built", "open", "loading"}
         \/ /\ ops'[w] = ops[w]
            /\ \/ pc[w] \notin {"idle", "notify"}
               \/ pc'[w] = "idle"
            /\ pc'[w] \in {"checked", "swap"} =>
                  ~engClosed \/ pc[w] \in {"checked", "swap"}
  PROVE  CloseInv'
<1>1. ClosersInv'
  BY DEF CloseInv, ClosersInv
<1>2. PublishedInv'
  <2> SUFFICES ASSUME NEW v \in Writers, NEW n \in 0..MaxOps, <<v, n>> \in published
               PROVE  n < ops'[v] \/ (n = ops'[v] /\ pc'[v] \in {"notify", "idle"})
    BY DEF PublishedInv
  <2>1. n < ops[v] \/ (n = ops[v] /\ pc[v] \in {"notify", "idle"})
    BY DEF CloseInv, PublishedInv
  <2>2. ops[v] \in Nat /\ n \in Nat
    BY DEF CloseInv, TypeOK
  <2> QED  BY <2>1, <2>2
<1>3. PastCheckInv'
  BY DEF CloseInv, PastCheckInv, Id
<1> QED  BY <1>1, <1>2, <1>3 DEF CloseInv

LEMMA CloseOperate ==
  ASSUME CloseInv, TypeOK', NEW w \in Writers, Operate(w) PROVE CloseInv'
<1>1. UNCHANGED <<cfgClosed, engClosed, closePc, inFlight, published>>
  BY DEF Operate, Set, Delete, Edit, Restore, Merge, Reload, LoadSource, Loaded, LoadFails, Begin
<1>2. \/ ops'[w] = ops[w] + 1 /\ pc'[w] \in {"built", "open", "loading"}
      \/ /\ ops'[w] = ops[w] /\ pc[w] \in {"open", "loading"}
         /\ pc'[w] \in {"loading", "built", "idle"}
  BY DEF Operate, Set, Delete, Edit, Restore, Merge, Reload, LoadSource, Loaded, LoadFails, Begin,
         Goto, CloseInv, TypeOK
<1>3. \A v \in Writers \ {w} : pc'[v] = pc[v] /\ ops'[v] = ops[v]
  BY DEF Operate, Set, Delete, Edit, Restore, Merge, Reload, LoadSource, Loaded, LoadFails, Begin,
         Goto, CloseInv, TypeOK
<1> QED  BY <1>1, <1>2, <1>3, CloseQuiet

LEMMA CloseUpdate ==
  ASSUME CloseInv, TypeOK', NEW w \in Writers, Update(w) PROVE CloseInv'
<1>1. CASE UpdateCheck(w) \/ BeforeSetFails(w) \/ ReadOld(w) \/ Return(w)
  <2>1. UNCHANGED <<cfgClosed, engClosed, closePc, inFlight, published, ops>>
    BY <1>1 DEF UpdateCheck, BeforeSetFails, ReadOld, Return
  <2>2. \A v \in Writers \ {w} : pc'[v] = pc[v]
    BY <1>1 DEF UpdateCheck, BeforeSetFails, ReadOld, Return, Goto, CloseInv, TypeOK
  <2>3. /\ pc[w] \notin {"idle", "notify"} \/ pc'[w] = "idle"
        /\ pc'[w] \in {"checked", "swap"} => ~engClosed \/ pc[w] \in {"checked", "swap"}
    BY <1>1 DEF UpdateCheck, BeforeSetFails, ReadOld, Return, Goto, CloseInv, TypeOK
  <2> QED  BY <2>1, <2>2, <2>3, CloseQuiet
<1>2. CASE Swap(w)
  <2>1. /\ pc[w] = "swap" /\ pc' = [pc EXCEPT ![w] = "notify"]
        /\ published' = published \cup {Id(w)}
        /\ UNCHANGED <<cfgClosed, engClosed, closePc, inFlight, ops>>
    BY <1>2 DEF Swap, Goto
  <2>2. pc'[w] = "notify" /\ \A v \in Writers \ {w} : pc'[v] = pc[v]
    BY <2>1 DEF CloseInv, TypeOK
  <2>3. ClosersInv' /\ PastCheckInv'
    BY <2>1, <2>2 DEF CloseInv, ClosersInv, PastCheckInv, Id
  <2>4. PublishedInv'
    BY <2>1, <2>2 DEF CloseInv, PublishedInv, Id
  <2> QED  BY <2>3, <2>4 DEF CloseInv
<1>3. CASE \E k \in Keys : Notify(w, k)
  BY <1>3 DEF Notify, CloseInv, ClosersInv, PublishedInv, PastCheckInv, Id
<1> QED  BY <1>1, <1>2, <1>3 DEF Update

LEMMA CloseRest ==
  ASSUME CloseInv, TypeOK',
         TakeSnapshot \/ \E c \in Closers : Close(c) \/ CloseEngine(c) \/ CloseObservers(c)
  PROVE  CloseInv'
<1>1. UNCHANGED <<pc, ops, published>>
  BY DEF TakeSnapshot, Close, CloseEngine, CloseObservers
<1>2. PublishedInv'
  BY <1>1 DEF CloseInv, PublishedInv
<1>3. CASE TakeSnapshot
  BY <1>2, <1>3 DEF TakeSnapshot, CloseInv, ClosersInv, PastCheckInv, Id
<1>4. ASSUME NEW c \in Closers, Close(c) PROVE CloseInv'
  <2>1. ClosersInv'
    BY <1>4 DEF Close, CloseInv, ClosersInv, TypeOK
  <2> QED  BY <1>1, <1>2, <1>4, <2>1 DEF Close, CloseInv, PastCheckInv, Id
<1>5. ASSUME NEW c \in Closers, CloseEngine(c) PROVE CloseInv'
  <2>1. ClosersInv'
    BY <1>5 DEF CloseEngine, CloseInv, ClosersInv, TypeOK
  <2>2. PastCheckInv'
    BY <1>1, <1>5 DEF CloseEngine, PastCheckInv, Id
  <2> QED  BY <1>2, <2>1, <2>2 DEF CloseInv
<1>6. ASSUME NEW c \in Closers, CloseObservers(c) PROVE CloseInv'
  <2>1. ClosersInv'
    BY <1>6 DEF CloseObservers, CloseInv, ClosersInv, TypeOK
  <2> QED  BY <1>1, <1>2, <1>6, <2>1 DEF CloseObservers, CloseInv, PastCheckInv, Id
<1> QED  BY <1>3, <1>4, <1>5, <1>6

LEMMA CloseNext == CloseInv /\ [Next]_vars => CloseInv'
<1> SUFFICES ASSUME CloseInv, [Next]_vars PROVE CloseInv'
  OBVIOUS
<1>1. TypeOK'
  BY TypeNext DEF CloseInv
<1>2. CASE UNCHANGED vars
  BY <1>2 DEF vars, CloseInv, TypeOK, ClosersInv, PublishedInv, PastCheckInv, Id
<1> QED  BY <1>1, <1>2, CloseOperate, CloseUpdate, CloseRest DEF Next

\* Only a swap changes the state or its history.
LEMMA OnlySwapPublishes ==
  ASSUME [Next]_vars, state' # state \/ last' # last \/ pubs' # pubs
  PROVE  \E w \in Writers : Swap(w)
<1>1. Next
  BY DEF vars
<1>2. ~TakeSnapshot /\ \A c \in Closers : ~Close(c) /\ ~CloseEngine(c) /\ ~CloseObservers(c)
  BY DEF TakeSnapshot, Close, CloseEngine, CloseObservers
<1>3. \A w \in Writers : ~Operate(w)
  BY DEF Operate, Set, Delete, Edit, Restore, Merge, Reload, LoadSource, Loaded, LoadFails, Begin
<1> QED  BY <1>1, <1>2, <1>3 DEF Next, Update, UpdateCheck, BeforeSetFails, ReadOld, Notify, Return

-----------------------------------------------------------------------------
(* What is begun once Close has been called.  While the engine is open, the *)
(* call that has set the configuration's flag is still between the flags;   *)
(* so an operation begun after a return and during no such call finds the   *)
(* engine closed, and does not get past Update's check.                     *)

SecondInv ==
    cfgClosed /\ ~engClosed => \E c \in Closers : closePc[c] = "swapped"

BegunInv ==
    \A w \in Writers, n \in 0..MaxOps : <<w, n>> \in afterClose \cup duringClose =>
        /\ n <= ops[w]
        /\ <<w, n>> \in afterClose \ duringClose =>
              /\ engClosed /\ <<w, n>> \notin published
              /\ n < ops[w] \/ pc[w] \in {"idle", "built"}
        /\ n = ops[w] /\ pc[w] # "idle" => op[w].kind \notin {"set", "delete"}

AfterInv == CloseInv /\ SecondInv /\ BegunInv

LEMMA AfterBegin ==
  ASSUME AfterInv, CloseInv', NEW w \in Writers, NEW o, NEW d, NEW next,
         Begin(w, o.kind, next), Build(w, o, d),
         o.kind \in {"set", "delete"} => ~cfgClosed,
         next = "built" \/ ~engClosed
  PROVE  AfterInv'
<1> DEFINE n == ops[w] + 1
<1>1. /\ ops'[w] = n /\ pc'[w] = next /\ op'[w] = o
      /\ \A v \in Writers \ {w} : ops'[v] = ops[v] /\ pc'[v] = pc[v] /\ op'[v] = op[v]
      /\ UNCHANGED <<cfgClosed, engClosed, closePc, published>>
  BY DEF Begin, Build, AfterInv, CloseInv, TypeOK
<1>2. ops[w] \in Nat /\ \A v \in Writers : ops[v] \in Nat
  BY DEF AfterInv, CloseInv, TypeOK
<1>3. /\ afterClose' \subseteq afterClose \cup {<<w, n>>}
      /\ duringClose' \subseteq duringClose \cup {<<w, n>>}
      /\ afterClose \subseteq afterClose' /\ duringClose \subseteq duringClose'
  BY DEF Begin
<1>4. <<w, n>> \notin afterClose \cup duringClose
  <2>1. SUFFICES ASSUME <<w, n>> \in afterClose \cup duringClose PROVE FALSE
    OBVIOUS
  <2>2. n \in 0..MaxOps
    BY <2>1 DEF AfterInv, CloseInv, TypeOK, Ids
  <2>3. n <= ops[w]
    BY <2>1, <2>2 DEF AfterInv, BegunInv
  <2> QED  BY <1>2, <2>3
<1>5. <<w, n>> \in afterClose' \ duringClose' => engClosed
  BY <1>4 DEF Begin, AfterInv, CloseInv, ClosersInv, SecondInv
<1>6. <<w, n>> \in afterClose' \cup duringClose' => cfgClosed
  BY <1>4 DEF Begin, AfterInv, CloseInv, ClosersInv
<1>7. n \in 0..MaxOps => <<w, n>> \notin published
  BY <1>2 DEF AfterInv, CloseInv, PublishedInv
<1> HIDE DEF n
<1>8. SecondInv'
  BY <1>1 DEF AfterInv, SecondInv
<1>9. ASSUME NEW v \in Writers, NEW m \in 0..MaxOps, <<v, m>> \in afterClose' \cup duringClose'
      PROVE  /\ m <= ops'[v]
             /\ <<v, m>> \in afterClose' \ duringClose' =>
                   /\ engClosed' /\ <<v, m>> \notin published'
                   /\ m < ops'[v] \/ pc'[v] \in {"idle", "built"}
             /\ m = ops'[v] /\ pc'[v] # "idle" => op'[v].kind \notin {"set", "delete"}
  <2>1. CASE v = w /\ m = n
    BY <1>1, <1>2, <1>5, <1>6, <1>7, <1>9, <2>1
  <2>2. CASE ~(v = w /\ m = n)
    <3>1. <<v, m>> \in afterClose \cup duringClose
      BY <1>3, <1>9, <2>2
    <3>2. <<v, m>> \in afterClose' \ duringClose' => <<v, m>> \in afterClose \ duringClose
      BY <1>3, <2>2
    <3>3. /\ m <= ops[v]
          /\ <<v, m>> \in afterClose \ duringClose =>
                /\ engClosed /\ <<v, m>> \notin published
                /\ m < ops[v] \/ pc[v] \in {"idle", "built"}
          /\ m = ops[v] /\ pc[v] # "idle" => op[v].kind \notin {"set", "delete"}
      BY <3>1 DEF AfterInv, BegunInv
    <3>4. CASE v = w
      <4>1. ops'[v] = ops[v] + 1 /\ ops[v] \in Nat /\ m \in Nat /\ m <= ops[v]
        BY <1>1, <1>2, <3>3, <3>4 DEF n
      <4>2. m < ops'[v] /\ m # ops'[v] /\ m <= ops'[v]
        BY <4>1
      <4> QED  BY <1>1, <3>2, <3>3, <4>2
    <3>5. CASE v # w
      BY <1>1, <3>2, <3>3, <3>5
    <3> QED  BY <3>4, <3>5
  <2> QED  BY <2>1, <2>2
<1>10. BegunInv'
  BY <1>9 DEF BegunInv
<1> QED  BY <1>8, <1>10 DEF AfterInv

\* The later steps of an operation that do not publish.
LEMMA AfterQuiet ==
  ASSUME AfterInv, CloseInv', NEW w \in Writers,
         UNCHANGED <<cfgClosed, engClosed, closePc, afterClose, duringClose, published, ops>>,
         \A v \in Writers \ {w} : pc'[v] = pc[v] /\ op'[v] = op[v],
         pc[w] # "idle", op'[w].kind = op[w].kind,
         pc'[w] = "idle" \/ pc[w] # "built" \/ ~engClosed
  PROVE  AfterInv'
<1>1. SecondInv'
  BY DEF AfterInv, SecondInv
<1>2. BegunInv'
  BY DEF AfterInv, BegunInv
<1> QED  BY <1>1, <1>2 DEF AfterInv

LEMMA AfterOperate ==
  ASSUME AfterInv, CloseInv', NEW w \in Writers, Operate(w) PROVE AfterInv'
<1>1. cfgClosed \/ ~engClosed
  BY DEF AfterInv, CloseInv, ClosersInv
<1>2. CASE Edit(w) \/ LoadSource(w) \/ Loaded(w) \/ LoadFails(w)
  <2>1. UNCHANGED <<cfgClosed, engClosed, closePc, afterClose, duringClose, published, ops>>
    BY <1>2 DEF Edit, LoadSource, Loaded, LoadFails
  <2>2. /\ pc[w] \in {"open", "loading"}
        /\ \A v \in Writers \ {w} : pc'[v] = pc[v] /\ op'[v] = op[v]
    BY <1>2 DEF Edit, LoadSource, Loaded, LoadFails, Goto, Build, AfterInv, CloseInv, TypeOK
  <2>3. op'[w].kind = op[w].kind
    <3>1. CASE LoadSource(w)
      <4>1. op[w].kind = "reload"
        BY <3>1 DEF LoadSource, AfterInv, CloseInv, TypeOK, Reloads
      <4>2. PICK content \in Contents[Len(op[w].contents) + 1] :
               Build(w, [kind |-> "reload", contents |-> Append(op[w].contents, content)],
                     MergeSource(new[w], content))
        BY <3>1 DEF LoadSource
      <4>3. op'[w] = [kind |-> "reload", contents |-> Append(op[w].contents, content)]
        BY <4>2 DEF Build, AfterInv, CloseInv, TypeOK
      <4> QED  BY <4>1, <4>3
    <3>2. CASE Edit(w) \/ Loaded(w) \/ LoadFails(w)
      BY <3>2 DEF Edit, Loaded, LoadFails, Build, AfterInv, CloseInv, TypeOK
    <3> QED  BY <1>2, <3>1, <3>2
  <2> QED  BY <2>1, <2>2, <2>3, AfterQuiet
<1>3. CASE Set(w)
  <2>1. PICK k \in Keys, r \in Raws : Build(w, [kind |-> "set", key |-> k, raw |-> r], Empty)
    BY <1>3 DEF Set
  <2> DEFINE o == [kind |-> "set", key |-> k, raw |-> r]
  <2>2. Begin(w, o.kind, "open") /\ ~cfgClosed
    BY <1>3 DEF Set
  <2> QED  BY <1>1, <2>1, <2>2, AfterBegin
<1>4. CASE Delete(w)
  <2>1. PICK k \in Keys : Build(w, [kind |-> "delete", key |-> k], Empty)
    BY <1>4 DEF Delete
  <2> DEFINE o == [kind |-> "delete", key |-> k]
  <2>2. Begin(w, o.kind, "open") /\ ~cfgClosed
    BY <1>4 DEF Delete
  <2> QED  BY <1>1, <2>1, <2>2, AfterBegin
<1>5. CASE Restore(w)
  <2> DEFINE o == [kind |-> "restore", with |-> snapshot]
  <2>1. Begin(w, o.kind, "built") /\ Build(w, o, snapshot) /\ o.kind = "restore"
    BY <1>5 DEF Restore
  <2> QED  BY <2>1, AfterBegin
<1>6. CASE Merge(w)
  <2>1. PICK other \in Others :
           Build(w, [kind |-> "merge", with |-> other],
                 [k \in Keys |-> IF other[k] = Absent THEN state.data[k] ELSE other[k]])
    BY <1>6 DEF Merge
  <2> DEFINE o == [kind |-> "merge", with |-> other]
  <2>2. Begin(w, o.kind, "built") /\ o.kind = "merge"
    BY <1>6 DEF Merge
  <2> QED  BY <2>1, <2>2, AfterBegin
<1>7. CASE Reload(w)
  <2> DEFINE o == [kind |-> "reload", contents |-> <<>>]
  <2>1. Begin(w, o.kind, "loading") /\ Build(w, o, Empty) /\ o.kind = "reload" /\ ~engClosed
    BY <1>7 DEF Reload
  <2> QED  BY <2>1, AfterBegin
<1> QED  BY <1>2, <1>3, <1>4, <1>5, <1>6, <1>7 DEF Operate

LEMMA AfterUpdate ==
  ASSUME AfterInv, CloseInv', NEW w \in Writers, Update(w) PROVE AfterInv'
<1>1. CASE UpdateCheck(w) \/ BeforeSetFails(w) \/ ReadOld(w) \/ Return(w)
  <2>1. UNCHANGED <<cfgClosed, engClosed, closePc, afterClose, duringClose, published, ops, op>>
    BY <1>1 DEF UpdateCheck, BeforeSetFails, ReadOld, Return
  <2>2. pc[w] # "idle" /\ \A v \in Writers \ {w} : pc'[v] = pc[v]
    BY <1>1 DEF UpdateCheck, BeforeSetFails, ReadOld, Return, Goto, AfterInv, CloseInv, TypeOK
  <2>3. pc'[w] = "idle" \/ pc[w] # "built" \/ ~engClosed
    BY <1>1 DEF UpdateCheck, BeforeSetFails, ReadOld, Return, Goto, AfterInv, CloseInv, TypeOK
  <2> QED  BY <2>1, <2>2, <2>3, AfterQuiet
<1>2. CASE Swap(w)
  <2>1. /\ pc[w] = "swap" /\ pc'[w] = "notify" /\ published' = published \cup {Id(w)}
        /\ \A v \in Writers \ {w} : pc'[v] = pc[v]
        /\ UNCHANGED <<cfgClosed, engClosed, closePc, afterClose, duringClose, ops, op>>
    BY <1>2 DEF Swap, Goto, AfterInv, CloseInv, TypeOK
  <2>2. SecondInv'
    BY <2>1 DEF AfterInv, SecondInv
  <2>3. ASSUME NEW n \in 0..MaxOps, <<w, n>> \in afterClose \ duringClose PROVE n < ops[w]
    BY <2>1, <2>3 DEF AfterInv, BegunInv
  <2>4. ops[w] \in Nat
    BY DEF AfterInv, CloseInv, TypeOK
  <2>5. BegunInv'
    BY <2>1, <2>3, <2>4 DEF AfterInv, BegunInv, Id
  <2> QED  BY <2>2, <2>5 DEF AfterInv
<1>3. CASE \E k \in Keys : Notify(w, k)
  BY <1>3 DEF Notify, AfterInv, SecondInv, BegunInv
<1> QED  BY <1>1, <1>2, <1>3 DEF Update

LEMMA AfterRest ==
  ASSUME AfterInv, CloseInv',
         TakeSnapshot \/ \E c \in Closers : Close(c) \/ CloseEngine(c) \/ CloseObservers(c)
  PROVE  AfterInv'
<1>1. UNCHANGED <<pc, op, ops, published, afterClose, duringClose>> /\ (engClosed => engClosed')
  BY DEF TakeSnapshot, Close, CloseEngine, CloseObservers, AfterInv, CloseInv, TypeOK
<1>2. BegunInv'
  BY <1>1 DEF AfterInv, BegunInv
<1>3. SecondInv'
  BY DEF TakeSnapshot, Close, CloseEngine, CloseObservers, AfterInv, CloseInv, TypeOK, SecondInv
<1> QED  BY <1>2, <1>3 DEF AfterInv

LEMMA AfterNext == AfterInv /\ [Next]_vars => AfterInv'
<1> SUFFICES ASSUME AfterInv, [Next]_vars PROVE AfterInv'
  OBVIOUS
<1>1. CloseInv'
  BY CloseNext DEF AfterInv
<1>2. CASE UNCHANGED vars
  BY <1>1, <1>2 DEF vars, AfterInv, SecondInv, BegunInv
<1> QED  BY <1>1, <1>2, AfterOperate, AfterUpdate, AfterRest DEF Next

\* However many calls of Close there are: an operation takes effect once; when
\* the engine is closed, only if it was past Update's check at that moment;
\* when a call of Close had returned before it began, only if another was
\* still between its flags; and then it is no Set or Delete
\* (config.go:322, 345, 557-577, state.go:246, 273).
THEOREM ClosedStaysClosed == Spec => CloseHolds
<1> DEFINE swapped == published' \ published
           Holds == /\ swapped # {}
                    /\ engClosed => swapped \subseteq inFlight
                    /\ swapped \cap afterClose \subseteq duringClose
                    /\ last'.kind \in {"set", "delete"} =>
                          swapped \cap (afterClose \cup duringClose) = {}
<1>1. Init => AfterInv
  BY CloseInit DEF Init, AfterInv, SecondInv, BegunInv
<1>2. AfterInv /\ [Next]_vars => [pubs' # pubs => Holds]_vars
  <2> SUFFICES ASSUME AfterInv, [Next]_vars, pubs' # pubs PROVE Holds
    OBVIOUS
  <2>1. PICK w \in Writers : Swap(w)
    BY OnlySwapPublishes
  <2>2. pc[w] = "swap" /\ published' = published \cup {Id(w)} /\ last' = op[w]
    BY <2>1 DEF Swap
  <2>3. /\ Id(w) \notin published /\ ops[w] \in 0..MaxOps
        /\ engClosed => Id(w) \in inFlight
    <3>1. ops[w] \in 0..MaxOps
      BY DEF AfterInv, CloseInv, TypeOK
    <3>2. Id(w) \notin published
      BY <2>2, <3>1 DEF AfterInv, CloseInv, PublishedInv, Id
    <3>3. engClosed => Id(w) \in inFlight
      BY <2>2 DEF AfterInv, CloseInv, PastCheckInv
    <3> QED  BY <3>1, <3>2, <3>3
  <2>4. /\ Id(w) \in afterClose => Id(w) \in duringClose
        /\ Id(w) \in afterClose \cup duringClose => op[w].kind \notin {"set", "delete"}
    BY <2>2, <2>3 DEF AfterInv, BegunInv, Id
  <2>5. swapped = {Id(w)}
    BY <2>2, <2>3
  <2> QED  BY <2>2, <2>3, <2>4, <2>5
<1> QED  BY <1>1, <1>2, AfterNext, PTL DEF Spec, CloseHolds

-----------------------------------------------------------------------------
(* With one operation at a time ConfigEngine implements AtomicConfig.  The *)
(* work is in two facts: what a Reload has merged after some of its        *)
(* sources is what their priorities decide, and a writer that is alone     *)
(* still builds on the current state.                                      *)

-----------------------------------------------------------------------------
(* Merging by priority.                                                    *)

Has(contents, i, k) == contents[i][k] # Absent

Beats(contents, i, j, k) ==
    \/ contents[i][k].pri > contents[j][k].pri
    \/ (contents[i][k].pri = contents[j][k].pri /\ i <= j)

\* v is what the priorities decide for k.  (That such a v exists is shown
\* along the loads, one source at a time, instead of by induction.)
Decided(contents, k, v) ==
    \/ v = Absent /\ \A i \in 1..Len(contents) : ~Has(contents, i, k)
    \/ \E i \in 1..Len(contents) :
          /\ Has(contents, i, k) /\ v = contents[i][k]
          /\ \A j \in 1..Len(contents) : Has(contents, j, k) => Beats(contents, i, j, k)

LEMMA DecidedIsWinner ==
  ASSUME NEW contents \in Seq(Data), NEW k \in Keys, NEW v, Decided(contents, k, v)
  PROVE  Atomic!Winner(contents, k) = v
<1> DEFINE has == {i \in 1..Len(contents) : contents[i][k] # Absent}
           Wins(i) == i \in has /\ \A j \in has :
                          \/ contents[i][k].pri > contents[j][k].pri
                          \/ contents[i][k].pri = contents[j][k].pri /\ i <= j
<1>1. CASE has = {}
  <2>1. v = Absent
    BY <1>1 DEF Decided, Has
  <2> QED  BY <1>1, <2>1 DEF Atomic!Winner
<1>2. CASE has # {}
  <2>1. PICK i \in 1..Len(contents) :
           /\ Has(contents, i, k) /\ v = contents[i][k]
           /\ \A j \in 1..Len(contents) : Has(contents, j, k) => Beats(contents, i, j, k)
    BY <1>2 DEF Decided, Has
  <2>2. Wins(i)
    BY <2>1 DEF Has, Beats
  <2>3. \A j \in has : contents[j][k] \in Value
    BY DEF Data
  <2>4. \A j \in has : contents[j][k].pri \in Nat
    BY <2>3, DataAssumption DEF Value
  <2>5. ASSUME NEW j, Wins(j) PROVE j = i
    BY <2>2, <2>4, <2>5
  <2> HIDE DEF Wins
  <2>6. (CHOOSE j : Wins(j)) = i
    BY <2>2, <2>5
  <2>7. Atomic!Winner(contents, k) = contents[CHOOSE j : Wins(j)][k]
    BY <1>2 DEF Atomic!Winner, Wins
  <2> QED  BY <2>1, <2>6, <2>7
<1> QED  BY <1>1, <1>2

LEMMA MergeDecides ==
  ASSUME NEW contents \in Seq(Data), NEW content \in Data, NEW d \in Data,
         NEW k \in Keys, Decided(contents, k, d[k])
  PROVE  Decided(Append(contents, content), k, MergeSource(d, content)[k])
<1> DEFINE longer == Append(contents, content)
           n == Len(contents) + 1
<1>1. /\ n \in Nat /\ n \in 1..n /\ Len(longer) = n /\ longer[n] = content
      /\ \A i \in 1..Len(contents) : i \in 1..n /\ i < n /\ longer[i] = contents[i]
      /\ \A i \in 1..n : i = n \/ i \in 1..Len(contents)
  OBVIOUS
<1>2. /\ content[k] # Absent => content[k].pri \in Nat
      /\ \A i \in 1..Len(contents) : Has(contents, i, k) => contents[i][k].pri \in Nat
  <2>1. content[k] \in Value \cup {Absent}
    BY DEF Data
  <2>2. \A i \in 1..Len(contents) : contents[i][k] \in Value \cup {Absent}
    BY DEF Data
  <2> QED  BY <2>1, <2>2, DataAssumption DEF Value, Has
<1> HIDE DEF longer, n
<1>3. CASE content[k] = Absent
  <2>1. MergeSource(d, content)[k] = d[k] /\ ~Has(longer, n, k)
    BY <1>1, <1>3 DEF MergeSource, Has
  <2>2. CASE d[k] = Absent /\ \A i \in 1..Len(contents) : ~Has(contents, i, k)
    BY <1>1, <2>1, <2>2 DEF Decided, Has, longer
  <2>3. CASE \E i \in 1..Len(contents) :
                /\ Has(contents, i, k) /\ d[k] = contents[i][k]
                /\ \A j \in 1..Len(contents) : Has(contents, j, k) => Beats(contents, i, j, k)
    <3>1. PICK i \in 1..Len(contents) :
                /\ Has(contents, i, k) /\ d[k] = contents[i][k]
                /\ \A j \in 1..Len(contents) : Has(contents, j, k) => Beats(contents, i, j, k)
      BY <2>3
    <3>2. /\ i \in 1..n /\ Has(longer, i, k) /\ d[k] = longer[i][k]
          /\ \A j \in 1..n : Has(longer, j, k) => Beats(longer, i, j, k)
      BY <1>1, <2>1, <3>1 DEF Has, Beats
    <3> QED  BY <1>1, <2>1, <3>2 DEF Decided, longer
  <2> QED  BY <2>2, <2>3 DEF Decided
<1>4. CASE content[k] # Absent
  <2>1. CASE d[k] = Absent \/ content[k].pri > d[k].pri
    <3>1. MergeSource(d, content)[k] = content[k]
      BY <1>4, <2>1 DEF MergeSource
    <3>2. ASSUME NEW j \in 1..Len(contents), Has(contents, j, k)
          PROVE  content[k].pri > contents[j][k].pri
      <4>1. PICK i \in 1..Len(contents) :
                /\ Has(contents, i, k) /\ d[k] = contents[i][k]
                /\ \A m \in 1..Len(contents) : Has(contents, m, k) => Beats(contents, i, m, k)
        BY <3>2 DEF Decided
      <4>2. content[k].pri > d[k].pri
        BY <2>1, <4>1 DEF Has
      <4> QED  BY <1>2, <1>4, <3>2, <4>1, <4>2 DEF Beats
    <3>3. /\ n \in 1..n /\ Has(longer, n, k) /\ content[k] = longer[n][k]
          /\ \A j \in 1..n : Has(longer, j, k) => Beats(longer, n, j, k)
      BY <1>1, <1>4, <3>2 DEF Has, Beats
    <3> QED  BY <1>1, <3>1, <3>3 DEF Decided, longer
  <2>2. CASE ~(d[k] = Absent \/ content[k].pri > d[k].pri)
    <3>1. MergeSource(d, content)[k] = d[k]
      BY <2>2 DEF MergeSource
    <3>2. PICK i \in 1..Len(contents) :
                /\ Has(contents, i, k) /\ d[k] = contents[i][k]
                /\ \A j \in 1..Len(contents) : Has(contents, j, k) => Beats(contents, i, j, k)
      BY <2>2 DEF Decided
    <3>3. Beats(longer, i, n, k)
      BY <1>1, <1>2, <1>4, <2>2, <3>2 DEF Beats
    <3>4. /\ i \in 1..n /\ Has(longer, i, k) /\ d[k] = longer[i][k]
          /\ \A j \in 1..n : Has(longer, j, k) => Beats(longer, i, j, k)
      BY <1>1, <3>2, <3>3 DEF Has, Beats
    <3> QED  BY <1>1, <3>1, <3>4 DEF Decided, longer
  <2> QED  BY <2>1, <2>2
<1> QED  BY <1>3, <1>4

-----------------------------------------------------------------------------
(* A writer that is alone.                                                 *)

\* What the operation of w has built is its effect on the current state; the
\* state read before the swap is the current one.
Builds(w) ==
    /\ pc[w] = "loading" => \A k \in Keys : Decided(op[w].contents, k, new[w][k])
    /\ pc[w] \in {"built", "checked", "swap"} =>
          /\ new[w] = Atomic!Apply(op[w], state.data)
          /\ op[w].kind = "reload" => Len(op[w].contents) = NumSources
    /\ pc[w] = "swap" => old[w] = state

AtomicInv == TypeOK /\ OneWriter /\ \A w \in Writers : Builds(w)

LEMMA AtomicInit == Init => AtomicInv
  BY TypeInit DEF Init, AtomicInv, OneWriter, Builds

\* A step of w after which w may be the only one at work.
LEMMA AtomicStep ==
  ASSUME AtomicInv, TypeOK', OneWriter', NEW w \in Writers, Builds(w)',
         pc'[w] # "idle" \/ pc[w] # "idle",
         \A v \in Writers \ {w} : pc'[v] = pc[v]
  PROVE  AtomicInv'
<1>1. \A v \in Writers \ {w} : pc'[v] = "idle"
  BY DEF AtomicInv, OneWriter
<1> QED  BY <1>1 DEF AtomicInv, Builds

LEMMA AtomicOperate ==
  ASSUME AtomicInv, TypeOK', OneWriter', NEW w \in Writers, Operate(w) PROVE AtomicInv'
<1>1. (pc'[w] # "idle" \/ pc[w] # "idle") /\ \A v \in Writers \ {w} : pc'[v] = pc[v]
  BY DEF Operate, Set, Delete, Edit, Restore, Merge, Reload, LoadSource, Loaded, LoadFails, Begin,
         Goto, AtomicInv, TypeOK
<1>2. TypeOK
  BY DEF AtomicInv
<1>3. ASSUME NEW o, NEW d, Build(w, o, d), Begin(w, o.kind, "built"),
             o.kind # "reload", d = Atomic!Apply(o, state.data)
      PROVE  Builds(w)'
  <2>1. op'[w] = o /\ new'[w] = d /\ pc'[w] = "built" /\ state' = state
    BY <1>2, <1>3 DEF Build, Begin, TypeOK
  <2> QED  BY <1>3, <2>1 DEF Builds
<1>4. state.data \in Data
  BY <1>2 DEF TypeOK, State
<1>5. CASE Set(w) \/ Delete(w)
  <2>1. pc'[w] = "open"
    BY <1>2, <1>5 DEF Set, Delete, Begin, TypeOK
  <2>2. Builds(w)'
    BY <2>1 DEF Builds
  <2> QED  BY <1>1, <1>2, <2>2, AtomicStep
<1>6. CASE Edit(w)
  <2>1. /\ op[w] \in Edits /\ op'[w] = op[w] /\ new'[w] = Edited(op[w], state.data)
        /\ pc'[w] = "built" /\ state' = state
    BY <1>2, <1>6 DEF Edit, Build, Goto, TypeOK
  <2>2. Edited(op[w], state.data) = Atomic!Apply(op[w], state.data)
    BY <2>1 DEF Edited, Atomic!Apply
  <2>3. op[w].kind # "reload"
    BY <2>1
  <2>4. Builds(w)'
    BY <2>1, <2>2, <2>3 DEF Builds
  <2> QED  BY <1>1, <1>2, <2>4, AtomicStep
<1>7. CASE Restore(w)
  <2> DEFINE o == [kind |-> "restore", with |-> snapshot]
  <2>1. Build(w, o, snapshot) /\ Begin(w, o.kind, "built") /\ o.kind = "restore"
    BY <1>7 DEF Restore
  <2>2. Atomic!Apply(o, state.data) = snapshot
    BY DEF Atomic!Apply
  <2> QED  BY <1>1, <1>2, <1>3, <2>1, <2>2, AtomicStep
<1>8. CASE Merge(w)
  <2>1. PICK other \in Others :
           Build(w, [kind |-> "merge", with |-> other],
                 [k \in Keys |-> IF other[k] = Absent THEN state.data[k] ELSE other[k]])
    BY <1>8 DEF Merge
  <2> DEFINE o == [kind |-> "merge", with |-> other]
  <2>2. Begin(w, o.kind, "built") /\ o.kind = "merge"
    BY <1>8 DEF Merge
  <2>3. Atomic!Apply(o, state.data)
          = [k \in Keys |-> IF other[k] # Absent THEN other[k] ELSE state.data[k]]
    BY DEF Atomic!Apply
  <2>4. [k \in Keys |-> IF other[k] # Absent THEN other[k] ELSE state.data[k]]
          = [k \in Keys |-> IF other[k] = Absent THEN state.data[k] ELSE other[k]]
    OBVIOUS
  <2> QED  BY <1>1, <1>2, <1>3, <2>1, <2>2, <2>3, <2>4, AtomicStep
<1>9. CASE Reload(w)
  <2>1. op'[w].contents = <<>> /\ new'[w] = Empty /\ pc'[w] = "loading"
    BY <1>2, <1>9 DEF Reload, Build, Begin, TypeOK
  <2>2. \A k \in Keys : Decided(<<>>, k, Empty[k])
    BY DEF Decided, Empty
  <2>3. Builds(w)'
    BY <2>1, <2>2 DEF Builds
  <2> QED  BY <1>1, <1>2, <2>3, AtomicStep
<1>10. CASE LoadSource(w)
  <2> DEFINE i == Len(op[w].contents) + 1
  <2>1. PICK content \in Contents[i] :
           Build(w, [kind |-> "reload", contents |-> Append(op[w].contents, content)],
                 MergeSource(new[w], content))
    BY <1>10 DEF LoadSource
  <2>2. op[w].contents \in Seq(Data) /\ i \in 1..NumSources /\ new[w] \in Data
    BY <1>2, <1>10 DEF TypeOK, LoadSource, Reloads
  <2>3. content \in Data
    BY <2>1, <2>2, EngineAssumption
  <2>4. /\ op'[w].contents = Append(op[w].contents, content)
        /\ new'[w] = MergeSource(new[w], content)
        /\ pc[w] = "loading" /\ pc'[w] = "loading"
    BY <1>2, <1>10, <2>1 DEF LoadSource, Build, TypeOK
  <2>5. \A k \in Keys : Decided(op[w].contents, k, new[w][k])
    BY <2>4 DEF AtomicInv, Builds
  <2>6. Builds(w)'
    BY <2>2, <2>3, <2>4, <2>5, MergeDecides DEF Builds
  <2> QED  BY <1>1, <1>2, <2>6, AtomicStep
<1>11. CASE Loaded(w)
  <2>1. /\ pc[w] = "loading" /\ pc'[w] = "built" /\ Len(op[w].contents) = NumSources
        /\ UNCHANGED <<op, new, state>>
    BY <1>2, <1>11 DEF Loaded, Goto, TypeOK
  <2>2. op[w].kind = "reload" /\ op[w].contents \in Seq(Data) /\ new[w] \in [Keys -> Value \cup {Absent}]
    BY <1>2, <2>1 DEF TypeOK, Reloads, Data
  <2>3. \A k \in Keys : Atomic!Winner(op[w].contents, k) = new[w][k]
    BY <2>1, <2>2, DecidedIsWinner DEF AtomicInv, Builds
  <2>4. new[w] = [k \in Keys |-> Atomic!Winner(op[w].contents, k)]
    BY <2>2, <2>3
  <2>5. new[w] = Atomic!Apply(op[w], state.data)
    BY <2>2, <2>4 DEF Atomic!Apply
  <2>6. Builds(w)'
    BY <2>1, <2>5 DEF Builds
  <2> QED  BY <1>1, <1>2, <2>6, AtomicStep
<1>12. CASE LoadFails(w)
  <2>1. pc'[w] = "idle"
    BY <1>2, <1>12 DEF LoadFails, Goto, TypeOK
  <2>2. Builds(w)'
    BY <2>1 DEF Builds
  <2> QED  BY <1>1, <1>2, <2>2, AtomicStep
<1> QED  BY <1>5, <1>6, <1>7, <1>8, <1>9, <1>10, <1>11, <1>12 DEF Operate

LEMMA AtomicUpdate ==
  ASSUME AtomicInv, TypeOK', OneWriter', NEW w \in Writers, Update(w) PROVE AtomicInv'
<1>1. TypeOK
  BY DEF AtomicInv
<1>2. pc[w] # "idle" /\ \A v \in Writers \ {w} : pc'[v] = pc[v]
  BY <1>1 DEF Update, UpdateCheck, BeforeSetFails, ReadOld, Swap, Notify, Return, Goto, TypeOK
<1>3. CASE Swap(w) \/ Return(w) \/ BeforeSetFails(w) \/ \E k \in Keys : Notify(w, k)
  <2>1. pc'[w] \in {"notify", "idle"}
    BY <1>1, <1>3 DEF Swap, Return, BeforeSetFails, Notify, Goto, TypeOK
  <2>2. Builds(w)'
    BY <2>1 DEF Builds
  <2> QED  BY <1>2, <2>2, AtomicStep
<1>4. CASE UpdateCheck(w)
  <2>1. pc[w] = "built" /\ pc'[w] \in {"idle", "checked"} /\ UNCHANGED <<op, new, state>>
    BY <1>1, <1>4 DEF UpdateCheck, Goto, TypeOK
  <2>2. Builds(w)'
    BY <2>1 DEF AtomicInv, Builds
  <2> QED  BY <1>2, <2>2, AtomicStep
<1>5. CASE ReadOld(w)
  <2>1. /\ pc[w] = "checked" /\ pc'[w] = "swap" /\ old'[w] = state
        /\ UNCHANGED <<op, new, state>>
    BY <1>1, <1>5 DEF ReadOld, Goto, TypeOK
  <2>2. Builds(w)'
    BY <2>1 DEF AtomicInv, Builds
  <2> QED  BY <1>2, <2>2, AtomicStep
<1> QED  BY <1>3, <1>4, <1>5 DEF Update

LEMMA AtomicNext == AtomicInv /\ [Next /\ OneWriter']_vars => AtomicInv'
<1> SUFFICES ASSUME AtomicInv, [Next /\ OneWriter']_vars PROVE AtomicInv'
  OBVIOUS
<1>1. TypeOK'
  BY TypeNext DEF AtomicInv
<1>2. CASE UNCHANGED vars
  BY <1>1, <1>2 DEF vars, AtomicInv, OneWriter, Builds
<1>3. CASE TakeSnapshot \/ \E c \in Closers : Close(c) \/ CloseEngine(c) \/ CloseObservers(c)
  <2>1. UNCHANGED <<state, pc, op, new, old>>
    BY <1>3 DEF TakeSnapshot, Close, CloseEngine, CloseObservers
  <2> QED  BY <1>1, <2>1 DEF AtomicInv, OneWriter, Builds
<1> QED  BY <1>1, <1>2, <1>3, AtomicOperate, AtomicUpdate DEF Next

\* The two specifications speak of the same operations.
LEMMA SameOperations == Atomic!Operation = Operation
  BY DEF Atomic!Operation, Operation, Atomic!Edits, Atomic!Reloads, Reloads, Atomic!Data, Data,
         Atomic!Value, Value

\* One operation at a time, from its first read to its return: then every
\* Set, Delete, Restore, Merge and Reload that takes effect does so in one
\* step on the current values, whatever the sources return and whatever
\* fails, and nothing else changes the state (state.go:245-308,
\* config.go:321-373, 438-446, 790-804).
THEOREM SerialIsAtomic == SerialSpec => AtomicSpec
<1>1. Init => Atomic!Init
  BY EngineAssumption, SameOperations DEF Init, Empty, Atomic!Init
<1>2. AtomicInv /\ [Next /\ OneWriter']_vars
        => [Atomic!Do]_<<state.data, state.version, last>>
  <2> SUFFICES ASSUME AtomicInv, [Next /\ OneWriter']_vars,
                      ~UNCHANGED <<state.data, state.version, last>>
               PROVE  Atomic!Do
    OBVIOUS
  <2>1. PICK w \in Writers : Swap(w)
    <3>1. state' # state \/ last' # last
      OBVIOUS
    <3> QED  BY <3>1, OnlySwapPublishes
  <2>2. /\ pc[w] = "swap" /\ last' = op[w]
        /\ state' = [data |-> new[w], version |-> old[w].version + 1]
    BY <2>1 DEF Swap, NextVersion
  <2>3. /\ new[w] = Atomic!Apply(op[w], state.data) /\ old[w] = state
        /\ op[w].kind = "reload" => Len(op[w].contents) = NumSources
    BY <2>2 DEF AtomicInv, Builds
  <2>4. op[w] \in Operation
    BY <2>2 DEF AtomicInv, TypeOK
  <2> QED  BY <2>2, <2>3, <2>4, SameOperations DEF Atomic!Do
<1> QED  BY <1>1, <1>2, AtomicInit, AtomicNext, PTL DEF SerialSpec, AtomicSpec, Atomic!Spec

=============================================================================
