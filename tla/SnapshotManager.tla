-------------------------- MODULE SnapshotManager --------------------------
(***************************************************************************)
(* Config.Snapshot (config.go) with the snapshot manager it stores in      *)
(* (snapshot/snapshot.go).  Take, Clear and Prune hold the manager's lock  *)
(* for writing and are one step; Get and At hold it for reading, and each  *)
(* iteration of their binary searches is a step.                           *)
(*                                                                         *)
(* The configuration is known by the number of changes made to it.         *)
(***************************************************************************)
EXTENDS Integers, Sequences, FiniteSets

CONSTANTS
    Takers,    \* goroutines that call Config.Snapshot
    Readers,   \* goroutines that call Get and At
    MaxSize,
    MaxID,     \* bound: snapshots taken
    MaxChange, \* bound: changes of the configuration
    MaxTime    \* bound: time

ASSUME SnapshotAssumption ==
    /\ MaxSize \in Nat \ {0}
    /\ MaxID \in Nat /\ MaxChange \in Nat /\ MaxTime \in Nat

VARIABLES
    snaps,    \* Manager.snapshots
    nextID,   \* Manager.nextID
    now,      \* the clock
    conf,     \* the configuration
    taker,    \* progress of a call of Config.Snapshot
    read,     \* the configuration it has read
    pc,       \* progress of a Get or an At; the lock is held until it is idle
    arg,      \* the id or the time asked for
    left, right, \* the bounds of the binary search
    res,      \* index of the answer, 0 for none
    \* history variables
    overlaps  \* another Take happened since the call read the configuration

mgrVars  == <<snaps, nextID>>
takeVars == <<taker, read, overlaps>>
readVars == <<pc, arg, left, right, res>>
snapVars == <<mgrVars, now, conf, takeVars, readVars>>

\* A snapshot with its id, its timestamp, and the configuration it holds;
\* overlap is a history variable.
Snapshot == [id : 1..MaxID, at : 0..MaxTime, conf : 0..MaxChange, overlap : BOOLEAN]

Unlocked == \A r \in Readers : pc[r] = "idle"

SnapTypeOK ==
    /\ snaps \in Seq(Snapshot)
    /\ nextID \in 0..MaxID
    /\ now \in 0..MaxTime
    /\ conf \in 0..MaxChange
    /\ taker \in [Takers -> {"idle", "read"}]
    /\ read \in [Takers -> 0..MaxChange]
    /\ pc \in [Readers -> {"idle", "get", "at", "got", "atdone"}]
    /\ arg \in [Readers -> Nat]
    /\ left \in [Readers -> Nat]
    /\ right \in [Readers -> Nat]
    /\ res \in [Readers -> Nat]
    /\ overlaps \in [Takers -> BOOLEAN]

SnapInit ==
    /\ snaps = <<>> /\ nextID = 0 /\ now = 0 /\ conf = 0
    /\ taker = [t \in Takers |-> "idle"]
    /\ read = [t \in Takers |-> 0]
    /\ pc = [r \in Readers |-> "idle"]
    /\ arg = [r \in Readers |-> 0]
    /\ left = [r \in Readers |-> 1]
    /\ right = [r \in Readers |-> 0]
    /\ res = [r \in Readers |-> 0]
    /\ overlaps = [t \in Takers |-> FALSE]

-----------------------------------------------------------------------------
(* The configuration changes, time passes.                                 *)

Change ==
    /\ conf < MaxChange
    /\ conf' = conf + 1
    /\ UNCHANGED <<mgrVars, now, takeVars, readVars>>

Tick ==
    /\ now < MaxTime
    /\ now' = now + 1
    /\ UNCHANGED <<mgrVars, conf, takeVars, readVars>>

-----------------------------------------------------------------------------
(* Config.Snapshot: the state is read, then Take stores it.                *)

\* Mutant: the state of an earlier snapshot is used again.
ReadStateOnce(t) ==
    /\ taker[t] = "idle"
    /\ taker' = [taker EXCEPT ![t] = "read"]
    /\ read' = [read EXCEPT ![t] = IF snaps = <<>> THEN conf ELSE snaps[1].conf]
    /\ overlaps' = [overlaps EXCEPT ![t] = FALSE]
    /\ UNCHANGED <<mgrVars, now, conf, readVars>>

ReadState(t) ==
    /\ taker[t] = "idle"
    /\ taker' = [taker EXCEPT ![t] = "read"]
    /\ read' = [read EXCEPT ![t] = conf]
    /\ overlaps' = [overlaps EXCEPT ![t] = FALSE]
    /\ UNCHANGED <<mgrVars, now, conf, readVars>>

\* The oldest snapshot goes when there is one too many.
Keep(s) == IF Len(s) > MaxSize THEN Tail(s) ELSE s

Take(t) ==
    /\ taker[t] = "read" /\ Unlocked /\ nextID < MaxID
    /\ nextID' = nextID + 1
    /\ snaps' = Keep(Append(snaps, [id |-> nextID + 1, at |-> now, conf |-> read[t],
                                    overlap |-> overlaps[t]]))
    /\ taker' = [taker EXCEPT ![t] = "idle"]
    /\ read' = [read EXCEPT ![t] = 0]
    /\ overlaps' = [u \in Takers |-> u # t /\ taker[u] = "read"]
    /\ UNCHANGED <<now, conf, readVars>>

-----------------------------------------------------------------------------
(* Clear and Prune.                                                        *)

Clear ==
    /\ Unlocked
    /\ snaps' = <<>>
    /\ UNCHANGED <<nextID, now, conf, takeVars, readVars>>

\* The snapshots up to the first one that is younger than the cutoff.
Old(cutoff) == {i \in 1..Len(snaps) : \A j \in 1..i : snaps[j].at <= cutoff}

\* Mutant: the wrong part of the snapshots is kept.
PruneYoung ==
    \E cutoff \in 0..now :
        /\ Unlocked
        /\ snaps' = SubSeq(snaps, 1, Cardinality(Old(cutoff)))
        /\ UNCHANGED <<nextID, now, conf, takeVars, readVars>>

\* firstToKeep stays at the first index when no snapshot is younger.
Prune ==
    \E cutoff \in 0..now :
        LET pruned == Cardinality(Old(cutoff))
            first  == IF pruned = Len(snaps) THEN 1 ELSE pruned + 1
        IN /\ Unlocked
           /\ snaps' = SubSeq(snaps, first, Len(snaps))
           /\ UNCHANGED <<nextID, now, conf, takeVars, readVars>>

-----------------------------------------------------------------------------
(* Get and At, the indices shifted to begin with 1.                        *)

Search(r, to, a) ==
    /\ pc[r] = "idle"
    /\ pc' = [pc EXCEPT ![r] = to]
    /\ arg' = [arg EXCEPT ![r] = a]
    /\ left' = [left EXCEPT ![r] = 1]
    /\ right' = [right EXCEPT ![r] = Len(snaps)]
    /\ res' = [res EXCEPT ![r] = 0]
    /\ UNCHANGED <<mgrVars, now, conf, takeVars>>

Answer(r, to, i) ==
    /\ pc' = [pc EXCEPT ![r] = to]
    /\ res' = [res EXCEPT ![r] = i]
    /\ UNCHANGED <<mgrVars, now, conf, takeVars, arg, left, right>>

Narrow(r, l, h) ==
    /\ left' = [left EXCEPT ![r] = l]
    /\ right' = [right EXCEPT ![r] = h]
    /\ UNCHANGED <<mgrVars, now, conf, takeVars, pc, arg, res>>

Get(r) == \E id \in 0..MaxID : Search(r, "get", id)

\* Mutant: the search stops when one index is left.
GetNotFoundEarly(r) == pc[r] = "get" /\ left[r] >= right[r] /\ Answer(r, "got", 0)
GetNotFound(r) == pc[r] = "get" /\ left[r] > right[r] /\ Answer(r, "got", 0)

GetStep(r) ==
    LET mid == (left[r] + right[r]) \div 2
    IN /\ pc[r] = "get" /\ left[r] <= right[r]
       /\ \/ snaps[mid].id = arg[r] /\ Answer(r, "got", mid)
          \/ snaps[mid].id < arg[r] /\ Narrow(r, mid + 1, right[r])
          \/ snaps[mid].id > arg[r] /\ Narrow(r, left[r], mid - 1)

At(r) == snaps # <<>> /\ \E t \in 0..MaxTime : Search(r, "at", t)

AtFound(r) == pc[r] = "at" /\ left[r] = right[r] /\ Answer(r, "atdone", left[r])

Middle(r) == (left[r] + right[r] + 1) \div 2
NotAfter(i, t) == snaps[i].at <= t

AtStep(r) ==
    LET mid == Middle(r)
    IN /\ pc[r] = "at" /\ left[r] < right[r]
       /\ \/ NotAfter(mid, arg[r]) /\ Narrow(r, mid, right[r])
          \/ ~NotAfter(mid, arg[r]) /\ Narrow(r, left[r], mid - 1)

Return(r) ==
    /\ pc[r] \in {"got", "atdone"}
    /\ pc' = [pc EXCEPT ![r] = "idle"]
    /\ arg' = [arg EXCEPT ![r] = 0]
    /\ left' = [left EXCEPT ![r] = 1]
    /\ right' = [right EXCEPT ![r] = 0]
    /\ res' = [res EXCEPT ![r] = 0]
    /\ UNCHANGED <<mgrVars, now, conf, takeVars>>

-----------------------------------------------------------------------------
(* The system.                                                             *)

ReadStep(r) == GetNotFound(r) \/ GetStep(r) \/ AtFound(r) \/ AtStep(r) \/ Return(r)

SnapNext ==
    \/ Change \/ Tick
    \/ \E t \in Takers : ReadState(t) \/ Take(t)
    \/ Clear \/ Prune
    \/ \E r \in Readers : Get(r) \/ At(r) \/ ReadStep(r)

SnapSpec == SnapInit /\ [][SnapNext]_snapVars

-----------------------------------------------------------------------------
(* Properties.                                                             *)

\* Evictions, Clear and Prune leave the ids increasing and the timestamps in
\* order, on which the searches rely, and the limit is kept
\* (snapshot.go:107-134, 245-275).
Ordered ==
    /\ Len(snaps) <= MaxSize
    /\ \A i, j \in 1..Len(snaps) : i < j => snaps[i].id < snaps[j].id
                                         /\ snaps[i].at <= snaps[j].at

\* Get finds the snapshot if and only if it is there (snapshot.go:162-181).
GetIsExact ==
    \A r \in Readers : pc[r] = "got" =>
        IF \E i \in 1..Len(snaps) : snaps[i].id = arg[r]
        THEN res[r] \in 1..Len(snaps) /\ snaps[res[r]].id = arg[r]
        ELSE res[r] = 0

\* At finds the last snapshot that is not younger than the time asked for,
\* or the oldest one when all are younger (snapshot.go:196-217).
AtIsLastBefore ==
    \A r \in Readers : pc[r] = "atdone" =>
        /\ res[r] \in 1..Len(snaps)
        /\ \A i \in res[r] + 1..Len(snaps) : snaps[i].at > arg[r]
        /\ snaps[res[r]].at <= arg[r] \/ res[r] = 1

\* The binary searches of Get and At answer by the rules that their code
\* follows, after any history of evictions, Clear and Prune: Get with the
\* snapshot of the id, At with the last one not younger than the time
\* (snapshot.go:162-217).  For At this is not what its comments say: see
\* AtIsClosest.
SearchesAreExact == GetIsExact /\ AtIsLastBefore

Distance(i, t) == IF NotAfter(i, t) THEN t - snaps[i].at ELSE snaps[i].at - t

\* At returns the snapshot closest to the given time, as snapshot.go:195 and
\* 204 say.  It does not: the first younger one may be closer than the last
\* that is not younger.
AtIsClosest ==
    \A r \in Readers : pc[r] = "atdone" =>
        \A i \in 1..Len(snaps) : Distance(res[r], arg[r]) <= Distance(i, arg[r])

\* Whatever removes snapshots removes the oldest first
\* (snapshot.go:128-131, 245-275).
OldestFirst ==
    [][\A i \in 1..Len(snaps) :
          (\A j \in 1..Len(snaps') : snaps'[j].id # snaps[i].id) =>
              \A j \in 1..Len(snaps') : snaps'[j].id > snaps[i].id]_snaps

\* A snapshot holds no older configuration than one with a smaller id, unless
\* another Take came between its reading of the state and its storing it
\* (config.go:431-435).
SnapshotsFollow ==
    \A i, j \in 1..Len(snaps) : i < j => snaps[i].conf <= snaps[j].conf \/ snaps[j].overlap

=============================================================================
