---------------------------- MODULE FileWatcher ----------------------------
(***************************************************************************)
(* The polling file watchers of watch/watch.go: their goroutines, and what *)
(* Start and Stop do to them.  WatchManager and MultiWatcher, which       *)
(* extend this module, call Start and Stop.                                *)
(*                                                                         *)
(* A file is known by the number of its last write, which is also its      *)
(* modification time.  A change is the number of the write it reports, or  *)
(* Deleted.  An element of Runs is a call of the owner's Start; the        *)
(* goroutines it starts have its context.                                  *)
(***************************************************************************)
EXTENDS Naturals, Sequences, FiniteSets

CONSTANTS
    Files,     \* the watchers, one for each file
    Runs,
    MayCancel, \* runs whose caller may cancel the context it passed
    MayVanish, \* files that may disappear and come back
    Capacity,  \* of the channel of changes
    MaxWrites  \* bound: writes of one file

ASSUME FileWatcherAssumption ==
    /\ IsFiniteSet(Files) /\ IsFiniteSet(Runs)
    /\ MayVanish \subseteq Files /\ MayCancel \subseteq Runs
    /\ Capacity \in Nat \ {0} /\ MaxWrites \in Nat

VARIABLES
    disk,     \* the files: number of the last write, and whether they are there
    lastMod,  \* FileWatcher.lastMod
    running,  \* FileWatcher.running
    stop,     \* FileWatcher.stop is closed
    stopped,  \* FileWatcher.stopped is closed
    changes,  \* FileWatcher.changes
    shut,     \* FileWatcher.changes is closed
    poller,   \* progress of the goroutine that runs watch, by run
    sending,  \* the change it is about to send
    done,     \* runs whose context is done
    panicked  \* a goroutine has panicked, and with it the program

chanVars    == <<stop, stopped, changes, shut>>
pollVars    == <<poller, sending>>
watcherVars == <<disk, lastMod, running, chanVars, pollVars, done, panicked>>

Deleted == 0
Change == 0..MaxWrites

Polling(r, f) == poller[r][f] \notin {"off", "done"}

WatcherTypeOK ==
    /\ disk \in [Files -> [n : 0..MaxWrites, here : BOOLEAN]]
    /\ lastMod \in [Files -> 0..MaxWrites]
    /\ running \in [Files -> BOOLEAN]
    /\ stop \in [Files -> BOOLEAN] /\ stopped \in [Files -> BOOLEAN]
    /\ changes \in [Files -> Seq(Change)]
    /\ \A f \in Files : Len(changes[f]) <= Capacity
    /\ shut \in [Files -> BOOLEAN]
    /\ poller \in [Runs -> [Files -> {"off", "select", "send", "exiting", "done"}]]
    /\ sending \in [Runs -> [Files -> Change]]
    /\ done \subseteq Runs
    /\ panicked \in BOOLEAN

WatcherInit ==
    /\ disk = [f \in Files |-> [n |-> 0, here |-> TRUE]]
    /\ lastMod = [f \in Files |-> 0]
    /\ running = [f \in Files |-> FALSE]
    /\ stop = [f \in Files |-> FALSE] /\ stopped = [f \in Files |-> FALSE]
    /\ changes = [f \in Files |-> <<>>] /\ shut = [f \in Files |-> FALSE]
    /\ poller = [r \in Runs |-> [f \in Files |-> "off"]]
    /\ sending = [r \in Runs |-> [f \in Files |-> Deleted]]
    /\ done = {} /\ panicked = FALSE

-----------------------------------------------------------------------------
(* The files, and the context the caller of the owner's Start passed.      *)

Write(f) ==
    /\ disk[f].here /\ disk[f].n < MaxWrites
    /\ disk' = [disk EXCEPT ![f].n = @ + 1]
    /\ UNCHANGED <<lastMod, running, chanVars, pollVars, done, panicked>>

Vanish(f) ==
    /\ f \in MayVanish /\ disk[f].here
    /\ disk' = [disk EXCEPT ![f].here = FALSE]
    /\ UNCHANGED <<lastMod, running, chanVars, pollVars, done, panicked>>

ComeBack(f) ==
    /\ ~disk[f].here
    /\ disk' = [disk EXCEPT ![f].here = TRUE]
    /\ UNCHANGED <<lastMod, running, chanVars, pollVars, done, panicked>>

Cancel(r) ==
    /\ r \in MayCancel \ done
    /\ done' = done \cup {r}
    /\ UNCHANGED <<disk, lastMod, running, chanVars, pollVars, panicked>>

-----------------------------------------------------------------------------
(* watch.                                                                  *)

\* Mutant: the modification time is not kept.
TickForgets(r, f) ==
    /\ poller[r][f] = "select" /\ disk[f].here /\ disk[f].n > lastMod[f]
    /\ sending' = [sending EXCEPT ![r][f] = disk[f].n]
    /\ poller' = [poller EXCEPT ![r][f] = "send"]
    /\ UNCHANGED <<disk, lastMod, running, chanVars, done, panicked>>

\* checkFile finds a younger file ...
TickModified(r, f) ==
    /\ poller[r][f] = "select" /\ disk[f].here /\ disk[f].n > lastMod[f]
    /\ lastMod' = [lastMod EXCEPT ![f] = disk[f].n]
    /\ sending' = [sending EXCEPT ![r][f] = disk[f].n]
    /\ poller' = [poller EXCEPT ![r][f] = "send"]
    /\ UNCHANGED <<disk, running, chanVars, done, panicked>>

\* ... or none.
TickDeleted(r, f) ==
    /\ poller[r][f] = "select" /\ ~disk[f].here
    /\ sending' = [sending EXCEPT ![r][f] = Deleted]
    /\ poller' = [poller EXCEPT ![r][f] = "send"]
    /\ UNCHANGED <<disk, lastMod, running, chanVars, done, panicked>>

Panic ==
    /\ panicked' = TRUE
    /\ UNCHANGED <<disk, lastMod, running, chanVars, pollVars, done>>

Send(r, f) ==
    /\ poller[r][f] = "send"
    /\ \/ /\ ~shut[f] /\ Len(changes[f]) < Capacity
          /\ changes' = [changes EXCEPT ![f] = Append(@, sending[r][f])]
          /\ poller' = [poller EXCEPT ![r][f] = "select"]
          /\ sending' = [sending EXCEPT ![r][f] = Deleted]
          /\ UNCHANGED <<disk, lastMod, running, stop, stopped, shut, done, panicked>>
       \/ shut[f] /\ Panic

SendGivesUp(r, f) ==
    /\ poller[r][f] = "send" /\ r \in done
    /\ poller' = [poller EXCEPT ![r][f] = "select"]
    /\ sending' = [sending EXCEPT ![r][f] = Deleted]
    /\ UNCHANGED <<disk, lastMod, running, chanVars, done, panicked>>

\* The deferred calls close changes ...
Leave(r, f) ==
    /\ poller[r][f] = "select" /\ (r \in done \/ stop[f])
    /\ \/ /\ ~shut[f]
          /\ shut' = [shut EXCEPT ![f] = TRUE]
          /\ poller' = [poller EXCEPT ![r][f] = "exiting"]
          /\ UNCHANGED <<disk, lastMod, running, stop, stopped, changes, sending, done, panicked>>
       \/ shut[f] /\ Panic

\* ... and then stopped, which an earlier goroutine cannot have closed.
Left(r, f) ==
    /\ poller[r][f] = "exiting"
    /\ stopped' = [stopped EXCEPT ![f] = TRUE]
    /\ poller' = [poller EXCEPT ![r][f] = "done"]
    /\ UNCHANGED <<disk, lastMod, running, stop, changes, shut, sending, done, panicked>>

PollStep(r, f) ==
    \/ TickModified(r, f) \/ TickDeleted(r, f)
    \/ Send(r, f) \/ SendGivesUp(r, f) \/ Leave(r, f) \/ Left(r, f)

-----------------------------------------------------------------------------
(* Start and Stop.                                                         *)

StartWatcher(r, f) ==
    /\ running' = [running EXCEPT ![f] = TRUE]
    /\ lastMod' = [lastMod EXCEPT ![f] =
                      IF ~running[f] /\ disk[f].here THEN disk[f].n ELSE @]
    /\ poller' = [poller EXCEPT ![r][f] = IF running[f] THEN @ ELSE "select"]
    /\ UNCHANGED <<disk, chanVars, sending, done, panicked>>

\* Mutant: Stop closes changes itself.
StopCloses(f) ==
    /\ running[f] /\ ~stop[f]
    /\ running' = [running EXCEPT ![f] = FALSE]
    /\ stop' = [stop EXCEPT ![f] = TRUE]
    /\ shut' = [shut EXCEPT ![f] = TRUE]
    /\ UNCHANGED <<disk, lastMod, stopped, changes, pollVars, done, panicked>>

\* Up to the wait for stopped.
StopWatcher(f) ==
    /\ running[f]
    /\ \/ /\ ~stop[f]
          /\ running' = [running EXCEPT ![f] = FALSE]
          /\ stop' = [stop EXCEPT ![f] = TRUE]
          /\ UNCHANGED <<disk, lastMod, stopped, changes, shut, pollVars, done, panicked>>
       \/ stop[f] /\ Panic

\* A goroutine of the owner takes a change.
Receive(f) ==
    /\ changes[f] # <<>>
    /\ changes' = [changes EXCEPT ![f] = Tail(@)]
    /\ UNCHANGED <<disk, lastMod, running, stop, stopped, shut, pollVars, done, panicked>>

\* What a receive finds when the channel is closed and empty.
Drained(f) == shut[f] /\ changes[f] = <<>>

=============================================================================
