# go-config in TLA+

A formal model of [os-gomod/go-config](../src): what its goroutines, locks,
channels and atomics do, what its callers may rely on, and where the code does
something else than its comments say. The modules are translated from the
source; line numbers in comments refer to `src/`.

- `tlc -config X.cfg MCModule.tla` model-checks one instance.
- `tlapm Module_proofs.tla` checks the proofs.

## The system

go-config is a library. A `Config` (config.go) owns an `Engine`
(core/state.go), which holds an immutable `State` behind an atomic pointer, and
an `ObserverManager` (core/observer.go), to which the engine notifies the events
of every change. Sources (source/source.go) are loaded in order and merged by
priority. File sources are polled by goroutines that call `Config.Reload`.
Snapshots of the state are kept by a manager (snapshot/snapshot.go). Everything
may be called from any goroutine.

| component | state | operations | hard behaviour | what makes it correct | model |
|---|---|---|---|---|---|
| observer manager, core/observer.go | closed flag, map of subscriptions, each with a bounded queue and a goroutine, wait group | Subscribe, its cancel function, Notify, Close | Notify against the end of a subscription, Subscribe against Close, full queues, observers that panic or hang | order and no duplicates for each writer, nobody forgotten, writers never block, Close leaves nothing running | ObserverManager |
| state engine, core/state.go | pointer to the state, hooks, closed flag | Update, Load, Close, RegisterHook, Observe | read-modify-write without a lock, checks long before the swap, events after it | an operation is atomic on the current values, versions, events describe the change, nothing after Close | ConfigEngine, AtomicConfig; the nested index: Nesting |
| public API, config.go | closed flag, sources, mutex | Set, Delete, Merge, Restore, Reload, Snapshot, Watch, Bind, Validate, Close | as above; Watch and Close under one mutex with reloads | as above | ConfigEngine, HotReload, SnapshotManager, Binding, Validation |
| file source and hot reload, source/source.go, config.go:378-426 | watched flag, watcher with mutex, modification time, two channels | Load, Watch, Stop, Close, the polling loop | a file that vanishes, changes while being loaded, two files at once; Close against Watch | what is noticed is loaded, observers see it, Close stops every poller and returns | HotReload |
| env, memory, remote, multi sources | last value, time, remote cache with ttl | Load, Set, InvalidateCache, Close | the fetch happens between two critical sections | an invalidation is not undone by an older fetch | SourceCache; the merging of MultiSource: Loading |
| snapshots, snapshot/snapshot.go | ordered list with a limit, next id | Take, Get, At, Latest, List, Clear, Prune, Diff | the searches rely on an order every other operation must keep | the order, exact answers, oldest removed first | SnapshotManager |
| watch package, watch/watch.go | running flags, contexts, channels | Manager, FileWatcher, MultiWatcher Start and Stop, Debouncer | full channels with one way out, Start against Stop, restart, endless debouncing | Stop returns, nobody sends on a closed channel, changes are told | FileWatcher, WatchManager, MultiWatcher, Debouncer |
| merge, merge/merge.go | none | priority, first, last, deep merge, resolver | equal priorities, order of the sources | the winner does not depend on the order of the keys; the strategies agree where they should | Loading; the deep merge: Nesting |
| loaders, loader/loader.go | cache with ttl, lazy data with a sticky error, results of concurrent loads | Load, Reload, Invalidate, Add | a first Load against Reload; failed first load; results in any order | the newest data wins, the winner is the one the strategy says, no goroutine is left behind | Loading, LazyLoader, SourceCache |
| syncutil, internal/syncutil | barrier generation, mutex with context, once with an error | Wait, LockContext, Do, Reset | the reset of a barrier against late waiters, an abandoned lock, a reset while a function runs | all of a generation are released, the lock is given back once, a function runs once | Barrier, ContextMutex, OnceWithErr |
| parsers, confparser/parser.go | indentation stack | Parse, Flatten | nesting, numbers | the tree is the one the indentation says | Parsing |
| binding, bind/bind.go | none | Bind | stops at the first bad field, narrow integers, keys of nested and embedded structs | every field gets the value meant for it and no other | Binding |
| validation, validate/validate.go | none | plans, struct tags | which types a rule looks at | every broken rule is reported, by the plan and by the tags alike | Validation |
| export, export/export.go | none | nested map, formatting | the order in which keys are nested, shared maps | keys are found where they belong | Nesting; formatting: not modelled |
| confcrypto, pool, reflectutil, types | maps behind mutexes, none | AES-GCM, reflection | none that interleaves beyond one critical section | | not modelled |

## Modules

| module | what it is | checked by |
|---|---|---|
| ObserverManager | core/observer.go | MCObserverManager, ObserverManager_proofs |
| ConfigData | values, states, operations | |
| AtomicConfig | abstract: an operation takes effect in one step | refined by ConfigEngine |
| ConfigEngine | core/state.go and the writing operations of config.go | MCConfigEngine, ConfigEngine_proofs |
| HotReload | Config.Watch and Close, FileSource, FileWatcher | MCHotReload, HotReload_proofs |
| SnapshotManager | Config.Snapshot, snapshot.Manager | MCDataPaths, MCSnapshotManager, SnapshotBinding_proofs |
| FileWatcher | the polling watcher of watch/watch.go, a component without a next-state relation of its own | FileWatcher_proofs: lemmas for the two below |
| WatchManager | watch.Manager over file watchers; extends FileWatcher | MCWatchManager, WatchManager_proofs |
| MultiWatcher | watch.MultiWatcher over file watchers; extends FileWatcher | MCMultiWatcher, MultiWatcher_proofs |
| Debouncer | watch.Debouncer | MCHelpers, Helpers_proofs |
| ContextMutex | syncutil.Mutex | MCHelpers, Helpers_proofs |
| Barrier, OnceWithErr | syncutil.Barrier, syncutil.OnceWithErr | MCHelpers, Helpers_proofs |
| SourceCache | the cache of loader.CachedLoader and source.RemoteSource | MCHelpers, Helpers_proofs |
| LazyLoader | loader.LazyLoader | MCHelpers, Helpers_proofs |
| Helpers | the six above side by side | MCHelpers, Helpers_proofs |
| Parsing | the YAML and TOML parsers and Flatten of confparser | MCDataPaths, Helpers_proofs |
| Loading | the other loaders, source.MultiSource, the strategies of merge | MCDataPaths, Helpers_proofs |
| Nesting | the index of core.State, merge.DeepMerge, the nesting of export | MCDataPaths, Helpers_proofs |
| Binding, Validation | bind.Binder; validate.Plan and StructValidator on what it binds | MCDataPaths, SnapshotBinding_proofs |
| DataPaths | the five above and SnapshotManager side by side | MCDataPaths |

An action named `XY` whose comment says *Mutant* is not part of any next-state
relation. It is a plausible mistake in the action below it, kept to show that
the property it breaks depends on what the code does there.

### ObserverManager

An element of `Subs` is one call of `Subscribe` together with its
`processEvents` goroutine; `proc` is where it is. `pc` is where a `Notify` or a
`Close` is. Every access to shared state is a step of its own: the atomic
`closed` and `active` flags, the map, the send, the receive, the close of the
queue, the wait group.

`sync.Map.Range` is external. It visits what is in the map from its start to
its end, once, and may visit what is stored meanwhile (`todo`, `may`).

`Unsubscribe` is one step for three (LoadAndDelete, `active = false`, `cancel`).
They commute with what the others do between them: a Range that has not loaded
the value yet either does not find it or reads `active` as at its visit, and an
earlier `cancel` only lets the processor end earlier, which the model allows
right after the step. The select of the processor chooses freely among an event
and a done context, as Go's does.

*Fairness.* A goroutine inside the manager keeps running, and an observer
outside `Hanging` returns from each event; `processEvents` waits for it with no
limit, so nothing weaker lets Close end. Nobody is ever obliged to begin a call.

| run | instance | shows |
|---|---|---|
| ObserverFanOut | 2 subscriptions, the observer of one may hang; 1 writer, 3 events, queues of 1 (312,406 states) | a returned Notify has served everybody that was there; order, no duplicates; what is queued is delivered |
| ObserverClose | 2 subscriptions (a parent context that may be cancelled, an observer that may hang), 1 writer, 2 calls of Close, one with a deadline and from inside an observer (288,596 states) | what survives Close, what panics and what keeps Close waiting is only what raced, hangs, or waits for a Close itself |

Two subscriptions are what a fan-out needs for one to disturb the other; three
events and a queue of one fill it, empty it and fill it again.

### ConfigEngine

A writer goes from `idle` through `open` (Set and Delete, which have looked at
the flag of Config and not yet read the state) or `loading` (Reload) to `built`,
`checked`, `swap` and `notify`. Each step has at most one access to the shared
state. What the sources return, and whether a source or a hook fails, is free.
The data is a map from keys to a raw value with a priority, because that is all
that merging and event generation distinguish. `history` records what the
properties need: the operation that made the current state, overlapping swaps,
the raw values an observer computes from its events, and which operations were
begun, past their check or published when a call of Close got on.

Close may be called twice. The first call sets the flag of Config and, some
time later, that of the engine; the second returns at once (config.go:557-558).
CloseHolds says what may still take effect, with no assumption on the number of
calls: an operation begun after a call of Close has returned does only if it is
a Restore, Merge or Reload begun while another call was between its flags.

`AtomicConfig` says what a caller expects: an operation takes effect in one
step on the current values and makes the next version. `AtomicSpec` is the
refinement, under the mapping `data <- state.data`, `version <- state.version`.
The code refines it only when one operation runs at a time (`SerialSpec`),
which is what README.md:384 of the repository documents with a lock that Set
does not take. Reload is included: merging source after source must
give for each key the highest priority, and the earliest source among equals.

| run | instance | shows |
|---|---|---|
| EngineSerial | 2 keys, 2 sources, 2 writers with 1 operation each, Close (100,755 states) | the refinement, for all five operations |
| EngineRaces | the same without the lock, 2 calls of Close (4,823,620 states) | the version counts the swaps and the events replay to the state, unless two swaps overlap; what Close lets through, after its first flag, after its last and after it has returned |
| EngineLostUpdate | Set only | finding, below |

Two keys show a lost update, two sources with equal and different priorities
the merge, two writers any race between two operations, two calls of Close the second that
returns before the first.

### HotReload

A file is the number of its last write, which is also its modification time,
and whether a reader finds it whole, broken or gone. Two writes within the
resolution of the file system's clock are outside the model. `poller` is where
the goroutine of a FileWatcher is: at its select, in the reload it calls, file
by file, or about to tell the observers. `mu` is Config.mu, `wmu` the watcher's
mutex as Stop holds it (Start holds it for one step).

The swap of the engine is one step here; its interleavings are ConfigEngine's.
An observer registered with `WithObserver` runs in a goroutine of its own for
each event and reads the configuration then.

*Fairness.* The pollers, the callers inside Watch and Close keep running. The
poller's select is fair only as a whole: it may prefer ticks to a done context
as long as files change, and the number of writes is bounded. Nothing forces a
file to change, a context to be cancelled, or Close to be called.

| run | instance | shows |
|---|---|---|
| HotReload | 2 files, one of which may vanish; 1 write of each; 1 Watch, Close (92,017 states) | what is noticed is loaded, unless reloads fail or cross; the observer reads the last publication; Close and every reload end, unless a watcher has no goroutine |

Two files are what crossing reloads need: each poller reloads all files.

### SnapshotManager

Take, Clear and Prune are one step each, since they hold the lock; an iteration
of a binary search is a step, and nobody writes while it runs (`Unlocked`). A
snapshot is its id, its timestamp and the number of the configuration it
holds. The clock may stand still between two Takes, so timestamps may be equal.
Indices are shifted to begin with 1; the middles stay the same elements.

SearchesAreExact gives the rule that At follows, the last snapshot not younger
than the time asked for. Its comments promise another one, the closest:
AtIsClosest, a finding.

| run | instance | shows |
|---|---|---|
| DataPaths, with other parts | limit 3, 4 snapshots, 2 instants, 2 takers, 1 reader, 1 change of the configuration (149,491 of its states) | Get finds the id, At follows its rule; the oldest go first; later snapshots hold no older configuration, unless two Takes overlap |
| SnapshotClosest | 2 snapshots, 4 instants, 1 taker, 1 reader | finding, below |

One snapshot more than the limit evicts; a list of three has a middle that is
neither end for both ways of rounding. Of two snapshots at 0 and 3, the one at
3 is closer to 2.

### FileWatcher and WatchManager

FileWatcher has the variables of the watchers and their goroutines, and the
actions that touch nothing else. A file is the number of its last write, which
is its modification time, and whether it is there; it may come back as it was.
A change in a channel is the number of the write it reports, or `Deleted`.
`poller` is where the goroutine of `watch` is: at its select, blocked in the
send of `checkFile`, or between the two closes of its deferred calls.

WatchManager adds Start and Stop, which use no lock against each other, and a
`forwardChanges` for each watcher and call of Start. It reads `Manager.ctx` once
in each turn of its loop, on the way to its select (`sees`), so a goroutine of
an earlier Start follows the context of a later one from its next turn on. The five seconds of Stop may pass at any time. A callback that fails or
panics is one that returns. `MayFail` are watchers of another implementation of
the interface, as FileWatcher.Start never fails.

Register and Subscribe are taken to be called before Start; a panic ends the
program.

*Fairness.* Goroutines keep running and tickers keep ticking. Go's select picks
among its ready cases at random, so a case that is ready again and again is
picked: strong fairness for the done context of `watch` and of
`forwardChanges`. A callback outside `Hanging` returns. Nothing forces a call, a
write or a cancellation.

| run | instance | shows |
|---|---|---|
| WatchManager | 1 file with 2 writes, a channel of 1; 1 Start, 2 Stops; the file may vanish and come back, the callback hang, the context be cancelled (172,920 states) | writes are told in order, once, and are not lost; Stop returns, unless it overtook Start and a callback hangs |
| WatchRestart | 1 file with 1 write, 2 Starts, 1 Stop, the same otherwise (2,011,968 states) | only a Start after a Stop makes a goroutine panic; what runs when Stop returns comes from a race or from its timeout |

A channel of one is full after one change, as the real one is after ten. The
watchers of one manager share its context and wait group only.

### MultiWatcher

It adds Start, Stop and a `forward` goroutine for each file to FileWatcher, and
the channel they share, read by somebody who may stop reading. Stop cancels,
stops one watcher after the other, waits for the goroutines five seconds at
most, and closes the channel they send on. It is not started again when it has
been stopped: WatchRestart shows what becomes of the file watchers then.

*Fairness* as for WatchManager; `Read` has none.

| run | instance | shows |
|---|---|---|
| MultiWatcher | 1 file with 2 writes that may vanish, a file channel of 1, a shared one of 2; 1 Start, 1 Stop; the context may be cancelled (117,062 states) | changes come in order and once; Stop returns and leaves nothing running; nobody sends on the closed channel, unless Stop began while Start was under way or has timed out |

The files share the context, the wait group and the channel; a second file
would fill the channel as a second write does.

### Helpers: Debouncer, ContextMutex, Barrier, OnceWithErr, SourceCache, LazyLoader

Six small components that share nothing. `Helpers` has the variables of all and
a `subject` which says whose steps a behaviour consists of, so that one run
checks them without a product of their states.

- *Debouncer.* The goroutine of `run` selects among its source, its timer,
  `stop` and the context. Consecutive changes differ, no more is needed to tell
  whether the newest is the one kept. `resets` alternates at each reset, so that
  the timer is fair only when it is not reset for ever.
- *ContextMutex.* `mu` names the call for which the sync.Mutex is locked. The
  helper goroutine of LockContext and the one that gives the lock back are
  `helper`.
- *Barrier.* A channel is its number. Count, read of `ch`, close, renewal and
  reset are steps of their own, as in the code, which has no lock around them.
- *OnceWithErr.* sync.Once (external: DoLock, DoStore, DoUnlock) is a flag and a
  mutex; Reset overwrites both, whoever holds the mutex. A period is the time
  between two Resets: `crossed` counts the functions of earlier periods that
  unlock the mutex in this one, which may then be another's.
- *SourceCache.* Data is the version of the source it was read from; the look
  at the cache, the read of the source and the store are separate steps.
  Versions in `Empty` have no data, which a cache does not hold for long.
- *LazyLoader.* As SourceCache, with a sync.Once for the first load and a lock
  that Reload holds throughout.

*Fairness.* Goroutines inside the helpers run. A select that finds one of its
cases ready again and again takes it (strong fairness for the receive of the
debouncer and for its leaving). Nobody need offer, read, unlock, cancel or call.
Barrier's goroutines need not call Wait again.

| run | instance | shows |
|---|---|---|
| Helpers | source of 2, output of 1; 3 calls of LockContext, 3 parties with 2 rounds, 3 calls of Do and 1 of Reset, 3 Loads with 3 versions, 2 lazy Loads and 2 Reloads (179,872 states) | Debouncer: the newest change is kept, waits only while changes keep coming or nobody reads, and so does Stop. Mutex: exclusion, an abandoned lock is given back. Barrier: all pass together, unless one comes during a reset. OnceWithErr: what a Reset may do to the calls of Do it overlaps, and no more. Cache: an invalidation holds. Lazy: what was loaded last is returned, unless the first load undoes it |

Three of each is what it takes for one caller to hold a lock, one to give up and
one to wait, or for one to come back to a barrier before another has left it.

### DataPaths: Parsing, Loading, Nesting, Binding, Validation

What happens to the data of a configuration, as state machines that take one
line, source, key or field at a time, compared at the end with a definition of
the result that does not follow the code. `part` chooses one of them.

- *Parsing.* Any three lines with indentation, as YAML or TOML. A line is a key
  with a value or one that opens a map or section; a value is the number of its
  line, so the text of scalars is left out. A key may have dots in it. The
  reference, `PathOf`, says from the lines alone which path a value has.
- *Loading.* Up to three sources with one key each, present or not, of two
  priorities; sources may be added while a Load runs, which has copied the
  list. `strategy` chooses the loader and the merge that goes with it. The
  goroutines of ConcurrentLoader, its channel and its early return are steps.
- *Nesting.* Any set of the four keys `a`, `a.b`, `b`, `a.b.c`, with raw maps at
  two of them, inserted in any order, since Go visits a map in any order. Maps
  are in a `heap`, as they may be shared with the values already published.
  NestedAsDotted says nothing of an export that `Misplaced` describes: with the
  keys `a`, `a.b` and `b.c` in one order the exporter writes `c` to a raw map
  that holds no key above it.
- *Binding.* The metadata of a type is computed as in the code, embedded
  structs included; then one field after the other is bound, with a stack of
  frames for the nested calls. Integers are cut to eight bits. No struct may
  hold another of its type, not even behind a pointer, which Go and the binder
  allow: its fields would be infinitely many. `Maps` are the raw maps there may
  be, the `Inputs` among them. The reference, `Meant`, gives a field the value
  of its own key, else its default, else what is meant for it by the map at the
  longest of the keys above it, so that a field behind a pointer has no value
  but such a map's. For a type with an embedded struct, BindExact and
  ValidatorsAgree say nothing: its fields are looked up in the wrong struct.
- *Validation* extends Binding: a plan for the configuration and the tags of the
  struct that was bound from it, which should find the same rules broken.

| run | instance | shows |
|---|---|---|
| DataPaths | as above; 3 struct types, 2,340 configurations for each; the snapshots as in their section (300,399 states) | a document is flattened as its lines are nested; the loaded value is the one the strategy says, for every order of arrival, and no goroutine is left behind; nested keys are found where they belong; a field has the value meant for it; the validators agree |

No fairness: these are sequential programs, or, for ConcurrentLoader, the
property says that there is room for every result, so that no goroutine blocks.

## Findings

In these runs TLC finds the trace.

| run | the code | says otherwise |
|---|---|---|
| EngineLostUpdate | of two concurrent Sets of different keys one may be undone | README.md:384 |
| SnapshotClosest | At returns the last snapshot not younger than the time, though the next one may be closer | snapshot/snapshot.go:195, 204 |

Other limits of the code are visible in what the properties allow or except.

| what happens | where |
|---|---|
| a Notify that has read `active` sends on a queue its processor has closed, and panics (core/observer.go:117) | PanicOnlyFromRace of ObserverManager |
| a Subscribe between its check and its store when Close runs is never cancelled | `racing` in LeakOnlyFromRace, Excused |
| a subscription whose parent context is cancelled stays in the map, active, with a closed queue | `ParentCtxSubs` in PanicOnlyFromRace |
| two concurrent Updates publish one version twice, and an observer may see their events out of order | `overlapped` in VersionCountsSwaps, ReplicaFollows |
| an operation past its check when the engine is closed still publishes; Restore, Merge and Reload begun between the two flags of Close do too, even when a second Close has returned | `inFlight`, `duringClose` in CloseHolds |
| after a Watch that failed or was cancelled, Watch returns nil and watches nothing; Close waits for ever for a watcher whose Start has failed (source/source.go:553) | `Orphan` in OperationsEnd |
| of two overlapping reloads the older may be published last | `crossed` in NoticedIsLoaded |
| Prune removes none when every snapshot is old, and reports all (snapshot/snapshot.go:259-270) | `first` in Prune |
| of two concurrent Snapshots the older state may be stored last | `overlap` in SnapshotsFollow |
| a watch.Manager started again after Stop panics: its watchers' channels are closed twice | `Once` in PanicOnlyFromRestart, InOrderOnce |
| a watch.Manager stopped before Start has stored its context leaves it running, and may wait for ever for a watcher | `overlap` in LeakOnlyFromRace, StopReturns |
| a MultiWatcher stopped while Start is under way, or with a goroutine slower than five seconds, closes a channel that is sent on | `Clean` in PanicOnlyFromRace, LeakOnlyFromRace |
| Debouncer.Stop hangs while nobody reads the output; changes faster than the interval are put off for ever | `OutputFull` in StopHangsOnlyUnread, PendingWaits |
| whoever reads the channel of a Barrier after its renewal, or comes during a reset, passes alone or waits for ever | `late` in PassesTogether, StuckOnlyFromLateRead |
| after a OnceWithErr.Reset during a Do the function of before may unlock the mutex of another, or one that is not locked, and let two functions run | `crossed` in OnceBetweenResets |
| a load that has read its source before an invalidation fills the cache after it | `inFlight` in InvalidateHolds |
| LazyLoader: a failed first Load makes every later one fail, even after a Reload; the first load may undo a Reload | LazyIsCurrent |
| ConcurrentLoader: chance decides among equal priorities | LoadIsPriority |
| a key that is also above another one makes the index depend on chance; index and export write into a raw map that has been published; export puts a key below a value beside it | `Alone`, `Misplaced`, the last conjunct of NestedAsDotted |
| the keys of a TOML section named like a value end up around it | `NamedLikeValue` in ParsedAsNested |
| the fields of an embedded struct are looked up in the struct around it; integers are cut to the width of the field; a Bind that fails leaves what it has written | BindExact |
| the tags know no range and narrow integers pass every boundary; the plan measures a string that will be bound to a number by its length | ValidatorsAgree |

## Proofs

For every value of the constants that meets the named assumptions. Two
proof modules are about several components that share nothing: Helpers_proofs, and
SnapshotBinding_proofs, about what is done with a configuration once it is loaded.

| module | theorem | argument |
|---|---|---|
| ObserverManager_proofs | TypeCorrect, WaitGroupCorrect | proved together: the counter cannot go below zero because it equals the number of processors that run |
| | QueueStaysBounded | only Notify appends, after the test |
| | LeaksComeFromRaces | what Close's Range has left to cancel, was cancelled, or raced |
| | PanicsComeFromRaces | a queue closes only after its context is done, and who cancels it, the caller of Subscribe excepted, has cleared `active` before |
| | EventsInOrder | a Range visits a subscription at most once, so the last event of a writer in a queue is older than the one it is sending |
| | NobodyIsMissed | while the Range runs, who was in the audience is still to be visited, was served, or is no longer active |
| ConfigEngine_proofs | TypeCorrect, VersionsCount, ObserversFollow | while nothing has overlapped at most one Update is between its read and its return, and the replica differs from the state only in its pending keys |
| | ClosedStaysClosed | a writer past its check when the engine is closed is in `inFlight`; a call of Close that has returned leaves the engine closed, or another call between its flags, and whatever is begun then is in `duringClose` (`SecondInv`, `BegunInv`, `AfterInv`) |
| | SerialIsAtomic | refinement: the values a writer has built are the operation applied to the current state; for Reload, merging source by source keeps the winner of the sources loaded so far |
| HotReload_proofs | TypeCorrect, WhatIsNoticedIsLoaded | what a reload has read of its file is not older than what its poller noticed, and only one reload is under way while none has crossed |
| | PollersEnd | Close has passed a source only when its poller has stopped or belongs to a late Watch |
| | ObserverCatchesUp | a poller that has published is at `notify` or has left an event behind, until an observer has read what is published |
| SnapshotBinding_proofs | TypeCorrect, SnapshotsOrdered | a suffix of an ordered list with a younger last element is ordered |
| | SearchesCorrect | no discarded index can be the answer |
| | OldestGoFirst | every writing operation keeps a suffix, appended to or not |
| | LaterIsNewer | a caller that has read before another Take came is marked; one that is not has read no older configuration than the last one stored |
| | BindsExactly | each call under way is sound for its struct and its map; each declared field is written with what is meant for it, or due in the outermost call that has something for it; only given values are written, and a required field that lacks one is not passed over (`BindInv`). The lemmas about metadata and about `Meant` are by induction over the types, which have a depth by BindingAssumption |
| | FindTheSame | from `BindInv` and what the validators find in the configuration and in the struct (`FoundSound`); the rules of the plan are those of the tags, in their order |
| WatchManager_proofs | TypeCorrect, WaitGroupCounts | proved together: a goroutine forwards only what its Start has started, and is counted once |
| | PanicTakesRestart | while one Start has passed its check, a watcher has one goroutine in its life, the one that closes its channel; it has not when it still polls, and a watcher that runs has not been stopped |
| | CallbacksInOrder | a change on its way to a callback, in the channel or in the hands of a goroutine, is younger than what the callback was told and older than what the poller noticed last (`ToldInOrder`, with FileWatcher_proofs' `Pipeline`) |
| | LeaksComeFromRaces | what Stop has passed does not run, the goroutine of a watcher that runs no more is one a Stop waits for (`Awaited`), and a Start that is under way during a Stop is marked (`Overlaps`, `Passed`) |
| MultiWatcher_proofs | TypeCorrect | |
| | PanicsComeFromRaces, LeaksComeFromRaces | proved together: one Start and one Stop at most get past their checks; the wait group is exactly the goroutines that forward, and a Stop that closes the channel without a timeout has seen it empty, after which only a Start under way could add to it (`StopsInv`) |
| | ReaderInOrder | two pipelines one after the other, from the file to the goroutine that forwards and from there to the reader: whatever is later in them is younger (`OrderInv`) |
| Helpers_proofs | NewestKept, TimerNeverForgotten | a change is pending just when the timer is set, or has fired for it |
| | RunsOnce | in each period between two Resets the mutex is free again only with the flag set, or after a function of before has unlocked it (`BegunOnce`, `MutexGoesOnce`); the flag is of the period it was set in (`FlagOfPeriod`) |
| | LazyStaysCurrent | one caller at most does the first load (`FirstLoad`), and one at a time reloads, under the lock, and stores nothing older than what is there (`Reloading`) |
| | AllPassTogether | one goroutine resets at a time, and the channels before the current one are closed, each once; while nobody came late, all are in the round of the current channel or have not begun it, and the count is how many have (`BarrierInv`) |
| | MutexTypeCorrect, MutualExclusionHolds | exclusion is inductive together with `HelperServes`: a helper that waits or has the lock works for a caller that waits or has given up, so that no other step unlocks for it |
| | CacheTypeCorrect, InvalidationHolds | what a call has read is as young as the last invalidation or the call is in flight (`ReadSound`); a fresh cache is as young, or was filled by such a call (`CacheSound`) |
| | EachOnItsOwn | a step of Helpers is a step of one part and leaves the others alone, so that the theorems above hold of FairSpec, which is run |
| | WorkersNeverBlock | results in the channel and goroutines that have not sent theirs are together no more than the sources (`ResultsSound`) |
| | LoadTakesTheWinners | what is merged is what the strategy makes of the sources loaded or collected so far (`IsMerged`, lemma MergeOne), and as many are collected as were received; that the loop of a Resolver ends with the first of the highest is shown by induction over the values, that they can be listed in order by induction over the sources |
| | ParsesAsNested | the values of the document are those of the lines kept, each at its path (`DocHoldsKept`); of YAML, the stack has the lines that are still open, in their order, each with the path around it (`StackIsOpen`); of TOML, the section at hand is that of the last header, and every path in the document begins with paths of it (`SectionIsLast`) |
| | NestsAsDotted | every entry of a map fits the key that leads to it, and raw maps are written only for the keys below theirs; the names of a key lead to one map, a descent keeps all other entries, and the clear keys inserted hold their last value; what flattening finds, by induction over the depth. Assumes that the set of keys is finite |

Induction is stated with a set (lemma Induction: a set that has 0, and with
every number the next, has all numbers), from the library's theorem that a
well-founded relation has minima. A recursive function exists because it does up
to every number.

Two properties were wrong and only their proofs showed it. BindExact gave a field
below two structs, or behind a pointer in a struct behind a pointer, values that
Bind does not look for, in types deeper than those that TLC was given;
ValidatorsAgree promised a default for a required key of the plan also when the
field of the key is one that Bind passes over. Both now state what the code
does: the run checks them for structs in a struct, the theorems for any depth.

The assumptions are the ASSUMEs of the modules, which TLC evaluates on each run.
TypeOK, WaitGroupExact, QueueBounded, Ordered, PollerOnlyFromLateWatch and
TimerRuns are proved for all instances and not run on one; InOrderOnce of WatchManager is run as the first part of WriteIsTold.

Left to TLC:

- The liveness properties, since they rest on fairness and ENABLED:
  QueuedIsDelivered, CloseEnds, OperationsEnd, StopReturns, the second part of
  WriteIsTold, PendingWaits, StopHangsOnlyUnread, AbandonedIsGivenBack and
  StuckOnlyFromLateRead.
- NothingIsLost and AtIsClosest, which are refuted.

## Not modelled

- Cryptography, pools, reflectutil, the text of errors and what exporters print:
  nothing in them interleaves beyond one critical section, or they are wording.
- Clone, template processing, the global instance and the typed getters are
  sequential wrappers of what is modelled. RegisterHook is called before use;
  a hook is a chance to fail.
- EnvSource and MemorySource are a map each, MemoryStore a map behind a mutex.
  Of RemoteSource the cache is modelled and HTTP is a chance to fail.
- Snapshot.Diff, Latest, List and observer Stats only read.
- Semaphore, Latch, RWMutex, WaitGroup and ContextGuard of syncutil are one call
  of the sync package or one operation on a channel each.
- The JSON parser is encoding/json; scalars of YAML and TOML are left out, as is
  the schema that bind generates.
- Of the binder, fields that are maps (bind/bind.go:173, 212-244), which are
  converted like lists but by key, and the new value a nil pointer is set to
  before a conversion fails (bind/bind.go:88-90): Binding has pointers to structs
  only, and knows of them what is written behind them.
- The empty list of ConcurrentLoader.Load (loader/loader.go:282-284): Loading
  begins with one source. It returns the empty map that the loop would.
- The moment between the Swap of `watched` and the assignment of the watcher in
  FileSource.Watch (source/source.go:127-131) is one step in HotReload: nothing
  else reads `watched`, Watch runs under Config.mu, and a Close that comes in
  between finds no watcher, as it does just before the step.
