# Verification of the docker engine's container core

TLA+ models of the concurrent part of the docker engine (`components/engine`): the
state of a container, the goroutines that serve the API calls on it, the handler of
containerd's events, restarts, health checks, the daemon's own death and restart;
and the stores and pipes around it: layers, transfers of layers, volumes, logs, the
stream of events. TLC checks every model on small instances; for eleven of the
twelve machines the safety invariants are proved with TLAPS for every instance.

Paths below are relative to `components/engine`.

## The system

| part | state | operations | what is hard | modelled by |
|---|---|---|---|---|
| named locks, `pkg/locker` | a map from names to a mutex and a count of waiters | Lock, Unlock | the record of a name is deleted while others are about to lock it | `Locker`, `NamedMutex` |
| container state, `container/state.go` | Running, Paused, Restarting, RemovalInProgress, Dead, Pid, exit code, ErrorMsg, two channels | the setters, Wait | a waiter holds a channel the setter replaces; results are read after the wake-up | `State`, `ContainerWait` |
| lifecycle, `daemon/{start,stop,kill,restart,pause,unpause,delete,wait}.go` | HasBeenManuallyStopped, AutoRemove, membership in `daemon.containers` | the API calls | calls that call one another, retry, time out and wait without the lock | `Lifecycle` |
| exit monitor, `daemon/monitor.go` | none of its own | ProcessEvent, autoRemove | events are late; the handler may itself stop and remove the container | `Lifecycle`, `Restore`, `HealthMonitor` (OOM) |
| restart manager, `restartmanager` | canceled, active, restartCount | ShouldRestart, Cancel | the back-off against a cancellation | `Lifecycle`, `Restore` |
| health checks, `daemon/health.go`, `container/health.go` | status, streak, the stop channel | monitor, handleProbeResult, update/initHealthMonitor | monitors and probes outlive the run of the container they were started for | `HealthMonitor` |
| event queue, `libcontainerd/queue` | the last done channel of each container id | Append | order kept by a chain of goroutines that forgets its links | `EventQueue` |
| events, `daemon/events`, `pkg/pubsub` | the last events, the subscribers and their channels | Log, Subscribe, Evict, Publish | stored events against those being sent; slow and leaving clients | `EventStream` |
| layer store, `layer` | layers, mounts, counts of references, metadata on disk | Register, Get, Release, Create/Get/ReleaseRWLayer, loading | counts under two locks; failures half way; crashes | `LayerStore` |
| transfers, `distribution/xfer` | transfers, watchers, slots | Transfer, Watch, Release, Download | cancellation by the last watcher, slots at the limit | `Transfer` |
| container logs, `daemon/logger/{copier,ring}.go`, `container/monitor.go` | the copier's buffer, the ring, the driver | copySrc, Log, run, Close, Reset | lines cut at the buffer; close against enqueue and drain | `RingLogger`, `ContainerLogs` |
| volume store, `volume/service` | names, references, the database, drivers' references | create, get, release, remove, restore | drivers that lie, fail and lose volumes; references are in memory only | `VolumeStore` |
| restore and shutdown, `daemon/daemon.go` | the record on disk, the container's files | restore, Shutdown, every CheckpointTo | crash between any two effects; events while restoring | `Restore` |
| libcontainerd client, `libcontainerd/remote` | tasks, the event stream | Restore, Create, Start, SignalProcess, DeleteTask, processEventStream | the stream breaks and loses events | external in `Lifecycle`; `Restore` |
| exec, `daemon/exec*` | exec configurations | create, start, exit | exit of the container meanwhile | not modelled |
| image, reference and name stores, graph drivers, networking, plugins, builder, swarm, API server, cli, packaging | | | | not modelled: see the end |

How the parts interact. An API call runs in a goroutine of its own and takes the
container lock for short sections; it changes the state with the setters of
`State`, asks containerd for a task, a signal, a pause, and waits with
`State.Wait`. containerd answers with events; `libcontainerd` appends the handler
of each to the event queue, which runs the handlers of one container one after
the other; the handler, `ProcessEvent`, takes the container lock, asks the
restart manager, sets the container stopped or restarting (which wakes the
waiters) and, for a restart, starts a goroutine that waits for the back-off and
calls `containerStart`. The health monitor is opened and closed by the same
handlers. Handlers and calls log an event, which is stored and sent to every
subscriber before they go on. A start takes a read-write layer from the layer store
and its volumes from the volume store, both of which take a named lock for it; the
layers come from pulls, which share transfers. When the process exits,
`container.Reset` closes the copier's streams and the logger. Every change is
written to the container's file; a new daemon loads the files, asks containerd what
still runs, and makes the two agree.

## Modules

* `NamedMutex` - what `pkg/locker` promises: one mutex per name, granted to one
  holder, and under fairness to everyone who asks.
* `Locker` - `Lock` and `Unlock` as the code does them: look the record up or make
  it, count up, release the map's lock, take the mutex, count down; look up, delete
  if nobody is counted, release. `ImplementsNamedMutex` is the refinement, with
  `want` the name asked for and `granted` the holding of its mutex. A record
  (`lockCtr`) is a model value that can be used again when nothing refers to it, as
  the garbage collector allows.
* `State` - the fields of `container.State` as a record and each setter as a
  function of it. Not a machine: `ContainerWait`, `Lifecycle` and `Restore` extend it.
* `ContainerWait` - `State.Wait` and its goroutine, against every setter the daemon
  calls. A channel is the set of waiters that captured it, so that `close; make` is
  one step that moves them to `fired`. `exits` and `late` are history.
* `Lifecycle` - one container, the goroutines of the API calls (`Clients`), the
  goroutine of the event queue (`Monitor`) and the restart goroutine
  (`Restarter`). A goroutine is a program counter and a stack of return labels,
  because rm calls kill and stop, stop calls kill, and restart calls stop and start.
  Each section under the container lock is one action; `lock` is held across steps
  only by `containerStart`, which keeps it while containerd starts the task.
  A scenario (`Scenarios`, one chosen by `Init` and never changed) is the container
  as created - restart policy, AutoRemove - with the calls made and the bounds.
  A kill with another signal than the stop signal marks the container as stopped by the user
  like the others; a kill of the process itself may fail; and a removal takes the container
  out of the daemon's map before it tells the waiters.
  containerd and the process are external: `StartTask`, `PauseTask`, `ResumeTask`,
  `Signalled`, `ProcessExits`, with their events appended to `queue`.
* `HealthMonitor` - the monitor goroutines of one container, their probes, and what
  opens and closes them. The container is reduced to stopped, running, paused or
  restarting; `current` and `earned` are history.
* `EventQueue` - `Append` and the goroutine it starts. `Lifecycle` uses what it
  shows: events of a container are handled in order, one at a time.
* `EventStream` - extends `EventQueue`: what a handler does before it returns is to
  store its event (`Events.mu`), and to send it to each subscriber within a time
  limit, under the publisher's read lock. API calls do the same without the queue. A
  client subscribes to the events of some containers, gets the stored ones, reads or
  does not, and is evicted when it leaves.
* `LayerStore` - the read-only layers with their counts, the mounts with their
  references, and on disk the metadata, the mounts and the driver's directories. The
  map's lock `layerL` and the named lock of a mount are variables; a crash clears the
  memory and `Load` is `newStoreFromGraphDriver`. A mount's directories (`rw`) are made and
  removed in steps of their own, so that a failure or a crash between them and the metadata
  leaves a mount whose directories are gone (`torn`), or directories without a mount.
* `Transfer` - the manager (slots, queue, the map of transfers), each transfer with
  the goroutine of its DoFunc and the manager's own, and `Download` as the client: it
  asks for the layers bottom up, waits for the top one, and lets all of them go.
* `RingLogger` - `messageRing` with the goroutine `run` and `Close`. Messages are
  numbered as the ring accepts them, so that `Conserved` and `OrderKept` speak of
  numbers.
* `ContainerLogs` - extends `RingLogger` with the copier of each stream and `Reset`.
  A stream is its length and the positions of its newlines; the buffer and the
  messages are intervals of positions.
* `VolumeStore` - the store against containers that mount and release and clients
  that create, inspect and remove, over drivers that fail, lose and gain volumes. The
  named lock is taken and released in a step each (`NamedMutex`, which `Locker`
  implements). A new container has its reference before it is configured with the volume
  (`fresh`), and may be given up in between. After a crash, the store reads its database and the
  containers ask for their volumes again (`Restored`, `Remounts`), but for those the daemon starts
  (`SkipsMounts`, when that start ends before its mounts) or removes (`AutoRemoved`) itself;
  `absent` has the containers that a restart left without their volume.
* `Restore` - a container across the lives of the daemon: `restore` and `Shutdown`,
  with each call, event handler and restart split wherever an effect outlives the
  daemon (the container's file, its directories, the task in containerd). `Crash` may
  come anywhere, and the checkpoints of a removal may fail (fault "checkpoint").
* `MC...` - the instances for TLC. `...Proofs` - the theorems.

Operators whose comment begins with `Mutant` are variants of the definition that
follows them, with a plausible error in it; no specification uses them. Each shows
that a property would notice.

## What the runs check

| run | instance | properties |
|---|---|---|
| `primitives`, subject `Locker` | 3 goroutines, 2 names, 3 records | `MutualExclusion` per name; `NoLeak`: no record without a user; `ImplementsNamedMutex`, with its liveness |
| `primitives`, subject `ContainerWait` | a waiter, exit codes 0 and 1 | `NoLostWakeup`; `RemovedMeansRemoved`: an answer without error to a wait for the removal is true; `ExitCodeOrZero`: the code told is that of an exit the caller waited through, or, if the container was started again since, the 0 of that start; `RemovalEndsWaits` |
| `primitives`, subject `HealthMonitor` | 2 monitors, 2 retries | `HealthyIsEarned` by a probe of this run; `MonitorMatches`: a running container is monitored, a paused one is not; `StoppedMonitorsEnd` |
| `lifecycle` | 2 clients, six scenarios: policy always with failing starts and signals; the same with a third process and signals other than the stop signal; on-failure with one retry and removals that fail; AutoRemove with failing starts; pauses; a forced removal of a paused container | `StateAgrees`: the flags, the process, its pending exit and the goroutine in charge of a restart agree; `RemovalWhole`: removals exclude one another and leave no process; `PausedAgrees` once the events are handled; `StopSticks`: the policy does not undo a stop |
| `lifecycle_live` | 2 clients; no policy with start, kill and restart; unless-stopped with start, stop, kill, signal and failing starts | `CallsReturn`: starts, stops, kills, signals and restarts end; `RestartResolves`: no container stays restarting; `ExitHandled`: the handler of an exit ends |
| `event_stream` | 2 handlers and an API call, 2 containers, a client with a channel of one event, 2 stored events | `InOrder`: the handlers of a container one at a time in order; `StreamKept`: a client misses no event between the stored ones and those to come, and nothing is sent to a closed channel; `Ordered`: a client sees the events of a container in order; `AllRun`: a client that does not read holds up no handler for ever |
| `layer_store` | 2 goroutines, a base layer and one on top, 3 registrations, a mount, 3 references, a crash | `RefsExact`: counts are the references, children, mounts and calls under way; `UsedIsThere`: nothing in use is deleted; `NoLeak`: nothing unused stays; `CrashSafe`: after a crash every layer is loaded with its parents and files, and every mount with directories that were made for it; what a removal left of a committed layer is marked for Cleanup (what a registration left that did not come to its end is not) |
| `transfer` | pulls of layers 1, 2 and of 2; 3 transfers; a limit of one or none, which may change | `SlotsKept`: the count is exact, the limit is kept, who waits has a slot to wait for; `TransferShared`: nobody watches what was cancelled for others, and a key has one transfer at work; `ResultHeld`: a result is not let go while a pull uses it; `PullsSettle`: pulls end, layers are released |
| `container_logs` | streams of 3 and 1 or 4 and 0 bytes with any newlines, a buffer of 2, a ring of 1 byte | `RingSound`: no message lost, doubled or out of order, and the bound of the ring; `CloseSound`: no lost wake-up, Close returns with the ring flushed, one message at most comes late; `LogComplete`: the messages are the stream, with partial ones marked and numbered; `LoggerEnds` |
| `volume_store` | 2 containers, a client, one name, 2 drivers, two kinds of fault in a behaviour | `InUseKept`: no volume is removed under a container; `MountReferenced`: a container's volume has its reference; both but for the containers a restart left without their volume; `RecordsAgree`: the cached volume, the references, the database and the drivers' counts belong to one another |
| `restore` | each policy, AutoRemove, pauses and faults, with live restore and without; 3 processes, 2 ends of the daemon | `RecordAgrees`: once the daemon is up, the record and the process agree; `RemovalSafe`: a daemon never has a container without a layer for alive, also if the checkpoint before failed; and one cut short in a removal can be removed again, if the next daemon loads it and containerd's Restore did not fail; `StaysDown`: what was removed or stopped is not started; `BackAfterDown`: what the policy keeps running runs again |
| `live_restore_removed` | AutoRemove with live restore | `LiveRestoreKeeps`, refuted: see below |
| `volume_removed` | as `volume_store`, with one kind of fault | `InUseNeverRemoved`, refuted: see below |
| `wait_exit_code` | a waiter, exit codes 0 and 1 | `ExitCodeReturned`, refuted: see below |

`primitives` has three machines that share no state side by side: a behaviour is one of
the machine it has chosen, under that machine's fairness, and the others stay in their
initial states. Waiters do not act on one another, so one is enough.

Deadlock is checked where the system never ends (`layer_store`, `volume_store`). It is
not where an instance ends because its calls, waiters, messages or processes are used up.

### Disagreements between the code and its documentation

* `live_restore_removed`: live restore is to "keep containers alive upon daemon
  shutdown/start" (`daemon/config/config.go:153`). `restore` collects every container with
  AutoRemove that its policy does not start, those that are alive too
  (`daemon/daemon.go:437`), and removes them by force, which kills them. TLC shows the
  list with such a container in it.
* `volume_removed`: "You cannot remove a volume that is in use by a container"
  (`components/cli/docs/reference/commandline/volume_rm.md:33`). References are in memory
  only, and after a restart they come back when a container prepares its mount points. The
  daemon does not prepare those of the containers it starts itself, "since it has been done
  on restarting" (`daemon/daemon.go:541-550`). It has not if that start ended early:
  because the container runs since before the restart (live restore, `daemon/start.go:110`),
  or because its layer or its network could not be set up (`daemon/start.go:149-155`).
  TLC shows a volume created for a container, a crash, a restart that skips the container
  and whose start of it ends early, and a prune that removes the volume.
* `wait_exit_code`: "If the container exited on its own, the result's Err() method will be
  nil and its ExitCode() method will return the container's exit code"
  (`container/state.go:177`). The code is read after the wake-up, under a new lock; if the
  container was started again in between, the caller is told 0, without an error.

### Bounds

* `Lifecycle`: `MaxStarts` bounds the processes ever started; at the bound every
  start fails, which is one of the outcomes a start has anyway. Two processes are
  enough for a restart, by the policy or by a client, to meet the events of the
  process before; the scenario `Stopping` has three, so that a restart meets a
  restart. `MaxCalls` bounds the API calls. Every clash named in the hazards is
  between two calls, or between a call and the handler or the restart goroutine,
  after one call that started the container: three, and four for pause, unpause and
  kill after a start. Clients are interchangeable, so the safety run uses their
  permutations as a symmetry; the liveness run does not.
* `HealthMonitor`: `Retries` = 2 tells the first failure from the last; a streak
  longer than Retries decides the same and is not counted further. Two monitors: the
  one at work and the one that still waits for its probe. A start that finds both at
  work waits for one of them in the model.
* `EventStream`: two handlers of one container make a chain, and with one of another
  container, or a call, two events are sent at once. `Limit` = 2 makes the third
  event push out the first, `Buffer` = 1 lets the channel be full.
* `LayerStore`: `MaxCrashes` = 1: a second crash finds what one crash leaves. Three
  layers let the base be registered, released and registered again under a child.
  `Layers`, `Refs` and `Procs` are interchangeable.
* `Transfer`: three transfers are both pulls' own and one more for a key whose first
  transfer was cancelled. A limit of one makes the second wait; zero is no limit.
* `ContainerLogs`: four bytes are two buffers; a ring of one byte is full with one
  message, takes a larger one only when empty, and any number of empty ones.
* `VolumeStore`: `MaxFaults` = 2 bounds the kinds of fault of a behaviour, each once:
  a crash, a driver that loses a volume, that gains one, that denies having one, a label
  that cannot be set; any call of a driver may fail besides. Two
  let a crash meet each of the others; the theorems hold for any number. One name is enough, since names share
  nothing but the drivers' counts.
* `Restore`: `MaxDowns` = 2: the second end of the daemon meets what the first left.
  One restart goroutine at a time, one call at a time: their clashes are `Lifecycle`'s.

### Fairness

* `Locker`: whoever waits for a mutex that is released again and again gets it (Go's
  mutexes hand over to a waiter after a millisecond), hence strong fairness of
  `LockAcquire`; a holder unlocks.
* `Lifecycle`: goroutines run, and timers fire: strong fairness of a goroutine's
  steps, for the same reason, since most take the container lock. A process that was
  sent SIGKILL and is not frozen dies. Nothing makes a process exit by itself, and
  nothing makes a client call.
* `ContainerWait`: a woken waiter runs, a removal comes to its end.
* `HealthMonitor`: a monitor runs; a probe ends, because its context has a deadline
  and what outlives it is killed; and a monitor whose channel is closed does not
  find its interval timer expired at every `select`, since it has just reset it.
* `EventStream`: handlers and calls run, and the time limit of a send fires; a client
  that subscribed is added, one that leaves is evicted. No client is made to read.
* `Transfer`: goroutines run and a download ends (it fails when its context is
  cancelled). Nothing makes a pull be cancelled.
* `ContainerLogs`: goroutines run; a stream that Reset has closed, or whose container
  has ended, reads to its end. A driver may be slow but returns.

`CallsReturn` allows that a call waits for ever for a process that was not sent
SIGKILL: stop and restart with a negative timeout do. It is stated of containers that are
only started, stopped, killed, signalled and restarted, with signals that arrive
(`OnlyRuns`), because it is false of others: a late Wait on a removed container blocks,
and with it the stop that made it; a late resumed event makes Kill believe that a frozen
process runs; and a SIGKILL that could not be sent leaves Kill waiting for a process that
lives.
`LayerStore`, `VolumeStore` and `Restore` state no liveness.

## What is proved

The proofs are by an inductive invariant, stated in the module `...Proofs`: the
initial states satisfy it, every action preserves it, and it implies the property.
`...Invariance` (`RestoreInvariant`) states the first two, the other theorems the
properties. TLC checked each invariant on the instance of the run before it was proved.

* `PrimitiveProofs`, of `Locker`: `LockerCorrectness`, `NothingLeaks`, `Refinement`. The
  key is that the count is exact: `waiters[c]` is the number of goroutines between counting up and
  counting down on record `c` (`CountExact`); `DecisionOK` says what a goroutine that
  has decided to delete knows; `LocalsOK` that a goroutine's record is the one its
  name maps to. `Refinement` is the safety part of `NamedMutex`: initial states map to
  initial states and every step to a step or a stutter. Assumes that the special
  values are not goroutines, names or records, and that the goroutines are finite in
  number (for the count).
  Of `ContainerWait`: `Correctness`, `RemovalTold`, `ExitCodeTold`,
  for any waiters and any integer exit codes. `ChannelsOK` says on which channels a waiter can be, `RemovalOK` what each stage of a removal knows of the state,
  `OutcomeOK` what an answer can be based on, `CodeOK` which exit codes one who was
  woken may still read. Of `HealthMonitor`: `HealthCorrectness`,
  `Monitored`, for any number of monitors and of retries. `HealthOpenOK`: the monitor
  with the open channel is alive and what it knows is about this run.
* `LifecycleProofs`: `StateCorrectness` (`StateAgrees`), `RemovalCorrectness`
  (`RemovalWhole`), `PauseCorrectness` (`PausedAgrees`), `StopCorrectness`
  (`StopSticks`), for any clients, any container (policy, AutoRemove, exit codes) and
  any number of calls, starts and exits. The invariant has three layers.
  *Control*: `ControlOK` gives the stacks each label can have, by the goroutine and by
  the API call it serves, so that a return goes where a call of the same kind came
  from; the lemmas `Jumps`, `Calls` and `Returns` are the three ways a step moves, and
  whether they begin or end a removal. *Data*: `LockOK` (containerStart alone holds the
  lock across steps, and for a container that is neither dead nor being removed),
  `EventsOK` (the events still to be handled are those of the container's process, its
  exit is the last of them, and a process that ended has left one), `RestartOK` (the
  flag Restarting is the restart goroutine's), `PauseOK` (the last pause or resume still to
  be handled says whether the process is frozen; with none, the flag does).
  *Knowledge*: `RemovalOK` (one goroutine removes, while the flag is set) and `StopOK`:
  what a goroutine that removes, or whose stop is to hold, knows at each label, namely that
  the restart manager is cancelled or the container no longer runs (`Final`), and after
  its wait that the process is gone as well (`Over`). `StepKinds` sorts the 38 steps of a
  goroutine by what they do to the data, so that the data's lemmas have ten cases.
* `EventStreamProofs`, of `EventQueue`: `QueueCorrectness` (`InOrder`, `NoLeak`) for any
  ids and handlers. `RanksOK`: ranks are distinct and below the count; `LastOK`: the map
  holds the last handler of its id or all of them have returned; `WaitsOK`: a handler
  waits for the one just before it, or there is none left before it. Of `EventStream`:
  `ImplementsQueue`, so that the queue's properties hold of handlers that wait for their
  events to be sent; `StreamCorrectness`, which adds that no event is sent to an evicted
  client; `NothingFallsBetween` (`StreamKept`) and `SeenInOrder` (`Ordered`), for any
  buffers, filters and clients. `TargetsOK`: whoever is still to be sent an event has not
  been evicted, because eviction waits for the senders; `ChannelsOK`, `LoggedOK`: a client
  that loads the stored events has the lock, and what it has seen was logged; `GapOK`: an
  event logged after a client subscribed was given to it, is still to be sent to it, or was dropped for
  it; `OrderOK`: what is stored, what a client was given and what is in its channel
  follow one another in the order of the handlers' ranks.
* `ContainerLogsProofs`, of `RingLogger`: `RingCorrectness` (`CloseSound`, `Conserved`,
  `OrderKept`) and `RingIsSound` (`RingSound`, the bound on its bytes included), for any
  writers, messages, sizes and bound. `Stages` says what is known at each stage of
  Close, `LateOK` that `run` alone can be late, with one message; `SuffixOK` that
  the queue and what Close drained are the end of what was accepted; `PlacesOK` that each
  message before is in one place (given, discarded, in hand); `GivenOK` that what the
  driver has is in order up to the one message `run` holds; `SizeOK` that the count of
  bytes is the sum over the queue. The sum is a recursive function: what it does at
  either end of a sequence is proved by the least number at which it would not
  (`LeastElement`), since the provers cannot instantiate the library's induction.
  Of `ContainerLogs`: `ImplementsRing`, by which `LogsCorrectness` and `LogsRingIsSound`
  have the same of a container's logger, however its output is cut and whenever Reset
  stops waiting; and `LinesLogged` (`LogComplete`). `CopierOK`: the buffer's interval is never
  longer than `BufSize`, and every message moves on by a byte, so that each is one of the
  ring's messages; `StreamOK` and `LinesKept`: what was sent, what is in the buffer and
  what is unread are the stream, with identifiers and ordinals as the parts need them.
* `LayerStoreProofs`: `ReferenceCounts` (`RefsExact`), `InUse` (`UsedIsThere`),
  `NothingLeaks` (`NoLeak`), `CrashRecovery` (`CrashSafe`), for any images, finitely many
  layers, mounts, references and goroutines, and any number of crashes. `MapOK`: the map
  is what the disk says; `FilesOK`, `ParentsOK`, `MountsOK`: what the driver has, and
  that a parent is stored and is the one a restart would load; `CallsOK`: what
  each call has in hand between its locks. A count changes in the step that adds or takes
  away a user (`CountsFollow`), so `CountExact` is kept by a lemma on cardinalities.
* `VolumeStoreProofs`: `VolumesInUse` (`InUseKept`), `MountsReferenced`
  (`MountReferenced`), `StoreAgrees` (`RecordsAgree`), for any volumes, drivers,
  containers and clients, whatever the drivers do and however often the daemon dies.
  `StagesOK`: what an operation has found out under the lock of a name stays true until it
  acts on it; `StoreOK`: what the store has under a name is about one volume;
  `MountsOK`: a container's volume is in its driver, and referenced unless the
  store is still asking for it, a restart left the container without it, or it is lost; `CountOK`: a driver is
  counted once for each volume that is cached or about to be.
* `TransferProofs`: `Correctness` (`SlotsKept`), `Sharing` (`TransferShared`),
  `Holding` (`ResultHeld`), for any pulls, finitely many transfers and any limits.
  `SlotsOK`, `QueueOK`, `LimitOK`: only a started transfer gets past waiting, one in
  the queue has no slot, and a queue means that slots are taken. `FreshOK`:
  nobody knows a transfer that was not started; `ManagerOK`: one that the manager has
  closed is in no entry of its map, and is released when nobody watches it; `LayerOK`: its
  layer is dropped after that; `PullOK`: a pull watches its top layer until it lets go.
* `RestoreProofs`: `RecordRecovered` (`RecordAgrees`), `RemovalRecovered` (`RemovalSafe`),
  `StoppedStaysDown` (`StaysDown`), `BackAfterAllDowns` (`BackAfterDown`), for any
  container (policy, AutoRemove, live restore), any faults, and any number of calls, processes, crashes and shutdowns. *Control*:
  `LabelsOK`, `PhaseOK`, `RolesOK` say where each goroutine can be in each phase of the
  daemon, and who removes or restarts. *Disk*: `LoadedOK` (what is registered has a file;
  what is not has nobody at work on it, or is removed), `DeadOK` (a container is dead in memory before its
  layer goes, and in its file too unless that checkpoint failed), `TaskOK` and `PidsOK` (processes are numbered, and
  containerd has the last). *Data*, unless restore has marked the container stopped in the
  middle of `ProcessEvent` (`raced`): `RecordOK` (a record that says it runs is of the last
  process, and that process is in the record in memory and in the file alike), `RestartOK`
  (a container restarting has its goroutine, or restore has still to look at it), `EventsOK`
  (which events can still arrive, and that the exit of the current process is the last),
  `ProcessOK` (the process lives, or its exit is among them, or restore has still to look),
  `PauseOK` (the last pause or resume among them says what the freezer says), `SavedOK` (the
  manual stop in the file is what the user did). A crash is a step like any other: what it
  keeps of the invariant is the part about the file and containerd, and the labels of restore
  say how much of the rest holds again. Steps that touch neither events nor process are
  `Plain`, so that the lemmas on events have the seventeen steps that do (`Effect`).
  `BackAfterAllDowns` needs three conjuncts more (`BackInv`): `HeldOK` (a restart just
  decided is not cancelled before its goroutine exists), `ManagerOK` (until restore has
  inspected the container its restart manager is not cancelled, and is active only for a
  restart) and `BackOK` (what each later label of restore has established for a container
  whose process is gone: it is stopped, the manager allows the start, the start is listed,
  and then it runs or has failed).

The assumptions are the named `ASSUME`s of the modules. They say what the code's types
and constants say: nil is not an object, sizes and limits are naturals, buffers are not
empty, the keys of a pull differ, AutoRemove excludes a restart policy; and, for
`ContainerLogs`, that the ring's messages include every message a copier can make. The
bounds of an instance (`MaxStarts`, `MaxCalls`, crashes) are parameters: the theorems
hold for all values of them.

Only model-checked: all liveness, the liveness half of `ImplementsNamedMutex` included,
since fairness and ENABLED are outside what the provers handle.

## Observed while modelling

Behaviour of the code that the properties allow for, and that a reader may not expect.

* A wait for the removal by somebody who found the container before it, and calls Wait
  after it, never ends: the channel is made anew after the last close.
* `containerRestart` clears and restores AutoRemove without a lock: the exit handler may
  read it restored, and remove the container that is being restarted.
* A late resumed event makes `Kill` believe that a frozen process runs.
* `autoRemove`, in the goroutine of the event queue, may wait for an event behind it.
* A late OOM event opens a monitor for a container that is restarting and then stops.
* Layers: `deleteLayer` keeps the new name of the directory it has renamed in a variable
  that shadows the one it removes (`layer/layer_store.go:426`), and `filestore.Remove`
  looks for a prefix that the renamed directory does not have (`layer/filestore.go:406`),
  so that directories renamed for removal stay.
* "With 0 or 1 max byte size, the maximum size of the queue would only ever be 1 message
  long" (`daemon/logger/ring.go:142`) is not true of empty messages, which take no bytes.
* Volumes: one found by a probe is cached without a reference to its driver, which its
  purge then releases; a driver's error other than one of the network counts as "no such
  volume" and purges the references; `Get` with a driver writes no metadata.
* Restore: the pid of an event is compared without the lock while `restore` marks the
  container stopped; the restart manager stays active during a back-off, so that an exit
  then is not restarted; a crash between containerd's Start and the checkpoint loses the
  process or leaves the record restarting; RemovalInProgress is not reset when
  containerd's Restore fails; a stop that meets Shutdown is not remembered; a crash between the
  cleanup and the checkpoint loses the exit code.
* A client that subscribes while an event is in flight may see it twice.
* unless-stopped: a container that ran when the daemon went down is started by the next, as
  `components/cli/docs/reference/run.md:528-530`, `components/cli/man/docker-run.1.md:582`,
  `api/swagger.yaml:358` and the code say (`BackAfterDown`).
  `components/cli/docs/reference/commandline/run.md:645` says otherwise: "Restart the
  container unless it is explicitly stopped or Docker itself is stopped or restarted".
* A kill with any signal counts as a stop by the user (`daemon/kill.go:87`): after `docker kill
  -s HUP` a container of policy unless-stopped is not started by the next daemon.
* A new container whose volume cannot be relabelled leaves its reference behind
  (`daemon/create_unix.go:67-69`), so that the volume stays in use until a restart.
* A registration cut short by a crash leaves data in the graph driver that nothing marks for
  Cleanup. A container whose layer is gone is not loaded by the next daemon
  (`daemon/daemon.go:253-257`): what is left of its directory stays.
* A paused container that is removed by force keeps its flag Paused: the resumed event
  that would clear it is dropped with the container (`daemon/monitor.go:30`). The proof
  attempt of `PausedAgrees` found it; the property speaks of registered containers.

## Not modelled

* `exec`: execs are reduced to nothing; the exit handler's branch for them ends at once.
* Uploads (the same transfer manager with fewer rules), retries of a download, progress.
* Times: since and until of the events (`loadBufferedEvents` stops at the first stamp out
  of range), the length of a back-off, timestamps of logs.
* The blocking log mode, the log drivers, readers of logs.
* Failing checkpoints of a container's file other than those of a removal: they are logged,
  and a crash before the next one loses what they had to say.
* The error an exit event may carry (`daemon/monitor.go:72-74`): the client of
  `libcontainerd/remote` never sets it, only that of Windows does.
* Checkpoint and restore of containers (CRIU), links, Windows.
* Image and reference stores, names and views: maps under one lock. Graph drivers: file
  system I/O. Networking, swarm and BuildKit: the logic is in vendored libraries.
  Plugins: a second user of libcontainerd. Builder: sequential. API server, cli and
  packaging: no shared state of their own.

## Plan

1. Done: the modules and the proofs above.
2. Next, modules: `Exec` (the start of an exec against the exit of its container),
   uploads over `Transfer`, and the plugin manager over `Restore`.
