# hsu-master: specifications, model checking and proofs

hsu-master supervises processes. A *master* keeps a set of *workers*; each worker has a *process
control* that launches or attaches to an operating system process, stops it, and restarts it when a
health check fails or a resource limit is exceeded. All of this runs in goroutines: clients call the
master concurrently, every failed check and every violation spawns a goroutine that calls back into
the process control, and the monitors have loops of their own. Most of the correctness of the
program is therefore about interleavings, and that is what is specified here.

Paths below are relative to `src/`.

## 1. Inventory

| Component | Source | State | Operations | Talks to |
|---|---|---|---|---|
| Process control | `pkg/workers/processcontrolimpl/process_control_impl.go` | process, done channel, state, the collector, monitor and manager of the launch, `mutex` | Start, Stop, Restart, the callbacks of failed checks and violations, policy terminations | breaker, monitor, manager, log service, operating system |
| Master | `pkg/master/master.go`, `master_runner.go` | worker map, master state | AddWorker, RemoveWorker, StartWorker, StopWorker, Start, Stop | worker state machines, process controls |
| Worker state machine | `pkg/master/workerstatemachine` | current state, history | ValidateOperation, Transition | master only |
| Restart circuit breaker | `pkg/workers/processcontrolimpl/restart_circuit_breaker.go` | attempts, open, time of the last restart | ExecuteRestart, Reset | called by process control, calls its restart |
| Health monitor | `pkg/monitoring/health_check.go` | status, counters | Start, Stop, the check loop, two callbacks | process control |
| Resource limit manager and monitor | `pkg/resourcelimits/manager.go`, `monitor.go`, `violation_checker.go` | running flags, violations, usage history, two mutexes | Start, Stop, two loops, the check of a usage against the limits | process control |
| Log collection | `pkg/logcollection/service.go` | running flag, registered collectors, outputs, one lock; per collector a stop channel and a flag; per file a buffer | Start, Stop, RegisterWorker, UnregisterWorker, CollectFromStream, CollectFromProcess, UpdateConfiguration, the reader of a stream | process control, master, file system |
| Worker kinds and launch | `pkg/workers/*_worker.go`, `pkg/process` | none but the PID and port files | attach or execute, write the PID file, and of an integrated worker the port file | operating system, file system |
| PID and port files | `pkg/processfile` | the files | where a file is, reading, writing | launch |
| Configuration | `pkg/master/config.go`, `master_runner.go`, the `validation.go` files | what was loaded | defaults, validation, making workers | runner, worker kinds |
| Errors, logging, gRPC surface, commands, generated code | `pkg/errors`, `pkg/logging`, `pkg/control`, `cmd`, `pkg/generated` | none that matters | formatting, forwarding | everything |

How they interact. `Master.StartWorker` validates a worker's state, moves it to `starting`, calls
`ProcessControl.Start` without any lock of the master, and moves the worker on by the result. Start
holds `pc.mutex` from beginning to end, launches, and creates a health monitor and a resource
manager for that launch. Stop takes the mutex twice, to plan and to finalize, and waits for the
process in between without it. The callbacks run in goroutines of their own, at any time: a health
callback asks the breaker, which sleeps out a delay without its mutex and then calls the restart of
the process control, which is a stop followed by a start. The cleanup of a stop waits, with
`pc.mutex` locked, for the loops of the manager and of the log collector.

What is hard, component by component, and what makes it correct:

* Process control: two terminations of one process, a start between the two halves of a stop,
  monitors of the last process that outlive it, a process nobody is in charge of. Correct means: one
  goroutine terminates a process, one process at a time, nothing of the last launch survives, what is
  reported as stopped is gone, every call returns.
* Master: check and act under different locks; restarts by policy that the worker state machine does not
  know of. Correct means: operations on a worker exclude each other, a worker that may be removed has no
  process or was reported to have kept one, no operation leaves a worker in a transitional state, and the
  shutdown ends.
* Breaker and monitor: many requests in the delay of one, a monitor replaced while its callbacks are under
  way. Correct means: limits are kept, no restart but a forced one goes past the breaker, an open breaker
  stops everything, recoveries reset it, an unhealthy worker is attended to.
* Resource limits: loops that share mutexes with the Stop that waits for them, a Start that fails
  half-way. Correct means: what exceeds a limit is acted on, no loop outlives its manager, Stop returns.
* Log collection: registration and stop in any order, readers blocked on a pipe, outputs that are replaced
  while readers use them, a buffer that is full or fails. Correct means: a stopped collector is quiet,
  no line is lost without a trace, nothing is closed twice, every stop returns.
* Launch: a crash between launch and PID file, files that cannot be written or read or that are elsewhere
  in the next run, a PID that now belongs to another process. Correct means: a worker has one process,
  the one attached to is the worker's, and its health check asks the port that it was told.
* Configuration: defaults that are set for some kinds of workers only, values no validation looks at, a
  `pid_file` among them. Correct means: what is accepted can be run by the breaker, and workers that the
  master executes have files of their own.

## 2. Modules and plan

| # | Module | What | State |
|---|---|---|---|
| 1 | `ProcessControl`, abstract `ProcessLifecycle` over `ProcessStates`, `ProcessControlProofs`, `MCProcessControl` | the process control of one worker | done |
| 2 | `Master`, `MasterProofs`, `MCMaster` | master and worker state machines over the abstract process control | done |
| 3 | `RestartCircuitBreaker`, `Supervision` (composes breaker, health monitor and abstract process control), `SupervisionProofs`, `MCSupervision` | restarts by policy | done |
| 4 | `ResourceLimits`, `ResourceLimitsProofs`, `MCResourceLimits` | manager, monitor, violation checker of one launch | done |
| 5 | `LogCollection`, abstract `CollectorRegistry`, `LogCollectionProofs`, `CollectorRegistryProofs`, `MCLogCollection` | service, readers, the writer of a file | done |
| 6 | `ProcessFile`, `Launch` (extends `WorkerConfig`, which extends `ProcessFile`), `LaunchProofs`, `MCLaunch` | PID and port files, attach or execute, crash and restart of the master, reuse of PIDs | done |
| 7 | `WorkerConfig` | defaults and validation as operators; the runner's set-up of workers, in `Launch` | done |

What the plan has left is the directories of logs (section 6).

A component is modelled against the *abstract* form of those below it. `ProcessStates` are the states of a
process control and their transitions. `ProcessControl` is shown to implement `ProcessLifecycle`, which
adds to them what happens to the process (where it does; see `pc_overlap`), and every control in `Master`
to implement `ProcessStates`, so the two modules agree on what they share. `Supervision` uses the same
states, and `Supervision` extends `RestartCircuitBreaker` and is shown to implement it. `Launch`
is the other way about: what `ProcessControl` has as a choice, the outcome of a launch, is modelled
there, and its control is the abstract one. `LogCollection` has the process control and the master as
its callers.

## 3. The models and the code

### ProcessControl

One goroutine is a `Thread` with a step `pc[t]`; each critical section of `pc.mutex` is one action,
and `mutex` is a variable only because a launch and a cleanup hold it while they wait.

| Code | Action |
|---|---|
| `Stop`, `Restart`, `Start`, the callbacks: what they read before the mutex | `Stop`, `Restart`, `Start`, `StartNilContext`, `HealthRestart`, `HandleResourceViolation` |
| `validateAndPlanStop` (832) | `validateAndPlanStop` |
| `validateAndPlanTermination` | `planShutdown`, `planKill` |
| `terminateProcessExternal`: signal, wait, kill, wait | `ReceiveDone`, `GraceTimeout`, `Kill`, `ReapTimeout` |
| `finalizeStop`, `finalizeTermination`, `cleanupResourcesUnderLock` | `finalizeLock`, `Cleanup`, `finalizeKill` |
| `startInternal` | `startLock`, `LaunchFails`, `Launch` |
| `process.Wait` goroutine; the operating system | `WaitReturns`; `Exit` |

A `Handle` is one `*os.Process` with its done channel, a `Proc` an operating system process: attaching
gives a process a second handle. A process may ignore SIGTERM, exit at any time, or be told to die
(`doomed`). `Wait` on an attached process, which is no child, may fail while the process lives. A
failure to set up a monitor is ignored, as in the code. Diagnostics are left out. `abandoned` is a
history variable: the handles whose termination was reported to the caller as failed.

`ProcessLifecycle` is the abstract specification: idle, starting, running, stopping, one instance at a
time, launched once and given up only by its stop. Its transitions are those of `ProcessStates`, which
knows of the state alone.

### Master

An `Entry` is what one `AddWorker` creates: a state machine and a process control. Each operation is
split where the code releases a lock: lookup (under the master's mutex), `ValidateOperation`,
`Transition`, the call of the process control (launching, or plan, wait and finalize), and the
transition by its result. `RemoveWorker` is lookup, the check of the state it read, and the delete.
`Stop` of the master copies the worker map and stops the workers one by one past their state
machines. `restart[e]` is a restart by policy: requested at a running process, delayed, and then a stop
and a start that the state machine is not told of; `"off"` is a worker without such restarts.
`calm` is history: that no `StartWorker` was under way (`StartUnderWay`) when `Stop` of the master began.

The state of a process control says nothing certain of the process: `finalizeStop` makes it idle after a
failed stop too, and a termination fails with the process alive when the `Wait` of an attached one does,
when it cannot be killed, and when it is not reaped in time (`process_control_impl.go`, lines 643, 659 and
671). So the process is state of its
own: `live` are the entries whose process the control runs or is stopping, `left` those of which a process
lives that was given up on, by a failed stop or a cancelled start whose kill failed (`LosesProcess`,
`MayLeave`). A later start may launch a second process beside a left one, or attach to it (`GetsProcess`);
either may exit (`ProcessExits`). `reported` is history: the entries of which a start or stop, by a client or
by the shutdown, has returned an error.

### RestartCircuitBreaker and Supervision

`ExecuteRestart` is three steps per goroutine: the checks under the mutex (`Refuse`, `OpenBreaker`, `Sleep`,
`ProceedAtOnce`), the second critical section after the sleep (`Wake`), and the return of the restart.
Retries, delays, multipliers and backoff are computed as in the code, with rates in halves and time in
ticks; the elapsed time is counted up to `MaxDelay`, beyond which no delay reaches. `Supervision` adds the
health monitor (`CheckPasses`, `CheckFails`), its two callbacks (`Callback`, `Recovery`), violations
(`handleResourceViolation`), `Restart` by hand, with and without force (`RestartForced`, which the breaker
does not see), and the steps of the restart itself. `takes` and `uncounted` are history: how often restarts
took the process down since the last reset of the breaker, and the restarts under way that its counter does
not hold, because they are forced or it was reset meanwhile. `seen[r]` is the status of the monitor that
spawned a callback once that monitor is stopped: the callback keeps reading the old one.

### ResourceLimits

One manager with its monitor. `Start` is one action, because it holds `rlm.mutex` throughout and
nothing it does but the lookup of the process depends on others. `Stop` is `Stop`, `StopMonitor`,
`JoinMonitor`, `JoinChecker`, one per thing it locks or waits for; the two mutexes are derived from
how far it is (`ManagerLocked`, `MonitorLocked`). The loops are split where they lock: `CollectUsage`
and `StoreUsage`; `GetCurrentUsage`, `SetViolations`, and a `DispatchViolation` per violation.
`CheckViolations` is the violation checker, with the comparison of CPU time in whole seconds.
Limits on I/O are accepted by the configuration but neither enforced nor checked by the code, so they
are absent. On Linux `GetProcessUsage` is a placeholder that reports zero; the model allows any usage,
as on the other platforms.

### LogCollection

`running` is an atomic that every operation reads or sets before it takes `s.mu`, so each operation is
split there: `Start`, then `StartLocked` and `InitializeOutputs` (or `StartPlain`); `Stop`, then
`StopLocked`, a `StopCollector` and a `CollectorStopped` per worker, and `CloseOutputs`; `RegisterWorker`
and `RegisterLocked`. `holder` is who has the lock across steps. `UnregisterWorker` and
`WorkerUnregistered` are the close of the stop channel and the return of the wait for the readers.
A collection finds the collector first (`CollectFromStream`, `CollectFromProcess`) and starts its readers
later (`StartReader`), without a lock. A reader is at `scan`, at the `check` of the stop channel, or at
`write`; what it reads of `s.outputs` while `initializeOutputs` replaces it may be the old slice, the new
one, or half of each (`Seen`, `Torn`).

What the code leaves to panic is a state: a second close of a stop channel (`closepanic`), an `Add` to a
wait group whose `Wait` is about to return (`addpanic`), a call of a nil writer (`panicked`). After one
of them nothing happens. A flush may fail, and the buffer is then broken for good, as in `bufio`. The
file of a service that starts again is a new writer. `swept` and `orderly` are history: the collectors
that a stop of the service stopped, and whether starts and stops came one after the other, registrations
while the service ran, and no start without aggregation after one with it. Collecting and unregistering
are free to overlap with everything even then.

`CollectorRegistry` is what the service promises about collectors, without its lock, callers, outputs and
files: a worker gets a new collector when it has none, a collector is told to stop once and takes up no
line from then on, its stop returns when no line is being handed over, and only then is its worker
forgotten. The mapping is `Registry` in `LogCollection`: a collector that was made is known, a closed stop
channel is a collector told to stop, one for which nobody waits any more is stopped, and a reader at
`write` hands over a line. A stream may be attached to a collector at any time after it was made, since
the code finds a collector and starts its readers in two steps, with no lock between them.

### ProcessFile, WorkerConfig and Launch

`ProcessFile` and `WorkerConfig` are operators: where a file is, for a configuration and an environment;
the defaults; the validation; the options of a worker. An integer that is not given is 0 and a string
that is not given is "", as in the code, so a default also replaces a zero that was given. An optional
part is a set of at most one element.

`Launch` is the life of the master as far as processes and files go: `Run` (defaults, validation, the
workers, in an environment), `Crash`, and per worker `startProcess`, one action for each step that
others may see, fail, or be cut off at: `AttachCmd` and its failures, `ExecuteCmd`, truncating and
writing each file, and `Started` or `Cancelled`. Around it processes exit, other programs take PIDs and
services write their own PID files. A control that was stopped may start again; one whose start failed
is in `failed_start`, which only a crash of the master gets it out of, as in the code.

The PID file of an unmanaged worker is the `pid_file` of its configuration, whatever that is
(`ServiceFile`): it need only be given and absolute. It may be that of another unmanaged worker, or the one
the master writes for a worker it executes, and then the writes of one replace those of the other, and each
attaches to what it finds. A `pid_file` that is the *port* file of a worker is left out: a port would be read
as a PID.

`who[p]` says whose process has PID `p`. `lost`, `portLost`, `seen` and `reused` are history: a process
is lost when its PID is not where the master will look, because it crashed before it wrote the file,
could not write or read it, a service wrote its own there, or it runs where files are elsewhere; a PID is
reused when a second process has had it. The properties allow what follows from a loss, a reuse or a shared
PID file (`ShareFile`) and nothing else, so they say that these are the *only* causes of a second process, a
wrong process and a wrong port.

## 4. Runs

Passing runs check everything below at once on one instance; the others each show one statement of
the repository that the code does not meet.

| Run | Module | Shows |
|---|---|---|
| `pc_full` | MCProcessControl | three goroutines, two launches, every policy, attaching, nil contexts: sole termination, a running control has a process, success means gone |
| `pc_seq` | MCProcessControl | without policy terminations: no orphan, one instance, clean before start, a cleanup waits for the log of a dying process only, the lifecycle is implemented, calls return |
| `pc_overlap` | MCProcessControl | **violated**: a policy shutdown during a stop lets a start launch a second process |
| `ms_ops` | MCMaster | operations exclude each other, removable workers have no process and a calm shutdown leaves none, but those being stopped or given up on and reported; the shutdown ends, every control keeps to its lifecycle, no worker is stuck |
| `ms_restart` | MCMaster | **violated**: a delayed restart launches a process of a worker that was stopped |
| `sv_ok` | MCSupervision | grace period, limits, opening and resetting of the breaker, no restart uncounted but a forced one, requests end, an unhealthy worker is attended to |
| `sv_reset` | MCSupervision | **violated**: a recovery after a restart never resets the breaker |
| `rl_ok` | MCResourceLimits | what exceeds a limit is reported and acted on, no loop outlives the manager, Stop waits for loops only that were told to end and is held up by lock cycles only, which are final |
| `rl_stop` | MCResourceLimits | **violated**: Stop deadlocks with a check under way |
| `lc_ok` | MCLogCollection | collectors keep to their registry, no line is lost in silence, panics and stops that hang have the named causes only |
| `la_ok` | MCLaunch | one process per worker, a running control's own one, asked at its own port, but for losses, reuse and shared PID files; what the breaker gets can be run, and executed workers have files of their own |
| `la_perm` | MCLaunch | **violated**: the stop of a worker ends a service that it is not permitted to terminate |

The violated statements are quoted, with their places and the behaviour found, under `findings` in
`PROJECT.json`. Each of them is about the code as it is: the property of a violated run is not
assumed anywhere else. More such behaviours are in the models without a run of their own:

* A worker whose stop failed may be removed while its process lives, though `pkg/master/master.go:202` says
  of `failed` "Safe to remove - process is not running"; the shutdown leaves such a process behind, too. What
  `RemovableNotRunning` and `ShutdownStops` show is that, unless a stop of it is still under way,
  the start or stop that gave up on the process has returned an error. When a client and the shutdown stop
  one worker together, that error may be the shutdown's, and the client is told that the worker has stopped.
* Workers with the same `pid_file` pass the validation and attach to each other's process, whose stop then
  ends it. `OwnProcess` shows that nothing but this, or a reused PID, gives a control the process of another.
* A worker may be removed while another client starts it, since `RemoveWorker` acts on a state it has read
  before (`Master`; `RemovableNotRunning` speaks of the state as it is).
* Overlapping requests exceed the number of attempts, by no more than `OvershootBounded` says.
* An immediate kill waits for the output of the process it is to kill, whose reader is the silent one of
  `StopReturnsOrSilent`.

The runs check what is worth a run: the type invariants of `Master`, `Supervision`, `ResourceLimits`
and `LogCollection`, and `QuietAfterStop` and `WatchesUntilStopped`, which `ImplementsRegistry` and
`WaitsForTold` say more than, are theorems only.

Bounds, and why they are enough:

* `pc_full`: three threads are a stop, a termination and a third call that comes in between, which is
  the most that can meet in one pair of critical sections; two handles are the last process and the
  next. `pc_seq` has two threads, an external process to attach to, and `Feature` with what a launch
  sets up. `Handle` bounds the successful launches of a run.
* `ms_ops`: one worker and one entry suffice for operations on a worker, since workers share nothing but
  the map. A worker that is replaced under the same ID, by a removal and
  an addition, needs two entries, which no run has; the proofs cover any number. Two
  clients and the runner are every pair of concurrent operations.
* `sv_ok`: two requests overlap in every way two can; the proof covers any number. A violation has one
  retry more than a failed check and a backoff, so both limits are reached; `MaxDelay = 2` ticks are
  the longest configured delay, `MaxResets = 1` bounds recovery callbacks under way. The counter of
  attempts needs no bound: the breaker bounds it.
* `rl_ok`: four configurations (none, memory and CPU with warnings, limits without policy, monitoring
  disabled) and six usages on, below and above every limit and threshold, with CPU time in half
  seconds; `MaxHandling = 2` callbacks per policy under way.

* `lc_ok`: two callers, one of which starts and stops the service, are every pair of overlapping calls, and
  the two streams of a process are what one collector reads. With `MaxCollector = 2` a worker is
  registered again after it was unregistered, with `MaxWriter = 2` the service starts again after a stop.
  `MaxLine = 1`: a line takes a reader through all its steps, and the lines of the two streams meet in one
  buffer; the proof covers any number.
* `la_ok`: six configurations that are accepted (two processes side by side, one whose files move with the
  environment, one next to a service with a PID file of its own and one next to a service with the same PID
  file, two services with the same PID file, a service that cannot be found) and ten that are refused, each
  for a reason of its own. Two PIDs are enough for a second process of a worker, for the process of another,
  and for reuse; two ports for a wrong one; two environments for files that move. PIDs are interchangeable
  (`SYMMETRY`), which no property of the run is affected by, since all are invariants.

Deadlock is checked in the runs of the process control and of `Launch`, where there is always a next call,
crash or exit. It is not in the others: a master that has stopped, a breaker whose worker is in
`failed_start`, a manager that is stopped or stuck, and a log service that has panicked or whose streams
have ended at the bounds may take no further step.

Fairness, and why the code justifies it:

* A goroutine that can take a step takes it (weak fairness): the Go scheduler is preemptive and fair.
  For a step behind `pc.mutex` it is strong fairness, since Go's mutex hands itself over to a waiter
  that has starved for a millisecond.
* Timeouts pass: the graceful and the forced wait, the retry delay (`TimePasses`), the check interval.
* The operating system ends a process it was told to kill and wakes the waiter of one that is gone.
* In the loops of `ResourceLimits`, leaving is strongly fair: `select` picks at random among what is
  ready, so a cancelled context is not passed over forever.
* In `LogCollection` a caller gets the lock it waits for (strong fairness of `Advance`) and a reader that
  has a line goes on (weak fairness of `Process`). A stream need neither go on nor end.
* `Launch` states no fairness: what it is about is safety across crashes.
* Nothing is assumed of callers, of processes that are only asked to end, of processes that exit, become
  well or fall ill, of tickers in `ResourceLimits`, or of what a process writes to its pipe.
* `ProcessControl` takes the stop of the resource manager to return, which `ResourceLimits` refutes in
  one case; `pc_seq`, the run of `CallsReturn`, has no manager. `Master` takes the calls of a process
  control to return, which is `CallsReturn`.

## 5. Proofs

Every theorem holds for all values of the constants under the named assumptions of the modules
(`ConstantsOK`, `ConfigOK`, `BoundsOK`, `TriggersOK`, `LimitsOK`, `LogOK`,
`LaunchOK`), which TLC evaluates for the instances.
The assumptions say what kind of value a constant is; the only ones with content are that configured
multipliers and backoff rates are positive and that the set of requests is finite.

* `ProcessControlProofs`. `TypeOK` is not inductive for anything of interest, because what a goroutine
  may do depends on what it took with it. `IInv` adds that the mutex is held across a step by launches
  and cleanups only (`MutexInv`), that the steps of a kill belong to a kill (`KillInv`), that handles in
  use were launched (`HandleInv`) and that a goroutine that waits for a process has one (`PlanInv`). With
  it `SoleTerminator`, `RunningHasProcess` and `SuccessMeansGone` hold in every configuration.
  `FieldsInv` adds what the state says of collector, monitor and manager: none of them in `idle` and
  `starting`. Only an immediate kill breaks that, since it cleans up before it has the process, so
  `CleanBeforeStart` holds for every configuration without one, graceful terminations that overlap with
  stops among them, and fails with one. `SeqInv` adds, without policy terminations (`Sequential`), that
  one goroutine at a time terminates and the state says so, or says `failed_start` because of a nil
  context (`Spoiled`). From it follow `NoOrphan` and `OneInstance`, nil contexts included; `pc_overlap` is
  the counterexample with terminations. `WaitsForDoomed` is about a process that goroutines, the mutex and
  the log reader meet at: `WaitInv` says that what is received from the done channel of a child is its
  exit, `DoomInv` that therefore a child is dead or told to die when its cleanup begins, and `ReaderInv`
  that the reader to wait for is that child's. An attached process has no pipe to read. `LifecycleImplemented`
  needs `~NilContext` as well: every step of `ProcessControl` is a step of `ProcessLifecycle` or
  stutters, under the mapping `Instance`.
* `MasterProofs`. `OpInv` (types, which steps a goroutine can be at, `OneOperation`) is inductive by
  itself; `ControlInv` relates the process control to the client that operates on it. `SlotInv` says that a
  control that is launching has one launcher and one that is stopping one goroutine that waits, be it a
  client, the shutdown or a restart, and gives `LifecycleKept`: no transition but those of `ProcessStates`,
  for all controls at once, and per control as an implementation of it (`EachControlImplements`). `WhereInv`
  follows the process itself: one that lives has a control that runs or is stopping it, without restarts by
  policy a client or the shutdown waits for each stop, and one that was left was reported, or is about to be
  by a client that is still in its operation. With `ControlInv` it gives `RemovableNotRunning`. For
  `ShutdownStops`, `CalmInv` says that after a calm beginning no start gets under way and every worker that
  still has a process is one the shutdown has yet to copy or to stop; it needs that an entry never
  registered has no process and no one knows it (`UnknownInv`).
* `SupervisionProofs`. The breaker is proved about alone, for any callers: `OpenOnlyAtLimit`;
  `OvershootBounded`, whose invariant counts the requests asleep along with the attempts, so the step
  from sleeping to counted keeps the sum; and `GraceKept`, that the grace period ends with all retries
  left, which is inductive with the types. `LimitsKept` and `DelaysKept` are about its arithmetic, for all
  multipliers: no limit becomes the zero that stands for none, no delay becomes less than a second.
  The lemma `UsesBreaker` (each step of `Supervision` is a step of the breaker or leaves it alone) carries
  the invariants over (`SupervisedBreaker`). `RestartsCounted` is not inductive: `CountInv` adds to `takes`
  the restarts that were let through and have yet to take the process down, each of which a count holds.
  With the bound on the overshoot it gives `TakesBounded`, a bound on how often a process is taken down
  between two resets. `OneTerminates`, which no run checks, is
  inductive with `TypeOK`.
* `ResourceLimitsProofs`. `LoopInv` says which loops there may be at each point of Start and Stop, and
  gives `NoOrphans`, `WatchesUntilStopped`, and `WaitsForTold`, the safety behind a `Stop` that returns:
  but for the two lock cycles, the loop it waits for was told to end and is on its way. `CheckInv`
  carries the result of the checker from the usage to the published violations; with `ExceedsRight` (the
  cut to seconds takes away less than a second) and `CriticalWithWarning` (a product with a percentage)
  it gives `CheckedRight` and `CriticalWarns`. `StuckForever` needs no invariant: the guards of the two
  loops and of the two joins exclude each other.
* `LogCollectionProofs`. `Inv` is what every theorem rests on: types, who holds the lock at which step,
  that what `Stop` has left is registered, that collectors and writers are used only after they were
  made, and what callers and readers carry. `WokenQuiet` (a wait that was woken up has no reader past the
  check) makes `QuietAfterStop` inductive, and `SweptInv` (a closed stop channel of a registered
  collector is that of a past stop of the service, or somebody waits) gives the first half of
  `PanicsExplained`. `NoSilentLoss` needs the whole history of an orderly service, `OrderInv`: one
  caller at a time starts or stops, a service that is down has stopped every collector, a stop has
  stopped all but those it has left, and so outputs that are closed have no reader behind them;
  `RegisteredInv` (every collector is stopped or registered) is why a stop finds them all. The same
  excludes the half written outputs (`TornInv`). `ActiveTellsTruth` is inductive with `Inv`.
* `CollectorRegistryProofs`. `RegistryImplemented`: each step of `LogCollection` is a step of
  `CollectorRegistry` or leaves alone what it sees (`View`). It rests on `Inv`, by which the lock makes
  the stop that returns the only one, and on `QuietAfterStop`.
* `LaunchProofs`. `FilesOwned` and `ProcsOwned` say that a PID file, and a process control, has a PID that a
  process of a worker with this file had, unless the PID was reused: a PID no process had before is in no
  file, and the files of two workers that are executed have different paths in any environment, which is why
  only a `pid_file` can be shared (`OwnFile`, `ServicePaths`). `Recorded` says that a process is found by
  its file, is lost, or is being written, and `OthersLost` that when a worker is about to execute, all its
  live processes are lost, because attaching has failed; the first half of `OneProcess` follows from the two
  when the new process starts. The second half, that a running control has none but lost ones beside its
  own, is `Recorded` again for a control that attaches: what it finds in the PID file is the only process of
  the worker that is not lost (`AttachedOnly`), also when a service wrote to the file, since that made the
  process that was recorded there a lost one. `PortsTold`, `PortsRecorded` and `PortsKnown` do the same for
  ports. `AcceptedRuns` is a lemma about values: typed configurations stay typed under the defaults,
  validation gives the breaker its positive rates and natural numbers, and the paths that the master
  generates are injective in the worker.

Only model-checked, by TLC: every liveness property (`CallsReturn`, `NeverStuck`, `MasterStops`,
`RequestsEnd`, `Attended`, `StopReturnsOrSticks`, `ViolationsHandled`, `StopReturnsOrSilent`), since
liveness under fairness is out of the prover's reach, and all counterexamples. Every safety property of
every passing run is a theorem.

## 6. Not modelled

* Of the log collection `ProcessLogLine`, which no code calls, the counters of lines and bytes, the console,
  and the configuration of outputs and formats with its defaults: their values decide nothing that is
  modelled but whether outputs are aggregated and which streams are captured, which are inputs.
* The directories of logs and the templates of the names of log files in `pkg/processfile`.
* Of a launch the arguments, the environment and the working directory of a process, and the search for a
  free port: that port is nobody's until the process listens on it, so any port is possible.
* Of the configuration the reading of YAML, the summaries for display, network addresses, and the timeouts
  and limits no validation looks at.
* In `ProcessControl` the outcome of a launch is a choice and the collector of a launch is running or not;
  what is behind them is in `Launch` and `LogCollection`, and is not composed with it: the product is out
  of TLC's reach.
* Limit enforcers and platform monitors: system calls whose errors are logged and ignored; their readings
  are inputs.
* The HTTP, gRPC, TCP, exec and process probes of a health check: I/O with a Boolean result.
* Errors, log formatting and back ends, the gRPC surface, commands, generated code: nothing that is
  specified depends on them.
* Data races on fields read without a lock (`pc.process` in `Stop` and `Restart`) are modelled as reads of
  the value at that moment; a torn read of a pointer does not occur on the platforms Go supports.
