------------------------------- MODULE Master -------------------------------
(***************************************************************************)
(* The master (pkg/master) and the state machine of each worker            *)
(* (pkg/master/workerstatemachine).  Clients add, remove, start and stop   *)
(* workers from their own goroutines; one more goroutine stops the master. *)
(* An operation reads the worker map under the master's mutex, checks and  *)
(* changes the worker's state under the state machine's, and calls the     *)
(* worker's process control under neither.                                 *)
(*                                                                         *)
(* An Entry is one *WorkerEntry: the state machine and the process control *)
(* that one AddWorker made.  The process control is the abstract one of    *)
(* ProcessLifecycle.  Its state is not the life of the process: a process  *)
(* may exit unnoticed, and a stop or a start that fails may leave one      *)
(* alive that no process control knows any more.                           *)
(***************************************************************************)

CONSTANTS
    Client,      \* goroutines that operate on workers
    Runner,      \* the goroutine of Run, which starts and stops the master
    Id,          \* worker IDs
    Entry,       \* registrations: bounds the number of AddWorker calls
    NoEntry

ASSUME ConstantsOK ==
    /\ Runner \notin Client
    /\ NoEntry \notin Entry

VARIABLES
    masterState,   \* m.masterState
    workers,       \* m.workers
    wstate,        \* currentState of each state machine
    control,       \* state of each process control
    restart,       \* a restart by policy of each process control: how far it is, or "off"
    pc, id, entry, \* of each goroutine: its step, the ID it was given, the entry it read
    toStop,        \* the entries that Stop has copied and not stopped yet
    calm,          \* no StartWorker was under way when Stop began (history)
    live,          \* the entries whose process lives, in the process control or with its stop
    left,          \* the entries of which a process lives that was given up on
    reported       \* the entries a start or stop of which has reported an error (history)

worker == <<masterState, workers, toStop, calm>>
process == <<live, left, reported>>
local == <<pc, id, entry>>
vars == <<worker, wstate, control, restart, local, process>>

Actor == Client \cup {Runner}

MasterState == {"not_started", "running", "stopping", "stopped"}
WorkerState == {"unknown", "registered", "starting", "running", "stopping", "stopped",
                "failed", "restarting"}
ControlState == {"idle", "starting", "running", "stopping", "failed_start"}

\* The steps of StartWorker, of StopWorker, of RemoveWorker and of Stop.
StartStep == {"pcStart", "launching", "toRunning", "startFailed"}
StopStep == {"pcStop", "planStop", "waitStop", "toStopped", "stopFailed"}
Step == StartStep \cup StopStep \cup
        {"ready", "validateStart", "toStarting", "validateStop", "toStopping",
         "checkRemovable", "delete", "copyWorkers", "stopNext"}

Init ==
    /\ masterState = "not_started"
    /\ workers = [i \in Id |-> NoEntry]
    /\ wstate = [e \in Entry |-> "unknown"]
    /\ control = [e \in Entry |-> "idle"]
    /\ restart \in [Entry -> {"off", "none"}]
    /\ pc = [a \in Actor |-> "ready"]
    /\ id \in [Actor -> Id]
    /\ entry = [a \in Actor |-> NoEntry]
    /\ toStop = {}
    /\ calm = TRUE
    /\ live = {}
    /\ left = {}
    /\ reported = {}

(***************************************************************************)
(* The worker state machine.                                               *)
(***************************************************************************)
\* Mutant: a failed stop has no state to go to.
ValidWithoutStopFailure(from) ==
    CASE from = "starting" -> {"running", "failed"}
      [] from = "running"  -> {"stopping", "failed", "restarting"}
      [] from = "stopping" -> {"stopped"}
      [] from \in {"registered", "stopped", "failed"} -> {"starting"}
      [] OTHER -> {}

validTransitions(from) ==
    CASE from = "unknown"    -> {"registered"}
      [] from \in {"registered", "stopped", "failed"} -> {"starting"}
      [] from \in {"starting", "restarting"} -> {"running", "failed"}
      [] from = "running"    -> {"stopping", "failed", "restarting"}
      [] from = "stopping"   -> {"stopped", "failed"}

CanTransition(e, to) == to \in validTransitions(wstate[e])

\* The transition, or the error that an invalid one returns.
Transition(e, to, ok, bad) ==
    IF CanTransition(e, to)
    THEN wstate' = [wstate EXCEPT ![e] = to] /\ ok
    ELSE UNCHANGED wstate /\ bad

GoTo(a, s) == pc' = [pc EXCEPT ![a] = s]

Continue(a, s) == GoTo(a, s) /\ UNCHANGED <<id, entry>>

\* The call returns: the goroutine forgets the entry it read.
Return(a) ==
    /\ GoTo(a, "ready")
    /\ entry' = [entry EXCEPT ![a] = NoEntry]
    /\ UNCHANGED id

\* Stop goes on with the next worker; an operation on a worker returns.
Done(a) ==
    IF a = Runner
    THEN GoTo(a, "stopNext") /\ entry' = [entry EXCEPT ![a] = NoEntry] /\ UNCHANGED id
    ELSE Return(a)

(***************************************************************************)
(* AddWorker, in one critical section, and RemoveWorker, which checks the  *)
(* state of the entry it read and later deletes whatever the ID maps to.   *)
(***************************************************************************)
AddWorker(c) ==
    /\ pc[c] = "ready"
    /\ \E i \in Id, e \in Entry :
          /\ workers[i] = NoEntry
          /\ wstate[e] = "unknown"
          /\ workers' = [workers EXCEPT ![i] = e]
          /\ wstate' = [wstate EXCEPT ![e] = "registered"]
    /\ UNCHANGED <<masterState, control, restart, local, toStop, calm, process>>

\* getWorkerAndMasterState: one critical section reads both.
Lookup(c, s, allowed) ==
    /\ pc[c] = "ready"
    /\ allowed
    /\ \E i \in Id :
          /\ workers[i] # NoEntry
          /\ id' = [id EXCEPT ![c] = i]
          /\ entry' = [entry EXCEPT ![c] = workers[i]]
    /\ GoTo(c, s)
    /\ UNCHANGED <<worker, wstate, control, restart, process>>

RemoveWorker(c) == Lookup(c, "checkRemovable", TRUE)

isWorkerSafelyRemovable(s) == s \in {"stopped", "failed", "unknown", "registered"}

CheckRemovable(c) ==
    /\ pc[c] = "checkRemovable"
    /\ IF isWorkerSafelyRemovable(wstate[entry[c]]) THEN Continue(c, "delete") ELSE Return(c)
    /\ UNCHANGED <<worker, wstate, control, restart, process>>

Delete(c) ==
    /\ pc[c] = "delete"
    /\ workers' = [workers EXCEPT ![id[c]] = NoEntry]
    /\ Return(c)
    /\ UNCHANGED <<masterState, wstate, control, restart, toStop, calm, process>>

(***************************************************************************)
(* StartWorker.                                                            *)
(***************************************************************************)
StartWorker(c) == Lookup(c, "validateStart", masterState = "running")

ValidateStart(c) ==
    /\ pc[c] = "validateStart"
    /\ IF CanTransition(entry[c], "starting") THEN Continue(c, "toStarting") ELSE Return(c)
    /\ UNCHANGED <<worker, wstate, control, restart, process>>

\* Mutant: the check before the transition is taken to be enough.
ToStartingUnchecked(c) ==
    /\ pc[c] = "toStarting"
    /\ wstate' = [wstate EXCEPT ![entry[c]] = "starting"]
    /\ Continue(c, "pcStart")
    /\ UNCHANGED <<worker, control, restart, process>>

ToStarting(c) ==
    /\ pc[c] = "toStarting"
    /\ Transition(entry[c], "starting", Continue(c, "pcStart"), Return(c))
    /\ UNCHANGED <<worker, control, restart, process>>

\* Mutant: the state of the process control is not looked at.
PcStartUnchecked(c) ==
    /\ pc[c] = "pcStart"
    /\ control' = [control EXCEPT ![entry[c]] = "starting"]
    /\ Continue(c, "launching")
    /\ UNCHANGED <<worker, wstate, restart, process>>

PcStart(c) ==
    /\ pc[c] = "pcStart"
    /\ \/ /\ control[entry[c]] = "idle"
          /\ control' = [control EXCEPT ![entry[c]] = "starting"]
          /\ Continue(c, "launching")
       \/ /\ control[entry[c]] # "idle"
          /\ Continue(c, "startFailed")
          /\ UNCHANGED control
    /\ UNCHANGED <<worker, wstate, restart, process>>

\* A process is launched; or the one that was left is attached to, and is left no longer.
GetsProcess(e) ==
    /\ live' = live \cup {e}
    /\ left' \in {left, left \ {e}}

\* A start that fails: cancelled after the launch, it ignores whether the kill succeeds.
MayLeave(e) == left' \in {left, left \cup {e}} /\ UNCHANGED live

\* A stop ends: well, the process is gone; with an error, it may live on.
LosesProcess(e, ok) ==
    /\ live' = live \ {e}
    /\ left' \in {left} \cup IF ok THEN {} ELSE {left \cup ({e} \cap live)}

PcStarted(c) ==
    /\ pc[c] = "launching"
    /\ \/ /\ control' = [control EXCEPT ![entry[c]] = "running"]
          /\ GetsProcess(entry[c])
          /\ Continue(c, "toRunning")
       \/ /\ control' = [control EXCEPT ![entry[c]] = "failed_start"]
          /\ MayLeave(entry[c])
          /\ Continue(c, "startFailed")
    /\ UNCHANGED <<worker, wstate, restart, reported>>

\* A transition that fails here is only logged.
Finish(c, from, to) ==
    /\ pc[c] = from
    /\ Transition(entry[c], to, TRUE, TRUE)
    /\ Return(c)
    /\ UNCHANGED <<worker, control, restart, live, left>>

ToRunning(c) == Finish(c, "toRunning", "running") /\ UNCHANGED reported

\* The error is kept in the state machine and returned to the client.
Reports(a) == reported' = reported \cup {entry[a]}

StartFailed(c) == Finish(c, "startFailed", "failed") /\ Reports(c)

(***************************************************************************)
(* StopWorker.  The process control is stopped in three steps: the check   *)
(* of the process without the mutex, the plan, and the end of the wait.    *)
(***************************************************************************)
StopWorker(c) == Lookup(c, "validateStop", masterState = "running")

ValidateStop(c) ==
    /\ pc[c] = "validateStop"
    /\ IF wstate[entry[c]] = "running" THEN Continue(c, "toStopping") ELSE Return(c)
    /\ UNCHANGED <<worker, wstate, control, restart, process>>

ToStopping(c) ==
    /\ pc[c] = "toStopping"
    /\ Transition(entry[c], "stopping", Continue(c, "pcStop"), Return(c))
    /\ UNCHANGED <<worker, control, restart, process>>

\* What an actor does with the result of its stop: StopWorker goes by it, Stop logs an error.
Stopped(a, ok) ==
    IF a = Runner
    THEN Done(a) /\ IF ok THEN UNCHANGED reported ELSE Reports(a)
    ELSE Continue(a, IF ok THEN "toStopped" ELSE "stopFailed") /\ UNCHANGED reported

PcStop(a) ==
    /\ pc[a] = "pcStop"
    /\ \/ control[entry[a]] = "running" /\ Continue(a, "planStop") /\ UNCHANGED reported
       \/ control[entry[a]] # "running" /\ Stopped(a, FALSE)
    /\ UNCHANGED <<worker, wstate, control, restart, live, left>>

PlanStop(a) ==
    /\ pc[a] = "planStop"
    /\ \/ /\ control[entry[a]] = "running"
          /\ control' = [control EXCEPT ![entry[a]] = "stopping"]
          /\ Continue(a, "waitStop")
          /\ UNCHANGED reported
       \/ control[entry[a]] = "idle" /\ Stopped(a, TRUE) /\ UNCHANGED control
       \/ /\ control[entry[a]] \notin {"running", "idle"}
          /\ Stopped(a, FALSE)
          /\ UNCHANGED control
    /\ UNCHANGED <<worker, wstate, restart, live, left>>

\* Mutant: the error of the termination is logged and forgotten.
WaitStopUnreported(a) ==
    /\ pc[a] = "waitStop"
    /\ control' = [control EXCEPT ![entry[a]] = "idle"]
    /\ \E ok \in BOOLEAN : LosesProcess(entry[a], ok)
    /\ Stopped(a, TRUE)
    /\ UNCHANGED <<worker, wstate, restart>>

\* The control is idle in either case: it keeps no process that it could not end.
WaitStop(a) ==
    /\ pc[a] = "waitStop"
    /\ control' = [control EXCEPT ![entry[a]] = "idle"]
    /\ \E ok \in BOOLEAN : Stopped(a, ok) /\ LosesProcess(entry[a], ok)
    /\ UNCHANGED <<worker, wstate, restart>>

ToStopped(c) == Finish(c, "toStopped", "stopped") /\ UNCHANGED reported

StopFailed(c) == Finish(c, "stopFailed", "failed") /\ Reports(c)

(***************************************************************************)
(* A restart by policy: requested while the process runs, delayed by the   *)
(* circuit breaker, then a stop and a start of the process control.  The   *)
(* worker's state machine hears nothing of it.  One at a time per worker;  *)
(* a configuration without policies has its restarts off.                  *)
(***************************************************************************)
RestartGoTo(e, c, r) ==
    /\ control' = [control EXCEPT ![e] = c]
    /\ restart' = [restart EXCEPT ![e] = r]
    /\ UNCHANGED <<worker, wstate, local>>

RequestRestart(e) ==
    /\ restart[e] = "none"
    /\ control[e] = "running"
    /\ RestartGoTo(e, "running", "delayed")
    /\ UNCHANGED process

\* The stop of the restart: a stop of an idle process control is no error.
RestartStop(e) ==
    /\ restart[e] = "delayed"
    /\ \/ control[e] = "running" /\ RestartGoTo(e, "stopping", "stopping")
       \/ control[e] = "idle" /\ RestartGoTo(e, "idle", "start")
       \/ control[e] \notin {"running", "idle"} /\ RestartGoTo(e, control[e], "none")
    /\ UNCHANGED process

RestartStopped(e) ==
    /\ restart[e] = "stopping"
    /\ \E ok \in BOOLEAN :
          /\ RestartGoTo(e, "idle", IF ok THEN "start" ELSE "none")
          /\ LosesProcess(e, ok)
    /\ UNCHANGED reported

RestartStart(e) ==
    /\ restart[e] = "start"
    /\ \/ control[e] = "idle" /\ RestartGoTo(e, "starting", "launching")
       \/ control[e] # "idle" /\ RestartGoTo(e, control[e], "none")
    /\ UNCHANGED process

RestartStarted(e) ==
    /\ restart[e] = "launching"
    /\ \/ RestartGoTo(e, "running", "none") /\ GetsProcess(e)
       \/ RestartGoTo(e, "failed_start", "none") /\ MayLeave(e)
    /\ UNCHANGED reported

\* A process ends by itself: its control is not told.
ProcessExits(e) ==
    /\ \/ e \in live /\ live' = live \ {e} /\ UNCHANGED left
       \/ e \in left /\ left' = left \ {e} /\ UNCHANGED live
    /\ UNCHANGED <<worker, wstate, control, restart, local, reported>>

(***************************************************************************)
(* Start and Stop of the master.  Stop leaves the state machines alone.    *)
(***************************************************************************)
Start ==
    /\ masterState = "not_started"
    /\ masterState' = "running"
    /\ UNCHANGED <<workers, wstate, control, restart, local, toStop, calm, process>>

StartUnderWay(c) == pc[c] \in StartStep \cup {"validateStart", "toStarting"}

Stop ==
    /\ pc[Runner] = "ready"
    /\ masterState = "running"
    /\ masterState' = "stopping"
    /\ calm' = ~\E c \in Client : StartUnderWay(c)
    /\ Continue(Runner, "copyWorkers")
    /\ UNCHANGED <<workers, wstate, control, restart, toStop, process>>

\* getAllWorkers.
CopyWorkers ==
    /\ pc[Runner] = "copyWorkers"
    /\ toStop' = {workers[i] : i \in Id} \ {NoEntry}
    /\ Continue(Runner, "stopNext")
    /\ UNCHANGED <<masterState, workers, calm, wstate, control, restart, process>>

\* Mutant: the worker whose stop fails is tried again.
StopNextAgain ==
    /\ pc[Runner] = "stopNext"
    /\ \/ \E e \in toStop :
             /\ entry' = [entry EXCEPT ![Runner] = e]
             /\ GoTo(Runner, "pcStop")
             /\ UNCHANGED <<id, masterState>>
       \/ /\ \A e \in toStop : control[e] = "idle"
          /\ masterState' = "stopped"
          /\ Return(Runner)
    /\ UNCHANGED <<workers, calm, wstate, control, restart, toStop, process>>

\* Mutant: a stop that fails ends the shutdown.
StopNextOrGiveUp ==
    /\ pc[Runner] = "stopNext"
    /\ \/ \E e \in toStop :
             /\ toStop' = toStop \ {e}
             /\ entry' = [entry EXCEPT ![Runner] = e]
             /\ GoTo(Runner, "pcStop")
             /\ UNCHANGED <<id, masterState>>
       \/ /\ masterState' = "stopped"
          /\ Return(Runner)
          /\ UNCHANGED toStop
    /\ UNCHANGED <<workers, calm, wstate, control, restart, process>>

\* stopWorkerProcessControls, in the order of the map's iteration.
StopNext ==
    /\ pc[Runner] = "stopNext"
    /\ \/ \E e \in toStop :
             /\ toStop' = toStop \ {e}
             /\ entry' = [entry EXCEPT ![Runner] = e]
             /\ GoTo(Runner, "pcStop")
             /\ UNCHANGED <<id, masterState>>
       \/ /\ toStop = {}
          /\ masterState' = "stopped"
          /\ Return(Runner)
          /\ UNCHANGED toStop
    /\ UNCHANGED <<workers, calm, wstate, control, restart, process>>

-----------------------------------------------------------------------------
Operate(c) == AddWorker(c) \/ RemoveWorker(c) \/ StartWorker(c) \/ StopWorker(c)

ClientStep(c) ==
    \/ CheckRemovable(c) \/ Delete(c)
    \/ ValidateStart(c) \/ ToStarting(c) \/ PcStart(c) \/ PcStarted(c)
    \/ ToRunning(c) \/ StartFailed(c)
    \/ ValidateStop(c) \/ ToStopping(c) \/ ToStopped(c) \/ StopFailed(c)

StopProcess(a) == PcStop(a) \/ PlanStop(a) \/ WaitStop(a)

RestartStep(e) ==
    \/ RequestRestart(e)
    \/ RestartStop(e) \/ RestartStopped(e) \/ RestartStart(e) \/ RestartStarted(e)

Next ==
    \/ \E c \in Client : Operate(c) \/ ClientStep(c)
    \/ \E a \in Actor : StopProcess(a)
    \/ \E e \in Entry : RestartStep(e) \/ ProcessExits(e)
    \/ Start \/ Stop \/ CopyWorkers \/ StopNext

Spec == Init /\ [][Next]_vars

\* Goroutines run on, and every call of a process control returns (CallsReturn of
\* ProcessControl).  No client has to call, and no restart has to go on.
Fairness ==
    /\ \A c \in Client : WF_vars(ClientStep(c) \/ StopProcess(c))
    /\ WF_vars(StopProcess(Runner) \/ CopyWorkers \/ StopNext)

FairSpec == Spec /\ Fairness

-----------------------------------------------------------------------------
\* Every variable has its type.
TypeOK ==
    /\ masterState \in MasterState
    /\ workers \in [Id -> Entry \cup {NoEntry}]
    /\ wstate \in [Entry -> WorkerState]
    /\ control \in [Entry -> ControlState]
    /\ restart \in [Entry -> {"off", "none", "delayed", "stopping", "start", "launching"}]
    /\ pc \in [Actor -> Step]
    /\ id \in [Actor -> Id]
    /\ entry \in [Actor -> Entry \cup {NoEntry}]
    /\ toStop \subseteq Entry
    /\ calm \in BOOLEAN
    /\ live \subseteq Entry
    /\ left \subseteq Entry
    /\ reported \subseteq Entry

Operating(c, e) == entry[c] = e /\ pc[c] \in StartStep \cup StopStep

\* No two operations on a worker go on together, and the state tells which one does, although
\* the operation is validated outside the transition that begins it.
OneOperation ==
    \A c, d \in Client : \A e \in Entry :
        /\ Operating(c, e) /\ Operating(d, e) => c = d
        /\ Operating(c, e) => wstate[e] = IF pc[c] \in StartStep THEN "starting" ELSE "stopping"

\* Somebody waits for the end of the process of e.
BeingStopped(e) == \E a \in Actor : entry[a] = e /\ pc[a] = "waitStop"

\* No process of e is being launched, and one that lives is being stopped.
AtRest(e) == control[e] # "starting" /\ (e \in live => BeingStopped(e))

\* A worker that may be removed is called not running (isWorkerSafelyRemovable).  Without
\* restarts by policy that is so but for a stop still under way, the shutdown's: unless a stop or
\* a start failed and left the process alive, which was reported by then.
RemovableNotRunning ==
    \A e \in Entry :
        restart[e] = "off" /\ isWorkerSafelyRemovable(wstate[e]) =>
            AtRest(e) /\ (e \in left => e \in reported)

\* A worker that was stopped cleanly has no process, whatever its configuration.
StoppedNotRunning ==
    \A e \in Entry : wstate[e] = "stopped" => control[e] \notin {"starting", "running"}

\* A master that has stopped leaves no registered worker with a process, if the worker has no
\* restarts by policy and no StartWorker was under way when the stop began, whatever stops and
\* removals go on meanwhile (Stop, stopWorkerProcessControls): but for one that a client has not
\* finished stopping, and one that a stop or start was unable to end, which is reported.
ShutdownStops ==
    masterState = "stopped" /\ calm =>
        \A e \in Entry :
            restart[e] = "off" /\ (\E i \in Id : workers[i] = e) =>
                AtRest(e) /\ (e \in left => e \in reported \/ wstate[e] = "stopping")

\* The process control of a registration, seen by its state.
Control(e) == INSTANCE ProcessStates WITH state <- control[e]

\* Clients, the shutdown and restarts by policy together never take a process control through a
\* transition that ProcessLifecycle does not have: whoever ends a launch or a stop is the one
\* that began it (StartWorker, StopWorker, stopWorkerProcessControls, restartInternal).
ControlsHaveLifecycle ==
    /\ \A e \in Entry : Control(e)!Init
    /\ [][\A e \in Entry : [Control(e)!Next]_(control[e])]_control

\* No worker stays in a state from which no operation is allowed.
NeverStuck ==
    \A e \in Entry :
        wstate[e] \in {"starting", "stopping"} ~> wstate[e] \in {"running", "stopped", "failed"}

\* A master that is told to stop has tried to stop every worker, and stops.
MasterStops == masterState = "stopping" ~> masterState = "stopped"
====
