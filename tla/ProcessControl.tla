--------------------------- MODULE ProcessControl ---------------------------
(***************************************************************************)
(* One worker's process control (pkg/workers/processcontrolimpl): several  *)
(* goroutines call Start, Stop and Restart, and the health monitor and the *)
(* resource manager call back with restarts and terminations.  All of them *)
(* share one record protected by pc.mutex.  Stop and the terminations take *)
(* the mutex twice, once to plan and once to finalize, and talk to the     *)
(* operating system in between without it.                                 *)
(*                                                                         *)
(* A Handle is one *os.Process with its done channel: one successful       *)
(* launch.  A Proc is an operating system process; attaching to a process  *)
(* that is alive gives it a second handle.  Diagnostics (last error,       *)
(* failure count, timestamps) are read by nothing that is modelled.        *)
(***************************************************************************)

CONSTANTS
    Thread,      \* goroutines that call into one process control
    Handle,      \* launches that may succeed: bounds the length of a run
    Proc,        \* operating system processes
    External,    \* processes alive before the first launch
    Feature,     \* what a launch sets up: "log", "health" and "limits"
    Callbacks,   \* reactions the worker's configuration enables
    CanAttach,   \* config.CanAttach with an AttachCmd
    NilContext,  \* whether a caller may pass a nil context to Start
    NoThread, NoHandle, NoProc

ASSUME ConstantsOK ==
    /\ External \subseteq Proc
    /\ Feature \subseteq {"log", "health", "limits"}
    /\ Callbacks \subseteq {"health", "restart", "graceful_shutdown", "immediate_kill"}
    /\ CanAttach \in BOOLEAN
    /\ NilContext \in BOOLEAN
    /\ NoThread \notin Thread
    /\ NoHandle \notin Handle
    /\ NoProc \notin Proc

VARIABLES
    state,       \* pc.state
    process,     \* pc.process and pc.processDoneSignal
    res,         \* the collector, monitor and manager the fields refer to, by the handle they watch
    mutex,       \* who holds pc.mutex across a step
    live,        \* the collectors, monitors and managers that are running
    of,          \* the process a handle refers to
    attached,    \* the handles obtained by attaching
    done,        \* the wait goroutine and the done channel of a handle
    os,          \* what the operating system does with a process
    op, pc,      \* what each goroutine runs, and how far it is
    plan,        \* plan.processToTerminate of each goroutine
    err,         \* terminationError of each goroutine
    abandoned    \* handles whose termination was reported as failed

fields == <<state, process, res, mutex>>
system == <<of, attached, done, os>>
local == <<op, pc, plan, err>>
vars == <<state, process, res, mutex, live, of, attached, done, os, op, pc, plan, err, abandoned>>

ProcessState == {"idle", "starting", "running", "stopping", "terminating", "failed_start"}
Op == {"none", "start", "stop", "restart", "shutdown", "kill"}
Step == {"ready", "gate", "planStop", "grace", "force", "reap", "finalize", "cleanup",
         "startLock", "launch", "planShutdown", "planKill", "kill", "finalizeKill"}

Init ==
    /\ state = "idle"
    /\ process = NoHandle
    /\ res = [f \in Feature |-> NoHandle]
    /\ mutex = NoThread
    /\ live = [f \in Feature |-> {}]
    /\ of = [h \in Handle |-> NoProc]
    /\ attached = {}
    /\ done = [h \in Handle |-> "unused"]
    /\ os = [p \in Proc |-> IF p \in External THEN "alive" ELSE "unused"]
    /\ op = [t \in Thread |-> "none"]
    /\ pc = [t \in Thread |-> "ready"]
    /\ plan = [t \in Thread |-> NoHandle]
    /\ err = [t \in Thread |-> FALSE]
    /\ abandoned = {}

(***************************************************************************)
(* Calls.  Stop and Restart read pc.process before they take the mutex; on *)
(* nil they return an error and change nothing.                            *)
(***************************************************************************)
Call(t, o, s) ==
    /\ pc[t] = "ready"
    /\ op' = [op EXCEPT ![t] = o]
    /\ pc' = [pc EXCEPT ![t] = s]
    /\ UNCHANGED <<fields, live, system, plan, err, abandoned>>

Start(t) == Call(t, "start", "startLock")

StartNilContext(t) ==
    /\ NilContext
    /\ pc[t] = "ready"
    /\ mutex = NoThread
    /\ state' = "failed_start"
    /\ UNCHANGED <<process, res, mutex, live, system, local, abandoned>>

Stop(t) ==
    /\ process # NoHandle
    /\ Call(t, "stop", "planStop")

\* Restart with force goes past the circuit breaker, and so does a worker without one.
Restart(t) ==
    /\ process # NoHandle
    /\ \E s \in {"planStop", "gate"} : Call(t, "restart", s)

\* A failed check of a running health monitor, under a policy that restarts.
HealthRestart(t) ==
    /\ "health" \in Callbacks \cap Feature
    /\ live["health"] # {}
    /\ Call(t, "restart", "gate")

\* A critical violation, dispatched by a running resource manager in a new goroutine.
HandleResourceViolation(t) ==
    /\ "limits" \in Feature
    /\ live["limits"] # {}
    /\ \/ "restart" \in Callbacks /\ \E s \in {"planStop", "gate"} : Call(t, "restart", s)
       \/ "graceful_shutdown" \in Callbacks /\ Call(t, "shutdown", "planShutdown")
       \/ "immediate_kill" \in Callbacks /\ Call(t, "kill", "planKill")

GoTo(t, s) == pc' = [pc EXCEPT ![t] = s]

Continue(t, s) == GoTo(t, s) /\ UNCHANGED <<op, plan, err, abandoned>>

\* The call returns; with an error, the caller knows of the process it was about.
Return(t) ==
    /\ GoTo(t, "ready")
    /\ op' = [op EXCEPT ![t] = "none"]
    /\ plan' = [plan EXCEPT ![t] = NoHandle]
    /\ err' = [err EXCEPT ![t] = FALSE]
    /\ abandoned' = IF err[t] THEN abandoned \cup ({plan[t]} \cap Handle) ELSE abandoned

\* ExecuteRestart of the circuit breaker: it refuses, or lets the restart go on after its delay.
ExecuteRestart(t) ==
    /\ pc[t] = "gate"
    /\ Continue(t, "planStop") \/ Return(t)
    /\ UNCHANGED <<fields, live, system>>

(***************************************************************************)
(* Phase 1 of a stop or a termination: one critical section that decides,  *)
(* moves the state and takes the process away from the record.             *)
(***************************************************************************)
canStopFromState == state \in {"idle", "running"}

\* Mutant: the record keeps its process.
TakeProcessButKeepIt(t) ==
    /\ state' = "stopping"
    /\ plan' = [plan EXCEPT ![t] = process]
    /\ GoTo(t, IF process = NoHandle THEN "finalize" ELSE "grace")
    /\ UNCHANGED <<process, op, err, abandoned>>

\* Mutant: the state keeps saying running.
TakeProcessAndStayRunning(t) ==
    /\ plan' = [plan EXCEPT ![t] = process]
    /\ process' = NoHandle
    /\ GoTo(t, IF process = NoHandle THEN "finalize" ELSE "grace")
    /\ UNCHANGED <<state, op, err, abandoned>>

\* Mutant: the state says idle before the process is gone.
TakeProcessAndIdle(t) ==
    /\ state' = "idle"
    /\ plan' = [plan EXCEPT ![t] = process]
    /\ process' = NoHandle
    /\ GoTo(t, IF process = NoHandle THEN "finalize" ELSE "grace")
    /\ UNCHANGED <<op, err, abandoned>>

TakeProcess(t) ==
    /\ state' = "stopping"
    /\ plan' = [plan EXCEPT ![t] = process]
    /\ process' = NoHandle
    /\ GoTo(t, IF process = NoHandle THEN "finalize" ELSE "grace")
    /\ UNCHANGED <<op, err, abandoned>>

\* Already stopped is no error: a restart goes on to its start.
validateAndPlanStop(t) ==
    /\ pc[t] = "planStop"
    /\ mutex = NoThread
    /\ \/ canStopFromState /\ state # "idle" /\ TakeProcess(t)
       \/ /\ state = "idle"
          /\ IF op[t] = "restart" THEN Continue(t, "startLock") ELSE Return(t)
          /\ UNCHANGED <<state, process>>
       \/ ~canStopFromState /\ Return(t) /\ UNCHANGED <<state, process>>
    /\ UNCHANGED <<res, mutex, live, system>>

\* validateAndPlanTermination, graceful: any state but idle goes on.
planShutdown(t) ==
    /\ pc[t] = "planShutdown"
    /\ mutex = NoThread
    /\ \/ state # "idle" /\ TakeProcess(t)
       \/ state = "idle" /\ Return(t) /\ UNCHANGED <<state, process>>
    /\ UNCHANGED <<res, mutex, live, system>>

\* validateAndPlanTermination, immediate kill: it cleans up first and keeps the mutex for it.
planKill(t) ==
    /\ pc[t] = "planKill"
    /\ mutex = NoThread
    /\ \/ /\ state # "idle"
          /\ state' = "terminating"
          /\ plan' = [plan EXCEPT ![t] = process]
          /\ mutex' = t
          /\ GoTo(t, "cleanup")
          /\ UNCHANGED <<op, err, abandoned>>
       \/ state = "idle" /\ Return(t) /\ UNCHANGED <<state, mutex>>
    /\ UNCHANGED <<process, res, live, system>>

(***************************************************************************)
(* Phase 2, without the mutex: signal, wait on the done channel with a     *)
(* timeout (or a cancelled context), kill, wait again.                     *)
(***************************************************************************)
Reaped(h) == done[h] \in {"exit", "error"}

\* Mutant: the error of the done channel is taken for an exit.
ReceiveDoneAsExit(t) ==
    /\ pc[t] \in {"grace", "reap"}
    /\ Reaped(plan[t])
    /\ done' = [done EXCEPT ![plan[t]] = "taken"]
    /\ GoTo(t, "finalize")
    /\ UNCHANGED <<fields, live, of, attached, os, op, plan, err, abandoned>>

ReceiveDone(t) ==
    /\ pc[t] \in {"grace", "reap"}
    /\ Reaped(plan[t])
    /\ done' = [done EXCEPT ![plan[t]] = "taken"]
    /\ err' = [err EXCEPT ![t] = done[plan[t]] = "error"]
    /\ GoTo(t, "finalize")
    /\ UNCHANGED <<fields, live, of, attached, os, op, plan, abandoned>>

\* Mutant: the graceful wait has no timeout.
GraceWithoutTimeout(t) ==
    /\ pc[t] = "grace"
    /\ Reaped(plan[t])
    /\ Continue(t, "force")
    /\ UNCHANGED <<fields, live, system>>

\* Mutant: a process that ignores the signal is left alone, with an error.
GraceGivesUp(t) ==
    /\ pc[t] = "grace"
    /\ err' = [err EXCEPT ![t] = TRUE]
    /\ GoTo(t, "finalize")
    /\ UNCHANGED <<fields, live, system, op, plan, abandoned>>

GraceTimeout(t) ==
    /\ pc[t] = "grace"
    /\ Continue(t, "force")
    /\ UNCHANGED <<fields, live, system>>

\* A handle whose Wait has returned refuses the kill; so may a process that is not a child.
CanKill(h) == h \in attached \/ done[h] = "waiting"
KillFails(h) == h \in attached \/ done[h] # "waiting"

Doom(p) == IF os[p] = "alive" THEN [os EXCEPT ![p] = "doomed"] ELSE os

Kill(t) ==
    /\ pc[t] \in {"force", "kill"}
    /\ \/ /\ CanKill(plan[t])
          /\ os' = Doom(of[plan[t]])
          /\ GoTo(t, IF pc[t] = "force" THEN "reap" ELSE "finalizeKill")
          /\ UNCHANGED err
       \/ /\ KillFails(plan[t])
          /\ err' = [err EXCEPT ![t] = TRUE]
          /\ GoTo(t, IF pc[t] = "force" THEN "finalize" ELSE "finalizeKill")
          /\ UNCHANGED os
    /\ UNCHANGED <<fields, live, of, attached, done, op, plan, abandoned>>

\* Mutant: giving up on a killed process is no error.
ReapTimeoutIgnored(t) ==
    /\ pc[t] = "reap"
    /\ Continue(t, "finalize")
    /\ UNCHANGED <<fields, live, system>>

ReapTimeout(t) ==
    /\ pc[t] = "reap"
    /\ err' = [err EXCEPT ![t] = TRUE]
    /\ GoTo(t, "finalize")
    /\ UNCHANGED <<fields, live, system, op, plan, abandoned>>

(***************************************************************************)
(* Phase 3: clean up and go to idle, whatever became of the process.  The  *)
(* cleanup waits for the log reader, which leaves its loop at end of file  *)
(* or after the next line; an attached process has no stream to read.      *)
(***************************************************************************)
finalizeLock(t) ==
    /\ pc[t] = "finalize"
    /\ mutex = NoThread
    /\ mutex' = t
    /\ Continue(t, "cleanup")
    /\ UNCHANGED <<state, process, res, live, system>>

Gone(h) == of[h] # NoProc => os[of[h]] = "dead"

LogReaderBlocked ==
    \E h \in Handle \ attached : "log" \in Feature /\ res["log"] = h /\ ~Gone(h)

\* Mutant: the fields are cleared and what they refer to goes on.
ClearFieldsOnly ==
    /\ UNCHANGED live
    /\ res' = [f \in Feature |-> NoHandle]

cleanupResourcesUnderLock ==
    /\ live' = [f \in Feature |-> live[f] \ {res[f]}]
    /\ res' = [f \in Feature |-> NoHandle]

\* cleanupResourcesUnderLock, then idle (or, before an immediate kill, the process reference).
Cleanup(t) ==
    /\ pc[t] = "cleanup"
    /\ mutex = t
    /\ cleanupResourcesUnderLock
    /\ mutex' = NoThread
    /\ IF op[t] = "kill" THEN UNCHANGED state ELSE state' = "idle"
    /\ \/ /\ op[t] = "kill"
          /\ process' = NoHandle
          /\ Continue(t, IF plan[t] = NoHandle THEN "finalizeKill" ELSE "kill")
       \/ /\ op[t] = "restart" /\ ~err[t]
          /\ GoTo(t, "startLock")
          /\ plan' = [plan EXCEPT ![t] = NoHandle]
          /\ UNCHANGED <<process, op, err, abandoned>>
       \/ /\ op[t] # "kill" /\ (op[t] = "restart" => err[t])
          /\ Return(t)
          /\ UNCHANGED process
    /\ UNCHANGED system

\* finalizeTermination after an immediate kill: the cleanup is behind it.
finalizeKill(t) ==
    /\ pc[t] = "finalizeKill"
    /\ mutex = NoThread
    /\ state' = "idle"
    /\ Return(t)
    /\ UNCHANGED <<process, res, mutex, live, system>>

(***************************************************************************)
(* startInternal: one critical section, in which the launch takes as long  *)
(* as it takes.                                                            *)
(***************************************************************************)
canStartFromState == state = "idle"

startLock(t) ==
    /\ pc[t] = "startLock"
    /\ mutex = NoThread
    /\ \/ /\ canStartFromState
          /\ state' = "starting"
          /\ mutex' = t
          /\ Continue(t, "launch")
       \/ ~canStartFromState /\ Return(t) /\ UNCHANGED <<state, mutex>>
    /\ UNCHANGED <<process, res, live, system>>

Spawnable(p) == os[p] = "unused"
Attachable(p) == CanAttach /\ os[p] \in {"alive", "doomed"}

\* No process: attaching and executing failed, or the context was cancelled and the one got is killed.
LaunchFails(t) ==
    /\ pc[t] = "launch"
    /\ state' = "failed_start"
    /\ mutex' = NoThread
    /\ Return(t)
    /\ \/ UNCHANGED os
       \/ \E p \in Proc : Spawnable(p) /\ os' = [os EXCEPT ![p] = "doomed"]
       \/ \E p \in Proc : Attachable(p) /\ os' = Doom(p)
    /\ UNCHANGED <<process, res, live, of, attached, done>>

\* Mutant: what is started is recorded under the handle of the last launch.
SetUpForLastLaunch(h, started) ==
    /\ res' = [f \in Feature |-> IF f \in started THEN h ELSE NoHandle]
    /\ live' = [f \in Feature |-> IF f \in started THEN live[f] \cup {res[f]} ELSE live[f]]

\* Registering with the log service fails while the worker is still registered.
SetUp(h, started) ==
    /\ res' = [f \in Feature |->
                 IF f = "log" /\ res[f] # NoHandle THEN res[f]
                 ELSE IF f \in started THEN h ELSE NoHandle]
    /\ live' = [f \in Feature |->
                 IF f \in started /\ ~(f = "log" /\ res[f] # NoHandle)
                 THEN live[f] \cup {h} ELSE live[f]]

\* A failure to set up a feature is logged and ignored.
Launch(t) ==
    /\ pc[t] = "launch"
    /\ \E h \in Handle, p \in Proc, started \in SUBSET Feature :
          /\ of[h] = NoProc
          /\ of' = [of EXCEPT ![h] = p]
          /\ \/ Attachable(p) /\ attached' = attached \cup {h} /\ UNCHANGED os
             \/ Spawnable(p) /\ os' = [os EXCEPT ![p] = "alive"] /\ UNCHANGED attached
          /\ process' = h
          /\ done' = [done EXCEPT ![h] = "waiting"]
          /\ SetUp(h, started)
    /\ state' = "running"
    /\ mutex' = NoThread
    /\ Return(t)

(***************************************************************************)
(* The operating system and the wait goroutines.  Waiting for a process    *)
(* that is not a child fails at once on Unix; on Windows it returns at the *)
(* exit.  Nothing in the process control notices an exit.                  *)
(***************************************************************************)
Exit(p) ==
    /\ os[p] \in {"alive", "doomed"}
    /\ os' = [os EXCEPT ![p] = "dead"]
    /\ UNCHANGED <<fields, live, of, attached, done, local, abandoned>>

WaitReturns(h) ==
    /\ done[h] = "waiting"
    /\ \/ os[of[h]] = "dead" /\ done' = [done EXCEPT ![h] = "exit"]
       \/ h \in attached /\ done' = [done EXCEPT ![h] = "error"]
    /\ UNCHANGED <<fields, live, of, attached, os, local, abandoned>>

(***************************************************************************)
(* The specification.  The goroutines, their timers and Go's mutex, which  *)
(* starves nobody, make every step that stays possible happen; so does the *)
(* operating system with a process it was told to kill and with a child to *)
(* reap.  No caller has to call, no process has to heed SIGTERM, and       *)
(* nothing has to be written to the pipe a blocked log reader waits on.    *)
(* Stopping the resource manager is taken to return; ResourceLimits shows  *)
(* when it does not.                                                       *)
(***************************************************************************)
Calls(t) ==
    \/ Start(t) \/ StartNilContext(t) \/ Stop(t) \/ Restart(t)
    \/ HealthRestart(t) \/ HandleResourceViolation(t)

LockSteps(t) ==
    \/ validateAndPlanStop(t) \/ planShutdown(t) \/ planKill(t)
    \/ finalizeLock(t) \/ finalizeKill(t) \/ startLock(t)

FreeSteps(t) ==
    \/ ExecuteRestart(t) \/ ReceiveDone(t) \/ GraceTimeout(t) \/ Kill(t) \/ ReapTimeout(t)

LaunchSteps(t) == LaunchFails(t) \/ Launch(t)

Next ==
    \/ \E t \in Thread :
          Calls(t) \/ LockSteps(t) \/ FreeSteps(t) \/ Cleanup(t) \/ LaunchSteps(t)
    \/ \E p \in Proc : Exit(p)
    \/ \E h \in Handle : WaitReturns(h)

Spec == Init /\ [][Next]_vars

Fairness ==
    /\ \A t \in Thread :
          /\ SF_vars(LockSteps(t))
          /\ WF_vars(FreeSteps(t))
          /\ WF_vars(LaunchSteps(t))
          /\ WF_vars(~LogReaderBlocked /\ Cleanup(t))
    /\ \A p \in Proc : WF_vars(os[p] = "doomed" /\ Exit(p))
    /\ \A h \in Handle : WF_vars(Gone(h) /\ WaitReturns(h))

FairSpec == Spec /\ Fairness

-----------------------------------------------------------------------------

\* Every variable has its type.
TypeOK ==
    /\ state \in ProcessState
    /\ process \in Handle \cup {NoHandle}
    /\ res \in [Feature -> Handle \cup {NoHandle}]
    /\ mutex \in Thread \cup {NoThread}
    /\ live \in [Feature -> SUBSET Handle]
    /\ of \in [Handle -> Proc \cup {NoProc}]
    /\ attached \subseteq Handle
    /\ done \in [Handle -> {"unused", "waiting", "exit", "error", "taken"}]
    /\ os \in [Proc -> {"unused", "alive", "doomed", "dead"}]
    /\ op \in [Thread -> Op]
    /\ pc \in [Thread -> Step]
    /\ plan \in [Thread -> Handle \cup {NoHandle}]
    /\ err \in [Thread -> BOOLEAN]
    /\ abandoned \subseteq Handle

\* A process is taken away from the record by one goroutine only: two stops, or a stop and a
\* policy termination, never wait on the same done channel, which delivers one value.
SoleTerminator ==
    /\ \A t, u \in Thread : plan[t] # NoHandle /\ plan[t] = plan[u] => t = u
    /\ \A t \in Thread : plan[t] # NoHandle /\ plan[t] = process => pc[t] = "cleanup" /\ op[t] = "kill"

\* Whoever finds the state running under the mutex finds a process to stop, whatever stops,
\* terminations and nil-context starts went before.
RunningHasProcess == mutex = NoThread /\ state = "running" => process # NoHandle

\* A termination about to report success has seen the process exit, or has killed it.
SuccessMeansGone ==
    \A t \in Thread :
        plan[t] # NoHandle /\ ~err[t] =>
            /\ pc[t] = "finalize" \/ (pc[t] = "cleanup" /\ op[t] # "kill") => Gone(plan[t])
            /\ pc[t] = "finalizeKill" => os[of[plan[t]]] \in {"doomed", "dead"}

Alive(h) == of[h] # NoProc /\ os[of[h]] = "alive"

\* No launched process runs on with nobody in charge of it: it is the current one, or a
\* goroutine is terminating it, or the caller was told that terminating it failed.
NoOrphan ==
    \A h \in Handle :
        Alive(h) => h = process \/ h \in abandoned \/ \E t \in Thread : plan[t] = h

\* A start waits for the termination before it: but for one whose termination failed, no two
\* processes of the worker are alive together, competing for its port and its PID file.
OneInstance == \A g, h \in Handle \ abandoned : Alive(g) /\ Alive(h) => of[g] = of[h]

\* The monitors, the manager and the log collector of the last process are stopped before the
\* next one is launched, and none survives the fields that refer to it.
CleanBeforeStart ==
    /\ \A t \in Thread : pc[t] = "launch" => \A f \in Feature : res[f] = NoHandle
    /\ \A f \in Feature : live[f] \subseteq {res[f]}

\* A cleanup, which keeps the mutex while it waits for the log reader, waits only for a process
\* that was told to die: never for one that merely has nothing to say, which would block every
\* later call (cleanupResourcesUnderLock, terminateProcessExternal).
WaitsForDoomed ==
    (\E t \in Thread : pc[t] = "cleanup") /\ LogReaderBlocked => os[of[res["log"]]] = "doomed"

\* The instance in charge: the current process, or the one a goroutine is stopping.
Instance ==
    IF process # NoHandle THEN process
    ELSE IF \E t \in Thread : plan[t] # NoHandle
         THEN plan[CHOOSE t \in Thread : plan[t] # NoHandle]
         ELSE NoHandle

Lifecycle == INSTANCE ProcessLifecycle
                WITH instance <- Instance, past <- {h \in Handle : of[h] # NoProc}

\* Without policy terminations, the process control runs one instance after another.
OneAfterAnother == Lifecycle!Spec

\* Every call returns: the mutex is released, the timeouts bound the waiting, and a restart
\* ends after its start.
CallsReturn == \A t \in Thread : pc[t] # "ready" ~> pc[t] = "ready"
====
