---------------------------- MODULE ResourceLimits ----------------------------
(***************************************************************************)
(* The resource limit manager of one launch (pkg/resourcelimits).  Start   *)
(* applies the limits and spawns two goroutines: the loop of the resource  *)
(* monitor collects the usage of the process, the loop of the manager      *)
(* checks the usage against the limits and hands critical violations to    *)
(* the callback of the process control.  Stop cancels their context and    *)
(* waits for both, holding the mutexes the two loops lock.                 *)
(*                                                                         *)
(* The process control calls Start once and Stop once.  The context of     *)
(* Start is never cancelled from outside (master_runner.go starts workers  *)
(* with the background context).  The usage history and the usage callback *)
(* are read by nothing.                                                    *)
(***************************************************************************)
EXTENDS Integers, FiniteSets

CONSTANTS
    Config,        \* configurations of a worker's limits
    Usage,         \* what GetProcessUsage may report
    Second,        \* units of CPU time in a second
    MaxHandling    \* bounds the callbacks under way

Section == {"memory", "cpu", "process"}
Metric == {"rss", "virtual", "cpu", "cpuTime", "fds", "children"}
Policy == {"none", "log", "alert", "throttle", "graceful_shutdown", "immediate_kill",
           "restart", "restart_adjusted"}

\* LimitType of a violation of a metric: the section of the limits that names its policy.
SectionOf(m) == CASE m \in {"rss", "virtual"} -> "memory"
                  [] m \in {"cpu", "cpuTime"} -> "cpu"
                  [] OTHER -> "process"

\* A section that is nil is one without limits and without a policy; so is an empty policy.
ResourceLimits ==
    [limited : BOOLEAN,                      \* limits is not nil
     monitoring : BOOLEAN,                   \* limits.Monitoring.Enabled, the default
     limit : [Metric -> Nat],                \* 0: no limit
     warning : [{"rss", "cpu"} -> Nat],      \* WarningThreshold in percent, 0: none
     policy : [Section -> Policy \cup {""}]]

ASSUME LimitsOK ==
    /\ Config \subseteq ResourceLimits
    /\ Usage \subseteq [Metric -> Nat]
    /\ Second \in Nat \ {0}
    /\ MaxHandling \in Nat \ {0}

VARIABLES
    config,        \* rlm.limits
    owner,         \* how far the process control is with the manager: Start, Stop
    isRunning,     \* rlm.isRunning and rm.isRunning
    cancelled,     \* rlm.ctx, and with it rm.ctx
    collector,     \* the loop of the monitor
    checker,       \* the loop of the manager
    usage,         \* what the loop of the manager checks
    pending,       \* the violations it has not dispatched
    violations,    \* rlm.violations
    handling,      \* callbacks under way, by the policy they were given
    alive          \* whether the process runs

loops == <<collector, checker, usage, pending, violations, handling>>
vars == <<config, owner, isRunning, cancelled, loops, alive>>

(***************************************************************************)
(* The violation checker.  The list it returns is a set: its order decides *)
(* only in which order goroutines are spawned.                             *)
(***************************************************************************)
Critical(m) == [metric |-> m, severity |-> "critical"]
Warning(m) == [metric |-> m, severity |-> "warning"]
Violation == {Critical(m) : m \in Metric} \cup {Warning(m) : m \in {"rss", "cpu"}}

\* The CPU time is cut to whole seconds before it is compared.
Compared(u, m) == IF m = "cpuTime" THEN (u[m] \div Second) * Second ELSE u[m]

\* Mutant: the comparison of a limit that may be reached but not exceeded.
ExceedsWhenReached(c, u, m) == c.limit[m] > 0 /\ Compared(u, m) >= c.limit[m]

Exceeds(c, u, m) == c.limit[m] > 0 /\ Compared(u, m) > c.limit[m]

\* Mutant: the warning as the other case of the critical violation.
ExceedsOnlyWarning(c, u, m) ==
    /\ c.warning[m] > 0
    /\ c.limit[m] > 0
    /\ ~Exceeds(c, u, m)
    /\ 100 * u[m] > c.limit[m] * c.warning[m]

ExceedsWarning(c, u, m) ==
    /\ c.warning[m] > 0
    /\ c.limit[m] > 0
    /\ 100 * u[m] > c.limit[m] * c.warning[m]

CheckViolations(c, u) ==
    {Critical(m) : m \in {n \in Metric : Exceeds(c, u, n)}}
        \cup {Warning(m) : m \in {n \in {"rss", "cpu"} : ExceedsWarning(c, u, n)}}

(***************************************************************************)
(* Start holds the mutex of the manager from beginning to end; of what it  *)
(* does, only whether the process is found running depends on others.      *)
(***************************************************************************)
NewResourceLimitManager ==
    /\ config \in Config
    /\ owner = "new"
    /\ isRunning = [manager |-> FALSE, monitor |-> FALSE]
    /\ cancelled = FALSE
    /\ collector = "none"
    /\ checker = "none"
    /\ usage \in Usage
    /\ pending = {}
    /\ violations = {}
    /\ handling = [p \in Policy |-> 0]
    /\ alive \in BOOLEAN

StartUnlimited ==
    /\ owner = "new"
    /\ ~config.limited
    /\ owner' = "started"
    /\ UNCHANGED <<config, isRunning, cancelled, loops, alive>>

\* Mutant: the manager spawns its loop before it asks the monitor to start.
StartFailsLate ==
    /\ owner = "new"
    /\ config.limited
    /\ config.monitoring
    /\ ~alive
    /\ owner' = "failed"
    /\ isRunning' = [isRunning EXCEPT !.manager = TRUE]
    /\ checker' = "select"
    /\ UNCHANGED <<config, cancelled, collector, usage, pending, violations, handling, alive>>

\* The monitor finds no process: Start returns the error, with isRunning left set.
StartFails ==
    /\ owner = "new"
    /\ config.limited
    /\ config.monitoring
    /\ ~alive
    /\ owner' = "failed"
    /\ isRunning' = [isRunning EXCEPT !.manager = TRUE]
    /\ UNCHANGED <<config, cancelled, loops, alive>>

\* A disabled monitor starts no loop and is no error.
Start ==
    /\ owner = "new"
    /\ config.limited
    /\ config.monitoring => alive
    /\ owner' = "started"
    /\ isRunning' = [manager |-> TRUE, monitor |-> config.monitoring]
    /\ collector' = IF config.monitoring THEN "select" ELSE "none"
    /\ checker' = "select"
    /\ UNCHANGED <<config, cancelled, usage, pending, violations, handling, alive>>

(***************************************************************************)
(* Stop locks the mutex of the manager and then that of the monitor, and   *)
(* waits for a loop with the mutex of that loop locked.                    *)
(***************************************************************************)
ManagerLocked == owner \in {"stopMonitor", "joinMonitor", "joinChecker"}
MonitorLocked == owner = "joinMonitor"

StopIdle ==
    /\ owner = "started"
    /\ ~isRunning.manager
    /\ owner' = "stopped"
    /\ UNCHANGED <<config, isRunning, cancelled, loops, alive>>

\* Mutant: Stop without the call of the context's cancel function.
StopWithoutCancel ==
    /\ owner = "started"
    /\ isRunning.manager
    /\ isRunning' = [isRunning EXCEPT !.manager = FALSE]
    /\ owner' = "stopMonitor"
    /\ UNCHANGED <<config, cancelled, loops, alive>>

Stop ==
    /\ owner = "started"
    /\ isRunning.manager
    /\ cancelled' = TRUE
    /\ isRunning' = [isRunning EXCEPT !.manager = FALSE]
    /\ owner' = "stopMonitor"
    /\ UNCHANGED <<config, loops, alive>>

\* Mutant: the monitor is waited for whether it was started or not.
StopMonitorAlways ==
    /\ owner = "stopMonitor"
    /\ isRunning' = [isRunning EXCEPT !.monitor = FALSE]
    /\ owner' = "joinMonitor"
    /\ UNCHANGED <<config, cancelled, loops, alive>>

StopMonitor ==
    /\ owner = "stopMonitor"
    /\ isRunning' = [isRunning EXCEPT !.monitor = FALSE]
    /\ owner' = IF isRunning.monitor THEN "joinMonitor" ELSE "joinChecker"
    /\ UNCHANGED <<config, cancelled, loops, alive>>

JoinMonitor ==
    /\ owner = "joinMonitor"
    /\ collector = "exited"
    /\ owner' = "joinChecker"
    /\ UNCHANGED <<config, isRunning, cancelled, loops, alive>>

JoinChecker ==
    /\ owner = "joinChecker"
    /\ checker = "exited"
    /\ owner' = "stopped"
    /\ UNCHANGED <<config, isRunning, cancelled, loops, alive>>

(***************************************************************************)
(* The loop of the monitor: a tick reads the usage, without a lock, and    *)
(* stores it.  select takes either case when both are ready.               *)
(***************************************************************************)
CollectUsage ==
    /\ collector = "select"
    /\ alive
    /\ collector' = "store"
    /\ UNCHANGED <<config, owner, isRunning, cancelled, checker, usage, pending, violations,
                   handling, alive>>

StoreUsage ==
    /\ collector = "store"
    /\ ~MonitorLocked
    /\ collector' = "select"
    /\ UNCHANGED <<config, owner, isRunning, cancelled, checker, usage, pending, violations,
                   handling, alive>>

MonitorDone ==
    /\ collector = "select"
    /\ cancelled
    /\ collector' = "exited"
    /\ UNCHANGED <<config, owner, isRunning, cancelled, checker, usage, pending, violations,
                   handling, alive>>

(***************************************************************************)
(* The loop of the manager: a tick reads the usage, sets the violations    *)
(* and dispatches them one by one, each with a lock of its own.            *)
(***************************************************************************)
GetCurrentUsage ==
    /\ checker = "select"
    /\ alive
    /\ usage' \in Usage
    /\ pending' = CheckViolations(config, usage')
    /\ checker' = "set"
    /\ UNCHANGED <<config, owner, isRunning, cancelled, collector, violations, handling, alive>>

\* Mutant: the violations are set without the lock of the manager.
SetViolationsUnlocked ==
    /\ checker = "set"
    /\ violations' = pending
    /\ checker' = "dispatch"
    /\ UNCHANGED <<config, owner, isRunning, cancelled, collector, usage, pending, handling, alive>>

SetViolations ==
    /\ checker = "set"
    /\ ~ManagerLocked
    /\ violations' = pending
    /\ checker' = "dispatch"
    /\ UNCHANGED <<config, owner, isRunning, cancelled, collector, usage, pending, handling, alive>>

PolicyOf(v) == config.policy[SectionOf(v.metric)]

Acted(v) == v.severity = "critical" /\ PolicyOf(v) # ""

\* Mutant: a violation that is not acted upon ends the round.
DispatchUntilIgnored ==
    /\ checker = "dispatch"
    /\ ~ManagerLocked
    /\ \E v \in pending :
        IF Acted(v)
        THEN /\ handling[PolicyOf(v)] < MaxHandling
             /\ handling' = [handling EXCEPT ![PolicyOf(v)] = @ + 1]
             /\ pending' = pending \ {v}
        ELSE pending' = {} /\ UNCHANGED handling
    /\ UNCHANGED <<config, owner, isRunning, cancelled, collector, checker, usage, violations, alive>>

\* The callback is read under the lock even for a violation that is then ignored.
DispatchViolation ==
    /\ checker = "dispatch"
    /\ ~ManagerLocked
    /\ \E v \in pending :
        /\ pending' = pending \ {v}
        /\ IF Acted(v)
           THEN /\ handling[PolicyOf(v)] < MaxHandling
                /\ handling' = [handling EXCEPT ![PolicyOf(v)] = @ + 1]
           ELSE UNCHANGED handling
    /\ UNCHANGED <<config, owner, isRunning, cancelled, collector, checker, usage, violations, alive>>

CheckDone ==
    /\ checker = "dispatch"
    /\ pending = {}
    /\ checker' = "select"
    /\ UNCHANGED <<config, owner, isRunning, cancelled, collector, usage, pending, violations,
                   handling, alive>>

CheckerDone ==
    /\ checker = "select"
    /\ cancelled
    /\ checker' = "exited"
    /\ UNCHANGED <<config, owner, isRunning, cancelled, collector, usage, pending, violations,
                   handling, alive>>

\* What the callback does is the business of the process control.
CallbackReturns ==
    /\ \E p \in Policy :
        /\ handling[p] > 0
        /\ handling' = [handling EXCEPT ![p] = @ - 1]
    /\ UNCHANGED <<config, owner, isRunning, cancelled, collector, checker, usage, pending,
                   violations, alive>>

ProcessExits ==
    /\ alive
    /\ alive' = FALSE
    /\ UNCHANGED <<config, owner, isRunning, cancelled, loops>>

Owner == StartUnlimited \/ StartFails \/ Start
Stopping == StopMonitor \/ JoinMonitor \/ JoinChecker
MonitorLoop == CollectUsage \/ StoreUsage \/ MonitorDone
ViolationCheckLoop ==
    GetCurrentUsage \/ SetViolations \/ DispatchViolation \/ CheckDone \/ CheckerDone

Next ==
    \/ Owner \/ StopIdle \/ Stop \/ Stopping
    \/ MonitorLoop \/ ViolationCheckLoop
    \/ CallbackReturns \/ ProcessExits

Spec == NewResourceLimitManager /\ [][Next]_vars

\* A goroutine that can go on does.  A loop that finds its context done and a tick at the same
\* time takes either at random, so it does not take the tick forever.  Nothing makes a
\* process exit, a ticker tick or the process control stop the manager.
Fairness ==
    /\ WF_vars(Stopping)
    /\ WF_vars(StoreUsage)
    /\ WF_vars(SetViolations)
    /\ WF_vars(DispatchViolation)
    /\ WF_vars(CheckDone)
    /\ SF_vars(MonitorDone)
    /\ SF_vars(CheckerDone)
    /\ WF_vars(CallbackReturns)

FairSpec == Spec /\ Fairness

-----------------------------------------------------------------------------
(* Properties. *)

\* Every variable has its type.
TypeOK ==
    /\ config \in Config
    /\ owner \in {"new", "failed", "started", "stopMonitor", "joinMonitor", "joinChecker", "stopped"}
    /\ isRunning \in [manager : BOOLEAN, monitor : BOOLEAN]
    /\ cancelled \in BOOLEAN
    /\ collector \in {"none", "select", "store", "exited"}
    /\ checker \in {"none", "select", "set", "dispatch", "exited"}
    /\ usage \in Usage
    /\ pending \subseteq Violation
    /\ violations \subseteq Violation
    /\ handling \in [Policy -> 0 .. MaxHandling]
    /\ alive \in BOOLEAN

\* A loop runs only between a Start that succeeded and the return of Stop: a Start that failed,
\* whose manager the process control forgets, leaves none, and Stop returns after both.
NoOrphans ==
    owner \in {"new", "failed", "stopped"} =>
        {collector, checker} \subseteq {"none", "exited"}

\* A manager that started with limits checks them until it is asked to stop, also when the
\* monitor is disabled.
WatchesUntilStopped ==
    owner = "started" /\ config.limited => checker \notin {"none", "exited"} /\ ~cancelled

\* What is published as critical is exactly what is over its limit, but for a CPU time that is
\* over by less than a second.
CheckedRight ==
    checker = "dispatch" =>
        \A m \in Metric :
            LET over == usage[m] - config.limit[m]
            IN  /\ Critical(m) \in violations => config.limit[m] > 0 /\ over > 0
                /\ config.limit[m] > 0 /\ over > (IF m = "cpuTime" THEN Second - 1 ELSE 0) =>
                       Critical(m) \in violations

\* A critical violation of a metric with a warning threshold of at most 100% comes with the
\* warning: who reads the violations for warnings does not lose sight of it.
CriticalWarns ==
    \A m \in {"rss", "cpu"} :
        /\ Critical(m) \in violations
        /\ config.warning[m] \in 1 .. 100
        => Warning(m) \in violations

\* Stop waits for a loop that waits for a mutex Stop holds.
Stuck ==
    \/ MonitorLocked /\ collector = "store"
    \/ ManagerLocked /\ (checker = "set" \/ (checker = "dispatch" /\ pending # {}))

\* Stop waits only for a loop that was started and told to end: unless it is stuck, that loop has
\* ended or goes back to the select that sees its context done (Stop of the manager and of the
\* monitor, whose wait groups count the loops).
WaitsForTold ==
    owner \in {"joinMonitor", "joinChecker"} /\ ~Stuck =>
        /\ cancelled
        /\ owner = "joinMonitor" => collector \in {"select", "exited"}
        /\ owner = "joinChecker" =>
               checker \in {"select", "exited"} \/ (checker = "dispatch" /\ pending = {})

\* Nothing resolves that: Stop does not return, and neither does the process control that
\* called it with its own mutex locked.
StuckForever == [][Stuck => Stuck']_vars

\* Stop returns unless it gets stuck that way: nothing else holds it up.
StopReturnsOrSticks == owner = "stopMonitor" ~> owner = "stopped" \/ Stuck

\* Every critical violation whose section names a policy reaches the callback of the process
\* control with that policy, whatever is found along with it, unless the manager is stopped.
ViolationsHandled ==
    \A p \in Policy :
        (\E v \in pending : Acted(v) /\ PolicyOf(v) = p) ~> handling[p] > 0 \/ cancelled

\* Stop returns (docs/DEVELOPMENT_TRACKING.md:535 on the cleanup that calls it: "Zero deadlock
\* risk").
StopReturns == owner = "stopMonitor" ~> owner = "stopped"
=============================================================================
