------------------------------ MODULE Supervision ------------------------------
(***************************************************************************)
(* How a worker is supervised: the health monitor (pkg/monitoring) and the *)
(* resource manager call back into the process control, which restarts the *)
(* process through the circuit breaker; a recovery resets the breaker.     *)
(*                                                                         *)
(* Every failed check starts a goroutine with the restart callback.  The   *)
(* callback reads the state of the monitor that started it, which may have *)
(* been stopped and replaced by then: its state stays what it was.  The    *)
(* restart stops the process and the monitor, and starts others.  The      *)
(* process control is the abstract one of ProcessLifecycle; its start      *)
(* holds the mutex from beginning to end.                                  *)
(***************************************************************************)
EXTENDS RestartCircuitBreaker

CONSTANTS
    Policy,       \* config.RestartPolicy
    MaxResets     \* bounds the recovery callbacks under way

ASSUME TriggersOK ==
    /\ Policy \in {"always", "on-failure", "unless-stopped", "never"}
    /\ MaxResets \in Nat \ {0}
    /\ \A c \in Context : c.trigger \in {"health_failure", "resource_violation", "manual"}

VARIABLES
    control,      \* the state of the process control
    healthy,      \* whether the process would pass a check
    status,       \* h.state.Status of the current monitor
    call,         \* of each goroutine: its step outside the breaker
    seen,         \* of each callback: the status of its monitor, if that is stopped
    resets,       \* recovery callbacks under way
    takes,        \* history: how often a restart took the process down since the last reset
    uncounted     \* history: the restarts under way that attempts does not count

monitorVars == <<control, healthy, status, seen>>
historyVars == <<takes, uncounted>>
vars == <<breakerVars, monitorVars, call, resets, historyVars>>

Status == {"unknown", "healthy", "degraded", "unhealthy"}
Current == "current"

Init ==
    /\ BreakerInit
    /\ control = "running"
    /\ healthy \in BOOLEAN
    /\ status = "unknown"
    /\ call = [r \in Request |-> "none"]
    /\ seen = [r \in Request |-> Current]
    /\ resets = 0
    /\ takes = 0
    /\ uncounted = {}

Idle(r) == call[r] = "none"

Do(r, s) == call' = [call EXCEPT ![r] = s]

(***************************************************************************)
(* The health monitor.  It has a loop while the process control is running *)
(* or has not stopped it yet; a goroutine is spawned for each callback.    *)
(* ConsecutiveFailures is one in degraded and more in unhealthy.           *)
(***************************************************************************)
Monitoring == control \in {"running", "stopping"}

FailedBefore == status \in {"degraded", "unhealthy"}

CheckPasses ==
    /\ Monitoring
    /\ healthy
    /\ status' = "healthy"
    /\ \/ FailedBefore /\ resets < MaxResets /\ resets' = resets + 1
       \/ ~FailedBefore /\ UNCHANGED resets
    /\ UNCHANGED <<breakerVars, control, healthy, call, seen, historyVars>>

\* Mutant: only a change of the status is reported.
CheckFailsOnce(r) ==
    /\ Monitoring
    /\ ~healthy
    /\ Idle(r)
    /\ status' = IF FailedBefore THEN "unhealthy" ELSE "degraded"
    /\ IF status' # status THEN Do(r, "callback") ELSE UNCHANGED call
    /\ UNCHANGED <<breakerVars, control, healthy, seen, resets, historyVars>>

CheckFails(r) ==
    /\ Monitoring
    /\ ~healthy
    /\ Idle(r)
    /\ status' = IF FailedBefore THEN "unhealthy" ELSE "degraded"
    /\ Do(r, "callback")
    /\ UNCHANGED <<breakerVars, control, healthy, seen, resets, historyVars>>

Restarting(r) == call[r] \in {"stop", "terminate", "start"}

\* The recovery callback.  What it resets counts the restarts under way no longer.
Recovery ==
    /\ resets > 0
    /\ resets' = resets - 1
    /\ Reset
    /\ \/ /\ attempts > 0 \/ open
          /\ takes' = 0
          /\ uncounted' = {r \in Request : Restarting(r)}
       \/ ~(attempts > 0 \/ open) /\ UNCHANGED historyVars
    /\ UNCHANGED <<monitorVars, call>>

(***************************************************************************)
(* The requests: by policy after a failed check, after a violation, by     *)
(* hand.  The first reads the monitor it came from.                        *)
(***************************************************************************)
shouldRestartBasedOnPolicy(s) ==
    \/ Policy = "always"
    \/ Policy \in {"on-failure", "unless-stopped"} /\ s = "unhealthy"

SeenBy(r) == IF seen[r] = Current THEN status ELSE seen[r]

Callback(r) ==
    /\ call[r] = "callback"
    /\ \/ /\ shouldRestartBasedOnPolicy(SeenBy(r))
          /\ \E c \in Context : c.trigger = "health_failure" /\ Request_(r, c)
          /\ Do(r, "breaker")
       \/ /\ ~shouldRestartBasedOnPolicy(SeenBy(r))
          /\ Do(r, "none")
          /\ UNCHANGED breakerVars
    /\ seen' = [seen EXCEPT ![r] = Current]
    /\ UNCHANGED <<control, healthy, status, resets, historyVars>>

RequestOf(r, trigger) ==
    /\ Idle(r)
    /\ \E c \in Context : c.trigger = trigger /\ Request_(r, c)
    /\ Do(r, "breaker")
    /\ UNCHANGED <<monitorVars, resets, historyVars>>

\* Mutant: a violation restarts the process as if there were no breaker.
ViolationWithoutBreaker(r) ==
    /\ Monitoring
    /\ Idle(r)
    /\ Do(r, "stop")
    /\ UNCHANGED <<breakerVars, monitorVars, resets, historyVars>>

handleResourceViolation(r) == Monitoring /\ RequestOf(r, "resource_violation")

\* force = true: the breaker is left out.
RestartForced(r) ==
    /\ Idle(r)
    /\ Do(r, "stop")
    /\ uncounted' = uncounted \cup {r}
    /\ UNCHANGED <<breakerVars, monitorVars, resets, takes>>

Restart(r) ==
    /\ control = "running"
    /\ RequestOf(r, "manual") \/ RestartForced(r)

\* A request in the breaker: it is refused, it sleeps, or it goes on to the restart.
InBreaker(r) ==
    /\ call[r] = "breaker"
    /\ ExecuteRestart(r)
    /\ Do(r, CASE pc'[r] = "idle" -> "none"
               [] pc'[r] = "restarting" -> "stop"
               [] OTHER -> "breaker")
    /\ UNCHANGED <<monitorVars, resets, historyVars>>

(***************************************************************************)
(* restartInternal: stop, then start.  A process control that is already   *)
(* stopping refuses; an idle one has nothing to stop.                      *)
(***************************************************************************)
restartInternalReturns(r) ==
    /\ \/ RestartReturns(r)
       \/ pc[r] = "idle" /\ UNCHANGED breakerVars
    /\ Do(r, "none")
    /\ uncounted' = uncounted \ {r}

RestartStop(r) ==
    /\ call[r] = "stop"
    /\ \/ /\ control = "running"
          /\ control' = "stopping"
          /\ Do(r, "terminate")
          /\ takes' = IF r \in uncounted THEN takes ELSE takes + 1
          /\ UNCHANGED <<breakerVars, uncounted>>
       \/ control = "idle" /\ Do(r, "start") /\ UNCHANGED <<control, breakerVars, historyVars>>
       \/ control \notin {"running", "idle"} /\ restartInternalReturns(r) /\ UNCHANGED <<control, takes>>
    /\ UNCHANGED <<healthy, status, seen, resets>>

\* The process is gone, or given up on; its monitor is stopped, with the state it had.
RestartFinalize(r) ==
    /\ call[r] = "terminate"
    /\ control' = "idle"
    /\ seen' = [q \in Request |-> IF call[q] = "callback" THEN SeenBy(q) ELSE Current]
    /\ \/ Do(r, "start") /\ UNCHANGED <<breakerVars, uncounted>>
       \/ restartInternalReturns(r)
    /\ UNCHANGED <<healthy, status, resets, takes>>

RestartStart(r) ==
    /\ call[r] = "start"
    /\ restartInternalReturns(r)
    /\ \/ /\ control = "idle"
          /\ control' = "running"
          /\ status' = "unknown"
          /\ healthy' \in BOOLEAN
       \/ /\ control = "idle"
          /\ control' = "failed_start"
          /\ UNCHANGED <<healthy, status>>
       \/ control # "idle" /\ UNCHANGED <<control, healthy, status>>
    /\ UNCHANGED <<seen, resets, takes>>

(***************************************************************************)
(* The specification.  A worker may fall ill and recover at any time.  The *)
(* monitor's ticker, the goroutines and the timers make progress.          *)
(***************************************************************************)
Ill == healthy' = FALSE
Well == healthy' = TRUE

Worker ==
    /\ Ill \/ Well
    /\ UNCHANGED <<breakerVars, control, status, call, seen, resets, historyVars>>

TimePasses == Tick /\ UNCHANGED <<monitorVars, call, resets, historyVars>>

Check == CheckPasses \/ \E r \in Request : CheckFails(r)

Asks(r) == handleResourceViolation(r) \/ Restart(r)

Goes(r) ==
    Callback(r) \/ InBreaker(r) \/ RestartStop(r) \/ RestartFinalize(r) \/ RestartStart(r)

Next ==
    \/ Check
    \/ Recovery
    \/ \E r \in Request : Asks(r) \/ Goes(r)
    \/ Worker
    \/ TimePasses

Spec == Init /\ [][Next]_vars

Fairness ==
    /\ WF_vars(Check)
    /\ WF_vars(Recovery)
    /\ WF_vars(TimePasses)
    /\ \A r \in Request : WF_vars(Goes(r))

FairSpec == Spec /\ Fairness

-----------------------------------------------------------------------------

\* Every variable has its type.
TypeOK ==
    /\ BreakerTypeOK
    /\ control \in {"idle", "running", "stopping", "failed_start"}
    /\ healthy \in BOOLEAN
    /\ status \in Status
    /\ call \in [Request -> {"none", "callback", "breaker", "stop", "terminate", "start"}]
    /\ seen \in [Request -> Status \cup {Current}]
    /\ resets \in 0 .. MaxResets
    /\ takes \in Nat
    /\ uncounted \subseteq Request

\* One goroutine at a time takes the process down, however many restarts the breaker has let
\* through; while it does, the state says so.
OneTerminates ==
    /\ \A q, r \in Request : call[q] = "terminate" /\ call[r] = "terminate" => q = r
    /\ \A r \in Request : call[r] = "terminate" => control = "stopping"

\* No restart that takes the process down goes past the circuit breaker but one by force:
\* between two resets the process is taken down no more often than the breaker has counted.  A
\* restart let through before a reset may take it down after it, and no count holds it.
RestartsCounted == takes <= attempts

\* Every request comes to an end: it is refused, or its delay passes and its restart returns.
RequestsEnd == \A r \in Request : ~Idle(r) ~> Idle(r)

\* A worker found unhealthy is not left alone: it recovers, its process is taken down for a
\* restart, or the breaker has opened.
Attended ==
    control = "running" /\ status = "unhealthy" ~> control # "running" \/ status # "unhealthy" \/ open

\* When the process stays healthy, the breaker is reset.
ResetWhenHealthy == <>[](control = "running" /\ status = "healthy") => []<>(attempts = 0)
====
