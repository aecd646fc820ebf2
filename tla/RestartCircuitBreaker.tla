------------------------- MODULE RestartCircuitBreaker -------------------------
(***************************************************************************)
(* The circuit breaker that every restart of a worker by policy goes       *)
(* through (pkg/workers/processcontrolimpl/restart_circuit_breaker.go).    *)
(* ExecuteRestart is called from one goroutine per failed health check and *)
(* per resource violation.  It checks the limits under the mutex, releases *)
(* it to sleep out the retry delay, checks again that the breaker has not  *)
(* opened, counts the attempt and calls the restart without the mutex.     *)
(* Each critical section is one step.                                      *)
(*                                                                         *)
(* Time passes in ticks.  The breaker compares the time since the last     *)
(* restart with a delay; that time is counted up to MaxDelay, beyond which *)
(* no delay reaches.  Multipliers and backoff rates are counted in halves. *)
(* The last trigger and context, kept for diagnostics, are left out.       *)
(***************************************************************************)
EXTENDS Integers, FiniteSets

CONSTANTS
    Request,             \* goroutines that ask for a restart
    Context,             \* restart contexts: records with a trigger and a severity
    NoContext,           \* of a goroutine that is not in ExecuteRestart
    Profile,             \* the worker's profile type
    Default,             \* config.Default: maxRetries, retryDelay, backoffRate
    Override,            \* config.HealthFailures and config.ResourceViolations, by trigger
    SeverityMultiplier,  \* by severity, in halves
    ProfileMultiplier,   \* by worker profile type, in halves
    GracePeriod,         \* config.StartupGracePeriod
    Second,              \* time.Second in ticks
    MaxDelay             \* bounds the time that is counted

RestartConfig == [maxRetries : Nat, retryDelay : Nat, backoffRate : Nat \ {0}]

ASSUME ConfigOK ==
    /\ Context # {} /\ NoContext \notin Context
    /\ Default \in RestartConfig
    /\ \A c \in Context : c.trigger \in DOMAIN Override => Override[c.trigger] \in RestartConfig
    /\ \A s \in DOMAIN SeverityMultiplier : SeverityMultiplier[s] \in Nat \ {0}
    /\ \A p \in DOMAIN ProfileMultiplier : ProfileMultiplier[p] \in Nat \ {0}

ASSUME BoundsOK ==
    /\ IsFiniteSet(Request)
    /\ GracePeriod \in Nat
    /\ Second \in Nat \ {0}
    /\ MaxDelay \in Nat

VARIABLES
    attempts,   \* restartAttempts
    open,       \* circuitBreakerOpen
    elapsed,    \* time since lastRestartTime, up to MaxDelay
    grace,      \* what is left of the startup grace period
    pc,         \* of each request: its step in ExecuteRestart
    context,    \* of each request: its restart context
    wait        \* of each request: what is left of its retry delay

breakerVars == <<attempts, open, elapsed, grace, pc, context, wait>>

Step == {"idle", "check", "asleep", "restarting"}

BreakerInit ==
    /\ attempts = 0
    /\ open = FALSE
    /\ elapsed = 0
    /\ grace = GracePeriod
    /\ pc = [r \in Request |-> "idle"]
    /\ context = [r \in Request |-> NoContext]
    /\ wait = [r \in Request |-> 0]

(***************************************************************************)
(* The limits of a context.                                                *)
(***************************************************************************)
getConfigForContext(c) ==
    IF c.trigger \in DOMAIN Override THEN Override[c.trigger] ELSE Default

\* A severity or a profile that is not configured multiplies by one.
Multiplier(multipliers, key) == IF key \in DOMAIN multipliers THEN multipliers[key] ELSE 2

Multiplied(value, c) ==
    (value * Multiplier(SeverityMultiplier, c.severity) * Multiplier(ProfileMultiplier, Profile)) \div 4

AtLeast(least, n) == IF n < least THEN least ELSE n

\* Zero is no limit, and stays it.
applyMultipliers(value, c) == IF value = 0 THEN 0 ELSE AtLeast(1, Multiplied(value, c))

applyDurationMultipliers(d, c) == IF d = 0 THEN 0 ELSE AtLeast(Second, Multiplied(d, c))

effectiveMaxRetries(c) == applyMultipliers(getConfigForContext(c).maxRetries, c)

Limited(c) == effectiveMaxRetries(c) > 0

RetryDelay(c, n) ==
    LET config == getConfigForContext(c)
    IN  (applyDurationMultipliers(config.retryDelay, c) * config.backoffRate ^ n) \div 2 ^ n

(***************************************************************************)
(* ExecuteRestart, from its call to the return of the restart.             *)
(***************************************************************************)
GoTo(r, s) == pc' = [pc EXCEPT ![r] = s]

\* ExecuteRestart returns to its caller.
Return(r) ==
    /\ GoTo(r, "idle")
    /\ context' = [context EXCEPT ![r] = NoContext]
    /\ UNCHANGED <<attempts, open, elapsed, grace, wait>>

Request_(r, c) ==
    /\ pc[r] = "idle"
    /\ GoTo(r, "check")
    /\ context' = [context EXCEPT ![r] = c]
    /\ UNCHANGED <<attempts, open, elapsed, grace, wait>>

\* The breaker is open, or the worker is starting up: an error.
Refuse(r) ==
    /\ pc[r] = "check"
    /\ open \/ grace > 0
    /\ Return(r)

\* Mutant: the last attempt but one is taken for the last.
OneMoreAttempt(r) == Limited(context[r]) /\ attempts > effectiveMaxRetries(context[r])

Exhausted(r) == Limited(context[r]) /\ attempts >= effectiveMaxRetries(context[r])

\* Mutant: the grace period is not looked at.
CheckedWithoutGrace(r) == pc[r] = "check" /\ ~open

Checked(r) == pc[r] = "check" /\ ~open /\ grace = 0

OpenBreaker(r) ==
    /\ Checked(r)
    /\ Exhausted(r)
    /\ open' = TRUE
    /\ GoTo(r, "idle")
    /\ context' = [context EXCEPT ![r] = NoContext]
    /\ UNCHANGED <<attempts, elapsed, grace, wait>>

\* The mutex is released for the delay: other requests run meanwhile.
Sleep(r) ==
    /\ Checked(r)
    /\ ~Exhausted(r)
    /\ \E w \in 1 .. MaxDelay :
          /\ elapsed + w = RetryDelay(context[r], attempts)
          /\ wait' = [wait EXCEPT ![r] = w]
    /\ GoTo(r, "asleep")
    /\ UNCHANGED <<attempts, open, elapsed, grace, context>>

\* The attempt is counted and restartFunc called, without the mutex.
Proceed(r) ==
    /\ attempts' = attempts + 1
    /\ elapsed' = 0
    /\ GoTo(r, "restarting")
    /\ UNCHANGED <<open, grace, context, wait>>

ProceedAtOnce(r) ==
    /\ Checked(r)
    /\ ~Exhausted(r)
    /\ elapsed >= RetryDelay(context[r], attempts)
    /\ Proceed(r)

Awake(r) == pc[r] = "asleep" /\ wait[r] = 0

\* Mutant: nothing is checked after the delay.
WakeUnchecked(r) == Awake(r) /\ Proceed(r)

\* Mutant: the request waits for the breaker to close.
WakeWhenClosed(r) == Awake(r) /\ ~open /\ Proceed(r)

\* After the delay only the breaker is checked again, not the number of attempts.
Wake(r) ==
    /\ Awake(r)
    /\ \/ ~open /\ Proceed(r)
       \/ open /\ Return(r)

RestartReturns(r) == pc[r] = "restarting" /\ Return(r)

\* Mutant: the breaker stays open.
ResetAttemptsOnly ==
    /\ attempts' = 0
    /\ UNCHANGED <<open, elapsed>>

\* The zero time is longer ago than any delay; without attempts nothing is to be reset.
ResetState ==
    \/ /\ attempts > 0 \/ open
       /\ attempts' = 0
       /\ open' = FALSE
       /\ elapsed' = MaxDelay
    \/ ~(attempts > 0 \/ open) /\ UNCHANGED <<attempts, open, elapsed>>

Reset == ResetState /\ UNCHANGED <<grace, pc, context, wait>>

(***************************************************************************)
(* Time.                                                                   *)
(***************************************************************************)
Down(n) == IF n > 0 THEN n - 1 ELSE 0

Tick ==
    /\ elapsed < MaxDelay \/ grace > 0 \/ \E r \in Request : wait[r] > 0
    /\ elapsed' = IF elapsed < MaxDelay THEN elapsed + 1 ELSE elapsed
    /\ grace' = Down(grace)
    /\ wait' = [r \in Request |-> Down(wait[r])]
    /\ UNCHANGED <<attempts, open, pc, context>>

ExecuteRestart(r) ==
    Refuse(r) \/ OpenBreaker(r) \/ Sleep(r) \/ ProceedAtOnce(r) \/ Wake(r)

BreakerNext ==
    \/ \E r \in Request :
          \/ \E c \in Context : Request_(r, c)
          \/ ExecuteRestart(r)
          \/ RestartReturns(r)
    \/ Reset
    \/ Tick

BreakerSpec == BreakerInit /\ [][BreakerNext]_breakerVars

-----------------------------------------------------------------------------

\* Every variable of the breaker has its type.
BreakerTypeOK ==
    /\ attempts \in Nat
    /\ open \in BOOLEAN
    /\ elapsed \in 0 .. MaxDelay
    /\ grace \in 0 .. GracePeriod
    /\ pc \in [Request -> Step]
    /\ context \in [Request -> Context \cup {NoContext}]
    /\ wait \in [Request -> 0 .. MaxDelay]

Asleep == {r \in Request : pc[r] = "asleep"}

\* The breaker opens for no other reason than exhausted retries, and a reset that closes it
\* starts the count again: an open breaker has counted as many attempts as some limit allows.
OpenOnlyAtLimit == open => \E c \in Context : Limited(c) /\ attempts >= effectiveMaxRetries(c)

\* The attempts are checked before the delay and counted after it, so the requests that sleep
\* together all proceed.  That is the most a limit is exceeded by: one attempt for every
\* goroutine but the last.
OvershootBounded ==
    (\A c \in Context : Limited(c)) =>
        \E c \in Context :
            attempts + Cardinality(Asleep) < effectiveMaxRetries(c) + Cardinality(Request)

\* In the startup grace period nothing is counted, the breaker does not open, and nobody sleeps
\* or restarts: the period ends with all retries left, however many failures it has seen.
GraceKept ==
    grace > 0 => attempts = 0 /\ ~open /\ \A r \in Request : pc[r] \in {"idle", "check"}

\* No restart begins while the breaker is open, not even one that was admitted before it opened
\* and has slept since.
OpenStopsRestarts ==
    [][\A r \in Request : pc[r] # "restarting" /\ pc'[r] = "restarting" => ~open]_breakerVars
====
