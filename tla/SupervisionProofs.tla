--------------------------- MODULE SupervisionProofs ---------------------------
(***************************************************************************)
(* Proofs about the circuit breaker and the supervision of a worker.  The  *)
(* breaker is proved about on its own, for any callers; every step of the  *)
(* supervision is then shown to be a step of the breaker or none, which    *)
(* carries the breaker's properties over.                                  *)
(***************************************************************************)
EXTENDS Supervision, FiniteSetTheorems, TLAPS

-----------------------------------------------------------------------------
(* The limits. *)

\* The multipliers that are configured are positive, and so is the one that is not.
LEMMA MultiplierType ==
    /\ \A k : Multiplier(SeverityMultiplier, k) \in Nat \ {0}
    /\ \A k : Multiplier(ProfileMultiplier, k) \in Nat \ {0}
BY ConfigOK DEF Multiplier

\* What is multiplied stays a natural number.
LEMMA MultipliedType == \A n \in Nat, c \in Context : Multiplied(n, c) \in Nat
<1> TAKE n \in Nat, c \in Context
<1> DEFINE s == Multiplier(SeverityMultiplier, c.severity)
           p == Multiplier(ProfileMultiplier, Profile)
           m == n * s
           k == m * p
<1>1. s \in Nat /\ p \in Nat
  BY MultiplierType
<1>2. m \in Nat
  <2> HIDE DEF s
  <2> QED BY <1>1
<1>3. k \in Nat
  <2> HIDE DEF m, p
  <2> QED BY <1>1, <1>2
<1>4. k \div 4 \in Nat
  <2> HIDE DEF k
  <2> QED BY <1>3
<1> QED BY <1>4 DEF Multiplied

\* The effective number of retries of a context is a natural number.
LEMMA LimitType == \A c \in Context : effectiveMaxRetries(c) \in Nat
<1> TAKE c \in Context
<1>1. getConfigForContext(c).maxRetries \in Nat
  BY ConfigOK DEF getConfigForContext, RestartConfig
<1>2. Multiplied(getConfigForContext(c).maxRetries, c) \in Nat
  BY <1>1, MultipliedType
<1> QED BY <1>2 DEF effectiveMaxRetries, applyMultipliers, AtLeast

\* Multipliers make a limit smaller or larger and never take it away: a context is limited
\* exactly if retries are configured for it, though zero stands for no limit.
THEOREM LimitsKept ==
    \A c \in Context : Limited(c) <=> getConfigForContext(c).maxRetries > 0
<1> TAKE c \in Context
<1>1. getConfigForContext(c).maxRetries \in Nat
  BY ConfigOK DEF getConfigForContext, RestartConfig
<1>2. CASE getConfigForContext(c).maxRetries = 0
  BY <1>2 DEF Limited, effectiveMaxRetries, applyMultipliers
<1>3. CASE getConfigForContext(c).maxRetries # 0
  <2>1. Multiplied(getConfigForContext(c).maxRetries, c) \in Nat
    BY <1>1, MultipliedType
  <2>2. effectiveMaxRetries(c) >= 1
    BY <1>3, <2>1 DEF effectiveMaxRetries, applyMultipliers, AtLeast
  <2> QED BY <1>1, <1>3, <2>2, LimitType DEF Limited
<1> QED BY <1>2, <1>3

\* Nor do they take away a delay: the first restart waits a second at least, if any.
THEOREM DelaysKept ==
    \A c \in Context :
        getConfigForContext(c).retryDelay > 0 =>
            applyDurationMultipliers(getConfigForContext(c).retryDelay, c) >= Second
<1> TAKE c \in Context
<1> DEFINE d == getConfigForContext(c).retryDelay
<1>1. d \in Nat
  BY ConfigOK DEF getConfigForContext, RestartConfig
<1>2. Multiplied(d, c) \in Nat
  BY <1>1, MultipliedType
<1> QED BY <1>1, <1>2, BoundsOK DEF applyDurationMultipliers, AtLeast

-----------------------------------------------------------------------------
(* The breaker on its own. *)

\* A goroutine in ExecuteRestart has the context it was called with.
ContextKnown == \A r \in Request : pc[r] # "idle" => context[r] \in Context

BreakerInv == BreakerTypeOK /\ ContextKnown

\* Counting up to a bound, or down to zero, stays within the bounds.
LEMMA Timers ==
    /\ 0 \in 0 .. MaxDelay
    /\ MaxDelay \in 0 .. MaxDelay
    /\ 0 \in 0 .. GracePeriod
    /\ GracePeriod \in 0 .. GracePeriod
    /\ \A n \in 0 .. MaxDelay : Down(n) \in 0 .. MaxDelay
    /\ \A n \in 0 .. GracePeriod : Down(n) \in 0 .. GracePeriod
    /\ \A n \in 0 .. MaxDelay : n < MaxDelay => n + 1 \in 0 .. MaxDelay
BY BoundsOK DEF Down

\* The breaker starts in its inductive invariant.
LEMMA BreakerInvInit == BreakerInit => BreakerInv
<1> SUFFICES ASSUME BreakerInit PROVE BreakerInv
  OBVIOUS
<1>1. attempts \in Nat /\ open \in BOOLEAN
  BY DEF BreakerInit
<1>2. elapsed \in 0 .. MaxDelay /\ grace \in 0 .. GracePeriod
  BY Timers DEF BreakerInit
<1>3. wait \in [Request -> 0 .. MaxDelay]
  BY Timers DEF BreakerInit
<1>4. pc \in [Request -> Step] /\ context \in [Request -> Context \cup {NoContext}]
  BY DEF BreakerInit, Step
<1>5. ContextKnown
  BY DEF BreakerInit, ContextKnown
<1> QED BY <1>1, <1>2, <1>3, <1>4, <1>5 DEF BreakerInv, BreakerTypeOK

\* Every step of the breaker keeps its inductive invariant.
LEMMA BreakerInvNext == BreakerInv /\ [BreakerNext]_breakerVars => BreakerInv'
<1> SUFFICES ASSUME BreakerInv, [BreakerNext]_breakerVars
             PROVE  BreakerInv'
  OBVIOUS
<1> USE Timers DEF BreakerInv, BreakerTypeOK, ContextKnown, Step, GoTo
<1>1. ASSUME NEW r \in Request, NEW c \in Context, Request_(r, c)
      PROVE  BreakerInv'
  BY <1>1 DEF Request_
<1>2. ASSUME NEW r \in Request, Refuse(r) \/ OpenBreaker(r)
      PROVE  BreakerInv'
  BY <1>2 DEF Refuse, OpenBreaker, Return, Checked
<1>3. ASSUME NEW r \in Request, Sleep(r)
      PROVE  BreakerInv'
  <2>1. PICK w \in 1 .. MaxDelay : wait' = [wait EXCEPT ![r] = w]
    BY <1>3 DEF Sleep
  <2>2. wait' \in [Request -> 0 .. MaxDelay]
    BY <2>1, BoundsOK
  <2> QED BY <1>3, <2>2 DEF Sleep, Checked
<1>4. ASSUME NEW r \in Request, ProceedAtOnce(r) \/ Wake(r)
      PROVE  BreakerInv'
  BY <1>4 DEF ProceedAtOnce, Wake, Awake, Proceed, Return, Checked
<1>5. ASSUME NEW r \in Request, RestartReturns(r)
      PROVE  BreakerInv'
  BY <1>5 DEF RestartReturns, Return
<1>6. CASE Reset
  <2>1. UNCHANGED <<grace, pc, context, wait>>
    BY <1>6 DEF Reset
  <2>2. attempts' \in Nat /\ open' \in BOOLEAN /\ elapsed' \in 0 .. MaxDelay
    <3>1. CASE UNCHANGED <<attempts, open, elapsed>>
      BY <3>1
    <3>2. CASE attempts' = 0 /\ open' = FALSE /\ elapsed' = MaxDelay
      BY <3>2
    <3> QED BY <1>6, <3>1, <3>2 DEF Reset, ResetState
  <2> QED BY <2>1, <2>2
<1>7. CASE Tick
  BY <1>7 DEF Tick
<1>8. CASE UNCHANGED breakerVars
  BY <1>8 DEF breakerVars
<1> QED
  BY <1>1, <1>2, <1>3, <1>4, <1>5, <1>6, <1>7, <1>8 DEF BreakerNext, ExecuteRestart

\* The inductive invariant of the breaker holds, whoever calls.
LEMMA BreakerInvHolds == BreakerSpec => []BreakerInv
<1>1. QED BY BreakerInvInit, BreakerInvNext, PTL DEF BreakerSpec

\* Every variable of the breaker keeps its type, whoever calls.
THEOREM BreakerTypeCorrect == BreakerSpec => []BreakerTypeOK
<1>1. BreakerInv => BreakerTypeOK
  BY DEF BreakerInv
<1> QED BY <1>1, BreakerInvHolds, PTL

\* The grace period is kept, whoever calls.
THEOREM GraceKeptHolds == BreakerSpec => []GraceKept
<1>1. BreakerInit => GraceKept
  BY DEF BreakerInit, GraceKept
<1>2. BreakerInv /\ GraceKept /\ [BreakerNext]_breakerVars => GraceKept'
  <2> SUFFICES ASSUME BreakerInv, GraceKept, [BreakerNext]_breakerVars PROVE GraceKept'
    OBVIOUS
  <2> USE BoundsOK DEF BreakerInv, BreakerTypeOK, GraceKept, GoTo
  <2>1. ASSUME NEW r \in Request,
               \/ \E c \in Context : Request_(r, c)
               \/ Refuse(r) \/ RestartReturns(r)
        PROVE  GraceKept'
    BY <2>1 DEF Request_, Refuse, RestartReturns, Return
  <2>2. ASSUME NEW r \in Request, OpenBreaker(r) \/ Sleep(r) \/ ProceedAtOnce(r)
        PROVE  grace' = 0
    BY <2>2 DEF OpenBreaker, Sleep, ProceedAtOnce, Proceed, Checked
  <2>3. ASSUME NEW r \in Request, Wake(r)
        PROVE  GraceKept'
    BY <2>3 DEF Wake, Awake, Proceed, Return
  <2>4. CASE Reset
    BY <2>4 DEF Reset, ResetState
  <2>5. CASE Tick
    BY <2>5 DEF Tick, Down
  <2>6. CASE UNCHANGED breakerVars
    BY <2>6 DEF breakerVars
  <2> QED
    BY <2>1, <2>2, <2>3, <2>4, <2>5, <2>6 DEF BreakerNext, ExecuteRestart
<1> QED BY <1>1, <1>2, BreakerInvHolds, PTL DEF BreakerSpec

\* The breaker opens for no other reason than exhausted retries.
THEOREM OpenOnlyAtLimitHolds == BreakerSpec => []OpenOnlyAtLimit
<1>1. BreakerInit => OpenOnlyAtLimit
  BY DEF BreakerInit, OpenOnlyAtLimit
<1>2. BreakerInv /\ OpenOnlyAtLimit /\ [BreakerNext]_breakerVars => OpenOnlyAtLimit'
  <2> SUFFICES ASSUME BreakerInv, OpenOnlyAtLimit, [BreakerNext]_breakerVars, open'
               PROVE  \E c \in Context : Limited(c) /\ attempts' >= effectiveMaxRetries(c)
    BY DEF OpenOnlyAtLimit, Limited, effectiveMaxRetries, applyMultipliers, Multiplied,
           Multiplier, getConfigForContext, AtLeast
  <2> USE LimitType DEF BreakerInv, BreakerTypeOK
  <2>1. ASSUME NEW r \in Request, OpenBreaker(r)
        PROVE  \E c \in Context : Limited(c) /\ attempts' >= effectiveMaxRetries(c)
    <3>1. context[r] \in Context
      BY <2>1 DEF OpenBreaker, Checked, ContextKnown
    <3>2. Limited(context[r]) /\ attempts' >= effectiveMaxRetries(context[r])
      BY <2>1 DEF OpenBreaker, Exhausted
    <3> QED BY <3>1, <3>2
  <2>2. CASE Reset
    <3>1. CASE UNCHANGED <<attempts, open>>
      BY <3>1 DEF OpenOnlyAtLimit
    <3>2. CASE open' = FALSE
      BY <3>2
    <3> QED BY <2>2, <3>1, <3>2 DEF Reset, ResetState
  <2>3. CASE open /\ attempts' \in Nat /\ attempts' >= attempts
    <3>1. PICK c \in Context : Limited(c) /\ attempts >= effectiveMaxRetries(c)
      BY <2>3 DEF OpenOnlyAtLimit
    <3>2. attempts' >= effectiveMaxRetries(c)
      BY <2>3, <3>1
    <3> QED BY <3>1, <3>2
  <2>4. CASE UNCHANGED <<attempts, open>>
    BY <2>4, <2>3
  <2>5. ASSUME NEW r \in Request, ProceedAtOnce(r) \/ Wake(r)
        PROVE  \E c \in Context : Limited(c) /\ attempts' >= effectiveMaxRetries(c)
    <3>1. CASE attempts' = attempts + 1 /\ UNCHANGED open
      BY <3>1, <2>3
    <3>2. CASE UNCHANGED <<attempts, open>>
      BY <3>2, <2>4
    <3> QED BY <2>5, <3>1, <3>2 DEF ProceedAtOnce, Wake, Proceed, Return
  <2> QED
    BY <2>1, <2>2, <2>4, <2>5
    DEF BreakerNext, breakerVars, ExecuteRestart, Request_, Refuse, Sleep, RestartReturns, Return,
        Tick
<1> QED BY <1>1, <1>2, BreakerInvHolds, PTL DEF BreakerSpec

-----------------------------------------------------------------------------
(* How far a limit may be exceeded. *)

\* How many a part of the requests is, with one more and with one less.
LEMMA SomeRequests ==
    ASSUME NEW S \in SUBSET Request
    PROVE  /\ Cardinality(Request) \in Nat
           /\ Cardinality(S) \in Nat
           /\ Cardinality(S) <= Cardinality(Request)
           /\ \A r \in Request \ S : Cardinality(S) + 1 <= Cardinality(Request)
           /\ \A r \in S : Cardinality(S \ {r}) = Cardinality(S) - 1
<1>1. IsFiniteSet(S)
  BY BoundsOK, FS_Subset
<1>2. Cardinality(Request) \in Nat /\ Cardinality(S) \in Nat
  BY <1>1, BoundsOK, FS_CardinalityType
<1>3. Cardinality(S) <= Cardinality(Request)
  BY BoundsOK, FS_Subset
<1>4. ASSUME NEW r \in Request \ S
      PROVE  Cardinality(S) + 1 <= Cardinality(Request)
  <2>1. IsFiniteSet(Request \ {r}) /\ Cardinality(Request \ {r}) = Cardinality(Request) - 1
    BY <1>4, BoundsOK, FS_RemoveElement
  <2>2. Cardinality(S) <= Cardinality(Request \ {r})
    <3>1. S \subseteq Request \ {r}
      BY <1>4
    <3> QED BY <2>1, <3>1, FS_Subset
  <2> QED BY <1>2, <2>1, <2>2
<1>5. ASSUME NEW r \in S PROVE Cardinality(S \ {r}) = Cardinality(S) - 1
  BY <1>1, FS_RemoveElement
<1> QED BY <1>2, <1>3, <1>4, <1>5

\* What the bound says of one context.
Within(c) == attempts + Cardinality(Asleep) < effectiveMaxRetries(c) + Cardinality(Request)

\* A step that neither admits a request nor counts an attempt stays within the bound.
LEMMA WithinQuiet ==
    ASSUME BreakerInv, BreakerInv', NEW c \in Context, Within(c),
           attempts' <= attempts, Asleep' = Asleep
    PROVE  Within(c)'
<1>1. Asleep \in SUBSET Request
  BY DEF Asleep
<1> QED BY <1>1, SomeRequests, LimitType DEF Within, BreakerInv, BreakerTypeOK

\* A request that begins its delay was under the limit of its own context.
LEMMA WithinSleep ==
    ASSUME BreakerInv, \A c \in Context : Limited(c), NEW r \in Request, Sleep(r)
    PROVE  Within(context[r])'
<1>1. context[r] \in Context /\ context'[r] = context[r]
  BY DEF Sleep, Checked, BreakerInv, ContextKnown
<1>2. attempts' = attempts /\ attempts < effectiveMaxRetries(context[r])
  BY <1>1, LimitType DEF Sleep, Exhausted, BreakerInv, BreakerTypeOK
<1>3. Asleep' \in SUBSET Request
  BY DEF Asleep
<1> QED BY <1>1, <1>2, <1>3, SomeRequests, LimitType DEF Within, BreakerInv, BreakerTypeOK

\* So was one that proceeds at once; and while it counts its attempt it is awake.
LEMMA WithinAtOnce ==
    ASSUME BreakerInv, \A c \in Context : Limited(c), NEW r \in Request, ProceedAtOnce(r)
    PROVE  Within(context[r])'
<1>1. context[r] \in Context /\ context'[r] = context[r]
  BY DEF ProceedAtOnce, Proceed, Checked, BreakerInv, ContextKnown
<1>2. attempts' = attempts + 1 /\ attempts < effectiveMaxRetries(context[r])
  BY <1>1, LimitType DEF ProceedAtOnce, Proceed, Exhausted, BreakerInv, BreakerTypeOK
<1>3. Asleep' \in SUBSET Request /\ r \in Request \ Asleep'
  BY DEF Asleep, ProceedAtOnce, Proceed, GoTo, BreakerInv, BreakerTypeOK
<1> QED BY <1>1, <1>2, <1>3, SomeRequests, LimitType DEF Within, BreakerInv, BreakerTypeOK

\* A request that wakes up trades its sleep for an attempt, or gives up.
LEMMA WithinWake ==
    ASSUME BreakerInv, NEW r \in Request, Wake(r), NEW c \in Context, Within(c)
    PROVE  Within(c)'
<1>1. Asleep \in SUBSET Request /\ r \in Asleep
  BY DEF Asleep, Wake, Awake
<1>2. Asleep' = Asleep \ {r}
  BY DEF Asleep, Wake, Awake, Proceed, Return, GoTo, BreakerInv, BreakerTypeOK
<1>3. attempts' \in {attempts, attempts + 1}
  BY DEF Wake, Proceed, Return
<1> QED BY <1>1, <1>2, <1>3, SomeRequests, LimitType DEF Within, BreakerInv, BreakerTypeOK

\* After a step, some context still bounds the attempts and the requests asleep.
LEMMA WithinNext ==
    ASSUME BreakerInv, BreakerInv', [BreakerNext]_breakerVars,
           \A c \in Context : Limited(c), NEW c \in Context, Within(c)
    PROVE  \E d \in Context : Within(d)'
<1>1. ASSUME NEW r \in Request, Sleep(r)
      PROVE  \E d \in Context : Within(d)'
  <2>1. context[r] \in Context /\ context'[r] = context[r]
    BY <1>1 DEF Sleep, Checked, BreakerInv, ContextKnown
  <2> QED BY <1>1, <2>1, WithinSleep DEF Within
<1>2. ASSUME NEW r \in Request, ProceedAtOnce(r)
      PROVE  \E d \in Context : Within(d)'
  <2>1. context[r] \in Context /\ context'[r] = context[r]
    BY <1>2 DEF ProceedAtOnce, Proceed, Checked, BreakerInv, ContextKnown
  <2> QED BY <1>2, <2>1, WithinAtOnce DEF Within
<1>3. ASSUME NEW r \in Request, Wake(r)
      PROVE  \E d \in Context : Within(d)'
  BY <1>3, WithinWake
<1>4. ASSUME attempts' <= attempts, Asleep' = Asleep
      PROVE  \E d \in Context : Within(d)'
  BY <1>4, WithinQuiet
<1>5. ASSUME NEW r \in Request, NEW d \in Context, Request_(r, d)
      PROVE  attempts' <= attempts /\ Asleep' = Asleep
  BY <1>5 DEF Request_, GoTo, Asleep, BreakerInv, BreakerTypeOK
<1>6. ASSUME NEW r \in Request, Refuse(r) \/ OpenBreaker(r) \/ RestartReturns(r)
      PROVE  attempts' <= attempts /\ Asleep' = Asleep
  BY <1>6
  DEF Refuse, OpenBreaker, Checked, RestartReturns, Return, GoTo, Asleep, BreakerInv, BreakerTypeOK
<1>7. CASE Reset
  <2>1. attempts' \in {0, attempts} /\ Asleep' = Asleep
    BY <1>7 DEF Reset, ResetState, Asleep
  <2>2. attempts' <= attempts
    BY <2>1 DEF BreakerInv, BreakerTypeOK
  <2> QED BY <2>1, <2>2, <1>4
<1>8. CASE Tick \/ UNCHANGED breakerVars
  <2>1. attempts' = attempts /\ Asleep' = Asleep
    BY <1>8 DEF Tick, breakerVars, Asleep
  <2>2. attempts' <= attempts
    BY <2>1 DEF BreakerInv, BreakerTypeOK
  <2> QED BY <2>1, <2>2, <1>4
<1> QED
  BY <1>1, <1>2, <1>3, <1>4, <1>5, <1>6, <1>7, <1>8 DEF BreakerNext, ExecuteRestart

\* However many requests overlap, they exceed the largest limit by at most one attempt for each
\* of them but one; a single goroutine never exceeds it.
THEOREM OvershootBoundedHolds == BreakerSpec => []OvershootBounded
<1>1. BreakerInit => OvershootBounded
  <2> SUFFICES ASSUME BreakerInit, \A c \in Context : Limited(c)
               PROVE  \E c \in Context : Within(c)
    BY DEF OvershootBounded, Within
  <2>1. PICK c \in Context : TRUE
    BY ConfigOK
  <2>2. effectiveMaxRetries(c) \in Nat /\ effectiveMaxRetries(c) > 0
    BY LimitType DEF Limited
  <2>3. attempts = 0 /\ Asleep \in SUBSET Request
    BY DEF BreakerInit, Asleep
  <2>4. Within(c)
    BY <2>2, <2>3, SomeRequests DEF Within
  <2> QED BY <2>4
<1>2. BreakerInv /\ BreakerInv' /\ OvershootBounded /\ [BreakerNext]_breakerVars
      => OvershootBounded'
  <2> SUFFICES ASSUME BreakerInv, BreakerInv', OvershootBounded, [BreakerNext]_breakerVars,
                      \A c \in Context : Limited(c)
               PROVE  \E d \in Context : Within(d)'
    BY DEF OvershootBounded, Within, Limited, effectiveMaxRetries, applyMultipliers, Multiplied,
           Multiplier, getConfigForContext, AtLeast
  <2>1. PICK c \in Context : Within(c)
    BY DEF OvershootBounded, Within
  <2> QED BY <2>1, WithinNext
<1> QED BY <1>1, <1>2, BreakerInvHolds, PTL DEF BreakerSpec

\* No restart begins while the breaker is open, not even after a delay.
THEOREM OpenStopsRestartsHolds == BreakerSpec => OpenStopsRestarts
<1>1. BreakerInv /\ [BreakerNext]_breakerVars
      => [\A r \in Request : pc[r] # "restarting" /\ pc'[r] = "restarting" => ~open]_breakerVars
  <2> SUFFICES ASSUME BreakerInv, BreakerNext,
                      NEW r \in Request, pc[r] # "restarting", pc'[r] = "restarting", open
               PROVE  FALSE
    OBVIOUS
  <2> USE DEF BreakerInv, BreakerTypeOK, GoTo
  <2>1. PICK q \in Request : (\E c \in Context : Request_(q, c)) \/ ExecuteRestart(q) \/ RestartReturns(q)
    BY DEF BreakerNext, Reset, Tick
  <2> QED
    BY <2>1 DEF Request_, ExecuteRestart, Refuse, OpenBreaker, Sleep, ProceedAtOnce, Wake, Proceed,
                RestartReturns, Return, Checked
<1> QED BY <1>1, BreakerInvHolds, PTL DEF BreakerSpec, OpenStopsRestarts

-----------------------------------------------------------------------------
(* The supervision uses the breaker as it is meant to be used. *)

\* Every step of the supervision is a step of the breaker, or none.
LEMMA NextIsBreakerNext == [Next]_vars => [BreakerNext]_breakerVars
<1> SUFFICES ASSUME [Next]_vars PROVE BreakerNext \/ UNCHANGED breakerVars
  OBVIOUS
<1>1. CASE Check \/ Worker \/ UNCHANGED vars
  BY <1>1 DEF Check, CheckPasses, CheckFails, Worker, vars
<1>2. CASE Recovery \/ TimePasses
  BY <1>2 DEF Recovery, TimePasses, BreakerNext
<1>3. ASSUME NEW r \in Request, Asks(r) \/ Callback(r)
      PROVE  BreakerNext \/ UNCHANGED breakerVars
  BY <1>3
  DEF Asks, handleResourceViolation, Restart, RestartForced, RequestOf, Callback, BreakerNext
<1>4. ASSUME NEW r \in Request, InBreaker(r)
      PROVE  BreakerNext \/ UNCHANGED breakerVars
  BY <1>4 DEF InBreaker, BreakerNext
<1>5. ASSUME NEW r \in Request, RestartStop(r) \/ RestartFinalize(r) \/ RestartStart(r)
      PROVE  BreakerNext \/ UNCHANGED breakerVars
  BY <1>5 DEF RestartStop, RestartFinalize, RestartStart, restartInternalReturns, BreakerNext
<1> QED BY <1>1, <1>2, <1>3, <1>4, <1>5 DEF Next, Goes

\* So what is proved of the breaker for any callers may be used.
LEMMA UsesBreaker == Spec => BreakerSpec
<1>1. Init => BreakerInit
  BY DEF Init
<1> QED BY <1>1, NextIsBreakerNext, PTL DEF Spec, BreakerSpec

\* What is proved of the breaker holds of the supervised worker.
THEOREM SupervisedBreaker ==
    Spec => /\ []BreakerTypeOK /\ []GraceKept /\ []OpenOnlyAtLimit /\ []OvershootBounded
            /\ OpenStopsRestarts
BY UsesBreaker, BreakerTypeCorrect, GraceKeptHolds, OpenOnlyAtLimitHolds,
   OvershootBoundedHolds, OpenStopsRestartsHolds

\* Every variable of the supervision keeps its type.
THEOREM TypeCorrect == Spec => []TypeOK
<1> DEFINE Own ==
      /\ control \in {"idle", "running", "stopping", "failed_start"}
      /\ healthy \in BOOLEAN
      /\ status \in Status
      /\ call \in [Request -> {"none", "callback", "breaker", "stop", "terminate", "start"}]
      /\ seen \in [Request -> Status \cup {Current}]
      /\ resets \in 0 .. MaxResets
      /\ takes \in Nat
      /\ uncounted \subseteq Request
<1>1. Init => Own
  BY TriggersOK DEF Init, Status
<1>2. Own /\ [Next]_vars => Own'
  <2> SUFFICES ASSUME Own, [Next]_vars PROVE Own'
    OBVIOUS
  <2> USE TriggersOK DEF Status, Do, monitorVars, historyVars
  <2>1. CASE CheckPasses
    BY <2>1 DEF CheckPasses
  <2>2. ASSUME NEW r \in Request, CheckFails(r) PROVE Own'
    BY <2>2 DEF CheckFails
  <2>3. CASE Recovery
    BY <2>3 DEF Recovery
  <2>4. ASSUME NEW r \in Request, Asks(r) PROVE Own'
    BY <2>4 DEF Asks, handleResourceViolation, Restart, RestartForced, RequestOf
  <2>5. ASSUME NEW r \in Request, Callback(r) PROVE Own'
    BY <2>5 DEF Callback
  <2>6. ASSUME NEW r \in Request, InBreaker(r) PROVE Own'
    <3>1. \E x \in {"none", "stop", "breaker"} : Do(r, x)
      BY <2>6 DEF InBreaker
    <3> QED BY <2>6, <3>1 DEF InBreaker
  <2>7. ASSUME NEW r \in Request, RestartStop(r) PROVE Own'
    BY <2>7 DEF RestartStop, restartInternalReturns
  <2>8. ASSUME NEW r \in Request, RestartFinalize(r) PROVE Own'
    BY <2>8 DEF RestartFinalize, restartInternalReturns, SeenBy
  <2>9. ASSUME NEW r \in Request, RestartStart(r) PROVE Own'
    BY <2>9 DEF RestartStart, restartInternalReturns
  <2>10. CASE Worker \/ TimePasses \/ UNCHANGED vars
    BY <2>10 DEF Worker, Ill, Well, TimePasses, vars
  <2> QED
    BY <2>1, <2>2, <2>3, <2>4, <2>5, <2>6, <2>7, <2>8, <2>9, <2>10 DEF Next, Check, Goes
<1>3. Own /\ BreakerTypeOK => TypeOK
  BY DEF TypeOK
<1> QED
  <2>1. Spec => []Own
    <3> HIDE DEF Own
    <3> QED BY <1>1, <1>2, PTL DEF Spec
  <2> HIDE DEF Own
  <2> QED BY <1>3, <2>1, SupervisedBreaker, PTL

\* However many restarts the breaker has let through, one goroutine at a time terminates the
\* process.
THEOREM OneTerminatesHolds == Spec => []OneTerminates
<1>1. Init => OneTerminates
  BY DEF Init, OneTerminates
<1>2. TypeOK /\ OneTerminates /\ [Next]_vars => OneTerminates'
  <2> SUFFICES ASSUME TypeOK, OneTerminates, [Next]_vars PROVE OneTerminates'
    OBVIOUS
  <2> USE DEF TypeOK, OneTerminates, Do, monitorVars
  <2>1. CASE CheckPasses \/ Recovery \/ Worker \/ TimePasses \/ UNCHANGED vars
    BY <2>1 DEF CheckPasses, Recovery, Worker, TimePasses, vars
  <2>2. ASSUME NEW r \in Request, CheckFails(r) PROVE OneTerminates'
    BY <2>2 DEF CheckFails
  <2>3. ASSUME NEW r \in Request, Asks(r) PROVE OneTerminates'
    BY <2>3 DEF Asks, handleResourceViolation, Restart, RestartForced, RequestOf
  <2>4. ASSUME NEW r \in Request, Callback(r) PROVE OneTerminates'
    BY <2>4 DEF Callback
  <2>5. ASSUME NEW r \in Request, InBreaker(r) PROVE OneTerminates'
    <3>1. \E x \in {"none", "stop", "breaker"} : Do(r, x)
      BY <2>5 DEF InBreaker
    <3> QED BY <2>5, <3>1 DEF InBreaker
  <2>6. ASSUME NEW r \in Request, RestartStop(r) PROVE OneTerminates'
    BY <2>6 DEF RestartStop, restartInternalReturns
  <2>7. ASSUME NEW r \in Request, RestartFinalize(r) PROVE OneTerminates'
    BY <2>7 DEF RestartFinalize, restartInternalReturns
  <2>8. ASSUME NEW r \in Request, RestartStart(r) PROVE OneTerminates'
    BY <2>8 DEF RestartStart, restartInternalReturns
  <2> QED BY <2>1, <2>2, <2>3, <2>4, <2>5, <2>6, <2>7, <2>8 DEF Next, Check, Goes
<1> QED BY <1>1, <1>2, TypeCorrect, PTL DEF Spec

-----------------------------------------------------------------------------
(* The restarts and their count. *)

\* The restarts that attempts counts and that have yet to take the process down.
Ahead == {r \in Request \ uncounted : call[r] = "stop"}

\* Each of them has its attempt, besides those that the process was taken down for.
CountInv == takes + Cardinality(Ahead) <= attempts

\* A step that counts no attempt, takes nothing down and sends no counted restart ahead.
LEMMA CountQuiet ==
    ASSUME TypeOK, CountInv, attempts' = attempts, takes' = takes, Ahead' \subseteq Ahead
    PROVE  CountInv'
<1>1. IsFiniteSet(Ahead)
  <2>1. Ahead \subseteq Request
    BY DEF Ahead
  <2> QED BY <2>1, BoundsOK, FS_Subset
<1>2. IsFiniteSet(Ahead') /\ Cardinality(Ahead') <= Cardinality(Ahead)
  BY <1>1, FS_Subset
<1>3. Cardinality(Ahead) \in Nat /\ Cardinality(Ahead') \in Nat
  BY <1>1, <1>2, FS_CardinalityType
<1> QED BY <1>2, <1>3 DEF TypeOK, BreakerTypeOK, CountInv

\* One element more makes a set larger by one at most.
LEMMA OneMore ==
    ASSUME NEW S, NEW x, IsFiniteSet(S)
    PROVE  IsFiniteSet(S \cup {x}) /\ Cardinality(S \cup {x}) <= Cardinality(S) + 1
<1> DEFINE n == Cardinality(S)
<1>1. n \in Nat
  BY FS_CardinalityType
<1>2. IsFiniteSet(S \cup {x})
  BY FS_AddElement
<1>3. Cardinality(S \cup {x}) = IF x \in S THEN n ELSE n + 1
  BY FS_AddElement
<1> HIDE DEF n
<1>4. Cardinality(S \cup {x}) <= n + 1
  BY <1>1, <1>3
<1> QED BY <1>2, <1>4 DEF n

\* A request in the breaker goes ahead with an attempt counted, or it does not go ahead.
LEMMA CountInBreaker ==
    ASSUME TypeOK, CountInv, NEW r \in Request, InBreaker(r)
    PROVE  CountInv'
<1> USE DEF TypeOK, BreakerTypeOK, Do, monitorVars, historyVars
<1>1. CASE pc'[r] = "restarting"
  <2>1. attempts' = attempts + 1 /\ call' = [call EXCEPT ![r] = "stop"]
    BY <1>1 DEF InBreaker, ExecuteRestart, Refuse, OpenBreaker, Sleep, ProceedAtOnce, Wake,
                Proceed, Return, GoTo, Checked
  <2>2. Ahead' \subseteq Ahead \cup {r}
    BY <2>1 DEF Ahead, InBreaker
  <2>3. Ahead \in SUBSET Request /\ IsFiniteSet(Ahead)
    <3>1. Ahead \in SUBSET Request
      BY DEF Ahead
    <3> QED BY <3>1, BoundsOK, FS_Subset
  <2>4. IsFiniteSet(Ahead \cup {r}) /\ Cardinality(Ahead \cup {r}) <= Cardinality(Ahead) + 1
    BY <2>3, OneMore
  <2>5. Cardinality(Ahead') <= Cardinality(Ahead \cup {r}) /\ Cardinality(Ahead') \in Nat
    BY <2>2, <2>4, FS_Subset, FS_CardinalityType
  <2>6. Cardinality(Ahead) \in Nat /\ Cardinality(Ahead \cup {r}) \in Nat /\ takes' = takes
    BY <2>3, <2>4, FS_CardinalityType DEF InBreaker
  <2> QED BY <2>1, <2>4, <2>5, <2>6 DEF CountInv
<1>2. CASE pc'[r] # "restarting"
  <2>1. attempts' = attempts
    BY <1>2 DEF InBreaker, ExecuteRestart, Refuse, OpenBreaker, Sleep, ProceedAtOnce, Wake,
                Proceed, Return, GoTo, Checked
  <2>2. Ahead' \subseteq Ahead
    BY <1>2 DEF Ahead, InBreaker
  <2>3. takes' = takes
    BY DEF InBreaker
  <2> QED BY <2>1, <2>2, <2>3, CountQuiet
<1> QED BY <1>1, <1>2

\* A counted restart that takes the process down is ahead no longer.
LEMMA CountStop ==
    ASSUME TypeOK, CountInv, NEW r \in Request, RestartStop(r)
    PROVE  CountInv'
<1> USE DEF TypeOK, BreakerTypeOK, Do, historyVars
<1>1. attempts' = attempts
  BY DEF RestartStop, restartInternalReturns, RestartReturns, Return, breakerVars
<1>2. Ahead' \subseteq Ahead \ {r}
  BY DEF Ahead, RestartStop, restartInternalReturns
<1>3. CASE takes' = takes
  BY <1>1, <1>2, <1>3, CountQuiet
<1>4. CASE takes' # takes
  <2>1. takes' = takes + 1 /\ r \in Ahead
    BY <1>4 DEF Ahead, RestartStop
  <2>2. Ahead \in SUBSET Request /\ Ahead \ {r} \in SUBSET Request
    BY DEF Ahead
  <2>3. Cardinality(Ahead \ {r}) = Cardinality(Ahead) - 1 /\ Cardinality(Ahead) \in Nat
    BY <2>1, <2>2, SomeRequests
  <2>4. IsFiniteSet(Ahead \ {r})
    BY <2>2, BoundsOK, FS_Subset
  <2>5. Cardinality(Ahead') <= Cardinality(Ahead \ {r}) /\ Cardinality(Ahead') \in Nat
    BY <1>2, <2>4, FS_Subset, FS_CardinalityType
  <2> QED BY <1>1, <2>1, <2>3, <2>5 DEF CountInv
<1> QED BY <1>3, <1>4

\* Between two resets, no restart but one by force takes the process down uncounted.
THEOREM RestartsCountedHolds == Spec => []RestartsCounted
<1>1. Init => CountInv
  <2> SUFFICES ASSUME Init PROVE CountInv
    OBVIOUS
  <2>1. Ahead = {} /\ takes = 0 /\ attempts = 0
    BY DEF Init, BreakerInit, Ahead
  <2> QED BY <2>1, FS_EmptySet DEF CountInv
<1>2. TypeOK /\ TypeOK' /\ CountInv /\ [Next]_vars => CountInv'
  <2> SUFFICES ASSUME TypeOK, TypeOK', CountInv, [Next]_vars PROVE CountInv'
    OBVIOUS
  <2> USE DEF TypeOK, BreakerTypeOK, Do, monitorVars, historyVars
  <2>1. CASE Check \/ Worker \/ TimePasses \/ UNCHANGED vars
    <3>1. attempts' = attempts /\ takes' = takes /\ Ahead' \subseteq Ahead
      BY <2>1
      DEF Check, CheckPasses, CheckFails, Worker, TimePasses, Tick, vars, breakerVars, Ahead
    <3> QED BY <3>1, CountQuiet
  <2>2. CASE Recovery
    <3>1. CASE attempts > 0 \/ open
      <4>1. attempts' = 0 /\ takes' = 0 /\ Ahead' = {}
        BY <2>2, <3>1 DEF Recovery, Reset, ResetState, Ahead, Restarting
      <4> QED BY <4>1, FS_EmptySet DEF CountInv
    <3>2. CASE ~(attempts > 0 \/ open)
      <4>1. attempts' = attempts /\ takes' = takes /\ Ahead' \subseteq Ahead
        BY <2>2, <3>2 DEF Recovery, Reset, ResetState, Ahead
      <4> QED BY <4>1, CountQuiet
    <3> QED BY <3>1, <3>2
  <2>3. ASSUME NEW r \in Request, Asks(r) \/ Callback(r)
        PROVE  CountInv'
    <3>1. attempts' = attempts /\ takes' = takes /\ Ahead' \subseteq Ahead
      BY <2>3 DEF Asks, handleResourceViolation, Restart, RestartForced, RequestOf, Callback,
                  Request_, breakerVars, Ahead
    <3> QED BY <3>1, CountQuiet
  <2>4. ASSUME NEW r \in Request, InBreaker(r)
        PROVE  CountInv'
    BY <2>4, CountInBreaker
  <2>5. ASSUME NEW r \in Request, RestartStop(r)
        PROVE  CountInv'
    BY <2>5, CountStop
  <2>6. ASSUME NEW r \in Request, RestartFinalize(r) \/ RestartStart(r)
        PROVE  CountInv'
    <3>1. attempts' = attempts /\ takes' = takes
      BY <2>6 DEF RestartFinalize, RestartStart, restartInternalReturns, RestartReturns, Return,
                  breakerVars
    <3>2. Ahead' \subseteq Ahead
      BY <2>6 DEF RestartFinalize, RestartStart, restartInternalReturns, Ahead
    <3> QED BY <3>1, <3>2, CountQuiet
  <2> QED BY <2>1, <2>2, <2>3, <2>4, <2>5, <2>6 DEF Next, Goes
<1>3. TypeOK /\ CountInv => RestartsCounted
  <2> SUFFICES ASSUME TypeOK, CountInv PROVE RestartsCounted
    OBVIOUS
  <2>1. Ahead \in SUBSET Request
    BY DEF Ahead
  <2> QED BY <2>1, SomeRequests DEF CountInv, RestartsCounted, TypeOK, BreakerTypeOK
<1> QED BY <1>1, <1>2, <1>3, TypeCorrect, PTL DEF Spec

\* If every context is limited, then between two resets the restarts not forced take the process
\* down no more often than the largest limit allows, and once more for each goroutine but one.
THEOREM TakesBounded ==
    Spec => []((\A c \in Context : Limited(c)) =>
                   \E c \in Context : takes < effectiveMaxRetries(c) + Cardinality(Request))
<1>1. TypeOK /\ RestartsCounted /\ OvershootBounded =>
        ((\A c \in Context : Limited(c)) =>
             \E c \in Context : takes < effectiveMaxRetries(c) + Cardinality(Request))
  <2> SUFFICES ASSUME TypeOK, RestartsCounted, OvershootBounded, \A c \in Context : Limited(c)
               PROVE  \E c \in Context : takes < effectiveMaxRetries(c) + Cardinality(Request)
    OBVIOUS
  <2>1. PICK c \in Context :
          attempts + Cardinality(Asleep) < effectiveMaxRetries(c) + Cardinality(Request)
    BY DEF OvershootBounded
  <2>2. Asleep \in SUBSET Request
    BY DEF Asleep
  <2>3. takes < effectiveMaxRetries(c) + Cardinality(Request)
    BY <2>1, <2>2, SomeRequests, LimitType DEF RestartsCounted, TypeOK, BreakerTypeOK
  <2> QED BY <2>3
<1> QED BY <1>1, RestartsCountedHolds, TypeCorrect, SupervisedBreaker, PTL
====
