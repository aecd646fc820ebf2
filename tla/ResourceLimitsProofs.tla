------------------------- MODULE ResourceLimitsProofs -------------------------
(***************************************************************************)
(* Theorems about ResourceLimits, for every set of configurations, every   *)
(* set of usages and every bound.  LoopInv relates the two loops to how    *)
(* far Start or Stop is, CheckInv relates what the check loop holds and    *)
(* publishes to the usage it read; each is inductive on top of TypeOK.     *)
(***************************************************************************)
EXTENDS ResourceLimits, TLAPS

(***************************************************************************)
(* The violation checker.                                                  *)
(***************************************************************************)

\* What the checker returns are violations: only RSS and CPU have warnings.
LEMMA CheckedType ==
    ASSUME NEW c, NEW u
    PROVE  CheckViolations(c, u) \subseteq Violation
  BY DEF CheckViolations, Violation

\* A metric is reported as critical exactly if it exceeds its limit.
LEMMA CriticalMember ==
    ASSUME NEW c, NEW u, NEW m \in Metric
    PROVE  Critical(m) \in CheckViolations(c, u) <=> Exceeds(c, u, m)
  BY DEF CheckViolations, Critical, Warning

\* A metric is reported as a warning exactly if it exceeds its threshold.
LEMMA WarningMember ==
    ASSUME NEW c, NEW u, NEW m \in {"rss", "cpu"}
    PROVE  Warning(m) \in CheckViolations(c, u) <=> ExceedsWarning(c, u, m)
  BY DEF CheckViolations, Critical, Warning

\* Up to 100%, what exceeds the limit exceeds the threshold.
LEMMA ThresholdBelowLimit ==
    ASSUME NEW l \in Nat, NEW w \in 1 .. 100, NEW x \in Nat, x > l
    PROVE  100 * x > l * w
  <1>1. l * w <= l * 100
    BY SMT
  <1>2. l * 100 < 100 * x
    BY SMT
  <1> QED
    BY <1>1, <1>2

\* A critical violation comes with the warning.
LEMMA CriticalWithWarning ==
    ASSUME NEW c \in ResourceLimits, NEW u \in [Metric -> Nat], NEW m \in {"rss", "cpu"},
           c.warning[m] \in 1 .. 100,
           Critical(m) \in CheckViolations(c, u)
    PROVE  Warning(m) \in CheckViolations(c, u)
  <1>1. Exceeds(c, u, m)
    BY CriticalMember DEF Metric
  <1>2. c.limit[m] \in Nat /\ u[m] \in Nat /\ c.limit[m] > 0 /\ u[m] > c.limit[m]
    BY <1>1 DEF Exceeds, Compared, ResourceLimits, Metric
  <1>3. 100 * u[m] > c.limit[m] * c.warning[m]
    BY <1>2, ThresholdBelowLimit
  <1>4. ExceedsWarning(c, u, m)
    BY <1>2, <1>3 DEF ExceedsWarning
  <1> QED
    BY <1>4, WarningMember

\* Cutting to whole seconds takes away less than a second.
LEMMA CutToSeconds ==
    ASSUME NEW x \in Nat
    PROVE  /\ (x \div Second) * Second \in Nat
           /\ (x \div Second) * Second <= x
           /\ x - (x \div Second) * Second <= Second - 1
  BY LimitsOK

\* The comparison of the code agrees with the exact one, up to the cut of the CPU time.
LEMMA ExceedsRight ==
    ASSUME NEW c \in ResourceLimits, NEW u \in [Metric -> Nat], NEW m \in Metric
    PROVE  /\ Exceeds(c, u, m) => c.limit[m] > 0 /\ u[m] - c.limit[m] > 0
           /\ c.limit[m] > 0
              /\ u[m] - c.limit[m] > (IF m = "cpuTime" THEN Second - 1 ELSE 0)
              => Exceeds(c, u, m)
  <1>1. c.limit[m] \in Nat /\ u[m] \in Nat
    BY DEF ResourceLimits
  <1>2. CASE m = "cpuTime"
    <2>1. /\ Compared(u, m) \in Nat
          /\ Compared(u, m) <= u[m]
          /\ u[m] - Compared(u, m) <= Second - 1
      BY <1>1, <1>2, CutToSeconds DEF Compared
    <2> QED
      BY <1>1, <1>2, <2>1, LimitsOK DEF Exceeds
  <1>3. CASE m # "cpuTime"
    BY <1>1, <1>3 DEF Exceeds, Compared
  <1> QED
    BY <1>2, <1>3

(***************************************************************************)
(* Type correctness.                                                       *)
(***************************************************************************)

\* Every step keeps the types.
LEMMA TypeStep ==
    ASSUME TypeOK, [Next]_vars
    PROVE  TypeOK'
  <1> USE LimitsOK DEF TypeOK
  <1>1. CASE Owner
    <2>1. CASE StartUnlimited
      BY <2>1 DEF StartUnlimited, loops
    <2>2. CASE StartFails
      BY <2>2 DEF StartFails, loops
    <2>3. CASE Start
      <3>1. config.monitoring \in BOOLEAN
        BY DEF ResourceLimits
      <3>2. isRunning' \in [manager : BOOLEAN, monitor : BOOLEAN]
        BY <2>3, <3>1 DEF Start
      <3> QED
        BY <2>3, <3>2 DEF Start
    <2> QED
      BY <1>1, <2>1, <2>2, <2>3 DEF Owner
  <1>2. CASE StopIdle \/ Stop \/ Stopping
    BY <1>2 DEF StopIdle, Stop, Stopping, StopMonitor, JoinMonitor, JoinChecker, loops
  <1>3. CASE MonitorLoop
    BY <1>3 DEF MonitorLoop, CollectUsage, StoreUsage, MonitorDone
  <1>4. CASE GetCurrentUsage
    BY <1>4, CheckedType DEF GetCurrentUsage
  <1>5. CASE SetViolations \/ CheckDone \/ CheckerDone
    BY <1>5 DEF SetViolations, CheckDone, CheckerDone
  <1>6. CASE DispatchViolation
    <2>1. handling' \in [Policy -> 0 .. MaxHandling]
      BY <1>6 DEF DispatchViolation
    <2> QED
      BY <1>6, <2>1 DEF DispatchViolation
  <1>7. CASE CallbackReturns
    BY <1>7 DEF CallbackReturns
  <1>8. CASE ProcessExits
    BY <1>8 DEF ProcessExits, loops
  <1>9. CASE UNCHANGED vars
    BY <1>9 DEF vars, loops
  <1> QED
    BY <1>1, <1>2, <1>3, <1>4, <1>5, <1>6, <1>7, <1>8, <1>9 DEF Next, ViolationCheckLoop

\* Every reachable state of the manager is well typed.
THEOREM TypeCorrect == Spec => []TypeOK
  <1>1. ASSUME NewResourceLimitManager
        PROVE  TypeOK
    <2>1. isRunning \in [manager : BOOLEAN, monitor : BOOLEAN]
      BY <1>1 DEF NewResourceLimitManager
    <2>2. handling \in [Policy -> 0 .. MaxHandling]
      BY <1>1, LimitsOK DEF NewResourceLimitManager
    <2> QED
      BY <1>1, <2>1, <2>2 DEF NewResourceLimitManager, TypeOK
  <1> QED
    BY <1>1, TypeStep, PTL DEF Spec

(***************************************************************************)
(* The loops and their owner.                                              *)
(***************************************************************************)

\* Which loops there may be, by how far Start or Stop is; a started manager's context is live.
LoopInv ==
    /\ owner \in {"new", "failed"} => collector = "none" /\ checker = "none"
    /\ owner = "new" => ~cancelled /\ isRunning = [manager |-> FALSE, monitor |-> FALSE]
    /\ owner = "started" =>
        /\ ~cancelled
        /\ isRunning.manager = config.limited
        /\ isRunning.manager => checker \notin {"none", "exited"}
        /\ ~isRunning.manager => checker = "none" /\ ~isRunning.monitor
    /\ owner \in {"started", "stopMonitor"} => (isRunning.monitor <=> collector # "none")
    /\ owner = "joinMonitor" => collector # "none"
    /\ owner \in {"stopMonitor", "joinMonitor", "joinChecker"} => cancelled /\ checker # "none"
    /\ owner \in {"joinChecker", "stopped"} => collector \in {"none", "exited"}
    /\ owner = "stopped" => checker \in {"none", "exited"}

\* Every step keeps LoopInv.
LEMMA LoopStep ==
    ASSUME TypeOK, LoopInv, [Next]_vars
    PROVE  LoopInv'
  <1> USE DEF TypeOK, LoopInv
  <1>1. CASE StartUnlimited
    <2>1. config.limited = FALSE
      BY <1>1, LimitsOK DEF StartUnlimited, ResourceLimits
    <2>2. isRunning.manager = FALSE /\ isRunning.monitor = FALSE
      BY <1>1 DEF StartUnlimited
    <2> QED
      BY <1>1, <2>1, <2>2 DEF StartUnlimited, loops
  <1>2. CASE StartFails
    BY <1>2 DEF StartFails, loops
  <1>3. CASE Start
    <2>1. config.limited = TRUE /\ config.monitoring \in BOOLEAN
      BY <1>3, LimitsOK DEF Start, ResourceLimits
    <2> QED
      BY <1>3, <2>1 DEF Start
  <1>4. CASE StopIdle \/ Stop
    BY <1>4 DEF StopIdle, Stop, loops
  <1>5. CASE Stopping
    BY <1>5 DEF Stopping, StopMonitor, JoinMonitor, JoinChecker, loops
  <1>6. CASE MonitorLoop
    BY <1>6 DEF MonitorLoop, CollectUsage, StoreUsage, MonitorDone
  <1>7. CASE ViolationCheckLoop
    BY <1>7 DEF ViolationCheckLoop, GetCurrentUsage, SetViolations, DispatchViolation, CheckDone,
       CheckerDone
  <1>8. CASE CallbackReturns \/ ProcessExits
    BY <1>8 DEF CallbackReturns, ProcessExits, loops
  <1>9. CASE UNCHANGED vars
    BY <1>9 DEF vars, loops
  <1> QED
    BY <1>1, <1>2, <1>3, <1>4, <1>5, <1>6, <1>7, <1>8, <1>9 DEF Next, Owner

\* LoopInv holds in every reachable state.
THEOREM LoopInvariant == Spec => []LoopInv
  <1>1. NewResourceLimitManager => LoopInv
    BY DEF NewResourceLimitManager, LoopInv
  <1> QED
    BY <1>1, TypeCorrect, LoopStep, PTL DEF Spec

\* No loop outlives its manager or runs for one that failed to start.
THEOREM NoOrphansHolds == Spec => []NoOrphans
  <1>1. LoopInv => NoOrphans
    BY DEF LoopInv, NoOrphans
  <1> QED
    BY <1>1, LoopInvariant, PTL

\* A started manager with limits checks them until Stop is called.
THEOREM WatchesUntilStoppedHolds == Spec => []WatchesUntilStopped
  <1>1. LoopInv => WatchesUntilStopped
    BY DEF LoopInv, WatchesUntilStopped
  <1> QED
    BY <1>1, LoopInvariant, PTL

\* Stop waits for loops only that were started and told to end.
THEOREM WaitsForToldHolds == Spec => []WaitsForTold
  <1>1. TypeOK /\ LoopInv => WaitsForTold
    BY DEF TypeOK, LoopInv, WaitsForTold, Stuck, MonitorLocked, ManagerLocked
  <1> QED
    BY <1>1, TypeCorrect, LoopInvariant, PTL

(***************************************************************************)
(* What is published.                                                      *)
(***************************************************************************)

\* The check loop carries what the checker returned for its usage to the published violations,
\* which are always those of one usage.
CheckInv ==
    /\ checker = "set" => pending = CheckViolations(config, usage)
    /\ checker = "dispatch" => violations = CheckViolations(config, usage)
    /\ \/ violations = {}
       \/ \E u \in Usage : violations = CheckViolations(config, u)

\* Every step keeps CheckInv.
LEMMA CheckStep ==
    ASSUME TypeOK, LoopInv, CheckInv, [Next]_vars
    PROVE  CheckInv'
  <1> USE DEF CheckInv
  <1>1. CASE Owner
    BY <1>1 DEF Owner, StartUnlimited, StartFails, Start, loops
  <1>2. CASE StopIdle \/ Stop \/ Stopping
    BY <1>2 DEF StopIdle, Stop, Stopping, StopMonitor, JoinMonitor, JoinChecker, loops
  <1>3. CASE MonitorLoop
    BY <1>3 DEF MonitorLoop, CollectUsage, StoreUsage, MonitorDone
  <1>4. CASE GetCurrentUsage
    BY <1>4 DEF GetCurrentUsage
  <1>5. CASE SetViolations
    <2>1. violations' = CheckViolations(config', usage') /\ usage' \in Usage
      BY <1>5 DEF SetViolations, TypeOK
    <2>2. \E u \in Usage : violations' = CheckViolations(config', u)
      BY <2>1
    <2> QED
      BY <1>5, <2>1, <2>2 DEF SetViolations
  <1>6. CASE DispatchViolation \/ CheckDone \/ CheckerDone
    BY <1>6 DEF DispatchViolation, CheckDone, CheckerDone
  <1>7. CASE CallbackReturns \/ ProcessExits
    BY <1>7 DEF CallbackReturns, ProcessExits, loops
  <1>8. CASE UNCHANGED vars
    BY <1>8 DEF vars, loops
  <1> QED
    BY <1>1, <1>2, <1>3, <1>4, <1>5, <1>6, <1>7, <1>8 DEF Next, ViolationCheckLoop

\* CheckInv holds in every reachable state.
THEOREM CheckInvariant == Spec => []CheckInv
  <1>1. NewResourceLimitManager => CheckInv
    BY DEF NewResourceLimitManager, CheckInv
  <1> QED
    BY <1>1, TypeCorrect, LoopInvariant, CheckStep, PTL DEF Spec

\* What is published as critical is what exceeds its limit, up to the cut of the CPU time.
THEOREM CheckedRightHolds == Spec => []CheckedRight
  <1>1. ASSUME TypeOK, CheckInv
        PROVE  CheckedRight
    <2> SUFFICES ASSUME checker = "dispatch", NEW m \in Metric
                 PROVE  LET over == usage[m] - config.limit[m]
                        IN  /\ Critical(m) \in violations => config.limit[m] > 0 /\ over > 0
                            /\ config.limit[m] > 0
                               /\ over > (IF m = "cpuTime" THEN Second - 1 ELSE 0)
                               => Critical(m) \in violations
      BY DEF CheckedRight
    <2>1. config \in ResourceLimits /\ usage \in [Metric -> Nat]
      BY <1>1, LimitsOK DEF TypeOK
    <2>2. Critical(m) \in violations <=> Exceeds(config, usage, m)
      BY <1>1, CriticalMember DEF CheckInv
    <2> QED
      BY <2>1, <2>2, ExceedsRight
  <1> QED
    BY <1>1, TypeCorrect, CheckInvariant, PTL

\* A critical violation comes with its warning for every threshold up to 100%.
THEOREM CriticalWarnsHolds == Spec => []CriticalWarns
  <1>1. ASSUME TypeOK, CheckInv
        PROVE  CriticalWarns
    <2> SUFFICES ASSUME NEW m \in {"rss", "cpu"},
                        Critical(m) \in violations,
                        config.warning[m] \in 1 .. 100
                 PROVE  Warning(m) \in violations
      BY DEF CriticalWarns
    <2>1. PICK u \in Usage : violations = CheckViolations(config, u)
      BY <1>1 DEF CheckInv
    <2>2. config \in ResourceLimits /\ u \in [Metric -> Nat]
      BY <1>1, LimitsOK DEF TypeOK
    <2> QED
      BY <2>1, <2>2, CriticalWithWarning
  <1> QED
    BY <1>1, TypeCorrect, CheckInvariant, PTL

(***************************************************************************)
(* The lock cycles.                                                        *)
(***************************************************************************)

\* Both lock cycles are final: no step of any goroutine resolves them.
THEOREM StuckForeverHolds == Spec => StuckForever
  <1>1. ASSUME [Next]_vars, Stuck
        PROVE  Stuck'
    <2> USE <1>1 DEF Stuck, ManagerLocked, MonitorLocked
    <2>1. CASE Owner \/ StopIdle \/ Stop
      BY <2>1 DEF Owner, StartUnlimited, StartFails, Start, StopIdle, Stop, loops
    <2>2. CASE Stopping
      BY <2>2 DEF Stopping, StopMonitor, JoinMonitor, JoinChecker, loops
    <2>3. CASE MonitorLoop
      BY <2>3 DEF MonitorLoop, CollectUsage, StoreUsage, MonitorDone
    <2>4. CASE ViolationCheckLoop
      BY <2>4 DEF ViolationCheckLoop, GetCurrentUsage, SetViolations, DispatchViolation, CheckDone,
         CheckerDone
    <2>5. CASE CallbackReturns \/ ProcessExits
      BY <2>5 DEF CallbackReturns, ProcessExits, loops
    <2>6. CASE UNCHANGED vars
      BY <2>6 DEF vars, loops
    <2> QED
      BY <2>1, <2>2, <2>3, <2>4, <2>5, <2>6 DEF Next
  <1> QED
    BY <1>1, PTL DEF Spec, StuckForever
=============================================================================
