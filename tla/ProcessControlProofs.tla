------------------------ MODULE ProcessControlProofs ------------------------
(***************************************************************************)
(* Theorems about ProcessControl, for any number of goroutines, launches   *)
(* and processes.  The first invariant holds under every configuration;    *)
(* the second needs a configuration without policy terminations, which is  *)
(* the case the documents call sequential operation.                      *)
(***************************************************************************)
EXTENDS ProcessControl, TLAPS

\* The mutex is held across a step only by a launch or a cleanup.
MutexInv == \A t \in Thread : mutex = t <=> pc[t] \in {"launch", "cleanup"}

\* The steps of an immediate kill belong to a kill, whose cleanup sees its own state.
KillInv ==
    \A t \in Thread :
        /\ pc[t] \in {"planKill", "kill", "finalizeKill"} => op[t] = "kill"
        /\ op[t] = "kill" => pc[t] \in {"planKill", "cleanup", "kill", "finalizeKill"}
        /\ op[t] = "kill" /\ pc[t] = "cleanup" => state = "terminating"

Launched(h) == of[h] # NoProc

\* A handle in use is one of a launch, whose process exists.
HandleInv ==
    /\ process # NoHandle => Launched(process)
    /\ \A t \in Thread : plan[t] # NoHandle => Launched(plan[t])
    /\ \A h \in Handle : Launched(h) => os[of[h]] # "unused"
    /\ \A h \in Handle : done[h] = "exit" => Gone(h)

\* A goroutine that waits for a process or kills it has one.
PlanInv ==
    \A t \in Thread :
        pc[t] \in {"grace", "force", "reap", "kill"} => plan[t] # NoHandle

StateHasProcess == state = "running" => process # NoHandle

IInv ==
    /\ TypeOK
    /\ MutexInv
    /\ KillInv
    /\ HandleInv
    /\ PlanInv
    /\ StateHasProcess
    /\ SoleTerminator
    /\ SuccessMeansGone

-----------------------------------------------------------------------------
\* Without policy terminations: only Stop and Restart take a process away.
Sequential == Callbacks \subseteq {"health", "restart"}

\* A start without a context leaves failed_start behind, whatever the state was.
Spoiled == NilContext /\ state = "failed_start"

Terminating(t) == pc[t] \in {"grace", "force", "reap", "finalize", "cleanup"}

\* No goroutine runs a policy termination; one that terminates a process is alone, the state
\* says so, and it alone has a plan.
OneTermination ==
    /\ \A t \in Thread : op[t] # "kill" /\ pc[t] # "planShutdown"
    /\ \A t \in Thread : plan[t] # NoHandle <=> Terminating(t)
    /\ \A t \in Thread : Terminating(t) => process = NoHandle /\ (state = "stopping" \/ Spoiled)
    /\ \A t, u \in Thread : Terminating(t) /\ Terminating(u) => t = u

\* The state tells whether there is a process and whether there is something to clean up.
StateInv ==
    /\ state = "running" => process # NoHandle
    /\ process # NoHandle => state = "running" \/ Spoiled
    /\ \A t \in Thread : pc[t] = "launch" => state = "starting"
    /\ state \in {"idle", "starting"} => \A f \in Feature : res[f] = NoHandle
    /\ \A f \in Feature : live[f] \subseteq {res[f]}

SeqInv == IInv /\ OneTermination /\ StateInv /\ NoOrphan

-----------------------------------------------------------------------------

LocalType ==
    /\ op \in [Thread -> Op]
    /\ pc \in [Thread -> Step]
    /\ plan \in [Thread -> Handle \cup {NoHandle}]
    /\ err \in [Thread -> BOOLEAN]
    /\ abandoned \subseteq Handle

\* A return keeps the types of what is local to a goroutine.
LEMMA ReturnType ==
  ASSUME TypeOK, NEW t \in Thread, Return(t)
  PROVE  LocalType'
  BY DEF TypeOK, Return, GoTo, LocalType, Op, Step

\* Going on to another step keeps them.
LEMMA ContinueType ==
  ASSUME TypeOK, NEW t \in Thread, NEW s \in Step, Continue(t, s)
  PROVE  LocalType'
  BY DEF TypeOK, Continue, GoTo, LocalType

\* Taking the process away keeps the types.
LEMMA TakeProcessType ==
  ASSUME TypeOK, NEW t \in Thread, TakeProcess(t)
  PROVE  LocalType' /\ state' = "stopping" /\ process' = NoHandle
  BY DEF TypeOK, TakeProcess, GoTo, LocalType, Step

\* Every step of the process control keeps the types.
LEMMA TypeStep == TypeOK /\ [Next]_vars => TypeOK'
<1> SUFFICES ASSUME TypeOK, [Next]_vars PROVE TypeOK'
  OBVIOUS
<1> USE ConstantsOK DEF TypeOK, ProcessState, Op, Step
<1>1. ASSUME NEW t \in Thread, Start(t) PROVE TypeOK'
  BY <1>1 DEF Start, Call, fields, system
<1>2. ASSUME NEW t \in Thread, StartNilContext(t) PROVE TypeOK'
  BY <1>2 DEF StartNilContext, system, local
<1>3. ASSUME NEW t \in Thread, Stop(t) PROVE TypeOK'
  BY <1>3 DEF Stop, Call, fields, system
<1>4. ASSUME NEW t \in Thread, Restart(t) PROVE TypeOK'
  BY <1>4 DEF Restart, Call, fields, system
<1>5. ASSUME NEW t \in Thread, HealthRestart(t) PROVE TypeOK'
  BY <1>5 DEF HealthRestart, Call, fields, system
<1>6. ASSUME NEW t \in Thread, HandleResourceViolation(t) PROVE TypeOK'
  BY <1>6 DEF HandleResourceViolation, Call, fields, system
<1>7. ASSUME NEW t \in Thread, validateAndPlanStop(t) PROVE TypeOK'
  <2>1. CASE TakeProcess(t)
    BY <1>7, <2>1, TakeProcessType DEF validateAndPlanStop, LocalType, system
  <2>2. CASE Return(t) /\ UNCHANGED <<state, process>>
    BY <1>7, <2>2, ReturnType DEF validateAndPlanStop, LocalType, system
  <2>3. CASE Continue(t, "startLock") /\ UNCHANGED <<state, process>>
    BY <1>7, <2>3 DEF validateAndPlanStop, Continue, GoTo, system
  <2> QED
    BY <1>7, <2>1, <2>2, <2>3 DEF validateAndPlanStop
<1>8. ASSUME NEW t \in Thread, planShutdown(t) PROVE TypeOK'
  <2>1. CASE TakeProcess(t)
    BY <1>8, <2>1, TakeProcessType DEF planShutdown, LocalType, system
  <2>2. CASE Return(t) /\ UNCHANGED <<state, process>>
    BY <1>8, <2>2, ReturnType DEF planShutdown, LocalType, system
  <2> QED
    BY <1>8, <2>1, <2>2 DEF planShutdown
<1>9. ASSUME NEW t \in Thread, planKill(t) PROVE TypeOK'
  <2>1. CASE state = "idle"
    BY <1>9, <2>1, ReturnType DEF planKill, LocalType, system
  <2>2. CASE state # "idle"
    BY <1>9, <2>2 DEF planKill, GoTo, system
  <2> QED
    BY <1>9, <2>1, <2>2 DEF planKill
<1>10. ASSUME NEW t \in Thread, finalizeLock(t) PROVE TypeOK'
  BY <1>10 DEF finalizeLock, Continue, GoTo, system
<1>11. ASSUME NEW t \in Thread, finalizeKill(t) PROVE TypeOK'
  BY <1>11, ReturnType DEF finalizeKill, LocalType, system
<1>12. ASSUME NEW t \in Thread, startLock(t) PROVE TypeOK'
  <2>1. CASE state' = "starting" /\ mutex' = t /\ Continue(t, "launch")
    BY <1>12, <2>1, ContinueType DEF startLock, LocalType, system
  <2>2. CASE Return(t) /\ UNCHANGED <<state, mutex>>
    BY <1>12, <2>2, ReturnType DEF startLock, LocalType, system
  <2> QED
    BY <1>12, <2>1, <2>2 DEF startLock
<1>13. ASSUME NEW t \in Thread, ExecuteRestart(t) PROVE TypeOK'
  <2>1. LocalType'
    BY <1>13, ContinueType, ReturnType DEF ExecuteRestart
  <2> QED
    BY <1>13, <2>1 DEF ExecuteRestart, LocalType, fields, system
<1>14. ASSUME NEW t \in Thread, ReceiveDone(t) PROVE TypeOK'
  BY <1>14 DEF ReceiveDone, GoTo, fields
<1>15. ASSUME NEW t \in Thread, GraceTimeout(t) PROVE TypeOK'
  BY <1>15 DEF GraceTimeout, Continue, GoTo, fields, system
<1>16. ASSUME NEW t \in Thread, Kill(t) PROVE TypeOK'
  <2>1. os' \in [Proc -> {"unused", "alive", "doomed", "dead"}]
    BY <1>16 DEF Kill, Doom
  <2>2. LocalType'
    BY <1>16 DEF Kill, GoTo, LocalType
  <2> QED
    BY <1>16, <2>1, <2>2 DEF Kill, LocalType, fields
<1>17. ASSUME NEW t \in Thread, ReapTimeout(t) PROVE TypeOK'
  BY <1>17 DEF ReapTimeout, GoTo, fields, system
<1>18. ASSUME NEW t \in Thread, Cleanup(t) PROVE TypeOK'
  <2>1. res' \in [Feature -> Handle \cup {NoHandle}] /\ live' \in [Feature -> SUBSET Handle]
    BY <1>18 DEF Cleanup, cleanupResourcesUnderLock
  <2>2. state' \in ProcessState /\ process' \in Handle \cup {NoHandle}
    BY <1>18 DEF Cleanup
  <2>3. LocalType'
    <3>1. CASE Return(t)
      BY <3>1, ReturnType
    <3>2. CASE Continue(t, IF plan[t] = NoHandle THEN "finalizeKill" ELSE "kill")
      BY <3>2 DEF Continue, GoTo, LocalType
    <3>3. CASE GoTo(t, "startLock") /\ plan' = [plan EXCEPT ![t] = NoHandle]
                 /\ UNCHANGED <<op, err, abandoned>>
      BY <3>3 DEF GoTo, LocalType
    <3> QED
      BY <1>18, <3>1, <3>2, <3>3 DEF Cleanup
  <2> QED
    BY <1>18, <2>1, <2>2, <2>3 DEF Cleanup, LocalType, system
<1>19. ASSUME NEW t \in Thread, LaunchFails(t) PROVE TypeOK'
  <2>1. LocalType'
    BY <1>19, ReturnType DEF LaunchFails
  <2>2. os' \in [Proc -> {"unused", "alive", "doomed", "dead"}]
    BY <1>19 DEF LaunchFails, Spawnable, Attachable, Doom
  <2> QED
    BY <1>19, <2>1, <2>2 DEF LaunchFails, LocalType
<1>20. ASSUME NEW t \in Thread, Launch(t) PROVE TypeOK'
  <2>1. LocalType'
    BY <1>20, ReturnType DEF Launch
  <2>2. res' \in [Feature -> Handle \cup {NoHandle}] /\ live' \in [Feature -> SUBSET Handle]
    BY <1>20 DEF Launch, SetUp
  <2>3. os' \in [Proc -> {"unused", "alive", "doomed", "dead"}] /\ attached' \subseteq Handle
    BY <1>20 DEF Launch, Spawnable, Attachable
  <2>4. of' \in [Handle -> Proc \cup {NoProc}] /\ process' \in Handle \cup {NoHandle}
    BY <1>20 DEF Launch
  <2> QED
    BY <1>20, <2>1, <2>2, <2>3, <2>4 DEF Launch, LocalType
<1>21. ASSUME NEW p \in Proc, Exit(p) PROVE TypeOK'
  BY <1>21 DEF Exit, fields, local
<1>22. ASSUME NEW h \in Handle, WaitReturns(h) PROVE TypeOK'
  BY <1>22 DEF WaitReturns, fields, local
<1>23. CASE UNCHANGED vars
  BY <1>23 DEF vars
<1> QED
  BY <1>1, <1>2, <1>3, <1>4, <1>5, <1>6, <1>7, <1>8, <1>9, <1>10, <1>11, <1>12, <1>13, <1>14, <1>15, <1>16, <1>17, <1>18, <1>19, <1>20, <1>21, <1>22, <1>23
  DEF Next, Calls, LockSteps, FreeSteps, LaunchSteps

\* Every reachable state has its type.
THEOREM TypeCorrect == Spec => []TypeOK
<1>1. Init => TypeOK
  BY ConstantsOK DEF Init, TypeOK, ProcessState, Op, Step
<1> QED
  BY <1>1, TypeStep, PTL DEF Spec

\* A call only picks its first step.
LEMMA CallKeepsIInv ==
  ASSUME IInv, TypeOK', NEW t \in Thread,
         NEW o \in {"start", "stop", "restart", "shutdown", "kill"},
         NEW s \in {"startLock", "planStop", "gate", "planShutdown", "planKill"},
         o = "kill" <=> s = "planKill", Call(t, o, s)
  PROVE  IInv'
<1> USE DEF IInv, TypeOK, Call, fields, system
<1>1. MutexInv' /\ KillInv' /\ PlanInv'
  BY DEF MutexInv, KillInv, PlanInv
<1>2. HandleInv' /\ StateHasProcess'
  BY DEF HandleInv, Launched, Gone, StateHasProcess
<1>3. SoleTerminator' /\ SuccessMeansGone'
  BY DEF SoleTerminator, SuccessMeansGone, Gone
<1> QED
  BY <1>1, <1>2, <1>3

\* Every step keeps the inductive invariant.
LEMMA IInvStep == IInv /\ [Next]_vars => IInv'
<1> SUFFICES ASSUME IInv, [Next]_vars PROVE IInv'
  OBVIOUS
<1>0. TypeOK'
  BY TypeStep DEF IInv
<1> USE ConstantsOK, <1>0 DEF IInv, TypeOK
<1>1. ASSUME NEW t \in Thread, Start(t) PROVE IInv'
  BY <1>1, CallKeepsIInv DEF Start
<1>2. ASSUME NEW t \in Thread, Stop(t) PROVE IInv'
  BY <1>2, CallKeepsIInv DEF Stop
<1>3. ASSUME NEW t \in Thread, Restart(t) PROVE IInv'
  BY <1>3, CallKeepsIInv DEF Restart
<1>4. ASSUME NEW t \in Thread, HealthRestart(t) PROVE IInv'
  BY <1>4, CallKeepsIInv DEF HealthRestart
<1>5. ASSUME NEW t \in Thread, HandleResourceViolation(t) PROVE IInv'
  BY <1>5, CallKeepsIInv DEF HandleResourceViolation
<1>6. ASSUME NEW t \in Thread, StartNilContext(t) PROVE IInv'
  BY <1>6 DEF StartNilContext, system, local, MutexInv, KillInv, HandleInv, PlanInv, StateHasProcess, SoleTerminator, SuccessMeansGone, Launched, Gone
<1>7. ASSUME NEW t \in Thread, validateAndPlanStop(t) PROVE IInv'
  <2>1. MutexInv' /\ KillInv' /\ PlanInv'
    BY <1>7 DEF validateAndPlanStop, TakeProcess, Continue, Return, GoTo, system, MutexInv, KillInv, PlanInv
  <2>2. HandleInv'
    BY <1>7 DEF validateAndPlanStop, TakeProcess, Continue, Return, GoTo, system, HandleInv, Launched, Gone
  <2>3. StateHasProcess'
    BY <1>7 DEF validateAndPlanStop, TakeProcess, Continue, Return, GoTo, system, StateHasProcess, KillInv
  <2>4. SoleTerminator'
    BY <1>7 DEF validateAndPlanStop, TakeProcess, Continue, Return, GoTo, system, SoleTerminator, MutexInv, HandleInv, Launched
  <2>5. SuccessMeansGone'
    BY <1>7 DEF validateAndPlanStop, TakeProcess, Continue, Return, GoTo, system, SuccessMeansGone, KillInv, HandleInv, PlanInv, Launched, Gone
  <2> QED
    BY <2>1, <2>2, <2>3, <2>4, <2>5
<1>8. ASSUME NEW t \in Thread, planShutdown(t) PROVE IInv'
  BY <1>8 DEF planShutdown, TakeProcess, Return, GoTo, system, MutexInv, KillInv, HandleInv, PlanInv, StateHasProcess, SoleTerminator, SuccessMeansGone, Launched, Gone
<1>9. ASSUME NEW t \in Thread, planKill(t) PROVE IInv'
  BY <1>9 DEF planKill, Return, GoTo, system, MutexInv, KillInv, HandleInv, PlanInv, StateHasProcess, SoleTerminator, SuccessMeansGone, Launched, Gone
<1>10. ASSUME NEW t \in Thread, finalizeLock(t) PROVE IInv'
  BY <1>10 DEF finalizeLock, Continue, GoTo, system, MutexInv, KillInv, HandleInv, PlanInv, StateHasProcess, SoleTerminator, SuccessMeansGone, Launched, Gone
<1>11. ASSUME NEW t \in Thread, finalizeKill(t) PROVE IInv'
  BY <1>11 DEF finalizeKill, Return, GoTo, system, MutexInv, KillInv, HandleInv, PlanInv, StateHasProcess, SoleTerminator, SuccessMeansGone, Launched, Gone
<1>12. ASSUME NEW t \in Thread, startLock(t) PROVE IInv'
  BY <1>12 DEF startLock, canStartFromState, Continue, Return, GoTo, system, MutexInv, KillInv, HandleInv, PlanInv, StateHasProcess, SoleTerminator, SuccessMeansGone, Launched, Gone
<1>13. ASSUME NEW t \in Thread, ExecuteRestart(t) PROVE IInv'
  BY <1>13 DEF ExecuteRestart, Continue, Return, GoTo, fields, system, MutexInv, KillInv, HandleInv, PlanInv, StateHasProcess, SoleTerminator, SuccessMeansGone, Launched, Gone
<1>14. ASSUME NEW t \in Thread, ReceiveDone(t) PROVE IInv'
  <2>1. MutexInv' /\ KillInv' /\ PlanInv'
    BY <1>14 DEF ReceiveDone, Reaped, GoTo, fields, MutexInv, KillInv, PlanInv
  <2>2. HandleInv'
    BY <1>14 DEF ReceiveDone, Reaped, GoTo, fields, HandleInv, Launched, Gone
  <2>3. StateHasProcess'
    BY <1>14 DEF ReceiveDone, Reaped, GoTo, fields, StateHasProcess, KillInv
  <2>4. SoleTerminator'
    BY <1>14 DEF ReceiveDone, Reaped, GoTo, fields, SoleTerminator, MutexInv, HandleInv, Launched
  <2>5. SuccessMeansGone'
    <3>1. plan[t] \in Handle /\ (done[plan[t]] = "exit" => Gone(plan[t]))
      BY <1>14 DEF ReceiveDone, PlanInv, HandleInv, Gone
    <3>2. err'[t] \/ Gone(plan[t])
      <4>1. done[plan[t]] = "exit" \/ done[plan[t]] = "error"
        BY <1>14 DEF ReceiveDone, Reaped
      <4>2. done[plan[t]] = "error" => err'[t]
        <5>1. err \in [Thread -> BOOLEAN] /\ err' = [err EXCEPT ![t] = done[plan[t]] = "error"]
          BY <1>14 DEF ReceiveDone
        <5>2. err'[t] = (done[plan[t]] = "error")
          BY <5>1, Zenon
        <5> QED
          BY <5>2
      <4> QED
        BY <3>1, <4>1, <4>2
    <3>3. /\ pc' = [pc EXCEPT ![t] = "finalize"]
          /\ \A u \in Thread \ {t} : err'[u] = err[u]
          /\ UNCHANGED <<of, os, op, plan>>
      BY <1>14 DEF ReceiveDone, GoTo
    <3> QED
      BY <3>2, <3>3 DEF SuccessMeansGone, Gone
  <2> QED
    BY <2>1, <2>2, <2>3, <2>4, <2>5
<1>15. ASSUME NEW t \in Thread, GraceTimeout(t) PROVE IInv'
  BY <1>15 DEF GraceTimeout, Continue, GoTo, fields, system, MutexInv, KillInv, HandleInv, PlanInv, StateHasProcess, SoleTerminator, SuccessMeansGone, Launched, Gone
<1>16. ASSUME NEW t \in Thread, Kill(t) PROVE IInv'
  <2>1. MutexInv' /\ KillInv' /\ PlanInv'
    BY <1>16 DEF Kill, Doom, GoTo, fields, MutexInv, KillInv, PlanInv
  <2>2. HandleInv'
    BY <1>16 DEF Kill, Doom, GoTo, fields, HandleInv, Launched, Gone
  <2>3. StateHasProcess'
    BY <1>16 DEF Kill, Doom, GoTo, fields, StateHasProcess, KillInv
  <2>4. SoleTerminator'
    BY <1>16 DEF Kill, Doom, GoTo, fields, SoleTerminator, MutexInv, HandleInv, Launched
  <2>5. SuccessMeansGone'
    BY <1>16 DEF Kill, Doom, GoTo, fields, SuccessMeansGone, KillInv, HandleInv, PlanInv, Launched, Gone
  <2> QED
    BY <2>1, <2>2, <2>3, <2>4, <2>5
<1>17. ASSUME NEW t \in Thread, ReapTimeout(t) PROVE IInv'
  BY <1>17 DEF ReapTimeout, GoTo, fields, system, MutexInv, KillInv, HandleInv, PlanInv, StateHasProcess, SoleTerminator, SuccessMeansGone, Launched, Gone
<1>18. ASSUME NEW t \in Thread, Cleanup(t) PROVE IInv'
  <2>1. MutexInv' /\ KillInv' /\ PlanInv'
    BY <1>18 DEF Cleanup, Continue, Return, GoTo, system, MutexInv, KillInv, PlanInv
  <2>2. HandleInv'
    BY <1>18 DEF Cleanup, Continue, Return, GoTo, system, HandleInv, Launched, Gone
  <2>3. StateHasProcess'
    BY <1>18 DEF Cleanup, Continue, Return, GoTo, system, StateHasProcess, KillInv
  <2>4. SoleTerminator'
    BY <1>18 DEF Cleanup, Continue, Return, GoTo, system, SoleTerminator, MutexInv, HandleInv, Launched
  <2>5. SuccessMeansGone'
    BY <1>18 DEF Cleanup, Continue, Return, GoTo, system, SuccessMeansGone, KillInv, HandleInv, PlanInv, Launched, Gone
  <2> QED
    BY <2>1, <2>2, <2>3, <2>4, <2>5
<1>19. ASSUME NEW t \in Thread, LaunchFails(t) PROVE IInv'
  BY <1>19 DEF LaunchFails, Spawnable, Attachable, Doom, Return, GoTo, MutexInv, KillInv, HandleInv, PlanInv, StateHasProcess, SoleTerminator, SuccessMeansGone, Launched, Gone
<1>20. ASSUME NEW t \in Thread, Launch(t) PROVE IInv'
  <2>1. MutexInv' /\ KillInv' /\ PlanInv'
    BY <1>20 DEF Launch, Spawnable, Attachable, Return, GoTo, MutexInv, KillInv, PlanInv
  <2>2. HandleInv'
    BY <1>20 DEF Launch, Spawnable, Attachable, Return, GoTo, HandleInv, Launched, Gone
  <2>3. StateHasProcess'
    BY <1>20 DEF Launch, Spawnable, Attachable, Return, GoTo, StateHasProcess, KillInv
  <2>4. SoleTerminator'
    BY <1>20 DEF Launch, Spawnable, Attachable, Return, GoTo, SoleTerminator, MutexInv, HandleInv, Launched
  <2>5. SuccessMeansGone'
    BY <1>20 DEF Launch, Spawnable, Attachable, Return, GoTo, SuccessMeansGone, KillInv, HandleInv, PlanInv, Launched, Gone
  <2> QED
    BY <2>1, <2>2, <2>3, <2>4, <2>5
<1>21. ASSUME NEW p \in Proc, Exit(p) PROVE IInv'
  BY <1>21 DEF Exit, fields, local, MutexInv, KillInv, HandleInv, PlanInv, StateHasProcess, SoleTerminator, SuccessMeansGone, Launched, Gone
<1>22. ASSUME NEW h \in Handle, WaitReturns(h) PROVE IInv'
  BY <1>22 DEF WaitReturns, fields, local, MutexInv, KillInv, HandleInv, PlanInv, StateHasProcess, SoleTerminator, SuccessMeansGone, Launched, Gone
<1>23. CASE UNCHANGED vars
  BY <1>23 DEF vars, MutexInv, KillInv, HandleInv, PlanInv, StateHasProcess, SoleTerminator, SuccessMeansGone, Launched, Gone
<1> QED
  BY <1>1, <1>2, <1>3, <1>4, <1>5, <1>6, <1>7, <1>8, <1>9, <1>10, <1>11, <1>12, <1>13, <1>14, <1>15, <1>16, <1>17, <1>18, <1>19, <1>20, <1>21, <1>22, <1>23
  DEF Next, Calls, LockSteps, FreeSteps, LaunchSteps

\* The inductive invariant holds of every configuration.
THEOREM IInvHolds == Spec => []IInv
<1>1. Init => IInv
  BY ConstantsOK DEF Init, IInv, TypeOK, ProcessState, Op, Step, MutexInv, KillInv, HandleInv,
     PlanInv, StateHasProcess, SoleTerminator, SuccessMeansGone, Launched, Gone
<1> QED
  BY <1>1, IInvStep, PTL DEF Spec

\* No two goroutines terminate the same process, and none terminates the current one.
THEOREM SoleTerminatorHolds == Spec => []SoleTerminator
  BY IInvHolds, PTL DEF IInv

\* A running worker has a process that a stop can take.
THEOREM RunningHasProcessHolds == Spec => []RunningHasProcess
<1>1. IInv => RunningHasProcess
  BY DEF IInv, StateHasProcess, RunningHasProcess
<1> QED
  BY <1>1, IInvHolds, PTL

\* A termination that reports success has outlived or killed its process.
THEOREM SuccessMeansGoneHolds == Spec => []SuccessMeansGone
  BY IInvHolds, PTL DEF IInv

-----------------------------------------------------------------------------
\* A step keeps the invariant of a sequential configuration.
LEMMA SeqCall ==
  ASSUME SeqInv, NEW t \in Thread, NEW o \in {"start", "stop", "restart"},
         NEW s \in {"startLock", "planStop", "gate"}, Call(t, o, s)
  PROVE  (OneTermination /\ StateInv /\ NoOrphan)'
<1> USE DEF SeqInv, IInv, TypeOK, Call, fields, system
<1>1. OneTermination'
  BY DEF OneTermination, Terminating, Spoiled
<1>2. StateInv' /\ NoOrphan'
  BY DEF StateInv, Spoiled, NoOrphan, Alive
<1> QED
  BY <1>1, <1>2

\* Without policy terminations, every step keeps the stronger invariant.
LEMMA SeqStep ==
  ASSUME Sequential
  PROVE  SeqInv /\ [Next]_vars => SeqInv'
<1> SUFFICES ASSUME SeqInv, [Next]_vars PROVE (OneTermination /\ StateInv /\ NoOrphan)'
  BY IInvStep DEF SeqInv
<1>0. TypeOK'
  BY TypeStep DEF SeqInv, IInv
<1> USE ConstantsOK, <1>0 DEF Sequential, SeqInv, IInv, TypeOK
<1> DEFINE Goal == OneTermination /\ StateInv /\ NoOrphan
<1>1. ASSUME NEW t \in Thread, Start(t) PROVE Goal'
  BY <1>1, SeqCall DEF Start
<1>2. ASSUME NEW t \in Thread, Stop(t) PROVE Goal'
  BY <1>2, SeqCall DEF Stop
<1>3. ASSUME NEW t \in Thread, Restart(t) PROVE Goal'
  BY <1>3, SeqCall DEF Restart
<1>4. ASSUME NEW t \in Thread, HealthRestart(t) PROVE Goal'
  BY <1>4, SeqCall DEF HealthRestart
<1>5. ASSUME NEW t \in Thread, HandleResourceViolation(t) PROVE Goal'
  BY <1>5, SeqCall DEF HandleResourceViolation
<1>6. ASSUME NEW t \in Thread, StartNilContext(t) PROVE Goal'
  BY <1>6 DEF StartNilContext, system, local, OneTermination, Terminating, Spoiled, StateInv, MutexInv, NoOrphan, Alive
<1>7. ASSUME NEW t \in Thread, planShutdown(t) PROVE FALSE
  BY <1>7 DEF planShutdown, OneTermination
<1>8. ASSUME NEW t \in Thread, planKill(t) PROVE FALSE
  BY <1>8 DEF planKill, KillInv, OneTermination
<1>9. ASSUME NEW t \in Thread, finalizeKill(t) PROVE FALSE
  BY <1>9 DEF finalizeKill, KillInv, OneTermination
<1>10. ASSUME NEW t \in Thread, validateAndPlanStop(t) PROVE Goal'
  <2>1. OneTermination'
    BY <1>10 DEF validateAndPlanStop, canStopFromState, TakeProcess, Continue, Return, GoTo, system, OneTermination, Terminating, Spoiled, StateInv
  <2>2. StateInv'
    BY <1>10 DEF validateAndPlanStop, canStopFromState, TakeProcess, Continue, Return, GoTo, system, StateInv, OneTermination, Terminating, Spoiled, MutexInv
  <2>3. NoOrphan'
    BY <1>10 DEF validateAndPlanStop, canStopFromState, TakeProcess, Continue, Return, GoTo, system, NoOrphan, Alive, HandleInv, Launched, Gone, SuccessMeansGone, OneTermination, Terminating, Spoiled, StateInv
  <2> QED
    BY <2>1, <2>2, <2>3
<1>11. ASSUME NEW t \in Thread, finalizeLock(t) PROVE Goal'
  <2>1. OneTermination'
    BY <1>11 DEF finalizeLock, Continue, GoTo, system, OneTermination, Terminating, Spoiled, StateInv
  <2>2. StateInv'
    BY <1>11 DEF finalizeLock, Continue, GoTo, system, StateInv, OneTermination, Terminating, Spoiled, MutexInv
  <2>3. NoOrphan'
    BY <1>11 DEF finalizeLock, Continue, GoTo, system, NoOrphan, Alive, HandleInv, Launched, Gone, SuccessMeansGone, OneTermination, Terminating, Spoiled, StateInv
  <2> QED
    BY <2>1, <2>2, <2>3
<1>12. ASSUME NEW t \in Thread, startLock(t) PROVE Goal'
  <2>1. OneTermination'
    BY <1>12 DEF startLock, canStartFromState, Continue, Return, GoTo, system, OneTermination, Terminating, Spoiled, StateInv
  <2>2. StateInv'
    BY <1>12 DEF startLock, canStartFromState, Continue, Return, GoTo, system, StateInv, OneTermination, Terminating, Spoiled, MutexInv
  <2>3. NoOrphan'
    BY <1>12 DEF startLock, canStartFromState, Continue, Return, GoTo, system, NoOrphan, Alive, HandleInv, Launched, Gone, SuccessMeansGone, OneTermination, Terminating, Spoiled, StateInv
  <2> QED
    BY <2>1, <2>2, <2>3
<1>13. ASSUME NEW t \in Thread, ExecuteRestart(t) PROVE Goal'
  <2>1. OneTermination'
    BY <1>13 DEF ExecuteRestart, Continue, Return, GoTo, fields, system, OneTermination, Terminating, Spoiled, StateInv
  <2>2. StateInv'
    BY <1>13 DEF ExecuteRestart, Continue, Return, GoTo, fields, system, StateInv, OneTermination, Terminating, Spoiled, MutexInv
  <2>3. NoOrphan'
    BY <1>13 DEF ExecuteRestart, Continue, Return, GoTo, fields, system, NoOrphan, Alive, HandleInv, Launched, Gone, SuccessMeansGone, OneTermination, Terminating, Spoiled, StateInv
  <2> QED
    BY <2>1, <2>2, <2>3
<1>14. ASSUME NEW t \in Thread, ReceiveDone(t) PROVE Goal'
  <2>1. OneTermination'
    BY <1>14 DEF ReceiveDone, Reaped, GoTo, fields, OneTermination, Terminating, Spoiled, StateInv
  <2>2. StateInv'
    BY <1>14 DEF ReceiveDone, Reaped, GoTo, fields, StateInv, OneTermination, Terminating, Spoiled, MutexInv
  <2>3. NoOrphan'
    BY <1>14 DEF ReceiveDone, Reaped, GoTo, fields, NoOrphan, Alive, HandleInv, Launched, Gone, SuccessMeansGone, OneTermination, Terminating, Spoiled, StateInv
  <2> QED
    BY <2>1, <2>2, <2>3
<1>15. ASSUME NEW t \in Thread, GraceTimeout(t) PROVE Goal'
  <2>1. OneTermination'
    BY <1>15 DEF GraceTimeout, Continue, GoTo, fields, system, OneTermination, Terminating, Spoiled, StateInv
  <2>2. StateInv'
    BY <1>15 DEF GraceTimeout, Continue, GoTo, fields, system, StateInv, OneTermination, Terminating, Spoiled, MutexInv
  <2>3. NoOrphan'
    BY <1>15 DEF GraceTimeout, Continue, GoTo, fields, system, NoOrphan, Alive, HandleInv, Launched, Gone, SuccessMeansGone, OneTermination, Terminating, Spoiled, StateInv
  <2> QED
    BY <2>1, <2>2, <2>3
<1>16. ASSUME NEW t \in Thread, Kill(t) PROVE Goal'
  <2>1. OneTermination'
    BY <1>16 DEF Kill, KillInv, Doom, GoTo, fields, OneTermination, Terminating, Spoiled, StateInv
  <2>2. StateInv'
    BY <1>16 DEF Kill, KillInv, Doom, GoTo, fields, StateInv, OneTermination, Terminating, Spoiled, MutexInv
  <2>3. NoOrphan'
    BY <1>16 DEF Kill, KillInv, Doom, GoTo, fields, NoOrphan, Alive, HandleInv, Launched, Gone, SuccessMeansGone, OneTermination, Terminating, Spoiled, StateInv
  <2> QED
    BY <2>1, <2>2, <2>3
<1>17. ASSUME NEW t \in Thread, ReapTimeout(t) PROVE Goal'
  <2>1. OneTermination'
    BY <1>17 DEF ReapTimeout, GoTo, fields, system, OneTermination, Terminating, Spoiled, StateInv
  <2>2. StateInv'
    BY <1>17 DEF ReapTimeout, GoTo, fields, system, StateInv, OneTermination, Terminating, Spoiled, MutexInv
  <2>3. NoOrphan'
    BY <1>17 DEF ReapTimeout, GoTo, fields, system, NoOrphan, Alive, HandleInv, Launched, Gone, SuccessMeansGone, OneTermination, Terminating, Spoiled, StateInv
  <2> QED
    BY <2>1, <2>2, <2>3
<1>18. ASSUME NEW t \in Thread, Cleanup(t) PROVE Goal'
  <2>1. OneTermination'
    BY <1>18 DEF Cleanup, cleanupResourcesUnderLock, Continue, Return, GoTo, system, OneTermination, Terminating, Spoiled, StateInv
  <2>2. StateInv'
    BY <1>18 DEF Cleanup, cleanupResourcesUnderLock, Continue, Return, GoTo, system, StateInv, OneTermination, Terminating, Spoiled, MutexInv
  <2>3. NoOrphan'
    BY <1>18 DEF Cleanup, cleanupResourcesUnderLock, Continue, Return, GoTo, system, NoOrphan, Alive, HandleInv, Launched, Gone, SuccessMeansGone, OneTermination, Terminating, Spoiled, StateInv
  <2> QED
    BY <2>1, <2>2, <2>3
<1>19. ASSUME NEW t \in Thread, LaunchFails(t) PROVE Goal'
  <2>1. OneTermination'
    BY <1>19 DEF LaunchFails, Spawnable, Attachable, Doom, Return, GoTo, OneTermination, Terminating, Spoiled, StateInv
  <2>2. StateInv'
    BY <1>19 DEF LaunchFails, Spawnable, Attachable, Doom, Return, GoTo, StateInv, OneTermination, Terminating, Spoiled, MutexInv
  <2>3. NoOrphan'
    BY <1>19 DEF LaunchFails, Spawnable, Attachable, Doom, Return, GoTo, NoOrphan, Alive, HandleInv, Launched, Gone, SuccessMeansGone, OneTermination, Terminating, Spoiled, StateInv
  <2> QED
    BY <2>1, <2>2, <2>3
<1>20. ASSUME NEW t \in Thread, Launch(t) PROVE Goal'
  <2>1. OneTermination'
    BY <1>20 DEF Launch, SetUp, Spawnable, Attachable, Return, GoTo, OneTermination, Terminating, Spoiled, StateInv
  <2>2. StateInv'
    BY <1>20 DEF Launch, SetUp, Spawnable, Attachable, Return, GoTo, StateInv, OneTermination, Terminating, Spoiled, MutexInv
  <2>3. NoOrphan'
    BY <1>20 DEF Launch, SetUp, Spawnable, Attachable, Return, GoTo, NoOrphan, Alive, HandleInv, Launched, Gone, SuccessMeansGone, OneTermination, Terminating, Spoiled, StateInv
  <2> QED
    BY <2>1, <2>2, <2>3
<1>21. ASSUME NEW p \in Proc, Exit(p) PROVE Goal'
  BY <1>21 DEF Exit, fields, local, OneTermination, Terminating, Spoiled, StateInv, NoOrphan, Alive
<1>22. ASSUME NEW h \in Handle, WaitReturns(h) PROVE Goal'
  BY <1>22 DEF WaitReturns, fields, local, OneTermination, Terminating, Spoiled, StateInv, NoOrphan, Alive
<1>23. CASE UNCHANGED vars
  BY <1>23 DEF vars, OneTermination, Terminating, Spoiled, StateInv, NoOrphan, Alive
<1> QED
  BY <1>1, <1>2, <1>3, <1>4, <1>5, <1>6, <1>7, <1>8, <1>9, <1>10, <1>11, <1>12, <1>13, <1>14, <1>15, <1>16, <1>17, <1>18, <1>19, <1>20, <1>21, <1>22, <1>23
  DEF Next, Calls, LockSteps, FreeSteps, LaunchSteps

\* Without policy terminations, the stronger invariant holds.
THEOREM SeqInvHolds ==
  ASSUME Sequential
  PROVE  Spec => []SeqInv
<1>1. Init => OneTermination /\ StateInv /\ NoOrphan
  BY ConstantsOK DEF Init, OneTermination, Terminating, Spoiled, StateInv, NoOrphan, Alive
<1>2. Init => IInv
  BY ConstantsOK DEF Init, IInv, TypeOK, ProcessState, Op, Step, MutexInv, KillInv, HandleInv,
     PlanInv, StateHasProcess, SoleTerminator, SuccessMeansGone, Launched, Gone
<1> QED
  BY <1>1, <1>2, SeqStep, PTL DEF Spec, SeqInv

\* Without policy terminations, every live process has somebody in charge of it.
THEOREM NoOrphanHolds ==
  ASSUME Sequential
  PROVE  Spec => []NoOrphan
  BY SeqInvHolds, PTL DEF SeqInv

\* Without policy terminations, the worker never has two processes but for a failed stop.
THEOREM OneInstanceHolds ==
  ASSUME Sequential
  PROVE  Spec => []OneInstance
<1>1. SeqInv => OneInstance
  <2> SUFFICES ASSUME SeqInv, NEW g \in Handle \ abandoned, NEW h \in Handle \ abandoned,
                      Alive(g), Alive(h)
               PROVE  g = h
    BY DEF OneInstance
  <2>1. /\ g = process \/ \E t \in Thread : plan[t] = g
        /\ h = process \/ \E t \in Thread : plan[t] = h
    BY DEF SeqInv, NoOrphan
  <2>2. \A t \in Thread : plan[t] # NoHandle => process = NoHandle
    BY DEF SeqInv, OneTermination, StateInv
  <2>3. \A t, u \in Thread : plan[t] # NoHandle /\ plan[u] # NoHandle => t = u
    BY DEF SeqInv, OneTermination
  <2> QED
    BY <2>1, <2>2, <2>3, ConstantsOK
<1> QED
  BY <1>1, SeqInvHolds, PTL

-----------------------------------------------------------------------------
\* What the fields say without immediate kills, which are the ones to clean up before they have
\* the process: whatever ends a process cleans up before it says idle.
FieldsInv ==
    /\ \A t \in Thread : op[t] # "kill"
    /\ \A t \in Thread : pc[t] = "launch" => state = "starting"
    /\ state \in {"idle", "starting"} => \A f \in Feature : res[f] = NoHandle
    /\ \A f \in Feature : live[f] \subseteq {res[f]}

\* Without immediate kills, every step keeps that.
LEMMA FieldsStep ==
  ASSUME "immediate_kill" \notin Callbacks
  PROVE  IInv /\ FieldsInv /\ [Next]_vars => FieldsInv'
<1> SUFFICES ASSUME IInv, FieldsInv, [Next]_vars PROVE FieldsInv'
  OBVIOUS
<1>0. TypeOK'
  BY TypeStep DEF IInv
<1> USE ConstantsOK, <1>0 DEF IInv, TypeOK, FieldsInv
<1>1. ASSUME NEW t \in Thread, Start(t) PROVE FieldsInv'
  BY <1>1 DEF Start, Call, fields, system
<1>2. ASSUME NEW t \in Thread, Stop(t) PROVE FieldsInv'
  BY <1>2 DEF Stop, Call, fields, system
<1>3. ASSUME NEW t \in Thread, Restart(t) PROVE FieldsInv'
  BY <1>3 DEF Restart, Call, fields, system
<1>4. ASSUME NEW t \in Thread, HealthRestart(t) PROVE FieldsInv'
  BY <1>4 DEF HealthRestart, Call, fields, system
<1>5. ASSUME NEW t \in Thread, HandleResourceViolation(t) PROVE FieldsInv'
  BY <1>5 DEF HandleResourceViolation, Call, fields, system
<1>6. ASSUME NEW t \in Thread, StartNilContext(t) PROVE FieldsInv'
  BY <1>6 DEF StartNilContext, system, local, MutexInv
<1>7. ASSUME NEW t \in Thread, planKill(t) PROVE FALSE
  BY <1>7 DEF planKill, KillInv
<1>8. ASSUME NEW t \in Thread, finalizeKill(t) PROVE FALSE
  BY <1>8 DEF finalizeKill, KillInv
<1>9. ASSUME NEW t \in Thread, validateAndPlanStop(t) PROVE FieldsInv'
  BY <1>9 DEF validateAndPlanStop, canStopFromState, TakeProcess, Continue, Return, GoTo, system, MutexInv, KillInv
<1>10. ASSUME NEW t \in Thread, planShutdown(t) PROVE FieldsInv'
  BY <1>10 DEF planShutdown, TakeProcess, Return, GoTo, system, MutexInv, KillInv
<1>11. ASSUME NEW t \in Thread, finalizeLock(t) PROVE FieldsInv'
  BY <1>11 DEF finalizeLock, Continue, GoTo, system, MutexInv, KillInv
<1>12. ASSUME NEW t \in Thread, startLock(t) PROVE FieldsInv'
  BY <1>12 DEF startLock, canStartFromState, Continue, Return, GoTo, system, MutexInv, KillInv
<1>13. ASSUME NEW t \in Thread, ExecuteRestart(t) PROVE FieldsInv'
  BY <1>13 DEF ExecuteRestart, Continue, Return, GoTo, fields, system, MutexInv, KillInv
<1>14. ASSUME NEW t \in Thread, ReceiveDone(t) PROVE FieldsInv'
  BY <1>14 DEF ReceiveDone, GoTo, fields, MutexInv, KillInv
<1>15. ASSUME NEW t \in Thread, GraceTimeout(t) PROVE FieldsInv'
  BY <1>15 DEF GraceTimeout, Continue, GoTo, fields, system, MutexInv, KillInv
<1>16. ASSUME NEW t \in Thread, Kill(t) PROVE FieldsInv'
  BY <1>16 DEF Kill, GoTo, fields, MutexInv, KillInv
<1>17. ASSUME NEW t \in Thread, ReapTimeout(t) PROVE FieldsInv'
  BY <1>17 DEF ReapTimeout, GoTo, fields, system, MutexInv, KillInv
<1>18. ASSUME NEW t \in Thread, Cleanup(t) PROVE FieldsInv'
  BY <1>18 DEF Cleanup, cleanupResourcesUnderLock, Continue, Return, GoTo, system, MutexInv, KillInv
<1>19. ASSUME NEW t \in Thread, LaunchFails(t) PROVE FieldsInv'
  BY <1>19 DEF LaunchFails, Return, GoTo, MutexInv, KillInv
<1>20. ASSUME NEW t \in Thread, Launch(t) PROVE FieldsInv'
  BY <1>20 DEF Launch, SetUp, Return, GoTo, MutexInv, KillInv
<1>21. ASSUME NEW p \in Proc, Exit(p) PROVE FieldsInv'
  BY <1>21 DEF Exit, fields, local
<1>22. ASSUME NEW h \in Handle, WaitReturns(h) PROVE FieldsInv'
  BY <1>22 DEF WaitReturns, fields, local
<1>23. CASE UNCHANGED vars
  BY <1>23 DEF vars
<1> QED
  BY <1>1, <1>2, <1>3, <1>4, <1>5, <1>6, <1>7, <1>8, <1>9, <1>10, <1>11, <1>12, <1>13, <1>14, <1>15, <1>16, <1>17, <1>18, <1>19, <1>20, <1>21, <1>22, <1>23
  DEF Next, Calls, LockSteps, FreeSteps, LaunchSteps

\* Without immediate kills, also when stops and graceful terminations overlap, a launch finds
\* nothing left of the last process.
THEOREM CleanBeforeStartHolds ==
  ASSUME "immediate_kill" \notin Callbacks
  PROVE  Spec => []CleanBeforeStart
<1>1. Init => FieldsInv
  BY ConstantsOK DEF Init, FieldsInv
<1>2. FieldsInv => CleanBeforeStart
  BY DEF FieldsInv, CleanBeforeStart
<1> QED
  BY <1>1, <1>2, FieldsStep, IInvHolds, PTL DEF Spec

-----------------------------------------------------------------------------
\* What the done channel of a child says: it is waited for from its launch on, its wait never
\* fails, and it returns at the exit.
WaitInv ==
    \A h \in Handle \ attached :
        /\ done[h] # "error"
        /\ Launched(h) => done[h] # "unused"
        /\ done[h] \in {"exit", "taken"} => Gone(h)

\* A child is left to the cleanup dead or told to die.
DoomInv ==
    \A t \in Thread :
        plan[t] \in Handle \ attached /\ pc[t] \in {"reap", "finalize", "cleanup"}
            => os[of[plan[t]]] \in {"doomed", "dead"}

\* What the fields refer to belongs to the current process or to the one being terminated.
ReaderInv ==
    /\ process # NoHandle => \A f \in Feature : res[f] \in {NoHandle, process}
    /\ \A t \in Thread : Terminating(t) => \A f \in Feature : res[f] \in {NoHandle, plan[t]}

\* A call only picks its first step.
LEMMA DoomCall ==
  ASSUME SeqInv, WaitInv, DoomInv, ReaderInv, NEW t \in Thread, NEW o \in {"start", "stop", "restart"},
         NEW s \in {"startLock", "planStop", "gate"}, Call(t, o, s)
  PROVE  (WaitInv /\ DoomInv /\ ReaderInv)'
  BY DEF SeqInv, IInv, TypeOK, Call, fields, system, WaitInv, DoomInv, ReaderInv, Launched, Gone, Terminating

\* Without policy terminations, every step keeps these three.
LEMMA DoomStep ==
  ASSUME Sequential
  PROVE  SeqInv /\ WaitInv /\ DoomInv /\ ReaderInv /\ [Next]_vars => (WaitInv /\ DoomInv /\ ReaderInv)'
<1> SUFFICES ASSUME SeqInv, WaitInv, DoomInv, ReaderInv, [Next]_vars
             PROVE  (WaitInv /\ DoomInv /\ ReaderInv)'
  OBVIOUS
<1>0. TypeOK'
  BY TypeStep DEF SeqInv, IInv
<1> USE ConstantsOK, <1>0 DEF Sequential, SeqInv, IInv, TypeOK
<1> DEFINE Goal == WaitInv /\ DoomInv /\ ReaderInv
<1>1. ASSUME NEW t \in Thread, Start(t) PROVE Goal'
  BY <1>1, DoomCall DEF Start
<1>2. ASSUME NEW t \in Thread, Stop(t) PROVE Goal'
  BY <1>2, DoomCall DEF Stop
<1>3. ASSUME NEW t \in Thread, Restart(t) PROVE Goal'
  BY <1>3, DoomCall DEF Restart
<1>4. ASSUME NEW t \in Thread, HealthRestart(t) PROVE Goal'
  BY <1>4, DoomCall DEF HealthRestart
<1>5. ASSUME NEW t \in Thread, HandleResourceViolation(t) PROVE Goal'
  BY <1>5, DoomCall DEF HandleResourceViolation
<1>6. ASSUME NEW t \in Thread, StartNilContext(t) PROVE Goal'
  BY <1>6 DEF StartNilContext, system, local, WaitInv, DoomInv, ReaderInv, Launched, Gone, Terminating
<1>7. ASSUME NEW t \in Thread, planShutdown(t) PROVE FALSE
  BY <1>7 DEF planShutdown, OneTermination
<1>8. ASSUME NEW t \in Thread, planKill(t) PROVE FALSE
  BY <1>8 DEF planKill, KillInv, OneTermination
<1>9. ASSUME NEW t \in Thread, finalizeKill(t) PROVE FALSE
  BY <1>9 DEF finalizeKill, KillInv, OneTermination
<1>10. ASSUME NEW t \in Thread, validateAndPlanStop(t) PROVE Goal'
  <2>1. WaitInv'
    BY <1>10 DEF validateAndPlanStop, canStopFromState, TakeProcess, Continue, Return, GoTo, system, WaitInv, HandleInv, PlanInv, Launched, Gone
  <2>2. DoomInv'
    BY <1>10 DEF validateAndPlanStop, canStopFromState, TakeProcess, Continue, Return, GoTo, system, WaitInv, DoomInv, HandleInv, PlanInv, KillInv, OneTermination, Terminating, Launched, Gone
  <2>3. ReaderInv'
    BY <1>10 DEF validateAndPlanStop, canStopFromState, TakeProcess, Continue, Return, GoTo, system, ReaderInv, StateInv, OneTermination, Terminating, Spoiled
  <2> QED
    BY <2>1, <2>2, <2>3
<1>11. ASSUME NEW t \in Thread, finalizeLock(t) PROVE Goal'
  <2>1. WaitInv'
    BY <1>11 DEF finalizeLock, Continue, GoTo, system, WaitInv, HandleInv, PlanInv, Launched, Gone
  <2>2. DoomInv'
    BY <1>11 DEF finalizeLock, Continue, GoTo, system, WaitInv, DoomInv, HandleInv, PlanInv, KillInv, OneTermination, Terminating, Launched, Gone
  <2>3. ReaderInv'
    BY <1>11 DEF finalizeLock, Continue, GoTo, system, ReaderInv, StateInv, OneTermination, Terminating, Spoiled
  <2> QED
    BY <2>1, <2>2, <2>3
<1>12. ASSUME NEW t \in Thread, startLock(t) PROVE Goal'
  <2>1. WaitInv'
    BY <1>12 DEF startLock, Continue, Return, GoTo, system, WaitInv, HandleInv, PlanInv, Launched, Gone
  <2>2. DoomInv'
    BY <1>12 DEF startLock, Continue, Return, GoTo, system, WaitInv, DoomInv, HandleInv, PlanInv, KillInv, OneTermination, Terminating, Launched, Gone
  <2>3. ReaderInv'
    BY <1>12 DEF startLock, Continue, Return, GoTo, system, ReaderInv, StateInv, OneTermination, Terminating, Spoiled
  <2> QED
    BY <2>1, <2>2, <2>3
<1>13. ASSUME NEW t \in Thread, ExecuteRestart(t) PROVE Goal'
  <2>1. WaitInv'
    BY <1>13 DEF ExecuteRestart, Continue, Return, GoTo, fields, system, WaitInv, HandleInv, PlanInv, Launched, Gone
  <2>2. DoomInv'
    BY <1>13 DEF ExecuteRestart, Continue, Return, GoTo, fields, system, WaitInv, DoomInv, HandleInv, PlanInv, KillInv, OneTermination, Terminating, Launched, Gone
  <2>3. ReaderInv'
    BY <1>13 DEF ExecuteRestart, Continue, Return, GoTo, fields, system, ReaderInv, StateInv, OneTermination, Terminating, Spoiled
  <2> QED
    BY <2>1, <2>2, <2>3
<1>14. ASSUME NEW t \in Thread, ReceiveDone(t) PROVE Goal'
  <2>1. WaitInv'
    BY <1>14 DEF ReceiveDone, Reaped, GoTo, fields, WaitInv, HandleInv, PlanInv, Launched, Gone
  <2>2. DoomInv'
    BY <1>14 DEF ReceiveDone, Reaped, GoTo, fields, WaitInv, DoomInv, HandleInv, PlanInv, KillInv, OneTermination, Terminating, Launched, Gone
  <2>3. ReaderInv'
    BY <1>14 DEF ReceiveDone, Reaped, GoTo, fields, ReaderInv, StateInv, OneTermination, Terminating, Spoiled
  <2> QED
    BY <2>1, <2>2, <2>3
<1>15. ASSUME NEW t \in Thread, GraceTimeout(t) PROVE Goal'
  <2>1. WaitInv'
    BY <1>15 DEF GraceTimeout, Continue, GoTo, fields, system, WaitInv, HandleInv, PlanInv, Launched, Gone
  <2>2. DoomInv'
    BY <1>15 DEF GraceTimeout, Continue, GoTo, fields, system, WaitInv, DoomInv, HandleInv, PlanInv, KillInv, OneTermination, Terminating, Launched, Gone
  <2>3. ReaderInv'
    BY <1>15 DEF GraceTimeout, Continue, GoTo, fields, system, ReaderInv, StateInv, OneTermination, Terminating, Spoiled
  <2> QED
    BY <2>1, <2>2, <2>3
<1>16. ASSUME NEW t \in Thread, Kill(t) PROVE Goal'
  <2>1. WaitInv'
    BY <1>16 DEF Kill, CanKill, KillFails, Doom, GoTo, fields, WaitInv, HandleInv, PlanInv, Launched, Gone
  <2>2. DoomInv'
    BY <1>16 DEF Kill, CanKill, KillFails, Doom, GoTo, fields, WaitInv, DoomInv, HandleInv, PlanInv, KillInv, OneTermination, Terminating, Launched, Gone
  <2>3. ReaderInv'
    BY <1>16 DEF Kill, CanKill, KillFails, Doom, GoTo, fields, ReaderInv, StateInv, OneTermination, Terminating, Spoiled
  <2> QED
    BY <2>1, <2>2, <2>3
<1>17. ASSUME NEW t \in Thread, ReapTimeout(t) PROVE Goal'
  <2>1. WaitInv'
    BY <1>17 DEF ReapTimeout, GoTo, fields, system, WaitInv, HandleInv, PlanInv, Launched, Gone
  <2>2. DoomInv'
    BY <1>17 DEF ReapTimeout, GoTo, fields, system, WaitInv, DoomInv, HandleInv, PlanInv, KillInv, OneTermination, Terminating, Launched, Gone
  <2>3. ReaderInv'
    BY <1>17 DEF ReapTimeout, GoTo, fields, system, ReaderInv, StateInv, OneTermination, Terminating, Spoiled
  <2> QED
    BY <2>1, <2>2, <2>3
<1>18. ASSUME NEW t \in Thread, Cleanup(t) PROVE Goal'
  <2>1. WaitInv'
    BY <1>18 DEF Cleanup, cleanupResourcesUnderLock, Continue, Return, GoTo, system, WaitInv, HandleInv, PlanInv, Launched, Gone
  <2>2. DoomInv'
    BY <1>18 DEF Cleanup, cleanupResourcesUnderLock, Continue, Return, GoTo, system, WaitInv, DoomInv, HandleInv, PlanInv, KillInv, OneTermination, Terminating, Launched, Gone
  <2>3. ReaderInv'
    BY <1>18 DEF Cleanup, cleanupResourcesUnderLock, Continue, Return, GoTo, system, ReaderInv, StateInv, OneTermination, Terminating, Spoiled
  <2> QED
    BY <2>1, <2>2, <2>3
<1>19. ASSUME NEW t \in Thread, LaunchFails(t) PROVE Goal'
  <2>1. WaitInv'
    BY <1>19 DEF LaunchFails, Spawnable, Attachable, Doom, Return, GoTo, WaitInv, HandleInv, PlanInv, Launched, Gone
  <2>2. DoomInv'
    BY <1>19 DEF LaunchFails, Spawnable, Attachable, Doom, Return, GoTo, WaitInv, DoomInv, HandleInv, PlanInv, KillInv, OneTermination, Terminating, Launched, Gone
  <2>3. ReaderInv'
    BY <1>19 DEF LaunchFails, Spawnable, Attachable, Doom, Return, GoTo, ReaderInv, StateInv, OneTermination, Terminating, Spoiled
  <2> QED
    BY <2>1, <2>2, <2>3
<1>20. ASSUME NEW t \in Thread, Launch(t) PROVE Goal'
  <2>1. WaitInv'
    BY <1>20 DEF Launch, SetUp, Spawnable, Attachable, Return, GoTo, WaitInv, HandleInv, PlanInv, Launched, Gone
  <2>2. DoomInv'
    BY <1>20 DEF Launch, SetUp, Spawnable, Attachable, Return, GoTo, WaitInv, DoomInv, HandleInv, PlanInv, KillInv, OneTermination, Terminating, Launched, Gone
  <2>3. ReaderInv'
    BY <1>20 DEF Launch, SetUp, Spawnable, Attachable, Return, GoTo, ReaderInv, StateInv, OneTermination, Terminating, Spoiled
  <2> QED
    BY <2>1, <2>2, <2>3
<1>21. ASSUME NEW p \in Proc, Exit(p) PROVE Goal'
  BY <1>21 DEF Exit, fields, local, WaitInv, DoomInv, ReaderInv, Launched, Gone, Terminating
<1>22. ASSUME NEW h \in Handle, WaitReturns(h) PROVE Goal'
  BY <1>22 DEF WaitReturns, fields, local, WaitInv, DoomInv, ReaderInv, Launched, Gone, Terminating
<1>23. CASE UNCHANGED vars
  BY <1>23 DEF vars, WaitInv, DoomInv, ReaderInv, Launched, Gone, Terminating
<1> QED
  BY <1>1, <1>2, <1>3, <1>4, <1>5, <1>6, <1>7, <1>8, <1>9, <1>10, <1>11, <1>12, <1>13, <1>14, <1>15, <1>16, <1>17, <1>18, <1>19, <1>20, <1>21, <1>22, <1>23
  DEF Next, Calls, LockSteps, FreeSteps, LaunchSteps

\* Without policy terminations, a cleanup waits for the log reader of a dying process only.
THEOREM WaitsForDoomedHolds ==
  ASSUME Sequential
  PROVE  Spec => []WaitsForDoomed
<1>1. Init => WaitInv /\ DoomInv /\ ReaderInv
  BY ConstantsOK DEF Init, WaitInv, DoomInv, ReaderInv, Launched, Gone, Terminating
<1>2. SeqInv /\ DoomInv /\ ReaderInv => WaitsForDoomed
  <2> SUFFICES ASSUME SeqInv, DoomInv, ReaderInv, NEW t \in Thread, pc[t] = "cleanup",
                      NEW h \in Handle \ attached,
                      "log" \in Feature, res["log"] = h, ~Gone(h)
               PROVE  os[of[h]] = "doomed"
    BY DEF WaitsForDoomed, LogReaderBlocked
  <2>1. plan[t] = h
    BY ConstantsOK DEF ReaderInv, Terminating
  <2> QED
    BY <2>1 DEF DoomInv, Gone
<1> QED
  BY <1>1, <1>2, DoomStep, SeqInvHolds, PTL DEF Spec

-----------------------------------------------------------------------------
\* The instance in charge of the abstract lifecycle, without the choice in its definition.
InstanceFacts ==
    /\ process # NoHandle => Instance = process
    /\ \A t \in Thread : plan[t] # NoHandle => Instance = plan[t]
    /\ process = NoHandle /\ (\A t \in Thread : plan[t] = NoHandle) => Instance = NoHandle

\* Under the stronger invariant, the instance in charge is determined by the state.
LEMMA InstanceIs == SeqInv => InstanceFacts
<1> SUFFICES ASSUME SeqInv PROVE InstanceFacts
  OBVIOUS
<1>1. \A t, u \in Thread : plan[t] # NoHandle /\ plan[u] # NoHandle => t = u
  BY DEF SeqInv, OneTermination
<1>2. \A t \in Thread : plan[t] # NoHandle => process = NoHandle
  BY DEF SeqInv, OneTermination, StateInv, Spoiled
<1>3. ASSUME NEW t \in Thread, plan[t] # NoHandle
      PROVE  Instance = plan[t]
  <2>1. t = CHOOSE u \in Thread : plan[u] # NoHandle
    BY <1>1, <1>3
  <2> QED
    BY <1>2, <1>3, <2>1 DEF Instance
<1> QED
  BY <1>3 DEF Instance, InstanceFacts

past == {h \in Handle : of[h] # NoProc}

abstract == <<state, Instance, past>>

\* A step that leaves the record, the plans and the launches alone is a stutter.
LEMMA Stutters ==
  ASSUME UNCHANGED <<state, process, plan, of>>
  PROVE  UNCHANGED abstract
  BY DEF abstract, Instance, past

\* Every step maps to a step of the lifecycle or to none.
LEMMA LifecycleStep ==
  ASSUME Sequential, ~NilContext
  PROVE  SeqInv /\ SeqInv' /\ [Next]_vars => [Lifecycle!Next]_abstract
<1> SUFFICES ASSUME SeqInv, SeqInv', [Next]_vars PROVE [Lifecycle!Next]_abstract
  OBVIOUS
<1>0. InstanceFacts /\ InstanceFacts'
  BY InstanceIs, PTL
<1> USE ConstantsOK DEF Sequential, Spoiled, SeqInv, IInv, TypeOK
<1> DEFINE Goal == [Lifecycle!Next]_abstract
<1>1. ASSUME NEW t \in Thread, Start(t) PROVE Goal
  BY <1>1, Stutters DEF Start, Call, fields, system
<1>2. ASSUME NEW t \in Thread, Stop(t) PROVE Goal
  BY <1>2, Stutters DEF Stop, Call, fields, system
<1>3. ASSUME NEW t \in Thread, Restart(t) PROVE Goal
  BY <1>3, Stutters DEF Restart, Call, fields, system
<1>4. ASSUME NEW t \in Thread, HealthRestart(t) PROVE Goal
  BY <1>4, Stutters DEF HealthRestart, Call, fields, system
<1>5. ASSUME NEW t \in Thread, HandleResourceViolation(t) PROVE Goal
  BY <1>5, Stutters DEF HandleResourceViolation, Call, fields, system
<1>6. ASSUME NEW t \in Thread, StartNilContext(t) PROVE FALSE
  BY <1>6 DEF StartNilContext
<1>7. ASSUME NEW t \in Thread, planShutdown(t) PROVE FALSE
  BY <1>7 DEF planShutdown, OneTermination
<1>8. ASSUME NEW t \in Thread, planKill(t) PROVE FALSE
  BY <1>8 DEF planKill, KillInv, OneTermination
<1>9. ASSUME NEW t \in Thread, finalizeKill(t) PROVE FALSE
  BY <1>9 DEF finalizeKill, KillInv, OneTermination
<1>10. ASSUME NEW t \in Thread, finalizeLock(t) PROVE Goal
  BY <1>10, Stutters DEF finalizeLock, Continue, system
<1>11. ASSUME NEW t \in Thread, ExecuteRestart(t) PROVE Goal
  BY <1>11, Stutters DEF ExecuteRestart, Continue, Return, GoTo, fields, system, OneTermination, Terminating
<1>12. ASSUME NEW t \in Thread, ReceiveDone(t) PROVE Goal
  BY <1>12, Stutters DEF ReceiveDone, fields
<1>13. ASSUME NEW t \in Thread, GraceTimeout(t) PROVE Goal
  BY <1>13, Stutters DEF GraceTimeout, Continue, fields, system
<1>14. ASSUME NEW t \in Thread, Kill(t) PROVE Goal
  BY <1>14, Stutters DEF Kill, fields
<1>15. ASSUME NEW t \in Thread, ReapTimeout(t) PROVE Goal
  BY <1>15, Stutters DEF ReapTimeout, fields, system
<1>16. ASSUME NEW t \in Thread, validateAndPlanStop(t) PROVE Goal
  <2>1. plan[t] = NoHandle
    BY <1>16 DEF validateAndPlanStop, OneTermination, Terminating
  <2>2. CASE TakeProcess(t)
    <3>1. /\ state = "running" /\ state' = "stopping"
          /\ process # NoHandle
          /\ plan'[t] = process
          /\ UNCHANGED of
      BY <1>16, <2>2 DEF validateAndPlanStop, canStopFromState, TakeProcess, StateInv,
           OneTermination, Terminating, GoTo, system
    <3>2. Instance' = Instance
      BY <3>1, <1>0 DEF InstanceFacts
    <3>3. UNCHANGED past
      BY <3>1 DEF past
    <3> QED
      BY <3>1, <3>2, <3>3 DEF Lifecycle!Next, Lifecycle!BeginStop, Lifecycle!States!BeginStop,
       Lifecycle!States!Trans, past
  <2>3. CASE ~TakeProcess(t)
    BY <1>16, <2>1, <2>3, Stutters DEF validateAndPlanStop, Continue, Return, GoTo, system
  <2> QED
    BY <2>2, <2>3
<1>17. ASSUME NEW t \in Thread, Cleanup(t) PROVE Goal
  <2>1. /\ state = "stopping" /\ state' = "idle"
        /\ process = NoHandle /\ process' = NoHandle
        /\ UNCHANGED of
    BY <1>17 DEF Cleanup, OneTermination, Terminating, StateInv, Return, system
  <2>2. \A u \in Thread : plan'[u] = NoHandle
    BY <2>1 DEF OneTermination
  <2>3. Instance' = NoHandle
    BY <2>1, <2>2, <1>0 DEF InstanceFacts
  <2>4. UNCHANGED past
    BY <2>1 DEF past
  <2> QED
    BY <2>1, <2>3, <2>4 DEF Lifecycle!Next, Lifecycle!Stopped, Lifecycle!States!Stopped,
       Lifecycle!States!Trans, past
<1>18. ASSUME NEW t \in Thread, startLock(t) PROVE Goal
  <2>1. UNCHANGED <<process, plan, of>>
    BY <1>18 DEF startLock, Continue, Return, GoTo, system, OneTermination, Terminating
  <2>2. UNCHANGED <<Instance, past>>
    BY <2>1 DEF Instance, past
  <2>3. (state = "idle" /\ state' = "starting") \/ UNCHANGED state
    BY <1>18 DEF startLock, canStartFromState
  <2> QED
    BY <2>2, <2>3 DEF abstract, Lifecycle!Next, Lifecycle!BeginStart, Lifecycle!States!BeginStart,
       Lifecycle!States!Trans, past
<1>19. ASSUME NEW t \in Thread, LaunchFails(t) PROVE Goal
  <2>1. UNCHANGED <<process, plan, of>>
    BY <1>19 DEF LaunchFails, Return, GoTo, OneTermination, Terminating
  <2>2. UNCHANGED <<Instance, past>>
    BY <2>1 DEF Instance, past
  <2>3. state = "starting" /\ state' = "failed_start"
    BY <1>19 DEF LaunchFails, StateInv
  <2> QED
    BY <2>2, <2>3 DEF Lifecycle!Next, Lifecycle!StartFailed, Lifecycle!States!StartFailed,
       Lifecycle!States!Trans, past
<1>20. ASSUME NEW t \in Thread, Launch(t) PROVE Goal
  <2>1. PICK h \in Handle, p \in Proc :
          of[h] = NoProc /\ of' = [of EXCEPT ![h] = p] /\ process' = h
    BY <1>20 DEF Launch
  <2>2. state = "starting" /\ state' = "running"
    BY <1>20 DEF Launch, StateInv
  <2>3. process' # NoHandle /\ Instance' = h
    BY <2>1, <1>0 DEF InstanceFacts
  <2>4. h \notin past /\ past' = past \cup {h}
    BY <2>1 DEF past
  <2> QED
    BY <2>2, <2>3, <2>4 DEF Lifecycle!Next, Lifecycle!Started, Lifecycle!States!Started,
       Lifecycle!States!Trans, past
<1>21. ASSUME NEW p \in Proc, Exit(p) PROVE Goal
  BY <1>21, Stutters DEF Exit, fields, local
<1>22. ASSUME NEW h \in Handle, WaitReturns(h) PROVE Goal
  BY <1>22, Stutters DEF WaitReturns, fields, local
<1>23. CASE UNCHANGED vars
  BY <1>23, Stutters DEF vars
<1> QED
  BY <1>1, <1>2, <1>3, <1>4, <1>5, <1>6, <1>7, <1>8, <1>9, <1>10, <1>11, <1>12, <1>13, <1>14, <1>15, <1>16, <1>17, <1>18, <1>19, <1>20, <1>21, <1>22, <1>23
  DEF Next, Calls, LockSteps, FreeSteps, LaunchSteps

\* Without policy terminations and nil contexts, the process control implements the abstract lifecycle: one
\* instance after another, each launched from idle and given up by a stop.
THEOREM LifecycleImplemented ==
  ASSUME Sequential, ~NilContext
  PROVE  Spec => OneAfterAnother
<1>1. Init => Lifecycle!Init
  BY ConstantsOK DEF Init, Lifecycle!Init, Lifecycle!States!Init, Instance
<1>2. SeqInv /\ SeqInv' /\ [Next]_vars => [Lifecycle!Next]_(Lifecycle!vars)
  BY LifecycleStep DEF Lifecycle!vars, abstract, past
<1> QED
  BY <1>1, <1>2, SeqInvHolds, PTL DEF Spec, OneAfterAnother, Lifecycle!Spec
====
