---------------------------- MODULE MasterProofs ----------------------------
(***************************************************************************)
(* Theorems about Master, for any number of clients, IDs and registrations *)
(* and any choice of the configurations that restart by policy.            *)
(***************************************************************************)
EXTENDS Master, TLAPS

\* A goroutine in the middle of an operation has read an entry; only the runner stops the master.
LocalInv ==
    /\ \A c \in Client : pc[c] # "ready" => entry[c] \in Entry
    /\ \A c \in Client : pc[c] \notin {"copyWorkers", "stopNext"}
    /\ pc[Runner] \in {"ready", "copyWorkers", "stopNext", "pcStop", "planStop", "waitStop"}
    /\ pc[Runner] \in {"pcStop", "planStop", "waitStop"} => entry[Runner] \in Entry

OpInv == TypeOK /\ LocalInv /\ OneOperation

HasProcess(e) == control[e] \in {"starting", "running"}

\* Without restarts by policy, a process control that launches does so for a client, and one
\* that an operation is about to launch, or is done with, has no process.
ControlInv ==
    \A e \in Entry : restart[e] = "off" =>
        /\ control[e] = "starting" => \E c \in Client : entry[c] = e /\ pc[c] = "launching"
        /\ \A c \in Client :
              entry[c] = e /\ pc[c] \in {"pcStart", "startFailed", "toStopped", "stopFailed"} =>
                  ~HasProcess(e)

\* Nor does the control of a worker that may be removed have one.
RemovableInv ==
    \A e \in Entry : restart[e] = "off" /\ isWorkerSafelyRemovable(wstate[e]) => ~HasProcess(e)

IInv == OpInv /\ ControlInv /\ RemovableInv

-----------------------------------------------------------------------------

\* Every step of the master keeps the types.
LEMMA TypeStep == TypeOK /\ LocalInv /\ [Next]_vars => TypeOK'
<1> SUFFICES ASSUME TypeOK, LocalInv, [Next]_vars PROVE TypeOK'
  OBVIOUS
<1> USE ConstantsOK DEF TypeOK, Actor, MasterState, WorkerState, ControlState, Step, StartStep, StopStep,
             process, GetsProcess, MayLeave, LosesProcess, Reports
<1>1. ASSUME NEW c \in Client, AddWorker(c) PROVE TypeOK'
  BY <1>1 DEF AddWorker, local
<1>2. ASSUME NEW c \in Client, RemoveWorker(c) PROVE TypeOK'
  BY <1>2 DEF RemoveWorker, Lookup, GoTo, worker
<1>3. ASSUME NEW c \in Client, StartWorker(c) PROVE TypeOK'
  BY <1>3 DEF StartWorker, Lookup, GoTo, worker
<1>4. ASSUME NEW c \in Client, StopWorker(c) PROVE TypeOK'
  BY <1>4 DEF StopWorker, Lookup, GoTo, worker
<1>5. ASSUME NEW c \in Client, CheckRemovable(c) PROVE TypeOK'
  BY <1>5 DEF CheckRemovable, Continue, Return, GoTo, worker
<1>6. ASSUME NEW c \in Client, Delete(c) PROVE TypeOK'
  BY <1>6 DEF Delete, Return, GoTo
<1>7. ASSUME NEW c \in Client, ValidateStart(c) PROVE TypeOK'
  BY <1>7 DEF ValidateStart, Continue, Return, GoTo, worker
<1>8. ASSUME NEW c \in Client, ToStarting(c) PROVE TypeOK'
  BY <1>8 DEF ToStarting, Transition, CanTransition, validTransitions, Continue, Return, GoTo, worker
<1>9. ASSUME NEW c \in Client, PcStart(c) PROVE TypeOK'
  BY <1>9 DEF PcStart, Continue, Return, GoTo, worker
<1>10. ASSUME NEW c \in Client, PcStarted(c) PROVE TypeOK'
  <2>1. entry[c] \in Entry
    BY <1>10 DEF LocalInv, PcStarted, StartFailed, StopFailed, Finish
  <2> QED BY <1>10, <2>1 DEF PcStarted, Continue, Return, GoTo, worker
<1>11. ASSUME NEW c \in Client, ToRunning(c) PROVE TypeOK'
  BY <1>11 DEF ToRunning, Finish, Transition, CanTransition, validTransitions, Continue, Return, GoTo, worker
<1>12. ASSUME NEW c \in Client, StartFailed(c) PROVE TypeOK'
  <2>1. entry[c] \in Entry
    BY <1>12 DEF LocalInv, PcStarted, StartFailed, StopFailed, Finish
  <2> QED BY <1>12, <2>1 DEF StartFailed, Finish, Transition, CanTransition, validTransitions, Continue, Return, GoTo, worker
<1>13. ASSUME NEW c \in Client, ValidateStop(c) PROVE TypeOK'
  BY <1>13 DEF ValidateStop, Continue, Return, GoTo, worker
<1>14. ASSUME NEW c \in Client, ToStopping(c) PROVE TypeOK'
  BY <1>14 DEF ToStopping, Transition, CanTransition, validTransitions, Continue, Return, GoTo, worker
<1>15. ASSUME NEW c \in Client, ToStopped(c) PROVE TypeOK'
  BY <1>15 DEF ToStopped, Finish, Transition, CanTransition, validTransitions, Continue, Return, GoTo, worker
<1>16. ASSUME NEW c \in Client, StopFailed(c) PROVE TypeOK'
  <2>1. entry[c] \in Entry
    BY <1>16 DEF LocalInv, PcStarted, StartFailed, StopFailed, Finish
  <2> QED BY <1>16, <2>1 DEF StopFailed, Finish, Transition, CanTransition, validTransitions, Continue, Return, GoTo, worker
<1>17. ASSUME NEW a \in Actor, PcStop(a) PROVE TypeOK'
  <2>1. entry[a] \in Entry
    BY <1>17 DEF LocalInv, PcStop, PlanStop, WaitStop
  <2> QED BY <1>17, <2>1 DEF PcStop, Stopped, Done, Continue, Return, GoTo, worker
<1>18. ASSUME NEW a \in Actor, PlanStop(a) PROVE TypeOK'
  <2>1. entry[a] \in Entry
    BY <1>18 DEF LocalInv, PcStop, PlanStop, WaitStop
  <2> QED BY <1>18, <2>1 DEF PlanStop, Stopped, Done, Continue, Return, GoTo, worker
<1>19. ASSUME NEW a \in Actor, WaitStop(a) PROVE TypeOK'
  <2>1. entry[a] \in Entry
    BY <1>19 DEF LocalInv, PcStop, PlanStop, WaitStop
  <2> QED BY <1>19, <2>1 DEF WaitStop, Stopped, Done, Continue, Return, GoTo, worker
<1>20. ASSUME NEW e \in Entry, RequestRestart(e) PROVE TypeOK'
  BY <1>20 DEF RequestRestart, RestartGoTo, worker, local
<1>21. ASSUME NEW e \in Entry, RestartStop(e) PROVE TypeOK'
  BY <1>21 DEF RestartStop, RestartGoTo, worker, local
<1>22. ASSUME NEW e \in Entry, RestartStopped(e) PROVE TypeOK'
  BY <1>22 DEF RestartStopped, RestartGoTo, worker, local
<1>23. ASSUME NEW e \in Entry, RestartStart(e) PROVE TypeOK'
  BY <1>23 DEF RestartStart, RestartGoTo, worker, local
<1>24. ASSUME NEW e \in Entry, RestartStarted(e) PROVE TypeOK'
  BY <1>24 DEF RestartStarted, RestartGoTo, worker, local
<1>25. ASSUME Start PROVE TypeOK'
  BY <1>25 DEF Start, local
<1>26. ASSUME Stop PROVE TypeOK'
  BY <1>26 DEF Stop, Continue, Return, GoTo, worker
<1>27. ASSUME CopyWorkers PROVE TypeOK'
  BY <1>27 DEF CopyWorkers, Continue, Return, GoTo, worker
<1>28. ASSUME StopNext PROVE TypeOK'
  BY <1>28 DEF StopNext, Continue, Return, GoTo, worker
<1>29. CASE UNCHANGED vars
  BY <1>29 DEF vars, worker, local
<1>30. ASSUME NEW e \in Entry, ProcessExits(e) PROVE TypeOK'
  BY <1>30 DEF ProcessExits, worker, local
<1> QED
  BY <1>1, <1>2, <1>3, <1>4, <1>5, <1>6, <1>7, <1>8, <1>9, <1>10, <1>11, <1>12, <1>13, <1>14, <1>15, <1>16, <1>17, <1>18, <1>19, <1>20, <1>21, <1>22, <1>23, <1>24, <1>25, <1>26, <1>27, <1>28, <1>29, <1>30
  DEF Next, Operate, ClientStep, StopProcess, RestartStep

\* Every step keeps what relates the goroutines to the worker states.
LEMMA OpStep == OpInv /\ [Next]_vars => OpInv'
<1> SUFFICES ASSUME OpInv, [Next]_vars PROVE (LocalInv /\ OneOperation)'
  BY TypeStep DEF OpInv
<1>0. TypeOK'
  BY TypeStep DEF OpInv
<1> USE ConstantsOK, <1>0 DEF OpInv, TypeOK, Actor,
             process, GetsProcess, MayLeave, LosesProcess, Reports
<1> DEFINE Goal == LocalInv /\ OneOperation
<1>1. ASSUME NEW c \in Client, AddWorker(c) PROVE Goal'
  BY <1>1 DEF AddWorker, local, LocalInv, OneOperation, Operating, StartStep, StopStep
<1>2. ASSUME NEW c \in Client, RemoveWorker(c) PROVE Goal'
  BY <1>2 DEF RemoveWorker, Lookup, GoTo, worker, LocalInv, OneOperation, Operating, StartStep, StopStep
<1>3. ASSUME NEW c \in Client, StartWorker(c) PROVE Goal'
  BY <1>3 DEF StartWorker, Lookup, GoTo, worker, LocalInv, OneOperation, Operating, StartStep, StopStep
<1>4. ASSUME NEW c \in Client, StopWorker(c) PROVE Goal'
  BY <1>4 DEF StopWorker, Lookup, GoTo, worker, LocalInv, OneOperation, Operating, StartStep, StopStep
<1>5. ASSUME NEW c \in Client, CheckRemovable(c) PROVE Goal'
  BY <1>5 DEF CheckRemovable, Continue, Return, GoTo, worker, LocalInv, OneOperation, Operating, StartStep, StopStep
<1>6. ASSUME NEW c \in Client, Delete(c) PROVE Goal'
  BY <1>6 DEF Delete, Return, GoTo, LocalInv, OneOperation, Operating, StartStep, StopStep
<1>7. ASSUME NEW c \in Client, ValidateStart(c) PROVE Goal'
  BY <1>7 DEF ValidateStart, Continue, Return, GoTo, worker, LocalInv, OneOperation, Operating, StartStep, StopStep
<1>8. ASSUME NEW c \in Client, ToStarting(c) PROVE Goal'
  BY <1>8 DEF ToStarting, Transition, CanTransition, validTransitions, Continue, Return, GoTo, worker, LocalInv, OneOperation, Operating, StartStep, StopStep
<1>9. ASSUME NEW c \in Client, PcStart(c) PROVE Goal'
  BY <1>9 DEF PcStart, Continue, Return, GoTo, worker, LocalInv, OneOperation, Operating, StartStep, StopStep
<1>10. ASSUME NEW c \in Client, PcStarted(c) PROVE Goal'
  BY <1>10 DEF PcStarted, Continue, Return, GoTo, worker, LocalInv, OneOperation, Operating, StartStep, StopStep
<1>11. ASSUME NEW c \in Client, ToRunning(c) PROVE Goal'
  BY <1>11 DEF ToRunning, Finish, Transition, CanTransition, validTransitions, Continue, Return, GoTo, worker, LocalInv, OneOperation, Operating, StartStep, StopStep
<1>12. ASSUME NEW c \in Client, StartFailed(c) PROVE Goal'
  BY <1>12 DEF StartFailed, Finish, Transition, CanTransition, validTransitions, Continue, Return, GoTo, worker, LocalInv, OneOperation, Operating, StartStep, StopStep
<1>13. ASSUME NEW c \in Client, ValidateStop(c) PROVE Goal'
  BY <1>13 DEF ValidateStop, Continue, Return, GoTo, worker, LocalInv, OneOperation, Operating, StartStep, StopStep
<1>14. ASSUME NEW c \in Client, ToStopping(c) PROVE Goal'
  BY <1>14 DEF ToStopping, Transition, CanTransition, validTransitions, Continue, Return, GoTo, worker, LocalInv, OneOperation, Operating, StartStep, StopStep
<1>15. ASSUME NEW c \in Client, ToStopped(c) PROVE Goal'
  BY <1>15 DEF ToStopped, Finish, Transition, CanTransition, validTransitions, Continue, Return, GoTo, worker, LocalInv, OneOperation, Operating, StartStep, StopStep
<1>16. ASSUME NEW c \in Client, StopFailed(c) PROVE Goal'
  BY <1>16 DEF StopFailed, Finish, Transition, CanTransition, validTransitions, Continue, Return, GoTo, worker, LocalInv, OneOperation, Operating, StartStep, StopStep
<1>17. ASSUME NEW a \in Actor, PcStop(a) PROVE Goal'
  BY <1>17 DEF PcStop, Stopped, Done, Continue, Return, GoTo, worker, LocalInv, OneOperation, Operating, StartStep, StopStep
<1>18. ASSUME NEW a \in Actor, PlanStop(a) PROVE Goal'
  BY <1>18 DEF PlanStop, Stopped, Done, Continue, Return, GoTo, worker, LocalInv, OneOperation, Operating, StartStep, StopStep
<1>19. ASSUME NEW a \in Actor, WaitStop(a) PROVE Goal'
  BY <1>19 DEF WaitStop, Stopped, Done, Continue, Return, GoTo, worker, LocalInv, OneOperation, Operating, StartStep, StopStep
<1>20. ASSUME NEW e \in Entry, RequestRestart(e) PROVE Goal'
  BY <1>20 DEF RequestRestart, RestartGoTo, worker, local, LocalInv, OneOperation, Operating, StartStep, StopStep
<1>21. ASSUME NEW e \in Entry, RestartStop(e) PROVE Goal'
  BY <1>21 DEF RestartStop, RestartGoTo, worker, local, LocalInv, OneOperation, Operating, StartStep, StopStep
<1>22. ASSUME NEW e \in Entry, RestartStopped(e) PROVE Goal'
  BY <1>22 DEF RestartStopped, RestartGoTo, worker, local, LocalInv, OneOperation, Operating, StartStep, StopStep
<1>23. ASSUME NEW e \in Entry, RestartStart(e) PROVE Goal'
  BY <1>23 DEF RestartStart, RestartGoTo, worker, local, LocalInv, OneOperation, Operating, StartStep, StopStep
<1>24. ASSUME NEW e \in Entry, RestartStarted(e) PROVE Goal'
  BY <1>24 DEF RestartStarted, RestartGoTo, worker, local, LocalInv, OneOperation, Operating, StartStep, StopStep
<1>25. ASSUME Start PROVE Goal'
  BY <1>25 DEF Start, local, LocalInv, OneOperation, Operating, StartStep, StopStep
<1>26. ASSUME Stop PROVE Goal'
  BY <1>26 DEF Stop, Continue, Return, GoTo, worker, LocalInv, OneOperation, Operating, StartStep, StopStep
<1>27. ASSUME CopyWorkers PROVE Goal'
  BY <1>27 DEF CopyWorkers, Continue, Return, GoTo, worker, LocalInv, OneOperation, Operating, StartStep, StopStep
<1>28. ASSUME StopNext PROVE Goal'
  BY <1>28 DEF StopNext, Continue, Return, GoTo, worker, LocalInv, OneOperation, Operating, StartStep, StopStep
<1>29. CASE UNCHANGED vars
  BY <1>29 DEF vars, worker, local, LocalInv, OneOperation, Operating, StartStep, StopStep
<1>30. ASSUME NEW e \in Entry, ProcessExits(e) PROVE Goal'
  BY <1>30 DEF ProcessExits, worker, local, LocalInv, OneOperation, Operating, StartStep, StopStep
<1> QED
  BY <1>1, <1>2, <1>3, <1>4, <1>5, <1>6, <1>7, <1>8, <1>9, <1>10, <1>11, <1>12, <1>13, <1>14, <1>15, <1>16, <1>17, <1>18, <1>19, <1>20, <1>21, <1>22, <1>23, <1>24, <1>25, <1>26, <1>27, <1>28, <1>29, <1>30
  DEF Next, Operate, ClientStep, StopProcess, RestartStep

\* A goroutine in an operation on a worker is the only one, and the worker is in the state of that operation.
THEOREM OpInvHolds == Spec => []OpInv
<1>1. Init => OpInv
  BY ConstantsOK DEF Init, OpInv, TypeOK, MasterState, WorkerState, ControlState, Step, Actor,
     LocalInv, OneOperation, Operating, StartStep, StopStep
<1> QED
  BY <1>1, OpStep, PTL DEF Spec

\* Every reachable state has its type.
THEOREM TypeCorrect == Spec => []TypeOK
  BY OpInvHolds, PTL DEF OpInv

\* No two operations on a worker go on together, for any number of clients.
THEOREM OneOperationHolds == Spec => []OneOperation
  BY OpInvHolds, PTL DEF OpInv

\* Every step keeps what relates the process controls to the worker states.
LEMMA ControlStep == IInv /\ OpInv' /\ [Next]_vars => (ControlInv /\ RemovableInv)'
<1> SUFFICES ASSUME IInv, OpInv', [Next]_vars PROVE (ControlInv /\ RemovableInv)'
  OBVIOUS
<1> USE ConstantsOK DEF IInv, OpInv, TypeOK, Actor,
             process, GetsProcess, MayLeave, LosesProcess, Reports
<1> DEFINE Goal == ControlInv /\ RemovableInv
<1>1. ASSUME NEW c \in Client, AddWorker(c) PROVE Goal'
  BY <1>1 DEF AddWorker, local, ControlInv, HasProcess, RemovableInv, isWorkerSafelyRemovable, LocalInv, OneOperation, Operating, StartStep, StopStep
<1>2. ASSUME NEW c \in Client, RemoveWorker(c) PROVE Goal'
  BY <1>2 DEF RemoveWorker, Lookup, GoTo, worker, ControlInv, HasProcess, RemovableInv, isWorkerSafelyRemovable, LocalInv, OneOperation, Operating, StartStep, StopStep
<1>3. ASSUME NEW c \in Client, StartWorker(c) PROVE Goal'
  BY <1>3 DEF StartWorker, Lookup, GoTo, worker, ControlInv, HasProcess, RemovableInv, isWorkerSafelyRemovable, LocalInv, OneOperation, Operating, StartStep, StopStep
<1>4. ASSUME NEW c \in Client, StopWorker(c) PROVE Goal'
  BY <1>4 DEF StopWorker, Lookup, GoTo, worker, ControlInv, HasProcess, RemovableInv, isWorkerSafelyRemovable, LocalInv, OneOperation, Operating, StartStep, StopStep
<1>5. ASSUME NEW c \in Client, CheckRemovable(c) PROVE Goal'
  BY <1>5 DEF CheckRemovable, Continue, Return, GoTo, worker, ControlInv, HasProcess, RemovableInv, isWorkerSafelyRemovable, LocalInv, OneOperation, Operating, StartStep, StopStep
<1>6. ASSUME NEW c \in Client, Delete(c) PROVE Goal'
  BY <1>6 DEF Delete, Return, GoTo, ControlInv, HasProcess, RemovableInv, isWorkerSafelyRemovable, LocalInv, OneOperation, Operating, StartStep, StopStep
<1>7. ASSUME NEW c \in Client, ValidateStart(c) PROVE Goal'
  BY <1>7 DEF ValidateStart, Continue, Return, GoTo, worker, ControlInv, HasProcess, RemovableInv, isWorkerSafelyRemovable, LocalInv, OneOperation, Operating, StartStep, StopStep
<1>8. ASSUME NEW c \in Client, ToStarting(c) PROVE Goal'
  <2>1. CASE ~CanTransition(entry[c], "starting")
    BY <1>8, <2>1 DEF ToStarting, Transition, Return, GoTo, worker, ControlInv, HasProcess,
         RemovableInv
  <2>2. CASE CanTransition(entry[c], "starting")
    <3>1. /\ wstate' = [wstate EXCEPT ![entry[c]] = "starting"]
          /\ pc' = [pc EXCEPT ![c] = "pcStart"]
          /\ UNCHANGED <<control, restart, entry>>
      BY <1>8, <2>2 DEF ToStarting, Transition, Continue, GoTo, worker
    <3>2. entry[c] \in Entry /\ isWorkerSafelyRemovable(wstate[entry[c]])
      BY <1>8, <2>2 DEF ToStarting, CanTransition, validTransitions, WorkerState, LocalInv,
           isWorkerSafelyRemovable
    <3>3. restart[entry[c]] = "off" => ~HasProcess(entry[c])
      BY <3>2 DEF RemovableInv, HasProcess
    <3>4. ControlInv'
      BY <3>1, <3>2, <3>3 DEF ControlInv, HasProcess
    <3>5. RemovableInv'
      BY <3>1, <3>2 DEF RemovableInv, HasProcess, isWorkerSafelyRemovable
    <3> QED
      BY <3>4, <3>5
  <2> QED
    BY <2>1, <2>2
<1>9. ASSUME NEW c \in Client, PcStart(c) PROVE Goal'
  BY <1>9 DEF PcStart, Continue, Return, GoTo, worker, ControlInv, HasProcess, RemovableInv, isWorkerSafelyRemovable, LocalInv, OneOperation, Operating, StartStep, StopStep
<1>10. ASSUME NEW c \in Client, PcStarted(c) PROVE Goal'
  BY <1>10 DEF PcStarted, Continue, Return, GoTo, worker, ControlInv, HasProcess, RemovableInv, isWorkerSafelyRemovable, LocalInv, OneOperation, Operating, StartStep, StopStep
<1>11. ASSUME NEW c \in Client, ToRunning(c) PROVE Goal'
  BY <1>11 DEF ToRunning, Finish, Transition, CanTransition, validTransitions, Continue, Return, GoTo, worker, ControlInv, HasProcess, RemovableInv, isWorkerSafelyRemovable, LocalInv, OneOperation, Operating, StartStep, StopStep
<1>12. ASSUME NEW c \in Client, StartFailed(c) PROVE Goal'
  BY <1>12 DEF StartFailed, Finish, Transition, CanTransition, validTransitions, Continue, Return, GoTo, worker, ControlInv, HasProcess, RemovableInv, isWorkerSafelyRemovable, LocalInv, OneOperation, Operating, StartStep, StopStep
<1>13. ASSUME NEW c \in Client, ValidateStop(c) PROVE Goal'
  BY <1>13 DEF ValidateStop, Continue, Return, GoTo, worker, ControlInv, HasProcess, RemovableInv, isWorkerSafelyRemovable, LocalInv, OneOperation, Operating, StartStep, StopStep
<1>14. ASSUME NEW c \in Client, ToStopping(c) PROVE Goal'
  BY <1>14 DEF ToStopping, Transition, CanTransition, validTransitions, Continue, Return, GoTo, worker, ControlInv, HasProcess, RemovableInv, isWorkerSafelyRemovable, LocalInv, OneOperation, Operating, StartStep, StopStep
<1>15. ASSUME NEW c \in Client, ToStopped(c) PROVE Goal'
  BY <1>15 DEF ToStopped, Finish, Transition, CanTransition, validTransitions, Continue, Return, GoTo, worker, ControlInv, HasProcess, RemovableInv, isWorkerSafelyRemovable, LocalInv, OneOperation, Operating, StartStep, StopStep
<1>16. ASSUME NEW c \in Client, StopFailed(c) PROVE Goal'
  BY <1>16 DEF StopFailed, Finish, Transition, CanTransition, validTransitions, Continue, Return, GoTo, worker, ControlInv, HasProcess, RemovableInv, isWorkerSafelyRemovable, LocalInv, OneOperation, Operating, StartStep, StopStep
<1>17. ASSUME NEW a \in Actor, PcStop(a) PROVE Goal'
  BY <1>17 DEF PcStop, Stopped, Done, Continue, Return, GoTo, worker, ControlInv, HasProcess, RemovableInv, isWorkerSafelyRemovable, LocalInv, OneOperation, Operating, StartStep, StopStep
<1>18. ASSUME NEW a \in Actor, PlanStop(a) PROVE Goal'
  BY <1>18 DEF PlanStop, Stopped, Done, Continue, Return, GoTo, worker, ControlInv, HasProcess, RemovableInv, isWorkerSafelyRemovable, LocalInv, OneOperation, Operating, StartStep, StopStep
<1>19. ASSUME NEW a \in Actor, WaitStop(a) PROVE Goal'
  BY <1>19 DEF WaitStop, Stopped, Done, Continue, Return, GoTo, worker, ControlInv, HasProcess, RemovableInv, isWorkerSafelyRemovable, LocalInv, OneOperation, Operating, StartStep, StopStep
<1>20. ASSUME NEW e \in Entry, RequestRestart(e) PROVE Goal'
  BY <1>20 DEF RequestRestart, RestartGoTo, worker, local, ControlInv, HasProcess, RemovableInv, isWorkerSafelyRemovable, LocalInv, OneOperation, Operating, StartStep, StopStep
<1>21. ASSUME NEW e \in Entry, RestartStop(e) PROVE Goal'
  BY <1>21 DEF RestartStop, RestartGoTo, worker, local, ControlInv, HasProcess, RemovableInv, isWorkerSafelyRemovable, LocalInv, OneOperation, Operating, StartStep, StopStep
<1>22. ASSUME NEW e \in Entry, RestartStopped(e) PROVE Goal'
  BY <1>22 DEF RestartStopped, RestartGoTo, worker, local, ControlInv, HasProcess, RemovableInv, isWorkerSafelyRemovable, LocalInv, OneOperation, Operating, StartStep, StopStep
<1>23. ASSUME NEW e \in Entry, RestartStart(e) PROVE Goal'
  BY <1>23 DEF RestartStart, RestartGoTo, worker, local, ControlInv, HasProcess, RemovableInv, isWorkerSafelyRemovable, LocalInv, OneOperation, Operating, StartStep, StopStep
<1>24. ASSUME NEW e \in Entry, RestartStarted(e) PROVE Goal'
  BY <1>24 DEF RestartStarted, RestartGoTo, worker, local, ControlInv, HasProcess, RemovableInv, isWorkerSafelyRemovable, LocalInv, OneOperation, Operating, StartStep, StopStep
<1>25. ASSUME Start PROVE Goal'
  BY <1>25 DEF Start, local, ControlInv, HasProcess, RemovableInv, isWorkerSafelyRemovable, LocalInv, OneOperation, Operating, StartStep, StopStep
<1>26. ASSUME Stop PROVE Goal'
  BY <1>26 DEF Stop, Continue, Return, GoTo, worker, ControlInv, HasProcess, RemovableInv, isWorkerSafelyRemovable, LocalInv, OneOperation, Operating, StartStep, StopStep
<1>27. ASSUME CopyWorkers PROVE Goal'
  BY <1>27 DEF CopyWorkers, Continue, Return, GoTo, worker, ControlInv, HasProcess, RemovableInv, isWorkerSafelyRemovable, LocalInv, OneOperation, Operating, StartStep, StopStep
<1>28. ASSUME StopNext PROVE Goal'
  BY <1>28 DEF StopNext, Continue, Return, GoTo, worker, ControlInv, HasProcess, RemovableInv, isWorkerSafelyRemovable, LocalInv, OneOperation, Operating, StartStep, StopStep
<1>29. CASE UNCHANGED vars
  BY <1>29 DEF vars, worker, local, ControlInv, HasProcess, RemovableInv, isWorkerSafelyRemovable, LocalInv, OneOperation, Operating, StartStep, StopStep
<1>30. ASSUME NEW e \in Entry, ProcessExits(e) PROVE Goal'
  BY <1>30 DEF ProcessExits, worker, local, ControlInv, HasProcess, RemovableInv, isWorkerSafelyRemovable, LocalInv, OneOperation, Operating, StartStep, StopStep
<1> QED
  BY <1>1, <1>2, <1>3, <1>4, <1>5, <1>6, <1>7, <1>8, <1>9, <1>10, <1>11, <1>12, <1>13, <1>14, <1>15, <1>16, <1>17, <1>18, <1>19, <1>20, <1>21, <1>22, <1>23, <1>24, <1>25, <1>26, <1>27, <1>28, <1>29, <1>30
  DEF Next, Operate, ClientStep, StopProcess, RestartStep

\* The inductive invariant of the master holds.
THEOREM IInvHolds == Spec => []IInv
<1>1. Init => ControlInv /\ RemovableInv
  BY DEF Init, ControlInv, HasProcess, RemovableInv
<1>2. IInv /\ [Next]_vars => IInv'
  BY OpStep, ControlStep DEF IInv
<1>3. Init => OpInv
  BY ConstantsOK DEF Init, OpInv, TypeOK, MasterState, WorkerState, ControlState, Step, Actor,
     LocalInv, OneOperation, Operating, StartStep, StopStep
<1> QED
  BY <1>1, <1>2, <1>3, PTL DEF Spec, IInv

-----------------------------------------------------------------------------
(* Who ends a launch or a stop of a process control is the one who began it. *)

\* A control that is launching has one launcher, and one that is stopping has one that waits.
SlotInv ==
    \A e \in Entry :
        /\ \A c \in Client : entry[c] = e /\ pc[c] = "launching" =>
              control[e] = "starting" /\ restart[e] # "launching"
        /\ restart[e] = "launching" => control[e] = "starting"
        /\ \A a \in Actor : entry[a] = e /\ pc[a] = "waitStop" =>
              /\ control[e] = "stopping" /\ restart[e] # "stopping"
              /\ \A b \in Actor : entry[b] = e /\ pc[b] = "waitStop" => a = b
        /\ restart[e] = "stopping" => control[e] = "stopping"

\* Every step keeps it.
LEMMA SlotStep == OpInv /\ SlotInv /\ [Next]_vars => SlotInv'
<1> SUFFICES ASSUME OpInv, SlotInv, [Next]_vars PROVE SlotInv'
  OBVIOUS
<1> USE ConstantsOK DEF OpInv, TypeOK, Actor,
             process, GetsProcess, MayLeave, LosesProcess, Reports
<1>1. ASSUME NEW c \in Client, AddWorker(c) PROVE SlotInv'
  BY <1>1 DEF AddWorker, local, SlotInv, LocalInv, OneOperation, Operating, StartStep, StopStep
<1>2. ASSUME NEW c \in Client, RemoveWorker(c) PROVE SlotInv'
  BY <1>2 DEF RemoveWorker, Lookup, GoTo, worker, SlotInv, LocalInv, OneOperation, Operating,
     StartStep, StopStep
<1>3. ASSUME NEW c \in Client, StartWorker(c) PROVE SlotInv'
  BY <1>3 DEF StartWorker, Lookup, GoTo, worker, SlotInv, LocalInv, OneOperation, Operating,
     StartStep, StopStep
<1>4. ASSUME NEW c \in Client, StopWorker(c) PROVE SlotInv'
  BY <1>4 DEF StopWorker, Lookup, GoTo, worker, SlotInv, LocalInv, OneOperation, Operating,
     StartStep, StopStep
<1>5. ASSUME NEW c \in Client, CheckRemovable(c) PROVE SlotInv'
  BY <1>5 DEF CheckRemovable, Continue, Return, GoTo, worker, SlotInv, LocalInv, OneOperation,
     Operating, StartStep, StopStep
<1>6. ASSUME NEW c \in Client, Delete(c) PROVE SlotInv'
  BY <1>6 DEF Delete, Return, GoTo, SlotInv, LocalInv, OneOperation, Operating, StartStep,
     StopStep
<1>7. ASSUME NEW c \in Client, ValidateStart(c) PROVE SlotInv'
  BY <1>7 DEF ValidateStart, Continue, Return, GoTo, worker, SlotInv, LocalInv, OneOperation,
     Operating, StartStep, StopStep
<1>8. ASSUME NEW c \in Client, ToStarting(c) PROVE SlotInv'
  BY <1>8 DEF ToStarting, Transition, CanTransition, validTransitions, Continue, Return, GoTo,
     worker, SlotInv, LocalInv, OneOperation, Operating, StartStep, StopStep
<1>9. ASSUME NEW c \in Client, PcStart(c) PROVE SlotInv'
  BY <1>9 DEF PcStart, Continue, Return, GoTo, worker, SlotInv, LocalInv, OneOperation,
     Operating, StartStep, StopStep
<1>10. ASSUME NEW c \in Client, PcStarted(c) PROVE SlotInv'
  BY <1>10 DEF PcStarted, Continue, Return, GoTo, worker, SlotInv, LocalInv, OneOperation,
     Operating, StartStep, StopStep
<1>11. ASSUME NEW c \in Client, ToRunning(c) PROVE SlotInv'
  BY <1>11 DEF ToRunning, Finish, Transition, CanTransition, validTransitions, Return, GoTo,
     worker, SlotInv, LocalInv, OneOperation, Operating, StartStep, StopStep
<1>12. ASSUME NEW c \in Client, StartFailed(c) PROVE SlotInv'
  BY <1>12 DEF StartFailed, Finish, Transition, CanTransition, validTransitions, Return, GoTo,
     worker, SlotInv, LocalInv, OneOperation, Operating, StartStep, StopStep
<1>13. ASSUME NEW c \in Client, ValidateStop(c) PROVE SlotInv'
  BY <1>13 DEF ValidateStop, Continue, Return, GoTo, worker, SlotInv, LocalInv, OneOperation,
     Operating, StartStep, StopStep
<1>14. ASSUME NEW c \in Client, ToStopping(c) PROVE SlotInv'
  BY <1>14 DEF ToStopping, Transition, CanTransition, validTransitions, Continue, Return, GoTo,
     worker, SlotInv, LocalInv, OneOperation, Operating, StartStep, StopStep
<1>15. ASSUME NEW c \in Client, ToStopped(c) PROVE SlotInv'
  BY <1>15 DEF ToStopped, Finish, Transition, CanTransition, validTransitions, Return, GoTo,
     worker, SlotInv, LocalInv, OneOperation, Operating, StartStep, StopStep
<1>16. ASSUME NEW c \in Client, StopFailed(c) PROVE SlotInv'
  BY <1>16 DEF StopFailed, Finish, Transition, CanTransition, validTransitions, Return, GoTo,
     worker, SlotInv, LocalInv, OneOperation, Operating, StartStep, StopStep
<1>17. ASSUME NEW a \in Actor, PcStop(a) PROVE SlotInv'
  BY <1>17 DEF PcStop, Stopped, Done, Continue, Return, GoTo, worker, SlotInv, LocalInv,
     OneOperation, Operating, StartStep, StopStep
<1>18. ASSUME NEW a \in Actor, PlanStop(a) PROVE SlotInv'
  BY <1>18 DEF PlanStop, Stopped, Done, Continue, Return, GoTo, worker, SlotInv, LocalInv,
     OneOperation, Operating, StartStep, StopStep
<1>19. ASSUME NEW a \in Actor, WaitStop(a) PROVE SlotInv'
  BY <1>19 DEF WaitStop, Stopped, Done, Continue, Return, GoTo, worker, SlotInv, LocalInv,
     OneOperation, Operating, StartStep, StopStep
<1>20. ASSUME NEW e \in Entry, RequestRestart(e) PROVE SlotInv'
  BY <1>20 DEF RequestRestart, RestartGoTo, worker, local, SlotInv, LocalInv, OneOperation,
     Operating, StartStep, StopStep
<1>21. ASSUME NEW e \in Entry, RestartStop(e) PROVE SlotInv'
  BY <1>21 DEF RestartStop, RestartGoTo, worker, local, SlotInv, LocalInv, OneOperation,
     Operating, StartStep, StopStep
<1>22. ASSUME NEW e \in Entry, RestartStopped(e) PROVE SlotInv'
  BY <1>22 DEF RestartStopped, RestartGoTo, worker, local, SlotInv, LocalInv, OneOperation,
     Operating, StartStep, StopStep
<1>23. ASSUME NEW e \in Entry, RestartStart(e) PROVE SlotInv'
  BY <1>23 DEF RestartStart, RestartGoTo, worker, local, SlotInv, LocalInv, OneOperation,
     Operating, StartStep, StopStep
<1>24. ASSUME NEW e \in Entry, RestartStarted(e) PROVE SlotInv'
  BY <1>24 DEF RestartStarted, RestartGoTo, worker, local, SlotInv, LocalInv, OneOperation,
     Operating, StartStep, StopStep
<1>25. ASSUME Start PROVE SlotInv'
  BY <1>25 DEF Start, local, SlotInv, LocalInv, OneOperation, Operating, StartStep, StopStep
<1>26. ASSUME Stop PROVE SlotInv'
  BY <1>26 DEF Stop, Continue, Return, GoTo, worker, SlotInv, LocalInv, OneOperation, Operating,
     StartStep, StopStep
<1>27. ASSUME CopyWorkers PROVE SlotInv'
  BY <1>27 DEF CopyWorkers, Continue, Return, GoTo, worker, SlotInv, LocalInv, OneOperation,
     Operating, StartStep, StopStep
<1>28. ASSUME StopNext PROVE SlotInv'
  BY <1>28 DEF StopNext, Continue, Return, GoTo, worker, SlotInv, LocalInv, OneOperation,
     Operating, StartStep, StopStep
<1>29. CASE UNCHANGED vars
  BY <1>29 DEF vars, worker, local, SlotInv, LocalInv, OneOperation, Operating, StartStep, StopStep
<1>30. ASSUME NEW e \in Entry, ProcessExits(e) PROVE SlotInv'
  BY <1>30 DEF ProcessExits, worker, local, SlotInv, LocalInv, OneOperation, Operating, StartStep, StopStep
<1> QED
  BY <1>1, <1>2, <1>3, <1>4, <1>5, <1>6, <1>7, <1>8, <1>9, <1>10, <1>11, <1>12, <1>13, <1>14,
     <1>15, <1>16, <1>17, <1>18, <1>19, <1>20, <1>21, <1>22, <1>23, <1>24, <1>25, <1>26, <1>27,
     <1>28, <1>29, <1>30 DEF Next, Operate, ClientStep, StopProcess, RestartStep

\* Every step takes each control through a transition of ProcessStates.
LEMMA ControlEdge ==
    OpInv /\ SlotInv /\ [Next]_vars => \A e \in Entry : [Control(e)!Next]_(control[e])
<1> SUFFICES ASSUME OpInv, SlotInv, [Next]_vars, NEW f \in Entry
             PROVE  [Control(f)!Next]_(control[f])
  OBVIOUS
<1> USE ConstantsOK DEF OpInv, TypeOK, Actor,
             process, GetsProcess, MayLeave, LosesProcess, Reports
<1> DEFINE Edge == [Control(f)!Next]_(control[f])
<1>1. ASSUME NEW c \in Client, AddWorker(c) PROVE Edge
  BY <1>1 DEF AddWorker, local, SlotInv, LocalInv, Control!Next, Control!BeginStart,
     Control!Started, Control!StartFailed, Control!BeginStop, Control!Stopped, Control!Trans
<1>2. ASSUME NEW c \in Client, RemoveWorker(c) PROVE Edge
  BY <1>2 DEF RemoveWorker, Lookup, GoTo, worker, SlotInv, LocalInv, Control!Next,
     Control!BeginStart, Control!Started, Control!StartFailed, Control!BeginStop,
     Control!Stopped, Control!Trans
<1>3. ASSUME NEW c \in Client, StartWorker(c) PROVE Edge
  BY <1>3 DEF StartWorker, Lookup, GoTo, worker, SlotInv, LocalInv, Control!Next,
     Control!BeginStart, Control!Started, Control!StartFailed, Control!BeginStop,
     Control!Stopped, Control!Trans
<1>4. ASSUME NEW c \in Client, StopWorker(c) PROVE Edge
  BY <1>4 DEF StopWorker, Lookup, GoTo, worker, SlotInv, LocalInv, Control!Next,
     Control!BeginStart, Control!Started, Control!StartFailed, Control!BeginStop,
     Control!Stopped, Control!Trans
<1>5. ASSUME NEW c \in Client, CheckRemovable(c) PROVE Edge
  BY <1>5 DEF CheckRemovable, Continue, Return, GoTo, worker, SlotInv, LocalInv, Control!Next,
     Control!BeginStart, Control!Started, Control!StartFailed, Control!BeginStop,
     Control!Stopped, Control!Trans
<1>6. ASSUME NEW c \in Client, Delete(c) PROVE Edge
  BY <1>6 DEF Delete, Return, GoTo, SlotInv, LocalInv, Control!Next, Control!BeginStart,
     Control!Started, Control!StartFailed, Control!BeginStop, Control!Stopped, Control!Trans
<1>7. ASSUME NEW c \in Client, ValidateStart(c) PROVE Edge
  BY <1>7 DEF ValidateStart, Continue, Return, GoTo, worker, SlotInv, LocalInv, Control!Next,
     Control!BeginStart, Control!Started, Control!StartFailed, Control!BeginStop,
     Control!Stopped, Control!Trans
<1>8. ASSUME NEW c \in Client, ToStarting(c) PROVE Edge
  BY <1>8 DEF ToStarting, Transition, CanTransition, validTransitions, Continue, Return, GoTo,
     worker, SlotInv, LocalInv, Control!Next, Control!BeginStart, Control!Started,
     Control!StartFailed, Control!BeginStop, Control!Stopped, Control!Trans
<1>9. ASSUME NEW c \in Client, PcStart(c) PROVE Edge
  BY <1>9 DEF PcStart, Continue, Return, GoTo, worker, SlotInv, LocalInv, Control!Next,
     Control!BeginStart, Control!Started, Control!StartFailed, Control!BeginStop,
     Control!Stopped, Control!Trans
<1>10. ASSUME NEW c \in Client, PcStarted(c) PROVE Edge
  BY <1>10 DEF PcStarted, Continue, Return, GoTo, worker, SlotInv, LocalInv, Control!Next,
     Control!BeginStart, Control!Started, Control!StartFailed, Control!BeginStop,
     Control!Stopped, Control!Trans
<1>11. ASSUME NEW c \in Client, ToRunning(c) PROVE Edge
  BY <1>11 DEF ToRunning, Finish, Transition, CanTransition, validTransitions, Return, GoTo,
     worker, SlotInv, LocalInv, Control!Next, Control!BeginStart, Control!Started,
     Control!StartFailed, Control!BeginStop, Control!Stopped, Control!Trans
<1>12. ASSUME NEW c \in Client, StartFailed(c) PROVE Edge
  BY <1>12 DEF StartFailed, Finish, Transition, CanTransition, validTransitions, Return, GoTo,
     worker, SlotInv, LocalInv, Control!Next, Control!BeginStart, Control!Started,
     Control!StartFailed, Control!BeginStop, Control!Stopped, Control!Trans
<1>13. ASSUME NEW c \in Client, ValidateStop(c) PROVE Edge
  BY <1>13 DEF ValidateStop, Continue, Return, GoTo, worker, SlotInv, LocalInv, Control!Next,
     Control!BeginStart, Control!Started, Control!StartFailed, Control!BeginStop,
     Control!Stopped, Control!Trans
<1>14. ASSUME NEW c \in Client, ToStopping(c) PROVE Edge
  BY <1>14 DEF ToStopping, Transition, CanTransition, validTransitions, Continue, Return, GoTo,
     worker, SlotInv, LocalInv, Control!Next, Control!BeginStart, Control!Started,
     Control!StartFailed, Control!BeginStop, Control!Stopped, Control!Trans
<1>15. ASSUME NEW c \in Client, ToStopped(c) PROVE Edge
  BY <1>15 DEF ToStopped, Finish, Transition, CanTransition, validTransitions, Return, GoTo,
     worker, SlotInv, LocalInv, Control!Next, Control!BeginStart, Control!Started,
     Control!StartFailed, Control!BeginStop, Control!Stopped, Control!Trans
<1>16. ASSUME NEW c \in Client, StopFailed(c) PROVE Edge
  BY <1>16 DEF StopFailed, Finish, Transition, CanTransition, validTransitions, Return, GoTo,
     worker, SlotInv, LocalInv, Control!Next, Control!BeginStart, Control!Started,
     Control!StartFailed, Control!BeginStop, Control!Stopped, Control!Trans
<1>17. ASSUME NEW a \in Actor, PcStop(a) PROVE Edge
  BY <1>17 DEF PcStop, Stopped, Done, Continue, Return, GoTo, worker, SlotInv, LocalInv,
     Control!Next, Control!BeginStart, Control!Started, Control!StartFailed, Control!BeginStop,
     Control!Stopped, Control!Trans
<1>18. ASSUME NEW a \in Actor, PlanStop(a) PROVE Edge
  BY <1>18 DEF PlanStop, Stopped, Done, Continue, Return, GoTo, worker, SlotInv, LocalInv,
     Control!Next, Control!BeginStart, Control!Started, Control!StartFailed, Control!BeginStop,
     Control!Stopped, Control!Trans
<1>19. ASSUME NEW a \in Actor, WaitStop(a) PROVE Edge
  BY <1>19 DEF WaitStop, Stopped, Done, Continue, Return, GoTo, worker, SlotInv, LocalInv,
     Control!Next, Control!BeginStart, Control!Started, Control!StartFailed, Control!BeginStop,
     Control!Stopped, Control!Trans
<1>20. ASSUME NEW e \in Entry, RequestRestart(e) PROVE Edge
  BY <1>20 DEF RequestRestart, RestartGoTo, worker, local, SlotInv, LocalInv, Control!Next,
     Control!BeginStart, Control!Started, Control!StartFailed, Control!BeginStop,
     Control!Stopped, Control!Trans
<1>21. ASSUME NEW e \in Entry, RestartStop(e) PROVE Edge
  BY <1>21 DEF RestartStop, RestartGoTo, worker, local, SlotInv, LocalInv, Control!Next,
     Control!BeginStart, Control!Started, Control!StartFailed, Control!BeginStop,
     Control!Stopped, Control!Trans
<1>22. ASSUME NEW e \in Entry, RestartStopped(e) PROVE Edge
  BY <1>22 DEF RestartStopped, RestartGoTo, worker, local, SlotInv, LocalInv, Control!Next,
     Control!BeginStart, Control!Started, Control!StartFailed, Control!BeginStop,
     Control!Stopped, Control!Trans
<1>23. ASSUME NEW e \in Entry, RestartStart(e) PROVE Edge
  BY <1>23 DEF RestartStart, RestartGoTo, worker, local, SlotInv, LocalInv, Control!Next,
     Control!BeginStart, Control!Started, Control!StartFailed, Control!BeginStop,
     Control!Stopped, Control!Trans
<1>24. ASSUME NEW e \in Entry, RestartStarted(e) PROVE Edge
  BY <1>24 DEF RestartStarted, RestartGoTo, worker, local, SlotInv, LocalInv, Control!Next,
     Control!BeginStart, Control!Started, Control!StartFailed, Control!BeginStop,
     Control!Stopped, Control!Trans
<1>25. ASSUME Start PROVE Edge
  BY <1>25 DEF Start, local, SlotInv, LocalInv, Control!Next, Control!BeginStart,
     Control!Started, Control!StartFailed, Control!BeginStop, Control!Stopped, Control!Trans
<1>26. ASSUME Stop PROVE Edge
  BY <1>26 DEF Stop, Continue, Return, GoTo, worker, SlotInv, LocalInv, Control!Next,
     Control!BeginStart, Control!Started, Control!StartFailed, Control!BeginStop,
     Control!Stopped, Control!Trans
<1>27. ASSUME CopyWorkers PROVE Edge
  BY <1>27 DEF CopyWorkers, Continue, Return, GoTo, worker, SlotInv, LocalInv, Control!Next,
     Control!BeginStart, Control!Started, Control!StartFailed, Control!BeginStop,
     Control!Stopped, Control!Trans
<1>28. ASSUME StopNext PROVE Edge
  BY <1>28 DEF StopNext, Continue, Return, GoTo, worker, SlotInv, LocalInv, Control!Next,
     Control!BeginStart, Control!Started, Control!StartFailed, Control!BeginStop,
     Control!Stopped, Control!Trans
<1>29. CASE UNCHANGED vars
  BY <1>29 DEF vars, worker, local, SlotInv, LocalInv, Control!Next, Control!BeginStart, Control!Started, Control!StartFailed, Control!BeginStop, Control!Stopped, Control!Trans
<1>30. ASSUME NEW e \in Entry, ProcessExits(e) PROVE Edge
  BY <1>30 DEF ProcessExits, worker, local, SlotInv, LocalInv, Control!Next, Control!BeginStart,
     Control!Started, Control!StartFailed, Control!BeginStop, Control!Stopped, Control!Trans
<1> QED
  BY <1>1, <1>2, <1>3, <1>4, <1>5, <1>6, <1>7, <1>8, <1>9, <1>10, <1>11, <1>12, <1>13, <1>14,
     <1>15, <1>16, <1>17, <1>18, <1>19, <1>20, <1>21, <1>22, <1>23, <1>24, <1>25, <1>26, <1>27,
     <1>28, <1>29, <1>30 DEF Next, Operate, ClientStep, StopProcess, RestartStep
\* SlotInv holds in every state.
LEMMA SlotInvHolds == Spec => []SlotInv
<1>1. Init => SlotInv
  BY ConstantsOK DEF Init, SlotInv, Actor
<1> QED
  BY <1>1, SlotStep, OpInvHolds, PTL DEF Spec

\* Clients, shutdown and restarts drive each process control through its lifecycle.
THEOREM LifecycleKept == Spec => ControlsHaveLifecycle
<1>1. Init => \A e \in Entry : Control(e)!Init
  BY DEF Init, Control!Init
<1>2. OpInv /\ SlotInv /\ [Next]_vars =>
         [\A e \in Entry : [Control(e)!Next]_(control[e])]_control
  BY ControlEdge
<1> QED
  BY <1>1, <1>2, OpInvHolds, SlotInvHolds, PTL DEF Spec, ControlsHaveLifecycle

\* The process control of every registration implements the state machine of ProcessLifecycle.
THEOREM EachControlImplements ==
  ASSUME NEW e \in Entry
  PROVE  Spec => Control(e)!Spec
<1>1. Init => Control(e)!Init
  BY DEF Init, Control!Init
<1>2. OpInv /\ SlotInv /\ [Next]_vars => [Control(e)!Next]_(control[e])
  BY ControlEdge
<1> QED
  BY <1>1, <1>2, OpInvHolds, SlotInvHolds, PTL DEF Spec, Control!Spec

-----------------------------------------------------------------------------
(* Where the processes are, which the state of a control does not tell.      *)

\* A process that lives has a control that runs it, or is stopping it; without restarts by
\* policy somebody waits for each stop, and a process is left unreported only by a client that
\* is about to report it.
WhereInv ==
    /\ \A e \in live : control[e] \in {"running", "stopping"}
    /\ \A e \in Entry : restart[e] = "off" =>
          /\ control[e] = "stopping" => BeingStopped(e)
          /\ e \in left \ reported =>
                \E c \in Client : entry[c] = e /\ pc[c] \in {"startFailed", "stopFailed"}

\* Every step keeps it.
LEMMA WhereStep == OpInv /\ SlotInv /\ WhereInv /\ [Next]_vars => WhereInv'
<1> SUFFICES ASSUME OpInv, SlotInv, WhereInv, [Next]_vars PROVE WhereInv'
  OBVIOUS
<1> USE ConstantsOK DEF OpInv, TypeOK, Actor, process, GetsProcess, MayLeave, LosesProcess,
             Reports
<1>1. ASSUME NEW c \in Client, AddWorker(c) PROVE WhereInv'
  BY <1>1 DEF AddWorker, worker, local, WhereInv, BeingStopped, SlotInv, LocalInv, OneOperation,
     Operating, StartStep, StopStep
<1>2. ASSUME NEW c \in Client, RemoveWorker(c) PROVE WhereInv'
  BY <1>2 DEF RemoveWorker, Lookup, GoTo, worker, local, WhereInv, BeingStopped, SlotInv,
     LocalInv, OneOperation, Operating, StartStep, StopStep
<1>3. ASSUME NEW c \in Client, StartWorker(c) PROVE WhereInv'
  BY <1>3 DEF StartWorker, Lookup, GoTo, worker, local, WhereInv, BeingStopped, SlotInv,
     LocalInv, OneOperation, Operating, StartStep, StopStep
<1>4. ASSUME NEW c \in Client, StopWorker(c) PROVE WhereInv'
  BY <1>4 DEF StopWorker, Lookup, GoTo, worker, local, WhereInv, BeingStopped, SlotInv,
     LocalInv, OneOperation, Operating, StartStep, StopStep
<1>5. ASSUME NEW c \in Client, CheckRemovable(c) PROVE WhereInv'
  BY <1>5 DEF CheckRemovable, Continue, Return, GoTo, worker, local, WhereInv, BeingStopped,
     SlotInv, LocalInv, OneOperation, Operating, StartStep, StopStep
<1>6. ASSUME NEW c \in Client, Delete(c) PROVE WhereInv'
  BY <1>6 DEF Delete, Return, GoTo, worker, local, WhereInv, BeingStopped, SlotInv, LocalInv,
     OneOperation, Operating, StartStep, StopStep
<1>7. ASSUME NEW c \in Client, ValidateStart(c) PROVE WhereInv'
  BY <1>7 DEF ValidateStart, Continue, Return, GoTo, worker, local, WhereInv, BeingStopped,
     SlotInv, LocalInv, OneOperation, Operating, StartStep, StopStep
<1>8. ASSUME NEW c \in Client, ToStarting(c) PROVE WhereInv'
  BY <1>8 DEF ToStarting, Transition, Continue, Return, GoTo, worker, local, WhereInv,
     BeingStopped, SlotInv, LocalInv, OneOperation, Operating, StartStep, StopStep
<1>9. ASSUME NEW c \in Client, PcStart(c) PROVE WhereInv'
  BY <1>9 DEF PcStart, Continue, GoTo, worker, local, WhereInv, BeingStopped, SlotInv, LocalInv,
     OneOperation, Operating, StartStep, StopStep
<1>10. ASSUME NEW c \in Client, PcStarted(c) PROVE WhereInv'
  BY <1>10 DEF PcStarted, Continue, GoTo, worker, local, WhereInv, BeingStopped, SlotInv,
     LocalInv, OneOperation, Operating, StartStep, StopStep
<1>11. ASSUME NEW c \in Client, ToRunning(c) PROVE WhereInv'
  BY <1>11 DEF ToRunning, Finish, Transition, Return, GoTo, worker, local, WhereInv,
     BeingStopped, SlotInv, LocalInv, OneOperation, Operating, StartStep, StopStep
<1>12. ASSUME NEW c \in Client, StartFailed(c) PROVE WhereInv'
  BY <1>12 DEF StartFailed, Finish, Transition, Return, GoTo, worker, local, WhereInv,
     BeingStopped, SlotInv, LocalInv, OneOperation, Operating, StartStep, StopStep
<1>13. ASSUME NEW c \in Client, ValidateStop(c) PROVE WhereInv'
  BY <1>13 DEF ValidateStop, Continue, Return, GoTo, worker, local, WhereInv, BeingStopped,
     SlotInv, LocalInv, OneOperation, Operating, StartStep, StopStep
<1>14. ASSUME NEW c \in Client, ToStopping(c) PROVE WhereInv'
  BY <1>14 DEF ToStopping, Transition, Continue, Return, GoTo, worker, local, WhereInv,
     BeingStopped, SlotInv, LocalInv, OneOperation, Operating, StartStep, StopStep
<1>15. ASSUME NEW c \in Client, ToStopped(c) PROVE WhereInv'
  BY <1>15 DEF ToStopped, Finish, Transition, Return, GoTo, worker, local, WhereInv,
     BeingStopped, SlotInv, LocalInv, OneOperation, Operating, StartStep, StopStep
<1>16. ASSUME NEW c \in Client, StopFailed(c) PROVE WhereInv'
  BY <1>16 DEF StopFailed, Finish, Transition, Return, GoTo, worker, local, WhereInv,
     BeingStopped, SlotInv, LocalInv, OneOperation, Operating, StartStep, StopStep
<1>17. ASSUME NEW a \in Actor, PcStop(a) PROVE WhereInv'
  BY <1>17 DEF PcStop, Stopped, Done, Continue, Return, GoTo, worker, local, WhereInv,
     BeingStopped, SlotInv, LocalInv, OneOperation, Operating, StartStep, StopStep
<1>18. ASSUME NEW a \in Actor, PlanStop(a) PROVE WhereInv'
  BY <1>18 DEF PlanStop, Stopped, Done, Continue, Return, GoTo, worker, local, WhereInv,
     BeingStopped, SlotInv, LocalInv, OneOperation, Operating, StartStep, StopStep
<1>19. ASSUME NEW a \in Actor, WaitStop(a) PROVE WhereInv'
  <2> DEFINE f == entry[a]
  <2>1. f \in Entry /\ pc[a] = "waitStop"
    BY <1>19 DEF WaitStop, LocalInv
  <2>2. PICK ok \in BOOLEAN : Stopped(a, ok) /\ LosesProcess(f, ok)
    BY <1>19 DEF WaitStop
  <2>3. control' = [control EXCEPT ![f] = "idle"] /\ UNCHANGED <<worker, wstate, restart>>
    BY <1>19 DEF WaitStop
  <2>4. \A b \in Actor : b # a => pc'[b] = pc[b] /\ entry'[b] = entry[b]
    BY <2>2 DEF Stopped, Done, Continue, Return, GoTo
  <2>5. ~ok => \/ f \in reported'
               \/ a \in Client /\ pc'[a] = "stopFailed" /\ entry'[a] = f
    <3>1. CASE a = Runner
      <4>1. ~ok => reported' = reported \cup {entry[a]}
        BY ONLY <2>2, <3>1 DEF Stopped, Reports
      <4> QED
        BY <4>1
    <3>2. CASE a # Runner
      <4>1. pc \in [Actor -> Step] /\ entry'[a] = entry[a]
        BY <2>2, <3>2 DEF Stopped, Continue, GoTo
      <4> QED
        BY <2>1, <2>2, <3>2, <4>1 DEF Stopped, Continue, GoTo
    <3> QED
      BY <3>1, <3>2
  <2>6. left' \subseteq left \cup (IF ok THEN {} ELSE {f}) /\ reported \subseteq reported'
    BY <2>2 DEF Stopped
  <2>7. \A e \in live' : control'[e] \in {"running", "stopping"}
    BY <2>1, <2>2, <2>3 DEF WhereInv
  <2>8. ASSUME NEW e \in Entry, restart'[e] = "off", control'[e] = "stopping"
        PROVE  BeingStopped(e)'
    <3>1. e # f /\ control[e] = "stopping" /\ restart[e] = "off"
      BY <2>1, <2>3, <2>8
    <3>2. PICK b \in Actor : entry[b] = e /\ pc[b] = "waitStop"
      BY <3>1 DEF WhereInv, BeingStopped
    <3> QED
      BY <2>4, <3>1, <3>2 DEF BeingStopped
  <2>9. ASSUME NEW e \in Entry, restart'[e] = "off", e \in left' \ reported'
        PROVE  \E c \in Client : entry'[c] = e /\ pc'[c] \in {"startFailed", "stopFailed"}
    <3>1. CASE e \in left
      <4>1. PICK c \in Client : entry[c] = e /\ pc[c] \in {"startFailed", "stopFailed"}
        BY <2>3, <2>6, <2>9, <3>1 DEF WhereInv
      <4> QED
        BY <2>1, <2>4, <4>1
    <3>2. CASE e \notin left
      BY <2>5, <2>6, <2>9, <3>2
    <3> QED
      BY <3>1, <3>2
  <2> HIDE DEF f
  <2> QED
    BY <2>7, <2>8, <2>9 DEF WhereInv
<1>20. ASSUME NEW e \in Entry, RequestRestart(e) PROVE WhereInv'
  BY <1>20 DEF RequestRestart, RestartGoTo, worker, local, WhereInv, BeingStopped, SlotInv,
     LocalInv, OneOperation, Operating, StartStep, StopStep
<1>21. ASSUME NEW e \in Entry, RestartStop(e) PROVE WhereInv'
  BY <1>21 DEF RestartStop, RestartGoTo, worker, local, WhereInv, BeingStopped, SlotInv,
     LocalInv, OneOperation, Operating, StartStep, StopStep
<1>22. ASSUME NEW e \in Entry, RestartStopped(e) PROVE WhereInv'
  BY <1>22 DEF RestartStopped, RestartGoTo, worker, local, WhereInv, BeingStopped, SlotInv,
     LocalInv, OneOperation, Operating, StartStep, StopStep
<1>23. ASSUME NEW e \in Entry, RestartStart(e) PROVE WhereInv'
  BY <1>23 DEF RestartStart, RestartGoTo, worker, local, WhereInv, BeingStopped, SlotInv,
     LocalInv, OneOperation, Operating, StartStep, StopStep
<1>24. ASSUME NEW e \in Entry, RestartStarted(e) PROVE WhereInv'
  BY <1>24 DEF RestartStarted, RestartGoTo, worker, local, WhereInv, BeingStopped, SlotInv,
     LocalInv, OneOperation, Operating, StartStep, StopStep
<1>25. ASSUME Start PROVE WhereInv'
  BY <1>25 DEF Start, worker, local, WhereInv, BeingStopped, SlotInv, LocalInv, OneOperation,
     Operating, StartStep, StopStep
<1>26. ASSUME Stop PROVE WhereInv'
  BY <1>26 DEF Stop, Continue, Return, GoTo, worker, local, WhereInv, BeingStopped, SlotInv,
     LocalInv, OneOperation, Operating, StartStep, StopStep
<1>27. ASSUME CopyWorkers PROVE WhereInv'
  BY <1>27 DEF CopyWorkers, Continue, Return, GoTo, worker, local, WhereInv, BeingStopped,
     SlotInv, LocalInv, OneOperation, Operating, StartStep, StopStep
<1>28. ASSUME StopNext PROVE WhereInv'
  BY <1>28 DEF StopNext, Continue, Return, GoTo, worker, local, WhereInv, BeingStopped, SlotInv,
     LocalInv, OneOperation, Operating, StartStep, StopStep
<1>29. CASE UNCHANGED vars
  BY <1>29 DEF vars, worker, local, WhereInv, BeingStopped
<1>30. ASSUME NEW e \in Entry, ProcessExits(e) PROVE WhereInv'
  BY <1>30 DEF ProcessExits, worker, local, WhereInv, BeingStopped, SlotInv, LocalInv,
     OneOperation, Operating, StartStep, StopStep
<1> QED
  BY <1>1, <1>2, <1>3, <1>4, <1>5, <1>6, <1>7, <1>8, <1>9, <1>10, <1>11, <1>12, <1>13, <1>14,
     <1>15, <1>16, <1>17, <1>18, <1>19, <1>20, <1>21, <1>22, <1>23, <1>24, <1>25, <1>26, <1>27,
     <1>28, <1>29, <1>30
     DEF Next, Operate, ClientStep, StopProcess, RestartStep

\* It holds in every state.
LEMMA WhereInvHolds == Spec => []WhereInv
<1>1. Init => WhereInv
  BY DEF Init, WhereInv
<1> QED
  BY <1>1, WhereStep, OpInvHolds, SlotInvHolds, PTL DEF Spec

\* Without restarts by policy, a worker that may be removed has no process but one that is being
\* stopped, or whose stop or start has failed and was reported.
THEOREM RemovableNotRunningHolds == Spec => []RemovableNotRunning
<1>1. IInv /\ WhereInv => RemovableNotRunning
  <2> SUFFICES ASSUME IInv, WhereInv, NEW e \in Entry, restart[e] = "off",
                      isWorkerSafelyRemovable(wstate[e])
               PROVE  AtRest(e) /\ (e \in left => e \in reported)
    BY DEF RemovableNotRunning
  <2>1. AtRest(e)
    BY DEF IInv, RemovableInv, WhereInv, AtRest, HasProcess
  <2>2. ASSUME e \in left, e \notin reported
        PROVE  FALSE
    <3>1. PICK c \in Client : entry[c] = e /\ pc[c] \in {"startFailed", "stopFailed"}
      BY <2>2 DEF WhereInv
    <3>2. wstate[e] \in {"starting", "stopping"}
      BY <3>1 DEF IInv, OpInv, OneOperation, Operating, StartStep, StopStep
    <3> QED
      BY <3>2 DEF isWorkerSafelyRemovable
  <2> QED
    BY <2>1, <2>2
<1> QED
  BY <1>1, IInvHolds, WhereInvHolds, PTL

-----------------------------------------------------------------------------
(* What a shutdown leaves.                                                   *)

\* What was never registered is known to nobody, and has no process.
UnknownInv ==
    \A e \in Entry : wstate[e] = "unknown" =>
        /\ control[e] = "idle" /\ restart[e] \in {"off", "none"}
        /\ \A i \in Id : workers[i] # e
        /\ \A a \in Actor : entry[a] # e
        /\ e \notin toStop

\* A shutdown goes on exactly while its goroutine does.
ShutdownInv ==
    /\ masterState \in {"not_started", "running", "stopped"} <=> pc[Runner] = "ready"
    /\ pc[Runner] = "stopNext" => masterState = "stopping"
    /\ masterState = "stopped" => toStop = {}

Registered(e) == \E i \in Id : workers[i] = e

\* Who began a start before a calm shutdown has ended it, and a registered worker that still has
\* a process has yet to be copied or to be stopped.
CalmInv ==
    masterState \in {"stopping", "stopped"} /\ calm =>
        /\ \A c \in Client : ~StartUnderWay(c)
        /\ \A e \in Entry : restart[e] = "off" /\ Registered(e) /\ HasProcess(e) =>
              \/ pc[Runner] = "copyWorkers"
              \/ e \in toStop
              \/ entry[Runner] = e /\ pc[Runner] \in {"pcStop", "planStop"}

\* Every step keeps what is known of the unregistered.
LEMMA UnknownStep == OpInv /\ UnknownInv /\ [Next]_vars => UnknownInv'
<1> SUFFICES ASSUME OpInv, UnknownInv, [Next]_vars PROVE UnknownInv'
  OBVIOUS
<1> USE ConstantsOK DEF OpInv, TypeOK, Actor,
             process, GetsProcess, MayLeave, LosesProcess, Reports
<1>1. ASSUME NEW c \in Client, AddWorker(c) PROVE UnknownInv'
  BY <1>1 DEF AddWorker, local, UnknownInv, LocalInv
<1>2. ASSUME NEW c \in Client, RemoveWorker(c) PROVE UnknownInv'
  BY <1>2 DEF RemoveWorker, Lookup, GoTo, worker, UnknownInv, LocalInv
<1>3. ASSUME NEW c \in Client, StartWorker(c) PROVE UnknownInv'
  BY <1>3 DEF StartWorker, Lookup, GoTo, worker, UnknownInv, LocalInv
<1>4. ASSUME NEW c \in Client, StopWorker(c) PROVE UnknownInv'
  BY <1>4 DEF StopWorker, Lookup, GoTo, worker, UnknownInv, LocalInv
<1>5. ASSUME NEW c \in Client, CheckRemovable(c) PROVE UnknownInv'
  BY <1>5 DEF CheckRemovable, Continue, Return, GoTo, worker, UnknownInv, LocalInv
<1>6. ASSUME NEW c \in Client, Delete(c) PROVE UnknownInv'
  BY <1>6 DEF Delete, Return, GoTo, UnknownInv, LocalInv
<1>7. ASSUME NEW c \in Client, ValidateStart(c) PROVE UnknownInv'
  BY <1>7 DEF ValidateStart, Continue, Return, GoTo, worker, UnknownInv, LocalInv
<1>8. ASSUME NEW c \in Client, ToStarting(c) PROVE UnknownInv'
  BY <1>8 DEF ToStarting, Transition, CanTransition, validTransitions, Continue, Return, GoTo,
     worker, UnknownInv, LocalInv
<1>9. ASSUME NEW c \in Client, PcStart(c) PROVE UnknownInv'
  BY <1>9 DEF PcStart, Continue, Return, GoTo, worker, UnknownInv, LocalInv
<1>10. ASSUME NEW c \in Client, PcStarted(c) PROVE UnknownInv'
  BY <1>10 DEF PcStarted, Continue, Return, GoTo, worker, UnknownInv, LocalInv
<1>11. ASSUME NEW c \in Client, ToRunning(c) PROVE UnknownInv'
  BY <1>11 DEF ToRunning, Finish, Transition, CanTransition, validTransitions, Return, GoTo,
     worker, UnknownInv, LocalInv
<1>12. ASSUME NEW c \in Client, StartFailed(c) PROVE UnknownInv'
  BY <1>12 DEF StartFailed, Finish, Transition, CanTransition, validTransitions, Return, GoTo,
     worker, UnknownInv, LocalInv
<1>13. ASSUME NEW c \in Client, ValidateStop(c) PROVE UnknownInv'
  BY <1>13 DEF ValidateStop, Continue, Return, GoTo, worker, UnknownInv, LocalInv
<1>14. ASSUME NEW c \in Client, ToStopping(c) PROVE UnknownInv'
  BY <1>14 DEF ToStopping, Transition, CanTransition, validTransitions, Continue, Return, GoTo,
     worker, UnknownInv, LocalInv
<1>15. ASSUME NEW c \in Client, ToStopped(c) PROVE UnknownInv'
  BY <1>15 DEF ToStopped, Finish, Transition, CanTransition, validTransitions, Return, GoTo,
     worker, UnknownInv, LocalInv
<1>16. ASSUME NEW c \in Client, StopFailed(c) PROVE UnknownInv'
  BY <1>16 DEF StopFailed, Finish, Transition, CanTransition, validTransitions, Return, GoTo,
     worker, UnknownInv, LocalInv
<1>17. ASSUME NEW a \in Actor, PcStop(a) PROVE UnknownInv'
  BY <1>17 DEF PcStop, Stopped, Done, Continue, Return, GoTo, worker, UnknownInv, LocalInv
<1>18. ASSUME NEW a \in Actor, PlanStop(a) PROVE UnknownInv'
  BY <1>18 DEF PlanStop, Stopped, Done, Continue, Return, GoTo, worker, UnknownInv, LocalInv
<1>19. ASSUME NEW a \in Actor, WaitStop(a) PROVE UnknownInv'
  BY <1>19 DEF WaitStop, Stopped, Done, Continue, Return, GoTo, worker, UnknownInv, LocalInv
<1>20. ASSUME NEW e \in Entry, RequestRestart(e) PROVE UnknownInv'
  BY <1>20 DEF RequestRestart, RestartGoTo, worker, local, UnknownInv, LocalInv
<1>21. ASSUME NEW e \in Entry, RestartStop(e) PROVE UnknownInv'
  BY <1>21 DEF RestartStop, RestartGoTo, worker, local, UnknownInv, LocalInv
<1>22. ASSUME NEW e \in Entry, RestartStopped(e) PROVE UnknownInv'
  BY <1>22 DEF RestartStopped, RestartGoTo, worker, local, UnknownInv, LocalInv
<1>23. ASSUME NEW e \in Entry, RestartStart(e) PROVE UnknownInv'
  BY <1>23 DEF RestartStart, RestartGoTo, worker, local, UnknownInv, LocalInv
<1>24. ASSUME NEW e \in Entry, RestartStarted(e) PROVE UnknownInv'
  BY <1>24 DEF RestartStarted, RestartGoTo, worker, local, UnknownInv, LocalInv
<1>25. ASSUME Start PROVE UnknownInv'
  BY <1>25 DEF Start, local, UnknownInv, LocalInv
<1>26. ASSUME Stop PROVE UnknownInv'
  BY <1>26 DEF Stop, Continue, Return, GoTo, worker, UnknownInv, LocalInv
<1>27. ASSUME CopyWorkers PROVE UnknownInv'
  BY <1>27 DEF CopyWorkers, Continue, Return, GoTo, worker, UnknownInv, LocalInv
<1>28. ASSUME StopNext PROVE UnknownInv'
  BY <1>28 DEF StopNext, Continue, Return, GoTo, worker, UnknownInv, LocalInv
<1>29. CASE UNCHANGED vars
  BY <1>29 DEF vars, worker, local, UnknownInv, LocalInv
<1>30. ASSUME NEW e \in Entry, ProcessExits(e) PROVE UnknownInv'
  BY <1>30 DEF ProcessExits, worker, local, UnknownInv, LocalInv
<1> QED
  BY <1>1, <1>2, <1>3, <1>4, <1>5, <1>6, <1>7, <1>8, <1>9, <1>10, <1>11, <1>12, <1>13, <1>14,
     <1>15, <1>16, <1>17, <1>18, <1>19, <1>20, <1>21, <1>22, <1>23, <1>24, <1>25, <1>26, <1>27,
     <1>28, <1>29, <1>30 DEF Next, Operate, ClientStep, StopProcess, RestartStep

\* Every step keeps the state of the master and the step of its goroutine together.
LEMMA ShutdownStep == OpInv /\ ShutdownInv /\ [Next]_vars => ShutdownInv'
<1> SUFFICES ASSUME OpInv, ShutdownInv, [Next]_vars PROVE ShutdownInv'
  OBVIOUS
<1> USE ConstantsOK DEF OpInv, TypeOK, Actor,
             process, GetsProcess, MayLeave, LosesProcess, Reports
<1>1. ASSUME NEW c \in Client, AddWorker(c) PROVE ShutdownInv'
  BY <1>1 DEF AddWorker, local, ShutdownInv, LocalInv, MasterState
<1>2. ASSUME NEW c \in Client, RemoveWorker(c) PROVE ShutdownInv'
  BY <1>2 DEF RemoveWorker, Lookup, GoTo, worker, ShutdownInv, LocalInv, MasterState
<1>3. ASSUME NEW c \in Client, StartWorker(c) PROVE ShutdownInv'
  BY <1>3 DEF StartWorker, Lookup, GoTo, worker, ShutdownInv, LocalInv, MasterState
<1>4. ASSUME NEW c \in Client, StopWorker(c) PROVE ShutdownInv'
  BY <1>4 DEF StopWorker, Lookup, GoTo, worker, ShutdownInv, LocalInv, MasterState
<1>5. ASSUME NEW c \in Client, CheckRemovable(c) PROVE ShutdownInv'
  BY <1>5 DEF CheckRemovable, Continue, Return, GoTo, worker, ShutdownInv, LocalInv, MasterState
<1>6. ASSUME NEW c \in Client, Delete(c) PROVE ShutdownInv'
  BY <1>6 DEF Delete, Return, GoTo, ShutdownInv, LocalInv, MasterState
<1>7. ASSUME NEW c \in Client, ValidateStart(c) PROVE ShutdownInv'
  BY <1>7 DEF ValidateStart, Continue, Return, GoTo, worker, ShutdownInv, LocalInv, MasterState
<1>8. ASSUME NEW c \in Client, ToStarting(c) PROVE ShutdownInv'
  BY <1>8 DEF ToStarting, Transition, CanTransition, validTransitions, Continue, Return, GoTo,
     worker, ShutdownInv, LocalInv, MasterState
<1>9. ASSUME NEW c \in Client, PcStart(c) PROVE ShutdownInv'
  BY <1>9 DEF PcStart, Continue, Return, GoTo, worker, ShutdownInv, LocalInv, MasterState
<1>10. ASSUME NEW c \in Client, PcStarted(c) PROVE ShutdownInv'
  BY <1>10 DEF PcStarted, Continue, Return, GoTo, worker, ShutdownInv, LocalInv, MasterState
<1>11. ASSUME NEW c \in Client, ToRunning(c) PROVE ShutdownInv'
  BY <1>11 DEF ToRunning, Finish, Transition, CanTransition, validTransitions, Return, GoTo,
     worker, ShutdownInv, LocalInv, MasterState
<1>12. ASSUME NEW c \in Client, StartFailed(c) PROVE ShutdownInv'
  BY <1>12 DEF StartFailed, Finish, Transition, CanTransition, validTransitions, Return, GoTo,
     worker, ShutdownInv, LocalInv, MasterState
<1>13. ASSUME NEW c \in Client, ValidateStop(c) PROVE ShutdownInv'
  BY <1>13 DEF ValidateStop, Continue, Return, GoTo, worker, ShutdownInv, LocalInv, MasterState
<1>14. ASSUME NEW c \in Client, ToStopping(c) PROVE ShutdownInv'
  BY <1>14 DEF ToStopping, Transition, CanTransition, validTransitions, Continue, Return, GoTo,
     worker, ShutdownInv, LocalInv, MasterState
<1>15. ASSUME NEW c \in Client, ToStopped(c) PROVE ShutdownInv'
  BY <1>15 DEF ToStopped, Finish, Transition, CanTransition, validTransitions, Return, GoTo,
     worker, ShutdownInv, LocalInv, MasterState
<1>16. ASSUME NEW c \in Client, StopFailed(c) PROVE ShutdownInv'
  BY <1>16 DEF StopFailed, Finish, Transition, CanTransition, validTransitions, Return, GoTo,
     worker, ShutdownInv, LocalInv, MasterState
<1>17. ASSUME NEW a \in Actor, PcStop(a) PROVE ShutdownInv'
  BY <1>17 DEF PcStop, Stopped, Done, Continue, Return, GoTo, worker, ShutdownInv, LocalInv,
     MasterState
<1>18. ASSUME NEW a \in Actor, PlanStop(a) PROVE ShutdownInv'
  BY <1>18 DEF PlanStop, Stopped, Done, Continue, Return, GoTo, worker, ShutdownInv, LocalInv,
     MasterState
<1>19. ASSUME NEW a \in Actor, WaitStop(a) PROVE ShutdownInv'
  BY <1>19 DEF WaitStop, Stopped, Done, Continue, Return, GoTo, worker, ShutdownInv, LocalInv,
     MasterState
<1>20. ASSUME NEW e \in Entry, RequestRestart(e) PROVE ShutdownInv'
  BY <1>20 DEF RequestRestart, RestartGoTo, worker, local, ShutdownInv, LocalInv, MasterState
<1>21. ASSUME NEW e \in Entry, RestartStop(e) PROVE ShutdownInv'
  BY <1>21 DEF RestartStop, RestartGoTo, worker, local, ShutdownInv, LocalInv, MasterState
<1>22. ASSUME NEW e \in Entry, RestartStopped(e) PROVE ShutdownInv'
  BY <1>22 DEF RestartStopped, RestartGoTo, worker, local, ShutdownInv, LocalInv, MasterState
<1>23. ASSUME NEW e \in Entry, RestartStart(e) PROVE ShutdownInv'
  BY <1>23 DEF RestartStart, RestartGoTo, worker, local, ShutdownInv, LocalInv, MasterState
<1>24. ASSUME NEW e \in Entry, RestartStarted(e) PROVE ShutdownInv'
  BY <1>24 DEF RestartStarted, RestartGoTo, worker, local, ShutdownInv, LocalInv, MasterState
<1>25. ASSUME Start PROVE ShutdownInv'
  BY <1>25 DEF Start, local, ShutdownInv, LocalInv, MasterState
<1>26. ASSUME Stop PROVE ShutdownInv'
  BY <1>26 DEF Stop, Continue, Return, GoTo, worker, ShutdownInv, LocalInv, MasterState
<1>27. ASSUME CopyWorkers PROVE ShutdownInv'
  BY <1>27 DEF CopyWorkers, Continue, Return, GoTo, worker, ShutdownInv, LocalInv, MasterState
<1>28. ASSUME StopNext PROVE ShutdownInv'
  BY <1>28 DEF StopNext, Continue, Return, GoTo, worker, ShutdownInv, LocalInv, MasterState
<1>29. CASE UNCHANGED vars
  BY <1>29 DEF vars, worker, local, ShutdownInv, LocalInv, MasterState
<1>30. ASSUME NEW e \in Entry, ProcessExits(e) PROVE ShutdownInv'
  BY <1>30 DEF ProcessExits, worker, local, ShutdownInv, LocalInv, MasterState
<1> QED
  BY <1>1, <1>2, <1>3, <1>4, <1>5, <1>6, <1>7, <1>8, <1>9, <1>10, <1>11, <1>12, <1>13, <1>14,
     <1>15, <1>16, <1>17, <1>18, <1>19, <1>20, <1>21, <1>22, <1>23, <1>24, <1>25, <1>26, <1>27,
     <1>28, <1>29, <1>30 DEF Next, Operate, ClientStep, StopProcess, RestartStep

\* Every step of a calm shutdown leaves what has a process to the steps that follow.
LEMMA CalmStep ==
    IInv /\ UnknownInv /\ ShutdownInv /\ CalmInv /\ [Next]_vars => CalmInv'
<1> SUFFICES ASSUME IInv, UnknownInv, ShutdownInv, CalmInv, [Next]_vars PROVE CalmInv'
  OBVIOUS
<1> USE ConstantsOK DEF IInv, OpInv, TypeOK, Actor,
             process, GetsProcess, MayLeave, LosesProcess, Reports
<1>1. ASSUME NEW c \in Client, AddWorker(c) PROVE CalmInv'
  BY <1>1 DEF AddWorker, local, CalmInv, Registered, HasProcess, StartUnderWay, StartStep,
     StopStep, LocalInv, ShutdownInv, UnknownInv, ControlInv
<1>2. ASSUME NEW c \in Client, RemoveWorker(c) PROVE CalmInv'
  BY <1>2 DEF RemoveWorker, Lookup, GoTo, worker, CalmInv, Registered, HasProcess,
     StartUnderWay, StartStep, StopStep, LocalInv, ShutdownInv, UnknownInv, ControlInv
<1>3. ASSUME NEW c \in Client, StartWorker(c) PROVE CalmInv'
  BY <1>3 DEF StartWorker, Lookup, GoTo, worker, CalmInv, Registered, HasProcess, StartUnderWay,
     StartStep, StopStep, LocalInv, ShutdownInv, UnknownInv, ControlInv
<1>4. ASSUME NEW c \in Client, StopWorker(c) PROVE CalmInv'
  BY <1>4 DEF StopWorker, Lookup, GoTo, worker, CalmInv, Registered, HasProcess, StartUnderWay,
     StartStep, StopStep, LocalInv, ShutdownInv, UnknownInv, ControlInv
<1>5. ASSUME NEW c \in Client, CheckRemovable(c) PROVE CalmInv'
  BY <1>5 DEF CheckRemovable, Continue, Return, GoTo, worker, CalmInv, Registered, HasProcess,
     StartUnderWay, StartStep, StopStep, LocalInv, ShutdownInv, UnknownInv, ControlInv
<1>6. ASSUME NEW c \in Client, Delete(c) PROVE CalmInv'
  BY <1>6 DEF Delete, Return, GoTo, CalmInv, Registered, HasProcess, StartUnderWay, StartStep,
     StopStep, LocalInv, ShutdownInv, UnknownInv, ControlInv
<1>7. ASSUME NEW c \in Client, ValidateStart(c) PROVE CalmInv'
  BY <1>7 DEF ValidateStart, Continue, Return, GoTo, worker, CalmInv, Registered, HasProcess,
     StartUnderWay, StartStep, StopStep, LocalInv, ShutdownInv, UnknownInv, ControlInv
<1>8. ASSUME NEW c \in Client, ToStarting(c) PROVE CalmInv'
  BY <1>8 DEF ToStarting, Transition, CanTransition, validTransitions, Continue, Return, GoTo,
     worker, CalmInv, Registered, HasProcess, StartUnderWay, StartStep, StopStep, LocalInv,
     ShutdownInv, UnknownInv, ControlInv
<1>9. ASSUME NEW c \in Client, PcStart(c) PROVE CalmInv'
  BY <1>9 DEF PcStart, Continue, Return, GoTo, worker, CalmInv, Registered, HasProcess,
     StartUnderWay, StartStep, StopStep, LocalInv, ShutdownInv, UnknownInv, ControlInv
<1>10. ASSUME NEW c \in Client, PcStarted(c) PROVE CalmInv'
  BY <1>10 DEF PcStarted, Continue, Return, GoTo, worker, CalmInv, Registered, HasProcess,
     StartUnderWay, StartStep, StopStep, LocalInv, ShutdownInv, UnknownInv, ControlInv
<1>11. ASSUME NEW c \in Client, ToRunning(c) PROVE CalmInv'
  BY <1>11 DEF ToRunning, Finish, Transition, CanTransition, validTransitions, Return, GoTo,
     worker, CalmInv, Registered, HasProcess, StartUnderWay, StartStep, StopStep, LocalInv,
     ShutdownInv, UnknownInv, ControlInv
<1>12. ASSUME NEW c \in Client, StartFailed(c) PROVE CalmInv'
  BY <1>12 DEF StartFailed, Finish, Transition, CanTransition, validTransitions, Return, GoTo,
     worker, CalmInv, Registered, HasProcess, StartUnderWay, StartStep, StopStep, LocalInv,
     ShutdownInv, UnknownInv, ControlInv
<1>13. ASSUME NEW c \in Client, ValidateStop(c) PROVE CalmInv'
  BY <1>13 DEF ValidateStop, Continue, Return, GoTo, worker, CalmInv, Registered, HasProcess,
     StartUnderWay, StartStep, StopStep, LocalInv, ShutdownInv, UnknownInv, ControlInv
<1>14. ASSUME NEW c \in Client, ToStopping(c) PROVE CalmInv'
  BY <1>14 DEF ToStopping, Transition, CanTransition, validTransitions, Continue, Return, GoTo,
     worker, CalmInv, Registered, HasProcess, StartUnderWay, StartStep, StopStep, LocalInv,
     ShutdownInv, UnknownInv, ControlInv
<1>15. ASSUME NEW c \in Client, ToStopped(c) PROVE CalmInv'
  BY <1>15 DEF ToStopped, Finish, Transition, CanTransition, validTransitions, Return, GoTo,
     worker, CalmInv, Registered, HasProcess, StartUnderWay, StartStep, StopStep, LocalInv,
     ShutdownInv, UnknownInv, ControlInv
<1>16. ASSUME NEW c \in Client, StopFailed(c) PROVE CalmInv'
  BY <1>16 DEF StopFailed, Finish, Transition, CanTransition, validTransitions, Return, GoTo,
     worker, CalmInv, Registered, HasProcess, StartUnderWay, StartStep, StopStep, LocalInv,
     ShutdownInv, UnknownInv, ControlInv
<1>17. ASSUME NEW a \in Actor, PcStop(a) PROVE CalmInv'
  BY <1>17 DEF PcStop, Stopped, Done, Continue, Return, GoTo, worker, CalmInv, Registered,
     HasProcess, StartUnderWay, StartStep, StopStep, LocalInv, ShutdownInv, UnknownInv,
     ControlInv
<1>18. ASSUME NEW a \in Actor, PlanStop(a) PROVE CalmInv'
  BY <1>18 DEF PlanStop, Stopped, Done, Continue, Return, GoTo, worker, CalmInv, Registered,
     HasProcess, StartUnderWay, StartStep, StopStep, LocalInv, ShutdownInv, UnknownInv,
     ControlInv
<1>19. ASSUME NEW a \in Actor, WaitStop(a) PROVE CalmInv'
  BY <1>19 DEF WaitStop, Stopped, Done, Continue, Return, GoTo, worker, CalmInv, Registered,
     HasProcess, StartUnderWay, StartStep, StopStep, LocalInv, ShutdownInv, UnknownInv,
     ControlInv
<1>20. ASSUME NEW e \in Entry, RequestRestart(e) PROVE CalmInv'
  BY <1>20 DEF RequestRestart, RestartGoTo, worker, local, CalmInv, Registered, HasProcess,
     StartUnderWay, StartStep, StopStep, LocalInv, ShutdownInv, UnknownInv, ControlInv
<1>21. ASSUME NEW e \in Entry, RestartStop(e) PROVE CalmInv'
  <2>1. /\ restart'[e] # "off"
        /\ \A f \in Entry : f # e => restart'[f] = restart[f] /\ control'[f] = control[f]
        /\ UNCHANGED <<worker, wstate, local>>
    BY <1>21 DEF RestartStop, RestartGoTo
  <2> QED
    BY <2>1 DEF worker, local, CalmInv, Registered, HasProcess, StartUnderWay
<1>22. ASSUME NEW e \in Entry, RestartStopped(e) PROVE CalmInv'
  BY <1>22 DEF RestartStopped, RestartGoTo, worker, local, CalmInv, Registered, HasProcess,
     StartUnderWay, StartStep, StopStep, LocalInv, ShutdownInv, UnknownInv, ControlInv
<1>23. ASSUME NEW e \in Entry, RestartStart(e) PROVE CalmInv'
  <2>1. /\ restart'[e] # "off"
        /\ \A f \in Entry : f # e => restart'[f] = restart[f] /\ control'[f] = control[f]
        /\ UNCHANGED <<worker, wstate, local>>
    BY <1>23 DEF RestartStart, RestartGoTo
  <2> QED
    BY <2>1 DEF worker, local, CalmInv, Registered, HasProcess, StartUnderWay
<1>24. ASSUME NEW e \in Entry, RestartStarted(e) PROVE CalmInv'
  <2>1. /\ restart'[e] # "off"
        /\ \A f \in Entry : f # e => restart'[f] = restart[f] /\ control'[f] = control[f]
        /\ UNCHANGED <<worker, wstate, local>>
    BY <1>24 DEF RestartStarted, RestartGoTo
  <2> QED
    BY <2>1 DEF worker, local, CalmInv, Registered, HasProcess, StartUnderWay
<1>25. ASSUME Start PROVE CalmInv'
  BY <1>25 DEF Start, local, CalmInv, Registered, HasProcess, StartUnderWay, StartStep,
     StopStep, LocalInv, ShutdownInv, UnknownInv, ControlInv
<1>26. ASSUME Stop PROVE CalmInv'
  BY <1>26 DEF Stop, Continue, Return, GoTo, worker, CalmInv, Registered, HasProcess,
     StartUnderWay, StartStep, StopStep, LocalInv, ShutdownInv, UnknownInv, ControlInv
<1>27. ASSUME CopyWorkers PROVE CalmInv'
  BY <1>27 DEF CopyWorkers, Continue, Return, GoTo, worker, CalmInv, Registered, HasProcess,
     StartUnderWay, StartStep, StopStep, LocalInv, ShutdownInv, UnknownInv, ControlInv
<1>28. ASSUME StopNext PROVE CalmInv'
  BY <1>28 DEF StopNext, Continue, Return, GoTo, worker, CalmInv, Registered, HasProcess,
     StartUnderWay, StartStep, StopStep, LocalInv, ShutdownInv, UnknownInv, ControlInv
<1>29. CASE UNCHANGED vars
  BY <1>29 DEF vars, worker, local, CalmInv, Registered, HasProcess, StartUnderWay, StartStep, StopStep, LocalInv, ShutdownInv, UnknownInv, ControlInv
<1>30. ASSUME NEW e \in Entry, ProcessExits(e) PROVE CalmInv'
  BY <1>30 DEF ProcessExits, worker, local, CalmInv, Registered, HasProcess, StartUnderWay, StartStep,
     StopStep, LocalInv, ShutdownInv, UnknownInv, ControlInv
<1> QED
  BY <1>1, <1>2, <1>3, <1>4, <1>5, <1>6, <1>7, <1>8, <1>9, <1>10, <1>11, <1>12, <1>13, <1>14,
     <1>15, <1>16, <1>17, <1>18, <1>19, <1>20, <1>21, <1>22, <1>23, <1>24, <1>25, <1>26, <1>27,
     <1>28, <1>29, <1>30 DEF Next, Operate, ClientStep, StopProcess, RestartStep

\* All that is inductive about the shutdown.
ShutdownParts == IInv /\ UnknownInv /\ ShutdownInv /\ CalmInv

\* It holds in every state.
THEOREM ShutdownPartsHold == Spec => []ShutdownParts
<1>1. Init => UnknownInv /\ ShutdownInv /\ CalmInv
  BY ConstantsOK DEF Init, UnknownInv, ShutdownInv, CalmInv, Actor
<1>2. IInv /\ UnknownInv /\ ShutdownInv /\ CalmInv /\ [Next]_vars =>
         UnknownInv' /\ ShutdownInv' /\ CalmInv'
  BY UnknownStep, ShutdownStep, CalmStep DEF IInv
<1> QED
  BY <1>1, <1>2, IInvHolds, PTL DEF Spec, ShutdownParts

\* A calm shutdown leaves no registered worker without restarts with a process that is not being
\* stopped, or was not reported.
THEOREM ShutdownStopsHolds == Spec => []ShutdownStops
<1>1. ShutdownParts /\ WhereInv => ShutdownStops
  <2> SUFFICES ASSUME ShutdownParts, WhereInv, masterState = "stopped", calm, NEW e \in Entry,
                      restart[e] = "off", Registered(e)
               PROVE  AtRest(e) /\ (e \in left => e \in reported \/ wstate[e] = "stopping")
    BY DEF ShutdownStops, Registered
  <2>1. pc[Runner] = "ready" /\ toStop = {}
    BY DEF ShutdownParts, ShutdownInv
  <2>2. ~HasProcess(e) /\ \A c \in Client : ~StartUnderWay(c)
    BY <2>1 DEF ShutdownParts, CalmInv
  <2>3. AtRest(e)
    BY <2>2 DEF WhereInv, AtRest, HasProcess
  <2>4. ASSUME e \in left, e \notin reported
        PROVE  wstate[e] = "stopping"
    <3>1. PICK c \in Client : entry[c] = e /\ pc[c] \in {"startFailed", "stopFailed"}
      BY <2>4 DEF WhereInv
    <3>2. pc[c] = "stopFailed"
      BY <2>2, <3>1 DEF StartUnderWay, StartStep
    <3> QED
      BY <3>1, <3>2 DEF ShutdownParts, IInv, OpInv, OneOperation, Operating, StartStep, StopStep
  <2> QED
    BY <2>3, <2>4
<1> QED
  BY <1>1, ShutdownPartsHold, WhereInvHolds, PTL
====
