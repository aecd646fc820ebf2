----------------------------- MODULE LaunchProofs -----------------------------
(***************************************************************************)
(* Theorems about Launch, for every configuration, environment and set of  *)
(* workers, PIDs and ports.  Inv says what the files, the process controls *)
(* and the losses have to do with the processes there are; it is inductive *)
(* and implies the invariants of Launch.                                   *)
(***************************************************************************)
EXTENDS Launch, TLAPS

\* The parts of TypeSystem.
FilesTyped == \A path \in DOMAIN files : files[path] \in Pid \cup Port \cup {Empty}
ProcessesTyped ==
    /\ who \in [Pid -> Worker \cup {Other, Nobody}]
    /\ told \in [Pid -> Port \cup {Empty}]
    /\ seen \subseteq Pid /\ reused \subseteq seen
    /\ \A p \in Pid : Alive(p) => p \in seen
LossesTyped == \A p \in lost \cup portLost : p \in Pid /\ who[p] \in Worker

UpAdmitted == run = "up" => Admitted(config)

\* A file holds a PID of a process that has it there, whatever became of the PID.
FilesOwned ==
    \A path \in DOMAIN files : files[path] \in Pid =>
        /\ files[path] \in seen
        /\ \/ files[path] \in reused
           \/ who[files[path]] = Nobody
           \/ who[files[path]] \in Worker /\ path \in PidFiles(who[files[path]])

\* A process control has a process of its worker, but for one it attached to.
ProcsOwned ==
    \A w \in Worker : proc[w] \in Pid =>
        /\ proc[w] \in seen
        /\ \/ proc[w] \in reused
           \/ who[proc[w]] \in {w, Nobody}
           \/ pc[w] \notin PortWindow /\ who[proc[w]] \in Worker /\ ShareFile(who[proc[w]], w)

\* A process that is not lost is found, or its PID is being written.
Recorded ==
    \A p \in Pid : who[p] \in Worker /\ Executes(who[p]) =>
        \/ At(PidFile(who[p], env)) = p
        \/ p \in lost
        \/ proc[who[p]] = p /\ pc[who[p]] \in PidWindow

\* A process is executed, and its files are written, only after all others were lost; a start
\* that attaches to a process finds no other one either.
OthersLost ==
    \A w \in Worker, p \in Pid : Executes(w) /\ who[p] = w =>
        /\ pc[w] = "execute" => p \in lost
        /\ pc[w] \in PortWindow \cup {"ready"} \/ control[w] = "running"
              => p = proc[w] \/ p \in lost

\* All processes of a worker but one are lost.
AtMostOne ==
    \A w \in Worker : Executes(w) =>
        \A p, q \in ProcessesOf(w) : p # q => p \in lost \/ q \in lost

PortsTold == \A p \in Pid : who[p] \in Worker /\ Integrated(who[p]) => told[p] \in Port

PortsRecorded ==
    \A p \in Pid : who[p] \in Worker /\ Integrated(who[p]) =>
        \/ At(PortFile(who[p], env)) = told[p]
        \/ p \in lost \cup portLost
        \/ proc[who[p]] = p /\ pc[who[p]] \in PortWindow

PortsKnown ==
    \A w \in Worker : Integrated(w) /\ proc[w] \in Pid /\ who[proc[w]] = w =>
        port[w] = told[proc[w]] \/ proc[w] \in lost \cup portLost

Inv ==
    /\ TypeSystem /\ TypeControls /\ ControlsOfWorkers
    /\ UpAdmitted
    /\ FilesOwned /\ ProcsOwned
    /\ Recorded /\ OthersLost /\ AtMostOne
    /\ PortsTold /\ PortsRecorded /\ PortsKnown
-----------------------------------------------------------------------------
\* The configuration does not change, nor what depends on it alone.
LEMMA SameConfig ==
  ASSUME Next \/ UNCHANGED vars
  PROVE  /\ config' = config
         /\ Names' = Names
         /\ \A w : (Executes(w)' <=> Executes(w)) /\ (Integrated(w)' <=> Integrated(w))
         /\ \A w, e : PidFile(w, e)' = PidFile(w, e) /\ PortFile(w, e)' = PortFile(w, e)
         /\ \A w : PidFiles(w)' = PidFiles(w)
         /\ \A v, w : ShareFile(v, w)' <=> ShareFile(v, w)
  <1>a. config' = config
    <2>1. ASSUME NEW e \in Env, Run(e)
           PROVE  config' = config
      BY <2>1 DEF Run, master, controls, system, losses
    <2>2. CASE Crash
      BY <2>2 DEF Crash, master, controls, system, losses
    <2>3. ASSUME NEW w \in Worker, StartStep(w) \/ Stop(w)
           PROVE  config' = config
      <3>1. CASE AttachCmd(w)
        BY <3>1, <2>3 DEF AttachCmd, Attach, CanStart, Goto, master, controls, system, losses
      <3>2. CASE AttachWithoutPort(w)
        BY <3>2, <2>3 DEF AttachWithoutPort, Attach, CanStart, Goto, master, controls, system,
           losses
      <3>3. CASE AttachCmdFails(w)
        BY <3>3, <2>3 DEF AttachCmdFails, AttachFails, CanStart, StartFailed, WithoutProcess, Goto,
           master, controls, system, losses
      <3>4. CASE PidUnreadable(w)
        BY <3>4, <2>3 DEF PidUnreadable, AttachFails, CanStart, StartFailed, WithoutProcess, Goto,
           master, controls, system, losses
      <3>5. ASSUME NEW p \in Pid, NEW q \in Port \cup {Empty}, ExecuteCmd(w, p, q)
             PROVE  config' = config
        BY <3>5, <2>3 DEF ExecuteCmd, Use, Goto, master, controls, system, losses
      <3>6. CASE ExecuteCmdFails(w)
        BY <3>6, <2>3 DEF ExecuteCmdFails, StartFailed, WithoutProcess, Goto, master, controls,
           system, losses
      <3>7. CASE TruncatePIDFile(w)
        BY <3>7, <2>3 DEF TruncatePIDFile, Truncate, Goto, master, controls, system, losses
      <3>8. CASE WritePIDFile(w)
        BY <3>8, <2>3 DEF WritePIDFile, Goto, master, controls, system, losses
      <3>9. CASE WritePIDFileFails(w)
        BY <3>9, <2>3 DEF WritePIDFileFails, Goto, master, controls, system, losses
      <3>10. CASE TruncatePortFile(w)
        BY <3>10, <2>3 DEF TruncatePortFile, Truncate, Goto, master, controls, system, losses
      <3>11. CASE WritePortFile(w)
        BY <3>11, <2>3 DEF WritePortFile, Goto, master, controls, system, losses
      <3>12. CASE WritePortFileFails(w)
        BY <3>12, <2>3 DEF WritePortFileFails, Goto, master, controls, system, losses
      <3>13. CASE Started(w)
        BY <3>13, <2>3 DEF Started, Goto, master, controls, system, losses
      <3>14. CASE Cancelled(w)
        BY <3>14, <2>3 DEF Cancelled, StartFailed, WithoutProcess, Goto, Signalled, Ends, master,
           controls, system, losses
      <3>15. CASE Stop(w)
        BY <3>15, <2>3 DEF Stop, WithoutProcess, Signalled, Ends, master, controls, system, losses
      <3> QED
        BY <2>3, <3>1, <3>2, <3>3, <3>4, <3>5, <3>6, <3>7, <3>8, <3>9, <3>10, <3>11, <3>12, <3>13,
           <3>14, <3>15 DEF StartStep
    <2>4. ASSUME NEW p \in Pid, Exit(p) \/ OtherStarts(p)
           PROVE  config' = config
      <3>1. CASE Exit(p)
        BY <3>1, <2>4 DEF Exit, Ends, master, controls, system, losses
      <3>2. CASE OtherStarts(p)
        BY <3>2, <2>4 DEF OtherStarts, Use, master, controls, system, losses
      <3> QED
        BY <2>4, <3>1, <3>2
    <2>5. ASSUME NEW w \in Worker, NEW p \in Pid, ServiceStarts(w, p)
           PROVE  config' = config
      BY <2>5 DEF ServiceStarts, Use, master, controls, system, losses
    <2>6. CASE UNCHANGED vars
      BY <2>6 DEF vars, master, controls, system, losses
    <2> QED
      BY <2>1, <2>2, <2>3, <2>4, <2>5, <2>6 DEF Next
  <1>b. workers' = workers
    BY <1>a DEF workers
  <1>c. Names' = Names
    BY <1>b DEF Names
  <1>d. \A w : (Executes(w)' <=> Executes(w)) /\ (Integrated(w)' <=> Integrated(w))
    BY <1>b DEF Executes, Integrated, WorkerOf, Names
  <1>e. \A w, e : PidFile(w, e)' = PidFile(w, e) /\ PortFile(w, e)' = PortFile(w, e)
    BY <1>b, <1>d DEF PidFile, PortFile, Manager, UnitFor, WorkerOf
  <1>f. \A w : PidFiles(w)' = PidFiles(w)
    BY <1>b, <1>d, <1>e DEF PidFiles, WorkerOf
  <1> QED
    BY <1>a, <1>c, <1>d, <1>e, <1>f DEF ShareFile

\* A file that the master writes is named after its worker and its content, so that no two
\* workers that it executes share one.
LEMMA Paths ==
  \A w, e : /\ Executes(w) => PidFile(w, e).name = w /\ PidFile(w, e).ext = ".pid"
            /\ PortFile(w, e).name = w /\ PortFile(w, e).ext = ".port"
  BY DEF PidFile, PortFile, GeneratePIDFilePath, GeneratePortFilePath, generateFilePath

\* The types that the defaults of a configuration keep.
LEMMA RestartTyped ==
  ASSUME NEW r \in ContextAwareRestartConfig
  PROVE  setRestartDefaults(r) \in ContextAwareRestartConfig
  <1> DEFINE d == [maxRetries |-> Or(r.default.maxRetries, 3),
                   retryDelay |-> Or(r.default.retryDelay, 5),
                   backoffRate |-> Or(r.default.backoffRate, 3)]
             v == [maxRetries |-> d.maxRetries + 2, retryDelay |-> d.retryDelay * 2,
                   backoffRate |-> 3]
  <1>1. r.default \in RestartConfig /\ r.healthFailures \in Optional(RestartConfig)
          /\ r.resourceViolations \in Optional(RestartConfig)
          /\ r.startupGracePeriod \in Int /\ r.sustainedViolationTime \in Int
    BY DEF ContextAwareRestartConfig
  <1>2. d \in RestartConfig
    BY <1>1 DEF RestartConfig, Or
  <1>3. v \in RestartConfig
    BY <1>2 DEF RestartConfig
  <1>4. ASSUME NEW s \in Optional(RestartConfig), NEW x \in RestartConfig
        PROVE  OrElse(s, x) \in Optional(RestartConfig)
    BY DEF Optional, OrElse
  <1>5. OrElse(r.healthFailures, d) \in Optional(RestartConfig)
    BY <1>1, <1>2, <1>4
  <1>6. OrElse(r.resourceViolations, v) \in Optional(RestartConfig)
    BY <1>1, <1>3, <1>4
  <1>7. Or(r.startupGracePeriod, 120) \in Int /\ Or(r.sustainedViolationTime, 300) \in Int
    BY <1>1 DEF Or
  <1>8. setRestartDefaults(r) =
          [r EXCEPT !.default = d, !.healthFailures = OrElse(r.healthFailures, d),
                    !.resourceViolations = OrElse(r.resourceViolations, v),
                    !.startupGracePeriod = Or(r.startupGracePeriod, 120),
                    !.sustainedViolationTime = Or(r.sustainedViolationTime, 300)]
    BY DEF setRestartDefaults, ContextAwareRestartConfig
  <1>9. ASSUME NEW x \in RestartConfig, NEW f \in Optional(RestartConfig),
               NEW g \in Optional(RestartConfig), NEW s \in Int, NEW t \in Int
        PROVE  [r EXCEPT !.default = x, !.healthFailures = f, !.resourceViolations = g,
                         !.startupGracePeriod = s, !.sustainedViolationTime = t]
                  \in ContextAwareRestartConfig
    BY DEF ContextAwareRestartConfig
  <1> DEFINE f == OrElse(r.healthFailures, d)
             g == OrElse(r.resourceViolations, v)
             s == Or(r.startupGracePeriod, 120)
             t == Or(r.sustainedViolationTime, 300)
  <1>10. d \in RestartConfig /\ f \in Optional(RestartConfig) /\ g \in Optional(RestartConfig)
           /\ s \in Int /\ t \in Int
    BY <1>2, <1>5, <1>6, <1>7
  <1> HIDE DEF d, f, g, s, t
  <1>11. [r EXCEPT !.default = d, !.healthFailures = f, !.resourceViolations = g,
                   !.startupGracePeriod = s, !.sustainedViolationTime = t]
            \in ContextAwareRestartConfig
    BY <1>9, <1>10
  <1> QED
    BY <1>8, <1>11 DEF f, g, s, t

\* The restarts, and the PID files, that the units of a worker are configured for.
RestartsTyped(w) ==
    \A u \in w.managed \cup w.integrated : u.control.restart \in ContextAwareRestartConfig
GivenFilesTyped(w) == \A u \in w.unmanaged : u.discovery.pidFile \in GivenPath

\* They have the type that the code gives them, whatever the defaults change.
LEMMA UnitsTyped ==
  ASSUME NEW w \in WorkerRecord
  PROVE  RestartsTyped(setWorkerDefaults(w)) /\ GivenFilesTyped(setWorkerDefaults(w))
  <1>1. ASSUME NEW u \in ManagedUnit
        PROVE  /\ u.control.restart \in ContextAwareRestartConfig
               /\ setManagedUnitDefaults(u).control.restart = setRestartDefaults(u.control.restart)
    <2>1. u.control \in ManagedProcessControlConfig
      BY DEF ManagedUnit
    <2>2. u.control.restart \in ContextAwareRestartConfig
      BY <2>1 DEF ManagedProcessControlConfig
    <2>3. setManagedUnitDefaults(u).control.restart = setRestartDefaults(u.control.restart)
      BY <2>1 DEF ManagedUnit, ManagedProcessControlConfig, setManagedUnitDefaults
    <2> QED
      BY <2>2, <2>3
  <1>2. ASSUME NEW u \in IntegratedUnit
        PROVE  /\ u.control.restart \in ContextAwareRestartConfig
               /\ setIntegratedUnitDefaults(u).control.restart = u.control.restart
    BY DEF IntegratedUnit, ManagedProcessControlConfig, setIntegratedUnitDefaults
  <1>3. w.managed \subseteq ManagedUnit /\ w.integrated \subseteq IntegratedUnit
    BY DEF WorkerRecord, Optional
  <1>4. setWorkerDefaults(w).managed \in
          {w.managed, {setManagedUnitDefaults(u) : u \in w.managed}}
    BY DEF setWorkerDefaults, WorkerRecord
  <1>5. setWorkerDefaults(w).integrated \in
          {w.integrated, {setIntegratedUnitDefaults(u) : u \in w.integrated}}
    BY DEF setWorkerDefaults, WorkerRecord
  <1>6. ASSUME NEW u \in setWorkerDefaults(w).managed
        PROVE  u.control.restart \in ContextAwareRestartConfig
    BY <1>1, <1>3, <1>4, <1>6, RestartTyped
  <1>7. ASSUME NEW u \in setWorkerDefaults(w).integrated
        PROVE  u.control.restart \in ContextAwareRestartConfig
    BY <1>2, <1>3, <1>5, <1>7
  <1>8. ASSUME NEW u \in UnmanagedUnit
        PROVE  /\ u.discovery.pidFile \in GivenPath
               /\ setUnmanagedUnitDefaults(u).discovery.pidFile = u.discovery.pidFile
    BY DEF UnmanagedUnit, DiscoveryConfig, setUnmanagedUnitDefaults
  <1>9. w.unmanaged \subseteq UnmanagedUnit
    BY DEF WorkerRecord, Optional
  <1>10. setWorkerDefaults(w).unmanaged \in
           {w.unmanaged, {setUnmanagedUnitDefaults(u) : u \in w.unmanaged}}
    BY DEF setWorkerDefaults, WorkerRecord
  <1>11. ASSUME NEW u \in setWorkerDefaults(w).unmanaged
         PROVE  u.discovery.pidFile \in GivenPath
    BY <1>8, <1>9, <1>10, <1>11
  <1> QED
    BY <1>6, <1>7, <1>11 DEF RestartsTyped, GivenFilesTyped

\* So are the workers of every configuration that is loaded.
LEMMA WorkersTyped ==
  ASSUME TypeSystem, NEW x \in workers
  PROVE  RestartsTyped(x) /\ GivenFilesTyped(x)
  <1>1. PICK c \in Config : config = setConfigDefaults(c)
    BY DEF TypeSystem, LoadedConfig
  <1>2. c \in MasterConfig
    BY <1>1, LaunchOK
  <1>3. c.workers \in Seq(WorkerRecord)
    BY <1>2 DEF MasterConfig
  <1>4. config.workers = [i \in DOMAIN c.workers |-> setWorkerDefaults(c.workers[i])]
    BY <1>1, <1>2 DEF MasterConfig, setConfigDefaults
  <1>5. PICK i \in DOMAIN c.workers : x = setWorkerDefaults(c.workers[i])
    BY <1>4 DEF workers, CreateWorkers
  <1>6. c.workers[i] \in WorkerRecord
    BY <1>3, <1>5
  <1> QED
    BY <1>5, <1>6, UnitsTyped

\* The worker of an admitted configuration has the unit of its type.
LEMMA AdmittedUnit ==
  ASSUME Admitted(config), NEW x \in workers
  PROVE  /\ x.type = "managed" => UnitOf(x) \in x.managed /\ ValidateManagedUnit(UnitOf(x))
         /\ x.type = "unmanaged" => UnitOf(x) \in x.unmanaged /\ ValidateUnmanagedUnit(UnitOf(x))
         /\ x.type = "integrated" => UnitOf(x) \in x.integrated /\ Executable(UnitOf(x))
         /\ x.type \in Type
  <1>1. validateWorkerUnitConfig(x)
    BY DEF workers, CreateWorkers, Admitted, ValidateConfig, validateWorkersConfig
  <1>2. ASSUME NEW S, S # {}
        PROVE  (CHOOSE u \in S : TRUE) \in S
    BY <1>2
  <1>3. x.managed \cup x.unmanaged \cup x.integrated # {}
    BY <1>1 DEF validateWorkerUnitConfig, Type
  <1>4. UnitOf(x) \in x.managed \cup x.unmanaged \cup x.integrated
    BY <1>2, <1>3 DEF UnitOf
  <1> QED
    BY <1>1, <1>4 DEF validateWorkerUnitConfig, ValidateIntegratedUnit

\* The workers of an admitted configuration have names of their own.
LEMMA OnlyOfItsName ==
  ASSUME Admitted(config), NEW x \in workers, NEW y \in workers, x.id = y.id
  PROVE  x = y
  <1>1. PICK i \in DOMAIN config.workers : x = config.workers[i]
    BY DEF workers, CreateWorkers
  <1>2. PICK j \in DOMAIN config.workers : y = config.workers[j]
    BY DEF workers, CreateWorkers
  <1> QED
    BY <1>1, <1>2 DEF Admitted, ValidateConfig, validateWorkersConfig

\* A name stands for a worker that was created.
LEMMA NamedWorker ==
  ASSUME NEW w \in Names
  PROVE  WorkerOf(w) \in workers /\ WorkerOf(w).id = w
  <1>1. PICK x \in workers : x.id = w
    BY DEF Names
  <1> QED
    BY <1>1 DEF WorkerOf

\* A service does not write to the port file of a worker.
LEMMA ServicePaths ==
  ASSUME TypeSystem, NEW w \in Names, NEW unit \in WorkerOf(w).unmanaged
  PROVE  ServiceFile(unit).ext # ".port"
  <1>1. ServiceFile(unit) \in GivenPath
    BY NamedWorker, WorkersTyped DEF GivenFilesTyped, ServiceFile
  <1> QED
    BY <1>1 DEF GivenPath

\* The file in which the master looks for the PID of a worker is one of the worker's.
LEMMA OwnFile ==
  ASSUME Admitted(config), NEW w \in Names, env \in Env
  PROVE  PidFile(w, env) \in PidFiles(w)
  <1>1. CASE Executes(w)
    BY <1>1 DEF PidFiles
  <1>2. CASE ~Executes(w)
    <2>1. WorkerOf(w).type = "unmanaged" /\ WorkerOf(w) \in workers
      BY <1>2, NamedWorker DEF Executes
    <2>2. UnitFor(w) \in WorkerOf(w).unmanaged
      BY <2>1, AdmittedUnit DEF UnitFor
    <2> QED
      BY <1>2, <2>2 DEF PidFile, PidFiles
  <1> QED
    BY <1>1, <1>2

\* A process that is found by the file of a worker is its own, or shares the file with it.
LEMMA Found ==
  ASSUME TypeSystem, UpAdmitted, FilesOwned, NEW w \in Worker, CanStart(w), Running(w)
  PROVE  LET p == At(PidFile(w, env))
         IN  /\ p \in seen
             /\ \/ p \in reused
                \/ who[p] = w
                \/ who[p] \in Worker /\ ShareFile(who[p], w)
  <1> DEFINE path == PidFile(w, env)
             p == At(path)
  <1>1. path \in PidFiles(w)
    BY OwnFile DEF CanStart, UpAdmitted, TypeSystem
  <1>2. path \in DOMAIN files /\ p = files[path] /\ p \in Pid /\ who[p] # Nobody
    BY LaunchOK DEF Running, At, Alive
  <1>3. p \in seen /\ (p \in reused \/ (who[p] \in Worker /\ path \in PidFiles(who[p])))
    BY <1>2 DEF FilesOwned
  <1>4. ASSUME who[p] # w, path \in PidFiles(who[p]), Executes(who[p]), Executes(w)
        PROVE  FALSE
    BY <1>4, <1>1, Paths DEF PidFiles
  <1> QED
    BY <1>1, <1>3, <1>4 DEF ShareFile

-----------------------------------------------------------------------------
\* The workers of an admitted configuration are well named.
LEMMA NamesOfWorkers ==
  ASSUME Admitted(config)
  PROVE  Names \subseteq Worker
  BY DEF Admitted, ValidateConfig, validateWorkersConfig, ValidateWorkerID, CreateWorkers, Names, workers

\* The initial states.
LEMMA InvInit ==
  ASSUME Init
  PROVE  Inv
  <1>1. /\ \A p : who[p] \notin Worker \/ p \notin Pid
        /\ \A w \in Worker : proc[w] \notin Pid /\ pc[w] = "none"
    BY LaunchOK DEF Init, Idle
  <1>2. TypeSystem
    BY LaunchOK DEF Init, TypeSystem, Alive
  <1>3. TypeControls /\ ControlsOfWorkers
    BY LaunchOK DEF Init, Idle, TypeControls, ControlsOfWorkers
  <1>4. UpAdmitted /\ FilesOwned /\ ProcsOwned
    BY <1>1 DEF Init, UpAdmitted, FilesOwned, ProcsOwned
  <1>5. Recorded /\ PortsTold /\ PortsRecorded /\ PortsKnown
    BY <1>1 DEF Recorded, PortsTold, PortsRecorded, PortsKnown
  <1>6. OthersLost
    BY <1>1 DEF Init, Idle, OthersLost, PortWindow, PidWindow
  <1>7. AtMostOne
    BY <1>1 DEF AtMostOne, ProcessesOf
  <1> QED
    BY <1>2, <1>3, <1>4, <1>5, <1>6, <1>7 DEF Inv

\* An admitted configuration stays admitted.
LEMMA UpStep ==
  ASSUME Inv, Next \/ UNCHANGED vars
  PROVE  UpAdmitted'
  <1>1. ASSUME NEW e \in Env, Run(e)
         PROVE  UpAdmitted'
    BY <1>1, SameConfig DEF Run, Inv, UpAdmitted, master, controls, system, losses
  <1>2. CASE Crash
    BY <1>2, SameConfig DEF Crash, Inv, UpAdmitted, master, controls, system, losses
  <1>3. ASSUME NEW w \in Worker, StartStep(w) \/ Stop(w)
         PROVE  UpAdmitted'
    <2>1. CASE AttachCmd(w)
      BY <2>1, <1>3, SameConfig DEF AttachCmd, Attach, CanStart, Goto, Inv, UpAdmitted, master,
         controls, system, losses
    <2>2. CASE AttachWithoutPort(w)
      BY <2>2, <1>3, SameConfig DEF AttachWithoutPort, Attach, CanStart, Goto, Inv, UpAdmitted,
         master, controls, system, losses
    <2>3. CASE AttachCmdFails(w)
      BY <2>3, <1>3, SameConfig DEF AttachCmdFails, AttachFails, CanStart, StartFailed,
         WithoutProcess, Goto, Inv, UpAdmitted, master, controls, system, losses
    <2>4. CASE PidUnreadable(w)
      BY <2>4, <1>3, SameConfig DEF PidUnreadable, AttachFails, CanStart, StartFailed,
         WithoutProcess, Goto, Inv, UpAdmitted, master, controls, system, losses
    <2>5. ASSUME NEW p \in Pid, NEW q \in Port \cup {Empty}, ExecuteCmd(w, p, q)
           PROVE  UpAdmitted'
      BY <2>5, <1>3, SameConfig DEF ExecuteCmd, Use, Goto, Inv, UpAdmitted, master, controls,
         system, losses
    <2>6. CASE ExecuteCmdFails(w)
      BY <2>6, <1>3, SameConfig DEF ExecuteCmdFails, StartFailed, WithoutProcess, Goto, Inv,
         UpAdmitted, master, controls, system, losses
    <2>7. CASE TruncatePIDFile(w)
      BY <2>7, <1>3, SameConfig DEF TruncatePIDFile, Truncate, Goto, Inv, UpAdmitted, master,
         controls, system, losses
    <2>8. CASE WritePIDFile(w)
      BY <2>8, <1>3, SameConfig DEF WritePIDFile, Goto, Inv, UpAdmitted, master, controls,
         system, losses
    <2>9. CASE WritePIDFileFails(w)
      BY <2>9, <1>3, SameConfig DEF WritePIDFileFails, Goto, Inv, UpAdmitted, master, controls,
         system, losses
    <2>10. CASE TruncatePortFile(w)
      BY <2>10, <1>3, SameConfig DEF TruncatePortFile, Truncate, Goto, Inv, UpAdmitted, master,
         controls, system, losses
    <2>11. CASE WritePortFile(w)
      BY <2>11, <1>3, SameConfig DEF WritePortFile, Goto, Inv, UpAdmitted, master, controls,
         system, losses
    <2>12. CASE WritePortFileFails(w)
      BY <2>12, <1>3, SameConfig DEF WritePortFileFails, Goto, Inv, UpAdmitted, master, controls,
         system, losses
    <2>13. CASE Started(w)
      BY <2>13, <1>3, SameConfig DEF Started, Goto, Inv, UpAdmitted, master, controls, system,
         losses
    <2>14. CASE Cancelled(w)
      BY <2>14, <1>3, SameConfig DEF Cancelled, StartFailed, WithoutProcess, Goto, Signalled,
         Ends, Inv, UpAdmitted, master, controls, system, losses
    <2>15. CASE Stop(w)
      BY <2>15, <1>3, SameConfig DEF Stop, WithoutProcess, Signalled, Ends, Inv, UpAdmitted,
         master, controls, system, losses
    <2> QED
      BY <1>3, <2>1, <2>2, <2>3, <2>4, <2>5, <2>6, <2>7, <2>8, <2>9, <2>10, <2>11, <2>12, <2>13,
         <2>14, <2>15 DEF StartStep
  <1>4. ASSUME NEW p \in Pid, Exit(p) \/ OtherStarts(p)
         PROVE  UpAdmitted'
    <2>1. CASE Exit(p)
      BY <2>1, <1>4, SameConfig DEF Exit, Ends, Inv, UpAdmitted, master, controls, system, losses
    <2>2. CASE OtherStarts(p)
      BY <2>2, <1>4, SameConfig DEF OtherStarts, Use, Inv, UpAdmitted, master, controls, system,
         losses
    <2> QED
      BY <1>4, <2>1, <2>2
  <1>5. ASSUME NEW w \in Worker, NEW p \in Pid, ServiceStarts(w, p)
         PROVE  UpAdmitted'
    BY <1>5, SameConfig DEF ServiceStarts, Use, Inv, UpAdmitted, master, controls, system, losses
  <1>6. CASE UNCHANGED vars
    BY <1>6, SameConfig DEF vars, master, controls, system, losses, Inv, UpAdmitted
  <1> QED
    BY <1>1, <1>2, <1>3, <1>4, <1>5, <1>6 DEF Next

\* The contents of the files.
LEMMA FilesStep ==
  ASSUME Inv, Next \/ UNCHANGED vars
  PROVE  FilesTyped'
  <1>1. ASSUME NEW e \in Env, Run(e)
         PROVE  FilesTyped'
    BY <1>1 DEF Run, Inv, TypeSystem, FilesTyped, master, controls, system, losses
  <1>2. CASE Crash
    BY <1>2 DEF Crash, Inv, TypeSystem, FilesTyped, master, controls, system, losses
  <1>3. ASSUME NEW w \in Worker, StartStep(w) \/ Stop(w)
         PROVE  FilesTyped'
    <2>1. CASE AttachCmd(w)
      BY <2>1, <1>3 DEF AttachCmd, Attach, CanStart, Goto, Inv, TypeSystem, FilesTyped, master,
         controls, system, losses
    <2>2. CASE AttachWithoutPort(w)
      BY <2>2, <1>3 DEF AttachWithoutPort, Attach, CanStart, Goto, Inv, TypeSystem, FilesTyped,
         master, controls, system, losses
    <2>3. CASE AttachCmdFails(w)
      BY <2>3, <1>3 DEF AttachCmdFails, AttachFails, CanStart, StartFailed, WithoutProcess, Goto,
         Inv, TypeSystem, FilesTyped, master, controls, system, losses
    <2>4. CASE PidUnreadable(w)
      BY <2>4, <1>3 DEF PidUnreadable, AttachFails, CanStart, StartFailed, WithoutProcess, Goto,
         Inv, TypeSystem, FilesTyped, master, controls, system, losses
    <2>5. ASSUME NEW p \in Pid, NEW q \in Port \cup {Empty}, ExecuteCmd(w, p, q)
           PROVE  FilesTyped'
      BY <2>5, <1>3 DEF ExecuteCmd, Use, Goto, Inv, TypeSystem, FilesTyped, master, controls,
         system, losses
    <2>6. CASE ExecuteCmdFails(w)
      BY <2>6, <1>3 DEF ExecuteCmdFails, StartFailed, WithoutProcess, Goto, Inv, TypeSystem,
         FilesTyped, master, controls, system, losses
    <2>7. CASE TruncatePIDFile(w)
      <3>1. Write(PidFile(w, env), Empty)
        BY <2>7 DEF TruncatePIDFile, Truncate
      <3>2. Empty \in Pid \cup Port \cup {Empty}
        BY <2>7, <1>3 DEF TruncatePIDFile, Truncate, Inv, TypeControls, ControlsOfWorkers
      <3> QED
        BY <3>1, <3>2 DEF Inv, TypeSystem, FilesTyped, Write
    <2>8. CASE WritePIDFile(w)
      <3>1. Write(PidFile(w, env), proc[w])
        BY <2>8 DEF WritePIDFile
      <3>2. proc[w] \in Pid \cup Port \cup {Empty}
        BY <2>8, <1>3 DEF WritePIDFile, Inv, TypeControls, ControlsOfWorkers
      <3> QED
        BY <3>1, <3>2 DEF Inv, TypeSystem, FilesTyped, Write
    <2>9. CASE WritePIDFileFails(w)
      BY <2>9, <1>3 DEF WritePIDFileFails, Goto, Inv, TypeSystem, FilesTyped, master, controls,
         system, losses
    <2>10. CASE TruncatePortFile(w)
      <3>1. Write(PortFile(w, env), Empty)
        BY <2>10 DEF TruncatePortFile, Truncate
      <3>2. Empty \in Pid \cup Port \cup {Empty}
        BY <2>10, <1>3 DEF TruncatePortFile, Truncate, Inv, TypeControls, ControlsOfWorkers
      <3> QED
        BY <3>1, <3>2 DEF Inv, TypeSystem, FilesTyped, Write
    <2>11. CASE WritePortFile(w)
      <3>1. Write(PortFile(w, env), port[w])
        BY <2>11 DEF WritePortFile
      <3>2. port[w] \in Pid \cup Port \cup {Empty}
        BY <2>11, <1>3 DEF WritePortFile, Inv, TypeControls, ControlsOfWorkers
      <3> QED
        BY <3>1, <3>2 DEF Inv, TypeSystem, FilesTyped, Write
    <2>12. CASE WritePortFileFails(w)
      BY <2>12, <1>3 DEF WritePortFileFails, Goto, Inv, TypeSystem, FilesTyped, master, controls,
         system, losses
    <2>13. CASE Started(w)
      BY <2>13, <1>3 DEF Started, Goto, Inv, TypeSystem, FilesTyped, master, controls, system,
         losses
    <2>14. CASE Cancelled(w)
      BY <2>14, <1>3 DEF Cancelled, StartFailed, WithoutProcess, Goto, Signalled, Ends, Inv,
         TypeSystem, FilesTyped, master, controls, system, losses
    <2>15. CASE Stop(w)
      BY <2>15, <1>3 DEF Stop, WithoutProcess, Signalled, Ends, Inv, TypeSystem, FilesTyped,
         master, controls, system, losses
    <2> QED
      BY <1>3, <2>1, <2>2, <2>3, <2>4, <2>5, <2>6, <2>7, <2>8, <2>9, <2>10, <2>11, <2>12, <2>13,
         <2>14, <2>15 DEF StartStep
  <1>4. ASSUME NEW p \in Pid, Exit(p) \/ OtherStarts(p)
         PROVE  FilesTyped'
    <2>1. CASE Exit(p)
      BY <2>1, <1>4 DEF Exit, Ends, Inv, TypeSystem, FilesTyped, master, controls, system, losses
    <2>2. CASE OtherStarts(p)
      BY <2>2, <1>4 DEF OtherStarts, Use, Inv, TypeSystem, FilesTyped, master, controls, system,
         losses
    <2> QED
      BY <1>4, <2>1, <2>2
  <1>5. ASSUME NEW w \in Worker, NEW p \in Pid, ServiceStarts(w, p)
         PROVE  FilesTyped'
    <2>1. PICK unit \in WorkerOf(w).unmanaged : Write(ServiceFile(unit), p)
      BY <1>5 DEF ServiceStarts
    <2> QED
      BY <2>1 DEF Inv, TypeSystem, FilesTyped, Write
  <1>6. CASE UNCHANGED vars
    BY <1>6 DEF vars, master, controls, system, losses, Inv, TypeSystem, FilesTyped
  <1> QED
    BY <1>1, <1>2, <1>3, <1>4, <1>5, <1>6 DEF Next

\* The types of the processes.
LEMMA ProcessesStep ==
  ASSUME Inv, Next \/ UNCHANGED vars
  PROVE  ProcessesTyped'
  <1>1. ASSUME NEW e \in Env, Run(e)
         PROVE  ProcessesTyped'
    BY <1>1, LaunchOK DEF Run, Inv, TypeSystem, ProcessesTyped, Alive, master, controls, system,
       losses
  <1>2. CASE Crash
    BY <1>2, LaunchOK DEF Crash, Inv, TypeSystem, ProcessesTyped, Alive, master, controls,
       system, losses
  <1>3. ASSUME NEW w \in Worker, StartStep(w) \/ Stop(w)
         PROVE  ProcessesTyped'
    <2>1. CASE AttachCmd(w)
      BY <2>1, <1>3, LaunchOK DEF AttachCmd, Attach, CanStart, Goto, Inv, TypeSystem,
         ProcessesTyped, Alive, master, controls, system, losses
    <2>2. CASE AttachWithoutPort(w)
      BY <2>2, <1>3, LaunchOK DEF AttachWithoutPort, Attach, CanStart, Goto, Inv, TypeSystem,
         ProcessesTyped, Alive, master, controls, system, losses
    <2>3. CASE AttachCmdFails(w)
      BY <2>3, <1>3, LaunchOK DEF AttachCmdFails, AttachFails, CanStart, StartFailed,
         WithoutProcess, Goto, Inv, TypeSystem, ProcessesTyped, Alive, master, controls, system,
         losses
    <2>4. CASE PidUnreadable(w)
      BY <2>4, <1>3, LaunchOK DEF PidUnreadable, AttachFails, CanStart, StartFailed,
         WithoutProcess, Goto, Inv, TypeSystem, ProcessesTyped, Alive, master, controls, system,
         losses
    <2>5. ASSUME NEW p \in Pid, NEW q \in Port \cup {Empty}, ExecuteCmd(w, p, q)
           PROVE  ProcessesTyped'
      BY <2>5, <1>3, LaunchOK DEF ExecuteCmd, Use, Goto, Inv, TypeSystem, ProcessesTyped, Alive,
         master, controls, system, losses
    <2>6. CASE ExecuteCmdFails(w)
      BY <2>6, <1>3, LaunchOK DEF ExecuteCmdFails, StartFailed, WithoutProcess, Goto, Inv,
         TypeSystem, ProcessesTyped, Alive, master, controls, system, losses
    <2>7. CASE TruncatePIDFile(w)
      BY <2>7, <1>3, LaunchOK DEF TruncatePIDFile, Truncate, Goto, Inv, TypeSystem,
         ProcessesTyped, Alive, master, controls, system, losses
    <2>8. CASE WritePIDFile(w)
      BY <2>8, <1>3, LaunchOK DEF WritePIDFile, Goto, Inv, TypeSystem, ProcessesTyped, Alive,
         master, controls, system, losses
    <2>9. CASE WritePIDFileFails(w)
      BY <2>9, <1>3, LaunchOK DEF WritePIDFileFails, Goto, Inv, TypeSystem, ProcessesTyped,
         Alive, master, controls, system, losses
    <2>10. CASE TruncatePortFile(w)
      BY <2>10, <1>3, LaunchOK DEF TruncatePortFile, Truncate, Goto, Inv, TypeSystem,
         ProcessesTyped, Alive, master, controls, system, losses
    <2>11. CASE WritePortFile(w)
      BY <2>11, <1>3, LaunchOK DEF WritePortFile, Goto, Inv, TypeSystem, ProcessesTyped, Alive,
         master, controls, system, losses
    <2>12. CASE WritePortFileFails(w)
      BY <2>12, <1>3, LaunchOK DEF WritePortFileFails, Goto, Inv, TypeSystem, ProcessesTyped,
         Alive, master, controls, system, losses
    <2>13. CASE Started(w)
      BY <2>13, <1>3, LaunchOK DEF Started, Goto, Inv, TypeSystem, ProcessesTyped, Alive, master,
         controls, system, losses
    <2>14. CASE Cancelled(w)
      BY <2>14, <1>3, LaunchOK DEF Cancelled, StartFailed, WithoutProcess, Goto, Signalled, Ends,
         Inv, TypeSystem, ProcessesTyped, Alive, master, controls, system, losses
    <2>15. CASE Stop(w)
      BY <2>15, <1>3, LaunchOK DEF Stop, WithoutProcess, Signalled, Ends, Inv, TypeSystem,
         ProcessesTyped, Alive, master, controls, system, losses
    <2> QED
      BY <1>3, <2>1, <2>2, <2>3, <2>4, <2>5, <2>6, <2>7, <2>8, <2>9, <2>10, <2>11, <2>12, <2>13,
         <2>14, <2>15 DEF StartStep
  <1>4. ASSUME NEW p \in Pid, Exit(p) \/ OtherStarts(p)
         PROVE  ProcessesTyped'
    <2>1. CASE Exit(p)
      BY <2>1, <1>4, LaunchOK DEF Exit, Ends, Inv, TypeSystem, ProcessesTyped, Alive, master,
         controls, system, losses
    <2>2. CASE OtherStarts(p)
      BY <2>2, <1>4, LaunchOK DEF OtherStarts, Use, Inv, TypeSystem, ProcessesTyped, Alive,
         master, controls, system, losses
    <2> QED
      BY <1>4, <2>1, <2>2
  <1>5. ASSUME NEW w \in Worker, NEW p \in Pid, ServiceStarts(w, p)
         PROVE  ProcessesTyped'
    BY <1>5, LaunchOK DEF ServiceStarts, Use, Inv, TypeSystem, ProcessesTyped, Alive, master,
       controls, system, losses
  <1>6. CASE UNCHANGED vars
    BY <1>6, LaunchOK DEF vars, master, controls, system, losses, Inv, TypeSystem,
       ProcessesTyped, Alive
  <1> QED
    BY <1>1, <1>2, <1>3, <1>4, <1>5, <1>6 DEF Next

\* What is lost is lost of processes that live, of workers.
LEMMA LossesStep ==
  ASSUME Inv, Next \/ UNCHANGED vars
  PROVE  LossesTyped'
  <1>1. ASSUME NEW e \in Env, Run(e)
         PROVE  LossesTyped'
    BY <1>1, LaunchOK, NamesOfWorkers DEF Run, Inv, TypeSystem, LossesTyped, Alive, MovedPids,
       MovedPorts, Executes, Integrated, master, controls, system, losses
  <1>2. CASE Crash
    BY <1>2, LaunchOK DEF Crash, Inv, TypeSystem, LossesTyped, Alive, Unwritten, master,
       controls, system, losses
  <1>3. ASSUME NEW w \in Worker, StartStep(w) \/ Stop(w)
         PROVE  LossesTyped'
    <2>1. CASE AttachCmd(w)
      BY <2>1, <1>3, LaunchOK DEF AttachCmd, Attach, CanStart, Goto, Inv, TypeSystem,
         LossesTyped, Alive, master, controls, system, losses
    <2>2. CASE AttachWithoutPort(w)
      BY <2>2, <1>3, LaunchOK DEF AttachWithoutPort, Attach, CanStart, Goto, Inv, TypeSystem,
         LossesTyped, Alive, Running, master, controls, system, losses
    <2>3. CASE AttachCmdFails(w)
      BY <2>3, <1>3, LaunchOK DEF AttachCmdFails, AttachFails, CanStart, StartFailed,
         WithoutProcess, Goto, Inv, TypeSystem, LossesTyped, Alive, master, controls, system,
         losses
    <2>4. CASE PidUnreadable(w)
      BY <2>4, <1>3, LaunchOK DEF PidUnreadable, AttachFails, CanStart, StartFailed,
         WithoutProcess, Goto, Inv, TypeSystem, LossesTyped, Alive, Running, master, controls,
         system, losses
    <2>5. ASSUME NEW p \in Pid, NEW q \in Port \cup {Empty}, ExecuteCmd(w, p, q)
           PROVE  LossesTyped'
      BY <2>5, <1>3, LaunchOK DEF ExecuteCmd, Use, Goto, Inv, TypeSystem, LossesTyped, Alive,
         master, controls, system, losses
    <2>6. CASE ExecuteCmdFails(w)
      BY <2>6, <1>3, LaunchOK DEF ExecuteCmdFails, StartFailed, WithoutProcess, Goto, Inv,
         TypeSystem, LossesTyped, Alive, master, controls, system, losses
    <2>7. CASE TruncatePIDFile(w)
      BY <2>7, <1>3, LaunchOK DEF TruncatePIDFile, Truncate, Goto, Inv, TypeSystem, LossesTyped,
         Alive, master, controls, system, losses
    <2>8. CASE WritePIDFile(w)
      BY <2>8, <1>3, LaunchOK DEF WritePIDFile, Goto, Inv, TypeSystem, LossesTyped, Alive,
         master, controls, system, losses
    <2>9. CASE WritePIDFileFails(w)
      BY <2>9, <1>3, LaunchOK DEF WritePIDFileFails, Goto, Inv, TypeSystem, LossesTyped, Alive,
         ControlsOfWorkers, PidWindow, TypeControls, master, controls, system, losses
    <2>10. CASE TruncatePortFile(w)
      BY <2>10, <1>3, LaunchOK DEF TruncatePortFile, Truncate, Goto, Inv, TypeSystem,
         LossesTyped, Alive, master, controls, system, losses
    <2>11. CASE WritePortFile(w)
      BY <2>11, <1>3, LaunchOK DEF WritePortFile, Goto, Inv, TypeSystem, LossesTyped, Alive,
         master, controls, system, losses
    <2>12. CASE WritePortFileFails(w)
      BY <2>12, <1>3, LaunchOK DEF WritePortFileFails, Goto, Inv, TypeSystem, LossesTyped, Alive,
         ControlsOfWorkers, PidWindow, PortWindow, TypeControls, master, controls, system, losses
    <2>13. CASE Started(w)
      BY <2>13, <1>3, LaunchOK DEF Started, Goto, Inv, TypeSystem, LossesTyped, Alive, master,
         controls, system, losses
    <2>14. CASE Cancelled(w)
      BY <2>14, <1>3, LaunchOK DEF Cancelled, StartFailed, WithoutProcess, Goto, Signalled, Ends,
         Inv, TypeSystem, LossesTyped, Alive, master, controls, system, losses
    <2>15. CASE Stop(w)
      BY <2>15, <1>3, LaunchOK DEF Stop, WithoutProcess, Signalled, Ends, Inv, TypeSystem,
         LossesTyped, Alive, master, controls, system, losses
    <2> QED
      BY <1>3, <2>1, <2>2, <2>3, <2>4, <2>5, <2>6, <2>7, <2>8, <2>9, <2>10, <2>11, <2>12, <2>13,
         <2>14, <2>15 DEF StartStep
  <1>4. ASSUME NEW p \in Pid, Exit(p) \/ OtherStarts(p)
         PROVE  LossesTyped'
    <2>1. CASE Exit(p)
      BY <2>1, <1>4, LaunchOK DEF Exit, Ends, Inv, TypeSystem, LossesTyped, Alive, master,
         controls, system, losses
    <2>2. CASE OtherStarts(p)
      BY <2>2, <1>4, LaunchOK DEF OtherStarts, Use, Inv, TypeSystem, LossesTyped, Alive, master,
         controls, system, losses
    <2> QED
      BY <1>4, <2>1, <2>2
  <1>5. ASSUME NEW w \in Worker, NEW p \in Pid, ServiceStarts(w, p)
         PROVE  LossesTyped'
    <2>1. PICK unit \in WorkerOf(w).unmanaged : lost' = lost \cup RecordedIn(ServiceFile(unit))
      BY <1>5 DEF ServiceStarts
    <2>2. \A q \in lost' \cup portLost' : q \in Pid /\ who[q] \in Worker
      BY <1>5, <2>1 DEF ServiceStarts, RecordedIn, Inv, TypeSystem
    <2>3. \A q \in Pid : who[q] \in Worker => who'[q] \in Worker
      BY <1>5 DEF ServiceStarts, Use, Inv, TypeSystem
    <2> QED
      BY <2>2, <2>3 DEF LossesTyped
  <1>6. CASE UNCHANGED vars
    BY <1>6, LaunchOK DEF vars, master, controls, system, losses, Inv, TypeSystem, LossesTyped,
       Alive
  <1> QED
    BY <1>1, <1>2, <1>3, <1>4, <1>5, <1>6 DEF Next

\* The types of the files, the processes and the losses.
LEMMA SystemStep ==
  ASSUME Inv, Next \/ UNCHANGED vars
  PROVE  TypeSystem'
  <1>1. config' \in LoadedConfig /\ run' \in {"down", "up", "refused"} /\ env' \in Env
    <2>1. run' \in {"down", "up", "refused"} /\ env' \in Env
      <3>1. ASSUME NEW e \in Env, Run(e)
             PROVE  run' \in {"down", "up", "refused"} /\ env' \in Env
        BY <3>1 DEF Run, Inv, TypeSystem, master, controls, system, losses
      <3>2. CASE Crash
        BY <3>2 DEF Crash, Inv, TypeSystem, master, controls, system, losses
      <3>3. ASSUME NEW w \in Worker, StartStep(w) \/ Stop(w)
             PROVE  run' \in {"down", "up", "refused"} /\ env' \in Env
        <4>1. CASE AttachCmd(w)
          BY <4>1, <3>3 DEF AttachCmd, Attach, CanStart, Goto, Inv, TypeSystem, master, controls,
             system, losses
        <4>2. CASE AttachWithoutPort(w)
          BY <4>2, <3>3 DEF AttachWithoutPort, Attach, CanStart, Goto, Inv, TypeSystem, master,
             controls, system, losses
        <4>3. CASE AttachCmdFails(w)
          BY <4>3, <3>3 DEF AttachCmdFails, AttachFails, CanStart, StartFailed, WithoutProcess, Goto,
             Inv, TypeSystem, master, controls, system, losses
        <4>4. CASE PidUnreadable(w)
          BY <4>4, <3>3 DEF PidUnreadable, AttachFails, CanStart, StartFailed, WithoutProcess, Goto,
             Inv, TypeSystem, master, controls, system, losses
        <4>5. ASSUME NEW p \in Pid, NEW q \in Port \cup {Empty}, ExecuteCmd(w, p, q)
               PROVE  run' \in {"down", "up", "refused"} /\ env' \in Env
          BY <4>5, <3>3 DEF ExecuteCmd, Use, Goto, Inv, TypeSystem, master, controls, system, losses
        <4>6. CASE ExecuteCmdFails(w)
          BY <4>6, <3>3 DEF ExecuteCmdFails, StartFailed, WithoutProcess, Goto, Inv, TypeSystem,
             master, controls, system, losses
        <4>7. CASE TruncatePIDFile(w)
          BY <4>7, <3>3 DEF TruncatePIDFile, Truncate, Goto, Inv, TypeSystem, master, controls,
             system, losses
        <4>8. CASE WritePIDFile(w)
          BY <4>8, <3>3 DEF WritePIDFile, Goto, Inv, TypeSystem, master, controls, system, losses
        <4>9. CASE WritePIDFileFails(w)
          BY <4>9, <3>3 DEF WritePIDFileFails, Goto, Inv, TypeSystem, master, controls, system,
             losses
        <4>10. CASE TruncatePortFile(w)
          BY <4>10, <3>3 DEF TruncatePortFile, Truncate, Goto, Inv, TypeSystem, master, controls,
             system, losses
        <4>11. CASE WritePortFile(w)
          BY <4>11, <3>3 DEF WritePortFile, Goto, Inv, TypeSystem, master, controls, system, losses
        <4>12. CASE WritePortFileFails(w)
          BY <4>12, <3>3 DEF WritePortFileFails, Goto, Inv, TypeSystem, master, controls, system,
             losses
        <4>13. CASE Started(w)
          BY <4>13, <3>3 DEF Started, Goto, Inv, TypeSystem, master, controls, system, losses
        <4>14. CASE Cancelled(w)
          BY <4>14, <3>3 DEF Cancelled, StartFailed, WithoutProcess, Goto, Signalled, Ends, Inv,
             TypeSystem, master, controls, system, losses
        <4>15. CASE Stop(w)
          BY <4>15, <3>3 DEF Stop, WithoutProcess, Signalled, Ends, Inv, TypeSystem, master,
             controls, system, losses
        <4> QED
          BY <3>3, <4>1, <4>2, <4>3, <4>4, <4>5, <4>6, <4>7, <4>8, <4>9, <4>10, <4>11, <4>12, <4>13,
             <4>14, <4>15 DEF StartStep
      <3>4. ASSUME NEW p \in Pid, Exit(p) \/ OtherStarts(p)
             PROVE  run' \in {"down", "up", "refused"} /\ env' \in Env
        <4>1. CASE Exit(p)
          BY <4>1, <3>4 DEF Exit, Ends, Inv, TypeSystem, master, controls, system, losses
        <4>2. CASE OtherStarts(p)
          BY <4>2, <3>4 DEF OtherStarts, Use, Inv, TypeSystem, master, controls, system, losses
        <4> QED
          BY <3>4, <4>1, <4>2
      <3>5. ASSUME NEW w \in Worker, NEW p \in Pid, ServiceStarts(w, p)
             PROVE  run' \in {"down", "up", "refused"} /\ env' \in Env
        BY <3>5 DEF ServiceStarts, Use, Inv, TypeSystem, master, controls, system, losses
      <3>6. CASE UNCHANGED vars
        BY <3>6 DEF vars, master, controls, system, losses, Inv, TypeSystem
      <3> QED
        BY <3>1, <3>2, <3>3, <3>4, <3>5, <3>6 DEF Next
    <2> QED
      BY <2>1, SameConfig DEF Inv, TypeSystem
  <1> QED
    BY <1>1, FilesStep, ProcessesStep, LossesStep DEF TypeSystem, FilesTyped, ProcessesTyped, LossesTyped

\* The types of the process controls.
LEMMA ControlStep ==
  ASSUME Inv, Next \/ UNCHANGED vars
  PROVE  TypeControls'
  <1>1. ASSUME NEW e \in Env, Run(e)
         PROVE  TypeControls'
    BY <1>1, LaunchOK DEF Run, Inv, TypeSystem, TypeControls, PortWindow, master, controls,
       system, losses
  <1>2. CASE Crash
    BY <1>2, LaunchOK DEF Crash, Inv, TypeSystem, TypeControls, PortWindow, master, controls,
       system, losses
  <1>3. ASSUME NEW w \in Worker, StartStep(w) \/ Stop(w)
         PROVE  TypeControls'
    <2>1. CASE AttachCmd(w)
      BY <2>1, <1>3, LaunchOK DEF AttachCmd, Attach, CanStart, Goto, Inv, TypeSystem,
         TypeControls, PortWindow, ReadPortFile, Running, At, master, controls, system, losses
    <2>2. CASE AttachWithoutPort(w)
      BY <2>2, <1>3, LaunchOK DEF AttachWithoutPort, Attach, CanStart, Goto, Inv, TypeSystem,
         TypeControls, PortWindow, Running, At, master, controls, system, losses
    <2>3. CASE AttachCmdFails(w)
      BY <2>3, <1>3, LaunchOK DEF AttachCmdFails, AttachFails, CanStart, StartFailed,
         WithoutProcess, Goto, Inv, TypeSystem, TypeControls, PortWindow, master, controls,
         system, losses
    <2>4. CASE PidUnreadable(w)
      BY <2>4, <1>3, LaunchOK DEF PidUnreadable, AttachFails, CanStart, StartFailed,
         WithoutProcess, Goto, Inv, TypeSystem, TypeControls, PortWindow, master, controls,
         system, losses
    <2>5. ASSUME NEW p \in Pid, NEW q \in Port \cup {Empty}, ExecuteCmd(w, p, q)
           PROVE  TypeControls'
      BY <2>5, <1>3, LaunchOK DEF ExecuteCmd, Use, Goto, Inv, TypeSystem, TypeControls,
         PortWindow, master, controls, system, losses
    <2>6. CASE ExecuteCmdFails(w)
      BY <2>6, <1>3, LaunchOK DEF ExecuteCmdFails, StartFailed, WithoutProcess, Goto, Inv,
         TypeSystem, TypeControls, PortWindow, master, controls, system, losses
    <2>7. CASE TruncatePIDFile(w)
      BY <2>7, <1>3, LaunchOK DEF TruncatePIDFile, Truncate, Goto, Inv, TypeSystem, TypeControls,
         PortWindow, master, controls, system, losses
    <2>8. CASE WritePIDFile(w)
      BY <2>8, <1>3, LaunchOK DEF WritePIDFile, Goto, Inv, TypeSystem, TypeControls, PortWindow,
         AfterPid, master, controls, system, losses
    <2>9. CASE WritePIDFileFails(w)
      BY <2>9, <1>3, LaunchOK DEF WritePIDFileFails, Goto, Inv, TypeSystem, TypeControls,
         PortWindow, AfterPid, master, controls, system, losses
    <2>10. CASE TruncatePortFile(w)
      BY <2>10, <1>3, LaunchOK DEF TruncatePortFile, Truncate, Goto, Inv, TypeSystem,
         TypeControls, PortWindow, master, controls, system, losses
    <2>11. CASE WritePortFile(w)
      BY <2>11, <1>3, LaunchOK DEF WritePortFile, Goto, Inv, TypeSystem, TypeControls,
         PortWindow, master, controls, system, losses
    <2>12. CASE WritePortFileFails(w)
      BY <2>12, <1>3, LaunchOK DEF WritePortFileFails, Goto, Inv, TypeSystem, TypeControls,
         PortWindow, master, controls, system, losses
    <2>13. CASE Started(w)
      BY <2>13, <1>3, LaunchOK DEF Started, Goto, Inv, TypeSystem, TypeControls, PortWindow,
         master, controls, system, losses
    <2>14. CASE Cancelled(w)
      BY <2>14, <1>3, LaunchOK DEF Cancelled, StartFailed, WithoutProcess, Goto, Signalled, Ends,
         Inv, TypeSystem, TypeControls, PortWindow, master, controls, system, losses
    <2>15. CASE Stop(w)
      BY <2>15, <1>3, LaunchOK DEF Stop, WithoutProcess, Signalled, Ends, Inv, TypeSystem,
         TypeControls, PortWindow, master, controls, system, losses
    <2> QED
      BY <1>3, <2>1, <2>2, <2>3, <2>4, <2>5, <2>6, <2>7, <2>8, <2>9, <2>10, <2>11, <2>12, <2>13,
         <2>14, <2>15 DEF StartStep
  <1>4. ASSUME NEW p \in Pid, Exit(p) \/ OtherStarts(p)
         PROVE  TypeControls'
    <2>1. CASE Exit(p)
      BY <2>1, <1>4, LaunchOK DEF Exit, Ends, Inv, TypeSystem, TypeControls, PortWindow, master,
         controls, system, losses
    <2>2. CASE OtherStarts(p)
      BY <2>2, <1>4, LaunchOK DEF OtherStarts, Use, Inv, TypeSystem, TypeControls, PortWindow,
         master, controls, system, losses
    <2> QED
      BY <1>4, <2>1, <2>2
  <1>5. ASSUME NEW w \in Worker, NEW p \in Pid, ServiceStarts(w, p)
         PROVE  TypeControls'
    BY <1>5, LaunchOK DEF ServiceStarts, Use, Inv, TypeSystem, TypeControls, PortWindow, master,
       controls, system, losses
  <1>6. CASE UNCHANGED vars
    BY <1>6, LaunchOK DEF vars, master, controls, system, losses, Inv, TypeSystem, TypeControls,
       PortWindow
  <1> QED
    BY <1>1, <1>2, <1>3, <1>4, <1>5, <1>6 DEF Next

\* The process controls that have, or start, a process.
LEMMA WorkersStep ==
  ASSUME Inv, Next \/ UNCHANGED vars
  PROVE  ControlsOfWorkers'
  <1>1. ASSUME NEW e \in Env, Run(e)
         PROVE  ControlsOfWorkers'
    BY <1>1, SameConfig, LaunchOK DEF Run, Inv, TypeControls, ControlsOfWorkers, PortWindow,
       master, controls, system, losses
  <1>2. CASE Crash
    BY <1>2, SameConfig, LaunchOK DEF Crash, Inv, TypeControls, ControlsOfWorkers, PortWindow,
       master, controls, system, losses
  <1>3. ASSUME NEW w \in Worker, StartStep(w) \/ Stop(w)
         PROVE  ControlsOfWorkers'
    <2>1. CASE AttachCmd(w)
      BY <2>1, <1>3, SameConfig, LaunchOK DEF AttachCmd, Attach, CanStart, Goto, Inv,
         TypeControls, ControlsOfWorkers, PortWindow, Running, master, controls, system, losses
    <2>2. CASE AttachWithoutPort(w)
      BY <2>2, <1>3, SameConfig, LaunchOK DEF AttachWithoutPort, Attach, CanStart, Goto, Inv,
         TypeControls, ControlsOfWorkers, PortWindow, Running, master, controls, system, losses
    <2>3. CASE AttachCmdFails(w)
      BY <2>3, <1>3, SameConfig, LaunchOK DEF AttachCmdFails, AttachFails, CanStart, StartFailed,
         WithoutProcess, Goto, Inv, TypeControls, ControlsOfWorkers, PortWindow, master,
         controls, system, losses
    <2>4. CASE PidUnreadable(w)
      BY <2>4, <1>3, SameConfig, LaunchOK DEF PidUnreadable, AttachFails, CanStart, StartFailed,
         WithoutProcess, Goto, Inv, TypeControls, ControlsOfWorkers, PortWindow, master,
         controls, system, losses
    <2>5. ASSUME NEW p \in Pid, NEW q \in Port \cup {Empty}, ExecuteCmd(w, p, q)
           PROVE  ControlsOfWorkers'
      BY <2>5, <1>3, SameConfig, LaunchOK DEF ExecuteCmd, Use, Goto, Inv, TypeControls,
         ControlsOfWorkers, PortWindow, master, controls, system, losses
    <2>6. CASE ExecuteCmdFails(w)
      BY <2>6, <1>3, SameConfig, LaunchOK DEF ExecuteCmdFails, StartFailed, WithoutProcess, Goto,
         Inv, TypeControls, ControlsOfWorkers, PortWindow, master, controls, system, losses
    <2>7. CASE TruncatePIDFile(w)
      BY <2>7, <1>3, SameConfig, LaunchOK DEF TruncatePIDFile, Truncate, Goto, Inv, TypeControls,
         ControlsOfWorkers, PortWindow, master, controls, system, losses
    <2>8. CASE WritePIDFile(w)
      BY <2>8, <1>3, SameConfig, LaunchOK DEF WritePIDFile, Goto, Inv, TypeControls,
         ControlsOfWorkers, PortWindow, AfterPid, PidWindow, master, controls, system, losses
    <2>9. CASE WritePIDFileFails(w)
      BY <2>9, <1>3, SameConfig, LaunchOK DEF WritePIDFileFails, Goto, Inv, TypeControls,
         ControlsOfWorkers, PortWindow, AfterPid, PidWindow, master, controls, system, losses
    <2>10. CASE TruncatePortFile(w)
      BY <2>10, <1>3, SameConfig, LaunchOK DEF TruncatePortFile, Truncate, Goto, Inv,
         TypeControls, ControlsOfWorkers, PortWindow, master, controls, system, losses
    <2>11. CASE WritePortFile(w)
      BY <2>11, <1>3, SameConfig, LaunchOK DEF WritePortFile, Goto, Inv, TypeControls,
         ControlsOfWorkers, PortWindow, master, controls, system, losses
    <2>12. CASE WritePortFileFails(w)
      BY <2>12, <1>3, SameConfig, LaunchOK DEF WritePortFileFails, Goto, Inv, TypeControls,
         ControlsOfWorkers, PortWindow, PidWindow, master, controls, system, losses
    <2>13. CASE Started(w)
      BY <2>13, <1>3, SameConfig, LaunchOK DEF Started, Goto, Inv, TypeControls,
         ControlsOfWorkers, PortWindow, master, controls, system, losses
    <2>14. CASE Cancelled(w)
      BY <2>14, <1>3, SameConfig, LaunchOK DEF Cancelled, StartFailed, WithoutProcess, Goto,
         Signalled, Ends, Inv, TypeControls, ControlsOfWorkers, PortWindow, master, controls,
         system, losses
    <2>15. CASE Stop(w)
      BY <2>15, <1>3, SameConfig, LaunchOK DEF Stop, WithoutProcess, Signalled, Ends, Inv,
         TypeControls, ControlsOfWorkers, PortWindow, master, controls, system, losses
    <2> QED
      BY <1>3, <2>1, <2>2, <2>3, <2>4, <2>5, <2>6, <2>7, <2>8, <2>9, <2>10, <2>11, <2>12, <2>13,
         <2>14, <2>15 DEF StartStep
  <1>4. ASSUME NEW p \in Pid, Exit(p) \/ OtherStarts(p)
         PROVE  ControlsOfWorkers'
    <2>1. CASE Exit(p)
      BY <2>1, <1>4, SameConfig, LaunchOK DEF Exit, Ends, Inv, TypeControls, ControlsOfWorkers,
         PortWindow, master, controls, system, losses
    <2>2. CASE OtherStarts(p)
      BY <2>2, <1>4, SameConfig, LaunchOK DEF OtherStarts, Use, Inv, TypeControls,
         ControlsOfWorkers, PortWindow, master, controls, system, losses
    <2> QED
      BY <1>4, <2>1, <2>2
  <1>5. ASSUME NEW w \in Worker, NEW p \in Pid, ServiceStarts(w, p)
         PROVE  ControlsOfWorkers'
    BY <1>5, SameConfig, LaunchOK DEF ServiceStarts, Use, Inv, TypeControls, ControlsOfWorkers,
       PortWindow, master, controls, system, losses
  <1>6. CASE UNCHANGED vars
    BY <1>6, SameConfig, LaunchOK DEF vars, master, controls, system, losses, Inv, TypeControls,
       ControlsOfWorkers, PortWindow
  <1> QED
    BY <1>1, <1>2, <1>3, <1>4, <1>5, <1>6 DEF Next

\* The owners of the PIDs in files.
LEMMA FilesOwnedStep ==
  ASSUME Inv, Next \/ UNCHANGED vars
  PROVE  FilesOwned'
  <1>1. ASSUME NEW e \in Env, Run(e)
         PROVE  FilesOwned'
    BY <1>1, SameConfig, LaunchOK DEF Run, Inv, TypeSystem, TypeControls, FilesOwned, master, controls,
       system, losses
  <1>2. CASE Crash
    BY <1>2, SameConfig, LaunchOK DEF Crash, Inv, TypeSystem, TypeControls, FilesOwned, master, controls,
       system, losses
  <1>3. ASSUME NEW w \in Worker, StartStep(w) \/ Stop(w)
         PROVE  FilesOwned'
    <2>1. CASE AttachCmd(w)
      BY <2>1, <1>3, SameConfig, LaunchOK DEF AttachCmd, Attach, CanStart, Goto, Inv, TypeSystem,
         TypeControls, FilesOwned, master, controls, system, losses
    <2>2. CASE AttachWithoutPort(w)
      BY <2>2, <1>3, SameConfig, LaunchOK DEF AttachWithoutPort, Attach, CanStart, Goto, Inv, TypeSystem,
         TypeControls, FilesOwned, master, controls, system, losses
    <2>3. CASE AttachCmdFails(w)
      BY <2>3, <1>3, SameConfig, LaunchOK DEF AttachCmdFails, AttachFails, CanStart, StartFailed,
         WithoutProcess, Goto, Inv, TypeSystem, TypeControls, FilesOwned, master, controls,
         system, losses
    <2>4. CASE PidUnreadable(w)
      BY <2>4, <1>3, SameConfig, LaunchOK DEF PidUnreadable, AttachFails, CanStart, StartFailed,
         WithoutProcess, Goto, Inv, TypeSystem, TypeControls, FilesOwned, master, controls,
         system, losses
    <2>5. ASSUME NEW p \in Pid, NEW q \in Port \cup {Empty}, ExecuteCmd(w, p, q)
           PROVE  FilesOwned'
      BY <2>5, <1>3, SameConfig, LaunchOK DEF ExecuteCmd, Use, Goto, Inv, TypeSystem, TypeControls,
         FilesOwned, master, controls, system, losses
    <2>6. CASE ExecuteCmdFails(w)
      BY <2>6, <1>3, SameConfig, LaunchOK DEF ExecuteCmdFails, StartFailed, WithoutProcess, Goto, Inv,
         TypeSystem, TypeControls, FilesOwned, master, controls, system, losses
    <2>7. CASE TruncatePIDFile(w)
      BY <2>7, <1>3, SameConfig, LaunchOK, Paths DEF TruncatePIDFile, Truncate, Goto, Inv, TypeSystem,
         TypeControls, FilesOwned, Write, At, ControlsOfWorkers, master, controls, system, losses
    <2>8. CASE WritePIDFile(w)
      <3>1. /\ proc[w] \in seen /\ Executes(w)
            /\ proc[w] \in reused \/ who[proc[w]] \in {w, Nobody}
        BY <2>8, <1>3 DEF WritePIDFile, Inv, ControlsOfWorkers, ProcsOwned, PortWindow
      <3>2. PidFile(w, env) \in PidFiles(w)
        BY <3>1 DEF PidFiles, Inv, TypeSystem
      <3>3. Write(PidFile(w, env), proc[w]) /\ UNCHANGED <<who, seen, reused>>
        BY <2>8 DEF WritePIDFile, system
      <3> QED
        BY <1>3, <3>1, <3>2, <3>3, SameConfig DEF Inv, FilesOwned, Write
    <2>9. CASE WritePIDFileFails(w)
      BY <2>9, <1>3, SameConfig, LaunchOK DEF WritePIDFileFails, Goto, Inv, TypeSystem, TypeControls,
         FilesOwned, master, controls, system, losses
    <2>10. CASE TruncatePortFile(w)
      BY <2>10, <1>3, SameConfig, LaunchOK, Paths DEF TruncatePortFile, Truncate, Goto, Inv, TypeSystem,
         TypeControls, FilesOwned, Write, At, ControlsOfWorkers, master, controls, system, losses
    <2>11. CASE WritePortFile(w)
      BY <2>11, <1>3, SameConfig, LaunchOK, Paths DEF WritePortFile, Goto, Inv, TypeSystem, TypeControls,
         FilesOwned, Write, At, ControlsOfWorkers, master, controls, system, losses
    <2>12. CASE WritePortFileFails(w)
      BY <2>12, <1>3, SameConfig, LaunchOK DEF WritePortFileFails, Goto, Inv, TypeSystem, TypeControls,
         FilesOwned, master, controls, system, losses
    <2>13. CASE Started(w)
      BY <2>13, <1>3, SameConfig, LaunchOK DEF Started, Goto, Inv, TypeSystem, TypeControls, FilesOwned,
         master, controls, system, losses
    <2>14. CASE Cancelled(w)
      BY <2>14, <1>3, SameConfig, LaunchOK DEF Cancelled, StartFailed, WithoutProcess, Goto, Signalled, Ends,
         Inv, TypeSystem, TypeControls, FilesOwned, master, controls, system, losses
    <2>15. CASE Stop(w)
      BY <2>15, <1>3, SameConfig, LaunchOK DEF Stop, WithoutProcess, Signalled, Ends, Inv, TypeSystem,
         TypeControls, FilesOwned, master, controls, system, losses
    <2> QED
      BY <1>3, <2>1, <2>2, <2>3, <2>4, <2>5, <2>6, <2>7, <2>8, <2>9, <2>10, <2>11, <2>12, <2>13,
         <2>14, <2>15 DEF StartStep
  <1>4. ASSUME NEW p \in Pid, Exit(p) \/ OtherStarts(p)
         PROVE  FilesOwned'
    <2>1. CASE Exit(p)
      BY <2>1, <1>4, SameConfig, LaunchOK DEF Exit, Ends, Inv, TypeSystem, TypeControls, FilesOwned, master,
         controls, system, losses
    <2>2. CASE OtherStarts(p)
      BY <2>2, <1>4, SameConfig, LaunchOK DEF OtherStarts, Use, Inv, TypeSystem, TypeControls, FilesOwned,
         master, controls, system, losses
    <2> QED
      BY <1>4, <2>1, <2>2
  <1>5. ASSUME NEW w \in Worker, NEW p \in Pid, ServiceStarts(w, p)
         PROVE  FilesOwned'
    <2>1. PICK unit \in WorkerOf(w).unmanaged : Write(ServiceFile(unit), p)
      BY <1>5 DEF ServiceStarts
    <2>2. ServiceFile(unit) \in PidFiles(w)
      BY <1>5 DEF ServiceStarts, PidFiles, Executes
    <2>3. /\ who[p] = Nobody /\ who'[p] = w /\ seen' = seen \cup {p} /\ reused \subseteq reused'
          /\ p \in seen => p \in reused'
          /\ \A q \in Pid \ {p} : who'[q] = who[q]
      BY <1>5 DEF ServiceStarts, Use, Alive, Inv, TypeSystem
    <2>4. ASSUME NEW path \in DOMAIN files', files'[path] \in Pid
          PROVE  /\ files'[path] \in seen'
                 /\ \/ files'[path] \in reused'
                    \/ who'[files'[path]] = Nobody
                    \/ who'[files'[path]] \in Worker /\ path \in PidFiles(who'[files'[path]])
      <3>1. CASE path = ServiceFile(unit)
        <4>1. files'[path] = p
          BY <2>1, <3>1 DEF Write
        <4> QED
          BY <2>2, <2>3, <3>1, <4>1
      <3>2. CASE path # ServiceFile(unit)
        <4>1. path \in DOMAIN files /\ files'[path] = files[path]
          BY <2>1, <2>4, <3>2 DEF Write
        <4>2. files[path] = p => p \in reused'
          BY <2>3, <2>4, <4>1 DEF Inv, FilesOwned
        <4> QED
          BY <2>3, <2>4, <4>1, <4>2 DEF Inv, FilesOwned
      <3> QED
        BY <3>1, <3>2
    <2> QED
      BY <2>4, SameConfig DEF FilesOwned
  <1>6. CASE UNCHANGED vars
    BY <1>6, SameConfig, LaunchOK DEF vars, master, controls, system, losses, Inv, TypeSystem, TypeControls,
       FilesOwned
  <1> QED
    BY <1>1, <1>2, <1>3, <1>4, <1>5, <1>6 DEF Next

\* The owners of the processes of process controls.
LEMMA ProcsOwnedStep ==
  ASSUME Inv, Next \/ UNCHANGED vars
  PROVE  ProcsOwned'
  <1>1. ASSUME NEW e \in Env, Run(e)
         PROVE  ProcsOwned'
    BY <1>1, SameConfig, LaunchOK DEF Run, Inv, TypeSystem, TypeControls, ProcsOwned, PortWindow, PidWindow, master, controls,
       system, losses
  <1>2. CASE Crash
    BY <1>2, SameConfig, LaunchOK DEF Crash, Inv, TypeSystem, TypeControls, ProcsOwned, PortWindow, PidWindow, master, controls,
       system, losses
  <1>3. ASSUME NEW w \in Worker, StartStep(w) \/ Stop(w)
         PROVE  ProcsOwned'
    <2>1. CASE AttachCmd(w)
      BY <2>1, <1>3, SameConfig, LaunchOK, Found DEF AttachCmd, Attach, CanStart, Goto, Inv, TypeSystem,
         TypeControls, ProcsOwned, PortWindow, PidWindow, Running, master, controls, system, losses
    <2>2. CASE AttachWithoutPort(w)
      BY <2>2, <1>3, SameConfig, LaunchOK, Found DEF AttachWithoutPort, Attach, CanStart, Goto, Inv,
         TypeSystem, TypeControls, ProcsOwned, PortWindow, PidWindow, Running, master, controls, system,
         losses
    <2>3. CASE AttachCmdFails(w)
      BY <2>3, <1>3, SameConfig, LaunchOK DEF AttachCmdFails, AttachFails, CanStart, StartFailed,
         WithoutProcess, Goto, Inv, TypeSystem, TypeControls, ProcsOwned, PortWindow, PidWindow, master, controls,
         system, losses
    <2>4. CASE PidUnreadable(w)
      BY <2>4, <1>3, SameConfig, LaunchOK DEF PidUnreadable, AttachFails, CanStart, StartFailed,
         WithoutProcess, Goto, Inv, TypeSystem, TypeControls, ProcsOwned, PortWindow, PidWindow, master, controls,
         system, losses
    <2>5. ASSUME NEW p \in Pid, NEW q \in Port \cup {Empty}, ExecuteCmd(w, p, q)
           PROVE  ProcsOwned'
      BY <2>5, <1>3, SameConfig, LaunchOK DEF ExecuteCmd, Use, Goto, Inv, TypeSystem, TypeControls,
         ProcsOwned, PortWindow, PidWindow, master, controls, system, losses
    <2>6. CASE ExecuteCmdFails(w)
      BY <2>6, <1>3, SameConfig, LaunchOK DEF ExecuteCmdFails, StartFailed, WithoutProcess, Goto, Inv,
         TypeSystem, TypeControls, ProcsOwned, PortWindow, PidWindow, master, controls, system, losses
    <2>7. CASE TruncatePIDFile(w)
      BY <2>7, <1>3, SameConfig, LaunchOK DEF TruncatePIDFile, Truncate, Goto, Inv, TypeSystem, TypeControls,
         ProcsOwned, PortWindow, PidWindow, master, controls, system, losses
    <2>8. CASE WritePIDFile(w)
      BY <2>8, <1>3, SameConfig, LaunchOK DEF WritePIDFile, Goto, Inv, TypeSystem, TypeControls, ProcsOwned,
         master, controls, system, losses
    <2>9. CASE WritePIDFileFails(w)
      BY <2>9, <1>3, SameConfig, LaunchOK DEF WritePIDFileFails, Goto, Inv, TypeSystem, TypeControls,
         ProcsOwned, PortWindow, PidWindow, master, controls, system, losses
    <2>10. CASE TruncatePortFile(w)
      BY <2>10, <1>3, SameConfig, LaunchOK DEF TruncatePortFile, Truncate, Goto, Inv, TypeSystem,
         TypeControls, ProcsOwned, PortWindow, PidWindow, master, controls, system, losses
    <2>11. CASE WritePortFile(w)
      BY <2>11, <1>3, SameConfig, LaunchOK DEF WritePortFile, Goto, Inv, TypeSystem, TypeControls,
         ProcsOwned, PortWindow, PidWindow, master, controls, system, losses
    <2>12. CASE WritePortFileFails(w)
      BY <2>12, <1>3, SameConfig, LaunchOK DEF WritePortFileFails, Goto, Inv, TypeSystem, TypeControls,
         ProcsOwned, PortWindow, PidWindow, master, controls, system, losses
    <2>13. CASE Started(w)
      <3>1. /\ UNCHANGED <<proc, who, seen, reused>>
            /\ \A v \in Worker : pc[v] \notin PortWindow => pc'[v] \notin PortWindow
            /\ \A v \in Worker : pc'[v] \in PortWindow => pc[v] \in PortWindow
        BY <2>13, <1>3 DEF Started, Goto, Inv, TypeControls, PortWindow, PidWindow, system
      <3> QED
        BY <3>1, SameConfig DEF Inv, ProcsOwned
    <2>14. CASE Cancelled(w)
      BY <2>14, <1>3, SameConfig, LaunchOK DEF Cancelled, StartFailed, WithoutProcess, Goto, Signalled, Ends,
         Inv, TypeSystem, TypeControls, ProcsOwned, PortWindow, PidWindow, master, controls, system, losses
    <2>15. CASE Stop(w)
      BY <2>15, <1>3, SameConfig, LaunchOK DEF Stop, WithoutProcess, Signalled, Ends, Inv, TypeSystem,
         TypeControls, ProcsOwned, PortWindow, PidWindow, master, controls, system, losses
    <2> QED
      BY <1>3, <2>1, <2>2, <2>3, <2>4, <2>5, <2>6, <2>7, <2>8, <2>9, <2>10, <2>11, <2>12, <2>13,
         <2>14, <2>15 DEF StartStep
  <1>4. ASSUME NEW p \in Pid, Exit(p) \/ OtherStarts(p)
         PROVE  ProcsOwned'
    <2>1. CASE Exit(p)
      BY <2>1, <1>4, SameConfig, LaunchOK DEF Exit, Ends, Inv, TypeSystem, TypeControls, ProcsOwned, PortWindow, PidWindow, master,
         controls, system, losses
    <2>2. CASE OtherStarts(p)
      BY <2>2, <1>4, SameConfig, LaunchOK DEF OtherStarts, Use, Inv, TypeSystem, TypeControls, ProcsOwned,
         master, controls, system, losses
    <2> QED
      BY <1>4, <2>1, <2>2
  <1>5. ASSUME NEW w \in Worker, NEW p \in Pid, ServiceStarts(w, p)
         PROVE  ProcsOwned'
    BY <1>5, SameConfig, LaunchOK DEF ServiceStarts, Use, Inv, TypeSystem, TypeControls, ProcsOwned, PortWindow, PidWindow, master,
       controls, system, losses
  <1>6. CASE UNCHANGED vars
    BY <1>6, SameConfig, LaunchOK DEF vars, master, controls, system, losses, Inv, TypeSystem, TypeControls,
       ProcsOwned, PortWindow, PidWindow
  <1> QED
    BY <1>1, <1>2, <1>3, <1>4, <1>5, <1>6 DEF Next

\* The PIDs of processes that are not lost.
LEMMA RecordedStep ==
  ASSUME Inv, Next \/ UNCHANGED vars
  PROVE  Recorded'
  <1>1. ASSUME NEW e \in Env, Run(e)
         PROVE  Recorded'
    BY <1>1, SameConfig, LaunchOK DEF Run, Inv, TypeSystem, TypeControls, Recorded, PidWindow,
       At, MovedPids, master, controls, system, losses
  <1>2. CASE Crash
    BY <1>2, SameConfig, LaunchOK DEF Crash, Inv, TypeSystem, TypeControls, Recorded, PidWindow,
       At, Unwritten, master, controls, system, losses
  <1>3. ASSUME NEW w \in Worker, StartStep(w) \/ Stop(w)
         PROVE  Recorded'
    <2>1. CASE AttachCmd(w)
      BY <2>1, <1>3, SameConfig, LaunchOK DEF AttachCmd, Attach, CanStart, Goto, Inv, TypeSystem,
         TypeControls, Recorded, PidWindow, At, master, controls, system, losses
    <2>2. CASE AttachWithoutPort(w)
      BY <2>2, <1>3, SameConfig, LaunchOK DEF AttachWithoutPort, Attach, CanStart, Goto, Inv,
         TypeSystem, TypeControls, Recorded, PidWindow, At, master, controls, system, losses
    <2>3. CASE AttachCmdFails(w)
      BY <2>3, <1>3, SameConfig, LaunchOK DEF AttachCmdFails, AttachFails, CanStart, StartFailed,
         WithoutProcess, Goto, Inv, TypeSystem, TypeControls, Recorded, PidWindow, At, master,
         controls, system, losses
    <2>4. CASE PidUnreadable(w)
      BY <2>4, <1>3, SameConfig, LaunchOK DEF PidUnreadable, AttachFails, CanStart, StartFailed,
         WithoutProcess, Goto, Inv, TypeSystem, TypeControls, Recorded, PidWindow, At,
         ControlsOfWorkers, master, controls, system, losses
    <2>5. ASSUME NEW p \in Pid, NEW q \in Port \cup {Empty}, ExecuteCmd(w, p, q)
           PROVE  Recorded'
      BY <2>5, <1>3, SameConfig, LaunchOK DEF ExecuteCmd, Use, Goto, Inv, TypeSystem,
         TypeControls, Recorded, PidWindow, At, master, controls, system, losses
    <2>6. CASE ExecuteCmdFails(w)
      BY <2>6, <1>3, SameConfig, LaunchOK DEF ExecuteCmdFails, StartFailed, WithoutProcess, Goto,
         Inv, TypeSystem, TypeControls, Recorded, PidWindow, At, master, controls, system, losses
    <2>7. CASE TruncatePIDFile(w)
      BY <2>7, <1>3, SameConfig, LaunchOK, Paths DEF TruncatePIDFile, Truncate, Goto, Inv,
         TypeSystem, TypeControls, Recorded, PidWindow, At, Write, ControlsOfWorkers, OthersLost,
         PortWindow, master, controls, system, losses
    <2>8. CASE WritePIDFile(w)
      BY <2>8, <1>3, SameConfig, LaunchOK, Paths DEF WritePIDFile, Goto, Inv, TypeSystem,
         TypeControls, Recorded, PidWindow, At, Write, ControlsOfWorkers, OthersLost, PortWindow,
         master, controls, system, losses
    <2>9. CASE WritePIDFileFails(w)
      BY <2>9, <1>3, SameConfig, LaunchOK DEF WritePIDFileFails, Goto, Inv, TypeSystem,
         TypeControls, Recorded, PidWindow, At, master, controls, system, losses
    <2>10. CASE TruncatePortFile(w)
      BY <2>10, <1>3, SameConfig, LaunchOK, Paths DEF TruncatePortFile, Truncate, Goto, Inv,
         TypeSystem, TypeControls, Recorded, PidWindow, At, Write, ControlsOfWorkers, OthersLost,
         PortWindow, master, controls, system, losses
    <2>11. CASE WritePortFile(w)
      BY <2>11, <1>3, SameConfig, LaunchOK, Paths DEF WritePortFile, Goto, Inv, TypeSystem,
         TypeControls, Recorded, PidWindow, At, Write, ControlsOfWorkers, OthersLost, PortWindow,
         master, controls, system, losses
    <2>12. CASE WritePortFileFails(w)
      BY <2>12, <1>3, SameConfig, LaunchOK DEF WritePortFileFails, Goto, Inv, TypeSystem,
         TypeControls, Recorded, PidWindow, At, master, controls, system, losses
    <2>13. CASE Started(w)
      BY <2>13, <1>3, SameConfig, LaunchOK DEF Started, Goto, Inv, TypeSystem, TypeControls,
         Recorded, PidWindow, At, master, controls, system, losses
    <2>14. CASE Cancelled(w)
      BY <2>14, <1>3, SameConfig, LaunchOK DEF Cancelled, StartFailed, WithoutProcess, Goto,
         Signalled, Ends, Inv, TypeSystem, TypeControls, Recorded, PidWindow, At,
         ControlsOfWorkers, master, controls, system, losses
    <2>15. CASE Stop(w)
      BY <2>15, <1>3, SameConfig, LaunchOK DEF Stop, WithoutProcess, Signalled, Ends, Inv,
         TypeSystem, TypeControls, Recorded, PidWindow, At, ControlsOfWorkers, master, controls,
         system, losses
    <2> QED
      BY <1>3, <2>1, <2>2, <2>3, <2>4, <2>5, <2>6, <2>7, <2>8, <2>9, <2>10, <2>11, <2>12, <2>13,
         <2>14, <2>15 DEF StartStep
  <1>4. ASSUME NEW p \in Pid, Exit(p) \/ OtherStarts(p)
         PROVE  Recorded'
    <2>1. CASE Exit(p)
      BY <2>1, <1>4, SameConfig, LaunchOK DEF Exit, Ends, Inv, TypeSystem, TypeControls,
         Recorded, PidWindow, At, master, controls, system, losses
    <2>2. CASE OtherStarts(p)
      BY <2>2, <1>4, SameConfig, LaunchOK DEF OtherStarts, Use, Inv, TypeSystem, TypeControls,
         Recorded, PidWindow, At, master, controls, system, losses
    <2> QED
      BY <1>4, <2>1, <2>2
  <1>5. ASSUME NEW w \in Worker, NEW p \in Pid, ServiceStarts(w, p)
         PROVE  Recorded'
    <2>1. PICK unit \in WorkerOf(w).unmanaged : /\ Write(ServiceFile(unit), p)
                                              /\ lost' = lost \cup RecordedIn(ServiceFile(unit))
      BY <1>5 DEF ServiceStarts
    <2>2. ~Executes(w)
      BY <1>5 DEF ServiceStarts, Executes
    <2>3. \A path : path # ServiceFile(unit) => At(path)' = At(path)
      BY <2>1 DEF Write, At
    <2>4. UNCHANGED <<env, proc, pc>>
      BY <1>5 DEF ServiceStarts, master, controls
    <2>5. ASSUME NEW v \in Worker, NEW q \in Pid, who'[q] = v, Executes(v)
          PROVE  \/ At(PidFile(v, env))' = q
                 \/ q \in lost'
                 \/ proc[v] = q /\ pc[v] \in PidWindow
      <3>1. who[q] = v
        BY <1>5, <2>2, <2>5 DEF ServiceStarts, Use, Inv, TypeSystem
      <3>2. \/ At(PidFile(v, env)) = q
            \/ q \in lost
            \/ proc[v] = q /\ pc[v] \in PidWindow
        BY <2>5, <3>1 DEF Inv, Recorded
      <3>3. q \in lost => q \in lost'
        BY <2>1
      <3>4. PidFile(v, env)' = PidFile(v, env)
        BY <1>5, <2>4, SameConfig
      <3>5. CASE PidFile(v, env) # ServiceFile(unit)
        <4> DEFINE path == PidFile(v, env)
        <4>1. path' = path
          BY <3>4
        <4>2. At(path)' = At(path)
          BY <2>1, <3>5, <4>1 DEF Write, At
        <4> QED
          BY <3>2, <3>3, <4>2
      <3>6. CASE PidFile(v, env) = ServiceFile(unit)
        BY <2>1, <2>5, <3>1, <3>2, <3>3, <3>6 DEF RecordedIn
      <3> QED
        BY <3>5, <3>6
    <2>6. \A v : Executes(v)' <=> Executes(v)
      BY <1>5, SameConfig
    <2>7. ASSUME NEW q \in Pid, who'[q] \in Worker, Executes(who[q])'
          PROVE  \/ At(PidFile(who[q], env))' = q
                 \/ q \in lost'
                 \/ (proc[who[q]] = q /\ pc[who[q]] \in PidWindow)'
      <3>1. Executes(who'[q])
        BY <2>6, <2>7
      <3> QED
        BY <2>4, <2>5, <2>7, <3>1 DEF PidWindow
    <2> QED
      BY <2>7 DEF Recorded, PidWindow
  <1>6. CASE UNCHANGED vars
    BY <1>6, SameConfig, LaunchOK DEF vars, master, controls, system, losses, Inv, TypeSystem,
       TypeControls, Recorded, PidWindow, At
  <1> QED
    BY <1>1, <1>2, <1>3, <1>4, <1>5, <1>6 DEF Next

\* A start that attaches to the process of the PID file leaves only lost ones behind.
LEMMA AttachedOnly ==
  ASSUME Inv, NEW w \in Worker, NEW q, Attach(w, q), Next \/ UNCHANGED vars
  PROVE  OthersLost'
  <1>1. \A p \in Pid : Executes(w) /\ who[p] = w => p = At(PidFile(w, env)) \/ p \in lost
    BY DEF Attach, CanStart, Inv, Recorded, PidWindow
  <1>2. /\ \A v \in Worker \ {w} : pc'[v] = pc[v] /\ proc'[v] = proc[v]
        /\ pc'[w] = "ready" /\ proc'[w] = At(PidFile(w, env))
        /\ UNCHANGED <<control, who, lost>>
    BY DEF Attach, Goto, Inv, TypeControls, system
  <1>3. \A v : Executes(v)' <=> Executes(v)
    BY SameConfig
  <1>4. ASSUME NEW v \in Worker, NEW p \in Pid, Executes(v)', who'[p] = v
        PROVE  /\ pc'[v] = "execute" => p \in lost'
               /\ pc'[v] \in PortWindow \cup {"ready"} \/ control'[v] = "running"
                     => p = proc'[v] \/ p \in lost'
    <2>1. CASE v = w
      BY <1>1, <1>2, <1>3, <1>4, <2>1
    <2>2. CASE v # w
      BY <1>2, <1>3, <1>4, <2>2 DEF Inv, OthersLost
    <2> QED
      BY <2>1, <2>2
  <1> QED
    BY <1>4 DEF OthersLost, PortWindow, PidWindow

\* Other processes of a worker whose process is executed.
LEMMA OthersStep ==
  ASSUME Inv, Next \/ UNCHANGED vars
  PROVE  OthersLost'
  <1>1. ASSUME NEW e \in Env, Run(e)
         PROVE  OthersLost'
    BY <1>1, SameConfig, LaunchOK DEF Run, Inv, TypeSystem, TypeControls, OthersLost, PidWindow,
       PortWindow, master, controls, system, losses
  <1>2. CASE Crash
    BY <1>2, SameConfig, LaunchOK DEF Crash, Inv, TypeSystem, TypeControls, OthersLost,
       PidWindow, PortWindow, master, controls, system, losses
  <1>3. ASSUME NEW w \in Worker, StartStep(w) \/ Stop(w)
         PROVE  OthersLost'
    <2>1. CASE AttachCmd(w)
      <3>1. Attach(w, port'[w]) /\ UNCHANGED lost
        BY <2>1 DEF AttachCmd, Attach, Inv, TypeControls
      <3> QED
        BY <3>1, <1>3, AttachedOnly, SameConfig
    <2>2. CASE AttachWithoutPort(w)
      <3>1. Attach(w, port'[w]) /\ UNCHANGED lost
        BY <2>2 DEF AttachWithoutPort, Attach, Inv, TypeControls
      <3> QED
        BY <3>1, <1>3, AttachedOnly, SameConfig
    <2>3. CASE AttachCmdFails(w)
      BY <2>3, <1>3, SameConfig, LaunchOK DEF AttachCmdFails, AttachFails, CanStart, StartFailed,
         WithoutProcess, Goto, Inv, TypeSystem, TypeControls, OthersLost, PidWindow, PortWindow,
         Recorded, ByPidFile, Running, Alive, master, controls, system, losses
    <2>4. CASE PidUnreadable(w)
      BY <2>4, <1>3, SameConfig, LaunchOK DEF PidUnreadable, AttachFails, CanStart, StartFailed,
         WithoutProcess, Goto, Inv, TypeSystem, TypeControls, OthersLost, PidWindow, PortWindow,
         Recorded, ByPidFile, Running, Alive, master, controls, system, losses
    <2>5. ASSUME NEW p \in Pid, NEW q \in Port \cup {Empty}, ExecuteCmd(w, p, q)
           PROVE  OthersLost'
      BY <2>5, <1>3, SameConfig, LaunchOK DEF ExecuteCmd, Use, Goto, Inv, TypeSystem,
         TypeControls, OthersLost, PidWindow, PortWindow, master, controls, system, losses
    <2>6. CASE ExecuteCmdFails(w)
      BY <2>6, <1>3, SameConfig, LaunchOK DEF ExecuteCmdFails, StartFailed, WithoutProcess, Goto,
         Inv, TypeSystem, TypeControls, OthersLost, PidWindow, PortWindow, master, controls,
         system, losses
    <2>7. CASE TruncatePIDFile(w)
      BY <2>7, <1>3, SameConfig, LaunchOK DEF TruncatePIDFile, Truncate, Goto, Inv, TypeSystem,
         TypeControls, OthersLost, PidWindow, PortWindow, master, controls, system, losses
    <2>8. CASE WritePIDFile(w)
      BY <2>8, <1>3, SameConfig, LaunchOK DEF WritePIDFile, Goto, Inv, TypeSystem, TypeControls,
         OthersLost, PidWindow, PortWindow, AfterPid, master, controls, system, losses
    <2>9. CASE WritePIDFileFails(w)
      BY <2>9, <1>3, SameConfig, LaunchOK DEF WritePIDFileFails, Goto, Inv, TypeSystem,
         TypeControls, OthersLost, PidWindow, PortWindow, AfterPid, master, controls, system,
         losses
    <2>10. CASE TruncatePortFile(w)
      BY <2>10, <1>3, SameConfig, LaunchOK DEF TruncatePortFile, Truncate, Goto, Inv, TypeSystem,
         TypeControls, OthersLost, PidWindow, PortWindow, master, controls, system, losses
    <2>11. CASE WritePortFile(w)
      BY <2>11, <1>3, SameConfig, LaunchOK DEF WritePortFile, Goto, Inv, TypeSystem,
         TypeControls, OthersLost, PidWindow, PortWindow, master, controls, system, losses
    <2>12. CASE WritePortFileFails(w)
      BY <2>12, <1>3, SameConfig, LaunchOK DEF WritePortFileFails, Goto, Inv, TypeSystem,
         TypeControls, OthersLost, PidWindow, PortWindow, master, controls, system, losses
    <2>13. CASE Started(w)
      BY <2>13, <1>3, SameConfig, LaunchOK DEF Started, Goto, Inv, TypeSystem, TypeControls,
         OthersLost, PidWindow, PortWindow, master, controls, system, losses
    <2>14. CASE Cancelled(w)
      BY <2>14, <1>3, SameConfig, LaunchOK DEF Cancelled, StartFailed, WithoutProcess, Goto,
         Signalled, Ends, Inv, TypeSystem, TypeControls, OthersLost, PidWindow, PortWindow,
         master, controls, system, losses
    <2>15. CASE Stop(w)
      BY <2>15, <1>3, SameConfig, LaunchOK DEF Stop, WithoutProcess, Signalled, Ends, Inv,
         TypeSystem, TypeControls, OthersLost, PidWindow, PortWindow, ControlsOfWorkers, master,
         controls, system, losses
    <2> QED
      BY <1>3, <2>1, <2>2, <2>3, <2>4, <2>5, <2>6, <2>7, <2>8, <2>9, <2>10, <2>11, <2>12, <2>13,
         <2>14, <2>15 DEF StartStep
  <1>4. ASSUME NEW p \in Pid, Exit(p) \/ OtherStarts(p)
         PROVE  OthersLost'
    <2>1. CASE Exit(p)
      BY <2>1, <1>4, SameConfig, LaunchOK DEF Exit, Ends, Inv, TypeSystem, TypeControls,
         OthersLost, PidWindow, PortWindow, master, controls, system, losses
    <2>2. CASE OtherStarts(p)
      BY <2>2, <1>4, SameConfig, LaunchOK DEF OtherStarts, Use, Inv, TypeSystem, TypeControls,
         OthersLost, PidWindow, PortWindow, master, controls, system, losses
    <2> QED
      BY <1>4, <2>1, <2>2
  <1>5. ASSUME NEW w \in Worker, NEW p \in Pid, ServiceStarts(w, p)
         PROVE  OthersLost'
    BY <1>5, SameConfig, LaunchOK DEF ServiceStarts, Use, Inv, TypeSystem, TypeControls,
       OthersLost, PidWindow, PortWindow, Executes, master, controls, system, losses
  <1>6. CASE UNCHANGED vars
    BY <1>6, SameConfig, LaunchOK DEF vars, master, controls, system, losses, Inv, TypeSystem,
       TypeControls, OthersLost, PidWindow, PortWindow
  <1> QED
    BY <1>1, <1>2, <1>3, <1>4, <1>5, <1>6 DEF Next

\* The processes of a worker.
LEMMA OneStep ==
  ASSUME Inv, Next \/ UNCHANGED vars
  PROVE  AtMostOne'
  <1>1. ASSUME NEW e \in Env, Run(e)
         PROVE  AtMostOne'
    BY <1>1, SameConfig, LaunchOK DEF Run, Inv, TypeSystem, AtMostOne, ProcessesOf, master,
       controls, system, losses
  <1>2. CASE Crash
    BY <1>2, SameConfig, LaunchOK DEF Crash, Inv, TypeSystem, AtMostOne, ProcessesOf, master,
       controls, system, losses
  <1>3. ASSUME NEW w \in Worker, StartStep(w) \/ Stop(w)
         PROVE  AtMostOne'
    <2>1. CASE AttachCmd(w)
      BY <2>1, <1>3, SameConfig, LaunchOK DEF AttachCmd, Attach, CanStart, Goto, Inv, TypeSystem,
         AtMostOne, ProcessesOf, master, controls, system, losses
    <2>2. CASE AttachWithoutPort(w)
      BY <2>2, <1>3, SameConfig, LaunchOK DEF AttachWithoutPort, Attach, CanStart, Goto, Inv,
         TypeSystem, AtMostOne, ProcessesOf, master, controls, system, losses
    <2>3. CASE AttachCmdFails(w)
      BY <2>3, <1>3, SameConfig, LaunchOK DEF AttachCmdFails, AttachFails, CanStart, StartFailed,
         WithoutProcess, Goto, Inv, TypeSystem, AtMostOne, ProcessesOf, master, controls,
         system, losses
    <2>4. CASE PidUnreadable(w)
      BY <2>4, <1>3, SameConfig, LaunchOK DEF PidUnreadable, AttachFails, CanStart, StartFailed,
         WithoutProcess, Goto, Inv, TypeSystem, AtMostOne, ProcessesOf, master, controls,
         system, losses
    <2>5. ASSUME NEW p \in Pid, NEW q \in Port \cup {Empty}, ExecuteCmd(w, p, q)
           PROVE  AtMostOne'
      BY <2>5, <1>3, SameConfig, LaunchOK DEF ExecuteCmd, Use, Goto, Inv, TypeSystem, AtMostOne,
         ProcessesOf, OthersLost, master, controls, system, losses
    <2>6. CASE ExecuteCmdFails(w)
      BY <2>6, <1>3, SameConfig, LaunchOK DEF ExecuteCmdFails, StartFailed, WithoutProcess, Goto,
         Inv, TypeSystem, AtMostOne, ProcessesOf, master, controls, system, losses
    <2>7. CASE TruncatePIDFile(w)
      BY <2>7, <1>3, SameConfig, LaunchOK DEF TruncatePIDFile, Truncate, Goto, Inv, TypeSystem,
         AtMostOne, ProcessesOf, master, controls, system, losses
    <2>8. CASE WritePIDFile(w)
      BY <2>8, <1>3, SameConfig, LaunchOK DEF WritePIDFile, Goto, Inv, TypeSystem, AtMostOne,
         ProcessesOf, master, controls, system, losses
    <2>9. CASE WritePIDFileFails(w)
      BY <2>9, <1>3, SameConfig, LaunchOK DEF WritePIDFileFails, Goto, Inv, TypeSystem,
         AtMostOne, ProcessesOf, master, controls, system, losses
    <2>10. CASE TruncatePortFile(w)
      BY <2>10, <1>3, SameConfig, LaunchOK DEF TruncatePortFile, Truncate, Goto, Inv, TypeSystem,
         AtMostOne, ProcessesOf, master, controls, system, losses
    <2>11. CASE WritePortFile(w)
      BY <2>11, <1>3, SameConfig, LaunchOK DEF WritePortFile, Goto, Inv, TypeSystem, AtMostOne,
         ProcessesOf, master, controls, system, losses
    <2>12. CASE WritePortFileFails(w)
      BY <2>12, <1>3, SameConfig, LaunchOK DEF WritePortFileFails, Goto, Inv, TypeSystem,
         AtMostOne, ProcessesOf, master, controls, system, losses
    <2>13. CASE Started(w)
      BY <2>13, <1>3, SameConfig, LaunchOK DEF Started, Goto, Inv, TypeSystem, AtMostOne,
         ProcessesOf, master, controls, system, losses
    <2>14. CASE Cancelled(w)
      BY <2>14, <1>3, SameConfig, LaunchOK DEF Cancelled, StartFailed, WithoutProcess, Goto,
         Signalled, Ends, Inv, TypeSystem, AtMostOne, ProcessesOf, master, controls, system,
         losses
    <2>15. CASE Stop(w)
      BY <2>15, <1>3, SameConfig, LaunchOK DEF Stop, WithoutProcess, Signalled, Ends, Inv,
         TypeSystem, AtMostOne, ProcessesOf, master, controls, system, losses
    <2> QED
      BY <1>3, <2>1, <2>2, <2>3, <2>4, <2>5, <2>6, <2>7, <2>8, <2>9, <2>10, <2>11, <2>12, <2>13,
         <2>14, <2>15 DEF StartStep
  <1>4. ASSUME NEW p \in Pid, Exit(p) \/ OtherStarts(p)
         PROVE  AtMostOne'
    <2>1. CASE Exit(p)
      BY <2>1, <1>4, SameConfig, LaunchOK DEF Exit, Ends, Inv, TypeSystem, AtMostOne,
         ProcessesOf, master, controls, system, losses
    <2>2. CASE OtherStarts(p)
      BY <2>2, <1>4, SameConfig, LaunchOK DEF OtherStarts, Use, Inv, TypeSystem, AtMostOne,
         ProcessesOf, master, controls, system, losses
    <2> QED
      BY <1>4, <2>1, <2>2
  <1>5. ASSUME NEW w \in Worker, NEW p \in Pid, ServiceStarts(w, p)
         PROVE  AtMostOne'
    BY <1>5, SameConfig, LaunchOK DEF ServiceStarts, Use, Inv, TypeSystem, AtMostOne,
       ProcessesOf, master, controls, system, losses
  <1>6. CASE UNCHANGED vars
    BY <1>6, SameConfig, LaunchOK DEF vars, master, controls, system, losses, Inv, TypeSystem,
       AtMostOne, ProcessesOf
  <1> QED
    BY <1>1, <1>2, <1>3, <1>4, <1>5, <1>6 DEF Next

\* The ports of the processes of integrated workers.
LEMMA ToldStep ==
  ASSUME Inv, Next \/ UNCHANGED vars
  PROVE  PortsTold'
  <1>1. ASSUME NEW e \in Env, Run(e)
         PROVE  PortsTold'
    BY <1>1, SameConfig, LaunchOK DEF Run, Inv, TypeSystem, PortsTold, master, controls, system,
       losses
  <1>2. CASE Crash
    BY <1>2, SameConfig, LaunchOK DEF Crash, Inv, TypeSystem, PortsTold, master, controls,
       system, losses
  <1>3. ASSUME NEW w \in Worker, StartStep(w) \/ Stop(w)
         PROVE  PortsTold'
    <2>1. CASE AttachCmd(w)
      BY <2>1, <1>3, SameConfig, LaunchOK DEF AttachCmd, Attach, CanStart, Goto, Inv, TypeSystem,
         PortsTold, master, controls, system, losses
    <2>2. CASE AttachWithoutPort(w)
      BY <2>2, <1>3, SameConfig, LaunchOK DEF AttachWithoutPort, Attach, CanStart, Goto, Inv,
         TypeSystem, PortsTold, master, controls, system, losses
    <2>3. CASE AttachCmdFails(w)
      BY <2>3, <1>3, SameConfig, LaunchOK DEF AttachCmdFails, AttachFails, CanStart, StartFailed,
         WithoutProcess, Goto, Inv, TypeSystem, PortsTold, master, controls, system, losses
    <2>4. CASE PidUnreadable(w)
      BY <2>4, <1>3, SameConfig, LaunchOK DEF PidUnreadable, AttachFails, CanStart, StartFailed,
         WithoutProcess, Goto, Inv, TypeSystem, PortsTold, master, controls, system, losses
    <2>5. ASSUME NEW p \in Pid, NEW q \in Port \cup {Empty}, ExecuteCmd(w, p, q)
           PROVE  PortsTold'
      BY <2>5, <1>3, SameConfig, LaunchOK DEF ExecuteCmd, Use, Goto, Inv, TypeSystem, PortsTold,
         master, controls, system, losses
    <2>6. CASE ExecuteCmdFails(w)
      BY <2>6, <1>3, SameConfig, LaunchOK DEF ExecuteCmdFails, StartFailed, WithoutProcess, Goto,
         Inv, TypeSystem, PortsTold, master, controls, system, losses
    <2>7. CASE TruncatePIDFile(w)
      BY <2>7, <1>3, SameConfig, LaunchOK DEF TruncatePIDFile, Truncate, Goto, Inv, TypeSystem,
         PortsTold, master, controls, system, losses
    <2>8. CASE WritePIDFile(w)
      BY <2>8, <1>3, SameConfig, LaunchOK DEF WritePIDFile, Goto, Inv, TypeSystem, PortsTold,
         master, controls, system, losses
    <2>9. CASE WritePIDFileFails(w)
      BY <2>9, <1>3, SameConfig, LaunchOK DEF WritePIDFileFails, Goto, Inv, TypeSystem,
         PortsTold, master, controls, system, losses
    <2>10. CASE TruncatePortFile(w)
      BY <2>10, <1>3, SameConfig, LaunchOK DEF TruncatePortFile, Truncate, Goto, Inv, TypeSystem,
         PortsTold, master, controls, system, losses
    <2>11. CASE WritePortFile(w)
      BY <2>11, <1>3, SameConfig, LaunchOK DEF WritePortFile, Goto, Inv, TypeSystem, PortsTold,
         master, controls, system, losses
    <2>12. CASE WritePortFileFails(w)
      BY <2>12, <1>3, SameConfig, LaunchOK DEF WritePortFileFails, Goto, Inv, TypeSystem,
         PortsTold, master, controls, system, losses
    <2>13. CASE Started(w)
      BY <2>13, <1>3, SameConfig, LaunchOK DEF Started, Goto, Inv, TypeSystem, PortsTold, master,
         controls, system, losses
    <2>14. CASE Cancelled(w)
      BY <2>14, <1>3, SameConfig, LaunchOK DEF Cancelled, StartFailed, WithoutProcess, Goto,
         Signalled, Ends, Inv, TypeSystem, PortsTold, master, controls, system, losses
    <2>15. CASE Stop(w)
      BY <2>15, <1>3, SameConfig, LaunchOK DEF Stop, WithoutProcess, Signalled, Ends, Inv,
         TypeSystem, PortsTold, master, controls, system, losses
    <2> QED
      BY <1>3, <2>1, <2>2, <2>3, <2>4, <2>5, <2>6, <2>7, <2>8, <2>9, <2>10, <2>11, <2>12, <2>13,
         <2>14, <2>15 DEF StartStep
  <1>4. ASSUME NEW p \in Pid, Exit(p) \/ OtherStarts(p)
         PROVE  PortsTold'
    <2>1. CASE Exit(p)
      BY <2>1, <1>4, SameConfig, LaunchOK DEF Exit, Ends, Inv, TypeSystem, PortsTold, master,
         controls, system, losses
    <2>2. CASE OtherStarts(p)
      BY <2>2, <1>4, SameConfig, LaunchOK DEF OtherStarts, Use, Inv, TypeSystem, PortsTold,
         master, controls, system, losses
    <2> QED
      BY <1>4, <2>1, <2>2
  <1>5. ASSUME NEW w \in Worker, NEW p \in Pid, ServiceStarts(w, p)
         PROVE  PortsTold'
    BY <1>5, SameConfig, LaunchOK DEF ServiceStarts, Use, Inv, TypeSystem, PortsTold, Integrated,
       master, controls, system, losses
  <1>6. CASE UNCHANGED vars
    BY <1>6, SameConfig, LaunchOK DEF vars, master, controls, system, losses, Inv, TypeSystem,
       PortsTold
  <1> QED
    BY <1>1, <1>2, <1>3, <1>4, <1>5, <1>6 DEF Next

\* The ports of processes that are not lost.
LEMMA PortsRecordedStep ==
  ASSUME Inv, Next \/ UNCHANGED vars
  PROVE  PortsRecorded'
  <1>1. ASSUME NEW e \in Env, Run(e)
         PROVE  PortsRecorded'
    BY <1>1, SameConfig, LaunchOK DEF Run, Inv, TypeSystem, TypeControls, PortsRecorded,
       PidWindow, PortWindow, At, MovedPorts, master, controls, system, losses
  <1>2. CASE Crash
    BY <1>2, SameConfig, LaunchOK DEF Crash, Inv, TypeSystem, TypeControls, PortsRecorded,
       PidWindow, PortWindow, At, Unwritten, master, controls, system, losses
  <1>3. ASSUME NEW w \in Worker, StartStep(w) \/ Stop(w)
         PROVE  PortsRecorded'
    <2>1. CASE AttachCmd(w)
      BY <2>1, <1>3, SameConfig, LaunchOK DEF AttachCmd, Attach, CanStart, Goto, Inv, TypeSystem,
         TypeControls, PortsRecorded, PidWindow, PortWindow, At, master, controls, system, losses
    <2>2. CASE AttachWithoutPort(w)
      BY <2>2, <1>3, SameConfig, LaunchOK DEF AttachWithoutPort, Attach, CanStart, Goto, Inv,
         TypeSystem, TypeControls, PortsRecorded, PidWindow, PortWindow, At, master, controls,
         system, losses
    <2>3. CASE AttachCmdFails(w)
      BY <2>3, <1>3, SameConfig, LaunchOK DEF AttachCmdFails, AttachFails, CanStart, StartFailed,
         WithoutProcess, Goto, Inv, TypeSystem, TypeControls, PortsRecorded, PidWindow,
         PortWindow, At, master, controls, system, losses
    <2>4. CASE PidUnreadable(w)
      BY <2>4, <1>3, SameConfig, LaunchOK DEF PidUnreadable, AttachFails, CanStart, StartFailed,
         WithoutProcess, Goto, Inv, TypeSystem, TypeControls, PortsRecorded, PidWindow,
         PortWindow, At, master, controls, system, losses
    <2>5. ASSUME NEW p \in Pid, NEW q \in Port \cup {Empty}, ExecuteCmd(w, p, q)
           PROVE  PortsRecorded'
      BY <2>5, <1>3, SameConfig, LaunchOK DEF ExecuteCmd, Use, Goto, Inv, TypeSystem,
         TypeControls, PortsRecorded, PidWindow, PortWindow, At, master, controls, system, losses
    <2>6. CASE ExecuteCmdFails(w)
      BY <2>6, <1>3, SameConfig, LaunchOK DEF ExecuteCmdFails, StartFailed, WithoutProcess, Goto,
         Inv, TypeSystem, TypeControls, PortsRecorded, PidWindow, PortWindow, At, master,
         controls, system, losses
    <2>7. CASE TruncatePIDFile(w)
      BY <2>7, <1>3, SameConfig, LaunchOK, Paths DEF TruncatePIDFile, Truncate, Goto, Inv,
         TypeSystem, TypeControls, PortsRecorded, PidWindow, PortWindow, At, Write,
         ControlsOfWorkers, OthersLost, PortsKnown, Integrated, Executes, AfterPid, master,
         controls, system, losses
    <2>8. CASE WritePIDFile(w)
      BY <2>8, <1>3, SameConfig, LaunchOK, Paths DEF WritePIDFile, Goto, Inv, TypeSystem,
         TypeControls, PortsRecorded, PidWindow, PortWindow, At, Write, ControlsOfWorkers,
         PortsKnown, Integrated, Executes, AfterPid, master, controls, system, losses
    <2>9. CASE WritePIDFileFails(w)
      BY <2>9, <1>3, SameConfig, LaunchOK DEF WritePIDFileFails, Goto, Inv, TypeSystem,
         TypeControls, PortsRecorded, PidWindow, PortWindow, At, AfterPid, master, controls,
         system, losses
    <2>10. CASE TruncatePortFile(w)
      BY <2>10, <1>3, SameConfig, LaunchOK, Paths DEF TruncatePortFile, Truncate, Goto, Inv,
         TypeSystem, TypeControls, PortsRecorded, PidWindow, PortWindow, At, Write,
         ControlsOfWorkers, OthersLost, PortsKnown, Integrated, Executes, AfterPid, master,
         controls, system, losses
    <2>11. CASE WritePortFile(w)
      BY <2>11, <1>3, SameConfig, LaunchOK, Paths DEF WritePortFile, Goto, Inv, TypeSystem,
         TypeControls, PortsRecorded, PidWindow, PortWindow, At, Write, ControlsOfWorkers,
         OthersLost, PortsKnown, Integrated, Executes, AfterPid, master, controls, system, losses
    <2>12. CASE WritePortFileFails(w)
      BY <2>12, <1>3, SameConfig, LaunchOK DEF WritePortFileFails, Goto, Inv, TypeSystem,
         TypeControls, PortsRecorded, PidWindow, PortWindow, At, master, controls, system, losses
    <2>13. CASE Started(w)
      BY <2>13, <1>3, SameConfig, LaunchOK DEF Started, Goto, Inv, TypeSystem, TypeControls,
         PortsRecorded, PidWindow, PortWindow, At, master, controls, system, losses
    <2>14. CASE Cancelled(w)
      BY <2>14, <1>3, SameConfig, LaunchOK DEF Cancelled, StartFailed, WithoutProcess, Goto,
         Signalled, Ends, Inv, TypeSystem, TypeControls, PortsRecorded, PidWindow, PortWindow,
         At, master, controls, system, losses
    <2>15. CASE Stop(w)
      BY <2>15, <1>3, SameConfig, LaunchOK DEF Stop, WithoutProcess, Signalled, Ends, Inv,
         TypeSystem, TypeControls, PortsRecorded, PidWindow, PortWindow, At, ControlsOfWorkers,
         master, controls, system, losses
    <2> QED
      BY <1>3, <2>1, <2>2, <2>3, <2>4, <2>5, <2>6, <2>7, <2>8, <2>9, <2>10, <2>11, <2>12, <2>13,
         <2>14, <2>15 DEF StartStep
  <1>4. ASSUME NEW p \in Pid, Exit(p) \/ OtherStarts(p)
         PROVE  PortsRecorded'
    <2>1. CASE Exit(p)
      BY <2>1, <1>4, SameConfig, LaunchOK DEF Exit, Ends, Inv, TypeSystem, TypeControls,
         PortsRecorded, PidWindow, PortWindow, At, master, controls, system, losses
    <2>2. CASE OtherStarts(p)
      BY <2>2, <1>4, SameConfig, LaunchOK DEF OtherStarts, Use, Inv, TypeSystem, TypeControls,
         PortsRecorded, PidWindow, PortWindow, At, master, controls, system, losses
    <2> QED
      BY <1>4, <2>1, <2>2
  <1>5. ASSUME NEW w \in Worker, NEW p \in Pid, ServiceStarts(w, p)
         PROVE  PortsRecorded'
    BY <1>5, SameConfig, LaunchOK, ServicePaths, Paths DEF ServiceStarts, Use, Inv, TypeSystem,
       TypeControls, PortsRecorded, PidWindow, PortWindow, At, Write, OthersLost, PortsKnown,
       Integrated, Executes, AfterPid, master, controls, system, losses
  <1>6. CASE UNCHANGED vars
    BY <1>6, SameConfig, LaunchOK DEF vars, master, controls, system, losses, Inv, TypeSystem,
       TypeControls, PortsRecorded, PidWindow, PortWindow, At
  <1> QED
    BY <1>1, <1>2, <1>3, <1>4, <1>5, <1>6 DEF Next

\* The ports that health checks ask.
LEMMA KnownStep ==
  ASSUME Inv, Next \/ UNCHANGED vars
  PROVE  PortsKnown'
  <1>1. ASSUME NEW e \in Env, Run(e)
         PROVE  PortsKnown'
    BY <1>1, SameConfig, LaunchOK DEF Run, Inv, TypeSystem, TypeControls, PortsKnown, master,
       controls, system, losses
  <1>2. CASE Crash
    BY <1>2, SameConfig, LaunchOK DEF Crash, Inv, TypeSystem, TypeControls, PortsKnown, master,
       controls, system, losses
  <1>3. ASSUME NEW w \in Worker, StartStep(w) \/ Stop(w)
         PROVE  PortsKnown'
    <2>1. CASE AttachCmd(w)
      BY <2>1, <1>3, SameConfig, LaunchOK DEF AttachCmd, Attach, CanStart, Goto, Inv, TypeSystem,
         TypeControls, PortsKnown, PortsRecorded, PortsTold, ReadPortFile, Running, PortWindow,
         master, controls, system, losses
    <2>2. CASE AttachWithoutPort(w)
      BY <2>2, <1>3, SameConfig, LaunchOK DEF AttachWithoutPort, Attach, CanStart, Goto, Inv,
         TypeSystem, TypeControls, PortsKnown, Running, master, controls, system, losses
    <2>3. CASE AttachCmdFails(w)
      BY <2>3, <1>3, SameConfig, LaunchOK DEF AttachCmdFails, AttachFails, CanStart, StartFailed,
         WithoutProcess, Goto, Inv, TypeSystem, TypeControls, PortsKnown, master, controls,
         system, losses
    <2>4. CASE PidUnreadable(w)
      BY <2>4, <1>3, SameConfig, LaunchOK DEF PidUnreadable, AttachFails, CanStart, StartFailed,
         WithoutProcess, Goto, Inv, TypeSystem, TypeControls, PortsKnown, master, controls,
         system, losses
    <2>5. ASSUME NEW p \in Pid, NEW q \in Port \cup {Empty}, ExecuteCmd(w, p, q)
           PROVE  PortsKnown'
      BY <2>5, <1>3, SameConfig, LaunchOK DEF ExecuteCmd, Use, Goto, Inv, TypeSystem,
         TypeControls, PortsKnown, master, controls, system, losses
    <2>6. CASE ExecuteCmdFails(w)
      BY <2>6, <1>3, SameConfig, LaunchOK DEF ExecuteCmdFails, StartFailed, WithoutProcess, Goto,
         Inv, TypeSystem, TypeControls, PortsKnown, master, controls, system, losses
    <2>7. CASE TruncatePIDFile(w)
      BY <2>7, <1>3, SameConfig, LaunchOK DEF TruncatePIDFile, Truncate, Goto, Inv, TypeSystem,
         TypeControls, PortsKnown, master, controls, system, losses
    <2>8. CASE WritePIDFile(w)
      BY <2>8, <1>3, SameConfig, LaunchOK DEF WritePIDFile, Goto, Inv, TypeSystem, TypeControls,
         PortsKnown, master, controls, system, losses
    <2>9. CASE WritePIDFileFails(w)
      BY <2>9, <1>3, SameConfig, LaunchOK DEF WritePIDFileFails, Goto, Inv, TypeSystem,
         TypeControls, PortsKnown, master, controls, system, losses
    <2>10. CASE TruncatePortFile(w)
      BY <2>10, <1>3, SameConfig, LaunchOK DEF TruncatePortFile, Truncate, Goto, Inv, TypeSystem,
         TypeControls, PortsKnown, master, controls, system, losses
    <2>11. CASE WritePortFile(w)
      BY <2>11, <1>3, SameConfig, LaunchOK DEF WritePortFile, Goto, Inv, TypeSystem,
         TypeControls, PortsKnown, master, controls, system, losses
    <2>12. CASE WritePortFileFails(w)
      BY <2>12, <1>3, SameConfig, LaunchOK DEF WritePortFileFails, Goto, Inv, TypeSystem,
         TypeControls, PortsKnown, master, controls, system, losses
    <2>13. CASE Started(w)
      BY <2>13, <1>3, SameConfig, LaunchOK DEF Started, Goto, Inv, TypeSystem, TypeControls,
         PortsKnown, master, controls, system, losses
    <2>14. CASE Cancelled(w)
      BY <2>14, <1>3, SameConfig, LaunchOK DEF Cancelled, StartFailed, WithoutProcess, Goto,
         Signalled, Ends, Inv, TypeSystem, TypeControls, PortsKnown, master, controls, system,
         losses
    <2>15. CASE Stop(w)
      BY <2>15, <1>3, SameConfig, LaunchOK DEF Stop, WithoutProcess, Signalled, Ends, Inv,
         TypeSystem, TypeControls, PortsKnown, master, controls, system, losses
    <2> QED
      BY <1>3, <2>1, <2>2, <2>3, <2>4, <2>5, <2>6, <2>7, <2>8, <2>9, <2>10, <2>11, <2>12, <2>13,
         <2>14, <2>15 DEF StartStep
  <1>4. ASSUME NEW p \in Pid, Exit(p) \/ OtherStarts(p)
         PROVE  PortsKnown'
    <2>1. CASE Exit(p)
      BY <2>1, <1>4, SameConfig, LaunchOK DEF Exit, Ends, Inv, TypeSystem, TypeControls,
         PortsKnown, master, controls, system, losses
    <2>2. CASE OtherStarts(p)
      BY <2>2, <1>4, SameConfig, LaunchOK DEF OtherStarts, Use, Inv, TypeSystem, TypeControls,
         PortsKnown, master, controls, system, losses
    <2> QED
      BY <1>4, <2>1, <2>2
  <1>5. ASSUME NEW w \in Worker, NEW p \in Pid, ServiceStarts(w, p)
         PROVE  PortsKnown'
    BY <1>5, SameConfig, LaunchOK DEF ServiceStarts, Use, Inv, TypeSystem, TypeControls,
       PortsKnown, Integrated, master, controls, system, losses
  <1>6. CASE UNCHANGED vars
    BY <1>6, SameConfig, LaunchOK DEF vars, master, controls, system, losses, Inv, TypeSystem,
       TypeControls, PortsKnown
  <1> QED
    BY <1>1, <1>2, <1>3, <1>4, <1>5, <1>6 DEF Next

-----------------------------------------------------------------------------
\* The strengthening of the invariants holds in every state.
THEOREM InvInvariant == Spec => []Inv
  <1>1. Inv /\ [Next]_vars => Inv'
    BY UpStep, SystemStep, ControlStep, WorkersStep, FilesOwnedStep, ProcsOwnedStep, RecordedStep,
       OthersStep, OneStep, ToldStep, PortsRecordedStep, KnownStep DEF Inv
  <1> QED
    BY <1>1, InvInit, PTL DEF Spec

\* Every variable has its type, and only the control of a worker that was created has a process.
THEOREM TypeCorrect == Spec => []TypeOK
  <1>1. Inv => TypeOK
    BY DEF Inv, TypeOK
  <1> QED
    BY <1>1, InvInvariant, PTL

\* Two processes of a worker are never there without the loss of one of them.
THEOREM NoTwoProcesses == Spec => []OneProcess
  <1>1. Inv => OneProcess
    BY DEF Inv, AtMostOne, OthersLost, OneProcess, ProcessesOf
  <1> QED
    BY <1>1, InvInvariant, PTL

\* The process of a process control is one of its worker, or its PID was reused.
THEOREM NoProcessOfOthers == Spec => []OwnProcess
  <1>1. Inv => OwnProcess
    BY DEF Inv, OwnProcess, ProcsOwned, ControlsOfWorkers, TypeControls, TypeSystem, Alive
  <1> QED
    BY <1>1, InvInvariant, PTL

\* Health checks of integrated workers ask the port of their process, or it was lost.
THEOREM NoPortOfOthers == Spec => []ChecksOwnPort
  <1>1. Inv => ChecksOwnPort
    BY DEF Inv, ChecksOwnPort, PortsKnown, ControlsOfWorkers, TypeControls
  <1> QED
    BY <1>1, InvInvariant, PTL

-----------------------------------------------------------------------------
\* What is validated of the restarts of a worker suffices for the circuit breaker.
LEMMA ValidatedRestart ==
  ASSUME NEW r \in ContextAwareRestartConfig, ValidateContextAwareRestartConfig(r)
  PROVE  Restartable(r)
  <1>1. ASSUME NEW s \in {r.default} \cup r.healthFailures \cup r.resourceViolations
        PROVE  s.maxRetries \in Nat /\ s.retryDelay \in Nat /\ s.backoffRate \in Nat \ {0}
    <2>1. s \in RestartConfig
      BY DEF ContextAwareRestartConfig, Optional
    <2>2. s.maxRetries \in Int /\ s.retryDelay \in Int /\ s.backoffRate \in Int
      BY <2>1 DEF RestartConfig
    <2>3. ValidateRestartConfig(s)
      BY DEF ValidateContextAwareRestartConfig
    <2> QED
      BY <2>2, <2>3 DEF ValidateRestartConfig
  <1>2. r.severityMultipliers \cup r.profileMultipliers \subseteq Nat \ {0}
    <2>1. r.severityMultipliers \cup r.profileMultipliers \subseteq Int
      BY DEF ContextAwareRestartConfig
    <2> QED
      BY <2>1 DEF ValidateContextAwareRestartConfig
  <1>3. r.startupGracePeriod \in Nat
    BY DEF ContextAwareRestartConfig, ValidateContextAwareRestartConfig
  <1> QED
    BY <1>1, <1>2, <1>3 DEF Restartable

\* A master that is up can run the workers of its configuration.
THEOREM RunsWhatItAccepts == Spec => []AcceptedRuns
  <1>1. ASSUME Inv, run = "up", NEW x \in workers, NEW r \in ProcessControlOptions(x, TRUE).restart
        PROVE  Restartable(r)
    <2>1. Admitted(config)
      BY <1>1 DEF Inv, UpAdmitted
    <2>2. x.type # "unmanaged" /\ r = UnitOf(x).control.restart
      BY <1>1 DEF ProcessControlOptions
    <2>3. Executable(UnitOf(x)) /\ UnitOf(x) \in x.managed \cup x.integrated
      BY <2>1, <2>2, AdmittedUnit DEF Type, ValidateManagedUnit
    <2>4. r \in ContextAwareRestartConfig
      BY <1>1, <2>2, <2>3, WorkersTyped DEF RestartsTyped, Inv
    <2> QED
      BY <2>2, <2>3, <2>4, ValidatedRestart DEF Executable
  <1>2. ASSUME Inv, run = "up", NEW x \in workers, NEW y \in workers, x # y,
               x.type # "unmanaged", y.type # "unmanaged", NEW d \in Env, NEW e \in Env
        PROVE  PidFile(x.id, d) # PidFile(y.id, e) /\ PortFile(x.id, d) # PortFile(y.id, e)
    <2>1. Admitted(config)
      BY <1>2 DEF Inv, UpAdmitted
    <2>2. x.id # y.id
      BY <1>2, <2>1, OnlyOfItsName
    <2>3. Executes(x.id) /\ Executes(y.id)
      BY <1>2, <2>1, OnlyOfItsName, NamedWorker DEF Executes, Names
    <2> QED
      BY <2>2, <2>3, Paths
  <1>4. Inv => AcceptedRuns
    BY <1>1, <1>2 DEF AcceptedRuns
  <1> QED
    BY <1>4, InvInvariant, PTL

===============================================================================
