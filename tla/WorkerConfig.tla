------------------------------ MODULE WorkerConfig ------------------------------
(***************************************************************************)
(* The configuration of the master and what becomes of it: the defaults    *)
(* (LoadConfigFromFile), the validation (ValidateConfig), and the options  *)
(* that a worker made from it gives its process control                    *)
(* (pkg/master/config.go, pkg/workers, and the validation functions of     *)
(* pkg/process, pkg/monitoring and pkg/workers/processcontrol).            *)
(*                                                                         *)
(* Durations are numbers of seconds; rates and multipliers are counted in  *)
(* halves.  An optional part is a set of at most one element.  Of a map of *)
(* multipliers the values are kept, of a health check whether what its     *)
(* type requires is given, of an executable and a working directory        *)
(* whether they are there.                                                 *)
(***************************************************************************)
EXTENDS Integers, ProcessFile

CONSTANT Worker     \* identifiers that are well formed

Optional(S) == {part \in SUBSET S : \A x, y \in part : x = y}

RestartConfig == [maxRetries : Int, retryDelay : Int, backoffRate : Int]

ContextAwareRestartConfig ==
    [default : RestartConfig,
     healthFailures : Optional(RestartConfig), resourceViolations : Optional(RestartConfig),
     severityMultipliers : SUBSET Int, profileMultipliers : SUBSET Int,
     startupGracePeriod : Int, sustainedViolationTime : Int, spikeToleranceTime : Int]

ExecutionConfig == [executable : {"", "there", "missing"},
                    directory : {"", "there", "relative", "missing"},
                    environment : BOOLEAN, waitDelay : Int]

RunOptions == [interval : Int, timeout : Int, retries : Int]

HealthCheckConfig == [type : STRING, complete : BOOLEAN, runOptions : RunOptions]

\* A path that a configuration gives.  It may be one that the master gives to the PID file of
\* another worker; that it is one of a port, whose number would be read as a PID, is left out.
\* A path that is relative, or not given, has no directory.
GivenPath == [directory : Seq(STRING), name : Worker \cup STRING, ext : {"", ".pid"}]

DiscoveryConfig == [method : STRING, pidFile : GivenPath, name : STRING, port : Int,
                    protocol : STRING, checkInterval : Int]

ManagedProcessControlConfig ==
    [execution : ExecutionConfig, processFile : ProcessFileConfig,
     restart : ContextAwareRestartConfig, policy : STRING, gracefulTimeout : Int]

SystemProcessControlConfig ==
    [canTerminate : BOOLEAN, canRestart : BOOLEAN, gracefulTimeout : Int]

ManagedUnit == [name : STRING, control : ManagedProcessControlConfig,
                healthCheck : HealthCheckConfig]

UnmanagedUnit == [name : STRING, control : SystemProcessControlConfig,
                  discovery : DiscoveryConfig, healthCheck : HealthCheckConfig]

IntegratedUnit == [name : STRING, control : ManagedProcessControlConfig,
                   runOptions : RunOptions]

Type == {"managed", "unmanaged", "integrated"}

\* WorkerConfig; an enabled that is not given is "".
WorkerRecord == [id : Worker \cup {"malformed"}, type : STRING, profile : STRING,
                 enabled : {"", "yes", "no"},
                 managed : Optional(ManagedUnit), unmanaged : Optional(UnmanagedUnit),
                 integrated : Optional(IntegratedUnit)]

MasterConfig == [port : Int, logLevel : STRING, workers : Seq(WorkerRecord)]
-----------------------------------------------------------------------------
(* Defaults.                                                                 *)

Or(given, default) == IF given = 0 THEN default ELSE given
OrElse(given, default) == IF given = {} THEN {default} ELSE given

setRestartDefaults(restart) ==
    LET default == [maxRetries |-> Or(restart.default.maxRetries, 3),
                    retryDelay |-> Or(restart.default.retryDelay, 5),
                    backoffRate |-> Or(restart.default.backoffRate, 3)]
    IN  [restart EXCEPT
            !.default = default,
            !.healthFailures = OrElse(@, default),
            !.resourceViolations = OrElse(@, [maxRetries |-> default.maxRetries + 2,
                                              retryDelay |-> default.retryDelay * 2,
                                              backoffRate |-> 3]),
            !.startupGracePeriod = Or(@, 120),
            !.sustainedViolationTime = Or(@, 300)]

setManagedUnitDefaults(unit) ==
    [unit EXCEPT !.control.execution.waitDelay = Or(@, 10),
                 !.control.policy = OrDefault(@, "on-failure"),
                 !.control.restart = setRestartDefaults(@)]

setUnmanagedUnitDefaults(unit) ==
    [unit EXCEPT !.discovery.checkInterval = Or(@, 30), !.control.gracefulTimeout = Or(@, 30)]

\* Nothing is set for the restarts.
setIntegratedUnitDefaults(unit) ==
    [unit EXCEPT !.control.execution.waitDelay = Or(@, 10),
                 !.runOptions.interval = Or(@, 30), !.runOptions.timeout = Or(@, 5)]

\* Of the units of a worker only the one of its type.
setWorkerDefaults(w) ==
    [w EXCEPT
        !.enabled = OrDefault(@, "yes"),
        !.profile = OrDefault(@, "default"),
        !.managed = IF w.type = "managed" THEN {setManagedUnitDefaults(u) : u \in @} ELSE @,
        !.unmanaged = IF w.type = "unmanaged" THEN {setUnmanagedUnitDefaults(u) : u \in @} ELSE @,
        !.integrated = IF w.type = "integrated" THEN {setIntegratedUnitDefaults(u) : u \in @} ELSE @]

setConfigDefaults(config) ==
    [config EXCEPT !.port = Or(@, 50055),
                   !.logLevel = OrDefault(@, "info"),
                   !.workers = [i \in DOMAIN @ |-> setWorkerDefaults(@[i])]]
-----------------------------------------------------------------------------
(* Validation.                                                               *)

ValidateExecutionConfig(e) ==
    e.executable = "there" /\ e.directory \in {"", "there"} /\ e.environment /\ e.waitDelay >= 0

\* Mutant: the rate of the backoff is not looked at.
ValidateRestartConfigAnyRate(r) == r.maxRetries >= 0 /\ r.retryDelay >= 0

ValidateRestartConfig(r) == r.maxRetries >= 0 /\ r.retryDelay >= 0 /\ r.backoffRate > 0

ValidateContextAwareRestartConfig(restart) ==
    /\ \A r \in {restart.default} \cup restart.healthFailures \cup restart.resourceViolations :
          ValidateRestartConfig(r)
    /\ restart.startupGracePeriod >= 0
    /\ restart.sustainedViolationTime >= 0
    /\ restart.spikeToleranceTime >= 0
    /\ \A m \in restart.severityMultipliers \cup restart.profileMultipliers : m > 0

ValidateHealthCheckRunOptions(o) ==
    o.interval > 0 /\ o.timeout > 0 /\ o.timeout < o.interval /\ o.retries >= 0

ValidateHealthCheckConfig(h) ==
    /\ ValidateHealthCheckRunOptions(h.runOptions)
    /\ \/ h.type \in {"http", "grpc", "tcp", "exec"} /\ h.complete
       \/ h.type = "process"

ValidateDiscoveryConfig(d) ==
    /\ \/ d.method = "pid-file" /\ d.pidFile.directory # NoDirectory
       \/ d.method \in {"process-name", "service-name"} /\ d.name # ""
       \/ d.method = "port" /\ d.port \in 1..65535 /\ d.protocol \in {"tcp", "udp"}
    /\ d.checkInterval >= 0

Executable(unit) ==
    /\ unit.name # ""
    /\ ValidateExecutionConfig(unit.control.execution)
    /\ ValidateContextAwareRestartConfig(unit.control.restart)

\* A health check without a type is not looked at.
ValidateManagedUnit(unit) ==
    Executable(unit) /\ (unit.healthCheck.type # "" => ValidateHealthCheckConfig(unit.healthCheck))

ValidateUnmanagedUnit(unit) ==
    /\ unit.name # ""
    /\ ValidateDiscoveryConfig(unit.discovery)
    /\ unit.healthCheck.type # "" => ValidateHealthCheckConfig(unit.healthCheck)

\* Neither its run options nor its graceful timeout are looked at.
ValidateIntegratedUnit(unit) == Executable(unit)

validateWorkerProfileType(profile) ==
    profile \in {"", "batch", "web", "database", "worker", "scheduler", "default"}

\* Of the three units there is the one of the type of the worker.
validateWorkerUnitConfig(w) ==
    /\ w.type \in Type
    /\ w.managed # {} <=> w.type = "managed"
    /\ w.unmanaged # {} <=> w.type = "unmanaged"
    /\ w.integrated # {} <=> w.type = "integrated"
    /\ \A u \in w.managed : ValidateManagedUnit(u)
    /\ \A u \in w.unmanaged : ValidateUnmanagedUnit(u)
    /\ \A u \in w.integrated : ValidateIntegratedUnit(u)

ValidateWorkerID(id) == id \in Worker

validateWorkersConfig(workers) ==
    /\ \A i, j \in DOMAIN workers : workers[i].id = workers[j].id => i = j
    /\ \A i \in DOMAIN workers :
          /\ ValidateWorkerID(workers[i].id)
          /\ validateWorkerProfileType(workers[i].profile)
          /\ validateWorkerUnitConfig(workers[i])

validateMasterConfig(config) ==
    config.port \in 1..65535 /\ config.logLevel \in {"", "debug", "info", "warn", "error"}

ValidateConfig(config) == validateMasterConfig(config) /\ validateWorkersConfig(config.workers)
-----------------------------------------------------------------------------
(* Workers.                                                                  *)

\* CreateWorkersFromConfig, which skips the disabled ones.
CreateWorkers(config) ==
    {w \in {config.workers[i] : i \in DOMAIN config.workers} : w.enabled # "no"}

\* The unit of a worker that has one, of its type.
UnitOf(w) == CHOOSE u \in w.managed \cup w.unmanaged \cup w.integrated : TRUE

\* ProcessControlOptions of a worker.  Its profile comes with the collection of its logs.
ProcessControlOptions(w, logs) ==
    LET control == UnitOf(w).control
        executes == w.type # "unmanaged"
    IN  [canTerminate |-> IF executes THEN TRUE ELSE control.canTerminate,
         canRestart |-> IF executes THEN TRUE ELSE control.canRestart,
         executeCmd |-> executes,
         restart |-> IF executes THEN {control.restart} ELSE {},
         policy |-> IF executes THEN control.policy ELSE "never",
         gracefulTimeout |-> control.gracefulTimeout,
         profile |-> IF logs THEN w.profile ELSE ""]

\* CanAttach and AttachCmd are there for every worker, HealthCheck for none.
ValidateProcessControlOptions(options) == options.gracefulTimeout >= 0

\* The runner validates what it has loaded, and registers the workers it makes from it.
Admitted(config) ==
    /\ ValidateConfig(config)
    /\ \A w \in CreateWorkers(config) :
          ValidateProcessControlOptions(ProcessControlOptions(w, FALSE))
=================================================================================
