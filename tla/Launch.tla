-------------------------------- MODULE Launch --------------------------------
(***************************************************************************)
(* Launching the processes of workers (pkg/workers, pkg/process, startProcess *)
(* of the process control and Run of pkg/master/master_runner.go): a process *)
(* that is still there from an earlier run of the master is found by its     *)
(* PID file and attached to, otherwise a new one is executed and its PID,    *)
(* and the port it was given, are written to files.  The master may crash    *)
(* between any two steps, which processes and files survive, and restart in  *)
(* an environment that puts the files elsewhere; operations on files fail;   *)
(* PIDs are reused.                                                          *)
(*                                                                           *)
(* A file holds one PID or port, or it is Empty; one that does not exist is  *)
(* taken for empty, since neither can be read.  The processes are external,  *)
(* and so are the services, which write the PID files of unmanaged workers;  *)
(* nothing keeps the configuration from naming a file for them that another  *)
(* worker has, too.  A write replaces what others wrote to the file.         *)
(***************************************************************************)
EXTENDS WorkerConfig

CONSTANTS
    Config,          \* configuration files
    Env,             \* environments of the master
    Pid, Port,
    DefaultPort,     \* of an integrated worker whose port file cannot be read
    Empty,           \* contents of a file, and a port nobody has
    Other, Nobody    \* who has a PID that no worker has

ASSUME LaunchOK ==
    /\ Config \subseteq MasterConfig
    /\ Pid \cap (Port \cup {DefaultPort, Empty, Nobody}) = {}
    /\ DefaultPort \in Port /\ Empty \notin Port
    /\ Other # Nobody /\ {Other, Nobody} \cap Worker = {}

\* LoadConfigFromFile
LoadedConfig == {setConfigDefaults(c) : c \in Config}

VARIABLES
    config,     \* the configuration, as it is loaded
    run,        \* whether the master is up, or its configuration was refused
    env,        \* the environment it has
    files,      \* the contents of the files there are
    who,        \* whose process has a PID: of a worker, of another program, nobody's
    told,       \* the port a process was told to listen on
    control,    \* the process control of a worker: idle, running or failed_start
    pc,         \* how far its startProcess has come
    proc,       \* the process it has
    port,       \* the port that its health check asks
    lost,       \* processes whose PID is not where the master looks for it
    portLost,   \* the same of their port
    seen,       \* PIDs that were in use
    reused      \* those that were so twice

master == <<run, env>>
controls == <<control, pc, proc, port>>
system == <<who, told, seen, reused>>
losses == <<lost, portLost>>
vars == <<config, master, files, controls, system, losses>>

workers == CreateWorkers(config)
Names == {x.id : x \in workers}
WorkerOf(w) == CHOOSE x \in workers : x.id = w
UnitFor(w) == UnitOf(WorkerOf(w))
Executes(w) == w \in Names /\ WorkerOf(w).type # "unmanaged"
Integrated(w) == w \in Names /\ WorkerOf(w).type = "integrated"

Manager(w, e) == NewProcessFileManager(UnitFor(w).control.processFile, e)

ServiceFile(unit) == unit.discovery.pidFile

PidFile(w, e) ==
    IF Executes(w) THEN GeneratePIDFilePath(Manager(w, e), w, e) ELSE ServiceFile(UnitFor(w))

PortFile(w, e) == GeneratePortFilePath(Manager(w, e), w, e)

\* The files that hold the PID of worker w, in one environment or another.
PidFiles(w) ==
    IF Executes(w) THEN {PidFile(w, e) : e \in Env}
                   ELSE {ServiceFile(unit) : unit \in WorkerOf(w).unmanaged}

At(path) == IF path \in DOMAIN files THEN files[path] ELSE Empty

Write(path, content) ==
    files' = [q \in DOMAIN files \cup {path} |-> IF q = path THEN content ELSE files[q]]

Alive(p) == who[p] # Nobody
ProcessesOf(w) == {p \in Pid : who[p] = w}

\* Steps between the start of a process and the end of the writing of its files.
PidWindow == {"spawned", "truncated"}
PortWindow == {"spawned", "truncated", "port", "porttruncated"}

TypeSystem ==
    /\ config \in LoadedConfig
    /\ run \in {"down", "up", "refused"} /\ env \in Env
    /\ \A path \in DOMAIN files : files[path] \in Pid \cup Port \cup {Empty}
    /\ who \in [Pid -> Worker \cup {Other, Nobody}]
    /\ told \in [Pid -> Port \cup {Empty}]
    /\ seen \subseteq Pid /\ reused \subseteq seen
    /\ \A p \in Pid : Alive(p) => p \in seen
    /\ \A p \in lost \cup portLost : p \in Pid /\ who[p] \in Worker

TypeControls ==
    /\ control \in [Worker -> {"idle", "running", "failed"}]
    /\ pc \in [Worker -> {"none", "execute", "ready"} \cup PortWindow]
    /\ proc \in [Worker -> Pid \cup {Nobody}]
    /\ port \in [Worker -> Port \cup {Empty}]

\* Only the control of a worker that was created starts, or has, a process.
ControlsOfWorkers ==
    \A w \in Worker :
        /\ control[w] # "idle" \/ pc[w] # "none" => run = "up" /\ w \in Names
        /\ control[w] # "idle" => pc[w] = "none"
        /\ proc[w] \in Pid <=> control[w] = "running" \/ pc[w] \notin {"none", "execute"}
        /\ pc[w] \notin {"none", "ready"} => Executes(w)
        /\ pc[w] \in {"port", "porttruncated"} => Integrated(w)

TypeOK == TypeSystem /\ TypeControls /\ ControlsOfWorkers

Idle ==
    /\ control = [w \in Worker |-> "idle"]
    /\ pc = [w \in Worker |-> "none"]
    /\ proc = [w \in Worker |-> Nobody]
    /\ port = [w \in Worker |-> Empty]

Init ==
    /\ config \in LoadedConfig
    /\ run = "down" /\ env \in Env
    /\ files = << >>
    /\ who = [p \in Pid |-> Nobody] /\ told = [p \in Pid |-> Empty]
    /\ Idle
    /\ lost = {} /\ portLost = {} /\ seen = {} /\ reused = {}
-----------------------------------------------------------------------------
(* The run of the master.                                                    *)

\* The processes of workers whose files are elsewhere now, and do not hold their PID, or port.
MovedPids(e) ==
    {p \in Pid : /\ who[p] \in Worker /\ Executes(who[p])
                 /\ PidFile(who[p], e) # PidFile(who[p], env) /\ At(PidFile(who[p], e)) # p}
MovedPorts(e) ==
    {p \in Pid : /\ who[p] \in Worker /\ Integrated(who[p])
                 /\ PortFile(who[p], e) # PortFile(who[p], env)
                 /\ At(PortFile(who[p], e)) # told[p]}

\* Run, up to the start of the workers.  One invalid worker refuses all.
Run(e) ==
    /\ run # "up"
    /\ env' = e
    /\ run' = IF Admitted(config) THEN "up" ELSE "refused"
    /\ lost' = lost \cup MovedPids(e)
    /\ portLost' = portLost \cup MovedPorts(e)
    /\ UNCHANGED <<config, files, controls, system>>

\* Processes that are being started, as long as their PID and their port is not written.
Unwritten(window) == {p \in Pid : who[p] \in Worker /\ proc[who[p]] = p /\ pc[who[p]] \in window}

\* The controls are lost, processes and files are not.
Crash ==
    /\ run = "up"
    /\ run' = "down"
    /\ control' = [w \in Worker |-> "idle"]
    /\ pc' = [w \in Worker |-> "none"]
    /\ proc' = [w \in Worker |-> Nobody]
    /\ port' = [w \in Worker |-> Empty]
    /\ lost' = lost \cup Unwritten(PidWindow)
    /\ portLost' = portLost \cup Unwritten(PortWindow)
    /\ UNCHANGED <<config, env, files, system>>
-----------------------------------------------------------------------------
(* Processes and their PIDs.                                                 *)

\* A free PID is taken.
Use(p, owner) ==
    /\ ~Alive(p)
    /\ who' = [who EXCEPT ![p] = owner]
    /\ seen' = seen \cup {p}
    /\ reused' = IF p \in seen THEN reused \cup {p} ELSE reused

Ends(p) ==
    /\ who' = [who EXCEPT ![p] = Nobody]
    /\ told' = [told EXCEPT ![p] = Empty]
    /\ lost' = lost \ {p} /\ portLost' = portLost \ {p}
    /\ UNCHANGED <<seen, reused>>

\* A signal ends the process, or it has been dead, or is not ended by it.
Signalled(p) == (Alive(p) /\ Ends(p)) \/ UNCHANGED <<system, losses>>

Exit(p) ==
    /\ Alive(p)
    /\ Ends(p)
    /\ UNCHANGED <<config, master, files, controls>>

OtherStarts(p) ==
    /\ Use(p, Other)
    /\ UNCHANGED <<config, master, files, controls, told, losses>>

\* The process whose PID is in a file, if the master looks for it there.
RecordedIn(path) ==
    {p \in Pid : /\ who[p] \in Worker /\ Executes(who[p])
                 /\ PidFile(who[p], env) = path /\ At(path) = p}

\* The service behind an unmanaged worker writes its PID file, whether the master runs or not.
ServiceStarts(w, p) ==
    /\ w \in Names /\ WorkerOf(w).type = "unmanaged"
    /\ ProcessesOf(w) = {}
    /\ Use(p, w)
    /\ \E unit \in WorkerOf(w).unmanaged :
          /\ unit.discovery.method = "pid-file"
          /\ Write(ServiceFile(unit), p)
          /\ lost' = lost \cup RecordedIn(ServiceFile(unit))
    /\ UNCHANGED <<config, master, controls, told, portLost>>
-----------------------------------------------------------------------------
(* startProcess: attaching.                                                  *)

Goto(w, place) == pc' = [pc EXCEPT ![w] = place]

\* Mutant: the process stays in its field.
WithoutProcessKept(w, state) ==
    /\ control' = [control EXCEPT ![w] = state]
    /\ port' = [port EXCEPT ![w] = Empty]
    /\ UNCHANGED proc

\* Without a process, after a stop or in failed_start.
WithoutProcess(w, state) ==
    /\ control' = [control EXCEPT ![w] = state]
    /\ proc' = [proc EXCEPT ![w] = Nobody]
    /\ port' = [port EXCEPT ![w] = Empty]

StartFailed(w) == Goto(w, "none") /\ WithoutProcess(w, "failed")

\* Only PID files are implemented.
ByPidFile(w) == ~Executes(w) => UnitFor(w).discovery.method = "pid-file"

\* openProcessByPIDFile, IsProcessRunning
Running(w) == At(PidFile(w, env)) \in Pid /\ Alive(At(PidFile(w, env)))

CanStart(w) == run = "up" /\ w \in Names /\ control[w] = "idle" /\ pc[w] = "none"

\* Mutant: the port of the health check is the default one.
ReadPortFileDefault(w) == DefaultPort

\* ReadPortFile, or the default port that is used instead.
ReadPortFile(w) ==
    IF At(PortFile(w, env)) \in Port THEN At(PortFile(w, env)) ELSE DefaultPort

Attach(w, q) ==
    /\ CanStart(w) /\ ByPidFile(w) /\ Running(w)
    /\ proc' = [proc EXCEPT ![w] = At(PidFile(w, env))]
    /\ port' = [port EXCEPT ![w] = q]
    /\ Goto(w, "ready")
    /\ UNCHANGED <<config, master, files, control, system, lost>>

AttachCmd(w) ==
    /\ Attach(w, IF Integrated(w) THEN ReadPortFile(w) ELSE Empty)
    /\ UNCHANGED portLost

\* The port file is there and cannot be read.
AttachWithoutPort(w) ==
    /\ Integrated(w) /\ At(PortFile(w, env)) \in Port
    /\ Attach(w, DefaultPort)
    /\ portLost' = portLost \cup {p \in {At(PidFile(w, env))} : who[p] = w}

AttachFails(w) ==
    /\ CanStart(w)
    /\ IF Executes(w) THEN Goto(w, "execute") /\ UNCHANGED <<control, proc, port>> ELSE StartFailed(w)
    /\ UNCHANGED <<config, master, files, system, portLost>>

AttachCmdFails(w) ==
    /\ AttachFails(w)
    /\ ~(ByPidFile(w) /\ Running(w))
    /\ UNCHANGED lost

\* The PID file is there and cannot be read.
PidUnreadable(w) ==
    /\ AttachFails(w)
    /\ ByPidFile(w) /\ Running(w)
    /\ lost' = lost \cup {p \in {At(PidFile(w, env))} : who[p] = w /\ Executes(w)}
-----------------------------------------------------------------------------
(* startProcess: executing.                                                  *)

\* getFreePort gives a port that nobody keeps until the process listens on it.
ExecuteCmd(w, p, q) ==
    /\ pc[w] = "execute"
    /\ Use(p, w)
    /\ IF Integrated(w) THEN q \in Port ELSE q = Empty
    /\ told' = [told EXCEPT ![p] = q]
    /\ proc' = [proc EXCEPT ![w] = p]
    /\ port' = [port EXCEPT ![w] = q]
    /\ Goto(w, "spawned")
    /\ UNCHANGED <<config, master, files, control, losses>>

ExecuteCmdFails(w) ==
    /\ pc[w] = "execute"
    /\ StartFailed(w)
    /\ UNCHANGED <<config, master, files, system, losses>>

AfterPid(w) == IF Integrated(w) THEN "port" ELSE "ready"

\* os.WriteFile truncates the file before it writes to it.
Truncate(w, file, from, to) ==
    /\ pc[w] = from
    /\ Write(file, Empty)
    /\ Goto(w, to)
    /\ UNCHANGED <<config, master, control, proc, port, system, losses>>

TruncatePIDFile(w) == Truncate(w, PidFile(w, env), "spawned", "truncated")
TruncatePortFile(w) == Truncate(w, PortFile(w, env), "port", "porttruncated")

\* Mutant: the PID is not written.
WritePIDFileEmpty(w) ==
    /\ pc[w] = "truncated"
    /\ Goto(w, AfterPid(w))
    /\ UNCHANGED <<config, master, files, control, proc, port, system, losses>>

WritePIDFile(w) ==
    /\ pc[w] = "truncated"
    /\ Write(PidFile(w, env), proc[w])
    /\ Goto(w, AfterPid(w))
    /\ UNCHANGED <<config, master, control, proc, port, system, losses>>

WritePortFile(w) ==
    /\ pc[w] = "porttruncated"
    /\ Write(PortFile(w, env), port[w])
    /\ Goto(w, "ready")
    /\ UNCHANGED <<config, master, control, proc, port, system, losses>>

\* ValidateDirectory or os.WriteFile fails, which is logged.
WritePIDFileFails(w) ==
    /\ pc[w] \in PidWindow
    /\ Goto(w, AfterPid(w))
    /\ lost' = lost \cup {p \in {proc[w]} : who[p] = w}
    /\ UNCHANGED <<config, master, files, control, proc, port, system, portLost>>

WritePortFileFails(w) ==
    /\ pc[w] \in PortWindow \ PidWindow
    /\ Goto(w, "ready")
    /\ portLost' = portLost \cup {p \in {proc[w]} : who[p] = w}
    /\ UNCHANGED <<config, master, files, control, proc, port, system, lost>>
-----------------------------------------------------------------------------
(* The end of startProcess, and the stop of a process.                       *)

Started(w) ==
    /\ pc[w] = "ready"
    /\ Goto(w, "none")
    /\ control' = [control EXCEPT ![w] = "running"]
    /\ UNCHANGED <<config, master, files, proc, port, system, losses>>

\* The context was cancelled: the process is killed, whether it was executed or attached to.
Cancelled(w) ==
    /\ pc[w] = "ready"
    /\ StartFailed(w)
    /\ Signalled(proc[w])
    /\ UNCHANGED <<config, master, files>>

\* A stop, or the first half of a restart.  The option CanTerminate is not consulted.
Stop(w) ==
    /\ control[w] = "running"
    /\ WithoutProcess(w, "idle")
    /\ Signalled(proc[w])
    /\ UNCHANGED <<config, master, files, pc>>
-----------------------------------------------------------------------------
StartStep(w) ==
    \/ AttachCmd(w) \/ AttachWithoutPort(w) \/ AttachCmdFails(w) \/ PidUnreadable(w)
    \/ \E p \in Pid, q \in Port \cup {Empty} : ExecuteCmd(w, p, q)
    \/ ExecuteCmdFails(w)
    \/ TruncatePIDFile(w) \/ WritePIDFile(w) \/ WritePIDFileFails(w)
    \/ TruncatePortFile(w) \/ WritePortFile(w) \/ WritePortFileFails(w)
    \/ Started(w) \/ Cancelled(w)

Next ==
    \/ \E e \in Env : Run(e)
    \/ Crash
    \/ \E w \in Worker : StartStep(w) \/ Stop(w)
    \/ \E p \in Pid : \/ Exit(p) \/ OtherStarts(p)
                      \/ \E w \in Worker : ServiceStarts(w, p)

Spec == Init /\ [][Next]_vars
-----------------------------------------------------------------------------
\* A worker has two processes only if the master has lost one of them: its PID could not be
\* written or read, or was overwritten by a service whose worker names the same file, the master
\* crashed before it was written, or a later run looks for it elsewhere; and a control that is
\* running has none but lost ones beside its own, also after it attached to whatever has the PID
\* now (startProcess, AttachCmd, WritePIDFile).
OneProcess ==
    \A w \in Worker : Executes(w) =>
        /\ \A p, q \in ProcessesOf(w) : p # q => p \in lost \/ q \in lost
        /\ control[w] = "running" => ProcessesOf(w) \subseteq {proc[w]} \cup lost

\* An unmanaged worker has its PID file in common with another worker, which the validation of
\* a configuration does not refuse.
ShareFile(v, w) == ~(Executes(v) /\ Executes(w)) /\ PidFiles(v) \cap PidFiles(w) # {}

\* A process control has no process but one of its worker, unless the PID was reused or the
\* configuration of an unmanaged worker names a file of another: neither the files that the
\* master writes for another worker nor those of an earlier run, in whatever environment,
\* mislead it (openProcessByPIDFile, generateFilePath).
OwnProcess ==
    \A w \in Worker :
        control[w] = "running" /\ Alive(proc[w]) =>
            \/ who[proc[w]] = w
            \/ proc[w] \in reused
            \/ who[proc[w]] \in Worker /\ ShareFile(who[proc[w]], w)

\* The health check of an integrated worker asks the port its process listens on, across runs of
\* the master, unless the PID or the port was lost (AttachCmd, ExecuteCmd, WritePortFile).
ChecksOwnPort ==
    \A w \in Worker :
        control[w] = "running" /\ Integrated(w) /\ who[proc[w]] = w =>
            port[w] = told[proc[w]] \/ proc[w] \in lost \cup portLost

\* What the circuit breaker takes for granted of its configuration.
Restartable(restart) ==
    /\ \A r \in {restart.default} \cup restart.healthFailures \cup restart.resourceViolations :
          r.maxRetries \in Nat /\ r.retryDelay \in Nat /\ r.backoffRate \in Nat \ {0}
    /\ restart.severityMultipliers \cup restart.profileMultipliers \subseteq Nat \ {0}
    /\ restart.startupGracePeriod \in Nat

\* A master that is up has workers it can run: whatever the defaults leave unset, their restarts
\* meet the assumptions of the circuit breaker, and no two of them that the master executes write
\* one file, in the environments of any two runs (ValidateConfig, setConfigDefaults).
AcceptedRuns ==
    run = "up" =>
        /\ \A x \in workers : \A r \in ProcessControlOptions(x, TRUE).restart : Restartable(r)
        /\ \A x, y \in workers : x # y /\ x.type # "unmanaged" /\ y.type # "unmanaged" =>
              \A d, e \in Env : /\ PidFile(x.id, d) # PidFile(y.id, e)
                                /\ PortFile(x.id, d) # PortFile(y.id, e)

\* What the comment on CanTerminate says it permits: a process control ends the process it was
\* told to stop only if its worker permits to terminate it (Stop, CanTerminate).
SignalsAllowed ==
    [][\A w \in Worker :
          control[w] = "running" /\ control'[w] = "idle" /\ run' = "up"
              /\ Alive(proc[w]) /\ who'[proc[w]] = Nobody =>
          ProcessControlOptions(WorkerOf(w), TRUE).canTerminate]_vars
===============================================================================
