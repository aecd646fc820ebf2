-------------------------------- MODULE MCLaunch --------------------------------
(* Instances of Launch for TLC. *)
EXTENDS Launch, TLC

CONSTANTS m, i, u

NoFile == [baseDirectory |-> NoDirectory, serviceContext |-> "", appName |-> "",
           useSubdirectory |-> FALSE, scenario |-> ""]
\* Explicit, though what it says of the directory is ignored.
Here == [NoFile EXCEPT !.baseDirectory = <<"/srv">>]
System == [NoFile EXCEPT !.serviceContext = "system", !.appName = "app"]

Zero == [maxRetries |-> 0, retryDelay |-> 0, backoffRate |-> 0]
NoRestart == [default |-> Zero, healthFailures |-> {}, resourceViolations |-> {},
              severityMultipliers |-> {}, profileMultipliers |-> {}, startupGracePeriod |-> 0,
              sustainedViolationTime |-> 0, spikeToleranceTime |-> 0]
Restart(r) == [NoRestart EXCEPT !.default = r]
Twice == [maxRetries |-> 2, retryDelay |-> 1, backoffRate |-> 3]

Execution == [executable |-> "there", directory |-> "", environment |-> TRUE, waitDelay |-> 0]
Control(restart, file) ==
    [execution |-> Execution, processFile |-> file, restart |-> restart, policy |-> "",
     gracefulTimeout |-> 0]

Check(type, interval) ==
    [type |-> type, complete |-> TRUE,
     runOptions |-> [interval |-> interval, timeout |-> 1, retries |-> 1]]

NoUnit == [id |-> m, type |-> "managed", profile |-> "", enabled |-> "", managed |-> {},
           unmanaged |-> {}, integrated |-> {}]

Managed(w, settings, check) ==
    [NoUnit EXCEPT !.id = w,
                   !.managed = {[name |-> "unit", control |-> settings, healthCheck |-> check]}]

Integrating(w, settings) ==
    [NoUnit EXCEPT !.id = w, !.type = "integrated",
                   !.integrated = {[name |-> "unit", control |-> settings,
                                    runOptions |-> [interval |-> 0, timeout |-> 0,
                                                    retries |-> 0]]}]

\* Where a service has its PID file, and where the master has that of worker m, started at boot.
ServicePath == [directory |-> <<"/var/lib">>, name |-> "service", ext |-> ".pid"]
MasterPath == [directory |-> <<"/run">>, name |-> m, ext |-> ".pid"]

Service(w, path, method, terminate) ==
    [NoUnit EXCEPT !.id = w, !.type = "unmanaged",
        !.unmanaged = {[name |-> "unit",
            control |-> [canTerminate |-> terminate, canRestart |-> FALSE, gracefulTimeout |-> 0],
            discovery |-> [method |-> method, pidFile |-> path, name |-> "service",
                           port |-> 0, protocol |-> "", checkInterval |-> 0],
            healthCheck |-> Check("process", 2)]}]

File(list) == [port |-> 0, logLevel |-> "", workers |-> list]

Plain == Managed(m, Control(NoRestart, System), Check("", 0))
Checked == Managed(i, Control(Restart(Twice), System), Check("process", 2))

\* Files that are accepted: two processes side by side, one whose files the environment moves,
\* one next to the process of a service, which has a PID file of its own or the same one, two
\* services with the same PID file, and a service that cannot be found.
Executables == File(<<Plain, Checked>>)
Moving == File(<<Integrating(i, Control(Restart(Twice), Here))>>)
Mixed == File(<<Plain, Service(u, ServicePath, "pid-file", TRUE)>>)
Sharing == File(<<Plain, Service(u, MasterPath, "pid-file", TRUE)>>)
Services == File(<<Service(i, ServicePath, "pid-file", TRUE),
                   Service(u, ServicePath, "pid-file", TRUE)>>)
Unfound == File(<<Service(u, ServicePath, "process-name", TRUE),
                  [Plain EXCEPT !.enabled = "no"]>>)

\* Files that are refused, each for a reason of its own.
Refused == {
    File(<<Integrating(i, Control(NoRestart, NoFile))>>),
    File(<<Managed(m, Control(Restart([Twice EXCEPT !.backoffRate = -1]), NoFile), Check("", 0))>>),
    File(<<Managed(m, Control(Restart([Twice EXCEPT !.maxRetries = -1]), NoFile), Check("", 0))>>),
    File(<<Managed(m, [Control(NoRestart, NoFile) EXCEPT !.gracefulTimeout = -1], Check("", 0))>>),
    File(<<Managed(m, Control(NoRestart, NoFile), Check("tcp", 1))>>),
    File(<<Plain, [Checked EXCEPT !.id = m]>>),
    File(<<Service(u, [ServicePath EXCEPT !.directory = NoDirectory], "pid-file", TRUE)>>),
    File(<<[Plain EXCEPT !.type = "unmanaged"]>>),
    File(<<[Plain EXCEPT !.profile = "none"]>>),
    [File(<<Plain>>) EXCEPT !.port = 65536]}

MCConfig == {Executables, Moving, Mixed, Sharing, Services, Unfound} \cup Refused

\* A service whose worker may not terminate it.
MCUntouchable == {File(<<Service(u, ServicePath, "pid-file", FALSE)>>)}

Linux == [os |-> "linux", programData |-> "", localAppData |-> "", userProfile |-> "",
          home |-> "", runtimeDir |-> "", temp |-> "/tmp", run |-> TRUE, session |-> FALSE]

\* Started at boot, or from the session of a user.
MCEnv == {Linux, [Linux EXCEPT !.runtimeDir = "/run/user", !.session = TRUE]}

Symmetry == Permutations(Pid)
=================================================================================
