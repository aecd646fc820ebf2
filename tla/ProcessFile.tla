------------------------------ MODULE ProcessFile ------------------------------
(***************************************************************************)
(* Where the files with the PIDs and ports of workers are                  *)
(* (pkg/processfile/process_file.go).  The place depends on the            *)
(* configuration of the worker and on the environment of the master:       *)
(*   os                    "windows", "darwin" or another                  *)
(*   programData, localAppData, userProfile, runtimeDir, home              *)
(*                         variables, "" when they are not set             *)
(*   temp                  os.TempDir()                                    *)
(*   run, session          whether /run and /run/user/<uid> exist          *)
(* A path is a directory, which is the sequence of its elements, and the   *)
(* name and the extension of a file.                                       *)
(***************************************************************************)
EXTENDS Sequences

\* ProcessFileConfig
ProcessFileConfig == [baseDirectory : Seq(STRING), serviceContext : STRING, appName : STRING,
                      useSubdirectory : BOOLEAN, scenario : STRING]

NoDirectory == << >>

OrDefault(given, default) == IF given = "" THEN default ELSE given

DefaultAppName == "hsu-master"

getSystemServiceDirectory(env) ==
    CASE env.os = "windows" -> <<OrDefault(env.programData, "C:/ProgramData")>>
      [] env.os = "darwin" -> <<"/var/run">>
      [] OTHER -> IF env.run THEN <<"/run">> ELSE <<"/var/run">>

getUserServiceDirectory(env) ==
    CASE env.os = "windows" /\ env.localAppData # "" -> <<env.localAppData>>
      [] env.os = "windows" /\ env.localAppData = "" ->
            <<OrDefault(env.userProfile, "C:/Users/Default"), "AppData", "Local">>
      [] env.os = "darwin" /\ env.home # "" -> <<env.home, "Library", "Application Support">>
      [] env.os = "darwin" /\ env.home = "" -> <<"/tmp">>
      [] OTHER -> <<OrDefault(env.runtimeDir, "/tmp")>>

getSessionServiceDirectory(env) ==
    CASE env.os \in {"windows", "darwin"} -> <<env.temp>>
      [] OTHER -> IF env.session THEN <<"/run/user">> ELSE <<"/tmp">>

getBaseDirectory(config, env) ==
    CASE config.baseDirectory # NoDirectory -> config.baseDirectory
      [] config.baseDirectory = NoDirectory /\ config.serviceContext = "user" ->
            getUserServiceDirectory(env)
      [] config.baseDirectory = NoDirectory /\ config.serviceContext = "session" ->
            getSessionServiceDirectory(env)
      [] OTHER -> getSystemServiceDirectory(env)

\* GetRecommendedProcessFileConfig.  An unknown scenario, and none, is a user service.
Recommended(directory, context, app, sub) ==
    [baseDirectory |-> directory, serviceContext |-> context, appName |-> app,
     useSubdirectory |-> sub, scenario |-> ""]

GetRecommendedProcessFileConfig(scenario, app, env) ==
    CASE scenario \in {"system", "daemon", "service"} ->
            Recommended(NoDirectory, "system", app, TRUE)
      [] scenario \in {"session", "desktop"} ->
            Recommended(NoDirectory, "session", app, FALSE)
      [] scenario \in {"development", "dev", "test"} ->
            Recommended(<<env.temp, app, "-dev">>, "user", app, FALSE)
      [] OTHER -> Recommended(NoDirectory, "user", app, TRUE)

\* NewProcessFileManager: without a service context the configuration is replaced, and the
\* base directory that it may give is lost.
NewProcessFileManager(config, env) ==
    LET app == OrDefault(config.appName, DefaultAppName)
    IN  IF config.serviceContext = ""
          THEN GetRecommendedProcessFileConfig(config.scenario, app, env)
          ELSE [config EXCEPT !.appName = app]

FileDirectory(manager, env) ==
    getBaseDirectory(manager, env) \o IF manager.useSubdirectory THEN <<manager.appName>> ELSE << >>

\* Mutant: the file is not named after the worker.
generateFilePathShared(manager, worker, ext, env) ==
    [directory |-> FileDirectory(manager, env), name |-> "worker", ext |-> ext]

generateFilePath(manager, worker, ext, env) ==
    [directory |-> FileDirectory(manager, env), name |-> worker, ext |-> ext]

GeneratePIDFilePath(manager, worker, env) == generateFilePath(manager, worker, ".pid", env)

GeneratePortFilePath(manager, worker, env) == generateFilePath(manager, worker, ".port", env)
================================================================================
