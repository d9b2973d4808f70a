---------------------------- MODULE HarnessRun ----------------------------
(***************************************************************************)
(* `pvtr run`, harness.Run and command.Run, and `pvtr benchmark`.          *)
(*                                                                         *)
(* With autoinstall, the installer first brings in what the configuration  *)
(* requests; then GetPlugins resolves one binary per service from the      *)
(* manifest, planRun decides what to do, and the plugins run one after the *)
(* other, each as a process of its own that is asked over net/rpc to Start *)
(* and is killed afterwards.  `pvtr benchmark` runs one binary that way    *)
(* and reads the report it wrote.                                          *)
(*                                                                         *)
(* This module composes Installer: installs, runs and benchmarks follow    *)
(* each other on the same disk.  Meanwhile another pvtr process may        *)
(* install into the same binaries directory, with a manifest lock of its   *)
(* own (manifest.go: an OS-level lock "is intentionally out of scope").    *)
(***************************************************************************)
EXTENDS Installer, Sequences

CONSTANTS
    Services,     \* names of services
    Asks,         \* what the plugin and version fields of a service ask for
    RunConfigs,   \* bound: the sets of services of a run's configuration
    PluginCodes,  \* the exit codes a plugin returns (Pluginer)
    Benchmarked,  \* bound: the services given to pvtr benchmark
    Foreign,      \* bound: the indexes the other process may install
    MaxOthers     \* bound: installs by the other process

ExitCodes == {"TestPass", "TestFail", "InternalError", "BadUsage", "NoTests"}

ASSUME ServicesAsk ==
    /\ Asks \in [Services -> Requests \cup {None}]   \* None: no plugin named
    /\ RunConfigs \subseteq SUBSET Services
    /\ PluginCodes \subseteq {"TestPass", "TestFail", "InternalError",
                               "BadUsage"}
    /\ Benchmarked \subseteq Services /\ Foreign \subseteq Indexes
    /\ \A i \in Foreign : ConfigOf[i][1] \notin Locals   \* as for Details
    /\ MaxOthers \in Nat /\ None \notin ExitCodes

VARIABLES
    phase,      \* of the run: see Phases
    services,   \* the services of its configuration
    auto,       \* autoinstall is on
    toRun,      \* the services resolved so far, then those still to be run
    path,       \* PluginPkg.Path of each service, as a key, None if not found
    alive,      \* services whose plugin process is alive
    exitCode,
    ran,        \* observer: the plugins started and what they returned
    report,     \* <write-directory>/<service>/benchmark.json of each service
    shown,      \* what the last benchmark rendered, and whether it failed
    other,      \* the other process between Load and Save, None otherwise
    others,     \* its installs so far
    lost        \* observer: its saves lost an entry since the command began

loopVars == <<phase, services, auto, toRun, path, alive, exitCode, ran>>
benchVars == <<report, shown>>
otherVars == <<other, others, lost>>
runVars == <<loopVars, benchVars, otherVars>>
allVars == <<vars, runVars>>

Phases == {"none", "preflight", "plan", "loop", "client", "start", "exited",
           "benchClient", "benchStart", "benchRead"}

\* A report: the command whose plugin wrote it, or None, and whether the file
\* is complete (os.WriteFile truncates first).
NoReport == [by |-> None, whole |-> FALSE]
NothingShown == [report |-> None, ok |-> FALSE]

HarnessInit ==
    /\ Init
    /\ phase = "none"
    /\ services = {}
    /\ auto = FALSE
    /\ toRun = {}
    /\ path = [s \in Services |-> None]
    /\ alive = {}
    /\ exitCode = "TestPass"
    /\ ran = <<>>
    /\ report = [s \in Benchmarked |-> NoReport]
    /\ shown = NothingShown
    /\ other = None
    /\ others = 0
    /\ lost = FALSE

Between == phase \in {"none", "exited"}

\* Every command is a process of its own: nothing but the disk is left of the
\* one before.
NewProcess(ss, a) ==
    /\ Between
    /\ services' = ss
    /\ auto' = a
    /\ toRun' = {}
    /\ path' = [s \in Services |-> None]
    /\ exitCode' = "TestPass"
    /\ ran' = <<>>
    /\ shown' = NothingShown
    /\ lost' = FALSE
    /\ UNCHANGED <<other, others>>

Named(ss) == {Asks[s] : s \in ss} \ {None}

----------------------------------------------------------------------------
(* Before the loop.                                                        *)

\* ensureRequestedInstalled: FromConfig when autoinstall is on, else nothing.
RunBegin(ss, a) ==
    /\ NewProcess(ss, a)
    /\ UNCHANGED <<alive, report>>
    /\ IF a THEN /\ \/ FromConfig(Named(ss))
                    \/ ss # {} /\ FromConfigFails(Named(ss))
                 /\ phase' = "preflight"
       ELSE /\ proc # "running"
            /\ commands < MaxCommands
            /\ commands' = commands + 1
            /\ phase' = "plan"
            /\ UNCHANGED <<disk, proc, wanted, job, updateMu, loaded,
                           cancelled, err>>

Preflight ==
    /\ phase = "preflight"
    /\ (\E r \in Requests : Step(r)) \/ Wait
    /\ UNCHANGED runVars

PreflightDone ==
    /\ phase = "preflight"
    /\ proc = "returned"
    /\ IF err THEN phase' = "exited" /\ exitCode' = "BadUsage"
              ELSE phase' = "plan" /\ UNCHANGED exitCode
    /\ UNCHANGED <<vars, services, auto, toRun, path, alive, ran, benchVars,
                   otherVars>>

\* NewPluginPkg of a service: its path, None when its plugin is not named or
\* not found, or when the manifest cannot be read.
PathOf(s, readable) ==
    IF ~readable \/ Asks[s] = None THEN None ELSE getBinary(manifest, Asks[s])

\* getRequestedPlugins, for the next service, in any order.  Each loads the
\* manifest anew, so the other process may save between one and the next.
ResolveService(s, readable) ==
    /\ phase = "plan"
    /\ s \in services \ toRun
    /\ path' = [path EXCEPT ![s] = PathOf(s, readable)]
    /\ toRun' = toRun \cup {s}
    /\ UNCHANGED <<vars, phase, services, auto, alive, exitCode, ran, benchVars,
                   otherVars>>

\* The decision of planRun: an exit code, or None to go on.  The plugins that
\* are installed but not requested only matter when nothing is requested.
planRun(ss, paths, locals) ==
    IF ss = {} /\ ~locals THEN "NoTests"
    ELSE IF \E s \in ss : paths[s] = None THEN "BadUsage"
    ELSE None

\* The rest of GetPlugins, and planRun.
Plan(readable) ==
    LET locals == readable /\ \E k \in Keys : manifest[k] # None
        early == planRun(services, path, locals)
    IN  /\ phase = "plan"
        /\ toRun = services
        /\ IF early # None
           THEN phase' = "exited" /\ exitCode' = early /\ toRun' = {}
           ELSE phase' = "loop" /\ UNCHANGED <<exitCode, toRun>>
        /\ UNCHANGED <<vars, services, auto, path, alive, ran, benchVars, otherVars>>

----------------------------------------------------------------------------
(* The loop over toRun.                                                    *)

\* newClient: the next plugin's process is started.  The order is that of a
\* map, that is any order.
StartProcess(s) ==
    /\ phase = "loop"
    /\ s \in toRun
    /\ alive' = alive \cup {s}
    /\ phase' = "client"
    /\ UNCHANGED <<vars, services, auto, toRun, path, exitCode, ran, benchVars,
                   otherVars>>

\* The RPC client and Dispense.  An error ends the whole run.
\* Mutant: the error path forgets closeClient.
Dispense_NoKill(s, ok) ==
    /\ phase = "client"
    /\ s \in alive
    /\ IF ok THEN phase' = "start" /\ UNCHANGED <<alive, exitCode>>
       ELSE phase' = "exited" /\ exitCode' = "InternalError" /\ UNCHANGED alive
    /\ UNCHANGED <<vars, services, auto, toRun, path, ran, benchVars,
                   otherVars>>

Dispense(s, ok) ==
    /\ phase = "client"
    /\ s \in alive
    /\ IF ok THEN phase' = "start" /\ UNCHANGED <<alive, exitCode>>
       ELSE /\ phase' = "exited"
            /\ exitCode' = "InternalError"
            /\ alive' = alive \ {s}
    /\ UNCHANGED <<vars, services, auto, toRun, path, ran, benchVars,
                   otherVars>>

\* Mutant: BadUsage has no severity.
exitSeverity_NoBadUsage(code) ==
    CASE code = "TestFail" -> 1 [] code = "InternalError" -> 3 [] OTHER -> 0
exitSeverity(code) ==
    CASE code = "TestFail" -> 1
      [] code = "BadUsage" -> 2
      [] code = "InternalError" -> 3
      [] OTHER -> 0

mergeExitCode(prev, next) ==
    IF exitSeverity(next) > exitSeverity(prev) THEN next ELSE prev

\* PluginRPC.Start returns the plugin's code, or InternalError when the call
\* itself fails; then closeClient kills the process.
StartPlugin(s, code, rpcFails) ==
    LET result == IF rpcFails THEN "InternalError" ELSE code
    IN  /\ phase = "start"
        /\ s \in alive
        /\ ran' = Append(ran, [service |-> s, key |-> path[s], code |-> result])
        /\ exitCode' = IF result = "TestPass" THEN exitCode
                       ELSE mergeExitCode(exitCode, result)
        /\ alive' = alive \ {s}
        /\ toRun' = toRun \ {s}
        /\ phase' = "loop"
        /\ UNCHANGED <<vars, services, auto, path, benchVars, otherVars>>

RunEnd ==
    /\ phase = "loop"
    /\ toRun = {}
    /\ phase' = "exited"
    /\ UNCHANGED <<vars, services, auto, toRun, path, alive, exitCode, ran,
                   benchVars, otherVars>>

----------------------------------------------------------------------------
(* pvtr benchmark <plugin-binary> --service s --write-directory w.         *)

\* Mutant: an earlier report stays.
ClearReport_Keep(old) == old

\* os.Remove of the previous report; that there was none is no error.
ClearReport(old) == NoReport

\* The RunE up to NewClient: resolvePluginBinary and the removal may fail,
\* then nothing is started.
BenchmarkBegin(s, ok) ==
    /\ NewProcess({s}, FALSE)
    /\ proc # "running"
    /\ commands < MaxCommands
    /\ commands' = commands + 1
    /\ IF ok THEN /\ phase' = "benchClient"
                  /\ report' = [report EXCEPT ![s] = ClearReport(@)]
                  /\ alive' = {s}
       ELSE phase' = "exited" /\ UNCHANGED <<report, alive>>
    /\ UNCHANGED <<disk, proc, wanted, job, updateMu, loaded, cancelled, err>>

\* The RPC client and Dispense; an error returns through the deferred Kill.
BenchmarkDispense(s, ok) ==
    /\ phase = "benchClient"
    /\ s \in alive
    /\ IF ok THEN phase' = "benchStart" /\ UNCHANGED alive
             ELSE phase' = "exited" /\ alive' = alive \ {s}
    /\ UNCHANGED <<vars, services, auto, toRun, path, exitCode, ran, benchVars,
                   otherVars>>

\* plugin.Start: the plugin writes its report, stops while writing it, or
\* writes none (an older SDK, or a failure before finalizeBenchmark).
BenchmarkStart(s, writes, code, rpcFails) ==
    /\ phase = "benchStart"
    /\ s \in alive
    /\ writes = "partly" => rpcFails
    /\ report' = IF writes = "none" THEN report
                 ELSE [report EXCEPT ![s] = [by |-> commands,
                                             whole |-> writes = "whole"]]
    /\ exitCode' = IF rpcFails THEN "InternalError" ELSE code
    /\ phase' = "benchRead"
    /\ UNCHANGED <<vars, services, auto, toRun, path, alive, ran, shown, otherVars>>

benchmarkRunError(code) == code \in {"InternalError", "BadUsage"}

\* parseBenchmarkReport, rendering, and the error of the plugin after it; the
\* deferred Kill.
BenchmarkRead(s) ==
    /\ phase = "benchRead"
    /\ s \in alive
    /\ shown' = IF report[s].whole
                THEN [report |-> report[s].by, ok |-> ~benchmarkRunError(exitCode)]
                ELSE NothingShown
    /\ alive' = alive \ {s}
    /\ phase' = "exited"
    /\ UNCHANGED <<vars, services, auto, toRun, path, exitCode, ran, report,
                   otherVars>>

----------------------------------------------------------------------------
(* Another pvtr process on the same binaries directory.                    *)

\* It has verified an index, writes the binary and loads the manifest; its
\* updateMu is not ours.
OtherLoads(i, id) ==
    /\ other = None
    /\ others < MaxOthers
    /\ id \in SignersOf[i]
    /\ others' = others + 1
    /\ binary' = [binary EXCEPT ![ConfigOf[i]] = i]
    /\ other' = [key |-> ConfigOf[i], snapshot |-> manifest,
                 entry |-> [digest |-> i, signer |-> id]]
    /\ UNCHANGED <<manifest, proc, wanted, job, updateMu, loaded, cancelled, err,
                   commands, loopVars, benchVars, lost>>

\* It saves: what others added since its Load is gone.
OtherSaves ==
    /\ other # None
    /\ manifest' = [other.snapshot EXCEPT ![other.key] = other.entry]
    /\ other' = None
    /\ lost' = (lost \/ \E k \in Keys : manifest[k] # None /\ manifest'[k] = None)
    /\ UNCHANGED <<binary, proc, wanted, job, updateMu, loaded, cancelled, err,
                   commands, loopVars, benchVars, others>>

----------------------------------------------------------------------------
RunStep ==
    \/ Preflight
    \/ PreflightDone
    \/ \E readable \in BOOLEAN : Plan(readable)
    \/ \E s \in services :
          \/ \E readable \in BOOLEAN : ResolveService(s, readable)
          \/ StartProcess(s)
          \/ \E ok \in BOOLEAN : Dispense(s, ok)
          \/ \E code \in PluginCodes, rpcFails \in BOOLEAN :
                StartPlugin(s, code, rpcFails)
          \/ \E ok \in BOOLEAN : BenchmarkDispense(s, ok)
          \/ \E writes \in {"whole", "partly", "none"}, code \in PluginCodes,
                rpcFails \in BOOLEAN : BenchmarkStart(s, writes, code, rpcFails)
          \/ BenchmarkRead(s)
    \/ RunEnd

\* Commands of the installer on their own.
InstallBegin ==
    /\ NewProcess({}, FALSE)
    /\ \/ \E rs \in Configs : FromConfig(rs) \/ FromConfigFails(rs)
       \/ \E r \in Requests : InstallOne(r)
       \/ \E r \in Requests, b \in Builds : Local(r, b)
    /\ phase' = "none"
    /\ UNCHANGED <<alive, report>>

InstallStep ==
    /\ phase = "none"
    /\ (\E r \in Requests : Step(r)) \/ Wait
    /\ UNCHANGED runVars

RunCrash ==
    /\ Crash
    /\ phase' = "none"
    /\ UNCHANGED <<services, auto, toRun, path, alive, exitCode, ran, benchVars,
                   otherVars>>

HarnessNext ==
    \/ \E ss \in RunConfigs, a \in BOOLEAN : RunBegin(ss, a)
    \/ RunStep
    \/ InstallBegin
    \/ InstallStep
    \/ RunCrash
    \/ \E s \in Benchmarked, ok \in BOOLEAN : BenchmarkBegin(s, ok)
    \/ \E i \in Foreign, id \in Identities : OtherLoads(i, id)
    \/ OtherSaves

HarnessSpec == HarnessInit /\ [][HarnessNext]_allVars

\* The loop is sequential code: it goes on while hub, registry and plugins
\* answer.  There is no timeout on a plugin's Start, so that a plugin answers
\* is an assumption about plugins, not about this code.
HarnessFairSpec == HarnessSpec /\ WF_allVars(RunStep)

----------------------------------------------------------------------------
(* Properties.                                                             *)

\* The state of a run is well formed.
HarnessTypeOK ==
    /\ TypeOK
    /\ phase \in Phases
    /\ services \subseteq Services
    /\ auto \in BOOLEAN
    /\ toRun \subseteq services
    /\ path \in [Services -> Keys \cup {None}]
    /\ alive \subseteq Services
    /\ exitCode \in ExitCodes
    /\ report \in [Benchmarked -> [by : 1..MaxCommands \cup {None},
                                    whole : BOOLEAN]]
    /\ others \in 0..MaxOthers /\ lost \in BOOLEAN
    /\ \A i \in DOMAIN ran : ran[i].key \in Keys /\ ran[i].code \in PluginCodes
                                                     \cup {"InternalError"}

\* harness.go:113-115: "a run installs what it needs" is a guarantee.  With
\* autoinstall, when the preflight succeeded and the manifest can be read, a
\* run whose services all name a plugin starts every one of them, once, unless
\* a client error ends it, with another process installing all the while.  Two
\* things defeat it.  A save of the other process in the middle of the run that
\* loses an entry; what it lost before the run began, the run repairs.  And a
\* hub that answers with another plugin than the one asked for: that one is
\* installed, and the service finds nothing (grcstore.go:60).
RunInstallsWhatItNeeds ==
    LET unread == \E s \in services :
                      path[s] = None /\ getBinary(manifest, Asks[s]) # None
        hubAnswersAsAsked == \A s \in services :
                                MayInstall(Asks[s]) = {Asks[s].name}
    IN  phase = "exited" /\ auto /\ ~err /\ toRun = {} /\ ~lost
          /\ (\A s \in services : Asks[s] # None) /\ ~unread
          /\ hubAnswersAsAsked =>
            /\ {ran[i].service : i \in DOMAIN ran} = services
            /\ Len(ran) = Cardinality(services)

\* run.go:26: "Across multi-plugin runs the most severe outcome wins", whatever
\* the order of the services; in particular TestPass means that all passed.
MostSevereWins ==
    LET codes == {ran[i].code : i \in DOMAIN ran}
        worst == IF "InternalError" \in codes \/ toRun # {}
                 THEN "InternalError"
                 ELSE IF "BadUsage" \in codes THEN "BadUsage"
                 ELSE IF "TestFail" \in codes THEN "TestFail" ELSE "TestPass"
    IN  phase = "exited" /\ (ran # <<>> \/ toRun # {}) => exitCode = worst

\* Every way out of the loop, and of a benchmark, kills the plugin it started,
\* and no two plugins run at a time.
NoPluginLeftBehind ==
    /\ phase \notin {"client", "start", "benchClient", "benchStart", "benchRead"}
         => alive = {}
    /\ Cardinality(alive) <= 1

\* run.go:49-51: "a config that requests an uninstalled plugin now fails before
\* any plugin runs"; and between resolving a service and running its plugin
\* nothing, the other process included, can change what is run: the binary is
\* a local one or comes from an index signed for that plugin, in the version
\* the service pins.
RunsWhatWasAsked ==
    \A i \in DOMAIN ran :
        LET ask == Asks[ran[i].service]
            k == ran[i].key
        IN  /\ \A s \in services : path[s] # None
            /\ k[1] = ask.name
            /\ ask.version # 0 => k[2] = ask.version
            /\ IF k[1] \in Locals THEN binary[k] \in Builds
               ELSE binary[k] # None /\ ConfigOf[binary[k]] = k

\* benchmark.go:150-151: a run that produces no report "says so instead of
\* presenting the stale file as its own".  What is rendered was written, and
\* completely, by the plugin of this very command; and the command succeeds
\* only when that plugin did not break.
ShowsItsOwnReport ==
    phase = "exited" /\ shown # NothingShown =>
        /\ shown.report = commands
        /\ shown.ok => exitCode \in {"TestPass", "TestFail"}

\* A run, and a benchmark, ends when hub, registry and plugins answer.
RunEnds == phase \in {"preflight", "plan", "benchClient"} ~> Between
============================================================================
