---------------------------- MODULE Orchestrator ----------------------------
(***************************************************************************)
(* pluginkit: the life of a plugin process.  The plugin registers catalogs *)
(* and suites (module Registration), calls Mobilize, turns the outcome     *)
(* into an exit code with ExitCodeFor, and may register more and call      *)
(* Mobilize again.  Each suite's Evaluate runs the assessment steps of its *)
(* controls; the steps may alter the target through the ChangeManager      *)
(* (module ChangeManager) attached to the suite, and Evaluate reverts what *)
(* they did.                                                               *)
(*                                                                         *)
(* A suite is reachable for AddChangeManager only through the exported     *)
(* Evaluation_Suites, which Mobilize fills: the config a suite needs for   *)
(* AddChangeManager is set by Mobilize too.  So a change manager is        *)
(* attached between one Mobilize and the next.                             *)
(***************************************************************************)
EXTENDS ChangeManager, Registration

CONSTANTS
    Settings,      \* what viper has read from file, flags and environment
    RequiredVars,  \* the plugin's AddRequiredVars
    Loaders,       \* bound: the loaders given to AddLoader, none of them nil
    Outcomes,      \* the results an assessment step may return
    MaxOps,        \* bound: change manager calls per control evaluation
    MaxRuns        \* bound: calls of Mobilize

VARIABLES
    loader,             \* v.loader, as the type of payload it returns
    Payload,            \* v.Payload
    suite,              \* what an EvaluationSuite holds at run time
    config,             \* v.config, None before the first Mobilize
    Evaluation_Suites,  \* v.Evaluation_Suites, as catalog ids
    benchmark,          \* v.benchmark.Loaders, None outside benchmark mode
    pc,                 \* where Mobilize is; "dead": the process panicked
    pol,                \* index of the next requested catalog
    ctl,                \* index of the next control of the running suite
    ops,                \* change manager calls made by the running control
    err,                \* the class of the error Mobilize returns
    file,               \* the results file: which Mobilize wrote which suites
    report,             \* benchmark.json, likewise
    exit,               \* what ExitCodeFor returned
    runs,               \* observer: calls of Mobilize so far
    bad                 \* observer: the calls in which a control of the suite
                        \* ended badly

pluginVars == <<regVars, loader>>
dataVars == <<Payload, benchmark, file, report>>
posVars == <<pol, ctl, ops>>
orchVars == <<pluginVars, dataVars, suite, config, Evaluation_Suites, pc,
              posVars, err, exit, runs, bad>>
vars == <<cmVars, orchVars>>

Results == {"NotRun", "Passed", "NeedsReview", "Unknown", "Failed"}
Bad == {"Failed", "NeedsReview", "Unknown"}

NoPayload == [run |-> 0, type |-> "nil"]
Loaded == [run : 0..MaxRuns, type : LoaderTypes \cup {"nil"}]

Suite == [Result : Results, CorruptedState : BOOLEAN, changeManager : BOOLEAN,
          payload : Loaded, stepTimings : Nat]
NewSuite == [Result |-> "NotRun", CorruptedState |-> FALSE,
             changeManager |-> FALSE,    \* the plugin's manager is attached
             payload |-> NoPayload, stepTimings |-> 0]

ASSUME OrchestratorInputs ==
    /\ Outcomes \subseteq Results
    /\ Loaders \subseteq LoaderTypes \ {"none"}
    /\ MaxOps \in Nat /\ MaxRuns \in Nat
    /\ None \notin Seq(Ids \cup {"orchestrator"})

\* Mutant: the last result wins.
UpdateAggregateResult_LastWins(previous, new) == new

\* gemara.UpdateAggregateResult: the worse result stays, NotRun changes nothing.
UpdateAggregateResult(previous, new) ==
    LET rank == [NotRun |-> 0, Passed |-> 1, NeedsReview |-> 2,
                 Unknown |-> 3, Failed |-> 4]
    IN  IF rank[new] > rank[previous] THEN new ELSE previous

ExitCodeFor(suites, class) ==
    CASE class = "devbug"  -> "BadUsage"
      [] class = "runtime" -> "InternalError"
      [] OTHER -> IF \E i \in DOMAIN suites : suite[suites[i]].Result \in Bad
                  THEN "TestFail" ELSE "TestPass"

Registered(c) == c \in ToSet(possibleSuites)
Current == config.ControlCatalogs[pol]

\* One evaluation per control that has requirements.
setupEvalLog(controls) ==
    Picked(controls, {i \in DOMAIN controls : controls[i].req # None})
Evaluations(c) == setupEvalLog(built[c].controls)
Running == Evaluations(Current)[ctl]
Applies(k) == k.level \in config.Applicability
HasSteps(c, k) == k.req \in built[c].how.steps

----------------------------------------------------------------------------
(* The configuration.                                                      *)

AllowedOutputTypes == {"json", "yaml", "sarif", "gemara"}

Effective(service, top, empty) == IF service = empty THEN top ELSE service

\* NewConfig: a service's own policy wins over the top level, either may ask
\* for an invasive run, and vars come from three places.
NewConfig(s) ==
    LET catalogs == Effective(s.catalogs, s.topCatalogs, <<>>)
        applicability == Effective(s.applicability, s.topApplicability, {})
        present == s.vars \cup s.localVars \cup s.inherited
        output == Effective(s.output, "yaml", "")
    IN  [named |-> s.service, ControlCatalogs |-> catalogs,
         Applicability |-> applicability,
         Write |-> s.write, Output |-> output,
         Invasive |-> s.invasive \/ s.topInvasive,
         Benchmark |-> s.benchmark, BenchmarkPayloadOnly |-> s.payloadOnly,
         Error |-> \/ s.service /\ (applicability = {} \/ catalogs = <<>>)
                   \/ ~(RequiredVars \subseteq present)
                   \/ output \notin AllowedOutputTypes]

\* SetupLogging panics when the log file of a named service cannot be opened;
\* nobody recovers.
SetupLoggingPanics(cfg, opens) == cfg.Write /\ cfg.named /\ ~opens

----------------------------------------------------------------------------
(* The plugin, outside Mobilize.                                           *)

OrchInit ==
    /\ RegInit
    /\ loader = "none"
    /\ Payload = NoPayload
    /\ suite = [c \in Ids |-> NewSuite]
    /\ config = None
    /\ Evaluation_Suites = <<>>
    /\ benchmark = None
    /\ pc = "idle"
    /\ pol = 1 /\ ctl = 1 /\ ops = 0
    /\ err = "nil"
    /\ file = [run |-> 0, suites |-> <<>>]
    /\ report = [run |-> 0]
    /\ exit = "none"
    /\ runs = 0
    /\ bad = [c \in Ids |-> {}]

Init == CMInit /\ OrchInit

\* The operations of module Registration; setupConfig and addEvaluationSuite
\* see to it that every suite has v.config.
Register ==
    /\ pc = "idle"
    /\ RegNext
    /\ UNCHANGED <<loader, dataVars, suite, config, Evaluation_Suites, pc,
                   posVars, err, exit, runs, bad, cmVars>>

AddLoader(l) ==
    /\ pc = "idle"
    /\ Quiet
    /\ loader' = l
    /\ UNCHANGED <<regVars, dataVars, suite, config, Evaluation_Suites, pc,
                   posVars, err, exit, runs, bad, cmVars>>

AddChangeManager(c) ==
    /\ pc = "idle"
    /\ Quiet
    /\ c \in ToSet(Evaluation_Suites)
    /\ config.Invasive
    /\ suite' = [suite EXCEPT ![c].changeManager = TRUE]
    /\ Allow
    /\ UNCHANGED <<pluginVars, dataVars, config, Evaluation_Suites, pc, posVars,
                   err, exit, runs, bad>>

----------------------------------------------------------------------------
(* Mobilize.                                                               *)

\* Mobilize returns class, and the plugin's Start returns the exit code.
Return(class) ==
    /\ pc' = "idle"
    /\ err' = class
    /\ exit' = ExitCodeFor(Evaluation_Suites, class)

\* Up to loadPayload.  setupConfig reads the configuration once: a second
\* Mobilize runs with the first one's.
MobilizeStart(s, logs) ==
    LET first == config = None
        cfg == IF first THEN NewConfig(s) ELSE config
    IN  /\ pc = "idle"
        /\ Quiet
        /\ runs < MaxRuns
        /\ runs' = runs + 1
        /\ Evaluation_Suites' = <<>>
        /\ config' = cfg
        /\ pol' = 1
        /\ IF first /\ SetupLoggingPanics(cfg, logs)
           THEN pc' = "dead" /\ UNCHANGED <<err, exit>>
           ELSE IF cfg.Error \/ cfg.ControlCatalogs = <<>>
           THEN pc' = "idle" /\ err' = "runtime" /\ exit' = "InternalError"
           ELSE pc' = "load" /\ err' = "nil" /\ exit' = "none"
        /\ benchmark' = IF pc' = "load" /\ cfg.Benchmark THEN <<>> ELSE benchmark
        /\ UNCHANGED <<pluginVars, Payload, file, report, suite, ctl, ops, bad,
                       cmVars>>

\* Mutant: a suite that has a payload keeps it.
Reloads_OnlyOnce(c, i, k) == i < k /\ suite[c].payload = NoPayload

\* Is the payload of suite c, the i-th, replaced when loader k fails?
Reloads(c, i, k) == i < k

\* The loaders that are called, up to the k-th, as the scopes of their timings.
Called(k) ==
    (IF loader = "none" THEN <<>> ELSE <<"orchestrator">>)
    \o Picked(possibleSuites, {i \in DOMAIN possibleSuites :
                   i <= k /\ built[possibleSuites[i]].how.loader # "none"})

\* The orchestrator's loader (0), then those of the suites in registration
\* order; k is the one that fails, ending the Mobilize with the payloads
\* before it already replaced.  A suite without a loader shares v.Payload.
loadPayload(k) ==
    LET suites == possibleSuites
        data == IF loader = "none" \/ k = 0 THEN Payload
                ELSE [run |-> runs, type |-> loader]
        Own(c) == built[c].how.loader
        New(c) == IF Own(c) = "none" THEN data ELSE [run |-> runs, type |-> Own(c)]
        fails == k <= Len(suites)
    IN  /\ pc = "load"
        /\ k = 0 => loader # "none"
        /\ k \in DOMAIN suites => Own(suites[k]) # "none"
        /\ Payload' = data
        /\ suite' = [c \in Ids |->
                       IF \E i \in DOMAIN suites : suites[i] = c /\ Reloads(c, i, k)
                       THEN [suite[c] EXCEPT !.payload = New(c)] ELSE suite[c]]
        /\ benchmark' = IF benchmark = None THEN None ELSE Called(k)
        /\ IF fails THEN Return("runtime")
           ELSE IF ~config.named THEN Return("devbug")
           ELSE IF config.Benchmark /\ config.BenchmarkPayloadOnly
                THEN pc' = "benchmark" /\ UNCHANGED <<err, exit>>
           ELSE IF suites = <<>> THEN Return("devbug")
           ELSE pc' = "catalogs" /\ UNCHANGED <<err, exit>>
        /\ UNCHANGED <<pluginVars, file, report, config, Evaluation_Suites,
                       posVars, runs, bad, cmVars>>

\* adaptTypedSteps: a typed step is not called on a payload of another type, or
\* on none.
StepCalled(c) == ~built[c].how.typed \/ suite[c].payload.type = "T"
StepResults(c) == IF StepCalled(c) THEN Outcomes ELSE {"Unknown"}

\* Evaluate(c) is over: stamp and append the suite, go on to the next catalog
\* whatever Evaluate returned.
FinishSuite(c) ==
    /\ Evaluation_Suites' = Append(Evaluation_Suites, c)
    /\ pol' = pol + 1
    /\ pc' = "catalogs"

\* The next requested catalog has a suite: the part of Evaluate before its
\* loop.  Without requirements (ev20) or steps (ev30) Evaluate returns a
\* development error, which Mobilize only logs.
EvaluateStart ==
    /\ pc = "catalogs"
    /\ pol <= Len(config.ControlCatalogs)
    /\ Registered(Current)
    /\ IF Evaluations(Current) = <<>> \/ built[Current].how.steps = {}
       THEN FinishSuite(Current) /\ UNCHANGED <<ctl, ops>>
       ELSE /\ pc' = "evaluate" /\ ctl' = 1 /\ ops' = 0
            /\ UNCHANGED <<Evaluation_Suites, pol>>
    /\ UNCHANGED <<pluginVars, dataVars, suite, config, err, exit, runs, bad,
                   cmVars>>

\* No suite for the requested catalog: a warning, and on to the next.
SkipCatalog ==
    /\ pc = "catalogs"
    /\ pol <= Len(config.ControlCatalogs)
    /\ ~Registered(Current)
    /\ pol' = pol + 1
    /\ UNCHANGED <<pluginVars, dataVars, suite, config, Evaluation_Suites, pc,
                   ctl, ops, err, exit, runs, bad, cmVars>>

\* A step of the running control uses the suite's change manager.
AssessmentStep ==
    /\ pc = "evaluate"
    /\ ctl <= Len(Evaluations(Current))
    /\ Applies(Running) /\ HasSteps(Current, Running)
    /\ StepCalled(Current)
    /\ suite[Current].changeManager
    /\ ops < MaxOps
    /\ ops' = ops + 1
    /\ StepOp
    /\ UNCHANGED <<pluginVars, dataVars, suite, config, Evaluation_Suites, pc,
                   pol, ctl, err, exit, runs, bad>>

\* Mutant: corruption does not stop the suite.
BreaksLoop_Never == FALSE

BreaksLoop == suite[Current].changeManager /\ corruptedState

\* The results of the running control: gemara skips what does not apply, and
\* setupEvalLog marks a requirement that has no steps.
ControlResults ==
    IF ~Applies(Running) THEN {"NotRun"}
    ELSE IF ~HasSteps(Current, Running) THEN {"Unknown"}
    ELSE StepResults(Current)

\* Suite s after a control ended with result r, and with its step timed.
AddResult(s, r, timed) ==
    [s EXCEPT !.Result = UpdateAggregateResult(@, r),
              !.stepTimings = IF timed THEN @ + 1 ELSE @]

\* The running control ends with result r, the loop body's remainder runs; a
\* corrupted change manager breaks the loop.  In benchmark mode each step that
\* ran leaves a timing.
EvaluateControl(r) ==
    LET evaluations == Evaluations(Current)
        timed == config.Benchmark /\ Applies(Running) /\ HasSteps(Current, Running)
    IN  /\ pc = "evaluate"
        /\ ctl <= Len(evaluations)
        /\ r \in ControlResults
        /\ suite' = [suite EXCEPT ![Current] = AddResult(@, r, timed)]
        /\ bad' = [bad EXCEPT ![Current] = IF r \in Bad THEN @ \cup {runs} ELSE @]
        /\ ctl' = IF BreaksLoop THEN Len(evaluations) + 1 ELSE ctl + 1
        /\ ops' = 0
        /\ UNCHANGED <<pluginVars, dataVars, config, Evaluation_Suites, pc, pol,
                       err, exit, runs, cmVars>>

\* Mutant: a corrupted or unfinished run skips the reverts.
EvaluateEnd_NoRevert(ok, left) ==
    /\ pc = "evaluate"
    /\ ctl > Len(Evaluations(Current))
    /\ suite' = [suite EXCEPT ![Current].CorruptedState = corruptedState]
    /\ FinishSuite(Current)
    /\ UNCHANGED <<pluginVars, dataVars, config, ctl, ops, err, exit, runs, bad,
                   cmVars>>

\* After the loop: RevertAll, and CorruptedState copied to the suite.  The
\* CORRUPTION_FOUND error is logged by Mobilize like any other.
EvaluateEnd(ok, left) ==
    /\ pc = "evaluate"
    /\ ctl > Len(Evaluations(Current))
    /\ IF suite[Current].changeManager
       THEN /\ RevertAll(ok, left)
            /\ suite' = [suite EXCEPT ![Current].CorruptedState = corruptedState']
       ELSE UNCHANGED <<suite, cmVars>>
    /\ FinishSuite(Current)
    /\ UNCHANGED <<pluginVars, dataVars, config, ctl, ops, err, exit, runs, bad>>

\* All requested catalogs are done.
CatalogsDone ==
    /\ pc = "catalogs"
    /\ pol > Len(config.ControlCatalogs)
    /\ IF Evaluation_Suites = <<>> THEN Return("devbug")
       ELSE /\ pc' = IF config.Write THEN "write" ELSE "benchmark"
            /\ UNCHANGED <<err, exit>>
    /\ UNCHANGED <<pluginVars, dataVars, suite, config, Evaluation_Suites,
                   posVars, runs, bad, cmVars>>

WriteError(encoded, opens, writes) ==
    IF encoded /\ opens /\ writes THEN "nil" ELSE "runtime"

\* WriteResults.  JSON, YAML and Gemara output hold every suite or fail; SARIF
\* conversion stops at the first suite that cannot be converted and the k
\* suites before it are written as if they were all; any other output name is
\* an error.  Opening the file truncates it, and the write may fail then.
WriteResults(k, marshals, opens, writes) ==
    /\ pc = "write"
    /\ k \in 0..Len(Evaluation_Suites)
    /\ LET body == IF config.Output = "sarif"
                   THEN SubSeq(Evaluation_Suites, 1, k) ELSE Evaluation_Suites
           encoded == \/ config.Output = "sarif"
                      \/ config.Output \in {"json", "yaml", "gemara"} /\ marshals
       IN  /\ file' = IF encoded /\ opens
                      THEN [run |-> runs,
                            suites |-> IF writes THEN body ELSE <<>>]
                      ELSE file
           /\ err' = WriteError(encoded, opens, writes)
    /\ pc' = "benchmark"
    /\ UNCHANGED <<pluginVars, Payload, benchmark, report, suite, config,
                   Evaluation_Suites, posVars, exit, runs, bad, cmVars>>

\* Mutant: every suite's payload is asked.
apiCallsReported_All ==
    Cardinality({c \in ToSet(possibleSuites) : suite[c].payload # NoPayload})
    + IF Payload = NoPayload THEN 0 ELSE 1

\* Every payload reports one call here, so this is the number of payloads asked.
apiCallsReported ==
    Cardinality({c \in ToSet(possibleSuites) : built[c].how.loader # "none"})
    + IF Payload = NoPayload THEN 0 ELSE 1

\* finalizeBenchmark, then the return of Mobilize: the error of WriteResults
\* takes precedence over the benchmark's.  A failed write leaves the old report
\* or a truncated one (whole is FALSE).
FinalizeBenchmark(opens, writes) ==
    /\ pc = "benchmark"
    /\ writes => opens
    /\ report' = IF benchmark = None \/ ~opens THEN report
                 ELSE [run |-> runs, whole |-> writes, loaders |-> benchmark,
                       calls |-> apiCallsReported,
                       suites |-> [i \in DOMAIN Evaluation_Suites |->
                           [CatalogId |-> Evaluation_Suites[i],
                            steps |-> suite[Evaluation_Suites[i]].stepTimings]]]
    /\ Return(IF err = "nil" /\ benchmark # None /\ ~writes THEN "runtime" ELSE err)
    /\ UNCHANGED <<pluginVars, Payload, benchmark, file, suite, config,
                   Evaluation_Suites, posVars, runs, bad, cmVars>>

MobilizeStep ==
    \/ \E k \in 0..Len(possibleSuites) + 1 : loadPayload(k)
    \/ EvaluateStart
    \/ SkipCatalog
    \/ AssessmentStep
    \/ \E r \in Results : EvaluateControl(r)
    \/ \E ok, left \in SUBSET Names : EvaluateEnd(ok, left)
    \/ CatalogsDone
    \/ \E k \in 0..Len(Evaluation_Suites), m, o, w \in BOOLEAN :
          WriteResults(k, m, o, w)
    \/ \E o, w \in BOOLEAN : FinalizeBenchmark(o, w)

Next ==
    \/ Register
    \/ \E l \in Loaders : AddLoader(l)
    \/ \E c \in Ids : AddChangeManager(c)
    \/ \E s \in Settings, logs \in BOOLEAN : MobilizeStart(s, logs)
    \/ MobilizeStep

Spec == Init /\ [][Next]_vars

----------------------------------------------------------------------------
(* Properties.                                                             *)

\* The state of the orchestrator is well formed: one suite per catalog at most,
\* and an exit code that ExitCodeFor documents.
OrchTypeOK ==
    /\ loader \in LoaderTypes
    /\ Payload \in Loaded
    /\ suite \in [Ids -> Suite]
    /\ Evaluation_Suites \in Seq(Ids)
    /\ pc \in {"idle", "load", "catalogs", "evaluate", "write", "benchmark",
              "dead"}
    /\ err \in {"nil", "runtime", "devbug"}
    /\ exit \in {"none", "TestPass", "TestFail", "InternalError", "BadUsage"}
    /\ runs \in 0..MaxRuns
    /\ pol \in Nat /\ ctl \in Nat /\ ops \in 0..MaxOps
    /\ bad \in [Ids -> SUBSET (0..runs)]

TypeOK == CMTypeOK /\ RegTypeOK /\ OrchTypeOK

\* A Mobilize that returned without error.
Succeeded == pc = "idle" /\ runs > 0 /\ err = "nil"
Completed == Succeeded /\ Evaluation_Suites # <<>>

\* Every Evaluate of this Mobilize went through without an error: the suite has
\* evaluations and steps, and its change manager is not corrupted.
EvaluatedWithoutError ==
    \A c \in ToSet(Evaluation_Suites) :
        /\ Evaluations(c) # <<>> /\ built[c].how.steps # {}
        /\ ~suite[c].CorruptedState

\* Where no Evaluate ended with an error (which is another finding), the exit
\* code tells how the controls ended, through aggregation per suite, repeated
\* and duplicate evaluations of one suite, and ExitCodeFor's scan.  No bad
\* result of this call is lost: when a control of an evaluated suite ended
\* Failed, NeedsReview or Unknown, it is TestFail.  None is invented: TestFail
\* means that one did, in this call or, Result never being reset
\* (evaluation_suite.go:92), in an earlier call of Mobilize.
ExitReflectsControls ==
    LET EndedBadly(calls_) ==
            \E c \in ToSet(Evaluation_Suites) : bad[c] \cap calls_ # {}
    IN  Completed /\ EvaluatedWithoutError =>
            /\ exit \in {"TestPass", "TestFail"}
            /\ EndedBadly({runs}) => exit = "TestFail"
            /\ exit = "TestFail" => EndedBadly({runs}) \/ EndedBadly(0..(runs - 1))

\* Assessment steps alter the target only while their suite is evaluating: as
\* soon as Evaluate is over, an alteration that still stands is one the change
\* manager reports as corruption, one that revert() refused to touch because
\* the Change no longer passes precheck, or one whose Change a step replaced
\* with AddChange while it stood, which nothing reverts and nothing reports.
RestoredAfterEvaluate ==
    pc # "evaluate" =>
        \A n \in Names :
            Standing(n) =>
                \/ corruptedState
                \/ n \in orphaned
                \/ ~precheck(changes[n])

\* A suite judges the payload that this Mobilize loaded for it, also when an
\* earlier Mobilize failed after replacing the payloads of some suites only;
\* and typed steps never judge a payload that is missing or of another type.
JudgesItsPayload ==
    [][\A c \in Ids :
        suite'[c].Result # suite[c].Result
          /\ suite'[c].Result \in {"Passed", "NeedsReview", "Failed"} =>
            LET how == built[c].how
            IN  /\ how.loader # "none" \/ loader # "none" =>
                     suite[c].payload.run = runs
                /\ how.typed => suite[c].payload.type = "T"]_vars

\* Once its change manager is corrupted a suite stops: apart from the first,
\* no control of a suite begins (none of its steps has run, ops = 0) on a
\* target already known to be corrupted.
SuiteHaltsOnCorruption ==
    pc = "evaluate" /\ ops = 0 /\ ctl \in 2..Len(Evaluations(Current))
       /\ suite[Current].changeManager => ~corruptedState

\* The number of timings one evaluation of a suite leaves.
StepsOf(c) ==
    Cardinality({i \in DOMAIN Evaluations(c) :
                    Applies(Evaluations(c)[i]) /\ HasSteps(c, Evaluations(c)[i])})

\* When Mobilize returns without error, what it was to write is there and its
\* own: the results file holds every evaluated suite (SARIF apart), and the
\* benchmark report, which is written whatever --write says, every evaluated
\* suite, every loader that was called with its API calls counted once, and,
\* in a first Mobilize over distinct catalogs, every step that ran, once.
OutputsOfThisRun ==
    Succeeded =>
        /\ config.Write /\ config.Output # "sarif" /\ Evaluation_Suites # <<>> =>
             file = [run |-> runs, suites |-> Evaluation_Suites]
        /\ config.Benchmark =>
             /\ report.run = runs /\ report.whole
             /\ report.calls = Len(report.loaders)
             /\ Len(report.suites) = Len(Evaluation_Suites)
             /\ runs = 1 /\ IsInjective(Evaluation_Suites) =>
                  \A i \in DOMAIN Evaluation_Suites :
                      report.suites[i] = [CatalogId |-> Evaluation_Suites[i],
                                          steps |-> StepsOf(Evaluation_Suites[i])]

----------------------------------------------------------------------------
(* What comments in the code say, and the code does not do.                *)

\* errors.go:12-17: ErrRuntime classifies "failures during plugin execution ...
\* (loader, write, RPC, corruption). Maps to InternalError", ErrDevBug "SDK
\* misuse or malformed plugin data (missing catalogs, unset names, missing
\* assessment steps). Maps to BadUsage."  An error of Evaluate decides the
\* exit code, the more severe of the two when there are both.
EvaluateErrorsReported ==
    pc = "idle" =>
        /\ (\E c \in ToSet(Evaluation_Suites) : suite[c].CorruptedState)
              => exit = "InternalError"
        /\ (\E c \in ToSet(Evaluation_Suites) : built[c].how.steps = {})
              => exit \in {"BadUsage", "InternalError"}
============================================================================
