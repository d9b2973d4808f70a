# A TLA+ verification of the Privateer SDK

Privateer (`pvtr`) runs compliance plugins. A *host* (`command/`,
`command/harness/`, `internal/`) finds plugins at a hub, installs them from an
OCI registry, runs them as child processes over net/rpc, and publishes new
ones. A *plugin* is built on `pluginkit/`: it registers evaluation suites and
hands them to an orchestrator, which evaluates controls against a target,
writes results, and turns them into an exit code. This directory models the
parts of both that keep state, fail half way, or run concurrently.

Files: one module per component, `MC_*.tla` with the constants of its
TLC instance where a `.cfg` cannot express them, `*.cfg` for the runs,
`*_proofs.tla` for theorems checked by TLAPS. `PROJECT.json` maps every
definition to the lines it models.

    tlc -config Installer.cfg MC_Installer     # model-check
    tlapm Installer_proofs.tla                 # check the proofs

## The system

| Component | State | Operations | What makes it correct |
|---|---|---|---|
| Change manager (`pluginkit/change.go`) | the changes a plugin made to its target, each applied, reverted or failed; `Allowed`; `CorruptedState` | `Allow`, `AddChange`, `AddFunctions`, `Apply`, `Revert`, `RevertAll` | a registered change tells whether its alteration stands, or is flagged; none is applied twice; `RevertAll` undoes what it may. (Registering a name again forgets an alteration: see below) |
| Registration (`get_plugin_catalogs.go`, `evaluation_orchestrator.go`, `typed_steps.go`, `publish_manifest.go`) | the loaded catalogs, shared between suites; the suites, in order | `AddReferenceCatalogs` with a goroutine per file, `AddEvaluationSuite` and its variants, imports, `PublishManifest` | the published manifest lists each catalog's own controls; a suite has what its catalog imports |
| Orchestrator and suites (`evaluation_orchestrator.go`, `evaluation_suite.go`, `exitcode.go`, `benchmark.go`) | loaders, payloads and results; the results file and the benchmark report | `AddLoader`, `AddChangeManager`, `Mobilize`, `Evaluate`, `WriteResults`, `finalizeBenchmark`, `ExitCodeFor` | the exit code tells what the controls found; the target is restored or reported; outputs are this run's |
| Configuration (`config/`) | the settings a plugin runs with | `NewConfig`, `SetupLogging` | a service's own policy wins, a bad configuration evaluates nothing |
| Installer (`internal/install`) | goroutines, the manifest lock, binaries on disk | `FromStore`, `FromConfig`, `Local` | manifest and binaries agree; only what was signed for the name and version is installed; the signer is pinned |
| Plugin manifest (`internal/manifest`) | `plugins.json` | `Load`, `Update`, `Add`, `Save`, `Find`, `FindVersion`, `Latest` | no entry is lost; `Latest` is the highest version |
| Run harness (`command/run.go`, `list.go`, `harness.go`, `run_preflight.go`) | resolved binaries, live plugin processes, the exit code so far | preflight, plan, the loop over plugins | nothing runs unless everything is there; the worst outcome is reported; no process stays |
| Benchmark command (`command/harness/benchmark.go`) | the report in the write directory | clear, run the plugin, read and render | what is rendered is this run's report |
| Index verification (`internal/verify`, `internal/oci/pull.go`) | bundles found, position in the walk | `PullIndex`, `Verifier.Index`, `walkVerifiedIndex` | what is accepted was signed by an accepted signer; a signature that is there is found |
| Publishing (`internal/publish`, `internal/oci`) | the registry's blobs, manifests and tags; signatures; the hub's listing | `Publish`: check, push, tag, `SigningIDToken`, sign, attach, sync | the registry never refers to what it lacks; "Published" means listed; nobody waits for a sign-in that cannot happen |
| Credentials (`internal/auth`) | `credentials.json`; polling state of the device flow | `Login`, `Logout`, `BearerToken`, `PollForToken` | tokens handed out are fresh; logout forgets, unless another process is about to write; polling ends |

How they interact. A run calls the installer in-process (preflight) and then
reads the manifest the installer wrote; both work on one binaries directory.
The installer calls verification for each index and reads and writes the pinned
signer through the manifest. Publishing asks the credential store for a bearer
token. Within a plugin, the orchestrator evaluates suites, and a suite's steps
call the change manager attached to it. A plugin's exit code travels back to
the harness over RPC and is merged there.

What is hard. Installs run in goroutines that share a file behind an in-process
lock, read a pin long before they record it, cancel each other, and may be
killed between writing a binary and recording it. Change functions fail half
way. Catalogs are loaded by goroutines and shared by suites that import from each
other. `Mobilize` is called again on state that is only partly reset. Another `pvtr`
process may rewrite the manifest under a run. Registry
and hub calls of a publish fail at any point and are repeated. Refresh tokens
are consumed by a request whose answer may be lost. `hazards` in `PROJECT.json`
lists these points with their lines and the properties that watch them.

## Modules

**ChangeManager** - `change.go`, operation by operation. Variables are the
fields of `ChangeManager` and `Change`; three observers record which registered change's
alteration stands on the target (`altered`), under which names an alteration stands whose
`Change` was overwritten when the name was registered again (`orphaned`), and which plugin
function was called last. The properties speak of both (`Standing`). The plugin's apply and revert
functions succeed, or fail with the target altered or not.

**ChangeSet** - the abstract specification of the change manager: a registered change is
new, standing, undone or damaged, with the moves between these and what each does to the
target. A change that was undone may be undone again: `revert` asks only whether it was
ever applied.

**Registration** - what a plugin does before `Mobilize`. `AddReferenceCatalogs` starts
a goroutine per file (`readYAMLFile`, which may fail or panic and be recovered) and
`AddCatalogs` is what follows `wg.Wait()`: nothing of a directory with a file in error,
the files before an empty or duplicate id otherwise. `addEvaluationSuite` copies a catalog
that imports; the mutant that appends in place is what `ManifestListsOwnControls`
is for. `AddEvaluationSuiteForAllCatalogs` is a loop over a map, so it registers catalog by
catalog, in any order (`NextCatalog`). Where the code appends some elements of a list to
another, `Picked` says which positions are taken; so the result can be reasoned about
without recursion. `PublishManifest` is a function of the state. A control has one requirement or none: how the results of
several become a control's is gemara's business.

**Orchestrator** (extends ChangeManager and Registration) - the life of a plugin process:
registration, `AddLoader`, `Mobilize` from configuration to return, `Evaluate` control by
control, `WriteResults`, `finalizeBenchmark`, `ExitCodeFor`. `NewConfig` computes the
configuration from what viper has read (`Settings`); `SetupLogging` may panic, and the
process is then `"dead"`. Loaders fail one by one (`loadPayload(k)`), with the payloads
before the k-th already replaced. A payload is the Mobilize that loaded it and its type;
typed steps are not called on one of another type. A control's steps are the operations
of ChangeManager, at most `MaxOps` of them. Facts of the code that shape the model: the
configuration is read by the first `Mobilize` and kept; a suite's `Result` and its
step timings are never reset; a suite can be given a change manager only after a
`Mobilize`, through the exported `Evaluation_Suites`; `Mobilize` logs what `Evaluate`
returns and goes on. The observer `bad` keeps, for each suite, the calls of `Mobilize` in
which one of its controls ended badly. Abstracted: an unset plugin name takes the path of an unset service
name; the trimming and lower-casing of the output name; durations.

**ManifestStore** - the abstract specification of `plugins.json`: a map to
which each step adds or replaces one entry.

**Installer** - commands follow one another on one disk. `FromConfig`,
`InstallOne` and `Local` begin one, `Start` obeys the errgroup's limit, and each goroutine
goes through `Resolve`, `fetchIndex`, `ReadPin`, `Verify`, `WriteBinary`,
`LockAndLoad` and `AddAndSave`; `Fail` is a failure at any of these points and
cancels the others; `Crash` kills the process anywhere. The hub answers any member
of `Details`, which may name another plugin than the one asked for: pull, pin, binary and
entry all go by the coordinate in the answer (`ResolveRelease`), as in
`pullVerifyInstall`. `MayInstall` collects the names a request may end up under. The
registry serves any index under any tag. A local build goes
straight to `WriteBinary` under a name of its own, with an entry that has neither digest
nor signer. Releases are numbers:
their semver order is total here, and LatestVersion looks at the other cases.

**HarnessRun** (composes Installer) - installs, runs and benchmarks share the disk. A run is
preflight (the installer's own actions), `ResolveService` for one service after the
other, each with a manifest loaded anew, `Plan`, then per service `StartProcess`,
`Dispense`, `StartPlugin`, `RunEnd`. Services come out of a Go map, so in any order.
A service may ask for no plugin at all. `pvtr benchmark` clears the report, starts one
plugin, and reads what it wrote, wrote partly or did not write. Another `pvtr` process,
with a lock of its own, may at any time write a binary, load the manifest (`OtherLoads`)
and later save its copy with one entry more (`OtherSaves`), losing what came between; the
observer `lost` tells whether an entry went that way since the command began. Crashes are those of the installer; a
crash of the loop itself leaves nothing on disk that an install would not.

**LatestVersion** - `Manifest.Latest` as the scan it is: `Visit` in any order,
keeping the best so far by `compareVersions`, which uses semver when both
versions are valid and compares strings otherwise. Version strings enter through
two rankings, `SemVer` (0 when not valid) and `Lexical`.

**DevicePoll** - `StartDeviceFlow` and `PollForToken`, one unit of time being five
seconds. Deadline check, wait, request, each request taking up to the HTTP timeout.

**Credentials** - processes that log in, log out and ask for a bearer token, at the same
time and without a lock. `Put` and `Delete` are a `Load` and a `Save` of the whole file. Credentials are
stored under the issuer that the metadata document names and looked up under the one the
hub advertises (`MetaIssuer`). The observer `settled` has the issuers whose entry was last
written while no other process was on its way to write over it (`Overlaps`). One unit is thirty
seconds: the renewal window is two, the floor three. Response latency is ignored.
A refresh answer without a new refresh token drops the old one, as in the code.

**Publish** - publishers against two registries (the hub's, and that of
`--registry`). `Begin` or `Refuse` by the local checks: metadata and artifact list can be
read, every binary has its entrypoint and its file, carries the marker, and so on. The
marker scan, the execution of the host's binary and `AssembleIndex` read the dist directory
one after the other (`pluginmarker.go:23`, `index.go:140`); that it does not change
meanwhile is assumed, and makes them one step. Then `Authorize`, `PushTo`
item by item, `Tag`, the signing identity, the two uploads of the signature, `Sync`.
Within a phase items are pushed in one order, an arbitrary one. The environment of a
publisher decides where its signing identity comes from (`SigningIDToken`); the browser
is a stage of its own that ends when somebody completes the sign-in. A failed call is `Fail`; one that
took effect first is the call and then `Fail`. The hub checks what the code relies
on: what the tag names is signed.

**SignedReleases** - the abstract specification of publishing: a release becomes available
as a whole, is signed, is listed under its version, and nothing is taken away.

**Verify** - one verification. The registry's list of referrers is any sequence of
broken, empty, invalid and signed ones; the signed tree and the bytes served for
each of its pieces are chosen as they are fetched. Whether a bundle verifies is
up to Sigstore.

## Runs

| Run | Instance | What it shows |
|---|---|---|
| `change_manager` | two names, an empty and a non-empty target, re-registration allowed; unbounded sequences | A registered change tells whether its own alteration stands, or is flagged; `RevertAll` undoes or flags all but what fails its precheck and what a re-registration has orphaned; functions of a failed change are not called again; changes live as ChangeSet describes, so none is applied twice or before `Allow`. 19,346 states |
| `mobilize` | three directories (imports, a duplicate id, a file in error), two ways to register a suite, 14 settings (five wrong in one way each, an invasive one, output formats, repeated and unknown catalogs, benchmarks); two `Mobilize`s; controls that pass or fail, with two change manager calls each, re-registration included | The manifest lists own controls, suites have their imports; where no `Evaluate` failed, the exit code is `TestFail` when a control of this call ended badly, and only when one did in this or an earlier call; after `Evaluate` a standing alteration is flagged, failed its precheck or was orphaned by a re-registration; a suite judges the payload of this call, typed steps one of their type; a suite stops once corrupted; results and benchmark report are complete and this call's. 925,414 states |
| `evaluate_errors` | as above | *Violated*: an error of `Evaluate` does not reach the exit code |
| `install` | two plugins of the store in two versions and a local one, four requests, two goroutines, three commands; the hub may answer for one plugin with the other | Entries have their binaries, and where the hub recorded a digest, exactly that index; binaries and entries are signed for their name and version; success means every request resolves, under its name or the one the hub answered with; declared signers and pins hold; `plugins.json` implements ManifestStore; commands end, if hub and registry answer. 161,159 states |
| `signer_race` | one plugin, two versions at once, nothing declared | *Violated*: two signers for one plugin |
| `run` | six services of which two share a request, one asks for a local plugin, one for nothing and one for a name that the hub answers with another plugin, in six mixtures; a run or benchmark and another command; one install of either version by another process at any time | With autoinstall all run, unless a save of the other process loses an entry in the middle or the hub answers with another plugin; the worst code wins; at most one plugin lives and none stays; nothing runs unless all were found, and what runs is what was asked; a benchmark shows its own report; runs end, if hub, registry and plugins answer. 249,166 states |
| `latest_version` | six strings: equal ranks, two that semver rejects, lexical order against semver order | Among valid versions the answer is a highest one; it is the same each time when versions are strictly ordered |
| `device_poll` | codes of 0 to 30 s and the default, intervals 0 to 10 s, requests up to 10 s | Polling ends; at most one request goes out after the deadline |
| `credentials` | two processes, three issuers of which one's metadata names another, two tokens of 90 s, a minute and a half | Tokens of 90 s or more have the renewal window left; a consumed refresh token on disk was reported, or its process was killed; logout forgets and login serves publish. The last three except entries written while another process was about to write over them. 2,216,436 states |
| `publish` | two owners, one at a terminal and one in CI, and a stranger; six builds, three modes, five environments, two publishes | Registries are closed under references; unpublishable builds stay off the hub's registry; releases become available, signed and listed as SignedReleases describes; "Published" means this build is listed and tagged, when no other publisher is beside it; a publish in CI waits for nobody, and comes back if registry and Sigstore answer. 33,469 states |
| `verify_index` | four referrers, limit three, two identities, every tree | What is accepted was signed, digest by digest, by an accepted signer; an acceptable signature within the limit is found |
| `verify_flooded` | the same | *Violated*: with junk up to the limit a signed index is reported as unsigned |

Bounds. Two `Mobilize`s are needed for what is carried from one to the next, and a
third meets nothing new: results only get worse, payloads are replaced or not. Two
change manager calls per control allow an apply and a failed revert, and with two
controls any four-step history. Three installer commands allow an install, a crashed
or failed reinstall, and a repair; two goroutines race for the lock and the pin, and
the third request waits for a slot. Two publishes interleave at every point, or
one meets what another left. `maxSignatureReferrers` is 3 for 32: what matters is that
the list can be longer. In `device_poll` a minute stands for the default expiry of a
code, and intervals stop growing at half a minute. For safety the theorems
remove all these bounds. In `run` one foreign save before or during a run is enough:
it takes entries away, or does not. In `credentials` two processes meet in every order of
their loads, saves and refreshes, with one token to log in and one to refresh. In `mobilize` one call of `AddReferenceCatalogs` and
two suites give both registration orders of an importing and an imported catalog; a control
passes or fails. The
instances are kept to what a slow machine checks in a few minutes.

Every module states its type invariant, and each of them is proved.

Deadlock checking is off where the system may stop: a plugin that calls `Mobilize` no
more, a user who gives no more commands, a poll or a verification that has its result.

Fairness. Goroutines of an install are scheduled: weak fairness of each and of `Wait`;
nothing is assumed of commands being given. That their calls end is in part an assumption
on the other side. Calls to the hub have a timeout. The registry's client bounds the
handshake and the wait for the headers, and has "No overall request timeout"
(`pull.go:99`): a registry that stalls in the middle of a body holds its goroutine and
`Wait` for ever, although "a stalled registry must fail, not hang" (`pull.go:98`). So
`CommandReturns` and `RunEnds` say that the program itself makes nobody wait for ever,
with a lock or a slot not given back, as long as hub and registry answer or break off. A run's loop is
sequential: weak fairness of its steps; there is no timeout on a plugin's `Start`, so that
plugins answer is an assumption on plugins. Publishers that are not killed go on: weak
fairness of `Step`, again with the assumption that registry and Sigstore answer:
`--registry` uses a client without any timeout (`push.go:132`), uploads to the hub's
registry are bounded as pulls are, and the calls to Fulcio and Rekor are given no deadline.
Completing a browser sign-in is not part of `Step`, nor is `Fail`.
The poll's timer fires and its requests end: weak fairness of the loop, not of `Cancel`.

## Theorems

Proved by TLAPS for every value of the constants, under the named `ASSUME`s of the
modules, which TLC evaluates in the runs. Every invariant and every action property that a
run checks is also a theorem. Each component has one inductive invariant; the theorems
about it are its consequences.

What is assumed. Mostly that constants have their types. Beyond that: `None` is none of the
values it is told from (keys, entries, credentials, exit codes, lists of timings); files in a directory,
controls and imports come as sequences; the plugin gives `AddLoader` a loader, not nil;
a manifest's digest determines what it refers to, and no blob is a
manifest; the hub has no
details for a local plugin, and the other process installs no index under a local name;
the limit on referrers is not zero.

*Orchestrator_proofs*, first for ChangeManager by itself: `CMTypeCorrect`; `Tracked`
(`AlterationsTracked`), inductive together with the type invariant and `OrphanInv` (a change
is orphaned only where names may be registered again), from two lemmas about
what `apply` and `revert` do to one `Change`; `Settles` and `LeftAlone`, action properties,
from the type invariant and a lemma on which function a step calls; and
`ChangeSetRefined` (`CMSpec => ImplementsChangeSet`): the phase of a change is read off
its `Applied`, `Reverted` and `CorruptedState` fields, and `AlterationsTracked` supplies
what a step needs, that a damaged change has its error and its manager the flag. `EmbedsManager`
shows that the whole plugin process, seen from the change manager, is one of the manager's
behaviours (`Spec => CMSpec`); so all of this holds of `Mobilize` too
(`ManagedWithinPlugin`). Then for the whole plugin process, with `OrchInv`. Two lemmas (`NextIsCM`,
`NextIsReg`) say that a step is, for the change manager and for the registration, one of
their own steps or none, so what is proved of the parts carries over. The parts of
`OrchInv` and what they are needed for:

- `LoadInv`, `CatalogInv`: a directory with a failed file reports it and leaves nothing, so
  a loaded catalog is a file of a directory that was read whole (`OwnControlsListed`).
  `TogetherInv` adds that, unless a load failed, the rest of the directory is loaded beside it;
  then every import from there is found (`ImportsPresent`).
- `RestoreInv`: the target is restored, or its state reported, whenever no suite with a
  change manager is evaluating. Stated for `pc # "evaluate"` only it would not be inductive:
  a suite without a manager must leave things as it met them (`TargetRestored`).
- `ResultInv`: a suite's aggregate is bad exactly when one of its controls ended badly in
  some call; `ExitInv` says the same of the exit code of a call (`ExitTellsControls`). `RunningInv`: `Evaluate` runs for a registered suite.
  `HaltsOnCorruption` is inductive beside it.
- `PayloadInv`: past the loaders every suite has this call's payload (`OwnPayloadJudged`).
- `FileInv`: what `WriteResults` wrote stays until `Mobilize` returns. `BenchmarkInv`: as
  many loaders were timed as payloads are asked. `FirstInv`: in a first `Mobilize` no
  change manager is attached, so the loop goes through all controls, and a suite has been
  timed once for each control before the current one whose steps ran. `EvaluatedInv`: what
  was evaluated is registered, so later registrations do not change its steps. Together
  they give `OwnOutputs`.

The counting in `ImportsPresent` and `OwnOutputs` rests on one argument about `Picked`:
in a finite set of positions each has a rank of its own, ranks stay within the cardinality,
and an injection between finite sets of one size is onto.

*Installer_proofs.* The inductive invariant `IInv` is `TypeOK`, `LockInv`, `JobInv` and
`DiskInv`. `LockInv`: whoever is between `LockAndLoad` and `AddAndSave` holds the lock,
and what it loaded is the manifest; without it nothing says that saving the copy keeps
what others added, so it carries `Refinement` (`Spec => ImplementsManifestStore`).
`JobInv`: what a goroutine carries at each stage was cross-checked and verified, and from
`WriteBinary` on its binary is on disk; without it the entry written at the end could be
anything. `DiskInv` says the same of disk and manifest; from it follow
`EntriesHaveBinaries` and `NoSubstitution`. `DeclaredPinned` adds an invariant on the
identities that goroutines carry when the hub always declares one. `RequestsServed` adds
`ServedInv`: a request has a goroutine at work, one that failed and cancelled the others,
or is in the manifest by now, under one of the names in `MayInstall` (`Served`). `TrustOnFirstUse` (`PinKept`) adds `SignerInv` and `PinInv`:
a goroutine that is alone for its plugin insists on a signer of the entries there are, so
what it adds has one of those. The one fact about
data that is needed, that a non-empty set of releases has a highest, is proved from the
library's theorem that a set of finite sets has a minimal member.

*HarnessRun_proofs.* `HarnessInv` is `DiskShared`, `LoopInv`, `CodeInv`, `OnceInv`,
`BenchInv` and `NeedInv`. `DiskShared` is what is left of the installer's invariant when a
second process saves copies of the manifest at will: `LockInv` does not hold any more, but
every copy, on disk or in memory, still has entries for binaries only. The steps of the
installer are taken over through `AnyNext`, which allows any set of requests. `LoopInv`: one
live plugin exactly while a client is open, all services resolved before the loop
(`NoneLeftBehind`, `AskedIsRun`). `CodeInv`: the exit code is the worst so far, whatever
the order (`WorstIsReported`). `BenchInv`: a report that is there was written after it was
cleared (`OwnReportShown`). `NeedInv`: until a save of the other process
loses an entry, `ServedInv` holds, and so does `CopyServed`: the copy that the holder of the
mutex is about to save has what the command has served so far. `LockInv` cannot be asked
for, since the file may have changed under that copy. `OnceInv` says what remains to be run
(`NeedsAreInstalled`).

*Publish_proofs.* `PublishInv`: `Progress` says what a publisher has left in the registry
by the stage it is in; `ContentClosed`, `TagsFit` and `SignedClosed` that what is there
leads only to what is there, whatever other publishers and failures do. Content is never
removed, which is why one publisher's `Progress` survives the others' steps. From it
`AlwaysClosed`, `NothingElseLands`, `AlwaysComplete`; with `AloneInv` (a tag stays where
a publisher alone has put it) the action property `PublishedTellsTheTruth`.
`ReleasesRefined` (`Spec => ImplementsReleases`) maps `available` to the builds whose index,
manifests and blobs are all in the hub's registry. Seen so, a push is one step, that of
`PushIndex`: a late blob or manifest completes no build, because in a closed registry a
build whose index is there is complete already. `AttachReferrer` and `Sync` are the other
two steps, and everything else stutters. `AlwaysComplete` (`ListedIsComplete`) spells out
for the listed builds what that means in the registry.

*Verify_proofs.* `VerifyInv`: by stage, which referrers have been looked at and that all
their bundles are in the list (`FoundUpTo`), which bundles were rejected, and how far the
walk has come (`WalkedTo`). `FailsClosed` and `NoReferrerHidesAnother`, for any limit and
any number of referrers.

*Credentials_proofs.* Everything for any number of processes, and without an assumption on
what metadata documents name. `CredInv`: credentials on disk and in
memory are those of a token the server issued, and expire with it (`AlwaysFresh`).
`StoreInv` adds what processes may do to each other: credentials that are yet to be stored
are in one hand only (`Unused`), whoever is about to write the file has the entry of a
settled issuer as it stands (`CopiesAgree`), and nobody refreshes for a settled issuer that
was logged out of (`NoneRefreshed`). From it `ConsumedAlwaysVisible`,
`LogoutAlwaysForgets` and `LoginAlwaysServes`. The exceptions are in the properties, where
the code really fails (see below).

*LatestVersion_proofs.* `Highest`: nothing visited so far exceeds the best so far.
`Deterministic`: for ordered versions the best so far beats all others visited, under an
order shown to be asymmetric and transitive, so two complete scans agree.

*DevicePoll_proofs.* `TypeCorrect` and `OneLatePoll`: a late poll is counted only after
the deadline, and then the next check ends the loop.

Model-checked only: liveness under fairness (`CommandReturns`,
`RunEnds`, `PollReturns`, `UnattendedPublishReturns`), which is outside the prover's reach.
The bounds above matter for these four.

## Where code and comments disagree

Three disagreements have a run. Errors of `Evaluate` do not reach the exit code
(`errors.go:12-17`). Two first installs of a plugin in one command may pin two signers
(`manifest.go:167`): the pin is read before verification, outside the lock. A referrer
list with junk up to the limit makes an index look unsigned (`pull.go:244`): the
truncation flag is looked at only when some bundle was found.

Others were met while modelling; the properties above state their limits:

- `revert()` refuses a change whose target name is empty, which `Apply("")` has stored,
  and sets no `CorruptedState` (`change.go:138`): the exception of `RevertAllSettles`
  and `RestoredAfterEvaluate`.
- `AddChange` under a registered name replaces the `Change` without looking at it
  (`change.go:52-57`). If it was applied, its alteration stands, and neither `RevertAll`
  ("reverts all changes managed by the change manager", `change.go:94`) nor
  `CorruptedState` ("true if any testSet failed to revert at the end of the evaluation",
  `evaluation_suite.go:25`) knows of it: the exception `orphaned` of `RevertAllSettles` and `RestoredAfterEvaluate`,
  and `ReAdd` of `AlterationsTracked`.
- A suite's `Result` is never reset (`evaluation_suite.go:92`), although it is "Passed if
  all evaluations in the suite passed" (`evaluation_suite.go:19`): a second `Mobilize` whose
  controls all pass exits with `TestFail` if one failed in the first.
  `ExitReflectsControls` allows for it.
- After a corrupted suite `Mobilize` evaluates the next one (`evaluation_orchestrator.go:285`),
  although the error says "Halting" (`errors.go:23`): `SuiteHaltsOnCorruption` is about
  one suite.
- `stepTimings` is never reset: a catalog requested twice, or a second `Mobilize`, reports
  its earlier steps again (`evaluation_suite.go`, against `benchmark.go`, where a timing
  "times one executed assessment step"): `OutputsOfThisRun` counts steps for a first `Mobilize` over
  distinct catalogs.
- Catalogs without a namespace are "assumed to live under Publisher"
  (`evaluation_orchestrator.go:43`), but `PublishManifest` falls back to the catalog's
  author and never to the plugin's publisher: `Namespace` follows the code.
- `AddLoader(nil)` after a loader would leave the earlier payload in `v.Payload`, which the
  benchmark's count of API calls then includes (`benchmark.go`, `loadPayload`): loaders are
  taken not to be nil.
- "If a catalog imports another, both should be in the same directory"
  (`get_plugin_catalogs.go:20`), but one file may be in two directories: `SuiteHasItsImports`
  is about a directory that has the catalog.
- A SARIF conversion error leaves suites out of the file silently
  (`evaluation_orchestrator.go:412`): `OutputsOfThisRun` excepts SARIF.
- A process killed while a release is reinstalled leaves the old digest beside the new
  binary (`grcstore.go:142`): `EntryHasItsBinary` claims equal digests only for releases
  whose digest the hub recorded.
- `Latest` depends on the order of the map when two versions rank equal or valid and
  invalid ones mix (`manifest.go:193`, against the comment at 168): hence `Ordered`.
- The coordinate in the hub's answer is not compared with the one that was asked for
  (`grcstore.go:60`): an install may succeed and leave nothing under the requested name,
  against "a run installs what it needs" (`harness.go:113-115`). The properties say so:
  `InstallsWhatIsRequested` looks under the names in `MayInstall`, `RunInstallsWhatItNeeds`
  is about services for which the hub answers as asked.
- Two processes can undo each other's changes of `credentials.json` (`store.go:110`), and a
  refresh that has begun before a logout stores its credentials after it: a logout
  ("forgets stored credentials", `login.go:53`) or a login is forgotten. `LogoutForgets`,
  `LoginServesPublish` and `ConsumedIsVisible` speak of settled issuers for this reason.
- A token that lives less than the floor is handed out too late (`oidc.go:239`): the
  premise of `BearerFresh`.
- A metadata document that names another issuer makes login useless to publish
  (`login.go:47`, `login.go:78`), `pvtr logout` leaves such credentials where they are, and
  a refresh through it stores the new credentials elsewhere, while the consumed token
  stays, unreported. `LoginServesPublish` is about the issuer the document names, and
  `ConsumedIsVisible` excepts these issuers.
- `Sync` names a tag (`sync.go:38`): `PublishedIsListed` is about a publisher alone. And
  `--no-sync` over a listed version moves the tag, after which installs fail their
  cross-check until the next sync.

## What is not modelled

The commands of a second `pvtr` process other than one install (and, in Credentials, any
login, logout and publish). A dist directory that changes while it is published. Removal from the manifest, which no command calls, and the
migration of its old format. How viper, cobra and go-plugin read values and wire commands.
`PVTR_TOKEN`, which bypasses the credential store. The browsing of the hub, the figures
and the rendering of the benchmark, printing. Plugin generation expands templates into
files, once, without protocol. The AI client sends one request per question, keeps no
state, retries nothing and shares nothing between calls; its code is formatting and
classification of answers, with nothing to interleave. Sigstore, the hub, the registry,
the auth server, gemara and the plugin's own functions are external and modelled from how
the code uses them.

## Plan

Done, in this order: ChangeManager, Orchestrator, ManifestStore and Installer, HarnessRun,
LatestVersion, DevicePoll, Credentials, Publish, Verify, with the first theorems for the
core (change manager, installer, latest version, polling); then local installs, the
benchmark command and a second process, Registration with catalog loading, imports and
typed steps, the configuration, and the signing identity.

Then the theorems for all components, until every safety property of a run was one, and
the abstract specifications ChangeSet and SignedReleases with their refinements.

Next, by importance:

1. Publish and Installer over one registry, so that an index that was pushed, listed and
   pulled is followed from end to end.
