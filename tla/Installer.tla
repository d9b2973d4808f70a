----------------------------- MODULE Installer -----------------------------
(***************************************************************************)
(* internal/install and internal/manifest: the installer behind            *)
(* `pvtr install`, `pvtr install --from-config`, `pvtr install --local`    *)
(* and the autoinstall preflight of a run.                                 *)
(*                                                                         *)
(* FromConfig starts one goroutine per plugin that the configuration       *)
(* requests and the manifest lacks, at most MaxConcurrent at a time.  Each *)
(* resolves its release at the hub, pulls the index from the registry,     *)
(* reads the pinned signer from the manifest, verifies, writes the binary, *)
(* and adds an entry to the manifest through Update.  The first failure    *)
(* cancels the context of the others.  The process may crash at any moment *)
(* and another command may follow.  Hub and registry are external: the hub *)
(* answers from Details, the registry serves any index under any tag.      *)
(***************************************************************************)
EXTENDS Naturals, FiniteSets

CONSTANTS
    Plugins,        \* coordinates, <namespace>/<plugin_id>
    MaxVersion,     \* releases are 1..MaxVersion, in semver order
    Requests,       \* what services may ask for
    Configs,        \* configurations: the requests of their services
    MaxConcurrent,  \* maxConcurrentInstalls
    Indexes,        \* digests of the indexes the registry may serve
    ConfigOf,       \* the plugin and version in the signed config of an index
    SignersOf,      \* the identities that signed an index
    Details,        \* the answers the hub may give for a plugin
    HubDigest,      \* the digest the hub recorded for a release, or None
    Locals,         \* the names local/<binary> of --local, no coordinates
    Builds,         \* what the file given to --local may contain
    None,           \* no entry, no digest, no identity
    MaxCommands     \* bound: installer commands run one after the other

Versions == 1..MaxVersion
Keys == Plugins \X Versions       \* key(name, version)
Identities == UNION {SignersOf[i] : i \in Indexes}

\* A service asks for a version, or, with 0, for the latest.
Request == [name : Plugins, version : 0..MaxVersion]

\* PluginDetail: namespace and plugin_id, latest_version, the release list, and
\* the publisher's declared signer.  Nothing compares the coordinate of an
\* answer with the one that was asked for.
Detail == [coordinate : Plugins, latest : Versions, listed : SUBSET Versions,
           identity : Identities \cup {None}]

\* manifest.Plugin; the entry of a local install has neither digest nor signer.
Entry == [digest : Indexes \cup {None}, signer : Identities \cup {None}]

\* What a file in the binaries directory may be.
Binaries == Indexes \cup Builds

\* The one version of a local plugin, "local", is written as a number.
LocalVersion == 1

ASSUME ConstantTypes ==
    /\ MaxVersion \in Nat /\ MaxConcurrent \in Nat /\ MaxCommands \in Nat
    /\ Requests \subseteq Request
    /\ Configs \subseteq SUBSET Requests
    /\ ConfigOf \in [Indexes -> Keys]
    /\ Details \in [Plugins -> SUBSET Detail]
    /\ HubDigest \in [Keys -> Indexes \cup {None}]
    /\ None \notin Identities \cup Binaries \cup Entry \cup Requests \cup Keys
    /\ Locals # {} => LocalVersion \in Versions
    /\ Locals \subseteq Plugins /\ \A l \in Locals : Details[l] = {}
    /\ \A n \in Plugins : \A d \in Details[n] : d.coordinate \notin Locals

VARIABLES
    manifest,   \* plugins.json: the entry of each key
    binary,     \* on disk: the index or build the binary of a key comes from
    proc,       \* the process: "idle", "running", "returned", "crashed"
    wanted,     \* the requests of the command it runs
    job,        \* the goroutine of each request
    updateMu,   \* the holder of the manifest lock, None when it is free
    loaded,     \* the manifest its holder read inside the lock
    cancelled,  \* the errgroup's context is cancelled
    err,        \* the command ended with an error
    commands

disk == <<manifest, binary>>
vars == <<disk, proc, wanted, job, updateMu, loaded, cancelled, err, commands>>

----------------------------------------------------------------------------
(* Reading the manifest.                                                   *)

Installed(m, name) == {v \in Versions : m[<<name, v>>] # None}

\* The key of the highest installed version.
Latest(m, name) ==
    IF Installed(m, name) = {} THEN None
    ELSE <<name, CHOOSE v \in Installed(m, name) :
                     \A w \in Installed(m, name) : w <= v>>

Find(m, name) ==
    IF Latest(m, name) = None THEN None ELSE m[Latest(m, name)]

\* Mutant: any installed version satisfies a pinned request.
installedInManifest_AnyVersion(m, r) == Installed(m, r.name) # {}
installedInManifest(m, r) ==
    IF r.version = 0 THEN Latest(m, r.name) # None
                     ELSE m[<<r.name, r.version>>] # None

\* The run-time resolver: the key whose binary is executed, None if there is
\* none.
\* Mutant: a pinned version is ignored.
getBinary_AlwaysLatest(m, r) == Latest(m, r.name)
getBinary(m, r) ==
    IF r.version = 0 THEN Latest(m, r.name)
    ELSE IF m[<<r.name, r.version>>] # None THEN <<r.name, r.version>> ELSE None

----------------------------------------------------------------------------
(* Decisions of one install.                                               *)

\* What is pulled, pinned and recorded is a release of detail.Coordinate(), the
\* plugin the hub answered with.
ResolveRelease(r, d) ==
    <<d.coordinate, IF r.version = 0 THEN d.latest ELSE r.version>>

\* index_digest of the release; a latest version that is missing from the
\* release list is resolved to a stub without one.
IndexDigest(k, d) == IF k[2] \in d.listed THEN HubDigest[k] ELSE None

\* The pulled index must be the one the hub recorded, if it recorded one.
\* Mutant: no cross-check.
CrossCheck_Off(recorded, i) == TRUE
CrossCheck(recorded, i) == recorded = None \/ i = recorded

\* The local pin wins over the identity the hub declares.
\* Mutant: the identity the hub declares is not used.
pinnedIdentityFor_LocalOnly(existing, hubIdentity) ==
    IF existing # None THEN existing.signer ELSE None
\* Mutant: the hub wins over the local pin.
pinnedIdentityFor_HubFirst(existing, hubIdentity) ==
    IF hubIdentity = None /\ existing # None THEN existing.signer
                                             ELSE hubIdentity
pinnedIdentityFor(existing, hubIdentity) ==
    IF existing # None /\ existing.signer # None THEN existing.signer
                                                ELSE hubIdentity

\* IdentityPolicy.check
check(pin, id) == pin = None \/ id = pin

\* The end of the walk: the config names the requested plugin and version.
\* Mutant: the signed config is not compared.
walkVerifiedIndex_AnyPlugin(k, i) == TRUE
walkVerifiedIndex(k, i) == ConfigOf[i] = k

----------------------------------------------------------------------------
(* Goroutines.                                                             *)

Active == {"resolve", "fetch", "pin", "verify", "write", "update", "loaded"}
Stages == Active \cup {"none", "queued", "done", "failed"}

At(s) == [stage |-> s, key |-> None, recorded |-> None, identity |-> None,
          index |-> None, signer |-> None]

Init ==
    /\ manifest = [k \in Keys |-> None]
    /\ binary = [k \in Keys |-> None]
    /\ proc = "idle"
    /\ wanted = {}
    /\ job = [r \in Requests |-> At("none")]
    /\ updateMu = None
    /\ loaded = [k \in Keys |-> None]
    /\ cancelled = FALSE
    /\ err = FALSE
    /\ commands = 0

\* A new process runs one command: the goroutines of todo, out of rs.
Begin(rs, todo) ==
    /\ proc # "running"
    /\ commands < MaxCommands
    /\ commands' = commands + 1
    /\ proc' = "running"
    /\ wanted' = rs
    /\ job' = [r \in Requests |-> At(IF r \in todo THEN "queued" ELSE "none")]
    /\ cancelled' = FALSE
    /\ err' = FALSE
    /\ UNCHANGED <<disk, updateMu, loaded>>

missingFromConfig(rs) == {r \in rs : ~installedInManifest(manifest, r)}

\* FromConfig, up to its loop.
FromConfig(rs) == Begin(rs, missingFromConfig(rs))

\* FromConfig when the manifest cannot be loaded: nothing is started.
FromConfigFails(rs) ==
    /\ proc # "running"
    /\ commands < MaxCommands
    /\ commands' = commands + 1
    /\ proc' = "returned"
    /\ wanted' = rs
    /\ job' = [r \in Requests |-> At("none")]
    /\ cancelled' = FALSE
    /\ err' = TRUE
    /\ UNCHANGED <<disk, updateMu, loaded>>

\* pvtr install <coordinate>: FromStore, whether installed or not.
InstallOne(r) == Begin({r}, {r})

\* pvtr install --local of the file b: no hub, no registry and no verification,
\* on the main goroutine, from writing the file on like any other install.
\* That the file cannot be read is a failure of the write.
Local(r, b) ==
    /\ r.name \in Locals
    /\ r.version \in {0, LocalVersion}
    /\ proc # "running"
    /\ commands < MaxCommands
    /\ commands' = commands + 1
    /\ proc' = "running"
    /\ wanted' = {r}
    /\ job' = [s \in Requests |->
                 IF s = r THEN [At("write") EXCEPT !.key = <<r.name, LocalVersion>>,
                                                   !.index = b]
                          ELSE At("none")]
    /\ cancelled' = FALSE
    /\ err' = FALSE
    /\ UNCHANGED <<disk, updateMu, loaded>>

\* g.Go blocks while MaxConcurrent goroutines are running.
Start(r) ==
    /\ proc = "running"
    /\ job[r].stage = "queued"
    /\ Cardinality({s \in Requests : job[s].stage \in Active}) < MaxConcurrent
    /\ job' = [job EXCEPT ![r].stage = "resolve"]
    /\ UNCHANGED <<disk, proc, wanted, updateMu, loaded, cancelled, err,
                   commands>>

\* parseCoordinate, GetPluginDetails and ResolveRelease.  Here and below, a
\* call to hub or registry under a cancelled context can only fail.
Resolve(r, d) ==
    /\ proc = "running" /\ ~cancelled
    /\ job[r].stage = "resolve"
    /\ r.version # 0 => r.version \in d.listed
    /\ job' = [job EXCEPT ![r] = [@ EXCEPT !.stage = "fetch",
             !.key = ResolveRelease(r, d),
             !.recorded = IndexDigest(ResolveRelease(r, d), d),
             !.identity = d.identity]]
    /\ UNCHANGED <<disk, proc, wanted, updateMu, loaded, cancelled, err,
                   commands>>

\* Discover and PullIndex, then the cross-check.
fetchIndex(r, i) ==
    /\ proc = "running" /\ ~cancelled
    /\ job[r].stage = "fetch"
    /\ CrossCheck(job[r].recorded, i)
    /\ job' = [job EXCEPT ![r] = [@ EXCEPT !.stage = "pin", !.index = i]]
    /\ UNCHANGED <<disk, proc, wanted, updateMu, loaded, cancelled, err,
                   commands>>

\* manifest.Load and pinnedIdentityFor, outside the lock: from here on the
\* goroutine's identity is the one it insists on.
ReadPin(r) ==
    LET pinned == pinnedIdentityFor(Find(manifest, job[r].key[1]), job[r].identity)
    IN  /\ proc = "running"
        /\ job[r].stage = "pin"
        /\ job' = [job EXCEPT ![r] = [@ EXCEPT !.stage = "verify",
                                               !.identity = pinned]]
        /\ UNCHANGED <<disk, proc, wanted, updateMu, loaded, cancelled, err,
                       commands>>

\* verifier.Index: some bundle passes the identity policy, then the walk.
Verify(r, id) ==
    /\ proc = "running" /\ ~cancelled
    /\ job[r].stage = "verify"
    /\ id \in SignersOf[job[r].index]
    /\ check(job[r].identity, id)
    /\ walkVerifiedIndex(job[r].key, job[r].index)
    /\ job' = [job EXCEPT ![r] = [@ EXCEPT !.stage = "write", !.signer = id]]
    /\ UNCHANGED <<disk, proc, wanted, updateMu, loaded, cancelled, err,
                   commands>>

\* writeVerifiedBinary: the rename of WriteFileAtomic is the moment at which
\* the file appears; a crash before it leaves at most a temporary file.
WriteBinary(r) ==
    /\ proc = "running"
    /\ job[r].stage = "write"
    /\ binary' = [binary EXCEPT ![job[r].key] = job[r].index]
    /\ job' = [job EXCEPT ![r].stage = "update"]
    /\ UNCHANGED <<manifest, proc, wanted, updateMu, loaded, cancelled, err,
                   commands>>

\* manifest.Update: Lock, then Load.
\* Mutant: no mutual exclusion.
LockAndLoad_NoMutex(r) ==
    /\ proc = "running"
    /\ job[r].stage = "update"
    /\ updateMu' = r
    /\ loaded' = IF updateMu = None THEN manifest ELSE loaded
    /\ job' = [job EXCEPT ![r].stage = "loaded"]
    /\ UNCHANGED <<disk, proc, wanted, cancelled, err, commands>>

LockAndLoad(r) ==
    /\ proc = "running"
    /\ job[r].stage = "update"
    /\ updateMu = None
    /\ updateMu' = r
    /\ loaded' = manifest
    /\ job' = [job EXCEPT ![r].stage = "loaded"]
    /\ UNCHANGED <<disk, proc, wanted, cancelled, err, commands>>

\* The entry a goroutine adds; that of Local has no digest and no signer.
EntryOf(r) ==
    [digest |-> IF r.name \in Locals THEN None ELSE job[r].index,
     signer |-> job[r].signer]

\* Add to the copy, Save it with one rename, Unlock.
AddAndSave(r) ==
    /\ proc = "running"
    /\ job[r].stage = "loaded"
    /\ manifest' = [loaded EXCEPT ![job[r].key] = EntryOf(r)]
    /\ updateMu' = None
    /\ job' = [job EXCEPT ![r] = At("done")]
    /\ UNCHANGED <<binary, proc, wanted, loaded, cancelled, err, commands>>

\* Every step but the wait for the lock may fail.  The deferred Unlock runs;
\* the errgroup keeps the first error and cancels the context.
\* Mutant: the deferred Unlock is missing.
Fail_KeepsLock(r) ==
    /\ proc = "running"
    /\ job[r].stage \in Active \ {"update"}
    /\ job' = [job EXCEPT ![r] = At("failed")]
    /\ cancelled' = TRUE
    /\ UNCHANGED <<disk, proc, wanted, updateMu, loaded, err, commands>>

Fail(r) ==
    /\ proc = "running"
    /\ job[r].stage \in Active \ {"update"}
    /\ job' = [job EXCEPT ![r] = At("failed")]
    /\ updateMu' = IF updateMu = r THEN None ELSE updateMu
    /\ cancelled' = TRUE
    /\ UNCHANGED <<disk, proc, wanted, loaded, err, commands>>

\* g.Wait
\* Mutant: waits for goroutines that have failed.
Wait_ForSuccess ==
    /\ proc = "running"
    /\ \A r \in Requests : job[r].stage \in {"none", "done"}
    /\ proc' = "returned"
    /\ err' = cancelled
    /\ UNCHANGED <<disk, wanted, job, updateMu, loaded, cancelled, commands>>

Wait ==
    /\ proc = "running"
    /\ \A r \in Requests : job[r].stage \in {"none", "done", "failed"}
    /\ proc' = "returned"
    /\ err' = cancelled
    /\ UNCHANGED <<disk, wanted, job, updateMu, loaded, cancelled, commands>>

\* The process dies: what it had in memory is gone, the lock included.
Crash ==
    /\ proc = "running"
    /\ proc' = "crashed"
    /\ job' = [r \in Requests |-> At("none")]
    /\ updateMu' = None
    /\ UNCHANGED <<disk, wanted, loaded, cancelled, err, commands>>

Step(r) ==
    \/ Start(r)
    \/ \E d \in Details[r.name] : Resolve(r, d)
    \/ \E i \in Indexes : fetchIndex(r, i)
    \/ ReadPin(r)
    \/ \E id \in Identities : Verify(r, id)
    \/ WriteBinary(r)
    \/ LockAndLoad(r)
    \/ AddAndSave(r)
    \/ Fail(r)

Next ==
    \/ \E rs \in Configs : FromConfig(rs)
    \/ \E rs \in Configs : FromConfigFails(rs)
    \/ \E r \in Requests : InstallOne(r)
    \/ \E r \in Requests, b \in Builds : Local(r, b)
    \/ \E r \in Requests : Step(r)
    \/ Wait
    \/ Crash

Spec == Init /\ [][Next]_vars

\* Goroutines are scheduled.  That a call to hub or registry ends is assumed of
\* them: the hub client has a timeout, but registryHTTPClient bounds the
\* handshake and the headers only, and a registry that stalls in a body holds
\* its goroutine, and Wait, for ever.
FairSpec ==
    /\ Spec
    /\ \A r \in Requests : WF_vars(Step(r))
    /\ WF_vars(Wait)

----------------------------------------------------------------------------
(* Properties.                                                             *)

Job == [stage : Stages, key : Keys \cup {None},
        recorded : Indexes \cup {None},
        identity : Identities \cup {None}, index : Binaries \cup {None},
        signer : Identities \cup {None}]

\* The state of installer and disk is well formed: what reaches the manifest
\* is a release of a plugin, never an unresolved version.
TypeOK ==
    /\ manifest \in [Keys -> Entry \cup {None}]
    /\ binary \in [Keys -> Binaries \cup {None}]
    /\ proc \in {"idle", "running", "returned", "crashed"}
    /\ wanted \subseteq Requests
    /\ job \in [Requests -> Job]
    /\ updateMu \in Requests \cup {None}
    /\ loaded \in [Keys -> Entry \cup {None}]
    /\ cancelled \in BOOLEAN
    /\ err \in BOOLEAN
    /\ commands \in 0..MaxCommands

\* plugins.json behaves as the map that ManifestStore describes: each change
\* of the file adds one entry to what is there, so no interleaving of
\* concurrent Updates, failures and crashes loses an entry.
Store == INSTANCE ManifestStore WITH Entries <- Entry, entries <- manifest
ImplementsManifestStore == Store!Spec

\* The answers that name a plugin, whichever was asked for.
AnswersFor(name) ==
    {d \in UNION {Details[n] : n \in Plugins} : d.coordinate = name}

\* What an install of a request may be recorded under: the name, or what the
\* hub answers with.
MayInstall(r) == {r.name} \cup {d.coordinate : d \in Details[r.name]}
Under(r, name) == [name |-> name, version |-> r.version]

\* The hub recorded a digest for the release and lists the release in every
\* answer it gives.
AlwaysRecorded(k) ==
    /\ k[1] \notin Locals /\ HubDigest[k] # None
    /\ \A d \in AnswersFor(k[1]) : k[2] \in d.listed

\* Whatever fails or crashes between writing a binary and recording it, an
\* entry of the manifest has its binary on disk, and where the hub always
\* gives a digest for the release both come from exactly that index.
EntryHasItsBinary ==
    \A k \in Keys : manifest[k] # None =>
        /\ binary[k] # None
        /\ AlwaysRecorded(k) =>
              binary[k] = HubDigest[k] /\ manifest[k].digest = HubDigest[k]

\* No substitution: a binary comes from an index whose signed config names
\* that plugin and version, and an entry records an identity that did sign
\* the index it records (walkVerifiedIndex, step 8).  A local install can put
\* nothing under the coordinate of a published plugin.
SignedForItsKey ==
    \A k \in Keys : k[1] \notin Locals =>
        /\ binary[k] # None => ConfigOf[binary[k]] = k
        /\ manifest[k] # None => /\ ConfigOf[manifest[k].digest] = k
                                 /\ manifest[k].signer
                                      \in SignersOf[manifest[k].digest]

\* What harness.Run builds on ("a run installs what it needs"): when the
\* command returns without error, the run-time resolver finds a binary for
\* everything the command was asked for, also after crashed and repeated
\* installs.  It finds it under the coordinate that the hub answered with: under
\* the name that was asked for where no answer names another plugin, for the
\* code does not compare the two (grcstore.go:60).
InstallsWhatIsRequested ==
    proc = "returned" /\ ~err =>
        \A r \in wanted : \E name \in MayInstall(r) :
            LET k == getBinary(manifest, Under(r, name)) IN
            k # None /\ binary[k] # None

\* A hub that always declares a signer for a plugin seeds the pin: every
\* entry of the plugin carries an identity the hub declared (pin-precedence 2
\* of pullVerifyInstall).
DeclaredSignerPinned ==
    \A k \in Keys :
        LET declared == {d.identity : d \in AnswersFor(k[1])} IN
        manifest[k] # None /\ k[1] \notin Locals /\ None \notin declared =>
            manifest[k].signer \in declared

\* A command ends, or its process crashes, provided that hub and registry
\* answer or break off: a failing goroutine gives back the lock and its slot,
\* and nobody waits for ever for another one.
CommandReturns == proc = "running" ~> proc # "running"

Signers(m, name) == {m[k].signer : k \in {l \in Keys : l[1] = name /\ m[l] # None}}
Alone(name) ==
    \A r, s \in {q \in Requests : name \in MayInstall(q) /\ job[q].stage # "none"} :
        r = s

\* Trust on first use: once a plugin has an entry, no entry that is written
\* later, be it for another version or a reinstall, brings in another signer,
\* whatever the hub declares by then.  (Only a command that installs the
\* plugin twice at once can: see OneSigner.)
PinKept ==
    [][\A name \in Plugins :
          Signers(manifest, name) # {} /\ Alone(name) =>
              Signers(manifest', name) \subseteq Signers(manifest, name)]_vars

\* manifest.go:165-168, of Find: "the pinned signer identity, which is the
\* same across versions".
OneSigner == \A name \in Plugins : Cardinality(Signers(manifest, name)) <= 1
============================================================================
