------------------------------ MODULE Publish ------------------------------
(***************************************************************************)
(* internal/publish and the producing half of internal/oci: `pvtr publish` *)
(* checks a build, assembles an image index, pushes it, signs it, and asks *)
(* the hub to ingest it.  Publishers run concurrently against one          *)
(* registry; any call may fail and any publisher may be killed, and        *)
(* publish again.  Content is named by its digest: an index is named by    *)
(* the build it was assembled from.  Registry, hub and Sigstore are        *)
(* external.                                                               *)
(***************************************************************************)
EXTENDS Naturals

CONSTANTS
    Publishers,  \* pvtr processes
    Owners,      \* those whose account owns the plugin's namespace
    Builds,      \* GoReleaser dist directories of one plugin
    Info,        \* what a build contains
    Environment, \* the environments a publisher may run in
    Modes,       \* how they publish: see below
    Versions,
    Items,       \* digests of config blobs, binaries and child manifests
    Host,        \* the platform of the publisher's machine
    MaxPublishes,\* bound: publishes that go past the local checks
    None

Registries == {"hub", "override"}

\* metadata: metadata.json can be read and has a version; listed: artifacts.json
\* can be read; artifacts: its binaries, whether each names an entrypoint and
\* which of the paths it may be at exist.  children: one per platform of these,
\* with the digests of its config, its binary and the manifest over both; marked:
\* the binaries that can be read and carry the handshake marker; contract: what
\* ValidateForPublish asks of `evaluates` holds.
\* Modes: "sync" is the whole flow, "push" --no-sync, "override" --registry.
\* An environment: what SIGSTORE_ID_TOKEN holds (nothing, a token for Fulcio,
\* anything else), whether GitHub Actions offers a token, whether stdin is a
\* terminal.
ASSUME BuildInfo ==
    /\ Environment \in [Publishers ->
         SUBSET [token : {"none", "sigstore", "other"},
                 actions : BOOLEAN, terminal : BOOLEAN]]
    /\ Modes \subseteq {"sync", "push", "override"}
    /\ Owners \subseteq Publishers
    /\ MaxPublishes \in Nat
    /\ None \notin Builds
    /\ Info \in [Builds ->
         [version : Versions, metadata : BOOLEAN, listed : BOOLEAN,
          artifacts : SUBSET [entrypoint : BOOLEAN,
                              at : SUBSET {"absolute", "original", "moved"}],
          children : SUBSET [platform : STRING, config : Items,
                             binary : Items, manifest : Items],
          marked : SUBSET Items, coordinate : BOOLEAN,
          license : {"none", "unknown", "spdx"}, contract : BOOLEAN]]
    \* a manifest's digest determines what it refers to, and the bytes of a
    \* config, a binary, a manifest and an index are never the same
    /\ Builds \cap Items = {}
    /\ \A b, c \in Builds : \A x \in Info[b].children, y \in Info[c].children :
         /\ x.manifest = y.manifest => x.config = y.config /\ x.binary = y.binary
         /\ x.manifest \notin {y.config, y.binary}

VARIABLES
    stage,    \* where each publisher is in Publish
    build,    \* what it publishes
    mode,     \* how
    todo,     \* what PushTo's current loop has still to push
    content,  \* registries: the blobs, manifests and indexes they hold
    tag,      \* registries: version -> index
    bundles,  \* the hub's registry: indexes that a signature layer was made for
    signed,   \* the hub's registry: indexes that have a signature referrer
    hub,      \* the hub: version -> the index it lists
    begun,    \* observer: pushes begun so far
    alone,    \* observer: the last to begin has had nobody beside it
    returned  \* observer: what Publish returned, if the last step was its end

vars == <<stage, build, mode, todo, content, tag, bundles, signed, hub,
          begun, alone, returned>>
registry == <<content, tag, bundles, signed, hub>>

Init ==
    /\ stage = [p \in Publishers |-> "idle"]
    /\ build = [p \in Publishers |-> None]
    /\ mode = [p \in Publishers |-> "sync"]
    /\ todo = [p \in Publishers |-> {}]
    /\ content = [r \in Registries |-> {}]
    /\ tag = [r \in Registries |-> [v \in Versions |-> None]]
    /\ bundles = {}
    /\ signed = {}
    /\ hub = [v \in Versions |-> None]
    /\ begun = 0
    /\ alone = TRUE
    /\ returned = "no"

(***************************************************************************)
(* The local checks, and the index as AssembleIndex builds it: blobs are   *)
(* deduplicated by digest, as a set is.                                    *)
(***************************************************************************)
loadMetadata(b) == Info[b].metadata
loadArtifacts(b) == Info[b].listed
\* An absolute path is taken as it is; a relative one is looked for beside the
\* dist directory, then in it.
resolveBinaryPath(a) == a.at # {}
resolvePlatformBinaries(b) ==
    \A a \in Info[b].artifacts : a.entrypoint /\ resolveBinaryPath(a)
LoadGoReleaserBuild(b) ==
    /\ loadMetadata(b) /\ loadArtifacts(b)
    /\ resolvePlatformBinaries(b)
    /\ Info[b].children # {}
ValidatePluginBinaries(b) ==
    \A c \in Info[b].children : c.binary \in Info[b].marked
execPublishManifest(b) ==
    Info[b].coordinate /\ \E c \in Info[b].children : c.platform = Host

\* Mutant: the contract is checked only when the hub is to ingest the index.
ValidateForPublish_OnSyncOnly(b, m) ==
    m = "sync" => Info[b].license # "none" /\ Info[b].contract

\* The hub's contract, which --registry is exempt from.
ValidateForPublish(b, m) ==
    m # "override" => Info[b].license # "none" /\ Info[b].contract

Publishable(b, m) ==
    /\ LoadGoReleaserBuild(b)
    /\ ValidatePluginBinaries(b)
    /\ execPublishManifest(b)
    /\ Info[b].license # "unknown"
    /\ ValidateForPublish(b, m)

Blobs(b) == {c.config : c \in Info[b].children} \cup {c.binary : c \in Info[b].children}
Manifests(b) == {c.manifest : c \in Info[b].children}

Registry(p) == IF mode[p] = "override" THEN "override" ELSE "hub"
Version(p) == Info[build[p]].version

(***************************************************************************)
(* A publisher goes on to another stage, or returns from Publish.          *)
(***************************************************************************)
GoOn(p, to, rest) ==
    /\ stage' = [stage EXCEPT ![p] = to]
    /\ todo' = [todo EXCEPT ![p] = rest]
    /\ returned' = "no"
    /\ UNCHANGED <<build, mode, begun, alone>>

Return(p, outcome) ==
    /\ stage' = [stage EXCEPT ![p] = "idle"]
    /\ build' = [build EXCEPT ![p] = None]
    /\ mode' = [mode EXCEPT ![p] = "sync"]
    /\ todo' = [todo EXCEPT ![p] = {}]
    /\ returned' = outcome
    /\ UNCHANGED <<begun, alone>>

\* Publish up to the first call over the network.  The marker scan, the
\* execution of the host's binary and AssembleIndex each read the dist
\* directory: it is taken not to change while they do.
Begin(p, b, m) ==
    /\ stage[p] = "idle"
    /\ begun < MaxPublishes
    /\ Publishable(b, m)
    /\ stage' = [stage EXCEPT ![p] = IF m = "override" THEN "blobs" ELSE "authorize"]
    /\ build' = [build EXCEPT ![p] = b]
    /\ mode' = [mode EXCEPT ![p] = m]
    /\ todo' = [todo EXCEPT ![p] = Blobs(b)]
    /\ begun' = begun + 1
    /\ alone' = (\A q \in Publishers : stage[q] = "idle")
    /\ returned' = "no"
    /\ UNCHANGED registry

\* A local check fails.
Refuse(p, b, m) ==
    /\ stage[p] = "idle"
    /\ ~Publishable(b, m)
    /\ Return(p, "error")
    /\ UNCHANGED registry

\* The hub grants push to the owner of the namespace.
GrantsPush(p) == p \in Owners

\* Discover, BearerToken and MintRegistryToken.
Authorize(p) ==
    /\ stage[p] = "authorize"
    /\ IF GrantsPush(p) THEN GoOn(p, "blobs", todo[p]) ELSE Return(p, "error")
    /\ UNCHANGED registry

(***************************************************************************)
(* PushTo: blobs, then child manifests, then the index, then the tag.      *)
(* pushBlobTo skips what the registry has.                                 *)
(***************************************************************************)
Put(p, x) ==
    /\ content' = [content EXCEPT ![Registry(p)] = @ \cup {x}]
    /\ UNCHANGED <<tag, bundles, signed, hub>>

\* PushTo goes through a list in its one order, whichever that is.
Following(rest) == CHOOSE x \in rest : TRUE

PushBlob(p) ==
    /\ stage[p] = "blobs" /\ todo[p] # {}
    /\ Put(p, Following(todo[p]))
    /\ GoOn(p, "blobs", todo[p] \ {Following(todo[p])})

BlobsPushed(p) ==
    /\ stage[p] = "blobs" /\ todo[p] = {}
    /\ GoOn(p, "manifests", Manifests(build[p]))
    /\ UNCHANGED registry

PushManifest(p) ==
    /\ stage[p] = "manifests" /\ todo[p] # {}
    /\ Put(p, Following(todo[p]))
    /\ GoOn(p, "manifests", todo[p] \ {Following(todo[p])})

\* Mutant: the index goes out before the last child manifest.
PushIndex_Early(p) ==
    /\ stage[p] = "manifests"
    /\ Put(p, build[p])
    /\ GoOn(p, "tag", {})

PushIndex(p) ==
    /\ stage[p] = "manifests" /\ todo[p] = {}
    /\ Put(p, build[p])
    /\ GoOn(p, "tag", {})

\* Mutant: an existing tag is left where it is.
Tagged_FirstWins(old, b) == IF old = None THEN b ELSE old

\* The index a tag names after it was set to b.
Tagged(old, b) == b

\* The tag, and the end of Publish when nothing is to be signed.
Tag(p) ==
    /\ stage[p] = "tag"
    /\ tag' = [tag EXCEPT ![Registry(p)][Version(p)] = Tagged(@, build[p])]
    /\ IF mode[p] = "sync" THEN GoOn(p, "sign", {}) ELSE Return(p, "pushed")
    /\ UNCHANGED <<content, bundles, signed, hub>>

(***************************************************************************)
(* SignAndAttach and Sync.                                                 *)
(***************************************************************************)
\* The audience of a token that is set explicitly; what is no JWT, or has no
\* audience, is "other".
validateSigningToken(e) == e.token = "sigstore"

\* Both variables of the runner's token service are set; the request to it
\* may fail.
githubActionsSigningToken(e) == e.actions

\* Mutant: the browser sign-in is the fallback wherever pvtr runs.
SigningIDToken_Hopeful(e) ==
    IF e.token # "none" THEN IF validateSigningToken(e) THEN "token" ELSE "error"
    ELSE IF githubActionsSigningToken(e) THEN "token" ELSE "browser"

\* A token set explicitly is used or refused, never passed over; then the
\* runner's; then the browser, where somebody can complete its sign-in.
SigningIDToken(e) ==
    IF e.token # "none" THEN IF validateSigningToken(e) THEN "token" ELSE "error"
    ELSE CASE githubActionsSigningToken(e) -> "token"
           [] ~githubActionsSigningToken(e) /\ e.terminal -> "browser"
           [] OTHER -> "error"

\* SigningIDToken and SignIndex: nothing is pushed yet.  A request to the
\* runner or to Sigstore that fails is a Fail: no other identity is tried.
SignIndex(p, e) ==
    /\ stage[p] = "sign"
    /\ e \in Environment[p]
    /\ CASE SigningIDToken(e) = "token" -> GoOn(p, "layer", {})
         [] SigningIDToken(e) = "browser" -> GoOn(p, "browser", {})
         [] SigningIDToken(e) = "error" -> Return(p, "error")
    /\ UNCHANGED registry

\* Somebody completes the sign-in in the browser, in their own time.
interactiveSigningToken(p) ==
    /\ stage[p] = "browser"
    /\ GoOn(p, "layer", {})
    /\ UNCHANGED registry

\* AttachSignature: first the bundle ...
AttachLayer(p) ==
    /\ stage[p] = "layer"
    /\ bundles' = bundles \cup {build[p]}
    /\ GoOn(p, "referrer", {})
    /\ UNCHANGED <<content, tag, signed, hub>>

\* ... then the referrer manifest that points at it and at the index.
AttachReferrer(p) ==
    /\ stage[p] = "referrer"
    /\ signed' = signed \cup {build[p]}
    /\ GoOn(p, "sync", {})
    /\ UNCHANGED <<content, tag, bundles, hub>>

\* The hub fetches what the tag names and insists on a signature.
Ingestible(v) == tag["hub"][v] # None /\ tag["hub"][v] \in signed

\* The hub lists it and Publish returns, or the answer to the request is lost
\* and Publish returns an error.
Sync(p, outcome) ==
    /\ stage[p] = "sync"
    /\ Ingestible(Version(p))
    /\ hub' = [hub EXCEPT ![Version(p)] = tag["hub"][Version(p)]]
    /\ Return(p, outcome)
    /\ UNCHANGED <<content, tag, bundles, signed>>

\* The hub refuses what the tag names by now, unsigned.
SyncRefused(p) ==
    /\ stage[p] = "sync"
    /\ ~Ingestible(Version(p))
    /\ Return(p, "error")
    /\ UNCHANGED registry

\* A call fails, or the hub refuses: Publish returns the error.  A process that
\* is killed leaves the same behind.  A call that took effect before its
\* failure was noticed is the call followed by the failure.
Fail(p) ==
    /\ stage[p] # "idle"
    /\ Return(p, "error")
    /\ UNCHANGED registry

Step(p) ==
    \/ Authorize(p)
    \/ PushBlob(p) \/ BlobsPushed(p) \/ PushManifest(p) \/ PushIndex(p) \/ Tag(p)
    \/ \E e \in Environment[p] : SignIndex(p, e)
    \/ AttachLayer(p) \/ AttachReferrer(p)
    \/ \E outcome \in {"published", "error"} : Sync(p, outcome)
    \/ SyncRefused(p)

Next ==
    \E p \in Publishers :
        \/ \E b \in Builds, m \in Modes : Begin(p, b, m) \/ Refuse(p, b, m)
        \/ Step(p) \/ interactiveSigningToken(p) \/ Fail(p)

\* A process that is not killed goes on.  Calls to the hub end at the latest at
\* the client's timeout; that registry and Sigstore answer is an assumption on
\* them: --registry pushes through a client without any timeout (push.go:132),
\* the hub's registry has to begin its answer in time but not to end it
\* (pull.go:98), and nothing bounds the calls to Fulcio and Rekor.  Nothing makes
\* somebody complete a sign-in.
Spec == Init /\ [][Next]_vars /\ \A p \in Publishers : WF_vars(Step(p))

----------------------------------------------------------------------------
(* Properties.                                                             *)

\* The state is well formed, and only an owner is past Authorize when the
\* registry is the hub's.
PublishTypeOK ==
    /\ stage \in [Publishers -> {"idle", "authorize", "blobs", "manifests", "tag",
                                 "sign", "browser", "layer", "referrer", "sync"}]
    /\ build \in [Publishers -> Builds \cup {None}]
    /\ mode \in [Publishers -> Modes \cup {"sync"}]
    /\ todo \in [Publishers -> SUBSET Items]
    /\ content \in [Registries -> SUBSET (Items \cup Builds)]
    /\ tag \in [Registries -> [Versions -> Builds \cup {None}]]
    /\ bundles \subseteq Builds /\ signed \subseteq Builds
    /\ hub \in [Versions -> Builds \cup {None}]
    /\ begun \in 0..MaxPublishes /\ alone \in BOOLEAN
    /\ returned \in {"no", "error", "pushed", "published"}
    /\ \A p \in Publishers \ Owners :
         stage[p] \in {"idle", "authorize"} \/ mode[p] = "override"

\* push.go:44: "It walks leaves-first: config + binary blobs, then child
\* manifests, then the index."  Whatever fails, is killed or runs at the same
\* time, a registry holds everything that its manifests, indexes, tags and
\* signatures refer to.
RegistryClosed ==
    /\ \A r \in Registries : \A b \in Builds :
         /\ b \in content[r] => Manifests(b) \subseteq content[r]
         /\ \A c \in Info[b].children : c.manifest \in content[r] =>
                {c.config, c.binary} \subseteq content[r]
    /\ \A r \in Registries, v \in Versions : tag[r][v] # None => tag[r][v] \in content[r]
    /\ signed \subseteq bundles /\ signed \subseteq content["hub"]

\* publish.go:132: "validate the hub's required fields BEFORE any push/sign,
\* so a malformed index never lands (and orphans signed bytes) in the
\* registry."  --registry pushes such builds elsewhere, --no-sync does not.
OnlyPublishableLands ==
    \A b \in Builds : b \in content["hub"] => Publishable(b, "sync")

\* What the hub lists is a signed index of that version, complete in the
\* registry, whoever else pushed or signed in between.
ListedIsComplete ==
    \A v \in Versions : hub[v] # None =>
        /\ Info[hub[v]].version = v
        /\ hub[v] \in signed
        /\ {hub[v]} \cup Manifests(hub[v]) \cup Blobs(hub[v]) \subseteq content["hub"]

\* The pushing, signing and syncing of any number of publishers, interrupted
\* anywhere, behaves as SignedReleases describes.  A build is available when
\* the hub's registry has its index and all that the index leads to.
Complete == {b \in Builds : {b} \cup Manifests(b) \cup Blobs(b) \subseteq content["hub"]}
Releases == INSTANCE SignedReleases WITH
    Releasable <- {b \in Builds : Publishable(b, "sync")},
    VersionOf <- [b \in Builds |-> Info[b].version],
    available <- Complete, listed <- hub
ImplementsReleases == Releases!Spec

\* publish.go:239 reports "Published" for the build it pushed: at that moment
\* the hub lists that build's index and the tag an installer pulls names it.
\* Failed and killed attempts may have gone before, but nobody else may be at
\* work: Sync names the tag, not the digest.
PublishedIsListed ==
    [][\A p \in Publishers : alone /\ stage[p] = "sync" /\ returned' = "published" =>
          hub'[Version(p)] = build[p] /\ tag'["hub"][Version(p)] = build[p]]_vars

\* signing.go:57: "Skipped with an actionable error when stdin is not a TTY, so
\* CI fails fast instead of hanging on a flow no one can complete."  Whatever
\* fails and whoever publishes beside it, a publish that runs unattended never
\* waits for a person: if registry and Sigstore answer, it comes back.
Unattended(p) == \A e \in Environment[p] : ~e.terminal
UnattendedPublishReturns ==
    \A p \in Publishers : Unattended(p) => (stage[p] # "idle" ~> stage[p] = "idle")
============================================================================
