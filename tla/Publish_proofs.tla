--------------------------- MODULE Publish_proofs ---------------------------
(***************************************************************************)
(* Proofs about Publish, for any number of publishers, builds, versions    *)
(* and publishes.                                                          *)
(***************************************************************************)
EXTENDS Publish, TLAPS

----------------------------------------------------------------------------
(* The inductive invariant.                                                *)

\* The stages after the index is pushed, after the tag is set, after the
\* signature layer and after the referrer.
HasIndex == {"tag", "sign", "browser", "layer", "referrer", "sync"}
HasTag == HasIndex \ {"tag"}
HasLayer == {"referrer", "sync"}

\* What a publisher has left in its registry by the stage it is in: PushTo
\* gets from one of its lists to the next only when nothing is left of it.
Progress(p) ==
    /\ stage[p] # "idle" => build[p] \in Builds /\ Publishable(build[p], mode[p])
    /\ stage[p] = "authorize" => todo[p] = Blobs(build[p])
    /\ stage[p] = "blobs" =>
         /\ todo[p] \subseteq Blobs(build[p])
         /\ Blobs(build[p]) \subseteq content[Registry(p)] \cup todo[p]
    /\ stage[p] = "manifests" =>
         /\ todo[p] \subseteq Manifests(build[p])
         /\ Blobs(build[p]) \subseteq content[Registry(p)]
         /\ Manifests(build[p]) \subseteq content[Registry(p)] \cup todo[p]
    /\ stage[p] \in HasIndex => build[p] \in content[Registry(p)]
    /\ stage[p] \in HasTag => mode[p] = "sync"
    /\ stage[p] \in HasLayer => build[p] \in bundles
    /\ stage[p] = "sync" => build[p] \in signed

\* A tag names an index of its own version, and the hub lists only such a one.
TagsFit ==
    /\ \A r \in Registries, v \in Versions :
         tag[r][v] # None => tag[r][v] \in content[r] /\ Info[tag[r][v]].version = v
    /\ \A v \in Versions :
         hub[v] # None => hub[v] \in signed /\ Info[hub[v]].version = v

\* Digests lead only to what the registry has.
ContentClosed ==
    \A r \in Registries : \A b \in Builds :
      /\ b \in content[r] => Manifests(b) \subseteq content[r]
      /\ \A c \in Info[b].children : c.manifest \in content[r] =>
             c.config \in content[r] /\ c.binary \in content[r]

SignedClosed ==
    signed \subseteq bundles /\ bundles \subseteq content["hub"]

\* While the last publisher to begin has had nobody beside it, it is the only
\* one at work, and a tag it has set is where it put it.
SoleAtWork ==
    /\ \A p, q \in Publishers : stage[p] # "idle" /\ stage[q] # "idle" => p = q
    /\ \A p \in Publishers :
         stage[p] \in HasTag => tag["hub"][Version(p)] = build[p]
AloneInv == alone => SoleAtWork

PublishInv ==
    /\ PublishTypeOK
    /\ \A p \in Publishers : Progress(p)
    /\ TagsFit
    /\ ContentClosed
    /\ SignedClosed
    /\ OnlyPublishableLands
    /\ AloneInv

----------------------------------------------------------------------------
(* Facts about builds and about the two ways a publisher moves on.         *)

\* What Info says of a build.
LEMMA BuildFacts ==
    ASSUME NEW b \in Builds
    PROVE  /\ b # None /\ b \notin Items
           /\ Info[b].version \in Versions
           /\ Blobs(b) \subseteq Items /\ Manifests(b) \subseteq Items
           /\ \A c \in Info[b].children :
                {c.config, c.binary, c.manifest} \subseteq Items
BY BuildInfo DEF Blobs, Manifests

\* No digest is that of a blob and of a manifest.
LEMMA KindsApart ==
    ASSUME NEW b \in Builds, NEW d \in Builds, NEW x \in Blobs(b)
    PROVE  x \notin Manifests(d)
BY BuildInfo DEF Blobs, Manifests

\* What --no-sync may push, the whole flow may.
LEMMA ContractOfTheHub ==
    ASSUME NEW b, NEW m, m # "override", Publishable(b, m)
    PROVE  Publishable(b, "sync")
BY DEF Publishable, ValidateForPublish

\* A list that is not done has a next entry.
LEMMA FollowingIn ==
    ASSUME NEW S, S # {}
    PROVE  Following(S) \in S
BY DEF Following

\* The disjuncts of Next for one publisher.
Acts(p) ==
    \/ \E b \in Builds, m \in Modes : Begin(p, b, m) \/ Refuse(p, b, m)
    \/ Step(p) \/ interactiveSigningToken(p) \/ Fail(p)

\* A publisher's variables are its own.
Untouched(q) ==
    /\ stage'[q] = stage[q] /\ build'[q] = build[q]
    /\ mode'[q] = mode[q] /\ todo'[q] = todo[q]

\* A step of one publisher touches no other's variables.
LEMMA OthersUntouched ==
    ASSUME PublishTypeOK, NEW p \in Publishers, Acts(p),
           NEW q \in Publishers, q # p
    PROVE  Untouched(q)
<1>1. ASSUME NEW outcome, Return(p, outcome) PROVE Untouched(q)
  BY <1>1 DEF Return, Untouched, PublishTypeOK
<1>2. ASSUME NEW to, NEW rest, GoOn(p, to, rest) PROVE Untouched(q)
  BY <1>2 DEF GoOn, Untouched, PublishTypeOK
<1>3. ASSUME NEW b \in Builds, NEW m \in Modes, Begin(p, b, m) PROVE Untouched(q)
  BY <1>3 DEF Begin, Untouched, PublishTypeOK
<1>4. ASSUME NEW b \in Builds, NEW m \in Modes, Refuse(p, b, m) PROVE Untouched(q)
  BY <1>1, <1>4 DEF Refuse
<1>5. CASE interactiveSigningToken(p) \/ Fail(p)
  BY <1>1, <1>2, <1>5 DEF interactiveSigningToken, Fail
<1>6. CASE \E e \in Environment[p] : SignIndex(p, e)
  <2>1. PICK e \in Environment[p] : SignIndex(p, e)
    BY <1>6
  <2>2. SigningIDToken(e) \in {"token", "browser", "error"}
    BY DEF SigningIDToken
  <2> QED BY <1>1, <1>2, <2>1, <2>2 DEF SignIndex
<1>7. CASE Authorize(p) \/ Tag(p) \/ SyncRefused(p)
           \/ \E outcome \in {"published", "error"} : Sync(p, outcome)
  BY <1>1, <1>2, <1>7 DEF Authorize, Tag, SyncRefused, Sync
<1>8. CASE PushBlob(p) \/ BlobsPushed(p) \/ PushManifest(p) \/ PushIndex(p)
           \/ AttachLayer(p) \/ AttachReferrer(p)
  BY <1>2, <1>8 DEF PushBlob, BlobsPushed, PushManifest, PushIndex, AttachLayer,
                    AttachReferrer
<1> QED BY <1>3, <1>4, <1>5, <1>6, <1>7, <1>8 DEF Acts, Step

\* The registry and the hub are well formed.
RegistryTyped ==
    /\ content \in [Registries -> SUBSET (Items \cup Builds)]
    /\ tag \in [Registries -> [Versions -> Builds \cup {None}]]
    /\ bundles \subseteq Builds /\ signed \subseteq Builds
    /\ hub \in [Versions -> Builds \cup {None}]

\* What PublishInv says of the registry and the hub.
RegistryInv ==
    RegistryTyped /\ TagsFit /\ ContentClosed /\ SignedClosed /\ OnlyPublishableLands

Stages == {"idle", "authorize", "blobs", "manifests"} \cup HasIndex

\* A registry that is left alone stays as good as it was.
LEMMA RegistryKept ==
    ASSUME PublishInv, UNCHANGED registry
    PROVE  RegistryInv'
BY DEF PublishInv, PublishTypeOK, RegistryInv, RegistryTyped, TagsFit, ContentClosed,
       SignedClosed, OnlyPublishableLands, registry

\* Where a publisher is pointed to does not depend on the others, and what it
\* left in the registry is never taken away.
LEMMA ProgressKept ==
    ASSUME NEW q \in Publishers, Progress(q), Untouched(q),
           \A r \in Registries : content[r] \subseteq content'[r],
           bundles \subseteq bundles', signed \subseteq signed'
    PROVE  Progress(q)'
<1>1. Registry(q)' = Registry(q) /\ Registry(q) \in Registries
  BY DEF Registry, Registries, Untouched
<1> QED BY <1>1 DEF Progress, Untouched, HasIndex, HasTag, HasLayer

\* Publish returns, with the registry's content as it is and the tags as they
\* are unless the publisher was at work.
LEMMA ReturnStep ==
    ASSUME PublishInv, NEW p \in Publishers, Acts(p),
           NEW outcome \in {"error", "pushed", "published"}, Return(p, outcome),
           RegistryInv', UNCHANGED <<content, bundles, signed>>,
           tag' = tag \/ stage[p] # "idle"
    PROVE  PublishInv'
<1>1. PublishTypeOK'
  <2>1. stage' \in [Publishers -> Stages] /\ build' \in [Publishers -> Builds \cup {None}]
    BY DEF Return, PublishInv, PublishTypeOK, Stages, HasIndex
  <2>2. mode' \in [Publishers -> Modes \cup {"sync"}] /\ todo' \in [Publishers -> SUBSET Items]
    BY DEF Return, PublishInv, PublishTypeOK
  <2>3. \A q \in Publishers \ Owners :
          stage'[q] \in {"idle", "authorize"} \/ mode'[q] = "override"
    BY DEF Return, PublishInv, PublishTypeOK
  <2>4. begun' = begun /\ alone' = alone /\ returned' \in {"error", "pushed", "published"}
    BY DEF Return
  <2> QED BY <2>1, <2>2, <2>3, <2>4
          DEF PublishInv, PublishTypeOK, RegistryInv, RegistryTyped, Stages, HasIndex
<1>2. ASSUME NEW q \in Publishers PROVE Progress(q)'
  <2>1. CASE q = p
    BY <2>1 DEF Return, PublishInv, PublishTypeOK, Progress, HasIndex, HasTag, HasLayer
  <2>2. CASE q # p
    <3>1. Untouched(q)
      BY <2>2, OthersUntouched DEF PublishInv
    <3> QED BY <3>1, ProgressKept DEF PublishInv
  <2> QED BY <2>1, <2>2
<1>3. AloneInv'
  <2> SUFFICES ASSUME alone' PROVE SoleAtWork'
    BY DEF AloneInv
  <2>1. alone /\ AloneInv
    BY DEF Return, PublishInv
  <2>2. stage'[p] = "idle"
    BY DEF Return, PublishInv, PublishTypeOK
  <2>3. \A q \in Publishers : q # p => Untouched(q)
    BY OthersUntouched DEF PublishInv
  <2>4. ASSUME NEW q \in Publishers, stage'[q] \in HasTag
        PROVE  tag'["hub"][Version(q)'] = build'[q]
    <3>1. q # p /\ Untouched(q) /\ stage[q] # "idle"
      BY <2>2, <2>3, <2>4 DEF Untouched, HasTag, HasIndex
    <3>2. tag' = tag
      BY <2>1, <3>1 DEF AloneInv, SoleAtWork
    <3> QED BY <2>1, <2>4, <3>1, <3>2 DEF AloneInv, SoleAtWork, Untouched, Version
  <2> QED BY <2>1, <2>2, <2>3, <2>4 DEF AloneInv, SoleAtWork, Untouched
<1> QED BY <1>1, <1>2, <1>3 DEF PublishInv, RegistryInv

\* A publisher goes on, having done what the stage it comes to needs.
LEMMA GoOnStep ==
    ASSUME PublishInv, NEW p \in Publishers, Acts(p),
           NEW to \in Stages \ {"idle", "authorize"}, NEW rest \in SUBSET Items,
           GoOn(p, to, rest), stage[p] # "idle",
           p \in Owners \/ mode[p] = "override",
           RegistryInv', Progress(p)',
           \A r \in Registries : content[r] \subseteq content'[r],
           bundles \subseteq bundles', signed \subseteq signed',
           to \in HasTag /\ alone => tag'["hub"][Version(p)] = build[p]
    PROVE  PublishInv'
<1>1. PublishTypeOK'
  <2>1. stage' \in [Publishers -> Stages] /\ todo' \in [Publishers -> SUBSET Items]
    BY DEF GoOn, PublishInv, PublishTypeOK, Stages, HasIndex
  <2>2. \A q \in Publishers \ Owners :
          stage'[q] \in {"idle", "authorize"} \/ mode'[q] = "override"
    BY DEF GoOn, PublishInv, PublishTypeOK
  <2>3. UNCHANGED <<build, mode, begun, alone>> /\ returned' = "no"
    BY DEF GoOn
  <2> QED BY <2>1, <2>2, <2>3
          DEF PublishInv, PublishTypeOK, RegistryInv, RegistryTyped, Stages, HasIndex
<1>2. ASSUME NEW q \in Publishers, q # p PROVE Progress(q)'
  <2>1. Untouched(q)
    BY <1>2, OthersUntouched DEF PublishInv
  <2> QED BY <2>1, ProgressKept DEF PublishInv
<1>3. AloneInv'
  <2> SUFFICES ASSUME alone' PROVE SoleAtWork'
    BY DEF AloneInv
  <2>1. alone /\ AloneInv
    BY DEF GoOn, PublishInv
  <2>2. stage'[p] = to /\ build'[p] = build[p] /\ Version(p)' = Version(p)
    BY DEF GoOn, PublishInv, PublishTypeOK, Version
  <2>3. \A q \in Publishers : q # p => Untouched(q)
    BY OthersUntouched DEF PublishInv
  <2>4. \A q \in Publishers : q # p => stage'[q] = "idle"
    BY <2>1, <2>3 DEF AloneInv, SoleAtWork, Untouched
  <2> QED BY <2>1, <2>2, <2>4 DEF SoleAtWork, HasTag, HasIndex
<1> QED BY <1>1, <1>2, <1>3 DEF PublishInv, RegistryInv

----------------------------------------------------------------------------
(* Every action keeps PublishInv.                                          *)

\* The local checks pass and the publisher begins.
LEMMA BeginStep ==
    ASSUME PublishInv, NEW p \in Publishers, NEW b \in Builds, NEW m \in Modes,
           Begin(p, b, m)
    PROVE  PublishInv'
<1>1. Acts(p)
  BY DEF Acts
<1>2. RegistryInv'
  BY RegistryKept DEF Begin
<1>3. Blobs(b) \subseteq Items
  BY BuildFacts
<1>4. PublishTypeOK'
  <2>1. stage' \in [Publishers -> Stages] /\ build' \in [Publishers -> Builds \cup {None}]
    BY DEF Begin, PublishInv, PublishTypeOK, Stages, HasIndex
  <2>2. mode' \in [Publishers -> Modes \cup {"sync"}] /\ todo' \in [Publishers -> SUBSET Items]
    BY <1>3 DEF Begin, PublishInv, PublishTypeOK
  <2>3. \A q \in Publishers \ Owners :
          stage'[q] \in {"idle", "authorize"} \/ mode'[q] = "override"
    BY DEF Begin, PublishInv, PublishTypeOK
  <2>4. begun' \in 0..MaxPublishes /\ alone' \in BOOLEAN /\ returned' = "no"
    BY BuildInfo DEF Begin, PublishInv, PublishTypeOK
  <2> QED BY <1>2, <2>1, <2>2, <2>3, <2>4
          DEF PublishTypeOK, RegistryInv, RegistryTyped, Stages, HasIndex
<1>5. ASSUME NEW q \in Publishers PROVE Progress(q)'
  <2>1. CASE q = p
    <3>1. build'[p] = b /\ mode'[p] = m /\ todo'[p] = Blobs(b)
          /\ stage'[p] \in {"authorize", "blobs"}
      BY DEF Begin, PublishInv, PublishTypeOK
    <3>2. Publishable(b, m)
      BY DEF Begin
    <3> QED BY <2>1, <3>1, <3>2 DEF Progress, HasIndex, HasTag, HasLayer
  <2>2. CASE q # p
    BY <1>1, <2>2, OthersUntouched, ProgressKept DEF PublishInv, Begin, registry
  <2> QED BY <2>1, <2>2
<1>6. AloneInv'
  <2>1. ASSUME alone' PROVE \A q \in Publishers : q # p => stage'[q] = "idle"
    BY <2>1, <1>1, OthersUntouched DEF Begin, PublishInv, Untouched
  <2>2. stage'[p] \in {"authorize", "blobs"}
    BY DEF Begin, PublishInv, PublishTypeOK
  <2> QED BY <2>1, <2>2 DEF AloneInv, SoleAtWork, HasTag, HasIndex
<1> QED BY <1>2, <1>4, <1>5, <1>6 DEF PublishInv, RegistryInv

\* Publish returns an error and leaves everything else as it is.
LEMMA ErrorStep ==
    ASSUME PublishInv, NEW p \in Publishers, Acts(p), Return(p, "error"),
           UNCHANGED registry
    PROVE  PublishInv'
BY RegistryKept, ReturnStep DEF registry

\* The publisher goes on with nothing sent to the registry.
LEMMA QuietStep ==
    ASSUME PublishInv, NEW p \in Publishers, Acts(p),
           NEW to \in Stages \ {"idle", "authorize"}, NEW rest \in SUBSET Items,
           GoOn(p, to, rest), stage[p] # "idle",
           p \in Owners \/ mode[p] = "override",
           UNCHANGED registry, Progress(p)',
           to \in HasTag => stage[p] \in HasTag
    PROVE  PublishInv'
<1>1. to \in HasTag /\ alone => tag'["hub"][Version(p)] = build[p]
  BY DEF PublishInv, AloneInv, SoleAtWork, registry
<1> QED BY <1>1, RegistryKept, GoOnStep DEF registry

\* Only an owner, or a publisher of --registry, is past Authorize.
LEMMA PastAuthorize ==
    ASSUME PublishInv, NEW p \in Publishers, stage[p] \notin {"idle", "authorize"}
    PROVE  p \in Owners \/ mode[p] = "override"
BY DEF PublishInv, PublishTypeOK

\* The stages between the local checks and the registry.
LEMMA AuthorizeStep ==
    ASSUME PublishInv, NEW p \in Publishers, Authorize(p)
    PROVE  PublishInv'
<1>1. Acts(p)
  BY DEF Acts, Step
<1>2. CASE ~GrantsPush(p)
  BY <1>1, <1>2, ErrorStep DEF Authorize
<1>3. CASE GrantsPush(p)
  <2>1. GoOn(p, "blobs", todo[p]) /\ UNCHANGED registry /\ stage[p] = "authorize"
    BY <1>3 DEF Authorize
  <2>2. Progress(p) /\ todo[p] \in SUBSET Items
    BY DEF PublishInv, PublishTypeOK
  <2>3. stage'[p] = "blobs" /\ todo'[p] = todo[p] /\ build'[p] = build[p] /\ mode'[p] = mode[p]
    BY <2>1 DEF GoOn, PublishInv, PublishTypeOK
  <2>4. Progress(p)'
    BY <2>1, <2>2, <2>3 DEF Progress, HasIndex, HasTag, HasLayer
  <2> QED BY <1>1, <1>3, <2>1, <2>2, <2>4, QuietStep
          DEF Stages, HasIndex, HasTag, GrantsPush
<1> QED BY <1>2, <1>3

\* PushTo has its blobs behind it: what it still owes is the child manifests.
LEMMA BlobsPushedStep ==
    ASSUME PublishInv, NEW p \in Publishers, BlobsPushed(p)
    PROVE  PublishInv'
<1>1. Acts(p)
  BY DEF Acts, Step
<1>2. GoOn(p, "manifests", Manifests(build[p])) /\ UNCHANGED registry
      /\ stage[p] = "blobs" /\ todo[p] = {}
  BY DEF BlobsPushed
<1>3. Progress(p) /\ build[p] \in Builds
  BY <1>2 DEF PublishInv, Progress
<1>4. stage'[p] = "manifests" /\ todo'[p] = Manifests(build[p])
      /\ build'[p] = build[p] /\ mode'[p] = mode[p] /\ content' = content
  BY <1>2 DEF GoOn, PublishInv, PublishTypeOK, registry
<1>5. Progress(p)'
  BY <1>2, <1>3, <1>4 DEF Progress, Registry, HasIndex, HasTag, HasLayer
<1> QED BY <1>1, <1>2, <1>3, <1>5, BuildFacts, PastAuthorize, QuietStep
        DEF Stages, HasIndex, HasTag

\* What Put leaves alone and what it adds.
LEMMA PutAdds ==
    ASSUME PublishInv, NEW p \in Publishers, NEW x, Put(p, x)
    PROVE  /\ Registry(p) \in Registries
           /\ content'[Registry(p)] = content[Registry(p)] \cup {x}
           /\ \A r \in Registries : r # Registry(p) => content'[r] = content[r]
           /\ \A r \in Registries : content[r] \subseteq content'[r]
           /\ UNCHANGED <<tag, bundles, signed, hub>>
BY DEF Put, Registry, Registries, PublishInv, PublishTypeOK

\* What one more digest in the registry needs: a manifest needs its config and
\* binary there, an index its manifests and the local checks behind it.
LEMMA PutRegistry ==
    ASSUME PublishInv, NEW p \in Publishers, NEW x \in Items \cup Builds, Put(p, x),
           \A b \in Builds : \A c \in Info[b].children : c.manifest = x =>
               c.config \in content[Registry(p)] /\ c.binary \in content[Registry(p)],
           x \in Builds => /\ Manifests(x) \subseteq content[Registry(p)]
                           /\ Registry(p) = "hub" => Publishable(x, "sync")
    PROVE  RegistryInv'
<1> DEFINE at == Registry(p)
<1>0. /\ at \in Registries
      /\ content'[at] = content[at] \cup {x}
      /\ \A r \in Registries : r # at => content'[r] = content[r]
      /\ \A r \in Registries : content[r] \subseteq content'[r]
      /\ UNCHANGED <<tag, bundles, signed, hub>>
  BY PutAdds
<1> HIDE DEF at
<1>1. RegistryTyped'
  <2>1. content' \in [Registries -> SUBSET (Items \cup Builds)]
    BY DEF PublishInv, PublishTypeOK, Put
  <2> QED BY <1>0, <2>1 DEF RegistryTyped, PublishInv, PublishTypeOK
<1>2. TagsFit'
  BY <1>0 DEF TagsFit, PublishInv
<1>3. ContentClosed'
  <2> SUFFICES ASSUME NEW r \in Registries, NEW b \in Builds
               PROVE  /\ b \in content'[r] => Manifests(b) \subseteq content'[r]
                      /\ \A c \in Info[b].children : c.manifest \in content'[r] =>
                             c.config \in content'[r] /\ c.binary \in content'[r]
    BY DEF ContentClosed
  <2>1. /\ b \in content[r] => Manifests(b) \subseteq content[r]
        /\ \A c \in Info[b].children : c.manifest \in content[r] =>
               c.config \in content[r] /\ c.binary \in content[r]
    BY DEF ContentClosed, PublishInv
  <2>2. content'[r] = content[r] \/ (r = at /\ content'[r] = content[r] \cup {x})
    BY <1>0
  <2> QED BY <2>1, <2>2 DEF at
<1>4. SignedClosed'
  BY <1>0 DEF SignedClosed, PublishInv, Registries
<1>5. OnlyPublishableLands'
  <2> SUFFICES ASSUME NEW b \in Builds, b \in content'["hub"] PROVE Publishable(b, "sync")
    BY DEF OnlyPublishableLands
  <2>1. CASE b \in content["hub"]
    BY <2>1 DEF OnlyPublishableLands, PublishInv
  <2>2. CASE b \notin content["hub"]
    BY <1>0, <2>2 DEF Registries, at
  <2> QED BY <2>1, <2>2
<1> QED BY <1>1, <1>2, <1>3, <1>4, <1>5 DEF RegistryInv

\* A blob is no manifest, so nothing more is needed of the registry.
LEMMA PushBlobStep ==
    ASSUME PublishInv, NEW p \in Publishers, PushBlob(p)
    PROVE  PublishInv'
<1> DEFINE x == Following(todo[p])
<1>1. Acts(p)
  BY DEF Acts, Step
<1>2. Put(p, x) /\ GoOn(p, "blobs", todo[p] \ {x}) /\ stage[p] = "blobs" /\ x \in todo[p]
  BY FollowingIn DEF PushBlob
<1> HIDE DEF x
<1>3. Progress(p) /\ build[p] \in Builds /\ x \in Blobs(build[p]) /\ todo[p] \in SUBSET Items
  BY <1>2 DEF PublishInv, PublishTypeOK, Progress
<1>4. x \in Items /\ x \notin Builds
  BY <1>3, BuildFacts
<1>5. \A b \in Builds : \A c \in Info[b].children : c.manifest # x
  BY <1>3, KindsApart DEF Manifests
<1>6. RegistryInv'
  BY <1>2, <1>4, <1>5, PutRegistry
<1>7. stage'[p] = "blobs" /\ todo'[p] = todo[p] \ {x} /\ Registry(p)' = Registry(p)
      /\ build'[p] = build[p] /\ mode'[p] = mode[p]
  BY <1>2 DEF GoOn, PublishInv, PublishTypeOK, Registry
<1>8. Progress(p)'
  <2>1. content'[Registry(p)] = content[Registry(p)] \cup {x}
    BY <1>2, PutAdds
  <2> QED BY <1>2, <1>3, <1>7, <2>1 DEF Progress, HasIndex, HasTag, HasLayer
<1>9. /\ \A r \in Registries : content[r] \subseteq content'[r]
      /\ UNCHANGED <<tag, bundles, signed, hub>>
  BY <1>2, PutAdds
<1>10. p \in Owners \/ mode[p] = "override"
  BY <1>2, PastAuthorize
<1> QED BY <1>1, <1>2, <1>3, <1>6, <1>8, <1>9, <1>10, GoOnStep
        DEF Stages, HasIndex, HasTag

\* A child manifest goes out after the config and the binary it refers to;
\* any other build's child of the same digest refers to the same two.
LEMMA PushManifestStep ==
    ASSUME PublishInv, NEW p \in Publishers, PushManifest(p)
    PROVE  PublishInv'
<1> DEFINE x == Following(todo[p])
<1>1. Acts(p)
  BY DEF Acts, Step
<1>2. Put(p, x) /\ GoOn(p, "manifests", todo[p] \ {x})
      /\ stage[p] = "manifests" /\ x \in todo[p]
  BY FollowingIn DEF PushManifest
<1> HIDE DEF x
<1>3. Progress(p) /\ build[p] \in Builds /\ x \in Manifests(build[p])
      /\ todo[p] \in SUBSET Items /\ Blobs(build[p]) \subseteq content[Registry(p)]
  BY <1>2 DEF PublishInv, PublishTypeOK, Progress
<1>4. x \in Items /\ x \notin Builds
  BY <1>3, BuildFacts
<1>5. ASSUME NEW b \in Builds, NEW c \in Info[b].children, c.manifest = x
      PROVE  c.config \in content[Registry(p)] /\ c.binary \in content[Registry(p)]
  <2>1. PICK d \in Info[build[p]].children : d.manifest = x
    BY <1>3 DEF Manifests
  <2>2. c.config = d.config /\ c.binary = d.binary
    BY <1>3, <1>5, <2>1, BuildInfo
  <2>3. d.config \in Blobs(build[p]) /\ d.binary \in Blobs(build[p])
    BY DEF Blobs
  <2> QED BY <1>3, <2>2, <2>3
<1>6. RegistryInv'
  BY <1>2, <1>4, <1>5, PutRegistry
<1>7. stage'[p] = "manifests" /\ todo'[p] = todo[p] \ {x} /\ Registry(p)' = Registry(p)
      /\ build'[p] = build[p] /\ mode'[p] = mode[p]
  BY <1>2 DEF GoOn, PublishInv, PublishTypeOK, Registry
<1>8. Progress(p)'
  <2>1. content'[Registry(p)] = content[Registry(p)] \cup {x}
    BY <1>2, PutAdds
  <2> QED BY <1>2, <1>3, <1>7, <2>1 DEF Progress, HasIndex, HasTag, HasLayer
<1>9. /\ \A r \in Registries : content[r] \subseteq content'[r]
      /\ UNCHANGED <<tag, bundles, signed, hub>>
  BY <1>2, PutAdds
<1>10. p \in Owners \/ mode[p] = "override"
  BY <1>2, PastAuthorize
<1> QED BY <1>1, <1>2, <1>3, <1>6, <1>8, <1>9, <1>10, GoOnStep
        DEF Stages, HasIndex, HasTag

\* The index goes out last, and only past the checks the registry's owner asks for.
LEMMA PushIndexStep ==
    ASSUME PublishInv, NEW p \in Publishers, PushIndex(p)
    PROVE  PublishInv'
<1> DEFINE x == build[p]
<1>1. Acts(p)
  BY DEF Acts, Step
<1>2. Put(p, x) /\ GoOn(p, "tag", {}) /\ stage[p] = "manifests" /\ todo[p] = {}
  BY DEF PushIndex
<1>3. /\ x \in Builds /\ Manifests(x) \subseteq content[Registry(p)]
      /\ Publishable(x, mode[p])
  BY <1>2 DEF PublishInv, Progress
<1>4. Registry(p) = "hub" => Publishable(x, "sync")
  BY <1>3, ContractOfTheHub DEF Registry
<1>5. stage'[p] = "tag" /\ Registry(p)' = Registry(p)
      /\ build'[p] = x /\ mode'[p] = mode[p]
  BY <1>2 DEF GoOn, PublishInv, PublishTypeOK, Registry
<1> HIDE DEF x
<1>6. \A b \in Builds : \A c \in Info[b].children : c.manifest # x
  BY <1>3, BuildFacts
<1>7. RegistryInv'
  BY <1>2, <1>3, <1>4, <1>6, PutRegistry
<1>8. Progress(p)'
  <2>1. content'[Registry(p)] = content[Registry(p)] \cup {x}
    BY <1>2, PutAdds
  <2> QED BY <1>3, <1>5, <2>1 DEF Progress, HasIndex, HasTag, HasLayer
<1>9. /\ \A r \in Registries : content[r] \subseteq content'[r]
      /\ UNCHANGED <<tag, bundles, signed, hub>>
  BY <1>2, PutAdds
<1>10. p \in Owners \/ mode[p] = "override"
  BY <1>2, PastAuthorize
<1> QED BY <1>1, <1>2, <1>7, <1>8, <1>9, <1>10, GoOnStep DEF Stages, HasIndex, HasTag

\* The tag of a build's version now names its index, in the registry where that
\* index is.
LEMMA TagStep ==
    ASSUME PublishInv, NEW p \in Publishers, Tag(p)
    PROVE  PublishInv'
<1>1. Acts(p)
  BY DEF Acts, Step
<1>2. /\ tag' = [tag EXCEPT ![Registry(p)][Version(p)] = build[p]]
      /\ UNCHANGED <<content, bundles, signed, hub>> /\ stage[p] = "tag"
  BY DEF Tag, Tagged
<1>3. /\ build[p] \in Builds /\ build[p] \in content[Registry(p)] /\ Progress(p)
      /\ Version(p) \in Versions /\ Registry(p) \in Registries
  BY <1>2, BuildFacts DEF PublishInv, Progress, HasIndex, Version, Registry, Registries
<1>4. /\ tag' \in [Registries -> [Versions -> Builds \cup {None}]]
      /\ tag'[Registry(p)][Version(p)] = build[p]
      /\ \A r \in Registries, v \in Versions :
           tag'[r][v] = tag[r][v]
           \/ (r = Registry(p) /\ v = Version(p) /\ tag'[r][v] = build[p])
  BY <1>2, <1>3 DEF PublishInv, PublishTypeOK
<1>5. RegistryInv'
  <2>1. RegistryTyped'
    BY <1>2, <1>4 DEF RegistryTyped, PublishInv, PublishTypeOK
  <2>2. TagsFit'
    BY <1>2, <1>3, <1>4 DEF TagsFit, PublishInv, Version
  <2> QED BY <1>2, <2>1, <2>2
          DEF RegistryInv, PublishInv, ContentClosed, SignedClosed, OnlyPublishableLands
<1>6. CASE mode[p] # "sync"
  BY <1>1, <1>2, <1>5, <1>6, ReturnStep DEF Tag
<1>7. CASE mode[p] = "sync"
  <2>1. GoOn(p, "sign", {}) /\ Registry(p) = "hub"
    BY <1>7 DEF Tag, Registry
  <2>2. stage'[p] = "sign" /\ build'[p] = build[p] /\ mode'[p] = mode[p]
        /\ Registry(p)' = Registry(p)
    BY <2>1 DEF GoOn, PublishInv, PublishTypeOK, Registry
  <2>3. Progress(p)'
    BY <1>2, <1>3, <1>7, <2>2 DEF Progress, HasIndex, HasTag, HasLayer
  <2>4. p \in Owners \/ mode[p] = "override"
    BY <1>2, PastAuthorize
  <2> QED BY <1>1, <1>2, <1>4, <1>5, <2>1, <2>3, <2>4, GoOnStep
          DEF Stages, HasIndex, HasTag
<1> QED BY <1>6, <1>7

\* From one signing stage to the next with nothing sent.
LEMMA SigningStep ==
    ASSUME PublishInv, NEW p \in Publishers, Acts(p),
           stage[p] \in {"sign", "browser"}, NEW to \in {"browser", "layer"},
           GoOn(p, to, {}), UNCHANGED registry
    PROVE  PublishInv'
<1>1. stage'[p] = to /\ build'[p] = build[p] /\ mode'[p] = mode[p]
      /\ Registry(p)' = Registry(p)
  BY DEF GoOn, PublishInv, PublishTypeOK, Registry
<1>2. Progress(p)'
  BY <1>1 DEF PublishInv, Progress, HasIndex, HasTag, HasLayer, registry
<1>3. p \in Owners \/ mode[p] = "override"
  BY PastAuthorize
<1> QED BY <1>2, <1>3, QuietStep DEF Stages, HasIndex, HasTag

\* The signing identity is found, looked for in the browser, or refused.
LEMMA SignIndexStep ==
    ASSUME PublishInv, NEW p \in Publishers, NEW e \in Environment[p], SignIndex(p, e)
    PROVE  PublishInv'
<1>1. Acts(p) /\ stage[p] = "sign" /\ UNCHANGED registry
  BY DEF Acts, Step, SignIndex
<1>2. SigningIDToken(e) \in {"token", "browser", "error"}
  BY DEF SigningIDToken
<1>3. CASE SigningIDToken(e) = "error"
  BY <1>1, <1>3, ErrorStep DEF SignIndex
<1>4. CASE SigningIDToken(e) # "error"
  BY <1>1, <1>2, <1>4, SigningStep DEF SignIndex
<1> QED BY <1>3, <1>4

\* The signature layer is that of an index the registry has.
LEMMA AttachLayerStep ==
    ASSUME PublishInv, NEW p \in Publishers, AttachLayer(p)
    PROVE  PublishInv'
<1>1. Acts(p)
  BY DEF Acts, Step
<1>2. /\ bundles' = bundles \cup {build[p]} /\ GoOn(p, "referrer", {})
      /\ UNCHANGED <<content, tag, signed, hub>> /\ stage[p] = "layer"
  BY DEF AttachLayer
<1>3. build[p] \in Builds /\ build[p] \in content["hub"] /\ Progress(p)
  BY <1>2 DEF PublishInv, Progress, HasIndex, HasTag, Registry
<1>4. RegistryInv'
  BY <1>2, <1>3 DEF RegistryInv, RegistryTyped, TagsFit, ContentClosed, SignedClosed,
                    OnlyPublishableLands, PublishInv, PublishTypeOK
<1>5. stage'[p] = "referrer" /\ build'[p] = build[p] /\ mode'[p] = mode[p]
      /\ Registry(p)' = Registry(p)
  BY <1>2 DEF GoOn, PublishInv, PublishTypeOK, Registry
<1>6. Progress(p)'
  BY <1>2, <1>3, <1>5 DEF Progress, HasIndex, HasTag, HasLayer
<1>7. p \in Owners \/ mode[p] = "override"
  BY <1>2, PastAuthorize
<1>8. alone => tag'["hub"][Version(p)] = build[p]
  BY <1>2 DEF PublishInv, AloneInv, SoleAtWork, HasTag, HasIndex
<1> QED BY <1>1, <1>2, <1>4, <1>6, <1>7, <1>8, GoOnStep DEF Stages, HasIndex

\* The referrer points at a layer and an index the registry has.
LEMMA AttachReferrerStep ==
    ASSUME PublishInv, NEW p \in Publishers, AttachReferrer(p)
    PROVE  PublishInv'
<1>1. Acts(p)
  BY DEF Acts, Step
<1>2. /\ signed' = signed \cup {build[p]} /\ GoOn(p, "sync", {})
      /\ UNCHANGED <<content, tag, bundles, hub>> /\ stage[p] = "referrer"
  BY DEF AttachReferrer
<1>3. build[p] \in Builds /\ build[p] \in bundles /\ Progress(p)
  BY <1>2 DEF PublishInv, Progress, HasLayer
<1>4. RegistryInv'
  BY <1>2, <1>3 DEF RegistryInv, RegistryTyped, TagsFit, ContentClosed, SignedClosed,
                    OnlyPublishableLands, PublishInv, PublishTypeOK
<1>5. stage'[p] = "sync" /\ build'[p] = build[p] /\ mode'[p] = mode[p]
      /\ Registry(p)' = Registry(p)
  BY <1>2 DEF GoOn, PublishInv, PublishTypeOK, Registry
<1>6. Progress(p)'
  BY <1>2, <1>3, <1>5 DEF Progress, HasIndex, HasTag, HasLayer
<1>7. p \in Owners \/ mode[p] = "override"
  BY <1>2, PastAuthorize
<1>8. alone => tag'["hub"][Version(p)] = build[p]
  BY <1>2 DEF PublishInv, AloneInv, SoleAtWork, HasTag, HasIndex
<1> QED BY <1>1, <1>2, <1>4, <1>6, <1>7, <1>8, GoOnStep DEF Stages, HasIndex

\* The hub lists what the tag of that version names, which is signed.
LEMMA SyncStep ==
    ASSUME PublishInv, NEW p \in Publishers, NEW outcome \in {"published", "error"},
           Sync(p, outcome)
    PROVE  PublishInv'
<1> DEFINE v == Version(p)
<1>1. Acts(p)
  BY DEF Acts, Step
<1>2. /\ hub' = [hub EXCEPT ![v] = tag["hub"][v]]
      /\ tag["hub"][v] # None /\ tag["hub"][v] \in signed
      /\ UNCHANGED <<content, tag, bundles, signed>> /\ stage[p] = "sync"
      /\ Return(p, outcome)
  BY DEF Sync, Ingestible
<1>3. v \in Versions
  BY <1>2, BuildFacts DEF PublishInv, Progress, Version
<1>4. Info[tag["hub"][v]].version = v /\ tag["hub"][v] \in Builds
  BY <1>2, <1>3 DEF PublishInv, PublishTypeOK, TagsFit, Registries
<1> HIDE DEF v
<1>5. /\ hub' \in [Versions -> Builds \cup {None}]
      /\ \A w \in Versions : hub'[w] = hub[w] \/ (w = v /\ hub'[w] = tag["hub"][v])
  BY <1>2, <1>3, <1>4 DEF PublishInv, PublishTypeOK
<1>6. RegistryInv'
  <2>1. TagsFit'
    BY <1>2, <1>4, <1>5 DEF TagsFit, PublishInv
  <2> QED BY <1>2, <1>5, <2>1 DEF RegistryInv, RegistryTyped, ContentClosed, SignedClosed,
                                  OnlyPublishableLands, PublishInv, PublishTypeOK
<1> QED BY <1>1, <1>2, <1>6, ReturnStep

----------------------------------------------------------------------------
(* The theorems.                                                           *)

\* Every step keeps PublishInv.
LEMMA PublishStep ==
    ASSUME PublishInv, [Next]_vars
    PROVE  PublishInv'
<1>1. CASE UNCHANGED vars
  BY <1>1 DEF vars, PublishInv, PublishTypeOK, Progress, TagsFit, ContentClosed,
              SignedClosed, OnlyPublishableLands, AloneInv, SoleAtWork, Registry, Version
<1>2. ASSUME NEW p \in Publishers, Acts(p) PROVE PublishInv'
  <2>1. ASSUME NEW b \in Builds, NEW m \in Modes, Begin(p, b, m) PROVE PublishInv'
    BY <2>1, BeginStep
  <2>2. ASSUME NEW b \in Builds, NEW m \in Modes, Refuse(p, b, m) PROVE PublishInv'
    BY <1>2, <2>2, ErrorStep DEF Refuse
  <2>3. CASE interactiveSigningToken(p)
    BY <1>2, <2>3, SigningStep DEF interactiveSigningToken
  <2>4. CASE Fail(p)
    BY <1>2, <2>4, ErrorStep DEF Fail
  <2>5. CASE Authorize(p)
    BY <2>5, AuthorizeStep
  <2>6. CASE PushBlob(p) \/ BlobsPushed(p) \/ PushManifest(p) \/ PushIndex(p) \/ Tag(p)
    BY <2>6, PushBlobStep, BlobsPushedStep, PushManifestStep, PushIndexStep, TagStep
  <2>7. ASSUME NEW e \in Environment[p], SignIndex(p, e) PROVE PublishInv'
    BY <2>7, SignIndexStep
  <2>8. CASE AttachLayer(p) \/ AttachReferrer(p)
    BY <2>8, AttachLayerStep, AttachReferrerStep
  <2>9. ASSUME NEW outcome \in {"published", "error"}, Sync(p, outcome) PROVE PublishInv'
    BY <2>9, SyncStep
  <2>10. CASE SyncRefused(p)
    BY <1>2, <2>10, ErrorStep DEF SyncRefused
  <2> QED BY <1>2, <2>1, <2>2, <2>3, <2>4, <2>5, <2>6, <2>7, <2>8, <2>9, <2>10
          DEF Acts, Step
<1> QED BY <1>1, <1>2 DEF Next, Acts

\* An empty registry and idle publishers satisfy PublishInv.
LEMMA PublishInitially == Init => PublishInv
<1> SUFFICES ASSUME Init PROVE PublishInv
  OBVIOUS
<1>1. PublishTypeOK
  BY BuildInfo DEF Init, PublishTypeOK
<1>2. \A p \in Publishers : Progress(p)
  BY DEF Init, Progress, HasIndex, HasTag, HasLayer
<1>3. TagsFit /\ ContentClosed /\ SignedClosed /\ OnlyPublishableLands
  BY DEF Init, TagsFit, ContentClosed, SignedClosed, OnlyPublishableLands, Registries
<1>4. AloneInv
  BY DEF Init, AloneInv, SoleAtWork, HasTag, HasIndex
<1> QED BY <1>1, <1>2, <1>3, <1>4 DEF PublishInv

\* PublishInv holds throughout.
THEOREM PublishInvariant == Spec => []PublishInv
BY PublishInitially, PublishStep, PTL DEF Spec

\* The state is well formed, and nobody but an owner gets past the hub.
THEOREM PublishTypeCorrect == Spec => []PublishTypeOK
<1>1. PublishInv => PublishTypeOK
  BY DEF PublishInv
<1> QED BY <1>1, PublishInvariant, PTL

\* push.go's leaves-first order keeps every registry closed, whatever fails and
\* however many publish at once.
THEOREM AlwaysClosed == Spec => []RegistryClosed
<1>1. PublishInv => RegistryClosed
  BY DEF PublishInv, RegistryClosed, ContentClosed, TagsFit, SignedClosed
<1> QED BY <1>1, PublishInvariant, PTL

\* No index reaches the hub's registry without the hub's contract.
THEOREM NothingElseLands == Spec => []OnlyPublishableLands
<1>1. PublishInv => OnlyPublishableLands
  BY DEF PublishInv
<1> QED BY <1>1, PublishInvariant, PTL

\* What the hub lists is signed, of its version and complete.
THEOREM AlwaysComplete == Spec => []ListedIsComplete
<1>1. ASSUME PublishInv PROVE ListedIsComplete
  <2> SUFFICES ASSUME NEW v \in Versions, hub[v] # None
               PROVE  /\ Info[hub[v]].version = v
                      /\ hub[v] \in signed
                      /\ {hub[v]} \cup Manifests(hub[v]) \cup Blobs(hub[v])
                           \subseteq content["hub"]
    BY DEF ListedIsComplete
  <2>1. Info[hub[v]].version = v /\ hub[v] \in signed /\ hub[v] \in Builds
    BY <1>1 DEF PublishInv, PublishTypeOK, TagsFit
  <2>2. hub[v] \in content["hub"] /\ "hub" \in Registries
    BY <1>1, <2>1 DEF PublishInv, SignedClosed, Registries
  <2>3. Manifests(hub[v]) \subseteq content["hub"]
    BY <1>1, <2>1, <2>2 DEF PublishInv, ContentClosed
  <2>4. Blobs(hub[v]) \subseteq content["hub"]
    BY <1>1, <2>1, <2>2, <2>3 DEF PublishInv, ContentClosed, Blobs, Manifests
  <2> QED BY <2>1, <2>2, <2>3, <2>4
<1> QED BY <1>1, PublishInvariant, PTL

\* "Published" is said of what the hub lists and the tag names, when nobody
\* else was at work.
THEOREM PublishedTellsTheTruth == Spec => PublishedIsListed
<1> DEFINE Told == \A p \in Publishers :
             alone /\ stage[p] = "sync" /\ returned' = "published" =>
               hub'[Version(p)] = build[p] /\ tag'["hub"][Version(p)] = build[p]
<1>1. ASSUME PublishInv, [Next]_vars PROVE [Told]_vars
  <2> SUFFICES ASSUME Next, NEW p \in Publishers, alone, stage[p] = "sync",
                      returned' = "published"
               PROVE  hub'[Version(p)] = build[p] /\ tag'["hub"][Version(p)] = build[p]
    BY <1>1
  <2>1. PICK q \in Publishers : Acts(q)
    BY DEF Next, Acts
  <2>2. \E outcome \in {"published", "error"} : Sync(q, outcome)
    <3>1. \A e \in Environment[q] : SigningIDToken(e) \in {"token", "browser", "error"}
      BY DEF SigningIDToken
    <3>2. \A e \in Environment[q] : ~SignIndex(q, e)
      BY <3>1 DEF SignIndex, GoOn, Return
    <3> QED BY <2>1, <3>2 DEF Acts, Step, Begin, Refuse, interactiveSigningToken, Fail,
              Authorize, PushBlob, BlobsPushed, PushManifest, PushIndex, Tag, AttachLayer,
              AttachReferrer, SyncRefused, GoOn, Return
  <2>3. q = p
    BY <1>1, <2>2 DEF Sync, PublishInv, AloneInv, SoleAtWork
  <2>4. tag["hub"][Version(p)] = build[p]
    BY <1>1 DEF PublishInv, AloneInv, SoleAtWork, HasTag, HasIndex
  <2>5. Version(p) \in Versions
    BY <1>1, BuildFacts DEF PublishInv, Progress, Version
  <2> QED BY <1>1, <2>2, <2>3, <2>4, <2>5 DEF Sync, PublishInv, PublishTypeOK
<1> QED BY <1>1, PublishInvariant, PTL DEF Spec, PublishedIsListed
----------------------------------------------------------------------------
(* The refinement of SignedReleases.                                       *)

\* In a registry that is closed an index alone shows that a build is complete.
LEMMA IndexMeansComplete ==
    ASSUME NEW held,
           \A b \in Builds :
             /\ b \in held => Manifests(b) \subseteq held
             /\ \A c \in Info[b].children : c.manifest \in held =>
                    c.config \in held /\ c.binary \in held,
           NEW b \in Builds
    PROVE  b \in held <=> {b} \cup Manifests(b) \cup Blobs(b) \subseteq held
<1> SUFFICES ASSUME b \in held
             PROVE  Manifests(b) \subseteq held /\ Blobs(b) \subseteq held
  OBVIOUS
<1>1. Manifests(b) \subseteq held
  OBVIOUS
<1>2. Blobs(b) \subseteq held
  BY <1>1 DEF Blobs, Manifests
<1> QED BY <1>1, <1>2

\* So a step makes available exactly the builds whose index it brings.
LEMMA CompleteByIndex ==
    ASSUME PublishInv, PublishInv'
    PROVE  /\ Complete = {b \in Builds : b \in content["hub"]}
           /\ Complete' = {b \in Builds : b \in content'["hub"]}
<1>1. \A b \in Builds :
        /\ b \in content["hub"] => Manifests(b) \subseteq content["hub"]
        /\ \A c \in Info[b].children : c.manifest \in content["hub"] =>
               c.config \in content["hub"] /\ c.binary \in content["hub"]
  BY DEF PublishInv, ContentClosed, Registries
<1>2. \A b \in Builds :
        /\ b \in content'["hub"] => Manifests(b) \subseteq content'["hub"]
        /\ \A c \in Info[b].children : c.manifest \in content'["hub"] =>
               c.config \in content'["hub"] /\ c.binary \in content'["hub"]
  BY DEF PublishInv, ContentClosed, Registries
<1>3. Complete = {b \in Builds : b \in content["hub"]}
  <2>1. \A b \in Builds : b \in content["hub"] <=>
          {b} \cup Manifests(b) \cup Blobs(b) \subseteq content["hub"]
    BY <1>1, IndexMeansComplete
  <2> QED BY <2>1 DEF Complete
<1>4. Complete' = {b \in Builds : b \in content'["hub"]}
  <2>1. \A b \in Builds : b \in content'["hub"] <=>
          {b} \cup Manifests(b) \cup Blobs(b) \subseteq content'["hub"]
    BY <1>2, IndexMeansComplete
  <2> QED BY <2>1 DEF Complete
<1> QED BY <1>3, <1>4

\* A step that adds at most a blob or a manifest is none of SignedReleases.
LEMMA Stutters ==
    ASSUME PublishInv, PublishInv', UNCHANGED <<signed, hub>>,
           \A b \in Builds : b \in content'["hub"] <=> b \in content["hub"]
    PROVE  UNCHANGED Releases!vars
<1>1. Complete' = Complete
  BY CompleteByIndex
<1> QED BY <1>1 DEF Releases!vars

\* Any number of publishers, wherever their calls fail and however they
\* interleave, make releases available, signed and listed in the way of
\* SignedReleases: PushIndex is the moment at which a build becomes available
\* as a whole, AttachReferrer the one at which it is signed, Sync the one at
\* which it is listed, and every other step is invisible.  The argument is
\* that content is closed, so that no blob or manifest completes a build
\* whose index came before it.
THEOREM ReleasesRefined == Spec => ImplementsReleases
<1>1. Init => Releases!Init
  BY DEF Init, Releases!Init, Complete, Registries
<1>2. PublishInv /\ PublishInv' /\ [Next]_vars => [Releases!Next]_(Releases!vars)
  <2> SUFFICES ASSUME PublishInv, PublishInv', [Next]_vars
               PROVE  Releases!Next \/ UNCHANGED Releases!vars
    OBVIOUS
  <2>1. CASE UNCHANGED registry
    BY <2>1, Stutters DEF registry
  <2>2. CASE UNCHANGED vars
    BY <2>1, <2>2 DEF vars, registry
  <2>3. ASSUME NEW p \in Publishers, PushBlob(p) \/ PushManifest(p)
        PROVE  UNCHANGED Releases!vars
    <3>1. Put(p, Following(todo[p])) /\ todo[p] # {}
      BY <2>3 DEF PushBlob, PushManifest
    <3>2. Following(todo[p]) \notin Builds
      BY <3>1, FollowingIn, BuildInfo DEF PublishInv, PublishTypeOK
    <3> QED BY <3>1, <3>2, PutAdds, Stutters DEF Registries
  <2>4. ASSUME NEW p \in Publishers, Tag(p) \/ AttachLayer(p)
        PROVE  UNCHANGED Releases!vars
    BY <2>4, Stutters DEF Tag, AttachLayer
  <2>5. ASSUME NEW p \in Publishers, PushIndex(p)
        PROVE  Releases!Next \/ UNCHANGED Releases!vars
    <3>1. Put(p, build[p]) /\ build[p] \in Builds /\ Publishable(build[p], mode[p])
      BY <2>5 DEF PushIndex, PublishInv, Progress
    <3>2. CASE Registry(p) # "hub"
      BY <3>1, <3>2, PutAdds, Stutters DEF Registries
    <3>3. CASE Registry(p) = "hub"
      <4>1. Publishable(build[p], "sync")
        BY <3>1, <3>3, ContractOfTheHub DEF Registry
      <4>2. content'["hub"] = content["hub"] \cup {build[p]} /\ UNCHANGED <<signed, hub>>
        BY <3>1, <3>3, PutAdds
      <4>3. Complete' = Complete \cup {build[p]}
        BY <3>1, <4>2, CompleteByIndex
      <4> QED BY <3>1, <4>1, <4>2, <4>3 DEF Releases!Next, Releases!MakeAvailable
    <3> QED BY <3>2, <3>3
  <2>6. ASSUME NEW p \in Publishers, AttachReferrer(p)
        PROVE  Releases!Next
    <3>1. /\ stage[p] = "referrer" /\ signed' = signed \cup {build[p]}
          /\ UNCHANGED <<content, hub>>
      BY <2>6 DEF AttachReferrer
    <3>2. build[p] \in Builds /\ build[p] \in content["hub"]
      BY <3>1 DEF PublishInv, Progress, HasLayer, SignedClosed
    <3>3. Publishable(build[p], "sync")
      BY <3>2 DEF PublishInv, OnlyPublishableLands
    <3>4. build[p] \in Complete /\ Complete' = Complete
      BY <3>1, <3>2, CompleteByIndex
    <3> QED BY <3>1, <3>2, <3>3, <3>4 DEF Releases!Next, Releases!Sign
  <2>7. ASSUME NEW p \in Publishers, NEW outcome, Sync(p, outcome)
        PROVE  Releases!Next
    <3> DEFINE b == tag["hub"][Version(p)]
    <3>1. /\ stage[p] = "sync" /\ b # None /\ b \in signed
          /\ hub' = [hub EXCEPT ![Version(p)] = b]
          /\ UNCHANGED <<content, signed>>
      BY <2>7 DEF Sync, Ingestible
    <3>2. Version(p) \in Versions
      BY <3>1, BuildFacts DEF PublishInv, Progress, Version
    <3>3. b \in Builds /\ b \in content["hub"] /\ Info[b].version = Version(p)
      BY <3>1, <3>2 DEF PublishInv, PublishTypeOK, TagsFit, Registries
    <3> HIDE DEF b
    <3>4. Publishable(b, "sync")
      BY <3>3 DEF PublishInv, OnlyPublishableLands
    <3>5. Complete' = Complete
      BY <3>1, CompleteByIndex
    <3> QED BY <3>1, <3>3, <3>4, <3>5 DEF Releases!Next, Releases!List
  <2>8. ASSUME NEW p \in Publishers, Acts(p)
        PROVE  Releases!Next \/ UNCHANGED Releases!vars
    <3>1. CASE \E b \in Builds, m \in Modes : Begin(p, b, m) \/ Refuse(p, b, m)
      BY <2>1, <3>1 DEF Begin, Refuse
    <3>2. CASE interactiveSigningToken(p) \/ Fail(p) \/ Authorize(p) \/ BlobsPushed(p)
               \/ SyncRefused(p) \/ \E e \in Environment[p] : SignIndex(p, e)
      BY <2>1, <3>2 DEF interactiveSigningToken, Fail, Authorize, BlobsPushed,
                        SyncRefused, SignIndex
    <3> QED BY <2>3, <2>4, <2>5, <2>6, <2>7, <2>8, <3>1, <3>2 DEF Acts, Step
  <2> QED BY <2>2, <2>8 DEF Next, Acts
<1> QED BY <1>1, <1>2, PublishInvariant, PTL DEF Spec, ImplementsReleases, Releases!Spec
============================================================================
