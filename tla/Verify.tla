------------------------------ MODULE Verify ------------------------------
(***************************************************************************)
(* internal/oci/pull.go and internal/verify: what an installer does with   *)
(* an index before it trusts it.  PullIndex fetches the index and the      *)
(* signature bundles attached to it, Verifier.Index looks for a bundle     *)
(* that verifies and whose signer the policy accepts, walkVerifiedIndex    *)
(* follows the digests from the index to the binary.  The registry is      *)
(* external: it lists what referrers it likes and serves what bytes it     *)
(* likes.  That a bundle verifies against a digest is up to Sigstore.      *)
(***************************************************************************)
EXTENDS Naturals, Sequences

CONSTANTS
    Identities,             \* keyless signer identities
    maxSignatureReferrers,  \* the referrers that are inspected
    MaxReferrers,           \* bound: the referrers a registry lists
    None

ASSUME Limits ==
    /\ maxSignatureReferrers \in Nat \ {0}
    /\ MaxReferrers \in Nat
    /\ None \notin Identities
    /\ Identities \cap {"broken", "empty", "invalid"} = {}

\* A referrer: "broken" cannot be fetched or parsed, "empty" has no bundle,
\* "invalid" has one that does not verify; any other has a bundle that
\* verifies for the index and names its signer.
Referrers == {"broken", "empty", "invalid"} \cup Identities
\* What the index names and the registry serves.
Pieces == {"index", "child", "config", "layer"}
Errors == {"Fetch", "Unsigned", "SignatureInvalid", "Truncated", "IdentityMismatch",
           "DigestMismatch", "PlatformUnavailable", "MalformedIndex"}

\* What a publisher may have signed: pieces that do not parse or have a wrong
\* media type, a child for the host or none, this many binary layers, and a
\* config with an entrypoint for the requested plugin and version or not.
Tree == [malformed : SUBSET {"index", "child", "config"}, host : BOOLEAN,
         layers : 0..2, asked : BOOLEAN]

VARIABLES
    refs,       \* the registry's list of signature referrers
    pin,        \* the identity the policy requires, or None
    pc,         \* "resolve", "referrers", "bundles", "walk", "done"
    next,       \* the referrer, bundle or piece looked at next
    bundles,    \* the bundles found
    lastErr,    \* a referrer failed to fetch
    truncated,  \* SignaturesTruncated
    errs,       \* the errors so far, in the end those that are returned
    signer,     \* the identity of the bundle that passed
    tree,       \* what the parsed index turned out to be
    bytes,      \* observer: the pieces that are not what their digest names
    result      \* "none", "verified", "error"

vars == <<refs, pin, pc, next, bundles, lastErr, truncated, errs, signer, tree,
          bytes, result>>
given == <<refs, pin>>

Least(a, b) == IF a < b THEN a ELSE b

Init ==
    /\ refs \in UNION {[1..n -> Referrers] : n \in 0..MaxReferrers}
    /\ pin \in Identities \cup {None}
    /\ pc = "resolve"
    /\ next = 1
    /\ bundles = <<>>
    /\ lastErr = FALSE
    /\ truncated = FALSE
    /\ errs = {}
    /\ signer = None
    /\ tree = None
    /\ bytes = {}
    /\ result = "none"

Stop(es) ==
    /\ pc' = "done"
    /\ result' = "error"
    /\ errs' = es

(***************************************************************************)
(* PullIndex.                                                              *)
(***************************************************************************)
\* The tag resolves to an index, its bytes and the list of referrers arrive.
PullIndex(right) ==
    /\ pc = "resolve"
    /\ pc' = "referrers"
    /\ bytes' = IF right THEN {} ELSE {"index"}
    /\ truncated' = (Len(refs) > maxSignatureReferrers)
    /\ UNCHANGED <<given, next, bundles, lastErr, errs, signer, tree, result>>

PullFails ==
    /\ pc = "resolve"
    /\ Stop({"Fetch"})
    /\ UNCHANGED <<given, next, bundles, lastErr, truncated, signer, tree, bytes>>

\* How many referrers fetchSignatureBundle looks at.
Inspected == Least(Len(refs), maxSignatureReferrers)

\* Mutant: a referrer that cannot be fetched ends the search.
FetchReferrer_Fatal ==
    /\ pc = "referrers" /\ next <= Inspected
    /\ IF refs[next] = "broken"
       THEN Stop({"Fetch"}) /\ UNCHANGED <<bundles, lastErr>>
       ELSE /\ bundles' = IF refs[next] = "empty" THEN bundles
                          ELSE Append(bundles, refs[next])
            /\ UNCHANGED <<pc, errs, lastErr, result>>
    /\ next' = next + 1
    /\ UNCHANGED <<given, truncated, signer, tree, bytes>>

\* One iteration of fetchSignatureBundle.
FetchReferrer ==
    /\ pc = "referrers" /\ next <= Inspected
    /\ bundles' = IF refs[next] \in {"broken", "empty"} THEN bundles
                  ELSE Append(bundles, refs[next])
    /\ lastErr' = (lastErr \/ refs[next] = "broken")
    /\ next' = next + 1
    /\ UNCHANGED <<given, pc, truncated, errs, signer, tree, bytes, result>>

\* The end of fetchSignatureBundle, and the start of Verifier.Index.
ReferrersDone ==
    /\ pc = "referrers" /\ next > Inspected
    /\ IF bundles = <<>>
       THEN Stop(IF lastErr THEN {"Fetch"} ELSE {"Unsigned"}) /\ UNCHANGED next
       ELSE pc' = "bundles" /\ next' = 1 /\ UNCHANGED <<errs, result>>
    /\ UNCHANGED <<given, bundles, lastErr, truncated, signer, tree, bytes>>

(***************************************************************************)
(* Verifier.Index: the first bundle that verifies and has an acceptable    *)
(* signer.                                                                 *)
(***************************************************************************)
\* IdentityPolicy.check
check(id) == pin = None \/ id = pin

VerifyBundle ==
    /\ pc = "bundles" /\ next <= Len(bundles)
    /\ LET b == bundles[next] IN
       IF b # "invalid" /\ check(b)
       THEN pc' = "walk" /\ signer' = b /\ next' = 1 /\ UNCHANGED errs
       ELSE /\ errs' = errs \cup {IF b = "invalid" THEN "SignatureInvalid"
                                                   ELSE "IdentityMismatch"}
            /\ next' = next + 1
            /\ UNCHANGED <<pc, signer>>
    /\ UNCHANGED <<given, bundles, lastErr, truncated, tree, bytes, result>>

NoBundlePassed ==
    /\ pc = "bundles" /\ next > Len(bundles)
    /\ Stop(IF truncated THEN {"SignatureInvalid", "Truncated"} ELSE errs)
    /\ UNCHANGED <<given, next, bundles, lastErr, truncated, signer, tree, bytes>>

(***************************************************************************)
(* walkVerifiedIndex: index, child manifest, config, layer.                *)
(***************************************************************************)
Order == <<"index", "child", "config", "layer">>

\* Mutant: the digest of the binary is left to the transport.
checkDigest_NotOfLayer(piece) == piece = "layer" \/ piece \notin bytes'

checkDigest(piece) == piece \notin bytes'

\* What the walk finds wrong with a piece whose digest is right.
Complaint(piece, t) ==
    CASE piece \in t.malformed -> {"MalformedIndex"}
      [] piece = "index" /\ ~t.host -> {"PlatformUnavailable"}
      [] piece = "config" /\ t.layers # 1 -> {"MalformedIndex"}
      [] piece = "layer" /\ ~t.asked -> {"MalformedIndex"}
      [] OTHER -> {}

\* Check the piece at hand, then go on or stop.
Judge(piece, t) ==
    IF ~checkDigest(piece) THEN Stop({"DigestMismatch"}) /\ UNCHANGED next
    ELSE IF Complaint(piece, t) # {} THEN Stop(Complaint(piece, t)) /\ UNCHANGED next
    ELSE IF next < Len(Order) THEN next' = next + 1 /\ UNCHANGED <<pc, errs, result>>
    ELSE pc' = "done" /\ result' = "verified" /\ UNCHANGED <<next, errs>>

\* The index has been fetched already.
WalkIndex(t) ==
    /\ pc = "walk" /\ next = 1
    /\ tree' = t
    /\ bytes' = bytes
    /\ Judge("index", t)
    /\ UNCHANGED <<given, bundles, lastErr, truncated, signer>>

\* The other pieces are fetched as the walk comes to them.
WalkPiece(right) ==
    /\ pc = "walk" /\ next > 1
    /\ bytes' = IF right THEN bytes ELSE bytes \cup {Order[next]}
    /\ Judge(Order[next], tree)
    /\ UNCHANGED <<given, bundles, lastErr, truncated, signer, tree>>

WalkFails ==
    /\ pc = "walk" /\ next > 1
    /\ Stop({"Fetch"})
    /\ UNCHANGED <<given, next, bundles, lastErr, truncated, signer, tree, bytes>>

Next ==
    \/ \E right \in BOOLEAN : PullIndex(right)
    \/ PullFails
    \/ FetchReferrer
    \/ ReferrersDone
    \/ VerifyBundle
    \/ NoBundlePassed
    \/ \E t \in Tree : WalkIndex(t)
    \/ \E right \in BOOLEAN : WalkPiece(right)
    \/ WalkFails

Spec == Init /\ [][Next]_vars

----------------------------------------------------------------------------
(* Properties.                                                             *)

Acceptable(r) == r \in Identities /\ (pin = None \/ r = pin)

\* The state is well formed, and no more than the limit of bundles is buffered
\* and verified, however many referrers the registry lists.
VerifyTypeOK ==
    /\ pc \in {"resolve", "referrers", "bundles", "walk", "done"}
    /\ next \in Nat \ {0}
    /\ bundles \in Seq({"invalid"} \cup Identities)
    /\ Len(bundles) <= maxSignatureReferrers
    /\ errs \subseteq Errors
    /\ signer \in Identities \cup {None}
    /\ tree \in Tree \cup {None}
    /\ bytes \subseteq Pieces
    /\ result \in {"none", "verified", "error"}

\* sigstore.go:5: "Everything fails closed".  What is verified was signed, by
\* the pinned identity if there is one, is the bytes that the signed index
\* commits to at every arrow of the walk, and is for this host, plugin and
\* version.
VerifiedIsSigned ==
    result = "verified" =>
        /\ \E k \in 1..Len(refs) : refs[k] = signer /\ Acceptable(signer)
        /\ bytes = {}
        /\ tree = [malformed |-> {}, host |-> TRUE, layers |-> 1, asked |-> TRUE]

\* pull.go:210: "A single broken/poisoned referrer must NOT make a
\* validly-signed plugin uninstallable".  However many broken, empty, invalid
\* or foreign referrers come before it, an acceptable signature within the
\* limit is found: a search that has begun ends with a signer.
SignatureFound ==
    (\E k \in 1..Inspected : Acceptable(refs[k])) =>
        (pc = "done" /\ next > 1 => signer # None)

\* pull.go:36: "a registry that crowds in junk referrers must not be able to
\* silently mask a valid signature as absent".
NotMasked ==
    (\E k \in 1..Len(refs) : Acceptable(refs[k])) => "Unsigned" \notin errs
============================================================================
