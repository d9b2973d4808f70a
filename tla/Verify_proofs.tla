--------------------------- MODULE Verify_proofs ---------------------------
(***************************************************************************)
(* Proofs about Verify, for every limit, every number of referrers and     *)
(* every set of identities.                                                *)
(***************************************************************************)
EXTENDS Verify, TLAPS

----------------------------------------------------------------------------
(* The inductive invariant.                                                *)

\* What the registry and the policy are.
Givens ==
    refs \in Seq(Referrers) /\ pin \in Identities \cup {None}

\* A referrer that has a bundle at all.
HasBundle(r) == r \notin {"broken", "empty"}

\* Every bundle is that of a referrer the registry listed.
FromReferrers ==
    \A j \in 1..Len(bundles) : \E k \in 1..Len(refs) : bundles[j] = refs[k]

\* Every bundle among the first n referrers is found.
FoundUpTo(n) ==
    \A k \in 1..n : HasBundle(refs[k]) => \E j \in 1..Len(bundles) : bundles[j] = refs[k]

\* Nothing is decided yet.
Undecided ==
    signer = None /\ tree = None /\ result = "none" /\ bytes \subseteq {"index"}

\* What has been signed by an identity the policy accepts.
SignerFound ==
    Acceptable(signer) /\ \E k \in 1..Len(refs) : refs[k] = signer

\* The walk has come to piece n: nothing is wrong with the pieces before it.
WalkedTo(n) ==
    /\ n = 1 => tree = None /\ bytes \subseteq {"index"}
    /\ n > 1 => tree \in Tree /\ bytes = {} /\ tree.host /\ "index" \notin tree.malformed
    /\ n > 2 => "child" \notin tree.malformed
    /\ n > 3 => "config" \notin tree.malformed /\ tree.layers = 1

NoneAcceptable ==
    \A k \in 1..Inspected : ~Acceptable(refs[k])

\* What each stage has behind it.
Stages ==
    /\ pc = "resolve" => Undecided /\ next = 1 /\ bundles = <<>>
    /\ pc = "referrers" =>
         /\ Undecided
         /\ next <= Inspected + 1 /\ Len(bundles) < next
         /\ FoundUpTo(next - 1)
    /\ pc = "bundles" =>
         /\ Undecided
         /\ next <= Len(bundles) + 1
         /\ FoundUpTo(Inspected)
         /\ \A j \in 1..(next - 1) : ~Acceptable(bundles[j])
    /\ pc = "walk" =>
         /\ SignerFound /\ result = "none"
         /\ next <= Len(Order) /\ WalkedTo(next)
    /\ pc = "done" =>
         /\ result # "none"
         /\ next > 1 /\ signer = None => NoneAcceptable

VerifyInv ==
    /\ VerifyTypeOK
    /\ Givens
    /\ FromReferrers
    /\ Stages
    /\ VerifiedIsSigned

----------------------------------------------------------------------------
(* Facts the steps share.                                                  *)

\* The lengths are numbers, and the search stays within the list.
LEMMA InspectedBounds ==
    ASSUME Givens
    PROVE  /\ Len(refs) \in Nat /\ Inspected \in Nat
           /\ Inspected <= Len(refs) /\ Inspected <= maxSignatureReferrers
           /\ \A k \in 1..Len(refs) : refs[k] \in Referrers
BY Limits DEF Givens, Inspected, Least

\* What one appended bundle is.
LEMMA Appended ==
    ASSUME VerifyTypeOK, NEW b \in {"invalid"} \cup Identities,
           bundles' = Append(bundles, b)
    PROVE  /\ bundles' \in Seq({"invalid"} \cup Identities)
           /\ Len(bundles) \in Nat /\ Len(bundles') = Len(bundles) + 1
           /\ \A j \in 1..Len(bundles) : bundles'[j] = bundles[j]
           /\ bundles'[Len(bundles) + 1] = b
BY DEF VerifyTypeOK

\* The pieces in the order of the walk.
LEMMA OrderFacts ==
    /\ Len(Order) = 4
    /\ Order[2] = "child" /\ Order[3] = "config" /\ Order[4] = "layer"
BY DEF Order

\* An acceptable signer is no placeholder.
LEMMA AcceptableIsAnIdentity ==
    ASSUME NEW r, Acceptable(r)
    PROVE  r \in Identities /\ HasBundle(r) /\ r # None
BY Limits DEF Acceptable, HasBundle

----------------------------------------------------------------------------
(* Every action keeps VerifyInv.                                           *)

\* PullIndex, or its failure.
LEMMA PullStep ==
    ASSUME VerifyInv, (\E right \in BOOLEAN : PullIndex(right)) \/ PullFails
    PROVE  VerifyInv'
<1> USE DEF VerifyInv
<1>1. CASE \E right \in BOOLEAN : PullIndex(right)
  <2>1. /\ pc = "resolve" /\ pc' = "referrers" /\ bytes' \subseteq {"index"}
        /\ UNCHANGED <<refs, pin, next, bundles, lastErr, errs, signer, tree, result>>
    BY <1>1 DEF PullIndex, given
  <2>2. VerifyTypeOK' /\ Givens' /\ FromReferrers' /\ VerifiedIsSigned'
    BY <2>1 DEF VerifyTypeOK, Givens, FromReferrers, VerifiedIsSigned, Pieces, Acceptable,
                Stages, Undecided
  <2>3. Inspected' = Inspected /\ Inspected \in Nat
    BY <2>1, InspectedBounds DEF Inspected
  <2>4. Stages'
    BY <2>1, <2>3 DEF Stages, Undecided, FoundUpTo
  <2> QED BY <2>2, <2>4
<1>2. CASE PullFails
  <2>1. /\ pc = "resolve" /\ pc' = "done" /\ result' = "error" /\ errs' = {"Fetch"}
        /\ UNCHANGED <<refs, pin, next, bundles, lastErr, truncated, signer, tree, bytes>>
    BY <1>2 DEF PullFails, Stop, given
  <2>2. VerifyTypeOK' /\ Givens' /\ FromReferrers' /\ VerifiedIsSigned'
    BY <2>1 DEF VerifyTypeOK, Givens, FromReferrers, VerifiedIsSigned, Errors
  <2>3. Stages'
    BY <2>1 DEF Stages
  <2> QED BY <2>2, <2>3
<1> QED BY <1>1, <1>2

\* One referrer more: its bundle is kept if it has one.
LEMMA FetchStep ==
    ASSUME VerifyInv, FetchReferrer
    PROVE  VerifyInv'
<1> USE DEF VerifyInv
<1>1. /\ pc = "referrers" /\ next <= Inspected /\ next' = next + 1
      /\ bundles' = IF HasBundle(refs[next]) THEN Append(bundles, refs[next]) ELSE bundles
      /\ UNCHANGED <<refs, pin, pc, truncated, errs, signer, tree, bytes, result>>
  BY DEF FetchReferrer, given, HasBundle
<1>2. /\ Inspected' = Inspected /\ Inspected \in Nat /\ next \in Nat \ {0}
      /\ Inspected <= Len(refs) /\ Inspected <= maxSignatureReferrers
      /\ Len(refs) \in Nat /\ refs[next] \in Referrers
      /\ maxSignatureReferrers \in Nat
  BY <1>1, InspectedBounds, Limits DEF Inspected, VerifyTypeOK
<1>3. Undecided /\ Len(bundles) < next /\ FoundUpTo(next - 1) /\ Len(bundles) \in Nat
  BY <1>1 DEF Stages, VerifyTypeOK
<1>4. HasBundle(refs[next]) => refs[next] \in {"invalid"} \cup Identities
  BY <1>2 DEF HasBundle, Referrers
<1>5. bundles' \in Seq({"invalid"} \cup Identities) /\ Len(bundles') < next'
      /\ Len(bundles') \in Nat
  BY <1>1, <1>2, <1>3, <1>4, Appended DEF VerifyTypeOK
<1>6. VerifyTypeOK'
  BY <1>1, <1>2, <1>5 DEF VerifyTypeOK
<1>7. FromReferrers'
  <2>1. CASE HasBundle(refs[next])
    BY <1>1, <1>2, <1>3, <1>4, <2>1, Appended DEF FromReferrers
  <2>2. CASE ~HasBundle(refs[next])
    BY <1>1, <2>2 DEF FromReferrers
  <2> QED BY <2>1, <2>2
<1>8. ASSUME NEW k \in 1..next, HasBundle(refs[k])
      PROVE  \E j \in 1..Len(bundles') : bundles'[j] = refs[k]
  <2>1. CASE k = next
    <3>1. bundles'[Len(bundles) + 1] = refs[k] /\ Len(bundles') = Len(bundles) + 1
      BY <1>1, <1>4, <1>8, <2>1, Appended
    <3> QED BY <1>3, <3>1
  <2>2. CASE k # next
    <3>1. PICK j \in 1..Len(bundles) : bundles[j] = refs[k]
      BY <1>2, <1>3, <1>8, <2>2 DEF FoundUpTo
    <3>2. j \in 1..Len(bundles') /\ bundles'[j] = bundles[j]
      BY <1>1, <1>3, <1>4, Appended
    <3> QED BY <3>1, <3>2
  <2> QED BY <2>1, <2>2
<1>9. Stages'
  <2>1. FoundUpTo(next - 1)'
    BY <1>1, <1>2, <1>8 DEF FoundUpTo
  <2> QED BY <1>1, <1>2, <1>3, <1>5, <2>1 DEF Stages, Undecided
<1> QED BY <1>1, <1>3, <1>6, <1>7, <1>9 DEF Givens, VerifiedIsSigned, Undecided

\* The search begins with every bundle within the limit, or ends because there
\* is none.
LEMMA ReferrersDoneStep ==
    ASSUME VerifyInv, ReferrersDone
    PROVE  VerifyInv'
<1> USE DEF VerifyInv
<1>1. /\ pc = "referrers" /\ next > Inspected
      /\ UNCHANGED <<refs, pin, bundles, lastErr, truncated, signer, tree, bytes>>
  BY DEF ReferrersDone, given
<1>2. Undecided /\ next = Inspected + 1 /\ FoundUpTo(Inspected)
      /\ Inspected' = Inspected /\ Inspected \in Nat /\ Len(bundles) \in Nat
  BY <1>1, InspectedBounds DEF Stages, VerifyTypeOK, Inspected
<1>3. FromReferrers' /\ Givens'
  BY <1>1 DEF FromReferrers, Givens
<1>4. CASE bundles = <<>>
  <2>1. /\ pc' = "done" /\ result' = "error" /\ next' = next
        /\ errs' \in {{"Fetch"}, {"Unsigned"}}
    BY <1>4 DEF ReferrersDone, Stop
  <2>2. NoneAcceptable'
    <3> SUFFICES ASSUME NEW k \in 1..Inspected, Acceptable(refs[k]) PROVE FALSE
      BY <1>1, <1>2 DEF NoneAcceptable, Acceptable
    <3>1. HasBundle(refs[k])
      BY AcceptableIsAnIdentity
    <3> QED BY <1>2, <1>4, <3>1 DEF FoundUpTo
  <2> QED BY <1>1, <1>3, <2>1, <2>2 DEF VerifyTypeOK, Errors, Stages, VerifiedIsSigned
<1>5. CASE bundles # <<>>
  <2>1. pc' = "bundles" /\ next' = 1 /\ UNCHANGED <<errs, result>>
    BY <1>5 DEF ReferrersDone
  <2>2. Stages'
    BY <1>1, <1>2, <2>1 DEF Stages, Undecided, FoundUpTo
  <2> QED BY <1>1, <1>2, <1>3, <2>1, <2>2 DEF VerifyTypeOK, VerifiedIsSigned, Undecided
<1> QED BY <1>4, <1>5

\* A bundle is accepted, or passed over because it is not acceptable.
LEMMA VerifyBundleStep ==
    ASSUME VerifyInv, VerifyBundle
    PROVE  VerifyInv'
<1> USE DEF VerifyInv
<1> DEFINE b == bundles[next]
<1>1. /\ pc = "bundles" /\ next <= Len(bundles)
      /\ UNCHANGED <<refs, pin, bundles, lastErr, truncated, tree, bytes, result>>
  BY DEF VerifyBundle, given
<1>2. /\ Undecided /\ FoundUpTo(Inspected) /\ \A j \in 1..(next - 1) : ~Acceptable(bundles[j])
      /\ next \in Nat \ {0} /\ Len(bundles) \in Nat
      /\ Inspected' = Inspected /\ Inspected \in Nat
  BY <1>1, InspectedBounds DEF Stages, VerifyTypeOK, Inspected
<1>3. b \in {"invalid"} \cup Identities
  BY <1>1, <1>2 DEF VerifyTypeOK
<1>4. FromReferrers' /\ Givens' /\ VerifiedIsSigned'
  BY <1>1, <1>2 DEF FromReferrers, Givens, VerifiedIsSigned, Undecided
<1>5. CASE b # "invalid" /\ check(b)
  <2>1. pc' = "walk" /\ signer' = b /\ next' = 1 /\ errs' = errs
    BY <1>5 DEF VerifyBundle
  <2>2. b \in Identities /\ Acceptable(b) /\ \E k \in 1..Len(refs) : refs[k] = b
    BY <1>1, <1>2, <1>3, <1>5 DEF Acceptable, check, FromReferrers
  <2> HIDE DEF b
  <2>3. VerifyTypeOK'
    BY <1>1, <2>1, <2>2 DEF VerifyTypeOK
  <2>4. SignerFound'
    BY <1>1, <2>1, <2>2 DEF SignerFound, Acceptable
  <2>5. WalkedTo(next)'
    BY <1>1, <1>2, <2>1 DEF WalkedTo, Undecided
  <2>6. Stages'
    BY <1>1, <1>2, <2>1, <2>4, <2>5, OrderFacts DEF Stages, Undecided
  <2> QED BY <1>4, <2>3, <2>6
<1>6. CASE ~(b # "invalid" /\ check(b))
  <2>1. /\ pc' = pc /\ signer' = signer /\ next' = next + 1
        /\ errs' \subseteq errs \cup {"SignatureInvalid", "IdentityMismatch"}
    BY <1>6 DEF VerifyBundle
  <2>2. ~Acceptable(b)
    BY <1>6, Limits DEF Acceptable, check
  <2> HIDE DEF b
  <2>3. \A j \in 1..next : ~Acceptable(bundles[j])
    BY <1>2, <2>2 DEF b
  <2>4. VerifyTypeOK'
    BY <1>1, <1>2, <2>1 DEF VerifyTypeOK, Errors
  <2>5. Stages'
    BY <1>1, <1>2, <2>1, <2>3 DEF Stages, Undecided, FoundUpTo, Acceptable
  <2> QED BY <1>4, <2>4, <2>5
<1> QED BY <1>5, <1>6

\* The bundles are exhausted: none within the limit is acceptable.
LEMMA NoBundleStep ==
    ASSUME VerifyInv, NoBundlePassed
    PROVE  VerifyInv'
<1> USE DEF VerifyInv
<1>1. /\ pc = "bundles" /\ next > Len(bundles) /\ pc' = "done" /\ result' = "error"
      /\ errs' \subseteq errs \cup {"SignatureInvalid", "Truncated"}
      /\ UNCHANGED <<refs, pin, next, bundles, lastErr, truncated, signer, tree, bytes>>
  BY DEF NoBundlePassed, Stop, given
<1>2. /\ FoundUpTo(Inspected) /\ \A j \in 1..Len(bundles) : ~Acceptable(bundles[j])
      /\ Inspected' = Inspected
  BY <1>1 DEF Stages, VerifyTypeOK, Inspected
<1>3. NoneAcceptable'
  <2> SUFFICES ASSUME NEW k \in 1..Inspected, Acceptable(refs[k]) PROVE FALSE
    BY <1>1, <1>2 DEF NoneAcceptable, Acceptable
  <2>1. HasBundle(refs[k])
    BY AcceptableIsAnIdentity
  <2> QED BY <1>2, <2>1 DEF FoundUpTo
<1>4. VerifyTypeOK' /\ Givens' /\ FromReferrers' /\ VerifiedIsSigned'
  BY <1>1 DEF VerifyTypeOK, Givens, FromReferrers, VerifiedIsSigned, Errors
<1> QED BY <1>1, <1>3, <1>4 DEF Stages

\* The walk stops with an error.
LEMMA WalkStops ==
    ASSUME VerifyInv, pc = "walk", NEW es \in SUBSET Errors, Stop(es), next' = next,
           tree' \in Tree \cup {None}, bytes' \subseteq Pieces,
           UNCHANGED <<refs, pin, bundles, lastErr, truncated, signer>>
    PROVE  VerifyInv'
<1> USE DEF VerifyInv
<1>1. VerifyTypeOK' /\ Givens' /\ FromReferrers' /\ VerifiedIsSigned'
  BY DEF VerifyTypeOK, Givens, FromReferrers, VerifiedIsSigned, Stop
<1>2. signer # None
  BY AcceptableIsAnIdentity DEF Stages, SignerFound
<1> QED BY <1>1, <1>2 DEF Stages, Stop

\* A piece is in order and the walk goes on to the next.
LEMMA WalkGoesOn ==
    ASSUME VerifyInv, pc = "walk", next < 4, next' = next + 1,
           tree' \in Tree, bytes' = {}, WalkedTo(next)',
           UNCHANGED <<refs, pin, pc, bundles, lastErr, truncated, errs, signer, result>>
    PROVE  VerifyInv'
<1> USE DEF VerifyInv
<1>1. VerifyTypeOK' /\ Givens' /\ FromReferrers'
  BY DEF VerifyTypeOK, Givens, FromReferrers
<1>2. SignerFound' /\ result' = "none"
  BY DEF Stages, SignerFound, Acceptable
<1>3. Stages' /\ VerifiedIsSigned'
  BY <1>2, OrderFacts DEF Stages, VerifyTypeOK, VerifiedIsSigned
<1> QED BY <1>1, <1>3

\* The last piece is in order.
LEMMA WalkEnds ==
    ASSUME VerifyInv, pc = "walk", pc' = "done", result' = "verified", bytes' = {},
           tree' = [malformed |-> {}, host |-> TRUE, layers |-> 1, asked |-> TRUE],
           UNCHANGED <<refs, pin, next, bundles, lastErr, truncated, errs, signer>>
    PROVE  VerifyInv'
<1> USE DEF VerifyInv
<1>1. tree' \in Tree
  BY DEF Tree
<1>2. VerifyTypeOK' /\ Givens' /\ FromReferrers'
  BY <1>1 DEF VerifyTypeOK, Givens, FromReferrers
<1>3. SignerFound' /\ signer # None
  BY AcceptableIsAnIdentity DEF Stages, SignerFound, Acceptable
<1>4. Stages' /\ VerifiedIsSigned'
  BY <1>3 DEF Stages, VerifiedIsSigned, SignerFound
<1> QED BY <1>2, <1>4

\* What Complaint says of each piece, and that it is an error of the walk.
LEMMA Complaints ==
    ASSUME NEW t \in Tree
    PROVE  /\ \A piece \in Pieces : Complaint(piece, t) \subseteq Errors
           /\ Complaint("index", t) = {} => "index" \notin t.malformed /\ t.host
           /\ Complaint("child", t) = {} => "child" \notin t.malformed
           /\ Complaint("config", t) = {} => "config" \notin t.malformed /\ t.layers = 1
           /\ Complaint("layer", t) = {} => t.asked
<1>1. t.malformed \subseteq {"index", "child", "config"} /\ t.host \in BOOLEAN
      /\ t.layers \in 0..2 /\ t.asked \in BOOLEAN
  BY DEF Tree
<1>2. ASSUME NEW piece \in Pieces PROVE Complaint(piece, t) \subseteq Errors
  BY DEF Complaint, Errors
<1>3. Complaint("index", t) = {} => "index" \notin t.malformed /\ t.host
  BY DEF Complaint
<1>4. Complaint("child", t) = {} => "child" \notin t.malformed
  BY DEF Complaint
<1>5. Complaint("config", t) = {} => "config" \notin t.malformed /\ t.layers = 1
  BY DEF Complaint
<1>6. Complaint("layer", t) = {} => t.asked
  BY <1>1 DEF Complaint
<1> QED BY <1>2, <1>3, <1>4, <1>5, <1>6

\* The index is judged.
LEMMA WalkIndexStep ==
    ASSUME VerifyInv, NEW t \in Tree, WalkIndex(t)
    PROVE  VerifyInv'
<1>1. /\ pc = "walk" /\ next = 1 /\ tree' = t /\ bytes' = bytes /\ Judge("index", t)
      /\ UNCHANGED <<refs, pin, bundles, lastErr, truncated, signer>>
  BY DEF WalkIndex, given
<1>2. bytes \subseteq {"index"} /\ bytes' \subseteq Pieces
  BY <1>1 DEF VerifyInv, Stages, WalkedTo, Pieces
<1>3. CASE "index" \in bytes'
  <2>1. Stop({"DigestMismatch"}) /\ next' = next
    BY <1>1, <1>3 DEF Judge, checkDigest
  <2> QED BY <1>1, <1>2, <2>1, WalkStops DEF Errors
<1>4. CASE "index" \notin bytes' /\ Complaint("index", t) # {}
  <2>1. Stop(Complaint("index", t)) /\ next' = next
    BY <1>1, <1>4 DEF Judge, checkDigest
  <2> QED BY <1>1, <1>2, <2>1, Complaints, WalkStops DEF Pieces
<1>5. CASE "index" \notin bytes' /\ Complaint("index", t) = {}
  <2>1. next' = next + 1 /\ UNCHANGED <<pc, errs, result>>
    BY <1>1, <1>5, OrderFacts DEF Judge, checkDigest
  <2>2. bytes' = {} /\ WalkedTo(next)'
    BY <1>1, <1>2, <1>5, <2>1, Complaints DEF WalkedTo
  <2> QED BY <1>1, <2>1, <2>2, WalkGoesOn
<1> QED BY <1>3, <1>4, <1>5

\* The child manifest, the config or the layer is fetched and judged.
LEMMA WalkPieceStep ==
    ASSUME VerifyInv, NEW right \in BOOLEAN, WalkPiece(right)
    PROVE  VerifyInv'
<1> DEFINE piece == Order[next]
<1>1. /\ pc = "walk" /\ next > 1 /\ Judge(piece, tree)
      /\ UNCHANGED <<refs, pin, bundles, lastErr, truncated, signer, tree>>
      /\ bytes' = IF right THEN bytes ELSE bytes \cup {piece}
  BY DEF WalkPiece, given
<1>2. WalkedTo(next) /\ tree \in Tree /\ next \in {2, 3, 4} /\ bytes = {}
  BY <1>1, OrderFacts DEF VerifyInv, Stages, VerifyTypeOK, WalkedTo
<1>3. piece \in Pieces /\ bytes' \subseteq {piece}
  BY <1>1, <1>2, OrderFacts DEF Pieces
<1>4. CASE piece \in bytes'
  <2>1. Stop({"DigestMismatch"}) /\ next' = next
    BY <1>1, <1>4 DEF Judge, checkDigest
  <2> QED BY <1>1, <1>2, <1>3, <2>1, WalkStops DEF Errors
<1>5. CASE piece \notin bytes' /\ Complaint(piece, tree) # {}
  <2>1. Stop(Complaint(piece, tree)) /\ next' = next
    BY <1>1, <1>5 DEF Judge, checkDigest
  <2>2. Complaint(piece, tree) \subseteq Errors
    BY <1>2, <1>3, Complaints
  <2> QED BY <1>1, <1>2, <1>3, <2>1, <2>2, WalkStops
<1>6. CASE piece \notin bytes' /\ Complaint(piece, tree) = {} /\ next # 4
  <2>1. next' = next + 1 /\ UNCHANGED <<pc, errs, result>> /\ bytes' = {}
    BY <1>1, <1>2, <1>3, <1>6, OrderFacts DEF Judge, checkDigest
  <2>2. WalkedTo(next)'
    <3>1. CASE next = 2
      BY <1>1, <1>2, <1>6, <2>1, <3>1, OrderFacts, Complaints DEF WalkedTo
    <3>2. CASE next = 3
      BY <1>1, <1>2, <1>6, <2>1, <3>2, OrderFacts, Complaints DEF WalkedTo
    <3> QED BY <1>2, <1>6, <3>1, <3>2
  <2> QED BY <1>1, <1>2, <1>6, <2>1, <2>2, WalkGoesOn
<1>7. CASE piece \notin bytes' /\ Complaint(piece, tree) = {} /\ next = 4
  <2>1. pc' = "done" /\ result' = "verified" /\ UNCHANGED <<next, errs>> /\ bytes' = {}
    BY <1>1, <1>2, <1>3, <1>7, OrderFacts DEF Judge, checkDigest
  <2>2. tree.asked /\ tree.host /\ tree.layers = 1
        /\ tree.malformed \cap {"index", "child", "config"} = {}
    BY <1>2, <1>7, OrderFacts, Complaints DEF WalkedTo
  <2>3. tree = [malformed |-> {}, host |-> TRUE, layers |-> 1, asked |-> TRUE]
    <3>1. tree.malformed = {} /\ tree.host = TRUE /\ tree.asked = TRUE
      BY <1>2, <2>2 DEF Tree
    <3> QED BY <1>2, <2>2, <3>1 DEF Tree
  <2> QED BY <1>1, <2>1, <2>3, WalkEnds
<1> QED BY <1>2, <1>4, <1>5, <1>6, <1>7

----------------------------------------------------------------------------
(* The theorems.                                                           *)

\* Every step keeps VerifyInv.
LEMMA VerifyStep ==
    ASSUME VerifyInv, [Next]_vars
    PROVE  VerifyInv'
<1>1. CASE (\E right \in BOOLEAN : PullIndex(right)) \/ PullFails
  BY <1>1, PullStep
<1>2. CASE FetchReferrer
  BY <1>2, FetchStep
<1>3. CASE ReferrersDone
  BY <1>3, ReferrersDoneStep
<1>4. CASE VerifyBundle
  BY <1>4, VerifyBundleStep
<1>5. CASE NoBundlePassed
  BY <1>5, NoBundleStep
<1>6. ASSUME NEW t \in Tree, WalkIndex(t) PROVE VerifyInv'
  BY <1>6, WalkIndexStep
<1>7. ASSUME NEW right \in BOOLEAN, WalkPiece(right) PROVE VerifyInv'
  BY <1>7, WalkPieceStep
<1>8. CASE WalkFails
  <2>1. /\ pc = "walk" /\ next' = next /\ Stop({"Fetch"})
        /\ UNCHANGED <<refs, pin, bundles, lastErr, truncated, signer, tree, bytes>>
    BY <1>8 DEF WalkFails, given
  <2> QED BY <2>1, WalkStops DEF Errors, VerifyInv, VerifyTypeOK
<1>9. CASE UNCHANGED vars
  BY <1>9 DEF vars, VerifyInv, VerifyTypeOK, Givens, FromReferrers, Stages, VerifiedIsSigned,
              Undecided, FoundUpTo, Inspected, SignerFound, WalkedTo, NoneAcceptable,
              Acceptable
<1> QED BY <1>1, <1>2, <1>3, <1>4, <1>5, <1>6, <1>7, <1>8, <1>9 DEF Next

\* Before anything is pulled VerifyInv holds, whatever the registry lists.
LEMMA VerifyInitially == Init => VerifyInv
<1> SUFFICES ASSUME Init PROVE VerifyInv
  OBVIOUS
<1>1. Givens
  BY DEF Init, Givens
<1>2. VerifyTypeOK /\ FromReferrers /\ VerifiedIsSigned
  BY Limits DEF Init, VerifyTypeOK, FromReferrers, VerifiedIsSigned
<1>3. Stages
  BY DEF Init, Stages, Undecided
<1> QED BY <1>1, <1>2, <1>3 DEF VerifyInv

\* VerifyInv holds throughout.
THEOREM VerifyInvariant == Spec => []VerifyInv
BY VerifyInitially, VerifyStep, PTL DEF Spec

\* The state is well formed, and no more bundles than the limit are buffered.
THEOREM VerifyTypeCorrect == Spec => []VerifyTypeOK
<1>1. VerifyInv => VerifyTypeOK
  BY DEF VerifyInv
<1> QED BY <1>1, VerifyInvariant, PTL

\* sigstore.go: everything fails closed, along every arrow from the signature
\* to the binary.
THEOREM FailsClosed == Spec => []VerifiedIsSigned
<1>1. VerifyInv => VerifiedIsSigned
  BY DEF VerifyInv
<1> QED BY <1>1, VerifyInvariant, PTL

\* pull.go: no referrer, however broken, hides a good one within the limit.
THEOREM NoReferrerHidesAnother == Spec => []SignatureFound
<1>1. ASSUME VerifyInv PROVE SignatureFound
  BY <1>1 DEF VerifyInv, Stages, SignatureFound, NoneAcceptable
<1> QED BY <1>1, VerifyInvariant, PTL
============================================================================
