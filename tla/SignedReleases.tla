--------------------------- MODULE SignedReleases ---------------------------
(***************************************************************************)
(* What internal/publish promises the users of the hub: a release becomes  *)
(* available as a whole and at once, only a build that passed the checks   *)
(* does, only what is available is signed, and only what is signed is      *)
(* listed, under its own version.  However many publish and wherever they  *)
(* fail, nothing is taken away again: a version once listed stays listed,  *)
(* if perhaps with another build.                                          *)
(***************************************************************************)
CONSTANTS
    Releasable,  \* the builds that pass the checks
    Versions,
    VersionOf,   \* the version of each of them
    None         \* nothing is listed under the version

VARIABLES available, signed, listed

vars == <<available, signed, listed>>

Init ==
    /\ available = {}
    /\ signed = {}
    /\ listed = [v \in Versions |-> None]

MakeAvailable(b) ==
    /\ available' = available \cup {b}
    /\ UNCHANGED <<signed, listed>>

Sign(b) ==
    /\ b \in available
    /\ signed' = signed \cup {b}
    /\ UNCHANGED <<available, listed>>

List(b) ==
    /\ b \in signed
    /\ listed' = [listed EXCEPT ![VersionOf[b]] = b]
    /\ UNCHANGED <<available, signed>>

Next == \E b \in Releasable : MakeAvailable(b) \/ Sign(b) \/ List(b)

Spec == Init /\ [][Next]_vars
=============================================================================
