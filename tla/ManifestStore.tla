--------------------------- MODULE ManifestStore ---------------------------
(***************************************************************************)
(* What internal/manifest promises its callers: plugins.json is a map from *)
(* name@version to the entry of an installed plugin, and however many      *)
(* installers run at once, each one's Add takes effect at a single moment, *)
(* on the map as it is at that moment.  No entry another one added is      *)
(* lost.                                                                   *)
(***************************************************************************)
CONSTANTS
    Keys,     \* name@version
    Entries,  \* manifest.Plugin
    None      \* no entry under the key

VARIABLE entries

Init == entries = [k \in Keys |-> None]

Add(k, e) == entries' = [entries EXCEPT ![k] = e]

Next == \E k \in Keys, e \in Entries : Add(k, e)

Spec == Init /\ [][Next]_entries
============================================================================
