--------------------------- MODULE LatestVersion ---------------------------
(***************************************************************************)
(* internal/manifest: Latest, the choice among the installed versions of   *)
(* one plugin.  Both the run-time resolver and the reader of the pinned    *)
(* signer rely on it.  Latest scans a Go map, so it meets the versions in  *)
(* any order, and keeps the best it has seen according to                  *)
(* compareVersions, which mixes two orders: that of the semver package     *)
(* for two valid versions, the lexical one for any other pair.             *)
(***************************************************************************)
EXTENDS Naturals, FiniteSets

CONSTANTS
    Versions,   \* version strings
    SemVer,     \* rank of a version in semver order, 0 if it is not valid
    Lexical,    \* rank of a version in lexical order
    None        \* nil

ASSUME Ranks ==
    /\ SemVer \in [Versions -> Nat]
    /\ Lexical \in [Versions -> Nat]
    /\ \A v, w \in Versions : Lexical[v] = Lexical[w] => v = w
    /\ None \notin Versions

VARIABLES
    installed,  \* the versions of the plugin that are in the manifest
    scanning,   \* a call of Latest is running
    rest,       \* the entries its loop has not met yet
    best,       \* the best one met so far
    answers     \* observer: what Latest has returned for this manifest

vars == <<installed, scanning, rest, best, answers>>

Valid(v) == SemVer[v] # 0

\* Mutant: versions are compared as strings.
compareVersions_Lexical(a, b) == Lexical[a] > Lexical[b]

\* compareVersions(a, b) > 0
compareVersions(a, b) ==
    IF Valid(a) /\ Valid(b) THEN SemVer[a] > SemVer[b]
                            ELSE Lexical[a] > Lexical[b]

Init ==
    /\ installed = {}
    /\ scanning = FALSE
    /\ rest = {}
    /\ best = None
    /\ answers = {}

Add(v) ==
    /\ ~scanning
    /\ installed' = installed \cup {v}
    /\ answers' = IF v \in installed THEN answers ELSE {}
    /\ UNCHANGED <<scanning, rest, best>>

Latest ==
    /\ ~scanning
    /\ scanning' = TRUE
    /\ rest' = installed
    /\ best' = None
    /\ UNCHANGED <<installed, answers>>

\* Mutant: the first match is kept.
Visit_FirstMatch(v) ==
    /\ scanning
    /\ v \in rest
    /\ rest' = rest \ {v}
    /\ best' = IF best = None THEN v ELSE best
    /\ UNCHANGED <<installed, scanning, answers>>

\* One iteration of the loop.
Visit(v) ==
    /\ scanning
    /\ v \in rest
    /\ rest' = rest \ {v}
    /\ best' = IF best = None \/ compareVersions(v, best) THEN v ELSE best
    /\ UNCHANGED <<installed, scanning, answers>>

Return ==
    /\ scanning
    /\ rest = {}
    /\ scanning' = FALSE
    /\ answers' = answers \cup {best}
    /\ UNCHANGED <<installed, rest, best>>

Next ==
    \/ \E v \in Versions : Add(v) \/ Visit(v)
    \/ Latest
    \/ Return

Spec == Init /\ [][Next]_vars

----------------------------------------------------------------------------
(* Properties.                                                             *)

\* The state of the scan is well formed: what is left to visit and what was
\* found are installed versions.
TypeOK ==
    /\ installed \subseteq Versions
    /\ scanning \in BOOLEAN
    /\ rest \subseteq installed
    /\ best \in installed \cup {None}
    /\ answers \subseteq installed \cup {None}

\* manifest.go:181: "Latest returns the highest installed version of a plugin
\* by name, or nil if none is installed."  When all installed versions are
\* valid, every answer is one that none of them exceeds, in whatever order
\* the map is scanned.
LatestIsHighest ==
    (\A v \in installed : Valid(v)) =>
        \A a \in answers :
            IF installed = {} THEN a = None
            ELSE a # None /\ \A v \in installed : SemVer[v] <= SemVer[a]

\* Versions among which compareVersions is a strict total order: valid ones
\* of different rank, or none that is valid.
Ordered(S) ==
    \/ \A v, w \in S : Valid(v) /\ (SemVer[v] = SemVer[w] => v = w)
    \/ \A v \in S : ~Valid(v)

\* manifest.go:168, of Find: "Latest makes the choice deterministic."  Two
\* calls on the same manifest agree when its versions are ordered; among others
\* the order in which the map is scanned decides.
OrderedIsDeterministic ==
    Ordered(installed) => \A a, b \in answers : a = b
============================================================================
