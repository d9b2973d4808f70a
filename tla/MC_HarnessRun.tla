--------------------------- MODULE MC_HarnessRun ---------------------------
(***************************************************************************)
(* Instances of HarnessRun for TLC: plugin p in two versions, a local      *)
(* plugin l, a name x that the hub answers with p, and services that share *)
(* a request, pin a version, ask for l or x, or name no plugin.            *)
(***************************************************************************)
EXTENDS HarnessRun, TLC

CONSTANTS p, l, x, i1, i2, alice, a, b, c, d, e, f

MC_ConfigOf == i1 :> <<p, 1>> @@ i2 :> <<p, 2>>
MC_SignersOf == i1 :> {alice} @@ i2 :> {alice}

Ask(name, version) == [name |-> name, version |-> version]
PinnedAndNot == {Ask(p, 0), Ask(p, 1)}
WithOthers == PinnedAndNot \cup {Ask(l, 0), Ask(x, 0)}
FromThoseTwo == {PinnedAndNot}

\* a and b ask for the same plugin, c for a version of it, d for none, e for
\* the local one, f for x.
SharedPlugin == a :> Ask(p, 0) @@ b :> Ask(p, 0) @@ c :> Ask(p, 1) @@ d :> None
                @@ e :> Ask(l, 0) @@ f :> Ask(x, 0)

Mixtures == {{}, {a, b, e}, {b, c}, {a, d}, {c, e}, {c, f}}

TwoIsLatest == [coordinate |-> p, latest |-> 2, listed |-> 1..2, identity |-> None]
AnsweredWithP == p :> {TwoIsLatest} @@ x :> {TwoIsLatest} @@ l :> {}
NoneRecorded == [k \in Keys |-> None]
============================================================================
