---------------------------- MODULE MC_Installer ----------------------------
(***************************************************************************)
(* Instances of Installer for TLC.  Plugin p has two versions and is       *)
(* requested by version and unpinned.  Version 1 exists as i1, signed by   *)
(* alice, and, tagged anew, as j1, signed by alice and bob; version 2 is   *)
(* signed by both.  Plugin q has one index, signed by both; l is local.    *)
(* The hub may answer a request for q with q or with p.                    *)
(***************************************************************************)
EXTENDS Installer, TLC

CONSTANTS p, q, l, i1, j1, i2, iq, alice, bob

MC_ConfigOf ==
    i1 :> <<p, 1>> @@ j1 :> <<p, 1>> @@ i2 :> <<p, 2>> @@ iq :> <<q, 1>>
MC_SignersOf ==
    i1 :> {alice} @@ j1 :> {alice, bob} @@ i2 :> {alice, bob} @@ iq :> {alice, bob}

Ask(name, version) == [name |-> name, version |-> version]
Answer(name, latest, listed, identity) ==
    [coordinate |-> name, latest |-> latest, listed |-> listed,
     identity |-> identity]
Says(name, latest, identity) == Answer(name, latest, 1..2, identity)

\* An unpinned and a pinned service on p, one service on q.
PandQ == {Ask(p, 0), Ask(p, 1), Ask(q, 1)}
WithLocal == PandQ \cup {Ask(l, 0)}
BothOfP == {Ask(p, 0), Ask(p, 1)}
OneConfig == {Requests}
LocalApart == {PandQ, {Ask(p, 1), Ask(l, 0)}}

\* The hub always declares alice for p; p's release 2 appears while installs
\* are running, first as the latest version only.  For q it declares nobody
\* or bob, differently at different times.
AliceDeclared == p :> {Answer(p, 1, {1}, alice), Answer(p, 2, {1}, alice),
                       Says(p, 2, alice)}
                 @@ q :> {Says(q, 1, None), Says(q, 1, bob), Says(p, 2, alice)}
                 @@ l :> {}

Undeclared == p :> {Says(p, 2, None)} @@ q :> {Says(q, 1, None)}

\* The hub recorded the digests of p's releases only.
PRecorded == [k \in Keys |-> IF k = <<p, 1>> THEN i1
                              ELSE IF k = <<p, 2>> THEN i2 ELSE None]
NoneRecorded == [k \in Keys |-> None]
=============================================================================
