---------------------------- MODULE MC_Publish ----------------------------
(***************************************************************************)
(* Builds of one plugin for TLC: two of the same version that share a      *)
(* config blob, one over a universal darwin binary, and four that must     *)
(* not reach the hub.                                                      *)
(***************************************************************************)
EXTENDS Publish, TLC

CONSTANTS alice, bob, carol

Env(token, actions, terminal) ==
    [token |-> token, actions |-> actions, terminal |-> terminal]

\* alice sits at a terminal, bob and carol are CI jobs.
MC_Environment == [p \in Publishers |->
    IF p = alice
    THEN {Env("none", FALSE, TRUE), Env("sigstore", FALSE, TRUE)}
    ELSE {Env("none", FALSE, FALSE), Env("none", TRUE, FALSE), Env("other", TRUE, FALSE)}]

Child(platform, config, binary, manifest) ==
    [platform |-> platform, config |-> config, binary |-> binary, manifest |-> manifest]

Good == [version |-> "v1",
         metadata |-> TRUE, listed |-> TRUE,
         artifacts |-> {[entrypoint |-> TRUE, at |-> {"moved"}]},
         children |-> {Child("darwin/amd64", "c1", "fat", "m1"),
                       Child("darwin/arm64", "c2", "fat", "m2")},
         marked |-> {"fat"}, coordinate |-> TRUE, license |-> "spdx",
         contract |-> TRUE]
Rebuilt == [Good EXCEPT !.children = {Child("darwin/amd64", "c1", "thin", "m3")},
                        !.marked = {"thin"}]
Unlicensed == [Good EXCEPT !.license = "none"]
NotAPlugin == [Good EXCEPT !.marked = {}]
Foreign == [Good EXCEPT !.children = {Child("darwin/arm64", "c2", "fat", "m2")}]
\* The binary of another platform was not copied with the dist directory.
Partial == [Rebuilt EXCEPT !.artifacts = @ \cup {[entrypoint |-> TRUE, at |-> {}]}]

MC_Builds == {"good", "rebuilt", "unlicensed", "notAPlugin", "foreign", "partial"}
MC_Info == [b \in MC_Builds |->
    CASE b = "good" -> Good
      [] b = "rebuilt" -> Rebuilt
      [] b = "unlicensed" -> Unlicensed
      [] b = "notAPlugin" -> NotAPlugin
      [] b = "foreign" -> Foreign
      [] b = "partial" -> Partial]
MC_Items == {"c1", "c2", "fat", "thin", "m1", "m2", "m3"}
============================================================================
