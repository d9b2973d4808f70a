-------------------------- MODULE MC_Credentials --------------------------
(***************************************************************************)
(* Three hubs, for TLC: the metadata document of one of them names the     *)
(* issuer of another.                                                      *)
(***************************************************************************)
EXTENDS Credentials, TLC

ThreeIssuers == {"main", "other", "alias"}
NamedIssuer == [main |-> "main", other |-> "other", alias |-> "main"]
AnyProcess == Permutations(Procs)
============================================================================
