------------------------- MODULE MC_LatestVersion -------------------------
(***************************************************************************)
(* Version strings for TLC.  The semver package accepts the short form 1.4 *)
(* and ranks it with 1.4.0; 1.2-dev and nightly are not valid to it.       *)
(***************************************************************************)
EXTENDS LatestVersion, TLC

Strings == {"1.10.0", "1.2-dev", "1.4", "1.4.0", "1.9.0", "nightly"}
MC_SemVer == "1.10.0" :> 3 @@ "1.2-dev" :> 0 @@ "1.4" :> 1 @@ "1.4.0" :> 1
             @@ "1.9.0" :> 2 @@ "nightly" :> 0
MC_Lexical == "1.10.0" :> 1 @@ "1.2-dev" :> 2 @@ "1.4" :> 3 @@ "1.4.0" :> 4
              @@ "1.9.0" :> 5 @@ "nightly" :> 6
============================================================================
