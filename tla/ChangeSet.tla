----------------------------- MODULE ChangeSet -----------------------------
(***************************************************************************)
(* What pluginkit's ChangeManager promises about the target: a registered  *)
(* change is new, standing, undone or damaged.  It is applied only when    *)
(* changes are permitted and it does not stand already, reverted only when *)
(* it was applied.  A function that fails damages its change for good:     *)
(* neither function of it is called again, and the manager says so from    *)
(* then on.  Registering a name anew is the only way out of that.          *)
(***************************************************************************)
CONSTANT Names

VARIABLES
    permitted,
    phase,      \* name -> where its change stands
    altered,    \* name -> does the change's alteration of the target stand?
    corrupted,  \* some function has failed
    calls       \* name -> the function that the last operation called

vars == <<permitted, phase, altered, corrupted, calls>>

NoCalls == [n \in Names |-> "none"]

Init ==
    /\ permitted = FALSE
    /\ phase = [n \in Names |-> "absent"]
    /\ altered = [n \in Names |-> FALSE]
    /\ corrupted = FALSE
    /\ calls = NoCalls

Permit ==
    /\ permitted' = TRUE
    /\ calls' = NoCalls
    /\ UNCHANGED <<phase, altered, corrupted>>

\* What stood under the name is forgotten.
Register(n) ==
    /\ phase' = [phase EXCEPT ![n] = "new"]
    /\ altered' = [altered EXCEPT ![n] = FALSE]
    /\ calls' = NoCalls
    /\ UNCHANGED <<permitted, corrupted>>

\* The call of an applyFunc succeeds, or fails and leaves the target either way.
Alter(n, ok, left) ==
    /\ permitted
    /\ phase[n] \in {"new", "undone"}
    /\ phase' = [phase EXCEPT ![n] = IF ok THEN "standing" ELSE "damaged"]
    /\ altered' = [altered EXCEPT ![n] = ok \/ left]
    /\ corrupted' = (corrupted \/ ~ok)
    /\ calls' = [NoCalls EXCEPT ![n] = "apply"]
    /\ UNCHANGED permitted

\* The revertFuncs of some changes are called; those of the changes in failed
\* return an error.  With no change at all, an operation that called nothing.
Undo(done, failed, left) ==
    /\ \A n \in done \cup failed : phase[n] \in {"standing", "undone"}
    /\ phase' = [n \in Names |-> CASE n \in failed -> "damaged"
                                   [] n \in done \ failed -> "undone"
                                   [] OTHER -> phase[n]]
    /\ altered' = [n \in Names |-> IF n \in done \cup failed
                                   THEN n \in failed \cap left ELSE altered[n]]
    /\ corrupted' = (corrupted \/ failed # {})
    /\ calls' = [n \in Names |-> IF n \in done \cup failed THEN "revert" ELSE "none"]
    /\ UNCHANGED permitted

Next ==
    \/ Permit
    \/ \E n \in Names : Register(n) \/ \E ok, left \in BOOLEAN : Alter(n, ok, left)
    \/ \E done, failed, left \in SUBSET Names : Undo(done, failed, left)

Spec == Init /\ [][Next]_vars
=============================================================================
