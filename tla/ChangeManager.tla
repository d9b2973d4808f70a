--------------------------- MODULE ChangeManager ---------------------------
(***************************************************************************)
(* pluginkit/change.go: the ChangeManager through which an invasive        *)
(* assessment alters the target it evaluates, and through which those      *)
(* alterations are undone when the evaluation ends.                        *)
(*                                                                         *)
(* The apply and revert functions are the plugin's own code.  They are     *)
(* external: each call either succeeds or returns an error, and a call     *)
(* that returns an error leaves the target altered or not.                 *)
(***************************************************************************)
EXTENDS Naturals

CONSTANTS
    Names,    \* the names a plugin registers changes under
    Targets,  \* the target names it hands to Apply and writes in a Change
    ReAdd,    \* may a name be registered again while it is registered?
    Absent    \* what Changes[name] is for a name that is not in the map

ASSUME TargetsAreStrings == Targets \subseteq STRING
ASSUME ReAddIsBoolean == ReAdd \in BOOLEAN

VARIABLES
    changes,         \* ChangeManager.Changes, Absent where the map has no key
    allowed,         \* ChangeManager.Allowed
    corruptedState,  \* ChangeManager.CorruptedState
    altered,         \* observer: does the registered Change's alteration stand?
    orphaned,        \* observer: names under which an alteration stands whose
                     \* own Change has been replaced
    calls            \* observer: the plugin function each change's last
                     \* operation called

cmVars == <<changes, allowed, corruptedState, altered, orphaned, calls>>

----------------------------------------------------------------------------
(* The Change object.                                                      *)

Change ==
    [funcs : BOOLEAN,            \* applyFunc and revertFunc both set
     TargetName : Targets \cup {""},
     described : BOOLEAN,        \* Description non-empty
     Applied : BOOLEAN,
     Reverted : BOOLEAN,
     Error : BOOLEAN,            \* Error is not nil
     CorruptedState : BOOLEAN]

ASSUME AbsentIsNoChange == Absent \notin Change

\* A Change as a plugin builds it, before it was ever applied.
NewChange(funcs, target, described) ==
    [funcs |-> funcs, TargetName |-> target, described |-> described,
     Applied |-> FALSE, Reverted |-> FALSE, Error |-> FALSE,
     CorruptedState |-> FALSE]

Exists(n) == changes[n] # Absent

\* Mutant: precheck forgets the previous error.
precheck_IgnoresError(c) == c.funcs /\ c.TargetName # "" /\ c.described

\* precheck() returns nil.
precheck(c) ==
    /\ c.funcs
    /\ c.TargetName # ""
    /\ c.described
    /\ ~c.Error

InEffect(c) == c.Applied /\ ~c.Reverted

\* Does an alteration made under the name stand, of this Change or an older one?
Standing(n) == altered[n] \/ n \in orphaned

\* Mutant: a change in effect is applied again.
ApplyRuns_InEffect(c) == precheck(c)

\* Does apply(), or revert(), get as far as calling the plugin's function?
ApplyRuns(c)  == precheck(c) /\ ~InEffect(c)
RevertRuns(c) == c.Applied /\ precheck(c)

\* The Change after apply(target); ok is what applyFunc returned, if called.
apply(c, target, ok) ==
    IF ~precheck(c) THEN [c EXCEPT !.Error = TRUE]
    ELSE IF InEffect(c) THEN c
    ELSE IF ok THEN [c EXCEPT !.TargetName = target,
                              !.Applied = TRUE, !.Reverted = FALSE]
    ELSE [c EXCEPT !.TargetName = target,
                   !.Error = TRUE, !.CorruptedState = TRUE]

\* Mutant: a failed revert sets the error and not the flag.
revert_Unflagged(c, ok) ==
    IF ~c.Applied THEN c
    ELSE IF precheck(c) /\ ok THEN [c EXCEPT !.Reverted = TRUE]
    ELSE [c EXCEPT !.Error = TRUE]

\* The Change after revert(); ok is what revertFunc returned, if called.
revert(c, ok) ==
    IF ~c.Applied THEN c
    ELSE IF ~precheck(c) THEN [c EXCEPT !.Error = TRUE]
    ELSE IF ok THEN [c EXCEPT !.Reverted = TRUE]
    ELSE [c EXCEPT !.Error = TRUE, !.CorruptedState = TRUE]

----------------------------------------------------------------------------
(* Operations.                                                             *)

NoCalls == [n \in Names |-> "none"]

CMInit ==
    /\ changes = [n \in Names |-> Absent]
    /\ allowed = FALSE
    /\ corruptedState = FALSE
    /\ altered = [n \in Names |-> FALSE]
    /\ orphaned = {}
    /\ calls = NoCalls

Allow ==
    /\ allowed' = TRUE
    /\ calls' = NoCalls
    /\ UNCHANGED <<changes, corruptedState, altered, orphaned>>

\* The map entry is overwritten whatever the old Change's state was: the
\* pointer to an applied Change is dropped and nothing reverts it any more.
\* The new Change has not altered anything; the old alteration goes on standing.
AddChange(n, c) ==
    /\ ReAdd \/ ~Exists(n)
    /\ changes' = [changes EXCEPT ![n] = c]
    /\ orphaned' = IF altered[n] THEN orphaned \cup {n} ELSE orphaned
    /\ altered' = [altered EXCEPT ![n] = FALSE]
    /\ calls' = NoCalls
    /\ UNCHANGED <<allowed, corruptedState>>

\* On a registered Change, reached through the exported Changes map.
AddFunctions(n, funcs) ==
    /\ Exists(n)
    /\ changes' = [changes EXCEPT ![n].funcs = funcs]
    /\ calls' = NoCalls
    /\ UNCHANGED <<allowed, corruptedState, altered, orphaned>>

\* ok: applyFunc succeeds; left: does the target end up altered?  A call that
\* succeeds alters it, one that returns an error may have altered it already.
Apply(n, target, ok, left) ==
    IF ~allowed \/ ~Exists(n)
    THEN /\ calls' = NoCalls
         /\ UNCHANGED <<changes, allowed, corruptedState, altered, orphaned>>
    ELSE LET c == changes[n] IN
         /\ changes' = [changes EXCEPT ![n] = apply(c, target, ok)]
         /\ corruptedState' = (corruptedState \/ changes'[n].CorruptedState)
         /\ calls' = [NoCalls EXCEPT
                        ![n] = IF ApplyRuns(c) THEN "apply" ELSE "none"]
         /\ altered' = IF ApplyRuns(c)
                       THEN [altered EXCEPT ![n] = ok \/ left]
                       ELSE altered
         /\ UNCHANGED <<allowed, orphaned>>

\* Reverting the changes in ns one after the other, in whatever order the map
\* yields them: the Changes are independent, so the order does not matter.
\* ok are those whose revertFunc succeeds, left those a failing revertFunc
\* leaves altered.
RevertChanges(ns, ok, left) ==
    LET there == {n \in ns : Exists(n)}
        runs  == {n \in there : RevertRuns(changes[n])}
    IN
    /\ changes' = [n \in Names |-> IF n \in there
                                   THEN revert(changes[n], n \in ok)
                                   ELSE changes[n]]
    /\ corruptedState' =
          (corruptedState \/ \E n \in there : changes'[n].CorruptedState)
    /\ altered' = [n \in Names |-> IF n \in runs
                                   THEN n \in left \ ok
                                   ELSE altered[n]]
    /\ calls' = [n \in Names |-> IF n \in runs THEN "revert" ELSE "none"]
    /\ UNCHANGED <<allowed, orphaned>>

Revert(n, ok, left) == RevertChanges({n}, ok, left)

RevertAll(ok, left) == RevertChanges(Names, ok, left)

\* Everything an assessment step may do with its change manager.
StepOp ==
    \/ \E n \in Names, funcs, described \in BOOLEAN, t \in Targets \cup {""} :
          AddChange(n, NewChange(funcs, t, described))
    \/ \E n \in Names, funcs \in BOOLEAN : AddFunctions(n, funcs)
    \/ \E n \in Names, t \in Targets, ok, left \in BOOLEAN :
          Apply(n, t, ok, left)
    \/ \E n \in Names : \E ok, left \in SUBSET {n} : Revert(n, ok, left)

CMNext ==
    \/ Allow
    \/ StepOp
    \/ \E ok, left \in SUBSET Names : RevertAll(ok, left)

CMSpec == CMInit /\ [][CMNext]_cmVars

----------------------------------------------------------------------------
(* Properties.                                                             *)

\* The change manager's map and flags, and the observers, are well formed.
CMTypeOK ==
    /\ changes \in [Names -> Change \cup {Absent}]
    /\ allowed \in BOOLEAN
    /\ corruptedState \in BOOLEAN
    /\ altered \in [Names -> BOOLEAN]
    /\ orphaned \subseteq Names
    /\ calls \in [Names -> {"none", "apply", "revert"}]

\* What a registered Change says of its own alteration is right: not flagged,
\* it is in effect exactly when its alteration of the target stands; flagged,
\* it has flagged the manager too and keeps the Error that retires it.
OwnAlterationTracked(n) ==
    IF Exists(n)
    THEN LET c == changes[n] IN
         IF c.CorruptedState THEN corruptedState /\ c.Error
                             ELSE altered[n] <=> InEffect(c)
    ELSE ~altered[n]

\* Whatever sequence of Apply, Revert and RevertAll has run, apply() and
\* revert() never lose track of the target: an alteration that stands is told
\* by the registered Change (Applied and not Reverted, or CorruptedState),
\* unless the plugin registers a name again while it is registered.  Then
\* AddChange replaces the Change of a standing alteration without a word
\* (change.go:56), and nothing in the manager records the alteration any more.
AlterationsTracked ==
    \A n \in Names :
        /\ OwnAlterationTracked(n)
        /\ Standing(n) => altered[n] \/ ReAdd

\* change.go:94: "RevertAll reverts all changes managed by the change manager."
\* RevertAll, with which Evaluate ends, leaves the target altered without
\* raising CorruptedState only where revert() refused to run because the
\* Change no longer passes precheck (for instance because Apply was given an
\* empty target name), and where the Change of a standing alteration had been
\* replaced by AddChange.
RevertAllSettles ==
    [][\A ok, left \in SUBSET Names :
          RevertAll(ok, left) =>
             \/ corruptedState'
             \/ \A n \in Names :
                   Standing(n)' => n \in orphaned \/ ~precheck(changes[n])]_cmVars

\* Once applyFunc or revertFunc of a Change returned an error, neither is
\* ever called again for that Change: precheck refuses a Change with an
\* Error, and only registering the name anew clears it.
FailedChangeLeftAlone ==
    [][\A n \in Names :
          Exists(n) /\ changes[n].CorruptedState => calls'[n] = "none"]_cmVars

\* change.go:66: "It will not apply the change if it is not allowed, or if it
\* has already been applied and not reverted."  Whatever sequence of calls a
\* plugin makes, every change goes through the life that ChangeSet describes,
\* as its Applied, Reverted and CorruptedState fields tell, and the target
\* goes with it.
Phase(c) ==
    CASE c = Absent -> "absent"
      [] c # Absent /\ c.CorruptedState -> "damaged"
      [] c # Absent /\ ~c.CorruptedState /\ ~c.Applied -> "new"
      [] c # Absent /\ ~c.CorruptedState /\ InEffect(c) -> "standing"
      [] OTHER -> "undone"
Lives == INSTANCE ChangeSet WITH
    permitted <- allowed, phase <- [n \in Names |-> Phase(changes[n])],
    corrupted <- corruptedState
ImplementsChangeSet == Lives!Spec
============================================================================
