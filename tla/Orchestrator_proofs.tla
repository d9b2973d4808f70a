------------------------ MODULE Orchestrator_proofs ------------------------
(***************************************************************************)
(* Proofs about a plugin process: the change manager, the registration of  *)
(* catalogs and suites, and the orchestrator that evaluates them, for      *)
(* every set of names, catalogs, settings and outcomes and every number of *)
(* Mobilizes.                                                              *)
(***************************************************************************)
EXTENDS Orchestrator, FiniteSetTheorems, TLAPS

(* The change manager alone.  ChangesTracked is inductive given the types; *)
(* the action properties follow from the two.                              *)
ChangesTracked == \A n \in Names : OwnAlterationTracked(n)

(* Without re-registration no alteration loses its Change.                 *)
OrphanInv == orphaned # {} => ReAdd

(* What revert() makes of one Change, given the types.                     *)
LEMMA RevertType ==
    ASSUME NEW c \in Change, NEW ok
    PROVE  revert(c, ok) \in Change
BY DEF revert, Change, precheck

(* What apply() makes of one Change, given the types.                      *)
LEMMA ApplyType ==
    ASSUME NEW c \in Change, NEW t \in Targets, NEW ok \in BOOLEAN
    PROVE  apply(c, t, ok) \in Change
BY DEF apply, Change, precheck, InEffect

(* A step of the change manager keeps the types, whatever the plugin calls.*)
LEMMA CMTypeStep ==
    ASSUME CMTypeOK, [CMNext]_cmVars
    PROVE  CMTypeOK'
<1> USE DEF CMTypeOK
<1>1. CASE Allow
  BY <1>1 DEF Allow, NoCalls
<1>2. ASSUME NEW n \in Names, NEW funcs \in BOOLEAN, NEW described \in BOOLEAN,
             NEW t \in Targets \cup {""},
             AddChange(n, NewChange(funcs, t, described))
      PROVE  CMTypeOK'
  <2>1. NewChange(funcs, t, described) \in Change
    BY DEF NewChange, Change
  <2> QED BY <1>2, <2>1 DEF AddChange, NoCalls
<1>3. ASSUME NEW n \in Names, NEW funcs \in BOOLEAN, AddFunctions(n, funcs)
      PROVE  CMTypeOK'
  <2>1. changes[n] \in Change
    BY <1>3 DEF AddFunctions, Exists
  <2>2. [changes[n] EXCEPT !.funcs = funcs] \in Change
    BY <2>1 DEF Change
  <2> QED BY <1>3, <2>2 DEF AddFunctions, NoCalls
<1>4. ASSUME NEW n \in Names, NEW t \in Targets, NEW ok \in BOOLEAN,
             NEW left \in BOOLEAN, Apply(n, t, ok, left)
      PROVE  CMTypeOK'
  <2>1. CASE ~allowed \/ ~Exists(n)
    BY <1>4, <2>1 DEF Apply, NoCalls
  <2>2. CASE allowed /\ Exists(n)
    <3>1. changes[n] \in Change
      BY <2>2 DEF Exists
    <3>2. apply(changes[n], t, ok) \in Change
      BY <3>1, ApplyType
    <3>3. changes' = [changes EXCEPT ![n] = apply(changes[n], t, ok)]
      BY <1>4, <2>2 DEF Apply
    <3>4. changes' \in [Names -> Change \cup {Absent}] /\ changes'[n] \in Change
      BY <3>2, <3>3
    <3>5. corruptedState' \in BOOLEAN
      BY <1>4, <2>2, <3>4 DEF Apply, Change
    <3>6. altered' \in [Names -> BOOLEAN]
      BY <1>4, <2>2 DEF Apply
    <3>7. calls' \in [Names -> {"none", "apply", "revert"}]
      BY <1>4, <2>2 DEF Apply, NoCalls
    <3> QED BY <1>4, <2>2, <3>4, <3>5, <3>6, <3>7 DEF Apply
  <2> QED BY <2>1, <2>2
<1>5. ASSUME NEW ns \in SUBSET Names, NEW ok, NEW left, RevertChanges(ns, ok, left)
      PROVE  CMTypeOK'
  <2>1. ASSUME NEW n \in Names
        PROVE  /\ changes'[n] \in Change \cup {Absent}
               /\ altered'[n] \in BOOLEAN
    <3>1. changes'[n] = changes[n] \/ changes'[n] = revert(changes[n], n \in ok)
      BY <1>5 DEF RevertChanges
    <3>2. changes'[n] # changes[n] => changes[n] \in Change
      BY <1>5 DEF RevertChanges, Exists
    <3>3. changes'[n] \in Change \cup {Absent}
      BY <3>1, <3>2, RevertType
    <3>4. altered'[n] = altered[n] \/ altered'[n] = (n \in left \ ok)
      BY <1>5 DEF RevertChanges
    <3>5. altered[n] \in BOOLEAN /\ (n \in left \ ok) \in BOOLEAN
      OBVIOUS
    <3>6. altered'[n] \in BOOLEAN
      BY <3>4, <3>5, Zenon
    <3> QED BY <3>3, <3>6
  <2>2. changes' \in [Names -> Change \cup {Absent}]
    BY <1>5, <2>1 DEF RevertChanges
  <2>3. altered' \in [Names -> BOOLEAN]
    BY <1>5, <2>1 DEF RevertChanges
  <2>4. corruptedState' \in BOOLEAN
    BY <1>5 DEF RevertChanges
  <2>5. calls' \in [Names -> {"none", "apply", "revert"}]
    BY <1>5 DEF RevertChanges
  <2>6. UNCHANGED <<allowed, orphaned>>
    BY <1>5 DEF RevertChanges
  <2> QED BY <2>2, <2>3, <2>4, <2>5, <2>6
<1>6. CASE UNCHANGED cmVars
  BY <1>6 DEF cmVars
<1>7. ASSUME NEW n \in Names PROVE {n} \in SUBSET Names
  OBVIOUS
<1> QED BY <1>1, <1>2, <1>3, <1>4, <1>5, <1>6, <1>7
        DEF CMNext, StepOp, Revert, RevertAll

(* The variables keep their types.                                         *)
THEOREM CMTypeCorrect == CMSpec => []CMTypeOK
<1>1. CMInit => CMTypeOK
  BY DEF CMInit, CMTypeOK, NoCalls
<1>2. CMTypeOK /\ [CMNext]_cmVars => CMTypeOK'
  BY CMTypeStep
<1> QED BY <1>1, <1>2, PTL DEF CMSpec

----------------------------------------------------------------------------
(* apply() keeps a Change's flags and the target in step.                  *)
LEMMA ApplyTracks ==
    ASSUME CMTypeOK, ChangesTracked,
           NEW n \in Names, NEW t \in Targets, NEW ok \in BOOLEAN,
           NEW left \in BOOLEAN, Apply(n, t, ok, left)
    PROVE  ChangesTracked'
<1>1. CASE ~allowed \/ ~Exists(n)
  BY <1>1 DEF Apply, ChangesTracked, OwnAlterationTracked, Exists, InEffect
<1>2. CASE allowed /\ Exists(n)
  <2> DEFINE c == changes[n]
             d == apply(c, t, ok)
  <2>1. c \in Change
    BY <1>2 DEF CMTypeOK, Exists
  <2>2. d \in Change
    BY <2>1, ApplyType
  <2>3. /\ changes' = [changes EXCEPT ![n] = d]
        /\ corruptedState' = (corruptedState \/ changes'[n].CorruptedState)
        /\ altered' = IF ApplyRuns(c) THEN [altered EXCEPT ![n] = ok \/ left]
                                      ELSE altered
    BY <1>2 DEF Apply
  <2>4. changes'[n] = d /\ d # Absent
    BY <2>2, <2>3, AbsentIsNoChange DEF CMTypeOK
  <2>5. ASSUME NEW m \in Names, m # n
        PROVE  /\ changes'[m] = changes[m]
               /\ altered'[m] = altered[m]
    BY <2>3, <2>5 DEF CMTypeOK
  <2>6. corruptedState => corruptedState'
    BY <2>3
  <2>7. CASE ApplyRuns(c)
    <3>1. altered'[n] = (ok \/ left)
      BY <2>3, <2>7 DEF CMTypeOK
    <3>2. CASE ok
      <4>2. InEffect(d) /\ ~c.Error /\ d.CorruptedState = c.CorruptedState
        BY <2>1, <2>7, <3>2 DEF apply, ApplyRuns, Change, InEffect, precheck
      <4>3. ~c.CorruptedState
        BY <4>2, <1>2 DEF ChangesTracked, OwnAlterationTracked
      <4> QED BY <2>4, <2>5, <2>6, <3>1, <3>2, <4>2, <4>3
              DEF ChangesTracked, OwnAlterationTracked, Exists
    <3>3. CASE ~ok
      <4>1. d.CorruptedState /\ d.Error
        BY <2>1, <2>7, <3>3 DEF apply, ApplyRuns, Change
      <4>2. corruptedState'
        BY <2>3, <2>4, <4>1
      <4> HIDE DEF c, d
      <4> QED BY <2>4, <2>5, <4>1, <4>2 DEF ChangesTracked, OwnAlterationTracked, Exists
    <3> QED BY <3>2, <3>3
  <2>8. CASE ~ApplyRuns(c)
    <3>1. altered' = altered
      BY <2>3, <2>8
    <3>2. /\ d.CorruptedState = c.CorruptedState
          /\ InEffect(d) <=> InEffect(c)
          /\ c.Error => d.Error
      BY <2>1, <2>8 DEF apply, ApplyRuns, Change, InEffect
    <3> QED BY <1>2, <2>3, <2>4, <2>5, <2>6, <3>1, <3>2
            DEF ChangesTracked, OwnAlterationTracked, Exists
  <2> QED BY <2>7, <2>8
<1> QED BY <1>1, <1>2

(* So does revert(), for one Change or for all of them at once.            *)
LEMMA RevertTracks ==
    ASSUME CMTypeOK, ChangesTracked,
           NEW ns \in SUBSET Names, NEW ok, NEW left,
           RevertChanges(ns, ok, left)
    PROVE  ChangesTracked'
<1> SUFFICES ASSUME NEW n \in Names
             PROVE  IF Exists(n)'
                    THEN IF changes'[n].CorruptedState
                         THEN corruptedState' /\ changes'[n].Error
                         ELSE altered'[n] <=> InEffect(changes'[n])
                    ELSE ~altered'[n]
  BY DEF ChangesTracked, OwnAlterationTracked, Exists
<1> DEFINE c == changes[n]
           d == revert(c, n \in ok)
<1>1. corruptedState => corruptedState'
  BY DEF RevertChanges
<1>2. CASE n \notin ns \/ ~Exists(n)
  <2>1. changes'[n] = c /\ altered'[n] = altered[n]
    BY <1>2 DEF RevertChanges
  <2> QED BY <1>1, <2>1 DEF ChangesTracked, OwnAlterationTracked, Exists
<1>3. CASE n \in ns /\ Exists(n)
  <2>1. c \in Change
    BY <1>3 DEF CMTypeOK, Exists
  <2>2. changes'[n] = d /\ d # Absent
    BY <1>3, <2>1, RevertType, AbsentIsNoChange DEF RevertChanges
  <2>3. d.CorruptedState => corruptedState'
    BY <1>3, <2>2 DEF RevertChanges
  <2>4. CASE RevertRuns(c)
    <3>1. altered'[n] = (n \in left \ ok)
      BY <1>3, <2>4 DEF RevertChanges
    <3>2. ~c.Error /\ ~c.CorruptedState
      BY <1>3, <2>4 DEF RevertRuns, precheck, ChangesTracked, OwnAlterationTracked
    <3>3. CASE n \in ok
      <4>1. ~InEffect(d) /\ d.CorruptedState = c.CorruptedState
        BY <2>1, <2>4, <3>3 DEF revert, RevertRuns, Change, InEffect
      <4> QED BY <2>2, <3>1, <3>2, <3>3, <4>1 DEF Exists
    <3>4. CASE n \notin ok
      <4>1. d.CorruptedState /\ d.Error
        BY <2>1, <2>4, <3>4 DEF revert, RevertRuns, Change
      <4> QED BY <2>2, <2>3, <4>1 DEF Exists
    <3> QED BY <3>3, <3>4
  <2>5. CASE ~RevertRuns(c)
    <3>1. altered'[n] = altered[n]
      BY <1>3, <2>5 DEF RevertChanges
    <3>2. /\ d.CorruptedState = c.CorruptedState
          /\ InEffect(d) <=> InEffect(c)
          /\ c.Error => d.Error
      BY <2>1, <2>5 DEF revert, RevertRuns, Change, InEffect
    <3> QED BY <1>1, <1>3, <2>2, <3>1, <3>2 DEF ChangesTracked, OwnAlterationTracked, Exists
  <2> QED BY <2>4, <2>5
<1> QED BY <1>2, <1>3

(* A step of the change manager keeps ChangesTracked.                  *)
LEMMA TrackedStep ==
    ASSUME CMTypeOK, ChangesTracked, [CMNext]_cmVars
    PROVE  ChangesTracked'
<1>1. CASE Allow
  BY <1>1 DEF Allow, ChangesTracked, OwnAlterationTracked, Exists, InEffect
<1>2. ASSUME NEW n \in Names, NEW funcs \in BOOLEAN, NEW described \in BOOLEAN,
             NEW t \in Targets \cup {""},
             AddChange(n, NewChange(funcs, t, described))
      PROVE  ChangesTracked'
  <2> DEFINE c == NewChange(funcs, t, described)
  <2>0. c \in Change
    BY DEF NewChange, Change
  <2>1. c # Absent
    BY <2>0, AbsentIsNoChange
  <2>2. ~c.CorruptedState /\ ~InEffect(c)
    BY DEF NewChange, InEffect
  <2>3. /\ changes' = [changes EXCEPT ![n] = c]
        /\ altered' = [altered EXCEPT ![n] = FALSE]
        /\ corruptedState' = corruptedState
    BY <1>2 DEF AddChange
  <2>4. changes'[n] = c /\ altered'[n] = FALSE
    BY <2>3 DEF CMTypeOK
  <2>5. ASSUME NEW m \in Names, m # n
        PROVE  changes'[m] = changes[m] /\ altered'[m] = altered[m]
    BY <2>3, <2>5 DEF CMTypeOK
  <2> HIDE DEF c
  <2> QED BY <2>1, <2>2, <2>3, <2>4, <2>5 DEF ChangesTracked, OwnAlterationTracked, Exists
<1>3. ASSUME NEW n \in Names, NEW funcs \in BOOLEAN, AddFunctions(n, funcs)
      PROVE  ChangesTracked'
  <2> DEFINE d == [changes[n] EXCEPT !.funcs = funcs]
  <2>1. changes[n] \in Change
    BY <1>3 DEF AddFunctions, Exists, CMTypeOK
  <2>2. /\ d \in Change
        /\ d.CorruptedState = changes[n].CorruptedState
        /\ d.Error = changes[n].Error
        /\ InEffect(d) <=> InEffect(changes[n])
    BY <2>1 DEF Change, InEffect
  <2>3. changes' = [changes EXCEPT ![n] = d]
    BY <1>3 DEF AddFunctions
  <2>4. changes'[n] = d /\ d # Absent
    BY <2>2, <2>3, AbsentIsNoChange DEF CMTypeOK
  <2>5. ASSUME NEW m \in Names, m # n
        PROVE  changes'[m] = changes[m]
    BY <2>3, <2>5 DEF CMTypeOK
  <2>6. UNCHANGED <<corruptedState, altered>>
    BY <1>3 DEF AddFunctions
  <2>7. changes[n] # Absent
    BY <1>3 DEF AddFunctions, Exists
  <2> HIDE DEF d
  <2> QED BY <2>2, <2>4, <2>5, <2>6, <2>7 DEF ChangesTracked, OwnAlterationTracked, Exists
<1>4. ASSUME NEW n \in Names PROVE {n} \in SUBSET Names
  OBVIOUS
<1>5. CASE UNCHANGED cmVars
  BY <1>5 DEF cmVars, ChangesTracked, OwnAlterationTracked, Exists, InEffect
<1> QED BY <1>1, <1>2, <1>3, <1>4, <1>5, ApplyTracks, RevertTracks
        DEF CMNext, StepOp, Revert, RevertAll

(* Only AddChange takes an alteration's Change away, and only from a       *)
(* registered name.                                                        *)
LEMMA OrphanStep ==
    ASSUME ChangesTracked, OrphanInv, [CMNext]_cmVars
    PROVE  OrphanInv'
<1>1. ASSUME NEW n \in Names, NEW c, AddChange(n, c)
      PROVE  OrphanInv'
  <2>1. CASE altered[n]
    <3>1. Exists(n)
      BY <2>1 DEF ChangesTracked, OwnAlterationTracked
    <3> QED BY <1>1, <3>1 DEF AddChange, OrphanInv
  <2>2. CASE ~altered[n]
    BY <1>1, <2>2 DEF AddChange, OrphanInv
  <2> QED BY <2>1, <2>2
<1>2. CASE orphaned' = orphaned
  BY <1>2 DEF OrphanInv
<1>3. ASSUME NEW ns, NEW ok, NEW left, RevertChanges(ns, ok, left)
      PROVE  orphaned' = orphaned
  BY <1>3 DEF RevertChanges
<1>4. ASSUME NEW n, NEW t, NEW ok, NEW left, Apply(n, t, ok, left)
      PROVE  orphaned' = orphaned
  BY <1>4 DEF Apply
<1>5. ASSUME NEW n, NEW funcs, AddFunctions(n, funcs)
      PROVE  orphaned' = orphaned
  BY <1>5 DEF AddFunctions
<1> QED BY <1>1, <1>2, <1>3, <1>4, <1>5
        DEF CMNext, StepOp, Revert, RevertAll, Allow, cmVars

(* An alteration that stands is told by the registered Change, for every   *)
(* number of changes and every sequence of calls, unless the plugin        *)
(* registers a name again while it is registered.                          *)
THEOREM Tracked == CMSpec => []AlterationsTracked
<1>1. CMInit => ChangesTracked /\ OrphanInv
  BY DEF CMInit, ChangesTracked, OwnAlterationTracked, OrphanInv, Exists
<1>2. CMTypeOK /\ ChangesTracked /\ OrphanInv /\ [CMNext]_cmVars
         => ChangesTracked' /\ OrphanInv'
  BY TrackedStep, OrphanStep
<1>3. ChangesTracked /\ OrphanInv => AlterationsTracked
  BY DEF ChangesTracked, OrphanInv, AlterationsTracked, Standing
<1> QED BY <1>1, <1>2, <1>3, CMTypeCorrect, PTL DEF CMSpec

(* The part of it that the other proofs use.                               *)
LEMMA ChangesAlwaysTracked == CMSpec => []ChangesTracked
<1>1. CMInit => ChangesTracked
  BY DEF CMInit, ChangesTracked, OwnAlterationTracked, Exists
<1>2. CMTypeOK /\ ChangesTracked /\ [CMNext]_cmVars => ChangesTracked'
  BY TrackedStep
<1> QED BY <1>1, <1>2, CMTypeCorrect, PTL DEF CMSpec

----------------------------------------------------------------------------
(* RevertAll leaves an unflagged alteration only behind a failed precheck. *)
LEMMA RevertAllStep ==
    ASSUME CMTypeOK, ChangesTracked,
           NEW ok \in SUBSET Names, NEW left \in SUBSET Names,
           RevertAll(ok, left), ~corruptedState',
           NEW n \in Names, altered'[n]
    PROVE  ~precheck(changes[n])
<1> SUFFICES ASSUME precheck(changes[n]) PROVE FALSE
  OBVIOUS
<1>1. Exists(n)
  <2>1. CASE ~Exists(n)
    BY <2>1 DEF RevertAll, RevertChanges, ChangesTracked, OwnAlterationTracked
  <2> QED BY <2>1
<1>2. changes[n] \in Change
  BY <1>1 DEF CMTypeOK, Exists
<1>3. changes'[n] = revert(changes[n], n \in ok)
  BY <1>1 DEF RevertAll, RevertChanges
<1>4. ~changes'[n].CorruptedState
  BY <1>1 DEF RevertAll, RevertChanges
<1>5. CASE RevertRuns(changes[n])
  <2>1. n \in left \ ok
    BY <1>1, <1>5 DEF RevertAll, RevertChanges
  <2>2. changes'[n].CorruptedState
    BY <1>2, <1>3, <1>5, <2>1 DEF revert, RevertRuns, Change
  <2> QED BY <1>4, <2>2
<1>6. CASE ~RevertRuns(changes[n])
  <2>1. altered[n] /\ ~changes[n].Applied
    BY <1>1, <1>6 DEF RevertAll, RevertChanges, RevertRuns
  <2>2. changes[n].CorruptedState => changes[n].Error
    BY <1>1 DEF ChangesTracked, OwnAlterationTracked
  <2> QED BY <1>1, <2>1, <2>2
          DEF ChangesTracked, OwnAlterationTracked, InEffect, precheck
<1> QED BY <1>5, <1>6

(* The same, as a property of every behaviour.                             *)
THEOREM Settles == CMSpec => RevertAllSettles
<1>1. CMTypeOK /\ ChangesTracked /\ [CMNext]_cmVars =>
        [\A ok, left \in SUBSET Names :
           RevertAll(ok, left) =>
              \/ corruptedState'
              \/ \A n \in Names :
                    Standing(n)' => n \in orphaned \/ ~precheck(changes[n])]_cmVars
  <2>1. ASSUME NEW ok \in SUBSET Names, NEW left \in SUBSET Names,
               RevertAll(ok, left)
        PROVE  orphaned' = orphaned
    BY <2>1 DEF RevertAll, RevertChanges
  <2> QED BY <2>1, RevertAllStep DEF Standing
<1> QED BY <1>1, CMTypeCorrect, ChangesAlwaysTracked, PTL DEF CMSpec, RevertAllSettles

(* Which plugin functions a step may call, on which Changes.               *)
LEMMA CallsOf ==
    ASSUME CMTypeOK, CMNext, NEW n \in Names, calls'[n] # "none"
    PROVE  /\ Exists(n)
           /\ \/ calls'[n] = "apply" /\ allowed /\ ApplyRuns(changes[n])
              \/ calls'[n] = "revert" /\ RevertRuns(changes[n])
<1>1. ASSUME calls' = NoCalls PROVE FALSE
  BY <1>1 DEF NoCalls
<1>2. ASSUME NEW m \in Names, NEW t \in Targets, NEW ok \in BOOLEAN,
             NEW left \in BOOLEAN, Apply(m, t, ok, left)
      PROVE  Exists(n) /\ calls'[n] = "apply" /\ allowed /\ ApplyRuns(changes[n])
  BY <1>1, <1>2 DEF Apply, NoCalls
<1>3. ASSUME NEW ns \in SUBSET Names, NEW ok, NEW left,
             RevertChanges(ns, ok, left)
      PROVE  Exists(n) /\ calls'[n] = "revert" /\ RevertRuns(changes[n])
  BY <1>3 DEF RevertChanges
<1>4. ASSUME NEW m \in Names PROVE {m} \in SUBSET Names
  OBVIOUS
<1> QED BY <1>1, <1>2, <1>3, <1>4
        DEF CMNext, Allow, StepOp, AddChange, AddFunctions, Revert, RevertAll

(* A Change whose function failed is never called again.                   *)
THEOREM LeftAlone == CMSpec => FailedChangeLeftAlone
<1>1. ASSUME CMTypeOK, ChangesTracked, CMNext,
             NEW n \in Names, Exists(n), changes[n].CorruptedState
      PROVE  calls'[n] = "none"
  <2>1. ~precheck(changes[n])
    BY <1>1 DEF ChangesTracked, OwnAlterationTracked, precheck
  <2> QED BY <1>1, <2>1, CallsOf DEF ApplyRuns, RevertRuns
<1>2. CMTypeOK /\ ChangesTracked /\ [CMNext]_cmVars =>
        [\A n \in Names :
           Exists(n) /\ changes[n].CorruptedState => calls'[n] = "none"]_cmVars
  BY <1>1
<1> QED BY <1>2, CMTypeCorrect, ChangesAlwaysTracked, PTL
        DEF CMSpec, FailedChangeLeftAlone

----------------------------------------------------------------------------
(* The change manager implements ChangeSet.                                *)

(* The phase of a Change is what three of its fields say.                  *)
LEMMA PhaseOf ==
    ASSUME NEW c \in Change
    PROVE  /\ c.CorruptedState => Phase(c) = "damaged"
           /\ ~c.CorruptedState /\ ~c.Applied => Phase(c) = "new"
           /\ ~c.CorruptedState /\ c.Applied /\ ~c.Reverted => Phase(c) = "standing"
           /\ ~c.CorruptedState /\ c.Applied /\ c.Reverted => Phase(c) = "undone"
BY AbsentIsNoChange DEF Phase, InEffect, Change

(* A Change that agrees in them is in the same phase.                      *)
LEMMA SamePhase ==
    ASSUME NEW c \in Change, NEW d \in Change,
           d.CorruptedState = c.CorruptedState,
           d.Applied = c.Applied, d.Reverted = c.Reverted
    PROVE  Phase(d) = Phase(c)
<1>1. /\ c.CorruptedState \in BOOLEAN /\ c.Applied \in BOOLEAN /\ c.Reverted \in BOOLEAN
  BY DEF Change
<1> QED BY <1>1, PhaseOf

(* An operation that calls no function moves no change to another phase.   *)
LEMMA QuietLife ==
    ASSUME UNCHANGED <<allowed, altered, corruptedState>>, CMTypeOK,
           calls' = NoCalls,
           \A n \in Names : Phase(changes'[n]) = Phase(changes[n])
    PROVE  Lives!Next
<1>1. Lives!Undo({}, {}, {})
  <2>1. [n \in Names |-> Phase(changes'[n])] =
          [n \in Names |-> CASE n \in {} -> "damaged"
                             [] n \in {} \ {} -> "undone"
                             [] OTHER -> [m \in Names |-> Phase(changes[m])][n]]
    OBVIOUS
  <2>2. altered' = [n \in Names |-> IF n \in {} \cup {}
                                    THEN n \in {} \cap {} ELSE altered[n]]
    BY DEF CMTypeOK
  <2>3. calls' = [n \in Names |-> IF n \in {} \cup {} THEN "revert" ELSE "none"]
    BY DEF NoCalls
  <2>4. corruptedState' = (corruptedState \/ {} # {})
    BY DEF CMTypeOK
  <2> QED BY <2>1, <2>2, <2>3, <2>4 DEF Lives!Undo
<1> QED BY <1>1 DEF Lives!Next

(* apply() is an Alter of ChangeSet when it calls applyFunc, and otherwise *)
(* changes no phase.                                                       *)
LEMMA ApplyLife ==
    ASSUME CMTypeOK, ChangesTracked,
           NEW n \in Names, NEW t \in Targets, NEW ok \in BOOLEAN,
           NEW left \in BOOLEAN, Apply(n, t, ok, left)
    PROVE  Lives!Next
<1>1. CASE ~allowed \/ ~Exists(n)
  BY <1>1, QuietLife DEF Apply
<1>2. CASE allowed /\ Exists(n)
  <2> DEFINE c == changes[n]
             d == apply(c, t, ok)
  <2>1. c \in Change /\ d \in Change
    BY <1>2, ApplyType DEF CMTypeOK, Exists
  <2>2. /\ changes' = [changes EXCEPT ![n] = d]
        /\ corruptedState' = (corruptedState \/ changes'[n].CorruptedState)
        /\ altered' = IF ApplyRuns(c) THEN [altered EXCEPT ![n] = ok \/ left] ELSE altered
        /\ calls' = [NoCalls EXCEPT ![n] = IF ApplyRuns(c) THEN "apply" ELSE "none"]
        /\ UNCHANGED allowed
    BY <1>2 DEF Apply
  <2>3. changes'[n] = d /\ \A m \in Names : m # n => changes'[m] = changes[m]
    BY <2>2 DEF CMTypeOK
  <2>4. c.CorruptedState => corruptedState /\ c.Error
    BY <1>2 DEF ChangesTracked, OwnAlterationTracked
  <2>5. CASE ApplyRuns(c)
    <3>1. ~c.Error /\ ~c.CorruptedState /\ ~(c.Applied /\ ~c.Reverted)
      BY <2>4, <2>5 DEF ApplyRuns, precheck, InEffect
    <3>2. Phase(c) \in {"new", "undone"}
      BY <2>1, <3>1, PhaseOf
    <3>3. /\ ok => ~d.CorruptedState /\ d.Applied /\ ~d.Reverted
          /\ ~ok => d.CorruptedState
      BY <2>1, <2>5, <3>1 DEF apply, ApplyRuns, Change
    <3>4. Phase(d) = IF ok THEN "standing" ELSE "damaged"
      BY <2>1, <3>3, PhaseOf
    <3>5. corruptedState' = (corruptedState \/ ~ok)
      BY <2>2, <2>3, <3>3 DEF CMTypeOK
    <3> HIDE DEF c, d
    <3>6. [m \in Names |-> Phase(changes'[m])] =
            [[m \in Names |-> Phase(changes[m])]
               EXCEPT ![n] = IF ok THEN "standing" ELSE "damaged"]
      BY <2>3, <3>4
    <3>7. [m \in Names |-> Phase(changes[m])][n] \in {"new", "undone"}
      BY <3>2 DEF c
    <3>8. altered' = [altered EXCEPT ![n] = ok \/ left]
          /\ calls' = [NoCalls EXCEPT ![n] = "apply"]
      BY <2>2, <2>5
    <3>9. Lives!Alter(n, ok, left)
      BY <1>2, <2>2, <3>5, <3>6, <3>7, <3>8 DEF Lives!Alter, Lives!NoCalls, NoCalls
    <3> QED BY <3>9 DEF Lives!Next
  <2>6. CASE ~ApplyRuns(c)
    <3>1. /\ d.CorruptedState = c.CorruptedState
          /\ d.Applied = c.Applied /\ d.Reverted = c.Reverted
      BY <2>1, <2>6 DEF apply, ApplyRuns, Change, InEffect
    <3>2. Phase(d) = Phase(c)
      BY <2>1, <3>1, SamePhase
    <3>3. corruptedState' = corruptedState
      BY <2>2, <2>3, <2>4, <3>1 DEF CMTypeOK
    <3>4. calls' = NoCalls /\ altered' = altered
      BY <2>2, <2>6 DEF NoCalls
    <3>5. \A m \in Names : Phase(changes'[m]) = Phase(changes[m])
      BY <2>3, <3>2
    <3> QED BY <2>2, <3>3, <3>4, <3>5, QuietLife
  <2> QED BY <2>5, <2>6
<1> QED BY <1>1, <1>2

(* revert(), of one change or of all, is an Undo of those whose revertFunc *)
(* it calls.                                                               *)
LEMMA RevertLife ==
    ASSUME CMTypeOK, ChangesTracked,
           NEW ns \in SUBSET Names, NEW ok, NEW left,
           RevertChanges(ns, ok, left)
    PROVE  Lives!Next
<1> DEFINE called == {n \in ns : Exists(n) /\ RevertRuns(changes[n])}
           done == called \cap ok
           broken == called \ ok
           kept == left \cap Names
<1>1. ASSUME NEW n \in Names
      PROVE  /\ n \in called => Phase(changes[n]) \in {"standing", "undone"}
             /\ n \in broken => /\ Phase(changes'[n]) = "damaged"
                                /\ changes'[n].CorruptedState
             /\ n \in done => Phase(changes'[n]) = "undone"
             /\ n \notin called => Phase(changes'[n]) = Phase(changes[n])
             /\ n \in ns /\ Exists(n) /\ n \notin broken =>
                    (changes'[n].CorruptedState => corruptedState)
  <2> DEFINE c == changes[n]
             d == revert(c, n \in ok)
  <2>1. CASE n \notin ns \/ ~Exists(n)
    <3>1. changes'[n] = changes[n]
      BY <2>1 DEF RevertChanges
    <3> QED BY <2>1, <3>1
  <2>2. CASE n \in ns /\ Exists(n)
    <3>1. c \in Change /\ d \in Change /\ changes'[n] = d
      BY <2>2, RevertType DEF CMTypeOK, Exists, RevertChanges
    <3>2. c.CorruptedState => corruptedState /\ c.Error
      BY <2>2 DEF ChangesTracked, OwnAlterationTracked
    <3>3. CASE ~RevertRuns(c)
      <4>1. /\ d.CorruptedState = c.CorruptedState
            /\ d.Applied = c.Applied /\ d.Reverted = c.Reverted
        BY <3>1, <3>3 DEF revert, RevertRuns, Change
      <4>2. Phase(d) = Phase(c)
        BY <3>1, <4>1, SamePhase
      <4> QED BY <3>1, <3>2, <3>3, <4>1, <4>2
    <3>4. CASE RevertRuns(c)
      <4>1. ~c.CorruptedState /\ c.Applied
        BY <3>2, <3>4 DEF RevertRuns, precheck
      <4>2. Phase(c) \in {"standing", "undone"}
        BY <3>1, <4>1, PhaseOf
      <4>3. /\ n \in ok => ~d.CorruptedState /\ d.Applied /\ d.Reverted
            /\ n \notin ok => d.CorruptedState
        BY <3>1, <3>4, <4>1 DEF revert, RevertRuns, Change
      <4>4. /\ n \in ok => Phase(d) = "undone"
            /\ n \notin ok => Phase(d) = "damaged"
        BY <3>1, <4>3, PhaseOf
      <4> QED BY <2>2, <3>1, <3>4, <4>2, <4>3, <4>4
    <3> QED BY <3>3, <3>4
  <2> QED BY <2>1, <2>2
<1>2. \A n \in done \cup broken : [m \in Names |-> Phase(changes[m])][n] \in {"standing", "undone"}
  BY <1>1
<1>3. altered' = [n \in Names |-> IF n \in done \cup broken
                                  THEN n \in broken \cap kept ELSE altered[n]]
  <2>1. altered' = [n \in Names |-> IF n \in called THEN n \in left \ ok ELSE altered[n]]
    BY DEF RevertChanges
  <2>2. ASSUME NEW n \in Names
        PROVE  /\ n \in called <=> n \in done \cup broken
               /\ n \in called => (n \in left \ ok <=> n \in broken \cap kept)
    OBVIOUS
  <2> QED BY <2>1, <2>2
<1>4. calls' = [n \in Names |-> IF n \in done \cup broken THEN "revert" ELSE "none"]
  <2>1. calls' = [n \in Names |-> IF n \in called THEN "revert" ELSE "none"]
    BY DEF RevertChanges
  <2>2. called = done \cup broken
    OBVIOUS
  <2> QED BY <2>1, <2>2
<1>5. corruptedState' = (corruptedState \/ broken # {})
  <2>1. corruptedState' = (corruptedState \/
          \E n \in {m \in ns : Exists(m)} : changes'[n].CorruptedState)
    BY DEF RevertChanges
  <2>2. (\E n \in {m \in ns : Exists(m)} : changes'[n].CorruptedState)
           => corruptedState \/ broken # {}
    BY <1>1
  <2>3. broken # {} => \E n \in {m \in ns : Exists(m)} : changes'[n].CorruptedState
    BY <1>1
  <2> QED BY <2>1, <2>2, <2>3 DEF CMTypeOK
<1>6. [n \in Names |-> Phase(changes'[n])] =
        [n \in Names |-> CASE n \in broken -> "damaged"
                           [] n \in done \ broken -> "undone"
                           [] OTHER -> [m \in Names |-> Phase(changes[m])][n]]
  <2>1. ASSUME NEW n \in Names
        PROVE  Phase(changes'[n]) = CASE n \in broken -> "damaged"
                           [] n \in done \ broken -> "undone"
                           [] OTHER -> [m \in Names |-> Phase(changes[m])][n]
    BY <1>1
  <2> QED BY <2>1
<1>7. allowed' = allowed /\ done \in SUBSET Names /\ broken \in SUBSET Names
      /\ kept \in SUBSET Names
  BY DEF RevertChanges
<1> HIDE DEF done, broken, kept, called
<1>8. Lives!Undo(done, broken, kept)
  BY <1>2, <1>3, <1>4, <1>5, <1>6, <1>7 DEF Lives!Undo
<1> QED BY <1>7, <1>8 DEF Lives!Next

(* Every change goes through the life that ChangeSet describes, for every  *)
(* number of changes and every sequence of calls.  ChangesTracked is   *)
(* what the step needs: a damaged Change has its Error, so precheck stops  *)
(* both functions, and the manager has been flagged already.               *)
THEOREM ChangeSetRefined == CMSpec => ImplementsChangeSet
<1>1. CMInit => Lives!Init
  BY DEF CMInit, Lives!Init, Phase, NoCalls, Lives!NoCalls
<1>2. CMTypeOK /\ ChangesTracked /\ [CMNext]_cmVars => [Lives!Next]_(Lives!vars)
  <2> SUFFICES ASSUME CMTypeOK, ChangesTracked, [CMNext]_cmVars
               PROVE  Lives!Next \/ UNCHANGED Lives!vars
    OBVIOUS
  <2>1. CASE UNCHANGED cmVars
    BY <2>1 DEF cmVars, Lives!vars
  <2>2. CASE Allow
    BY <2>2 DEF Allow, Lives!Next, Lives!Permit, NoCalls, Lives!NoCalls
  <2>3. ASSUME NEW n \in Names, NEW funcs \in BOOLEAN, NEW described \in BOOLEAN,
               NEW t \in Targets \cup {""},
               AddChange(n, NewChange(funcs, t, described))
        PROVE  Lives!Next
    <3> DEFINE c == NewChange(funcs, t, described)
    <3>1. c \in Change /\ ~c.CorruptedState /\ ~c.Applied
      BY DEF NewChange, Change
    <3>2. Phase(c) = "new"
      BY <3>1, PhaseOf
    <3>3. /\ changes' = [changes EXCEPT ![n] = c]
          /\ altered' = [altered EXCEPT ![n] = FALSE] /\ calls' = NoCalls
          /\ UNCHANGED <<allowed, corruptedState>>
      BY <2>3 DEF AddChange
    <3> HIDE DEF c
    <3>4. [m \in Names |-> Phase(changes'[m])] =
            [[m \in Names |-> Phase(changes[m])] EXCEPT ![n] = "new"]
      BY <3>2, <3>3 DEF CMTypeOK
    <3>5. Lives!Register(n)
      BY <3>3, <3>4 DEF Lives!Register, Lives!NoCalls, NoCalls
    <3> QED BY <3>5 DEF Lives!Next
  <2>4. ASSUME NEW n \in Names, NEW funcs \in BOOLEAN, AddFunctions(n, funcs)
        PROVE  Lives!Next
    <3> DEFINE d == [changes[n] EXCEPT !.funcs = funcs]
    <3>1. changes[n] \in Change
      BY <2>4 DEF AddFunctions, Exists, CMTypeOK
    <3>2. /\ d \in Change /\ d.CorruptedState = changes[n].CorruptedState
          /\ d.Applied = changes[n].Applied /\ d.Reverted = changes[n].Reverted
      BY <3>1 DEF Change
    <3>3. Phase(d) = Phase(changes[n])
      BY <3>1, <3>2, SamePhase
    <3>4. /\ changes' = [changes EXCEPT ![n] = d] /\ calls' = NoCalls
          /\ UNCHANGED <<allowed, altered, corruptedState>>
      BY <2>4 DEF AddFunctions
    <3> HIDE DEF d
    <3>5. \A m \in Names : Phase(changes'[m]) = Phase(changes[m])
      BY <3>3, <3>4 DEF CMTypeOK
    <3> QED BY <3>4, <3>5, QuietLife
  <2>5. ASSUME NEW n \in Names PROVE {n} \in SUBSET Names
    OBVIOUS
  <2> QED BY <2>1, <2>2, <2>3, <2>4, <2>5, ApplyLife, RevertLife
          DEF CMNext, StepOp, Revert, RevertAll
<1> QED BY <1>1, <1>2, CMTypeCorrect, ChangesAlwaysTracked, PTL
        DEF CMSpec, ImplementsChangeSet, Lives!Spec

----------------------------------------------------------------------------
(* The invariant of the plugin process.                                    *)

(* The readers of a directory have reported the files they failed on.      *)
LoadInv ==
    loading # None =>
        loading.errs = {i \in DOMAIN loading.dir \ loading.pending :
                           loading.dir[i] = Unreadable}

(* A loaded catalog is a file of a directory that could be read.           *)
CatalogInv ==
    \A id \in DOMAIN referenceCatalogs :
        /\ referenceCatalogs[id].id = id
        /\ \E d \in Dirs : /\ Unreadable \notin ToSet(d)
                           /\ referenceCatalogs[id] \in ToSet(d)

(* What a suite without a change manager meets is as Evaluate left it.     *)
Restored ==
    \A n \in Names : altered[n] => corruptedState \/ ~precheck(changes[n])

RestoreInv ==
    pc # "evaluate" \/ ~suite[Current].changeManager => Restored

(* Evaluate runs for a suite that is registered.                           *)
RunningInv == pc = "evaluate" => Registered(Current)

(* The aggregated result of a suite tells whether a control ended badly.   *)
ResultInv == \A c \in Ids : bad[c] # {} <=> suite[c].Result \in Bad

(* The exit code tells whether a control of an evaluated suite ended badly *)
(* in any call so far.                                                     *)
ExitInv ==
    Completed =>
        /\ exit \in {"TestPass", "TestFail"}
        /\ exit = "TestFail" <=> \E c \in ToSet(Evaluation_Suites) : bad[c] # {}

(* Once the loaders have run, every suite has the payload of this call.    *)
PayloadInv ==
    pc \in {"catalogs", "evaluate"} =>
        \A c \in ToSet(possibleSuites) :
            built[c].how.loader # "none" \/ loader # "none" =>
                suite[c].payload.run = runs

(* From the end of WriteResults to the return of Mobilize, and after.      *)
FileInv ==
    /\ pc = "load" => Evaluation_Suites = <<>>
    /\ pc \in {"benchmark", "idle"} /\ runs > 0 /\ err = "nil"
          /\ Evaluation_Suites # <<>>
          /\ config.Write /\ config.Output # "sarif" =>
         file = [run |-> runs, suites |-> Evaluation_Suites]

(* Unless a directory failed to load, a loaded catalog has its whole       *)
(* directory beside it.                                                    *)
TogetherInv ==
    ~failed =>
        \A id \in DOMAIN referenceCatalogs : \E d \in Dirs :
            /\ Unreadable \notin ToSet(d)
            /\ referenceCatalogs[id] \in ToSet(d)
            /\ \A f \in ToSet(d) :
                 f.id \in DOMAIN referenceCatalogs /\ referenceCatalogs[f.id] = f

(* Only registered suites are evaluated.                                   *)
EvaluatedInv == ToSet(Evaluation_Suites) \subseteq ToSet(possibleSuites)

(* A benchmark has the timing of every loader that was called, and as many *)
(* payloads to ask for their API calls.                                    *)
BenchmarkInv ==
    /\ loader = "none" => Payload = NoPayload
    /\ pc \notin {"idle", "dead"} /\ config.Benchmark => benchmark # None
    /\ pc \in {"catalogs", "evaluate", "write", "benchmark"} /\ benchmark # None =>
         Len(benchmark) = apiCallsReported

(* The controls of suite c before the n-th whose steps run.                *)
AssessedBefore(c, n) ==
    {i \in DOMAIN Evaluations(c) :
        i < n /\ Applies(Evaluations(c)[i]) /\ HasSteps(c, Evaluations(c)[i])}

(* Suite c has been timed once per step that ran, if it is evaluated once. *)
Timed(c) ==
    /\ c \notin ToSet(Evaluation_Suites) =>
         suite[c].stepTimings = IF pc = "evaluate" /\ c = Current
                                THEN Cardinality(AssessedBefore(c, ctl)) ELSE 0
    /\ c \in ToSet(Evaluation_Suites) =>
         \/ pc = "evaluate" /\ c = Current
         \/ suite[c].stepTimings = StepsOf(c)

(* In a first Mobilize no change manager is attached, so Evaluate goes     *)
(* through all controls, and a suite is timed as it is evaluated.          *)
FirstInv ==
    /\ ctl >= 1
    /\ runs = 0 => pc = "idle" /\ Evaluation_Suites = <<>>
    /\ runs = 0 \/ (runs = 1 /\ pc # "idle") =>
         \A c \in Ids : ~suite[c].changeManager
    /\ runs = 0 => \A c \in Ids : suite[c].stepTimings = 0
    /\ runs = 1 /\ config.Benchmark /\ IsInjective(Evaluation_Suites) =>
         \A c \in Ids : Timed(c)

OrchInv ==
    /\ TypeOK
    /\ ChangesTracked
    /\ LoadInv
    /\ CatalogInv
    /\ RestoreInv
    /\ RunningInv
    /\ ResultInv
    /\ ExitInv
    /\ SuiteHaltsOnCorruption
    /\ PayloadInv
    /\ FileInv
    /\ TogetherInv
    /\ SuiteHasItsImports
    /\ EvaluatedInv
    /\ BenchmarkInv
    /\ FirstInv
    /\ OutputsOfThisRun

----------------------------------------------------------------------------
(* Steps seen from the parts.                                              *)

(* Only AddChangeManager, an assessment step and the end of Evaluate touch *)
(* the change manager, each by one of its operations.                      *)
LEMMA NextIsCM ==
    ASSUME [Next]_vars
    PROVE  [CMNext]_cmVars
<1>1. CASE UNCHANGED vars
  BY <1>1 DEF vars
<1>2. ASSUME NEW c \in Ids, AddChangeManager(c) PROVE CMNext
  BY <1>2 DEF AddChangeManager, CMNext
<1>3. CASE AssessmentStep
  BY <1>3 DEF AssessmentStep, CMNext
<1>4. ASSUME NEW ok \in SUBSET Names, NEW left \in SUBSET Names,
             EvaluateEnd(ok, left)
      PROVE  [CMNext]_cmVars
  BY <1>4 DEF EvaluateEnd, CMNext
<1>5. CASE Register \/ EvaluateStart \/ SkipCatalog \/ CatalogsDone
  BY <1>5 DEF Register, EvaluateStart, SkipCatalog, CatalogsDone
<1>6. CASE \/ \E l \in Loaders : AddLoader(l)
           \/ \E s \in Settings, logs \in BOOLEAN : MobilizeStart(s, logs)
           \/ \E k \in 0..Len(possibleSuites) + 1 : loadPayload(k)
           \/ \E r \in Results : EvaluateControl(r)
  BY <1>6 DEF AddLoader, MobilizeStart, loadPayload, EvaluateControl
<1>7. CASE \/ \E k \in 0..Len(Evaluation_Suites), m, o, w \in BOOLEAN :
                 WriteResults(k, m, o, w)
           \/ \E o, w \in BOOLEAN : FinalizeBenchmark(o, w)
  BY <1>7 DEF WriteResults, FinalizeBenchmark
<1> QED BY <1>1, <1>2, <1>3, <1>4, <1>5, <1>6, <1>7 DEF Next, MobilizeStep

(* Catalogs and suites are registered outside Mobilize only.               *)
LEMMA NextIsReg ==
    ASSUME [Next]_vars
    PROVE  Register \/ UNCHANGED regVars
<1>1. CASE UNCHANGED vars
  BY <1>1 DEF vars, orchVars, pluginVars
<1>2. CASE EvaluateStart \/ SkipCatalog \/ CatalogsDone \/ AssessmentStep
  BY <1>2 DEF EvaluateStart, SkipCatalog, CatalogsDone, AssessmentStep, pluginVars
<1>3. CASE \/ \E l \in Loaders : AddLoader(l)
           \/ \E c \in Ids : AddChangeManager(c)
           \/ \E s \in Settings, logs \in BOOLEAN : MobilizeStart(s, logs)
  BY <1>3 DEF AddLoader, AddChangeManager, MobilizeStart, pluginVars
<1>4. CASE \/ \E k \in 0..Len(possibleSuites) + 1 : loadPayload(k)
           \/ \E r \in Results : EvaluateControl(r)
           \/ \E ok, left \in SUBSET Names : EvaluateEnd(ok, left)
  BY <1>4 DEF loadPayload, EvaluateControl, EvaluateEnd, pluginVars
<1>5. CASE \/ \E k \in 0..Len(Evaluation_Suites), m, o, w \in BOOLEAN :
                 WriteResults(k, m, o, w)
           \/ \E o, w \in BOOLEAN : FinalizeBenchmark(o, w)
  BY <1>5 DEF WriteResults, FinalizeBenchmark, pluginVars
<1> QED BY <1>1, <1>2, <1>3, <1>4, <1>5 DEF Next, MobilizeStep

----------------------------------------------------------------------------
(* Registration.                                                           *)

(* Two members of a finite set of numbers differ in rank.                  *)
LEMMA RankIsInjective ==
    ASSUME NEW S \in SUBSET Nat, IsFiniteSet(S), NEW i \in S, NEW j \in S,
           Cardinality({k \in S : k <= i}) = Cardinality({k \in S : k <= j})
    PROVE  i = j
<1> DEFINE R(n) == {k \in S : k <= n}
<1>1. ASSUME NEW m \in S, NEW n \in S, m < n, Cardinality(R(m)) = Cardinality(R(n))
      PROVE  FALSE
  <2>1. m \in Nat /\ n \in Nat /\ \A k \in S : k \in Nat
    OBVIOUS
  <2>2. ~(n <= m) /\ n <= n /\ \A k \in S : k <= m => k <= n
    BY <1>1, <2>1
  <2>3. R(m) \in SUBSET R(n) /\ n \in R(n) /\ n \notin R(m) /\ R(n) \in SUBSET S
    BY <2>2
  <2> HIDE DEF R
  <2>4. IsFiniteSet(R(n))
    BY <2>3, FS_Subset
  <2> QED BY <1>1, <2>3, <2>4, FS_Subset
<1>2. Cardinality(R(i)) = Cardinality(R(j))
  OBVIOUS
<1>3. i \in Nat /\ j \in Nat
  OBVIOUS
<1> HIDE DEF R
<1>4. ~(i < j) /\ ~(j < i)
  BY <1>1, <1>2
<1> QED BY <1>3, <1>4

(* The rank of a member, in a finite set of numbers.                       *)
LEMMA RankIsWithin ==
    ASSUME NEW S \in SUBSET Nat, IsFiniteSet(S), NEW i \in S
    PROVE  Cardinality({j \in S : j <= i}) \in 1..Cardinality(S)
<1> DEFINE R == {j \in S : j <= i}
<1>1. R \in SUBSET S /\ i \in R
  OBVIOUS
<1> HIDE DEF R
<1>2. IsFiniteSet(R) /\ Cardinality(R) <= Cardinality(S)
  BY <1>1, FS_Subset
<1>3. Cardinality(R) \in Nat /\ Cardinality(R) # 0 /\ Cardinality(S) \in Nat
  BY <1>1, <1>2, FS_CardinalityType, FS_EmptySet
<1>4. Cardinality(R) \in 1..Cardinality(S)
  BY <1>2, <1>3
<1> QED BY <1>4 DEF R

(* Every rank is taken.                                                    *)
LEMMA RankIsOnto ==
    ASSUME NEW S \in SUBSET Nat, IsFiniteSet(S), NEW p \in 1..Cardinality(S)
    PROVE  \E i \in S : Cardinality({j \in S : j <= i}) = p
<1> DEFINE rank == [i \in S |-> Cardinality({j \in S : j <= i})]
           T == 1..Cardinality(S)
<1>1. rank \in [S -> T]
  BY RankIsWithin
<1>2. \A i, j \in S : rank[i] = rank[j] => i = j
  BY RankIsInjective
<1>3. rank \in Injection(S, T)
  BY <1>1, <1>2 DEF Injection, IsInjective
<1>4. IsFiniteSet(T) /\ Cardinality(T) = Cardinality(S)
  BY FS_CardinalityType, FS_Interval
<1>5. rank \in Surjection(S, T)
  BY <1>3, <1>4, FS_Injection
<1>6. \E i \in S : rank[i] = p
  BY <1>5 DEF Surjection
<1> QED BY <1>6

(* Picked takes the elements at the positions in S, all of them and no     *)
(* other.                                                                  *)
LEMMA PickedElements ==
    ASSUME NEW s, NEW n \in Nat, NEW S \in SUBSET (1..n), NEW X,
           \A i \in S : s[i] \in X
    PROVE  /\ IsFiniteSet(S) /\ Cardinality(S) \in Nat
           /\ Picked(s, S) \in Seq(X)
           /\ Len(Picked(s, S)) = Cardinality(S)
           /\ DOMAIN Picked(s, S) = 1..Cardinality(S)
           /\ \A x : x \in ToSet(Picked(s, S)) <=> \E i \in S : x = s[i]
<1>1. IsFiniteSet(S) /\ S \in SUBSET Nat
  <2>1. IsFiniteSet(1..n)
    BY FS_Interval
  <2>2. S \in SUBSET Nat
    OBVIOUS
  <2> QED BY <2>1, <2>2, FS_Subset
<1>2. Cardinality(S) \in Nat
  BY <1>1, FS_CardinalityType
<1>3. ASSUME NEW p \in 1..Cardinality(S)
      PROVE  Nth(S, p) \in S /\ Cardinality({j \in S : j <= Nth(S, p)}) = p
  BY <1>1, RankIsOnto DEF Nth
<1>4. ASSUME NEW i \in S PROVE \E p \in 1..Cardinality(S) : Nth(S, p) = i
  <2> DEFINE p == Cardinality({j \in S : j <= i})
  <2>1. p \in 1..Cardinality(S)
    BY <1>1, RankIsWithin
  <2>2. Nth(S, p) \in S /\ Cardinality({j \in S : j <= Nth(S, p)}) = p
    BY <1>3, <2>1
  <2> DEFINE k == Nth(S, p)
  <2>3. k \in S /\ Cardinality({j \in S : j <= k}) = Cardinality({j \in S : j <= i})
    BY <2>2
  <2> HIDE DEF k
  <2>4. k = i
    BY <1>1, <2>3, RankIsInjective
  <2> QED BY <2>1, <2>4 DEF k
<1> DEFINE t == Picked(s, S)
<1>5. t = [p \in 1..Cardinality(S) |-> s[Nth(S, p)]]
  BY DEF Picked
<1> HIDE DEF t
<1>6. t \in [1..Cardinality(S) -> X]
  BY <1>3, <1>5
<1>7. t \in Seq(X) /\ Len(t) = Cardinality(S) /\ DOMAIN t = 1..Cardinality(S)
  BY <1>2, <1>6
<1>8. \A x : x \in ToSet(t) <=> \E i \in S : x = s[i]
  BY <1>3, <1>4, <1>5 DEF ToSet
<1> QED BY <1>1, <1>2, <1>7, <1>8 DEF t

(* The elements of a concatenation.                                        *)
LEMMA ConcatElements ==
    ASSUME NEW X, NEW s \in Seq(X), NEW t \in Seq(X)
    PROVE  /\ s \o t \in Seq(X) /\ ToSet(s \o t) = ToSet(s) \cup ToSet(t)
           /\ Len(s \o t) = Len(s) + Len(t)
<1> DEFINE u == s \o t
<1>1. /\ Len(s) \in Nat /\ Len(t) \in Nat
      /\ DOMAIN s = 1..Len(s) /\ DOMAIN t = 1..Len(t)
      /\ u \in Seq(X) /\ DOMAIN u = 1..(Len(s) + Len(t))
      /\ Len(u) = Len(s) + Len(t)
  OBVIOUS
<1>2. /\ \A i \in 1..Len(s) : u[i] = s[i]
      /\ \A i \in 1..Len(t) : u[Len(s) + i] = t[i]
  OBVIOUS
<1> HIDE DEF u
<1>3. \A i \in DOMAIN u : i \in 1..Len(s) \/ (i - Len(s)) \in 1..Len(t)
  BY <1>1
<1>4. \A i \in DOMAIN u : u[i] \in ToSet(s) \cup ToSet(t)
  <2> SUFFICES ASSUME NEW i \in DOMAIN u PROVE u[i] \in ToSet(s) \cup ToSet(t)
    OBVIOUS
  <2>1. CASE i \in 1..Len(s)
    BY <1>1, <1>2, <2>1 DEF ToSet
  <2>2. CASE (i - Len(s)) \in 1..Len(t)
    <3>1. Len(s) + (i - Len(s)) = i
      BY <1>1
    <3>2. u[i] = t[i - Len(s)]
      BY <1>2, <2>2, <3>1
    <3> QED BY <1>1, <2>2, <3>2 DEF ToSet
  <2> QED BY <1>3, <2>1, <2>2
<1>5. \A i \in DOMAIN s : s[i] \in ToSet(u)
  <2>1. \A i \in 1..Len(s) : i \in DOMAIN u
    BY <1>1
  <2> QED BY <1>1, <1>2, <2>1 DEF ToSet
<1>6. \A i \in DOMAIN t : t[i] \in ToSet(u)
  <2>1. \A i \in 1..Len(t) : Len(s) + i \in DOMAIN u
    BY <1>1
  <2> QED BY <1>1, <1>2, <2>1 DEF ToSet
<1> QED BY <1>1, <1>4, <1>5, <1>6 DEF ToSet, u

(* What getImportedControls returns: a control for every entry of an       *)
(* import that is found, and nothing else.                                 *)
LEMMA ImportedControls ==
    ASSUME NEW catalog \in CatalogFiles, NEW catalogs,
           catalogs \in [DOMAIN catalogs -> CatalogFiles]
    PROVE  /\ getImportedControls(catalog, catalogs) \in Seq(Controls)
           /\ \A k \in ToSet(getImportedControls(catalog, catalogs)) :
                \E e \in ToSet(catalog.imports) : k \in Found(e, catalogs)
           /\ \A e \in ToSet(catalog.imports) : Found(e, catalogs) # {} =>
                \E k \in ToSet(getImportedControls(catalog, catalogs)) :
                    k \in Found(e, catalogs)
<1> DEFINE entries == catalog.imports
           s == [i \in DOMAIN entries |-> CHOOSE c \in Found(entries[i], catalogs) : TRUE]
           S == {i \in DOMAIN entries : Found(entries[i], catalogs) # {}}
           got == getImportedControls(catalog, catalogs)
<1>1. got = Picked(s, S)
  BY DEF getImportedControls
<1>2. DOMAIN entries = 1..Len(entries) /\ Len(entries) \in Nat
  BY RegistrationInputs
<1>3. \A i \in S : s[i] \in Found(entries[i], catalogs)
  OBVIOUS
<1>4. \A e : Found(e, catalogs) \subseteq Controls
  BY DEF Found, Controls
<1>5. S \in SUBSET (1..Len(entries)) /\ S \subseteq DOMAIN entries
  BY <1>2
<1>6. \A e \in ToSet(entries) : Found(e, catalogs) # {} => \E i \in S : entries[i] = e
  BY DEF ToSet
<1>7. \A i \in S : entries[i] \in ToSet(entries)
  BY DEF ToSet
<1> HIDE DEF entries, s, S, got
<1>8. \A i \in S : s[i] \in Controls
  BY <1>3, <1>4
<1>9. got \in Seq(Controls) /\ \A x : x \in ToSet(got) <=> \E i \in S : x = s[i]
  <2> DEFINE n == Len(entries)
  <2>1. n \in Nat /\ S \in SUBSET (1..n)
    BY <1>2, <1>5
  <2> HIDE DEF n
  <2>2. /\ Picked(s, S) \in Seq(Controls)
        /\ \A x : x \in ToSet(Picked(s, S)) <=> \E i \in S : x = s[i]
    BY <1>8, <2>1, PickedElements
  <2> QED BY <1>1, <2>2
<1>10. \A k \in ToSet(got) : \E e \in ToSet(entries) : k \in Found(e, catalogs)
  BY <1>3, <1>7, <1>9
<1>11. ASSUME NEW e \in ToSet(entries), Found(e, catalogs) # {}
       PROVE  \E k \in ToSet(got) : k \in Found(e, catalogs)
  <2>1. PICK i \in S : entries[i] = e
    BY <1>6, <1>11
  <2> QED BY <1>3, <1>9, <2>1
<1> QED BY <1>9, <1>10, <1>11 DEF entries, got


(* Appending a new id to the suites.                                       *)
LEMMA AppendSuite ==
    ASSUME NEW s \in Seq(Ids), IsInjective(s), NEW id \in Ids, id \notin ToSet(s)
    PROVE  /\ Append(s, id) \in Seq(Ids)
           /\ IsInjective(Append(s, id))
           /\ ToSet(Append(s, id)) = ToSet(s) \cup {id}
<1> DEFINE t == Append(s, id)
<1>1. /\ t \in Seq(Ids)
      /\ DOMAIN t = 1..Len(s) + 1
      /\ DOMAIN s = 1..Len(s)
      /\ Len(s) \in Nat
  OBVIOUS
<1>2. t[Len(s) + 1] = id /\ \A i \in 1..Len(s) : t[i] = s[i]
  OBVIOUS
<1>3. \A i \in 1..Len(s) : s[i] # id
  BY <1>1 DEF ToSet
<1> HIDE DEF t
<1>4. \A i \in DOMAIN t : i \in 1..Len(s) \/ i = Len(s) + 1
  BY <1>1
<1>5. ToSet(t) = ToSet(s) \cup {id}
  <2>1. ASSUME NEW x \in ToSet(t) PROVE x \in ToSet(s) \cup {id}
    <3>1. PICK i \in DOMAIN t : x = t[i]
      BY <2>1 DEF ToSet
    <3> QED BY <1>1, <1>2, <1>4, <3>1 DEF ToSet
  <2>2. ASSUME NEW x \in ToSet(s) PROVE x \in ToSet(t)
    <3>1. PICK i \in 1..Len(s) : x = s[i]
      BY <1>1, <2>2 DEF ToSet
    <3>2. i \in DOMAIN t /\ x = t[i]
      BY <1>1, <1>2, <3>1
    <3> QED BY <3>2 DEF ToSet
  <2>3. id \in ToSet(t)
    <3>1. Len(s) + 1 \in DOMAIN t
      BY <1>1
    <3> QED BY <1>2, <3>1 DEF ToSet
  <2> QED BY <2>1, <2>2, <2>3
<1>6. IsInjective(t)
  <2>1. ASSUME NEW i \in DOMAIN t, NEW j \in DOMAIN t, t[i] = t[j] PROVE i = j
    BY <1>1, <1>2, <1>3, <1>4, <2>1 DEF IsInjective
  <2> QED BY <2>1 DEF IsInjective
<1> QED BY <1>1, <1>5, <1>6 DEF t

(* A file's controls are controls.                                         *)
LEMMA OwnControls ==
    ASSUME NEW catalog \in CatalogFiles
    PROVE  catalog.controls \in Seq(Controls)
<1>1. catalog.controls \in Seq(ToSet(catalog.controls))
  BY RegistrationInputs
<1>2. ToSet(catalog.controls) \subseteq Controls
  BY DEF Controls
<1> DEFINE s == catalog.controls
           T == ToSet(catalog.controls)
<1>3. s \in Seq(T) /\ T \subseteq Controls
  BY <1>1, <1>2
<1> HIDE DEF s, T
<1>4. s \in Seq(Controls)
  BY <1>3
<1> QED BY <1>4 DEF s

(* What addEvaluationSuite builds a suite from.                            *)
SuiteOf(id, how, catalogs) ==
    [how |-> how, controls |-> catalogs[id].controls
                               \o getImportedControls(catalogs[id], catalogs)]

LEMMA SuiteControls ==
    ASSUME NEW catalogs, catalogs \in [DOMAIN catalogs -> CatalogFiles],
           NEW id \in DOMAIN catalogs, NEW how
    PROVE  /\ SuiteOf(id, how, catalogs).how = how
           /\ SuiteOf(id, how, catalogs).controls \in Seq(Controls)
           /\ ToSet(SuiteOf(id, how, catalogs).controls) =
                ToSet(catalogs[id].controls)
                \cup ToSet(getImportedControls(catalogs[id], catalogs))
<1>1. catalogs[id] \in CatalogFiles
  OBVIOUS
<1> DEFINE s == catalogs[id].controls
           t == getImportedControls(catalogs[id], catalogs)
<1>2. s \in Seq(Controls) /\ t \in Seq(Controls)
  BY <1>1, OwnControls, ImportedControls
<1>3. SuiteOf(id, how, catalogs).how = how /\ SuiteOf(id, how, catalogs).controls = s \o t
  BY DEF SuiteOf
<1> HIDE DEF s, t
<1>4. s \o t \in Seq(Controls) /\ ToSet(s \o t) = ToSet(s) \cup ToSet(t)
  BY <1>2, ConcatElements
<1> QED BY <1>3, <1>4 DEF s, t

(* Copy-on-import keeps the loaded catalogs as they are, and a new suite   *)
(* is one more: what addEvaluationSuite leaves behind.                     *)
LEMMA AddedSuite ==
    ASSUME RegTypeOK, NEW id \in DOMAIN referenceCatalogs, NEW how \in Declared,
           addEvaluationSuite(id, how)
    PROVE  /\ referenceCatalogs' = referenceCatalogs
           /\ possibleSuites' \in Seq(Ids) /\ IsInjective(possibleSuites')
           /\ DOMAIN built' = ToSet(possibleSuites')
           /\ DOMAIN built \subseteq DOMAIN built'
           /\ DOMAIN built' \subseteq DOMAIN referenceCatalogs
           /\ \A c \in DOMAIN built : built'[c] = built[c]
           /\ \A c \in DOMAIN built' : c \notin DOMAIN built =>
                c = id /\ built'[c] = SuiteOf(id, how, referenceCatalogs)
           /\ \A c \in DOMAIN built' :
                built'[c].how \in Declared /\ built'[c].controls \in Seq(Controls)
<1>1. CASE id \in ToSet(possibleSuites)
  BY <1>1 DEF addEvaluationSuite, RegTypeOK, suiteVars
<1>2. CASE id \notin ToSet(possibleSuites)
  <2> DEFINE entry == SuiteOf(id, how, referenceCatalogs)
  <2>1. referenceCatalogs' = [referenceCatalogs EXCEPT ![id] = @]
    BY <1>2 DEF addEvaluationSuite, SharedCatalog
  <2>2. referenceCatalogs' = referenceCatalogs
    BY <2>1 DEF RegTypeOK
  <2>3. id \in Ids
    BY DEF RegTypeOK
  <2>4. possibleSuites' = Append(possibleSuites, id)
    BY <1>2 DEF addEvaluationSuite
  <2>5. /\ possibleSuites' \in Seq(Ids) /\ IsInjective(possibleSuites')
        /\ ToSet(possibleSuites') = ToSet(possibleSuites) \cup {id}
    BY <1>2, <2>3, <2>4, AppendSuite DEF RegTypeOK
  <2>6. built' = [c \in DOMAIN built \cup {id} |->
                    IF c = id THEN entry ELSE built[c]]
    BY <1>2 DEF addEvaluationSuite, SuiteOf
  <2>7. entry.how \in Declared /\ entry.controls \in Seq(Controls)
    BY SuiteControls DEF RegTypeOK
  <2> HIDE DEF entry
  <2>8. /\ DOMAIN built' = DOMAIN built \cup {id}
        /\ id \notin DOMAIN built
        /\ built'[id] = entry
        /\ \A c \in DOMAIN built : built'[c] = built[c]
    BY <1>2, <2>6 DEF RegTypeOK
  <2>9. \A c \in DOMAIN built' :
            built'[c].how \in Declared /\ built'[c].controls \in Seq(Controls)
    BY <2>7, <2>8 DEF RegTypeOK
  <2>10. DOMAIN built' \subseteq DOMAIN referenceCatalogs
    BY <2>8 DEF RegTypeOK
  <2>11. DOMAIN built' = ToSet(possibleSuites')
    BY <2>5, <2>8 DEF RegTypeOK
  <2> QED BY <2>2, <2>5, <2>8, <2>9, <2>10, <2>11 DEF entry
<1> QED BY <1>1, <1>2

(* The files taken from a directory all of whose readers have ended.       *)
LEMMA TakenFiles ==
    ASSUME RegTypeOK, LoadInv, loading # None, loading.pending = {},
           NEW known, NEW i \in Taken(loading.dir, loading.errs, known)
    PROVE  /\ i \in DOMAIN loading.dir
           /\ loading.dir[i] \in CatalogFiles
           /\ loading.dir[i].id \in Ids
           /\ loading.dir[i] \in ToSet(loading.dir)
           /\ Unreadable \notin ToSet(loading.dir)
<1>1. loading.dir \in Dirs
  BY DEF RegTypeOK
<1>2. loading.dir \in Seq(Files)
  BY <1>1, RegistrationInputs
<1>3. loading.errs = {}
  BY DEF Taken
<1>4. i \in Accepted(loading.dir, known)
  BY <1>3 DEF Taken
<1>5. i \in DOMAIN loading.dir /\ i \in 1..i
  BY <1>2, <1>4 DEF Accepted
<1>6. loading.dir[i].id # None
  BY <1>4, <1>5 DEF Accepted
<1>7. \A j \in DOMAIN loading.dir : loading.dir[j] # Unreadable
  BY <1>3 DEF LoadInv
<1>8. loading.dir[i] \in CatalogFiles
  BY <1>2, <1>5, <1>7 DEF CatalogFiles
<1> QED BY <1>5, <1>6, <1>7, <1>8 DEF Ids, ToSet

(* What AddCatalogs adds are files of the directory, under their own ids.  *)
LEMMA AddedCatalogs ==
    ASSUME RegTypeOK, LoadInv, CatalogInv, AddCatalogs
    PROVE  /\ referenceCatalogs' \in [DOMAIN referenceCatalogs' -> CatalogFiles]
           /\ DOMAIN referenceCatalogs' \subseteq Ids
           /\ CatalogInv'
<1> DEFINE known == DOMAIN referenceCatalogs
           taken == Taken(loading.dir, loading.errs, known)
           files == {loading.dir[i] : i \in taken}
           new == {loading.dir[i].id : i \in taken}
           File(id) == CHOOSE f \in files : f.id = id
<1>1. /\ loading # None /\ loading.pending = {}
      /\ referenceCatalogs' = [id \in known \cup new |->
            IF id \in new THEN File(id) ELSE referenceCatalogs[id]]
  BY DEF AddCatalogs
<1>2. ASSUME NEW id \in new
      PROVE  /\ id \in Ids
             /\ File(id) \in CatalogFiles
             /\ File(id).id = id
             /\ \E d \in Dirs : Unreadable \notin ToSet(d) /\ File(id) \in ToSet(d)
  <2>1. PICK i \in taken : loading.dir[i].id = id
    OBVIOUS
  <2>2. loading.dir[i] \in files
    OBVIOUS
  <2>3. File(id) \in files /\ File(id).id = id
    BY <2>1, <2>2
  <2>4. PICK j \in taken : File(id) = loading.dir[j]
    BY <2>3
  <2> HIDE DEF File, files, new
  <2>5. /\ loading.dir[i].id \in Ids
        /\ loading.dir[j] \in CatalogFiles
        /\ loading.dir[j] \in ToSet(loading.dir)
        /\ Unreadable \notin ToSet(loading.dir)
    BY <1>1, TakenFiles
  <2>6. loading.dir \in Dirs
    BY <1>1 DEF RegTypeOK
  <2> QED BY <2>1, <2>3, <2>4, <2>5, <2>6
<1> HIDE DEF File, new, files, taken
<1>3. ASSUME NEW id \in known \cup new
      PROVE  /\ id \in Ids
             /\ referenceCatalogs'[id] \in CatalogFiles
             /\ referenceCatalogs'[id].id = id
             /\ \E d \in Dirs : /\ Unreadable \notin ToSet(d)
                                /\ referenceCatalogs'[id] \in ToSet(d)
  <2>1. CASE id \in new
    BY <1>1, <1>2, <2>1
  <2>2. CASE id \notin new
    BY <1>1, <2>2 DEF RegTypeOK, CatalogInv
  <2> QED BY <2>1, <2>2
<1>4. DOMAIN referenceCatalogs' = known \cup new
  BY <1>1
<1>5. referenceCatalogs' \in [known \cup new -> CatalogFiles]
  BY <1>1, <1>3
<1> QED BY <1>3, <1>4, <1>5 DEF CatalogInv
(* Registration keeps its invariant.                                       *)
LEMMA RegStep ==
    ASSUME RegTypeOK, LoadInv, CatalogInv, RegNext \/ UNCHANGED regVars
    PROVE  RegTypeOK' /\ LoadInv' /\ CatalogInv'
<1>0. MaxLoads \in Nat
  BY RegistrationInputs
<1>1. ASSUME NEW d \in Dirs, AddReferenceCatalogs(d)
      PROVE  RegTypeOK' /\ LoadInv' /\ CatalogInv'
  <2>1. /\ UNCHANGED <<referenceCatalogs, possibleSuites, built, ranging>>
        /\ loads' \in 0..MaxLoads
    BY <1>0, <1>1 DEF AddReferenceCatalogs, RegTypeOK, suiteVars
  <2>0. failed' \in BOOLEAN
    BY <1>1, Zenon DEF AddReferenceCatalogs, RegTypeOK
  <2>2. CASE d = <<>>
    <3>1. loading = None /\ loading' = None
      BY <1>1, <2>2 DEF AddReferenceCatalogs, Quiet
    <3> QED BY <2>0, <2>1, <3>1 DEF RegTypeOK, LoadInv, CatalogInv
  <2>3. CASE d # <<>>
    <3>1. loading' = [dir |-> d, pending |-> DOMAIN d, errs |-> {}]
      BY <1>1, <2>3 DEF AddReferenceCatalogs
    <3>2. loading'.dir = d /\ loading'.pending = DOMAIN d /\ loading'.errs = {}
      BY <3>1
    <3>3. LoadInv'
      BY <3>2 DEF LoadInv
    <3>4. loading' \in [dir : Dirs, pending : SUBSET Nat, errs : SUBSET Nat]
      <4>1. DOMAIN d \in SUBSET Nat
        BY RegistrationInputs
      <4> QED BY <3>1, <4>1
    <3>5. RegTypeOK'
      BY <2>0, <2>1, <3>2, <3>4 DEF RegTypeOK
    <3> QED BY <2>1, <3>3, <3>5 DEF CatalogInv
  <2> QED BY <2>2, <2>3
<1>2. ASSUME loading # None, NEW i \in loading.pending, readYAMLFile(i)
      PROVE  RegTypeOK' /\ LoadInv' /\ CatalogInv'
  <2>1. UNCHANGED <<referenceCatalogs, possibleSuites, built, ranging, loads, failed>>
    BY <1>2 DEF readYAMLFile, suiteVars
  <2>2. /\ loading'.dir = loading.dir
        /\ loading'.pending = loading.pending \ {i}
        /\ loading'.errs = IF loading.dir[i] = Unreadable THEN loading.errs \cup {i}
                                                          ELSE loading.errs
    BY <1>2 DEF readYAMLFile, RegTypeOK
  <2>3. i \in DOMAIN loading.dir
    BY <1>2 DEF RegTypeOK
  <2>4. LoadInv'
    BY <1>2, <2>2, <2>3 DEF LoadInv
  <2>5. loading' \in [dir : Dirs, pending : SUBSET Nat, errs : SUBSET Nat]
    <3>1. loading \in [dir : Dirs, pending : SUBSET Nat, errs : SUBSET Nat]
      BY <1>2 DEF RegTypeOK
    <3>2. i \in Nat
      BY <1>2, <3>1
    <3> QED BY <1>2, <3>1, <3>2 DEF readYAMLFile
  <2>6. RegTypeOK'
    BY <1>2, <2>1, <2>2, <2>5 DEF RegTypeOK
  <2> QED BY <2>1, <2>4, <2>6 DEF CatalogInv
<1>3. CASE AddCatalogs
  <2>1. /\ loading' = None
        /\ UNCHANGED <<possibleSuites, built, ranging, loads>>
        /\ DOMAIN referenceCatalogs \subseteq DOMAIN referenceCatalogs'
        /\ failed' \in BOOLEAN
    BY <1>3 DEF AddCatalogs, suiteVars, RegTypeOK
  <2>2. RegTypeOK'
    BY <1>3, <2>1, AddedCatalogs DEF RegTypeOK
  <2> QED BY <1>3, <2>1, <2>2, AddedCatalogs DEF LoadInv
<1>4. ASSUME NEW id \in Ids, NEW how \in Declared, AddEvaluationSuite(id, how)
      PROVE  RegTypeOK' /\ LoadInv' /\ CatalogInv'
  <2>1. /\ id \in DOMAIN referenceCatalogs
        /\ addEvaluationSuite(id, how)
        /\ UNCHANGED <<loading, ranging, loads, failed>>
    BY <1>4 DEF AddEvaluationSuite
  <2>2. /\ referenceCatalogs' = referenceCatalogs
        /\ possibleSuites' \in Seq(Ids) /\ IsInjective(possibleSuites')
        /\ DOMAIN built' = ToSet(possibleSuites')
        /\ DOMAIN built' \subseteq DOMAIN referenceCatalogs
        /\ \A c \in DOMAIN built' :
             built'[c].how \in Declared /\ built'[c].controls \in Seq(Controls)
    BY <2>1, AddedSuite
  <2> QED BY <2>1, <2>2 DEF RegTypeOK, LoadInv, CatalogInv
<1>5. ASSUME NEW how \in Declared, AddEvaluationSuiteForAllCatalogs(how)
      PROVE  RegTypeOK' /\ LoadInv' /\ CatalogInv'
  <2>1. /\ UNCHANGED <<referenceCatalogs, possibleSuites, built, loading, loads, failed>>
        /\ ranging'.ids \subseteq DOMAIN referenceCatalogs
        /\ ranging' \in [ids : SUBSET Ids, how : Declared]
    BY <1>5 DEF AddEvaluationSuiteForAllCatalogs, suiteVars, RegTypeOK
  <2> QED BY <2>1 DEF RegTypeOK, LoadInv, CatalogInv
<1>6. ASSUME ranging # None, NEW id \in ranging.ids, NextCatalog(id)
      PROVE  RegTypeOK' /\ LoadInv' /\ CatalogInv'
  <2>1. id \in DOMAIN referenceCatalogs /\ ranging.how \in Declared
    BY <1>6 DEF RegTypeOK
  <2>2. /\ referenceCatalogs' = referenceCatalogs
        /\ possibleSuites' \in Seq(Ids) /\ IsInjective(possibleSuites')
        /\ DOMAIN built' = ToSet(possibleSuites')
        /\ DOMAIN built' \subseteq DOMAIN referenceCatalogs
        /\ \A c \in DOMAIN built' :
             built'[c].how \in Declared /\ built'[c].controls \in Seq(Controls)
    <3>1. CASE HasControls(id)
      <4>1. addEvaluationSuite(id, ranging.how)
        BY <1>6, <3>1 DEF NextCatalog
      <4> QED BY <2>1, <4>1, AddedSuite
    <3>2. CASE ~HasControls(id)
      BY <1>6, <3>2 DEF NextCatalog, suiteVars, RegTypeOK
    <3> QED BY <3>1, <3>2
  <2>3. UNCHANGED <<loading, loads, failed>>
    BY <1>6 DEF NextCatalog
  <2>4. ranging' = None \/ /\ ranging'.ids \subseteq ranging.ids
                           /\ ranging' \in [ids : SUBSET Ids, how : Declared]
    BY <1>6 DEF NextCatalog, RegTypeOK
  <2> QED BY <1>6, <2>2, <2>3, <2>4 DEF RegTypeOK, LoadInv, CatalogInv
<1>7. CASE UNCHANGED regVars
  BY <1>7 DEF regVars, suiteVars, RegTypeOK, LoadInv, CatalogInv
<1> QED BY <1>1, <1>2, <1>3, <1>4, <1>5, <1>6, <1>7 DEF RegNext

(* The ids of the files taken are new and distinct.                        *)
LEMMA TakenIds ==
    ASSUME NEW dir, dir \in Seq(Files), NEW errs, NEW known,
           NEW i \in Taken(dir, errs, known), NEW j \in Taken(dir, errs, known)
    PROVE  /\ dir[i].id \notin known
           /\ dir[i].id = dir[j].id => i = j
<1>1. i \in Accepted(dir, known) /\ j \in Accepted(dir, known)
  BY DEF Taken
<1>2. i \in DOMAIN dir /\ j \in DOMAIN dir
  BY <1>1 DEF Accepted
<1>3. i \in Nat /\ j \in Nat /\ i \in 1..i /\ j \in 1..j
  BY <1>2
<1>4. dir[i].id \notin known
  BY <1>1, <1>3 DEF Accepted
<1>5. ASSUME NEW m \in Accepted(dir, known), NEW k \in Nat, m \in Nat, k \in 1..m - 1
      PROVE  dir[k].id # dir[m].id
  <2>1. m \in 1..m
    BY <1>5
  <2> QED BY <1>5, <2>1 DEF Accepted
<1>6. i < j => i \in 1..j - 1
  BY <1>3
<1>7. j < i => j \in 1..i - 1
  BY <1>3
<1>8. i < j => dir[i].id # dir[j].id
  BY <1>1, <1>3, <1>5, <1>6
<1>9. j < i => dir[j].id # dir[i].id
  BY <1>1, <1>3, <1>5, <1>7
<1> QED BY <1>3, <1>4, <1>8, <1>9

(* What AddCatalogs leaves alone, and that a directory it reports no error *)
(* for is loaded as a whole.                                               *)
LEMMA WholeDirectory ==
    ASSUME RegTypeOK, LoadInv, TogetherInv, AddCatalogs
    PROVE  /\ DOMAIN referenceCatalogs \subseteq DOMAIN referenceCatalogs'
           /\ \A id \in DOMAIN referenceCatalogs :
                referenceCatalogs'[id] = referenceCatalogs[id]
           /\ TogetherInv'
<1> DEFINE known == DOMAIN referenceCatalogs
           dir == loading.dir
           taken == Taken(dir, loading.errs, known)
           files == {dir[i] : i \in taken}
           new == {dir[i].id : i \in taken}
           File(id) == CHOOSE f \in files : f.id = id
<1>1. /\ loading # None /\ loading.pending = {}
      /\ referenceCatalogs' = [id \in known \cup new |->
            IF id \in new THEN File(id) ELSE referenceCatalogs[id]]
      /\ failed' = (failed \/ taken # DOMAIN dir)
  BY DEF AddCatalogs
<1>2. dir \in Dirs /\ dir \in Seq(Files)
  BY <1>1, RegistrationInputs DEF RegTypeOK
<1>3. ASSUME NEW i \in taken
      PROVE  /\ dir[i].id \in new /\ dir[i].id \notin known
             /\ File(dir[i].id) = dir[i]
  <2>1. \A j \in taken : dir[j].id = dir[i].id => j = i
    BY <1>2, TakenIds
  <2>2. dir[i] \in files /\ \A f \in files : f.id = dir[i].id => f = dir[i]
    BY <2>1
  <2>3. dir[i].id \notin known
    BY <1>2, TakenIds
  <2> QED BY <2>2, <2>3
<1>4. \A id \in new : \E i \in taken : id = dir[i].id
  OBVIOUS
<1> HIDE DEF File, files, new, taken, dir
<1>5. /\ DOMAIN referenceCatalogs' = known \cup new
      /\ \A id \in known : referenceCatalogs'[id] = referenceCatalogs[id]
      /\ \A i \in taken : referenceCatalogs'[dir[i].id] = dir[i]
  BY <1>1, <1>3, <1>4
<1>6. TogetherInv'
  <2> SUFFICES ASSUME ~failed', NEW id \in known \cup new
               PROVE  \E d \in Dirs :
                         /\ Unreadable \notin ToSet(d)
                         /\ referenceCatalogs'[id] \in ToSet(d)
                         /\ \A f \in ToSet(d) :
                              /\ f.id \in DOMAIN referenceCatalogs'
                              /\ referenceCatalogs'[f.id] = f
    BY <1>5 DEF TogetherInv
  <2>1. ~failed /\ taken = DOMAIN dir
    BY <1>1
  <2>2. CASE id \in known
    <3>1. PICK d \in Dirs :
             /\ Unreadable \notin ToSet(d)
             /\ referenceCatalogs[id] \in ToSet(d)
             /\ \A f \in ToSet(d) :
                  f.id \in DOMAIN referenceCatalogs /\ referenceCatalogs[f.id] = f
      BY <2>1, <2>2 DEF TogetherInv
    <3>2. referenceCatalogs'[id] \in ToSet(d)
      BY <1>5, <2>2, <3>1
    <3>3. \A f \in ToSet(d) :
             f.id \in DOMAIN referenceCatalogs' /\ referenceCatalogs'[f.id] = f
      BY <1>5, <3>1
    <3> QED BY <3>1, <3>2, <3>3
  <2>3. CASE id \in new
    <3>1. PICK i \in taken : id = dir[i].id
      BY <1>4, <2>3
    <3>2. Unreadable \notin ToSet(dir)
      BY <1>1, <3>1, TakenFiles DEF taken, dir
    <3>3. referenceCatalogs'[id] \in ToSet(dir)
      BY <1>5, <2>1, <3>1 DEF ToSet
    <3>4. ASSUME NEW f \in ToSet(dir)
          PROVE  f.id \in DOMAIN referenceCatalogs' /\ referenceCatalogs'[f.id] = f
      <4>1. PICK k \in taken : f = dir[k]
        BY <2>1, <3>4 DEF ToSet
      <4> QED BY <1>3, <1>5, <4>1
    <3> QED BY <1>2, <3>2, <3>3, <3>4
  <2> QED BY <2>2, <2>3
<1> QED BY <1>5, <1>6

(* A suite that is built while its directory is loaded has its imports.    *)
LEMMA BuiltWithImports ==
    ASSUME RegTypeOK, CatalogInv, TogetherInv,
           NEW id \in DOMAIN referenceCatalogs, NEW how, NEW controls,
           controls = ToSet(SuiteOf(id, how, referenceCatalogs).controls)
    PROVE  /\ ~failed => HasImports(referenceCatalogs[id], controls)
           /\ controls \subseteq OwnOrImported(referenceCatalogs[id])
<1> DEFINE catalog == referenceCatalogs[id]
           got == getImportedControls(catalog, referenceCatalogs)
<1>1. catalog \in CatalogFiles
  BY DEF RegTypeOK
<1>2. controls = ToSet(catalog.controls) \cup ToSet(got)
  BY SuiteControls DEF RegTypeOK
<1>3. /\ \A k \in ToSet(got) :
           \E e \in ToSet(catalog.imports) : k \in Found(e, referenceCatalogs)
      /\ \A e \in ToSet(catalog.imports) : Found(e, referenceCatalogs) # {} =>
           \E k \in ToSet(got) : k \in Found(e, referenceCatalogs)
  BY <1>1, ImportedControls DEF RegTypeOK
<1> HIDE DEF got
<1>4. ASSUME ~failed PROVE HasImports(catalog, controls)
  <2>1. PICK d \in Dirs :
           /\ Unreadable \notin ToSet(d)
           /\ catalog \in ToSet(d)
           /\ \A f \in ToSet(d) :
                f.id \in DOMAIN referenceCatalogs /\ referenceCatalogs[f.id] = f
    BY <1>4 DEF TogetherInv
  <2> HIDE DEF catalog
  <2>2. ASSUME NEW f \in ToSet(d), NEW c \in Imported(catalog, f)
        PROVE  \E k \in controls \cap Imported(catalog, f) : k.id = c.id
    <3>1. c \in ToSet(f.controls)
      BY DEF Imported
    <3>2. PICK e \in ToSet(catalog.imports) : e.from = f.id /\ e.control = c.id
      BY DEF Imported
    <3>3. Found(e, referenceCatalogs) = {k \in ToSet(f.controls) : k.id = e.control}
      BY <2>1, <3>2 DEF Found
    <3>4. PICK k \in ToSet(got) : k \in Found(e, referenceCatalogs)
      BY <1>3, <3>1, <3>2, <3>3
    <3>5. k \in Imported(catalog, f) /\ k.id = c.id
      BY <3>2, <3>3, <3>4 DEF Imported
    <3> QED BY <1>2, <3>4, <3>5
  <2> QED BY <2>1, <2>2 DEF HasImports
<1>5. ASSUME NEW k \in controls PROVE k \in OwnOrImported(catalog)
  <2>1. CASE k \in ToSet(catalog.controls)
    BY <2>1 DEF OwnOrImported
  <2>2. CASE k \in ToSet(got)
    <3>1. PICK e \in ToSet(catalog.imports) : k \in Found(e, referenceCatalogs)
      BY <1>3, <2>2
    <3> DEFINE f == referenceCatalogs[e.from]
    <3>2. e.from \in DOMAIN referenceCatalogs /\ k \in ToSet(f.controls) /\ k.id = e.control
      BY <3>1 DEF Found
    <3>3. f \in CatalogFiles /\ f.id = e.from
      BY <3>2 DEF RegTypeOK, CatalogInv
    <3> HIDE DEF f, catalog
    <3>4. k \in Imported(catalog, f)
      BY <3>2, <3>3 DEF Imported
    <3> QED BY <3>3, <3>4 DEF OwnOrImported
  <2> QED BY <1>2, <1>5, <2>1, <2>2
<1> QED BY <1>4, <1>5

(* Loading more, or a failure to, takes nothing from a suite.              *)
LEMMA ImportsKept ==
    ASSUME RegTypeOK, SuiteHasItsImports, built' = built, failed => failed',
           \A id \in DOMAIN referenceCatalogs :
               referenceCatalogs'[id] = referenceCatalogs[id]
    PROVE  SuiteHasItsImports'
<1> SUFFICES ASSUME NEW id \in DOMAIN built
             PROVE  /\ ~failed' => HasImports(referenceCatalogs'[id], ToSet(built[id].controls))
                    /\ ToSet(built[id].controls) \subseteq OwnOrImported(referenceCatalogs'[id])
  BY DEF SuiteHasItsImports
<1>1. referenceCatalogs'[id] = referenceCatalogs[id]
  BY DEF RegTypeOK
<1> QED BY <1>1 DEF SuiteHasItsImports

(* So does registering another suite.                                      *)
LEMMA ImportsAdded ==
    ASSUME RegTypeOK, CatalogInv, TogetherInv, SuiteHasItsImports,
           NEW id \in DOMAIN referenceCatalogs, NEW how \in Declared,
           addEvaluationSuite(id, how), failed' = failed
    PROVE  TogetherInv' /\ SuiteHasItsImports'
<1>1. /\ referenceCatalogs' = referenceCatalogs
      /\ \A c \in DOMAIN built : built'[c] = built[c]
      /\ \A c \in DOMAIN built' : c \notin DOMAIN built =>
            c = id /\ built'[c] = SuiteOf(id, how, referenceCatalogs)
  BY AddedSuite
<1>2. TogetherInv'
  BY <1>1 DEF TogetherInv
<1>3. ASSUME NEW c \in DOMAIN built'
      PROVE  /\ ~failed => HasImports(referenceCatalogs[c], ToSet(built'[c].controls))
             /\ ToSet(built'[c].controls) \subseteq OwnOrImported(referenceCatalogs[c])
  <2>1. CASE c \in DOMAIN built
    BY <1>1, <2>1 DEF SuiteHasItsImports
  <2>2. CASE c \notin DOMAIN built
    BY <1>1, <2>2, BuiltWithImports
  <2> QED BY <2>1, <2>2
<1> QED BY <1>1, <1>2, <1>3 DEF SuiteHasItsImports

(* Registration keeps a catalog's directory beside it, and suites their    *)
(* imports.                                                                *)
LEMMA ImportStep ==
    ASSUME RegTypeOK, LoadInv, CatalogInv, TogetherInv, SuiteHasItsImports,
           RegNext \/ UNCHANGED regVars
    PROVE  TogetherInv' /\ SuiteHasItsImports'
<1>1. ASSUME UNCHANGED <<referenceCatalogs, built>>, failed => failed'
      PROVE  TogetherInv' /\ SuiteHasItsImports'
  BY <1>1, ImportsKept DEF TogetherInv
<1>2. ASSUME NEW d \in Dirs, AddReferenceCatalogs(d)
      PROVE  TogetherInv' /\ SuiteHasItsImports'
  <2>1. UNCHANGED <<referenceCatalogs, built>>
    BY <1>2 DEF AddReferenceCatalogs, suiteVars
  <2>2. failed => failed'
    BY <1>2, Zenon DEF AddReferenceCatalogs
  <2> QED BY <1>1, <2>1, <2>2
<1>3. CASE loading # None /\ \E i \in loading.pending : readYAMLFile(i)
  BY <1>1, <1>3 DEF readYAMLFile, suiteVars
<1>4. CASE AddCatalogs
  <2>1. built' = built /\ (failed => failed')
    BY <1>4 DEF AddCatalogs, suiteVars
  <2> QED BY <1>4, <2>1, WholeDirectory, ImportsKept
<1>5. ASSUME NEW id \in Ids, NEW how \in Declared, AddEvaluationSuite(id, how)
      PROVE  TogetherInv' /\ SuiteHasItsImports'
  BY <1>5, ImportsAdded DEF AddEvaluationSuite
<1>6. CASE \E how \in Declared : AddEvaluationSuiteForAllCatalogs(how)
  BY <1>1, <1>6 DEF AddEvaluationSuiteForAllCatalogs, suiteVars
<1>7. ASSUME ranging # None, NEW id \in ranging.ids, NextCatalog(id)
      PROVE  TogetherInv' /\ SuiteHasItsImports'
  <2>1. id \in DOMAIN referenceCatalogs /\ ranging.how \in Declared
    BY <1>7 DEF RegTypeOK
  <2>2. failed' = failed
    BY <1>7 DEF NextCatalog
  <2>3. CASE HasControls(id)
    <3>1. addEvaluationSuite(id, ranging.how)
      BY <1>7, <2>3 DEF NextCatalog
    <3> QED BY <2>1, <2>2, <3>1, ImportsAdded
  <2>4. CASE ~HasControls(id)
    BY <1>1, <1>7, <2>2, <2>4 DEF NextCatalog, suiteVars
  <2> QED BY <2>3, <2>4
<1>8. CASE UNCHANGED regVars
  BY <1>1, <1>8 DEF regVars, suiteVars
<1> QED BY <1>2, <1>3, <1>4, <1>5, <1>6, <1>7, <1>8 DEF RegNext

----------------------------------------------------------------------------
(* The orchestrator.                                                       *)

(* gemara's aggregation keeps the worse of two results.                    *)
LEMMA Aggregated ==
    ASSUME NEW old \in Results, NEW r \in Results
    PROVE  /\ UpdateAggregateResult(old, r) \in {old, r}
           /\ UpdateAggregateResult(old, r) \in Bad <=> old \in Bad \/ r \in Bad
BY DEF UpdateAggregateResult, Results, Bad

(* What ExitCodeFor can return.                                            *)
LEMMA ExitCodes ==
    ASSUME NEW s, NEW class
    PROVE  ExitCodeFor(s, class) \in {"TestPass", "TestFail", "InternalError", "BadUsage"}
BY DEF ExitCodeFor

(* How the loading of payloads can go on.                                  *)
LEMMA LoadEnds ==
    ASSUME NEW k, loadPayload(k)
    PROVE  \/ Return("runtime") \/ Return("devbug")
           \/ /\ pc' \in {"benchmark", "catalogs"}
              /\ ~(k <= Len(possibleSuites))
              /\ UNCHANGED <<err, exit>>
BY Zenon DEF loadPayload

(* What the loaders leave: only payloads change, and the payload of suite  *)
(* c is its own loader's, or the orchestrator's.                           *)
LEMMA LoadedSuites ==
    ASSUME TypeOK, NEW k \in 0..Len(possibleSuites) + 1, loadPayload(k)
    PROVE  /\ Payload' \in Loaded
           /\ suite' \in [Ids -> Suite]
           /\ \A c \in Ids : /\ suite'[c].Result = suite[c].Result
                             /\ suite'[c].changeManager = suite[c].changeManager
                             /\ suite'[c].stepTimings = suite[c].stepTimings
           /\ k > Len(possibleSuites) =>
                \A c \in ToSet(possibleSuites) :
                    built[c].how.loader # "none" \/ loader # "none" =>
                        suite'[c].payload.run = runs
<1> DEFINE data == IF loader = "none" \/ k = 0 THEN Payload
                   ELSE [run |-> runs, type |-> loader]
           Own(c) == built[c].how.loader
           New(c) == IF Own(c) = "none" THEN data ELSE [run |-> runs, type |-> Own(c)]
           Replaced(c) == \E i \in DOMAIN possibleSuites :
                             possibleSuites[i] = c /\ i < k
<1>0. loader \in LoaderTypes /\ runs \in 0..MaxRuns /\ Payload \in Loaded
  BY DEF TypeOK, OrchTypeOK
<1>1. data \in Loaded
  BY <1>0 DEF Loaded
<1>2. Payload' = data
  BY DEF loadPayload
<1>3. suite' = [c \in Ids |-> IF Replaced(c)
                              THEN [suite[c] EXCEPT !.payload = New(c)] ELSE suite[c]]
  BY DEF loadPayload, Reloads
<1>4. ASSUME NEW c \in Ids, Replaced(c) PROVE New(c) \in Loaded
  <2>1. c \in ToSet(possibleSuites)
    BY <1>4 DEF ToSet
  <2>2. built[c].how \in Declaration
    BY <2>1, RegistrationInputs DEF TypeOK, RegTypeOK
  <2>3. Own(c) \in LoaderTypes
    BY <2>2 DEF Declaration
  <2> HIDE DEF data, Own
  <2> QED BY <1>0, <1>1, <2>3 DEF Loaded
<1> HIDE DEF New, Replaced
<1>5. ASSUME NEW c \in Ids
      PROVE  /\ suite'[c] \in Suite
             /\ suite'[c].Result = suite[c].Result
             /\ suite'[c].changeManager = suite[c].changeManager
             /\ suite'[c].stepTimings = suite[c].stepTimings
             /\ Replaced(c) => suite'[c].payload = New(c)
  <2>1. suite[c] \in Suite
    BY DEF TypeOK, OrchTypeOK
  <2>2. CASE Replaced(c)
    <3>1. suite'[c] = [suite[c] EXCEPT !.payload = New(c)]
      BY <1>3, <2>2
    <3>2. New(c) \in Loaded
      BY <1>4, <2>2
    <3> QED BY <2>1, <3>1, <3>2 DEF Suite
  <2>3. CASE ~Replaced(c)
    BY <1>3, <2>1, <2>3
  <2> QED BY <2>2, <2>3
<1>6. ASSUME k > Len(possibleSuites), NEW c \in ToSet(possibleSuites),
             Own(c) # "none" \/ loader # "none"
      PROVE  suite'[c].payload.run = runs
  <2>1. PICK i \in DOMAIN possibleSuites : possibleSuites[i] = c
    BY DEF ToSet
  <2>2. possibleSuites \in Seq(Ids) /\ c \in Ids
    BY <2>1 DEF TypeOK, RegTypeOK
  <2>3. i < k /\ k # 0
    BY <1>6, <2>1, <2>2
  <2>4. Replaced(c)
    BY <2>1, <2>3 DEF Replaced
  <2>5. New(c).run = runs
    BY <1>6, <2>3 DEF New
  <2> QED BY <1>5, <2>2, <2>4, <2>5
<1>7. suite' \in [Ids -> Suite]
  BY <1>3, <1>5
<1> QED BY <1>1, <1>2, <1>5, <1>6, <1>7

(* What the end of a control leaves in the running suite.                  *)
LEMMA ControlEnds ==
    ASSUME TypeOK, NEW r \in Results, EvaluateControl(r)
    PROVE  /\ suite' \in [Ids -> Suite]
           /\ bad' \in [Ids -> SUBSET (0..runs)]
           /\ \A c \in Ids :
                /\ suite'[c].changeManager = suite[c].changeManager
                /\ suite'[c].payload = suite[c].payload
                /\ IF c = Current
                   THEN /\ suite'[c].Result = UpdateAggregateResult(suite[c].Result, r)
                        /\ bad'[c] # {} <=> bad[c] # {} \/ r \in Bad
                        /\ suite'[c].stepTimings = suite[c].stepTimings +
                             IF config.Benchmark /\ Applies(Running)
                                  /\ HasSteps(Current, Running) THEN 1 ELSE 0
                   ELSE /\ suite'[c].Result = suite[c].Result /\ bad'[c] = bad[c]
                        /\ suite'[c].stepTimings = suite[c].stepTimings
<1> DEFINE timed == config.Benchmark /\ Applies(Running) /\ HasSteps(Current, Running)
<1>1. /\ suite \in [Ids -> Suite] /\ bad \in [Ids -> SUBSET (0..runs)]
      /\ runs \in 0..runs
  BY DEF TypeOK, OrchTypeOK
<1>2. suite' = [suite EXCEPT ![Current] = AddResult(@, r, timed)]
  BY DEF EvaluateControl
<1>3. bad' = [bad EXCEPT ![Current] = IF r \in Bad THEN @ \cup {runs} ELSE @]
  BY DEF EvaluateControl
<1> HIDE DEF timed
<1>4. CASE Current \notin Ids
  <2>1. suite' = suite /\ bad' = bad
    BY <1>1, <1>2, <1>3, <1>4
  <2> QED BY <1>1, <1>4, <2>1
<1>5. CASE Current \in Ids
  <2> DEFINE s == suite[Current]
             t == AddResult(s, r, timed)
  <2>1. s \in Suite
    BY <1>1, <1>5
  <2>2. UpdateAggregateResult(s.Result, r) \in Results
    BY <2>1, Aggregated DEF Suite
  <2>3. /\ t \in Suite
        /\ t.changeManager = s.changeManager
        /\ t.payload = s.payload
        /\ t.Result = UpdateAggregateResult(s.Result, r)
        /\ t.stepTimings = s.stepTimings + IF timed THEN 1 ELSE 0
    <3> DEFINE n == IF timed THEN s.stepTimings + 1 ELSE s.stepTimings
    <3>1. n \in Nat /\ n = s.stepTimings + IF timed THEN 1 ELSE 0
      BY <2>1 DEF Suite
    <3>2. t = [s EXCEPT !.Result = UpdateAggregateResult(s.Result, r),
                        !.stepTimings = n]
      BY DEF AddResult
    <3> HIDE DEF n, t
    <3> QED BY <2>1, <2>2, <3>1, <3>2 DEF Suite
  <2>4. suite' = [suite EXCEPT ![Current] = t]
    BY <1>1, <1>2, <1>5
  <2> HIDE DEF s, t
  <2>5. suite' \in [Ids -> Suite] /\ bad' \in [Ids -> SUBSET (0..runs)]
    <3>1. suite' \in [Ids -> Suite]
      BY <1>1, <2>3, <2>4
    <3>2. (IF r \in Bad THEN bad[Current] \cup {runs} ELSE bad[Current])
             \in SUBSET (0..runs)
      BY <1>1, <1>5
    <3> HIDE DEF Current
    <3> QED BY <1>1, <1>3, <1>5, <3>1, <3>2
  <2>6. suite'[Current] = t /\ \A c \in Ids : c # Current => suite'[c] = suite[c]
    BY <1>1, <1>5, <2>4
  <2>7. /\ bad'[Current] # {} <=> bad[Current] # {} \/ r \in Bad
        /\ \A c \in Ids : c # Current => bad'[c] = bad[c]
    BY <1>1, <1>3, <1>5
  <2> QED BY <2>3, <2>5, <2>6, <2>7 DEF s, timed
<1> QED BY <1>4, <1>5

(* A registered suite is one of the known catalogs'.                       *)
LEMMA RegisteredIds ==
    ASSUME TypeOK, NEW c, Registered(c)
    PROVE  c \in Ids
BY DEF TypeOK, RegTypeOK, Registered, ToSet

(* The orchestrator's own variables keep their types.                      *)
LEMMA OrchTypeStep ==
    ASSUME TypeOK, RunningInv, [Next]_vars
    PROVE  OrchTypeOK'
<1>0. OrchTypeOK /\ MaxOps \in Nat /\ MaxRuns \in Nat
  BY OrchestratorInputs DEF TypeOK
<1>1. CASE UNCHANGED vars
  BY <1>0, <1>1 DEF vars, orchVars, pluginVars, dataVars, posVars, OrchTypeOK
<1>2. CASE Register
  BY <1>0, <1>2 DEF Register, dataVars, posVars, OrchTypeOK
<1>3. ASSUME NEW l \in Loaders, AddLoader(l) PROVE OrchTypeOK'
  <2>1. l \in LoaderTypes
    BY OrchestratorInputs
  <2> QED BY <1>0, <1>3, <2>1 DEF AddLoader, dataVars, posVars, OrchTypeOK
<1>4. ASSUME NEW c \in Ids, AddChangeManager(c) PROVE OrchTypeOK'
  <2>1. suite' \in [Ids -> Suite]
    <3>1. [suite[c] EXCEPT !.changeManager = TRUE] \in Suite
      BY <1>0 DEF OrchTypeOK, Suite
    <3> QED BY <1>0, <1>4, <3>1 DEF AddChangeManager, OrchTypeOK
  <2> QED BY <1>0, <1>4, <2>1
          DEF AddChangeManager, pluginVars, dataVars, posVars, OrchTypeOK
<1>5. ASSUME NEW s \in Settings, NEW logs \in BOOLEAN, MobilizeStart(s, logs)
      PROVE  OrchTypeOK'
  <2>1. /\ pc' \in {"idle", "load", "dead"}
        /\ err' \in {"nil", "runtime", "devbug"}
        /\ exit' \in {"none", "TestPass", "TestFail", "InternalError", "BadUsage"}
    BY <1>0, <1>5 DEF MobilizeStart, OrchTypeOK
  <2>2. /\ runs' \in 0..MaxRuns /\ pol' \in Nat /\ Evaluation_Suites' \in Seq(Ids)
        /\ UNCHANGED <<loader, Payload, suite, ctl, ops, bad>>
    BY <1>0, <1>5 DEF MobilizeStart, pluginVars, OrchTypeOK
  <2>3. bad' \in [Ids -> SUBSET (0..runs')]
    <3>1. runs' = runs + 1 /\ runs \in Nat
      BY <1>0, <1>5, OrchestratorInputs DEF MobilizeStart, OrchTypeOK
    <3>2. 0..runs \subseteq 0..runs'
      BY <3>1
    <3>3. bad \in [Ids -> SUBSET (0..runs)]
      BY <1>0 DEF OrchTypeOK
    <3> QED BY <2>2, <3>2, <3>3
  <2> QED BY <1>0, <2>1, <2>2, <2>3 DEF OrchTypeOK
<1>6. ASSUME NEW k \in 0..Len(possibleSuites) + 1, loadPayload(k)
      PROVE  OrchTypeOK'
  <2>1. Payload' \in Loaded /\ suite' \in [Ids -> Suite]
    BY <1>6, LoadedSuites
  <2>2. /\ pc' \in {"idle", "benchmark", "catalogs"}
        /\ err' \in {"nil", "runtime", "devbug"}
        /\ exit' \in {"none", "TestPass", "TestFail", "InternalError", "BadUsage"}
    <3>1. \/ Return("runtime") \/ Return("devbug")
          \/ pc' \in {"benchmark", "catalogs"} /\ UNCHANGED <<err, exit>>
      BY <1>6, LoadEnds
    <3>2. \A class \in {"runtime", "devbug"} : ExitCodeFor(Evaluation_Suites, class)
              \in {"TestPass", "TestFail", "InternalError", "BadUsage"}
      BY ExitCodes
    <3> QED BY <1>0, <3>1, <3>2 DEF Return, OrchTypeOK
  <2>3. UNCHANGED <<loader, Evaluation_Suites, pol, ctl, ops, runs, bad>>
    BY <1>6 DEF loadPayload, pluginVars, posVars
  <2> QED BY <1>0, <2>1, <2>2, <2>3 DEF OrchTypeOK
<1>7. CASE EvaluateStart
  <2>1. Current \in Ids
    BY <1>7, RegisteredIds DEF EvaluateStart
  <2>2. Append(Evaluation_Suites, Current) \in Seq(Ids)
    BY <1>0, <2>1 DEF OrchTypeOK
  <2> HIDE DEF Current
  <2>3. /\ pc' \in {"catalogs", "evaluate"}
        /\ Evaluation_Suites' \in Seq(Ids)
        /\ pol' \in Nat /\ ctl' \in Nat /\ ops' \in 0..MaxOps
    <3>1. \/ FinishSuite(Current) /\ UNCHANGED <<ctl, ops>>
          \/ pc' = "evaluate" /\ ctl' = 1 /\ ops' = 0
             /\ UNCHANGED <<Evaluation_Suites, pol>>
      BY <1>7, Zenon DEF EvaluateStart
    <3>2. CASE FinishSuite(Current) /\ UNCHANGED <<ctl, ops>>
      <4>1. /\ pc' = "catalogs" /\ pol' = pol + 1
            /\ Evaluation_Suites' = Append(Evaluation_Suites, Current)
        BY <3>2 DEF FinishSuite
      <4> QED BY <1>0, <2>2, <3>2, <4>1 DEF OrchTypeOK
    <3>3. CASE pc' = "evaluate" /\ ctl' = 1 /\ ops' = 0
               /\ UNCHANGED <<Evaluation_Suites, pol>>
      BY <1>0, <3>3 DEF OrchTypeOK
    <3> QED BY <3>1, <3>2, <3>3
  <2> QED BY <1>0, <1>7, <2>3 DEF EvaluateStart, pluginVars, dataVars, OrchTypeOK
<1>8. CASE SkipCatalog
  BY <1>0, <1>8 DEF SkipCatalog, pluginVars, dataVars, OrchTypeOK
<1>9. CASE AssessmentStep
  <2>1. ops' \in 0..MaxOps
    BY <1>0, <1>9 DEF AssessmentStep, OrchTypeOK
  <2> QED BY <1>0, <1>9, <2>1 DEF AssessmentStep, pluginVars, dataVars, OrchTypeOK
<1>10. ASSUME NEW r \in Results, EvaluateControl(r) PROVE OrchTypeOK'
  <2>1. suite' \in [Ids -> Suite] /\ bad' \in [Ids -> SUBSET (0..runs)]
    BY <1>10, ControlEnds
  <2>2. ctl' \in Nat /\ ops' \in 0..MaxOps
    BY <1>0, <1>10 DEF EvaluateControl, OrchTypeOK
  <2> QED BY <1>0, <1>10, <2>1, <2>2 DEF EvaluateControl, pluginVars, dataVars, OrchTypeOK
<1>11. ASSUME NEW ok \in SUBSET Names, NEW left \in SUBSET Names, EvaluateEnd(ok, left)
       PROVE  OrchTypeOK'
  <2>1. Current \in Ids
    BY <1>11, RegisteredIds DEF EvaluateEnd, RunningInv
  <2>2. Append(Evaluation_Suites, Current) \in Seq(Ids)
    BY <1>0, <2>1 DEF OrchTypeOK
  <2>3. corruptedState' \in BOOLEAN
    BY <1>11, NextIsCM, CMTypeStep DEF TypeOK, CMTypeOK
  <2>4. suite' \in [Ids -> Suite]
    <3>1. [suite[Current] EXCEPT !.CorruptedState = corruptedState'] \in Suite
      BY <1>0, <2>1, <2>3 DEF OrchTypeOK, Suite
    <3> HIDE DEF Current
    <3> QED BY <1>0, <1>11, <2>1, <3>1 DEF EvaluateEnd, OrchTypeOK
  <2> HIDE DEF Current
  <2> QED BY <1>0, <1>11, <2>2, <2>4
          DEF EvaluateEnd, FinishSuite, pluginVars, dataVars, OrchTypeOK
<1>12. CASE CatalogsDone
  <2>1. /\ pc' \in {"idle", "write", "benchmark"}
        /\ err' \in {"nil", "runtime", "devbug"}
        /\ exit' \in {"none", "TestPass", "TestFail", "InternalError", "BadUsage"}
    BY <1>0, <1>12, ExitCodes DEF CatalogsDone, Return, OrchTypeOK
  <2> QED BY <1>0, <1>12, <2>1 DEF CatalogsDone, pluginVars, dataVars, posVars, OrchTypeOK
<1>13. ASSUME NEW k \in 0..Len(Evaluation_Suites), NEW m \in BOOLEAN, NEW o \in BOOLEAN,
              NEW w \in BOOLEAN, WriteResults(k, m, o, w)
       PROVE  OrchTypeOK'
  <2>1. err' \in {"nil", "runtime"}
    BY <1>13 DEF WriteResults, WriteError
  <2> QED BY <1>0, <1>13, <2>1 DEF WriteResults, pluginVars, posVars, OrchTypeOK
<1>14. ASSUME NEW o \in BOOLEAN, NEW w \in BOOLEAN, FinalizeBenchmark(o, w)
       PROVE  OrchTypeOK'
  <2>1. /\ err' \in {"nil", "runtime", "devbug"}
        /\ exit' \in {"none", "TestPass", "TestFail", "InternalError", "BadUsage"}
    BY <1>0, <1>14, ExitCodes DEF FinalizeBenchmark, Return, OrchTypeOK
  <2> QED BY <1>0, <1>14, <2>1
          DEF FinalizeBenchmark, Return, pluginVars, posVars, OrchTypeOK
<1> QED BY <1>1, <1>2, <1>3, <1>4, <1>5, <1>6, <1>7, <1>8, <1>9, <1>10, <1>11, <1>12,
           <1>13, <1>14 DEF Next, MobilizeStep
(* The steps within Evaluate: it begins, or goes on with the same suite.   *)
LEMMA Evaluating ==
    ASSUME [Next]_vars, pc' = "evaluate"
    PROVE  /\ UNCHANGED <<config, pol, possibleSuites, built, loader, runs>>
           /\ \/ /\ EvaluateStart
                 /\ ctl' = 1
              \/ /\ pc = "evaluate"
                 /\ \/ AssessmentStep
                    \/ \E r \in Results : EvaluateControl(r)
                    \/ UNCHANGED vars
<1>1. CASE UNCHANGED vars
  BY <1>1 DEF vars, orchVars, pluginVars, regVars, suiteVars, posVars
<1>2. CASE Register \/ (\E l \in Loaders : AddLoader(l))
           \/ (\E c \in Ids : AddChangeManager(c))
  BY <1>2 DEF Register, AddLoader, AddChangeManager
<1>3. CASE \E s \in Settings, logs \in BOOLEAN : MobilizeStart(s, logs)
  BY <1>3 DEF MobilizeStart
<1>4. ASSUME NEW k \in 0..Len(possibleSuites) + 1, loadPayload(k) PROVE FALSE
  BY <1>4, LoadEnds DEF Return
<1>5. CASE EvaluateStart
  <2>1. /\ ctl' = 1
        /\ UNCHANGED pol
    BY <1>5, Zenon DEF EvaluateStart, FinishSuite
  <2>2. UNCHANGED <<config, possibleSuites, built, loader, runs>>
    BY <1>5 DEF EvaluateStart, pluginVars, regVars, suiteVars
  <2> QED BY <1>5, <2>1, <2>2
<1>6. CASE SkipCatalog
  BY <1>6 DEF SkipCatalog
<1>7. CASE AssessmentStep
  BY <1>7 DEF AssessmentStep, pluginVars, regVars, suiteVars
<1>8. ASSUME NEW r \in Results, EvaluateControl(r)
      PROVE  /\ pc = "evaluate"
             /\ UNCHANGED <<config, pol, possibleSuites, built, loader, runs>>
  BY <1>8 DEF EvaluateControl, pluginVars, regVars, suiteVars
<1>9. CASE \E ok, left \in SUBSET Names : EvaluateEnd(ok, left)
  BY <1>9 DEF EvaluateEnd, FinishSuite
<1>10. CASE CatalogsDone
  BY <1>10 DEF CatalogsDone, Return
<1>11. CASE \/ \E k \in 0..Len(Evaluation_Suites), m, o, w \in BOOLEAN :
                  WriteResults(k, m, o, w)
            \/ \E o, w \in BOOLEAN : FinalizeBenchmark(o, w)
  BY <1>11 DEF WriteResults, FinalizeBenchmark, Return
<1> QED BY <1>1, <1>2, <1>3, <1>4, <1>5, <1>6, <1>7, <1>8, <1>9, <1>10, <1>11
        DEF Next, MobilizeStep

(* Evaluate runs for a registered suite.                                   *)
LEMMA RunningStep ==
    ASSUME RunningInv, [Next]_vars
    PROVE  RunningInv'
<1> SUFFICES ASSUME pc' = "evaluate" PROVE Registered(Current)'
  BY DEF RunningInv
<1>1. Registered(Current)
  BY Evaluating DEF RunningInv, EvaluateStart
<1>2. UNCHANGED <<config, pol, possibleSuites>>
  BY Evaluating
<1> QED BY <1>1, <1>2 DEF Registered, Current

(* Only the end of a control changes a suite's result and timings.         *)
LEMMA ResultsKept ==
    ASSUME TypeOK, RunningInv, [Next]_vars, ~ \E r \in Results : EvaluateControl(r)
    PROVE  /\ bad' = bad
           /\ \A c \in Ids : /\ suite'[c].Result = suite[c].Result
                             /\ suite'[c].stepTimings = suite[c].stepTimings
<1> DEFINE Same(c) == /\ suite'[c].Result = suite[c].Result
                      /\ suite'[c].stepTimings = suite[c].stepTimings
<1>0. suite \in [Ids -> Suite]
  BY DEF TypeOK, OrchTypeOK
<1>1. CASE UNCHANGED vars
  BY <1>1 DEF vars, orchVars
<1>2. CASE Register \/ \E l \in Loaders : AddLoader(l)
  BY <1>2 DEF Register, AddLoader
<1>3. ASSUME NEW d \in Ids, AddChangeManager(d)
      PROVE  bad' = bad /\ \A c \in Ids : Same(c)
  BY <1>0, <1>3 DEF AddChangeManager, Suite
<1>4. CASE \E s \in Settings, logs \in BOOLEAN : MobilizeStart(s, logs)
  BY <1>4 DEF MobilizeStart
<1>5. ASSUME NEW k \in 0..Len(possibleSuites) + 1, loadPayload(k)
      PROVE  bad' = bad /\ \A c \in Ids : Same(c)
  <2>1. bad' = bad
    BY <1>5 DEF loadPayload
  <2> QED BY <1>5, <2>1, LoadedSuites
<1>6. CASE EvaluateStart \/ SkipCatalog \/ AssessmentStep \/ CatalogsDone
  BY <1>6 DEF EvaluateStart, SkipCatalog, AssessmentStep, CatalogsDone
<1>7. ASSUME NEW ok \in SUBSET Names, NEW left \in SUBSET Names, EvaluateEnd(ok, left)
      PROVE  bad' = bad /\ \A c \in Ids : Same(c)
  <2>1. bad' = bad
    BY <1>7 DEF EvaluateEnd
  <2>2. CASE suite' = suite
    BY <2>1, <2>2
  <2>3. CASE suite' = [suite EXCEPT ![Current].CorruptedState = corruptedState']
    BY <1>0, <2>1, <2>3 DEF Suite
  <2> QED BY <1>7, <2>2, <2>3 DEF EvaluateEnd
<1>8. CASE \/ \E k \in 0..Len(Evaluation_Suites), m, o, w \in BOOLEAN :
                 WriteResults(k, m, o, w)
           \/ \E o, w \in BOOLEAN : FinalizeBenchmark(o, w)
  BY <1>8 DEF WriteResults, FinalizeBenchmark
<1> QED BY <1>1, <1>2, <1>3, <1>4, <1>5, <1>6, <1>7, <1>8 DEF Next, MobilizeStep

(* Aggregation loses no bad result and invents none.                       *)
LEMMA ResultStep ==
    ASSUME TypeOK, RunningInv, ResultInv, [Next]_vars
    PROVE  ResultInv'
<1>1. ASSUME NEW r \in Results, EvaluateControl(r) PROVE ResultInv'
  <2> SUFFICES ASSUME NEW c \in Ids
               PROVE  bad'[c] # {} <=> suite'[c].Result \in Bad
    BY DEF ResultInv
  <2>1. suite[c].Result \in Results
    BY DEF TypeOK, OrchTypeOK, Suite
  <2>2. bad[c] # {} <=> suite[c].Result \in Bad
    BY DEF ResultInv
  <2>3. CASE c = Current
    <3>1. /\ suite'[c].Result = UpdateAggregateResult(suite[c].Result, r)
          /\ bad'[c] # {} <=> bad[c] # {} \/ r \in Bad
      BY <1>1, <2>3, ControlEnds
    <3>2. UpdateAggregateResult(suite[c].Result, r) \in Bad
             <=> suite[c].Result \in Bad \/ r \in Bad
      BY <2>1, Aggregated
    <3> QED BY <2>2, <3>1, <3>2
  <2>4. CASE c # Current
    <3>1. suite'[c].Result = suite[c].Result /\ bad'[c] = bad[c]
      BY <1>1, <2>4, ControlEnds
    <3> QED BY <2>2, <3>1
  <2> QED BY <2>3, <2>4
<1>2. CASE ~ \E r \in Results : EvaluateControl(r)
  BY <1>2, ResultsKept DEF ResultInv
<1> QED BY <1>1, <1>2
(* The steps after which Mobilize is not, or no more, at work.             *)
LEMMA Idle ==
    ASSUME [Next]_vars, pc' = "idle", err' = "nil"
    PROVE  \/ /\ pc = "idle"
              /\ \/ UNCHANGED vars
                 \/ Register
                 \/ \E l \in Loaders : AddLoader(l)
                 \/ \E c \in Ids : AddChangeManager(c)
              /\ UNCHANGED <<config, Evaluation_Suites, file, report, err, exit, runs, bad>>
           \/ /\ pc = "benchmark" /\ err = "nil"
              /\ \E o, w \in BOOLEAN : FinalizeBenchmark(o, w)
              /\ exit' = ExitCodeFor(Evaluation_Suites, "nil")
              /\ UNCHANGED <<config, Evaluation_Suites, file, runs, bad>>
<1>1. CASE UNCHANGED vars
  BY <1>1 DEF vars, orchVars, dataVars
<1>2. CASE Register \/ (\E l \in Loaders : AddLoader(l))
           \/ (\E c \in Ids : AddChangeManager(c))
  BY <1>2 DEF Register, AddLoader, AddChangeManager, dataVars
<1>3. CASE \E s \in Settings, logs \in BOOLEAN : MobilizeStart(s, logs)
  BY <1>3 DEF MobilizeStart
<1>4. ASSUME NEW k \in 0..Len(possibleSuites) + 1, loadPayload(k) PROVE FALSE
  BY <1>4, LoadEnds DEF Return
<1>5. CASE EvaluateStart
  BY <1>5, Zenon DEF EvaluateStart, FinishSuite
<1>6. CASE SkipCatalog \/ AssessmentStep \/ \E r \in Results : EvaluateControl(r)
  BY <1>6 DEF SkipCatalog, AssessmentStep, EvaluateControl
<1>7. CASE \E ok, left \in SUBSET Names : EvaluateEnd(ok, left)
  BY <1>7 DEF EvaluateEnd, FinishSuite
<1>8. CASE CatalogsDone
  BY <1>8 DEF CatalogsDone, Return
<1>9. CASE \E k \in 0..Len(Evaluation_Suites), m, o, w \in BOOLEAN :
                 WriteResults(k, m, o, w)
  BY <1>9 DEF WriteResults
<1>10. ASSUME NEW o \in BOOLEAN, NEW w \in BOOLEAN, FinalizeBenchmark(o, w)
       PROVE  /\ pc = "benchmark" /\ err = "nil"
              /\ exit' = ExitCodeFor(Evaluation_Suites, "nil")
              /\ UNCHANGED <<config, Evaluation_Suites, file, runs, bad>>
  <2>1. PICK class : /\ class = "runtime" \/ class = err
                     /\ Return(class)
    BY <1>10 DEF FinalizeBenchmark
  <2>2. class = "nil" /\ exit' = ExitCodeFor(Evaluation_Suites, class)
    BY <2>1 DEF Return
  <2>3. /\ pc = "benchmark"
        /\ UNCHANGED <<config, Evaluation_Suites, file, runs, bad>>
    BY <1>10 DEF FinalizeBenchmark
  <2> QED BY <2>1, <2>2, <2>3
<1> QED BY <1>1, <1>2, <1>3, <1>4, <1>5, <1>6, <1>7, <1>8, <1>9, <1>10
        DEF Next, MobilizeStep

(* The exit code tells what the controls of the evaluated suites found.    *)
LEMMA ExitStep ==
    ASSUME TypeOK, ResultInv, ExitInv, [Next]_vars
    PROVE  ExitInv'
<1> SUFFICES ASSUME pc' = "idle", runs' > 0, err' = "nil", Evaluation_Suites' # <<>>
             PROVE  /\ exit' \in {"TestPass", "TestFail"}
                    /\ exit' = "TestFail" <=>
                         \E c \in ToSet(Evaluation_Suites') : bad'[c] # {}
  BY DEF ExitInv, Completed, Succeeded
<1>1. CASE /\ pc = "idle"
           /\ UNCHANGED <<config, Evaluation_Suites, file, err, exit, runs, bad>>
  BY <1>1 DEF ExitInv, Completed, Succeeded
<1>2. CASE /\ exit' = ExitCodeFor(Evaluation_Suites, "nil")
           /\ UNCHANGED <<config, Evaluation_Suites, file, runs, bad>>
  <2> DEFINE worst == \E i \in DOMAIN Evaluation_Suites :
                         suite[Evaluation_Suites[i]].Result \in Bad
  <2>1. exit' = IF worst THEN "TestFail" ELSE "TestPass"
    BY <1>2 DEF ExitCodeFor
  <2>2. \A i \in DOMAIN Evaluation_Suites : Evaluation_Suites[i] \in Ids
    BY DEF TypeOK, OrchTypeOK
  <2>3. worst <=> \E i \in DOMAIN Evaluation_Suites : bad[Evaluation_Suites[i]] # {}
    BY <2>2 DEF ResultInv
  <2>4. (\E i \in DOMAIN Evaluation_Suites : bad[Evaluation_Suites[i]] # {})
           <=> \E c \in ToSet(Evaluation_Suites) : bad[c] # {}
    BY DEF ToSet
  <2> HIDE DEF worst
  <2> QED BY <1>2, <2>1, <2>3, <2>4
<1> QED BY <1>1, <1>2, Idle

(* A suite stops once its change manager is corrupted.                     *)
LEMMA HaltStep ==
    ASSUME TypeOK, RunningInv, SuiteHaltsOnCorruption, [Next]_vars
    PROVE  SuiteHaltsOnCorruption'
<1> SUFFICES ASSUME pc' = "evaluate", ops' = 0,
                    ctl' \in 2..Len(Evaluations(Current)'),
                    suite'[Current'].changeManager
             PROVE  ~corruptedState'
  BY DEF SuiteHaltsOnCorruption
<1>0. UNCHANGED <<config, pol, possibleSuites, built>>
  BY Evaluating
<1>1. Current' = Current /\ Evaluations(Current)' = Evaluations(Current)
  BY <1>0 DEF Current, Evaluations
<1>2. pc = "evaluate" /\ ~EvaluateStart
  <2>1. ctl' # 1
    OBVIOUS
  <2>2. pc = "evaluate"
    BY <2>1, Evaluating
  <2> QED BY <2>2 DEF EvaluateStart
<1>3. CASE AssessmentStep
  BY <1>3 DEF AssessmentStep, TypeOK, OrchTypeOK
<1>4. ASSUME NEW r \in Results, EvaluateControl(r) PROVE ~corruptedState'
  <2>1. Current \in Ids
    BY <1>2, RegisteredIds DEF RunningInv
  <2>2. suite'[Current].changeManager = suite[Current].changeManager
    BY <1>4, <2>1, ControlEnds
  <2>3. corruptedState' = corruptedState
    BY <1>4 DEF EvaluateControl, cmVars
  <2>4. ctl' = IF BreaksLoop THEN Len(Evaluations(Current)) + 1 ELSE ctl + 1
    BY <1>4 DEF EvaluateControl
  <2>5. ~BreaksLoop
    BY <1>1, <2>4
  <2> QED BY <1>1, <2>2, <2>3, <2>5 DEF BreaksLoop
<1>5. CASE UNCHANGED vars
  <2>1. UNCHANGED <<ops, ctl, suite, corruptedState>>
    BY <1>5 DEF vars, orchVars, posVars, cmVars
  <2> QED BY <1>1, <1>2, <2>1 DEF SuiteHaltsOnCorruption
<1> QED BY <1>2, <1>3, <1>4, <1>5, Evaluating
(* An alteration that stands outside Evaluate is flagged, or failed its    *)
(* precheck; and a suite without a change manager leaves it so.            *)
LEMMA RestoreStep ==
    ASSUME TypeOK, RunningInv, ChangesTracked, RestoreInv, [Next]_vars
    PROVE  RestoreInv'
<1>0. ASSUME Restored, UNCHANGED <<changes, altered, corruptedState>>
      PROVE  Restored'
  BY <1>0 DEF Restored
<1>1. CASE pc' = "evaluate"
  <2>1. Current' = Current
    BY <1>1, Evaluating DEF Current
  <2>2. CASE EvaluateStart
    <3>1. UNCHANGED <<changes, altered, corruptedState>>
      BY <2>2 DEF EvaluateStart, cmVars
    <3>2. Restored
      BY <2>2 DEF EvaluateStart, RestoreInv
    <3> QED BY <1>0, <3>1, <3>2 DEF RestoreInv
  <2>3. CASE AssessmentStep
    <3>1. suite' = suite /\ suite[Current].changeManager
      BY <2>3 DEF AssessmentStep
    <3> QED BY <1>1, <2>1, <3>1 DEF RestoreInv
  <2>4. ASSUME NEW r \in Results, EvaluateControl(r), pc = "evaluate"
        PROVE  RestoreInv'
    <3>1. Current \in Ids
      BY <2>4, RegisteredIds DEF RunningInv
    <3>2. suite'[Current].changeManager = suite[Current].changeManager
      BY <2>4, <3>1, ControlEnds
    <3>3. UNCHANGED <<changes, altered, corruptedState>>
      BY <2>4 DEF EvaluateControl, cmVars
    <3> QED BY <1>0, <1>1, <2>1, <2>4, <3>2, <3>3 DEF RestoreInv
  <2>5. CASE UNCHANGED vars
    <3>1. UNCHANGED <<changes, altered, corruptedState, pc, suite>>
      BY <2>5 DEF vars, cmVars, orchVars
    <3> QED BY <1>0, <2>1, <3>1 DEF RestoreInv
  <2> QED BY <1>1, <2>2, <2>3, <2>4, <2>5, Evaluating
<1>2. ASSUME NEW ok \in SUBSET Names, NEW left \in SUBSET Names, EvaluateEnd(ok, left)
      PROVE  Restored'
  <2>1. CASE suite[Current].changeManager
    <3>1. RevertAll(ok, left)
      BY <1>2, <2>1 DEF EvaluateEnd
    <3>2. SUFFICES ASSUME NEW n \in Names, altered'[n], ~corruptedState'
                   PROVE  ~precheck(changes'[n])
      BY DEF Restored
    <3>3. ~precheck(changes[n])
      BY <3>1, <3>2, RevertAllStep DEF TypeOK
    <3>4. changes'[n] = changes[n] \/ /\ Exists(n)
                                      /\ changes'[n] = revert(changes[n], n \in ok)
      BY <3>1 DEF RevertAll, RevertChanges
    <3>5. ASSUME Exists(n), changes'[n] = revert(changes[n], n \in ok)
          PROVE  ~precheck(changes'[n])
      <4>1. changes[n] \in Change
        BY <3>5 DEF TypeOK, CMTypeOK, Exists
      <4> QED BY <3>3, <3>5, <4>1 DEF revert, Change, precheck
    <3> QED BY <3>3, <3>4, <3>5
  <2>2. CASE ~suite[Current].changeManager
    <3>1. UNCHANGED <<changes, altered, corruptedState>>
      BY <1>2, <2>2 DEF EvaluateEnd, cmVars
    <3>2. Restored
      BY <2>2 DEF RestoreInv
    <3> QED BY <1>0, <3>1, <3>2
  <2> QED BY <2>1, <2>2
<1>3. CASE pc' # "evaluate" /\ ~ \E ok, left \in SUBSET Names : EvaluateEnd(ok, left)
  <2>1. pc # "evaluate" /\ UNCHANGED <<changes, altered, corruptedState>>
    <3>1. CASE UNCHANGED vars
      BY <1>3, <3>1 DEF vars, cmVars, orchVars
    <3>2. CASE Register \/ \E l \in Loaders : AddLoader(l)
      BY <3>2 DEF Register, AddLoader, cmVars
    <3>3. CASE \E c \in Ids : AddChangeManager(c)
      BY <3>3 DEF AddChangeManager, Allow
    <3>4. CASE \/ \E s \in Settings, logs \in BOOLEAN : MobilizeStart(s, logs)
               \/ \E k \in 0..Len(possibleSuites) + 1 : loadPayload(k)
      BY <3>4 DEF MobilizeStart, loadPayload, cmVars
    <3>5. CASE EvaluateStart \/ SkipCatalog \/ CatalogsDone
      BY <3>5 DEF EvaluateStart, SkipCatalog, CatalogsDone, cmVars
    <3>6. CASE AssessmentStep \/ \E r \in Results : EvaluateControl(r)
      BY <1>3, <3>6 DEF AssessmentStep, EvaluateControl
    <3>7. CASE \/ \E k \in 0..Len(Evaluation_Suites), m, o, w \in BOOLEAN :
                     WriteResults(k, m, o, w)
               \/ \E o, w \in BOOLEAN : FinalizeBenchmark(o, w)
      BY <3>7 DEF WriteResults, FinalizeBenchmark, cmVars
    <3> QED BY <1>3, <3>1, <3>2, <3>3, <3>4, <3>5, <3>6, <3>7 DEF Next, MobilizeStep
  <2>2. Restored
    BY <2>1 DEF RestoreInv
  <2> QED BY <1>0, <2>1, <2>2 DEF RestoreInv
<1> QED BY <1>1, <1>2, <1>3 DEF RestoreInv
(* While catalogs are evaluated, every suite has the payload of this call. *)
LEMMA PayloadStep ==
    ASSUME TypeOK, RunningInv, PayloadInv, [Next]_vars
    PROVE  PayloadInv'
<1> SUFFICES ASSUME pc' \in {"catalogs", "evaluate"},
                    NEW c \in ToSet(possibleSuites'),
                    built'[c].how.loader # "none" \/ loader' # "none"
             PROVE  suite'[c].payload.run = runs'
  BY DEF PayloadInv
<1>0. suite \in [Ids -> Suite]
  BY DEF TypeOK, OrchTypeOK
<1>1. ASSUME NEW k \in 0..Len(possibleSuites) + 1, loadPayload(k)
      PROVE  suite'[c].payload.run = runs'
  <2>1. UNCHANGED <<possibleSuites, built, loader, runs>>
    BY <1>1 DEF loadPayload, pluginVars, regVars, suiteVars
  <2>2. ~(k <= Len(possibleSuites))
    BY <1>1, LoadEnds DEF Return
  <2>3. k > Len(possibleSuites)
    <3>1. Len(possibleSuites) \in Nat
      BY DEF TypeOK, RegTypeOK
    <3> QED BY <2>2, <3>1
  <2> QED BY <1>1, <2>1, <2>3, LoadedSuites
<1>2. ASSUME pc \in {"catalogs", "evaluate"},
             UNCHANGED <<possibleSuites, built, loader, runs>>,
             \A d \in Ids : suite'[d].payload = suite[d].payload
      PROVE  suite'[c].payload.run = runs'
  <2>1. c \in ToSet(possibleSuites) /\ c \in Ids
    BY <1>2, RegisteredIds DEF Registered
  <2> QED BY <1>2, <2>1 DEF PayloadInv
<1>3. CASE UNCHANGED vars
  BY <1>2, <1>3 DEF vars, orchVars, pluginVars, regVars, suiteVars
<1>4. CASE EvaluateStart \/ SkipCatalog \/ AssessmentStep
  BY <1>2, <1>4 DEF EvaluateStart, SkipCatalog, AssessmentStep, pluginVars, regVars,
                    suiteVars
<1>5. ASSUME NEW r \in Results, EvaluateControl(r)
      PROVE  suite'[c].payload.run = runs'
  <2>1. pc = "evaluate" /\ UNCHANGED <<possibleSuites, built, loader, runs>>
    BY <1>5 DEF EvaluateControl, pluginVars, regVars, suiteVars
  <2>2. \A d \in Ids : suite'[d].payload = suite[d].payload
    BY <1>5, ControlEnds
  <2> QED BY <1>2, <2>1, <2>2
<1>6. ASSUME NEW ok \in SUBSET Names, NEW left \in SUBSET Names, EvaluateEnd(ok, left)
      PROVE  suite'[c].payload.run = runs'
  <2>1. pc = "evaluate" /\ UNCHANGED <<possibleSuites, built, loader, runs>>
    BY <1>6 DEF EvaluateEnd, pluginVars, regVars, suiteVars
  <2>2. \/ suite' = suite
        \/ suite' = [suite EXCEPT ![Current].CorruptedState = corruptedState']
    BY <1>6 DEF EvaluateEnd
  <2>3. \A d \in Ids : suite'[d].payload = suite[d].payload
    BY <1>0, <2>2 DEF Suite
  <2> QED BY <1>2, <2>1, <2>3
<1>7. CASE Register \/ (\E l \in Loaders : AddLoader(l))
           \/ (\E d \in Ids : AddChangeManager(d))
  BY <1>7 DEF Register, AddLoader, AddChangeManager
<1>8. CASE \E s \in Settings, logs \in BOOLEAN : MobilizeStart(s, logs)
  BY <1>8 DEF MobilizeStart
<1>9. CASE CatalogsDone
  BY <1>9 DEF CatalogsDone, Return
<1>10. CASE \/ \E k \in 0..Len(Evaluation_Suites), m, o, w \in BOOLEAN :
                  WriteResults(k, m, o, w)
            \/ \E o, w \in BOOLEAN : FinalizeBenchmark(o, w)
  BY <1>10 DEF WriteResults, FinalizeBenchmark, Return
<1> QED BY <1>1, <1>3, <1>4, <1>5, <1>6, <1>7, <1>8, <1>9, <1>10 DEF Next, MobilizeStep

(* The results file, from WriteResults to the next Mobilize.               *)
LEMMA FileStep ==
    ASSUME FileInv, [Next]_vars
    PROVE  FileInv'
<1> DEFINE Written == file = [run |-> runs, suites |-> Evaluation_Suites]
           Due == /\ runs > 0 /\ err = "nil" /\ Evaluation_Suites # <<>>
                  /\ config.Write /\ config.Output # "sarif"
<1>1. ASSUME pc' = "load" PROVE Evaluation_Suites' = <<>>
  <2>1. CASE \E s \in Settings, logs \in BOOLEAN : MobilizeStart(s, logs)
    BY <2>1 DEF MobilizeStart
  <2>2. CASE UNCHANGED vars
    BY <1>1, <2>2 DEF vars, orchVars, FileInv
  <2>3. CASE Register \/ (\E l \in Loaders : AddLoader(l))
             \/ (\E d \in Ids : AddChangeManager(d))
    BY <1>1, <2>3 DEF Register, AddLoader, AddChangeManager
  <2>4. ASSUME NEW k \in 0..Len(possibleSuites) + 1, loadPayload(k) PROVE FALSE
    BY <1>1, <2>4, LoadEnds DEF Return
  <2>5. CASE EvaluateStart
    BY <1>1, <2>5, Zenon DEF EvaluateStart, FinishSuite
  <2>6. CASE SkipCatalog \/ AssessmentStep \/ \E r \in Results : EvaluateControl(r)
    BY <1>1, <2>6 DEF SkipCatalog, AssessmentStep, EvaluateControl
  <2>7. CASE \E ok, left \in SUBSET Names : EvaluateEnd(ok, left)
    BY <1>1, <2>7 DEF EvaluateEnd, FinishSuite
  <2>8. CASE CatalogsDone
    BY <1>1, <2>8 DEF CatalogsDone, Return
  <2>9. CASE \/ \E k \in 0..Len(Evaluation_Suites), m, o, w \in BOOLEAN :
                   WriteResults(k, m, o, w)
             \/ \E o, w \in BOOLEAN : FinalizeBenchmark(o, w)
    BY <1>1, <2>9 DEF WriteResults, FinalizeBenchmark, Return
  <2> QED BY <2>1, <2>2, <2>3, <2>4, <2>5, <2>6, <2>7, <2>8, <2>9
          DEF Next, MobilizeStep
<1>2. ASSUME pc' = "idle", Due' PROVE Written'
  <2>1. /\ pc \in {"idle", "benchmark"} /\ err = "nil"
        /\ UNCHANGED <<config, Evaluation_Suites, file, runs>>
    BY <1>2, Idle
  <2>2. Due
    BY <1>2, <2>1
  <2>3. Written
    BY <2>1, <2>2 DEF FileInv
  <2> QED BY <2>1, <2>3
<1>3. ASSUME pc' = "benchmark", Due' PROVE Written'
  <2>1. CASE UNCHANGED vars
    <3>1. UNCHANGED <<pc, err, config, Evaluation_Suites, file, runs>>
      BY <2>1 DEF vars, orchVars, dataVars
    <3>2. Written
      BY <1>3, <3>1 DEF FileInv
    <3> QED BY <3>1, <3>2
  <2>2. CASE Register \/ (\E l \in Loaders : AddLoader(l))
             \/ (\E d \in Ids : AddChangeManager(d))
    BY <1>3, <2>2 DEF Register, AddLoader, AddChangeManager
  <2>3. CASE \E s \in Settings, logs \in BOOLEAN : MobilizeStart(s, logs)
    BY <1>3, <2>3 DEF MobilizeStart
  <2>4. ASSUME NEW k \in 0..Len(possibleSuites) + 1, loadPayload(k) PROVE FALSE
    BY <1>3, <2>4 DEF loadPayload, FileInv
  <2>5. CASE EvaluateStart
    BY <1>3, <2>5, Zenon DEF EvaluateStart, FinishSuite
  <2>6. CASE SkipCatalog \/ AssessmentStep \/ \E r \in Results : EvaluateControl(r)
    BY <1>3, <2>6 DEF SkipCatalog, AssessmentStep, EvaluateControl
  <2>7. CASE \E ok, left \in SUBSET Names : EvaluateEnd(ok, left)
    BY <1>3, <2>7 DEF EvaluateEnd, FinishSuite
  <2>8. CASE CatalogsDone
    BY <1>3, <2>8 DEF CatalogsDone, Return
  <2>9. ASSUME NEW k \in 0..Len(Evaluation_Suites), NEW m \in BOOLEAN,
               NEW o \in BOOLEAN, NEW w \in BOOLEAN, WriteResults(k, m, o, w)
        PROVE  Written'
    <3>1. UNCHANGED <<config, Evaluation_Suites, runs>>
      BY <2>9 DEF WriteResults
    <3>2. config.Output # "sarif" /\ err' = "nil"
      BY <1>3, <3>1
    <3>3. o /\ w /\ (config.Output \in {"json", "yaml", "gemara"} /\ m)
      BY <2>9, <3>2 DEF WriteResults, WriteError
    <3>4. file' = [run |-> runs, suites |-> Evaluation_Suites]
      BY <2>9, <3>2, <3>3 DEF WriteResults
    <3> QED BY <3>1, <3>4
  <2>10. CASE \E o, w \in BOOLEAN : FinalizeBenchmark(o, w)
    BY <1>3, <2>10 DEF FinalizeBenchmark, Return
  <2> QED BY <2>1, <2>2, <2>3, <2>4, <2>5, <2>6, <2>7, <2>8, <2>9, <2>10
          DEF Next, MobilizeStep
<1> QED BY <1>1, <1>2, <1>3 DEF FileInv

----------------------------------------------------------------------------
(* The benchmark report.                                                   *)

(* What a suite was registered with stays, and Mobilize registers nothing. *)
LEMMA BuiltKept ==
    ASSUME TypeOK, [Next]_vars
    PROVE  /\ ToSet(possibleSuites) \subseteq ToSet(possibleSuites')
           /\ \A c \in ToSet(possibleSuites) : built'[c] = built[c]
           /\ pc # "idle" => UNCHANGED <<possibleSuites, built>>
<1>1. CASE UNCHANGED regVars
  BY <1>1 DEF regVars, suiteVars
<1>2. CASE Register
  <2>1. pc = "idle" /\ RegNext
    BY <1>2 DEF Register
  <2>2. ASSUME NEW id \in DOMAIN referenceCatalogs, NEW how \in Declared,
               addEvaluationSuite(id, how)
        PROVE  /\ ToSet(possibleSuites) \subseteq ToSet(possibleSuites')
               /\ \A c \in ToSet(possibleSuites) : built'[c] = built[c]
    <3>1. /\ DOMAIN built' = ToSet(possibleSuites')
          /\ DOMAIN built \subseteq DOMAIN built'
          /\ \A c \in DOMAIN built : built'[c] = built[c]
      BY <2>2, AddedSuite DEF TypeOK
    <3> QED BY <3>1 DEF TypeOK, RegTypeOK
  <2>3. CASE \/ \E d \in Dirs : AddReferenceCatalogs(d)
             \/ loading # None /\ \E i \in loading.pending : readYAMLFile(i)
             \/ AddCatalogs
             \/ \E how \in Declared : AddEvaluationSuiteForAllCatalogs(how)
    BY <2>1, <2>3 DEF AddReferenceCatalogs, readYAMLFile, AddCatalogs,
                      AddEvaluationSuiteForAllCatalogs, suiteVars
  <2>4. CASE \E id \in Ids, how \in Declared : AddEvaluationSuite(id, how)
    BY <2>1, <2>2, <2>4 DEF AddEvaluationSuite
  <2>5. ASSUME ranging # None, NEW id \in ranging.ids, NextCatalog(id)
        PROVE  /\ ToSet(possibleSuites) \subseteq ToSet(possibleSuites')
               /\ \A c \in ToSet(possibleSuites) : built'[c] = built[c]
    <3>1. id \in DOMAIN referenceCatalogs /\ ranging.how \in Declared
      BY <2>5 DEF TypeOK, RegTypeOK
    <3>2. CASE HasControls(id)
      BY <2>2, <2>5, <3>1, <3>2 DEF NextCatalog
    <3>3. CASE ~HasControls(id)
      BY <2>5, <3>3 DEF NextCatalog, suiteVars
    <3> QED BY <3>2, <3>3
  <2> QED BY <2>1, <2>3, <2>4, <2>5 DEF RegNext
<1> QED BY <1>1, <1>2, NextIsReg

(* How the evaluated suites change: a Mobilize starts over, and Evaluate   *)
(* adds one that is registered.                                            *)
LEMMA SuitesChange ==
    ASSUME RunningInv, [Next]_vars
    PROVE  \/ Evaluation_Suites' = Evaluation_Suites
           \/ Evaluation_Suites' = <<>>
           \/ /\ Evaluation_Suites' = Append(Evaluation_Suites, Current)
              /\ Registered(Current)
<1>1. CASE UNCHANGED vars
  BY <1>1 DEF vars, orchVars
<1>2. CASE Register \/ (\E l \in Loaders : AddLoader(l))
           \/ (\E c \in Ids : AddChangeManager(c))
  BY <1>2 DEF Register, AddLoader, AddChangeManager
<1>3. CASE \E s \in Settings, logs \in BOOLEAN : MobilizeStart(s, logs)
  BY <1>3 DEF MobilizeStart
<1>4. CASE \E k \in 0..Len(possibleSuites) + 1 : loadPayload(k)
  BY <1>4 DEF loadPayload
<1>5. CASE EvaluateStart
  <2>1. Registered(Current)
    BY <1>5 DEF EvaluateStart
  <2>2. FinishSuite(Current) \/ UNCHANGED Evaluation_Suites
    BY <1>5, Zenon DEF EvaluateStart
  <2> QED BY <2>1, <2>2 DEF FinishSuite
<1>6. CASE SkipCatalog \/ AssessmentStep \/ \E r \in Results : EvaluateControl(r)
  BY <1>6 DEF SkipCatalog, AssessmentStep, EvaluateControl
<1>7. CASE \E ok, left \in SUBSET Names : EvaluateEnd(ok, left)
  BY <1>7 DEF EvaluateEnd, FinishSuite, RunningInv
<1>8. CASE CatalogsDone
  BY <1>8 DEF CatalogsDone
<1>9. CASE \/ \E k \in 0..Len(Evaluation_Suites), m, o, w \in BOOLEAN :
                 WriteResults(k, m, o, w)
           \/ \E o, w \in BOOLEAN : FinalizeBenchmark(o, w)
  BY <1>9 DEF WriteResults, FinalizeBenchmark
<1> QED BY <1>1, <1>2, <1>3, <1>4, <1>5, <1>6, <1>7, <1>8, <1>9
        DEF Next, MobilizeStep

(* One more element, whether or not it is new.                             *)
LEMMA AppendElement ==
    ASSUME NEW s \in Seq(Ids), NEW id \in Ids
    PROVE  /\ ToSet(Append(s, id)) = ToSet(s) \cup {id}
           /\ IsInjective(Append(s, id)) => IsInjective(s) /\ id \notin ToSet(s)
<1> DEFINE t == Append(s, id)
<1>1. /\ DOMAIN t = 1..Len(s) + 1 /\ DOMAIN s = 1..Len(s) /\ Len(s) \in Nat
      /\ t[Len(s) + 1] = id /\ \A i \in 1..Len(s) : t[i] = s[i]
  OBVIOUS
<1> HIDE DEF t
<1>2. /\ \A i \in DOMAIN t : i \in 1..Len(s) \/ i = Len(s) + 1
      /\ \A i \in DOMAIN s : i \in DOMAIN t /\ i # Len(s) + 1
      /\ Len(s) + 1 \in DOMAIN t
  BY <1>1
<1>3. ToSet(t) = ToSet(s) \cup {id}
  BY <1>1, <1>2 DEF ToSet
<1>4. ASSUME IsInjective(t) PROVE IsInjective(s) /\ id \notin ToSet(s)
  <2>1. \A i, j \in DOMAIN t : t[i] = t[j] => i = j
    BY <1>4 DEF IsInjective
  <2>2. \A i, j \in DOMAIN s : s[i] = s[j] => i = j
    BY <1>1, <1>2, <2>1
  <2>3. \A i \in DOMAIN s : s[i] # id
    BY <1>1, <1>2, <2>1
  <2> QED BY <2>2, <2>3 DEF IsInjective, ToSet
<1> QED BY <1>3, <1>4 DEF t

(* Only registered suites are evaluated.                                   *)
LEMMA EvaluatedStep ==
    ASSUME TypeOK, RunningInv, EvaluatedInv, [Next]_vars
    PROVE  EvaluatedInv'
<1>1. ToSet(possibleSuites) \subseteq ToSet(possibleSuites')
  BY BuiltKept
<1>2. CASE Evaluation_Suites' = Evaluation_Suites
  BY <1>1, <1>2 DEF EvaluatedInv
<1>3. CASE Evaluation_Suites' = <<>>
  BY <1>3 DEF EvaluatedInv, ToSet
<1>4. CASE Evaluation_Suites' = Append(Evaluation_Suites, Current) /\ Registered(Current)
  <2>1. Current \in Ids /\ Current \in ToSet(possibleSuites)
    BY <1>4, RegisteredIds DEF Registered
  <2>2. Evaluation_Suites \in Seq(Ids)
    BY DEF TypeOK, OrchTypeOK
  <2>3. ToSet(Evaluation_Suites') = ToSet(Evaluation_Suites) \cup {Current}
    BY <1>4, <2>1, <2>2, AppendElement
  <2> QED BY <1>1, <2>1, <2>3 DEF EvaluatedInv
<1> QED BY <1>2, <1>3, <1>4, SuitesChange

(* A full round of loaders: the timings are as many as the suites with a   *)
(* loader of their own, and one for the orchestrator's.                    *)
LEMMA CalledCount ==
    ASSUME TypeOK, NEW k \in Nat
    PROVE  /\ Called(k) \in Seq(Ids \cup {"orchestrator"})
           /\ k > Len(possibleSuites) =>
                Len(Called(k)) =
                  Cardinality({c \in ToSet(possibleSuites) : built[c].how.loader # "none"})
                  + IF loader = "none" THEN 0 ELSE 1
<1> DEFINE s == possibleSuites
           X == Ids \cup {"orchestrator"}
           Own(c) == built[c].how.loader # "none"
           S == {i \in DOMAIN s : i <= k /\ Own(s[i])}
           C == {c \in ToSet(s) : Own(c)}
           first == IF loader = "none" THEN <<>> ELSE <<"orchestrator">>
<1>1. s \in Seq(Ids) /\ IsInjective(s)
  BY DEF TypeOK, RegTypeOK
<1>2. Len(s) \in Nat /\ DOMAIN s = 1..Len(s) /\ \A i \in DOMAIN s : s[i] \in X
  BY <1>1
<1>3. S \in SUBSET (1..Len(s)) /\ \A i \in S : s[i] \in X
  BY <1>2
<1>4. Called(k) = first \o Picked(s, S)
  BY DEF Called
<1>5. first \in Seq(X) /\ Len(first) = IF loader = "none" THEN 0 ELSE 1
  <2>1. CASE loader = "none"
    <3>1. first = <<>>
      BY <2>1
    <3> QED BY <2>1, <3>1
  <2>2. CASE loader # "none"
    <3>1. first = <<"orchestrator">>
      BY <2>2
    <3>2. "orchestrator" \in X
      OBVIOUS
    <3> HIDE DEF first, X
    <3> QED BY <2>2, <3>1, <3>2
  <2> QED BY <2>1, <2>2
<1>6. ASSUME k > Len(s) PROVE S = {i \in DOMAIN s : Own(s[i])}
  <2>1. \A i \in DOMAIN s : i <= k
    BY <1>2, <1>6
  <2> QED BY <2>1
<1> HIDE DEF s, X, Own, first
<1>7. ASSUME k > Len(s) PROVE ExistsBijection(S, C)
  <2> DEFINE f == [i \in S |-> s[i]]
  <2>1. S = {i \in DOMAIN s : Own(s[i])}
    BY <1>6, <1>7
  <2>2. f \in [S -> C]
    BY <2>1 DEF ToSet
  <2>3. IsInjective(f)
    BY <1>1, <2>1 DEF IsInjective
  <2>4. \A c \in C : \E i \in S : f[i] = c
    BY <2>1 DEF ToSet
  <2> HIDE DEF f, S, C
  <2>5. f \in Bijection(S, C)
    BY <2>2, <2>3, <2>4 DEF Bijection, Injection, Surjection
  <2> QED BY <2>5 DEF ExistsBijection
<1> HIDE DEF S, C
<1>8. /\ IsFiniteSet(S) /\ Cardinality(S) \in Nat
      /\ Picked(s, S) \in Seq(X) /\ Len(Picked(s, S)) = Cardinality(S)
  <2> DEFINE n == Len(s)
  <2>1. n \in Nat /\ S \in SUBSET (1..n)
    BY <1>2, <1>3
  <2> HIDE DEF n
  <2> QED BY <1>3, <2>1, PickedElements
<1>9. Called(k) \in Seq(X) /\ Len(Called(k)) = Len(first) + Cardinality(S)
  <2> DEFINE t == Picked(s, S)
  <2>1. t \in Seq(X) /\ Len(t) = Cardinality(S) /\ Called(k) = first \o t
    BY <1>4, <1>8
  <2>2. first \in Seq(X)
    BY <1>5
  <2> HIDE DEF t
  <2>3. first \o t \in Seq(X) /\ Len(first \o t) = Len(first) + Len(t)
    BY <2>1, <2>2, ConcatElements
  <2> QED BY <2>1, <2>3
<1>10. k > Len(s) => Cardinality(C) = Cardinality(S)
  BY <1>7, <1>8, FS_Bijection
<1>11. k > Len(s) => Len(Called(k)) = Cardinality(C) + IF loader = "none" THEN 0 ELSE 1
  BY <1>5, <1>8, <1>9, <1>10
<1> QED BY <1>9, <1>11 DEF s, X, C, Own

(* The parts of the benchmark that Mobilize leaves alone once the loaders  *)
(* have run.                                                               *)
LEMMA BenchmarkKept ==
    ASSUME [Next]_vars, pc \notin {"idle", "load"}
    PROVE  /\ UNCHANGED <<benchmark, Payload, loader, config>>
           /\ pc = "dead" => pc' = "dead"
<1>1. CASE UNCHANGED vars
  BY <1>1 DEF vars, orchVars, pluginVars, dataVars
<1>2. CASE Register \/ (\E l \in Loaders : AddLoader(l))
           \/ (\E c \in Ids : AddChangeManager(c))
           \/ (\E s \in Settings, logs \in BOOLEAN : MobilizeStart(s, logs))
  BY <1>2 DEF Register, AddLoader, AddChangeManager, MobilizeStart
<1>3. CASE \E k \in 0..Len(possibleSuites) + 1 : loadPayload(k)
  BY <1>3 DEF loadPayload
<1>4. CASE \/ EvaluateStart \/ SkipCatalog \/ AssessmentStep \/ CatalogsDone
           \/ \E r \in Results : EvaluateControl(r)
           \/ \E ok, left \in SUBSET Names : EvaluateEnd(ok, left)
  BY <1>4 DEF EvaluateStart, SkipCatalog, AssessmentStep, CatalogsDone,
              EvaluateControl, EvaluateEnd, pluginVars, dataVars
<1>5. CASE \/ \E k \in 0..Len(Evaluation_Suites), m, o, w \in BOOLEAN :
                 WriteResults(k, m, o, w)
           \/ \E o, w \in BOOLEAN : FinalizeBenchmark(o, w)
  BY <1>5 DEF WriteResults, FinalizeBenchmark, pluginVars
<1> QED BY <1>1, <1>2, <1>3, <1>4, <1>5 DEF Next, MobilizeStep

(* A benchmark has the timing of every loader that was called.             *)
LEMMA BenchmarkStep ==
    ASSUME TypeOK, FirstInv, BenchmarkInv, [Next]_vars
    PROVE  BenchmarkInv'
<1> DEFINE Own == {c \in ToSet(possibleSuites) : built[c].how.loader # "none"}
           Free == loader = "none" => Payload = NoPayload
           Kept == pc \notin {"idle", "dead"} /\ config.Benchmark => benchmark # None
           Counted == pc \in {"catalogs", "evaluate", "write", "benchmark"}
                        /\ benchmark # None => Len(benchmark) = apiCallsReported
<1>0. Free /\ Kept /\ Counted
  BY DEF BenchmarkInv
<1>1. CASE pc \notin {"idle", "load"}
  <2>1. /\ UNCHANGED <<benchmark, Payload, loader, config, possibleSuites, built>>
        /\ pc = "dead" => pc' = "dead"
    BY <1>1, BenchmarkKept, BuiltKept
  <2>2. apiCallsReported' = apiCallsReported
    BY <2>1 DEF apiCallsReported
  <2>3. Free' /\ Kept'
    BY <1>0, <1>1, <2>1
  <2>4. Counted'
    BY <1>0, <1>1, <2>1, <2>2 DEF TypeOK, OrchTypeOK
  <2> QED BY <2>3, <2>4 DEF BenchmarkInv
<1>2. CASE UNCHANGED vars
  <2>1. UNCHANGED <<benchmark, Payload, loader, config, possibleSuites, built, pc>>
    BY <1>2 DEF vars, orchVars, pluginVars, dataVars, regVars, suiteVars
  <2>2. apiCallsReported' = apiCallsReported
    BY <2>1 DEF apiCallsReported
  <2> QED BY <2>1, <2>2 DEF BenchmarkInv
<1>3. CASE Register \/ (\E c \in Ids : AddChangeManager(c))
  <2>1. UNCHANGED <<Payload, loader>> /\ pc' = "idle"
    BY <1>3 DEF Register, AddChangeManager, pluginVars, dataVars
  <2> QED BY <2>1 DEF BenchmarkInv
<1>4. ASSUME NEW l \in Loaders, AddLoader(l) PROVE BenchmarkInv'
  <2>1. loader' # "none" /\ pc' = "idle"
    BY <1>4, OrchestratorInputs DEF AddLoader
  <2> QED BY <2>1 DEF BenchmarkInv
<1>5. ASSUME NEW s \in Settings, NEW logs \in BOOLEAN, MobilizeStart(s, logs)
      PROVE  BenchmarkInv'
  <2>1. /\ UNCHANGED <<Payload, loader>>
        /\ pc' \in {"idle", "load", "dead"}
        /\ pc' = "load" /\ config'.Benchmark => benchmark' = <<>>
    BY <1>5, Zenon DEF MobilizeStart, pluginVars
  <2>2. <<>> # None
    <3>1. <<>> \in Seq(Ids \cup {"orchestrator"})
      OBVIOUS
    <3> QED BY <3>1, OrchestratorInputs
  <2> QED BY <2>1, <2>2 DEF BenchmarkInv
<1>6. ASSUME NEW k \in 0..Len(possibleSuites) + 1, loadPayload(k)
      PROVE  BenchmarkInv'
  <2>0. /\ pc = "load" /\ UNCHANGED <<loader, config, possibleSuites, built>>
        /\ k \in Nat /\ Len(possibleSuites) \in Nat /\ runs \in Nat /\ runs # 0
    <3>1. pc = "load" /\ UNCHANGED <<loader, config, possibleSuites, built>>
      BY <1>6 DEF loadPayload, pluginVars, regVars, suiteVars
    <3>2. possibleSuites \in Seq(Ids) /\ runs \in 0..MaxRuns /\ MaxRuns \in Nat
      BY OrchestratorInputs DEF TypeOK, RegTypeOK, OrchTypeOK
    <3>3. runs # 0
      BY <3>1 DEF FirstInv
    <3> QED BY <3>1, <3>2, <3>3
  <2>1. /\ Called(k) \in Seq(Ids \cup {"orchestrator"})
        /\ k > Len(possibleSuites) =>
              Len(Called(k)) = Cardinality(Own) + IF loader = "none" THEN 0 ELSE 1
    BY <2>0, CalledCount
  <2>2. Called(k) # None
    BY <2>1, OrchestratorInputs
  <2>3. benchmark' = IF benchmark = None THEN None ELSE Called(k)
    BY <1>6 DEF loadPayload
  <2>4. Payload' = IF loader = "none" \/ k = 0 THEN Payload
                   ELSE [run |-> runs, type |-> loader]
    BY <1>6 DEF loadPayload
  <2>5. Free'
    BY <1>0, <2>0, <2>4
  <2>6. Kept'
    BY <1>0, <2>0, <2>2, <2>3
  <2>7. Counted'
    <3> SUFFICES ASSUME pc' \in {"catalogs", "evaluate", "write", "benchmark"},
                        benchmark' # None
                 PROVE  Len(benchmark') = apiCallsReported'
      OBVIOUS
    <3>1. k > Len(possibleSuites)
      BY <1>6, <2>0, LoadEnds DEF Return
    <3>2. Payload' = NoPayload <=> loader = "none"
      <4>1. CASE loader = "none"
        BY <1>0, <2>4, <4>1
      <4>2. CASE loader # "none"
        <5>1. Payload' = [run |-> runs, type |-> loader]
          BY <2>0, <2>4, <3>1, <4>2
        <5>2. Payload'.run # NoPayload.run
          BY <2>0, <5>1 DEF NoPayload
        <5> QED BY <4>2, <5>2
      <4> QED BY <4>1, <4>2
    <3>3. Own' = Own
      BY <2>0
    <3>4. apiCallsReported' = Cardinality(Own') + IF Payload' = NoPayload THEN 0 ELSE 1
      BY DEF apiCallsReported
    <3> HIDE DEF Own
    <3> QED BY <2>1, <2>3, <3>1, <3>2, <3>3, <3>4
  <2> QED BY <2>5, <2>6, <2>7 DEF BenchmarkInv
<1>7. CASE pc \in {"idle", "load"} /\ MobilizeStep
  <2>1. \E k \in 0..Len(possibleSuites) + 1 : loadPayload(k)
    BY <1>7 DEF MobilizeStep, EvaluateStart, SkipCatalog, AssessmentStep,
                EvaluateControl, EvaluateEnd, CatalogsDone, WriteResults,
                FinalizeBenchmark
  <2> QED BY <1>6, <2>1
<1> QED BY <1>1, <1>2, <1>3, <1>4, <1>5, <1>7 DEF Next

(* The controls before the n-th whose steps run, as n goes from the first  *)
(* control to past the last.                                               *)
LEMMA AssessedCount ==
    ASSUME TypeOK, NEW c \in ToSet(possibleSuites)
    PROVE  /\ Len(Evaluations(c)) \in Nat
           /\ Cardinality(AssessedBefore(c, 1)) = 0
           /\ \A n \in Nat : n > Len(Evaluations(c)) =>
                StepsOf(c) = Cardinality(AssessedBefore(c, n))
           /\ \A n \in Nat : n >= 1 /\ n <= Len(Evaluations(c)) =>
                Cardinality(AssessedBefore(c, n + 1)) =
                  Cardinality(AssessedBefore(c, n))
                  + IF /\ Applies(Evaluations(c)[n]) /\ HasSteps(c, Evaluations(c)[n])
                    THEN 1 ELSE 0
<1> DEFINE E == Evaluations(c)
           Assessed(i) == Applies(E[i]) /\ HasSteps(c, E[i])
<1>1. E \in Seq(Controls) /\ Len(E) \in Nat /\ DOMAIN E = 1..Len(E)
  <2> DEFINE controls == built[c].controls
             S == {i \in DOMAIN controls : controls[i].req # None}
             n == Len(controls)
  <2>1. controls \in Seq(Controls)
    BY DEF TypeOK, RegTypeOK
  <2> HIDE DEF controls
  <2>2. n \in Nat /\ S \in SUBSET (1..n) /\ \A i \in S : controls[i] \in Controls
    BY <2>1
  <2> HIDE DEF n
  <2>3. Picked(controls, S) \in Seq(Controls)
    BY <2>2, PickedElements
  <2>4. E = Picked(controls, S)
    BY DEF Evaluations, setupEvalLog, controls
  <2> HIDE DEF E, S
  <2> QED BY <2>3, <2>4
<1> DEFINE B(n) == {i \in DOMAIN E : i < n /\ Assessed(i)}
<1>2. \A n : AssessedBefore(c, n) = B(n)
  BY DEF AssessedBefore
<1>3. StepsOf(c) = Cardinality({i \in DOMAIN E : Assessed(i)})
  BY DEF StepsOf
<1> HIDE DEF E, Assessed
<1>4. Cardinality(B(1)) = 0
  <2>1. B(1) = {}
    BY <1>1
  <2> QED BY <2>1, FS_EmptySet
<1>5. ASSUME NEW n \in Nat, n > Len(E)
      PROVE  B(n) = {i \in DOMAIN E : Assessed(i)}
  BY <1>1, <1>5
<1>6. ASSUME NEW n \in Nat, n >= 1, n <= Len(E)
      PROVE  Cardinality(B(n + 1)) = Cardinality(B(n)) + IF Assessed(n) THEN 1 ELSE 0
  <2>1. IsFiniteSet(B(n))
    <3>1. IsFiniteSet(1..Len(E))
      BY <1>1, FS_Interval
    <3>2. B(n) \subseteq 1..Len(E)
      BY <1>1
    <3> QED BY <3>1, <3>2, FS_Subset
  <2>2. Cardinality(B(n)) \in Nat
    BY <2>1, FS_CardinalityType
  <2>3. n \in DOMAIN E /\ n \notin B(n)
    BY <1>1, <1>6
  <2>4. \A i \in DOMAIN E : i < n + 1 <=> i < n \/ i = n
    BY <1>1
  <2>5. CASE Assessed(n)
    <3>1. B(n + 1) = B(n) \cup {n}
      BY <2>3, <2>4, <2>5
    <3> HIDE DEF B
    <3>2. Cardinality(B(n) \cup {n}) = Cardinality(B(n)) + 1
      BY <2>1, <2>3, FS_AddElement
    <3> QED BY <2>5, <3>1, <3>2
  <2>6. CASE ~Assessed(n)
    <3>1. B(n + 1) = B(n)
      BY <2>4, <2>6
    <3> HIDE DEF B
    <3> QED BY <2>2, <2>6, <3>1
  <2> QED BY <2>5, <2>6
<1> QED BY <1>1, <1>2, <1>3, <1>4, <1>5, <1>6 DEF E, Assessed

(* They depend on what a suite was registered with and on the policy.      *)
LEMMA CountsKept ==
    ASSUME NEW c, built'[c] = built[c], config' = config
    PROVE  /\ Evaluations(c)' = Evaluations(c)
           /\ StepsOf(c)' = StepsOf(c)
           /\ AssessedBefore(c, ctl)' = AssessedBefore(c, ctl')
<1>1. Evaluations(c)' = Evaluations(c)
  BY DEF Evaluations
<1> DEFINE E == Evaluations(c)
           Assessed(i) == Applies(E[i]) /\ HasSteps(c, E[i])
<1>2. \A i : Assessed(i)' <=> Assessed(i)
  BY <1>1 DEF Applies, HasSteps
<1>3. StepsOf(c)' = StepsOf(c)
  BY <1>1, <1>2 DEF StepsOf
<1>4. AssessedBefore(c, ctl)' = AssessedBefore(c, ctl')
  BY <1>1, <1>2 DEF AssessedBefore
<1> QED BY <1>1, <1>3, <1>4

(* Only a call of Mobilize sets the configuration and counts as a run.     *)
LEMMA ConfigKept ==
    ASSUME [Next]_vars, ~ \E s \in Settings, logs \in BOOLEAN : MobilizeStart(s, logs)
    PROVE  UNCHANGED <<config, runs>>
<1>1. CASE UNCHANGED vars
  BY <1>1 DEF vars, orchVars
<1>2. CASE Register \/ (\E l \in Loaders : AddLoader(l))
           \/ (\E c \in Ids : AddChangeManager(c))
  BY <1>2 DEF Register, AddLoader, AddChangeManager
<1>3. CASE \E k \in 0..Len(possibleSuites) + 1 : loadPayload(k)
  BY <1>3 DEF loadPayload
<1>4. CASE \/ EvaluateStart \/ SkipCatalog \/ AssessmentStep \/ CatalogsDone
           \/ \E r \in Results : EvaluateControl(r)
           \/ \E ok, left \in SUBSET Names : EvaluateEnd(ok, left)
  BY <1>4 DEF EvaluateStart, SkipCatalog, AssessmentStep, CatalogsDone,
              EvaluateControl, EvaluateEnd
<1>5. CASE \/ \E k \in 0..Len(Evaluation_Suites), m, o, w \in BOOLEAN :
                 WriteResults(k, m, o, w)
           \/ \E o, w \in BOOLEAN : FinalizeBenchmark(o, w)
  BY <1>5 DEF WriteResults, FinalizeBenchmark
<1> QED BY <1>1, <1>2, <1>3, <1>4, <1>5 DEF Next, MobilizeStep

(* What the plugin can do between two calls of Mobilize.                   *)
LEMMA Between ==
    ASSUME [Next]_vars, pc = "idle",
           ~ \E s \in Settings, logs \in BOOLEAN : MobilizeStart(s, logs)
    PROVE  /\ UNCHANGED <<pc, ctl, Evaluation_Suites>>
           /\ \/ \E c \in ToSet(Evaluation_Suites) : AddChangeManager(c)
              \/ UNCHANGED suite
<1>1. CASE UNCHANGED vars
  BY <1>1 DEF vars, orchVars, posVars
<1>2. CASE Register \/ (\E l \in Loaders : AddLoader(l))
           \/ (\E c \in Ids : AddChangeManager(c))
  BY <1>2 DEF Register, AddLoader, AddChangeManager, posVars
<1>3. ~MobilizeStep
  BY DEF MobilizeStep, loadPayload, EvaluateStart, SkipCatalog, AssessmentStep,
         EvaluateControl, EvaluateEnd, CatalogsDone, WriteResults, FinalizeBenchmark
<1> QED BY <1>1, <1>2, <1>3 DEF Next

(* Mobilize attaches no change manager.                                    *)
LEMMA ManagersKept ==
    ASSUME TypeOK, [Next]_vars, pc # "idle"
    PROVE  \A c \in Ids : suite'[c].changeManager = suite[c].changeManager
<1>0. suite \in [Ids -> Suite]
  BY DEF TypeOK, OrchTypeOK
<1>1. CASE UNCHANGED vars
  BY <1>1 DEF vars, orchVars
<1>2. CASE \/ Register \/ (\E l \in Loaders : AddLoader(l))
           \/ (\E c \in Ids : AddChangeManager(c))
           \/ (\E s \in Settings, logs \in BOOLEAN : MobilizeStart(s, logs))
  BY <1>2 DEF Register, AddLoader, AddChangeManager, MobilizeStart
<1>3. CASE \E k \in 0..Len(possibleSuites) + 1 : loadPayload(k)
  BY <1>3, LoadedSuites
<1>4. CASE EvaluateStart \/ SkipCatalog \/ AssessmentStep \/ CatalogsDone
  BY <1>4 DEF EvaluateStart, SkipCatalog, AssessmentStep, CatalogsDone
<1>5. CASE \E r \in Results : EvaluateControl(r)
  BY <1>5, ControlEnds
<1>6. ASSUME NEW ok \in SUBSET Names, NEW left \in SUBSET Names, EvaluateEnd(ok, left)
      PROVE  \A c \in Ids : suite'[c].changeManager = suite[c].changeManager
  <2>1. CASE suite' = suite
    BY <2>1
  <2>2. CASE suite' = [suite EXCEPT ![Current].CorruptedState = corruptedState']
    BY <1>0, <2>2 DEF Suite
  <2> QED BY <1>6, <2>1, <2>2 DEF EvaluateEnd
<1>7. CASE \/ \E k \in 0..Len(Evaluation_Suites), m, o, w \in BOOLEAN :
                 WriteResults(k, m, o, w)
           \/ \E o, w \in BOOLEAN : FinalizeBenchmark(o, w)
  BY <1>7 DEF WriteResults, FinalizeBenchmark
<1> QED BY <1>1, <1>2, <1>3, <1>4, <1>5, <1>6, <1>7 DEF Next, MobilizeStep

(* Where Mobilize goes from a step that is neither the beginning nor the   *)
(* end of Evaluate, nor the end of a control.                              *)
LEMMA Elsewhere ==
    ASSUME [Next]_vars, pc # "idle", ~EvaluateStart,
           ~ \E r \in Results : EvaluateControl(r),
           ~ \E ok, left \in SUBSET Names : EvaluateEnd(ok, left)
    PROVE  /\ UNCHANGED <<Evaluation_Suites, ctl>>
           /\ \/ UNCHANGED <<pc, pol>>
              \/ pc # "evaluate" /\ pc' # "evaluate"
<1>1. CASE UNCHANGED vars
  BY <1>1 DEF vars, orchVars, posVars
<1>2. CASE \/ Register \/ (\E l \in Loaders : AddLoader(l))
           \/ (\E c \in Ids : AddChangeManager(c))
           \/ (\E s \in Settings, logs \in BOOLEAN : MobilizeStart(s, logs))
  BY <1>2 DEF Register, AddLoader, AddChangeManager, MobilizeStart
<1>3. ASSUME NEW k \in 0..Len(possibleSuites) + 1, loadPayload(k)
      PROVE  UNCHANGED <<Evaluation_Suites, ctl>> /\ pc # "evaluate" /\ pc' # "evaluate"
  <2>1. UNCHANGED <<Evaluation_Suites, ctl>> /\ pc # "evaluate"
    BY <1>3 DEF loadPayload, posVars
  <2> QED BY <1>3, <2>1, LoadEnds DEF Return
<1>4. CASE SkipCatalog \/ AssessmentStep
  BY <1>4 DEF SkipCatalog, AssessmentStep, posVars
<1>5. CASE CatalogsDone
  BY <1>5 DEF CatalogsDone, Return, posVars
<1>6. CASE \/ \E k \in 0..Len(Evaluation_Suites), m, o, w \in BOOLEAN :
                 WriteResults(k, m, o, w)
           \/ \E o, w \in BOOLEAN : FinalizeBenchmark(o, w)
  BY <1>6 DEF WriteResults, FinalizeBenchmark, Return, posVars
<1> QED BY <1>1, <1>2, <1>3, <1>4, <1>5, <1>6 DEF Next, MobilizeStep

(* Evaluate times a suite as it goes through the controls.                 *)
LEMMA TimedStep ==
    ASSUME TypeOK, RunningInv, EvaluatedInv, FirstInv, [Next]_vars,
           ~ \E s \in Settings, logs \in BOOLEAN : MobilizeStart(s, logs),
           runs = 1, config.Benchmark, IsInjective(Evaluation_Suites'), NEW c \in Ids
    PROVE  Timed(c)'
<1>1. config' = config
  BY ConfigKept
<1>2. Evaluation_Suites \in Seq(Ids) /\ ctl \in Nat /\ suite[c].stepTimings \in Nat
  BY DEF TypeOK, OrchTypeOK, Suite
<1>3. ASSUME IsInjective(Evaluation_Suites) PROVE \A d \in Ids : Timed(d)
  BY <1>3 DEF FirstInv
<1>4. ASSUME ~ \E r \in Results : EvaluateControl(r)
      PROVE  suite'[c].stepTimings = suite[c].stepTimings
  BY <1>4, ResultsKept
<1>5. CASE pc = "idle"
  <2>1. UNCHANGED <<pc, ctl, Evaluation_Suites>>
    BY <1>5, Between
  <2>2. ~ \E r \in Results : EvaluateControl(r)
    BY <1>5 DEF EvaluateControl
  <2>3. Timed(c) /\ suite'[c].stepTimings = suite[c].stepTimings
    BY <1>3, <1>4, <2>1, <2>2
  <2>4. c \in ToSet(Evaluation_Suites) => StepsOf(c)' = StepsOf(c)
    BY <1>1, BuiltKept, CountsKept DEF EvaluatedInv
  <2> QED BY <1>5, <2>1, <2>3, <2>4 DEF Timed
<1>6. CASE pc # "idle"
  <2>1. built' = built /\ \A d \in Ids : ~suite[d].changeManager
    BY <1>6, BuiltKept DEF FirstInv
  <2>2. /\ Evaluations(c)' = Evaluations(c)
        /\ StepsOf(c)' = StepsOf(c)
        /\ AssessedBefore(c, ctl)' = AssessedBefore(c, ctl')
    BY <1>1, <2>1, CountsKept
  <2>3. CASE EvaluateStart
    <3>1. Current \in Ids /\ Current \in ToSet(possibleSuites) /\ pc = "catalogs"
      BY <2>3, RegisteredIds DEF EvaluateStart, Registered
    <3>2. suite'[c].stepTimings = suite[c].stepTimings
      BY <1>4, <3>1 DEF EvaluateControl
    <3>3. CASE Evaluations(Current) = <<>> \/ built[Current].how.steps = {}
      <4>1. /\ Evaluation_Suites' = Append(Evaluation_Suites, Current)
            /\ pc' = "catalogs"
        BY <2>3, <3>3, Zenon DEF EvaluateStart, FinishSuite
      <4>2. /\ ToSet(Evaluation_Suites') = ToSet(Evaluation_Suites) \cup {Current}
            /\ IsInjective(Evaluation_Suites) /\ Current \notin ToSet(Evaluation_Suites)
        BY <1>2, <3>1, <4>1, AppendElement
      <4>3. Timed(c)
        BY <1>3, <4>2
      <4>4. c = Current => StepsOf(c) = 0
        <5>1. {i \in DOMAIN Evaluations(Current) :
                  /\ Applies(Evaluations(Current)[i])
                  /\ HasSteps(Current, Evaluations(Current)[i])} = {}
          BY <3>3 DEF HasSteps
        <5> QED BY <5>1, FS_EmptySet DEF StepsOf
      <4> QED BY <2>2, <3>1, <3>2, <4>1, <4>2, <4>3, <4>4 DEF Timed
    <3>4. CASE ~(Evaluations(Current) = <<>> \/ built[Current].how.steps = {})
      <4>1. /\ pc' = "evaluate" /\ ctl' = 1
            /\ UNCHANGED <<Evaluation_Suites, pol>>
        BY <2>3, <3>4, Zenon DEF EvaluateStart
      <4>2. Current' = Current
        BY <1>1, <4>1 DEF Current
      <4>3. Timed(c)
        BY <1>3, <4>1
      <4>4. c = Current => Cardinality(AssessedBefore(c, 1)) = 0
        BY <3>1, AssessedCount
      <4>5. c = Current => Cardinality(AssessedBefore(c, ctl)') = 0
        BY <2>2, <4>1, <4>4
      <4> QED BY <2>2, <3>1, <3>2, <4>1, <4>2, <4>3, <4>5 DEF Timed
    <3> QED BY <3>3, <3>4
  <2>4. ASSUME NEW r \in Results, EvaluateControl(r) PROVE Timed(c)'
    <3> DEFINE assessed == Applies(Running) /\ HasSteps(Current, Running)
    <3>1. /\ pc = "evaluate" /\ ctl <= Len(Evaluations(Current))
          /\ UNCHANGED <<pc, pol, Evaluation_Suites>>
          /\ ctl' = IF BreaksLoop THEN Len(Evaluations(Current)) + 1 ELSE ctl + 1
      BY <2>4 DEF EvaluateControl
    <3>2. Current \in Ids /\ Current \in ToSet(possibleSuites) /\ Current' = Current
      BY <1>1, <3>1, RegisteredIds DEF RunningInv, Registered, Current
    <3>3. ctl' = ctl + 1
      BY <2>1, <3>1, <3>2 DEF BreaksLoop
    <3>4. suite'[c].stepTimings =
             suite[c].stepTimings + IF c = Current /\ assessed THEN 1 ELSE 0
      <4>1. CASE c = Current
        <5>1. suite'[c].stepTimings = suite[c].stepTimings +
                 IF config.Benchmark /\ Applies(Running) /\ HasSteps(Current, Running)
                 THEN 1 ELSE 0
          BY <2>4, <4>1, ControlEnds
        <5> QED BY <4>1, <5>1
      <4>2. CASE c # Current
        <5>1. suite'[c].stepTimings = suite[c].stepTimings
          BY <2>4, <4>2, ControlEnds
        <5> QED BY <1>2, <4>2, <5>1
      <4> QED BY <4>1, <4>2
    <3>5. c = Current => Cardinality(AssessedBefore(c, ctl + 1)) =
                           Cardinality(AssessedBefore(c, ctl)) + IF assessed THEN 1 ELSE 0
      BY <1>2, <3>1, <3>2, AssessedCount DEF FirstInv, Running
    <3>6. Timed(c)
      BY <1>3, <3>1
    <3> HIDE DEF assessed
    <3>7. c = Current /\ c \notin ToSet(Evaluation_Suites) =>
             suite'[c].stepTimings = Cardinality(AssessedBefore(c, ctl + 1))
      BY <3>1, <3>4, <3>5, <3>6 DEF Timed
    <3>8. c # Current => suite'[c].stepTimings = suite[c].stepTimings
      BY <1>2, <3>4
    <3> QED BY <2>2, <3>1, <3>2, <3>3, <3>6, <3>7, <3>8 DEF Timed
  <2>5. ASSUME NEW ok \in SUBSET Names, NEW left \in SUBSET Names, EvaluateEnd(ok, left)
        PROVE  Timed(c)'
    <3>1. /\ pc = "evaluate" /\ ctl > Len(Evaluations(Current))
          /\ Evaluation_Suites' = Append(Evaluation_Suites, Current)
          /\ pc' = "catalogs"
      BY <2>5 DEF EvaluateEnd, FinishSuite
    <3>2. Current \in Ids /\ Current \in ToSet(possibleSuites)
      BY <3>1, RegisteredIds DEF RunningInv, Registered
    <3>3. /\ ToSet(Evaluation_Suites') = ToSet(Evaluation_Suites) \cup {Current}
          /\ IsInjective(Evaluation_Suites) /\ Current \notin ToSet(Evaluation_Suites)
      BY <1>2, <3>1, <3>2, AppendElement
    <3>4. Timed(c)
      BY <1>3, <3>3
    <3>5. suite'[c].stepTimings = suite[c].stepTimings
      <4>1. ~ \E r \in Results : EvaluateControl(r)
        <5>1. Len(Evaluations(Current)) \in Nat
          BY <3>2, AssessedCount
        <5> QED BY <1>2, <3>1, <5>1 DEF EvaluateControl
      <4> QED BY <1>4, <4>1
    <3>6. c = Current => StepsOf(c) = Cardinality(AssessedBefore(c, ctl))
      BY <1>2, <3>1, <3>2, AssessedCount
    <3> QED BY <2>2, <3>1, <3>3, <3>4, <3>5, <3>6 DEF Timed
  <2>6. CASE /\ ~EvaluateStart /\ ~ \E r \in Results : EvaluateControl(r)
             /\ ~ \E ok, left \in SUBSET Names : EvaluateEnd(ok, left)
    <3>1. /\ UNCHANGED <<Evaluation_Suites, ctl>>
          /\ \/ UNCHANGED <<pc, pol>>
             \/ pc # "evaluate" /\ pc' # "evaluate"
      BY <1>6, <2>6, Elsewhere
    <3>2. Timed(c) /\ suite'[c].stepTimings = suite[c].stepTimings
      BY <1>3, <1>4, <2>6, <3>1
    <3>3. AssessedBefore(c, ctl)' = AssessedBefore(c, ctl)
      BY <2>2, <3>1
    <3>4. CASE UNCHANGED <<pc, pol>>
      <4>1. Current' = Current
        BY <1>1, <3>4 DEF Current
      <4> QED BY <2>2, <3>1, <3>2, <3>3, <3>4, <4>1 DEF Timed
    <3>5. CASE pc # "evaluate" /\ pc' # "evaluate"
      BY <2>2, <3>1, <3>2, <3>5 DEF Timed
    <3> QED BY <3>1, <3>4, <3>5
  <2> QED BY <2>3, <2>4, <2>5, <2>6
<1> QED BY <1>5, <1>6

(* The first Mobilize.                                                     *)
LEMMA FirstStep ==
    ASSUME TypeOK, RunningInv, EvaluatedInv, FirstInv, [Next]_vars
    PROVE  FirstInv'
<1>0. runs \in Nat /\ ctl \in Nat
  BY OrchestratorInputs DEF TypeOK, OrchTypeOK
<1>1. ASSUME NEW s \in Settings, NEW logs \in BOOLEAN, MobilizeStart(s, logs)
      PROVE  FirstInv'
  <2>1. /\ runs' = runs + 1 /\ Evaluation_Suites' = <<>>
        /\ UNCHANGED <<suite, ctl>>
    BY <1>1 DEF MobilizeStart
  <2>2. pc' # "evaluate"
    BY <1>1, Zenon DEF MobilizeStart
  <2>3. ToSet(Evaluation_Suites') = {}
    BY <2>1 DEF ToSet
  <2>4. runs' # 0 /\ (runs' = 1 => runs = 0)
    BY <1>0, <2>1
  <2>5. runs' = 1 => \A c \in Ids : Timed(c)'
    BY <2>1, <2>2, <2>3, <2>4 DEF FirstInv, Timed
  <2> QED BY <2>1, <2>4, <2>5 DEF FirstInv
<1>2. CASE ~ \E s \in Settings, logs \in BOOLEAN : MobilizeStart(s, logs)
  <2>1. UNCHANGED <<config, runs>>
    BY <1>2, ConfigKept
  <2>2. ctl' >= 1
    <3>1. CASE pc = "idle"
      BY <1>2, <3>1, Between DEF FirstInv
    <3>2. CASE EvaluateStart
      <4>1. ctl' \in {1, ctl}
        BY <3>2, Zenon DEF EvaluateStart
      <4> QED BY <1>0, <4>1 DEF FirstInv
    <3>3. ASSUME NEW r \in Results, EvaluateControl(r) PROVE ctl' >= 1
      <4>1. Len(Evaluations(Current)) \in Nat
        <5>1. Current \in ToSet(possibleSuites)
          BY <3>3 DEF EvaluateControl, RunningInv, Registered
        <5> QED BY <5>1, AssessedCount
      <4>2. ctl' \in {Len(Evaluations(Current)) + 1, ctl + 1}
        BY <3>3 DEF EvaluateControl
      <4> QED BY <1>0, <4>1, <4>2
    <3>4. CASE \E ok, left \in SUBSET Names : EvaluateEnd(ok, left)
      BY <3>4 DEF EvaluateEnd, FirstInv
    <3>5. CASE /\ pc # "idle" /\ ~EvaluateStart
               /\ ~ \E r \in Results : EvaluateControl(r)
               /\ ~ \E ok, left \in SUBSET Names : EvaluateEnd(ok, left)
      BY <3>5, Elsewhere DEF FirstInv
    <3> QED BY <3>1, <3>2, <3>3, <3>4, <3>5
  <2>3. ASSUME runs = 0
        PROVE  UNCHANGED <<pc, Evaluation_Suites, suite>>
    <3>1. pc = "idle" /\ ToSet(Evaluation_Suites) = {}
      BY <2>3 DEF FirstInv, ToSet
    <3> QED BY <1>2, <3>1, Between
  <2>4. ASSUME runs = 1, pc' # "idle", NEW c \in Ids PROVE ~suite'[c].changeManager
    <3>1. pc # "idle"
      BY <1>2, <2>4, Between
    <3> QED BY <2>4, <3>1, ManagersKept DEF FirstInv
  <2>5. ASSUME runs = 1, config.Benchmark, IsInjective(Evaluation_Suites'), NEW c \in Ids
        PROVE  Timed(c)'
    BY <1>2, <2>5, TimedStep
  <2>6. ASSUME runs = 0
        PROVE  /\ pc' = "idle" /\ Evaluation_Suites' = <<>>
               /\ \A c \in Ids : ~suite'[c].changeManager /\ suite'[c].stepTimings = 0
    BY <2>3, <2>6 DEF FirstInv
  <2> QED BY <2>1, <2>2, <2>4, <2>5, <2>6 DEF FirstInv
<1> QED BY <1>1, <1>2

(* What a Mobilize that succeeds has written is its own.                   *)
LEMMA OutputStep ==
    ASSUME TypeOK, EvaluatedInv, BenchmarkInv, FirstInv, FileInv', OutputsOfThisRun,
           [Next]_vars
    PROVE  OutputsOfThisRun'
<1> DEFINE Report == config.Benchmark =>
                       /\ report.run = runs /\ report.whole
                       /\ report.calls = Len(report.loaders)
                       /\ Len(report.suites) = Len(Evaluation_Suites)
           Steps == config.Benchmark /\ runs = 1 /\ IsInjective(Evaluation_Suites) =>
                      \A i \in DOMAIN Evaluation_Suites :
                         report.suites[i] = [CatalogId |-> Evaluation_Suites[i],
                                             steps |-> StepsOf(Evaluation_Suites[i])]
<1> SUFFICES ASSUME pc' = "idle", runs' > 0, err' = "nil" PROVE Report' /\ Steps'
  BY DEF OutputsOfThisRun, Succeeded, FileInv
<1>1. CASE /\ pc = "idle"
           /\ UNCHANGED <<config, Evaluation_Suites, file, report, err, exit, runs, bad>>
  <2>1. Report /\ Steps
    BY <1>1 DEF OutputsOfThisRun, Succeeded
  <2>2. Report'
    BY <1>1, <2>1
  <2>3. ASSUME NEW i \in DOMAIN Evaluation_Suites
        PROVE  StepsOf(Evaluation_Suites[i])' = StepsOf(Evaluation_Suites[i])
    <3> DEFINE c == Evaluation_Suites[i]
    <3>1. c \in ToSet(possibleSuites)
      BY DEF EvaluatedInv, ToSet
    <3>2. built'[c] = built[c]
      BY <3>1, BuiltKept
    <3> QED BY <1>1, <3>2, CountsKept
  <2>4. Steps'
    BY <1>1, <2>1, <2>3
  <2> QED BY <2>2, <2>4
<1>2. CASE /\ pc = "benchmark" /\ err = "nil"
           /\ \E o, w \in BOOLEAN : FinalizeBenchmark(o, w)
           /\ UNCHANGED <<config, Evaluation_Suites, file, runs, bad>>
  <2> DEFINE suites == [i \in DOMAIN Evaluation_Suites |->
                           [CatalogId |-> Evaluation_Suites[i],
                            steps |-> suite[Evaluation_Suites[i]].stepTimings]]
  <2>1. PICK o \in BOOLEAN, w \in BOOLEAN : FinalizeBenchmark(o, w)
    BY <1>2
  <2>2. CASE config.Benchmark
    <3>1. benchmark # None /\ Len(benchmark) = apiCallsReported
      BY <1>2, <2>2 DEF BenchmarkInv
    <3>2. w /\ o
      <4>1. err' = IF err = "nil" /\ benchmark # None /\ ~w THEN "runtime" ELSE err
        BY <2>1 DEF FinalizeBenchmark, Return
      <4> QED BY <1>2, <2>1, <3>1, <4>1 DEF FinalizeBenchmark
    <3>3. report' = [run |-> runs, whole |-> w, loaders |-> benchmark,
                     calls |-> apiCallsReported, suites |-> suites]
      BY <2>1, <3>1, <3>2 DEF FinalizeBenchmark
    <3>4. Evaluation_Suites \in Seq(Ids)
      BY DEF TypeOK, OrchTypeOK
    <3>5. Len(suites) = Len(Evaluation_Suites)
      BY <3>4
    <3>6. /\ report'.run = runs /\ report'.whole /\ report'.suites = suites
          /\ report'.loaders = benchmark /\ report'.calls = apiCallsReported
      BY <3>2, <3>3
    <3>7. Report'
      BY <1>2, <3>1, <3>5, <3>6
    <3>8. UNCHANGED built
      BY <1>2, BuiltKept
    <3>9. ASSUME runs = 1, IsInjective(Evaluation_Suites), NEW i \in DOMAIN Evaluation_Suites
          PROVE  suites[i] = [CatalogId |-> Evaluation_Suites[i],
                              steps |-> StepsOf(Evaluation_Suites[i])']
      <4> DEFINE c == Evaluation_Suites[i]
      <4>1. c \in Ids /\ c \in ToSet(Evaluation_Suites)
        BY <3>4 DEF ToSet
      <4>2. suite[c].stepTimings = StepsOf(c)
        BY <1>2, <2>2, <3>9, <4>1 DEF FirstInv, Timed
      <4>3. StepsOf(c)' = StepsOf(c)
        BY <1>2, <3>8, CountsKept
      <4> QED BY <4>2, <4>3
    <3>10. Steps'
      BY <1>2, <3>6, <3>9
    <3> QED BY <3>7, <3>10
  <2>3. CASE ~config.Benchmark
    BY <1>2, <2>3
  <2> QED BY <2>2, <2>3
<1> QED BY <1>1, <1>2, Idle

----------------------------------------------------------------------------
(* The theorems.                                                           *)

LEMMA InitiallyOrchInv ==
    ASSUME Init
    PROVE  OrchInv
<1> USE DEF Init, OrchInit, CMInit, RegInit
<1>1. CMTypeOK /\ ChangesTracked
  BY DEF CMTypeOK, NoCalls, ChangesTracked, OwnAlterationTracked, Exists
<1>2. RegTypeOK
  <2>1. ToSet(<<>>) = {} /\ DOMAIN <<>> = {} /\ IsInjective(<<>>)
    BY DEF ToSet, IsInjective
  <2>2. referenceCatalogs \in [DOMAIN referenceCatalogs -> CatalogFiles]
    BY <2>1
  <2>3. DOMAIN referenceCatalogs \subseteq Ids
    BY <2>1
  <2>4. possibleSuites \in Seq(Ids) /\ IsInjective(possibleSuites)
    BY <2>1
  <2>5. DOMAIN built = ToSet(possibleSuites) /\ DOMAIN built = {}
    BY <2>1
  <2>6. loads \in 0..MaxLoads /\ failed \in BOOLEAN
    <3>1. MaxLoads \in Nat
      BY RegistrationInputs
    <3>2. loads = 0
      OBVIOUS
    <3>3. failed \in BOOLEAN
      BY Zenon
    <3> HIDE DEF Init, OrchInit, CMInit, RegInit
    <3>4. loads \in 0..MaxLoads
      BY <3>1, <3>2
    <3> QED BY <3>3, <3>4
  <2> QED BY <2>2, <2>3, <2>4, <2>5, <2>6 DEF RegTypeOK
<1>3. NoPayload \in Loaded /\ NewSuite \in Suite
  BY OrchestratorInputs DEF NoPayload, Loaded, NewSuite, Suite, Results
<1>4. OrchTypeOK
  BY <1>3, OrchestratorInputs DEF OrchTypeOK, LoaderTypes
<1>5. LoadInv /\ CatalogInv
  BY DEF LoadInv, CatalogInv
<1>6. Restored
  BY DEF Restored
<1>7. ResultInv
  BY DEF ResultInv, NewSuite, Bad
<1>8. TogetherInv /\ SuiteHasItsImports /\ EvaluatedInv
  <2>1. DOMAIN <<>> = {} /\ ToSet(<<>>) = {}
    BY DEF ToSet
  <2> QED BY <2>1 DEF TogetherInv, SuiteHasItsImports, EvaluatedInv
<1>9. BenchmarkInv /\ FirstInv
  BY DEF BenchmarkInv, FirstInv, NewSuite
<1> QED BY <1>1, <1>2, <1>4, <1>5, <1>6, <1>7, <1>8, <1>9
        DEF OrchInv, TypeOK, RestoreInv, RunningInv, ExitInv, Completed,
            Succeeded, SuiteHaltsOnCorruption, PayloadInv, FileInv, OutputsOfThisRun

(* OrchInv is inductive, for every plugin, configuration and behaviour of  *)
(* its steps.                                                              *)
THEOREM OrchInvariant == Spec => []OrchInv
<1>1. Init => OrchInv
  BY InitiallyOrchInv
<1>2. ASSUME OrchInv, [Next]_vars PROVE OrchInv'
  <2> USE <1>2 DEF OrchInv
  <2>1. CMTypeOK' /\ ChangesTracked'
    BY NextIsCM, CMTypeStep, TrackedStep DEF TypeOK
  <2>2. RegTypeOK' /\ LoadInv' /\ CatalogInv'
    <3>1. RegNext \/ UNCHANGED regVars
      BY NextIsReg DEF Register
    <3> QED BY <3>1, RegStep DEF TypeOK
  <2>3. OrchTypeOK'
    BY OrchTypeStep
  <2>4. RunningInv' /\ ResultInv' /\ ExitInv' /\ SuiteHaltsOnCorruption'
    BY RunningStep, ResultStep, ExitStep, HaltStep
  <2>5. RestoreInv' /\ PayloadInv' /\ FileInv'
    BY RestoreStep, PayloadStep, FileStep
  <2>6. TogetherInv' /\ SuiteHasItsImports'
    <3>1. RegNext \/ UNCHANGED regVars
      BY NextIsReg DEF Register
    <3> QED BY <3>1, ImportStep DEF TypeOK
  <2>7. EvaluatedInv' /\ BenchmarkInv' /\ FirstInv'
    BY EvaluatedStep, BenchmarkStep, FirstStep
  <2>8. OutputsOfThisRun'
    BY <2>5, OutputStep
  <2> QED BY <2>1, <2>2, <2>3, <2>4, <2>5, <2>6, <2>7, <2>8 DEF TypeOK
<1> QED BY <1>1, <1>2, PTL DEF Spec

(* The state of a plugin process keeps its types.                          *)
THEOREM OrchTypeCorrect == Spec => []TypeOK
<1>1. OrchInv => TypeOK
  BY DEF OrchInv
<1> QED BY <1>1, OrchInvariant, PTL

(* The plugin process is a user of the change manager like any other: its  *)
(* controls and Evaluate only ever call its operations, one after the      *)
(* other.                                                                  *)
THEOREM EmbedsManager == Spec => CMSpec
<1>1. Init => CMInit
  BY DEF Init
<1>2. [Next]_vars => [CMNext]_cmVars
  BY NextIsCM
<1> QED BY <1>1, <1>2, PTL DEF Spec, CMSpec

(* So whatever suites are registered and mobilized, their changes go       *)
(* through the life that ChangeSet describes, and what the change manager  *)
(* promises of RevertAll and of failed changes holds.                      *)
THEOREM ManagedWithinPlugin ==
    Spec => ImplementsChangeSet /\ RevertAllSettles /\ FailedChangeLeftAlone
BY EmbedsManager, ChangeSetRefined, Settles, LeftAlone, PTL

(* As soon as Evaluate is over, an alteration that stands is reported as   *)
(* corruption, failed its precheck, or lost its Change to AddChange.       *)
THEOREM TargetRestored == Spec => []RestoredAfterEvaluate
<1>1. OrchInv => RestoredAfterEvaluate
  BY DEF OrchInv, RestoreInv, Restored, RestoredAfterEvaluate, Standing
<1> QED BY <1>1, OrchInvariant, PTL

(* Where no Evaluate ended with an error, no bad result of a call of       *)
(* Mobilize is missing from its exit code, and TestFail stands for a bad   *)
(* result of this call or of an earlier one.                               *)
THEOREM ExitTellsControls == Spec => []ExitReflectsControls
<1>1. ASSUME OrchInv PROVE ExitReflectsControls
  <2>1. ASSUME NEW c \in ToSet(Evaluation_Suites)
        PROVE  bad[c] \subseteq 0..runs
    <3>1. c \in Ids
      BY <1>1 DEF OrchInv, TypeOK, OrchTypeOK, ToSet
    <3> QED BY <1>1, <3>1 DEF OrchInv, TypeOK, OrchTypeOK
  <2>2. ASSUME NEW c \in ToSet(Evaluation_Suites)
        PROVE  /\ bad[c] \cap {runs} # {} => bad[c] # {}
               /\ bad[c] # {} => \/ bad[c] \cap {runs} # {}
                                \/ bad[c] \cap (0..(runs - 1)) # {}
    <3>1. runs \in Nat
      BY <1>1, OrchestratorInputs DEF OrchInv, TypeOK, OrchTypeOK
    <3> QED BY <2>1, <3>1
  <2> QED BY <1>1, <2>2 DEF OrchInv, ExitInv, ExitReflectsControls
<1> QED BY <1>1, OrchInvariant, PTL

(* No control after the first begins on a target known to be corrupted.    *)
THEOREM HaltsOnCorruption == Spec => []SuiteHaltsOnCorruption
<1>1. OrchInv => SuiteHaltsOnCorruption
  BY DEF OrchInv
<1> QED BY <1>1, OrchInvariant, PTL

(* What PublishManifest declares are the controls of catalog files, each   *)
(* from a directory all of whose files could be read, whatever suites      *)
(* import.                                                                 *)
THEOREM OwnControlsListed == Spec => []ManifestListsOwnControls
<1>1. ASSUME CatalogInv PROVE ManifestListsOwnControls
  <2> SUFFICES ASSUME NEW e \in PublishManifest
               PROVE  \E d \in Dirs :
                         /\ Unreadable \notin ToSet(d)
                         /\ \E f \in ToSet(d) :
                               e = [catalog |-> <<Namespace(f), f.id>>,
                                    requirements |-> {k.id : k \in ToSet(f.controls)}]
    BY DEF ManifestListsOwnControls
  <2>1. PICK id \in DOMAIN referenceCatalogs :
            e = [catalog |-> <<Namespace(referenceCatalogs[id]), referenceCatalogs[id].id>>,
                 requirements |->
                    {k.id : k \in ToSet(referenceCatalogs[id].controls)}]
    BY DEF PublishManifest
  <2>2. PICK d \in Dirs : /\ Unreadable \notin ToSet(d)
                          /\ referenceCatalogs[id] \in ToSet(d)
    BY <1>1 DEF CatalogInv
  <2> QED BY <2>1, <2>2
<1>2. OrchInv => ManifestListsOwnControls
  BY <1>1 DEF OrchInv
<1> QED BY <1>2, OrchInvariant, PTL

(* Unless a directory failed to load, a suite has every control that its   *)
(* catalog imports from the files beside it, and it never has a control    *)
(* that is neither its catalog's own nor imported.                         *)
THEOREM ImportsPresent == Spec => []SuiteHasItsImports
<1>1. OrchInv => SuiteHasItsImports
  BY DEF OrchInv
<1> QED BY <1>1, OrchInvariant, PTL

(* When Mobilize returned without error, the results file and the          *)
(* benchmark report it was to write are its own and complete: every suite, *)
(* every loader with its calls, and in a first call every step once.       *)
THEOREM OwnOutputs == Spec => []OutputsOfThisRun
<1>1. OrchInv => OutputsOfThisRun
  BY DEF OrchInv
<1> QED BY <1>1, OrchInvariant, PTL

(* A result other than Unknown is the judgement of this call's payload,    *)
(* and for typed steps of a payload of their type.                         *)
THEOREM OwnPayloadJudged == Spec => JudgesItsPayload
<1>1. ASSUME OrchInv, [Next]_vars, NEW c \in Ids,
             suite'[c].Result # suite[c].Result,
             suite'[c].Result \in {"Passed", "NeedsReview", "Failed"}
      PROVE  /\ built[c].how.loader # "none" \/ loader # "none" =>
                  suite[c].payload.run = runs
             /\ built[c].how.typed => suite[c].payload.type = "T"
  <2> USE <1>1 DEF OrchInv
  <2>1. PICK r \in Results : EvaluateControl(r)
    BY ResultsKept
  <2>2. c = Current
    BY <2>1, ControlEnds
  <2>3. pc = "evaluate" /\ r \in ControlResults
    BY <2>1 DEF EvaluateControl
  <2>4. c \in ToSet(possibleSuites)
    BY <2>2, <2>3 DEF RunningInv, Registered
  <2>5. suite'[c].Result = r
    <3>1. suite'[c].Result = UpdateAggregateResult(suite[c].Result, r)
      BY <2>1, <2>2, ControlEnds
    <3>2. suite[c].Result \in Results
      BY DEF TypeOK, OrchTypeOK, Suite
    <3>3. UpdateAggregateResult(suite[c].Result, r) \in {suite[c].Result, r}
      BY <3>2, Aggregated
    <3> QED BY <3>1, <3>3
  <2>6. StepCalled(c)
    BY <2>2, <2>3, <2>5 DEF ControlResults, StepResults
  <2> QED BY <2>3, <2>4, <2>6 DEF PayloadInv, StepCalled
<1>2. OrchInv /\ [Next]_vars =>
        [\A c \in Ids :
           suite'[c].Result # suite[c].Result
             /\ suite'[c].Result \in {"Passed", "NeedsReview", "Failed"} =>
               LET how == built[c].how
               IN  /\ how.loader # "none" \/ loader # "none" =>
                        suite[c].payload.run = runs
                   /\ how.typed => suite[c].payload.type = "T"]_vars
  BY <1>1
<1> QED BY <1>2, OrchInvariant, PTL DEF Spec, JudgesItsPayload
============================================================================
