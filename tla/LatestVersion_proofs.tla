----------------------- MODULE LatestVersion_proofs -----------------------
(***************************************************************************)
(* Proofs about LatestVersion, for every set of version strings and every  *)
(* pair of rankings.                                                       *)
(***************************************************************************)
EXTENDS LatestVersion, TLAPS

\* Every step of the scan keeps its state well formed.
LEMMA TypeStep ==
    ASSUME TypeOK, [Next]_vars
    PROVE  TypeOK'
<1>1. ASSUME NEW v \in Versions, Add(v) PROVE TypeOK'
  BY <1>1 DEF Add, TypeOK
<1>2. ASSUME NEW v \in Versions, Visit(v) PROVE TypeOK'
  BY <1>2 DEF Visit, TypeOK
<1>3. CASE Latest
  BY <1>3 DEF Latest, TypeOK
<1>4. CASE Return
  BY <1>4 DEF Return, TypeOK
<1>5. CASE UNCHANGED vars
  BY <1>5 DEF vars, TypeOK
<1> QED BY <1>1, <1>2, <1>3, <1>4, <1>5 DEF Next

\* What Latest returns and keeps are installed versions.
THEOREM TypeCorrect == Spec => []TypeOK
<1>1. Init => TypeOK
  BY DEF Init, TypeOK
<1>2. TypeOK /\ [Next]_vars => TypeOK'
  BY TypeStep
<1> QED BY <1>1, <1>2, PTL DEF Spec

----------------------------------------------------------------------------
(* The highest version.                                                    *)

AllValid == \A v \in installed : Valid(v)

\* a is at least as high as every version of S.
Tops(a, S) == \A w \in S : SemVer[w] <= SemVer[a]

\* Among valid versions the scan's best tops what it has met.
ScanInv ==
    AllValid =>
        /\ scanning /\ installed # rest => best # None
        /\ scanning /\ best # None => Tops(best, installed \ rest)

\* One iteration of the loop: the better of best and v tops one version more.
LEMMA VisitTops ==
    ASSUME TypeOK, ScanInv, AllValid, NEW v \in Versions, Visit(v)
    PROVE  best' # None /\ Tops(best', installed \ rest')
<1>1. v \in installed /\ v # None /\ rest' = rest \ {v}
  BY Ranks DEF Visit, TypeOK
<1>2. CASE best = None
  <2>1. best' = v /\ installed = rest
    BY <1>2 DEF Visit, ScanInv
  <2>2. \A w \in installed \ rest' : w = v
    BY <1>1, <2>1
  <2> QED BY <1>1, <2>1, <2>2, Ranks DEF Tops
<1>3. CASE best # None
  <2>1. best \in installed /\ Tops(best, installed \ rest)
    BY <1>3 DEF Visit, ScanInv, TypeOK
  <2>2. best' = IF SemVer[v] > SemVer[best] THEN v ELSE best
    BY <1>1, <1>3, <2>1 DEF Visit, compareVersions, AllValid
  <2>3. \A w \in installed : SemVer[w] \in Nat
    BY Ranks DEF TypeOK
  <2>4. \A w \in installed \ rest' : w = v \/ w \in installed \ rest
    BY <1>1
  <2> QED BY <1>1, <1>3, <2>1, <2>2, <2>3, <2>4 DEF Tops
<1> QED BY <1>2, <1>3

\* Every step keeps best the highest of the versions met, and every answer
\* the highest of all.
LEMMA HighestStep ==
    ASSUME TypeOK, ScanInv, LatestIsHighest, [Next]_vars
    PROVE  ScanInv' /\ LatestIsHighest'
<1>1. ASSUME NEW v \in Versions, Add(v) PROVE ScanInv' /\ LatestIsHighest'
  <2>1. ScanInv'
    BY <1>1 DEF Add, ScanInv
  <2>2. CASE v \in installed
    <3>1. installed' = installed
      BY <1>1, <2>2 DEF Add
    <3> QED BY <1>1, <2>1, <2>2, <3>1 DEF Add, LatestIsHighest
  <2>3. CASE v \notin installed
    BY <1>1, <2>1, <2>3 DEF Add, LatestIsHighest
  <2> QED BY <2>1, <2>2, <2>3
<1>2. ASSUME NEW v \in Versions, Visit(v) PROVE ScanInv' /\ LatestIsHighest'
  <2>1. ScanInv'
    BY <1>2, VisitTops DEF Visit, ScanInv, AllValid
  <2> QED BY <1>2, <2>1 DEF Visit, LatestIsHighest
<1>3. CASE Latest
  BY <1>3 DEF Latest, ScanInv, LatestIsHighest, Tops
<1>4. CASE Return
  <2>1. ScanInv'
    BY <1>4 DEF Return, ScanInv
  <2>2. ASSUME AllValid
        PROVE  IF installed = {} THEN best = None
               ELSE best # None /\ \A v \in installed : SemVer[v] <= SemVer[best]
    <3>1. CASE installed = {}
      BY <3>1 DEF TypeOK
    <3>2. CASE installed # {}
      BY <1>4, <2>2, <3>2 DEF Return, ScanInv, Tops
    <3> QED BY <3>1, <3>2
  <2> QED BY <1>4, <2>1, <2>2 DEF Return, LatestIsHighest, AllValid
<1>5. CASE UNCHANGED vars
  BY <1>5 DEF vars, ScanInv, AllValid, LatestIsHighest
<1> QED BY <1>1, <1>2, <1>3, <1>4, <1>5 DEF Next

\* In whatever order the map yields the entries, Latest returns a version that
\* no installed one exceeds, provided all of them are valid.
THEOREM Highest == Spec => []LatestIsHighest
<1>1. Init => ScanInv /\ LatestIsHighest
  BY DEF Init, ScanInv, LatestIsHighest
<1>2. TypeOK /\ ScanInv /\ LatestIsHighest /\ [Next]_vars
        => ScanInv' /\ LatestIsHighest'
  BY HighestStep
<1> QED BY <1>1, <1>2, TypeCorrect, PTL DEF Spec

----------------------------------------------------------------------------
(* Determinism.                                                            *)

Beats(a, b) == a = b \/ compareVersions(a, b)

\* Among ordered versions, the better of two beats what either beats, and no
\* two beat each other.
LEMMA BeatsIsOrder ==
    ASSUME NEW S \in SUBSET Versions, Ordered(S),
           NEW a \in S, NEW b \in S
    PROVE  /\ Beats(a, b) \/ Beats(b, a)
           /\ Beats(a, b) /\ Beats(b, a) => a = b
           /\ \A c \in S : Beats(a, b) /\ Beats(b, c) => Beats(a, c)
<1>1. /\ \A v \in S : SemVer[v] \in Nat /\ Lexical[v] \in Nat
      /\ \A v, w \in S : Lexical[v] = Lexical[w] => v = w
  BY Ranks
<1>2. CASE \A v, w \in S : Valid(v) /\ (SemVer[v] = SemVer[w] => v = w)
  BY <1>1, <1>2 DEF Beats, compareVersions
<1>3. CASE \A v \in S : ~Valid(v)
  BY <1>1, <1>3 DEF Beats, compareVersions
<1> QED BY <1>2, <1>3 DEF Ordered

\* Among ordered versions the scan's best beats what it has met, and every
\* answer beats all.
OrderInv ==
    Ordered(installed) =>
        /\ scanning /\ installed # rest => best # None
        /\ scanning /\ best # None => \A w \in installed \ rest : Beats(best, w)
        /\ \A a \in answers : IF installed = {} THEN a = None
                              ELSE a # None /\ \A w \in installed : Beats(a, w)

\* One iteration of the loop keeps the winner among the versions met.
LEMMA VisitBeats ==
    ASSUME TypeOK, OrderInv, Ordered(installed), NEW v \in Versions, Visit(v)
    PROVE  best' # None /\ \A w \in installed \ rest' : Beats(best', w)
<1>1. v \in installed /\ v # None /\ rest' = rest \ {v}
  BY Ranks DEF Visit, TypeOK
<1>2. CASE best = None
  <2>1. best' = v /\ installed = rest
    BY <1>2 DEF Visit, OrderInv
  <2> QED BY <1>1, <2>1 DEF Beats
<1>3. CASE best # None
  <2>1. best \in installed /\ \A w \in installed \ rest : Beats(best, w)
    BY <1>3 DEF Visit, OrderInv, TypeOK
  <2>2. best' = IF compareVersions(v, best) THEN v ELSE best
    BY <1>3 DEF Visit
  <2>3. \A w \in installed \ rest' : w = v \/ w \in installed \ rest
    BY <1>1
  <2>4. installed \in SUBSET Versions
    BY DEF TypeOK
  <2>5. CASE compareVersions(v, best)
    <3>1. Beats(v, best) /\ best' = v
      BY <2>2, <2>5 DEF Beats
    <3>2. \A w \in installed \ rest : Beats(v, w)
      BY <1>1, <2>1, <2>4, <3>1, BeatsIsOrder
    <3> QED BY <1>1, <2>3, <3>1, <3>2 DEF Beats
  <2>6. CASE ~compareVersions(v, best)
    <3>1. Beats(best, v) /\ best' = best
      BY <1>1, <2>1, <2>2, <2>4, <2>6, BeatsIsOrder DEF Beats
    <3> QED BY <1>3, <2>1, <2>3, <3>1
  <2> QED BY <2>5, <2>6
<1> QED BY <1>2, <1>3

\* Every step keeps the winner.
LEMMA OrderStep ==
    ASSUME TypeOK, OrderInv, [Next]_vars
    PROVE  OrderInv'
<1>1. ASSUME NEW v \in Versions, Add(v) PROVE OrderInv'
  <2>1. CASE v \in installed
    <3>1. installed' = installed
      BY <1>1, <2>1 DEF Add
    <3> QED BY <1>1, <2>1, <3>1 DEF Add, OrderInv
  <2>2. CASE v \notin installed
    BY <1>1, <2>2 DEF Add, OrderInv
  <2> QED BY <2>1, <2>2
<1>2. ASSUME NEW v \in Versions, Visit(v) PROVE OrderInv'
  BY <1>2, VisitBeats DEF Visit, OrderInv
<1>3. CASE Latest
  BY <1>3 DEF Latest, OrderInv
<1>4. CASE Return
  <2>1. ASSUME Ordered(installed)
        PROVE  IF installed = {} THEN best = None
               ELSE best # None /\ \A w \in installed : Beats(best, w)
    <3>1. CASE installed = {}
      BY <3>1 DEF TypeOK
    <3>2. CASE installed # {}
      BY <1>4, <2>1, <3>2 DEF Return, OrderInv
    <3> QED BY <3>1, <3>2
  <2> QED BY <1>4, <2>1 DEF Return, OrderInv
<1>5. CASE UNCHANGED vars
  BY <1>5 DEF vars, OrderInv
<1> QED BY <1>1, <1>2, <1>3, <1>4, <1>5 DEF Next

\* Two calls of Latest agree whenever compareVersions orders what is installed.
THEOREM Deterministic == Spec => []OrderedIsDeterministic
<1>1. Init => OrderInv
  BY DEF Init, OrderInv
<1>2. TypeOK /\ OrderInv /\ [Next]_vars => OrderInv'
  BY OrderStep
<1>3. TypeOK /\ OrderInv => OrderedIsDeterministic
  <2> SUFFICES ASSUME TypeOK, OrderInv, Ordered(installed),
                      NEW a \in answers, NEW b \in answers
               PROVE  a = b
    BY DEF OrderedIsDeterministic
  <2>1. CASE installed = {}
    BY <2>1 DEF OrderInv
  <2>2. CASE installed # {}
    <3>1. a \in installed /\ b \in installed
      BY <2>2 DEF OrderInv, TypeOK
    <3>2. Beats(a, b) /\ Beats(b, a)
      BY <2>2, <3>1 DEF OrderInv
    <3>3. installed \in SUBSET Versions
      BY DEF TypeOK
    <3> QED BY <3>1, <3>2, <3>3, BeatsIsOrder
  <2> QED BY <2>1, <2>2
<1> QED BY <1>1, <1>2, <1>3, TypeCorrect, PTL DEF Spec
============================================================================
