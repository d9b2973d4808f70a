------------------------- MODULE DevicePoll_proofs -------------------------
(***************************************************************************)
(* Proofs about DevicePoll, for every expiry, interval and timeout.        *)
(***************************************************************************)
EXTENDS DevicePoll, TLAPS

\* Every step of the flow keeps its state well formed.
LEMMA TypeStep ==
    ASSUME TypeOK, [Next]_vars
    PROVE  TypeOK'
<1> USE Times
<1>1. ASSUME NEW e \in ExpiresIn, NEW i \in Intervals, StartDeviceFlow(e, i)
      PROVE  TypeOK'
  BY <1>1 DEF StartDeviceFlow, FirstInterval, TypeOK
<1>2. CASE StartFails
  BY <1>2 DEF StartFails, TypeOK, Results
<1>3. CASE Check
  BY <1>3 DEF Check, TypeOK, Results
<1>4. CASE Wait
  BY <1>4 DEF Wait, Passes, Least, TypeOK
<1>5. CASE Cancel
  BY <1>5 DEF Cancel, TypeOK, Results
<1>6. ASSUME NEW answer \in Answers, NEW t \in 0..HttpTimeout, Post(answer, t)
      PROVE  TypeOK'
  <2>1. left' \in Int /\ left' >= -Horizon
    BY <1>6 DEF Post, Passes, TypeOK
  <2>2. interval' \in Nat \ {0}
    BY <1>6 DEF Post, SlowDown, Least, TypeOK
  <2>3. result' \in Results /\ pc' \in {"check", "done"}
    BY <1>6 DEF Post, TypeOK, Results, Answers
  <2> QED BY <1>6, <2>1, <2>2, <2>3 DEF Post, TypeOK
<1>7. CASE PostFails
  BY <1>7 DEF PostFails, TypeOK, Results
<1>8. CASE UNCHANGED vars
  BY <1>8 DEF vars, TypeOK
<1> QED BY <1>1, <1>2, <1>3, <1>4, <1>5, <1>6, <1>7, <1>8 DEF Next

\* The state is always well formed; the polling interval is never zero.
THEOREM TypeCorrect == Spec => []TypeOK
<1>1. Init => TypeOK
  BY Times DEF Init, TypeOK, Results
<1>2. TypeOK /\ [Next]_vars => TypeOK'
  BY TypeStep
<1> QED BY <1>1, <1>2, PTL DEF Spec

\* A request after the deadline is only ever the last: once one has gone out
\* the deadline stays past, and the loop waits only before the deadline.
LateInv ==
    /\ pc \in {"idle", "wait"} => late = 0
    /\ late <= 1
    /\ late = 1 => left < 0

\* Every step keeps LateInv.
LEMMA LateStep ==
    ASSUME TypeOK, LateInv, [Next]_vars
    PROVE  LateInv'
<1> USE Times
<1>1. ASSUME NEW e \in ExpiresIn, NEW i \in Intervals, StartDeviceFlow(e, i)
      PROVE  LateInv'
  BY <1>1 DEF StartDeviceFlow, LateInv
<1>2. CASE StartFails
  BY <1>2 DEF StartFails, LateInv
<1>3. CASE Check
  BY <1>3 DEF Check, Expired, LateInv, TypeOK
<1>4. CASE Wait
  BY <1>4 DEF Wait, Passes, Least, LateInv, TypeOK
<1>5. CASE Cancel
  BY <1>5 DEF Cancel, LateInv
<1>6. ASSUME NEW answer \in Answers, NEW t \in 0..HttpTimeout, Post(answer, t)
      PROVE  LateInv'
  <2>1. late = 1 => left' < 0
    BY <1>6 DEF Post, Passes, LateInv, TypeOK
  <2>2. late' = late /\ pc' \in {"check", "done"}
    BY <1>6 DEF Post
  <2> QED BY <2>1, <2>2 DEF LateInv
<1>7. CASE PostFails
  BY <1>7 DEF PostFails, LateInv
<1>8. CASE UNCHANGED vars
  BY <1>8 DEF vars, LateInv
<1> QED BY <1>1, <1>2, <1>3, <1>4, <1>5, <1>6, <1>7, <1>8 DEF Next

\* At most one request goes out after the device code has expired.
THEOREM OneLatePoll == Spec => []AtMostOneLatePoll
<1>1. Init => LateInv
  BY DEF Init, LateInv
<1>2. TypeOK /\ LateInv /\ [Next]_vars => LateInv'
  BY LateStep
<1>3. LateInv => AtMostOneLatePoll
  BY DEF LateInv, AtMostOneLatePoll
<1> QED BY <1>1, <1>2, <1>3, TypeCorrect, PTL DEF Spec
============================================================================
