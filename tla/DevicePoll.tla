---------------------------- MODULE DevicePoll ----------------------------
(***************************************************************************)
(* internal/auth/oidc.go: the device-authorization grant of `pvtr login`.  *)
(* StartDeviceFlow obtains a device code, PollForToken polls the token     *)
(* endpoint until the user has answered or the code has expired.  The auth *)
(* server is external: each poll may get any answer.  Time is counted in   *)
(* units of five seconds.                                                  *)
(***************************************************************************)
EXTENDS Integers

CONSTANTS
    ExpiresIn,      \* the values of expires_in the server may send
    Intervals,      \* the values of interval the server may send
    HttpTimeout,    \* httpTimeout: how long a request takes at most
    DefaultExpiry,  \* used when expires_in is absent
    MaxInterval,    \* bound: the interval no longer grows
    Horizon         \* bound: time past the deadline is not counted further

ASSUME Times ==
    /\ ExpiresIn \subseteq Nat /\ Intervals \subseteq Nat
    /\ HttpTimeout \in Nat /\ DefaultExpiry \in Nat \ {0}
    /\ MaxInterval \in Nat \ {0} /\ Horizon \in Nat \ {0}

VARIABLES
    pc,        \* "idle", "check", "wait", "post", "done"
    left,      \* time until the deadline, negative when it is past
    interval,  \* the polling interval
    result,    \* what Login's poll returned
    late       \* observer: requests sent after the deadline, up to 2

vars == <<pc, left, interval, result, late>>

Answers == {"token", "no_token", "authorization_pending", "slow_down",
            "access_denied", "expired_token", "other"}
Results == {"none", "creds", "expired", "denied", "cancelled", "error"}

Least(a, b) == IF a < b THEN a ELSE b
Passes(t) == IF left - t < -Horizon THEN -Horizon ELSE left - t

Init ==
    /\ pc = "idle"
    /\ left = 0
    /\ interval = 0
    /\ result = "none"
    /\ late = 0

\* Mutant: an absent interval is not replaced.
FirstInterval_AsSent(i) == i

\* interval, or five seconds when the server sends none.
FirstInterval(i) == IF i = 0 THEN 1 ELSE i

\* StartDeviceFlow, and PollForToken up to its loop.
StartDeviceFlow(e, i) ==
    /\ pc = "idle"
    /\ interval' = FirstInterval(i)
    /\ left' = IF e = 0 THEN DefaultExpiry ELSE e
    /\ pc' = "check"
    /\ late' = 0
    /\ UNCHANGED result

StartFails ==
    /\ pc = "idle"
    /\ pc' = "done"
    /\ result' = "error"
    /\ UNCHANGED <<left, interval, late>>

\* Mutant: the deadline is not checked.
Expired_Never == FALSE

\* time.Now().After(deadline)
Expired == left < 0

\* The top of the loop.
Check ==
    /\ pc = "check"
    /\ IF Expired THEN pc' = "done" /\ result' = "expired"
                  ELSE pc' = "wait" /\ UNCHANGED result
    /\ UNCHANGED <<left, interval, late>>

\* The select: the interval passes, or the context is cancelled.
Wait ==
    /\ pc = "wait"
    /\ left' = Passes(interval)
    /\ pc' = "post"
    /\ late' = IF left' < 0 THEN Least(late + 1, 2) ELSE late
    /\ UNCHANGED <<interval, result>>

Cancel ==
    /\ pc = "wait"
    /\ pc' = "done"
    /\ result' = "cancelled"
    /\ UNCHANGED <<left, interval, late>>

\* The interval after slow_down: five seconds more.
SlowDown == Least(interval + 1, MaxInterval)

\* A request and the answer, which takes time t.
Post(answer, t) ==
    /\ pc = "post"
    /\ left' = Passes(t)
    /\ interval' = IF answer = "slow_down" THEN SlowDown ELSE interval
    /\ IF answer \in {"authorization_pending", "slow_down"}
       THEN pc' = "check" /\ UNCHANGED result
       ELSE /\ pc' = "done"
            /\ result' = CASE answer = "token" -> "creds"
                           [] answer = "access_denied" -> "denied"
                           [] answer = "expired_token" -> "expired"
                           [] OTHER -> "error"
    /\ UNCHANGED late

\* The request fails: no answer, another status, or no JSON.
PostFails ==
    /\ pc = "post"
    /\ pc' = "done"
    /\ result' = "error"
    /\ UNCHANGED <<left, interval, late>>

Next ==
    \/ \E e \in ExpiresIn, i \in Intervals : StartDeviceFlow(e, i)
    \/ StartFails
    \/ Check
    \/ Wait
    \/ Cancel
    \/ \E answer \in Answers, t \in 0..HttpTimeout : Post(answer, t)
    \/ PostFails

Spec == Init /\ [][Next]_vars

\* The timer fires, and a request ends by the HTTP client's timeout.
FairSpec == Spec /\ WF_vars(Check \/ Wait \/ PostFails \/
                   \E answer \in Answers, t \in 0..HttpTimeout : Post(answer, t))

----------------------------------------------------------------------------
(* Properties.                                                             *)

\* The state of the flow is well formed, and the interval is never zero once
\* the flow has begun.
TypeOK ==
    /\ pc \in {"idle", "check", "wait", "post", "done"}
    /\ left \in Int /\ left >= -Horizon
    /\ interval \in Nat /\ (pc \in {"check", "wait", "post"} => interval > 0)
    /\ result \in Results
    /\ late \in 0..2

\* oidc.go:138: "bound the poll regardless".  Whatever mix of pending and
\* slow_down the server answers with, PollForToken returns.
PollReturns == pc = "check" ~> pc = "done"

\* The deadline is checked before the wait and not after it, so that one
\* request may still go out when the code has expired, and only one.
AtMostOneLatePoll == late <= 1
============================================================================
