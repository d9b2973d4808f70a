---------------------------- MODULE Credentials ----------------------------
(***************************************************************************)
(* internal/auth: the credential store and its three users, `pvtr login`,  *)
(* `pvtr logout` and BearerToken, on whose answer `pvtr publish` relies.   *)
(* The store is one file for all issuers, read as a whole and replaced as  *)
(* a whole, with no lock: each pvtr process is a member of Procs.  The     *)
(* auth server is external; it may rotate refresh tokens.  Time is counted *)
(* in units of thirty seconds.                                             *)
(***************************************************************************)
EXTENDS Naturals, Sequences

CONSTANTS
    Procs,      \* pvtr processes
    Issuers,    \* the issuers hubs advertise, canonical
    MetaIssuer, \* the issuer that the metadata document of an issuer names
    Lifetimes,  \* the values of expires_in the server may send
    Rotates,    \* the server accepts a refresh token once only
    MaxTokens,  \* bound: tokens the server issues
    MaxTime,    \* bound: the time at which the clock stops
    None

ASSUME Params ==
    /\ MetaIssuer \in [Issuers -> Issuers]
    /\ Lifetimes \subseteq Nat
    /\ Rotates \in BOOLEAN
    /\ MaxTokens \in Nat /\ MaxTime \in Nat

renewalWindow == 2
floor == renewalWindow + 1

VARIABLES
    now,       \* the clock
    store,     \* credentials.json: issuer -> credentials or None
    proc,      \* the state of each process
    issued,    \* server: the access tokens, each with its issuer as the metadata
               \*   names it, its lifetime and its end
    consumed,  \* server: refresh tokens it no longer accepts
    told,      \* observer: refresh tokens whose loss was printed, or was in
               \*   the hands of a process that was killed
    session,   \* observer: was an issuer last logged into, or out of?
    settled,   \* observer: issuers whose entry was last written while no other
               \*   process was on its way to write over it
    handed     \* observer: the token the last step handed out, if it did

vars == <<now, store, proc, issued, consumed, told, session, settled, handed>>

Tokens == 1..MaxTokens
Max(a, b) == IF a > b THEN a ELSE b

\* token: the access token; refresh: the refresh token of the same number, or
\* 0 when the server sent none.
Credential == [issuer : Issuers, token : Tokens, refresh : 0..MaxTokens,
               expiresAt : Nat]
ASSUME NoneIsNoCredential == None \notin Credential
File == [Issuers -> Credential \cup {None}]
Idle == [op |-> "idle"]

\* What a process is doing.  "get": BearerToken has credentials to refresh,
\* "load" and "save": the two halves of Put and Delete.
\* old: the refresh token it has sent, or is about to send, to the server.
Doing(op, stage, i, creds, old) ==
    [op |-> op, stage |-> stage, issuer |-> i, creds |-> creds, old |-> old,
     file |-> None]

Init ==
    /\ now = 0
    /\ store = [i \in Issuers |-> None]
    /\ proc = [p \in Procs |-> Idle]
    /\ issued = <<>>
    /\ consumed = {}
    /\ told = {}
    /\ session = [i \in Issuers |-> "none"]
    /\ settled = Issuers
    /\ handed = None

\* Mutant: the entry is never near its expiry before it is there.
Expired_NoWindow(c) == now > c.expiresAt

\* Expired: now + renewalWindow is after ExpiresAt.
Expired(c) == now + renewalWindow > c.expiresAt

At(p, op, stage) == proc[p].op = op /\ proc[p].stage = stage
Busy(p) == proc[p].op # "idle"

(***************************************************************************)
(* The auth server issues a token, with or without a refresh token, and    *)
(* credsFromTokenResponse makes credentials of it.                         *)
(***************************************************************************)
credsFromTokenResponse(i, life, withRefresh) ==
    LET t == Len(issued) + 1
    IN  [issuer |-> MetaIssuer[i], token |-> t,
         refresh |-> IF withRefresh THEN t ELSE 0,
         expiresAt |-> now + Max(life, floor)]

Issue(i, life) ==
    /\ Len(issued) < MaxTokens
    /\ issued' = Append(issued, [issuer |-> MetaIssuer[i], life |-> life,
                                 until |-> now + life])

(***************************************************************************)
(* Login, Logout and BearerToken up to the store's Put or Delete.  The     *)
(* device flow of Login is the subject of module DevicePoll.               *)
(***************************************************************************)
Login(p, i, life, withRefresh) ==
    /\ ~Busy(p)
    /\ Issue(i, life)
    /\ proc' = [proc EXCEPT ![p] = Doing("login", "load", i,
                               credsFromTokenResponse(i, life, withRefresh), 0)]
    /\ UNCHANGED <<now, store, consumed, told, session, settled>>
    /\ handed' = None

Logout(p, i) ==
    /\ ~Busy(p)
    /\ proc' = [proc EXCEPT ![p] = Doing("logout", "load", i, None, 0)]
    /\ UNCHANGED <<now, store, issued, consumed, told, session, settled>>
    /\ handed' = None

Hand(t) == handed' = [life |-> issued[t].life,
                      left |-> Max(issued[t].until, now) - now]

\* Get finds credentials: hand them out, or go on to refresh them.  Without a
\* refresh token, and without credentials, BearerToken returns an error.
BearerToken(p, i) ==
    /\ ~Busy(p)
    /\ store[i] # None
    /\ IF Expired(store[i])
       THEN /\ store[i].refresh # 0
            /\ proc' = [proc EXCEPT ![p] =
                   Doing("bearer", "get", i, None, store[i].refresh)]
            /\ handed' = None
       ELSE Hand(store[i].token) /\ UNCHANGED proc
    /\ UNCHANGED <<now, store, issued, consumed, told, session, settled>>

\* The server answers a refresh request.
Accept(p) ==
    /\ proc[p].old \notin consumed
    /\ consumed' = IF Rotates THEN consumed \cup {proc[p].old} ELSE consumed

\* refreshToken succeeds.
refreshToken(p, life, withRefresh) ==
    /\ At(p, "bearer", "get")
    /\ Accept(p)
    /\ Issue(proc[p].issuer, life)
    /\ LET i == proc[p].issuer
       IN  proc' = [proc EXCEPT ![p] =
               Doing("bearer", "load", i,
                     credsFromTokenResponse(i, life, withRefresh), proc[p].old)]
    /\ UNCHANGED <<now, store, told, session, settled>>
    /\ handed' = None

\* FetchOIDCMetadata or refreshToken fails; a consumed token always does.  The
\* answer may have been lost after the server accepted the token.  Either way
\* BearerToken returns an error that asks for a login.
RefreshFails(p) ==
    /\ At(p, "bearer", "get")
    /\ Accept(p) \/ UNCHANGED consumed
    /\ proc' = [proc EXCEPT ![p] = Idle]
    /\ told' = told \cup {proc[p].old}
    /\ UNCHANGED <<now, store, issued, session, settled>>
    /\ handed' = None

(***************************************************************************)
(* Put and Delete: load, change one entry, save.                           *)
(***************************************************************************)
Load(p) ==
    /\ Busy(p) /\ proc[p].stage = "load"
    /\ proc' = [proc EXCEPT ![p].stage = "save", ![p].file = store]
    /\ UNCHANGED <<now, store, issued, consumed, told, session, settled>>
    /\ handed' = None

\* Mutant: the file is written anew with one entry.
Written_OneEntry(q) ==
    [i \in Issuers |-> IF q.op # "logout" /\ i = q.creds.issuer
                       THEN q.creds ELSE None]

\* Mutant: Delete saves the file as it was read.
Written_Undeleted(q) ==
    IF q.op = "logout" THEN q.file
    ELSE [q.file EXCEPT ![q.creds.issuer] = q.creds]

\* The content of the new file.
Written(q) ==
    IF q.op = "logout" THEN [q.file EXCEPT ![q.issuer] = None]
    ELSE [q.file EXCEPT ![q.creds.issuer] = q.creds]

\* The issuer whose entry Put or Delete writes: credentials go under the issuer
\* that the metadata document names, Delete is given the one the hub advertises.
KeyOf(q) == IF q.op = "logout" THEN q.issuer ELSE q.creds.issuer

\* Observer: q has read the file and will write it over what p now writes, or
\* will store refreshed credentials for the issuer that p logs out of.
Overlaps(q, p) ==
    /\ Busy(q)
    /\ \/ proc[q].stage = "save"
       \/ /\ proc[p].op = "logout"
          /\ proc[q].op = "bearer" /\ proc[q].issuer = proc[p].issuer

\* What the end of a Put or Delete means to the command.
Finish(p) ==
    /\ proc' = [proc EXCEPT ![p] = Idle]
    /\ IF proc[p].op = "bearer" THEN Hand(proc[p].creds.token)
                                ELSE handed' = None

Save(p) ==
    /\ Busy(p) /\ proc[p].stage = "save"
    /\ store' = Written(proc[p])
    /\ Finish(p)
    /\ LET i == KeyOf(proc[p])
           renews == proc[p].op = "bearer" /\ proc[p].issuer = i
       IN  /\ session' = [session EXCEPT ![i] =
                  IF renews THEN @ ELSE IF proc[p].op = "logout" THEN "out" ELSE "in"]
           /\ settled' = IF \E q \in Procs \ {p} : Overlaps(q, p) THEN settled \ {i}
                         ELSE IF renews THEN settled ELSE settled \cup {i}
    /\ UNCHANGED <<now, issued, consumed, told>>

\* Mutant: a failed write of refreshed credentials is not reported.
Reported_Nothing(p) == told

\* BearerToken warns that the credentials it has could not be stored.
Reported(p) == told \cup {proc[p].old}

\* The file cannot be read or written.  Login and Logout return the error;
\* BearerToken warns and hands the token out.
PutFails(p) ==
    /\ Busy(p) /\ proc[p].stage \in {"load", "save"}
    /\ Finish(p)
    /\ told' = IF proc[p].op = "bearer" THEN Reported(p) ELSE told
    /\ UNCHANGED <<now, store, issued, consumed, session, settled>>

\* The process is killed.
Crash(p) ==
    /\ Busy(p)
    /\ proc' = [proc EXCEPT ![p] = Idle]
    /\ (At(p, "bearer", "get") /\ Accept(p)) \/ UNCHANGED consumed
    /\ told' = IF proc[p].op = "bearer" THEN told \cup {proc[p].old} ELSE told
    /\ UNCHANGED <<now, store, issued, session, settled>>
    /\ handed' = None

\* Put and Delete take no time worth counting.
Tick ==
    /\ now < MaxTime
    /\ \A p \in Procs : Busy(p) => proc[p].stage = "get"
    /\ now' = now + 1
    /\ UNCHANGED <<store, proc, issued, consumed, told, session, settled>>
    /\ handed' = None

Next ==
    \/ \E p \in Procs :
         \/ \E i \in Issuers : Logout(p, i) \/ BearerToken(p, i)
         \/ \E i \in Issuers, life \in Lifetimes, r \in BOOLEAN : Login(p, i, life, r)
         \/ \E life \in Lifetimes, r \in BOOLEAN : refreshToken(p, life, r)
         \/ RefreshFails(p) \/ Load(p) \/ Save(p) \/ PutFails(p) \/ Crash(p)
    \/ Tick

Spec == Init /\ [][Next]_vars

----------------------------------------------------------------------------
(* Properties.                                                             *)

\* The store and the observers are well formed: the store holds issued tokens
\* under the issuer they name, and no process is about to store credentials
\* that are born expired.
CredTypeOK ==
    /\ now \in 0..MaxTime
    /\ store \in File
    /\ \A i \in Issuers : store[i] # None =>
         store[i].issuer = i /\ store[i].token <= Len(issued)
    /\ consumed \subseteq Tokens
    /\ told \subseteq 0..MaxTokens
    /\ session \in [Issuers -> {"none", "in", "out"}]
    /\ settled \subseteq Issuers
    /\ handed # None => handed.life \in Lifetimes /\ handed.left \in 0..handed.life
    /\ \A p \in Procs : Busy(p) /\ proc[p].creds # None => ~Expired(proc[p].creds)

\* store.go:33: "Expired reports whether the access token is at/near expiry
\* (within the renewal window), so callers refresh before a push rather than
\* mid-flight."  Every token BearerToken hands out lives for the window, if
\* the server gave it a lifetime that the floor does not stretch.
BearerFresh ==
    handed # None /\ handed.life >= floor => handed.left >= renewalWindow

\* login.go:101: "A failed cache write must not fail the operation ... but it
\* must be VISIBLE: under refresh-token rotation the on-disk token is now
\* consumed".  However many processes refresh, a consumed refresh token on disk
\* was reported, or a process is about to replace it.  Excepted are an entry
\* that another process may put back from an older copy of the file, and an
\* issuer whose metadata document names another, under which the refreshed
\* credentials are then stored.
ConsumedIsVisible ==
    \A i \in settled :
        MetaIssuer[i] = i /\ store[i] # None /\ store[i].refresh \in consumed =>
            \/ store[i].refresh \in told
            \/ \E p \in Procs : Busy(p) /\ proc[p].old = store[i].refresh

\* login.go:53: "Logout forgets stored credentials for the issuer."  A logout
\* is not undone by what other processes do later: not by logins and logouts
\* of other issuers, nor by refreshes.  It can be by a process that had read
\* the file, or begun a refresh for the issuer, when the logout wrote it.
LogoutForgets == \A i \in settled : session[i] = "out" => store[i] = None

\* command/harness/login.go:22: "store the token so `pvtr publish` can
\* authenticate."  After a login there are credentials for the issuer that the
\* metadata document names, whatever other processes do later.  A process that
\* had read the file when the login wrote it can undo it; and publish looks
\* for the issuer the hub advertises, which may be another.
LoginServesPublish == \A i \in settled : session[i] = "in" => store[i] # None
============================================================================
