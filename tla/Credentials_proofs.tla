------------------------- MODULE Credentials_proofs -------------------------
(***************************************************************************)
(* Proofs about Credentials, for every set of issuers, every lifetime and  *)
(* every number of tokens, however many pvtr processes share the store and *)
(* whatever issuer the metadata documents name.                            *)
(***************************************************************************)
EXTENDS Credentials, TLAPS

----------------------------------------------------------------------------
(* The first inductive invariant: what the records of the store are.       *)

\* What a busy process holds.
Work == [op : {"login", "logout", "bearer"}, stage : {"get", "load", "save"},
         issuer : Issuers, creds : Credential \cup {None}, old : 0..MaxTokens,
         file : File \cup {None}]

\* What the server knows of a token.
Token == [issuer : Issuers, life : Lifetimes, until : Nat]

TypeInv ==
    /\ now \in 0..MaxTime
    /\ store \in File
    /\ proc \in [Procs -> Work \cup {Idle}]
    /\ issued \in Seq(Token) /\ Len(issued) <= MaxTokens
    /\ consumed \subseteq Tokens
    /\ told \subseteq 0..MaxTokens
    /\ session \in [Issuers -> {"none", "in", "out"}]
    /\ settled \subseteq Issuers

\* The server counts a token's life from a moment that has been.
IssuedBefore ==
    \A t \in 1..Len(issued) : issued[t].until <= now + issued[t].life

\* Credentials are those of a token of their issuer, and expire with it unless
\* its lifetime was below the floor.
Genuine(c, tokens) ==
    /\ c.token <= Len(tokens)
    /\ c.refresh \in {0, c.token}
    /\ tokens[c.token].issuer = c.issuer
    /\ tokens[c.token].life >= floor => c.expiresAt = tokens[c.token].until

FileOK(f, tokens) ==
    \A i \in Issuers : f[i] # None => f[i].issuer = i /\ Genuine(f[i], tokens)

\* What a process holds by the stage it is in.  It has the result of a login
\* or a refresh in hand for no time worth counting, so it is still fresh.
WorkOK(w, tokens, time) ==
    w.op # "idle" =>
      /\ IF w.op = "bearer"
         THEN w.old \in 1..Len(tokens) /\ tokens[w.old].issuer = w.issuer
         ELSE w.old = 0 /\ w.stage # "get"
      /\ w.stage # "get" /\ w.op # "logout" => w.creds # None
      /\ w.creds # None => /\ w.stage # "get"
                           /\ w.creds.issuer = MetaIssuer[w.issuer]
                           /\ Genuine(w.creds, tokens)
                           /\ time + renewalWindow <= w.creds.expiresAt
      /\ w.stage = "save" => w.file \in File /\ FileOK(w.file, tokens)

HandedOK ==
    handed # None => handed.life \in Lifetimes /\ handed.left \in 0..handed.life

CredInv ==
    /\ TypeInv
    /\ IssuedBefore
    /\ FileOK(store, issued)
    /\ \A p \in Procs : WorkOK(proc[p], issued, now)
    /\ HandedOK
    /\ BearerFresh

----------------------------------------------------------------------------
(* The second inductive invariant: what the processes may do to the store. *)

\* A process has the credentials of a login or a refresh in hand.
Holding(q) == Busy(q) /\ proc[q].creds # None

In(f, t) == \E i \in Issuers : f[i] # None /\ f[i].token = t

\* Token t has left the hands of the process it was issued to.
Used(t) ==
    \/ t \in consumed
    \/ In(store, t)
    \/ \E q \in Procs : Busy(q) /\ \/ proc[q].old = t
                                   \/ proc[q].stage = "save" /\ In(proc[q].file, t)

\* Credentials that are yet to be stored are in one hand only.
Unused ==
    \A p \in Procs : Holding(p) =>
        /\ ~Used(proc[p].creds.token)
        /\ \A q \in Procs \ {p} : Holding(q) => proc[q].creds.token # proc[p].creds.token

\* Whoever is about to write the file has the entry of a settled issuer as it
\* stands in the store, unless it writes that entry.
CopiesAgree ==
    \A i \in settled, q \in Procs :
        Busy(q) /\ proc[q].stage = "save" /\ KeyOf(proc[q]) # i =>
            proc[q].file[i] = store[i]

\* Nobody refreshes credentials of a settled issuer that was logged out of.
NoneRefreshed ==
    \A i \in settled, q \in Procs :
        session[i] = "out" => ~(Busy(q) /\ proc[q].op = "bearer" /\ proc[q].issuer = i)

StoreInv ==
    /\ CredInv
    /\ \A t \in consumed : t <= Len(issued)
    /\ Unused
    /\ CopiesAgree
    /\ NoneRefreshed
    /\ ConsumedIsVisible
    /\ LogoutForgets
    /\ LoginServesPublish

----------------------------------------------------------------------------
(* Facts the steps share.                                                  *)

\* Tokens are never forgotten by the server.
LEMMA GenuineKept ==
    ASSUME NEW tokens \in Seq(Token), NEW x \in Token, NEW c \in Credential,
           Genuine(c, tokens)
    PROVE  Genuine(c, Append(tokens, x))
<1>1. c.token \in 1..Len(tokens)
  BY Params DEF Genuine, Credential, Tokens
<1> QED BY <1>1 DEF Genuine

\* A file stays good while the server issues tokens.
LEMMA FileKept ==
    ASSUME NEW tokens \in Seq(Token), NEW x \in Token, NEW f \in File, FileOK(f, tokens)
    PROVE  FileOK(f, Append(tokens, x))
BY GenuineKept DEF FileOK, File

\* So does what a process holds.
LEMMA WorkKept ==
    ASSUME NEW tokens \in Seq(Token), NEW x \in Token, NEW time,
           NEW w \in Work \cup {Idle}, WorkOK(w, tokens, time)
    PROVE  WorkOK(w, Append(tokens, x), time)
<1>1. CASE w.op = "idle"
  BY <1>1 DEF WorkOK
<1>2. CASE w.op # "idle"
  <2>1. w \in Work
    BY <1>2 DEF Idle
  <2>2. w.creds # None => w.creds \in Credential
    BY <2>1 DEF Work
  <2>3. w.op = "bearer" => Append(tokens, x)[w.old] = tokens[w.old]
                           /\ w.old \in 1..Len(Append(tokens, x))
    BY <1>2 DEF WorkOK
  <2>4. w.creds # None => Genuine(w.creds, Append(tokens, x))
    BY <1>2, <2>2, GenuineKept DEF WorkOK
  <2>5. w.stage = "save" => FileOK(w.file, Append(tokens, x))
    BY <1>2, FileKept DEF WorkOK
  <2> QED BY <1>2, <2>3, <2>4, <2>5 DEF WorkOK
<1> QED BY <1>1, <1>2

\* A token handed out with credentials that are not near their expiry.
LEMMA HandsFresh ==
    ASSUME CredInv, NEW c \in Credential, Genuine(c, issued),
           now + renewalWindow <= c.expiresAt, Hand(c.token)
    PROVE  HandedOK' /\ BearerFresh'
<1> DEFINE t == c.token
<1>1. /\ t \in 1..Len(issued) /\ c.expiresAt \in Nat
      /\ issued[t].life \in Nat /\ issued[t].life \in Lifetimes /\ issued[t].until \in Nat
      /\ issued[t].until <= now + issued[t].life /\ now \in Nat
      /\ issued[t].life >= floor => c.expiresAt = issued[t].until
  <2>1. t \in 1..Len(issued) /\ c.expiresAt \in Nat
    BY Params DEF Genuine, Credential, Tokens, CredInv, TypeInv
  <2>2. issued[t] \in Token /\ now \in Nat
    BY <2>1, Params DEF CredInv, TypeInv
  <2>3. issued[t].until <= now + issued[t].life
    BY <2>1 DEF CredInv, IssuedBefore
  <2> QED BY <2>1, <2>2, <2>3, Params DEF Genuine, Token
<1>2. handed' = [life |-> issued[t].life, left |-> Max(issued[t].until, now) - now]
  BY DEF Hand
<1> HIDE DEF t
<1>3. Max(issued[t].until, now) - now \in 0..issued[t].life
  BY <1>1 DEF Max
<1>4. issued[t].life >= floor => Max(issued[t].until, now) - now >= renewalWindow
  BY <1>1 DEF Max, renewalWindow
<1> QED BY <1>1, <1>2, <1>3, <1>4 DEF HandedOK, BearerFresh

\* A step of one process, while the clock stands still.
LEMMA ProcStep ==
    ASSUME CredInv, NEW p \in Procs, NEW w \in Work \cup {Idle},
           now' = now, proc' = [proc EXCEPT ![p] = w],
           issued' = issued \/ \E j \in Issuers, life \in Lifetimes : Issue(j, life),
           WorkOK(w, issued', now), store' \in File, FileOK(store', issued'),
           consumed' \subseteq Tokens, told' \subseteq 0..MaxTokens,
           session' \in [Issuers -> {"none", "in", "out"}], settled' \subseteq Issuers,
           HandedOK', BearerFresh'
    PROVE  CredInv'
<1>1. CASE issued' = issued
  <2>1. TypeInv' /\ IssuedBefore'
    BY <1>1 DEF CredInv, TypeInv, IssuedBefore
  <2>2. \A q \in Procs : WorkOK(proc'[q], issued', now')
    BY <1>1 DEF CredInv, TypeInv
  <2> QED BY <2>1, <2>2 DEF CredInv
<1>2. ASSUME NEW j \in Issuers, NEW life \in Lifetimes, Issue(j, life) PROVE CredInv'
  <2> DEFINE x == [issuer |-> MetaIssuer[j], life |-> life, until |-> now + life]
  <2>1. /\ x \in Token /\ issued' = Append(issued, x) /\ issued \in Seq(Token)
        /\ Len(issued) < MaxTokens /\ MaxTokens \in Nat /\ now \in Nat
    BY <1>2, Params DEF Issue, Token, CredInv, TypeInv
  <2>2. x.until <= now + x.life
    BY <2>1, Params
  <2> HIDE DEF x
  <2>3. issued' \in Seq(Token) /\ Len(issued') = Len(issued) + 1
        /\ \A t \in 1..Len(issued) : issued'[t] = issued[t]
        /\ issued'[Len(issued) + 1] = x /\ Len(issued) \in Nat
    BY <2>1
  <2>4. TypeInv'
    BY <2>1, <2>3 DEF CredInv, TypeInv
  <2>5. IssuedBefore'
    <3> SUFFICES ASSUME NEW t \in 1..(Len(issued) + 1)
                 PROVE  issued'[t].until <= now + issued'[t].life
      BY <2>3 DEF IssuedBefore
    <3>1. CASE t = Len(issued) + 1
      <4>1. issued'[t] = x
        BY <2>1, <2>3, <3>1
      <4> QED BY <2>2, <4>1
    <3>2. CASE t # Len(issued) + 1
      BY <2>3, <3>2 DEF CredInv, IssuedBefore
    <3> QED BY <3>1, <3>2
  <2>6. ASSUME NEW q \in Procs PROVE WorkOK(proc'[q], issued', now')
    <3>1. CASE q = p
      BY <3>1 DEF CredInv, TypeInv
    <3>2. CASE q # p
      <4>1. proc'[q] = proc[q] /\ proc[q] \in Work \cup {Idle} /\ WorkOK(proc[q], issued, now)
        BY <3>2 DEF CredInv, TypeInv
      <4> QED BY <2>1, <4>1, WorkKept
    <3> QED BY <3>1, <3>2
  <2> QED BY <2>4, <2>5, <2>6 DEF CredInv
<1> QED BY <1>1, <1>2

\* What credsFromTokenResponse makes is genuine, fresh and under the issuer
\* its metadata names.
LEMMA NewCredentials ==
    ASSUME CredInv, NEW i \in Issuers, NEW life \in Lifetimes, NEW r \in BOOLEAN,
           Issue(i, life)
    PROVE  LET c == credsFromTokenResponse(i, life, r)
           IN  /\ c \in Credential /\ c # None
               /\ c.issuer = MetaIssuer[i] /\ c.token = Len(issued) + 1
               /\ c.refresh \in {0, c.token}
               /\ Genuine(c, issued')
               /\ now + renewalWindow <= c.expiresAt
<1> DEFINE t == Len(issued) + 1
           c == credsFromTokenResponse(i, life, r)
           x == [issuer |-> MetaIssuer[i], life |-> life, until |-> now + life]
<1>1. t \in Tokens /\ now \in Nat /\ life \in Nat /\ issued \in Seq(Token)
      /\ x \in Token /\ MaxTokens \in Nat
  BY Params DEF Issue, CredInv, TypeInv, Tokens, Token
<1>2. c = [issuer |-> MetaIssuer[i], token |-> t,
           refresh |-> IF r THEN t ELSE 0, expiresAt |-> now + Max(life, floor)]
  BY DEF credsFromTokenResponse
<1>3. Max(life, floor) \in Nat /\ Max(life, floor) >= renewalWindow
      /\ (life >= floor => Max(life, floor) = life)
  BY <1>1 DEF Max, floor, renewalWindow
<1>4. issued' = Append(issued, x)
  BY DEF Issue
<1>5. issued'[t] = x /\ Len(issued') = t
  BY <1>1, <1>4
<1> HIDE DEF c
<1>6. c \in Credential
  BY <1>1, <1>2, <1>3, Params DEF Credential, Tokens
<1>7. Genuine(c, issued')
  BY <1>1, <1>2, <1>3, <1>5, Params DEF Genuine, floor, renewalWindow
<1>8. now + renewalWindow <= c.expiresAt
  BY <1>1, <1>2, <1>3 DEF renewalWindow
<1>9. c.issuer = MetaIssuer[i] /\ c.token = t /\ c.refresh \in {0, t}
  BY <1>2
<1> QED BY <1>6, <1>7, <1>8, <1>9, NoneIsNoCredential DEF c

----------------------------------------------------------------------------
(* Every action keeps CredInv.                                             *)

\* Nothing is handed out.
LEMMA NothingHanded ==
    ASSUME handed' = None
    PROVE  HandedOK' /\ BearerFresh'
BY DEF HandedOK, BearerFresh

\* A process begins a command, or goes on with what the server gave it.
LEMMA DoingStep ==
    ASSUME CredInv, NEW p \in Procs, NEW op \in {"login", "logout", "bearer"},
           NEW stage \in {"get", "load"}, NEW i \in Issuers,
           NEW c \in Credential \cup {None}, NEW old \in 0..MaxTokens,
           proc' = [proc EXCEPT ![p] = Doing(op, stage, i, c, old)],
           IF op = "bearer"
           THEN old \in 1..Len(issued') /\ issued'[old].issuer = i
           ELSE old = 0 /\ stage # "get",
           stage = "get" => c = None,
           stage = "load" /\ op # "logout" => c # None,
           c # None => Genuine(c, issued') /\ now + renewalWindow <= c.expiresAt
                       /\ c.issuer = MetaIssuer[i],
           issued' = issued \/ \E j \in Issuers, life \in Lifetimes : Issue(j, life),
           consumed' \subseteq Tokens,
           UNCHANGED <<now, store, told, session, settled>>, handed' = None
    PROVE  CredInv'
<1> DEFINE w == Doing(op, stage, i, c, old)
<1>1. w \in Work
  BY DEF Doing, Work
<1>2. w.op = op /\ w.stage = stage /\ w.creds = c /\ w.old = old /\ w.issuer = i
  BY DEF Doing
<1> HIDE DEF w
<1>3. WorkOK(w, issued', now)
  BY <1>2 DEF WorkOK
<1>4. FileOK(store', issued') /\ store' \in File
  <2>1. CASE issued' = issued
    BY <2>1 DEF CredInv, TypeInv
  <2>2. ASSUME NEW j \in Issuers, NEW life \in Lifetimes, Issue(j, life)
        PROVE  FileOK(store, issued')
    <3>1. [issuer |-> MetaIssuer[j], life |-> life, until |-> now + life] \in Token
      BY Params DEF Token, CredInv, TypeInv
    <3> QED BY <2>2, <3>1, FileKept DEF Issue, CredInv, TypeInv
  <2> QED BY <2>1, <2>2 DEF CredInv, TypeInv
<1>5. told' \subseteq 0..MaxTokens /\ session' \in [Issuers -> {"none", "in", "out"}]
      /\ settled' \subseteq Issuers
  BY DEF CredInv, TypeInv
<1>6. proc' = [proc EXCEPT ![p] = w]
  BY DEF w
<1> QED BY <1>1, <1>3, <1>4, <1>5, <1>6, NothingHanded, ProcStep

\* Login has a token.
LEMMA LoginStep ==
    ASSUME CredInv, NEW p \in Procs, NEW i \in Issuers, NEW life \in Lifetimes,
           NEW r \in BOOLEAN, Login(p, i, life, r)
    PROVE  CredInv'
<1> DEFINE c == credsFromTokenResponse(i, life, r)
<1>1. Issue(i, life) /\ proc' = [proc EXCEPT ![p] = Doing("login", "load", i, c, 0)]
      /\ UNCHANGED <<now, store, consumed, told, session, settled>> /\ handed' = None
  BY DEF Login
<1>2. c \in Credential /\ c # None /\ Genuine(c, issued') /\ c.issuer = MetaIssuer[i]
      /\ now + renewalWindow <= c.expiresAt
  BY <1>1, NewCredentials
<1>3. consumed' \subseteq Tokens /\ 0 \in 0..MaxTokens
  BY <1>1, Params DEF CredInv, TypeInv
<1> HIDE DEF c
<1> QED BY <1>1, <1>2, <1>3, DoingStep

\* Logout begins.
LEMMA LogoutStep ==
    ASSUME CredInv, NEW p \in Procs, NEW i \in Issuers, Logout(p, i)
    PROVE  CredInv'
<1>1. consumed' \subseteq Tokens /\ 0 \in 0..MaxTokens
  BY Params DEF Logout, CredInv, TypeInv
<1> QED BY <1>1, DoingStep DEF Logout

\* BearerToken finds credentials: it hands them out, or goes on to refresh them.
LEMMA BearerTokenStep ==
    ASSUME CredInv, NEW p \in Procs, NEW i \in Issuers, BearerToken(p, i)
    PROVE  CredInv'
<1> DEFINE c == store[i]
<1>1. /\ c # None /\ c \in Credential /\ Genuine(c, issued)
      /\ c.issuer = i
      /\ UNCHANGED <<now, store, issued, consumed, told, session, settled>>
  BY DEF BearerToken, CredInv, TypeInv, File, FileOK
<1>2. c.expiresAt \in Nat /\ c.refresh \in 0..MaxTokens /\ now \in Nat
  BY <1>1 DEF Credential, CredInv, TypeInv
<1>3. CASE Expired(c)
  <2>1. c.refresh # 0 /\ handed' = None
        /\ proc' = [proc EXCEPT ![p] = Doing("bearer", "get", i, None, c.refresh)]
    BY <1>3 DEF BearerToken
  <2>2. consumed' \subseteq Tokens
    BY <1>1 DEF CredInv, TypeInv
  <2> HIDE DEF c
  <2>3. c.refresh \in 1..Len(issued') /\ issued'[c.refresh].issuer = i
    BY <1>1, <1>2, <2>1, Params DEF Genuine, Credential, Tokens
  <2> QED BY <1>1, <1>2, <2>1, <2>2, <2>3, DoingStep
<1>4. CASE ~Expired(c)
  <2>1. Hand(c.token) /\ proc' = proc
    BY <1>4 DEF BearerToken
  <2>2. now + renewalWindow <= c.expiresAt
    BY <1>2, <1>4 DEF Expired, renewalWindow
  <2> HIDE DEF c
  <2>3. HandedOK' /\ BearerFresh'
    BY <1>1, <2>1, <2>2, HandsFresh
  <2> QED BY <1>1, <2>1, <2>3 DEF CredInv, TypeInv, IssuedBefore
<1> QED BY <1>3, <1>4

\* What a busy process holds.
LEMMA BusyHolds ==
    ASSUME CredInv, NEW p \in Procs, Busy(p)
    PROVE  proc[p] \in Work /\ WorkOK(proc[p], issued, now)
BY DEF CredInv, TypeInv, Busy, Idle

\* What the server no longer accepts is a token it issued to somebody.
LEMMA AcceptStep ==
    ASSUME CredInv, NEW p \in Procs, Busy(p), proc[p].stage = "get",
           Accept(p) \/ UNCHANGED consumed
    PROVE  consumed' \subseteq Tokens
<1>1. proc[p].old \in 0..MaxTokens /\ proc[p].old # 0
  BY BusyHolds DEF WorkOK, Work, Busy
<1>2. proc[p].old \in Tokens
  BY <1>1, Params DEF Tokens
<1> QED BY <1>2 DEF Accept, CredInv, TypeInv

\* A refresh succeeds.
LEMMA RefreshStep ==
    ASSUME CredInv, NEW p \in Procs, NEW life \in Lifetimes, NEW r \in BOOLEAN,
           refreshToken(p, life, r)
    PROVE  CredInv'
<1> DEFINE i == proc[p].issuer
           old == proc[p].old
           c == credsFromTokenResponse(i, life, r)
<1>1. /\ Issue(i, life) /\ Accept(p) /\ At(p, "bearer", "get")
      /\ proc' = [proc EXCEPT ![p] = Doing("bearer", "load", i, c, old)]
      /\ UNCHANGED <<now, store, told, session, settled>> /\ handed' = None
  BY DEF refreshToken
<1>2. Busy(p) /\ proc[p].stage = "get"
  BY <1>1 DEF At, Busy
<1>3. i \in Issuers /\ old \in 0..MaxTokens /\ consumed' \subseteq Tokens
      /\ old \in 1..Len(issued) /\ issued[old].issuer = i
  BY <1>1, <1>2, BusyHolds, AcceptStep DEF Work, WorkOK, At
<1> HIDE DEF i, old
<1>4. c \in Credential /\ c # None /\ Genuine(c, issued') /\ c.issuer = MetaIssuer[i]
      /\ now + renewalWindow <= c.expiresAt
  BY <1>1, <1>3, NewCredentials
<1>5. old \in 1..Len(issued') /\ issued'[old].issuer = i
  BY <1>1, <1>3 DEF Issue, CredInv, TypeInv
<1> HIDE DEF c
<1> QED BY <1>1, <1>3, <1>4, <1>5, DoingStep

\* A process ends.
LEMMA IdleStep ==
    ASSUME CredInv, NEW p \in Procs, proc' = [proc EXCEPT ![p] = Idle],
           store' \in File, FileOK(store', issued), consumed' \subseteq Tokens,
           told' \subseteq 0..MaxTokens,
           session' \in [Issuers -> {"none", "in", "out"}], settled' \subseteq Issuers,
           UNCHANGED <<now, issued>>, HandedOK', BearerFresh'
    PROVE  CredInv'
<1>1. WorkOK(Idle, issued', now)
  BY DEF WorkOK, Idle
<1> QED BY <1>1, ProcStep

\* A refresh fails, or the process is killed.
LEMMA GivesUpStep ==
    ASSUME CredInv, NEW p \in Procs, RefreshFails(p) \/ Crash(p)
    PROVE  CredInv'
<1>1. Busy(p) /\ proc' = [proc EXCEPT ![p] = Idle] /\ UNCHANGED <<now, store, issued, session, settled>>
      /\ handed' = None /\ told' \subseteq told \cup {proc[p].old}
  BY DEF RefreshFails, Crash, At, Busy
<1>2. consumed' \subseteq Tokens
  <2>1. CASE UNCHANGED consumed
    BY <2>1 DEF CredInv, TypeInv
  <2>2. CASE ~UNCHANGED consumed
    <3>1. Accept(p) /\ proc[p].stage = "get"
      BY <2>2 DEF RefreshFails, Crash, At
    <3> QED BY <1>1, <3>1, AcceptStep
  <2> QED BY <2>1, <2>2
<1>3. told' \subseteq 0..MaxTokens
  BY <1>1, BusyHolds DEF Work, CredInv, TypeInv
<1> QED BY <1>1, <1>2, <1>3, NothingHanded, IdleStep DEF CredInv, TypeInv

\* The file is read.
LEMMA LoadStep ==
    ASSUME CredInv, NEW p \in Procs, Load(p)
    PROVE  CredInv'
<1> DEFINE w == [proc[p] EXCEPT !.stage = "save", !.file = store]
<1>1. Busy(p) /\ proc[p].stage = "load"
      /\ UNCHANGED <<now, store, issued, consumed, told, session, settled>> /\ handed' = None
  BY DEF Load
<1>2. proc' = [proc EXCEPT ![p] = w]
  BY DEF Load, CredInv, TypeInv
<1>3. proc[p] \in Work /\ WorkOK(proc[p], issued, now)
  BY <1>1, BusyHolds
<1>4. w \in Work /\ w.op = proc[p].op /\ w.stage = "save" /\ w.creds = proc[p].creds
      /\ w.file = store /\ w.old = proc[p].old /\ proc[p].op # "idle"
      /\ w.issuer = proc[p].issuer
  BY <1>3 DEF Work, CredInv, TypeInv
<1> HIDE DEF w
<1>5. WorkOK(w, issued', now)
  BY <1>1, <1>3, <1>4 DEF WorkOK, CredInv, TypeInv
<1> QED BY <1>1, <1>2, <1>4, <1>5, NothingHanded, ProcStep DEF CredInv, TypeInv

\* The end of a Put hands out a fresh token, if it hands one out.
LEMMA FinishStep ==
    ASSUME CredInv, NEW p \in Procs, Busy(p), proc[p].stage # "get", Finish(p)
    PROVE  HandedOK' /\ BearerFresh' /\ proc' = [proc EXCEPT ![p] = Idle]
<1>1. proc[p] \in Work /\ WorkOK(proc[p], issued, now) /\ proc[p].op # "idle"
  BY BusyHolds DEF Busy
<1>2. CASE proc[p].op = "bearer"
  <2>1. Hand(proc[p].creds.token) /\ proc[p].creds # None
    BY <1>1, <1>2 DEF Finish, WorkOK
  <2>2. proc[p].creds \in Credential /\ Genuine(proc[p].creds, issued)
        /\ now + renewalWindow <= proc[p].creds.expiresAt
    BY <1>1, <2>1 DEF WorkOK, Work
  <2> QED BY <2>1, <2>2, HandsFresh DEF Finish
<1>3. CASE proc[p].op # "bearer"
  BY <1>3, NothingHanded DEF Finish
<1> QED BY <1>2, <1>3

\* A good file with one entry replaced or removed is good.
LEMMA EntryWritten ==
    ASSUME NEW f \in File, NEW tokens, FileOK(f, tokens), NEW i \in Issuers,
           NEW c \in Credential \cup {None}, c # None => c.issuer = i /\ Genuine(c, tokens)
    PROVE  [f EXCEPT ![i] = c] \in File /\ FileOK([f EXCEPT ![i] = c], tokens)
<1> DEFINE g == [f EXCEPT ![i] = c]
<1>1. g \in File /\ g[i] = c /\ \A j \in Issuers : j # i => g[j] = f[j]
  BY DEF File
<1> HIDE DEF g
<1>2. FileOK(g, tokens)
  BY <1>1 DEF FileOK
<1> QED BY <1>1, <1>2 DEF g

\* Put and Delete write the entry of an issuer.
LEMMA KeyIsIssuer ==
    ASSUME CredInv, NEW p \in Procs, Busy(p), proc[p].stage = "save"
    PROVE  /\ KeyOf(proc[p]) \in Issuers
           /\ proc[p].op # "logout" => KeyOf(proc[p]) = MetaIssuer[proc[p].issuer]
<1>1. proc[p] \in Work /\ WorkOK(proc[p], issued, now) /\ proc[p].op # "idle"
  BY BusyHolds DEF Busy
<1>2. proc[p].issuer \in Issuers
      /\ (proc[p].op # "logout" => proc[p].creds.issuer = MetaIssuer[proc[p].issuer])
  BY <1>1 DEF WorkOK, Work
<1> QED BY <1>2, Params DEF KeyOf

\* The new file holds what the one that was read held, and the new entry.
LEMMA WrittenOK ==
    ASSUME CredInv, NEW p \in Procs, Busy(p), proc[p].stage = "save"
    PROVE  Written(proc[p]) \in File /\ FileOK(Written(proc[p]), issued)
<1>1. proc[p] \in Work /\ WorkOK(proc[p], issued, now) /\ proc[p].op # "idle"
  BY BusyHolds DEF Busy
<1>2. /\ proc[p].file \in File /\ FileOK(proc[p].file, issued) /\ proc[p].issuer \in Issuers
      /\ proc[p].op # "logout" =>
           proc[p].creds \in Credential /\ Genuine(proc[p].creds, issued)
  BY <1>1 DEF WorkOK, Work
<1>3. CASE proc[p].op = "logout"
  BY <1>2, <1>3, EntryWritten DEF Written
<1>4. CASE proc[p].op # "logout"
  <2>1. proc[p].creds.issuer \in Issuers
    BY <1>2, <1>4 DEF Credential
  <2> QED BY <1>2, <1>4, <2>1, EntryWritten DEF Written
<1> QED BY <1>3, <1>4

\* The file is written, or cannot be.
LEMMA PutStep ==
    ASSUME CredInv, NEW p \in Procs, Save(p) \/ PutFails(p)
    PROVE  CredInv'
<1>1. Busy(p) /\ proc[p].stage # "get" /\ Finish(p) /\ UNCHANGED <<now, issued, consumed>>
  BY DEF Save, PutFails
<1>2. HandedOK' /\ BearerFresh' /\ proc' = [proc EXCEPT ![p] = Idle]
  BY <1>1, FinishStep
<1>3. store' \in File /\ FileOK(store', issued)
  BY <1>1, WrittenOK DEF Save, PutFails, CredInv, TypeInv
<1>4. told' \subseteq 0..MaxTokens
  BY <1>1, BusyHolds DEF Save, PutFails, Reported, CredInv, TypeInv, Work
<1>5. session' \in [Issuers -> {"none", "in", "out"}]
  <2>1. session \in [Issuers -> {"none", "in", "out"}]
    BY DEF CredInv, TypeInv
  <2>2. CASE Save(p)
    <3>1. \E x \in {"none", "in", "out"} : session' = [session EXCEPT ![KeyOf(proc[p])] = x]
          \/ session' = session
      BY <2>1, <2>2 DEF Save
    <3> QED BY <2>1, <3>1
  <2>3. CASE PutFails(p)
    BY <2>1, <2>3 DEF PutFails
  <2> QED BY <2>2, <2>3
<1>6. consumed' \subseteq Tokens
  BY <1>1 DEF CredInv, TypeInv
<1>7. settled' \subseteq Issuers
  <2>1. CASE Save(p)
    <3>1. KeyOf(proc[p]) \in Issuers
      BY <1>1, <2>1, KeyIsIssuer DEF Save
    <3>2. settled' \subseteq settled \cup {KeyOf(proc[p])}
      BY <2>1 DEF Save
    <3> QED BY <3>1, <3>2 DEF CredInv, TypeInv
  <2>2. CASE PutFails(p)
    BY <2>2 DEF PutFails, CredInv, TypeInv
  <2> QED BY <2>1, <2>2
<1> QED BY <1>1, <1>2, <1>3, <1>4, <1>5, <1>6, <1>7, IdleStep

\* Time passes only while nobody has fresh credentials in hand.
LEMMA TickStep ==
    ASSUME CredInv, Tick
    PROVE  CredInv'
<1>1. /\ now' = now + 1 /\ now < MaxTime /\ now \in Nat /\ handed' = None
      /\ UNCHANGED <<store, proc, issued, consumed, told, session, settled>>
      /\ \A p \in Procs : Busy(p) => proc[p].stage = "get"
  BY DEF Tick, CredInv, TypeInv
<1>2. TypeInv'
  BY <1>1, Params DEF CredInv, TypeInv
<1>3. IssuedBefore'
  <2> SUFFICES ASSUME NEW t \in 1..Len(issued)
               PROVE  issued[t].until <= now + 1 + issued[t].life
    BY <1>1 DEF IssuedBefore
  <2>1. issued[t] \in Token /\ issued[t].until <= now + issued[t].life
    BY DEF CredInv, TypeInv, IssuedBefore
  <2>2. issued[t].until \in Nat /\ issued[t].life \in Nat
    BY <2>1, Params DEF Token
  <2> QED BY <1>1, <2>1, <2>2
<1>4. \A p \in Procs : WorkOK(proc'[p], issued', now')
  BY <1>1 DEF CredInv, WorkOK, Busy
<1> QED BY <1>1, <1>2, <1>3, <1>4, NothingHanded DEF CredInv

\* Every step keeps CredInv, however many processes there are.
LEMMA CredStep ==
    ASSUME CredInv, [Next]_vars
    PROVE  CredInv'
<1>1. ASSUME NEW p \in Procs, NEW i \in Issuers, Logout(p, i) \/ BearerToken(p, i)
      PROVE  CredInv'
  BY <1>1, LogoutStep, BearerTokenStep
<1>2. ASSUME NEW p \in Procs, NEW i \in Issuers, NEW life \in Lifetimes, NEW r \in BOOLEAN,
             Login(p, i, life, r)
      PROVE  CredInv'
  BY <1>2, LoginStep
<1>3. ASSUME NEW p \in Procs, NEW life \in Lifetimes, NEW r \in BOOLEAN,
             refreshToken(p, life, r)
      PROVE  CredInv'
  BY <1>3, RefreshStep
<1>4. ASSUME NEW p \in Procs,
             RefreshFails(p) \/ Load(p) \/ Save(p) \/ PutFails(p) \/ Crash(p)
      PROVE  CredInv'
  BY <1>4, GivesUpStep, LoadStep, PutStep
<1>5. CASE Tick
  BY <1>5, TickStep
<1>6. CASE UNCHANGED vars
  BY <1>6 DEF vars, CredInv, TypeInv, IssuedBefore, HandedOK, BearerFresh
<1> QED BY <1>1, <1>2, <1>3, <1>4, <1>5, <1>6 DEF Next

----------------------------------------------------------------------------
(* Every action keeps StoreInv.                                            *)

\* The tokens of a good file were issued.
LEMMA FileTokens ==
    ASSUME NEW f \in File, NEW tokens \in Seq(Token), FileOK(f, tokens), NEW t, In(f, t)
    PROVE  t \in 1..Len(tokens)
BY Params DEF In, FileOK, File, Genuine, Credential, Tokens

\* So was every token that was ever used, but for the 0 of who sends none,
\* and the token of credentials in hand.
LEMMA UsedIssued ==
    ASSUME StoreInv
    PROVE  /\ Len(issued) \in Nat
           /\ \A t : Used(t) => t \in 0..Len(issued)
           /\ \A p \in Procs : Holding(p) => proc[p].creds.token \in 1..Len(issued)
<1>1. /\ CredInv /\ issued \in Seq(Token) /\ Len(issued) \in Nat /\ store \in File
      /\ FileOK(store, issued) /\ consumed \subseteq Tokens
      /\ \A t \in consumed : t <= Len(issued)
  BY DEF StoreInv, CredInv, TypeInv
<1>2. ASSUME NEW t, Used(t) PROVE t \in 0..Len(issued)
  <2>1. CASE t \in consumed
    BY <1>1, <2>1, Params DEF Tokens
  <2>2. CASE In(store, t)
    BY <1>1, <2>2, FileTokens
  <2>3. ASSUME NEW q \in Procs, Busy(q),
               proc[q].old = t \/ (proc[q].stage = "save" /\ In(proc[q].file, t))
        PROVE  t \in 0..Len(issued)
    <3>1. proc[q] \in Work /\ WorkOK(proc[q], issued, now) /\ proc[q].op # "idle"
      BY <1>1, <2>3, BusyHolds DEF Busy
    <3>2. proc[q].old \in 0..Len(issued)
      BY <1>1, <3>1 DEF WorkOK
    <3>3. proc[q].stage = "save" => proc[q].file \in File /\ FileOK(proc[q].file, issued)
      BY <3>1 DEF WorkOK
    <3> QED BY <1>1, <2>3, <3>2, <3>3, FileTokens
  <2> QED BY <1>2, <2>1, <2>2, <2>3 DEF Used
<1>3. ASSUME NEW p \in Procs, Holding(p) PROVE proc[p].creds.token \in 1..Len(issued)
  <2>1. proc[p] \in Work /\ WorkOK(proc[p], issued, now) /\ proc[p].op # "idle"
        /\ proc[p].creds # None
    BY <1>1, <1>3, BusyHolds DEF Busy, Holding
  <2>2. proc[p].creds \in Credential /\ Genuine(proc[p].creds, issued)
    BY <2>1 DEF WorkOK, Work
  <2> QED BY <1>1, <2>2, Params DEF Genuine, Credential, Tokens
<1> QED BY <1>1, <1>2, <1>3

\* Process p goes on to do w, and leaves the store alone: it uses no token but
\* one that was used before, gets no credentials but those of a new token,
\* refreshes only credentials that are in the store, and gives up a token it
\* has sent to the server only when it reports it.
QuietStep(p, w) ==
    /\ proc' = [proc EXCEPT ![p] = w]
    /\ UNCHANGED <<store, session, settled>>
    /\ told \subseteq told'
    /\ Len(issued) <= Len(issued')
    /\ consumed' = consumed \/ (Busy(p) /\ consumed' \subseteq consumed \cup {proc[p].old})
    /\ w.op # "idle" =>
         /\ w.old = 0 \/ Used(w.old)
         /\ w.stage = "save" => w.file = store
         /\ w.creds # None => \/ Busy(p) /\ w.creds = proc[p].creds
                              \/ w.creds.token = Len(issued) + 1
    /\ w.op = "bearer" =>
         \/ store[w.issuer] # None
         \/ Busy(p) /\ proc[p].op = "bearer" /\ w.issuer = proc[p].issuer
    /\ Busy(p) /\ proc[p].old # 0 =>
         proc[p].old \in told' \/ (w.op # "idle" /\ w.old = proc[p].old)

\* What such a step uses was used before.
LEMMA QuietUses ==
    ASSUME StoreInv, NEW p \in Procs, NEW w, QuietStep(p, w), NEW t, t # 0, Used(t)'
    PROVE  Used(t)
<1>1. proc'[p] = w /\ \A q \in Procs \ {p} : proc'[q] = proc[q]
  BY DEF QuietStep, StoreInv, CredInv, TypeInv
<1>2. CASE t \in consumed'
  BY <1>2 DEF QuietStep, Used
<1>3. CASE In(store', t)
  BY <1>3 DEF QuietStep, Used
<1>4. ASSUME NEW q \in Procs, Busy(q)',
             proc'[q].old = t \/ (proc'[q].stage = "save" /\ In(proc'[q].file, t))
      PROVE  Used(t)
  <2>1. CASE q = p
    <3>1. w.op # "idle" /\ (w.old = t \/ (w.stage = "save" /\ In(w.file, t)))
      BY <1>1, <1>4, <2>1 DEF Busy
    <3>2. CASE w.old = t
      BY <3>1, <3>2 DEF QuietStep
    <3>3. CASE w.stage = "save" /\ In(w.file, t)
      BY <3>1, <3>3 DEF QuietStep, Used
    <3> QED BY <3>1, <3>2, <3>3
  <2>2. CASE q # p
    BY <1>1, <1>4, <2>2 DEF Busy, Used
  <2> QED BY <2>1, <2>2
<1>5. \/ t \in consumed'
      \/ In(store', t)
      \/ \E q \in Procs : Busy(q)' /\ \/ proc'[q].old = t
                                      \/ proc'[q].stage = "save" /\ In(proc'[q].file, t)
  BY DEF Used, In
<1> QED BY <1>2, <1>3, <1>4, <1>5

\* Such a step leaves the credentials in hand unused.
LEMMA QuietUnused ==
    ASSUME StoreInv, NEW p \in Procs, NEW w, QuietStep(p, w)
    PROVE  Unused'
<1>1. proc'[p] = w /\ \A q \in Procs \ {p} : proc'[q] = proc[q]
  BY DEF QuietStep, StoreInv, CredInv, TypeInv
<1> DEFINE new == Len(issued) + 1
<1>2. new # 0 /\ new \notin 0..Len(issued)
  BY UsedIssued
<1>3. ASSUME NEW q \in Procs, Holding(q)'
      PROVE  \/ Holding(q) /\ proc'[q].creds = proc[q].creds
             \/ q = p /\ proc'[q].creds.token = new
  BY <1>1, <1>3 DEF QuietStep, Holding, Busy
<1>4. ASSUME NEW q \in Procs, Holding(q)'
      PROVE  proc'[q].creds.token # 0 /\ ~Used(proc'[q].creds.token)
  BY <1>2, <1>3, <1>4, UsedIssued DEF StoreInv, Unused
<1>5. ASSUME NEW q \in Procs, NEW o \in Procs \ {q}, Holding(q)', Holding(o)'
      PROVE  proc'[o].creds.token # proc'[q].creds.token
  <2> HIDE DEF new
  <2>1. Holding(q) /\ Holding(o) /\ proc'[q].creds = proc[q].creds
        /\ proc'[o].creds = proc[o].creds => proc'[o].creds.token # proc'[q].creds.token
    BY <1>5 DEF StoreInv, Unused
  <2>2. \A k \in Procs : Holding(k) => proc[k].creds.token # new
    BY <1>2, UsedIssued
  <2> QED BY <1>3, <1>5, <2>1, <2>2
<1> QED BY <1>4, <1>5, QuietUses DEF Unused

\* Such a step leaves what is promised of the store.
LEMMA QuietKeeps ==
    ASSUME StoreInv, CredInv', NEW p \in Procs, NEW w, QuietStep(p, w)
    PROVE  StoreInv'
<1>1. proc'[p] = w /\ \A q \in Procs \ {p} : proc'[q] = proc[q]
  BY DEF QuietStep, StoreInv, CredInv, TypeInv
<1>2. CopiesAgree'
  BY <1>1 DEF QuietStep, StoreInv, CopiesAgree, Busy
<1>3. NoneRefreshed'
  BY <1>1 DEF QuietStep, StoreInv, NoneRefreshed, LogoutForgets, Busy
<1>4. LogoutForgets' /\ LoginServesPublish'
  BY DEF QuietStep, StoreInv, LogoutForgets, LoginServesPublish
<1>5. ASSUME NEW t \in consumed' PROVE t <= Len(issued') /\ t # 0
  <2>1. t \in Nat /\ t # 0 /\ Len(issued') \in Nat /\ Len(issued) \in Nat
    BY <1>5, Params DEF StoreInv, CredInv, TypeInv, Tokens
  <2>2. Used(t)
    BY <1>5, <2>1 DEF QuietStep, Used
  <2>3. t \in 0..Len(issued)
    BY <2>2, UsedIssued
  <2> QED BY <2>1, <2>3 DEF QuietStep
<1>6. ConsumedIsVisible'
  <2> SUFFICES ASSUME NEW i \in settled, MetaIssuer[i] = i, store[i] # None,
                      store[i].refresh \in consumed'
               PROVE  \/ store[i].refresh \in told'
                      \/ \E q \in Procs : Busy(q)' /\ proc'[q].old = store[i].refresh
    BY DEF ConsumedIsVisible, QuietStep
  <2> DEFINE r == store[i].refresh
  <2>1. r \in told \/ \E q \in Procs : Busy(q) /\ proc[q].old = r
    BY DEF StoreInv, ConsumedIsVisible, QuietStep
  <2>2. r # 0
    BY <1>5
  <2>3. CASE r \in told
    BY <2>3 DEF QuietStep
  <2>4. ASSUME NEW q \in Procs \ {p}, Busy(q), proc[q].old = r
        PROVE  Busy(q)' /\ proc'[q].old = r
    BY <1>1, <2>4 DEF Busy
  <2>5. CASE Busy(p) /\ proc[p].old = r
    BY <1>1, <2>2, <2>5 DEF QuietStep, Busy
  <2> QED BY <2>1, <2>3, <2>4, <2>5
<1> QED BY <1>2, <1>3, <1>4, <1>5, <1>6, QuietUnused DEF StoreInv

\* The store, the processes and what the server knows of tokens stay.
LEMMA StillKeeps ==
    ASSUME StoreInv, CredInv',
           UNCHANGED <<store, proc, issued, consumed, told, session, settled>>
    PROVE  StoreInv'
BY DEF StoreInv, Unused, Used, In, Holding, Busy, CopiesAgree, KeyOf, NoneRefreshed,
       ConsumedIsVisible, LogoutForgets, LoginServesPublish

\* Login has a token to store.
LEMMA LoginKeeps ==
    ASSUME StoreInv, CredInv', NEW p \in Procs, NEW i \in Issuers, NEW life \in Lifetimes,
           NEW r \in BOOLEAN, Login(p, i, life, r)
    PROVE  StoreInv'
<1>1. CredInv /\ issued \in Seq(Token) /\ Len(issued) \in Nat /\ proc \in [Procs -> Work \cup {Idle}]
  BY DEF StoreInv, CredInv, TypeInv
<1> DEFINE c == credsFromTokenResponse(i, life, r)
           w == Doing("login", "load", i, c, 0)
<1>2. Issue(i, life) /\ ~Busy(p) /\ proc' = [proc EXCEPT ![p] = w]
      /\ UNCHANGED <<store, consumed, told, session, settled>>
  BY DEF Login
<1>3. c.token = Len(issued) + 1 /\ Len(issued') = Len(issued) + 1
  BY <1>1, <1>2, NewCredentials DEF Issue
<1> HIDE DEF c
<1>4. w.op = "login" /\ w.stage = "load" /\ w.old = 0 /\ w.creds = c
  BY DEF Doing
<1> HIDE DEF w
<1>5. QuietStep(p, w)
  BY <1>1, <1>2, <1>3, <1>4 DEF QuietStep
<1> QED BY <1>5, QuietKeeps

\* A refresh succeeds: the token on disk may be consumed, and is in the hands
\* of the process.
LEMMA RefreshKeeps ==
    ASSUME StoreInv, CredInv', NEW p \in Procs, NEW life \in Lifetimes, NEW r \in BOOLEAN,
           refreshToken(p, life, r)
    PROVE  StoreInv'
<1>1. CredInv /\ issued \in Seq(Token) /\ Len(issued) \in Nat /\ proc \in [Procs -> Work \cup {Idle}]
  BY DEF StoreInv, CredInv, TypeInv
<1> DEFINE j == proc[p].issuer
           old == proc[p].old
           c == credsFromTokenResponse(j, life, r)
           w == Doing("bearer", "load", j, c, old)
<1>2. Issue(j, life) /\ Busy(p) /\ proc[p].op = "bearer"
      /\ proc' = [proc EXCEPT ![p] = w] /\ Accept(p)
      /\ UNCHANGED <<store, told, session, settled>>
  BY DEF refreshToken, At, Busy
<1>3. j \in Issuers
  BY <1>1, <1>2, BusyHolds DEF Work
<1> HIDE DEF j
<1>4. c.token = Len(issued) + 1 /\ Len(issued') = Len(issued) + 1
  BY <1>1, <1>2, <1>3, NewCredentials DEF Issue
<1> HIDE DEF c
<1>5. w.op = "bearer" /\ w.stage = "load" /\ w.old = old /\ w.creds = c /\ w.issuer = j
  BY DEF Doing
<1> HIDE DEF w
<1>6. Used(old) /\ (consumed' = consumed \/ consumed' = consumed \cup {old})
  BY <1>2 DEF Used, Accept
<1>7. QuietStep(p, w)
  BY <1>1, <1>2, <1>4, <1>5, <1>6 DEF QuietStep, j
<1> QED BY <1>7, QuietKeeps

\* Logout begins; BearerToken finds credentials.
LEMMA BeginKeeps ==
    ASSUME StoreInv, CredInv', NEW p \in Procs, NEW i \in Issuers,
           Logout(p, i) \/ BearerToken(p, i)
    PROVE  StoreInv'
<1>1. CredInv /\ issued \in Seq(Token) /\ Len(issued) \in Nat /\ proc \in [Procs -> Work \cup {Idle}]
  BY DEF StoreInv, CredInv, TypeInv
<1>2. CASE Logout(p, i)
  <2> DEFINE w == Doing("logout", "load", i, None, 0)
  <2>1. w.op = "logout" /\ w.stage = "load" /\ w.old = 0 /\ w.creds = None
    BY DEF Doing
  <2>2. ~Busy(p) /\ proc' = [proc EXCEPT ![p] = w]
        /\ UNCHANGED <<store, issued, consumed, told, session, settled>>
    BY <1>2 DEF Logout
  <2> HIDE DEF w
  <2>3. QuietStep(p, w)
    BY <1>1, <2>1, <2>2 DEF QuietStep
  <2> QED BY <2>3, QuietKeeps
<1>3. CASE BearerToken(p, i) /\ Expired(store[i])
  <2> DEFINE w == Doing("bearer", "get", i, None, store[i].refresh)
  <2>1. w.op = "bearer" /\ w.stage = "get" /\ w.old = store[i].refresh /\ w.creds = None
        /\ w.issuer = i
    BY DEF Doing
  <2>2. ~Busy(p) /\ proc' = [proc EXCEPT ![p] = w] /\ store[i] # None
        /\ UNCHANGED <<store, issued, consumed, told, session, settled>>
    BY <1>3 DEF BearerToken
  <2>3. store[i].refresh = 0 \/ In(store, store[i].refresh)
    BY <1>1, <2>2 DEF CredInv, FileOK, Genuine, In
  <2> HIDE DEF w
  <2>4. QuietStep(p, w)
    BY <1>1, <2>1, <2>2, <2>3 DEF QuietStep, Used
  <2> QED BY <2>4, QuietKeeps
<1>4. CASE BearerToken(p, i) /\ ~Expired(store[i])
  <2>1. UNCHANGED <<store, proc, issued, consumed, told, session, settled>>
    BY <1>4 DEF BearerToken
  <2> QED BY <2>1, StillKeeps
<1> QED BY <1>2, <1>3, <1>4

\* A process ends without having written: what it had consumed is reported.
LEMMA GivesUpKeeps ==
    ASSUME StoreInv, CredInv', NEW p \in Procs, RefreshFails(p) \/ Crash(p) \/ PutFails(p)
    PROVE  StoreInv'
<1>1. /\ Busy(p) /\ proc' = [proc EXCEPT ![p] = Idle]
      /\ UNCHANGED <<store, issued, session, settled>>
      /\ told \subseteq told'
      /\ proc[p].op = "bearer" => proc[p].old \in told'
      /\ consumed' = consumed \/ consumed' \subseteq consumed \cup {proc[p].old}
  BY DEF RefreshFails, Crash, PutFails, Finish, Reported, Accept, At, Busy
<1>2. proc[p].op # "bearer" => proc[p].old = 0
  BY <1>1, BusyHolds DEF StoreInv, WorkOK, Busy
<1>3. Idle.op = "idle" /\ Len(issued) \in Nat
  BY UsedIssued DEF Idle
<1>4. QuietStep(p, Idle)
  BY <1>1, <1>2, <1>3 DEF QuietStep
<1> QED BY <1>4, QuietKeeps

\* The file is read: it is the copy that the process will write over.
LEMMA LoadKeeps ==
    ASSUME StoreInv, CredInv', NEW p \in Procs, Load(p)
    PROVE  StoreInv'
<1> DEFINE w == [proc[p] EXCEPT !.stage = "save", !.file = store]
<1>1. Busy(p) /\ UNCHANGED <<store, issued, consumed, told, session, settled>>
  BY DEF Load
<1>2. CredInv /\ Len(issued) \in Nat /\ proc[p] \in Work
  <2>1. CredInv /\ Len(issued) \in Nat
    BY DEF StoreInv, CredInv, TypeInv
  <2> QED BY <1>1, <2>1, BusyHolds
<1>3. proc' = [proc EXCEPT ![p] = w]
  BY <1>2 DEF Load, CredInv, TypeInv
<1>4. w.op = proc[p].op /\ w.issuer = proc[p].issuer /\ w.creds = proc[p].creds
      /\ w.old = proc[p].old /\ w.file = store
  BY <1>2 DEF Work
<1> HIDE DEF w
<1>5. QuietStep(p, w)
  BY <1>1, <1>2, <1>4, <1>3 DEF QuietStep, Used, Busy
<1> QED BY <1>5, QuietKeeps

\* The file is written.  Of the settled issuers, only the one that the process
\* writes the entry of has another entry than before; and it is settled only
\* if nobody has a copy of the file at hand.
LEMMA SaveWrites ==
    ASSUME StoreInv, NEW p \in Procs, Save(p)
    PROVE  LET k == KeyOf(proc[p])
           IN  /\ k \in Issuers
               /\ settled' \subseteq settled \cup {k}
               /\ store'[k] = IF proc[p].op = "logout" THEN None ELSE proc[p].creds
               /\ \A i \in Issuers \ {k} : store'[i] = proc[p].file[i]
               /\ \A i \in settled \ {k} : store'[i] = store[i]
               /\ \A i \in Issuers \ {k} : session'[i] = session[i]
               /\ k \in settled' => \A q \in Procs \ {p} : ~Overlaps(q, p)
               /\ proc'[p] = Idle /\ \A q \in Procs \ {p} : proc'[q] = proc[q]
               /\ UNCHANGED <<issued, consumed, told>>
<1> DEFINE k == KeyOf(proc[p])
<1>1. /\ Busy(p) /\ proc[p].stage = "save" /\ store' = Written(proc[p]) /\ CredInv
      /\ proc' = [proc EXCEPT ![p] = Idle] /\ UNCHANGED <<issued, consumed, told>>
  BY DEF Save, Finish, StoreInv
<1>2. k \in Issuers /\ proc[p].file \in File
  BY <1>1, KeyIsIssuer, BusyHolds DEF WorkOK, Busy
<1>3. store' = [proc[p].file EXCEPT ![k] = IF proc[p].op = "logout" THEN None ELSE proc[p].creds]
  <2>1. CASE proc[p].op = "logout"
    BY <1>1, <2>1 DEF Written, KeyOf
  <2>2. CASE proc[p].op # "logout"
    BY <1>1, <2>2 DEF Written, KeyOf
  <2> QED BY <2>1, <2>2
<1>4. \A i \in settled \ {k} : proc[p].file[i] = store[i]
  BY <1>1 DEF StoreInv, CopiesAgree
<1>5. settled \subseteq Issuers /\ proc \in [Procs -> Work \cup {Idle}]
  BY <1>1 DEF CredInv, TypeInv
<1>6. \A i \in Issuers \ {k} : session'[i] = session[i]
  <2>1. \E x : session' = [session EXCEPT ![k] = x]
    BY DEF Save
  <2> QED BY <1>1, <2>1 DEF CredInv, TypeInv
<1>7. settled' \subseteq settled \cup {k}
      /\ (k \in settled' => \A q \in Procs \ {p} : ~Overlaps(q, p))
  BY DEF Save
<1> HIDE DEF k
<1>8. /\ store'[k] = IF proc[p].op = "logout" THEN None ELSE proc[p].creds
      /\ \A i \in Issuers \ {k} : store'[i] = proc[p].file[i]
  BY <1>2, <1>3 DEF File
<1>9. proc'[p] = Idle /\ \A q \in Procs \ {p} : proc'[q] = proc[q]
  BY <1>1, <1>5
<1> QED BY <1>1, <1>2, <1>4, <1>5, <1>6, <1>7, <1>8, <1>9 DEF k

LEMMA SaveKeeps ==
    ASSUME StoreInv, CredInv', NEW p \in Procs, Save(p)
    PROVE  StoreInv'
<1> DEFINE k == KeyOf(proc[p])
           c == proc[p].creds
           op == proc[p].op
<1>1. /\ k \in Issuers
      /\ settled' \subseteq settled \cup {k}
      /\ store'[k] = IF op = "logout" THEN None ELSE c
      /\ \A i \in Issuers \ {k} : store'[i] = proc[p].file[i]
      /\ \A i \in settled \ {k} : store'[i] = store[i]
      /\ \A i \in Issuers \ {k} : session'[i] = session[i]
      /\ k \in settled' => \A q \in Procs \ {p} : ~Overlaps(q, p)
      /\ proc'[p] = Idle /\ \A q \in Procs \ {p} : proc'[q] = proc[q]
      /\ UNCHANGED <<issued, consumed, told>>
  BY SaveWrites
<1>2. Busy(p) /\ proc[p].stage = "save" /\ CredInv /\ ~Busy(p)'
  BY <1>1 DEF Save, StoreInv, Busy, Idle
<1>3. proc[p] \in Work /\ WorkOK(proc[p], issued, now) /\ op # "idle"
  BY <1>2, BusyHolds DEF Busy
<1>4. /\ settled \subseteq Issuers /\ consumed \subseteq Tokens
      /\ session \in [Issuers -> {"none", "in", "out"}]
      /\ proc[p].issuer \in Issuers /\ op \in {"login", "logout", "bearer"}
  BY <1>2, <1>3 DEF CredInv, TypeInv, Work
<1>5. op # "logout" => /\ c # None /\ c \in Credential /\ Genuine(c, issued)
                       /\ k = MetaIssuer[proc[p].issuer]
  BY <1>2, <1>3, KeyIsIssuer DEF WorkOK, Work
<1>6. \A q \in Procs \ {p} : Busy(q)' <=> Busy(q)
  BY <1>1 DEF Busy
<1>7. session'[k] = IF op = "bearer" /\ proc[p].issuer = k THEN session[k]
                    ELSE IF op = "logout" THEN "out" ELSE "in"
  <2>1. session' = [session EXCEPT ![k] =
            IF op = "bearer" /\ proc[p].issuer = k THEN session[k]
            ELSE IF op = "logout" THEN "out" ELSE "in"]
    BY DEF Save
  <2> HIDE DEF k, op
  <2> QED BY <1>1, <1>4, <2>1
<1>8. op = "bearer" /\ proc[p].issuer = k /\ k \in settled' => k \in settled
  BY DEF Save
<1> HIDE DEF k, c
<1>9. Unused'
  <2> SUFFICES ASSUME NEW q \in Procs, Holding(q)'
               PROVE  /\ ~Used(proc[q].creds.token)'
                      /\ \A o \in Procs \ {q} : Holding(o)' =>
                            proc'[o].creds.token # proc'[q].creds.token
    BY DEF Unused
  <2>1. q # p /\ Holding(q) /\ proc'[q] = proc[q]
    BY <1>1, <1>2, <1>6 DEF Holding
  <2>2. \A o \in Procs \ {q} : Holding(o)' => Holding(o) /\ proc'[o] = proc[o]
    BY <1>1, <1>2, <1>6 DEF Holding
  <2> DEFINE t == proc[q].creds.token
  <2>3. ~Used(t) /\ \A o \in Procs \ {q} : Holding(o) => proc[o].creds.token # t
    BY <2>1 DEF StoreInv, Unused
  <2>4. ~In(store', t)
    <3> SUFFICES ASSUME NEW i \in Issuers, store'[i] # None, store'[i].token = t PROVE FALSE
      BY DEF In
    <3>1. CASE i = k
      <4>1. op # "logout" /\ store'[i] = c
        BY <1>1, <3>1
      <4>2. Holding(p) /\ c.token = t
        BY <1>2, <1>5, <4>1 DEF Holding, c
      <4> QED BY <2>1, <2>3, <4>2 DEF c
    <3>2. CASE i # k
      <4>1. In(proc[p].file, t)
        BY <1>1, <3>2 DEF In
      <4> QED BY <1>2, <2>3, <4>1 DEF Used
    <3> QED BY <3>1, <3>2
  <2>5. ASSUME NEW o \in Procs, Busy(o)',
               proc'[o].old = t \/ (proc'[o].stage = "save" /\ In(proc'[o].file, t))
        PROVE  FALSE
    <3>1. o # p /\ Busy(o) /\ proc'[o] = proc[o]
      BY <1>1, <1>2, <1>6, <2>5
    <3> QED BY <2>3, <2>5, <3>1 DEF Used
  <2>6. ~Used(t)'
    <3>1. t \notin consumed'
      BY <1>1, <2>3 DEF Used
    <3>2. t' = t
      BY <1>1, <2>1
    <3> QED BY <2>1, <2>4, <2>5, <3>1, <3>2 DEF Used, In
  <2> QED BY <2>1, <2>2, <2>3, <2>6
<1>10. CopiesAgree'
  <2> SUFFICES ASSUME NEW i \in settled', NEW q \in Procs, Busy(q)', proc'[q].stage = "save",
                      KeyOf(proc'[q]) # i
               PROVE  proc'[q].file[i] = store'[i]
    BY DEF CopiesAgree, KeyOf
  <2>1. q # p /\ Busy(q) /\ proc'[q] = proc[q]
    BY <1>1, <1>2, <1>6
  <2>2. i # k
    BY <1>1, <2>1 DEF Overlaps
  <2> QED BY <1>1, <2>1, <2>2 DEF StoreInv, CopiesAgree
<1>11. NoneRefreshed'
  <2> SUFFICES ASSUME NEW i \in settled', NEW q \in Procs, session'[i] = "out", Busy(q)',
                      proc'[q].op = "bearer", proc'[q].issuer = i
               PROVE  FALSE
    BY DEF NoneRefreshed
  <2>1. q # p /\ Busy(q) /\ proc'[q] = proc[q]
    BY <1>1, <1>2, <1>6
  <2>2. CASE i = k /\ op = "logout"
    <3>1. proc[p].issuer = k
      BY <2>2 DEF k, KeyOf
    <3> QED BY <1>1, <2>1, <2>2, <3>1 DEF Overlaps
  <2>3. CASE i = k /\ op # "logout"
    <3>1. op = "bearer" /\ proc[p].issuer = k /\ session[k] = "out"
      BY <1>7, <2>3
    <3> QED BY <1>2, <1>8, <2>3, <3>1 DEF StoreInv, NoneRefreshed
  <2>4. CASE i # k
    BY <1>1, <1>4, <2>1, <2>4 DEF StoreInv, NoneRefreshed
  <2> QED BY <2>2, <2>3, <2>4
<1>12. LogoutForgets'
  <2> SUFFICES ASSUME NEW i \in settled', session'[i] = "out" PROVE store'[i] = None
    BY DEF LogoutForgets
  <2>1. CASE i = k
    <3>1. CASE op = "logout"
      BY <1>1, <2>1, <3>1
    <3>2. CASE op # "logout"
      <4>1. op = "bearer" /\ proc[p].issuer = k /\ session[k] = "out"
        BY <1>7, <2>1, <3>2
      <4> QED BY <1>2, <1>8, <2>1, <4>1 DEF StoreInv, NoneRefreshed
    <3> QED BY <3>1, <3>2
  <2>2. CASE i # k
    BY <1>1, <1>4, <2>2 DEF StoreInv, LogoutForgets
  <2> QED BY <2>1, <2>2
<1>13. LoginServesPublish'
  <2> SUFFICES ASSUME NEW i \in settled', session'[i] = "in" PROVE store'[i] # None
    BY DEF LoginServesPublish
  <2>1. CASE i = k
    <3>1. op # "logout"
      BY <1>7, <2>1
    <3> QED BY <1>1, <1>5, <2>1, <3>1
  <2>2. CASE i # k
    BY <1>1, <1>4, <2>2 DEF StoreInv, LoginServesPublish
  <2> QED BY <2>1, <2>2
<1>14. ConsumedIsVisible'
  <2> SUFFICES ASSUME NEW i \in settled', MetaIssuer[i] = i, store'[i] # None,
                      store'[i].refresh \in consumed
               PROVE  \/ store'[i].refresh \in told
                      \/ \E q \in Procs : Busy(q)' /\ proc'[q].old = store'[i].refresh
    BY <1>1 DEF ConsumedIsVisible
  <2> DEFINE r == store'[i].refresh
  <2>1. r # 0
    BY <1>4, Params DEF Tokens
  <2>2. CASE i = k
    <3>1. op # "logout" /\ store'[i] = c
      BY <1>1, <2>2
    <3>2. c.token \in consumed
      BY <1>5, <2>1, <3>1 DEF Genuine
    <3>3. Holding(p)
      BY <1>2, <1>5, <3>1 DEF Holding, c
    <3> QED BY <3>2, <3>3 DEF StoreInv, Unused, Used, c
  <2>3. CASE i # k
    <3>1. store'[i] = store[i] /\ i \in settled
      BY <1>1, <2>3
    <3>2. r \in told \/ \E q \in Procs : Busy(q) /\ proc[q].old = r
      BY <3>1 DEF StoreInv, ConsumedIsVisible
    <3>3. ~(Busy(p) /\ proc[p].old = r)
      <4> SUFFICES ASSUME proc[p].old = r PROVE FALSE
        OBVIOUS
      <4>1. op = "bearer" /\ issued[r].issuer = proc[p].issuer
        BY <1>3, <2>1 DEF WorkOK
      <4>2. store[i].issuer = i /\ Genuine(store[i], issued)
        BY <1>2, <1>4, <3>1 DEF CredInv, FileOK
      <4>3. issued[r].issuer = i
        BY <2>1, <3>1, <4>2 DEF Genuine
      <4> QED BY <1>5, <2>3, <4>1, <4>3
    <3> QED BY <1>1, <1>6, <3>2, <3>3
  <2> QED BY <2>2, <2>3
<1>15. \A t \in consumed' : t <= Len(issued')
  BY <1>1 DEF StoreInv
<1> QED BY <1>9, <1>10, <1>11, <1>12, <1>13, <1>14, <1>15 DEF StoreInv

\* Every step keeps StoreInv.
LEMMA StoreStep ==
    ASSUME StoreInv, [Next]_vars
    PROVE  StoreInv'
<1> SUFFICES ASSUME CredInv' PROVE StoreInv'
  BY CredStep DEF StoreInv
<1>1. ASSUME NEW p \in Procs, NEW i \in Issuers, Logout(p, i) \/ BearerToken(p, i)
      PROVE  StoreInv'
  BY <1>1, BeginKeeps
<1>2. ASSUME NEW p \in Procs, NEW i \in Issuers, NEW life \in Lifetimes, NEW r \in BOOLEAN,
             Login(p, i, life, r)
      PROVE  StoreInv'
  BY <1>2, LoginKeeps
<1>3. ASSUME NEW p \in Procs, NEW life \in Lifetimes, NEW r \in BOOLEAN,
             refreshToken(p, life, r)
      PROVE  StoreInv'
  BY <1>3, RefreshKeeps
<1>4. ASSUME NEW p \in Procs, RefreshFails(p) \/ PutFails(p) \/ Crash(p) PROVE StoreInv'
  BY <1>4, GivesUpKeeps
<1>5. ASSUME NEW p \in Procs, Load(p) PROVE StoreInv'
  BY <1>5, LoadKeeps
<1>6. ASSUME NEW p \in Procs, Save(p) PROVE StoreInv'
  BY <1>6, SaveKeeps
<1>7. CASE UNCHANGED <<store, proc, issued, consumed, told, session, settled>>
  BY <1>7, StillKeeps
<1> QED BY <1>1, <1>2, <1>3, <1>4, <1>5, <1>6, <1>7 DEF Next, Tick, vars

----------------------------------------------------------------------------
(* The theorems.                                                           *)

\* An empty store and idle processes satisfy both invariants.
LEMMA CredInitially == Init => StoreInv
<1> SUFFICES ASSUME Init PROVE StoreInv
  OBVIOUS
<1>1. TypeInv /\ Len(issued) = 0
  BY Params DEF Init, TypeInv, File
<1>2. IssuedBefore /\ HandedOK /\ BearerFresh
  BY <1>1 DEF Init, IssuedBefore, HandedOK, BearerFresh
<1>3. FileOK(store, issued) /\ \A p \in Procs : WorkOK(proc[p], issued, now)
  BY DEF Init, FileOK, WorkOK, Idle
<1>4. Unused /\ CopiesAgree /\ NoneRefreshed /\ ConsumedIsVisible /\ LogoutForgets
      /\ LoginServesPublish /\ \A u \in consumed : u <= Len(issued)
  BY DEF Init, Unused, Holding, CopiesAgree, NoneRefreshed, Busy, Idle, ConsumedIsVisible,
         LogoutForgets, LoginServesPublish
<1> QED BY <1>1, <1>2, <1>3, <1>4 DEF CredInv, StoreInv

\* CredInv holds however many processes share the store.
THEOREM CredInvariant == Spec => []CredInv
<1>1. Init => CredInv
  BY CredInitially DEF StoreInv
<1> QED BY <1>1, CredStep, PTL DEF Spec

\* The store and the observers are well formed.
THEOREM CredTypeCorrect == Spec => []CredTypeOK
<1>1. ASSUME CredInv PROVE CredTypeOK
  <2>1. ASSUME NEW p \in Procs, Busy(p), proc[p].creds # None
        PROVE  ~Expired(proc[p].creds)
    <3>1. proc[p] \in Work /\ WorkOK(proc[p], issued, now)
      BY <1>1, <2>1, BusyHolds
    <3>2. now + renewalWindow <= proc[p].creds.expiresAt /\ proc[p].creds.expiresAt \in Nat
      BY <2>1, <3>1 DEF WorkOK, Busy, Work, Credential
    <3> QED BY <1>1, <3>2 DEF Expired, renewalWindow, CredInv, TypeInv
  <2> QED BY <1>1, <2>1 DEF CredInv, TypeInv, FileOK, Genuine, HandedOK, CredTypeOK
<1> QED BY <1>1, CredInvariant, PTL

\* A token handed out lives for the renewal window, however many processes
\* refresh, log in and log out at once.
THEOREM AlwaysFresh == Spec => []BearerFresh
<1>1. CredInv => BearerFresh
  BY DEF CredInv
<1> QED BY <1>1, CredInvariant, PTL

\* StoreInv holds however many processes share the store.
THEOREM StoreInvariant == Spec => []StoreInv
<1>1. StoreInv /\ [Next]_vars => StoreInv'
  BY StoreStep
<1> QED BY <1>1, CredInitially, PTL DEF Spec

\* However many processes refresh, a consumed refresh token on disk has been
\* reported or is about to be replaced: under issuers that name themselves, and
\* unless a process may put the entry back from an older copy of the file.
THEOREM ConsumedAlwaysVisible == Spec => []ConsumedIsVisible
<1>1. StoreInv => ConsumedIsVisible
  BY DEF StoreInv
<1> QED BY <1>1, StoreInvariant, PTL

\* However many processes share the store, a logout is undone only by one that
\* had read the file, or begun a refresh for the issuer, when it was written.
THEOREM LogoutAlwaysForgets == Spec => []LogoutForgets
<1>1. StoreInv => LogoutForgets
  BY DEF StoreInv
<1> QED BY <1>1, StoreInvariant, PTL

\* However many processes share the store, a login is undone only by one that
\* had read the file when it was written.
THEOREM LoginAlwaysServes == Spec => []LoginServesPublish
<1>1. StoreInv => LoginServesPublish
  BY DEF StoreInv
<1> QED BY <1>1, StoreInvariant, PTL
============================================================================
