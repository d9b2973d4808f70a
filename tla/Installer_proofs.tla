------------------------- MODULE Installer_proofs -------------------------
(***************************************************************************)
(* Proofs about Installer, for every set of plugins, requests, indexes and *)
(* hub answers, every limit on concurrency and every number of commands.   *)
(***************************************************************************)
EXTENDS Installer, FiniteSetTheorems, TLAPS

----------------------------------------------------------------------------
(* The inductive invariant.                                                *)

Fetched == {"pin", "verify", "write", "update", "loaded"}
Verified == {"write", "update", "loaded"}
Written == {"update", "loaded"}

\* The mutex is held exactly from Load to Save, by the one goroutine between
\* them.
Mutex ==
    /\ \A r \in Requests : updateMu = r <=> job[r].stage = "loaded"
    /\ proc # "running" => updateMu = None

\* What the holder of the mutex has loaded is still what is on disk.
LockInv == Mutex /\ (updateMu # None => loaded = manifest)

\* Where the hub always gives a digest for the release, i is that digest.
Genuine(k, i) == AlwaysRecorded(k) => i = HubDigest[k]

\* What a goroutine has established by the stage it is at.
JobInv ==
    \A r \in Requests :
        /\ job[r].stage \in Fetched \cup {"fetch"} =>
              /\ job[r].key \in Keys /\ job[r].key[1] \in MayInstall(r)
              /\ Genuine(job[r].key, job[r].recorded)
        /\ job[r].stage \in Fetched =>
              /\ job[r].index \in Binaries /\ Genuine(job[r].key, job[r].index)
              /\ r.name \notin Locals => job[r].index \in Indexes
        /\ job[r].stage \in Verified /\ r.name \notin Locals =>
              /\ ConfigOf[job[r].index] = job[r].key
              /\ job[r].signer \in SignersOf[job[r].index]
        /\ job[r].stage \in Written => binary[job[r].key] # None

\* What is on disk passed the checks of the install that put it there.
DiskInv ==
    \A k \in Keys :
        /\ binary[k] # None /\ k[1] \notin Locals =>
              Genuine(k, binary[k]) /\ ConfigOf[binary[k]] = k
        /\ manifest[k] # None => binary[k] # None
        /\ manifest[k] # None /\ k[1] \notin Locals =>
              /\ Genuine(k, manifest[k].digest)
              /\ ConfigOf[manifest[k].digest] = k
              /\ manifest[k].signer \in SignersOf[manifest[k].digest]

----------------------------------------------------------------------------

\* A non-empty set of versions has a highest one (what Latest relies on).  The
\* sets of versions above each member are well founded under inclusion.
LEMMA HasHighest ==
    ASSUME NEW N \in Nat, NEW S \in SUBSET (1..N), S # {}
    PROVE  \E v \in S : \A w \in S : w <= v
<1> DEFINE Above(v) == {w \in 1..N : v < w}
           T == {Above(v) : v \in S}
<1>1. T \subseteq FiniteSubsetsOf(1..N)
  <2>1. IsFiniteSet(1..N)
    BY FS_Interval
  <2>2. ASSUME NEW A \in T PROVE A \subseteq 1..N
    OBVIOUS
  <2> QED BY <2>1, <2>2, FS_Subset, Zenon DEF FiniteSubsetsOf
<1>2. T # {}
  OBVIOUS
<1> DEFINE R == StrictSubsetOrdering(1..N)
<1>3. PICK A \in T : \A B \in T : <<B, A>> \notin R
  <2>1. IsWellFoundedOn(R, FiniteSubsetsOf(1..N))
    BY FS_StrictSubsetOrderingWellFounded, Zenon
  <2> HIDE DEF T, R
  <2> QED BY <1>1, <1>2, <2>1, WFMin, Zenon
<1>4. PICK v \in S : A = Above(v)
  OBVIOUS
<1>5. ASSUME NEW w \in S, ~ (w <= v) PROVE FALSE
  <2>1. Above(w) \subseteq A /\ w \in A /\ w \notin Above(w)
    BY <1>4, <1>5
  <2>2. Above(w) \in T /\ Above(w) \subseteq 1..N /\ A \subseteq 1..N
    BY <1>4
  <2>3. <<Above(w), A>> \in R
    BY <2>1, <2>2, Zenon DEF StrictSubsetOrdering
  <2> QED BY <1>3, <2>2, <2>3, Zenon
<1> QED BY <1>5

\* Latest is the key of an installed version when there is one, and None when
\* there is none: whatever is installed, there is a highest version.
LEMMA LatestSound ==
    ASSUME NEW m, NEW name \in Plugins
    PROVE  /\ Installed(m, name) = {} => Latest(m, name) = None
           /\ Installed(m, name) # {} =>
                /\ Latest(m, name) # None
                /\ \E v \in Versions : /\ Latest(m, name) = <<name, v>>
                                       /\ m[<<name, v>>] # None
<1> DEFINE S == Installed(m, name)
<1>1. S = {} => Latest(m, name) = None
  BY DEF Latest
<1>2. ASSUME S # {}
      PROVE  /\ Latest(m, name) # None
             /\ \E v \in Versions : /\ Latest(m, name) = <<name, v>>
                                    /\ m[<<name, v>>] # None
  <2>1. S \subseteq 1..MaxVersion /\ MaxVersion \in Nat
    BY ConstantTypes DEF Installed, Versions
  <2>2. \E v \in S : \A w \in S : w <= v
    BY <1>2, <2>1, HasHighest
  <2> DEFINE v == CHOOSE u \in S : \A w \in S : w <= u
  <2>3. v \in S
    BY <2>2
  <2>4. \A u \in S : u \in Versions /\ m[<<name, u>>] # None
    BY DEF Installed
  <2>5. Latest(m, name) = <<name, v>>
    BY <1>2, Zenon DEF Latest
  <2> HIDE DEF v, S
  <2>6. <<name, v>> \in Keys
    BY <2>3, <2>4 DEF Keys
  <2>7. <<name, v>> # None
    BY <2>6, ConstantTypes
  <2> QED BY <2>3, <2>4, <2>5, <2>7, Zenon
<1> QED BY <1>1, <1>2

\* Find returns the entry of an installed version of the plugin when there is
\* one.
LEMMA FindSound ==
    ASSUME NEW name \in Plugins,
           Find(manifest, name) # None \/ Installed(manifest, name) # {}
    PROVE  \E v \in Versions : /\ Find(manifest, name) = manifest[<<name, v>>]
                               /\ manifest[<<name, v>>] # None
<1>1. Installed(manifest, name) # {}
  BY LatestSound DEF Find
<1>2. PICK v \in Versions : /\ Latest(manifest, name) = <<name, v>>
                            /\ Latest(manifest, name) # None
                            /\ manifest[<<name, v>>] # None
  BY <1>1, LatestSound
<1>3. Find(manifest, name) = manifest[<<name, v>>]
  BY <1>2, Zenon DEF Find
<1> QED BY <1>2, <1>3, Zenon

\* What Find returns has a signer to pin, or is None.
LEMMA FindType ==
    ASSUME TypeOK, NEW name \in Plugins
    PROVE  Find(manifest, name) \in Entry \cup {None}
<1>1. CASE Find(manifest, name) # None
  <2>1. PICK v \in Versions : Find(manifest, name) = manifest[<<name, v>>]
    BY <1>1, FindSound
  <2>2. <<name, v>> \in Keys
    BY DEF Keys
  <2> QED BY <2>1, <2>2, Zenon DEF TypeOK
<1> QED BY <1>1

\* A goroutine that has not begun, or has ended, is well formed.
LEMMA AtType ==
    ASSUME NEW s \in Stages
    PROVE  At(s) \in Job
BY DEF At, Job

----------------------------------------------------------------------------
(* Type correctness is preserved.                                          *)

\* The installer under any configuration: the set of requests of a run is not
\* one of Configs, see HarnessRun.
AnyNext ==
    \/ \E rs \in SUBSET Requests : FromConfig(rs)
    \/ \E rs \in SUBSET Requests : FromConfigFails(rs)
    \/ \E r \in Requests : InstallOne(r)
    \/ \E r \in Requests, b \in Builds : Local(r, b)
    \/ \E r \in Requests : Step(r)
    \/ Wait
    \/ Crash

\* The configurations are sets of requests.
LEMMA NextIsAny ==
    ASSUME [Next]_vars
    PROVE  [AnyNext]_vars
BY ConstantTypes DEF Next, AnyNext

\* The fields of a goroutine and of a request.
LEMMA Fields ==
    ASSUME TypeOK, NEW r \in Requests
    PROVE  /\ job[r] \in Job /\ DOMAIN job = Requests
           /\ r.name \in Plugins /\ r.version \in 0..MaxVersion
BY ConstantTypes DEF TypeOK, Request

\* Whatever the hub answers, a local plugin is installed by --local only, and
\* under its own name.
LEMMA MayInstallType ==
    ASSUME NEW r \in Requests, NEW name \in MayInstall(r)
    PROVE  /\ name \in Plugins
           /\ r.name \in Locals => name = r.name
           /\ name \in Locals => name = r.name
BY ConstantTypes DEF MayInstall, Request, Detail

\* A goroutine that goes on to another stage remains a goroutine.
LEMMA JobType ==
    ASSUME TypeOK, NEW r \in Requests, NEW j \in Job,
           job' = [job EXCEPT ![r] = j]
    PROVE  job' \in [Requests -> Job]
BY DEF TypeOK

\* What the goroutine that saves adds is an entry, under a key of the manifest.
LEMMA EntryType ==
    ASSUME TypeOK, JobInv, NEW r \in Requests, job[r].stage = "loaded"
    PROVE  job[r].key \in Keys /\ EntryOf(r) \in Entry
<1>1. job[r].key \in Keys /\ (r.name \notin Locals => job[r].index \in Indexes)
  BY DEF JobInv, Fetched
<1>2. job[r].signer \in Identities \cup {None}
  BY Fields DEF Job
<1> QED BY <1>1, <1>2 DEF EntryOf, Entry

\* A release that the hub's answer resolves to is one of the manifest's keys.
LEMMA ResolveType ==
    ASSUME TypeOK, NEW r \in Requests, NEW d \in Details[r.name]
    PROVE  LET k == ResolveRelease(r, d) IN
           /\ k \in Keys /\ k[1] = d.coordinate /\ k[1] \in MayInstall(r)
           /\ d \in AnswersFor(k[1]) /\ d.identity \in Identities \cup {None}
           /\ IndexDigest(k, d) \in Indexes \cup {None}
           /\ Genuine(k, IndexDigest(k, d))
<1>1. r.name \in Plugins /\ r.version \in 0..MaxVersion
  BY Fields
<1>2. d \in Detail
  BY <1>1, ConstantTypes
<1>3. MaxVersion \in Nat
  BY ConstantTypes
<1> DEFINE k == ResolveRelease(r, d)
<1>4. k \in Keys /\ k[1] = d.coordinate /\ d.identity \in Identities \cup {None}
  BY <1>1, <1>2, <1>3 DEF ResolveRelease, Detail, Keys, Versions
<1> HIDE DEF k
<1>7. k[1] \in MayInstall(r) /\ d \in AnswersFor(k[1])
  BY <1>1, <1>4 DEF MayInstall, AnswersFor
<1>5. IndexDigest(k, d) \in Indexes \cup {None}
  BY <1>4, ConstantTypes DEF IndexDigest
<1>6. Genuine(k, IndexDigest(k, d))
  BY <1>4, <1>7 DEF Genuine, AlwaysRecorded, IndexDigest
<1> QED BY <1>4, <1>5, <1>6, <1>7 DEF k

\* Every step of the installer keeps its state well formed.
LEMMA TypeStep ==
    ASSUME TypeOK, JobInv, [AnyNext]_vars
    PROVE  TypeOK'
<1>1. ASSUME NEW rs, NEW todo, rs \subseteq Requests, Begin(rs, todo)
      PROVE  TypeOK'
  <2>1. job' \in [Requests -> Job]
    <3>1. \A r \in Requests : At(IF r \in todo THEN "queued" ELSE "none") \in Job
      BY AtType DEF Stages
    <3> QED BY <1>1, <3>1 DEF Begin
  <2>2. commands' \in 0..MaxCommands
    BY <1>1, ConstantTypes DEF Begin, TypeOK
  <2> QED BY <1>1, <2>1, <2>2 DEF Begin, TypeOK, disk
<1>2. ASSUME NEW rs \in SUBSET Requests, FromConfig(rs) PROVE TypeOK'
  BY <1>1, <1>2, ConstantTypes DEF FromConfig
<1>3. ASSUME NEW r \in Requests, InstallOne(r) PROVE TypeOK'
  BY <1>1, <1>3 DEF InstallOne
<1>4. ASSUME NEW r \in Requests, Start(r) PROVE TypeOK'
  <2>1. [job[r] EXCEPT !.stage = "resolve"] \in Job
    BY Fields DEF Job, Stages, Active
  <2>2. job' \in [Requests -> Job]
    BY <1>4, <2>1, JobType DEF Start
  <2> QED BY <1>4, <2>2 DEF Start, TypeOK, disk
<1>5. ASSUME NEW r \in Requests, NEW d \in Details[r.name], Resolve(r, d)
      PROVE  TypeOK'
  <2> DEFINE k == ResolveRelease(r, d)
             digest == IndexDigest(k, d)
  <2>1. /\ k \in Keys /\ digest \in Indexes \cup {None}
        /\ d.identity \in Identities \cup {None}
    BY ResolveType
  <2> DEFINE j == [job[r] EXCEPT !.stage = "fetch", !.key = k,
                                 !.recorded = digest,
                                 !.identity = d.identity]
  <2>2. job' = [job EXCEPT ![r] = j]
    BY <1>5 DEF Resolve
  <2> HIDE DEF k, digest
  <2>4. j \in Job
    BY <2>1, Fields DEF Job, Stages, Active
  <2> HIDE DEF j
  <2>3. job' \in [Requests -> Job]
    BY <2>2, <2>4, JobType
  <2> QED BY <1>5, <2>3 DEF Resolve, TypeOK, disk
<1>6. ASSUME NEW r \in Requests, NEW i \in Indexes, fetchIndex(r, i)
      PROVE  TypeOK'
  <2>1. [job[r] EXCEPT !.stage = "pin", !.index = i] \in Job
    BY Fields DEF Job, Stages, Active, Binaries
  <2>2. job' \in [Requests -> Job]
    BY <1>6, <2>1, JobType DEF fetchIndex
  <2> QED BY <1>6, <2>2 DEF fetchIndex, TypeOK, disk
<1>7. ASSUME NEW r \in Requests, ReadPin(r) PROVE TypeOK'
  <2> DEFINE pinned == pinnedIdentityFor(Find(manifest, job[r].key[1]), job[r].identity)
  <2>1. pinned \in Identities \cup {None}
    <3>1. job[r].key[1] \in Plugins
      BY <1>7, MayInstallType DEF ReadPin, JobInv, Fetched
    <3>2. Find(manifest, job[r].key[1]) \in Entry \cup {None}
      BY <3>1, FindType
    <3> QED BY <3>2, Fields DEF pinnedIdentityFor, Entry, Job
  <2> DEFINE j == [job[r] EXCEPT !.stage = "verify", !.identity = pinned]
  <2>2. job' = [job EXCEPT ![r] = j]
    BY <1>7 DEF ReadPin
  <2> HIDE DEF pinned
  <2>4. j \in Job
    BY <2>1, Fields DEF Job, Stages, Active
  <2> HIDE DEF j
  <2>3. job' \in [Requests -> Job]
    BY <2>2, <2>4, JobType
  <2> QED BY <1>7, <2>3 DEF ReadPin, TypeOK, disk
<1>8. ASSUME NEW r \in Requests, NEW id \in Identities, Verify(r, id)
      PROVE  TypeOK'
  <2>1. [job[r] EXCEPT !.stage = "write", !.signer = id] \in Job
    BY Fields DEF Job, Stages, Active
  <2>2. job' \in [Requests -> Job]
    BY <1>8, <2>1, JobType DEF Verify
  <2> QED BY <1>8, <2>2 DEF Verify, TypeOK, disk
<1>9. ASSUME NEW r \in Requests, WriteBinary(r) PROVE TypeOK'
  <2>1. job[r].key \in Keys /\ job[r].index \in Binaries
    BY <1>9 DEF WriteBinary, JobInv, Fetched
  <2>2. [job[r] EXCEPT !.stage = "update"] \in Job
    BY Fields DEF Job, Stages, Active
  <2>3. job' \in [Requests -> Job]
    BY <1>9, <2>2, JobType DEF WriteBinary
  <2> QED BY <1>9, <2>1, <2>3 DEF WriteBinary, TypeOK
<1>10. ASSUME NEW r \in Requests, LockAndLoad(r) PROVE TypeOK'
  <2>1. [job[r] EXCEPT !.stage = "loaded"] \in Job
    BY Fields DEF Job, Stages, Active
  <2>2. job' \in [Requests -> Job]
    BY <1>10, <2>1, JobType DEF LockAndLoad
  <2> QED BY <1>10, <2>2 DEF LockAndLoad, TypeOK, disk
<1>11. ASSUME NEW r \in Requests, AddAndSave(r) PROVE TypeOK'
  <2> DEFINE entry == EntryOf(r)
  <2>1. job[r].key \in Keys /\ entry \in Entry
    BY <1>11, EntryType DEF AddAndSave
  <2>2. job' \in [Requests -> Job]
    BY <1>11, AtType DEF AddAndSave, TypeOK, Stages
  <2>3. manifest' = [loaded EXCEPT ![job[r].key] = entry]
    BY <1>11 DEF AddAndSave
  <2> HIDE DEF entry
  <2>4. manifest' \in [Keys -> Entry \cup {None}]
    BY <2>1, <2>3 DEF TypeOK
  <2> QED BY <1>11, <2>2, <2>4 DEF AddAndSave, TypeOK
<1>12. ASSUME NEW r \in Requests, Fail(r) PROVE TypeOK'
  <2>1. job' \in [Requests -> Job]
    BY <1>12, AtType DEF Fail, TypeOK, Stages
  <2> QED BY <1>12, <2>1 DEF Fail, TypeOK, disk
<1>13. CASE Wait
  BY <1>13 DEF Wait, TypeOK, disk
<1>14. CASE Crash
  <2>1. job' \in [Requests -> Job]
    BY <1>14, AtType DEF Crash, TypeOK, Stages
  <2> QED BY <1>14, <2>1 DEF Crash, TypeOK, disk
<1>15. CASE UNCHANGED vars
  BY <1>15 DEF TypeOK, vars, disk
<1>16. ASSUME NEW rs \in SUBSET Requests, FromConfigFails(rs) PROVE TypeOK'
  <2>1. job' \in [Requests -> Job]
    BY <1>16, AtType DEF FromConfigFails, Stages
  <2>2. commands' \in 0..MaxCommands
    BY <1>16, ConstantTypes DEF FromConfigFails, TypeOK
  <2> QED BY <1>16, <2>1, <2>2, ConstantTypes DEF FromConfigFails, TypeOK, disk
<1>17. ASSUME NEW r \in Requests, NEW b \in Builds, Local(r, b) PROVE TypeOK'
  <2> DEFINE j == [At("write") EXCEPT !.key = <<r.name, LocalVersion>>,
                                      !.index = b]
  <2>1. <<r.name, LocalVersion>> \in Keys
    BY <1>17, Fields, ConstantTypes DEF Local, Keys
  <2>2. j \in Job /\ At("none") \in Job
    BY <2>1 DEF At, Job, Stages, Active, Binaries
  <2>3. job' = [s \in Requests |-> IF s = r THEN j ELSE At("none")]
    BY <1>17 DEF Local
  <2> HIDE DEF j
  <2>4. job' \in [Requests -> Job]
    BY <2>2, <2>3
  <2>5. commands' \in 0..MaxCommands
    BY <1>17, ConstantTypes DEF Local, TypeOK
  <2> QED BY <1>17, <2>4, <2>5 DEF Local, TypeOK, disk
<1> QED BY <1>2, <1>3, <1>4, <1>5, <1>6, <1>7, <1>8, <1>9, <1>10, <1>11, <1>12,
           <1>13, <1>14, <1>15, <1>16, <1>17, Zenon DEF AnyNext, Step

----------------------------------------------------------------------------
(* The lock, the goroutines and the disk.                                  *)

\* manifest.Update: every step keeps the discipline of the mutex.
LEMMA MutexStep ==
    ASSUME TypeOK, Mutex, [AnyNext]_vars
    PROVE  Mutex'
<1> USE Fields, ConstantTypes
<1>1. ASSUME NEW rs, NEW todo, Begin(rs, todo) PROVE Mutex'
  <2>1. updateMu' = None /\ proc' = "running"
    BY <1>1 DEF Begin, Mutex
  <2>2. \A r \in Requests : job'[r].stage # "loaded"
    BY <1>1 DEF Begin, At
  <2> QED BY <2>1, <2>2 DEF Mutex
<1>2. ASSUME NEW rs \in SUBSET Requests, FromConfig(rs) PROVE Mutex'
  BY <1>1, <1>2 DEF FromConfig
<1>3. ASSUME NEW r \in Requests, InstallOne(r) PROVE Mutex'
  BY <1>1, <1>3 DEF InstallOne
<1>4. ASSUME NEW r \in Requests, Start(r) PROVE Mutex'
  BY <1>4 DEF Start, Mutex, TypeOK, Job, disk
<1>5. ASSUME NEW r \in Requests, NEW d \in Details[r.name], Resolve(r, d)
      PROVE  Mutex'
  BY <1>5 DEF Resolve, Mutex, TypeOK, Job, disk
<1>6. ASSUME NEW r \in Requests, NEW i \in Indexes, fetchIndex(r, i)
      PROVE  Mutex'
  BY <1>6 DEF fetchIndex, Mutex, TypeOK, Job, disk
<1>7. ASSUME NEW r \in Requests, ReadPin(r) PROVE Mutex'
  BY <1>7 DEF ReadPin, Mutex, TypeOK, Job, disk
<1>8. ASSUME NEW r \in Requests, NEW id \in Identities, Verify(r, id)
      PROVE  Mutex'
  BY <1>8 DEF Verify, Mutex, TypeOK, Job, disk
<1>9. ASSUME NEW r \in Requests, WriteBinary(r) PROVE Mutex'
  BY <1>9 DEF WriteBinary, Mutex, TypeOK, Job
<1>10. ASSUME NEW r \in Requests, LockAndLoad(r) PROVE Mutex'
  BY <1>10 DEF LockAndLoad, Mutex, TypeOK, Job, disk
<1>11. ASSUME NEW r \in Requests, AddAndSave(r) PROVE Mutex'
  BY <1>11 DEF AddAndSave, Mutex, TypeOK, Job, At
<1>12. ASSUME NEW r \in Requests, Fail(r) PROVE Mutex'
  BY <1>12 DEF Fail, Mutex, TypeOK, Job, At, disk
<1>13. CASE Wait
  BY <1>13 DEF Wait, Mutex, TypeOK, disk
<1>14. CASE Crash
  BY <1>14 DEF Crash, Mutex, At
<1>15. CASE UNCHANGED vars
  BY <1>15 DEF Mutex, vars, disk
<1>16. ASSUME NEW rs \in SUBSET Requests, FromConfigFails(rs) PROVE Mutex'
  BY <1>16 DEF FromConfigFails, Mutex, At
<1>17. ASSUME NEW r \in Requests, NEW b \in Builds, Local(r, b) PROVE Mutex'
  <2>1. updateMu' = None /\ proc' = "running"
    BY <1>17 DEF Local, Mutex
  <2>2. \A s \in Requests : job'[s].stage # "loaded"
    BY <1>17 DEF Local, At
  <2> QED BY <2>1, <2>2 DEF Mutex
<1> QED BY <1>2, <1>3, <1>4, <1>5, <1>6, <1>7, <1>8, <1>9, <1>10, <1>11, <1>12,
           <1>13, <1>14, <1>15, <1>16, <1>17, Zenon DEF AnyNext, Step

\* Only the holder of the mutex changes the manifest, and then gives it back.
LEMMA LockStep ==
    ASSUME TypeOK, LockInv, [AnyNext]_vars
    PROVE  LockInv'
<1>1. Mutex'
  BY MutexStep DEF LockInv
<1>2. CASE UNCHANGED <<manifest, loaded>> /\ (updateMu' # None => updateMu # None)
  BY <1>1, <1>2 DEF LockInv
<1>3. ASSUME NEW r \in Requests, LockAndLoad(r) PROVE LockInv'
  BY <1>1, <1>3 DEF LockAndLoad, LockInv, disk
<1>4. ASSUME NEW r \in Requests, AddAndSave(r) PROVE LockInv'
  BY <1>1, <1>4 DEF AddAndSave, LockInv
<1>5. CASE ~ \E r \in Requests : LockAndLoad(r) \/ AddAndSave(r)
  <2>1. UNCHANGED <<manifest, loaded>> /\ (updateMu' # None => updateMu # None)
    BY <1>5 DEF AnyNext, Step, FromConfig, FromConfigFails, InstallOne, Local, Begin,
                Start, Resolve, fetchIndex, ReadPin, Verify, WriteBinary, Fail, Wait,
                Crash, vars, disk
  <2> QED BY <1>2, <2>1
<1> QED BY <1>3, <1>4, <1>5

\* pullVerifyInstall: every step keeps what the goroutines have established,
\* in particular that nothing removes a binary once written.
LEMMA JobStep ==
    ASSUME TypeOK, JobInv, [AnyNext]_vars
    PROVE  JobInv'
<1> USE Fields, ConstantTypes DEF Fetched, Verified, Written
<1>1. ASSUME NEW rs, NEW todo, Begin(rs, todo) PROVE JobInv'
  BY <1>1 DEF Begin, JobInv, At
<1>2. ASSUME NEW rs \in SUBSET Requests, FromConfig(rs) PROVE JobInv'
  BY <1>1, <1>2 DEF FromConfig
<1>3. ASSUME NEW r \in Requests, InstallOne(r) PROVE JobInv'
  BY <1>1, <1>3 DEF InstallOne
<1>4. ASSUME NEW r \in Requests, Start(r) PROVE JobInv'
  BY <1>4 DEF Start, JobInv, TypeOK, Job, disk
<1>5. ASSUME NEW r \in Requests, NEW d \in Details[r.name], Resolve(r, d)
      PROVE  JobInv'
  BY <1>5, ResolveType DEF Resolve, JobInv, TypeOK, Job, disk
<1>6. ASSUME NEW r \in Requests, NEW i \in Indexes, fetchIndex(r, i)
      PROVE  JobInv'
  <2>1. Genuine(job[r].key, i) /\ i \in Binaries
    BY <1>6 DEF fetchIndex, CrossCheck, Genuine, AlwaysRecorded, JobInv, Binaries
  <2> QED BY <1>6, <2>1 DEF fetchIndex, JobInv, TypeOK, Job, disk
<1>7. ASSUME NEW r \in Requests, ReadPin(r) PROVE JobInv'
  BY <1>7 DEF ReadPin, JobInv, TypeOK, Job, disk
<1>8. ASSUME NEW r \in Requests, NEW id \in Identities, Verify(r, id)
      PROVE  JobInv'
  BY <1>8 DEF Verify, walkVerifiedIndex, JobInv, TypeOK, Job, disk
<1>9. ASSUME NEW r \in Requests, WriteBinary(r) PROVE JobInv'
  BY <1>9 DEF WriteBinary, JobInv, TypeOK, Job
<1>10. ASSUME NEW r \in Requests, LockAndLoad(r) PROVE JobInv'
  BY <1>10 DEF LockAndLoad, JobInv, TypeOK, Job, disk
<1>11. ASSUME NEW r \in Requests, AddAndSave(r) PROVE JobInv'
  BY <1>11 DEF AddAndSave, JobInv, TypeOK, Job, At
<1>12. ASSUME NEW r \in Requests, Fail(r) PROVE JobInv'
  BY <1>12 DEF Fail, JobInv, TypeOK, Job, At, disk
<1>13. CASE Wait
  BY <1>13 DEF Wait, JobInv, disk
<1>14. CASE Crash
  BY <1>14 DEF Crash, JobInv, At
<1>15. CASE UNCHANGED vars
  BY <1>15 DEF JobInv, vars, disk
<1>16. ASSUME NEW rs \in SUBSET Requests, FromConfigFails(rs) PROVE JobInv'
  BY <1>16 DEF FromConfigFails, JobInv, At
<1>17. ASSUME NEW r \in Requests, NEW b \in Builds, Local(r, b) PROVE JobInv'
  <2>1. <<r.name, LocalVersion>> \in Keys /\ r.name \in Locals
    BY <1>17 DEF Local, Keys
  <2>2. ASSUME NEW s \in Requests, s # r PROVE job'[s] = At("none")
    BY <1>17, <2>2 DEF Local
  <2>3. job'[r] = [At("write") EXCEPT !.key = <<r.name, LocalVersion>>,
                                      !.index = b]
    BY <1>17 DEF Local
  <2>4. ~ AlwaysRecorded(<<r.name, LocalVersion>>)
    BY <2>1 DEF AlwaysRecorded
  <2>5. /\ job'[r].stage = "write" /\ job'[r].index \in Binaries
        /\ job'[r].key \in Keys /\ job'[r].key[1] \in MayInstall(r)
        /\ \A i : Genuine(job'[r].key, i)
    BY <2>1, <2>3, <2>4 DEF At, Genuine, Binaries, MayInstall
  <2>6. \A s \in Requests : s # r => job'[s].stage = "none"
    BY <2>2 DEF At
  <2> QED BY <2>1, <2>5, <2>6 DEF JobInv
<1> QED BY <1>2, <1>3, <1>4, <1>5, <1>6, <1>7, <1>8, <1>9, <1>10, <1>11, <1>12,
           <1>13, <1>14, <1>15, <1>16, <1>17, Zenon DEF AnyNext, Step

\* Only writeVerifiedBinary and Save change the disk, with what was checked.
LEMMA DiskStep ==
    ASSUME TypeOK, LockInv, JobInv, DiskInv, [AnyNext]_vars
    PROVE  DiskInv'
<1>1. ASSUME UNCHANGED disk PROVE DiskInv'
  BY <1>1 DEF DiskInv, disk
<1>2. ASSUME NEW r \in Requests, WriteBinary(r) PROVE DiskInv'
  <2>1. /\ job[r].key \in Keys /\ (r.name \in Locals => job[r].key[1] \in Locals)
        /\ job[r].index \in Binaries
        /\ Genuine(job[r].key, job[r].index)
        /\ r.name \notin Locals => ConfigOf[job[r].index] = job[r].key
    BY <1>2, MayInstallType DEF WriteBinary, JobInv, Fetched, Verified
  <2> QED BY <1>2, <2>1, ConstantTypes DEF WriteBinary, DiskInv, TypeOK
<1>3. ASSUME NEW r \in Requests, AddAndSave(r) PROVE DiskInv'
  <2> DEFINE entry == EntryOf(r)
  <2>1. /\ job[r].key \in Keys /\ binary[job[r].key] # None
        /\ r.name \in Locals => job[r].key[1] \in Locals
        /\ r.name \notin Locals =>
              /\ Genuine(job[r].key, entry.digest)
              /\ ConfigOf[entry.digest] = job[r].key
              /\ entry.signer \in SignersOf[entry.digest]
    BY <1>3, MayInstallType DEF AddAndSave, JobInv, Fetched, Verified, Written, EntryOf
  <2>2. loaded = manifest
    BY <1>3, ConstantTypes DEF AddAndSave, LockInv, Mutex
  <2>3. manifest' = [manifest EXCEPT ![job[r].key] = entry] /\ binary' = binary
    BY <1>3, <2>2 DEF AddAndSave
  <2> HIDE DEF entry
  <2> QED BY <2>1, <2>3 DEF DiskInv, TypeOK
<1>4. CASE \E r \in Requests : WriteBinary(r) \/ AddAndSave(r)
  BY <1>2, <1>3, <1>4
<1>5. CASE ~ \E r \in Requests : WriteBinary(r) \/ AddAndSave(r)
  <2>1. UNCHANGED disk
    BY <1>5 DEF AnyNext, Step, FromConfig, FromConfigFails, InstallOne, Local, Begin, Start, Resolve,
                fetchIndex, ReadPin, Verify, LockAndLoad, Fail, Wait, Crash, vars
  <2> QED BY <1>1, <2>1
<1> QED BY <1>4, <1>5

----------------------------------------------------------------------------
(* What follows for every behaviour.                                       *)

IInv == TypeOK /\ LockInv /\ JobInv /\ DiskInv

\* It holds when nothing is installed.
LEMMA InitiallyIInv == Init => IInv
<1> SUFFICES ASSUME Init PROVE IInv
  OBVIOUS
<1>1. job \in [Requests -> Job]
  BY AtType DEF Init, Stages
<1>2. TypeOK
  <2>1. cancelled \in BOOLEAN /\ err \in BOOLEAN
    BY Zenon DEF Init
  <2>2. commands \in 0..MaxCommands
    BY ConstantTypes DEF Init
  <2>3. /\ manifest \in [Keys -> Entry \cup {None}]
        /\ loaded \in [Keys -> Entry \cup {None}]
        /\ binary \in [Keys -> Indexes \cup {None}]
    BY DEF Init
  <2> QED BY <1>1, <2>1, <2>2, <2>3, Zenon DEF Init, TypeOK
<1>3. LockInv
  BY ConstantTypes DEF Init, LockInv, Mutex, At
<1>4. JobInv
  BY DEF Init, JobInv, At, Fetched, Verified, Written
<1>5. DiskInv
  BY DEF Init, DiskInv
<1> QED BY <1>2, <1>3, <1>4, <1>5 DEF IInv

\* The invariant holds in every reachable state of the installer.
LEMMA IInvHolds == Spec => []IInv
<1>1. Init => IInv
  BY InitiallyIInv
<1>2. IInv /\ [Next]_vars => IInv'
  BY NextIsAny, TypeStep, LockStep, JobStep, DiskStep DEF IInv
<1> QED BY <1>1, <1>2, PTL DEF Spec

\* The installer's state and what it leaves on disk are always well formed.
THEOREM TypeCorrect == Spec => []TypeOK
<1>1. IInv => TypeOK
  BY DEF IInv
<1> QED BY <1>1, IInvHolds, PTL

\* No entry of plugins.json is lost: whatever the number of goroutines and
\* wherever they fail or the process dies, the file changes only by the
\* addition of one entry.  The argument is LockInv: what the holder of the
\* mutex loaded is still on disk when it saves.
THEOREM Refinement == Spec => ImplementsManifestStore
<1>1. Init => Store!Init
  BY DEF Init, Store!Init
<1>2. IInv /\ IInv' /\ [Next]_vars => [Store!Next]_manifest
  <2> SUFFICES ASSUME IInv, [Next]_vars, manifest' # manifest
               PROVE  Store!Next
    OBVIOUS
  <2>1. PICK r \in Requests : AddAndSave(r)
    BY DEF Next, Step, FromConfig, FromConfigFails, InstallOne, Local, Begin, Start, Resolve, fetchIndex,
           ReadPin, Verify, WriteBinary, LockAndLoad, Fail, Wait, Crash, vars, disk
  <2> DEFINE entry == EntryOf(r)
  <2>2. job[r].key \in Keys /\ entry \in Entry
    BY <2>1, EntryType DEF IInv, AddAndSave
  <2>3. loaded = manifest
    BY <2>1, ConstantTypes DEF IInv, AddAndSave, LockInv, Mutex
  <2>4. manifest' = [manifest EXCEPT ![job[r].key] = entry]
    BY <2>1, <2>3 DEF AddAndSave
  <2> HIDE DEF entry
  <2> QED BY <2>2, <2>4 DEF Store!Next, Store!Add
<1> QED BY <1>1, <1>2, IInvHolds, PTL DEF Spec, ImplementsManifestStore, Store!Spec

\* Every entry of the manifest has its binary, also after a crash between the
\* two writes: the binary is written first, and never removed.
THEOREM EntriesHaveBinaries == Spec => []EntryHasItsBinary
<1>1. IInv => EntryHasItsBinary
  BY DEF IInv, DiskInv, Genuine, EntryHasItsBinary, AlwaysRecorded
<1> QED BY <1>1, IInvHolds, PTL

\* Nothing is installed under a plugin and version that its signed config does
\* not name, and no entry records an identity that did not sign its index.
THEOREM NoSubstitution == Spec => []SignedForItsKey
<1>1. IInv => SignedForItsKey
  BY DEF IInv, DiskInv, SignedForItsKey
<1> QED BY <1>1, IInvHolds, PTL

----------------------------------------------------------------------------
(* The declared signer.                                                    *)

Declared(name) == {d.identity : d \in AnswersFor(name)}
HubDeclares(name) == name \notin Locals /\ None \notin Declared(name)

\* A goroutine for a plugin with declared signers insists on one of them, from
\* the hub's answer on, and has verified one of them when it writes.
DeclaredInv ==
    \A r \in Requests :
        /\ job[r].stage \in Fetched \cup {"fetch"} /\ HubDeclares(job[r].key[1]) =>
              job[r].identity \in Declared(job[r].key[1])
        /\ job[r].stage \in Verified /\ HubDeclares(job[r].key[1]) =>
              job[r].signer \in Declared(job[r].key[1])

\* DeclaredSignerPinned in terms of Declared.
LEMMA DeclaredMeans ==
    DeclaredSignerPinned <=>
        \A k \in Keys : manifest[k] # None /\ HubDeclares(k[1]) =>
                          manifest[k].signer \in Declared(k[1])
BY DEF DeclaredSignerPinned, Declared, HubDeclares

\* pinnedIdentityFor and the identity policy keep to the declared signers.
LEMMA DeclaredStep ==
    ASSUME IInv, DeclaredInv, DeclaredSignerPinned, [Next]_vars
    PROVE  DeclaredInv'
<1> USE Fields, ConstantTypes DEF Fetched, Verified
<1> TypeOK
  BY DEF IInv
<1>1. ASSUME NEW rs, NEW todo, Begin(rs, todo) PROVE DeclaredInv'
  BY <1>1 DEF Begin, DeclaredInv, At
<1>2. ASSUME NEW rs \in Configs, FromConfig(rs) PROVE DeclaredInv'
  BY <1>1, <1>2 DEF FromConfig
<1>3. ASSUME NEW r \in Requests, InstallOne(r) PROVE DeclaredInv'
  BY <1>1, <1>3 DEF InstallOne
<1>4. ASSUME NEW r \in Requests, Start(r) PROVE DeclaredInv'
  BY <1>4 DEF Start, DeclaredInv, TypeOK, Job
<1>5. ASSUME NEW r \in Requests, NEW d \in Details[r.name], Resolve(r, d)
      PROVE  DeclaredInv'
  <2>1. d.identity \in Declared(ResolveRelease(r, d)[1])
    BY ResolveType DEF Declared
  <2> QED BY <1>5, <2>1 DEF Resolve, DeclaredInv, TypeOK, Job
<1>6. ASSUME NEW r \in Requests, NEW i \in Indexes, fetchIndex(r, i)
      PROVE  DeclaredInv'
  BY <1>6 DEF fetchIndex, DeclaredInv, TypeOK, Job
<1>7. ASSUME NEW r \in Requests, ReadPin(r) PROVE DeclaredInv'
  <2> DEFINE pinned == pinnedIdentityFor(Find(manifest, job[r].key[1]), job[r].identity)
  <2>1. job' = [job EXCEPT ![r] = [@ EXCEPT !.stage = "verify",
                                            !.identity = pinned]]
    BY <1>7 DEF ReadPin
  <2>2. job[r].stage = "pin"
    BY <1>7 DEF ReadPin
  <2> DEFINE name == job[r].key[1]
  <2>3. name \in Plugins
    BY <2>2, MayInstallType DEF IInv, JobInv
  <2>4. ASSUME HubDeclares(name) PROVE pinned \in Declared(name)
    <3>1. CASE Find(manifest, name) = None
      BY <2>2, <2>4, <3>1 DEF pinnedIdentityFor, DeclaredInv
    <3>2. CASE Find(manifest, name) # None
      <4>1. PICK v \in Versions :
                /\ Find(manifest, name) = manifest[<<name, v>>]
                /\ manifest[<<name, v>>] # None
        BY <2>3, <3>2, FindSound
      <4>2. <<name, v>> \in Keys /\ <<name, v>>[1] = name
        BY <2>3 DEF Keys
      <4>3. manifest[<<name, v>>].signer \in Declared(name)
        BY <2>4, <4>1, <4>2, DeclaredMeans
      <4>4. manifest[<<name, v>>].signer # None
        BY <2>4, <4>3 DEF HubDeclares
      <4> QED BY <3>2, <4>1, <4>3, <4>4 DEF pinnedIdentityFor
    <3> QED BY <3>1, <3>2
  <2> HIDE DEF pinned
  <2> QED BY <2>1, <2>2, <2>4 DEF DeclaredInv, TypeOK, Job
<1>8. ASSUME NEW r \in Requests, NEW id \in Identities, Verify(r, id)
      PROVE  DeclaredInv'
  BY <1>8 DEF Verify, check, DeclaredInv, HubDeclares, TypeOK, Job
<1>9. ASSUME NEW r \in Requests, WriteBinary(r) PROVE DeclaredInv'
  BY <1>9 DEF WriteBinary, DeclaredInv, TypeOK, Job
<1>10. ASSUME NEW r \in Requests, LockAndLoad(r) PROVE DeclaredInv'
  BY <1>10 DEF LockAndLoad, DeclaredInv, TypeOK, Job
<1>11. ASSUME NEW r \in Requests, AddAndSave(r) PROVE DeclaredInv'
  BY <1>11 DEF AddAndSave, DeclaredInv, TypeOK, Job, At
<1>12. ASSUME NEW r \in Requests, Fail(r) PROVE DeclaredInv'
  BY <1>12 DEF Fail, DeclaredInv, TypeOK, Job, At
<1>13. CASE Wait
  BY <1>13 DEF Wait, DeclaredInv
<1>14. CASE Crash
  BY <1>14 DEF Crash, DeclaredInv, At
<1>15. CASE UNCHANGED vars
  BY <1>15 DEF DeclaredInv, vars
<1>16. ASSUME NEW rs \in Configs, FromConfigFails(rs) PROVE DeclaredInv'
  BY <1>16 DEF FromConfigFails, DeclaredInv, At
<1>17. ASSUME NEW r \in Requests, NEW b \in Builds, Local(r, b) PROVE DeclaredInv'
  <2>1. ASSUME NEW s \in Requests, s # r PROVE job'[s] = At("none")
    BY <1>17, <2>1 DEF Local
  <2>2. job'[r] = [At("write") EXCEPT !.key = <<r.name, LocalVersion>>,
                                      !.index = b]
    BY <1>17 DEF Local
  <2>3. r.name \in Locals
    BY <1>17 DEF Local
  <2>4. job'[r].stage = "write" /\ job'[r].key[1] = r.name
    BY <2>2 DEF At
  <2>5. \A s \in Requests : s # r => job'[s].stage = "none"
    BY <2>1 DEF At
  <2> QED BY <2>3, <2>4, <2>5 DEF DeclaredInv, HubDeclares
<1> QED BY <1>2, <1>3, <1>4, <1>5, <1>6, <1>7, <1>8, <1>9, <1>10, <1>11, <1>12,
           <1>13, <1>14, <1>15, <1>16, <1>17, Zenon DEF Next, Step

\* Where the hub always declares a signer, no entry is ever recorded under
\* anyone else, not even when first installs of several versions race: the
\* stale pin a goroutine may hold is the hub's identity, never "anyone".
THEOREM DeclaredPinned == Spec => []DeclaredSignerPinned
<1>1. Init => DeclaredInv /\ DeclaredSignerPinned
  BY DEF Init, DeclaredInv, DeclaredSignerPinned, At, Fetched, Verified
<1>2. IInv /\ DeclaredInv /\ DeclaredSignerPinned /\ [Next]_vars
        => DeclaredSignerPinned'
  <2> SUFFICES ASSUME IInv, DeclaredInv, DeclaredSignerPinned, [Next]_vars,
                      manifest' # manifest
               PROVE  DeclaredSignerPinned'
    BY DEF DeclaredSignerPinned
  <2>1. PICK r \in Requests : AddAndSave(r)
    BY DEF Next, Step, FromConfig, FromConfigFails, InstallOne, Local, Begin, Start, Resolve, fetchIndex,
           ReadPin, Verify, WriteBinary, LockAndLoad, Fail, Wait, Crash, vars, disk
  <2> DEFINE k == job[r].key
             entry == EntryOf(r)
  <2>2. manifest' = [manifest EXCEPT ![k] = entry]
    BY <2>1, ConstantTypes DEF IInv, AddAndSave, LockInv, Mutex
  <2>3. k \in Keys
    BY <2>1 DEF IInv, AddAndSave, JobInv, Fetched
  <2>4. HubDeclares(k[1]) => entry.signer \in Declared(k[1])
    BY <2>1, <2>3 DEF AddAndSave, DeclaredInv, Verified, EntryOf
  <2> HIDE DEF k, entry
  <2>5. \A l \in Keys : manifest'[l] # None /\ HubDeclares(l[1]) =>
                          manifest'[l].signer \in Declared(l[1])
    BY <2>2, <2>3, <2>4, DeclaredMeans DEF IInv, TypeOK
  <2> QED BY <2>5 DEF DeclaredSignerPinned, Declared, HubDeclares
<1>3. IInv /\ DeclaredInv /\ DeclaredSignerPinned /\ [Next]_vars => DeclaredInv'
  BY DeclaredStep
<1> QED BY <1>1, <1>2, <1>3, IInvHolds, PTL DEF Spec

----------------------------------------------------------------------------
(* A command that returns without error has served what it was asked for.  *)

\* A goroutine for a pinned version works on that version; one that failed has
\* cancelled the others, so that Wait returns its error.  A request without a
\* goroutine was found in the manifest, and one whose goroutine is done is
\* there by now, under a name the hub may have answered with.
Served(m, r) ==
    \E name \in MayInstall(r) : installedInManifest(m, Under(r, name))

ServedInv ==
    /\ \A r \in Requests :
         /\ job[r].stage \in Fetched \cup {"fetch"} /\ r.version # 0 =>
              job[r].key[2] = r.version
         /\ job[r].stage = "failed" => cancelled
    /\ \A r \in wanted :
         proc = "running" /\ job[r].stage \in {"none", "done"} =>
           Served(manifest, r)
    /\ proc = "returned" /\ ~err => \A r \in wanted : Served(manifest, r)

EntriesStay == \A k \in Keys : manifest[k] # None => manifest'[k] # None

\* What a command has served, by now or from the start, stays served.
ServedStays ==
    \A r \in wanted : job[r].stage \in {"none", "done"} /\ Served(manifest, r) =>
                        Served(manifest, r)'

\* A request is in the manifest when an entry for it is.
LEMMA InManifest ==
    ASSUME NEW m, NEW r \in Request
    PROVE  installedInManifest(m, r) <=>
             \E v \in Versions : m[<<r.name, v>>] # None /\ (r.version # 0 => v = r.version)
<1>1. r.name \in Plugins /\ r.version \in 0..MaxVersion /\ MaxVersion \in Nat
  BY ConstantTypes DEF Request
<1>2. CASE r.version = 0
  <2>1. Latest(m, r.name) # None <=> Installed(m, r.name) # {}
    BY <1>1, LatestSound
  <2> QED BY <1>2, <2>1 DEF installedInManifest, Installed
<1>3. CASE r.version # 0
  <2>1. r.version \in Versions
    BY <1>1, <1>3 DEF Versions
  <2> QED BY <1>3, <2>1 DEF installedInManifest
<1> QED BY <1>2, <1>3

\* A request is served when an entry is there under a name it may be installed
\* under, its own among them.
LEMMA ServedMeans ==
    ASSUME NEW m, NEW r \in Requests
    PROVE  /\ \A name \in MayInstall(r) : Under(r, name) \in Request
           /\ Served(m, r) <=>
                \E name \in MayInstall(r), v \in Versions :
                  m[<<name, v>>] # None /\ (r.version # 0 => v = r.version)
           /\ installedInManifest(m, r) => Served(m, r)
<1>1. r \in Request
  BY ConstantTypes
<1>2. ASSUME NEW name \in MayInstall(r)
      PROVE  /\ Under(r, name) \in Request
             /\ Under(r, name).name = name /\ Under(r, name).version = r.version
  BY <1>1, <1>2, MayInstallType DEF Under, Request
<1>3. ASSUME NEW name \in MayInstall(r)
      PROVE  installedInManifest(m, Under(r, name)) <=>
               \E v \in Versions :
                 m[<<name, v>>] # None /\ (r.version # 0 => v = r.version)
  <2> DEFINE u == Under(r, name)
  <2>1. u \in Request /\ u.name = name /\ u.version = r.version
    BY <1>2
  <2> HIDE DEF u
  <2>2. installedInManifest(m, u) <=>
          \E v \in Versions : m[<<u.name, v>>] # None /\ (u.version # 0 => v = u.version)
    BY <2>1, InManifest
  <2> QED BY <2>1, <2>2 DEF u
<1>4. Served(m, r) <=>
        \E name \in MayInstall(r), v \in Versions :
          m[<<name, v>>] # None /\ (r.version # 0 => v = r.version)
  BY <1>3 DEF Served
<1>5. r.name \in MayInstall(r)
  BY DEF MayInstall
<1>6. installedInManifest(m, r) => Served(m, r)
  BY <1>1, <1>4, <1>5, InManifest
<1> QED BY <1>2, <1>4, <1>6

\* Served in the next state is Served of the next manifest.
LEMMA ServedPrimed ==
    ASSUME NEW r
    PROVE  Served(manifest, r)' <=> Served(manifest', r)
BY DEF Served, installedInManifest, Latest, Installed, Under, MayInstall

\* While entries stay, what was served is.
LEMMA StaysServed ==
    ASSUME EntriesStay, NEW r \in Requests, Served(manifest, r)
    PROVE  Served(manifest, r)'
<1>1. PICK name \in MayInstall(r), v \in Versions :
        manifest[<<name, v>>] # None /\ (r.version # 0 => v = r.version)
  BY ServedMeans
<1>2. <<name, v>> \in Keys
  BY MayInstallType DEF Keys
<1>3. manifest'[<<name, v>>] # None
  BY <1>1, <1>2 DEF EntriesStay
<1>4. Served(manifest', r)
  BY <1>1, <1>3, ServedMeans
<1> QED BY <1>4, ServedPrimed

\* The run-time resolver finds a binary for what is in the manifest: the key of
\* an entry of the plugin, in the version that is asked for.
LEMMA ResolverSound ==
    ASSUME NEW m, NEW r \in Request
    PROVE  /\ getBinary(m, r) # None <=> installedInManifest(m, r)
           /\ getBinary(m, r) # None =>
                LET k == getBinary(m, r) IN
                k \in Keys /\ m[k] # None /\ k[1] = r.name
                /\ (r.version # 0 => k[2] = r.version)
<1>1. r.name \in Plugins /\ r.version \in 0..MaxVersion /\ MaxVersion \in Nat
  BY ConstantTypes DEF Request
<1>2. CASE r.version = 0
  <2>1. getBinary(m, r) = Latest(m, r.name)
    BY <1>2 DEF getBinary
  <2>2. getBinary(m, r) # None <=> installedInManifest(m, r)
    BY <1>2, <2>1 DEF installedInManifest
  <2>3. ASSUME Latest(m, r.name) # None
        PROVE  LET k == Latest(m, r.name) IN
               k \in Keys /\ m[k] # None /\ k[1] = r.name
    <3>1. PICK v \in Versions : Latest(m, r.name) = <<r.name, v>>
                                /\ m[<<r.name, v>>] # None
      BY <1>1, <2>3, LatestSound
    <3>2. <<r.name, v>> \in Keys /\ <<r.name, v>>[1] = r.name
      BY <1>1 DEF Keys
    <3> QED BY <3>1, <3>2
  <2> QED BY <1>2, <2>1, <2>2, <2>3
<1>3. CASE r.version # 0
  <2> DEFINE k == <<r.name, r.version>>
  <2>1. k \in Keys /\ k # None /\ k[1] = r.name /\ k[2] = r.version
    BY <1>1, <1>3, ConstantTypes DEF Keys, Versions
  <2>2. getBinary(m, r) = IF m[k] # None THEN k ELSE None
    BY <1>3 DEF getBinary
  <2>3. installedInManifest(m, r) <=> m[k] # None
    BY <1>3 DEF installedInManifest
  <2> HIDE DEF k
  <2> QED BY <2>1, <2>2, <2>3
<1> QED BY <1>2, <1>3

\* A command has served, when it begins, what it starts no goroutine for.
LEMMA ServedAtStart ==
    ASSUME NEW rs \in SUBSET Requests
    PROVE  /\ \A todo : Begin(rs, todo)
                  /\ (\A r \in rs \ todo : Served(manifest, r)) => ServedInv'
           /\ FromConfig(rs) => ServedInv'
           /\ FromConfigFails(rs) => ServedInv'
<1> USE DEF Fetched
<1>1. ASSUME NEW todo, Begin(rs, todo),
             \A r \in rs \ todo : Served(manifest, r)
      PROVE  ServedInv'
  <2>1. /\ proc' = "running" /\ wanted' = rs /\ manifest' = manifest
        /\ job' = [r \in Requests |-> At(IF r \in todo THEN "queued" ELSE "none")]
    BY <1>1 DEF Begin, disk
  <2>2. \A r \in Requests : job'[r].stage = IF r \in todo THEN "queued" ELSE "none"
    BY <2>1 DEF At
  <2>3. \A r \in rs \ todo : Served(manifest, r)'
    BY <1>1, <2>1, ServedPrimed
  <2> QED BY <2>1, <2>2, <2>3 DEF ServedInv
<1>2. ASSUME FromConfig(rs) PROVE ServedInv'
  <2>1. \A r \in rs \ missingFromConfig(rs) : Served(manifest, r)
    BY ServedMeans DEF missingFromConfig
  <2> QED BY <1>1, <1>2, <2>1 DEF FromConfig
<1>3. ASSUME FromConfigFails(rs) PROVE ServedInv'
  BY <1>3 DEF FromConfigFails, ServedInv, At
<1> QED BY <1>1, <1>2, <1>3

\* Where a save takes away nothing that was served, the command serves more and
\* more of what it was asked for.
LEMMA ServedStep ==
    ASSUME TypeOK, JobInv, ServedInv, ServedStays, [AnyNext]_vars
    PROVE  ServedInv'
<1> USE Fields, ConstantTypes DEF Fetched
<1>0. ASSUME manifest' = manifest, NEW r, Served(manifest, r)
      PROVE  Served(manifest, r)'
  BY <1>0, ServedPrimed
<1>w. wanted \subseteq Requests
  BY DEF TypeOK
<1>2. ASSUME NEW rs \in SUBSET Requests, FromConfig(rs) PROVE ServedInv'
  BY <1>2, ServedAtStart
<1>3. ASSUME NEW r \in Requests, InstallOne(r) PROVE ServedInv'
  <2>1. {r} \in SUBSET Requests /\ Begin({r}, {r})
    BY <1>3 DEF InstallOne
  <2>2. \A s \in {r} \ {r} : Served(manifest, s)
    OBVIOUS
  <2> QED BY <2>1, <2>2, ServedAtStart, Zenon
<1>4. ASSUME NEW r \in Requests, proc = "running", UNCHANGED <<proc, wanted, err>>,
             NEW j, job' = [job EXCEPT ![r] = j], cancelled => cancelled',
             j.stage \notin {"none", "done"},
             j.stage = "failed" => cancelled',
             j.stage \in Fetched \cup {"fetch"} /\ r.version # 0 => j.key[2] = r.version
      PROVE  ServedInv'
  <2>1. job'[r] = j /\ \A s \in Requests : s # r => job'[s] = job[s]
    BY <1>4
  <2>2. \A s \in wanted : job'[s].stage \in {"none", "done"} =>
                            Served(manifest, s)'
    BY <1>w, <1>4, <2>1 DEF ServedInv, ServedStays
  <2> QED BY <1>4, <2>1, <2>2 DEF ServedInv
<1>5. ASSUME NEW r \in Requests, Start(r) PROVE ServedInv'
  <2> DEFINE j == [job[r] EXCEPT !.stage = "resolve"]
  <2>1. job' = [job EXCEPT ![r] = j] /\ j.stage = "resolve"
    BY <1>5 DEF Start, Job
  <2> HIDE DEF j
  <2> QED BY <1>4, <1>5, <2>1 DEF Start
<1>6. ASSUME NEW r \in Requests, NEW d \in Details[r.name], Resolve(r, d)
      PROVE  ServedInv'
  <2> DEFINE k == ResolveRelease(r, d)
             j == [job[r] EXCEPT !.stage = "fetch", !.key = k,
                                 !.recorded = IndexDigest(k, d),
                                 !.identity = d.identity]
  <2>1. job' = [job EXCEPT ![r] = j] /\ j.stage = "fetch" /\ j.key = k
    BY <1>6 DEF Resolve, Job
  <2>2. r.version # 0 => k[2] = r.version
    BY DEF ResolveRelease
  <2> HIDE DEF j, k
  <2> QED BY <1>4, <1>6, <2>1, <2>2 DEF Resolve
<1>7. ASSUME NEW r \in Requests, NEW i \in Indexes, fetchIndex(r, i)
      PROVE  ServedInv'
  <2> DEFINE j == [job[r] EXCEPT !.stage = "pin", !.index = i]
  <2>1. job' = [job EXCEPT ![r] = j] /\ j.stage = "pin" /\ j.key = job[r].key
    BY <1>7 DEF fetchIndex, Job
  <2> HIDE DEF j
  <2>2. r.version # 0 => j.key[2] = r.version
    BY <1>7, <2>1 DEF fetchIndex, ServedInv
  <2> QED BY <1>4, <1>7, <2>1, <2>2 DEF fetchIndex
<1>8. ASSUME NEW r \in Requests, ReadPin(r) PROVE ServedInv'
  <2> DEFINE pinned == pinnedIdentityFor(Find(manifest, job[r].key[1]), job[r].identity)
             j == [job[r] EXCEPT !.stage = "verify", !.identity = pinned]
  <2>1. job' = [job EXCEPT ![r] = j] /\ j.stage = "verify" /\ j.key = job[r].key
    BY <1>8 DEF ReadPin, Job
  <2> HIDE DEF j
  <2>2. r.version # 0 => j.key[2] = r.version
    BY <1>8, <2>1 DEF ReadPin, ServedInv
  <2> QED BY <1>4, <1>8, <2>1, <2>2 DEF ReadPin
<1>9. ASSUME NEW r \in Requests, NEW id \in Identities, Verify(r, id)
      PROVE  ServedInv'
  <2> DEFINE j == [job[r] EXCEPT !.stage = "write", !.signer = id]
  <2>1. job' = [job EXCEPT ![r] = j] /\ j.stage = "write" /\ j.key = job[r].key
    BY <1>9 DEF Verify, Job
  <2> HIDE DEF j
  <2>2. r.version # 0 => j.key[2] = r.version
    BY <1>9, <2>1 DEF Verify, ServedInv
  <2> QED BY <1>4, <1>9, <2>1, <2>2 DEF Verify
<1>10. ASSUME NEW r \in Requests, WriteBinary(r) PROVE ServedInv'
  <2> DEFINE j == [job[r] EXCEPT !.stage = "update"]
  <2>1. job' = [job EXCEPT ![r] = j] /\ j.stage = "update" /\ j.key = job[r].key
    BY <1>10 DEF WriteBinary, Job
  <2> HIDE DEF j
  <2>2. r.version # 0 => j.key[2] = r.version
    BY <1>10, <2>1 DEF WriteBinary, ServedInv
  <2> QED BY <1>4, <1>10, <2>1, <2>2 DEF WriteBinary
<1>11. ASSUME NEW r \in Requests, LockAndLoad(r) PROVE ServedInv'
  <2> DEFINE j == [job[r] EXCEPT !.stage = "loaded"]
  <2>1. job' = [job EXCEPT ![r] = j] /\ j.stage = "loaded" /\ j.key = job[r].key
    BY <1>11 DEF LockAndLoad, Job
  <2> HIDE DEF j
  <2>2. r.version # 0 => j.key[2] = r.version
    BY <1>11, <2>1 DEF LockAndLoad, ServedInv
  <2> QED BY <1>4, <1>11, <2>1, <2>2 DEF LockAndLoad
<1>12. ASSUME NEW r \in Requests, AddAndSave(r) PROVE ServedInv'
  <2>1. /\ job[r].key \in Keys /\ job[r].key[1] \in MayInstall(r)
        /\ r.version # 0 => job[r].key[2] = r.version
    BY <1>12 DEF AddAndSave, JobInv, ServedInv
  <2>2. manifest'[job[r].key] # None
    <3>1. EntryOf(r) # None
      BY <1>12, EntryType DEF AddAndSave
    <3> QED BY <1>12, <2>1, <3>1 DEF AddAndSave, TypeOK
  <2>3. Served(manifest', r)
    <3>1. PICK v \in Versions : job[r].key = <<job[r].key[1], v>>
      BY <2>1 DEF Keys
    <3> QED BY <2>1, <2>2, <3>1, ServedMeans
  <2>4. job'[r] = At("done") /\ \A s \in Requests : s # r => job'[s] = job[s]
    BY <1>12 DEF AddAndSave
  <2>5. \A s \in wanted : job'[s].stage \in {"none", "done"} =>
                            Served(manifest, s)'
    <3> SUFFICES ASSUME NEW s \in wanted, job'[s].stage \in {"none", "done"}
                 PROVE  Served(manifest, s)'
      OBVIOUS
    <3>1. CASE s = r
      BY <2>3, <3>1, ServedPrimed
    <3>2. CASE s # r
      BY <1>w, <1>12, <2>4, <3>2 DEF ServedInv, ServedStays, AddAndSave
    <3> QED BY <3>1, <3>2
  <2> QED BY <1>12, <2>4, <2>5 DEF ServedInv, AddAndSave, At
<1>13. ASSUME NEW r \in Requests, Fail(r) PROVE ServedInv'
  <2>1. At("failed").stage = "failed"
    BY DEF At
  <2> QED BY <1>4, <1>13, <2>1 DEF Fail
<1>14. CASE Wait
  <2>1. \A r \in wanted : ~cancelled => job[r].stage \in {"none", "done"}
    BY <1>w, <1>14 DEF Wait, ServedInv
  <2>2. ~err' => \A r \in wanted' : Served(manifest, r)'
    BY <1>w, <1>14, <2>1 DEF Wait, ServedInv, ServedStays
  <2> QED BY <1>14, <2>2 DEF Wait, ServedInv
<1>15. CASE Crash
  BY <1>15 DEF Crash, ServedInv, At
<1>16. CASE UNCHANGED vars
  <2>1. \A r \in wanted : Served(manifest, r) =>
                            Served(manifest, r)'
    BY <1>0, <1>16 DEF vars, disk
  <2> QED BY <1>16, <2>1 DEF ServedInv, vars
<1>17. ASSUME NEW rs \in SUBSET Requests, FromConfigFails(rs) PROVE ServedInv'
  BY <1>17, ServedAtStart
<1>18. ASSUME NEW r \in Requests, NEW b \in Builds, Local(r, b) PROVE ServedInv'
  <2>1. ASSUME NEW s \in Requests, s # r PROVE job'[s] = At("none")
    BY <1>18, <2>1 DEF Local
  <2>2. job'[r] = [At("write") EXCEPT !.key = <<r.name, LocalVersion>>,
                                      !.index = b]
    BY <1>18 DEF Local
  <2>3. /\ job'[r].stage = "write"
        /\ r.version # 0 => job'[r].key[2] = r.version
    BY <1>18, <2>2 DEF At, Local
  <2>4. \A s \in Requests : s # r => job'[s].stage = "none"
    BY <2>1 DEF At
  <2> QED BY <1>18, <2>3, <2>4 DEF ServedInv, Local
<1> QED BY <1>2, <1>3, <1>5, <1>6, <1>7, <1>8, <1>9, <1>10, <1>11, <1>12, <1>13,
           <1>14, <1>15, <1>16, <1>17, <1>18, Zenon DEF AnyNext, Step

\* Saving under the lock loses no entry.
LEMMA SavesKeep ==
    ASSUME TypeOK, LockInv, JobInv, [AnyNext]_vars
    PROVE  EntriesStay
<1> SUFFICES ASSUME manifest' # manifest PROVE EntriesStay
  BY DEF EntriesStay
<1>1. PICK r \in Requests : AddAndSave(r)
  BY DEF AnyNext, Step, FromConfig, FromConfigFails, InstallOne, Local, Begin, Start,
         Resolve, fetchIndex, ReadPin, Verify, WriteBinary, LockAndLoad, Fail, Wait,
         Crash, vars, disk
<1> DEFINE entry == EntryOf(r)
<1>2. job[r].key \in Keys /\ entry # None
  BY <1>1, EntryType, ConstantTypes DEF AddAndSave
<1>3. manifest' = [manifest EXCEPT ![job[r].key] = entry]
  BY <1>1, ConstantTypes DEF AddAndSave, LockInv, Mutex
<1> HIDE DEF entry
<1> QED BY <1>2, <1>3 DEF EntriesStay, TypeOK

\* A command that returns without error leaves a binary for everything it was
\* asked for, whatever crashed or failed before it and however its goroutines
\* interleave: "a run installs what it needs".  The binary is under the name
\* that was asked for or under one that the hub answers it with, whatever the
\* hub answers.
THEOREM RequestsServed == Spec => []InstallsWhatIsRequested
<1>1. Init => ServedInv
  BY DEF Init, ServedInv, At, Fetched
<1>2. IInv /\ ServedInv /\ [Next]_vars => ServedInv'
  <2> SUFFICES ASSUME IInv, ServedInv, [Next]_vars PROVE ServedInv'
    OBVIOUS
  <2>1. [AnyNext]_vars /\ EntriesStay
    BY NextIsAny, SavesKeep DEF IInv
  <2>2. wanted \subseteq Requests
    BY DEF IInv, TypeOK
  <2>3. ServedStays
    BY <2>1, <2>2, StaysServed DEF ServedStays
  <2> QED BY <2>1, <2>3, ServedStep DEF IInv
<1>3. ASSUME IInv, ServedInv PROVE InstallsWhatIsRequested
  <2> SUFFICES ASSUME proc = "returned", ~err, NEW r \in wanted
               PROVE  \E name \in MayInstall(r) :
                        LET k == getBinary(manifest, Under(r, name)) IN
                        k # None /\ binary[k] # None
    BY DEF InstallsWhatIsRequested
  <2>1. r \in Requests
    BY <1>3 DEF IInv, TypeOK
  <2>2. PICK name \in MayInstall(r) : installedInManifest(manifest, Under(r, name))
    BY <1>3 DEF ServedInv, Served
  <2>3. Under(r, name) \in Request
    BY <2>1, ServedMeans
  <2> DEFINE k == getBinary(manifest, Under(r, name))
  <2>4. k # None /\ k \in Keys /\ manifest[k] # None
    BY <2>2, <2>3, ResolverSound
  <2> HIDE DEF k
  <2>5. k # None /\ binary[k] # None
    BY <1>3, <2>4 DEF IInv, DiskInv
  <2> QED BY <2>5 DEF k
<1> QED BY <1>1, <1>2, <1>3, IInvHolds, PTL DEF Spec

----------------------------------------------------------------------------
(* The pinned signer.                                                      *)

\* Entries of published plugins have a signer, those of local ones none; no
\* goroutine for a local plugin reaches the verification.
SignerInv ==
    /\ \A k \in Keys : manifest[k] # None =>
         IF k[1] \in Locals THEN manifest[k].signer = None
                            ELSE manifest[k].signer \in Identities
    /\ \A r \in Requests : r.name \in Locals =>
         job[r].signer = None /\ job[r].stage \notin {"fetch", "pin", "verify"}

Insisting == {"verify", "write", "update", "loaded"}

\* A goroutine that is alone for the plugin it installs insists on a signer of
\* the entries that are there, and who it insists on is who it verified.
PinInv ==
    \A r \in Requests : r.name \notin Locals =>
        /\ job[r].stage \in Insisting /\ Alone(job[r].key[1])
             /\ Signers(manifest, job[r].key[1]) # {} =>
               job[r].identity \in Signers(manifest, job[r].key[1])
        /\ job[r].stage \in Verified /\ job[r].identity # None =>
             job[r].signer = job[r].identity

\* The signers of the entries of a plugin.
LEMMA SignersMeans ==
    ASSUME NEW m, NEW name
    PROVE  \A id : id \in Signers(m, name) <=>
             \E k \in Keys : k[1] = name /\ m[k] # None /\ m[k].signer = id
BY DEF Signers

\* A plugin with entries is found by Find, whose signer is one of them.
LEMMA FindPins ==
    ASSUME TypeOK, SignerInv, NEW name \in Plugins, name \notin Locals,
           Signers(manifest, name) # {}, NEW hubIdentity
    PROVE  pinnedIdentityFor(Find(manifest, name), hubIdentity)
             \in Signers(manifest, name)
<1>1. PICK k \in Keys : k[1] = name /\ manifest[k] # None
  BY SignersMeans
<1>2. PICK u \in Versions : k = <<name, u>>
  BY <1>1 DEF Keys
<1>3. Installed(manifest, name) # {}
  BY <1>1, <1>2 DEF Installed
<1>4. PICK v \in Versions : /\ Find(manifest, name) = manifest[<<name, v>>]
                            /\ manifest[<<name, v>>] # None
  BY <1>3, FindSound
<1>5. <<name, v>> \in Keys /\ <<name, v>>[1] = name
  BY DEF Keys
<1>6. manifest[<<name, v>>].signer \in Identities
  BY <1>4, <1>5 DEF SignerInv
<1>7. manifest[<<name, v>>].signer # None
  BY <1>6, ConstantTypes
<1>8. pinnedIdentityFor(Find(manifest, name), hubIdentity) = manifest[<<name, v>>].signer
  BY <1>4, <1>7 DEF pinnedIdentityFor
<1> QED BY <1>4, <1>5, <1>8, SignersMeans

\* Every step keeps the signers of entries and goroutines in order.
LEMMA SignerStep ==
    ASSUME IInv, SignerInv, [Next]_vars
    PROVE  SignerInv'
<1> USE Fields, ConstantTypes
<1> TypeOK
  BY DEF IInv
<1>1. ASSUME manifest' = manifest,
             \A r \in Requests : r.name \in Locals =>
               job'[r].signer = None /\ job'[r].stage \notin {"fetch", "pin", "verify"}
      PROVE  SignerInv'
  BY <1>1 DEF SignerInv
<1>2. ASSUME NEW rs, NEW todo, Begin(rs, todo) PROVE SignerInv'
  BY <1>1, <1>2 DEF Begin, At, disk
<1>3. ASSUME NEW rs \in Configs, FromConfig(rs) PROVE SignerInv'
  BY <1>2, <1>3 DEF FromConfig
<1>4. ASSUME NEW r \in Requests, InstallOne(r) PROVE SignerInv'
  BY <1>2, <1>4 DEF InstallOne
<1>5. ASSUME NEW r \in Requests, Start(r) PROVE SignerInv'
  BY <1>1, <1>5 DEF Start, SignerInv, TypeOK, Job, disk
<1>6. ASSUME NEW r \in Requests, NEW d \in Details[r.name], Resolve(r, d)
      PROVE  SignerInv'
  <2>1. r.name \notin Locals
    OBVIOUS
  <2> QED BY <1>1, <1>6, <2>1 DEF Resolve, SignerInv, TypeOK, Job, disk
<1>7. ASSUME NEW r \in Requests, NEW i \in Indexes, fetchIndex(r, i)
      PROVE  SignerInv'
  BY <1>1, <1>7 DEF fetchIndex, SignerInv, TypeOK, Job, disk
<1>8. ASSUME NEW r \in Requests, ReadPin(r) PROVE SignerInv'
  BY <1>1, <1>8 DEF ReadPin, SignerInv, TypeOK, Job, disk
<1>9. ASSUME NEW r \in Requests, NEW id \in Identities, Verify(r, id)
      PROVE  SignerInv'
  BY <1>1, <1>9 DEF Verify, SignerInv, TypeOK, Job, disk
<1>10. ASSUME NEW r \in Requests, WriteBinary(r) PROVE SignerInv'
  BY <1>1, <1>10 DEF WriteBinary, SignerInv, TypeOK, Job
<1>11. ASSUME NEW r \in Requests, LockAndLoad(r) PROVE SignerInv'
  BY <1>1, <1>11 DEF LockAndLoad, SignerInv, TypeOK, Job, disk
<1>12. ASSUME NEW r \in Requests, AddAndSave(r) PROVE SignerInv'
  <2> DEFINE entry == EntryOf(r)
  <2>1. manifest' = [manifest EXCEPT ![job[r].key] = entry]
    BY <1>12 DEF IInv, AddAndSave, LockInv, Mutex
  <2>2. job[r].key \in Keys /\ (job[r].key[1] \in Locals <=> r.name \in Locals)
    BY <1>12, MayInstallType DEF AddAndSave, IInv, JobInv, Fetched
  <2>3. IF r.name \in Locals THEN entry.signer = None ELSE entry.signer \in Identities
    BY <1>12 DEF AddAndSave, IInv, JobInv, Fetched, Verified, SignerInv, EntryOf,
                 Identities
  <2>4. \A s \in Requests : s.name \in Locals =>
          job'[s].signer = None /\ job'[s].stage \notin {"fetch", "pin", "verify"}
    BY <1>12 DEF AddAndSave, SignerInv, TypeOK, At
  <2> HIDE DEF entry
  <2> QED BY <2>1, <2>2, <2>3, <2>4 DEF SignerInv, TypeOK
<1>13. ASSUME NEW r \in Requests, Fail(r) PROVE SignerInv'
  BY <1>1, <1>13 DEF Fail, SignerInv, TypeOK, At, disk
<1>14. CASE Wait
  BY <1>14 DEF Wait, SignerInv, disk
<1>15. CASE Crash
  BY <1>1, <1>15 DEF Crash, At, disk
<1>16. CASE UNCHANGED vars
  BY <1>16 DEF SignerInv, vars, disk
<1>17. ASSUME NEW rs \in Configs, FromConfigFails(rs) PROVE SignerInv'
  BY <1>1, <1>17 DEF FromConfigFails, At, disk
<1>18. ASSUME NEW r \in Requests, NEW b \in Builds, Local(r, b) PROVE SignerInv'
  BY <1>1, <1>18 DEF Local, At, disk
<1> QED BY <1>3, <1>4, <1>5, <1>6, <1>7, <1>8, <1>9, <1>10, <1>11, <1>12, <1>13,
           <1>14, <1>15, <1>16, <1>17, <1>18, Zenon DEF Next, Step

\* A goroutine that goes on while the manifest stays leaves the others as they
\* were, and whether they are alone.
LEMMA PinOneMoves ==
    ASSUME TypeOK, PinInv, NEW r \in Requests, manifest' = manifest,
           NEW j, job' = [job EXCEPT ![r] = j],
           job[r].stage # "none", j.stage # "none",
           r.name \notin Locals =>
             /\ j.stage \in Insisting /\ Alone(j.key[1])
                  /\ Signers(manifest, j.key[1]) # {} =>
                    j.identity \in Signers(manifest, j.key[1])
             /\ j.stage \in Verified /\ j.identity # None => j.signer = j.identity
    PROVE  PinInv'
<1>1. job'[r] = j /\ \A s \in Requests : s # r => job'[s] = job[s]
  BY DEF TypeOK
<1>2. \A s \in Requests : job'[s].stage = "none" <=> job[s].stage = "none"
  BY <1>1
<1>3. \A name : Alone(name)' <=> Alone(name)
  BY <1>2 DEF Alone
<1>4. \A name : Signers(manifest, name)' = Signers(manifest, name)
  BY DEF Signers
<1> QED BY <1>1, <1>3, <1>4 DEF PinInv

\* A goroutine that saves while alone records a signer that was there.
LEMMA SavesPinned ==
    ASSUME IInv, SignerInv, PinInv, NEW r \in Requests, AddAndSave(r),
           Alone(job[r].key[1]), Signers(manifest, job[r].key[1]) # {}
    PROVE  EntryOf(r).signer \in Signers(manifest, job[r].key[1])
<1> DEFINE name == job[r].key[1]
<1>1. EntryOf(r).signer = job[r].signer /\ job[r].stage = "loaded"
  BY DEF EntryOf, AddAndSave
<1>0. name \in Locals <=> r.name \in Locals
  BY <1>1, MayInstallType DEF IInv, JobInv, Fetched
<1>2. CASE r.name \in Locals
  <2>1. PICK k \in Keys : k[1] = name /\ manifest[k] # None
    BY SignersMeans
  <2>2. manifest[k].signer = None /\ job[r].signer = None
    BY <1>0, <1>2, <2>1 DEF SignerInv
  <2> QED BY <1>1, <2>1, <2>2, SignersMeans
<1>3. CASE r.name \notin Locals
  <2>1. job[r].identity \in Signers(manifest, name)
    BY <1>1, <1>3 DEF PinInv, Insisting
  <2>2. PICK k \in Keys : /\ k[1] = name /\ manifest[k] # None
                          /\ manifest[k].signer = job[r].identity
    BY <2>1, SignersMeans
  <2>3. job[r].identity # None
    BY <1>0, <1>3, <2>2, ConstantTypes DEF SignerInv
  <2>4. job[r].signer = job[r].identity
    BY <1>1, <1>3, <2>3 DEF PinInv, Verified
  <2> QED BY <1>1, <2>1, <2>4
<1> QED BY <1>2, <1>3

\* Saving changes the signers of no other plugin.
LEMMA SavesOwn ==
    ASSUME IInv, NEW r \in Requests, AddAndSave(r)
    PROVE  LET own == job[r].key[1] IN
           /\ \A name : name # own =>
                Signers(manifest', name) = Signers(manifest, name)
           /\ Signers(manifest', own) \subseteq
                Signers(manifest, own) \cup {EntryOf(r).signer}
<1> DEFINE entry == EntryOf(r)
           k == job[r].key
<1>1. manifest' = [manifest EXCEPT ![k] = entry]
  BY ConstantTypes DEF IInv, AddAndSave, LockInv, Mutex
<1>2. k \in Keys /\ entry # None
  BY EntryType, ConstantTypes DEF AddAndSave, IInv, JobInv, Fetched
<1> HIDE DEF entry, k
<1>3. manifest'[k] = entry /\ \A l \in Keys : l # k => manifest'[l] = manifest[l]
  BY <1>1, <1>2 DEF IInv, TypeOK
<1>4. ASSUME NEW name, name # k[1]
      PROVE  Signers(manifest', name) = Signers(manifest, name)
  BY <1>2, <1>3, <1>4 DEF Signers
<1>5. ASSUME NEW id \in Signers(manifest', k[1])
      PROVE  id \in Signers(manifest, k[1]) \cup {entry.signer}
  <2>1. PICK l \in Keys : l[1] = k[1] /\ manifest'[l] # None /\ manifest'[l].signer = id
    BY <1>5, SignersMeans
  <2>2. l # k => id \in Signers(manifest, k[1])
    BY <1>3, <2>1, SignersMeans
  <2> QED BY <1>3, <2>1, <2>2
<1> QED BY <1>4, <1>5 DEF entry, k

\* Every step keeps a lone goroutine to the signers of its plugin.
LEMMA PinStep ==
    ASSUME IInv, SignerInv, PinInv, [Next]_vars
    PROVE  PinInv'
<1> USE Fields, ConstantTypes DEF Insisting, Verified
<1> TypeOK
  BY DEF IInv
<1>1. ASSUME \A r \in Requests : r.name \notin Locals => job'[r].stage \notin Insisting
      PROVE  PinInv'
  BY <1>1 DEF PinInv
<1>2. ASSUME NEW rs, NEW todo, Begin(rs, todo) PROVE PinInv'
  BY <1>1, <1>2 DEF Begin, At
<1>3. ASSUME NEW rs \in Configs, FromConfig(rs) PROVE PinInv'
  BY <1>2, <1>3 DEF FromConfig
<1>4. ASSUME NEW r \in Requests, InstallOne(r) PROVE PinInv'
  BY <1>2, <1>4 DEF InstallOne
<1>5. ASSUME NEW r \in Requests, Start(r) PROVE PinInv'
  <2> DEFINE j == [job[r] EXCEPT !.stage = "resolve"]
  <2>1. job' = [job EXCEPT ![r] = j] /\ j.stage = "resolve"
    BY <1>5 DEF Start, Job
  <2> HIDE DEF j
  <2> QED BY <1>5, <2>1, PinOneMoves DEF Start, disk
<1>6. ASSUME NEW r \in Requests, NEW d \in Details[r.name], Resolve(r, d)
      PROVE  PinInv'
  <2> DEFINE k == ResolveRelease(r, d)
             j == [job[r] EXCEPT !.stage = "fetch", !.key = k,
                                 !.recorded = IndexDigest(k, d),
                                 !.identity = d.identity]
  <2>1. job' = [job EXCEPT ![r] = j] /\ j.stage = "fetch"
    BY <1>6 DEF Resolve, Job
  <2> HIDE DEF j
  <2> QED BY <1>6, <2>1, PinOneMoves DEF Resolve, disk
<1>7. ASSUME NEW r \in Requests, NEW i \in Indexes, fetchIndex(r, i)
      PROVE  PinInv'
  <2> DEFINE j == [job[r] EXCEPT !.stage = "pin", !.index = i]
  <2>1. job' = [job EXCEPT ![r] = j] /\ j.stage = "pin"
    BY <1>7 DEF fetchIndex, Job
  <2> HIDE DEF j
  <2> QED BY <1>7, <2>1, PinOneMoves DEF fetchIndex, disk
<1>8. ASSUME NEW r \in Requests, ReadPin(r) PROVE PinInv'
  <2> DEFINE pinned == pinnedIdentityFor(Find(manifest, job[r].key[1]), job[r].identity)
             j == [job[r] EXCEPT !.stage = "verify", !.identity = pinned]
  <2>1. /\ job' = [job EXCEPT ![r] = j] /\ j.stage = "verify" /\ j.identity = pinned
        /\ j.key = job[r].key
    BY <1>8 DEF ReadPin, Job
  <2>2. r.name \notin Locals /\ Signers(manifest, job[r].key[1]) # {} =>
          pinned \in Signers(manifest, job[r].key[1])
    <3>1. job[r].key[1] \in MayInstall(r)
      BY <1>8 DEF ReadPin, IInv, JobInv, Fetched
    <3>2. job[r].key[1] \in Plugins
          /\ (r.name \notin Locals => job[r].key[1] \notin Locals)
      BY <3>1, MayInstallType
    <3> QED BY <3>2, FindPins
  <2> HIDE DEF j, pinned
  <2> QED BY <1>8, <2>1, <2>2, PinOneMoves DEF ReadPin, disk
<1>9. ASSUME NEW r \in Requests, NEW id \in Identities, Verify(r, id)
      PROVE  PinInv'
  <2> DEFINE j == [job[r] EXCEPT !.stage = "write", !.signer = id]
  <2>1. /\ job' = [job EXCEPT ![r] = j]
        /\ j.stage = "write" /\ j.identity = job[r].identity /\ j.signer = id
        /\ j.key = job[r].key
    BY <1>9 DEF Verify, Job
  <2>2. job[r].identity # None => id = job[r].identity
    BY <1>9 DEF Verify, check
  <2> HIDE DEF j
  <2>3. r.name \notin Locals /\ Alone(j.key[1]) /\ Signers(manifest, j.key[1]) # {} =>
          j.identity \in Signers(manifest, j.key[1])
    BY <1>9, <2>1 DEF Verify, PinInv
  <2> QED BY <1>9, <2>1, <2>2, <2>3, PinOneMoves DEF Verify, disk
<1>10. ASSUME NEW r \in Requests, NEW s,
              job' = [job EXCEPT ![r] = [@ EXCEPT !.stage = s]],
              manifest' = manifest, job[r].stage \in Verified, s \in Verified
       PROVE  PinInv'
  <2> DEFINE j == [job[r] EXCEPT !.stage = s]
  <2>1. /\ job' = [job EXCEPT ![r] = j] /\ j.stage = s
        /\ j.identity = job[r].identity /\ j.signer = job[r].signer
        /\ j.key = job[r].key
    BY <1>10 DEF Job
  <2> HIDE DEF j
  <2>2. r.name \notin Locals =>
          /\ Alone(j.key[1]) /\ Signers(manifest, j.key[1]) # {} =>
               j.identity \in Signers(manifest, j.key[1])
          /\ j.identity # None => j.signer = j.identity
    BY <1>10, <2>1 DEF PinInv
  <2> QED BY <1>10, <2>1, <2>2, PinOneMoves
<1>11. ASSUME NEW r \in Requests, WriteBinary(r) PROVE PinInv'
  BY <1>10, <1>11 DEF WriteBinary
<1>12. ASSUME NEW r \in Requests, LockAndLoad(r) PROVE PinInv'
  BY <1>10, <1>12 DEF LockAndLoad, disk
<1>13. ASSUME NEW r \in Requests, AddAndSave(r) PROVE PinInv'
  <2>1. job'[r].stage = "done" /\ \A s \in Requests : s # r => job'[s] = job[s]
    BY <1>13 DEF AddAndSave, At
  <2>2. job[r].stage = "loaded"
    BY <1>13 DEF AddAndSave
  <2>3. \A name : Alone(name)' <=> Alone(name)
    BY <2>1, <2>2 DEF Alone
  <2> SUFFICES ASSUME NEW s \in Requests, s.name \notin Locals
               PROVE  /\ job'[s].stage \in Insisting /\ Alone(job[s].key[1])'
                           /\ Signers(manifest', job'[s].key[1]) # {} =>
                             job'[s].identity \in Signers(manifest', job'[s].key[1])
                      /\ job'[s].stage \in Verified /\ job'[s].identity # None =>
                           job'[s].signer = job'[s].identity
    BY DEF PinInv, Signers
  <2>4. CASE s = r
    BY <2>1, <2>4
  <2>7. s # r => job'[s] = job[s] /\ (Alone(job[s].key[1])' <=> Alone(job[s].key[1]))
    BY <2>1, <2>3
  <2>5. CASE s # r /\ job[s].key[1] = job[r].key[1]
    <3>1. job[s].stage \in Insisting => ~Alone(job[s].key[1])
      BY <2>2, <2>5 DEF Alone, IInv, JobInv, Fetched
    <3> QED BY <2>5, <2>7, <3>1 DEF PinInv
  <2>6. CASE s # r /\ job[s].key[1] # job[r].key[1]
    <3>1. Signers(manifest', job[s].key[1]) = Signers(manifest, job[s].key[1])
      BY <1>13, <2>6, SavesOwn
    <3> QED BY <2>6, <2>7, <3>1 DEF PinInv
  <2> QED BY <2>4, <2>5, <2>6
<1>14. ASSUME NEW r \in Requests, Fail(r) PROVE PinInv'
  <2>1. At("failed").stage = "failed" /\ job[r].stage # "none"
    BY <1>14 DEF At, Fail, Active
  <2> QED BY <1>14, <2>1, PinOneMoves DEF Fail, disk
<1>15. ASSUME UNCHANGED <<manifest, job>> PROVE PinInv'
  <2>1. \A name : Alone(name)' <=> Alone(name)
    BY <1>15 DEF Alone
  <2>2. \A name : Signers(manifest, name)' = Signers(manifest, name)
    BY <1>15 DEF Signers
  <2> QED BY <1>15, <2>1, <2>2 DEF PinInv
<1>16. CASE Wait
  BY <1>15, <1>16 DEF Wait, disk
<1>17. CASE Crash
  BY <1>1, <1>17 DEF Crash, At
<1>18. CASE UNCHANGED vars
  BY <1>15, <1>18 DEF vars, disk
<1>19. ASSUME NEW rs \in Configs, FromConfigFails(rs) PROVE PinInv'
  BY <1>1, <1>19 DEF FromConfigFails, At
<1>20. ASSUME NEW r \in Requests, NEW b \in Builds, Local(r, b) PROVE PinInv'
  BY <1>1, <1>20 DEF Local, At
<1> QED BY <1>3, <1>4, <1>5, <1>6, <1>7, <1>8, <1>9, <1>11, <1>12, <1>13, <1>14,
           <1>16, <1>17, <1>18, <1>19, <1>20, Zenon DEF Next, Step

\* Trust on first use: no later install of a plugin, whatever the hub declares
\* by then, brings in a signer its entries do not have, unless one command
\* installs the plugin twice at once.
THEOREM TrustOnFirstUse == Spec => PinKept
<1> DEFINE Kept == \A name \in Plugins :
                     Signers(manifest, name) # {} /\ Alone(name) =>
                       Signers(manifest', name) \subseteq Signers(manifest, name)
<1>1. Init => SignerInv /\ PinInv
  BY DEF Init, SignerInv, PinInv, At, Insisting, Verified
<1>2. IInv /\ SignerInv /\ PinInv /\ [Next]_vars => SignerInv' /\ PinInv'
  BY SignerStep, PinStep
<1>3. IInv /\ SignerInv /\ PinInv /\ [Next]_vars => [Kept]_vars
  <2> SUFFICES ASSUME IInv, SignerInv, PinInv, [Next]_vars, NEW name \in Plugins,
                      Signers(manifest, name) # {}, Alone(name)
               PROVE  Signers(manifest', name) \subseteq Signers(manifest, name)
    OBVIOUS
  <2>1. CASE manifest' = manifest
    BY <2>1
  <2>2. CASE manifest' # manifest
    <3>1. PICK r \in Requests : AddAndSave(r)
      BY <2>2 DEF Next, Step, FromConfig, FromConfigFails, InstallOne, Local, Begin,
             Start, Resolve, fetchIndex, ReadPin, Verify, WriteBinary, LockAndLoad, Fail,
             Wait, Crash, vars, disk
    <3>2. CASE job[r].key[1] = name
      BY <3>1, <3>2, SavesOwn, SavesPinned
    <3>3. CASE job[r].key[1] # name
      BY <3>1, <3>3, SavesOwn
    <3> QED BY <3>2, <3>3
  <2> QED BY <2>1, <2>2
<1> QED BY <1>1, <1>2, <1>3, IInvHolds, PTL DEF Spec, PinKept
============================================================================
