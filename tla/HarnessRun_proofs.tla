------------------------- MODULE HarnessRun_proofs -------------------------
(***************************************************************************)
(* Proofs about HarnessRun, for every set of services, configurations and  *)
(* exit codes, every number of commands and of installs by the other       *)
(* process.  What the installer keeps by itself is cited from              *)
(* Installer_proofs; what of it survives a second process with a lock of   *)
(* its own is proved here.                                                 *)
(***************************************************************************)
EXTENDS HarnessRun, Installer_proofs

----------------------------------------------------------------------------
(* The disk that two processes share.                                      *)

\* What the other process is about to save is well formed.
OtherOK ==
    /\ others \in 0..MaxOthers
    /\ other # None =>
         /\ other.key \in Keys /\ other.entry \in Entry
         /\ other.snapshot \in [Keys -> Entry \cup {None}]

\* A goroutine for a local plugin installs a local file, and never gets to hub
\* or registry.
LocalInv ==
    \A r \in Requests : r.name \in Locals =>
        /\ job[r].stage \notin {"fetch", "pin", "verify"}
        /\ job[r].stage \in Verified => job[r].index \in Builds

\* A binary is what its key says, and every copy of the manifest, on disk or in
\* the memory of either process, has entries for binaries only.
SharedInv ==
    /\ \A k \in Keys : binary[k] # None =>
         IF k[1] \in Locals THEN binary[k] \in Builds ELSE ConfigOf[binary[k]] = k
    /\ \A k \in Keys : manifest[k] # None \/ loaded[k] # None => binary[k] # None
    /\ other # None =>
         /\ binary[other.key] # None
         /\ \A k \in Keys : other.snapshot[k] # None => binary[k] # None

DiskShared == TypeOK /\ JobInv /\ Mutex /\ OtherOK /\ LocalInv /\ SharedInv

\* A command that leaves the installer alone.
NoInstall ==
    /\ proc # "running"
    /\ commands' = commands + 1 /\ commands < MaxCommands
    /\ UNCHANGED <<disk, proc, wanted, job, updateMu, loaded, cancelled, err>>

\* What the steps of the harness are to the installer.
LEMMA StepKinds ==
    ASSUME [HarnessNext]_allVars
    PROVE  \/ [AnyNext]_vars /\ UNCHANGED <<other, others>>
           \/ NoInstall /\ UNCHANGED <<other, others>>
           \/ \E i \in Foreign, id \in Identities : OtherLoads(i, id)
           \/ OtherSaves
<1> USE DEF runVars, loopVars, benchVars, otherVars
<1>1. ASSUME NEW ss \in RunConfigs, NEW a \in BOOLEAN, RunBegin(ss, a)
      PROVE  (AnyNext \/ NoInstall) /\ UNCHANGED <<other, others>>
  <2>1. Named(ss) \in SUBSET Requests
    BY ServicesAsk DEF Named
  <2>2. CASE a
    BY <1>1, <2>1, <2>2 DEF RunBegin, NewProcess, AnyNext
  <2>3. CASE ~a
    BY <1>1, <2>3 DEF RunBegin, NewProcess, NoInstall
  <2> QED BY <2>2, <2>3
<1>2. CASE RunStep
  <2>1. CASE Preflight
    BY <2>1 DEF Preflight, AnyNext
  <2>2. CASE ~Preflight
    <3>1. UNCHANGED <<vars, other, others>>
      BY <1>2, <2>2, Zenon DEF RunStep, PreflightDone, ResolveService, Plan, StartProcess,
            Dispense, StartPlugin, RunEnd, BenchmarkDispense, BenchmarkStart, BenchmarkRead
    <3> QED BY <3>1
  <2> QED BY <2>1, <2>2
<1>3. CASE InstallBegin
  <2>1. Configs \subseteq SUBSET Requests
    BY ConstantTypes
  <2> QED BY <1>3, <2>1 DEF InstallBegin, NewProcess, AnyNext
<1>4. CASE InstallStep \/ RunCrash
  BY <1>4 DEF InstallStep, RunCrash, AnyNext
<1>5. ASSUME NEW s \in Benchmarked, NEW ok \in BOOLEAN, BenchmarkBegin(s, ok)
      PROVE  NoInstall /\ UNCHANGED <<other, others>>
  BY <1>5 DEF BenchmarkBegin, NewProcess, NoInstall
<1>6. CASE UNCHANGED allVars
  BY <1>6 DEF allVars
<1> QED BY <1>1, <1>2, <1>3, <1>4, <1>5, <1>6 DEF HarnessNext

\* Every step, of either process, keeps the installer's state well formed.
LEMMA InstallerKept ==
    ASSUME TypeOK, JobInv, Mutex, OtherOK, SharedInv, [HarnessNext]_allVars
    PROVE  TypeOK' /\ JobInv' /\ Mutex' /\ OtherOK'
<1>1. CASE [AnyNext]_vars /\ UNCHANGED <<other, others>>
  BY <1>1, TypeStep, JobStep, MutexStep DEF OtherOK
<1>2. CASE NoInstall /\ UNCHANGED <<other, others>>
  <2>1. commands' \in 0..MaxCommands
    BY <1>2, ConstantTypes DEF NoInstall, TypeOK
  <2>2. TypeOK'
    BY <1>2, <2>1 DEF NoInstall, TypeOK, disk
  <2> QED BY <1>2, <2>2 DEF NoInstall, JobInv, Mutex, OtherOK, disk
<1>3. ASSUME NEW i \in Foreign, NEW id \in Identities, OtherLoads(i, id)
      PROVE  TypeOK' /\ JobInv' /\ Mutex' /\ OtherOK'
  <2>1. i \in Indexes /\ i \in Binaries /\ i # None /\ ConfigOf[i] \in Keys
    BY ServicesAsk, ConstantTypes DEF Binaries
  <2>2. TypeOK'
    BY <1>3, <2>1 DEF OtherLoads, TypeOK
  <2>3. \A k \in Keys : binary[k] # None => binary'[k] # None
    BY <1>3, <2>1 DEF OtherLoads, TypeOK
  <2>4. JobInv'
    <3>1. job' = job
      BY <1>3 DEF OtherLoads
    <3> QED BY <2>3, <3>1 DEF JobInv, Written, Fetched
  <2>5. Mutex'
    BY <1>3 DEF OtherLoads, Mutex
  <2>6. OtherOK'
    <3> DEFINE o == [key |-> ConfigOf[i], snapshot |-> manifest,
                     entry |-> [digest |-> i, signer |-> id]]
    <3>1. other' = o /\ others' = others + 1 /\ others < MaxOthers
      BY <1>3 DEF OtherLoads
    <3>2. o.key \in Keys /\ o.entry \in Entry /\ o.snapshot \in [Keys -> Entry \cup {None}]
      BY <2>1 DEF TypeOK, Entry
    <3> HIDE DEF o
    <3> QED BY <3>1, <3>2, ServicesAsk DEF OtherOK
  <2> QED BY <2>2, <2>4, <2>5, <2>6
<1>4. CASE OtherSaves
  <2>1. manifest' \in [Keys -> Entry \cup {None}]
    BY <1>4 DEF OtherSaves, OtherOK
  <2> QED BY <1>4, <2>1 DEF OtherSaves, TypeOK, JobInv, Mutex, OtherOK
<1> QED BY <1>1, <1>2, <1>3, <1>4, StepKinds

\* The installer's own steps keep local and published plugins apart.
LEMMA LocalStep ==
    ASSUME TypeOK, LocalInv, [AnyNext]_vars
    PROVE  LocalInv'
<1> USE Fields, ConstantTypes DEF Verified
<1>1. ASSUME NEW rs, NEW todo, Begin(rs, todo) PROVE LocalInv'
  BY <1>1 DEF Begin, LocalInv, At
<1>2. ASSUME NEW rs \in SUBSET Requests, FromConfig(rs) PROVE LocalInv'
  BY <1>1, <1>2 DEF FromConfig
<1>3. ASSUME NEW r \in Requests, InstallOne(r) PROVE LocalInv'
  BY <1>1, <1>3 DEF InstallOne
<1>4. ASSUME NEW r \in Requests, Start(r) PROVE LocalInv'
  BY <1>4 DEF Start, LocalInv, TypeOK, Job
<1>5. ASSUME NEW r \in Requests, NEW d \in Details[r.name], Resolve(r, d)
      PROVE  LocalInv'
  <2>1. r.name \notin Locals
    OBVIOUS
  <2> QED BY <1>5, <2>1 DEF Resolve, LocalInv, TypeOK, Job
<1>6. ASSUME NEW r \in Requests, NEW i \in Indexes, fetchIndex(r, i)
      PROVE  LocalInv'
  BY <1>6 DEF fetchIndex, LocalInv, TypeOK, Job
<1>7. ASSUME NEW r \in Requests, ReadPin(r) PROVE LocalInv'
  BY <1>7 DEF ReadPin, LocalInv, TypeOK, Job
<1>8. ASSUME NEW r \in Requests, NEW id \in Identities, Verify(r, id)
      PROVE  LocalInv'
  BY <1>8 DEF Verify, LocalInv, TypeOK, Job
<1>9. ASSUME NEW r \in Requests, WriteBinary(r) PROVE LocalInv'
  BY <1>9 DEF WriteBinary, LocalInv, TypeOK, Job
<1>10. ASSUME NEW r \in Requests, LockAndLoad(r) PROVE LocalInv'
  BY <1>10 DEF LockAndLoad, LocalInv, TypeOK, Job
<1>11. ASSUME NEW r \in Requests, AddAndSave(r) PROVE LocalInv'
  BY <1>11 DEF AddAndSave, LocalInv, TypeOK, At
<1>12. ASSUME NEW r \in Requests, Fail(r) PROVE LocalInv'
  BY <1>12 DEF Fail, LocalInv, TypeOK, At
<1>13. CASE Wait \/ UNCHANGED vars
  BY <1>13 DEF Wait, LocalInv, vars
<1>14. CASE Crash
  BY <1>14 DEF Crash, LocalInv, At
<1>15. ASSUME NEW rs \in SUBSET Requests, FromConfigFails(rs) PROVE LocalInv'
  BY <1>15 DEF FromConfigFails, LocalInv, At
<1>16. ASSUME NEW r \in Requests, NEW b \in Builds, Local(r, b) PROVE LocalInv'
  <2>1. ASSUME NEW s \in Requests, s # r PROVE job'[s] = At("none")
    BY <1>16, <2>1 DEF Local
  <2>2. job'[r] = [At("write") EXCEPT !.key = <<r.name, LocalVersion>>,
                                      !.index = b]
    BY <1>16 DEF Local
  <2>3. job'[r].stage = "write" /\ job'[r].index = b
    BY <2>2 DEF At
  <2>4. \A s \in Requests : s # r => job'[s].stage = "none"
    BY <2>1 DEF At
  <2> QED BY <2>3, <2>4 DEF LocalInv
<1> QED BY <1>2, <1>3, <1>4, <1>5, <1>6, <1>7, <1>8, <1>9, <1>10, <1>11, <1>12,
           <1>13, <1>14, <1>15, <1>16, Zenon DEF AnyNext, Step

\* Of the installer's steps, one writes a binary, one loads and one saves.
LEMMA InstallerShares ==
    ASSUME TypeOK, JobInv, OtherOK, LocalInv, SharedInv, [AnyNext]_vars,
           UNCHANGED <<other, others>>
    PROVE  SharedInv'
<1>1. ASSUME NEW r \in Requests, WriteBinary(r) PROVE SharedInv'
  <2> DEFINE k == job[r].key
             i == job[r].index
  <2>1. /\ k \in Keys /\ (k[1] \in Locals <=> r.name \in Locals)
        /\ i \in Binaries /\ i # None
    BY <1>1, MayInstallType, ConstantTypes DEF WriteBinary, JobInv, Fetched
  <2>2. IF k[1] \in Locals THEN i \in Builds ELSE ConfigOf[i] = k
    BY <1>1, <2>1 DEF WriteBinary, JobInv, LocalInv, Verified
  <2>3. UNCHANGED <<manifest, loaded, other>> /\ binary' = [binary EXCEPT ![k] = i]
    BY <1>1 DEF WriteBinary
  <2> HIDE DEF k, i
  <2>4. binary'[k] = i /\ \A l \in Keys : l # k => binary'[l] = binary[l]
    BY <2>1, <2>3 DEF TypeOK
  <2>5. \A l \in Keys : binary[l] # None => binary'[l] # None
    BY <2>1, <2>4
  <2>6. \A l \in Keys : binary'[l] # None =>
          IF l[1] \in Locals THEN binary'[l] \in Builds ELSE ConfigOf[binary'[l]] = l
    BY <2>2, <2>4 DEF SharedInv
  <2>7. other # None => binary'[other.key] # None
    BY <2>5 DEF SharedInv, OtherOK
  <2> QED BY <2>3, <2>5, <2>6, <2>7 DEF SharedInv
<1>2. ASSUME NEW r \in Requests, LockAndLoad(r) PROVE SharedInv'
  BY <1>2 DEF LockAndLoad, SharedInv, disk
<1>3. ASSUME NEW r \in Requests, AddAndSave(r) PROVE SharedInv'
  <2>1. job[r].key \in Keys /\ binary[job[r].key] # None
    BY <1>3 DEF AddAndSave, JobInv, Fetched, Written
  <2>2. \A k \in Keys : manifest'[k] # None => loaded[k] # None \/ k = job[r].key
    BY <1>3, <2>1 DEF AddAndSave, TypeOK
  <2> QED BY <1>3, <2>1, <2>2 DEF AddAndSave, SharedInv
<1>4. CASE ~ \E r \in Requests : WriteBinary(r) \/ LockAndLoad(r) \/ AddAndSave(r)
  <2>1. UNCHANGED <<manifest, loaded, binary>>
    BY <1>4 DEF AnyNext, Step, FromConfig, FromConfigFails, InstallOne, Local, Begin,
                Start, Resolve, fetchIndex, ReadPin, Verify, Fail, Wait, Crash, vars, disk
  <2> QED BY <2>1 DEF SharedInv
<1> QED BY <1>1, <1>2, <1>3, <1>4

\* And so does the other process, whose copy of the manifest may be old: no
\* binary is ever removed.
LEMMA SharedKept ==
    ASSUME DiskShared, [HarnessNext]_allVars
    PROVE  SharedInv' /\ LocalInv'
<1>1. CASE [AnyNext]_vars /\ UNCHANGED <<other, others>>
  BY <1>1, InstallerShares, LocalStep DEF DiskShared
<1>2. CASE NoInstall /\ UNCHANGED <<other, others>>
  BY <1>2 DEF NoInstall, DiskShared, SharedInv, LocalInv, disk
<1>3. ASSUME NEW i \in Foreign, NEW id \in Identities, OtherLoads(i, id)
      PROVE  SharedInv' /\ LocalInv'
  <2> DEFINE k == ConfigOf[i]
             o == [key |-> k, snapshot |-> manifest,
                   entry |-> [digest |-> i, signer |-> id]]
  <2>1. i # None /\ k \in Keys /\ k[1] \notin Locals
    BY ServicesAsk, ConstantTypes DEF Binaries
  <2>2. /\ UNCHANGED <<manifest, loaded, job>> /\ other' = o
        /\ binary' = [binary EXCEPT ![k] = i] /\ o.key = k /\ o.snapshot = manifest
    BY <1>3 DEF OtherLoads
  <2>3. ConfigOf[i] = k
    OBVIOUS
  <2> HIDE DEF k, o
  <2>4. binary'[k] = i /\ \A l \in Keys : l # k => binary'[l] = binary[l]
    BY <2>1, <2>2 DEF DiskShared, TypeOK
  <2>5. \A l \in Keys : binary[l] # None => binary'[l] # None
    BY <2>1, <2>4
  <2>6. \A l \in Keys : binary'[l] # None =>
          IF l[1] \in Locals THEN binary'[l] \in Builds ELSE ConfigOf[binary'[l]] = l
    BY <2>1, <2>3, <2>4 DEF DiskShared, SharedInv
  <2>7. \A l \in Keys : manifest[l] # None \/ loaded[l] # None => binary'[l] # None
    BY <2>5 DEF DiskShared, SharedInv
  <2>8. SharedInv'
    BY <2>1, <2>2, <2>4, <2>6, <2>7 DEF SharedInv
  <2> QED BY <2>2, <2>8 DEF DiskShared, LocalInv
<1>4. CASE OtherSaves
  <2>1. /\ manifest' = [other.snapshot EXCEPT ![other.key] = other.entry]
        /\ UNCHANGED <<binary, loaded, job>> /\ other # None /\ other' = None
    BY <1>4 DEF OtherSaves
  <2>2. \A k \in Keys : manifest'[k] # None => binary[k] # None
    BY <2>1 DEF DiskShared, SharedInv, OtherOK
  <2> QED BY <2>1, <2>2 DEF DiskShared, SharedInv, LocalInv
<1> QED BY <1>1, <1>2, <1>3, <1>4, StepKinds

\* What two processes keep of disk and installer.
LEMMA DiskSharedStep ==
    ASSUME DiskShared, [HarnessNext]_allVars
    PROVE  DiskShared'
BY InstallerKept, SharedKept DEF DiskShared

\* Nothing takes a binary away.
LEMMA BinariesStay ==
    ASSUME DiskShared, [HarnessNext]_allVars, NEW k \in Keys, binary[k] # None
    PROVE  binary'[k] # None
<1>1. ASSUME NEW r \in Requests, WriteBinary(r) PROVE binary'[k] # None
  <2>1. job[r].key \in Keys /\ job[r].index # None
    BY <1>1, ConstantTypes DEF WriteBinary, DiskShared, JobInv, Fetched
  <2> QED BY <1>1, <2>1 DEF WriteBinary, DiskShared, TypeOK
<1>2. CASE [AnyNext]_vars /\ ~ \E r \in Requests : WriteBinary(r)
  BY <1>2 DEF AnyNext, Step, FromConfig, FromConfigFails, InstallOne, Local, Begin,
              Start, Resolve, fetchIndex, ReadPin, Verify, LockAndLoad, AddAndSave, Fail,
              Wait, Crash, vars, disk
<1>3. ASSUME NEW i \in Foreign, NEW id \in Identities, OtherLoads(i, id)
      PROVE  binary'[k] # None
  <2>1. i # None /\ ConfigOf[i] \in Keys
    BY ServicesAsk, ConstantTypes DEF Binaries
  <2> QED BY <1>3, <2>1 DEF OtherLoads, DiskShared, TypeOK
<1>4. CASE NoInstall \/ OtherSaves
  BY <1>4 DEF NoInstall, OtherSaves, disk
<1> QED BY <1>1, <1>2, <1>3, <1>4, StepKinds

----------------------------------------------------------------------------
(* The loop and the benchmark.                                             *)

Outcomes == PluginCodes \cup {"InternalError"}
Outcome == [service : Services, key : Keys, code : Outcomes]

LoopPhases == {"loop", "client", "start"}
BenchPhases == {"benchClient", "benchStart", "benchRead"}
ClientPhases == {"client", "start"} \cup BenchPhases

LoopType ==
    /\ phase \in Phases /\ services \subseteq Services /\ auto \in BOOLEAN
    /\ toRun \subseteq services /\ path \in [Services -> Keys \cup {None}]
    /\ exitCode \in ExitCodes /\ ran \in Seq(Outcome) /\ lost \in BOOLEAN

\* The installer runs before the loop and between commands only, and nothing
\* has run before the loop.
ControlInv ==
    /\ proc = "running" => phase \in {"none", "preflight"}
    /\ phase \in {"none", "preflight"} \cup BenchPhases => ran = <<>> /\ toRun = {}
    /\ phase = "plan" => ran = <<>>

\* Exactly while a client is open one plugin is alive: one of the services, in
\* the loop one that is still to be run.
AliveInv ==
    /\ phase \in ClientPhases =>
         \E s \in services : alive = {s} /\ (phase \in LoopPhases => s \in toRun)
    /\ phase \notin ClientPhases => alive = {}

\* A key fits what a service asks for.
Fits(k, s) ==
    /\ Asks[s] \in Requests /\ k[1] = Asks[s].name
    /\ Asks[s].version # 0 => k[2] = Asks[s].version

\* What was resolved fits the service and has a binary; the loop is entered
\* with all services resolved, and what has run is what was resolved.
AskedInv ==
    /\ \A s \in Services : path[s] # None => Fits(path[s], s) /\ binary[path[s]] # None
    /\ phase \in LoopPhases \/ ran # <<>> => \A s \in services : path[s] # None
    /\ \A i \in DOMAIN ran :
         ran[i].service \in services /\ ran[i].key = path[ran[i].service]

LoopInv == LoopType /\ ControlInv /\ AliveInv /\ AskedInv

\* The harness is idle while the installer or the other process works.
LoopStays ==
    /\ UNCHANGED <<loopVars, report, shown>>
    /\ proc' = "running" => proc = "running"
    /\ lost' = lost \/ lost' \in BOOLEAN

\* Steps of the installer start no command.
LEMMA StepGoesOn ==
    ASSUME (\E r \in Requests : Step(r)) \/ Wait
    PROVE  proc = "running" /\ commands' = commands /\ wanted' = wanted
BY DEF Step, Start, Resolve, fetchIndex, ReadPin, Verify, WriteBinary, LockAndLoad,
       AddAndSave, Fail, Wait

\* The steps in which the loop has no part.
LEMMA LoopWaits ==
    ASSUME Preflight \/ InstallStep \/ OtherSaves \/ UNCHANGED allVars
             \/ (\E i \in Foreign, id \in Identities : OtherLoads(i, id))
    PROVE  LoopStays /\ commands' = commands /\ wanted' = wanted
<1>1. CASE OtherSaves
  <2>1. lost' \in BOOLEAN
    BY <1>1, Zenon DEF OtherSaves
  <2> QED BY <1>1, <2>1 DEF OtherSaves, LoopStays, benchVars
<1>2. CASE ~OtherSaves
  BY <1>2, StepGoesOn DEF LoopStays, Preflight, InstallStep, OtherLoads, allVars, vars,
       runVars, loopVars, benchVars, otherVars
<1> QED BY <1>1, <1>2

\* The new binaries of a step are as good for what was resolved as the old.
LEMMA PathsStay ==
    ASSUME DiskShared, LoopInv, [HarnessNext]_allVars, path' = path
    PROVE  \A s \in Services : path'[s] # None => Fits(path'[s], s) /\ binary'[path'[s]] # None
<1> SUFFICES ASSUME NEW s \in Services, path[s] # None
             PROVE  Fits(path[s], s) /\ binary'[path[s]] # None
  OBVIOUS
<1>1. path[s] \in Keys
  BY DEF LoopInv, LoopType
<1>2. Fits(path[s], s) /\ binary[path[s]] # None
  BY DEF LoopInv, AskedInv
<1> QED BY <1>1, <1>2, BinariesStay

\* A command begins with nothing resolved and nothing run.
LEMMA LoopBegins ==
    ASSUME LoopInv, NEW ss \in SUBSET Services, NEW a \in BOOLEAN, NewProcess(ss, a),
           phase' \in {"none", "preflight", "plan", "exited"}, alive' = alive,
           proc' = "running" => phase' \in {"none", "preflight"}
    PROVE  LoopInv'
<1> USE DEF BenchPhases, LoopPhases, ClientPhases
<1>1. /\ toRun' = {} /\ ran' = <<>> /\ alive' = {} /\ services' = ss /\ auto' = a
      /\ path' = [s \in Services |-> None] /\ exitCode' = "TestPass"
      /\ lost' = FALSE
  BY DEF NewProcess, Between, LoopInv, AliveInv
<1>2. LoopType'
  <2>1. ran' \in Seq(Outcome) /\ path' \in [Services -> Keys \cup {None}]
    BY <1>1
  <2>2. phase' \in Phases /\ exitCode' \in ExitCodes
    BY <1>1 DEF Phases, ExitCodes
  <2>3. lost' \in BOOLEAN /\ auto' \in BOOLEAN
    BY <1>1, Zenon
  <2> QED BY <1>1, <2>1, <2>2, <2>3 DEF LoopType
<1>3. ControlInv' /\ AliveInv'
  BY <1>1 DEF ControlInv, AliveInv
<1>4. AskedInv'
  BY <1>1 DEF AskedInv
<1> QED BY <1>2, <1>3, <1>4 DEF LoopInv

\* The resolver gives each service a key that fits, with its binary.
LEMMA PathSound ==
    ASSUME DiskShared, NEW s \in Services, NEW readable
    PROVE  /\ PathOf(s, readable) \in Keys \cup {None}
           /\ PathOf(s, readable) # None =>
                Fits(PathOf(s, readable), s) /\ binary[PathOf(s, readable)] # None
<1>1. CASE ~readable \/ Asks[s] = None
  BY <1>1 DEF PathOf
<1>2. CASE ~ (~readable \/ Asks[s] = None)
  <2>1. Asks[s] \in Requests /\ Asks[s] \in Request
    BY <1>2, ServicesAsk, ConstantTypes
  <2>2. PathOf(s, readable) = getBinary(manifest, Asks[s])
    BY <1>2 DEF PathOf
  <2>3. getBinary(manifest, Asks[s]) # None =>
          LET k == getBinary(manifest, Asks[s]) IN
          k \in Keys /\ manifest[k] # None /\ k[1] = Asks[s].name
          /\ (Asks[s].version # 0 => k[2] = Asks[s].version)
    BY <2>1, ResolverSound
  <2> QED BY <2>1, <2>2, <2>3 DEF Fits, DiskShared, SharedInv
<1> QED BY <1>1, <1>2

\* Appending to what has run.
LEMMA RanGrows ==
    ASSUME NEW S, NEW q \in Seq(S), NEW e \in S
    PROVE  /\ Append(q, e) \in Seq(S) /\ Append(q, e) # <<>>
           /\ Len(q) \in Nat /\ DOMAIN q = 1..Len(q)
           /\ DOMAIN Append(q, e) = 1..Len(q) + 1
           /\ \A i \in DOMAIN q : Append(q, e)[i] = q[i]
           /\ Append(q, e)[Len(q) + 1] = e
OBVIOUS

\* The plugin that is asked to start is the one that is alive, and was resolved.
LEMMA StartsResolved ==
    ASSUME LoopInv, NEW s \in services, phase = "start", s \in alive
    PROVE  /\ alive = {s} /\ s \in toRun /\ s \in Services
           /\ path[s] \in Keys /\ path[s] # None
<1>1. PICK t \in services : alive = {t} /\ t \in toRun
  BY DEF LoopInv, AliveInv, ClientPhases, LoopPhases
<1>2. s \in Services /\ path[s] # None
  BY DEF LoopInv, LoopType, AskedInv, LoopPhases
<1> QED BY <1>1, <1>2 DEF LoopInv, LoopType

\* Every step of the harness keeps the loop in order.
LEMMA LoopStep ==
    ASSUME DiskShared, LoopInv, [HarnessNext]_allVars
    PROVE  LoopInv'
<1> USE DEF LoopPhases, BenchPhases, ClientPhases
<1> LoopType /\ ControlInv /\ AliveInv /\ AskedInv
  BY DEF LoopInv
<1>p. path' = path =>
        \A s \in Services : path'[s] # None => Fits(path'[s], s) /\ binary'[path'[s]] # None
  BY PathsStay
<1>1. ASSUME NEW ss \in RunConfigs, NEW a \in BOOLEAN, RunBegin(ss, a) PROVE LoopInv'
  <2>1. ss \in SUBSET Services
    BY ServicesAsk
  <2>2. proc' = "running" => phase' \in {"none", "preflight"}
    BY <1>1 DEF RunBegin
  <2>3. phase' \in {"preflight", "plan"} /\ alive' = alive /\ NewProcess(ss, a)
    BY <1>1 DEF RunBegin
  <2> QED BY <2>1, <2>2, <2>3, LoopBegins
<1>2. CASE InstallBegin
  BY <1>2, LoopBegins DEF InstallBegin
<1>3. ASSUME LoopStays PROVE LoopInv'
  <2>1. lost' \in BOOLEAN
    BY <1>3, Zenon DEF LoopStays, LoopType
  <2>2. LoopType'
    BY <1>3, <2>1 DEF LoopStays, LoopType, loopVars
  <2>3. ControlInv' /\ AliveInv'
    BY <1>3 DEF LoopStays, ControlInv, AliveInv, loopVars
  <2>4. AskedInv'
    BY <1>3, <1>p DEF LoopStays, AskedInv, loopVars
  <2> QED BY <2>2, <2>3, <2>4 DEF LoopInv
<1>4. CASE PreflightDone
  <2>1. LoopType'
    BY <1>4 DEF PreflightDone, LoopType, Phases, ExitCodes, otherVars
  <2>2. ControlInv' /\ AliveInv' /\ AskedInv'
    BY <1>4, <1>p DEF PreflightDone, ControlInv, AliveInv, AskedInv, vars, disk
  <2> QED BY <2>1, <2>2 DEF LoopInv
<1>15. ASSUME NEW s \in services, NEW readable \in BOOLEAN, ResolveService(s, readable)
       PROVE  LoopInv'
  <2> DEFINE k == PathOf(s, readable)
  <2>1. /\ phase = "plan" /\ phase' = "plan" /\ toRun' = toRun \cup {s}
        /\ path' = [path EXCEPT ![s] = k]
        /\ UNCHANGED <<vars, services, auto, alive, exitCode, ran, lost>>
    BY <1>15 DEF ResolveService, otherVars
  <2>2. s \in Services /\ k \in Keys \cup {None}
        /\ (k # None => Fits(k, s) /\ binary[k] # None)
    BY PathSound DEF LoopType
  <2> HIDE DEF k
  <2>3. path'[s] = k /\ \A t \in Services : t # s => path'[t] = path[t]
    BY <2>1, <2>2 DEF LoopType
  <2>4. ran = <<>> /\ alive = {} /\ binary' = binary /\ proc' = proc
    BY <2>1 DEF ControlInv, AliveInv, vars, disk
  <2>5. path' \in [Services -> Keys \cup {None}]
    BY <2>1, <2>2 DEF LoopType
  <2>6. LoopType'
    BY <2>1, <2>5 DEF LoopType
  <2>7. ControlInv' /\ AliveInv'
    BY <2>1, <2>4 DEF ControlInv, AliveInv
  <2>8. AskedInv'
    BY <2>1, <2>2, <2>3, <2>4 DEF AskedInv
  <2> QED BY <2>6, <2>7, <2>8 DEF LoopInv
<1>5. ASSUME NEW readable \in BOOLEAN, Plan(readable) PROVE LoopInv'
  <2> DEFINE locals == readable /\ \E k \in Keys : manifest[k] # None
             early == planRun(services, path, locals)
  <2>1. /\ phase = "plan" /\ toRun = services
        /\ UNCHANGED <<vars, services, auto, path, alive, ran, lost>>
        /\ IF early # None
           THEN phase' = "exited" /\ exitCode' = early /\ toRun' = {}
           ELSE phase' = "loop" /\ UNCHANGED <<exitCode, toRun>>
    BY <1>5 DEF Plan, otherVars
  <2>2. early \in ExitCodes \cup {None}
    BY DEF planRun, ExitCodes
  <2>3. early = None => \A s \in services : path[s] # None
    BY ServicesAsk DEF planRun, ExitCodes
  <2> HIDE DEF early
  <2>6. ran = <<>> /\ alive = {} /\ binary' = binary /\ proc' = proc
    BY <2>1 DEF ControlInv, AliveInv, vars, disk
  <2>7. LoopType'
    BY <2>1, <2>2 DEF LoopType, Phases
  <2>8. ControlInv' /\ AliveInv'
    BY <2>1, <2>6 DEF ControlInv, AliveInv
  <2>9. AskedInv'
    BY <1>p, <2>1, <2>3, <2>6 DEF AskedInv
  <2> QED BY <2>7, <2>8, <2>9 DEF LoopInv
<1>6. ASSUME NEW s \in services, StartProcess(s) PROVE LoopInv'
  <2>1. LoopType'
    BY <1>6 DEF StartProcess, LoopType, Phases, otherVars
  <2>2. alive' = {s}
    BY <1>6 DEF StartProcess, AliveInv
  <2>3. ControlInv' /\ AliveInv'
    BY <1>6, <2>2 DEF StartProcess, ControlInv, AliveInv, vars
  <2>4. AskedInv'
    BY <1>6, <1>p DEF StartProcess, AskedInv
  <2> QED BY <2>1, <2>3, <2>4 DEF LoopInv
<1>7. ASSUME NEW s \in services, NEW ok \in BOOLEAN, Dispense(s, ok) PROVE LoopInv'
  <2>1. LoopType'
    BY <1>7 DEF Dispense, LoopType, Phases, ExitCodes, otherVars
  <2>2. ControlInv' /\ AliveInv'
    BY <1>7 DEF Dispense, ControlInv, AliveInv, vars
  <2>3. AskedInv'
    BY <1>7, <1>p DEF Dispense, AskedInv
  <2> QED BY <2>1, <2>2, <2>3 DEF LoopInv
<1>8. ASSUME NEW s \in services, NEW code \in PluginCodes, NEW rpcFails \in BOOLEAN,
             StartPlugin(s, code, rpcFails)
      PROVE  LoopInv'
  <2> DEFINE result == IF rpcFails THEN "InternalError" ELSE code
             e == [service |-> s, key |-> path[s], code |-> result]
  <2>1. /\ phase = "start" /\ s \in alive /\ ran' = Append(ran, e)
        /\ exitCode' = IF result = "TestPass" THEN exitCode
                       ELSE mergeExitCode(exitCode, result)
        /\ alive' = alive \ {s} /\ toRun' = toRun \ {s} /\ phase' = "loop"
        /\ UNCHANGED <<vars, services, auto, path, lost>>
    BY <1>8 DEF StartPlugin, otherVars
  <2>2. alive = {s} /\ s \in toRun /\ s \in Services /\ path[s] \in Keys /\ path[s] # None
    BY <2>1, StartsResolved DEF LoopInv
  <2>3. result \in Outcomes
    BY DEF Outcomes
  <2>4. e \in Outcome /\ e.service = s /\ e.key = path[s]
    BY <2>2, <2>3 DEF Outcome
  <2>5. exitCode' \in ExitCodes
    <3>1. result \in ExitCodes
      BY <2>3, ServicesAsk DEF Outcomes, ExitCodes
    <3> HIDE DEF result
    <3> QED BY <2>1, <3>1 DEF mergeExitCode, LoopType
  <2> HIDE DEF e, result
  <2>6. /\ ran' \in Seq(Outcome) /\ Len(ran) \in Nat /\ DOMAIN ran = 1..Len(ran)
        /\ DOMAIN ran' = 1..Len(ran) + 1
        /\ \A i \in DOMAIN ran : ran'[i] = ran[i]
        /\ ran'[Len(ran) + 1] = e
    BY <2>1, <2>4, RanGrows DEF LoopType
  <2>7. LoopType'
    BY <2>1, <2>5, <2>6 DEF LoopType, Phases
  <2>8. ControlInv' /\ AliveInv'
    BY <2>1, <2>2 DEF ControlInv, AliveInv, vars
  <2>9. \A s2 \in services : path[s2] # None
    BY <2>1 DEF AskedInv
  <2>10. \A i \in DOMAIN ran' :
           ran'[i].service \in services /\ ran'[i].key = path[ran'[i].service]
    <3> SUFFICES ASSUME NEW i \in DOMAIN ran'
                 PROVE  ran'[i].service \in services /\ ran'[i].key = path[ran'[i].service]
      OBVIOUS
    <3>1. CASE i \in DOMAIN ran
      BY <2>6, <3>1 DEF AskedInv
    <3>2. CASE i \notin DOMAIN ran
      <4>1. i = Len(ran) + 1
        BY <2>6, <3>2
      <4> QED BY <2>4, <2>6, <4>1
    <3> QED BY <3>1, <3>2
  <2>11. AskedInv'
    BY <1>p, <2>1, <2>9, <2>10 DEF AskedInv
  <2> QED BY <2>7, <2>8, <2>11 DEF LoopInv
<1>9. CASE RunEnd
  <2>1. LoopType'
    BY <1>9 DEF RunEnd, LoopType, Phases, otherVars
  <2>2. ControlInv' /\ AliveInv' /\ AskedInv'
    BY <1>9, <1>p DEF RunEnd, ControlInv, AliveInv, AskedInv, vars
  <2> QED BY <2>1, <2>2 DEF LoopInv
<1>10. ASSUME NEW s \in services, NEW ok \in BOOLEAN, BenchmarkDispense(s, ok)
       PROVE  LoopInv'
  <2>1. LoopType'
    BY <1>10 DEF BenchmarkDispense, LoopType, Phases, otherVars
  <2>2. ControlInv' /\ AliveInv'
    BY <1>10 DEF BenchmarkDispense, ControlInv, AliveInv, vars
  <2>3. AskedInv'
    BY <1>10, <1>p DEF BenchmarkDispense, AskedInv
  <2> QED BY <2>1, <2>2, <2>3 DEF LoopInv
<1>11. ASSUME NEW s \in services, NEW writes \in {"whole", "partly", "none"},
              NEW code \in PluginCodes, NEW rpcFails \in BOOLEAN,
              BenchmarkStart(s, writes, code, rpcFails)
       PROVE  LoopInv'
  <2>1. LoopType'
    BY <1>11, ServicesAsk DEF BenchmarkStart, LoopType, Phases, ExitCodes, otherVars
  <2>2. ControlInv' /\ AliveInv'
    BY <1>11 DEF BenchmarkStart, ControlInv, AliveInv, vars
  <2>3. AskedInv'
    BY <1>11, <1>p DEF BenchmarkStart, AskedInv
  <2> QED BY <2>1, <2>2, <2>3 DEF LoopInv
<1>12. ASSUME NEW s \in services, BenchmarkRead(s) PROVE LoopInv'
  <2>1. LoopType'
    BY <1>12 DEF BenchmarkRead, LoopType, Phases, otherVars
  <2>2. ControlInv' /\ AliveInv'
    BY <1>12 DEF BenchmarkRead, ControlInv, AliveInv, vars
  <2>3. AskedInv'
    BY <1>12, <1>p DEF BenchmarkRead, AskedInv
  <2> QED BY <2>1, <2>2, <2>3 DEF LoopInv
<1>13. CASE RunCrash
  <2>1. LoopType'
    BY <1>13 DEF RunCrash, LoopType, Phases, otherVars
  <2>2. ControlInv' /\ AliveInv'
    BY <1>13 DEF RunCrash, Crash, ControlInv, AliveInv
  <2>3. AskedInv'
    BY <1>13, <1>p DEF RunCrash, AskedInv
  <2> QED BY <2>1, <2>2, <2>3 DEF LoopInv
<1>14. ASSUME NEW s \in Benchmarked, NEW ok \in BOOLEAN, BenchmarkBegin(s, ok)
       PROVE  LoopInv'
  <2>1. {s} \in SUBSET Services /\ NewProcess({s}, FALSE) /\ proc' # "running"
    BY <1>14, ServicesAsk DEF BenchmarkBegin
  <2>2. CASE ~ok
    BY <1>14, <2>1, <2>2, LoopBegins DEF BenchmarkBegin
  <2>3. CASE ok
    <3>1. /\ toRun' = {} /\ ran' = <<>> /\ alive' = {s} /\ services' = {s}
          /\ auto' = FALSE /\ path' = [t \in Services |-> None]
          /\ exitCode' = "TestPass" /\ lost' = FALSE /\ phase' = "benchClient"
      BY <1>14, <2>3 DEF BenchmarkBegin, NewProcess
    <3>2. LoopType'
      <4>1. ran' \in Seq(Outcome) /\ path' \in [Services -> Keys \cup {None}]
        BY <3>1
      <4>2. phase' \in Phases /\ exitCode' \in ExitCodes
        BY <3>1 DEF Phases, ExitCodes
      <4>3. lost' \in BOOLEAN /\ auto' \in BOOLEAN
        BY <3>1, Zenon
      <4> QED BY <2>1, <3>1, <4>1, <4>2, <4>3 DEF LoopType
    <3>3. ControlInv' /\ AliveInv' /\ AskedInv'
      BY <2>1, <3>1 DEF ControlInv, AliveInv, AskedInv
    <3> QED BY <3>2, <3>3 DEF LoopInv
  <2> QED BY <2>2, <2>3
<1> QED BY <1>1, <1>2, <1>3, <1>4, <1>5, <1>6, <1>7, <1>8, <1>9, <1>10, <1>11, <1>12,
           <1>13, <1>14, <1>15, LoopWaits, Zenon DEF HarnessNext, RunStep

----------------------------------------------------------------------------
(* The exit code, and what has run.                                        *)

CodesOf(q) == {q[i].code : i \in DOMAIN q}
RunOf(q) == {q[i].service : i \in DOMAIN q}

Worst(codes) ==
    IF "InternalError" \in codes THEN "InternalError"
    ELSE IF "BadUsage" \in codes THEN "BadUsage"
    ELSE IF "TestFail" \in codes THEN "TestFail" ELSE "TestPass"

\* In the loop the exit code is the worst so far; a run that leaves services
\* behind left the loop through a client error.
CodeInv ==
    /\ phase \in {"preflight", "plan"} => exitCode = "TestPass"
    /\ phase \in LoopPhases => exitCode = Worst(CodesOf(ran))
    /\ phase = "exited" /\ ran # <<>> /\ toRun = {} => exitCode = Worst(CodesOf(ran))
    /\ phase = "exited" /\ toRun # {} => exitCode = "InternalError"

\* The services that have run and those still to be run are apart and make up
\* the configuration, and none has run twice.
RanOnce ==
    /\ toRun \cup RunOf(ran) = services /\ toRun \cap RunOf(ran) = {}
    /\ \A i, j \in DOMAIN ran : ran[i].service = ran[j].service => i = j

\* A run with autoinstall that ended without error has run everything, or did
\* not find something.
OnceInv ==
    /\ phase \in LoopPhases => RanOnce
    /\ phase = "exited" /\ auto /\ ~err /\ toRun = {} =>
         RanOnce \/ \E s \in services : path[s] = None
    /\ phase \in BenchPhases => ~auto

\* mergeExitCode keeps the worst, whatever the order.
LEMMA MergeKeepsWorst ==
    ASSUME NEW codes \in SUBSET Outcomes, NEW result \in Outcomes
    PROVE  Worst(codes \cup {result}) =
             IF result = "TestPass" THEN Worst(codes)
             ELSE mergeExitCode(Worst(codes), result)
<1>1. result \in {"TestPass", "TestFail", "InternalError", "BadUsage"}
  BY ServicesAsk DEF Outcomes
<1>2. CASE result = "TestPass"
  BY <1>2 DEF Worst
<1>3. CASE result = "TestFail"
  BY <1>3 DEF Worst, mergeExitCode, exitSeverity
<1>4. CASE result = "BadUsage"
  BY <1>4 DEF Worst, mergeExitCode, exitSeverity
<1>5. CASE result = "InternalError"
  BY <1>5 DEF Worst, mergeExitCode, exitSeverity
<1> QED BY <1>1, <1>2, <1>3, <1>4, <1>5

\* What an outcome adds to the codes and to the services that have run.
LEMMA OutcomeAdds ==
    ASSUME NEW q \in Seq(Outcome), NEW e \in Outcome
    PROVE  /\ CodesOf(Append(q, e)) = CodesOf(q) \cup {e.code}
           /\ RunOf(Append(q, e)) = RunOf(q) \cup {e.service}
           /\ CodesOf(q) \subseteq Outcomes
<1> DEFINE p == Append(q, e)
<1>1. /\ Len(q) \in Nat /\ DOMAIN q = 1..Len(q) /\ DOMAIN p = 1..Len(q) + 1
      /\ \A i \in DOMAIN q : p[i] = q[i]
      /\ p[Len(q) + 1] = e
  BY RanGrows
<1>2. \A i \in DOMAIN q : q[i] \in Outcome
  OBVIOUS
<1> HIDE DEF p
<1>3. DOMAIN p = DOMAIN q \cup {Len(q) + 1}
  BY <1>1
<1>4. CodesOf(p) = CodesOf(q) \cup {e.code} /\ RunOf(p) = RunOf(q) \cup {e.service}
  BY <1>1, <1>3 DEF CodesOf, RunOf
<1>5. CodesOf(q) \subseteq Outcomes
  BY <1>2 DEF CodesOf, Outcome
<1> QED BY <1>4, <1>5 DEF p

\* Nothing has run: the worst is TestPass.
LEMMA NothingRan == CodesOf(<<>>) = {} /\ RunOf(<<>>) = {} /\ Worst({}) = "TestPass"
BY DEF CodesOf, RunOf, Worst

\* Starting a plugin takes its service from those to be run to those that ran.
LEMMA StartCounts ==
    ASSUME LoopInv, CodeInv, OnceInv, NEW s \in services, NEW code \in PluginCodes,
           NEW rpcFails \in BOOLEAN, StartPlugin(s, code, rpcFails)
    PROVE  CodeInv' /\ OnceInv'
<1> USE DEF LoopPhases, BenchPhases
<1> DEFINE result == IF rpcFails THEN "InternalError" ELSE code
           e == [service |-> s, key |-> path[s], code |-> result]
<1>1. /\ phase = "start" /\ s \in alive /\ ran' = Append(ran, e)
      /\ exitCode' = IF result = "TestPass" THEN exitCode
                     ELSE mergeExitCode(exitCode, result)
      /\ toRun' = toRun \ {s} /\ phase' = "loop" /\ services' = services
  BY DEF StartPlugin
<1>2. s \in toRun /\ s \in Services /\ path[s] \in Keys
  BY <1>1, StartsResolved
<1>3. result \in Outcomes
  BY DEF Outcomes
<1>4. e \in Outcome /\ e.service = s /\ e.code = result
  BY <1>2, <1>3 DEF Outcome
<1> HIDE DEF e, result
<1>5. /\ ran \in Seq(Outcome)
      /\ Len(ran) \in Nat /\ DOMAIN ran = 1..Len(ran)
      /\ DOMAIN ran' = 1..Len(ran) + 1
      /\ \A i \in DOMAIN ran : ran'[i] = ran[i]
      /\ ran'[Len(ran) + 1] = e
  BY <1>1, <1>4, RanGrows DEF LoopInv, LoopType
<1>6. /\ CodesOf(ran') = CodesOf(ran) \cup {result}
      /\ RunOf(ran') = RunOf(ran) \cup {s}
      /\ CodesOf(ran) \subseteq Outcomes
  BY <1>1, <1>4, <1>5, OutcomeAdds
<1>7. exitCode = Worst(CodesOf(ran)) /\ RanOnce
  BY <1>1 DEF CodeInv, OnceInv
<1>8. exitCode' = Worst(CodesOf(ran'))
  BY <1>1, <1>3, <1>6, <1>7, MergeKeepsWorst
<1>9. CodeInv'
  BY <1>1, <1>8 DEF CodeInv, CodesOf
<1>10. toRun' \cup RunOf(ran') = services /\ toRun' \cap RunOf(ran') = {}
  BY <1>1, <1>2, <1>6, <1>7 DEF RanOnce
<1>11. ASSUME NEW i \in DOMAIN ran', NEW j \in DOMAIN ran',
              ran'[i].service = ran'[j].service
       PROVE  i = j
  <2>1. \A n \in DOMAIN ran : ran[n].service # s
    BY <1>2, <1>7 DEF RanOnce, RunOf
  <2>2. \A n \in DOMAIN ran' : n \in DOMAIN ran \/ n = Len(ran) + 1
    BY <1>5
  <2>3. CASE i \in DOMAIN ran /\ j \in DOMAIN ran
    BY <1>5, <1>7, <1>11, <2>3 DEF RanOnce
  <2>4. CASE i \notin DOMAIN ran \/ j \notin DOMAIN ran
    BY <1>4, <1>5, <1>11, <2>1, <2>2, <2>4
  <2> QED BY <2>3, <2>4
<1>12. RanOnce'
  BY <1>1, <1>10, <1>11 DEF RanOnce, RunOf
<1> QED BY <1>1, <1>9, <1>12 DEF OnceInv

\* Every step keeps the count and the worst code.
LEMMA CountStep ==
    ASSUME LoopInv, CodeInv, OnceInv, [HarnessNext]_allVars
    PROVE  CodeInv' /\ OnceInv'
<1> USE DEF LoopPhases, BenchPhases
<1> LoopType /\ ControlInv /\ AliveInv
  BY DEF LoopInv
<1>0. ASSUME NEW ss, NEW a, NewProcess(ss, a), phase' \notin LoopPhases,
             phase' \in BenchPhases \cup {"exited"} => a = FALSE
      PROVE  CodeInv' /\ OnceInv'
  <2>1. toRun' = {} /\ ran' = <<>> /\ exitCode' = "TestPass" /\ auto' = a
    BY <1>0 DEF NewProcess
  <2> QED BY <1>0, <2>1 DEF CodeInv, OnceInv
<1>1. ASSUME NEW ss \in RunConfigs, NEW a \in BOOLEAN, RunBegin(ss, a)
      PROVE  CodeInv' /\ OnceInv'
  <2>1. phase' \in {"preflight", "plan"} /\ NewProcess(ss, a)
    BY <1>1 DEF RunBegin
  <2> QED BY <1>0, <2>1
<1>2. CASE InstallBegin
  BY <1>0, <1>2 DEF InstallBegin
<1>3. ASSUME UNCHANGED <<phase, services, auto, toRun, path, exitCode, ran>>,
             phase = "exited" => err' = err
      PROVE  CodeInv' /\ OnceInv'
  <2>1. CodeInv'
    BY <1>3 DEF CodeInv, CodesOf
  <2>2. RanOnce' <=> RanOnce
    BY <1>3 DEF RanOnce, RunOf
  <2> QED BY <1>3, <2>1, <2>2 DEF OnceInv
<1>4. CASE Preflight \/ InstallStep
  BY <1>3, <1>4 DEF Preflight, InstallStep, runVars, loopVars
<1>5. CASE \/ OtherSaves \/ UNCHANGED allVars
           \/ \E i \in Foreign, id \in Identities : OtherLoads(i, id)
  BY <1>3, <1>5 DEF OtherSaves, OtherLoads, allVars, vars, runVars, loopVars
<1>6. CASE PreflightDone
  <2>1. /\ ran' = <<>> /\ toRun' = {} /\ err' = err /\ auto' = auto
        /\ \/ phase' = "exited" /\ err
           \/ phase' = "plan" /\ exitCode' = "TestPass"
    BY <1>6 DEF PreflightDone, ControlInv, CodeInv, vars
  <2> QED BY <2>1 DEF CodeInv, OnceInv
<1>16. ASSUME NEW s \in services, NEW readable \in BOOLEAN, ResolveService(s, readable)
       PROVE  CodeInv' /\ OnceInv'
  <2>1. phase = "plan" /\ phase' = "plan" /\ exitCode' = exitCode
    BY <1>16 DEF ResolveService
  <2> QED BY <2>1 DEF CodeInv, OnceInv
<1>7. ASSUME NEW readable \in BOOLEAN, Plan(readable) PROVE CodeInv' /\ OnceInv'
  <2> DEFINE locals == readable /\ \E k \in Keys : manifest[k] # None
             early == planRun(services, path, locals)
  <2>1. /\ phase = "plan" /\ toRun = services /\ UNCHANGED <<services, path, ran>>
        /\ IF early # None
           THEN phase' = "exited" /\ exitCode' = early /\ toRun' = {}
           ELSE phase' = "loop" /\ UNCHANGED <<exitCode, toRun>>
    BY <1>7 DEF Plan
  <2>2. early # None => services = {} \/ \E s \in services : path[s] = None
    BY DEF planRun
  <2> HIDE DEF early
  <2>3. ran' = <<>> /\ exitCode = "TestPass"
    BY <2>1 DEF ControlInv, CodeInv
  <2>4. toRun' = services => RanOnce'
    BY <2>1, <2>3 DEF RanOnce, RunOf
  <2>5. CodeInv'
    BY <2>1, <2>3, NothingRan DEF CodeInv, CodesOf
  <2>6. phase' = "exited" => RanOnce' \/ \E s \in services' : path'[s] = None
    BY <2>1, <2>2, <2>3, <2>4
  <2> QED BY <2>1, <2>4, <2>5, <2>6 DEF OnceInv
<1>8. ASSUME NEW s \in services, StartProcess(s) PROVE CodeInv' /\ OnceInv'
  <2>1. RanOnce' <=> RanOnce
    BY <1>8 DEF StartProcess, RanOnce, RunOf
  <2> QED BY <1>8, <2>1 DEF StartProcess, CodeInv, OnceInv, CodesOf
<1>9. ASSUME NEW s \in services, NEW ok \in BOOLEAN, Dispense(s, ok)
      PROVE  CodeInv' /\ OnceInv'
  <2>1. RanOnce' <=> RanOnce
    BY <1>9 DEF Dispense, RanOnce, RunOf
  <2>2. toRun # {} /\ toRun' = toRun
    BY <1>9 DEF Dispense, AliveInv, ClientPhases
  <2> QED BY <1>9, <2>1, <2>2 DEF Dispense, CodeInv, OnceInv, CodesOf
<1>10. ASSUME NEW s \in services, NEW code \in PluginCodes, NEW rpcFails \in BOOLEAN,
              StartPlugin(s, code, rpcFails)
       PROVE  CodeInv' /\ OnceInv'
  BY <1>10, StartCounts
<1>11. CASE RunEnd
  <2>1. RanOnce' <=> RanOnce
    BY <1>11 DEF RunEnd, RanOnce, RunOf
  <2> QED BY <1>11, <2>1 DEF RunEnd, CodeInv, OnceInv, CodesOf
<1>12. ASSUME phase \in BenchPhases, phase' \in BenchPhases \cup {"exited"},
              UNCHANGED <<ran, toRun, auto>>
       PROVE  CodeInv' /\ OnceInv'
  <2>1. ran' = <<>> /\ toRun' = {} /\ ~auto'
    BY <1>12 DEF ControlInv, OnceInv
  <2> QED BY <1>12, <2>1 DEF CodeInv, OnceInv
<1>13. ASSUME NEW s \in services,
              \/ \E ok \in BOOLEAN : BenchmarkDispense(s, ok)
              \/ \E writes \in {"whole", "partly", "none"}, code \in PluginCodes,
                   rpcFails \in BOOLEAN : BenchmarkStart(s, writes, code, rpcFails)
              \/ BenchmarkRead(s)
       PROVE  CodeInv' /\ OnceInv'
  BY <1>12, <1>13 DEF BenchmarkDispense, BenchmarkStart, BenchmarkRead
<1>14. CASE RunCrash
  BY <1>14 DEF RunCrash, CodeInv, OnceInv
<1>15. ASSUME NEW s \in Benchmarked, NEW ok \in BOOLEAN, BenchmarkBegin(s, ok)
       PROVE  CodeInv' /\ OnceInv'
  BY <1>0, <1>15 DEF BenchmarkBegin
<1> QED BY <1>1, <1>2, <1>4, <1>5, <1>6, <1>7, <1>8, <1>9, <1>10, <1>11, <1>13, <1>14,
           <1>15, <1>16, Zenon DEF HarnessNext, RunStep

----------------------------------------------------------------------------
(* What a benchmark shows.                                                 *)

\* The report of the service under way is gone until its plugin has written
\* one; nothing has been shown before the command has ended.
BenchInv ==
    /\ report \in [Benchmarked -> [by : 1..MaxCommands \cup {None}, whole : BOOLEAN]]
    /\ phase # "exited" => shown = NothingShown
    /\ phase \in BenchPhases =>
         \E s \in Benchmarked :
            /\ alive = {s} /\ commands \in 1..MaxCommands
            /\ phase # "benchRead" => report[s] = NoReport
            /\ phase = "benchRead" =>
                 /\ report[s].whole => report[s].by = commands
                 /\ exitCode \in Outcomes
    /\ ShowsItsOwnReport

\* Every step keeps reports apart from the commands that did not write them.
LEMMA BenchStep ==
    ASSUME TypeOK, LoopInv, BenchInv, [HarnessNext]_allVars
    PROVE  BenchInv'
<1> USE DEF LoopPhases, BenchPhases, ClientPhases
<1> LoopType /\ ControlInv /\ AliveInv
  BY DEF LoopInv
<1>0. ASSUME NEW ss, NEW a, NewProcess(ss, a), report' = report,
             phase' \notin BenchPhases
      PROVE  BenchInv'
  <2>1. shown' = NothingShown
    BY <1>0 DEF NewProcess
  <2> QED BY <1>0, <2>1 DEF BenchInv, ShowsItsOwnReport
<1>1. ASSUME NEW ss \in RunConfigs, NEW a \in BOOLEAN, RunBegin(ss, a) PROVE BenchInv'
  <2>1. phase' \in {"preflight", "plan"} /\ NewProcess(ss, a) /\ report' = report
    BY <1>1 DEF RunBegin
  <2> QED BY <1>0, <2>1
<1>2. CASE InstallBegin
  BY <1>0, <1>2 DEF InstallBegin
<1>3. ASSUME LoopStays, commands' = commands PROVE BenchInv'
  BY <1>3 DEF LoopStays, loopVars, BenchInv, ShowsItsOwnReport
<1>4. ASSUME phase \notin BenchPhases \cup {"exited"}, phase' \notin BenchPhases,
             UNCHANGED <<report, shown>>
      PROVE  BenchInv'
  BY <1>4 DEF BenchInv, ShowsItsOwnReport
<1>5. CASE PreflightDone \/ RunEnd
  BY <1>4, <1>5 DEF PreflightDone, RunEnd, benchVars
<1>6. ASSUME NEW readable \in BOOLEAN, Plan(readable) PROVE BenchInv'
  <2>1. phase = "plan" /\ phase' \in {"exited", "loop"} /\ UNCHANGED <<report, shown>>
    BY <1>6 DEF Plan, benchVars
  <2> QED BY <1>4, <2>1
<1>7. ASSUME NEW s \in services,
             \/ \E readable \in BOOLEAN : ResolveService(s, readable)
             \/ StartProcess(s)
             \/ \E ok \in BOOLEAN : Dispense(s, ok)
             \/ \E code \in PluginCodes, rpcFails \in BOOLEAN :
                  StartPlugin(s, code, rpcFails)
      PROVE  BenchInv'
  <2>1. /\ phase \in LoopPhases \cup {"plan"}
        /\ phase' \in LoopPhases \cup {"plan", "exited"}
        /\ UNCHANGED <<report, shown>>
    BY <1>7 DEF ResolveService, StartProcess, Dispense, StartPlugin, benchVars
  <2> QED BY <1>4, <2>1
<1>8. CASE RunCrash
  <2>1. phase \in {"none", "preflight"} /\ phase' = "none" /\ UNCHANGED <<report, shown>>
    BY <1>8 DEF RunCrash, Crash, ControlInv, benchVars
  <2> QED BY <1>4, <2>1
<1>9. ASSUME NEW s \in services, NEW ok \in BOOLEAN, BenchmarkDispense(s, ok)
      PROVE  BenchInv'
  BY <1>9 DEF BenchmarkDispense, BenchInv, ShowsItsOwnReport, benchVars, vars
<1>10. ASSUME NEW s \in services, NEW writes \in {"whole", "partly", "none"},
              NEW code \in PluginCodes, NEW rpcFails \in BOOLEAN,
              BenchmarkStart(s, writes, code, rpcFails)
       PROVE  BenchInv'
  <2> DEFINE new == [by |-> commands, whole |-> writes = "whole"]
  <2>1. /\ phase = "benchStart" /\ s \in alive /\ phase' = "benchRead"
        /\ UNCHANGED <<alive, shown, commands>>
        /\ report' = IF writes = "none" THEN report ELSE [report EXCEPT ![s] = new]
        /\ exitCode' = IF rpcFails THEN "InternalError" ELSE code
    BY <1>10 DEF BenchmarkStart, vars
  <2>2. s \in Benchmarked /\ alive = {s} /\ commands \in 1..MaxCommands
        /\ report[s] = NoReport /\ shown = NothingShown
    BY <2>1 DEF BenchInv
  <2>3. /\ new \in [by : 1..MaxCommands \cup {None}, whole : BOOLEAN]
        /\ new.by = commands
    BY <2>2
  <2>4. NoReport.whole = FALSE
    BY DEF NoReport
  <2> HIDE DEF new
  <2>5. report' \in [Benchmarked -> [by : 1..MaxCommands \cup {None}, whole : BOOLEAN]]
    BY <2>1, <2>2, <2>3 DEF BenchInv
  <2>6. report'[s].whole => report'[s].by = commands
    BY <2>1, <2>2, <2>3, <2>4 DEF BenchInv
  <2>7. exitCode' \in Outcomes
    BY <2>1 DEF Outcomes
  <2> QED BY <2>1, <2>2, <2>5, <2>6, <2>7 DEF BenchInv, ShowsItsOwnReport
<1>11. ASSUME NEW s \in services, BenchmarkRead(s) PROVE BenchInv'
  <2>1. /\ phase = "benchRead" /\ s \in alive /\ phase' = "exited"
        /\ UNCHANGED <<report, exitCode, commands>>
        /\ shown' = IF report[s].whole
                    THEN [report |-> report[s].by, ok |-> ~benchmarkRunError(exitCode)]
                    ELSE NothingShown
    BY <1>11 DEF BenchmarkRead, vars
  <2>2. (report[s].whole => report[s].by = commands) /\ exitCode \in Outcomes
    BY <2>1 DEF BenchInv
  <2>3. ~benchmarkRunError(exitCode) => exitCode \in {"TestPass", "TestFail"}
    BY <2>2, ServicesAsk DEF benchmarkRunError, Outcomes
  <2>4. ShowsItsOwnReport'
    BY <2>1, <2>2, <2>3 DEF ShowsItsOwnReport
  <2> QED BY <2>1, <2>4 DEF BenchInv
<1>12. ASSUME NEW s \in Benchmarked, NEW ok \in BOOLEAN, BenchmarkBegin(s, ok)
       PROVE  BenchInv'
  <2>1. NewProcess({s}, FALSE) /\ shown' = NothingShown
    BY <1>12 DEF BenchmarkBegin, NewProcess
  <2>2. CASE ~ok
    BY <1>0, <1>12, <2>1, <2>2 DEF BenchmarkBegin
  <2>3. CASE ok
    <3>1. /\ phase' = "benchClient" /\ alive' = {s}
          /\ report' = [report EXCEPT ![s] = NoReport]
          /\ commands' = commands + 1 /\ commands < MaxCommands
      BY <1>12, <2>3 DEF BenchmarkBegin, ClearReport
    <3>2. commands' \in 1..MaxCommands
      BY <3>1, ConstantTypes DEF TypeOK
    <3>3. NoReport \in [by : 1..MaxCommands \cup {None}, whole : BOOLEAN]
      BY DEF NoReport
    <3>4. /\ report' \in [Benchmarked -> [by : 1..MaxCommands \cup {None},
                                          whole : BOOLEAN]]
          /\ report'[s] = NoReport
      BY <3>1, <3>3 DEF BenchInv
    <3> QED BY <2>1, <3>1, <3>2, <3>4 DEF BenchInv, ShowsItsOwnReport
  <2> QED BY <2>2, <2>3
<1> QED BY <1>1, <1>2, <1>3, <1>5, <1>6, <1>7, <1>8, <1>9, <1>10, <1>11, <1>12,
           LoopWaits, Zenon DEF HarnessNext, RunStep

----------------------------------------------------------------------------
(* What autoinstall guarantees.                                            *)

\* As long as no save of the other process has lost an entry, a run with
\* autoinstall has what it began with or has installed by now; and so has the
\* copy of the manifest that the holder of the mutex is about to save.
CopyServed ==
    updateMu # None =>
        \A r \in wanted : job[r].stage \in {"none", "done"} => Served(loaded, r)

NeedInv ==
    /\ auto => wanted = Named(services)
    /\ auto /\ phase \notin {"none", "preflight"} => proc = "returned"
    /\ auto /\ ~lost => ServedInv /\ CopyServed

\* The mutex is enough: what is saved is the copy with one more entry, whatever
\* the other process has put into the file since.
LEMMA SavesWhatIsServed ==
    ASSUME DiskShared, CopyServed, [AnyNext]_vars
    PROVE  ServedStays
<1> SUFFICES ASSUME NEW s \in wanted, job[s].stage \in {"none", "done"},
                    Served(manifest, s)
             PROVE  Served(manifest, s)'
  BY DEF ServedStays
<1>1. CASE manifest' = manifest
  BY <1>1, ServedPrimed
<1>2. CASE manifest' # manifest
  <2>1. PICK r \in Requests : AddAndSave(r)
    BY <1>2 DEF AnyNext, Step, FromConfig, FromConfigFails, InstallOne, Local, Begin,
           Start, Resolve, fetchIndex, ReadPin, Verify, WriteBinary, LockAndLoad, Fail,
           Wait, Crash, vars, disk
  <2> DEFINE entry == EntryOf(r)
  <2>2. job[r].key \in Keys /\ entry # None /\ s \in Requests
    BY <2>1, EntryType, ConstantTypes DEF AddAndSave, DiskShared, TypeOK
  <2>3. manifest' = [loaded EXCEPT ![job[r].key] = entry]
    BY <2>1 DEF AddAndSave
  <2>4. Served(loaded, s)
    BY <2>1, ConstantTypes DEF AddAndSave, DiskShared, Mutex, CopyServed
  <2> HIDE DEF entry
  <2>5. PICK name \in MayInstall(s), v \in Versions :
          loaded[<<name, v>>] # None /\ (s.version # 0 => v = s.version)
    BY <2>2, <2>4, ServedMeans
  <2>6. <<name, v>> \in Keys
    BY <2>2, MayInstallType DEF Keys
  <2>7. manifest'[<<name, v>>] # None
    BY <2>2, <2>3, <2>5, <2>6 DEF DiskShared, TypeOK
  <2>8. Served(manifest', s)
    BY <2>2, <2>5, <2>7, ServedMeans
  <2> QED BY <2>8, ServedPrimed
<1> QED BY <1>1, <1>2

\* The copy of Load has what the file has; later steps of the goroutines only
\* take from the requests that count as served, until Save adds to both.
LEMMA CopyStep ==
    ASSUME DiskShared, ServedInv, CopyServed, wanted' = wanted,
           \/ \E r \in Requests : Step(r)
           \/ Wait \/ Crash
    PROVE  CopyServed'
<1> USE Fields, ConstantTypes
<1> TypeOK /\ Mutex
  BY DEF DiskShared
<1>w. wanted \subseteq Requests
  BY DEF TypeOK
<1>0. ASSUME NEW r
      PROVE  Served(loaded, r)' <=> Served(loaded', r)
  BY DEF Served, installedInManifest, Latest, Installed, Under, MayInstall
<1>1. ASSUME loaded' = loaded, updateMu' # None => updateMu # None,
             \A r \in Requests : job'[r].stage \in {"none", "done"} =>
                                   job[r].stage \in {"none", "done"}
      PROVE  CopyServed'
  BY <1>0, <1>1, <1>w DEF CopyServed
<1>2. ASSUME updateMu' = None PROVE CopyServed'
  BY <1>2 DEF CopyServed
<1>3. ASSUME NEW r \in Requests, LockAndLoad(r) PROVE CopyServed'
  <2>1. /\ proc = "running" /\ loaded' = manifest
        /\ job' = [job EXCEPT ![r].stage = "loaded"]
    BY <1>3 DEF LockAndLoad
  <2>2. \A s \in Requests : job'[s].stage \in {"none", "done"} =>
                              job[s].stage \in {"none", "done"}
    BY <2>1 DEF TypeOK, Job
  <2>3. \A s \in wanted : job'[s].stage \in {"none", "done"} => Served(loaded', s)
    BY <1>w, <2>1, <2>2 DEF ServedInv
  <2> QED BY <1>0, <2>3 DEF CopyServed
<1>4. ASSUME NEW r \in Requests, AddAndSave(r) PROVE CopyServed'
  BY <1>2, <1>4 DEF AddAndSave
<1>5. ASSUME NEW r \in Requests, Start(r) PROVE CopyServed'
  BY <1>1, <1>5 DEF Start, TypeOK, Job
<1>6. ASSUME NEW r \in Requests, NEW d \in Details[r.name], Resolve(r, d)
      PROVE  CopyServed'
  BY <1>1, <1>6 DEF Resolve, TypeOK, Job
<1>7. ASSUME NEW r \in Requests, NEW i \in Indexes, fetchIndex(r, i)
      PROVE  CopyServed'
  BY <1>1, <1>7 DEF fetchIndex, TypeOK, Job
<1>8. ASSUME NEW r \in Requests, ReadPin(r) PROVE CopyServed'
  BY <1>1, <1>8 DEF ReadPin, TypeOK, Job
<1>9. ASSUME NEW r \in Requests, NEW id \in Identities, Verify(r, id)
      PROVE  CopyServed'
  BY <1>1, <1>9 DEF Verify, TypeOK, Job
<1>10. ASSUME NEW r \in Requests, WriteBinary(r) PROVE CopyServed'
  BY <1>1, <1>10 DEF WriteBinary, TypeOK, Job
<1>11. ASSUME NEW r \in Requests, Fail(r) PROVE CopyServed'
  BY <1>1, <1>11 DEF Fail, TypeOK, Job, At
<1>12. CASE Wait
  BY <1>1, <1>12 DEF Wait
<1>13. CASE Crash
  BY <1>2, <1>13 DEF Crash
<1> QED BY <1>3, <1>4, <1>5, <1>6, <1>7, <1>8, <1>9, <1>10, <1>11, <1>12, <1>13,
           Zenon DEF Step

\* Steps of the installer within a command.
LEMMA NeedGoesOn ==
    ASSUME DiskShared, NeedInv, UNCHANGED <<auto, services, lost>>,
           (\E r \in Requests : Step(r)) \/ Wait \/ Crash,
           wanted' = wanted, phase' \in {"none", "preflight"}
    PROVE  NeedInv'
<1>1. AnyNext
  BY DEF AnyNext
<1>2. ASSUME auto, ~lost PROVE ServedInv' /\ CopyServed'
  <2>1. ServedInv /\ CopyServed
    BY <1>2 DEF NeedInv
  <2>2. ServedInv'
    BY <1>1, <2>1, SavesWhatIsServed, ServedStep DEF DiskShared
  <2> QED BY <2>1, <2>2, CopyStep
<1> QED BY <1>2 DEF NeedInv, Named

\* The first step of a command finds the mutex free, whatever the other process
\* did to the manifest before.
LEMMA NeedBegins ==
    ASSUME DiskShared, proc # "running", updateMu' = updateMu,
           auto' => /\ wanted' = Named(services')
                    /\ phase' \in {"none", "preflight"} /\ ServedInv'
    PROVE  NeedInv'
<1>1. updateMu' = None
  BY DEF DiskShared, Mutex
<1> QED BY <1>1 DEF NeedInv, CopyServed

\* Every step keeps the guarantee, or the other process has lost an entry.
LEMMA NeedStep ==
    ASSUME DiskShared, LoopInv, NeedInv, [HarnessNext]_allVars
    PROVE  NeedInv'
<1>1. ASSUME NEW ss \in RunConfigs, NEW a \in BOOLEAN, RunBegin(ss, a) PROVE NeedInv'
  <2>1. Named(ss) \in SUBSET Requests
    BY ServicesAsk DEF Named
  <2>2. auto' = a /\ services' = ss
    BY <1>1 DEF RunBegin, NewProcess
  <2>3. CASE a
    <3>1. FromConfig(Named(ss)) \/ FromConfigFails(Named(ss))
      BY <1>1, <2>3 DEF RunBegin
    <3>2. ServedInv'
      BY <2>1, <3>1, ServedAtStart
    <3>3. proc # "running" /\ updateMu' = updateMu /\ wanted' = Named(ss)
      BY <3>1 DEF FromConfig, FromConfigFails, Begin
    <3>4. Named(services') = Named(ss) /\ phase' = "preflight"
      BY <1>1, <2>2, <2>3 DEF RunBegin, Named
    <3> QED BY <3>2, <3>3, <3>4, NeedBegins
  <2>4. CASE ~a
    <3>1. proc # "running" /\ updateMu' = updateMu
      BY <1>1, <2>4 DEF RunBegin
    <3> QED BY <2>2, <2>4, <3>1, NeedBegins
  <2> QED BY <2>3, <2>4
<1>2. CASE InstallBegin
  <2>1. proc # "running" /\ updateMu' = updateMu /\ auto' = FALSE
    BY <1>2 DEF InstallBegin, NewProcess, FromConfig, FromConfigFails, InstallOne, Local,
                Begin
  <2> QED BY <2>1, NeedBegins
<1>3. ASSUME NEW s \in Benchmarked, NEW ok \in BOOLEAN, BenchmarkBegin(s, ok)
      PROVE  NeedInv'
  <2>1. proc # "running" /\ updateMu' = updateMu /\ auto' = FALSE
    BY <1>3 DEF BenchmarkBegin, NewProcess
  <2> QED BY <2>1, NeedBegins
<1>4. CASE Preflight \/ InstallStep
  <2>1. (\E r \in Requests : Step(r)) \/ Wait
    BY <1>4 DEF Preflight, InstallStep
  <2>2. wanted' = wanted
    BY <2>1, StepGoesOn
  <2>3. UNCHANGED <<auto, services, lost>> /\ phase' \in {"none", "preflight"}
    BY <1>4 DEF Preflight, InstallStep, runVars, loopVars, otherVars
  <2> QED BY <2>1, <2>2, <2>3, NeedGoesOn
<1>5. CASE RunCrash
  <2>1. Crash /\ wanted' = wanted /\ phase' = "none" /\ UNCHANGED <<auto, services, lost>>
    BY <1>5 DEF RunCrash, Crash, otherVars
  <2> QED BY <2>1, NeedGoesOn
<1>s. ASSUME NEW r
      PROVE  /\ Served(manifest, r)' <=> Served(manifest', r)
             /\ Served(loaded, r)' <=> Served(loaded', r)
  BY DEF Served, installedInManifest, Latest, Installed, Under, MayInstall
<1>6. ASSUME UNCHANGED <<manifest, proc, wanted, job, updateMu, loaded, cancelled, err>>,
             UNCHANGED <<auto, services, lost>>,
             auto /\ phase' \notin {"none", "preflight"} => proc = "returned"
      PROVE  NeedInv'
  <2>1. ASSUME NEW r \in wanted
        PROVE  /\ Served(manifest, r)' <=> Served(manifest, r)
               /\ Served(loaded, r)' <=> Served(loaded, r)
    <3>1. manifest' = manifest /\ loaded' = loaded
      BY <1>6
    <3> QED BY <1>s, <3>1
  <2>2. CopyServed' <=> CopyServed
    BY <1>6, <2>1 DEF CopyServed
  <2>3. ServedInv' <=> ServedInv
    BY <1>6, <2>1 DEF ServedInv
  <2>4. Named(services)' = Named(services)
    BY <1>6 DEF Named
  <2> QED BY <1>6, <2>2, <2>3, <2>4 DEF NeedInv
<1>7. ASSUME UNCHANGED <<vars, auto, services, lost>>,
             phase \in {"none", "preflight"} /\ phase' \notin {"none", "preflight"} =>
               proc = "returned"
      PROVE  NeedInv'
  BY <1>6, <1>7 DEF vars, disk, NeedInv
<1>8. CASE PreflightDone \/ RunEnd
  BY <1>7, <1>8 DEF PreflightDone, RunEnd, otherVars
<1>9. ASSUME NEW readable \in BOOLEAN, Plan(readable) PROVE NeedInv'
  BY <1>7, <1>9 DEF Plan, otherVars
<1>10. ASSUME NEW s \in services,
              \/ \E readable \in BOOLEAN : ResolveService(s, readable)
              \/ StartProcess(s)
              \/ \E ok \in BOOLEAN : Dispense(s, ok)
              \/ \E code \in PluginCodes, rpcFails \in BOOLEAN :
                   StartPlugin(s, code, rpcFails)
              \/ \E ok \in BOOLEAN : BenchmarkDispense(s, ok)
              \/ \E writes \in {"whole", "partly", "none"}, code \in PluginCodes,
                   rpcFails \in BOOLEAN : BenchmarkStart(s, writes, code, rpcFails)
              \/ BenchmarkRead(s)
       PROVE  NeedInv'
  BY <1>7, <1>10 DEF ResolveService, StartProcess, Dispense, StartPlugin, BenchmarkDispense,
                     BenchmarkStart, BenchmarkRead, otherVars
<1>11. CASE UNCHANGED allVars
  BY <1>7, <1>11 DEF allVars, runVars, loopVars, otherVars
<1>12. ASSUME NEW i \in Foreign, NEW id \in Identities, OtherLoads(i, id)
       PROVE  NeedInv'
  BY <1>6, <1>12 DEF OtherLoads, loopVars, NeedInv
<1>13. CASE OtherSaves
  <2>1. /\ lost' = (lost \/ \E k \in Keys : manifest[k] # None /\ manifest'[k] = None)
        /\ UNCHANGED <<auto, services, phase, proc, wanted, job, updateMu, loaded,
                       cancelled, err>>
    BY <1>13 DEF OtherSaves, loopVars
  <2>2. Named(services)' = Named(services)
    BY <2>1 DEF Named
  <2>3. ASSUME auto, ~lost' PROVE ServedInv' /\ CopyServed'
    <3>1. ServedInv /\ CopyServed /\ EntriesStay
      BY <2>1, <2>3 DEF NeedInv, EntriesStay
    <3>2. \A r \in wanted : Served(manifest, r) => Served(manifest, r)'
      BY <3>1, StaysServed DEF DiskShared, TypeOK
    <3>3. \A r \in wanted : Served(loaded, r)' <=> Served(loaded, r)
      BY <1>s, <2>1
    <3>4. ServedInv'
      BY <2>1, <3>1, <3>2 DEF ServedInv
    <3>5. CopyServed'
      BY <2>1, <3>1, <3>3 DEF CopyServed
    <3> QED BY <3>4, <3>5
  <2> QED BY <2>1, <2>2, <2>3 DEF NeedInv
<1> QED BY <1>1, <1>2, <1>3, <1>4, <1>5, <1>8, <1>9, <1>10, <1>11, <1>12, <1>13,
           Zenon DEF HarnessNext, RunStep

----------------------------------------------------------------------------
(* What follows for every behaviour.                                       *)

HarnessInv ==
    DiskShared /\ LoopInv /\ CodeInv /\ OnceInv /\ BenchInv /\ NeedInv

\* Nothing is installed and nothing has run when the first command begins.
LEMMA HarnessInitially == HarnessInit => HarnessInv
<1> SUFFICES ASSUME HarnessInit PROVE HarnessInv
  OBVIOUS
<1>1. TypeOK /\ JobInv /\ LockInv
  BY InitiallyIInv DEF HarnessInit, IInv
<1>2. OtherOK
  BY ServicesAsk DEF HarnessInit, OtherOK
<1>3. LocalInv /\ SharedInv
  BY DEF HarnessInit, Init, LocalInv, SharedInv, At, Verified
<1>4. LoopType
  <2>1. ran \in Seq(Outcome) /\ path \in [Services -> Keys \cup {None}]
    BY DEF HarnessInit
  <2>2. phase \in Phases /\ exitCode \in ExitCodes
    BY DEF HarnessInit, Phases, ExitCodes
  <2>3. lost \in BOOLEAN /\ auto \in BOOLEAN
    BY Zenon DEF HarnessInit
  <2> QED BY <2>1, <2>2, <2>3 DEF LoopType, HarnessInit
<1>5. ControlInv /\ AliveInv /\ AskedInv
  BY DEF HarnessInit, Init, ControlInv, AliveInv, AskedInv, ClientPhases, LoopPhases,
         BenchPhases
<1>6. CodeInv /\ OnceInv
  BY DEF HarnessInit, CodeInv, OnceInv, LoopPhases, BenchPhases
<1>7. BenchInv
  <2>1. NoReport \in [by : 1..MaxCommands \cup {None}, whole : BOOLEAN]
    BY DEF NoReport
  <2> QED BY <2>1 DEF HarnessInit, BenchInv, BenchPhases, ShowsItsOwnReport
<1>8. NeedInv
  BY DEF HarnessInit, NeedInv
<1> QED BY <1>1, <1>2, <1>3, <1>4, <1>5, <1>6, <1>7, <1>8
        DEF HarnessInv, DiskShared, LoopInv, LockInv

\* The invariant holds for any sequence of installs, runs and benchmarks, with
\* another process on the same directory.
THEOREM HarnessInvariant == HarnessSpec => []HarnessInv
<1>1. HarnessInv /\ [HarnessNext]_allVars => HarnessInv'
  <2> SUFFICES ASSUME HarnessInv, [HarnessNext]_allVars PROVE HarnessInv'
    OBVIOUS
  <2>1. DiskShared' /\ LoopInv'
    BY DiskSharedStep, LoopStep DEF HarnessInv
  <2>2. CodeInv' /\ OnceInv'
    BY CountStep DEF HarnessInv
  <2>3. BenchInv' /\ NeedInv'
    BY BenchStep, NeedStep DEF HarnessInv, DiskShared
  <2> QED BY <2>1, <2>2, <2>3 DEF HarnessInv
<1> QED BY <1>1, HarnessInitially, PTL DEF HarnessSpec

\* The state of installer, loop and benchmark is well formed, and only resolved
\* plugins run.
THEOREM HarnessTypeCorrect == HarnessSpec => []HarnessTypeOK
<1>1. ASSUME HarnessInv PROVE HarnessTypeOK
  <2>1. alive \subseteq Services
    BY <1>1 DEF HarnessInv, LoopInv, LoopType, AliveInv
  <2>2. \A i \in DOMAIN ran : ran[i] \in Outcome
    BY <1>1 DEF HarnessInv, LoopInv, LoopType
  <2>3. \A i \in DOMAIN ran : ran[i].key \in Keys
                              /\ ran[i].code \in PluginCodes \cup {"InternalError"}
    BY <2>2 DEF Outcome, Outcomes
  <2> QED BY <1>1, <2>1, <2>3 DEF HarnessInv, DiskShared, OtherOK, LoopInv, LoopType,
                                  BenchInv, HarnessTypeOK
<1> QED BY <1>1, HarnessInvariant, PTL

\* run.go: across the plugins of a run the most severe outcome is the exit
\* code, in whatever order the map gives them.
THEOREM WorstIsReported == HarnessSpec => []MostSevereWins
<1>1. ASSUME HarnessInv PROVE MostSevereWins
  BY <1>1 DEF HarnessInv, CodeInv, MostSevereWins, Worst, CodesOf
<1> QED BY <1>1, HarnessInvariant, PTL

\* No way out of the loop or of a benchmark leaves a plugin process.
THEOREM NoneLeftBehind == HarnessSpec => []NoPluginLeftBehind
<1>1. ASSUME HarnessInv PROVE NoPluginLeftBehind
  <2>1. CASE phase \in ClientPhases
    <3>1. PICK s \in services : alive = {s}
      BY <1>1, <2>1 DEF HarnessInv, LoopInv, AliveInv
    <3>2. Cardinality(alive) = 1
      BY <3>1, FS_Singleton, Zenon
    <3> QED BY <2>1, <3>2 DEF NoPluginLeftBehind, ClientPhases, BenchPhases
  <2>2. CASE phase \notin ClientPhases
    <3>1. alive = {}
      BY <1>1, <2>2 DEF HarnessInv, LoopInv, AliveInv
    <3>2. Cardinality(alive) = 0
      BY <3>1, FS_EmptySet, Zenon
    <3> QED BY <3>1, <3>2 DEF NoPluginLeftBehind
  <2> QED BY <2>1, <2>2
<1> QED BY <1>1, HarnessInvariant, PTL

\* What runs is what the service asked for, signed for that key or local,
\* although the other process may change disk and manifest after the plan.
THEOREM AskedIsRun == HarnessSpec => []RunsWhatWasAsked
<1>1. ASSUME HarnessInv PROVE RunsWhatWasAsked
  <2> SUFFICES ASSUME NEW i \in DOMAIN ran
               PROVE  LET ask == Asks[ran[i].service]
                          k == ran[i].key
                      IN  /\ \A s \in services : path[s] # None
                          /\ k[1] = ask.name
                          /\ ask.version # 0 => k[2] = ask.version
                          /\ IF k[1] \in Locals THEN binary[k] \in Builds
                             ELSE binary[k] # None /\ ConfigOf[binary[k]] = k
    BY DEF RunsWhatWasAsked
  <2>1. ran # <<>>
    OBVIOUS
  <2>2. \A s \in services : path[s] # None
    BY <1>1, <2>1 DEF HarnessInv, LoopInv, AskedInv
  <2> DEFINE s == ran[i].service
  <2>3. s \in services /\ ran[i].key = path[s]
    BY <1>1 DEF HarnessInv, LoopInv, AskedInv
  <2> HIDE DEF s
  <2>4. s \in Services /\ path[s] \in Keys /\ path[s] # None
    BY <1>1, <2>2, <2>3 DEF HarnessInv, LoopInv, LoopType
  <2>5. Fits(path[s], s) /\ binary[path[s]] # None
    BY <1>1, <2>4 DEF HarnessInv, LoopInv, AskedInv
  <2>6. IF path[s][1] \in Locals THEN binary[path[s]] \in Builds
        ELSE ConfigOf[binary[path[s]]] = path[s]
    BY <1>1, <2>4, <2>5 DEF HarnessInv, DiskShared, SharedInv
  <2> QED BY <2>2, <2>3, <2>5, <2>6 DEF Fits, s
<1> QED BY <1>1, HarnessInvariant, PTL

\* A benchmark presents no report but its own plugin's.
THEOREM OwnReportShown == HarnessSpec => []ShowsItsOwnReport
<1>1. HarnessInv => ShowsItsOwnReport
  BY DEF HarnessInv, BenchInv
<1> QED BY <1>1, HarnessInvariant, PTL

\* Distinct services make as many outcomes as there are services.
LEMMA OnePerService ==
    ASSUME NEW q \in Seq(Outcome),
           \A i, j \in DOMAIN q : q[i].service = q[j].service => i = j
    PROVE  Len(q) = Cardinality(RunOf(q))
<1>1. Len(q) \in Nat /\ DOMAIN q = 1..Len(q)
  OBVIOUS
<1>2. IsFiniteSet(1..Len(q)) /\ Cardinality(1..Len(q)) = Len(q)
  BY <1>1, FS_Interval
<1> DEFINE f == [i \in 1..Len(q) |-> q[i].service]
<1>3. f \in Bijection(1..Len(q), RunOf(q))
  BY <1>1 DEF Bijection, Injection, Surjection, IsInjective, RunOf
<1>4. ExistsBijection(1..Len(q), RunOf(q))
  BY <1>3 DEF ExistsBijection
<1> QED BY <1>2, <1>4, FS_Bijection

\* "A run installs what it needs": with autoinstall every service is run, once,
\* while another process installs into the same directory, unless a save of
\* that process loses an entry in the middle, or the hub may answer with
\* another plugin than the one asked for.
THEOREM NeedsAreInstalled == HarnessSpec => []RunInstallsWhatItNeeds
<1>1. ASSUME HarnessInv PROVE RunInstallsWhatItNeeds
  <2> DEFINE unread == \E s \in services :
                         path[s] = None /\ getBinary(manifest, Asks[s]) # None
  <2> SUFFICES ASSUME phase = "exited", auto, ~err, toRun = {}, ~lost,
                      \A s \in services : Asks[s] # None, ~unread,
                      \A s \in services : MayInstall(Asks[s]) = {Asks[s].name}
               PROVE  RunOf(ran) = services /\ Len(ran) = Cardinality(services)
    BY DEF RunInstallsWhatItNeeds, RunOf
  <2>1. proc = "returned" /\ ServedInv /\ wanted = Named(services)
    BY <1>1 DEF HarnessInv, NeedInv
  <2>2. ASSUME NEW s \in services PROVE path[s] # None
    <3>1. Asks[s] \in wanted /\ Asks[s] \in Requests /\ Asks[s] \in Request
      BY <1>1, <2>1, ServicesAsk, ConstantTypes DEF Named, HarnessInv, LoopInv, LoopType
    <3>2. Served(manifest, Asks[s])
      BY <2>1, <3>1 DEF ServedInv
    <3>3. installedInManifest(manifest, Asks[s])
      BY <3>1, <3>2, ServedMeans, InManifest
    <3>4. getBinary(manifest, Asks[s]) # None
      BY <3>1, <3>3, ResolverSound
    <3> QED BY <3>4
  <2>3. RanOnce
    BY <1>1, <2>2 DEF HarnessInv, OnceInv
  <2>4. RunOf(ran) = services
    BY <2>3 DEF RanOnce
  <2>5. Len(ran) = Cardinality(RunOf(ran))
    BY <1>1, <2>3, OnePerService DEF RanOnce, HarnessInv, LoopInv, LoopType
  <2> QED BY <2>4, <2>5
<1> QED BY <1>1, HarnessInvariant, PTL
============================================================================
