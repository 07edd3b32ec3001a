--------------------------- MODULE StorageProofs ---------------------------
(***************************************************************************)
(* Proofs about Storage and the rotation inside it: for any number of      *)
(* clients, versions, units, retries and restarts, and any lifetime of a   *)
(* file key.  That uploads are separated by a rotation is proved for one   *)
(* rotation at a time, as main() of rotate.py runs it.                     *)
(***************************************************************************)
EXTENDS Storage, TLAPS

Job == [pc : {"idle", "create", "poll"}, next : 0..MaxVersion + 1, id : Nat,
        polls : Nat, seen : BOOLEAN]

\* The record updates of a job.
LEMMA JobUpdates ==
  ASSUME NEW r \in Job, NEW n \in 0..MaxVersion + 1
  PROVE  /\ [r EXCEPT !.pc = "create", !.next = n] \in Job
         /\ [r EXCEPT !.pc = "create", !.next = n].pc = "create"
         /\ [r EXCEPT !.pc = "create", !.next = n].next = n
<1> DEFINE Nexts == 0..MaxVersion + 1
<1>1. Job = [pc : {"idle", "create", "poll"}, next : Nexts, id : Nat, polls : Nat,
             seen : BOOLEAN] /\ n \in Nexts
  BY DEF Job
<1> HIDE DEF Nexts
<1> QED
  BY <1>1

LEMMA JobPolls ==
  ASSUME NEW r \in Job, NEW p \in Nat, NEW b \in BOOLEAN
  PROVE  [r EXCEPT !.polls = p, !.seen = b] \in Job
BY DEF Job

\* What KMS and the jobs know of each other.  A highest version always exists, so the
\* number rotate() guesses is defined.
KmsInv ==
  /\ path \in [VersionIds -> 0..MaxVersion]
  /\ \E m \in Versions : \A v \in Versions : v <= m
  /\ enabled \subseteq Versions /\ primary \in enabled
  /\ job \in [Jobs -> Job]
  /\ \A j \in Jobs :
       /\ job[j].pc = "create" => job[j].next # 0
       /\ job[j].pc = "poll" => /\ job[j].id \in Versions
                                /\ job[j].seen => job[j].id \in enabled

LEMMA KmsInit == StorageInit => KmsInv
<1> SUFFICES ASSUME StorageInit PROVE KmsInv
  OBVIOUS
<1>1. 1 \in VersionIds /\ Versions = {1}
  BY RotateAssumption DEF StorageInit, RotateInit, Versions, VersionIds
<1>2. NoJob \in Job /\ NoJob.pc = "idle"
  BY RotateAssumption DEF NoJob, Job
<1> QED
  BY <1>1, <1>2, RotateAssumption DEF StorageInit, RotateInit, KmsInv, VersionIds

\* The guessed number is one more than an existing version.
LEMMA NextNumberInRange ==
  ASSUME KmsInv
  PROVE  /\ NextNumber \in 1..MaxVersion + 1
         /\ \A v \in Versions : v < NextNumber
         /\ NextNumber - 1 \in Versions
<1>1. PICK m \in Versions : \A v \in Versions : v <= m
  BY DEF KmsInv
<1>2. Versions \subseteq 1..MaxVersion
  BY DEF Versions, VersionIds
<1>3. /\ m + 1 \in 1..MaxVersion + 1 /\ m + 1 - 1 \in Versions
      /\ \A v \in Versions : v < m + 1
  BY <1>1, <1>2, RotateAssumption
<1>4. \E n \in 1..MaxVersion + 1 : (\A v \in Versions : v < n) /\ n - 1 \in Versions
  <2> DEFINE top == m + 1
  <2>1. top \in 1..MaxVersion + 1
    BY <1>3
  <2>2. \A v \in Versions : v < top
    BY <1>3
  <2>3. top - 1 \in Versions
    <3>1. m \in Int
      BY <1>2
    <3>2. top - 1 = m
      BY <3>1
    <3> QED
      BY <3>2
  <2> HIDE DEF top
  <2> QED
    BY <2>1, <2>2, <2>3
<1> QED
  BY <1>4, Zenon DEF NextNumber

\* A step of a job or of KMS keeps KmsInv.
LEMMA KmsStep == KmsInv /\ RotateStep => KmsInv'
<1> SUFFICES ASSUME KmsInv, RotateStep PROVE KmsInv'
  OBVIOUS
<1> USE RotateAssumption
<1>0. /\ job \in [Jobs -> Job] /\ path \in [VersionIds -> 0..MaxVersion]
      /\ enabled \subseteq Versions /\ primary \in enabled
      /\ Versions \subseteq Nat
  BY DEF KmsInv, Versions, VersionIds
<1>1. NoJob \in Job /\ NoJob.pc = "idle"
  BY DEF NoJob, Job
<1>2. ASSUME UNCHANGED path PROVE Versions' = Versions
  BY <1>2 DEF Versions
<1>3. ASSUME NEW j \in Jobs, ListVersions(j) PROVE KmsInv'
  <2>1. NextNumber \in 1..MaxVersion + 1
    BY NextNumberInRange
  <2> DEFINE new == [NoJob EXCEPT !.pc = "create", !.next = NextNumber]
  <2>2. new \in Job /\ new.pc = "create" /\ new.next # 0
    <3>1. NextNumber \in 0..MaxVersion + 1 /\ NextNumber # 0
      BY <2>1
    <3> QED
      BY <1>1, <3>1, JobUpdates
  <2>3. job' = [job EXCEPT ![j] = new] /\ UNCHANGED kmsVars
    BY <1>3 DEF ListVersions
  <2> HIDE DEF new
  <2> QED
    BY <1>0, <1>2, <2>2, <2>3 DEF KmsInv, kmsVars
<1>4. ASSUME NEW j \in Jobs, CreateVersion(j) PROVE KmsInv'
  <2>1. PICK n \in VersionIds, up \in BOOLEAN :
          /\ \A v \in Versions : v < n
          /\ path' = [path EXCEPT ![n] = job[j].next]
          /\ enabled' = IF up THEN enabled \cup {n} ELSE enabled
          /\ \/ job' = [job EXCEPT ![j].pc = "poll", ![j].id = n, ![j].seen = up]
             \/ job' = [job EXCEPT ![j] = NoJob]
    BY <1>4 DEF CreateVersion
  <2>2. job[j].next \in 1..MaxVersion
    BY <1>0, <1>4 DEF CreateVersion, KmsInv, Job
  <2>3. /\ path' \in [VersionIds -> 0..MaxVersion]
        /\ Versions' = Versions \cup {n} /\ n \in Nat
    BY <1>0, <2>1, <2>2 DEF Versions, VersionIds
  <2>4. \A v \in Versions' : v <= n
    BY <1>0, <2>1, <2>3
  <2>5. enabled' \subseteq Versions' /\ enabled \subseteq enabled'
    BY <1>0, <2>1, <2>3
  <2>6. job' \in [Jobs -> Job]
    BY <1>0, <1>1, <2>1, <2>3 DEF Job
  <2>7. ASSUME NEW i \in Jobs
        PROVE  /\ job'[i].pc = "create" => job'[i].next # 0
               /\ job'[i].pc = "poll" => /\ job'[i].id \in Versions'
                                         /\ job'[i].seen => job'[i].id \in enabled'
    <3>1. CASE i # j
      BY <1>0, <2>1, <2>3, <2>5, <3>1 DEF KmsInv
    <3>2. CASE i = j /\ job' = [job EXCEPT ![j] = NoJob]
      BY <1>0, <1>1, <3>2
    <3>3. CASE i = j /\ job' = [job EXCEPT ![j].pc = "poll", ![j].id = n, ![j].seen = up]
      <4>1. job'[i].pc = "poll" /\ job'[i].id = n /\ job'[i].seen = up
        BY <1>0, <3>3 DEF Job
      <4> QED
        BY <2>1, <2>3, <4>1
    <3> QED
      BY <2>1, <3>1, <3>2, <3>3
  <2> QED
    BY <1>0, <1>4, <2>3, <2>4, <2>5, <2>6, <2>7 DEF CreateVersion, KmsInv
<1>5. ASSUME NEW j \in Jobs, Poll(j) PROVE KmsInv'
  <2>1. job' = [job EXCEPT ![j].polls = @ + 1, ![j].seen = job[j].id \in enabled]
    BY <1>5 DEF Poll
  <2>2. job' \in [Jobs -> Job]
    <3> DEFINE seen == job[j].id \in enabled
               polls == job[j].polls + 1
               new == [job[j] EXCEPT !.polls = polls, !.seen = seen]
    <3>1. job' = [job EXCEPT ![j] = new]
      BY <1>0, <2>1
    <3>2. seen \in BOOLEAN
      OBVIOUS
    <3>3. job[j] \in Job /\ polls \in Nat
      BY <1>0 DEF Job
    <3> HIDE DEF seen, polls
    <3>4. new \in Job
      BY <3>2, <3>3, JobPolls, Zenon
    <3> HIDE DEF new
    <3> QED
      BY <1>0, <3>1, <3>4
  <2>3. job'[j].pc = job[j].pc /\ job'[j].id = job[j].id /\ job'[j].next = job[j].next
    BY <1>0, <2>1 DEF Job
  <2>4. job'[j].seen <=> job[j].id \in enabled
    BY <1>0, <2>1 DEF Job
  <2>5. \A i \in Jobs : i # j => job'[i] = job[i]
    BY <1>0, <2>1
  <2> QED
    BY <1>0, <1>2, <1>5, <2>2, <2>3, <2>4, <2>5 DEF Poll, KmsInv, kmsVars
<1>6. ASSUME NEW j \in Jobs, PollGivesUp(j) \/ JobFails(j) PROVE KmsInv'
  <2>1. job' = [job EXCEPT ![j] = NoJob] /\ UNCHANGED kmsVars
    BY <1>6 DEF PollGivesUp, JobFails
  <2> QED
    BY <1>0, <1>1, <1>2, <2>1 DEF KmsInv, kmsVars
<1>7. ASSUME NEW j \in Jobs, Promote(j) PROVE KmsInv'
  <2>1. job' = [job EXCEPT ![j] = NoJob] /\ primary' \in enabled /\ UNCHANGED <<path, enabled>>
    BY <1>7 DEF Promote, KmsInv
  <2> QED
    BY <1>0, <1>1, <1>2, <2>1 DEF KmsInv
<1>8. ASSUME NEW n \in VersionIds, KmsEnables(n) PROVE KmsInv'
  <2>1. /\ enabled' = enabled \cup {n} /\ n \in Versions
        /\ UNCHANGED <<path, primary, job>>
    BY <1>8 DEF KmsEnables
  <2> QED
    BY <1>0, <1>2, <2>1 DEF KmsInv
<1> QED
  BY <1>3, <1>4, <1>5, <1>6, <1>7, <1>8 DEF RotateStep

\* Every other step of the storage path leaves KMS and the jobs alone.
LEMMA StorageKms ==
  StorageNext => \/ RotateStep /\ UNCHANGED <<clock, restarts, clientVars, serverVars, objects>>
                 \/ UNCHANGED <<kmsVars, job, kek>>
BY DEF StorageNext, AskFileKey, FetchFileKey, PostUnknown, PostAccepted, GiveUpUpload, Retry,
       FileKey, FileKeyRefused, SinkStores, SinkFails, ClockTick, ServerRestart, rotateVars,
       ekmVars

\* KmsInv holds of every state of the storage path.
THEOREM KmsInvariance == StorageSpec => []KmsInv
<1>1. KmsInv /\ [StorageNext]_storageVars => KmsInv'
  <2>1. KmsInv /\ UNCHANGED <<kmsVars, job>> => KmsInv'
    BY DEF KmsInv, kmsVars, Versions
  <2> QED
    BY <2>1, KmsStep, StorageKms DEF storageVars, rotateVars
<1> QED
  BY <1>1, KmsInit, PTL DEF StorageSpec

\* The primary version exists and is enabled in every state, through rotations that
\* overlap, fail or die: rotate() promotes the id KMS assigned, after the poll.
THEOREM PrimaryEnabledAlways == StorageSpec => []PrimaryEnabled
<1>1. KmsInv => PrimaryEnabled
  BY DEF KmsInv, PrimaryEnabled
<1> QED
  BY <1>1, KmsInvariance, PTL

\* A command that ended with 0 has an object in the bucket: upload() answers after
\* sink.upload, and nothing takes an object away.
THEOREM ConfirmedIsStoredAlways == StorageSpec => []ConfirmedIsStored
<1>1. StorageInit => ConfirmedIsStored
  BY DEF StorageInit, ConfirmedIsStored
<1>2. ConfirmedIsStored /\ [StorageNext]_storageVars => ConfirmedIsStored'
  <2> SUFFICES ASSUME ConfirmedIsStored, [StorageNext]_storageVars PROVE ConfirmedIsStored'
    OBVIOUS
  <2>1. ASSUME UNCHANGED confirmed, objects \subseteq objects' PROVE ConfirmedIsStored'
    BY <2>1 DEF ConfirmedIsStored
  <2>2. ASSUME NEW w \in writes, SinkStores(w) PROVE ConfirmedIsStored'
    <3>1. ObjectOf(w) \in objects' /\ ObjectOf(w).no = w.no /\ objects \subseteq objects'
      BY <2>2 DEF SinkStores, ObjectOf
    <3>2. confirmed' \subseteq confirmed \cup {w.no}
      BY <2>2 DEF SinkStores
    <3> QED
      BY <3>1, <3>2 DEF ConfirmedIsStored
  <2>3. ASSUME NEW w \in writes, SinkFails(w) PROVE ConfirmedIsStored'
    BY <2>1, <2>3 DEF SinkFails
  <2>4. CASE UNCHANGED <<confirmed, objects>>
    BY <2>1, <2>4
  <2>5. \/ \E w \in writes : SinkStores(w) \/ SinkFails(w)
        \/ UNCHANGED <<confirmed, objects>>
    BY DEF StorageNext, AskFileKey, FetchFileKey, PostUnknown, PostAccepted, GiveUpUpload, Retry,
           FileKey, FileKeyRefused, ClockTick, ServerRestart, clientVars, storageVars
  <2> QED
    BY <2>2, <2>3, <2>4, <2>5
<1> QED
  BY <1>1, <1>2, PTL DEF StorageSpec

------------------------------------------------------------------------------
(* Rotations that may overlap.                                              *)

\* Which unit each path and each version wraps with.  A version's path number is at most
\* its id, and a number that is guessed follows a version that exists.
UnitInv ==
  /\ drawn \in Nat /\ kek \in [VersionIds -> Nat]
  /\ \A n \in VersionIds : kek[n] <= drawn
  /\ \A m, n \in VersionIds : kek[m] = kek[n] /\ kek[m] # 0 => m = n
  /\ \A n \in Versions : path[n] <= n /\ kek[path[n]] # 0
  /\ \A j \in Jobs : job[j].pc = "create" => job[j].next - 1 \in Versions
  /\ \A o \in objects :
       o.version \in Versions /\ o.unit # 0 /\ o.unit = kek[path[o.version]]

LEMMA UnitInit == StorageInit => UnitInv
<1> SUFFICES ASSUME StorageInit PROVE UnitInv
  OBVIOUS
<1>1. 1 \in VersionIds /\ Versions = {1} /\ VersionIds \subseteq Nat
  BY RotateAssumption DEF StorageInit, RotateInit, Versions, VersionIds
<1>2. \A j \in Jobs : job[j].pc = "idle"
  BY DEF StorageInit, RotateInit, NoJob
<1>3. /\ path[1] = 1 /\ kek[1] = 1 /\ drawn = 1 /\ objects = {}
      /\ kek = [n \in VersionIds |-> IF n = 1 THEN 1 ELSE 0]
  BY <1>1 DEF StorageInit, RotateInit
<1> QED
  BY <1>1, <1>2, <1>3 DEF UnitInv

\* A new version keeps the units of the others; its own is that of its path, which is
\* fresh if no version has the path.
LEMMA UnitCreate ==
  ASSUME KmsInv, UnitInv, NEW j \in Jobs, CreateVersion(j), UNCHANGED objects
  PROVE  UnitInv'
<1> USE RotateAssumption
<1> DEFINE next == job[j].next
<1>1. PICK n \in VersionIds, up \in BOOLEAN :
        /\ \A v \in Versions : v < n
        /\ path' = [path EXCEPT ![n] = next]
        /\ \/ job' = [job EXCEPT ![j].pc = "poll", ![j].id = n, ![j].seen = up]
           \/ job' = [job EXCEPT ![j] = NoJob]
  BY DEF CreateVersion
<1>2. next \in VersionIds /\ next - 1 \in Versions
  BY DEF CreateVersion, KmsInv, UnitInv, Job, VersionIds
<1>3. /\ path \in [VersionIds -> 0..MaxVersion] /\ job \in [Jobs -> Job]
      /\ drawn \in Nat /\ kek \in [VersionIds -> Nat]
      /\ VersionIds \subseteq Nat /\ Versions \subseteq VersionIds
      /\ \A v \in Versions : path[v] \in VersionIds
  <2>1. path \in [VersionIds -> 0..MaxVersion] /\ job \in [Jobs -> Job]
    BY DEF KmsInv
  <2>2. VersionIds \subseteq Nat /\ Versions \subseteq VersionIds
    BY DEF VersionIds, Versions
  <2>3. \A v \in Versions : path[v] \in VersionIds
    BY <2>1, <2>2 DEF VersionIds, Versions
  <2> QED
    BY <2>1, <2>2, <2>3 DEF UnitInv
<1>4. /\ Versions' = Versions \cup {n} /\ n \notin Versions
      /\ path'[n] = next /\ \A v \in Versions : path'[v] = path[v]
  BY <1>1, <1>2, <1>3 DEF Versions, VersionIds
<1>5. next <= n
  BY <1>1, <1>2, <1>3
<1> HIDE DEF next
<1>6. /\ drawn' \in Nat /\ kek' \in [VersionIds -> Nat] /\ kek'[next] # 0
      /\ \A m \in VersionIds : kek'[m] <= drawn'
      /\ \A m \in VersionIds : kek[m] # 0 => kek'[m] = kek[m]
      /\ \A l, m \in VersionIds : kek'[l] = kek'[m] /\ kek'[l] # 0 => l = m
  <2>1. WrapUnder(next)
    BY DEF CreateVersion, next
  <2>2. CASE kek[next] # 0
    BY <1>2, <1>3, <2>1, <2>2 DEF WrapUnder, ekmVars, UnitInv
  <2>3. CASE kek[next] = 0
    <3>1. drawn' = drawn + 1 /\ kek' = [kek EXCEPT ![next] = drawn + 1]
      BY <2>1, <2>3 DEF WrapUnder
    <3>2. kek'[next] = drawn + 1 /\ \A m \in VersionIds : m # next => kek'[m] = kek[m]
      BY <1>2, <1>3, <3>1
    <3>3. \A m \in VersionIds : kek[m] <= drawn /\ kek[m] \in Nat
      BY <1>3 DEF UnitInv
    <3> QED
      BY <1>2, <1>3, <2>3, <3>1, <3>2, <3>3 DEF UnitInv
  <2> QED
    BY <2>2, <2>3
<1>7. ASSUME NEW v \in Versions' PROVE path'[v] <= v /\ kek'[path'[v]] # 0
  <2>1. CASE v = n
    BY <1>4, <1>5, <1>6, <2>1
  <2>2. CASE v \in Versions
    <3>1. path[v] <= v /\ kek[path[v]] # 0
      BY <2>2 DEF UnitInv
    <3> QED
      BY <1>3, <1>4, <1>6, <2>2, <3>1
  <2> QED
    BY <1>4, <2>1, <2>2
<1>8. \A i \in Jobs : job'[i].pc = "create" => job'[i].next - 1 \in Versions'
  <2>1. job'[j].pc # "create" /\ \A i \in Jobs : i # j => job'[i] = job[i]
    BY <1>1, <1>3 DEF NoJob, Job
  <2> QED
    BY <1>4, <2>1 DEF UnitInv
<1>9. \A o \in objects' :
        o.version \in Versions' /\ o.unit # 0 /\ o.unit = kek'[path'[o.version]]
  <2> SUFFICES ASSUME NEW o \in objects
               PROVE  /\ o.version \in Versions' /\ o.unit # 0
                      /\ o.unit = kek'[path'[o.version]]
    OBVIOUS
  <2>1. o.version \in Versions /\ o.unit # 0 /\ o.unit = kek[path[o.version]]
    BY DEF UnitInv
  <2>2. path'[o.version] = path[o.version] /\ path[o.version] \in VersionIds
    BY <1>3, <1>4, <2>1
  <2> QED
    BY <1>4, <1>6, <2>1, <2>2
<1> QED
  BY <1>6, <1>7, <1>8, <1>9 DEF UnitInv, VersionIds

\* The number a job guesses, and the steps that bring no new version or number.
LEMMA Guess ==
  ASSUME KmsInv, NEW j \in Jobs, ListVersions(j)
  PROVE  /\ job'[j].next = NextNumber /\ \A i \in Jobs : i # j => job'[i] = job[i]
         /\ UNCHANGED <<path, kek, drawn>> /\ Versions' = Versions
<1>1. job' = [job EXCEPT ![j] = [NoJob EXCEPT !.pc = "create", !.next = NextNumber]]
  BY DEF ListVersions
<1>2. UNCHANGED <<path, kek, drawn>>
  BY DEF ListVersions, kmsVars, ekmVars
<1> QED
  BY <1>1, <1>2 DEF KmsInv, NoJob, Versions

LEMMA JobGoesOn ==
  ASSUME KmsInv,
         \/ \E j \in Jobs : Poll(j) \/ PollGivesUp(j) \/ Promote(j) \/ JobFails(j)
         \/ \E n \in VersionIds : KmsEnables(n)
  PROVE  /\ UNCHANGED <<path, kek, drawn>> /\ Versions' = Versions
         /\ \A i \in Jobs : job'[i].pc = "create" =>
              job[i].pc = "create" /\ job'[i].next = job[i].next
<1>0. job \in [Jobs -> Job] /\ NoJob.pc = "idle"
  BY DEF KmsInv, NoJob
<1>1. UNCHANGED <<path, kek, drawn>> => Versions' = Versions
  BY DEF Versions
<1>2. ASSUME NEW j \in Jobs, Poll(j) PROVE job'[j].pc = job[j].pc /\ job'[j].next = job[j].next
  <2>1. job' = [job EXCEPT ![j].polls = @ + 1, ![j].seen = job[j].id \in enabled]
    BY <1>2 DEF Poll
  <2> QED
    BY <1>0, <2>1 DEF Job
<1>3. ASSUME NEW j \in Jobs, Poll(j) PROVE \A i \in Jobs : i # j => job'[i] = job[i]
  BY <1>0, <1>3 DEF Poll
<1>4. ASSUME NEW j \in Jobs, PollGivesUp(j) \/ Promote(j) \/ JobFails(j)
      PROVE  job'[j].pc = "idle" /\ \A i \in Jobs : i # j => job'[i] = job[i]
  BY <1>0, <1>4 DEF PollGivesUp, Promote, JobFails
<1>5. UNCHANGED <<path, kek, drawn>>
  BY DEF Poll, PollGivesUp, Promote, JobFails, KmsEnables, kmsVars, ekmVars
<1>6. ASSUME NEW n \in VersionIds, KmsEnables(n) PROVE job' = job
  BY <1>6 DEF KmsEnables
<1> QED
  BY <1>1, <1>2, <1>3, <1>4, <1>5, <1>6

\* Every step of the storage path that is not a step of a job or of KMS: no path, version
\* or number changes, and an object is encrypted with the unit of the primary version.
LEMMA OtherSteps ==
  ASSUME [StorageNext]_storageVars, ~RotateStep \/ ~UNCHANGED objects
  PROVE  /\ UNCHANGED <<path, enabled, primary, job, kek>> /\ drawn' \in {drawn, drawn + 1}
         /\ \A o \in objects' \ objects : \E w : o = ObjectOf(w)
<1>1. CASE \E n \in keyCalls : FileKey(n)
  BY <1>1 DEF FileKey, kmsVars
<1>2. CASE \E w \in writes : SinkStores(w) \/ SinkFails(w)
  BY <1>2 DEF SinkStores, SinkFails, rotateVars, kmsVars, ekmVars
<1>3. CASE UNCHANGED <<rotateVars, objects>>
  BY <1>3 DEF rotateVars, kmsVars, ekmVars
<1> QED
  BY <1>1, <1>2, <1>3
  DEF StorageNext, AskFileKey, FetchFileKey, PostUnknown, PostAccepted, GiveUpUpload, Retry,
      FileKeyRefused, ClockTick, ServerRestart, storageVars

LEMMA UnitStep ==
  ASSUME KmsInv, UnitInv, [StorageNext]_storageVars
  PROVE  UnitInv'
<1>1. ASSUME NEW j \in Jobs, ListVersions(j), UNCHANGED objects PROVE UnitInv'
  BY <1>1, Guess, NextNumberInRange DEF UnitInv
<1>2. ASSUME NEW j \in Jobs, CreateVersion(j), UNCHANGED objects PROVE UnitInv'
  BY <1>2, UnitCreate
<1>3. ASSUME \/ \E j \in Jobs : Poll(j) \/ PollGivesUp(j) \/ Promote(j) \/ JobFails(j)
             \/ \E n \in VersionIds : KmsEnables(n),
             UNCHANGED objects
      PROVE  UnitInv'
  BY <1>3, JobGoesOn DEF UnitInv
<1>4. CASE ~RotateStep \/ ~UNCHANGED objects
  <2>1. /\ UNCHANGED <<path, primary, job, kek>> /\ drawn' \in {drawn, drawn + 1}
        /\ \A o \in objects' \ objects : \E w : o = ObjectOf(w)
    BY <1>4, OtherSteps
  <2>2. Versions' = Versions
    BY <2>1 DEF Versions
  <2>3. \A w : LET o == ObjectOf(w) IN
          o.version \in Versions /\ o.unit # 0 /\ o.unit = kek[path[o.version]]
    BY DEF KmsInv, UnitInv, ObjectOf
  <2>4. \A o \in objects' :
          o.version \in Versions /\ o.unit # 0 /\ o.unit = kek[path[o.version]]
    BY <2>1, <2>3 DEF UnitInv
  <2>5. drawn' \in Nat /\ \A n \in VersionIds : kek[n] <= drawn'
    BY <2>1 DEF UnitInv
  <2> QED
    BY <2>1, <2>2, <2>4, <2>5 DEF UnitInv
<1> QED
  BY <1>1, <1>2, <1>3, <1>4 DEF RotateStep

\* Two objects share the unit of their KEK exactly if one key path encrypted both, and the
\* EKM still has it.
UnitsFollowPaths ==
  \A o1, o2 \in objects :
    /\ o1.unit # 0 /\ kek[path[o1.version]] = o1.unit
    /\ o1.unit = o2.unit <=> path[o1.version] = path[o2.version]

\* What is left of RotationSeparatesUploads when rotations overlap: every object can be
\* decrypted for ever, and its unit is that of its key path (KMS creates the version on the
\* path rotate() guessed; the EKM ties a path once, _wrap).
THEOREM UnitsFollowPathsAlways == StorageSpec => []UnitsFollowPaths
<1>1. KmsInv /\ UnitInv => UnitsFollowPaths
  <2> SUFFICES ASSUME KmsInv, UnitInv, NEW o1 \in objects, NEW o2 \in objects
               PROVE  /\ o1.unit # 0 /\ kek[path[o1.version]] = o1.unit
                      /\ o1.unit = o2.unit <=> path[o1.version] = path[o2.version]
    BY DEF UnitsFollowPaths
  <2>1. /\ o1.unit # 0 /\ o1.unit = kek[path[o1.version]] /\ o1.version \in Versions
        /\ o2.unit = kek[path[o2.version]] /\ o2.version \in Versions
    BY DEF UnitInv
  <2>2. path[o1.version] \in VersionIds /\ path[o2.version] \in VersionIds
    BY <2>1 DEF KmsInv, Versions, VersionIds
  <2> QED
    BY <2>1, <2>2 DEF UnitInv
<1> QED
  BY <1>1, UnitInit, UnitStep, KmsInvariance, PTL DEF StorageSpec

\* A rotation that begins picks a number above every path in use, so it moves uploads to a
\* path of their own, unless a rotation that is under way takes the number first (rotate()).
NextPathIsNew ==
  [][\A j \in Jobs : ListVersions(j) => \A v \in Versions : path[v] < job'[j].next]_storageVars

\* The number of the next path is new at the moment it is picked, for any number of
\* rotations and however many ids Cloud KMS skips: paths never run ahead of ids.
THEOREM NextPathIsNewAlways == StorageSpec => NextPathIsNew
<1>1. ASSUME KmsInv, UnitInv, NEW j \in Jobs, ListVersions(j), NEW v \in Versions
      PROVE  path[v] < job'[j].next
  <2>1. v < job'[j].next /\ job'[j].next \in Nat
    BY <1>1, Guess, NextNumberInRange, RotateAssumption
  <2>2. path[v] <= v /\ path[v] \in Nat /\ v \in Nat
    BY <1>1 DEF UnitInv, KmsInv, Versions, VersionIds
  <2> QED
    BY <2>1, <2>2
<1>2. KmsInv /\ UnitInv =>
        [\A j \in Jobs : ListVersions(j) => \A v \in Versions : path[v] < job'[j].next]_storageVars
  BY <1>1
<1> QED
  BY <1>2, UnitInit, UnitStep, KmsInvariance, PTL DEF StorageSpec, NextPathIsNew

------------------------------------------------------------------------------
(* Rotations one at a time: the numbers that are guessed never repeat.      *)

OneJob == \A i, j \in Jobs : i = j

\* The number of a path is above every older id, so no two versions have one path.
OrderInv ==
  /\ \A n \in Versions : \A m \in Versions : m < n => m < path[n]
  /\ \A j \in Jobs : job[j].pc = "create" => \A v \in Versions : v < job[j].next

LEMMA OrderInit == StorageInit => OrderInv
<1> SUFFICES ASSUME StorageInit PROVE OrderInv
  OBVIOUS
<1>1. Versions = {1} /\ \A j \in Jobs : job[j].pc = "idle"
  BY RotateAssumption DEF StorageInit, RotateInit, Versions, VersionIds, NoJob
<1> QED
  BY <1>1 DEF OrderInv

\* The job has the field to itself between its list and its creation.
LEMMA OrderCreate ==
  ASSUME OneJob, KmsInv, OrderInv, NEW j \in Jobs, CreateVersion(j)
  PROVE  OrderInv'
<1>1. PICK n \in VersionIds, up \in BOOLEAN :
        /\ \A v \in Versions : v < n
        /\ path' = [path EXCEPT ![n] = job[j].next]
        /\ \/ job' = [job EXCEPT ![j].pc = "poll", ![j].id = n, ![j].seen = up]
           \/ job' = [job EXCEPT ![j] = NoJob]
  BY DEF CreateVersion
<1>2. /\ job[j].next \in VersionIds /\ \A v \in Versions : v < job[j].next
      /\ path \in [VersionIds -> 0..MaxVersion] /\ job \in [Jobs -> Job]
      /\ VersionIds \subseteq Nat /\ Versions \subseteq VersionIds
  BY DEF CreateVersion, KmsInv, OrderInv, Job, VersionIds, Versions
<1>3. /\ Versions' = Versions \cup {n} /\ n \notin Versions
      /\ path'[n] = job[j].next /\ \A v \in Versions : path'[v] = path[v]
  BY <1>1, <1>2 DEF Versions, VersionIds
<1>4. ASSUME NEW v \in Versions', NEW m \in Versions', m < v PROVE m < path'[v]
  <2>1. CASE v = n
    BY <1>2, <1>3, <1>4, <2>1
  <2>2. CASE v \in Versions
    <3>1. m \in Versions
      BY <1>1, <1>2, <1>3, <1>4, <2>2
    <3> QED
      BY <1>3, <1>4, <2>2, <3>1 DEF OrderInv
  <2> QED
    BY <1>3, <2>1, <2>2
<1>5. \A i \in Jobs : job'[i].pc # "create"
  <2>1. job'[j].pc # "create"
    BY <1>1, <1>2 DEF NoJob, Job
  <2> QED
    BY <2>1 DEF OneJob
<1> QED
  BY <1>4, <1>5 DEF OrderInv

LEMMA OrderStep ==
  ASSUME OneJob, KmsInv, OrderInv, [StorageNext]_storageVars
  PROVE  OrderInv'
<1>1. ASSUME NEW j \in Jobs, ListVersions(j) PROVE OrderInv'
  <2>1. \A i \in Jobs : job'[i].next = NextNumber
    BY <1>1, Guess DEF OneJob
  <2> QED
    BY <1>1, <2>1, Guess, NextNumberInRange DEF OrderInv
<1>2. ASSUME NEW j \in Jobs, CreateVersion(j) PROVE OrderInv'
  BY <1>2, OrderCreate
<1>3. ASSUME \/ \E j \in Jobs : Poll(j) \/ PollGivesUp(j) \/ Promote(j) \/ JobFails(j)
             \/ \E n \in VersionIds : KmsEnables(n)
      PROVE  OrderInv'
  BY <1>3, JobGoesOn DEF OrderInv
<1>4. CASE ~RotateStep
  BY <1>4, OtherSteps DEF OrderInv, Versions
<1> QED
  BY <1>1, <1>2, <1>3, <1>4 DEF RotateStep

\* Where rotations run one at a time, two objects share the unit of their KEK exactly
\* if one version encrypted both, and the EKM still has it (rotate() numbers the path,
\* the EKM ties each path to a fresh unit), whatever rotations failed in between.
THEOREM RotationSeparatesUploadsAlways ==
  ASSUME OneJob PROVE StorageSpec => []RotationSeparatesUploads
<1>1. KmsInv /\ UnitInv /\ OrderInv => RotationSeparatesUploads
  <2> SUFFICES ASSUME KmsInv, UnitInv, OrderInv, NEW o1 \in objects, NEW o2 \in objects
               PROVE  /\ o1.unit # 0 /\ kek[path[o1.version]] = o1.unit
                      /\ o1.unit = o2.unit <=> o1.version = o2.version
    BY DEF RotationSeparatesUploads
  <2> DEFINE v1 == o1.version
             v2 == o2.version
  <2>1. /\ v1 \in Versions /\ o1.unit # 0 /\ o1.unit = kek[path[v1]]
        /\ v2 \in Versions /\ o2.unit = kek[path[v2]]
    BY DEF UnitInv
  <2> HIDE DEF v1, v2
  <2>2. path[v1] \in VersionIds /\ path[v2] \in VersionIds /\ v1 \in Nat /\ v2 \in Nat
    BY <2>1 DEF KmsInv, Versions, VersionIds
  <2>3. path[v1] = path[v2] => v1 = v2
    <3>1. /\ path[v1] <= v1 /\ path[v2] <= v2
          /\ v1 < v2 => v1 < path[v2]
          /\ v2 < v1 => v2 < path[v1]
      BY <2>1 DEF UnitInv, OrderInv
    <3>2. path[v1] \in Nat /\ path[v2] \in Nat
      BY <2>2 DEF VersionIds
    <3> QED
      BY <2>2, <3>1, <3>2
  <2>4. o1.unit = o2.unit => path[v1] = path[v2]
    BY <2>1, <2>2 DEF UnitInv
  <2> QED
    BY <2>1, <2>3, <2>4 DEF v1, v2
<1>2. KmsInv /\ OrderInv /\ [StorageNext]_storageVars => OrderInv'
  BY OrderStep
<1> QED
  BY <1>1, <1>2, OrderInit, UnitInit, UnitStep, KmsInvariance, PTL DEF StorageSpec

------------------------------------------------------------------------------
(* The lifetime of a file key.                                              *)

Cmd == [pc : {"idle", "key", "fetch", "post", "sent"}, no : Nat, key : Nat, at : Nat,
        tries : Nat]

\* The server holds the key of a command until its TTL and, unless it restarted, no
\* shorter.
Timed(r) == /\ r.key \in Units /\ r.key <= drawn
            /\ \/ cache[r.key] = r.at + Ttl
               \/ cache[r.key] = 0 /\ (restarts = 0 => clock >= r.at + Ttl)

KeyInv ==
  /\ drawn \in Nat /\ clock \in Nat /\ started \in Nat /\ restarts \in Nat
  /\ cache \in [Units -> Nat]
  /\ cmd \in [Clients -> Cmd]
  /\ \A c \in Clients : cmd[c].pc \in {"fetch", "post", "sent"} => Timed(cmd[c])

LEMMA KeyInit == StorageInit => KeyInv
BY DEF StorageInit, RotateInit, KeyInv, NoCmd, Cmd

LEMMA KeyStep ==
  ASSUME KeyInv, [StorageNext]_storageVars
  PROVE  KeyInv'
<1> USE StorageAssumption, RotateAssumption
<1>0. /\ cmd \in [Clients -> Cmd] /\ cache \in [Units -> Nat] /\ Units \subseteq Nat
      /\ drawn \in Nat /\ clock \in Nat /\ started \in Nat /\ restarts \in Nat
      /\ NoCmd \in Cmd /\ NoCmd.pc = "idle" /\ Ttl \in Nat
  BY DEF KeyInv, Units, NoCmd, Cmd
<1> DEFINE Has(c) == cmd[c].pc \in {"fetch", "post", "sent"}
           Quiet(c) == cmd'[c] = cmd[c] \/ cmd'[c] = NoCmd
\* A step that leaves the keys alone, or drops those that have expired.
<1>1. ASSUME drawn' \in {drawn, drawn + 1}, UNCHANGED <<clock, started, restarts>>,
             cache' \in {cache, Pruned}, cmd' \in [Clients -> Cmd],
             \A c \in Clients : cmd'[c].pc \in {"fetch", "post", "sent"} =>
               Has(c) /\ cmd'[c].key = cmd[c].key /\ cmd'[c].at = cmd[c].at
      PROVE  KeyInv'
  <2>1. Pruned \in [Units -> Nat]
        /\ \A k \in Units : Pruned[k] = IF cache[k] <= clock THEN 0 ELSE cache[k]
    BY <1>0 DEF Pruned
  <2>2. ASSUME NEW c \in Clients, cmd'[c].pc \in {"fetch", "post", "sent"}
        PROVE  Timed(cmd[c])'
    <3>1. Timed(cmd[c]) /\ cmd'[c].key = cmd[c].key /\ cmd'[c].at = cmd[c].at
      BY <1>1, <2>2 DEF KeyInv
    <3> DEFINE x == cmd[c].key
               e == cmd[c].at + Ttl
    <3>2. x \in Units /\ x \in Nat /\ x <= drawn /\ e \in Nat
          /\ (cache[x] = e \/ (cache[x] = 0 /\ (restarts = 0 => clock >= e)))
      <4>1. cmd[c].at \in Nat /\ cmd[c].key \in Nat
        BY <1>0 DEF Cmd
      <4>2. e \in Nat
        BY <1>0, <4>1
      <4> QED
        BY <3>1, <4>1, <4>2 DEF Timed
    <3>3. cache'[x] = cache[x] \/ cache'[x] = IF cache[x] <= clock THEN 0 ELSE cache[x]
      BY <1>1, <2>1, <3>2
    <3>4. e = cmd'[c].at + Ttl /\ x = cmd'[c].key
      BY <3>1
    <3> HIDE DEF x, e
    <3>5. cache'[x] = e \/ (cache'[x] = 0 /\ (restarts = 0 => clock >= e))
      BY <1>0, <3>2, <3>3
    <3>6. x <= drawn'
      BY <1>0, <1>1, <3>2
    <3> QED
      BY <1>1, <3>2, <3>4, <3>5, <3>6 DEF Timed
  <2> QED
    BY <1>0, <1>1, <2>1, <2>2 DEF KeyInv
<1>2. CASE RotateStep /\ UNCHANGED <<clock, restarts, clientVars, serverVars, objects>>
  <2>1. drawn' \in {drawn, drawn + 1}
    BY <1>2 DEF RotateStep, ListVersions, CreateVersion, WrapUnder, Poll, PollGivesUp, Promote,
                JobFails, KmsEnables, ekmVars
  <2> QED
    BY <1>0, <1>1, <1>2, <2>1 DEF clientVars, serverVars
<1>3. ASSUME NEW c \in Clients, AskFileKey(c) PROVE KeyInv'
  <2> DEFINE no == started'
             new == [NoCmd EXCEPT !.pc = "key", !.no = no]
  <2>1. cmd' = [cmd EXCEPT ![c] = new] /\ started' = started + 1 /\ cache' = Pruned
        /\ UNCHANGED <<drawn, clock, restarts>>
    BY <1>3 DEF AskFileKey, rotateVars, ekmVars
  <2>0. no \in Nat
    BY <1>0, <2>1
  <2> HIDE DEF no
  <2>2. new \in Cmd /\ new.pc = "key"
    BY <1>0, <2>0 DEF Cmd
  <2> HIDE DEF new
  <2>3. cmd' \in [Clients -> Cmd] /\ \A d \in Clients : cmd'[d].pc \in {"fetch", "post", "sent"} =>
          Has(d) /\ cmd'[d] = cmd[d]
    BY <1>0, <2>1, <2>2
  <2>4. Pruned \in [Units -> Nat]
        /\ \A k \in Units : Pruned[k] = IF cache[k] <= clock THEN 0 ELSE cache[k]
    BY <1>0 DEF Pruned
  <2>5. ASSUME NEW d \in Clients, cmd'[d].pc \in {"fetch", "post", "sent"}
        PROVE  Timed(cmd[d])'
    <3>1. Timed(cmd[d]) /\ cmd'[d] = cmd[d] /\ cmd[d].at \in Nat
      BY <1>0, <2>3, <2>5 DEF KeyInv, Cmd
    <3> QED
      BY <1>0, <2>1, <2>4, <3>1 DEF Timed
  <2> QED
    BY <1>0, <2>1, <2>3, <2>4, <2>5 DEF KeyInv
<1>4. ASSUME NEW c \in Clients,
             FetchFileKey(c) \/ PostUnknown(c) \/ PostAccepted(c) \/ GiveUpUpload(c) \/ Retry(c)
      PROVE  KeyInv'
  <2>1. UNCHANGED <<drawn, clock, started, restarts>> /\ cache' \in {cache, Pruned}
    BY <1>4 DEF FetchFileKey, PostUnknown, PostAccepted, GiveUpUpload, Retry, rotateVars, ekmVars,
                serverVars
  <2>2. /\ cmd' \in [Clients -> Cmd]
        /\ \A d \in Clients : d # c => cmd'[d] = cmd[d]
        /\ \/ cmd'[c].pc = "idle"
           \/ Has(c) /\ cmd'[c].key = cmd[c].key /\ cmd'[c].at = cmd[c].at
    <3>1. CASE cmd' = [cmd EXCEPT ![c] = NoCmd]
      BY <1>0, <3>1
    <3>2. CASE Has(c) /\ cmd' = [cmd EXCEPT ![c].pc = "post"]
      BY <1>0, <3>2 DEF Cmd
    <3>3. CASE Has(c) /\ cmd' = [cmd EXCEPT ![c].pc = "sent", ![c].tries = @ + 1]
      BY <1>0, <3>3 DEF Cmd
    <3> QED
      BY <1>4, <3>1, <3>2, <3>3 DEF FetchFileKey, PostUnknown, PostAccepted, GiveUpUpload, Retry,
                                    Exit, Posts
  <2> QED
    BY <1>0, <1>1, <2>1, <2>2
<1>5. ASSUME NEW n \in keyCalls, FileKey(n) PROVE KeyInv'
  <2> DEFINE k == drawn'
             new(c) == [cmd[c] EXCEPT !.pc = "fetch", !.key = k, !.at = clock]
  <2>1. /\ cache' = [cache EXCEPT ![k] = clock + Ttl]
        /\ cmd' = [c \in Clients |-> IF cmd[c].pc = "key" /\ cmd[c].no = n THEN new(c)
                                     ELSE cmd[c]]
        /\ UNCHANGED <<clock, started, restarts>>
    BY <1>5 DEF FileKey, Remember
  <2>2. k = drawn + 1 /\ drawn < MaxUnits
    BY <1>5 DEF FileKey
  <2>3. k \in Units /\ k \in Nat /\ drawn < k
    BY <1>0, <2>2 DEF Units
  <2> HIDE DEF k
  <2>4. cache' \in [Units -> Nat] /\ cache'[k] = clock + Ttl
        /\ \A u \in Units : u # k => cache'[u] = cache[u]
    <3> DEFINE e == clock + Ttl
    <3>0. e \in Nat
      BY <1>0
    <3>1. cache' = [cache EXCEPT ![k] = e]
      BY <2>1, Zenon
    <3> HIDE DEF e
    <3>2. cache' \in [Units -> Nat] /\ cache'[k] = e
          /\ \A u \in Units : u # k => cache'[u] = cache[u]
      BY <1>0, <2>3, <3>0, <3>1
    <3> QED
      BY <3>2 DEF e
  <2>5. ASSUME NEW c \in Clients PROVE new(c) \in Cmd /\ new(c).key = k /\ new(c).at = clock
    BY <1>0, <2>3 DEF Cmd
  <2> HIDE DEF new
  <2>6. cmd' \in [Clients -> Cmd]
    BY <1>0, <2>1, <2>5
  <2>7. ASSUME NEW c \in Clients, cmd'[c].pc \in {"fetch", "post", "sent"}
        PROVE  Timed(cmd[c])'
    <3>1. CASE cmd'[c] = new(c)
      BY <2>1, <2>3, <2>4, <2>5, <3>1 DEF Timed, k
    <3>2. CASE cmd'[c] = cmd[c]
      <4>1. Timed(cmd[c]) /\ cmd[c].key \in Units /\ cmd[c].key <= drawn
        BY <2>7, <3>2 DEF KeyInv, Timed
      <4>2. cmd[c].key # k /\ cmd[c].key <= k
        <5> DEFINE x == cmd[c].key
        <5>1. x \in Nat /\ x <= drawn
          BY <1>0, <4>1
        <5> HIDE DEF x
        <5>2. x # k /\ x <= k
          BY <1>0, <2>3, <5>1
        <5> QED
          BY <5>2 DEF x
      <4>3. cache'[cmd[c].key] = cache[cmd[c].key]
        BY <2>4, <4>1, <4>2
      <4> QED
        BY <2>1, <3>2, <4>1, <4>2, <4>3 DEF Timed, k
    <3> QED
      BY <2>1, <3>1, <3>2
  <2>8. drawn' \in Nat
    BY <2>3 DEF k
  <2> QED
    BY <1>0, <2>1, <2>4, <2>6, <2>7, <2>8 DEF KeyInv
<1>6. CASE \E n \in keyCalls : FileKeyRefused(n)
  <2>1. PICK n \in keyCalls : FileKeyRefused(n)
    BY <1>6
  <2>2. cmd' \in [Clients -> Cmd] /\ \A c \in Clients : Quiet(c)
    BY <1>0, <2>1 DEF FileKeyRefused
  <2> QED
    BY <1>0, <1>1, <2>1, <2>2 DEF FileKeyRefused, rotateVars, ekmVars
<1>7. CASE \E w \in writes : SinkStores(w) \/ SinkFails(w)
  <2>1. PICK w \in writes : SinkStores(w) \/ SinkFails(w)
    BY <1>7
  <2>2. cmd' \in [Clients -> Cmd] /\ \A c \in Clients : Quiet(c)
    BY <1>0, <2>1 DEF SinkStores, SinkFails
  <2> QED
    BY <1>0, <1>1, <2>1, <2>2 DEF SinkStores, SinkFails, rotateVars, ekmVars
<1>8. CASE ClockTick
  <2>1. clock' = clock + 1 /\ UNCHANGED <<drawn, started, restarts, cache, cmd>>
    BY <1>8 DEF ClockTick, rotateVars, ekmVars, clientVars, serverVars
  <2>2. ASSUME NEW c \in Clients, Has(c) PROVE Timed(cmd[c])'
    <3>1. Timed(cmd[c]) /\ cmd[c].at \in Nat
      BY <1>0, <2>2 DEF KeyInv, Cmd
    <3> QED
      BY <1>0, <2>1, <3>1 DEF Timed
  <2> QED
    BY <1>0, <2>1, <2>2 DEF KeyInv
<1>9. CASE ServerRestart
  <2>1. /\ restarts' = restarts + 1 /\ cache' = [k \in Units |-> 0]
        /\ UNCHANGED <<drawn, clock, started, cmd>>
    BY <1>9 DEF ServerRestart, rotateVars, ekmVars, clientVars
  <2>2. ASSUME NEW c \in Clients, Has(c) PROVE Timed(cmd[c])'
    <3>1. Timed(cmd[c])
      BY <2>2 DEF KeyInv
    <3> QED
      BY <1>0, <2>1, <3>1 DEF Timed
  <2> QED
    BY <1>0, <2>1, <2>2 DEF KeyInv
<1>10. CASE UNCHANGED storageVars
  BY <1>0, <1>1, <1>10 DEF storageVars, rotateVars, ekmVars, clientVars, serverVars
<1> QED
  BY <1>2, <1>3, <1>4, <1>5, <1>6, <1>7, <1>8, <1>9, <1>10 DEF StorageNext

\* KeyInv holds of every state.
LEMMA KeyInvariance == StorageSpec => []KeyInv
BY KeyInit, KeyStep, PTL DEF StorageSpec

\* What a POST finds for its key.
LEMMA Lookup ==
  ASSUME KeyInv, NEW c \in Clients, Posts(c)
  PROVE  /\ Pruned[cmd[c].key] # 0 => clock < cmd[c].at + Ttl
         /\ Pruned[cmd[c].key] = 0 /\ restarts = 0 => clock >= cmd[c].at + Ttl
<1> DEFINE k == cmd[c].key
<1>1. Timed(cmd[c]) /\ cmd[c].at \in Nat /\ clock \in Nat /\ cache \in [Units -> Nat]
  BY DEF KeyInv, Posts, Cmd
<1>2. Pruned[k] = IF cache[k] <= clock THEN 0 ELSE cache[k]
  BY <1>1 DEF Pruned, Timed
<1> QED
  BY <1>1, <1>2, StorageAssumption DEF Timed

\* A POST is refused for its key only after the TTL, unless the server restarted
\* (file_key remembers the key for file_key_ttl_s, and only prune_keys drops it).
THEOREM KeyUsableForTtlAlways == StorageSpec => KeyUsableForTtl
<1>1. KeyInv /\ [StorageNext]_storageVars =>
        [\A c \in Clients : PostUnknown(c) /\ restarts = 0 => clock >= cmd[c].at + Ttl]_storageVars
  BY Lookup DEF PostUnknown
<1> QED
  BY <1>1, KeyInvariance, PTL DEF StorageSpec, KeyUsableForTtl

\* No POST is accepted once its key's TTL is over (get_key prunes first).
THEOREM KeyUnusableAfterTtlAlways == StorageSpec => KeyUnusableAfterTtl
<1>1. KeyInv /\ [StorageNext]_storageVars =>
        [\A c \in Clients : PostAccepted(c) => clock < cmd[c].at + Ttl]_storageVars
  BY Lookup DEF PostAccepted
<1> QED
  BY <1>1, KeyInvariance, PTL DEF StorageSpec, KeyUnusableAfterTtl
=============================================================================
