------------------------------- MODULE Rotate -------------------------------
(***************************************************************************)
(* Rotation of the external key (qkd_ekm/ekm/rotate.py): a job that lists  *)
(* the versions of the Cloud KMS key, creates the next one on the next EKM *)
(* key path, polls until it is enabled and makes it primary.               *)
(*                                                                         *)
(* Cloud KMS is external.  Version ids only grow, but not always by one.   *)
(* It wraps with a new version while creating it, so the EKM ties the path *)
(* to a fresh unit then, unless the path is tied already (KeyLedger).      *)
(* Units are numbered in the order the EKM hands them out.                 *)
(***************************************************************************)
EXTENDS Integers

CONSTANTS
  Jobs,          \* rotate() calls that may be in progress at once
  PollAttempts,  \* _POLL_ATTEMPTS
  MaxVersion,    \* bound: highest version id
  MaxUnits       \* bound: units the EKM hands out

ASSUME RotateAssumption ==
  /\ PollAttempts \in Nat \ {0} /\ MaxVersion \in Nat \ {0} /\ MaxUnits \in Nat \ {0}

VARIABLES
  path,     \* path[n]: n' of the key path api/keys/v<n'> of version n; 0: no such version
  enabled,  \* versions whose state is ENABLED
  primary,  \* the key's primary version
  job,      \* job[j]: [pc, next, id, polls, seen]
  kek,      \* kek[n]: the unit the EKM tied to path api/keys/v<n>, 0 if none
  drawn     \* units the EKM has handed out

kmsVars == <<path, enabled, primary>>
ekmVars == <<kek, drawn>>
rotateVars == <<kmsVars, job, ekmVars>>

VersionIds == 1..MaxVersion
Versions == {n \in VersionIds : path[n] # 0}
NoJob == [pc |-> "idle", next |-> 0, id |-> 0, polls |-> 0, seen |-> FALSE]

\* The state terraform leaves: version 1 on api/keys/v1, enabled and primary.
RotateInit ==
  /\ path = [n \in VersionIds |-> IF n = 1 THEN 1 ELSE 0]
  /\ enabled = {1} /\ primary = 1
  /\ job = [j \in Jobs |-> NoJob]
  /\ kek = [n \in VersionIds |-> IF n = 1 THEN 1 ELSE 0] /\ drawn = 1

\* Mutant of NextNumber: the highest number, without the one added to it.
NextNumberSame == CHOOSE n \in Versions : \A v \in Versions : v <= n

NextNumber == CHOOSE n \in 1..MaxVersion + 1 :
  (\A v \in Versions : v < n) /\ n - 1 \in Versions

ListVersions(j) ==
  /\ job[j].pc = "idle"
  /\ job' = [job EXCEPT ![j] = [NoJob EXCEPT !.pc = "create", !.next = NextNumber]]
  /\ UNCHANGED <<kmsVars, ekmVars>>

\* The EKM's answer to the first wrap under a path, and to every later one.
WrapUnder(n) ==
  IF kek[n] # 0 THEN UNCHANGED ekmVars
  ELSE /\ drawn < MaxUnits
       /\ drawn' = drawn + 1
       /\ kek' = [kek EXCEPT ![n] = drawn']

\* create_crypto_key_version.  Its answer may be lost: the version exists and the
\* job is over.
CreateVersion(j) ==
  /\ job[j].pc = "create" /\ job[j].next <= MaxVersion
  /\ \E n \in VersionIds, up \in BOOLEAN :
       /\ \A v \in Versions : v < n
       /\ path' = [path EXCEPT ![n] = job[j].next]
       /\ enabled' = IF up THEN enabled \cup {n} ELSE enabled
       /\ \/ job' = [job EXCEPT ![j].pc = "poll", ![j].id = n, ![j].seen = up]
          \/ job' = [job EXCEPT ![j] = NoJob]
  /\ WrapUnder(job[j].next)
  /\ UNCHANGED primary

\* get_crypto_key_version, after the state last seen was not ENABLED.
Poll(j) ==
  /\ job[j].pc = "poll" /\ ~job[j].seen /\ job[j].polls < PollAttempts
  /\ job' = [job EXCEPT ![j].polls = @ + 1, ![j].seen = job[j].id \in enabled]
  /\ UNCHANGED <<kmsVars, ekmVars>>

\* The loop ends without a break; what its last call returned is not looked at.
PollGivesUp(j) ==
  /\ job[j].pc = "poll" /\ job[j].polls = PollAttempts
  /\ job' = [job EXCEPT ![j] = NoJob]
  /\ UNCHANGED <<kmsVars, ekmVars>>

\* Mutant of Promote: the version is promoted in whatever state it is.
PromoteUnpolled(j) ==
  /\ job[j].pc = "poll"
  /\ primary' = job[j].id
  /\ job' = [job EXCEPT ![j] = NoJob]
  /\ UNCHANGED <<path, enabled, ekmVars>>

\* The id KMS assigned, not the number that was guessed.
Promote(j) ==
  /\ job[j].pc = "poll" /\ job[j].seen /\ job[j].polls < PollAttempts
  /\ primary' = job[j].id
  /\ job' = [job EXCEPT ![j] = NoJob]
  /\ UNCHANGED <<path, enabled, ekmVars>>

\* A call raises (the EKM is unreachable, no unit is left, a permission is missing)
\* or the process dies.
JobFails(j) ==
  /\ job[j].pc # "idle"
  /\ job' = [job EXCEPT ![j] = NoJob]
  /\ UNCHANGED <<kmsVars, ekmVars>>

\* KMS finishes the creation of a version.
KmsEnables(n) ==
  /\ n \in Versions \ enabled
  /\ enabled' = enabled \cup {n}
  /\ UNCHANGED <<path, primary, job, ekmVars>>

RotateStep ==
  \/ \E j \in Jobs : ListVersions(j) \/ CreateVersion(j) \/ Poll(j) \/ PollGivesUp(j)
                     \/ Promote(j) \/ JobFails(j)
  \/ \E n \in VersionIds : KmsEnables(n)

RotateSpec == RotateInit /\ [][RotateStep]_rotateVars

------------------------------------------------------------------------------
\* The primary version exists and is enabled, so Cloud Storage can always encrypt,
\* whatever became of earlier rotations (rotate() promotes after the poll, and the
\* id KMS assigned).
PrimaryEnabled == primary \in enabled /\ primary \in Versions
==============================================================================
