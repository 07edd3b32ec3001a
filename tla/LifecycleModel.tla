--------------------------- MODULE LifecycleModel ---------------------------
(***************************************************************************)
(* The executable reference model of the paper's lifecycle                 *)
(* (qkd_ekm/model: state.py, events.py, checks.py), with the dataclass     *)
(* fields as variables and one action per labelled event of enabled().     *)
(*                                                                         *)
(* rules is the record of semantic knobs: a value of it is a reading of    *)
(* the paper's prose.  An enumeration runs with one reading, and the       *)
(* calibration sweep makes one enumeration for each of `Sweep`.            *)
(*                                                                         *)
(* None is NoVersion for ke and NoSession for kp and kv.  A VPN binding's  *)
(* object is str(epoch) in the code and is only ever read back with int(): *)
(* here it is the number.                                                  *)
(***************************************************************************)
EXTENDS Integers, Sequences, Lifecycle

CONSTANTS
  IDS,         \* identifiers of QKD units
  VERSIONS,    \* external key versions
  MAX_EPOCH,   \* last VPN activation epoch
  Sweep        \* the readings that are enumerated, one at a time

NoVersion == "none"
NoSession == [id |-> "none", epoch |-> 0]

ASSUME DomainAssumption == MAX_EPOCH \in Nat /\ NoVersion \notin VERSIONS

\* The semantic knobs: every combination of them is a reading.
Readings ==
  [reject_stale_needs_active : BOOLEAN, ingest_needs_ekm : BOOLEAN,
   expire_needs_source_down : BOOLEAN, alloc_ekm_needs_source : BOOLEAN,
   restore_sets_recovery : BOOLEAN, restore_recovery_needs_full : BOOLEAN,
   authority_only_when_degraded : BOOLEAN, alloc_vpn_needs_no_active : BOOLEAN,
   vpn_pending_replaceable : BOOLEAN, recover_clears_pending : BOOLEAN,
   recover_needs_authority : BOOLEAN, dep_toggles_unconditional : BOOLEAN,
   activate_merged : BOOLEAN, ekm_down_clears_active : BOOLEAN,
   expire_marks_used : BOOLEAN, suspend_state : BOOLEAN,
   restoration_detected : BOOLEAN, abandon_pending : BOOLEAN,
   abandon_consumes_epoch : BOOLEAN, down_clears_pending : BOOLEAN,
   session_end : BOOLEAN, recover_clears_active : BOOLEAN,
   fifo_pool : BOOLEAN, alloc_vpn_any_future_epoch : BOOLEAN,
   reject_stale_per_epoch : BOOLEAN]

ASSUME SweepAssumption == Sweep \subseteq Readings

VARIABLES
  rules,          \* the reading of this enumeration
  sq, se,         \* the QKD source answers; the EKM is reachable
  pool,           \* unused identifiers
  order,          \* ... oldest first, under fifo_pool only
  expired,        \* identifiers retired by TTL expiry, under expire_marks_used only
  bindings,       \* persistent [id, purpose, object]
  ke,             \* active external key version
  kp, kv, epoch,  \* pending and active VPN session, authoritative epoch
  authority, recovery, suspended, detected

poolVars    == <<pool, order, expired>>
sessionVars == <<kp, kv, epoch>>
controlVars == <<authority, recovery, suspended, detected>>
vars == <<rules, sq, se, poolVars, bindings, ke, sessionVars, controlVars>>

Init ==
  /\ rules \in Sweep
  /\ sq = TRUE /\ se = TRUE
  /\ pool = {} /\ order = <<>> /\ expired = {}
  /\ bindings = {} /\ ke = NoVersion
  /\ kp = NoSession /\ kv = NoSession /\ epoch = 0
  /\ authority = TRUE /\ recovery = FALSE /\ suspended = FALSE /\ detected = FALSE

consumed == {b.id : b \in bindings}

mode == DeriveMode(sq, se, pool # {}, ke # NoVersion \/ kv # NoSession, authority,
                   recovery \/ detected, suspended)

------------------------------------------------------------------------------
(* The temporary pool.                                                      *)

PoolAdd(k) ==
  /\ pool' = pool \cup {k}
  /\ order' = IF rules.fifo_pool THEN Append(order, k) ELSE order

\* Mutant of PoolTake: only the set forgets the identifier.
PoolTakeUnordered(k) ==
  /\ pool' = pool \ {k}
  /\ order' = order

\* The code filters k out of `order`.  Under fifo_pool k is always the oldest
\* identifier (Retained) and occurs once, so what is left is the tail.
PoolTake(k) ==
  /\ pool' = pool \ {k}
  /\ order' = IF rules.fifo_pool THEN Tail(order) ELSE order

\* Identifiers eligible for expiry or allocation.
Retained ==
  IF rules.fifo_pool THEN {order[i] : i \in {1} \cap 1..Len(order)} ELSE pool

\* Mutant of Ingest: a consumed identifier may be ingested again.
IngestAgain(k) ==
  /\ sq /\ (se \/ ~rules.ingest_needs_ekm)
  /\ k \notin pool /\ k \notin expired
  /\ PoolAdd(k)
  /\ UNCHANGED <<sq, se, expired, bindings, ke, sessionVars, controlVars>>

Ingest(k) ==
  /\ sq /\ (se \/ ~rules.ingest_needs_ekm)
  /\ k \notin pool /\ k \notin consumed /\ k \notin expired
  /\ PoolAdd(k)
  /\ UNCHANGED <<sq, se, expired, bindings, ke, sessionVars, controlVars>>

Expire(k) ==
  /\ rules.expire_needs_source_down => ~sq
  /\ k \in Retained
  /\ PoolTake(k)
  /\ expired' = IF rules.expire_marks_used THEN expired \cup {k} ELSE expired
  /\ UNCHANGED <<sq, se, bindings, ke, sessionVars, controlVars>>

------------------------------------------------------------------------------
(* Allocation and activation.                                               *)

ekm_objects == {b.object : b \in {b \in bindings : b.purpose = "ekm"}}
vpn_objects == {b.object : b \in {b \in bindings : b.purpose = "vpn"}}

AllocEkm(k, v) ==
  /\ se /\ (sq \/ ~rules.alloc_ekm_needs_source)
  /\ k \in Retained /\ v # ke /\ v \notin ekm_objects
  /\ PoolTake(k)
  /\ bindings' = bindings \cup {[id |-> k, purpose |-> "ekm", object |-> v]}
  /\ ke' = v
  /\ UNCHANGED <<sq, se, expired, sessionVars, controlVars>>

\* Mutant of FutureEpoch: forgets the epochs of bindings that never activated.
FutureEpochOfSession(e) == e \in 1..MAX_EPOCH /\ epoch < e

\* Mutant of FutureEpoch: the current epoch counts as a future one.
FutureEpochAgain(e) ==
  e \in 1..MAX_EPOCH /\ \A o \in vpn_objects \cup {epoch} : o <= e

\* Later than the authoritative epoch and than every epoch ever bound.
FutureEpoch(e) ==
  e \in 1..MAX_EPOCH /\ \A o \in vpn_objects \cup {epoch} : o < e

\* max(max(vpn_objects), epoch) + 1, or under the calibrated reading any later one.
EpochChoice(e) ==
  FutureEpoch(e) /\ (rules.alloc_vpn_any_future_epoch \/ e - 1 \in vpn_objects \cup {epoch})

\* Mutant of AllocVpn: the epoch recorded is one past the epoch checked.
AllocVpnPastEpoch(k, e) ==
  /\ se
  /\ kp = NoSession \/ rules.vpn_pending_replaceable
  /\ kv = NoSession \/ ~rules.alloc_vpn_needs_no_active
  /\ k \in Retained /\ EpochChoice(e)
  /\ PoolTake(k)
  /\ bindings' = bindings \cup {[id |-> k, purpose |-> "vpn", object |-> e + 1]}
  /\ kp' = [id |-> k, epoch |-> e + 1]
  /\ UNCHANGED <<sq, se, expired, ke, kv, epoch, controlVars>>

AllocVpn(k, e) ==
  /\ se
  /\ kp = NoSession \/ rules.vpn_pending_replaceable
  /\ kv = NoSession \/ ~rules.alloc_vpn_needs_no_active
  /\ k \in Retained /\ EpochChoice(e)
  /\ PoolTake(k)
  /\ bindings' = bindings \cup {[id |-> k, purpose |-> "vpn", object |-> e]}
  /\ IF rules.activate_merged
     THEN kp' = NoSession /\ kv' = [id |-> k, epoch |-> e] /\ epoch' = e
     ELSE kp' = [id |-> k, epoch |-> e] /\ UNCHANGED <<kv, epoch>>
  /\ UNCHANGED <<sq, se, expired, ke, controlVars>>

\* Mutant of ActivateVpn: the authoritative epoch is not advanced.
ActivateVpnSameEpoch ==
  /\ ~rules.activate_merged
  /\ kp # NoSession /\ kp.epoch > epoch
  /\ kv' = kp /\ kp' = NoSession
  /\ UNCHANGED <<sq, se, poolVars, bindings, ke, epoch, controlVars>>

ActivateVpn ==
  /\ ~rules.activate_merged
  /\ kp # NoSession /\ kp.epoch > epoch
  /\ kv' = kp /\ epoch' = kp.epoch /\ kp' = NoSession
  /\ UNCHANGED <<sq, se, poolVars, bindings, ke, controlVars>>

\* Mutant of AbandonPending: the authoritative epoch starts over.
AbandonPendingResets ==
  /\ rules.abandon_pending /\ kp # NoSession
  /\ kp' = NoSession /\ epoch' = 0 /\ kv' = NoSession
  /\ UNCHANGED <<sq, se, poolVars, bindings, ke, controlVars>>

AbandonPending ==
  /\ rules.abandon_pending /\ kp # NoSession
  /\ kp' = NoSession
  /\ IF rules.abandon_consumes_epoch
     THEN epoch' = kp.epoch /\ kv' = NoSession
     ELSE UNCHANGED <<epoch, kv>>
  /\ UNCHANGED <<sq, se, poolVars, bindings, ke, controlVars>>

SessionEnd ==
  /\ rules.session_end /\ kv # NoSession
  /\ kv' = NoSession
  /\ UNCHANGED <<sq, se, poolVars, bindings, ke, kp, epoch, controlVars>>

\* A replayed activation of epoch e is rejected: nothing changes.
RejectStale(e) ==
  /\ IF rules.reject_stale_needs_active THEN kv # NoSession ELSE epoch > 0
  /\ IF rules.reject_stale_per_epoch THEN e \in 1..epoch ELSE e = 1
  /\ UNCHANGED vars

------------------------------------------------------------------------------
(* Dependencies, continuity authority and recovery.                         *)

Interrupt == kp' = IF rules.down_clears_pending THEN NoSession ELSE kp

\* After the restored dependency is back up (sq', se').
Restore ==
  LET pending == /\ rules.restore_sets_recovery
                 /\ rules.restore_recovery_needs_full => sq' /\ se'
  IN  /\ detected' = (detected \/ (pending /\ rules.restoration_detected))
      /\ recovery' = (recovery \/ (pending /\ ~rules.restoration_detected))

SrcDown ==
  /\ sq \/ rules.dep_toggles_unconditional
  /\ sq' = FALSE /\ Interrupt
  /\ UNCHANGED <<se, poolVars, bindings, ke, kv, epoch, controlVars>>

SrcUp ==
  /\ ~sq \/ rules.dep_toggles_unconditional
  /\ sq' = TRUE /\ se' = se /\ Restore
  /\ UNCHANGED <<poolVars, bindings, ke, sessionVars, authority, suspended>>

EkmDown ==
  /\ se \/ rules.dep_toggles_unconditional
  /\ se' = FALSE /\ Interrupt
  /\ ke' = IF rules.ekm_down_clears_active THEN NoVersion ELSE ke
  /\ UNCHANGED <<sq, poolVars, bindings, kv, epoch, controlVars>>

EkmUp ==
  /\ ~se \/ rules.dep_toggles_unconditional
  /\ se' = TRUE /\ sq' = sq /\ Restore
  /\ UNCHANGED <<poolVars, bindings, ke, sessionVars, authority, suspended>>

PolicyMayChange == rules.authority_only_when_degraded => mode # "READY"

AuthorityWithdraw ==
  /\ PolicyMayChange
  /\ authority \/ rules.dep_toggles_unconditional
  /\ authority' = FALSE
  /\ suspended' = (suspended \/ (rules.suspend_state
                                 /\ mode \in {"BINDING_HOLDOVER", "EXHAUSTED"}))
  /\ UNCHANGED <<sq, se, poolVars, bindings, ke, sessionVars, recovery, detected>>

AuthorityGrant ==
  /\ PolicyMayChange
  /\ ~authority \/ rules.dep_toggles_unconditional
  /\ authority' = TRUE
  /\ UNCHANGED <<sq, se, poolVars, bindings, ke, sessionVars, recovery, suspended,
                 detected>>

Reconcile ==
  /\ rules.restoration_detected /\ detected /\ sq /\ se
  /\ detected' = FALSE /\ recovery' = TRUE
  /\ UNCHANGED <<sq, se, poolVars, bindings, ke, sessionVars, authority, suspended>>

\* Mutant of Recover: reconciliation starts before both dependencies are back.
RecoverEarly ==
  /\ recovery
  /\ rules.recover_needs_authority => authority
  /\ recovery' = FALSE /\ suspended' = FALSE
  /\ kp' = IF rules.recover_clears_pending THEN NoSession ELSE kp
  /\ kv' = IF rules.recover_clears_active THEN NoSession ELSE kv
  /\ UNCHANGED <<sq, se, poolVars, bindings, ke, epoch, authority, detected>>

Recover ==
  /\ sq /\ se /\ recovery
  /\ rules.recover_needs_authority => authority
  /\ recovery' = FALSE /\ suspended' = FALSE
  /\ kp' = IF rules.recover_clears_pending THEN NoSession ELSE kp
  /\ kv' = IF rules.recover_clears_active THEN NoSession ELSE kv
  /\ UNCHANGED <<sq, se, poolVars, bindings, ke, epoch, authority, detected>>

Event ==
  \/ \E k \in IDS : Ingest(k)
  \/ \E k \in IDS : Expire(k)
  \/ \E k \in IDS, v \in VERSIONS : AllocEkm(k, v)
  \/ \E k \in IDS, e \in 1..MAX_EPOCH : AllocVpn(k, e)
  \/ ActivateVpn \/ AbandonPending \/ SessionEnd
  \/ \E e \in 1..MAX_EPOCH : RejectStale(e)
  \/ SrcDown \/ SrcUp \/ EkmDown \/ EkmUp
  \/ AuthorityWithdraw \/ AuthorityGrant \/ Reconcile \/ Recover

Next == Event /\ UNCHANGED rules

Spec == Init /\ [][Next]_vars

------------------------------------------------------------------------------
(* Properties: I1-I7 of checks.py, which the Python enumeration checks for   *)
(* four identifiers, two versions and three epochs, and guard G4 as a        *)
(* statement about modes.  (I8 and I9 hold by the form of DeriveMode, G1-G3  *)
(* are conjuncts of the actions.)                                            *)

Sessions == [id : IDS, epoch : 1..MAX_EPOCH]
Bindings == [id : IDS, purpose : {"ekm"}, object : VERSIONS]
            \cup [id : IDS, purpose : {"vpn"}, object : 1..MAX_EPOCH]

\* The fields of State hold values of their annotated types (state.py State).
TypeOK ==
  /\ rules \in Readings
  /\ sq \in BOOLEAN /\ se \in BOOLEAN
  /\ pool \subseteq IDS /\ order \in Seq(IDS) /\ expired \subseteq IDS
  /\ bindings \subseteq Bindings /\ ke \in VERSIONS \cup {NoVersion}
  /\ kp \in Sessions \cup {NoSession} /\ kv \in Sessions \cup {NoSession}
  /\ epoch \in 0..MAX_EPOCH
  /\ authority \in BOOLEAN /\ recovery \in BOOLEAN
  /\ suspended \in BOOLEAN /\ detected \in BOOLEAN

VpnBinding(s) == [id |-> s.id, purpose |-> "vpn", object |-> s.epoch]

\* Available identifiers remain unique: under fifo_pool the queue lists the pool,
\* each identifier once (checks.invariants I1).
I1 == order # <<>> =>
        /\ {order[i] : i \in 1..Len(order)} = pool
        /\ \A i, j \in 1..Len(order) : order[i] = order[j] => i = j

\* A consumed identifier appears in one binding only (checks.invariants I2).
I2 == \A b, c \in bindings : b.id = c.id => b = c

\* A consumed identifier never re-enters the pool, an expired one is neither
\* available nor bound (checks.invariants I3).
I3 == /\ pool \cap consumed = {}
      /\ expired \cap (pool \cup consumed) = {}

\* A purpose-and-object pair belongs to one identifier (checks.invariants I4): no
\* epoch is bound twice, even one whose activation was dropped.
I4 == \A b, c \in bindings : b.purpose = c.purpose /\ b.object = c.object => b = c

\* The active external key version has its binding (checks.invariants I5).
I5 == ke # NoVersion => \E b \in bindings : b.purpose = "ekm" /\ b.object = ke

\* A pending activation has its binding and lies ahead of the authoritative epoch
\* (checks.invariants I6).
I6 == kp # NoSession => VpnBinding(kp) \in bindings /\ epoch < kp.epoch

\* enumerate.run relaxes I7 in the readings where the epoch outlives its session.
retained_epoch ==
  rules.session_end \/ rules.recover_clears_active \/ rules.abandon_consumes_epoch

\* The active session has its binding and the authoritative epoch; without one no
\* epoch was ever reached, or the reading retains it (checks.invariants I7).
I7 == IF kv # NoSession THEN VpnBinding(kv) \in bindings /\ kv.epoch = epoch
      ELSE epoch = 0 \/ retained_epoch

\* A session is only ever installed under an epoch later than every epoch that was
\* authoritative before: no replay brings back an older key (events.py, G3).
EpochsAdvance ==
  [][epoch' >= epoch /\ (kv' # kv /\ kv' # NoSession => kv'.epoch > epoch)]_vars

\* The mode leaves RECOVERY only while source and EKM are both back (G4), through
\* detection, reconciliation and any toggling of the dependencies in between.
RecoveryLeftRestored == [][mode = "RECOVERY" /\ mode' # "RECOVERY" => sq /\ se]_vars
==============================================================================
