------------------------ MODULE LifecycleModelProofs ------------------------
(***************************************************************************)
(* Proofs about LifecycleModel: I1-I7, the advance of epochs and the exit  *)
(* from RECOVERY hold in every reading of the paper's prose (every value   *)
(* of rules) and for any identifiers, versions and number of epochs.       *)
(***************************************************************************)
EXTENDS LifecycleModel, TLAPS

\* I1 as a step needs it: without fifo_pool the queue stays empty, with it the
\* queue lists the pool even when it is empty.
PoolOrder ==
  IF rules.fifo_pool
  THEN /\ {order[i] : i \in 1..Len(order)} = pool
       /\ \A i, j \in 1..Len(order) : order[i] = order[j] => i = j
  ELSE order = <<>>

IInv == TypeOK /\ PoolOrder /\ I2 /\ I3 /\ I4 /\ I5 /\ I6 /\ I7

\* What expiry or allocation takes is in the pool, and is the head of the queue
\* under fifo_pool (_retained).
LEMMA RetainedInPool ==
  ASSUME TypeOK, PoolOrder, NEW k \in Retained
  PROVE  k \in pool /\ (rules.fifo_pool => order # <<>> /\ k = order[1])
  BY DEF TypeOK, PoolOrder, Retained

\* _pool_take keeps the queue and the set in step.
LEMMA TakeKeepsOrder ==
  ASSUME TypeOK, PoolOrder, UNCHANGED rules, NEW k \in Retained, PoolTake(k)
  PROVE  PoolOrder' /\ order' \in Seq(IDS)
<1>1. CASE ~rules.fifo_pool
  BY <1>1 DEF TypeOK, PoolOrder, PoolTake
<1>2. CASE rules.fifo_pool
  <2>1. order \in Seq(IDS) /\ order # <<>> /\ k = order[1] /\ order' = Tail(order)
    BY <1>2, RetainedInPool DEF TypeOK, PoolTake
  <2>2. /\ order' \in Seq(IDS) /\ Len(order') = Len(order) - 1
        /\ \A i \in 1..Len(order') : order'[i] = order[i + 1]
    BY <2>1
  <2>3. Len(order) \in Nat /\ Len(order) >= 1
    BY <2>1
  <2>4. \A i, j \in 1..Len(order) : order[i] = order[j] => i = j
    BY <1>2 DEF PoolOrder
  <2>5. \A i, j \in 1..Len(order') : order'[i] = order'[j] => i = j
    <3> SUFFICES ASSUME NEW i \in 1..Len(order'), NEW j \in 1..Len(order'),
                        order'[i] = order'[j]
                 PROVE  i = j
      OBVIOUS
    <3>1. i + 1 \in 1..Len(order) /\ j + 1 \in 1..Len(order)
      BY <2>2, <2>3
    <3> QED BY <3>1, <2>2, <2>3, <2>4
  <2>6. {order'[i] : i \in 1..Len(order')} = pool \ {k}
    <3>1. ASSUME NEW x \in {order'[i] : i \in 1..Len(order')} PROVE x \in pool \ {k}
      <4>1. PICK i \in 1..Len(order') : x = order'[i]
        BY <3>1
      <4>2. i + 1 \in 1..Len(order) /\ x = order[i + 1] /\ i + 1 # 1 /\ 1 \in 1..Len(order)
        BY <4>1, <2>2, <2>3
      <4> QED BY <4>2, <2>1, <2>4, <1>2 DEF PoolOrder
    <3>2. ASSUME NEW x \in pool \ {k} PROVE x \in {order'[i] : i \in 1..Len(order')}
      <4>1. PICK i \in 1..Len(order) : x = order[i]
        BY <1>2 DEF PoolOrder
      <4>2. i # 1
        BY <4>1, <2>1
      <4>3. i - 1 \in 1..Len(order') /\ order'[i - 1] = x
        BY <4>1, <4>2, <2>2, <2>3
      <4> QED BY <4>3
    <3> QED BY <3>1, <3>2
  <2> QED BY <1>2, <2>2, <2>5, <2>6 DEF PoolOrder, PoolTake
<1> QED BY <1>1, <1>2

\* Ingestion of an identifier the pool does not hold keeps them in step too.
LEMMA AddKeepsOrder ==
  ASSUME TypeOK, PoolOrder, UNCHANGED rules, NEW k \in IDS, k \notin pool, PoolAdd(k)
  PROVE  PoolOrder' /\ order' \in Seq(IDS)
<1>1. CASE ~rules.fifo_pool
  BY <1>1 DEF TypeOK, PoolOrder, PoolAdd
<1>2. CASE rules.fifo_pool
  <2>1. order \in Seq(IDS) /\ order' = Append(order, k) /\ pool' = pool \cup {k}
    BY <1>2 DEF TypeOK, PoolAdd
  <2>2. /\ order' \in Seq(IDS) /\ Len(order') = Len(order) + 1 /\ Len(order) \in Nat
        /\ \A i \in 1..Len(order) : order'[i] = order[i]
        /\ order'[Len(order) + 1] = k
    BY <2>1
  <2>3. \A i \in 1..Len(order) : order[i] \in pool
    BY <1>2 DEF PoolOrder
  <2>4. \A i, j \in 1..Len(order) : order[i] = order[j] => i = j
    BY <1>2 DEF PoolOrder
  <2>5. \A i, j \in 1..Len(order') : order'[i] = order'[j] => i = j
    BY <2>2, <2>3, <2>4
  <2>6. {order'[i] : i \in 1..Len(order')} = pool \cup {k}
    <3>1. \A x \in {order'[i] : i \in 1..Len(order')} : x \in pool \cup {k}
      BY <2>2, <2>3
    <3>2. ASSUME NEW x \in pool PROVE x \in {order'[i] : i \in 1..Len(order')}
      <4>1. PICK i \in 1..Len(order) : x = order[i]
        BY <1>2 DEF PoolOrder
      <4> QED BY <4>1, <2>2
    <3>3. k \in {order'[i] : i \in 1..Len(order')}
      BY <2>2
    <3> QED BY <3>1, <3>2, <3>3
  <2> QED BY <1>2, <2>1, <2>2, <2>5, <2>6 DEF PoolOrder
<1> QED BY <1>1, <1>2

------------------------------------------------------------------------------
\* A fresh binding of an identifier taken from the pool keeps I2 and I3.
LEMMA BindKeepsIds ==
  ASSUME TypeOK, PoolOrder, I2, I3, NEW k \in Retained, PoolTake(k), NEW p, NEW o,
         bindings' = bindings \cup {[id |-> k, purpose |-> p, object |-> o]},
         expired' = expired
  PROVE  I2' /\ I3'
<1>1. k \in pool /\ pool' = pool \ {k}
  BY RetainedInPool DEF PoolTake
<1>2. \A b \in bindings : b.id # k
  BY <1>1 DEF I3, consumed
<1>3. consumed' = consumed \cup {k}
  <2> DEFINE row == [id |-> k, purpose |-> p, object |-> o]
  <2>1. row.id = k /\ bindings' = bindings \cup {row}
    OBVIOUS
  <2> HIDE DEF row
  <2> QED BY <2>1 DEF consumed
<1>4. I2'
  BY <1>2 DEF I2
<1>5. I3'
  BY <1>1, <1>3 DEF I3
<1> QED BY <1>4, <1>5

LEMMA InitIInv == Init => IInv
<1> SUFFICES ASSUME Init PROVE IInv
  OBVIOUS
<1>1. TypeOK
  <2>1. <<>> \in Seq(IDS) /\ 0 \in 0..MAX_EPOCH
    BY DomainAssumption
  <2>2. rules \in Readings /\ NoVersion \in VERSIONS \cup {NoVersion}
    BY SweepAssumption DEF Init
  <2> QED BY <2>1, <2>2 DEF Init, TypeOK
<1>2. PoolOrder
  BY DEF Init, PoolOrder
<1>3. I2 /\ I3 /\ I4 /\ I5 /\ I6 /\ I7
  BY DEF Init, I2, I3, I4, I5, I6, I7, consumed
<1> QED BY <1>1, <1>2, <1>3 DEF IInv

LEMMA StepIngest == ASSUME IInv, UNCHANGED rules, NEW k \in IDS, Ingest(k) PROVE IInv'
<1> USE DEF IInv
<1>1. PoolOrder' /\ order' \in Seq(IDS)
  BY AddKeepsOrder DEF Ingest
<1>2. TypeOK'
  BY <1>1 DEF TypeOK, Ingest, PoolAdd, sessionVars, controlVars
<1>3. I3'
  BY DEF I3, Ingest, PoolAdd, consumed
<1>4. I2' /\ I4' /\ I5' /\ I6' /\ I7'
  BY DEF I2, I4, I5, I6, I7, Ingest, sessionVars, retained_epoch, VpnBinding
<1> QED BY <1>1, <1>2, <1>3, <1>4

LEMMA StepExpire == ASSUME IInv, UNCHANGED rules, NEW k \in IDS, Expire(k) PROVE IInv'
<1> USE DEF IInv
<1>1. PoolOrder' /\ order' \in Seq(IDS)
  BY TakeKeepsOrder DEF Expire
<1>2. TypeOK'
  BY <1>1 DEF TypeOK, Expire, PoolTake, sessionVars, controlVars
<1>3. k \in pool
  BY RetainedInPool DEF Expire
<1>4. I3'
  BY <1>3 DEF I3, Expire, PoolTake, consumed
<1>5. I2' /\ I4' /\ I5' /\ I6' /\ I7'
  BY DEF I2, I4, I5, I6, I7, Expire, sessionVars, retained_epoch, VpnBinding
<1> QED BY <1>1, <1>2, <1>4, <1>5

LEMMA StepAllocEkm ==
  ASSUME IInv, UNCHANGED rules, NEW k \in IDS, NEW v \in VERSIONS, AllocEkm(k, v) PROVE IInv'
<1> USE DEF IInv
<1>1. PoolOrder' /\ order' \in Seq(IDS)
  BY TakeKeepsOrder DEF AllocEkm
<1>2. TypeOK'
  BY <1>1 DEF TypeOK, AllocEkm, PoolTake, sessionVars, controlVars, Bindings
<1>3. I2' /\ I3'
  BY BindKeepsIds DEF AllocEkm
<1>4. I4'
  <2>1. \A b \in bindings : b.purpose = "ekm" => b.object # v
    BY DEF AllocEkm, ekm_objects
  <2> QED BY <2>1 DEF I4, AllocEkm
<1>5. I5'
  <2>1. [id |-> k, purpose |-> "ekm", object |-> v] \in bindings' /\ ke' = v
    BY DEF AllocEkm
  <2> QED BY <2>1 DEF I5
<1>6. I6' /\ I7'
  BY DEF I6, I7, AllocEkm, sessionVars, retained_epoch, VpnBinding
<1> QED BY <1>1, <1>2, <1>3, <1>4, <1>5, <1>6

LEMMA StepAllocVpn ==
  ASSUME IInv, UNCHANGED rules, NEW k \in IDS, NEW e \in 1..MAX_EPOCH, AllocVpn(k, e) PROVE IInv'
<1> USE DEF IInv
<1>1. PoolOrder' /\ order' \in Seq(IDS)
  BY TakeKeepsOrder DEF AllocVpn
<1>2. TypeOK'
  BY <1>1, DomainAssumption
  DEF TypeOK, AllocVpn, PoolTake, controlVars, Bindings, Sessions
<1>3. I2' /\ I3'
  BY BindKeepsIds DEF AllocVpn
<1>4. /\ \A b \in bindings : b.purpose = "vpn" => b.object < e
      /\ epoch < e
  BY DEF AllocVpn, EpochChoice, FutureEpoch, vpn_objects
<1>5. I4'
  <2>1. \A b \in bindings : b.purpose = "vpn" => b.object # e
    BY <1>4 DEF TypeOK, Bindings
  <2> QED BY <2>1 DEF I4, AllocVpn
<1>6. I5'
  BY DEF I5, AllocVpn
<1>7. [id |-> k, epoch |-> e] # NoSession
  BY DomainAssumption DEF NoSession
<1>8. I6' /\ I7'
  BY <1>4, <1>7 DEF I6, I7, AllocVpn, retained_epoch, VpnBinding, NoSession
<1> QED BY <1>1, <1>2, <1>3, <1>5, <1>6, <1>8

\* Steps of sessions, dependencies and policy leave pool and bindings alone.
LEMMA StepSession ==
  ASSUME IInv, UNCHANGED rules, ActivateVpn \/ AbandonPending \/ SessionEnd PROVE IInv'
<1> USE DEF IInv
<1>1. UNCHANGED <<sq, se, poolVars, bindings, ke, controlVars>>
  BY DEF ActivateVpn, AbandonPending, SessionEnd
<1>2. TypeOK'
  BY <1>1, DomainAssumption
  DEF TypeOK, ActivateVpn, AbandonPending, SessionEnd, Sessions, poolVars, controlVars
<1>3. PoolOrder' /\ I2' /\ I3' /\ I4' /\ I5'
  BY <1>1 DEF PoolOrder, I2, I3, I4, I5, poolVars, consumed
<1>4. I6' /\ I7'
  BY <1>1 DEF I6, I7, ActivateVpn, AbandonPending, SessionEnd, VpnBinding, retained_epoch
<1> QED BY <1>2, <1>3, <1>4

LEMMA StepDependency ==
  ASSUME IInv, UNCHANGED rules, SrcDown \/ SrcUp \/ EkmDown \/ EkmUp PROVE IInv'
<1> USE DEF IInv
<1>1. UNCHANGED <<poolVars, bindings, kv, epoch>> /\ kp' \in {kp, NoSession}
      /\ ke' \in {ke, NoVersion}
  BY DEF SrcDown, SrcUp, EkmDown, EkmUp, Interrupt, sessionVars
<1>2. sq' \in BOOLEAN /\ se' \in BOOLEAN /\ authority' \in BOOLEAN /\ suspended' \in BOOLEAN
      /\ recovery' \in BOOLEAN /\ detected' \in BOOLEAN
  BY DEF TypeOK, SrcDown, SrcUp, EkmDown, EkmUp, Restore, controlVars
<1>3. TypeOK'
  BY <1>1, <1>2 DEF TypeOK, poolVars
<1>4. PoolOrder' /\ I2' /\ I3' /\ I4' /\ I5'
  BY <1>1 DEF PoolOrder, I2, I3, I4, I5, poolVars, consumed
<1>5. I6' /\ I7'
  BY <1>1 DEF I6, I7, VpnBinding, retained_epoch
<1> QED BY <1>3, <1>4, <1>5

LEMMA StepPolicy ==
  ASSUME IInv, UNCHANGED rules, AuthorityWithdraw \/ AuthorityGrant \/ Reconcile \/ Recover PROVE IInv'
<1> USE DEF IInv
<1>1. UNCHANGED <<sq, se, poolVars, bindings, ke, epoch>>
  BY DEF AuthorityWithdraw, AuthorityGrant, Reconcile, Recover, sessionVars
<1>2. kp' \in {kp, NoSession} /\ (kv' = kv \/ (kv' = NoSession /\ retained_epoch))
  <2>1. CASE AuthorityWithdraw \/ AuthorityGrant \/ Reconcile
    BY <2>1 DEF AuthorityWithdraw, AuthorityGrant, Reconcile, sessionVars
  <2>2. CASE Recover
    BY <2>2 DEF Recover, retained_epoch
  <2> QED BY <2>1, <2>2
<1>3. authority' \in BOOLEAN /\ suspended' \in BOOLEAN /\ recovery' \in BOOLEAN
      /\ detected' \in BOOLEAN
  BY DEF TypeOK, AuthorityWithdraw, AuthorityGrant, Reconcile, Recover
<1>4. TypeOK'
  BY <1>1, <1>2, <1>3 DEF TypeOK, poolVars
<1>5. PoolOrder' /\ I2' /\ I3' /\ I4' /\ I5'
  BY <1>1 DEF PoolOrder, I2, I3, I4, I5, poolVars, consumed
<1>6. I6' /\ I7'
  BY <1>1, <1>2 DEF I6, I7, VpnBinding, retained_epoch
<1> QED BY <1>4, <1>5, <1>6

LEMMA StutterIInv == ASSUME IInv, UNCHANGED vars PROVE IInv'
  BY DEF IInv, vars, poolVars, sessionVars, controlVars, TypeOK, PoolOrder, I2, I3, I4,
         I5, I6, I7, consumed, VpnBinding, retained_epoch

LEMMA NextIInv == ASSUME IInv, [Next]_vars PROVE IInv'
<1>1. ASSUME NEW e \in 1..MAX_EPOCH, RejectStale(e) PROVE IInv'
  BY <1>1, StutterIInv DEF RejectStale
<1> QED
  BY <1>1, StutterIInv, StepIngest, StepExpire, StepAllocEkm, StepAllocVpn, StepSession,
     StepDependency, StepPolicy
  DEF Next, Event

\* Spec keeps the inductive invariant.
THEOREM Invariance == Spec => []IInv
  BY InitIInv, NextIInv, PTL DEF Spec

------------------------------------------------------------------------------
\* Every variable keeps its type in every reading.
THEOREM TypeCorrect == Spec => []TypeOK
<1>1. IInv => TypeOK
  BY DEF IInv
<1> QED BY <1>1, Invariance, PTL

\* In every reading of the paper's prose that the rules can express, and for
\* any number of identifiers, versions and epochs, the state properties I1-I7 of
\* checks.py hold in every reachable state of the reference model.
THEOREM ReadingsSafe ==
  Spec => [](I1 /\ I2 /\ I3 /\ I4 /\ I5 /\ I6 /\ I7)
<1>1. IInv => I1 /\ I2 /\ I3 /\ I4 /\ I5 /\ I6 /\ I7
  BY DEF IInv, PoolOrder, I1
<1> QED BY <1>1, Invariance, PTL

\* In every reading the queue of an ordered pool lists the pool, each identifier once
\* (checks.py I1; events.py _pool_add, _pool_take).
THEOREM PoolOrdered == Spec => []I1
  BY ReadingsSafe, PTL

\* In every reading an identifier appears in at most one persistent binding
\* (checks.py I2; events.py alloc_ekm, alloc_vpn).
THEOREM BoundOnce == Spec => []I2
  BY ReadingsSafe, PTL

\* In every reading no bound identifier is available again, and no expired one is available or bound
\* (checks.py I3; events.py ingest, expire).
THEOREM ConsumedStaysConsumed == Spec => []I3
  BY ReadingsSafe, PTL

\* In every reading no version and no epoch is bound to two identifiers, whatever was dropped or abandoned in between
\* (checks.py I4; events.py alloc_ekm, alloc_vpn).
THEOREM ObjectBoundOnce == Spec => []I4
  BY ReadingsSafe, PTL

\* In every reading the active external key version has its binding
\* (checks.py I5; events.py alloc_ekm, ekm_down).
THEOREM ActiveVersionBound == Spec => []I5
  BY ReadingsSafe, PTL

\* In every reading a pending activation has its binding and lies ahead of the authoritative epoch
\* (checks.py I6; events.py alloc_vpn, activate_vpn).
THEOREM PendingAheadAlways == Spec => []I6
  BY ReadingsSafe, PTL

\* In every reading the active session has its binding and the authoritative epoch
\* (checks.py I7; events.py activate_vpn, abandon_pending, recover).
THEOREM ActiveEpochAuthoritative == Spec => []I7
  BY ReadingsSafe, PTL

\* Activation never goes back to an epoch that was authoritative before, in every
\* reading (events.py activate_vpn, alloc_vpn under activate_merged,
\* abandon_pending under abandon_consumes_epoch).
THEOREM EpochsAdvanceAlways == Spec => EpochsAdvance
<1>1. ASSUME IInv, [Next]_vars
      PROVE  [epoch' >= epoch /\ (kv' # kv /\ kv' # NoSession => kv'.epoch > epoch)]_vars
  <2> USE DEF IInv
  <2>1. epoch \in Int /\ IInv
    BY <1>1 DEF TypeOK
  <2>2. CASE UNCHANGED vars
    BY <2>2
  <2>3. ASSUME NEW k \in IDS, NEW e \in 1..MAX_EPOCH, AllocVpn(k, e)
        PROVE  epoch' >= epoch /\ (kv' # kv /\ kv' # NoSession => kv'.epoch > epoch)
    <3>1. epoch < e
      BY <2>3 DEF AllocVpn, EpochChoice, FutureEpoch
    <3> QED BY <3>1, <2>1, <2>3 DEF AllocVpn
  <2>4. CASE ActivateVpn
    BY <2>1, <2>4 DEF ActivateVpn, TypeOK, Sessions, NoSession
  <2>5. CASE AbandonPending
    BY <2>1, <2>5 DEF AbandonPending, I6, TypeOK, Sessions, NoSession
  <2>6. CASE SessionEnd \/ SrcDown \/ SrcUp \/ EkmDown \/ EkmUp \/ AuthorityWithdraw
             \/ AuthorityGrant \/ Reconcile \/ Recover
    BY <2>1, <2>6 DEF SessionEnd, SrcDown, SrcUp, EkmDown, EkmUp, AuthorityWithdraw,
       AuthorityGrant, Reconcile, Recover, sessionVars
  <2>7. ASSUME NEW k \in IDS, NEW v \in VERSIONS,
               Ingest(k) \/ Expire(k) \/ AllocEkm(k, v)
        PROVE  epoch' = epoch /\ kv' = kv
    BY <2>7 DEF Ingest, Expire, AllocEkm, sessionVars
  <2>8. ASSUME NEW k \in IDS, Ingest(k) \/ Expire(k) PROVE epoch' = epoch /\ kv' = kv
    BY <2>8 DEF Ingest, Expire, sessionVars
  <2>9. ASSUME NEW e \in 1..MAX_EPOCH, RejectStale(e) PROVE UNCHANGED vars
    BY <2>9 DEF RejectStale
  <2> QED BY <1>1, <2>1, <2>2, <2>3, <2>4, <2>5, <2>6, <2>7, <2>8, <2>9 DEF Next, Event
<1> QED BY <1>1, Invariance, PTL DEF Spec, EpochsAdvance

\* The mode leaves RECOVERY only with both dependencies restored, in every reading.
THEOREM RecoveryLeftRestoredAlways == Spec => RecoveryLeftRestored
<1>1. mode = "RECOVERY" <=> recovery \/ detected
  BY DEF mode, DeriveMode
<1>2. (mode = "RECOVERY" <=> recovery \/ detected)'
  BY DEF mode, DeriveMode
<1>3. ASSUME [Next]_vars, recovery \/ detected, ~(recovery' \/ detected')
      PROVE  sq /\ se
  <2>1. CASE SrcUp \/ EkmUp
    BY <1>3, <2>1 DEF SrcUp, EkmUp, Restore
  <2>2. CASE Reconcile \/ Recover
    BY <2>2 DEF Reconcile, Recover
  <2>3. CASE UNCHANGED <<recovery, detected>>
    BY <1>3, <2>3
  <2>4. UNCHANGED vars => UNCHANGED <<recovery, detected>>
    BY DEF vars, controlVars
  <2> QED
    BY <1>3, <2>1, <2>2, <2>3, <2>4
    DEF Next, Event, Ingest, Expire, AllocEkm, AllocVpn, ActivateVpn, AbandonPending, SessionEnd,
        RejectStale, SrcDown, EkmDown, AuthorityWithdraw, AuthorityGrant, controlVars
<1>4. [Next]_vars => [mode = "RECOVERY" /\ mode' # "RECOVERY" => sq /\ se]_vars
  BY <1>1, <1>2, <1>3
<1> QED BY <1>4, PTL DEF Spec, RecoveryLeftRestored
=============================================================================
