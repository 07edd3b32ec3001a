---------------------------- MODULE ChecksProofs ----------------------------
(***************************************************************************)
(* Proofs about Checks and Seeded: checks.py reports exactly the state     *)
(* properties that fail, no enumeration reports one in any reading, and    *)
(* every fault of seeded.py is detected wherever it is seeded.             *)
(***************************************************************************)
EXTENDS Seeded, LifecycleModelProofs, FiniteSetTheorems, FunctionTheorems

\* Counting the images of a finite set tells whether two elements share one: the tests of
\* I2 and I4 (`len(set(...)) != len(...)`).
LEMMA CountsDistinct ==
  ASSUME NEW S, IsFiniteSet(S), NEW T, NEW f \in [S -> T], T = {f[x] : x \in S}
  PROVE  Cardinality(T) = Cardinality(S) <=> \A x, y \in S : f[x] = f[y] => x = y
<1>1. f \in Surjection(S, T)
  BY DEF Surjection
<1>2. Cardinality(T) = Cardinality(S) <=> f \in Injection(S, T)
  BY <1>1, FS_Surjection
<1> QED BY <1>2 DEF Injection, IsInjective

\* A queue without repetitions has as many entries as its set has elements, and only such
\* a queue (the second test of I1).
LEMMA ListsOnce ==
  ASSUME NEW T, NEW q \in Seq(T), NEW S, {q[i] : i \in 1..Len(q)} = S
  PROVE  Len(q) = Cardinality(S) <=> \A i, j \in 1..Len(q) : q[i] = q[j] => i = j
<1> DEFINE f == [i \in 1..Len(q) |-> q[i]]
<1>1. IsFiniteSet(1..Len(q)) /\ Cardinality(1..Len(q)) = Len(q)
  <2>1. Len(q) \in Nat
    OBVIOUS
  <2> QED BY <2>1, FS_Interval
<1>2. f \in [1..Len(q) -> S] /\ {f[i] : i \in 1..Len(q)} = S
  OBVIOUS
<1>3. \A i \in 1..Len(q) : f[i] = q[i]
  OBVIOUS
<1> DEFINE D == 1..Len(q)
<1>4. IsFiniteSet(D) /\ f \in [D -> S] /\ S = {f[i] : i \in D}
  BY <1>1, <1>2
<1> HIDE DEF f, D
<1>5. Cardinality(S) = Cardinality(D) <=> \A i, j \in D : f[i] = f[j] => i = j
  BY <1>4, CountsDistinct
<1> QED BY <1>1, <1>3, <1>5 DEF D

\* The fields of the state as a value.
LEMMA CurrentFields ==
  ASSUME TypeOK
  PROVE  /\ Available(Current) = pool /\ \A k \in DOMAIN Current.pool : ~(Current.pool[k] > 1)
         /\ Current.order = order /\ Current.bindings = bindings /\ Current.expired = expired
         /\ Current.ke = ke /\ Current.kp = kp /\ Current.kv = kv /\ Current.epoch = epoch
         /\ Current.stored_mode = NoMode /\ Current.stored_consequences = NoConsequences
<1>1. pool \subseteq IDS
  BY DEF TypeOK
<1>2. Current.pool = [k \in IDS |-> IF k \in pool THEN 1 ELSE 0]
  BY DEF Current
<1>3. Available(Current) = pool /\ \A k \in DOMAIN Current.pool : ~(Current.pool[k] > 1)
  BY <1>1, <1>2 DEF Available
<1> QED BY <1>3 DEF Current

\* derive() knows six modes (checks.py MODES), and READY only with a live source.
LEMMA ModeOfKnown == \A s : ModeOf(s) \in MODES /\ (~s.sq => ModeOf(s) # "READY")
<1> SUFFICES ASSUME NEW s PROVE ModeOf(s) \in MODES /\ (~s.sq => ModeOf(s) # "READY")
  OBVIOUS
<1>1. CASE s.recovery \/ s.detected
  BY <1>1 DEF ModeOf, DeriveMode, MODES
<1>2. CASE ~(s.recovery \/ s.detected) /\ s.suspended
  BY <1>2 DEF ModeOf, DeriveMode, MODES
<1>3. CASE ~(s.recovery \/ s.detected) /\ ~s.suspended
  BY <1>3 DEF ModeOf, DeriveMode, MODES
<1> QED BY <1>1, <1>2, <1>3

\* checks.invariants reports, of a state of the enumeration, exactly the properties that
\* fail in it.
LEMMA CheckerExact ==
  ASSUME TypeOK, IsFiniteSet(bindings)
  PROVE  LET reported == invariants(Current, retained_epoch) IN
         /\ "I1" \in reported <=> ~I1
         /\ "I2" \in reported <=> ~I2
         /\ "I3" \in reported <=> ~I3
         /\ "I4" \in reported <=> ~I4
         /\ "I5" \in reported <=> ~I5
         /\ "I6" \in reported <=> ~I6
         /\ "I7" \in reported <=> ~I7
         /\ "I8" \notin reported /\ "I9" \notin reported
<1> DEFINE ids == {b.id : b \in bindings}
           pairs == {<<b.purpose, b.object>> : b \in bindings}
           reported == invariants(Current, retained_epoch)
<1>1. /\ "I1" \in reported <=> (order # <<>> /\ ~Lists(order, pool))
      /\ "I2" \in reported <=> Cardinality(ids) # Cardinality(bindings)
      /\ "I3" \in reported <=> (pool \cap ids # {} \/ expired \cap (pool \cup ids) # {})
      /\ "I4" \in reported <=> Cardinality(pairs) # Cardinality(bindings)
      /\ "I5" \in reported <=> (ke # NoVersion /\ <<"ekm", ke>> \notin pairs)
  BY CurrentFields DEF invariants
<1>2. /\ "I6" \in reported <=>
           (kp # NoSession /\ ~(VpnBinding(kp) \in bindings /\ epoch < kp.epoch /\ kp.epoch <= MAX_EPOCH))
      /\ "I7" \in reported <=>
           (\/ kv # NoSession /\ ~(VpnBinding(kv) \in bindings /\ kv.epoch = epoch)
            \/ kv = NoSession /\ epoch # 0 /\ ~retained_epoch)
      /\ "I8" \in reported <=> ModeOf(Current) \notin MODES
      /\ "I9" \notin reported
  BY CurrentFields DEF invariants, PendingAhead
<1> HIDE DEF reported
<1>3. (order # <<>> /\ ~Lists(order, pool)) <=> ~I1
  <2>1. CASE {order[i] : i \in 1..Len(order)} = pool
    <3>1. Len(order) = Cardinality(pool)
            <=> \A i, j \in 1..Len(order) : order[i] = order[j] => i = j
      BY <2>1, ListsOnce DEF TypeOK
    <3> QED BY <2>1, <3>1 DEF Lists, I1
  <2>2. CASE {order[i] : i \in 1..Len(order)} # pool
    BY <2>2 DEF Lists, I1
  <2> QED BY <2>1, <2>2
<1>4. Cardinality(ids) = Cardinality(bindings) <=> I2
  <2> DEFINE f == [b \in bindings |-> b.id]
  <2>1. f \in [bindings -> ids] /\ ids = {f[b] : b \in bindings}
    OBVIOUS
  <2>2. \A b \in bindings : f[b] = b.id
    OBVIOUS
  <2> HIDE DEF f, ids
  <2>3. Cardinality(ids) = Cardinality(bindings)
          <=> \A b, c \in bindings : f[b] = f[c] => b = c
    BY <2>1, CountsDistinct
  <2> QED BY <2>2, <2>3 DEF I2
<1>5. Cardinality(pairs) = Cardinality(bindings) <=> I4
  <2> DEFINE f == [b \in bindings |-> <<b.purpose, b.object>>]
  <2>1. f \in [bindings -> pairs] /\ pairs = {f[b] : b \in bindings}
    OBVIOUS
  <2>2. \A b, c \in bindings : f[b] = f[c] <=> b.purpose = c.purpose /\ b.object = c.object
    OBVIOUS
  <2> HIDE DEF f, pairs
  <2>3. Cardinality(pairs) = Cardinality(bindings)
          <=> \A b, c \in bindings : f[b] = f[c] => b = c
    BY <2>1, CountsDistinct
  <2> QED BY <2>2, <2>3 DEF I4
<1>6. (pool \cap ids # {} \/ expired \cap (pool \cup ids) # {}) <=> ~I3
  BY DEF I3, consumed
<1>7. (ke # NoVersion /\ <<"ekm", ke>> \notin pairs) <=> ~I5
  BY DEF I5
<1>8. kp # NoSession => kp.epoch <= MAX_EPOCH
  BY DomainAssumption DEF TypeOK, Sessions
<1>9. ModeOf(Current) \in MODES
  BY ModeOfKnown
<1>10. /\ "I6" \in reported <=> ~I6
       /\ "I7" \in reported <=> ~I7
  BY <1>2, <1>8 DEF I6, I7
<1>11. /\ "I1" \in reported <=> ~I1
       /\ "I2" \in reported <=> ~I2
       /\ "I3" \in reported <=> ~I3
       /\ "I4" \in reported <=> ~I4
       /\ "I5" \in reported <=> ~I5
  BY <1>1, <1>3, <1>4, <1>5, <1>6, <1>7
<1> QED BY <1>2, <1>9, <1>10, <1>11 DEF reported

FiniteBindings == IsFiniteSet(bindings)

\* Every step adds at most one binding (_bind).
LEMMA StepFinite == ASSUME FiniteBindings, [Next]_vars PROVE FiniteBindings'
<1>1. bindings' = bindings \/ \E b : bindings' = bindings \cup {b}
  BY DEF Next, Event, Ingest, Expire, AllocEkm, AllocVpn, ActivateVpn, AbandonPending, SessionEnd,
     RejectStale, SrcDown, SrcUp, EkmDown, EkmUp, AuthorityWithdraw, AuthorityGrant, Reconcile,
     Recover, vars
<1> QED BY <1>1, FS_AddElement DEF FiniteBindings

\* The set of bindings is finite, so that counting it means something.
THEOREM BindingsFinite == Spec => []FiniteBindings
<1>1. Init => FiniteBindings
  BY FS_EmptySet DEF Init, FiniteBindings
<1> QED BY <1>1, StepFinite, PTL DEF Spec

\* On every state of every enumeration checks.invariants reports exactly the state
\* properties that fail there: no test of checks.py is weaker or stronger than the property
\* it stands for.
THEOREM CheckerExactAlways ==
  Spec => [](\A n \in {"I1", "I2", "I3", "I4", "I5", "I6", "I7"} :
               n \in invariants(Current, retained_epoch)
                 <=> ~[I1 |-> I1, I2 |-> I2, I3 |-> I3, I4 |-> I4, I5 |-> I5, I6 |-> I6,
                       I7 |-> I7][n])
<1>1. TypeOK /\ FiniteBindings =>
        \A n \in {"I1", "I2", "I3", "I4", "I5", "I6", "I7"} :
          n \in invariants(Current, retained_epoch)
            <=> ~[I1 |-> I1, I2 |-> I2, I3 |-> I3, I4 |-> I4, I5 |-> I5, I6 |-> I6,
                  I7 |-> I7][n]
  BY CheckerExact DEF FiniteBindings
<1> QED BY <1>1, TypeCorrect, BindingsFinite, PTL

\* No enumeration reports a violated state property, in any reading and over any domains.
THEOREM EnumerationCleanAlways == Spec => []EnumerationClean
<1>1. TypeOK /\ FiniteBindings /\ (I1 /\ I2 /\ I3 /\ I4 /\ I5 /\ I6 /\ I7) => EnumerationClean
  <2> SUFFICES ASSUME TypeOK, FiniteBindings, I1 /\ I2 /\ I3 /\ I4 /\ I5 /\ I6 /\ I7
               PROVE  EnumerationClean
    OBVIOUS
  <2>1. invariants(Current, retained_epoch)
          \subseteq {"I1", "I2", "I3", "I4", "I5", "I6", "I7", "I8", "I9"}
    BY DEF invariants
  <2> QED BY <2>1, CheckerExact DEF EnumerationClean, FiniteBindings
<1> QED BY <1>1, TypeCorrect, BindingsFinite, ReadingsSafe, PTL
-----------------------------------------------------------------------------

LEMMA TwoBindings == ASSUME NEW b, NEW c, b # c PROVE Cardinality({b, c}) = 2
<1>1. IsFiniteSet({b}) /\ Cardinality({b}) = 1 /\ {b, c} = {b} \cup {c} /\ c \notin {b}
  BY FS_Singleton
<1> QED BY <1>1, FS_AddElement

\* A test that counts finds two bindings with one image too few (checks.py I2, I4).
LEMMA OneImage == ASSUME NEW b, NEW c, b # c, NEW x PROVE Cardinality({x}) # Cardinality({b, c})
<1>1. Cardinality({x}) = 1
  BY FS_Singleton
<1>2. Cardinality({b, c}) = 2
  BY TwoBindings
<1> QED BY <1>1, <1>2

\* Every invalid state of seeded.py is reported by the check it was made for.
LEMMA StatesDetected ==
  ASSUME NEW c \in DOMAIN states(Current) PROVE c \in DetectedIn(states(Current)[c])
<1> DEFINE base == Current
<1>0. /\ k1 \in IDS /\ k2 \in IDS /\ k1 # k2 /\ v1 \in VERSIONS /\ v1 # NoVersion
      /\ MAX_EPOCH \in Nat /\ MAX_EPOCH >= 2
  BY SeededAssumption, DomainAssumption
<1>1. "I1" \in DetectedIn(states(base)["I1"])
  <2> DEFINE s == [base EXCEPT !.pool = Pool(k1, 2)]
  <2>1. s.pool = Pool(k1, 2) /\ states(base)["I1"] = s
    BY DEF Current, states
  <2>2. k1 \in DOMAIN s.pool /\ s.pool[k1] > 1
    BY <1>0, <2>1 DEF Pool
  <2> HIDE DEF s
  <2> QED BY <2>1, <2>2 DEF DetectedIn, invariants
<1>2. "I2" \in DetectedIn(states(base)["I2"])
  <2> DEFINE s == [base EXCEPT !.bindings = {Ekm(k1, v1), Vpn(k1, 1)}, !.ke = v1,
                               !.kv = [id |-> k1, epoch |-> 1], !.epoch = 1]
  <2>1. s.bindings = {Ekm(k1, v1), Vpn(k1, 1)} /\ states(base)["I2"] = s
    BY DEF Current, states
  <2>2. Ekm(k1, v1) # Vpn(k1, 1) /\ {b.id : b \in {Ekm(k1, v1), Vpn(k1, 1)}} = {k1}
    BY DEF Ekm, Vpn
  <2> HIDE DEF s
  <2>3. {b.id : b \in s.bindings} = {k1}
    BY <2>1, <2>2
  <2>4. Cardinality({k1}) # Cardinality(s.bindings)
    BY <2>1, <2>2, OneImage, Zenon
  <2> QED BY <2>1, <2>3, <2>4 DEF DetectedIn, invariants
<1>3. "I3" \in DetectedIn(states(base)["I3"])
  <2> DEFINE s == [base EXCEPT !.pool = Pool(k1, 1), !.bindings = {Ekm(k1, v1)}, !.ke = v1]
  <2>1. s.bindings = {Ekm(k1, v1)} /\ s.pool = Pool(k1, 1) /\ states(base)["I3"] = s
    BY DEF Current, states
  <2> HIDE DEF s
  <2>2. k1 \in Available(s) /\ k1 \in {b.id : b \in s.bindings}
    BY <1>0, <2>1 DEF Pool, Available, Ekm
  <2> QED BY <2>1, <2>2 DEF DetectedIn, invariants
<1>4. "I4" \in DetectedIn(states(base)["I4"])
  <2> DEFINE s == [base EXCEPT !.bindings = {Ekm(k1, v1), Ekm(k2, v1)}, !.ke = v1]
  <2>1. s.bindings = {Ekm(k1, v1), Ekm(k2, v1)} /\ states(base)["I4"] = s
    BY DEF Current, states
  <2>2. /\ Ekm(k1, v1) # Ekm(k2, v1)
        /\ {<<b.purpose, b.object>> : b \in {Ekm(k1, v1), Ekm(k2, v1)}} = {<<"ekm", v1>>}
    BY <1>0 DEF Ekm
  <2> HIDE DEF s
  <2>3. {<<b.purpose, b.object>> : b \in s.bindings} = {<<"ekm", v1>>}
    BY <2>1, <2>2
  <2>4. Cardinality({<<"ekm", v1>>}) # Cardinality(s.bindings)
    BY <2>1, <2>2, OneImage, Zenon
  <2> QED BY <2>1, <2>3, <2>4 DEF DetectedIn, invariants
<1>5. "I5" \in DetectedIn(states(base)["I5"])
  <2> DEFINE s == [base EXCEPT !.ke = v1,
                               !.bindings = {b \in @ : b.purpose # "ekm" \/ b.object # v1}]
  <2>1. /\ s.ke = v1 /\ states(base)["I5"] = s
        /\ s.bindings = {b \in bindings : b.purpose # "ekm" \/ b.object # v1}
    BY DEF Current, states
  <2> HIDE DEF s
  <2>2. s.ke # NoVersion /\ <<"ekm", s.ke>> \notin {<<b.purpose, b.object>> : b \in s.bindings}
    BY <1>0, <2>1
  <2> QED BY <2>1, <2>2 DEF DetectedIn, invariants
<1>6. /\ active_vpn(base).epoch = 1 /\ active_vpn(base).kv = [id |-> k1, epoch |-> 1]
      /\ active_vpn(base).kv # NoSession
      /\ [id |-> k1, epoch |-> 1] # NoSession
  BY <1>0, DomainAssumption DEF active_vpn, Current, NoSession
<1>7. "I6" \in DetectedIn(states(base)["I6"])
  <2> DEFINE s == [active_vpn(base) EXCEPT !.kp = [id |-> k1, epoch |-> 1]]
  <2>1. s.kp = [id |-> k1, epoch |-> 1] /\ s.epoch = 1 /\ states(base)["I6"] = s
    BY DEF Current, states, active_vpn
  <2> HIDE DEF s
  <2>2. s.kp # NoSession /\ ~PendingAhead(s)
    BY <1>6, <2>1 DEF PendingAhead
  <2> QED BY <2>1, <2>2 DEF DetectedIn, invariants
<1>8. "I7" \in DetectedIn(states(base)["I7"])
  <2> DEFINE s == [active_vpn(base) EXCEPT !.epoch = 2]
  <2>1. s.kv = [id |-> k1, epoch |-> 1] /\ s.epoch = 2 /\ states(base)["I7"] = s
    BY DEF Current, states, active_vpn
  <2> HIDE DEF s
  <2>2. s.kv # NoSession /\ s.kv.epoch # s.epoch
    BY <1>6, <2>1
  <2> QED BY <2>1, <2>2 DEF DetectedIn, invariants
<1>9. "I8" \in DetectedIn(states(base)["I8"])
  <2> DEFINE s == [base EXCEPT !.sq = FALSE, !.stored_mode = "READY"]
  <2>1. s.sq = FALSE /\ s.stored_mode = "READY" /\ states(base)["I8"] = s
    BY DEF Current, states
  <2> HIDE DEF s
  <2>2. ModeOf(s) # "READY" /\ "READY" # NoMode
    BY <2>1, ModeOfKnown DEF NoMode
  <2> QED BY <2>1, <2>2 DEF DetectedIn, invariants
<1>10. "I9" \in DetectedIn(states(base)["I9"])
  <2> DEFINE v == [storage |-> TRUE, fresh_allocation |-> TRUE, established_vpn |-> "distinct"]
             s == [base EXCEPT !.se = FALSE, !.stored_consequences = v]
  <2>1. s.se = FALSE /\ s.stored_consequences = v /\ states(base)["I9"] = s
    BY DEF Current, states
  <2> HIDE DEF s
  <2>2. v.established_vpn # NoConsequences.established_vpn
    BY DEF NoConsequences
  <2>3. v.storage # consequences(s).storage
    BY <2>1 DEF consequences
  <2> QED BY <2>1, <2>2, <2>3 DEF DetectedIn, invariants
<1>11. c \in {"I1", "I2", "I3", "I4", "I5", "I6", "I7", "I8", "I9"}
  BY DEF states
<1> HIDE DEF base
<1> QED BY <1>1, <1>2, <1>3, <1>4, <1>5, <1>7, <1>8, <1>9, <1>10, <1>11 DEF base

\* ... and every invalid step by its guard.
LEMMA StepsDetected ==
  ASSUME NEW c \in DOMAIN transitions(Current) PROVE c \in DetectedBy(transitions(Current)[c])
<1> DEFINE t == transitions(Current)
<1>1. "G1" \in DetectedBy(t["G1"])
  <2>1. t["G1"].label.family = "ingest" /\ t["G1"].src.sq = FALSE
    BY DEF transitions, Step, Current
  <2> HIDE DEF t
  <2> QED BY <2>1 DEF DetectedBy, guards
<1>2. "G2" \in DetectedBy(t["G2"])
  <2>1. t["G2"].label.family = "alloc" /\ t["G2"].src.se = FALSE
    BY DEF transitions, Step, Current
  <2> HIDE DEF t
  <2> QED BY <2>1 DEF DetectedBy, guards, Allocatable
<1>3. "G3" \in DetectedBy(t["G3"])
  <2>1. /\ t["G3"].label.family = "reject_stale"
        /\ t["G3"].src.epoch = 1 /\ t["G3"].dst.epoch = 2
    BY DEF transitions, Step, Current, active_vpn
  <2> HIDE DEF t
  <2> QED BY <2>1 DEF DetectedBy, guards
<1>4. "G4" \in DetectedBy(t["G4"])
  <2>1. t["G4"].label.family = "recover" /\ t["G4"].src.sq = FALSE
    BY DEF transitions, Step, Current
  <2> HIDE DEF t
  <2> QED BY <2>1 DEF DetectedBy, guards
<1>5. c \in {"G1", "G2", "G3", "G4"}
  BY DEF transitions
<1> HIDE DEF t
<1> QED BY <1>1, <1>2, <1>3, <1>4, <1>5 DEF t

\* The faults of seeded.py are detected in whatever state they are seeded, reachable or not,
\* so the sensitivity of the checks does not hang on State() being their base (run_seeded).
THEOREM SeededDetectedAlways == Spec => []SeededDetected
<1>1. SeededDetected
  BY StatesDetected, StepsDetected DEF SeededDetected
<1> QED BY <1>1, PTL
=============================================================================
