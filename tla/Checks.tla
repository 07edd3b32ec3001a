-------------------------------- MODULE Checks --------------------------------
(***************************************************************************)
(* The checker of the reference model (qkd_ekm/model/checks.py): I1-I9 and *)
(* G1-G4 as the Python functions evaluate them, on a state that is a value *)
(* and need not come from the transition generator.                        *)
(*                                                                         *)
(* In such a value `pool` tells how often list(pool) holds an identifier,  *)
(* and a seeded state also stores a mode and a consequence vector.         *)
(***************************************************************************)
EXTENDS LifecycleModel, FiniteSets

NoMode == "none"
NoConsequences == [storage |-> FALSE, fresh_allocation |-> FALSE, established_vpn |-> "none"]

\* The state of the enumeration as a value.
Current ==
  [sq |-> sq, se |-> se, pool |-> [k \in IDS |-> IF k \in pool THEN 1 ELSE 0],
   order |-> order, expired |-> expired, bindings |-> bindings, ke |-> ke, kp |-> kp,
   kv |-> kv, epoch |-> epoch, authority |-> authority, recovery |-> recovery,
   suspended |-> suspended, detected |-> detected,
   stored_mode |-> NoMode, stored_consequences |-> NoConsequences]

Available(s) == {k \in DOMAIN s.pool : s.pool[k] > 0}

ModeOf(s) ==
  DeriveMode(s.sq, s.se, Available(s) # {}, s.ke # NoVersion \/ s.kv # NoSession,
             s.authority, s.recovery \/ s.detected, s.suspended)

consequences(s) ==
  [storage |-> s.se,
   fresh_allocation |-> /\ s.se /\ Available(s) # {}
                        /\ ModeOf(s) \notin {"SUSPENDED", "RECOVERY"},
   established_vpn |-> "distinct"]

MODES == {"READY", "BUFFERED", "BINDING_HOLDOVER", "EXHAUSTED", "RECOVERY", "SUSPENDED"}

Lists(q, S) ==
  Len(q) = Cardinality(S) /\ {q[i] : i \in 1..Len(q)} = S

\* Mutant of PendingAhead: the last epoch counts as too late.
PendingAheadStrict(s) == s.epoch < s.kp.epoch /\ s.kp.epoch < MAX_EPOCH

PendingAhead(s) == s.epoch < s.kp.epoch /\ s.kp.epoch <= MAX_EPOCH

\* Names of the state properties that s violates.
invariants(s, retained) ==
  LET ids == {b.id : b \in s.bindings}
      pairs == {<<b.purpose, b.object>> : b \in s.bindings}
  IN {n \in {"I1", "I2", "I3", "I4", "I5", "I6", "I7", "I8", "I9"} :
     \/ n = "I1" /\ (\/ \E k \in DOMAIN s.pool : s.pool[k] > 1
                     \/ s.order # <<>> /\ ~Lists(s.order, Available(s)))
     \/ n = "I2" /\ Cardinality(ids) # Cardinality(s.bindings)
     \/ n = "I3" /\ (\/ Available(s) \cap ids # {}
                     \/ s.expired \cap (Available(s) \cup ids) # {})
     \/ n = "I4" /\ Cardinality(pairs) # Cardinality(s.bindings)
     \/ n = "I5" /\ s.ke # NoVersion /\ <<"ekm", s.ke>> \notin pairs
     \/ n = "I6" /\ s.kp # NoSession
        /\ ~(VpnBinding(s.kp) \in s.bindings /\ PendingAhead(s))
     \/ n = "I7" /\ s.kv # NoSession
        /\ ~(VpnBinding(s.kv) \in s.bindings /\ s.kv.epoch = s.epoch)
     \/ n = "I7" /\ s.kv = NoSession /\ s.epoch # 0 /\ ~retained
     \/ n = "I8" /\ (\/ ModeOf(s) \notin MODES
                     \/ s.stored_mode \notin {NoMode, ModeOf(s)})
     \/ n = "I9" /\ s.stored_consequences \notin {NoConsequences, consequences(s)}}

\* Mutant of Allocatable: the pool alone is asked.
AllocatableInPool(s, k) == k \in Available(s)

Allocatable(s, k) == s.se /\ k \in Available(s)

\* Names of the transition guards that the step from s to s2 violates.
guards(label, s, s2) ==
  {n \in {"G1", "G2", "G3", "G4"} :
     \/ n = "G1" /\ label.family = "ingest" /\ ~s.sq
     \/ n = "G2" /\ label.family = "alloc" /\ ~Allocatable(s, label.id)
     \/ n = "G3" /\ label.family = "reject_stale" /\ s2 # s
     \/ n = "G4" /\ label.family = "recover" /\ ~(s.sq /\ s.se /\ s.recovery)}

------------------------------------------------------------------------------
\* enumerate.run reports no violated state property for any reading: the tests of
\* checks.py, with their relaxation for retained epochs and their clause on the last
\* epoch, agree with what the events do.
EnumerationClean == invariants(Current, retained_epoch) = {}
==============================================================================
