-------------------------------- MODULE Seeded --------------------------------
(***************************************************************************)
(* The seeded sensitivity analysis (qkd_ekm/model/seeded.py): nine states  *)
(* and four transitions made inconsistent by hand, each of which a check   *)
(* must detect.  seeded.py builds them on State(), the initial state; here *)
(* `base` may be any state, and the analysis is made on all reachable ones.*)
(***************************************************************************)
EXTENDS Checks

CONSTANTS
  k1, k2, v1,   \* the identifiers and the version that are used
  SeededInto    \* the readings whose states get a fault

ASSUME SeededAssumption ==
  /\ {k1, k2} \subseteq IDS /\ k1 # k2 /\ v1 \in VERSIONS /\ MAX_EPOCH >= 2
  /\ SeededInto \subseteq Readings

Ekm(k, v) == [id |-> k, purpose |-> "ekm", object |-> v]
Vpn(k, e) == [id |-> k, purpose |-> "vpn", object |-> e]

\* A pool that lists k n times and nothing else.
Pool(k, n) == [i \in IDS |-> IF i = k THEN n ELSE 0]

active_vpn(base) ==
  [base EXCEPT !.bindings = {Vpn(k1, 1)}, !.kv = [id |-> k1, epoch |-> 1], !.epoch = 1]

\* The invalid states, under the name of the check that is expected to fire.
states(base) ==
  [I1 |-> [base EXCEPT !.pool = Pool(k1, 2)],
   I2 |-> [base EXCEPT !.bindings = {Ekm(k1, v1), Vpn(k1, 1)}, !.ke = v1,
                       !.kv = [id |-> k1, epoch |-> 1], !.epoch = 1],
   I3 |-> [base EXCEPT !.pool = Pool(k1, 1), !.bindings = {Ekm(k1, v1)}, !.ke = v1],
   I4 |-> [base EXCEPT !.bindings = {Ekm(k1, v1), Ekm(k2, v1)}, !.ke = v1],
   I5 |-> [base EXCEPT !.ke = v1,
                       !.bindings = {b \in @ : b.purpose # "ekm" \/ b.object # v1}],
   I6 |-> [active_vpn(base) EXCEPT !.kp = [id |-> k1, epoch |-> 1]],
   I7 |-> [active_vpn(base) EXCEPT !.epoch = 2],
   I8 |-> [base EXCEPT !.sq = FALSE, !.stored_mode = "READY"],
   I9 |-> [base EXCEPT !.se = FALSE,
                       !.stored_consequences = [storage |-> TRUE, fresh_allocation |-> TRUE,
                                                established_vpn |-> "distinct"]]]

Step(family, k, src, dst) == [label |-> [family |-> family, id |-> k], src |-> src, dst |-> dst]

\* The invalid transitions, under the name of the guard that is expected to fire.
transitions(base) ==
  LET down == [base EXCEPT !.sq = FALSE]
      cut == [base EXCEPT !.se = FALSE, !.pool = Pool(k1, 1)]
      idle == [base EXCEPT !.sq = FALSE, !.recovery = FALSE]
      live == active_vpn(base)
  IN  [G1 |-> Step("ingest", k1, down, [down EXCEPT !.pool = Pool(k1, 1)]),
       G2 |-> Step("alloc", k1, cut,
                   [cut EXCEPT !.pool = Pool(k1, 0), !.bindings = {Ekm(k1, v1)}, !.ke = v1]),
       G3 |-> Step("reject_stale", k1, live, [live EXCEPT !.epoch = 2]),
       G4 |-> Step("recover", k1, idle, idle)]

\* detect: the checks that fire for a case.
DetectedIn(s) == invariants(s, FALSE)
DetectedBy(t) == guards(t.label, t.src, t.dst)

------------------------------------------------------------------------------
\* Every seeded fault is caught by the check it was made for, whatever reachable state
\* it is seeded into (seeded.py, run_seeded): no check depends on a field that happens
\* to be clean in State().
SeededDetected ==
  rules \in SeededInto =>
    LET invalid == states(Current)
        steps == transitions(Current)
    IN  /\ \A c \in DOMAIN invalid : c \in DetectedIn(invalid[c])
        /\ \A c \in DOMAIN steps : c \in DetectedBy(steps[c])
==============================================================================
