-------------------------- MODULE MCLifecycleModel --------------------------
(***************************************************************************)
(* LifecycleModel for TLC: the calibration sweep, one enumeration for each *)
(* reading, and the checker and its seeded faults on all their states.     *)
(***************************************************************************)
EXTENDS Seeded, Calibrate

CONSTANTS k3, k4, v2

\* A reading no stage of the sweep has: an ordered pool, retired identifiers,
\* sessions that end or are abandoned, a recovery in two steps, policy suspension,
\* and interruptions and recoveries that drop what is in flight.
Eventful ==
  With([BASE EXCEPT !.reject_stale_needs_active = FALSE],
       Knobs \ {"reject_stale_needs_active", "alloc_ekm_needs_source",
                "alloc_vpn_needs_no_active", "activate_merged",
                "alloc_vpn_any_future_epoch", "reject_stale_per_epoch"})

AllReadings == combos(DOMAIN Stage) \cup {Eventful}

\* Readings explored beyond the smallest domains.
LargeReadings == {DEFAULT_RULES, Eventful}

UsesOnly(ids, versions, epochs) ==
  /\ pool \cup expired \cup consumed \subseteq ids
  /\ ekm_objects \subseteq versions /\ vpn_objects \subseteq epochs

\* The domains: those of state.py for the calibrated reading, smaller ones for the
\* other 442.
Domains ==
  \/ rules = DEFAULT_RULES
  \/ rules = Eventful /\ UsesOnly({k1, k2, k3}, {v1}, 1..3)
  \/ UsesOnly({k1, k2}, {v1}, 1..2)

\* Filtering the oldest identifier out of a queue without repetitions, as
\* _pool_take does, leaves the queue's tail, as PoolTake does.
Queues == UNION {{q \in [1..n -> IDS] : Cardinality({q[i] : i \in 1..n}) = n} :
                 n \in 1..Cardinality(IDS)}
ASSUME FilterOfOldest == \A q \in Queues : SelectSeq(q, LAMBDA x : x # q[1]) = Tail(q)
=============================================================================
