------------------------------ MODULE Calibrate ------------------------------
(***************************************************************************)
(* The readings that scripts/model_calibrate.py enumerates: for each stage *)
(* of the sweep, the combinations of the semantic knobs of Rules           *)
(* (qkd_ekm/model/events.py) it tries.                                     *)
(***************************************************************************)

\* The defaults of the dataclass Rules: the literal first transcription.
BASE ==
  [reject_stale_needs_active |-> TRUE, ingest_needs_ekm |-> FALSE,
   expire_needs_source_down |-> FALSE, alloc_ekm_needs_source |-> FALSE,
   restore_sets_recovery |-> TRUE, restore_recovery_needs_full |-> FALSE,
   authority_only_when_degraded |-> FALSE, alloc_vpn_needs_no_active |-> FALSE,
   vpn_pending_replaceable |-> FALSE, recover_clears_pending |-> FALSE,
   recover_needs_authority |-> FALSE, dep_toggles_unconditional |-> FALSE,
   activate_merged |-> FALSE, ekm_down_clears_active |-> FALSE,
   expire_marks_used |-> FALSE, suspend_state |-> FALSE,
   restoration_detected |-> FALSE, abandon_pending |-> FALSE,
   abandon_consumes_epoch |-> FALSE, down_clears_pending |-> FALSE,
   session_end |-> FALSE, recover_clears_active |-> FALSE,
   fifo_pool |-> FALSE, alloc_vpn_any_future_epoch |-> FALSE,
   reject_stale_per_epoch |-> FALSE]

Knobs == DOMAIN BASE

\* replace(start, knob=True for the knobs of `on`)
With(start, on) == [f \in Knobs |-> start[f] \/ f \in on]

\* itertools.product over the values of a family of knobs, on top of BASE.
Product(family) ==
  {[f \in Knobs |-> IF f \in family THEN f \in on ELSE BASE[f]] : on \in SUBSET family}

\* Knobs that change which states are reachable.
STRUCTURAL ==
  {"alloc_vpn_needs_no_active", "vpn_pending_replaceable", "recover_clears_pending",
   "activate_merged", "ekm_down_clears_active", "restore_recovery_needs_full"}

\* Knobs that mostly change how many labelled edges join the same states.
EDGES ==
  {"reject_stale_needs_active", "dep_toggles_unconditional", "ingest_needs_ekm",
   "expire_needs_source_down", "alloc_ekm_needs_source",
   "authority_only_when_degraded", "recover_needs_authority"}

\* Knobs that add a degree of freedom to the state.
ROUND2 ==
  {"expire_marks_used", "suspend_state", "restoration_detected", "abandon_pending",
   "abandon_consumes_epoch", "down_clears_pending", "session_end",
   "recover_clears_active", "fifo_pool", "alloc_vpn_any_future_epoch",
   "reject_stale_per_epoch"}

NearMiss == {"expire_marks_used", "ekm_down_clears_active"}

ROUND2_PRODUCTS ==
  {NearMiss \cup {"abandon_pending", "down_clears_pending", "suspend_state",
                  "restoration_detected", "vpn_pending_replaceable"},
   NearMiss \cup {"session_end", "recover_clears_active", "recover_clears_pending",
                  "alloc_vpn_needs_no_active"},
   NearMiss \cup {"abandon_pending", "abandon_consumes_epoch", "fifo_pool"},
   NearMiss \cup {"alloc_vpn_any_future_epoch", "reject_stale_per_epoch",
                  "abandon_pending", "down_clears_pending"}}

ROUND2_SEEDS == {{}, {"expire_marks_used"}, NearMiss}

\* combos(stage), without BASE.
Stage ==
  [singles    |-> {[BASE EXCEPT ![f] = ~BASE[f]] : f \in Knobs},
   structural |-> Product(STRUCTURAL),
   edges      |-> Product(EDGES),
   round2     |-> {With(BASE, seed \cup on) :
                     seed \in ROUND2_SEEDS, on \in {{}} \cup {{f} : f \in ROUND2}}
                  \cup UNION {Product(family) : family \in ROUND2_PRODUCTS}]

combos(stages) == {BASE} \cup UNION {Stage[s] : s \in stages}

\* DEFAULT_RULES: the calibrated reading, one of the last product.
DEFAULT_RULES == With(BASE, {"alloc_vpn_any_future_epoch", "reject_stale_per_epoch"})
==============================================================================
