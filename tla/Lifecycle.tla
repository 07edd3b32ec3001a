------------------------------ MODULE Lifecycle ------------------------------
(***************************************************************************)
(* The lifecycle-mode derivation of qkd_ekm/ekm/lifecycle.py: one function *)
(* shared by the running EKM (GET /api/state) and by the executable        *)
(* reference model.  `derive` looks at pool_size only through              *)
(* "pool_size > 0", which is the parameter `retained` here.                *)
(***************************************************************************)

\* Order matters: each line outranks the ones below it.
DeriveMode(source, ekm, retained, bound, continuity, recovering, policy) ==
  CASE recovering             -> "RECOVERY"
    [] ~recovering /\ policy  -> "SUSPENDED"
    [] ~recovering /\ ~policy ->
         IF source /\ ekm        THEN "READY"
         ELSE IF ekm /\ retained THEN "BUFFERED"
         ELSE IF ~continuity     THEN "SUSPENDED"
         ELSE IF bound           THEN "BINDING_HOLDOVER"
         ELSE "EXHAUSTED"
==============================================================================
