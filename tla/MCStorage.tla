----------------------------- MODULE MCStorage -----------------------------
(***************************************************************************)
(* Storage for TLC: the clients are interchangeable.                       *)
(***************************************************************************)
EXTENDS Storage, TLC

ClientSymmetry == Permutations(Clients)
=============================================================================
