------------------------------- MODULE MCVpn -------------------------------
(***************************************************************************)
(* Vpn for TLC: clients' public keys are interchangeable.                  *)
(***************************************************************************)
EXTENDS Vpn, TLC

KeySymmetry == Permutations(PublicKeys)
=============================================================================
