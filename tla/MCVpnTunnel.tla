---------------------------- MODULE MCVpnTunnel ----------------------------
(***************************************************************************)
(* VpnTunnel for TLC.                                                      *)
(***************************************************************************)
EXTENDS VpnTunnel, TLC

KeySymmetry == Permutations(PublicKeys)
=============================================================================
