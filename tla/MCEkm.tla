------------------------------- MODULE MCEkm -------------------------------
(***************************************************************************)
(* Ekm for TLC: peers as an ordered list, external keys as interchangeable *)
(* model values.                                                           *)
(***************************************************************************)
EXTENDS Ekm, TLC

OnePeer  == <<"QKD2">>
TwoPeers == <<"QKD2", "QKD3">>

ObjectSymmetry == Permutations(Objects)
=============================================================================
