----------------------------- MODULE MCCapture -----------------------------
(***************************************************************************)
(* Two keys, two processes, and every capture against them.                *)
(***************************************************************************)
EXTENDS Capture, TLC

CONSTANTS k1, k2

\* Three rates: one before, one that is refused, and one after a second login if there were one.
ThreeRates == <<"secure_bit_rate", "signal_qber", "weak_decoy_qber">>

IdSymmetry == Permutations(KEYS)
=============================================================================
