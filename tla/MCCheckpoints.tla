---------------------------- MODULE MCCheckpoints ----------------------------
(* Windows of 1 and 2 seconds: the first is too short for a prefix of two    *)
(* samples, and with two seconds lost to training or to late wake-ups the     *)
(* second is over when the script comes to wait for it.                       *)
EXTENDS Checkpoints, TLC

CONSTANTS k1, k2
MCKeys == {k1, k2}
Symmetry == Permutations(MCKeys)
=============================================================================
