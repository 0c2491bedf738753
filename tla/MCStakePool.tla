---------------------------- MODULE MCStakePool ----------------------------
(* Model-checking instance of StakePool: two validators, a list of        *)
(* capacity two updated one entry per instruction, so that an epoch can   *)
(* be left half reconciled.                                               *)
EXTENDS StakePool, TLC

CONSTANTS v1, v2

MCValidators == {v1, v2}

MCSymmetry == Permutations(MCValidators)

====
