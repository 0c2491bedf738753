------------------------- MODULE MCStakePoolTokens -------------------------
(* Model-checking instance of StakePoolTokens: two validators, pool      *)
(* tokens minted one per lamport at initialization.                       *)
EXTENDS StakePoolTokens, TLC

CONSTANTS v1, v2

MCValidators == {v1, v2}

MCSymmetry == Permutations(MCValidators)

====
