------------------------ MODULE MCStakePoolIdlFrame ------------------------
(* Model-checking instance of StakePoolIdl: the instructions of           *)
(* StakePoolTokens against the published interface and against the      *)
(* abstract pool, with one vote address more than the list has slots.    *)
EXTENDS StakePoolIdl, TLC

CONSTANTS v1, v2, v3

MCValidators == {v1, v2, v3}

MCSymmetry == Permutations(MCValidators)

====
