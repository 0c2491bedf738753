---------------------------- MODULE PoolAbstract ----------------------------
(***************************************************************************)
(* What the stake pool promises its holders, without stake accounts or    *)
(* epochs: it holds lamports against a supply of pool tokens, over a set  *)
(* of at most MaxValidators validators.  Holders deposit and withdraw     *)
(* without lowering the lamports behind each token for the others;        *)
(* validators join and leave without moving value; only the epoch update  *)
(* revalues the pool (rewards, slashing, the fee, burnt tokens), once per *)
(* epoch; holders deal only with a pool valued in the current epoch.      *)
(***************************************************************************)
EXTENDS Naturals, FiniteSets

CONSTANTS Validators, MaxValidators

VARIABLES
  lamports,  \* value held by the pool
  tokens,    \* pool tokens outstanding
  members,   \* validators the pool stakes with
  fresh      \* the pool has been valued in the current epoch

vars == <<lamports, tokens, members, fresh>>

\* Lamports per token do not drop from (l, t) to (l2, t2).
RateKept(l, t, l2, t2) == t > 0 => l2 * t >= l * t2

Init ==
  /\ lamports \in Nat /\ tokens \in Nat
  /\ members = {}
  /\ fresh = TRUE

Join(v) ==
  /\ v \notin members
  /\ Cardinality(members) < MaxValidators
  /\ members' = members \cup {v}
  /\ UNCHANGED <<lamports, tokens, fresh>>

Leave ==
  /\ members' \subseteq members /\ members' # members
  /\ UNCHANGED <<lamports, tokens, fresh>>

Deposit ==
  /\ lamports' \in Nat /\ tokens' \in Nat
  /\ lamports' > lamports /\ tokens' >= tokens
  /\ fresh
  /\ RateKept(lamports, tokens, lamports', tokens')
  /\ UNCHANGED <<members, fresh>>

Withdraw ==
  /\ lamports' \in Nat /\ tokens' \in Nat
  /\ lamports' < lamports /\ tokens' < tokens
  /\ fresh
  /\ RateKept(lamports, tokens, lamports', tokens')
  /\ UNCHANGED <<members, fresh>>

\* The first valuation of an epoch may change the lamports; a repeated one
\* only re-reads the token supply.
Revalue ==
  /\ lamports' \in Nat /\ tokens' \in Nat
  /\ ~fresh \/ lamports' = lamports
  /\ fresh' = TRUE
  /\ UNCHANGED members

NewEpoch ==
  /\ fresh /\ fresh' = FALSE
  /\ UNCHANGED <<lamports, tokens, members>>

Next ==
  \/ \E v \in Validators : Join(v)
  \/ Leave
  \/ Deposit
  \/ Withdraw
  \/ Revalue
  \/ NewEpoch

Spec == Init /\ [][Next]_vars

====
