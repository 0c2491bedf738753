-------------------------- MODULE StakePoolTokens --------------------------
(***************************************************************************)
(* Deposits and withdrawals over the registry and accounting of           *)
(* StakePool: deposit_sol, withdraw_sol, deposit_stake and withdraw_stake *)
(* (from a validator stake account, a transient account or the reserve).  *)
(* Each mints or burns pool tokens at the pool's recorded exchange rate,  *)
(* total_lamports / pool_token_supply.  Fees are zero here: the fee       *)
(* arithmetic is checked on its own (EpochFeeWithinRate).                 *)
(***************************************************************************)
EXTENDS StakePool

-----------------------------------------------------------------------------
(* Share conversion                                                        *)

\* Mutant: a deposit's pool tokens are rounded up.
SharesForDepositRoundUp(lamports) ==
  IF poolTokenSupply = 0 \/ totalLamports = 0 THEN lamports
  ELSE (lamports * poolTokenSupply + totalLamports - 1) \div totalLamports

\* Pool tokens minted for a deposit of lamports, rounded down (in favour of
\* the pool); an empty pool mints one token per lamport.
SharesForDeposit(lamports) ==
  IF poolTokenSupply = 0 \/ totalLamports = 0 THEN lamports
  ELSE (lamports * poolTokenSupply) \div totalLamports

\* Mutant: the pool tokens burnt are rounded down.
SharesToBurnRoundDown(lamports) ==
  (lamports * poolTokenSupply) \div totalLamports

\* Pool tokens burnt to withdraw lamports, rounded up (in favour of the
\* pool).
SharesToBurn(lamports) ==
  (lamports * poolTokenSupply + totalLamports - 1) \div totalLamports

\* The preference for kind k is set to an Active validator other than v
\* whose stake account still has stake above the minimum.
PreferredElsewhere(k, v) ==
  LET p == preferred[k] IN
  /\ p \notin {NoValidator, v}
  /\ IsActiveValidator(p, list)
  /\ stake[p].lamports > StakeMin

\* No validator stake account of the list has stake above the minimum:
\* only then may the transient accounts and the reserve be withdrawn from.
NoWithdrawableValidatorStake ==
  \A i \in DOMAIN list : list[i].active <= StakeMin

\* The pool header after lamports leave the pool for burnt pool tokens.
Burn(lamports) ==
  LET b == SharesToBurn(lamports) IN
  /\ totalLamports > 0 /\ b > 0 /\ b <= mintSupply /\ b <= poolTokenSupply
  /\ totalLamports' = totalLamports - lamports
  /\ poolTokenSupply' = poolTokenSupply - b
  /\ mintSupply' = mintSupply - b

\* The pool header after lamports enter the pool for minted pool tokens.
Mint(lamports) ==
  LET m == SharesForDeposit(lamports) IN
  /\ ControlledLamports + lamports <= MaxLamports
  /\ totalLamports' = totalLamports + lamports
  /\ poolTokenSupply' = poolTokenSupply + m
  /\ mintSupply' = mintSupply + m

-----------------------------------------------------------------------------
(* Instructions                                                            *)

\* Mutant: the reserve minimum is not kept by withdrawals.
ReserveCanPayAll(lamports) == reserve >= lamports

\* The reserve can pay out lamports and keep its minimum.
ReserveCanPay(lamports) == reserve - lamports >= ReserveMin

\* SOL goes into the reserve; pool tokens are minted to the depositor.
DepositSol(lamports) ==
  /\ PoolFresh
  /\ reserve' = reserve + lamports
  /\ Mint(lamports)
  /\ UNCHANGED <<list, stake, transient, poolUpdated, preferred, atGenesis,
                 rewarding, restarts>>

\* SOL leaves the reserve for burnt pool tokens; the reserve keeps its
\* minimum (SolWithdrawalTooLarge).
WithdrawSol(lamports) ==
  /\ PoolFresh
  /\ ReserveCanPay(lamports)
  /\ reserve' = reserve - lamports
  /\ Burn(lamports)
  /\ UNCHANGED <<list, stake, transient, poolUpdated, preferred, atGenesis,
                 rewarding, restarts>>

\* A delegated stake account is merged into the validator stake account of
\* v, which must be the preferred deposit validator when one is set.
DepositStake(v, lamports) ==
  LET i == IndexOf(v) IN
  /\ PoolFresh
  /\ v \in Votes(list)
  /\ list[i].status = "Active"
  /\ stake[v].kind = "Delegated"
  /\ preferred["Deposit"] \in {NoValidator, v}
  /\ stake' = [stake EXCEPT ![v].lamports = @ + lamports]
  /\ list' = [list EXCEPT ![i].active = @ + lamports]
  /\ Mint(lamports)
  /\ UNCHANGED <<transient, reserve, poolUpdated, preferred, atGenesis,
                 rewarding, restarts>>

\* Mutant: the whole validator stake account may be withdrawn while a
\* transient account is pending.
ValidatorWithdrawalNoTransientCheck(v, lamports) ==
  \/ stake[v].lamports - lamports >= StakeMin
  \/ lamports = stake[v].lamports /\ lamports = StakeMin

\* A withdrawal may take stake above the minimum, or the whole account
\* when it holds exactly the minimum and no transient stake is pending
\* (StakeLamportsNotEqualToMinimum otherwise).
ValidatorWithdrawalAllowed(v, lamports) ==
  \/ stake[v].lamports - lamports >= StakeMin
  \/ /\ lamports = stake[v].lamports /\ lamports = StakeMin
     /\ list[IndexOf(v)].transient = 0

\* Splits stake off the validator stake account of v to the withdrawer.
\* Withdrawing the whole account removes the validator: its entry becomes
\* ReadyForRemoval and preferences naming it are reset.
WithdrawStakeFromValidator(v, lamports) ==
  LET i == IndexOf(v)
      whole == lamports = stake[v].lamports
  IN
  /\ PoolFresh
  /\ v \in Votes(list)
  /\ list[i].status = "Active"
  /\ stake[v].kind = "Delegated"
  /\ ~PreferredElsewhere("Withdraw", v)
  /\ ValidatorWithdrawalAllowed(v, lamports)
  /\ stake' = [stake EXCEPT ![v] = IF whole THEN NoAccount
                                   ELSE [@ EXCEPT !.lamports = @ - lamports]]
  /\ list' = [list EXCEPT ![i].active = @ - lamports,
                          ![i].status = IF whole THEN "ReadyForRemoval" ELSE @]
  /\ preferred' = IF whole
                  THEN [k \in PreferredKinds |->
                          IF preferred[k] = v THEN NoValidator ELSE preferred[k]]
                  ELSE preferred
  /\ Burn(lamports)
  /\ UNCHANGED <<transient, reserve, poolUpdated, atGenesis, rewarding,
                 restarts>>

\* Splits stake off the transient account of v, once no validator stake
\* account has stake above the minimum; the transient account keeps its
\* minimum (InvalidStakeAccountAddress / StakeLamportsNotEqualToMinimum).
WithdrawStakeFromTransient(v, lamports) ==
  LET i == IndexOf(v) IN
  /\ PoolFresh
  /\ v \in Votes(list)
  /\ IsUsable(transient[v])
  /\ NoWithdrawableValidatorStake
  /\ transient[v].lamports - lamports >= StakeMin
  /\ transient' = [transient EXCEPT ![v].lamports = @ - lamports]
  /\ list' = [list EXCEPT ![i].transient = @ - lamports]
  /\ Burn(lamports)
  /\ UNCHANGED <<stake, reserve, poolUpdated, preferred, atGenesis,
                 rewarding, restarts>>

\* Splits stake off the reserve, once every validator stake account is down
\* to its minimum and no transient stake is pending
\* (StakeLamportsNotEqualToMinimum otherwise); the reserve keeps its
\* minimum (SolWithdrawalTooLarge).
WithdrawStakeFromReserve(lamports) ==
  /\ PoolFresh
  /\ NoWithdrawableValidatorStake
  /\ \A i \in DOMAIN list : list[i].transient = 0
  /\ ReserveCanPay(lamports)
  /\ reserve' = reserve - lamports
  /\ Burn(lamports)
  /\ UNCHANGED <<list, stake, transient, poolUpdated, preferred, atGenesis,
                 rewarding, restarts>>

\* A deposit or withdrawal of lamports by a pool token holder.
TokenStep ==
  \/ \E a \in Amounts : DepositSol(a) \/ WithdrawSol(a)
                        \/ WithdrawStakeFromReserve(a)
  \/ \E v \in Validators, a \in Amounts :
       DepositStake(v, a) \/ WithdrawStakeFromTransient(v, a)
  \/ \E v \in Validators, a \in 1..MaxLamports :
       WithdrawStakeFromValidator(v, a)

NextTokens == Next \/ TokenStep

SpecTokens == Init /\ [][NextTokens]_vars

-----------------------------------------------------------------------------
(* Properties                                                              *)

\* No deposit or withdrawal lowers the value of a pool token for the
\* holders already in the pool: with deposits rounded down and burns
\* rounded up, lamports per token never drop, however small and however
\* repeated the steps (while there are holders at all).
ShareValueNeverDrops ==
  [][TokenStep /\ poolTokenSupply > 0 =>
       totalLamports' * poolTokenSupply >= totalLamports * poolTokenSupply'
    ]_vars

\* An activating or activated transient account always has a validator
\* stake account to merge into: a withdrawal that empties the validator
\* stake account of v never leaves an increase of v stranded.
TransientHasDestination ==
  \A v \in Validators :
    transient[v].kind \in {"Activating", "Active"} => stake[v].kind # "None"

\* The pool, seen as total_lamports against pool_token_supply over the
\* vote addresses of its list, implements PoolAbstract: only the epoch
\* update revalues it, deposits and withdrawals keep the value of a token,
\* validators join only while the list has room, and no other instruction
\* moves value or membership.
Abstract == INSTANCE PoolAbstract
              WITH lamports <- totalLamports, tokens <- poolTokenSupply,
                   members <- Votes(list), fresh <- poolUpdated

PoolRefinement == Abstract!Spec

\* The holders of the pool mint's tokens never see the value of a token
\* drop at a deposit or withdrawal, measured against the mint's real
\* supply.  Tokens burnt outside the program (BurnTokens) lower the mint's
\* supply but leave the recorded pool_token_supply, which every deposit
\* and withdrawal prices against, stale until the next
\* update_stake_pool_balance.
HoldersNeverDiluted ==
  [][TokenStep /\ mintSupply > 0 =>
       totalLamports' * mintSupply >= totalLamports * mintSupply'
    ]_vars

\* Across deposits, withdrawals, increases and new validators, the reserve
\* never falls below its minimum.
ReserveKeepsMinimum == reserve >= ReserveMin

====
