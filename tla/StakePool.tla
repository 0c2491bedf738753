----------------------------- MODULE StakePool -----------------------------
(***************************************************************************)
(* The validator stake accounting of the stake-pool program: the ordered  *)
(* validator list (ValidatorList / ValidatorStakeInfo), the on-chain      *)
(* stake accounts each entry stands for (validator stake and transient    *)
(* stake), the reserve, and the pool header (total_lamports,              *)
(* pool_token_supply, last_update_epoch, preferred validators).           *)
(*                                                                         *)
(* Instructions are atomic: each action is one whole instruction handler. *)
(* The clock, reward distribution and cluster restarts are environment    *)
(* actions.  Epochs are abstracted to "has this record been reconciled    *)
(* in the current epoch" flags, which is all the program compares.        *)
(***************************************************************************)
EXTENDS Integers, Sequences, FiniteSets, Functions

CONSTANTS
  Validators,      \* vote account addresses that may join the pool
  NoValidator,     \* the None of an Option<Pubkey>
  MaxValidators,   \* ValidatorListHeader.max_validators
  BatchSize,       \* MAX_VALIDATORS_TO_UPDATE per update instruction
  StakeMin,        \* rent + minimum delegation of one stake account
  ReserveMin,      \* lamports the reserve must always keep
  Amounts,         \* lamport amounts a staker may move per instruction
  InitialReserve,  \* reserve lamports at pool initialization
  InitialSupply,   \* pool tokens minted at initialization
  EpochFeeNum,     \* epoch_fee numerator
  EpochFeeDen,     \* epoch_fee denominator
  Corruptions,     \* states a cluster restart may leave a stake account in
  MaxLamports,     \* bound: rewards stop once the pool holds this much
  MaxReward,       \* bound: the largest reward of one account in an epoch
  MaxRestarts      \* bound: number of cluster-restart corruptions

ASSUME NoValidator \notin Validators
ASSUME MaxValidators \in Nat \ {0} /\ BatchSize \in Nat \ {0}
ASSUME StakeMin \in Nat \ {0} /\ ReserveMin \in Nat
ASSUME Amounts \subseteq Nat \ {0} /\ MaxReward \in Nat
ASSUME EpochFeeDen \in Nat \ {0} /\ EpochFeeNum \in 0..EpochFeeDen
ASSUME Corruptions \subseteq {"Initialized", "Foreign", "Uninitialized"}

VARIABLES
  list,            \* ValidatorList.validators, in list order
  stake,           \* validator stake account of each vote address
  transient,       \* transient stake account of each vote address
  reserve,         \* lamports of the reserve stake account
  totalLamports,   \* StakePool.total_lamports
  poolTokenSupply, \* StakePool.pool_token_supply
  mintSupply,      \* supply of the pool mint
  poolUpdated,     \* StakePool.last_update_epoch = clock epoch
  preferred,       \* preferred deposit / withdraw vote address
  atGenesis,       \* clock epoch is 0
  rewarding,       \* stake accounts still awaiting this epoch's reward
  restarts         \* cluster-restart corruptions so far

vars == <<list, stake, transient, reserve, totalLamports, poolTokenSupply,
          mintSupply, poolUpdated, preferred, atGenesis, rewarding, restarts>>

-----------------------------------------------------------------------------
(* Data                                                                    *)

Statuses == {"Active", "DeactivatingTransient", "DeactivatingValidator",
             "DeactivatingAll", "ReadyForRemoval"}

\* Kinds of a validator stake account.  The first four are owned by the
\* pool's withdraw authority with the pool's lockup; "Foreign" has another
\* authority or lockup; "Uninitialized" carries lamports but no stake state.
PoolStakeKinds == {"Delegated", "Deactivating", "Inactive", "Initialized"}
StakeKinds == PoolStakeKinds \cup {"None", "Foreign", "Uninitialized"}

\* Kinds of a transient stake account: an increase activates towards the
\* validator stake account, a decrease or removal deactivates to the reserve.
TransientKinds == {"None", "Activating", "Active", "Deactivating", "Inactive"}

NoAccount == [kind |-> "None", lamports |-> 0]

PreferredKinds == {"Deposit", "Withdraw"}

Entry == [vote: Validators, status: Statuses, active: Nat,
          transient: Nat, updated: BOOLEAN]

Votes(l) == {l[i].vote : i \in DOMAIN l}

IndexOf(v) == CHOOSE i \in DOMAIN list : list[i].vote = v

\* A stake account the pool can use: it has stake state, the pool's
\* authorities and lockup.  Any other account is ignored by reconciliation.
IsUsable(acct) == acct.kind \in PoolStakeKinds \cup (TransientKinds \ {"None"})

\* Lamports of a stake account the pool provably controls.
PoolLamports(acct) == IF IsUsable(acct) THEN acct.lamports ELSE 0

EntryLamports(e) == e.active + e.transient

ListLamports(l) == SumFunction([i \in DOMAIN l |-> EntryLamports(l[i])])

\* Everything of value the pool controls on chain.
ControlledLamports ==
  reserve + SumFunction([v \in Validators |->
                           PoolLamports(stake[v]) + PoolLamports(transient[v])])

PoolFresh == poolUpdated

\* Mutant: the slot check admits one entry past max_validators.
HasRoomOffByOne(l) == Len(l) <= MaxValidators

\* The list has a free slot (ValidatorListHeader.max_validators).
HasRoom(l) == Len(l) < MaxValidators

\* Mutant: the reserve balance is not checked before funding.
ReserveCanFundUnchecked(amount) == TRUE

\* The reserve can fund amount and keep its minimum.
ReserveCanFund(amount) == reserve - amount >= ReserveMin

-----------------------------------------------------------------------------
(* Epoch reconciliation of one entry (UpdateValidatorListBalance)          *)

\* Mutant: a deactivated validator stake never completes the removal.
NextStatusNoRemovalDone(st, validatorGone, transientGone) ==
  CASE st = "Active" ->
         IF validatorGone THEN "ReadyForRemoval" ELSE "Active"
    [] st = "DeactivatingTransient" ->
         IF validatorGone THEN "ReadyForRemoval"
         ELSE IF transientGone THEN "Active" ELSE st
    [] st = "DeactivatingAll" ->
         IF transientGone THEN "DeactivatingValidator" ELSE st
    [] st \in {"DeactivatingValidator", "ReadyForRemoval"} -> st

\* Status after one reconciliation, given whether the validator stake
\* account and the transient account are gone once its merges are done.
NextStatus(st, validatorGone, transientGone) ==
  CASE st = "Active" ->
         IF validatorGone THEN "ReadyForRemoval" ELSE "Active"
    [] st = "DeactivatingTransient" ->
         IF validatorGone THEN "ReadyForRemoval"
         ELSE IF transientGone THEN "Active" ELSE st
    [] st = "DeactivatingValidator" ->
         IF validatorGone THEN "ReadyForRemoval" ELSE st
    [] st = "DeactivatingAll" ->
         IF validatorGone /\ transientGone THEN "ReadyForRemoval"
         ELSE IF transientGone THEN "DeactivatingValidator" ELSE st
    [] st = "ReadyForRemoval" -> st

\* A deactivated transient merges into the reserve; an activated one into
\* the validator stake account if that is still delegated; a deactivated or
\* reset validator stake account merges into the reserve.  Foreign and
\* uninitialized accounts are ignored: left alone and counted as zero.
ReconcileEntryKeepsTransient(e, s, t, noMerge) ==
  \* Mutant: a transient merged into the reserve is not closed.
  LET tToReserve == ~noMerge /\ t.kind = "Inactive"
  IN [entry |-> [e EXCEPT !.status = NextStatus(e.status, s.kind = "None",
                                                 t.kind = "None"),
                          !.transient = PoolLamports(t), !.updated = TRUE],
      stake |-> s, transient |-> t,
      toReserve |-> IF tToReserve THEN t.lamports ELSE 0]

ReconcileEntry(e, s, t, noMerge) ==
  LET tToReserve   == ~noMerge /\ t.kind = "Inactive"
      tToValidator == ~noMerge /\ t.kind = "Active" /\ s.kind = "Delegated"
      t1 == IF tToReserve \/ tToValidator THEN NoAccount ELSE t
      s1 == IF tToValidator THEN [s EXCEPT !.lamports = @ + t.lamports] ELSE s
      sToReserve == ~noMerge /\ s1.kind \in {"Inactive", "Initialized"}
      s2 == IF sToReserve THEN NoAccount ELSE s1
  IN [entry |-> [e EXCEPT
                   !.status = NextStatus(e.status, s2.kind = "None",
                                         t1.kind = "None"),
                   !.active = PoolLamports(s2),
                   !.transient = PoolLamports(t1),
                   !.updated = TRUE],
      stake |-> s2,
      transient |-> t1,
      toReserve |-> (IF tToReserve THEN t.lamports ELSE 0)
                    + (IF sToReserve THEN s1.lamports ELSE 0)]

\* The state after reconciling the window (start, start + BatchSize].
UpdateBatch(l, stk, trn, res, start, noMerge) ==
  LET idx == {i \in DOMAIN l : start < i /\ i <= start + BatchSize}
      r == [i \in idx |-> ReconcileEntry(l[i], stk[l[i].vote],
                                         trn[l[i].vote], noMerge)]
      At(v) == CHOOSE i \in idx : l[i].vote = v
      InBatch(v) == \E i \in idx : l[i].vote = v
  IN [list |-> [i \in DOMAIN l |-> IF i \in idx THEN r[i].entry ELSE l[i]],
      stake |-> [v \in DOMAIN stk |->
                   IF InBatch(v) THEN r[At(v)].stake ELSE stk[v]],
      transient |-> [v \in DOMAIN trn |->
                       IF InBatch(v) THEN r[At(v)].transient ELSE trn[v]],
      reserve |-> res + SumFunction([i \in idx |-> r[i].toReserve])]

-----------------------------------------------------------------------------
(* Fee arithmetic (StakePool::calc_epoch_fee_amount)                       *)

\* Mutant: the fee tokens are priced on the whole reward, not the fee.
EpochFeeTokensOnReward(reward, prevTotal, supply) ==
  LET feeLamports == (reward * EpochFeeNum) \div EpochFeeDen
      newTotal == prevTotal + reward
  IN CASE reward = 0 -> 0
       [] newTotal = feeLamports \/ supply = 0 -> reward
       [] OTHER -> (supply * reward) \div (newTotal - feeLamports)

EpochFeeTokens(reward, prevTotal, supply) ==
  LET feeLamports == (reward * EpochFeeNum) \div EpochFeeDen
      newTotal == prevTotal + reward
  IN CASE reward = 0 -> 0
       [] newTotal = feeLamports \/ supply = 0 -> reward
       [] OTHER -> (supply * feeLamports) \div (newTotal - feeLamports)

-----------------------------------------------------------------------------
(* Instructions                                                            *)

Init ==
  /\ list = << >>
  /\ stake = [v \in Validators |-> NoAccount]
  /\ transient = [v \in Validators |-> NoAccount]
  /\ reserve = InitialReserve
  /\ totalLamports = InitialReserve
  /\ poolTokenSupply = InitialSupply
  /\ mintSupply = InitialSupply
  /\ poolUpdated = TRUE
  /\ preferred = [k \in PreferredKinds |-> NoValidator]
  /\ atGenesis = TRUE
  /\ rewarding = {}
  /\ restarts = 0

\* The pool's reserve funds a new validator stake account of StakeMin
\* lamports; the entry starts with last_update_epoch = 0.
AddValidatorToPool(v) ==
  /\ PoolFresh
  /\ v \notin Votes(list)
  /\ HasRoom(list)
  /\ stake[v].kind = "None"
  /\ ReserveCanFund(StakeMin)
  /\ reserve' = reserve - StakeMin
  /\ stake' = [stake EXCEPT ![v] = [kind |-> "Delegated", lamports |-> StakeMin]]
  /\ list' = Append(list, [vote |-> v, status |-> "Active", active |-> StakeMin,
                           transient |-> 0, updated |-> atGenesis])
  /\ UNCHANGED <<transient, totalLamports, poolTokenSupply, mintSupply,
                 poolUpdated, preferred, atGenesis, rewarding, restarts>>

\* Deactivates the validator stake account, and a transient one if present;
\* a preference for the validator is cleared.
RemoveValidatorFromPool(v) ==
  LET i == IndexOf(v)
      e == list[i]
  IN
  /\ PoolFresh
  /\ v \in Votes(list)
  /\ e.status \in {"Active", "DeactivatingTransient"}
  /\ stake[v].kind = "Delegated"
  /\ stake' = [stake EXCEPT ![v].kind = "Deactivating"]
  /\ transient' = [transient EXCEPT ![v].kind =
                     IF @ \in {"Activating", "Active"} THEN "Deactivating" ELSE @]
  /\ list' = [list EXCEPT ![i].status =
                IF e.transient > 0 THEN "DeactivatingAll"
                ELSE "DeactivatingValidator"]
  /\ preferred' = [k \in PreferredKinds |->
                     IF preferred[k] = v THEN NoValidator ELSE preferred[k]]
  /\ UNCHANGED <<reserve, totalLamports, poolTokenSupply, mintSupply,
                 poolUpdated, atGenesis, rewarding, restarts>>

\* Moves lamports from the reserve into a new activating transient account.
IncreaseValidatorStake(v, amount) ==
  LET i == IndexOf(v) IN
  /\ PoolFresh
  /\ v \in Votes(list)
  /\ list[i].status = "Active"
  /\ stake[v].kind = "Delegated"
  /\ transient[v].kind = "None"
  /\ amount >= StakeMin
  /\ ReserveCanFund(amount)
  /\ reserve' = reserve - amount
  /\ transient' = [transient EXCEPT ![v] = [kind |-> "Activating",
                                            lamports |-> amount]]
  /\ list' = [list EXCEPT ![i].transient = amount]
  /\ UNCHANGED <<stake, totalLamports, poolTokenSupply, mintSupply,
                 poolUpdated, preferred, atGenesis, rewarding, restarts>>

\* Splits lamports off the validator stake account into a new deactivating
\* transient account; the validator stake keeps at least StakeMin.  The
\* entry stays Active: a withdrawal from the validator with the decrease
\* pending fails on the amount (StakeLamportsNotEqualToMinimum), not on
\* the status (withdraw_edge_cases.rs, fail_remove_validator_blocked_by_
\* transient_stake), and a removal then yields DeactivatingAll.
DecreaseValidatorStake(v, amount) ==
  LET i == IndexOf(v) IN
  /\ PoolFresh
  /\ v \in Votes(list)
  /\ list[i].status = "Active"
  /\ stake[v].kind = "Delegated"
  /\ transient[v].kind = "None"
  /\ amount >= StakeMin
  /\ stake[v].lamports - amount >= StakeMin
  /\ stake' = [stake EXCEPT ![v].lamports = @ - amount]
  /\ transient' = [transient EXCEPT ![v] = [kind |-> "Deactivating",
                                            lamports |-> amount]]
  /\ list' = [list EXCEPT ![i].active = @ - amount,
                          ![i].transient = amount]
  /\ UNCHANGED <<reserve, totalLamports, poolTokenSupply, mintSupply,
                 poolUpdated, preferred, atGenesis, rewarding, restarts>>

\* Reconciles one batch of entries against their stake accounts.
UpdateValidatorListBalance(start, noMerge) ==
  LET u == UpdateBatch(list, stake, transient, reserve, start, noMerge) IN
  /\ rewarding = {}
  /\ start \in 0..(Len(list) - 1)
  /\ list' = u.list
  /\ stake' = u.stake
  /\ transient' = u.transient
  /\ reserve' = u.reserve
  /\ UNCHANGED <<totalLamports, poolTokenSupply, mintSupply, poolUpdated,
                 preferred, atGenesis, rewarding, restarts>>

\* Mutant: the staleness check on the list is missing.
UpdateStakePoolBalanceUnchecked ==
  LET newTotal == reserve + ListLamports(list)
      reward == IF newTotal > totalLamports THEN newTotal - totalLamports ELSE 0
      fee == IF poolUpdated THEN 0
             ELSE EpochFeeTokens(reward, totalLamports, poolTokenSupply)
  IN
  /\ totalLamports' = newTotal
  /\ mintSupply' = mintSupply + fee
  /\ poolTokenSupply' = mintSupply + fee
  /\ poolUpdated' = TRUE
  /\ UNCHANGED <<list, stake, transient, reserve, preferred, atGenesis,
                 rewarding, restarts>>

\* Recomputes total_lamports from the reserve and the list; the first
\* update of an epoch mints the epoch fee on the reward.
UpdateStakePoolBalance ==
  LET newTotal == reserve + ListLamports(list)
      reward == IF newTotal > totalLamports THEN newTotal - totalLamports ELSE 0
      fee == IF poolUpdated THEN 0
             ELSE EpochFeeTokens(reward, totalLamports, poolTokenSupply)
  IN
  /\ \A i \in DOMAIN list : list[i].updated
  /\ totalLamports' = newTotal
  /\ mintSupply' = mintSupply + fee
  /\ poolTokenSupply' = mintSupply + fee
  /\ poolUpdated' = TRUE
  /\ UNCHANGED <<list, stake, transient, reserve, preferred, atGenesis,
                 rewarding, restarts>>

\* Mutant: the balance check of the removal test is missing.
IsRemovedStatusOnly(e) == e.status = "ReadyForRemoval"

\* An entry may be deleted only when ReadyForRemoval with nothing recorded.
IsRemoved(e) ==
  e.status = "ReadyForRemoval" /\ e.active = 0 /\ e.transient = 0

\* p names an Active entry of l: a preference may be set to it and survives cleanup.
IsActiveValidator(p, l) ==
  \E i \in DOMAIN l : l[i].vote = p /\ l[i].status = "Active"

\* Mutant: cleanup leaves the preferred validators alone.
CleanupKeepsPreferred ==
  /\ list' = SelectSeq(list, LAMBDA e : ~IsRemoved(e))
  /\ UNCHANGED <<stake, transient, reserve, totalLamports, poolTokenSupply,
                 mintSupply, poolUpdated, preferred, atGenesis, rewarding,
                 restarts>>

\* Deletes removed entries and clears a preference that no longer names an
\* Active entry.
CleanupRemovedValidatorEntries ==
  LET kept == SelectSeq(list, LAMBDA e : ~IsRemoved(e))
  IN
  /\ list' = kept
  /\ preferred' = [k \in PreferredKinds |->
                     IF IsActiveValidator(preferred[k], kept)
                     THEN preferred[k] ELSE NoValidator]
  /\ UNCHANGED <<stake, transient, reserve, totalLamports, poolTokenSupply,
                 mintSupply, poolUpdated, atGenesis, rewarding, restarts>>

SetPreferredValidator(kind, v) ==
  /\ \/ v = NoValidator
     \/ IsActiveValidator(v, list)
  /\ preferred' = [preferred EXCEPT ![kind] = v]
  /\ UNCHANGED <<list, stake, transient, reserve, totalLamports,
                 poolTokenSupply, mintSupply, poolUpdated, atGenesis,
                 rewarding, restarts>>

-----------------------------------------------------------------------------
(* Environment                                                             *)

\* A new epoch: stake finishes (de)activating, every record becomes stale
\* and reward distribution begins for the stake delegated at the boundary.
EpochAdvance ==
  /\ rewarding = {}
  /\ stake' = [v \in Validators |->
                 IF stake[v].kind = "Deactivating"
                 THEN [stake[v] EXCEPT !.kind = "Inactive"] ELSE stake[v]]
  /\ transient' = [v \in Validators |->
                     CASE transient[v].kind = "Activating"
                            -> [transient[v] EXCEPT !.kind = "Active"]
                       [] transient[v].kind = "Deactivating"
                            -> [transient[v] EXCEPT !.kind = "Inactive"]
                       [] OTHER -> transient[v]]
  /\ list' = [i \in DOMAIN list |-> [list[i] EXCEPT !.updated = FALSE]]
  /\ poolUpdated' = FALSE
  /\ atGenesis' = FALSE
  /\ rewarding' = {v \in Validators : stake[v].kind = "Delegated"}
  /\ UNCHANGED <<reserve, totalLamports, poolTokenSupply, mintSupply,
                 preferred, restarts>>

\* Reward distribution credits one stake account with its reward r; an
\* account that is no longer delegated (or reached the bound) gets none.
RewardsPaid(v, r) ==
  /\ v \in rewarding
  /\ r > 0 => stake[v].kind = "Delegated" /\ ControlledLamports + r <= MaxLamports
  /\ stake' = [stake EXCEPT ![v].lamports = @ + r]
  /\ rewarding' = rewarding \ {v}
  /\ UNCHANGED <<list, transient, reserve, totalLamports, poolTokenSupply,
                 mintSupply, poolUpdated, preferred, atGenesis, restarts>>

\* A cluster restart at the epoch boundary leaves a validator stake account
\* reset to Initialized, taken over by another authority (with extra
\* lamports), or uninitialized.
ClusterRestart(v, c) ==
  /\ ~poolUpdated /\ \A i \in DOMAIN list : ~list[i].updated
  /\ restarts < MaxRestarts
  /\ stake[v].kind \in {"Delegated", "Deactivating", "Inactive"}
  /\ stake' = [stake EXCEPT ![v] =
                 [kind |-> c,
                  lamports |-> IF c = "Foreign" THEN @.lamports + 1
                               ELSE @.lamports]]
  /\ restarts' = restarts + 1
  /\ UNCHANGED <<list, transient, reserve, totalLamports, poolTokenSupply,
                 mintSupply, poolUpdated, preferred, atGenesis, rewarding>>

\* A token holder burns pool tokens outside the program.
BurnTokens ==
  /\ mintSupply > 0
  /\ mintSupply' = mintSupply - 1
  /\ UNCHANGED <<list, stake, transient, reserve, totalLamports,
                 poolTokenSupply, poolUpdated, preferred, atGenesis,
                 rewarding, restarts>>

-----------------------------------------------------------------------------

Next ==
  \/ \E v \in Validators : AddValidatorToPool(v)
  \/ \E v \in Validators : RemoveValidatorFromPool(v)
  \/ \E v \in Validators, a \in Amounts : IncreaseValidatorStake(v, a)
  \/ \E v \in Validators, a \in Amounts : DecreaseValidatorStake(v, a)
  \/ \E s \in 0..(MaxValidators - 1), nm \in BOOLEAN :
       UpdateValidatorListBalance(s, nm)
  \/ UpdateStakePoolBalance
  \/ CleanupRemovedValidatorEntries
  \/ \E k \in PreferredKinds, v \in Validators \cup {NoValidator} :
       SetPreferredValidator(k, v)
  \/ EpochAdvance
  \/ \E v \in Validators, r \in 0..MaxReward : RewardsPaid(v, r)
  \/ \E v \in Validators, c \in Corruptions : ClusterRestart(v, c)
  \/ BurnTokens

\* The keeper that cranks the epoch update is assumed to retry until its
\* instructions land; the clock and reward distribution always progress.
Fairness ==
  /\ WF_vars(EpochAdvance)
  /\ WF_vars(\E v \in Validators : RewardsPaid(v, 0))
  /\ \A s \in 0..(MaxValidators - 1) :
       SF_vars(UpdateValidatorListBalance(s, FALSE))
  /\ SF_vars(UpdateStakePoolBalance)
  /\ SF_vars(CleanupRemovedValidatorEntries)

Spec == Init /\ [][Next]_vars

FairSpec == Spec /\ Fairness

-----------------------------------------------------------------------------
(* Properties                                                              *)

Account(K) == [kind: K, lamports: Nat]

TypeOK ==
  /\ list \in Seq(Entry) /\ Len(list) <= MaxValidators
  /\ stake \in [Validators -> Account(StakeKinds)]
  /\ transient \in [Validators -> Account(TransientKinds)]
  /\ reserve \in Nat /\ totalLamports \in Nat
  /\ poolTokenSupply \in Nat /\ mintSupply \in Nat
  /\ preferred \in [PreferredKinds -> Validators \cup {NoValidator}]
  /\ poolUpdated \in BOOLEAN /\ atGenesis \in BOOLEAN
  /\ rewarding \subseteq Validators /\ restarts \in 0..MaxRestarts

\* Once update_stake_pool_balance has run in the current epoch,
\* total_lamports is exactly what the pool controls on chain: the reserve
\* plus every pool-owned validator and transient stake account.  Neither an
\* ignored foreign account, nor a stale entry, nor reward distribution still
\* in progress may leak into the total.
AccountingExact ==
  poolUpdated => totalLamports = ControlledLamports

\* No stake account holding pool lamports belongs to a vote address that
\* has been deleted from the validator list by cleanup (such lamports could
\* never be reconciled or withdrawn again).
NoOrphanedStake ==
  \A v \in Validators \ Votes(list) :
    PoolLamports(stake[v]) = 0 /\ PoolLamports(transient[v]) = 0

\* The preferred deposit and withdraw validators always name a validator
\* that is in the list, across removal, reconciliation and cleanup.
PreferredNeverDangling ==
  \A k \in PreferredKinds :
    preferred[k] = NoValidator \/ preferred[k] \in Votes(list)

\* Reconciling a batch twice has the same effect as reconciling it once:
\* update_validator_list_balance may be re-sent by a keeper that did not
\* see its first attempt land.
ReconcileIdempotent ==
  \A s \in 0..(MaxValidators - 1), nm \in BOOLEAN :
    LET once == UpdateBatch(list, stake, transient, reserve, s, nm)
        twice == UpdateBatch(once.list, once.stake, once.transient,
                             once.reserve, s, nm)
    IN twice = once

\* The pool tokens update_stake_pool_balance mints to the manager are worth,
\* at the new exchange rate, no more than the epoch fee's share of the
\* reward; stakers keep the rest (when no tokens were burnt out of band,
\* so the recorded supply is the mint's).
EpochFeeWithinRate ==
  [][ (/\ UpdateStakePoolBalance
       /\ poolTokenSupply > 0 /\ mintSupply = poolTokenSupply
       /\ totalLamports' >= totalLamports)
      => LET minted == mintSupply' - mintSupply
             feeLamports == ((totalLamports' - totalLamports) * EpochFeeNum)
                              \div EpochFeeDen
         IN minted * totalLamports' <= feeLamports * poolTokenSupply'
    ]_vars

\* A validator whose removal has begun is eventually deleted from the list
\* by the keeper's reconciliation and cleanup.
RemovedValidatorEventuallyDeleted ==
  \A v \in Validators :
    (\E i \in DOMAIN list : list[i].vote = v
                            /\ list[i].status \in {"DeactivatingValidator",
                                                   "DeactivatingAll"})
      ~> v \notin Votes(list)

\* Every status written into the validator list is one the published
\* interface's StakeStatus enum can decode.
IdlStakeStatus == {"Active", "DeactivatingTransient", "ReadyForRemoval"}

IdlDecodable == \A i \in DOMAIN list : list[i].status \in IdlStakeStatus

=============================================================================
