---------------------------- MODULE StakePoolIdl ----------------------------
(***************************************************************************)
(* The instructions of StakePoolTokens against the published interface of *)
(* IdlInterface: every account an instruction writes must be passed       *)
(* writable by the accounts struct the interface declares for it.         *)
(***************************************************************************)
EXTENDS StakePoolTokens, IdlInterface

\* The interface accounts whose state a step changes, for an instruction
\* whose stake accounts occupy the given slots.  The model's state maps to
\* accounts: the pool header to stake_pool, the list to validator_list,
\* the mint supply to pool_mint.
PoolAccountsWritten(reserveSlot, stakeSlot, transientSlot) ==
  {a \in {"stake_pool", "validator_list", "pool_mint", reserveSlot, stakeSlot,
          transientSlot} :
     \/ a = "stake_pool" /\ <<totalLamports, poolTokenSupply, poolUpdated,
                             preferred>> # <<totalLamports', poolTokenSupply',
                                             poolUpdated', preferred'>>
     \/ a = "validator_list" /\ list # list'
     \/ a = "pool_mint" /\ mintSupply # mintSupply'
     \/ a = reserveSlot /\ reserve # reserve'
     \/ a = stakeSlot /\ stake # stake'
     \/ a = transientSlot /\ transient # transient'}

\* The accounts of the user side each instruction always writes: the
\* lamports or stake paid in or out, the pool tokens minted or burnt.
UserAccountsWritten ==
  [deposit_sol |-> {"funding_account", "destination"},
   withdraw_sol |-> {"source", "destination"},
   deposit_stake |-> {"deposit_stake", "destination_pool_account"},
   withdraw_stake |-> {"destination_stake", "source_pool_account"}]

Written(ix) ==
  LET user == IF ix \in DOMAIN UserAccountsWritten
              THEN UserAccountsWritten[ix] ELSE {}
  IN user \cup
     IF ix = "withdraw_stake"
     THEN PoolAccountsWritten("validator_stake", "validator_stake",
                              "validator_stake")
     ELSE PoolAccountsWritten("reserve_stake", "validator_stake",
                              "transient_stake")

\* A step of instruction ix writes only accounts its struct marks mut.
IdlFrame(ix) == Written(ix) \subseteq IdlInstructions[ix].accounts.mut

-----------------------------------------------------------------------------
(* Properties                                                              *)

\* Adding, removing and reconciling validators, withdrawing SOL, and
\* depositing or withdrawing stake write only accounts that the published
\* interface passes writable, so a client generated from it can send them.
IdlWritableRespected ==
  [][ /\ (\E v \in Validators : AddValidatorToPool(v))
           => IdlFrame("add_validator_to_pool")
      /\ (\E v \in Validators : RemoveValidatorFromPool(v))
           => IdlFrame("remove_validator_from_pool")
      /\ (\E s \in 0..(MaxValidators - 1), nm \in BOOLEAN :
            UpdateValidatorListBalance(s, nm))
           => IdlFrame("update_validator_list_balance")
      /\ (\E a \in Amounts : WithdrawSol(a)) => IdlFrame("withdraw_sol")
      /\ (\E v \in Validators, a \in Amounts : DepositStake(v, a))
           => IdlFrame("deposit_stake")
      /\ (\/ \E a \in Amounts : WithdrawStakeFromReserve(a)
          \/ \E v \in Validators, a \in Amounts : WithdrawStakeFromTransient(v, a)
          \/ \E v \in Validators, a \in 1..MaxLamports :
               WithdrawStakeFromValidator(v, a))
           => IdlFrame("withdraw_stake")
    ]_vars

\* deposit_sol moves the deposit from the funding account into the reserve,
\* so both must be passed writable by the published interface.
IdlDepositSolWritable ==
  [][(\E a \in Amounts : DepositSol(a)) => IdlFrame("deposit_sol")]_vars

====
