--------------------------- MODULE IdlInterface ----------------------------
(***************************************************************************)
(* The published Anchor interface of the stake-pool program                *)
(* (stake-pool-idl/src/lib.rs): which instructions it declares, and for    *)
(* each the accounts it passes, which of them are writable                 *)
(* (#[account(mut)]) and which must sign.  A client generated from the    *)
(* interface passes every other account read-only, so an instruction      *)
(* that writes one of them fails at run time.                              *)
(***************************************************************************)

\* An accounts struct: every account it names, the writable ones and the
\* signers.  Optional accounts and remaining accounts are named too.
Accounts(all, mut, signer) == [all |-> all, mut |-> mut, signer |-> signer]

IdlInitializeAccounts ==
  Accounts({"stake_pool", "manager", "staker", "stake_pool_withdraw_authority",
            "validator_list", "reserve_stake", "pool_mint",
            "manager_fee_account", "token_program", "deposit_authority"},
           {"stake_pool", "validator_list", "manager_fee_account"},
           {"manager"})

IdlDepositSolAccounts ==
  Accounts({"stake_pool", "stake_pool_withdraw_authority", "reserve_stake",
            "funding_account", "destination", "manager_fee_account",
            "referrer_pool_tokens_account", "pool_mint", "system_program",
            "token_program", "sol_deposit_authority"},
           {"stake_pool", "destination", "manager_fee_account",
            "referrer_pool_tokens_account", "pool_mint"},
           {"funding_account"})

IdlWithdrawSolAccounts ==
  Accounts({"stake_pool", "stake_pool_withdraw_authority", "source",
            "reserve_stake", "destination", "manager_fee_account", "pool_mint",
            "clock", "stake_history", "stake_program", "token_program",
            "sol_withdraw_authority"},
           {"stake_pool", "source", "reserve_stake", "destination",
            "manager_fee_account", "pool_mint"},
           {})

IdlDepositWsolAccounts ==
  Accounts({"stake_pool", "stake_pool_withdraw_authority", "reserve_stake",
            "wsol_account", "wsol_authority", "lamports_destination",
            "destination", "manager_fee_account",
            "referrer_pool_tokens_account", "pool_mint", "system_program",
            "token_program", "wsol_mint", "sol_deposit_authority"},
           {"stake_pool", "reserve_stake", "wsol_account",
            "lamports_destination", "destination", "manager_fee_account",
            "referrer_pool_tokens_account", "pool_mint"},
           {"wsol_authority"})

IdlDepositStakeAccounts ==
  Accounts({"stake_pool", "validator_list", "deposit_authority",
            "stake_pool_withdraw_authority", "deposit_stake", "validator_stake",
            "reserve_stake", "destination_pool_account", "manager_fee_account",
            "referrer_pool_tokens_account", "pool_mint", "clock",
            "stake_history", "token_program", "stake_program"},
           {"stake_pool", "validator_list", "deposit_stake", "validator_stake",
            "reserve_stake", "destination_pool_account", "manager_fee_account",
            "referrer_pool_tokens_account", "pool_mint"},
           {})

\* The one source slot, validator_stake, is the stake account split from:
\* a validator stake account, a transient account or the reserve.
IdlWithdrawStakeAccounts ==
  Accounts({"stake_pool", "validator_list", "stake_pool_withdraw_authority",
            "validator_stake", "destination_stake",
            "destination_stake_authority", "source_pool_account",
            "manager_fee_account", "pool_mint", "clock", "token_program",
            "stake_program"},
           {"stake_pool", "validator_list", "validator_stake",
            "destination_stake", "destination_stake_authority",
            "source_pool_account", "manager_fee_account", "pool_mint"},
           {})

IdlAddValidatorToPoolAccounts ==
  Accounts({"stake_pool", "staker", "reserve_stake", "withdraw_authority",
            "validator_list", "validator_stake", "validator_vote", "rent",
            "clock", "stake_history", "stake_config", "system_program",
            "stake_program"},
           {"stake_pool", "reserve_stake", "validator_list", "validator_stake"},
           {"staker"})

\* Mutant: the transient stake account is passed read-only.
IdlRemoveValidatorNoTransientMut ==
  Accounts({"stake_pool", "staker", "withdraw_authority", "validator_list",
            "validator_stake", "transient_stake", "clock", "stake_program"},
           {"stake_pool", "validator_list", "validator_stake"},
           {"staker"})

IdlRemoveValidatorFromPoolAccounts ==
  Accounts({"stake_pool", "staker", "withdraw_authority", "validator_list",
            "validator_stake", "transient_stake", "clock", "stake_program"},
           {"stake_pool", "validator_list", "validator_stake",
            "transient_stake"},
           {"staker"})

\* The validator and transient stake accounts of the batch are remaining
\* accounts, passed writable by the keeper.
IdlUpdateValidatorListBalanceAccounts ==
  Accounts({"stake_pool", "withdraw_authority", "validator_list",
            "reserve_stake", "clock", "stake_history", "stake_program",
            "validator_stake", "transient_stake"},
           {"stake_pool", "validator_list", "reserve_stake",
            "validator_stake", "transient_stake"},
           {})

IdlSetManagerAccounts ==
  Accounts({"stake_pool", "manager", "new_manager", "new_manager_fee_account"},
           {"stake_pool"}, {"manager"})

IdlSetStakerAccounts ==
  Accounts({"stake_pool", "manager", "new_staker"}, {"stake_pool"}, {"manager"})

IdlSetFeeAccounts ==
  Accounts({"stake_pool", "manager", "clock"}, {"stake_pool"}, {"manager"})

\* The instructions of the program module, each with its accounts struct
\* and its argument names.
IdlInstructions ==
  [initialize |->
     [accounts |-> IdlInitializeAccounts,
      args |-> <<"fee", "withdrawal_fee", "deposit_fee", "referral_fee",
                 "max_validators">>],
   deposit_sol |-> [accounts |-> IdlDepositSolAccounts, args |-> <<"lamports">>],
   deposit_wsol |-> [accounts |-> IdlDepositWsolAccounts, args |-> <<"lamports">>],
   withdraw_sol |-> [accounts |-> IdlWithdrawSolAccounts,
                     args |-> <<"pool_tokens">>],
   deposit_stake |-> [accounts |-> IdlDepositStakeAccounts, args |-> << >>],
   withdraw_stake |-> [accounts |-> IdlWithdrawStakeAccounts,
                       args |-> <<"pool_tokens">>],
   add_validator_to_pool |-> [accounts |-> IdlAddValidatorToPoolAccounts,
                              args |-> <<"seed">>],
   remove_validator_from_pool |->
     [accounts |-> IdlRemoveValidatorFromPoolAccounts, args |-> << >>],
   update_validator_list_balance |->
     [accounts |-> IdlUpdateValidatorListBalanceAccounts,
      args |-> <<"start_index", "no_merge">>],
   set_manager |-> [accounts |-> IdlSetManagerAccounts, args |-> << >>],
   set_staker |-> [accounts |-> IdlSetStakerAccounts, args |-> << >>],
   set_fee |-> [accounts |-> IdlSetFeeAccounts, args |-> <<"fee_type", "fee">>]]

\* AccountType: the first byte of a program account, the variant index.
IdlAccountType == <<"Uninitialized", "StakePool", "ValidatorList">>

====
