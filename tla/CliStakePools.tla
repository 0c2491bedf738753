--------------------------- MODULE CliStakePools ---------------------------
(***************************************************************************)
(* The CLI's discovery of stake pools (get_stake_pools): one RPC call     *)
(* lists the program's accounts whose first byte matches a memcmp filter, *)
(* then each listed account is decoded as a StakePool and its validator   *)
(* list is fetched with a second RPC call (get_validator_list).  Between  *)
(* the two calls the chain may change: an account can be closed.          *)
(***************************************************************************)
EXTENDS Naturals, Sequences, IdlInterface

CONSTANTS
  Addresses,   \* accounts owned by the stake-pool program
  MaxChanges   \* bound: accounts closed while the CLI runs

\* What the CLI sees of an account: its first byte (the AccountType
\* variant), whether its base64 encoding decodes, whether its bytes
\* deserialize as the struct of that type, and the validator_list field of
\* a stake pool.
AccountData == [type: 0..2, base64Ok: BOOLEAN, decodes: BOOLEAN,
                list: Addresses]

VARIABLES
  chain,     \* the data of the program's accounts
  closed,    \* accounts closed since the CLI started
  snapshot,  \* the accounts the filtered listing returned, with their data
  pending,   \* listed accounts not yet processed
  returned,  \* addresses in the Ok vector
  reported,  \* addresses printed with "Invalid stake pool data"
  pc,        \* "Start", "Fetching" or "Done"
  changes    \* accounts closed so far

vars == <<chain, closed, snapshot, pending, returned, reported, pc, changes>>

\* The leading digits of the Base58 alphabet; a one-digit Base58 string
\* decodes to the single byte whose value is the digit's position.
Base58Digits == <<"1", "2", "3", "4">>

Base58Byte(str) == (CHOOSE i \in DOMAIN Base58Digits : Base58Digits[i] = str) - 1

\* Memcmp::new(0, Base58("2")): the first byte must equal the decoded byte.
FilterByte == Base58Byte("2")

\* get_validator_list succeeds when the account exists and deserializes as
\* a ValidatorList.
ValidatorListFetched(addr) ==
  addr \notin closed /\ chain[addr].type = 2 /\ chain[addr].decodes

Init ==
  /\ chain \in [Addresses -> AccountData]
  /\ closed = {}
  /\ snapshot = << >>
  /\ pending = {}
  /\ returned = {} /\ reported = {}
  /\ pc = "Start"
  /\ changes = 0

\* get_program_ui_accounts_with_config with the memcmp filter.
GetProgramAccounts ==
  LET matched == {a \in Addresses \ closed : chain[a].type = FilterByte}
  IN
  /\ pc = "Start"
  /\ snapshot' = [a \in matched |-> chain[a]]
  /\ pending' = matched
  /\ pc' = "Fetching"
  /\ UNCHANGED <<chain, closed, returned, reported, changes>>

\* The filter_map body for one listed account: an undecodable encoding is
\* skipped (`?`), an undecodable StakePool is reported, and a pool whose
\* validator list cannot be fetched is skipped (`.ok()`).
ProcessAccount(a) ==
  LET d == snapshot[a] IN
  /\ a \in pending
  /\ pending' = pending \ {a}
  /\ returned' = IF d.base64Ok /\ d.decodes /\ ValidatorListFetched(d.list)
                 THEN returned \cup {a} ELSE returned
  /\ reported' = IF d.base64Ok /\ ~d.decodes THEN reported \cup {a}
                 ELSE reported
  /\ UNCHANGED <<chain, closed, snapshot, pc, changes>>

Collect ==
  /\ pc = "Fetching" /\ pending = {}
  /\ pc' = "Done"
  /\ UNCHANGED <<chain, closed, snapshot, pending, returned, reported,
                 changes>>

\* Another transaction closes a program account.
CloseAccount(a) ==
  /\ pc # "Done"
  /\ changes < MaxChanges
  /\ a \notin closed
  /\ closed' = closed \cup {a}
  /\ changes' = changes + 1
  /\ UNCHANGED <<chain, snapshot, pending, returned, reported, pc>>

Finished == pc = "Done" /\ UNCHANGED vars

Next ==
  \/ GetProgramAccounts
  \/ \E a \in Addresses : ProcessAccount(a) \/ CloseAccount(a)
  \/ Collect
  \/ Finished

Spec == Init /\ [][Next]_vars

-----------------------------------------------------------------------------
(* Properties                                                              *)

\* The byte the filter compares with is the StakePool variant of the
\* AccountType enum.
StakePoolTypeByte ==
  (CHOOSE i \in DOMAIN IdlAccountType : IdlAccountType[i] = "StakePool") - 1

DroppedPoolsReported ==
  pc = "Done" => DOMAIN snapshot \subseteq returned \cup reported

====
