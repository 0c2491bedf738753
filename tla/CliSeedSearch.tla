--------------------------- MODULE CliSeedSearch ---------------------------
(***************************************************************************)
(* The CLI's search for an unused ephemeral stake seed                     *)
(* (find_unused_ephemeral_stake_seed): seeds 0, 1, ... are tried in turn, *)
(* one RPC get_account per seed, until an account is missing or holds only *)
(* zero bytes; after max_attempts seeds the search fails.  The account at *)
(* each seed's address is chosen among every combination, and the loop is *)
(* checked against a declarative definition of the seed it must return.  *)
(***************************************************************************)
EXTENDS Naturals, FiniteSetsExt

CONSTANTS
  MaxAttempts,  \* max_attempts
  NumSeeds,     \* seeds whose accounts are modelled: 0 .. NumSeeds - 1
  NoSeed,       \* the Err result
  RpcFailures   \* whether get_account may fail for an existing account

ASSUME MaxAttempts \in Nat /\ NumSeeds \in Nat /\ MaxAttempts < NumSeeds
ASSUME RpcFailures \in BOOLEAN

\* What get_account finds at a seed's address: no account (an RPC error),
\* an account whose data are all zero, an initialized account, or (when
\* RPC failures are modelled) an initialized account whose fetch fails.
AccountStates ==
  {"Missing", "Zeroed", "Initialized"}
    \cup (IF RpcFailures THEN {"Unreachable"} ELSE {})

Seeds == 0..(NumSeeds - 1)

VARIABLES
  ephemeral,  \* the account at each seed's address
  seed,       \* the loop variable
  pc,         \* "Search", "Found" or "Error"
  result      \* the Ok seed, or NoSeed

vars == <<ephemeral, seed, pc, result>>

\* Mutant: the range 0..max_attempts includes max_attempts.
SeedInRangeInclusive(s) == s <= MaxAttempts

\* The loop runs over 0..max_attempts, which excludes max_attempts.
SeedInRange(s) == s < MaxAttempts

\* get_account returns Err: the account does not exist, or the call failed.
GetAccountFails(acct) == acct \in {"Missing", "Unreachable"}

\* Mutant: an existing account is taken to be in use even if all zero.
IsUnusedMissingOnly(acct) == GetAccountFails(acct)

\* A seed may be used when get_account fails (Err(_)) or the data are all
\* zero.
IsUnused(acct) == GetAccountFails(acct) \/ acct = "Zeroed"

Init ==
  /\ ephemeral \in [Seeds -> AccountStates]
  /\ seed = 0
  /\ pc = "Search"
  /\ result = NoSeed

\* One iteration: fetch the account at seed and return it if unused, else
\* go on to the next seed; past the last attempt, return the error.
Probe ==
  /\ pc = "Search"
  /\ IF SeedInRange(seed)
       THEN IF IsUnused(ephemeral[seed])
              THEN pc' = "Found" /\ result' = seed /\ UNCHANGED seed
              ELSE seed' = seed + 1 /\ UNCHANGED <<pc, result>>
       ELSE pc' = "Error" /\ UNCHANGED <<seed, result>>
  /\ UNCHANGED ephemeral

\* The function has returned.
Returned == pc \in {"Found", "Error"} /\ UNCHANGED vars

Next == Probe \/ Returned

Spec == Init /\ [][Next]_vars

-----------------------------------------------------------------------------
(* Properties                                                              *)

\* The seed the loop returns is the least of the first max_attempts seeds
\* whose account does not exist or is all zero, and it fails exactly when
\* every one of them is an initialized account.
ReferenceSeed ==
  LET free == {s \in 0..(MaxAttempts - 1) : ephemeral[s] \in {"Missing", "Zeroed"}}
  IN IF free = {} THEN NoSeed ELSE Min(free)

SeedSearchMatchesReference ==
  pc # "Search" => result = ReferenceSeed /\ (pc = "Error") = (result = NoSeed)

====
