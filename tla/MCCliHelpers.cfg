\* Every combination of missing, zeroed and initialized accounts at four
\* seed addresses, searched with max_attempts = 3 so that the seed just
\* past the last attempt exists; and every simulation outcome, with u32
\* scaled to 2 bits and units up to one past its maximum.
CONSTANTS
  MaxAttempts = 3
  NumSeeds = 4
  NoSeed = NoSeed
  RpcFailures = FALSE
  UnitBits = 2
  MaxComputeUnitLimit = 3

SPECIFICATION HelpersSpec

INVARIANT SeedSearchMatchesReference
INVARIANT ComputeBudgetContract
