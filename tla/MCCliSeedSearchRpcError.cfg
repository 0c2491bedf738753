\* The seed search when get_account can also fail for an initialized
\* account (a timeout or an RPC node error): the Err(_) arm takes the seed
\* as unused.
CONSTANTS
  MaxAttempts = 3
  NumSeeds = 4
  NoSeed = NoSeed
  RpcFailures = TRUE

SPECIFICATION Spec

INVARIANT SeedSearchMatchesReference
