\* The instructions of StakePoolTokens against the abstract pool they
\* implement, with three vote addresses for a list of two slots so that an
\* add to a full list is attempted; and the instructions the interface
\* declares, except deposit_sol (checked on its own), against the accounts
\* their structs pass writable.
CONSTANTS
  v1 = v1
  v2 = v2
  v3 = v3
  Validators <- MCValidators
  NoValidator = NoValidator
  MaxValidators = 2
  BatchSize = 1
  StakeMin = 1
  ReserveMin = 1
  Amounts = {1, 2}
  InitialReserve = 3
  InitialSupply = 3
  EpochFeeNum = 1
  EpochFeeDen = 2
  Corruptions = {}
  MaxLamports = 4
  MaxReward = 1
  MaxRestarts = 0

SPECIFICATION SpecTokens
SYMMETRY MCSymmetry

PROPERTY PoolRefinement IdlWritableRespected
