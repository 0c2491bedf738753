\* Deposits and withdrawals interleaved with the registry, the epoch
\* update and rewards; no cluster restarts.
CONSTANTS
  v1 = v1
  v2 = v2
  Validators <- MCValidators
  NoValidator = NoValidator
  MaxValidators = 2
  BatchSize = 1
  StakeMin = 1
  ReserveMin = 1
  Amounts = {1, 2}
  InitialReserve = 2
  InitialSupply = 2
  EpochFeeNum = 2
  EpochFeeDen = 3
  Corruptions = {}
  MaxLamports = 5
  MaxReward = 3
  MaxRestarts = 0

SPECIFICATION SpecTokens
SYMMETRY MCSymmetry

INVARIANT AccountingExact
INVARIANT TransientHasDestination
INVARIANT ReserveKeepsMinimum
PROPERTY ShareValueNeverDrops EpochFeeWithinRate
