\* Deposits and withdrawals after pool tokens were burnt outside the
\* program within the same epoch, measured against the mint's supply.
CONSTANTS
  v1 = v1
  v2 = v2
  Validators <- MCValidators
  NoValidator = NoValidator
  MaxValidators = 2
  BatchSize = 1
  StakeMin = 1
  ReserveMin = 1
  Amounts = {1, 2}
  InitialReserve = 3
  InitialSupply = 3
  EpochFeeNum = 1
  EpochFeeDen = 2
  Corruptions = {}
  MaxLamports = 5
  MaxReward = 1
  MaxRestarts = 0

SPECIFICATION SpecTokens
SYMMETRY MCSymmetry

PROPERTY HoldersNeverDiluted
