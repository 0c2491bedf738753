\* deposit_sol against the accounts struct of the published interface.
CONSTANTS
  v1 = v1
  v2 = v2
  v3 = v3
  Validators <- MCValidators
  NoValidator = NoValidator
  MaxValidators = 2
  BatchSize = 1
  StakeMin = 1
  ReserveMin = 1
  Amounts = {1, 2}
  InitialReserve = 3
  InitialSupply = 3
  EpochFeeNum = 1
  EpochFeeDen = 2
  Corruptions = {}
  MaxLamports = 4
  MaxReward = 1
  MaxRestarts = 0

SPECIFICATION SpecTokens
SYMMETRY MCSymmetry

PROPERTY IdlDepositSolWritable
