\* Removal of a validator whose stake account a cluster restart left uninitialized.
CONSTANTS
  v1 = v1
  v2 = v2
  Validators <- MCValidators
  NoValidator = NoValidator
  MaxValidators = 2
  BatchSize = 1
  StakeMin = 1
  ReserveMin = 1
  Amounts = {1}
  InitialReserve = 3
  InitialSupply = 0
  EpochFeeNum = 1
  EpochFeeDen = 2
  Corruptions = {"Uninitialized"}
  MaxLamports = 3
  MaxReward = 1
  MaxRestarts = 1

SPECIFICATION FairSpec
PROPERTY RemovedValidatorEventuallyDeleted
