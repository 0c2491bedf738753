\* Safety of the registry and its accounting, with every cluster-restart
\* corruption the reconciliation has to tolerate.
CONSTANTS
  v1 = v1
  v2 = v2
  Validators <- MCValidators
  NoValidator = NoValidator
  MaxValidators = 2
  BatchSize = 1
  StakeMin = 1
  ReserveMin = 1
  Amounts = {1}
  InitialReserve = 3
  InitialSupply = 0
  EpochFeeNum = 1
  EpochFeeDen = 2
  Corruptions = {"Initialized", "Foreign", "Uninitialized"}
  MaxLamports = 4
  MaxReward = 1
  MaxRestarts = 1

SPECIFICATION Spec
SYMMETRY MCSymmetry

INVARIANT TypeOK
INVARIANT AccountingExact
INVARIANT NoOrphanedStake
INVARIANT PreferredNeverDangling
INVARIANT ReconcileIdempotent
