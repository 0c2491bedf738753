\* Two program accounts of every type and decoding outcome, either may be
\* the other's validator list, and one of them may be closed while the CLI
\* runs.
CONSTANTS
  Addresses = {a1, a2}
  MaxChanges = 1

SPECIFICATION Spec

INVARIANT DroppedPoolsReported
