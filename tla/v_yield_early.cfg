SPECIFICATION Spec
CONSTANTS
  MaxTxs = 2
  MaxBatches = 2
  Accounts = {a, b}
  Overlap = FALSE
  Reuse = FALSE
  Chains = TRUE
  Direct = TRUE
SYMMETRY AccountSymmetry
INVARIANTS
  JoinWaits
CHECK_DEADLOCK FALSE
