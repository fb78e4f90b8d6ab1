SPECIFICATION Spec
CONSTANTS
  MaxTxs = 3
  MaxBatches = 2
  Accounts = {a, b}
  Overlap = TRUE
  Reuse = FALSE
  Chains = FALSE
  Direct = FALSE
SYMMETRY AccountSymmetry
INVARIANTS
  JoinsDelivered
CHECK_DEADLOCK FALSE
