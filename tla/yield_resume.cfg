SPECIFICATION Spec
CONSTANTS
  MaxTxs = 3
  MaxBatches = 3
  Accounts = {a, b}
  Overlap = FALSE
  Reuse = FALSE
  Chains = FALSE
  Direct = FALSE
SYMMETRY AccountSymmetry
INVARIANTS
  JoinWaits
  FiresOnce
  JoinsDelivered
  MarkersExact
CHECK_DEADLOCK FALSE
