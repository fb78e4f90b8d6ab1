SPECIFICATION Spec
CONSTANTS
  k1 = k1
  k2 = k2
  v1 = v1
  v2 = v2
  None = None
  Keys = {k1, k2}
  Vals = {v1, v2}
  BlindWrite = FALSE
  BlindRemove = FALSE
  TrapAfterTombstone = FALSE
  RpcFails = TRUE
  RpcGarbles = FALSE
  LibrarySave = FALSE
  Extends <- PrefixFree
INVARIANTS
  TypeOK
PROPERTIES
  OverlaySpec
