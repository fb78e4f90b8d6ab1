SPECIFICATION FairSpec
CONSTANTS
  MaxNum = 1
  MaxInt = 3
  Budget = 6
  Replies <- MCReplies
  Lambdas <- MCLambdas
  ArgLists <- MCArgLists
  MaxStackDepth = 2
  Kinds = {"PushI64", "PushNil", "LoadSlot", "LoadGlobal", "StoreSlot", "StoreAndLoadSlot", "Pop", "Not", "Bin", "Typed", "SlotImm", "Jump", "JumpIfTrue", "JumpIfFalse", "JumpIfSlot", "Recur", "RecurDirect", "RecurIncAccum", "BuiltinCall", "CallDynamic", "CallSelf", "Return", "ReturnSlot"}
  ShortLen = 2
  JoinKinds = {"LoadSlot", "JumpIfFalse", "Jump", "Return"}
  LongLen = 4
INVARIANTS
  NoUnderflow
  HeightsExact
  SlotsNeverGrow
  OnlyFallsOff
  LimitNeverHit
PROPERTIES
  Ends
CHECK_DEADLOCK FALSE
