SPECIFICATION CSpec
CONSTANTS
  MaxNum = 3
  MaxInt = 7
  Budget = 60
  Replies <- MCReplies
  Lambdas = {}
  ArgLists <- MCArgLists
  MaxStackDepth = 8
  Programs <- MCPrograms
  Callee <- MCCallee
  Fuel = 5
INVARIANTS
  CompiledAccepted
  ResultMatches
  NeverFallsOff
CHECK_DEADLOCK FALSE
