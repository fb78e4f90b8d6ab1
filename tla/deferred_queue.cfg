SPECIFICATION DSpec
CONSTANTS
  Accounts = {"a"}
  Contracts = {"a"}
  Broken = {}
  NoAcct = "none"
  Ops = {"promise_create", "promise_then", "promise_batch_then", "promise_return", "storage_write", "start", "missing_method"}
  Deposits = {0}
  Attaches = {1}
  Receivers = {"a"}
  Amounts = {1}
  FailSets = {{}, {1}}
  Funds = 1
  MaxNodes = 2
  MaxActions = 1
  MaxTx = 3
  MaxDeferred = 2
INVARIANTS
  DTypeOK
  NothingLost
  DrainComplete
PROPERTIES
  EntryTrapRollsBack
  SettleComplete
CHECK_DEADLOCK FALSE
