SPECIFICATION Spec
CONSTANTS
  Accounts = {"a", "b", "u"}
  Contracts = {"a", "b"}
  Broken = {"b"}
  NoAcct = "none"
  Ops = {"promise_batch_create", "storage_write", "FnCall", "Transfer", "Stake", "AddKey", "DeleteKey", "DeleteAccount"}
  Deposits = {0, 1}
  Attaches = {1}
  Receivers = {"a", "b", "u"}
  Amounts = {2}
  FailSets = {{}}
  Funds = 1
  MaxNodes = 2
  MaxActions = 2
  MaxTx = 1
INVARIANTS
  TypeOK
  PlainConserves
  BystandersUntouched
CHECK_DEADLOCK FALSE
