SPECIFICATION FairSpec
CONSTANTS
  Accounts = {"a"}
  Contracts = {"a"}
  Broken = {}
  NoAcct = "none"
  Ops = {"promise_create", "promise_then", "promise_and", "promise_return", "FnCall", "promise_batch_then", "missing_method"}
  Deposits = {0}
  Attaches = {0}
  Receivers = {"a"}
  Amounts = {1}
  FailSets = {{}, {1}}
  Funds = 1
  MaxNodes = 3
  MaxActions = 2
  MaxTx = 1
INVARIANTS
  ExecuteOnce
  NoReentry
  ResultScoping
  AwaitComplete
  ReturnIsolation
PROPERTIES
  TxTerminates
  OrderSpec
CHECK_DEADLOCK FALSE
