SPECIFICATION Spec
CONSTANTS
  Accounts = {"a", "b"}
  Contracts = {"a", "b"}
  Broken = {}
  NoAcct = "none"
  Ops = {"promise_create"}
  Deposits = {0, 1}
  Attaches = {0}
  Receivers = {"b"}
  Amounts = {1}
  FailSets = {{}}
  Funds = 1
  MaxNodes = 1
  MaxActions = 1
  MaxTx = 1
INVARIANTS
  Conservation
CHECK_DEADLOCK FALSE
