SPECIFICATION FairSpec
CONSTANTS
  alice = alice
  bob = bob
  k1 = k1
  k2 = k2
  Accounts = {alice, bob}
  Keys = {k1, k2}
  Txs <- MCTxs
  Grant = 2
  MaxSends = 3
  MaxCrashes = 1
  TornWrites = FALSE
INVARIANTS
  TypeOK
  ReplayRefused
  AnsweredDurable
  FeedComplete
PROPERTIES
  EventSeen
CHECK_DEADLOCK FALSE
