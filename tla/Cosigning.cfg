SPECIFICATION FairSpec
CONSTANTS
  single = single
  batch = batch
  xlm = xlm
  usd = usd
  shop = shop
  other = other
  market = market
  NoAddress = NoAddress
  NoPolicy = NoPolicy
  Request = {single, batch}
  BatchRequest = {batch}
  TransactionsOf <- MCTransactionsOf
  Transaction <- MCTransaction
  Operation <- MCOperation
  Rule <- MCRule
  RuleList <- MCRuleList
  DefaultAllows = TRUE
  LastTime = 2
  MaxVersion = 2
  MaxTrouble = 2
INVARIANTS
  ReturnedIsRecorded
  DryRunAgrees
  DrainedBeforeExit
PROPERTIES
  VelocityHolds
  ShutdownDrains
CHECK_DEADLOCK FALSE
