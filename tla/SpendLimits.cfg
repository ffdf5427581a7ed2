SPECIFICATION Spec
CONSTANTS
  single = single
  batch = batch
  xlm = xlm
  usd = usd
  shop = shop
  other = other
  market = market
  NoAddress = NoAddress
  NoPolicy = NoPolicy
  Request = {batch}
  BatchRequest = {batch}
  TransactionsOf <- MCTransactionsOf
  Transaction <- MCTransaction
  Operation <- MCOperation
  Rule <- MCRule
  RuleList <- Priced
  DefaultAllows = TRUE
  LastTime = 1
  MaxVersion = 2
  MaxTrouble = 1
INVARIANTS
  DryRunForetells
CHECK_DEADLOCK FALSE
