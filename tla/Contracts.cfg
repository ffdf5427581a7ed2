SPECIFICATION ContractsSpec
CONSTANTS
  a = a
  b = b
  c = c
  U64Max = 5
  LastNow = 3
  Guardian = {a, b, c}
  GuardianList <- Lists
  Key = {k1, k2}
  Timelock = {0, 1, 5}
  NoConfig = NoConfig
  NoProposal = NoProposal
  Admin = {a, b}
  Signer = {a, b, c}
  SignerList <- Lists
  UpgradeDelay = {0, 1, 5}
  WasmHash = {h1, h2}
  NoValue = NoValue
  MaxUpgrades = 2
  Heir = {a, b}
  Dormancy = {0, 1, 2}
  Nobody = NoValue
  MaxInUse = 1
  Window = 2
  MaxEntries = 2
  DailyLimit <- Limits
  Spending <- PlusMinus
  NoLimit = NoValue
  Owner = {a, b}
  SessionKey = {k1}
  SessionCall = {pay}
  ValidUntil = {1}
  Quota = {1, 3}
  CallAmount <- MinusTwo
  I128Max = 3
  MaxCharged = 4
  NoOwner = NoValue
  NoSession = NoValue
  Sponsor = {a, b}
  Sponsored = {c}
  EpochLength = {0, 2}
  Fee <- PlusMinus
  MaxHeld = 2
INVARIANTS
  SessionOfItsOwner
  DepositsCovered
PROPERTIES
  RecoveryIsQuorum
  UpgradeIsQuorum
  WindowNotOverspent
CHECK_DEADLOCK FALSE
