SPECIFICATION Spec
CONSTANTS
  Address = {alice, bob, escrow, stream}
  User = {alice, bob}
  Spender = {dex}
  Issuer = {issuer}
  NoAdmin = NoAdmin
  Amount <- Units
  Expiration = {0}
  I128Max = 2
  Recipient = {alice, bob}
  MaxTime = 2
  MaxFrozen = 1
  EscrowContract = escrow
  Deadline = {1}
  MaxEscrows = 2
  StreamContract = stream
  Rate = {0, 1, 2}
  MaxStreams = 2
CONSTRAINT OneVault
SYMMETRY Users
INVARIANTS
  SupplyIsBalances
  Solvent
  NeverOverAccrues
PROPERTIES
  FrozenKeepsFunds
  EscrowKeepsCustody
  StreamKeepsCustody
CHECK_DEADLOCK FALSE
