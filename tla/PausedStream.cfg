SPECIFICATION Spec
CONSTANTS
  Address = {alice, bob, escrow, stream}
  User = {alice, bob}
  Spender = {}
  Issuer = {issuer}
  NoAdmin = NoAdmin
  Amount <- Units
  Expiration = {}
  I128Max = 2
  Recipient = {alice, bob}
  MaxTime = 2
  MaxFrozen = 0
  EscrowContract = escrow
  Deadline = {}
  MaxEscrows = 0
  StreamContract = stream
  Rate = {0, 1, 2}
  MaxStreams = 1
SYMMETRY Users
INVARIANT EarnedIsNotLost
CHECK_DEADLOCK FALSE
