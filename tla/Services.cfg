SPECIFICATION ServicesSpec
CONSTANTS
  Caller = {c1, c2, c3}
  SeqRetries = 1
  MaxSequence = 3
  Challenge = {ch1, ch2}
  Presentation = {p1, p2}
  ChallengeTtl = 2
  LastTick = 7
  Wallet = {i1, i2}
  Stored = {h1, h2}
  NotStored = NotStored
  Persist = {k1, k2}
  Hook = {h1, h2}
  Call = {k1, k2}
  MaxAttempts = 2
  MaxLog = 2
  LastDelivery = 1
  Address = {a1, a2}
  Refresh = {r1, r2}
  MaxStreams = 4
  Subscription = {k1, k2}
  Live = Live
  LastEvent = 3
  LastVisit = 3
  Ip = {ip}
  Payer = {y}
  NoPayer = NoPayer
  IpCapacity = 2
  IpRate = 1
  PayerCapacity = 1
  PayerRate = 1
  OneSecond = 2
  LastMoment = 3
  Poll = {k1, k2}
  MinBalance = 1
  TargetBalance = 2
  Cooldown = 2
  LastPoll = 3
  Replica = {h1, h2}
  MaxExcess = 1
  RecoveryId = {i1, i2}
  Request = {k1, k2}
  Handle = {h1, h2}
  NoRecovery = NoRecovery
  NoTimer = NoTimer
  Item = {i1, i2}
  Fetch = {k1, k2}
  Timeout = {h1, h2}
  NoItem = NoItem
SYMMETRY Alike
INVARIANTS
  OneReservationPerSequence
  ChallengeOnce
  
  DeliveryLogWhole
  OneStreamPerWallet
  EventsContiguous
  ReconnectPending
  Throttled
  RefilledOnce
  HooksWatch
CHECK_DEADLOCK FALSE
