SPECIFICATION MCSpec
CONSTANTS
  c1 = c1
  c2 = c2
  i1 = i1
  i2 = i2
  plain = plain
  secret = secret
  byte = byte
  Channels = {c1, c2}
  Ids = {i1, i2}
  NoId = NoId
  Names <- MCNames
  Sensitive = {secret}
  Payload = {byte}
  Sizes <- MCSizes
  MaxFileBytes = 1
  MaxPaths = 2
  MaxAcks = 2
  MaxCrashes = 1
  DiskFaults = TRUE
  TokenTtl = 2
  CacheTtl = 1
  RetryTtl = 1
  LookupTtl = 1
  RenewLead = 1
  MaxNow = 3
  MaxAttempts = 3
  MaxChanges = 1
  Bots = {b1, b2}
  New = New
  Blank = Blank
  MaxRequests = 3
  MaxStops = 1
SYMMETRY Symmetry
INVARIANTS ClaimsTrue PublishedWhole SessionTrue CredentialsTrue
PROPERTY GrantFresh
CHECK_DEADLOCK FALSE
