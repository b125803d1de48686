SPECIFICATION PSpec
CONSTANTS
  c1 = c1
  c2 = c2
  i1 = i1
  i2 = i2
  Channels = {c1}
  Ids = {i1, i2}
  NoId = NoId
  Names <- MCNames
  Sensitive = {}
  Payload <- MCPayload
  Sizes = {0, 1, 2, 3}
  MaxFileBytes = 2
  MaxPaths = 2
  MaxFiles = 2
  Workloads <- MCWorkloads
  MaxAcks = 4
  MaxCrashes = 0
  DiskFaults = TRUE
INVARIANTS
  DeliveredIsFlushed
