SPECIFICATION MCSpec
CONSTANTS
  a = a
  b = b
  Channels = {a, b}
  NoChannel = none
  PageSize = 2
  MaxPosted = 3
  MaxRequests = 2
  MaxFaults = 1
  MaxCrashes = 1
INVARIANTS WatermarkCovered
PROPERTIES SweptTrue ChannelsServed
CHECK_DEADLOCK FALSE
