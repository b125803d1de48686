SPECIFICATION MCSpec
CONSTANTS
  MaxConns = 3
  MaxConnects = 1
  f1 = f1
  f2 = f2
  f3 = f3
  Drops <- MCDrops
  Chunks <- MCChunks
  HttpMax = 1
  FileMax = 2
  MaxSecond = 1
  MaxCrashes = 1
  Wanted = w
  Longer = {l1, l2}
  Unlike = {u}
  None = None
  FileList = {f1, f2}
  MaxJoins = 2
INVARIANTS PeersApart ReportTrue SentTrue
PROPERTIES HandshakeEnds QueueEnds
CHECK_DEADLOCK FALSE
