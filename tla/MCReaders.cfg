SPECIFICATION MCSpec
CONSTANTS
  MaxTime = 3
  MaxEvents = 3
  MaxReplays = 1
  Messages <- MCMessages
  Queries <- MCQueries
  Days <- MCDays
  PerPage = 1
  MaxVersion = 2
  MaxLoads = 3
  MaxFails = 1
  MaxDrops = 1
  MessageIds <- MCMessageIds
  ThreadIds <- MCThreadIds
  Instant <- MCInstant
  TimelineFilters <- MCFilters
  PageLimit = 1
  MaxVersions = 2
  MaxWrites = 1
  MaxPages = 3
  MaxSince = 1
  MaxTimelineFaults = 1
  Guilds = {g1}
  Timeline = timeline
  Runs = {r1, r2}
  Saves = {s1, s2}
  MaxBreaks = 1
  MaxMeddles = 1
  Servers = {1, 2}
  Categories = {k1}
  Rooms = {x1, x2}
  Threads = {t1}
  Nil = Nil
  FoldedNames = {1, 2}
  OwnMessages = {m1, m2}
  OtherMessages = {o1}
  MaxConnects = 3
  MaxWritten = 3
INVARIANTS Converged PanelTrue TimelineTrue SidebarTrue TreeTrue StreamTrue
PROPERTY NeverBack
CHECK_DEADLOCK FALSE
