SPECIFICATION MCSpec
CONSTANTS
  MaxSessions = 2
  MaxEvents = 3
  QueueSize = 2
  MaxMishaps = 2
  Pages = {p, q}
  Urls = {u, v}
  NoPage = none
  MaxVersion = 2
  MaxFails = 2
  MaxRuns = 3
  Lengths = {2, 3}
  DryRun = FALSE
  MaxPublish = 3
  MaxDown = 1
  Levels = {"a", "b"}
  name = "a"
  DbNames = {d, e}
  Lists = {x}
  NoList = nolist
  NoDb = nodb
  MaxLevels = 3
  MaxEntries = 2
INVARIANTS ResumePoint InOrder FilterTrue
PROPERTIES AppliedInOrder ListenerRecovers EmbedsAll FramesRead
CHECK_DEADLOCK FALSE
