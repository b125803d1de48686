SPECIFICATION MCSpec
CONSTANTS
  a = a
  b = b
  Channels = {a, b}
  Initial = {a}
  Events = {e1, e2}
  Handlers = {h1, h2}
  None = none
  MaxWrites = 2
  MaxEdits = 1
  MaxFaults = 1
  MaxSweeps = 2
  text1 = text1
  text2 = text2
  thread1 = thread1
  TextChannels = {text1}
  Forums = {text2}
  ThreadRooms = {thread1}
  MissingModel = missing
  BrokenModel = broken
  Models <- MCModels
  Writes = {w1}
  MaxChanges = 1
  MaxFailures = 1
SYMMETRY Symmetry
INVARIANTS DecisionCurrent SavesWake WritesTrue
PROPERTIES OneRowAtATime
CHECK_DEADLOCK FALSE
