SPECIFICATION Spec
CONSTANTS
  Lengths = {2}
  DryRun = TRUE
  MaxPublish = 2
  MaxDown = 0
INVARIANTS CompleteDrained
CHECK_DEADLOCK FALSE
