SPECIFICATION MCSpec
CONSTANTS
  j1 = j1
  p1 = p1
  Jobs = {j1, j2}
  NoJob = NoJob
  Kinds = {"import", "semantic", "topics", "retrieval"}
  Records = {r1, r2}
  MaxVersion = 1
  Policies = {p1, p2}
  MaxTopics = 2
  NoGen = NoGen
SYMMETRY Symmetry
INVARIANTS PublishedTrue AnswerCurrent
PROPERTIES StagedKept
