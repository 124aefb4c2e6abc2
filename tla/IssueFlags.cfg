SPECIFICATION MCSpec
CONSTANTS
  NoScore = NoScore
  NoTraces = "0:none"
  Session = {s1, s2}
  Day <- Days
  Content <- Contents
  Verdicts <- GoodAndBad
  Worker = {w1, w2}
  Chunk = 1
  MaxListed = 1
  MaxJobs = 2
SYMMETRY SymmetricPairs
INVARIANTS
  IssueTypeOK
  UndisturbedWriterAligns
  FlagHasReason
  MenusAgree
  ListShowsThereIsMore
CHECK_DEADLOCK FALSE
