SPECIFICATION Spec
CONSTANTS
  NoScore = NoScore
  NoTraces = "0:none"
  Session = {s1, s2}
  Day <- Days
  Content <- Contents
  Verdicts <- GoodAndBad
  Worker = {w1, w2}
  Chunk = 1
  MaxListed = 1
  MaxJobs = 1
INVARIANTS
  VerdictsAreShown
CHECK_DEADLOCK FALSE
