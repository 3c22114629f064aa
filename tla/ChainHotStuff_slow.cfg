CONSTANTS
  N = 4
  FaultTolerance = 1
  Starter = 1
  Request = {1, 2, 3, 4, 5, 6, 7, 8}
  NoQC = NoQC
  MaxView = 8
  HandOutViews = {1, 4, 7}
SPECIFICATION SlowSpec
INVARIANTS
  DecisionLocked
  VotesOnce
  OneCertificate
CHECK_DEADLOCK FALSE
