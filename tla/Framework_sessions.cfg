SPECIFICATION FairSpecOneOrder
CONSTANTS
  Node = {n1, n2, n3}
  Plans <- SessionPlans
  Fields <- OneFieldEach
INVARIANTS TypeOK TestedAsConfigured AnalyzerNeverPanics
PROPERTIES RoundsDoNotOverlap EveryRoundTested
CHECK_DEADLOCK FALSE
