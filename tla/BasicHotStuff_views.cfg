CONSTANTS
  N = 4
  FaultTolerance = 1
  Starter = 0
  ClientRequest = {r1}
  GeneratedRequest = {g1}
  NoBlock = NoBlock
  NoNode = NoNode
  MaxView = 3
  HandOutViews = {2}
SPECIFICATION BoundedSpec
INVARIANTS
  KeysInTime
  DecisionLocked
  ForkNeedsStarter
PROPERTIES
  NeverBack
  ImplementsLadder
CHECK_DEADLOCK FALSE
