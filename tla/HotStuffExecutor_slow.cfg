CONSTANTS
  N = 4
  FaultTolerance = 1
  Controller = Controller
  Request = {1, 2}
  ChannelCapacity = 10
  NoBlock = NoBlock
  NoNode = NoNode
  MaxView = 3
  SlowNodes = {0, 1, 2, 3}
SPECIFICATION SlowSpec
INVARIANTS TypeOK DecisionLocked BuffersInStep OneTimer ForkNeedsStale
PROPERTIES ImplementsLadder
CHECK_DEADLOCK FALSE
