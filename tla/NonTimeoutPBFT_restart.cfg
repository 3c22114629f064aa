SPECIFICATION OrderedSpec
CONSTANTS
  Leader = L
  Node = {L, r1, r2, r3}
  ClientRequest = {}
  GeneratedRequest = {A, B}
  FaultTolerance = 1
  NoRequest = NoRequest
  NoNode = NoNode
  MaxSession = 2
PROPERTY LastRoundCloses
CHECK_DEADLOCK FALSE
