SPECIFICATION SlowTaskSpec
CONSTANTS
  Leader = L
  Node = {L, r1, r2, r3}
  ClientRequest = {A, B}
  GeneratedRequest = {}
  FaultTolerance = 1
  NoRequest = NoRequest
  NoNode = NoNode
  Slow = r3
PROPERTY NextProposal
CHECK_DEADLOCK FALSE
