SPECIFICATION SlowSpec
CONSTANTS
  Node = {n1, n2, n3, n4}
  Client = c
  Request = {A, B}
  FaultTolerance = 1
  NoRequest = NoRequest
  Slow = n4
  Late = n1
  First = n1
  Second = n2
  Timed = {n3, n4}
INVARIANT ViewchangeBroadcast
CHECK_DEADLOCK FALSE
