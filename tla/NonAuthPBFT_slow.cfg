SPECIFICATION SlowSpec
CONSTANTS
  Leader = L
  Node = {L, r1, r2, r3}
  Request = {A, B}
  FaultTolerance = 1
  NoRequest = NoRequest
  NoNode = NoNode
  Slow = r3
INVARIANTS TypeOK CompletionsCertified ReportedOnce OverCertified
CHECK_DEADLOCK FALSE
