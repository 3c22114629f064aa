SPECIFICATION SlowReplicaSpec
CONSTANTS
  Leader = L
  Node = {L, r1, r2, r3}
  ClientRequest = {B}
  GeneratedRequest = {A}
  FaultTolerance = 1
  NoRequest = NoRequest
  NoNode = NoNode
  Slow = r3
INVARIANTS
  TypeOK
  CommitCertificate
  ExecuteOnce
  OverCertified
PROPERTIES
  EvictedOnlyByExecution
  KeysExchanged
CHECK_DEADLOCK FALSE
