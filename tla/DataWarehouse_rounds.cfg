SPECIFICATION Spec
CONSTANTS
  Peer = {p1, p2}
  Request = {q1}
  Time = {1, 3}
  Word = 8
  LatencyCap = 4
  Internal = 500
  PageSize = 1
  MaxEnds = 2
  MaxSession = 2
  MaxRound = 2
SYMMETRY Symmetry
ACTION_CONSTRAINT Bounded
INVARIANTS CountsWhatWasReported LatencyIsCounted SecurityReportsOnce PrintsEveryRow
PROPERTIES LatencyIsReal CompletedIsComputed
CHECK_DEADLOCK FALSE
