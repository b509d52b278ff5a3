SPECIFICATION Spec
CONSTANTS
  Chunks = 2
  MaxInFlight = 1
  MaxSeq = 3
  MaxNet = 3
  Restarts = 1
  Delay = 2
  Tolerance = 1
  Slack = 2
  LiveInterval = 1
  AnnotatedInterval = 2
  MaxLatency = 1
  MaxLag = 2
  MaxWait = 3
  Requests = {q1, q2}
  Fields = {a, b}
  Apart = {b}
  DefaultsTrue = {a}
INVARIANTS
  TypeOK
  WholeFramesDelivered
  DelayBufferBounded
  QuietAgrees
PROPERTIES
  PiecesShownOnce
  StallLasts
  OwnBoxesShown
  SettledSurvives
CHECK_DEADLOCK FALSE
