\* The deployed configuration scaled down: hard cap only, partials on.
SPECIFICATION Spec
CONSTANTS
  Channels = {tx}
  PrerollChunks = 1
  LimitsEnabled = TRUE
  MaxSegment = 5
  SoftCutEnabled = FALSE
  SoftCut = 3
  Lookahead = 1
  MinDip = 0
  Scores = {0}
  PartialInterval = 2
  PartialMin = 2
  IdleFlush = TRUE
  SegmentQueueMax = 2
  Gaps = {0, 1}
  Jitter = 0
  MaxTimestamp = 7
INVARIANTS
  DetectorInSync NothingAfterFinal PartialIsPrefix SegmentsWithinLimits
PROPERTY ImplementsStream
\* the thread ends, and the packets with it
CHECK_DEADLOCK FALSE
