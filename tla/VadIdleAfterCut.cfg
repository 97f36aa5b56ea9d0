\* The idle flush right after a hard cap.
SPECIFICATION FairSpec
CONSTANTS
  Channels = {tx}
  PrerollChunks = 1
  LimitsEnabled = TRUE
  MaxSegment = 3
  SoftCutEnabled = FALSE
  SoftCut = 3
  Lookahead = 1
  MinDip = 0
  Scores = {0}
  PartialInterval = 0
  PartialMin = 2
  IdleFlush = TRUE
  SegmentQueueMax = 2
  Gaps = {0}
  Jitter = 0
  MaxTimestamp = 5
PROPERTIES QuietChannelRearmed
\* the thread ends, and the packets with it
CHECK_DEADLOCK FALSE
