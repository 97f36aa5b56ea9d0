\* The soft cut, both flushes, and timestamps up to a chunk late.
SPECIFICATION FairSpec
CONSTANTS
  Channels = {tx}
  PrerollChunks = 1
  LimitsEnabled = TRUE
  MaxSegment = 5
  SoftCutEnabled = TRUE
  SoftCut = 3
  Lookahead = 2
  MinDip = 0
  Scores = {0, 1}
  PartialInterval = 0
  PartialMin = 2
  IdleFlush = TRUE
  SegmentQueueMax = 2
  Gaps = {0}
  Jitter = 1
  MaxTimestamp = 6
INVARIANTS AudioInOrder SpeechKept TimelineOrdered
PROPERTIES EveryUtteranceEmitted
\* the thread ends, and the packets with it
CHECK_DEADLOCK FALSE
