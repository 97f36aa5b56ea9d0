\* Two utterances, and a child replaced in the middle.
SPECIFICATION FairSpec
CONSTANTS
  SegmentQueueMax = 2
  PartialMaxDepth = 0
  MaxSegments = 2
  MaxChildren = 2
INVARIANT TranscriptsInOrder
PROPERTIES FinalsAnswered
\* the utterances end, and stop() may have ended everything
CHECK_DEADLOCK FALSE
