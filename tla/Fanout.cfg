\* A wait three items long, a writer that just keeps up.
SPECIFICATION FanoutFairSpec
CONSTANTS
  SourceMax = 2
  DstMax = 2
  DumpMax = 1
  Wait = 3
  Period = 1
  Lag = 1
  GetWait = 15
  WriteTime = 1
  MaxItems = 10
INVARIANT MainPathKept
PROPERTIES EveryItemThrough
\* everything may have come to its end, or stopped
CHECK_DEADLOCK FALSE
