\* Two utterances with partials, two faults; one interval may go without CPU.
SPECIFICATION FairSpec
CONSTANTS
  StallTimeout = 2
  MaxStarved = 1
  PartialMaxDepth = 0
  MaxSegments = 2
  MaxLines = 2
  MaxFaults = 2
INVARIANT OwnAnswerOnly
PROPERTIES BusyChildKept FinalsServed
\* the utterances end
CHECK_DEADLOCK FALSE
