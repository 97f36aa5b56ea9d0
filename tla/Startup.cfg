\* Ticks of 3 s: TimeoutStartSec 90 s, WatchdogSec 10 s, 5 starts in 300 s,
\* process_start_timeout_s 120 s, models that load in 9 s.
SPECIFICATION FairSpec
CONSTANTS
  Null = Null
  Invalid = Invalid
  Channels <- RxTx
  StartTimeout = 30
  WatchdogSec = 3
  StartLimitInterval = 100
  StartLimitBurst = 5
  ProcessStart = 40
  LoadTime = 3
  RestartTime = 5
  Configurations <- Telling
  MaxFailures = 2
INVARIANT LayersMerged
PROPERTIES LoopBreaks RestartsKeepPings FailureHealed
\* `failed` is the end
CHECK_DEADLOCK FALSE
