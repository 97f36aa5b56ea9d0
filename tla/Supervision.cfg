\* One worker, two restarts in the budget, replacements that may fail to build,
\* and a second boot.
SPECIFICATION FairSpec
CONSTANTS
  Order <- OneWorker
  Killable <- NoneKillable
  MaxRestarts = 2
  BuildMayFail = TRUE
  MaxInstances = 4
  MaxBoots = 2
INVARIANTS OneActiveInstance NothingSurvivesStop
PROPERTIES CrashHandled DegradedIsFinal
\* the process may be stopped for good
CHECK_DEADLOCK FALSE
