\* Two channels, a process that dies and a power that fails at any step.
SPECIFICATION Spec
CONSTANTS
  Channels = {rx, tx}
  PacketUnits = 2
  Threshold = 3
  QueueMax = 2
  MaxPackets = 2
  MaxBoots = 2
INVARIANTS RecordingInOrder StopFlushes
PROPERTIES OnlyPowerTears
\* the thread ends
CHECK_DEADLOCK FALSE
