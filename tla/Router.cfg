\* Two channels through one router, with losses and a replaced router.
\* Frames in the deployed proportion (320 to 512) would need 8 packets to
\* empty the carry, these need 3.
SPECIFICATION Spec
CONSTANTS
  rx = rx
  tx = tx
  Channels = {rx, tx}
  IncomingUnits = 2
  OutgoingUnits = 3
  IngestMax = 1
  RoutedMax = 1
  Jitter = 1
  MaxPackets <- UnevenPackets
  MaxRestarts = 1
INVARIANTS AudioAccounted RoutedInOrder DriftHeals
\* the sources end
CHECK_DEADLOCK FALSE
