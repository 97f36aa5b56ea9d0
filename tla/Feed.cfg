\* Two channels that overtake each other, a page that reconnects, a backlog
\* that may outgrow a queue.
SPECIFICATION Spec
CONSTANTS
  rx = rx
  tx = tx
  Channels = {rx, tx}
  BacklogMax = 3
  SubscriberMax = 2
  Events <- FewEvents
  MaxConns = 2
INVARIANTS
  SettledWhenCaughtUp ChronologicalFeed DeliveredOnce
  BacklogReachesAll ChannelOrder
\* every utterance may have been published
CHECK_DEADLOCK FALSE
