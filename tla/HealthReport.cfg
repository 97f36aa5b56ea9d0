\* The router crashes past its budget, a broker and a channel that come
\* and go, with metrics and without.
SPECIFICATION FairSpec
CONSTANTS
  Workers = {router}
  Router = router
  Channels = {rx}
  MaxRestarts = 1
PROPERTIES OutageShown OutageClears DeadRowShown ChannelsFollowed
