CONSTANTS
  Producers = {p1, p2}
  Hosts = {h1}
  NoHost = NoHost
  QueueSize = 2
SPECIFICATION FairSpec
INVARIANT CountMatchesQueue
PROPERTY ImplementsBoundedQueue
PROPERTY QueueDrains
PROPERTY Registers
PROPERTY MediaFollows
PROPERTY AlarmsReported
CHECK_DEADLOCK FALSE
