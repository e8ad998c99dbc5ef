SPECIFICATION HostSpec
CONSTANTS
  StreamSets <- AllStreams
  Interfaces = {i1, i2}
  Width = 3
  Word = 1000
  MaxMoved = 4
  HistoryLimit = 2
  None = None
  Pids = {1, 2}
  MaxTime = 3
  NoProcess = NoProcess
  CoreCount = 2
  Counts = {1, 3}
  ClusterOf <- TwoClusters
  TickWidth = 3
  MaxTicks = 4
  MaxRounds = 2
  NoInfo = NoInfo
INVARIANTS
  ExactRate
  RateBounded
  ShareExact
  ShareNotOverstated
  CoreFigures
  ClustersTrailPower
