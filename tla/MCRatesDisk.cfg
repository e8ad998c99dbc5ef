SPECIFICATION Spec
CONSTANTS
  StreamSets <- DiskOnly
  Interfaces = {i1, i2}
  Width = 3
  Word = 1000
  MaxMoved = 4
  HistoryLimit = 2
  None = None
INVARIANT DiskCountsSinceLastRead
