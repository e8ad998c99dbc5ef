SPECIFICATION OutputsSpec
CONSTANTS
  Counts <- MCCounts
  MaxSamples = 4
  None = None
  MiB = 1
  Samples <- MCSamples
  Labels <- MCLabels
  Filters <- MCFilters
  HistorySize = 3
  NoSample = NoSample
INVARIANTS
  OutputWellFormed
  SignalsEndWell
  LineIsJson
  WorkloadsCover
  WorkloadsGrouped
  JsonNeverMilder
  FilterIsHarmless
  RiskSettles
PROPERTIES
  Terminates
  NoUnearnedRelief
