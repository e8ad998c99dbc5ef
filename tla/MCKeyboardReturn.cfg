SPECIFICATION KeyboardSpec
CONSTANTS
  Sessions <- MCSessions
  SequenceGuard = 4
  PayloadGuard = 6
  Under <- MCUnder
  Refreshes <- MCRefreshes
  MaxQueued = 1
  MaxTyped = 3
PROPERTY ReturnCloses
CHECK_DEADLOCK FALSE
