SPECIFICATION KeyboardSpec
CONSTANTS
  Sessions <- MCSessions
  SequenceGuard = 4
  PayloadGuard = 6
  Under <- MCUnder
  Refreshes <- MCRefreshes
  MaxQueued = 1
  MaxTyped = 3
INVARIANT OnlyKeysAct
CHECK_DEADLOCK FALSE
