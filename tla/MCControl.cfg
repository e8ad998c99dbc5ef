SPECIFICATION ControlSpec
CONSTANTS
  Instances = {t1, t2}
  Files <- MCFiles
  Bad = Bad
  MaxLaunches = 3
  Sessions <- MCSessions
  SequenceGuard = 4
  PayloadGuard = 6
  Under <- MCUnder
  Refreshes <- MCRefreshes
  MaxQueued = 1
  MaxTyped = 3
  Samples <- MCSamples
SYMMETRY Terminals
INVARIANTS
  SettingsSurvive
  ChoiceIsLoaded
  RowsSorted
  TreeDrawn
  ActsAccounted
PROPERTIES
  CollapsesDrawnNodes
  KeysDecoded
  BytesAccounted
