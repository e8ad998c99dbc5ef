SPECIFICATION Spec
CONSTANTS
  Pids <- MCPids
  Texts <- MCTexts
  Match <- MCMatch
  AiMatch <- MCAiMatch
  Starts <- Screens
  Lists <- MCLists
  Heights <- MCHeights
INVARIANTS
  ScreenConsistent
  OverviewClicksHit
PROPERTIES
  TargetHolds
  SearchFindsNext
