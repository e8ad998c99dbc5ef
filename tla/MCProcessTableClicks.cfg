SPECIFICATION Spec
CONSTANTS
  Pids <- MCPids
  Texts <- MCTexts
  Match <- MCMatch
  AiMatch <- MCAiMatch
  Starts <- GpuActive
  Lists <- MCLists
  Heights <- MCHeights
INVARIANT ClicksHit
