SPECIFICATION TaskSpec
CONSTANTS
  MaxOutput = 8
  PipeCapacity = 2
  TermPolls = 2
  Texts <- MCTexts
INVARIANTS
  OutputComplete
  VerdictAccounted
  TableRead
  CutHarmless
PROPERTIES
  SignalsOwnChild
  ImplementsCall
