SPECIFICATION SlowSpec
CONSTANTS
  Pids = {p1}
  Columns <- MCColumns
  FallbackColumns <- MCFallbackColumns
  Results <- MCResults
  SleepSteps = 2
  MaxRounds = 3
INVARIANT NotAvailableMeansSampled
