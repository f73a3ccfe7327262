SPECIFICATION FairSpec
CONSTANTS
  HalfRaw = 2
  HalfCarry = 32
  NarrowRaw = TRUE
  Values <- ExtremeValues
  Counts <- EdgeCounts
  Drainers = {d1, d2}
  MaxUpdates = 2
INVARIANTS ClaimExclusive ViewExact
PROPERTIES ImplementsAccumulator DrainedForward ResetReturns
CHECK_DEADLOCK FALSE
