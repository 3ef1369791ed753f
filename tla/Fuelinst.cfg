SPECIFICATION Spec
CONSTANTS
  LastSlot = 4
  Chunk = 2
  Lookback = 1
  MaxLag = 2
  GapBackfills = FALSE
  MaxBackfills = 1
  MaxFailures = 1
INVARIANTS TypeOK NothingBelowWatermarkMissing
PROPERTIES EverySlotArrivesUnlessExposed
