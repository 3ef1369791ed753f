SPECIFICATION Spec
CONSTANTS
  LastSlot = 5
  Chunk = 4
  Lookback = 1
  MaxLag = 0
  GapBackfills = TRUE
  MaxBackfills = 1
  MaxFailures = 0
PROPERTIES EverySlotArrives
