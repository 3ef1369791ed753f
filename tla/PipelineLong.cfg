SPECIFICATION Spec
CONSTANTS
  Keys <- LongKeys
  KeysOf <- LongKeysOf
  TimeOf <- LongTimeOf
  NumWindows = 5
  Concurrency = 3
  HasWatermark = FALSE
  MaxVersion = 1
INVARIANTS MemoryIsBounded NoOrphanFetch ResultIsExact
PROPERTIES Terminates
CHECK_DEADLOCK FALSE
