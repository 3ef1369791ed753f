SPECIFICATION Spec
CONSTANTS
  Keys <- SharedKeys
  KeysOf <- SharedKeysOf
  TimeOf <- SharedTimeOf
  NumWindows = 3
  Concurrency = 1
  HasWatermark = TRUE
  MaxVersion = 2
INVARIANTS ResultIsExact
PROPERTIES StoredNeverRegresses
CHECK_DEADLOCK FALSE
