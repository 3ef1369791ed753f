SPECIFICATION Spec
CONSTANTS
  Keys <- SharedKeys
  KeysOf <- SharedKeysOf
  TimeOf <- SharedTimeOf
  NumWindows = 3
  Concurrency = 2
  HasWatermark = TRUE
  MaxVersion = 2
PROPERTIES StoredNeverRegresses
CHECK_DEADLOCK FALSE
