SPECIFICATION Spec
CONSTANTS
  Keys <- SharedKeys
  KeysOf <- SharedKeysOf
  TimeOf <- SharedTimeOf
  NumWindows = 3
  Concurrency = 2
  HasWatermark = TRUE
  MaxVersion = 2
INVARIANTS TypeOK LaterWindowWins ResumeIsSafe
PROPERTIES WatermarkAdvances ImplementsSerialIngest
CHECK_DEADLOCK FALSE
