SPECIFICATION Spec
CONSTANTS
  Sessions = {"tick", "backfill"}
  Keys = {1, 2}
  Values = {1, 2}
  TimeOf <- RecordHours
  MaxVersion <- RevisionsOf
  CopyMinRows = 3
  LastHour = 2
  Behind = 2
  Ahead = 1
  Lag = 1
  Chunk = 2
  MaxAttempts = 2
INVARIANTS TypeOK CopiesNeverDeadlock NothingLeftBehind
PROPERTIES CallsEnd NeverASecondTime ImplementsAtomicUpserts
