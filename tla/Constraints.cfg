SPECIFICATION Spec
CONSTANTS
  Keys <- GroupRows
  TimeOf <- GroupTimes
  MaxVersion = 1
  LastPeriod = 3
  Processes = {p, q}
  MaxFailures = 2
INVARIANTS TypeOK HighWaterMarkIsComplete
PROPERTIES DownloadedOnce RowsArriveUnlessInterrupted
