SPECIFICATION Spec
CONSTANTS
  Keys <- GroupRows
  TimeOf <- GroupTimes
  MaxVersion = 1
  LastPeriod = 3
  Processes = {p}
  MaxFailures = 1
PROPERTIES EveryRowArrives
