SPECIFICATION DailySpec
CONSTANTS
  FirstToday = 4
  LastDay = 5
  Reach = 2
  EndOffset = 0
  TickFrom = 1
  TickTo = 1
  Lag = 1
  MaxVersion = 2
  Published = {1, 2, 4}
  Revised = {4}
  MaxBackfills = 1
  MaxFailures = 1
  RollReach = 1
  Day = 4
INVARIANTS TypeOK NoDayGivenUp WatermarkDayHasRows
PROPERTIES DoneMeansVisible HeatmapCatchesUp
