SPECIFICATION Spec
CONSTANTS
  FirstToday = 4
  LastDay = 4
  Reach = 2
  EndOffset = 0
  TickFrom = 1
  TickTo = 1
  Lag = 3
  Published = {1}
  Revised = {}
  MaxVersion = 1
  MaxBackfills = 1
  MaxFailures = 1
PROPERTIES AggregatesCatchUp
