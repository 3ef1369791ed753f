SPECIFICATION Spec
CONSTANTS
  Plans <- PlanSet
  Acceptances <- AcceptanceSet
  Limits <- LimitSet
  Windows <- WindowSet
  Freq = 2
  Scale = 12
  NaN = NaN
  MaxStores = 4
INVARIANTS TypeOK RowsOnGrid
PROPERTIES RowsAreDefined SoWithinTotal
