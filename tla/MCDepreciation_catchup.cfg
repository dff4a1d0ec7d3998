SPECIFICATION Attended
CHECK_DEADLOCK FALSE
CONSTANTS
  Runs = {1}
  Assets = {v}
  Plans <- MCPlans
  NoPlan = NoPlan
  AssetCost = 2
  LastMonth = 4
  Voids = 0
PROPERTY EveryMonthIsCharged
