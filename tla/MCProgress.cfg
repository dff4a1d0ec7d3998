\* The instance may stop: the clock does, and nothing is left to post or reverse
CHECK_DEADLOCK FALSE
SPECIFICATION ProgressSpec
CONSTANTS
  Nothing = Nothing
  NoPlan = Nothing
  Runs = {1, 2}
  Assets = {"v"}
  Plans <- MCPlans
  AssetCost = 9
  LastMonth = 4
  Voids = 1
PROPERTIES
  RequestsFinish
  AttendedMonthsAreCharged
