\* The instance may stop: the account is full, the bounds of the others are reached
CHECK_DEADLOCK FALSE
SPECIFICATION FiguresSpec
CONSTANTS
  u1 = u1
  u2 = u2
  p1 = p1
  p2 = p2
  badawi = badawi
  ittihad = ittihad
  stranger = stranger
  None = None
  Nothing = None
  Users = {u1, u2}
  Periods = {p1}
  Partners = {badawi, ittihad}
  Inputs <- MCInputs
  Transfers = {2}
  Openings <- MCOpenings
  Apart = TRUE
  MaxRows = 4
  Clerks = {0}
  Papers = {1, 2}
  Documents <- MCDocuments
  Rate <- MCRate
  Amounts = {1}
  MaxSaves = 2
  MaxHireRows = 2
  Runs = {1, 2}
  Assets = {"v"}
  Plans <- MCPlans
  NoPlan = None
  AssetCost = 3
  LastMonth = 3
  Voids = 1
SYMMETRY Symmetry
PROPERTIES
  ImportsBeginPending
