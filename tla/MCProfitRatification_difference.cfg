\* The instance may stop: the account is full
CHECK_DEADLOCK FALSE
SPECIFICATION Spec
CONSTANTS
  u1 = u1
  u2 = u2
  p1 = p1
  p2 = p2
  badawi = badawi
  ittihad = ittihad
  stranger = stranger
  None = None
  Users = {u1}
  Periods = {p1}
  Partners = {badawi, ittihad}
  Inputs <- FewInputs
  Transfers = {2}
  Openings <- MCOpenings
  Apart = TRUE
  MaxRows = 4
SYMMETRY Symmetry
INVARIANTS DifferencesAreOfTheFrozen
