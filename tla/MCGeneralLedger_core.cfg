\* The instance may stop: its periods closed for good, its identifiers used
CHECK_DEADLOCK FALSE
SPECIFICATION CoreSpec
CONSTANTS
  Users = {u1, u2}
  Entries = {e1, e2, e3}
  Years = {1, 2}
  LastPeriod = 1
  EventTypes = {"manual"}
  Sources = {s1}
  cash = cash
  cost = cost
  Accounts = {cash, cost}
  Managed = {}
  Nominal = {cost}
  LineSets <- OneSet
  Rates = {}
  RateValues = {}
  None = None
SYMMETRY Symmetric
INVARIANTS TypeOK LockedReadsHold GaplessNumbers ReversalsPaired
PROPERTIES PeriodsGovernPosting PostedIsForever ImplementsBook
