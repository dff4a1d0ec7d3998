\* The instance may stop: every identifier of a row is used
CHECK_DEADLOCK FALSE
SPECIFICATION Spec
CONSTANTS
  u1 = u1
  u2 = u2
  Users = {u1, u2}
  Invoices = {1, 2, 3}
  Documents <- MCDocuments
  Given <- MCGiven
  Legacy = {}
  Payable = {1, 3}
  Editable = {}
  Removable = {3}
  Approved = {1}
  Aboard = {1, 2}
  Amounts = {1, 2}
  Batches <- MCBatches
  MaxRows = 3
SYMMETRY Symmetry
INVARIANTS ChecksHold CacheMatchesRows NoOrphans LocksAscend
PROPERTIES ImplementsBook
