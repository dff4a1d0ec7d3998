\* The instance may stop: every identifier of a row is used
CHECK_DEADLOCK FALSE
CONSTANTS
  u1 = u1
  u2 = u2
  Users = {u1, u2}
  Invoices = {1, 2, 3}
  Documents <- FewDocuments
  Given <- FewGiven
  Legacy = {3}
  Payable = {1, 3}
  Editable = {1, 2}
  Removable = {}
  Approved = {1}
  Aboard = {1, 3}
  Amounts = {1}
  Batches <- FewBatches
  MaxRows = 2
SPECIFICATION FairSpec
INVARIANTS ReportsFollowTheRows
PROPERTIES CreditsStayWithSupplier RequestsFinish
