SPECIFICATION Spec
CONSTANTS
  Product = {p1}
  Warehouse = {w1, w2}
  InitialRows <- MCNoRows
  MaxInteger = 2
  MaxPosted = 3
  SalesOrder = {o1}
  PurchaseOrder = {po1}
  Line = {l1, l2}
  User = {u1, u2}
  OrderedQty <- MCOrderedQty
  None = None
SYMMETRY MCSymmetry
INVARIANTS
  TypeOK
  LedgerBalanced
  StockExplained
  ReceiptsAccounted
  NeverOverReceived
  StatusMatchesReceipts
  SeparationOfDuties
\* The audit table and the orders of the model are finite.
CHECK_DEADLOCK FALSE
