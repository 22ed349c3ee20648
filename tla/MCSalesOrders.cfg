SPECIFICATION SOSpec
CONSTANTS
  Product = {p1}
  Warehouse = {w1, w2}
  InitialRows <- MCNoRows
  MaxInteger = 2
  MaxPosted = 5
  SalesOrder = {o1, o2}
  None = None
SYMMETRY MCSymmetry
INVARIANTS
  InvTypeOK
  SOTypeOK
  StockNonNegative
  LedgerBalanced
  ReservationsBacked
  DispatchesAccounted
  HeldStockNotDeleted
  ProductConserved
PROPERTIES
  KeepsPromises
\* The audit table and the orders of the model are finite.
CHECK_DEADLOCK FALSE
