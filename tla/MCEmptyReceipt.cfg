SPECIFICATION POSpec
CONSTANTS
  Product = {p1}
  Warehouse = {w1, w2}
  InitialRows <- MCNoRows
  MaxInteger = 2
  MaxPosted = 3
  PurchaseOrder = {o1}
  Line = {l1, l2}
  User = {u1, u2}
  OrderedQty <- MCOrderedQty
  None = None
SYMMETRY MCSymmetry
INVARIANTS
  ReceivedMeansStock
\* The audit table and the orders of the model are finite.
CHECK_DEADLOCK FALSE
