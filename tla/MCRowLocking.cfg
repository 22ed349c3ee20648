SPECIFICATION RLSpec
CONSTANTS
  p1 = p1
  p2 = p2
  w1 = w1
  w2 = w2
  w3 = w3
  o1 = o1
  Product = {p1, p2}
  Warehouse = {w1, w2}
  InitialRows <- MCRowsOfP1
  MaxInteger = 2
  MaxPosted = 4
  SalesOrder = {o1, o2}
  PurchaseOrder = {}
  Line = {}
  User = {}
  OrderedQty = {}
  None = None
  Worker = {a, b}
  Call <- MCCalls
SYMMETRY MCSymmetry
INVARIANTS
  RLTypeOK
  NoStaleCopy
  TransfersReadLockedRows
PROPERTIES
  SerializesCalls
\* The audit table and the orders of the model are finite.
CHECK_DEADLOCK FALSE
