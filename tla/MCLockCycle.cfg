SPECIFICATION RLSpec
CONSTANTS
  p1 = p1
  p2 = p2
  w1 = w1
  w2 = w2
  w3 = w3
  o1 = o1
  Product = {p1}
  Warehouse = {w1, w2}
  InitialRows <- MCAllRows
  MaxInteger = 3
  MaxPosted = 6
  SalesOrder = {o1}
  PurchaseOrder = {}
  Line = {}
  User = {}
  OrderedQty = {}
  None = None
  Worker = {a, b}
  Call <- MCDeadlockCalls
SYMMETRY MCSymmetry
INVARIANTS
  NoDeadlock
\* The audit table of the model is finite.
CHECK_DEADLOCK FALSE
