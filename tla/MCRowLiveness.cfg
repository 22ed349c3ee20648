SPECIFICATION FairSpec
CONSTANTS
  p1 = p1
  p2 = p2
  w1 = w1
  w2 = w2
  w3 = w3
  o1 = o1
  Product = {p1, p2}
  Warehouse = {w1, w2, w3}
  InitialRows <- MCRowsOfP1
  MaxInteger = 2
  MaxPosted = 4
  SalesOrder = {o1}
  PurchaseOrder = {d1}
  Line = {l1, l2}
  User = {u1, u2}
  OrderedQty = {1}
  None = None
  Worker = {a, b}
  Call <- MCReceiptCalls
PROPERTIES
  CallsEnd
  SerializesCalls
\* The audit table and the orders of the model are finite.
CHECK_DEADLOCK FALSE
