SPECIFICATION ApiSpec
CONSTANTS
  author = author
  manager = manager
  Product = {p1}
  Warehouse = {w1}
  InitialRows = {}
  MaxInteger = 1
  MaxPosted = 1
  SalesOrder = {o1}
  PurchaseOrder = {po1}
  Line = {l1}
  User = {author, manager}
  OrderedQty = {1}
  RoleOf <- MCRoleOf
  None = None
PROPERTIES
  ApprovalComes
