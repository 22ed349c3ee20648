SPECIFICATION ViewSpec
CONSTANTS
  Reader = {r1}
  Writer = {t1}
  View = {"detail", "low_stock"}
  Call = {"create_order"}
  MaxVersion = 2
  MaxEvents = 1
  None = None
INVARIANTS
  DetailCurrent
