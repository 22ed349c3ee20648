SPECIFICATION MCSpec
CONSTANTS
  Reader = {r1}
  Writer = {t1, t2}
  View <- MCViews
  Call <- MCCalls
  MaxVersion = 2
  MaxEvents = 1
  None = None
  Clerk = {k1, k2}
  Id = {i1, i2}
  Code = {x1, x2}
SYMMETRY MCSymmetry
INVARIANTS
  ViewTypeOK
  StaleOnlyIfOvertaken
  CatTypeOK
  RevivedOnlyIfOvertaken
  DeletedInactive
PROPERTIES
  SettlesFresh
  WarehouseCodeFixed
