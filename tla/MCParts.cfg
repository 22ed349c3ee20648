SPECIFICATION MCSpec
CONSTANTS
  None = None
  Creator = {c1, c2}
  Kind = {"SO"}
  MaxDate = 1
  MaxSequence = 2
  LoginWorker = {u1, u2}
  Ident = {address}
  Editor = {n1, n2}
  MaxCategories = 4
  Visitor = {v1, v2}
  Email = {e1}
  Password = {pw1, pw2}
  Token = {j1, j2}
  Depot = {d1, d2, d3}
  MaxValue = 2
  MaxMoved = 2
  Sale = {s1, s2}
  Purchase = {b1}
  Client = {k1, k2}
  Handler = {h1}
  Shelf = {row1}
  ReorderLevel = 1
  MaxStock = 2
  MaxUnderWay = 2
INVARIANTS
  MCTypeOK
  NumbersDistinct
  FailuresCounted
  AttemptsBounded
  TreeShowsEachOnce
  PasswordIsTheLastSet
  ValuationOffByMoves
  SummaryNeverAhead
  LowStockNotForgotten
  AppliedOnceWithoutFault
PROPERTIES
  AlertComes
