--------------------------- MODULE MCPurchaseOrders ---------------------------
(* One order of two lines, which may name the same product, and two users.  *)
EXTENDS PurchaseOrders, TLC

MCNoRows == {}
MCOrderedQty == {-1, 0, 1, 2}
MCSymmetry == Permutations(Warehouse) \cup Permutations(User)
              \cup Permutations(Line)

=============================================================================
