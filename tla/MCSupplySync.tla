----------------------------- MODULE MCSupplySync -----------------------------
(* A purchase order of two lines supplies the stock a sales order reserves. *)
EXTENDS SupplySync, TLC

MCNoRows == {}
MCOrderedQty == {-1, 1, 2}
MCSymmetry == Permutations(Warehouse) \cup Permutations(User)
              \cup Permutations(Line)

=============================================================================
