---------------------------- MODULE MCSalesOrders ----------------------------
(* Two orders that compete for the stock of one product, in two warehouses. *)
EXTENDS SalesOrders, TLC

MCNoRows == {}
MCSymmetry == Permutations(Warehouse) \cup Permutations(SalesOrder)

=============================================================================
