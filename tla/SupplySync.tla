------------------------------ MODULE SupplySync ------------------------------
(***************************************************************************)
(* The service layer as a whole: stock keeping, sales orders and purchase  *)
(* orders share the inventory and audit tables.  Every step is one         *)
(* service call that succeeds, from its first read to its last write.  The *)
(* calls that move stock or orders are transactions of the database, but   *)
(* look their warehouse up without a lock; delete_warehouse checks and     *)
(* saves in autocommit.  RowLocking takes all of them apart.               *)
(***************************************************************************)
EXTENDS SalesOrders, PurchaseOrders

vars == <<invVars, soVars, poVars>>

Init == SOInit /\ POInit

Next ==
  \/ InvNext /\ UNCHANGED <<soVars, poVars>>
  \/ SONext /\ UNCHANGED poVars
  \/ PONext /\ UNCHANGED soVars

Spec == Init /\ [][Next]_vars

TypeOK == InvTypeOK /\ SOTypeOK /\ POTypeOK

(***************************************************************************)
(* The stock of a row is explained by the order tables and the manual      *)
(* movements alone: what purchase orders brought in has been sold and not  *)
(* cancelled, is damaged, was moved by hand or is available.  It ties the  *)
(* three components together, each of which only updates its own tables    *)
(* and the columns of the row.                                             *)
(***************************************************************************)
StockExplained ==
  \A k \in Key :
    quantity_available[k] + quantity_damaged[k]
      + Ordered(k, Holding \cup Shipped) =
    Received(k) + Posted(k, "INBOUND") + Posted(k, "ADJUSTMENT")
      + Posted(k, "TRANSFER_IN") - Posted(k, "OUTBOUND")
      - Posted(k, "TRANSFER_OUT")

=============================================================================
