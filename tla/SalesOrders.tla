----------------------------- MODULE SalesOrders -----------------------------
(***************************************************************************)
(* apps/sales_orders over the stock of Inventory: an order reserves its    *)
(* items when it is created and gives the reservation up when it is        *)
(* dispatched or cancelled.  An action is one successful service call.     *)
(***************************************************************************)
EXTENDS Inventory

CONSTANT SalesOrder   \* ids of the orders that may be created: a bound

ASSUME SalesOrdersAssumption == IsFiniteSet(SalesOrder)

VARIABLES
  so_status,     \* "NONE" as long as the order does not exist
  so_warehouse,
  so_items       \* units per product; 0 for a product without an item

soVars == <<so_status, so_warehouse, so_items>>

SalesOrderStatus == {"PENDING", "CONFIRMED", "PROCESSING", "DISPATCHED",
                     "DELIVERED", "CANCELLED", "RETURNED"}

SOInit ==
  /\ InvInit
  /\ so_status = [o \in SalesOrder |-> "NONE"]
  /\ so_warehouse = [o \in SalesOrder |-> None]
  /\ so_items = [o \in SalesOrder |-> [p \in Product |-> 0]]

-----------------------------------------------------------------------------
\* Slips of the operators below, for the mutants of the checks.
CancellableOnceDispatched == {"PENDING", "CONFIRMED", "DISPATCHED"}
DispatchableOnceDelivered ==
  {"PENDING", "CONFIRMED", "PROCESSING", "DISPATCHED"}
InStockAnywhere(items, w) ==
  \A p \in Product : items[p] > 0 =>
    \E v \in Warehouse : <<p, v>> \in rows /\ Covers(<<p, v>>, items[p])
DispatchNotRecorded(items, w) == ledger

Cancellable == {"PENDING", "CONFIRMED"}

Dispatchable == {"PENDING", "CONFIRMED", "PROCESSING"}

\* A column of the rows of warehouse w, raised or lowered by the items.
Raised(field, items, w) ==
  [k \in Key |-> IF k[2] = w THEN field[k] + items[k[1]] ELSE field[k]]
Lowered(field, items, w) ==
  [k \in Key |-> IF k[2] = w THEN field[k] - items[k[1]] ELSE field[k]]

\* No short_items: every product asked for has a row with enough stock.
InStock(items, w) ==
  \A p \in Product :
    items[p] > 0 => <<p, w>> \in rows /\ Covers(<<p, w>>, items[p])

DispatchPosted(items, w) ==
  [x \in Key \X Posting |->
     IF x[1][2] = w /\ x[2] = "DISPATCH" THEN ledger[x] + items[x[1][1]]
     ELSE ledger[x]]

(***************************************************************************)
(* items is the request after aggregation of duplicate lines.  It may be   *)
(* empty: the serializer asks for a list, not for a non-empty one.         *)
(***************************************************************************)
SalesOrderCreated(o, w, items) ==
  /\ so_status[o] = "NONE"
  /\ InStock(items, w)
  /\ \A p \in Product : Fits(quantity_reserved[<<p, w>>] + items[p])
  /\ quantity_available' = Lowered(quantity_available, items, w)
  /\ quantity_reserved' = Raised(quantity_reserved, items, w)
  /\ so_status' = [so_status EXCEPT ![o] = "CONFIRMED"]
  /\ so_warehouse' = [so_warehouse EXCEPT ![o] = w]
  /\ so_items' = [so_items EXCEPT ![o] = items]
  /\ UNCHANGED <<rows, quantity_damaged, ledger, deleted>>

CreateSalesOrder(o, w, items) ==
  WarehouseFound(w) /\ SalesOrderCreated(o, w, items)

\* The audit rows are OUTBOUND movements with reference DISPATCH-<number>.
DispatchSalesOrder(o) ==
  LET items == so_items[o]
      w == so_warehouse[o]
  IN
  /\ so_status[o] \in Dispatchable
  /\ CanPost(Total(items))
  /\ quantity_reserved' = Lowered(quantity_reserved, items, w)
  /\ ledger' = DispatchPosted(items, w)
  /\ so_status' = [so_status EXCEPT ![o] = "DISPATCHED"]
  /\ UNCHANGED <<rows, quantity_available, quantity_damaged, deleted,
                 so_warehouse, so_items>>

DeliverSalesOrder(o) ==
  /\ so_status[o] = "DISPATCHED"
  /\ so_status' = [so_status EXCEPT ![o] = "DELIVERED"]
  /\ UNCHANGED <<invVars, so_warehouse, so_items>>

CancelSalesOrder(o) ==
  LET items == so_items[o]
      w == so_warehouse[o]
  IN
  /\ so_status[o] \in Cancellable
  /\ \A p \in Product : items[p] > 0 =>
       Fits(quantity_available[<<p, w>>] + items[p])
  /\ quantity_available' = Raised(quantity_available, items, w)
  /\ quantity_reserved' = Lowered(quantity_reserved, items, w)
  /\ so_status' = [so_status EXCEPT ![o] = "CANCELLED"]
  /\ UNCHANGED <<rows, quantity_damaged, ledger, deleted,
                 so_warehouse, so_items>>

SONext ==
  \E o \in SalesOrder :
    \/ \E w \in Warehouse, items \in [Product -> 0..MaxInteger] :
         CreateSalesOrder(o, w, items)
    \/ DispatchSalesOrder(o)
    \/ DeliverSalesOrder(o)
    \/ CancelSalesOrder(o)

SOSpec == /\ SOInit
          /\ [][SONext \/ (InvNext /\ UNCHANGED soVars)]_<<invVars, soVars>>

-----------------------------------------------------------------------------
(***************************************************************************)
(* Every order has its type, and an order with a status has a warehouse    *)
(* and items in rows that exist: dispatch and cancel index inventory_map   *)
(* without looking.                                                        *)
(***************************************************************************)
SOTypeOK ==
  /\ so_status \in [SalesOrder -> SalesOrderStatus \cup {"NONE"}]
  /\ so_warehouse \in [SalesOrder -> Warehouse \cup {None}]
  /\ so_items \in [SalesOrder -> [Product -> Nat]]
  /\ \A o \in SalesOrder :
       /\ so_status[o] # "NONE" => so_warehouse[o] \in Warehouse
       /\ \A p \in Product :
            so_items[o][p] > 0 => <<p, so_warehouse[o]>> \in rows

Holding == {"PENDING", "CONFIRMED", "PROCESSING"}
Shipped == {"DISPATCHED", "DELIVERED"}

\* Units of row k in the orders whose status is one of statuses.
Share(o, k, statuses) ==
  IF so_status[o] \in statuses /\ so_warehouse[o] = k[2]
  THEN so_items[o][k[1]] ELSE 0

Ordered(k, statuses) == Total([o \in SalesOrder |-> Share(o, k, statuses)])

(***************************************************************************)
(* quantity_reserved is exactly what the open orders of the row hold:      *)
(* create adds it, and of dispatch and cancel exactly one takes it back,   *)
(* once.  If it drifted, stock would be lost for good or promised twice.   *)
(***************************************************************************)
ReservationsBacked ==
  \A k \in Key : quantity_reserved[k] = Ordered(k, Holding)

(***************************************************************************)
(* The audit table records the dispatch of every order that has left the   *)
(* warehouse, and of no other, whatever was cancelled or delivered since.  *)
(***************************************************************************)
DispatchesAccounted ==
  \A k \in Key : Posted(k, "DISPATCH") = Ordered(k, Shipped)

(***************************************************************************)
(* Units promised to a customer stay in a warehouse that exists: deletion  *)
(* looks at quantity_reserved, and creation at the warehouse, each in its  *)
(* own table.                                                              *)
(***************************************************************************)
HeldStockNotDeleted ==
  \A o \in SalesOrder :
    so_status[o] \in Holding /\ (\E p \in Product : so_items[o][p] > 0)
      => so_warehouse[o] \notin deleted

(***************************************************************************)
(* The service layer seen from a customer: units are on hand in a row,     *)
(* reserved or not, and an order is open, then shipped or given up.        *)
(***************************************************************************)
OnHandIn(k) == quantity_available[k] + quantity_reserved[k]

PromiseState(o) ==
  CASE so_status[o] \in Holding -> "open"
    [] so_status[o] \in Shipped -> "shipped"
    [] so_status[o] = "CANCELLED" -> "released"
    [] OTHER -> "none"

PromiseUnits(o) ==
  [k \in Key |-> IF so_warehouse[o] = k[2] THEN so_items[o][k[1]] ELSE 0]

Promise == INSTANCE StockPromise
  WITH Place <- Key, Order <- SalesOrder,
       on_hand <- [k \in Key |-> OnHandIn(k)],
       state <- [o \in SalesOrder |-> PromiseState(o)],
       units <- [o \in SalesOrder |-> PromiseUnits(o)]

(***************************************************************************)
(* Every service call is a step of StockPromise or none: the units of an   *)
(* order that was taken stay in their row whatever is adjusted, moved or   *)
(* received, and leave once, with this order.                              *)
(***************************************************************************)
KeepsPromises == Promise!Spec

=============================================================================
