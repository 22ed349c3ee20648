---------------------------- MODULE PurchaseOrders ----------------------------
(***************************************************************************)
(* apps/purchase_orders over the stock of Inventory: an order is drafted,  *)
(* submitted, approved by somebody else and received line by line, each    *)
(* receipt adjusting the stock in the transaction of the order.  An action *)
(* is one successful service call.                                         *)
(***************************************************************************)
EXTENDS Inventory

CONSTANTS
  PurchaseOrder,  \* ids of the orders that may be created: a bound
  Line,           \* the lines an order may have: a bound
  User,
  OrderedQty      \* quantities a request may order; nothing validates them

ASSUME PurchaseOrdersAssumption ==
  /\ IsFiniteSet(PurchaseOrder)
  /\ IsFiniteSet(Line)
  /\ OrderedQty \subseteq Int
  /\ None \notin User

Item == PurchaseOrder \X Line

VARIABLES
  po_status,          \* "NONE" as long as the order does not exist
  po_warehouse,
  created_by,
  approved_by,
  item_product,       \* None: the order has no such line
  quantity_ordered,
  quantity_received

poVars == <<po_status, po_warehouse, created_by, approved_by, item_product,
            quantity_ordered, quantity_received>>

PurchaseOrderStatus == {"DRAFT", "PENDING_APPROVAL", "APPROVED", "ORDERED",
                        "PARTIALLY_RECEIVED", "RECEIVED", "CANCELLED"}

POInit ==
  /\ InvInit
  /\ po_status = [o \in PurchaseOrder |-> "NONE"]
  /\ po_warehouse = [o \in PurchaseOrder |-> None]
  /\ created_by = [o \in PurchaseOrder |-> None]
  /\ approved_by = [o \in PurchaseOrder |-> None]
  /\ item_product = [i \in Item |-> None]
  /\ quantity_ordered = [i \in Item |-> 0]
  /\ quantity_received = [i \in Item |-> 0]

HasLine(o, l) == item_product[<<o, l>>] # None

-----------------------------------------------------------------------------
\* Slips of the operators below, for the mutants of the checks.
WithinOrdered(o, recv) ==
  \A l \in Line : HasLine(o, l) => recv[l] <= quantity_ordered[<<o, l>>]
LastLineOnly(o, p, recv) ==
  IF \E l \in Line : item_product[<<o, l>>] = p
  THEN recv[CHOOSE l \in Line : item_product[<<o, l>>] = p] ELSE 0
StatusOfNamedLines(o, recv) ==
  IF \A l \in Line : HasLine(o, l) /\ recv[l] > 0 =>
       quantity_received[<<o, l>>] + recv[l] >= quantity_ordered[<<o, l>>]
  THEN "RECEIVED" ELSE "PARTIALLY_RECEIVED"
AnyApprover(o, u) == TRUE
StatusNotAChoice(o, recv) ==
  IF \A l \in Line : HasLine(o, l) =>
       quantity_received[<<o, l>>] + recv[l] >= quantity_ordered[<<o, l>>]
  THEN "RECEIVED" ELSE "PARTIAL"

Receivable == {"APPROVED", "ORDERED", "PARTIALLY_RECEIVED"}

CancellablePO == {"DRAFT", "PENDING_APPROVAL", "APPROVED"}

MayApprove(o, u) == created_by[o] # u

(***************************************************************************)
(* product[l] = None leaves line l out.  The same product may be ordered   *)
(* on several lines: unlike sales orders, nothing aggregates them.         *)
(***************************************************************************)
CreatePurchaseOrder(o, w, u, product, qty) ==
  /\ po_status[o] = "NONE"
  /\ WarehouseFound(w)
  /\ po_status' = [po_status EXCEPT ![o] = "DRAFT"]
  /\ po_warehouse' = [po_warehouse EXCEPT ![o] = w]
  /\ created_by' = [created_by EXCEPT ![o] = u]
  /\ item_product' =
       [i \in Item |-> IF i[1] = o THEN product[i[2]] ELSE item_product[i]]
  /\ quantity_ordered' =
       [i \in Item |-> IF i[1] = o /\ product[i[2]] # None
                       THEN qty[i[2]] ELSE quantity_ordered[i]]
  /\ UNCHANGED <<invVars, approved_by, quantity_received>>

SubmitPurchaseOrder(o) ==
  /\ po_status[o] = "DRAFT"
  /\ \E l \in Line : HasLine(o, l)
  /\ po_status' = [po_status EXCEPT ![o] = "PENDING_APPROVAL"]
  /\ UNCHANGED <<invVars, po_warehouse, created_by, approved_by,
                 item_product, quantity_ordered, quantity_received>>

ApprovePurchaseOrder(o, u) ==
  /\ po_status[o] = "PENDING_APPROVAL"
  /\ MayApprove(o, u)
  /\ po_status' = [po_status EXCEPT ![o] = "APPROVED"]
  /\ approved_by' = [approved_by EXCEPT ![o] = u]
  /\ UNCHANGED <<invVars, po_warehouse, created_by,
                 item_product, quantity_ordered, quantity_received>>

-----------------------------------------------------------------------------
\* recv[l] units arrive on line l; 0 when the request does not name the line.
Remaining(o, recv) ==
  \A l \in Line : HasLine(o, l) /\ recv[l] > 0 =>
    recv[l] <= quantity_ordered[<<o, l>>] - quantity_received[<<o, l>>]

\* Units of p in the receipt; ids that are no line of the order are ignored.
Arriving(o, p, recv) ==
  Total([l \in Line |-> IF item_product[<<o, l>>] = p THEN recv[l] ELSE 0])

ReceivedStatus(o, recv) ==
  IF \A l \in Line : HasLine(o, l) =>
       quantity_received[<<o, l>>] + recv[l] >= quantity_ordered[<<o, l>>]
  THEN "RECEIVED" ELSE "PARTIALLY_RECEIVED"

Arrival(o, recv) ==
  [k \in Key |-> IF k[2] = po_warehouse[o] THEN Arriving(o, k[1], recv) ELSE 0]

\* The rows that a receipt adds to.
Restocked(o, recv) == {k \in Key : Arrival(o, recv)[k] > 0}

\* adjust_inventory runs for every line; when it raises once, nothing stays.
PurchaseOrderReceived(o, recv) ==
  LET arrival == Arrival(o, recv) IN
  /\ po_status[o] \in Receivable
  /\ Remaining(o, recv)
  /\ \A k \in Key : Fits(quantity_available[k] + arrival[k])
  /\ CanPost(Total(arrival))
  /\ rows' = rows \cup Restocked(o, recv)
  /\ quantity_available' =
       [k \in Key |-> quantity_available[k] + arrival[k]]
  /\ ledger' = [x \in Key \X Posting |->
                  IF x[2] = "RECEIPT" THEN ledger[x] + arrival[x[1]]
                  ELSE ledger[x]]
  /\ quantity_received' =
       [i \in Item |-> IF i[1] = o /\ item_product[i] # None
                       THEN quantity_received[i] + recv[i[2]]
                       ELSE quantity_received[i]]
  /\ po_status' = [po_status EXCEPT ![o] = ReceivedStatus(o, recv)]
  /\ UNCHANGED <<quantity_reserved, quantity_damaged, deleted, po_warehouse,
                 created_by, approved_by, item_product, quantity_ordered>>

\* Each of these adjusts looks the warehouse up.
ReceivePurchaseOrder(o, recv) ==
  /\ Restocked(o, recv) # {} => WarehouseFound(po_warehouse[o])
  /\ PurchaseOrderReceived(o, recv)

CancelPurchaseOrder(o) ==
  /\ po_status[o] \in CancellablePO
  /\ po_status' = [po_status EXCEPT ![o] = "CANCELLED"]
  /\ UNCHANGED <<invVars, po_warehouse, created_by, approved_by,
                 item_product, quantity_ordered, quantity_received>>

PONext ==
  \E o \in PurchaseOrder :
    \/ \E w \in Warehouse, u \in User,
          product \in [Line -> Product \cup {None}],
          qty \in [Line -> OrderedQty] :
         CreatePurchaseOrder(o, w, u, product, qty)
    \/ SubmitPurchaseOrder(o)
    \/ \E u \in User : ApprovePurchaseOrder(o, u)
    \/ \E recv \in [Line -> 0..MaxInteger] : ReceivePurchaseOrder(o, recv)
    \/ CancelPurchaseOrder(o)

POSpec == /\ POInit
          /\ [][PONext \/ (InvNext /\ UNCHANGED poVars)]_<<invVars, poVars>>

-----------------------------------------------------------------------------
(***************************************************************************)
(* Every column has its type; a created order has a warehouse and an       *)
(* author, and one that does not exist has no line.                        *)
(***************************************************************************)
POTypeOK ==
  /\ po_status \in [PurchaseOrder -> PurchaseOrderStatus \cup {"NONE"}]
  /\ po_warehouse \in [PurchaseOrder -> Warehouse \cup {None}]
  /\ created_by \in [PurchaseOrder -> User \cup {None}]
  /\ approved_by \in [PurchaseOrder -> User \cup {None}]
  /\ item_product \in [Item -> Product \cup {None}]
  /\ quantity_ordered \in [Item -> Int]
  /\ quantity_received \in [Item -> Nat]
  /\ \A o \in PurchaseOrder :
       po_status[o] # "NONE" =>
         po_warehouse[o] \in Warehouse /\ created_by[o] \in User

\* Units that orders have brought into row k.
Received(k) ==
  Total([i \in Item |->
           IF item_product[i] = k[1] /\ po_warehouse[i[1]] = k[2]
           THEN quantity_received[i] ELSE 0])

(***************************************************************************)
(* What the lines say was received is what the audit table says came in    *)
(* against orders, row by row: a receipt updates the line, the stock and   *)
(* the audit table in three places, and a line may share its product with  *)
(* another one.                                                            *)
(***************************************************************************)
ReceiptsAccounted ==
  \A k \in Key : Posted(k, "RECEIPT") = Received(k)

(***************************************************************************)
(* However often an order is received, no line takes in more than was      *)
(* ordered; a line with a quantity ordered below one takes in nothing.     *)
(***************************************************************************)
NeverOverReceived ==
  \A i \in Item : quantity_received[i] > 0 =>
                    quantity_received[i] <= quantity_ordered[i]

(***************************************************************************)
(* The status tells what has arrived: RECEIVED means every line is         *)
(* complete, PARTIALLY_RECEIVED that one is not, and before the approval   *)
(* or after a cancellation nothing has arrived.                            *)
(***************************************************************************)
StatusMatchesReceipts ==
  \A o \in PurchaseOrder :
    LET complete(l) == quantity_received[<<o, l>>] >= quantity_ordered[<<o, l>>]
        lines == {l \in Line : HasLine(o, l)}
    IN CASE po_status[o] = "RECEIVED" -> \A l \in lines : complete(l)
         [] po_status[o] = "PARTIALLY_RECEIVED" -> \E l \in lines : ~complete(l)
         [] OTHER -> \A l \in Line : quantity_received[<<o, l>>] = 0

(***************************************************************************)
(* Stock that came in against an order was approved by a user other than   *)
(* the one who created the order.                                          *)
(***************************************************************************)
SeparationOfDuties ==
  \A i \in Item : quantity_received[i] > 0 =>
    /\ approved_by[i[1]] \in User
    /\ approved_by[i[1]] # created_by[i[1]]

(***************************************************************************)
(* docs/architecture.md:81 "Inventory is adjusted, PO status becomes       *)
(* RECEIVED or PARTIALLY_RECEIVED".  A receipt that names no line of the   *)
(* order changes the status and adjusts nothing.                           *)
(***************************************************************************)
ReceivedMeansStock ==
  \A o \in PurchaseOrder :
    po_status[o] \in {"RECEIVED", "PARTIALLY_RECEIVED"} =>
      \E l \in Line : quantity_received[<<o, l>>] > 0

=============================================================================
