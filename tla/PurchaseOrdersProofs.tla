------------------------ MODULE PurchaseOrdersProofs ------------------------
(***************************************************************************)
(* The invariants of PurchaseOrders, for all orders, lines, users and      *)
(* bounds.  The steps of Inventory are covered by InventoryProofs.         *)
(***************************************************************************)
EXTENDS PurchaseOrders, InventoryProofs

LEMMA KeyPair ==
  ASSUME NEW k \in Key
  PROVE  k[1] \in Product /\ k[2] \in Warehouse /\ k = <<k[1], k[2]>>
         /\ k[1] # None
BY InventoryAssumption DEF Key

LEMMA ItemPair ==
  ASSUME NEW i \in Item
  PROVE  i[1] \in PurchaseOrder /\ i[2] \in Line /\ i = <<i[1], i[2]>>
BY DEF Item

LEMMA ArrivalNat ==
  ASSUME NEW o \in PurchaseOrder, NEW recv \in [Line -> Nat]
  PROVE  Arrival(o, recv) \in [Key -> Nat]
<1>1. ASSUME NEW p PROVE Arriving(o, p, recv) \in Nat
  <2> DEFINE f == [l \in Line |-> IF item_product[<<o, l>>] = p THEN recv[l] ELSE 0]
  <2>1. f \in [Line -> Nat]
    OBVIOUS
  <2> HIDE DEF f
  <2>2. Total(f) \in Nat
    BY <2>1, TotalNat, PurchaseOrdersAssumption
  <2>3. QED
    BY <2>2 DEF Arriving, f
<1>2. QED
  BY <1>1 DEF Arrival

LEMMA RecvNat ==
  ASSUME NEW recv \in [Line -> 0..MaxInteger]
  PROVE  recv \in [Line -> Nat]
BY InventoryAssumption

LEMMA POInitType == POInit => InvTypeOK /\ POTypeOK
<1> SUFFICES ASSUME POInit PROVE InvTypeOK /\ POTypeOK
  OBVIOUS
<1> QED
  BY InvInitType DEF POInit, POTypeOK

-----------------------------------------------------------------------------
(***************************************************************************)
(* What a call writes into the tables of the purchase orders, whatever it  *)
(* finds of the stock and of the warehouses.                               *)
(***************************************************************************)
DraftWritten(o, w, u, product, qty) ==
  /\ po_status[o] = "NONE"
  /\ po_status' = [po_status EXCEPT ![o] = "DRAFT"]
  /\ po_warehouse' = [po_warehouse EXCEPT ![o] = w]
  /\ created_by' = [created_by EXCEPT ![o] = u]
  /\ item_product' =
       [i \in Item |-> IF i[1] = o THEN product[i[2]] ELSE item_product[i]]
  /\ quantity_ordered' =
       [i \in Item |-> IF i[1] = o /\ product[i[2]] # None
                       THEN qty[i[2]] ELSE quantity_ordered[i]]
  /\ UNCHANGED <<approved_by, quantity_received>>

SubmitWritten(o) ==
  /\ po_status[o] = "DRAFT"
  /\ po_status' = [po_status EXCEPT ![o] = "PENDING_APPROVAL"]
  /\ UNCHANGED <<po_warehouse, created_by, approved_by,
                 item_product, quantity_ordered, quantity_received>>

ApproveWritten(o, u) ==
  /\ po_status[o] = "PENDING_APPROVAL"
  /\ MayApprove(o, u)
  /\ po_status' = [po_status EXCEPT ![o] = "APPROVED"]
  /\ approved_by' = [approved_by EXCEPT ![o] = u]
  /\ UNCHANGED <<po_warehouse, created_by,
                 item_product, quantity_ordered, quantity_received>>

CancelWritten(o) ==
  /\ po_status[o] \in CancellablePO
  /\ po_status' = [po_status EXCEPT ![o] = "CANCELLED"]
  /\ UNCHANGED <<po_warehouse, created_by, approved_by,
                 item_product, quantity_ordered, quantity_received>>

ReceiptWritten(o, recv) ==
  /\ po_status[o] \in Receivable
  /\ Remaining(o, recv)
  /\ quantity_received' =
       [i \in Item |-> IF i[1] = o /\ item_product[i] # None
                       THEN quantity_received[i] + recv[i[2]]
                       ELSE quantity_received[i]]
  /\ po_status' = [po_status EXCEPT ![o] = ReceivedStatus(o, recv)]
  /\ UNCHANGED <<po_warehouse, created_by, approved_by, item_product,
                 quantity_ordered>>

\* A call that receives nothing.
OrderWritten(o) ==
  \/ \E w \in Warehouse, u \in User, product \in [Line -> Product \cup {None}],
        qty \in [Line -> OrderedQty] : DraftWritten(o, w, u, product, qty)
  \/ SubmitWritten(o)
  \/ \E u \in User : ApproveWritten(o, u)
  \/ CancelWritten(o)

POTables ==
  \E o \in PurchaseOrder :
    \/ OrderWritten(o)
    \/ \E recv \in [Line -> 0..MaxInteger] : ReceiptWritten(o, recv)

(***************************************************************************)
(* What the services write; only receipts change the stock.                *)
(***************************************************************************)
POWrites ==
  \E o \in PurchaseOrder :
    \/ OrderWritten(o) /\ UNCHANGED invVars
    \/ \E recv \in [Line -> 0..MaxInteger] : PurchaseOrderReceived(o, recv)

LEMMA PONextWrites == PONext => POWrites
<1>1. ASSUME NEW o \in PurchaseOrder, NEW w \in Warehouse, NEW u \in User,
             NEW product \in [Line -> Product \cup {None}],
             NEW qty \in [Line -> OrderedQty],
             CreatePurchaseOrder(o, w, u, product, qty)
      PROVE  OrderWritten(o) /\ UNCHANGED invVars
  <2>1. DraftWritten(o, w, u, product, qty) /\ UNCHANGED invVars
    BY <1>1 DEF CreatePurchaseOrder, DraftWritten
  <2> QED
    BY <2>1 DEF OrderWritten
<1>2. ASSUME NEW o \in PurchaseOrder
      PROVE  /\ SubmitPurchaseOrder(o) => SubmitWritten(o) /\ UNCHANGED invVars
             /\ CancelPurchaseOrder(o) => CancelWritten(o) /\ UNCHANGED invVars
             /\ \A u \in User :
                  ApprovePurchaseOrder(o, u) => ApproveWritten(o,
                  u) /\ UNCHANGED invVars
             /\ \A recv \in [Line -> 0..MaxInteger] :
                  ReceivePurchaseOrder(o, recv) => PurchaseOrderReceived(o, recv)
  BY DEF SubmitPurchaseOrder, SubmitWritten, CancelPurchaseOrder, CancelWritten,
         ApprovePurchaseOrder, ApproveWritten, ReceivePurchaseOrder
<1> QED
  BY <1>1, <1>2 DEF PONext, POWrites, OrderWritten

LEMMA POWritesTables ==
  ASSUME POWrites
  PROVE  /\ POTables
         /\ \E o \in PurchaseOrder :
              \/ OrderWritten(o) /\ UNCHANGED invVars
              \/ \E recv \in [Line -> 0..MaxInteger] :
                   PurchaseOrderReceived(o, recv) /\ ReceiptWritten(o, recv)
<1>1. ASSUME NEW o \in PurchaseOrder, NEW recv \in [Line -> 0..MaxInteger],
             PurchaseOrderReceived(o, recv)
      PROVE  ReceiptWritten(o, recv)
  BY <1>1 DEF PurchaseOrderReceived, ReceiptWritten
<1> QED
  BY <1>1 DEF POWrites, POTables

LEMMA DraftType ==
  ASSUME POTypeOK, NEW o \in PurchaseOrder, NEW w \in Warehouse,
         NEW u \in User, NEW product \in [Line -> Product \cup {None}],
         NEW qty \in [Line -> OrderedQty],
         DraftWritten(o, w, u, product, qty)
  PROVE  POTypeOK'
<1>1. \A i \in Item : product[i[2]] \in Product \cup {None} /\ qty[i[2]] \in Int
  BY ItemPair, PurchaseOrdersAssumption
<1>2. item_product' \in [Item -> Product \cup {None}]
      /\ quantity_ordered' \in [Item -> Int]
  BY <1>1 DEF DraftWritten, POTypeOK
<1>3. /\ po_status' = [po_status EXCEPT ![o] = "DRAFT"]
      /\ po_warehouse' = [po_warehouse EXCEPT ![o] = w]
      /\ created_by' = [created_by EXCEPT ![o] = u]
      /\ UNCHANGED <<approved_by, quantity_received>>
  BY DEF DraftWritten
<1>4. QED
  BY <1>2, <1>3 DEF POTypeOK, PurchaseOrderStatus

\* Submission, approval and cancellation move the status alone.
LEMMA StatusType ==
  ASSUME POTypeOK, NEW o \in PurchaseOrder, po_status[o] # "NONE",
         NEW st \in PurchaseOrderStatus, po_status' = [po_status EXCEPT ![o] = st],
         approved_by' \in [PurchaseOrder -> User \cup {None}],
         UNCHANGED <<po_warehouse, created_by,
                     item_product, quantity_ordered, quantity_received>>
  PROVE  POTypeOK'
BY DEF POTypeOK

LEMMA ReceiptType ==
  ASSUME POTypeOK, NEW o \in PurchaseOrder,
         NEW recv \in [Line -> Nat], ReceiptWritten(o, recv)
  PROVE  POTypeOK'
<1>1. quantity_received' \in [Item -> Nat]
  <2>1. \A i \in Item : recv[i[2]] \in Nat
    BY ItemPair
  <2>2. QED
    BY <2>1 DEF ReceiptWritten, POTypeOK
<1>2. ReceivedStatus(o, recv) \in PurchaseOrderStatus
  BY DEF ReceivedStatus, PurchaseOrderStatus
<1>3. /\ po_status' = [po_status EXCEPT ![o] = ReceivedStatus(o, recv)]
      /\ po_status[o] # "NONE"
      /\ UNCHANGED <<po_warehouse, created_by, approved_by, item_product,
                     quantity_ordered>>
  BY DEF ReceiptWritten, Receivable
<1>4. QED
  BY <1>1, <1>2, <1>3 DEF POTypeOK

LEMMA TablesType ==
  ASSUME POTypeOK, POTables
  PROVE  POTypeOK'
<1>1. ASSUME NEW o \in PurchaseOrder, SubmitWritten(o) \/ CancelWritten(o)
      PROVE  POTypeOK'
  <2>1. PICK st \in PurchaseOrderStatus : po_status' = [po_status EXCEPT ![o] = st]
    BY <1>1 DEF SubmitWritten, CancelWritten, PurchaseOrderStatus
  <2>2. po_status[o] # "NONE"
    BY <1>1 DEF SubmitWritten, CancelWritten, CancellablePO
  <2> QED
    BY <1>1, <2>1, <2>2, StatusType DEF SubmitWritten, CancelWritten, POTypeOK
<1>2. ASSUME NEW o \in PurchaseOrder, NEW u \in User, ApproveWritten(o, u)
      PROVE  POTypeOK'
  <2>1. "APPROVED" \in PurchaseOrderStatus /\ po_status[o] # "NONE"
    BY <1>2 DEF PurchaseOrderStatus, ApproveWritten
  <2>2. approved_by' \in [PurchaseOrder -> User \cup {None}]
    BY <1>2 DEF ApproveWritten, POTypeOK
  <2> QED
    BY <1>2, <2>1, <2>2, StatusType DEF ApproveWritten
<1> QED
  BY <1>1, <1>2, DraftType, ReceiptType, RecvNat DEF POTables, OrderWritten

LEMMA ReceiveStockType ==
  ASSUME InvTypeOK, NEW o \in PurchaseOrder,
         NEW recv \in [Line -> Nat], PurchaseOrderReceived(o, recv)
  PROVE  InvTypeOK'
<1> DEFINE arrival == Arrival(o, recv)
<1>1. arrival \in [Key -> Nat]
  BY ArrivalNat
<1>2. /\ rows' = rows \cup {k \in Key : arrival[k] > 0}
      /\ quantity_available' = [k \in Key |-> quantity_available[k] + arrival[k]]
      /\ ledger' = [x \in Key \X Posting |->
                      IF x[2] = "RECEIPT" THEN ledger[x] + arrival[x[1]] ELSE ledger[x]]
      /\ UNCHANGED <<quantity_reserved, quantity_damaged, deleted>>
  BY DEF PurchaseOrderReceived, Restocked
<1> HIDE DEF arrival
<1>3. quantity_available' \in [Key -> Int]
      /\ \A k \in Key \ rows' : quantity_available'[k] = 0
  BY <1>1, <1>2 DEF InvTypeOK
<1>4. ledger' \in [Key \X Posting -> Nat]
  BY <1>1, <1>2 DEF InvTypeOK
<1> QED
  BY <1>2, <1>3, <1>4 DEF InvTypeOK

LEMMA POWritesType ==
  ASSUME InvTypeOK, POTypeOK, POWrites
  PROVE  InvTypeOK' /\ POTypeOK'
<1>1. POTypeOK'
  BY POWritesTables, TablesType
<1>2. UNCHANGED invVars => InvTypeOK'
  BY DEF InvTypeOK, invVars
<1> QED
  BY <1>1, <1>2, POWritesTables, ReceiveStockType, RecvNat

(***************************************************************************)
(* Type correctness of the purchase order tables and of the stock.         *)
(***************************************************************************)
THEOREM POTypeCorrect == POSpec => [](InvTypeOK /\ POTypeOK)
<1>1. InvTypeOK /\ POTypeOK /\ UNCHANGED <<invVars, poVars>>
        => (InvTypeOK /\ POTypeOK)'
  BY DEF InvTypeOK, POTypeOK, invVars, poVars
<1>2. POTypeOK /\ UNCHANGED poVars => POTypeOK'
  BY DEF POTypeOK, poVars
<1>3. InvTypeOK /\ POTypeOK /\ [PONext \/ (InvNext /\ UNCHANGED poVars)]_<<invVars, poVars>>
        => (InvTypeOK /\ POTypeOK)'
  BY <1>1, <1>2, PONextWrites, POWritesType, InvNextWrites, InvWritesType
<1>4. QED
  BY POInitType, <1>3, PTL DEF POSpec

-----------------------------------------------------------------------------
(***************************************************************************)
(* Why SeparationOfDuties and NeverOverReceived are preserved: units       *)
(* arrive only on the way from APPROVED to RECEIVED, and whoever approved  *)
(* an order on that way did not create it.                                 *)
(***************************************************************************)
Receiving == {"PARTIALLY_RECEIVED", "RECEIVED"}

ArrivedOnTheWay ==
  \A i \in Item : quantity_received[i] > 0 => po_status[i[1]] \in Receiving

ApprovedByAnother ==
  \A o \in PurchaseOrder :
    po_status[o] \in Receivable \cup Receiving =>
      approved_by[o] \in User /\ approved_by[o] # created_by[o]

DutyInv == POTypeOK /\ ArrivedOnTheWay /\ ApprovedByAnother /\ NeverOverReceived

LEMMA DutySeparates == DutyInv => SeparationOfDuties
BY ItemPair DEF DutyInv, ArrivedOnTheWay, ApprovedByAnother, SeparationOfDuties

LEMMA DraftKeepsDuty ==
  ASSUME DutyInv, POTypeOK', NEW o \in PurchaseOrder, NEW w \in Warehouse,
         NEW u \in User, NEW product \in [Line -> Product \cup {None}],
         NEW qty \in [Line -> OrderedQty],
         DraftWritten(o, w, u, product, qty)
  PROVE  DutyInv'
<1>1. /\ po_status[o] = "NONE"
      /\ po_status' = [po_status EXCEPT ![o] = "DRAFT"]
      /\ created_by' = [created_by EXCEPT ![o] = u]
      /\ UNCHANGED <<approved_by, quantity_received>>
      /\ \A i \in Item : i[1] # o => quantity_ordered'[i] = quantity_ordered[i]
  BY DEF DraftWritten
<1>2. \A i \in Item : i[1] = o => quantity_received[i] = 0
  BY <1>1 DEF DutyInv, ArrivedOnTheWay, POTypeOK, Receiving
<1>3. NeverOverReceived'
  BY <1>1, <1>2 DEF DutyInv, NeverOverReceived
<1>4. ArrivedOnTheWay'
  BY <1>1, <1>2, ItemPair DEF DutyInv, ArrivedOnTheWay, POTypeOK
<1>5. ApprovedByAnother'
  BY <1>1 DEF DutyInv, ApprovedByAnother, POTypeOK, Receivable, Receiving
<1>6. QED
  BY <1>3, <1>4, <1>5 DEF DutyInv

LEMMA ReceiveKeepsDuty ==
  ASSUME DutyInv, POTypeOK', NEW o \in PurchaseOrder,
         NEW recv \in [Line -> Nat], ReceiptWritten(o, recv)
  PROVE  DutyInv'
<1>1. /\ po_status[o] \in Receivable
      /\ po_status' = [po_status EXCEPT ![o] = ReceivedStatus(o, recv)]
      /\ UNCHANGED <<approved_by, created_by, item_product, quantity_ordered>>
      /\ Remaining(o, recv)
  BY DEF ReceiptWritten
<1>2. ReceivedStatus(o, recv) \in Receiving
  BY DEF ReceivedStatus, Receiving
<1>3. \A i \in Item :
        quantity_received'[i] = IF i[1] = o /\ item_product[i] # None
                                THEN quantity_received[i] + recv[i[2]]
                                ELSE quantity_received[i]
  BY DEF ReceiptWritten
<1>4. ArrivedOnTheWay'
  BY <1>1, <1>2, <1>3, ItemPair DEF DutyInv, ArrivedOnTheWay, POTypeOK
<1>5. ApprovedByAnother'
  BY <1>1, <1>2 DEF DutyInv, ApprovedByAnother, POTypeOK
<1>6. NeverOverReceived'
  <2> SUFFICES ASSUME NEW i \in Item, quantity_received'[i] > 0
               PROVE  quantity_received'[i] <= quantity_ordered[i]
    BY <1>1 DEF NeverOverReceived
  <2>1. quantity_received[i] \in Nat /\ quantity_ordered[i] \in Int
        /\ (quantity_received[i] > 0 => quantity_received[i] <= quantity_ordered[i])
    BY DEF DutyInv, NeverOverReceived, POTypeOK
  <2>2. i[2] \in Line /\ recv[i[2]] \in Nat /\ i = <<i[1], i[2]>>
    BY ItemPair
  <2>3. CASE i[1] = o /\ item_product[i] # None /\ recv[i[2]] > 0
    <3>1. recv[i[2]] <= quantity_ordered[i] - quantity_received[i]
      BY <1>1, <2>2, <2>3 DEF Remaining, HasLine
    <3>2. QED
      BY <1>3, <2>1, <2>2, <2>3, <3>1
  <2>4. CASE ~(i[1] = o /\ item_product[i] # None /\ recv[i[2]] > 0)
    BY <1>3, <2>1, <2>2, <2>4
  <2>5. QED
    BY <2>3, <2>4
<1>7. QED
  BY <1>4, <1>5, <1>6 DEF DutyInv

LEMMA TablesDuty ==
  ASSUME DutyInv, POTables
  PROVE  DutyInv'
<1>1. POTypeOK'
  BY TablesType DEF DutyInv
<1>2. ASSUME NEW o \in PurchaseOrder, SubmitWritten(o) \/ CancelWritten(o)
      PROVE  DutyInv'
  <2>1. /\ po_status[o] \in {"DRAFT"} \cup CancellablePO
        /\ \/ po_status' = [po_status EXCEPT ![o] = "PENDING_APPROVAL"]
           \/ po_status' = [po_status EXCEPT ![o] = "CANCELLED"]
        /\ UNCHANGED <<created_by, approved_by, quantity_ordered, quantity_received>>
    BY <1>2 DEF SubmitWritten, CancelWritten
  <2>2. \A i \in Item : i[1] = o => quantity_received[i] = 0
    BY <2>1 DEF DutyInv, ArrivedOnTheWay, POTypeOK, CancellablePO, Receiving
  <2>3. ArrivedOnTheWay'
    BY <2>1, <2>2, ItemPair DEF DutyInv, ArrivedOnTheWay, POTypeOK
  <2>4. ApprovedByAnother' /\ NeverOverReceived'
    BY <2>1 DEF DutyInv, ApprovedByAnother, NeverOverReceived, POTypeOK,
                Receivable, Receiving
  <2>5. QED
    BY <1>1, <2>3, <2>4 DEF DutyInv
<1>3. ASSUME NEW o \in PurchaseOrder, NEW u \in User, ApproveWritten(o, u)
      PROVE  DutyInv'
  <2>1. /\ po_status[o] = "PENDING_APPROVAL" /\ created_by[o] # u
        /\ po_status' = [po_status EXCEPT ![o] = "APPROVED"]
        /\ approved_by' = [approved_by EXCEPT ![o] = u]
        /\ UNCHANGED <<created_by, quantity_ordered, quantity_received>>
    BY <1>3 DEF ApproveWritten, MayApprove
  <2>2. \A i \in Item : i[1] = o => quantity_received[i] = 0
    BY <2>1 DEF DutyInv, ArrivedOnTheWay, POTypeOK, Receiving
  <2>3. ArrivedOnTheWay'
    BY <2>1, <2>2, ItemPair DEF DutyInv, ArrivedOnTheWay, POTypeOK
  <2>4. ApprovedByAnother' /\ NeverOverReceived'
    BY <2>1 DEF DutyInv, ApprovedByAnother, NeverOverReceived, POTypeOK
  <2>5. QED
    BY <1>1, <2>3, <2>4 DEF DutyInv
<1>4. QED
  BY <1>1, <1>2, <1>3, DraftKeepsDuty, ReceiveKeepsDuty, RecvNat
  DEF POTables, OrderWritten

(***************************************************************************)
(* Whatever came in against an order was approved by somebody else than    *)
(* its author, and no line takes in more than was ordered.                 *)
(***************************************************************************)
THEOREM PODutiesSeparated == POSpec => [](SeparationOfDuties /\ NeverOverReceived)
<1> DEFINE IInv == InvTypeOK /\ DutyInv
<1>1. POInit => IInv
  BY POInitType DEF POInit, DutyInv, ArrivedOnTheWay, ApprovedByAnother,
                    NeverOverReceived, Receivable, Receiving
<1>2. DutyInv /\ UNCHANGED poVars => DutyInv'
  BY DEF DutyInv, POTypeOK, ArrivedOnTheWay, ApprovedByAnother,
         NeverOverReceived, poVars
<1>3. InvTypeOK /\ UNCHANGED invVars => InvTypeOK'
  BY DEF InvTypeOK, invVars
<1>4. IInv /\ [PONext \/ (InvNext /\ UNCHANGED poVars)]_<<invVars, poVars>> => IInv'
  BY <1>2, <1>3, PONextWrites, POWritesType, POWritesTables, TablesDuty,
     InvNextWrites, InvWritesType
     DEF DutyInv
<1>5. IInv => SeparationOfDuties /\ NeverOverReceived
  BY DutySeparates DEF DutyInv
<1>6. QED
  BY <1>1, <1>4, <1>5, PTL DEF POSpec

(***************************************************************************)
(* The first half of it, over all receipts of an order.                    *)
(***************************************************************************)
THEOREM PONeverOverReceived == POSpec => []NeverOverReceived
BY PODutiesSeparated, PTL

-----------------------------------------------------------------------------
Complete(o, l) == quantity_received[<<o, l>>] >= quantity_ordered[<<o, l>>]

\* The two statuses of an order that has been received tell which.
StatusTold ==
  \A o \in PurchaseOrder :
    /\ po_status[o] = "RECEIVED" =>
         \A l \in Line : HasLine(o, l) => Complete(o, l)
    /\ po_status[o] = "PARTIALLY_RECEIVED" =>
         \E l \in Line : HasLine(o, l) /\ ~Complete(o, l)

LEMMA ToldMatches == DutyInv /\ StatusTold => StatusMatchesReceipts
<1> SUFFICES ASSUME DutyInv, StatusTold PROVE StatusMatchesReceipts
  OBVIOUS
<1>1. ASSUME NEW o \in PurchaseOrder, po_status[o] \notin Receiving, NEW l \in Line
      PROVE  quantity_received[<<o, l>>] = 0
  <2>1. <<o, l>> \in Item
    BY DEF Item
  <2> QED
    BY <1>1, <2>1 DEF DutyInv, ArrivedOnTheWay, POTypeOK
<1> QED
  BY <1>1 DEF StatusTold, StatusMatchesReceipts, Complete, Receiving

LEMMA ReceiveTells ==
  ASSUME POTypeOK, StatusTold, NEW o \in PurchaseOrder,
         NEW recv \in [Line -> Nat], ReceiptWritten(o, recv)
  PROVE  StatusTold'
<1>1. /\ po_status' = [po_status EXCEPT ![o] = ReceivedStatus(o, recv)]
      /\ UNCHANGED <<item_product, quantity_ordered>>
      /\ quantity_received' =
           [i \in Item |-> IF i[1] = o /\ item_product[i] # None
                           THEN quantity_received[i] + recv[i[2]]
                           ELSE quantity_received[i]]
  BY DEF ReceiptWritten
<1>2. ASSUME NEW x \in PurchaseOrder, NEW l \in Line
      PROVE  /\ HasLine(x, l)' = HasLine(x, l)
             /\ x # o => Complete(x, l)' = Complete(x, l)
             /\ HasLine(o, l) => Complete(o, l)' =
                  (quantity_received[<<o, l>>] + recv[l] >= quantity_ordered[<<o, l>>])
  <2>1. <<x, l>> \in Item /\ <<o, l>> \in Item
    BY DEF Item
  <2> QED
    BY <1>1, <2>1 DEF HasLine, Complete
<1>3. po_status'[o] = ReceivedStatus(o, recv)
      /\ \A x \in PurchaseOrder \ {o} : po_status'[x] = po_status[x]
  BY <1>1 DEF POTypeOK
<1>4. ASSUME NEW x \in PurchaseOrder
      PROVE  /\ po_status'[x] = "RECEIVED" =>
                  \A l \in Line : HasLine(x, l)' => Complete(x, l)'
             /\ po_status'[x] = "PARTIALLY_RECEIVED" =>
                  \E l \in Line : HasLine(x, l)' /\ ~Complete(x, l)'
  <2>1. CASE x # o
    BY <1>2, <1>3, <2>1 DEF StatusTold
  <2>2. CASE x = o
    BY <1>2, <1>3, <2>2 DEF ReceivedStatus
  <2> QED
    BY <2>1, <2>2
<1> QED
  BY <1>4 DEF StatusTold

LEMMA TablesTell ==
  ASSUME DutyInv, StatusTold, POTables
  PROVE  StatusTold'
<1>1. POTypeOK
  BY DEF DutyInv
<1>2. ASSUME NEW o \in PurchaseOrder, NEW s \in PurchaseOrderStatus \ Receiving,
             po_status' = [po_status EXCEPT ![o] = s],
             \A x \in PurchaseOrder \ {o}, l \in Line :
               HasLine(x, l)' = HasLine(x, l) /\ Complete(x, l)' = Complete(x, l)
      PROVE  StatusTold'
  BY <1>1, <1>2 DEF StatusTold, POTypeOK, Receiving
<1>3. ASSUME NEW o \in PurchaseOrder, NEW w \in Warehouse, NEW u \in User,
             NEW product \in [Line -> Product \cup {None}],
             NEW qty \in [Line -> OrderedQty],
             DraftWritten(o, w, u, product, qty)
      PROVE  StatusTold'
  <2>1. ASSUME NEW x \in PurchaseOrder \ {o}, NEW l \in Line
        PROVE  HasLine(x, l)' = HasLine(x, l) /\ Complete(x, l)' = Complete(x, l)
    BY <1>3 DEF DraftWritten, HasLine, Complete, Item
  <2> QED
    BY <1>2, <1>3, <2>1 DEF DraftWritten, PurchaseOrderStatus, Receiving
<1>4. ASSUME NEW o \in PurchaseOrder, NEW u \in User, ApproveWritten(o, u)
      PROVE  StatusTold'
  <2>1. UNCHANGED <<item_product, quantity_ordered, quantity_received>>
    BY <1>4 DEF ApproveWritten
  <2>2. PICK s \in PurchaseOrderStatus \ Receiving :
          po_status' = [po_status EXCEPT ![o] = s]
    BY <1>4 DEF ApproveWritten, PurchaseOrderStatus, Receiving
  <2> QED
    BY <1>2, <2>1, <2>2 DEF HasLine, Complete
<1>5. ASSUME NEW o \in PurchaseOrder,
             SubmitWritten(o) \/ CancelWritten(o)
      PROVE  StatusTold'
  <2>1. UNCHANGED <<item_product, quantity_ordered, quantity_received>>
    BY <1>5 DEF SubmitWritten, CancelWritten
  <2>2. PICK s \in PurchaseOrderStatus \ Receiving :
          po_status' = [po_status EXCEPT ![o] = s]
    BY <1>5 DEF SubmitWritten, CancelWritten,
                PurchaseOrderStatus, Receiving
  <2> QED
    BY <1>2, <2>1, <2>2 DEF HasLine, Complete
<1> QED
  BY <1>1, <1>3, <1>4, <1>5, ReceiveTells, RecvNat
  DEF POTables, OrderWritten

(***************************************************************************)
(* receive_purchase_order sets the status from the lines it has just       *)
(* updated: at any time the status of an order tells what has arrived.     *)
(***************************************************************************)
THEOREM POStatusMatchesReceipts == POSpec => []StatusMatchesReceipts
<1> DEFINE IInv == InvTypeOK /\ DutyInv /\ StatusTold
<1>1. POInit => IInv
  BY POInitType DEF POInit, DutyInv, ArrivedOnTheWay, ApprovedByAnother,
                    NeverOverReceived, Receivable, Receiving, StatusTold
<1>2. DutyInv /\ StatusTold /\ UNCHANGED poVars => DutyInv' /\ StatusTold'
  BY DEF DutyInv, POTypeOK, ArrivedOnTheWay, ApprovedByAnother,
         NeverOverReceived, poVars, StatusTold, HasLine, Complete
<1>3. InvTypeOK /\ UNCHANGED invVars => InvTypeOK'
  BY DEF InvTypeOK, invVars
<1>4. IInv /\ [PONext \/ (InvNext /\ UNCHANGED poVars)]_<<invVars, poVars>> => IInv'
  BY <1>2, <1>3, PONextWrites, POWritesType, POWritesTables, TablesDuty, TablesTell,
     InvNextWrites, InvWritesType DEF DutyInv
<1>5. IInv => StatusMatchesReceipts
  BY ToldMatches
<1>6. QED
  BY <1>1, <1>4, <1>5, PTL DEF POSpec

-----------------------------------------------------------------------------
LEMMA FiniteItems == IsFiniteSet(Item)
BY PurchaseOrdersAssumption, FS_Product DEF Item

\* What line i has brought into row k.
LineShare(i, k) ==
  IF item_product[i] = k[1] /\ po_warehouse[i[1]] = k[2]
  THEN quantity_received[i] ELSE 0

LEMMA ReceivedShares ==
  ASSUME POTypeOK, NEW k \in Key
  PROVE  /\ [i \in Item |-> LineShare(i, k)] \in [Item -> Nat]
         /\ Received(k) = Total([i \in Item |-> LineShare(i, k)])
<1>1. \A i \in Item : LineShare(i, k) \in Nat
  BY DEF LineShare, POTypeOK
<1>2. QED
  BY <1>1 DEF Received, LineShare

\* A step that leaves every share alone leaves the total alone.
LEMMA SameReceived ==
  ASSUME \A i \in Item, k \in Key : LineShare(i, k)' = LineShare(i, k)
  PROVE  \A k \in Key : Received(k)' = Received(k)
<1>1. \A k \in Key : Received(k) = Total([i \in Item |-> LineShare(i, k)])
  BY DEF Received, LineShare
<1>2. \A k \in Key : Received(k)' = Total([i \in Item |-> LineShare(i, k)'])
  BY DEF Received, LineShare
<1>3. QED
  BY <1>1, <1>2

\* A receipt raises what the lines have brought into a row by its arrival.
LEMMA ReceiptAdds ==
  ASSUME POTypeOK, POTypeOK', NEW o \in PurchaseOrder,
         NEW recv \in [Line -> Nat], ReceiptWritten(o, recv), NEW k \in Key
  PROVE  Received(k)' = Received(k) + Arrival(o, recv)[k]
<1> DEFINE f == [i \in Item |-> LineShare(i, k)]
           h == [i \in Item |-> LineShare(i, k)']
           b == [l \in Line |->
                   IF po_warehouse[o] = k[2] /\ item_product[<<o, l>>] = k[1]
                   THEN recv[l] ELSE 0]
           g == [i \in Item |-> IF i[1] = o THEN b[i[2]] ELSE 0]
<1>1. /\ quantity_received' =
           [i \in Item |-> IF i[1] = o /\ item_product[i] # None
                           THEN quantity_received[i] + recv[i[2]]
                           ELSE quantity_received[i]]
      /\ UNCHANGED <<item_product, po_warehouse>>
  BY DEF ReceiptWritten
<1>2. b \in [Line -> Nat]
  OBVIOUS
<1>3. g \in [Item -> Nat]
  BY <1>2, ItemPair
<1>4. f \in [Item -> Nat] /\ Total(f) = Received(k)
  BY ReceivedShares
<1>5. h \in [Item -> Nat] /\ Total(h) = Received(k)'
  <2>1. \A i \in Item : LineShare(i, k)' \in Nat
    BY DEF LineShare, POTypeOK
  <2>2. QED
    BY <2>1 DEF Received, LineShare
<1>6. \A i \in Item : h[i] = f[i] + g[i]
  <2> SUFFICES ASSUME NEW i \in Item
               PROVE  LineShare(i, k)' = LineShare(i, k)
                        + (IF i[1] = o THEN b[i[2]] ELSE 0)
    OBVIOUS
  <2>1. i[2] \in Line /\ i = <<i[1], i[2]>> /\ recv[i[2]] \in Nat
        /\ quantity_received[i] \in Nat /\ k[1] # None
    BY ItemPair, KeyPair DEF POTypeOK
  <2>2. i[1] = o => b[i[2]] = IF po_warehouse[o] = k[2] /\ item_product[i] = k[1]
                              THEN recv[i[2]] ELSE 0
    BY <2>1
  <2>3. quantity_received'[i] = IF i[1] = o /\ item_product[i] # None
                                THEN quantity_received[i] + recv[i[2]]
                                ELSE quantity_received[i]
    BY <1>1
  <2>4. QED
    <3> HIDE DEF b
    <3> QED BY <1>1, <2>1, <2>2, <2>3 DEF LineShare
<1>7. Total(g) = Total(b)
  <2>1. g = Section(PurchaseOrder, Line, o, b)
    BY DEF Section, Item
  <2>2. IsFiniteSet(Line)
    BY PurchaseOrdersAssumption
  <2> HIDE DEF g, b
  <2>3. QED
    BY <1>2, <2>1, <2>2, SectionTotal
<1>8. Total(b) = Arrival(o, recv)[k]
  <2>1. CASE po_warehouse[o] = k[2]
    <3>1. b = [l \in Line |-> IF item_product[<<o, l>>] = k[1] THEN recv[l] ELSE 0]
      BY <2>1
    <3>2. QED
      BY <2>1, <3>1 DEF Arrival, Arriving
  <2>2. CASE po_warehouse[o] # k[2]
    <3>1. \A l \in Line : b[l] = 0
      BY <2>2
    <3>2. Total(b) = 0
      <4> HIDE DEF b
      <4> QED BY <1>2, <3>1, TotalZero
    <3>3. QED
      BY <2>2, <3>2 DEF Arrival
  <2>3. QED
    BY <2>1, <2>2
<1>9. Total(h) = Total(f) + Total(g)
  <2> HIDE DEF f, g, h
  <2> QED BY <1>3, <1>4, <1>5, <1>6, TotalSum, FiniteItems
<1>10. QED
  BY <1>4, <1>5, <1>7, <1>8, <1>9

\* A receipt posts what it adds to the available column.
LEMMA ReceiptKeepsLedger ==
  ASSUME InvTypeOK, LedgerBalanced, NEW o \in PurchaseOrder,
         NEW recv \in [Line -> Nat], PurchaseOrderReceived(o, recv)
  PROVE  /\ LedgerBalanced'
         /\ \A k \in Key : Posted(k, "RECEIPT")' =
                             Posted(k, "RECEIPT") + Arrival(o, recv)[k]
<1> DEFINE u == Arrival(o, recv)
<1>1. u \in [Key -> Nat]
  BY ArrivalNat
<1>2. /\ quantity_available' = [k \in Key |-> quantity_available[k] + u[k]]
      /\ ledger' = [x \in Key \X Posting |->
                      IF x[2] = "RECEIPT" THEN ledger[x] + u[x[1]] ELSE ledger[x]]
      /\ UNCHANGED <<quantity_reserved, quantity_damaged>>
  BY DEF PurchaseOrderReceived
<1> HIDE DEF u
<1>3. \A k \in Key, post \in Posting :
        Posted(k, post)' = Posted(k, post) + (IF post = "RECEIPT" THEN u[k] ELSE 0)
  <2> SUFFICES ASSUME NEW k \in Key, NEW post \in Posting
               PROVE  ledger'[<<k, post>>] = ledger[<<k, post>>]
                        + (IF post = "RECEIPT" THEN u[k] ELSE 0)
    BY DEF Posted
  <2>1. ledger[<<k, post>>] \in Nat
    BY DEF InvTypeOK
  <2>2. QED
    BY <1>1, <1>2, <2>1
<1>4. \A k \in Key : Recorded(k)' = Recorded(k) + u[k] /\ Recorded(k) \in Int
  <2>1. "RECEIPT" \in Posting /\ "RECEIPT" \in Incoming
    BY DEF Posting, Incoming
  <2>2. \A k \in Key : Recorded(k)' = Recorded(k) + u[k]
    BY <1>1, <1>3, <2>1, PostUnits DEF InvTypeOK
  <2>3. \A k \in Key : Recorded(k) \in Int
    BY PostedNat DEF InvTypeOK, Recorded
  <2>4. QED
    BY <2>2, <2>3
<1>5. \A k \in Key : Posted(k, "DAMAGE_REPORT")' = Posted(k, "DAMAGE_REPORT")
  BY <1>3, PostedNat DEF Posting, InvTypeOK
<1>6. LedgerBalanced'
  <2> SUFFICES ASSUME NEW k \in Key
               PROVE  /\ quantity_available'[k] + quantity_reserved'[k] = Recorded(k)'
                      /\ quantity_damaged'[k] = Posted(k, "DAMAGE_REPORT")'
    BY DEF LedgerBalanced
  <2>1. /\ quantity_available[k] + quantity_reserved[k] = Recorded(k)
        /\ quantity_damaged[k] = Posted(k, "DAMAGE_REPORT")
    BY DEF LedgerBalanced
  <2>2. quantity_available[k] \in Int /\ quantity_reserved[k] \in Int /\ u[k] \in Nat
    BY <1>1 DEF InvTypeOK
  <2>3. QED
    BY <1>2, <1>4, <1>5, <2>1, <2>2
<1>7. \A k \in Key : Posted(k, "RECEIPT")' = Posted(k, "RECEIPT") + u[k]
  BY <1>3 DEF Posting
<1>8. QED
  BY <1>6, <1>7 DEF u

LEMMA NothingReceived ==
  ASSUME DutyInv, NEW o \in PurchaseOrder, OrderWritten(o)
  PROVE  \A k \in Key : Received(k)' = Received(k)
<1>1. ASSUME NEW w \in Warehouse, NEW u \in User,
             NEW product \in [Line -> Product \cup {None}],
             NEW qty \in [Line -> OrderedQty],
             DraftWritten(o, w, u, product, qty)
      PROVE  \A i \in Item, k \in Key : LineShare(i, k)' = LineShare(i, k)
  <2>1. /\ quantity_received' = quantity_received
        /\ po_status[o] = "NONE"
        /\ \A i \in Item : i[1] # o => item_product'[i] = item_product[i]
        /\ \A x \in PurchaseOrder : x # o => po_warehouse'[x] = po_warehouse[x]
    BY <1>1 DEF DraftWritten, DutyInv, POTypeOK
  <2>2. \A i \in Item : i[1] = o => quantity_received[i] = 0
    BY <2>1 DEF DutyInv, ArrivedOnTheWay, POTypeOK, Receiving
  <2> QED
    BY <2>1, <2>2, ItemPair DEF LineShare
<1>2. ASSUME \/ SubmitWritten(o) \/ CancelWritten(o)
             \/ \E u \in User : ApproveWritten(o, u)
      PROVE  \A i \in Item, k \in Key : LineShare(i, k)' = LineShare(i, k)
  <2>1. UNCHANGED <<po_warehouse, item_product, quantity_received>>
    BY <1>2 DEF SubmitWritten, CancelWritten, ApproveWritten
  <2> QED
    BY <2>1 DEF LineShare
<1> QED
  BY <1>1, <1>2, SameReceived DEF OrderWritten

LEMMA POWritesReceipts ==
  ASSUME InvTypeOK, DutyInv, LedgerBalanced, ReceiptsAccounted, POWrites
  PROVE  LedgerBalanced' /\ ReceiptsAccounted'
<1>1. POTypeOK /\ POTypeOK'
  BY POWritesType DEF DutyInv
<1>2. ASSUME NEW o \in PurchaseOrder, OrderWritten(o), UNCHANGED invVars
      PROVE  LedgerBalanced' /\ ReceiptsAccounted'
  <2>1. \A k \in Key : Received(k)' = Received(k)
    BY <1>2, NothingReceived
  <2>2. \A k \in Key : Posted(k, "RECEIPT")' = Posted(k, "RECEIPT")
    BY <1>2 DEF Posted, invVars
  <2>3. LedgerBalanced'
    BY <1>2 DEF invVars, LedgerBalanced, Recorded, Posted
  <2> QED
    BY <2>1, <2>2, <2>3 DEF ReceiptsAccounted
<1>3. ASSUME NEW o \in PurchaseOrder, NEW recv \in [Line -> 0..MaxInteger],
             PurchaseOrderReceived(o, recv), ReceiptWritten(o, recv)
      PROVE  LedgerBalanced' /\ ReceiptsAccounted'
  <2>1. recv \in [Line -> Nat]
    BY RecvNat
  <2>2. \A k \in Key : Received(k)' = Received(k) + Arrival(o, recv)[k]
    BY <1>1, <1>3, <2>1, ReceiptAdds
  <2>3. /\ LedgerBalanced'
        /\ \A k \in Key : Posted(k, "RECEIPT")' =
                            Posted(k, "RECEIPT") + Arrival(o, recv)[k]
    BY <1>3, <2>1, ReceiptKeepsLedger
  <2>4. \A k \in Key : Posted(k, "RECEIPT")' = Received(k)'
    BY <2>2, <2>3 DEF ReceiptsAccounted
  <2>5. QED
    BY <2>3, <2>4 DEF ReceiptsAccounted
<1> QED
  BY <1>2, <1>3, POWritesTables

LEMMA InvStepKeepsReceipts ==
  ASSUME InvTypeOK, ReceiptsAccounted, InvWrites, UNCHANGED poVars
  PROVE  ReceiptsAccounted'
<1>1. \A k \in Key : ledger'[<<k, "RECEIPT">>] = ledger[<<k, "RECEIPT">>]
  <2>1. ASSUME NEW p \in Product, NEW w \in Warehouse, NEW t \in TransactionType,
               NEW q \in Quantity, StockAdjusted(p, w, t, q), NEW k \in Key
        PROVE  ledger'[<<k, "RECEIPT">>] = ledger[<<k, "RECEIPT">>]
    BY <2>1 DEF StockAdjusted, TransactionType, InvTypeOK, Posting
  <2>2. ASSUME NEW p \in Product, NEW s \in Warehouse, NEW d \in Warehouse,
               NEW q \in Quantity, TransferInventory(p, s, d, q), NEW k \in Key
        PROVE  ledger'[<<k, "RECEIPT">>] = ledger[<<k, "RECEIPT">>]
    BY <2>2 DEF TransferInventory, TransferPosted, InvTypeOK, Posting
  <2>3. ASSUME NEW w \in Warehouse, WarehouseMarked(w)
        PROVE  ledger' = ledger
    BY <2>3 DEF WarehouseMarked
  <2>4. QED
    BY <2>1, <2>2, <2>3 DEF InvWrites
<1>2. \A k \in Key : Posted(k, "RECEIPT")' = Posted(k, "RECEIPT")
  BY <1>1 DEF Posted
<1>3. \A i \in Item, k \in Key : LineShare(i, k)' = LineShare(i, k)
  BY DEF LineShare, poVars
<1>4. \A k \in Key : Received(k)' = Received(k)
  BY <1>3, SameReceived
<1>5. QED
  BY <1>2, <1>4 DEF ReceiptsAccounted

LEMMA POInitReceipts == POInit => LedgerBalanced /\ ReceiptsAccounted
<1> SUFFICES ASSUME POInit, NEW k \in Key
             PROVE  /\ quantity_available[k] + quantity_reserved[k] = Recorded(k)
                    /\ quantity_damaged[k] = Posted(k, "DAMAGE_REPORT")
                    /\ Posted(k, "RECEIPT") = Received(k)
  BY DEF LedgerBalanced, ReceiptsAccounted
<1> DEFINE f == [i \in Item |-> LineShare(i, k)]
<1>1. \A post \in Posting : Posted(k, post) = 0
  BY DEF POInit, InvInit, Posted
<1>2. f \in [Item -> Nat] /\ \A i \in Item : f[i] = 0
  BY DEF POInit, LineShare
<1>3. Total(f) = 0
  <2> HIDE DEF f
  <2> QED BY <1>2, TotalZero
<1>4. Received(k) = 0
  BY <1>3, POInitType, ReceivedShares
<1>5. QED
  BY <1>1, <1>4 DEF POInit, InvInit, Recorded, Posting

(***************************************************************************)
(* The units the lines have received are the units the audit table records *)
(* as receipts, and the audit table explains the stock of every row.       *)
(***************************************************************************)
THEOREM POReceiptsAccounted == POSpec => [](LedgerBalanced /\ ReceiptsAccounted)
<1> DEFINE IInv == InvTypeOK /\ DutyInv /\ LedgerBalanced /\ ReceiptsAccounted
<1>1. POInit => IInv
  BY POInitType, POInitReceipts
     DEF POInit, DutyInv, ArrivedOnTheWay, ApprovedByAnother,
         NeverOverReceived, Receivable, Receiving
<1>2. DutyInv /\ UNCHANGED poVars => DutyInv'
  BY DEF DutyInv, POTypeOK, ArrivedOnTheWay, ApprovedByAnother,
         NeverOverReceived, poVars
<1>3. IInv /\ UNCHANGED <<invVars, poVars>> => IInv'
  <2> SUFFICES ASSUME IInv, UNCHANGED <<invVars, poVars>> PROVE IInv'
    OBVIOUS
  <2>1. InvTypeOK' /\ LedgerBalanced'
    BY DEF InvTypeOK, LedgerBalanced, Recorded, Posted, invVars
  <2>2. ReceiptsAccounted'
    BY DEF ReceiptsAccounted, Received, Posted, invVars, poVars
  <2>3. QED
    BY <1>2, <2>1, <2>2
<1>4. IInv /\ [PONext \/ (InvNext /\ UNCHANGED poVars)]_<<invVars, poVars>> => IInv'
  BY <1>2, <1>3, PONextWrites, POWritesType, POWritesTables, TablesDuty,
     POWritesReceipts,
     InvNextWrites, InvWritesType,
     InvWritesBalance, InvStepKeepsReceipts DEF DutyInv
<1>5. QED
  BY <1>1, <1>4, PTL DEF POSpec

=============================================================================
