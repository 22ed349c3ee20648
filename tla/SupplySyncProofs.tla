-------------------------- MODULE SupplySyncProofs --------------------------
(***************************************************************************)
(* The invariants of the service layer as a whole.  Each component keeps   *)
(* its own by the lemmas of its module; here it is shown that no component *)
(* breaks those of another, and what they say together.                    *)
(***************************************************************************)
EXTENDS SupplySync, SalesOrdersProofs, PurchaseOrdersProofs

\* The invariant of the whole: the tables of each component and the columns
\* and postings it shares with the others.
SyncInv ==
  /\ InvTypeOK
  /\ SOTypeOK
  /\ DutyInv
  /\ StockNonNegative
  /\ LedgerBalanced
  /\ ReservationsBacked
  /\ DispatchesAccounted
  /\ ReceiptsAccounted

-----------------------------------------------------------------------------
LEMMA OrderedKept ==
  ASSUME UNCHANGED soVars
  PROVE  \A S : \A k \in Key : Ordered(k, S)' = Ordered(k, S)
BY DEF Ordered, Share, soVars

LEMMA ReceivedKept ==
  ASSUME UNCHANGED poVars
  PROVE  DutyInv => DutyInv' /\ \A k \in Key : Received(k)' = Received(k)
BY DEF DutyInv, POTypeOK, ArrivedOnTheWay, ApprovedByAnother,
       NeverOverReceived, Received, poVars

\* A purchase order raises available stock, posts receipts and adds rows; it
\* touches nothing a sales order relies on.
LEMMA POWritesKeepSales ==
  ASSUME SyncInv, POWrites, UNCHANGED soVars
  PROVE  /\ SOTypeOK' /\ StockNonNegative'
         /\ ReservationsBacked' /\ DispatchesAccounted'
<1> DEFINE Spared ==
             /\ rows \subseteq rows'
             /\ quantity_reserved' = quantity_reserved
             /\ quantity_damaged' = quantity_damaged
             /\ \A k \in Key : quantity_available'[k] >= 0
             /\ \A k \in Key : Posted(k, "DISPATCH")' = Posted(k, "DISPATCH")
<1>1. Spared
  <2>1. ASSUME UNCHANGED invVars
        PROVE  Spared
    BY <2>1 DEF SyncInv, StockNonNegative, Posted, invVars
  <2>2. ASSUME NEW o \in PurchaseOrder, NEW recv \in [Line -> 0..MaxInteger],
               PurchaseOrderReceived(o, recv)
        PROVE  Spared
    <3> DEFINE arrival == Arrival(o, recv)
    <3>1. arrival \in [Key -> Nat]
      BY RecvNat, ArrivalNat
    <3>2. /\ rows' = rows \cup {k \in Key : arrival[k] > 0}
          /\ quantity_available' = [k \in Key |-> quantity_available[k] + arrival[k]]
          /\ ledger' = [x \in Key \X Posting |->
               IF x[2] = "RECEIPT" THEN ledger[x] + arrival[x[1]] ELSE ledger[x]]
          /\ UNCHANGED <<quantity_reserved, quantity_damaged>>
      BY <2>2 DEF PurchaseOrderReceived, Restocked
    <3>3. \A k \in Key : quantity_available[k] \in Int /\ quantity_available[k] >= 0
      BY DEF SyncInv, InvTypeOK, StockNonNegative
    <3> HIDE DEF arrival
    <3>4. \A k \in Key : quantity_available'[k] >= 0
      BY <3>1, <3>2, <3>3
    <3>5. \A k \in Key : Posted(k, "DISPATCH")' = Posted(k, "DISPATCH")
      BY <3>2 DEF Posted, Posting
    <3>6. QED
      BY <3>2, <3>4, <3>5
  <2>3. QED
    BY <2>1, <2>2 DEF POWrites
<1>2. SOTypeOK'
  BY <1>1 DEF SyncInv, SOTypeOK, soVars
<1>3. StockNonNegative'
  BY <1>1 DEF SyncInv, StockNonNegative
<1>4. ReservationsBacked' /\ DispatchesAccounted'
  BY <1>1, OrderedKept DEF SyncInv, ReservationsBacked, DispatchesAccounted
<1>5. QED
  BY <1>2, <1>3, <1>4

\* A sales order posts dispatches only.
LEMMA SOWritesKeepReceipts ==
  ASSUME SyncInv, SOWrites, UNCHANGED poVars
  PROVE  ReceiptsAccounted'
<1>1. \A k \in Key : ledger'[<<k, "RECEIPT">>] = ledger[<<k, "RECEIPT">>]
  <2>1. ASSUME NEW o \in SalesOrder, DispatchSalesOrder(o), NEW k \in Key
        PROVE  ledger'[<<k, "RECEIPT">>] = ledger[<<k, "RECEIPT">>]
    BY <2>1 DEF DispatchSalesOrder, DispatchPosted, Posting
  <2>2. ASSUME NEW o \in SalesOrder,
               \/ DeliverSalesOrder(o)
               \/ CancelSalesOrder(o)
               \/ \E w \in Warehouse, items \in [Product -> 0..MaxInteger] :
                    SalesOrderCreated(o, w, items)
        PROVE  ledger' = ledger
    BY <2>2 DEF DeliverSalesOrder, CancelSalesOrder, SalesOrderCreated, invVars
  <2>3. QED
    BY <2>1, <2>2 DEF SOWrites
<1>2. \A k \in Key : Received(k)' = Received(k)
  BY ReceivedKept DEF SyncInv
<1>3. \A k \in Key : Posted(k, "RECEIPT")' = Posted(k, "RECEIPT")
  BY <1>1 DEF Posted
<1>4. QED
  BY <1>2, <1>3 DEF SyncInv, ReceiptsAccounted

LEMMA SyncInit == Init => SyncInv
<1> SUFFICES ASSUME Init PROVE SyncInv
  OBVIOUS
<1>1. InvTypeOK /\ SOTypeOK /\ StockNonNegative
  BY InvInitType DEF Init, SOInit, InvInit, SOTypeOK, StockNonNegative
<1>2. DutyInv
  BY POInitType DEF Init, POInit, DutyInv, ArrivedOnTheWay, ApprovedByAnother,
                    NeverOverReceived, Receivable, Receiving
<1>3. QED
  BY <1>1, <1>2, SOInitReservation, SOInitLedger, POInitReceipts
     DEF Init, SyncInv

\* What the service layer writes, whatever warehouses it has found.
SyncWrites ==
  \/ InvWrites /\ UNCHANGED <<soVars, poVars>>
  \/ SOWrites /\ UNCHANGED poVars
  \/ POWrites /\ UNCHANGED soVars

LEMMA NextWrites == Next => SyncWrites
BY InvNextWrites, SONextWrites, PONextWrites DEF Next, SyncWrites

LEMMA SyncWritesKeep ==
  ASSUME SyncInv, SyncWrites
  PROVE  SyncInv'
<1> USE DEF SyncInv
<1>1. CASE InvWrites /\ UNCHANGED <<soVars, poVars>>
  BY <1>1, InvWritesType, InvWritesStock, InvWritesBalance, InvStepKeepsOrders,
     InvStepKeepsReservations, InvStepKeepsDispatches, InvStepKeepsReceipts,
     ReceivedKept
<1>2. CASE SOWrites /\ UNCHANGED poVars
  BY <1>2, SOWritesType, SOWritesReservation, SOWritesLedger, SOWritesKeepReceipts,
     ReceivedKept
<1>3. CASE POWrites /\ UNCHANGED soVars
  <2>1. POTypeOK
    BY DEF DutyInv
  <2>2. QED
    BY <1>3, <2>1, POWritesType, POWritesTables, TablesDuty, POWritesReceipts,
       POWritesKeepSales
<1>4. QED
  BY <1>1, <1>2, <1>3 DEF SyncWrites

LEMMA SyncNext ==
  ASSUME SyncInv, Next
  PROVE  SyncInv'
BY NextWrites, SyncWritesKeep

LEMMA SyncStutter ==
  ASSUME SyncInv, UNCHANGED vars
  PROVE  SyncInv'
<1>1. UNCHANGED invVars /\ UNCHANGED soVars /\ UNCHANGED poVars
  BY DEF vars
<1>2. InvTypeOK' /\ StockNonNegative' /\ LedgerBalanced'
  BY <1>1 DEF SyncInv, InvTypeOK, StockNonNegative, LedgerBalanced, Recorded,
              Posted, invVars
<1>3. SOTypeOK'
  BY <1>1 DEF SyncInv, SOTypeOK, soVars, invVars
<1>4. \A kind : \A k \in Key : Posted(k, kind)' = Posted(k, kind)
  BY <1>1 DEF Posted, invVars
<1>5. quantity_reserved' = quantity_reserved
  BY <1>1 DEF invVars
<1>6. ReservationsBacked' /\ DispatchesAccounted'
  BY <1>1, <1>4, <1>5, OrderedKept
     DEF SyncInv, ReservationsBacked, DispatchesAccounted
<1>7. DutyInv' /\ ReceiptsAccounted'
  BY <1>1, <1>4, ReceivedKept DEF SyncInv, ReceiptsAccounted
<1> QED
  BY <1>2, <1>3, <1>6, <1>7 DEF SyncInv

-----------------------------------------------------------------------------
\* An order is held or shipped, never both.
LEMMA HeldAndShipped ==
  ASSUME SOTypeOK, NEW k \in Key
  PROVE  /\ Ordered(k, Holding \cup Shipped) =
              Ordered(k, Holding) + Ordered(k, Shipped)
         /\ Ordered(k, Holding) \in Nat /\ Ordered(k, Shipped) \in Nat
<1> DEFINE f == [o \in SalesOrder |-> Share(o, k, Holding)]
           g == [o \in SalesOrder |-> Share(o, k, Shipped)]
           h == [o \in SalesOrder |-> Share(o, k, Holding \cup Shipped)]
<1>1. f \in [SalesOrder -> Nat] /\ g \in [SalesOrder -> Nat]
      /\ h \in [SalesOrder -> Nat]
  BY ShareNat
<1>2. \A o \in SalesOrder : h[o] = f[o] + g[o]
  <2>1. ASSUME NEW o \in SalesOrder
        PROVE  Share(o, k, Holding \cup Shipped) =
                 Share(o, k, Holding) + Share(o, k, Shipped)
    <3>1. so_items[o][k[1]] \in Nat
      BY KeyParts DEF SOTypeOK
    <3>2. QED
      BY <3>1 DEF Share, Holding, Shipped
  <2>2. QED
    BY <2>1
<1>3. Total(h) = Total(f) + Total(g) /\ Total(f) \in Nat /\ Total(g) \in Nat
  <2> HIDE DEF f, g, h
  <2> QED BY <1>1, <1>2, TotalSum, TotalNat, SalesOrdersAssumption
<1>4. QED
  BY <1>3 DEF Ordered

LEMMA SyncExplains == SyncInv => StockExplained
<1> SUFFICES ASSUME SyncInv, NEW k \in Key
             PROVE  quantity_available[k] + quantity_damaged[k]
                      + Ordered(k, Holding \cup Shipped) =
                    Received(k) + Posted(k, "INBOUND") + Posted(k, "ADJUSTMENT")
                      + Posted(k, "TRANSFER_IN") - Posted(k, "OUTBOUND")
                      - Posted(k, "TRANSFER_OUT")
  BY DEF StockExplained
<1>1. /\ quantity_available[k] + quantity_reserved[k] = Recorded(k)
      /\ quantity_damaged[k] = Posted(k, "DAMAGE_REPORT")
      /\ quantity_reserved[k] = Ordered(k, Holding)
      /\ Posted(k, "DISPATCH") = Ordered(k, Shipped)
      /\ Posted(k, "RECEIPT") = Received(k)
      /\ quantity_available[k] \in Int
  BY DEF SyncInv, LedgerBalanced, ReservationsBacked, DispatchesAccounted,
         ReceiptsAccounted, InvTypeOK
<1>2. Ordered(k, Holding \cup Shipped) = Ordered(k, Holding) + Ordered(k, Shipped)
      /\ Ordered(k, Holding) \in Nat
  BY HeldAndShipped DEF SyncInv
<1>3. QED
  BY <1>1, <1>2, PostedNat DEF SyncInv, InvTypeOK, Recorded

(***************************************************************************)
(* The service layer as a whole: the stock of every row is explained by    *)
(* the order tables and the manual movements, and every row agrees with    *)
(* the audit table.                                                        *)
(***************************************************************************)
THEOREM SyncStockExplained == Spec => [](StockExplained /\ LedgerBalanced)
<1>1. SyncInv /\ [Next]_vars => SyncInv'
  BY SyncNext, SyncStutter
<1>2. SyncInv => StockExplained /\ LedgerBalanced
  BY SyncExplains DEF SyncInv
<1>3. QED
  BY SyncInit, <1>1, <1>2, PTL DEF Spec

(***************************************************************************)
(* Type correctness of all tables of the service layer.                    *)
(***************************************************************************)
THEOREM SyncTypeCorrect == Spec => []TypeOK
<1>1. SyncInv /\ [Next]_vars => SyncInv'
  BY SyncNext, SyncStutter
<1>2. SyncInv => TypeOK
  BY DEF SyncInv, DutyInv, TypeOK
<1>3. QED
  BY SyncInit, <1>1, <1>2, PTL DEF Spec

LEMMA SyncKeepsPromise ==
  ASSUME SyncInv, SyncInv', [SyncWrites]_vars
  PROVE  [Promise!Next]_(Promise!promiseVars)
<1>1. SyncInv => Kept
  BY DEF SyncInv, Kept
<1>2. (SyncInv => Kept)'
  BY DEF SyncInv, Kept
<1>3. SOWrites \/ UNCHANGED soVars
  BY DEF SyncWrites, vars
<1> QED
  BY <1>1, <1>2, <1>3, PromiseSteps

(***************************************************************************)
(* The service layer implements StockPromise: receipts, adjustments and    *)
(* transfers only move stock that no order has set aside.                  *)
(***************************************************************************)
THEOREM SyncKeepsPromises == Spec => KeepsPromises
<1>1. SyncInv /\ [Next]_vars => SyncInv'
  BY SyncNext, SyncStutter
<1>2. SyncInv /\ SyncInv' /\ [Next]_vars => [Promise!Next]_(Promise!promiseVars)
  BY NextWrites, SyncKeepsPromise
<1>3. Init => Promise!Init
  BY PromiseInit DEF Init
<1>4. QED
  BY SyncInit, <1>1, <1>2, <1>3, PTL DEF Spec, KeepsPromises, Promise!Spec

(***************************************************************************)
(* The columns, the order tables and the audit table agree row by row,     *)
(* each being written by services of other components too: no column is    *)
(* oversold, what is reserved is held by an open order, dispatches and     *)
(* receipts are recorded once.                                             *)
(***************************************************************************)
THEOREM SyncTablesAgree ==
  Spec => [](/\ StockNonNegative /\ ReservationsBacked
             /\ DispatchesAccounted /\ ReceiptsAccounted)
<1>1. SyncInv /\ [Next]_vars => SyncInv'
  BY SyncNext, SyncStutter
<1>2. SyncInv => /\ StockNonNegative /\ ReservationsBacked
                 /\ DispatchesAccounted /\ ReceiptsAccounted
  BY DEF SyncInv
<1>3. QED
  BY SyncInit, <1>1, <1>2, PTL DEF Spec

LEMMA SyncKeepsStatusTold ==
  ASSUME SyncInv, StatusTold, [SyncWrites]_vars
  PROVE  StatusTold'
<1>1. StatusTold /\ UNCHANGED poVars => StatusTold'
  BY DEF StatusTold, HasLine, Complete, poVars
<1>2. QED
  BY <1>1, POWritesTables, TablesTell DEF SyncWrites, vars, SyncInv

(***************************************************************************)
(* In the composed system, too, stock comes in only against orders that    *)
(* another user approved, never beyond a line, and the status of an order  *)
(* says which of its lines have arrived.                                   *)
(***************************************************************************)
THEOREM SyncDuties ==
  Spec => [](SeparationOfDuties /\ NeverOverReceived /\ StatusMatchesReceipts)
<1> DEFINE IInv == SyncInv /\ StatusTold
<1>1. Init => IInv
  BY SyncInit DEF Init, POInit, StatusTold
<1>2. IInv /\ [Next]_vars => IInv'
  BY SyncNext, SyncStutter, NextWrites, SyncKeepsStatusTold
<1>3. IInv => SeparationOfDuties /\ NeverOverReceived /\ StatusMatchesReceipts
  BY DutySeparates, ToldMatches DEF SyncInv, DutyInv
<1>4. QED
  BY <1>1, <1>2, <1>3, PTL DEF Spec

(***************************************************************************)
(* No deletion strands the stock that an open order holds, although        *)
(* receipts change the columns that delete_warehouse looks at.             *)
(***************************************************************************)
THEOREM SyncHeldStockNotDeleted == Spec => []HeldStockNotDeleted
<1> DEFINE IInv == SyncInv /\ HeldStockNotDeleted
<1>1. Init => IInv
  BY SyncInit DEF Init, SOInit, HeldStockNotDeleted, Holding
<1>2. UNCHANGED <<soVars, deleted>> /\ HeldStockNotDeleted => HeldStockNotDeleted'
  BY DEF HeldStockNotDeleted, soVars
<1>3. PONext \/ UNCHANGED vars => UNCHANGED deleted
  BY DEF PONext, CreatePurchaseOrder, SubmitPurchaseOrder, ApprovePurchaseOrder,
         ReceivePurchaseOrder, PurchaseOrderReceived, CancelPurchaseOrder,
         invVars, vars
<1>4. SyncInv => Kept
  BY DEF SyncInv, Kept
<1>5. IInv /\ [Next]_vars => HeldStockNotDeleted'
  BY <1>2, <1>3, <1>4, InvNextHeld, SONextHeld DEF Next, vars
<1>6. IInv /\ [Next]_vars => IInv'
  BY <1>5, SyncNext, SyncStutter
<1>7. QED
  BY <1>1, <1>6, PTL DEF Spec

\* A receipt posts receipts only, and no other step of an order posts at all.
LEMMA POWritesPairs ==
  ASSUME TransfersPaired, POWrites
  PROVE  TransfersPaired'
<1>1. ASSUME NEW o \in PurchaseOrder, NEW recv \in [Line -> 0..MaxInteger],
             PurchaseOrderReceived(o, recv)
      PROVE  TransfersPaired'
  <2>1. ledger' = [x \in Key \X Posting |->
                     IF x[2] = "RECEIPT" THEN ledger[x] + Arrival(o, recv)[x[1]]
                     ELSE ledger[x]]
    BY <1>1 DEF PurchaseOrderReceived
  <2>2. QED
    BY <2>1, NoTransferKeepsPairs DEF Posting
<1>2. ASSUME UNCHANGED invVars PROVE TransfersPaired'
  BY <1>2, NoTransferKeepsPairs DEF invVars
<1>3. QED
  BY <1>1, <1>2 DEF POWrites

LEMMA SyncKeepsPairs ==
  ASSUME SyncInv, TransfersPaired, [SyncWrites]_vars
  PROVE  TransfersPaired'
<1>1. UNCHANGED vars => UNCHANGED invVars
  BY DEF vars
<1>2. UNCHANGED vars => TransfersPaired'
  BY <1>1, NoTransferKeepsPairs DEF invVars
<1> QED
  BY <1>2, InvWritesPairs, SOWritesPairs, POWritesPairs DEF SyncWrites, SyncInv

(***************************************************************************)
(* In the composed system, too, a product has over all warehouses what     *)
(* came in less what went out: receipts, dispatches and transfers each     *)
(* write the columns and the audit table in a service of their own.        *)
(***************************************************************************)
THEOREM SyncProductConserved == Spec => []ProductConserved
<1> DEFINE IInv == SyncInv /\ TransfersPaired
<1>1. Init => IInv
  BY SyncInit, InvInitPairs DEF Init, SOInit
<1>2. IInv /\ [Next]_vars => IInv'
  BY SyncNext, SyncStutter, NextWrites, SyncKeepsPairs
<1>3. IInv => ProductConserved
  BY PairsConserve DEF SyncInv
<1>4. QED
  BY <1>1, <1>2, <1>3, PTL DEF Spec

=============================================================================
