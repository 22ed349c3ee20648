-------------------------- MODULE SalesOrdersProofs --------------------------
(***************************************************************************)
(* The invariants of SalesOrders, for all orders, products, warehouses and *)
(* bounds.  The steps of Inventory are covered by InventoryProofs.         *)
(***************************************************************************)
EXTENDS SalesOrders, InventoryProofs

LEMMA KeyParts ==
  ASSUME NEW k \in Key
  PROVE  k[1] \in Product /\ k[2] \in Warehouse /\ k = <<k[1], k[2]>>
BY DEF Key

\* Items added to a column change rows that exist, by the units asked for.
LEMMA RaisedRows ==
  ASSUME NEW field \in [Key -> Int], NEW items \in [Product -> Nat],
         NEW w \in Warehouse, \A k \in Key \ rows : field[k] = 0,
         \A p \in Product : items[p] > 0 => <<p, w>> \in rows
  PROVE  /\ Raised(field, items, w) \in [Key -> Int]
         /\ \A k \in Key : Raised(field, items, w)[k] =
              field[k] + (IF k[2] = w THEN items[k[1]] ELSE 0)
         /\ \A k \in Key \ rows : Raised(field, items, w)[k] = 0
<1> DEFINE g == Raised(field, items, w)
<1>1. ASSUME NEW k \in Key
      PROVE  /\ g[k] = field[k] + (IF k[2] = w THEN items[k[1]] ELSE 0)
             /\ g[k] \in Int
             /\ k \notin rows => g[k] = 0
  <2>1. /\ k[1] \in Product /\ k = <<k[1], k[2]>>
        /\ field[k] \in Int /\ items[k[1]] \in Nat
    BY KeyParts
  <2>2. g[k] = IF k[2] = w THEN field[k] + items[k[1]] ELSE field[k]
    BY <2>1 DEF Raised
  <2>3. k \notin rows /\ k[2] = w => items[k[1]] = 0
    BY <2>1
  <2>4. QED
    BY <2>1, <2>2, <2>3
<1>2. g = [k \in Key |-> g[k]]
  BY DEF Raised
<1>3. QED
  BY <1>1, <1>2

\* The same for items taken out of a column.
LEMMA LoweredRows ==
  ASSUME NEW field \in [Key -> Int], NEW items \in [Product -> Nat],
         NEW w \in Warehouse, \A k \in Key \ rows : field[k] = 0,
         \A p \in Product : items[p] > 0 => <<p, w>> \in rows
  PROVE  /\ Lowered(field, items, w) \in [Key -> Int]
         /\ \A k \in Key : Lowered(field, items, w)[k] =
              field[k] - (IF k[2] = w THEN items[k[1]] ELSE 0)
         /\ \A k \in Key \ rows : Lowered(field, items, w)[k] = 0
<1> DEFINE g == Lowered(field, items, w)
<1>1. ASSUME NEW k \in Key
      PROVE  /\ g[k] = field[k] - (IF k[2] = w THEN items[k[1]] ELSE 0)
             /\ g[k] \in Int
             /\ k \notin rows => g[k] = 0
  <2>1. /\ k[1] \in Product /\ k = <<k[1], k[2]>>
        /\ field[k] \in Int /\ items[k[1]] \in Nat
    BY KeyParts
  <2>2. g[k] = IF k[2] = w THEN field[k] - items[k[1]] ELSE field[k]
    BY <2>1 DEF Lowered
  <2>3. k \notin rows /\ k[2] = w => items[k[1]] = 0
    BY <2>1
  <2>4. QED
    BY <2>1, <2>2, <2>3
<1>2. g = [k \in Key |-> g[k]]
  BY DEF Lowered
<1>3. QED
  BY <1>1, <1>2

LEMMA DispatchPostedType ==
  ASSUME InvTypeOK, NEW items \in [Product -> Nat], NEW w \in Warehouse
  PROVE  DispatchPosted(items, w) \in [Key \X Posting -> Nat]
BY KeyParts DEF DispatchPosted, InvTypeOK

\* An order that exists has a warehouse and items in existing rows.
LEMMA OrderFacts ==
  ASSUME SOTypeOK, NEW o \in SalesOrder, so_status[o] # "NONE"
  PROVE  /\ so_warehouse[o] \in Warehouse
         /\ so_items[o] \in [Product -> Nat]
         /\ \A p \in Product : so_items[o][p] > 0 => <<p, so_warehouse[o]>> \in rows
BY DEF SOTypeOK

LEMMA CreateType ==
  ASSUME InvTypeOK, SOTypeOK, NEW o \in SalesOrder, NEW w \in Warehouse,
         NEW items \in [Product -> Nat], SalesOrderCreated(o, w, items)
  PROVE  InvTypeOK' /\ SOTypeOK'
<1>1. \A p \in Product : items[p] > 0 => <<p, w>> \in rows
  BY DEF SalesOrderCreated, InStock
<1>2. InvTypeOK'
  <2>1. quantity_available' = Lowered(quantity_available, items, w)
        /\ quantity_reserved' = Raised(quantity_reserved, items, w)
        /\ UNCHANGED <<rows, quantity_damaged, ledger, deleted>>
    BY DEF SalesOrderCreated
  <2>2. /\ quantity_available' \in [Key -> Int]
        /\ \A k \in Key \ rows : quantity_available'[k] = 0
    BY <1>1, <2>1, RaisedRows, LoweredRows DEF InvTypeOK
  <2>3. /\ quantity_reserved' \in [Key -> Int]
        /\ \A k \in Key \ rows : quantity_reserved'[k] = 0
    BY <1>1, <2>1, RaisedRows, LoweredRows DEF InvTypeOK
  <2>4. QED
    BY <2>1, <2>2, <2>3 DEF InvTypeOK
<1>3. SOTypeOK'
  BY <1>1 DEF SalesOrderCreated, SOTypeOK, SalesOrderStatus
<1>4. QED
  BY <1>2, <1>3

LEMMA DispatchType ==
  ASSUME InvTypeOK, SOTypeOK, NEW o \in SalesOrder, DispatchSalesOrder(o)
  PROVE  InvTypeOK' /\ SOTypeOK'
<1>1. so_status[o] # "NONE"
  BY DEF DispatchSalesOrder, Dispatchable
<1> DEFINE items == so_items[o]
           w == so_warehouse[o]
<1>2. quantity_reserved' = Lowered(quantity_reserved, items, w)
      /\ ledger' = DispatchPosted(items, w)
      /\ UNCHANGED <<rows, quantity_available, quantity_damaged, deleted>>
  BY DEF DispatchSalesOrder
<1>3. /\ quantity_reserved' \in [Key -> Int]
      /\ \A k \in Key \ rows : quantity_reserved'[k] = 0
  BY <1>1, <1>2, OrderFacts, RaisedRows, LoweredRows DEF InvTypeOK
<1>4. ledger' \in [Key \X Posting -> Nat]
  BY <1>1, <1>2, OrderFacts, DispatchPostedType
<1>5. InvTypeOK'
  BY <1>2, <1>3, <1>4 DEF InvTypeOK
<1>6. SOTypeOK'
  BY <1>1 DEF DispatchSalesOrder, SOTypeOK, SalesOrderStatus
<1>7. QED
  BY <1>5, <1>6

LEMMA DeliverType ==
  ASSUME InvTypeOK, SOTypeOK, NEW o \in SalesOrder, DeliverSalesOrder(o)
  PROVE  InvTypeOK' /\ SOTypeOK'
BY DEF DeliverSalesOrder, InvTypeOK, SOTypeOK, SalesOrderStatus, invVars

LEMMA CancelType ==
  ASSUME InvTypeOK, SOTypeOK, NEW o \in SalesOrder, CancelSalesOrder(o)
  PROVE  InvTypeOK' /\ SOTypeOK'
<1>1. so_status[o] # "NONE"
  BY DEF CancelSalesOrder, Cancellable
<1> DEFINE items == so_items[o]
           w == so_warehouse[o]
<1>2. quantity_available' = Raised(quantity_available, items, w)
      /\ quantity_reserved' = Lowered(quantity_reserved, items, w)
      /\ UNCHANGED <<rows, quantity_damaged, ledger, deleted>>
  BY DEF CancelSalesOrder
<1>3. /\ quantity_reserved' \in [Key -> Int]
      /\ \A k \in Key \ rows : quantity_reserved'[k] = 0
  BY <1>1, <1>2, OrderFacts, RaisedRows, LoweredRows DEF InvTypeOK
<1>4. /\ quantity_available' \in [Key -> Int]
      /\ \A k \in Key \ rows : quantity_available'[k] = 0
  BY <1>1, <1>2, OrderFacts, RaisedRows, LoweredRows DEF InvTypeOK
<1>5. InvTypeOK'
  BY <1>2, <1>3, <1>4 DEF InvTypeOK
<1>6. SOTypeOK'
  BY <1>1 DEF CancelSalesOrder, SOTypeOK, SalesOrderStatus
<1>7. QED
  BY <1>5, <1>6

\* Rows are never removed, so the steps of Inventory keep SOTypeOK.
LEMMA InvStepKeepsOrders ==
  ASSUME SOTypeOK, InvWrites, UNCHANGED soVars
  PROVE  SOTypeOK'
<1>1. rows \subseteq rows'
  <2>1. ASSUME NEW p \in Product, NEW w \in Warehouse, NEW t \in TransactionType,
               NEW q \in Quantity, StockAdjusted(p, w, t, q)
        PROVE  rows \subseteq rows'
    <3>1. rows' = RowCreated(<<p, w>>)
      BY <2>1 DEF StockAdjusted
    <3>2. QED
      BY <3>1 DEF RowCreated
  <2>2. ASSUME NEW p \in Product, NEW s \in Warehouse, NEW d \in Warehouse,
               NEW q \in Quantity, TransferInventory(p, s, d, q)
        PROVE  rows \subseteq rows'
    <3>1. rows' = RowCreated(<<p, d>>)
      BY <2>2 DEF TransferInventory
    <3>2. QED
      BY <3>1 DEF RowCreated
  <2>3. ASSUME NEW w \in Warehouse, WarehouseMarked(w)
        PROVE  rows \subseteq rows'
    BY <2>3 DEF WarehouseMarked
  <2>4. QED
    BY <2>1, <2>2, <2>3 DEF InvWrites
<1>2. QED
  BY <1>1 DEF SOTypeOK, soVars

SOWrites ==
  \E o \in SalesOrder :
    \/ \E w \in Warehouse, items \in [Product -> 0..MaxInteger] :
         SalesOrderCreated(o, w, items)
    \/ DispatchSalesOrder(o)
    \/ DeliverSalesOrder(o)
    \/ CancelSalesOrder(o)

LEMMA SONextWrites == SONext => SOWrites
BY DEF SONext, SOWrites, CreateSalesOrder

LEMMA SOWritesType ==
  ASSUME InvTypeOK, SOTypeOK, SOWrites
  PROVE  InvTypeOK' /\ SOTypeOK'
<1>1. 0..MaxInteger \subseteq Nat
  BY InventoryAssumption
<1>2. \A items \in [Product -> 0..MaxInteger] : items \in [Product -> Nat]
  BY <1>1
<1>3. QED
  BY <1>2, CreateType, DispatchType, DeliverType, CancelType DEF SOWrites

(***************************************************************************)
(* Type correctness of the sales order tables: no dispatch or cancellation *)
(* ever misses a row in inventory_map.                                     *)
(***************************************************************************)
THEOREM SOTypeCorrect == SOSpec => [](InvTypeOK /\ SOTypeOK)
<1>1. SOInit => InvTypeOK /\ SOTypeOK
  BY InvInitType DEF SOInit, SOTypeOK
<1>2. InvTypeOK /\ SOTypeOK /\ UNCHANGED <<invVars, soVars>>
        => (InvTypeOK /\ SOTypeOK)'
  BY DEF InvTypeOK, SOTypeOK, invVars, soVars
<1>3. InvTypeOK /\ SOTypeOK /\ [SONext \/ (InvNext /\ UNCHANGED soVars)]_<<invVars, soVars>>
        => (InvTypeOK /\ SOTypeOK)'
  BY <1>2, SONextWrites, SOWritesType, InvNextWrites, InvWritesType,
     InvStepKeepsOrders
<1>4. QED
  BY <1>1, <1>3, PTL DEF SOSpec

-----------------------------------------------------------------------------
LEMMA ShareNat ==
  ASSUME SOTypeOK, NEW o \in SalesOrder, NEW k \in Key, NEW S
  PROVE  Share(o, k, S) \in Nat
BY KeyParts DEF Share, SOTypeOK

\* A change of one order changes what is ordered by the order's share.
LEMMA OrderedUpdate ==
  ASSUME SOTypeOK, SOTypeOK', NEW o \in SalesOrder, NEW k \in Key, NEW S,
         \A x \in SalesOrder \ {o} : /\ so_status'[x] = so_status[x]
                                     /\ so_warehouse'[x] = so_warehouse[x]
                                     /\ so_items'[x] = so_items[x]
  PROVE  /\ Ordered(k, S)' = Ordered(k, S) - Share(o, k, S) + Share(o, k, S)'
         /\ Ordered(k, S) \in Nat
         /\ Share(o, k, S) \in Nat /\ Share(o, k, S)' \in Nat
         /\ Share(o, k, S) <= Ordered(k, S)
<1> DEFINE f == [x \in SalesOrder |-> Share(x, k, S)]
           g == [x \in SalesOrder |-> Share(x, k, S)']
<1>1. f \in [SalesOrder -> Nat]
  BY ShareNat
<1>2. g \in [SalesOrder -> Nat]
  BY KeyParts DEF Share, SOTypeOK
<1>3. \A x \in SalesOrder \ {o} : g[x] = f[x]
  BY DEF Share
<1>4. Ordered(k, S) = Total(f) /\ Ordered(k, S)' = Total(g)
  BY DEF Ordered
<1>5. f[o] = Share(o, k, S) /\ g[o] = Share(o, k, S)'
  OBVIOUS
<1> HIDE DEF f, g
<1>6. Total(g) = Total(f) - f[o] + g[o] /\ Total(f) \in Nat /\ f[o] <= Total(f)
  BY <1>1, <1>2, <1>3, TotalUpdate, TotalNat, TotalBounds, SalesOrdersAssumption
<1>7. f[o] \in Nat /\ g[o] \in Nat
  BY <1>1, <1>2
<1>8. QED
  BY <1>4, <1>5, <1>6, <1>7

LEMMA CreateReservation ==
  ASSUME InvTypeOK, SOTypeOK, InvTypeOK', SOTypeOK', ReservationsBacked,
         StockNonNegative, NEW o \in SalesOrder, NEW w \in Warehouse,
         NEW items \in [Product -> Nat], SalesOrderCreated(o, w, items)
  PROVE  ReservationsBacked' /\ StockNonNegative'
<1>1. \A p \in Product : items[p] > 0 =>
        <<p, w>> \in rows /\ quantity_available[<<p, w>>] >= items[p]
  BY DEF SalesOrderCreated, InStock, Covers
<1>2. /\ quantity_available' = Lowered(quantity_available, items, w)
      /\ quantity_reserved' = Raised(quantity_reserved, items, w)
      /\ quantity_damaged' = quantity_damaged
  BY DEF SalesOrderCreated
<1>3. ASSUME NEW k \in Key
      PROVE  /\ quantity_available'[k] = quantity_available[k]
                  - (IF k[2] = w THEN items[k[1]] ELSE 0)
             /\ quantity_reserved'[k] = quantity_reserved[k]
                  + (IF k[2] = w THEN items[k[1]] ELSE 0)
  <2> USE DEF InvTypeOK
  <2>1. /\ quantity_available \in [Key -> Int] /\ quantity_reserved \in [Key -> Int]
        /\ \A j \in Key \ rows : quantity_available[j] = 0 /\ quantity_reserved[j] = 0
    OBVIOUS
  <2> HIDE DEF InvTypeOK
  <2>2. \A j \in Key : Lowered(quantity_available, items, w)[j] =
          quantity_available[j] - (IF j[2] = w THEN items[j[1]] ELSE 0)
    BY <1>1, <2>1, LoweredRows
  <2>3. \A j \in Key : Raised(quantity_reserved, items, w)[j] =
          quantity_reserved[j] + (IF j[2] = w THEN items[j[1]] ELSE 0)
    BY <1>1, <2>1, RaisedRows
  <2>4. QED
    BY <1>2, <2>2, <2>3
<1>4. ASSUME NEW k \in Key
      PROVE  /\ quantity_available'[k] >= 0
             /\ quantity_reserved'[k] >= 0
             /\ quantity_damaged'[k] >= 0
             /\ quantity_reserved'[k] = Ordered(k, Holding)'
  <2>1. k[1] \in Product /\ k = <<k[1], k[2]>> /\ items[k[1]] \in Nat
    BY KeyParts
  <2>2. /\ quantity_available[k] \in Int /\ quantity_available[k] >= 0
        /\ quantity_reserved[k] \in Int /\ quantity_reserved[k] >= 0
        /\ quantity_damaged[k] >= 0
    BY DEF InvTypeOK, StockNonNegative
  <2>3. k[2] = w => quantity_available[k] >= items[k[1]]
    BY <1>1, <2>1, <2>2
  <2>4. Ordered(k, Holding)' =
          Ordered(k, Holding) - Share(o, k, Holding) + Share(o, k, Holding)'
        /\ Ordered(k, Holding) \in Nat
    BY OrderedUpdate DEF SalesOrderCreated, SOTypeOK
  <2>5. Share(o, k, Holding) = 0
    BY DEF Share, Holding, SalesOrderCreated
  <2>6. Share(o, k, Holding)' = IF k[2] = w THEN items[k[1]] ELSE 0
    BY DEF Share, Holding, SalesOrderCreated, SOTypeOK
  <2>7. quantity_reserved[k] = Ordered(k, Holding)
    BY DEF ReservationsBacked
  <2>8. QED
    BY <1>2, <1>3, <2>1, <2>2, <2>3, <2>4, <2>5, <2>6, <2>7
<1>5. QED
  BY <1>4 DEF ReservationsBacked, StockNonNegative

\* Dispatch and cancellation take the share of the order out of the row.
LEMMA ReleaseReservation ==
  ASSUME InvTypeOK, SOTypeOK, InvTypeOK', SOTypeOK', ReservationsBacked,
         StockNonNegative, NEW o \in SalesOrder, so_status[o] \in Holding,
         so_status' \in {[so_status EXCEPT ![o] = "DISPATCHED"],
                         [so_status EXCEPT ![o] = "CANCELLED"]},
         UNCHANGED <<so_warehouse, so_items, quantity_damaged>>,
         quantity_reserved' =
           Lowered(quantity_reserved, so_items[o], so_warehouse[o]),
         \/ quantity_available' = quantity_available
         \/ quantity_available' =
              Raised(quantity_available, so_items[o], so_warehouse[o])
  PROVE  ReservationsBacked' /\ StockNonNegative'
<1> DEFINE items == so_items[o]
           w == so_warehouse[o]
<1>1. /\ w \in Warehouse /\ items \in [Product -> Nat]
      /\ \A p \in Product : items[p] > 0 => <<p, w>> \in rows
  BY OrderFacts DEF Holding
<1>2. \A k \in Key : quantity_reserved'[k] = quantity_reserved[k]
                       - (IF k[2] = w THEN items[k[1]] ELSE 0)
  <2> HIDE DEF items, w
  <2>1. /\ quantity_reserved \in [Key -> Int]
        /\ \A k \in Key \ rows : quantity_reserved[k] = 0
    BY DEF InvTypeOK
  <2>2. quantity_reserved' = Lowered(quantity_reserved, items, w)
    BY DEF items, w
  <2> QED
    BY <1>1, <2>1, <2>2, LoweredRows
<1>3. \A k \in Key : quantity_available'[k] >= 0
  <2>1. CASE quantity_available' = quantity_available
    BY <2>1 DEF StockNonNegative
  <2>2. CASE quantity_available' = Raised(quantity_available, items, w)
    <3>1. \A k \in Key : quantity_available'[k] = quantity_available[k]
                           + (IF k[2] = w THEN items[k[1]] ELSE 0)
      <4> HIDE DEF items, w
      <4>1. /\ quantity_available \in [Key -> Int]
            /\ \A k \in Key \ rows : quantity_available[k] = 0
        BY DEF InvTypeOK
      <4> QED
        BY <1>1, <2>2, <4>1, RaisedRows
    <3>2. QED
      BY <1>1, <3>1, KeyParts DEF StockNonNegative, InvTypeOK
  <2>3. QED
    BY <2>1, <2>2
<1>4. ASSUME NEW k \in Key
      PROVE  quantity_reserved'[k] = Ordered(k, Holding)'
             /\ quantity_reserved'[k] >= 0
  <2>1. Ordered(k, Holding)' =
          Ordered(k, Holding) - Share(o, k, Holding) + Share(o, k, Holding)'
        /\ Ordered(k, Holding) \in Nat
        /\ Share(o, k, Holding) <= Ordered(k, Holding)
    BY OrderedUpdate DEF SOTypeOK
  <2>2. Share(o, k, Holding) = IF k[2] = w THEN items[k[1]] ELSE 0
    BY DEF Share
  <2>3. Share(o, k, Holding)' = 0
    BY DEF Share, Holding, SOTypeOK
  <2>4. quantity_reserved[k] = Ordered(k, Holding)
    BY DEF ReservationsBacked
  <2>5. items[k[1]] \in Nat
    BY <1>1, KeyParts
  <2>6. QED
    BY <1>2, <2>1, <2>2, <2>3, <2>4, <2>5
<1>5. QED
  BY <1>3, <1>4 DEF ReservationsBacked, StockNonNegative

LEMMA SOWritesReservation ==
  ASSUME InvTypeOK, SOTypeOK, ReservationsBacked, StockNonNegative, SOWrites
  PROVE  ReservationsBacked' /\ StockNonNegative'
<1>1. InvTypeOK' /\ SOTypeOK'
  BY SOWritesType
<1>2. PICK o \in SalesOrder :
        \/ \E w \in Warehouse, items \in [Product -> 0..MaxInteger] :
             SalesOrderCreated(o, w, items)
        \/ DispatchSalesOrder(o)
        \/ DeliverSalesOrder(o)
        \/ CancelSalesOrder(o)
  BY DEF SOWrites
<1>3. ASSUME NEW w \in Warehouse, NEW items \in [Product -> 0..MaxInteger],
             SalesOrderCreated(o, w, items)
      PROVE  ReservationsBacked' /\ StockNonNegative'
  <2>1. items \in [Product -> Nat]
    BY InventoryAssumption
  <2>2. QED
    BY <1>1, <1>3, <2>1, CreateReservation
<1>4. CASE DispatchSalesOrder(o)
  BY <1>1, <1>4, ReleaseReservation DEF DispatchSalesOrder, Dispatchable, Holding
<1>5. CASE CancelSalesOrder(o)
  BY <1>1, <1>5, ReleaseReservation DEF CancelSalesOrder, Cancellable, Holding
<1>6. CASE DeliverSalesOrder(o)
  <2>1. \A k \in Key : Ordered(k, Holding)' = Ordered(k, Holding)
    <3> SUFFICES ASSUME NEW k \in Key
                 PROVE  Ordered(k, Holding)' = Ordered(k, Holding)
      OBVIOUS
    <3>1. \A x \in SalesOrder : Share(x, k, Holding)' = Share(x, k, Holding)
      BY <1>6 DEF DeliverSalesOrder, Share, Holding, SOTypeOK
    <3>2. QED
      BY <3>1 DEF Ordered
  <2>2. UNCHANGED invVars
    BY <1>6 DEF DeliverSalesOrder
  <2>3. QED
    BY <2>1, <2>2 DEF ReservationsBacked, StockNonNegative, invVars
<1>7. QED
  BY <1>2, <1>3, <1>4, <1>5, <1>6

LEMMA InvStepKeepsReservations ==
  ASSUME InvTypeOK, ReservationsBacked, InvWrites, UNCHANGED soVars
  PROVE  ReservationsBacked'
<1>1. quantity_reserved' = quantity_reserved
  <2>1. ASSUME NEW p \in Product, NEW w \in Warehouse, NEW t, NEW q,
               StockAdjusted(p, w, t, q)
        PROVE  quantity_reserved' = quantity_reserved
    BY <2>1 DEF StockAdjusted
  <2>2. ASSUME NEW p \in Product, NEW s \in Warehouse, NEW d \in Warehouse,
               NEW q, TransferInventory(p, s, d, q)
        PROVE  quantity_reserved' = quantity_reserved
    BY <2>2 DEF TransferInventory
  <2>3. ASSUME NEW w \in Warehouse, WarehouseMarked(w)
        PROVE  quantity_reserved' = quantity_reserved
    BY <2>3 DEF WarehouseMarked
  <2>4. QED
    BY <2>1, <2>2, <2>3 DEF InvWrites
<1>2. \A k \in Key : Ordered(k, Holding)' = Ordered(k, Holding)
  BY DEF Ordered, Share, soVars
<1>3. QED
  BY <1>1, <1>2 DEF ReservationsBacked

LEMMA SOInitReservation == SOInit => ReservationsBacked
<1> SUFFICES ASSUME SOInit, NEW k \in Key
             PROVE  quantity_reserved[k] = Ordered(k, Holding)
  BY DEF ReservationsBacked
<1> DEFINE f == [o \in SalesOrder |-> Share(o, k, Holding)]
<1>1. f \in [SalesOrder -> Nat] /\ \A o \in SalesOrder : f[o] = 0
  BY DEF SOInit, Share, Holding
<1>2. Total(f) = 0
  <2> HIDE DEF f
  <2> QED BY <1>1, TotalZero
<1>3. QED
  BY <1>2 DEF Ordered, SOInit, InvInit

(***************************************************************************)
(* What is reserved is what open orders hold, and nothing is oversold: the *)
(* invariant that makes dispatch and cancellation safe to subtract.        *)
(***************************************************************************)
THEOREM SOReservationsBacked == SOSpec => [](ReservationsBacked /\ StockNonNegative)
<1> DEFINE IInv == InvTypeOK /\ SOTypeOK /\ ReservationsBacked /\ StockNonNegative
<1>1. SOInit => IInv
  BY InvInitType, SOInitReservation
     DEF InvInit, SOInit, SOTypeOK, StockNonNegative
<1>2. IInv /\ UNCHANGED <<invVars, soVars>> => IInv'
  BY DEF InvTypeOK, SOTypeOK, ReservationsBacked, Ordered, Share,
         StockNonNegative, invVars, soVars
<1>3. IInv /\ [SONext \/ (InvNext /\ UNCHANGED soVars)]_<<invVars, soVars>> => IInv'
  BY <1>2, SONextWrites, SOWritesType, InvNextWrites, InvWritesType,
     InvStepKeepsOrders, SOWritesReservation,
     InvWritesStock, InvStepKeepsReservations
<1>4. QED
  BY <1>1, <1>3, PTL DEF SOSpec

-----------------------------------------------------------------------------
\* Creation and cancellation move units between the columns of a row.
LEMMA MoveKeepsLedger ==
  ASSUME InvTypeOK, LedgerBalanced,
         NEW items \in [Product -> Nat], NEW w \in Warehouse,
         \A p \in Product : items[p] > 0 => <<p, w>> \in rows,
         \/ /\ quantity_available' = Lowered(quantity_available, items, w)
            /\ quantity_reserved' = Raised(quantity_reserved, items, w)
         \/ /\ quantity_available' = Raised(quantity_available, items, w)
            /\ quantity_reserved' = Lowered(quantity_reserved, items, w),
         UNCHANGED <<quantity_damaged, ledger>>
  PROVE  LedgerBalanced'
<1> DEFINE u(k) == IF k[2] = w THEN items[k[1]] ELSE 0
<1>1. /\ \A k \in Key : Lowered(quantity_available, items, w)[k] = quantity_available[k] - u(k)
      /\ \A k \in Key : Raised(quantity_available, items, w)[k] = quantity_available[k] + u(k)
  BY RaisedRows, LoweredRows DEF InvTypeOK
<1>2. /\ \A k \in Key : Lowered(quantity_reserved, items, w)[k] = quantity_reserved[k] - u(k)
      /\ \A k \in Key : Raised(quantity_reserved, items, w)[k] = quantity_reserved[k] + u(k)
  BY RaisedRows, LoweredRows DEF InvTypeOK
<1>3. \A k \in Key : u(k) \in Nat /\ quantity_available[k] \in Int
                     /\ quantity_reserved[k] \in Int
  BY KeyParts DEF InvTypeOK
<1>4. \A k \in Key : Recorded(k)' = Recorded(k)
                     /\ Posted(k, "DAMAGE_REPORT")' = Posted(k, "DAMAGE_REPORT")
  BY DEF Recorded, Posted
<1>5. \A k \in Key : quantity_available'[k] + quantity_reserved'[k]
                       = quantity_available[k] + quantity_reserved[k]
  <2> HIDE DEF u
  <2> QED BY <1>1, <1>2, <1>3
<1>6. QED
  BY <1>4, <1>5 DEF LedgerBalanced

\* A dispatch takes out of the reserved column what it posts.
LEMMA DispatchKeepsLedger ==
  ASSUME InvTypeOK, SOTypeOK, LedgerBalanced,
         NEW o \in SalesOrder, DispatchSalesOrder(o)
  PROVE  /\ LedgerBalanced'
         /\ \A k \in Key : Posted(k, "DISPATCH")' = Posted(k, "DISPATCH")
              + (IF k[2] = so_warehouse[o] THEN so_items[o][k[1]] ELSE 0)
<1> DEFINE items == so_items[o]
           w == so_warehouse[o]
           u == [k \in Key |-> IF k[2] = w THEN items[k[1]] ELSE 0]
<1>1. /\ w \in Warehouse /\ items \in [Product -> Nat]
      /\ \A p \in Product : items[p] > 0 => <<p, w>> \in rows
  BY OrderFacts DEF DispatchSalesOrder, Dispatchable
<1>2. /\ quantity_reserved' = Lowered(quantity_reserved, items, w)
      /\ ledger' = DispatchPosted(items, w)
      /\ UNCHANGED <<quantity_available, quantity_damaged>>
  BY DEF DispatchSalesOrder
<1>3. u \in [Key -> Nat]
  BY <1>1, KeyParts
<1>4. \A k \in Key : quantity_reserved'[k] = quantity_reserved[k] - u[k]
  BY <1>1, <1>2, RaisedRows, LoweredRows DEF InvTypeOK
<1>5. \A k \in Key, post \in Posting :
        Posted(k, post)' = Posted(k, post) + (IF post = "DISPATCH" THEN u[k] ELSE 0)
  <2> SUFFICES ASSUME NEW k \in Key, NEW post \in Posting
               PROVE  Posted(k, post)' = Posted(k, post)
                        + (IF post = "DISPATCH" THEN u[k] ELSE 0)
    OBVIOUS
  <2>1. DispatchPosted(items, w)[<<k, post>>] =
          IF k[2] = w /\ post = "DISPATCH"
          THEN ledger[<<k, post>>] + items[k[1]] ELSE ledger[<<k, post>>]
    BY DEF DispatchPosted
  <2>2. ledger[<<k, post>>] \in Nat
    BY DEF InvTypeOK
  <2>3. QED
    BY <1>2, <2>1, <2>2 DEF Posted
<1>6. \A k \in Key : Recorded(k)' = Recorded(k) - u[k] /\ Recorded(k) \in Int
  <2>1. "DISPATCH" \in Posting /\ "DISPATCH" \notin Incoming
    BY DEF Posting, Incoming
  <2>2. \A k \in Key : Recorded(k)' = Recorded(k) + (-u[k])
    <3> HIDE DEF u
    <3> QED BY <1>3, <1>5, <2>1, PostUnits DEF InvTypeOK
  <2>3. \A k \in Key : Recorded(k) \in Int
    BY PostedNat DEF InvTypeOK, Recorded
  <2>4. QED
    <3> HIDE DEF u
    <3> QED BY <1>3, <2>2, <2>3
<1>7. \A k \in Key : Posted(k, "DAMAGE_REPORT")' = Posted(k, "DAMAGE_REPORT")
  BY <1>5, PostedNat DEF Posting, InvTypeOK
<1>8. LedgerBalanced'
  <2> SUFFICES ASSUME NEW k \in Key
               PROVE  /\ quantity_available'[k] + quantity_reserved'[k] = Recorded(k)'
                      /\ quantity_damaged'[k] = Posted(k, "DAMAGE_REPORT")'
    BY DEF LedgerBalanced
  <2>1. /\ quantity_available[k] + quantity_reserved[k] = Recorded(k)
        /\ quantity_damaged[k] = Posted(k, "DAMAGE_REPORT")
    BY DEF LedgerBalanced
  <2>2. quantity_available[k] \in Int /\ quantity_reserved[k] \in Int /\ u[k] \in Nat
    BY <1>3 DEF InvTypeOK
  <2>3. QED
    <3> HIDE DEF u
    <3> QED BY <1>2, <1>4, <1>6, <1>7, <2>1, <2>2
<1>9. \A k \in Key : Posted(k, "DISPATCH")' = Posted(k, "DISPATCH") + u[k]
  BY <1>5 DEF Posting
<1>10. QED
  BY <1>8, <1>9

LEMMA SOWritesLedger ==
  ASSUME InvTypeOK, SOTypeOK, LedgerBalanced, DispatchesAccounted, SOWrites
  PROVE  LedgerBalanced' /\ DispatchesAccounted'
<1>1. SOTypeOK'
  BY SOWritesType
<1>2. PICK o \in SalesOrder :
        \/ \E w \in Warehouse, items \in [Product -> 0..MaxInteger] :
             SalesOrderCreated(o, w, items)
        \/ DispatchSalesOrder(o)
        \/ DeliverSalesOrder(o)
        \/ CancelSalesOrder(o)
  BY DEF SOWrites
<1>3. \A x \in SalesOrder \ {o} : /\ so_status'[x] = so_status[x]
                                  /\ so_warehouse'[x] = so_warehouse[x]
                                  /\ so_items'[x] = so_items[x]
  BY <1>2 DEF SOTypeOK, SalesOrderCreated, DispatchSalesOrder,
              DeliverSalesOrder, CancelSalesOrder
<1>4. \A k \in Key :
        /\ Ordered(k, Shipped)' =
             Ordered(k, Shipped) - Share(o, k, Shipped) + Share(o, k, Shipped)'
        /\ Ordered(k, Shipped) \in Nat
        /\ Share(o, k, Shipped) \in Nat /\ Share(o, k, Shipped)' \in Nat
  BY <1>1, <1>3, OrderedUpdate
<1>5. ASSUME ledger' = ledger,
             \A k \in Key : Share(o, k, Shipped)' = Share(o, k, Shipped)
      PROVE  DispatchesAccounted'
  <2> SUFFICES ASSUME NEW k \in Key
               PROVE  Posted(k, "DISPATCH")' = Ordered(k, Shipped)'
    BY DEF DispatchesAccounted
  <2>1. Posted(k, "DISPATCH")' = Posted(k, "DISPATCH")
    BY <1>5 DEF Posted
  <2>2. Ordered(k, Shipped)' = Ordered(k, Shipped)
    BY <1>4, <1>5
  <2>3. QED
    BY <2>1, <2>2 DEF DispatchesAccounted
<1>6. ASSUME NEW w \in Warehouse, NEW items \in [Product -> 0..MaxInteger],
             SalesOrderCreated(o, w, items)
      PROVE  LedgerBalanced' /\ DispatchesAccounted'
  <2>1. items \in [Product -> Nat]
    BY InventoryAssumption
  <2>2. \A p \in Product : items[p] > 0 => <<p, w>> \in rows
    BY <1>6 DEF SalesOrderCreated, InStock
  <2>3. LedgerBalanced'
    BY <1>6, <2>1, <2>2, MoveKeepsLedger DEF SalesOrderCreated
  <2>4. \A k \in Key : Share(o, k, Shipped) = 0 /\ Share(o, k, Shipped)' = 0
    BY <1>6 DEF Share, Shipped, SalesOrderCreated, SOTypeOK
  <2>5. QED
    BY <1>5, <1>6, <2>3, <2>4 DEF SalesOrderCreated
<1>7. CASE DispatchSalesOrder(o)
  <2>1. \A k \in Key :
          /\ Share(o, k, Shipped) = 0
          /\ Share(o, k, Shipped)' =
               IF k[2] = so_warehouse[o] THEN so_items[o][k[1]] ELSE 0
    BY <1>7 DEF Share, Shipped, DispatchSalesOrder, Dispatchable, SOTypeOK
  <2>2. QED
    BY <1>4, <1>7, <2>1, DispatchKeepsLedger DEF DispatchesAccounted
<1>8. CASE DeliverSalesOrder(o)
  <2>1. \A k \in Key : Share(o, k, Shipped)' = Share(o, k, Shipped)
    BY <1>8 DEF Share, Shipped, DeliverSalesOrder, SOTypeOK
  <2>2. LedgerBalanced' /\ ledger' = ledger
    BY <1>8 DEF DeliverSalesOrder, invVars, LedgerBalanced, Recorded, Posted
  <2>3. QED
    BY <1>5, <2>1, <2>2
<1>9. CASE CancelSalesOrder(o)
  <2>1. LedgerBalanced'
    BY <1>9, OrderFacts, MoveKeepsLedger DEF CancelSalesOrder, Cancellable
  <2>2. \A k \in Key : Share(o, k, Shipped) = 0 /\ Share(o, k, Shipped)' = 0
    BY <1>9 DEF Share, Shipped, CancelSalesOrder, Cancellable, SOTypeOK
  <2>3. QED
    BY <1>5, <1>9, <2>1, <2>2 DEF CancelSalesOrder
<1>10. QED
  BY <1>2, <1>6, <1>7, <1>8, <1>9

LEMMA InvStepKeepsDispatches ==
  ASSUME InvTypeOK, DispatchesAccounted, InvWrites, UNCHANGED soVars
  PROVE  DispatchesAccounted'
<1>1. \A k \in Key : Posted(k, "DISPATCH")' = Posted(k, "DISPATCH")
  <2>1. ASSUME NEW p \in Product, NEW w \in Warehouse, NEW t \in TransactionType,
               NEW q \in Quantity, StockAdjusted(p, w, t, q), NEW k \in Key
        PROVE  ledger'[<<k, "DISPATCH">>] = ledger[<<k, "DISPATCH">>]
    BY <2>1 DEF StockAdjusted, TransactionType, InvTypeOK, Posting
  <2>2. ASSUME NEW p \in Product, NEW s \in Warehouse, NEW d \in Warehouse,
               NEW q \in Quantity, TransferInventory(p, s, d, q), NEW k \in Key
        PROVE  ledger'[<<k, "DISPATCH">>] = ledger[<<k, "DISPATCH">>]
    BY <2>2 DEF TransferInventory, TransferPosted, InvTypeOK, Posting
  <2>3. ASSUME NEW w \in Warehouse, WarehouseMarked(w)
        PROVE  ledger' = ledger
    BY <2>3 DEF WarehouseMarked
  <2>4. \A k \in Key : ledger'[<<k, "DISPATCH">>] = ledger[<<k, "DISPATCH">>]
    BY <2>1, <2>2, <2>3 DEF InvWrites
  <2>5. QED
    BY <2>4 DEF Posted
<1>2. \A k \in Key : Ordered(k, Shipped)' = Ordered(k, Shipped)
  BY DEF Ordered, Share, soVars
<1>3. QED
  BY <1>1, <1>2 DEF DispatchesAccounted

LEMMA SOInitLedger == SOInit => LedgerBalanced /\ DispatchesAccounted
<1> SUFFICES ASSUME SOInit, NEW k \in Key
             PROVE  /\ quantity_available[k] + quantity_reserved[k] = Recorded(k)
                    /\ quantity_damaged[k] = Posted(k, "DAMAGE_REPORT")
                    /\ Posted(k, "DISPATCH") = Ordered(k, Shipped)
  BY DEF LedgerBalanced, DispatchesAccounted
<1> DEFINE f == [o \in SalesOrder |-> Share(o, k, Shipped)]
<1>1. \A post \in Posting : Posted(k, post) = 0
  BY DEF SOInit, InvInit, Posted
<1>2. f \in [SalesOrder -> Nat] /\ \A o \in SalesOrder : f[o] = 0
  BY DEF SOInit, Share, Shipped
<1>3. Total(f) = 0
  <2> HIDE DEF f
  <2> QED BY <1>2, TotalZero
<1>4. Ordered(k, Shipped) = 0
  BY <1>3 DEF Ordered
<1>5. QED
  BY <1>1, <1>4 DEF SOInit, InvInit, Recorded, Posting

(***************************************************************************)
(* The audit table explains the stock of every row, reservations included, *)
(* and records the dispatch of exactly the orders that have left.          *)
(***************************************************************************)
THEOREM SOLedgerBalanced == SOSpec => [](LedgerBalanced /\ DispatchesAccounted)
<1> DEFINE IInv == InvTypeOK /\ SOTypeOK /\ LedgerBalanced /\ DispatchesAccounted
<1>1. SOInit => IInv
  BY InvInitType, SOInitLedger DEF SOInit, SOTypeOK
<1>2. IInv /\ UNCHANGED <<invVars, soVars>> => IInv'
  <2> SUFFICES ASSUME IInv, UNCHANGED <<invVars, soVars>> PROVE IInv'
    OBVIOUS
  <2>1. InvTypeOK' /\ SOTypeOK'
    BY DEF InvTypeOK, SOTypeOK, invVars, soVars
  <2>2. LedgerBalanced'
    BY DEF LedgerBalanced, Recorded, Posted, invVars
  <2>3. DispatchesAccounted'
    BY DEF DispatchesAccounted, Posted, Ordered, Share, invVars, soVars
  <2> QED
    BY <2>1, <2>2, <2>3
<1>3. IInv /\ [SONext \/ (InvNext /\ UNCHANGED soVars)]_<<invVars, soVars>> => IInv'
  BY <1>2, SONextWrites, SOWritesType, InvNextWrites, InvWritesType,
     InvStepKeepsOrders, SOWritesLedger,
     InvWritesBalance, InvStepKeepsDispatches
<1>4. QED
  BY <1>1, <1>3, PTL DEF SOSpec

(***************************************************************************)
(* The second half of it: a dispatch is recorded once, and only once.      *)
(***************************************************************************)
THEOREM SODispatchesAccounted == SOSpec => []DispatchesAccounted
BY SOLedgerBalanced, PTL

\* Orders post dispatches only.
LEMMA SOWritesPairs ==
  ASSUME TransfersPaired, SOWrites
  PROVE  TransfersPaired'
<1>1. ASSUME NEW o \in SalesOrder, DispatchSalesOrder(o) PROVE TransfersPaired'
  <2>1. ledger' = DispatchPosted(so_items[o], so_warehouse[o])
    BY <1>1 DEF DispatchSalesOrder
  <2>2. QED
    BY <2>1, NoTransferKeepsPairs DEF DispatchPosted, Posting
<1>2. ASSUME NEW o \in SalesOrder,
             \/ DeliverSalesOrder(o)
             \/ CancelSalesOrder(o)
             \/ \E w \in Warehouse, items \in [Product -> 0..MaxInteger] :
                  SalesOrderCreated(o, w, items)
      PROVE  TransfersPaired'
  <2>1. ledger' = ledger
    BY <1>2 DEF DeliverSalesOrder, CancelSalesOrder, SalesOrderCreated, invVars
  <2>2. QED
    BY <2>1, NoTransferKeepsPairs
<1>3. QED
  BY <1>1, <1>2 DEF SOWrites

(***************************************************************************)
(* A product has, over all warehouses, what came in less what went out,    *)
(* whatever was moved between warehouses, reserved, released or shipped.   *)
(***************************************************************************)
THEOREM SOProductConserved == SOSpec => []ProductConserved
<1>1. SOInit => TransfersPaired
  BY InvInitPairs DEF SOInit
<1>2. TransfersPaired /\ UNCHANGED <<invVars, soVars>> => TransfersPaired'
  BY DEF TransfersPaired, PostedFor, Posted, invVars
<1>3. InvTypeOK /\ TransfersPaired
        /\ [SONext \/ (InvNext /\ UNCHANGED soVars)]_<<invVars, soVars>>
      => TransfersPaired'
  BY <1>2, InvNextWrites, InvWritesPairs, SONextWrites, SOWritesPairs
<1>4. InvTypeOK /\ StockNonNegative /\ LedgerBalanced /\ TransfersPaired
      => ProductConserved
  BY PairsConserve
<1>5. QED
  BY <1>1, <1>3, <1>4, SOTypeCorrect, SOReservationsBacked, SOLedgerBalanced, PTL
     DEF SOSpec

-----------------------------------------------------------------------------
\* The part of the invariant that the promises rest on.
Kept == InvTypeOK /\ SOTypeOK /\ ReservationsBacked /\ StockNonNegative

\* An open order that holds units of a row keeps the warehouse from deletion.
LEMMA HeldStockBlocksDeletion ==
  ASSUME Kept, NEW w \in Warehouse, DeleteWarehouse(w), NEW o \in SalesOrder,
         so_status[o] \in Holding, NEW p \in Product, so_items[o][p] > 0
  PROVE  so_warehouse[o] # w
<1> SUFFICES ASSUME so_warehouse[o] = w PROVE FALSE
  OBVIOUS
<1> DEFINE k == <<p, w>>
           f == [x \in SalesOrder |-> Share(x, k, Holding)]
<1>1. k \in Key /\ k \in rows
  BY DEF Key, Kept, SOTypeOK
<1>2. f \in [SalesOrder -> Nat]
  BY <1>1, ShareNat DEF Kept
<1>3. f[o] = so_items[o][p] /\ f[o] > 0
  BY DEF Share
<1>4. f[o] <= Total(f)
  <2> HIDE DEF f
  <2> QED BY <1>2, SalesOrdersAssumption, TotalBounds
<1>5. Total(f) = quantity_reserved[k]
  BY <1>1 DEF Kept, ReservationsBacked, Ordered
<1>6. quantity_reserved[k] \in Int
  BY <1>1 DEF Kept, InvTypeOK
<1>7. quantity_reserved[k] > 0
  <2> HIDE DEF f
  <2> QED BY <1>2, <1>3, <1>4, <1>5, <1>6
<1> QED
  BY <1>1, <1>7 DEF DeleteWarehouse, WarehouseMarked, HasActiveInventory

LEMMA InvNextHeld ==
  ASSUME Kept, HeldStockNotDeleted, InvNext, UNCHANGED soVars
  PROVE  HeldStockNotDeleted'
<1>1. ASSUME NEW w \in Warehouse, DeleteWarehouse(w)
      PROVE  HeldStockNotDeleted'
  BY <1>1, HeldStockBlocksDeletion DEF DeleteWarehouse, WarehouseMarked,
     HeldStockNotDeleted, soVars
<1>2. CASE UNCHANGED deleted
  BY <1>2 DEF HeldStockNotDeleted, soVars
<1>3. ASSUME NEW p \in Product, NEW w \in Warehouse, NEW t \in TransactionType,
             NEW q \in Quantity, AdjustInventory(p, w, t, q)
      PROVE  UNCHANGED deleted
  BY <1>3 DEF AdjustInventory, StockAdjusted
<1>4. ASSUME NEW p \in Product, NEW s \in Warehouse, NEW d \in Warehouse,
             NEW q \in Quantity, TransferInventory(p, s, d, q)
      PROVE  UNCHANGED deleted
  BY <1>4 DEF TransferInventory
<1> QED
  BY <1>1, <1>2, <1>3, <1>4 DEF InvNext

LEMMA SONextHeld ==
  ASSUME Kept, HeldStockNotDeleted, SONext
  PROVE  HeldStockNotDeleted'
<1>1. ASSUME NEW o \in SalesOrder, NEW w \in Warehouse,
             NEW items \in [Product -> 0..MaxInteger], CreateSalesOrder(o, w, items)
      PROVE  HeldStockNotDeleted'
  <2>1. /\ so_warehouse' = [so_warehouse EXCEPT ![o] = w]
        /\ w \notin deleted /\ UNCHANGED deleted
        /\ \A x \in SalesOrder \ {o} : /\ so_status'[x] = so_status[x]
                                       /\ so_items'[x] = so_items[x]
    BY <1>1 DEF CreateSalesOrder, SalesOrderCreated, WarehouseFound, Kept, SOTypeOK
  <2>2. /\ so_warehouse'[o] = w
        /\ \A x \in SalesOrder \ {o} : so_warehouse'[x] = so_warehouse[x]
    BY <2>1 DEF Kept, SOTypeOK
  <2> QED
    BY <2>1, <2>2 DEF HeldStockNotDeleted
<1>2. ASSUME NEW o \in SalesOrder,
             \/ DispatchSalesOrder(o) \/ DeliverSalesOrder(o)
             \/ CancelSalesOrder(o)
      PROVE  HeldStockNotDeleted'
  <2>1. /\ UNCHANGED <<deleted, so_warehouse, so_items>>
        /\ \/ so_status' = [so_status EXCEPT ![o] = "DISPATCHED"]
           \/ so_status' = [so_status EXCEPT ![o] = "DELIVERED"]
           \/ so_status' = [so_status EXCEPT ![o] = "CANCELLED"]
    BY <1>2 DEF DispatchSalesOrder, DeliverSalesOrder, CancelSalesOrder, invVars
  <2>2. \A x \in SalesOrder : so_status'[x] \in Holding => so_status[x] \in Holding
    BY <2>1 DEF Holding, Kept, SOTypeOK
  <2> QED
    BY <2>1, <2>2 DEF HeldStockNotDeleted
<1> QED
  BY <1>1, <1>2 DEF SONext


\* StockPromise counts units as this module does.
LEMMA PromiseTotal == \A f : Promise!Total(f) = Total(f)
BY DEF Promise!Total, Total, Promise!Units, Units, Cardinality, Promise!Cardinality

\* What is set aside in a row is what its column says is reserved.
LEMMA PromiseCovered ==
  ASSUME Kept
  PROVE  Promise!Covered
<1> SUFFICES ASSUME NEW k \in Key
             PROVE  Promise!SetAside(k) <= OnHandIn(k)
  BY DEF Promise!Covered
<1>1. \A o \in SalesOrder :
        Share(o, k, Holding) =
          IF PromiseState(o) = "open" THEN PromiseUnits(o)[k] ELSE 0
  BY DEF Share, PromiseState, PromiseUnits, Holding, Shipped
<1>2. Promise!SetAside(k) = Ordered(k, Holding)
  <2>1. [o \in SalesOrder |->
          IF [x \in SalesOrder |-> PromiseState(x)][o] = "open"
          THEN [x \in SalesOrder |-> PromiseUnits(x)][o][k] ELSE 0]
        = [o \in SalesOrder |-> Share(o, k, Holding)]
    BY <1>1
  <2>2. QED
    BY <2>1, PromiseTotal DEF Promise!SetAside, Ordered
<1>3. QED
  BY <1>2 DEF Kept, ReservationsBacked, StockNonNegative, OnHandIn, InvTypeOK

\* A step that leaves the orders alone is a move of stock.
LEMMA PromiseMoves ==
  ASSUME Kept', UNCHANGED soVars
  PROVE  Promise!Next
<1>1. Promise!Covered'
  BY PromiseCovered, PTL
<1>2. \A k \in Key : OnHandIn(k)' \in Nat
  BY KeyParts DEF Kept, OnHandIn, InvTypeOK, StockNonNegative
<1>3. \A o \in SalesOrder : /\ PromiseState(o)' = PromiseState(o)
                            /\ PromiseUnits(o)' = PromiseUnits(o)
  BY DEF PromiseState, PromiseUnits, soVars
<1>4. QED
  BY <1>1, <1>2, <1>3 DEF Promise!Next, Promise!Move

\* A call about order o is a step of o in StockPromise, or changes nothing.
LEMMA PromiseOrders ==
  ASSUME Kept, Kept', SOWrites
  PROVE  Promise!Next \/ UNCHANGED Promise!promiseVars
<1> DEFINE on_hand == [k \in Key |-> OnHandIn(k)]
           state == [x \in SalesOrder |-> PromiseState(x)]
           units == [x \in SalesOrder |-> PromiseUnits(x)]
<1>1. Promise!Covered'
  BY PromiseCovered, PTL
<1>2. units' \in [SalesOrder -> [Key -> Nat]]
  <2>1. ASSUME NEW k \in Key, NEW o \in SalesOrder
        PROVE  PromiseUnits(o)'[k] \in Nat
    BY KeyParts DEF Kept, SOTypeOK, PromiseUnits
  <2>2. QED
    BY <2>1 DEF PromiseUnits
<1>3. ASSUME NEW o \in SalesOrder, NEW w \in Warehouse,
             NEW items \in [Product -> 0..MaxInteger],
             SalesOrderCreated(o, w, items)
      PROVE  Promise!Take(o)
  <2>1. \A x \in SalesOrder \ {o} : /\ PromiseState(x)' = PromiseState(x)
                                    /\ PromiseUnits(x)' = PromiseUnits(x)
    BY <1>3 DEF SalesOrderCreated, PromiseState, PromiseUnits, Kept, SOTypeOK
  <2>2. PromiseState(o) = "none" /\ PromiseState(o)' = "open"
    BY <1>3 DEF SalesOrderCreated, PromiseState, Kept, SOTypeOK, Holding, Shipped
  <2>3. state' = [state EXCEPT ![o] = "open"]
    BY <2>1, <2>2
  <2>4. \A k \in Key : OnHandIn(k)' = OnHandIn(k)
    <3>1. quantity_available' = Lowered(quantity_available, items, w)
          /\ quantity_reserved' = Raised(quantity_reserved, items, w)
      BY <1>3 DEF SalesOrderCreated
    <3>2. ASSUME NEW k \in Key
          PROVE  /\ quantity_available[k] \in Int /\ quantity_reserved[k] \in Int
                 /\ items[k[1]] \in Int
      BY InventoryAssumption, KeyParts DEF Kept, InvTypeOK
    <3>3. QED
      BY <3>1, <3>2 DEF OnHandIn, Lowered, Raised
  <2>5. QED
    BY <1>2, <2>1, <2>2, <2>3, <2>4 DEF Promise!Take
<1>4. ASSUME NEW o \in SalesOrder, DispatchSalesOrder(o)
      PROVE  Promise!Ship(o)
  <2>1. \A x \in SalesOrder \ {o} : PromiseState(x)' = PromiseState(x)
    BY <1>4 DEF DispatchSalesOrder, PromiseState, Kept, SOTypeOK
  <2>2. PromiseState(o) = "open" /\ PromiseState(o)' = "shipped"
    BY <1>4 DEF DispatchSalesOrder, Dispatchable, PromiseState, Kept, SOTypeOK,
                Holding, Shipped
  <2>3. \A x \in SalesOrder : PromiseUnits(x)' = PromiseUnits(x)
    BY <1>4 DEF DispatchSalesOrder, PromiseUnits
  <2>4. \A k \in Key : OnHandIn(k)' = OnHandIn(k) - PromiseUnits(o)[k]
    <3>1. /\ quantity_available' = quantity_available
          /\ quantity_reserved' =
               Lowered(quantity_reserved, so_items[o], so_warehouse[o])
      BY <1>4 DEF DispatchSalesOrder
    <3>2. ASSUME NEW k \in Key
          PROVE  /\ quantity_available[k] \in Int /\ quantity_reserved[k] \in Int
                 /\ so_items[o][k[1]] \in Int
      BY KeyParts DEF Kept, InvTypeOK, SOTypeOK
    <3>3. QED
      BY <3>1, <3>2 DEF OnHandIn, Lowered, PromiseUnits
  <2>5. QED
    BY <2>1, <2>2, <2>3, <2>4 DEF Promise!Ship
<1>5. ASSUME NEW o \in SalesOrder, DeliverSalesOrder(o)
      PROVE  UNCHANGED Promise!promiseVars
  <2>1. \A x \in SalesOrder : /\ PromiseState(x)' = PromiseState(x)
                              /\ PromiseUnits(x)' = PromiseUnits(x)
    BY <1>5 DEF DeliverSalesOrder, PromiseState, PromiseUnits, Kept, SOTypeOK,
                Holding, Shipped
  <2>2. \A k \in Key : OnHandIn(k)' = OnHandIn(k)
    BY <1>5 DEF DeliverSalesOrder, OnHandIn, invVars
  <2>3. QED
    BY <2>1, <2>2 DEF Promise!promiseVars
<1>6. ASSUME NEW o \in SalesOrder, CancelSalesOrder(o)
      PROVE  Promise!Release(o)
  <2>1. \A x \in SalesOrder \ {o} : PromiseState(x)' = PromiseState(x)
    BY <1>6 DEF CancelSalesOrder, PromiseState, Kept, SOTypeOK
  <2>2. PromiseState(o) = "open" /\ PromiseState(o)' = "released"
    BY <1>6 DEF CancelSalesOrder, Cancellable, PromiseState, Kept, SOTypeOK,
                Holding, Shipped
  <2>3. \A x \in SalesOrder : PromiseUnits(x)' = PromiseUnits(x)
    BY <1>6 DEF CancelSalesOrder, PromiseUnits
  <2>4. \A k \in Key : OnHandIn(k)' = OnHandIn(k)
    <3>1. /\ quantity_available' =
               Raised(quantity_available, so_items[o], so_warehouse[o])
          /\ quantity_reserved' =
               Lowered(quantity_reserved, so_items[o], so_warehouse[o])
      BY <1>6 DEF CancelSalesOrder
    <3>2. ASSUME NEW k \in Key
          PROVE  /\ quantity_available[k] \in Int /\ quantity_reserved[k] \in Int
                 /\ so_items[o][k[1]] \in Int
      BY KeyParts DEF Kept, InvTypeOK, SOTypeOK
    <3>3. QED
      BY <3>1, <3>2 DEF OnHandIn, Lowered, Raised
  <2>5. QED
    BY <2>1, <2>2, <2>3, <2>4 DEF Promise!Release
<1>7. QED
  BY <1>1, <1>3, <1>4, <1>5, <1>6 DEF SOWrites, Promise!Next

LEMMA PromiseInit == SOInit => Promise!Init
<1> SUFFICES ASSUME SOInit PROVE Promise!Init
  OBVIOUS
<1>1. \A o \in SalesOrder : PromiseState(o) = "none"
  BY DEF SOInit, PromiseState, Holding, Shipped
<1>2. \A o \in SalesOrder : PromiseUnits(o) = [k \in Key |-> 0]
  BY KeyParts DEF SOInit, PromiseUnits
<1>3. \A k \in Key : OnHandIn(k) = 0
  BY DEF SOInit, InvInit, OnHandIn
<1>4. QED
  BY <1>1, <1>2, <1>3 DEF Promise!Init

\* Every call is a step of StockPromise, or changes nothing it speaks of.
LEMMA PromiseSteps ==
  ASSUME Kept, Kept', SOWrites \/ (UNCHANGED soVars)
  PROVE  [Promise!Next]_(Promise!promiseVars)
BY PromiseMoves, PromiseOrders

(***************************************************************************)
(* The services of stock and sales orders implement StockPromise.          *)
(***************************************************************************)
THEOREM SOKeepsPromises == SOSpec => KeepsPromises
<1>1. SOInit => Kept
  BY InvInitType, SOInitReservation
     DEF InvInit, SOInit, SOTypeOK, StockNonNegative, Kept
<1>2. Kept /\ UNCHANGED <<invVars, soVars>> => Kept'
  BY DEF InvTypeOK, SOTypeOK, ReservationsBacked, Ordered, Share,
         StockNonNegative, invVars, soVars, Kept
<1>3. Kept /\ [SONext \/ (InvNext /\ UNCHANGED soVars)]_<<invVars, soVars>> => Kept'
  BY <1>2, SONextWrites, SOWritesType, InvNextWrites, InvWritesType,
     InvStepKeepsOrders, SOWritesReservation,
     InvWritesStock, InvStepKeepsReservations DEF Kept
<1>4. Kept /\ Kept' /\ [SONext \/ (InvNext /\ UNCHANGED soVars)]_<<invVars, soVars>>
        => [Promise!Next]_(Promise!promiseVars)
  BY SONextWrites, PromiseSteps
<1>5. QED
  BY <1>1, <1>3, <1>4, PromiseInit, PTL DEF SOSpec, KeepsPromises, Promise!Spec

(***************************************************************************)
(* delete_warehouse looks at the reserved column: the warehouse of an open *)
(* order that holds stock is not deleted.                                  *)
(***************************************************************************)
THEOREM SOHeldStockNotDeleted == SOSpec => []HeldStockNotDeleted
<1> DEFINE IInv == Kept /\ HeldStockNotDeleted
<1>1. SOInit => IInv
  BY InvInitType, SOInitReservation
     DEF InvInit, SOInit, SOTypeOK, StockNonNegative, Kept, HeldStockNotDeleted,
         Holding
<1>2. IInv /\ UNCHANGED <<invVars, soVars>> => IInv'
  BY DEF InvTypeOK, SOTypeOK, ReservationsBacked, Ordered, Share,
         StockNonNegative, invVars, soVars, Kept, HeldStockNotDeleted
<1>3. IInv /\ [SONext \/ (InvNext /\ UNCHANGED soVars)]_<<invVars, soVars>> => IInv'
  BY <1>2, SONextWrites, SOWritesType, InvNextWrites, InvWritesType,
     InvStepKeepsOrders, SOWritesReservation,
     InvWritesStock, InvStepKeepsReservations, InvNextHeld, SONextHeld DEF Kept
<1>4. QED
  BY <1>1, <1>3, PTL DEF SOSpec

=============================================================================
