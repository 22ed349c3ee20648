--------------------------- MODULE InventoryProofs ---------------------------
(***************************************************************************)
(* The invariants of Inventory, for all products, warehouses and bounds.   *)
(***************************************************************************)
EXTENDS Inventory, TotalsProofs

LEMMA InvInitType == InvInit => InvTypeOK
<1> SUFFICES ASSUME InvInit PROVE InvTypeOK
  OBVIOUS
<1> QED
  BY InventoryAssumption DEF InvInit, InvTypeOK

(***************************************************************************)
(* What the services write, whatever warehouses they have found: none of   *)
(* the invariants but those about deleted warehouses rests on a look-up.   *)
(***************************************************************************)
InvWrites ==
  \/ \E p \in Product, w \in Warehouse, t \in TransactionType, q \in Quantity :
       StockAdjusted(p, w, t, q)
  \/ \E p \in Product, s, d \in Warehouse, q \in Quantity :
       TransferInventory(p, s, d, q)
  \/ \E w \in Warehouse : WarehouseMarked(w)

LEMMA InvNextWrites == InvNext => InvWrites
BY DEF InvNext, InvWrites, AdjustInventory, DeleteWarehouse

LEMMA AdjustType ==
  ASSUME InvTypeOK, NEW p \in Product, NEW w \in Warehouse,
         NEW type \in TransactionType, NEW q \in Quantity,
         StockAdjusted(p, w, type, q)
  PROVE  InvTypeOK'
<1> DEFINE k == <<p, w>>
<1> USE DEF InvTypeOK
<1>1. k \in Key /\ q \in Int /\ q \in Nat
  BY InventoryAssumption DEF Key, Quantity
<1>2. AvailableDelta(type, q) \in Int /\ DamagedDelta(type, q) \in Int
  BY <1>1 DEF AvailableDelta, DamagedDelta
<1>3. rows' = rows \cup {k} /\ deleted' = deleted
      /\ quantity_reserved' = quantity_reserved
  BY DEF StockAdjusted, RowCreated
<1>4. quantity_available' \in [Key -> Int] /\ quantity_damaged' \in [Key -> Int]
  BY <1>1, <1>2 DEF StockAdjusted
<1>5. ledger' \in [Key \X Posting -> Nat]
  <2>1. CASE type = "TRANSFER"
    BY <2>1 DEF StockAdjusted
  <2>2. CASE type # "TRANSFER"
    <3>1. type \in Posting
      BY <2>2 DEF TransactionType, Posting
    <3>2. <<k, type>> \in Key \X Posting /\ ledger' = [ledger EXCEPT ![<<k, type>>] = @ + q]
      BY <1>1, <2>2, <3>1 DEF StockAdjusted
    <3>3. QED
      BY <1>1, <3>2
  <2>3. QED
    BY <2>1, <2>2
<1>6. \A j \in Key \ {k} : quantity_available'[j] = quantity_available[j]
                           /\ quantity_damaged'[j] = quantity_damaged[j]
  BY <1>1 DEF StockAdjusted
<1>7. QED
  BY <1>1, <1>3, <1>4, <1>5, <1>6

LEMMA TransferType ==
  ASSUME InvTypeOK, NEW p \in Product, NEW s \in Warehouse, NEW d \in Warehouse,
         NEW q \in Quantity, TransferInventory(p, s, d, q)
  PROVE  InvTypeOK'
<1> DEFINE k == <<p, s>>
           j == <<p, d>>
<1> USE DEF InvTypeOK
<1>1. k \in Key /\ j \in Key /\ q \in Int /\ q \in Nat
  BY InventoryAssumption DEF Key, Quantity
<1>2. rows' = rows \cup {j} /\ k \in rows /\ deleted' = deleted
      /\ quantity_reserved' = quantity_reserved
      /\ quantity_damaged' = quantity_damaged
  BY DEF TransferInventory, RowCreated
<1>3. /\ quantity_available' \in [Key -> Int]
      /\ \A i \in Key \ {k, j} : quantity_available'[i] = quantity_available[i]
  BY <1>1 DEF TransferInventory, Transferred
<1>4. ledger' \in [Key \X Posting -> Nat]
  <2>1. <<k, "TRANSFER_OUT">> \in Key \X Posting
        /\ <<j, "TRANSFER_IN">> \in Key \X Posting
    BY <1>1 DEF Posting
  <2>2. \A x, y \in Key \X Posting :
          [ledger EXCEPT ![x] = @ + q, ![y] = @ + q] \in [Key \X Posting -> Nat]
    BY <1>1
  <2>3. QED
    BY <2>1, <2>2 DEF TransferInventory, TransferPosted
<1>5. QED
  BY <1>1, <1>2, <1>3, <1>4

LEMMA InvWritesType ==
  ASSUME InvTypeOK, InvWrites
  PROVE  InvTypeOK'
<1>1. ASSUME NEW w \in Warehouse, WarehouseMarked(w) PROVE InvTypeOK'
  BY <1>1 DEF InvTypeOK, WarehouseMarked
<1>2. QED
  BY <1>1, AdjustType, TransferType DEF InvWrites

(***************************************************************************)
(* Type correctness of the inventory and audit tables.                     *)
(***************************************************************************)
THEOREM InvTypeCorrect == InvSpec => []InvTypeOK
<1>1. InvTypeOK /\ UNCHANGED invVars => InvTypeOK'
  BY DEF InvTypeOK, invVars
<1>2. InvTypeOK /\ [InvNext]_invVars => InvTypeOK'
  BY <1>1, InvNextWrites, InvWritesType
<1>3. QED
  BY InvInitType, <1>2, PTL DEF InvSpec

-----------------------------------------------------------------------------
LEMMA AdjustStock ==
  ASSUME InvTypeOK, StockNonNegative, NEW p \in Product, NEW w \in Warehouse,
         NEW type \in TransactionType, NEW q \in Quantity,
         StockAdjusted(p, w, type, q)
  PROVE  StockNonNegative'
<1> DEFINE k == <<p, w>>
<1>1. k \in Key /\ q \in Int /\ q > 0
  BY InventoryAssumption DEF Key, Quantity
<1>2. quantity_available[k] + AvailableDelta(type, q) >= 0
  <2>1. CASE Deducts(type)
    BY <1>1, <2>1 DEF StockAdjusted, Covers, AvailableDelta, Deducts, InvTypeOK
  <2>2. CASE ~Deducts(type)
    BY <1>1, <2>2 DEF AvailableDelta, StockNonNegative, InvTypeOK
  <2>3. QED
    BY <2>1, <2>2
<1>3. quantity_damaged[k] + DamagedDelta(type, q) >= 0
  BY <1>1 DEF DamagedDelta, StockNonNegative, InvTypeOK
<1>4. QED
  BY <1>1, <1>2, <1>3 DEF StockAdjusted, StockNonNegative, InvTypeOK

LEMMA TransferStock ==
  ASSUME InvTypeOK, StockNonNegative, NEW p \in Product, NEW s \in Warehouse,
         NEW d \in Warehouse, NEW q \in Quantity, TransferInventory(p, s, d, q)
  PROVE  StockNonNegative'
<1> DEFINE k == <<p, s>>
           j == <<p, d>>
<1>1. k \in Key /\ j \in Key /\ k # j /\ q \in Int /\ q > 0
  BY InventoryAssumption DEF Key, Quantity, TransferInventory
<1>2. quantity_available[k] >= q
  BY DEF TransferInventory, Covers
<1>3. QED
  BY <1>1, <1>2 DEF TransferInventory, Transferred, StockNonNegative, InvTypeOK

LEMMA InvWritesStock ==
  ASSUME InvTypeOK, StockNonNegative, InvWrites
  PROVE  StockNonNegative'
<1>1. ASSUME NEW w \in Warehouse, WarehouseMarked(w) PROVE StockNonNegative'
  BY <1>1 DEF StockNonNegative, WarehouseMarked
<1>2. QED
  BY <1>1, AdjustStock, TransferStock DEF InvWrites

(***************************************************************************)
(* No service oversells a row: from the checks of the services alone.      *)
(***************************************************************************)
THEOREM InvNeverOversold == InvSpec => []StockNonNegative
<1> DEFINE IInv == InvTypeOK /\ StockNonNegative
<1>1. InvInit => IInv
  BY InvInitType DEF InvInit, StockNonNegative
<1>2. IInv /\ UNCHANGED invVars => IInv'
  BY DEF InvTypeOK, StockNonNegative, invVars
<1>3. IInv /\ [InvNext]_invVars => IInv'
  BY <1>2, InvNextWrites, InvWritesType, InvWritesStock
<1>4. QED
  BY <1>1, <1>3, PTL DEF InvSpec

-----------------------------------------------------------------------------
Incoming == {"INBOUND", "RECEIPT", "ADJUSTMENT", "TRANSFER_IN"}

LEMMA PostedNat ==
  ASSUME ledger \in [Key \X Posting -> Nat], NEW j \in Key
  PROVE  /\ Posted(j, "INBOUND") \in Nat /\ Posted(j, "RECEIPT") \in Nat
         /\ Posted(j, "ADJUSTMENT") \in Nat /\ Posted(j, "TRANSFER_IN") \in Nat
         /\ Posted(j, "OUTBOUND") \in Nat /\ Posted(j, "DISPATCH") \in Nat
         /\ Posted(j, "DAMAGE_REPORT") \in Nat /\ Posted(j, "TRANSFER_OUT") \in Nat
BY DEF Posted, Posting

\* Posting q units of one kind to row k.
OnePosted(k, kind, q) == [ledger EXCEPT ![<<k, kind>>] = @ + q]

LEMMA PostOne ==
  ASSUME ledger \in [Key \X Posting -> Nat], NEW k \in Key, NEW kind \in Posting,
         NEW q \in Nat, ledger' = OnePosted(k, kind, q)
  PROVE  \A j \in Key, post \in Posting :
           Posted(j, post)' = Posted(j, post)
             + (IF j = k /\ post = kind THEN q ELSE 0)
<1> SUFFICES ASSUME NEW j \in Key, NEW post \in Posting
             PROVE  Posted(j, post)' = Posted(j, post)
                      + (IF j = k /\ post = kind THEN q ELSE 0)
  OBVIOUS
<1> DEFINE x == <<j, post>>
           y == <<k, kind>>
<1>1. /\ x \in Key \X Posting /\ (x = y <=> j = k /\ post = kind)
      /\ Posted(j, post) = ledger[x] /\ Posted(j, post)' = ledger'[x]
  BY DEF Posted
<1>2. ledger' = [ledger EXCEPT ![y] = @ + q]
  BY DEF OnePosted
<1>3. ledger'[x] = ledger[x] + (IF x = y THEN q ELSE 0)
  <2> HIDE DEF x, y
  <2> QED BY <1>1, <1>2
<1>4. QED
  BY <1>1, <1>3

\* What posting u[j] units of one kind to every row j says of the rows.
LEMMA PostUnits ==
  ASSUME ledger \in [Key \X Posting -> Nat], NEW kind \in Posting,
         NEW u \in [Key -> Nat],
         \A j \in Key, post \in Posting :
           Posted(j, post)' =
             Posted(j, post) + (IF post = kind THEN u[j] ELSE 0)
  PROVE  \A j \in Key : Recorded(j)' =
           Recorded(j) + (IF kind \in Incoming THEN u[j] ELSE -u[j])
<1> SUFFICES ASSUME NEW j \in Key
             PROVE  Recorded(j)' =
                      Recorded(j) + (IF kind \in Incoming THEN u[j] ELSE -u[j])
  OBVIOUS
<1>1. /\ Posted(j, "INBOUND")' = Posted(j, "INBOUND")
           + (IF kind = "INBOUND" THEN u[j] ELSE 0)
      /\ Posted(j, "RECEIPT")' = Posted(j, "RECEIPT")
           + (IF kind = "RECEIPT" THEN u[j] ELSE 0)
      /\ Posted(j, "ADJUSTMENT")' = Posted(j, "ADJUSTMENT")
           + (IF kind = "ADJUSTMENT" THEN u[j] ELSE 0)
      /\ Posted(j, "TRANSFER_IN")' = Posted(j, "TRANSFER_IN")
           + (IF kind = "TRANSFER_IN" THEN u[j] ELSE 0)
      /\ Posted(j, "OUTBOUND")' = Posted(j, "OUTBOUND")
           + (IF kind = "OUTBOUND" THEN u[j] ELSE 0)
      /\ Posted(j, "DISPATCH")' = Posted(j, "DISPATCH")
           + (IF kind = "DISPATCH" THEN u[j] ELSE 0)
      /\ Posted(j, "DAMAGE_REPORT")' = Posted(j, "DAMAGE_REPORT")
           + (IF kind = "DAMAGE_REPORT" THEN u[j] ELSE 0)
      /\ Posted(j, "TRANSFER_OUT")' = Posted(j, "TRANSFER_OUT")
           + (IF kind = "TRANSFER_OUT" THEN u[j] ELSE 0)
  BY DEF Posting
<1>2. kind \in {"INBOUND", "RECEIPT", "ADJUSTMENT", "TRANSFER_IN", "OUTBOUND",
                "DISPATCH", "DAMAGE_REPORT", "TRANSFER_OUT"}
  BY DEF Posting
<1>3. u[j] \in Nat
  OBVIOUS
<1>4. QED
  BY <1>1, <1>2, <1>3, PostedNat DEF Recorded, Incoming

LEMMA AdjustBalance ==
  ASSUME InvTypeOK, LedgerBalanced, NEW p \in Product, NEW w \in Warehouse,
         NEW type \in TransactionType, NEW q \in Quantity,
         StockAdjusted(p, w, type, q)
  PROVE  LedgerBalanced'
<1> DEFINE k == <<p, w>>
           u == [j \in Key |-> IF j = k THEN q ELSE 0]
<1>1. k \in Key /\ q \in Nat /\ q > 0
  BY InventoryAssumption DEF Key, Quantity
<1>2. /\ quantity_available' = [quantity_available EXCEPT ![k] = @ + AvailableDelta(type, q)]
      /\ quantity_damaged' = [quantity_damaged EXCEPT ![k] = @ + DamagedDelta(type, q)]
      /\ quantity_reserved' = quantity_reserved
      /\ ledger' = IF type = "TRANSFER" THEN ledger
                   ELSE [ledger EXCEPT ![<<k, type>>] = @ + q]
  BY DEF StockAdjusted
<1>3. ASSUME NEW j \in Key
      PROVE  /\ quantity_available'[j] = quantity_available[j]
                  + (IF j = k THEN AvailableDelta(type, q) ELSE 0)
             /\ quantity_damaged'[j] = quantity_damaged[j]
                  + (IF j = k THEN DamagedDelta(type, q) ELSE 0)
             /\ quantity_available[j] \in Int /\ quantity_reserved[j] \in Int
             /\ quantity_damaged[j] \in Int
  BY <1>1, <1>2 DEF InvTypeOK
<1>4. CASE type = "TRANSFER"
  <2>1. \A j \in Key : Recorded(j)' = Recorded(j)
                       /\ Posted(j, "DAMAGE_REPORT")' = Posted(j, "DAMAGE_REPORT")
    BY <1>2, <1>4 DEF Recorded, Posted
  <2>2. AvailableDelta(type, q) = 0 /\ DamagedDelta(type, q) = 0
    BY <1>4 DEF AvailableDelta, DamagedDelta, Deducts
  <2>3. QED
    BY <1>2, <1>3, <2>1, <2>2 DEF LedgerBalanced
<1>5. CASE type # "TRANSFER"
  <2>1. type \in Posting /\ u \in [Key -> Nat]
    BY <1>1, <1>5 DEF TransactionType, Posting
  <2>2. \A j \in Key, post \in Posting :
          Posted(j, post)' = Posted(j, post) + (IF post = type THEN u[j] ELSE 0)
    <3>1. \A j \in Key, post \in Posting :
            Posted(j, post)' = Posted(j, post)
              + (IF j = k /\ post = type THEN q ELSE 0)
      <4>1. ledger \in [Key \X Posting -> Nat]
        BY DEF InvTypeOK
      <4>2. ledger' = OnePosted(k, type, q)
        BY <1>2, <1>5 DEF OnePosted
      <4> HIDE DEF k
      <4>3. QED
        BY <1>1, <2>1, <4>1, <4>2, PostOne
    <3>2. QED
      BY <3>1
  <2>3. \A j \in Key : Recorded(j)' =
          Recorded(j) + (IF type \in Incoming THEN u[j] ELSE -u[j])
    <3> HIDE DEF u
    <3> QED BY <2>1, <2>2, PostUnits DEF InvTypeOK
  <2>4. \A j \in Key : Posted(j, "DAMAGE_REPORT")' = Posted(j, "DAMAGE_REPORT")
          + (IF type = "DAMAGE_REPORT" THEN u[j] ELSE 0)
    BY <2>2 DEF Posting
  <2>5. AvailableDelta(type, q) = (IF type \in Incoming THEN q ELSE -q)
        /\ DamagedDelta(type, q) = (IF type = "DAMAGE_REPORT" THEN q ELSE 0)
    BY <1>1, <1>5
       DEF AvailableDelta, DamagedDelta, Deducts, Incoming, TransactionType
  <2>6. ASSUME NEW j \in Key
        PROVE  /\ quantity_available'[j] + quantity_reserved'[j] = Recorded(j)'
               /\ quantity_damaged'[j] = Posted(j, "DAMAGE_REPORT")'
    <3>1. Posted(j, "DAMAGE_REPORT") \in Nat /\ Recorded(j) \in Int
      BY PostedNat DEF InvTypeOK, Recorded
    <3>2. quantity_available[j] + quantity_reserved[j] = Recorded(j)
          /\ quantity_damaged[j] = Posted(j, "DAMAGE_REPORT")
      BY DEF LedgerBalanced
    <3>3. u[j] = IF j = k THEN q ELSE 0
      OBVIOUS
    <3>4. QED
      BY <1>1, <1>2, <1>3, <2>3, <2>4, <2>5, <3>1, <3>2, <3>3
  <2>7. QED
    BY <2>6 DEF LedgerBalanced
<1>6. QED
  BY <1>4, <1>5

LEMMA TransferBalance ==
  ASSUME InvTypeOK, LedgerBalanced, NEW p \in Product, NEW s \in Warehouse,
         NEW d \in Warehouse, NEW q \in Quantity, TransferInventory(p, s, d, q)
  PROVE  LedgerBalanced'
<1> DEFINE k == <<p, s>>
           i == <<p, d>>
<1>1. k \in Key /\ i \in Key /\ k # i /\ q \in Nat
  BY InventoryAssumption DEF Key, Quantity, TransferInventory
<1>2. /\ quantity_available' = [quantity_available EXCEPT ![k] = @ - q, ![i] = @ + q]
      /\ ledger' = [ledger EXCEPT ![<<k, "TRANSFER_OUT">>] = @ + q,
                                  ![<<i, "TRANSFER_IN">>] = @ + q]
      /\ UNCHANGED <<quantity_reserved, quantity_damaged>>
  BY DEF TransferInventory, Transferred, TransferPosted
<1>3. ASSUME NEW j \in Key, NEW post \in Posting
      PROVE  Posted(j, post)' = Posted(j, post)
               + (IF j = k /\ post = "TRANSFER_OUT" THEN q ELSE 0)
               + (IF j = i /\ post = "TRANSFER_IN" THEN q ELSE 0)
  <2> DEFINE x == <<j, post>>
             out == <<k, "TRANSFER_OUT">>
             in == <<i, "TRANSFER_IN">>
  <2>1. /\ x \in Key \X Posting /\ out \in Key \X Posting /\ in \in Key \X Posting
        /\ out # in
        /\ x = out <=> j = k /\ post = "TRANSFER_OUT"
        /\ x = in <=> j = i /\ post = "TRANSFER_IN"
    BY <1>1 DEF Posting
  <2>2. ledger' = [ledger EXCEPT ![out] = @ + q, ![in] = @ + q]
    BY <1>2
  <2>3. ledger \in [Key \X Posting -> Nat]
    BY DEF InvTypeOK
  <2>4. ledger'[x] = ledger[x] + (IF x = out THEN q ELSE 0) + (IF x = in THEN q ELSE 0)
    <3> HIDE DEF x, out, in
    <3> QED BY <1>1, <2>1, <2>2, <2>3
  <2>5. QED
    BY <2>1, <2>4 DEF Posted
<1>4. ASSUME NEW j \in Key
      PROVE  /\ quantity_available'[j] + quantity_reserved'[j] = Recorded(j)'
             /\ quantity_damaged'[j] = Posted(j, "DAMAGE_REPORT")'
  <2>1. /\ Posted(j, "INBOUND")' = Posted(j, "INBOUND")
        /\ Posted(j, "RECEIPT")' = Posted(j, "RECEIPT")
        /\ Posted(j, "ADJUSTMENT")' = Posted(j, "ADJUSTMENT")
        /\ Posted(j, "OUTBOUND")' = Posted(j, "OUTBOUND")
        /\ Posted(j, "DISPATCH")' = Posted(j, "DISPATCH")
        /\ Posted(j, "DAMAGE_REPORT")' = Posted(j, "DAMAGE_REPORT")
        /\ Posted(j, "TRANSFER_IN")' = Posted(j, "TRANSFER_IN") + (IF j = i THEN q ELSE 0)
        /\ Posted(j, "TRANSFER_OUT")' = Posted(j, "TRANSFER_OUT") + (IF j = k THEN q ELSE 0)
    <3>1. {"INBOUND", "RECEIPT", "ADJUSTMENT", "OUTBOUND", "DISPATCH",
           "DAMAGE_REPORT", "TRANSFER_IN", "TRANSFER_OUT"} \subseteq Posting
      BY DEF Posting
    <3>2. \A post \in Posting : Posted(j, post) \in Nat
      BY DEF Posted, InvTypeOK
    <3>3. QED
      <4> HIDE DEF k, i
      <4> QED BY <1>1, <1>3, <3>1, <3>2
  <2>2. quantity_available'[j] = quantity_available[j]
          + (IF j = i THEN q ELSE 0) - (IF j = k THEN q ELSE 0)
    <3>1. quantity_available \in [Key -> Int]
      BY DEF InvTypeOK
    <3> HIDE DEF k, i
    <3>2. QED
      BY <1>1, <1>2, <3>1
  <2>3. quantity_available[j] \in Int /\ quantity_reserved[j] \in Int
    BY DEF InvTypeOK
  <2>4. Recorded(j)' = Recorded(j) + (IF j = i THEN q ELSE 0) - (IF j = k THEN q ELSE 0)
        /\ Recorded(j) \in Int
    BY <1>1, <2>1, PostedNat DEF Recorded, InvTypeOK
  <2>5. QED
    BY <1>1, <1>2, <2>1, <2>2, <2>3, <2>4 DEF LedgerBalanced
<1>5. QED
  BY <1>4 DEF LedgerBalanced

LEMMA InvWritesBalance ==
  ASSUME InvTypeOK, LedgerBalanced, InvWrites
  PROVE  LedgerBalanced'
<1>1. ASSUME NEW w \in Warehouse, WarehouseMarked(w) PROVE LedgerBalanced'
  BY <1>1 DEF LedgerBalanced, Recorded, Posted, WarehouseMarked
<1>2. QED
  BY <1>1, AdjustBalance, TransferBalance DEF InvWrites

LEMMA InvInitBalance == InvInit => LedgerBalanced
BY DEF InvInit, LedgerBalanced, Recorded, Posted, Posting

(***************************************************************************)
(* The audit table explains the stock of every row.                        *)
(***************************************************************************)
THEOREM InvLedgerBalanced == InvSpec => []LedgerBalanced
<1> DEFINE IInv == InvTypeOK /\ LedgerBalanced
<1>1. InvInit => IInv
  BY InvInitType, InvInitBalance
<1>2. IInv /\ UNCHANGED invVars => IInv'
  BY DEF InvTypeOK, LedgerBalanced, Recorded, Posted, invVars
<1>3. IInv /\ [InvNext]_invVars => IInv'
  BY <1>2, InvNextWrites, InvWritesType, InvWritesBalance
<1>4. QED
  BY <1>1, <1>3, PTL DEF InvSpec

-----------------------------------------------------------------------------
\* Units posted to one row and kind change the sums over the warehouses.
LEMMA PostedForUpdate ==
  ASSUME ledger \in [Key \X Posting -> Nat], ledger' \in [Key \X Posting -> Nat],
         NEW p \in Product, NEW post \in Posting, NEW w \in Warehouse,
         \A v \in Warehouse \ {w} : Posted(<<p, v>>, post)' = Posted(<<p, v>>, post)
  PROVE  /\ PostedFor(p, post)' = PostedFor(p, post)
              - Posted(<<p, w>>, post) + Posted(<<p, w>>, post)'
         /\ PostedFor(p, post) \in Nat
         /\ Posted(<<p, w>>, post) \in Nat
<1> DEFINE f == [v \in Warehouse |-> Posted(<<p, v>>, post)]
           g == [v \in Warehouse |-> Posted(<<p, v>>, post)']
<1>1. f \in [Warehouse -> Nat] /\ g \in [Warehouse -> Nat]
  BY DEF Posted, Key
<1>2. PostedFor(p, post) = Total(f) /\ PostedFor(p, post)' = Total(g)
  BY DEF PostedFor
<1>3. \A v \in Warehouse \ {w} : g[v] = f[v]
  OBVIOUS
<1>4. Total(g) = Total(f) - f[w] + g[w] /\ Total(f) \in Nat
  <2> HIDE DEF f, g
  <2> QED BY <1>1, <1>3, TotalUpdate, TotalNat, InventoryAssumption
<1>5. QED
  BY <1>1, <1>2, <1>4 DEF Posted

(***************************************************************************)
(* Per product, the units recorded as having left by transfer are those    *)
(* recorded as having arrived by one.                                      *)
(***************************************************************************)
TransfersPaired ==
  \A p \in Product :
    PostedFor(p, "TRANSFER_IN") = PostedFor(p, "TRANSFER_OUT")

\* Whatever records no transfer keeps the pairs.
LEMMA NoTransferKeepsPairs ==
  ASSUME TransfersPaired,
         \A k \in Key : /\ ledger'[<<k, "TRANSFER_IN">>] = ledger[<<k, "TRANSFER_IN">>]
                        /\ ledger'[<<k, "TRANSFER_OUT">>] = ledger[<<k, "TRANSFER_OUT">>]
  PROVE  TransfersPaired'
<1> SUFFICES ASSUME NEW p \in Product
             PROVE  PostedFor(p, "TRANSFER_IN")' = PostedFor(p, "TRANSFER_OUT")'
  BY DEF TransfersPaired
<1>1. \A w \in Warehouse :
        /\ Posted(<<p, w>>, "TRANSFER_IN")' = Posted(<<p, w>>, "TRANSFER_IN")
        /\ Posted(<<p, w>>, "TRANSFER_OUT")' = Posted(<<p, w>>, "TRANSFER_OUT")
  BY DEF Posted, Key
<1>2. /\ PostedFor(p, "TRANSFER_IN")' = PostedFor(p, "TRANSFER_IN")
      /\ PostedFor(p, "TRANSFER_OUT")' = PostedFor(p, "TRANSFER_OUT")
  BY <1>1 DEF PostedFor
<1>3. QED
  BY <1>2 DEF TransfersPaired

LEMMA TransferKeepsPairs ==
  ASSUME InvTypeOK, InvTypeOK', TransfersPaired, NEW p \in Product,
         NEW s \in Warehouse, NEW d \in Warehouse, NEW q \in Quantity,
         TransferInventory(p, s, d, q)
  PROVE  TransfersPaired'
<1> SUFFICES ASSUME NEW r \in Product
             PROVE  PostedFor(r, "TRANSFER_IN")' = PostedFor(r, "TRANSFER_OUT")'
  BY DEF TransfersPaired
<1>1. /\ ledger' = [ledger EXCEPT ![<<<<p, s>>, "TRANSFER_OUT">>] = @ + q,
                                  ![<<<<p, d>>, "TRANSFER_IN">>] = @ + q]
      /\ ledger \in [Key \X Posting -> Nat] /\ ledger' \in [Key \X Posting -> Nat]
      /\ q \in Nat
      /\ "TRANSFER_IN" \in Posting /\ "TRANSFER_OUT" \in Posting
  BY DEF InvTypeOK, TransferInventory, TransferPosted, Quantity, Posting
<1>2. ASSUME NEW v \in Warehouse
      PROVE  /\ Posted(<<r, v>>, "TRANSFER_IN")' = Posted(<<r, v>>, "TRANSFER_IN")
                  + (IF r = p /\ v = d THEN q ELSE 0)
             /\ Posted(<<r, v>>, "TRANSFER_OUT")' = Posted(<<r, v>>, "TRANSFER_OUT")
                  + (IF r = p /\ v = s THEN q ELSE 0)
  <2>1. <<r, v>> \in Key /\ <<p, s>> \in Key /\ <<p, d>> \in Key
        /\ (<<r, v>> = <<p, d>> <=> r = p /\ v = d)
        /\ (<<r, v>> = <<p, s>> <=> r = p /\ v = s)
    BY DEF Key
  <2>2. QED
    BY <1>1, <2>1 DEF Posted
<1>3. PostedFor(r, "TRANSFER_IN")' =
        PostedFor(r, "TRANSFER_IN") + (IF r = p THEN q ELSE 0)
  <2>1. \A v \in Warehouse \ {d} :
          Posted(<<r, v>>, "TRANSFER_IN")' = Posted(<<r, v>>, "TRANSFER_IN")
    BY <1>1, <1>2 DEF Posted, Key
  <2>2. Posted(<<r, d>>, "TRANSFER_IN")' = Posted(<<r, d>>, "TRANSFER_IN")
          + (IF r = p THEN q ELSE 0)
    BY <1>2
  <2>3. /\ PostedFor(r, "TRANSFER_IN")' = PostedFor(r, "TRANSFER_IN")
             - Posted(<<r, d>>, "TRANSFER_IN") + Posted(<<r, d>>, "TRANSFER_IN")'
        /\ PostedFor(r, "TRANSFER_IN") \in Nat
        /\ Posted(<<r, d>>, "TRANSFER_IN") \in Nat
    BY <1>1, <2>1, PostedForUpdate
  <2>4. QED
    BY <1>1, <2>2, <2>3
<1>4. PostedFor(r, "TRANSFER_OUT")' =
        PostedFor(r, "TRANSFER_OUT") + (IF r = p THEN q ELSE 0)
  <2>1. \A v \in Warehouse \ {s} :
          Posted(<<r, v>>, "TRANSFER_OUT")' = Posted(<<r, v>>, "TRANSFER_OUT")
    BY <1>1, <1>2 DEF Posted, Key
  <2>2. Posted(<<r, s>>, "TRANSFER_OUT")' = Posted(<<r, s>>, "TRANSFER_OUT")
          + (IF r = p THEN q ELSE 0)
    BY <1>2
  <2>3. /\ PostedFor(r, "TRANSFER_OUT")' = PostedFor(r, "TRANSFER_OUT")
             - Posted(<<r, s>>, "TRANSFER_OUT") + Posted(<<r, s>>, "TRANSFER_OUT")'
        /\ PostedFor(r, "TRANSFER_OUT") \in Nat
        /\ Posted(<<r, s>>, "TRANSFER_OUT") \in Nat
    BY <1>1, <2>1, PostedForUpdate
  <2>4. QED
    BY <1>1, <2>2, <2>3
<1>5. QED
  BY <1>3, <1>4 DEF TransfersPaired

LEMMA InvWritesPairs ==
  ASSUME InvTypeOK, TransfersPaired, InvWrites
  PROVE  TransfersPaired'
<1>1. ASSUME NEW p \in Product, NEW w \in Warehouse, NEW type \in TransactionType,
             NEW q \in Quantity, StockAdjusted(p, w, type, q)
      PROVE  TransfersPaired'
  <2>1. ledger' = IF type = "TRANSFER" THEN ledger
                  ELSE [ledger EXCEPT ![<<<<p, w>>, type>>] = @ + q]
    BY <1>1 DEF StockAdjusted
  <2>2. type \notin {"TRANSFER_IN", "TRANSFER_OUT"}
    BY DEF TransactionType
  <2>3. ASSUME NEW k \in Key, NEW post \in {"TRANSFER_IN", "TRANSFER_OUT"}
        PROVE  ledger'[<<k, post>>] = ledger[<<k, post>>]
    <3> DEFINE x == <<k, post>>
               y == <<<<p, w>>, type>>
    <3>1. x # y
      BY <2>2
    <3>2. x \in Key \X Posting
      BY DEF Posting
    <3>3. ledger' = ledger \/ ledger' = [ledger EXCEPT ![y] = @ + q]
      BY <2>1
    <3> HIDE DEF x, y
    <3>4. ledger'[x] = ledger[x]
      BY <3>1, <3>2, <3>3 DEF InvTypeOK
    <3>5. QED
      BY <3>4 DEF x
  <2>4. QED
    BY <2>3, NoTransferKeepsPairs
<1>2. ASSUME NEW w \in Warehouse, WarehouseMarked(w) PROVE TransfersPaired'
  BY <1>2, NoTransferKeepsPairs DEF WarehouseMarked
<1>3. QED
  BY <1>1, <1>2, InvWritesType, TransferKeepsPairs DEF InvWrites

LEMMA InvInitPairs == InvInit => TransfersPaired
<1> SUFFICES ASSUME InvInit, NEW p \in Product,
                    NEW post \in {"TRANSFER_IN", "TRANSFER_OUT"}
             PROVE  PostedFor(p, post) = 0
  BY DEF TransfersPaired
<1> DEFINE f == [w \in Warehouse |-> Posted(<<p, w>>, post)]
<1>1. f \in [Warehouse -> Nat] /\ \A w \in Warehouse : f[w] = 0
  BY DEF InvInit, Key, Posted, Posting
<1>2. QED
  BY <1>1, TotalZero DEF PostedFor

\* With its transfers paired, an audit table that explains every row explains
\* every product.
LEMMA PairsConserve ==
  ASSUME InvTypeOK, StockNonNegative, LedgerBalanced, TransfersPaired
  PROVE  ProductConserved
<1> SUFFICES ASSUME NEW p \in Product
             PROVE  OnHand(p) = PostedFor(p, "INBOUND") + PostedFor(p, "RECEIPT")
                      + PostedFor(p, "ADJUSTMENT") - PostedFor(p, "OUTBOUND")
                      - PostedFor(p, "DISPATCH") - PostedFor(p, "DAMAGE_REPORT")
  BY DEF ProductConserved
<1> DEFINE held == [w \in Warehouse |->
                      quantity_available[<<p, w>>] + quantity_reserved[<<p, w>>]]
           of(post) == [w \in Warehouse |-> Posted(<<p, w>>, post)]
           came == [w \in Warehouse |-> of("INBOUND")[w] + of("RECEIPT")[w]
                      + of("ADJUSTMENT")[w] + of("TRANSFER_IN")[w]]
           left == [w \in Warehouse |-> of("OUTBOUND")[w] + of("DISPATCH")[w]
                      + of("DAMAGE_REPORT")[w] + of("TRANSFER_OUT")[w]]
<1>1. \A post \in Posting : of(post) \in [Warehouse -> Nat]
  BY DEF Posted, Key, InvTypeOK
<1>2. held \in [Warehouse -> Nat]
  BY DEF InvTypeOK, StockNonNegative, Key
<1>3. \A w \in Warehouse : came[w] = held[w] + left[w]
  <2> SUFFICES ASSUME NEW w \in Warehouse PROVE came[w] = held[w] + left[w]
    OBVIOUS
  <2>1. <<p, w>> \in Key
    BY DEF Key
  <2>2. quantity_available[<<p, w>>] + quantity_reserved[<<p, w>>] = Recorded(<<p, w>>)
    BY <2>1 DEF LedgerBalanced
  <2>3. QED
    BY <2>1, <2>2, PostedNat DEF Recorded, InvTypeOK
<1>4. \A post \in Posting : PostedFor(p, post) = Total(of(post))
  BY DEF PostedFor
<1>5. OnHand(p) = Total(held)
  BY DEF OnHand
<1> HIDE DEF held, of
<1>6. came \in [Warehouse -> Nat] /\ left \in [Warehouse -> Nat]
  BY <1>1 DEF Posting
<1>7. /\ Total(came) = Total(of("INBOUND")) + Total(of("RECEIPT"))
           + Total(of("ADJUSTMENT")) + Total(of("TRANSFER_IN"))
      /\ Total(left) = Total(of("OUTBOUND")) + Total(of("DISPATCH"))
           + Total(of("DAMAGE_REPORT")) + Total(of("TRANSFER_OUT"))
  <2>1. /\ of("INBOUND") \in [Warehouse -> Nat] /\ of("RECEIPT") \in [Warehouse -> Nat]
        /\ of("ADJUSTMENT") \in [Warehouse -> Nat]
        /\ of("TRANSFER_IN") \in [Warehouse -> Nat]
    BY <1>1 DEF Posting
  <2>2. /\ of("OUTBOUND") \in [Warehouse -> Nat] /\ of("DISPATCH") \in [Warehouse -> Nat]
        /\ of("DAMAGE_REPORT") \in [Warehouse -> Nat]
        /\ of("TRANSFER_OUT") \in [Warehouse -> Nat]
    BY <1>1 DEF Posting
  <2>3. IsFiniteSet(Warehouse)
    BY InventoryAssumption
  <2>4. Total(came) = Total(of("INBOUND")) + Total(of("RECEIPT"))
          + Total(of("ADJUSTMENT")) + Total(of("TRANSFER_IN"))
    BY <2>1, <2>3, FourTotals
  <2>5. Total(left) = Total(of("OUTBOUND")) + Total(of("DISPATCH"))
          + Total(of("DAMAGE_REPORT")) + Total(of("TRANSFER_OUT"))
    BY <2>2, <2>3, FourTotals
  <2>6. QED
    BY <2>4, <2>5
<1> HIDE DEF came, left
<1>8. Total(came) = Total(held) + Total(left)
  BY <1>2, <1>3, <1>6, TotalSum, InventoryAssumption
<1>9. \A post \in Posting : PostedFor(p, post) \in Nat
  BY <1>1, <1>4, TotalNat, InventoryAssumption
<1>10. /\ PostedFor(p, "INBOUND") \in Nat /\ PostedFor(p, "RECEIPT") \in Nat
       /\ PostedFor(p, "ADJUSTMENT") \in Nat /\ PostedFor(p, "OUTBOUND") \in Nat
       /\ PostedFor(p, "DISPATCH") \in Nat /\ PostedFor(p, "DAMAGE_REPORT") \in Nat
       /\ PostedFor(p, "TRANSFER_IN") \in Nat /\ PostedFor(p, "TRANSFER_OUT") \in Nat
  BY <1>9 DEF Posting
<1>11. OnHand(p) \in Nat
  BY <1>2, <1>5, TotalNat, InventoryAssumption
<1>12. /\ Total(came) = PostedFor(p, "INBOUND") + PostedFor(p, "RECEIPT")
            + PostedFor(p, "ADJUSTMENT") + PostedFor(p, "TRANSFER_IN")
       /\ Total(left) = PostedFor(p, "OUTBOUND") + PostedFor(p, "DISPATCH")
            + PostedFor(p, "DAMAGE_REPORT") + PostedFor(p, "TRANSFER_OUT")
  BY <1>4, <1>7 DEF Posting
<1>13. PostedFor(p, "TRANSFER_IN") = PostedFor(p, "TRANSFER_OUT")
  BY DEF TransfersPaired
<1>14. QED
  BY <1>5, <1>8, <1>10, <1>11, <1>12, <1>13

(***************************************************************************)
(* Over all warehouses, transfers neither make nor lose a unit.            *)
(***************************************************************************)
THEOREM InvProductConserved == InvSpec => []ProductConserved
<1> DEFINE IInv == /\ InvTypeOK /\ StockNonNegative
                   /\ LedgerBalanced /\ TransfersPaired
<1>1. InvInit => IInv
  BY InvInitType, InvInitBalance, InvInitPairs DEF InvInit, StockNonNegative
<1>2. IInv /\ UNCHANGED invVars => IInv'
  BY DEF InvTypeOK, StockNonNegative, LedgerBalanced, TransfersPaired,
         PostedFor, Recorded, Posted, invVars
<1>3. IInv /\ [InvNext]_invVars => IInv'
  BY <1>2, InvNextWrites, InvWritesType, InvWritesStock, InvWritesBalance,
     InvWritesPairs
<1>4. IInv => ProductConserved
  BY PairsConserve
<1>5. QED
  BY <1>1, <1>3, <1>4, PTL DEF InvSpec

=============================================================================
