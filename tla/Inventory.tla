------------------------------ MODULE Inventory ------------------------------
(***************************************************************************)
(* apps/inventory: the stock of every product in every warehouse, and the  *)
(* audit table of stock movements.  An action is one successful service    *)
(* call; a call that raises is rolled back and is no step.  Interleavings  *)
(* inside a call are the subject of RowLocking, and so are the check and   *)
(* the save of delete_warehouse, two statements in autocommit that are one *)
(* action here.                                                            *)
(***************************************************************************)
EXTENDS Integers, Totals

CONSTANTS
  Product,      \* rows of the products table; no code deletes one
  Warehouse,    \* rows of the warehouses table
  InitialRows,  \* inventory rows that exist at the start, without stock
  MaxInteger,   \* largest value of an IntegerField column (2^31 - 1)
  MaxPosted,    \* bound of the model: units the audit table may record
  None          \* a NULL foreign key, or no such row

Key == Product \X Warehouse      \* unique_together (product, warehouse)

ASSUME InventoryAssumption ==
  /\ IsFiniteSet(Product)
  /\ IsFiniteSet(Warehouse)
  /\ InitialRows \subseteq Key
  /\ MaxInteger \in Nat
  /\ MaxPosted \in Nat
  /\ None \notin Product \cup Warehouse

VARIABLES
  rows,                \* keys that have a row in the inventory table
  quantity_available,  \* the three columns; 0 for a key without a row
  quantity_reserved,
  quantity_damaged,
  ledger,              \* units recorded per key and kind of posting
  deleted              \* warehouses with is_deleted set

invVars == <<rows, quantity_available, quantity_reserved, quantity_damaged,
             ledger, deleted>>

TransactionType ==
  {"INBOUND", "OUTBOUND", "ADJUSTMENT", "TRANSFER", "DAMAGE_REPORT"}

(***************************************************************************)
(* What an InventoryTransaction row can stand for, told apart by its type, *)
(* its reference_id and its notes.  An adjustment of type TRANSFER records *)
(* a row that moves nothing: it has no posting here.                       *)
(***************************************************************************)
Posting ==
  {"INBOUND", "RECEIPT", "TRANSFER_IN", "ADJUSTMENT",
   "OUTBOUND", "DISPATCH", "TRANSFER_OUT", "DAMAGE_REPORT"}

Quantity == 1..MaxInteger

InvInit ==
  /\ rows = InitialRows
  /\ quantity_available = [k \in Key |-> 0]
  /\ quantity_reserved = [k \in Key |-> 0]
  /\ quantity_damaged = [k \in Key |-> 0]
  /\ ledger = [x \in Key \X Posting |-> 0]
  /\ deleted = {}

-----------------------------------------------------------------------------
\* Warehouse.objects.filter(id=w).first(), through the soft-delete manager.
WarehouseFound(w) == w \notin deleted

\* A value the column can store; PostgreSQL refuses a larger one.
Fits(n) == n <= MaxInteger

CanPost(q) == Total(ledger) + q <= MaxPosted

\* Slips of the operators below, for the mutants of the checks.
AvailableDeltaIgnoringDamage(type, q) ==
  IF type \in {"INBOUND", "ADJUSTMENT"} THEN q
  ELSE IF type = "OUTBOUND" THEN -q ELSE 0
CoversOneUnit(k, q) == quantity_available[k] > 0
NoRowCreated(k) == rows
HasAvailableInventory(w) ==
  \E k \in rows : k[2] = w /\ quantity_available[k] > 0
TransferOutOnly(p, s, d, q) == [quantity_available EXCEPT ![<<p, s>>] = @ - q]

Covers(k, q) == quantity_available[k] >= q

RowCreated(k) == rows \cup {k}

Deducts(type) == type \in {"OUTBOUND", "DAMAGE_REPORT"}

AvailableDelta(type, q) ==
  IF type \in {"INBOUND", "ADJUSTMENT"} THEN q
  ELSE IF Deducts(type) THEN -q ELSE 0

DamagedDelta(type, q) == IF type = "DAMAGE_REPORT" THEN q ELSE 0

\* What adjust_inventory does once it has found the warehouse.
StockAdjusted(p, w, type, q) ==
  LET k == <<p, w>> IN
  /\ Deducts(type) => Covers(k, q)
  /\ Fits(quantity_available[k] + AvailableDelta(type, q))
  /\ Fits(quantity_damaged[k] + DamagedDelta(type, q))
  /\ type # "TRANSFER" => CanPost(q)
  /\ rows' = RowCreated(k)
  /\ quantity_available' =
       [quantity_available EXCEPT ![k] = @ + AvailableDelta(type, q)]
  /\ quantity_damaged' =
       [quantity_damaged EXCEPT ![k] = @ + DamagedDelta(type, q)]
  /\ ledger' = IF type = "TRANSFER" THEN ledger
               ELSE [ledger EXCEPT ![<<k, type>>] = @ + q]
  /\ UNCHANGED <<quantity_reserved, deleted>>

AdjustInventory(p, w, type, q) ==
  WarehouseFound(w) /\ StockAdjusted(p, w, type, q)

-----------------------------------------------------------------------------
Transferred(p, s, d, q) ==
  [quantity_available EXCEPT ![<<p, s>>] = @ - q, ![<<p, d>>] = @ + q]

TransferPosted(p, s, d, q) ==
  [ledger EXCEPT ![<<<<p, s>>, "TRANSFER_OUT">>] = @ + q,
                 ![<<<<p, d>>, "TRANSFER_IN">>] = @ + q]

\* No guard on the warehouses: transfer_inventory never reads their rows.
TransferInventory(p, s, d, q) ==
  /\ s # d
  /\ <<p, s>> \in rows
  /\ Covers(<<p, s>>, q)
  /\ Fits(quantity_available[<<p, d>>] + q)
  /\ CanPost(2 * q)
  /\ rows' = RowCreated(<<p, d>>)
  /\ quantity_available' = Transferred(p, s, d, q)
  /\ ledger' = TransferPosted(p, s, d, q)
  /\ UNCHANGED <<quantity_reserved, quantity_damaged, deleted>>

-----------------------------------------------------------------------------
HasActiveInventory(w) ==
  \E k \in rows : /\ k[2] = w
                  /\ quantity_available[k] > 0 \/ quantity_reserved[k] > 0

WarehouseMarked(w) ==
  /\ deleted' = deleted \cup {w}
  /\ UNCHANGED <<rows, quantity_available, quantity_reserved,
                 quantity_damaged, ledger>>

DeleteWarehouse(w) ==
  /\ WarehouseFound(w)
  /\ ~HasActiveInventory(w)
  /\ WarehouseMarked(w)

InvNext ==
  \/ \E p \in Product, w \in Warehouse, t \in TransactionType, q \in Quantity :
       AdjustInventory(p, w, t, q)
  \/ \E p \in Product, s, d \in Warehouse, q \in Quantity :
       TransferInventory(p, s, d, q)
  \/ \E w \in Warehouse : DeleteWarehouse(w)

InvSpec == InvInit /\ [][InvNext]_invVars

-----------------------------------------------------------------------------
(***************************************************************************)
(* Every column has its type, and a key without a row has nothing stored:  *)
(* whatever a service writes, it first creates the row.                    *)
(***************************************************************************)
InvTypeOK ==
  /\ rows \subseteq Key
  /\ quantity_available \in [Key -> Int]
  /\ quantity_reserved \in [Key -> Int]
  /\ quantity_damaged \in [Key -> Int]
  /\ ledger \in [Key \X Posting -> Nat]
  /\ deleted \subseteq Warehouse
  /\ \A k \in Key \ rows : /\ quantity_available[k] = 0
                           /\ quantity_reserved[k] = 0
                           /\ quantity_damaged[k] = 0

(***************************************************************************)
(* No column is ever oversold.  The columns are plain IntegerFields, no    *)
(* database constraint stands behind the checks of the services.           *)
(***************************************************************************)
StockNonNegative ==
  \A k \in Key : /\ quantity_available[k] >= 0
                 /\ quantity_reserved[k] >= 0
                 /\ quantity_damaged[k] >= 0

Posted(k, post) == ledger[<<k, post>>]

\* The units that the audit table says are in row k.
Recorded(k) ==
  Posted(k, "INBOUND") + Posted(k, "RECEIPT")
  + Posted(k, "ADJUSTMENT") + Posted(k, "TRANSFER_IN")
  - Posted(k, "OUTBOUND") - Posted(k, "DISPATCH")
  - Posted(k, "DAMAGE_REPORT") - Posted(k, "TRANSFER_OUT")

(***************************************************************************)
(* The stock of a row is what the audit table says of it: inventory and    *)
(* inventory_transactions are written by separate statements in every      *)
(* service and must agree after each.  Reservations are not recorded and   *)
(* may only move units inside the row.                                     *)
(***************************************************************************)
LedgerBalanced ==
  \A k \in Key :
    /\ quantity_available[k] + quantity_reserved[k] = Recorded(k)
    /\ quantity_damaged[k] = Posted(k, "DAMAGE_REPORT")

OnHand(p) ==
  Total([w \in Warehouse |->
           quantity_available[<<p, w>>] + quantity_reserved[<<p, w>>]])

PostedFor(p, post) == Total([w \in Warehouse |-> Posted(<<p, w>>, post)])

(***************************************************************************)
(* Transfers neither make nor lose units: over all warehouses, a product   *)
(* has what came in from outside less what went out, whatever was moved    *)
(* between warehouses, deleted ones included.                              *)
(***************************************************************************)
ProductConserved ==
  \A p \in Product :
    OnHand(p) = PostedFor(p, "INBOUND") + PostedFor(p, "RECEIPT")
                + PostedFor(p, "ADJUSTMENT") - PostedFor(p, "OUTBOUND")
                - PostedFor(p, "DISPATCH") - PostedFor(p, "DAMAGE_REPORT")

(***************************************************************************)
(* warehouses/services.py:86 "Cannot delete warehouse with active          *)
(* inventory.": a deleted warehouse holds no stock.  transfer_inventory    *)
(* does not look whether its destination is deleted.                       *)
(***************************************************************************)
DeletedWarehouseEmpty == \A w \in deleted : ~HasActiveInventory(w)

=============================================================================
