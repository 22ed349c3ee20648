-------------------------- MODULE RowLockingProofs --------------------------
(***************************************************************************)
(* Interleaved calls, for any number of workers, rows, orders and          *)
(* requests.  Five invariants, each with the hypothesis that it needs:     *)
(*   LockInv    no hypothesis: a row is locked when it is saved, an order  *)
(*              from its status test to the commit;                        *)
(*   ClaimInv   no hypothesis: a call locks its order before any row, and  *)
(*              only rows that it writes;                                  *)
(*   StockInv   every copy that is saved is current: a commit writes what  *)
(*              a call of SupplySync writes, once it has found its         *)
(*              warehouse;                                                 *)
(*   FoundInv   no warehouse is deleted under a call about it: the         *)
(*              warehouse of the call is still found when it commits;      *)
(*   FreshInv   no transfer reads a row that it has not locked: every copy *)
(*              is current.                                                *)
(* Together the last three make the interleaved calls have the effect of   *)
(* calls run one after the other.                                          *)
(***************************************************************************)
EXTENDS RowLocking, SupplySyncProofs, SequenceTheorems

SalesOps == {"dispatch", "deliver", "cancel"}
PurchaseOps == {"submit", "withdraw", "approve", "receive"}
OrderOps == SalesOps \cup PurchaseOps

-----------------------------------------------------------------------------
\* What is known of a call under way.  First its place in the code.
Placed(t) ==
  /\ call[t] \in Call
  /\ Op(t) = "delete" <=> pc[t] \in {"check", "mark"}
  /\ Op(t) = "draft" => pc[t] = "commit"
  /\ pc[t] = "lock_order" => Op(t) \in OrderOps
  /\ pc[t] \in {"read_source", "get_dest", "save_source", "save_dest"}
       => Op(t) = "transfer"
  /\ pc[t] = "line" => Op(t) = "receive"

\* It holds its order, whose status is still the one it has tested.
OrderHeld(t) ==
  Op(t) \in OrderOps =>
    /\ OrderExists(call[t].o)
    /\ pc[t] # "lock_order" => order_lock[call[t].o] = t
    /\ pc[t] \notin {"lock_order", "select"} => StatusAllows(t)

\* The rows it has still to lock.
ToGo(t) ==
  CASE Op(t) = "adjust" -> {Adjusted(t)}
    [] Op(t) = "receive" -> ReceiptLines(t)
    [] OTHER -> rows

Listed(t) ==
  /\ todo[t] \in Seq(ToGo(t))
  /\ pc[t] \in {"line", "lock"} => todo[t] # <<>>

\* A line of a receipt that is not yet received in full.
LineRoom(t, l) ==
  LET i == <<call[t].o, l>> IN
  call[t].recv[l] <= quantity_ordered[i] - quantity_received[i]

\* Of the lines that a receipt has to lock, those it has still to test.
Untested(statement, lines) ==
  CASE statement = "line" -> lines
    [] statement = "lock" -> Tail(lines)
    [] OTHER -> <<>>

Among(l, lines) == \E n \in 1..Len(lines) : lines[n] = l

\* At its commit a receipt has tested every line that it names.
LinesTested(t) ==
  Op(t) = "receive" /\ pc[t] \in {"line", "lock", "commit"} =>
    \A l \in ReceiptLines(t) :
      LineRoom(t, l) \/ Among(l, Untested(pc[t], todo[t]))

\* The copies in memory are current, and the rows they are of are locked.
Fresh(t) ==
  \A k \in Key :
    local[t][k] = IF row_lock[k] = t THEN CommittedRow(k) ELSE None

\* Only a transfer reads rows that it has not locked; but it tests the copy
\* that it saves, locks what it saves, and finds nothing in a row it inserts.
TransferHolds(t) ==
  /\ pc[t] \in {"get_dest", "save_source", "save_dest", "commit"} =>
       Source(t) \in rows /\ local[t][Source(t)].available >= call[t].q
  /\ pc[t] \in {"save_source", "save_dest", "commit"} =>
       Dest(t) \in rows \/ row_lock[Dest(t)] = t
  /\ pc[t] \in {"save_dest", "commit"} => row_lock[Source(t)] = t
  /\ pc[t] = "commit" => row_lock[Dest(t)] = t
  /\ \A k \in Key : row_lock[k] = t /\ k \notin rows => local[t][k] = EmptyRow

\* A SELECT FOR UPDATE locks no row that does not exist.
RowsHeld(t) ==
  IF Op(t) = "transfer" THEN TransferHolds(t)
  ELSE /\ Fresh(t)
       /\ \A k \in Key : row_lock[k] = t =>
            k \in rows \/ Op(t) \in {"adjust", "receive"}

\* Between calls it has nothing.
Rested(t) ==
  /\ call[t] = None
  /\ todo[t] = <<>>
  /\ local[t] = NothingRead
  /\ \A k \in Key : row_lock[k] # t
  /\ \A o \in SalesOrder \cup PurchaseOrder : order_lock[o] # t

Lists == Seq(Key \cup Line)

WorkerTypes ==
  /\ pc \in [Worker -> Statement]
  /\ call \in [Worker -> Call \cup {None}]
  /\ todo \in [Worker -> Lists]
  /\ local \in [Worker -> [Key -> Columns \cup {None}]]
  /\ row_lock \in [Key -> Worker \cup {None}]
  /\ order_lock \in [SalesOrder \cup PurchaseOrder -> Worker \cup {None}]

(***************************************************************************)
(* What the locks give whatever races.  A transfer may save a row that it  *)
(* read unlocked, and a warehouse may be deleted under a call; but every   *)
(* row is locked when it is saved, an order is locked from its status test *)
(* to the commit, and what is read under a lock stays as it was.           *)
(***************************************************************************)
WorkerLocks(t) ==
  IF pc[t] = "idle" THEN Rested(t)
  ELSE Placed(t) /\ OrderHeld(t) /\ Listed(t) /\ LinesTested(t) /\ RowsHeld(t)

LockInv ==
  /\ InvTypeOK /\ SOTypeOK /\ DutyInv
  /\ WorkerTypes
  /\ \A t \in Worker : WorkerLocks(t)

\* What is known of t when it runs its next statement.
LEMMA LocksNow ==
  ASSUME LockInv, NEW t \in Worker, pc[t] # "idle"
  PROVE  /\ call[t] \in Call
         /\ Placed(t) /\ OrderHeld(t) /\ Listed(t) /\ LinesTested(t) /\ RowsHeld(t)
BY DEF LockInv, WorkerLocks, Rested, Placed

-----------------------------------------------------------------------------
\* The requests.

LEMMA CallKinds ==
  ASSUME NEW c \in Call
  PROVE  /\ c.op = "adjust" => c \in AdjustCall
         /\ c.op = "transfer" => c \in TransferCall /\ c.s # c.d
         /\ c.op = "create" => c \in CreateCall
         /\ c.op = "delete" => c \in DeleteCall
         /\ c.op = "draft" => c \in DraftCall
         /\ c.op \in SalesOps => c \in SalesOrderCall
         /\ c.op \in {"submit", "withdraw"} => c \in PurchaseOrderCall
         /\ c.op = "approve" => c \in ApproveCall
         /\ c.op = "receive" => c \in ReceiveCall
         /\ c.op \in {"adjust", "transfer", "create", "delete", "draft"}
                     \cup OrderOps
         /\ "o" \in DOMAIN c <=> c.op \in OrderOps
<1> USE DEF SalesOps, PurchaseOps, OrderOps
<1>1. \/ c \in AdjustCall
      \/ c \in TransferCall /\ c.s # c.d
      \/ c \in CreateCall
      \/ c \in SalesOrderCall
      \/ c \in DeleteCall
      \/ c \in DraftCall
      \/ c \in PurchaseOrderCall \/ c \in ApproveCall \/ c \in ReceiveCall
  BY RowLockingAssumption
<1>2. CASE c \in AdjustCall
  <2>1. c.op = "adjust" /\ DOMAIN c = {"op", "p", "w", "type", "q"}
    BY <1>2 DEF AdjustCall
  <2> QED
    BY <1>2, <2>1
<1>3. CASE c \in TransferCall /\ c.s # c.d
  <2>1. c.op = "transfer" /\ DOMAIN c = {"op", "p", "s", "d", "q"}
    BY <1>3 DEF TransferCall
  <2> QED
    BY <1>3, <2>1
<1>4. CASE c \in CreateCall
  <2>1. c.op = "create" /\ DOMAIN c = {"op", "w", "items"}
    BY <1>4 DEF CreateCall
  <2> QED
    BY <1>4, <2>1
<1>5. CASE c \in SalesOrderCall
  <2>1. c.op \in SalesOps /\ DOMAIN c = {"op", "o"}
    BY <1>5 DEF SalesOrderCall
  <2> QED
    BY <1>5, <2>1
<1>6. CASE c \in DeleteCall
  <2>1. c.op = "delete" /\ DOMAIN c = {"op", "w"}
    BY <1>6 DEF DeleteCall
  <2> QED
    BY <1>6, <2>1
<1>7. CASE c \in DraftCall
  <2>1. c.op = "draft" /\ DOMAIN c = {"op", "w", "u", "product", "qty"}
    BY <1>7 DEF DraftCall
  <2> QED
    BY <1>7, <2>1
<1>8. CASE c \in PurchaseOrderCall
  <2>1. c.op \in {"submit", "withdraw"} /\ DOMAIN c = {"op", "o"}
    BY <1>8 DEF PurchaseOrderCall
  <2> QED
    BY <1>8, <2>1
<1>9. CASE c \in ApproveCall
  <2>1. c.op = "approve" /\ DOMAIN c = {"op", "o", "u"}
    BY <1>9 DEF ApproveCall
  <2> QED
    BY <1>9, <2>1
<1>10. CASE c \in ReceiveCall
  <2>1. c.op = "receive" /\ DOMAIN c = {"op", "o", "recv"}
    BY <1>10 DEF ReceiveCall
  <2> QED
    BY <1>10, <2>1
<1> QED
  BY <1>1, <1>2, <1>3, <1>4, <1>5, <1>6, <1>7, <1>8, <1>9, <1>10

\* The order of a call is one of the table that its service is about.
LEMMA CallOrder ==
  ASSUME NEW c \in Call
  PROVE  /\ c.op \in SalesOps => c.o \in SalesOrder /\ c.o \notin PurchaseOrder
         /\ c.op \in PurchaseOps => c.o \in PurchaseOrder /\ c.o \notin SalesOrder
         /\ c.op = "receive" => c.recv \in [Line -> 0..MaxInteger]
<1>1. SalesOrder \cap PurchaseOrder = {}
  BY RowLockingAssumption
<1>2. c.op \in PurchaseOps => c.op \in {"submit", "withdraw", "approve", "receive"}
  BY DEF PurchaseOps
<1> QED
  BY <1>1, <1>2, CallKinds
  DEF SalesOrderCall, PurchaseOrderCall, ApproveCall, ReceiveCall

-----------------------------------------------------------------------------
(***************************************************************************)
(* A step of one worker, seen by another one: what is committed meanwhile  *)
(* leaves the rows and the order that u has locked, and the lines and the  *)
(* warehouse of every order, as they are.                                  *)
(***************************************************************************)
SameColumns(k) ==
  /\ quantity_available'[k] = quantity_available[k]
  /\ quantity_reserved'[k] = quantity_reserved[k]
  /\ quantity_damaged'[k] = quantity_damaged[k]

SparesSales(u) ==
  \A o \in SalesOrder : so_status[o] # "NONE" =>
    /\ so_status'[o] # "NONE"
    /\ so_warehouse'[o] = so_warehouse[o] /\ so_items'[o] = so_items[o]
    /\ order_lock[o] = u => so_status'[o] = so_status[o]

SparesPurchases(u) ==
  \A o \in PurchaseOrder : po_status[o] # "NONE" =>
    /\ po_status'[o] # "NONE"
    /\ po_warehouse'[o] = po_warehouse[o]
    /\ \A l \in Line : item_product'[<<o, l>>] = item_product[<<o, l>>]
    /\ order_lock[o] = u =>
         /\ po_status'[o] = po_status[o] /\ created_by'[o] = created_by[o]
         /\ \A l \in Line :
              /\ quantity_ordered'[<<o, l>>] = quantity_ordered[<<o, l>>]
              /\ quantity_received'[<<o, l>>] = quantity_received[<<o, l>>]

Spares(u) ==
  /\ rows \subseteq rows'
  /\ \A k \in Key : row_lock[k] = u => SameColumns(k)
  /\ SparesSales(u) /\ SparesPurchases(u)

\* u itself does nothing, and nobody takes or gives it a lock.
Waits(u) ==
  /\ pc'[u] = pc[u] /\ call'[u] = call[u] /\ todo'[u] = todo[u]
  /\ local'[u] = local[u]
  /\ \A k \in Key : row_lock'[k] = u <=> row_lock[k] = u
  /\ \A o \in SalesOrder \cup PurchaseOrder :
       order_lock'[o] = u <=> order_lock[o] = u

LEMMA OrderStays ==
  ASSUME NEW u \in Worker, call[u] \in Call, call'[u] = call[u],
         Op(u) \in OrderOps, OrderExists(call[u].o),
         SparesSales(u), SparesPurchases(u)
  PROVE  /\ OrderExists(call[u].o)'
         /\ order_lock[call[u].o] = u /\ StatusAllows(u) => StatusAllows(u)'
         /\ CallWarehouses(u)' = CallWarehouses(u)
<1>1. CASE Op(u) \in SalesOps
  <2>1. call[u].o \in SalesOrder /\ so_status[call[u].o] # "NONE"
    BY <1>1, CallOrder DEF Op, OrderExists
  <2>2. OrderExists(call[u].o)' /\ CallWarehouses(u)' = CallWarehouses(u)
    BY <1>1, <2>1 DEF SparesSales, OrderExists, Op, CallWarehouses, SalesOps
  <2>3. ASSUME order_lock[call[u].o] = u, StatusAllows(u)
        PROVE  StatusAllows(u)'
    BY <1>1, <2>1, <2>3 DEF SparesSales, StatusAllows, Op, SalesOps
  <2> QED
    BY <2>2, <2>3
<1>2. CASE Op(u) \in PurchaseOps
  <2>1. /\ call[u].o \in PurchaseOrder /\ call[u].o \notin SalesOrder
        /\ po_status[call[u].o] # "NONE"
    BY <1>2, CallOrder DEF Op, OrderExists
  <2>2. OrderExists(call[u].o)' /\ CallWarehouses(u)' = CallWarehouses(u)
    BY <1>2, <2>1 DEF SparesPurchases, OrderExists, Op, CallWarehouses, PurchaseOps
  <2>3. ASSUME order_lock[call[u].o] = u, StatusAllows(u)
        PROVE  StatusAllows(u)'
    <3> DEFINE o == call[u].o
    <3>1. /\ po_status'[o] = po_status[o] /\ created_by'[o] = created_by[o]
          /\ \A l \in Line : HasLine(o, l)' <=> HasLine(o, l)
          /\ call'[u].o = o /\ call'[u].u = call[u].u
      BY <2>1, <2>3 DEF SparesPurchases, HasLine
    <3>2. Op(u)' = Op(u) /\ Op(u) \notin SalesOps
      BY <1>2 DEF Op, PurchaseOps, SalesOps
    <3>3. CASE Op(u) = "submit"
      BY <2>3, <3>1, <3>2, <3>3 DEF StatusAllows, HasLine
    <3>4. CASE Op(u) # "submit"
      BY <1>2, <2>3, <3>1, <3>2, <3>4 DEF StatusAllows, MayApprove, PurchaseOps
    <3> QED
      BY <3>3, <3>4
  <2> QED
    BY <2>2, <2>3
<1> QED
  BY <1>1, <1>2 DEF OrderOps

\* The lines of a receipt, and which of them have room for what arrives.
LEMMA ReceiptStays ==
  ASSUME NEW u \in Worker, call[u] \in Call, call'[u] = call[u],
         Op(u) = "receive", OrderExists(call[u].o), SparesPurchases(u)
  PROVE  /\ ReceiptLines(u)' = ReceiptLines(u) /\ ReceiptLines(u) \subseteq Line
         /\ order_lock[call[u].o] = u =>
              \A l \in Line : LineRoom(u, l) => LineRoom(u, l)'
<1>1. /\ call[u].o \in PurchaseOrder /\ po_status[call[u].o] # "NONE"
  BY CallOrder DEF Op, OrderExists, PurchaseOps
<1>2. ReceiptLines(u)' = ReceiptLines(u) /\ ReceiptLines(u) \subseteq Line
  BY <1>1 DEF SparesPurchases, ReceiptLines, HasLine
<1>3. ASSUME order_lock[call[u].o] = u, NEW l \in Line, LineRoom(u, l)
      PROVE  LineRoom(u, l)'
  BY <1>1, <1>3 DEF SparesPurchases, LineRoom
<1> QED
  BY <1>2, <1>3

LEMMA SeqGrows ==
  ASSUME NEW S, NEW T, S \subseteq T, NEW s \in Seq(S)
  PROVE  s \in Seq(T)
OBVIOUS

LEMMA TailGoes ==
  ASSUME NEW S, NEW s \in Seq(S), s # <<>>
  PROVE  Tail(s) \in Seq(S) /\ (Len(s) # 1 => Tail(s) # <<>>)
<1>1. Tail(s) \in Seq(S) /\ Len(Tail(s)) = Len(s) - 1
  BY HeadTailProperties
<1>2. Len(s) \in Nat
  BY LenProperties
<1>3. ASSUME Tail(s) = <<>> PROVE Len(Tail(s)) = 0
  <2>1. Len(Tail(s)) = Len(<<>>)
    BY <1>3
  <2> QED
    BY <2>1, EmptySeq, Zenon
<1> QED
  BY <1>1, <1>2, <1>3

LEMMA StillListed ==
  ASSUME NEW S, NEW s \in Seq(S), s # <<>>, NEW n \in 1..Len(s), s[n] # Head(s)
  PROVE  Len(s) # 1 /\ \E m \in 1..Len(Tail(s)) : Tail(s)[m] = s[n]
<1>1. n # 1
  OBVIOUS
<1>2. n - 1 \in 1..Len(Tail(s)) /\ Tail(s)[n - 1] = s[n] /\ Len(s) # 1
  BY <1>1
<1> QED
  BY <1>2

\* What another worker writes leaves the claims of u as they are.
LEMMA LocksSpared ==
  ASSUME NEW u \in Worker, WorkerLocks(u), Waits(u), Spares(u)
  PROVE  WorkerLocks(u)'
<1>1. CASE pc[u] = "idle"
  BY <1>1 DEF WorkerLocks, Rested, Waits
<1>2. CASE pc[u] # "idle"
  <2>1. /\ Placed(u) /\ OrderHeld(u) /\ Listed(u) /\ LinesTested(u) /\ RowsHeld(u)
        /\ call[u] \in Call /\ call'[u] = call[u] /\ Op(u)' = Op(u)
        /\ rows \subseteq rows' /\ SparesSales(u) /\ SparesPurchases(u)
    BY <1>2 DEF WorkerLocks, Rested, Placed, Waits, Op, Spares
  <2>2. Placed(u)'
    BY <2>1 DEF Placed, Waits
  <2>3. ASSUME Op(u) \in OrderOps
        PROVE  /\ OrderExists(call[u].o)'
               /\ pc[u] # "lock_order" => order_lock'[call[u].o] = u
               /\ pc[u] \notin {"lock_order", "select"} => StatusAllows(u)'
    <3>1. call[u].o \in SalesOrder \cup PurchaseOrder
      BY <2>1, <2>3, CallOrder DEF Op, OrderOps
    <3> QED
      BY <2>1, <2>3, <3>1, OrderStays DEF OrderHeld, Waits
  <2>4. OrderHeld(u)'
    BY <2>1, <2>3 DEF OrderHeld, Waits
  <2>5. Listed(u)' /\ LinesTested(u)'
    <3>1. CASE Op(u) = "receive"
      <4>1. /\ ReceiptLines(u)' = ReceiptLines(u) /\ ReceiptLines(u) \subseteq Line
            /\ pc[u] # "lock_order" =>
                 \A l \in Line : LineRoom(u, l) => LineRoom(u, l)'
        BY <2>1, <3>1, ReceiptStays DEF OrderHeld, OrderOps, PurchaseOps
      <4> QED
        BY <2>1, <3>1, <4>1 DEF Listed, LinesTested, ToGo, Waits
    <3>2. CASE Op(u) # "receive"
      <4>1. ToGo(u) \subseteq ToGo(u)'
        BY <2>1, <3>2 DEF ToGo, Adjusted
      <4> QED
        BY <2>1, <3>2, <4>1, SeqGrows DEF Listed, LinesTested, Waits
    <3> QED
      BY <3>1, <3>2
  <2>6. RowsHeld(u)'
    <3>1. CASE Op(u) = "transfer"
      <4>1. Source(u) \in Key /\ Dest(u) \in Key
        BY <2>1, <3>1, CallKinds DEF Op, TransferCall, Source, Dest, Key
      <4>2. Source(u)' = Source(u) /\ Dest(u)' = Dest(u)
        BY <2>1 DEF Source, Dest
      <4> QED
        BY <2>1, <3>1, <4>1, <4>2 DEF RowsHeld, TransferHolds, Waits
    <3>2. CASE Op(u) # "transfer"
      <4>1. \A k \in Key : row_lock[k] = u => CommittedRow(k)' = CommittedRow(k)
        BY DEF Spares, SameColumns, CommittedRow
      <4> QED
        BY <2>1, <3>2, <4>1 DEF RowsHeld, Fresh, Waits
    <3> QED
      BY <3>1, <3>2
  <2> QED
    BY <1>2, <2>2, <2>4, <2>5, <2>6 DEF WorkerLocks, Waits
<1> QED
  BY <1>1, <1>2

\* Only t moves, and it takes locks that are free or its own.
OnlyBy(t) ==
  /\ \A u \in Worker \ {t} : /\ pc'[u] = pc[u] /\ call'[u] = call[u]
                             /\ todo'[u] = todo[u] /\ local'[u] = local[u]
  /\ \A k \in Key : \/ row_lock'[k] = row_lock[k]
                    \/ row_lock[k] \in {None, t} /\ row_lock'[k] \in {None, t}
  /\ \A o \in SalesOrder \cup PurchaseOrder :
       \/ order_lock'[o] = order_lock[o]
       \/ order_lock[o] \in {None, t} /\ order_lock'[o] \in {None, t}

LEMMA OthersWait ==
  ASSUME NEW t \in Worker, NEW u \in Worker \ {t}, OnlyBy(t)
  PROVE  Waits(u)
<1>1. u # None
  BY RowLockingAssumption
<1> QED
  BY <1>1 DEF OnlyBy, Waits

LEMMA NothingWritten ==
  ASSUME NEW u \in Worker, UNCHANGED vars
  PROVE  Spares(u)
<1>1. UNCHANGED invVars /\ UNCHANGED soVars /\ UNCHANGED poVars
  BY DEF vars
<1>2. SparesSales(u) /\ SparesPurchases(u)
  BY <1>1 DEF soVars, poVars, SparesSales, SparesPurchases
<1> QED
  BY <1>1, <1>2 DEF Spares, SameColumns, invVars

-----------------------------------------------------------------------------
\* The statements, and what is locked after each.

\* What is known of a call, as long as nothing is committed.
LEMMA Unmoved ==
  ASSUME NEW t \in Worker, UNCHANGED vars, call'[t] = call[t]
  PROVE  /\ Op(t)' = Op(t) /\ (StatusAllows(t)' <=> StatusAllows(t))
         /\ Source(t)' = Source(t) /\ Dest(t)' = Dest(t)
         /\ ReceiptLines(t)' = ReceiptLines(t) /\ ToGo(t)' = ToGo(t)
         /\ \A l \in Line : LineRoom(t, l)' <=> LineRoom(t, l)
         /\ \A k \in Key : CommittedRow(k)' = CommittedRow(k)
         /\ OrderExists(call[t].o)' <=> OrderExists(call[t].o)
         /\ rows' = rows
<1>1. UNCHANGED invVars /\ UNCHANGED soVars /\ UNCHANGED poVars
  BY DEF vars
<1>2. Op(t)' = Op(t)
  BY DEF Op
<1>3. StatusAllows(t)' <=> StatusAllows(t)
  BY <1>1, <1>2 DEF StatusAllows, soVars, poVars, HasLine, MayApprove
<1>4. /\ Source(t)' = Source(t) /\ Dest(t)' = Dest(t)
      /\ \A k \in Key : CommittedRow(k)' = CommittedRow(k)
      /\ rows' = rows
  BY <1>1 DEF Source, Dest, CommittedRow, invVars
<1>5. ReceiptLines(t)' = ReceiptLines(t)
  BY <1>1 DEF ReceiptLines, HasLine, poVars
<1>6. ToGo(t)' = ToGo(t)
  BY <1>2, <1>4, <1>5 DEF ToGo, Adjusted
<1>7. \A l \in Line : LineRoom(t, l)' <=> LineRoom(t, l)
  BY <1>1 DEF LineRoom, poVars
<1>8. OrderExists(call[t].o)' <=> OrderExists(call[t].o)
  BY <1>1 DEF OrderExists, soVars, poVars
<1> QED
  BY <1>2, <1>3, <1>4, <1>5, <1>6, <1>7, <1>8

\* An order in which a SELECT FOR UPDATE locks a set takes in all of it.
LEMMA LockedInSomeOrder ==
  ASSUME NEW S, IsFiniteSet(S), NEW s \in SetToSeqs(S)
  PROVE  /\ s \in Seq(S)
         /\ \A x \in S : \E n \in 1..Len(s) : s[n] = x
<1> DEFINE D == 1..Cardinality(S)
<1>1. s \in [D -> S] /\ \A i, j \in D : i # j => s[i] # s[j]
  BY DEF SetToSeqs
<1>2. Cardinality(S) \in Nat
  BY FS_CardinalityType
<1>3. s \in Seq(S) /\ Len(s) = Cardinality(S)
  BY <1>1, <1>2
<1>4. s \in Injection(D, S)
  BY <1>1 DEF Injection, IsInjective
<1>5. IsFiniteSet(D) /\ Cardinality(D) = Cardinality(S)
  <2>1. ASSUME NEW m \in Nat PROVE IsFiniteSet(1..m) /\ Cardinality(1..m) = m
    BY FS_Interval
  <2> QED
    BY <1>2, <2>1
<1>6. s \in Surjection(D, S)
  BY <1>4, <1>5, FS_Injection
<1> QED
  BY <1>3, <1>6 DEF Surjection

\* A key without a row has the columns that an insert gives it.
LEMMA NoRowEmpty ==
  ASSUME InvTypeOK, NEW k \in Key, k \notin rows
  PROVE  CommittedRow(k) = EmptyRow
BY DEF InvTypeOK, CommittedRow, EmptyRow

LEMMA RowColumns ==
  ASSUME InvTypeOK, NEW k \in Key
  PROVE  CommittedRow(k) \in Columns /\ EmptyRow \in Columns
BY DEF InvTypeOK, CommittedRow, EmptyRow, Columns

LEMMA LineRowKey ==
  ASSUME POTypeOK, NEW t \in Worker, call[t] \in Call, Op(t) = "receive",
         OrderExists(call[t].o), NEW l \in ReceiptLines(t)
  PROVE  LineRow(t, l) \in Key
<1>1. /\ call[t].o \in PurchaseOrder /\ po_status[call[t].o] # "NONE"
      /\ l \in Line /\ item_product[<<call[t].o, l>>] # None
  BY CallOrder DEF Op, OrderExists, PurchaseOps, ReceiptLines, HasLine
<1>2. <<call[t].o, l>> \in Item
  BY <1>1 DEF Item
<1> QED
  BY <1>1, <1>2 DEF POTypeOK, LineRow, Key

\* The row that t locks next, and its rows of a transfer.
LEMMA RowsOfCall ==
  ASSUME LockInv, NEW t \in Worker, pc[t] # "idle"
  PROVE  /\ Op(t) = "transfer" =>
              Source(t) \in Key /\ Dest(t) \in Key /\ Source(t) # Dest(t)
         /\ Op(t) = "adjust" => Adjusted(t) \in Key
         /\ pc[t] = "lock" => /\ NextRow(t) \in Key
                              /\ Op(t) \notin {"adjust", "receive"} => NextRow(t) \in rows
<1>1. call[t] \in Call /\ OrderHeld(t) /\ Listed(t)
  BY LocksNow
<1>2. /\ Op(t) = "transfer" =>
            Source(t) \in Key /\ Dest(t) \in Key /\ Source(t) # Dest(t)
      /\ Op(t) = "adjust" => Adjusted(t) \in Key
  BY <1>1, CallKinds
  DEF Op, TransferCall, AdjustCall, Source, Dest, Adjusted, Key
<1>3. ASSUME pc[t] = "lock"
      PROVE  /\ NextRow(t) \in Key
             /\ Op(t) \notin {"adjust", "receive"} => NextRow(t) \in rows
  <2>1. Head(todo[t]) \in ToGo(t)
    BY <1>1, <1>3 DEF Listed
  <2>2. CASE Op(t) = "receive"
    <3>1. OrderExists(call[t].o) /\ Head(todo[t]) \in ReceiptLines(t)
      BY <1>1, <2>1, <2>2 DEF OrderHeld, OrderOps, PurchaseOps, ToGo
    <3> QED
      BY <1>1, <2>2, <3>1, LineRowKey DEF LockInv, DutyInv, NextRow
  <2>3. CASE Op(t) = "adjust"
    BY <1>2, <2>1, <2>3 DEF ToGo, NextRow
  <2>4. CASE Op(t) \notin {"receive", "adjust"}
    BY <2>1, <2>4 DEF ToGo, NextRow, LockInv, InvTypeOK
  <2> QED
    BY <2>2, <2>3, <2>4
<1> QED
  BY <1>2, <1>3

LEMMA ListsToGo ==
  ASSUME LockInv, NEW t \in Worker, pc[t] # "idle"
  PROVE  \A s \in Seq(ToGo(t)) : s \in Lists
<1>1. Op(t) = "adjust" => Adjusted(t) \in Key
  BY RowsOfCall
<1>2. rows \subseteq Key /\ ReceiptLines(t) \subseteq Line
  BY DEF LockInv, InvTypeOK, ReceiptLines
<1>3. ToGo(t) \subseteq Key \cup Line
  BY <1>1, <1>2 DEF ToGo
<1> QED
  BY <1>3, SeqGrows DEF Lists

\* The order in which a call locks takes in all that it has to lock.
LEMMA SelectedOrder ==
  ASSUME LockInv, NEW t \in Worker, pc[t] # "idle",
         NEW order \in SetToSeqs(ToLock(t))
  PROVE  /\ order \in Seq(ToGo(t)) /\ order \in Lists
         /\ order \in Seq(ToLock(t))
         /\ \A x \in ToLock(t) : \E n \in 1..Len(order) : order[n] = x
<1>1. IsFiniteSet(ToLock(t)) /\ ToLock(t) \subseteq ToGo(t)
  <2>1. IsFiniteSet(ReceiptLines(t)) /\ IsFiniteSet({Adjusted(t)})
    BY FS_Subset, FS_Singleton, PurchaseOrdersAssumption DEF ReceiptLines
  <2>2. IsFiniteSet(Key) /\ SelectedRows(t) \subseteq rows /\ rows \subseteq Key
    BY InventoryAssumption, FS_Product DEF Key, SelectedRows, LockInv, InvTypeOK
  <2>3. IsFiniteSet(SelectedRows(t))
    BY <2>2, FS_Subset
  <2> QED
    BY <2>1, <2>2, <2>3 DEF ToLock, ToGo
<1>2. /\ order \in Seq(ToLock(t))
      /\ \A x \in ToLock(t) : \E n \in 1..Len(order) : order[n] = x
  BY <1>1, LockedInSomeOrder
<1>3. order \in Seq(ToGo(t))
  BY <1>1, <1>2, SeqGrows
<1> QED
  BY <1>2, <1>3, ListsToGo

\* The end of a call.
LEMMA CallEnds ==
  ASSUME WorkerTypes, NEW t \in Worker, EndCall(t)
  PROVE  WorkerTypes' /\ OnlyBy(t) /\ pc'[t] = "idle" /\ WorkerLocks(t)'
<1>1. /\ pc' = [pc EXCEPT ![t] = "idle"] /\ call' = [call EXCEPT ![t] = None]
      /\ todo' = [todo EXCEPT ![t] = <<>>] /\ local' = [local EXCEPT ![t] = NothingRead]
  BY DEF EndCall
<1>2. /\ row_lock' = [k \in Key |-> IF row_lock[k] = t THEN None ELSE row_lock[k]]
      /\ order_lock' = [o \in SalesOrder \cup PurchaseOrder |->
                          IF order_lock[o] = t THEN None ELSE order_lock[o]]
  BY DEF EndCall, RowsReleased, OrdersReleased, WorkerTypes
<1>3. NothingRead \in [Key -> Columns \cup {None}] /\ <<>> \in Lists
  BY EmptySeq DEF NothingRead, Lists
<1>4. WorkerTypes' /\ OnlyBy(t)
  BY <1>1, <1>2, <1>3 DEF WorkerTypes, Statement, OnlyBy
<1>5. None # t
  BY RowLockingAssumption
<1>6. pc'[t] = "idle"
  BY <1>1 DEF WorkerTypes
<1>7. WorkerLocks(t)'
  BY <1>1, <1>2, <1>5, <1>6 DEF WorkerTypes, WorkerLocks, Rested
<1> QED
  BY <1>4, <1>6, <1>7

\* A statement of t that commits nothing.
LEMMA LocksQuiet ==
  ASSUME LockInv, NEW t \in Worker, UNCHANGED vars, OnlyBy(t),
         WorkerTypes', WorkerLocks(t)'
  PROVE  LockInv'
<1>1. UNCHANGED invVars /\ UNCHANGED soVars /\ UNCHANGED poVars
  BY DEF vars
<1>2. InvTypeOK' /\ SOTypeOK' /\ DutyInv'
  BY <1>1, ReceivedKept DEF LockInv, InvTypeOK, SOTypeOK, invVars, soVars
<1>3. ASSUME NEW u \in Worker \ {t} PROVE WorkerLocks(u)'
  BY OthersWait, NothingWritten, LocksSpared DEF LockInv
<1> QED
  BY <1>2, <1>3 DEF LockInv

\* The statements between the first and the last: what t holds after one.
LEMMA StatementLocks ==
  ASSUME LockInv, NEW t \in Worker, pc[t] # "idle", UNCHANGED vars, OnlyBy(t),
         WorkerTypes', call'[t] = call[t],
         pc'[t] \notin {"idle", "lock_order"}, Op(t) # "draft",
         Op(t) = "delete" <=> pc'[t] \in {"check", "mark"},
         pc'[t] \in {"read_source", "get_dest", "save_source", "save_dest"}
           => Op(t) = "transfer",
         Op(t) \in OrderOps => /\ order_lock'[call[t].o] = t
                               /\ pc'[t] # "select" => StatusAllows(t),
         pc'[t] = "line" => Op(t) = "receive",
         todo'[t] \in Seq(ToGo(t)),
         pc'[t] \in {"line", "lock"} => todo'[t] # <<>>,
         Op(t) = "receive" /\ pc'[t] \in {"line", "lock", "commit"} =>
           \A l \in ReceiptLines(t) :
             LineRoom(t, l) \/ Among(l, Untested(pc'[t], todo'[t])),
         RowsHeld(t)'
  PROVE  LockInv'
<1>1. call[t] \in Call /\ OrderHeld(t)
  BY LocksNow
<1>2. Placed(t)'
  BY <1>1, Unmoved DEF Placed
<1>3. OrderHeld(t)'
  BY <1>1, Unmoved DEF OrderHeld
<1>4. Listed(t)'
  BY Unmoved DEF Listed
<1>5. LinesTested(t)'
  <2>1. ReceiptLines(t) \subseteq Line
    BY DEF ReceiptLines
  <2> QED
    BY <2>1, Unmoved DEF LinesTested
<1> QED
  BY <1>2, <1>3, <1>4, <1>5, LocksQuiet DEF WorkerLocks

\* The statements that read and lock no row.
LEMMA HeldStays ==
  ASSUME NEW t \in Worker, UNCHANGED vars, call'[t] = call[t], RowsHeld(t),
         local'[t] = local[t], row_lock' = row_lock,
         pc'[t] \notin {"get_dest", "save_source", "save_dest"},
         pc'[t] = "commit" => Op(t) # "transfer"
  PROVE  RowsHeld(t)'
<1>1. /\ Op(t)' = Op(t) /\ rows' = rows
      /\ \A k \in Key : CommittedRow(k)' = CommittedRow(k)
  BY Unmoved
<1> QED
  BY <1>1 DEF RowsHeld, Fresh, TransferHolds

LEMMA BeginLocks ==
  ASSUME LockInv, NEW t \in Worker, NEW c \in Call, Begin(t, c)
  PROVE  LockInv'
<1> DEFINE s == CASE "o" \in DOMAIN c -> "lock_order"
                  [] c.op = "delete" -> "check"
                  [] c.op = "draft" -> "commit"
                  [] OTHER -> "select"
<1>1. /\ pc[t] = "idle" /\ ("o" \in DOMAIN c => OrderExists(c.o))
      /\ call' = [call EXCEPT ![t] = c] /\ pc' = [pc EXCEPT ![t] = s]
      /\ UNCHANGED <<todo, local, row_lock, order_lock>>
      /\ UNCHANGED vars
  BY DEF Begin, Goto
<1>2. /\ "o" \in DOMAIN c <=> c.op \in OrderOps
      /\ c.op \in {"delete", "draft", "transfer"} => c.op \notin OrderOps
  BY CallKinds DEF OrderOps, SalesOps, PurchaseOps
<1>3. /\ s \in {"lock_order", "check", "commit", "select"}
      /\ s = "lock_order" <=> c.op \in OrderOps
      /\ s = "check" <=> c.op = "delete"
      /\ s = "commit" <=> c.op = "draft"
  BY <1>2
<1> HIDE DEF s
<1>4. WorkerTypes' /\ OnlyBy(t)
  BY <1>1, <1>3 DEF LockInv, WorkerTypes, Statement, OnlyBy
<1>5. /\ pc'[t] = s /\ call'[t] = c /\ todo'[t] = <<>> /\ local'[t] = NothingRead
      /\ \A k \in Key : row_lock'[k] # t
  BY <1>1 DEF LockInv, WorkerTypes, WorkerLocks, Rested
<1>6. Placed(t)' /\ Listed(t)' /\ LinesTested(t)'
  BY <1>3, <1>5 DEF Placed, Listed, LinesTested, Op, OrderOps, PurchaseOps
<1>7. OrderHeld(t)'
  <2>1. c.op \in OrderOps => OrderExists(c.o)'
    BY <1>1, <1>2 DEF OrderExists, vars, soVars, poVars
  <2> QED
    BY <1>3, <1>5, <2>1 DEF OrderHeld, Op
<1>8. RowsHeld(t)'
  BY <1>2, <1>3, <1>5 DEF RowsHeld, Fresh, TransferHolds, Op, NothingRead
<1> QED
  BY <1>1, <1>3, <1>4, <1>5, <1>6, <1>7, <1>8, LocksQuiet DEF WorkerLocks

LEMMA LockOrderLocks ==
  ASSUME LockInv, NEW t \in Worker, LockOrder(t)
  PROVE  LockInv'
<1> DEFINE o == call[t].o
<1>1. /\ pc[t] = "lock_order" /\ order_lock[o] = None
      /\ order_lock' = [order_lock EXCEPT ![o] = t]
      /\ pc' = [pc EXCEPT ![t] = "select"]
      /\ UNCHANGED <<call, todo, local, row_lock>> /\ UNCHANGED vars
  BY DEF LockOrder, OrderLocked, Goto
<1>2. /\ call[t] \in Call /\ Placed(t) /\ OrderHeld(t) /\ Listed(t)
      /\ LinesTested(t) /\ RowsHeld(t)
  BY <1>1, LocksNow
<1>3. Op(t) \in OrderOps /\ Op(t) \notin {"delete", "draft", "transfer"}
  BY <1>1, <1>2 DEF Placed, OrderOps, SalesOps, PurchaseOps
<1>4. o \in SalesOrder \cup PurchaseOrder
  BY <1>2, <1>3, CallOrder DEF Op, OrderOps
<1> HIDE DEF o
<1>5. WorkerTypes' /\ OnlyBy(t)
  BY <1>1, <1>4 DEF LockInv, WorkerTypes, Statement, OnlyBy
<1>6. /\ pc'[t] = "select" /\ call'[t] = call[t] /\ order_lock'[o] = t
      /\ todo'[t] = todo[t]
  BY <1>1, <1>4 DEF LockInv, WorkerTypes
<1>7. RowsHeld(t)'
  BY <1>1, <1>2, <1>6, HeldStays
<1> QED
  BY <1>1, <1>2, <1>3, <1>5, <1>6, <1>7, StatementLocks DEF Listed, o

LEMMA SelectRowsLocks ==
  ASSUME LockInv, NEW t \in Worker, SelectRows(t)
  PROVE  LockInv'
<1>1. PICK order \in SetToSeqs(ToLock(t)) :
        /\ todo' = [todo EXCEPT ![t] = order]
        /\ pc' = [pc EXCEPT ![t] = NextStatement(t, order)]
  BY DEF SelectRows, Goto
<1>2. /\ pc[t] = "select" /\ StatusAllows(t)
      /\ UNCHANGED <<call, local, row_lock, order_lock>> /\ UNCHANGED vars
  BY DEF SelectRows
<1>3. Placed(t) /\ OrderHeld(t) /\ RowsHeld(t)
  BY <1>2, LocksNow
<1>4. Op(t) \notin {"delete", "draft"}
  BY <1>2, <1>3 DEF Placed
<1>5. /\ order \in Seq(ToGo(t)) /\ order \in Lists
      /\ \A x \in ToLock(t) : \E n \in 1..Len(order) : order[n] = x
  BY <1>2, SelectedOrder
<1> DEFINE s == NextStatement(t, order)
<1>6. /\ s \in {"read_source", "commit", "line", "lock"}
      /\ s \in {"line", "lock"} <=> order # <<>>
      /\ s = "line" => Op(t) = "receive"
      /\ s = "lock" => Op(t) # "receive"
      /\ s = "read_source" => Op(t) = "transfer"
      /\ s = "commit" => Op(t) # "transfer"
  BY DEF NextStatement, AfterLocks
<1>7. pc' = [pc EXCEPT ![t] = s]
  BY <1>1
<1> HIDE DEF s
<1>8. WorkerTypes' /\ OnlyBy(t)
  BY <1>1, <1>2, <1>5, <1>6, <1>7 DEF LockInv, WorkerTypes, Statement, OnlyBy
<1>9. /\ pc'[t] = s /\ call'[t] = call[t] /\ todo'[t] = order
      /\ order_lock' = order_lock
  BY <1>1, <1>2, <1>7 DEF LockInv, WorkerTypes
<1>10. Op(t) = "receive" /\ s \in {"line", "lock", "commit"} =>
         \A l \in ReceiptLines(t) : Among(l, Untested(s, order))
  <2>1. Op(t) = "receive" => ToLock(t) = ReceiptLines(t)
    BY DEF ToLock
  <2>2. order = <<>> => \A x \in ToLock(t) : FALSE
    BY <1>5
  <2>3. Op(t) = "receive" /\ order # <<>> => s = "line"
    BY <1>6
  <2> QED
    BY <1>5, <1>6, <2>1, <2>2, <2>3 DEF Untested, Among
<1>11. RowsHeld(t)'
  BY <1>2, <1>3, <1>6, <1>9, HeldStays
<1>12. Op(t) \in OrderOps => order_lock'[call[t].o] = t
  BY <1>2, <1>3, <1>9 DEF OrderHeld
<1> QED
  BY <1>2, <1>4, <1>5, <1>6, <1>8, <1>9, <1>10, <1>11, <1>12, StatementLocks

\* A line that is not the first of a list stays to be tested.
LEMMA StillUntested ==
  ASSUME NEW S, NEW lines \in Seq(S), lines # <<>>,
         NEW l, Among(l, lines), l # Head(lines)
  PROVE  Among(l, Tail(lines))
BY StillListed DEF Among

LEMMA CheckLineLocks ==
  ASSUME LockInv, NEW t \in Worker, CheckLine(t)
  PROVE  LockInv'
<1>1. /\ pc[t] = "line" /\ LineAllowed(t)
      /\ pc' = [pc EXCEPT ![t] = "lock"]
      /\ UNCHANGED <<call, todo, local, row_lock, order_lock>>
      /\ UNCHANGED vars
  BY DEF CheckLine, Goto
<1>2. Placed(t) /\ OrderHeld(t) /\ Listed(t) /\ LinesTested(t) /\ RowsHeld(t)
  BY <1>1, LocksNow
<1>3. /\ Op(t) = "receive"
      /\ todo[t] \in Seq(ToGo(t)) /\ todo[t] # <<>>
  BY <1>1, <1>2 DEF Placed, Listed
<1>4. WorkerTypes' /\ OnlyBy(t)
  BY <1>1 DEF LockInv, WorkerTypes, Statement, OnlyBy
<1>5. pc'[t] = "lock" /\ call'[t] = call[t] /\ todo'[t] = todo[t]
  BY <1>1 DEF LockInv, WorkerTypes
<1>6. ASSUME NEW l \in ReceiptLines(t)
      PROVE  LineRoom(t, l) \/ Among(l, Tail(todo[t]))
  <2>1. LineRoom(t, l) \/ Among(l, todo[t])
    BY <1>1, <1>2, <1>3 DEF LinesTested, Untested
  <2>2. l = Head(todo[t]) => LineRoom(t, l)
    BY <1>1 DEF LineAllowed, LineRoom
  <2> QED
    BY <1>3, <2>1, <2>2, StillUntested
<1>7. RowsHeld(t)'
  BY <1>1, <1>2, <1>5, HeldStays
<1>8. Op(t) \in OrderOps => order_lock'[call[t].o] = t /\ StatusAllows(t)
  BY <1>1, <1>2 DEF OrderHeld
<1>9. \A l \in ReceiptLines(t) :
        LineRoom(t, l) \/ Among(l, Untested(pc'[t], todo'[t]))
  BY <1>5, <1>6 DEF Untested
<1> QED
  BY <1>1, <1>3, <1>4, <1>5, <1>7, <1>8, <1>9, StatementLocks

LEMMA LockNextRowLocks ==
  ASSUME LockInv, NEW t \in Worker, LockNextRow(t)
  PROVE  LockInv'
<1> DEFINE k == NextRow(t)
           s == NextStatement(t, Tail(todo[t]))
           row == IF row_lock[k] = t THEN local[t][k]
                  ELSE IF k \in rows THEN CommittedRow(k) ELSE EmptyRow
<1>1. /\ pc[t] = "lock"
      /\ row_lock[k] \in {None, t}
      /\ row_lock' = [row_lock EXCEPT ![k] = t]
      /\ local' = [local EXCEPT ![t][k] = row]
      /\ todo' = [todo EXCEPT ![t] = Tail(todo[t])]
      /\ pc' = [pc EXCEPT ![t] = s]
      /\ UNCHANGED <<call, order_lock>> /\ UNCHANGED vars
  BY DEF LockNextRow, RowFree, LockRow, Read, Goto, LockInv, WorkerTypes
<1>2. Placed(t) /\ OrderHeld(t) /\ Listed(t) /\ LinesTested(t) /\ RowsHeld(t)
  BY <1>1, LocksNow
<1>3. k \in Key
  BY <1>1, RowsOfCall
<1>4. Op(t) \notin {"adjust", "receive"} => k \in rows
  BY <1>1, RowsOfCall
<1>5. /\ row \in Columns \cup {None}
      /\ Op(t) # "transfer" => row = CommittedRow(k)
  <2>1. local[t][k] \in Columns \cup {None}
    BY <1>3 DEF LockInv, WorkerTypes
  <2> QED
    BY <1>2, <1>3, <2>1, NoRowEmpty, RowColumns DEF RowsHeld, Fresh, LockInv
<1>6. /\ s \in {"read_source", "commit", "line", "lock"}
      /\ s \in {"line", "lock"} <=> Tail(todo[t]) # <<>>
      /\ s = "line" => Op(t) = "receive"
      /\ s = "lock" => Op(t) # "receive"
      /\ s = "read_source" => Op(t) = "transfer"
      /\ s = "commit" => Op(t) # "transfer"
  BY DEF NextStatement, AfterLocks
<1> HIDE DEF k, s, row
<1>7. todo[t] \in Seq(ToGo(t)) /\ todo[t] # <<>>
  BY <1>1, <1>2 DEF Listed
<1>8. Tail(todo[t]) \in Seq(ToGo(t)) /\ Tail(todo[t]) \in Lists
  BY <1>1, <1>7, TailGoes, ListsToGo
<1>9. /\ WorkerTypes' /\ OnlyBy(t)
      /\ pc'[t] = s /\ call'[t] = call[t] /\ todo'[t] = Tail(todo[t])
      /\ local'[t][k] = row
      /\ \A j \in Key \ {k} : local'[t][j] = local[t][j] /\ row_lock'[j] = row_lock[j]
  <2>1. WorkerTypes'
    BY <1>1, <1>3, <1>5, <1>6, <1>8 DEF LockInv, WorkerTypes, Statement
  <2>2. OnlyBy(t)
    BY <1>1, <1>3 DEF LockInv, WorkerTypes, OnlyBy
  <2> QED
    BY <1>1, <1>3, <2>1, <2>2 DEF LockInv, WorkerTypes
<1>10. row_lock'[k] = t
  BY <1>1, <1>3 DEF LockInv, WorkerTypes
<1>11. ASSUME Op(t) = "receive", NEW l \in ReceiptLines(t)
       PROVE  LineRoom(t, l) \/ Among(l, Untested(s, Tail(todo[t])))
  <2>1. LineRoom(t, l) \/ Among(l, Tail(todo[t]))
    BY <1>1, <1>2, <1>11 DEF LinesTested, Untested
  <2>2. CASE Tail(todo[t]) = <<>>
    BY <2>1, <2>2 DEF Among
  <2>3. CASE Tail(todo[t]) # <<>>
    BY <1>6, <1>11, <2>1, <2>3 DEF Untested
  <2> QED
    BY <2>2, <2>3
<1>12. RowsHeld(t)'
  <2>1. /\ Op(t)' = Op(t) /\ rows' = rows
        /\ \A j \in Key : CommittedRow(j)' = CommittedRow(j)
    BY <1>1, <1>9, Unmoved
  <2>2. CASE Op(t) = "transfer"
    BY <1>2, <1>6, <1>9, <1>10, <1>4, <2>1, <2>2 DEF RowsHeld, TransferHolds
  <2>3. CASE Op(t) # "transfer"
    BY <1>2, <1>5, <1>9, <1>10, <1>4, <2>1, <2>3 DEF RowsHeld, Fresh
  <2> QED
    BY <2>2, <2>3
<1>13. Op(t) \in OrderOps => order_lock'[call[t].o] = t /\ StatusAllows(t)
  BY <1>1, <1>2 DEF OrderHeld
<1>14. Op(t) \notin {"delete", "draft"}
  BY <1>1, <1>2 DEF Placed
<1>15. /\ pc[t] # "idle" /\ pc'[t] \notin {"idle", "lock_order", "check", "mark"}
       /\ pc'[t] \in {"read_source", "get_dest", "save_source", "save_dest"}
            => Op(t) = "transfer"
  BY <1>1, <1>6, <1>9
<1>16. /\ todo'[t] \in Seq(ToGo(t))
       /\ pc'[t] \in {"line", "lock"} => todo'[t] # <<>>
       /\ pc'[t] = "line" => Op(t) = "receive"
       /\ Op(t) = "receive" /\ pc'[t] \in {"line", "lock", "commit"} =>
            \A l \in ReceiptLines(t) :
              LineRoom(t, l) \/ Among(l, Untested(pc'[t], todo'[t]))
  BY <1>6, <1>8, <1>9, <1>11
<1> QED
  BY <1>1, <1>9, <1>12, <1>13, <1>14, <1>15, <1>16, StatementLocks

\* What a statement of a transfer after its locks does: read row k or lock it.
LEMMA TransferMoves ==
  ASSUME LockInv, NEW t \in Worker, UNCHANGED vars,
         UNCHANGED <<call, todo, order_lock>>,
         pc[t] \in {"read_source", "get_dest", "save_source", "save_dest"},
         NEW s \in {"get_dest", "save_source", "save_dest", "commit"},
         NEW k \in {Source(t), Dest(t)}, NEW row \in Columns \cup {None},
         pc' = [pc EXCEPT ![t] = s], local' = [local EXCEPT ![t][k] = row],
         \/ row_lock' = row_lock
         \/ row_lock[k] \in {None, t} /\ row_lock' = [row_lock EXCEPT ![k] = t],
         TransferHolds(t)'
  PROVE  LockInv'
<1>1. Placed(t) /\ Listed(t)
  BY LocksNow
<1>2. Op(t) = "transfer" /\ Op(t) \notin OrderOps
  BY <1>1 DEF Placed, OrderOps, SalesOps, PurchaseOps
<1>3. k \in Key /\ s \in Statement
  BY <1>2, RowsOfCall DEF Statement
<1>4. row_lock' \in [Key -> Worker \cup {None}]
  BY <1>3 DEF LockInv, WorkerTypes
<1>5. WorkerTypes'
  BY <1>3, <1>4 DEF LockInv, WorkerTypes
<1>6. OnlyBy(t)
  BY <1>3 DEF LockInv, WorkerTypes, OnlyBy
<1>7. pc'[t] = s /\ call'[t] = call[t] /\ todo'[t] = todo[t]
  BY DEF LockInv, WorkerTypes
<1>8. RowsHeld(t)'
  BY <1>2, <1>7, Unmoved DEF RowsHeld
<1> QED
  BY <1>1, <1>2, <1>5, <1>6, <1>7, <1>8, StatementLocks DEF Listed

\* A transfer reads rows as they are committed, and locks what it saves.
LEMMA TransferLocks ==
  ASSUME LockInv, NEW t \in Worker,
         ReadSource(t) \/ GetDest(t) \/ SaveSource(t) \/ SaveDest(t)
  PROVE  LockInv'
<1> DEFINE i == Source(t)
           j == Dest(t)
<1>1. /\ pc[t] \in {"read_source", "get_dest", "save_source", "save_dest"}
      /\ UNCHANGED <<call, todo, order_lock>> /\ UNCHANGED vars
  BY DEF ReadSource, GetDest, SaveSource, SaveDest, SaveRow
<1>2. Placed(t) /\ RowsHeld(t)
  BY <1>1, LocksNow
<1>3. Op(t) = "transfer" /\ TransferHolds(t)
  BY <1>1, <1>2 DEF Placed, RowsHeld
<1>4. /\ i \in Key /\ j \in Key /\ i # j
      /\ i' = i /\ j' = j /\ rows' = rows /\ call'[t] = call[t]
  BY <1>1, <1>3, RowsOfCall, Unmoved
<1>5. /\ DOMAIN pc = Worker /\ row_lock \in [Key -> Worker \cup {None}]
      /\ local \in [Worker -> [Key -> Columns \cup {None}]]
  BY DEF LockInv, WorkerTypes
<1>6. /\ CommittedRow(i) \in Columns /\ CommittedRow(j) \in Columns
      /\ EmptyRow \in Columns
      /\ CommittedRow(i).available = quantity_available[i]
  BY <1>4, RowColumns DEF LockInv, CommittedRow
<1>7. CASE ReadSource(t)
  <2>1. /\ i \in rows /\ quantity_available[i] >= call[t].q
        /\ pc' = [pc EXCEPT ![t] = "get_dest"] /\ row_lock' = row_lock
        /\ local' = [local EXCEPT ![t][i] = CommittedRow(i)]
    BY <1>7 DEF ReadSource, Read, Goto
  <2>2. /\ pc'[t] = "get_dest" /\ local'[t][i].available >= call[t].q
        /\ \A k \in Key \ {i} : local'[t][k] = local[t][k]
    BY <1>4, <1>5, <1>6, <2>1
  <2>3. TransferHolds(t)'
    BY <1>3, <1>4, <2>1, <2>2 DEF TransferHolds
  <2> QED
    BY <1>1, <1>6, <2>1, <2>3, TransferMoves
<1>8. CASE GetDest(t) /\ j \in rows
  <2>1. /\ pc' = [pc EXCEPT ![t] = "save_source"] /\ row_lock' = row_lock
        /\ pc[t] = "get_dest"
        /\ local' = [local EXCEPT ![t][j] = CommittedRow(j)]
    BY <1>8 DEF GetDest, Read, Goto
  <2>2. /\ pc'[t] = "save_source"
        /\ \A k \in Key \ {j} : local'[t][k] = local[t][k]
    BY <1>4, <1>5, <2>1
  <2>3. TransferHolds(t)'
    BY <1>3, <1>4, <1>8, <2>1, <2>2 DEF TransferHolds
  <2> QED
    BY <1>1, <1>6, <2>1, <2>3, TransferMoves
<1>9. CASE GetDest(t) /\ j \notin rows
  <2>1. /\ pc' = [pc EXCEPT ![t] = "save_source"] /\ pc[t] = "get_dest"
        /\ row_lock[j] \in {None, t} /\ row_lock' = [row_lock EXCEPT ![j] = t]
        /\ local' = [local EXCEPT ![t][j] = EmptyRow]
    BY <1>9 DEF GetDest, Read, Goto, RowFree, LockRow
  <2>2. /\ pc'[t] = "save_source" /\ row_lock'[j] = t /\ local'[t][j] = EmptyRow
        /\ \A k \in Key \ {j} : /\ local'[t][k] = local[t][k]
                                /\ row_lock'[k] = row_lock[k]
    BY <1>4, <1>5, <2>1
  <2>3. TransferHolds(t)'
    BY <1>3, <1>4, <2>1, <2>2 DEF TransferHolds
  <2> QED
    BY <1>1, <1>6, <2>1, <2>3, TransferMoves
<1>10. CASE SaveSource(t)
  <2>1. /\ pc' = [pc EXCEPT ![t] = "save_dest"] /\ pc[t] = "save_source"
        /\ row_lock[i] \in {None, t} /\ row_lock' = [row_lock EXCEPT ![i] = t]
        /\ local' = local
    BY <1>10 DEF SaveSource, SaveRow, Goto, RowFree, LockRow
  <2>2. /\ pc'[t] = "save_dest" /\ row_lock'[i] = t
        /\ \A k \in Key \ {i} : row_lock'[k] = row_lock[k]
        /\ local' = [local EXCEPT ![t][i] = local[t][i]]
        /\ local[t][i] \in Columns \cup {None}
    BY <1>4, <1>5, <2>1
  <2>3. TransferHolds(t)'
    BY <1>3, <1>4, <2>1, <2>2 DEF TransferHolds
  <2> QED
    BY <1>1, <2>1, <2>2, <2>3, TransferMoves
<1>11. CASE SaveDest(t)
  <2>1. /\ pc' = [pc EXCEPT ![t] = "commit"] /\ pc[t] = "save_dest"
        /\ row_lock[j] \in {None, t} /\ row_lock' = [row_lock EXCEPT ![j] = t]
        /\ local' = local
    BY <1>11 DEF SaveDest, SaveRow, Goto, RowFree, LockRow
  <2>2. /\ pc'[t] = "commit" /\ row_lock'[j] = t
        /\ \A k \in Key \ {j} : row_lock'[k] = row_lock[k]
        /\ local' = [local EXCEPT ![t][j] = local[t][j]]
        /\ local[t][j] \in Columns \cup {None}
    BY <1>4, <1>5, <2>1
  <2>3. TransferHolds(t)'
    BY <1>3, <1>4, <2>1, <2>2 DEF TransferHolds
  <2> QED
    BY <1>1, <2>1, <2>2, <2>3, TransferMoves
<1> QED
  BY <1>7, <1>8, <1>9, <1>10, <1>11

LEMMA CheckEmptyLocks ==
  ASSUME LockInv, NEW t \in Worker, CheckEmpty(t)
  PROVE  LockInv'
<1>1. /\ pc[t] = "check" /\ pc' = [pc EXCEPT ![t] = "mark"]
      /\ UNCHANGED <<call, todo, local, row_lock, order_lock>> /\ UNCHANGED vars
  BY DEF CheckEmpty, Goto
<1>2. Placed(t) /\ Listed(t) /\ RowsHeld(t)
  BY <1>1, LocksNow
<1>3. Op(t) = "delete" /\ Op(t) \notin OrderOps
  BY <1>1, <1>2 DEF Placed, OrderOps, SalesOps, PurchaseOps
<1>4. WorkerTypes' /\ OnlyBy(t)
  BY <1>1 DEF LockInv, WorkerTypes, Statement, OnlyBy
<1>5. pc'[t] = "mark" /\ call'[t] = call[t] /\ todo'[t] = todo[t]
  BY <1>1 DEF LockInv, WorkerTypes
<1>6. RowsHeld(t)'
  BY <1>1, <1>2, <1>5, HeldStays
<1> QED
  BY <1>1, <1>2, <1>3, <1>4, <1>5, <1>6, StatementLocks DEF Listed

LEMMA RollbackLocks ==
  ASSUME LockInv, NEW t \in Worker, Rollback(t)
  PROVE  LockInv'
BY CallEnds, LocksQuiet DEF Rollback, LockInv

LEMMA MarkDeletedLocks ==
  ASSUME LockInv, NEW t \in Worker, MarkDeleted(t)
  PROVE  LockInv'
<1>1. /\ pc[t] = "mark" /\ deleted' = deleted \cup {call[t].w} /\ EndCall(t)
      /\ UNCHANGED <<rows, quantity_available, quantity_reserved,
                     quantity_damaged, ledger, soVars, poVars>>
  BY DEF MarkDeleted
<1>2. call[t].w \in Warehouse
  BY <1>1, LocksNow, CallKinds DEF Placed, Op, DeleteCall
<1>3. InvTypeOK' /\ SOTypeOK' /\ DutyInv'
  BY <1>1, <1>2, ReceivedKept DEF LockInv, InvTypeOK, SOTypeOK, soVars
<1>4. WorkerTypes' /\ OnlyBy(t) /\ WorkerLocks(t)'
  BY <1>1, CallEnds DEF LockInv
<1>5. ASSUME NEW u \in Worker \ {t} PROVE WorkerLocks(u)'
  <2>1. Spares(u)
    BY <1>1
    DEF Spares, SameColumns, SparesSales, SparesPurchases, soVars, poVars
  <2> QED
    BY <1>4, <2>1, OthersWait, LocksSpared DEF LockInv
<1> QED
  BY <1>3, <1>4, <1>5 DEF LockInv

-----------------------------------------------------------------------------
\* What a commit writes, in terms of what the call has locked.

\* The rows that a call writes are of the warehouses that it is about.
LEMMA WrittenKeys ==
  ASSUME LockInv, NEW t \in Worker, pc[t] # "idle"
  PROVE  /\ Written(t) \subseteq Key
         /\ \A k \in Written(t) : k[2] \in CallWarehouses(t)
<1>1. call[t] \in Call /\ OrderHeld(t)
  BY LocksNow
<1>2. CASE Op(t) = "adjust"
  BY <1>2, RowsOfCall DEF Written, Adjusted, CallWarehouses
<1>3. CASE Op(t) = "transfer"
  BY <1>3, RowsOfCall DEF Written, Source, Dest, CallWarehouses
<1>4. CASE Op(t) = "receive"
  <2>1. Written(t) = {LineRow(t, l) : l \in ReceiptLines(t)}
    BY <1>4 DEF Written
  <2>2. ASSUME NEW l \in ReceiptLines(t) PROVE LineRow(t, l) \in Key
    BY <1>1, <1>4, LineRowKey DEF LockInv, DutyInv, OrderHeld, OrderOps, PurchaseOps
  <2>3. CallWarehouses(t) = {po_warehouse[call[t].o]}
    BY <1>4 DEF CallWarehouses
  <2>4. \A l : LineRow(t, l)[2] = po_warehouse[call[t].o]
    BY DEF LineRow
  <2> QED
    BY <2>1, <2>2, <2>3, <2>4
<1>5. CASE Op(t) \in {"create", "dispatch", "cancel"}
  <2>1. Written(t) = {k \in Key : k[2] = CallWarehouse(t) /\ CallItems(t)[k[1]] > 0}
    BY <1>5 DEF Written
  <2>2. CallWarehouses(t) = {CallWarehouse(t)}
    BY <1>5 DEF CallWarehouses, CallWarehouse
  <2> QED
    BY <2>1, <2>2
<1>6. CASE Op(t) \notin {"adjust", "transfer", "receive", "create", "dispatch", "cancel"}
  BY <1>6 DEF Written
<1> QED
  BY <1>2, <1>3, <1>4, <1>5, <1>6

\* Which tables a commit writes.
LEMMA CommitKind ==
  ASSUME LockInv, NEW t \in Worker, Commit(t)
  PROVE  /\ call[t] \in Call /\ Op(t) = call[t].op
         /\ Op(t) \in {"adjust", "transfer", "create", "draft"} \cup OrderOps
         /\ Op(t) \in {"adjust", "transfer"} => UNCHANGED <<soVars, poVars>>
         /\ Op(t) \in {"create"} \cup SalesOps =>
              SalesOrderWritten(t) /\ UNCHANGED poVars
         /\ Op(t) \in {"draft"} \cup PurchaseOps =>
              PurchaseOrderWritten(t) /\ UNCHANGED soVars
         /\ OrderHeld(t) /\ LinesTested(t) /\ RowsHeld(t)
         /\ EndCall(t) /\ UNCHANGED deleted /\ ledger' = CallPosted(t)
         /\ pc[t] = "commit"
<1>1. /\ pc[t] = "commit" /\ EndCall(t) /\ UNCHANGED deleted /\ ledger' = CallPosted(t)
      /\ \/ Op(t) \in {"adjust", "transfer"} /\ UNCHANGED <<soVars, poVars>>
         \/ SalesOrderWritten(t) /\ UNCHANGED poVars
         \/ PurchaseOrderWritten(t) /\ UNCHANGED soVars
  BY DEF Commit
<1>2. /\ call[t] \in Call /\ Placed(t) /\ OrderHeld(t) /\ LinesTested(t)
      /\ RowsHeld(t)
  BY <1>1, LocksNow
<1>3. /\ Op(t) = call[t].op /\ Op(t) # "delete"
      /\ Op(t) \in {"adjust", "transfer", "create", "draft"} \cup OrderOps
  BY <1>1, <1>2, CallKinds DEF Op, Placed
<1>4. /\ SalesOrderWritten(t) => Op(t) \in {"create"} \cup SalesOps
      /\ PurchaseOrderWritten(t) => Op(t) \in {"draft"} \cup PurchaseOps
  BY DEF SalesOrderWritten, PurchaseOrderWritten, SalesOps, PurchaseOps
<1> QED
  BY <1>1, <1>2, <1>3, <1>4 DEF SalesOps, PurchaseOps

\* What a call about a sales order finds, and which tables it writes.
LEMMA SalesOrderCommit ==
  ASSUME LockInv, NEW t \in Worker, Commit(t), Op(t) \in SalesOps
  PROVE  /\ call[t].o \in SalesOrder /\ CallItems(t) = so_items[call[t].o]
         /\ CallWarehouse(t) = so_warehouse[call[t].o]
         /\ so_items[call[t].o] \in [Product -> Nat]
         /\ so_warehouse[call[t].o] \in Warehouse
         /\ StatusAllows(t) /\ Op(t) = call[t].op /\ pc[t] = "commit"
         /\ so_status' = [so_status EXCEPT ![call[t].o] =
              CASE Op(t) = "dispatch" -> "DISPATCHED"
                [] Op(t) = "deliver" -> "DELIVERED"
                [] Op(t) = "cancel" -> "CANCELLED"]
         /\ UNCHANGED <<so_warehouse, so_items>> /\ UNCHANGED poVars
         /\ UNCHANGED deleted /\ ledger' = CallPosted(t)
         /\ order_lock[call[t].o] = t
<1>1. /\ call[t] \in Call /\ Op(t) = call[t].op /\ UNCHANGED poVars
      /\ OrderHeld(t) /\ SalesOrderWritten(t)
      /\ UNCHANGED deleted /\ ledger' = CallPosted(t) /\ pc[t] = "commit"
  BY CommitKind
<1>2. call[t].o \in SalesOrder
  BY <1>1, CallOrder
<1>3. OrderExists(call[t].o) /\ StatusAllows(t) /\ order_lock[call[t].o] = t
  BY <1>1 DEF OrderHeld, OrderOps
<1>4. so_items[call[t].o] \in [Product -> Nat] /\ so_warehouse[call[t].o] \in Warehouse
  BY <1>2, <1>3 DEF OrderExists, LockInv, SOTypeOK
<1>5. Op(t) # "create"
  BY DEF SalesOps
<1> QED
  BY <1>1, <1>2, <1>3, <1>4, <1>5
  DEF CallItems, CallWarehouse, SalesOrderWritten

\* What a call about a purchase order finds, and which tables it writes.
LEMMA PurchaseOrderCommit ==
  ASSUME LockInv, NEW t \in Worker, Commit(t), Op(t) \in PurchaseOps
  PROVE  /\ call[t] \in Call /\ Op(t) = call[t].op /\ pc[t] = "commit"
         /\ call[t].o \in PurchaseOrder /\ call[t].o \notin SalesOrder
         /\ OrderExists(call[t].o) /\ StatusAllows(t) /\ order_lock[call[t].o] = t
         /\ po_status' = [po_status EXCEPT ![call[t].o] =
              CASE Op(t) = "submit" -> "PENDING_APPROVAL"
                [] Op(t) = "approve" -> "APPROVED"
                [] Op(t) = "receive" -> ReceivedStatus(call[t].o, call[t].recv)
                [] Op(t) = "withdraw" -> "CANCELLED"]
         /\ approved_by' = IF Op(t) = "approve"
              THEN [approved_by EXCEPT ![call[t].o] = call[t].u] ELSE approved_by
         /\ quantity_received' = [i \in Item |->
              IF Op(t) = "receive" /\ i[1] = call[t].o /\ item_product[i] # None
              THEN quantity_received[i] + call[t].recv[i[2]]
              ELSE quantity_received[i]]
         /\ UNCHANGED <<po_warehouse, created_by, item_product, quantity_ordered>>
         /\ UNCHANGED soVars /\ UNCHANGED deleted /\ ledger' = CallPosted(t)
<1>1. /\ call[t] \in Call /\ Op(t) = call[t].op /\ UNCHANGED soVars
      /\ OrderHeld(t) /\ PurchaseOrderWritten(t)
      /\ UNCHANGED deleted /\ ledger' = CallPosted(t) /\ pc[t] = "commit"
  BY CommitKind
<1>2. call[t].o \in PurchaseOrder /\ call[t].o \notin SalesOrder
  BY <1>1, CallOrder
<1>3. OrderExists(call[t].o) /\ StatusAllows(t) /\ order_lock[call[t].o] = t
  BY <1>1 DEF OrderHeld, OrderOps
<1>4. Op(t) # "draft"
  BY DEF PurchaseOps
<1> QED
  BY <1>1, <1>2, <1>3, <1>4 DEF PurchaseOrderWritten

\* What a commit finds, whatever races: it has locked every row it saves.
LEMMA CommitLocked ==
  ASSUME LockInv, NEW t \in Worker, Commit(t), NEW k \in Written(t)
  PROVE  k \in Key /\ row_lock[k] = t /\ local[t][k] \in Columns
<1>1. pc[t] = "commit" /\ local[t][k] # None
  BY DEF Commit, StockAllows
<1>2. k \in Key
  BY <1>1, WrittenKeys
<1>3. local[t][k] \in Columns
  BY <1>1, <1>2 DEF LockInv, WorkerTypes
<1>4. RowsHeld(t)
  BY CommitKind
<1>5. CASE Op(t) = "transfer"
  BY <1>1, <1>2, <1>3, <1>4, <1>5 DEF RowsHeld, TransferHolds, Written
<1>6. CASE Op(t) # "transfer"
  BY <1>1, <1>2, <1>3, <1>4, <1>6 DEF RowsHeld, Fresh
<1> QED
  BY <1>5, <1>6

LEMMA CallQuantity ==
  ASSUME NEW c \in Call
  PROVE  /\ c.op = "adjust" => /\ <<c.p, c.w>> \in Key /\ c.q \in Nat
                               /\ c.type \in TransactionType
         /\ c.op = "transfer" => /\ <<c.p, c.s>> \in Key /\ <<c.p, c.d>> \in Key
                                 /\ c.q \in Nat
<1>1. MaxInteger \in Nat /\ Quantity \subseteq Nat
  BY InventoryAssumption DEF Quantity
<1>2. ASSUME c.op = "adjust"
      PROVE  <<c.p, c.w>> \in Key /\ c.q \in Nat /\ c.type \in TransactionType
  <2>1. c \in AdjustCall
    BY <1>2, CallKinds
  <2> QED
    BY <1>1, <2>1 DEF AdjustCall, Key
<1>3. ASSUME c.op = "transfer"
      PROVE  <<c.p, c.s>> \in Key /\ <<c.p, c.d>> \in Key /\ c.q \in Nat
  <2>1. c \in TransferCall
    BY <1>3, CallKinds
  <2> QED
    BY <1>1, <2>1 DEF TransferCall, Key
<1> QED
  BY <1>2, <1>3

\* What a call adds to the columns of a row is a number.
LEMMA ChangesInt ==
  ASSUME LockInv, NEW t \in Worker, Commit(t), NEW k \in Written(t)
  PROVE  /\ AvailableChange(t, k) \in Int /\ ReservedChange(t, k) \in Int
         /\ DamagedChange(t, k) \in Int
<1>1. call[t] \in Call /\ Op(t) = call[t].op
  BY CommitKind
<1>2. k \in Key /\ k[1] \in Product
  BY CommitLocked, KeyPair
<1>3. CASE Op(t) = "adjust"
  <2>1. call[t].q \in Nat
    BY <1>1, <1>3, CallQuantity
  <2>2. /\ AvailableDelta(call[t].type, call[t].q) \in Int
        /\ DamagedDelta(call[t].type, call[t].q) \in Int
    BY <2>1 DEF AvailableDelta, DamagedDelta
  <2>3. /\ AvailableChange(t, k) = AvailableDelta(call[t].type, call[t].q)
        /\ ReservedChange(t, k) = 0
        /\ DamagedChange(t, k) = DamagedDelta(call[t].type, call[t].q)
    BY <1>3 DEF AvailableChange, ReservedChange, DamagedChange
  <2> QED
    BY <2>2, <2>3
<1>4. CASE Op(t) = "transfer"
  <2>1. call[t].q \in Nat
    BY <1>1, <1>4, CallQuantity
  <2> QED
    BY <1>4, <2>1 DEF AvailableChange, ReservedChange, DamagedChange
<1>5. CASE Op(t) = "create"
  <2>1. CallItems(t) \in [Product -> Nat]
    <3>1. call[t] \in CreateCall /\ CallItems(t) = call[t].items
      BY <1>1, <1>5, CallKinds DEF CallItems
    <3> QED
      BY <3>1, InventoryAssumption DEF CreateCall
  <2> QED
    BY <1>2, <1>5, <2>1 DEF AvailableChange, ReservedChange, DamagedChange
<1>6. CASE Op(t) \in SalesOps
  <2>1. CallItems(t) \in [Product -> Nat]
    BY <1>6, SalesOrderCommit
  <2> QED
    BY <1>2, <1>6, <2>1 DEF AvailableChange, ReservedChange, DamagedChange, SalesOps
<1>7. CASE Op(t) = "receive"
  <2>1. Arrival(call[t].o, call[t].recv) \in [Key -> Nat]
    BY <1>1, <1>7, CallOrder, RecvNat, ArrivalNat DEF PurchaseOps
  <2> QED
    BY <1>2, <1>7, <2>1 DEF AvailableChange, ReservedChange, DamagedChange
<1>8. CASE Op(t) \notin {"adjust", "transfer", "create", "receive"} \cup SalesOps
  BY <1>8 DEF AvailableChange, ReservedChange, DamagedChange, SalesOps
<1> QED
  BY <1>3, <1>4, <1>5, <1>6, <1>7, <1>8

\* What a commit posts: dispatches by a dispatch alone, receipts by a receipt.
LEMMA CommitPosts ==
  ASSUME LockInv, NEW t \in Worker, Commit(t)
  PROVE  /\ ledger' \in [Key \X Posting -> Nat]
         /\ \A k \in Key :
              /\ Posted(k, "DISPATCH")' = Posted(k, "DISPATCH") +
                   IF Op(t) = "dispatch" /\ k[2] = CallWarehouse(t)
                   THEN CallItems(t)[k[1]] ELSE 0
              /\ Posted(k, "RECEIPT")' = Posted(k, "RECEIPT") +
                   IF Op(t) = "receive"
                   THEN Arrival(call[t].o, call[t].recv)[k] ELSE 0
<1>1. /\ call[t] \in Call /\ Op(t) = call[t].op /\ ledger' = CallPosted(t)
      /\ ledger \in [Key \X Posting -> Nat]
  BY CommitKind DEF LockInv, InvTypeOK
<1>2. "DISPATCH" \in Posting /\ "RECEIPT" \in Posting
  BY DEF Posting
<1>3. CASE Op(t) = "adjust" /\ call[t].type # "TRANSFER"
  <2>1. PICK q \in Nat, type \in Posting \ {"DISPATCH", "RECEIPT"} :
          q = call[t].q /\ type = call[t].type
    BY <1>1, <1>3, CallQuantity DEF TransactionType, Posting
  <2>2. Adjusted(t) \in Key
    BY <1>1, <1>3, CallQuantity DEF Adjusted
  <2>3. ledger' = [ledger EXCEPT ![<<Adjusted(t), type>>] = @ + q]
    BY <1>1, <1>3, <2>1 DEF CallPosted
  <2> QED
    BY <1>1, <1>2, <1>3, <2>1, <2>2, <2>3 DEF Posted
<1>4. CASE Op(t) = "transfer"
  <2>1. PICK q \in Nat : q = call[t].q
    BY <1>1, <1>4, CallQuantity
  <2>2. PICK x, y : /\ x = <<Source(t), "TRANSFER_OUT">> /\ y = <<Dest(t), "TRANSFER_IN">>
                    /\ x \in Key \X Posting /\ y \in Key \X Posting
    BY <1>1, <1>4, CallQuantity DEF Source, Dest, Posting
  <2>3. ledger' = [ledger EXCEPT ![x] = @ + q, ![y] = @ + q]
    BY <1>1, <1>4, <2>1, <2>2 DEF CallPosted, TransferPosted, Source, Dest
  <2>4. ledger' \in [Key \X Posting -> Nat]
    BY <1>1, <2>1, <2>2, <2>3
  <2>5. \A k \in Key, p \in {"DISPATCH", "RECEIPT"} :
          <<k, p>> # x /\ <<k, p>> # y /\ <<k, p>> \in Key \X Posting
    BY <1>2, <2>2
  <2>6. \A z \in Key \X Posting : z # x /\ z # y => ledger'[z] = ledger[z]
    BY <1>1, <2>3
  <2> QED
    BY <1>1, <1>4, <2>4, <2>5, <2>6 DEF Posted
<1>5. CASE Op(t) = "dispatch"
  <2>1. CallItems(t) \in [Product -> Nat]
    BY <1>5, SalesOrderCommit DEF SalesOps
  <2>2. ledger' = [x \in Key \X Posting |->
          IF x[1][2] = CallWarehouse(t) /\ x[2] = "DISPATCH"
          THEN ledger[x] + CallItems(t)[x[1][1]] ELSE ledger[x]]
    BY <1>1, <1>5 DEF CallPosted, DispatchPosted
  <2>3. \A x \in Key \X Posting : x[1] \in Key /\ ledger[x] \in Nat
                                  /\ CallItems(t)[x[1][1]] \in Nat
    BY <1>1, <2>1, KeyPair
  <2> QED
    BY <1>2, <1>5, <2>2, <2>3 DEF Posted
<1>6. CASE Op(t) = "receive"
  <2>1. PICK arrival \in [Key -> Nat] : arrival = Arrival(call[t].o, call[t].recv)
    BY <1>1, <1>6, CallOrder, RecvNat, ArrivalNat DEF PurchaseOps
  <2>2. ledger' = [x \in Key \X Posting |-> IF x[2] = "RECEIPT"
                     THEN ledger[x] + arrival[x[1]] ELSE ledger[x]]
    BY <1>1, <1>6, <2>1 DEF CallPosted
  <2>3. \A x \in Key \X Posting : ledger[x] \in Nat /\ arrival[x[1]] \in Nat
    BY <1>1
  <2> QED
    BY <1>2, <1>6, <2>1, <2>2, <2>3 DEF Posted
<1>7. CASE ~(Op(t) = "adjust" /\ call[t].type # "TRANSFER")
           /\ Op(t) \notin {"transfer", "dispatch", "receive"}
  BY <1>1, <1>2, <1>7 DEF CallPosted, Posted
<1> QED
  BY <1>3, <1>4, <1>5, <1>6, <1>7

LEMMA CommitStockType ==
  ASSUME LockInv, NEW t \in Worker, Commit(t)
  PROVE  InvTypeOK'
<1>1. ASSUME NEW k \in Written(t)
      PROVE  /\ k \in Key
             /\ Saved(t, k).available \in Int /\ Saved(t, k).reserved \in Int
             /\ Saved(t, k).damaged \in Int
  BY <1>1, CommitLocked, ChangesInt DEF Saved, Columns
<1>2. /\ rows' = rows \cup Written(t)
      /\ quantity_available' = [k \in Key |-> IF k \in Written(t)
           THEN Saved(t, k).available ELSE quantity_available[k]]
      /\ quantity_reserved' = [k \in Key |-> IF k \in Written(t)
           THEN Saved(t, k).reserved ELSE quantity_reserved[k]]
      /\ quantity_damaged' = [k \in Key |-> IF k \in Written(t)
           THEN Saved(t, k).damaged ELSE quantity_damaged[k]]
      /\ UNCHANGED deleted
  BY DEF Commit
<1>3. ledger' \in [Key \X Posting -> Nat]
  BY CommitPosts
<1> QED
  BY <1>1, <1>2, <1>3 DEF LockInv, InvTypeOK

LEMMA CommitSalesType ==
  ASSUME LockInv, NEW t \in Worker, Commit(t)
  PROVE  SOTypeOK'
<1>1. SOTypeOK /\ rows' = rows \cup Written(t)
  BY DEF LockInv, Commit
<1>2. CASE UNCHANGED soVars
  BY <1>1, <1>2 DEF SOTypeOK, soVars
<1>3. CASE Op(t) = "create"
  <2>1. call[t] \in CreateCall /\ SalesOrderWritten(t)
    BY <1>3, CommitKind, CallKinds
  <2>2. PICK w \in Warehouse, items \in [Product -> Nat] :
          w = call[t].w /\ items = call[t].items
    BY <2>1, InventoryAssumption DEF CreateCall
  <2>3. PICK o \in SalesOrder :
          /\ so_status' = [so_status EXCEPT ![o] = "CONFIRMED"]
          /\ so_warehouse' = [so_warehouse EXCEPT ![o] = w]
          /\ so_items' = [so_items EXCEPT ![o] = items]
    BY <1>3, <2>1, <2>2 DEF SalesOrderWritten
  <2>4. ASSUME NEW p \in Product, items[p] > 0
        PROVE  <<p, w>> \in rows'
    <3>1. <<p, w>> \in Written(t)
      BY <1>3, <2>2, <2>4 DEF Written, CallWarehouse, CallItems, Key
    <3> QED
      BY <1>1, <3>1
  <2> QED
    BY <1>1, <2>3, <2>4 DEF SOTypeOK, SalesOrderStatus
<1>4. CASE Op(t) \in SalesOps
  <2>1. PICK s : s = CASE Op(t) = "dispatch" -> "DISPATCHED"
                       [] Op(t) = "deliver" -> "DELIVERED"
                       [] Op(t) = "cancel" -> "CANCELLED"
    OBVIOUS
  <2>2. s \in SalesOrderStatus
    BY <1>4, <2>1 DEF SalesOps, SalesOrderStatus
  <2>3. /\ call[t].o \in SalesOrder /\ so_warehouse[call[t].o] \in Warehouse
        /\ so_status' = [so_status EXCEPT ![call[t].o] = s]
        /\ UNCHANGED <<so_warehouse, so_items>>
    BY <1>4, <2>1, SalesOrderCommit
  <2> QED
    BY <1>1, <2>2, <2>3 DEF SOTypeOK
<1> QED
  BY <1>2, <1>3, <1>4, CommitKind DEF OrderOps

\* What a commit writes into the tables of the purchase orders.
LEMMA CommitPurchases ==
  ASSUME LockInv, NEW t \in Worker, Commit(t)
  PROVE  IF Op(t) = "receive"
         THEN /\ call[t].o \in PurchaseOrder
              /\ call[t].recv \in [Line -> 0..MaxInteger]
              /\ ReceiptWritten(call[t].o, call[t].recv)
         ELSE \/ UNCHANGED poVars
              \/ \E o \in PurchaseOrder : OrderWritten(o)
<1>1. CASE Op(t) \in {"adjust", "transfer", "create"} \cup SalesOps
  BY <1>1, CommitKind DEF poVars, SalesOps
<1>2. CASE Op(t) = "draft"
  <2>1. call[t] \in DraftCall /\ PurchaseOrderWritten(t)
    BY <1>2, CommitKind, CallKinds
  <2>2. /\ call[t].w \in Warehouse /\ call[t].u \in User
        /\ call[t].product \in [Line -> Product \cup {None}]
        /\ call[t].qty \in [Line -> OrderedQty]
    BY <2>1 DEF DraftCall
  <2>3. PICK o \in PurchaseOrder :
          DraftWritten(o, call[t].w, call[t].u, call[t].product, call[t].qty)
    BY <1>2, <2>1 DEF PurchaseOrderWritten, Drafted, DraftWritten
  <2> QED
    BY <1>2, <2>2, <2>3 DEF OrderWritten
<1>3. CASE Op(t) \in PurchaseOps
  <2> DEFINE o == call[t].o
             recv == call[t].recv
  <2>1. /\ call[t] \in Call /\ Op(t) = call[t].op /\ o \in PurchaseOrder
        /\ StatusAllows(t)
        /\ po_status' = [po_status EXCEPT ![o] =
             CASE Op(t) = "submit" -> "PENDING_APPROVAL"
               [] Op(t) = "approve" -> "APPROVED"
               [] Op(t) = "receive" -> ReceivedStatus(o, recv)
               [] Op(t) = "withdraw" -> "CANCELLED"]
        /\ approved_by' = IF Op(t) = "approve"
             THEN [approved_by EXCEPT ![o] = call[t].u] ELSE approved_by
        /\ quantity_received' = [i \in Item |->
             IF Op(t) = "receive" /\ i[1] = o /\ item_product[i] # None
             THEN quantity_received[i] + recv[i[2]] ELSE quantity_received[i]]
        /\ UNCHANGED <<po_warehouse, created_by, item_product, quantity_ordered>>
    BY <1>3, PurchaseOrderCommit
  <2>2. CASE Op(t) = "receive"
    <3>1. recv \in [Line -> 0..MaxInteger] /\ po_status[o] \in Receivable
      BY <2>1, <2>2, CallOrder DEF StatusAllows
    <3>2. \A l \in ReceiptLines(t) : LineRoom(t, l)
      BY <2>2, CommitKind DEF LinesTested, Untested, Among
    <3>3. Remaining(o, recv)
      BY <3>2 DEF Remaining, ReceiptLines, LineRoom
    <3>4. ReceiptWritten(o, recv)
      BY <2>1, <2>2, <3>1, <3>3 DEF ReceiptWritten
    <3> QED
      BY <2>1, <2>2, <3>1, <3>4
  <2>3. CASE Op(t) # "receive"
    <3>1. quantity_received' = quantity_received
      BY <2>1, <2>3 DEF LockInv, DutyInv, POTypeOK
    <3>2. o \in PurchaseOrder
      BY <2>1
    <3> HIDE DEF o
    <3>3. ASSUME Op(t) = "submit" PROVE SubmitWritten(o)
      BY <2>1, <3>1, <3>3 DEF StatusAllows, SubmitWritten, o
    <3>4. ASSUME Op(t) = "approve" PROVE \E u \in User : ApproveWritten(o, u)
      <4>1. call[t].u \in User
        BY <2>1, <3>4, CallKinds DEF ApproveCall
      <4>2. po_status[o] = "PENDING_APPROVAL" /\ MayApprove(o, call[t].u)
        BY <2>1, <3>4 DEF StatusAllows, o
      <4>3. ApproveWritten(o, call[t].u)
        BY <2>1, <3>1, <3>4, <4>2 DEF ApproveWritten
      <4> QED
        BY <4>1, <4>3
    <3>5. ASSUME Op(t) = "withdraw" PROVE CancelWritten(o)
      BY <2>1, <3>1, <3>5 DEF StatusAllows, CancelWritten, o
    <3> QED
      BY <1>3, <2>3, <3>2, <3>3, <3>4, <3>5 DEF OrderWritten, PurchaseOps
  <2> QED
    BY <2>2, <2>3
<1> QED
  BY <1>1, <1>2, <1>3, CommitKind DEF OrderOps

\* A commit leaves alone what the other workers have locked.
LEMMA CommitSparesSales ==
  ASSUME LockInv, NEW t \in Worker, Commit(t), NEW u \in Worker \ {t}
  PROVE  SparesSales(u)
<1>1. ASSUME UNCHANGED soVars PROVE SparesSales(u)
  BY <1>1 DEF SparesSales, soVars
<1>2. /\ so_status \in [SalesOrder -> SalesOrderStatus \cup {"NONE"}]
      /\ DOMAIN so_warehouse = SalesOrder /\ DOMAIN so_items = SalesOrder
  BY DEF LockInv, SOTypeOK
<1>3. ASSUME Op(t) = "create" PROVE SparesSales(u)
  <2>1. SalesOrderWritten(t)
    BY <1>3, CommitKind
  <2>2. PICK o \in SalesOrder :
          /\ so_status[o] = "NONE"
          /\ so_status' = [so_status EXCEPT ![o] = "CONFIRMED"]
          /\ so_warehouse' = [so_warehouse EXCEPT ![o] = call[t].w]
          /\ so_items' = [so_items EXCEPT ![o] = call[t].items]
    BY <1>3, <2>1 DEF SalesOrderWritten
  <2> QED
    BY <1>2, <2>2 DEF SparesSales
<1>4. ASSUME Op(t) \in SalesOps PROVE SparesSales(u)
  <2>1. PICK s : s = CASE Op(t) = "dispatch" -> "DISPATCHED"
                       [] Op(t) = "deliver" -> "DELIVERED"
                       [] Op(t) = "cancel" -> "CANCELLED"
    OBVIOUS
  <2>2. s # "NONE"
    BY <1>4, <2>1 DEF SalesOps
  <2>3. /\ call[t].o \in SalesOrder /\ order_lock[call[t].o] = t
        /\ so_status' = [so_status EXCEPT ![call[t].o] = s]
        /\ UNCHANGED <<so_warehouse, so_items>>
    BY <1>4, <2>1, SalesOrderCommit
  <2> QED
    BY <1>2, <2>2, <2>3 DEF SparesSales
<1> QED
  BY <1>1, <1>3, <1>4, CommitKind DEF OrderOps

LEMMA CommitSparesPurchases ==
  ASSUME LockInv, NEW t \in Worker, Commit(t), NEW u \in Worker \ {t}
  PROVE  SparesPurchases(u)
<1>1. ASSUME UNCHANGED poVars PROVE SparesPurchases(u)
  BY <1>1 DEF SparesPurchases, poVars
<1>2. /\ po_status \in [PurchaseOrder -> PurchaseOrderStatus \cup {"NONE"}]
      /\ DOMAIN po_warehouse = PurchaseOrder /\ DOMAIN created_by = PurchaseOrder
  BY DEF LockInv, DutyInv, POTypeOK
<1>3. ASSUME Op(t) = "draft" PROVE SparesPurchases(u)
  <2>1. PurchaseOrderWritten(t)
    BY <1>3, CommitKind
  <2>2. PICK o \in PurchaseOrder :
          /\ po_status[o] = "NONE"
          /\ po_status' = [po_status EXCEPT ![o] = "DRAFT"]
          /\ po_warehouse' = [po_warehouse EXCEPT ![o] = call[t].w]
          /\ created_by' = [created_by EXCEPT ![o] = call[t].u]
          /\ item_product' = [i \in Item |->
               IF i[1] = o THEN call[t].product[i[2]] ELSE item_product[i]]
          /\ quantity_ordered' = [i \in Item |->
               IF i[1] = o /\ call[t].product[i[2]] # None
               THEN call[t].qty[i[2]] ELSE quantity_ordered[i]]
          /\ UNCHANGED quantity_received
    BY <1>3, <2>1 DEF PurchaseOrderWritten, Drafted
  <2>3. ASSUME NEW x \in PurchaseOrder, po_status[x] # "NONE"
        PROVE  /\ po_status'[x] = po_status[x] /\ po_warehouse'[x] = po_warehouse[x]
               /\ created_by'[x] = created_by[x]
    BY <1>2, <2>2, <2>3
  <2>4. ASSUME NEW x \in PurchaseOrder, po_status[x] # "NONE", NEW l \in Line
        PROVE  /\ item_product'[<<x, l>>] = item_product[<<x, l>>]
               /\ quantity_ordered'[<<x, l>>] = quantity_ordered[<<x, l>>]
    BY <2>2, <2>4 DEF Item
  <2>5. quantity_received' = quantity_received
    BY <2>2
  <2> QED
    BY <2>3, <2>4, <2>5 DEF SparesPurchases
<1>4. ASSUME Op(t) \in PurchaseOps PROVE SparesPurchases(u)
  <2>1. PICK s : s = CASE Op(t) = "submit" -> "PENDING_APPROVAL"
                       [] Op(t) = "approve" -> "APPROVED"
                       [] Op(t) = "receive" -> ReceivedStatus(call[t].o, call[t].recv)
                       [] Op(t) = "withdraw" -> "CANCELLED"
    OBVIOUS
  <2>2. s # "NONE"
    BY <1>4, <2>1 DEF PurchaseOps, ReceivedStatus
  <2>3. /\ call[t].o \in PurchaseOrder /\ order_lock[call[t].o] = t
        /\ po_status' = [po_status EXCEPT ![call[t].o] = s]
        /\ quantity_received' = [i \in Item |->
              IF Op(t) = "receive" /\ i[1] = call[t].o /\ item_product[i] # None
              THEN quantity_received[i] + call[t].recv[i[2]]
              ELSE quantity_received[i]]
        /\ UNCHANGED <<po_warehouse, created_by, item_product, quantity_ordered>>
    BY <1>4, <2>1, PurchaseOrderCommit
  <2>4. ASSUME NEW x \in PurchaseOrder, x # call[t].o, NEW l \in Line
        PROVE  quantity_received'[<<x, l>>] = quantity_received[<<x, l>>]
    BY <2>3, <2>4 DEF Item
  <2>5. \A x \in PurchaseOrder : po_status'[x] = IF x = call[t].o THEN s ELSE po_status[x]
    BY <1>2, <2>3
  <2>6. \A x \in PurchaseOrder : order_lock[x] = u => x # call[t].o
    BY <2>3
  <2> QED
    BY <2>2, <2>3, <2>4, <2>5, <2>6 DEF SparesPurchases
<1> QED
  BY <1>1, <1>3, <1>4, CommitKind DEF OrderOps

LEMMA CommitSpares ==
  ASSUME LockInv, NEW t \in Worker, Commit(t), NEW u \in Worker \ {t}
  PROVE  Spares(u)
<1>1. /\ rows' = rows \cup Written(t)
      /\ \A k \in Key : k \notin Written(t) => SameColumns(k)
  BY DEF Commit, SameColumns
<1>2. \A k \in Key : row_lock[k] = u => SameColumns(k)
  BY <1>1, CommitLocked
<1> QED
  BY <1>1, <1>2, CommitSparesSales, CommitSparesPurchases DEF Spares

LEMMA CommitLocks ==
  ASSUME LockInv, NEW t \in Worker, Commit(t)
  PROVE  LockInv'
<1>1. WorkerTypes' /\ OnlyBy(t) /\ WorkerLocks(t)'
  BY CommitKind, CallEnds DEF LockInv
<1>2. DutyInv'
  <2>1. CASE UNCHANGED poVars
    BY <2>1, ReceivedKept DEF LockInv
  <2>2. CASE POTables
    BY <2>2, TablesDuty DEF LockInv
  <2> QED
    BY <2>1, <2>2, CommitPurchases DEF POTables
<1>3. ASSUME NEW u \in Worker \ {t} PROVE WorkerLocks(u)'
  BY <1>1, CommitSpares, OthersWait, LocksSpared DEF LockInv
<1> QED
  BY <1>1, <1>2, <1>3, CommitStockType, CommitSalesType DEF LockInv

-----------------------------------------------------------------------------
\* What the tables of orders and the audit table say of each other.
Accounts == StatusTold /\ DispatchesAccounted /\ ReceiptsAccounted

LEMMA AccountsStand ==
  ASSUME LockInv, Accounts, UNCHANGED <<ledger, soVars, poVars>>
  PROVE  Accounts'
<1>1. \A k \in Key, p \in Posting : Posted(k, p)' = Posted(k, p)
  BY DEF Posted
<1>2. \A k \in Key : Ordered(k, Shipped)' = Ordered(k, Shipped)
  BY OrderedKept
<1>3. \A k \in Key : Received(k)' = Received(k)
  BY ReceivedKept DEF LockInv
<1>4. StatusTold'
  BY DEF Accounts, StatusTold, HasLine, Complete, poVars
<1>5. "DISPATCH" \in Posting /\ "RECEIPT" \in Posting
  BY DEF Posting
<1> QED
  BY <1>1, <1>2, <1>3, <1>4, <1>5 DEF Accounts, DispatchesAccounted, ReceiptsAccounted

LEMMA CommitDispatches ==
  ASSUME LockInv, LockInv', DispatchesAccounted, NEW t \in Worker, Commit(t)
  PROVE  DispatchesAccounted'
<1> SUFFICES ASSUME NEW k \in Key
             PROVE  Posted(k, "DISPATCH")' = Ordered(k, Shipped)'
  BY DEF DispatchesAccounted
<1>1. /\ SOTypeOK /\ SOTypeOK' /\ Posted(k, "DISPATCH") = Ordered(k, Shipped)
      /\ Posted(k, "DISPATCH")' = Posted(k, "DISPATCH") +
           IF Op(t) = "dispatch" /\ k[2] = CallWarehouse(t)
           THEN CallItems(t)[k[1]] ELSE 0
      /\ Posted(k, "DISPATCH") \in Nat
  BY CommitPosts DEF LockInv, DispatchesAccounted, InvTypeOK, Posted, Posting
<1>2. CASE UNCHANGED soVars /\ Op(t) # "dispatch"
  BY <1>1, <1>2, OrderedKept
<1>3. CASE Op(t) = "create"
  <2>1. SalesOrderWritten(t)
    BY <1>3, CommitKind
  <2>2. PICK o \in SalesOrder :
          /\ so_status[o] = "NONE"
          /\ so_status' = [so_status EXCEPT ![o] = "CONFIRMED"]
          /\ so_warehouse' = [so_warehouse EXCEPT ![o] = call[t].w]
          /\ so_items' = [so_items EXCEPT ![o] = call[t].items]
    BY <1>3, <2>1 DEF SalesOrderWritten
  <2>3. so_status'[o] = "CONFIRMED"
    BY <1>1, <2>2 DEF SOTypeOK
  <2>4. Share(o, k, Shipped) = 0 /\ Share(o, k, Shipped)' = 0
    BY <2>2, <2>3 DEF Share, Shipped
  <2>5. Ordered(k, Shipped)' = Ordered(k, Shipped) - Share(o, k, Shipped)
                                 + Share(o, k, Shipped)'
    <3>1. \A x \in SalesOrder \ {o} : /\ so_status'[x] = so_status[x]
                                      /\ so_warehouse'[x] = so_warehouse[x]
                                      /\ so_items'[x] = so_items[x]
      BY <1>1, <2>2 DEF SOTypeOK
    <3> QED
      BY <1>1, <3>1, OrderedUpdate
  <2> QED
    BY <1>1, <1>3, <2>4, <2>5
<1>4. CASE Op(t) \in SalesOps
  <2>1. PICK o, s :
          /\ o = call[t].o
          /\ s = CASE Op(t) = "dispatch" -> "DISPATCHED"
                    [] Op(t) = "deliver" -> "DELIVERED"
                    [] Op(t) = "cancel" -> "CANCELLED"
    OBVIOUS
  <2>2. /\ o \in SalesOrder /\ CallItems(t) = so_items[o]
        /\ CallWarehouse(t) = so_warehouse[o] /\ StatusAllows(t)
        /\ so_items[o] \in [Product -> Nat]
        /\ so_status' = [so_status EXCEPT ![o] = s]
        /\ UNCHANGED <<so_warehouse, so_items>>
    BY <1>4, <2>1, SalesOrderCommit
  <2>3. so_status'[o] = s
    BY <1>1, <2>2 DEF SOTypeOK
  <2>4. /\ Op(t) = "dispatch" => so_status[o] \in Dispatchable
        /\ Op(t) = "deliver" => so_status[o] = "DISPATCHED"
        /\ Op(t) = "cancel" => so_status[o] \in Cancellable
    BY <2>1, <2>2 DEF StatusAllows
  <2>5. Ordered(k, Shipped)' = Ordered(k, Shipped) - Share(o, k, Shipped)
                                 + Share(o, k, Shipped)'
    <3>1. \A x \in SalesOrder \ {o} : /\ so_status'[x] = so_status[x]
                                      /\ so_warehouse'[x] = so_warehouse[x]
                                      /\ so_items'[x] = so_items[x]
      BY <1>1, <2>2 DEF SOTypeOK
    <3> QED
      BY <1>1, <2>2, <3>1, OrderedUpdate
  <2>6. so_items[o][k[1]] \in Nat
    BY <2>2, KeyPair
  <2>7. Share(o, k, Shipped) \in Nat
    BY <1>1, <2>2, ShareNat
  <2>8. CASE Op(t) = "dispatch"
    <3>1. /\ Share(o, k, Shipped) = 0
          /\ Share(o, k, Shipped)' = IF so_warehouse[o] = k[2]
                                     THEN so_items[o][k[1]] ELSE 0
      BY <2>1, <2>2, <2>3, <2>4, <2>8 DEF Share, Shipped, Dispatchable
    <3> QED
      BY <1>1, <2>2, <2>5, <2>6, <2>8, <3>1
  <2>9. CASE Op(t) = "deliver"
    <3>1. Share(o, k, Shipped)' = Share(o, k, Shipped)
      BY <2>1, <2>2, <2>3, <2>4, <2>9 DEF Share, Shipped
    <3> QED
      BY <1>1, <2>5, <2>7, <2>9, <3>1
  <2>10. CASE Op(t) = "cancel"
    <3>1. Share(o, k, Shipped) = 0 /\ Share(o, k, Shipped)' = 0
      BY <2>1, <2>2, <2>3, <2>4, <2>10 DEF Share, Shipped, Cancellable
    <3> QED
      BY <1>1, <2>5, <2>10, <3>1
  <2> QED
    BY <1>4, <2>8, <2>9, <2>10 DEF SalesOps
<1> QED
  BY <1>2, <1>3, <1>4, CommitKind DEF OrderOps, PurchaseOps

LEMMA CommitReceipts ==
  ASSUME LockInv, LockInv', ReceiptsAccounted, NEW t \in Worker, Commit(t)
  PROVE  ReceiptsAccounted'
<1> SUFFICES ASSUME NEW k \in Key
             PROVE  Posted(k, "RECEIPT")' = Received(k)'
  BY DEF ReceiptsAccounted
<1>1. /\ Posted(k, "RECEIPT") = Received(k) /\ Posted(k, "RECEIPT") \in Nat
      /\ Posted(k, "RECEIPT")' = Posted(k, "RECEIPT") +
           IF Op(t) = "receive"
           THEN Arrival(call[t].o, call[t].recv)[k] ELSE 0
  BY CommitPosts DEF ReceiptsAccounted, LockInv, InvTypeOK, Posted, Posting
<1>2. CASE Op(t) = "receive"
  <2>1. PICK o \in PurchaseOrder, recv \in [Line -> 0..MaxInteger] :
          o = call[t].o /\ recv = call[t].recv /\ ReceiptWritten(o, recv)
    BY <1>2, CommitPurchases
  <2>2. recv \in [Line -> Nat] /\ POTypeOK /\ POTypeOK'
    BY RecvNat DEF LockInv, DutyInv
  <2>3. Received(k)' = Received(k) + Arrival(o, recv)[k]
    BY <2>1, <2>2, ReceiptAdds
  <2> QED
    BY <1>1, <1>2, <2>1, <2>3
<1>3. CASE Op(t) # "receive"
  <2>1. Received(k)' = Received(k)
    BY <1>3, CommitPurchases, ReceivedKept, NothingReceived DEF LockInv
  <2> QED
    BY <1>1, <1>3, <2>1
<1> QED
  BY <1>2, <1>3

LEMMA CommitAccounts ==
  ASSUME LockInv, LockInv', Accounts, NEW t \in Worker, Commit(t)
  PROVE  Accounts'
<1>1. StatusTold'
  <2>1. CASE UNCHANGED poVars
    BY <2>1 DEF Accounts, StatusTold, HasLine, Complete, poVars
  <2>2. CASE POTables
    BY <2>2, TablesTell DEF LockInv, Accounts
  <2> QED
    BY <2>1, <2>2, CommitPurchases DEF POTables
<1> QED
  BY <1>1, CommitDispatches, CommitReceipts DEF Accounts

-----------------------------------------------------------------------------
\* A step of the system is one of one worker.
LEMMA OneMoves ==
  ASSUME LockInv, NEW t \in Worker,
         (\E c \in Call : Begin(t, c)) \/ Proceed(t) \/ Crash(t)
  PROVE  OnlyBy(t)
<1>1. /\ DOMAIN pc = Worker /\ DOMAIN call = Worker /\ DOMAIN todo = Worker
      /\ DOMAIN local = Worker /\ DOMAIN row_lock = Key
      /\ DOMAIN order_lock = SalesOrder \cup PurchaseOrder
  BY DEF LockInv, WorkerTypes
<1>2. CASE \E c \in Call : Begin(t, c)
  <2>1. PICK c \in Call : Begin(t, c)
    BY <1>2
  <2> QED
    BY <1>1, <2>1 DEF Begin, Goto, OnlyBy
<1>3. CASE LockOrder(t)
  BY <1>1, <1>3 DEF LockOrder, OrderLocked, Goto, OnlyBy
<1>4. CASE SelectRows(t) \/ CheckLine(t)
  BY <1>1, <1>4 DEF SelectRows, CheckLine, Goto, OnlyBy
<1>5. CASE LockNextRow(t)
  <2>1. PICK k : k = NextRow(t)
    OBVIOUS
  <2>2. /\ row_lock[k] \in {None, t} /\ row_lock' = [row_lock EXCEPT ![k] = t]
        /\ \A u \in Worker \ {t} : pc'[u] = pc[u] /\ todo'[u] = todo[u]
                                   /\ local'[u] = local[u]
        /\ UNCHANGED <<call, order_lock>>
    BY <1>1, <1>5, <2>1 DEF LockNextRow, RowFree, LockRow, Read, Goto
  <2> QED
    BY <1>1, <2>2 DEF OnlyBy
<1>6. CASE ReadSource(t)
  BY <1>1, <1>6 DEF ReadSource, Read, Goto, OnlyBy
<1>7. CASE GetDest(t)
  <2>1. PICK k : k = Dest(t)
    OBVIOUS
  <2>2. /\ \/ UNCHANGED row_lock
           \/ row_lock[k] \in {None, t} /\ row_lock' = [row_lock EXCEPT ![k] = t]
        /\ \A u \in Worker \ {t} : pc'[u] = pc[u] /\ local'[u] = local[u]
        /\ UNCHANGED <<call, todo, order_lock>>
    BY <1>1, <1>7, <2>1 DEF GetDest, RowFree, LockRow, Read, Goto
  <2> QED
    BY <1>1, <2>2 DEF OnlyBy
<1>8. CASE SaveSource(t) \/ SaveDest(t)
  <2>1. PICK k : /\ row_lock[k] \in {None, t}
                 /\ row_lock' = [row_lock EXCEPT ![k] = t]
                 /\ \A u \in Worker \ {t} : pc'[u] = pc[u]
                 /\ UNCHANGED <<call, todo, local, order_lock>>
    BY <1>1, <1>8 DEF SaveSource, SaveDest, SaveRow, RowFree, LockRow, Goto
  <2> QED
    BY <1>1, <2>1 DEF OnlyBy
<1>9. CASE CheckEmpty(t)
  BY <1>1, <1>9 DEF CheckEmpty, Goto, OnlyBy
<1>10. ASSUME EndCall(t) PROVE OnlyBy(t)
  BY <1>10, CallEnds DEF LockInv
<1>11. CASE Commit(t)
  BY <1>10, <1>11 DEF Commit
<1>12. CASE MarkDeleted(t) \/ Raise(t) \/ DeadlockVictim(t) \/ Crash(t)
  BY <1>10, <1>12 DEF MarkDeleted, Raise, DeadlockVictim, Crash, Rollback
<1> QED
  BY <1>2, <1>3, <1>4, <1>5, <1>6, <1>7, <1>8, <1>9, <1>11, <1>12 DEF Proceed

\* Every step keeps what the locks give, and the accounts.
LEMMA LockStep ==
  ASSUME LockInv, [RLNext]_rlVars
  PROVE  LockInv' /\ (Accounts => Accounts')
<1>1. ASSUME UNCHANGED vars PROVE Accounts => Accounts'
  BY <1>1, AccountsStand DEF vars, invVars
<1>2. CASE UNCHANGED rlVars
  <2>1. UNCHANGED vars /\ UNCHANGED workerVars
    BY <1>2 DEF rlVars
  <2>2. UNCHANGED invVars /\ UNCHANGED soVars /\ UNCHANGED poVars
    BY <2>1 DEF vars
  <2>3. InvTypeOK' /\ SOTypeOK' /\ DutyInv'
    BY <2>2, ReceivedKept DEF LockInv, InvTypeOK, SOTypeOK, invVars, soVars
  <2>4. ASSUME NEW u \in Worker PROVE WorkerLocks(u)'
    <3>1. Waits(u)
      BY <2>1 DEF workerVars, Waits
    <3> QED
      BY <2>1, <3>1, NothingWritten, LocksSpared DEF LockInv
  <2>5. WorkerTypes'
    BY <2>1 DEF LockInv, WorkerTypes, workerVars
  <2> QED
    BY <1>1, <2>1, <2>3, <2>4, <2>5 DEF LockInv
<1>3. ASSUME NEW t \in Worker,
             \/ \E c \in Call : Begin(t, c)
             \/ Proceed(t)
             \/ Crash(t)
      PROVE  LockInv' /\ (Accounts => Accounts')
  <2>1. CASE \E c \in Call : Begin(t, c)
    BY <1>1, <2>1, BeginLocks DEF Begin
  <2>2. CASE LockOrder(t)
    BY <1>1, <2>2, LockOrderLocks DEF LockOrder
  <2>3. CASE SelectRows(t) \/ CheckLine(t)
    BY <1>1, <2>3, SelectRowsLocks, CheckLineLocks DEF SelectRows, CheckLine
  <2>4. CASE LockNextRow(t)
    BY <1>1, <2>4, LockNextRowLocks DEF LockNextRow
  <2>5. CASE ReadSource(t) \/ GetDest(t) \/ SaveSource(t) \/ SaveDest(t)
    BY <1>1, <2>5, TransferLocks
    DEF ReadSource, GetDest, SaveSource, SaveDest, SaveRow
  <2>6. CASE Commit(t)
    BY <2>6, CommitLocks, CommitAccounts
  <2>7. CASE CheckEmpty(t)
    BY <1>1, <2>7, CheckEmptyLocks DEF CheckEmpty
  <2>8. CASE MarkDeleted(t)
    BY <2>8, MarkDeletedLocks, AccountsStand DEF MarkDeleted
  <2>9. CASE Raise(t) \/ DeadlockVictim(t) \/ Crash(t)
    BY <1>1, <2>9, RollbackLocks DEF Raise, DeadlockVictim, Crash, Rollback
  <2> QED
    BY <1>3, <2>1, <2>2, <2>3, <2>4, <2>5, <2>6, <2>7, <2>8, <2>9 DEF Proceed
<1> QED
  BY <1>2, <1>3 DEF RLNext

LEMMA LockStart == RLInit => LockInv /\ Accounts
<1> SUFFICES ASSUME RLInit PROVE LockInv /\ Accounts
  OBVIOUS
<1>1. SyncInv
  BY SyncInit DEF RLInit
<1>2. WorkerTypes
  <2>1. <<>> \in Lists
    BY EmptySeq DEF Lists
  <2> QED
    BY <2>1 DEF RLInit, WorkerTypes, Statement, NothingRead
<1>3. None \notin Worker
  BY RowLockingAssumption
<1>4. ASSUME NEW t \in Worker PROVE WorkerLocks(t)
  BY <1>3 DEF RLInit, WorkerLocks, Rested
<1>5. StatusTold
  BY DEF RLInit, Init, POInit, StatusTold
<1> QED
  BY <1>1, <1>2, <1>4, <1>5 DEF LockInv, Accounts, SyncInv

(***************************************************************************)
(* Every variable has its type and an idle worker holds nothing, whatever  *)
(* calls race, fail, deadlock or die.                                      *)
(***************************************************************************)
THEOREM WorkersTypeCorrect == RLSpec => []RLTypeOK
<1>1. LockInv => RLTypeOK
  BY DEF LockInv, WorkerTypes, WorkerLocks, Rested, RLTypeOK, Lists
<1> QED
  BY LockStart, LockStep, <1>1, PTL DEF RLSpec

\* A copy that differs from the row it is of, with that row locked.
OnlyTransfersStale ==
  \A t \in Worker, k \in Key :
    row_lock[k] = t /\ local[t][k] # None /\ local[t][k] # CommittedRow(k)
      => Op(t) = "transfer"

(***************************************************************************)
(* Whatever races, the only service that may save a stale copy of a row is *)
(* transfer_inventory: every other one has read each row it saves under    *)
(* the lock of that row, and the row has not changed since.                *)
(***************************************************************************)
THEOREM StaleCopiesOfTransfers == RLSpec => []OnlyTransfersStale
<1>1. LockInv => OnlyTransfersStale
  BY LocksNow DEF OnlyTransfersStale, LockInv, WorkerLocks, Rested, RowsHeld, Fresh
<1> QED
  BY LockStart, LockStep, <1>1, PTL DEF RLSpec

(***************************************************************************)
(* Whatever races, an order is approved by another user than the one who   *)
(* drafted it, no line takes in more than was ordered, and the status of   *)
(* an order tells what has arrived: the lock of the order is enough.       *)
(***************************************************************************)
THEOREM WorkersSeparateDuties ==
  RLSpec => [](SeparationOfDuties /\ NeverOverReceived /\ StatusMatchesReceipts)
<1>1. LockInv /\ Accounts =>
        SeparationOfDuties /\ NeverOverReceived /\ StatusMatchesReceipts
  BY DutySeparates, ToldMatches DEF LockInv, DutyInv, Accounts
<1> QED
  BY LockStart, LockStep, <1>1, PTL DEF RLSpec

(***************************************************************************)
(* Whatever races, the audit table records each dispatch and each receipt  *)
(* once: two workers that serve the same order never both post it.         *)
(***************************************************************************)
THEOREM WorkersAccount ==
  RLSpec => [](DispatchesAccounted /\ ReceiptsAccounted)
<1>1. LockInv /\ Accounts => DispatchesAccounted /\ ReceiptsAccounted
  BY DEF Accounts
<1> QED
  BY LockStart, LockStep, <1>1, PTL DEF RLSpec

-----------------------------------------------------------------------------
(***************************************************************************)
(* The stock.  Without a stale copy each commit writes the tables as a     *)
(* service of SupplySync does.  Whether the service would still find its   *)
(* warehouse is another matter: see WarehouseStands.                       *)
(***************************************************************************)
\* The database refuses what no column can hold.
ColumnsFit ==
  \A k \in Key : /\ Fits(quantity_available[k]) /\ Fits(quantity_reserved[k])
                 /\ Fits(quantity_damaged[k])

\* The bound on the audit table: what each worker may still post.
Load(u) == IF pc[u] = "idle" THEN 0 ELSE Weight(call[u])
Room == Total(ledger) + InFlight <= MaxPosted

StockInv == LockInv /\ SyncInv /\ ColumnsFit /\ Room

LEMMA WeightNat == SOTypeOK => \A c \in Call : Weight(c) \in Nat
<1> SUFFICES ASSUME SOTypeOK, NEW c \in Call PROVE Weight(c) \in Nat
  OBVIOUS
<1>1. c.op = "adjust" => c.q \in Nat
  BY CallKinds, InventoryAssumption DEF AdjustCall, Quantity
<1>2. c.op = "transfer" => 2 * c.q \in Nat
  <2>1. c.op = "transfer" => c.q \in Nat
    BY CallKinds, InventoryAssumption DEF TransferCall, Quantity
  <2> QED
    BY <2>1
<1>3. ASSUME c.op = "dispatch" PROVE Total(so_items[c.o]) \in Nat
  <2>1. so_items[c.o] \in [Product -> Nat]
    BY <1>3, CallOrder DEF SalesOps, SOTypeOK
  <2> QED
    BY <2>1, TotalNat, InventoryAssumption
<1>4. ASSUME c.op = "receive" PROVE Total(Arrival(c.o, c.recv)) \in Nat
  <2>1. Arrival(c.o, c.recv) \in [Key -> Nat]
    BY <1>4, CallOrder, RecvNat, ArrivalNat DEF PurchaseOps
  <2>2. IsFiniteSet(Key)
    BY InventoryAssumption, FS_Product DEF Key
  <2> QED
    BY <2>1, <2>2, TotalNat
<1> QED
  BY <1>1, <1>2, <1>3, <1>4 DEF Weight

LEMMA SameWeight ==
  ASSUME NEW u \in Worker, NEW c \in Call,
         c.op \in OrderOps => OrderExists(c.o),
         SparesSales(u), SparesPurchases(u)
  PROVE  Weight(c)' = Weight(c)
<1>1. CASE c.op = "dispatch"
  <2>1. so_items'[c.o] = so_items[c.o]
    BY <1>1, CallOrder DEF SparesSales, OrderOps, SalesOps, OrderExists
  <2> QED
    BY <1>1, <2>1 DEF Weight
<1>2. CASE c.op = "receive"
  <2>1. /\ po_warehouse'[c.o] = po_warehouse[c.o]
        /\ \A l \in Line : item_product'[<<c.o, l>>] = item_product[<<c.o, l>>]
    BY <1>2, CallOrder DEF SparesPurchases, OrderOps, PurchaseOps, OrderExists
  <2>2. ASSUME NEW p PROVE Arriving(c.o, p, c.recv)' = Arriving(c.o, p, c.recv)
    BY <2>1 DEF Arriving
  <2>3. Arrival(c.o, c.recv)' = Arrival(c.o, c.recv)
    BY <2>1, <2>2 DEF Arrival
  <2> QED
    BY <1>2, <2>3 DEF Weight
<1>3. CASE c.op \notin {"dispatch", "receive"}
  BY <1>3 DEF Weight
<1> QED
  BY <1>1, <1>2, <1>3

\* What others commit leaves what u may post as it is.
LEMMA LoadKept ==
  ASSUME NEW u \in Worker, WorkerLocks(u), Waits(u), Spares(u)
  PROVE  Load(u)' = Load(u)
<1>1. CASE pc[u] = "idle"
  BY <1>1 DEF Load, Waits
<1>2. CASE pc[u] # "idle"
  <2>1. PICK c : c = call[u]
    OBVIOUS
  <2>2. /\ c \in Call /\ call'[u] = c /\ pc'[u] = pc[u]
        /\ c.op \in OrderOps => OrderExists(c.o)
        /\ SparesSales(u) /\ SparesPurchases(u)
    BY <1>2, <2>1 DEF WorkerLocks, Rested, Placed, OrderHeld, Waits, Spares, Op
  <2>3. Weight(c)' = Weight(c)
    BY <2>2, SameWeight
  <2>4. Weight(call[u])' = Weight(c)' /\ Weight(call[u]) = Weight(c)
    <3>1. Weight(call[u])' = Weight(c)'
      BY <2>2 DEF Weight
    <3> QED
      BY <3>1, <2>1
  <2> QED
    BY <2>2, <2>3, <2>4 DEF Load
<1> QED
  BY <1>1, <1>2

LEMMA LedgerTotal ==
  ASSUME NEW f \in [Key \X Posting -> Nat]
  PROVE  Total(f) \in Nat /\ IsFiniteSet(Key \X Posting)
<1> DEFINE A == {"INBOUND"} \cup {"RECEIPT"}
           B == A \cup {"TRANSFER_IN"}
           C == B \cup {"ADJUSTMENT"}
           D == C \cup {"OUTBOUND"}
           E == D \cup {"DISPATCH"}
           F == E \cup {"TRANSFER_OUT"}
           G == F \cup {"DAMAGE_REPORT"}
<1>1. IsFiniteSet(A)
  BY FS_Singleton, FS_AddElement
<1>2. IsFiniteSet(B)
  BY <1>1, FS_AddElement
<1>3. IsFiniteSet(C)
  BY <1>2, FS_AddElement
<1>4. IsFiniteSet(D)
  BY <1>3, FS_AddElement
<1>5. IsFiniteSet(E)
  BY <1>4, FS_AddElement
<1>6. IsFiniteSet(F)
  BY <1>5, FS_AddElement
<1>7. IsFiniteSet(G)
  BY <1>6, FS_AddElement
<1>8. Posting = G
  BY DEF Posting
<1> HIDE DEF A, B, C, D, E, F, G
<1> QED
  BY <1>7, <1>8, InventoryAssumption, FS_Product, TotalNat DEF Key

LoadsSum ==
  /\ \A u \in Worker : Load(u) \in Nat /\ Load(u) <= InFlight
  /\ InFlight \in Nat /\ Total(ledger) \in Nat
  /\ InFlight = Total([u \in Worker |-> Load(u)])

LEMMA LoadsNat == LockInv => LoadsSum
<1> SUFFICES ASSUME LockInv PROVE LoadsSum
  OBVIOUS
<1> DEFINE f == [u \in Worker |-> Load(u)]
<1>1. \A u \in Worker : Load(u) \in Nat
  BY WeightNat, LocksNow DEF Load, LockInv
<1>2. f \in [Worker -> Nat] /\ InFlight = Total(f)
  BY <1>1 DEF InFlight, Load
<1>3. ASSUME NEW u \in Worker PROVE Load(u) <= InFlight
  <2>1. f[u] = Load(u)
    OBVIOUS
  <2> HIDE DEF f
  <2> QED
    BY <1>2, <2>1, TotalBounds, RowLockingAssumption
<1>4. Total(f) \in Nat
  <2> HIDE DEF f
  <2> QED
    BY <1>2, TotalNat, RowLockingAssumption
<1> QED
  BY <1>1, <1>2, <1>3, <1>4, LedgerTotal DEF LoadsSum, LockInv, InvTypeOK

\* Only t changes what it may post.
LEMMA InFlightStep ==
  ASSUME LockInv, LockInv', NEW t \in Worker,
         \A u \in Worker \ {t} : Load(u)' = Load(u)
  PROVE  InFlight' = InFlight - Load(t) + Load(t)' /\ Load(t)' \in Nat
<1> DEFINE f == [u \in Worker |-> Load(u)]
           g == [u \in Worker |-> Load(u)']
<1>1. f \in [Worker -> Nat] /\ InFlight = Total(f)
  BY LoadsNat DEF LoadsSum
<1>2. g \in [Worker -> Nat] /\ InFlight' = Total(g)
  <2>1. LoadsSum'
    BY LoadsNat, PTL
  <2>2. /\ \A u \in Worker : Load(u)' \in Nat
        /\ InFlight' = Total([u \in Worker |-> Load(u)'])
    BY <2>1 DEF LoadsSum, Load
  <2> QED
    BY <2>2
<1>3. f[t] = Load(t) /\ g[t] = Load(t)' /\ \A u \in Worker \ {t} : g[u] = f[u]
  OBVIOUS
<1> HIDE DEF f, g
<1>4. Total(g) = Total(f) - f[t] + g[t]
  BY <1>1, <1>2, <1>3, TotalUpdate, RowLockingAssumption
<1> QED
  BY <1>1, <1>2, <1>3, <1>4

\* The audit table has room for what a call posts.
LEMMA RoomLeft ==
  ASSUME StockInv, NEW t \in Worker, pc[t] # "idle"
  PROVE  /\ Weight(call[t]) \in Nat /\ Total(ledger) \in Nat
         /\ CanPost(Weight(call[t])) /\ Load(t) = Weight(call[t])
<1>1. Load(t) = Weight(call[t])
  BY DEF Load
<1>2. Load(t) \in Nat /\ Load(t) <= InFlight /\ InFlight \in Nat /\ Total(ledger) \in Nat
  BY LoadsNat DEF LoadsSum, StockInv
<1> QED
  BY <1>1, <1>2, InventoryAssumption DEF StockInv, Room, CanPost

\* What is left of the invariant once the step keeps the tables in order.
LEMMA StockLeft ==
  ASSUME StockInv, LockInv', SyncInv', ColumnsFit', NEW t \in Worker, OnlyBy(t),
         \A u \in Worker \ {t} : Spares(u),
         \/ Load(t)' = Load(t) /\ ledger' = ledger
         \/ Load(t)' = 0 /\ Total(ledger)' <= Total(ledger) + Load(t)
         \/ Total(ledger)' + InFlight - Load(t) + Load(t)' <= MaxPosted
  PROVE  StockInv'
<1>1. \A u \in Worker \ {t} : Load(u)' = Load(u)
  BY OthersWait, LoadKept DEF StockInv, LockInv
<1>2. InFlight' = InFlight - Load(t) + Load(t)' /\ Load(t)' \in Nat
  BY <1>1, InFlightStep DEF StockInv
<1>3. InFlight \in Nat /\ Load(t) \in Nat /\ Total(ledger) \in Nat
  BY LoadsNat DEF LoadsSum, StockInv
<1>4. Total(ledger)' \in Nat
  <2>1. LoadsSum'
    BY LoadsNat, PTL
  <2> QED
    BY <2>1 DEF LoadsSum
<1>5. Room'
  BY <1>2, <1>3, <1>4, InventoryAssumption DEF StockInv, Room
<1> QED
  BY <1>5 DEF StockInv

LEMMA SteadyLoad ==
  ASSUME NEW t \in Worker, UNCHANGED vars, call'[t] = call[t],
         pc[t] # "idle", pc'[t] # "idle"
  PROVE  Load(t)' = Load(t)
<1>1. UNCHANGED invVars /\ UNCHANGED soVars /\ UNCHANGED poVars
  BY DEF vars
<1>2. PICK c : c = call[t]
  OBVIOUS
<1>3. Weight(c)' = Weight(c)
  <2>1. ASSUME NEW p PROVE Arriving(c.o, p, c.recv)' = Arriving(c.o, p, c.recv)
    BY <1>1 DEF Arriving, poVars
  <2>2. Arrival(c.o, c.recv)' = Arrival(c.o, c.recv)
    BY <1>1, <2>1 DEF Arrival, poVars
  <2> QED
    BY <1>1, <2>2 DEF Weight, soVars
<1>4. Weight(call[t])' = Weight(c)' /\ Weight(call[t]) = Weight(c)
  BY <1>2 DEF Weight
<1> QED
  BY <1>3, <1>4 DEF Load

\* A statement commits, marks a warehouse, begins or ends a call, or goes on.
LEMMA StepKinds ==
  ASSUME LockInv, NEW t \in Worker,
         (\E c \in Call : Begin(t, c)) \/ Proceed(t) \/ Crash(t)
  PROVE  \/ Commit(t)
         \/ MarkDeleted(t)
         \/ /\ UNCHANGED vars
            /\ \/ \E c \in Call : Begin(t, c)
               \/ Rollback(t)
               \/ pc[t] # "idle" /\ pc'[t] # "idle" /\ call'[t] = call[t]
<1>1. pc \in [Worker -> Statement]
  BY DEF LockInv, WorkerTypes
<1>2. CASE \E c \in Call : Begin(t, c)
  BY <1>2 DEF Begin
<1>3. CASE Commit(t) \/ MarkDeleted(t) \/ Raise(t) \/ DeadlockVictim(t) \/ Crash(t)
  BY <1>3 DEF Raise, DeadlockVictim, Crash, Rollback
<1>4. CASE \/ LockOrder(t) \/ SelectRows(t) \/ CheckLine(t) \/ LockNextRow(t)
           \/ CheckEmpty(t)
  <2>1. ASSUME NEW left PROVE NextStatement(t, left) # "idle"
    BY DEF NextStatement, AfterLocks
  <2> QED
    BY <1>1, <1>4, <2>1
    DEF LockOrder, SelectRows, CheckLine, LockNextRow, CheckEmpty, Goto
<1>5. CASE ReadSource(t) \/ GetDest(t) \/ SaveSource(t) \/ SaveDest(t)
  BY <1>1, <1>5 DEF ReadSource, GetDest, SaveSource, SaveDest, SaveRow, Goto
<1> QED
  BY <1>2, <1>3, <1>4, <1>5 DEF Proceed

\* The statements that commit nothing.
LEMMA StockQuiet ==
  ASSUME StockInv, LockInv', NEW t \in Worker, OnlyBy(t), UNCHANGED vars,
         \/ \E c \in Call : Begin(t, c)
         \/ Rollback(t)
         \/ pc[t] # "idle" /\ pc'[t] # "idle" /\ call'[t] = call[t]
  PROVE  StockInv'
<1>1. SyncInv' /\ ColumnsFit' /\ ledger' = ledger
  BY SyncStutter DEF StockInv, ColumnsFit, vars, invVars
<1>2. \A u \in Worker \ {t} : Spares(u)
  BY NothingWritten
<1>3. InFlight \in Nat /\ Load(t) \in Nat /\ Total(ledger) \in Nat
  BY LoadsNat DEF LoadsSum, StockInv
<1>4. CASE \E c \in Call : Begin(t, c)
  <2>1. PICK c \in Call : Begin(t, c)
    BY <1>4
  <2>2. /\ pc[t] = "idle" /\ CanPost(InFlight + Weight(c)) /\ call'[t] = c
        /\ pc'[t] # "idle" /\ UNCHANGED soVars /\ UNCHANGED poVars
    BY <2>1 DEF Begin, Goto, StockInv, LockInv, WorkerTypes, vars
  <2>3. Weight(c)' = Weight(c)
    <3>1. ASSUME NEW p PROVE Arriving(c.o, p, c.recv)' = Arriving(c.o, p, c.recv)
      BY <2>2 DEF Arriving, poVars
    <3>2. Arrival(c.o, c.recv)' = Arrival(c.o, c.recv)
      BY <2>2, <3>1 DEF Arrival, poVars
    <3> QED
      BY <2>2, <3>2 DEF Weight, soVars
  <2>4. Weight(call[t])' = Weight(c)'
    BY <2>2 DEF Weight
  <2>5. Load(t) = 0 /\ Load(t)' = Weight(c) /\ Weight(c) \in Nat
    BY <2>2, <2>3, <2>4, WeightNat DEF Load, StockInv, LockInv
  <2>6. Total(ledger)' + InFlight - Load(t) + Load(t)' <= MaxPosted
    BY <1>1, <1>3, <2>2, <2>5 DEF CanPost
  <2> QED
    BY <1>1, <1>2, <2>6, StockLeft
<1>5. CASE Rollback(t)
  <2>1. Load(t)' = 0
    BY <1>5, CallEnds DEF Rollback, Load, StockInv, LockInv
  <2> QED
    BY <1>1, <1>2, <1>3, <2>1, StockLeft
<1>6. CASE pc[t] # "idle" /\ pc'[t] # "idle" /\ call'[t] = call[t]
  BY <1>1, <1>2, <1>6, SteadyLoad, StockLeft
<1> QED
  BY <1>4, <1>5, <1>6

-----------------------------------------------------------------------------
(***************************************************************************)
(* The statements that commit.                                             *)
(***************************************************************************)
\* The warehouse that the service looks up is still found.
WarehouseStands(t) ==
  /\ Op(t) \in {"adjust", "create", "draft"} => WarehouseFound(call[t].w)
  /\ Op(t) = "receive" /\ ReceiptLines(t) # {} =>
       WarehouseFound(po_warehouse[call[t].o])

\* The commit of t writes what a call of SupplySync writes.
Serves(t) ==
  /\ SyncWrites
  /\ WarehouseStands(t) => Next
  /\ Total(ledger)' <= Total(ledger) + Load(t)

\* A copy that is saved is the committed row.
LEMMA SavedCurrent ==
  ASSUME LockInv, NoStaleCopy, NEW t \in Worker, Commit(t), NEW k \in Written(t)
  PROVE  /\ k \in Key /\ row_lock[k] = t /\ local[t][k] = CommittedRow(k)
         /\ Op(t) \in {"adjust", "receive", "transfer"} \/ k \in rows
<1>1. k \in Key /\ row_lock[k] = t
  BY CommitLocked
<1>2. RowsHeld(t) /\ StockAllows(t)
  BY CommitKind DEF Commit
<1>3. local[t][k] # None
  BY <1>2 DEF StockAllows
<1>4. k \notin rows => CommittedRow(k) = EmptyRow
  BY <1>1, NoRowEmpty DEF LockInv
<1>5. CASE Op(t) = "transfer"
  BY <1>1, <1>2, <1>3, <1>4, <1>5 DEF NoStaleCopy, RowsHeld, TransferHolds
<1>6. CASE Op(t) # "transfer"
  BY <1>1, <1>2, <1>6 DEF RowsHeld, Fresh
<1> QED
  BY <1>1, <1>5, <1>6

LEMMA CommitWrites ==
  ASSUME StockInv, NoStaleCopy, NEW t \in Worker, Commit(t)
  PROVE  /\ \A k \in Written(t) :
              /\ row_lock[k] = t
              /\ Op(t) \in {"adjust", "receive", "transfer"} \/ k \in rows
              /\ Op(t) = "create" \/ (Op(t) = "adjust" /\ Deducts(call[t].type))
                   => quantity_available[k] + AvailableChange(t, k) >= 0
         /\ rows' = rows \cup Written(t)
         /\ quantity_available' = [k \in Key |-> IF k \in Written(t)
              THEN quantity_available[k] + AvailableChange(t, k) ELSE quantity_available[k]]
         /\ quantity_reserved' = [k \in Key |-> IF k \in Written(t)
              THEN quantity_reserved[k] + ReservedChange(t, k) ELSE quantity_reserved[k]]
         /\ quantity_damaged' = [k \in Key |-> IF k \in Written(t)
              THEN quantity_damaged[k] + DamagedChange(t, k) ELSE quantity_damaged[k]]
         /\ ColumnsFit'
<1>1. pc[t] = "commit" /\ StockAllows(t)
  BY DEF Commit
<1>2. Written(t) \subseteq Key
  BY <1>1, WrittenKeys DEF StockInv
<1>3. ASSUME NEW k \in Written(t)
      PROVE  /\ row_lock[k] = t
             /\ Op(t) \in {"adjust", "receive", "transfer"} \/ k \in rows
             /\ Saved(t, k).available = quantity_available[k] + AvailableChange(t, k)
             /\ Saved(t, k).reserved = quantity_reserved[k] + ReservedChange(t, k)
             /\ Saved(t, k).damaged = quantity_damaged[k] + DamagedChange(t, k)
  <2>1. /\ row_lock[k] = t /\ local[t][k] = CommittedRow(k)
        /\ Op(t) \in {"adjust", "receive", "transfer"} \/ k \in rows
    BY SavedCurrent DEF StockInv
  <2> QED
    BY <2>1 DEF Saved, CommittedRow
<1>4. ASSUME NEW k \in Written(t)
      PROVE  /\ Fits(Saved(t, k).available) /\ Fits(Saved(t, k).reserved)
             /\ Fits(Saved(t, k).damaged)
             /\ Op(t) = "create" \/ (Op(t) = "adjust" /\ Deducts(call[t].type))
                  => Saved(t, k).available >= 0
  BY <1>1 DEF StockAllows
<1>5. /\ rows' = rows \cup Written(t)
      /\ quantity_available' = [k \in Key |-> IF k \in Written(t)
           THEN Saved(t, k).available ELSE quantity_available[k]]
      /\ quantity_reserved' = [k \in Key |-> IF k \in Written(t)
           THEN Saved(t, k).reserved ELSE quantity_reserved[k]]
      /\ quantity_damaged' = [k \in Key |-> IF k \in Written(t)
           THEN Saved(t, k).damaged ELSE quantity_damaged[k]]
  BY DEF Commit
<1>6. ColumnsFit'
  BY <1>2, <1>4, <1>5 DEF StockInv, ColumnsFit, Fits
<1>7. /\ quantity_available' = [k \in Key |-> IF k \in Written(t)
           THEN quantity_available[k] + AvailableChange(t, k) ELSE quantity_available[k]]
      /\ quantity_reserved' = [k \in Key |-> IF k \in Written(t)
           THEN quantity_reserved[k] + ReservedChange(t, k) ELSE quantity_reserved[k]]
      /\ quantity_damaged' = [k \in Key |-> IF k \in Written(t)
           THEN quantity_damaged[k] + DamagedChange(t, k) ELSE quantity_damaged[k]]
  BY <1>3, <1>5
<1> QED
  BY <1>3, <1>4, <1>5, <1>6, <1>7

LEMMA CommitAdjust ==
  ASSUME StockInv, NoStaleCopy, NEW t \in Worker, Commit(t), Op(t) = "adjust"
  PROVE  Serves(t)
<1> DEFINE c == call[t]
           k == <<c.p, c.w>>
<1>1. /\ c \in Call /\ Op(t) = c.op /\ UNCHANGED <<soVars, poVars>>
      /\ UNCHANGED deleted /\ ledger' = CallPosted(t)
      /\ pc[t] = "commit"
  BY CommitKind DEF StockInv
<1>2. /\ c.p \in Product /\ c.w \in Warehouse /\ c.type \in TransactionType
      /\ c.q \in Quantity /\ c.q \in Nat /\ k \in Key
  BY <1>1, CallKinds, InventoryAssumption DEF AdjustCall, Key, Quantity
<1>3. WarehouseStands(t) => WarehouseFound(c.w)
  BY DEF WarehouseStands
<1>4. Written(t) = {k}
  BY DEF Written, Adjusted
<1>5. /\ AvailableChange(t, k) = AvailableDelta(c.type, c.q)
      /\ ReservedChange(t, k) = 0 /\ DamagedChange(t, k) = DamagedDelta(c.type, c.q)
  BY DEF AvailableChange, ReservedChange, DamagedChange
<1>6. AvailableDelta(c.type, c.q) \in Int /\ DamagedDelta(c.type, c.q) \in Int
  BY <1>2 DEF AvailableDelta, DamagedDelta
<1>7. /\ quantity_available \in [Key -> Int] /\ quantity_reserved \in [Key -> Int]
      /\ quantity_damaged \in [Key -> Int] /\ ledger \in [Key \X Posting -> Nat]
  BY DEF StockInv, LockInv, InvTypeOK
<1> HIDE DEF c, k
<1>8. /\ Deducts(c.type) => quantity_available[k] + AvailableDelta(c.type, c.q) >= 0
      /\ rows' = rows \cup {k}
      /\ quantity_available' = [j \in Key |-> IF j \in {k}
           THEN quantity_available[j] + AvailableChange(t, j) ELSE quantity_available[j]]
      /\ quantity_reserved' = [j \in Key |-> IF j \in {k}
           THEN quantity_reserved[j] + ReservedChange(t, j) ELSE quantity_reserved[j]]
      /\ quantity_damaged' = [j \in Key |-> IF j \in {k}
           THEN quantity_damaged[j] + DamagedChange(t, j) ELSE quantity_damaged[j]]
      /\ ColumnsFit'
  BY <1>4, <1>5, CommitWrites DEF c
<1>9. /\ quantity_available' =
           [quantity_available EXCEPT ![k] = @ + AvailableDelta(c.type, c.q)]
      /\ quantity_damaged' =
           [quantity_damaged EXCEPT ![k] = @ + DamagedDelta(c.type, c.q)]
      /\ quantity_reserved' = quantity_reserved
  <2> DEFINE a == AvailableDelta(c.type, c.q)
             d == DamagedDelta(c.type, c.q)
  <2>1. /\ a \in Int /\ d \in Int /\ AvailableChange(t, k) = a
        /\ ReservedChange(t, k) = 0 /\ DamagedChange(t, k) = d
    BY <1>5, <1>6
  <2> HIDE DEF a, d
  <2>2. quantity_available' = [quantity_available EXCEPT ![k] = @ + a]
    BY <1>2, <1>7, <1>8, <2>1
  <2>3. quantity_damaged' = [quantity_damaged EXCEPT ![k] = @ + d]
    BY <1>2, <1>7, <1>8, <2>1
  <2>4. quantity_reserved' = quantity_reserved
    BY <1>2, <1>7, <1>8, <2>1
  <2> QED
    BY <2>2, <2>3, <2>4 DEF a, d
<1>10. Deducts(c.type) => Covers(k, c.q)
  BY <1>2, <1>7, <1>8 DEF Deducts, Covers, AvailableDelta
<1>11. /\ Fits(quantity_available[k] + AvailableDelta(c.type, c.q))
       /\ Fits(quantity_damaged[k] + DamagedDelta(c.type, c.q))
  BY <1>2, <1>7, <1>8, <1>9 DEF ColumnsFit, Fits
<1>12. ledger' = IF c.type = "TRANSFER" THEN ledger
                 ELSE [ledger EXCEPT ![<<k, c.type>>] = @ + c.q]
  BY <1>1 DEF CallPosted, c, k, Adjusted
<1>13. /\ Weight(c) = IF c.type = "TRANSFER" THEN 0 ELSE c.q
       /\ CanPost(Weight(c)) /\ Load(t) = Weight(c) /\ Total(ledger) \in Nat
  <2>1. Weight(c) = IF c.type = "TRANSFER" THEN 0 ELSE c.q
    BY <1>1 DEF Weight
  <2> QED
    BY <1>1, <2>1, RoomLeft DEF c
<1>14. StockAdjusted(c.p, c.w, c.type, c.q)
  <2>1. c.type # "TRANSFER" => CanPost(c.q)
    BY <1>13
  <2> QED
    BY <1>1, <1>8, <1>9, <1>10, <1>11, <1>12, <2>1
    DEF StockAdjusted, RowCreated, k
<1>15. SyncWrites /\ (WarehouseStands(t) => Next)
  <2>1. InvWrites
    BY <1>2, <1>14 DEF InvWrites
  <2>2. WarehouseStands(t) => InvNext
    BY <1>2, <1>3, <1>14 DEF InvNext, AdjustInventory
  <2> QED
    BY <1>1, <2>1, <2>2 DEF SyncWrites, Next
<1>16. Total(ledger)' <= Total(ledger) + Load(t)
  <2>1. CASE c.type = "TRANSFER"
    BY <1>12, <1>13, <2>1
  <2>2. CASE c.type # "TRANSFER"
    <3>1. <<k, c.type>> \in Key \X Posting
      BY <1>2, <2>2 DEF TransactionType, Posting
    <3>2. ledger' = [ledger EXCEPT ![<<k, c.type>>] = @ + c.q]
      BY <1>12, <2>2
    <3>3. ledger' \in [Key \X Posting -> Nat] /\ Total(ledger') = Total(ledger) + c.q
      <4>1. PICK D, x, f, g : /\ D = Key \X Posting /\ x = <<k, c.type>>
                             /\ f = ledger /\ g = ledger'
        OBVIOUS
      <4>2. PICK q \in Nat : q = c.q
        BY <1>2
      <4>3. f \in [D -> Nat] /\ x \in D /\ IsFiniteSet(D)
        BY <1>7, <3>1, <4>1, LedgerTotal
      <4>4. g = [f EXCEPT ![x] = @ + q]
        BY <3>2, <4>1, <4>2
      <4>5. /\ g \in [D -> Nat] /\ g[x] = f[x] + q
            /\ \A y \in D \ {x} : g[y] = f[y]
        BY ONLY <4>3, <4>4, q \in Nat
      <4>6. Total(g) = Total(f) + q
        BY ONLY <4>3, <4>5, q \in Nat, TotalRaised
      <4> QED
        BY <4>1, <4>2, <4>5, <4>6
    <3> QED
      BY <1>2, <1>13, <2>2, <3>3
  <2> QED
    BY <2>1, <2>2
<1> QED
  BY <1>15, <1>16 DEF Serves

LEMMA CommitTransfer ==
  ASSUME StockInv, NoStaleCopy, NEW t \in Worker, Commit(t), Op(t) = "transfer"
  PROVE  Serves(t)
<1> DEFINE c == call[t]
           i == <<c.p, c.s>>
           j == <<c.p, c.d>>
<1>1. /\ c \in Call /\ Op(t) = c.op /\ UNCHANGED <<soVars, poVars>>
      /\ RowsHeld(t) /\ UNCHANGED deleted /\ ledger' = CallPosted(t)
      /\ pc[t] = "commit"
  BY CommitKind DEF StockInv
<1>2. /\ c.p \in Product /\ c.s \in Warehouse /\ c.d \in Warehouse /\ c.s # c.d
      /\ c.q \in Quantity /\ c.q \in Nat /\ i \in Key /\ j \in Key /\ i # j
  BY <1>1, CallKinds, InventoryAssumption DEF TransferCall, Key, Quantity
<1>3. Written(t) = {i, j} /\ Source(t) = i /\ Dest(t) = j
  BY DEF Written, Source, Dest
<1>4. i \in rows /\ Covers(i, c.q)
  <2>1. i \in rows /\ local[t][i].available >= c.q
    BY <1>1, <1>3 DEF RowsHeld, TransferHolds
  <2>2. local[t][i] = CommittedRow(i)
    BY <1>3, SavedCurrent DEF StockInv
  <2> QED
    BY <2>1, <2>2 DEF CommittedRow, Covers
<1>5. /\ AvailableChange(t, i) = -c.q /\ AvailableChange(t, j) = c.q
      /\ \A k \in {i, j} : ReservedChange(t, k) = 0 /\ DamagedChange(t, k) = 0
  BY <1>2, <1>3 DEF AvailableChange, ReservedChange, DamagedChange
<1>6. /\ quantity_available \in [Key -> Int] /\ quantity_reserved \in [Key -> Int]
      /\ quantity_damaged \in [Key -> Int] /\ ledger \in [Key \X Posting -> Nat]
  BY DEF StockInv, LockInv, InvTypeOK
<1> HIDE DEF c, i, j
<1>7. /\ rows' = rows \cup {i, j}
      /\ quantity_available' = [k \in Key |-> IF k \in {i, j}
           THEN quantity_available[k] + AvailableChange(t, k) ELSE quantity_available[k]]
      /\ quantity_reserved' = [k \in Key |-> IF k \in {i, j}
           THEN quantity_reserved[k] + ReservedChange(t, k) ELSE quantity_reserved[k]]
      /\ quantity_damaged' = [k \in Key |-> IF k \in {i, j}
           THEN quantity_damaged[k] + DamagedChange(t, k) ELSE quantity_damaged[k]]
      /\ ColumnsFit'
  BY <1>3, CommitWrites
<1>8. /\ quantity_available' =
           [quantity_available EXCEPT ![i] = @ - c.q, ![j] = @ + c.q]
      /\ quantity_damaged' = quantity_damaged
      /\ quantity_reserved' = quantity_reserved
  <2>1. /\ quantity_available' = [k \in Key |->
             IF k = i THEN quantity_available[k] - c.q
             ELSE IF k = j THEN quantity_available[k] + c.q
             ELSE quantity_available[k]]
        /\ quantity_damaged' = [k \in Key |-> quantity_damaged[k]]
        /\ quantity_reserved' = [k \in Key |-> quantity_reserved[k]]
    BY <1>2, <1>5, <1>6, <1>7
  <2> QED
    BY <1>2, <1>6, <2>1
<1>9. Fits(quantity_available[j] + c.q)
  BY <1>2, <1>6, <1>7, <1>8 DEF ColumnsFit, Fits
<1>10. rows' = rows \cup {j}
  BY <1>4, <1>7
<1>11. ledger' = [ledger EXCEPT ![<<i, "TRANSFER_OUT">>] = @ + c.q,
                                ![<<j, "TRANSFER_IN">>] = @ + c.q]
  BY <1>1 DEF CallPosted, TransferPosted, c, i, j
<1>12. /\ CanPost(2 * c.q) /\ Load(t) = 2 * c.q /\ Total(ledger) \in Nat
  <2>1. Weight(c) = 2 * c.q
    BY <1>1 DEF Weight
  <2> QED
    BY <1>1, <2>1, RoomLeft DEF c
<1>13. TransferInventory(c.p, c.s, c.d, c.q)
  BY <1>1, <1>2, <1>4, <1>8, <1>9, <1>10, <1>11, <1>12
  DEF TransferInventory, RowCreated, Transferred, TransferPosted, i, j
<1>14. Next
  BY <1>1, <1>2, <1>13 DEF Next, InvNext
<1>15. Total(ledger)' <= Total(ledger) + Load(t)
  <2>1. PICK D, x, y, f, g, m :
          /\ D = Key \X Posting /\ f = ledger /\ g = ledger'
          /\ x = <<i, "TRANSFER_OUT">> /\ y = <<j, "TRANSFER_IN">>
          /\ m = [ledger EXCEPT ![x] = @ + c.q]
    OBVIOUS
  <2>2. PICK q \in Nat : q = c.q
    BY <1>2
  <2>3. f \in [D -> Nat] /\ x \in D /\ y \in D /\ IsFiniteSet(D)
    BY <1>2, <1>6, <2>1, LedgerTotal DEF Posting
  <2>4. m = [f EXCEPT ![x] = @ + q] /\ g = [m EXCEPT ![y] = @ + q]
    BY <1>11, <2>1, <2>2
  <2>5. /\ m \in [D -> Nat] /\ m[x] = f[x] + q
        /\ \A z \in D \ {x} : m[z] = f[z]
    BY ONLY <2>3, <2>4, q \in Nat
  <2>6. /\ g \in [D -> Nat] /\ g[y] = m[y] + q
        /\ \A z \in D \ {y} : g[z] = m[z]
    BY ONLY <2>3, <2>4, <2>5, q \in Nat
  <2>7. Total(m) = Total(f) + q
    BY ONLY <2>3, <2>5, q \in Nat, TotalRaised
  <2>8. Total(g) = Total(m) + q
    BY ONLY <2>3, <2>5, <2>6, q \in Nat, TotalRaised
  <2> QED
    BY <1>12, <2>1, <2>2, <2>7, <2>8
<1> QED
  BY <1>14, <1>15, NextWrites DEF Serves

\* Posting g on top of the audit table raises its total by that of g.
PostedOn(kind, g, f, h) ==
  \A x \in Key \X Posting : /\ x[2] = kind => h[x] = f[x] + g[x[1]]
                            /\ x[2] # kind => h[x] = f[x]
Ledgers == [Key \X Posting -> Nat]

LEMMA PostedMore ==
  ASSUME NEW f \in Ledgers, NEW h \in Ledgers, NEW g \in [Key -> Nat],
         NEW kind \in Posting, PostedOn(kind, g, f, h)
  PROVE  Total(h) = Total(f) + Total(g)
<1> DEFINE b == Mirror(Key, Posting, kind, g)
<1>2. /\ b \in [Key \X Posting -> Nat]
      /\ \A x \in Key \X Posting : b[x] = IF x[2] = kind THEN g[x[1]] ELSE 0
  BY DEF Mirror
<1>3. IsFiniteSet(Key)
  BY InventoryAssumption, FS_Product DEF Key
<1>4. Total(b) = Total(g)
  BY <1>3, MirrorTotal
<1> HIDE DEF b
<1>5. Total(h) = Total(f) + Total(b)
  <2>1. PICK D : D = Key \X Posting
    OBVIOUS
  <2>2. /\ f \in [D -> Nat] /\ b \in [D -> Nat] /\ h \in [D -> Nat]
        /\ \A x \in D : h[x] = f[x] + b[x]
    BY <1>2, <2>1 DEF PostedOn, Ledgers
  <2>3. IsFiniteSet(D)
    BY <1>2, <2>1, LedgerTotal
  <2> QED
    BY ONLY <2>2, <2>3, TotalSum
<1> QED
  BY <1>4, <1>5

\* The rows of a warehouse that the items of an order are in.
Stocked(items, w) == {k \in Key : k[2] = w /\ items[k[1]] > 0}

LEMMA ItemsWritten ==
  ASSUME NEW t \in Worker, Op(t) \in {"create", "dispatch", "cancel"}
  PROVE  Written(t) = Stocked(CallItems(t), CallWarehouse(t))
BY DEF Written, Stocked

\* A column that changes by the items where the items are, changes by them
\* everywhere in the warehouse.
LEMMA ColumnLowered ==
  ASSUME NEW items \in [Product -> Nat], NEW w, NEW f \in [Key -> Int],
         NEW g, g = [k \in Key |-> IF k \in Stocked(items, w)
                       THEN f[k] + (-items[k[1]]) ELSE f[k]]
  PROVE  g = Lowered(f, items, w)
<1>1. \A k \in Key : items[k[1]] \in Nat /\ f[k] \in Int
  BY KeyPair
<1>2. ASSUME NEW k \in Key
      PROVE  (IF k \in Stocked(items, w) THEN f[k] + (-items[k[1]]) ELSE f[k])
               = IF k[2] = w THEN f[k] - items[k[1]] ELSE f[k]
  BY <1>1 DEF Stocked
<1> QED
  BY <1>2 DEF Lowered

LEMMA ColumnRaised ==
  ASSUME NEW items \in [Product -> Nat], NEW w, NEW f \in [Key -> Int],
         NEW g, g = [k \in Key |-> IF k \in Stocked(items, w)
                       THEN f[k] + items[k[1]] ELSE f[k]]
  PROVE  g = Raised(f, items, w)
<1>1. \A k \in Key : items[k[1]] \in Nat /\ f[k] \in Int
  BY KeyPair
<1>2. ASSUME NEW k \in Key
      PROVE  (IF k \in Stocked(items, w) THEN f[k] + items[k[1]] ELSE f[k])
               = IF k[2] = w THEN f[k] + items[k[1]] ELSE f[k]
  BY <1>1 DEF Stocked
<1> QED
  BY <1>2 DEF Raised

LEMMA CommitCreate ==
  ASSUME StockInv, NoStaleCopy, NEW t \in Worker, Commit(t), Op(t) = "create"
  PROVE  Serves(t)
<1> DEFINE items == CallItems(t)
           w == CallWarehouse(t)
<1>1. /\ call[t] \in Call /\ Op(t) = call[t].op /\ UNCHANGED poVars
      /\ SalesOrderWritten(t)
      /\ UNCHANGED deleted /\ ledger' = CallPosted(t) /\ pc[t] = "commit"
  BY CommitKind DEF StockInv, SalesOps
<1>2. /\ call[t] \in CreateCall /\ items = call[t].items /\ w = call[t].w
      /\ items \in [Product -> 0..MaxInteger] /\ w \in Warehouse
      /\ items \in [Product -> Nat]
  BY <1>1, CallKinds, InventoryAssumption DEF CreateCall, CallItems, CallWarehouse
<1>3. PICK o \in SalesOrder :
        /\ so_status[o] = "NONE"
        /\ so_status' = [so_status EXCEPT ![o] = "CONFIRMED"]
        /\ so_warehouse' = [so_warehouse EXCEPT ![o] = w]
        /\ so_items' = [so_items EXCEPT ![o] = items]
  BY <1>1, <1>2 DEF SalesOrderWritten
<1>4. /\ quantity_available \in [Key -> Int] /\ quantity_reserved \in [Key -> Int]
      /\ quantity_damaged \in [Key -> Int]
  BY DEF StockInv, LockInv, InvTypeOK
<1>5. Written(t) = Stocked(items, w)
  BY ItemsWritten
<1>6. \A k : /\ AvailableChange(t, k) = -items[k[1]]
             /\ ReservedChange(t, k) = items[k[1]] /\ DamagedChange(t, k) = 0
  BY DEF AvailableChange, ReservedChange, DamagedChange
<1> HIDE DEF items, w
<1>7. /\ \A k \in Stocked(items, w) :
           k \in rows /\ quantity_available[k] + (-items[k[1]]) >= 0
      /\ rows' = rows \cup Stocked(items, w)
      /\ quantity_available' = [k \in Key |-> IF k \in Stocked(items, w)
           THEN quantity_available[k] + (-items[k[1]]) ELSE quantity_available[k]]
      /\ quantity_reserved' = [k \in Key |-> IF k \in Stocked(items, w)
           THEN quantity_reserved[k] + items[k[1]] ELSE quantity_reserved[k]]
      /\ quantity_damaged' = [k \in Key |-> IF k \in Stocked(items, w)
           THEN quantity_damaged[k] + 0 ELSE quantity_damaged[k]]
      /\ ColumnsFit'
  BY <1>5, <1>6, CommitWrites
<1>8. /\ rows' = rows
      /\ quantity_available' = Lowered(quantity_available, items, w)
      /\ quantity_reserved' = Raised(quantity_reserved, items, w)
      /\ quantity_damaged' = quantity_damaged
  <2>1. rows' = rows
    BY <1>7
  <2>2. quantity_available' = Lowered(quantity_available, items, w)
    BY <1>2, <1>4, <1>7, ColumnLowered
  <2>3. quantity_reserved' = Raised(quantity_reserved, items, w)
    BY <1>2, <1>4, <1>7, ColumnRaised
  <2>4. quantity_damaged' = quantity_damaged
    BY <1>4, <1>7
  <2> QED
    BY <2>1, <2>2, <2>3, <2>4
<1>9. ASSUME NEW p \in Product
      PROVE  /\ items[p] > 0 => <<p, w>> \in rows /\ Covers(<<p, w>>, items[p])
             /\ Fits(quantity_reserved[<<p, w>>] + items[p])
  <2>1. <<p, w>> \in Key /\ items[p] \in Nat /\ quantity_available[<<p, w>>] \in Int
    BY <1>2, <1>4 DEF Key
  <2>2. quantity_reserved'[<<p, w>>] = quantity_reserved[<<p, w>>] + items[p]
    BY <1>8, <2>1 DEF Raised
  <2>3. Fits(quantity_reserved[<<p, w>>] + items[p])
    BY <1>7, <2>1, <2>2 DEF ColumnsFit, Fits
  <2>4. ASSUME items[p] > 0
        PROVE  <<p, w>> \in rows /\ Covers(<<p, w>>, items[p])
    <3>1. <<p, w>> \in Stocked(items, w)
      BY <2>1, <2>4 DEF Stocked
    <3>2. /\ <<p, w>> \in rows
          /\ quantity_available[<<p, w>>] + (-items[p]) >= 0
      BY <1>7, <3>1
    <3> QED
      BY <2>1, <3>2 DEF Covers
  <2> QED
    BY <2>3, <2>4
<1>10. ledger' = ledger
  BY <1>1 DEF CallPosted
<1>11. SalesOrderCreated(o, w, items)
  <2>1. InStock(items, w)
    BY <1>9 DEF InStock
  <2> QED
    BY <1>1, <1>3, <1>8, <1>9, <1>10, <2>1 DEF SalesOrderCreated
<1>12. SyncWrites /\ (WarehouseStands(t) => Next)
  <2>1. SOWrites
    BY <1>2, <1>11 DEF SOWrites
  <2>2. WarehouseStands(t) => SONext
    BY <1>2, <1>11 DEF WarehouseStands, CreateSalesOrder, SONext
  <2> QED
    BY <1>1, <2>1, <2>2 DEF SyncWrites, Next
<1>13. Load(t) \in Nat /\ Total(ledger) \in Nat
  BY <1>1, RoomLeft
<1> QED
  BY <1>10, <1>12, <1>13 DEF Serves

\* A commit that writes no row and posts nothing.
LEMMA NothingCommitted ==
  ASSUME LockInv, NEW t \in Worker, Commit(t), Written(t) = {}, ledger' = ledger
  PROVE  UNCHANGED invVars
<1>1. /\ quantity_available \in [Key -> Int] /\ quantity_reserved \in [Key -> Int]
      /\ quantity_damaged \in [Key -> Int]
  BY DEF LockInv, InvTypeOK
<1>2. /\ rows' = rows /\ deleted' = deleted
      /\ quantity_available' = [k \in Key |-> quantity_available[k]]
      /\ quantity_reserved' = [k \in Key |-> quantity_reserved[k]]
      /\ quantity_damaged' = [k \in Key |-> quantity_damaged[k]]
  BY DEF Commit
<1> QED
  BY <1>1, <1>2 DEF invVars

LEMMA CommitDispatch ==
  ASSUME StockInv, NoStaleCopy, NEW t \in Worker, Commit(t), Op(t) = "dispatch"
  PROVE  Serves(t)
<1> DEFINE o == call[t].o
           items == so_items[o]
           w == so_warehouse[o]
<1>1. /\ o \in SalesOrder /\ CallItems(t) = items /\ CallWarehouse(t) = w
      /\ items \in [Product -> Nat] /\ w \in Warehouse
      /\ StatusAllows(t) /\ Op(t) = call[t].op /\ pc[t] = "commit"
      /\ so_status' = [so_status EXCEPT ![o] = "DISPATCHED"]
      /\ UNCHANGED <<so_warehouse, so_items>> /\ UNCHANGED poVars
      /\ UNCHANGED deleted /\ ledger' = CallPosted(t)
  BY SalesOrderCommit DEF StockInv, SalesOps
<1>2. so_status[o] \in Dispatchable
  BY <1>1 DEF StatusAllows
<1>3. /\ quantity_available \in [Key -> Int] /\ quantity_reserved \in [Key -> Int]
      /\ quantity_damaged \in [Key -> Int] /\ ledger \in [Key \X Posting -> Nat]
  BY DEF StockInv, LockInv, InvTypeOK
<1>4. Written(t) = Stocked(items, w)
  BY <1>1, ItemsWritten
<1>5. \A k : /\ AvailableChange(t, k) = 0 /\ DamagedChange(t, k) = 0
             /\ ReservedChange(t, k) = -items[k[1]]
  BY <1>1 DEF AvailableChange, ReservedChange, DamagedChange
<1>6. CanPost(Total(items)) /\ Load(t) = Total(items) /\ Total(ledger) \in Nat
  <2>1. Weight(call[t]) = Total(items)
    BY <1>1 DEF Weight
  <2> QED
    BY <1>1, <2>1, RoomLeft
<1>7. ledger' = DispatchPosted(items, w)
  BY <1>1 DEF CallPosted
<1> HIDE DEF o, items, w
<1>8. /\ \A k \in Stocked(items, w) : k \in rows
      /\ rows' = rows \cup Stocked(items, w)
      /\ quantity_available' = [k \in Key |-> IF k \in Stocked(items, w)
           THEN quantity_available[k] + 0 ELSE quantity_available[k]]
      /\ quantity_reserved' = [k \in Key |-> IF k \in Stocked(items, w)
           THEN quantity_reserved[k] + (-items[k[1]]) ELSE quantity_reserved[k]]
      /\ quantity_damaged' = [k \in Key |-> IF k \in Stocked(items, w)
           THEN quantity_damaged[k] + 0 ELSE quantity_damaged[k]]
  BY <1>4, <1>5, CommitWrites
<1>9. rows' = rows
  BY <1>8
<1>10. quantity_available' = quantity_available
  BY <1>3, <1>8
<1>11. quantity_reserved' = Lowered(quantity_reserved, items, w)
  BY <1>1, <1>3, <1>8, ColumnLowered
<1>12. quantity_damaged' = quantity_damaged
  BY <1>3, <1>8
<1>13. DispatchSalesOrder(o)
  BY <1>1, <1>2, <1>6, <1>7, <1>9, <1>10, <1>11, <1>12
  DEF DispatchSalesOrder, items, w
<1>14. Next
  BY <1>1, <1>13 DEF Next, SONext
<1>15. Total(ledger') = Total(ledger) + Total(items)
  <2> DEFINE g == Mirror(Product, Warehouse, w, items)
  <2>1. /\ g \in [Key -> Nat]
        /\ \A k \in Key : g[k] = IF k[2] = w THEN items[k[1]] ELSE 0
    BY <1>1 DEF Mirror, Key
  <2>2. Total(g) = Total(items)
    BY <1>1, InventoryAssumption, MirrorTotal
  <2> HIDE DEF g
  <2>3. ASSUME NEW x \in Key \X Posting
        PROVE  /\ ledger'[x] \in Nat
               /\ x[2] = "DISPATCH" => ledger'[x] = ledger[x] + g[x[1]]
               /\ x[2] # "DISPATCH" => ledger'[x] = ledger[x]
    <3>1. ledger[x] \in Nat /\ x[1] \in Key /\ g[x[1]] \in Nat
      BY <1>3, <2>1
    <3>2. ledger'[x] = IF x[1][2] = w /\ x[2] = "DISPATCH"
                       THEN ledger[x] + items[x[1][1]] ELSE ledger[x]
      BY <1>7 DEF DispatchPosted
    <3> QED
      BY <2>1, <3>1, <3>2
  <2>4. ledger' \in Ledgers
    <3>1. ledger' = [x \in Key \X Posting |-> ledger'[x]]
      BY <1>7 DEF DispatchPosted
    <3> QED
      BY <2>3, <3>1 DEF Ledgers
  <2>5. "DISPATCH" \in Posting
    BY DEF Posting
  <2>6. PostedOn("DISPATCH", g, ledger, ledger')
    BY <2>3 DEF PostedOn
  <2>7. g \in [Key -> Nat] /\ ledger \in Ledgers
    BY <1>3, <2>1 DEF Ledgers
  <2>8. Total(ledger') = Total(ledger) + Total(g)
    BY ONLY <2>4, <2>5, <2>6, <2>7, PostedMore
  <2> QED
    BY <2>2, <2>8
<1>16. Total(ledger') <= Total(ledger) + Load(t)
  <2>1. Total(items) \in Nat
    BY <1>1, InventoryAssumption, TotalNat
  <2> QED
    BY <1>6, <1>15, <2>1
<1> QED
  BY <1>14, <1>16, NextWrites DEF Serves

LEMMA CommitDeliver ==
  ASSUME StockInv, NoStaleCopy, NEW t \in Worker, Commit(t), Op(t) = "deliver"
  PROVE  Serves(t)
<1> DEFINE o == call[t].o
<1>1. /\ o \in SalesOrder /\ StatusAllows(t) /\ pc[t] = "commit"
      /\ so_status' = [so_status EXCEPT ![o] = "DELIVERED"]
      /\ UNCHANGED <<so_warehouse, so_items>> /\ UNCHANGED poVars
      /\ UNCHANGED deleted /\ ledger' = CallPosted(t)
  BY SalesOrderCommit DEF StockInv, SalesOps
<1>2. so_status[o] = "DISPATCHED"
  BY <1>1 DEF StatusAllows
<1>3. ledger' = ledger /\ Written(t) = {}
  BY <1>1 DEF CallPosted, Written
<1>4. UNCHANGED invVars
  BY <1>1, <1>3, NothingCommitted DEF StockInv
<1>5. Next
  BY <1>1, <1>2, <1>4 DEF Next, SONext, DeliverSalesOrder
<1>6. Load(t) \in Nat /\ Total(ledger) \in Nat
  BY <1>1, RoomLeft
<1> QED
  BY <1>3, <1>5, <1>6, NextWrites DEF Serves

LEMMA CommitCancel ==
  ASSUME StockInv, NoStaleCopy, NEW t \in Worker, Commit(t), Op(t) = "cancel"
  PROVE  Serves(t)
<1> DEFINE o == call[t].o
           items == so_items[o]
           w == so_warehouse[o]
<1>1. /\ o \in SalesOrder /\ CallItems(t) = items /\ CallWarehouse(t) = w
      /\ items \in [Product -> Nat] /\ w \in Warehouse
      /\ StatusAllows(t) /\ pc[t] = "commit"
      /\ so_status' = [so_status EXCEPT ![o] = "CANCELLED"]
      /\ UNCHANGED <<so_warehouse, so_items>> /\ UNCHANGED poVars
      /\ UNCHANGED deleted /\ ledger' = CallPosted(t)
  BY SalesOrderCommit DEF StockInv, SalesOps
<1>2. so_status[o] \in Cancellable
  BY <1>1 DEF StatusAllows
<1>3. /\ quantity_available \in [Key -> Int] /\ quantity_reserved \in [Key -> Int]
      /\ quantity_damaged \in [Key -> Int]
  BY DEF StockInv, LockInv, InvTypeOK
<1>4. Written(t) = Stocked(items, w)
  BY <1>1, ItemsWritten
<1>5. \A k : /\ AvailableChange(t, k) = items[k[1]] /\ DamagedChange(t, k) = 0
             /\ ReservedChange(t, k) = -items[k[1]]
  BY <1>1 DEF AvailableChange, ReservedChange, DamagedChange
<1>6. ledger' = ledger
  BY <1>1 DEF CallPosted
<1> HIDE DEF o, items, w
<1>7. /\ \A k \in Stocked(items, w) : k \in rows
      /\ rows' = rows \cup Stocked(items, w)
      /\ quantity_available' = [k \in Key |-> IF k \in Stocked(items, w)
           THEN quantity_available[k] + items[k[1]] ELSE quantity_available[k]]
      /\ quantity_reserved' = [k \in Key |-> IF k \in Stocked(items, w)
           THEN quantity_reserved[k] + (-items[k[1]]) ELSE quantity_reserved[k]]
      /\ quantity_damaged' = [k \in Key |-> IF k \in Stocked(items, w)
           THEN quantity_damaged[k] + 0 ELSE quantity_damaged[k]]
      /\ ColumnsFit'
  BY <1>4, <1>5, CommitWrites
<1>8. rows' = rows
  BY <1>7
<1>9. quantity_available' = Raised(quantity_available, items, w)
  BY <1>1, <1>3, <1>7, ColumnRaised
<1>10. quantity_reserved' = Lowered(quantity_reserved, items, w)
  BY <1>1, <1>3, <1>7, ColumnLowered
<1>11. quantity_damaged' = quantity_damaged
  BY <1>3, <1>7
<1>12. ASSUME NEW p \in Product
       PROVE  Fits(quantity_available[<<p, w>>] + items[p])
  <2>1. <<p, w>> \in Key
    BY <1>1 DEF Key
  <2>2. quantity_available'[<<p, w>>] = quantity_available[<<p, w>>] + items[p]
    BY <1>9, <2>1 DEF Raised
  <2> QED
    BY <1>7, <2>1, <2>2 DEF ColumnsFit, Fits
<1>13. CancelSalesOrder(o)
  BY <1>1, <1>2, <1>6, <1>8, <1>9, <1>10, <1>11, <1>12
  DEF CancelSalesOrder, items, w
<1>14. Next
  BY <1>1, <1>13 DEF Next, SONext
<1>15. Load(t) \in Nat /\ Total(ledger) \in Nat
  BY <1>1, RoomLeft
<1> QED
  BY <1>6, <1>14, <1>15, NextWrites DEF Serves

\* The calls about purchase orders.
LEMMA CommitDraft ==
  ASSUME StockInv, NoStaleCopy, NEW t \in Worker, Commit(t), Op(t) = "draft"
  PROVE  Serves(t)
<1>1. /\ call[t] \in Call /\ Op(t) = call[t].op /\ UNCHANGED soVars
      /\ PurchaseOrderWritten(t) /\ ledger' = CallPosted(t)
      /\ pc[t] = "commit"
  BY CommitKind DEF StockInv, PurchaseOps
<1>2. ledger' = ledger /\ Written(t) = {}
  BY <1>1 DEF CallPosted, Written
<1>3. UNCHANGED invVars
  BY <1>2, NothingCommitted DEF StockInv
<1>4. /\ call[t].w \in Warehouse /\ call[t].u \in User
      /\ call[t].product \in [Line -> Product \cup {None}]
      /\ call[t].qty \in [Line -> OrderedQty]
  BY <1>1, CallKinds DEF DraftCall
<1>5. PICK o \in PurchaseOrder :
        DraftWritten(o, call[t].w, call[t].u, call[t].product, call[t].qty)
  BY <1>1 DEF PurchaseOrderWritten, Drafted, DraftWritten
<1>6. POWrites
  BY <1>3, <1>4, <1>5 DEF POWrites, OrderWritten
<1>7. WarehouseStands(t) => PONext
  <2>1. WarehouseStands(t) =>
          CreatePurchaseOrder(o, call[t].w, call[t].u, call[t].product, call[t].qty)
    BY <1>3, <1>5 DEF WarehouseStands, CreatePurchaseOrder, DraftWritten
  <2> QED
    BY <1>4, <2>1 DEF PONext
<1>8. Load(t) \in Nat /\ Total(ledger) \in Nat
  BY <1>1, RoomLeft
<1> QED
  BY <1>1, <1>2, <1>6, <1>7, <1>8 DEF Serves, SyncWrites, Next

LEMMA CommitSubmitted ==
  ASSUME StockInv, NoStaleCopy, NEW t \in Worker, Commit(t),
         Op(t) \in PurchaseOps, Op(t) # "receive"
  PROVE  Serves(t)
<1> DEFINE o == call[t].o
<1>1. /\ call[t] \in Call /\ Op(t) = call[t].op /\ pc[t] = "commit"
      /\ o \in PurchaseOrder /\ StatusAllows(t) /\ UNCHANGED soVars
      /\ po_status' = [po_status EXCEPT ![o] =
           CASE Op(t) = "submit" -> "PENDING_APPROVAL"
             [] Op(t) = "approve" -> "APPROVED"
             [] Op(t) = "receive" -> ReceivedStatus(o, call[t].recv)
             [] Op(t) = "withdraw" -> "CANCELLED"]
      /\ approved_by' = IF Op(t) = "approve"
           THEN [approved_by EXCEPT ![o] = call[t].u] ELSE approved_by
      /\ quantity_received' = [i \in Item |-> quantity_received[i]]
      /\ UNCHANGED <<po_warehouse, created_by, item_product, quantity_ordered>>
      /\ ledger' = CallPosted(t)
  BY PurchaseOrderCommit DEF StockInv
<1>2. ledger' = ledger /\ Written(t) = {}
  BY <1>1 DEF CallPosted, Written, PurchaseOps
<1>3. UNCHANGED invVars
  BY <1>2, NothingCommitted DEF StockInv
<1>4. quantity_received' = quantity_received
  BY <1>1 DEF StockInv, LockInv, DutyInv, POTypeOK
<1>5. o \in PurchaseOrder /\ UNCHANGED soVars
  BY <1>1
<1> HIDE DEF o
<1>6. ASSUME Op(t) = "submit" PROVE Next
  <2>1. po_status[o] = "DRAFT" /\ \E l \in Line : HasLine(o, l)
    BY <1>1, <1>6 DEF StatusAllows, o
  <2>2. SubmitPurchaseOrder(o)
    BY <1>1, <1>3, <1>4, <1>6, <2>1 DEF SubmitPurchaseOrder
  <2> QED
    BY <1>5, <2>2 DEF Next, PONext
<1>7. ASSUME Op(t) = "approve" PROVE Next
  <2>1. call[t].u \in User
    BY <1>1, <1>7, CallKinds DEF ApproveCall
  <2>2. po_status[o] = "PENDING_APPROVAL" /\ MayApprove(o, call[t].u)
    BY <1>1, <1>7 DEF StatusAllows, o
  <2>3. ApprovePurchaseOrder(o, call[t].u)
    BY <1>1, <1>3, <1>4, <1>7, <2>2 DEF ApprovePurchaseOrder
  <2> QED
    BY <1>5, <2>1, <2>3 DEF Next, PONext
<1>8. ASSUME Op(t) = "withdraw" PROVE Next
  <2>1. po_status[o] \in CancellablePO
    BY <1>1, <1>8 DEF StatusAllows, o
  <2>2. CancelPurchaseOrder(o)
    BY <1>1, <1>3, <1>4, <1>8, <2>1 DEF CancelPurchaseOrder
  <2> QED
    BY <1>5, <2>2 DEF Next, PONext
<1>9. Next
  BY <1>6, <1>7, <1>8 DEF PurchaseOps
<1>10. Load(t) \in Nat /\ Total(ledger) \in Nat
  BY <1>1, RoomLeft
<1> QED
  BY <1>2, <1>9, <1>10, NextWrites DEF Serves

\* The rows that a receipt writes are those where something arrives.
LEMMA ReceiptRows ==
  ASSUME NEW t \in Worker, call[t] \in Call, Op(t) = "receive",
         OrderExists(call[t].o), NEW k \in Key
  PROVE  k \in Written(t) <=> Arrival(call[t].o, call[t].recv)[k] > 0
<1> DEFINE o == call[t].o
           recv == call[t].recv
           f == [l \in Line |-> IF item_product[<<o, l>>] = k[1] THEN recv[l] ELSE 0]
<1>1. /\ o \in PurchaseOrder /\ recv \in [Line -> 0..MaxInteger]
      /\ recv \in [Line -> Nat]
  BY CallOrder, RecvNat DEF Op, PurchaseOps
<1>2. Written(t) = {LineRow(t, l) : l \in ReceiptLines(t)}
  BY DEF Written
<1>3. \A l \in Line : LineRow(t, l) = <<item_product[<<o, l>>], po_warehouse[o]>>
  BY DEF LineRow
<1>4. k[1] # None /\ k = <<k[1], k[2]>>
  BY InventoryAssumption DEF Key
<1>5. ReceiptLines(t) = {l \in Line : item_product[<<o, l>>] # None /\ recv[l] > 0}
  BY DEF ReceiptLines, HasLine
<1>6. k \in Written(t) <=> /\ k[2] = po_warehouse[o]
                           /\ \E l \in Line : item_product[<<o, l>>] = k[1] /\ recv[l] > 0
  <2>1. ASSUME k \in Written(t)
        PROVE  /\ k[2] = po_warehouse[o]
               /\ \E l \in Line : item_product[<<o, l>>] = k[1] /\ recv[l] > 0
    <3>1. PICK l \in ReceiptLines(t) : k = LineRow(t, l)
      BY <1>2, <2>1
    <3> QED
      BY <1>3, <1>5, <3>1
  <2>2. ASSUME NEW l \in Line, k[2] = po_warehouse[o],
               item_product[<<o, l>>] = k[1], recv[l] > 0
        PROVE  k \in Written(t)
    <3>1. l \in ReceiptLines(t)
      BY <1>4, <1>5, <2>2
    <3>2. LineRow(t, l) = k
      BY <1>3, <1>4, <2>2
    <3> QED
      BY <1>2, <3>1, <3>2
  <2> QED
    BY <2>1, <2>2
<1>7. f \in [Line -> Nat] /\ IsFiniteSet(Line)
  BY <1>1, PurchaseOrdersAssumption
<1>8. Arrival(o, recv)[k] = IF k[2] = po_warehouse[o] THEN Total(f) ELSE 0
  BY DEF Arrival, Arriving
<1>9. ASSUME NEW l \in Line, item_product[<<o, l>>] = k[1], recv[l] > 0
      PROVE  Total(f) > 0
  <2>1. f[l] = recv[l] /\ recv[l] \in Nat
    BY <1>1, <1>9
  <2> HIDE DEF f
  <2>2. f[l] <= Total(f) /\ Total(f) \in Nat
    BY <1>7, TotalBounds, TotalNat
  <2> QED
    BY <1>9, <2>1, <2>2
<1>10. ASSUME \A l \in Line : ~(item_product[<<o, l>>] = k[1] /\ recv[l] > 0)
       PROVE  Total(f) = 0
  <2>1. \A l \in Line : f[l] = 0
    BY <1>1, <1>10
  <2> HIDE DEF f
  <2> QED
    BY <1>7, <2>1, TotalZero
<1> HIDE DEF f
<1>11. CASE k \in Written(t)
  BY <1>6, <1>8, <1>9, <1>11
<1>12. CASE k \notin Written(t)
  BY <1>6, <1>8, <1>10, <1>12
<1> QED
  BY <1>11, <1>12

LEMMA CommitReceive ==
  ASSUME StockInv, NoStaleCopy, NEW t \in Worker, Commit(t), Op(t) = "receive"
  PROVE  Serves(t)
<1> DEFINE o == call[t].o
           recv == call[t].recv
           arrival == Arrival(o, recv)
<1>1. /\ call[t] \in Call /\ Op(t) = call[t].op /\ pc[t] = "commit"
      /\ o \in PurchaseOrder /\ OrderExists(o) /\ StatusAllows(t)
      /\ po_status' = [po_status EXCEPT ![o] = ReceivedStatus(o, recv)]
      /\ approved_by' = approved_by
      /\ quantity_received' = [i \in Item |->
           IF i[1] = o /\ item_product[i] # None
           THEN quantity_received[i] + recv[i[2]] ELSE quantity_received[i]]
      /\ UNCHANGED <<po_warehouse, created_by, item_product, quantity_ordered>>
      /\ UNCHANGED soVars /\ UNCHANGED deleted /\ ledger' = CallPosted(t)
  BY PurchaseOrderCommit DEF StockInv, PurchaseOps
<1>2. po_status[o] \in Receivable
  BY <1>1 DEF StatusAllows
<1>3. /\ quantity_available \in [Key -> Int] /\ quantity_reserved \in [Key -> Int]
      /\ quantity_damaged \in [Key -> Int] /\ ledger \in [Key \X Posting -> Nat]
  BY DEF StockInv, LockInv, InvTypeOK
<1>4. /\ recv \in [Line -> 0..MaxInteger] /\ recv \in [Line -> Nat]
      /\ arrival \in [Key -> Nat]
  BY <1>1, CallOrder, RecvNat, ArrivalNat
<1>5. \A l \in ReceiptLines(t) : LineRoom(t, l)
  BY CommitKind DEF LinesTested, Untested, Among, StockInv
<1>6. Remaining(o, recv)
  BY <1>5 DEF Remaining, ReceiptLines, LineRoom
<1>7. \A k \in Key : k \in Written(t) <=> arrival[k] > 0
  BY <1>1, ReceiptRows
<1>8. Written(t) \subseteq Key
  BY <1>1, WrittenKeys DEF StockInv
<1>9. WarehouseStands(t) /\ Written(t) # {} => WarehouseFound(po_warehouse[o])
  BY DEF Written, WarehouseStands
<1>10. \A k : /\ AvailableChange(t, k) = arrival[k]
              /\ DamagedChange(t, k) = 0 /\ ReservedChange(t, k) = 0
  BY DEF AvailableChange, ReservedChange, DamagedChange
<1>11. CanPost(Total(arrival)) /\ Load(t) = Total(arrival) /\ Total(ledger) \in Nat
  <2>1. Weight(call[t]) = Total(arrival)
    BY <1>1 DEF Weight
  <2> QED
    BY <1>1, <2>1, RoomLeft
<1>12. ledger' = [x \in Key \X Posting |-> IF x[2] = "RECEIPT"
                    THEN ledger[x] + arrival[x[1]] ELSE ledger[x]]
  BY <1>1 DEF CallPosted
<1> HIDE DEF arrival
<1>13. /\ rows' = rows \cup Written(t)
       /\ quantity_available' = [k \in Key |-> IF k \in Written(t)
            THEN quantity_available[k] + arrival[k] ELSE quantity_available[k]]
       /\ quantity_reserved' = [k \in Key |-> IF k \in Written(t)
            THEN quantity_reserved[k] + 0 ELSE quantity_reserved[k]]
       /\ quantity_damaged' = [k \in Key |-> IF k \in Written(t)
            THEN quantity_damaged[k] + 0 ELSE quantity_damaged[k]]
       /\ ColumnsFit'
  BY <1>10, CommitWrites
<1>14. Written(t) = {k \in Key : arrival[k] > 0}
  BY <1>7, <1>8
<1>15. /\ \A k \in Key : quantity_available'[k] = quantity_available[k] + arrival[k]
       /\ quantity_available' = [k \in Key |-> quantity_available[k] + arrival[k]]
       /\ quantity_reserved' = quantity_reserved
       /\ quantity_damaged' = quantity_damaged
  <2>1. quantity_reserved' = quantity_reserved /\ quantity_damaged' = quantity_damaged
    BY <1>3, <1>13
  <2>2. \A k \in Key : quantity_available'[k] = quantity_available[k] + arrival[k]
    BY <1>3, <1>4, <1>7, <1>13
  <2>3. quantity_available' = [k \in Key |-> quantity_available'[k]]
    BY <1>13
  <2> QED
    BY <2>1, <2>2, <2>3
<1>16. \A k \in Key : Fits(quantity_available[k] + arrival[k])
  BY <1>13, <1>15 DEF ColumnsFit, Fits
<1> HIDE DEF o, recv
<1>17. PurchaseOrderReceived(o, recv)
  BY <1>1, <1>2, <1>6, <1>11, <1>12, <1>13, <1>14, <1>15, <1>16
  DEF PurchaseOrderReceived, Restocked, arrival
<1>18. SyncWrites /\ (WarehouseStands(t) => Next)
  <2>1. POWrites
    BY <1>1, <1>4, <1>17 DEF POWrites
  <2>2. Restocked(o, recv) = Written(t)
    BY <1>14 DEF Restocked, arrival
  <2>3. WarehouseStands(t) => PONext
    BY <1>1, <1>4, <1>9, <1>17, <2>2 DEF ReceivePurchaseOrder, PONext
  <2> QED
    BY <1>1, <2>1, <2>3 DEF SyncWrites, Next
<1>19. Total(ledger') = Total(ledger) + Total(arrival)
  <2>1. ASSUME NEW x \in Key \X Posting
        PROVE  /\ ledger'[x] \in Nat
               /\ x[2] = "RECEIPT" => ledger'[x] = ledger[x] + arrival[x[1]]
               /\ x[2] # "RECEIPT" => ledger'[x] = ledger[x]
    <3>1. ledger[x] \in Nat /\ x[1] \in Key /\ arrival[x[1]] \in Nat
      BY <1>3, <1>4
    <3> QED
      BY <1>12, <3>1
  <2>2. ledger' \in Ledgers
    <3>1. ledger' = [x \in Key \X Posting |-> ledger'[x]]
      BY <1>12
    <3> QED
      BY <2>1, <3>1 DEF Ledgers
  <2>3. "RECEIPT" \in Posting
    BY DEF Posting
  <2>4. PostedOn("RECEIPT", arrival, ledger, ledger')
    BY <2>1 DEF PostedOn
  <2>5. ledger \in Ledgers
    BY <1>3 DEF Ledgers
  <2> QED
    BY ONLY <1>4, <2>2, <2>3, <2>4, <2>5, PostedMore
<1>20. Load(t) \in Nat
  BY <1>1, RoomLeft
<1> QED
  BY <1>11, <1>18, <1>19, <1>20 DEF Serves

\* Whatever the call: its commit writes what the call of that name writes.
LEMMA CommitServes ==
  ASSUME StockInv, NoStaleCopy, NEW t \in Worker, Commit(t)
  PROVE  Serves(t)
<1>1. Op(t) \in {"adjust", "transfer", "create", "draft"} \cup OrderOps
  BY CommitKind DEF StockInv
<1> QED
  BY <1>1, CommitAdjust, CommitTransfer, CommitCreate, CommitDraft,
     CommitDispatch, CommitDeliver, CommitCancel, CommitSubmitted, CommitReceive
  DEF OrderOps, SalesOps

\* A warehouse is marked as deleted by whoever looked at its stock before.
LEMMA MarkWrites ==
  ASSUME LockInv, NEW t \in Worker, MarkDeleted(t)
  PROVE  /\ SyncWrites /\ (~HasActiveInventory(call[t].w) => [Next]_vars)
         /\ EndCall(t) /\ ledger' = ledger
         /\ \A u \in Worker : Spares(u)
         /\ UNCHANGED <<quantity_available, quantity_reserved, quantity_damaged>>
<1> DEFINE w == call[t].w
<1>1. /\ pc[t] = "mark" /\ deleted' = deleted \cup {w} /\ EndCall(t)
      /\ UNCHANGED <<rows, quantity_available, quantity_reserved,
                     quantity_damaged, ledger, soVars, poVars>>
  BY DEF MarkDeleted
<1>2. w \in Warehouse
  BY <1>1, LocksNow, CallKinds DEF Placed, Op, DeleteCall
<1> HIDE DEF w
<1>3. WarehouseMarked(w)
  BY <1>1 DEF WarehouseMarked
<1>4. SyncWrites
  BY <1>1, <1>2, <1>3 DEF SyncWrites, InvWrites
<1>5. ASSUME ~HasActiveInventory(w) PROVE [Next]_vars
  <2>1. CASE w \in deleted
    <3>1. deleted' = deleted
      BY <1>1, <2>1
    <3> QED
      BY <1>1, <3>1 DEF vars, invVars
  <2>2. CASE w \notin deleted
    <3>1. DeleteWarehouse(w)
      BY <1>2, <1>3, <1>5, <2>2 DEF DeleteWarehouse, WarehouseFound
    <3> QED
      BY <1>1, <1>2, <3>1 DEF Next, InvNext
  <2> QED
    BY <2>1, <2>2
<1>6. \A u \in Worker : Spares(u)
  BY <1>1
  DEF Spares, SameColumns, SparesSales, SparesPurchases, soVars, poVars
<1> QED
  BY <1>1, <1>4, <1>5, <1>6 DEF w

(***************************************************************************)
(* Without stale copies every step keeps the stock invariant, and changes  *)
(* the tables as a service of SupplySync does or not at all.               *)
(***************************************************************************)
LEMMA StockStep ==
  ASSUME StockInv, NoStaleCopy, [RLNext]_rlVars
  PROVE  StockInv' /\ [SyncWrites]_vars
<1>1. LockInv'
  BY LockStep DEF StockInv
<1>2. CASE UNCHANGED rlVars
  <2>1. UNCHANGED vars /\ UNCHANGED workerVars
    BY <1>2 DEF rlVars
  <2>2. SyncInv' /\ ColumnsFit' /\ ledger' = ledger
    BY <2>1, SyncStutter DEF StockInv, ColumnsFit, vars, invVars
  <2>3. ASSUME NEW u \in Worker PROVE Load(u)' = Load(u)
    <3>1. Waits(u)
      BY <2>1 DEF workerVars, Waits
    <3> QED
      BY <2>1, <3>1, NothingWritten, LoadKept DEF StockInv, LockInv
  <2>4. [u \in Worker |-> Load(u)'] = [u \in Worker |-> Load(u)]
    BY <2>3
  <2>5. InFlight' = InFlight
    BY <2>4 DEF InFlight, Load
  <2> QED
    BY <1>1, <2>1, <2>2, <2>5 DEF StockInv, Room
<1>3. ASSUME NEW t \in Worker,
             (\E c \in Call : Begin(t, c)) \/ Proceed(t) \/ Crash(t)
      PROVE  StockInv' /\ [SyncWrites]_vars
  <2>1. OnlyBy(t)
    BY <1>3, OneMoves DEF StockInv
  <2>2. CASE Commit(t)
    <3>1. Serves(t) /\ ColumnsFit' /\ EndCall(t)
      BY <2>2, CommitServes, CommitWrites, CommitKind DEF StockInv
    <3>2. SyncInv'
      BY <3>1, SyncWritesKeep DEF StockInv, Serves
    <3>3. Load(t)' = 0
      BY <3>1, CallEnds DEF StockInv, LockInv, Load
    <3>4. \A u \in Worker \ {t} : Spares(u)
      BY <2>2, CommitSpares DEF StockInv
    <3> QED
      BY <1>1, <2>1, <3>1, <3>2, <3>3, <3>4, StockLeft DEF Serves
  <2>3. CASE MarkDeleted(t)
    <3>1. /\ SyncWrites /\ EndCall(t) /\ ledger' = ledger
          /\ \A u \in Worker : Spares(u)
          /\ UNCHANGED <<quantity_available, quantity_reserved, quantity_damaged>>
      BY <2>3, MarkWrites DEF StockInv
    <3>2. SyncInv' /\ ColumnsFit'
      BY <3>1, SyncWritesKeep DEF StockInv, ColumnsFit
    <3>3. Load(t)' = 0
      BY <3>1, CallEnds DEF StockInv, LockInv, Load
    <3>4. Total(ledger)' <= Total(ledger) + Load(t)
      BY <3>1, LoadsNat DEF LoadsSum, StockInv
    <3> QED
      BY <1>1, <2>1, <3>1, <3>2, <3>3, <3>4, StockLeft
  <2>4. CASE ~Commit(t) /\ ~MarkDeleted(t)
    BY <1>1, <1>3, <2>1, <2>4, StepKinds, StockQuiet DEF StockInv
  <2> QED
    BY <2>2, <2>3, <2>4
<1> QED
  BY <1>2, <1>3 DEF RLNext

LEMMA StockStart == RLInit => StockInv
<1> SUFFICES ASSUME RLInit PROVE StockInv
  OBVIOUS
<1>1. LockInv /\ SyncInv
  BY LockStart, SyncInit DEF RLInit
<1>2. ColumnsFit
  BY InventoryAssumption DEF RLInit, Init, SOInit, InvInit, ColumnsFit, Fits
<1>3. Room
  <2> DEFINE f == [u \in Worker |-> Load(u)]
  <2>1. f \in [Worker -> Nat] /\ \A u \in Worker : f[u] = 0
    BY DEF RLInit, Load
  <2>2. InFlight = Total(f)
    BY DEF InFlight, Load
  <2>3. Total(f) = 0
    <3> HIDE DEF f
    <3> QED
      BY <2>1, TotalZero
  <2>4. PICK D : D = Key \X Posting
    OBVIOUS
  <2>5. ledger \in [D -> Nat] /\ \A x \in D : ledger[x] = 0
    BY <2>4 DEF RLInit, Init, SOInit, InvInit
  <2>6. Total(ledger) = 0
    BY ONLY <2>5, TotalZero
  <2> QED
    BY <2>2, <2>3, <2>6, InventoryAssumption DEF Room
<1> QED
  BY <1>1, <1>2, <1>3 DEF StockInv

(***************************************************************************)
(* Even when warehouses are deleted under the calls, what was proved of    *)
(* the service layer with one call at a time holds while workers run: no   *)
(* column is oversold, the reserved units are those of the open orders,    *)
(* the stock of every row is explained by the orders and the audit table,  *)
(* no unit of a product gets lost on the way between two warehouses, and   *)
(* what an order holds is not given away.  All it takes is that no copy    *)
(* that is saved is stale.                                                 *)
(***************************************************************************)
THEOREM WorkersKeepPromises ==
  RLSpec /\ []NoStaleCopy
    => /\ [](StockNonNegative /\ ReservationsBacked)
       /\ [](StockExplained /\ LedgerBalanced /\ ProductConserved)
       /\ KeepsPromises
<1> DEFINE IInv == StockInv /\ TransfersPaired
           Found == /\ StockNonNegative /\ ReservationsBacked
                    /\ StockExplained /\ LedgerBalanced /\ ProductConserved
<1>1. RLInit => IInv /\ Promise!Init
  BY StockStart, InvInitPairs, PromiseInit DEF RLInit, Init, SOInit
<1>2. IInv /\ NoStaleCopy /\ [RLNext]_rlVars => IInv'
  BY StockStep, SyncKeepsPairs DEF StockInv
<1>3. IInv /\ IInv' /\ NoStaleCopy /\ [RLNext]_rlVars
        => [Promise!Next]_(Promise!promiseVars)
  BY StockStep, SyncKeepsPromise DEF StockInv
<1>4. IInv => Found
  BY SyncExplains, PairsConserve DEF StockInv, SyncInv
<1> QED
  BY <1>1, <1>2, <1>3, <1>4, PTL DEF RLSpec, KeepsPromises, Promise!Spec

-----------------------------------------------------------------------------
(***************************************************************************)
(* The warehouses.  As long as nothing is deleted under a call about it,   *)
(* the call still finds at its commit the warehouse that it looked up, and *)
(* the warehouse that a deletion found empty is empty when it is marked.   *)
(***************************************************************************)
WarehouseKept(t) ==
  /\ pc[t] \in {"lock", "commit"} \/ Op(t) # "receive" => WarehouseStands(t)
  /\ pc[t] = "mark" => ~HasActiveInventory(call[t].w)

FoundInv == \A t \in Worker : pc[t] # "idle" => WarehouseKept(t)

\* What another worker does.
LEMMA FoundSpared ==
  ASSUME LockInv, DeletionsAlone, NEW t \in Worker, NEW u \in Worker \ {t},
         pc[u] # "idle", WarehouseKept(u), Waits(u),
         Commit(t) \/ MarkDeleted(t) \/ UNCHANGED vars
  PROVE  WarehouseKept(u)'
<1>1. /\ pc'[u] = pc[u] /\ call'[u] = call[u] /\ Op(u)' = Op(u)
      /\ call[u] \in Call /\ OrderHeld(u) /\ Placed(u)
  BY LocksNow DEF Waits, Op
<1>2. Spares(u)
  BY CommitSpares, MarkWrites, NothingWritten
<1>3. Op(u) \in OrderOps => /\ OrderExists(call[u].o)
                            /\ CallWarehouses(u)' = CallWarehouses(u)
  BY <1>1, <1>2, OrderStays DEF OrderHeld, Spares
<1>4. \A w \in CallWarehouses(u) : WarehouseFound(w) => WarehouseFound(w)'
  <2>1. CASE Commit(t) \/ UNCHANGED vars
    BY <2>1 DEF Commit, WarehouseFound, vars, invVars
  <2>2. CASE MarkDeleted(t)
    <3>1. pc[t] = "mark" /\ deleted' = deleted \cup {call[t].w}
      BY <2>2 DEF MarkDeleted
    <3>2. call[t].w \notin CallWarehouses(u)
      BY <3>1 DEF DeletionsAlone
    <3> QED
      BY <3>1, <3>2 DEF WarehouseFound
  <2> QED
    BY <2>1, <2>2
<1>5. WarehouseStands(u) => WarehouseStands(u)'
  <2>1. CASE Op(u) \in {"adjust", "create", "draft"}
    <3>1. call[u].w \in CallWarehouses(u)
      BY <2>1 DEF CallWarehouses
    <3> QED
      BY <1>1, <1>4, <2>1, <3>1 DEF WarehouseStands, WarehouseFound
  <2>2. CASE Op(u) = "receive"
    <3>1. /\ CallWarehouses(u) = {po_warehouse[call[u].o]}
          /\ CallWarehouses(u)' = {po_warehouse'[call[u].o]}
      BY <1>1, <2>2 DEF CallWarehouses
    <3>2. po_warehouse'[call[u].o] = po_warehouse[call[u].o]
      BY <1>3, <2>2, <3>1 DEF OrderOps, PurchaseOps
    <3>3. ReceiptLines(u)' = ReceiptLines(u)
      BY <1>1, <1>2, <1>3, <2>2, ReceiptStays DEF Spares, OrderOps, PurchaseOps
    <3> QED
      BY <1>1, <1>4, <2>2, <3>1, <3>2, <3>3 DEF WarehouseStands, WarehouseFound
  <2>3. CASE Op(u) \notin {"adjust", "create", "draft", "receive"}
    BY <1>1, <2>3 DEF WarehouseStands
  <2> QED
    BY <2>1, <2>2, <2>3
<1>6. ASSUME pc[u] = "mark", ~HasActiveInventory(call[u].w)
      PROVE  ~HasActiveInventory(call[u].w)'
  <2>1. CASE MarkDeleted(t) \/ UNCHANGED vars
    BY <1>1, <1>6, <2>1 DEF MarkDeleted, HasActiveInventory, vars, invVars
  <2>2. CASE Commit(t)
    <3>1. /\ rows' = rows \cup Written(t)
          /\ \A k \in Key : k \notin Written(t) => SameColumns(k)
          /\ pc[t] = "commit"
      BY <2>2 DEF Commit, SameColumns
    <3>2. call[u].w \notin CallWarehouses(t)
      BY <1>6, <3>1 DEF DeletionsAlone
    <3>3. \A k \in Written(t) : k[2] # call[u].w
      BY <3>1, <3>2, WrittenKeys
    <3>4. \A k \in rows' : k[2] = call[u].w => k \in rows /\ SameColumns(k)
      BY <3>1, <3>3 DEF LockInv, InvTypeOK
    <3> QED
      BY <1>1, <1>6, <3>4 DEF HasActiveInventory, SameColumns
  <2> QED
    BY <2>1, <2>2
<1> QED
  BY <1>1, <1>5, <1>6 DEF WarehouseKept

\* What the call itself does: it looks its warehouse up when it begins, and a
\* receipt looks it up before the lock of each line.
LEMMA FoundOwn ==
  ASSUME LockInv, NEW t \in Worker, pc[t] # "idle" => WarehouseKept(t),
         (\E c \in Call : Begin(t, c)) \/ Proceed(t) \/ Crash(t),
         pc'[t] # "idle"
  PROVE  WarehouseKept(t)'
<1>1. DOMAIN pc = Worker /\ DOMAIN call = Worker
  BY DEF LockInv, WorkerTypes
<1>2. CASE \E c \in Call : Begin(t, c)
  <2>1. PICK c \in Call : Begin(t, c)
    BY <1>2
  <2>2. /\ call'[t] = c /\ UNCHANGED vars
        /\ c.op \in {"adjust", "create", "draft", "delete"} => WarehouseFound(c.w)
        /\ c.op = "receive" => pc'[t] = "lock_order"
        /\ pc'[t] # "mark"
    <3>1. c.op = "receive" => "o" \in DOMAIN c
      BY CallKinds DEF ReceiveCall
    <3> QED
      BY <1>1, <2>1, <3>1 DEF Begin, Goto
  <2>3. c.op \in {"adjust", "create", "draft"} => WarehouseFound(c.w)'
    BY <2>2 DEF WarehouseFound, vars, invVars
  <2> QED
    BY <2>2, <2>3 DEF WarehouseKept, WarehouseStands, Op
<1>3. CASE ~\E c \in Call : Begin(t, c)
  <2>1. ~EndCall(t)
    BY CallEnds DEF LockInv
  <2>2. \/ LockOrder(t) \/ SelectRows(t) \/ CheckLine(t) \/ LockNextRow(t)
        \/ CheckEmpty(t)
        \/ ReadSource(t) \/ GetDest(t) \/ SaveSource(t) \/ SaveDest(t)
    BY <1>3, <2>1
    DEF Proceed, Commit, MarkDeleted, Raise, DeadlockVictim, Crash, Rollback
  <2>3. UNCHANGED vars /\ UNCHANGED call /\ pc[t] # "idle"
    BY <2>2 DEF LockOrder, SelectRows, CheckLine, LockNextRow, CheckEmpty,
                ReadSource, GetDest, SaveSource, SaveDest, SaveRow
  <2>4. /\ Op(t)' = Op(t) /\ WarehouseStands(t)' = WarehouseStands(t)
        /\ HasActiveInventory(call[t].w)' = HasActiveInventory(call[t].w)
    <3>1. ReceiptLines(t)' = ReceiptLines(t) /\ Op(t)' = Op(t)
      BY <2>3, Unmoved
    <3> QED
      BY <2>3, <3>1 DEF WarehouseStands, WarehouseFound, HasActiveInventory, vars,
                        invVars, poVars
  <2>5. ASSUME pc'[t] = "mark" PROVE ~HasActiveInventory(call[t].w)
    <3>1. \A left : NextStatement(t, left) # "mark"
      BY DEF NextStatement, AfterLocks
    <3> QED
      BY <1>1, <2>2, <2>5, <3>1
      DEF LockOrder, SelectRows, CheckLine, LockNextRow, CheckEmpty, ReadSource,
          GetDest, SaveSource, SaveDest, SaveRow, Goto
  <2>6. ASSUME Op(t) = "receive", pc'[t] \in {"lock", "commit"}
        PROVE  WarehouseStands(t)
    <3>1. SelectRows(t) \/ CheckLine(t) \/ LockNextRow(t)
      <4>1. Placed(t)
        BY <2>3, LocksNow
      <4> QED
        BY <1>1, <2>2, <2>6, <4>1
        DEF Placed, LockOrder, CheckEmpty, ReadSource, GetDest, SaveSource,
            SaveDest, SaveRow, Goto
    <3>2. CASE SelectRows(t)
      <4>1. PICK order \in SetToSeqs(ToLock(t)) :
              pc' = [pc EXCEPT ![t] = NextStatement(t, order)]
        BY <3>2 DEF SelectRows, Goto
      <4>2. order = <<>>
        BY <1>1, <2>6, <4>1 DEF NextStatement
      <4>3. \A x \in ReceiptLines(t) : \E n \in 1..Len(order) : order[n] = x
        BY <2>3, <2>6, SelectedOrder DEF ToLock
      <4>4. Len(order) = 0
        BY <4>2, EmptySeq
      <4>5. ReceiptLines(t) = {}
        BY <4>3, <4>4
      <4> QED
        BY <2>6, <4>5 DEF WarehouseStands
    <3>3. CASE CheckLine(t)
      BY <2>6, <3>3 DEF CheckLine, LineAllowed, WarehouseStands
    <3>4. CASE LockNextRow(t)
      BY <2>3, <3>4 DEF LockNextRow, WarehouseKept
    <3> QED
      BY <3>1, <3>2, <3>3, <3>4
  <2> QED
    BY <2>3, <2>4, <2>5, <2>6 DEF WarehouseKept
<1> QED
  BY <1>2, <1>3

LEMMA FoundStep ==
  ASSUME LockInv, FoundInv, DeletionsAlone, [RLNext]_rlVars
  PROVE  FoundInv'
<1>1. CASE UNCHANGED rlVars
  <2>1. UNCHANGED vars /\ UNCHANGED workerVars
    BY <1>1 DEF rlVars
  <2>2. ASSUME NEW u \in Worker, pc[u] # "idle" PROVE WarehouseKept(u)'
    <3>1. ReceiptLines(u)' = ReceiptLines(u) /\ Op(u)' = Op(u) /\ call' = call
      BY <2>1, Unmoved DEF workerVars
    <3>2. /\ pc' = pc /\ po_warehouse' = po_warehouse
          /\ UNCHANGED <<deleted, rows, quantity_available, quantity_reserved>>
      BY <2>1 DEF workerVars, vars, invVars, poVars
    <3> QED
      BY <2>2, <3>1, <3>2 DEF FoundInv, WarehouseKept, WarehouseStands,
                              WarehouseFound, HasActiveInventory
  <2> QED
    BY <2>1, <2>2 DEF FoundInv, workerVars
<1>2. ASSUME NEW t \in Worker,
             (\E c \in Call : Begin(t, c)) \/ Proceed(t) \/ Crash(t)
      PROVE  FoundInv'
  <2>1. OnlyBy(t)
    BY <1>2, OneMoves
  <2>2. Commit(t) \/ MarkDeleted(t) \/ UNCHANGED vars
    BY <1>2, StepKinds
  <2>3. ASSUME NEW u \in Worker \ {t}, pc'[u] # "idle" PROVE WarehouseKept(u)'
    <3>1. Waits(u)
      BY <2>1, OthersWait
    <3>2. pc[u] # "idle" /\ WarehouseKept(u)
      BY <2>3, <3>1 DEF Waits, FoundInv
    <3> QED
      BY <2>2, <3>1, <3>2, FoundSpared
  <2>4. pc'[t] # "idle" => WarehouseKept(t)'
    BY <1>2, FoundOwn DEF FoundInv
  <2> QED
    BY <2>3, <2>4 DEF FoundInv
<1> QED
  BY <1>1, <1>2 DEF RLNext

\* Every step that writes is the call of SupplySync of that name.
LEMMA SerialStep ==
  ASSUME StockInv, FoundInv, NoStaleCopy, [RLNext]_rlVars
  PROVE  [Next]_vars
<1>1. CASE UNCHANGED rlVars
  BY <1>1 DEF rlVars
<1>2. ASSUME NEW t \in Worker,
             (\E c \in Call : Begin(t, c)) \/ Proceed(t) \/ Crash(t)
      PROVE  [Next]_vars
  <2>1. CASE Commit(t)
    <3>1. pc[t] = "commit" /\ Serves(t)
      BY <2>1, CommitServes, CommitKind DEF StockInv
    <3>2. WarehouseStands(t)
      BY <3>1 DEF FoundInv, WarehouseKept
    <3> QED
      BY <3>1, <3>2 DEF Serves
  <2>2. CASE MarkDeleted(t)
    <3>1. ~HasActiveInventory(call[t].w)
      BY <2>2 DEF MarkDeleted, FoundInv, WarehouseKept
    <3> QED
      BY <2>2, <3>1, MarkWrites DEF StockInv
  <2> QED
    BY <1>2, <2>1, <2>2, StepKinds DEF StockInv
<1> QED
  BY <1>1, <1>2 DEF RLNext

(***************************************************************************)
(* Without stale copies and without deletions under way every interleaving *)
(* of the calls, with their errors, deadlocks and crashes, has the effect  *)
(* of calls run one after the other: select_for_update and atomic() are    *)
(* enough.  In particular no deletion strands the stock of an open order.  *)
(***************************************************************************)
THEOREM LocksSerialize ==
  RLSpec /\ []NoStaleCopy /\ []DeletionsAlone
    => SerializesCalls /\ []HeldStockNotDeleted
<1> DEFINE IInv == StockInv /\ FoundInv
<1>1. RLInit => IInv /\ Init
  BY StockStart DEF RLInit, FoundInv
<1>2. IInv /\ NoStaleCopy /\ DeletionsAlone /\ [RLNext]_rlVars => IInv' /\ [Next]_vars
  BY StockStep, FoundStep, SerialStep DEF StockInv
<1>3. RLSpec /\ []NoStaleCopy /\ []DeletionsAlone => Spec
  BY <1>1, <1>2, PTL DEF RLSpec, Spec
<1> QED
  BY <1>3, SyncHeldStockNotDeleted, PTL DEF SerializesCalls

-----------------------------------------------------------------------------
(***************************************************************************)
(* The copies.  A transfer that finds its rows locked whenever it reads    *)
(* one has current copies too, and keeps both locks to its commit.         *)
(***************************************************************************)
TransferFresh(t) ==
  pc[t] # "idle" /\ Op(t) = "transfer" =>
    /\ Fresh(t)
    /\ pc[t] \in {"get_dest", "save_source", "save_dest", "commit"} =>
         row_lock[Source(t)] = t
    /\ pc[t] \in {"save_source", "save_dest", "commit"} => row_lock[Dest(t)] = t

FreshInv == \A t \in Worker : TransferFresh(t)

\* What another worker does.
LEMMA FreshSpared ==
  ASSUME LockInv, NEW u \in Worker, TransferFresh(u), Waits(u), Spares(u)
  PROVE  TransferFresh(u)'
<1> SUFFICES ASSUME pc'[u] # "idle", Op(u)' = "transfer" PROVE TransferFresh(u)'
  BY DEF TransferFresh
<1>1. /\ pc'[u] = pc[u] /\ pc[u] # "idle" /\ Op(u) = "transfer"
      /\ Source(u)' = Source(u) /\ Dest(u)' = Dest(u)
  BY DEF Waits, Op, Source, Dest
<1>2. Source(u) \in Key /\ Dest(u) \in Key
  BY <1>1, RowsOfCall
<1>3. Fresh(u)'
  <2>1. \A k \in Key : row_lock[k] = u => CommittedRow(k)' = CommittedRow(k)
    BY DEF Spares, SameColumns, CommittedRow
  <2> QED
    BY <1>1, <2>1 DEF TransferFresh, Fresh, Waits
<1> QED
  BY <1>1, <1>2, <1>3 DEF TransferFresh, Waits

\* What the transfer itself does.
LEMMA FreshOwn ==
  ASSUME LockInv, TransfersReadLockedRows, NEW t \in Worker, TransferFresh(t),
         (\E c \in Call : Begin(t, c)) \/ Proceed(t) \/ Crash(t)
  PROVE  TransferFresh(t)'
<1>1. /\ pc \in [Worker -> Statement] /\ DOMAIN call = Worker
      /\ row_lock \in [Key -> Worker \cup {None}]
      /\ local \in [Worker -> [Key -> Columns \cup {None}]]
  BY DEF LockInv, WorkerTypes
<1>2. CASE \E c \in Call : Begin(t, c)
  <2>1. PICK c \in Call : Begin(t, c)
    BY <1>2
  <2>2. pc[t] = "idle" /\ call'[t] = c /\ UNCHANGED <<local, row_lock>>
    BY <1>1, <2>1 DEF Begin
  <2>3. Fresh(t)'
    BY <2>2 DEF LockInv, WorkerLocks, Rested, NothingRead, Fresh
  <2>4. c.op = "transfer" => pc'[t] = "select"
    <3>1. "o" \in DOMAIN c <=> c.op \in OrderOps
      BY CallKinds
    <3> QED
      BY <1>1, <2>1, <3>1 DEF Begin, Goto, OrderOps, SalesOps, PurchaseOps
  <2> QED
    BY <2>2, <2>3, <2>4 DEF TransferFresh, Op
<1>3. CASE EndCall(t)
  BY <1>3, CallEnds DEF LockInv, TransferFresh
<1>4. ASSUME \/ LockOrder(t) \/ SelectRows(t) \/ CheckLine(t) \/ LockNextRow(t)
             \/ CheckEmpty(t)
             \/ ReadSource(t) \/ GetDest(t) \/ SaveSource(t) \/ SaveDest(t)
      PROVE  TransferFresh(t)'
  <2> DEFINE i == Source(t)
             j == Dest(t)
  <2>1. UNCHANGED vars /\ UNCHANGED call /\ pc[t] # "idle"
    BY <1>4 DEF LockOrder, SelectRows, CheckLine, LockNextRow, CheckEmpty,
                ReadSource, GetDest, SaveSource, SaveDest, SaveRow
  <2>2. /\ Op(t)' = Op(t) /\ i' = i /\ j' = j
        /\ \A k \in Key : CommittedRow(k)' = CommittedRow(k)
    BY <2>1, Unmoved
  <2>3. SUFFICES ASSUME Op(t) = "transfer" PROVE TransferFresh(t)'
    BY <2>2 DEF TransferFresh
  <2>4. /\ i \in Key /\ j \in Key /\ i # j
        /\ pc[t] = "lock" => NextRow(t) \in Key /\ NextRow(t) \in rows
    BY <2>1, <2>3, RowsOfCall
  <2>5. /\ Fresh(t)
        /\ pc[t] \in {"get_dest", "save_source", "save_dest"} => row_lock[i] = t
        /\ pc[t] \in {"save_source", "save_dest"} => row_lock[j] = t
    BY <2>1, <2>3 DEF TransferFresh
  <2>6. ASSUME UNCHANGED <<local, row_lock>> PROVE Fresh(t)'
    BY <2>2, <2>5, <2>6 DEF Fresh
  <2>7. ASSUME NEW k \in Key, row_lock' = [row_lock EXCEPT ![k] = t],
               local' = [local EXCEPT ![t][k] = CommittedRow(k)]
        PROVE  Fresh(t)' /\ \A m \in Key : row_lock[m] = t => row_lock'[m] = t
    <3>1. /\ row_lock'[k] = t /\ local'[t][k] = CommittedRow(k)
          /\ \A m \in Key \ {k} : row_lock'[m] = row_lock[m] /\ local'[t][m] = local[t][m]
      BY <1>1, <2>7
    <3> QED
      BY <2>2, <2>5, <3>1 DEF Fresh
  <2>8. CASE LockOrder(t) \/ CheckLine(t) \/ CheckEmpty(t)
    BY <2>1, <2>3, <2>8, LocksNow
    DEF LockOrder, CheckLine, CheckEmpty, Placed, OrderOps, SalesOps, PurchaseOps
  <2>9. CASE SelectRows(t)
    <3>1. pc'[t] \in {"read_source", "lock"} /\ UNCHANGED <<local, row_lock>>
      BY <1>1, <2>3, <2>9 DEF SelectRows, Goto, NextStatement, AfterLocks
    <3> QED
      BY <2>6, <3>1 DEF TransferFresh
  <2>10. CASE LockNextRow(t)
    <3>1. PICK k : k = NextRow(t)
      OBVIOUS
    <3>2. pc[t] = "lock" /\ pc'[t] \in {"read_source", "lock"}
      BY <1>1, <2>3, <2>10 DEF LockNextRow, Goto, NextStatement, AfterLocks
    <3>3. /\ row_lock' = [row_lock EXCEPT ![k] = t] /\ k \in Key /\ k \in rows
          /\ local' = [local EXCEPT ![t][k] =
                         IF row_lock[k] = t THEN local[t][k] ELSE CommittedRow(k)]
      BY <2>4, <2>10, <3>1, <3>2 DEF LockNextRow, LockRow, Read
    <3>4. (IF row_lock[k] = t THEN local[t][k] ELSE CommittedRow(k)) = CommittedRow(k)
      BY <2>5, <3>3 DEF Fresh
    <3>5. Fresh(t)'
      BY <2>7, <3>3, <3>4
    <3> QED
      BY <3>2, <3>5 DEF TransferFresh
  <2>11. CASE ReadSource(t)
    <3>1. /\ pc[t] = "read_source" /\ pc'[t] = "get_dest" /\ i \in rows
          /\ row_lock' = row_lock /\ local' = [local EXCEPT ![t][i] = CommittedRow(i)]
      BY <1>1, <2>11 DEF ReadSource, Goto, Read
    <3>2. row_lock[i] = t
      BY <3>1 DEF TransfersReadLockedRows
    <3>3. row_lock' = [row_lock EXCEPT ![i] = t]
      BY <1>1, <2>4, <3>1, <3>2
    <3>4. Fresh(t)'
      BY <2>4, <2>7, <3>1, <3>3
    <3> QED
      BY <2>2, <3>1, <3>2, <3>4 DEF TransferFresh
  <2>12. CASE GetDest(t)
    <3>1. pc[t] = "get_dest" /\ pc'[t] = "save_source"
      BY <1>1, <2>12 DEF GetDest, Goto
    <3>2. /\ row_lock' = [row_lock EXCEPT ![j] = t]
          /\ local' = [local EXCEPT ![t][j] = CommittedRow(j)]
      <4>1. CASE j \in rows
        <5>1. row_lock[j] = t
          BY <3>1, <4>1 DEF TransfersReadLockedRows
        <5>2. row_lock' = row_lock /\ local' = [local EXCEPT ![t][j] = CommittedRow(j)]
          BY <2>12, <4>1 DEF GetDest, Read
        <5> QED
          BY <1>1, <2>4, <5>1, <5>2
      <4>2. CASE j \notin rows
        <5>1. CommittedRow(j) = EmptyRow
          BY <2>4, <4>2, NoRowEmpty DEF LockInv
        <5> QED
          BY <2>12, <4>2, <5>1 DEF GetDest, LockRow, Read
      <4> QED
        BY <4>1, <4>2
    <3>3. Fresh(t)' /\ row_lock'[i] = t
      BY <2>4, <2>5, <2>7, <3>1, <3>2
    <3>4. row_lock'[j] = t
      BY <1>1, <2>4, <3>2
    <3> QED
      BY <2>2, <3>1, <3>3, <3>4 DEF TransferFresh
  <2>13. CASE SaveSource(t) \/ SaveDest(t)
    <3>1. /\ pc[t] \in {"save_source", "save_dest"}
          /\ local' = local
          /\ \/ row_lock' = [row_lock EXCEPT ![i] = t]
             \/ row_lock' = [row_lock EXCEPT ![j] = t]
      BY <2>13 DEF SaveSource, SaveDest, SaveRow, LockRow
    <3>2. row_lock' = row_lock
      BY <1>1, <2>4, <2>5, <3>1
    <3> QED
      BY <2>2, <2>5, <2>6, <3>1, <3>2 DEF TransferFresh
  <2> QED
    BY <1>4, <2>8, <2>9, <2>10, <2>11, <2>12, <2>13
<1> QED
  BY <1>2, <1>3, <1>4
  DEF Proceed, Commit, MarkDeleted, Raise, DeadlockVictim, Crash, Rollback

LEMMA FreshStep ==
  ASSUME LockInv, FreshInv, TransfersReadLockedRows, [RLNext]_rlVars
  PROVE  FreshInv'
<1>1. CASE UNCHANGED rlVars
  <2>1. UNCHANGED vars /\ UNCHANGED workerVars
    BY <1>1 DEF rlVars
  <2>2. ASSUME NEW u \in Worker PROVE TransferFresh(u)'
    <3>1. Waits(u)
      BY <2>1 DEF workerVars, Waits
    <3> QED
      BY <2>1, <3>1, NothingWritten, FreshSpared DEF FreshInv
  <2> QED
    BY <2>2 DEF FreshInv
<1>2. ASSUME NEW t \in Worker,
             (\E c \in Call : Begin(t, c)) \/ Proceed(t) \/ Crash(t)
      PROVE  FreshInv'
  <2>1. ASSUME NEW u \in Worker \ {t} PROVE TransferFresh(u)'
    <3>1. Waits(u)
      BY <1>2, OneMoves, OthersWait
    <3>2. Spares(u)
      BY <1>2, StepKinds, CommitSpares, MarkWrites, NothingWritten
    <3> QED
      BY <3>1, <3>2, FreshSpared DEF FreshInv
  <2>2. TransferFresh(t)'
    BY <1>2, FreshOwn DEF FreshInv
  <2> QED
    BY <2>1, <2>2 DEF FreshInv
<1> QED
  BY <1>1, <1>2 DEF RLNext

(***************************************************************************)
(* As long as no transfer reads a row that it has not locked, every copy   *)
(* of a locked row is the committed row, whatever else races: the second   *)
(* reads of transfer_inventory are the only way to a lost update.          *)
(***************************************************************************)
THEOREM LockedCopiesCurrent == RLSpec /\ []TransfersReadLockedRows => []NoStaleCopy
<1>1. RLInit => LockInv /\ FreshInv
  BY LockStart DEF RLInit, FreshInv, TransferFresh
<1>2. LockInv /\ FreshInv /\ TransfersReadLockedRows /\ [RLNext]_rlVars
        => LockInv' /\ FreshInv'
  BY LockStep, FreshStep
<1>3. LockInv /\ FreshInv => NoStaleCopy
  <2> SUFFICES ASSUME LockInv, FreshInv, NEW t \in Worker, NEW k \in Key,
                      row_lock[k] = t
               PROVE  local[t][k] = CommittedRow(k)
    BY DEF NoStaleCopy
  <2>1. pc[t] # "idle"
    BY DEF LockInv, WorkerLocks, Rested
  <2>2. Fresh(t)
    BY <2>1, LocksNow DEF RowsHeld, FreshInv, TransferFresh
  <2> QED
    BY <2>2 DEF Fresh
<1> QED
  BY <1>1, <1>2, <1>3, PTL DEF RLSpec

-----------------------------------------------------------------------------
(***************************************************************************)
(* Requests that cause no stale copy.  Rows never go away, so a transfer   *)
(* between rows that have always been there finds both of them, and locks  *)
(* both before it reads them.                                              *)
(***************************************************************************)
TransferLocked(t) ==
  pc[t] \notin {"idle", "select"} /\ Op(t) = "transfer" =>
    \A k \in {Source(t), Dest(t)} :
      \/ row_lock[k] = t
      \/ pc[t] = "lock" /\ \E n \in 1..Len(todo[t]) : todo[t][n] = k

TransfersOldRows ==
  \A c \in Call : c.op = "transfer" =>
    <<c.p, c.s>> \in InitialRows /\ <<c.p, c.d>> \in InitialRows

OldRowsInv ==
  /\ InitialRows \subseteq rows
  /\ \A t \in Worker : TransferLocked(t)

\* A transfer has locked both rows, or has them on its list.
LEMMA TransferStaysLocked ==
  ASSUME TransfersOldRows, LockInv, OldRowsInv, NEW t \in Worker,
         (\E c \in Call : Begin(t, c)) \/ Proceed(t) \/ Crash(t)
  PROVE  TransferLocked(t)'
<1>1. /\ pc \in [Worker -> Statement] /\ DOMAIN call = Worker
      /\ DOMAIN todo = Worker /\ DOMAIN row_lock = Key
  BY DEF LockInv, WorkerTypes
<1>2. ASSUME EndCall(t) PROVE TransferLocked(t)'
  <2>1. pc'[t] = "idle"
    BY <1>1, <1>2 DEF EndCall
  <2> QED
    BY <2>1 DEF TransferLocked
<1>3. ASSUME NEW c \in Call, Begin(t, c) PROVE TransferLocked(t)'
  <2>1. call'[t] = c /\ ("o" \in DOMAIN c <=> c.op \in OrderOps)
    BY <1>1, <1>3, CallKinds DEF Begin
  <2>2. c.op = "transfer" => pc'[t] = "select"
    BY <1>1, <1>3, <2>1 DEF Begin, Goto, OrderOps, SalesOps, PurchaseOps
  <2> QED
    BY <2>1, <2>2 DEF TransferLocked, Op
<1>4. ASSUME pc[t] # "idle", call'[t] = call[t], TransferLocked(t),
             pc[t] \notin {"lock", "select"} \/ Op(t) # "transfer",
             \A k \in Key : row_lock[k] = t => row_lock'[k] = t
      PROVE  TransferLocked(t)'
  <2>1. /\ Op(t)' = Op(t) /\ Source(t)' = Source(t) /\ Dest(t)' = Dest(t)
    BY <1>4 DEF Op, Source, Dest
  <2>2. Op(t) = "transfer" => Source(t) \in Key /\ Dest(t) \in Key
    BY <1>4, RowsOfCall
  <2> QED
    BY <1>4, <2>1, <2>2 DEF TransferLocked
<1>5. TransferLocked(t)
  BY DEF OldRowsInv
<1>6. CASE LockOrder(t) \/ CheckLine(t)
  <2>1. pc[t] \in {"lock_order", "line"} /\ UNCHANGED <<call, row_lock>>
    BY <1>6 DEF LockOrder, CheckLine
  <2> QED
    BY <1>4, <1>5, <2>1
<1>7. CASE SelectRows(t)
  <2>1. PICK order \in SetToSeqs(ToLock(t)) :
          /\ pc[t] = "select" /\ todo' = [todo EXCEPT ![t] = order]
          /\ pc' = [pc EXCEPT ![t] = NextStatement(t, order)]
          /\ UNCHANGED <<call, row_lock>>
    BY <1>7 DEF SelectRows, Goto
  <2>2. SUFFICES ASSUME Op(t)' = "transfer" PROVE TransferLocked(t)'
    BY DEF TransferLocked
  <2>3. Op(t) = "transfer" /\ Source(t)' = Source(t) /\ Dest(t)' = Dest(t)
    BY <2>1, <2>2 DEF Op, Source, Dest
  <2>4. Source(t) \in rows /\ Dest(t) \in rows
    <3>1. call[t] \in Call /\ call[t].op = "transfer"
      BY <2>1, <2>3, LocksNow DEF Op
    <3> QED
      BY <3>1 DEF TransfersOldRows, OldRowsInv, Source, Dest
  <2>5. ToLock(t) = {Source(t)} \cup {Dest(t)}
    BY <2>3, <2>4 DEF ToLock, SelectedRows, Written
  <2>6. PICK S : S = ToLock(t)
    OBVIOUS
  <2>7. \A k \in {Source(t), Dest(t)} : \E n \in 1..Len(order) : order[n] = k
    <3>1. PICK i, j : i = Source(t) /\ j = Dest(t)
      OBVIOUS
    <3>2. S = {i} \cup {j}
      BY <2>5, <2>6, <3>1
    <3>3. IsFiniteSet({i})
      BY FS_Singleton
    <3>4. IsFiniteSet(S)
      BY <3>2, <3>3, FS_AddElement
    <3>5. \A x \in S : \E n \in 1..Len(order) : order[n] = x
      BY <2>6, <3>4, LockedInSomeOrder
    <3> QED
      BY <3>1, <3>2, <3>5
  <2>8. order # <<>>
    <3>1. \E n \in 1..Len(order) : TRUE
      BY <2>7
    <3>2. Len(<<>>) = 0
      BY EmptySeq
    <3>3. CASE order = <<>>
      <4>1. Len(order) = 0
        BY <3>2, <3>3, Zenon
      <4> QED
        BY <3>1, <4>1
    <3> QED
      BY <3>3
  <2>9. pc'[t] = "lock" /\ todo'[t] = order
    BY <1>1, <2>1, <2>3, <2>8 DEF NextStatement
  <2> QED
    BY <2>3, <2>7, <2>9 DEF TransferLocked
<1>8. CASE LockNextRow(t)
  <2>1. /\ pc[t] = "lock" /\ row_lock' = [row_lock EXCEPT ![NextRow(t)] = t]
        /\ todo' = [todo EXCEPT ![t] = Tail(@)]
        /\ pc' = [pc EXCEPT ![t] = NextStatement(t, Tail(todo[t]))]
        /\ UNCHANGED call
    BY <1>8 DEF LockNextRow, LockRow, Goto
  <2>2. \A k \in Key : row_lock[k] = t => row_lock'[k] = t
    BY <1>1, <2>1
  <2>3. CASE Op(t) # "transfer"
    BY <1>4, <1>5, <2>1, <2>2, <2>3
  <2>4. CASE Op(t) = "transfer"
    <3>1. /\ Source(t) \in Key /\ Dest(t) \in Key
          /\ Op(t)' = Op(t) /\ Source(t)' = Source(t) /\ Dest(t)' = Dest(t)
      BY <2>1, <2>4, RowsOfCall DEF Op, Source, Dest
    <3>2. todo[t] \in Seq(ToGo(t)) /\ todo[t] # <<>> /\ NextRow(t) = todo[t][1]
      <4>1. todo[t] \in Seq(ToGo(t)) /\ todo[t] # <<>>
        BY <2>1, LocksNow DEF Listed
      <4>2. NextRow(t) = Head(todo[t])
        BY <2>4 DEF NextRow
      <4> QED
        BY <4>1, <4>2
    <3>3. ASSUME NEW k \in {Source(t), Dest(t)}
          PROVE  \/ row_lock'[k] = t
                 \/ pc'[t] = "lock" /\ \E n \in 1..Len(todo'[t]) : todo'[t][n] = k
      <4>1. CASE row_lock[k] = t
        BY <2>2, <3>1, <4>1
      <4>2. CASE \E n \in 1..Len(todo[t]) : todo[t][n] = k
        <5>1. PICK n \in 1..Len(todo[t]) : todo[t][n] = k
          BY <4>2
        <5>2. CASE n = 1
          BY <1>1, <2>1, <3>1, <3>2, <5>1, <5>2
        <5>3. CASE n # 1
          <6>1. /\ Len(todo[t]) \in Nat /\ Len(todo[t]) # 1
                /\ Len(Tail(todo[t])) = Len(todo[t]) - 1
                /\ n - 1 \in 1..Len(Tail(todo[t]))
                /\ Tail(todo[t])[n - 1] = todo[t][n]
            BY <3>2, <5>1, <5>3
          <6>2. pc'[t] = "lock" /\ todo'[t] = Tail(todo[t])
            <7>1. Tail(todo[t]) # <<>>
              BY <3>2, <6>1, TailGoes
            <7> QED
              BY <1>1, <2>1, <2>4, <7>1 DEF NextStatement
          <6> QED
            BY <5>1, <6>1, <6>2
        <5> QED
          BY <5>2, <5>3
      <4> QED
        BY <1>5, <2>1, <2>4, <4>1, <4>2 DEF TransferLocked
    <3> QED
      BY <3>1, <3>3 DEF TransferLocked
  <2> QED
    BY <2>3, <2>4
<1>9. CASE ReadSource(t) \/ GetDest(t) \/ SaveSource(t) \/ SaveDest(t)
  <2>1. /\ pc[t] \in {"read_source", "get_dest", "save_source", "save_dest"}
        /\ UNCHANGED call
        /\ UNCHANGED row_lock \/ \E k : row_lock' = [row_lock EXCEPT ![k] = t]
    BY <1>9 DEF ReadSource, GetDest, SaveSource, SaveDest, SaveRow, LockRow
  <2>2. \A k \in Key : row_lock[k] = t => row_lock'[k] = t
    BY <1>1, <2>1
  <2> QED
    BY <1>4, <1>5, <2>1, <2>2
<1>10. CASE CheckEmpty(t)
  <2>1. pc[t] = "check" /\ UNCHANGED <<call, row_lock>>
    BY <1>10 DEF CheckEmpty
  <2> QED
    BY <1>4, <1>5, <2>1
<1>11. CASE Commit(t)
  BY <1>2, <1>11, CommitKind
<1>12. CASE MarkDeleted(t) \/ Raise(t) \/ DeadlockVictim(t) \/ Crash(t)
  BY <1>2, <1>12 DEF MarkDeleted, Raise, DeadlockVictim, Crash, Rollback
<1> QED
  BY <1>3, <1>6, <1>7, <1>8, <1>9, <1>10, <1>11, <1>12 DEF Proceed

LEMMA OldRowsKept ==
  ASSUME TransfersOldRows, LockInv, OldRowsInv, [RLNext]_rlVars
  PROVE  OldRowsInv'
<1>1. CASE UNCHANGED rlVars
  <2>1. UNCHANGED rows /\ UNCHANGED workerVars
    BY <1>1 DEF rlVars, vars, invVars
  <2> QED
    BY <2>1 DEF OldRowsInv, workerVars, TransferLocked, Op, Source, Dest
<1>2. ASSUME NEW t \in Worker,
             (\E c \in Call : Begin(t, c)) \/ Proceed(t) \/ Crash(t)
      PROVE  OldRowsInv'
  <2>1. ASSUME NEW u \in Worker \ {t} PROVE TransferLocked(u)'
    <3>1. Waits(u) /\ TransferLocked(u)
      BY <1>2, OneMoves, OthersWait DEF OldRowsInv
    <3>2. pc[u] # "idle" /\ Op(u) = "transfer" => Source(u) \in Key /\ Dest(u) \in Key
      BY RowsOfCall
    <3>3. Op(u)' = Op(u) /\ Source(u)' = Source(u) /\ Dest(u)' = Dest(u)
      BY <3>1 DEF Waits, Op, Source, Dest
    <3> QED
      BY <3>1, <3>2, <3>3 DEF Waits, TransferLocked
  <2>2. TransferLocked(t)'
    BY <1>2, TransferStaysLocked
  <2>3. rows \subseteq rows'
    BY <1>2, StepKinds DEF Commit, MarkDeleted, vars, invVars
  <2> QED
    BY <2>1, <2>2, <2>3 DEF OldRowsInv
<1> QED
  BY <1>1, <1>2 DEF RLNext

LEMMA OldRowsRead ==
  ASSUME LockInv, OldRowsInv
  PROVE  TransfersReadLockedRows
BY LocksNow DEF Placed, OldRowsInv, TransferLocked, TransfersReadLockedRows

LEMMA OldRowsStart == RLInit => OldRowsInv
BY DEF RLInit, Init, SOInit, InvInit, OldRowsInv, TransferLocked

(***************************************************************************)
(* With such transfers no hypothesis about the interleaving is left: any   *)
(* number of workers, with any other requests, deletions among them, save  *)
(* no stale copy and keep all that WorkersKeepPromises says.               *)
(***************************************************************************)
THEOREM OldRowsKeepPromises ==
  ASSUME TransfersOldRows
  PROVE  RLSpec => /\ []NoStaleCopy
                   /\ [](StockNonNegative /\ ReservationsBacked)
                   /\ [](StockExplained /\ LedgerBalanced /\ ProductConserved)
                   /\ KeepsPromises
<1>1. LockInv /\ OldRowsInv /\ [RLNext]_rlVars => LockInv' /\ OldRowsInv'
  BY TransfersOldRows, LockStep, OldRowsKept
<1>2. RLSpec => []TransfersReadLockedRows
  BY <1>1, LockStart, OldRowsStart, OldRowsRead, PTL DEF RLSpec
<1> QED
  BY <1>2, LockedCopiesCurrent, WorkersKeepPromises, PTL

-----------------------------------------------------------------------------
(***************************************************************************)
(* Requests that cause no race at all: besides, no request, and so no      *)
(* order, is about a warehouse that is deleted.                            *)
(***************************************************************************)
OrdersApart ==
  /\ \A o \in SalesOrder : so_status[o] # "NONE" => so_warehouse[o] \notin Gone
  /\ \A o \in PurchaseOrder : po_status[o] # "NONE" => po_warehouse[o] \notin Gone

ApartInv == OldRowsInv /\ OrdersApart

LEMMA ApartOldRows == CallsApart => TransfersOldRows
BY DEF CallsApart, TransfersOldRows

LEMMA ApartNoRaces ==
  ASSUME CallsApart, LockInv, ApartInv
  PROVE  DeletionsAlone
<1>1. ASSUME NEW t \in Worker, NEW u \in Worker,
             pc[t] \in {"check", "mark"}, pc[u] # "idle"
      PROVE  call[t].w \notin CallWarehouses(u)
  <2>1. call[t].w \in Gone
    <3>1. call[t] \in Call /\ call[t].op = "delete"
      BY <1>1, LocksNow DEF Placed, Op
    <3> QED
      BY <3>1 DEF Gone
  <2>2. call[u] \in Call /\ OrderHeld(u) /\ Op(u) = call[u].op
    BY <1>1, LocksNow DEF Op
  <2>3. CASE Op(u) \in SalesOps
    <3>1. call[u].o \in SalesOrder /\ so_status[call[u].o] # "NONE"
      BY <2>2, <2>3, CallOrder DEF OrderHeld, OrderOps, OrderExists
    <3>2. so_warehouse[call[u].o] \notin Gone
      BY <3>1 DEF ApartInv, OrdersApart
    <3> QED
      BY <2>1, <2>3, <3>2 DEF CallWarehouses, SalesOps
  <2>4. CASE Op(u) \in PurchaseOps
    <3>1. /\ call[u].o \in PurchaseOrder /\ call[u].o \notin SalesOrder
          /\ po_status[call[u].o] # "NONE"
      BY <2>2, <2>4, CallOrder DEF OrderHeld, OrderOps, OrderExists
    <3>2. po_warehouse[call[u].o] \notin Gone
      BY <3>1 DEF ApartInv, OrdersApart
    <3> QED
      BY <2>1, <2>4, <3>2 DEF CallWarehouses, PurchaseOps
  <2>5. CASE Op(u) \notin OrderOps
    BY <2>1, <2>2, <2>5
    DEF CallsApart, CallWarehouses, OrderOps, SalesOps, PurchaseOps
  <2> QED
    BY <2>3, <2>4, <2>5 DEF OrderOps
<1> QED
  BY <1>1 DEF DeletionsAlone

LEMMA CommitApart ==
  ASSUME CallsApart, LockInv, OrdersApart, NEW t \in Worker, Commit(t)
  PROVE  OrdersApart'
<1>1. /\ DOMAIN so_status = SalesOrder /\ DOMAIN so_warehouse = SalesOrder
      /\ DOMAIN po_status = PurchaseOrder /\ DOMAIN po_warehouse = PurchaseOrder
  BY DEF LockInv, SOTypeOK, DutyInv, POTypeOK
<1>2. call[t] \in Call /\ Op(t) = call[t].op
  BY CommitKind
<1>3. CASE Op(t) = "create"
  <2>1. SalesOrderWritten(t) /\ UNCHANGED poVars /\ call[t].w \notin Gone
    BY <1>2, <1>3, CommitKind DEF CallsApart
  <2>2. PICK o \in SalesOrder :
          /\ so_status' = [so_status EXCEPT ![o] = "CONFIRMED"]
          /\ so_warehouse' = [so_warehouse EXCEPT ![o] = call[t].w]
    BY <1>3, <2>1 DEF SalesOrderWritten
  <2> QED
    BY <1>1, <2>1, <2>2 DEF OrdersApart, poVars
<1>4. CASE Op(t) = "draft"
  <2>1. PurchaseOrderWritten(t) /\ UNCHANGED soVars /\ call[t].w \notin Gone
    BY <1>2, <1>4, CommitKind DEF CallsApart
  <2>2. PICK o \in PurchaseOrder :
          /\ po_status' = [po_status EXCEPT ![o] = "DRAFT"]
          /\ po_warehouse' = [po_warehouse EXCEPT ![o] = call[t].w]
    BY <1>4, <2>1 DEF PurchaseOrderWritten, Drafted
  <2> QED
    BY <1>1, <2>1, <2>2 DEF OrdersApart, soVars
<1>5. CASE Op(t) \in SalesOps
  <2>1. PICK s : so_status' = [so_status EXCEPT ![call[t].o] = s]
    BY <1>5, SalesOrderCommit
  <2>2. /\ call[t].o \in SalesOrder /\ so_status[call[t].o] # "NONE"
        /\ UNCHANGED so_warehouse /\ UNCHANGED poVars
    <3>1. call[t].o \in SalesOrder /\ UNCHANGED so_warehouse /\ UNCHANGED poVars
      BY <1>5, SalesOrderCommit
    <3>2. OrderExists(call[t].o)
      BY <1>5, CommitKind DEF OrderHeld, OrderOps
    <3> QED
      BY <3>1, <3>2 DEF OrderExists
  <2> QED
    BY <1>1, <2>1, <2>2 DEF OrdersApart, poVars
<1>6. CASE Op(t) \in PurchaseOps
  <2>1. PICK s : po_status' = [po_status EXCEPT ![call[t].o] = s]
    BY <1>6, PurchaseOrderCommit
  <2>2. /\ call[t].o \in PurchaseOrder /\ po_status[call[t].o] # "NONE"
        /\ UNCHANGED po_warehouse /\ UNCHANGED soVars
    BY <1>6, PurchaseOrderCommit DEF OrderExists
  <2> QED
    BY <1>1, <2>1, <2>2 DEF OrdersApart, soVars
<1>7. CASE Op(t) \in {"adjust", "transfer"}
  BY <1>7, CommitKind DEF OrdersApart, soVars, poVars
<1> QED
  BY <1>3, <1>4, <1>5, <1>6, <1>7, CommitKind DEF OrderOps

LEMMA ApartKeeps ==
  ASSUME CallsApart, LockInv, ApartInv, [RLNext]_rlVars
  PROVE  ApartInv'
<1>1. OldRowsInv'
  BY ApartOldRows, OldRowsKept DEF ApartInv
<1>2. UNCHANGED vars \/ \E t \in Worker : Commit(t) \/ MarkDeleted(t)
  BY StepKinds DEF RLNext, rlVars
<1>3. OrdersApart'
  <2>1. CASE UNCHANGED soVars /\ UNCHANGED poVars
    BY <2>1 DEF ApartInv, OrdersApart, soVars, poVars
  <2>2. ASSUME NEW t \in Worker, Commit(t) PROVE OrdersApart'
    BY <2>2, CommitApart DEF ApartInv
  <2> QED
    BY <1>2, <2>1, <2>2 DEF MarkDeleted, vars
<1> QED
  BY <1>1, <1>3 DEF ApartInv

(***************************************************************************)
(* Requests that transfer only between rows that have always been there,   *)
(* and delete only warehouses that no other request is about, never race:  *)
(* no hypothesis about the interleaving is needed.                         *)
(***************************************************************************)
THEOREM ApartCallsNeverRace ==
  ASSUME CallsApart
  PROVE  RLSpec => [](TransfersReadLockedRows /\ DeletionsAlone)
<1>1. LockInv /\ ApartInv /\ [RLNext]_rlVars => LockInv' /\ ApartInv'
  BY CallsApart, LockStep, ApartKeeps
<1>2. RLInit => LockInv /\ ApartInv
  BY LockStart, OldRowsStart DEF RLInit, Init, SOInit, POInit, ApartInv, OrdersApart
<1>3. LockInv /\ ApartInv => TransfersReadLockedRows /\ DeletionsAlone
  BY CallsApart, OldRowsRead, ApartNoRaces DEF ApartInv
<1> QED
  BY <1>1, <1>2, <1>3, PTL DEF RLSpec

(***************************************************************************)
(* Such requests have the effect of calls run one after the other, however *)
(* many workers serve them.                                                *)
(***************************************************************************)
THEOREM ApartCallsSerialize ==
  ASSUME CallsApart
  PROVE  RLSpec => SerializesCalls /\ []NoStaleCopy
<1>1. RLSpec => [](TransfersReadLockedRows /\ DeletionsAlone)
  BY CallsApart, ApartCallsNeverRace
<1> QED
  BY <1>1, LocksSerialize, LockedCopiesCurrent, PTL

-----------------------------------------------------------------------------
(***************************************************************************)
(* The deadlocks.  A call locks only rows that it is going to write, and   *)
(* its order before any row: whoever waits for an order holds nothing.     *)
(***************************************************************************)
Claims(t) ==
  /\ \A k \in Key : row_lock[k] = t => k \in Written(t) /\ pc[t] # "lock_order"
  /\ \A o \in SalesOrder \cup PurchaseOrder :
       order_lock[o] = t => pc[t] # "lock_order"
  /\ pc[t] = "lock" /\ Op(t) # "receive" =>
       todo[t] # <<>> /\ todo[t] \in Seq(Written(t))

ClaimInv == \A t \in Worker : pc[t] # "idle" => Claims(t)

\* Which rows a call writes is settled when it begins.
LEMMA WrittenStays ==
  ASSUME LockInv, NEW u \in Worker, pc[u] # "idle", call'[u] = call[u], Spares(u)
  PROVE  Written(u)' = Written(u)
<1>1. call[u] \in Call /\ OrderHeld(u) /\ Op(u)' = Op(u)
  BY LocksNow DEF Op
<1>2. CASE Op(u) = "receive"
  <2>1. /\ call[u].o \in PurchaseOrder /\ po_status[call[u].o] # "NONE"
        /\ OrderExists(call[u].o)
    BY <1>1, <1>2, CallOrder DEF OrderHeld, OrderOps, PurchaseOps, OrderExists, Op
  <2>2. ReceiptLines(u)' = ReceiptLines(u) /\ ReceiptLines(u) \subseteq Line
    BY <1>1, <1>2, <2>1, ReceiptStays DEF Spares
  <2>3. \A l \in Line : LineRow(u, l)' = LineRow(u, l)
    BY <2>1 DEF Spares, SparesPurchases, LineRow
  <2>4. /\ Written(u) = {LineRow(u, l) : l \in ReceiptLines(u)}
        /\ Written(u)' = {LineRow(u, l)' : l \in ReceiptLines(u)'}
    BY <1>1, <1>2 DEF Written
  <2> QED
    BY <2>2, <2>3, <2>4
<1>3. CASE Op(u) \in {"create", "dispatch", "cancel"}
  <2>1. CallItems(u)' = CallItems(u) /\ CallWarehouse(u)' = CallWarehouse(u)
    <3>1. CASE Op(u) = "create"
      BY <1>1, <3>1 DEF CallItems, CallWarehouse
    <3>2. CASE Op(u) \in {"dispatch", "cancel"}
      <4>1. call[u].o \in SalesOrder /\ so_status[call[u].o] # "NONE"
        BY <1>1, <3>2, CallOrder
        DEF OrderHeld, OrderOps, SalesOps, OrderExists, Op
      <4> QED
        BY <1>1, <3>2, <4>1 DEF Spares, SparesSales, CallItems, CallWarehouse
    <3> QED
      BY <1>3, <3>1, <3>2
  <2> QED
    BY <1>1, <1>3, <2>1 DEF Written
<1>4. CASE Op(u) \notin {"receive", "create", "dispatch", "cancel"}
  BY <1>1, <1>4 DEF Written, Adjusted, Source, Dest
<1> QED
  BY <1>2, <1>3, <1>4

\* The row that a call locks next is one that it writes.
LEMMA NextWritten ==
  ASSUME LockInv, NEW t \in Worker, pc[t] = "lock", Claims(t)
  PROVE  NextRow(t) \in Written(t)
<1>1. CASE Op(t) = "receive"
  <2>1. Head(todo[t]) \in ReceiptLines(t)
    <3>1. todo[t] \in Seq(ReceiptLines(t)) /\ todo[t] # <<>>
      BY <1>1, LocksNow DEF Listed, ToGo
    <3> QED
      BY <3>1
  <2> QED
    BY <1>1, <2>1 DEF NextRow, Written
<1>2. CASE Op(t) # "receive"
  <2>1. todo[t] # <<>> /\ todo[t] \in Seq(Written(t))
    BY <1>2 DEF Claims
  <2>2. Head(todo[t]) \in Written(t)
    BY <2>1
  <2> QED
    BY <1>2, <2>2 DEF NextRow
<1> QED
  BY <1>1, <1>2

\* What the call itself does.
LEMMA ClaimsOwn ==
  ASSUME LockInv, LockInv', NEW t \in Worker, pc[t] # "idle" => Claims(t),
         (\E c \in Call : Begin(t, c)) \/ Proceed(t) \/ Crash(t), pc'[t] # "idle"
  PROVE  Claims(t)'
<1>1. /\ pc \in [Worker -> Statement] /\ todo \in [Worker -> Lists]
      /\ row_lock \in [Key -> Worker \cup {None}]
  BY DEF LockInv, WorkerTypes
<1>2. CASE \E c \in Call : Begin(t, c)
  <2>1. /\ pc[t] = "idle" /\ UNCHANGED <<row_lock, order_lock>> /\ pc'[t] # "lock"
    BY <1>1, <1>2 DEF Begin, Goto
  <2>2. /\ \A k \in Key : row_lock'[k] # t
        /\ \A o \in SalesOrder \cup PurchaseOrder : order_lock'[o] # t
    BY <2>1 DEF LockInv, WorkerLocks, Rested
  <2> QED
    BY <2>1, <2>2 DEF Claims
<1>3. CASE ~\E c \in Call : Begin(t, c)
  <2>1. ~EndCall(t)
    BY CallEnds DEF LockInv
  <2>2. \/ LockOrder(t) \/ SelectRows(t) \/ CheckLine(t) \/ LockNextRow(t)
        \/ CheckEmpty(t)
        \/ ReadSource(t) \/ GetDest(t) \/ SaveSource(t) \/ SaveDest(t)
    BY <1>3, <2>1
    DEF Proceed, Commit, MarkDeleted, Raise, DeadlockVictim, Crash, Rollback
  <2>3. UNCHANGED vars /\ UNCHANGED call /\ pc[t] # "idle" /\ pc'[t] # "lock_order"
    <3>1. \A left : NextStatement(t, left) # "lock_order"
      BY DEF NextStatement, AfterLocks
    <3> QED
      BY <1>1, <2>2, <3>1
      DEF LockOrder, SelectRows, CheckLine, LockNextRow, CheckEmpty, ReadSource,
          GetDest, SaveSource, SaveDest, SaveRow, Goto
  <2>4. Written(t)' = Written(t) /\ Op(t)' = Op(t)
    BY <2>3, NothingWritten, WrittenStays DEF Op
  <2>5. \A k \in Key : row_lock[k] = t => k \in Written(t)
    BY <2>3 DEF Claims
  <2>6. SUFFICES /\ \A k \in Key : row_lock'[k] = t => k \in Written(t)
                 /\ pc'[t] = "lock" /\ Op(t) # "receive" =>
                      todo'[t] # <<>> /\ todo'[t] \in Seq(Written(t))
    BY <2>3, <2>4 DEF Claims
  <2>7. CASE LockOrder(t) \/ CheckLine(t) \/ CheckEmpty(t) \/ ReadSource(t)
    <3>1. CheckLine(t) => Op(t) = "receive"
      BY LocksNow DEF CheckLine, Placed
    <3> QED
      BY <1>1, <2>5, <2>7, <3>1
      DEF LockOrder, CheckLine, CheckEmpty, ReadSource, Goto
  <2>8. CASE SelectRows(t)
    <3>1. PICK order \in SetToSeqs(ToLock(t)) :
            /\ todo' = [todo EXCEPT ![t] = order] /\ row_lock' = row_lock
            /\ pc' = [pc EXCEPT ![t] = NextStatement(t, order)]
      BY <2>8 DEF SelectRows, Goto
    <3>2. pc'[t] = "lock" => todo'[t] = order /\ order # <<>>
      BY <1>1, <3>1 DEF NextStatement, AfterLocks
    <3>3. ASSUME Op(t) # "receive" PROVE order \in Seq(Written(t))
      <4>1. ToLock(t) \subseteq Written(t)
        BY <3>3 DEF ToLock, SelectedRows, Written
      <4>2. order \in Seq(ToLock(t))
        BY <2>3, SelectedOrder
      <4> QED
        BY <4>1, <4>2, SeqGrows
    <3> QED
      BY <2>5, <3>1, <3>2, <3>3
  <2>9. CASE LockNextRow(t)
    <3>1. PICK k : k = NextRow(t)
      OBVIOUS
    <3>2. /\ pc[t] = "lock" /\ row_lock' = [row_lock EXCEPT ![k] = t]
          /\ todo' = [todo EXCEPT ![t] = Tail(@)]
      BY <2>9, <3>1 DEF LockNextRow, LockRow
    <3>3. k \in Written(t)
      BY <2>3, <3>1, <3>2, NextWritten
    <3>4. \A m \in Key : row_lock'[m] = t => m \in Written(t)
      BY <1>1, <2>5, <3>2, <3>3
    <3>5. ASSUME pc'[t] = "lock", Op(t) # "receive"
          PROVE  todo'[t] # <<>> /\ todo'[t] \in Seq(Written(t))
      <4>1. todo[t] # <<>> /\ todo[t] \in Seq(Written(t))
        BY <2>3, <3>2, <3>5 DEF Claims
      <4>2. todo'[t] # <<>>
        BY <3>5, LocksNow DEF Listed, LockInv, WorkerLocks
      <4>3. todo'[t] = Tail(todo[t])
        BY <1>1, <3>2
      <4> QED
        BY <4>1, <4>2, <4>3
    <3> QED
      BY <3>4, <3>5
  <2>10. CASE GetDest(t) \/ SaveSource(t) \/ SaveDest(t)
    <3>1. /\ pc[t] \in {"get_dest", "save_source", "save_dest"} /\ pc'[t] # "lock"
          /\ \/ row_lock' = row_lock
             \/ \E k \in {Source(t), Dest(t)} : row_lock' = [row_lock EXCEPT ![k] = t]
      BY <1>1, <2>10 DEF GetDest, SaveSource, SaveDest, SaveRow, LockRow, Goto
    <3>2. Op(t) = "transfer"
      BY <3>1, LocksNow DEF Placed
    <3>3. Written(t) = {Source(t), Dest(t)}
      BY <3>2 DEF Written
    <3> QED
      BY <1>1, <2>5, <3>1, <3>3
  <2> QED
    BY <2>2, <2>7, <2>8, <2>9, <2>10
<1> QED
  BY <1>2, <1>3

LEMMA ClaimStep ==
  ASSUME LockInv, ClaimInv, [RLNext]_rlVars
  PROVE  ClaimInv'
<1>1. LockInv'
  BY LockStep
<1>2. ASSUME NEW u \in Worker, Waits(u), Spares(u), pc'[u] # "idle"
      PROVE  Claims(u)'
  <2>1. pc[u] # "idle" /\ call'[u] = call[u]
    BY <1>2 DEF Waits
  <2>2. Written(u)' = Written(u) /\ Op(u)' = Op(u) /\ Claims(u)
    BY <1>2, <2>1, WrittenStays DEF Op, ClaimInv
  <2> QED
    BY <1>2, <2>2 DEF Claims, Waits
<1>3. CASE UNCHANGED rlVars
  <2>1. UNCHANGED vars /\ \A u \in Worker : Waits(u)
    BY <1>3 DEF rlVars, workerVars, Waits
  <2> QED
    BY <1>2, <2>1, NothingWritten DEF ClaimInv
<1>4. ASSUME NEW t \in Worker,
             (\E c \in Call : Begin(t, c)) \/ Proceed(t) \/ Crash(t)
      PROVE  ClaimInv'
  <2>1. ASSUME NEW u \in Worker \ {t} PROVE Waits(u) /\ Spares(u)
    BY <1>4, OneMoves, OthersWait, StepKinds, CommitSpares, MarkWrites, NothingWritten
  <2>2. pc'[t] # "idle" => Claims(t)'
    BY <1>1, <1>4, ClaimsOwn DEF ClaimInv
  <2> QED
    BY <1>2, <2>1, <2>2 DEF ClaimInv
<1> QED
  BY <1>3, <1>4 DEF RLNext

\* What a worker waits for, unless it is an order, is a row that it writes.
LEMMA WaitedWritten ==
  ASSUME LockInv, ClaimInv, NEW t \in Worker, WaitedRow(t) # None
  PROVE  WaitedRow(t) \in Written(t) /\ WaitedRow(t) \in Key
<1>1. pc[t] \in {"lock", "get_dest", "save_source", "save_dest"}
  BY DEF WaitedRow
<1>2. pc[t] # "idle" /\ Claims(t) /\ Placed(t)
  BY <1>1, LocksNow DEF ClaimInv
<1>3. WaitedRow(t) \in Written(t)
  <2>1. CASE pc[t] = "lock"
    BY <1>2, <2>1, NextWritten DEF WaitedRow
  <2>2. CASE pc[t] # "lock"
    <3>1. Op(t) = "transfer"
      BY <1>1, <1>2, <2>2 DEF Placed
    <3> QED
      BY <1>1, <2>2, <3>1 DEF WaitedRow, Written
  <2> QED
    BY <2>1, <2>2
<1> QED
  BY <1>2, <1>3, WrittenKeys

\* In a deadlock each call holds a row that it writes and waits for another.
DeadlockedOverRows ==
  \A t \in Worker : Deadlocked(t) =>
    \E j, k \in Written(t) : row_lock[j] = t /\ row_lock[k] \in Worker \ {t}

(***************************************************************************)
(* Whatever races, workers wait in a cycle only for inventory rows, and    *)
(* only calls that write two rows or more are in it: the locks of orders   *)
(* take no part, and adjustments and receipts of one row are never chosen  *)
(* as a victim.  The order of the rows is all that "lock in consistent     *)
(* order" has to settle.                                                   *)
(***************************************************************************)
THEOREM DeadlocksOverRows == RLSpec => []DeadlockedOverRows
<1>1. RLInit => LockInv /\ ClaimInv
  BY LockStart DEF RLInit, ClaimInv
<1>2. LockInv /\ ClaimInv /\ [RLNext]_rlVars => LockInv' /\ ClaimInv'
  BY LockStep, ClaimStep
<1>3. ASSUME LockInv, ClaimInv, NEW t \in Worker, Deadlocked(t)
      PROVE  \E j, k \in Written(t) : row_lock[j] = t /\ row_lock[k] \in Worker \ {t}
  <2>1. PICK cycle \in SUBSET Worker :
          /\ t \in cycle
          /\ \A u \in cycle : Blocker(u) \in cycle
          /\ \A u \in cycle : \E v \in cycle : Blocker(v) = u
    BY <1>3 DEF Deadlocked
  <2>2. None \notin Worker
    BY RowLockingAssumption
  <2>3. ASSUME NEW v \in cycle, pc[v] # "lock_order"
        PROVE  /\ WaitedRow(v) \in Written(v) /\ WaitedRow(v) \in Key
               /\ row_lock[WaitedRow(v)] = Blocker(v) /\ Blocker(v) # v
    <3>1. /\ WaitedRow(v) # None /\ row_lock[WaitedRow(v)] = Blocker(v)
          /\ Blocker(v) # v
      BY <2>1, <2>2, <2>3 DEF Blocker
    <3> QED
      BY <1>3, <3>1, WaitedWritten
  <2>4. ASSUME NEW u \in cycle, pc[u] = "lock_order" PROVE FALSE
    <3>1. PICK v \in cycle : Blocker(v) = u
      BY <2>1
    <3>2. /\ \A k \in Key : row_lock[k] # u
          /\ \A o \in SalesOrder \cup PurchaseOrder : order_lock[o] # u
      BY <1>3, <2>4 DEF ClaimInv, Claims
    <3>3. CASE pc[v] = "lock_order"
      <4>1. order_lock[call[v].o] = u
        BY <3>1, <3>3 DEF Blocker
      <4>2. call[v].o \in SalesOrder \cup PurchaseOrder
        <5>1. call[v] \in Call /\ call[v].op \in OrderOps
          BY <1>3, <3>3, LocksNow DEF Placed, Op
        <5> QED
          BY <5>1, CallOrder DEF OrderOps
      <4> QED
        BY <3>2, <4>1, <4>2
    <3>4. CASE pc[v] # "lock_order"
      BY <2>3, <3>1, <3>2, <3>4
    <3> QED
      BY <3>3, <3>4
  <2>5. PICK v \in cycle : Blocker(v) = t
    BY <2>1
  <2>6. row_lock[WaitedRow(v)] = t /\ WaitedRow(v) \in Key
    BY <2>3, <2>4, <2>5
  <2>7. pc[t] # "idle"
    BY <1>3, <2>6 DEF LockInv, WorkerLocks, Rested
  <2>8. WaitedRow(v) \in Written(t)
    BY <1>3, <2>6, <2>7 DEF ClaimInv, Claims
  <2>9. /\ WaitedRow(t) \in Written(t)
        /\ row_lock[WaitedRow(t)] \in Worker \ {t}
    BY <2>1, <2>3, <2>4
  <2> QED
    BY <2>6, <2>8, <2>9
<1>4. LockInv /\ ClaimInv => DeadlockedOverRows
  BY <1>3 DEF DeadlockedOverRows
<1> QED
  BY <1>1, <1>2, <1>4, PTL DEF RLSpec

\* No call under way writes more than one row.
OneRowEach == \A t \in Worker : pc[t] # "idle" => \A j, k \in Written(t) : j = k

(***************************************************************************)
(* Among calls that write one row at most, of whatever kind and however    *)
(* many of them are about the same orders and rows, nobody waits in a      *)
(* cycle.                                                                  *)
(***************************************************************************)
THEOREM OneRowNoDeadlock == RLSpec /\ []OneRowEach => []NoDeadlock
<1>1. ASSUME NEW t \in Worker, pc[t] = "idle", LockInv PROVE ~Deadlocked(t)
  <2>1. Blocker(t) = None
    BY <1>1 DEF Blocker, WaitedRow
  <2>2. None \notin Worker
    BY RowLockingAssumption
  <2> QED
    BY <2>1, <2>2 DEF Deadlocked
<1>2. LockInv /\ DeadlockedOverRows /\ OneRowEach => NoDeadlock
  BY <1>1 DEF DeadlockedOverRows, OneRowEach, NoDeadlock
<1>3. RLSpec => []LockInv
  BY LockStart, LockStep, PTL DEF RLSpec
<1> QED
  BY <1>2, <1>3, DeadlocksOverRows, PTL

=============================================================================
