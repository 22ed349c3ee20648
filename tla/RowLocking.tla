----------------------------- MODULE RowLocking -----------------------------
(***************************************************************************)
(* The calls of SupplySync as workers run them at the same time:           *)
(* statement by statement, in transactions of PostgreSQL at READ           *)
(* COMMITTED.  The tables hold what is committed.  SELECT FOR UPDATE locks *)
(* the rows that exist when it starts, one by one, in an order nothing     *)
(* fixes; a plain read sees the committed row and takes no lock; save()    *)
(* writes every column of the copy in memory; locks last to the end of the *)
(* transaction.  The uncommitted writes of a call touch rows it has locked *)
(* and are seen by nobody, so they appear here when the call commits.      *)
(***************************************************************************)
EXTENDS SupplySync, SequencesExt

CONSTANTS
  Worker,   \* threads of the web and worker processes that serve calls
  Call      \* the requests that clients may send

AdjustCall == [op : {"adjust"}, p : Product, w : Warehouse,
               type : TransactionType, q : Quantity]
TransferCall == [op : {"transfer"}, p : Product, s : Warehouse, d : Warehouse,
                 q : Quantity]
CreateCall == [op : {"create"}, w : Warehouse,
               items : [Product -> 0..MaxInteger]]
SalesOrderCall == [op : {"dispatch", "deliver", "cancel"}, o : SalesOrder]
DeleteCall == [op : {"delete"}, w : Warehouse]
DraftCall == [op : {"draft"}, w : Warehouse, u : User,
              product : [Line -> Product \cup {None}],
              qty : [Line -> OrderedQty]]
PurchaseOrderCall == [op : {"submit", "withdraw"}, o : PurchaseOrder]
ApproveCall == [op : {"approve"}, o : PurchaseOrder, u : User]
ReceiveCall == [op : {"receive"}, o : PurchaseOrder,
                recv : [Line -> 0..MaxInteger]]

ASSUME RowLockingAssumption ==
  /\ IsFiniteSet(Worker)
  /\ None \notin Worker
  /\ SalesOrder \cap PurchaseOrder = {}
  /\ \A c \in Call :
       \/ c \in AdjustCall
       \/ c \in TransferCall /\ c.s # c.d
       \/ c \in CreateCall
       \/ c \in SalesOrderCall
       \/ c \in DeleteCall
       \/ c \in DraftCall
       \/ c \in PurchaseOrderCall \cup ApproveCall \cup ReceiveCall

VARIABLES
  pc,         \* the statement a worker runs next; "idle" between calls
  call,       \* the request it serves
  todo,       \* rows, or lines of a receipt, it has still to lock, in order
  local,      \* the rows it has read, as model instances in memory
  row_lock,   \* who holds the lock of an inventory row, or inserts the row
  order_lock  \* who holds the lock of a sales or purchase order

workerVars == <<pc, call, todo, local, row_lock, order_lock>>
rlVars == <<vars, workerVars>>

Statement == {"idle", "lock_order", "select", "line", "lock", "read_source",
              "get_dest", "save_source", "save_dest", "commit", "check",
              "mark"}

Columns == [available : Int, reserved : Int, damaged : Int]
\* A slip of EmptyRow, for a mutant: the insert gives the columns no value.
NullRow == [available |-> None, reserved |-> None, damaged |-> None]
\* The defaults of get_or_create.
EmptyRow == [available |-> 0, reserved |-> 0, damaged |-> 0]
CommittedRow(k) == [available |-> quantity_available[k],
                    reserved |-> quantity_reserved[k],
                    damaged |-> quantity_damaged[k]]
NothingRead == [k \in Key |-> None]

RLInit ==
  /\ Init
  /\ pc = [t \in Worker |-> "idle"]
  /\ call = [t \in Worker |-> None]
  /\ todo = [t \in Worker |-> <<>>]
  /\ local = [t \in Worker |-> NothingRead]
  /\ row_lock = [k \in Key |-> None]
  /\ order_lock = [o \in SalesOrder \cup PurchaseOrder |-> None]

-----------------------------------------------------------------------------
Op(t) == call[t].op
Source(t) == <<call[t].p, call[t].s>>
Dest(t) == <<call[t].p, call[t].d>>
Adjusted(t) == <<call[t].p, call[t].w>>

\* The items and the warehouse of a call about an order.
CallItems(t) == IF Op(t) = "create" THEN call[t].items ELSE so_items[call[t].o]
CallWarehouse(t) ==
  IF Op(t) = "create" THEN call[t].w ELSE so_warehouse[call[t].o]

\* The lines that a receipt names.
ReceiptLines(t) ==
  {l \in Line : HasLine(call[t].o, l) /\ call[t].recv[l] > 0}
LineRow(t, l) == <<item_product[<<call[t].o, l>>], po_warehouse[call[t].o]>>

\* The inventory rows that a call writes.
Written(t) ==
  CASE Op(t) = "adjust" -> {Adjusted(t)}
    [] Op(t) = "transfer" -> {Source(t), Dest(t)}
    [] Op(t) = "receive" -> {LineRow(t, l) : l \in ReceiptLines(t)}
    [] Op(t) \in {"create", "dispatch", "cancel"} ->
         {k \in Key : k[2] = CallWarehouse(t) /\ CallItems(t)[k[1]] > 0}
    [] OTHER -> {}

\* The status test of an order call, made as soon as the order is locked.
StatusAllows(t) ==
  LET o == call[t].o IN
  CASE Op(t) = "dispatch" -> so_status[o] \in Dispatchable
    [] Op(t) = "deliver" -> so_status[o] = "DISPATCHED"
    [] Op(t) = "cancel" -> so_status[o] \in Cancellable
    [] Op(t) = "submit" -> po_status[o] = "DRAFT" /\ \E l \in Line : HasLine(o, l)
    [] Op(t) = "approve" -> po_status[o] = "PENDING_APPROVAL" /\ MayApprove(o, call[t].u)
    [] Op(t) = "receive" -> po_status[o] \in Receivable
    [] Op(t) = "withdraw" -> po_status[o] \in CancellablePO
    [] OTHER -> TRUE

\* Slips of the operators below, for the mutants: transfers do not lock
\* first; an order is read without select_for_update.
TransferLocksNothing(t) ==
  IF Op(t) = "transfer" THEN {} ELSE Written(t) \cap rows
OrderOnlyRead(t) == order_lock

\* The rows that a SELECT FOR UPDATE over several rows finds.
SelectedRows(t) == Written(t) \cap rows

\* What the call locks row by row: adjust its one row, found or not, and a
\* receipt the row of each line, in an adjust of its own.
ToLock(t) ==
  CASE Op(t) = "adjust" -> {Adjusted(t)}
    [] Op(t) = "receive" -> ReceiptLines(t)
    [] OTHER -> SelectedRows(t)

OrderLocked(t) == [order_lock EXCEPT ![call[t].o] = t]

RowFree(t, k) == row_lock[k] \in {None, t}

RowsReleased(t) == [k \in Key |-> IF row_lock[k] = t THEN None ELSE row_lock[k]]

OrdersReleased(t) ==
  [o \in DOMAIN order_lock |->
     IF order_lock[o] = t THEN None ELSE order_lock[o]]

\* The end of a call, committed or rolled back: the worker forgets it.
EndCall(t) ==
  /\ pc' = [pc EXCEPT ![t] = "idle"]
  /\ call' = [call EXCEPT ![t] = None]
  /\ todo' = [todo EXCEPT ![t] = <<>>]
  /\ local' = [local EXCEPT ![t] = NothingRead]
  /\ row_lock' = RowsReleased(t)
  /\ order_lock' = OrdersReleased(t)

Rollback(t) == EndCall(t) /\ UNCHANGED vars

Goto(t, statement) == pc' = [pc EXCEPT ![t] = statement]

Read(t, k, row) == local' = [local EXCEPT ![t][k] = row]

LockRow(t, k) == row_lock' = [row_lock EXCEPT ![k] = t]

-----------------------------------------------------------------------------
\* Units that call c will record, to keep the audit table within MaxPosted.
Weight(c) ==
  CASE c.op = "adjust" -> IF c.type = "TRANSFER" THEN 0 ELSE c.q
    [] c.op = "transfer" -> 2 * c.q
    [] c.op = "dispatch" -> Total(so_items[c.o])
    [] c.op = "receive" -> Total(Arrival(c.o, c.recv))
    [] OTHER -> 0

InFlight ==
  Total([t \in Worker |-> IF pc[t] = "idle" THEN 0 ELSE Weight(call[t])])

\* The bound on orders: an id is left for every creation under way.
UnderWay(op) == Cardinality({t \in Worker : pc[t] # "idle" /\ Op(t) = op})
OrderIdLeft(op) ==
  UnderWay(op) < IF op = "create"
                 THEN Cardinality({o \in SalesOrder : so_status[o] = "NONE"})
                 ELSE Cardinality({o \in PurchaseOrder : po_status[o] = "NONE"})

OrderExists(o) ==
  IF o \in SalesOrder THEN so_status[o] # "NONE" ELSE po_status[o] # "NONE"

(***************************************************************************)
(* A request arrives and the call does its first reads.  Adjust, delete    *)
(* and the creations look the warehouse up, without a lock; a request      *)
(* about an order that does not exist is refused without a trace.          *)
(***************************************************************************)
Begin(t, c) ==
  /\ pc[t] = "idle"
  /\ CanPost(InFlight + Weight(c))
  /\ c.op \in {"create", "draft"} => OrderIdLeft(c.op)
  /\ c.op \in {"adjust", "create", "draft", "delete"} => WarehouseFound(c.w)
  /\ "o" \in DOMAIN c => OrderExists(c.o)
  /\ call' = [call EXCEPT ![t] = c]
  /\ Goto(t, CASE "o" \in DOMAIN c -> "lock_order"
               [] c.op = "delete" -> "check"
               [] c.op = "draft" -> "commit"
               [] OTHER -> "select")
  /\ UNCHANGED <<vars, todo, local, row_lock, order_lock>>

\* select_for_update() on the order: lock it, then read its status.
LockOrder(t) ==
  /\ pc[t] = "lock_order"
  /\ order_lock[call[t].o] = None
  /\ order_lock' = OrderLocked(t)
  /\ Goto(t, "select")
  /\ UNCHANGED <<vars, call, todo, local, row_lock>>

AfterLocks(t) == IF Op(t) = "transfer" THEN "read_source" ELSE "commit"

\* With rows or lines left to lock; a receipt tests a line before its row.
NextStatement(t, left) ==
  IF left = <<>> THEN AfterLocks(t)
  ELSE IF Op(t) = "receive" THEN "line" ELSE "lock"

\* The SELECT FOR UPDATE starts: only rows that exist now will be locked.
SelectRows(t) ==
  /\ pc[t] = "select"
  /\ StatusAllows(t)
  /\ \E order \in SetToSeqs(ToLock(t)) :
       /\ todo' = [todo EXCEPT ![t] = order]
       /\ Goto(t, NextStatement(t, order))
  /\ UNCHANGED <<vars, call, local, row_lock, order_lock>>

NextRow(t) ==
  IF Op(t) = "receive" THEN LineRow(t, Head(todo[t])) ELSE Head(todo[t])

\* What a receipt tests before it asks for the lock of a row: the quantity
\* left on the line, and in adjust_inventory the warehouse, without a lock.
LineAllowed(t) ==
  LET l == Head(todo[t])
      i == <<call[t].o, l>>
  IN /\ call[t].recv[l] <= quantity_ordered[i] - quantity_received[i]
     /\ WarehouseFound(po_warehouse[call[t].o])

CheckLine(t) ==
  /\ pc[t] = "line"
  /\ LineAllowed(t)
  /\ Goto(t, "lock")
  /\ UNCHANGED <<vars, call, todo, local, row_lock, order_lock>>

(***************************************************************************)
(* The next row, in its committed state once it is locked.  get_or_create  *)
(* inserts a row it does not find; an INSERT waits for another one of the  *)
(* same key, and if that one commits its IntegrityError sends              *)
(* get_or_create back to its SELECT FOR UPDATE.                            *)
(***************************************************************************)
LockNextRow(t) ==
  LET k == NextRow(t) IN
  /\ pc[t] = "lock"
  /\ RowFree(t, k)
  /\ LockRow(t, k)
  /\ Read(t, k, IF row_lock[k] = t THEN local[t][k]
                ELSE IF k \in rows THEN CommittedRow(k) ELSE EmptyRow)
  /\ todo' = [todo EXCEPT ![t] = Tail(@)]
  /\ Goto(t, NextStatement(t, Tail(todo[t])))
  /\ UNCHANGED <<vars, call, order_lock>>

-----------------------------------------------------------------------------
\* transfer_inventory reads the source again, without a lock.
ReadSource(t) ==
  /\ pc[t] = "read_source"
  /\ Source(t) \in rows
  /\ quantity_available[Source(t)] >= call[t].q
  /\ Read(t, Source(t), CommittedRow(Source(t)))
  /\ Goto(t, "get_dest")
  /\ UNCHANGED <<vars, call, todo, row_lock, order_lock>>

\* Its get_or_create of the destination has no select_for_update.
GetDest(t) ==
  LET k == Dest(t) IN
  /\ pc[t] = "get_dest"
  /\ \/ /\ k \in rows
        /\ Read(t, k, CommittedRow(k))
        /\ UNCHANGED row_lock
     \/ /\ k \notin rows
        /\ RowFree(t, k)
        /\ LockRow(t, k)
        /\ Read(t, k, EmptyRow)
  /\ Goto(t, "save_source")
  /\ UNCHANGED <<vars, call, todo, order_lock>>

\* UPDATE of a row waits for its lock and keeps it.
SaveRow(t, statement, k, next) ==
  /\ pc[t] = statement
  /\ RowFree(t, k)
  /\ LockRow(t, k)
  /\ Goto(t, next)
  /\ UNCHANGED <<vars, call, todo, local, order_lock>>

SaveSource(t) == SaveRow(t, "save_source", Source(t), "save_dest")
SaveDest(t) == SaveRow(t, "save_dest", Dest(t), "commit")

-----------------------------------------------------------------------------
\* What the call adds to each column of a row it has locked or read.
AvailableChange(t, k) ==
  CASE Op(t) = "adjust" -> AvailableDelta(call[t].type, call[t].q)
    [] Op(t) = "transfer" -> IF k = Source(t) THEN -call[t].q ELSE call[t].q
    [] Op(t) = "create" -> -CallItems(t)[k[1]]
    [] Op(t) = "cancel" -> CallItems(t)[k[1]]
    [] Op(t) = "receive" -> Arrival(call[t].o, call[t].recv)[k]
    [] OTHER -> 0

ReservedChange(t, k) ==
  CASE Op(t) = "create" -> CallItems(t)[k[1]]
    [] Op(t) \in {"dispatch", "cancel"} -> -CallItems(t)[k[1]]
    [] OTHER -> 0

DamagedChange(t, k) ==
  IF Op(t) = "adjust" THEN DamagedDelta(call[t].type, call[t].q) ELSE 0

Saved(t, k) ==
  [available |-> local[t][k].available + AvailableChange(t, k),
   reserved |-> local[t][k].reserved + ReservedChange(t, k),
   damaged |-> local[t][k].damaged + DamagedChange(t, k)]

\* The stock test, on the copies in memory.
StockAllows(t) ==
  \A k \in Written(t) :
    /\ local[t][k] # None
    /\ \/ Op(t) = "create"
       \/ Op(t) = "adjust" /\ Deducts(call[t].type)
       => Saved(t, k).available >= 0
    /\ Fits(Saved(t, k).available)
    /\ Fits(Saved(t, k).reserved)
    /\ Fits(Saved(t, k).damaged)

CallPosted(t) ==
  CASE Op(t) = "adjust" /\ call[t].type # "TRANSFER" ->
         [ledger EXCEPT ![<<Adjusted(t), call[t].type>>] = @ + call[t].q]
    [] Op(t) = "transfer" ->
         TransferPosted(call[t].p, call[t].s, call[t].d, call[t].q)
    [] Op(t) = "dispatch" -> DispatchPosted(CallItems(t), CallWarehouse(t))
    [] Op(t) = "receive" ->
         [x \in Key \X Posting |-> IF x[2] = "RECEIPT"
            THEN ledger[x] + Arrival(call[t].o, call[t].recv)[x[1]]
            ELSE ledger[x]]
    [] OTHER -> ledger

\* The tables of the sales orders, as the call leaves them.
SalesOrderWritten(t) ==
  \/ /\ Op(t) = "create"
     /\ \E o \in SalesOrder :
          /\ so_status[o] = "NONE"
          /\ so_status' = [so_status EXCEPT ![o] = "CONFIRMED"]
          /\ so_warehouse' = [so_warehouse EXCEPT ![o] = call[t].w]
          /\ so_items' = [so_items EXCEPT ![o] = call[t].items]
  \/ /\ Op(t) \in {"dispatch", "deliver", "cancel"}
     /\ so_status' = [so_status EXCEPT ![call[t].o] =
          CASE Op(t) = "dispatch" -> "DISPATCHED"
            [] Op(t) = "deliver" -> "DELIVERED"
            [] Op(t) = "cancel" -> "CANCELLED"]
     /\ UNCHANGED <<so_warehouse, so_items>>

Drafted(t) ==
  \E o \in PurchaseOrder :
    /\ po_status[o] = "NONE"
    /\ po_status' = [po_status EXCEPT ![o] = "DRAFT"]
    /\ po_warehouse' = [po_warehouse EXCEPT ![o] = call[t].w]
    /\ created_by' = [created_by EXCEPT ![o] = call[t].u]
    /\ item_product' = [i \in Item |->
         IF i[1] = o THEN call[t].product[i[2]] ELSE item_product[i]]
    /\ quantity_ordered' = [i \in Item |->
         IF i[1] = o /\ call[t].product[i[2]] # None
         THEN call[t].qty[i[2]] ELSE quantity_ordered[i]]
    /\ UNCHANGED <<approved_by, quantity_received>>

\* The tables of the purchase orders, as the call leaves them.
PurchaseOrderWritten(t) ==
  LET o == call[t].o IN
  \/ Op(t) = "draft" /\ Drafted(t)
  \/ /\ Op(t) \in {"submit", "approve", "receive", "withdraw"}
     /\ po_status' = [po_status EXCEPT ![o] =
          CASE Op(t) = "submit" -> "PENDING_APPROVAL"
            [] Op(t) = "approve" -> "APPROVED"
            [] Op(t) = "receive" -> ReceivedStatus(o, call[t].recv)
            [] Op(t) = "withdraw" -> "CANCELLED"]
     /\ approved_by' = IF Op(t) = "approve"
          THEN [approved_by EXCEPT ![o] = call[t].u] ELSE approved_by
     /\ quantity_received' = [i \in Item |->
          IF Op(t) = "receive" /\ i[1] = o /\ item_product[i] # None
          THEN quantity_received[i] + call[t].recv[i[2]]
          ELSE quantity_received[i]]
     /\ UNCHANGED <<po_warehouse, created_by, item_product, quantity_ordered>>

\* save() of every row, the other writes of the call, and COMMIT.
Commit(t) ==
  LET written == Written(t) IN
  /\ pc[t] = "commit"
  /\ StockAllows(t)
  /\ rows' = rows \cup written
  /\ quantity_available' = [k \in Key |-> IF k \in written
       THEN Saved(t, k).available ELSE quantity_available[k]]
  /\ quantity_reserved' = [k \in Key |-> IF k \in written
       THEN Saved(t, k).reserved ELSE quantity_reserved[k]]
  /\ quantity_damaged' = [k \in Key |-> IF k \in written
       THEN Saved(t, k).damaged ELSE quantity_damaged[k]]
  /\ ledger' = CallPosted(t)
  /\ \/ Op(t) \in {"adjust", "transfer"} /\ UNCHANGED <<soVars, poVars>>
     \/ SalesOrderWritten(t) /\ UNCHANGED poVars
     \/ PurchaseOrderWritten(t) /\ UNCHANGED soVars
  /\ EndCall(t)
  /\ UNCHANGED deleted

\* delete_warehouse runs in autocommit: look for stock, then mark.
CheckEmpty(t) ==
  /\ pc[t] = "check"
  /\ ~HasActiveInventory(call[t].w)
  /\ Goto(t, "mark")
  /\ UNCHANGED <<vars, call, todo, local, row_lock, order_lock>>

MarkDeleted(t) ==
  /\ pc[t] = "mark"
  /\ deleted' = deleted \cup {call[t].w}
  /\ EndCall(t)
  /\ UNCHANGED <<rows, quantity_available, quantity_reserved,
                 quantity_damaged, ledger, soVars, poVars>>

-----------------------------------------------------------------------------
\* A slip of Refused, for a mutant: a call waits for stock instead.
RefusedForStatus(t) ==
  \/ pc[t] = "select" /\ ~StatusAllows(t)
  \/ pc[t] = "line" /\ ~LineAllowed(t)
  \/ pc[t] = "check" /\ HasActiveInventory(call[t].w)

\* The call raises; atomic() rolls the transaction back.
Refused(t) ==
  \/ pc[t] = "select" /\ ~StatusAllows(t)
  \/ pc[t] = "line" /\ ~LineAllowed(t)
  \/ /\ pc[t] = "read_source"
     /\ \/ Source(t) \notin rows
        \/ quantity_available[Source(t)] < call[t].q
  \/ pc[t] = "commit" /\ ~StockAllows(t)
  \/ pc[t] = "check" /\ HasActiveInventory(call[t].w)

Raise(t) == Refused(t) /\ Rollback(t)

\* The row or order whose lock the worker waits for.
WaitedRow(t) ==
  CASE pc[t] = "lock" -> NextRow(t)
    [] pc[t] = "get_dest" /\ Dest(t) \notin rows -> Dest(t)
    [] pc[t] = "save_source" -> Source(t)
    [] pc[t] = "save_dest" -> Dest(t)
    [] OTHER -> None

Blocker(t) ==
  IF pc[t] = "lock_order" THEN order_lock[call[t].o]
  ELSE IF WaitedRow(t) = None \/ row_lock[WaitedRow(t)] = t THEN None
  ELSE row_lock[WaitedRow(t)]

\* The worker is part of a cycle of workers that wait for one another.
Deadlocked(t) ==
  \E cycle \in SUBSET Worker :
    /\ t \in cycle
    /\ \A u \in cycle : Blocker(u) \in cycle
    /\ \A u \in cycle : \E v \in cycle : Blocker(v) = u

\* PostgreSQL breaks the cycle by an error in one of the transactions.
DeadlockVictim(t) == Deadlocked(t) /\ Rollback(t)

\* The process dies or loses its connection.
Crash(t) == pc[t] # "idle" /\ Rollback(t)

Proceed(t) ==
  \/ LockOrder(t) \/ SelectRows(t) \/ CheckLine(t) \/ LockNextRow(t)
  \/ ReadSource(t) \/ GetDest(t) \/ SaveSource(t)
  \/ SaveDest(t) \/ Commit(t) \/ CheckEmpty(t)
  \/ MarkDeleted(t) \/ Raise(t) \/ DeadlockVictim(t)

RLNext ==
  \E t \in Worker :
    \/ \E c \in Call : Begin(t, c)
    \/ Proceed(t)
    \/ Crash(t)

RLSpec == RLInit /\ [][RLNext]_rlVars

(***************************************************************************)
(* A worker goes on with its call.  Strong fairness, since a lock it waits *)
(* for may be taken by others again and again: PostgreSQL serves the       *)
(* waiters of a lock in the order of their arrival.                        *)
(***************************************************************************)
RLFairness == \A t \in Worker : SF_rlVars(Proceed(t))

FairSpec == RLSpec /\ RLFairness

-----------------------------------------------------------------------------
(***************************************************************************)
(* Every variable has its type; an idle worker holds nothing.              *)
(***************************************************************************)
RLTypeOK ==
  /\ pc \in [Worker -> Statement]
  /\ call \in [Worker -> Call \cup {None}]
  /\ todo \in [Worker -> Seq(Key \cup Line)]
  /\ local \in [Worker -> [Key -> Columns \cup {None}]]
  /\ row_lock \in [Key -> Worker \cup {None}]
  /\ order_lock \in [SalesOrder \cup PurchaseOrder -> Worker \cup {None}]
  /\ \A t \in Worker :
       pc[t] = "idle" => /\ call[t] = None
                         /\ \A k \in Key : row_lock[k] # t
                         /\ \A o \in DOMAIN order_lock : order_lock[o] # t

(***************************************************************************)
(* The copy of a locked row in memory is the committed row: save() writes  *)
(* all columns of the copy back, so a stale one would undo what another    *)
(* worker did to any of them.                                              *)
(***************************************************************************)
NoStaleCopy ==
  \A t \in Worker, k \in Key :
    row_lock[k] = t /\ k \in rows /\ local[t][k] # None
      => local[t][k] = CommittedRow(k)

(***************************************************************************)
(* A transfer reads no row that it has not locked.  Its SELECT FOR UPDATE  *)
(* locks the rows it finds; it reads both rows again in later statements,  *)
(* and a row that was inserted in between is read without a lock.          *)
(***************************************************************************)
TransfersReadLockedRows ==
  \A t \in Worker :
    /\ pc[t] = "read_source" /\ Source(t) \in rows => row_lock[Source(t)] = t
    /\ pc[t] = "get_dest" /\ Dest(t) \in rows => row_lock[Dest(t)] = t

\* The warehouses whose stock or orders a call is about.
CallWarehouses(t) ==
  CASE Op(t) \in {"adjust", "create", "draft"} -> {call[t].w}
    [] Op(t) = "transfer" -> {call[t].s, call[t].d}
    [] Op(t) \in {"dispatch", "deliver", "cancel"} -> {so_warehouse[call[t].o]}
    [] Op(t) \in {"submit", "withdraw", "approve", "receive"} ->
         {po_warehouse[call[t].o]}
    [] OTHER -> {}

(***************************************************************************)
(* While a warehouse is being deleted, no call about it is under way:      *)
(* delete_warehouse takes no lock that would keep them apart.              *)
(***************************************************************************)
DeletionsAlone ==
  \A t, u \in Worker :
    pc[t] \in {"check", "mark"} /\ pc[u] # "idle"
      => call[t].w \notin CallWarehouses(u)

\* Requests whose calls keep to themselves: transfers between rows that have
\* always been there, and deletions of warehouses that no other one is about.
Gone == {c.w : c \in {d \in Call : d.op = "delete"}}
CallsApart ==
  \A c \in Call :
    /\ c.op = "transfer" =>
         /\ <<c.p, c.s>> \in InitialRows /\ <<c.p, c.d>> \in InitialRows
         /\ c.s \notin Gone /\ c.d \notin Gone
    /\ c.op \in {"adjust", "create", "draft"} => c.w \notin Gone

(***************************************************************************)
(* The interleaved calls have the effect of calls run one after the other, *)
(* in the order of their commits: whatever SupplySync promises holds of    *)
(* the tables while the workers run.                                       *)
(***************************************************************************)
SerializesCalls == Spec

(***************************************************************************)
(* inventory/services.py:102 "lock in consistent order to prevent          *)
(* deadlocks": no worker ever waits in a cycle.  The ids are sorted, but   *)
(* the query that locks the rows has no order.                             *)
(***************************************************************************)
NoDeadlock == \A t \in Worker : ~Deadlocked(t)

(***************************************************************************)
(* Every call ends, committed or rolled back, whatever the other workers   *)
(* do: no wait for a lock lasts for ever.                                  *)
(***************************************************************************)
CallsEnd == \A t \in Worker : pc[t] # "idle" ~> pc[t] = "idle"

=============================================================================
