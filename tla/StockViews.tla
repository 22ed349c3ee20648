----------------------------- MODULE StockViews -----------------------------
(***************************************************************************)
(* The views that GET requests keep in the Redis cache, against the calls  *)
(* that change what they show.  A reader looks the key up, on a miss reads *)
(* the tables and stores the result; a writer commits and deletes keys,    *)
(* in the order its code gives; an entry expires after its TTL.  What a    *)
(* view shows is abstracted to a version: the number of committed changes  *)
(* to it.                                                                  *)
(***************************************************************************)
EXTENDS Integers, Sequences, Nullable

CONSTANTS
  Reader,      \* threads that serve GET requests
  Writer,      \* threads that serve the calls below
  View,        \* the views of the model
  Call,        \* the calls of the model
  MaxVersion,  \* bound of the model: changes per view
  MaxEvents    \* bound of the model: events the broker holds

AllViews == {"detail", "low_stock", "warehouse", "dashboard", "supplier", "tree"}

AllCalls ==
  {"adjust", "transfer", "receive", "create_order", "cancel_order", "dispatch",
   "order_purchase", "update_warehouse", "delete_warehouse", "update_supplier",
   "delete_supplier", "create_category", "register"}

\* What each view reads from the tables, as far as a call can change it.
LowStockShows == {"available", "names"}
DetailShows == {"available", "reserved", "names"}
WarehouseShows == {"available", "warehouse"}
DashboardShows ==
  {"available", "movements", "names", "warehouse", "supplier", "orders",
   "counts"}
SupplierShows == {"supplier"}
TreeShows == {"category"}

Shows == [low_stock |-> LowStockShows, detail |-> DetailShows,
          warehouse |-> WarehouseShows, dashboard |-> DashboardShows,
          supplier |-> SupplierShows, tree |-> TreeShows]

\* What a call writes.  Stock is quantity_available; names are those of the
\* warehouses; register stands for a new warehouse, supplier or product,
\* order_purchase for every change of a purchase order but its receipt.
Writes(c) ==
  CASE c \in {"adjust", "transfer"} -> {"available", "movements"}
    [] c = "receive" -> {"available", "movements", "orders"}
    [] c \in {"create_order", "cancel_order"} -> {"available", "reserved"}
    [] c = "dispatch" -> {"reserved", "movements"}
    [] c = "order_purchase" -> {"orders"}
    [] c = "update_warehouse" -> {"warehouse", "names"}
    [] c = "delete_warehouse" -> {"warehouse"}
    [] c \in {"update_supplier", "delete_supplier"} -> {"supplier"}
    [] c = "create_category" -> {"category"}
    [] c = "register" -> {"counts"}

Changes(c) == {v \in AllViews : Shows[v] \cap Writes(c) # {}}

\* A slip of Script, for a mutant: the keys are deleted inside the
\* transaction.
DeletesFirst(c) ==
  IF c = "adjust" THEN <<"detail", "low_stock", "commit", "publish">>
  ELSE <<"commit">>

(***************************************************************************)
(* What a call does, in order: "commit" its changes, delete the key of a   *)
(* view, "publish" the event that a worker checks for low stock.  The      *)
(* other events are only logged.  receive runs adjust_inventory inside its *)
(* own transaction, so all of it precedes the commit.                      *)
(***************************************************************************)
Script(c) ==
  CASE c = "adjust" -> <<"commit", "detail", "low_stock", "publish">>
    [] c = "transfer" -> <<"commit", "detail", "low_stock">>
    [] c = "receive" -> <<"detail", "low_stock", "publish", "commit">>
    [] c \in {"create_order", "cancel_order"} ->
         <<"detail", "commit", "low_stock">>
    [] c \in {"dispatch", "order_purchase", "register"} -> <<"commit">>
    [] c \in {"update_warehouse", "delete_warehouse"} ->
         <<"commit", "warehouse">>
    [] c \in {"update_supplier", "delete_supplier"} -> <<"commit", "supplier">>
    [] c = "create_category" -> <<"commit", "tree">>

\* The views a call answers for: whoever has its answer is not shown what the
\* view was before it.  For the other views it changes, no key is deleted
\* after the commit, or none at all, and only the timeouts remain.
Refreshes(c) ==
  CASE c \in {"adjust", "transfer"} -> {"detail", "low_stock"}
    [] c \in {"create_order", "cancel_order"} -> {"low_stock"}
    [] c \in {"update_warehouse", "delete_warehouse"} -> {"warehouse"}
    [] c \in {"update_supplier", "delete_supplier"} -> {"supplier"}
    [] c = "create_category" -> {"tree"}
    [] c \in {"receive", "dispatch", "order_purchase", "register"} -> {}

ASSUME StockViewsAssumption ==
  /\ View \subseteq AllViews
  /\ Call \subseteq AllCalls
  /\ MaxVersion \in Nat
  /\ MaxEvents \in Nat
  /\ None \notin Call

VARIABLES
  version,   \* per view: the committed changes to what it shows
  cache,     \* per view: the entry of its key, None if there is none
  reading,   \* per reader: the GET it serves after a miss
  writing,   \* per writer: its call, the step it is at, what it committed
  events,    \* inventory-updated events the broker holds
  answered   \* history: the last version whose call has been answered

viewVars == <<version, cache, reading, writing, events, answered>>

\* What the tables said when they were first read, and when it was stored.
Entry == [read : Nat, stored : Nat]

ViewInit ==
  /\ version = [v \in View |-> 0]
  /\ cache = [v \in View |-> None]
  /\ reading = [r \in Reader |-> None]
  /\ writing = [t \in Writer |-> None]
  /\ events = 0
  /\ answered = [v \in View |-> 0]

-----------------------------------------------------------------------------
\* Slips of the operators below, for the mutants of the checks.
WritesThrough(v) ==
  [cache EXCEPT ![v] = [read |-> version[v] + 1, stored |-> version[v]]]
NoTimeout(v) == v # "low_stock"

\* cache.delete
Without(v) == [cache EXCEPT ![v] = None]

\* cache.set gives every entry a timeout.
TimesOut(v) == TRUE

\* GET: the lookup misses.  A hit answers from the entry and changes nothing.
Miss(r, v) ==
  /\ reading[r] = None
  /\ cache[v] = None
  /\ reading' = [reading EXCEPT ![r] = [view |-> v, read |-> None]]
  /\ UNCHANGED <<version, cache, writing, events, answered>>

ReadTables(r) ==
  /\ reading[r] # None
  /\ reading[r].read = None
  /\ reading' = [reading EXCEPT ![r].read = version[reading[r].view]]
  /\ UNCHANGED <<version, cache, writing, events, answered>>

\* cache.set, whatever the key holds by now.
Store(r) ==
  /\ reading[r] # None
  /\ reading[r].read # None
  /\ LET v == reading[r].view IN
       cache' = [cache EXCEPT ![v] = [read |-> reading[r].read,
                                      stored |-> version[v]]]
  /\ reading' = [reading EXCEPT ![r] = None]
  /\ UNCHANGED <<version, writing, events, answered>>

\* The row is not found, or the request dies.
GiveUpRead(r) ==
  /\ reading[r] # None
  /\ reading' = [reading EXCEPT ![r] = None]
  /\ UNCHANGED <<version, cache, writing, events, answered>>

-----------------------------------------------------------------------------
\* A call begins; one whose checks fail ends without a commit.
StartCall(t, c) ==
  /\ writing[t] = None
  /\ writing' = [writing EXCEPT ![t] = [call |-> c, at |-> 1, made |-> None]]
  /\ UNCHANGED <<version, cache, reading, events, answered>>

\* The next step of the call is s.
Takes(t, s) ==
  /\ writing[t] # None
  /\ writing[t].at <= Len(Script(writing[t].call))
  /\ Script(writing[t].call)[writing[t].at] = s

MovesOn(t) == writing' = [writing EXCEPT ![t].at = @ + 1]

CommitCall(t) ==
  LET changed == View \cap Changes(writing[t].call)
      next == [v \in View |->
                 IF v \in changed THEN version[v] + 1 ELSE version[v]]
  IN
  /\ Takes(t, "commit")
  /\ \A v \in changed : version[v] < MaxVersion
  /\ version' = next
  /\ writing' = [writing EXCEPT ![t] =
       [call |-> writing[t].call, at |-> writing[t].at + 1, made |-> next]]
  /\ UNCHANGED <<cache, reading, events, answered>>

Invalidate(t, v) ==
  /\ Takes(t, v)
  /\ cache' = Without(v)
  /\ MovesOn(t)
  /\ UNCHANGED <<version, reading, events, answered>>

\* A key that no view of the model has.
InvalidateOther(t, v) ==
  /\ Takes(t, v)
  /\ MovesOn(t)
  /\ UNCHANGED <<version, cache, reading, events, answered>>

Publish(t) ==
  /\ Takes(t, "publish")
  /\ events < MaxEvents
  /\ events' = events + 1
  /\ MovesOn(t)
  /\ UNCHANGED <<version, cache, reading, answered>>

\* The call has done all its steps and is answered.
Answer(t) ==
  /\ writing[t] # None
  /\ writing[t].at > Len(Script(writing[t].call))
  /\ writing' = [writing EXCEPT ![t] = None]
  /\ answered' = [v \in View |->
       IF v \in Refreshes(writing[t].call) /\ writing[t].made # None
          /\ writing[t].made[v] > answered[v]
       THEN writing[t].made[v] ELSE answered[v]]
  /\ UNCHANGED <<version, cache, reading, events>>

\* A check fails, Redis fails or the process dies before the answer: what is
\* committed stays, what is left is not done.
BreakOff(t) ==
  /\ writing[t] # None
  /\ writing' = [writing EXCEPT ![t] = None]
  /\ UNCHANGED <<version, cache, reading, events, answered>>

-----------------------------------------------------------------------------
Expire(v) ==
  /\ TimesOut(v)
  /\ cache[v] # None
  /\ cache' = [cache EXCEPT ![v] = None]
  /\ UNCHANGED <<version, reading, writing, events, answered>>

\* Celery beat, every five minutes.
AutoInvalidateLowStock ==
  /\ "low_stock" \in View
  /\ cache["low_stock"] # None
  /\ cache' = Without("low_stock")
  /\ UNCHANGED <<version, reading, writing, events, answered>>

\* A worker takes an event: the stock is low and it deletes the key, or it
\* is not, or the event is lost with the worker.
HandleUpdated ==
  /\ events > 0
  /\ events' = events - 1
  /\ \/ "low_stock" \in View /\ cache' = Without("low_stock")
     \/ UNCHANGED cache
  /\ UNCHANGED <<version, reading, writing, answered>>

ViewNext ==
  \/ \E r \in Reader : \/ \E v \in View : Miss(r, v)
                       \/ ReadTables(r) \/ Store(r) \/ GiveUpRead(r)
  \/ \E t \in Writer : \/ \E c \in Call : StartCall(t, c)
                       \/ CommitCall(t)
                       \/ \E v \in View : Invalidate(t, v)
                       \/ \E v \in AllViews \ View : InvalidateOther(t, v)
                       \/ Publish(t) \/ Answer(t) \/ BreakOff(t)
  \/ \E v \in View : Expire(v)
  \/ AutoInvalidateLowStock
  \/ HandleUpdated

ViewSpec == ViewInit /\ [][ViewNext]_viewVars

\* Redis removes an entry whose timeout has passed.  Nothing else is fair:
\* a reader or a writer that stops keeps no entry alive.
ViewFairness == \A v \in View : WF_viewVars(Expire(v))

ViewFairSpec == ViewSpec /\ ViewFairness

-----------------------------------------------------------------------------
(***************************************************************************)
(* Every variable has its type; no entry, reader or call is ahead of what  *)
(* is committed: nobody sees another one's uncommitted changes.            *)
(***************************************************************************)
ViewTypeOK ==
  /\ version \in [View -> Nat]
  /\ cache \in [View -> Entry \cup {None}]
  /\ reading \in [Reader -> [view : View, read : Nat \cup {None}] \cup {None}]
  /\ writing \in
       [Writer -> [call : Call, at : Nat \ {0}, made : [View -> Nat] \cup {None}]
                    \cup {None}]
  /\ events \in Nat
  /\ answered \in [View -> Nat]
  /\ \A r \in Reader :
       reading[r] # None /\ reading[r].read # None
         => reading[r].read <= version[reading[r].view]
  /\ \A v \in View :
       /\ answered[v] <= version[v]
       /\ cache[v] # None => /\ cache[v].read <= cache[v].stored
                             /\ cache[v].stored <= version[v]
       /\ \A t \in Writer : writing[t] # None /\ writing[t].made # None
                              => writing[t].made[v] <= version[v]

(***************************************************************************)
(* An entry that was read before a change committed whose call has been    *)
(* answered was also stored since that commit: its reader was overtaken    *)
(* between its query and its cache.set.  No entry of an earlier time       *)
(* outlives the answer, so a client that has it reads its own write unless *)
(* such a reader comes in between.  It takes the right keys, deleted after *)
(* the commit and before the answer.                                       *)
(***************************************************************************)
StaleOnlyIfOvertaken ==
  \A v \in View :
    cache[v] # None /\ cache[v].read < answered[v]
      => answered[v] <= cache[v].stored

(***************************************************************************)
(* When the tables do not change any more, in the end every view is either *)
(* not cached or shows what they hold: the timeouts repair what the        *)
(* deletions miss.  The bound MaxVersion makes the changes stop.           *)
(***************************************************************************)
SettlesFresh ==
  <>[](\A v \in View : cache[v] # None => cache[v].read = version[v])

(***************************************************************************)
(* sales_orders/services.py:100 "Invalidate product cache": when no call   *)
(* and no reader is under way, the cached detail of a product shows what   *)
(* is committed.  The key is deleted before the commit, so a reader can    *)
(* store the old stock between the two.                                    *)
(***************************************************************************)
DetailCurrent ==
  (\A r \in Reader : reading[r] = None) /\ (\A t \in Writer : writing[t] = None)
    => \A v \in View \cap {"detail"} :
         cache[v] # None => cache[v].read = version[v]

=============================================================================
