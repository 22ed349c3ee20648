----------------------------- MODULE StockEvents ------------------------------
(***************************************************************************)
(* The event inventory-updated, from the adjustment that publishes it to   *)
(* the low-stock alert: PostgreSQL keeps the stock, Redis the queue, and   *)
(* Celery workers handle the events.  Each of them may fail between any    *)
(* two steps; celery acknowledges an event before it runs the task, and    *)
(* the task retries three times.                                           *)
(***************************************************************************)
EXTENDS Integers, Totals, Nullable

CONSTANTS
  Client,        \* clients; each sends a request that failed again
  Handler,       \* processes of the Celery worker
  Shelf,         \* rows that the inventory table may have
  ReorderLevel,  \* of the products
  MaxStock,      \* bound of the model: units in a row
  MaxUnderWay    \* bound of the model: events under way

VARIABLES
  stock,     \* available units of a row, None if there is no row
  redis_up,
  asked,     \* per client: its request
  queue,     \* the number of events, by row and retries made
  taken,     \* per handler: the event it handles
  unseen,    \* history: rows left low, without an alert since
  missed     \* history: rows whose event came to nothing

eventVars == <<stock, redis_up, asked, queue, taken, unseen, missed>>

MaxRetries == 3
Event == Shelf \X (0..MaxRetries)
Change == -1..2

\* A receipt publishes inside the transaction that it commits later.
FirstStep == [adjust |-> "commit", receive |-> "publish"]

Request == [kind : DOMAIN FirstStep, row : Shelf, change : Change,
            step : {"commit", "publish", "failed"},
            applied : Nat, fault : BOOLEAN]

ASSUME StockEventsAssumption ==
  /\ ReorderLevel \in Nat /\ MaxStock \in Nat /\ MaxUnderWay \in Nat
  /\ None \notin Int /\ None \notin Event /\ None \notin Request

SEInit ==
  /\ stock = [s \in Shelf |-> None]
  /\ redis_up = TRUE
  /\ asked = [c \in Client |-> None]
  /\ queue = [e \in Event |-> 0]
  /\ taken = [h \in Handler |-> None]
  /\ unseen = {}
  /\ missed = {}

-----------------------------------------------------------------------------
Held(s) == IF stock[s] = None THEN 0 ELSE stock[s]

Reached(c, step) == asked[c] # None /\ asked[c].step = step

\* The request is answered, or its client gives up.
Answered(c) == asked' = [asked EXCEPT ![c] = None]

Fails(c) == asked' = [asked EXCEPT ![c].step = "failed"]

\* A receipt locks the row before it publishes.
Locked(s) ==
  \E c \in Client : /\ asked[c] # None
                    /\ asked[c].kind = "receive" /\ asked[c].row = s
                    /\ asked[c].step # "failed"

\* Slips of the operators below, for the mutants of the checks.
NotEvenLow(n) == n < ReorderLevel
KeepsTheSave(c) == asked[c].applied + 1
RetriedForever(e) == {e}
NotBeyondMax(n) == n <= MaxStock

\* quantity_available <= reorder_level
IsLow(n) == n <= ReorderLevel

\* available < quantity is refused, and so is what the column cannot hold.
Storable(n) == n \in 0..MaxStock

\* What a transaction that fails has applied.
RolledBack(c) == asked[c].applied

\* self.retry publishes the event again, unless it was the last time.
Retried(e) == IF e[2] < MaxRetries THEN {<<e[1], e[2] + 1>>} ELSE {}

Published(events) ==
  [e \in Event |-> IF e \in events THEN queue[e] + 1 ELSE queue[e]]

-----------------------------------------------------------------------------
Ask(c, kind, s, n) ==
  /\ asked[c] = None
  /\ kind = "receive" => n > 0 /\ ~Locked(s)
  /\ Total(queue) + Cardinality({d \in Client : asked[d] # None})
       + Cardinality({h \in Handler : taken[h] # None}) < MaxUnderWay
  /\ asked' = [asked EXCEPT ![c] =
       [kind |-> kind, row |-> s, change |-> n, step |-> FirstStep[kind],
        applied |-> 0, fault |-> ~redis_up]]
  /\ UNCHANGED <<stock, redis_up, queue, taken, unseen, missed>>

\* The database applies the COMMIT of the stock.  A receipt leaves a row low
\* only if it creates it.
Applies(c) ==
  LET s == asked[c].row
      n == Held(s) + asked[c].change
      adjusts == asked[c].kind = "adjust"
  IN
  /\ Reached(c, "commit")
  /\ adjusts => ~Locked(s)
  /\ Storable(n)
  /\ stock' = [stock EXCEPT ![s] = n]
  /\ unseen' = IF n > ReorderLevel THEN unseen \ {s}
               ELSE IF adjusts \/ stock[s] = None THEN unseen \cup {s}
               ELSE unseen
  /\ UNCHANGED <<redis_up, queue, taken>>

CommitStock(c) ==
  /\ Applies(c)
  /\ IF asked[c].kind = "adjust"
     THEN /\ missed' = missed \ {asked[c].row}
          /\ asked' = [asked EXCEPT ![c].step = "publish", ![c].applied = @ + 1]
     ELSE Answered(c) /\ UNCHANGED missed

\* The connection breaks before the answer to COMMIT arrives: the service sees
\* an error, and the adjustment that is committed publishes nothing.
LoseCommit(c) ==
  /\ Applies(c)
  /\ IF asked[c].kind = "adjust"
     THEN /\ missed' = missed \cup {asked[c].row}
          /\ asked' = [asked EXCEPT ![c].step = "failed", ![c].fault = TRUE,
                                   ![c].applied = @ + 1]
     ELSE /\ asked' = [asked EXCEPT ![c].step = "failed", ![c].fault = TRUE]
          /\ UNCHANGED missed

\* Too little stock, or an error before COMMIT or in its answer: the
\* transaction is undone.
FailCommit(c) ==
  /\ Reached(c, "commit")
  /\ asked' = [asked EXCEPT ![c].step = "failed", ![c].applied = RolledBack(c)]
  /\ UNCHANGED <<stock, redis_up, queue, taken, unseen, missed>>

\* cache.delete and delay() of adjust_inventory.
PublishEvent(c) ==
  LET s == asked[c].row IN
  /\ Reached(c, "publish")
  /\ redis_up
  /\ queue' = Published({<<s, 0>>})
  /\ IF asked[c].kind = "adjust"
     THEN Answered(c) /\ UNCHANGED missed
     ELSE /\ asked' = [asked EXCEPT ![c].step = "commit"]
          /\ missed' = IF stock[s] = None THEN missed \ {s} ELSE missed
  /\ UNCHANGED <<stock, redis_up, taken, unseen>>

\* They raise: the adjustment is committed, a receipt is rolled back.
FailPublish(c) ==
  /\ Reached(c, "publish")
  /\ ~redis_up
  /\ Fails(c)
  /\ missed' = IF asked[c].kind = "adjust" THEN missed \cup {asked[c].row}
               ELSE missed
  /\ UNCHANGED <<stock, redis_up, queue, taken, unseen>>

\* The web process dies; the client sees no answer.
LoseClient(c) ==
  /\ asked[c] # None /\ asked[c].step # "failed"
  /\ asked' = [asked EXCEPT ![c].step = "failed", ![c].fault = TRUE]
  /\ missed' = IF Reached(c, "publish") /\ asked[c].kind = "adjust"
               THEN missed \cup {asked[c].row} ELSE missed
  /\ UNCHANGED <<stock, redis_up, queue, taken, unseen>>

\* The client sends the request again, or no more.
AskAgain(c) ==
  /\ Reached(c, "failed")
  /\ \/ /\ asked[c].kind = "adjust" /\ asked[c].applied < 2
        /\ asked' = [asked EXCEPT ![c].step = "commit"]
     \/ Answered(c)
  /\ UNCHANGED <<stock, redis_up, queue, taken, unseen, missed>>

\* Orders and transfers change the stock and publish no such event.
ChangeStock(s, n) ==
  /\ stock[s] # None
  /\ ~Locked(s)
  /\ stock' = [stock EXCEPT ![s] = n]
  /\ unseen' = IF n <= ReorderLevel THEN unseen ELSE unseen \ {s}
  /\ UNCHANGED <<redis_up, asked, queue, taken, missed>>

-----------------------------------------------------------------------------
TakeEvent(h, e) ==
  /\ redis_up
  /\ taken[h] = None
  /\ queue[e] > 0
  /\ queue' = [queue EXCEPT ![e] = @ - 1]
  /\ taken' = [taken EXCEPT ![h] = e]
  /\ UNCHANGED <<stock, redis_up, asked, unseen, missed>>

\* check_and_publish_low_stock_alert reads the row as it is now.
HandleEvent(h) ==
  LET s == taken[h][1] IN
  /\ taken[h] # None
  /\ unseen' = IF IsLow(Held(s)) THEN unseen \ {s} ELSE unseen
  /\ missed' = IF stock[s] = None THEN missed \cup {s}
               ELSE IF IsLow(stock[s]) THEN missed \ {s} ELSE missed
  /\ taken' = [taken EXCEPT ![h] = None]
  /\ UNCHANGED <<stock, redis_up, asked, queue>>

\* The database fails: the event is published again, if Redis lets it.
FailEvent(h) ==
  LET again == IF redis_up THEN Retried(taken[h]) ELSE {} IN
  /\ taken[h] # None
  /\ queue' = Published(again)
  /\ missed' = IF again = {} THEN missed \cup {taken[h][1]} ELSE missed
  /\ taken' = [taken EXCEPT ![h] = None]
  /\ UNCHANGED <<stock, redis_up, asked, unseen>>

\* The process dies with an event it has acknowledged.
LoseHandler(h) ==
  /\ taken[h] # None
  /\ missed' = missed \cup {taken[h][1]}
  /\ taken' = [taken EXCEPT ![h] = None]
  /\ UNCHANGED <<stock, redis_up, asked, queue, unseen>>

\* Redis is away; its container may come back without the queue.
LoseRedis ==
  /\ redis_up
  /\ redis_up' = FALSE
  /\ asked' = [c \in Client |-> IF asked[c] = None THEN None
                                ELSE [asked[c] EXCEPT !.fault = TRUE]]
  /\ \/ UNCHANGED <<queue, missed>>
     \/ /\ queue' = [e \in Event |-> 0]
        /\ missed' = missed \cup {e[1] : e \in {x \in Event : queue[x] > 0}}
  /\ UNCHANGED <<stock, taken, unseen>>

RestartRedis ==
  /\ ~redis_up
  /\ redis_up' = TRUE
  /\ UNCHANGED <<stock, asked, queue, taken, unseen, missed>>

ServeClient(c) ==
  CommitStock(c) \/ FailCommit(c) \/ PublishEvent(c) \/ FailPublish(c)

WorkOn(h) == HandleEvent(h) \/ FailEvent(h)

SENext ==
  \/ \E c \in Client :
       \/ \E kind \in DOMAIN FirstStep, s \in Shelf, n \in Change : Ask(c, kind, s, n)
       \/ ServeClient(c) \/ LoseCommit(c) \/ LoseClient(c) \/ AskAgain(c)
  \/ \E s \in Shelf, n \in 0..MaxStock : ChangeStock(s, n)
  \/ \E h \in Handler :
       (\E e \in Event : TakeEvent(h, e)) \/ WorkOn(h) \/ LoseHandler(h)
  \/ LoseRedis \/ RestartRedis

(***************************************************************************)
(* Requests and tasks go on, Redis comes back, and hands every event out:  *)
(* strong fairness, as it may be away or the handlers busy again and again *)
(* when its turn comes, while the queue keeps its order.                   *)
(***************************************************************************)
SEFairness ==
  /\ \A c \in Client : WF_eventVars(ServeClient(c))
  /\ \A h \in Handler : WF_eventVars(WorkOn(h))
  /\ \A e \in Event : SF_eventVars(\E h \in Handler : TakeEvent(h, e))
  /\ WF_eventVars(RestartRedis)

SESpec == SEInit /\ [][SENext]_eventVars /\ SEFairness

-----------------------------------------------------------------------------
(***************************************************************************)
(* Every variable has its type; a row that waits for an alert is low.      *)
(***************************************************************************)
SETypeOK ==
  /\ stock \in [Shelf -> Optional(0..MaxStock)]
  /\ redis_up \in BOOLEAN
  /\ asked \in [Client -> Optional(Request)]
  /\ queue \in [Event -> Nat]
  /\ taken \in [Handler -> Optional(Event)]
  /\ unseen \subseteq Shelf
  /\ missed \subseteq Shelf
  /\ \A s \in unseen : stock[s] # None /\ stock[s] <= ReorderLevel

\* An event for row s is still to be published, taken or handled.
EventUnderWay(s) ==
  \/ \E c \in Client : Reached(c, "publish") /\ asked[c].row = s
  \/ \E e \in Event : e[1] = s /\ queue[e] > 0
  \/ \E h \in Handler : taken[h] # None /\ taken[h][1] = s

(***************************************************************************)
(* A row that an adjustment leaves low, or a receipt creates low, is never *)
(* forgotten: until it is reported or filled up, its event is under way,   *)
(* or it was lost by a failure, or handled before the receipt committed.   *)
(***************************************************************************)
LowStockNotForgotten == \A s \in unseen \ missed : EventUnderWay(s)

(***************************************************************************)
(* The alert comes: such a row is reported or filled up in the end, unless *)
(* its event is lost, however often tasks fail and Redis goes away.        *)
(***************************************************************************)
AlertComes == \A s \in Shelf : s \in unseen ~> s \notin unseen \/ s \in missed

(***************************************************************************)
(* A client that repeats an adjustment until it is answered applies it     *)
(* twice only if Redis, the web process or the connection at COMMIT failed *)
(* meanwhile: every other error leaves nothing behind.                     *)
(***************************************************************************)
AppliedOnceWithoutFault ==
  \A c \in Client :
    asked[c] # None /\ asked[c].applied > 1 => asked[c].fault

=============================================================================
