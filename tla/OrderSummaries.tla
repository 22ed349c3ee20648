--------------------------- MODULE OrderSummaries ---------------------------
(***************************************************************************)
(* The reports on sales and purchase orders.  Their queries run one after  *)
(* the other in autocommit, while orders are created and go on.  Querysets *)
(* are lazy: a query runs where its result is used, not where it is        *)
(* written.                                                                *)
(***************************************************************************)
EXTENDS Integers, Sequences, Totals, Nullable

CONSTANTS Sale, Purchase   \* the orders of the two tables

VARIABLES
  status,   \* per order, None before it is created
  summary   \* the report under way: its queries and what they have shown

summaryVars == <<status, summary>>

\* What the services make of the status of an order.
Follows ==
  [CONFIRMED |-> {"DISPATCHED", "CANCELLED"}, DISPATCHED |-> {"DELIVERED"},
   DRAFT |-> {"PENDING_APPROVAL", "CANCELLED"},
   PENDING_APPROVAL |-> {"APPROVED", "CANCELLED"},
   APPROVED |-> {"PARTIALLY_RECEIVED", "RECEIVED", "CANCELLED"},
   PARTIALLY_RECEIVED |-> {"RECEIVED"},
   DELIVERED |-> {}, RECEIVED |-> {}, CANCELLED |-> {}]

Status == DOMAIN Follows

ASSUME OrderSummariesAssumption ==
  /\ IsFiniteSet(Sale) /\ IsFiniteSet(Purchase)
  /\ Sale \cap Purchase = {}
  /\ None \notin Status

SumInit ==
  /\ status = [o \in Sale \cup Purchase |-> None]
  /\ summary = None

-----------------------------------------------------------------------------
\* A slip of SalesQueries, for a mutant: the order of the source text.
InTheOrderWritten == <<"delivered", "breakdown", "total">>

\* The delivered orders are aggregated at once; the breakdown is a queryset
\* that list() evaluates in the answer, after qs.count().
SalesQueries == <<"delivered", "total", "breakdown">>

PurchaseQueries == <<"total", "breakdown">>

\* filter(status=status), if the request asks for a status.
Shown(r) ==
  {o \in r.orders : status[o] # None /\ r.wanted \in {None, status[o]}}

Counted(r, s) == Cardinality({o \in Shown(r) : status[o] = s})

StartSummary(orders, queries, wanted) ==
  /\ summary = None
  /\ summary' = [orders |-> orders, wanted |-> wanted, left |-> queries,
                 delivered |-> 0, total |-> 0,
                 breakdown |-> [s \in Status |-> 0]]
  /\ UNCHANGED status

RunQuery(q) ==
  /\ summary # None
  /\ summary.left # <<>>
  /\ Head(summary.left) = q
  /\ summary' =
       [summary EXCEPT !.left = Tail(@),
          !.delivered = IF q = "delivered" THEN Counted(summary, "DELIVERED") ELSE @,
          !.total = IF q = "total" THEN Cardinality(Shown(summary)) ELSE @,
          !.breakdown = IF q = "breakdown"
                        THEN [s \in Status |-> Counted(summary, s)] ELSE @]
  /\ UNCHANGED status

Summarised == summary # None /\ summary.left = <<>>

SendSummary ==
  /\ Summarised
  /\ summary' = None
  /\ UNCHANGED status

CreateOrder(o) ==
  /\ status[o] = None
  /\ status' = [status EXCEPT ![o] = IF o \in Sale THEN "CONFIRMED" ELSE "DRAFT"]
  /\ UNCHANGED summary

AdvanceOrder(o, s) ==
  /\ status[o] # None
  /\ s \in Follows[status[o]]
  /\ status' = [status EXCEPT ![o] = s]
  /\ UNCHANGED summary

SumNext ==
  \/ \E wanted \in Optional(Status) :
       \/ StartSummary(Sale, SalesQueries, wanted)
       \/ StartSummary(Purchase, PurchaseQueries, wanted)
  \/ \E q \in {"delivered", "total", "breakdown"} : RunQuery(q)
  \/ SendSummary
  \/ \E o \in Sale \cup Purchase :
       CreateOrder(o) \/ \E s \in Status : AdvanceOrder(o, s)

SumSpec == SumInit /\ [][SumNext]_summaryVars

-----------------------------------------------------------------------------
(***************************************************************************)
(* Every variable has its type, and no query counts an order twice.        *)
(***************************************************************************)
SumTypeOK ==
  /\ status \in [Sale \cup Purchase -> Optional(Status)]
  /\ summary # None =>
       /\ summary.total \in 0..Cardinality(summary.orders)
       /\ summary.breakdown \in [Status -> 0..Cardinality(summary.orders)]

(***************************************************************************)
(* get_sales_order_summary and get_purchase_order_summary: although orders *)
(* go on between the queries, no order of the total, and no delivered one, *)
(* is missing in the breakdown.  A report on one status keeps this only if *)
(* orders do not leave that status.                                        *)
(***************************************************************************)
SummaryNeverAhead ==
  Summarised /\ (summary.wanted = None \/ Follows[summary.wanted] = {}) =>
    /\ summary.total <= Total(summary.breakdown)
    /\ summary.delivered <= summary.breakdown["DELIVERED"]

=============================================================================
