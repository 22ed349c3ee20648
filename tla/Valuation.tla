----------------------------- MODULE Valuation ------------------------------
(***************************************************************************)
(* The report on the value of the stock.  It lists the warehouses and then *)
(* runs one query for each of them, in autocommit: every query sees what   *)
(* is committed by then, while calls move the stock.                       *)
(***************************************************************************)
EXTENDS Integers, Totals, Nullable

CONSTANTS
  Depot,     \* warehouses
  MaxValue,  \* bound of the model: what the rows of a warehouse are worth
  MaxMoved   \* bound of the model: what is moved during one report

ASSUME ValuationAssumption ==
  /\ IsFiniteSet(Depot)
  /\ MaxValue \in Nat /\ MaxMoved \in Nat

VARIABLES
  value,   \* per warehouse: what its rows are worth
  report,  \* the report under way: what it has read and still has to read
  moved    \* history: the value that came, went or was transferred since

valuationVars == <<value, report, moved>>

ValInit ==
  /\ value \in [Depot -> 0..MaxValue]
  /\ report = None
  /\ moved = 0

-----------------------------------------------------------------------------
ValueOf(listed) ==
  Total([w \in Depot |-> IF w \in listed THEN value[w] ELSE 0])

\* A slip of RowsOf, for a mutant: the query without its filter.
AnyRow(w) == Depot

\* filter(warehouse=wh)
RowsOf(w) == {w}

\* The active warehouses, or the one that the request names.
StartValuation(listed) ==
  /\ report = None
  /\ report' = [left |-> listed, total |-> 0, opening |-> ValueOf(listed)]
  /\ moved' = 0
  /\ UNCHANGED value

ReadItems(w) ==
  /\ report # None
  /\ w \in report.left
  /\ report' = [report EXCEPT !.left = @ \ {w},
                              !.total = @ + ValueOf(RowsOf(w))]
  /\ UNCHANGED <<value, moved>>

Valued == report # None /\ report.left = {}

SendValuation ==
  /\ Valued
  /\ report' = None
  /\ UNCHANGED <<value, moved>>

Moves(n) ==
  /\ moved' = IF report = None THEN moved ELSE moved + n
  /\ moved' <= MaxMoved
  /\ UNCHANGED report

\* A call lets stock come or go.
ChangeValue(w, n) ==
  /\ value' = [value EXCEPT ![w] = n]
  /\ Moves(IF n > value[w] THEN n - value[w] ELSE value[w] - n)

\* transfer_inventory writes both rows in one transaction.
TransferValue(s, d, n) ==
  /\ s # d
  /\ n <= value[s] /\ value[d] + n <= MaxValue
  /\ value' = [value EXCEPT ![s] = @ - n, ![d] = @ + n]
  /\ Moves(n)

ValNext ==
  \/ \E listed \in SUBSET Depot : StartValuation(listed)
  \/ \E w \in Depot :
       \/ ReadItems(w)
       \/ \E n \in 0..MaxValue : ChangeValue(w, n)
       \/ \E d \in Depot, n \in 1..MaxValue : TransferValue(w, d, n)
  \/ SendValuation

ValSpec == ValInit /\ [][ValNext]_valuationVars

-----------------------------------------------------------------------------
(***************************************************************************)
(* Every variable has its type.                                            *)
(***************************************************************************)
ValTypeOK ==
  /\ value \in [Depot -> 0..MaxValue]
  /\ report \in Optional([left : SUBSET Depot, total : Nat, opening : Nat])
  /\ moved \in 0..MaxMoved

(***************************************************************************)
(* get_inventory_valuation: the grand total is off what the warehouses     *)
(* were worth when the report began by no more than what has moved since.  *)
(* No row is counted twice or left out, although a transfer may show at    *)
(* both of its ends or at none.                                            *)
(***************************************************************************)
ValuationOffByMoves ==
  Valued => /\ report.total <= report.opening + moved
            /\ report.opening <= report.total + moved

=============================================================================
