---------------------------- MODULE MCRowLocking ----------------------------
(* Two workers that serve calls about the stock of two warehouses.           *)
EXTENDS RowLocking, TLC

CONSTANTS p1, p2, w1, w2, w3, o1

MCNoRows == {}
MCAllRows == Key
MCRowsOfP1 == {p1} \X Warehouse

Only(p, n) == [x \in Product |-> IF x = p THEN n ELSE 0]
Each(n) == [x \in Product |-> n]
Adjust(p, w, type, q) == [op |-> "adjust", p |-> p, w |-> w, type |-> type, q |-> q]
Transfer(s, d, q) == [op |-> "transfer", p |-> p1, s |-> s, d |-> d, q |-> q]
Create(w, items) == [op |-> "create", w |-> w, items |-> items]

MCOrderCalls == [op : {"dispatch", "deliver", "cancel"}, o : SalesOrder]
MCTransferCalls == {Transfer(w1, w2, 1), Transfer(w2, w1, 1)}

\* p1 has its rows and is transferred; the row of p2 has to be inserted.
MCCalls == MCTransferCalls \cup MCOrderCalls \cup
  {Adjust(p1, w1, "INBOUND", 1), Adjust(p1, w2, "DAMAGE_REPORT", 1),
   Adjust(p2, w1, "INBOUND", 1),
   Adjust(p2, w1, "TRANSFER", 1),
   Create(w1, Each(1)), Create(w1, Only(p2, 1))}

MCLostUpdateCalls == {Adjust(p1, w1, "INBOUND", 1), Adjust(p1, w2, "INBOUND", 1),
                      Transfer(w1, w2, 1)}
MCDeadlockCalls == MCTransferCalls \cup {Adjust(p1, w1, "INBOUND", 1),
                                         Adjust(p1, w2, "INBOUND", 1)}
MCDeleteRaceCalls == {Adjust(p1, w1, "INBOUND", 1), [op |-> "delete", w |-> w1]}

\* A purchase order with one line for each product, and two receipts of it.
Bought == CHOOSE f \in [Line -> Product] : \A p \in Product : \E l \in Line : f[l] = p
Author == CHOOSE u \in User : TRUE
MCReceiptCalls ==
  {[op |-> "draft", w |-> w1, u |-> Author, product |-> Bought,
    qty |-> [l \in Line |-> 1]]}
  \cup [op : {"submit", "withdraw"}, o : PurchaseOrder]
  \cup [op : {"approve"}, o : PurchaseOrder, u : User]
  \cup {[op |-> "receive", o |-> o,
          recv |-> [l \in Line |-> IF Bought[l] = p1 THEN 1 ELSE n]] :
         o \in PurchaseOrder, n \in 0..1}
  \cup {Create(w1, Each(1)), Transfer(w1, w2, 1), Adjust(p2, w1, "TRANSFER", 1),
        [op |-> "delete", w |-> w3]}
  \cup [op : {"cancel"}, o : SalesOrder]

MCSymmetry == Permutations(Worker) \cup Permutations(SalesOrder)

=============================================================================
