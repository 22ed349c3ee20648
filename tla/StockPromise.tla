---------------------------- MODULE StockPromise ----------------------------
(***************************************************************************)
(* What the stock services promise a customer, without warehouses' columns *)
(* or audit rows: an order sets units aside, and they are there until it   *)
(* is shipped or given up, each of which happens once and ends it.         *)
(***************************************************************************)
EXTENDS Integers, Totals

CONSTANTS
  Place,   \* where units lie: a product in a warehouse
  Order

VARIABLES
  on_hand,  \* units that lie in each place, set aside or not
  state,    \* of each order: "none", "open", "shipped" or "released"
  units     \* what each order sets aside, by place

promiseVars == <<on_hand, state, units>>

SetAside(k) ==
  Total([o \in Order |-> IF state[o] = "open" THEN units[o][k] ELSE 0])

\* No unit is promised twice, and none that is not there.
Covered == \A k \in Place : SetAside(k) <= on_hand[k]

Init ==
  /\ on_hand = [k \in Place |-> 0]
  /\ state = [o \in Order |-> "none"]
  /\ units = [o \in Order |-> [k \in Place |-> 0]]

\* An order is taken if what it asks for is not set aside for another one.
Take(o) ==
  /\ state[o] = "none"
  /\ state' = [state EXCEPT ![o] = "open"]
  /\ units' \in [Order -> [Place -> Nat]]
  /\ \A other \in Order \ {o} : units'[other] = units[other]
  /\ UNCHANGED on_hand

\* Its own units leave, and no other ones.
Ship(o) ==
  /\ state[o] = "open"
  /\ state' = [state EXCEPT ![o] = "shipped"]
  /\ on_hand' = [k \in Place |-> on_hand[k] - units[o][k]]
  /\ UNCHANGED units

Release(o) ==
  /\ state[o] = "open"
  /\ state' = [state EXCEPT ![o] = "released"]
  /\ UNCHANGED <<on_hand, units>>

\* Units arrive, leave or move: anything but those set aside.
Move == /\ on_hand' \in [Place -> Nat]
        /\ UNCHANGED <<state, units>>

Next ==
  /\ \/ \E o \in Order : Take(o) \/ Ship(o) \/ Release(o)
     \/ Move
  /\ Covered'

Spec == Init /\ [][Next]_promiseVars

=============================================================================
