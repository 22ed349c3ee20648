---------------------------- MODULE MCStockViews ----------------------------
(* The cached views of a product and of low stock against stock calls, and   *)
(* the rows of the catalogue, which share no state with them.  A behaviour   *)
(* is one of either; the other stays in its initial state.                   *)
EXTENDS StockViews, Catalogue, TLC

VARIABLE part

MCViews == {"detail", "low_stock"}
MCCalls == {"adjust", "receive", "create_order", "dispatch", "update_warehouse"}

MCInit == part \in {"views", "catalogue"} /\ ViewInit /\ CatInit

MCNext ==
  /\ UNCHANGED part
  /\ \/ part = "views" /\ ViewNext /\ UNCHANGED catVars
     \/ part = "catalogue" /\ CatNext /\ UNCHANGED viewVars

MCSpec == MCInit /\ [][MCNext]_<<viewVars, catVars, part>> /\ ViewFairness

\* Rows, codes and clerks are of the catalogue alone; no liveness property and
\* no fairness condition names one.
MCSymmetry == Permutations(Id) \cup Permutations(Code) \cup Permutations(Clerk)

=============================================================================
