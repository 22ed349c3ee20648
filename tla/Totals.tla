------------------------------- MODULE Totals -------------------------------
(***************************************************************************)
(* The sum of a function with values in Nat over its finite domain,        *)
(* defined by counting: f contributes the f[x] units <<x, 1>> .. <<x,      *)
(* f[x]>> for every x of its domain, and the total is the number of units. *)
(* The laws of TotalsProofs follow from what is known of Cardinality; of a *)
(* fold they could be checked but not proved.                              *)
(***************************************************************************)
EXTENDS Integers, FiniteSets

Units(f) == UNION {{x} \X (1..f[x]) : x \in DOMAIN f}

Total(f) == Cardinality(Units(f))

=============================================================================
