------------------------------ MODULE Nullable ------------------------------
(***************************************************************************)
(* A column, a key of Redis or a thread that may hold nothing.             *)
(***************************************************************************)
CONSTANT None

Optional(S) == S \cup {None}

=============================================================================
