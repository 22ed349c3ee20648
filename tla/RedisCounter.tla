---------------------------- MODULE RedisCounter ----------------------------
(***************************************************************************)
(* A counter that the code keeps in Redis through Django's cache: the      *)
(* value of its key, or None without the key.  Every command is atomic;    *)
(* the code always needs more than one, and anything may happen between    *)
(* them.  cache.add is one command.  cache.incr is two: EXISTS, without    *)
(* the key a ValueError, then INCR, which by now takes a missing key for 0 *)
(* and creates it without a timeout.                                       *)
(***************************************************************************)
EXTENDS Integers, Nullable

Counter == Optional(Nat)

ASSUME RedisCounterAssumption == None \notin Int

\* cache.add sets the key, and returns True, only if there is none.
Absent(counter) == counter = None

Tally(counter) == IF Absent(counter) THEN 0 ELSE counter

=============================================================================
