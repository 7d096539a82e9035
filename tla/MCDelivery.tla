---------------------------- MODULE MCDelivery ----------------------------
EXTENDS Delivery, TLC

CONSTANTS r1, r2, w1, w2

(* Both rules notify the one integration.                                   *)
MCTarget == r1 :> 1 @@ r2 :> 1

Symmetry == Permutations({w1, w2}) \cup Permutations({r1, r2})
===========================================================================
