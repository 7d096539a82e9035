------------------------- MODULE MCGatewayDecision -------------------------
(* Small instances of GatewayDecision. *)
EXTENDS GatewayDecision, TLC

CONSTANTS h1, h2, c1, c2, c3, p1, p2, v1, v2

Symmetry == Permutations(Hashes) \cup Permutations(Polls)
=============================================================================
