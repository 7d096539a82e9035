------------------------ MODULE MCPolicyPublication ------------------------
(* A small instance of PolicyPublication for TLC. *)
EXTENDS PolicyPublication, TLC

SameIdentity == [b \in Branches |-> "payments"]
SmallPayloads == {{}, Fixed, Rules \ Fixed}
OneApproval == [x \in Roles |-> 1]
Symmetry == Permutations(Requests) \cup Permutations(Branches)
=============================================================================
