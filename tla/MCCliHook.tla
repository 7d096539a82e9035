------------------------------ MODULE MCCliHook ------------------------------
(* A small instance of CliHook for TLC. *)
EXTENDS CliHook, TLC

P(local, mode, gateway, jit) ==
  [local |-> local, mode |-> mode, gateway |-> gateway, jit |-> jit]
SmallPlans == {P("DENY", "enforce", None, FALSE), P("ALLOW", "enforce", "fail-open", TRUE),
               P("DENY", "observe", "fail-closed", FALSE), P("DENY", "enforce", "fail-open", FALSE)}
Symmetry == Permutations(Hooks)
=============================================================================
