---------------------------- MODULE PolicyKernel ----------------------------
(***************************************************************************)
(* What the policy kernel (packages/policy-schema/native/src/eval.rs) makes *)
(* of the published layers: their composition and the verdict on the one   *)
(* kind of action a model considers.                                       *)
(*                                                                         *)
(* The rules of a revision are a function on the stable ids it has, since  *)
(* policy_rule is unique on revision and stable id.  Whether a rule        *)
(* matches the action is part of its effect: "NO_MATCH" is a rule that     *)
(* takes its slot in the composition and says nothing of the action.       *)
(***************************************************************************)
EXTENDS Naturals, Sequences

Effects == {"NO_MATCH", "ALLOW", "WARN", "ESCALATE", "DENY"}
Rule == [effect: Effects, immutable: BOOLEAN]

\* A slot of the composition says which branch's layer won it.
NoSlots == [id \in {} |-> {}]
Immutable(slots, id) == id \in DOMAIN slots /\ slots[id].immutable

\* Mutant: an immutable rule holds no slot.
OverlayAlways(slots, layer) ==
  [id \in DOMAIN slots \cup DOMAIN layer.rules |->
     IF id \in DOMAIN layer.rules
     THEN [branch |-> layer.branch, effect |-> layer.rules[id].effect,
           immutable |-> layer.rules[id].immutable]
     ELSE slots[id]]

\* One layer over those before it: it takes every slot it has a rule for, but
\* for those an immutable rule holds.
Overlay(slots, layer) ==
  [id \in DOMAIN slots \cup DOMAIN layer.rules |->
     IF id \in DOMAIN layer.rules /\ ~Immutable(slots, id)
     THEN [branch |-> layer.branch, effect |-> layer.rules[id].effect,
           immutable |-> layer.rules[id].immutable]
     ELSE slots[id]]

Compose(layers) ==
  LET upTo[n \in 0..Len(layers)] ==
        IF n = 0 THEN NoSlots ELSE Overlay(upTo[n - 1], layers[n])
  IN upTo[Len(layers)]

\* Strictest first; no matching rule is an ALLOW.
Strictest(effects) ==
  IF "DENY" \in effects THEN "DENY"
  ELSE IF "ESCALATE" \in effects THEN "ESCALATE"
  ELSE IF "WARN" \in effects THEN "WARN" ELSE "ALLOW"

Verdict(slots) == Strictest({slots[id].effect: id \in DOMAIN slots})
=============================================================================
