------------------------ MODULE MCGatewayEvaluation ------------------------
(* A small instance of GatewayEvaluation for TLC. *)
EXTENDS GatewayEvaluation

\* Two branches of the organization's scope and one of a connector's, with a
\* revision each.
SmallBranchOf == <<"org", "team", "connector">>
SmallScopeOf == [org |-> 1, team |-> 1, connector |-> 4]
SmallRulesOf ==
  <<[refunds |-> [effect |-> "ALLOW", immutable |-> TRUE]],
    [refunds |-> [effect |-> "DENY", immutable |-> FALSE],
     payouts |-> [effect |-> "ESCALATE", immutable |-> TRUE]],
    [payouts |-> [effect |-> "DENY", immutable |-> FALSE]]>>

\* One that allows a single call with few tokens, and one that allows none and
\* is bound to the policy of org.
SmallDefinitions ==
  {[allows |-> TRUE, maxToolCalls |-> 1, fewTokens |-> TRUE, policy |-> None],
   [allows |-> FALSE, maxToolCalls |-> None, fewTokens |-> FALSE, policy |-> 1]}

SmallInputs ==
  {[risk |-> "PROCEED", large |-> FALSE, big |-> FALSE, context |-> {1}],
   [risk |-> "PROCEED", large |-> FALSE, big |-> TRUE, context |-> {}],
   [risk |-> "PROCEED", large |-> TRUE, big |-> FALSE, context |-> {1}],
   [risk |-> "ESCALATE", large |-> FALSE, big |-> FALSE, context |-> {1}]}

\* The Blueprint's first revision is published, and org's policy if it is bound
\* to that, as CreateRevision, Submit, Review, CheckReadiness, Publish and
\* PublishPolicy leave them.
GovernedInit ==
  \E d \in Definitions:
    /\ published = IF d.policy = None THEN <<>> ELSE <<d.policy>>
    /\ revisions = <<[definition |-> d, status |-> "PUBLISHED", at |-> 1]>>
    /\ active = 1 /\ clock = 1
    /\ approval = [r \in 1..MaxRevisions |-> IF r = 1 THEN Reviewers ELSE {}]
    /\ ready = {} /\ met = {1}
    /\ call = [c \in Calls |-> Idle]
    /\ rows = 0
    /\ since = [c \in Calls |-> {}]

GovernedSpec == GovernedInit /\ [][Next]_vars
=============================================================================
