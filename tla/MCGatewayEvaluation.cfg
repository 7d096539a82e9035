CONSTANTS
  WorkerCalls = {c1}
  WebCalls = {c2}
  Inputs <- SmallInputs
  BranchOf <- SmallBranchOf
  ScopeOf <- SmallScopeOf
  RulesOf <- SmallRulesOf
  Definitions <- SmallDefinitions
  Reviewers = {v1}
  Required = 1
  PolicyRevs = {1, 2, 3}
  MaxRevisions = 2
  MaxStamps = 2
  MaxPublish = 2
  None = None
SPECIFICATION GovernedSpec
CHECK_DEADLOCK FALSE
INVARIANTS
  BlueprintInv
  DenialsHold
PROPERTIES
  ImmutableRulesStayInForce
