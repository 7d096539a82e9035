CONSTANTS
  WorkerCalls = {c1}
  WebCalls = {}
  Inputs <- SmallInputs
  BranchOf <- SmallBranchOf
  ScopeOf <- SmallScopeOf
  RulesOf <- SmallRulesOf
  Definitions <- SmallDefinitions
  Reviewers = {v1}
  Required = 1
  PolicyRevs = {1, 2, 3}
  MaxRevisions = 2
  MaxStamps = 2
  MaxPublish = 1
  None = None
SPECIFICATION Spec
CHECK_DEADLOCK FALSE
INVARIANTS
  EnvelopeHolds
