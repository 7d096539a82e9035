CONSTANTS
  Branches = {b1, b2}
  Identity <- SameIdentity
  Rules = {fixed}
  Fixed = {fixed}
  Payloads <- SmallPayloads
  Reviewers = {v1}
  Roles = {owner}
  Required <- OneApproval
  Requests = {q1, q2, q3}
  MaxRev = 2
  MaxPublish = 3
  None = None
SPECIFICATION Spec
SYMMETRY Symmetry
CHECK_DEADLOCK FALSE
INVARIANTS
  PublicationInv
  PublishedWasReviewed
  AnsweredIsRecorded
  ServedFollowsLatest
  ImportsAreIdempotent
PROPERTIES
  DeletionSparesWhatItSaw
  ImportExtendsHead
