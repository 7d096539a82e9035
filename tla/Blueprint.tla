----------------------------- MODULE Blueprint -----------------------------
(***************************************************************************)
(* The Agent Blueprint of one agent and the publications of the policies   *)
(* of its workspace (apps/web/lib/repositories/agent-blueprints.ts and     *)
(* lib/domains/agent-blueprints/service.ts over agent_blueprint,           *)
(* agent_blueprint_revision, agent_blueprint_approval and policy_publish). *)
(*                                                                         *)
(* A revision's definition never changes; its status and published_at do,  *)
(* and so does the Blueprint's active_revision_id.  Publishing reads the   *)
(* approvals in one statement and writes the status in another.            *)
(***************************************************************************)
EXTENDS Naturals, Sequences, FiniteSets

CONSTANTS
  Definitions,   \* bound: the definitions authors submit
  Reviewers,
  Required,      \* approvals the workflow asks for, one at least
  PolicyRevs,    \* revisions of policies
  MaxRevisions,  \* bound: revisions of the Blueprint
  MaxStamps,     \* bound: publications and rollbacks of the Blueprint
  MaxPublish,    \* bound: publications and rollbacks of policies
  None

VARIABLES
  active,     \* agent_blueprint.active_revision_id
  revisions,  \* agent_blueprint_revision, in the order of their creation
  approval,   \* agent_blueprint_approval, unique on revision and reviewer
  ready,      \* publish requests past their reading of the approvals
  clock,      \* the last published_at given to a revision
  published,  \* policy_publish, in the order of published_at
  met         \* history: revisions whose quorum has been met

blueprintVars == <<active, revisions, approval, ready, clock, published, met>>

Statuses == {"DRAFT", "IN_REVIEW", "PUBLISHED"}
\* The action all calls ask for is allowed or not; the limits are those of
\* budgets: how many calls a session may make, and whether its tokens per turn
\* are fewer than the large contexts of the model's calls.
Definition ==
  [allows: BOOLEAN, maxToolCalls: Nat \cup {None}, fewTokens: BOOLEAN,
   policy: PolicyRevs \cup {None}]

ASSUME BlueprintAssumption ==
  /\ Definitions \subseteq Definition
  /\ Required \in Nat \ {0}
  /\ MaxRevisions \in Nat /\ MaxStamps \in Nat
  /\ None \notin Nat \cup PolicyRevs

Revision == [definition: Definitions, status: Statuses, at: 0..MaxStamps]

\* What was published met its quorum at some time: the approvals are read long
\* before the status is written, and reviewers may take theirs back meanwhile;
\* and the revision the Blueprint points to is there.  (Publish, Rollback)
BlueprintInv ==
  /\ active \in 0..Len(revisions)
  /\ revisions \in Seq(Revision)
  /\ approval \in [1..MaxRevisions -> SUBSET Reviewers]
  /\ published \in Seq(PolicyRevs)
  /\ \A r \in DOMAIN revisions:
       /\ revisions[r].status = "PUBLISHED" <=> revisions[r].at > 0
       /\ revisions[r].status = "PUBLISHED" => r \in met
       /\ r \in ready => r \in met

BlueprintInit ==
  /\ active = 0 /\ revisions = <<>>
  /\ approval = [r \in 1..MaxRevisions |-> {}]
  /\ ready = {} /\ met = {}
  /\ clock = 0 /\ published = <<>>

-----------------------------------------------------------------------------
(* The requests of authors, reviewers and publishers. *)

Has(r, status) == r \in DOMAIN revisions /\ revisions[r].status = status

\* Creation, a new revision and the import of a source: under the Blueprint's
\* row lock, nothing if the head has this definition, and else a draft that
\* becomes the active revision.
CreateRevision(d) ==
  /\ Len(revisions) < MaxRevisions
  /\ active # 0 => revisions[active].definition # d
  /\ revisions' = Append(revisions, [definition |-> d, status |-> "DRAFT", at |-> 0])
  /\ active' = Len(revisions) + 1
  /\ UNCHANGED <<approval, ready, clock, published, met>>

Submit(r) ==
  /\ Has(r, "DRAFT")
  /\ revisions' = [revisions EXCEPT ![r].status = "IN_REVIEW"]
  /\ UNCHANGED <<active, approval, ready, clock, published, met>>

\* evaluatePublishReadiness, for a workflow that asks for one role.
Quorum(approvers) == Cardinality(approvers) >= Required

\* An approval, or a request for changes in its place.  One that lands after the
\* revision was published changes nothing that is read again.
Review(r, v, approved) ==
  /\ Has(r, "IN_REVIEW")
  /\ approval' = [approval EXCEPT ![r] = IF approved THEN @ \cup {v} ELSE @ \ {v}]
  /\ met' = met \cup {x \in {r}: Quorum(approval'[r])}
  /\ UNCHANGED <<active, revisions, ready, clock, published>>

\* Mutant: the route publishes without a look at the approvals.
CheckNothing(r) ==
  /\ Has(r, "IN_REVIEW")
  /\ ready' = ready \cup {r}
  /\ UNCHANGED <<active, revisions, approval, clock, published, met>>

\* The status is not read, but only a revision in review has approvals and may
\* still be published.
CheckReadiness(r) ==
  /\ Has(r, "IN_REVIEW") /\ Quorum(approval[r])
  /\ ready' = ready \cup {r}
  /\ UNCHANGED <<active, revisions, approval, clock, published, met>>

Stamped(r) ==
  /\ clock < MaxStamps
  /\ clock' = clock + 1
  /\ revisions' = [revisions EXCEPT ![r].status = "PUBLISHED", ![r].at = clock + 1]

PolicyIsPublished(policy) ==
  policy = None \/ \E i \in DOMAIN published: published[i] = policy

\* It leaves active_revision_id alone.
Publish(r) ==
  /\ r \in ready /\ Has(r, "IN_REVIEW")
  /\ PolicyIsPublished(revisions[r].definition.policy)
  /\ Stamped(r)
  /\ ready' = ready \ {r}
  /\ UNCHANGED <<active, approval, published, met>>

Rollback(r) ==
  /\ Has(r, "PUBLISHED")
  /\ Stamped(r)
  /\ active' = r
  /\ UNCHANGED <<approval, ready, published, met>>

\* The end of a publication of a policy revision, or of a rollback to one; the
\* steps before it are those of PolicyPublication.
PublishPolicy(p) ==
  /\ Len(published) < MaxPublish
  /\ published' = Append(published, p)
  /\ UNCHANGED <<active, revisions, approval, ready, clock, met>>

BlueprintNext ==
  \/ \E d \in Definitions: CreateRevision(d)
  \/ \E r \in DOMAIN revisions:
       \/ Submit(r) \/ CheckReadiness(r) \/ Publish(r) \/ Rollback(r)
       \/ \E v \in Reviewers, approved \in BOOLEAN: Review(r, v, approved)
  \/ \E p \in PolicyRevs: PublishPolicy(p)

-----------------------------------------------------------------------------
(* What a gateway finds. *)

\* The published revisions a gateway may choose from, newest publication last.
NewestOf(rs) ==
  IF rs = {} THEN 0 ELSE CHOOSE r \in rs: \A s \in rs: revisions[s].at <= revisions[r].at

PublishedRevs == {r \in DOMAIN revisions: revisions[r].status = "PUBLISHED"}

\* getPublishedBlueprintForGateway: the newest publication among those bound to
\* no policy or to one of the caller's.
BoundTo(r, context) == revisions[r].definition.policy \in context \cup {None}
WebBlueprint(context) == NewestOf({r \in PublishedRevs: BoundTo(r, context)})

\* The worker's query: the active revision, if that one is published.
WorkerBlueprint == IF Has(active, "PUBLISHED") THEN active ELSE 0
=============================================================================
