------------------------- MODULE PolicyPublication -------------------------
(***************************************************************************)
(* Policy branches of one workspace: revisions, approvals, publications    *)
(* and the bundle that runtimes fetch (apps/web/lib/domains/policy and     *)
(* domains/review over repositories/policy).                               *)
(*                                                                         *)
(* Revisions are never changed once written, so what a handler has read of *)
(* one still holds when it writes; a branch's head, its approvals and its  *)
(* publications do change, and every handler below that reads them in one  *)
(* statement and writes in another is two actions.  A rule is a member of  *)
(* Rules, those of Fixed are the immutable ones; a changed rule is another *)
(* member.                                                                 *)
(***************************************************************************)
EXTENDS Naturals, FiniteSets

CONSTANTS
  Branches,      \* branch ids, each created at most once (random uuids)
  Identity,      \* the identity columns of a branch: scope, connector, name
  Rules, Fixed,  \* rules, and those marked immutable
  Payloads,      \* bound: the rule sets clients submit; no handler takes them all
  Reviewers,
  Roles,         \* the approval rules of the workflow, one per role
  Required,      \* how many approvals each asks for, one at least
  Requests,      \* concurrent requests of the web application
  MaxRev,        \* bound: revisions ever written
  MaxPublish,    \* bound: publications ever written
  None

ASSUME PolicyAssumption ==
  /\ Fixed \subseteq Rules /\ Payloads \subseteq SUBSET Rules
  /\ Required \in [Roles -> Nat \ {0}]
  /\ MaxRev \in Nat /\ MaxPublish \in Nat
  /\ None \notin Branches \cup Nat

VARIABLES
  branch,     \* is the row of a branch not yet there, there, or deleted
  head,       \* policy_branch.active_revision_id
  last,       \* revisions written so far: 1..last
  revision,   \* policy_revision and its policy_rule rows
  approval,   \* policy_approval, unique on revision and reviewer
  publishes,  \* policy_publish; published_at is its statement's now()
  clock,      \* the latest now() of a statement that publishes
  req,        \* what each request has read
  met,        \* history: revisions whose quorum has been met
  written,    \* history: publications committed so far
  condemned,  \* history: how many were when a deletion first found none
  overtaken   \* history: imports whose head moved before they had the row

history == <<met, written, condemned, overtaken>>
tables == <<branch, head, last, revision, approval, publishes, clock>>
vars == <<tables, req, history>>

Revs == 1..MaxRev
Stamps == 1..MaxPublish
Kinds == {"IMPORT", "UPLOAD", "DRAFT", "COMMIT", "OTHER"}
Phases == {"IDLE", "IMPORT_LOCK", "IMPORT", "PACK_WRITE", "PACK_PUBLISH", "PUBLISH",
           "INSERT", "ROLLBACK", "UNSET_HEAD", "DELETE_PUBLISHES",
           "DELETE_BRANCH", "LAYERS", "SERVED", "ANSWERED", "ENDED"}

Revision == [branch: Branches, parent: Revs \cup {None}, kind: Kinds,
             rules: SUBSET Rules]
Approval == [role: Roles, approved: BOOLEAN]
ASSUME NoneAssumption == None \notin Revision \cup Approval

Publish == [at: Stamps, serial: Nat, branch: Branches, rev: Revs,
            reviewed: BOOLEAN]
Identities == {Identity[b]: b \in Branches}
SeenHead == [branch: Branches, head: Revs \cup {None}]
Request == [pc: Phases, branch: Branches \cup {None}, rev: Revs \cup {None},
            rules: SUBSET Rules,
            lock: Identities \cup {None},  \* the advisory lock
            rows: SUBSET SeenHead,         \* an import's snapshot
            moved: BOOLEAN,                \* is it older than the row
            at: 0..MaxPublish, seen: Nat,  \* a stamp, and `written' with it
            layers: [Branches -> 0..MaxPublish]]

NoLayers == [b \in Branches |-> 0]
Idle == [pc |-> "IDLE", branch |-> None, rev |-> None, rules |-> {}, lock |-> None,
         rows |-> {}, moved |-> FALSE, at |-> 0, seen |-> 0, layers |-> NoLayers]
NoApprovals == [v \in Reviewers |-> None]

Init ==
  /\ branch = [b \in Branches |-> "UNBORN"]
  /\ head = [b \in Branches |-> None]
  /\ last = 0
  /\ revision = [r \in Revs |-> None]
  /\ approval = [r \in Revs |-> NoApprovals]
  /\ publishes = {}
  /\ clock = 0
  /\ req = [q \in Requests |-> Idle]
  /\ met = {}
  /\ written = 0
  /\ condemned = [b \in Branches |-> None]
  /\ overtaken = {}

-----------------------------------------------------------------------------
(* Revisions and branches. *)

Live(b) == branch[b] = "LIVE"
OnBranch(r, b) == r \in 1..last /\ revision[r].branch = b /\ Live(b)

\* Mutant: the import reads the branch without FOR UPDATE.
NeverLocked(b) == b \in Branches

\* An import holds its branch row FOR UPDATE: every other writer of the row,
\* and every insert that refers to it, waits.
Unlocked(b) == \A q \in Requests: ~(req[q].pc = "IMPORT" /\ req[q].branch = b)

\* One transaction appends a revision with its rules and moves the head.
Append(b, parent, kind, rules) ==
  /\ last < MaxRev
  /\ last' = last + 1
  /\ revision' = [revision EXCEPT ![last + 1] =
       [branch |-> b, parent |-> parent, kind |-> kind, rules |-> rules]]
  /\ head' = [head EXCEPT ![b] = last + 1]

Fresh(b) == branch[b] = "UNBORN" /\ \A q \in Requests: req[q].branch # b
Born(b) == branch' = [branch EXCEPT ![b] = "LIVE"]

Become(q, request) == req' = [req EXCEPT ![q] = request]
End(q) == Become(q, [Idle EXCEPT !.pc = "ENDED"])
Goto(q, pc) == Become(q, [req[q] EXCEPT !.pc = pc])

\* The browser's import and the empty draft make a branch each time.
CreateBranch(b) ==
  /\ Fresh(b) /\ Born(b)
  /\ \E rules \in Payloads: Append(b, None, "UPLOAD", rules)
  /\ UNCHANGED <<approval, publishes, clock, req, history>>

\* A draft copies the rules of a base that is no draft itself.
Draft(b, base) ==
  /\ OnBranch(base, b) /\ Unlocked(b)
  /\ revision[base].kind # "DRAFT"
  /\ Append(b, base, "DRAFT", revision[base].rules)
  /\ UNCHANGED <<branch, approval, publishes, clock, req, history>>

\* A commit keeps the parent's immutable rules, as far as it could read them
\* (a failed read counts as none: such a commit is one of kind OTHER here),
\* and drops the parent's approvals.
Commit(b, parent, rules, unread) ==
  /\ OnBranch(parent, b) /\ Unlocked(b)
  /\ rules # {}
  /\ unread \/ revision[parent].rules \cap Fixed \subseteq rules
  /\ Append(b, parent, IF unread THEN "OTHER" ELSE "COMMIT", rules)
  /\ approval' = [approval EXCEPT ![parent] = NoApprovals]
  /\ UNCHANGED <<branch, publishes, clock, req, history>>

-----------------------------------------------------------------------------
(* The idempotent import: advisory lock, row lock, then append or create.  *)

\* Mutant: no advisory lock.
AdvisoryNever(i) == i = i

AdvisoryFree(i) ==
  \A q \in Requests: req[q].pc \in {"IMPORT_LOCK", "IMPORT"} => req[q].lock # i

\* The source's hash is the import's and the browser's; a rule set stands for
\* the source it was parsed from.
SameSource(r, rules) ==
  /\ r # None
  /\ revision[r].kind \in {"IMPORT", "UPLOAD"} /\ revision[r].rules = rules

\* The advisory lock is taken; the snapshot of the statement that follows
\* holds the branches of this identity and their heads.
ImportBegins(q, i, rules) ==
  /\ req[q].pc = "IDLE"
  /\ AdvisoryFree(i)
  /\ rules # {}
  /\ Become(q, [Idle EXCEPT !.pc = "IMPORT_LOCK", !.lock = i, !.rules = rules,
       !.rows = {x \in SeenHead: /\ Live(x.branch) /\ Identity[x.branch] = i
                                 /\ x.head = head[x.branch]}])
  /\ UNCHANGED <<tables, history>>

\* FOR UPDATE OF pb may wait.  The branch is then read again, but the joined
\* revision is the snapshot's: under another head the source reads as NULL.
\* A head that is seen to carry this very source ends the import without a
\* write (Abandon).  A row deleted meanwhile is as if it had not been there.
ImportRead(q) ==
  /\ req[q].pc = "IMPORT_LOCK"
  /\ \/ \E x \in req[q].rows:
          /\ Live(x.branch) /\ Unlocked(x.branch)
          /\ head[x.branch] = x.head => ~SameSource(x.head, req[q].rules)
          /\ Become(q, [req[q] EXCEPT !.pc = "IMPORT", !.branch = x.branch, !.rows = {},
               !.rev = head[x.branch], !.moved = (head[x.branch] # x.head)])
     \/ /\ \A x \in req[q].rows: ~Live(x.branch)
        /\ \E b \in Branches:
             /\ Fresh(b) /\ Identity[b] = req[q].lock
             /\ Become(q, [req[q] EXCEPT !.pc = "IMPORT", !.branch = b, !.rows = {}])
  /\ UNCHANGED <<tables, history>>

ImportWrite(q) ==
  /\ req[q].pc = "IMPORT"
  /\ Born(req[q].branch)
  /\ Append(req[q].branch, req[q].rev, "IMPORT", req[q].rules)
  /\ overtaken' = IF req[q].moved THEN overtaken \cup {last'} ELSE overtaken
  /\ End(q)
  /\ UNCHANGED <<approval, publishes, clock, met, written, condemned>>

-----------------------------------------------------------------------------
(* Packs: an upgrade merges into the head it read before its transaction;  *)
(* install or upgrade may be followed by a publication without review.     *)

PackInstall(q, b) ==
  /\ req[q].pc = "IDLE"
  /\ Fresh(b) /\ Born(b)
  /\ \E rules \in Payloads \ {{}}: Append(b, None, "OTHER", rules)
  /\ Become(q, [Idle EXCEPT !.pc = "PACK_PUBLISH", !.branch = b, !.rev = last'])
  /\ UNCHANGED <<approval, publishes, clock, history>>

PackRead(q, b, upstream, preserve) ==
  /\ req[q].pc = "IDLE"
  /\ Live(b)
  /\ upstream # {}
  /\ Become(q, [Idle EXCEPT !.pc = "PACK_WRITE", !.branch = b, !.rev = head[b],
       !.rules = upstream \cup (IF preserve /\ head[b] # None
                                THEN revision[head[b]].rules ELSE {})])
  /\ UNCHANGED <<tables, history>>

PackWrite(q) ==
  /\ req[q].pc = "PACK_WRITE"
  /\ Live(req[q].branch) /\ Unlocked(req[q].branch)
  /\ Append(req[q].branch, req[q].rev, "OTHER", req[q].rules)
  /\ Become(q, [req[q] EXCEPT !.pc = "PACK_PUBLISH", !.rev = last'])
  /\ UNCHANGED <<branch, approval, publishes, clock, history>>

-----------------------------------------------------------------------------
(* Approvals.  A second decision of a reviewer keeps the first one's role. *)

Quorum(r, approvals) ==
  /\ Roles # {}
  /\ \A x \in Roles: Required[x] <=
       Cardinality({v \in Reviewers: approvals[r][v] = [role |-> x, approved |-> TRUE]})

Review(r, v, role, approved) ==
  /\ r \in 1..last
  /\ Live(revision[r].branch) /\ Unlocked(revision[r].branch)
  /\ approval' = [approval EXCEPT ![r][v] =
       [role |-> IF @ = None THEN role ELSE @.role, approved |-> approved]]
  /\ met' = met \cup {x \in {r}: Quorum(x, approval')}
  /\ UNCHANGED <<branch, head, last, revision, publishes, clock, req, written,
                 condemned, overtaken>>

-----------------------------------------------------------------------------
(* Publication: readiness, then the search for an earlier publication of   *)
(* the revision, then the insert, in three statements.                     *)

Row(b, r, reviewed, at) ==
  [at |-> at, serial |-> written + 1, branch |-> b, rev |-> r, reviewed |-> reviewed]

\* INSERT .. SELECT FROM policy_branch: a deleted branch inserts nothing.
Insert(b, r, reviewed, at) ==
  IF Live(b)
  THEN /\ Unlocked(b)
       /\ publishes' = publishes \cup {Row(b, r, reviewed, at)}
       /\ written' = written + 1
  ELSE UNCHANGED <<publishes, written>>

\* Mutant: readiness looks at the approvals of the branch's head.
PublishCheckHead(q, b, r) ==
  /\ req[q].pc = "IDLE"
  /\ OnBranch(r, b)
  /\ revision[r].rules # {}
  /\ head[b] # None /\ Quorum(head[b], approval)
  /\ Become(q, [Idle EXCEPT !.pc = "PUBLISH", !.branch = b, !.rev = r])
  /\ UNCHANGED <<tables, history>>

\* The other gates (validation, budget, simulation, verification,
\* escalations) may refuse a request that is ready: it is then not taken.
PublishCheck(q, b, r) ==
  /\ req[q].pc = "IDLE"
  /\ OnBranch(r, b)
  /\ revision[r].rules # {}
  /\ Quorum(r, approval)
  /\ Become(q, [Idle EXCEPT !.pc = "PUBLISH", !.branch = b, !.rev = r])
  /\ UNCHANGED <<tables, history>>

PublishedBefore(b, r) == \E p \in publishes: p.branch = b /\ p.rev = r

\* Mutant: any publication of the branch counts as one of this revision.
PublishFindsAny(q) ==
  /\ req[q].pc = "PUBLISH"
  /\ IF \E p \in publishes: p.branch = req[q].branch
     THEN Goto(q, "ANSWERED")
     ELSE Goto(q, "INSERT")
  /\ UNCHANGED <<tables, history>>

PublishFindsRow(q) ==
  /\ req[q].pc = "PUBLISH"
  /\ IF PublishedBefore(req[q].branch, req[q].rev)
     THEN Goto(q, "ANSWERED")
     ELSE Goto(q, "INSERT")
  /\ UNCHANGED <<tables, history>>

\* published_at is DEFAULT now(): the start of the INSERT, or of the rollback's
\* transaction, before it waits for a lock on the branch.
StatementBegins(q) ==
  /\ req[q].pc \in {"INSERT", "PACK_PUBLISH", "ROLLBACK"} /\ req[q].at = 0
  /\ req[q].pc = "ROLLBACK" \/ Live(req[q].branch)
  /\ clock < MaxPublish /\ clock' = clock + 1
  /\ Become(q, [req[q] EXCEPT !.at = clock + 1])
  /\ UNCHANGED <<branch, head, last, revision, approval, publishes, history>>

\* A branch deleted after the statement began fails it (Abandon).
PublishInsert(q) ==
  /\ req[q].pc \in {"INSERT", "PACK_PUBLISH"}
  /\ Live(req[q].branch) <=> req[q].at # 0
  /\ Insert(req[q].branch, req[q].rev, req[q].pc = "INSERT", req[q].at)
  /\ Become(q, [req[q] EXCEPT !.pc = "ANSWERED", !.at = 0])
  /\ UNCHANGED <<branch, head, last, revision, approval, clock, met, condemned, overtaken>>

\* Mutant: the target is not looked up on the branch.
RollbackCheckAnywhere(q, b, r) ==
  /\ req[q].pc = "IDLE"
  /\ Live(b) /\ r \in 1..last
  /\ Become(q, [Idle EXCEPT !.pc = "ROLLBACK", !.branch = b, !.rev = r])
  /\ UNCHANGED <<tables, history>>

\* A rollback publishes any revision of the branch and makes it the head.
RollbackCheck(q, b, r) ==
  /\ req[q].pc = "IDLE"
  /\ OnBranch(r, b)
  /\ Become(q, [Idle EXCEPT !.pc = "ROLLBACK", !.branch = b, !.rev = r])
  /\ UNCHANGED <<tables, history>>

RollbackWrite(q) ==
  /\ req[q].pc = "ROLLBACK" /\ req[q].at # 0
  /\ Insert(req[q].branch, req[q].rev, FALSE, req[q].at)
  /\ head' = IF Live(req[q].branch) THEN [head EXCEPT ![req[q].branch] = req[q].rev]
             ELSE head
  /\ Become(q, [req[q] EXCEPT !.pc = "ANSWERED", !.at = 0])
  /\ UNCHANGED <<branch, last, revision, approval, clock, met, condemned, overtaken>>

-----------------------------------------------------------------------------
(* Deletion: a check, then four statements without a transaction.          *)

Published(b) == \E p \in publishes: p.branch = b

\* Mutant: the deletion does not ask whether anything is published.
DeleteUnchecked(q, b) ==
  /\ req[q].pc = "IDLE"
  /\ Live(b)
  /\ Become(q, [Idle EXCEPT !.pc = "UNSET_HEAD", !.branch = b])
  /\ condemned' = [condemned EXCEPT ![b] = IF @ = None THEN written ELSE @]
  /\ UNCHANGED <<tables, met, written, overtaken>>

DeleteCheck(q, b) ==
  /\ req[q].pc = "IDLE"
  /\ Live(b)
  /\ ~Published(b)
  /\ Become(q, [Idle EXCEPT !.pc = "UNSET_HEAD", !.branch = b])
  /\ condemned' = [condemned EXCEPT ![b] = IF @ = None THEN written ELSE @]
  /\ UNCHANGED <<tables, met, written, overtaken>>

UnsetHead(q) ==
  /\ req[q].pc = "UNSET_HEAD"
  /\ Unlocked(req[q].branch)
  /\ head' = [head EXCEPT ![req[q].branch] = None]
  /\ Goto(q, "DELETE_PUBLISHES")
  /\ UNCHANGED <<branch, last, revision, approval, publishes, clock, history>>

DeletePublishes(q) ==
  /\ req[q].pc = "DELETE_PUBLISHES"
  /\ publishes' = {p \in publishes: p.branch # req[q].branch}
  /\ Goto(q, "DELETE_BRANCH")
  /\ UNCHANGED <<branch, head, last, revision, approval, clock, history>>

\* Publications refer to the branch: one inserted meanwhile fails the last
\* statement (Abandon).  Revisions, rules and approvals go with the branch.
DeleteBranch(q) ==
  LET b == req[q].branch IN
  /\ req[q].pc = "DELETE_BRANCH"
  /\ Unlocked(b) /\ ~Published(b)
  /\ branch' = [branch EXCEPT ![b] = IF @ = "LIVE" THEN "GONE" ELSE @]
  /\ head' = [head EXCEPT ![b] = None]
  /\ approval' = [r \in Revs |-> IF r \in 1..last /\ revision[r].branch = b
                                 THEN NoApprovals ELSE approval[r]]
  /\ End(q)
  /\ UNCHANGED <<last, revision, publishes, clock, history>>

-----------------------------------------------------------------------------
(* The bundle: the latest publication of the workspace is read first, then *)
(* the latest publication of every branch, whose rules are composed.       *)

\* Mutant: ORDER BY published_at without DESC.
OldestOf(b) ==
  LET stamps == {p.at: p \in {x \in publishes: x.branch = b}}
  IN  IF stamps = {} THEN 0
      ELSE CHOOSE t \in stamps: \A u \in stamps: t <= u

LatestOf(b) ==
  LET stamps == {p.at: p \in {x \in publishes: x.branch = b}}
  IN  IF stamps = {} THEN 0
      ELSE CHOOSE t \in stamps: \A u \in stamps: u <= t

ServeLatest(q) ==
  /\ req[q].pc = "IDLE"
  /\ \E p \in publishes:
       /\ \A other \in publishes: other.at <= p.at
       /\ Become(q, [Idle EXCEPT !.pc = "LAYERS", !.branch = p.branch,
                                 !.rev = p.rev, !.at = p.at, !.seen = written])
  /\ UNCHANGED <<tables, history>>

\* No revision or no layer left: the answer is that nothing is published.
ServeLayers(q) ==
  /\ req[q].pc = "LAYERS"
  /\ Live(req[q].branch) /\ publishes # {}
  /\ Become(q, [req[q] EXCEPT !.pc = "SERVED",
                              !.layers = [b \in Branches |-> LatestOf(b)]])
  /\ UNCHANGED <<tables, history>>

\* A request ends: answered, refused, failed or lost with its process.  Open
\* transactions roll back, statements that committed stay.
Abandon(q) ==
  /\ req[q].pc \notin {"IDLE", "SERVED", "ANSWERED", "ENDED"}
  /\ End(q)
  /\ UNCHANGED <<tables, history>>

-----------------------------------------------------------------------------
Author(b) ==
  \/ CreateBranch(b)
  \/ \E base \in Revs: Draft(b, base)
  \/ \E parent \in Revs, rules \in Payloads, unread \in BOOLEAN:
       Commit(b, parent, rules, unread)

Begin(q, b) ==
  \/ \E rules \in Payloads: ImportBegins(q, Identity[b], rules)
  \/ PackInstall(q, b)
  \/ \E upstream \in Payloads, preserve \in BOOLEAN:
       PackRead(q, b, upstream, preserve)
  \/ \E r \in Revs: PublishCheck(q, b, r) \/ RollbackCheck(q, b, r)
  \/ DeleteCheck(q, b)

Continue(q) ==
  \/ ImportRead(q) \/ ImportWrite(q) \/ PackWrite(q)
  \/ PublishFindsRow(q) \/ StatementBegins(q) \/ PublishInsert(q) \/ RollbackWrite(q)
  \/ UnsetHead(q) \/ DeletePublishes(q) \/ DeleteBranch(q)
  \/ ServeLatest(q) \/ ServeLayers(q) \/ Abandon(q)

Next ==
  \/ \E b \in Branches: Author(b)
  \/ \E r \in Revs, v \in Reviewers, role \in Roles, approved \in BOOLEAN:
       Review(r, v, role, approved)
  \/ \E q \in Requests: Continue(q) \/ \E b \in Branches: Begin(q, b)

Spec == Init /\ [][Next]_vars

-----------------------------------------------------------------------------
(* Properties. *)

TypeOK ==
  /\ branch \in [Branches -> {"UNBORN", "LIVE", "GONE"}]
  /\ head \in [Branches -> Revs \cup {None}]
  /\ last \in 0..MaxRev
  /\ revision \in [Revs -> Revision \cup {None}]
  /\ approval \in [Revs -> [Reviewers -> Approval \cup {None}]]
  /\ publishes \subseteq Publish
  /\ clock \in 0..MaxPublish
  /\ req \in [Requests -> Request]
  /\ met \subseteq Revs
  /\ written \in Nat
  /\ condemned \in [Branches -> Nat \cup {None}]
  /\ overtaken \subseteq Revs

\* Every row refers to rows that are there: a head and a publication to a
\* revision of their own, live branch, a parent to an older revision of the
\* branch; a branch without a head is one that a deletion has begun on.
Lineage ==
  /\ \A r \in Revs: revision[r] # None <=> r <= last
  /\ \A r \in 1..last:
       /\ branch[revision[r].branch] # "UNBORN"
       /\ revision[r].parent # None =>
            /\ revision[r].parent < r
            /\ revision[revision[r].parent].branch = revision[r].branch
  /\ \A b \in Branches:
       /\ head[b] # None => OnBranch(head[b], b)
       /\ Live(b) /\ head[b] = None => condemned[b] # None
  /\ \A p \in publishes: OnBranch(p.rev, p.branch) /\ p.at <= clock
  /\ \A p, o \in publishes: p.at = o.at => p = o

\* An immutable rule passes from a revision to its drafts and its commits,
\* whoever writes them and from whichever parent, unless the commit could
\* not read its parent's rules.
ImmutableRulesSurvive ==
  \A r \in 1..last:
    revision[r].kind \in {"DRAFT", "COMMIT"}
      => revision[revision[r].parent].rules \cap Fixed \subseteq revision[r].rules

PublicationInv == TypeOK /\ Lineage /\ ImmutableRulesSurvive

\* What is published through review met its quorum at some time, although
\* approvals come, go and are dropped between the check and the insert; and
\* it is never an empty policy.
PublishedWasReviewed ==
  \A p \in publishes: p.reviewed => p.rev \in met /\ revision[p.rev].rules # {}

First(r) == \A s \in 1..(r - 1): revision[s].branch # revision[r].branch
MadeByImport(b) ==
  \E r \in 1..last: revision[r].branch = b /\ revision[r].kind = "IMPORT" /\ First(r)

\* Concurrent imports of one identity share one branch.  No import repeats the
\* source of the revision it was appended to, unless another writer moved the
\* head between the import's snapshot and its lock on the branch.
ImportsAreIdempotent ==
  /\ \A b, c \in Branches:
       /\ Live(b) /\ Live(c) /\ Identity[b] = Identity[c]
       /\ MadeByImport(b) /\ MadeByImport(c)
       => b = c
  /\ \A r \in 1..last:
       revision[r].kind = "IMPORT" /\ SameSource(revision[r].parent, revision[r].rules)
         => r \in overtaken

\* An import extends the head as it is when the import commits: commits,
\* packs, rollbacks and deletions of the branch never come in between.
ImportExtendsHead ==
  [][last' # last /\ revision'[last'].kind = "IMPORT" =>
       revision'[last'].parent = head[revision'[last'].branch]]_vars

\* A caller told that a revision is published finds its publication, unless
\* a deletion has begun on a branch it saw without any.
AnsweredIsRecorded ==
  \A q \in Requests: req[q].pc = "ANSWERED" =>
    PublishedBefore(req[q].branch, req[q].rev) \/ condemned[req[q].branch] # None

\* A publication disappears only by a deletion, and only one that was
\* committed after a deletion had found the branch without any.
DeletionSparesWhatItSaw ==
  [][\A p \in publishes \ publishes':
       condemned[p.branch] # None /\ condemned[p.branch] < p.serial]_vars

\* A served bundle is as new as what was committed when its label was read:
\* no publication of then has a later stamp than the label, or a later one
\* than its branch's layer.  One that is missing although its stamp is older
\* than the label was committed after that, having waited for a lock.
ServedFollowsLatest ==
  \A q \in Requests: req[q].pc = "SERVED" =>
    \A p \in publishes: p.serial <= req[q].seen =>
      p.at <= req[q].at /\ p.at <= req[q].layers[p.branch]
=============================================================================
