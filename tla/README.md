# Verification of spctre: TLA+ models, model checks and proofs

This directory holds TLA+ models of the core of spctre: the worker's background
jobs and their lease, the gateway's decisions, escalations and credentials, how
a call is evaluated against Blueprints and policies, the tenant's evidence with
its hash chain, retention and billing, the branches, approvals and publications
of policies, the agents' tokens, the CLI's hook and its outbox, and the delivery
of evidence to SIEM streams and notification endpoints. TLC checks them on small
instances; TLAPS proves every safety property the passing runs check, and three
refinements of abstract specifications, for every value of the constants. Every
definition is translated from the source; the lines each one stands for are in
`PROJECT.json` under `map`.

1. Inventory of the system
2. Modules, and how they correspond to the code
3. Runs: what is checked, with which bounds, and what it shows
4. Fairness
5. Proofs
6. Where the code departs from what it says
7. What is abstracted, and what is not modelled
8. Plan

## 1. Inventory of the system

spctre governs AI agents: an agent asks before it acts, the answer follows from
versioned policies, and everything that happens is kept as evidence. The
processes share one PostgreSQL database, and nearly all their coordination goes
through it: row locks, unique keys and conditional updates at READ COMMITTED.

- `src/apps/web`: the Next.js application (TypeScript), UI, API and a fallback
  for every path the worker serves.
- `src/apps/worker`: the Go worker, serving gateway decisions and evidence
  ingest over HTTP and running the background jobs. Several replicas may run.
- `src/packages/policy-schema/native`: the policy kernel (Rust).
- `src/packages/*`: CLI, MCP server, SDKs, agent adapters, API contracts.
- `src/db/migrations`: the schema.

| Component | State | Operations | Interacts with | What is hard | What makes it correct |
|---|---|---|---|---|---|
| Job lease and sweep ledger (`jobs_lease.go`, `jobs_ledger.go`, `jobs.go`) | `job_lease`, `job_run`, a keeper goroutine per run | acquire, open, renew, finish, release; ticker and HTTP triggers | every job | a process dies or stalls anywhere; a statement's answer is lost; READ COMMITTED re-reads | an unexpired lease is never stolen; a closed run keeps its outcome; an open run is found by its successor |
| Escalation SLA sweep (`jobs_escalation_sla.go`) | the operations log, `gateway_escalation_queue` | query the due, look for a reminder, append one | job lease, reviewers | check-then-append without a lock; partial sweeps | one reminder per escalation and kind; SUCCESS means all were reminded |
| Gateway decision (`gateway.go`, `gateway_persist.go`; web `api/gateway/decide`) | `gateway_decision`, `gateway_escalation_queue` | evaluate, persist, queue | credentials, reviewers, policy kernel | retries after lost answers; worker and web at once | the first outcome stands; ESCALATE is queued |
| Gateway credentials (`gateway_credentials.go`; web `credentials.ts`) | `gateway_credential_grant` | replay check, broker lookup, grant, record an ABORT | decisions, external brokers | a grant that commits and is not answered | one credential per decision row; fail closed |
| Escalation review (`gateway_escalation.go`; web `escalations.ts`, `service.ts`) | the queue row, the decision row | claim, resolve, poll | decisions, credentials | two reviewers; a refresh under a reviewer; two statements | terminal stands; no credential without an approval |
| Gateway evaluation and safeguards (`gateway.go`, `gateway_safeguards.go`, `policy_bundle.go`; web `api/gateway/decide`, `published-enforcement.ts`) | counts over `gateway_decision` | thresholds, inspection, budgets, policy, envelope | kernel, Blueprints, publications | five reads in statements of their own while others publish | what forbids the action throughout a call is not overlooked |
| Agent Blueprints (`agent-blueprints.ts`, `domains/agent-blueprints`) | `agent_blueprint`, its revisions and approvals | draft, import, submit, review, publish, roll back | policies, gateways | approvals read long before the status is written; two notions of the revision in force | a published revision met its quorum; gateways hold calls to it |
| Evidence ingest (`evidence.go`, web `repositories/evidence/runtime.ts`) | `runtime_evidence_event_key`, `runtime_evidence_event`, `runtime_evidence_chain_head` | claim key, lock head, store, count | retention, metering | retries, three writers, roll backs | one linear chain; nothing acknowledged is missing from it |
| Retention (`jobs_retention.go`, web `compliance.ts`, `archive-evidence/route.ts`) | the same tables | prune staging, archive and prune production, prune the rest | archive storage, metering | many autocommitted statements on an old list | archived before deleted; keys go with events |
| Usage metering and reconciliation (`metering.ts`, `jobs_usage_reconcile.go`) | `tenant_usage_period` | count, discount, measure, apply, notify | ingest, retention | measured in one statement and written in another | exactly-once billing; the gauge heals; one notice per month |
| Operations log (`operations-log/log.ts`) | `operations_log_entry`, its chain | append | everything | concurrent appends | one linear chain |
| SIEM forwarding (`jobs_siem.go`, `siem-stream.ts`) | stream cursor, failure count, suspension | list, send, advance, clear, suspend; create, toggle, delete | external endpoints | commits behind a cursor; overlapping sweeps; operators in between | what the cursor passed was received; a stop explains itself |
| Notifications (`jobs_notifications.go`, `alerting.ts`) | `notification_delivery`, alerting rules | match, page, send, record, give up | external endpoints | sent and not recorded; one pair listed twice | bounded posts per pair |
| Policy kernel (`eval.rs`, `validate.rs`, `integrity.rs`) | none (pure) | evaluate, validate, hash | gateway, web, CLI | precedence, conflicts | the strictest applicable rule wins |
| Review and publication (`lib/domains/review`, `repositories/policy`) | `policy_revision`, `policy_approval`, `policy_publish`, the branch head | draft, commit, decide, publish, roll back, serve the bundle | kernel, runtimes | check and insert in separate statements; approvals dropped in between | what is published through review met its quorum; an answer is recorded |
| Policy branches, imports and packs (`branches.ts`, `domains/policy/service.ts`, `packs`) | `policy_branch` | create, import, install, upgrade, delete | publication | advisory and row locks; deletion in four statements | imports share a branch; a deletion takes nothing it had not looked for |
| Service tokens (`repositories/auth/service-tokens.ts`) | `service_token`, `service_refresh_token` | authenticate, rotate, revoke | CLI, MCP server | two rows locked in opposite orders; lost answers | a pair dies whole; one successor per pair |
| Resilience and rate limits (`resilience.go`, `ratelimit.go`, `fetch-retry.ts`) | breakers, buckets in memory | allow, record, refill | outgoing and incoming calls | half-open probes, refill arithmetic | bounded rate; a probe at a time |
| CLI hook, buffer and sync (`packages/cli/src`) | an SQLite outbox, the files of an older buffer, `config.json` | decide, ask the gateway, post, push, migrate, flush; refresh, sync, revoke | evidence API, gateway, token API | short-lived processes share files; a timeout beside a late answer | evidence vanishes only in named ways; the audit agrees with what ran; the file holds the last pair |
| MCP server (`packages/mcp-server`) | a token pair and one refresh in memory | call, join a refresh, repeat after a 401 | token API | concurrent calls, timeouts, restarts | the pair is spent once, and not behind another call's back |
| SDKs, contracts, adapters, UI, authentication, migrations | sessions | request and response | the APIs above | little of their own | protocol conformance |

## 2. Modules, and how they correspond to the code

    Lease       <--- refined by ---  JobLease  <--- extended by ---  SlaMonitor
    Ledger      <--- refined by ---  EvidenceLedger
    TokenPairs  <--- refined by ---  TokenRotation
    GatewayDecision      PolicyPublication      CliHook      Delivery
    Blueprint, PolicyKernel  <--- extended by ---  GatewayEvaluation

`MC*` modules instantiate a module for TLC; `*Proofs` modules extend one with
its theorems. Operators described as mutants in a comment are plausible bugs of
one operation each: a property is listed with one that breaks it.

**Lease.** What a row of `job_lease` promises, without processes: an unexpired
lease is neither stolen nor deleted except by its holder, and a token is taken
once.

**JobLease.** A run is one call of `runWithJobLease`. `holder`, `expired`,
`leaseRun` are the columns `token`, `expires_at < now()`, `run_id` of its lease
row; `lock` is a row lock held FOR UPDATE; `ledger` is `job_run`; `phase`,
`recorded`, `result`, `keeper`, `cancelled`, `ctxDone` are the run's position and
locals. `acquireJobLease` is split in the snapshot of its statement
(`BeginAcquire`, which fixes the CTE `prev`) and the upsert on the latest row
version (`WinLease`, `LoseLease`), because PostgreSQL re-reads the row it waited
for and not the CTE. `CheckLease` and `OpenCommits` are the two ends of
`openRunUnderLease`'s transaction; `RenewHeld`, `RenewLost`, `KeeperExits` the
keeper; `FinishJobRun`, `ReleaseHeld` what follows the sweep. Each statement may
fail, or take effect without its answer arriving. `Expire`, `Shutdown` (SIGTERM,
ticker runs only) and `Crash` may happen at any moment.

**SlaMonitor** extends JobLease with the body of one sweep: `QueryDue`,
`CheckReminder` (the EXISTS that takes no lock), `AppendReminder`. Every lease
action runs together with `EndSweeps`, which ties a run's SUCCESS to the sweep
having dealt with all its rows. Which lease a run takes depends on its trigger,
as the names in `jobs.go` and `http.go` do.

**GatewayDecision.** One decision id, evaluated under any of several artifact
hashes, each a row of `gateway_decision` (`dec`, with the first outcome kept in
the history variable `first`), one queue row (`qStatus`, `qRow`, `qOutcome`,
`qNote`) and a grant per decision row. Calls are served by the worker (one
transaction: `PersistInWorker`) or by the web (`InsertInWeb`, `QueueInWeb`,
autocommitted one by one); both then broker a credential (`Grant`,
`GrantConflict`, `BrokerFails`, `RecordAbort`). Polls and reviewers are actors of
their own. A statement that fails may have committed.

**Ledger.** What the evidence tables promise a tenant, without transactions,
keys, locks or months: an append-only log, each entry over all before it and
billed as it is made, kept unaltered until it is erased, and nobody told of an
entry that was never made.

**EvidenceLedger.** One tenant. Ingest is a transaction whose effects appear at
its commit (`Store`); what orders transactions before is the claimed key
(`ClaimKey` waits for a transaction in flight with the same key) and the lock on
the head row (`LockHead`). `StoreNothing` is the gateway's no-op insert. A sweep
goes through its stages staging, production, other; each of its statements is an
action and commits by itself, and may fail in the way its error is handled: an
error that is logged lets the sweep go on (`ArchiveFails`, `DeleteChunkFails`,
`DeleteKeysFails`, a `Discount` without effect), any other, and the death of the
process, is `SweepFails`. `WebPrune` is the web's pruning transaction; `Measure`
and `Apply` are the audit. `stranded`, `overlapped`, `removed` and `stored` are
history variables for the properties. A content hash covers the event and the
hash before it, so it is modelled by the sequence of ids chained so far: equal
exactly when the histories are. `AbstractLedger` maps the chain, the events, the
sum of the months' counts and the answers given to a Ledger.

**PolicyPublication.** Branches of one workspace. `branch` and `head` are the
rows of `policy_branch`, `revision` those of `policy_revision` with their rules,
`approval` and `publishes` the tables of their name. A revision never changes, so
a handler that has read one still knows it; heads, approvals and publications do
change, and a handler that reads them in one statement and writes in another is
two actions, with its locals in `req`. `CreateBranch`, `Draft`, `Commit` and
`Review` are single transactions. The idempotent import takes an advisory lock on
the identity and the snapshot of its query (`ImportBegins`), gets the branch row
FOR UPDATE, perhaps after a wait (`ImportRead`), and writes (`ImportWrite`):
`AdvisoryFree` and `Unlocked` make the others wait. PostgreSQL reads the branch
again after the wait and keeps the joined revision of the snapshot, so the head
is the latest and its source is known only if the head has not moved.
`PackInstall`, `PackRead`, `PackWrite` are the packs, `PublishCheck`,
`PublishFindsRow`, `PublishInsert` the three statements of a publication,
`RollbackCheck`, `RollbackWrite` the rollback; `StatementBegins` fixes the
`published_at` of either (DEFAULT now()) before it waits for a lock, and the row's
`serial` is the order of the commits. `DeleteCheck` to `DeleteBranch`
are the check and the statements of a deletion, `ServeLatest`, `ServeLayers` the two
reads behind the runtime's bundle. `Abandon` is a refusal, a failure or a lost
process anywhere. `met`, `written`, `condemned` and `overtaken` are history.

**TokenPairs.** What the server promises of an agent's tokens, without requests,
locks, clients or time: a live pair is spent on one successor or revoked, once
and for good.

**TokenRotation.** A pair is a row of `service_token` and the refresh token that
refers to it; `age`, `access`, `refresh`, `parent` are their columns. `call` holds
the requests as the server works on them, split where a statement waits for a
row lock (`RotateRead`, `RotateCommit`; `Authenticate`, `RevokeAccess`,
`RevokeCommit`), and goes on when its client has given up. `hook` are processes of
the CLI over one `config.json` (`file`): `HookStarts`, `RefreshAnswered` or
`RefreshTimesOut`, `RereadConfig`, `WriteConfig`, the sync's `PersistRead` and
`PersistWrite`, `RevokeStarts` and `RevokeEnds`. The MCP server holds a pair
(`held`), one refresh in flight (`flight`, the code's `refreshPromise`) and its
tool calls (`caller`), which join it; `McpRestarts` falls back on the pair of the
environment. `forgotten` collects the pairs whose successor was lost on its way.
`AbstractPairs` reads the life of a pair off its two rows.

**CliHook.** One process per tool call (`pretooluse.ts`). `pc` is where its
decision stands: `Begin` posts the local decision and goes on, `GatewayAnswers`,
`Granted`, `Reviewed` are the gateway's answers, `GatewayOut` and `Outage` the
outage policy after three seconds without one, `ExitsAfterWait` and `Allow` the
waits before the process blocks or lets the tool run. `sent` and `failed` are its
posts, `job` its synchronous work on the outbox (moving the files of the older
buffer, pushing a record), `row` its flush. A file is read (`ReadFile`) before it
is moved in a transaction (`MoveFile`) and removed (`UnlinkFile`); one that cannot
be read or parsed is removed without a move (`ReadFails`, the history variable
`unread`). A process that dies before it has answered its harness is `KILLED`,
and as Kimi takes a kill for ALLOW, its tool counts as one that ran; so does the
tool of a process that died after it had let it run (`DEAD`). A process runs one thread, so while
it is at work on the outbox its other steps wait (`Free`), and those of other
processes do not. `Insert` gives a row the id after the largest, as SQLite does
without AUTOINCREMENT, and `Remove` deletes by id.

**Delivery.** One stream, and the alerting rules of one workspace, swept by
sweeps that may overlap, since a displaced sweep is stopped by its context and
not by the database. `ListStreams`, `ListEvents`, `SendBatch`, `MoveCursor`,
`ClearFailures`, `RecordFailure` are the forwarder's statements; `ListOffers`,
`NextPage`, `PassOver`, `SendOffer`, `RecordOutcome` the sender's; one `SendOffer`
is an attempt, which posts up to `Tries` times (`outboundRetryAttempts`). `CreateStream`,
`ToggleStream`, `DeleteStream`, `CreateRule`, `DeleteRule` are the operators'
requests, each one statement. `BeginEvent` fixes an event's `created_at` and
`CommitEvent` makes it visible. `SweepEnds` is a failure, an open breaker or a
death at any step.

**PolicyKernel** is what `eval.rs` computes: `Overlay` puts one layer over those
before it, `Compose` folds the layers, `Verdict` is the strictest effect of the
rules that match. A revision's rules are a function on stable ids, since these
are unique in a revision, and matching is part of a rule's effect (`NO_MATCH`).

**Blueprint.** One agent's Blueprint: `active` is `active_revision_id`,
`revisions` the revision rows with their definition, status and `published_at`
(a count, `clock`), `approval` the approvals. `CreateRevision`, `Submit`,
`Review`, `Rollback` are single transactions; publishing is `CheckReadiness`,
which reads the approvals, and `Publish`, the conditional update. `published` are
the policy publications of the workspace, of which `PublishPolicy` is the last
statement. `WebBlueprint` and `WorkerBlueprint` are the queries with which the
two gateways look for the revision in force. `met` is history.

**GatewayEvaluation** composes the two with the calls of one session: each
statement of a call is an action (`WorkerBegins`, `Safeguards`, `CountCalls`,
`WorkerReadsPolicy`, `Envelope`; `WebBegins`, `WebReadsLatest`,
`WebReadsLayers`, `CountCalls`; `Persist`), in the order of `gateway.go` and of
`decide/route.ts`, which is not the same: the web reads its Blueprint first and
budgets last, the worker budgets before the policy and the envelope last.
`Layers` is the query of the published layers, `Merge` how a policy's verdict
joins what was decided before. `CallFails` is any failure: the answer is then a
refusal, though the row may have been stored. `since` is history: what has held
at every moment of a call. Its reference, `InForce`, says which rules are in
force without composing layers.

## 3. Runs

| Run | Configuration | What it shows |
|---|---|---|
| `job_lease` | `MCJobLease.cfg`: one job, a ticker's run and an HTTP run, fairness | `LeaseInv`, `OutcomeStands`, `OpenRunKeepsItsLease`, that JobLease implements Lease; a dead holder's run is closed by a successor (`CrashedRunIsClosed`); a displaced sweep stops |
| `sla_monitor` | `MCSlaMonitor.cfg`: two replicas' tickers, one escalation | `SlaInv`, `RemindedOnce` while leases are held, `SuccessReminds` |
| `sla_triggers` | `MCSlaTriggers.cfg`: a ticker and an HTTP trigger | finding: they do not exclude each other |
| `gateway_decision` | `MCGatewayDecision.cfg`: two hashes, a worker and a web call, two polls, a worker and a web reviewer | `CredentialInv`, `OneCredentialPerRow`, `WorkerFailsClosed`, `EscalationIsQueued`, `OneResolution`, `TerminalStands` |
| `evidence_ledger` | `MCEvidenceLedger.cfg`: two events (production, staging), a worker and two gateway ingests, a sweep, audits without end, two months, capacity 1 | `ChainInv`, that EvidenceLedger implements Ledger (`ImplementsLedger`), `KeysFollowEvents`, `ToldOncePerMonth`, `GaugeFollowsKeys`, and under fairness `GaugeHeals` |
| `evidence_archive` | `MCEvidenceArchive.cfg` | finding: deleted without an archive |
| `policy_publication` | `MCPolicyPublication.cfg`: two branches of one identity, three requests, two revisions, three publications, a reviewer | `PublicationInv`, `PublishedWasReviewed`, `AnsweredIsRecorded`, `ServedFollowsLatest`, `ImportsAreIdempotent`, `DeletionSparesWhatItSaw`, `ImportExtendsHead` |
| `token_rotation` | `MCTokenRotation.cfg`: two CLI processes, two tool calls, two requests at the server, three pairs | `TokenInv`, `FileIsLatest`, `HeldIsLatest`, that TokenRotation implements TokenPairs (`ImplementsPairs`) |
| `cli_hook` | `MCCliHook.cfg`: two processes, one legacy file, four circumstances to start in | `HookInv`, `NothingVanishes`, `AuditAgrees` |
| `delivery` | `MCDelivery.cfg`: two events, an integration with two rules, two overlapping sweeps of three, two operators' requests | `DeliveryInv`, `AttemptsAreBounded` |
| `gateway_evaluation` | `MCGatewayEvaluation.cfg`: a worker and a web call, two revisions of a Blueprint, policies of two organization-wide branches and a connector's | `BlueprintInv`, `DenialsHold`, `ImmutableRulesStayInForce` |
| `gateway_envelope` | `MCGatewayEnvelope.cfg`: a worker call | finding: a draft suspends the envelope |

Bounds and why they are enough. Every count below is a constant of its module,
and the proofs hold without the bound.

- *Runs of a job.* Two runs race for a lease, and a run that loses tries again,
  so triggers are not exhausted by losing; liveness needs one dead holder and one
  successor. A third run would let a displaced holder's successor be displaced in
  turn: the safety properties hold with three as well (1.7 million states), and
  their proofs cover any number.
- *Reminders.* `MaxReminders = 2` tells one reminder from a doubled one.
- *Gateway.* Two hashes are needed to move an escalation between rows and to
  compare credentials of different rows; a call and two polls race for a grant;
  two reviewers contradict each other. A caller that retries is another call.
- *Evidence.* Two ids tell a duplicate from a new event and let one be deleted
  while the other is chained; three ingests give a claim, a repeat and a repeat
  after deletion. `BatchSize = 1` makes two events two batches, which is the
  boundary at which the pruning loop goes on. `MaxPeriod = 2` ends one month; the
  month ends only while one of the three ingests is still to come, and no third
  one begins after it (`Apart`), which keeps the liveness check in reach.
  `Capacity = 1` is crossed by the second event. Audits are not counted: each
  ends where it began, so one audit stands for all that follow one another. The
  ticker and the endpoint take the same lease (`usage-reconcile`), so audits
  exclude each other as far as JobLease says runs do; a displaced audit that
  still writes is not in this instance, and with two audits at once a month
  could be notified twice.
- *Policies.* Two branches that share an identity are what an import must not
  make; three requests let a deletion, a publication and a rollback (or a bundle's
  two reads) interleave; two revisions give a head and an older one, three
  publications a first, a later and a repeated one, in any order of stamps and
  commits. A commit on a parent that
  is not the head needs a third revision: with three, two requests and two
  publications the properties hold as well (2.9 million states), and the proofs
  cover any number.
- *Tokens.* Pair 1 is the CLI's, pair 2 the MCP server's environment; the third
  is the one successor a rotation can produce, and the race for it is what the
  properties are about (they hold with a fourth, one client of each kind, as well). Two requests at the server are two rotations of one pair,
  or a rotation and a revocation. `MaxAttempts = 2` gives one retry.
- *Hook.* Two processes share the outbox; two rows are enough for an id to be
  given again while a delivery is out. The four circumstances are the corners of
  local decision, mode and outage policy that end differently.
- *Delivery.* `MaxClock = 1` and `Settle = 1` let an event settle or be late;
  batches of one make two events two batches; a page of three is full with the
  four offers of two rules, and a second page follows it. `Tries = 2` tells an
  attempt from its posts. Two overlapping sweeps and a third after them; `MaxAttempts = 2` tells a
  failure from the last one; two operators' requests create and pause, or
  pause and resume.
- *Evaluation.* One call of each gateway, with inputs that the thresholds, the
  inspection limit and a token budget tell apart. The run starts with a published
  revision (`GovernedInit`): the wide one without any policy published, the
  narrow one with the policy it is bound to; the second revision goes all the way
  from its draft, and two publications put each branch before and after the
  others. `MaxStamps = 2` is one publication or rollback of a Blueprint after
  that. Two calls of one gateway differ from one of each only in a race for the
  budget, which no property excludes.
- *Symmetry* is used in safety runs only, between actors and values that no
  configuration tells apart: hashes, polls, gateway ingests, requests, branches
  of one identity, processes, tool calls, sweeps, rules of one integration.

Deadlock is checked in the job lease and SLA runs, where `Exhausted` marks the
states in which all modelled runs are over. The other runs switch it off: their
calls, reviews, requests, processes and sweeps are finite, and the system rests
when they are done or a bound is reached.

## 4. Fairness

`JobLease!FairSpec` assumes that a process that is not killed goes on (weak
fairness of its steps); that a sweep returns once its context is cancelled, and
nothing about one that is not, since nothing bounds a sweep; that a failed
acquisition is tried again at the next tick and that the database does not fail
all of them (strong fairness of `WinLease`); and that time passes, so that a
lease no keeper renews expires. `Crash`, `Shutdown` and the expiry of a live
lease have no fairness.

`EvidenceLedger!FairSpec` assumes that the reconciliation ticker (`jobs.go`)
measures again and again (weak fairness of `Measure`) and does not fail for ever
to write what it measured (strong fairness of `Apply`). Ingest and retention
have none: `GaugeHeals` speaks of the time when they are at rest.

The other modules state no fairness. A CLI process may be killed at any moment
and nothing starts another; a runtime may never come back; a stream that is
suspended waits for its operator. What they promise under those terms is safety,
with the losses named.

## 5. Proofs

| Theorem | Module | Rests on |
|---|---|---|
| `LeaseInvariant`, `LeaseRunTheorem` | JobLeaseProofs | `LeaseInv` is inductive: `TypeOK`, `LeaseRunIsHolders`, `LockIsHolders`, `LedgerMatchesPhase` |
| `OutcomeTheorem`, `ReferenceTheorem` | JobLeaseProofs | action properties, from `LeaseInv` |
| `RefinementTheorem` | JobLeaseProofs | every step of JobLease is a step or a stutter of Lease, from `LeaseInv` |
| `CompositionTheorem` | JobLeaseProofs | every step of SlaMonitor is a step of JobLease or leaves the lease alone: what is proved of the lease holds under the sweep |
| `SlaTheorem`, `SuccessTheorem` | JobLeaseProofs | `SlaInv`, over the steps of the lease as well as of the sweep |
| `RemindedTheorem` | JobLeaseProofs | `Alone`: while no two sweeps overlapped, sweeps hold their lease, what a sweep found missing is still missing, and nothing was sent twice |
| `CredentialInvariant`, `OneCredentialTheorem`, `PollTheorem` | GatewayDecisionProofs | `CredentialInv` is inductive: `TypeOK`, `RowsKnown`, `HolderOwnsGrant`, `ApprovedByReview` |
| `TerminalTheorem` | GatewayDecisionProofs | an action property, from `TerminalRowWriters`: of all steps only a poll's failed brokering writes a queue row that is terminal |
| `FailsClosedTheorem` | GatewayDecisionProofs | from `TypeOK` alone: it is about one call's steps |
| `QueuedTheorem` | GatewayDecisionProofs | `Queued`: a persisted ESCALATE has its queue row before it answers |
| `ResolutionTheorem` | GatewayDecisionProofs | `Resolvers` and `Pollers`: what a review or a poll past its update knows of the queue row |
| `ChainTheorem` | EvidenceLedgerProofs | `ChainInv` is inductive: `TypeOK`, `HeadIsLocked`, `ChainIsLinear` |
| `AcknowledgedTheorem` | EvidenceLedgerProofs | `AckInv`: `ChainInv`, and that every key and every event is in the chain |
| `CountTheorem` | EvidenceLedgerProofs | `ChainInv`, and a sum over the months that grows with the head |
| `KeyTheorem` | EvidenceLedgerProofs | `KeyInv`: claims in flight are apart, resting sweeps have no list, a sweep that is alone has events left to delete and keys without events |
| `NoticeTheorem` | EvidenceLedgerProofs | `NoticeInv`: an audit that read an untold month has a month nobody was told of |
| `GaugeTheorem` | EvidenceLedgerProofs | `GaugeInv`: `KeyInv`, and a sweep has keys to account for only between their deletion and the discount |
| `LedgerTheorem` | EvidenceLedgerProofs | every step of EvidenceLedger is a step or a stutter of Ledger, from `AckInv` and what one changed month does to the sum |
| `BookTheorem` | EvidenceLedgerProofs | `LedgerInv`, for whatever implements Ledger |
| `LineageTheorem`, `ImmutableRulesTheorem`, `AnswerTheorem`, `ServedTheorem`, `ImportTheorem` | PolicyPublicationProofs | `PolicyIInv`: what revisions, heads, publications and requests are, what a request still knows of what it read, and that a stamp is one statement's |
| `ReviewTheorem` | PolicyPublicationProofs | `PolicyIInv` and `QuorumsOK`: a quorum that stands is one that was met |
| `ImportExtendsTheorem`, `DeletionTheorem` | PolicyPublicationProofs | action properties, from `PolicyIInv` |
| `TokenInvariant` | TokenRotationProofs | `TokenIInv`: `TokenInv`, and that a rotation past its read holds a good row, alone |
| `FileTheorem`, `HeldTheorem` | TokenRotationProofs | `LatestInv`: every request is awaited by one client, the two clients share no pair, a pair on its way is unspent and known to nobody else, a rotation of a pair in use is awaited or was given up |
| `PairsTheorem` | TokenRotationProofs | every step of TokenRotation is a step or a stutter of TokenPairs, from `TokenIInv` |
| `LineTheorem` | TokenRotationProofs | `OneLivePerLine`, for whatever implements TokenPairs: a pair not yet issued is nobody's parent, and a parent is spent |
| `LegacyTheorem`, `NothingVanishesTheorem` | CliHookProofs | `HookIInv`: `TypeOK`, a process that delivers has read a row, a file counts once it moved, and one that is gone was moved or could not be read |
| `AuditTheorem` | CliHookProofs | `AuditInv`: records say what their process decided, and an enforced denial blocks unless its process was killed before |
| `DeliveryTheorem` | DeliveryProofs | `BaseInv`, `CursorInv` and `Explained` |
| `AttemptsTheorem` | DeliveryProofs | `PostsInv`: every attempt was lost, written down or is awaited, a listing is one that may come, and there are at most `Tries` posts to an attempt; from `BaseInv` |
| `BlueprintTheorem` | GatewayEvaluationProofs | `BlueprintIInv`: a quorum that stands was met, a request past its reading has met it, stamps are given once |
| `VerdictTheorem`, `ImmutableTheorem` | GatewayEvaluationProofs | `InForceIsComposed`: what composing the layers yields is what `InForce` says without composing; from `BlueprintInv` |
| `DenialsTheorem` | GatewayEvaluationProofs | `EvaluationIInv`: what holds against a call at each of its steps is in its outcome or still to be read |

*The lease.* `LeaseRunIsHolders` is not inductive: `OpenCommits` writes the run
id without looking at the token again. That it writes into its own row is
`LockIsHolders`: whoever is between check and commit has the row lock, so nobody
has taken the lease since. `LedgerMatchesPhase` carries the ledger's side: a run
that is to finish its row finds it open or ABANDONED. The refinement maps the
abstract `over` to the runs whose phase is `done`; a crashed run's token is never
over, which is why its lease is only ever stolen.

*The gateway.* A caller that was handed a credential owns the grant row, and a
grant row has one owner: hence one credential per row. That a poll's credential
rests on a reviewer needs the fact about the queue row as well (a queue row that
reads RESOLVED to PROCEED has its approval), for the poll reads it in an earlier
step; the lemma `ApprovalsGrow` says approvals are never taken back.

*The evidence.* The chain is linear because a transaction past `LockHead` is
alone and its previous hash is still the head (`HeadIsLocked`), so that `Store`
appends to what every earlier event is a prefix of. An acknowledgement needs
that keys and events, which a duplicate is told from, are themselves in the
chain; deleting them keeps that, since the head only grows. Two properties sum
over a table. The library's sum is recursive, so the proofs unfold it into a
function on subsets (`Sums`) and show what one changed element does to it by
taking a least subset for which it does not (`SumChanges`); `CountTheorem`, `GaugeTheorem`
and `LedgerTheorem` rest on that lemma. The refinement says more than the
invariants it replaces in the run: `AcknowledgedIsChained` and
`CountedExactlyOnce`, proved by themselves as well, are what `BookTheorem` draws
from it, and besides no step of a sweep, an audit or a retry appends, alters or
bills anything. It needs `AckInv` where a duplicate is confirmed.

*Publication.* What a request read before a lock or in an earlier statement may
be stale, so `RequestsOK` says step by step what is still true of it: that its
revision is of its branch, that a request about to insert a publication has one
that met its quorum, that an import's head is still the one it locked. Deletion
is what disturbs it: `condemned` is the moment a branch was found without
publications, and every publication it has since was committed later. What a
bundle shows is stated by commits too: `seen` is how many publications there were
when its label was read, and their stamps are at most the label and the layers'.

*Tokens.* A pair dies together because only a rotation that is past its read and
holds the row revokes the old half (`LockedIsGood`), and a second rotation of the
same pair finds it revoked and has no successor to make.
That a client keeps its latest pair is not inductive, for the file and the
process's memory are apart from the request that rotates. `LatestInv` follows the
successor: a request belongs to one waiting client (`Waits`), what it brings is
live and known to nobody else until it is written (`Carried`), and a rotated pair
nobody waits for is one the model marked as forgotten (`Orphans`). The CLI and
the MCP server never come to hold the same pair (`Apart`), so neither can spend
the other's.
The two tables are shown to implement TokenPairs in the same way as the lease
does Lease: a rotation commits on a row it read earlier, and `LockedIsGood` with
`PairDiesTogether` says the pair is still live at that moment. What that is worth
is `LineTheorem`. It speaks of any assignment of pairs to lines that agrees with
`parent`, and shows there is one, so that no closure of `parent` is needed.

*The hook.* `NothingVanishes` is proved store by store: a record that is
accounted for stays so when the stores only grow and what waits goes on waiting
or goes into one of them.

*Delivery.* `NothingIsSkipped` is about the row's cursor; inductive is that the
same holds of every cursor a sweep has read, is about to earn or is about to
write (`CursorInv`), for each of these may become the row's. What commits late
is excused by the property itself, and the settling window is why only that is.

*Evaluation.* `Compose` is a recursive function over the sequence of layers, and
the order of the layers is a choice over a set; both are met by induction over
numbers, done by a least counterexample (`LeastNat`). `ComposedIs` says which
branch has an id after so many layers; `Precedes` is shown to be an order
(`RankOrders`) and the layers to be its enumeration (`LayersAre`), so the layer
that wins is the one `InForce` names (`InForceLemma`). Then an immutable rule is
displaced only by its own branch or a broader one, and the verdict is that of the
rules in force. For the calls, `since` says what has held from their beginning;
`CallAt` says at each step that what is in `since` is either in the outcome
already or will be met by a read still to come (`Obeys`, `Inside`, `Within`,
`Knowing`), and `OthersKeep` that no publication or other call disturbs that. The
theorems are about `Spec`, which begins with nothing published; the run begins at
`GovernedInit`, which `Spec` reaches, to save TLC the way there.

The assumptions are those the modules declare for their constants: a run's job
is a job, roles are disjoint, NULL is no value, ids are finitely many, batch
sizes, months and quorums are positive. Three theorems have premises of their
own: `RemindedTheorem` that the sweeps share one lease, `NoticeTheorem` that
there is one audit (a ticker's follow one another), `GaugeTheorem` that there are
finitely many sweeps.

Every safety property a passing run checks is proved. Only model-checked: the
liveness properties `CrashedRunIsClosed`, `DisplacedSweepStops` and `GaugeHeals`
and everything about fairness (out of the prover's reach), and the runs that end
in a violation.

## 6. Where the code departs from what it says

Three departures are runs whose expected result is a violation, with the quoted
statement in `PROJECT.json` under `findings`.

- `sla_triggers`: `jobs.go:74-76` says the HTTP endpoints take the same lease. The
  names differ for the SLA and the retention sweeps, so both triggers run at
  once and a reminder is doubled.
- `evidence_archive`: `jobs_retention.go:463-464` says production evidence is
  archived before it is deleted. The archive route answers 200 when single
  records fail, and the sweep deletes its whole list.
- `gateway_envelope`: `service.ts:260` and migration 006 say runtimes select the
  latest published revision of a Blueprint, and the web gateway does. The
  worker's queries join `active_revision_id`, which a new draft takes at once
  (`agent-blueprints.ts:402`) and a publication leaves alone: from the first
  draft until it is published, or a rollback, the worker finds no published
  Blueprint and holds calls to none.

Others were met while modelling. The models contain the behaviour, and the
property that comes nearest names it as its exception.

- *Lease* (`jobs_lease.go:89`): the only row said to lose its reference in a
  takeover is one already closed. The CTE reads the snapshot of the statement and
  the upsert the row it waited for; an opening that commits in between is
  overwritten unseen, and if its run then dies its ledger row stays open for
  ever. `OpenRunKeepsItsLease`, proved, says this is the only such way, besides a
  release after a failed finish.
- *Gateway replay* (`gateway_persist.go:41-43`): a caller is said to keep
  operating on the decision of record. It goes on with what it just evaluated.
- *Gateway review* (`service.ts:217-219`): a credential is said to be released
  only after a human resolved this exact escalation. A retry under another
  artifact hash moves an open escalation to another decision row under its
  reviewer.
- *Closed months* (`jobs_usage_reconcile.go`): a closed period's measurement is
  said not to move. It is written by row id, whether or not the month has ended.
- *Keys and gauge*: `GaugeFollowsKeys` and `KeysFollowEvents` name what else can
  part the gauge from the keys and the keys from the events: a failed delete of
  keys strands them, a broken loop discounts its whole list, overlapping deleters
  can remove the key of an event that was ingested again. `GaugeHeals` shows that
  the audit repairs the gauge; nothing repairs a stranded key, which makes a later
  ingest of its id a duplicate.
- *Listings* (`repositories/evidence/runtime.ts:28`) join the key row on a column
  the gateway's insert never sets: its events are stored, chained, billed, and not
  listed.
- *SIEM* (`jobs_siem.go:140`): an event that becomes visible the settling time or
  longer after its `created_at` is never forwarded. That time is the runtime's: an
  event that waited in an outbox of the CLI is such an event as a rule
  (`CommittedLate`).
- *Notifications* (`jobs_notifications.go:365-367`) are said never to be sent
  again. Two rules of one integration make one sweep list a pair twice, and
  overlapping sweeps do; the bound of `AttemptsAreBounded` counts them. Each attempt beyond
  or within the limit posts up to three times when the endpoint fails transiently
  (`resilience.go:181`), which the delivery row counts as one.
- *CLI outbox*: a record is deleted by a row id that SQLite may have given again,
  so an overlapping flush can remove a record nobody delivered (an exception of
  `NothingVanishes`). A 4xx discards the record. A process that blocks waits two
  seconds for its post, which gives up after three, so a slow denial leaves
  neither a record nor an outbox row. A file of the older buffer that cannot be
  read at the moment is removed like one that is corrupt (`buffer.ts:58-64`), and
  its evidence with it.
- *CLI gateway*: the degraded record of a decision is a second one under the same
  key, and stored only if the first was not. PROCEED with a credential runs a
  tool the local policy denies, which is why `AuditAgrees` speaks of tools that
  ran without it. A hook that Kimi kills while it waits to block, or for the
  gateway, leaves a denial on record beside a tool that ran
  (`pretooluse.ts:188-191`): the exception `AuditAgrees` names.
- *Tokens* (`token-lifecycle.mdx:60`): after a revocation the agent is said to be
  unable to authenticate. A rotation that is answered or in flight while the
  revocation commits leaves its successor valid, in a process or in the file
  that process then writes. `PairDiesTogether` is what does hold.
- *Publication*: publishing a revision that was published before and superseded
  since answers success without making it the latest; a rollback may activate a
  revision nobody reviewed (`reviewed` is FALSE for it, as for a pack); two
  commits on one parent leave one of them off the head's line; a commit that
  fails to read its parent's rules counts them as none.
- *Imports* (`branches.ts:560`): an import is said to be a no-op when the head
  already carries its source. If another writer moves the head while the import
  waits for the row, the LEFT JOIN's condition is rechecked against the old
  revision and yields no source hash, so the import appends a source the new
  head may carry already (`overtaken`).
- *Bundle* (`publish.ts:87`): the label is the largest `published_at`, which is
  fixed before its statement waits for a lock. A publication can thus be stamped
  before a label and committed after the bundle under it was served; the label
  stays, and a runtime that compares labels misses that layer until the next
  publication.
- *Bundle and deletion* (`publish.ts:127`): a branch deleted between the two
  reads of the bundle leaves no layers, which the web takes for "nothing
  published" although the deletion was of one branch. Erasure is
  PolicyPublication's and is not composed with the calls.
- *Inspection limit*: the worker refuses parameters beyond 32 KiB, the web does
  not look (`DenialsHold` claims it of the worker alone).
- *Budgets*: the session's tool-call budget and the trial's event cap are read
  before they are spent, so parallel calls pass them together.

## 7. What is abstracted, and what is not modelled

Abstracted in the modelled parts:

- *Lease:* time is the free action `Expire`, so the margins between TTL and
  renewal interval are not represented. The database-less mode, which runs sweeps
  without a lease, and the pruning of old ledger rows are left out.
- *Gateway:* in GatewayDecision evaluation is a free choice of outcome; receipts,
  telemetry, alerts, and the operations log's entry about a diverging replay are left out;
  review notes are reduced to who wrote them; an action no broker is configured
  for is `BrokerExists = FALSE`. No passing run needs that value: it disables
  the grant and leaves `NoBroker`.
- *Evidence:* one tenant. Repeats of an id carry its `created_at` (a client that
  lets the server set it does not get the unique key's protection once its
  dedupe key is gone; that case is not modelled). Expiry is a free choice of
  events, whatever their age. What the web spawns after the answer (operations
  log, trust score), archival at insert, erasure on request, the trial cap,
  partitions, policy artifacts and the usage report are left out.
- *Policies:* one workspace. The gates that only refuse a ready revision
  (validation, budget, simulation, verification, open escalations) are the request
  not being taken; rules are reduced to which of them are immutable. A source is the rule set it
  was parsed into; the source hashes of packs and commits are taken never to be
  an import's. Stamps differ (a tie of two `now()` is left out).
- *Evaluation:* one agent, one session, one action; decision ids differ, so the
  replay check never refuses (retries are GatewayDecision's). Risk thresholds are
  an input. Published revisions have their rules materialized; where they have
  not, the worker refuses and `CallFails` is that refusal. Stamps given by `now()`
  are in the order of the commits here (PolicyPublication does without that). Blueprints: the workflow asks for one role; an
  import is `CreateRevision` with the policy it found. Policy branches are not
  deleted here.
- *SLA sweep:* the LIMIT 200 of the query for the due is left out: what is beyond
  it is due at the next sweep.
- *Tokens:* the CLI and the MCP server use pairs of their own; an access token
  ages in three steps and not before the one it replaced. Deadlocks between
  rotation and revocation end as PostgreSQL ends them, by `CallFails`.
- *Hook:* heartbeats, calls without a bundle and tools no rule governs post like
  evidence and never block; harness formats, the bundle's download and set-up are
  left out.
- *Delivery:* one stream, one workspace; every event is a denial every rule
  matches. The legacy global webhook and the web's fire-and-forget dispatch, which
  keep no record, are left out. The retries within an attempt, on a stream or to an
  endpoint, are one step; breakers are a choice to pass over.
- *Everywhere:* request validation, authentication, logging and payloads.

Not modelled, with the reason per component in `PROJECT.json`: the operations
log, resilience and rate limits (see the plan); the kernel's matching,
validation and integrity (string code over one rule); SDKs, adapters, UI and
authentication (request and response over library protocols, little state of
their own); the migration runner (an ordered script). Renewal arithmetic (how many renewals of 30 s may
fail before a lease of 90 s expires, `jobs_lease.go:24`) and the SLA sweep's use
of the connection pool are hazards listed without a property, as time and the
pool are not modelled.

## 8. Plan

Done: the modules of section 2, their runs, and the proofs of section 5. What
would come next, in this order:

1. Abstract specifications of what else several processes share: an *Escalation*
   (asked, decided once, acted on once) that GatewayDecision implements, and a
   *Publication* (what is served is the latest that met its quorum) for
   PolicyPublication.
2. GatewayEvaluation composed with PolicyPublication's deletions, and the
   connection pool of the SLA sweep.
3. *Resilience* (`resilience.go`, `ratelimit.go`): circuit breaker and token
   bucket, with the arithmetic of the refill.
4. *CliHook* composed with the dedupe key of EvidenceLedger and with the SIEM
   cursor of Delivery, which its late events pass.
