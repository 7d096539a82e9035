--------------------------- MODULE EvidenceLedger ---------------------------
(***************************************************************************)
(* The evidence of one tenant: ingest (worker evidence.go, web             *)
(* repositories/evidence/runtime.ts), the retention sweep                  *)
(* (jobs_retention.go), the web's prune (repositories/evidence/            *)
(* compliance.ts) and the audit of the retained-event gauge                *)
(* (jobs_usage_reconcile.go).                                              *)
(*                                                                         *)
(* The tables are runtime_evidence_event_key (the decision ids claimed),   *)
(* runtime_evidence_event, runtime_evidence_chain_head and                 *)
(* tenant_usage_period.  Ingest is one transaction: it claims the key,     *)
(* locks the chain head, and writes the rest at its commit, which nothing  *)
(* can see or disturb before.  The sweep commits each statement alone.     *)
(* A content hash covers the event and the previous hash, so it is the     *)
(* sequence of the ids chained so far.  Repeated calls for one id carry    *)
(* the same created_at, as retries of one request do.                      *)
(***************************************************************************)
EXTENDS Integers, FiniteSets, Sequences, SequencesExt, Functions

CONSTANTS
    Ids,           \* decision ids
    EnvOf,         \* EnvOf[d]: the environment of the event
    WorkerCalls,   \* evidence POSTs served by the worker
    WebCalls,      \* the same, served by the web
    GatewayCalls,  \* gateway webhooks: insertGatewayEvidenceEvent
    Sweeps,        \* calls of runRetention
    Audits,        \* runs of runUsageReconciliation: a ticker's, one by one
    BatchSize,     \* retentionDeleteBatchSize
    Capacity,      \* retained_event_capacity of the profile
    MaxPeriod,     \* bound on the months that pass
    None           \* SQL NULL

Calls == WorkerCalls \cup WebCalls \cup GatewayCalls
Periods == 1 .. MaxPeriod
Environments == {"staging", "production", "other"}

ASSUME IdAssumption ==
    /\ IsFiniteSet(Ids)
    /\ EnvOf \in [Ids -> Environments]
ASSUME CallAssumption ==
    /\ WorkerCalls \cap WebCalls = {}
    /\ GatewayCalls \cap (WorkerCalls \cup WebCalls) = {}
ASSUME SizeAssumption ==
    /\ BatchSize \in Nat \ {0}
    /\ MaxPeriod \in Nat \ {0}
    /\ Capacity \in Nat
ASSUME NullAssumption == None \notin Nat \cup Ids \cup Periods

VARIABLES
    keys,       \* runtime_evidence_event_key: the ids that have a row
    events,     \* runtime_evidence_event: [id, prev]
    head,       \* runtime_evidence_chain_head.last_hash, NULL is <<>>
    period,     \* the month now() lies in
    ingested,   \* tenant_usage_period.ingested_count per month
    gauge,      \* retained_count per month, None until an audit seeds it
    notified,   \* cap_notified_at is set, per month
    notices,    \* USAGE_LIMIT_EXCEEDED events per month
    phase,      \* phase[c]: where a call is in its transaction
    subject,    \* subject[c]: the id it ingests
    prevHash,   \* prevHash[c]: the head it read
    begun,      \* begun[c]: now() of its transaction, as a month
    answer,     \* answer[c]: what the caller was told
    stage,      \* stage[s]: which environment a sweep is pruning
    step,       \* step[s]: the statement it is at
    list,       \* list[s]: the ids it will discount
    todo,       \* todo[s]: the production ids still to delete
    chunk,      \* chunk[s]: the ids whose keys it deletes next
    stored,     \* stored[s]: those of its list the archive stored (history)
    removed,    \* removed[s]: keys it deleted and has not discounted (history)
    sample,     \* sample[a]: what an audit measured
    stranded,   \* ids whose key outlived a failed deletion (history)
    overlapped  \* two deleters were at work at once (history)

ledgerVars == <<keys, events, head>>
usageVars  == <<period, ingested, gauge, notified, notices>>
callVars   == <<phase, subject, prevHash, begun, answer>>
sweepVars  == <<stage, step, list, todo, chunk, stored, removed>>
pastVars   == <<stranded, overlapped>>
vars == <<keys, events, head, period, ingested, gauge, notified, notices,
          phase, subject, prevHash, begun, answer, stage, step, list, todo,
          chunk, stored, removed, sample, stranded, overlapped>>

EventIds == {e.id : e \in events}
InFlight == {"keyed", "locked"}
Measurements == [month : Periods, retained : Nat, told : BOOLEAN]

TypeOK ==
    /\ keys \subseteq Ids
    /\ events \subseteq [id : Ids, prev : Seq(Ids)]
    /\ head \in Seq(Ids)
    /\ period \in Periods
    /\ ingested \in [Periods -> Nat]
    /\ gauge \in [Periods -> Nat \cup {None}]
    /\ notified \in [Periods -> BOOLEAN]
    /\ notices \in [Periods -> Nat]
    /\ phase \in [Calls -> {"new", "done"} \cup InFlight]
    /\ subject \in [Calls -> Ids \cup {None}]
    /\ \A c \in Calls : phase[c] \in InFlight => subject[c] \in Ids
    /\ prevHash \in [Calls -> Seq(Ids)]
    /\ begun \in [Calls -> Periods]
    /\ answer \in [Calls -> {"none", "STORED", "DUPLICATE", "ERROR"}]
    /\ stage \in [Sweeps -> {"idle", "done"} \cup Environments]
    /\ step \in [Sweeps -> {"select", "archive", "delete", "keys",
                            "discount"}]
    /\ list \in [Sweeps -> SUBSET Ids]
    /\ todo \in [Sweeps -> SUBSET Ids]
    /\ chunk \in [Sweeps -> SUBSET Ids]
    /\ stored \in [Sweeps -> SUBSET Ids]
    /\ removed \in [Sweeps -> Nat]
    /\ sample \in [Audits -> Measurements \cup {None}]
    /\ stranded \subseteq Ids
    /\ overlapped \in BOOLEAN

Init ==
    /\ keys = {} /\ events = {} /\ head = <<>>
    /\ period = 1
    /\ ingested = [m \in Periods |-> 0]
    /\ gauge = [m \in Periods |-> None]
    /\ notified = [m \in Periods |-> FALSE]
    /\ notices = [m \in Periods |-> 0]
    /\ phase = [c \in Calls |-> "new"]
    /\ subject = [c \in Calls |-> None]
    /\ prevHash = [c \in Calls |-> <<>>]
    /\ begun = [c \in Calls |-> 1]
    /\ answer = [c \in Calls |-> "none"]
    /\ stage = [s \in Sweeps |-> "idle"]
    /\ step = [s \in Sweeps |-> "delete"]
    /\ list = [s \in Sweeps |-> {}]
    /\ todo = [s \in Sweeps |-> {}]
    /\ chunk = [s \in Sweeps |-> {}]
    /\ stored = [s \in Sweeps |-> {}]
    /\ removed = [s \in Sweeps |-> 0]
    /\ sample = [a \in Audits |-> None]
    /\ stranded = {} /\ overlapped = FALSE

-----------------------------------------------------------------------------
(* insertEvidence, insertRuntimeEvidenceWithDedup, insertGatewayEvidence-  *)
(* Event: one transaction.                                                 *)

Answer(c, a) ==
    /\ phase' = [phase EXCEPT ![c] = "done"]
    /\ answer' = [answer EXCEPT ![c] = a]
    /\ prevHash' = [prevHash EXCEPT ![c] = <<>>]
    /\ begun' = [begun EXCEPT ![c] = 1]

(* Mutant: a claim another transaction has not committed counts as taken. *)
ClaimKeyAtOnce(c, d) ==
    /\ phase[c] = "new"
    /\ subject' = [subject EXCEPT ![c] = d]
    /\ IF \/ d \in keys
          \/ \E o \in Calls : phase[o] \in InFlight /\ subject[o] = d
         THEN Answer(c, "DUPLICATE")
         ELSE /\ phase' = [phase EXCEPT ![c] = "keyed"]
              /\ begun' = [begun EXCEPT ![c] = period]
              /\ UNCHANGED <<answer, prevHash>>
    /\ UNCHANGED <<ledgerVars, usageVars, sweepVars, sample, pastVars>>

(* INSERT ... ON CONFLICT DO NOTHING waits for a transaction that inserted *)
(* the same key, then sees what became of it.                              *)
ClaimKey(c, d) ==
    /\ phase[c] = "new"
    /\ ~\E o \in Calls : phase[o] \in InFlight /\ subject[o] = d
    /\ subject' = [subject EXCEPT ![c] = d]
    /\ IF d \in keys
         THEN Answer(c, "DUPLICATE")
         ELSE /\ phase' = [phase EXCEPT ![c] = "keyed"]
              /\ begun' = [begun EXCEPT ![c] = period]
              /\ UNCHANGED <<answer, prevHash>>
    /\ UNCHANGED <<ledgerVars, usageVars, sweepVars, sample, pastVars>>

(* Mutant: the head is read without the row lock. *)
ReadHead(c) ==
    /\ phase[c] = "keyed"
    /\ phase' = [phase EXCEPT ![c] = "locked"]
    /\ prevHash' = [prevHash EXCEPT ![c] = head]
    /\ UNCHANGED <<subject, begun, answer, ledgerVars, usageVars, sweepVars,
                   sample, pastVars>>

(* The head's upsert holds its row until the end of the transaction. *)
LockHead(c) ==
    /\ phase[c] = "keyed"
    /\ ~\E o \in Calls : phase[o] = "locked"
    /\ phase' = [phase EXCEPT ![c] = "locked"]
    /\ prevHash' = [prevHash EXCEPT ![c] = head]
    /\ UNCHANGED <<subject, begun, answer, ledgerVars, usageVars, sweepVars,
                   sample, pastVars>>

(* The month counted: the worker's SQL takes now(), the transaction's      *)
(* start; the web reads its clock when it counts, any time before commit.  *)
Months(c) == IF c \in WorkerCalls THEN {begun[c]} ELSE begun[c] .. period

(* The usage row: both counts, but the gauge only once it was seeded. *)
CountUsage(m) ==
    /\ ingested' = [ingested EXCEPT ![m] = @ + 1]
    /\ gauge' = IF gauge[m] = None THEN gauge
                ELSE [gauge EXCEPT ![m] = @ + 1]

(* The event, the key, the head and the count commit together; the answer  *)
(* may be lost on its way.                                                 *)
Store(c) ==
    LET d == subject[c] IN
    /\ phase[c] = "locked"
    /\ d \notin EventIds
    /\ events' = events \cup {[id |-> d, prev |-> prevHash[c]]}
    /\ keys' = keys \cup {d}
    /\ head' = Append(prevHash[c], d)
    /\ \E m \in Months(c) : CountUsage(m)
    /\ \E a \in {"STORED", "ERROR"} : Answer(c, a)
    /\ UNCHANGED <<subject, period, notified, notices, sweepVars,
                   sample, pastVars>>

(* An event without its key is still there: UNIQUE (tenant_id,             *)
(* decision_id, created_at).  The gateway's insert does nothing and keeps  *)
(* the key it claimed; the other two fail, see IngestFails.                *)
StoreNothing(c) ==
    /\ c \in GatewayCalls
    /\ phase[c] = "locked"
    /\ subject[c] \in EventIds
    /\ keys' = keys \cup {subject[c]}
    /\ Answer(c, "DUPLICATE")
    /\ UNCHANGED <<events, head, subject, usageVars, sweepVars, sample,
                   pastVars>>

(* Any statement fails, or the process dies: everything rolls back. *)
IngestFails(c) ==
    /\ phase[c] \in InFlight
    /\ Answer(c, "ERROR")
    /\ UNCHANGED <<subject, ledgerVars, usageVars, sweepVars, sample,
                   pastVars>>

-----------------------------------------------------------------------------
(* runRetention *)

Sweeping(s) == stage[s] \in Environments

(* The stages in their order: staging, production, other environments. *)
NextStage(s) ==
    /\ stage' = [stage EXCEPT ![s] = CASE @ = "staging" -> "production"
                                       [] @ = "production" -> "other"
                                       [] OTHER -> "done"]
    /\ step' = [step EXCEPT ![s] = IF stage[s] = "staging" THEN "select"
                                   ELSE "delete"]
    /\ list' = [list EXCEPT ![s] = {}]
    /\ todo' = [todo EXCEPT ![s] = {}]
    /\ chunk' = [chunk EXCEPT ![s] = {}]
    /\ stored' = [stored EXCEPT ![s] = {}]
    /\ removed' = [removed EXCEPT ![s] = 0]

GoTo(s, p) ==
    /\ step' = [step EXCEPT ![s] = p]
    /\ UNCHANGED stage

StartSweep(s) ==
    /\ stage[s] = "idle"
    /\ stage' = [stage EXCEPT ![s] = "staging"]
    /\ overlapped' = (overlapped \/ \E o \in Sweeps : Sweeping(o))
    /\ UNCHANGED <<step, list, todo, chunk, stored, removed, ledgerVars,
                   usageVars, callVars, sample, stranded>>

(* batchedPruneEvidence: DELETE ... LIMIT ... RETURNING of the events that *)
(* have expired by now, which are any of its environment.                  *)
DeleteBatch(s) ==
    /\ stage[s] \in {"staging", "other"} /\ step[s] = "delete"
    /\ \E b \in SUBSET {d \in EventIds : EnvOf[d] = stage[s]} :
        /\ Cardinality(b) <= BatchSize
        /\ events' = {e \in events : e.id \notin b}
        /\ IF b = {}
             THEN NextStage(s)
             ELSE /\ list' = [list EXCEPT ![s] = b]
                  /\ chunk' = [chunk EXCEPT ![s] = b]
                  /\ GoTo(s, "keys")
                  /\ UNCHANGED <<todo, stored, removed>>
    /\ UNCHANGED <<keys, head, usageVars, callVars, sample, pastVars>>

(* The expired production events; none ends the stage. *)
SelectExpired(s) ==
    /\ stage[s] = "production" /\ step[s] = "select"
    /\ \E b \in SUBSET {d \in EventIds : EnvOf[d] = "production"} :
        IF b = {}
          THEN NextStage(s)
          ELSE /\ list' = [list EXCEPT ![s] = b]
               /\ todo' = [todo EXCEPT ![s] = b]
               /\ GoTo(s, "archive")
               /\ UNCHANGED <<chunk, stored, removed>>
    /\ UNCHANGED <<ledgerVars, usageVars, callVars, sample, pastVars>>

(* POST /api/internal/archive-evidence: the route reads the events still   *)
(* there, logs those it fails to store, and answers 200 all the same.      *)
Archive(s) ==
    /\ stage[s] = "production" /\ step[s] = "archive"
    /\ \E kept \in SUBSET (list[s] \cap EventIds) :
        stored' = [stored EXCEPT ![s] = kept]
    /\ GoTo(s, "delete")
    /\ UNCHANGED <<list, todo, chunk, removed, ledgerVars, usageVars, callVars,
                   sample, pastVars>>

(* No answer, or not 200: continue with the next tenant. *)
ArchiveFails(s) ==
    /\ stage[s] = "production" /\ step[s] = "archive"
    /\ NextStage(s)
    /\ UNCHANGED <<ledgerVars, usageVars, callVars, sample, pastVars>>

(* Mutant: the chunk's keys go first, its events later. *)
DeleteChunkKeysFirst(s) ==
    /\ stage[s] = "production" /\ step[s] = "delete"
    /\ \E b \in SUBSET todo[s] :
        /\ Cardinality(b) = BatchSize
           \/ (b = todo[s] /\ Cardinality(b) < BatchSize)
        /\ keys' = keys \ b
        /\ chunk' = [chunk EXCEPT ![s] = b]
        /\ todo' = [todo EXCEPT ![s] = @ \ b]
    /\ GoTo(s, "keys")
    /\ UNCHANGED <<list, stored, removed, events, head, usageVars, callVars,
                   sample, pastVars>>

(* Events of the next chunk of the list, by decision id. *)
DeleteChunk(s) ==
    /\ stage[s] = "production" /\ step[s] = "delete"
    /\ \E b \in SUBSET todo[s] :
        /\ Cardinality(b) = BatchSize
           \/ (b = todo[s] /\ Cardinality(b) < BatchSize)
        /\ events' = {e \in events : e.id \notin b}
        /\ chunk' = [chunk EXCEPT ![s] = b]
        /\ todo' = [todo EXCEPT ![s] = @ \ b]
    /\ GoTo(s, "keys")
    /\ UNCHANGED <<list, stored, removed, keys, head, usageVars, callVars,
                   sample, pastVars>>

(* The delete fails: break, and the whole list is discounted. *)
DeleteChunkFails(s) ==
    /\ stage[s] = "production" /\ step[s] = "delete"
    /\ GoTo(s, "discount")
    /\ todo' = [todo EXCEPT ![s] = {}]
    /\ UNCHANGED <<list, chunk, stored, removed, ledgerVars, usageVars,
                   callVars, sample, pastVars>>

(* The loop after a chunk of the production list. *)
AfterKeys(s) ==
    IF stage[s] = "production" /\ todo[s] # {} THEN "delete" ELSE "discount"

(* Keys of the chunk; what became of its events does not matter. *)
DeleteKeys(s) ==
    /\ Sweeping(s) /\ step[s] = "keys"
    /\ keys' = keys \ chunk[s]
    /\ removed' = [removed EXCEPT ![s] = @ + Cardinality(chunk[s] \cap keys)]
    /\ GoTo(s, AfterKeys(s))
    /\ chunk' = [chunk EXCEPT ![s] = {}]
    /\ UNCHANGED <<list, todo, stored, events, head, usageVars, callVars,
                   sample, pastVars>>

(* The production loop logs a failed delete of keys and goes on. *)
DeleteKeysFails(s) ==
    /\ stage[s] = "production" /\ step[s] = "keys"
    /\ stranded' = stranded \cup (chunk[s] \cap keys)
    /\ GoTo(s, AfterKeys(s))
    /\ chunk' = [chunk EXCEPT ![s] = {}]
    /\ UNCHANGED <<list, todo, stored, removed, ledgerVars, usageVars,
                   callVars, sample, overlapped>>

(* discountPrunedEventsFromBilling: GREATEST(retained_count - n, 0) for    *)
(* the open month, NULL left alone.                                        *)
Discounted(n) ==
    IF gauge[period] = None THEN gauge
    ELSE [gauge EXCEPT ![period] = IF @ > n THEN @ - n ELSE 0]

(* What follows a discount: another batch, or the next stage. *)
EndRound(s) ==
    IF stage[s] # "production" /\ Cardinality(list[s]) = BatchSize
      THEN /\ GoTo(s, "delete")
           /\ list' = [list EXCEPT ![s] = {}]
           /\ removed' = [removed EXCEPT ![s] = 0]
           /\ UNCHANGED <<todo, chunk, stored>>
      ELSE NextStage(s)

(* The length of the list is discounted, whatever was deleted; a failure   *)
(* is logged.                                                              *)
Discount(s) ==
    /\ Sweeping(s) /\ step[s] = "discount"
    /\ gauge' \in {gauge, Discounted(Cardinality(list[s]))}
    /\ EndRound(s)
    /\ UNCHANGED <<ledgerVars, period, ingested, notified, notices, callVars,
                   sample, pastVars>>

(* A statement whose error ends the sweep fails, or the process dies. *)
SweepFails(s) ==
    /\ Sweeping(s)
    /\ stage' = [stage EXCEPT ![s] = "done"]
    /\ stranded' = IF step[s] = "keys" THEN stranded \cup (chunk[s] \cap keys)
                   ELSE stranded
    /\ step' = [step EXCEPT ![s] = "delete"]
    /\ list' = [list EXCEPT ![s] = {}]
    /\ todo' = [todo EXCEPT ![s] = {}]
    /\ chunk' = [chunk EXCEPT ![s] = {}]
    /\ stored' = [stored EXCEPT ![s] = {}]
    /\ removed' = [removed EXCEPT ![s] = 0]
    /\ UNCHANGED <<ledgerVars, usageVars, callVars, sample, overlapped>>

(* Mutant: the discount is what was asked for, not what was deleted. *)
WebPruneAsAsked(b) ==
    /\ b \cap EventIds # {}
    /\ events' = {e \in events : e.id \notin b}
    /\ keys' = keys \ b
    /\ gauge' = Discounted(Cardinality(b))
    /\ overlapped' = (overlapped \/ \E s \in Sweeps : Sweeping(s))
    /\ UNCHANGED <<head, period, ingested, notified, notices, callVars,
                   sweepVars, sample, stranded>>

(* deleteExpiredEvidenceEvents: events, keys and discount, in one          *)
(* transaction, by what the delete returned; b was read earlier.           *)
WebPrune(b) ==
    LET deleted == b \cap EventIds IN
    /\ deleted # {}
    /\ events' = {e \in events : e.id \notin b}
    /\ keys' = keys \ deleted
    /\ gauge' = Discounted(Cardinality(deleted))
    /\ overlapped' = (overlapped \/ \E s \in Sweeps : Sweeping(s))
    /\ UNCHANGED <<head, period, ingested, notified, notices, callVars,
                   sweepVars, sample, stranded>>

-----------------------------------------------------------------------------
(* runUsageReconciliation *)

(* The open month, if it has a row: ingest creates it. *)
Measure(a) ==
    /\ sample[a] = None
    /\ ingested[period] > 0
    /\ sample' = [sample EXCEPT ![a] = [month |-> period,
                                        retained |-> Cardinality(keys),
                                        told |-> notified[period]]]
    /\ UNCHANGED <<ledgerVars, usageVars, callVars, sweepVars, pastVars>>

(* Mutant: an audit seeds the gauge and never corrects it. *)
ApplySeedOnly(a) ==
    LET m == sample[a] IN
    /\ m # None
    /\ gauge' = IF gauge[m.month] = None
                  THEN [gauge EXCEPT ![m.month] = m.retained] ELSE gauge
    /\ UNCHANGED <<notified, notices, period, ingested>>
    /\ sample' = [sample EXCEPT ![a] = None]
    /\ UNCHANGED <<ledgerVars, callVars, sweepVars, pastVars>>

(* Mutant: cap_notified_at is not set. *)
ApplyUnstamped(a) ==
    LET m == sample[a] IN
    /\ m # None
    /\ gauge' = [gauge EXCEPT ![m.month] = m.retained]
    /\ notices' = IF m.retained > Capacity /\ ~m.told
                    THEN [notices EXCEPT ![m.month] = @ + 1] ELSE notices
    /\ UNCHANGED <<notified, period, ingested>>
    /\ sample' = [sample EXCEPT ![a] = None]
    /\ UNCHANGED <<ledgerVars, callVars, sweepVars, pastVars>>

(* One transaction over the row of the month measured, open or not; it     *)
(* tells the tenant the first time the month is over capacity.             *)
Apply(a) ==
    LET m == sample[a] IN
    /\ m # None
    /\ gauge' = [gauge EXCEPT ![m.month] = m.retained]
    /\ IF m.retained > Capacity /\ ~m.told
         THEN /\ notices' = [notices EXCEPT ![m.month] = @ + 1]
              /\ notified' = [notified EXCEPT ![m.month] = TRUE]
         ELSE UNCHANGED <<notices, notified>>
    /\ UNCHANGED <<period, ingested>>
    /\ sample' = [sample EXCEPT ![a] = None]
    /\ UNCHANGED <<ledgerVars, callVars, sweepVars, pastVars>>

ApplyFails(a) ==
    /\ sample[a] # None
    /\ sample' = [sample EXCEPT ![a] = None]
    /\ UNCHANGED <<ledgerVars, usageVars, callVars, sweepVars, pastVars>>

(* The month ends. *)
NewPeriod ==
    /\ period < MaxPeriod
    /\ period' = period + 1
    /\ UNCHANGED <<ledgerVars, ingested, gauge, notified, notices, callVars,
                   sweepVars, sample, pastVars>>

CallStep(c) ==
    \/ \E d \in Ids : ClaimKey(c, d)
    \/ LockHead(c) \/ Store(c) \/ StoreNothing(c) \/ IngestFails(c)

SweepStep(s) ==
    \/ StartSweep(s) \/ DeleteBatch(s) \/ SelectExpired(s)
    \/ Archive(s) \/ ArchiveFails(s)
    \/ DeleteChunk(s) \/ DeleteChunkFails(s)
    \/ DeleteKeys(s) \/ DeleteKeysFails(s)
    \/ Discount(s) \/ SweepFails(s)

AuditStep(a) == Measure(a) \/ Apply(a) \/ ApplyFails(a)

Next ==
    \/ \E c \in Calls : CallStep(c)
    \/ \E s \in Sweeps : SweepStep(s)
    \/ \E b \in SUBSET Ids : WebPrune(b)
    \/ \E a \in Audits : AuditStep(a)
    \/ NewPeriod

Spec == Init /\ [][Next]_vars

(* Audits keep coming (jobs.go) and do not fail for ever. *)
AuditFairness ==
    \A a \in Audits : WF_vars(Measure(a)) /\ SF_vars(Apply(a))

FairSpec == Spec /\ AuditFairness

-----------------------------------------------------------------------------
(* Properties *)

(* The events' hashes form one chain with the head at its end: every event *)
(* was appended to the one before it, none twice to the same one, although *)
(* calls of three kinds append at once and any of them may roll back.      *)
ChainIsLinear ==
    \A e \in events : IsPrefix(Append(e.prev, e.id), head)

(* The row lock of the head: the transaction that has it is alone, and the *)
(* hash it read is still the head's.                                       *)
HeadIsLocked ==
    \A c \in Calls : phase[c] = "locked" =>
        /\ prevHash[c] = head
        /\ \A o \in Calls : phase[o] = "locked" => o = c

(* The chain with what it rests on. *)
ChainInv == TypeOK /\ HeadIsLocked /\ ChainIsLinear

(* A call that was told its evidence is stored, or was already, is right:  *)
(* the event was committed, whatever became of the call that claimed its   *)
(* key first.                                                              *)
AcknowledgedIsChained ==
    \A c \in Calls :
        answer[c] \in {"STORED", "DUPLICATE"} =>
            \E n \in DOMAIN head : head[n] = subject[c]

(* Billing counts every event committed exactly once, over all months:     *)
(* replays, lost answers, roll backs and no-op inserts change nothing.     *)
CountedExactlyOnce ==
    SumFunction(ingested) = Len(head)

(* All of it together is a ledger: a log that grows one entry at a time,   *)
(* each over the one before and billed with it, entries that are kept      *)
(* unaltered until they are deleted, and no caller told of one that was    *)
(* never made, although three kinds of ingest, two kinds of pruning and    *)
(* the audit interleave and any of their statements may fail.              *)
Told == {subject[c] : c \in {o \in Calls : answer[o] \in {"STORED", "DUPLICATE"}}}

AbstractLedger == INSTANCE Ledger
    WITH log <- head, kept <- events, bill <- SumFunction(ingested), told <- Told
ImplementsLedger == AbstractLedger!LedgerSpec

(* Key and event go together, in spite of a sweep that deletes them in two *)
(* statements: a key without its event is on its way out of a running      *)
(* sweep or was left by a failed one, and as long as only one deleter is   *)
(* at work no event is without its key.                                    *)
KeysFollowEvents ==
    /\ \A d \in keys \ EventIds :
          \/ d \in stranded
          \/ \E s \in Sweeps : step[s] = "keys" /\ d \in chunk[s]
    /\ ~overlapped => EventIds \subseteq keys

(* What a seeded gauge is off by: it should show the retained keys and     *)
(* those a sweep has deleted and not discounted yet.                       *)
Drift ==
    IF gauge[period] = None THEN 0
    ELSE gauge[period] - Cardinality(keys) - SumFunction(removed)

(* Between audits the gauge follows the keys step by step, ingest and both *)
(* ways of pruning interleaved as they may be: it drifts only by an audit  *)
(* that wrote an older count, at a month's end, by a sweep that died,      *)
(* failed to discount, or discounts a list it did not delete, by the floor *)
(* at zero once it was too low, or where an event has lost its key.        *)
GaugeFollowsKeys ==
    [][ Drift' # Drift =>
          \/ sample' # sample
          \/ period' # period
          \/ \E c \in Calls : phase[c] = "locked" /\ begun[c] # period
          \/ \E s \in Sweeps :
                /\ step'[s] # step[s] \/ stage'[s] # stage[s]
                /\ \/ stage'[s] = "done" /\ step[s] # "discount"
                   \/ step[s] = "discount" /\ removed[s] # Cardinality(list[s])
                   \/ step[s] = "discount" /\ gauge' = gauge
          \/ Drift < 0
          \/ ~(EventIds \subseteq keys) ]_vars

(* A month over its capacity is told so once, although an audit's commit   *)
(* may be followed by any number of audits that find it over capacity.     *)
ToldOncePerMonth == \A m \in Periods : notices[m] <= 1

(* When ingest and pruning come to rest, the audit makes the gauge right   *)
(* for good, whatever it drifted by: unless the month has no row, because  *)
(* nothing was ingested in it.                                             *)
AtRest ==
    /\ \A c \in Calls : phase[c] \notin InFlight
    /\ \A s \in Sweeps : ~Sweeping(s)

GaugeHeals ==
    <>[]AtRest =>
        <>[](ingested[period] = 0 \/ gauge[period] = Cardinality(keys))

(* jobs_retention.go says that production evidence must be archived to the *)
(* control plane before deletion.  It does not hold: the archive route     *)
(* answers 200 when single records fail to store, and the sweep deletes    *)
(* its whole list.                                                         *)
DeletedWasArchived ==
    [][\A s \in Sweeps :
          stage[s] = "production" /\ step[s] = "delete" /\ step'[s] = "keys" =>
            chunk'[s] \cap EventIds \subseteq stored[s]]_vars

(* jobs_usage_reconcile.go says that a closed period's measurement must    *)
(* not move afterwards.  It does not hold: an audit writes the month it    *)
(* measured even when that month has ended in between.                     *)
ClosedMonthStands ==
    [][\A m \in Periods : m < period => gauge'[m] = gauge[m]]_vars
=============================================================================
