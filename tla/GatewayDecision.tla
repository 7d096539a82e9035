-------------------------- MODULE GatewayDecision --------------------------
(***************************************************************************)
(* One decision id on its way through the gateway: decided by the worker   *)
(* (worker/gateway.go, gateway_persist.go, gateway_credentials.go) or by   *)
(* the web fallback (api/gateway/decide), escalated to reviewers, polled   *)
(* by the agent (web domains/gateway/service.ts), and given a credential.  *)
(*                                                                         *)
(* The tables are gateway_decision (one row per artifact hash, so hashes   *)
(* stand for rows), gateway_escalation_queue (one row per decision id) and *)
(* gateway_credential_grant (one per decision row).  The worker persists   *)
(* in one transaction; the web client commits every statement by itself.   *)
(* Any statement may fail, and one that fails may have taken effect.       *)
(* Crashes need no action: a call may stop between any two steps.          *)
(***************************************************************************)
CONSTANTS
    Hashes,         \* artifact hashes the decision id is evaluated under
    WorkerCalls,    \* POST /api/gateway/decide served by the worker
    WebCalls,       \* the same, served by the web fallback
    Polls,          \* GET /api/gateway/escalations/status
    WorkerReviews,  \* resolutions delegated to the worker
    WebReviews,     \* resolutions by the web fallback
    BrokerExists,   \* a credential broker is configured for the action
    None

Calls   == WorkerCalls \cup WebCalls
Callers == Calls \cup Polls
Reviews == WorkerReviews \cup WebReviews
Actors  == Callers \cup Reviews

ASSUME BrokerAssumption == BrokerExists \in BOOLEAN
ASSUME ActorAssumption ==
    /\ None \notin Hashes \cup Actors
    /\ WorkerCalls \cap WebCalls = {}
    /\ Calls \cap Polls = {}
    /\ WorkerReviews \cap WebReviews = {}
    /\ Callers \cap Reviews = {}

Outcomes == {"PROCEED", "ESCALATE", "ABORT"}
Open     == {"PENDING", "IN_REVIEW"}
Phases   == {"new", "checked", "inserted", "persisted", "approved",
             "brokerFailed", "decAborted", "viewing", "resolved", "done"}
Answers  == {"none", "ERROR", "WAIT", "OK", "GONE"} \cup Outcomes

VARIABLES
    dec,      \* gateway_decision.outcome per hash, "none" without a row
    first,    \* the outcome first persisted per hash (history)
    qStatus,  \* gateway_escalation_queue.status, "none" without a row
    qRow,     \* gateway_decision_id of the queue row, as its hash
    qOutcome, \* resolution_outcome
    qNote,    \* who wrote resolution_note: a review or the broker's failure
    grant,    \* the caller whose grant row exists, per hash
    phase,    \* where an actor is in its handler
    verdict,  \* the outcome a call evaluated, a review decided
    row,      \* the decision row an actor works on
    saw,      \* the decision row a review was shown
    answer,   \* the outcome an actor was answered
    cred      \* the answer carried a credential

queueVars == <<qStatus, qRow, qOutcome, qNote>>
vars == <<dec, first, qStatus, qRow, qOutcome, qNote, grant, phase, verdict,
          row, saw, answer, cred>>

TypeOK ==
    /\ dec \in [Hashes -> {"none"} \cup Outcomes]
    /\ first \in [Hashes -> {"none"} \cup Outcomes]
    /\ qStatus \in {"none", "RESOLVED"} \cup Open
    /\ qRow \in Hashes \cup {None}
    /\ qOutcome \in {"none"} \cup Outcomes
    /\ qNote \in {"none", "review", "broker"}
    /\ grant \in [Hashes -> Callers \cup {None}]
    /\ phase \in [Actors -> Phases]
    /\ verdict \in [Actors -> {"none"} \cup Outcomes]
    /\ row \in [Actors -> Hashes \cup {None}]
    /\ saw \in [Actors -> Hashes \cup {None}]
    /\ answer \in [Actors -> Answers]
    /\ cred \in [Actors -> BOOLEAN]

Init ==
    /\ dec = [h \in Hashes |-> "none"]
    /\ first = [h \in Hashes |-> "none"]
    /\ qStatus = "none"
    /\ qRow = None
    /\ qOutcome = "none"
    /\ qNote = "none"
    /\ grant = [h \in Hashes |-> None]
    /\ phase = [a \in Actors |-> "new"]
    /\ verdict = [a \in Actors |-> "none"]
    /\ row = [a \in Actors |-> None]
    /\ saw = [a \in Actors |-> None]
    /\ answer = [a \in Actors |-> "none"]
    /\ cred = [a \in Actors |-> FALSE]

-----------------------------------------------------------------------------
(* Helpers *)

GoTo(a, p) == phase' = [phase EXCEPT ![a] = p]

Answer(a, o, c) ==
    /\ GoTo(a, "done")
    /\ answer' = [answer EXCEPT ![a] = o]
    /\ cred' = [cred EXCEPT ![a] = c]

NoAnswer == UNCHANGED <<answer, cred>>

Issued == \E h \in Hashes : grant[h] # None

-----------------------------------------------------------------------------
(* handleGatewayDecide and its web twin *)

(* Evaluation, then the replay check: no credential was granted yet to any *)
(* row of this decision id.  The web check reads an error as no.           *)
PassReplayCheck(c) ==
    /\ phase[c] = "new"
    /\ ~Issued \/ c \in WebCalls
    /\ \E h \in Hashes, o \in Outcomes :
           /\ row' = [row EXCEPT ![c] = h]
           /\ verdict' = [verdict EXCEPT ![c] = o]
    /\ GoTo(c, "checked")
    /\ UNCHANGED <<dec, first, queueVars, grant, saw>> /\ NoAnswer

(* blockReplayedDecision: the answer is ABORT, or an error. *)
BlockReplay(c, o) ==
    /\ phase[c] = "new"
    /\ \/ o = "ABORT" /\ Issued
       \/ o = "ERROR" /\ c \in WorkerCalls
    /\ Answer(c, o, FALSE)
    /\ UNCHANGED <<dec, first, queueVars, grant, verdict, row, saw>>

(* INSERT ... ON CONFLICT DO NOTHING: the first evaluation wins. *)
InsertDecision(c) ==
    LET h == row[c] IN
        /\ dec' = [dec EXCEPT ![h] = IF @ = "none" THEN verdict[c] ELSE @]
        /\ first' = [first EXCEPT ![h] = IF @ = "none" THEN verdict[c] ELSE @]

(* Mutant: the upsert without its WHERE reopens a terminal escalation. *)
UpsertReopening(c) ==
    IF verdict[c] = "ESCALATE"
      THEN /\ qStatus' = "PENDING"
           /\ qRow' = row[c]
           /\ UNCHANGED <<qOutcome, qNote>>
      ELSE UNCHANGED queueVars

(* The queue upsert: an open escalation is refreshed and now stands for    *)
(* this row, a terminal one is left alone.                                 *)
UpsertEscalation(c) ==
    IF verdict[c] = "ESCALATE" /\ qStatus # "RESOLVED"
      THEN /\ qStatus' = "PENDING"
           /\ qRow' = row[c]
           /\ UNCHANGED <<qOutcome, qNote>>
      ELSE UNCHANGED queueVars

(* persistGatewayDecision of the worker: one transaction. *)
PersistInWorker(c) ==
    /\ c \in WorkerCalls
    /\ phase[c] = "checked"
    /\ InsertDecision(c)
    /\ UpsertEscalation(c)
    /\ \/ GoTo(c, "persisted") /\ NoAnswer
       \/ Answer(c, "ERROR", FALSE)
    /\ UNCHANGED <<grant, verdict, row, saw>>

(* persistGatewayDecision of the web: the decision, then the queue. *)
InsertInWeb(c) ==
    /\ c \in WebCalls
    /\ phase[c] = "checked"
    /\ InsertDecision(c)
    /\ \/ GoTo(c, "inserted") /\ NoAnswer
       \/ Answer(c, "ERROR", FALSE)
    /\ UNCHANGED <<queueVars, grant, verdict, row, saw>>

(* Mutant: the answer no longer waits for the queue statement. *)
QueueInWebSkipped(c) ==
    /\ phase[c] = "inserted"
    /\ GoTo(c, "persisted") /\ NoAnswer
    /\ UNCHANGED <<dec, first, queueVars, grant, verdict, row, saw>>

(* The queue statement of the web, committed by itself. *)
QueueInWeb(c) ==
    /\ phase[c] = "inserted"
    /\ UpsertEscalation(c)
    /\ \/ GoTo(c, "persisted") /\ NoAnswer
       \/ Answer(c, "ERROR", FALSE)
    /\ UNCHANGED <<dec, first, grant, verdict, row, saw>>

PersistFails(c) ==
    /\ phase[c] \in {"checked", "inserted"}
    /\ Answer(c, "ERROR", FALSE)
    /\ UNCHANGED <<dec, first, queueVars, grant, verdict, row, saw>>

(* No PROCEED, no credential: the answer is the evaluated outcome. *)
AnswerVerdict(c) ==
    /\ phase[c] = "persisted"
    /\ verdict[c] # "PROCEED"
    /\ Answer(c, verdict[c], FALSE)
    /\ UNCHANGED <<dec, first, queueVars, grant, verdict, row, saw>>

-----------------------------------------------------------------------------
(* Brokering, for a call that evaluated PROCEED and for a poll that found  *)
(* an approved escalation.                                                 *)

Brokering(a) ==
    \/ phase[a] = "persisted" /\ verdict[a] = "PROCEED"
    \/ phase[a] = "approved"

(* Mutant: the worker reads a failed lookup as no broker, as the web does. *)
NoBrokerAnywhere(a) ==
    /\ Brokering(a)
    /\ Answer(a, "PROCEED", FALSE)
    /\ UNCHANGED <<dec, first, queueVars, grant, verdict, row, saw>>

(* Mutant: ON CONFLICT DO UPDATE, so a second insert takes the grant over. *)
GrantAgain(a) ==
    /\ Brokering(a)
    /\ BrokerExists
    /\ grant' = [grant EXCEPT ![row[a]] = a]
    /\ Answer(a, "PROCEED", TRUE)
    /\ UNCHANGED <<dec, first, queueVars, verdict, row, saw>>

(* No broker is configured, or the web lookup failed and was read as that. *)
NoBroker(a) ==
    /\ Brokering(a)
    /\ ~BrokerExists \/ a \notin WorkerCalls
    /\ Answer(a, "PROCEED", FALSE)
    /\ UNCHANGED <<dec, first, queueVars, grant, verdict, row, saw>>

(* The grant row is inserted and its credential handed out. *)
Grant(a) ==
    /\ Brokering(a)
    /\ BrokerExists
    /\ grant[row[a]] = None
    /\ grant' = [grant EXCEPT ![row[a]] = a]
    /\ Answer(a, "PROCEED", TRUE)
    /\ UNCHANGED <<dec, first, queueVars, verdict, row, saw>>

(* Mutant: a conflict still hands out the generated credential. *)
GrantConflictIgnored(a) ==
    /\ Brokering(a)
    /\ BrokerExists
    /\ grant[row[a]] # None
    /\ Answer(a, "PROCEED", TRUE)
    /\ UNCHANGED <<dec, first, queueVars, grant, verdict, row, saw>>

(* ON CONFLICT DO NOTHING returned no row, or the poll's check saw one. *)
GrantConflict(a) ==
    /\ Brokering(a)
    /\ BrokerExists
    /\ grant[row[a]] # None
    /\ Answer(a, "ABORT", FALSE)
    /\ UNCHANGED <<dec, first, queueVars, grant, verdict, row, saw>>

(* The lookup (worker), the credential or the insert failed; the insert    *)
(* may have committed before its answer was lost.                          *)
BrokerFails(a) ==
    /\ Brokering(a)
    /\ BrokerExists \/ a \in WorkerCalls
    /\ \/ UNCHANGED grant
       \/ /\ BrokerExists
          /\ grant[row[a]] = None
          /\ grant' = [grant EXCEPT ![row[a]] = a]
    /\ GoTo(a, "brokerFailed")
    /\ UNCHANGED <<dec, first, queueVars, verdict, row, saw>> /\ NoAnswer

(* A failed call rewrites the decision row, a failed poll the decision row *)
(* and then the queue row, in two statements.                              *)
RecordAbort(a) ==
    /\ phase[a] = "brokerFailed"
    /\ dec' = [dec EXCEPT ![row[a]] = "ABORT"]
    /\ IF a \in Polls THEN GoTo(a, "decAborted") /\ NoAnswer
                      ELSE Answer(a, "ABORT", FALSE)
    /\ UNCHANGED <<first, queueVars, grant, verdict, row, saw>>

AbortEscalation(p) ==
    /\ phase[p] = "decAborted"
    /\ IF qRow = row[p]
         THEN qStatus' = "RESOLVED" /\ qOutcome' = "ABORT" /\ qNote' = "broker"
         ELSE UNCHANGED <<qStatus, qOutcome, qNote>>
    /\ Answer(p, "ABORT", FALSE)
    /\ UNCHANGED <<dec, first, qRow, grant, verdict, row, saw>>

RecordAbortFails(a) ==
    /\ phase[a] \in {"brokerFailed", "decAborted"}
    /\ Answer(a, "ERROR", FALSE)
    /\ UNCHANGED <<dec, first, queueVars, grant, verdict, row, saw>>

-----------------------------------------------------------------------------
(* getGatewayEscalationStatus: reads the queue row and its decision. *)

Poll(p) ==
    /\ phase[p] = "new"
    /\ qStatus # "none"
    /\ row' = [row EXCEPT ![p] = qRow]
    /\ IF qStatus = "RESOLVED"
         THEN IF qOutcome = "PROCEED"
                THEN GoTo(p, "approved") /\ NoAnswer
                ELSE Answer(p, qOutcome, FALSE)
         ELSE Answer(p, "WAIT", FALSE)
    /\ UNCHANGED <<dec, first, queueVars, grant, verdict, saw>>

-----------------------------------------------------------------------------
(* Reviewers *)

(* The inbox lists open escalations with the decision they stand for. *)
View(v) ==
    /\ phase[v] = "new"
    /\ qStatus \in Open
    /\ saw' = [saw EXCEPT ![v] = qRow]
    /\ GoTo(v, "viewing")
    /\ UNCHANGED <<dec, first, queueVars, grant, verdict, row>> /\ NoAnswer

(* claimGatewayEscalation, assignEscalationQueueItem *)
Claim(v) ==
    /\ phase[v] = "viewing"
    /\ qStatus = "PENDING"
    /\ qStatus' = "IN_REVIEW"
    /\ UNCHANGED <<dec, first, qRow, qOutcome, qNote, grant, phase, verdict,
                   row, saw>> /\ NoAnswer

(* UPDATE ... WHERE status IN ('PENDING', 'IN_REVIEW'). *)
CloseEscalation(v, o) ==
    /\ qStatus \in Open
    /\ qStatus' = "RESOLVED"
    /\ qOutcome' = o
    /\ qNote' = "review"
    /\ row' = [row EXCEPT ![v] = qRow]
    /\ verdict' = [verdict EXCEPT ![v] = o]
    /\ UNCHANGED qRow

(* resolveGatewayEscalation of the worker: one transaction, which leaves   *)
(* the outcome of the decision row alone.                                  *)
ResolveInWorker(v, o) ==
    /\ v \in WorkerReviews
    /\ phase[v] = "viewing"
    /\ CloseEscalation(v, o)
    /\ \/ Answer(v, "OK", FALSE)
       \/ Answer(v, "ERROR", FALSE)
    /\ UNCHANGED <<dec, first, grant, saw>>

(* resolveEscalationQueueItem of the web: the queue row, then the outcome  *)
(* of whatever decision row it stands for by now.                          *)
ResolveInWeb(v, o) ==
    /\ v \in WebReviews
    /\ phase[v] = "viewing"
    /\ CloseEscalation(v, o)
    /\ GoTo(v, "resolved") /\ NoAnswer
    /\ UNCHANGED <<dec, first, grant, saw>>

RewriteDecision(v) ==
    /\ phase[v] = "resolved"
    /\ dec' = [dec EXCEPT ![qRow] = verdict[v]]
    /\ \/ Answer(v, "OK", FALSE)
       \/ Answer(v, "GONE", FALSE)
    /\ UNCHANGED <<first, queueVars, grant, verdict, row, saw>>

(* The second web statement failed: reported as not found. *)
RewriteFails(v) ==
    /\ phase[v] = "resolved"
    /\ Answer(v, "GONE", FALSE)
    /\ UNCHANGED <<dec, first, queueVars, grant, verdict, row, saw>>

(* Mutant: the acknowledgement compares the outcome and not the note. *)
ResolveAgainByOutcome(v, o) ==
    /\ phase[v] = "viewing"
    /\ qStatus = "RESOLVED"
    /\ verdict' = [verdict EXCEPT ![v] = o]
    /\ \/ Answer(v, "GONE", FALSE)
       \/ qOutcome = o /\ Answer(v, "OK", FALSE)
    /\ UNCHANGED <<dec, first, queueVars, grant, row, saw>>

(* Already resolved: the same resolution is acknowledged, any other is     *)
(* refused, and so is one whose first read still saw the escalation open.  *)
ResolveAgain(v, o) ==
    /\ phase[v] = "viewing"
    /\ qStatus = "RESOLVED"
    /\ verdict' = [verdict EXCEPT ![v] = o]
    /\ \/ Answer(v, "GONE", FALSE)
       \/ qOutcome = o /\ qNote = "review" /\ Answer(v, "OK", FALSE)
    /\ UNCHANGED <<dec, first, queueVars, grant, row, saw>>

-----------------------------------------------------------------------------
CallStep(c) ==
    \/ PassReplayCheck(c)
    \/ \E o \in {"ABORT", "ERROR"} : BlockReplay(c, o)
    \/ PersistInWorker(c)
    \/ InsertInWeb(c)
    \/ QueueInWeb(c)
    \/ PersistFails(c)
    \/ AnswerVerdict(c)

BrokerStep(a) ==
    \/ NoBroker(a)
    \/ Grant(a)
    \/ GrantConflict(a)
    \/ BrokerFails(a)
    \/ RecordAbort(a)
    \/ RecordAbortFails(a)

ReviewStep(v) ==
    \/ View(v)
    \/ Claim(v)
    \/ \E o \in Outcomes :
           \/ ResolveInWorker(v, o)
           \/ ResolveInWeb(v, o)
           \/ ResolveAgain(v, o)
    \/ RewriteDecision(v)
    \/ RewriteFails(v)

Next ==
    \/ \E c \in Calls : CallStep(c)
    \/ \E a \in Callers : BrokerStep(a)
    \/ \E p \in Polls : Poll(p) \/ AbortEscalation(p)
    \/ \E v \in Reviews : ReviewStep(v)

Spec == Init /\ [][Next]_vars

-----------------------------------------------------------------------------
(* Properties *)

Approvals(h) ==
    {v \in Reviews : /\ phase[v] \in {"resolved", "done"}
                     /\ verdict[v] = "PROCEED" /\ row[v] = h}

PollPhases == {"new", "approved", "brokerFailed", "decAborted", "done"}

(* An actor past its first read works on a row, and so does a queue row. *)
RowsKnown ==
    /\ qStatus # "none" => qRow \in Hashes
    /\ \A a \in Callers :
           cred[a] \/ phase[a] \notin {"new", "done"} => row[a] \in Hashes

(* Whoever was handed a credential owns the grant of its row for good. *)
HolderOwnsGrant ==
    \A a \in Callers : cred[a] => grant[row[a]] = a /\ phase[a] = "done"

(* An escalation resolved to PROCEED, a poll that read it so and a poll    *)
(* handed a credential all go back to a reviewer's resolution of that row. *)
ApprovedByReview ==
    /\ qStatus = "RESOLVED" /\ qOutcome = "PROCEED" => Approvals(qRow) # {}
    /\ \A p \in Polls :
           /\ phase[p] \in PollPhases
           /\ phase[p] = "approved" \/ cred[p] => Approvals(row[p]) # {}

(* Inductive: the three facts above, which credentials rest on. *)
CredentialInv ==
    /\ TypeOK
    /\ RowsKnown
    /\ HolderOwnsGrant
    /\ ApprovedByReview

(* The credential of one decision row reaches at most one caller, however  *)
(* calls, retries and polls race (gateway_credential_grant's unique key).  *)
OneCredentialPerRow ==
    \A a, b \in Callers : a # b /\ cred[a] /\ cred[b] => row[a] # row[b]

(* A poll is handed a credential only for a row a reviewer resolved to     *)
(* PROCEED: no refresh of the queue and no failed brokering turns another  *)
(* state of the escalation into an approval.                               *)
PollNeedsApproval ==
    \A p \in Polls : cred[p] => Approvals(row[p]) # {}

(* A terminal escalation never reopens and never changes the row it stands *)
(* for; its outcome changes only from PROCEED to ABORT, by a poll whose    *)
(* brokering failed (terminal immutability, gateway_persist.go).           *)
TerminalStands ==
    [][qStatus = "RESOLVED" =>
           /\ qStatus' = "RESOLVED"
           /\ qRow' = qRow
           /\ qOutcome' # qOutcome => /\ qOutcome' = "ABORT"
                                      /\ \E p \in Polls : phase[p] = "decAborted"
      ]_vars

(* The worker fails closed: where a broker is configured, no call is told  *)
(* PROCEED without a credential, whoever wins the grant and whatever fails *)
(* on the way.                                                             *)
WorkerFailsClosed ==
    \A c \in WorkerCalls :
        BrokerExists /\ answer[c] = "PROCEED" => cred[c]

(* Whoever is told ESCALATE has an escalation to poll: the queue row is    *)
(* there before the answer, in the web's separate statements too.          *)
EscalationIsQueued ==
    \A c \in Calls : answer[c] = "ESCALATE" => qStatus # "none"

(* Two reviewers are never both told that opposite resolutions were taken, *)
(* even when a failed brokering has rewritten the resolution in between.   *)
OneResolution ==
    \A v, w \in Reviews : answer[v] = "OK" /\ answer[w] = "OK" =>
        verdict[v] = verdict[w]

(* "A retry or replay ... returns the original row exactly", so "the       *)
(* caller keeps operating on the decision of record"                       *)
(* (gateway_persist.go): a call gets a credential only for a row whose     *)
(* first outcome was PROCEED.                                              *)
CredentialFollowsRecord ==
    \A c \in Calls : cred[c] => first[row[c]] = "PROCEED"

(* "Released only after a human has resolved this exact escalation to      *)
(* PROCEED" (web domains/gateway/service.ts): the row a review resolved is *)
(* the one the reviewer was shown.                                         *)
ResolvedWhatWasShown ==
    \A v \in Reviews : row[v] # None => row[v] = saw[v]
=============================================================================
