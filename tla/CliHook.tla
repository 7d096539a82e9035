------------------------------ MODULE CliHook ------------------------------
(***************************************************************************)
(* The PreToolUse hook of the CLI (packages/cli/src/pretooluse.ts): each   *)
(* tool call starts a short-lived process that evaluates the policy,       *)
(* may ask the gateway, posts evidence, and lets the tool run or blocks    *)
(* it.  Evidence that cannot be posted waits in an SQLite outbox that all  *)
(* processes share (buffer.ts), into which the files of an older buffer    *)
(* are moved.                                                              *)
(*                                                                         *)
(* A process runs one JavaScript thread: while it works on the outbox,     *)
(* file by file, its other steps wait and those of other processes do not. *)
(* Heartbeats, hooks without a bundle and ungoverned tools are left out:   *)
(* they post like evidence and never block.                                *)
(***************************************************************************)
EXTENDS Naturals

CONSTANTS
  Hooks,    \* processes, one per tool call
  Files,    \* files of the older buffer
  Plans,    \* bound: the circumstances a hook may start in
  MaxId,    \* bound: rows the outbox holds
  None


VARIABLES
  outbox,    \* rows by id
  legacy,    \* files still in telemetry-buffer/
  migrated,  \* legacy_buffer_migration
  stored,    \* what the control plane has stored: one record per decision
  rejected,  \* what it answered with a 4xx
  plan,      \* what each process found when it started
  pc,        \* where its decision stands
  cleared,   \* did the gateway clear the call, by a credential or a reviewer
  sent,      \* posts without an answer yet
  failed,    \* posts that failed and are still to be pushed
  job,       \* work on the outbox: the files left to move, the one whose
             \* contents it holds, and the record to push
  row,       \* where its flush stands, and the row it is delivering
  moved,     \* history: how often each file was moved
  unread,    \* history: files that were removed because they could not be read
  begun,     \* history: records whose post began
  lost       \* history: records lost with their process or a full disk,
             \* or with a row of theirs that another process removed

telemetry == <<sent, failed, job, row>>
disk == <<outbox, legacy, migrated, moved, unread>>
plane == <<stored, rejected>>
vars == <<disk, plane, plan, pc, cleared, telemetry, begun, lost>>

Ids == 1..MaxId
Statuses == {"ALLOW", "DENY"}
Plan == [local: Statuses, mode: {"observe", "enforce"},
         gateway: {None, "fail-open", "fail-closed"}, jit: BOOLEAN]
Record == [decision: Hooks \cup Files, version: {"PLAIN", "DEGRADED"}, status: Statuses]
Rec(d, version, status) == [decision |-> d, version |-> version, status |-> status]
Job == [left: SUBSET Files, held: Files \cup {None}, push: Record \cup {None}]
Row == [pc: {"NO", "READ", "SENT"}, id: 0..MaxId, record: Record \cup {None}]


ASSUME HookAssumption ==
  /\ MaxId \in Nat /\ Plans \subseteq Plan
  /\ Hooks \cap Files = {} /\ None \notin Record \cup Files

NoRow == [pc |-> "NO", id |-> 0, record |-> None]
NoPlan == [local |-> "ALLOW", mode |-> "observe", gateway |-> None, jit |-> FALSE]

Init ==
  /\ outbox = [i \in Ids |-> None]
  /\ legacy = Files /\ migrated = {} /\ moved = [f \in Files |-> 0] /\ unread = {}
  /\ stored = {} /\ rejected = {}
  /\ plan = [h \in Hooks |-> NoPlan]
  /\ pc = [h \in Hooks |-> "IDLE"]
  /\ cleared = [h \in Hooks |-> FALSE]
  /\ sent = [h \in Hooks |-> {}]
  /\ failed = [h \in Hooks |-> {}]
  /\ job = [h \in Hooks |-> None]
  /\ row = [h \in Hooks |-> NoRow]
  /\ begun = {} /\ lost = {}

-----------------------------------------------------------------------------
(* Decisions. *)

\* A process that died before it answered its harness, by a kill at the
\* timeout for instance, is KILLED: Kimi then runs the tool.  One that died
\* after it had let the tool run is DEAD.
Unanswered == {"DECIDE", "OUTAGE", "REVIEW", "BLOCKING"}
Alive(h) == pc[h] \notin {"IDLE", "EXITED_RUN", "EXITED_BLOCK", "DEAD", "KILLED"}
Free(h) == Alive(h) /\ job[h] = None /\ row[h].pc # "READ"
Goto(h, to) == pc' = [pc EXCEPT ![h] = to]

\* shouldBlockDecision; WARN and ESCALATE do not block here.
LocalStep(p) == IF p.mode = "enforce" /\ p.local = "DENY" THEN "BLOCKING" ELSE "ALLOWING"
FailClosed(p) == p.gateway = "fail-closed" \/ p.jit

Post(h, r) ==
  /\ sent' = [sent EXCEPT ![h] = @ \cup {r}]
  /\ begun' = begun \cup {r}

\* process.exit ends the posts that have no answer yet.
Exit(h, to) ==
  /\ Goto(h, to)
  /\ lost' = lost \cup sent[h] \cup failed[h]
  /\ sent' = [sent EXCEPT ![h] = {}]
  /\ failed' = [failed EXCEPT ![h] = {}]

Begin(h, p) ==
  /\ pc[h] = "IDLE"
  /\ plan' = [plan EXCEPT ![h] = p]
  /\ Post(h, Rec(h, "PLAIN", p.local))
  /\ Goto(h, IF p.gateway = None THEN LocalStep(p) ELSE "DECIDE")
  /\ UNCHANGED <<disk, plane, cleared, failed, job, row, lost>>

\* requestGatewayDecision got no usable answer within three seconds.
GatewayOut(h) ==
  /\ Free(h) /\ pc[h] = "DECIDE"
  /\ Post(h, Rec(h, "DEGRADED", IF FailClosed(plan[h]) THEN "DENY" ELSE plan[h].local))
  /\ Goto(h, "OUTAGE")
  /\ UNCHANGED <<disk, plane, plan, cleared, failed, job, row, lost>>

\* Mutant: a tool that needs a credential follows the outage policy.
OutagePolicyOnly(h) ==
  /\ Free(h) /\ pc[h] = "OUTAGE"
  /\ IF plan[h].gateway = "fail-closed"
     THEN Exit(h, "EXITED_BLOCK")
     ELSE Goto(h, LocalStep(plan[h])) /\ UNCHANGED <<sent, failed, lost>>
  /\ UNCHANGED <<disk, plane, plan, cleared, job, row, begun>>

\* A second for the degraded record, then the outage policy.
Outage(h) ==
  /\ Free(h) /\ pc[h] = "OUTAGE"
  /\ IF FailClosed(plan[h])
     THEN Exit(h, "EXITED_BLOCK")
     ELSE Goto(h, LocalStep(plan[h])) /\ UNCHANGED <<sent, failed, lost>>
  /\ UNCHANGED <<disk, plane, plan, cleared, job, row, begun>>

\* PROCEED without a credential, or ESCALATE that was not queued: the local
\* decision stands.  ABORT blocks whatever the mode.
GatewayAnswers(h) ==
  /\ Free(h) /\ pc[h] = "DECIDE"
  /\ \E to \in {LocalStep(plan[h]), "BLOCKING", "REVIEW"}: Goto(h, to)
  /\ UNCHANGED <<disk, plane, plan, cleared, telemetry, begun, lost>>

\* PROCEED with a credential, at once or by a reviewer: the tool's input is
\* rewritten, or the call blocked if the harness or the input does not allow it.
Granted(h) ==
  /\ Free(h) /\ pc[h] \in {"DECIDE", "REVIEW"}
  /\ \/ /\ Goto(h, "GRANTED")
        /\ cleared' = [cleared EXCEPT ![h] = TRUE]
        /\ UNCHANGED <<sent, failed, lost>>
     \/ Goto(h, "BLOCKING") /\ UNCHANGED <<cleared, sent, failed, lost>>
     \/ Exit(h, "EXITED_BLOCK") /\ UNCHANGED cleared
  /\ UNCHANGED <<disk, plane, plan, job, row, begun>>

\* Hours later: approved, or refused, returned or expired.
Reviewed(h) ==
  /\ Free(h) /\ pc[h] = "REVIEW"
  /\ \/ /\ Goto(h, "RUNS")
        /\ cleared' = [cleared EXCEPT ![h] = TRUE]
        /\ UNCHANGED <<sent, failed, lost>>
     \/ Exit(h, "EXITED_BLOCK") /\ UNCHANGED cleared
  /\ UNCHANGED <<disk, plane, plan, job, row, begun>>

\* Two seconds for the record of a block, half a second for a rewritten input.
ExitsAfterWait(h) ==
  /\ Free(h)
  /\ \/ pc[h] = "BLOCKING" /\ Exit(h, "EXITED_BLOCK")
     \/ pc[h] = "GRANTED" /\ Exit(h, "EXITED_RUN")
  /\ UNCHANGED <<disk, plane, plan, cleared, job, row, begun>>

\* migrateLegacyBuffer: the files it finds, none if the directory cannot be read.
Work(h, r) ==
  \E left \in {legacy, {}}:
    job' = [job EXCEPT ![h] = [left |-> left, held |-> None, push |-> r]]

\* Half a second, then the tool runs and the outbox is flushed; the process
\* lives until posts and flush are done.
Allow(h) ==
  /\ Free(h) /\ pc[h] = "ALLOWING"
  /\ Goto(h, "RUNS")
  /\ Work(h, None)
  /\ UNCHANGED <<disk, plane, plan, cleared, sent, failed, row, begun, lost>>

Crash(h) ==
  /\ Alive(h)
  /\ Exit(h, IF pc[h] \in Unanswered THEN "KILLED" ELSE "DEAD")
  /\ job' = [job EXCEPT ![h] = None]
  /\ row' = [row EXCEPT ![h] = NoRow]
  /\ UNCHANGED <<disk, plane, plan, cleared, begun>>

-----------------------------------------------------------------------------
(* Posts, and the way of a failed one into the outbox. *)

Stored(r) == {s \in stored: s.decision = r.decision}
Store(r) == stored' = IF Stored(r) = {} THEN stored \cup {r} ELSE stored

PostSucceeds(h, r) ==
  /\ Free(h) /\ r \in sent[h]
  /\ Store(r)
  /\ sent' = [sent EXCEPT ![h] = @ \ {r}]
  /\ UNCHANGED <<disk, rejected, plan, pc, cleared, failed, job, row, begun, lost>>

\* No answer in three seconds, although it may be stored, or an error status.
PostFails(h, r) ==
  /\ Free(h) /\ r \in sent[h]
  /\ Store(r) \/ UNCHANGED stored
  /\ sent' = [sent EXCEPT ![h] = @ \ {r}]
  /\ failed' = [failed EXCEPT ![h] = @ \cup {r}]
  /\ UNCHANGED <<disk, rejected, plan, pc, cleared, job, row, begun, lost>>

PushBegins(h, r) ==
  /\ Free(h) /\ r \in failed[h]
  /\ Work(h, r)
  /\ UNCHANGED <<disk, plane, plan, pc, cleared, sent, failed, row, begun, lost>>

\* SQLite gives a row the id after the largest one in the table.
Insert(r) ==
  \E i \in Ids:
    /\ i # 1 => outbox[i - 1] # None
    /\ \A k \in i..MaxId: outbox[k] = None
    /\ outbox' = [outbox EXCEPT ![i] = r]

Working(h) == Alive(h) /\ job[h] # None

ReadFile(h, f) ==
  /\ Working(h) /\ job[h].held = None /\ f \in job[h].left \cap legacy
  /\ job' = [job EXCEPT ![h].held = f]
  /\ UNCHANGED <<disk, plane, plan, pc, cleared, sent, failed, row, begun, lost>>

\* A file that cannot be read or parsed is removed, and the next one taken;
\* removing it may fail.  One that is gone was removed by another process.
ReadFails(h, f) ==
  /\ Working(h) /\ job[h].held = None /\ f \in job[h].left
  /\ legacy' = legacy \ {f} \/ UNCHANGED legacy
  /\ unread' = unread \cup (legacy \ legacy')
  /\ job' = [job EXCEPT ![h].left = @ \ {f}]
  /\ UNCHANGED <<outbox, migrated, moved, plane, plan, pc, cleared, sent, failed,
                 row, begun, lost>>

\* Mutant: a file that was moved before is moved again.
MoveFileUnseen(h, f) ==
  /\ Working(h) /\ job[h].held = f
  /\ Insert(Rec(f, "PLAIN", "ALLOW"))
  /\ migrated' = migrated \cup {f}
  /\ moved' = [moved EXCEPT ![f] = @ + 1]
  /\ UNCHANGED <<legacy, unread, plane, plan, pc, cleared, telemetry, begun, lost>>

\* BEGIN IMMEDIATE .. COMMIT: a file that was moved before is not moved again,
\* whoever has removed it since it was read.
MoveFile(h, f) ==
  /\ Working(h) /\ job[h].held = f /\ f \notin migrated
  /\ Insert(Rec(f, "PLAIN", "ALLOW"))
  /\ migrated' = migrated \cup {f}
  /\ moved' = [moved EXCEPT ![f] = @ + 1]
  /\ UNCHANGED <<legacy, unread, plane, plan, pc, cleared, telemetry, begun, lost>>

\* The file is removed after its transaction; removing it may fail.
UnlinkFile(h, f) ==
  /\ Working(h) /\ job[h].held = f /\ f \in migrated
  /\ legacy' = legacy \ {f} \/ UNCHANGED legacy
  /\ job' = [job EXCEPT ![h].left = @ \ {f}, ![h].held = None]
  /\ UNCHANGED <<outbox, migrated, moved, unread, plane, plan, pc, cleared, sent, failed,
                 row, begun, lost>>

\* The outbox is busy: the files stay, what follows is tried all the same.
MoveFails(h) ==
  /\ Working(h) /\ job[h].held # None
  /\ job' = [job EXCEPT ![h].left = {}, ![h].held = None]
  /\ UNCHANGED <<disk, plane, plan, pc, cleared, sent, failed, row, begun, lost>>

PushRow(h) ==
  /\ Working(h) /\ job[h].left = {} /\ job[h].push # None
  /\ \/ Insert(job[h].push) /\ UNCHANGED lost
     \/ lost' = lost \cup {job[h].push} /\ UNCHANGED outbox
  /\ failed' = [failed EXCEPT ![h] = @ \ {job[h].push}]
  /\ job' = [job EXCEPT ![h] = None]
  /\ UNCHANGED <<legacy, migrated, moved, unread, plane, plan, pc, cleared, sent, row, begun>>

-----------------------------------------------------------------------------
(* The flush: oldest row first, until the outbox is empty or one fails. *)

RowAt(h, where) == row' = [row EXCEPT ![h] = [NoRow EXCEPT !.pc = where]]

\* The files are moved; the loop begins.
FlushBegins(h) ==
  /\ Working(h) /\ job[h].left = {} /\ job[h].push = None
  /\ job' = [job EXCEPT ![h] = None]
  /\ RowAt(h, "READ")
  /\ UNCHANGED <<disk, plane, plan, pc, cleared, sent, failed, begun, lost>>

\* ORDER BY id LIMIT 1; an empty outbox, or one that is busy, ends the flush.
FlushReads(h) ==
  /\ Alive(h) /\ row[h].pc = "READ"
  /\ \/ \E i \in Ids:
          /\ outbox[i] # None /\ \A j \in 1..(i - 1): outbox[j] = None
          /\ row' = [row EXCEPT ![h] = [pc |-> "SENT", id |-> i, record |-> outbox[i]]]
     \/ RowAt(h, "NO")
  /\ UNCHANGED <<disk, plane, plan, pc, cleared, sent, failed, job, begun, lost>>

\* DELETE WHERE id = ..: if the row is no longer the one that was delivered,
\* what it holds now is lost.
Remove(h) ==
  LET i == row[h].id IN
  /\ outbox' = [outbox EXCEPT ![i] = None]
  /\ lost' = lost \cup ({outbox[i]} \ {None, row[h].record})

\* An answer below 500: the row goes, by its id, and the next one is read.
Delivered(h) ==
  /\ Free(h) /\ row[h].pc = "SENT"
  /\ \/ Store(row[h].record) /\ UNCHANGED rejected
     \/ rejected' = rejected \cup {row[h].record} /\ UNCHANGED stored
  /\ Remove(h)
  /\ RowAt(h, "READ")
  /\ UNCHANGED <<legacy, migrated, moved, unread, plan, pc, cleared, sent, failed, job, begun>>

\* Mutant: a row that failed is removed as well.
DeliveryFailsAndGoes(h) ==
  /\ Free(h) /\ row[h].pc = "SENT"
  /\ Store(row[h].record) \/ UNCHANGED stored
  /\ Remove(h)
  /\ RowAt(h, "NO")
  /\ UNCHANGED <<legacy, migrated, moved, unread, rejected, plan, pc, cleared, sent, failed,
                 job, begun>>

\* A 5xx, no answer, or a row that could not be removed ends the flush.
DeliveryFails(h) ==
  /\ Free(h) /\ row[h].pc = "SENT"
  /\ Store(row[h].record) \/ UNCHANGED stored
  /\ RowAt(h, "NO")
  /\ UNCHANGED <<disk, rejected, plan, pc, cleared, sent, failed, job, begun, lost>>

-----------------------------------------------------------------------------
Decide(h) ==
  \/ \E p \in Plans: Begin(h, p)
  \/ GatewayOut(h) \/ Outage(h) \/ GatewayAnswers(h) \/ Granted(h) \/ Reviewed(h)
  \/ ExitsAfterWait(h) \/ Allow(h) \/ Crash(h)

Deliver(h) ==
  \/ \E r \in begun: PostSucceeds(h, r) \/ PostFails(h, r) \/ PushBegins(h, r)
  \/ \E f \in Files: ReadFile(h, f) \/ ReadFails(h, f) \/ MoveFile(h, f) \/ UnlinkFile(h, f)
  \/ MoveFails(h) \/ PushRow(h)
  \/ FlushBegins(h) \/ FlushReads(h) \/ Delivered(h) \/ DeliveryFails(h)

Next == \E h \in Hooks: Decide(h) \/ Deliver(h)

Spec == Init /\ [][Next]_vars

-----------------------------------------------------------------------------
(* Properties. *)

TypeOK ==
  /\ outbox \in [Ids -> Record \cup {None}]
  /\ legacy \subseteq Files /\ migrated \subseteq Files /\ moved \in [Files -> Nat]
  /\ unread \subseteq Files
  /\ stored \subseteq Record /\ rejected \subseteq Record
  /\ plan \in [Hooks -> Plan]
  /\ pc \in [Hooks -> {"IDLE", "DECIDE", "OUTAGE", "REVIEW", "BLOCKING", "ALLOWING",
                      "GRANTED", "RUNS", "EXITED_RUN", "EXITED_BLOCK", "DEAD",
                      "KILLED"}]
  /\ cleared \in [Hooks -> BOOLEAN]
  /\ sent \in [Hooks -> SUBSET Record] /\ failed \in [Hooks -> SUBSET Record]
  /\ job \in [Hooks -> Job \cup {None}]
  /\ row \in [Hooks -> Row]
  /\ begun \subseteq Record /\ lost \subseteq Record

\* Each file of the older buffer is moved into the outbox once, however many
\* processes find it and whichever of them removes it; one that is gone was
\* moved, or a process could not read it.
LegacyMovedOnce ==
  \A f \in Files: moved[f] <= 1 /\ (f \notin legacy => f \in migrated \cup unread)

HookInv == TypeOK /\ LegacyMovedOnce

Waiting(r) == \/ \E i \in Ids: outbox[i] = r
              \/ \E h \in Hooks: r \in sent[h] \cup failed[h]

\* A record whose post began, or that was moved from the older buffer, is
\* stored (it or the decision's other record), refused by the control plane,
\* or waiting in a process or the outbox; it vanishes only with a process
\* that ended, with an outbox that could not be written, or when another
\* process removed the row by an id that had been given again.  What a file
\* of the older buffer holds counts from its move.
NothingVanishes ==
  \A r \in begun \cup {Rec(f, "PLAIN", "ALLOW"): f \in migrated}:
    Stored(r) # {} \/ r \in rejected \/ r \in lost \/ Waiting(r)

\* The harness may have run the tool.
Ran(h) == pc[h] \in {"GRANTED", "RUNS", "EXITED_RUN", "DEAD", "KILLED"}
Denied(h) == \E r \in begun: r.decision = h /\ r.status = "DENY"

\* In enforce mode, a tool that may have run without the gateway's clearance
\* has a record, stored or waiting, that says it was denied only if its
\* process was killed before it answered.
AuditAgrees ==
  \A h \in Hooks:
    Ran(h) /\ plan[h].mode = "enforce" /\ ~cleared[h] /\ Denied(h) => pc[h] = "KILLED"
=============================================================================
