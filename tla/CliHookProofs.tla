---------------------------- MODULE CliHookProofs ----------------------------
(***************************************************************************)
(* Proofs about CliHook, for any number of processes, files and rows: the  *)
(* older buffer is moved once, no record vanishes but in the ways named,   *)
(* and the records agree with what ran.                                    *)
(***************************************************************************)
EXTENDS CliHook, TLAPS

Of(f) == Rec(f, "PLAIN", "ALLOW")

(* A process that delivers a row has read one.                             *)
RowsRead ==
  \A h \in Hooks: row[h].pc = "SENT" => row[h].id \in Ids /\ row[h].record \in Record

(* A file that was not moved was not counted; one that is gone was moved   *)
(* or could not be read.                                                   *)
MovesCounted ==
  \A f \in Files: /\ moved[f] <= 1
                  /\ f \notin migrated => moved[f] = 0
                  /\ f \notin legacy => f \in migrated \cup unread

HookIInv == TypeOK /\ RowsRead /\ MovesCounted

-----------------------------------------------------------------------------
(* Types. *)

(* Records, rows and plans are what they should be.                        *)
LEMMA RecordTypes ==
  ASSUME HookAssumption
  PROVE  /\ \A d \in Hooks \cup Files, v \in {"PLAIN", "DEGRADED"}, s \in Statuses:
              /\ Rec(d, v, s) \in Record /\ Rec(d, v, s) # None
              /\ Rec(d, v, s).decision = d /\ Rec(d, v, s).version = v
              /\ Rec(d, v, s).status = s
         /\ NoRow \in Row /\ NoRow.pc = "NO" /\ NoPlan \in Plan
         /\ Ids \subseteq Nat
         /\ \A p \in Plans: p \in Plan /\ p.local \in Statuses
BY DEF HookAssumption, Rec, Record, NoRow, Row, NoPlan, Plan, Statuses, Ids

(* A process ends with the posts it has not heard of.                      *)
LEMMA ExitTypes ==
  ASSUME TypeOK, NEW h \in Hooks,
         NEW to \in {"EXITED_RUN", "EXITED_BLOCK", "DEAD", "KILLED"}, Exit(h, to)
  PROVE  /\ pc' = [pc EXCEPT ![h] = to]
         /\ pc' \in [Hooks -> {"IDLE", "DECIDE", "OUTAGE", "REVIEW", "BLOCKING", "ALLOWING",
                              "GRANTED", "RUNS", "EXITED_RUN", "EXITED_BLOCK", "DEAD", "KILLED"}]
         /\ sent' \in [Hooks -> SUBSET Record] /\ failed' \in [Hooks -> SUBSET Record]
         /\ lost' \subseteq Record
BY DEF TypeOK, Exit, Goto

(* A clearance is never taken back.                                        *)
LEMMA ClearedTypes ==
  ASSUME NEW h \in Hooks, cleared \in [Hooks -> BOOLEAN],
         cleared' = [cleared EXCEPT ![h] = TRUE] \/ cleared' = cleared
  PROVE  cleared' \in [Hooks -> BOOLEAN]
<1>1. TRUE \in BOOLEAN
  OBVIOUS
<1>2. CASE cleared' = [cleared EXCEPT ![h] = TRUE]
  BY <1>1, <1>2, Zenon
<1>3. CASE cleared' = cleared
  BY <1>3
<1>4. QED
  BY <1>2, <1>3

(* Work on the outbox starts with some of the files and holds none.        *)
LEMMA WorkTypes ==
  ASSUME HookAssumption, TypeOK, NEW h \in Hooks, NEW r \in Record \cup {None}, Work(h, r)
  PROVE  job' \in [Hooks -> Job \cup {None}]
<1>1. PICK left \in {legacy, {}}: job' = [job EXCEPT ![h] = [left |-> left, held |-> None, push |-> r]]
  BY DEF Work
<1>2. [left |-> left, held |-> None, push |-> r] \in Job
  BY DEF Job, TypeOK
<1>3. QED
  BY <1>1, <1>2 DEF TypeOK

(* The steps of a decision.                                                *)
LEMMA DecideTypes ==
  ASSUME HookAssumption, HookIInv, NEW h \in Hooks, Decide(h)
  PROVE  HookIInv'
<1> USE RecordTypes DEF HookIInv, TypeOK, disk, plane, telemetry
<1>1. ASSUME NEW p \in Plans, Begin(h, p)
      PROVE  HookIInv'
  <2>1. Rec(h, "PLAIN", p.local) \in Record
    BY <1>1
  <2>2. LocalStep(p) \in {"BLOCKING", "ALLOWING"}
    BY DEF LocalStep
  <2>3. TypeOK'
    BY <1>1, <2>1, <2>2 DEF Begin, Post, Goto
  <2>4. QED
    BY <1>1, <2>3 DEF Begin, RowsRead, MovesCounted
<1>2. CASE GatewayOut(h)
  <2>1. plan[h].local \in Statuses /\ "DENY" \in Statuses
    BY DEF Plan, Statuses
  <2>2. TypeOK'
    BY <1>2, <2>1 DEF GatewayOut, Post, Goto
  <2>3. QED
    BY <1>2, <2>2 DEF GatewayOut, RowsRead, MovesCounted
<1>3. CASE Outage(h)
  <2>1. LocalStep(plan[h]) \in {"BLOCKING", "ALLOWING"}
    BY DEF LocalStep
  <2>2. TypeOK'
    <3>1. CASE Exit(h, "EXITED_BLOCK")
      BY <1>3, <3>1, ExitTypes DEF Outage
    <3>2. CASE Goto(h, LocalStep(plan[h])) /\ UNCHANGED <<sent, failed, lost>>
      BY <1>3, <2>1, <3>2 DEF Outage, Goto
    <3>3. QED
      BY <1>3, <3>1, <3>2 DEF Outage
  <2>3. QED
    BY <1>3, <2>2 DEF Outage, RowsRead, MovesCounted
<1>4. CASE GatewayAnswers(h)
  <2>1. LocalStep(plan[h]) \in {"BLOCKING", "ALLOWING"}
    BY DEF LocalStep
  <2>2. TypeOK'
    BY <1>4, <2>1 DEF GatewayAnswers, Goto
  <2>3. QED
    BY <1>4, <2>2 DEF GatewayAnswers, RowsRead, MovesCounted
<1>5. CASE Granted(h)
  <2>1. cleared' \in [Hooks -> BOOLEAN]
    <3>1. cleared' = [cleared EXCEPT ![h] = TRUE] \/ cleared' = cleared
      BY <1>5 DEF Granted
    <3>2. cleared \in [Hooks -> BOOLEAN]
      OBVIOUS
    <3>3. QED
      BY <3>1, <3>2, ClearedTypes
  <2>2. /\ pc' \in [Hooks -> {"IDLE", "DECIDE", "OUTAGE", "REVIEW", "BLOCKING", "ALLOWING",
                             "GRANTED", "RUNS", "EXITED_RUN", "EXITED_BLOCK", "DEAD", "KILLED"}]
        /\ sent' \in [Hooks -> SUBSET Record] /\ failed' \in [Hooks -> SUBSET Record]
        /\ lost' \subseteq Record
    <3>1. CASE Exit(h, "EXITED_BLOCK")
      BY <3>1, ExitTypes, Zenon
    <3>2. CASE UNCHANGED <<sent, failed, lost>> /\ \E to \in {"GRANTED", "BLOCKING"}: Goto(h, to)
      BY <3>2 DEF Goto
    <3>3. QED
      BY <1>5, <3>1, <3>2 DEF Granted
  <2>3. UNCHANGED <<disk, plane, plan, job, row, begun>>
    BY <1>5 DEF Granted
  <2>4. TypeOK'
    BY <2>1, <2>2, <2>3
  <2>5. QED
    BY <2>3, <2>4 DEF RowsRead, MovesCounted
<1>6. CASE Reviewed(h)
  <2>1. cleared' \in [Hooks -> BOOLEAN]
    <3>1. cleared' = [cleared EXCEPT ![h] = TRUE] \/ cleared' = cleared
      BY <1>6 DEF Reviewed
    <3>2. cleared \in [Hooks -> BOOLEAN]
      OBVIOUS
    <3>3. QED
      BY <3>1, <3>2, ClearedTypes
  <2>2. /\ pc' \in [Hooks -> {"IDLE", "DECIDE", "OUTAGE", "REVIEW", "BLOCKING", "ALLOWING",
                             "GRANTED", "RUNS", "EXITED_RUN", "EXITED_BLOCK", "DEAD", "KILLED"}]
        /\ sent' \in [Hooks -> SUBSET Record] /\ failed' \in [Hooks -> SUBSET Record]
        /\ lost' \subseteq Record
    <3>1. CASE Exit(h, "EXITED_BLOCK")
      BY <3>1, ExitTypes, Zenon
    <3>2. CASE UNCHANGED <<sent, failed, lost>> /\ Goto(h, "RUNS")
      BY <3>2 DEF Goto
    <3>3. QED
      BY <1>6, <3>1, <3>2 DEF Reviewed
  <2>3. UNCHANGED <<disk, plane, plan, job, row, begun>>
    BY <1>6 DEF Reviewed
  <2>4. TypeOK'
    BY <2>1, <2>2, <2>3
  <2>5. QED
    BY <2>3, <2>4 DEF RowsRead, MovesCounted
<1>7. CASE ExitsAfterWait(h)
  <2>1. \E to \in {"EXITED_RUN", "EXITED_BLOCK"}: Exit(h, to)
    BY <1>7 DEF ExitsAfterWait
  <2>2. /\ pc' \in [Hooks -> {"IDLE", "DECIDE", "OUTAGE", "REVIEW", "BLOCKING", "ALLOWING",
                             "GRANTED", "RUNS", "EXITED_RUN", "EXITED_BLOCK", "DEAD", "KILLED"}]
        /\ sent' \in [Hooks -> SUBSET Record] /\ failed' \in [Hooks -> SUBSET Record]
        /\ lost' \subseteq Record
    BY <2>1, ExitTypes
  <2>3. UNCHANGED <<disk, plane, plan, cleared, job, row, begun>>
    BY <1>7 DEF ExitsAfterWait
  <2>4. TypeOK'
    BY <2>2, <2>3
  <2>5. QED
    BY <2>3, <2>4 DEF RowsRead, MovesCounted
<1>8. CASE Allow(h)
  <2>1. job' \in [Hooks -> Job \cup {None}]
    BY <1>8, WorkTypes DEF Allow
  <2>2. TypeOK'
    BY <1>8, <2>1 DEF Allow, Goto
  <2>3. QED
    BY <1>8, <2>2 DEF Allow, RowsRead, MovesCounted
<1>9. CASE Crash(h)
  <2>0. PICK to \in {"DEAD", "KILLED"}: Exit(h, to)
    BY <1>9 DEF Crash
  <2>1. TypeOK'
    BY <1>9, <2>0, ExitTypes DEF Crash
  <2>2. QED
    BY <1>9, <2>1 DEF Crash, RowsRead, MovesCounted
<1>10. QED
  BY <1>1, <1>2, <1>3, <1>4, <1>5, <1>6, <1>7, <1>8, <1>9 DEF Decide

(* A row that is inserted, a row that is removed.                          *)
LEMMA InsertTypes ==
  ASSUME HookAssumption, TypeOK, NEW r \in Record, Insert(r)
  PROVE  /\ outbox' \in [Ids -> Record \cup {None}]
         /\ \A i \in Ids: outbox[i] # None => outbox'[i] = outbox[i]
         /\ \E i \in Ids: outbox'[i] = r
<1>1. PICK i \in Ids: /\ \A k \in i..MaxId: outbox[k] = None
                      /\ outbox' = [outbox EXCEPT ![i] = r]
  BY DEF Insert
<1>2. outbox[i] = None
  BY <1>1 DEF Ids, HookAssumption
<1>3. QED
  BY <1>1, <1>2 DEF TypeOK

(* The posts, the moves and the flush.                                     *)
LEMMA DeliverTypes ==
  ASSUME HookAssumption, HookIInv, NEW h \in Hooks, Deliver(h)
  PROVE  HookIInv'
<1> USE RecordTypes DEF HookIInv, TypeOK, disk, plane, telemetry
<1>1. ASSUME NEW r \in begun, PostSucceeds(h, r)
      PROVE  HookIInv'
  <2>1. TypeOK'
    BY <1>1 DEF PostSucceeds, Store
  <2>2. QED
    BY <1>1, <2>1 DEF PostSucceeds, RowsRead, MovesCounted
<1>2. ASSUME NEW r \in begun, PostFails(h, r)
      PROVE  HookIInv'
  <2>1. TypeOK'
    BY <1>2 DEF PostFails, Store
  <2>2. QED
    BY <1>2, <2>1 DEF PostFails, RowsRead, MovesCounted
<1>3. ASSUME NEW r \in begun, PushBegins(h, r)
      PROVE  HookIInv'
  <2>1. job' \in [Hooks -> Job \cup {None}]
    BY <1>3, WorkTypes DEF PushBegins
  <2>2. TypeOK'
    BY <1>3, <2>1 DEF PushBegins
  <2>3. QED
    BY <1>3, <2>2 DEF PushBegins, RowsRead, MovesCounted
<1>4. ASSUME NEW f \in Files, MoveFile(h, f)
      PROVE  HookIInv'
  <2>1. Of(f) \in Record /\ Insert(Of(f))
    BY <1>4 DEF MoveFile, Of, Statuses
  <2>2. outbox' \in [Ids -> Record \cup {None}]
    BY <2>1, InsertTypes
  <2>3. TypeOK'
    BY <1>4, <2>2 DEF MoveFile
  <2>4. MovesCounted'
    BY <1>4 DEF MoveFile, MovesCounted
  <2>5. QED
    BY <1>4, <2>3, <2>4 DEF MoveFile, RowsRead
<1>5. ASSUME NEW f \in Files, UnlinkFile(h, f)
      PROVE  HookIInv'
  <2>1. job[h] \in Job
    BY <1>5 DEF UnlinkFile, Working
  <2>2. [job[h] EXCEPT !.left = @ \ {f}, !.held = None] \in Job
    BY <2>1 DEF Job
  <2>3. TypeOK'
    BY <1>5, <2>2 DEF UnlinkFile
  <2>4. MovesCounted'
    <3>1. UNCHANGED <<migrated, moved, unread>> /\ f \in migrated /\ legacy \subseteq legacy' \cup {f}
      BY <1>5 DEF UnlinkFile
    <3>2. QED
      BY <3>1 DEF MovesCounted
  <2>5. QED
    BY <1>5, <2>3, <2>4 DEF UnlinkFile, RowsRead
<1>6. CASE MoveFails(h)
  <2>1. job[h] \in Job
    BY <1>6 DEF MoveFails, Working
  <2>2. [job[h] EXCEPT !.left = {}, !.held = None] \in Job
    BY <2>1 DEF Job
  <2>3. TypeOK'
    BY <1>6, <2>2 DEF MoveFails
  <2>4. QED
    BY <1>6, <2>3 DEF MoveFails, RowsRead, MovesCounted
<1>14. ASSUME NEW f \in Files, ReadFile(h, f)
       PROVE  HookIInv'
  <2>1. job[h] \in Job
    BY <1>14 DEF ReadFile, Working
  <2>2. [job[h] EXCEPT !.held = f] \in Job
    BY <2>1 DEF Job
  <2>3. TypeOK'
    BY <1>14, <2>2 DEF ReadFile
  <2>4. QED
    BY <1>14, <2>3 DEF ReadFile, RowsRead, MovesCounted
<1>15. ASSUME NEW f \in Files, ReadFails(h, f)
       PROVE  HookIInv'
  <2>1. job[h] \in Job
    BY <1>15 DEF ReadFails, Working
  <2>2. [job[h] EXCEPT !.left = @ \ {f}] \in Job
    BY <2>1 DEF Job
  <2>3. TypeOK'
    BY <1>15, <2>2 DEF ReadFails
  <2>4. MovesCounted'
    BY <1>15 DEF ReadFails, MovesCounted
  <2>5. QED
    BY <1>15, <2>3, <2>4 DEF ReadFails, RowsRead
<1>7. CASE PushRow(h)
  <2>1. job[h].push \in Record
    BY <1>7 DEF PushRow, Working, Job
  <2>2. outbox' \in [Ids -> Record \cup {None}]
    BY <1>7, <2>1, InsertTypes DEF PushRow
  <2>3. TypeOK'
    BY <1>7, <2>1, <2>2 DEF PushRow
  <2>4. QED
    BY <1>7, <2>3 DEF PushRow, RowsRead, MovesCounted
<1>8. ASSUME NEW where \in {"NO", "READ"}, RowAt(h, where)
      PROVE  row' \in [Hooks -> Row] /\ RowsRead'
  <2>1. [NoRow EXCEPT !.pc = where] = [pc |-> where, id |-> 0, record |-> None]
    BY DEF NoRow
  <2>2. [pc |-> where, id |-> 0, record |-> None] \in Row
    BY DEF Row, HookAssumption
  <2>3. QED
    BY <1>8, <2>1, <2>2 DEF RowAt, RowsRead
<1>9. CASE FlushBegins(h)
  <2>1. TypeOK'
    BY <1>8, <1>9 DEF FlushBegins
  <2>2. QED
    BY <1>8, <1>9, <2>1 DEF FlushBegins, MovesCounted
<1>10. CASE FlushReads(h)
  <2>1. ASSUME NEW i \in Ids, outbox[i] # None,
               row' = [row EXCEPT ![h] = [pc |-> "SENT", id |-> i, record |-> outbox[i]]]
        PROVE  row' \in [Hooks -> Row] /\ RowsRead'
    <3>1. [pc |-> "SENT", id |-> i, record |-> outbox[i]] \in Row
      BY DEF Row, Ids, HookAssumption
    <3>2. QED
      BY <2>1, <3>1 DEF RowsRead
  <2>2. row' \in [Hooks -> Row] /\ RowsRead'
    BY <1>8, <1>10, <2>1 DEF FlushReads
  <2>3. QED
    BY <1>10, <2>2 DEF FlushReads, MovesCounted
<1>11. CASE Delivered(h)
  <2>1. row[h].id \in Ids /\ row[h].record \in Record
    BY <1>11 DEF Delivered, RowsRead
  <2>2. outbox' \in [Ids -> Record \cup {None}] /\ lost' \subseteq Record
    BY <1>11, <2>1 DEF Delivered, Remove
  <2>3. stored' \subseteq Record /\ rejected' \subseteq Record
    BY <1>11, <2>1 DEF Delivered, Store
  <2>4. row' \in [Hooks -> Row] /\ RowsRead'
    BY <1>8, <1>11 DEF Delivered
  <2>5. QED
    BY <1>11, <2>2, <2>3, <2>4 DEF Delivered, MovesCounted
<1>12. CASE DeliveryFails(h)
  <2>1. stored' \subseteq Record
    BY <1>12 DEF DeliveryFails, Store, RowsRead
  <2>2. row' \in [Hooks -> Row] /\ RowsRead'
    BY <1>8, <1>12 DEF DeliveryFails
  <2>3. QED
    BY <1>12, <2>1, <2>2 DEF DeliveryFails, MovesCounted
<1>13. QED
  BY <1>1, <1>2, <1>3, <1>4, <1>5, <1>6, <1>7, <1>9, <1>10, <1>11, <1>12, <1>14, <1>15
     DEF Deliver

(* The invariant holds at first, and every step keeps it.                  *)
LEMMA HookInit ==
  ASSUME HookAssumption, Init
  PROVE  HookIInv
BY RecordTypes DEF Init, HookIInv, TypeOK, RowsRead, MovesCounted

(* Every step keeps it.                                                    *)
LEMMA HookStep ==
  ASSUME HookAssumption, HookIInv, [Next]_vars
  PROVE  HookIInv'
<1>1. CASE UNCHANGED vars
  BY <1>1 DEF HookIInv, TypeOK, RowsRead, MovesCounted, vars, disk, plane, telemetry
<1>2. QED
  BY <1>1, DecideTypes, DeliverTypes DEF Next

(* So it holds of every behaviour.                                         *)
LEMMA HookAlways == Spec => []HookIInv
<1>1. Init => HookIInv
  BY HookAssumption, HookInit
<1>2. HookIInv /\ [Next]_vars => HookIInv'
  BY HookAssumption, HookStep
<1>3. QED
  BY <1>1, <1>2, PTL DEF Spec

(* However many processes find the files of the older buffer, each is      *)
(* moved into the outbox once, and is removed when it was moved or when a  *)
(* process could not read it (migrateLegacyBuffer).                        *)
THEOREM LegacyTheorem == Spec => []HookInv
<1>1. HookIInv => HookInv
  BY DEF HookIInv, HookInv, LegacyMovedOnce, MovesCounted
<1>2. QED
  BY <1>1, HookAlways, PTL

-----------------------------------------------------------------------------
(* Nothing vanishes. *)

Accounted(r) == Stored(r) # {} \/ r \in rejected \/ r \in lost \/ Waiting(r)

Known == begun \cup {Of(f): f \in migrated}

(* What was accounted for still is when the stores only grow and what      *)
(* waits goes on waiting, or goes into one of them.                        *)
LEMMA Accounts ==
  ASSUME NEW r, Accounted(r), stored \subseteq stored', rejected \subseteq rejected',
         lost \subseteq lost', Waiting(r) => Accounted(r)'
  PROVE  Accounted(r)'
BY DEF Accounted, Stored

(* What is delivered is stored, it or the decision's other record.         *)
LEMMA StoreGrows ==
  ASSUME NEW r, Store(r)
  PROVE  stored \subseteq stored' /\ Stored(r)' # {}
BY DEF Store, Stored

(* Deciding moves no record but from a process that ends to the lost ones. *)
LEMMA DecideAccounts ==
  ASSUME HookAssumption, HookIInv, NEW h \in Hooks, Decide(h), NEW r \in Record, Accounted(r)
  PROVE  Accounted(r)'
<1> USE DEF disk, plane, telemetry
<1>1. \/ UNCHANGED <<sent, failed, lost>>
      \/ /\ lost' = lost \cup sent[h] \cup failed[h]
         /\ sent' = [sent EXCEPT ![h] = {}] /\ failed' = [failed EXCEPT ![h] = {}]
      \/ /\ UNCHANGED <<failed, lost>>
         /\ \E x: sent' = [sent EXCEPT ![h] = @ \cup {x}]
  BY DEF Decide, Begin, GatewayOut, Outage, GatewayAnswers, Granted, Reviewed, ExitsAfterWait,
         Allow, Crash, Exit, Post
<1>2. UNCHANGED <<outbox, stored, rejected>>
  BY DEF Decide, Begin, GatewayOut, Outage, GatewayAnswers, Granted, Reviewed, ExitsAfterWait,
         Allow, Crash
<1>3. lost \subseteq lost'
  BY <1>1
<1>4. ASSUME Waiting(r)
      PROVE  Accounted(r)'
  <2>1. CASE \E i \in Ids: outbox[i] = r
    BY <1>2, <2>1 DEF Accounted, Waiting
  <2>2. ASSUME NEW g \in Hooks, r \in sent[g] \cup failed[g]
        PROVE  Accounted(r)'
    BY <1>1, <2>2 DEF Accounted, Waiting, HookIInv, TypeOK
  <2>3. QED
    BY <1>4, <2>1, <2>2 DEF Waiting
<1>5. QED
  BY <1>2, <1>3, <1>4, Accounts

(* The rows that are inserted take no other row's place.                   *)
LEMMA DeliverAccounts ==
  ASSUME HookAssumption, HookIInv, NEW h \in Hooks, Deliver(h), NEW r \in Record, Accounted(r)
  PROVE  Accounted(r)'
<1> USE DEF disk, plane
<1>a. TypeOK /\ RowsRead /\ None \notin Record
  BY DEF HookIInv, HookAssumption
<1>1. ASSUME NEW x \in begun, PostSucceeds(h, x)
      PROVE  Accounted(r)'
  <2>1. stored \subseteq stored' /\ Stored(x)' # {}
    BY <1>1, StoreGrows DEF PostSucceeds
  <2>2. Waiting(r) => Waiting(r)' \/ r = x
    BY <1>1, <1>a DEF PostSucceeds, Waiting, TypeOK
  <2>3. QED
    BY <1>1, <2>1, <2>2, Accounts DEF PostSucceeds, Accounted
<1>2. ASSUME NEW x \in begun, PostFails(h, x)
      PROVE  Accounted(r)'
  <2>1. stored \subseteq stored'
    BY <1>2, StoreGrows DEF PostFails
  <2>2. Waiting(r) => Waiting(r)'
    BY <1>2, <1>a DEF PostFails, Waiting, TypeOK
  <2>3. QED
    BY <1>2, <2>1, <2>2, Accounts DEF PostFails, Accounted
<1>3. ASSUME UNCHANGED <<outbox, stored, rejected, sent, failed, lost>>
      PROVE  Accounted(r)'
  BY <1>3 DEF Accounted, Stored, Waiting
<1>4. ASSUME NEW f \in Files, MoveFile(h, f)
      PROVE  Accounted(r)'
  <2>1. Of(f) \in Record /\ Insert(Of(f))
    BY <1>4, RecordTypes DEF MoveFile, Of, Statuses
  <2>2. Waiting(r) => Waiting(r)'
    BY <1>4, <1>a, <2>1, InsertTypes DEF MoveFile, Waiting, telemetry
  <2>3. QED
    BY <1>4, <2>2, Accounts DEF MoveFile, Accounted
<1>5. CASE PushRow(h)
  <2>1. job[h].push \in Record
    BY <1>5, <1>a DEF PushRow, Working, Job, TypeOK
  <2>2. \A i \in Ids: outbox[i] # None => outbox'[i] = outbox[i]
    BY <1>5, <1>a, <2>1, InsertTypes DEF PushRow
  <2>3. \/ \E i \in Ids: outbox'[i] = job[h].push
        \/ job[h].push \in lost'
    BY <1>5, <1>a, <2>1, InsertTypes DEF PushRow
  <2>4. lost \subseteq lost'
    BY <1>5 DEF PushRow
  <2>5. Waiting(r) => Waiting(r)' \/ r = job[h].push
    BY <1>5, <1>a, <2>2 DEF PushRow, Waiting, TypeOK
  <2>6. QED
    BY <1>5, <2>3, <2>4, <2>5, Accounts DEF PushRow, Accounted, Waiting
<1>6. CASE Delivered(h)
  <2> DEFINE i == row[h].id
  <2>1. i \in Ids /\ row[h].record \in Record
    BY <1>6, <1>a DEF Delivered, RowsRead
  <2>x. PICK x \in Record: x = row[h].record
    BY <2>1
  <2>2. stored \subseteq stored' /\ rejected \subseteq rejected'
    BY <1>6, StoreGrows DEF Delivered
  <2>3. Stored(x)' # {} \/ x \in rejected'
    BY <1>6, <2>x, StoreGrows DEF Delivered
  <2>4. /\ \A k \in Ids: k # i => outbox'[k] = outbox[k]
        /\ lost' = lost \cup ({outbox[i]} \ {None, x})
    BY <1>6, <1>a, <2>1, <2>x DEF Delivered, Remove, TypeOK
  <2>5. ASSUME NEW k \in Ids, outbox[k] = r
        PROVE  Accounted(r)'
    BY <1>a, <2>3, <2>4, <2>5 DEF Accounted, Waiting
  <2>6. Waiting(r) => Accounted(r)'
    BY <1>6, <2>5 DEF Delivered, Waiting, Accounted
  <2>7. QED
    BY <2>2, <2>4, <2>6, Accounts
<1>7. CASE DeliveryFails(h)
  <2>1. stored \subseteq stored'
    BY <1>7, StoreGrows DEF DeliveryFails
  <2>2. Waiting(r) => Waiting(r)'
    BY <1>7 DEF DeliveryFails, Waiting
  <2>3. QED
    BY <1>7, <2>1, <2>2, Accounts DEF DeliveryFails, Accounted
<1>8. QED
  BY <1>1, <1>2, <1>3, <1>4, <1>5, <1>6, <1>7
     DEF Deliver, PushBegins, ReadFile, ReadFails, UnlinkFile, MoveFails, FlushBegins, FlushReads

(* A record becomes known by being posted or moved: it then waits.         *)
LEMMA NewWaits ==
  ASSUME HookAssumption, HookIInv, [Next]_vars
  PROVE  \A r \in Known': r \in Known \/ Waiting(r)'
<1> USE DEF disk, plane, telemetry
<1>1. ASSUME NEW h \in Hooks, NEW x, Post(h, x), UNCHANGED migrated
      PROVE  \A r \in Known': r \in Known \/ Waiting(r)'
  BY <1>1 DEF Post, Known, Waiting, HookIInv, TypeOK
<1>2. ASSUME UNCHANGED <<begun, migrated>>
      PROVE  \A r \in Known': r \in Known \/ Waiting(r)'
  BY <1>2 DEF Known
<1>3. ASSUME NEW h \in Hooks, NEW f \in Files, MoveFile(h, f)
      PROVE  \A r \in Known': r \in Known \/ Waiting(r)'
  <2>1. Of(f) \in Record /\ Insert(Of(f))
    BY <1>3, RecordTypes DEF MoveFile, Of, Statuses
  <2>2. Waiting(Of(f))'
    BY <2>1, InsertTypes DEF HookIInv, Waiting
  <2>3. migrated' = migrated \cup {f} /\ begun' = begun
    BY <1>3 DEF MoveFile
  <2>4. QED
    BY <2>2, <2>3 DEF Known
<1>4. CASE UNCHANGED vars
  BY <1>2, <1>4 DEF vars
<1>5. ASSUME NEW h \in Hooks, Decide(h)
      PROVE  \A r \in Known': r \in Known \/ Waiting(r)'
  BY <1>1, <1>2, <1>5 DEF Decide, Begin, GatewayOut, Outage, GatewayAnswers, Granted, Reviewed,
                          ExitsAfterWait, Allow, Crash
<1>6. ASSUME NEW h \in Hooks, Deliver(h)
      PROVE  \A r \in Known': r \in Known \/ Waiting(r)'
  BY <1>2, <1>3, <1>6 DEF Deliver, PostSucceeds, PostFails, PushBegins, ReadFile, ReadFails,
                          UnlinkFile, MoveFails, PushRow, FlushBegins, FlushReads, Delivered, DeliveryFails
<1>7. QED
  BY <1>4, <1>5, <1>6 DEF Next

(* For any number of processes, files and rows: evidence whose post began, *)
(* or that the older buffer held, is stored, refused, waiting, or lost in  *)
(* one of the three ways the model names (pushToOutbox, flushOutbox).      *)
THEOREM NothingVanishesTheorem == Spec => []NothingVanishes
<1> DEFINE Inv == HookIInv /\ NothingVanishes
<1>a. NothingVanishes <=> \A r \in Known: Accounted(r)
  BY DEF NothingVanishes, Known, Accounted, Of
<1>b. HookAssumption /\ HookIInv => Known \subseteq Record
  BY RecordTypes DEF HookIInv, TypeOK, Known, Of, Statuses
<1>1. Init => Inv
  BY HookAssumption, HookInit DEF Init, NothingVanishes
<1>2. ASSUME Inv, [Next]_vars
      PROVE  Inv'
  <2>1. HookIInv'
    BY <1>2, HookAssumption, HookStep
  <2>2. \A r \in Record: Accounted(r) => Accounted(r)'
    <3>1. CASE UNCHANGED vars
      BY <3>1 DEF vars, disk, plane, telemetry, Accounted, Stored, Waiting
    <3>2. CASE Next
      BY <1>2, <3>2, HookAssumption, DecideAccounts, DeliverAccounts DEF Next
    <3>3. QED
      BY <1>2, <3>1, <3>2
  <2>3. \A r \in Known': r \in Known \/ Waiting(r)'
    BY <1>2, HookAssumption, NewWaits
  <2>4. \A r \in Known: Accounted(r)
    BY <1>2, <1>a
  <2>5. \A r \in Known': Accounted(r)'
    BY <1>2, <1>b, <2>2, <2>3, <2>4, HookAssumption DEF Accounted
  <2>6. NothingVanishes'
    BY <2>5 DEF NothingVanishes, Known, Accounted, Of
  <2>7. QED
    BY <2>1, <2>6
<1>3. QED
  BY <1>1, <1>2, PTL DEF Spec

-----------------------------------------------------------------------------
(* The audit. *)

Blocked(h) == pc[h] \in {"OUTAGE", "EXITED_BLOCK", "KILLED"}

(* The process let the tool run, or is about to.                           *)
LetRun(h) == pc[h] \in {"ALLOWING", "GRANTED", "RUNS", "EXITED_RUN", "DEAD"}

(* What the records of a process say follows from its plan: the local      *)
(* decision, and after an outage the outage policy's, which then holds.    *)
RecordsTell ==
  \A r \in begun:
    /\ r.decision \in Hooks
    /\ pc[r.decision] # "IDLE"
    /\ \/ r.status = plan[r.decision].local
       \/ r.status = "DENY" /\ FailClosed(plan[r.decision]) /\ Blocked(r.decision)

(* In enforce mode, only a clearance takes a denied call past the block.   *)
DenialsBlock ==
  \A h \in Hooks:
    LetRun(h) /\ plan[h].mode = "enforce" /\ ~cleared[h] => plan[h].local = "ALLOW"

AuditInv == RecordsTell /\ DenialsBlock

(* The steps of a decision keep what its records tell.                     *)
LEMMA DecideAudit ==
  ASSUME HookAssumption, HookIInv, AuditInv, NEW h \in Hooks, Decide(h)
  PROVE  AuditInv'
<1> USE DEF disk, plane, telemetry
<1>a. TypeOK
  BY DEF HookIInv
<1>b. \A q \in Plan: /\ LocalStep(q) \in {"BLOCKING", "ALLOWING"}
                     /\ LocalStep(q) = "ALLOWING" /\ q.mode = "enforce" => q.local = "ALLOW"
  BY DEF LocalStep, Plan, Statuses
<1>c. \A g \in Hooks: plan[g] \in Plan /\ g \notin Files
  BY <1>a DEF TypeOK, HookAssumption
<1>1. ASSUME NEW p \in Plans, Begin(h, p)
      PROVE  AuditInv'
  <2>1. /\ pc[h] = "IDLE" /\ p \in Plan
        /\ begun' = begun \cup {Rec(h, "PLAIN", p.local)}
        /\ plan' = [plan EXCEPT ![h] = p] /\ cleared' = cleared
        /\ \E to \in {LocalStep(p), "DECIDE"}: pc' = [pc EXCEPT ![h] = to]
    BY <1>1, RecordTypes DEF Begin, Post, Goto
  <2>2. plan'[h] = p /\ \A g \in Hooks: g # h => plan'[g] = plan[g] /\ pc'[g] = pc[g]
    BY <1>a, <2>1 DEF TypeOK
  <2>3. pc'[h] \in {"BLOCKING", "ALLOWING", "DECIDE"} /\ pc'[h] \in {LocalStep(p), "DECIDE"}
    BY <1>a, <1>b, <2>1 DEF TypeOK
  <2>4. RecordsTell'
    <3>1. ASSUME NEW r \in begun
          PROVE  r.decision # h
      BY <2>1, <3>1 DEF AuditInv, RecordsTell
    <3>2. /\ Rec(h, "PLAIN", p.local).decision = h /\ Rec(h, "PLAIN", p.local).status = p.local
      BY DEF Rec
    <3>3. QED
      BY <2>1, <2>2, <2>3, <3>1, <3>2 DEF AuditInv, RecordsTell, Blocked
  <2>5. DenialsBlock'
    BY <1>b, <2>1, <2>2, <2>3 DEF AuditInv, DenialsBlock, LetRun
  <2>6. QED
    BY <2>4, <2>5 DEF AuditInv
<1>2. CASE GatewayOut(h)
  <2> DEFINE status == IF FailClosed(plan[h]) THEN "DENY" ELSE plan[h].local
  <2>1. /\ pc[h] = "DECIDE" /\ begun' = begun \cup {Rec(h, "DEGRADED", status)}
        /\ pc' = [pc EXCEPT ![h] = "OUTAGE"] /\ UNCHANGED <<plan, cleared>>
    BY <1>2 DEF GatewayOut, Post, Goto
  <2>2. /\ Rec(h, "DEGRADED", status).decision = h /\ Rec(h, "DEGRADED", status).status = status
    BY DEF Rec
  <2>3. pc'[h] = "OUTAGE" /\ \A g \in Hooks: g # h => pc'[g] = pc[g]
    BY <1>a, <2>1 DEF TypeOK
  <2>4. RecordsTell'
    BY <2>1, <2>2, <2>3 DEF AuditInv, RecordsTell, Blocked
  <2>5. DenialsBlock'
    BY <2>1, <2>3 DEF AuditInv, DenialsBlock, LetRun
  <2>6. QED
    BY <2>4, <2>5 DEF AuditInv
<1>3. ASSUME UNCHANGED <<plan, begun>>, NEW to, pc' = [pc EXCEPT ![h] = to],
             pc[h] # "IDLE" => to # "IDLE", Blocked(h) /\ FailClosed(plan[h]) => Blocked(h)',
             cleared' = cleared \/ cleared' = [cleared EXCEPT ![h] = TRUE],
             (to \in {"ALLOWING", "GRANTED", "RUNS", "EXITED_RUN", "DEAD"} /\ plan[h].mode = "enforce"
              /\ ~cleared'[h] => plan[h].local = "ALLOW")
      PROVE  AuditInv'
  <2>1. pc'[h] = to /\ \A g \in Hooks: g # h => pc'[g] = pc[g] /\ cleared'[g] = cleared[g]
    BY <1>a, <1>3 DEF TypeOK
  <2>2. RecordsTell'
    BY <1>3, <2>1 DEF AuditInv, RecordsTell, Blocked
  <2>3. DenialsBlock'
    BY <1>3, <2>1 DEF AuditInv, DenialsBlock, LetRun
  <2>4. QED
    BY <2>2, <2>3 DEF AuditInv
<1>4. CASE Outage(h)
  <2>1. CASE FailClosed(plan[h])
    BY <1>3, <1>4, <2>1, <1>a DEF Outage, Exit, Goto, Blocked, TypeOK
  <2>2. CASE ~FailClosed(plan[h])
    BY <1>3, <1>4, <2>2, <1>a, <1>b, <1>c DEF Outage, Goto
  <2>3. QED
    BY <2>1, <2>2
<1>5. CASE GatewayAnswers(h)
  <2>1. PICK to \in {LocalStep(plan[h]), "BLOCKING", "REVIEW"}: pc' = [pc EXCEPT ![h] = to]
    BY <1>5 DEF GatewayAnswers, Goto
  <2>2. QED
    BY <1>3, <1>5, <2>1, <1>b, <1>c DEF GatewayAnswers, Blocked
<1>6. CASE Granted(h)
  <2>1. UNCHANGED <<plan, begun>> /\ pc[h] \in {"DECIDE", "REVIEW"}
    BY <1>6 DEF Granted
  <2>2. CASE Goto(h, "GRANTED") /\ cleared' = [cleared EXCEPT ![h] = TRUE]
    <3>1. cleared'[h]
      BY <2>2, <1>a DEF TypeOK
    <3>2. QED
      BY <1>3, <2>1, <2>2, <3>1 DEF Goto, Blocked
  <2>3. ASSUME NEW to \in {"BLOCKING", "EXITED_BLOCK"}, Goto(h, to), UNCHANGED cleared
        PROVE  AuditInv'
    BY <1>3, <2>1, <2>3 DEF Goto, Blocked
  <2>4. QED
    BY <1>6, <2>2, <2>3 DEF Granted, Exit
<1>7. CASE Reviewed(h)
  <2>1. UNCHANGED <<plan, begun>> /\ pc[h] = "REVIEW"
    BY <1>7 DEF Reviewed
  <2>2. CASE Goto(h, "RUNS") /\ cleared' = [cleared EXCEPT ![h] = TRUE]
    <3>1. cleared'[h]
      BY <2>2, <1>a DEF TypeOK
    <3>2. QED
      BY <1>3, <2>1, <2>2, <3>1 DEF Goto, Blocked
  <2>3. CASE Goto(h, "EXITED_BLOCK") /\ UNCHANGED cleared
    BY <1>3, <2>1, <2>3 DEF Goto, Blocked
  <2>4. QED
    BY <1>7, <2>2, <2>3 DEF Reviewed, Exit
<1>8. CASE ExitsAfterWait(h)
  <2>1. UNCHANGED <<plan, begun, cleared>>
    BY <1>8 DEF ExitsAfterWait
  <2>2. CASE pc[h] = "BLOCKING" /\ Goto(h, "EXITED_BLOCK")
    BY <1>3, <2>1, <2>2 DEF Goto, Blocked
  <2>3. CASE pc[h] = "GRANTED" /\ Goto(h, "EXITED_RUN")
    BY <1>3, <2>1, <2>3 DEF Goto, Blocked, AuditInv, DenialsBlock, LetRun
  <2>4. QED
    BY <1>8, <2>2, <2>3 DEF ExitsAfterWait, Exit
<1>9. CASE Allow(h)
  BY <1>3, <1>9 DEF Allow, Goto, Blocked, AuditInv, DenialsBlock, LetRun
<1>10. CASE Crash(h)
  <2>1. UNCHANGED <<plan, begun, cleared>>
    BY <1>10 DEF Crash
  <2>2. CASE pc[h] \in Unanswered
    <3>1. pc' = [pc EXCEPT ![h] = "KILLED"]
      BY <1>10, <2>2 DEF Crash, Exit, Goto
    <3>2. pc'[h] = "KILLED"
      BY <1>a, <3>1 DEF TypeOK
    <3>3. QED
      BY <1>3, <2>1, <3>1, <3>2 DEF Blocked
  <2>3. CASE pc[h] \notin Unanswered
    <3>1. pc' = [pc EXCEPT ![h] = "DEAD"]
      BY <1>10, <2>3 DEF Crash, Exit, Goto
    <3>2. LetRun(h) /\ ~Blocked(h)
      BY <1>10, <1>a, <2>3 DEF Crash, Alive, Unanswered, LetRun, Blocked, TypeOK
    <3>3. plan[h].mode = "enforce" /\ ~cleared[h] => plan[h].local = "ALLOW"
      BY <3>2 DEF AuditInv, DenialsBlock
    <3>4. QED
      BY <1>3, <2>1, <3>1, <3>2, <3>3
  <2>4. QED
    BY <2>2, <2>3
<1>11. QED
  BY <1>1, <1>2, <1>4, <1>5, <1>6, <1>7, <1>8, <1>9, <1>10 DEF Decide

(* For any number of processes and plans: a tool that may have run in      *)
(* enforce mode without the gateway's clearance has a record that says it  *)
(* was denied only if its process was killed before it answered            *)
(* (pretooluse: shouldBlockDecision, handleGatewayOutage).                  *)
THEOREM AuditTheorem == Spec => []AuditAgrees
<1>1. Init => AuditInv
  BY DEF Init, AuditInv, RecordsTell, DenialsBlock, LetRun
<1>2. ASSUME HookIInv, AuditInv, [Next]_vars
      PROVE  AuditInv'
  <2>1. ASSUME UNCHANGED <<plan, pc, cleared, begun>>
        PROVE  AuditInv'
    BY <1>2, <2>1 DEF AuditInv, RecordsTell, DenialsBlock, LetRun, Blocked
  <2>2. ASSUME NEW h \in Hooks, Deliver(h)
        PROVE  AuditInv'
    BY <2>1, <2>2 DEF Deliver, PostSucceeds, PostFails, PushBegins, ReadFile, ReadFails, MoveFile,
                      UnlinkFile, MoveFails, PushRow, FlushBegins, FlushReads, Delivered, DeliveryFails
  <2>3. CASE UNCHANGED vars
    BY <2>1, <2>3 DEF vars
  <2>4. QED
    BY <1>2, <2>2, <2>3, HookAssumption, DecideAudit DEF Next
<1>3. AuditInv => AuditAgrees
  <2> SUFFICES ASSUME AuditInv, NEW h \in Hooks, Ran(h), plan[h].mode = "enforce", ~cleared[h],
                      Denied(h), pc[h] # "KILLED"
               PROVE  FALSE
    BY DEF AuditAgrees
  <2>1. LetRun(h) /\ ~Blocked(h)
    BY DEF Ran, LetRun, Blocked
  <2>2. plan[h].local = "ALLOW"
    BY <2>1 DEF AuditInv, DenialsBlock
  <2>3. PICK r \in begun: r.decision = h /\ r.status = "DENY"
    BY DEF Denied
  <2>4. QED
    BY <2>1, <2>2, <2>3 DEF AuditInv, RecordsTell
<1>4. QED
  BY <1>1, <1>2, <1>3, HookAlways, PTL DEF Spec
=============================================================================
