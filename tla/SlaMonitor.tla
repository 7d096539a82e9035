----------------------------- MODULE SlaMonitor -----------------------------
(***************************************************************************)
(* The escalation SLA sweep (jobs_escalation_sla.go) run under the job     *)
(* lease: JobLease with the sweep of a run spelled out.  Two triggers      *)
(* start it, the ticker (jobs.go) and the HTTP endpoint (http.go).         *)
(*                                                                         *)
(* A sweep reads the due escalations once, then for each opens a           *)
(* transaction that looks for an earlier reminder and appends one.  The    *)
(* look takes no lock, so another sweep may append in between.             *)
(***************************************************************************)
EXTENDS JobLease, Naturals, FiniteSets

CONSTANTS
    Items,         \* rows of gateway_escalation_queue
    MaxReminders   \* bound on the reminders counted per item and action

ASSUME ItemAssumption == None \notin Items
ASSUME BoundAssumption == MaxReminders \in Nat \ {0, 1}

Reminders == {"SLA_DUE_SOON", "SLA_OVERDUE"}

VARIABLES
    due,        \* due[i]: how near sla_due_at is, "closed" once resolved
    rows,       \* rows[r]: the escalations r's query returned
    todo,       \* todo[r]: those of them still to scan
    queried,    \* queried[r]: the sweep of r has its rows
    checked,    \* checked[r]: the reminder r found missing, or None
    sent,       \* sent[i][a]: AGENT_TRIAGE entries in the operations log
    overlap     \* a run swept while its lease was not its own (history)

slaVars == <<due, rows, todo, queried, checked, sent, overlap>>
allVars == <<vars, slaVars>>

SlaTypeOK ==
    /\ due \in [Items -> {"later", "closed"} \cup Reminders]
    /\ rows \in [Runs -> SUBSET Items]
    /\ todo \in [Runs -> SUBSET Items]
    /\ queried \in [Runs -> BOOLEAN]
    /\ checked \in [Runs -> (Items \X Reminders) \cup {None}]
    /\ sent \in [Items -> [Reminders -> 0 .. MaxReminders]]
    /\ overlap \in BOOLEAN

SlaInit ==
    /\ Init
    /\ due = [i \in Items |-> "later"]
    /\ rows = [r \in Runs |-> {}]
    /\ todo = [r \in Runs |-> {}]
    /\ queried = [r \in Runs |-> FALSE]
    /\ checked = [r \in Runs |-> None]
    /\ sent = [i \in Items |-> [a \in Reminders |-> 0]]
    /\ overlap = FALSE

-----------------------------------------------------------------------------
(* runEscalationSLAMonitor *)

Sweeping(r) == phase[r] = "sweeping" /\ ~cancelled[r] /\ ~ctxDone[r]

(* Open escalations that are overdue or due within half an hour. *)
QueryDue(r) ==
    /\ Sweeping(r) /\ ~queried[r]
    /\ queried' = [queried EXCEPT ![r] = TRUE]
    /\ rows' = [rows EXCEPT ![r] = {i \in Items : due[i] \in Reminders}]
    /\ todo' = [todo EXCEPT ![r] = rows'[r]]
    /\ UNCHANGED <<vars, due, checked, sent, overlap>>

(* The row was read open, whatever became of it; its deadline can only     *)
(* have come nearer, so a row closed meanwhile gets either reminder.       *)
ActionsFor(i) == IF due[i] = "closed" THEN Reminders ELSE {due[i]}

(* Mutant: no look for an earlier reminder. *)
CheckNothing(r, i) ==
    /\ Sweeping(r) /\ i \in todo[r] /\ checked[r] = None
    /\ \E a \in ActionsFor(i) : checked' = [checked EXCEPT ![r] = <<i, a>>]
    /\ UNCHANGED <<vars, due, rows, todo, queried, sent, overlap>>

(* appendEscalationSLAReminder: SELECT EXISTS, and done if there is one. *)
CheckReminder(r, i) ==
    /\ Sweeping(r) /\ i \in todo[r] /\ checked[r] = None
    /\ \E a \in ActionsFor(i) :
           IF sent[i][a] > 0
             THEN todo' = [todo EXCEPT ![r] = @ \ {i}] /\ UNCHANGED checked
             ELSE checked' = [checked EXCEPT ![r] = <<i, a>>] /\ UNCHANGED todo
    /\ UNCHANGED <<vars, due, rows, queried, sent, overlap>>

(* Mutant: the commit is forgotten, so the entry rolls back. *)
AppendRolledBack(r) ==
    /\ phase[r] = "sweeping" /\ checked[r] # None
    /\ todo' = [todo EXCEPT ![r] = @ \ {checked[r][1]}]
    /\ checked' = [checked EXCEPT ![r] = None]
    /\ UNCHANGED <<vars, due, rows, queried, sent, overlap>>

(* The entry is appended to the operations log and committed. *)
AppendReminder(r) ==
    /\ phase[r] = "sweeping" /\ checked[r] # None
    /\ LET i == checked[r][1]
           a == checked[r][2]
       IN  /\ sent[i][a] < MaxReminders
           /\ sent' = [sent EXCEPT ![i][a] = @ + 1]
           /\ todo' = [todo EXCEPT ![r] = @ \ {i}]
    /\ checked' = [checked EXCEPT ![r] = None]
    /\ UNCHANGED <<vars, due, rows, queried, overlap>>

(* Mutant: an error skips the escalation instead of ending the sweep. *)
SweptSoFar(r) == queried[r]

(* Every row was dealt with; any earlier return is an error. *)
Swept(r) == queried[r] /\ todo[r] = {}

-----------------------------------------------------------------------------
(* The lease around the sweep *)

Leaves(r) == phase[r] = "sweeping" /\ phase'[r] # "sweeping"

(* A run that leaves its sweep drops its rows, and returns SUCCESS only    *)
(* after all of them.                                                      *)
EndSweeps ==
    /\ \A r \in Runs : Leaves(r) /\ result'[r] = "SUCCESS" => Swept(r)
    /\ rows' = [r \in Runs |-> IF Leaves(r) THEN {} ELSE rows[r]]
    /\ todo' = [r \in Runs |-> IF Leaves(r) THEN {} ELSE todo[r]]
    /\ queried' = [r \in Runs |-> queried[r] /\ ~Leaves(r)]
    /\ checked' = [r \in Runs |-> IF Leaves(r) THEN None ELSE checked[r]]

LeaseStep ==
    /\ Next
    /\ EndSweeps
    /\ overlap' = (overlap \/ \E r \in Runs : /\ phase'[r] = "sweeping"
                                              /\ holder'[JobOf[r]] # r)
    /\ UNCHANGED <<due, sent>>

(* The clock reaches half an hour before the deadline, and the deadline. *)
DueSoon(i) ==
    /\ due[i] = "later"
    /\ due' = [due EXCEPT ![i] = "SLA_DUE_SOON"]
    /\ UNCHANGED <<vars, rows, todo, queried, checked, sent, overlap>>

Overdue(i) ==
    /\ due[i] = "SLA_DUE_SOON"
    /\ due' = [due EXCEPT ![i] = "SLA_OVERDUE"]
    /\ UNCHANGED <<vars, rows, todo, queried, checked, sent, overlap>>

(* A reviewer resolves the escalation. *)
Resolve(i) ==
    /\ due[i] # "closed"
    /\ due' = [due EXCEPT ![i] = "closed"]
    /\ UNCHANGED <<vars, rows, todo, queried, checked, sent, overlap>>

SlaNext ==
    \/ LeaseStep
    \/ \E r \in Runs : \/ QueryDue(r)
                       \/ \E i \in Items : CheckReminder(r, i)
                       \/ AppendReminder(r)
    \/ \E i \in Items : DueSoon(i) \/ Overdue(i) \/ Resolve(i)

SlaSpec == SlaInit /\ [][SlaNext]_allVars

-----------------------------------------------------------------------------
(* Properties *)

(* A sweep's progress: what it has scanned was reminded of, by it or by an *)
(* earlier sweep, and what it is about to append belongs to a row it still *)
(* has to scan.  It has rows only while it sweeps, and a row, once due, is *)
(* due or closed for good.                                                 *)
SlaInv ==
    /\ SlaTypeOK
    /\ \A r \in Runs :
           /\ rows[r] # {} => queried[r]
           /\ queried[r] => phase[r] = "sweeping"
           /\ \A i \in rows[r] : due[i] # "later"
           /\ todo[r] \subseteq rows[r]
           /\ checked[r] # None => checked[r][1] \in todo[r]
           /\ \A i \in rows[r] \ todo[r] : \E a \in Reminders : sent[i][a] > 0

(* Exclusion is what keeps reminders single: as long as every run that     *)
(* sweeps holds its lease, however runs crash, fail and follow each other, *)
(* a reminder that was sent is not sent again.                             *)
RemindedOnce ==
    ~overlap => \A i \in Items, a \in Reminders : sent[i][a] <= 1

(* A sweep that returns SUCCESS left no escalation it read as due without  *)
(* a reminder: one that could not be sent shows as FAILED in the ledger.   *)
SuccessReminds ==
    [][\A r \in Runs : Leaves(r) /\ result'[r] = "SUCCESS" =>
           \A i \in rows[r] : \E a \in Reminders : sent[i][a] > 0]_allVars

(* What the ticker's comment (jobs.go, runJob) and migration 026 say: the  *)
(* lease is the same one the HTTP endpoints take, so SLA reminders are not *)
(* duplicated by having both triggers.                                     *)
TriggersExclude ==
    \A i \in Items, a \in Reminders : sent[i][a] <= 1
=============================================================================
