----------------------------- MODULE JobLease ------------------------------
(***************************************************************************)
(* The job lease of the worker (internal/worker/jobs_lease.go) and the     *)
(* sweep ledger it closes (jobs_ledger.go), over the tables job_lease and  *)
(* job_run.                                                                *)
(*                                                                         *)
(* A run is one call of runWithJobLease.  It has a token of its own, so    *)
(* runs stand for tokens too, and it opens at most one ledger row, so runs *)
(* also stand for row ids.  Statements are split where PostgreSQL, at READ *)
(* COMMITTED, lets another statement in between:                           *)
(*   - acquireJobLease reads prev from the snapshot of its statement       *)
(*     (BeginAcquire) and writes the row once no one has it locked         *)
(*     (WinLease, LoseLease);                                              *)
(*   - openRunUnderLease locks the lease row (CheckLease) and commits the  *)
(*     ledger row and its link later (OpenCommits).                        *)
(* Time is the action Expire, free to happen at any moment, so a slow or   *)
(* partitioned holder is as possible as a dead one.                        *)
(***************************************************************************)
CONSTANTS
    Jobs,        \* lease names
    Runs,        \* calls of runWithJobLease
    JobOf,       \* JobOf[r]: the name run r passes
    TickerRuns,  \* runs whose ctx is the process context (main.go); others
                 \* come by HTTP, with context.WithoutCancel
    None         \* SQL NULL, or no row

ASSUME JobAssumption == JobOf \in [Runs -> Jobs]
ASSUME TickerAssumption == TickerRuns \subseteq Runs
ASSUME NoneAssumption == None \notin Runs

VARIABLES
    phase,      \* phase[r]: where run r is in runWithJobLease
    prevRun,    \* prevRun[r]: CTE prev, the run_id its snapshot saw
    stealable,  \* stealable[r]: the row is expired at the statement's now()
    recorded,   \* recorded[r]: runID # "" in runWithJobLease
    result,     \* result[r]: the outcome fn's error stands for
    keeper,     \* keeper[r]: the leaseKeeper goroutine is running
    cancelled,  \* cancelled[r]: the keeper cancelled runCtx
    ctxDone,    \* ctxDone[r]: the process context was cancelled (SIGTERM)
    holder,     \* job_lease.token
    expired,    \* job_lease.expires_at < now()
    leaseRun,   \* job_lease.run_id
    lock,       \* the run whose transaction has the row FOR UPDATE
    ledger      \* job_run: absent, open or its outcome

runVars == <<phase, prevRun, recorded, result, keeper, cancelled, ctxDone>>
rowVars == <<holder, expired, leaseRun, lock>>
vars == <<phase, prevRun, stealable, recorded, result, keeper, cancelled,
          ctxDone, holder, expired, leaseRun, lock, ledger>>

Phases == {"idle", "acquiring", "acquired", "opening", "sweeping",
           "finishing", "releasing", "done", "crashed"}
Outcomes == {"SUCCESS", "FAILED", "ABANDONED"}

TypeOK ==
    /\ phase \in [Runs -> Phases]
    /\ prevRun \in [Runs -> Runs \cup {None}]
    /\ stealable \in [Runs -> BOOLEAN]
    /\ recorded \in [Runs -> BOOLEAN]
    /\ result \in [Runs -> {"none", "SUCCESS", "FAILED"}]
    /\ keeper \in [Runs -> BOOLEAN]
    /\ cancelled \in [Runs -> BOOLEAN]
    /\ ctxDone \in [Runs -> BOOLEAN]
    /\ holder \in [Jobs -> Runs \cup {None}]
    /\ expired \in [Jobs -> BOOLEAN]
    /\ leaseRun \in [Jobs -> Runs \cup {None}]
    /\ lock \in [Jobs -> Runs \cup {None}]
    /\ ledger \in [Runs -> {"none", "open"} \cup Outcomes]

Init ==
    /\ phase = [r \in Runs |-> "idle"]
    /\ prevRun = [r \in Runs |-> None]
    /\ stealable = [r \in Runs |-> FALSE]
    /\ recorded = [r \in Runs |-> FALSE]
    /\ result = [r \in Runs |-> "none"]
    /\ keeper = [r \in Runs |-> FALSE]
    /\ cancelled = [r \in Runs |-> FALSE]
    /\ ctxDone = [r \in Runs |-> FALSE]
    /\ holder = [j \in Jobs |-> None]
    /\ expired = [j \in Jobs |-> FALSE]
    /\ leaseRun = [j \in Jobs |-> None]
    /\ lock = [j \in Jobs |-> None]
    /\ ledger = [r \in Runs |-> "none"]

-----------------------------------------------------------------------------
(* Helpers *)

GoTo(r, p) == phase' = [phase EXCEPT ![r] = p]

(* expires_at was just written: it lies after the now() of every statement *)
(* already in flight on this job, so none of them may steal any more.      *)
Refreshed(j) ==
    [s \in Runs |-> IF JobOf[s] = j THEN FALSE ELSE stealable[s]]

(* A statement ends: its snapshot is gone. *)
EndStatement(r) ==
    /\ prevRun' = [prevRun EXCEPT ![r] = None]
    /\ stealable' = [stealable EXCEPT ![r] = FALSE]

(* Mutant: the close without finished_at IS NULL. *)
ClosePredecessorAnyway(r) ==
    ledger' = IF prevRun[r] # None
                THEN [ledger EXCEPT ![prevRun[r]] = "ABANDONED"]
                ELSE ledger

(* Mutant: the close left to a later statement that never comes. *)
ClosePredecessorLater(r) == UNCHANGED ledger

(* CTE closed: the predecessor's row, if it is still open, is ABANDONED. *)
ClosePredecessor(r) ==
    ledger' = IF prevRun[r] # None /\ ledger[prevRun[r]] = "open"
                THEN [ledger EXCEPT ![prevRun[r]] = "ABANDONED"]
                ELSE ledger

-----------------------------------------------------------------------------
(* acquireJobLease *)

(* The statement starts: its snapshot fixes prev and its now(). *)
BeginAcquire(r) ==
    /\ phase[r] = "idle"
    /\ ~ctxDone[r]
    /\ GoTo(r, "acquiring")
    /\ prevRun' = [prevRun EXCEPT ![r] = leaseRun[JobOf[r]]]
    /\ stealable' = [stealable EXCEPT ![r] = expired[JobOf[r]]]
    /\ UNCHANGED <<recorded, result, keeper, cancelled, ctxDone, rowVars,
                   ledger>>

(* Mutant: FOR UPDATE in openRunUnderLease does not hold the upsert up. *)
MayTakeLocked(r) ==
    LET j == JobOf[r] IN
        holder[j] = None \/ (expired[j] /\ stealable[r])

(* Mutant: ON CONFLICT DO NOTHING, so an expired row is never taken. *)
MayTakeAbsent(r) ==
    LET j == JobOf[r] IN
        /\ lock[j] = None
        /\ holder[j] = None

(* The WHERE of the conflict clause, over the row's latest version. *)
MayTake(r) ==
    LET j == JobOf[r] IN
        /\ lock[j] = None
        /\ holder[j] = None \/ (expired[j] /\ stealable[r])

(* The upsert wins: take the row and close the run prev names. *)
TakeRow(r) ==
    LET j == JobOf[r] IN
        /\ holder' = [holder EXCEPT ![j] = r]
        /\ expired' = [expired EXCEPT ![j] = FALSE]
        /\ leaseRun' = [leaseRun EXCEPT ![j] = None]
        /\ ClosePredecessor(r)
        /\ prevRun' = [prevRun EXCEPT ![r] = None]
        /\ stealable' = Refreshed(j)

WinLease(r) ==
    /\ phase[r] = "acquiring"
    /\ MayTake(r)
    /\ TakeRow(r)
    /\ GoTo(r, "acquired")
    /\ UNCHANGED <<recorded, result, keeper, cancelled, ctxDone, lock>>

(* Zero rows came back: the sweep is skipped, and a later trigger calls    *)
(* again, with a token this model need not tell apart.                     *)
LoseLease(r) ==
    LET j == JobOf[r] IN
        /\ phase[r] = "acquiring"
        /\ lock[j] = None
        /\ ~MayTake(r)
        /\ GoTo(r, "idle")
        /\ EndStatement(r)
        /\ UNCHANGED <<recorded, result, keeper, cancelled, ctxDone, rowVars,
                       ledger>>

(* The statement failed: no sweep, nothing written. *)
AcquireFails(r) ==
    /\ phase[r] = "acquiring"
    /\ GoTo(r, "idle")
    /\ EndStatement(r)
    /\ UNCHANGED <<recorded, result, keeper, cancelled, ctxDone, rowVars,
                   ledger>>

(* The statement committed and its answer was lost: no sweep, and a lease  *)
(* nobody renews.                                                          *)
AcquireAnswerLost(r) ==
    /\ phase[r] = "acquiring"
    /\ MayTake(r)
    /\ TakeRow(r)
    /\ GoTo(r, "done")
    /\ UNCHANGED <<recorded, result, keeper, cancelled, ctxDone, lock>>

-----------------------------------------------------------------------------
(* openRunUnderLease *)

(* SELECT ... FOR UPDATE found the token, unexpired at the transaction's   *)
(* now(); the row stays locked until the transaction ends.                 *)
CheckLease(r) ==
    LET j == JobOf[r] IN
        /\ phase[r] = "acquired"
        /\ ~ctxDone[r]
        /\ lock[j] = None
        /\ holder[j] = r /\ ~expired[j]
        /\ lock' = [lock EXCEPT ![j] = r]
        /\ GoTo(r, "opening")
        /\ UNCHANGED <<prevRun, stealable, recorded, result, keeper,
                       cancelled, ctxDone, holder, expired, leaseRun, ledger>>

(* Displaced before the sweep started: no sweep, no release. *)
FindDisplaced(r) ==
    LET j == JobOf[r] IN
        /\ phase[r] = "acquired"
        /\ ~ctxDone[r]
        /\ lock[j] = None
        /\ holder[j] # r \/ expired[j]
        /\ GoTo(r, "done")
        /\ UNCHANGED <<prevRun, stealable, recorded, result, keeper,
                       cancelled, ctxDone, rowVars, ledger>>

Unlocked(r) == [j \in Jobs |-> IF lock[j] = r THEN None ELSE lock[j]]

(* Begin, a statement or the commit failed and the transaction rolled      *)
(* back: the sweep runs all the same, unrecorded.                          *)
OpenFails(r) ==
    /\ phase[r] \in {"acquired", "opening"}
    /\ lock' = Unlocked(r)
    /\ GoTo(r, "sweeping")
    /\ keeper' = [keeper EXCEPT ![r] = TRUE]
    /\ UNCHANGED <<prevRun, stealable, recorded, result, cancelled, ctxDone,
                   holder, expired, leaseRun, ledger>>

(* The commit took effect.  known = FALSE: its answer was lost, so the run *)
(* goes on with no id for the row that now exists.                         *)
OpenCommits(r, known) ==
    LET j == JobOf[r] IN
        /\ phase[r] = "opening"
        /\ ledger' = [ledger EXCEPT ![r] = "open"]
        /\ leaseRun' = [leaseRun EXCEPT ![j] = r]
        /\ recorded' = [recorded EXCEPT ![r] = known]
        /\ lock' = Unlocked(r)
        /\ GoTo(r, "sweeping")
        /\ keeper' = [keeper EXCEPT ![r] = TRUE]
        /\ UNCHANGED <<prevRun, stealable, result, cancelled, ctxDone,
                       holder, expired>>

-----------------------------------------------------------------------------
(* startLeaseKeeper.  A renewal that fails changes nothing, so it is a     *)
(* stuttering step; one that fails after it committed is RenewHeld.        *)

RenewHeld(r) ==
    LET j == JobOf[r] IN
        /\ keeper[r] /\ ~ctxDone[r]
        /\ holder[j] = r
        /\ expired' = [expired EXCEPT ![j] = FALSE]
        /\ stealable' = Refreshed(j)
        /\ UNCHANGED <<runVars, holder, leaseRun, lock, ledger>>

(* Mutant: a lost lease ends the renewals but not the sweep. *)
RenewLostQuietly(r) ==
    /\ keeper[r] /\ ~ctxDone[r]
    /\ holder[JobOf[r]] # r
    /\ keeper' = [keeper EXCEPT ![r] = FALSE]
    /\ UNCHANGED <<phase, prevRun, stealable, recorded, result, cancelled,
                   ctxDone, rowVars, ledger>>

(* Zero rows: the lease went to someone else, so the run is cancelled. *)
RenewLost(r) ==
    /\ keeper[r] /\ ~ctxDone[r]
    /\ holder[JobOf[r]] # r
    /\ cancelled' = [cancelled EXCEPT ![r] = TRUE]
    /\ keeper' = [keeper EXCEPT ![r] = FALSE]
    /\ UNCHANGED <<phase, prevRun, stealable, recorded, result, ctxDone,
                   rowVars, ledger>>

(* The goroutine notices Stop or a cancelled context, possibly after one   *)
(* more renewal.                                                           *)
KeeperExits(r) ==
    /\ keeper[r]
    /\ phase[r] # "sweeping" \/ ctxDone[r]
    /\ keeper' = [keeper EXCEPT ![r] = FALSE]
    /\ UNCHANGED <<phase, prevRun, stealable, recorded, result, cancelled,
                   ctxDone, rowVars, ledger>>

-----------------------------------------------------------------------------
(* The sweep, finishJobRun and releaseJobLease *)

SweepReturns(r, outcome) ==
    /\ phase[r] = "sweeping"
    /\ result' = [result EXCEPT ![r] = outcome]
    /\ cancelled' = [cancelled EXCEPT ![r] = FALSE]
    /\ GoTo(r, "finishing")
    /\ UNCHANGED <<prevRun, stealable, recorded, keeper, ctxDone, rowVars,
                   ledger>>

(* Nothing reads a run's locals from here on. *)
ForgetLocals(r) ==
    /\ recorded' = [recorded EXCEPT ![r] = FALSE]
    /\ result' = [result EXCEPT ![r] = "none"]

(* UPDATE job_run WHERE id: whatever the row says by now is overwritten. *)
FinishJobRun(r) ==
    /\ phase[r] = "finishing"
    /\ recorded[r] /\ ~ctxDone[r]
    /\ ledger' = [ledger EXCEPT ![r] = result[r]]
    /\ GoTo(r, "releasing")
    /\ ForgetLocals(r)
    /\ UNCHANGED <<prevRun, stealable, keeper, cancelled, ctxDone, rowVars>>

(* No id, or the statement failed: logged, and the run goes on. *)
FinishSkipped(r) ==
    /\ phase[r] = "finishing"
    /\ GoTo(r, "releasing")
    /\ ForgetLocals(r)
    /\ UNCHANGED <<prevRun, stealable, keeper, cancelled, ctxDone, rowVars,
                   ledger>>

(* Mutant: DELETE ... WHERE job_name, whoever holds the row. *)
ReleaseAnyone(r) ==
    LET j == JobOf[r] IN
        /\ phase[r] = "releasing"
        /\ ~ctxDone[r]
        /\ lock[j] = None
        /\ holder' = [holder EXCEPT ![j] = None]
        /\ expired' = [expired EXCEPT ![j] = FALSE]
        /\ leaseRun' = [leaseRun EXCEPT ![j] = None]
        /\ GoTo(r, "done")
        /\ UNCHANGED <<prevRun, stealable, recorded, result, keeper,
                       cancelled, ctxDone, lock, ledger>>

(* DELETE ... WHERE token: the row goes, and the run id with it. *)
ReleaseHeld(r) ==
    LET j == JobOf[r] IN
        /\ phase[r] = "releasing"
        /\ ~ctxDone[r]
        /\ holder[j] = r
        /\ holder' = [holder EXCEPT ![j] = None]
        /\ expired' = [expired EXCEPT ![j] = FALSE]
        /\ leaseRun' = [leaseRun EXCEPT ![j] = None]
        /\ GoTo(r, "done")
        /\ UNCHANGED <<prevRun, stealable, recorded, result, keeper,
                       cancelled, ctxDone, lock, ledger>>

(* The row is a successor's, or the statement failed. *)
ReleaseSkipped(r) ==
    /\ phase[r] = "releasing"
    /\ GoTo(r, "done")
    /\ UNCHANGED <<prevRun, stealable, recorded, result, keeper, cancelled,
                   ctxDone, rowVars, ledger>>

-----------------------------------------------------------------------------
(* The environment *)

(* The database clock passes expires_at. *)
Expire(j) ==
    /\ holder[j] # None /\ ~expired[j]
    /\ expired' = [expired EXCEPT ![j] = TRUE]
    /\ UNCHANGED <<runVars, stealable, holder, leaseRun, lock, ledger>>

(* SIGTERM: the process context of a ticker run is cancelled, and every    *)
(* later statement of that run fails at once.                              *)
Shutdown(r) ==
    /\ r \in TickerRuns
    /\ ~ctxDone[r]
    /\ phase[r] \notin {"done", "crashed"}
    /\ ctxDone' = [ctxDone EXCEPT ![r] = TRUE]
    /\ UNCHANGED <<phase, prevRun, stealable, recorded, result, keeper,
                   cancelled, rowVars, ledger>>

(* The process dies: its open transaction rolls back, all else stays. *)
Crash(r) ==
    /\ phase[r] \notin {"idle", "done", "crashed"}
    /\ GoTo(r, "crashed")
    /\ keeper' = [keeper EXCEPT ![r] = FALSE]
    /\ cancelled' = [cancelled EXCEPT ![r] = FALSE]
    /\ lock' = Unlocked(r)
    /\ EndStatement(r)
    /\ ForgetLocals(r)
    /\ UNCHANGED <<ctxDone, holder, expired, leaseRun, ledger>>

-----------------------------------------------------------------------------
RunStep(r) ==
    \/ BeginAcquire(r)
    \/ WinLease(r)
    \/ LoseLease(r)
    \/ AcquireFails(r)
    \/ AcquireAnswerLost(r)
    \/ CheckLease(r)
    \/ FindDisplaced(r)
    \/ OpenFails(r)
    \/ \E known \in BOOLEAN : OpenCommits(r, known)
    \/ RenewHeld(r)
    \/ RenewLost(r)
    \/ KeeperExits(r)
    \/ \E outcome \in {"SUCCESS", "FAILED"} : SweepReturns(r, outcome)
    \/ FinishJobRun(r)
    \/ FinishSkipped(r)
    \/ ReleaseHeld(r)
    \/ ReleaseSkipped(r)

(* Every modelled run is over: only the bound on runs stops the worker. *)
Exhausted ==
    /\ \A r \in Runs : \/ phase[r] \in {"done", "crashed"}
                       \/ phase[r] = "idle" /\ ctxDone[r]
    /\ UNCHANGED vars

Next ==
    \/ \E r \in Runs : RunStep(r)
    \/ \E j \in Jobs : Expire(j)
    \/ \E r \in Runs : Shutdown(r)
    \/ \E r \in Runs : Crash(r)
    \/ Exhausted

Spec == Init /\ [][Next]_vars

-----------------------------------------------------------------------------
(* Fairness.  A process that is not killed goes on; SweepReturns is left   *)
(* out unless the context of the sweep is cancelled, for nothing bounds a  *)
(* sweep.  A failed acquisition is tried again at the next tick and the    *)
(* database does not fail all of them: strong fairness on the win.  Time   *)
(* passes: a lease no keeper renews expires.                               *)

ExpireDead(j) ==
    /\ Expire(j)
    /\ ~keeper[holder[j]]

AcquireEnds(r) == LoseLease(r) \/ AcquireFails(r) \/ WinLease(r)

OpenEnds(r) ==
    \/ FindDisplaced(r)
    \/ OpenFails(r)
    \/ \E known \in BOOLEAN : OpenCommits(r, known)

CancelledSweepReturns(r) ==
    /\ cancelled[r] \/ ctxDone[r]
    /\ \E outcome \in {"SUCCESS", "FAILED"} : SweepReturns(r, outcome)

RunFairness(r) ==
    /\ WF_vars(BeginAcquire(r))
    /\ WF_vars(AcquireEnds(r))
    /\ SF_vars(WinLease(r))
    /\ WF_vars(OpenEnds(r))
    /\ WF_vars(RenewLost(r))
    /\ WF_vars(CancelledSweepReturns(r))
    /\ WF_vars(FinishJobRun(r) \/ FinishSkipped(r))
    /\ WF_vars(ReleaseHeld(r) \/ ReleaseSkipped(r))

FairSpec ==
    /\ Spec
    /\ \A r \in Runs : RunFairness(r)
    /\ \A j \in Jobs : WF_vars(ExpireDead(j))

-----------------------------------------------------------------------------
(* Properties *)

(* The run id in a lease row is its holder's own and is in the ledger, so  *)
(* an expired lease identifies the row its dead holder left open           *)
(* (migration 026, run_id).                                                *)
LeaseRunIsHolders ==
    \A j \in Jobs : leaseRun[j] # None =>
        /\ leaseRun[j] = holder[j]
        /\ ledger[leaseRun[j]] # "none"

(* Only the opening transaction of the holder itself has the row locked:   *)
(* FOR UPDATE keeps the token check and the writes together.               *)
LockIsHolders ==
    /\ \A j \in Jobs : lock[j] # None =>
           /\ lock[j] = holder[j]
           /\ JobOf[lock[j]] = j
           /\ phase[lock[j]] = "opening"
    /\ \A r \in Runs : phase[r] = "opening" => lock[JobOf[r]] = r

(* No ledger row before the open commits; a run that knows its row still   *)
(* has to close it, and no one but a takeover closed it before.            *)
LedgerMatchesPhase ==
    \A r \in Runs :
        /\ phase[r] \in {"idle", "acquiring", "acquired", "opening"} =>
               ledger[r] = "none"
        /\ recorded[r] => /\ phase[r] \in {"sweeping", "finishing"}
                          /\ ledger[r] \in {"open", "ABANDONED"}
        /\ phase[r] = "finishing" => result[r] \in {"SUCCESS", "FAILED"}

(* The inductive invariant.  LeaseRunIsHolders alone is not one: the open  *)
(* transaction writes run_id without looking at the token again, so that   *)
(* it writes its own row depends on LockIsHolders.                         *)
LeaseInv ==
    /\ TypeOK
    /\ LeaseRunIsHolders
    /\ LockIsHolders
    /\ LedgerMatchesPhase

(* A closed run keeps its outcome: nobody rewrites SUCCESS or FAILED, a    *)
(* takeover touches open rows only, and ABANDONED gives way to nobody but  *)
(* the run itself, when it turns out to have been slow and not dead.       *)
OutcomeStands ==
    [][\A r \in Runs : ledger[r] \in Outcomes /\ ledger'[r] # ledger[r] =>
           /\ ledger[r] = "ABANDONED"
           /\ phase[r] = "finishing"
           /\ ledger'[r] = result[r]]_vars

(* An open run loses its reference only if its own finishing statement     *)
(* failed before its release, or if the takeover's snapshot was older than *)
(* the row: a takeover that saw the run closes it in the same statement.   *)
LosesReference(r) ==
    LET j == JobOf[r] IN
        leaseRun[j] = r /\ leaseRun'[j] # r /\ ledger'[r] = "open"

OvertakenUnseen(r) ==
    \E s \in Runs : /\ phase[s] = "acquiring" /\ phase'[s] # "acquiring"
                    /\ holder'[JobOf[r]] = s
                    /\ prevRun[s] # r

OpenRunKeepsItsLease ==
    [][\A r \in Runs : LosesReference(r) =>
           phase[r] = "releasing" \/ OvertakenUnseen(r)]_vars

(* An unexpired lease is neither stolen nor deleted by another run, late   *)
(* renewals and late releases of displaced holders included, and a crashed *)
(* holder's lease is only ever stolen: the row does what an abstract lease *)
(* does.                                                                   *)
AbstractLease == INSTANCE Lease WITH over <- {r \in Runs : phase[r] = "done"}
ImplementsLease == AbstractLease!LeaseSpec

(* What acquireJobLease's comment says: the only row that loses its        *)
(* reference is one already closed, so a crashed run that is open is still *)
(* named by its lease and a later holder can close it.                     *)
CrashedRunIsReferenced ==
    \A r \in Runs : phase[r] = "crashed" /\ ledger[r] = "open" =>
        leaseRun[JobOf[r]] = r

(* A crash anywhere leaves a lease that expires (runWithJobLease): the     *)
(* open run a dead holder's lease names is closed by a later trigger, as   *)
(* long as the job still has triggers.                                     *)
Successors(r) ==
    {s \in Runs \ {r} : /\ JobOf[s] = JobOf[r]
                        /\ phase[s] \in {"idle", "acquiring"}
                        /\ ~ctxDone[s]}

CrashedRunIsClosed ==
    \A r \in Runs :
        (phase[r] = "crashed" /\ ledger[r] = "open" /\ leaseRun[JobOf[r]] = r)
            ~> (ledger[r] # "open" \/ Successors(r) = {})

(* A sweep whose lease was taken by another run does not go on for ever:   *)
(* its keeper learns of it and cancels it (startLeaseKeeper).              *)
DisplacedSweepStops ==
    \A r \in Runs :
        (phase[r] = "sweeping" /\ keeper[r] /\ holder[JobOf[r]] # r)
            ~> phase[r] # "sweeping"

=============================================================================
