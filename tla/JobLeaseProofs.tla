--------------------------- MODULE JobLeaseProofs --------------------------
(***************************************************************************)
(* Proofs about JobLease and about SlaMonitor, which runs a sweep under    *)
(* it, for every set of runs, jobs and escalations.  Of the lease: the     *)
(* inductive invariant, the two ledger properties, and the refinement of   *)
(* Lease.  Of the sweep: what it has scanned was reminded of, and sweeps   *)
(* that hold the lease they share remind once.                             *)
(***************************************************************************)
EXTENDS SlaMonitor, TLAPS

(* The type invariant and the facts it rests on, one step per action. *)
LEMMA TypeInductive ==
    ASSUME TypeOK, [Next]_vars
    PROVE  TypeOK'
<1> USE JobAssumption, NoneAssumption DEF TypeOK, Phases, Outcomes
<1>1. ASSUME NEW r \in Runs, BeginAcquire(r)
      PROVE  TypeOK'
  BY <1>1 DEF BeginAcquire, GoTo, rowVars
<1>2. ASSUME NEW r \in Runs, TakeRow(r)
      PROVE  /\ holder' \in [Jobs -> Runs \cup {None}]
             /\ expired' \in [Jobs -> BOOLEAN]
             /\ leaseRun' \in [Jobs -> Runs \cup {None}]
             /\ ledger' \in [Runs -> {"none", "open"} \cup Outcomes]
             /\ prevRun' \in [Runs -> Runs \cup {None}]
             /\ stealable' \in [Runs -> BOOLEAN]
  BY <1>2 DEF TakeRow, ClosePredecessor, Refreshed
<1>3. ASSUME NEW r \in Runs, WinLease(r) \/ AcquireAnswerLost(r)
      PROVE  TypeOK'
  BY <1>2, <1>3 DEF WinLease, AcquireAnswerLost, GoTo
<1>4. ASSUME NEW r \in Runs, LoseLease(r) \/ AcquireFails(r)
      PROVE  TypeOK'
  BY <1>4 DEF LoseLease, AcquireFails, GoTo, EndStatement, rowVars
<1>5. ASSUME NEW r \in Runs, CheckLease(r) \/ FindDisplaced(r)
      PROVE  TypeOK'
  BY <1>5 DEF CheckLease, FindDisplaced, GoTo, rowVars
<1>6. ASSUME NEW r \in Runs, OpenFails(r)
      PROVE  TypeOK'
  BY <1>6 DEF OpenFails, GoTo, Unlocked
<1>7. ASSUME NEW r \in Runs, NEW known \in BOOLEAN, OpenCommits(r, known)
      PROVE  TypeOK'
  BY <1>7 DEF OpenCommits, GoTo, Unlocked
<1>8. ASSUME NEW r \in Runs, RenewHeld(r) \/ RenewLost(r) \/ KeeperExits(r)
      PROVE  TypeOK'
  <2>1. CASE RenewHeld(r)
    <3>1. /\ expired' \in [Jobs -> BOOLEAN]
          /\ stealable' \in [Runs -> BOOLEAN]
      BY <2>1 DEF RenewHeld, Refreshed
    <3>2. QED
      BY <2>1, <3>1 DEF RenewHeld, runVars
  <2>2. CASE RenewLost(r)
    BY <2>2 DEF RenewLost, rowVars
  <2>3. CASE KeeperExits(r)
    BY <2>3 DEF KeeperExits, rowVars
  <2>4. QED
    BY <1>8, <2>1, <2>2, <2>3
<1>9. ASSUME NEW r \in Runs, NEW outcome \in {"SUCCESS", "FAILED"},
             SweepReturns(r, outcome)
      PROVE  TypeOK'
  BY <1>9 DEF SweepReturns, GoTo, rowVars
<1>10. ASSUME NEW r \in Runs, FinishJobRun(r) \/ FinishSkipped(r)
       PROVE  TypeOK'
  <2>1. CASE FinishJobRun(r)
    <3>1. ledger' \in [Runs -> {"none", "open"} \cup Outcomes]
      BY <2>1 DEF FinishJobRun
    <3>2. QED
      BY <2>1, <3>1 DEF FinishJobRun, GoTo, ForgetLocals, rowVars
  <2>2. CASE FinishSkipped(r)
    BY <2>2 DEF FinishSkipped, GoTo, ForgetLocals, rowVars
  <2>3. QED
    BY <1>10, <2>1, <2>2
<1>11. ASSUME NEW r \in Runs, ReleaseHeld(r) \/ ReleaseSkipped(r)
       PROVE  TypeOK'
  BY <1>11 DEF ReleaseHeld, ReleaseSkipped, GoTo, rowVars
<1>12. ASSUME NEW j \in Jobs, Expire(j)
       PROVE  TypeOK'
  BY <1>12 DEF Expire, runVars
<1>13. ASSUME NEW r \in Runs, Shutdown(r) \/ Crash(r)
       PROVE  TypeOK'
  <2>1. CASE Shutdown(r)
    BY <2>1 DEF Shutdown, rowVars
  <2>2. CASE Crash(r)
    BY <2>2 DEF Crash, GoTo, Unlocked, EndStatement, ForgetLocals
  <2>3. QED
    BY <1>13, <2>1, <2>2
<1>14. CASE UNCHANGED vars
  BY <1>14 DEF vars
<1>15. CASE Next
  BY <1>1, <1>3, <1>4, <1>5, <1>6, <1>7, <1>8, <1>9, <1>10, <1>11, <1>12,
     <1>13, <1>14, <1>15 DEF Next, RunStep, Exhausted
<1>16. QED
  BY <1>14, <1>15

-----------------------------------------------------------------------------
(* The row lock belongs to the opening transaction of the lease's holder:  *)
(* everyone who writes the holder waits for the lock, or is the holder and *)
(* past its opening transaction.                                           *)
LEMMA LockInductive ==
    ASSUME TypeOK, LockIsHolders, [Next]_vars
    PROVE  LockIsHolders'
<1> USE JobAssumption, NoneAssumption DEF TypeOK, LockIsHolders
<1>1. ASSUME NEW r \in Runs, BeginAcquire(r) \/ LoseLease(r) \/ AcquireFails(r)
      PROVE  LockIsHolders'
  BY <1>1 DEF BeginAcquire, LoseLease, AcquireFails, GoTo, rowVars
<1>2. ASSUME NEW r \in Runs, WinLease(r) \/ AcquireAnswerLost(r)
      PROVE  LockIsHolders'
  BY <1>2 DEF WinLease, AcquireAnswerLost, MayTake, TakeRow, GoTo
<1>3. ASSUME NEW r \in Runs, CheckLease(r) \/ FindDisplaced(r)
      PROVE  LockIsHolders'
  <2>1. CASE CheckLease(r)
    BY <2>1 DEF CheckLease, GoTo
  <2>2. CASE FindDisplaced(r)
    BY <2>2 DEF FindDisplaced, GoTo, rowVars
  <2>3. QED
    BY <1>3, <2>1, <2>2
<1>4. ASSUME NEW r \in Runs, OpenFails(r)
      PROVE  LockIsHolders'
  BY <1>4 DEF OpenFails, GoTo, Unlocked
<1>5. ASSUME NEW r \in Runs, NEW known \in BOOLEAN, OpenCommits(r, known)
      PROVE  LockIsHolders'
  BY <1>5 DEF OpenCommits, GoTo, Unlocked
<1>6. ASSUME NEW r \in Runs, RenewHeld(r) \/ RenewLost(r) \/ KeeperExits(r)
      PROVE  LockIsHolders'
  BY <1>6 DEF RenewHeld, RenewLost, KeeperExits, runVars, rowVars
<1>7. ASSUME NEW r \in Runs, NEW outcome \in {"SUCCESS", "FAILED"},
             SweepReturns(r, outcome)
      PROVE  LockIsHolders'
  BY <1>7 DEF SweepReturns, GoTo, rowVars
<1>8. ASSUME NEW r \in Runs, FinishJobRun(r) \/ FinishSkipped(r)
      PROVE  LockIsHolders'
  BY <1>8 DEF FinishJobRun, FinishSkipped, GoTo, rowVars
<1>9. ASSUME NEW r \in Runs, ReleaseHeld(r) \/ ReleaseSkipped(r)
      PROVE  LockIsHolders'
  <2>1. CASE ReleaseHeld(r)
    BY <2>1 DEF ReleaseHeld, GoTo
  <2>2. CASE ReleaseSkipped(r)
    BY <2>2 DEF ReleaseSkipped, GoTo, rowVars
  <2>3. QED
    BY <1>9, <2>1, <2>2
<1>10. ASSUME NEW j \in Jobs, Expire(j)
       PROVE  LockIsHolders'
  BY <1>10 DEF Expire, runVars
<1>11. ASSUME NEW r \in Runs, Shutdown(r) \/ Crash(r)
       PROVE  LockIsHolders'
  <2>1. CASE Shutdown(r)
    BY <2>1 DEF Shutdown, rowVars
  <2>2. CASE Crash(r)
    BY <2>2 DEF Crash, GoTo, Unlocked
  <2>3. QED
    BY <1>11, <2>1, <2>2
<1>12. CASE UNCHANGED vars
  BY <1>12 DEF vars
<1>13. QED
  BY <1>1, <1>2, <1>3, <1>4, <1>5, <1>6, <1>7, <1>8, <1>9, <1>10, <1>11,
     <1>12 DEF Next, RunStep, Exhausted

(* The run id of a lease is its holder's own: the takeover clears it with  *)
(* the token, and the open that writes it still holds the lock.            *)
LEMMA LeaseRunInductive ==
    ASSUME TypeOK, LockIsHolders, LeaseRunIsHolders, LedgerMatchesPhase,
           [Next]_vars
    PROVE  LeaseRunIsHolders'
<1> USE JobAssumption, NoneAssumption DEF TypeOK, LeaseRunIsHolders
<1>1. ASSUME NEW r \in Runs,
             \/ BeginAcquire(r) \/ LoseLease(r) \/ AcquireFails(r)
             \/ CheckLease(r) \/ FindDisplaced(r) \/ OpenFails(r)
      PROVE  LeaseRunIsHolders'
  BY <1>1 DEF BeginAcquire, LoseLease, AcquireFails, CheckLease,
              FindDisplaced, OpenFails, rowVars
<1>2. ASSUME NEW r \in Runs, TakeRow(r)
      PROVE  LeaseRunIsHolders'
  BY <1>2 DEF TakeRow, ClosePredecessor
<1>3. ASSUME NEW r \in Runs, NEW known \in BOOLEAN, OpenCommits(r, known)
      PROVE  LeaseRunIsHolders'
  <2>1. holder[JobOf[r]] = r
    BY <1>3 DEF OpenCommits, LockIsHolders
  <2>2. QED
    BY <1>3, <2>1 DEF OpenCommits
<1>4. ASSUME NEW r \in Runs,
             \/ RenewHeld(r) \/ RenewLost(r) \/ KeeperExits(r)
             \/ FinishSkipped(r) \/ ReleaseSkipped(r) \/ Shutdown(r)
             \/ Crash(r)
      PROVE  LeaseRunIsHolders'
  BY <1>4 DEF RenewHeld, RenewLost, KeeperExits, FinishSkipped,
              ReleaseSkipped, Shutdown, Crash, runVars, rowVars
<1>5. ASSUME NEW r \in Runs, NEW outcome \in {"SUCCESS", "FAILED"},
             SweepReturns(r, outcome)
      PROVE  LeaseRunIsHolders'
  BY <1>5 DEF SweepReturns, rowVars
<1>6. ASSUME NEW r \in Runs, FinishJobRun(r)
      PROVE  LeaseRunIsHolders'
  BY <1>6 DEF FinishJobRun, LedgerMatchesPhase, rowVars
<1>7. ASSUME NEW r \in Runs, ReleaseHeld(r)
      PROVE  LeaseRunIsHolders'
  BY <1>7 DEF ReleaseHeld
<1>8. ASSUME NEW j \in Jobs, Expire(j)
      PROVE  LeaseRunIsHolders'
  BY <1>8 DEF Expire
<1>9. CASE UNCHANGED vars
  BY <1>9 DEF vars
<1>10. QED
  BY <1>1, <1>2, <1>3, <1>4, <1>5, <1>6, <1>7, <1>8, <1>9
     DEF Next, RunStep, Exhausted, WinLease, AcquireAnswerLost

(* The ledger follows the run: a takeover closes open rows only, and only  *)
(* the run itself closes its row after that.                               *)
LEMMA LedgerInductive ==
    ASSUME TypeOK, LedgerMatchesPhase, [Next]_vars
    PROVE  LedgerMatchesPhase'
<1> USE JobAssumption, NoneAssumption DEF TypeOK, LedgerMatchesPhase
<1>1. ASSUME NEW r \in Runs, BeginAcquire(r) \/ LoseLease(r) \/ AcquireFails(r)
      PROVE  LedgerMatchesPhase'
  BY <1>1 DEF BeginAcquire, LoseLease, AcquireFails, GoTo
<1>2. ASSUME NEW r \in Runs, WinLease(r) \/ AcquireAnswerLost(r)
      PROVE  LedgerMatchesPhase'
  <2>1. \A s \in Runs : \/ ledger'[s] = ledger[s]
                        \/ ledger[s] = "open" /\ ledger'[s] = "ABANDONED"
    BY <1>2 DEF WinLease, AcquireAnswerLost, TakeRow, ClosePredecessor
  <2>2. QED
    BY <1>2, <2>1 DEF WinLease, AcquireAnswerLost, GoTo
<1>3. ASSUME NEW r \in Runs,
             CheckLease(r) \/ FindDisplaced(r) \/ OpenFails(r)
      PROVE  LedgerMatchesPhase'
  BY <1>3 DEF CheckLease, FindDisplaced, OpenFails, GoTo
<1>4. ASSUME NEW r \in Runs, NEW known \in BOOLEAN, OpenCommits(r, known)
      PROVE  LedgerMatchesPhase'
  BY <1>4 DEF OpenCommits, GoTo
<1>5. ASSUME NEW r \in Runs, RenewHeld(r) \/ RenewLost(r) \/ KeeperExits(r)
      PROVE  LedgerMatchesPhase'
  BY <1>5 DEF RenewHeld, RenewLost, KeeperExits, runVars
<1>6. ASSUME NEW r \in Runs, NEW outcome \in {"SUCCESS", "FAILED"},
             SweepReturns(r, outcome)
      PROVE  LedgerMatchesPhase'
  BY <1>6 DEF SweepReturns, GoTo
<1>7. ASSUME NEW r \in Runs, FinishJobRun(r) \/ FinishSkipped(r)
      PROVE  LedgerMatchesPhase'
  <2>1. \A s \in Runs : s # r => /\ phase'[s] = phase[s]
                                /\ ledger'[s] = ledger[s]
                                /\ recorded'[s] = recorded[s]
                                /\ result'[s] = result[s]
    BY <1>7 DEF FinishJobRun, FinishSkipped, GoTo, ForgetLocals
  <2>2. phase'[r] = "releasing" /\ ~recorded'[r]
    BY <1>7 DEF FinishJobRun, FinishSkipped, GoTo, ForgetLocals
  <2>3. QED
    BY <2>1, <2>2
<1>8. ASSUME NEW r \in Runs, ReleaseHeld(r) \/ ReleaseSkipped(r)
      PROVE  LedgerMatchesPhase'
  BY <1>8 DEF ReleaseHeld, ReleaseSkipped, GoTo
<1>9. ASSUME NEW j \in Jobs, Expire(j)
      PROVE  LedgerMatchesPhase'
  BY <1>9 DEF Expire, runVars
<1>10. ASSUME NEW r \in Runs, Shutdown(r) \/ Crash(r)
       PROVE  LedgerMatchesPhase'
  BY <1>10 DEF Shutdown, Crash, GoTo, ForgetLocals
<1>11. CASE UNCHANGED vars
  BY <1>11 DEF vars
<1>12. QED
  BY <1>1, <1>2, <1>3, <1>4, <1>5, <1>6, <1>7, <1>8, <1>9, <1>10, <1>11
     DEF Next, RunStep, Exhausted

-----------------------------------------------------------------------------
(* The inductive invariant holds throughout: types, the lease's run id and *)
(* lock belonging to its holder, and the ledger following the run.         *)
THEOREM LeaseInvariant == Spec => []LeaseInv
<1>1. Init => LeaseInv
  BY JobAssumption, NoneAssumption
     DEF Init, LeaseInv, TypeOK, LeaseRunIsHolders, LockIsHolders,
         LedgerMatchesPhase, Phases, Outcomes
<1>2. LeaseInv /\ [Next]_vars => LeaseInv'
  BY TypeInductive, LockInductive, LeaseRunInductive, LedgerInductive
     DEF LeaseInv
<1>3. QED
  BY <1>1, <1>2, PTL DEF Spec

(* An expired lease identifies the row its dead holder left open.          *)
THEOREM LeaseRunTheorem == Spec => []LeaseRunIsHolders
<1>1. LeaseInv => LeaseRunIsHolders
  BY DEF LeaseInv
<1>2. QED
  BY <1>1, LeaseInvariant, PTL

(* A closed run keeps its outcome, whatever takeovers and late finishing   *)
(* statements of other runs do.                                            *)
THEOREM OutcomeTheorem == Spec => OutcomeStands
<1> DEFINE Kept == \A r \in Runs :
                     ledger[r] \in Outcomes /\ ledger'[r] # ledger[r] =>
                       /\ ledger[r] = "ABANDONED"
                       /\ phase[r] = "finishing"
                       /\ ledger'[r] = result[r]
<1>1. ASSUME LeaseInv, [Next]_vars
      PROVE  Kept
  <2> USE <1>1, JobAssumption, NoneAssumption DEF LeaseInv, TypeOK, Outcomes
  <2>1. ASSUME NEW r \in Runs, TakeRow(r)
        PROVE  Kept
    <3>1. \A s \in Runs : ledger'[s] = ledger[s] \/ ledger[s] = "open"
      BY <2>1 DEF TakeRow, ClosePredecessor
    <3>2. QED
      BY <3>1
  <2>2. ASSUME NEW r \in Runs, NEW known \in BOOLEAN, OpenCommits(r, known)
        PROVE  Kept
    <3>1. ledger[r] = "none"
      BY <2>2 DEF OpenCommits, LedgerMatchesPhase
    <3>2. QED
      BY <2>2, <3>1 DEF OpenCommits
  <2>3. ASSUME NEW r \in Runs, FinishJobRun(r)
        PROVE  Kept
    <3>1. ledger[r] \in {"open", "ABANDONED"}
      BY <2>3 DEF FinishJobRun, LedgerMatchesPhase
    <3>2. \A s \in Runs : s # r => ledger'[s] = ledger[s]
      BY <2>3 DEF FinishJobRun
    <3>3. phase[r] = "finishing" /\ ledger'[r] = result[r]
      BY <2>3 DEF FinishJobRun
    <3>4. QED
      BY <3>1, <3>2, <3>3
  <2>4. CASE ledger' = ledger
    BY <2>4
  <2>5. ASSUME NEW r \in Runs, RunStep(r)
        PROVE  Kept
    BY <2>1, <2>2, <2>3, <2>4, <2>5
       DEF RunStep, BeginAcquire, WinLease, LoseLease, AcquireFails,
           AcquireAnswerLost, CheckLease, FindDisplaced, OpenFails, RenewHeld,
           RenewLost, KeeperExits, SweepReturns, FinishSkipped, ReleaseHeld,
           ReleaseSkipped
  <2>6. QED
    BY <2>4, <2>5 DEF Next, Expire, Shutdown, Crash, Exhausted, vars
<1>2. QED
  BY <1>1, LeaseInvariant, PTL DEF Spec, OutcomeStands

(* An open run loses its reference only by its own release or to a         *)
(* takeover whose snapshot is older than the row.                          *)
THEOREM ReferenceTheorem == Spec => OpenRunKeepsItsLease
<1> DEFINE Kept == \A r \in Runs : LosesReference(r) =>
                     phase[r] = "releasing" \/ OvertakenUnseen(r)
<1>1. ASSUME LeaseInv, [Next]_vars
      PROVE  Kept
  <2> USE <1>1, JobAssumption, NoneAssumption DEF LeaseInv, TypeOK, LosesReference
  <2>1. ASSUME NEW r \in Runs, NEW s \in Runs,
               WinLease(s) \/ AcquireAnswerLost(s),
               LosesReference(r)
        PROVE  OvertakenUnseen(r)
    <3>1. JobOf[s] = JobOf[r]
      BY <2>1 DEF WinLease, AcquireAnswerLost, TakeRow
    <3>2. prevRun[s] # r
      BY <2>1 DEF WinLease, AcquireAnswerLost, TakeRow, ClosePredecessor
    <3>3. /\ phase[s] = "acquiring" /\ phase'[s] # "acquiring"
          /\ holder'[JobOf[s]] = s
      BY <2>1 DEF WinLease, AcquireAnswerLost, TakeRow, GoTo
    <3>4. QED
      BY <3>1, <3>2, <3>3 DEF OvertakenUnseen
  <2>2. ASSUME NEW r \in Runs, NEW s \in Runs, NEW known \in BOOLEAN,
               OpenCommits(s, known), LosesReference(r)
        PROVE  FALSE
    <3>1. JobOf[s] = JobOf[r] /\ leaseRun'[JobOf[r]] = s
      BY <2>2 DEF OpenCommits
    <3>2. holder[JobOf[s]] = s
      BY <2>2 DEF OpenCommits, LockIsHolders
    <3>3. holder[JobOf[r]] = r
      BY <2>2 DEF LeaseRunIsHolders
    <3>4. QED
      BY <2>2, <3>1, <3>2, <3>3
  <2>3. ASSUME NEW r \in Runs, NEW s \in Runs, ReleaseHeld(s),
               LosesReference(r)
        PROVE  phase[r] = "releasing"
    <3>1. JobOf[s] = JobOf[r]
      BY <2>3 DEF ReleaseHeld
    <3>2. holder[JobOf[r]] = r
      BY <2>3 DEF LeaseRunIsHolders
    <3>3. QED
      BY <2>3, <3>1, <3>2 DEF ReleaseHeld
  <2>4. CASE UNCHANGED leaseRun
    BY <2>4
  <2>5. ASSUME NEW s \in Runs, RunStep(s)
        PROVE  Kept
    BY <2>1, <2>2, <2>3, <2>4, <2>5
       DEF RunStep, BeginAcquire, LoseLease, AcquireFails, CheckLease,
           FindDisplaced, OpenFails, RenewHeld, RenewLost, KeeperExits,
           SweepReturns, FinishJobRun, FinishSkipped, ReleaseSkipped, rowVars
  <2>6. QED
    BY <2>4, <2>5 DEF Next, Expire, Shutdown, Crash, Exhausted, vars, rowVars
<1>2. QED
  BY <1>1, LeaseInvariant, PTL DEF Spec, OpenRunKeepsItsLease

(* The statements of acquireJobLease, renewJobLease and releaseJobLease    *)
(* treat the row as an abstract lease: it is taken when absent or expired, *)
(* and otherwise extended and dropped by its holder alone.                 *)
THEOREM RefinementTheorem == Spec => ImplementsLease
<1> DEFINE over == {r \in Runs : phase[r] = "done"}
<1> USE DEF AbstractLease!LeaseNext, AbstractLease!leaseVars
<1>1. Init => AbstractLease!LeaseInit
  BY DEF Init, AbstractLease!LeaseInit
<1>2. ASSUME TypeOK, [Next]_vars
      PROVE  [AbstractLease!LeaseNext]_(AbstractLease!leaseVars)
  <2> USE <1>2, JobAssumption, NoneAssumption DEF TypeOK
  <2>1. ASSUME NEW r \in Runs, phase[r] # "done",
               NEW p \in Phases, GoTo(r, p)
        PROVE  over' = IF p = "done" THEN over \cup {r} ELSE over
    BY <2>1 DEF GoTo
  <2>2. ASSUME NEW r \in Runs, WinLease(r) \/ AcquireAnswerLost(r)
        PROVE  AbstractLease!LeaseNext
    <3>1. over' \in {over, over \cup {r}}
      BY <2>1, <2>2 DEF WinLease, AcquireAnswerLost, Phases
    <3>2. AbstractLease!Take(JobOf[r], r)
      BY <2>2, <3>1 DEF WinLease, AcquireAnswerLost, MayTake, TakeRow,
                        AbstractLease!Take
    <3>3. QED
      BY <3>2
  <2>3. ASSUME NEW r \in Runs, RenewHeld(r)
        PROVE  AbstractLease!LeaseNext
    <3>1. AbstractLease!Extend(JobOf[r])
      BY <2>3 DEF RenewHeld, runVars, AbstractLease!Extend
    <3>2. QED
      BY <3>1
  <2>4. ASSUME NEW r \in Runs, ReleaseHeld(r)
        PROVE  AbstractLease!LeaseNext
    <3>1. over' = over \cup {r}
      BY <2>1, <2>4 DEF ReleaseHeld, Phases
    <3>2. AbstractLease!Drop(JobOf[r])
      BY <2>4, <3>1 DEF ReleaseHeld, AbstractLease!Drop
    <3>3. QED
      BY <3>2
  <2>5. ASSUME NEW r \in Runs, FindDisplaced(r) \/ ReleaseSkipped(r)
        PROVE  AbstractLease!LeaseNext
    <3>1. over' = over \cup {r}
      BY <2>1, <2>5 DEF FindDisplaced, ReleaseSkipped, Phases
    <3>2. AbstractLease!Return(r)
      BY <2>5, <3>1 DEF FindDisplaced, ReleaseSkipped, rowVars,
                        AbstractLease!Return
    <3>3. QED
      BY <3>2
  <2>6. ASSUME NEW j \in Jobs, Expire(j)
        PROVE  AbstractLease!LeaseNext
    <3>1. AbstractLease!Lapse(j)
      BY <2>6 DEF Expire, runVars, AbstractLease!Lapse
    <3>2. QED
      BY <3>1
  <2>7. ASSUME NEW r \in Runs, NEW p \in Phases \ {"done"}, GoTo(r, p),
               phase[r] # "done", UNCHANGED <<holder, expired>>
        PROVE  UNCHANGED AbstractLease!leaseVars
    BY <2>1, <2>7
  <2>8. CASE UNCHANGED <<phase, holder, expired>>
    BY <2>8
  <2>9. ASSUME NEW r \in Runs,
               \/ BeginAcquire(r) \/ LoseLease(r) \/ AcquireFails(r)
               \/ CheckLease(r) \/ OpenFails(r)
               \/ \E known \in BOOLEAN : OpenCommits(r, known)
               \/ \E outcome \in {"SUCCESS", "FAILED"} :
                      SweepReturns(r, outcome)
               \/ FinishJobRun(r) \/ FinishSkipped(r) \/ Crash(r)
        PROVE  UNCHANGED AbstractLease!leaseVars
    <3>1. PICK p \in Phases \ {"done"} : GoTo(r, p)
      BY <2>9 DEF BeginAcquire, LoseLease, AcquireFails, CheckLease,
                  OpenFails, OpenCommits, SweepReturns, FinishJobRun,
                  FinishSkipped, Crash, Phases
    <3>2. phase[r] # "done" /\ UNCHANGED <<holder, expired>>
      BY <2>9 DEF BeginAcquire, LoseLease, AcquireFails, CheckLease,
                  OpenFails, OpenCommits, SweepReturns, FinishJobRun,
                  FinishSkipped, Crash, rowVars
    <3>3. QED
      BY <2>7, <3>1, <3>2
  <2>10. QED
    BY <2>2, <2>3, <2>4, <2>5, <2>6, <2>8, <2>9
       DEF Next, RunStep, RenewLost, KeeperExits, Shutdown, Exhausted, vars,
           rowVars
<1>3. Spec => []TypeOK
  <2>1. LeaseInv => TypeOK
    BY DEF LeaseInv
  <2>2. QED
    BY <2>1, LeaseInvariant, PTL
<1>4. QED
  BY <1>1, <1>2, <1>3, PTL DEF Spec, ImplementsLease, AbstractLease!LeaseSpec

-----------------------------------------------------------------------------
(* The sweep, from here on.  Its steps are steps of the lease, or leave    *)
(* the lease alone: what is proved of JobLease holds of its runs as well.  *)
THEOREM CompositionTheorem == SlaSpec => Spec /\ []LeaseInv
<1>1. SlaInit => Init
  BY DEF SlaInit
<1>2. [SlaNext]_allVars => [Next]_vars
  BY DEF SlaNext, LeaseStep, QueryDue, CheckReminder, AppendReminder,
         DueSoon, Overdue, Resolve, allVars
<1>3. SlaSpec => Spec
  BY <1>1, <1>2, PTL DEF SlaSpec, Spec
<1>4. QED
  BY <1>3, LeaseInvariant, PTL

(* A run sweeps while the lease of its job is its own.                     *)
SweepsHold == \A r \in Runs : phase[r] = "sweeping" => holder[JobOf[r]] = r

(* A reminder found missing is still missing.                              *)
StillMissing ==
    \A r \in Runs : checked[r] # None => sent[checked[r][1]][checked[r][2]] = 0

Alone == ~overlap => SweepsHold /\ StillMissing /\ RemindedOnce

-----------------------------------------------------------------------------
(* A lease step may end sweeps, which then drop what they have read.       *)
LEMMA LeaseKeeps ==
    ASSUME SlaInv, LeaseStep
    PROVE  SlaInv'
<1> USE DEF SlaInv, SlaTypeOK, LeaseStep, EndSweeps
<1>1. /\ rows' \in [Runs -> SUBSET Items] /\ todo' \in [Runs -> SUBSET Items]
      /\ queried' \in [Runs -> BOOLEAN]
      /\ checked' \in [Runs -> (Items \X Reminders) \cup {None}]
      /\ overlap' \in BOOLEAN
  <2>1. overlap' \in BOOLEAN
    <3>1. overlap \in BOOLEAN
      OBVIOUS
    <3>2. QED
      BY <3>1, Zenon
  <2>2. QED
    BY <2>1
<1>2. ASSUME NEW r \in Runs
      PROVE  /\ rows'[r] # {} => queried'[r]
             /\ queried'[r] => phase'[r] = "sweeping"
             /\ \A i \in rows'[r] : due'[i] # "later"
             /\ todo'[r] \subseteq rows'[r]
             /\ checked'[r] # None => checked'[r][1] \in todo'[r]
             /\ \A i \in rows'[r] \ todo'[r] : \E a \in Reminders : sent'[i][a] > 0
  <2>1. CASE Leaves(r)
    <3>1. rows'[r] = {} /\ todo'[r] = {} /\ queried'[r] = FALSE /\ checked'[r] = None
      BY <2>1
    <3>2. QED
      BY <3>1
  <2>2. CASE ~Leaves(r)
    <3>1. /\ rows'[r] = rows[r] /\ todo'[r] = todo[r] /\ queried'[r] = queried[r]
          /\ checked'[r] = checked[r] /\ sent' = sent /\ due' = due
      BY <2>2
    <3>2. queried[r] => phase'[r] = "sweeping"
      BY <2>2 DEF Leaves
    <3>3. QED
      BY <3>1, <3>2
  <2>3. QED
    BY <2>1, <2>2
<1>3. QED
  BY <1>1, <1>2

(* Reminders are appended and never removed.                               *)
LEMMA AppendKeeps ==
    ASSUME SlaInv, NEW r \in Runs, AppendReminder(r)
    PROVE  /\ SlaInv'
           /\ \E i \in Items, a \in Reminders :
                /\ checked[r] = <<i, a>> /\ checked[r] # None
                /\ sent' = [sent EXCEPT ![i][a] = @ + 1]
<1> USE BoundAssumption DEF SlaInv, SlaTypeOK
<1>1. PICK i \in Items, a \in Reminders : checked[r] = <<i, a>> /\ i \in todo[r]
  BY DEF AppendReminder
<1>2. /\ sent' = [sent EXCEPT ![i][a] = @ + 1] /\ sent[i][a] < MaxReminders
      /\ todo' = [todo EXCEPT ![r] = @ \ {i}]
      /\ checked' = [checked EXCEPT ![r] = None]
      /\ phase' = phase /\ checked[r] # None
      /\ UNCHANGED <<due, rows, queried, overlap>>
  BY <1>1 DEF AppendReminder, vars
<1>3. sent[i] \in [Reminders -> 0 .. MaxReminders]
  OBVIOUS
<1>4. \A j \in Items, b \in Reminders :
         sent'[j][b] = IF j = i /\ b = a THEN sent[i][a] + 1 ELSE sent[j][b]
  BY <1>2, <1>3
<1>5. [sent[i] EXCEPT ![a] = @ + 1] \in [Reminders -> 0 .. MaxReminders]
  BY <1>2, <1>3
<1>6. sent' \in [Items -> [Reminders -> 0 .. MaxReminders]]
  BY <1>2, <1>5
<1>7. ASSUME NEW s \in Runs
      PROVE  /\ rows'[s] # {} => queried'[s]
             /\ queried'[s] => phase'[s] = "sweeping"
             /\ \A j \in rows'[s] : due'[j] # "later"
             /\ todo'[s] \subseteq rows'[s]
             /\ checked'[s] # None => checked'[s][1] \in todo'[s]
             /\ \A j \in rows'[s] \ todo'[s] : \E b \in Reminders : sent'[j][b] > 0
  <2>1. ASSUME NEW j \in Items, \E b \in Reminders : sent[j][b] > 0
        PROVE  \E b \in Reminders : sent'[j][b] > 0
    <3>1. PICK b \in Reminders : sent[j][b] > 0
      BY <2>1
    <3>2. sent[j][b] \in Nat /\ sent[i][a] \in Nat
      BY <1>3
    <3>3. sent'[j][b] > 0
      BY <1>4, <3>1, <3>2
    <3>4. QED
      BY <3>3
  <2>2. sent'[i][a] > 0
    <3>1. sent[i][a] \in Nat
      BY <1>3
    <3>2. QED
      BY <1>4, <3>1
  <2>3. ASSUME NEW j \in rows'[s] \ todo'[s]
        PROVE  \E b \in Reminders : sent'[j][b] > 0
    <3>1. j = i \/ j \in rows[s] \ todo[s]
      BY <1>2
    <3>2. j \in Items
      BY <1>2
    <3>3. QED
      BY <2>1, <2>2, <3>1, <3>2
  <2>4. /\ todo'[s] \subseteq rows'[s]
        /\ checked'[s] # None => checked'[s][1] \in todo'[s]
    BY <1>2
  <2>5. QED
    BY <1>2, <2>3, <2>4
<1>8. SlaTypeOK'
  BY <1>2, <1>6
<1>9. QED
  BY <1>1, <1>2, <1>7, <1>8

(* A row that a sweep has read gets a reminder, whatever became of it.     *)
LEMMA Actions ==
    ASSUME SlaInv, NEW r \in Runs, NEW i \in todo[r]
    PROVE  i \in Items /\ ActionsFor(i) \subseteq Reminders
<1>1. i \in Items /\ due[i] # "later" /\ due[i] \in {"later", "closed"} \cup Reminders
  BY DEF SlaInv, SlaTypeOK
<1>2. QED
  BY <1>1 DEF ActionsFor

(* The steps that read, and the clock.                                     *)
LEMMA ReadKeeps ==
    ASSUME SlaInv,
           \/ \E r \in Runs : QueryDue(r) \/ \E i \in Items : CheckReminder(r, i)
           \/ \E i \in Items : DueSoon(i) \/ Overdue(i) \/ Resolve(i)
    PROVE  SlaInv' /\ UNCHANGED <<phase, holder, sent, overlap>>
<1> USE DEF SlaInv, SlaTypeOK
<1>1. ASSUME NEW r \in Runs, QueryDue(r)
      PROVE  SlaInv' /\ UNCHANGED <<phase, holder, sent, overlap>>
  <2>1. /\ queried' = [queried EXCEPT ![r] = TRUE]
        /\ rows' \in [Runs -> SUBSET Items] /\ todo' \in [Runs -> SUBSET Items]
        /\ rows'[r] = todo'[r] /\ \A i \in rows'[r] : due[i] # "later"
        /\ \A s \in Runs : s # r => rows'[s] = rows[s] /\ todo'[s] = todo[s]
        /\ UNCHANGED <<due, checked, sent, overlap, phase, holder>>
        /\ phase[r] = "sweeping" /\ rows[r] = {}
    <3>1. PICK read \in SUBSET Items :
            read = {i \in Items : due[i] \in Reminders}
      OBVIOUS
    <3>2. rows' = [rows EXCEPT ![r] = read] /\ todo' = [todo EXCEPT ![r] = read]
      BY <1>1, <3>1 DEF QueryDue
    <3>3. \A i \in read : due[i] # "later"
      BY <3>1 DEF Reminders
    <3>4. QED
      BY <1>1, <3>2, <3>3 DEF QueryDue, Sweeping, vars
  <2>2. checked[r] = None
    BY <2>1
  <2>3. QED
    BY <2>1, <2>2
<1>2. ASSUME NEW r \in Runs, NEW i \in Items, CheckReminder(r, i)
      PROVE  SlaInv' /\ UNCHANGED <<phase, holder, sent, overlap>>
  <2>1. PICK a \in Reminders :
          IF sent[i][a] > 0
            THEN todo' = [todo EXCEPT ![r] = @ \ {i}] /\ UNCHANGED checked
            ELSE checked' = [checked EXCEPT ![r] = <<i, a>>] /\ UNCHANGED todo
    BY <1>2, Actions DEF CheckReminder
  <2>2. /\ UNCHANGED <<phase, holder, due, rows, queried, sent, overlap>>
        /\ i \in todo[r] /\ checked[r] = None
    BY <1>2 DEF CheckReminder, vars
  <2>3. checked' \in [Runs -> (Items \X Reminders) \cup {None}]
    BY <2>1, <2>2
  <2>4. todo' \in [Runs -> SUBSET Items]
    BY <2>1, <2>2
  <2>5. ASSUME NEW s \in Runs
        PROVE  /\ todo'[s] \subseteq rows[s]
               /\ checked'[s] # None => checked'[s][1] \in todo'[s]
               /\ \A j \in rows[s] \ todo'[s] : \E b \in Reminders : sent[j][b] > 0
    <3>1. CASE sent[i][a] > 0
      BY <2>1, <2>2, <3>1
    <3>2. CASE ~(sent[i][a] > 0)
      BY <2>1, <2>2, <3>2
    <3>3. QED
      BY <3>1, <3>2
  <2>6. QED
    BY <2>2, <2>3, <2>4, <2>5
<1>3. ASSUME NEW i \in Items, DueSoon(i) \/ Overdue(i) \/ Resolve(i)
      PROVE  SlaInv' /\ UNCHANGED <<phase, holder, sent, overlap>>
  <2>1. PICK d \in {"closed"} \cup Reminders : due' = [due EXCEPT ![i] = d]
    BY <1>3 DEF DueSoon, Overdue, Resolve, Reminders
  <2>2. d # "later" /\ UNCHANGED <<phase, holder, rows, todo, queried, checked, sent, overlap>>
    BY <1>3 DEF DueSoon, Overdue, Resolve, vars, Reminders
  <2>3. \A j \in Items : due[j] # "later" => due'[j] # "later"
    BY <2>1, <2>2
  <2>4. due' \in [Items -> {"later", "closed"} \cup Reminders]
    BY <2>1
  <2>5. QED
    BY <2>2, <2>3, <2>4
<1>4. QED
  BY <1>1, <1>2, <1>3

(* Every step keeps a sweep's progress.                                    *)
LEMMA SlaStep ==
    ASSUME SlaInv, [SlaNext]_allVars
    PROVE  SlaInv'
<1>1. CASE UNCHANGED allVars
  BY <1>1 DEF SlaInv, SlaTypeOK, allVars, slaVars, vars
<1>2. QED
  BY <1>1, LeaseKeeps, AppendKeeps, ReadKeeps DEF SlaNext

(* What a sweep has scanned was reminded of, by it or by an earlier sweep. *)
THEOREM SlaTheorem == SlaSpec => []SlaInv
<1>1. SlaInit => SlaInv
  <2> SUFFICES ASSUME SlaInit PROVE SlaInv
    OBVIOUS
  <2>1. sent \in [Items -> [Reminders -> 0 .. MaxReminders]]
    <3>1. 0 \in 0 .. MaxReminders
      BY BoundAssumption
    <3>2. [a \in Reminders |-> 0] \in [Reminders -> 0 .. MaxReminders]
      BY <3>1
    <3>3. QED
      BY <3>2 DEF SlaInit
  <2>2. QED
    BY <2>1 DEF SlaInit, SlaInv, SlaTypeOK
<1>2. QED
  BY <1>1, SlaStep, PTL DEF SlaSpec

(* A sweep that returns SUCCESS left none of its rows without a reminder.  *)
THEOREM SuccessTheorem == SlaSpec => SuccessReminds
<1> DEFINE Success ==
      \A r \in Runs : Leaves(r) /\ result'[r] = "SUCCESS" =>
        \A i \in rows[r] : \E a \in Reminders : sent[i][a] > 0
<1>1. SlaInv /\ [SlaNext]_allVars => [Success]_allVars
  <2> SUFFICES ASSUME SlaInv, SlaNext, NEW r \in Runs, Leaves(r), result'[r] = "SUCCESS",
                      NEW i \in rows[r]
               PROVE  \E a \in Reminders : sent[i][a] > 0
    BY DEF allVars
  <2>1. LeaseStep
    BY DEF SlaNext, Leaves, QueryDue, CheckReminder, AppendReminder, DueSoon, Overdue, Resolve, vars
  <2>2. todo[r] = {}
    BY <2>1 DEF LeaseStep, EndSweeps, Swept
  <2>3. QED
    BY <2>2 DEF SlaInv
<1>2. QED
  BY <1>1, SlaTheorem, PTL DEF SlaSpec, SuccessReminds

-----------------------------------------------------------------------------
(* The appender holds the lease, so no other run has found its reminder    *)
(* missing.                                                                *)
LEMMA AloneStep ==
    ASSUME \A r, s \in Runs : JobOf[r] = JobOf[s],
           SlaInv, Alone, [SlaNext]_allVars
    PROVE  Alone'
<1> SUFFICES ASSUME ~overlap'
             PROVE  (SweepsHold /\ StillMissing /\ RemindedOnce)'
  BY DEF Alone
<1>1. CASE LeaseStep
  <2>1. ~overlap /\ SweepsHold'
    BY <1>1 DEF LeaseStep, SweepsHold
  <2>2. \A r \in Runs : checked'[r] = None \/ checked'[r] = checked[r]
    BY <1>1 DEF LeaseStep, EndSweeps
  <2>3. sent' = sent
    BY <1>1 DEF LeaseStep
  <2>4. QED
    BY <2>1, <2>2, <2>3 DEF Alone, StillMissing, RemindedOnce
<1>2. ASSUME NEW r \in Runs, AppendReminder(r)
      PROVE  (SweepsHold /\ StillMissing /\ RemindedOnce)'
  <2>1. PICK i \in Items, a \in Reminders :
          /\ checked[r] = <<i, a>> /\ checked[r] # None
          /\ sent' = [sent EXCEPT ![i][a] = @ + 1]
    BY <1>2, AppendKeeps
  <2>2. /\ checked' = [checked EXCEPT ![r] = None] /\ phase[r] = "sweeping"
        /\ UNCHANGED <<phase, holder, overlap>>
    BY <1>2 DEF AppendReminder, vars
  <2>3. SweepsHold /\ StillMissing /\ RemindedOnce /\ sent[i][a] = 0
    <3>1. SweepsHold /\ StillMissing /\ RemindedOnce
      BY <2>2 DEF Alone
    <3>2. sent[i][a] = 0
      BY <2>1, <3>1 DEF StillMissing
    <3>3. QED
      BY <3>1, <3>2
  <2>4. \A s \in Runs : s # r => checked[s] = None
    <3>1. ASSUME NEW s \in Runs, checked[s] # None
          PROVE  s = r
      <4>1. phase[s] = "sweeping"
        BY <3>1 DEF SlaInv, SlaTypeOK
      <4>2. QED
        BY <2>2, <2>3, <4>1 DEF SweepsHold
    <3>2. QED
      BY <3>1
  <2>5. StillMissing'
    BY <2>2, <2>4 DEF StillMissing, SlaInv, SlaTypeOK
  <2>6. ASSUME NEW j \in Items, NEW b \in Reminders
        PROVE  sent'[j][b] <= 1
    <3>1. sent \in [Items -> [Reminders -> 0 .. MaxReminders]] /\ sent[j][b] <= 1
      BY <2>2, <2>3 DEF SlaInv, SlaTypeOK, RemindedOnce
    <3>2. sent[i] \in [Reminders -> 0 .. MaxReminders]
      BY <3>1
    <3>3. sent'[j][b] = IF j = i /\ b = a THEN sent[i][a] + 1 ELSE sent[j][b]
      BY <2>1, <3>1, <3>2
    <3>4. QED
      BY <2>3, <3>1, <3>3
  <2>7. QED
    BY <2>2, <2>3, <2>5, <2>6 DEF SweepsHold, RemindedOnce
<1>3. ASSUME NEW r \in Runs, NEW i \in Items, CheckReminder(r, i)
      PROVE  (SweepsHold /\ StillMissing /\ RemindedOnce)'
  <2>1. PICK a \in Reminders :
          IF sent[i][a] > 0 THEN UNCHANGED checked
          ELSE checked' = [checked EXCEPT ![r] = <<i, a>>]
    BY <1>3, Actions DEF CheckReminder
  <2>2. UNCHANGED <<phase, holder, sent, overlap>>
    BY <1>3, ReadKeeps
  <2>3. SweepsHold /\ StillMissing /\ RemindedOnce
    BY <2>2 DEF Alone
  <2>4. sent[i][a] \in Nat /\ checked \in [Runs -> (Items \X Reminders) \cup {None}]
    BY DEF SlaInv, SlaTypeOK
  <2>5. ASSUME NEW s \in Runs, checked'[s] # None
        PROVE  sent[checked'[s][1]][checked'[s][2]] = 0
    <3>1. CASE checked'[s] = checked[s]
      BY <2>3, <2>5, <3>1 DEF StillMissing
    <3>2. CASE checked'[s] # checked[s]
      <4>1. checked'[s] = <<i, a>> /\ ~(sent[i][a] > 0)
        BY <2>1, <2>4, <3>2
      <4>2. QED
        BY <2>4, <4>1
    <3>3. QED
      BY <3>1, <3>2
  <2>6. QED
    BY <2>2, <2>3, <2>5 DEF SweepsHold, StillMissing, RemindedOnce
<1>4. CASE \/ \E r \in Runs : QueryDue(r)
           \/ \E i \in Items : DueSoon(i) \/ Overdue(i) \/ Resolve(i)
  <2>1. UNCHANGED <<phase, holder, sent, overlap>>
    BY <1>4, ReadKeeps
  <2>2. UNCHANGED checked
    BY <1>4 DEF QueryDue, DueSoon, Overdue, Resolve
  <2>3. QED
    BY <2>1, <2>2 DEF Alone, SweepsHold, StillMissing, RemindedOnce
<1>5. CASE UNCHANGED allVars
  BY <1>5 DEF allVars, slaVars, vars, Alone, SweepsHold, StillMissing, RemindedOnce
<1>6. QED
  BY <1>1, <1>2, <1>3, <1>4, <1>5 DEF SlaNext

(* Sweeps that share one lease, and hold it while they sweep, send no      *)
(* reminder twice.                                                         *)
THEOREM RemindedTheorem ==
    ASSUME \A r, s \in Runs : JobOf[r] = JobOf[s]
    PROVE  SlaSpec => []RemindedOnce
<1>1. SlaInit => Alone
  BY DEF SlaInit, Init, Alone, SweepsHold, StillMissing, RemindedOnce
<1>2. SlaInv /\ Alone /\ [SlaNext]_allVars => Alone'
  BY AloneStep
<1>3. Alone => RemindedOnce
  BY DEF Alone, RemindedOnce
<1>4. QED
  BY <1>1, <1>2, <1>3, SlaTheorem, PTL DEF SlaSpec
=============================================================================
