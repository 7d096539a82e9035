------------------------------- MODULE Lease -------------------------------
(***************************************************************************)
(* What a row of public.job_lease promises to the holders of its tokens,   *)
(* whatever happens to the processes behind them: a lease that has not     *)
(* expired is neither stolen nor deleted, except by its holder as that     *)
(* holder's run returns; and a token is taken once.  Abstract: no ledger,  *)
(* no statements in flight, no keeper.                                     *)
(***************************************************************************)
CONSTANTS
    Jobs,   \* job names, the primary key of job_lease
    Runs,   \* acquisitions, one fresh token each
    None    \* no row for this job

VARIABLES
    holder,   \* holder[j]: the token in j's row, or None
    expired,  \* expired[j]: expires_at has passed
    over      \* the runs that have returned

leaseVars == <<holder, expired, over>>

LeaseTypeOK ==
    /\ holder \in [Jobs -> Runs \cup {None}]
    /\ expired \in [Jobs -> BOOLEAN]
    /\ over \subseteq Runs

LeaseInit ==
    /\ holder = [j \in Jobs |-> None]
    /\ expired = [j \in Jobs |-> FALSE]
    /\ over = {}

(* A fresh token takes an absent or an expired lease; its run may return   *)
(* without ever hearing of it.                                             *)
Take(j, r) ==
    /\ r \notin over
    /\ holder[j] = None \/ expired[j]
    /\ holder' = [holder EXCEPT ![j] = r]
    /\ expired' = [expired EXCEPT ![j] = FALSE]
    /\ over' \in {over, over \cup {r}}

(* The holder pushes expires_at forward, even past a lapse nobody used. *)
Extend(j) ==
    /\ holder[j] # None
    /\ expired' = [expired EXCEPT ![j] = FALSE]
    /\ UNCHANGED <<holder, over>>

(* The database clock passes expires_at. *)
Lapse(j) ==
    /\ holder[j] # None
    /\ expired' = [expired EXCEPT ![j] = TRUE]
    /\ UNCHANGED <<holder, over>>

(* The holder drops its own row and returns. *)
Drop(j) ==
    /\ holder[j] # None
    /\ holder[j] \notin over
    /\ holder' = [holder EXCEPT ![j] = None]
    /\ expired' = [expired EXCEPT ![j] = FALSE]
    /\ over' = over \cup {holder[j]}

(* A run returns and leaves the table alone. *)
Return(r) ==
    /\ r \notin over
    /\ over' = over \cup {r}
    /\ UNCHANGED <<holder, expired>>

LeaseNext ==
    \/ \E j \in Jobs : \/ \E r \in Runs : Take(j, r)
                       \/ Extend(j)
                       \/ Lapse(j)
                       \/ Drop(j)
    \/ \E r \in Runs : Return(r)

LeaseSpec == LeaseInit /\ [][LeaseNext]_leaseVars
=============================================================================
