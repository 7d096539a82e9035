---------------------------- MODULE MCJobLease -----------------------------
(* Small instances of JobLease: every run wants the same job. *)
EXTENDS JobLease, TLC

CONSTANTS r1, r2, r3, sweep

MCJobOf == [r \in Runs |-> sweep]

(* One run belongs to a ticker, the others came by HTTP and are alike. *)
HttpSymmetry == Permutations(Runs \ TickerRuns)
=============================================================================
