---------------------------- MODULE MCSlaMonitor ----------------------------
(* Small instances of SlaMonitor. *)
EXTENDS SlaMonitor, TLC

CONSTANTS r1, r2, i1, i2, ticker, http

(* jobs.go names the job "escalation-sla-monitor", http.go names it        *)
(* "escalation-sla": the lease of a run depends on its trigger.            *)
NameOfTrigger == [r \in Runs |-> IF r \in TickerRuns THEN ticker ELSE http]
=============================================================================
