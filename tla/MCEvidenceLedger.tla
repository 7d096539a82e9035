-------------------------- MODULE MCEvidenceLedger --------------------------
(* Small instances of EvidenceLedger: production evidence, and staging. *)
EXTENDS EvidenceLedger, TLC

CONSTANTS d1, d2, c1, c2, c3, s1, s2, a1

MCEnvOf == [d \in Ids |-> IF d = d1 THEN "production" ELSE "staging"]

\* Bound: a third call begins only within the first month, and the second month
\* begins only while one call is still to come.  Neither is fair.
Apart == period = 1 \/ \E c \in Calls: phase[c] = "new"

BoundedSpec == Init /\ [][Next /\ Apart']_vars /\ AuditFairness
=============================================================================
