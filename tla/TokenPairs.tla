----------------------------- MODULE TokenPairs -----------------------------
(***************************************************************************)
(* What the server promises of an agent's token pairs, whoever presents    *)
(* them and however often: a live pair is spent on one successor or is     *)
(* revoked, once and for good.  A line is what comes of one pair a client  *)
(* was set up with.  Abstract: no requests, locks, rows, clients or time.  *)
(***************************************************************************)
CONSTANTS
  Pairs,
  First,   \* the pairs clients are set up with
  None     \* no parent

VARIABLES
  life,    \* of a pair: "none", "live", "spent", "revoked"
  parent   \* the pair that was spent on this one

pairVars == <<life, parent>>

PairsInit ==
  /\ life = [n \in Pairs |-> IF n \in First THEN "live" ELSE "none"]
  /\ parent = [n \in Pairs |-> None]

Rotate(n, m) ==
  /\ life[n] = "live" /\ life[m] = "none"
  /\ life' = [life EXCEPT ![n] = "spent", ![m] = "live"]
  /\ parent' = [parent EXCEPT ![m] = n]

Revoke(n) ==
  /\ life[n] = "live"
  /\ life' = [life EXCEPT ![n] = "revoked"]
  /\ UNCHANGED parent

PairsNext == \E n \in Pairs: Revoke(n) \/ \E m \in Pairs: Rotate(n, m)

PairsSpec == PairsInit /\ [][PairsNext]_pairVars

-----------------------------------------------------------------------------
(* What follows.  A function from pairs to the first of their line agrees  *)
(* with parent; there is one, and no line has two live pairs.              *)
IsLine(line) ==
  /\ \A n \in First: line[n] = n
  /\ \A n \in Pairs: parent[n] # None => line[n] = line[parent[n]]

Lines == {line \in [Pairs -> First]: IsLine(line)}

OneLivePerLine ==
  /\ Lines # {}
  /\ \A line \in Lines: \A m, n \in Pairs:
       life[m] = "live" /\ life[n] = "live" /\ line[m] = line[n] => m = n
=============================================================================
