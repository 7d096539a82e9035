------------------------------- MODULE Ledger -------------------------------
(***************************************************************************)
(* What the evidence tables promise a tenant, whatever becomes of the      *)
(* calls, sweeps and audits behind them: a log that is only appended to,   *)
(* one entry at a time, each entry hashed over all before it and billed as *)
(* it is appended; entries that are kept as they were until they are       *)
(* erased; and nobody told of an entry that was never made.  Abstract: no  *)
(* transactions, keys, locks, months or retries.                           *)
(***************************************************************************)
EXTENDS Naturals, Sequences

CONSTANT Ids   \* decision ids

VARIABLES
    log,    \* the ids of all entries ever made
    kept,   \* the entries still there: [id, prev], prev the log before it
    bill,   \* how many entries were billed
    told    \* the ids a caller was told are recorded

bookVars == <<log, kept, bill, told>>

Recorded(d) == \E n \in DOMAIN log : log[n] = d

LedgerInit == log = <<>> /\ kept = {} /\ bill = 0 /\ told = {}

(* An entry is made, and billed; its caller may never hear of it. *)
Enter(d) ==
    /\ \A e \in kept : e.id # d
    /\ log' = Append(log, d)
    /\ kept' = kept \cup {[id |-> d, prev |-> log]}
    /\ bill' = bill + 1
    /\ told' \in {told, told \cup {d}}

(* A repeated request is told that there is an entry. *)
Confirm(d) ==
    /\ Recorded(d)
    /\ told' = told \cup {d}
    /\ UNCHANGED <<log, kept, bill>>

(* Entries are erased from what is kept, and not from the log. *)
Erase ==
    /\ kept' \in SUBSET kept
    /\ UNCHANGED <<log, bill, told>>

LedgerNext == Erase \/ \E d \in Ids : Enter(d) \/ Confirm(d)

LedgerSpec == LedgerInit /\ [][LedgerNext]_bookVars

(* What a tenant may conclude from it. *)
LedgerInv ==
    /\ bill = Len(log)
    /\ \A d \in told : Recorded(d)
    /\ \A e \in kept :
          \E n \in DOMAIN log : e.id = log[n] /\ e.prev = SubSeq(log, 1, n - 1)
=============================================================================
