------------------------- MODULE GatewayEvaluation -------------------------
(***************************************************************************)
(* How a gateway call comes to its outcome, in the worker (gateway.go,     *)
(* gateway_safeguards.go, policy_bundle.go) and in the web application     *)
(* (app/api/gateway/decide/route.ts, lib/policy/published-enforcement.ts), *)
(* while Blueprints and policies are published under it.                   *)
(*                                                                         *)
(* All calls are of one session of one agent and ask for one action, under *)
(* decision ids of their own.  The steps of a call are its statements; the *)
(* rules of a revision never change and are read with it.  What becomes of *)
(* the row of the decision is GatewayDecision's.                           *)
(***************************************************************************)
EXTENDS Blueprint, PolicyKernel

CONSTANTS
  WorkerCalls, WebCalls,
  Inputs,        \* bound: what callers send
  BranchOf,      \* the branch of a policy revision
  ScopeOf,       \* the rank of a branch's scope: ORGANIZATION is 1
  RulesOf        \* the rules of a policy revision

VARIABLES
  call,   \* where each call is and what it has read
  rows,   \* gateway_decision rows of the session
  since   \* history: what has held at every moment since a call began

vars == <<active, revisions, approval, ready, clock, published, met,
          call, rows, since>>

Calls == WorkerCalls \cup WebCalls
Outcomes == {"PROCEED", "ESCALATE", "ABORT"}

\* The risk thresholds' answer, whether the parameters exceed the inspection
\* limit and the context the tokens of a narrow budget, and the policy
\* revisions the caller runs under.
Input == [risk: Outcomes, large: BOOLEAN, big: BOOLEAN, context: SUBSET PolicyRevs]

ASSUME EvaluationAssumption ==
  /\ WorkerCalls \cap WebCalls = {}
  /\ Inputs \subseteq Input
  /\ DOMAIN BranchOf = PolicyRevs /\ DOMAIN RulesOf = PolicyRevs
  /\ \A p \in PolicyRevs:
       /\ BranchOf[p] \in DOMAIN ScopeOf /\ ScopeOf[BranchOf[p]] \in 1..4
       /\ \A id \in DOMAIN RulesOf[p]: RulesOf[p][id] \in Rule

Idle == [pc |-> "idle"]

Init ==
  /\ BlueprintInit
  /\ call = [c \in Calls |-> Idle]
  /\ rows = 0
  /\ since = [c \in Calls |-> {}]

-----------------------------------------------------------------------------
(* The published policy. *)

Branches == {BranchOf[published[i]]: i \in DOMAIN published}
LatestOf(b) ==
  CHOOSE i \in DOMAIN published:
    /\ BranchOf[published[i]] = b
    /\ \A j \in DOMAIN published: j > i => BranchOf[published[j]] # b

RulesNow(b) == RulesOf[published[LatestOf(b)]]

Precedes(b, c) ==
  \/ ScopeOf[b] < ScopeOf[c]
  \/ ScopeOf[b] = ScopeOf[c] /\ LatestOf(b) < LatestOf(c)

\* The latest publication of each branch, by scope and then by its time.
Layers ==
  LET Nth(i) == CHOOSE b \in Branches:
                  Cardinality({c \in Branches: Precedes(c, b)}) = i - 1
  IN [i \in 1..Cardinality(Branches) |->
        [branch |-> Nth(i), rules |-> RulesNow(Nth(i))]]

\* Mutant: a published ESCALATE replaces whatever the thresholds said.
MergeDowngrading(outcome, verdict) ==
  IF verdict = "DENY" THEN "ABORT"
  ELSE IF verdict = "ESCALATE" THEN "ESCALATE" ELSE outcome

\* A published DENY is absolute; an ESCALATE stops only what would proceed.
Merge(outcome, verdict) ==
  IF verdict = "DENY" THEN "ABORT"
  ELSE IF verdict = "ESCALATE" /\ outcome = "PROCEED" THEN "ESCALATE" ELSE outcome

-----------------------------------------------------------------------------
(* The steps of a call. *)

Become(c, pc, outcome) ==
  call' = [call EXCEPT ![c].pc = pc, ![c].outcome = outcome]

DefinitionOf(r) == revisions[r].definition
Violates(r) == r # 0 /\ ~DefinitionOf(r).allows

\* The thresholds come first in both; the worker then inspects the parameters
\* and leaves the budgets of a Blueprint alone unless the action may proceed.
WorkerBegins(c, in) ==
  LET outcome == IF in.risk = "PROCEED" /\ in.large THEN "ABORT" ELSE in.risk
  IN /\ call[c].pc = "idle"
     /\ call' = [call EXCEPT ![c] =
          [pc |-> IF outcome = "PROCEED" THEN "safeguards" ELSE "policy",
           in |-> in, outcome |-> outcome, blueprint |-> 0]]
     /\ UNCHANGED <<blueprintVars, rows>>

\* Where the budgets of Blueprint r leave a call that may proceed so far: its
\* tokens settle it, or the session's calls are to be counted, or nothing is.
Budget(c, r, next) ==
  IF r = 0 THEN Become(c, next, "PROCEED")
  ELSE IF DefinitionOf(r).fewTokens /\ call[c].in.big THEN Become(c, next, "ESCALATE")
  ELSE call' = [call EXCEPT ![c].blueprint = r, ![c].outcome = "PROCEED",
                  ![c].pc = IF DefinitionOf(r).maxToolCalls = None THEN next ELSE "count"]

Safeguards(c) ==
  /\ call[c].pc = "safeguards"
  /\ Budget(c, WorkerBlueprint, "policy")
  /\ UNCHANGED <<blueprintVars, rows>>

\* In the worker before the policy is read, in the web after it.
CountCalls(c) ==
  /\ call[c].pc = "count"
  /\ Become(c, IF c \in WorkerCalls THEN "policy" ELSE "persist",
       IF rows >= DefinitionOf(call[c].blueprint).maxToolCalls THEN "ABORT" ELSE "PROCEED")
  /\ UNCHANGED <<blueprintVars, rows>>

WorkerReadsPolicy(c) ==
  /\ call[c].pc = "policy"
  /\ Become(c, "envelope", Merge(call[c].outcome, Verdict(Compose(Layers))))
  /\ UNCHANGED <<blueprintVars, rows>>

\* The envelope is read again, and overrides every outcome.
Envelope(c) ==
  /\ call[c].pc = "envelope"
  /\ Become(c, "persist", IF Violates(WorkerBlueprint) THEN "ABORT" ELSE call[c].outcome)
  /\ UNCHANGED <<blueprintVars, rows>>

\* The web reads the Blueprint once, before anything else.
WebBegins(c, in) ==
  /\ call[c].pc = "idle"
  /\ call' = [call EXCEPT ![c] =
       [pc |-> "latest", in |-> in, outcome |-> in.risk,
        blueprint |-> WebBlueprint(in.context)]]
  /\ UNCHANGED <<blueprintVars, rows>>

\* What the web concludes from a policy's verdict: the merge, the envelope, and
\* then the budgets.
Conclude(c, verdict) ==
  LET merged == Merge(call[c].outcome, verdict)
      r == call[c].blueprint
  IN IF Violates(r) THEN Become(c, "persist", "ABORT")
     ELSE IF merged = "PROCEED" THEN Budget(c, r, "persist")
     ELSE Become(c, "persist", merged)

\* The latest publication, and with it the layers in a statement of their own.
WebReadsLatest(c) ==
  /\ call[c].pc = "latest"
  /\ IF published = <<>> THEN Conclude(c, "ALLOW")
     ELSE Become(c, "layers", call[c].outcome)
  /\ UNCHANGED <<blueprintVars, rows>>

WebReadsLayers(c) ==
  /\ call[c].pc = "layers"
  /\ Conclude(c, Verdict(Compose(Layers)))
  /\ UNCHANGED <<blueprintVars, rows>>

Persist(c) ==
  /\ call[c].pc = "persist"
  /\ rows' = rows + 1
  /\ call' = [call EXCEPT ![c] = [pc |-> "done"]]
  /\ UNCHANGED blueprintVars

\* Every failure is answered by a refusal; a failed insert may have committed.
CallFails(c) ==
  /\ call[c].pc \notin {"idle", "done"}
  /\ \E stored \in {0, 1}:
       /\ stored = 1 => call[c].pc = "persist"
       /\ rows' = rows + stored
  /\ call' = [call EXCEPT ![c] = [pc |-> "done"]]
  /\ UNCHANGED blueprintVars

CallStep(c) ==
  \/ c \in WorkerCalls /\ \E in \in Inputs: WorkerBegins(c, in)
  \/ c \in WebCalls /\ \E in \in Inputs: WebBegins(c, in)
  \/ Safeguards(c) \/ CountCalls(c) \/ WorkerReadsPolicy(c) \/ Envelope(c)
  \/ WebReadsLatest(c) \/ WebReadsLayers(c)
  \/ Persist(c) \/ CallFails(c)

-----------------------------------------------------------------------------
(* History: what has held at every moment since a call began. *)

UnderWay(c) == call[c].pc \notin {"idle", "done"}

\* The revision said to be in force: the newest publication.
Current == NewestOf(PublishedRevs)

\* Whether the gateway of call c finds it: the worker only as the Blueprint's
\* active revision, the web only if the caller runs under its policy.
Found(c) ==
  IF c \in WorkerCalls THEN active = Current
  ELSE Current # 0 => BoundTo(Current, call[c].in.context)

Spent(c) ==
  /\ Current # 0
  /\ \/ DefinitionOf(Current).fewTokens /\ call[c].in.big
     \/ /\ DefinitionOf(Current).maxToolCalls # None
        /\ rows >= DefinitionOf(Current).maxToolCalls

\* The rules in force, without composing anything: of those branches have
\* published for an id, the first immutable one, or else the last.
Beats(c, b, id) ==
  /\ id \in DOMAIN RulesNow(c)
  /\ IF RulesNow(b)[id].immutable THEN RulesNow(c)[id].immutable /\ Precedes(c, b)
     ELSE RulesNow(c)[id].immutable \/ Precedes(b, c)

InForce(b) == {id \in DOMAIN RulesNow(b): ~\E c \in Branches: Beats(c, b, id)}

SomeInForce(effect) ==
  \E b \in Branches: \E id \in InForce(b): RulesNow(b)[id].effect = effect

Holds(k, c) ==
  \/ k = "denied" /\ SomeInForce("DENY")
  \/ k = "held" /\ (SomeInForce("DENY") \/ SomeInForce("ESCALATE"))
  \/ k = "outside" /\ Violates(Current)
  \/ k = "spent" /\ Spent(c)
  \/ k = "found" /\ Found(c)

Conditions == {"denied", "held", "outside", "spent", "found"}

\* While it is under way a call keeps of its conditions those that still hold.
Watch ==
  since' = [c \in Calls |->
    IF call'[c].pc \in {"idle", "done"} THEN {}
    ELSE {k \in IF UnderWay(c) THEN since[c] ELSE Conditions: Holds(k, c)'}]

Next ==
  /\ \/ BlueprintNext /\ UNCHANGED <<call, rows>>
     \/ \E c \in Calls: CallStep(c)
  /\ Watch

Spec == Init /\ [][Next]_vars

-----------------------------------------------------------------------------
(* Properties. *)

\* What forbids an action throughout a call is not overlooked by any order of
\* the call's reads and of the publications among them: a policy that denied
\* or escalated, a Blueprint whose envelope excludes the action or whose budget
\* was spent before the call began, the thresholds, the size of the parameters.
\* Calls under way together may pass a budget together; a Blueprint the gateway
\* did not find is the exception.  (WorkerBegins to Persist)
Decided(c) == call[c].pc = "persist"

DenialsHold ==
  \A c \in Calls: Decided(c) =>
    LET in == call[c].in
        aborted == call[c].outcome = "ABORT"
        stopped == call[c].outcome # "PROCEED"
    IN /\ "denied" \in since[c] \/ in.risk = "ABORT" => aborted
       /\ "held" \in since[c] \/ in.risk = "ESCALATE" => stopped
       /\ {"outside", "found"} \subseteq since[c] => aborted
       /\ {"spent", "found"} \subseteq since[c] => stopped
       /\ c \in WorkerCalls /\ in.large /\ in.risk = "PROCEED" => aborted

\* An immutable rule in force stays in force, with the effect it has, until its
\* own branch publishes again or one of a broader scope makes the id immutable:
\* no other publication displaces it, in whatever order they come.  (Layers,
\* Overlay)
Slots == Compose(Layers)

Stays(id, slot) ==
  \/ id \in DOMAIN Slots' /\ Slots'[id] = slot
  \/ LatestOf(slot.branch)' # LatestOf(slot.branch)
  \/ Immutable(Slots', id) /\ ScopeOf[Slots'[id].branch] < ScopeOf[slot.branch]

ImmutableRulesStayInForce ==
  [][published' # published =>
       \A id \in DOMAIN Slots: \E slot \in {Slots[id]}: slot.immutable => Stays(id, slot)]_vars

\* service.ts says runtimes select the latest published revision: a call of the
\* worker is refused what that revision's envelope excludes.  It is not, once
\* the active revision is another: a draft, or one published earlier.
EnvelopeHolds ==
  \A c \in WorkerCalls:
    Decided(c) /\ "outside" \in since[c] => call[c].outcome = "ABORT"
=============================================================================
