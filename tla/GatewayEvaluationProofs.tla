---------------------- MODULE GatewayEvaluationProofs ----------------------
(***************************************************************************)
(* Proofs about GatewayEvaluation, for any calls, inputs, definitions,     *)
(* policies and bounds: what was published met its quorum, a composition   *)
(* is what its definition without recursion says, no call overlooks what   *)
(* forbade its action throughout, and an immutable rule stays in force.    *)
(***************************************************************************)
EXTENDS GatewayEvaluation, FiniteSetTheorems, SequenceTheorems,
        WellFoundedInduction, TLAPS

-----------------------------------------------------------------------------
(* The Blueprint and the policies. *)

(* A revision whose approvals are a quorum has met it, and no request but  *)
(* of one that had is past its reading.  Stamps are given once.            *)
StampsApart ==
  /\ clock \in 0..MaxStamps
  /\ \A r \in DOMAIN revisions: revisions[r].at <= clock
  /\ \A r, s \in PublishedRevs: revisions[r].at = revisions[s].at => r = s

BlueprintIInv ==
  /\ BlueprintInv
  /\ \A r \in 1..MaxRevisions: Quorum(approval[r]) => r \in met
  /\ ready \subseteq met
  /\ StampsApart
  /\ Len(revisions) <= MaxRevisions

LEMMA NoQuorum == ~Quorum({})
BY BlueprintAssumption, FS_EmptySet DEF Quorum

(* The definition a revision has never changes, and no revision is lost.   *)
Grows ==
  /\ Len(revisions) <= Len(revisions')
  /\ \A r \in DOMAIN revisions:
       /\ r \in DOMAIN revisions'
       /\ revisions'[r].definition = revisions[r].definition

LEMMA BlueprintStarts == BlueprintInit => BlueprintIInv
<1> SUFFICES ASSUME BlueprintInit PROVE BlueprintIInv
  OBVIOUS
<1>1. BlueprintInv
  BY DEF BlueprintInit, BlueprintInv
<1>2. \A r \in 1..MaxRevisions: ~Quorum(approval[r])
  BY NoQuorum DEF BlueprintInit
<1>3. StampsApart /\ Len(revisions) <= MaxRevisions
  BY BlueprintAssumption DEF BlueprintInit, StampsApart, PublishedRevs
<1>4. QED
  BY <1>1, <1>2, <1>3 DEF BlueprintIInv, BlueprintInit

(* A draft is appended. *)
LEMMA CreationKeeps ==
  ASSUME BlueprintIInv, NEW d \in Definitions, CreateRevision(d)
  PROVE  BlueprintIInv' /\ Grows
<1> DEFINE new == [definition |-> d, status |-> "DRAFT", at |-> 0]
<1>1. revisions \in Seq(Revision) /\ new \in Revision
  BY BlueprintAssumption DEF BlueprintIInv, BlueprintInv, Revision, Statuses
<1>2. /\ revisions' = Append(revisions, new) /\ active' = Len(revisions) + 1
      /\ UNCHANGED <<approval, ready, clock, published, met>>
      /\ Len(revisions) < MaxRevisions
  BY DEF CreateRevision
<1> HIDE DEF new
<1>3. /\ revisions' \in Seq(Revision)
      /\ Len(revisions') = Len(revisions) + 1
      /\ DOMAIN revisions = 1..Len(revisions)
      /\ DOMAIN revisions' = 1..Len(revisions')
      /\ Len(revisions) \in Nat
      /\ revisions'[Len(revisions) + 1] = new
      /\ \A r \in DOMAIN revisions: revisions'[r] = revisions[r]
  BY <1>1, <1>2
<1>4. \A r \in DOMAIN revisions': r \in DOMAIN revisions \/ r = Len(revisions) + 1
  BY <1>3
<1>5. new.status = "DRAFT" /\ new.at = 0
  BY DEF new
<1>6. Grows
  BY <1>3 DEF Grows
<1>7. BlueprintInv'
  BY <1>2, <1>3, <1>4, <1>5 DEF BlueprintIInv, BlueprintInv
<1>8. StampsApart'
  BY <1>2, <1>3, <1>4, <1>5 DEF BlueprintIInv, StampsApart, PublishedRevs
<1>9. QED
  BY <1>2, <1>3, <1>6, <1>7, <1>8, BlueprintAssumption DEF BlueprintIInv

(* What becomes of the revisions when one of them changes status and stamp. *)
Restated(r, status, at) ==
  revisions' = [revisions EXCEPT ![r].status = status, ![r].at = at]

LEMMA RestatedIs ==
  ASSUME revisions \in Seq(Revision), NEW r \in DOMAIN revisions,
         NEW status \in Statuses, NEW at \in 0..MaxStamps, Restated(r, status, at)
  PROVE  /\ revisions' \in Seq(Revision)
         /\ Len(revisions') = Len(revisions)
         /\ DOMAIN revisions' = DOMAIN revisions
         /\ revisions'[r].status = status /\ revisions'[r].at = at
         /\ \A s \in DOMAIN revisions:
              /\ s # r => revisions'[s] = revisions[s]
              /\ revisions'[s].definition = revisions[s].definition
         /\ Grows
<1>1. DOMAIN revisions = 1..Len(revisions) /\ Len(revisions) \in Nat
  OBVIOUS
<1> DEFINE one == [revisions[r] EXCEPT !.status = status, !.at = at]
<1>2. revisions[r] \in Revision
  OBVIOUS
<1>3. one \in Revision /\ one.status = status /\ one.at = at
      /\ one.definition = revisions[r].definition
  BY <1>2 DEF Revision
<1>4. revisions' = [revisions EXCEPT ![r] = one]
  BY <1>2 DEF Restated, Revision
<1> HIDE DEF one
<1>5. revisions' \in Seq(Revision) /\ Len(revisions') = Len(revisions)
  BY <1>3, <1>4
<1>6. DOMAIN revisions' = DOMAIN revisions
  BY <1>4
<1>7. \A s \in DOMAIN revisions: revisions'[s] = IF s = r THEN one ELSE revisions[s]
  BY <1>4
<1>8. QED
  BY <1>1, <1>3, <1>5, <1>6, <1>7 DEF Grows

LEMMA SubmitKeeps ==
  ASSUME BlueprintIInv, NEW r \in DOMAIN revisions, Submit(r)
  PROVE  BlueprintIInv' /\ Grows
<1>1. /\ revisions \in Seq(Revision) /\ revisions[r].status = "DRAFT"
      /\ UNCHANGED <<active, approval, ready, clock, published, met>>
      /\ revisions' = [revisions EXCEPT ![r].status = "IN_REVIEW"]
  BY DEF Submit, Has, BlueprintIInv, BlueprintInv
<1>2. revisions[r] \in Revision /\ revisions[r].at = 0
  <2>1. revisions[r] \in Revision
    BY <1>1
  <2>2. ~(revisions[r].at > 0)
    BY <1>1 DEF BlueprintIInv, BlueprintInv
  <2>3. revisions[r].at \in Nat
    BY <2>1 DEF Revision
  <2>4. QED
    BY <2>1, <2>2, <2>3
<1>3. Restated(r, "IN_REVIEW", 0)
  <2>1. [revisions EXCEPT ![r].status = "IN_REVIEW", ![r].at = 0]
          = [revisions EXCEPT ![r] = [revisions[r] EXCEPT !.status = "IN_REVIEW", !.at = 0]]
    BY <1>2 DEF Revision
  <2>2. [revisions[r] EXCEPT !.status = "IN_REVIEW", !.at = 0]
          = [revisions[r] EXCEPT !.status = "IN_REVIEW"]
    BY <1>2 DEF Revision
  <2>3. QED
    BY <1>1, <2>1, <2>2 DEF Restated
<1>4. 0 \in 0..MaxStamps /\ "IN_REVIEW" \in Statuses
  BY BlueprintAssumption DEF Statuses
<1>5. /\ revisions' \in Seq(Revision) /\ Len(revisions') = Len(revisions)
      /\ DOMAIN revisions' = DOMAIN revisions
      /\ revisions'[r].status = "IN_REVIEW" /\ revisions'[r].at = 0
      /\ \A s \in DOMAIN revisions: s # r => revisions'[s] = revisions[s]
      /\ Grows
  BY <1>1, <1>3, <1>4, RestatedIs
<1>6. BlueprintInv'
  BY <1>1, <1>5 DEF BlueprintIInv, BlueprintInv
<1>7. StampsApart'
  BY <1>1, <1>5 DEF BlueprintIInv, StampsApart, PublishedRevs
<1>8. QED
  BY <1>1, <1>5, <1>6, <1>7 DEF BlueprintIInv

(* A revision that is published, or published again by a rollback, has     *)
(* met its quorum and takes a stamp later than all.                        *)
LEMMA StampedKeeps ==
  ASSUME BlueprintIInv, NEW r \in DOMAIN revisions, Stamped(r), r \in met,
         active' \in {active, r}, ready' \subseteq ready,
         UNCHANGED <<approval, published, met>>
  PROVE  BlueprintIInv' /\ Grows
<1>1. /\ revisions \in Seq(Revision)
      /\ clock \in 0..MaxStamps /\ clock < MaxStamps /\ clock' = clock + 1
      /\ Restated(r, "PUBLISHED", clock + 1)
  BY DEF Stamped, Restated, BlueprintIInv, BlueprintInv, StampsApart
<1>2. clock + 1 \in 1..MaxStamps /\ clock \in Nat /\ "PUBLISHED" \in Statuses
  BY <1>1, BlueprintAssumption DEF Statuses
<1>3. clock + 1 \in 0..MaxStamps
  BY <1>2
<1>4. /\ revisions' \in Seq(Revision) /\ Len(revisions') = Len(revisions)
      /\ DOMAIN revisions' = DOMAIN revisions
      /\ revisions'[r].status = "PUBLISHED" /\ revisions'[r].at = clock + 1
      /\ \A s \in DOMAIN revisions: s # r => revisions'[s] = revisions[s]
      /\ Grows
  BY <1>1, <1>2, <1>3, RestatedIs
<1>5. \A s \in DOMAIN revisions: revisions[s].at \in Nat /\ revisions[s].at <= clock
  <2>1. \A s \in DOMAIN revisions: revisions[s] \in Revision
    BY <1>1
  <2>2. QED
    BY <2>1 DEF Revision, BlueprintIInv, StampsApart
<1>6. active' \in 0..Len(revisions)
  <2>1. DOMAIN revisions = 1..Len(revisions) /\ Len(revisions) \in Nat
    BY <1>1
  <2>2. QED
    BY <2>1 DEF BlueprintIInv, BlueprintInv
<1>7. BlueprintInv'
  BY <1>2, <1>4, <1>6 DEF BlueprintIInv, BlueprintInv
<1>8. StampsApart'
  <2>1. \A s \in DOMAIN revisions': revisions'[s].at <= clock'
    BY <1>1, <1>2, <1>4, <1>5
  <2>2. ASSUME NEW s \in PublishedRevs', NEW t \in PublishedRevs',
               revisions'[s].at = revisions'[t].at
        PROVE  s = t
    <3>1. s \in DOMAIN revisions /\ t \in DOMAIN revisions
      BY <1>4 DEF PublishedRevs
    <3>2. CASE s # r /\ t # r
      BY <1>4, <2>2, <3>1, <3>2 DEF PublishedRevs, BlueprintIInv, StampsApart
    <3>3. CASE (s = r) # (t = r)
      BY <1>2, <1>4, <1>5, <2>2, <3>1, <3>3
    <3>4. QED
      BY <3>2, <3>3
  <2>3. QED
    BY <1>1, <1>3, <2>1, <2>2 DEF StampsApart
<1>9. QED
  BY <1>4, <1>7, <1>8 DEF BlueprintIInv

(* Every step of authors, reviewers and publishers keeps the invariant and *)
(* the definitions there are.                                              *)
LEMMA BlueprintStep ==
  ASSUME BlueprintIInv, BlueprintNext
  PROVE  BlueprintIInv' /\ Grows
<1>1. CASE \E d \in Definitions: CreateRevision(d)
  BY <1>1, CreationKeeps
<1>2. ASSUME NEW r \in DOMAIN revisions, Submit(r)
      PROVE  BlueprintIInv' /\ Grows
  BY <1>2, SubmitKeeps
<1>3. ASSUME NEW r \in DOMAIN revisions, CheckReadiness(r)
      PROVE  BlueprintIInv' /\ Grows
  <2>1. r \in 1..MaxRevisions
    <3>1. revisions \in Seq(Revision) /\ Len(revisions) <= MaxRevisions
      BY DEF BlueprintIInv, BlueprintInv
    <3>2. QED
      BY <3>1, BlueprintAssumption
  <2>2. ready' = ready \cup {r} /\ r \in met
        /\ UNCHANGED <<active, revisions, approval, clock, published, met>>
    BY <1>3, <2>1 DEF CheckReadiness, BlueprintIInv
  <2>3. BlueprintInv' /\ StampsApart' /\ Grows
    BY <2>2 DEF BlueprintIInv, BlueprintInv, StampsApart, PublishedRevs, Grows
  <2>4. QED
    BY <2>2, <2>3 DEF BlueprintIInv
<1>4. ASSUME NEW r \in DOMAIN revisions, Publish(r)
      PROVE  BlueprintIInv' /\ Grows
  <2>1. r \in met
    BY <1>4 DEF Publish, BlueprintIInv
  <2>2. QED
    BY <1>4, <2>1, StampedKeeps DEF Publish
<1>5. ASSUME NEW r \in DOMAIN revisions, Rollback(r)
      PROVE  BlueprintIInv' /\ Grows
  <2>1. r \in met
    BY <1>5 DEF Rollback, Has, BlueprintIInv, BlueprintInv
  <2>2. QED
    BY <1>5, <2>1, StampedKeeps DEF Rollback
<1>6. ASSUME NEW r \in DOMAIN revisions, NEW v \in Reviewers, NEW approved \in BOOLEAN,
             Review(r, v, approved)
      PROVE  BlueprintIInv' /\ Grows
  <2>1. /\ approval \in [1..MaxRevisions -> SUBSET Reviewers]
        /\ UNCHANGED <<active, revisions, ready, clock, published>>
        /\ met' = met \cup {x \in {r}: Quorum(approval'[r])}
    BY <1>6 DEF Review, BlueprintIInv, BlueprintInv
  <2>2. /\ approval' \in [1..MaxRevisions -> SUBSET Reviewers]
        /\ \A s \in 1..MaxRevisions: s # r => approval'[s] = approval[s]
    <3> DEFINE new == IF approved THEN approval[r] \cup {v} ELSE approval[r] \ {v}
    <3>1. approval' = [approval EXCEPT ![r] = new]
      BY <1>6 DEF Review
    <3>2. r \in 1..MaxRevisions
      BY BlueprintAssumption DEF BlueprintIInv, BlueprintInv
    <3>3. new \in SUBSET Reviewers
      BY <2>1, <3>2
    <3> HIDE DEF new
    <3>4. QED
      BY <2>1, <3>1, <3>3
  <2>3. \A s \in 1..MaxRevisions: Quorum(approval'[s]) => s \in met'
    BY <2>1, <2>2 DEF BlueprintIInv
  <2>4. BlueprintInv' /\ StampsApart' /\ Grows
    BY <2>1, <2>2 DEF BlueprintIInv, BlueprintInv, StampsApart, PublishedRevs, Grows
  <2>5. QED
    BY <2>1, <2>3, <2>4 DEF BlueprintIInv
<1>7. ASSUME NEW p \in PolicyRevs, PublishPolicy(p)
      PROVE  BlueprintIInv' /\ Grows
  <2>1. /\ published' = Append(published, p) /\ published \in Seq(PolicyRevs)
        /\ UNCHANGED <<active, revisions, approval, ready, clock, met>>
    BY <1>7 DEF PublishPolicy, BlueprintIInv, BlueprintInv
  <2>2. published' \in Seq(PolicyRevs)
    BY <2>1
  <2>3. BlueprintInv' /\ StampsApart' /\ Grows
    BY <2>1, <2>2 DEF BlueprintIInv, BlueprintInv, StampsApart, PublishedRevs, Grows
  <2>4. QED
    BY <2>1, <2>3 DEF BlueprintIInv
<1>8. QED
  BY <1>1, <1>2, <1>3, <1>4, <1>5, <1>6, <1>7 DEF BlueprintNext

(* The steps of a call leave the Blueprint and the policies alone.         *)
LEMMA CallLeavesBlueprint ==
  ASSUME NEW c \in Calls, CallStep(c)
  PROVE  UNCHANGED blueprintVars
BY DEF CallStep, WorkerBegins, WebBegins, Safeguards, CountCalls, WorkerReadsPolicy,
       Envelope, WebReadsLatest, WebReadsLayers, Persist, CallFails

(* What was published met its quorum once, although approvals are read     *)
(* long before the status is written.  (BlueprintInv)                      *)
THEOREM BlueprintTheorem == Spec => []BlueprintInv
<1>1. Init => BlueprintIInv
  BY BlueprintStarts DEF Init
<1>2. BlueprintIInv /\ [Next]_vars => BlueprintIInv'
  <2> SUFFICES ASSUME BlueprintIInv, [Next]_vars PROVE BlueprintIInv'
    OBVIOUS
  <2>1. CASE BlueprintNext
    BY <2>1, BlueprintStep
  <2>2. CASE UNCHANGED blueprintVars
    BY <2>2 DEF blueprintVars, BlueprintIInv, BlueprintInv, StampsApart, PublishedRevs
  <2>3. QED
    BY <2>1, <2>2, CallLeavesBlueprint DEF Next, vars, blueprintVars
<1>3. BlueprintIInv => BlueprintInv
  BY DEF BlueprintIInv
<1>4. QED
  BY <1>1, <1>2, <1>3, PTL DEF Spec

-----------------------------------------------------------------------------
(* Natural numbers. *)

(* A set of naturals has a least element.                                  *)
LEMMA LeastNat ==
  ASSUME NEW T \in SUBSET Nat, T # {}
  PROVE  \E n \in T: \A k \in T: n <= k
<1> DEFINE R == OpToRel(<, Nat)
<1>1. ASSUME NEW k \in Nat, NEW n \in Nat, k < n
      PROVE  <<k, n>> \in R
  <2>1. <<k, n>> \in Nat \X Nat /\ <<k, n>>[1] < <<k, n>>[2]
    BY <1>1
  <2>2. QED
    BY <2>1, Zenon DEF OpToRel
<1>2. IsWellFoundedOn(R, Nat)
  BY NatLessThanWellFounded, Zenon
<1> HIDE DEF R
<1>3. PICK n \in T: \A k \in T: ~(<<k, n>> \in R)
  BY <1>2, WFMin
<1>4. \A k \in T: ~(k < n)
  BY <1>1, <1>3
<1>5. QED
  BY <1>4

(* A bounded set of naturals has a greatest one.                           *)
LEMMA GreatestNat ==
  ASSUME NEW N \in Nat, NEW T \in SUBSET (1..N), T # {}
  PROVE  \E n \in T: \A k \in T: k <= n
<1> DEFINE D == {m \in Nat: N - m \in T}
<1>1. \A k \in T: N - k \in D
  OBVIOUS
<1>2. D \in SUBSET Nat /\ D # {}
  BY <1>1
<1>3. PICK m \in D: \A k \in D: m <= k
  BY <1>2, LeastNat
<1>4. QED
  BY <1>1, <1>3

(* Induction over the naturals up to a bound, for a set of them.           *)
LEMMA Induction ==
  ASSUME NEW N \in Nat, NEW G, 0 \in G,
         \A n \in 0..N: n \in G /\ n < N => n + 1 \in G
  PROVE  0..N \subseteq G
<1> DEFINE T == (0..N) \ G
<1> SUFFICES ASSUME T # {} PROVE FALSE
  OBVIOUS
<1>1. PICK n \in T: \A k \in T: n <= k
  <2>1. T \in SUBSET Nat
    OBVIOUS
  <2> HIDE DEF T
  <2>2. QED
    BY <2>1, LeastNat
<1>2. n # 0 /\ n - 1 \in 0..N /\ n - 1 < N /\ ~(n <= n - 1) /\ (n - 1) + 1 = n
  BY <1>1
<1>3. n - 1 \in G
  BY <1>1, <1>2
<1>4. QED
  BY <1>1, <1>2, <1>3

-----------------------------------------------------------------------------
(* Compose, whose recursion defines what the layers up to any one of them  *)
(* come to.                                                                *)
Composes(layers, h) ==
  h = [n \in 0..Len(layers) |->
         IF n = 0 THEN NoSlots ELSE Overlay(h[n - 1], layers[n])]

LEMMA ComposeUnfolded ==
  ASSUME NEW layers
  PROVE  Compose(layers) = (CHOOSE h: Composes(layers, h))[Len(layers)]
BY Zenon DEF Compose, Composes

LEMMA CompositionExists ==
  ASSUME NEW layers, Len(layers) \in Nat
  PROVE  \E h: Composes(layers, h)
<1> DEFINE N == Len(layers)
           Step(h, n) == IF n = 0 THEN NoSlots ELSE Overlay(h[n - 1], layers[n])
           Upto(k, h) == h = [n \in 0..k |-> Step(h, n)]
           G == {k \in 0..N: \E h: Upto(k, h)}
<1>1. 0 \in G
  <2>1. Upto(0, [n \in 0..0 |-> NoSlots])
    <3>1. 0..0 = {0}
      OBVIOUS
    <3>2. QED
      BY <3>1
  <2>2. 0 \in 0..N
    OBVIOUS
  <2> HIDE DEF Upto
  <2>3. QED
    BY <2>1, <2>2
<1>2. ASSUME NEW k \in 0..N, k \in G, k < N
      PROVE  k + 1 \in G
  <2>1. PICK h: Upto(k, h)
    BY <1>2
  <2> DEFINE g == [n \in 0..(k + 1) |-> IF n <= k THEN h[n] ELSE Step(h, n)]
  <2>2. ASSUME NEW n \in 0..(k + 1)
        PROVE  g[n] = Step(g, n)
    <3>1. g[n] = Step(h, n)
      <4> HIDE DEF Step
      <4>1. CASE n \in 0..k
        <5>1. h[n] = Step(h, n)
          BY <2>1, <4>1, Zenon
        <5>2. g[n] = h[n]
          BY <4>1
        <5>3. QED
          BY <5>1, <5>2
      <4>2. CASE n \notin 0..k
        BY <4>2
      <4>3. QED
        BY <4>1, <4>2
    <3> HIDE DEF Step
    <3>2. n # 0 => n - 1 \in 0..(k + 1) /\ n - 1 <= k
      BY <2>2
    <3>3. n # 0 => g[n - 1] = h[n - 1]
      BY <3>2
    <3>4. Step(h, n) = Step(g, n)
      <4> HIDE DEF g
      <4>1. QED
        BY <3>3 DEF Step
    <3>5. QED
      BY <3>1, <3>4
  <2>3. Upto(k + 1, g)
    <3> HIDE DEF Step
    <3>1. g = [n \in 0..(k + 1) |-> g[n]]
      OBVIOUS
    <3> HIDE DEF g
    <3>2. QED
      BY <2>2, <3>1
  <2>4. k + 1 \in 0..N
    BY <1>2
  <2> HIDE DEF Upto, g
  <2>5. QED
    BY <2>3, <2>4
<1>3. N \in G
  <2> HIDE DEF G, N
  <2>1. N \in Nat
    BY DEF N
  <2>2. 0..N \subseteq G
    BY <1>1, <1>2, <2>1, Induction
  <2>3. QED
    BY <2>1, <2>2
<1>4. QED
  BY <1>3 DEF Composes

LEMMA Composition ==
  ASSUME NEW layers, Len(layers) \in Nat
  PROVE  \E h: /\ Compose(layers) = h[Len(layers)]
               /\ h[0] = NoSlots
               /\ \A n \in 1..Len(layers): h[n] = Overlay(h[n - 1], layers[n])
<1> DEFINE h == CHOOSE g: Composes(layers, g)
<1>1. Composes(layers, h)
  BY CompositionExists
<1>2. Compose(layers) = h[Len(layers)]
  BY ComposeUnfolded
<1> HIDE DEF h
<1>3. \A n \in 0..Len(layers):
        h[n] = IF n = 0 THEN NoSlots ELSE Overlay(h[n - 1], layers[n])
  BY <1>1, Zenon DEF Composes
<1>4. h[0] = NoSlots /\ \A n \in 1..Len(layers): h[n] = Overlay(h[n - 1], layers[n])
  BY <1>3
<1>5. QED
  BY <1>2, <1>4

(* The layer whose rule a composition of the first n takes for an id: the  *)
(* first to make it immutable, and if there is none the last to have it.   *)
RuleOf(layers, i, id) == id \in DOMAIN layers[i].rules
Fixes(layers, i, id) == RuleOf(layers, i, id) /\ layers[i].rules[id].immutable
Wins(layers, n, i, id) ==
  /\ RuleOf(layers, i, id)
  /\ \/ Fixes(layers, i, id) /\ \A j \in 1..n: Fixes(layers, j, id) => i <= j
     \/ \A j \in 1..n: RuleOf(layers, j, id) => j <= i /\ ~Fixes(layers, j, id)

SlotOf(layers, i, id) ==
  [branch |-> layers[i].branch, effect |-> layers[i].rules[id].effect,
   immutable |-> layers[i].rules[id].immutable]

Composed(layers, n, slots, id) ==
  /\ id \in DOMAIN slots <=> \E i \in 1..n: RuleOf(layers, i, id)
  /\ \A i \in 1..n: Wins(layers, n, i, id) => slots[id] = SlotOf(layers, i, id)
  /\ id \in DOMAIN slots => \E i \in 1..n: Wins(layers, n, i, id)

LEMMA OverlayComposed ==
  ASSUME NEW layers, NEW n \in Nat, NEW slots, NEW id,
         Composed(layers, n, slots, id)
  PROVE  Composed(layers, n + 1, Overlay(slots, layers[n + 1]), id)
<1> DEFINE new == Overlay(slots, layers[n + 1])
           F(i) == Fixes(layers, i, id)
           H(i) == RuleOf(layers, i, id)
<1> SUFFICES Composed(layers, n + 1, new, id)
  OBVIOUS
<1>1. /\ id \in DOMAIN new <=> id \in DOMAIN slots \/ H(n + 1)
      /\ id \in DOMAIN new =>
           new[id] = IF H(n + 1) /\ ~Immutable(slots, id)
                     THEN SlotOf(layers, n + 1, id) ELSE slots[id]
  BY Zenon DEF Overlay, RuleOf, SlotOf
<1>2. \A i \in 1..(n + 1): i \in 1..n \/ i = n + 1
  OBVIOUS
<1>3. \A i \in 1..n: i \in 1..(n + 1) /\ i \in Nat /\ i < n + 1
  OBVIOUS
<1>4. Immutable(slots, id) <=> \E i \in 1..n: F(i)
  <2>1. ASSUME Immutable(slots, id)
        PROVE  \E i \in 1..n: F(i)
    <3>1. PICK i \in 1..n: Wins(layers, n, i, id)
      BY <2>1 DEF Composed, Immutable
    <3>2. slots[id].immutable /\ slots[id] = SlotOf(layers, i, id)
      BY <2>1, <3>1 DEF Composed, Immutable
    <3>3. layers[i].rules[id].immutable
      BY <3>2 DEF SlotOf
    <3>4. QED
      BY <3>1, <3>3 DEF Wins, Fixes
  <2>2. ASSUME NEW j \in 1..n, F(j)
        PROVE  Immutable(slots, id)
    <3>1. id \in DOMAIN slots
      BY <2>2 DEF Composed, Fixes
    <3>2. PICK i \in 1..n: Wins(layers, n, i, id)
      BY <3>1 DEF Composed
    <3>3. F(i) /\ slots[id] = SlotOf(layers, i, id)
      BY <2>2, <3>2 DEF Composed, Wins, Fixes
    <3>4. QED
      BY <3>1, <3>3 DEF Immutable, SlotOf, Fixes
  <2>3. QED
    BY <2>1, <2>2
<1>5. \A i: F(i) => H(i)
  BY DEF Fixes
<1>6. CASE ~H(n + 1)
  <2>1. ~F(n + 1)
    BY <1>5, <1>6
  <2>2. \A i \in 1..n: Wins(layers, n + 1, i, id) <=> Wins(layers, n, i, id)
    BY <1>2, <1>3, <1>6, <2>1 DEF Wins
  <2>3. ~Wins(layers, n + 1, n + 1, id)
    BY <1>6 DEF Wins
  <2>4. id \in DOMAIN new <=> \E i \in 1..(n + 1): H(i)
    BY <1>1, <1>2, <1>3, <1>6 DEF Composed
  <2>5. ASSUME NEW i \in 1..(n + 1), Wins(layers, n + 1, i, id)
        PROVE  new[id] = SlotOf(layers, i, id)
    <3>1. i \in 1..n /\ Wins(layers, n, i, id)
      BY <1>2, <2>2, <2>3, <2>5
    <3>2. slots[id] = SlotOf(layers, i, id) /\ id \in DOMAIN slots
      BY <3>1 DEF Composed, Wins
    <3> HIDE DEF new
    <3>3. QED
      BY <1>1, <1>6, <3>2
  <2>6. ASSUME id \in DOMAIN new
        PROVE  \E i \in 1..(n + 1): Wins(layers, n + 1, i, id)
    <3>1. id \in DOMAIN slots
      BY <1>1, <1>6, <2>6
    <3>2. PICK i \in 1..n: Wins(layers, n, i, id)
      BY <3>1 DEF Composed
    <3>3. QED
      BY <1>3, <2>2, <3>2
  <2> HIDE DEF new
  <2>7. QED
    BY <2>4, <2>5, <2>6, Zenon DEF Composed
<1>7. CASE H(n + 1) /\ Immutable(slots, id)
  <2>1. id \in DOMAIN slots
    BY <1>7 DEF Immutable
  <2>2. PICK i \in 1..n: Wins(layers, n, i, id)
    BY <2>1 DEF Composed
  <2>3. PICK j \in 1..n: F(j)
    BY <1>4, <1>7
  <2>4. F(i) /\ \A k \in 1..n: F(k) => i <= k
    BY <2>2, <2>3, <1>5 DEF Wins
  <2>5. \A k \in 1..(n + 1): F(k) => i <= k
    BY <1>2, <1>3, <2>4
  <2>6. Wins(layers, n + 1, i, id)
    BY <2>2, <2>4, <2>5 DEF Wins
  <2>7. \A k \in 1..(n + 1): Wins(layers, n + 1, k, id) => k = i
    <3>1. SUFFICES ASSUME NEW k \in 1..(n + 1), Wins(layers, n + 1, k, id)
                   PROVE  k = i
      OBVIOUS
    <3>2. F(k) /\ \A l \in 1..(n + 1): F(l) => k <= l
      BY <1>3, <1>5, <2>4, <3>1 DEF Wins
    <3>3. k <= i /\ i <= k
      BY <1>3, <2>4, <2>5, <3>2
    <3>4. QED
      BY <3>3
  <2>8. new[id] = SlotOf(layers, i, id) /\ id \in DOMAIN new
    BY <1>1, <1>7, <2>1, <2>2 DEF Composed
  <2> HIDE DEF new
  <2>9. id \in DOMAIN new <=> \E k \in 1..(n + 1): H(k)
    BY <1>7, <2>8
  <2>10. \A k \in 1..(n + 1): Wins(layers, n + 1, k, id) => new[id] = SlotOf(layers, k, id)
    BY <2>7, <2>8
  <2>11. \E k \in 1..(n + 1): Wins(layers, n + 1, k, id)
    BY <1>3, <2>6
  <2>12. QED
    BY <2>9, <2>10, <2>11, Zenon DEF Composed
<1>8. CASE H(n + 1) /\ ~Immutable(slots, id)
  <2>1. \A j \in 1..n: ~F(j)
    BY <1>4, <1>8
  <2>2. Wins(layers, n + 1, n + 1, id)
    BY <1>2, <1>3, <1>8, <2>1 DEF Wins
  <2>3. \A k \in 1..n: ~Wins(layers, n + 1, k, id)
    BY <1>3, <1>8, <2>1 DEF Wins
  <2>4. new[id] = SlotOf(layers, n + 1, id) /\ id \in DOMAIN new
    BY <1>1, <1>8
  <2> HIDE DEF new
  <2>5. n + 1 \in 1..(n + 1)
    OBVIOUS
  <2>6. id \in DOMAIN new <=> \E k \in 1..(n + 1): H(k)
    BY <1>8, <2>4, <2>5
  <2>7. \A k \in 1..(n + 1): Wins(layers, n + 1, k, id) => new[id] = SlotOf(layers, k, id)
    BY <1>2, <2>3, <2>4
  <2>8. \E k \in 1..(n + 1): Wins(layers, n + 1, k, id)
    BY <2>2, <2>5
  <2>9. QED
    BY <2>6, <2>7, <2>8, Zenon DEF Composed
<1>9. QED
  BY <1>6, <1>7, <1>8

LEMMA ComposedIs ==
  ASSUME NEW layers, Len(layers) \in Nat, NEW id
  PROVE  Composed(layers, Len(layers), Compose(layers), id)
<1>1. PICK h: /\ Compose(layers) = h[Len(layers)]
              /\ h[0] = NoSlots
              /\ \A n \in 1..Len(layers): h[n] = Overlay(h[n - 1], layers[n])
  BY Composition
<1> DEFINE G == {n \in 0..Len(layers): Composed(layers, n, h[n], id)}
<1>2. 0 \in G
  BY <1>1 DEF Composed, NoSlots
<1>3. ASSUME NEW n \in 0..Len(layers), n \in G, n < Len(layers)
      PROVE  n + 1 \in G
  <2>1. n \in Nat /\ n + 1 \in 1..Len(layers) /\ n + 1 \in 0..Len(layers) /\ (n + 1) - 1 = n
    BY <1>3
  <2>2. h[n + 1] = Overlay(h[n], layers[n + 1])
    BY <1>1, <2>1
  <2>3. QED
    BY <1>3, <2>1, <2>2, OverlayComposed
<1> HIDE DEF G
<1>4. 0..Len(layers) \subseteq G
  BY <1>2, <1>3, Induction
<1>5. Len(layers) \in G
  BY <1>4
<1>6. QED
  BY <1>1, <1>5 DEF G

-----------------------------------------------------------------------------
(* The layers: branches in the order of their scopes and publications.     *)

PoliciesOK == published \in Seq(PolicyRevs)

BranchFacts ==
  /\ IsFiniteSet(Branches)
  /\ \A b \in Branches: ScopeOf[b] \in 1..4
  /\ \A b \in Branches:
       /\ LatestOf(b) \in DOMAIN published
       /\ BranchOf[published[LatestOf(b)]] = b
       /\ \A i \in DOMAIN published:
            BranchOf[published[i]] = b => i <= LatestOf(b)

LEMMA BranchesAre == PoliciesOK => BranchFacts
<1> SUFFICES ASSUME published \in Seq(PolicyRevs) PROVE BranchFacts
  BY DEF PoliciesOK
<1>1. DOMAIN published = 1..Len(published) /\ Len(published) \in Nat
      /\ \A i \in DOMAIN published: published[i] \in PolicyRevs
  OBVIOUS
<1>2. IsFiniteSet(Branches)
  <2> DEFINE f == [i \in DOMAIN published |-> BranchOf[published[i]]]
  <2>1. f \in Surjection(DOMAIN published, Branches)
    BY DEF Surjection, Branches
  <2>2. IsFiniteSet(DOMAIN published)
    BY <1>1, FS_Interval
  <2>3. QED
    BY <2>1, <2>2, FS_Surjection
<1>3. \A b \in Branches: ScopeOf[b] \in 1..4
  BY <1>1, EvaluationAssumption DEF Branches
<1>4. ASSUME NEW b \in Branches
      PROVE  /\ LatestOf(b) \in DOMAIN published
             /\ BranchOf[published[LatestOf(b)]] = b
             /\ \A i \in DOMAIN published: BranchOf[published[i]] = b => i <= LatestOf(b)
  <2> DEFINE T == {i \in DOMAIN published: BranchOf[published[i]] = b}
             Latest(i) == /\ BranchOf[published[i]] = b
                          /\ \A j \in DOMAIN published: j > i => BranchOf[published[j]] # b
  <2>1. PICK n \in T: \A k \in T: k <= n
    <3>1. T \in SUBSET (1..Len(published)) /\ T # {}
      BY <1>1 DEF Branches
    <3> HIDE DEF T
    <3>2. QED
      BY <1>1, <3>1, GreatestNat
  <2>2. n \in DOMAIN published /\ Latest(n)
    BY <1>1, <2>1
  <2>3. LatestOf(b) = CHOOSE i \in DOMAIN published: Latest(i)
    BY DEF LatestOf
  <2> HIDE DEF Latest
  <2>4. LatestOf(b) \in DOMAIN published /\ Latest(LatestOf(b))
    BY <2>2, <2>3, Zenon
  <2>5. QED
    BY <1>1, <2>4 DEF Latest
<1>5. QED
  BY <1>2, <1>3, <1>4 DEF BranchFacts

LEMMA PrecedesOrders ==
  ASSUME PoliciesOK
  PROVE  /\ \A b \in Branches: ~Precedes(b, b)
         /\ \A b, c, d \in Branches: Precedes(b, c) /\ Precedes(c, d) => Precedes(b, d)
         /\ \A b, c \in Branches: b # c => Precedes(b, c) \/ Precedes(c, b)
<1>1. \A b \in Branches: ScopeOf[b] \in Int /\ LatestOf(b) \in Int
  <2>1. DOMAIN published \subseteq Int
    BY DEF PoliciesOK
  <2>2. QED
    BY <2>1, BranchesAre DEF BranchFacts
<1>2. \A b, c \in Branches: LatestOf(b) = LatestOf(c) => b = c
  BY BranchesAre DEF BranchFacts
<1>3. \A b \in Branches: ~Precedes(b, b)
  BY <1>1 DEF Precedes
<1>4. \A b, c, d \in Branches: Precedes(b, c) /\ Precedes(c, d) => Precedes(b, d)
  BY <1>1 DEF Precedes
<1>5. \A b, c \in Branches: b # c => Precedes(b, c) \/ Precedes(c, b)
  BY <1>1, <1>2 DEF Precedes
<1>6. QED
  BY <1>3, <1>4, <1>5

(* How many layers are below a branch's. *)
Below(b) == {c \in Branches: Precedes(c, b)}
Rank(b) == Cardinality(Below(b))
Depth == Cardinality(Branches)

LEMMA RankOrders ==
  ASSUME PoliciesOK
  PROVE  /\ Depth \in Nat
         /\ \A b \in Branches: Rank(b) \in 0..(Depth - 1)
         /\ \A b, c \in Branches: Precedes(b, c) <=> Rank(b) < Rank(c)
         /\ \A b, c \in Branches: Rank(b) = Rank(c) => b = c
         /\ \A i \in 0..(Depth - 1): \E b \in Branches: Rank(b) = i
<1>1. IsFiniteSet(Branches) /\ Depth \in Nat
  BY BranchesAre, FS_CardinalityType DEF BranchFacts, Depth
<1>2. ASSUME NEW S \in SUBSET Branches, NEW b \in Branches, b \notin S
      PROVE  Cardinality(S) \in Nat /\ Cardinality(S) < Depth
  <2>1. IsFiniteSet(S) /\ Cardinality(S) \in Nat /\ Cardinality(S) <= Depth
    BY <1>1, FS_Subset, FS_CardinalityType DEF Depth
  <2>2. Cardinality(S) # Depth
    BY <1>1, <1>2, FS_Subset DEF Depth
  <2>3. QED
    BY <1>1, <2>1, <2>2
<1>3. ASSUME NEW b \in Branches
      PROVE  Rank(b) \in 0..(Depth - 1)
  <2>1. b \notin Below(b) /\ Below(b) \in SUBSET Branches
    BY PrecedesOrders DEF Below
  <2>2. Rank(b) \in Nat /\ Rank(b) < Depth
    BY <1>2, <2>1 DEF Rank
  <2>3. QED
    BY <1>1, <2>2
<1>4. ASSUME NEW b \in Branches, NEW c \in Branches, Precedes(b, c)
      PROVE  Rank(b) < Rank(c)
  <2>1. Below(b) \in SUBSET Below(c) /\ b \in Below(c) /\ b \notin Below(b)
    BY <1>4, PrecedesOrders DEF Below
  <2>2. IsFiniteSet(Below(c))
    BY <1>1, FS_Subset DEF Below
  <2>3. Rank(b) <= Rank(c) /\ Rank(b) # Rank(c)
    BY <2>1, <2>2, FS_Subset DEF Rank
  <2>4. Rank(b) \in Int /\ Rank(c) \in Int
    BY <1>3
  <2>5. QED
    BY <2>3, <2>4
<1>5. \A b, c \in Branches: Precedes(b, c) <=> Rank(b) < Rank(c)
  <2>1. \A b, c \in Branches: Rank(b) < Rank(c) => ~(Rank(c) < Rank(b)) /\ b # c
    BY <1>3
  <2>2. QED
    BY <1>4, <2>1, PrecedesOrders
<1>6. \A b, c \in Branches: Rank(b) = Rank(c) => b = c
  <2>1. \A b, c \in Branches: Rank(b) = Rank(c) => ~(Rank(b) < Rank(c)) /\ ~(Rank(c) < Rank(b))
    BY <1>3
  <2>2. QED
    BY <1>5, <2>1, PrecedesOrders
<1>7. ASSUME NEW i \in 0..(Depth - 1)
      PROVE  \E b \in Branches: Rank(b) = i
  <2> DEFINE T == 0..(Depth - 1)
             f == [b \in Branches |-> Rank(b)]
  <2>1. f \in Injection(Branches, T)
    BY <1>3, <1>6 DEF Injection, IsInjective
  <2>2. IsFiniteSet(T) /\ Cardinality(T) = Depth
    BY <1>1, FS_Interval
  <2>3. f \in Surjection(Branches, T)
    <3> HIDE DEF T, f
    <3>1. QED
      BY <2>1, <2>2, FS_Injection DEF Depth
  <2>4. QED
    BY <2>3 DEF Surjection
<1>8. QED
  BY <1>1, <1>3, <1>5, <1>6, <1>7

(* A branch's layer is one above those below it. *)
LEMMA LayersAre ==
  ASSUME PoliciesOK
  PROVE  /\ Len(Layers) = Depth
         /\ \A b \in Branches:
              Layers[Rank(b) + 1] = [branch |-> b, rules |-> RulesNow(b)]
<1> DEFINE Nth(i) == CHOOSE b \in Branches:
                       Cardinality({c \in Branches: Precedes(c, b)}) = i - 1
           At(i) == [branch |-> Nth(i), rules |-> RulesNow(Nth(i))]
<1>1. Layers = [i \in 1..Depth |-> At(i)]
  BY DEF Layers, Depth
<1>2. Depth \in Nat
  BY RankOrders
<1>3. Len(Layers) = Depth
  <2> HIDE DEF At
  <2>1. Layers \in Seq({At(i): i \in 1..Depth})
    BY <1>1, <1>2
  <2>2. DOMAIN Layers = 1..Depth
    BY <1>1, Zenon
  <2>3. DOMAIN Layers = 1..Len(Layers) /\ Len(Layers) \in Nat
    BY <2>1
  <2>4. QED
    BY <1>2, <2>2, <2>3
<1>4. ASSUME NEW b \in Branches
      PROVE  Layers[Rank(b) + 1] = [branch |-> b, rules |-> RulesNow(b)]
  <2>1. Rank(b) \in 0..(Depth - 1) /\ Rank(b) + 1 \in 1..Depth /\ (Rank(b) + 1) - 1 = Rank(b)
    BY <1>2, RankOrders
  <2>2. Nth(Rank(b) + 1) = CHOOSE c \in Branches: Rank(c) = (Rank(b) + 1) - 1
    BY Zenon DEF Rank, Below
  <2>3. Nth(Rank(b) + 1) = CHOOSE c \in Branches: Rank(c) = Rank(b)
    BY <2>1, <2>2
  <2> HIDE DEF Nth
  <2>4. Nth(Rank(b) + 1) \in Branches /\ Rank(Nth(Rank(b) + 1)) = Rank(b)
    BY <2>3, Zenon
  <2>5. Nth(Rank(b) + 1) = b
    BY <2>4, RankOrders
  <2>6. QED
    BY <1>1, <2>1, <2>5
<1>5. QED
  BY <1>3, <1>4

(* The slot of a branch's rule, and which rules are in force, without      *)
(* composing anything.                                                     *)
Slot(b, id) ==
  [branch |-> b, effect |-> RulesNow(b)[id].effect,
   immutable |-> RulesNow(b)[id].immutable]

InForceIsComposed ==
  /\ \A b \in Branches: \A id \in InForce(b):
       id \in DOMAIN Slots /\ Slots[id] = Slot(b, id)
  /\ \A b \in Branches: \A id \in DOMAIN RulesNow(b): id \in DOMAIN Slots
  /\ \A id \in DOMAIN Slots: \E b \in Branches: id \in InForce(b)

LEMMA InForceLemma == PoliciesOK => InForceIsComposed
<1> SUFFICES ASSUME PoliciesOK PROVE InForceIsComposed
  OBVIOUS
<1> DEFINE N == Depth
           At(b) == Rank(b) + 1
<1>1. /\ N \in Nat /\ Len(Layers) = N
      /\ \A b \in Branches: /\ At(b) \in 1..N
                            /\ Layers[At(b)] = [branch |-> b, rules |-> RulesNow(b)]
      /\ \A i \in 1..N: \E b \in Branches: At(b) = i
      /\ \A b, c \in Branches: Precedes(b, c) <=> At(b) < At(c)
      /\ \A b, c \in Branches: At(b) = At(c) => b = c
  <2>1. N \in Nat /\ \A b \in Branches: Rank(b) \in 0..(N - 1)
    BY RankOrders
  <2>2. \A i \in 1..N: \E b \in Branches: At(b) = i
    <3>1. ASSUME NEW i \in 1..N PROVE \E b \in Branches: At(b) = i
      <4>1. i - 1 \in 0..(N - 1)
        BY <2>1
      <4>2. PICK b \in Branches: Rank(b) = i - 1
        BY <4>1, RankOrders
      <4>3. QED
        BY <4>2
    <3>2. QED
      BY <3>1
  <2>3. \A b \in Branches: Rank(b) \in Int /\ At(b) \in 1..N
    BY <2>1
  <2>4. \A b, c \in Branches: (Precedes(b, c) <=> At(b) < At(c)) /\ (At(b) = At(c) => b = c)
    BY <2>3, RankOrders
  <2>5. /\ Len(Layers) = N
        /\ \A b \in Branches: Layers[At(b)] = [branch |-> b, rules |-> RulesNow(b)]
    BY LayersAre
  <2> HIDE DEF At, N
  <2>6. QED
    BY <2>1, <2>2, <2>3, <2>4, <2>5
<1>2. \A b \in Branches: At(b) \in Int
  BY RankOrders
<1>3. ASSUME NEW b \in Branches
      PROVE  Layers[At(b)].branch = b /\ Layers[At(b)].rules = RulesNow(b)
  <2>1. Layers[At(b)] = [branch |-> b, rules |-> RulesNow(b)]
    BY LayersAre
  <2>2. QED
    BY <2>1
<1> HIDE DEF At, N
<1>4. \A b \in Branches: \A id:
        /\ RuleOf(Layers, At(b), id) <=> id \in DOMAIN RulesNow(b)
        /\ Fixes(Layers, At(b), id) <=>
             id \in DOMAIN RulesNow(b) /\ RulesNow(b)[id].immutable
        /\ SlotOf(Layers, At(b), id) = Slot(b, id)
  <2>1. TAKE b \in Branches
  <2>2. Layers[At(b)].branch = b /\ Layers[At(b)].rules = RulesNow(b)
    BY <1>3
  <2>3. QED
    BY <2>2, Zenon DEF RuleOf, Fixes, SlotOf, Slot
<1>5. \A id: Composed(Layers, N, Slots, id)
  BY <1>1, ComposedIs DEF Slots
<1>6. ASSUME NEW b \in Branches, NEW id \in DOMAIN RulesNow(b)
      PROVE  id \in InForce(b) <=> Wins(Layers, N, At(b), id)
  <2>1. id \in InForce(b) <=> \A c \in Branches: ~Beats(c, b, id)
    BY <1>6 DEF InForce
  <2>2. RuleOf(Layers, At(b), id) /\ At(b) \in 1..N
    BY <1>1, <1>4, <1>6
  <2>3. CASE RulesNow(b)[id].immutable
    <3>1. Fixes(Layers, At(b), id)
      BY <1>4, <1>6, <2>3
    <3>2. Wins(Layers, N, At(b), id) <=> \A j \in 1..N: Fixes(Layers, j, id) => At(b) <= j
      BY <2>2, <3>1 DEF Wins
    <3>3. \A c \in Branches: Beats(c, b, id) <=> Fixes(Layers, At(c), id) /\ At(c) < At(b)
      BY <1>1, <1>4, <1>6, <2>3 DEF Beats
    <3>4. (\A j \in 1..N: Fixes(Layers, j, id) => At(b) <= j) <=>
          \A c \in Branches: Fixes(Layers, At(c), id) => At(b) <= At(c)
      BY <1>1, Zenon
    <3>5. \A c \in Branches: At(b) <= At(c) <=> ~(At(c) < At(b))
      BY <1>2
    <3>6. QED
      BY <2>1, <3>2, <3>3, <3>4, <3>5
  <2>4. CASE ~RulesNow(b)[id].immutable
    <3>1. ~Fixes(Layers, At(b), id)
      BY <1>4, <1>6, <2>4
    <3>2. Wins(Layers, N, At(b), id) <=>
          \A j \in 1..N: RuleOf(Layers, j, id) => j <= At(b) /\ ~Fixes(Layers, j, id)
      BY <2>2, <3>1 DEF Wins
    <3>3. \A c \in Branches: Beats(c, b, id) <=>
            RuleOf(Layers, At(c), id) /\ (Fixes(Layers, At(c), id) \/ At(b) < At(c))
      BY <1>1, <1>4, <1>6, <2>4 DEF Beats
    <3>4. (\A j \in 1..N: RuleOf(Layers, j, id) => j <= At(b) /\ ~Fixes(Layers, j, id)) <=>
          \A c \in Branches: RuleOf(Layers, At(c), id) =>
                               At(c) <= At(b) /\ ~Fixes(Layers, At(c), id)
      BY <1>1, Zenon
    <3>5. \A c \in Branches: At(c) <= At(b) <=> ~(At(b) < At(c))
      BY <1>2
    <3>6. QED
      BY <2>1, <3>2, <3>3, <3>4, <3>5
  <2>5. QED
    BY <2>3, <2>4
<1>7. ASSUME NEW b \in Branches, NEW id \in InForce(b)
      PROVE  id \in DOMAIN Slots /\ Slots[id] = Slot(b, id)
  <2>1. id \in DOMAIN RulesNow(b)
    BY <1>7 DEF InForce
  <2>2. Wins(Layers, N, At(b), id) /\ At(b) \in 1..N /\ RuleOf(Layers, At(b), id)
    BY <1>1, <1>4, <1>6, <1>7, <2>1
  <2>3. QED
    BY <1>4, <1>5, <2>2, Zenon DEF Composed
<1>8. ASSUME NEW b \in Branches, NEW id \in DOMAIN RulesNow(b)
      PROVE  id \in DOMAIN Slots
  <2>1. RuleOf(Layers, At(b), id) /\ At(b) \in 1..N
    BY <1>1, <1>4, <1>8
  <2>2. QED
    BY <1>5, <2>1, Zenon DEF Composed
<1>9. ASSUME NEW id \in DOMAIN Slots
      PROVE  \E b \in Branches: id \in InForce(b)
  <2>1. PICK i \in 1..N: Wins(Layers, N, i, id)
    BY <1>5, <1>9, Zenon DEF Composed
  <2>2. PICK b \in Branches: At(b) = i
    BY <1>1
  <2>3. id \in DOMAIN RulesNow(b)
    BY <1>4, <2>1, <2>2 DEF Wins
  <2>4. QED
    BY <1>6, <2>1, <2>2, <2>3
<1>10. QED
  BY <1>7, <1>8, <1>9 DEF InForceIsComposed

-----------------------------------------------------------------------------
(* What a publication changes: the branch that published becomes the last  *)
(* of its scope, and the others keep their rules and their order.          *)

LEMMA BranchesAreNext == PoliciesOK' => BranchFacts'
BY BranchesAre, PTL

LEMMA InForceNext == PoliciesOK' => InForceIsComposed'
BY InForceLemma, PTL

LEMMA PublicationMoves ==
  ASSUME PoliciesOK, NEW p \in PolicyRevs,
         published' = Append(published, p)
  PROVE  /\ PoliciesOK'
         /\ Branches' = Branches \cup {BranchOf[p]}
         /\ LatestOf(BranchOf[p])' = Len(published) + 1
         /\ \A b \in Branches: b # BranchOf[p] =>
              LatestOf(b)' = LatestOf(b) /\ RulesNow(b)' = RulesNow(b)
<1> DEFINE N == Len(published)
<1>1. /\ N \in Nat /\ DOMAIN published = 1..N /\ DOMAIN published' = 1..(N + 1)
      /\ published'[N + 1] = p
      /\ \A i \in 1..N: published'[i] = published[i]
      /\ published' \in Seq(PolicyRevs)
  BY DEF PoliciesOK
<1> HIDE DEF N
<1>2. \A i \in 1..(N + 1): i \in 1..N \/ i = N + 1
  BY <1>1
<1>3. N + 1 \in 1..(N + 1) /\ \A i \in 1..N: i \in 1..(N + 1) /\ i <= N
  BY <1>1
<1>4. Branches' = Branches \cup {BranchOf[p]}
  <2>1. Branches' = {BranchOf[published'[i]]: i \in 1..(N + 1)}
    BY <1>1 DEF Branches
  <2>2. Branches = {BranchOf[published[i]]: i \in 1..N}
    BY <1>1 DEF Branches
  <2>3. \A b \in Branches': b \in Branches \cup {BranchOf[p]}
    BY <1>1, <1>2, <2>1, <2>2
  <2>4. \A b \in Branches \cup {BranchOf[p]}: b \in Branches'
    BY <1>1, <1>3, <2>1, <2>2
  <2>5. QED
    BY <2>3, <2>4
<1>5. BranchFacts /\ BranchFacts'
  BY <1>1, BranchesAre, BranchesAreNext DEF PoliciesOK
<1>6. LatestOf(BranchOf[p])' = N + 1
  <2>1. /\ LatestOf(BranchOf[p])' \in 1..(N + 1)
        /\ N + 1 <= LatestOf(BranchOf[p])'
    BY <1>1, <1>3, <1>4, <1>5 DEF BranchFacts
  <2>2. QED
    BY <1>1, <2>1
<1>7. ASSUME NEW b \in Branches, b # BranchOf[p]
      PROVE  LatestOf(b)' = LatestOf(b) /\ RulesNow(b)' = RulesNow(b)
  <2> DEFINE n == LatestOf(b)
             m == LatestOf(b)'
  <2>1. n \in 1..N /\ BranchOf[published[n]] = b
        /\ \A i \in 1..N: BranchOf[published[i]] = b => i <= n
    BY <1>1, <1>5 DEF BranchFacts
  <2>2. m \in 1..(N + 1) /\ BranchOf[published'[m]] = b
        /\ \A i \in 1..(N + 1): BranchOf[published'[i]] = b => i <= m
    BY <1>1, <1>4, <1>5 DEF BranchFacts
  <2> HIDE DEF n, m
  <2>3. m # N + 1
    BY <1>1, <1>7, <2>2
  <2>4. m \in 1..N /\ published'[m] = published[m]
    BY <1>1, <1>2, <2>2, <2>3
  <2>5. m <= n /\ n <= m
    BY <1>1, <1>3, <2>1, <2>2, <2>4
  <2>6. m = n
    BY <2>1, <2>4, <2>5
  <2>7. RulesNow(b)' = RulesOf[published'[m]] /\ RulesNow(b) = RulesOf[published[n]]
    BY DEF RulesNow, m, n
  <2>8. QED
    BY <2>4, <2>6, <2>7 DEF m, n
<1>8. QED
  BY <1>1, <1>4, <1>6, <1>7 DEF N, PoliciesOK

(* An immutable rule in force keeps its slot through a publication, unless *)
(* its own branch publishes or one of a broader scope fixes its id.        *)
LEMMA ImmutableStays ==
  ASSUME PoliciesOK, NEW p \in PolicyRevs,
         published' = Append(published, p),
         NEW id \in DOMAIN Slots, NEW slot, slot = Slots[id], slot.immutable
  PROVE  Stays(id, slot)
<1> DEFINE own == BranchOf[p]
<1>1. PoliciesOK'
  BY PublicationMoves
<1>2. InForceIsComposed /\ InForceIsComposed' /\ BranchFacts /\ BranchFacts'
  BY <1>1, BranchesAre, BranchesAreNext, InForceLemma, InForceNext
<1>3. PICK b \in Branches: id \in InForce(b)
  BY <1>2 DEF InForceIsComposed
<1>4. slot = Slot(b, id)
  BY <1>2, <1>3 DEF InForceIsComposed
<1>5. slot.branch = b /\ RulesNow(b)[id].immutable /\ id \in DOMAIN RulesNow(b)
  BY <1>3, <1>4 DEF Slot, InForce
<1>6. /\ Branches' = Branches \cup {own}
      /\ LatestOf(own)' = Len(published) + 1
      /\ \A c \in Branches: c # own =>
           LatestOf(c)' = LatestOf(c) /\ RulesNow(c)' = RulesNow(c)
  BY PublicationMoves
<1>7. \A c \in Branches: LatestOf(c) \in 1..Len(published)
  BY <1>2 DEF BranchFacts
<1>8. CASE b = own
  <2>1. LatestOf(b)' # LatestOf(b)
    <3>1. Len(published) \in Nat
      BY DEF PoliciesOK
    <3>2. LatestOf(b) \in Int /\ LatestOf(b) <= Len(published)
      BY <1>7, <3>1
    <3>3. QED
      BY <1>6, <1>8, <3>1, <3>2
  <2>2. QED
    BY <1>5, <2>1 DEF Stays
<1>9. CASE b # own
  <2>1. RulesNow(b)' = RulesNow(b) /\ LatestOf(b)' = LatestOf(b) /\ b \in Branches'
    BY <1>6, <1>9
  <2>2. CASE id \in InForce(b)'
    <3>1. id \in DOMAIN Slots' /\ Slots'[id] = Slot(b, id)'
      BY <1>2, <2>1, <2>2 DEF InForceIsComposed
    <3>2. Slot(b, id)' = Slot(b, id)
      BY <2>1 DEF Slot
    <3>3. QED
      BY <1>4, <3>1, <3>2 DEF Stays
  <2>3. CASE id \notin InForce(b)'
    <3>1. PICK c \in Branches': Beats(c, b, id)'
      BY <1>5, <2>1, <2>3 DEF InForce
    <3>2. id \in DOMAIN RulesNow(c)' /\ RulesNow(c)'[id].immutable /\ Precedes(c, b)'
      BY <1>5, <2>1, <3>1 DEF Beats
    <3>3. c = own
      <4>1. SUFFICES ASSUME c # own PROVE FALSE
        OBVIOUS
      <4>2. c \in Branches /\ RulesNow(c)' = RulesNow(c) /\ LatestOf(c)' = LatestOf(c)
        BY <1>6, <4>1
      <4>3. Precedes(c, b)
        BY <2>1, <3>2, <4>2 DEF Precedes
      <4>4. Beats(c, b, id)
        BY <1>5, <3>2, <4>2, <4>3 DEF Beats
      <4>5. QED
        BY <1>3, <4>2, <4>4 DEF InForce
    <3>4. ScopeOf[own] < ScopeOf[b]
      <4>1. Len(published) \in Nat /\ LatestOf(b)' \in 1..Len(published)
        BY <1>7, <2>1 DEF PoliciesOK
      <4>2. ~(LatestOf(own)' < LatestOf(b)')
        BY <1>6, <4>1
      <4>3. QED
        BY <3>2, <3>3, <4>2 DEF Precedes
    <3>5. id \in DOMAIN Slots'
      BY <1>2, <3>2 DEF InForceIsComposed
    <3>6. PICK w \in Branches': id \in InForce(w)'
      BY <1>2, <3>5 DEF InForceIsComposed
    <3>7. Slots'[id] = Slot(w, id)' /\ ~Beats(own, w, id)'
      BY <1>2, <3>3, <3>6 DEF InForceIsComposed, InForce
    <3>8. RulesNow(w)'[id].immutable /\ ~Precedes(own, w)'
      BY <3>2, <3>3, <3>7 DEF Beats
    <3>9. ScopeOf[w] <= ScopeOf[own]
      <4>1. ScopeOf[w] \in Int /\ ScopeOf[own] \in Int
        BY <1>2, <1>6, <3>6 DEF BranchFacts
      <4>2. QED
        BY <3>8, <4>1 DEF Precedes
    <3>10. Immutable(Slots', id) /\ Slots'[id].branch = w
      BY <3>5, <3>7, <3>8 DEF Immutable, Slot
    <3>11. ScopeOf[w] < ScopeOf[b]
      <4>1. ScopeOf[w] \in Int /\ ScopeOf[own] \in Int /\ ScopeOf[b] \in Int
        BY <1>2, <1>6, <3>6 DEF BranchFacts
      <4>2. QED
        BY <3>4, <3>9, <4>1
    <3>12. QED
      BY <1>5, <3>10, <3>11 DEF Stays
  <2>4. QED
    BY <2>2, <2>3
<1>10. QED
  BY <1>8, <1>9

(* An immutable rule in force is displaced by its own branch or by one of  *)
(* a broader scope, whatever is published and in whatever order.           *)
THEOREM ImmutableTheorem == Spec => ImmutableRulesStayInForce
<1> DEFINE Kept == published' # published =>
             \A id \in DOMAIN Slots: \E slot \in {Slots[id]}: slot.immutable => Stays(id, slot)
<1>1. BlueprintInv /\ [Next]_vars => [Kept]_vars
  <2> SUFFICES ASSUME BlueprintInv, Next, published' # published,
                      NEW id \in DOMAIN Slots, NEW slot \in {Slots[id]}, slot.immutable
               PROVE  Stays(id, slot)
    BY DEF vars
  <2>1. BlueprintNext
    BY CallLeavesBlueprint DEF Next, blueprintVars
  <2>2. PICK p \in PolicyRevs: PublishPolicy(p)
    BY <2>1 DEF BlueprintNext, CreateRevision, Submit, CheckReadiness, Publish, Rollback,
                Review
  <2>3. QED
    BY <2>2, ImmutableStays DEF PublishPolicy, BlueprintInv, PoliciesOK
<1>2. QED
  BY <1>1, BlueprintTheorem, PTL DEF Spec, ImmutableRulesStayInForce

-----------------------------------------------------------------------------
(* The calls.  What is true of a call at each of its steps, so that nothing *)
(* that held against it all along is overlooked.                           *)

WorkingPcs == {"safeguards", "count", "policy", "envelope", "latest", "layers", "persist"}
Done == [pc |-> "done"]
CallRecord == [pc: WorkingPcs, in: Inputs, outcome: Outcomes, blueprint: Nat]

CallsTyped ==
  /\ call \in [Calls -> {Idle, Done} \cup CallRecord]
  /\ rows \in Nat
  /\ since \in [Calls -> SUBSET Conditions]

(* What the thresholds, the policy, the envelope and the budget ask of an  *)
(* outcome.                                                                *)
Thresholds(c) ==
  /\ call[c].in.risk = "ABORT" => call[c].outcome = "ABORT"
  /\ call[c].in.risk = "ESCALATE" => call[c].outcome # "PROCEED"
  /\ c \in WorkerCalls /\ call[c].in.large /\ call[c].in.risk = "PROCEED" =>
       call[c].outcome = "ABORT"
Obeys(c) ==
  /\ "denied" \in since[c] => call[c].outcome = "ABORT"
  /\ "held" \in since[c] => call[c].outcome # "PROCEED"
Inside(c) == {"outside", "found"} \subseteq since[c] => call[c].outcome = "ABORT"
Within(c) == {"spent", "found"} \subseteq since[c] => call[c].outcome # "PROCEED"

(* The Blueprint a call has read is still there, and is the one in force   *)
(* all along, if that was found.                                           *)
TokensGone(c, r) == DefinitionOf(r).fewTokens /\ call[c].in.big
Limited(r) == DefinitionOf(r).maxToolCalls # None
CallsGone(r) == rows >= DefinitionOf(r).maxToolCalls

Counting(c) ==
  /\ call[c].blueprint \in DOMAIN revisions /\ Limited(call[c].blueprint)
  /\ {"spent", "found"} \subseteq since[c] => CallsGone(call[c].blueprint)
Knowing(c) ==
  LET r == call[c].blueprint
  IN /\ r \in DOMAIN revisions \cup {0}
     /\ {"outside", "found"} \subseteq since[c] => Violates(r)
     /\ {"spent", "found"} \subseteq since[c] =>
          r # 0 /\ (TokensGone(c, r) \/ (Limited(r) /\ CallsGone(r)))

SafeguardsAt(c) == c \in WorkerCalls /\ Thresholds(c) /\ call[c].outcome = "PROCEED"
CountAt(c) ==
  /\ Thresholds(c) /\ Counting(c) /\ call[c].outcome = "PROCEED"
  /\ c \notin WorkerCalls => Obeys(c) /\ Inside(c)
PolicyAt(c) == c \in WorkerCalls /\ Thresholds(c) /\ Within(c)
EnvelopeAt(c) == c \in WorkerCalls /\ Thresholds(c) /\ Within(c) /\ Obeys(c)
ReadingAt(c) ==
  c \notin WorkerCalls /\ call[c].outcome = call[c].in.risk /\ Knowing(c)
PersistAt(c) == Thresholds(c) /\ Within(c) /\ Obeys(c) /\ Inside(c)

CallAt(c) ==
  /\ call[c].pc = "safeguards" => SafeguardsAt(c)
  /\ call[c].pc = "count" => CountAt(c)
  /\ call[c].pc = "policy" => PolicyAt(c)
  /\ call[c].pc = "envelope" => EnvelopeAt(c)
  /\ call[c].pc \in {"latest", "layers"} => ReadingAt(c)
  /\ call[c].pc = "persist" => PersistAt(c)

EvaluationIInv == BlueprintIInv /\ CallsTyped /\ \A c \in Calls: CallAt(c)

(* The newest publication is one, and no other has its stamp.              *)
LEMMA NewestIs ==
  ASSUME BlueprintIInv, NEW rs \in SUBSET PublishedRevs
  PROVE  /\ rs = {} => NewestOf(rs) = 0
         /\ rs # {} => /\ NewestOf(rs) \in rs
                       /\ \A s \in rs: revisions[s].at <= revisions[NewestOf(rs)].at
<1>1. CASE rs = {}
  BY <1>1 DEF NewestOf
<1>2. CASE rs # {}
  <2> DEFINE T == {revisions[r].at: r \in rs}
             Newest(r) == \A s \in rs: revisions[s].at <= revisions[r].at
  <2>1. clock \in Nat /\ \A r \in rs: revisions[r].at \in 1..clock
    <3>1. clock \in Nat /\ revisions \in Seq(Revision)
      BY DEF BlueprintIInv, BlueprintInv, StampsApart
    <3>2. ASSUME NEW r \in rs PROVE revisions[r].at \in 1..clock
      <4>1. r \in DOMAIN revisions /\ revisions[r].status = "PUBLISHED"
        BY DEF PublishedRevs
      <4>2. revisions[r] \in Revision
        BY <3>1, <4>1
      <4>3. revisions[r].at \in Nat /\ revisions[r].at > 0 /\ revisions[r].at <= clock
        BY <4>1, <4>2 DEF BlueprintIInv, BlueprintInv, StampsApart, Revision
      <4>4. QED
        BY <3>1, <4>3
    <3>3. QED
      BY <3>1, <3>2
  <2>2. PICK n \in T: \A k \in T: k <= n
    <3>1. T \in SUBSET (1..clock) /\ T # {}
      BY <1>2, <2>1
    <3> HIDE DEF T
    <3>2. QED
      BY <2>1, <3>1, GreatestNat
  <2>3. PICK r \in rs: Newest(r)
    BY <2>2
  <2>4. NewestOf(rs) = CHOOSE x \in rs: Newest(x)
    BY <1>2 DEF NewestOf
  <2> HIDE DEF Newest
  <2>5. NewestOf(rs) \in rs /\ Newest(NewestOf(rs))
    BY <2>3, <2>4, Zenon
  <2>6. QED
    BY <1>2, <2>5 DEF Newest
<1>3. QED
  BY <1>1, <1>2

LEMMA CurrentIs ==
  ASSUME BlueprintIInv
  PROVE  /\ 0 \notin DOMAIN revisions /\ DOMAIN revisions \subseteq Nat
         /\ Current = 0 \/ Current \in PublishedRevs
         /\ WorkerBlueprint \in DOMAIN revisions \cup {0}
         /\ active = Current => WorkerBlueprint = Current
         /\ \A context: /\ WebBlueprint(context) \in DOMAIN revisions \cup {0}
                        /\ (Current # 0 => BoundTo(Current, context)) =>
                             WebBlueprint(context) = Current
<1>1. revisions \in Seq(Revision) /\ DOMAIN revisions = 1..Len(revisions)
      /\ Len(revisions) \in Nat
  BY DEF BlueprintIInv, BlueprintInv
<1>2. 0 \notin DOMAIN revisions /\ DOMAIN revisions \subseteq Nat
  BY <1>1
<1>3. Current = 0 \/ Current \in PublishedRevs
  BY NewestIs DEF Current
<1>4. WorkerBlueprint \in DOMAIN revisions \cup {0}
  BY DEF WorkerBlueprint, Has
<1>5. active = Current => WorkerBlueprint = Current
  BY <1>2, <1>3 DEF WorkerBlueprint, Has, PublishedRevs
<1>6. ASSUME NEW context
      PROVE  /\ WebBlueprint(context) \in DOMAIN revisions \cup {0}
             /\ (Current # 0 => BoundTo(Current, context)) => WebBlueprint(context) = Current
  <2> DEFINE rs == {r \in PublishedRevs: BoundTo(r, context)}
             n == NewestOf(rs)
  <2>1. /\ rs \in SUBSET PublishedRevs /\ WebBlueprint(context) = n
        /\ PublishedRevs \in SUBSET DOMAIN revisions
    BY DEF WebBlueprint, PublishedRevs
  <2>2. /\ rs = {} => n = 0
        /\ rs # {} => n \in rs /\ \A s \in rs: revisions[s].at <= revisions[n].at
    BY <2>1, NewestIs
  <2>3. /\ PublishedRevs = {} => Current = 0
        /\ PublishedRevs # {} => /\ Current \in PublishedRevs
                                 /\ \A s \in PublishedRevs: revisions[s].at <= revisions[Current].at
    BY NewestIs DEF Current
  <2>4. ASSUME Current # 0, BoundTo(Current, context) PROVE n = Current
    <3>1. Current \in rs /\ Current \in PublishedRevs
      BY <1>3, <2>4
    <3>2. n \in rs /\ n \in PublishedRevs
      BY <2>2, <3>1
    <3>3. revisions[Current].at <= revisions[n].at
      BY <2>2, <3>1
    <3>4. revisions[n].at <= revisions[Current].at
      BY <2>3, <3>1, <3>2
    <3>5. revisions[n].at \in Int /\ revisions[Current].at \in Int
      <4>1. revisions[n] \in Revision /\ revisions[Current] \in Revision
        BY <1>1, <2>1, <3>1, <3>2
      <4>2. QED
        BY <4>1 DEF Revision
    <3>6. revisions[n].at = revisions[Current].at
      BY <3>3, <3>4, <3>5
    <3>7. QED
      BY <3>1, <3>2, <3>6 DEF BlueprintIInv, StampsApart
  <2>5. ASSUME Current = 0 PROVE n = 0
    <3>1. PublishedRevs = {}
      BY <1>2, <2>1, <2>3, <2>5
    <3>2. QED
      BY <2>1, <2>2, <3>1
  <2>6. n \in DOMAIN revisions \cup {0}
    BY <2>1, <2>2
  <2> HIDE DEF n, rs
  <2>7. QED
    BY <2>1, <2>4, <2>5, <2>6
<1>7. QED
  BY <1>2, <1>3, <1>4, <1>5, <1>6

(* What is said by the rules of the composition is said by a rule in force. *)
LEMMA EffectsInForce ==
  ASSUME PoliciesOK, NEW effect
  PROVE  effect \in {Slots[id].effect: id \in DOMAIN Slots} <=> SomeInForce(effect)
<1>1. ASSUME SomeInForce(effect)
      PROVE  effect \in {Slots[id].effect: id \in DOMAIN Slots}
  <2>1. PICK b \in Branches: \E id \in InForce(b): RulesNow(b)[id].effect = effect
    BY <1>1, Zenon DEF SomeInForce
  <2>2. PICK id \in InForce(b): RulesNow(b)[id].effect = effect
    BY <2>1
  <2>3. id \in DOMAIN Slots /\ Slots[id] = Slot(b, id)
    BY InForceLemma DEF InForceIsComposed
  <2>4. Slots[id].effect = effect
    BY <2>2, <2>3 DEF Slot
  <2>5. QED
    BY <2>3, <2>4
<1>2. ASSUME NEW id \in DOMAIN Slots, effect = Slots[id].effect
      PROVE  SomeInForce(effect)
  <2>1. PICK b \in Branches: id \in InForce(b)
    BY InForceLemma DEF InForceIsComposed
  <2>2. Slots[id] = Slot(b, id)
    BY <2>1, InForceLemma DEF InForceIsComposed
  <2>3. RulesNow(b)[id].effect = effect
    BY <1>2, <2>2 DEF Slot
  <2>4. QED
    BY <2>1, <2>3, Zenon DEF SomeInForce
<1>3. QED
  BY <1>1, <1>2

(* The verdict of composing layer by layer is the strictest effect among   *)
(* the rules in force.                                                     *)
VerdictIsStrictest ==
  /\ Verdict(Slots) = "DENY" <=> SomeInForce("DENY")
  /\ Verdict(Slots) = "ESCALATE" <=> SomeInForce("ESCALATE") /\ ~SomeInForce("DENY")

LEMMA VerdictLemma == PoliciesOK => VerdictIsStrictest
BY EffectsInForce DEF VerdictIsStrictest, Verdict, Strictest

(* In every reachable state the gateway's verdict, from layers composed in *)
(* the order of scopes and publications (eval.rs), is that of the rules in *)
(* force, which are defined without composing anything.                    *)
THEOREM VerdictTheorem == Spec => []VerdictIsStrictest
<1>1. BlueprintInv => PoliciesOK
  BY DEF BlueprintInv, PoliciesOK
<1>2. QED
  BY <1>1, VerdictLemma, BlueprintTheorem, PTL

LEMMA VerdictObeys ==
  ASSUME PoliciesOK
  PROVE  /\ SomeInForce("DENY") => Verdict(Slots) = "DENY"
         /\ SomeInForce("ESCALATE") => Verdict(Slots) \in {"DENY", "ESCALATE"}
BY VerdictLemma DEF VerdictIsStrictest

LEMMA MergeObeys ==
  ASSUME NEW outcome \in Outcomes, NEW verdict
  PROVE  /\ Merge(outcome, verdict) \in Outcomes
         /\ verdict = "DENY" \/ outcome = "ABORT" => Merge(outcome, verdict) = "ABORT"
         /\ verdict = "ESCALATE" \/ outcome # "PROCEED" => Merge(outcome, verdict) # "PROCEED"
BY DEF Merge, Outcomes

(* What a call's history says of the state it is in, as long as nothing    *)
(* but the call moves.                                                     *)
WatchFacts(c) ==
  /\ since'[c] \subseteq Conditions
  /\ UnderWay(c) => since'[c] \subseteq since[c]
  /\ "denied" \in since'[c] => SomeInForce("DENY")
  /\ "held" \in since'[c] => SomeInForce("DENY") \/ SomeInForce("ESCALATE")
  /\ "outside" \in since'[c] => Current # 0 /\ ~DefinitionOf(Current).allows
  /\ "found" \in since'[c] =>
       IF c \in WorkerCalls THEN active = Current
       ELSE Current # 0 => BoundTo(Current, call'[c].in.context)
  /\ "spent" \in since'[c] =>
       /\ Current # 0
       /\ \/ DefinitionOf(Current).fewTokens /\ call'[c].in.big
          \/ Limited(Current) /\ rows' >= DefinitionOf(Current).maxToolCalls

LEMMA SinceIs ==
  ASSUME Watch, NEW c \in Calls
  PROVE  /\ since'[c] = IF call'[c].pc \in {"idle", "done"} THEN {}
                        ELSE {k \in IF UnderWay(c) THEN since[c] ELSE Conditions: Holds(k, c)'}
         /\ DOMAIN since' = Calls
BY DEF Watch

LEMMA PolicyUnmoved ==
  ASSUME published' = published, NEW effect
  PROVE  SomeInForce(effect)' <=> SomeInForce(effect)
BY DEF SomeInForce, InForce, Beats, Branches, RulesNow, LatestOf, Precedes

LEMMA BlueprintUnmoved ==
  ASSUME UNCHANGED <<active, revisions>>
  PROVE  Current' = Current
BY DEF Current, NewestOf, PublishedRevs

LEMMA Watching ==
  ASSUME CallsTyped, Watch, UNCHANGED blueprintVars, NEW c \in Calls
  PROVE  WatchFacts(c)
<1>1. since[c] \subseteq Conditions
  BY DEF CallsTyped
<1>2. published' = published /\ active' = active /\ revisions' = revisions
  BY DEF blueprintVars
<1>3. ASSUME NEW k \in since'[c]
      PROVE  /\ k \in Conditions
             /\ UnderWay(c) => k \in since[c]
             /\ Holds(k, c)'
  BY <1>1, <1>3, SinceIs
<1>4. Current' = Current
  BY <1>2, BlueprintUnmoved
<1>5. ASSUME "denied" \in since'[c] PROVE SomeInForce("DENY")
  <2>1. SomeInForce("DENY")'
    BY <1>3, <1>5 DEF Holds
  <2>2. QED
    BY <1>2, <2>1, PolicyUnmoved
<1>6. ASSUME "held" \in since'[c] PROVE SomeInForce("DENY") \/ SomeInForce("ESCALATE")
  <2>1. SomeInForce("DENY")' \/ SomeInForce("ESCALATE")'
    BY <1>3, <1>6 DEF Holds
  <2>2. QED
    BY <1>2, <2>1, PolicyUnmoved
<1>7. ASSUME "outside" \in since'[c] PROVE Current # 0 /\ ~DefinitionOf(Current).allows
  <2>1. Violates(Current)'
    BY <1>3, <1>7 DEF Holds
  <2>2. QED
    BY <1>2, <1>4, <2>1 DEF Violates, DefinitionOf
<1>8. ASSUME "found" \in since'[c]
      PROVE  IF c \in WorkerCalls THEN active = Current
             ELSE Current # 0 => BoundTo(Current, call'[c].in.context)
  <2>1. Found(c)'
    BY <1>3, <1>8 DEF Holds
  <2>2. QED
    BY <1>2, <1>4, <2>1 DEF Found, BoundTo
<1>9. ASSUME "spent" \in since'[c]
      PROVE  /\ Current # 0
             /\ \/ DefinitionOf(Current).fewTokens /\ call'[c].in.big
                \/ Limited(Current) /\ rows' >= DefinitionOf(Current).maxToolCalls
  <2>1. Spent(c)'
    BY <1>3, <1>9 DEF Holds
  <2>2. QED
    BY <1>2, <1>4, <2>1 DEF Spent, DefinitionOf, Limited
<1>10. QED
  BY <1>3, <1>5, <1>6, <1>7, <1>8, <1>9 DEF WatchFacts

(* What holds of a call still does after any step that is not its own.     *)
LEMMA OthersKeep ==
  ASSUME BlueprintIInv, CallsTyped, Grows, Watch, rows' \in Nat, rows <= rows',
         NEW c \in Calls, call'[c] = call[c], CallAt(c)
  PROVE  CallAt(c)'
<1>1. SUFFICES ASSUME UnderWay(c) PROVE CallAt(c)'
  BY DEF CallAt, UnderWay
<1>2. since'[c] \subseteq since[c]
  BY <1>1, SinceIs
<1>3. \A r \in DOMAIN revisions: /\ r \in DOMAIN revisions'
                                 /\ DefinitionOf(r)' = DefinitionOf(r)
  BY DEF Grows, DefinitionOf
<1>4. \A r \in DOMAIN revisions: Limited(r) => DefinitionOf(r).maxToolCalls \in Nat
  <2>1. TAKE r \in DOMAIN revisions
  <2>2. revisions[r] \in Revision
    BY DEF BlueprintIInv, BlueprintInv
  <2>3. DefinitionOf(r) \in Definition
    BY <2>2, BlueprintAssumption DEF DefinitionOf, Revision
  <2>4. QED
    BY <2>3 DEF Limited, Definition
<1>5. \A r \in DOMAIN revisions: /\ Limited(r)' <=> Limited(r)
                                 /\ TokensGone(c, r)' <=> TokensGone(c, r)
                                 /\ Limited(r) /\ CallsGone(r) => CallsGone(r)'
  BY <1>3, <1>4 DEF Limited, TokensGone, CallsGone, CallsTyped
<1>6. \A r \in DOMAIN revisions \cup {0}: r \in (DOMAIN revisions \cup {0})' /\ (Violates(r) => Violates(r)')
  BY <1>3 DEF Violates
<1>7. Thresholds(c) => Thresholds(c)'
  BY DEF Thresholds
<1>8. (Obeys(c) => Obeys(c)') /\ (Inside(c) => Inside(c)') /\ (Within(c) => Within(c)')
  BY <1>2 DEF Obeys, Inside, Within
<1>9. Counting(c) => Counting(c)'
  BY <1>2, <1>3, <1>5 DEF Counting
<1>10. Knowing(c) => Knowing(c)'
  BY <1>2, <1>5, <1>6 DEF Knowing
<1>11. QED
  BY <1>7, <1>8, <1>9, <1>10
     DEF CallAt, SafeguardsAt, CountAt, PolicyAt, EnvelopeAt, ReadingAt, PersistAt

(* The record of a call after a step of its own.                           *)
LEMMA BecomeIs ==
  ASSUME CallsTyped, NEW c \in Calls, UnderWay(c), NEW pc \in WorkingPcs,
         NEW outcome \in Outcomes, Become(c, pc, outcome)
  PROVE  /\ call[c] \in CallRecord
         /\ call' \in [Calls -> {Idle, Done} \cup CallRecord]
         /\ call'[c] \in CallRecord
         /\ call'[c].pc = pc /\ call'[c].outcome = outcome
         /\ call'[c].in = call[c].in /\ call'[c].blueprint = call[c].blueprint
         /\ \A d \in Calls: d # c => call'[d] = call[d]
<1> DEFINE new == [call[c] EXCEPT !.pc = pc, !.outcome = outcome]
<1>1. call[c] \in CallRecord
  BY DEF CallsTyped, UnderWay, Idle, Done
<1>2. /\ new \in CallRecord /\ new.pc = pc /\ new.outcome = outcome
      /\ new.in = call[c].in /\ new.blueprint = call[c].blueprint
  BY <1>1 DEF CallRecord
<1>3. call' = [call EXCEPT ![c] = new]
  BY <1>1 DEF Become, CallsTyped, CallRecord
<1> HIDE DEF new
<1>4. QED
  BY <1>1, <1>2, <1>3 DEF CallsTyped

(* A step of call c moves no other call and leaves c at its next step.     *)
Moved(c) ==
  /\ call' \in [Calls -> {Idle, Done} \cup CallRecord]
  /\ rows' \in Nat /\ rows <= rows'
  /\ \A d \in Calls: d # c => call'[d] = call[d]
  /\ CallAt(c)'

LEMMA InputIs ==
  ASSUME NEW in \in Inputs
  PROVE  in.risk \in Outcomes /\ in.large \in BOOLEAN
BY EvaluationAssumption DEF Input

(* Where the budgets of Blueprint r leave a call.                          *)
LEMMA BudgetIs ==
  ASSUME BlueprintIInv, CallsTyped, NEW c \in Calls, UnderWay(c),
         NEW r \in DOMAIN revisions \cup {0}, NEW next \in {"policy", "persist"},
         Budget(c, r, next)
  PROVE  /\ call' \in [Calls -> {Idle, Done} \cup CallRecord]
         /\ call'[c].in = call[c].in
         /\ \A d \in Calls: d # c => call'[d] = call[d]
         /\ \/ /\ call'[c].pc = next /\ call'[c].outcome = "PROCEED"
               /\ r # 0 => ~TokensGone(c, r) /\ ~Limited(r)
            \/ call'[c].pc = next /\ call'[c].outcome = "ESCALATE"
            \/ /\ call'[c].pc = "count" /\ call'[c].outcome = "PROCEED"
               /\ call'[c].blueprint = r /\ r # 0
               /\ Limited(r) /\ ~TokensGone(c, r)
<1>1. next \in WorkingPcs /\ "PROCEED" \in Outcomes /\ "ESCALATE" \in Outcomes
  BY DEF WorkingPcs, Outcomes
<1>2. CASE r = 0
  <2>1. Become(c, next, "PROCEED")
    BY <1>2 DEF Budget
  <2>2. QED
    BY <1>1, <1>2, <2>1, BecomeIs
<1>3. CASE r # 0 /\ TokensGone(c, r)
  <2>1. Become(c, next, "ESCALATE")
    BY <1>3 DEF Budget, TokensGone
  <2>2. QED
    BY <1>1, <2>1, BecomeIs
<1>4. CASE r # 0 /\ ~TokensGone(c, r)
  <2> DEFINE pc == IF Limited(r) THEN "count" ELSE next
             new == [call[c] EXCEPT !.blueprint = r, !.outcome = "PROCEED", !.pc = pc]
  <2>1. call[c] \in CallRecord
    BY DEF CallsTyped, UnderWay, Idle, Done
  <2>2. pc \in WorkingPcs /\ r \in Nat
    BY <1>1, CurrentIs DEF WorkingPcs
  <2>3. /\ new \in CallRecord /\ new.pc = pc /\ new.outcome = "PROCEED"
        /\ new.in = call[c].in /\ new.blueprint = r
    <3> HIDE DEF pc
    <3>1. QED
      BY <1>1, <2>1, <2>2 DEF CallRecord
  <2>4. call' = [call EXCEPT ![c] = new]
    <3>1. call' = [call EXCEPT ![c].blueprint = r, ![c].outcome = "PROCEED",
                     ![c].pc = IF DefinitionOf(r).maxToolCalls = None THEN next ELSE "count"]
      BY <1>4 DEF Budget, TokensGone
    <3>2. pc = IF DefinitionOf(r).maxToolCalls = None THEN next ELSE "count"
      BY DEF Limited
    <3>3. call' = [call EXCEPT ![c].blueprint = r, ![c].outcome = "PROCEED", ![c].pc = pc]
      BY <3>1, <3>2
    <3> HIDE DEF pc
    <3>4. QED
      BY <2>1, <3>3 DEF CallsTyped, CallRecord
  <2> HIDE DEF new
  <2>5. /\ call' \in [Calls -> {Idle, Done} \cup CallRecord]
        /\ call'[c] = new
        /\ \A d \in Calls: d # c => call'[d] = call[d]
    BY <2>3, <2>4 DEF CallsTyped
  <2>6. QED
    BY <1>4, <2>3, <2>5
<1>5. QED
  BY <1>2, <1>3, <1>4

LEMMA WorkerBeginsKeeps ==
  ASSUME EvaluationIInv, Watch, NEW c \in WorkerCalls, NEW in \in Inputs, WorkerBegins(c, in)
  PROVE  Moved(c)
<1> DEFINE outcome == IF in.risk = "PROCEED" /\ in.large THEN "ABORT" ELSE in.risk
           pc == IF outcome = "PROCEED" THEN "safeguards" ELSE "policy"
           new == [pc |-> pc, in |-> in, outcome |-> outcome, blueprint |-> 0]
<1>1. c \in Calls /\ outcome \in Outcomes /\ pc \in WorkingPcs
  BY InputIs DEF Calls, Outcomes, WorkingPcs
<1>2. call' = [call EXCEPT ![c] = new] /\ rows' = rows
  BY DEF WorkerBegins
<1>3. /\ new \in CallRecord /\ new.pc = pc /\ new.outcome = outcome /\ new.in = in
  <2> HIDE DEF pc, outcome
  <2>1. QED
    BY <1>1 DEF CallRecord
<1>4. /\ in.risk = "ABORT" => outcome = "ABORT"
      /\ in.risk = "ESCALATE" => outcome # "PROCEED"
      /\ in.large /\ in.risk = "PROCEED" => outcome = "ABORT"
      /\ IF outcome = "PROCEED" THEN pc = "safeguards" ELSE pc = "policy"
  <2>1. CASE in.risk = "PROCEED" /\ in.large
    <3>1. outcome = "ABORT" /\ pc = "policy" /\ in.risk = "PROCEED"
      BY <2>1
    <3> HIDE DEF outcome, pc
    <3>2. QED
      BY <3>1
  <2>2. CASE ~(in.risk = "PROCEED" /\ in.large)
    <3>1. outcome = in.risk /\ pc = IF in.risk = "PROCEED" THEN "safeguards" ELSE "policy"
      BY <2>2
    <3> HIDE DEF outcome, pc
    <3>2. ~(in.large /\ in.risk = "PROCEED")
      BY <2>2
    <3>3. IF outcome = "PROCEED" THEN pc = "safeguards" ELSE pc = "policy"
      BY <3>1
    <3>4. QED
      BY <3>1, <3>2, <3>3
  <2>3. QED
    BY <2>1, <2>2
<1> HIDE DEF new, pc, outcome
<1>5. /\ call' \in [Calls -> {Idle, Done} \cup CallRecord] /\ call'[c] = new
      /\ \A d \in Calls: d # c => call'[d] = call[d]
  BY <1>1, <1>2, <1>3 DEF EvaluationIInv, CallsTyped
<1>6. Thresholds(c)'
  BY <1>3, <1>4, <1>5 DEF Thresholds
<1>7. CallAt(c)'
  BY <1>3, <1>4, <1>5, <1>6 DEF CallAt, SafeguardsAt, PolicyAt, Within
<1>8. QED
  BY <1>2, <1>5, <1>7 DEF Moved, EvaluationIInv, CallsTyped

LEMMA WebBeginsKeeps ==
  ASSUME EvaluationIInv, Watch, NEW c \in WebCalls, NEW in \in Inputs, WebBegins(c, in)
  PROVE  Moved(c)
<1>0. PICK r: r = WebBlueprint(in.context)
  OBVIOUS
<1> DEFINE new == [pc |-> "latest", in |-> in, outcome |-> in.risk, blueprint |-> r]
<1>1. c \in Calls /\ c \notin WorkerCalls /\ in.risk \in Outcomes
  BY InputIs, EvaluationAssumption DEF Calls
<1>2. call' = [call EXCEPT ![c] = new] /\ rows' = rows /\ UNCHANGED blueprintVars
  BY <1>0 DEF WebBegins
<1>3. r \in DOMAIN revisions \cup {0} /\ r \in Nat
  BY <1>0, CurrentIs DEF EvaluationIInv
<1>4. (Current # 0 => BoundTo(Current, in.context)) => r = Current
  BY <1>0, CurrentIs DEF EvaluationIInv
<1>5. /\ new \in CallRecord /\ new.pc = "latest" /\ new.outcome = in.risk
      /\ new.in = in /\ new.blueprint = r
  BY <1>1, <1>3 DEF CallRecord, WorkingPcs
<1> HIDE DEF new
<1>6. /\ call' \in [Calls -> {Idle, Done} \cup CallRecord] /\ call'[c] = new
      /\ \A d \in Calls: d # c => call'[d] = call[d]
  BY <1>1, <1>2, <1>5 DEF EvaluationIInv, CallsTyped
<1>7. WatchFacts(c)
  BY <1>1, <1>2, Watching DEF EvaluationIInv
<1>8. revisions' = revisions
  BY <1>2 DEF blueprintVars
<1>9. "found" \in since'[c] => r = Current
  BY <1>1, <1>4, <1>5, <1>6, <1>7 DEF WatchFacts
<1>10. {"outside", "found"} \subseteq since'[c] => Violates(r)'
  BY <1>7, <1>8, <1>9 DEF WatchFacts, Violates, DefinitionOf
<1>11. {"spent", "found"} \subseteq since'[c] =>
         r # 0 /\ (TokensGone(c, r)' \/ (Limited(r)' /\ CallsGone(r)'))
  BY <1>5, <1>6, <1>7, <1>8, <1>9 DEF WatchFacts, TokensGone, Limited, CallsGone, DefinitionOf
<1>12. Knowing(c)'
  BY <1>3, <1>5, <1>6, <1>8, <1>10, <1>11 DEF Knowing
<1>13. CallAt(c)'
  BY <1>1, <1>5, <1>6, <1>12 DEF CallAt, ReadingAt
<1>14. QED
  BY <1>2, <1>6, <1>13 DEF Moved, EvaluationIInv, CallsTyped

(* Where a call stands when it is about to consult a Blueprint: what was    *)
(* found and watched through the step is the revision r.                   *)
LEMMA SafeguardsKeeps ==
  ASSUME EvaluationIInv, Watch, NEW c \in Calls, Safeguards(c)
  PROVE  Moved(c)
<1>0. PICK r: r = WorkerBlueprint
  OBVIOUS
<1>1. /\ UnderWay(c) /\ SafeguardsAt(c) /\ c \in WorkerCalls
      /\ Budget(c, r, "policy") /\ rows' = rows /\ UNCHANGED blueprintVars
  BY <1>0 DEF EvaluationIInv, CallAt, Safeguards, UnderWay, SafeguardsAt
<1>2. /\ r \in DOMAIN revisions \cup {0}
      /\ active = Current => r = Current
  BY <1>0, CurrentIs DEF EvaluationIInv
<1>3. /\ call' \in [Calls -> {Idle, Done} \cup CallRecord]
      /\ call'[c].in = call[c].in
      /\ \A d \in Calls: d # c => call'[d] = call[d]
      /\ \/ /\ call'[c].pc = "policy" /\ call'[c].outcome = "PROCEED"
            /\ r # 0 => ~TokensGone(c, r) /\ ~Limited(r)
         \/ call'[c].pc = "policy" /\ call'[c].outcome = "ESCALATE"
         \/ /\ call'[c].pc = "count" /\ call'[c].outcome = "PROCEED"
            /\ call'[c].blueprint = r /\ r # 0
            /\ Limited(r) /\ ~TokensGone(c, r)
  <2>1. "policy" \in {"policy", "persist"}
    OBVIOUS
  <2>2. QED
    BY <1>1, <1>2, <2>1, BudgetIs DEF EvaluationIInv
<1>4. WatchFacts(c)
  BY <1>1, Watching DEF EvaluationIInv
<1>5. {"spent", "found"} \subseteq since'[c] =>
         r # 0 /\ (TokensGone(c, r) \/ (Limited(r) /\ CallsGone(r)))
  BY <1>1, <1>2, <1>3, <1>4 DEF WatchFacts, TokensGone, CallsGone
<1>6. revisions' = revisions
  BY <1>1 DEF blueprintVars
<1>7. Thresholds(c)'
  BY <1>1, <1>3 DEF SafeguardsAt, Thresholds
<1>8. CASE call'[c].pc = "policy" /\ call'[c].outcome = "PROCEED"
  <2>1. ~({"spent", "found"} \subseteq since'[c])
    BY <1>3, <1>5, <1>8
  <2>2. PolicyAt(c)'
    BY <1>1, <1>7, <2>1 DEF PolicyAt, Within
  <2>3. CallAt(c)'
    BY <1>8, <2>2 DEF CallAt
  <2>4. QED
    BY <1>1, <1>3, <2>3 DEF Moved, EvaluationIInv, CallsTyped
<1>9. CASE call'[c].pc = "policy" /\ call'[c].outcome = "ESCALATE"
  <2>1. PolicyAt(c)'
    BY <1>1, <1>7, <1>9 DEF PolicyAt, Within
  <2>2. CallAt(c)'
    BY <1>9, <2>1 DEF CallAt
  <2>3. QED
    BY <1>1, <1>3, <2>2 DEF Moved, EvaluationIInv, CallsTyped
<1>10. CASE /\ call'[c].pc = "count" /\ call'[c].outcome = "PROCEED"
            /\ call'[c].blueprint = r /\ r # 0
            /\ Limited(r) /\ ~TokensGone(c, r)
  <2>1. r \in DOMAIN revisions' /\ Limited(r)' /\ CallsGone(r)' = CallsGone(r)
    BY <1>1, <1>2, <1>6, <1>10 DEF Limited, CallsGone, DefinitionOf
  <2>2. Counting(c)'
    BY <1>5, <1>10, <2>1 DEF Counting, Limited, CallsGone, DefinitionOf
  <2>3. CountAt(c)'
    BY <1>1, <1>7, <1>10, <2>2 DEF CountAt
  <2>4. CallAt(c)'
    BY <1>10, <2>3 DEF CallAt
  <2>5. QED
    BY <1>1, <1>3, <2>4 DEF Moved, EvaluationIInv, CallsTyped
<1>11. QED
  BY <1>3, <1>8, <1>9, <1>10

LEMMA CountCallsKeeps ==
  ASSUME EvaluationIInv, Watch, NEW c \in Calls, CountCalls(c)
  PROVE  Moved(c)
<1> DEFINE next == IF c \in WorkerCalls THEN "policy" ELSE "persist"
           outcome == IF rows >= DefinitionOf(call[c].blueprint).maxToolCalls
                      THEN "ABORT" ELSE "PROCEED"
<1>1. /\ UnderWay(c) /\ CountAt(c)
      /\ Become(c, next, outcome) /\ rows' = rows /\ UNCHANGED blueprintVars
  BY DEF EvaluationIInv, CallAt, CountCalls, UnderWay
<1>2. next \in WorkingPcs /\ outcome \in Outcomes
  BY DEF WorkingPcs, Outcomes
<1>3. CallsGone(call[c].blueprint) => outcome = "ABORT"
  BY DEF CallsGone
<1>4. /\ c \in WorkerCalls => next = "policy"
      /\ c \notin WorkerCalls => next = "persist"
  OBVIOUS
<1> HIDE DEF next, outcome
<1>5. /\ call' \in [Calls -> {Idle, Done} \cup CallRecord]
      /\ call'[c].pc = next /\ call'[c].outcome = outcome
      /\ call'[c].in = call[c].in
      /\ \A d \in Calls: d # c => call'[d] = call[d]
  BY <1>1, <1>2, BecomeIs DEF EvaluationIInv
<1>6. since'[c] \subseteq since[c]
  BY <1>1, Watching DEF EvaluationIInv, WatchFacts
<1>7. Thresholds(c)'
  BY <1>1, <1>5 DEF CountAt, Thresholds
<1>8. Within(c)'
  <2>1. {"spent", "found"} \subseteq since'[c] => outcome = "ABORT"
    BY <1>1, <1>3, <1>6 DEF CountAt, Counting
  <2>2. QED
    BY <1>5, <2>1 DEF Within
<1>9. c \notin WorkerCalls => Obeys(c)' /\ Inside(c)'
  BY <1>1, <1>5, <1>6 DEF CountAt, Obeys, Inside
<1>10. CallAt(c)'
  BY <1>4, <1>5, <1>7, <1>8, <1>9 DEF CallAt, PolicyAt, PersistAt
<1>11. QED
  BY <1>1, <1>5, <1>10 DEF Moved, EvaluationIInv, CallsTyped

LEMMA WorkerReadsPolicyKeeps ==
  ASSUME EvaluationIInv, Watch, NEW c \in Calls, WorkerReadsPolicy(c)
  PROVE  Moved(c)
<1>0. PICK verdict: verdict = Verdict(Slots)
  OBVIOUS
<1>1. PICK merged: merged = Merge(call[c].outcome, verdict)
  OBVIOUS
<1>2. /\ UnderWay(c) /\ PolicyAt(c) /\ c \in WorkerCalls
      /\ Become(c, "envelope", merged) /\ rows' = rows /\ UNCHANGED blueprintVars
  BY <1>0, <1>1 DEF EvaluationIInv, CallAt, WorkerReadsPolicy, UnderWay, PolicyAt, Slots
<1>3. call[c].outcome \in Outcomes
  BY <1>2 DEF EvaluationIInv, CallsTyped, UnderWay, Idle, Done, CallRecord
<1>4. /\ merged \in Outcomes
      /\ verdict = "DENY" \/ call[c].outcome = "ABORT" => merged = "ABORT"
      /\ verdict = "ESCALATE" \/ call[c].outcome # "PROCEED" => merged # "PROCEED"
  BY <1>1, <1>3, MergeObeys
<1>5. "envelope" \in WorkingPcs
  BY DEF WorkingPcs
<1>6. /\ call' \in [Calls -> {Idle, Done} \cup CallRecord]
      /\ call'[c].pc = "envelope" /\ call'[c].outcome = merged
      /\ call'[c].in = call[c].in
      /\ \A d \in Calls: d # c => call'[d] = call[d]
  BY <1>2, <1>4, <1>5, BecomeIs DEF EvaluationIInv
<1>7. WatchFacts(c)
  BY <1>2, Watching DEF EvaluationIInv
<1>8. Thresholds(c)' /\ Within(c)'
  BY <1>2, <1>4, <1>6, <1>7 DEF PolicyAt, Thresholds, Within, WatchFacts
<1>9. PoliciesOK
  BY DEF EvaluationIInv, BlueprintIInv, BlueprintInv, PoliciesOK
<1>10. Obeys(c)'
  BY <1>0, <1>4, <1>6, <1>7, <1>9, VerdictObeys DEF Obeys, WatchFacts
<1>11. CallAt(c)'
  BY <1>2, <1>6, <1>8, <1>10 DEF CallAt, EnvelopeAt
<1>12. QED
  BY <1>2, <1>6, <1>11 DEF Moved, EvaluationIInv, CallsTyped

LEMMA EnvelopeKeeps ==
  ASSUME EvaluationIInv, Watch, NEW c \in Calls, Envelope(c)
  PROVE  Moved(c)
<1> DEFINE outcome == IF Violates(WorkerBlueprint) THEN "ABORT" ELSE call[c].outcome
<1>1. /\ UnderWay(c) /\ EnvelopeAt(c) /\ c \in WorkerCalls
      /\ Become(c, "persist", outcome) /\ rows' = rows /\ UNCHANGED blueprintVars
  BY DEF EvaluationIInv, CallAt, Envelope, UnderWay, EnvelopeAt
<1>2. call[c].outcome \in Outcomes
  BY <1>1 DEF EvaluationIInv, CallsTyped, UnderWay, Idle, Done, CallRecord
<1>3. /\ outcome \in Outcomes /\ outcome \in {"ABORT", call[c].outcome}
      /\ Violates(WorkerBlueprint) => outcome = "ABORT"
  BY <1>2 DEF Outcomes
<1>4. "persist" \in WorkingPcs
  BY DEF WorkingPcs
<1> HIDE DEF outcome
<1>5. /\ call' \in [Calls -> {Idle, Done} \cup CallRecord]
      /\ call'[c].pc = "persist" /\ call'[c].outcome = outcome
      /\ call'[c].in = call[c].in
      /\ \A d \in Calls: d # c => call'[d] = call[d]
  BY <1>1, <1>3, <1>4, BecomeIs DEF EvaluationIInv
<1>6. WatchFacts(c)
  BY <1>1, Watching DEF EvaluationIInv
<1>7. Thresholds(c)' /\ Within(c)' /\ Obeys(c)'
  BY <1>1, <1>3, <1>5, <1>6 DEF EnvelopeAt, Thresholds, Within, Obeys, WatchFacts
<1>8. Inside(c)'
  <2>1. {"outside", "found"} \subseteq since'[c] => Violates(WorkerBlueprint)
    <3>1. active = Current => WorkerBlueprint = Current
      BY CurrentIs DEF EvaluationIInv
    <3>2. QED
      BY <1>1, <1>6, <3>1 DEF WatchFacts, Violates
  <2>2. QED
    BY <1>3, <1>5, <2>1 DEF Inside
<1>9. CallAt(c)'
  BY <1>5, <1>7, <1>8 DEF CallAt, PersistAt
<1>10. QED
  BY <1>1, <1>5, <1>9 DEF Moved, EvaluationIInv, CallsTyped

(* The web's conclusion from a verdict that obeys what was watched.        *)
LEMMA ConcludeKeeps ==
  ASSUME EvaluationIInv, Watch, NEW c \in Calls, UnderWay(c), ReadingAt(c), NEW verdict,
         "denied" \in since'[c] => verdict = "DENY",
         "held" \in since'[c] => verdict \in {"DENY", "ESCALATE"},
         Conclude(c, verdict), rows' = rows, UNCHANGED blueprintVars
  PROVE  Moved(c)
<1>0. PICK r: r = call[c].blueprint
  OBVIOUS
<1>1. PICK merged: merged = Merge(call[c].outcome, verdict)
  OBVIOUS
<1>2. /\ c \notin WorkerCalls /\ call[c].outcome = call[c].in.risk
      /\ r \in DOMAIN revisions \cup {0}
      /\ {"outside", "found"} \subseteq since[c] => Violates(r)
      /\ {"spent", "found"} \subseteq since[c] =>
           r # 0 /\ (TokensGone(c, r) \/ (Limited(r) /\ CallsGone(r)))
  BY <1>0 DEF ReadingAt, Knowing
<1>3. call[c].outcome \in Outcomes
  BY DEF EvaluationIInv, CallsTyped, UnderWay, Idle, Done, CallRecord
<1>4. /\ merged \in Outcomes
      /\ verdict = "DENY" \/ call[c].outcome = "ABORT" => merged = "ABORT"
      /\ verdict = "ESCALATE" \/ call[c].outcome # "PROCEED" => merged # "PROCEED"
  BY <1>1, <1>3, MergeObeys
<1>5. since'[c] \subseteq since[c]
  BY Watching DEF EvaluationIInv, WatchFacts
<1>6. "persist" \in WorkingPcs /\ "ABORT" \in Outcomes
  BY DEF WorkingPcs, Outcomes
<1>7. revisions' = revisions
  BY DEF blueprintVars
<1>8. CASE Violates(r)
  <2>1. Become(c, "persist", "ABORT")
    BY <1>0, <1>8 DEF Conclude
  <2>2. /\ call' \in [Calls -> {Idle, Done} \cup CallRecord]
        /\ call'[c].pc = "persist" /\ call'[c].outcome = "ABORT"
        /\ call'[c].in = call[c].in
        /\ \A d \in Calls: d # c => call'[d] = call[d]
    BY <1>6, <2>1, BecomeIs DEF EvaluationIInv
  <2>3. PersistAt(c)'
    BY <1>2, <2>2 DEF PersistAt, Thresholds, Within, Obeys, Inside
  <2>4. CallAt(c)'
    BY <2>2, <2>3 DEF CallAt
  <2>5. QED
    BY <2>2, <2>4 DEF Moved, EvaluationIInv, CallsTyped
<1>9. CASE ~Violates(r) /\ merged # "PROCEED"
  <2>1. Become(c, "persist", merged)
    BY <1>0, <1>1, <1>9 DEF Conclude
  <2>2. /\ call' \in [Calls -> {Idle, Done} \cup CallRecord]
        /\ call'[c].pc = "persist" /\ call'[c].outcome = merged
        /\ call'[c].in = call[c].in
        /\ \A d \in Calls: d # c => call'[d] = call[d]
    BY <1>4, <1>6, <2>1, BecomeIs DEF EvaluationIInv
  <2>3. Thresholds(c)' /\ Within(c)'
    BY <1>2, <1>4, <1>9, <2>2 DEF Thresholds, Within
  <2>4. Obeys(c)'
    BY <1>4, <1>9, <2>2 DEF Obeys
  <2>5. Inside(c)'
    BY <1>2, <1>5, <1>9 DEF Inside
  <2>6. CallAt(c)'
    BY <2>2, <2>3, <2>4, <2>5 DEF CallAt, PersistAt
  <2>7. QED
    BY <2>2, <2>6 DEF Moved, EvaluationIInv, CallsTyped
<1>10. CASE ~Violates(r) /\ merged = "PROCEED"
  <2>1. Budget(c, r, "persist")
    BY <1>0, <1>1, <1>10 DEF Conclude
  <2>2. "persist" \in {"policy", "persist"}
    OBVIOUS
  <2>3. /\ call' \in [Calls -> {Idle, Done} \cup CallRecord]
        /\ call'[c].in = call[c].in
        /\ \A d \in Calls: d # c => call'[d] = call[d]
        /\ \/ /\ call'[c].pc = "persist" /\ call'[c].outcome = "PROCEED"
              /\ r # 0 => ~TokensGone(c, r) /\ ~Limited(r)
           \/ call'[c].pc = "persist" /\ call'[c].outcome = "ESCALATE"
           \/ /\ call'[c].pc = "count" /\ call'[c].outcome = "PROCEED"
              /\ call'[c].blueprint = r /\ r # 0
              /\ Limited(r) /\ ~TokensGone(c, r)
    BY <1>2, <2>1, <2>2, BudgetIs DEF EvaluationIInv
  <2>4. call[c].in.risk = "PROCEED" /\ ~("denied" \in since'[c]) /\ ~("held" \in since'[c])
    BY <1>2, <1>4, <1>10
  <2>5. Thresholds(c)' /\ Obeys(c)' /\ Inside(c)'
    BY <1>2, <1>5, <1>10, <2>3, <2>4 DEF Thresholds, Obeys, Inside
  <2>6. CASE call'[c].pc = "persist" /\ call'[c].outcome = "PROCEED"
    <3>1. Within(c)'
      BY <1>2, <1>5, <2>3, <2>6 DEF Within
    <3>2. CallAt(c)'
      BY <2>5, <2>6, <3>1 DEF CallAt, PersistAt
    <3>3. QED
      BY <2>3, <3>2 DEF Moved, EvaluationIInv, CallsTyped
  <2>7. CASE call'[c].pc = "persist" /\ call'[c].outcome = "ESCALATE"
    <3>1. Within(c)'
      BY <2>7 DEF Within
    <3>2. CallAt(c)'
      BY <2>5, <2>7, <3>1 DEF CallAt, PersistAt
    <3>3. QED
      BY <2>3, <3>2 DEF Moved, EvaluationIInv, CallsTyped
  <2>8. CASE /\ call'[c].pc = "count" /\ call'[c].outcome = "PROCEED"
             /\ call'[c].blueprint = r /\ r # 0
             /\ Limited(r) /\ ~TokensGone(c, r)
    <3>1. {"spent", "found"} \subseteq since'[c] => CallsGone(r)
      BY <1>2, <1>5, <2>8
    <3>2. Counting(c)'
      BY <1>2, <1>7, <2>8, <3>1 DEF Counting, Limited, CallsGone, DefinitionOf
    <3>3. CallAt(c)'
      BY <2>5, <2>8, <3>2 DEF CallAt, CountAt
    <3>4. QED
      BY <2>3, <3>3 DEF Moved, EvaluationIInv, CallsTyped
  <2>9. QED
    BY <2>3, <2>6, <2>7, <2>8
<1>11. QED
  BY <1>8, <1>9, <1>10

LEMMA WebReadsLatestKeeps ==
  ASSUME EvaluationIInv, Watch, NEW c \in Calls, WebReadsLatest(c)
  PROVE  Moved(c)
<1>1. /\ UnderWay(c) /\ ReadingAt(c) /\ rows' = rows /\ UNCHANGED blueprintVars
  BY DEF EvaluationIInv, CallAt, WebReadsLatest, UnderWay
<1>2. WatchFacts(c)
  BY <1>1, Watching DEF EvaluationIInv
<1>3. CASE published = <<>>
  <2>1. Branches = {}
    BY <1>3 DEF Branches
  <2>2. ~SomeInForce("DENY") /\ ~SomeInForce("ESCALATE")
    BY <2>1 DEF SomeInForce
  <2>3. ~("denied" \in since'[c]) /\ ~("held" \in since'[c])
    BY <1>2, <2>2 DEF WatchFacts
  <2>4. Conclude(c, "ALLOW")
    BY <1>3 DEF WebReadsLatest
  <2>5. QED
    BY <1>1, <2>3, <2>4, ConcludeKeeps
<1>4. CASE published # <<>>
  <2>1. Become(c, "layers", call[c].outcome)
    BY <1>4 DEF WebReadsLatest
  <2>2. call[c].outcome \in Outcomes /\ "layers" \in WorkingPcs
    BY <1>1 DEF EvaluationIInv, CallsTyped, UnderWay, Idle, Done, CallRecord, WorkingPcs
  <2>3. /\ call' \in [Calls -> {Idle, Done} \cup CallRecord]
        /\ call'[c].pc = "layers" /\ call'[c].outcome = call[c].outcome
        /\ call'[c].in = call[c].in /\ call'[c].blueprint = call[c].blueprint
        /\ \A d \in Calls: d # c => call'[d] = call[d]
    BY <1>1, <2>1, <2>2, BecomeIs DEF EvaluationIInv
  <2>4. since'[c] \subseteq since[c] /\ revisions' = revisions
    BY <1>1, <1>2 DEF WatchFacts, blueprintVars
  <2>5. ReadingAt(c)'
    BY <1>1, <2>3, <2>4
       DEF ReadingAt, Knowing, Violates, TokensGone, Limited, CallsGone, DefinitionOf
  <2>6. CallAt(c)'
    BY <2>3, <2>5 DEF CallAt
  <2>7. QED
    BY <1>1, <2>3, <2>6 DEF Moved, EvaluationIInv, CallsTyped
<1>5. QED
  BY <1>3, <1>4

LEMMA WebReadsLayersKeeps ==
  ASSUME EvaluationIInv, Watch, NEW c \in Calls, WebReadsLayers(c)
  PROVE  Moved(c)
<1>0. PICK verdict: verdict = Verdict(Slots)
  OBVIOUS
<1>1. /\ UnderWay(c) /\ ReadingAt(c) /\ rows' = rows /\ UNCHANGED blueprintVars
      /\ Conclude(c, verdict)
  BY <1>0 DEF EvaluationIInv, CallAt, WebReadsLayers, UnderWay, Slots
<1>2. WatchFacts(c)
  BY <1>1, Watching DEF EvaluationIInv
<1>3. PoliciesOK
  BY DEF EvaluationIInv, BlueprintIInv, BlueprintInv, PoliciesOK
<1>4. /\ "denied" \in since'[c] => verdict = "DENY"
      /\ "held" \in since'[c] => verdict \in {"DENY", "ESCALATE"}
  BY <1>0, <1>2, <1>3, VerdictObeys DEF WatchFacts
<1>5. QED
  BY <1>1, <1>4, ConcludeKeeps

(* The end of a call, answered or failed.                                  *)
LEMMA EndsKeeps ==
  ASSUME EvaluationIInv, NEW c \in Calls, call' = [call EXCEPT ![c] = Done],
         rows' \in Nat, rows <= rows'
  PROVE  Moved(c)
<1>1. /\ call' \in [Calls -> {Idle, Done} \cup CallRecord]
      /\ call'[c] = Done /\ \A d \in Calls: d # c => call'[d] = call[d]
  BY DEF EvaluationIInv, CallsTyped
<1>2. call'[c].pc = "done"
  BY <1>1 DEF Done
<1>3. CallAt(c)'
  BY <1>2 DEF CallAt
<1>4. QED
  BY <1>1, <1>3 DEF Moved

LEMMA CallStepKeeps ==
  ASSUME EvaluationIInv, Watch, NEW c \in Calls, CallStep(c)
  PROVE  Moved(c)
<1>1. CASE c \in WorkerCalls /\ \E in \in Inputs: WorkerBegins(c, in)
  BY <1>1, WorkerBeginsKeeps
<1>2. CASE c \in WebCalls /\ \E in \in Inputs: WebBegins(c, in)
  BY <1>2, WebBeginsKeeps
<1>3. CASE Persist(c)
  <2>1. rows' = rows + 1 /\ call' = [call EXCEPT ![c] = Done]
    BY <1>3 DEF Persist, Done
  <2>2. rows \in Nat
    BY DEF EvaluationIInv, CallsTyped
  <2>3. rows' \in Nat /\ rows <= rows'
    BY <2>1, <2>2
  <2>4. QED
    BY <2>1, <2>3, EndsKeeps
<1>4. CASE CallFails(c)
  <2>1. call' = [call EXCEPT ![c] = Done] /\ \E stored \in {0, 1}: rows' = rows + stored
    BY <1>4 DEF CallFails, Done
  <2>2. rows \in Nat
    BY DEF EvaluationIInv, CallsTyped
  <2>3. rows' \in Nat /\ rows <= rows'
    BY <2>1, <2>2
  <2>4. QED
    BY <2>1, <2>3, EndsKeeps
<1>5. CASE Safeguards(c) \/ CountCalls(c) \/ WorkerReadsPolicy(c) \/ Envelope(c)
  BY <1>5, SafeguardsKeeps, CountCallsKeeps, WorkerReadsPolicyKeeps, EnvelopeKeeps
<1>6. CASE WebReadsLatest(c) \/ WebReadsLayers(c)
  BY <1>6, WebReadsLatestKeeps, WebReadsLayersKeeps
<1>7. QED
  BY <1>1, <1>2, <1>3, <1>4, <1>5, <1>6 DEF CallStep

(* The history of every call is of the conditions there are.               *)
LEMMA SinceTyped ==
  ASSUME EvaluationIInv, Watch
  PROVE  since' \in [Calls -> SUBSET Conditions]
<1>1. ASSUME NEW c \in Calls PROVE since'[c] \subseteq Conditions
  BY SinceIs DEF EvaluationIInv, CallsTyped
<1>2. since' = [c \in Calls |-> since'[c]]
  BY DEF Watch
<1>3. QED
  BY <1>1, <1>2

LEMMA EvaluationStep ==
  ASSUME EvaluationIInv, [Next]_vars
  PROVE  EvaluationIInv'
<1>1. BlueprintIInv /\ CallsTyped /\ \A c \in Calls: CallAt(c)
  BY DEF EvaluationIInv
<1>2. CASE UNCHANGED vars
  <2>1. BlueprintIInv' /\ CallsTyped'
    BY <1>1, <1>2 DEF vars, blueprintVars, BlueprintIInv, BlueprintInv, StampsApart,
                      PublishedRevs, CallsTyped
  <2>2. ASSUME NEW c \in Calls PROVE CallAt(c)'
    <3>1. CallAt(c)
      BY <1>1
    <3>2. QED
      BY <1>2, <3>1 DEF vars, CallAt, SafeguardsAt, CountAt, PolicyAt, EnvelopeAt, ReadingAt,
           PersistAt, Thresholds, Obeys, Inside, Within, Counting, Knowing, TokensGone, Limited,
           CallsGone, DefinitionOf, Violates
  <2>3. QED
    BY <2>1, <2>2 DEF EvaluationIInv
<1>3. CASE BlueprintNext /\ UNCHANGED <<call, rows>> /\ Watch
  <2>1. BlueprintIInv' /\ Grows
    BY <1>1, <1>3, BlueprintStep
  <2>2. CallsTyped'
    BY <1>1, <1>3, SinceTyped DEF CallsTyped
  <2>3. rows \in Nat /\ rows' = rows /\ call' = call
    BY <1>1, <1>3 DEF CallsTyped
  <2>4. rows' \in Nat /\ rows <= rows'
    BY <2>3
  <2>5. ASSUME NEW c \in Calls PROVE CallAt(c)'
    BY <1>1, <1>3, <2>1, <2>3, <2>4, OthersKeep
  <2>6. QED
    BY <2>1, <2>2, <2>5 DEF EvaluationIInv
<1>4. ASSUME NEW c \in Calls, CallStep(c), Watch PROVE EvaluationIInv'
  <2>1. Moved(c)
    BY <1>4, CallStepKeeps
  <2>2. UNCHANGED blueprintVars
    BY <1>4, CallLeavesBlueprint
  <2>3. BlueprintIInv'
    BY <1>1, <2>2 DEF blueprintVars, BlueprintIInv, BlueprintInv, StampsApart, PublishedRevs
  <2>4. Grows
    <3>1. revisions' = revisions /\ Len(revisions) \in Nat
      BY <1>1, <2>2 DEF blueprintVars, BlueprintIInv, BlueprintInv
    <3>2. QED
      BY <3>1 DEF Grows
  <2>5. CallsTyped'
    BY <1>4, <2>1, SinceTyped DEF CallsTyped, Moved
  <2>6. ASSUME NEW d \in Calls PROVE CallAt(d)'
    <3>1. CASE d = c
      BY <2>1, <3>1 DEF Moved
    <3>2. CASE d # c
      BY <1>1, <1>4, <2>1, <2>4, <3>2, OthersKeep DEF Moved
    <3>3. QED
      BY <3>1, <3>2
  <2>7. QED
    BY <2>3, <2>5, <2>6 DEF EvaluationIInv
<1>5. QED
  BY <1>2, <1>3, <1>4 DEF Next

(* Nothing that forbade an action throughout a call is overlooked, in      *)
(* whatever order its reads and the publications come.  (DenialsHold)      *)
THEOREM DenialsTheorem == Spec => []DenialsHold
<1>1. Init => EvaluationIInv
  <2> SUFFICES ASSUME Init PROVE EvaluationIInv
    OBVIOUS
  <2>1. BlueprintIInv
    BY BlueprintStarts DEF Init
  <2>2. CallsTyped
    BY DEF Init, CallsTyped
  <2>3. ASSUME NEW c \in Calls PROVE CallAt(c)
    BY DEF Init, Idle, CallAt
  <2>4. QED
    BY <2>1, <2>2, <2>3 DEF EvaluationIInv
<1>2. EvaluationIInv /\ [Next]_vars => EvaluationIInv'
  BY EvaluationStep
<1>3. EvaluationIInv => DenialsHold
  <2> SUFFICES ASSUME EvaluationIInv, NEW c \in Calls, Decided(c)
               PROVE  LET in == call[c].in
                          aborted == call[c].outcome = "ABORT"
                          stopped == call[c].outcome # "PROCEED"
                      IN /\ "denied" \in since[c] \/ in.risk = "ABORT" => aborted
                         /\ "held" \in since[c] \/ in.risk = "ESCALATE" => stopped
                         /\ {"outside", "found"} \subseteq since[c] => aborted
                         /\ {"spent", "found"} \subseteq since[c] => stopped
                         /\ c \in WorkerCalls /\ in.large /\ in.risk = "PROCEED" => aborted
    BY DEF DenialsHold
  <2>1. PersistAt(c)
    BY DEF EvaluationIInv, CallAt, Decided
  <2>2. QED
    BY <2>1 DEF PersistAt, Thresholds, Within, Obeys, Inside
<1>4. QED
  BY <1>1, <1>2, <1>3, PTL DEF Spec
=============================================================================
