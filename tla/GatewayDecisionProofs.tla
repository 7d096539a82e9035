----------------------- MODULE GatewayDecisionProofs -----------------------
(***************************************************************************)
(* Proofs about GatewayDecision, for any number of hashes, calls, polls    *)
(* and reviews: who holds credentials, what polls are handed, and terminal *)
(* escalations.                                                            *)
(***************************************************************************)
EXTENDS GatewayDecision, TLAPS

(* What an answer and a move do to the actor's own variables. *)
LEMMA AnswerType ==
    ASSUME TypeOK, NEW a \in Actors, NEW o \in Answers, NEW c \in BOOLEAN,
           Answer(a, o, c)
    PROVE  /\ phase' \in [Actors -> Phases]
           /\ answer' \in [Actors -> Answers]
           /\ cred' \in [Actors -> BOOLEAN]
BY DEF TypeOK, Answer, GoTo, Phases

LEMMA GoToType ==
    ASSUME TypeOK, NEW a \in Actors, NEW p \in Phases, GoTo(a, p)
    PROVE  phase' \in [Actors -> Phases]
BY DEF TypeOK, GoTo

(* The members of Phases and Answers the actions use. *)
LEMMA Names ==
    /\ {"checked", "inserted", "persisted", "approved", "brokerFailed",
        "decAborted", "viewing", "resolved"} \subseteq Phases
    /\ {"none"} \cup Outcomes \subseteq Answers
    /\ {"ERROR", "WAIT", "OK", "GONE", "PROCEED", "ABORT"} \subseteq Answers
    /\ {"PROCEED", "ABORT"} \subseteq Outcomes
    /\ Calls \subseteq Actors /\ Callers \subseteq Actors
    /\ Polls \subseteq Callers /\ Reviews \subseteq Actors
    /\ Calls \subseteq Callers
<1>1. /\ Calls \subseteq Actors /\ Callers \subseteq Actors
      /\ Polls \subseteq Callers /\ Reviews \subseteq Actors
      /\ Calls \subseteq Callers
  BY Zenon DEF Callers, Actors
<1>2. QED
  BY <1>1 DEF Phases, Answers, Outcomes

(* The type invariant, one step per group of actions. *)
LEMMA TypeInductive ==
    ASSUME TypeOK, [Next]_vars
    PROVE  TypeOK'
<1> USE AnswerType, GoToType, Names DEF TypeOK, NoAnswer, queueVars
<1>1. ASSUME NEW c \in Calls,
             \/ PassReplayCheck(c) \/ PersistFails(c) \/ AnswerVerdict(c)
             \/ \E o \in {"ABORT", "ERROR"} : BlockReplay(c, o)
      PROVE  TypeOK'
  <2>1. CASE PassReplayCheck(c)
    BY <2>1 DEF PassReplayCheck
  <2>2. CASE PersistFails(c)
    BY <2>2 DEF PersistFails
  <2>3. CASE AnswerVerdict(c)
    BY <2>3 DEF AnswerVerdict
  <2>4. ASSUME NEW o \in {"ABORT", "ERROR"}, BlockReplay(c, o)
        PROVE  TypeOK'
    BY <2>4 DEF BlockReplay
  <2>5. QED
    BY <1>1, <2>1, <2>2, <2>3, <2>4
<1>2. ASSUME NEW c \in Calls, InsertDecision(c)
      PROVE  /\ dec' \in [Hashes -> {"none"} \cup Outcomes]
             /\ first' \in [Hashes -> {"none"} \cup Outcomes]
  BY <1>2 DEF InsertDecision
<1>3. ASSUME NEW c \in Calls, UpsertEscalation(c)
      PROVE  /\ qStatus' \in {"none", "RESOLVED"} \cup Open
             /\ qRow' \in Hashes \cup {None}
             /\ qOutcome' \in {"none"} \cup Outcomes
             /\ qNote' \in {"none", "review", "broker"}
  BY <1>3 DEF UpsertEscalation, Open
<1>4. ASSUME NEW c \in Calls, PersistInWorker(c)
      PROVE  TypeOK'
  BY <1>2, <1>3, <1>4 DEF PersistInWorker
<1>5. ASSUME NEW c \in Calls, InsertInWeb(c)
      PROVE  TypeOK'
  BY <1>2, <1>5 DEF InsertInWeb
<1>6. ASSUME NEW c \in Calls, QueueInWeb(c)
      PROVE  TypeOK'
  BY <1>3, <1>6 DEF QueueInWeb
<1>7. ASSUME NEW a \in Callers, NoBroker(a) \/ GrantConflict(a)
                                  \/ RecordAbortFails(a)
      PROVE  TypeOK'
  BY <1>7 DEF NoBroker, GrantConflict, RecordAbortFails
<1>8. ASSUME NEW a \in Callers, Grant(a) \/ BrokerFails(a)
      PROVE  TypeOK'
  <2>1. grant' \in [Hashes -> Callers \cup {None}]
    BY <1>8 DEF Grant, BrokerFails
  <2>2. QED
    BY <1>8, <2>1 DEF Grant, BrokerFails
<1>9. ASSUME NEW a \in Callers, RecordAbort(a)
      PROVE  TypeOK'
  BY <1>9 DEF RecordAbort
<1>10. ASSUME NEW p \in Polls, Poll(p) \/ AbortEscalation(p)
       PROVE  TypeOK'
  <2>1. CASE Poll(p)
    BY <2>1 DEF Poll
  <2>2. CASE AbortEscalation(p)
    BY <2>2 DEF AbortEscalation
  <2>3. QED
    BY <1>10, <2>1, <2>2
<1>11. ASSUME NEW v \in Reviews, View(v) \/ Claim(v) \/ RewriteFails(v)
       PROVE  TypeOK'
  BY <1>11, ZenonT(40) DEF View, Claim, RewriteFails, Open
<1>12. ASSUME NEW v \in Reviews, NEW o \in Outcomes,
              \/ ResolveInWorker(v, o) \/ ResolveInWeb(v, o)
              \/ ResolveAgain(v, o)
       PROVE  TypeOK'
  BY <1>12, ZenonT(60) DEF ResolveInWorker, ResolveInWeb, ResolveAgain, CloseEscalation
<1>13. ASSUME NEW v \in Reviews, RewriteDecision(v)
       PROVE  TypeOK'
  <2>1. dec' \in [Hashes -> {"none"} \cup Outcomes]
    BY <1>13 DEF RewriteDecision
  <2>2. QED
    BY <1>13, <2>1 DEF RewriteDecision
<1>14. CASE UNCHANGED vars
  BY <1>14 DEF vars
<1>15. QED
  BY <1>1, <1>4, <1>5, <1>6, <1>7, <1>8, <1>9, <1>10, <1>11, <1>12, <1>13,
     <1>14 DEF Next, CallStep, BrokerStep, ReviewStep

-----------------------------------------------------------------------------
(* Reviewers' resolutions are never lost. *)

(* A step of a call, of the broker or of a poll leaves reviewers alone. *)
LEMMA CallersLeaveReviews ==
    ASSUME TypeOK, NEW a \in Callers,
           CallStep(a) \/ BrokerStep(a) \/ Poll(a) \/ AbortEscalation(a)
    PROVE  \A h \in Hashes \cup {None} : Approvals(h)' = Approvals(h)
<1>1. \A v \in Reviews : v \in Actors /\ v # a
  BY ActorAssumption DEF Callers, Actors
<1>2. \A v \in Reviews : /\ phase'[v] = phase[v]
                         /\ verdict'[v] = verdict[v]
                         /\ row'[v] = row[v]
  <2> USE <1>1 DEF TypeOK, Answer, GoTo
  <2>1. CASE CallStep(a)
    BY <2>1 DEF CallStep, PassReplayCheck, BlockReplay, PersistInWorker,
                InsertInWeb, QueueInWeb, PersistFails, AnswerVerdict
  <2>2. CASE BrokerStep(a)
    BY <2>2 DEF BrokerStep, NoBroker, Grant, GrantConflict, BrokerFails,
                RecordAbort, RecordAbortFails
  <2>3. CASE Poll(a) \/ AbortEscalation(a)
    BY <2>3 DEF Poll, AbortEscalation
  <2>4. QED
    BY <2>1, <2>2, <2>3
<1>3. QED
  BY <1>2 DEF Approvals

(* A reviewer's step adds approvals at most. *)
LEMMA ReviewsAddApprovals ==
    ASSUME TypeOK, NEW v \in Reviews, ReviewStep(v)
    PROVE  \A h \in Hashes \cup {None} : Approvals(h) \subseteq Approvals(h)'
<1>1. \A w \in Reviews : w \in Actors
  BY DEF Actors
<1> DEFINE Kept ==
      \A w \in Reviews :
          phase[w] \in {"resolved", "done"} =>
              /\ phase'[w] \in {"resolved", "done"}
              /\ verdict'[w] = verdict[w]
              /\ row'[w] = row[w]
<1>2. Kept
  <2> USE <1>1 DEF TypeOK, Answer, GoTo
  <2>1. CASE View(v)
    BY <2>1 DEF View
  <2>2. CASE Claim(v)
    BY <2>2 DEF Claim
  <2>3. ASSUME NEW o \in Outcomes,
               ResolveInWorker(v, o) \/ ResolveInWeb(v, o) \/ ResolveAgain(v, o)
        PROVE  Kept
    BY <2>3 DEF ResolveInWorker, ResolveInWeb, ResolveAgain, CloseEscalation
  <2>4. CASE RewriteDecision(v) \/ RewriteFails(v)
    BY <2>4 DEF RewriteDecision, RewriteFails
  <2>5. QED
    BY <2>1, <2>2, <2>3, <2>4 DEF ReviewStep
<1>3. QED
  BY <1>2 DEF Approvals

LEMMA ApprovalsGrow ==
    ASSUME TypeOK, [Next]_vars
    PROVE  \A h \in Hashes \cup {None} : Approvals(h) \subseteq Approvals(h)'
<1>1. CASE UNCHANGED vars
  BY <1>1 DEF vars, Approvals
<1>2. QED
  BY <1>1, Names, CallersLeaveReviews, ReviewsAddApprovals DEF Next

-----------------------------------------------------------------------------
(* Who touches what *)

(* A reviewer's step leaves callers and grants alone. *)
LEMMA ReviewsLeaveCallers ==
    ASSUME TypeOK, NEW v \in Reviews, ReviewStep(v)
    PROVE  /\ grant' = grant
           /\ \A a \in Callers : /\ phase'[a] = phase[a]
                                 /\ cred'[a] = cred[a]
                                 /\ row'[a] = row[a]
<1>1. \A a \in Callers : a \in Actors /\ a # v
  BY ActorAssumption DEF Actors
<1> DEFINE Kept == \A a \in Callers : /\ phase'[a] = phase[a]
                                     /\ cred'[a] = cred[a]
                                     /\ row'[a] = row[a]
<1> USE <1>1 DEF TypeOK, Answer, GoTo, NoAnswer
<1>2. CASE View(v) \/ Claim(v)
  BY <1>2 DEF View, Claim
<1>3. ASSUME NEW o \in Outcomes,
             ResolveInWorker(v, o) \/ ResolveInWeb(v, o) \/ ResolveAgain(v, o)
      PROVE  grant' = grant /\ Kept
  BY <1>3 DEF ResolveInWorker, ResolveInWeb, ResolveAgain, CloseEscalation
<1>4. CASE RewriteDecision(v) \/ RewriteFails(v)
  BY <1>4 DEF RewriteDecision, RewriteFails
<1>5. QED
  BY <1>2, <1>3, <1>4 DEF ReviewStep

(* A caller's step leaves the other callers alone, and takes only a grant  *)
(* nobody has.                                                             *)
LEMMA CallersApart ==
    ASSUME TypeOK, NEW a \in Callers,
           CallStep(a) \/ BrokerStep(a) \/ Poll(a) \/ AbortEscalation(a)
    PROVE  /\ \A b \in Callers \ {a} : /\ phase'[b] = phase[b]
                                       /\ cred'[b] = cred[b]
                                       /\ row'[b] = row[b]
           /\ \A h \in Hashes : grant[h] # None => grant'[h] = grant[h]
<1>1. Callers \subseteq Actors
  BY DEF Actors
<1> USE <1>1 DEF TypeOK, Answer, GoTo, NoAnswer
<1>2. CASE CallStep(a)
  BY <1>2 DEF CallStep, PassReplayCheck, BlockReplay, PersistInWorker,
              InsertInWeb, QueueInWeb, PersistFails, AnswerVerdict
<1>3. CASE NoBroker(a) \/ GrantConflict(a) \/ RecordAbort(a)
             \/ RecordAbortFails(a)
  BY <1>3 DEF NoBroker, GrantConflict, RecordAbort, RecordAbortFails
<1>4. CASE Grant(a)
  BY <1>4 DEF Grant
<1>5. CASE BrokerFails(a)
  BY <1>5 DEF BrokerFails
<1>6. CASE Poll(a) \/ AbortEscalation(a)
  BY <1>6 DEF Poll, AbortEscalation
<1>7. QED
  BY <1>2, <1>3, <1>4, <1>5, <1>6 DEF BrokerStep

-----------------------------------------------------------------------------
(* The three parts of CredentialInv *)

(* Every row an actor or the queue points at is one of Hashes. *)
LEMMA RowsInductive ==
    ASSUME TypeOK, RowsKnown, [Next]_vars
    PROVE  RowsKnown'
<1> DEFINE Known(a) == cred[a] \/ phase[a] \notin {"new", "done"} => row[a] \in Hashes
           KnownNext(a) == cred'[a] \/ phase'[a] \notin {"new", "done"} => row'[a] \in Hashes
           Queue == qStatus' # "none" => qRow' \in Hashes
<1>0. Callers \subseteq Actors /\ Calls \subseteq Callers /\ Polls \subseteq Callers
  BY DEF Actors, Callers
<1>1. ASSUME NEW c \in Calls, CallStep(c)
      PROVE  KnownNext(c) /\ Queue
  <2> USE <1>0 DEF TypeOK, RowsKnown, Answer, GoTo, NoAnswer, queueVars
  <2>1. CASE PassReplayCheck(c)
    BY <2>1 DEF PassReplayCheck
  <2>2. ASSUME NEW o \in {"ABORT", "ERROR"}, BlockReplay(c, o)
        PROVE  KnownNext(c) /\ Queue
    BY <2>2 DEF BlockReplay
  <2>3. CASE PersistInWorker(c)
    BY <2>3 DEF PersistInWorker, UpsertEscalation
  <2>4. CASE InsertInWeb(c)
    BY <2>4 DEF InsertInWeb
  <2>5. CASE QueueInWeb(c)
    BY <2>5 DEF QueueInWeb, UpsertEscalation
  <2>6. CASE PersistFails(c) \/ AnswerVerdict(c)
    BY <2>6 DEF PersistFails, AnswerVerdict
  <2>7. QED
    BY <1>1, <2>1, <2>2, <2>3, <2>4, <2>5, <2>6 DEF CallStep
<1>2. ASSUME NEW a \in Callers, BrokerStep(a)
      PROVE  KnownNext(a) /\ Queue
  <2> USE <1>0 DEF TypeOK, RowsKnown, Answer, GoTo, NoAnswer, queueVars
  <2>1. CASE NoBroker(a) \/ GrantConflict(a) \/ RecordAbortFails(a)
    BY <2>1 DEF NoBroker, GrantConflict, RecordAbortFails
  <2>2. CASE Grant(a)
    BY <2>2 DEF Grant, Brokering
  <2>3. CASE BrokerFails(a)
    BY <2>3 DEF BrokerFails, Brokering
  <2>4. CASE RecordAbort(a)
    BY <2>4 DEF RecordAbort
  <2>5. QED
    BY <1>2, <2>1, <2>2, <2>3, <2>4 DEF BrokerStep
<1>3. ASSUME NEW p \in Polls, Poll(p) \/ AbortEscalation(p)
      PROVE  KnownNext(p) /\ Queue
  <2> USE <1>0 DEF TypeOK, RowsKnown, Answer, GoTo, NoAnswer, queueVars
  <2>1. CASE Poll(p)
    BY <2>1 DEF Poll
  <2>2. CASE AbortEscalation(p)
    BY <2>2 DEF AbortEscalation
  <2>3. QED
    BY <1>3, <2>1, <2>2
<1>4. ASSUME NEW v \in Reviews, ReviewStep(v)
      PROVE  Queue
  <2> USE DEF RowsKnown, queueVars
  <2>1. CASE View(v) \/ RewriteDecision(v) \/ RewriteFails(v)
    BY <2>1 DEF View, RewriteDecision, RewriteFails
  <2>2. CASE Claim(v)
    BY <2>2 DEF Claim
  <2>3. ASSUME NEW o \in Outcomes,
               ResolveInWorker(v, o) \/ ResolveInWeb(v, o) \/ ResolveAgain(v, o)
        PROVE  Queue
    BY <2>3 DEF ResolveInWorker, ResolveInWeb, ResolveAgain, CloseEscalation, Open
  <2>4. QED
    BY <1>4, <2>1, <2>2, <2>3 DEF ReviewStep
<1>5. CASE UNCHANGED vars
  BY <1>5 DEF vars, RowsKnown
<1>6. \A a \in Callers : Known(a)
  BY DEF RowsKnown
<1>7. Next => Queue
  BY <1>0, <1>1, <1>2, <1>3, <1>4 DEF Next
<1>8. ASSUME Next, NEW a \in Callers
      PROVE  KnownNext(a)
  <2>1. CASE \E v \in Reviews : ReviewStep(v)
    BY <2>1, <1>6, ReviewsLeaveCallers
  <2>2. ASSUME NEW b \in Callers, b # a,
               CallStep(b) \/ BrokerStep(b) \/ Poll(b) \/ AbortEscalation(b)
        PROVE  KnownNext(a)
    BY <2>2, <1>6, CallersApart
  <2>3. QED
    BY <1>0, <1>1, <1>2, <1>3, <1>8, <2>1, <2>2 DEF Next
<1>9. QED
  BY <1>5, <1>7, <1>8 DEF RowsKnown

(* A credential stays backed by its grant. *)
LEMMA GrantInductive ==
    ASSUME TypeOK, RowsKnown, HolderOwnsGrant, [Next]_vars
    PROVE  HolderOwnsGrant'
<1> DEFINE Owns(a) == cred[a] => grant[row[a]] = a /\ phase[a] = "done"
           OwnsNext(a) == cred'[a] => grant'[row'[a]] = a /\ phase'[a] = "done"
<1>0. /\ Callers \subseteq Actors /\ Calls \subseteq Callers
      /\ Polls \subseteq Callers /\ None \notin Callers
  BY ActorAssumption DEF Actors, Callers
<1>1. ASSUME NEW c \in Calls, CallStep(c)
      PROVE  OwnsNext(c)
  <2> USE <1>0 DEF TypeOK, HolderOwnsGrant, Answer, GoTo, NoAnswer
  <2>1. CASE PassReplayCheck(c)
    BY <2>1 DEF PassReplayCheck
  <2>2. ASSUME NEW o \in {"ABORT", "ERROR"}, BlockReplay(c, o)
        PROVE  OwnsNext(c)
    BY <2>2 DEF BlockReplay
  <2>3. CASE PersistInWorker(c) \/ InsertInWeb(c) \/ QueueInWeb(c)
    BY <2>3 DEF PersistInWorker, InsertInWeb, QueueInWeb
  <2>4. CASE PersistFails(c) \/ AnswerVerdict(c)
    BY <2>4 DEF PersistFails, AnswerVerdict
  <2>5. QED
    BY <1>1, <2>1, <2>2, <2>3, <2>4 DEF CallStep
<1>2. ASSUME NEW a \in Callers, BrokerStep(a)
      PROVE  OwnsNext(a)
  <2> USE <1>0 DEF TypeOK, HolderOwnsGrant, Answer, GoTo, NoAnswer
  <2>1. CASE NoBroker(a) \/ GrantConflict(a) \/ RecordAbortFails(a)
    BY <2>1 DEF NoBroker, GrantConflict, RecordAbortFails
  <2>2. CASE Grant(a)
    BY <2>2 DEF Grant, Brokering, RowsKnown
  <2>3. CASE BrokerFails(a)
    BY <2>3 DEF BrokerFails, Brokering
  <2>4. CASE RecordAbort(a)
    BY <2>4 DEF RecordAbort
  <2>5. QED
    BY <1>2, <2>1, <2>2, <2>3, <2>4 DEF BrokerStep
<1>3. ASSUME NEW p \in Polls, Poll(p) \/ AbortEscalation(p)
      PROVE  OwnsNext(p)
  <2> USE <1>0 DEF TypeOK, HolderOwnsGrant, Answer, GoTo, NoAnswer
  <2>1. CASE Poll(p)
    BY <2>1 DEF Poll
  <2>2. CASE AbortEscalation(p)
    BY <2>2 DEF AbortEscalation
  <2>3. QED
    BY <1>3, <2>1, <2>2
<1>4. CASE UNCHANGED vars
  BY <1>4 DEF vars, HolderOwnsGrant
<1>5. \A a \in Callers : Owns(a) /\ (cred[a] => row[a] \in Hashes)
  BY DEF HolderOwnsGrant, RowsKnown
<1>6. ASSUME Next, NEW a \in Callers
      PROVE  OwnsNext(a)
  <2>1. CASE \E v \in Reviews : ReviewStep(v)
    BY <2>1, <1>5, ReviewsLeaveCallers
  <2>2. ASSUME NEW b \in Callers, b # a,
               CallStep(b) \/ BrokerStep(b) \/ Poll(b) \/ AbortEscalation(b)
        PROVE  OwnsNext(a)
    BY <2>2, <1>0, <1>5, CallersApart
  <2>3. QED
    BY <1>0, <1>1, <1>2, <1>3, <1>6, <2>1, <2>2 DEF Next
<1>7. QED
  BY <1>4, <1>6 DEF HolderOwnsGrant

(* An approval can be traced to a review. *)
LEMMA ApprovalInductive ==
    ASSUME TypeOK, HolderOwnsGrant, ApprovedByReview, [Next]_vars
    PROVE  ApprovedByReview'
<1> DEFINE QueueNext == qStatus' = "RESOLVED" /\ qOutcome' = "PROCEED"
                            => Approvals(qRow)' # {}
           Poll1(p) == /\ phase[p] \in PollPhases
                       /\ phase[p] = "approved" \/ cred[p]
                              => Approvals(row[p]) # {}
           PollNext(p) == /\ phase'[p] \in PollPhases
                          /\ phase'[p] = "approved" \/ cred'[p]
                                 => Approvals(row[p])' # {}
<1>0. /\ Callers \subseteq Actors /\ Calls \subseteq Callers
      /\ Polls \subseteq Callers /\ Reviews \subseteq Actors
      /\ Calls \cap Polls = {}
  BY ActorAssumption DEF Actors, Callers
<1>1. \A h \in Hashes \cup {None} : Approvals(h) # {} => Approvals(h)' # {}
  BY ApprovalsGrow
<1>2. CASE UNCHANGED vars
  BY <1>2 DEF vars, ApprovedByReview, Approvals
<1>3. ASSUME UNCHANGED <<qStatus, qRow, qOutcome>>
      PROVE  QueueNext
  <2>1. qRow' = qRow /\ qRow \in Hashes \cup {None}
    BY <1>3 DEF TypeOK
  <2>2. Approvals(qRow) # {} => Approvals(qRow)' # {}
    BY <2>1, <1>1 DEF Approvals
  <2>3. QED
    BY <1>3, <2>2 DEF ApprovedByReview
<1>4. ASSUME NEW c \in Calls, CallStep(c)
      PROVE  QueueNext
  <2>1. CASE PersistInWorker(c) \/ QueueInWeb(c)
    <3>1. \/ qStatus' = "PENDING"
          \/ UNCHANGED <<qStatus, qRow, qOutcome>>
      BY <2>1 DEF PersistInWorker, QueueInWeb, UpsertEscalation, queueVars
    <3>2. QED
      BY <1>3, <3>1
  <2>2. CASE ~(PersistInWorker(c) \/ QueueInWeb(c))
    <3>1. UNCHANGED <<qStatus, qRow, qOutcome>>
      BY <1>4, <2>2 DEF CallStep, PassReplayCheck, BlockReplay, InsertInWeb,
                        PersistFails, AnswerVerdict, queueVars
    <3>2. QED
      BY <1>3, <3>1
  <2>3. QED
    BY <2>1, <2>2
<1>5. ASSUME NEW a \in Callers, BrokerStep(a)
      PROVE  QueueNext
  <2>1. UNCHANGED <<qStatus, qRow, qOutcome>>
    BY <1>5 DEF BrokerStep, NoBroker, Grant, GrantConflict, BrokerFails,
                RecordAbort, RecordAbortFails, queueVars
  <2>2. QED
    BY <1>3, <2>1
<1>6. ASSUME NEW p \in Polls, Poll(p) \/ AbortEscalation(p)
      PROVE  QueueNext
  <2>1. qOutcome' = "ABORT" \/ UNCHANGED <<qStatus, qRow, qOutcome>>
    BY <1>6 DEF Poll, AbortEscalation, queueVars
  <2>2. QED
    BY <1>3, <2>1
<1>7. ASSUME NEW v \in Reviews, ReviewStep(v)
      PROVE  QueueNext
  <2>1. CASE View(v) \/ RewriteDecision(v) \/ RewriteFails(v)
    <3>1. UNCHANGED <<qStatus, qRow, qOutcome>>
      BY <2>1 DEF View, RewriteDecision, RewriteFails, queueVars
    <3>2. QED
      BY <1>3, <3>1
  <2>2. CASE Claim(v)
    BY <2>2 DEF Claim
  <2>3. ASSUME NEW o \in Outcomes, ResolveInWorker(v, o) \/ ResolveInWeb(v, o)
        PROVE  QueueNext
    <3>1. /\ phase'[v] \in {"resolved", "done"}
          /\ verdict'[v] = o
          /\ row'[v] = qRow'
          /\ qOutcome' = o
      BY <2>3, <1>0 DEF ResolveInWorker, ResolveInWeb, CloseEscalation, TypeOK,
                        Answer, GoTo
    <3>2. o = "PROCEED" => v \in Approvals(qRow)'
      BY <3>1 DEF Approvals
    <3>3. QED
      BY <3>1, <3>2
  <2>4. ASSUME NEW o \in Outcomes, ResolveAgain(v, o)
        PROVE  QueueNext
    <3>1. UNCHANGED <<qStatus, qRow, qOutcome>>
      BY <2>4 DEF ResolveAgain, queueVars
    <3>2. QED
      BY <1>3, <3>1
  <2>5. QED
    BY <1>7, <2>1, <2>2, <2>3, <2>4 DEF ReviewStep
<1>8. \A p \in Polls : Poll1(p)
  BY DEF ApprovedByReview
<1>9. ASSUME NEW p \in Polls, row'[p] = row[p], cred'[p] = cred[p],
             phase'[p] = phase[p]
      PROVE  PollNext(p)
  <2>1. row[p] \in Hashes \cup {None}
    BY <1>0 DEF TypeOK
  <2>2. Approvals(row[p]) # {} => Approvals(row[p])' # {}
    BY <2>1, <1>1, <1>9 DEF Approvals
  <2>3. QED
    BY <1>8, <1>9, <2>2
<1>10. ASSUME NEW p \in Polls, BrokerStep(p)
       PROVE  PollNext(p)
  <2>1. p \in Actors /\ p \in Callers /\ p \notin Calls /\ row'[p] = row[p]
    BY <1>0, <1>10 DEF BrokerStep, NoBroker, Grant, GrantConflict, BrokerFails,
                       RecordAbort, RecordAbortFails
  <2>2. /\ phase'[p] \in {"done", "brokerFailed", "decAborted"}
        /\ cred'[p] => phase[p] = "approved" \/ cred[p]
    <3> USE <2>1, <1>8 DEF PollPhases, Brokering, TypeOK, Answer, GoTo, NoAnswer
    <3>1. CASE NoBroker(p) \/ GrantConflict(p) \/ RecordAbortFails(p)
      BY <3>1 DEF NoBroker, GrantConflict, RecordAbortFails
    <3>2. CASE Grant(p)
      BY <3>2 DEF Grant
    <3>3. CASE BrokerFails(p)
      BY <3>3 DEF BrokerFails
    <3>4. CASE RecordAbort(p)
      BY <3>4 DEF RecordAbort
    <3>5. QED
      BY <1>10, <3>1, <3>2, <3>3, <3>4 DEF BrokerStep
  <2>3. row[p] \in Hashes \cup {None}
    BY <2>1 DEF TypeOK
  <2>4. Approvals(row[p]) # {} => Approvals(row[p])' # {}
    BY <2>1, <2>3, <1>1 DEF Approvals
  <2>5. QED
    BY <1>8, <2>2, <2>4 DEF PollPhases
<1>11. ASSUME NEW p \in Polls, Poll(p)
       PROVE  PollNext(p)
  <2>1. p \in Actors /\ row'[p] = qRow /\ qRow \in Hashes \cup {None}
    BY <1>0, <1>11 DEF Poll, TypeOK
  <2>2. /\ phase'[p] \in {"done", "approved"}
        /\ ~cred'[p] \/ cred'[p] = cred[p]
        /\ phase'[p] = "approved" => qStatus = "RESOLVED" /\ qOutcome = "PROCEED"
    BY <2>1, <1>11 DEF Poll, TypeOK, Answer, GoTo, NoAnswer
  <2>3. ~cred'[p]
    BY <1>0, <2>2, <1>11 DEF Poll, HolderOwnsGrant
  <2>4. Approvals(qRow) # {} => Approvals(row[p])' # {}
    BY <2>1, <1>1 DEF Approvals
  <2>5. QED
    BY <2>2, <2>3, <2>4 DEF PollPhases, ApprovedByReview
<1>12. ASSUME NEW p \in Polls, AbortEscalation(p)
       PROVE  PollNext(p)
  BY <1>0, <1>12 DEF AbortEscalation, TypeOK, Answer, GoTo, PollPhases
<1>13. Next => QueueNext
  BY <1>0, <1>4, <1>5, <1>6, <1>7 DEF Next
<1>14. ASSUME Next, NEW p \in Polls
       PROVE  PollNext(p)
  <2>1. CASE \E v \in Reviews : ReviewStep(v)
    BY <2>1, <1>0, <1>9, ReviewsLeaveCallers
  <2>2. ASSUME NEW b \in Callers, b # p,
               CallStep(b) \/ BrokerStep(b) \/ Poll(b) \/ AbortEscalation(b)
        PROVE  PollNext(p)
    BY <2>2, <1>0, <1>9, CallersApart
  <2>3. QED
    BY <1>0, <1>10, <1>11, <1>12, <1>14, <2>1, <2>2 DEF Next
<1>15. QED
  BY <1>2, <1>13, <1>14 DEF ApprovedByReview

-----------------------------------------------------------------------------
(* The theorems *)

(* Who holds a credential, and why: the inductive invariant of the checked *)
(* runs, for any number of rows and actors.                                *)
THEOREM CredentialInvariant == Spec => []CredentialInv
<1>1. Init => CredentialInv
  <2>1. Init => TypeOK
    BY DEF Init, TypeOK, Phases, Answers
  <2>2. Init => RowsKnown /\ HolderOwnsGrant /\ ApprovedByReview
    BY Names DEF Init, RowsKnown, HolderOwnsGrant, ApprovedByReview, PollPhases
  <2>3. QED
    BY <2>1, <2>2 DEF CredentialInv
<1>2. CredentialInv /\ [Next]_vars => CredentialInv'
  BY TypeInductive, RowsInductive, GrantInductive, ApprovalInductive
     DEF CredentialInv
<1>3. QED
  BY <1>1, <1>2, PTL DEF Spec

(* Two callers never hold the credential of one decision row.              *)
THEOREM OneCredentialTheorem == Spec => []OneCredentialPerRow
<1>1. CredentialInv => OneCredentialPerRow
  BY DEF CredentialInv, HolderOwnsGrant, OneCredentialPerRow
<1>2. QED
  BY <1>1, CredentialInvariant, PTL

(* A poll's credential goes back to a reviewer's approval of its row.      *)
THEOREM PollTheorem == Spec => []PollNeedsApproval
<1>1. CredentialInv => PollNeedsApproval
  BY DEF CredentialInv, ApprovedByReview, PollNeedsApproval
<1>2. QED
  BY <1>1, CredentialInvariant, PTL

(* No call, reviewer or broker writes a queue row that is terminal: the    *)
(* upsert and both UPDATEs ask for an open one.  A poll that could not     *)
(* record its credential does not ask.                                     *)
LEMMA TerminalRowWriters ==
  ASSUME qStatus = "RESOLVED", Next
  PROVE  UNCHANGED queueVars \/ \E p \in Polls : AbortEscalation(p)
<1> USE DEF queueVars
<1>1. \A c \in Calls : CallStep(c) => UNCHANGED queueVars
  BY DEF CallStep, PassReplayCheck, BlockReplay, PersistInWorker, InsertInWeb,
         QueueInWeb, PersistFails, AnswerVerdict, UpsertEscalation
<1>2. \A a \in Callers : BrokerStep(a) => UNCHANGED queueVars
  BY DEF BrokerStep, NoBroker, Grant, GrantConflict, BrokerFails, RecordAbort,
         RecordAbortFails
<1>3. \A p \in Polls : Poll(p) => UNCHANGED queueVars
  BY DEF Poll
<1>4. \A v \in Reviews : ReviewStep(v) => UNCHANGED queueVars
  BY DEF ReviewStep, View, Claim, ResolveInWorker, ResolveInWeb, ResolveAgain,
         CloseEscalation, RewriteDecision, RewriteFails, Open
<1> HIDE DEF queueVars
<1>5. QED
  BY <1>1, <1>2, <1>3, <1>4 DEF Next

(* A terminal escalation keeps its row and its outcome; only a poll whose  *)
(* brokering failed turns an approval into ABORT.                          *)
THEOREM TerminalTheorem == Spec => TerminalStands
<1> DEFINE Stands ==
      /\ qStatus' = "RESOLVED"
      /\ qRow' = qRow
      /\ qOutcome' # qOutcome => /\ qOutcome' = "ABORT"
                                 /\ \E p \in Polls : phase[p] = "decAborted"
<1>1. ASSUME qStatus = "RESOLVED", [Next]_vars
      PROVE  Stands
  <2>1. CASE UNCHANGED queueVars
    BY <1>1, <2>1 DEF queueVars
  <2>2. ASSUME NEW p \in Polls, AbortEscalation(p)
        PROVE  Stands
    BY <1>1, <2>2 DEF AbortEscalation
  <2>3. UNCHANGED vars => UNCHANGED queueVars
    BY DEF vars, queueVars
  <2>4. QED
    BY <1>1, <2>1, <2>2, <2>3, TerminalRowWriters
<1>2. [Next]_vars => [qStatus = "RESOLVED" => Stands]_vars
  BY <1>1
<1>3. QED
  BY <1>2, PTL DEF Spec, TerminalStands

-----------------------------------------------------------------------------
(* What callers and reviewers are told *)

(* An actor's step is its own. *)
Alone(a) ==
    \A b \in Actors \ {a} : /\ phase'[b] = phase[b]
                            /\ verdict'[b] = verdict[b]
                            /\ answer'[b] = answer[b]
                            /\ cred'[b] = cred[b]

LEMMA StepsApart ==
    ASSUME TypeOK, NEW a \in Actors,
           \/ CallStep(a) \/ BrokerStep(a) \/ Poll(a) \/ AbortEscalation(a)
           \/ ReviewStep(a)
    PROVE  Alone(a)
<1> USE DEF TypeOK, Alone, Answer, GoTo, NoAnswer
<1>1. CASE CallStep(a)
  BY <1>1 DEF CallStep, PassReplayCheck, BlockReplay, PersistInWorker,
              InsertInWeb, QueueInWeb, PersistFails, AnswerVerdict
<1>2. CASE BrokerStep(a)
  BY <1>2 DEF BrokerStep, NoBroker, Grant, GrantConflict, BrokerFails,
              RecordAbort, RecordAbortFails
<1>3. CASE Poll(a) \/ AbortEscalation(a)
  BY <1>3 DEF Poll, AbortEscalation
<1>4. CASE ReviewStep(a)
  <2>1. CASE View(a) \/ Claim(a)
    BY <2>1 DEF View, Claim
  <2>2. ASSUME NEW o \in Outcomes,
               ResolveInWorker(a, o) \/ ResolveInWeb(a, o) \/ ResolveAgain(a, o)
        PROVE  Alone(a)
    BY <2>2 DEF ResolveInWorker, ResolveInWeb, ResolveAgain, CloseEscalation
  <2>3. CASE RewriteDecision(a) \/ RewriteFails(a)
    BY <2>3 DEF RewriteDecision, RewriteFails
  <2>4. QED
    BY <1>4, <2>1, <2>2, <2>3 DEF ReviewStep
<1>5. QED
  BY <1>1, <1>2, <1>3, <1>4

(* What a step does to the queue row: a call refreshes it unless it is     *)
(* terminal, a review closes it once, a failed poll turns it to ABORT.     *)
LEMMA QueueSteps ==
    ASSUME TypeOK, NEW a,
           \/ a \in Calls /\ CallStep(a)
           \/ a \in Callers /\ BrokerStep(a)
           \/ a \in Polls /\ (Poll(a) \/ AbortEscalation(a))
           \/ a \in Reviews /\ ReviewStep(a)
    PROVE  /\ qStatus # "none" => qStatus' # "none"
           /\ \/ UNCHANGED <<qStatus, qOutcome, qNote>>
              \/ qStatus # "RESOLVED" /\ qStatus' # "RESOLVED"
              \/ /\ qStatus' = "RESOLVED"
                 /\ a \in Polls /\ phase[a] = "decAborted" /\ qNote' = "broker"
              \/ /\ qStatus \in Open /\ qStatus' = "RESOLVED" /\ qNote' = "review"
                 /\ \E o \in Outcomes : ResolveInWorker(a, o) \/ ResolveInWeb(a, o)
<1> USE DEF queueVars, Open
<1>1. CASE CallStep(a)
  BY <1>1 DEF CallStep, PassReplayCheck, BlockReplay, PersistInWorker, InsertInWeb,
              QueueInWeb, PersistFails, AnswerVerdict, UpsertEscalation
<1>2. CASE BrokerStep(a)
  BY <1>2 DEF BrokerStep, NoBroker, Grant, GrantConflict, BrokerFails,
              RecordAbort, RecordAbortFails
<1>3. CASE a \in Polls /\ (Poll(a) \/ AbortEscalation(a))
  BY <1>3 DEF Poll, AbortEscalation
<1>4. CASE ReviewStep(a)
  <2>1. CASE View(a) \/ Claim(a)
    BY <2>1 DEF View, Claim
  <2>2. ASSUME NEW o \in Outcomes, ResolveInWorker(a, o) \/ ResolveInWeb(a, o)
        PROVE  qStatus \in Open /\ qStatus' = "RESOLVED" /\ qNote' = "review"
    BY <2>2 DEF ResolveInWorker, ResolveInWeb, CloseEscalation
  <2>3. ASSUME NEW o \in Outcomes, ResolveAgain(a, o)
        PROVE  UNCHANGED <<qStatus, qOutcome, qNote>>
    BY <2>3 DEF ResolveAgain
  <2>4. CASE RewriteDecision(a) \/ RewriteFails(a)
    BY <2>4 DEF RewriteDecision, RewriteFails
  <2>5. QED
    BY <1>4, <2>1, <2>2, <2>3, <2>4 DEF ReviewStep
<1>5. QED
  BY <1>1, <1>2, <1>3, <1>4

(* Every step is some actor's. *)
LEMMA SomeActor ==
    ASSUME Next
    PROVE  \E a \in Actors :
             \/ a \in Calls /\ CallStep(a)
             \/ a \in Callers /\ BrokerStep(a)
             \/ a \in Polls /\ (Poll(a) \/ AbortEscalation(a))
             \/ a \in Reviews /\ ReviewStep(a)
BY Names DEF Next

(* A call of the worker answers PROCEED together with its credential.      *)
LEMMA FailsClosedInductive ==
    ASSUME TypeOK, WorkerFailsClosed, [Next]_vars
    PROVE  WorkerFailsClosed'
<1>1. CASE UNCHANGED vars
  BY <1>1 DEF vars, WorkerFailsClosed
<1>2. ASSUME Next, NEW c \in WorkerCalls, BrokerExists, answer'[c] = "PROCEED"
      PROVE  cred'[c]
  <2>0. c \in Calls /\ c \in Callers /\ c \in Actors /\ c \notin Polls /\ c \notin Reviews
    BY ActorAssumption DEF Calls, Callers, Actors
  <2>1. PICK a \in Actors :
          \/ a \in Calls /\ CallStep(a)
          \/ a \in Callers /\ BrokerStep(a)
          \/ a \in Polls /\ (Poll(a) \/ AbortEscalation(a))
          \/ a \in Reviews /\ ReviewStep(a)
    BY <1>2, SomeActor
  <2>2. CASE a # c
    <3>1. Alone(a)
      BY <2>1, StepsApart
    <3>2. answer'[c] = answer[c] /\ cred'[c] = cred[c]
      BY <2>0, <2>2, <3>1 DEF Alone
    <3>3. QED
      BY <1>2, <3>2 DEF WorkerFailsClosed
  <2>3. CASE a = c /\ UNCHANGED <<answer, cred>>
    BY <1>2, <2>3 DEF WorkerFailsClosed
  <2>4. CASE a = c /\ CallStep(c)
    <3> USE <2>0 DEF TypeOK, Answer, NoAnswer
    <3>1. ~(\E o \in {"ABORT", "ERROR"} : BlockReplay(c, o)) /\ ~PersistFails(c)
      BY <1>2 DEF BlockReplay, PersistFails
    <3>2. ~AnswerVerdict(c)
      BY <1>2 DEF AnswerVerdict
    <3>3. UNCHANGED <<answer, cred>>
      BY <1>2, <2>4, <3>1, <3>2 DEF CallStep, PassReplayCheck, PersistInWorker, InsertInWeb,
                                     QueueInWeb
    <3>4. QED
      BY <2>3, <2>4, <3>3
  <2>5. CASE a = c /\ BrokerStep(c)
    <3> USE <2>0 DEF TypeOK, Answer, NoAnswer
    <3>1. ~NoBroker(c) /\ ~GrantConflict(c) /\ ~RecordAbort(c) /\ ~RecordAbortFails(c)
      BY <1>2 DEF NoBroker, GrantConflict, RecordAbort, RecordAbortFails
    <3>2. CASE Grant(c)
      BY <3>2 DEF Grant
    <3>3. CASE BrokerFails(c)
      BY <2>3, <2>5, <3>3 DEF BrokerFails
    <3>4. QED
      BY <2>5, <3>1, <3>2, <3>3 DEF BrokerStep
  <2>6. QED
    BY <2>0, <2>1, <2>2, <2>4, <2>5
<1>3. QED
  BY <1>1, <1>2 DEF WorkerFailsClosed

(* A call that is about to answer ESCALATE has queued its escalation.      *)
Queued == \A c \in Calls : phase[c] = "persisted" /\ verdict[c] = "ESCALATE" => qStatus # "none"

LEMMA QueuedInductive ==
    ASSUME TypeOK, EscalationIsQueued, Queued, [Next]_vars
    PROVE  EscalationIsQueued' /\ Queued'
<1>1. CASE UNCHANGED vars
  BY <1>1 DEF vars, EscalationIsQueued, Queued
<1>2. ASSUME Next, NEW c \in Calls
      PROVE  \/ qStatus' # "none"
             \/ /\ answer'[c] # "ESCALATE"
                /\ ~(phase'[c] = "persisted" /\ verdict'[c] = "ESCALATE")
  <2>0. c \in Callers /\ c \in Actors /\ c \notin Polls /\ c \notin Reviews
    BY ActorAssumption DEF Calls, Callers, Actors
  <2>1. PICK a \in Actors :
          \/ a \in Calls /\ CallStep(a)
          \/ a \in Callers /\ BrokerStep(a)
          \/ a \in Polls /\ (Poll(a) \/ AbortEscalation(a))
          \/ a \in Reviews /\ ReviewStep(a)
    BY <1>2, SomeActor
  <2>2. qStatus # "none" => qStatus' # "none"
    BY <2>1, QueueSteps
  <2>3. SUFFICES ASSUME qStatus = "none", qStatus' = "none"
                 PROVE  /\ answer'[c] # "ESCALATE"
                        /\ ~(phase'[c] = "persisted" /\ verdict'[c] = "ESCALATE")
    BY <2>2
  <2>4. answer[c] # "ESCALATE" /\ ~(phase[c] = "persisted" /\ verdict[c] = "ESCALATE")
    BY <2>3 DEF EscalationIsQueued, Queued
  <2>5. CASE a # c
    <3>1. Alone(a)
      BY <2>1, StepsApart
    <3>2. QED
      BY <2>0, <2>4, <2>5, <3>1 DEF Alone
  <2>6. CASE a = c /\ CallStep(c)
    <3> USE <2>0, <2>3, <2>4 DEF TypeOK, Answer, NoAnswer, GoTo, queueVars
    <3>1. CASE PassReplayCheck(c) \/ \E o \in {"ABORT", "ERROR"} : BlockReplay(c, o)
      BY <3>1 DEF PassReplayCheck, BlockReplay
    <3>2. CASE PersistInWorker(c) \/ QueueInWeb(c)
      <4>1. verdict[c] # "ESCALATE"
        BY <3>2 DEF PersistInWorker, QueueInWeb, UpsertEscalation
      <4>2. QED
        BY <3>2, <4>1 DEF PersistInWorker, QueueInWeb
    <3>3. CASE InsertInWeb(c) \/ PersistFails(c)
      BY <3>3 DEF InsertInWeb, PersistFails
    <3>4. CASE AnswerVerdict(c)
      BY <3>4 DEF AnswerVerdict
    <3>5. QED
      BY <2>6, <3>1, <3>2, <3>3, <3>4 DEF CallStep
  <2>7. CASE a = c /\ BrokerStep(c)
    <3> USE <2>0, <2>4 DEF TypeOK, Answer, NoAnswer, GoTo
    <3>1. CASE NoBroker(c) \/ Grant(c) \/ GrantConflict(c)
      BY <3>1 DEF NoBroker, Grant, GrantConflict
    <3>2. CASE BrokerFails(c)
      BY <3>2 DEF BrokerFails
    <3>3. CASE RecordAbort(c) \/ RecordAbortFails(c)
      BY <3>3 DEF RecordAbort, RecordAbortFails
    <3>4. QED
      BY <2>7, <3>1, <3>2, <3>3 DEF BrokerStep
  <2>8. QED
    BY <2>0, <2>1, <2>5, <2>6, <2>7
<1>3. QED
  BY <1>1, <1>2 DEF EscalationIsQueued, Queued

(* Whoever resolved the escalation, or was told so, decided what it says,  *)
(* or approved it before a broker failed; and a poll that brokers found it *)
(* approved.                                                               *)
Decided(v) ==
    /\ qStatus = "RESOLVED"
    /\ \/ qNote = "review" /\ qOutcome = verdict[v]
       \/ qNote = "broker" /\ verdict[v] = "PROCEED"
Resolvers ==
    \A v \in Reviews : answer[v] = "OK" \/ phase[v] = "resolved" => Decided(v)
Pollers ==
    \A p \in Polls : phase[p] \in {"approved", "brokerFailed", "decAborted"} =>
        /\ qStatus = "RESOLVED"
        /\ qOutcome = "PROCEED" \/ qNote = "broker"

LEMMA PollersInductive ==
    ASSUME TypeOK, \A p \in Polls : phase[p] \in PollPhases, Pollers, [Next]_vars
    PROVE  Pollers'
<1>1. CASE UNCHANGED vars
  BY <1>1 DEF vars, Pollers
<1>2. ASSUME Next, NEW p \in Polls, phase'[p] \in {"approved", "brokerFailed", "decAborted"}
      PROVE  qStatus' = "RESOLVED" /\ (qOutcome' = "PROCEED" \/ qNote' = "broker")
  <2>0. p \in Callers /\ p \in Actors /\ p \notin Calls /\ p \notin Reviews
    BY ActorAssumption DEF Callers, Actors
  <2>1. PICK a \in Actors :
          \/ a \in Calls /\ CallStep(a)
          \/ a \in Callers /\ BrokerStep(a)
          \/ a \in Polls /\ (Poll(a) \/ AbortEscalation(a))
          \/ a \in Reviews /\ ReviewStep(a)
    BY <1>2, SomeActor
  <2>2. ASSUME qStatus = "RESOLVED", qOutcome = "PROCEED" \/ qNote = "broker"
        PROVE  qStatus' = "RESOLVED" /\ (qOutcome' = "PROCEED" \/ qNote' = "broker")
    BY <2>1, <2>2, QueueSteps DEF Open
  <2>3. SUFFICES ASSUME phase[p] \notin {"approved", "brokerFailed", "decAborted"}
                 PROVE  qStatus = "RESOLVED" /\ (qOutcome = "PROCEED" \/ qNote = "broker")
    BY <2>2 DEF Pollers
  <2>4. a = p
    <3>1. Alone(a)
      BY <2>1, StepsApart
    <3>2. QED
      BY <1>2, <2>0, <2>3, <3>1 DEF Alone
  <2>5. Poll(p) \/ AbortEscalation(p) \/ BrokerStep(p)
    BY <2>0, <2>1, <2>4
  <2>6. ~BrokerStep(p)
    <3>1. phase[p] # "persisted"
      BY DEF PollPhases
    <3>2. QED
      BY <1>2, <2>0, <2>3, <3>1 DEF BrokerStep, NoBroker, Grant, GrantConflict, BrokerFails,
                                    Brokering, RecordAbort, RecordAbortFails
  <2>7. ~AbortEscalation(p)
    BY <2>3 DEF AbortEscalation
  <2>8. QED
    BY <1>2, <2>0, <2>5, <2>6, <2>7 DEF Poll, TypeOK, Answer, GoTo
<1>3. QED
  BY <1>1, <1>2 DEF Pollers

LEMMA ResolversInductive ==
    ASSUME TypeOK, Pollers, Resolvers, [Next]_vars
    PROVE  Resolvers'
<1>1. CASE UNCHANGED vars
  BY <1>1 DEF vars, Resolvers, Decided
<1>2. ASSUME Next, NEW v \in Reviews, answer'[v] = "OK" \/ phase'[v] = "resolved"
      PROVE  Decided(v)'
  <2>0. v \in Actors /\ v \notin Callers /\ v \notin Calls /\ v \notin Polls
    BY ActorAssumption DEF Callers, Actors
  <2>1. PICK a \in Actors :
          \/ a \in Calls /\ CallStep(a)
          \/ a \in Callers /\ BrokerStep(a)
          \/ a \in Polls /\ (Poll(a) \/ AbortEscalation(a))
          \/ a \in Reviews /\ ReviewStep(a)
    BY <1>2, SomeActor
  <2>2. ASSUME Decided(v), verdict'[v] = verdict[v]
        PROVE  Decided(v)'
    <3>1. CASE a \in Polls /\ phase[a] = "decAborted" /\ qStatus' = "RESOLVED"
                 /\ qNote' = "broker"
      <4>1. qOutcome = "PROCEED" \/ qNote = "broker"
        BY <3>1 DEF Pollers
      <4>2. verdict[v] = "PROCEED"
        BY <2>2, <4>1 DEF Decided
      <4>3. QED
        BY <2>2, <3>1, <4>2 DEF Decided
    <3>2. CASE UNCHANGED <<qStatus, qOutcome, qNote>>
      BY <2>2, <3>2 DEF Decided
    <3>3. QED
      BY <2>1, <2>2, <3>1, <3>2, QueueSteps DEF Decided, Open
  <2>3. CASE a # v
    <3>1. Alone(a)
      BY <2>1, StepsApart
    <3>2. answer'[v] = answer[v] /\ phase'[v] = phase[v] /\ verdict'[v] = verdict[v]
      BY <2>0, <2>3, <3>1 DEF Alone
    <3>3. QED
      BY <1>2, <2>2, <3>2 DEF Resolvers
  <2>4. CASE a = v
    <3>1. ReviewStep(v)
      BY <2>0, <2>1, <2>4
    <3> USE <2>0 DEF TypeOK, Answer, GoTo, NoAnswer, queueVars
    <3>2. ASSUME NEW o \in Outcomes, ResolveInWorker(v, o) \/ ResolveInWeb(v, o)
          PROVE  Decided(v)'
      BY <3>2 DEF ResolveInWorker, ResolveInWeb, CloseEscalation, Decided
    <3>3. ASSUME NEW o \in Outcomes, ResolveAgain(v, o)
          PROVE  Decided(v)'
      BY <1>2, <3>3 DEF ResolveAgain, Decided
    <3>4. CASE RewriteDecision(v) \/ RewriteFails(v)
      <4>1. phase[v] = "resolved" /\ verdict' = verdict
        BY <3>4 DEF RewriteDecision, RewriteFails
      <4>2. QED
        BY <2>2, <4>1 DEF Resolvers
    <3>5. CASE View(v) \/ Claim(v)
      <4>1. answer[v] = "OK" \/ phase[v] = "resolved"
        BY <1>2, <3>5 DEF View, Claim
      <4>2. verdict' = verdict
        BY <3>5 DEF View, Claim
      <4>3. QED
        BY <2>2, <4>1, <4>2 DEF Resolvers
    <3>6. QED
      BY <3>1, <3>2, <3>3, <3>4, <3>5 DEF ReviewStep
  <2>5. QED
    BY <2>3, <2>4
<1>3. QED
  BY <1>1, <1>2 DEF Resolvers

(* The worker tells no call PROCEED without the credential that goes with  *)
(* it, where a broker is configured.                                       *)
THEOREM FailsClosedTheorem == Spec => []WorkerFailsClosed
<1>1. Init => WorkerFailsClosed
  BY DEF Init, WorkerFailsClosed, Actors, Callers, Calls
<1>2. CredentialInv /\ WorkerFailsClosed /\ [Next]_vars => WorkerFailsClosed'
  BY FailsClosedInductive DEF CredentialInv
<1>3. QED
  BY <1>1, <1>2, CredentialInvariant, PTL DEF Spec

(* A call that is told ESCALATE finds its escalation in the queue.         *)
THEOREM QueuedTheorem == Spec => []EscalationIsQueued
<1>1. Init => EscalationIsQueued /\ Queued
  BY Names DEF Init, EscalationIsQueued, Queued
<1>2. CredentialInv /\ EscalationIsQueued /\ Queued /\ [Next]_vars
        => EscalationIsQueued' /\ Queued'
  BY QueuedInductive DEF CredentialInv
<1>3. QED
  BY <1>1, <1>2, CredentialInvariant, PTL DEF Spec

(* No two reviewers are told that opposite resolutions were taken.         *)
THEOREM ResolutionTheorem == Spec => []OneResolution
<1> DEFINE RInv == Pollers /\ Resolvers
<1>1. Init => RInv
  BY Names DEF Init, Pollers, Resolvers
<1>2. CredentialInv /\ RInv /\ [Next]_vars => RInv'
  BY PollersInductive, ResolversInductive DEF CredentialInv, ApprovedByReview
<1>3. RInv => OneResolution
  BY DEF Resolvers, Decided, OneResolution
<1> HIDE DEF RInv
<1>4. QED
  BY <1>1, <1>2, <1>3, CredentialInvariant, PTL DEF Spec
=============================================================================
