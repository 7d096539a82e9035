------------------------------- MODULE Delivery -------------------------------
(***************************************************************************)
(* How evidence leaves the system: the SIEM forwarder, which follows the   *)
(* event table with a cursor per stream (jobs_siem.go), and the alerting   *)
(* rules' notifications, which keep one delivery row per (event,           *)
(* integration) pair (jobs_notifications.go).  Both are swept by worker    *)
(* processes; a sweep whose lease was taken over goes on, so sweeps may    *)
(* overlap.  Operators create, pause, resume and delete streams            *)
(* (repositories/siem-stream.ts) and rules (repositories/alerting.ts).     *)
(*                                                                         *)
(* One stream and one workspace: the sweeps treat streams one by one and   *)
(* share nothing between them.  Every event is a denial of the last 24     *)
(* hours that every rule matches; what a rule filters out is a pair that   *)
(* never exists.  A failed statement, a lost process and a breaker that is *)
(* open all leave a sweep without the write it was about to make.          *)
(***************************************************************************)
EXTENDS Integers, FiniteSets

CONSTANTS
    Events,        \* evidence events: numbers, for the order of their uuids
    Integrations,  \* notification endpoints, numbers likewise
    Rules,         \* alerting rules
    Target,        \* the integration of each rule
    Sweepers,      \* sweeps that may be under way at once
    None,
    Settle,        \* ticks an event must age before it is forwarded (5 s)
    SiemBatch,     \* LIMIT of the forwarder's event query
    RuleBatch,     \* LIMIT of the rule matcher's page
    MaxAttempts,   \* failures after which a stream or a pair is given up
    Tries,         \* posts of one attempt, while they fail transiently
    MaxClock,      \* bound on the clock
    MaxSweeps,     \* bound on the number of sweeps
    MaxOperations  \* bound on the operators' requests

ASSUME DeliveryAssumption ==
    /\ Events \subseteq Nat \ {0} /\ Integrations \subseteq Nat \ {0}
    /\ Target \in [Rules -> Integrations]
    /\ IsFiniteSet(Rules) /\ IsFiniteSet(Events) /\ IsFiniteSet(Sweepers)
    /\ None \notin Nat
    /\ {Settle, SiemBatch, RuleBatch, MaxAttempts, Tries} \subseteq Nat \ {0}
    /\ {MaxClock, MaxSweeps, MaxOperations} \subseteq Nat

VARIABLES
    clock,    \* the database's clock
    event,    \* created_at (the runtime's clock) and the time of the commit
    stream,   \* the row of workspace_siem_stream
    wanted,   \* what the operator last asked of the stream
    got,      \* the events the SIEM has received
    rules,    \* the rules that exist and are enabled
    row,      \* notification_delivery, one row per pair
    sent,     \* posts made for a pair
    lost,     \* attempts whose outcome was never written down
    sweep,    \* the local state of each sweep
    sweeps,   \* sweeps begun
    asked     \* requests made by operators

vars == <<clock, event, stream, wanted, got, rules, row, sent, lost, sweep, sweeps, asked>>
siemVars == <<stream, wanted, got>>
ruleVars == <<rules, row, sent, lost>>

Pairs == Events \X Integrations
Offers == Events \X Rules
PairOf(o) == <<o[1], Target[o[2]]>>

Steps == {"IDLE", "STREAM", "BATCH", "SENT", "REFUSED", "CLEAR", "OFFERS", "OUTCOME"}
Idle == [step |-> "IDLE", since |-> <<0, 0, 0>>, failures |-> 0, batch |-> {},
         todo |-> {}, full |-> FALSE, delivered |-> FALSE, offer |-> None]

Sweep == [step: Steps, since: Nat \X Nat \X Nat, failures: Nat, batch: SUBSET Events,
          todo: SUBSET Offers, full: BOOLEAN, delivered: BOOLEAN, offer: Offers \cup {None}]
Stream == [state: {"ABSENT", "PRESENT", "DELETED"}, enabled: BOOLEAN, failures: Nat,
           error: BOOLEAN, suspended: BOOLEAN, created: 0..MaxClock, cursor: Nat \X Nat \X Nat]

(* Row comparison as the queries do it: (created_at, id), and for a page of *)
(* offers (created_at, id, integration_id).                                 *)
Place(e) == <<event[e].at, e, 0>>
OfferPlace(o) == <<event[o[1]].at, o[1], Target[o[2]]>>
Before(p, q) ==
    \/ p[1] < q[1]
    \/ p[1] = q[1] /\ p[2] < q[2]
    \/ p[1] = q[1] /\ p[2] = q[2] /\ p[3] < q[3]
UpTo(p, q) == Before(p, q) \/ p = q

Committed(e) == event[e].seen # None

TypeOK ==
    /\ clock \in 0..MaxClock
    /\ event \in [Events -> [at: 0..MaxClock \cup {None}, seen: 0..MaxClock \cup {None}]]
    /\ stream \in Stream
    /\ wanted \in BOOLEAN
    /\ got \subseteq Events
    /\ rules \subseteq Rules
    /\ row \in [Pairs -> [delivered: BOOLEAN, failed: Nat]]
    /\ sent \in [Pairs -> Nat] /\ lost \in [Pairs -> Nat]
    /\ sweep \in [Sweepers -> Sweep]
    /\ sweeps \in 0..MaxSweeps /\ asked \in 0..MaxOperations

Init ==
    /\ clock = 0
    /\ event = [e \in Events |-> [at |-> None, seen |-> None]]
    /\ stream = [state |-> "ABSENT", enabled |-> FALSE, failures |-> 0, error |-> FALSE,
                 suspended |-> FALSE, created |-> 0, cursor |-> <<0, 0, 0>>]
    /\ wanted = FALSE
    /\ got = {}
    /\ rules = {}
    /\ row = [p \in Pairs |-> [delivered |-> FALSE, failed |-> 0]]
    /\ sent = [p \in Pairs |-> 0] /\ lost = [p \in Pairs |-> 0]
    /\ sweep = [w \in Sweepers |-> Idle]
    /\ sweeps = 0 /\ asked = 0

-----------------------------------------------------------------------------
(* Events and operators.                                                    *)

Tick ==
    /\ clock < MaxClock
    /\ clock' = clock + 1
    /\ UNCHANGED <<event, siemVars, ruleVars, sweep, sweeps, asked>>

(* created_at is when the runtime decided, or the server received the       *)
(* decision: not later than its transaction ...                             *)
BeginEvent(e) ==
    /\ event[e].at = None
    /\ event' = [event EXCEPT ![e].at = clock]
    /\ UNCHANGED <<clock, siemVars, ruleVars, sweep, sweeps, asked>>

(* ... and other sessions see the event from its commit on.                 *)
CommitEvent(e) ==
    /\ event[e].at # None
    /\ event[e].seen = None
    /\ event' = [event EXCEPT ![e].seen = clock]
    /\ UNCHANGED <<clock, siemVars, ruleVars, sweep, sweeps, asked>>

Ask == asked < MaxOperations /\ asked' = asked + 1

(* A stream starts at its own creation: created_at and the nil uuid.        *)
CreateStream ==
    /\ stream.state = "ABSENT"
    /\ stream' = [stream EXCEPT !.state = "PRESENT", !.enabled = TRUE,
                                !.created = clock, !.cursor = <<clock, 0, 0>>]
    /\ wanted' = TRUE
    /\ Ask
    /\ UNCHANGED <<clock, event, got, ruleVars, sweep, sweeps>>

(* Enabling clears what the forwarder wrote; the cursor is left alone.      *)
ToggleStream(on) ==
    /\ stream.state = "PRESENT"
    /\ stream' = [stream EXCEPT
                    !.enabled = on,
                    !.failures = IF on THEN 0 ELSE @,
                    !.error = ~on /\ @,
                    !.suspended = ~on /\ @]
    /\ wanted' = on
    /\ Ask
    /\ UNCHANGED <<clock, event, got, ruleVars, sweep, sweeps>>

DeleteStream ==
    /\ stream.state = "PRESENT"
    /\ stream' = [stream EXCEPT !.state = "DELETED"]
    /\ Ask
    /\ UNCHANGED <<clock, event, wanted, got, ruleVars, sweep, sweeps>>

CreateRule(r) ==
    /\ r \notin rules
    /\ rules' = rules \cup {r}
    /\ Ask
    /\ UNCHANGED <<clock, event, siemVars, row, sent, lost, sweep, sweeps>>

DeleteRule(r) ==
    /\ r \in rules
    /\ rules' = rules \ {r}
    /\ Ask
    /\ UNCHANGED <<clock, event, siemVars, row, sent, lost, sweep, sweeps>>

-----------------------------------------------------------------------------
(* The SIEM forwarder.                                                      *)

(* The first n of a set in an order: nothing outside it comes before        *)
(* something in it, and it is short only when the set is.                   *)
FirstOf(S, n, Key(_)) ==
    {B \in SUBSET S :
        /\ \A x \in B, y \in S \ B : ~Before(Key(y), Key(x))
        /\ IF Cardinality(S) <= n THEN B = S ELSE Cardinality(B) = n}

IsLast(e, B) == e \in B /\ \A x \in B : UpTo(Place(x), Place(e))

Settled(e) == Committed(e) /\ event[e].at + Settle <= clock

Eligible(since) == {e \in Events : Settled(e) /\ Before(since, Place(e))}

(* listSiemStreams: the cursor and the count of failures are read here and  *)
(* used after the send.                                                     *)
ListStreams(w) ==
    /\ sweep[w] = Idle
    /\ sweeps < MaxSweeps
    /\ stream.state = "PRESENT" /\ stream.enabled
    /\ sweep' = [sweep EXCEPT ![w].step = "STREAM", ![w].since = stream.cursor,
                              ![w].failures = stream.failures]
    /\ sweeps' = sweeps + 1
    /\ UNCHANGED <<clock, event, siemVars, ruleVars, asked>>

ListEvents(w) ==
    /\ sweep[w].step = "STREAM"
    /\ Eligible(sweep[w].since) # {}
    /\ \E B \in FirstOf(Eligible(sweep[w].since), SiemBatch, Place) :
          sweep' = [sweep EXCEPT ![w].step = "BATCH", ![w].batch = B]
    /\ UNCHANGED <<clock, event, siemVars, ruleVars, sweeps, asked>>

(* An answer of failure says nothing of whether the batch arrived.          *)
SendBatch(w) ==
    /\ sweep[w].step = "BATCH"
    /\ \/ /\ got' = got \cup sweep[w].batch
          /\ \E s \in {"SENT", "REFUSED"} : sweep' = [sweep EXCEPT ![w].step = s]
       \/ /\ got' = got
          /\ sweep' = [sweep EXCEPT ![w].step = "REFUSED"]
    /\ UNCHANGED <<clock, event, stream, wanted, ruleVars, sweeps, asked>>

(* updateSiemStreamCursor: whatever the row's cursor is by now.             *)
MoveCursor(w) ==
    /\ sweep[w].step = "SENT"
    /\ \E e \in Events :
          /\ IsLast(e, sweep[w].batch)
          /\ stream' = IF stream.state = "PRESENT" THEN [stream EXCEPT !.cursor = Place(e)]
                                                  ELSE stream
    /\ sweep' = [sweep EXCEPT ![w] =
                    IF sweep[w].failures > 0 THEN [Idle EXCEPT !.step = "CLEAR"] ELSE Idle]
    /\ UNCHANGED <<clock, event, wanted, got, ruleVars, sweeps, asked>>

(* Before the guard on suspended_at was added.                              *)
ClearEverything(w) ==
    /\ sweep[w].step = "CLEAR"
    /\ stream' = IF stream.state = "PRESENT" /\ stream.failures > 0
                    THEN [stream EXCEPT !.failures = 0, !.error = FALSE, !.suspended = FALSE]
                    ELSE stream
    /\ sweep' = [sweep EXCEPT ![w] = Idle]
    /\ UNCHANGED <<clock, event, wanted, got, ruleVars, sweeps, asked>>

ClearFailures(w) ==
    /\ sweep[w].step = "CLEAR"
    /\ stream' = IF stream.state = "PRESENT" /\ stream.failures > 0 /\ ~stream.suspended
                    THEN [stream EXCEPT !.failures = 0, !.error = FALSE]
                    ELSE stream
    /\ sweep' = [sweep EXCEPT ![w] = Idle]
    /\ UNCHANGED <<clock, event, wanted, got, ruleVars, sweeps, asked>>

(* Count and suspension in one statement.                                   *)
RecordFailure(w) ==
    /\ sweep[w].step = "REFUSED"
    /\ LET full == stream.failures + 1 >= MaxAttempts
       IN  stream' = IF stream.state = "PRESENT"
                        THEN [stream EXCEPT !.failures = @ + 1, !.error = TRUE,
                                            !.enabled = ~full /\ @,
                                            !.suspended = full \/ @]
                        ELSE stream
    /\ sweep' = [sweep EXCEPT ![w] = Idle]
    /\ UNCHANGED <<clock, event, wanted, got, ruleVars, sweeps, asked>>

-----------------------------------------------------------------------------
(* The notification sender.                                                 *)

Undelivered(p) == ~row[p].delivered /\ row[p].failed < MaxAttempts

(* One candidate per enabled rule and matching event: two rules of one      *)
(* integration offer its pair twice.                                        *)
Matching(since) ==
    {o \in Offers : /\ o[2] \in rules
                    /\ Committed(o[1])
                    /\ Undelivered(PairOf(o))
                    /\ Before(since, OfferPlace(o))}

(* listMatchingRuleDeliveries: the page after `since`.  What it read of the *)
(* delivery rows is not read again before the sends.                        *)
Page(w, since) ==
    \E B \in FirstOf(Matching(since), RuleBatch, OfferPlace) :
       sweep' = [sweep EXCEPT ![w] =
                   IF B = {} THEN Idle
                             ELSE [Idle EXCEPT !.step = "OFFERS", !.since = since, !.todo = B,
                                               !.full = Cardinality(B) = RuleBatch]]

ListOffers(w) ==
    /\ sweep[w] = Idle
    /\ sweeps < MaxSweeps
    /\ Matching(Idle.since) # {}
    /\ Page(w, Idle.since)
    /\ sweeps' = sweeps + 1
    /\ UNCHANGED <<clock, event, siemVars, ruleVars, asked>>

(* A page that was full is followed by the next one.                        *)
NextPage(w) ==
    /\ sweep[w].step = "OFFERS"
    /\ sweep[w].todo = {}
    /\ IF sweep[w].full THEN Page(w, sweep[w].since)
                        ELSE sweep' = [sweep EXCEPT ![w] = Idle]
    /\ UNCHANGED <<clock, event, siemVars, ruleVars, sweeps, asked>>

(* The candidate whose turn it is; the cursor moves whatever comes of it.   *)
NextOffer(w, o) ==
    /\ sweep[w].step = "OFFERS"
    /\ o \in sweep[w].todo
    /\ \A x \in sweep[w].todo : ~Before(OfferPlace(x), OfferPlace(o))

(* Below the rule's frequency, or the breaker is open: nothing is written.  *)
PassOver(w, o) ==
    /\ NextOffer(w, o)
    /\ sweep' = [sweep EXCEPT ![w].todo = @ \ {o}, ![w].since = OfferPlace(o)]
    /\ UNCHANGED <<clock, event, siemVars, ruleVars, sweeps, asked>>

(* One attempt, as deliverWithResilience makes it: a post, repeated while   *)
(* it fails transiently.  Nothing is written between the tries.             *)
SendOffer(w, o) ==
    /\ NextOffer(w, o)
    /\ \E tries \in 1..Tries : sent' = [sent EXCEPT ![PairOf(o)] = @ + tries]
    /\ \E ok \in BOOLEAN :
          sweep' = [sweep EXCEPT ![w].step = "OUTCOME", ![w].todo = @ \ {o},
                                 ![w].since = OfferPlace(o), ![w].offer = o,
                                 ![w].delivered = ok]
    /\ UNCHANGED <<clock, event, siemVars, rules, row, lost, sweeps, asked>>

(* The conflict clause that sets the count of the first insert again.       *)
CountFromOne(w) ==
    LET p == PairOf(sweep[w].offer) IN
    row' = IF sweep[w].delivered THEN [row EXCEPT ![p].delivered = TRUE]
                                 ELSE [row EXCEPT ![p].failed = 1]

(* recordNotificationDelivery's upsert: a delivered pair stays delivered.   *)
Upsert(w) ==
    LET p == PairOf(sweep[w].offer) IN
    row' = IF sweep[w].delivered THEN [row EXCEPT ![p].delivered = TRUE]
                                 ELSE [row EXCEPT ![p].failed = @ + 1]

(* The sweep goes on, or ends because the audit entry after it failed.      *)
RecordOutcome(w) ==
    /\ sweep[w].step = "OUTCOME"
    /\ Upsert(w)
    /\ \/ sweep' = [sweep EXCEPT ![w].step = "OFFERS", ![w].offer = None,
                                 ![w].delivered = FALSE]
       \/ sweep' = [sweep EXCEPT ![w] = Idle]
    /\ UNCHANGED <<clock, event, siemVars, rules, sent, lost, sweeps, asked>>

-----------------------------------------------------------------------------
(* A sweep ends where it is: nothing to do, a statement that failed, a      *)
(* breaker that is open, a process that dies.                               *)
SweepEnds(w) ==
    /\ sweep[w] # Idle
    /\ lost' = IF sweep[w].step = "OUTCOME"
                  THEN [lost EXCEPT ![PairOf(sweep[w].offer)] = @ + 1]
                  ELSE lost
    /\ sweep' = [sweep EXCEPT ![w] = Idle]
    /\ UNCHANGED <<clock, event, siemVars, rules, row, sent, sweeps, asked>>

Forwarder(w) ==
    \/ ListStreams(w) \/ ListEvents(w) \/ SendBatch(w)
    \/ MoveCursor(w) \/ ClearFailures(w) \/ RecordFailure(w)

Sender(w) ==
    \/ ListOffers(w) \/ NextPage(w) \/ RecordOutcome(w)
    \/ \E o \in Offers : PassOver(w, o) \/ SendOffer(w, o)

Next ==
    \/ Tick
    \/ \E e \in Events : BeginEvent(e) \/ CommitEvent(e)
    \/ CreateStream \/ DeleteStream \/ \E on \in BOOLEAN : ToggleStream(on)
    \/ \E r \in Rules : CreateRule(r) \/ DeleteRule(r)
    \/ \E w \in Sweepers : Forwarder(w) \/ Sender(w) \/ SweepEnds(w)

Spec == Init /\ [][Next]_vars

-----------------------------------------------------------------------------
(* Properties.                                                              *)

(* The age an event must reach is what stands between a cursor and an event *)
(* that is not visible yet.  An event may be later than that: it waited in  *)
(* an outbox of the CLI, or its transaction took long.                      *)
CommittedLate(e) == event[e].seen >= event[e].at + Settle

(* What the cursor has passed has reached the SIEM, whatever sweeps overlap *)
(* and write their cursors over each other's, except for events that became *)
(* visible the settling time or longer after their created_at.              *)
NothingIsSkipped ==
    \A e \in Events :
        /\ stream.state = "PRESENT"
        /\ Committed(e)
        /\ event[e].at >= stream.created
        /\ UpTo(Place(e), stream.cursor)
        => e \in got \/ CommittedLate(e)

(* A stream that is not running was paused by its operator or carries the   *)
(* suspension, the failures and the error that explain why: a success that  *)
(* overlaps the last failure does not wipe them out (clearSiemFailures).    *)
StopsAreExplained ==
    stream.state = "PRESENT" =>
        /\ stream.enabled <=> (wanted /\ ~stream.suspended)
        /\ stream.suspended <=> (stream.failures >= MaxAttempts)
        /\ stream.error <=> (stream.failures > 0)

SiemInv == NothingIsSkipped /\ StopsAreExplained

DeliveryInv == TypeOK /\ SiemInv

RulesOf(i) == {r \in Rules : Target[r] = i}

(* A pair is posted until it is delivered or given up, and no further: each *)
(* attempt beyond the limit is one whose outcome was lost before it was     *)
(* written, or one a sweep had already listed, and an attempt posts Tries   *)
(* times at most.  Two rules of an integration make a sweep list the pair   *)
(* twice.                                                                   *)
AttemptsAreBounded ==
    \A p \in Pairs :
        sent[p] <= Tries * (lost[p] + MaxAttempts - 1
                              + Cardinality(Sweepers) * Cardinality(RulesOf(p[2])))

=============================================================================
