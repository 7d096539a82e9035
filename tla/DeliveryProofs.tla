--------------------------- MODULE DeliveryProofs ---------------------------
(***************************************************************************)
(* Proofs about Delivery, for any number of events, rules and sweeps: what *)
(* the cursor has passed was received, a stopped stream says why, and the  *)
(* posts of a pair are bounded.                                            *)
(***************************************************************************)
EXTENDS Delivery, FiniteSetTheorems, TLAPS

(* Times, and what a stream was before it was created.                     *)
Times ==
  /\ \A e \in Events: /\ event[e].at # None => event[e].at \in 0..clock
                      /\ event[e].seen # None => /\ event[e].at # None
                                                 /\ event[e].seen \in 0..clock
                                                 /\ event[e].at <= event[e].seen
  /\ stream.created \in 0..clock

(* What a sweep has listed is committed; a sender with a post out has one. *)
Listing ==
  \A w \in Sweepers:
    /\ \A e \in sweep[w].batch: Committed(e)
    /\ \A o \in sweep[w].todo: Committed(o[1])
    /\ sweep[w].step = "OUTCOME" => sweep[w].offer \in Offers
    /\ sweep[w].step \in {"STREAM", "BATCH", "SENT", "REFUSED", "CLEAR"}
         => stream.state # "ABSENT" /\ sweep[w].todo = {}
    /\ sweep[w].step = "IDLE" => sweep[w] = Idle

BaseInv == TypeOK /\ Times /\ Listing

-----------------------------------------------------------------------------
(* Types. *)

(* The constants, and a sweep that has not begun.                          *)
LEMMA Values ==
  ASSUME DeliveryAssumption
  PROVE  /\ Events \subseteq Nat /\ 0 \notin Events
         /\ \A e \in Events: e >= 1
         /\ Idle \in Sweep /\ Idle.step = "IDLE" /\ Idle.batch = {} /\ Idle.todo = {}
         /\ \A o \in Offers: /\ o[1] \in Events /\ o[2] \in Rules
                             /\ Target[o[2]] \in Nat /\ PairOf(o) \in Pairs
         /\ None \notin Nat /\ 0..MaxClock \subseteq Nat
<1>1. /\ Events \subseteq Nat /\ 0 \notin Events /\ None \notin Nat /\ 0..MaxClock \subseteq Nat
      /\ \A e \in Events: e >= 1
  BY DEF DeliveryAssumption
<1>2. Idle.step = "IDLE" /\ Idle.batch = {} /\ Idle.todo = {} /\ Idle \in Sweep
  <2>1. /\ "IDLE" \in Steps /\ <<0, 0, 0>> \in Nat \X Nat \X Nat /\ 0 \in Nat
        /\ {} \in SUBSET Events /\ {} \in SUBSET Offers /\ FALSE \in BOOLEAN
        /\ None \in Offers \cup {None}
    BY DEF Steps
  <2>2. QED
    BY <2>1 DEF Idle, Sweep
<1>3. ASSUME NEW o \in Offers
      PROVE  o[1] \in Events /\ o[2] \in Rules /\ Target[o[2]] \in Nat /\ PairOf(o) \in Pairs
  <2>1. o[1] \in Events /\ o[2] \in Rules
    BY DEF Offers
  <2>2. Target[o[2]] \in Integrations /\ Integrations \subseteq Nat
    BY <2>1 DEF DeliveryAssumption
  <2>3. QED
    BY <2>1, <2>2 DEF PairOf, Pairs
<1>4. QED
  BY <1>1, <1>2, <1>3

(* The places of what is committed.                                        *)
LEMMA Places ==
  ASSUME DeliveryAssumption, BaseInv
  PROVE  /\ \A e \in Events: Committed(e) => Place(e) \in Nat \X Nat \X Nat
         /\ \A o \in Offers: Committed(o[1]) => OfferPlace(o) \in Nat \X Nat \X Nat
  BY Values DEF BaseInv, TypeOK, Times, Committed, Place, OfferPlace

(* The type of a sweep, field by field.                                    *)
LEMMA SweepFields ==
  ASSUME TypeOK, NEW w \in Sweepers
  PROVE  /\ sweep[w].step \in Steps /\ sweep[w].since \in Nat \X Nat \X Nat
         /\ sweep[w].failures \in Nat /\ sweep[w].batch \subseteq Events
         /\ sweep[w].todo \subseteq Offers /\ sweep[w].full \in BOOLEAN
         /\ sweep[w].delivered \in BOOLEAN /\ sweep[w].offer \in Offers \cup {None}
BY DEF TypeOK, Sweep

(* Events and operators: the sweeps are left alone.                        *)
LEMMA OutsideBase ==
  ASSUME DeliveryAssumption, BaseInv,
         \/ Tick
         \/ \E e \in Events : BeginEvent(e) \/ CommitEvent(e)
         \/ CreateStream \/ DeleteStream \/ \E on \in BOOLEAN : ToggleStream(on)
         \/ \E r \in Rules : CreateRule(r) \/ DeleteRule(r)
  PROVE  BaseInv'
<1> USE Values DEF BaseInv, siemVars, ruleVars
<1>1. CASE Tick
  BY <1>1 DEF Tick, TypeOK, Times, Listing, Committed, DeliveryAssumption
<1>2. ASSUME NEW e \in Events, BeginEvent(e)
      PROVE  BaseInv'
  <2>1. event' \in [Events -> [at: 0..MaxClock \cup {None}, seen: 0..MaxClock \cup {None}]]
    BY <1>2 DEF BeginEvent, TypeOK
  <2>2. \A x \in Events: Committed(x)' <=> Committed(x)
    BY <1>2 DEF BeginEvent, TypeOK, Committed
  <2>3. Times'
    BY <1>2 DEF BeginEvent, TypeOK, Times
  <2>4. Listing'
    BY <1>2, <2>2, SweepFields DEF BeginEvent, Listing
  <2>5. QED
    BY <1>2, <2>1, <2>3, <2>4 DEF BeginEvent, TypeOK
<1>3. ASSUME NEW e \in Events, CommitEvent(e)
      PROVE  BaseInv'
  <2>1. event' \in [Events -> [at: 0..MaxClock \cup {None}, seen: 0..MaxClock \cup {None}]]
    BY <1>3 DEF CommitEvent, TypeOK
  <2>2. \A x \in Events: Committed(x) => Committed(x)'
    BY <1>3 DEF CommitEvent, TypeOK, Committed
  <2>3. Times'
    BY <1>3 DEF CommitEvent, TypeOK, Times
  <2>4. Listing'
    BY <1>3, <2>2, SweepFields DEF CommitEvent, Listing
  <2>5. QED
    BY <1>3, <2>1, <2>3, <2>4 DEF CommitEvent, TypeOK
<1>0. ASSUME stream' \in Stream, stream'.created \in 0..clock,
             stream.state # "ABSENT" => stream'.state # "ABSENT",
             wanted' \in BOOLEAN, rules' \subseteq Rules, Ask,
             UNCHANGED <<clock, event, got, row, sent, lost, sweep, sweeps>>
      PROVE  BaseInv'
  <2>1. asked' \in 0..MaxOperations
    BY <1>0 DEF Ask, TypeOK, DeliveryAssumption
  <2>2. Listing'
    BY <1>0 DEF Listing, Committed
  <2>3. Times'
    BY <1>0 DEF Times
  <2>4. QED
    BY <1>0, <2>1, <2>2, <2>3 DEF TypeOK
<1>4. CASE CreateStream
  <2>1. clock \in 0..clock /\ clock \in 0..MaxClock /\ <<clock, 0, 0>> \in Nat \X Nat \X Nat
    BY DEF TypeOK
  <2>2. stream' \in Stream /\ stream'.created = clock /\ stream'.state = "PRESENT"
    BY <1>4, <2>1 DEF CreateStream, TypeOK, Stream
  <2>3. QED
    BY <1>0, <1>4, <2>1, <2>2 DEF CreateStream, TypeOK
<1>5. CASE DeleteStream
  <2>1. stream' \in Stream /\ stream'.created = stream.created /\ stream'.state = "DELETED"
    BY <1>5 DEF DeleteStream, TypeOK, Stream
  <2>2. QED
    BY <1>0, <1>5, <2>1 DEF DeleteStream, TypeOK, Times
<1>6. ASSUME NEW on \in BOOLEAN, ToggleStream(on)
      PROVE  BaseInv'
  <2> DEFINE n == IF on THEN 0 ELSE stream.failures
             err == ~on /\ stream.error
             sus == ~on /\ stream.suspended
  <2>1. n \in Nat /\ err \in BOOLEAN /\ sus \in BOOLEAN
    BY DEF TypeOK, Stream
  <2>2. stream' = [stream EXCEPT !.enabled = on, !.failures = n, !.error = err, !.suspended = sus]
    BY <1>6 DEF ToggleStream
  <2> HIDE DEF n, err, sus
  <2>3. stream' \in Stream /\ stream'.created = stream.created /\ stream'.state = stream.state
    BY <2>1, <2>2 DEF TypeOK, Stream
  <2>4. QED
    BY <1>0, <1>6, <2>3 DEF ToggleStream, TypeOK, Times
<1>7. ASSUME NEW r \in Rules, CreateRule(r) \/ DeleteRule(r)
      PROVE  BaseInv'
  BY <1>0, <1>7 DEF CreateRule, DeleteRule, TypeOK, Times
<1>8. QED
  BY <1>1, <1>2, <1>3, <1>4, <1>5, <1>6, <1>7

(* A sweep that goes on as one that has listed what is committed.          *)
LEMMA SweepMoves ==
  ASSUME DeliveryAssumption, BaseInv, NEW w \in Sweepers, NEW s \in Sweep,
         sweep' = [sweep EXCEPT ![w] = s], UNCHANGED event,
         stream'.state = stream.state,
         \A e \in s.batch: Committed(e),
         \A o \in s.todo: Committed(o[1]),
         s.step = "OUTCOME" => s.offer \in Offers,
         s.step \in {"STREAM", "BATCH", "SENT", "REFUSED", "CLEAR"}
           => stream.state # "ABSENT" /\ s.todo = {},
         s.step = "IDLE" => s = Idle
  PROVE  sweep' \in [Sweepers -> Sweep] /\ Listing'
BY DEF BaseInv, TypeOK, Listing, Committed

(* The forwarder.                                                          *)
LEMMA ForwarderBase ==
  ASSUME DeliveryAssumption, BaseInv, NEW w \in Sweepers, Forwarder(w)
  PROVE  BaseInv'
<1> USE Values, SweepFields DEF BaseInv, siemVars, ruleVars
<1>a. sweep[w] \in Sweep /\ sweep \in [Sweepers -> Sweep]
  BY DEF TypeOK
<1>b. /\ \A e \in sweep[w].batch: Committed(e)
      /\ \A o \in sweep[w].todo: Committed(o[1])
  BY DEF Listing
<1>1. CASE ListStreams(w)
  <2> DEFINE s == [Idle EXCEPT !.step = "STREAM", !.since = stream.cursor, !.failures = stream.failures]
  <2>1. s \in Sweep /\ s.batch = {} /\ s.todo = {} /\ s.step = "STREAM"
    <3>1. stream.cursor \in Nat \X Nat \X Nat /\ stream.failures \in Nat
      BY DEF TypeOK, Stream
    <3>2. QED
      BY <3>1 DEF Sweep, Steps, Idle
  <2>2. sweep' = [sweep EXCEPT ![w] = s]
    BY <1>1, <1>a DEF ListStreams
  <2>3. sweep' \in [Sweepers -> Sweep] /\ Listing'
    BY <1>1, <2>1, <2>2, SweepMoves DEF ListStreams
  <2>4. QED
    BY <1>1, <2>3 DEF ListStreams, TypeOK, Times, DeliveryAssumption
<1>2. CASE ListEvents(w)
  <2>1. PICK B \in FirstOf(Eligible(sweep[w].since), SiemBatch, Place):
          sweep' = [sweep EXCEPT ![w].step = "BATCH", ![w].batch = B]
    BY <1>2 DEF ListEvents
  <2>2. B \subseteq Events /\ \A e \in B: Committed(e)
    BY <2>1 DEF FirstOf, Eligible, Settled
  <2> DEFINE s == [sweep[w] EXCEPT !.step = "BATCH", !.batch = B]
  <2>3. s \in Sweep /\ s.batch = B /\ s.todo = sweep[w].todo /\ s.step = "BATCH"
    BY <1>a, <2>2 DEF Sweep, Steps
  <2>4. sweep' = [sweep EXCEPT ![w] = s]
    BY <1>a, <2>1
  <2>5. sweep' \in [Sweepers -> Sweep] /\ Listing'
    <3>1. stream.state # "ABSENT" /\ s.todo = {}
      BY <1>2, <2>3 DEF ListEvents, Listing
    <3>2. UNCHANGED event /\ stream'.state = stream.state
      BY <1>2 DEF ListEvents
    <3> HIDE DEF s
    <3>3. QED
      BY <2>2, <2>3, <2>4, <3>1, <3>2, SweepMoves
  <2>6. QED
    BY <1>2, <2>5 DEF ListEvents, TypeOK, Times
<1>3. CASE SendBatch(w)
  <2>1. PICK step \in {"SENT", "REFUSED"}: sweep' = [sweep EXCEPT ![w].step = step]
    BY <1>3 DEF SendBatch
  <2> DEFINE s == [sweep[w] EXCEPT !.step = step]
  <2>2. s \in Sweep /\ s.batch = sweep[w].batch /\ s.todo = sweep[w].todo /\ s.step = step
    BY <1>a DEF Sweep, Steps
  <2>3. sweep' = [sweep EXCEPT ![w] = s]
    BY <1>a, <2>1
  <2>4. sweep' \in [Sweepers -> Sweep] /\ Listing'
    <3>1. stream.state # "ABSENT" /\ s.todo = {}
      BY <1>3, <2>2 DEF SendBatch, Listing
    <3>2. UNCHANGED event /\ stream'.state = stream.state
      BY <1>3 DEF SendBatch
    <3> HIDE DEF s
    <3>3. QED
      BY <1>b, <2>2, <2>3, <3>1, <3>2, SweepMoves
  <2>5. QED
    BY <1>3, <2>4 DEF SendBatch, TypeOK, Times
<1>4. ASSUME sweep' = [sweep EXCEPT ![w] = Idle], UNCHANGED <<event, clock, got, rules, row, sent, lost, wanted>>,
             stream' \in Stream,
             stream'.state = stream.state, stream'.created = stream.created,
             UNCHANGED <<sweeps, asked>>
      PROVE  BaseInv'
  <2>1. sweep' \in [Sweepers -> Sweep] /\ Listing'
    BY <1>4, SweepMoves
  <2>2. QED
    BY <1>4, <2>1 DEF TypeOK, Times
<1>5. CASE MoveCursor(w)
  <2>1. PICK e \in Events:
          /\ IsLast(e, sweep[w].batch)
          /\ stream' = IF stream.state = "PRESENT" THEN [stream EXCEPT !.cursor = Place(e)] ELSE stream
    BY <1>5 DEF MoveCursor
  <2>2. Place(e) \in Nat \X Nat \X Nat
    BY <1>b, <2>1, Places DEF IsLast
  <2>3. /\ stream' \in Stream
        /\ stream'.state = stream.state /\ stream'.created = stream.created
    BY <2>1, <2>2 DEF TypeOK, Stream
  <2>4. CASE sweep[w].failures > 0
    <3> DEFINE s == [Idle EXCEPT !.step = "CLEAR"]
    <3>1. s \in Sweep /\ s.batch = {} /\ s.todo = {} /\ s.step = "CLEAR"
      BY DEF Sweep, Steps, Idle
    <3>2. sweep' = [sweep EXCEPT ![w] = s]
      BY <1>5, <2>4 DEF MoveCursor
    <3>3. sweep' \in [Sweepers -> Sweep] /\ Listing'
      BY <1>5, <2>3, <3>1, <3>2, SweepMoves DEF MoveCursor, Listing
    <3>4. QED
      BY <1>5, <2>3, <3>3 DEF MoveCursor, TypeOK, Times
  <2>5. CASE ~(sweep[w].failures > 0)
    BY <1>4, <1>5, <2>3, <2>5 DEF MoveCursor
  <2>6. QED
    BY <2>4, <2>5
<1>6. CASE ClearFailures(w)
  <2>1. /\ stream' \in Stream
        /\ stream'.state = stream.state /\ stream'.created = stream.created
    BY <1>6 DEF ClearFailures, TypeOK, Stream
  <2>2. QED
    BY <1>4, <1>6, <2>1 DEF ClearFailures
<1>7. CASE RecordFailure(w)
  <2> DEFINE full == stream.failures + 1 >= MaxAttempts
             on == ~full /\ stream.enabled
             sus == full \/ stream.suspended
  <2>1. stream' \in Stream /\ stream'.state = stream.state /\ stream'.created = stream.created
    <3>1. on \in BOOLEAN /\ sus \in BOOLEAN /\ stream.failures + 1 \in Nat
      BY DEF TypeOK, Stream
    <3>2. stream' = IF stream.state = "PRESENT"
                      THEN [stream EXCEPT !.failures = @ + 1, !.error = TRUE,
                                          !.enabled = on, !.suspended = sus]
                      ELSE stream
      BY <1>7 DEF RecordFailure
    <3> HIDE DEF full, on, sus
    <3>3. QED
      BY <3>1, <3>2 DEF TypeOK, Stream
  <2>2. QED
    BY <1>4, <1>7, <2>1 DEF RecordFailure
<1>8. QED
  BY <1>1, <1>2, <1>3, <1>5, <1>6, <1>7 DEF Forwarder

(* A page of offers is the sweep's next state or its end.                  *)
LEMMA PageMoves ==
  ASSUME DeliveryAssumption, BaseInv, NEW w \in Sweepers,
         NEW since \in Nat \X Nat \X Nat, Page(w, since)
  PROVE  \E B \in SUBSET Matching(since), s \in Sweep:
            /\ sweep' = [sweep EXCEPT ![w] = s]
            /\ s.todo = B /\ s.batch = {} /\ s.step \in {"IDLE", "OFFERS"}
            /\ s.step = "IDLE" => s = Idle
<1>1. PICK B \in FirstOf(Matching(since), RuleBatch, OfferPlace):
        sweep' = [sweep EXCEPT ![w] =
                    IF B = {} THEN Idle
                              ELSE [Idle EXCEPT !.step = "OFFERS", !.since = since, !.todo = B,
                                                !.full = Cardinality(B) = RuleBatch]]
  BY DEF Page
<1>2. B \in SUBSET Matching(since) /\ B \in SUBSET Offers
  BY <1>1 DEF FirstOf, Matching
<1> DEFINE full == Cardinality(B) = RuleBatch
<1>3. full \in BOOLEAN
  OBVIOUS
<1> DEFINE t == [Idle EXCEPT !.step = "OFFERS", !.since = since, !.todo = B, !.full = full]
<1>4. t \in Sweep /\ t.step = "OFFERS" /\ t.todo = B /\ t.batch = {}
  <2> HIDE DEF full
  <2>1. QED
    BY <1>2, <1>3, Values DEF Sweep, Steps, Idle
<1>5. CASE B = {}
  BY <1>1, <1>2, <1>5, Values
<1>6. CASE B # {}
  <2>1. sweep' = [sweep EXCEPT ![w] = t]
    BY <1>1, <1>6
  <2> HIDE DEF t
  <2>2. QED
    BY <1>2, <1>4, <2>1
<1>7. QED
  BY <1>5, <1>6

(* The sender.                                                             *)
LEMMA SenderBase ==
  ASSUME DeliveryAssumption, BaseInv, NEW w \in Sweepers, Sender(w)
  PROVE  BaseInv'
<1> USE Values, SweepFields DEF BaseInv, siemVars, ruleVars
<1>a. sweep[w] \in Sweep /\ sweep \in [Sweepers -> Sweep]
  BY DEF TypeOK
<1>b. /\ \A e \in sweep[w].batch: Committed(e)
      /\ \A o \in sweep[w].todo: Committed(o[1])
  BY DEF Listing
<1>0. ASSUME sweep' \in [Sweepers -> Sweep], Listing', sweeps' \in 0..MaxSweeps,
             row' \in [Pairs -> [delivered: BOOLEAN, failed: Nat]],
             sent' \in [Pairs -> Nat], lost' \in [Pairs -> Nat],
             UNCHANGED <<clock, event, stream, wanted, got, rules, asked>>
      PROVE  BaseInv'
  BY <1>0 DEF TypeOK, Times
<1>1. ASSUME NEW since \in Nat \X Nat \X Nat, Page(w, since), sweeps' \in 0..MaxSweeps,
             UNCHANGED <<clock, event, siemVars, ruleVars, asked>>
      PROVE  BaseInv'
  <2>1. PICK B \in SUBSET Matching(since), s \in Sweep:
            /\ sweep' = [sweep EXCEPT ![w] = s]
            /\ s.todo = B /\ s.batch = {} /\ s.step \in {"IDLE", "OFFERS"}
            /\ s.step = "IDLE" => s = Idle
    BY <1>1, PageMoves
  <2>2. \A o \in B: Committed(o[1])
    BY DEF Matching
  <2>3. sweep' \in [Sweepers -> Sweep] /\ Listing'
    BY <1>1, <2>1, <2>2, SweepMoves
  <2>4. QED
    BY <1>0, <1>1, <2>3 DEF TypeOK
<1>2. CASE ListOffers(w)
  <2>1. sweeps' \in 0..MaxSweeps /\ Idle.since \in Nat \X Nat \X Nat
    BY <1>2 DEF ListOffers, TypeOK, DeliveryAssumption, Idle
  <2>2. QED
    BY <1>1, <1>2, <2>1 DEF ListOffers
<1>3. CASE NextPage(w)
  <2>1. CASE sweep[w].full
    BY <1>1, <1>3, <2>1 DEF NextPage, TypeOK
  <2>2. CASE ~sweep[w].full
    <3>1. sweep' = [sweep EXCEPT ![w] = Idle]
      BY <1>3, <2>2 DEF NextPage
    <3>2. sweep' \in [Sweepers -> Sweep] /\ Listing'
      BY <1>3, <3>1, SweepMoves DEF NextPage
    <3>3. QED
      BY <1>0, <1>3, <3>2 DEF NextPage, TypeOK
  <2>3. QED
    BY <2>1, <2>2
<1>4. ASSUME NEW o \in Offers, NEW s \in Sweep, NextOffer(w, o),
             sweep' = [sweep EXCEPT ![w] = s],
             s.todo = sweep[w].todo \ {o}, s.batch = sweep[w].batch,
             s.step \in {"OFFERS", "OUTCOME"}, s.step = "OUTCOME" => s.offer = o,
             UNCHANGED <<event, stream>>
      PROVE  sweep' \in [Sweepers -> Sweep] /\ Listing'
  BY <1>4, <1>b, SweepMoves, ZenonT(40)
<1>5. ASSUME NEW o \in Offers, NextOffer(w, o)
      PROVE  OfferPlace(o) \in Nat \X Nat \X Nat /\ PairOf(o) \in Pairs
  BY <1>5, <1>b, Places DEF NextOffer
<1>6. ASSUME NEW o \in Offers, PassOver(w, o)
      PROVE  BaseInv'
  <2> DEFINE s == [sweep[w] EXCEPT !.todo = @ \ {o}, !.since = OfferPlace(o)]
  <2>1. NextOffer(w, o) /\ s \in Sweep
    <3>1. NextOffer(w, o) /\ OfferPlace(o) \in Nat \X Nat \X Nat
      BY <1>5, <1>6 DEF PassOver
    <3>2. QED
      BY <1>a, <3>1 DEF Sweep
  <2>2. /\ s.todo = sweep[w].todo \ {o} /\ s.batch = sweep[w].batch /\ s.step = "OFFERS"
        /\ sweep' = [sweep EXCEPT ![w] = s]
    BY <1>a, <1>6, <2>1 DEF PassOver, NextOffer, Sweep
  <2> HIDE DEF s
  <2>3. sweep' \in [Sweepers -> Sweep] /\ Listing'
    BY <1>4, <1>6, <2>1, <2>2 DEF PassOver
  <2>4. QED
    BY <1>0, <1>6, <2>3 DEF PassOver, TypeOK
<1>7. ASSUME NEW o \in Offers, SendOffer(w, o)
      PROVE  BaseInv'
  <2>1. PICK ok \in BOOLEAN:
          sweep' = [sweep EXCEPT ![w].step = "OUTCOME", ![w].todo = @ \ {o},
                                 ![w].since = OfferPlace(o), ![w].offer = o,
                                 ![w].delivered = ok]
    BY <1>7 DEF SendOffer
  <2> DEFINE s == [sweep[w] EXCEPT !.step = "OUTCOME", !.todo = @ \ {o}, !.since = OfferPlace(o),
                                   !.offer = o, !.delivered = ok]
  <2>2. NextOffer(w, o) /\ s \in Sweep
    <3>1. NextOffer(w, o) /\ OfferPlace(o) \in Nat \X Nat \X Nat
      BY <1>5, <1>7 DEF SendOffer
    <3>2. QED
      BY <1>a, <3>1 DEF Sweep, Steps
  <2>3. /\ s.todo = sweep[w].todo \ {o} /\ s.batch = sweep[w].batch
        /\ s.step = "OUTCOME" /\ s.offer = o /\ sweep' = [sweep EXCEPT ![w] = s]
    BY <1>a, <2>1 DEF Sweep
  <2> HIDE DEF s
  <2>4. sweep' \in [Sweepers -> Sweep] /\ Listing'
    BY <1>4, <1>7, <2>2, <2>3 DEF SendOffer
  <2>5. sent' \in [Pairs -> Nat]
    BY <1>7 DEF SendOffer, TypeOK
  <2>6. QED
    BY <1>0, <1>7, <2>4, <2>5 DEF SendOffer, TypeOK
<1>8. CASE RecordOutcome(w)
  <2>1. row' \in [Pairs -> [delivered: BOOLEAN, failed: Nat]]
    <3>1. PairOf(sweep[w].offer) \in Pairs
      BY <1>8 DEF RecordOutcome, Listing
    <3> DEFINE p == PairOf(sweep[w].offer)
    <3>2. /\ row \in [Pairs -> [delivered: BOOLEAN, failed: Nat]]
          /\ row[p] \in [delivered: BOOLEAN, failed: Nat] /\ row[p].failed + 1 \in Nat
      BY <3>1 DEF TypeOK
    <3>3. row' = [row EXCEPT ![p].delivered = TRUE] \/ row' = [row EXCEPT ![p].failed = @ + 1]
      BY <1>8 DEF RecordOutcome, Upsert
    <3> HIDE DEF p
    <3>4. /\ [row[p] EXCEPT !.delivered = TRUE] \in [delivered: BOOLEAN, failed: Nat]
          /\ [row[p] EXCEPT !.failed = @ + 1] \in [delivered: BOOLEAN, failed: Nat]
      BY <3>2
    <3>5. CASE row' = [row EXCEPT ![p].delivered = TRUE]
      BY <3>1, <3>2, <3>4, <3>5
    <3>6. CASE row' = [row EXCEPT ![p].failed = @ + 1]
      BY <3>1, <3>2, <3>4, <3>6
    <3>7. QED
      BY <3>3, <3>5, <3>6
  <2>2. sweep' \in [Sweepers -> Sweep] /\ Listing'
    <3>1. CASE sweep' = [sweep EXCEPT ![w] = Idle]
      BY <1>8, <3>1, SweepMoves DEF RecordOutcome
    <3>2. CASE sweep' = [sweep EXCEPT ![w].step = "OFFERS", ![w].offer = None,
                                      ![w].delivered = FALSE]
      <4> DEFINE s == [sweep[w] EXCEPT !.step = "OFFERS", !.offer = None, !.delivered = FALSE]
      <4>1. s \in Sweep /\ s.batch = sweep[w].batch /\ s.todo = sweep[w].todo /\ s.step = "OFFERS"
        BY <1>a DEF Sweep, Steps
      <4>2. sweep' = [sweep EXCEPT ![w] = s]
        BY <1>a, <3>2
      <4> HIDE DEF s
      <4>3. QED
        BY <1>8, <1>b, <4>1, <4>2, SweepMoves DEF RecordOutcome
    <3>3. QED
      BY <1>8, <3>1, <3>2 DEF RecordOutcome
  <2>3. QED
    BY <1>0, <1>8, <2>1, <2>2 DEF RecordOutcome, TypeOK
<1>9. QED
  BY <1>2, <1>3, <1>6, <1>7, <1>8 DEF Sender

(* A sweep that ends, wherever it is.                                      *)
LEMMA EndsBase ==
  ASSUME DeliveryAssumption, BaseInv, NEW w \in Sweepers, SweepEnds(w)
  PROVE  BaseInv'
<1> USE Values DEF BaseInv, siemVars
<1>1. sweep' \in [Sweepers -> Sweep] /\ Listing'
  BY SweepMoves DEF SweepEnds
<1>2. lost' \in [Pairs -> Nat]
  <2>1. CASE sweep[w].step = "OUTCOME"
    <3>1. PairOf(sweep[w].offer) \in Pairs
      BY <2>1 DEF Listing
    <3>2. QED
      BY <2>1, <3>1 DEF SweepEnds, TypeOK
  <2>2. CASE sweep[w].step # "OUTCOME"
    BY <2>2 DEF SweepEnds, TypeOK
  <2>3. QED
    BY <2>1, <2>2
<1>3. QED
  BY <1>1, <1>2 DEF SweepEnds, TypeOK, Times

(* The beginning, and every step.                                          *)
LEMMA InitBase ==
  ASSUME DeliveryAssumption, Init
  PROVE  BaseInv
<1> USE Values
<1>1. TypeOK
  <2>1. stream \in Stream /\ wanted \in BOOLEAN
    <3>1. <<0, 0, 0>> \in Nat \X Nat \X Nat /\ 0 \in 0..MaxClock
      BY DEF DeliveryAssumption
    <3>2. QED
      BY <3>1 DEF Init, Stream
  <2>2. /\ clock \in 0..MaxClock /\ sweeps \in 0..MaxSweeps /\ asked \in 0..MaxOperations
    BY DEF Init, DeliveryAssumption
  <2>3. /\ event \in [Events -> [at: 0..MaxClock \cup {None}, seen: 0..MaxClock \cup {None}]]
        /\ row \in [Pairs -> [delivered: BOOLEAN, failed: Nat]]
        /\ sent \in [Pairs -> Nat] /\ lost \in [Pairs -> Nat]
        /\ got \subseteq Events /\ rules \subseteq Rules
    BY DEF Init
  <2>4. sweep \in [Sweepers -> Sweep]
    BY DEF Init
  <2>5. QED
    BY <2>1, <2>2, <2>3, <2>4 DEF TypeOK
<1>2. QED
  BY <1>1 DEF Init, BaseInv, Times, Listing

(* Types, times and listings hold after every step.                        *)
LEMMA NextBase ==
  ASSUME DeliveryAssumption, BaseInv, [Next]_vars
  PROVE  BaseInv'
<1>1. CASE Next
  BY <1>1, OutsideBase, ForwarderBase, SenderBase, EndsBase DEF Next
<1>2. CASE UNCHANGED vars
  BY <1>2 DEF vars, BaseInv, TypeOK, Times, Listing, Committed
<1>3. QED
  BY <1>1, <1>2

-----------------------------------------------------------------------------
(* The cursor.                                                             *)

Rows == Nat \X Nat \X Nat

(* Everything up to q was received, is in S, or came late; and what is not *)
(* visible yet can only come late, or sorts after q.                       *)
Covered(q, S) ==
  \A e \in Events:
    Committed(e) /\ event[e].at >= stream.created /\ UpTo(Place(e), q)
      => e \in got \cup S \/ CommittedLate(e)
Behind(q) == q[1] + Settle <= clock \/ (q[1] = stream.created /\ q[2] = 0)
Safe(q, S) == Covered(q, S) /\ Behind(q)

Ends(q, B) == \E e \in Events: IsLast(e, B) /\ q = Place(e)

(* So it is with every cursor a sweep has read, is about to earn by a send *)
(* or is about to write: NothingIsSkipped is not inductive without them.   *)
RowSafe(q) == stream.state = "PRESENT" /\ stream.cursor = q => Safe(q, {})
SweepSafe(w, q, B) ==
  /\ sweep[w].step = "STREAM" /\ sweep[w].since = q => Safe(q, {})
  /\ sweep[w].step = "BATCH" /\ sweep[w].batch = B /\ Ends(q, B) => Safe(q, B)
  /\ sweep[w].step = "SENT" /\ sweep[w].batch = B /\ Ends(q, B) => Safe(q, {})
CursorInv ==
  \A q \in Rows, B \in SUBSET Events:
    RowSafe(q) /\ \A w \in Sweepers: SweepSafe(w, q, B)

(* What a step may do to the events.                                       *)
EventsMove ==
  \A e \in Events:
    \/ event'[e] = event[e]
    \/ event[e].at = None /\ event[e].seen = None /\ event'[e].seen = None
    \/ event[e].seen = None /\ event'[e].at = event[e].at /\ event'[e].seen = clock

LEMMA EventSteps ==
  ASSUME DeliveryAssumption, BaseInv, [Next]_vars
  PROVE  EventsMove /\ clock' \in Nat /\ clock <= clock' /\ clock \in Nat
<1> USE Values DEF BaseInv, TypeOK
<1>1. clock \in Nat
  OBVIOUS
<1>2. ASSUME NEW e \in Events, BeginEvent(e)
      PROVE  EventsMove /\ clock' = clock
  BY <1>2 DEF BeginEvent, EventsMove, Times
<1>3. ASSUME NEW e \in Events, CommitEvent(e)
      PROVE  EventsMove /\ clock' = clock
  BY <1>3 DEF CommitEvent, EventsMove
<1>4. CASE Tick
  BY <1>1, <1>4 DEF Tick, EventsMove
<1>5. CASE UNCHANGED <<clock, event>>
  BY <1>5 DEF EventsMove
<1>6. CASE CreateStream \/ DeleteStream
  BY <1>5, <1>6 DEF CreateStream, DeleteStream
<1>7. ASSUME NEW on \in BOOLEAN, ToggleStream(on)
      PROVE  UNCHANGED <<clock, event>>
  BY <1>7 DEF ToggleStream
<1>8. ASSUME NEW r \in Rules, CreateRule(r) \/ DeleteRule(r)
      PROVE  UNCHANGED <<clock, event>>
  BY <1>8 DEF CreateRule, DeleteRule
<1>9. ASSUME NEW w \in Sweepers, Forwarder(w) \/ Sender(w) \/ SweepEnds(w)
      PROVE  UNCHANGED <<clock, event>>
  BY <1>9 DEF Forwarder, Sender, SweepEnds, ListStreams, ListEvents, SendBatch, MoveCursor,
              ClearFailures, RecordFailure, ListOffers, NextPage, RecordOutcome, PassOver, SendOffer
<1>10. CASE UNCHANGED vars
  BY <1>5, <1>10 DEF vars
<1>11. CASE Next
  BY <1>1, <1>2, <1>3, <1>4, <1>5, <1>6, <1>7, <1>8, <1>9, <1>11 DEF Next
<1>12. QED
  BY <1>1, <1>5, <1>10, <1>11 DEF vars

(* The settling time at work: an event that commits after a cursor passed  *)
(* its place commits late.                                                 *)
LEMMA SafeStays ==
  ASSUME DeliveryAssumption, BaseInv, [Next]_vars,
         stream'.created = stream.created, got \subseteq got',
         NEW q \in Rows, NEW S, NEW T, S \subseteq T \cup got', Safe(q, S)
  PROVE  Safe(q, T)'
<1> USE Values, EventSteps
<1>0. stream.created \in Nat /\ Settle \in Nat \ {0} /\ q[1] \in Nat /\ q[2] \in Nat /\ q[3] \in Nat
  BY DEF BaseInv, Times, DeliveryAssumption, TypeOK, Rows
<1>1. Behind(q)'
  BY <1>0 DEF Safe, Behind
<1>2. ASSUME NEW e \in Events, Committed(e)', event'[e].at >= stream.created, UpTo(Place(e), q)'
      PROVE  e \in got' \cup T \/ CommittedLate(e)'
  <2>1. CASE event'[e] = event[e]
    BY <1>2, <2>1 DEF Safe, Covered, Committed, Place, UpTo, Before, CommittedLate
  <2>2. CASE event[e].seen = None /\ event'[e].at = event[e].at /\ event'[e].seen = clock
    <3>1. BaseInv'
      BY NextBase
    <3>2. event'[e].at \in Nat /\ e \in Nat /\ e >= 1
      BY <1>2, <3>1 DEF BaseInv, Times, Committed, TypeOK
    <3>3. event'[e].at <= q[1] /\ (event'[e].at = q[1] => e <= q[2])
      BY <1>0, <1>2, <3>2 DEF UpTo, Before, Place
    <3>4. q[1] + Settle <= clock
      BY <1>0, <1>2, <3>2, <3>3 DEF Safe, Behind
    <3>5. QED
      BY <1>0, <2>2, <3>2, <3>3, <3>4 DEF CommittedLate
  <2>3. CASE event[e].seen = None /\ event'[e].seen = None
    BY <1>2, <2>3 DEF Committed
  <2>4. QED
    BY <2>1, <2>2, <2>3 DEF EventsMove
<1>3. QED
  BY <1>1, <1>2 DEF Safe, Covered

(* The last of a batch stays its last.                                     *)
LEMMA EndsStay ==
  ASSUME DeliveryAssumption, BaseInv, [Next]_vars,
         NEW q \in Rows, NEW B \in SUBSET Events, \A e \in B: Committed(e), Ends(q, B)'
  PROVE  Ends(q, B)
<1>1. \A e \in B: event'[e].at = event[e].at
  BY EventSteps DEF EventsMove, Committed
<1>2. \A e \in B: Place(e)' = Place(e)
  BY <1>1 DEF Place
<1>3. PICK e \in Events: IsLast(e, B)' /\ q = Place(e)'
  BY DEF Ends
<1>4. e \in B /\ \A x \in B: UpTo(Place(x), Place(e))'
  BY <1>3 DEF IsLast
<1>5. q = Place(e)
  BY <1>2, <1>3, <1>4
<1>6. \A x \in B: UpTo(Place(x), Place(e))
  BY <1>2, <1>4 DEF UpTo, Before
<1>7. QED
  BY <1>4, <1>5, <1>6 DEF Ends, IsLast

(* What a step leaves alone: the row's cursor, and any sweep.              *)
LEMMA RowStays ==
  ASSUME DeliveryAssumption, BaseInv, [Next]_vars, CursorInv, NEW q \in Rows,
         stream'.created = stream.created, got \subseteq got',
         stream'.state = "PRESENT" => stream.state = "PRESENT" /\ stream'.cursor = stream.cursor
  PROVE  RowSafe(q)'
<1>1. Safe(q, {}) => Safe(q, {})'
  BY SafeStays
<1>2. QED
  BY <1>1 DEF CursorInv, RowSafe

LEMMA SweepStays ==
  ASSUME DeliveryAssumption, BaseInv, [Next]_vars, CursorInv,
         stream'.created = stream.created, got \subseteq got',
         NEW v \in Sweepers, sweep'[v] = sweep[v],
         NEW q \in Rows, NEW B \in SUBSET Events
  PROVE  SweepSafe(v, q, B)'
<1>1. Safe(q, {}) => Safe(q, {})'
  BY SafeStays
<1>2. Safe(q, B) => Safe(q, B)'
  BY SafeStays
<1>3. sweep[v].batch = B /\ Ends(q, B)' => Ends(q, B)
  BY EndsStay DEF BaseInv, Listing
<1>4. QED
  BY <1>1, <1>2, <1>3 DEF CursorInv, SweepSafe

(* Steps after which a sweep follows no stream.                            *)
LEMMA CursorStays ==
  ASSUME DeliveryAssumption, BaseInv, [Next]_vars, CursorInv,
         stream'.created = stream.created, got \subseteq got',
         stream'.state = "PRESENT" => stream.state = "PRESENT" /\ stream'.cursor = stream.cursor,
         \A v \in Sweepers: \/ sweep'[v] = sweep[v]
                           \/ sweep'[v].step \notin {"STREAM", "BATCH", "SENT"}
  PROVE  CursorInv'
<1>1. ASSUME NEW q \in Rows, NEW B \in SUBSET Events, NEW v \in Sweepers
      PROVE  SweepSafe(v, q, B)'
  <2>1. CASE sweep'[v] = sweep[v]
    BY <2>1, SweepStays
  <2>2. CASE sweep'[v].step \notin {"STREAM", "BATCH", "SENT"}
    BY <2>2 DEF SweepSafe
  <2>3. QED
    BY <2>1, <2>2
<1>2. QED
  BY <1>1, RowStays DEF CursorInv

LEMMA PageSteps ==
  ASSUME sweep \in [Sweepers -> Sweep], NEW w \in Sweepers, NEW since, Page(w, since)
  PROVE  sweep'[w].step \in {"IDLE", "OFFERS"}
BY DEF Page, Idle

(* The cursors after every step.                                           *)
LEMMA CursorStep ==
  ASSUME DeliveryAssumption, BaseInv, [Next]_vars, CursorInv
  PROVE  CursorInv'
<1> USE Values DEF siemVars, ruleVars
<1>a. sweep \in [Sweepers -> Sweep] /\ Idle.step = "IDLE" /\ stream \in Stream
  BY DEF BaseInv, TypeOK
<1>b. BaseInv'
  BY NextBase
<1>1. CASE UNCHANGED <<stream, got, sweep>>
  BY <1>1, CursorStays
<1>2. CASE Tick \/ (\E e \in Events: BeginEvent(e) \/ CommitEvent(e))
           \/ (\E r \in Rules: CreateRule(r) \/ DeleteRule(r))
  BY <1>1, <1>2 DEF Tick, BeginEvent, CommitEvent, CreateRule, DeleteRule
<1>3. CASE CreateStream
  <2>1. \A v \in Sweepers: sweep'[v].step \notin {"STREAM", "BATCH", "SENT"}
    BY <1>3 DEF CreateStream, BaseInv, Listing
  <2>2. ASSUME NEW q \in Rows
        PROVE  RowSafe(q)'
    <3>1. /\ stream'.created = clock /\ stream'.cursor = <<clock, 0, 0>> /\ clock \in Nat
          /\ event' = event
      BY <1>3, <1>a DEF CreateStream, Stream, BaseInv, TypeOK
    <3>2. SUFFICES ASSUME q = <<clock, 0, 0>>
                   PROVE  Safe(q, {})'
      BY <3>1 DEF RowSafe
    <3>3. q[1] = clock /\ q[2] = 0 /\ q[3] = 0
      BY <3>2
    <3>4. ASSUME NEW e \in Events, event[e].seen # None, event[e].at >= clock, UpTo(Place(e), q)'
          PROVE  FALSE
      <4>1. event[e].at \in Nat /\ e \in Nat /\ e >= 1
        BY <3>4 DEF BaseInv, Times, TypeOK
      <4>2. Place(e)' = <<event[e].at, e, 0>>
        BY <3>1 DEF Place
      <4>3. Place(e)' # q
        BY <3>3, <4>1, <4>2
      <4>4. Before(Place(e), q)'
        BY <3>4, <4>3 DEF UpTo
      <4>5. QED
        BY <3>1, <3>3, <3>4, <4>1, <4>2, <4>4 DEF Before
    <3>5. Covered(q, {})'
      BY <3>1, <3>4 DEF Covered, Committed
    <3>6. Behind(q)'
      BY <3>1, <3>3 DEF Behind
    <3>7. QED
      BY <3>5, <3>6 DEF Safe
  <2>3. QED
    BY <2>1, <2>2 DEF CursorInv, SweepSafe
<1>4. CASE DeleteStream \/ \E on \in BOOLEAN: ToggleStream(on)
  BY <1>4, <1>a, CursorStays DEF DeleteStream, ToggleStream, Stream
<1>5. ASSUME NEW w \in Sweepers, ListStreams(w)
      PROVE  CursorInv'
  <2>1. /\ stream.state = "PRESENT" /\ UNCHANGED <<stream, got>>
        /\ sweep'[w].step = "STREAM" /\ sweep'[w].since = stream.cursor
        /\ \A v \in Sweepers \ {w}: sweep'[v] = sweep[v]
    BY <1>5, <1>a DEF ListStreams, Sweep
  <2>2. ASSUME NEW q \in Rows, NEW B \in SUBSET Events
        PROVE  RowSafe(q)' /\ SweepSafe(w, q, B)'
    <3>1. RowSafe(q)'
      BY <2>1, RowStays
    <3>2. QED
      BY <2>1, <3>1 DEF RowSafe, SweepSafe
  <2>3. QED
    BY <2>1, <2>2, SweepStays DEF CursorInv
<1>6. ASSUME NEW w \in Sweepers, ListEvents(w)
      PROVE  CursorInv'
  <2>1. PICK B \in FirstOf(Eligible(sweep[w].since), SiemBatch, Place):
          sweep' = [sweep EXCEPT ![w].step = "BATCH", ![w].batch = B]
    BY <1>6 DEF ListEvents
  <2>2. /\ UNCHANGED <<stream, got, event, clock>>
        /\ sweep'[w].step = "BATCH" /\ sweep'[w].batch = B
        /\ \A v \in Sweepers \ {w}: sweep'[v] = sweep[v]
    BY <1>6, <1>a, <2>1 DEF ListEvents, Sweep
  <2>3. ASSUME NEW q \in Rows, Ends(q, B)
        PROVE  Safe(q, B)
    <3>1. PICK l \in Events: IsLast(l, B) /\ q = Place(l)
      BY <2>3 DEF Ends
    <3>2. /\ B \subseteq Eligible(sweep[w].since)
          /\ \A x \in B, y \in Eligible(sweep[w].since) \ B: ~Before(Place(y), Place(x))
      BY <2>1 DEF FirstOf
    <3>3. Settled(l) /\ l \in B
      BY <3>1, <3>2 DEF IsLast, Eligible
    <3>4. Behind(q)
      BY <3>1, <3>3 DEF Behind, Place, Settled
    <3>5. PICK s \in Rows: s = sweep[w].since
      BY <1>a DEF Sweep, Rows
    <3>6. Safe(s, {})
      BY <1>6, <3>5 DEF CursorInv, SweepSafe, ListEvents
    <3>7. ASSUME NEW e \in Events, Committed(e), event[e].at >= stream.created,
                 UpTo(Place(e), q), e \notin got \cup B
          PROVE  CommittedLate(e)
      <4>1. /\ event[e].at \in Nat /\ event[l].at \in Nat /\ e \in Nat /\ l \in Nat
            /\ clock \in Nat /\ Settle \in Nat
        BY <3>3, <3>7 DEF BaseInv, Times, Committed, Settled, TypeOK, DeliveryAssumption
      <4>2. event[e].at <= event[l].at
        <5>1. CASE Before(Place(e), Place(l))
          <6> DEFINE p == Place(e)
                     r == Place(l)
          <6>1. p[1] = event[e].at /\ r[1] = event[l].at
            BY DEF Place
          <6>2. Before(p, r)
            BY <5>1
          <6> HIDE DEF p, r
          <6>3. QED
            BY <4>1, <6>1, <6>2 DEF Before
        <5>2. CASE Place(e) = Place(l)
          <6>1. <<event[e].at, e, 0>>[1] = <<event[l].at, l, 0>>[1]
            BY <5>2 DEF Place
          <6>2. QED
            BY <4>1, <6>1
        <5>3. QED
          BY <3>1, <3>7, <5>1, <5>2 DEF UpTo
      <4>3. Settled(e)
        BY <3>3, <3>7, <4>1, <4>2 DEF Settled
      <4>4. e # l /\ Place(e) # Place(l)
        BY <3>3, <3>7 DEF Place
      <4>5. Before(Place(e), Place(l))
        BY <3>1, <3>7, <4>4 DEF UpTo
      <4>6. e \notin Eligible(s)
        BY <3>2, <3>3, <3>5, <3>7, <4>5
      <4>7. ~Before(s, Place(e))
        BY <4>3, <4>6 DEF Eligible
      <4>8. UpTo(Place(e), s)
        <5>1. /\ s[1] \in Nat /\ s[2] \in Nat /\ s[3] \in Nat /\ s = <<s[1], s[2], s[3]>>
          BY DEF Rows
        <5>2. CASE s[1] = event[e].at /\ s[2] = e /\ s[3] = 0
          BY <5>1, <5>2 DEF UpTo, Place
        <5>3. CASE ~(s[1] = event[e].at /\ s[2] = e /\ s[3] = 0)
          <6> DEFINE p == Place(e)
          <6>1. p[1] = event[e].at /\ p[2] = e /\ p[3] = 0
            BY DEF Place
          <6>2. ~Before(s, p)
            BY <4>7
          <6> HIDE DEF p
          <6>3. Before(p, s)
            BY <4>1, <5>1, <5>3, <6>1, <6>2 DEF Before
          <6>4. QED
            BY <6>3 DEF UpTo, p
        <5>4. QED
          BY <5>2, <5>3
      <4>9. QED
        BY <3>6, <3>7, <4>8 DEF Safe, Covered
    <3>8. QED
      BY <3>4, <3>7 DEF Safe, Covered
  <2>4. ASSUME NEW q \in Rows, NEW C \in SUBSET Events
        PROVE  RowSafe(q)' /\ SweepSafe(w, q, C)'
    <3>1. RowSafe(q)'
      BY <2>2, RowStays
    <3>2. Ends(q, B)' => Ends(q, B)
      BY <2>2 DEF Ends, IsLast, UpTo, Before, Place
    <3>3. Safe(q, B) => Safe(q, B)'
      BY <2>2, SafeStays
    <3>4. QED
      BY <2>2, <2>3, <3>1, <3>2, <3>3 DEF SweepSafe
  <2>5. QED
    BY <2>2, <2>4, SweepStays DEF CursorInv
<1>7. ASSUME NEW w \in Sweepers, SendBatch(w)
      PROVE  CursorInv'
  <2>1. /\ sweep[w].step = "BATCH" /\ sweep'[w].step \in {"SENT", "REFUSED"} /\ sweep'[w].batch = sweep[w].batch
        /\ UNCHANGED <<stream, event, clock>> /\ got \subseteq got'
        /\ sweep'[w].step = "SENT" => got' = got \cup sweep[w].batch
        /\ \A v \in Sweepers \ {w}: sweep'[v] = sweep[v]
    BY <1>7, <1>a DEF SendBatch, Sweep
  <2>2. ASSUME NEW q \in Rows, NEW B \in SUBSET Events
        PROVE  RowSafe(q)' /\ SweepSafe(w, q, B)'
    <3>1. RowSafe(q)'
      BY <2>1, RowStays
    <3>2. ASSUME sweep'[w].step = "SENT", sweep'[w].batch = B, Ends(q, B)'
          PROVE  Safe(q, {})'
      <4>1. Ends(q, B)
        BY <2>1, <3>2 DEF Ends, IsLast, UpTo, Before, Place
      <4>2. Safe(q, B)
        BY <2>1, <3>2, <4>1 DEF CursorInv, SweepSafe
      <4>3. QED
        BY <2>1, <3>2, <4>2, SafeStays
    <3>3. QED
      BY <2>1, <3>1, <3>2 DEF SweepSafe
  <2>3. QED
    BY <2>1, <2>2, SweepStays DEF CursorInv
<1>8. ASSUME NEW w \in Sweepers, MoveCursor(w)
      PROVE  CursorInv'
  <2>1. PICK e \in Events:
          /\ IsLast(e, sweep[w].batch)
          /\ stream' = IF stream.state = "PRESENT" THEN [stream EXCEPT !.cursor = Place(e)]
                                                   ELSE stream
    BY <1>8 DEF MoveCursor
  <2>2. /\ UNCHANGED <<event, got, clock>> /\ stream'.created = stream.created
        /\ stream'.state = stream.state
        /\ stream.state = "PRESENT" => stream'.cursor = Place(e)
    BY <1>8, <1>a, <2>1 DEF MoveCursor, Stream
  <2>3. /\ sweep'[w].step \notin {"STREAM", "BATCH", "SENT"}
        /\ \A v \in Sweepers \ {w}: sweep'[v] = sweep[v]
    BY <1>8, <1>a DEF MoveCursor, Idle
  <2>4. ASSUME NEW q \in Rows, stream'.state = "PRESENT", stream'.cursor = q
        PROVE  Safe(q, {})'
    <3>1. Ends(q, sweep[w].batch) /\ sweep[w].batch \in SUBSET Events
      BY <1>a, <2>1, <2>2, <2>4 DEF Ends, Sweep
    <3>2. Safe(q, {})
      BY <1>8, <3>1 DEF CursorInv, SweepSafe, MoveCursor
    <3>3. QED
      BY <2>2, <3>2, SafeStays
  <2>5. QED
    BY <2>2, <2>3, <2>4, SweepStays DEF CursorInv, RowSafe, SweepSafe
<1>9. ASSUME NEW w \in Sweepers, ClearFailures(w) \/ RecordFailure(w)
      PROVE  CursorInv'
  <2>1. /\ stream'.created = stream.created /\ stream'.state = stream.state
        /\ stream'.cursor = stream.cursor /\ got' = got
    <3>1. CASE ClearFailures(w)
      BY <1>a, <3>1 DEF ClearFailures, Stream
    <3>2. CASE RecordFailure(w)
      <4> DEFINE on == ~(stream.failures + 1 >= MaxAttempts) /\ stream.enabled
                 sus == stream.failures + 1 >= MaxAttempts \/ stream.suspended
      <4>1. /\ got' = got
            /\ stream' = IF stream.state = "PRESENT"
                            THEN [stream EXCEPT !.failures = @ + 1, !.error = TRUE,
                                                !.enabled = on, !.suspended = sus]
                            ELSE stream
        BY <3>2 DEF RecordFailure
      <4> HIDE DEF on, sus
      <4>2. QED
        BY <1>a, <4>1 DEF Stream
    <3>3. QED
      BY <1>9, <3>1, <3>2
  <2>2. sweep' = [sweep EXCEPT ![w] = Idle]
    BY <1>9 DEF ClearFailures, RecordFailure
  <2>3. QED
    BY <1>a, <2>1, <2>2, CursorStays
<1>10. ASSUME NEW w \in Sweepers, Sender(w) \/ SweepEnds(w)
       PROVE  CursorInv'
  <2>1. UNCHANGED <<stream, got>>
    BY <1>10 DEF Sender, SweepEnds, ListOffers, NextPage, RecordOutcome, PassOver, SendOffer
  <2>2. \A v \in Sweepers \ {w}: sweep'[v] = sweep[v]
    BY <1>10, <1>a DEF Sender, SweepEnds, ListOffers, NextPage, RecordOutcome, PassOver, SendOffer,
                       NextOffer, Page
  <2>3. sweep'[w].step \notin {"STREAM", "BATCH", "SENT"}
    <3>1. CASE ListOffers(w) \/ NextPage(w)
      BY <1>a, <3>1, PageSteps DEF ListOffers, NextPage
    <3>2. CASE RecordOutcome(w) \/ SweepEnds(w)
      BY <1>a, <3>2 DEF RecordOutcome, SweepEnds, Sweep
    <3>3. ASSUME NEW o \in Offers, PassOver(w, o) \/ SendOffer(w, o)
          PROVE  sweep'[w].step \in {"OFFERS", "OUTCOME"}
      BY <1>a, <3>3 DEF PassOver, SendOffer, NextOffer, Sweep
    <3>4. QED
      BY <1>10, <3>1, <3>2, <3>3 DEF Sender
  <2>4. QED
    BY <2>1, <2>2, <2>3, CursorStays
<1>11. CASE Next
  BY <1>2, <1>3, <1>4, <1>5, <1>6, <1>7, <1>8, <1>9, <1>10, <1>11 DEF Next, Forwarder
<1>12. QED
  BY <1>1, <1>11 DEF vars

-----------------------------------------------------------------------------
(* Why a stream stopped.                                                   *)

Explained ==
  /\ StopsAreExplained
  /\ stream.state = "ABSENT" => stream.failures = 0 /\ ~stream.error /\ ~stream.suspended

(* A stream's explanation after every step.                                *)
LEMMA ExplainedStep ==
  ASSUME DeliveryAssumption, BaseInv, [Next]_vars, Explained
  PROVE  Explained'
<1> USE DEF siemVars, ruleVars, Explained, StopsAreExplained
<1>a. stream \in Stream /\ wanted \in BOOLEAN /\ MaxAttempts \in Nat \ {0}
  BY DEF BaseInv, TypeOK, DeliveryAssumption
<1>b. /\ stream.failures \in Nat /\ stream.enabled \in BOOLEAN
      /\ stream.suspended \in BOOLEAN /\ stream.error \in BOOLEAN
  BY <1>a DEF Stream
<1>1. CASE UNCHANGED <<stream, wanted>>
  BY <1>1
<1>2. CASE CreateStream
  <2>1. /\ stream.state = "ABSENT" /\ stream'.state = "PRESENT" /\ stream'.enabled
        /\ stream'.failures = stream.failures /\ stream'.error = stream.error
        /\ stream'.suspended = stream.suspended /\ wanted'
    BY <1>2, <1>a DEF CreateStream, Stream
  <2>2. QED
    BY <1>a, <2>1
<1>3. CASE DeleteStream
  BY <1>3, <1>a DEF DeleteStream, Stream
<1>4. ASSUME NEW on \in BOOLEAN, ToggleStream(on)
      PROVE  Explained'
  <2>1. CASE on
    <3>1. /\ stream'.state = "PRESENT" /\ stream'.enabled /\ stream'.failures = 0
          /\ ~stream'.error /\ ~stream'.suspended /\ wanted'
      BY <1>4, <1>a, <2>1 DEF ToggleStream, Stream
    <3>2. QED
      BY <1>a, <3>1
  <2>2. CASE ~on
    <3>1. /\ stream.state = "PRESENT" /\ stream'.state = "PRESENT"
          /\ ~stream'.enabled /\ stream'.failures = stream.failures
          /\ stream'.error <=> stream.error
          /\ stream'.suspended <=> stream.suspended
          /\ ~wanted'
      BY <1>4, <1>a, <1>b, <2>2 DEF ToggleStream, Stream
    <3>2. QED
      BY <1>a, <3>1
  <2>3. QED
    BY <2>1, <2>2
<1>5. ASSUME NEW w \in Sweepers, MoveCursor(w)
      PROVE  Explained'
  <2>1. /\ stream'.state = stream.state /\ stream'.enabled = stream.enabled
        /\ stream'.failures = stream.failures /\ stream'.error = stream.error
        /\ stream'.suspended = stream.suspended /\ wanted' = wanted
    BY <1>5, <1>a DEF MoveCursor, Stream
  <2>2. QED
    BY <2>1
<1>6. ASSUME NEW w \in Sweepers, ClearFailures(w)
      PROVE  Explained'
  <2>1. CASE stream.state = "PRESENT" /\ stream.failures > 0 /\ ~stream.suspended
    <3>1. /\ stream'.state = "PRESENT" /\ stream'.enabled = stream.enabled /\ stream'.failures = 0
          /\ ~stream'.error /\ stream'.suspended = stream.suspended /\ wanted' = wanted
      BY <1>6, <1>a, <2>1 DEF ClearFailures, Stream
    <3>2. QED
      BY <1>a, <2>1, <3>1
  <2>2. CASE ~(stream.state = "PRESENT" /\ stream.failures > 0 /\ ~stream.suspended)
    BY <1>1, <1>6, <2>2 DEF ClearFailures
  <2>3. QED
    BY <2>1, <2>2
<1>7. ASSUME NEW w \in Sweepers, RecordFailure(w)
      PROVE  Explained'
  <2> DEFINE full == stream.failures + 1 >= MaxAttempts
             on == ~full /\ stream.enabled
             sus == full \/ stream.suspended
  <2>1. CASE stream.state = "PRESENT"
    <3>1. stream' = [stream EXCEPT !.failures = @ + 1, !.error = TRUE,
                                   !.enabled = on, !.suspended = sus]
      BY <1>7, <2>1 DEF RecordFailure
    <3>2. wanted' = wanted
      BY <1>7 DEF RecordFailure
    <3>3. /\ stream'.state = "PRESENT" /\ stream'.enabled = on
          /\ stream'.failures = stream.failures + 1
          /\ stream'.error = TRUE /\ stream'.suspended = sus
      <4> HIDE DEF full, on, sus
      <4>1. QED
        BY <1>a, <2>1, <3>1 DEF Stream
    <3>4. on <=> wanted /\ ~sus
      BY <1>b, <2>1
    <3>5. sus <=> stream.failures + 1 >= MaxAttempts
      BY <1>a, <1>b, <2>1
    <3> HIDE DEF full, on, sus
    <3>6. (stream.failures + 1 > 0) = TRUE
      BY <1>b
    <3>7. QED
      BY <3>2, <3>3, <3>4, <3>5, <3>6
  <2>2. CASE stream.state # "PRESENT"
    BY <1>1, <1>7, <2>2 DEF RecordFailure
  <2>3. QED
    BY <2>1, <2>2
<1>8. CASE Tick \/ (\E e \in Events: BeginEvent(e) \/ CommitEvent(e))
           \/ (\E r \in Rules: CreateRule(r) \/ DeleteRule(r))
  BY <1>1, <1>8 DEF Tick, BeginEvent, CommitEvent, CreateRule, DeleteRule
<1>9. ASSUME NEW w \in Sweepers,
             \/ ListStreams(w) \/ ListEvents(w) \/ SendBatch(w) \/ Sender(w) \/ SweepEnds(w)
      PROVE  Explained'
  BY <1>1, <1>9 DEF ListStreams, ListEvents, SendBatch, Sender, SweepEnds, ListOffers, NextPage,
                    RecordOutcome, PassOver, SendOffer
<1>10. CASE Next
  BY <1>2, <1>3, <1>4, <1>5, <1>6, <1>7, <1>8, <1>9, <1>10 DEF Next, Forwarder
<1>11. QED
  BY <1>1, <1>10 DEF vars

(* What the SIEM cursor has passed has reached the SIEM or became visible  *)
(* late, and a stream that stopped carries what explains it, for any       *)
(* number of events and of overlapping sweeps (jobs_siem.go).              *)
THEOREM DeliveryTheorem == Spec => []DeliveryInv
<1> USE DeliveryAssumption
<1> DEFINE Inv == BaseInv /\ CursorInv /\ Explained
<1>1. Init => Inv
  <2> SUFFICES ASSUME Init PROVE Inv
    OBVIOUS
  <2>1. BaseInv
    BY InitBase
  <2>2. CursorInv
    BY Values DEF Init, CursorInv, RowSafe, SweepSafe
  <2>3. Explained
    BY DEF Init, Explained, StopsAreExplained
  <2>4. QED
    BY <2>1, <2>2, <2>3
<1>2. Inv /\ [Next]_vars => Inv'
  BY NextBase, CursorStep, ExplainedStep
<1>3. Inv => DeliveryInv
  <2> SUFFICES ASSUME Inv PROVE DeliveryInv
    OBVIOUS
  <2>1. stream.cursor \in Rows
    BY DEF BaseInv, TypeOK, Stream, Rows
  <2>2. stream.state = "PRESENT" => Safe(stream.cursor, {})
    BY <2>1 DEF CursorInv, RowSafe
  <2>3. NothingIsSkipped
    BY <2>2 DEF NothingIsSkipped, Safe, Covered
  <2>4. QED
    BY <2>3 DEF DeliveryInv, SiemInv, BaseInv, Explained
<1>4. QED
  BY <1>1, <1>2, <1>3, PTL DEF Spec

-----------------------------------------------------------------------------
(* The posts of a pair.                                                    *)

(* A pair can be in as many lists as there are sweeps and rules of its     *)
(* integration: where it is listed, and where a post's outcome is awaited. *)
Slots(p) == Sweepers \X RulesOf(p[2])
Awaits(w, o) == sweep[w].step = "OUTCOME" /\ sweep[w].offer = o
Listed(p) == {x \in Slots(p) : <<p[1], x[2]>> \in sweep[x[1]].todo}
Pending(p) == {x \in Slots(p) : Awaits(x[1], <<p[1], x[2]>>)}

NotTwice == \A w \in Sweepers: \A o \in sweep[w].todo: ~Awaits(w, o)

(* The posts that n attempts make at most.                                 *)
Tried(n) == Tries * n

(* Every attempt is lost, written down or awaited, until one is delivered; *)
(* a listing is an attempt that may still come.                            *)
PostsAddUp(p) ==
  /\ ~row[p].delivered
       => sent[p] <= Tried(lost[p] + row[p].failed + Cardinality(Pending(p)))
  /\ sent[p] + Tried(Cardinality(Listed(p)))
       <= Tried(lost[p] + MaxAttempts - 1 + Cardinality(Slots(p)))

PostsInv == NotTwice /\ \A p \in Pairs: PostsAddUp(p)

(* More attempts are more posts, and one more is Tries more.               *)
LEMMA TriedGrows ==
  ASSUME DeliveryAssumption
  PROVE  /\ \A a \in Int: Tried(a) \in Int /\ Tried(a + 1) = Tried(a) + Tries
         /\ \A a, b \in Int: Tried(a + b) = Tried(a) + Tried(b)
         /\ \A a, b \in Int: a <= b => Tried(a) <= Tried(b)
         /\ Tried(0) = 0 /\ Tries \in Nat /\ \A a \in Nat: 0 <= Tried(a)
<1>1. Tries \in Nat
  BY DEF DeliveryAssumption
<1>2. \A a \in Int: Tries * a \in Int /\ Tries * (a + 1) = Tries * a + Tries
  BY <1>1
<1>3. \A a, b \in Int: Tries * (a + b) = Tries * a + Tries * b
  BY <1>1
<1>4. \A a, b \in Int: a <= b => Tries * a <= Tries * b
  BY <1>1
<1>5. Tries * 0 = 0 /\ \A a \in Nat: 0 <= Tries * a
  BY <1>1
<1>6. QED
  BY <1>1, <1>2, <1>3, <1>4, <1>5 DEF Tried

(* Cardinalities are those of finite sets.                                 *)
LEMMA SlotsFinite ==
  ASSUME DeliveryAssumption, NEW p \in Pairs
  PROVE  /\ IsFiniteSet(Slots(p)) /\ Cardinality(Slots(p)) \in Nat
         /\ Cardinality(Slots(p)) = Cardinality(Sweepers) * Cardinality(RulesOf(p[2]))
         /\ \A S \in SUBSET Slots(p): /\ IsFiniteSet(S) /\ Cardinality(S) \in Nat
                                      /\ Cardinality(S) <= Cardinality(Slots(p))
<1>1. IsFiniteSet(RulesOf(p[2])) /\ IsFiniteSet(Sweepers)
  BY FS_Subset DEF RulesOf, DeliveryAssumption
<1>2. /\ IsFiniteSet(Slots(p))
      /\ Cardinality(Slots(p)) = Cardinality(Sweepers) * Cardinality(RulesOf(p[2]))
  BY <1>1, FS_Product DEF Slots
<1>3. QED
  BY <1>2, FS_Subset, FS_CardinalityType

LEMMA InSlots ==
  ASSUME NEW p \in Pairs
  PROVE  Listed(p) \in SUBSET Slots(p) /\ Pending(p) \in SUBSET Slots(p)
BY DEF Listed, Pending

(* The slot of an offer among those of its pair, and of no other pair.     *)
LEMMA SlotOf ==
  ASSUME NEW p \in Pairs, NEW o \in Offers
  PROVE  /\ PairOf(o) = p => o[2] \in RulesOf(p[2]) /\ o = <<p[1], o[2]>>
         /\ \A r \in RulesOf(p[2]): <<p[1], r>> = o => PairOf(o) = p /\ r = o[2]
<1>1. PICK e \in Events, r \in Rules: o = <<e, r>>
  BY DEF Offers
<1>2. PICK d \in Events, i \in Integrations: p = <<d, i>>
  BY DEF Pairs
<1>3. o[1] = e /\ o[2] = r /\ p[1] = d /\ p[2] = i /\ PairOf(o) = <<e, Target[r]>>
  BY <1>1, <1>2 DEF PairOf
<1>4. PairOf(o) = p => e = d /\ Target[r] = i
  BY <1>2, <1>3
<1>5. PairOf(o) = p => o[2] \in RulesOf(p[2]) /\ o = <<p[1], o[2]>>
  BY <1>1, <1>3, <1>4 DEF RulesOf
<1>6. ASSUME NEW q \in RulesOf(p[2]), <<p[1], q>> = o
      PROVE  PairOf(o) = p /\ q = o[2]
  <2>1. d = e /\ q = r /\ Target[q] = i
    BY <1>1, <1>3, <1>6 DEF RulesOf
  <2>2. QED
    BY <1>2, <1>3, <2>1
<1>7. QED
  BY <1>5, <1>6

(* Steps that leave a pair's row and posts alone and list it no more.      *)
LEMMA PostsStay ==
  ASSUME DeliveryAssumption, BaseInv, NEW p \in Pairs, PostsAddUp(p),
         row'[p] = row[p], sent'[p] = sent[p], lost'[p] = lost[p],
         \A v \in Sweepers, o \in Offers:
           PairOf(o) = p => /\ o \in sweep'[v].todo => o \in sweep[v].todo
                            /\ Awaits(v, o)' <=> Awaits(v, o)
  PROVE  PostsAddUp(p)'
<1>1. \A x \in Slots(p): /\ x[1] \in Sweepers /\ x[2] \in RulesOf(p[2])
                         /\ <<p[1], x[2]>> \in Offers /\ PairOf(<<p[1], x[2]>>) = p
  <2>1. TAKE x \in Slots(p)
  <2>2. x[1] \in Sweepers /\ x[2] \in RulesOf(p[2]) /\ <<p[1], x[2]>> \in Offers
    BY DEF Slots, RulesOf, Pairs, Offers
  <2>3. QED
    BY <2>2, SlotOf
<1>2. Listed(p)' \subseteq Listed(p) /\ Pending(p)' = Pending(p)
  BY <1>1 DEF Listed, Pending, Slots, RulesOf
<1>3. /\ Cardinality(Listed(p)') <= Cardinality(Listed(p))
      /\ Cardinality(Listed(p)') \in Nat /\ Cardinality(Listed(p)) \in Nat
  BY <1>2, InSlots, SlotsFinite, FS_Subset
<1>4. sent[p] \in Nat /\ lost[p] \in Nat /\ Slots(p)' = Slots(p) /\ Cardinality(Slots(p)) \in Nat
      /\ MaxAttempts \in Nat
  BY SlotsFinite DEF BaseInv, TypeOK, Slots, RulesOf, DeliveryAssumption
<1>5. sent'[p] + Tried(Cardinality(Listed(p)'))
        <= Tried(lost'[p] + MaxAttempts - 1 + Cardinality(Slots(p)))
  <2> DEFINE most == lost[p] + MaxAttempts - 1 + Cardinality(Slots(p))
             listed == Cardinality(Listed(p))
             left == Cardinality(Listed(p)')
  <2>1. most \in Int /\ listed \in Int /\ left \in Int /\ left <= listed
    BY <1>3, <1>4
  <2>2. sent[p] + Tried(listed) <= Tried(most)
    BY DEF PostsAddUp
  <2> HIDE DEF most, listed, left
  <2>3. /\ Tried(left) <= Tried(listed) /\ Tried(left) \in Int
        /\ Tried(listed) \in Int /\ Tried(most) \in Int
    BY <2>1, TriedGrows
  <2>4. sent[p] + Tried(left) <= Tried(most)
    BY <1>4, <2>2, <2>3
  <2>5. QED
    BY <2>4 DEF most, left
<1>6. QED
  BY <1>2, <1>4, <1>5 DEF PostsAddUp

(* A page lists only pairs that are not delivered and not given up.        *)
LEMMA PostsListed ==
  ASSUME DeliveryAssumption, BaseInv, NEW p \in Pairs, PostsAddUp(p), NEW w \in Sweepers,
         sweep[w].step # "OUTCOME", sweep'[w].step # "OUTCOME",
         sweep'[w].todo \subseteq Offers,
         \A o \in sweep'[w].todo: Undelivered(PairOf(o)),
         \A v \in Sweepers \ {w}: sweep'[v] = sweep[v],
         NotTwice, UNCHANGED <<row, sent, lost>>
  PROVE  PostsAddUp(p)'
<1>1. CASE ~Undelivered(p)
  BY <1>1, PostsStay DEF Awaits
<1>2. CASE Undelivered(p)
  <2>1. Pending(p)' = Pending(p) /\ Slots(p)' = Slots(p)
    BY DEF Pending, Awaits, Slots, RulesOf
  <2>2. Listed(p)' \cap Pending(p) = {}
    BY DEF Listed, Pending, Awaits, NotTwice, Slots
  <2>3. Listed(p)' \in SUBSET Slots(p) /\ Pending(p) \in SUBSET Slots(p)
    BY InSlots DEF Listed, Slots, RulesOf
  <2>4. /\ Cardinality(Listed(p)' \cup Pending(p)) = Cardinality(Listed(p)') + Cardinality(Pending(p))
        /\ Cardinality(Listed(p)' \cup Pending(p)) <= Cardinality(Slots(p))
        /\ Cardinality(Listed(p)') \in Nat /\ Cardinality(Pending(p)) \in Nat
        /\ Cardinality(Slots(p)) \in Nat
    <3> DEFINE L == Listed(p)'
               P == Pending(p)
    <3>1. L \in SUBSET Slots(p) /\ P \in SUBSET Slots(p) /\ L \cap P = {}
      BY <2>2, <2>3
    <3> HIDE DEF L, P
    <3>2. IsFiniteSet(L) /\ IsFiniteSet(P) /\ Cardinality(L) \in Nat /\ Cardinality(P) \in Nat
      BY <3>1, SlotsFinite
    <3>3. Cardinality(L \cup P) = Cardinality(L) + Cardinality(P) - Cardinality({})
      BY <3>1, <3>2, FS_Union
    <3>4. Cardinality(L \cup P) <= Cardinality(Slots(p)) /\ Cardinality(Slots(p)) \in Nat
      BY <3>1, SlotsFinite
    <3>5. QED
      BY <3>2, <3>3, <3>4, FS_EmptySet DEF L, P
  <2>5. /\ row[p].failed <= MaxAttempts - 1 /\ ~row[p].delivered
        /\ sent[p] <= Tried(lost[p] + row[p].failed + Cardinality(Pending(p)))
        /\ row[p].failed \in Nat /\ sent[p] \in Nat /\ lost[p] \in Nat /\ MaxAttempts \in Nat
        /\ Tries \in Nat
    BY <1>2 DEF Undelivered, PostsAddUp, BaseInv, TypeOK, DeliveryAssumption
  <2>6. sent[p] + Tried(Cardinality(Listed(p)'))
          <= Tried(lost[p] + MaxAttempts - 1 + Cardinality(Slots(p)))
    <3> DEFINE now == lost[p] + row[p].failed + Cardinality(Pending(p))
               listed == Cardinality(Listed(p)')
               most == lost[p] + MaxAttempts - 1 + Cardinality(Slots(p))
    <3>1. now \in Int /\ listed \in Int /\ most \in Int /\ now + listed <= most
      BY <2>4, <2>5
    <3>2. sent[p] <= Tried(now)
      BY <2>5
    <3> HIDE DEF now, listed, most
    <3>3. Tried(now + listed) <= Tried(most) /\ Tried(now + listed) = Tried(now) + Tried(listed)
      <4>1. Tried(now + listed) = Tried(now) + Tried(listed)
        BY <3>1, TriedGrows
      <4>2. now + listed \in Int
        BY <3>1
      <4>3. Tried(now + listed) <= Tried(most)
        BY <3>1, <4>2, TriedGrows
      <4>4. QED
        BY <4>1, <4>3
    <3>4. Tried(now) \in Int /\ Tried(listed) \in Int /\ Tried(most) \in Int
      BY <2>5, <3>1, TriedGrows
    <3>5. sent[p] + Tried(listed) <= Tried(most)
      BY <2>5, <3>2, <3>3, <3>4
    <3>6. QED
      BY <3>5 DEF listed, most
  <2>7. QED
    BY <2>1, <2>5, <2>6 DEF PostsAddUp
<1>3. QED
  BY <1>1, <1>2

(* A post: the offer's slot moves from the listed to the awaited.          *)
LEMMA PostsSent ==
  ASSUME DeliveryAssumption, BaseInv, NEW p \in Pairs, PostsAddUp(p), NotTwice,
         NEW w \in Sweepers, NEW o \in Offers, SendOffer(w, o)
  PROVE  PostsAddUp(p)'
<1> USE DEF siemVars
<1>1. /\ sweep[w].step = "OFFERS" /\ o \in sweep[w].todo
      /\ sweep'[w].step = "OUTCOME" /\ sweep'[w].offer = o /\ sweep'[w].todo = sweep[w].todo \ {o}
      /\ \A v \in Sweepers \ {w}: sweep'[v] = sweep[v]
      /\ UNCHANGED <<row, lost>>
      /\ \E tries \in 1..Tries: sent' = [sent EXCEPT ![PairOf(o)] = @ + tries]
  <2>1. \E tries \in 1..Tries: sent' = [sent EXCEPT ![PairOf(o)] = @ + tries]
    BY DEF SendOffer
  <2>2. /\ NextOffer(w, o) /\ UNCHANGED <<row, lost>>
        /\ \E ok \in BOOLEAN :
             sweep' = [sweep EXCEPT ![w].step = "OUTCOME", ![w].todo = @ \ {o},
                                    ![w].since = OfferPlace(o), ![w].offer = o,
                                    ![w].delivered = ok]
    BY DEF SendOffer
  <2>3. sweep \in [Sweepers -> Sweep]
    BY DEF BaseInv, TypeOK
  <2>4. /\ sweep'[w].step = "OUTCOME" /\ sweep'[w].offer = o
        /\ sweep'[w].todo = sweep[w].todo \ {o}
        /\ \A v \in Sweepers \ {w}: sweep'[v] = sweep[v]
    BY <2>2, <2>3 DEF Sweep
  <2>5. QED
    BY <2>1, <2>2, <2>4 DEF NextOffer
<1>2. CASE PairOf(o) # p
  <2>1. sent'[p] = sent[p]
    BY <1>1, <1>2 DEF BaseInv, TypeOK
  <2>2. \A v \in Sweepers, x \in Offers:
          PairOf(x) = p => /\ x \in sweep'[v].todo => x \in sweep[v].todo
                           /\ Awaits(v, x)' <=> Awaits(v, x)
    BY <1>1, <1>2 DEF Awaits
  <2>3. QED
    BY <1>1, <2>1, <2>2, PostsStay
<1>3. CASE PairOf(o) = p
  <2> DEFINE x == <<w, o[2]>>
  <2>1. o[2] \in RulesOf(p[2]) /\ o = <<p[1], o[2]>> /\ x \in Slots(p) /\ Slots(p)' = Slots(p)
    BY <1>3, SlotOf DEF Slots, RulesOf
  <2>2. x \in Listed(p) /\ x \notin Pending(p)
    BY <1>1, <2>1 DEF Listed, Pending, Awaits
  <2>3. Listed(p)' = Listed(p) \ {x}
    BY <1>1, <2>1, SlotOf DEF Listed, Slots, RulesOf
  <2>4. Pending(p)' = Pending(p) \cup {x}
    BY <1>1, <2>1, SlotOf DEF Pending, Awaits, Slots, RulesOf
  <2>5. /\ Cardinality(Listed(p)') = Cardinality(Listed(p)) - 1
        /\ Cardinality(Pending(p)') = Cardinality(Pending(p)) + 1
        /\ Cardinality(Listed(p)) \in Nat /\ Cardinality(Pending(p)) \in Nat
        /\ Cardinality(Slots(p)) \in Nat
    <3> DEFINE L == Listed(p)
               P == Pending(p)
    <3>1. L \in SUBSET Slots(p) /\ P \in SUBSET Slots(p) /\ x \in L /\ x \notin P
      BY <2>2, InSlots
    <3>2. Listed(p)' = L \ {x} /\ Pending(p)' = P \cup {x}
      BY <2>3, <2>4
    <3>3. /\ IsFiniteSet(L) /\ IsFiniteSet(P) /\ Cardinality(Slots(p)) \in Nat
          /\ Cardinality(L) \in Nat /\ Cardinality(P) \in Nat
      BY <3>1, SlotsFinite
    <3> HIDE DEF L, P, x
    <3>4. Cardinality(L \ {x}) = Cardinality(L) - 1
      BY <3>1, <3>3, FS_RemoveElement
    <3>5. Cardinality(P \cup {x}) = Cardinality(P) + 1
      BY <3>1, <3>3, FS_AddElement
    <3>6. QED
      BY <3>2, <3>3, <3>4, <3>5 DEF L, P
  <2>6. /\ sent'[p] \in Nat /\ sent[p] \in Nat /\ sent'[p] <= sent[p] + Tries
        /\ lost[p] \in Nat /\ row[p].failed \in Nat
        /\ MaxAttempts \in Nat /\ Tries \in Nat
    BY <1>1, <1>3 DEF BaseInv, TypeOK, DeliveryAssumption
  <2> HIDE DEF x
  <2>7. ~row[p].delivered
          => sent'[p] <= Tried(lost[p] + row[p].failed + Cardinality(Pending(p)'))
    <3> DEFINE now == lost[p] + row[p].failed + Cardinality(Pending(p))
    <3>1. now \in Int /\ lost[p] + row[p].failed + Cardinality(Pending(p)') = now + 1
      BY <2>5, <2>6
    <3>2. ~row[p].delivered => sent[p] <= Tried(now)
      BY DEF PostsAddUp
    <3> HIDE DEF now
    <3>3. Tried(now + 1) = Tried(now) + Tries /\ Tried(now) \in Int
      BY <2>6, <3>1, TriedGrows
    <3>4. ~row[p].delivered => sent'[p] <= Tried(now + 1)
      BY <2>6, <3>2, <3>3
    <3>5. QED
      BY <3>1, <3>4
  <2>8. sent'[p] + Tried(Cardinality(Listed(p)'))
          <= Tried(lost[p] + MaxAttempts - 1 + Cardinality(Slots(p)))
    <3> DEFINE left == Cardinality(Listed(p)')
               limit == lost[p] + MaxAttempts - 1 + Cardinality(Slots(p))
               most == Tried(limit)
    <3>1. left \in Int /\ Cardinality(Listed(p)) = left + 1
      BY <2>5
    <3>0. limit \in Int
      BY <2>5, <2>6
    <3>3. sent[p] + Tried(Cardinality(Listed(p))) <= most
      BY DEF PostsAddUp
    <3> HIDE DEF left, limit
    <3>2. most \in Int
      BY <3>0, TriedGrows
    <3> HIDE DEF most
    <3>4. Tried(left + 1) = Tried(left) + Tries /\ Tried(left) \in Int
      BY <2>6, <3>1, TriedGrows
    <3>5. sent'[p] + Tried(left) <= most
      BY <2>6, <3>1, <3>2, <3>3, <3>4
    <3>6. QED
      BY <3>5 DEF left, most, limit
  <2>9. QED
    BY <1>1, <2>1, <2>7, <2>8 DEF PostsAddUp
<1>4. QED
  BY <1>2, <1>3

(* An outcome: written down, or lost with the sweep that awaited it.       *)
LEMMA PostsEnded ==
  ASSUME DeliveryAssumption, BaseInv, NEW p \in Pairs, PostsAddUp(p),
         NEW w \in Sweepers, sweep[w].step = "OUTCOME",
         RecordOutcome(w) \/ SweepEnds(w)
  PROVE  PostsAddUp(p)'
<1> USE DEF siemVars
<1> DEFINE o == sweep[w].offer
<1>0. o \in Offers /\ PairOf(o) \in Pairs
  BY Values DEF BaseInv, Listing
<1>1. /\ sweep'[w].step # "OUTCOME" /\ sweep'[w].todo \subseteq sweep[w].todo
      /\ \A v \in Sweepers \ {w}: sweep'[v] = sweep[v]
      /\ sent' = sent
  <2>1. sweep \in [Sweepers -> Sweep] /\ Idle.step = "IDLE" /\ Idle.todo = {}
    BY Values DEF BaseInv, TypeOK
  <2>2. CASE RecordOutcome(w)
    BY <2>1, <2>2 DEF RecordOutcome, Sweep
  <2>3. CASE SweepEnds(w)
    BY <2>1, <2>3 DEF SweepEnds
  <2>4. QED
    BY <2>2, <2>3
<1>2. /\ RecordOutcome(w) => /\ lost' = lost
                             /\ \/ row' = [row EXCEPT ![PairOf(o)].delivered = TRUE]
                                \/ row' = [row EXCEPT ![PairOf(o)].failed = @ + 1]
      /\ SweepEnds(w) => row' = row /\ lost' = [lost EXCEPT ![PairOf(o)] = @ + 1]
  BY DEF RecordOutcome, SweepEnds, Upsert
<1>3. CASE PairOf(o) # p
  <2>1. row'[p] = row[p] /\ lost'[p] = lost[p] /\ sent'[p] = sent[p]
    BY <1>0, <1>1, <1>2, <1>3 DEF BaseInv, TypeOK
  <2>2. \A v \in Sweepers, x \in Offers:
          PairOf(x) = p => /\ x \in sweep'[v].todo => x \in sweep[v].todo
                           /\ Awaits(v, x)' <=> Awaits(v, x)
    BY <1>1, <1>3 DEF Awaits
  <2>3. QED
    BY <2>1, <2>2, PostsStay
<1>4. CASE PairOf(o) = p
  <2> DEFINE x == <<w, o[2]>>
  <2>1. o[2] \in RulesOf(p[2]) /\ o = <<p[1], o[2]>> /\ x \in Slots(p) /\ Slots(p)' = Slots(p)
    BY <1>0, <1>4, SlotOf DEF Slots, RulesOf
  <2>2. x \in Pending(p)
    BY <2>1 DEF Pending, Awaits
  <2>3. Pending(p)' = Pending(p) \ {x}
    BY <1>0, <1>1, <2>1, SlotOf DEF Pending, Awaits, Slots, RulesOf
  <2>4. Listed(p)' \subseteq Listed(p)
    BY <1>1, <2>1 DEF Listed, Slots
  <2>5. /\ Cardinality(Pending(p)') = Cardinality(Pending(p)) - 1
        /\ Cardinality(Pending(p)) \in Nat /\ Cardinality(Slots(p)) \in Nat
    <3> DEFINE P == Pending(p)
    <3>1. P \in SUBSET Slots(p) /\ x \in P /\ Pending(p)' = P \ {x}
      BY <2>2, <2>3, InSlots
    <3>2. IsFiniteSet(P) /\ Cardinality(Slots(p)) \in Nat /\ Cardinality(P) \in Nat
      BY <3>1, SlotsFinite
    <3> HIDE DEF P, x
    <3>3. Cardinality(P \ {x}) = Cardinality(P) - 1
      BY <3>1, <3>2, FS_RemoveElement
    <3>4. QED
      BY <3>1, <3>2, <3>3 DEF P
  <2>6. /\ Cardinality(Listed(p)') <= Cardinality(Listed(p))
        /\ Cardinality(Listed(p)') \in Nat /\ Cardinality(Listed(p)) \in Nat
    BY <2>4, InSlots, SlotsFinite, FS_Subset
  <2>7. /\ sent'[p] = sent[p] /\ sent[p] \in Nat /\ lost[p] \in Nat /\ row[p].failed \in Nat
        /\ MaxAttempts \in Nat /\ row[p] \in [delivered: BOOLEAN, failed: Nat]
    BY <1>1 DEF BaseInv, TypeOK, DeliveryAssumption
  <2>8. \/ lost'[p] = lost[p] + 1 /\ row'[p] = row[p]
        \/ lost'[p] = lost[p] /\ row'[p].delivered
        \/ /\ lost'[p] = lost[p] /\ row'[p].delivered = row[p].delivered
           /\ row'[p].failed = row[p].failed + 1
    <3> HIDE DEF o, x
    <3>1. p \in DOMAIN lost /\ p \in DOMAIN row
      BY DEF BaseInv, TypeOK
    <3>2. CASE row' = [row EXCEPT ![p].delivered = TRUE] /\ lost' = lost
      BY <2>7, <3>1, <3>2
    <3>3. CASE row' = [row EXCEPT ![p].failed = @ + 1] /\ lost' = lost
      BY <2>7, <3>1, <3>3
    <3>4. CASE row' = row /\ lost' = [lost EXCEPT ![p] = @ + 1]
      BY <2>7, <3>1, <3>4
    <3>5. QED
      BY <1>2, <1>4, <3>2, <3>3, <3>4
  <2> HIDE DEF x, o
  <2>x. Tries \in Nat /\ Cardinality(Pending(p)') \in Int /\ lost'[p] \in Nat
    BY <2>5, <2>7, <2>8 DEF DeliveryAssumption
  <2>9. ~row'[p].delivered
          => sent'[p] <= Tried(lost'[p] + row'[p].failed + Cardinality(Pending(p)'))
    <3>1. ~row'[p].delivered
            => /\ ~row[p].delivered
               /\ lost'[p] + row'[p].failed + Cardinality(Pending(p)')
                    = lost[p] + row[p].failed + Cardinality(Pending(p))
      BY <2>5, <2>7, <2>8
    <3>2. ~row[p].delivered
            => sent[p] <= Tried(lost[p] + row[p].failed + Cardinality(Pending(p)))
      BY DEF PostsAddUp
    <3>3. QED
      BY <2>7, <3>1, <3>2
  <2>10. sent'[p] + Tried(Cardinality(Listed(p)'))
           <= Tried(lost'[p] + MaxAttempts - 1 + Cardinality(Slots(p)))
    <3> DEFINE before == lost[p] + MaxAttempts - 1 + Cardinality(Slots(p))
               after == lost'[p] + MaxAttempts - 1 + Cardinality(Slots(p))
               left == Cardinality(Listed(p)')
               listed == Cardinality(Listed(p))
    <3>1. before \in Int /\ after \in Int /\ before <= after
      BY <2>5, <2>7, <2>8
    <3>2. left \in Int /\ listed \in Int /\ left <= listed
      BY <2>6
    <3>3. sent[p] + Tried(listed) <= Tried(before)
      BY DEF PostsAddUp
    <3> HIDE DEF before, after, left, listed
    <3>4. Tried(before) <= Tried(after) /\ Tried(left) <= Tried(listed)
      BY <2>x, <3>1, <3>2, TriedGrows
    <3>5. /\ Tried(before) \in Int /\ Tried(after) \in Int
          /\ Tried(left) \in Int /\ Tried(listed) \in Int
      BY <2>x, <3>1, <3>2, TriedGrows
    <3>6. sent'[p] + Tried(left) <= Tried(after)
      BY <2>7, <3>3, <3>4, <3>5
    <3>7. QED
      BY <3>6 DEF after, left
  <2>11. QED
    BY <2>1, <2>9, <2>10 DEF PostsAddUp
<1>5. QED
  BY <1>3, <1>4

(* Steps that post nothing and end no post.                                *)
LEMMA PostsQuiet ==
  ASSUME DeliveryAssumption, BaseInv, PostsInv, NEW w \in Sweepers,
         UNCHANGED <<row, sent, lost>>,
         \A v \in Sweepers \ {w}: sweep'[v] = sweep[v],
         \/ sweep'[w] = sweep[w]
         \/ /\ sweep[w].step # "OUTCOME" /\ sweep'[w].step # "OUTCOME"
            /\ sweep'[w].todo \subseteq sweep[w].todo
  PROVE  PostsInv'
<1>1. NotTwice'
  BY DEF PostsInv, NotTwice, Awaits
<1>2. ASSUME NEW p \in Pairs
      PROVE  PostsAddUp(p)'
  <2>1. \A v \in Sweepers, x \in Offers:
          PairOf(x) = p => /\ x \in sweep'[v].todo => x \in sweep[v].todo
                           /\ Awaits(v, x)' <=> Awaits(v, x)
    BY DEF Awaits
  <2>2. QED
    BY <2>1, PostsStay DEF PostsInv
<1>3. QED
  BY <1>1, <1>2 DEF PostsInv

(* A page after `since`, or the first one.                                 *)
LEMMA PostsPage ==
  ASSUME DeliveryAssumption, BaseInv, PostsInv, NEW w \in Sweepers,
         NEW since \in Nat \X Nat \X Nat, Page(w, since), sweep[w].step # "OUTCOME",
         UNCHANGED <<row, sent, lost>>
  PROVE  PostsInv'
<1>1. PICK B \in SUBSET Matching(since), s \in Sweep:
         /\ sweep' = [sweep EXCEPT ![w] = s]
         /\ s.todo = B /\ s.batch = {} /\ s.step \in {"IDLE", "OFFERS"}
  BY PageMoves
<1>2. sweep'[w] = s /\ \A v \in Sweepers \ {w}: sweep'[v] = sweep[v]
  BY <1>1 DEF BaseInv, TypeOK
<1>3. /\ sweep'[w].step # "OUTCOME" /\ sweep'[w].todo \subseteq Offers
      /\ \A o \in sweep'[w].todo: Undelivered(PairOf(o))
  BY <1>1, <1>2 DEF Matching
<1>4. NotTwice'
  BY <1>2, <1>3 DEF PostsInv, NotTwice, Awaits
<1>5. \A p \in Pairs: PostsAddUp(p)'
  BY <1>2, <1>3, PostsListed DEF PostsInv
<1>6. QED
  BY <1>4, <1>5 DEF PostsInv

(* The posts after every step.                                             *)
LEMMA PostsStep ==
  ASSUME DeliveryAssumption, BaseInv, [Next]_vars, PostsInv
  PROVE  PostsInv'
<1> USE DEF siemVars, ruleVars
<1>a. /\ sweep \in [Sweepers -> Sweep] /\ Idle.step = "IDLE" /\ Idle.todo = {}
  BY Values DEF BaseInv, TypeOK
<1>1. CASE UNCHANGED <<sweep, row, sent, lost>>
  BY <1>1 DEF PostsInv, NotTwice, PostsAddUp, Listed, Pending, Awaits, Slots, RulesOf
<1>2. CASE Tick \/ (\E e \in Events: BeginEvent(e) \/ CommitEvent(e))
           \/ CreateStream \/ DeleteStream \/ (\E on \in BOOLEAN: ToggleStream(on))
           \/ (\E r \in Rules: CreateRule(r) \/ DeleteRule(r))
  BY <1>1, <1>2 DEF Tick, BeginEvent, CommitEvent, CreateStream, DeleteStream, ToggleStream,
                    CreateRule, DeleteRule
<1>3. ASSUME NEW w \in Sweepers, Forwarder(w)
      PROVE  PostsInv'
  <2>1. UNCHANGED <<row, sent, lost>> /\ \A v \in Sweepers \ {w}: sweep'[v] = sweep[v]
    BY <1>3, <1>a DEF Forwarder, ListStreams, ListEvents, SendBatch, MoveCursor, ClearFailures,
                      RecordFailure
  <2>2. /\ sweep[w].step # "OUTCOME" /\ sweep'[w].step # "OUTCOME"
        /\ sweep'[w].todo \subseteq sweep[w].todo
    <3>1. CASE ListStreams(w)
      BY <1>a, <3>1 DEF ListStreams
    <3>2. CASE ListEvents(w) \/ SendBatch(w)
      BY <1>a, <3>2 DEF ListEvents, SendBatch, Sweep
    <3>3. CASE MoveCursor(w)
      BY <1>a, <3>3 DEF MoveCursor, Idle
    <3>4. CASE ClearFailures(w) \/ RecordFailure(w)
      BY <1>a, <3>4 DEF ClearFailures, RecordFailure
    <3>5. QED
      BY <1>3, <3>1, <3>2, <3>3, <3>4 DEF Forwarder
  <2>3. QED
    BY <2>1, <2>2, PostsQuiet
<1>4. ASSUME NEW w \in Sweepers, ListOffers(w) \/ NextPage(w)
      PROVE  PostsInv'
  <2>1. CASE ListOffers(w)
    <3>1. Idle.since \in Nat \X Nat \X Nat
      BY DEF Idle
    <3>2. QED
      BY <1>a, <2>1, <3>1, PostsPage DEF ListOffers
  <2>2. CASE NextPage(w) /\ sweep[w].full
    BY <1>a, <2>2, PostsPage DEF NextPage, Sweep
  <2>3. CASE NextPage(w) /\ ~sweep[w].full
    BY <1>a, <2>3, PostsQuiet DEF NextPage
  <2>4. QED
    BY <1>4, <2>1, <2>2, <2>3
<1>5. ASSUME NEW w \in Sweepers, NEW o \in Offers, PassOver(w, o)
      PROVE  PostsInv'
  <2>1. /\ sweep[w].step = "OFFERS" /\ sweep'[w].step = "OFFERS"
        /\ sweep'[w].todo \subseteq sweep[w].todo
        /\ UNCHANGED <<row, sent, lost>> /\ \A v \in Sweepers \ {w}: sweep'[v] = sweep[v]
    BY <1>5, <1>a DEF PassOver, NextOffer, Sweep
  <2>2. QED
    BY <2>1, PostsQuiet
<1>6. ASSUME NEW w \in Sweepers, NEW o \in Offers, SendOffer(w, o)
      PROVE  PostsInv'
  <2>1. /\ sweep'[w].todo = sweep[w].todo \ {o} /\ sweep'[w].offer = o
        /\ \A v \in Sweepers \ {w}: sweep'[v] = sweep[v]
    BY <1>6, <1>a DEF SendOffer, Sweep
  <2>2. NotTwice'
    BY <2>1 DEF PostsInv, NotTwice, Awaits
  <2>3. QED
    BY <1>6, <2>2, PostsSent DEF PostsInv
<1>7. ASSUME NEW w \in Sweepers, RecordOutcome(w) \/ SweepEnds(w)
      PROVE  PostsInv'
  <2>1. /\ sweep'[w].step # "OUTCOME" /\ sweep'[w].todo \subseteq sweep[w].todo
        /\ \A v \in Sweepers \ {w}: sweep'[v] = sweep[v]
    BY <1>7, <1>a, SMTT(40) DEF RecordOutcome, SweepEnds, Sweep
  <2>2. CASE sweep[w].step = "OUTCOME"
    <3>1. NotTwice'
      BY <2>1 DEF PostsInv, NotTwice, Awaits
    <3>2. QED
      BY <1>7, <2>2, <3>1, PostsEnded DEF PostsInv
  <2>3. CASE sweep[w].step # "OUTCOME"
    <3>1. UNCHANGED <<row, sent, lost>>
      BY <1>7, <2>3 DEF RecordOutcome, SweepEnds
    <3>2. QED
      BY <2>1, <2>3, <3>1, PostsQuiet
  <2>4. QED
    BY <2>2, <2>3
<1>8. CASE Next
  BY <1>2, <1>3, <1>4, <1>5, <1>6, <1>7, <1>8 DEF Next, Sender
<1>9. QED
  BY <1>1, <1>8 DEF vars

(* Attempts beyond the limit are those whose outcome was lost and those    *)
(* that were already listed, each of Tries posts at most, for any number   *)
(* of sweeps, rules and integrations (jobs_notifications.go, resilience.go). *)
THEOREM AttemptsTheorem == Spec => []AttemptsAreBounded
<1> USE DeliveryAssumption
<1> DEFINE Inv == BaseInv /\ PostsInv
<1>1. Init => Inv
  <2> SUFFICES ASSUME Init PROVE Inv
    OBVIOUS
  <2>1. NotTwice
    BY Values DEF Init, NotTwice
  <2>2. ASSUME NEW p \in Pairs
        PROVE  PostsAddUp(p)
    <3>1. Listed(p) = {} /\ Pending(p) = {}
      BY Values DEF Init, Listed, Pending, Awaits, Slots
    <3>2. /\ Cardinality(Slots(p)) \in Nat /\ MaxAttempts \in Nat \ {0} /\ Cardinality({}) = 0
          /\ Tries \in Nat
      BY SlotsFinite, FS_EmptySet DEF DeliveryAssumption
    <3>3. sent[p] = 0 /\ lost[p] = 0 /\ row[p].failed = 0
      BY DEF Init
    <3> DEFINE most == MaxAttempts - 1 + Cardinality(Slots(p))
    <3>4. most \in Int /\ 0 <= most /\ 0 + MaxAttempts - 1 + Cardinality(Slots(p)) = most
      BY <3>2
    <3>5. Tried(0) = 0 /\ 0 + 0 + 0 = 0 /\ 0 + Tried(0) = 0
      BY TriedGrows
    <3> HIDE DEF most
    <3>6. 0 <= Tried(most)
      BY <3>2, <3>4, <3>5, TriedGrows
    <3>7. QED
      BY <3>1, <3>2, <3>3, <3>4, <3>5, <3>6 DEF PostsAddUp
  <2>3. QED
    BY <2>1, <2>2, InitBase DEF PostsInv
<1>2. Inv /\ [Next]_vars => Inv'
  BY NextBase, PostsStep
<1>3. Inv => AttemptsAreBounded
  <2> SUFFICES ASSUME Inv, NEW p \in Pairs
               PROVE  sent[p] <= Tries * (lost[p] + MaxAttempts - 1
                                            + Cardinality(Sweepers) * Cardinality(RulesOf(p[2])))
    BY DEF AttemptsAreBounded
  <2> DEFINE most == lost[p] + MaxAttempts - 1 + Cardinality(Slots(p))
             listed == Cardinality(Listed(p))
  <2>1. /\ listed \in Nat /\ Cardinality(Slots(p)) \in Nat
        /\ Cardinality(Slots(p)) = Cardinality(Sweepers) * Cardinality(RulesOf(p[2]))
    BY SlotsFinite, InSlots
  <2>2. sent[p] \in Nat /\ lost[p] \in Nat /\ MaxAttempts \in Nat
    BY DEF BaseInv, TypeOK, DeliveryAssumption
  <2>3. sent[p] + Tried(listed) <= Tried(most)
    BY DEF PostsInv, PostsAddUp
  <2>4. most \in Int /\ listed \in Int /\ 0 <= listed
    BY <2>1, <2>2
  <2> HIDE DEF most, listed
  <2>5. 0 <= Tried(listed) /\ Tried(listed) \in Int /\ Tried(most) \in Int
    <3>1. listed \in Nat
      BY <2>4
    <3>2. QED
      BY <2>4, <3>1, TriedGrows
  <2>6. sent[p] <= Tried(most)
    BY <2>2, <2>3, <2>5
  <2>7. QED
    BY <2>1, <2>6 DEF most, Tried
<1>4. QED
  BY <1>1, <1>2, <1>3, PTL DEF Spec
=============================================================================
