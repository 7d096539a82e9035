------------------------ MODULE EvidenceLedgerProofs ------------------------
(* Theorems about EvidenceLedger. *)
EXTENDS EvidenceLedger, FiniteSetTheorems, WellFoundedInduction, TLAPS

(* A sequence is a prefix of itself. *)
LEMMA PrefixSelf ==
    ASSUME NEW S, NEW s \in Seq(S)
    PROVE  IsPrefix(s, s)
BY DEF IsPrefix

(* A prefix stays one when the longer sequence grows. *)
LEMMA PrefixAppend ==
    ASSUME NEW S, NEW s \in Seq(S), NEW t \in Seq(S), NEW d \in S,
           IsPrefix(s, t)
    PROVE  IsPrefix(s, Append(t, d))
BY DEF IsPrefix

(* Decision ids are finitely many, so their sets can be counted. *)
LEMMA Countable ==
    ASSUME NEW b \in SUBSET Ids
    PROVE  Cardinality(b) \in Nat
BY IdAssumption, FS_Subset, FS_CardinalityType

(* There is a first month. *)
LEMMA FirstPeriod == 1 \in Periods
BY SizeAssumption DEF Periods

(* Answering a call keeps the types of its variables. *)
LEMMA AnswerType ==
    ASSUME TypeOK, NEW c \in Calls, NEW a \in {"STORED", "DUPLICATE", "ERROR"},
           Answer(c, a)
    PROVE  /\ phase' \in [Calls -> {"new", "done"} \cup InFlight]
           /\ answer' \in [Calls -> {"none", "STORED", "DUPLICATE", "ERROR"}]
           /\ prevHash' \in [Calls -> Seq(Ids)]
           /\ begun' \in [Calls -> Periods]
           /\ \A o \in Calls : phase'[o] \in InFlight =>
                 o # c /\ phase[o] \in InFlight
<1>1. <<>> \in Seq(Ids)
  OBVIOUS
<1>2. QED
  BY <1>1, FirstPeriod DEF TypeOK, Answer, InFlight

(* A sweep that goes to its next stage keeps the types. *)
LEMMA NextStageType ==
    ASSUME TypeOK, NEW s \in Sweeps, NextStage(s)
    PROVE  /\ stage' \in [Sweeps -> {"idle", "done"} \cup Environments]
           /\ step' \in [Sweeps -> {"select", "archive", "delete", "keys",
                                     "discount"}]
           /\ list' \in [Sweeps -> SUBSET Ids]
           /\ todo' \in [Sweeps -> SUBSET Ids]
           /\ chunk' \in [Sweeps -> SUBSET Ids]
           /\ stored' \in [Sweeps -> SUBSET Ids]
           /\ removed' \in [Sweeps -> Nat]
BY DEF TypeOK, NextStage, Environments

(* So does a discount of the gauge. *)
LEMMA DiscountType ==
    ASSUME TypeOK, NEW n \in Nat
    PROVE  Discounted(n) \in [Periods -> Nat \cup {None}]
BY DEF TypeOK, Discounted

(* Counting an event keeps the types of the usage rows. *)
LEMMA CountType ==
    ASSUME TypeOK, NEW m \in Periods, CountUsage(m)
    PROVE  /\ ingested' \in [Periods -> Nat]
           /\ gauge' \in [Periods -> Nat \cup {None}]
BY NullAssumption DEF TypeOK, CountUsage

LEMMA TypeInductive ==
    ASSUME TypeOK, [Next]_vars
    PROVE  TypeOK'
<1> USE DEF TypeOK, EventIds, InFlight, Environments, ledgerVars, usageVars,
           callVars, sweepVars, pastVars
<1>1. ASSUME NEW c \in Calls, NEW d \in Ids, ClaimKey(c, d) PROVE TypeOK'
  <2>1. CASE d \in keys
    BY <1>1, <2>1, AnswerType, ZenonT(60) DEF ClaimKey
  <2>2. CASE d \notin keys
    BY <1>1, <2>2 DEF ClaimKey
  <2>3. QED
    BY <2>1, <2>2
<1>2. ASSUME NEW c \in Calls, LockHead(c) PROVE TypeOK'
  BY <1>2 DEF LockHead
<1>3. ASSUME NEW c \in Calls, Store(c) PROVE TypeOK'
  <2> DEFINE d == subject[c]
  <2>1. d \in Ids /\ prevHash[c] \in Seq(Ids)
    BY <1>3 DEF Store
  <2>2. /\ head' \in Seq(Ids)
        /\ keys' \subseteq Ids
        /\ events' \subseteq [id : Ids, prev : Seq(Ids)]
    BY <1>3, <2>1 DEF Store
  <2>3. /\ ingested' \in [Periods -> Nat]
        /\ gauge' \in [Periods -> Nat \cup {None}]
    <3>1. PICK m \in Months(c) : CountUsage(m)
      BY <1>3 DEF Store
    <3>2. m \in Periods
      BY SizeAssumption DEF Months, Periods
    <3>3. QED
      BY <3>1, <3>2, CountType
  <2>4. PICK a \in {"STORED", "ERROR"} : Answer(c, a)
    BY <1>3 DEF Store
  <2>5. /\ phase' \in [Calls -> {"new", "done"} \cup InFlight]
        /\ answer' \in [Calls -> {"none", "STORED", "DUPLICATE", "ERROR"}]
        /\ prevHash' \in [Calls -> Seq(Ids)]
        /\ begun' \in [Calls -> Periods]
        /\ \A o \in Calls : phase'[o] \in InFlight => phase[o] \in InFlight
    <3>1. a \in {"STORED", "DUPLICATE", "ERROR"}
      OBVIOUS
    <3>2. QED
      BY <2>4, <3>1, AnswerType
  <2>6. UNCHANGED <<subject, period, notified, notices, sweepVars, sample,
                    pastVars>>
    BY <1>3 DEF Store
  <2>7. QED
    BY <2>2, <2>3, <2>5, <2>6
<1>4. ASSUME NEW c \in Calls, StoreNothing(c) PROVE TypeOK'
  <2>1. subject[c] \in Ids /\ Answer(c, "DUPLICATE")
    BY <1>4 DEF StoreNothing
  <2>2. /\ phase' \in [Calls -> {"new", "done"} \cup InFlight]
        /\ answer' \in [Calls -> {"none", "STORED", "DUPLICATE", "ERROR"}]
        /\ prevHash' \in [Calls -> Seq(Ids)]
        /\ begun' \in [Calls -> Periods]
        /\ \A o \in Calls : phase'[o] \in InFlight => phase[o] \in InFlight
    BY <2>1, AnswerType
  <2>3. QED
    BY <1>4, <2>1, <2>2 DEF StoreNothing
<1>5. ASSUME NEW c \in Calls, IngestFails(c) PROVE TypeOK'
  BY <1>5, AnswerType DEF IngestFails
<1>6. ASSUME NEW s \in Sweeps, StartSweep(s) PROVE TypeOK'
  BY <1>6 DEF StartSweep
<1>7. ASSUME NEW s \in Sweeps, DeleteBatch(s) PROVE TypeOK'
  <2>1. PICK b \in SUBSET {d \in EventIds : EnvOf[d] = stage[s]} :
          /\ events' = {e \in events : e.id \notin b}
          /\ IF b = {}
               THEN NextStage(s)
               ELSE /\ list' = [list EXCEPT ![s] = b]
                    /\ chunk' = [chunk EXCEPT ![s] = b]
                    /\ GoTo(s, "keys")
                    /\ UNCHANGED <<todo, stored, removed>>
    BY <1>7 DEF DeleteBatch
  <2>2. b \subseteq Ids
    OBVIOUS
  <2>3. CASE b = {}
    BY <1>7, <2>1, <2>3, NextStageType DEF DeleteBatch
  <2>4. CASE b # {}
    BY <1>7, <2>1, <2>2, <2>4, ZenonT(60) DEF DeleteBatch, GoTo
  <2>5. QED
    BY <2>3, <2>4
<1>8. ASSUME NEW s \in Sweeps, SelectExpired(s) PROVE TypeOK'
  <2>1. PICK b \in SUBSET {d \in EventIds : EnvOf[d] = "production"} :
          IF b = {}
            THEN NextStage(s)
            ELSE /\ list' = [list EXCEPT ![s] = b]
                 /\ todo' = [todo EXCEPT ![s] = b]
                 /\ GoTo(s, "archive")
                 /\ UNCHANGED <<chunk, stored, removed>>
    BY <1>8 DEF SelectExpired
  <2>2. b \subseteq Ids
    OBVIOUS
  <2>3. CASE b = {}
    <3>1. /\ stage' \in [Sweeps -> {"idle", "done"} \cup Environments]
          /\ step' \in [Sweeps -> {"select", "archive", "delete", "keys",
                                    "discount"}]
          /\ list' \in [Sweeps -> SUBSET Ids]
          /\ todo' \in [Sweeps -> SUBSET Ids]
          /\ chunk' \in [Sweeps -> SUBSET Ids]
          /\ stored' \in [Sweeps -> SUBSET Ids]
          /\ removed' \in [Sweeps -> Nat]
      BY <2>1, <2>3, NextStageType
    <3>2. UNCHANGED <<ledgerVars, usageVars, callVars, sample, pastVars>>
      BY <1>8 DEF SelectExpired
    <3>3. QED
      BY <3>1, <3>2
  <2>4. CASE b # {}
    <3>1. /\ list' = [list EXCEPT ![s] = b]
          /\ todo' = [todo EXCEPT ![s] = b]
          /\ GoTo(s, "archive")
          /\ UNCHANGED <<chunk, stored, removed>>
      BY <2>1, <2>4
    <3>2. /\ list' \in [Sweeps -> SUBSET Ids]
          /\ todo' \in [Sweeps -> SUBSET Ids]
          /\ step' \in [Sweeps -> {"select", "archive", "delete", "keys",
                                    "discount"}]
          /\ UNCHANGED stage
      BY <2>2, <3>1 DEF GoTo
    <3>3. UNCHANGED <<ledgerVars, usageVars, callVars, sample, pastVars>>
      BY <1>8 DEF SelectExpired
    <3>4. QED
      BY <3>1, <3>2, <3>3
  <2>5. QED
    BY <2>3, <2>4
<1>9. ASSUME NEW s \in Sweeps, Archive(s) PROVE TypeOK'
  BY <1>9 DEF Archive, GoTo
<1>10. ASSUME NEW s \in Sweeps, ArchiveFails(s) PROVE TypeOK'
  BY <1>10 DEF ArchiveFails, NextStage
<1>11. ASSUME NEW s \in Sweeps, DeleteChunk(s) PROVE TypeOK'
  BY <1>11 DEF DeleteChunk, GoTo
<1>12. ASSUME NEW s \in Sweeps, DeleteChunkFails(s) PROVE TypeOK'
  BY <1>12 DEF DeleteChunkFails, GoTo
<1>13. ASSUME NEW s \in Sweeps, DeleteKeys(s) PROVE TypeOK'
  <2>1. Cardinality(chunk[s] \cap keys) \in Nat
    BY Countable
  <2>2. QED
    BY <1>13, <2>1 DEF DeleteKeys, GoTo, AfterKeys
<1>14. ASSUME NEW s \in Sweeps, DeleteKeysFails(s) PROVE TypeOK'
  BY <1>14 DEF DeleteKeysFails, GoTo, AfterKeys
<1>15. ASSUME NEW s \in Sweeps, Discount(s) PROVE TypeOK'
  <2>1. Cardinality(list[s]) \in Nat
    BY Countable
  <2>2. gauge' \in [Periods -> Nat \cup {None}]
    BY <1>15, <2>1, DiscountType DEF Discount
  <2>3. CASE NextStage(s)
    <3>1. /\ stage' \in [Sweeps -> {"idle", "done"} \cup Environments]
          /\ step' \in [Sweeps -> {"select", "archive", "delete", "keys",
                                    "discount"}]
          /\ list' \in [Sweeps -> SUBSET Ids]
          /\ todo' \in [Sweeps -> SUBSET Ids]
          /\ chunk' \in [Sweeps -> SUBSET Ids]
          /\ stored' \in [Sweeps -> SUBSET Ids]
          /\ removed' \in [Sweeps -> Nat]
      BY <2>3, NextStageType
    <3>2. UNCHANGED <<ledgerVars, period, ingested, notified, notices,
                      callVars, sample, pastVars>>
      BY <1>15 DEF Discount
    <3>3. QED
      BY <2>2, <3>1, <3>2
  <2>4. CASE ~NextStage(s)
    <3>1. /\ GoTo(s, "delete")
          /\ list' = [list EXCEPT ![s] = {}]
          /\ removed' = [removed EXCEPT ![s] = 0]
          /\ UNCHANGED <<todo, chunk, stored>>
      BY <1>15, <2>4 DEF Discount, EndRound
    <3>2. /\ list' \in [Sweeps -> SUBSET Ids]
          /\ removed' \in [Sweeps -> Nat]
          /\ step' \in [Sweeps -> {"select", "archive", "delete", "keys",
                                    "discount"}]
          /\ UNCHANGED stage
      BY <3>1 DEF GoTo
    <3>3. UNCHANGED <<ledgerVars, period, ingested, notified, notices,
                      callVars, sample, pastVars>>
      BY <1>15 DEF Discount
    <3>4. QED
      BY <2>2, <3>1, <3>2, <3>3
  <2>5. QED
    BY <2>3, <2>4
<1>16. ASSUME NEW s \in Sweeps, SweepFails(s) PROVE TypeOK'
  BY <1>16 DEF SweepFails
<1>17. ASSUME NEW b \in SUBSET Ids, WebPrune(b) PROVE TypeOK'
  <2>1. Cardinality(b \cap EventIds) \in Nat
    BY Countable
  <2>2. gauge' \in [Periods -> Nat \cup {None}]
    BY <1>17, <2>1, DiscountType DEF WebPrune
  <2>3. QED
    BY <1>17, <2>2 DEF WebPrune
<1>18. ASSUME NEW a \in Audits, Measure(a) PROVE TypeOK'
  <2>1. Cardinality(keys) \in Nat
    BY Countable
  <2>2. [month |-> period, retained |-> Cardinality(keys),
         told |-> notified[period]] \in Measurements
    BY <2>1 DEF Measurements
  <2>3. QED
    BY <1>18, <2>2 DEF Measure
<1>19. ASSUME NEW a \in Audits, Apply(a) PROVE TypeOK'
  <2>1. sample[a] \in Measurements
    BY <1>19 DEF Apply
  <2>2. /\ sample[a].month \in Periods
        /\ sample[a].retained \in Nat
    BY <2>1 DEF Measurements
  <2>3. gauge' \in [Periods -> Nat \cup {None}]
    BY <1>19, <2>2 DEF Apply
  <2>4. /\ notices' \in [Periods -> Nat]
        /\ notified' \in [Periods -> BOOLEAN]
    <3>1. CASE UNCHANGED <<notices, notified>>
      BY <3>1
    <3>2. CASE /\ notices' = [notices EXCEPT ![sample[a].month] = @ + 1]
               /\ notified' = [notified EXCEPT ![sample[a].month] = TRUE]
      BY <2>2, <3>2
    <3>3. QED
      BY <1>19, <3>1, <3>2 DEF Apply
  <2>5. /\ sample' \in [Audits -> Measurements \cup {None}]
        /\ UNCHANGED <<period, ingested, ledgerVars, callVars, sweepVars,
                       pastVars>>
    BY <1>19 DEF Apply
  <2>6. QED
    BY <2>3, <2>4, <2>5
<1>20. ASSUME NEW a \in Audits, ApplyFails(a) PROVE TypeOK'
  BY <1>20 DEF ApplyFails
<1>21. ASSUME NewPeriod PROVE TypeOK'
  BY <1>21, SizeAssumption DEF NewPeriod, Periods
<1>22. CASE UNCHANGED vars
  BY <1>22 DEF vars
<1>23. QED
  BY <1>1, <1>2, <1>3, <1>4, <1>5, <1>6, <1>7, <1>8, <1>9, <1>10, <1>11, <1>12, <1>13, <1>14, <1>15, <1>16, <1>17, <1>18, <1>19, <1>20, <1>21, <1>22
  DEF Next, CallStep, SweepStep, AuditStep

-----------------------------------------------------------------------------
(* The chain *)

(* Only calls move the head and add events or keys. *)
LEMMA OthersOnlyDelete ==
    ASSUME \/ \E s \in Sweeps : SweepStep(s)
           \/ \E b \in SUBSET Ids : WebPrune(b)
           \/ \E a \in Audits : AuditStep(a)
           \/ NewPeriod
           \/ UNCHANGED vars
    PROVE  /\ UNCHANGED <<head, phase, prevHash, subject, answer>>
           /\ events' \subseteq events
           /\ keys' \subseteq keys
<1> USE DEF ledgerVars, callVars
<1>1. ASSUME NEW s \in Sweeps, SweepStep(s)
      PROVE  /\ UNCHANGED <<head, phase, prevHash, subject, answer>>
             /\ events' \subseteq events
             /\ keys' \subseteq keys
  BY <1>1 DEF SweepStep, StartSweep, DeleteBatch, SelectExpired, Archive,
     ArchiveFails, DeleteChunk, DeleteChunkFails, DeleteKeys, DeleteKeysFails,
     Discount, SweepFails
<1>2. ASSUME NEW b \in SUBSET Ids, WebPrune(b)
      PROVE  /\ UNCHANGED <<head, phase, prevHash, subject, answer>>
             /\ events' \subseteq events
             /\ keys' \subseteq keys
  BY <1>2 DEF WebPrune
<1>3. ASSUME NEW a \in Audits, AuditStep(a)
      PROVE  /\ UNCHANGED <<head, phase, prevHash, subject, answer>>
             /\ events' \subseteq events
             /\ keys' \subseteq keys
  BY <1>3 DEF AuditStep, Measure, Apply, ApplyFails
<1>4. QED
  BY <1>1, <1>2, <1>3 DEF NewPeriod, vars

(* What a call's step does to the chain: it leaves it alone, claims or     *)
(* locks, or appends one id to the hash it read.                           *)
LEMMA CallMoves ==
    ASSUME TypeOK, HeadIsLocked, NEW c \in Calls, CallStep(c)
    PROVE  \/ /\ UNCHANGED <<head, events>>
              /\ \A o \in Calls : phase'[o] = "locked" =>
                    phase[o] = "locked" /\ prevHash'[o] = prevHash[o]
           \/ /\ UNCHANGED <<head, events>>
              /\ prevHash'[c] = head
              /\ \A o \in Calls : phase'[o] = "locked" => o = c
           \/ /\ subject[c] \in Ids
              /\ events' = events \cup {[id |-> subject[c], prev |-> head]}
              /\ head' = Append(head, subject[c])
              /\ \A o \in Calls : phase'[o] # "locked"
<1>1. ASSUME NEW d \in Ids, ClaimKey(c, d)
      PROVE  /\ UNCHANGED <<head, events>>
             /\ \A o \in Calls : phase'[o] = "locked" =>
                   phase[o] = "locked" /\ prevHash'[o] = prevHash[o]
  <2>1. CASE d \in keys
    BY <1>1, <2>1 DEF ClaimKey, Answer, ledgerVars, TypeOK
  <2>2. CASE d \notin keys
    BY <1>1, <2>2 DEF ClaimKey, ledgerVars, TypeOK
  <2>3. QED
    BY <2>1, <2>2
<1>2. ASSUME LockHead(c)
      PROVE  /\ UNCHANGED <<head, events>>
             /\ prevHash'[c] = head
             /\ \A o \in Calls : phase'[o] = "locked" => o = c
  BY <1>2 DEF LockHead, ledgerVars, TypeOK
<1>3. ASSUME Store(c)
      PROVE  /\ subject[c] \in Ids
             /\ events' = events \cup {[id |-> subject[c], prev |-> head]}
             /\ head' = Append(head, subject[c])
             /\ \A o \in Calls : phase'[o] # "locked"
  <2>1. /\ phase[c] = "locked"
        /\ prevHash[c] = head
        /\ \A o \in Calls : phase[o] = "locked" => o = c
    BY <1>3 DEF Store, HeadIsLocked
  <2>2. phase' = [phase EXCEPT ![c] = "done"]
    BY <1>3 DEF Store, Answer
  <2>3. subject[c] \in Ids
    BY <2>1 DEF TypeOK, InFlight
  <2>4. QED
    BY <1>3, <2>1, <2>2, <2>3 DEF Store, TypeOK
<1>4. ASSUME StoreNothing(c) \/ IngestFails(c)
      PROVE  /\ UNCHANGED <<head, events>>
             /\ \A o \in Calls : phase'[o] = "locked" =>
                   phase[o] = "locked" /\ prevHash'[o] = prevHash[o]
  BY <1>4 DEF StoreNothing, IngestFails, Answer, ledgerVars, TypeOK
<1>5. QED
  BY <1>1, <1>2, <1>3, <1>4 DEF CallStep

LEMMA ChainInductive ==
    ASSUME ChainInv, [Next]_vars
    PROVE  ChainInv'
<1> USE DEF ChainInv
<1>1. TypeOK'
  BY TypeInductive
<1>2. ASSUME UNCHANGED head, events' \subseteq events
      PROVE  ChainIsLinear'
  BY <1>2 DEF ChainIsLinear
<1>3. ASSUME NEW c \in Calls, CallStep(c)
      PROVE  HeadIsLocked' /\ ChainIsLinear'
  <2>1. CASE /\ UNCHANGED <<head, events>>
             /\ \A o \in Calls : phase'[o] = "locked" =>
                   phase[o] = "locked" /\ prevHash'[o] = prevHash[o]
    BY <1>2, <2>1 DEF HeadIsLocked
  <2>2. CASE /\ UNCHANGED <<head, events>>
             /\ prevHash'[c] = head
             /\ \A o \in Calls : phase'[o] = "locked" => o = c
    BY <1>2, <2>2 DEF HeadIsLocked
  <2>3. CASE /\ subject[c] \in Ids
             /\ events' = events \cup {[id |-> subject[c], prev |-> head]}
             /\ head' = Append(head, subject[c])
             /\ \A o \in Calls : phase'[o] # "locked"
    <3>1. HeadIsLocked'
      BY <2>3 DEF HeadIsLocked
    <3>2. ASSUME NEW e \in events
          PROVE  IsPrefix(Append(e.prev, e.id), Append(head, subject[c]))
      <4>1. e.prev \in Seq(Ids) /\ e.id \in Ids /\ head \in Seq(Ids)
        BY DEF TypeOK
      <4>2. Append(e.prev, e.id) \in Seq(Ids)
        BY <4>1
      <4>3. IsPrefix(Append(e.prev, e.id), head)
        BY DEF ChainIsLinear
      <4>4. QED
        BY <2>3, <4>1, <4>2, <4>3, PrefixAppend
    <3>3. IsPrefix(Append(head, subject[c]), Append(head, subject[c]))
      <4>1. Append(head, subject[c]) \in Seq(Ids)
        BY <2>3 DEF TypeOK
      <4>2. QED
        BY <4>1, PrefixSelf
    <3>4. ChainIsLinear'
      BY <2>3, <3>2, <3>3 DEF ChainIsLinear
    <3>5. QED
      BY <3>1, <3>4
  <2>4. QED
    BY <1>3, <2>1, <2>2, <2>3, CallMoves
<1>4. CASE \/ \E s \in Sweeps : SweepStep(s)
           \/ \E b \in SUBSET Ids : WebPrune(b)
           \/ \E a \in Audits : AuditStep(a)
           \/ NewPeriod
           \/ UNCHANGED vars
  <2>1. /\ UNCHANGED <<head, phase, prevHash, subject, answer>>
        /\ events' \subseteq events
    BY <1>4, OthersOnlyDelete
  <2>2. HeadIsLocked'
    BY <2>1 DEF HeadIsLocked
  <2>3. QED
    BY <1>1, <1>2, <2>1, <2>2
<1>5. QED
  BY <1>1, <1>3, <1>4 DEF Next

LEMMA ChainInit == Init => ChainInv
<1> SUFFICES ASSUME Init PROVE ChainInv
  OBVIOUS
<1>1. <<>> \in Seq(Ids)
  OBVIOUS
<1>2. TypeOK
  BY <1>1, FirstPeriod DEF Init, TypeOK, InFlight, Environments
<1>3. HeadIsLocked /\ ChainIsLinear
  BY DEF Init, HeadIsLocked, ChainIsLinear
<1>4. QED
  BY <1>2, <1>3 DEF ChainInv

(* In every reachable state, whatever the number of calls and sweeps, the  *)
(* events stored form one hash chain that ends at the head: the row lock   *)
(* of the chain head (evidence.go:484) orders all appends.                 *)
THEOREM ChainTheorem == Spec => []ChainInv
<1>1. ChainInv /\ [Next]_vars => ChainInv'
  BY ChainInductive
<1>2. QED
  BY ChainInit, <1>1, PTL DEF Spec

-----------------------------------------------------------------------------
(* Acknowledgements *)

(* An id is part of the chain h. *)
Chained(h, d) == \E n \in DOMAIN h : h[n] = d

(* A call is not answered before it is done. *)
OpenIsUnanswered == \A c \in Calls : phase[c] # "done" => answer[c] = "none"

(* What a call can be told about is chained: every id that a committed key *)
(* claims, and every event's.                                              *)
AckInv ==
    /\ ChainInv
    /\ OpenIsUnanswered
    /\ \A d \in keys \cup EventIds : Chained(head, d)
    /\ AcknowledgedIsChained

(* An appended sequence holds what it held, and the new element. *)
LEMMA ChainedAppend ==
    ASSUME NEW h \in Seq(Ids), NEW d \in Ids, NEW x,
           Chained(h, x) \/ x = d
    PROVE  Chained(Append(h, d), x)
<1>1. CASE x = d
  <2>1. /\ Len(h) + 1 \in DOMAIN Append(h, d)
        /\ Append(h, d)[Len(h) + 1] = d
    OBVIOUS
  <2>2. QED
    BY <1>1, <2>1 DEF Chained
<1>2. ASSUME NEW n \in DOMAIN h, h[n] = x
      PROVE  n \in DOMAIN Append(h, d) /\ Append(h, d)[n] = x
  BY <1>2
<1>3. QED
  BY <1>1, <1>2 DEF Chained

LEMMA AckInductive ==
    ASSUME AckInv, [Next]_vars
    PROVE  AckInv'
<1> DEFINE Claims == \A d \in keys \cup EventIds : Chained(head, d)
<1> USE DEF AckInv
<1>1. ChainInv'
  BY ChainInductive
<1>2. TypeOK /\ HeadIsLocked
  BY DEF ChainInv
<1>3. ASSUME NEW c \in Calls, CallStep(c)
      PROVE  OpenIsUnanswered' /\ Claims' /\ AcknowledgedIsChained'
  <2>1. ASSUME NEW d \in Ids, ClaimKey(c, d)
        PROVE  OpenIsUnanswered' /\ Claims' /\ AcknowledgedIsChained'
    <3>1. Claims'
      BY <2>1 DEF ClaimKey, ledgerVars, EventIds
    <3>2. CASE d \in keys
      <4>1. /\ answer' = [answer EXCEPT ![c] = "DUPLICATE"]
            /\ phase' = [phase EXCEPT ![c] = "done"]
            /\ subject' = [subject EXCEPT ![c] = d]
            /\ UNCHANGED head
        BY <2>1, <3>2 DEF ClaimKey, Answer, ledgerVars
      <4>2. Chained(head, d)
        BY <3>2
      <4>3. QED
        BY <1>2, <3>1, <4>1, <4>2
        DEF OpenIsUnanswered, AcknowledgedIsChained, Chained, TypeOK
    <3>3. CASE d \notin keys
      <4>1. /\ phase[c] = "new"
            /\ phase' = [phase EXCEPT ![c] = "keyed"]
            /\ subject' = [subject EXCEPT ![c] = d]
            /\ UNCHANGED <<head, answer>>
        BY <2>1, <3>3 DEF ClaimKey, ledgerVars
      <4>2. answer[c] = "none"
        BY <4>1 DEF OpenIsUnanswered
      <4>3. QED
        BY <1>2, <3>1, <4>1, <4>2
        DEF OpenIsUnanswered, AcknowledgedIsChained, TypeOK
    <3>4. QED
      BY <3>2, <3>3
  <2>2. ASSUME LockHead(c)
        PROVE  OpenIsUnanswered' /\ Claims' /\ AcknowledgedIsChained'
    BY <1>2, <2>2
    DEF LockHead, ledgerVars, EventIds, OpenIsUnanswered,
        AcknowledgedIsChained, TypeOK
  <2>3. ASSUME Store(c)
        PROVE  OpenIsUnanswered' /\ Claims' /\ AcknowledgedIsChained'
    <3> DEFINE d == subject[c]
    <3>1. /\ prevHash[c] = head /\ d \in Ids /\ head \in Seq(Ids)
      BY <1>2, <2>3 DEF Store, HeadIsLocked, TypeOK, InFlight
    <3>2. /\ head' = Append(head, d)
          /\ keys' = keys \cup {d}
          /\ events' = events \cup {[id |-> d, prev |-> head]}
          /\ UNCHANGED subject
      BY <2>3, <3>1 DEF Store
    <3>3. PICK a \in {"STORED", "ERROR"} :
             /\ phase' = [phase EXCEPT ![c] = "done"]
             /\ answer' = [answer EXCEPT ![c] = a]
      BY <2>3 DEF Store, Answer
    <3>4. ASSUME NEW x, Chained(head, x) \/ x = d
          PROVE  Chained(head', x)
      BY <3>1, <3>2, <3>4, ChainedAppend
    <3>5. ASSUME NEW x \in EventIds'
          PROVE  x \in EventIds \/ x = d
      <4> DEFINE new == [id |-> d, prev |-> head]
      <4>1. PICK e \in events' : x = e.id
        BY <3>5 DEF EventIds
      <4>2. CASE e \in events
        BY <4>1, <4>2 DEF EventIds
      <4>3. CASE e = new
        <5>1. new.id = d
          OBVIOUS
        <5>2. QED
          BY <4>1, <4>3, <5>1
      <4>4. QED
        BY <3>2, <4>2, <4>3
    <3>6. Claims'
      BY <3>2, <3>4, <3>5
    <3>7. AcknowledgedIsChained'
      <4>1. ASSUME NEW o \in Calls, answer'[o] \in {"STORED", "DUPLICATE"}
            PROVE  Chained(head, subject[o]) \/ subject[o] = d
        BY <1>2, <3>3, <4>1 DEF AcknowledgedIsChained, Chained, TypeOK
      <4>2. QED
        BY <3>2, <3>4, <4>1 DEF AcknowledgedIsChained, Chained
    <3>8. OpenIsUnanswered'
      BY <1>2, <3>3 DEF OpenIsUnanswered, TypeOK
    <3>9. QED
      BY <3>6, <3>7, <3>8
  <2>4. ASSUME StoreNothing(c)
        PROVE  OpenIsUnanswered' /\ Claims' /\ AcknowledgedIsChained'
    <3>1. /\ keys' = keys \cup {subject[c]}
          /\ subject[c] \in EventIds
          /\ phase' = [phase EXCEPT ![c] = "done"]
          /\ answer' = [answer EXCEPT ![c] = "DUPLICATE"]
          /\ UNCHANGED <<head, events, subject>>
      BY <2>4 DEF StoreNothing, Answer
    <3>2. Chained(head, subject[c])
      BY <3>1
    <3>3. Claims'
      BY <3>1, <3>2 DEF EventIds
    <3>4. QED
      BY <1>2, <3>1, <3>2, <3>3
      DEF OpenIsUnanswered, AcknowledgedIsChained, Chained, TypeOK
  <2>5. ASSUME IngestFails(c)
        PROVE  OpenIsUnanswered' /\ Claims' /\ AcknowledgedIsChained'
    BY <1>2, <2>5
    DEF IngestFails, Answer, ledgerVars, EventIds, OpenIsUnanswered,
        AcknowledgedIsChained, TypeOK
  <2>6. QED
    BY <1>3, <2>1, <2>2, <2>3, <2>4, <2>5 DEF CallStep
<1>4. CASE \/ \E s \in Sweeps : SweepStep(s)
           \/ \E b \in SUBSET Ids : WebPrune(b)
           \/ \E a \in Audits : AuditStep(a)
           \/ NewPeriod
           \/ UNCHANGED vars
  <2>1. /\ UNCHANGED <<head, phase, prevHash, subject, answer>>
        /\ events' \subseteq events
        /\ keys' \subseteq keys
    BY <1>4, OthersOnlyDelete
  <2>2. Claims'
    BY <2>1 DEF EventIds
  <2>3. OpenIsUnanswered' /\ AcknowledgedIsChained'
    BY <2>1 DEF OpenIsUnanswered, AcknowledgedIsChained
  <2>4. QED
    BY <1>1, <2>2, <2>3
<1>5. QED
  BY <1>1, <1>3, <1>4 DEF Next

LEMMA AckInit == Init => AckInv
BY ChainInit DEF Init, AckInv, OpenIsUnanswered, EventIds, AcknowledgedIsChained

(* In every reachable state a call that was answered STORED or DUPLICATE   *)
(* has its evidence in the chain: a claim is not taken for a stored event  *)
(* before it commits (evidence.go:470).                                    *)
THEOREM AcknowledgedTheorem == Spec => []AcknowledgedIsChained
<1>1. AckInv /\ [Next]_vars => AckInv'
  BY AckInductive
<1>2. AckInv => AcknowledgedIsChained
  BY DEF AckInv
<1>3. QED
  BY AckInit, <1>1, <1>2, PTL DEF Spec

-----------------------------------------------------------------------------
(* Keys and events *)

(* A claim in flight is of a key nobody has, and nobody else claims. *)
ClaimsAreApart ==
    \A c \in Calls : phase[c] \in InFlight =>
        /\ subject[c] \notin keys
        /\ \A o \in Calls :
              phase[o] \in InFlight /\ subject[o] = subject[c] => o = c

(* A sweep that does not run is not at its keys, and only the production   *)
(* stage has a list it deletes by.                                         *)
SweepsRest ==
    \A s \in Sweeps :
        /\ ~Sweeping(s) => step[s] = "delete"
        /\ stage[s] # "production" => todo[s] = {}

(* A deleter that is alone has only events left to delete, and the keys it *)
(* is about to delete are there and have no event.                         *)
AloneIsOrderly ==
    ~overlapped =>
        /\ \A s, o \in Sweeps : Sweeping(s) /\ Sweeping(o) => s = o
        /\ \A s \in Sweeps : Sweeping(s) =>
              /\ todo[s] \subseteq EventIds
              /\ step[s] = "keys" =>
                    chunk[s] \subseteq keys /\ chunk[s] \cap EventIds = {}

KeyInv ==
    /\ TypeOK
    /\ ClaimsAreApart
    /\ SweepsRest
    /\ AloneIsOrderly
    /\ KeysFollowEvents

(* What deleting events by id leaves. *)
LEMMA EventsLeft ==
    ASSUME NEW b, events' = {e \in events : e.id \notin b}
    PROVE  EventIds' = EventIds \ b
BY DEF EventIds

(* A call's step that touches neither keys nor events keeps the claims     *)
(* apart if the claims in flight were there before, or one is new.         *)
LEMMA CallKeepsKeys ==
    ASSUME KeyInv, NEW c \in Calls, CallStep(c)
    PROVE  ClaimsAreApart' /\ AloneIsOrderly' /\ KeysFollowEvents'
<1> USE DEF KeyInv
<1>1. ASSUME UNCHANGED <<keys, events, sweepVars, pastVars>>
      PROVE  AloneIsOrderly' /\ KeysFollowEvents'
  BY <1>1 DEF AloneIsOrderly, KeysFollowEvents, EventIds, Sweeping,
              sweepVars, pastVars
<1>2. ASSUME NEW d \in Ids, ClaimKey(c, d)
      PROVE  ClaimsAreApart' /\ AloneIsOrderly' /\ KeysFollowEvents'
  <2>1. UNCHANGED <<keys, events, sweepVars, pastVars>>
    BY <1>2 DEF ClaimKey, ledgerVars
  <2>2. CASE d \in keys
    BY <1>1, <1>2, <2>1, <2>2
    DEF ClaimKey, Answer, ClaimsAreApart, InFlight, TypeOK
  <2>3. CASE d \notin keys
    <3>1. /\ subject' = [subject EXCEPT ![c] = d]
          /\ phase' = [phase EXCEPT ![c] = "keyed"]
          /\ ~\E o \in Calls : phase[o] \in InFlight /\ subject[o] = d
      BY <1>2, <2>3 DEF ClaimKey
    <3>2. ClaimsAreApart'
      BY <2>1, <2>3, <3>1 DEF ClaimsAreApart, InFlight, TypeOK
    <3>3. QED
      BY <1>1, <2>1, <3>2
  <2>4. QED
    BY <2>2, <2>3
<1>3. ASSUME LockHead(c) \/ IngestFails(c)
      PROVE  ClaimsAreApart' /\ AloneIsOrderly' /\ KeysFollowEvents'
  <2>1. UNCHANGED <<keys, events, sweepVars, pastVars, subject>>
    BY <1>3 DEF LockHead, IngestFails, ledgerVars
  <2>2. \A o \in Calls : phase'[o] \in InFlight => phase[o] \in InFlight
    BY <1>3 DEF LockHead, IngestFails, Answer, InFlight, TypeOK
  <2>3. QED
    BY <1>1, <2>1, <2>2 DEF ClaimsAreApart
<1>4. ASSUME Store(c) \/ StoreNothing(c)
      PROVE  ClaimsAreApart' /\ AloneIsOrderly' /\ KeysFollowEvents'
  <2> DEFINE d == subject[c]
  <2>1. /\ phase[c] \in InFlight
        /\ keys' = keys \cup {d}
        /\ phase' = [phase EXCEPT ![c] = "done"]
        /\ UNCHANGED <<subject, sweepVars, pastVars>>
    BY <1>4 DEF Store, StoreNothing, Answer, InFlight
  <2>2. EventIds' = EventIds \cup {d}
    <3>1. CASE Store(c)
      <4> DEFINE new == [id |-> d, prev |-> prevHash[c]]
      <4>1. events' = events \cup {new} /\ new.id = d
        BY <3>1 DEF Store
      <4>2. QED
        BY <4>1 DEF EventIds
    <3>2. CASE StoreNothing(c)
      BY <3>2 DEF StoreNothing, EventIds
    <3>3. QED
      BY <1>4, <3>1, <3>2
  <2>3. d \notin keys
    BY <2>1 DEF ClaimsAreApart
  <2>4. ClaimsAreApart'
    BY <2>1 DEF ClaimsAreApart, InFlight, TypeOK
  <2>5. AloneIsOrderly'
    BY <2>1, <2>2, <2>3 DEF AloneIsOrderly, Sweeping, sweepVars, pastVars
  <2>6. KeysFollowEvents'
    BY <2>1, <2>2 DEF KeysFollowEvents, sweepVars, pastVars
  <2>7. QED
    BY <2>4, <2>5, <2>6
<1>5. QED
  BY <1>2, <1>3, <1>4 DEF CallStep

(* A sweep that goes on to its next stage holds nothing. *)
LEMMA NextStageRests ==
    ASSUME TypeOK, NEW s \in Sweeps, NextStage(s), Sweeping(s)
    PROVE  /\ todo' = [todo EXCEPT ![s] = {}]
           /\ \A o \in Sweeps \ {s} : /\ step'[o] = step[o]
                                      /\ chunk'[o] = chunk[o]
                                      /\ stage'[o] = stage[o]
           /\ step'[s] # "keys"
           /\ ~Sweeping(s)' => step'[s] = "delete"
BY DEF NextStage, TypeOK, Sweeping, Environments

(* Steps of a sweep that leave keys, events and history alone, and do not  *)
(* stand before a deletion of keys, neither before nor after.              *)
LEMMA QuietStep ==
    ASSUME KeyInv, NEW s \in Sweeps,
           UNCHANGED <<keys, events, stranded, overlapped>>,
           step[s] # "keys", step'[s] # "keys",
           \/ todo'[s] = {}
           \/ stage'[s] = "production" /\ todo'[s] \subseteq EventIds,
           ~Sweeping(s)' => step'[s] = "delete",
           Sweeping(s),
           \A o \in Sweeps \ {s} : /\ step'[o] = step[o]
                                   /\ chunk'[o] = chunk[o]
                                   /\ todo'[o] = todo[o]
                                   /\ stage'[o] = stage[o]
    PROVE  SweepsRest' /\ AloneIsOrderly' /\ KeysFollowEvents'
<1> USE DEF KeyInv
<1>1. EventIds' = EventIds
  BY DEF EventIds
<1>2. \A o \in Sweeps \ {s} : Sweeping(o)' <=> Sweeping(o)
  BY DEF Sweeping
<1>3. SweepsRest'
  BY <1>2 DEF SweepsRest
<1>4. AloneIsOrderly'
  BY <1>1, <1>2 DEF AloneIsOrderly
<1>5. KeysFollowEvents'
  BY <1>1 DEF KeysFollowEvents
<1>6. QED
  BY <1>3, <1>4, <1>5

(* A sweep deletes the events b and stands before their keys. *)
LEMMA DeletesEvents ==
    ASSUME KeyInv, NEW s \in Sweeps, NEW b,
           Sweeping(s), step[s] = "delete",
           events' = {e \in events : e.id \notin b},
           \/ b \subseteq EventIds /\ todo'[s] = {}
           \/ /\ stage[s] = "production"
              /\ b \subseteq todo[s] /\ todo'[s] = todo[s] \ b,
           chunk' = [chunk EXCEPT ![s] = b],
           step' = [step EXCEPT ![s] = "keys"],
           \A o \in Sweeps \ {s} : todo'[o] = todo[o],
           UNCHANGED <<keys, stage, stranded, overlapped>>
    PROVE  SweepsRest' /\ AloneIsOrderly' /\ KeysFollowEvents'
<1> USE DEF KeyInv
<1>1. EventIds' = EventIds \ b
  BY EventsLeft
<1>2. \A o \in Sweeps : Sweeping(o)' <=> Sweeping(o)
  BY DEF Sweeping
<1>3. /\ step'[s] = "keys" /\ chunk'[s] = b
      /\ \A o \in Sweeps \ {s} : step'[o] = step[o] /\ chunk'[o] = chunk[o]
  BY DEF TypeOK
<1>4. SweepsRest'
  BY <1>2, <1>3 DEF SweepsRest
<1>5. AloneIsOrderly'
  <2>1. SUFFICES ASSUME ~overlapped PROVE AloneIsOrderly'
    BY DEF AloneIsOrderly
  <2>2. b \subseteq EventIds /\ todo'[s] \subseteq EventIds \ b
    BY <2>1 DEF AloneIsOrderly
  <2>3. b \subseteq keys
    BY <2>1, <2>2 DEF KeysFollowEvents
  <2>4. \A o \in Sweeps : Sweeping(o) => o = s
    BY <2>1 DEF AloneIsOrderly
  <2>5. QED
    BY <1>1, <1>2, <1>3, <2>2, <2>3, <2>4 DEF AloneIsOrderly
<1>6. KeysFollowEvents'
  BY <1>1, <1>3 DEF KeysFollowEvents
<1>7. QED
  BY <1>4, <1>5, <1>6

(* A sweep leaves the statement that deletes keys, by it or by a failure,  *)
(* or fails at another statement.                                          *)
LEMMA LeavesKeys ==
    ASSUME KeyInv, NEW s \in Sweeps, Sweeping(s),
           UNCHANGED <<events, overlapped>>,
           step'[s] # "keys",
           keys' \subseteq keys, stranded \subseteq stranded',
           keys \ keys' \subseteq chunk[s],
           keys = keys' \/ step[s] = "keys",
           step[s] = "keys" => keys' \cap chunk[s] \subseteq stranded',
           todo'[s] \subseteq todo[s],
           ~Sweeping(s)' => step'[s] = "delete",
           stage'[s] # "production" => todo'[s] = {},
           \A o \in Sweeps \ {s} : /\ step'[o] = step[o]
                                   /\ chunk'[o] = chunk[o]
                                   /\ todo'[o] = todo[o]
                                   /\ stage'[o] = stage[o]
    PROVE  SweepsRest' /\ AloneIsOrderly' /\ KeysFollowEvents'
<1> USE DEF KeyInv
<1>1. EventIds' = EventIds
  BY DEF EventIds
<1>2. \A o \in Sweeps \ {s} : Sweeping(o)' <=> Sweeping(o)
  BY DEF Sweeping
<1>3. SweepsRest'
  BY <1>2 DEF SweepsRest
<1>4. AloneIsOrderly'
  <2>1. SUFFICES ASSUME ~overlapped PROVE AloneIsOrderly'
    BY DEF AloneIsOrderly
  <2>2. \A o \in Sweeps : Sweeping(o) => o = s
    BY <2>1 DEF AloneIsOrderly
  <2>3. todo[s] \subseteq EventIds
    BY <2>1 DEF AloneIsOrderly
  <2>4. QED
    BY <1>1, <1>2, <2>2, <2>3 DEF AloneIsOrderly
<1>5. KeysFollowEvents'
  <2>1. ASSUME NEW d \in keys' \ EventIds'
        PROVE  \/ d \in stranded'
               \/ \E o \in Sweeps : step'[o] = "keys" /\ d \in chunk'[o]
    BY <1>1, <2>1 DEF KeysFollowEvents
  <2>2. ASSUME ~overlapped
        PROVE  EventIds' \subseteq keys'
    BY <1>1, <2>2 DEF KeysFollowEvents, AloneIsOrderly
  <2>3. QED
    BY <2>1, <2>2 DEF KeysFollowEvents
<1>6. QED
  BY <1>3, <1>4, <1>5

LEMMA SweepKeepsKeys ==
    ASSUME KeyInv, NEW s \in Sweeps, SweepStep(s)
    PROVE  SweepsRest' /\ AloneIsOrderly' /\ KeysFollowEvents'
<1> USE DEF KeyInv
<1> DEFINE Others == \A o \in Sweeps \ {s} : /\ step'[o] = step[o]
                                             /\ chunk'[o] = chunk[o]
                                             /\ todo'[o] = todo[o]
                                             /\ stage'[o] = stage[o]
<1>1. ASSUME StartSweep(s)
      PROVE  SweepsRest' /\ AloneIsOrderly' /\ KeysFollowEvents'
  <2>1. /\ stage[s] = "idle" /\ stage' = [stage EXCEPT ![s] = "staging"]
        /\ overlapped' = (overlapped \/ \E o \in Sweeps : Sweeping(o))
        /\ UNCHANGED <<step, todo, chunk, keys, events, stranded>>
    BY <1>1 DEF StartSweep, ledgerVars
  <2>2. ~Sweeping(s)
    BY <2>1 DEF Sweeping, Environments
  <2>3. \A o \in Sweeps : Sweeping(o)' <=> Sweeping(o) \/ o = s
    BY <2>1 DEF Sweeping, Environments, TypeOK
  <2>4. step[s] = "delete" /\ todo[s] = {}
    BY <2>1, <2>2 DEF SweepsRest
  <2>5. EventIds' = EventIds
    BY <2>1 DEF EventIds
  <2>6. SweepsRest'
    BY <2>1, <2>3 DEF SweepsRest
  <2>7. AloneIsOrderly'
    BY <2>1, <2>3, <2>4, <2>5 DEF AloneIsOrderly
  <2>8. KeysFollowEvents'
    BY <2>1, <2>5 DEF KeysFollowEvents
  <2>9. QED
    BY <2>6, <2>7, <2>8
<1>2. ASSUME DeleteBatch(s)
      PROVE  SweepsRest' /\ AloneIsOrderly' /\ KeysFollowEvents'
  <2>1. PICK b \in SUBSET {d \in EventIds : EnvOf[d] = stage[s]} :
          /\ events' = {e \in events : e.id \notin b}
          /\ IF b = {}
               THEN NextStage(s)
               ELSE /\ chunk' = [chunk EXCEPT ![s] = b]
                    /\ GoTo(s, "keys")
                    /\ UNCHANGED todo
    BY <1>2 DEF DeleteBatch
  <2>2. /\ Sweeping(s) /\ step[s] = "delete" /\ stage[s] # "production"
        /\ UNCHANGED <<keys, stranded, overlapped>>
    BY <1>2 DEF DeleteBatch, Sweeping, Environments, pastVars
  <2>3. CASE b = {}
    <3>1. events' = events
      BY <2>1, <2>3
    <3>2. NextStage(s)
      BY <2>1, <2>3
    <3>3. /\ todo'[s] = {} /\ step'[s] # "keys"
          /\ ~Sweeping(s)' => step'[s] = "delete"
          /\ Others
      BY <2>2, <3>2, NextStageRests DEF TypeOK
    <3>4. QED
      BY <2>2, <3>1, <3>3, QuietStep
  <2>4. CASE b # {}
    <3>0. todo[s] = {}
      BY <2>2 DEF SweepsRest
    <3>1. /\ chunk' = [chunk EXCEPT ![s] = b]
          /\ step' = [step EXCEPT ![s] = "keys"]
          /\ UNCHANGED <<stage, todo>>
      BY <2>1, <2>4 DEF GoTo
    <3>2. b \subseteq EventIds
      OBVIOUS
    <3>3. events' = {e \in events : e.id \notin b}
      BY <2>1
    <3>4. QED
      BY <2>2, <3>0, <3>1, <3>2, <3>3, DeletesEvents
  <2>5. QED
    BY <2>3, <2>4
<1>3. ASSUME SelectExpired(s)
      PROVE  SweepsRest' /\ AloneIsOrderly' /\ KeysFollowEvents'
  <2>1. PICK b \in SUBSET {d \in EventIds : EnvOf[d] = "production"} :
          IF b = {}
            THEN NextStage(s)
            ELSE /\ todo' = [todo EXCEPT ![s] = b]
                 /\ GoTo(s, "archive")
                 /\ UNCHANGED chunk
    BY <1>3 DEF SelectExpired
  <2>2. /\ stage[s] = "production" /\ Sweeping(s) /\ step[s] = "select"
        /\ UNCHANGED <<keys, events, stranded, overlapped>>
    BY <1>3 DEF SelectExpired, Sweeping, Environments, ledgerVars, pastVars
  <2>3. CASE b = {}
    <3>1. NextStage(s)
      BY <2>1, <2>3
    <3>2. /\ todo'[s] = {} /\ step'[s] # "keys"
          /\ ~Sweeping(s)' => step'[s] = "delete"
          /\ Others
      BY <2>2, <3>1, NextStageRests DEF TypeOK
    <3>3. QED
      BY <2>2, <3>2, QuietStep
  <2>4. CASE b # {}
    <3>1. /\ todo' = [todo EXCEPT ![s] = b]
          /\ step' = [step EXCEPT ![s] = "archive"]
          /\ UNCHANGED <<stage, chunk>>
      BY <2>1, <2>4 DEF GoTo
    <3>2. /\ stage'[s] = "production" /\ todo'[s] \subseteq EventIds
          /\ Sweeping(s)' /\ step'[s] # "keys"
          /\ Others
      BY <2>2, <3>1 DEF Sweeping, TypeOK
    <3>3. QED
      BY <2>2, <3>2, QuietStep
  <2>5. QED
    BY <2>3, <2>4
<1>4. ASSUME Archive(s) \/ ArchiveFails(s) \/ DeleteChunkFails(s)
      PROVE  SweepsRest' /\ AloneIsOrderly' /\ KeysFollowEvents'
  <2>1. /\ stage[s] = "production" /\ Sweeping(s) /\ step[s] # "keys"
        /\ UNCHANGED <<keys, events, stranded, overlapped>>
    BY <1>4 DEF Archive, ArchiveFails, DeleteChunkFails, Sweeping,
                Environments, ledgerVars, pastVars
  <2>2. step'[s] # "keys" /\ Others /\ (~Sweeping(s)' => step'[s] = "delete")
    <3>1. CASE ArchiveFails(s)
      BY <2>1, <3>1, NextStageRests DEF ArchiveFails, TypeOK
    <3>2. CASE Archive(s) \/ DeleteChunkFails(s)
      BY <2>1, <3>2 DEF Archive, DeleteChunkFails, GoTo, Sweeping, TypeOK
    <3>3. QED
      BY <1>4, <3>1, <3>2
  <2>3. todo'[s] \subseteq todo[s] /\ (stage'[s] # "production" => todo'[s] = {})
    <3>1. CASE ArchiveFails(s)
      BY <2>1, <3>1, NextStageRests DEF ArchiveFails, TypeOK
    <3>2. CASE Archive(s)
      BY <2>1, <3>2 DEF Archive, GoTo
    <3>3. CASE DeleteChunkFails(s)
      BY <2>1, <3>3 DEF DeleteChunkFails, TypeOK
    <3>4. QED
      BY <1>4, <3>1, <3>2, <3>3
  <2>4. QED
    BY <2>1, <2>2, <2>3, LeavesKeys
<1>5. ASSUME DeleteChunk(s)
      PROVE  SweepsRest' /\ AloneIsOrderly' /\ KeysFollowEvents'
  <2>1. PICK b \in SUBSET todo[s] :
          /\ events' = {e \in events : e.id \notin b}
          /\ chunk' = [chunk EXCEPT ![s] = b]
          /\ todo' = [todo EXCEPT ![s] = @ \ b]
    BY <1>5 DEF DeleteChunk
  <2>2. /\ stage[s] = "production" /\ Sweeping(s) /\ step[s] = "delete"
        /\ step' = [step EXCEPT ![s] = "keys"]
        /\ UNCHANGED <<keys, stage, stranded, overlapped>>
    BY <1>5 DEF DeleteChunk, GoTo, Sweeping, Environments, pastVars
  <2>3. /\ todo'[s] = todo[s] \ b
        /\ \A o \in Sweeps \ {s} : todo'[o] = todo[o]
    BY <2>1 DEF TypeOK
  <2>4. QED
    BY <2>1, <2>2, <2>3, DeletesEvents
<1>6. ASSUME DeleteKeys(s) \/ DeleteKeysFails(s)
      PROVE  SweepsRest' /\ AloneIsOrderly' /\ KeysFollowEvents'
  <2>1. /\ Sweeping(s) /\ step[s] = "keys"
        /\ step' = [step EXCEPT ![s] = AfterKeys(s)]
        /\ chunk' = [chunk EXCEPT ![s] = {}]
        /\ UNCHANGED <<events, overlapped, stage, todo>>
    BY <1>6 DEF DeleteKeys, DeleteKeysFails, GoTo, Sweeping, Environments,
                ledgerVars, pastVars
  <2>2. AfterKeys(s) \in {"delete", "discount"}
    BY DEF AfterKeys
  <2>3. /\ step'[s] # "keys" /\ Others
        /\ Sweeping(s)'
        /\ stage'[s] # "production" => todo'[s] = {}
    BY <2>1, <2>2 DEF Sweeping, SweepsRest, TypeOK
  <2>4. /\ keys' \subseteq keys /\ stranded \subseteq stranded'
        /\ keys \ keys' \subseteq chunk[s]
        /\ keys' \cap chunk[s] \subseteq stranded'
    BY <1>6 DEF DeleteKeys, DeleteKeysFails, ledgerVars, pastVars
  <2>5. QED
    BY <2>1, <2>3, <2>4, LeavesKeys
<1>7. ASSUME Discount(s)
      PROVE  SweepsRest' /\ AloneIsOrderly' /\ KeysFollowEvents'
  <2>1. /\ Sweeping(s) /\ step[s] = "discount"
        /\ UNCHANGED <<keys, events, stranded, overlapped>>
        /\ EndRound(s)
    BY <1>7 DEF Discount, ledgerVars, pastVars
  <2>2. CASE NextStage(s)
    <3>1. /\ todo'[s] = {} /\ step'[s] # "keys"
          /\ ~Sweeping(s)' => step'[s] = "delete"
          /\ Others
      BY <2>1, <2>2, NextStageRests DEF TypeOK
    <3>2. QED
      BY <2>1, <3>1, QuietStep
  <2>3. CASE ~NextStage(s)
    <3>1. /\ stage[s] # "production"
          /\ step' = [step EXCEPT ![s] = "delete"]
          /\ UNCHANGED <<stage, todo, chunk>>
      BY <2>1, <2>3 DEF EndRound, GoTo
    <3>2. todo'[s] = {} /\ step'[s] = "delete" /\ Others
      BY <3>1 DEF SweepsRest, TypeOK
    <3>3. QED
      BY <2>1, <3>2, QuietStep
  <2>4. QED
    BY <2>2, <2>3
<1>8. ASSUME SweepFails(s)
      PROVE  SweepsRest' /\ AloneIsOrderly' /\ KeysFollowEvents'
  <2>1. /\ Sweeping(s)
        /\ stage' = [stage EXCEPT ![s] = "done"]
        /\ step' = [step EXCEPT ![s] = "delete"]
        /\ todo' = [todo EXCEPT ![s] = {}]
        /\ chunk' = [chunk EXCEPT ![s] = {}]
        /\ stranded' = IF step[s] = "keys"
                         THEN stranded \cup (chunk[s] \cap keys) ELSE stranded
        /\ UNCHANGED <<keys, events, overlapped>>
    BY <1>8 DEF SweepFails, ledgerVars
  <2>2. todo'[s] = {} /\ step'[s] = "delete" /\ Others
    BY <2>1 DEF TypeOK
  <2>3. /\ stranded \subseteq stranded'
        /\ step[s] = "keys" => keys' \cap chunk[s] \subseteq stranded'
    BY <2>1
  <2>4. QED
    BY <2>1, <2>2, <2>3, LeavesKeys
<1>9. QED
  BY <1>1, <1>2, <1>3, <1>4, <1>5, <1>6, <1>7, <1>8 DEF SweepStep

LEMMA PruneKeepsKeys ==
    ASSUME KeyInv, NEW b \in SUBSET Ids, WebPrune(b)
    PROVE  SweepsRest' /\ AloneIsOrderly' /\ KeysFollowEvents'
<1> USE DEF KeyInv
<1>1. EventIds' = EventIds \ b
  BY EventsLeft DEF WebPrune
<1>2. /\ keys' = keys \ (b \cap EventIds)
      /\ overlapped' = (overlapped \/ \E s \in Sweeps : Sweeping(s))
      /\ UNCHANGED <<stage, step, todo, chunk, stranded>>
  BY DEF WebPrune, sweepVars
<1>3. \A s \in Sweeps : Sweeping(s)' <=> Sweeping(s)
  BY <1>2 DEF Sweeping
<1>4. SweepsRest' /\ AloneIsOrderly'
  BY <1>2, <1>3 DEF SweepsRest, AloneIsOrderly
<1>5. KeysFollowEvents'
  BY <1>1, <1>2 DEF KeysFollowEvents
<1>6. QED
  BY <1>4, <1>5

LEMMA KeyInductive ==
    ASSUME KeyInv, [Next]_vars
    PROVE  KeyInv'
<1> USE DEF KeyInv
<1>1. TypeOK'
  BY TypeInductive
<1>2. ASSUME NEW c \in Calls, CallStep(c)
      PROVE  KeyInv'
  <2>1. UNCHANGED sweepVars
    BY <1>2 DEF CallStep, ClaimKey, LockHead, Store, StoreNothing, IngestFails
  <2>2. SweepsRest'
    BY <2>1 DEF SweepsRest, Sweeping, sweepVars
  <2>3. QED
    BY <1>1, <1>2, <2>2, CallKeepsKeys
<1>3. CASE \/ \E s \in Sweeps : SweepStep(s)
           \/ \E b \in SUBSET Ids : WebPrune(b)
           \/ \E a \in Audits : AuditStep(a)
           \/ NewPeriod
           \/ UNCHANGED vars
  <2>1. ClaimsAreApart'
    BY <1>3, OthersOnlyDelete DEF ClaimsAreApart
  <2>2. ASSUME UNCHANGED <<keys, events, sweepVars, pastVars>>
        PROVE  SweepsRest' /\ AloneIsOrderly' /\ KeysFollowEvents'
    BY <2>2 DEF SweepsRest, AloneIsOrderly, KeysFollowEvents, EventIds,
                Sweeping, sweepVars, pastVars
  <2>3. ASSUME NEW a \in Audits, AuditStep(a)
        PROVE  UNCHANGED <<keys, events, sweepVars, pastVars>>
    BY <2>3 DEF AuditStep, Measure, Apply, ApplyFails, ledgerVars
  <2>4. ASSUME NewPeriod \/ UNCHANGED vars
        PROVE  UNCHANGED <<keys, events, sweepVars, pastVars>>
    BY <2>4 DEF NewPeriod, vars, ledgerVars, sweepVars, pastVars
  <2>5. SweepsRest' /\ AloneIsOrderly' /\ KeysFollowEvents'
    BY <1>3, <2>2, <2>3, <2>4, SweepKeepsKeys, PruneKeepsKeys
  <2>6. QED
    BY <1>1, <2>1, <2>5
<1>4. QED
  BY <1>2, <1>3 DEF Next

LEMMA KeyInit == Init => KeyInv
<1> SUFFICES ASSUME Init PROVE KeyInv
  OBVIOUS
<1>1. TypeOK
  BY ChainInit DEF ChainInv
<1>2. \A s \in Sweeps : ~Sweeping(s)
  BY DEF Init, Sweeping, Environments
<1>3. ClaimsAreApart /\ SweepsRest /\ AloneIsOrderly
  BY <1>2 DEF Init, ClaimsAreApart, SweepsRest, AloneIsOrderly, InFlight
<1>4. KeysFollowEvents
  BY DEF Init, KeysFollowEvents, EventIds
<1>5. QED
  BY <1>1, <1>3, <1>4 DEF KeyInv

(* In every reachable state a key without an event is one a sweep is about *)
(* to delete or one a failed sweep left (jobs_retention.go:436), and no    *)
(* event is without its key unless two deleters have worked at once.       *)
THEOREM KeyTheorem == Spec => []KeysFollowEvents
<1>1. KeyInv /\ [Next]_vars => KeyInv'
  BY KeyInductive
<1>2. KeyInv => KeysFollowEvents
  BY DEF KeyInv
<1>3. QED
  BY KeyInit, <1>1, <1>2, PTL DEF Spec

-----------------------------------------------------------------------------
(* The notice about a month over its capacity *)

(* Audits of one ticker follow one another, so the one there is has        *)
(* measured a month that nobody told the tenant about since.               *)
NoticeInv ==
    /\ TypeOK
    /\ \A m \in Periods :
          /\ notices[m] <= 1
          /\ ~notified[m] => notices[m] = 0
    /\ \A a \in Audits :
          sample[a] # None /\ ~sample[a].told =>
              ~notified[sample[a].month]

LEMMA NoticeInductive ==
    ASSUME \A a, b \in Audits : a = b, NoticeInv, [Next]_vars
    PROVE  NoticeInv'
<1> USE DEF NoticeInv
<1>1. TypeOK'
  BY TypeInductive
<1>2. ASSUME UNCHANGED <<notified, notices, sample>>
      PROVE  NoticeInv'
  BY <1>1, <1>2
<1>3. ASSUME NEW c \in Calls, CallStep(c)
      PROVE  UNCHANGED <<notified, notices, sample>>
  BY <1>3 DEF CallStep, ClaimKey, LockHead, Store, StoreNothing, IngestFails,
              usageVars
<1>4. ASSUME NEW s \in Sweeps, SweepStep(s)
      PROVE  UNCHANGED <<notified, notices, sample>>
  BY <1>4 DEF SweepStep, StartSweep, DeleteBatch, SelectExpired, Archive,
     ArchiveFails, DeleteChunk, DeleteChunkFails, DeleteKeys, DeleteKeysFails,
     Discount, SweepFails, usageVars
<1>5. ASSUME NEW b \in SUBSET Ids, WebPrune(b)
      PROVE  UNCHANGED <<notified, notices, sample>>
  BY <1>5 DEF WebPrune
<1>6. ASSUME NEW a \in Audits, Measure(a)
      PROVE  NoticeInv'
  <2>1. /\ sample'[a].month = period
        /\ sample'[a].told = notified[period]
        /\ \A o \in Audits : o = a
        /\ UNCHANGED <<notified, notices>>
    BY <1>6 DEF Measure, usageVars, TypeOK
  <2>2. QED
    BY <1>1, <2>1
<1>7. ASSUME NEW a \in Audits, Apply(a)
      PROVE  NoticeInv'
  <2> DEFINE m == sample[a].month
  <2>1. sample[a] # None /\ m \in Periods
    BY <1>7 DEF Apply, TypeOK, Measurements
  <2>2. \A o \in Audits : sample'[o] = None
    BY <1>7 DEF Apply, TypeOK
  <2>3. \/ UNCHANGED <<notices, notified>>
        \/ /\ ~sample[a].told
           /\ notices' = [notices EXCEPT ![m] = @ + 1]
           /\ notified' = [notified EXCEPT ![m] = TRUE]
    BY <1>7 DEF Apply
  <2>4. \A n \in Periods :
            notices'[n] <= 1 /\ (~notified'[n] => notices'[n] = 0)
    <3>1. CASE UNCHANGED <<notices, notified>>
      BY <3>1
    <3>2. CASE /\ ~sample[a].told
               /\ notices' = [notices EXCEPT ![m] = @ + 1]
               /\ notified' = [notified EXCEPT ![m] = TRUE]
      <4>1. notices[m] = 0
        BY <2>1, <3>2
      <4>2. /\ notices \in [Periods -> Nat]
            /\ notified \in [Periods -> BOOLEAN]
        BY DEF TypeOK
      <4>3. notices'[m] = 1 /\ notified'[m]
        BY <2>1, <3>2, <4>1, <4>2
      <4>4. \A n \in Periods \ {m} :
                notices'[n] = notices[n] /\ notified'[n] = notified[n]
        BY <3>2, <4>2
      <4>5. QED
        BY <4>3, <4>4
    <3>3. QED
      BY <2>3, <3>1, <3>2
  <2>5. QED
    BY <1>1, <2>2, <2>4
<1>8. ASSUME NEW a \in Audits, ApplyFails(a)
      PROVE  NoticeInv'
  BY <1>1, <1>8 DEF ApplyFails, usageVars, TypeOK
<1>9. ASSUME NewPeriod \/ UNCHANGED vars
      PROVE  UNCHANGED <<notified, notices, sample>>
  BY <1>9 DEF NewPeriod, vars
<1>10. QED
  BY <1>2, <1>3, <1>4, <1>5, <1>6, <1>7, <1>8, <1>9 DEF Next, AuditStep

(* With audits that follow one another, as a ticker's do, a tenant is told *)
(* at most once that a month is over its capacity, however often audits    *)
(* fail or find it so again (jobs_usage_reconcile.go).                     *)
THEOREM NoticeTheorem ==
    ASSUME \A a, b \in Audits : a = b
    PROVE  Spec => []ToldOncePerMonth
<1>1. Init => NoticeInv
  BY ChainInit DEF Init, ChainInv, NoticeInv
<1>2. NoticeInv /\ [Next]_vars => NoticeInv'
  BY NoticeInductive
<1>3. NoticeInv => ToldOncePerMonth
  BY DEF NoticeInv, ToldOncePerMonth
<1>4. QED
  BY <1>1, <1>2, <1>3, PTL DEF Spec

-----------------------------------------------------------------------------
(* Sums over a table.  The folds of the library are defined by recursion   *)
(* over the subsets of a finite set; the induction is one over sets.       *)

(* The element a fold takes from a set next. *)
Chosen(s) == CHOOSE x \in s : TRUE

(* Sums of f, for any subset of S: 0, and one element after the other. *)
Sums(f, S, h) ==
    h = [s \in SUBSET S |->
            IF s = {} THEN 0 ELSE f[Chosen(s)] + h[s \ {Chosen(s)}]]

(* SumFunctionOnSet is defined by such sums. *)
LEMMA SumUnfolded ==
    ASSUME NEW f, NEW S
    PROVE  SumFunctionOnSet(f, S) = (CHOOSE h : Sums(f, S, h))[S]
BY Zenon DEF SumFunctionOnSet, FoldFunctionOnSet, MapThenFoldSet, Sums, Chosen

(* A set of naturals has a least element. *)
LEMMA LeastNat ==
    ASSUME NEW T \in SUBSET Nat, T # {}
    PROVE  \E n \in T : \A k \in T : n <= k
<1> DEFINE R == OpToRel(<, Nat)
<1>1. \A k, n \in Nat : k < n => <<k, n>> \in R
  <2>1. TAKE k, n \in Nat
  <2>2. HAVE k < n
  <2>3. <<k, n>> \in Nat \X Nat /\ <<k, n>>[1] = k /\ <<k, n>>[2] = n
    OBVIOUS
  <2>4. <<k, n>>[1] < <<k, n>>[2]
    BY <2>2, <2>3
  <2>5. QED
    BY <2>3, <2>4, Zenon DEF OpToRel
<1>2. IsWellFoundedOn(R, Nat)
  BY NatLessThanWellFounded, Zenon
<1> HIDE DEF R
<1>3. PICK n \in T : \A k \in T : ~(<<k, n>> \in R)
  BY <1>2, WFMin
<1>4. \A k \in T : n <= k
  <2>1. TAKE k \in T
  <2>2. ~(k < n)
    BY <1>1, <1>3
  <2>3. QED
    BY <2>2
<1>5. QED
  BY <1>4

(* Induction over the naturals, for a set. *)
LEMMA NatSetInduction ==
    ASSUME NEW G, 0 \in G, \A n \in Nat : n \in G => n + 1 \in G
    PROVE  Nat \subseteq G
<1> SUFFICES ASSUME Nat \ G # {} PROVE FALSE
  OBVIOUS
<1>1. PICK n \in Nat \ G : \A k \in Nat \ G : n <= k
  BY LeastNat
<1>2. n # 0
  BY <1>1
<1>3. n - 1 \in Nat /\ ~(n <= n - 1)
  BY <1>2
<1>4. n - 1 \in G
  BY <1>1, <1>3
<1>5. (n - 1) + 1 \in G
  BY <1>3, <1>4
<1>6. QED
  BY <1>1, <1>5

(* A set that is not empty has one element more than without the one *)
(* chosen from it. *)
LEMMA OneLess ==
    ASSUME NEW S, IsFiniteSet(S), NEW s \in SUBSET S, s # {}
    PROVE  /\ Chosen(s) \in s
           /\ s \ {Chosen(s)} \in SUBSET S
           /\ Cardinality(s) \in Nat
           /\ Cardinality(s \ {Chosen(s)}) = Cardinality(s) - 1
           /\ Cardinality(s) - 1 \in Nat
<1>1. Chosen(s) \in s
  BY Zenon DEF Chosen
<1>2. IsFiniteSet(s)
  BY FS_Subset
<1>3. Cardinality(s) \in Nat /\ Cardinality(s) # 0
  BY <1>2, FS_CardinalityType, FS_EmptySet
<1>4. Cardinality(s \ {Chosen(s)}) = Cardinality(s) - 1
  BY <1>1, <1>2, FS_RemoveElement
<1>5. QED
  BY <1>1, <1>3, <1>4

(* Induction over the subsets of a finite set, for a set of them. *)
LEMMA SubsetInduction ==
    ASSUME NEW S, IsFiniteSet(S), NEW G, {} \in G,
           \A s \in SUBSET S : s # {} /\ s \ {Chosen(s)} \in G => s \in G
    PROVE  SUBSET S \subseteq G
<1> SUFFICES ASSUME NEW bad \in SUBSET S, bad \notin G PROVE FALSE
  OBVIOUS
<1> DEFINE T == {Cardinality(s) : s \in (SUBSET S) \ G}
<1>1. \A s \in SUBSET S : IsFiniteSet(s) /\ Cardinality(s) \in Nat
  BY FS_Subset, FS_CardinalityType
<1>2. T \subseteq Nat /\ T # {}
  BY <1>1
<1>3. PICK n \in T : \A k \in T : n <= k
  BY <1>2, LeastNat
<1>4. PICK s \in (SUBSET S) \ G : n = Cardinality(s)
  OBVIOUS
<1>5. s # {}
  OBVIOUS
<1> DEFINE r == s \ {Chosen(s)}
<1>6. r \in SUBSET S /\ Cardinality(r) = n - 1 /\ n \in Nat
  BY <1>4, <1>5, OneLess
<1>7. r \in G
  <2>1. SUFFICES ASSUME r \notin G PROVE FALSE
    OBVIOUS
  <2>2. Cardinality(r) \in T
    BY <1>6, <2>1
  <2> HIDE DEF T, r
  <2>3. n <= n - 1
    BY <1>3, <1>6, <2>2
  <2>4. QED
    BY <1>6, <2>3
<1>8. QED
  BY <1>4, <1>5, <1>7

(* Sums exist, and are integers. *)
LEMMA SumsExist ==
    ASSUME NEW S, IsFiniteSet(S), NEW f \in [S -> Int]
    PROVE  \E h \in [SUBSET S -> Int] : Sums(f, S, h)
<1> DEFINE Small(n) == {s \in SUBSET S : Cardinality(s) <= n}
           Next1(h, s) == IF s = {} THEN 0
                          ELSE f[Chosen(s)] + h[s \ {Chosen(s)}]
           Good(n, h) == h \in [Small(n) -> Int]
                         /\ \A s \in Small(n) : h[s] = Next1(h, s)
           G == {n \in Nat : \E h : Good(n, h)}
<1>0. \A s \in SUBSET S : IsFiniteSet(s) /\ Cardinality(s) \in Nat
  BY FS_Subset, FS_CardinalityType
<1>1. 0 \in G
  <2> DEFINE h == [s \in Small(0) |-> 0]
  <2>1. \A s \in Small(0) : s = {}
    BY <1>0, FS_EmptySet
  <2>2. Good(0, h)
    BY <2>1
  <2>3. QED
    BY <2>2
<1>2. ASSUME NEW n \in Nat, n \in G
      PROVE  n + 1 \in G
  <2>1. PICK h : Good(n, h)
    BY <1>2
  <2> DEFINE g == [s \in Small(n + 1) |-> Next1(h, s)]
  <2>2. ASSUME NEW s \in Small(n + 1), s # {}
        PROVE  Chosen(s) \in S /\ s \ {Chosen(s)} \in Small(n)
    BY <2>2, OneLess
  <2>3. \A s \in Small(n) : s \in Small(n + 1)
    BY <1>0
  <2>4. \A s \in Small(n) : g[s] = h[s]
    BY <2>1, <2>3
  <2>5. \A s \in Small(n + 1) : g[s] \in Int /\ g[s] = Next1(g, s)
    <3>1. TAKE s \in Small(n + 1)
    <3>2. CASE s = {}
      BY <3>2
    <3>3. CASE s # {}
      <4>1. Chosen(s) \in S /\ s \ {Chosen(s)} \in Small(n)
        BY <2>2, <3>3
      <4>2. /\ f[Chosen(s)] \in Int
            /\ h[s \ {Chosen(s)}] \in Int
            /\ g[s \ {Chosen(s)}] = h[s \ {Chosen(s)}]
        BY <2>1, <2>4, <4>1
      <4>3. QED
        BY <3>3, <4>2
    <3>4. QED
      BY <3>2, <3>3
  <2>6. Good(n + 1, g)
    BY <2>5
  <2> HIDE DEF Good
  <2>7. \E k : Good(n + 1, k)
    BY <2>6, Zenon
  <2>8. QED
    BY <2>7
<1>3. Cardinality(S) \in G
  <2> HIDE DEF G
  <2>1. Nat \subseteq G
    BY <1>1, <1>2, NatSetInduction
  <2>2. QED
    BY <1>0, <2>1
<1>4. PICK h : Good(Cardinality(S), h)
  BY <1>3
<1>5. Small(Cardinality(S)) = SUBSET S
  BY <1>0, FS_Subset
<1>6. h \in [SUBSET S -> Int] /\ \A s \in SUBSET S : h[s] = Next1(h, s)
  BY <1>4, <1>5
<1>7. Sums(f, S, h)
  BY <1>6 DEF Sums
<1>8. QED
  BY <1>6, <1>7

(* Sums of f with the sum of f among them. *)
SumsTo(f, S, h) ==
    /\ h \in [SUBSET S -> Int]
    /\ SumFunction(f) = h[S]
    /\ h[{}] = 0
    /\ \A s \in SUBSET S : s # {} =>
          h[s] = f[Chosen(s)] + h[s \ {Chosen(s)}]

(* So a sum is one of sums of integers. *)
LEMMA SumIsSums ==
    ASSUME NEW S, IsFiniteSet(S), NEW f \in [S -> Int]
    PROVE  \E h : SumsTo(f, S, h)
<1> DEFINE h == CHOOSE g : Sums(f, S, g)
<1>1. \E g : Sums(f, S, g)
  BY SumsExist
<1>2. Sums(f, S, h)
  BY <1>1, Zenon
<1>3. SumFunction(f) = h[S]
  <2>1. DOMAIN f = S
    OBVIOUS
  <2>2. QED
    BY <2>1, SumUnfolded, Zenon DEF SumFunction
<1> HIDE DEF h
<1>4. /\ DOMAIN h = SUBSET S
      /\ h[{}] = 0
      /\ \A s \in SUBSET S : s # {} =>
            h[s] = f[Chosen(s)] + h[s \ {Chosen(s)}]
  BY <1>2 DEF Sums
<1>5. h = [s \in SUBSET S |-> h[s]]
  BY <1>2, Zenon DEF Sums
<1> DEFINE G == {s \in SUBSET S : h[s] \in Int}
<1>6. SUBSET S \subseteq G
  <2>1. {} \in G
    BY <1>4
  <2>2. \A s \in SUBSET S : s # {} /\ s \ {Chosen(s)} \in G => s \in G
    <3>1. TAKE s \in SUBSET S
    <3>2. HAVE s # {} /\ s \ {Chosen(s)} \in G
    <3>3. f[Chosen(s)] \in Int
      BY <3>2, OneLess
    <3>4. QED
      BY <1>4, <3>2, <3>3
  <2> HIDE DEF G
  <2>3. QED
    BY <2>1, <2>2, SubsetInduction
<1>7. h \in [SUBSET S -> Int]
  BY <1>5, <1>6
<1>8. SumsTo(f, S, h)
  BY <1>3, <1>4, <1>7 DEF SumsTo
<1>9. QED
  BY <1>8, Zenon

(* A sum is an integer, and changes by what one of its values does. *)
LEMMA SumChanges ==
    ASSUME NEW S, IsFiniteSet(S), NEW f \in [S -> Int], NEW m \in S,
           NEW v \in Int
    PROVE  /\ SumFunction(f) \in Int
           /\ SumFunction([f EXCEPT ![m] = v]) = SumFunction(f) + v - f[m]
<1> DEFINE e == [f EXCEPT ![m] = v]
<1>1. e \in [S -> Int] /\ e[m] = v /\ \A x \in S \ {m} : e[x] = f[x]
  OBVIOUS
<1> HIDE DEF e
<1>2. PICK h : SumsTo(f, S, h)
  BY SumIsSums
<1>3. PICK g : SumsTo(e, S, g)
  BY <1>1, SumIsSums
<1> USE DEF SumsTo
<1> DEFINE G == {s \in SUBSET S :
                    g[s] = h[s] + (IF m \in s THEN v - f[m] ELSE 0)}
<1>4. {} \in G
  BY <1>2, <1>3
<1>5. ASSUME NEW s \in SUBSET S, s # {}, s \ {Chosen(s)} \in G
      PROVE  s \in G
  <2> DEFINE x == Chosen(s)
             r == s \ {x}
  <2>1. x \in s /\ r \in SUBSET S
    BY <1>5, OneLess
  <2> HIDE DEF x
  <2>2. /\ h[s] = f[x] + h[r] /\ g[s] = e[x] + g[r]
        /\ g[r] = h[r] + (IF m \in r THEN v - f[m] ELSE 0)
    BY <1>2, <1>3, <1>5 DEF x
  <2>3. /\ h[s] \in Int /\ h[r] \in Int /\ g[s] \in Int /\ g[r] \in Int
        /\ f[x] \in Int /\ f[m] \in Int /\ e[x] \in Int
    <3>1. x \in S /\ s \in SUBSET S
      BY <2>1
    <3>2. h \in [SUBSET S -> Int] /\ g \in [SUBSET S -> Int]
      BY <1>2, <1>3
    <3>3. QED
      BY <1>1, <2>1, <3>1, <3>2
  <2>4. CASE x = m
    BY <1>1, <2>1, <2>2, <2>3, <2>4
  <2>5. CASE x # m
    BY <1>1, <2>1, <2>2, <2>3, <2>5
  <2>6. QED
    BY <2>4, <2>5
<1>6. S \in G
  <2> HIDE DEF G
  <2>1. SUBSET S \subseteq G
    BY <1>4, <1>5, SubsetInduction
  <2>2. QED
    BY <2>1
<1>7. g[S] = h[S] + (v - f[m]) /\ h[S] \in Int /\ f[m] \in Int
  <2>1. h[S] \in Int /\ f[m] \in Int
    BY <1>2
  <2>2. QED
    BY <1>6, <2>1
<1>8. QED
  BY <1>2, <1>3, <1>7 DEF e

(* The sum of zeros. *)
LEMMA SumOfZeros ==
    ASSUME NEW S, IsFiniteSet(S)
    PROVE  SumFunction([x \in S |-> 0]) = 0
<1> DEFINE f == [x \in S |-> 0]
<1>1. f \in [S -> Int] /\ \A x \in S : f[x] = 0
  OBVIOUS
<1> HIDE DEF f
<1>2. PICK h : SumsTo(f, S, h)
  BY <1>1, SumIsSums
<1> USE DEF SumsTo
<1> DEFINE G == {s \in SUBSET S : h[s] = 0}
<1>3. {} \in G
  BY <1>2
<1>4. ASSUME NEW s \in SUBSET S, s # {}, s \ {Chosen(s)} \in G
      PROVE  s \in G
  <2>1. Chosen(s) \in S
    BY <1>4, OneLess
  <2>2. h[s] = f[Chosen(s)] + h[s \ {Chosen(s)}]
    BY <1>2, <1>4
  <2>3. f[Chosen(s)] = 0 /\ h[s \ {Chosen(s)}] = 0
    BY <1>1, <1>4, <2>1
  <2>4. QED
    BY <2>2, <2>3
<1>5. S \in G
  <2> HIDE DEF G
  <2>1. SUBSET S \subseteq G
    BY <1>3, <1>4, SubsetInduction
  <2>2. QED
    BY <2>1
<1>6. QED
  BY <1>2, <1>5 DEF f

(* A sum of naturals is one, and no smaller than any of them. *)
LEMMA SumOfNats ==
    ASSUME NEW S, IsFiniteSet(S), NEW f \in [S -> Nat]
    PROVE  /\ SumFunction(f) \in Nat
           /\ \A m \in S : SumFunction(f) >= f[m]
<1>1. ASSUME NEW e \in [S -> Nat]
      PROVE  SumFunction(e) \in Nat
  <2>1. e \in [S -> Int] /\ \A x \in S : e[x] \in Nat
    OBVIOUS
  <2>2. PICK h : SumsTo(e, S, h)
    BY <2>1, SumIsSums
  <2> USE DEF SumsTo
  <2> DEFINE G == {s \in SUBSET S : h[s] \in Nat}
  <2>3. {} \in G
    BY <2>2
  <2>4. ASSUME NEW s \in SUBSET S, s # {}, s \ {Chosen(s)} \in G
        PROVE  s \in G
    <3>1. Chosen(s) \in S
      BY <2>4, OneLess
    <3>2. h[s] = e[Chosen(s)] + h[s \ {Chosen(s)}]
      BY <2>2, <2>4
    <3>3. e[Chosen(s)] \in Nat /\ h[s \ {Chosen(s)}] \in Nat
      BY <2>1, <2>4, <3>1
    <3>4. QED
      BY <3>2, <3>3
  <2>5. S \in G
    <3> HIDE DEF G
    <3>1. SUBSET S \subseteq G
      BY <2>3, <2>4, SubsetInduction
    <3>2. QED
      BY <3>1
  <2>6. QED
    BY <2>2, <2>5
<1>2. ASSUME NEW m \in S
      PROVE  SumFunction(f) >= f[m]
  <2> DEFINE e == [f EXCEPT ![m] = 0]
  <2>1. e \in [S -> Nat] /\ f \in [S -> Int] /\ f[m] \in Nat
    OBVIOUS
  <2>2. SumFunction(e) = SumFunction(f) + 0 - f[m]
    <3>1. 0 \in Int
      OBVIOUS
    <3>2. QED
      BY <2>1, <3>1, SumChanges, Zenon
  <2> HIDE DEF e
  <2>3. SumFunction(e) \in Nat /\ SumFunction(f) \in Nat
    BY <1>1, <2>1
  <2>4. QED
    BY <2>1, <2>2, <2>3
<1>3. QED
  BY <1>1, <1>2

-----------------------------------------------------------------------------
(* Billing *)

(* Only a transaction that commits an event counts, and it counts one. *)
LEMMA CountMoves ==
    ASSUME TypeOK, HeadIsLocked, [Next]_vars
    PROVE  \/ UNCHANGED <<head, ingested>>
           \/ \E m \in Periods : \E d \in Ids :
                 /\ ingested' = [ingested EXCEPT ![m] = @ + 1]
                 /\ head' = Append(head, d)
<1>1. ASSUME NEW c \in Calls, Store(c)
      PROVE  \E m \in Periods : \E d \in Ids :
                 /\ ingested' = [ingested EXCEPT ![m] = @ + 1]
                 /\ head' = Append(head, d)
  <2>1. /\ subject[c] \in Ids
        /\ head' = Append(head, subject[c])
    BY <1>1 DEF Store, HeadIsLocked, TypeOK, InFlight
  <2>2. PICK m \in Months(c) : CountUsage(m)
    BY <1>1 DEF Store
  <2>3. m \in Periods
    BY SizeAssumption DEF TypeOK, Months, Periods
  <2>4. ingested' = [ingested EXCEPT ![m] = @ + 1]
    BY <2>2 DEF CountUsage
  <2>5. QED
    BY <2>1, <2>3, <2>4
<1>2. ASSUME NEW c \in Calls, CallStep(c), ~Store(c)
      PROVE  UNCHANGED <<head, ingested>>
  BY <1>2 DEF CallStep, ClaimKey, LockHead, StoreNothing, IngestFails,
              ledgerVars, usageVars
<1>3. ASSUME NEW s \in Sweeps, SweepStep(s)
      PROVE  UNCHANGED <<head, ingested>>
  BY <1>3 DEF SweepStep, StartSweep, DeleteBatch, SelectExpired, Archive,
     ArchiveFails, DeleteChunk, DeleteChunkFails, DeleteKeys, DeleteKeysFails,
     Discount, SweepFails, ledgerVars, usageVars
<1>4. ASSUME NEW a \in Audits, AuditStep(a)
      PROVE  UNCHANGED <<head, ingested>>
  BY <1>4 DEF AuditStep, Measure, Apply, ApplyFails, ledgerVars, usageVars
<1>5. ASSUME \/ \E b \in SUBSET Ids : WebPrune(b)
             \/ NewPeriod
             \/ UNCHANGED vars
      PROVE  UNCHANGED <<head, ingested>>
  BY <1>5 DEF WebPrune, NewPeriod, vars, ledgerVars
<1>6. QED
  BY <1>1, <1>2, <1>3, <1>4, <1>5 DEF Next

(* In every reachable state the usage rows count the events that were ever *)
(* committed, each once: the count commits with the event (evidence.go),   *)
(* whatever is retried, rolled back, pruned or audited.                    *)
THEOREM CountTheorem == Spec => []CountedExactlyOnce
<1>1. IsFiniteSet(Periods)
  BY SizeAssumption, FS_Interval DEF Periods
<1>2. Init => CountedExactlyOnce
  <2>1. SUFFICES ASSUME Init PROVE CountedExactlyOnce
    OBVIOUS
  <2>2. SumFunction(ingested) = 0
    BY <1>1, <2>1, SumOfZeros DEF Init
  <2>3. Len(head) = 0
    BY <2>1 DEF Init
  <2>4. QED
    BY <2>2, <2>3 DEF CountedExactlyOnce
<1>3. ASSUME ChainInv, CountedExactlyOnce, [Next]_vars
      PROVE  CountedExactlyOnce'
  <2>1. CASE UNCHANGED <<head, ingested>>
    BY <1>3, <2>1 DEF CountedExactlyOnce
  <2>2. ASSUME NEW m \in Periods, NEW d \in Ids,
               ingested' = [ingested EXCEPT ![m] = @ + 1],
               head' = Append(head, d)
        PROVE  CountedExactlyOnce'
    <3>1. /\ ingested \in [Periods -> Int]
          /\ ingested[m] \in Int /\ ingested[m] + 1 \in Int
          /\ ingested' = [ingested EXCEPT ![m] = ingested[m] + 1]
          /\ head \in Seq(Ids)
      BY <1>3, <2>2 DEF ChainInv, TypeOK
    <3>2. /\ SumFunction(ingested) \in Int
          /\ SumFunction(ingested') =
                SumFunction(ingested) + (ingested[m] + 1) - ingested[m]
      BY <1>1, <3>1, SumChanges
    <3>3. Len(head') = Len(head) + 1
      BY <2>2, <3>1
    <3>4. SumFunction(ingested)' = SumFunction(ingested) + 1
      BY <3>1, <3>2
    <3>5. QED
      BY <1>3, <3>3, <3>4 DEF CountedExactlyOnce
  <2>3. QED
    BY <1>3, <2>1, <2>2, CountMoves DEF ChainInv
<1>4. QED
  BY <1>2, <1>3, ChainTheorem, PTL DEF Spec

-----------------------------------------------------------------------------
(* The gauge *)

(* A sweep has keys to account for from their deletion to the discount,    *)
(* and between the chunks of a production list.                            *)
RemovedIsAccounted ==
    \A s \in Sweeps :
        \/ removed[s] = 0
        \/ step[s] = "discount"
        \/ stage[s] = "production" /\ step[s] \in {"delete", "keys"}

GaugeInv == KeyInv /\ RemovedIsAccounted

LEMMA RemovedInductive ==
    ASSUME TypeOK, RemovedIsAccounted, [Next]_vars
    PROVE  RemovedIsAccounted'
<1>1. ASSUME UNCHANGED sweepVars
      PROVE  RemovedIsAccounted'
  BY <1>1 DEF RemovedIsAccounted, sweepVars
<1>2. ASSUME \/ \E c \in Calls : CallStep(c)
             \/ \E b \in SUBSET Ids : WebPrune(b)
             \/ \E a \in Audits : AuditStep(a)
             \/ NewPeriod
             \/ UNCHANGED vars
      PROVE  UNCHANGED sweepVars
  BY <1>2 DEF CallStep, ClaimKey, LockHead, Store, StoreNothing, IngestFails,
              WebPrune, AuditStep, Measure, Apply, ApplyFails, NewPeriod,
              vars, sweepVars
<1>3. ASSUME NEW s \in Sweeps, SweepStep(s)
      PROVE  RemovedIsAccounted'
  <2> DEFINE Rest == \A o \in Sweeps \ {s} : /\ removed'[o] = removed[o]
                                             /\ step'[o] = step[o]
                                             /\ stage'[o] = stage[o]
  <2>1. ASSUME Rest, removed'[s] = 0
        PROVE  RemovedIsAccounted'
    BY <2>1 DEF RemovedIsAccounted
  <2>2. ASSUME NextStage(s)
        PROVE  RemovedIsAccounted'
    BY <2>1, <2>2 DEF NextStage, TypeOK
  <2>3. CASE StartSweep(s)
    <3>1. /\ removed' = removed /\ step' = step
          /\ stage[s] = "idle"
          /\ stage' = [stage EXCEPT ![s] = "staging"]
      BY <2>3 DEF StartSweep
    <3>2. QED
      BY <3>1 DEF RemovedIsAccounted, TypeOK
  <2>4. CASE DeleteBatch(s)
    <3>1. /\ stage[s] # "production" /\ step[s] = "delete"
          /\ \/ NextStage(s)
             \/ GoTo(s, "keys") /\ UNCHANGED removed
      BY <2>4 DEF DeleteBatch
    <3>2. removed[s] = 0
      BY <3>1 DEF RemovedIsAccounted
    <3>3. CASE GoTo(s, "keys") /\ UNCHANGED removed
      BY <2>1, <3>2, <3>3 DEF GoTo, TypeOK
    <3>4. QED
      BY <2>2, <3>1, <3>3
  <2>5. CASE SelectExpired(s) \/ Archive(s) \/ ArchiveFails(s)
    <3>1. /\ step[s] \in {"select", "archive"}
          /\ \/ NextStage(s)
             \/ /\ \E p \in {"archive", "delete"} : GoTo(s, p)
                /\ UNCHANGED removed
      BY <2>5 DEF SelectExpired, Archive, ArchiveFails
    <3>2. removed[s] = 0
      BY <3>1 DEF RemovedIsAccounted
    <3>3. CASE /\ \E p \in {"archive", "delete"} : GoTo(s, p)
               /\ UNCHANGED removed
      BY <2>1, <3>2, <3>3 DEF GoTo, TypeOK
    <3>4. QED
      BY <2>2, <3>1, <3>3
  <2>6. CASE DeleteChunk(s) \/ DeleteChunkFails(s)
    <3>1. /\ stage[s] = "production"
          /\ \E p \in {"keys", "discount"} : GoTo(s, p)
          /\ UNCHANGED removed
      BY <2>6 DEF DeleteChunk, DeleteChunkFails
    <3>2. QED
      BY <3>1 DEF GoTo, RemovedIsAccounted, TypeOK
  <2>7. CASE DeleteKeys(s) \/ DeleteKeysFails(s)
    <3>1. /\ GoTo(s, AfterKeys(s))
          /\ \A o \in Sweeps \ {s} : removed'[o] = removed[o]
      BY <2>7 DEF DeleteKeys, DeleteKeysFails, TypeOK
    <3>2. /\ step' = [step EXCEPT ![s] = AfterKeys(s)]
          /\ stage' = stage
          /\ \/ AfterKeys(s) = "discount"
             \/ AfterKeys(s) = "delete" /\ stage[s] = "production"
      BY <3>1 DEF GoTo, AfterKeys
    <3>3. QED
      BY <3>1, <3>2 DEF RemovedIsAccounted, TypeOK
  <2>8. CASE Discount(s)
    <3>1. \/ NextStage(s)
          \/ GoTo(s, "delete") /\ removed' = [removed EXCEPT ![s] = 0]
      BY <2>8 DEF Discount, EndRound
    <3>2. CASE GoTo(s, "delete") /\ removed' = [removed EXCEPT ![s] = 0]
      BY <2>1, <3>2 DEF GoTo, TypeOK
    <3>3. QED
      BY <2>2, <3>1, <3>2
  <2>9. CASE SweepFails(s)
    BY <2>1, <2>9 DEF SweepFails, TypeOK
  <2>10. QED
    BY <1>3, <2>3, <2>4, <2>5, <2>6, <2>7, <2>8, <2>9 DEF SweepStep
<1>4. QED
  BY <1>1, <1>2, <1>3 DEF Next

LEMMA GaugeInductive ==
    ASSUME GaugeInv, [Next]_vars
    PROVE  GaugeInv'
BY KeyInductive, RemovedInductive DEF GaugeInv, KeyInv

(* The drift is a number, and stays when what it is made of does. *)
LEMMA DriftType ==
    ASSUME TypeOK, IsFiniteSet(Sweeps)
    PROVE  /\ Drift \in Int
           /\ Cardinality(keys) \in Nat
           /\ SumFunction(removed) \in Nat
           /\ \A s \in Sweeps : SumFunction(removed) >= removed[s]
           /\ period \in Periods
           /\ gauge[period] # None => gauge[period] \in Nat
<1>1. Cardinality(keys) \in Nat
  BY Countable DEF TypeOK
<1>2. /\ SumFunction(removed) \in Nat
      /\ \A s \in Sweeps : SumFunction(removed) >= removed[s]
  BY SumOfNats DEF TypeOK
<1>3. period \in Periods /\ (gauge[period] # None => gauge[period] \in Nat)
  BY DEF TypeOK
<1>4. QED
  BY <1>1, <1>2, <1>3 DEF Drift

(* Discounting n of at least n leaves the difference. *)
LEMMA DiscountExactly ==
    ASSUME TypeOK, NEW n \in Nat, gauge[period] # None, gauge[period] >= n
    PROVE  Discounted(n)[period] = gauge[period] - n
<1>1. gauge[period] \in Nat /\ period \in Periods /\ gauge \in [Periods -> Nat \cup {None}]
  BY DEF TypeOK
<1>2. CASE gauge[period] > n
  BY <1>1, <1>2 DEF Discounted
<1>3. CASE gauge[period] = n
  BY <1>1, <1>3 DEF Discounted
<1>4. QED
  BY <1>1, <1>2, <1>3

(* What excuses a step that makes the gauge drift. *)
Excused ==
    \/ sample' # sample
    \/ period' # period
    \/ \E c \in Calls : phase[c] = "locked" /\ begun[c] # period
    \/ \E s \in Sweeps :
          /\ step'[s] # step[s] \/ stage'[s] # stage[s]
          /\ \/ stage'[s] = "done" /\ step[s] # "discount"
             \/ step[s] = "discount" /\ removed[s] # Cardinality(list[s])
             \/ step[s] = "discount" /\ gauge' = gauge
    \/ Drift < 0
    \/ ~(EventIds \subseteq keys)

LEMMA GaugeFollows ==
    ASSUME IsFiniteSet(Sweeps), GaugeInv, [Next]_vars, ~Excused
    PROVE  Drift' = Drift
<1> USE DEF GaugeInv, KeyInv
<1>1. /\ sample' = sample /\ period' = period
      /\ \A c \in Calls : phase[c] = "locked" => begun[c] = period
      /\ ~(Drift < 0)
      /\ EventIds \subseteq keys
  BY DEF Excused
<1>2. ASSUME NEW s \in Sweeps, step'[s] # step[s] \/ stage'[s] # stage[s]
      PROVE  /\ stage'[s] = "done" => step[s] = "discount"
             /\ step[s] = "discount" => /\ removed[s] = Cardinality(list[s])
                                        /\ gauge' # gauge
  BY <1>2 DEF Excused
<1>3. /\ Drift \in Int
      /\ Cardinality(keys) \in Nat
      /\ SumFunction(removed) \in Nat
      /\ \A s \in Sweeps : SumFunction(removed) >= removed[s]
      /\ period \in Periods
      /\ gauge[period] # None => gauge[period] \in Nat
  BY DriftType
<1>4. ASSUME UNCHANGED <<keys, gauge, removed>>
      PROVE  Drift' = Drift
  BY <1>1, <1>4 DEF Drift
<1>5. ASSUME NEW c \in Calls, CallStep(c)
      PROVE  Drift' = Drift
  <2>1. ASSUME Store(c)
        PROVE  Drift' = Drift
    <3> DEFINE d == subject[c]
    <3>1. /\ phase[c] = "locked" /\ keys' = keys \cup {d}
          /\ UNCHANGED removed
      BY <2>1 DEF Store, sweepVars
    <3>2. d \notin keys
      BY <3>1 DEF ClaimsAreApart, InFlight
    <3>3. PICK m \in Months(c) : CountUsage(m)
      BY <2>1 DEF Store
    <3>4. m = period
      <4>1. begun[c] = period /\ period \in Int
        BY <1>1, <1>3, <3>1 DEF Periods
      <4>2. QED
        BY <4>1 DEF Months
    <3>5. gauge' = IF gauge[period] = None THEN gauge
                   ELSE [gauge EXCEPT ![period] = @ + 1]
      BY <3>3, <3>4 DEF CountUsage
    <3>6. Cardinality(keys') = Cardinality(keys) + 1
      <4>1. IsFiniteSet(keys)
        BY IdAssumption, FS_Subset DEF TypeOK
      <4>2. QED
        BY <3>1, <3>2, <4>1, FS_AddElement
    <3>7. CASE gauge[period] = None
      BY <1>1, <3>5, <3>7 DEF Drift
    <3>8. CASE gauge[period] # None
      <4>1. /\ gauge'[period] = gauge[period] + 1
            /\ gauge'[period] # None
        BY <1>3, <3>5, <3>8, NullAssumption DEF TypeOK
      <4>2. Drift = gauge[period] - Cardinality(keys) - SumFunction(removed)
        BY <3>8 DEF Drift
      <4>3. Drift' = gauge'[period] - Cardinality(keys')
                        - SumFunction(removed)
        BY <1>1, <3>1, <4>1 DEF Drift
      <4>4. QED
        BY <1>3, <3>6, <3>8, <4>1, <4>2, <4>3
    <3>9. QED
      BY <3>7, <3>8
  <2>2. ASSUME StoreNothing(c)
        PROVE  Drift' = Drift
    <3>1. /\ keys' = keys \cup {subject[c]} /\ subject[c] \in EventIds
          /\ UNCHANGED <<gauge, removed>>
      BY <2>2 DEF StoreNothing, usageVars, sweepVars
    <3>2. keys' = keys
      BY <1>1, <3>1
    <3>3. QED
      BY <1>4, <3>1, <3>2
  <2>3. ASSUME NEW d \in Ids, ClaimKey(c, d)
        PROVE  Drift' = Drift
    BY <1>4, <2>3 DEF ClaimKey, ledgerVars, usageVars, sweepVars
  <2>4. ASSUME LockHead(c) \/ IngestFails(c)
        PROVE  Drift' = Drift
    BY <1>4, <2>4 DEF LockHead, IngestFails, ledgerVars, usageVars, sweepVars
  <2>5. QED
    BY <1>5, <2>1, <2>2, <2>3, <2>4 DEF CallStep
<1>6. ASSUME NEW s \in Sweeps, SweepStep(s)
      PROVE  Drift' = Drift
  <2>1. ASSUME removed' = [removed EXCEPT ![s] = 0], removed[s] = 0
        PROVE  removed' = removed
    BY <2>1 DEF TypeOK
  <2>2. CASE StartSweep(s) \/ DeleteChunk(s) \/ DeleteChunkFails(s)
             \/ DeleteKeysFails(s) \/ Archive(s)
    BY <1>4, <2>2
    DEF StartSweep, DeleteChunk, DeleteChunkFails, DeleteKeysFails, Archive,
        ledgerVars, usageVars
  <2>3. CASE DeleteBatch(s) \/ SelectExpired(s) \/ ArchiveFails(s)
    <3>1. /\ UNCHANGED <<keys, gauge>>
          /\ \/ UNCHANGED removed
             \/ removed' = [removed EXCEPT ![s] = 0]
          /\ \/ stage[s] # "production" /\ step[s] = "delete"
             \/ step[s] \in {"select", "archive"}
      BY <2>3 DEF DeleteBatch, SelectExpired, ArchiveFails, NextStage,
                  ledgerVars, usageVars
    <3>2. removed[s] = 0
      BY <3>1 DEF RemovedIsAccounted
    <3>3. QED
      BY <1>4, <2>1, <3>1, <3>2
  <2>4. CASE DeleteKeys(s)
    <3> DEFINE n == Cardinality(chunk[s] \cap keys)
    <3>1. /\ keys' = keys \ chunk[s]
          /\ removed' = [removed EXCEPT ![s] = removed[s] + n]
          /\ UNCHANGED gauge
      BY <2>4 DEF DeleteKeys, usageVars
    <3>2. n \in Nat
      BY Countable DEF TypeOK
    <3>3. Cardinality(keys') = Cardinality(keys) - n
      <4>1. IsFiniteSet(keys)
        BY IdAssumption, FS_Subset DEF TypeOK
      <4>2. Cardinality(keys \ chunk[s]) =
                Cardinality(keys) - Cardinality(keys \cap chunk[s])
        BY <4>1, FS_Difference
      <4>3. keys \cap chunk[s] = chunk[s] \cap keys
        OBVIOUS
      <4>4. QED
        BY <3>1, <4>2, <4>3
    <3>4. SumFunction(removed') = SumFunction(removed) + n
      <4> HIDE DEF n
      <4>1. /\ removed \in [Sweeps -> Int] /\ removed[s] \in Int
            /\ removed[s] + n \in Int
        BY <3>2 DEF TypeOK
      <4>2. SumFunction(removed') =
                SumFunction(removed) + (removed[s] + n) - removed[s]
        BY <3>1, <4>1, SumChanges
      <4>3. QED
        BY <1>3, <3>2, <4>1, <4>2
    <3> HIDE DEF n
    <3>5. QED
      BY <1>1, <1>3, <3>1, <3>2, <3>3, <3>4 DEF Drift
  <2>5. CASE Discount(s)
    <3> DEFINE n == Cardinality(list[s])
    <3>1. /\ step[s] = "discount"
          /\ gauge' \in {gauge, Discounted(n)}
          /\ removed' = [removed EXCEPT ![s] = 0]
          /\ UNCHANGED keys
      BY <2>5 DEF Discount, EndRound, NextStage, ledgerVars
    <3>2. step'[s] # step[s]
      BY <2>5, <3>1 DEF Discount, EndRound, NextStage, GoTo, TypeOK
    <3>3. removed[s] = n /\ gauge' = Discounted(n) /\ gauge' # gauge
      BY <1>2, <3>1, <3>2
    <3>4. n \in Nat /\ gauge[period] # None
      BY <3>3, Countable DEF Discounted, TypeOK
    <3> HIDE DEF n
    <3>5. Drift = gauge[period] - Cardinality(keys) - SumFunction(removed)
      BY <3>4 DEF Drift
    <3>6. gauge[period] \in Nat /\ gauge[period] >= n
      BY <1>1, <1>3, <3>3, <3>4, <3>5
    <3>7. gauge'[period] = gauge[period] - n /\ gauge'[period] # None
      <4>1. gauge'[period] = gauge[period] - n
        BY <3>3, <3>4, <3>6, DiscountExactly
      <4>2. QED
        BY <3>4, <3>6, <4>1, NullAssumption
    <3>8. SumFunction(removed') = SumFunction(removed) - n
      <4>1. removed \in [Sweeps -> Int] /\ 0 \in Int
        BY DEF TypeOK
      <4>2. SumFunction(removed') = SumFunction(removed) + 0 - removed[s]
        BY <3>1, <4>1, SumChanges
      <4>3. QED
        BY <1>3, <3>3, <3>4, <4>2
    <3>9. Drift' = gauge'[period] - Cardinality(keys) - SumFunction(removed')
      BY <1>1, <3>1, <3>7 DEF Drift
    <3>10. QED
      BY <1>3, <3>4, <3>5, <3>6, <3>7, <3>8, <3>9
  <2>6. CASE SweepFails(s)
    <3>1. /\ stage'[s] = "done" /\ stage[s] # "done"
          /\ UNCHANGED gauge
      BY <2>6 DEF SweepFails, Sweeping, Environments, usageVars, TypeOK
    <3>2. QED
      BY <1>2, <3>1
  <2>7. QED
    BY <1>6, <2>2, <2>3, <2>4, <2>5, <2>6 DEF SweepStep
<1>7. ASSUME NEW b \in SUBSET Ids, WebPrune(b)
      PROVE  Drift' = Drift
  <2> DEFINE deleted == b \cap EventIds
             n == Cardinality(deleted)
  <2>1. /\ keys' = keys \ deleted
        /\ gauge' = Discounted(n)
        /\ UNCHANGED removed
    BY <1>7 DEF WebPrune, sweepVars
  <2>2. deleted \subseteq keys
    BY <1>1
  <2>3. /\ n \in Nat /\ n <= Cardinality(keys)
        /\ Cardinality(keys') = Cardinality(keys) - n
    <3>1. IsFiniteSet(keys)
      BY IdAssumption, FS_Subset DEF TypeOK
    <3>2. /\ Cardinality(keys \ deleted) =
                Cardinality(keys) - Cardinality(keys \cap deleted)
          /\ keys \cap deleted = deleted
      BY <2>2, <3>1, FS_Difference
    <3>3. n \in Nat /\ n <= Cardinality(keys)
      BY <2>2, <3>1, FS_Subset, FS_CardinalityType
    <3>4. QED
      BY <2>1, <3>2, <3>3
  <2> HIDE DEF n
  <2>4. CASE gauge[period] = None
    BY <1>1, <2>1, <2>4 DEF Discounted, Drift
  <2>5. CASE gauge[period] # None
    <3>1. Drift = gauge[period] - Cardinality(keys) - SumFunction(removed)
      BY <2>5 DEF Drift
    <3>2. gauge[period] \in Nat /\ gauge[period] >= n
      BY <1>1, <1>3, <2>3, <2>5, <3>1
    <3>3. gauge'[period] = gauge[period] - n
      BY <2>1, <2>3, <2>5, <3>2, DiscountExactly
    <3>4. gauge'[period] # None
      BY <2>3, <3>2, <3>3, NullAssumption
    <3>5. Drift' = gauge'[period] - Cardinality(keys') - SumFunction(removed)
      BY <1>1, <2>1, <3>4 DEF Drift
    <3>6. QED
      BY <1>3, <2>3, <3>1, <3>2, <3>3, <3>5
  <2>6. QED
    BY <2>4, <2>5
<1>8. ASSUME NEW a \in Audits, AuditStep(a)
      PROVE  Drift' = Drift
  <2>1. ~Apply(a)
    BY <1>1 DEF Apply, TypeOK
  <2>2. UNCHANGED <<keys, gauge, removed>>
    BY <1>8, <2>1 DEF AuditStep, Measure, ApplyFails, ledgerVars, usageVars,
                      sweepVars
  <2>3. QED
    BY <1>4, <2>2
<1>9. ASSUME NewPeriod \/ UNCHANGED vars
      PROVE  Drift' = Drift
  BY <1>1, <1>4, <1>9 DEF NewPeriod, vars, ledgerVars, sweepVars
<1>10. QED
  BY <1>5, <1>6, <1>7, <1>8, <1>9 DEF Next

(* With finitely many sweeps, every step of ingest, retention and the      *)
(* web's prune leaves the gauge as far from the keys as it was, except in  *)
(* the ways GaugeFollowsKeys names: each ingest counts its key             *)
(* (evidence.go), and each discount what was deleted (jobs_retention.go).  *)
THEOREM GaugeTheorem ==
    ASSUME IsFiniteSet(Sweeps)
    PROVE  Spec => GaugeFollowsKeys
<1> DEFINE Follows ==
        Drift' # Drift =>
          \/ sample' # sample
          \/ period' # period
          \/ \E c \in Calls : phase[c] = "locked" /\ begun[c] # period
          \/ \E s \in Sweeps :
                /\ step'[s] # step[s] \/ stage'[s] # stage[s]
                /\ \/ stage'[s] = "done" /\ step[s] # "discount"
                   \/ step[s] = "discount" /\ removed[s] # Cardinality(list[s])
                   \/ step[s] = "discount" /\ gauge' = gauge
          \/ Drift < 0
          \/ ~(EventIds \subseteq keys)
<1>1. Init => GaugeInv
  BY KeyInit DEF Init, GaugeInv, RemovedIsAccounted
<1>2. GaugeInv /\ [Next]_vars => GaugeInv'
  BY GaugeInductive
<1>3. GaugeInv /\ [Next]_vars => Follows
  BY GaugeFollows DEF Excused
<1>4. QED
  BY <1>1, <1>2, <1>3, PTL DEF Spec, GaugeFollowsKeys

-----------------------------------------------------------------------------
(* The ledger *)

(* Who was told of an entry is what one call's answer makes of it. *)
LEMMA ToldMoves ==
    ASSUME TypeOK, NEW c \in Calls, NEW d, NEW a,
           answer[c] = "none", subject' = [subject EXCEPT ![c] = d],
           answer' = [answer EXCEPT ![c] = a]
    PROVE  Told' = IF a \in {"STORED", "DUPLICATE"} THEN Told \cup {d} ELSE Told
<1>1. /\ answer'[c] = a /\ subject'[c] = d
      /\ \A o \in Calls \ {c} : answer'[o] = answer[o] /\ subject'[o] = subject[o]
  BY DEF TypeOK
<1>2. QED
  BY <1>1 DEF Told

(* The steps of a call, in the words of the ledger. *)
LEMMA CallKeepsLedger ==
    ASSUME AckInv, NEW c \in Calls, CallStep(c)
    PROVE  \/ UNCHANGED <<head, events, ingested, Told>>
           \/ \E d \in Ids : /\ Chained(head, d)
                             /\ Told' = Told \cup {d}
                             /\ UNCHANGED <<head, events, ingested>>
           \/ \E d \in Ids : \E m \in Periods :
                 /\ \A e \in events : e.id # d
                 /\ head' = Append(head, d)
                 /\ events' = events \cup {[id |-> d, prev |-> head]}
                 /\ ingested' = [ingested EXCEPT ![m] = @ + 1]
                 /\ Told' \in {Told, Told \cup {d}}
<1> USE DEF ledgerVars, usageVars
<1>1. TypeOK /\ HeadIsLocked /\ \A d \in keys \cup EventIds : Chained(head, d)
  BY DEF AckInv, ChainInv
<1>2. phase[c] # "done" => answer[c] = "none"
  BY DEF AckInv, OpenIsUnanswered
<1>3. subject' = [subject EXCEPT ![c] = subject[c]] <=> subject' = subject
  BY <1>1 DEF TypeOK
<1>4. ASSUME NEW d \in Ids, ClaimKey(c, d)
      PROVE  \/ UNCHANGED <<head, events, ingested, Told>>
             \/ /\ Chained(head, d) /\ Told' = Told \cup {d}
                /\ UNCHANGED <<head, events, ingested>>
  <2>1. CASE d \in keys
    <3>1. /\ answer[c] = "none" /\ subject' = [subject EXCEPT ![c] = d]
          /\ answer' = [answer EXCEPT ![c] = "DUPLICATE"]
          /\ UNCHANGED <<head, events, ingested>>
      BY <1>2, <1>4, <2>1 DEF ClaimKey, Answer
    <3>2. Told' = Told \cup {d}
      BY <1>1, <3>1, ToldMoves
    <3>3. QED
      BY <1>1, <2>1, <3>1, <3>2
  <2>2. CASE d \notin keys
    <3>1. /\ answer[c] = "none" /\ subject' = [subject EXCEPT ![c] = d]
          /\ answer' = answer
          /\ UNCHANGED <<head, events, ingested>>
      BY <1>2, <1>4, <2>2 DEF ClaimKey
    <3>2. answer' = [answer EXCEPT ![c] = "none"]
      BY <1>1, <3>1 DEF TypeOK
    <3>3. Told' = Told
      BY <1>1, <3>1, <3>2, ToldMoves
    <3>4. QED
      BY <3>1, <3>3
  <2>3. QED
    BY <2>1, <2>2
<1>5. CASE LockHead(c)
  BY <1>5 DEF LockHead, Told
<1>6. CASE IngestFails(c)
  <2>1. /\ answer[c] = "none" /\ subject' = subject
        /\ answer' = [answer EXCEPT ![c] = "ERROR"]
        /\ UNCHANGED <<head, events, ingested>>
    BY <1>2, <1>6 DEF IngestFails, Answer, InFlight
  <2>2. subject' = [subject EXCEPT ![c] = subject[c]]
    BY <1>3, <2>1
  <2>3. Told' = IF "ERROR" \in {"STORED", "DUPLICATE"} THEN Told \cup {subject[c]} ELSE Told
    BY <1>1, <2>1, <2>2, ToldMoves, Zenon
  <2>4. QED
    BY <2>1, <2>3
<1>7. CASE StoreNothing(c)
  <2>1. /\ answer[c] = "none" /\ subject' = subject
        /\ answer' = [answer EXCEPT ![c] = "DUPLICATE"]
        /\ UNCHANGED <<head, events, ingested>>
        /\ subject[c] \in EventIds
    BY <1>2, <1>7 DEF StoreNothing, Answer
  <2>2. Told' = Told \cup {subject[c]}
    BY <1>1, <1>3, <2>1, ToldMoves
  <2>3. subject[c] \in Ids
    BY <1>1, <1>7 DEF StoreNothing, TypeOK, InFlight
  <2>4. QED
    BY <1>1, <2>1, <2>2, <2>3
<1>8. CASE Store(c)
  <2>1. PICK d : d = subject[c]
    OBVIOUS
  <2>2. /\ d \in Ids /\ d \notin EventIds
        /\ answer[c] = "none" /\ subject' = subject
        /\ head' = Append(head, d)
        /\ events' = events \cup {[id |-> d, prev |-> head]}
    BY <1>1, <1>2, <1>8, <2>1 DEF Store, HeadIsLocked, TypeOK, InFlight
  <2>3. PICK a \in {"STORED", "ERROR"} : answer' = [answer EXCEPT ![c] = a]
    BY <1>8 DEF Store, Answer
  <2>4. Told' \in {Told, Told \cup {d}}
    BY <1>1, <1>3, <2>1, <2>2, <2>3, ToldMoves
  <2>5. PICK m \in Months(c) : CountUsage(m)
    BY <1>8 DEF Store
  <2>6. m \in Periods /\ ingested' = [ingested EXCEPT ![m] = @ + 1]
    BY <1>1, <2>5, SizeAssumption DEF TypeOK, Months, Periods, CountUsage
  <2>7. \A e \in events : e.id # d
    BY <2>2 DEF EventIds
  <2>8. QED
    BY <2>2, <2>4, <2>6, <2>7
<1>9. QED
  BY <1>4, <1>5, <1>6, <1>7, <1>8 DEF CallStep

(* Nothing else moves the count. *)
LEMMA OthersKeepCount ==
    ASSUME \/ \E s \in Sweeps : SweepStep(s)
           \/ \E b \in SUBSET Ids : WebPrune(b)
           \/ \E a \in Audits : AuditStep(a)
           \/ NewPeriod
           \/ UNCHANGED vars
    PROVE  UNCHANGED ingested
<1>1. ASSUME NEW s \in Sweeps, SweepStep(s)
      PROVE  UNCHANGED ingested
  BY <1>1 DEF SweepStep, StartSweep, DeleteBatch, SelectExpired, Archive,
     ArchiveFails, DeleteChunk, DeleteChunkFails, DeleteKeys, DeleteKeysFails,
     Discount, SweepFails, usageVars
<1>2. ASSUME NEW a \in Audits, AuditStep(a)
      PROVE  UNCHANGED ingested
  BY <1>2 DEF AuditStep, Measure, Apply, ApplyFails, usageVars
<1>3. QED
  BY <1>1, <1>2 DEF WebPrune, NewPeriod, vars

(* The evidence tables, the counts and the answers are an abstract ledger: *)
(* each step of the code is one of its steps or none.                      *)
THEOREM LedgerTheorem == Spec => ImplementsLedger
<1>1. IsFiniteSet(Periods)
  BY SizeAssumption, FS_Interval DEF Periods
<1>2. Init => AbstractLedger!LedgerInit
  <2> SUFFICES ASSUME Init PROVE AbstractLedger!LedgerInit
    OBVIOUS
  <2>1. SumFunction(ingested) = 0
    BY <1>1, SumOfZeros DEF Init
  <2>2. Told = {}
    BY DEF Init, Told
  <2>3. QED
    BY <2>1, <2>2 DEF Init, AbstractLedger!LedgerInit
<1>3. ASSUME AckInv, [Next]_vars
      PROVE  [AbstractLedger!LedgerNext]_(AbstractLedger!bookVars)
  <2>1. CASE UNCHANGED <<head, events, ingested, Told>>
    BY <2>1 DEF AbstractLedger!bookVars
  <2>2. ASSUME NEW d \in Ids, Chained(head, d), Told' = Told \cup {d},
               UNCHANGED <<head, events, ingested>>
        PROVE  AbstractLedger!LedgerNext
    <3>1. AbstractLedger!Confirm(d)
      BY <2>2 DEF AbstractLedger!Confirm, AbstractLedger!Recorded, Chained
    <3>2. QED
      BY <3>1 DEF AbstractLedger!LedgerNext
  <2>3. ASSUME NEW d \in Ids, NEW m \in Periods,
               \A e \in events : e.id # d,
               head' = Append(head, d),
               events' = events \cup {[id |-> d, prev |-> head]},
               ingested' = [ingested EXCEPT ![m] = @ + 1],
               Told' \in {Told, Told \cup {d}}
        PROVE  AbstractLedger!LedgerNext
    <3>1. /\ ingested \in [Periods -> Int]
          /\ ingested[m] \in Int /\ ingested[m] + 1 \in Int
          /\ ingested' = [ingested EXCEPT ![m] = ingested[m] + 1]
      BY <1>3, <2>3 DEF AckInv, ChainInv, TypeOK
    <3>2. /\ SumFunction(ingested) \in Int
          /\ SumFunction(ingested') =
                SumFunction(ingested) + (ingested[m] + 1) - ingested[m]
      BY <1>1, <3>1, SumChanges
    <3>3. SumFunction(ingested)' = SumFunction(ingested) + 1
      BY <3>1, <3>2
    <3>4. AbstractLedger!Enter(d)
      BY <2>3, <3>3 DEF AbstractLedger!Enter
    <3>5. QED
      BY <3>4 DEF AbstractLedger!LedgerNext
  <2>4. CASE \E c \in Calls : CallStep(c)
    BY <1>3, <2>1, <2>2, <2>3, <2>4, CallKeepsLedger
  <2>5. CASE \/ \E s \in Sweeps : SweepStep(s)
             \/ \E b \in SUBSET Ids : WebPrune(b)
             \/ \E a \in Audits : AuditStep(a)
             \/ NewPeriod
             \/ UNCHANGED vars
    <3>1. /\ UNCHANGED <<head, subject, answer, ingested>>
          /\ events' \subseteq events
      BY <2>5, OthersOnlyDelete, OthersKeepCount
    <3>2. Told' = Told
      BY <3>1 DEF Told
    <3>3. AbstractLedger!Erase
      BY <3>1, <3>2 DEF AbstractLedger!Erase
    <3>4. QED
      BY <3>3 DEF AbstractLedger!LedgerNext
  <2>6. QED
    BY <1>3, <2>4, <2>5 DEF Next
<1>4. Spec => []AckInv
  <2>1. AckInv /\ [Next]_vars => AckInv'
    BY AckInductive
  <2>2. QED
    BY AckInit, <2>1, PTL DEF Spec
<1>5. QED
  BY <1>2, <1>3, <1>4, PTL DEF Spec, ImplementsLedger, AbstractLedger!LedgerSpec

(* A ledger bills what it entered, tells nobody of what it did not, and    *)
(* keeps each entry with exactly those before it as its past.              *)
THEOREM BookTheorem == ImplementsLedger => []AbstractLedger!LedgerInv
<1> DEFINE log == head
           kept == events
           bill == SumFunction(ingested)
           Past(h, e) == \E n \in DOMAIN h : e.id = h[n] /\ e.prev = SubSeq(h, 1, n - 1)
           IInv == log \in Seq(Ids) /\ AbstractLedger!LedgerInv
<1>1. AbstractLedger!LedgerInit => IInv
  BY DEF AbstractLedger!LedgerInit, AbstractLedger!LedgerInv
<1>2. IInv /\ [AbstractLedger!LedgerNext]_(AbstractLedger!bookVars) => IInv'
  <2> SUFFICES ASSUME IInv, [AbstractLedger!LedgerNext]_(AbstractLedger!bookVars)
               PROVE  IInv'
    OBVIOUS
  <2>1. CASE UNCHANGED AbstractLedger!bookVars
    BY <2>1 DEF AbstractLedger!bookVars, AbstractLedger!LedgerInv, AbstractLedger!Recorded
  <2>2. CASE AbstractLedger!Erase
    BY <2>2 DEF AbstractLedger!Erase, AbstractLedger!LedgerInv, AbstractLedger!Recorded
  <2>3. ASSUME NEW d \in Ids, AbstractLedger!Confirm(d)
        PROVE  IInv'
    BY <2>3 DEF AbstractLedger!Confirm, AbstractLedger!LedgerInv, AbstractLedger!Recorded
  <2>4. ASSUME NEW d \in Ids, AbstractLedger!Enter(d)
        PROVE  IInv'
    <3>1. /\ log \in Seq(Ids) /\ log' = Append(log, d)
          /\ kept' = kept \cup {[id |-> d, prev |-> log]}
          /\ bill' = bill + 1 /\ bill = Len(log)
          /\ Told' \in {Told, Told \cup {d}}
      BY <2>4 DEF AbstractLedger!Enter, AbstractLedger!LedgerInv
    <3>2. log' \in Seq(Ids) /\ Len(log') = Len(log) + 1
      BY <3>1
    <3>3. ASSUME NEW x, Chained(head, x) \/ x = d
          PROVE  Chained(head', x)
      BY <3>1, <3>3, ChainedAppend
    <3>4. \A x \in Told' : Chained(head', x)
      BY <3>1, <3>3 DEF AbstractLedger!LedgerInv, AbstractLedger!Recorded, Chained
    <3>5. ASSUME NEW e \in kept'
          PROVE  Past(head', e)
      <4>1. CASE e = [id |-> d, prev |-> log]
        <5>1. e.id = d /\ e.prev = head
          BY <4>1
        <5>2. /\ Len(head) + 1 \in DOMAIN head' /\ head'[Len(head) + 1] = d
              /\ SubSeq(head', 1, (Len(head) + 1) - 1) = head
          BY <3>1
        <5>3. QED
          BY <5>1, <5>2
      <4>2. CASE e \in kept
        <5>1. PICK n \in DOMAIN head : e.id = head[n] /\ e.prev = SubSeq(head, 1, n - 1)
          BY <2>4, <4>2 DEF AbstractLedger!LedgerInv
        <5>2. /\ n \in DOMAIN head' /\ head'[n] = head[n]
              /\ SubSeq(head', 1, n - 1) = SubSeq(head, 1, n - 1)
          BY <3>1
        <5>3. QED
          BY <5>1, <5>2
      <4>3. QED
        BY <3>1, <4>1, <4>2
    <3>6. QED
      BY <3>1, <3>2, <3>4, <3>5
         DEF AbstractLedger!LedgerInv, AbstractLedger!Recorded, Chained
  <2>5. QED
    BY <2>1, <2>2, <2>3, <2>4 DEF AbstractLedger!LedgerNext
<1>3. IInv => AbstractLedger!LedgerInv
  OBVIOUS
<1> HIDE DEF IInv
<1>4. QED
  BY <1>1, <1>2, <1>3, PTL DEF ImplementsLedger, AbstractLedger!LedgerSpec
=============================================================================
