------------------------ MODULE PolicyPublicationProofs ------------------------
(***************************************************************************)
(* Proofs about PolicyPublication, for any number of branches, requests,   *)
(* reviewers and rules: what refers to what, what reviews and imports      *)
(* promise, and what a deletion may take away.                             *)
(***************************************************************************)
EXTENDS PolicyPublication, WellFoundedInduction, FiniteSetTheorems, TLAPS

OfBranch(r, b) == r \in 1..last /\ revision[r].branch = b

(* Revisions: what each was made from.                                     *)
RevisionOK(r) ==
  LET v == revision[r] IN
  /\ branch[v.branch] # "UNBORN"
  /\ v.parent # None => /\ v.parent \in 1..last /\ v.parent < r
                        /\ revision[v.parent].branch = v.branch
  /\ v.kind \in {"DRAFT", "COMMIT"} =>
       /\ v.parent # None
       /\ revision[v.parent].rules \cap Fixed \subseteq v.rules
  /\ v.kind = "IMPORT" => ~SameSource(v.parent, v.rules) \/ r \in overtaken
RevisionsOK ==
  /\ \A r \in Revs: revision[r] # None <=> r <= last
  /\ \A r \in 1..last: RevisionOK(r)
  /\ \A b \in Branches: branch[b] # "UNBORN" => \E r \in 1..last: revision[r].branch = b

(* Heads, and the only way to lose one.                                    *)
HeadsOK ==
  \A b \in Branches:
    /\ head[b] # None => OnBranch(head[b], b)
    /\ Live(b) /\ head[b] = None => condemned[b] # None
    /\ branch[b] = "GONE" => condemned[b] # None
    /\ condemned[b] # None => condemned[b] <= written

(* Publications: none was there when a deletion found none.                *)
PublishesOK ==
  /\ \A p \in publishes:
       /\ OnBranch(p.rev, p.branch) /\ p.at <= clock
       /\ p.reviewed => p.rev \in met /\ revision[p.rev].rules # {}
       /\ condemned[p.branch] # None => condemned[p.branch] < p.serial
  /\ \A p, o \in publishes: p.at = o.at => p = o

(* An import that holds the advisory lock of identity i: what imports have *)
(* made of it is in the snapshot.                                          *)
Importing(r) == r.pc \in {"IMPORT_LOCK", "IMPORT"}
LockOK(i, rows) ==
  \A c \in Branches: Live(c) /\ Identity[c] = i /\ MadeByImport(c) =>
    \E x \in rows: x.branch = c

(* An import that holds its branch too: the head is still the one it read, *)
(* or its identity still has no branch of an import's making.              *)
ImportOK(b, rev, rules, moved) ==
  /\ moved \/ ~SameSource(rev, rules)
  /\ \/ Live(b) /\ rev = head[b]
     \/ /\ branch[b] = "UNBORN" /\ rev = None
        /\ \A c \in Branches: Live(c) /\ Identity[c] = Identity[b] => ~MadeByImport(c)

ImportingOK(r) ==
  /\ r.pc = "IMPORT_LOCK" => LockOK(r.lock, r.rows)
  /\ r.pc = "IMPORT" => ImportOK(r.branch, r.rev, r.rules, r.moved)

(* What a request still knows about what it read.                          *)
RequestOK(r) ==
  /\ r.pc \notin {"IDLE", "ENDED", "IMPORT_LOCK"} => r.branch \in Branches
  /\ r.pc \notin {"IDLE", "ENDED", "IMPORT_LOCK", "IMPORT"} => branch[r.branch] # "UNBORN"
  /\ r.at <= clock /\ r.seen <= written
  /\ r.pc \in {"PUBLISH", "PACK_WRITE"} => r.at = 0
  /\ r.pc = "IMPORT_LOCK" => /\ r.rev = None /\ ~r.moved
                             /\ \A x \in r.rows: Identity[x.branch] = r.lock
  /\ r.pc = "IMPORT" => r.lock = Identity[r.branch]
  /\ ImportingOK(r)
  /\ r.pc \in {"PACK_PUBLISH", "PUBLISH", "INSERT", "ROLLBACK"} => OfBranch(r.rev, r.branch)
  /\ r.pc = "PACK_WRITE" /\ r.rev # None => OfBranch(r.rev, r.branch)
  /\ r.pc \in {"PUBLISH", "INSERT"} => r.rev \in met /\ revision[r.rev].rules # {}
  /\ r.pc \in {"UNSET_HEAD", "DELETE_PUBLISHES", "DELETE_BRANCH"} => condemned[r.branch] # None
  /\ r.pc = "ANSWERED" => PublishedBefore(r.branch, r.rev) \/ condemned[r.branch] # None
  /\ r.pc \in {"LAYERS", "SERVED"} => \A p \in publishes: p.serial <= r.seen => p.at <= r.at
  /\ r.pc = "SERVED" => \A p \in publishes: p.serial <= r.seen => p.at <= r.layers[p.branch]

(* An identity's advisory lock has one holder.                             *)
Exclusive ==
  \A q, p \in Requests:
    Importing(req[q]) /\ Importing(req[p]) /\ req[q].lock = req[p].lock => q = p

RequestsOK ==
  /\ \A q \in Requests, r \in Request: req[q] = r => RequestOK(r)
  /\ Exclusive

(* One live branch of an import's making for each identity.                *)
OneImport ==
  \A b, c \in Branches:
    /\ Live(b) /\ Live(c) /\ Identity[b] = Identity[c]
    /\ MadeByImport(b) /\ MadeByImport(c)
    => b = c

(* A quorum that stands is one that was met.                               *)
QuorumsOK == \A r \in Revs: Quorum(r, approval) => r \in met

(* Stamps that statements under way hold are no other's.                   *)
InFlight(r) == r.pc \in {"INSERT", "PACK_PUBLISH", "ROLLBACK"} /\ r.at # 0
StampsOK ==
  /\ \A q \in Requests, p \in publishes: InFlight(req[q]) => p.at # req[q].at
  /\ \A q, o \in Requests: InFlight(req[q]) /\ InFlight(req[o]) /\ req[q].at = req[o].at => q = o

PolicyIInv ==
  /\ TypeOK /\ RevisionsOK /\ HeadsOK /\ PublishesOK /\ RequestsOK /\ OneImport

-----------------------------------------------------------------------------
(* Types. *)

(* The bounds, and a request that has not begun.                          *)
LEMMA Facts ==
  ASSUME PolicyAssumption, NoneAssumption, TypeOK, RevisionsOK
  PROVE  /\ last \in Nat /\ clock \in Nat /\ written \in Nat /\ 1..last \subseteq Revs /\ Revs \subseteq Nat
         /\ None \notin Nat /\ None \notin Branches /\ None \notin Revs
         /\ \A r \in 1..last: revision[r] \in Revision
         /\ last < MaxRev => last + 1 \in Revs /\ last + 1 \notin 1..last
         /\ \A q \in Requests: req[q] \in Request
         /\ Idle \in Request /\ Idle.pc = "IDLE" /\ Idle.at = 0 /\ Idle.seen = 0
<1>1. /\ last \in Nat /\ clock \in Nat /\ written \in Nat /\ 1..last \subseteq Revs /\ Revs \subseteq Nat
      /\ None \notin Nat /\ None \notin Branches /\ None \notin Revs
      /\ last < MaxRev => last + 1 \in Revs /\ last + 1 \notin 1..last
  BY DEF TypeOK, PolicyAssumption, Revs
<1>2. \A r \in 1..last: revision[r] \in Revision
  BY <1>1 DEF RevisionsOK, TypeOK
<1>3. Idle \in Request /\ Idle.pc = "IDLE" /\ Idle.at = 0 /\ Idle.seen = 0
  <2>1. 0 \in 0..MaxPublish /\ "IDLE" \in Phases /\ {} \in SUBSET Rules
    BY DEF PolicyAssumption, Phases
  <2>2. NoLayers \in [Branches -> 0..MaxPublish]
    BY <2>1 DEF NoLayers
  <2> HIDE DEF NoLayers
  <2>3. QED
    BY <2>1, <2>2 DEF Idle, Request
<1>4. QED
  BY <1>1, <1>2, <1>3 DEF TypeOK

-----------------------------------------------------------------------------
(* What every step leaves as it was.                                       *)

(* Nothing is forgotten: revisions stay, a branch is born and dies once,   *)
(* publications go only after a deletion found none and come with a later  *)
(* serial.                                                                 *)
Grow ==
  /\ last <= last' /\ last' \in Nat /\ clock <= clock' /\ clock' \in Nat
  /\ written <= written' /\ written' \in Nat
  /\ \A i \in 1..last: revision'[i] = revision[i]
  /\ \A b \in Branches: /\ branch[b] # "UNBORN" => branch'[b] # "UNBORN"
                        /\ branch[b] = "GONE" => branch'[b] = "GONE"
                        /\ condemned[b] # None => condemned'[b] # None
  /\ met \subseteq met' /\ overtaken \subseteq overtaken'
  /\ \A p \in publishes \ publishes': condemned[p.branch] # None
  /\ \A p \in publishes' \ publishes: p.serial > written

LEMMA RequestStays ==
  ASSUME PolicyAssumption, NoneAssumption, TypeOK, TypeOK', RevisionsOK, Grow,
         NEW r \in Request, RequestOK(r),
         ImportingOK(r)'
  PROVE  RequestOK(r)'
<1> USE Facts
<1>0. r.at \in Nat /\ r.seen \in Nat /\ r.layers \in [Branches -> 0..MaxPublish]
  BY DEF Request
<1>1. /\ r.pc \notin {"IDLE", "ENDED", "IMPORT_LOCK"} => r.branch \in Branches
      /\ r.pc \notin {"IDLE", "ENDED", "IMPORT_LOCK", "IMPORT"} => branch'[r.branch] # "UNBORN"
      /\ r.at <= clock' /\ r.seen <= written'
      /\ r.pc \in {"PUBLISH", "PACK_WRITE"} => r.at = 0
      /\ r.pc = "IMPORT_LOCK" => /\ r.rev = None /\ ~r.moved
                                 /\ \A x \in r.rows: Identity[x.branch] = r.lock
      /\ r.pc = "IMPORT" => r.lock = Identity[r.branch]
  BY <1>0 DEF RequestOK, Grow
<1>2. \A i \in 1..last, b \in Branches: OfBranch(i, b) => OfBranch(i, b)'
  BY DEF OfBranch, Grow
<1>3. /\ r.pc \in {"PACK_PUBLISH", "PUBLISH", "INSERT", "ROLLBACK"} => OfBranch(r.rev, r.branch)'
      /\ r.pc = "PACK_WRITE" /\ r.rev # None => OfBranch(r.rev, r.branch)'
  BY <1>2 DEF RequestOK, OfBranch
<1>4. r.pc \in {"PUBLISH", "INSERT"} => r.rev \in met' /\ revision'[r.rev].rules # {}
  BY DEF RequestOK, OfBranch, Grow
<1>5. r.pc \in {"UNSET_HEAD", "DELETE_PUBLISHES", "DELETE_BRANCH"} => condemned'[r.branch] # None
  BY DEF RequestOK, Grow
<1>6. ASSUME r.pc = "ANSWERED"
      PROVE  PublishedBefore(r.branch, r.rev)' \/ condemned'[r.branch] # None
  <2>1. r.branch \in Branches
    BY <1>6 DEF RequestOK
  <2>2. CASE condemned[r.branch] # None
    BY <2>1, <2>2 DEF Grow
  <2>3. CASE condemned[r.branch] = None
    <3>1. PICK p \in publishes: p.branch = r.branch /\ p.rev = r.rev
      BY <1>6, <2>3 DEF RequestOK, PublishedBefore
    <3>2. p \in publishes'
      BY <2>3, <3>1 DEF Grow
    <3>3. QED
      BY <3>1, <3>2 DEF PublishedBefore
  <2>4. QED
    BY <2>2, <2>3
<1>7. ASSUME r.pc \in {"LAYERS", "SERVED"}, NEW p \in publishes', p.serial <= r.seen
      PROVE  p.at <= r.at /\ (r.pc = "SERVED" => p.at <= r.layers[p.branch])
  <2>1. p.serial \in Nat
    BY DEF TypeOK, Publish
  <2>2. p \in publishes
    BY <1>0, <1>7, <2>1 DEF Grow, RequestOK
  <2>3. QED
    BY <1>7, <2>2 DEF RequestOK
<1>8. QED
  BY <1>1, <1>3, <1>4, <1>5, <1>6, <1>7 DEF RequestOK

(* An import's making that is there now was there before, if the step made *)
(* none of that identity.                                                  *)
LEMMA MadeBefore ==
  ASSUME PolicyAssumption, NoneAssumption, TypeOK, TypeOK', RevisionsOK, Grow,
         NEW c \in Branches, Live(c)', MadeByImport(c)', MadeByImport(c)' => MadeByImport(c)
  PROVE  Live(c) /\ MadeByImport(c)
<1>1. PICK r \in 1..last: revision[r].branch = c
  BY DEF MadeByImport
<1>2. branch[c] # "UNBORN"
  BY <1>1, Facts DEF RevisionsOK, RevisionOK
<1>3. QED
  BY <1>2 DEF Live, TypeOK, Grow

(* An import under way keeps what it read.                                 *)
LEMMA ImportStays ==
  ASSUME PolicyAssumption, NoneAssumption, TypeOK, TypeOK', RevisionsOK, HeadsOK, Grow,
         NEW b \in Branches, NEW rev, NEW rules, NEW moved, ImportOK(b, rev, rules, moved),
         branch'[b] = branch[b], head'[b] = head[b],
         \A c \in Branches: Identity[c] = Identity[b] /\ MadeByImport(c)' => MadeByImport(c)
  PROVE  ImportOK(b, rev, rules, moved)'
<1> USE Facts
<1>1. rev # None => rev \in 1..last
  BY DEF ImportOK, HeadsOK, OnBranch
<1>2. moved \/ ~SameSource(rev, rules)'
  BY <1>1 DEF ImportOK, SameSource, Grow
<1>3. ASSUME NEW c \in Branches, Live(c)', Identity[c] = Identity[b], MadeByImport(c)'
      PROVE  Live(c) /\ MadeByImport(c)
  BY <1>3, MadeBefore
<1>4. QED
  BY <1>2, <1>3 DEF ImportOK, Live

(* And an import that waits for its branch has still seen every branch that *)
(* imports have made.                                                      *)
LEMMA LockStays ==
  ASSUME PolicyAssumption, NoneAssumption, TypeOK, TypeOK', RevisionsOK, Grow,
         NEW i, NEW rows, LockOK(i, rows),
         \A c \in Branches: Identity[c] = i /\ MadeByImport(c)' => MadeByImport(c)
  PROVE  LockOK(i, rows)'
<1>1. ASSUME NEW c \in Branches, Live(c)', Identity[c] = i, MadeByImport(c)'
      PROVE  Live(c) /\ MadeByImport(c)
  BY <1>1, MadeBefore
<1>2. QED
  BY <1>1 DEF LockOK

(* Both together, for a request that the step is not about.                *)
LEMMA OthersStay ==
  ASSUME PolicyAssumption, NoneAssumption, PolicyIInv, TypeOK', Grow,
         NEW q \in Requests, req'[q] = req[q],
         req[q].pc = "IMPORT" =>
           LET b == req[q].branch IN branch'[b] = branch[b] /\ head'[b] = head[b],
         Importing(req[q]) =>
           \A c \in Branches: Identity[c] = req[q].lock /\ MadeByImport(c)' => MadeByImport(c)
  PROVE  \A r \in Request: req'[q] = r => RequestOK(r)'
<1> SUFFICES ASSUME NEW r \in Request, req'[q] = r
             PROVE  RequestOK(r)'
  OBVIOUS
<1> USE DEF PolicyIInv
<1>1. RequestOK(r)
  BY DEF RequestsOK
<1>2. ASSUME r.pc = "IMPORT"
      PROVE  ImportOK(r.branch, r.rev, r.rules, r.moved)'
  <2>1. /\ r.branch \in Branches /\ r.lock = Identity[r.branch]
        /\ ImportOK(r.branch, r.rev, r.rules, r.moved)
    BY <1>1, <1>2 DEF RequestOK, ImportingOK
  <2>2. PICK b \in Branches, rev \in Revs \cup {None}, rules \in SUBSET Rules, moved \in BOOLEAN:
           r.branch = b /\ r.rev = rev /\ r.rules = rules /\ r.moved = moved
    BY <2>1 DEF Request
  <2>3. /\ branch'[b] = branch[b] /\ head'[b] = head[b]
        /\ \A c \in Branches: Identity[c] = Identity[b] /\ MadeByImport(c)' => MadeByImport(c)
    BY <1>2, <2>1, <2>2 DEF Importing
  <2>4. ImportOK(b, rev, rules, moved)'
    BY <2>1, <2>2, <2>3, ImportStays
  <2>5. QED
    BY <2>2, <2>4
<1>3. ASSUME r.pc = "IMPORT_LOCK"
      PROVE  LockOK(r.lock, r.rows)'
  <2>1. LockOK(r.lock, r.rows)
    BY <1>1, <1>3 DEF RequestOK, ImportingOK
  <2>2. PICK i, rows: i = r.lock /\ rows = r.rows
    OBVIOUS
  <2>3. \A c \in Branches: Identity[c] = i /\ MadeByImport(c)' => MadeByImport(c)
    BY <1>3, <2>2 DEF Importing
  <2>4. LockOK(i, rows)'
    BY <2>1, <2>2, <2>3, LockStays
  <2>5. QED
    BY <2>2, <2>4
<1>4. ImportingOK(r)'
  BY <1>2, <1>3 DEF ImportingOK
<1>5. QED
  BY <1>1, <1>4, RequestStays

-----------------------------------------------------------------------------
(* A new revision, whoever writes it.                                      *)

(* What each writer guarantees of the revision it appends to branch b,     *)
(* which it may just have made.                                            *)
AppendOK(b, parent, kind, rules) ==
  /\ Append(b, parent, kind, rules)
  /\ branch[b] # "GONE" /\ branch' = [branch EXCEPT ![b] = "LIVE"]
  /\ parent # None => OfBranch(parent, b)
  /\ kind \in {"DRAFT", "COMMIT"} =>
       parent # None /\ revision[parent].rules \cap Fixed \subseteq rules
  /\ kind = "IMPORT" => ~SameSource(parent, rules) \/ last' \in overtaken'
  /\ overtaken' \in {overtaken, overtaken \cup {last'}}
  /\ UNCHANGED <<publishes, clock, met, written, condemned>>

Appended(b, parent, kind, rules) ==
  /\ branch' \in [Branches -> {"UNBORN", "LIVE", "GONE"}]
  /\ head' \in [Branches -> Revs \cup {None}]
  /\ last' \in 0..MaxRev
  /\ revision' \in [Revs -> Revision \cup {None}]
  /\ last' = last + 1 /\ last' \in Revs
  /\ revision'[last'] = [branch |-> b, parent |-> parent, kind |-> kind, rules |-> rules]
  /\ \A i \in 1..last: revision'[i] = revision[i]
  /\ \A c \in Branches \ {b}: head'[c] = head[c] /\ branch'[c] = branch[c]
  /\ head'[b] = last' /\ branch'[b] = "LIVE"
  /\ Grow

(* The append, column by column.                                           *)
LEMMA Appends ==
  ASSUME PolicyAssumption, NoneAssumption, PolicyIInv,
         NEW b \in Branches, NEW parent \in Revs \cup {None}, NEW kind \in Kinds,
         NEW rules \in SUBSET Rules, AppendOK(b, parent, kind, rules)
  PROVE  Appended(b, parent, kind, rules)
<1> USE Facts DEF PolicyIInv, AppendOK, Append
<1> DEFINE v == [branch |-> b, parent |-> parent, kind |-> kind, rules |-> rules]
<1>1. v \in Revision
  BY DEF Revision
<1>2. last' = last + 1 /\ last' \in Revs /\ last' \in 0..MaxRev
  BY DEF Revs, PolicyAssumption
<1>3. /\ revision' = [revision EXCEPT ![last + 1] = v]
      /\ revision \in [Revs -> Revision \cup {None}]
  BY DEF TypeOK
<1> HIDE DEF v
<1>4. /\ revision' \in [Revs -> Revision \cup {None}] /\ revision'[last'] = v
      /\ \A i \in 1..last: revision'[i] = revision[i]
  BY <1>1, <1>2, <1>3
<1>5. /\ branch' \in [Branches -> {"UNBORN", "LIVE", "GONE"}]
      /\ head' \in [Branches -> Revs \cup {None}]
      /\ \A c \in Branches \ {b}: head'[c] = head[c] /\ branch'[c] = branch[c]
      /\ head'[b] = last' /\ branch'[b] = "LIVE"
  BY <1>2 DEF TypeOK
<1>6. Grow
  BY <1>2, <1>4, <1>5 DEF Grow
<1>7. QED
  BY <1>2, <1>4, <1>5, <1>6 DEF v, Appended

LEMMA AppendedRows ==
  ASSUME PolicyAssumption, NoneAssumption, PolicyIInv,
         NEW b \in Branches, NEW parent \in Revs \cup {None}, NEW kind \in Kinds,
         NEW rules \in SUBSET Rules, AppendOK(b, parent, kind, rules)
  PROVE  RevisionsOK' /\ HeadsOK' /\ PublishesOK'
<1> USE DEF PolicyIInv
<1>z. Appended(b, parent, kind, rules)
  BY Appends
<1> DEFINE v == [branch |-> b, parent |-> parent, kind |-> kind, rules |-> rules]
<1>0. /\ revision'[last'] = v /\ v.branch = b /\ v.parent = parent /\ v.kind = kind /\ v.rules = rules
      /\ v \in Revision /\ v # None
  BY <1>z DEF Revision, NoneAssumption, Appended
<1> HIDE DEF v
<1>l. last \in Nat /\ last' = last + 1 /\ last' \in Revs /\ last' \in 1..last' /\ last' \notin 1..last
  BY <1>z, Facts DEF Appended
<1>b. \A i \in 1..last': i = last' \/ i \in 1..last
  BY <1>l
<1>r. /\ \A i \in 1..last: revision'[i] = revision[i] /\ i \in 1..last' /\ revision[i] \in Revision
      /\ \A c \in Branches: c # b => head'[c] = head[c] /\ branch'[c] = branch[c]
      /\ head'[b] = last' /\ branch'[b] = "LIVE"
  <2>1. \A i \in 1..last: revision[i] \in Revision /\ i \in 1..last'
    BY <1>l, Facts
  <2>2. \A c \in Branches: c # b => head'[c] = head[c] /\ branch'[c] = branch[c]
    BY <1>z DEF Appended
  <2>3. head'[b] = last' /\ branch'[b] = "LIVE" /\ \A i \in 1..last: revision'[i] = revision[i]
    BY <1>z DEF Appended
  <2>4. QED
    BY <2>1, <2>2, <2>3
<1>c. \A i \in 1..last: /\ revision[i].branch \in Branches
                        /\ branch[revision[i].branch] # "UNBORN"
                        /\ revision[i].parent # None => revision[i].parent \in 1..last
  BY <1>r DEF RevisionsOK, RevisionOK, Revision
<1>1. \A r \in Revs: revision'[r] # None <=> r <= last'
  <2>1. TAKE r \in Revs
  <2>2. CASE r = last'
    BY <1>0, <1>l, <2>2
  <2>3. CASE r # last'
    <3>1. revision'[r] = revision[r]
      BY <1>l, <2>3 DEF AppendOK, Append, TypeOK
    <3>2. r <= last' <=> r <= last
      BY <1>l, <2>3 DEF Revs
    <3>3. QED
      BY <3>1, <3>2 DEF RevisionsOK
  <2>4. QED
    BY <2>2, <2>3
<1>2. ASSUME NEW r \in 1..last'
      PROVE  RevisionOK(r)'
  <2>1. CASE r = last'
    <3>1. parent # None =>
            /\ parent \in 1..last /\ parent < last' /\ parent \in 1..last'
            /\ revision'[parent] = revision[parent] /\ revision'[parent].branch = b
      BY <1>l, <1>r DEF AppendOK, OfBranch
    <3>2. kind = "IMPORT" => ~SameSource(parent, rules)' \/ r \in overtaken'
      BY <2>1, <3>1 DEF AppendOK, SameSource
    <3>3. kind \in {"DRAFT", "COMMIT"} =>
            parent # None /\ revision'[parent].rules \cap Fixed \subseteq rules
      BY <3>1 DEF AppendOK
    <3>4. /\ revision'[r].branch = b /\ revision'[r].parent = parent
          /\ revision'[r].kind = kind /\ revision'[r].rules = rules
      BY <1>0, <2>1
    <3>5. kind = "IMPORT" =>
            ~SameSource(revision[r].parent, revision[r].rules)' \/ r \in overtaken'
      BY <3>2, <3>4 DEF SameSource
    <3>6. branch'[b] # "UNBORN"
      BY <1>r
    <3>7. QED
      BY <2>1, <3>1, <3>3, <3>4, <3>5, <3>6 DEF RevisionOK
  <2>2. CASE r \in 1..last
    <3>1. /\ revision'[r] = revision[r] /\ RevisionOK(r)
          /\ revision[r].parent # None =>
               /\ revision[r].parent \in 1..last'
               /\ revision'[revision[r].parent] = revision[revision[r].parent]
      BY <1>c, <1>r, <2>2 DEF RevisionsOK
    <3>2. branch'[revision[r].branch] # "UNBORN"
      BY <1>c, <1>r, <2>2
    <3>3. SameSource(revision[r].parent, revision[r].rules)'
            => SameSource(revision[r].parent, revision[r].rules)
      BY <3>1 DEF SameSource
    <3>4. overtaken \subseteq overtaken'
      BY DEF AppendOK
    <3>5. QED
      BY <3>1, <3>2, <3>3, <3>4 DEF RevisionOK
  <2>3. QED
    BY <1>b, <2>1, <2>2
<1>3. ASSUME NEW c \in Branches, branch'[c] # "UNBORN"
      PROVE  \E r \in 1..last': revision'[r].branch = c
  <2>1. CASE c = b
    BY <1>0, <1>l, <2>1
  <2>2. CASE c # b
    <3>1. PICK r \in 1..last: revision[r].branch = c
      BY <1>3, <1>r, <2>2 DEF RevisionsOK
    <3>2. QED
      BY <1>r, <3>1
  <2>3. QED
    BY <2>1, <2>2
<1>4. RevisionsOK'
  BY <1>1, <1>2, <1>3 DEF RevisionsOK
<1>u. UNCHANGED <<publishes, clock, met, written, condemned>>
  BY DEF AppendOK
<1>5. HeadsOK'
  <2>1. ASSUME NEW c \in Branches
        PROVE  /\ head'[c] # None => OnBranch(head[c], c)'
               /\ branch'[c] = "LIVE" /\ head'[c] = None => condemned[c] # None
               /\ branch'[c] = "GONE" => condemned[c] # None
    <3>1. CASE c = b
      <4>1. OnBranch(head[c], c)'
        BY <1>0, <1>l, <1>r, <3>1 DEF OnBranch, Live
      <4>2. QED
        BY <1>l, <1>r, <3>1, <4>1, Facts
    <3>2. CASE c # b
      <4>1. head'[c] = head[c] /\ branch'[c] = branch[c]
        BY <1>r, <3>2
      <4>2. head[c] # None => OnBranch(head[c], c)'
        BY <1>r, <4>1 DEF HeadsOK, OnBranch, Live
      <4>3. QED
        BY <4>1, <4>2 DEF HeadsOK, Live
    <3>3. QED
      BY <3>1, <3>2
  <2>2. QED
    BY <1>u, <2>1 DEF HeadsOK, Live
<1>6. PublishesOK'
  <2>1. ASSUME NEW p \in publishes
        PROVE  OnBranch(p.rev, p.branch)' /\ revision'[p.rev] = revision[p.rev]
    <3>1. p.rev \in 1..last /\ p.branch \in Branches /\ OnBranch(p.rev, p.branch)
      BY DEF PublishesOK, OnBranch, TypeOK, Publish
    <3>2. branch'[p.branch] = "LIVE"
      BY <1>r, <3>1 DEF OnBranch, Live
    <3>3. QED
      BY <1>r, <3>1, <3>2 DEF OnBranch, Live
  <2>2. QED
    BY <1>u, <2>1 DEF PublishesOK
<1>7. QED
  BY <1>4, <1>5, <1>6

(* The first revision of a branch decides whether an import made it.       *)
LEMMA AppendedFirst ==
  ASSUME PolicyAssumption, NoneAssumption, PolicyIInv,
         NEW b \in Branches, NEW parent \in Revs \cup {None}, NEW kind \in Kinds,
         NEW rules \in SUBSET Rules, AppendOK(b, parent, kind, rules),
         NEW c \in Branches, MadeByImport(c)', ~(c = b /\ kind = "IMPORT" /\ branch[b] = "UNBORN")
  PROVE  MadeByImport(c)
<1> USE Facts DEF PolicyIInv
<1>z. Appended(b, parent, kind, rules)
  BY Appends
<1> USE <1>z DEF Appended
<1>1. PICK r \in 1..last': revision'[r].branch = c /\ revision'[r].kind = "IMPORT" /\ First(r)'
  BY DEF MadeByImport
<1>2. CASE r \in 1..last
  <2>1. revision'[r] = revision[r]
    BY <1>2
  <2>2. \A s \in 1..(r - 1): s \in 1..last /\ revision'[s] = revision[s]
    BY <1>2
  <2>3. First(r)
    BY <1>1, <2>1, <2>2 DEF First
  <2>4. QED
    BY <1>1, <1>2, <2>1, <2>3 DEF MadeByImport
<1>3. CASE r = last'
  <2>1. c = b /\ kind = "IMPORT" /\ branch[b] # "UNBORN"
    BY <1>1, <1>3
  <2>2. PICK s \in 1..last: revision[s].branch = b
    BY <2>1 DEF RevisionsOK
  <2>3. s \in 1..(last' - 1) /\ revision'[s].branch = b
    BY <2>2
  <2>4. QED
    BY <1>1, <1>3, <2>1, <2>3 DEF First
<1>4. QED
  BY <1>2, <1>3

-----------------------------------------------------------------------------
(* Steps.  The requests in `acting` move on, the others stay.              *)

Acts(acting) ==
  /\ acting \subseteq Requests
  /\ \A q \in Requests \ acting: req'[q] = req[q]
  /\ \A q \in acting, r \in Request: req'[q] = r => RequestOK(r)'

(* Nobody but an import's own request finds itself holding its locks.      *)
LEMMA StillExclusive ==
  ASSUME RequestsOK, NEW acting, Acts(acting), \A q \in acting: ~Importing(req'[q])
  PROVE  Exclusive'
BY DEF RequestsOK, Acts, Exclusive, Importing

(* What lets a revision in: no import holds the branch, an import holds    *)
(* its identity alone, and makes a branch only where none is of its kind.  *)
MayAppend(acting, b, kind) ==
  /\ \A q \in acting: ~Importing(req'[q])
  /\ \A q \in Requests \ acting:
       /\ req[q].pc = "IMPORT" => req[q].branch # b
       /\ Importing(req[q]) /\ kind = "IMPORT" => req[q].lock # Identity[b]
  /\ kind = "IMPORT" /\ branch[b] = "UNBORN" =>
       \A c \in Branches: Live(c) /\ Identity[c] = Identity[b] => ~MadeByImport(c)

(* A revision that may come in leaves the invariant as it was.             *)
LEMMA AppendStep ==
  ASSUME PolicyAssumption, NoneAssumption, PolicyIInv, TypeOK',
         NEW b \in Branches, NEW parent \in Revs \cup {None}, NEW kind \in Kinds,
         NEW rules \in SUBSET Rules, AppendOK(b, parent, kind, rules),
         NEW acting, Acts(acting), MayAppend(acting, b, kind)
  PROVE  PolicyIInv'
<1> USE DEF PolicyIInv, MayAppend
<1>1. Appended(b, parent, kind, rules) /\ Grow /\ RevisionsOK' /\ HeadsOK' /\ PublishesOK'
  <2>1. Appended(b, parent, kind, rules)
    BY Appends
  <2>2. RevisionsOK' /\ HeadsOK' /\ PublishesOK'
    BY AppendedRows
  <2>3. QED
    BY <2>1, <2>2 DEF Appended
<1>2. \A c \in Branches: c # b => head'[c] = head[c] /\ branch'[c] = branch[c]
  BY <1>1 DEF Appended
<1>3. \A c \in Branches:
        MadeByImport(c)' => MadeByImport(c) \/ (c = b /\ kind = "IMPORT" /\ branch[b] = "UNBORN")
  BY AppendedFirst
<1>4. ASSUME NEW q \in Requests
      PROVE  \A r \in Request: req'[q] = r => RequestOK(r)'
  <2>1. CASE q \in acting
    BY <2>1 DEF Acts
  <2>2. CASE q \notin acting
    <3>1. req'[q] = req[q]
      BY <2>2 DEF Acts
    <3>2. ASSUME req[q].pc = "IMPORT"
          PROVE  LET c == req[q].branch IN branch'[c] = branch[c] /\ head'[c] = head[c]
      <4>1. req[q] \in Request /\ RequestOK(req[q])
        BY Facts DEF RequestsOK
      <4>2. req[q].branch \in Branches /\ req[q].branch # b
        BY <2>2, <3>2, <4>1 DEF RequestOK
      <4>3. QED
        BY <1>2, <4>2
    <3>3. Importing(req[q]) =>
            \A d \in Branches: Identity[d] = req[q].lock /\ MadeByImport(d)' => MadeByImport(d)
      BY <1>3, <2>2
    <3>4. QED
      BY <1>1, <3>1, <3>2, <3>3, OthersStay
  <2>3. QED
    BY <2>1, <2>2
<1>5. Exclusive'
  BY StillExclusive
<1>6. OneImport'
  <2>1. ASSUME NEW c \in Branches, Live(c)', MadeByImport(c)'
        PROVE  \/ Live(c) /\ MadeByImport(c)
               \/ c = b /\ kind = "IMPORT" /\ branch[b] = "UNBORN"
    <3>1. CASE c = b
      <4>1. branch[b] \in {"UNBORN", "LIVE"}
        BY DEF AppendOK, TypeOK
      <4>2. CASE branch[b] = "LIVE"
        BY <1>3, <2>1, <3>1, <4>2 DEF Live
      <4>3. CASE branch[b] = "UNBORN"
        <5>1. ~MadeByImport(b)
          <6>1. SUFFICES ASSUME NEW r \in 1..last, revision[r].branch = b PROVE FALSE
            BY DEF MadeByImport
          <6>2. QED
            BY <4>3, <6>1 DEF RevisionsOK, RevisionOK
        <5>2. QED
          BY <1>3, <2>1, <3>1, <5>1
      <4>4. QED
        BY <4>1, <4>2, <4>3
    <3>2. CASE c # b
      BY <1>2, <1>3, <2>1, <3>2 DEF Live
    <3>3. QED
      BY <3>1, <3>2
  <2>2. QED
    BY <2>1 DEF OneImport
<1>7. QED
  BY <1>1, <1>4, <1>5, <1>6 DEF RequestsOK

(* Steps that write no revision.                                           *)
LEMMA QuietStep ==
  ASSUME PolicyAssumption, NoneAssumption, PolicyIInv, TypeOK', Grow,
         UNCHANGED <<last, revision>>,
         \A b \in Branches: branch[b] = "UNBORN" <=> branch'[b] = "UNBORN",
         HeadsOK', PublishesOK',
         NEW acting, Acts(acting), Exclusive',
         \A q \in Requests \ acting: req[q].pc = "IMPORT" =>
           /\ branch'[req[q].branch] = branch[req[q].branch]
           /\ head'[req[q].branch] = head[req[q].branch]
  PROVE  PolicyIInv'
<1> USE DEF PolicyIInv
<1>1. \A c \in Branches: MadeByImport(c)' <=> MadeByImport(c)
  BY DEF MadeByImport, First
<1>2. \A r \in 1..last: revision[r].branch \in Branches
  BY Facts DEF Revision
<1>o. overtaken \subseteq overtaken'
  BY DEF Grow
<1>3. RevisionsOK'
  BY <1>2, <1>o DEF RevisionsOK, RevisionOK, SameSource
<1>4. ASSUME NEW q \in Requests
      PROVE  \A r \in Request: req'[q] = r => RequestOK(r)'
  <2>1. CASE q \in acting
    BY <2>1 DEF Acts
  <2>2. CASE q \notin acting
    BY <1>1, <2>2, OthersStay DEF Acts
  <2>3. QED
    BY <2>1, <2>2
<1>5. \A b \in Branches: Live(b)' /\ MadeByImport(b)' => Live(b) /\ MadeByImport(b)
  BY <1>1 DEF Live, TypeOK, Grow
<1>6. OneImport'
  BY <1>5 DEF OneImport
<1>7. QED
  BY <1>3, <1>4, <1>6 DEF RequestsOK

(* Steps that change requests, approvals and the history of quorums only.  *)
LEMMA ReadStep ==
  ASSUME PolicyAssumption, NoneAssumption, PolicyIInv, TypeOK',
         UNCHANGED <<branch, head, last, revision, publishes, clock, written, condemned, overtaken>>,
         met \subseteq met',
         NEW acting, Acts(acting), Exclusive'
  PROVE  PolicyIInv'
<1> USE DEF PolicyIInv
<1>1. Grow
  BY Facts DEF Grow
<1>2. HeadsOK' /\ PublishesOK'
  BY DEF HeadsOK, PublishesOK, OnBranch, Live
<1>3. QED
  BY <1>1, <1>2, QuietStep

(* Requests by their fields, and the type of a step that appends.          *)
LEMMA Moves ==
  ASSUME PolicyAssumption, NoneAssumption, PolicyIInv, NEW q \in Requests, NEW r \in Request,
         Become(q, r)
  PROVE  /\ req' \in [Requests -> Request] /\ req'[q] = r
         /\ \A p \in Requests \ {q}: req'[p] = req[p]
BY DEF PolicyIInv, TypeOK, Become

LEMMA AppendTypes ==
  ASSUME PolicyAssumption, NoneAssumption, PolicyIInv,
         NEW b \in Branches, NEW parent \in Revs \cup {None}, NEW kind \in Kinds,
         NEW rules \in SUBSET Rules, AppendOK(b, parent, kind, rules),
         req' \in [Requests -> Request],
         approval' \in [Revs -> [Reviewers -> Approval \cup {None}]]
  PROVE  TypeOK'
<1>1. Appended(b, parent, kind, rules)
  BY Appends
<1>2. QED
  BY <1>1 DEF Appended, AppendOK, PolicyIInv, TypeOK

(* A branch that exists and whose row no import holds.                     *)
LEMMA OnLive ==
  ASSUME PolicyAssumption, NoneAssumption, PolicyIInv, NEW b \in Branches
  PROVE  /\ Live(b) => branch[b] # "GONE" /\ branch = [branch EXCEPT ![b] = "LIVE"]
         /\ \A r \in Revs: OnBranch(r, b) => Live(b) /\ OfBranch(r, b) /\ revision[r] \in Revision
BY Facts DEF PolicyIInv, TypeOK, Live, OnBranch, OfBranch

(* A revision appended by no request of the model.                         *)
LEMMA AuthorAppends ==
  ASSUME PolicyAssumption, NoneAssumption, PolicyIInv, NEW b \in Branches,
         NEW parent \in Revs \cup {None}, NEW kind \in Kinds, kind # "IMPORT",
         NEW rules \in SUBSET Rules, AppendOK(b, parent, kind, rules),
         req' = req, approval' \in [Revs -> [Reviewers -> Approval \cup {None}]],
         \A q \in Requests: req[q].pc = "IMPORT" => req[q].branch # b
  PROVE  PolicyIInv'
<1>1. req' \in [Requests -> Request]
  BY DEF PolicyIInv, TypeOK
<1>2. TypeOK'
  BY <1>1, AppendTypes
<1>3. PICK acting \in SUBSET Requests: acting = {}
  OBVIOUS
<1>4. Acts(acting)
  BY <1>3 DEF Acts
<1>5. MayAppend(acting, b, kind)
  BY <1>3 DEF MayAppend
<1>6. QED
  BY <1>2, <1>4, <1>5, AppendStep

(* Branches, drafts and commits.                                           *)
LEMMA AuthorStep ==
  ASSUME PolicyAssumption, NoneAssumption, PolicyIInv, NEW b \in Branches, Author(b)
  PROVE  PolicyIInv'
<1> USE OnLive DEF PolicyIInv
<1>1. CASE CreateBranch(b)
  <2>1. PICK rules \in Payloads: Append(b, None, "UPLOAD", rules)
    BY <1>1 DEF CreateBranch
  <2>2. rules \in SUBSET Rules /\ "UPLOAD" \in Kinds
    BY DEF PolicyAssumption, Kinds
  <2>3. AppendOK(b, None, "UPLOAD", rules)
    BY <1>1, <2>1 DEF CreateBranch, AppendOK, Fresh, Born, history
  <2>4. QED
    BY <1>1, <2>2, <2>3, AuthorAppends DEF CreateBranch, Fresh, TypeOK
<1>2. ASSUME NEW base \in Revs, Draft(b, base)
      PROVE  PolicyIInv'
  <2>1. revision[base].rules \in SUBSET Rules /\ "DRAFT" \in Kinds /\ base # None
    BY <1>2, Facts DEF Draft, OnBranch, Revision, Kinds
  <2>2. AppendOK(b, base, "DRAFT", revision[base].rules)
    BY <1>2, <2>1 DEF Draft, AppendOK, history
  <2>3. QED
    BY <1>2, <2>1, <2>2, AuthorAppends DEF Draft, Unlocked, TypeOK
<1>3. ASSUME NEW parent \in Revs, NEW rules \in Payloads, NEW unread \in BOOLEAN,
             Commit(b, parent, rules, unread)
      PROVE  PolicyIInv'
  <2>1. PICK kind \in {"OTHER", "COMMIT"}: kind = IF unread THEN "OTHER" ELSE "COMMIT"
    OBVIOUS
  <2>2. rules \in SUBSET Rules /\ kind \in Kinds \ {"IMPORT"} /\ parent # None
    BY <2>1, Facts DEF PolicyAssumption, Kinds
  <2>3. AppendOK(b, parent, kind, rules)
    BY <1>3, <2>1, <2>2 DEF Commit, AppendOK, history
  <2>4. NoApprovals \in [Reviewers -> Approval \cup {None}]
    BY DEF NoApprovals
  <2>5. approval' \in [Revs -> [Reviewers -> Approval \cup {None}]]
    <3> HIDE DEF NoApprovals
    <3>1. QED
      BY <1>3, <2>4 DEF Commit, TypeOK
  <2>6. QED
    BY <1>3, <2>2, <2>3, <2>5, AuthorAppends DEF Commit, Unlocked
<1>4. QED
  BY <1>1, <1>2, <1>3 DEF Author

(* Decisions of reviewers.                                                 *)
LEMMA ReviewStep ==
  ASSUME PolicyAssumption, NoneAssumption, PolicyIInv,
         NEW r \in Revs, NEW v \in Reviewers, NEW role \in Roles, NEW approved \in BOOLEAN,
         Review(r, v, role, approved)
  PROVE  PolicyIInv'
<1> USE DEF PolicyIInv
<1>1. approval' \in [Revs -> [Reviewers -> Approval \cup {None}]]
  <2> DEFINE a == approval[r][v]
             x == IF a = None THEN role ELSE a.role
             c == [role |-> x, approved |-> approved]
  <2>1. a \in Approval \cup {None} /\ approval[r] \in [Reviewers -> Approval \cup {None}]
    BY DEF TypeOK
  <2>2. c \in Approval
    BY <2>1 DEF Approval
  <2>3. approval' = [approval EXCEPT ![r][v] = c]
    BY DEF Review
  <2> HIDE DEF c
  <2>4. [approval[r] EXCEPT ![v] = c] \in [Reviewers -> Approval \cup {None}]
    BY <2>1, <2>2
  <2>5. QED
    BY <2>3, <2>4 DEF TypeOK
<1>2. met \subseteq met' /\ met' \subseteq Revs
  BY DEF Review, TypeOK
<1>3. TypeOK'
  BY <1>1, <1>2 DEF Review, TypeOK
<1>4. Acts({})
  BY DEF Review, Acts
<1>5. Exclusive'
  BY <1>4, StillExclusive
<1>6. QED
  BY <1>2, <1>3, <1>4, <1>5, ReadStep DEF Review

-----------------------------------------------------------------------------
(* Requests. *)

rowVars == <<tables, history>>

(* A request that reads, or ends.                                          *)
LEMMA RequestStep ==
  ASSUME PolicyAssumption, NoneAssumption, PolicyIInv, NEW q \in Requests, NEW r \in Request,
         Become(q, r), RequestOK(r)', UNCHANGED rowVars,
         Importing(r) => AdvisoryFree(r.lock) \/ (Importing(req[q]) /\ req[q].lock = r.lock)
  PROVE  PolicyIInv'
<1> USE DEF rowVars, tables, history
<1>1. /\ req' \in [Requests -> Request] /\ req'[q] = r
      /\ \A p \in Requests \ {q}: req'[p] = req[p]
  BY Moves
<1>2. TypeOK'
  BY <1>1 DEF PolicyIInv, TypeOK
<1>3. PICK acting \in SUBSET Requests: acting = {q}
  OBVIOUS
<1>4. Acts(acting)
  BY <1>1, <1>3 DEF Acts
<1>5. Exclusive'
  BY <1>1 DEF Exclusive, Importing, PolicyIInv, RequestsOK, AdvisoryFree
<1>6. QED
  BY <1>2, <1>4, <1>5, ReadStep

(* A request that appends a revision.                                      *)
LEMMA RequestAppends ==
  ASSUME PolicyAssumption, NoneAssumption, PolicyIInv, NEW q \in Requests, NEW r \in Request,
         Become(q, r), RequestOK(r)', ~Importing(r), approval' = approval,
         NEW b \in Branches, NEW parent \in Revs \cup {None}, NEW kind \in Kinds,
         NEW rules \in SUBSET Rules, AppendOK(b, parent, kind, rules),
         \A p \in Requests \ {q}:
           /\ req[p].pc = "IMPORT" => req[p].branch # b
           /\ Importing(req[p]) /\ kind = "IMPORT" => req[p].lock # Identity[b],
         kind = "IMPORT" /\ branch[b] = "UNBORN" =>
           \A c \in Branches: Live(c) /\ Identity[c] = Identity[b] => ~MadeByImport(c)
  PROVE  PolicyIInv'
<1>1. /\ req' \in [Requests -> Request] /\ req'[q] = r
      /\ \A p \in Requests \ {q}: req'[p] = req[p]
  BY Moves
<1>2. TypeOK'
  BY <1>1, AppendTypes DEF PolicyIInv, TypeOK
<1>3. PICK acting \in SUBSET Requests: acting = {q}
  OBVIOUS
<1>4. Acts(acting) /\ \A p \in acting: ~Importing(req'[p])
  BY <1>1, <1>3 DEF Acts
<1>5. MayAppend(acting, b, kind)
  BY <1>3, <1>4 DEF MayAppend
<1>6. QED
  BY <1>2, <1>4, <1>5, AppendStep

(* What a request that ends remembers.                                     *)
LEMMA Ended ==
  ASSUME PolicyAssumption, NoneAssumption, PolicyIInv, NEW r \in Request,
         r.pc = "ENDED", r.at = 0, r.seen = 0, clock' \in Nat, written' \in Nat
  PROVE  RequestOK(r)'
BY DEF RequestOK, ImportingOK

(* A request that begins.                                                  *)
LEMMA BeginStep ==
  ASSUME PolicyAssumption, NoneAssumption, PolicyIInv, QuorumsOK, NEW q \in Requests, NEW b \in Branches,
         Begin(q, b)
  PROVE  PolicyIInv'
<1> USE DEF PolicyIInv
<1>f. /\ Idle \in Request /\ Idle.at = 0 /\ Idle.seen = 0
      /\ clock \in Nat /\ written \in Nat /\ last \in Nat
      /\ None \notin Branches /\ None \notin Nat
  BY Facts
<1>p. \A x \in Payloads: x \in SUBSET Rules
  BY DEF PolicyAssumption
<1>h. head[b] \in Revs \cup {None}
  BY DEF TypeOK
<1>1. ASSUME NEW rules \in Payloads, ImportBegins(q, Identity[b], rules)
      PROVE  PolicyIInv'
  <2>1. PICK i \in Identities: i = Identity[b]
    BY DEF Identities
  <2>2. PICK rows \in SUBSET SeenHead:
          rows = {x \in SeenHead: /\ Live(x.branch) /\ Identity[x.branch] = i
                                  /\ x.head = head[x.branch]}
    OBVIOUS
  <2> DEFINE t == [Idle EXCEPT !.pc = "IMPORT_LOCK", !.lock = i, !.rules = rules, !.rows = rows]
  <2>3. /\ t \in Request /\ t.pc = "IMPORT_LOCK" /\ t.lock = i /\ t.rows = rows
        /\ t.rev = None /\ ~t.moved /\ t.at = 0 /\ t.seen = 0
    BY <1>f, <1>p DEF Request, Phases, Idle
  <2>4. Become(q, t)
    BY <1>1, <2>1, <2>2 DEF ImportBegins
  <2> HIDE DEF t
  <2>5. PICK r \in Request: r = t
    BY <2>3
  <2>6. LockOK(i, rows)
    <3>1. SUFFICES ASSUME NEW c \in Branches, Live(c), Identity[c] = i
                   PROVE  \E x \in rows: x.branch = c
      BY DEF LockOK
    <3>2. [branch |-> c, head |-> head[c]] \in SeenHead
      BY DEF SeenHead, TypeOK
    <3>3. QED
      BY <2>2, <3>1, <3>2
  <2>7. UNCHANGED rowVars
    BY <1>1 DEF ImportBegins, rowVars
  <2>8. LockOK(i, rows)'
    BY <2>6, <2>7 DEF LockOK, Live, MadeByImport, First, rowVars, tables
  <2>9. RequestOK(r)'
    <3>1. /\ r.pc = "IMPORT_LOCK" /\ r.lock = i /\ r.rows = rows /\ r.rev = None /\ ~r.moved
          /\ r.at = 0 /\ r.seen = 0
      BY <2>3, <2>5
    <3>2. \A x \in rows: Identity[x.branch] = i
      BY <2>2
    <3>3. clock' \in Nat /\ written' \in Nat
      BY <1>f, <2>7 DEF rowVars, tables, history
    <3>4. ImportingOK(r)'
      BY <2>8, <3>1 DEF ImportingOK
    <3>5. QED
      BY <3>1, <3>2, <3>3, <3>4 DEF RequestOK
  <2>10. AdvisoryFree(r.lock)
    BY <1>1, <2>1, <2>3, <2>5 DEF ImportBegins
  <2>11. QED
    BY <2>4, <2>5, <2>7, <2>9, <2>10, RequestStep
<1>2. CASE PackInstall(q, b)
  <2>1. PICK rules \in Payloads \ {{}}: Append(b, None, "OTHER", rules)
    BY <1>2 DEF PackInstall
  <2>2. rules \in SUBSET Rules /\ "OTHER" \in Kinds /\ None \in Revs \cup {None}
    BY <1>p DEF Kinds
  <2>3. AppendOK(b, None, "OTHER", rules)
    BY <1>2, <2>1 DEF PackInstall, AppendOK, Fresh, Born, history
  <2>4. Appended(b, None, "OTHER", rules)
    BY <2>2, <2>3, Appends
  <2> DEFINE t == [Idle EXCEPT !.pc = "PACK_PUBLISH", !.branch = b, !.rev = last']
  <2>5. t \in Request /\ t.pc = "PACK_PUBLISH" /\ t.branch = b /\ t.rev = last' /\ t.at = 0 /\ t.seen = 0
    BY <1>f, <2>4 DEF Request, Phases, Appended
  <2>6. Become(q, t)
    BY <1>2 DEF PackInstall
  <2> HIDE DEF t
  <2>7. PICK r \in Request: r = t
    BY <2>5
  <2>8. OfBranch(r.rev, r.branch)'
    BY <1>f, <2>4, <2>5, <2>7 DEF OfBranch, Appended
  <2>9. RequestOK(r)'
    BY <1>f, <2>3, <2>4, <2>5, <2>7, <2>8 DEF RequestOK, ImportingOK, Appended, AppendOK
  <2>10. \A p \in Requests \ {q}: req[p].pc = "IMPORT" => req[p].branch # b
    BY <1>2 DEF PackInstall, Fresh
  <2>11. QED
    BY <1>2, <2>2, <2>3, <2>5, <2>6, <2>7, <2>9, <2>10, RequestAppends DEF PackInstall, Importing
<1>3. ASSUME NEW upstream \in Payloads, NEW preserve \in BOOLEAN, PackRead(q, b, upstream, preserve)
      PROVE  PolicyIInv'
  <2> DEFINE kept == IF preserve /\ head[b] # None THEN revision[head[b]].rules ELSE {}
             rules == upstream \cup kept
             t == [Idle EXCEPT !.pc = "PACK_WRITE", !.branch = b, !.rev = head[b], !.rules = rules]
  <2>0. Live(b) /\ (head[b] # None => OfBranch(head[b], b))
    BY <1>3 DEF PackRead, HeadsOK, OnBranch, OfBranch
  <2>1. rules \in SUBSET Rules
    <3>1. head[b] # None => revision[head[b]] \in Revision
      BY <2>0, Facts DEF OfBranch
    <3>2. kept \in SUBSET Rules
      BY <3>1 DEF Revision
    <3> HIDE DEF kept
    <3>3. QED
      BY <1>p, <3>2
  <2>2. Become(q, t)
    BY <1>3 DEF PackRead
  <2> HIDE DEF rules
  <2>3. t \in Request /\ t.pc = "PACK_WRITE" /\ t.branch = b /\ t.rev = head[b] /\ t.at = 0 /\ t.seen = 0
    BY <1>f, <1>h, <2>1 DEF Request, Phases
  <2> HIDE DEF t
  <2>4. PICK r \in Request: r = t
    BY <2>3
  <2>5. UNCHANGED rowVars
    BY <1>3 DEF PackRead, rowVars
  <2>6. RequestOK(r)'
    BY <1>f, <2>0, <2>3, <2>4, <2>5 DEF RequestOK, ImportingOK, OfBranch, Live, rowVars, tables, history
  <2>7. QED
    BY <2>2, <2>3, <2>4, <2>5, <2>6, RequestStep DEF Importing
<1>4. ASSUME NEW rev \in Revs, PublishCheck(q, b, rev) \/ RollbackCheck(q, b, rev)
      PROVE  PolicyIInv'
  <2>1. PICK pc \in {"PUBLISH", "ROLLBACK"}:
          /\ Become(q, [Idle EXCEPT !.pc = pc, !.branch = b, !.rev = rev])
          /\ OnBranch(rev, b)
          /\ pc = "PUBLISH" => PublishCheck(q, b, rev)
    BY <1>4 DEF PublishCheck, RollbackCheck
  <2> DEFINE t == [Idle EXCEPT !.pc = pc, !.branch = b, !.rev = rev]
  <2>2. t \in Request /\ t.pc = pc /\ t.branch = b /\ t.rev = rev /\ t.at = 0 /\ t.seen = 0
    BY <1>f DEF Request, Phases
  <2> HIDE DEF t
  <2>3. UNCHANGED rowVars
    BY <1>4 DEF PublishCheck, RollbackCheck, rowVars
  <2>4. pc = "PUBLISH" => rev \in met /\ revision[rev].rules # {}
    BY <2>1 DEF PublishCheck, QuorumsOK
  <2>5. RequestOK(t)
    BY <1>f, <2>1, <2>2, <2>4 DEF RequestOK, ImportingOK, OnBranch, OfBranch, Live
  <2>6. PICK r \in Request: r = t
    BY <2>2
  <2>7. RequestOK(r)'
    BY <2>1, <2>2, <2>3, <2>5, <2>6 DEF RequestOK, ImportingOK, OfBranch, rowVars, tables, history
  <2>8. Become(q, r) /\ ~Importing(r)
    BY <2>1, <2>2, <2>6 DEF t, Importing
  <2>9. QED
    BY <2>3, <2>7, <2>8, RequestStep
<1>5. CASE DeleteCheck(q, b)
  <2> DEFINE t == [Idle EXCEPT !.pc = "UNSET_HEAD", !.branch = b]
  <2>1. t \in Request /\ t.pc = "UNSET_HEAD" /\ t.branch = b /\ t.at = 0 /\ t.seen = 0
    BY <1>f DEF Request, Phases
  <2>2. Become(q, t) /\ Live(b) /\ ~Published(b)
    BY <1>5 DEF DeleteCheck
  <2> HIDE DEF t
  <2>3. PICK r \in Request: r = t
    BY <2>1
  <2>4. /\ req' \in [Requests -> Request] /\ req'[q] = r
        /\ \A p \in Requests \ {q}: req'[p] = req[p]
    BY <2>2, <2>3, Moves
  <2>5. /\ UNCHANGED <<branch, head, last, revision, approval, publishes, clock, met, written,
                       overtaken>>
        /\ condemned' \in [Branches -> Nat \cup {None}]
        /\ condemned'[b] = IF condemned[b] = None THEN written ELSE condemned[b]
        /\ \A c \in Branches: c # b => condemned'[c] = condemned[c]
    BY <1>5, <1>f DEF DeleteCheck, TypeOK, tables
  <2>6. condemned'[b] # None /\ condemned'[b] <= written
    BY <1>f, <2>5 DEF HeadsOK
  <2>7. TypeOK'
    BY <2>4, <2>5 DEF TypeOK
  <2>8. Grow
    BY <1>f, <2>5, <2>6 DEF Grow
  <2>9. HeadsOK'
    BY <2>5, <2>6 DEF HeadsOK, OnBranch, Live
  <2>10. PublishesOK'
    <3>1. \A p \in publishes: p.branch \in Branches /\ p.branch # b
      BY <2>2 DEF Published, TypeOK, Publish
    <3>2. QED
      BY <2>5, <3>1 DEF PublishesOK, OnBranch, Live
  <2>11. RequestOK(r)'
    BY <1>f, <2>1, <2>2, <2>3, <2>5, <2>6 DEF RequestOK, ImportingOK, Live
  <2>12. PICK acting \in SUBSET Requests: acting = {q}
    OBVIOUS
  <2>13. Acts(acting) /\ \A p \in acting: ~Importing(req'[p])
    BY <2>1, <2>3, <2>4, <2>11, <2>12 DEF Acts, Importing
  <2>14. Exclusive'
    BY <2>13, StillExclusive
  <2>15. QED
    BY <2>5, <2>7, <2>8, <2>9, <2>10, <2>13, <2>14, QuietStep
<1>6. QED
  BY <1>1, <1>2, <1>3, <1>4, <1>5 DEF Begin

(* A request that goes on to another phase with what it has read.          *)
LEMMA GotoStep ==
  ASSUME PolicyAssumption, NoneAssumption, PolicyIInv, NEW q \in Requests, NEW pc \in Phases,
         Goto(q, pc)
  PROVE  /\ req' \in [Requests -> Request] /\ req'[q] \in Request
         /\ req'[q].pc = pc /\ req'[q].branch = req[q].branch /\ req'[q].rev = req[q].rev
         /\ req'[q].at = req[q].at /\ req[q].at <= clock
         /\ req'[q].seen = req[q].seen /\ req[q].seen <= written
         /\ \A p \in Requests \ {q}: req'[p] = req[p]
<1>1. req[q] \in Request /\ RequestOK(req[q])
  BY DEF PolicyIInv, TypeOK, RequestsOK
<1>2. PICK r \in Request: r = [req[q] EXCEPT !.pc = pc]
  BY <1>1 DEF Request
<1>3. /\ r.pc = pc /\ r.branch = req[q].branch /\ r.rev = req[q].rev /\ r.at = req[q].at
      /\ r.seen = req[q].seen
  BY <1>1, <1>2 DEF Request
<1>4. Become(q, r)
  BY <1>2 DEF Goto
<1>5. QED
  BY <1>1, <1>3, <1>4, Moves DEF RequestOK

(* A publication, or none on a branch that is gone.                        *)
LEMMA Inserts ==
  ASSUME PolicyAssumption, NoneAssumption, PolicyIInv,
         NEW b \in Branches, NEW rev, OfBranch(rev, b), branch[b] # "UNBORN",
         NEW reviewed \in BOOLEAN, reviewed => rev \in met /\ revision[rev].rules # {},
         NEW at \in Nat,
         Live(b) => at \in Stamps /\ at <= clock /\ \A p \in publishes: p.at # at,
         Insert(b, rev, reviewed, at),
         UNCHANGED <<branch, last, revision, clock, met, condemned, overtaken>>,
         head' = head \/ (Live(b) /\ head' = [head EXCEPT ![b] = rev])
  PROVE  /\ publishes' \subseteq Publish /\ written' \in Nat
         /\ head' \in [Branches -> Revs \cup {None}]
         /\ Grow /\ HeadsOK' /\ PublishesOK'
         /\ PublishedBefore(b, rev)' \/ condemned'[b] # None
<1> USE DEF PolicyIInv
<1>0. /\ rev \in Revs /\ rev \in 1..last /\ last \in Nat /\ clock \in Nat /\ written \in Nat
      /\ rev # None /\ None \notin Nat
  BY Facts DEF OfBranch
<1>1. head' \in [Branches -> Revs \cup {None}]
  BY <1>0 DEF TypeOK
<1>2. ASSUME NEW c \in Branches, head'[c] # None
      PROVE  OnBranch(head[c], c)'
  <2>1. CASE head'[c] = head[c]
    BY <1>2, <2>1 DEF HeadsOK, OnBranch, Live
  <2>2. CASE head'[c] # head[c]
    <3>1. c = b /\ head'[c] = rev /\ Live(b)
      BY <2>2 DEF TypeOK
    <3>2. QED
      BY <1>0, <3>1 DEF OfBranch, OnBranch, Live
  <2>3. QED
    BY <2>1, <2>2
<1>3. ASSUME NEW c \in Branches, head'[c] = None
      PROVE  head[c] = None
  BY <1>0, <1>3 DEF TypeOK
<1>4. CASE Live(b)
  <2> DEFINE x == Row(b, rev, reviewed, at)
  <2>1. written' = written + 1 /\ publishes' = publishes \cup {x}
    BY <1>0, <1>4 DEF Insert
  <2>2. /\ x \in Publish /\ x.at = at /\ x.serial = written + 1 /\ x.branch = b /\ x.rev = rev
        /\ x.reviewed = reviewed
    BY <1>0, <1>4 DEF Row, Publish
  <2> HIDE DEF x
  <2>3. Grow
    BY <1>0, <2>1, <2>2 DEF Grow
  <2>4. HeadsOK'
    BY <1>0, <1>2, <1>3, <2>1 DEF HeadsOK, Live, TypeOK
  <2>5. \A p \in publishes: p.at <= clock /\ p.at # at /\ p.branch \in Branches
    BY <1>4 DEF PublishesOK, TypeOK, Publish
  <2>6. condemned[b] # None => condemned[b] < x.serial
    BY <1>0, <2>2 DEF HeadsOK, TypeOK
  <2>7. OnBranch(x.rev, x.branch)
    BY <1>0, <1>4, <2>2 DEF OnBranch, OfBranch
  <2>8. PublishesOK'
    BY <1>0, <1>4, <2>1, <2>2, <2>5, <2>6, <2>7 DEF PublishesOK, OnBranch, Live
  <2>9. PublishedBefore(b, rev)'
    BY <2>1, <2>2 DEF PublishedBefore
  <2>10. publishes' \subseteq Publish
    BY <2>1, <2>2 DEF TypeOK
  <2>11. QED
    BY <1>0, <1>1, <2>1, <2>3, <2>4, <2>8, <2>9, <2>10
<1>5. CASE ~Live(b)
  <2>1. UNCHANGED <<publishes, written, head>>
    BY <1>5 DEF Insert
  <2>2. condemned[b] # None
    BY <1>5 DEF HeadsOK, Live, TypeOK
  <2>3. HeadsOK' /\ PublishesOK' /\ Grow
    BY <1>0, <2>1 DEF HeadsOK, PublishesOK, Grow, OnBranch, Live
  <2>4. QED
    BY <1>1, <2>1, <2>2, <2>3 DEF TypeOK
<1>6. QED
  BY <1>4, <1>5

(* A step of one request on the rows of one branch that no import holds.   *)
LEMMA BranchStep ==
  ASSUME PolicyAssumption, NoneAssumption, PolicyIInv, TypeOK', Grow,
         UNCHANGED <<last, revision>>,
         \A c \in Branches: branch[c] = "UNBORN" <=> branch'[c] = "UNBORN",
         HeadsOK', PublishesOK',
         NEW q \in Requests, \A p \in Requests \ {q}: req'[p] = req[p],
         ~Importing(req'[q]), NEW r \in Request, req'[q] = r, RequestOK(r)',
         NEW b \in Branches,
         (\A c \in Branches: branch'[c] = branch[c] /\ head'[c] = head[c]) \/ Unlocked(b),
         \A c \in Branches: c # b => branch'[c] = branch[c] /\ head'[c] = head[c]
  PROVE  PolicyIInv'
<1>1. PICK acting \in SUBSET Requests: acting = {q}
  OBVIOUS
<1>2. Acts(acting) /\ \A p \in acting: ~Importing(req'[p])
  BY <1>1 DEF Acts
<1>3. Exclusive'
  BY <1>2, StillExclusive DEF PolicyIInv
<1>4. ASSUME NEW p \in Requests \ acting, req[p].pc = "IMPORT"
      PROVE  /\ branch'[req[p].branch] = branch[req[p].branch]
             /\ head'[req[p].branch] = head[req[p].branch]
  <2>1. req[p].branch \in Branches
    BY <1>4 DEF PolicyIInv, RequestsOK, RequestOK, TypeOK
  <2>2. QED
    BY <1>4, <2>1 DEF Unlocked
<1>5. QED
  BY <1>2, <1>3, <1>4, QuietStep

(* Requests that append: the import's write, and a pack's.                 *)
LEMMA ImportWriteStep ==
  ASSUME PolicyAssumption, NoneAssumption, PolicyIInv, NEW q \in Requests, ImportWrite(q)
  PROVE  PolicyIInv'
<1> USE DEF PolicyIInv
<1>1. /\ req[q].pc = "IMPORT" /\ req[q] \in Request /\ RequestOK(req[q])
      /\ Idle \in Request /\ Idle.at = 0 /\ Idle.seen = 0 /\ clock \in Nat /\ written \in Nat
  BY Facts DEF ImportWrite, RequestsOK
<1>2. PICK b \in Branches, parent \in Revs \cup {None}, rules \in SUBSET Rules, moved \in BOOLEAN:
        /\ b = req[q].branch /\ parent = req[q].rev /\ rules = req[q].rules
        /\ moved = req[q].moved
  BY <1>1 DEF RequestOK, Request
<1>3. ImportOK(b, parent, rules, moved) /\ req[q].lock = Identity[b]
  BY <1>1, <1>2 DEF RequestOK, ImportingOK
<1>4. /\ branch[b] # "GONE" /\ (parent # None => OfBranch(parent, b))
      /\ branch[b] = "UNBORN" =>
           \A c \in Branches: Live(c) /\ Identity[c] = Identity[b] => ~MadeByImport(c)
  BY <1>3 DEF ImportOK, Live, HeadsOK, OnBranch, OfBranch
<1>5. AppendOK(b, parent, "IMPORT", rules)
  <2>1. /\ moved \/ ~SameSource(parent, rules)
        /\ overtaken' = IF moved THEN overtaken \cup {last'} ELSE overtaken
    BY <1>2, <1>3 DEF ImportWrite, ImportOK
  <2>2. QED
    BY <1>2, <1>4, <2>1 DEF ImportWrite, AppendOK, Born
<1> DEFINE t == [Idle EXCEPT !.pc = "ENDED"]
<1>6. t \in Request /\ t.pc = "ENDED" /\ t.at = 0 /\ t.seen = 0 /\ Become(q, t)
  BY <1>1 DEF Request, Phases, ImportWrite, End
<1> HIDE DEF t
<1>7. PICK r \in Request: r = t
  BY <1>6
<1>8. RequestOK(r)'
  BY <1>1, <1>5, <1>6, <1>7, Ended DEF AppendOK
<1>9. /\ \A p \in Requests \ {q}: Importing(req[p]) => req[p].lock # Identity[b]
      /\ \A p \in Requests \ {q}: req[p].pc = "IMPORT" => req[p].branch # b
  <2>1. ASSUME NEW p \in Requests \ {q}, Importing(req[p])
        PROVE  req[p].lock # Identity[b]
    BY <1>1, <1>3, <2>1 DEF RequestsOK, Exclusive, Importing
  <2>2. ASSUME NEW p \in Requests, req[p].pc = "IMPORT"
        PROVE  req[p].lock = Identity[req[p].branch]
    BY <2>2, Facts DEF RequestsOK, RequestOK
  <2>3. QED
    BY <2>1, <2>2 DEF Importing
<1>10. "IMPORT" \in Kinds /\ approval' = approval
  BY DEF Kinds, ImportWrite
<1>11. QED
  BY <1>4, <1>5, <1>6, <1>7, <1>8, <1>9, <1>10, RequestAppends DEF Importing

LEMMA PackWriteStep ==
  ASSUME PolicyAssumption, NoneAssumption, PolicyIInv, NEW q \in Requests, PackWrite(q)
  PROVE  PolicyIInv'
<1> USE DEF PolicyIInv
<1>1. /\ req[q].pc = "PACK_WRITE" /\ req[q] \in Request /\ RequestOK(req[q])
      /\ clock \in Nat /\ written \in Nat /\ last \in Nat /\ req[q].seen <= written
  BY Facts DEF PackWrite, RequestsOK, RequestOK
<1>2. PICK b \in Branches, parent \in Revs \cup {None}, rules \in SUBSET Rules:
        b = req[q].branch /\ parent = req[q].rev /\ rules = req[q].rules
  BY <1>1 DEF RequestOK, Request
<1>3. Live(b) /\ Unlocked(b) /\ (parent # None => OfBranch(parent, b))
  BY <1>1, <1>2 DEF RequestOK, PackWrite
<1>4. AppendOK(b, parent, "OTHER", rules)
  BY <1>2, <1>3, OnLive DEF PackWrite, AppendOK, history
<1>5. "OTHER" \in Kinds /\ approval' = approval
  BY DEF Kinds, PackWrite
<1>6. Appended(b, parent, "OTHER", rules)
  BY <1>4, <1>5, Appends
<1> DEFINE t == [req[q] EXCEPT !.pc = "PACK_PUBLISH", !.rev = last']
<1>7. /\ t \in Request /\ t.pc = "PACK_PUBLISH" /\ t.branch = b /\ t.rev = last' /\ t.at = req[q].at
      /\ t.seen = req[q].seen /\ Become(q, t)
  BY <1>1, <1>2, <1>6 DEF Request, Phases, PackWrite, Appended
<1> HIDE DEF t
<1>8. PICK r \in Request: r = t
  BY <1>7
<1>9. OfBranch(r.rev, r.branch)'
  BY <1>1, <1>6, <1>7, <1>8 DEF OfBranch, Appended
<1>10. r.at <= clock' /\ r.seen <= written'
  BY <1>1, <1>4, <1>7, <1>8 DEF RequestOK, AppendOK
<1>11. RequestOK(r)'
  BY <1>6, <1>7, <1>8, <1>9, <1>10 DEF RequestOK, ImportingOK, Appended
<1>12. \A p \in Requests \ {q}: req[p].pc = "IMPORT" => req[p].branch # b
  BY <1>3 DEF Unlocked
<1>13. QED
  BY <1>4, <1>5, <1>7, <1>8, <1>11, <1>12, RequestAppends DEF Importing

(* A statement that takes its stamp.                                       *)
LEMMA StatementStep ==
  ASSUME PolicyAssumption, NoneAssumption, PolicyIInv, NEW q \in Requests, StatementBegins(q)
  PROVE  PolicyIInv'
<1> USE DEF PolicyIInv
<1>1. /\ req[q].pc \in {"INSERT", "PACK_PUBLISH", "ROLLBACK"} /\ RequestOK(req[q])
      /\ req[q] \in Request /\ clock \in Nat /\ written \in Nat
  BY Facts DEF StatementBegins, RequestsOK
<1>2. clock' = clock + 1 /\ clock' \in 0..MaxPublish
  BY <1>1 DEF StatementBegins, PolicyAssumption
<1> DEFINE t == [req[q] EXCEPT !.at = clock + 1]
<1>3. /\ t \in Request /\ t.pc = req[q].pc /\ t.branch = req[q].branch /\ t.rev = req[q].rev
      /\ t.at = clock + 1 /\ t.seen = req[q].seen /\ Become(q, t)
  BY <1>1, <1>2 DEF Request, StatementBegins
<1> HIDE DEF t
<1>4. PICK r \in Request: r = t
  BY <1>3
<1>5. /\ req' \in [Requests -> Request] /\ req'[q] = r
      /\ \A p \in Requests \ {q}: req'[p] = req[p]
  BY <1>3, <1>4, Moves
<1>6. UNCHANGED <<branch, head, last, revision, approval, publishes, met, written, condemned,
                  overtaken>>
  BY DEF StatementBegins, history
<1>7. TypeOK' /\ Grow
  BY <1>1, <1>2, <1>5, <1>6, Facts DEF TypeOK, Grow
<1>8. \A p \in publishes: p.at \in Nat /\ p.at <= clock
  BY DEF TypeOK, Publish, Stamps, PublishesOK
<1>9. HeadsOK' /\ PublishesOK'
  BY <1>1, <1>2, <1>6, <1>8 DEF HeadsOK, PublishesOK, OnBranch, Live
<1>10. RequestOK(r)'
  BY <1>1, <1>2, <1>3, <1>4, <1>6 DEF RequestOK, ImportingOK, OfBranch
<1>11. PICK b \in Branches: b = req[q].branch
  BY <1>1 DEF RequestOK
<1>12. ~Importing(req'[q])
  BY <1>1, <1>3, <1>4, <1>5 DEF Importing
<1>13. QED
  BY <1>5, <1>6, <1>7, <1>9, <1>10, <1>11, <1>12, BranchStep

(* Requests that insert a publication.                                     *)
LEMMA InsertStep ==
  ASSUME PolicyAssumption, NoneAssumption, PolicyIInv, StampsOK, NEW q \in Requests,
         PublishInsert(q) \/ RollbackWrite(q)
  PROVE  PolicyIInv'
<1> USE DEF PolicyIInv
<1>1. /\ req[q].pc \in {"INSERT", "PACK_PUBLISH", "ROLLBACK"} /\ RequestOK(req[q])
      /\ req[q] \in Request /\ clock \in Nat /\ written \in Nat
  BY Facts DEF PublishInsert, RollbackWrite, RequestsOK
<1>2. PICK b \in Branches, rev \in Revs, at \in 0..MaxPublish:
        b = req[q].branch /\ rev = req[q].rev /\ at = req[q].at
  BY <1>1, Facts DEF RequestOK, OfBranch, Request
<1>3. PICK reviewed \in BOOLEAN: reviewed <=> req[q].pc = "INSERT"
  OBVIOUS
<1>4. /\ OfBranch(rev, b) /\ branch[b] # "UNBORN"
      /\ reviewed => rev \in met /\ revision[rev].rules # {}
  BY <1>1, <1>2, <1>3 DEF RequestOK
<1> DEFINE t == [req[q] EXCEPT !.pc = "ANSWERED", !.at = 0]
<1>5. /\ Insert(b, rev, reviewed, at)
      /\ UNCHANGED <<branch, last, revision, approval, clock, met, condemned, overtaken>>
      /\ head' = head \/ (Live(b) /\ head' = [head EXCEPT ![b] = rev])
      /\ Live(b) => at # 0
      /\ Become(q, t)
  <2>1. CASE PublishInsert(q)
    <3>1. CASE req[q].pc = "INSERT"
      BY <1>2, <1>3, <2>1, <3>1 DEF PublishInsert
    <3>2. CASE req[q].pc = "PACK_PUBLISH"
      BY <1>2, <1>3, <2>1, <3>2 DEF PublishInsert
    <3>3. QED
      BY <2>1, <3>1, <3>2 DEF PublishInsert
  <2>2. CASE RollbackWrite(q)
    <3>1. reviewed = FALSE
      BY <1>3, <2>2 DEF RollbackWrite
    <3>2. QED
      BY <1>2, <2>2, <3>1 DEF RollbackWrite
  <2>3. QED
    BY <2>1, <2>2
<1>6. Live(b) => at \in Stamps /\ at <= clock /\ \A p \in publishes: p.at # at
  BY <1>1, <1>2, <1>5 DEF StampsOK, InFlight, Stamps, RequestOK, PolicyAssumption
<1>7. /\ publishes' \subseteq Publish /\ written' \in Nat
      /\ head' \in [Branches -> Revs \cup {None}]
      /\ Grow /\ HeadsOK' /\ PublishesOK'
      /\ PublishedBefore(b, rev)' \/ condemned'[b] # None
  <2>1. at \in Nat
    BY DEF PolicyAssumption
  <2>2. QED
    BY <1>4, <1>5, <1>6, <2>1, Inserts
<1>8. /\ t \in Request /\ t.pc = "ANSWERED" /\ t.branch = b /\ t.rev = rev
      /\ t.at = 0 /\ t.seen = req[q].seen
  <2>1. 0 \in 0..MaxPublish /\ "ANSWERED" \in Phases
    BY DEF Phases, PolicyAssumption
  <2>2. QED
    BY <1>1, <1>2, <2>1 DEF Request
<1> HIDE DEF t
<1>9. PICK r \in Request: r = t
  BY <1>8
<1>10. /\ req' \in [Requests -> Request] /\ req'[q] = r
       /\ \A p \in Requests \ {q}: req'[p] = req[p]
  BY <1>5, <1>9, Moves
<1>11. TypeOK'
  BY <1>5, <1>7, <1>10 DEF TypeOK
<1>12. r.at <= clock' /\ r.seen <= written'
  BY <1>1, <1>5, <1>7, <1>8, <1>9 DEF Grow, Request, RequestOK
<1>13. RequestOK(r)'
  BY <1>4, <1>5, <1>7, <1>8, <1>9, <1>12 DEF RequestOK, ImportingOK
<1>14. (\A c \in Branches: branch'[c] = branch[c] /\ head'[c] = head[c]) \/ Unlocked(b)
  BY <1>5 DEF Insert
<1>15. \A c \in Branches: c # b => branch'[c] = branch[c] /\ head'[c] = head[c]
  BY <1>5 DEF TypeOK
<1>16. /\ UNCHANGED <<last, revision>> /\ ~Importing(req'[q])
       /\ \A c \in Branches: branch[c] = "UNBORN" <=> branch'[c] = "UNBORN"
  BY <1>5, <1>8, <1>9, <1>10 DEF Importing
<1>17. QED
  BY <1>7, <1>10, <1>11, <1>13, <1>14, <1>15, <1>16, BranchStep

(* Requests that delete a branch, one statement after the other.           *)
LEMMA DeleteStep ==
  ASSUME PolicyAssumption, NoneAssumption, PolicyIInv, NEW q \in Requests,
         UnsetHead(q) \/ DeletePublishes(q) \/ DeleteBranch(q)
  PROVE  PolicyIInv'
<1> USE DEF PolicyIInv
<1>1. /\ req[q].pc \in {"UNSET_HEAD", "DELETE_PUBLISHES", "DELETE_BRANCH"}
      /\ req[q] \in Request /\ RequestOK(req[q])
      /\ clock \in Nat /\ written \in Nat /\ last \in Nat /\ None \notin Nat
      /\ Idle \in Request /\ Idle.at = 0 /\ Idle.seen = 0
  BY Facts DEF UnsetHead, DeletePublishes, DeleteBranch, RequestsOK
<1>2. PICK b \in Branches: b = req[q].branch
  BY <1>1 DEF RequestOK
<1>3. condemned[b] # None /\ branch[b] # "UNBORN"
  BY <1>1, <1>2 DEF RequestOK
<1>4. UNCHANGED <<last, revision, clock, met, written, condemned, overtaken>>
  BY DEF UnsetHead, DeletePublishes, DeleteBranch, history
<1>5. /\ publishes' \subseteq publishes
      /\ \A p \in publishes \ publishes': p.branch = b
  <2>1. CASE DeletePublishes(q)
    BY <1>2, <2>1 DEF DeletePublishes
  <2>2. CASE UnsetHead(q) \/ DeleteBranch(q)
    BY <2>2 DEF UnsetHead, DeleteBranch
  <2>3. QED
    BY <2>1, <2>2
<1>6. /\ head' \in [Branches -> Revs \cup {None}]
      /\ branch' \in [Branches -> {"UNBORN", "LIVE", "GONE"}]
      /\ \A c \in Branches: c # b => branch'[c] = branch[c] /\ head'[c] = head[c]
      /\ branch'[b] # "UNBORN" /\ (branch[b] = "GONE" => branch'[b] = "GONE")
      /\ (\A c \in Branches: branch'[c] = branch[c] /\ head'[c] = head[c])
           \/ (Unlocked(b) /\ head'[b] = None)
      /\ branch'[b] # branch[b] => ~Published(b) /\ UNCHANGED publishes
  <2>1. CASE UnsetHead(q)
    BY <1>2, <1>3, <2>1 DEF UnsetHead, TypeOK
  <2>2. CASE DeletePublishes(q)
    BY <1>2, <1>3, <2>2 DEF DeletePublishes, TypeOK
  <2>3. CASE DeleteBranch(q)
    BY <1>2, <1>3, <2>3 DEF DeleteBranch, TypeOK
  <2>4. QED
    BY <2>1, <2>2, <2>3
<1>7. approval' \in [Revs -> [Reviewers -> Approval \cup {None}]]
  <2>1. NoApprovals \in [Reviewers -> Approval \cup {None}]
    BY DEF NoApprovals
  <2>2. CASE DeleteBranch(q)
    BY <1>2, <2>1, <2>2 DEF DeleteBranch, TypeOK
  <2>3. CASE UnsetHead(q) \/ DeletePublishes(q)
    BY <2>3 DEF UnsetHead, DeletePublishes, TypeOK
  <2>4. QED
    BY <2>2, <2>3
<1>8. /\ req' \in [Requests -> Request] /\ req'[q] \in Request
      /\ req'[q].pc \in {"DELETE_PUBLISHES", "DELETE_BRANCH", "ENDED"}
      /\ req'[q].pc # "ENDED" => req'[q].branch = b
      /\ req'[q].at <= clock /\ req'[q].seen <= written
      /\ \A p \in Requests \ {q}: req'[p] = req[p]
  <2>1. CASE UnsetHead(q) \/ DeletePublishes(q)
    <3>1. PICK pc \in {"DELETE_PUBLISHES", "DELETE_BRANCH"}: Goto(q, pc)
      BY <2>1 DEF UnsetHead, DeletePublishes
    <3>2. pc \in Phases
      BY DEF Phases
    <3>3. QED
      BY <1>2, <3>1, <3>2, GotoStep
  <2>2. CASE DeleteBranch(q)
    <3> DEFINE t == [Idle EXCEPT !.pc = "ENDED"]
    <3>1. t \in Request /\ t.pc = "ENDED" /\ t.at = 0 /\ t.seen = 0 /\ Become(q, t)
      BY <1>1, <2>2 DEF Request, Phases, DeleteBranch, End
    <3> HIDE DEF t
    <3>2. QED
      BY <1>1, <3>1, Moves
  <2>3. QED
    BY <2>1, <2>2
<1>9. TypeOK'
  BY <1>4, <1>5, <1>6, <1>7, <1>8 DEF TypeOK
<1>10. Grow
  BY <1>1, <1>3, <1>4, <1>5, <1>6 DEF Grow
<1>11. HeadsOK'
  <2>1. ASSUME NEW c \in Branches, c # b
        PROVE  /\ head'[c] # None => OnBranch(head[c], c)'
               /\ Live(c)' /\ head'[c] = None => condemned'[c] # None
               /\ branch'[c] = "GONE" => condemned'[c] # None
               /\ condemned'[c] # None => condemned'[c] <= written'
    BY <1>4, <1>6, <2>1 DEF HeadsOK, OnBranch, Live
  <2>2. /\ head'[b] # None => OnBranch(head[b], b)'
        /\ condemned'[b] # None /\ condemned'[b] <= written'
    BY <1>3, <1>4, <1>6 DEF HeadsOK, OnBranch, Live
  <2>3. QED
    BY <2>1, <2>2 DEF HeadsOK
<1>12. PublishesOK'
  <2>1. ASSUME NEW p \in publishes'
        PROVE  p \in publishes /\ p.branch \in Branches /\ branch'[p.branch] = branch[p.branch]
    <3>1. p \in publishes /\ p.branch \in Branches
      BY <1>5 DEF TypeOK, Publish
    <3>2. p.branch = b /\ branch'[b] # branch[b] => FALSE
      BY <1>6, <3>1 DEF Published
    <3>3. QED
      BY <1>6, <3>1, <3>2
  <2>2. QED
    BY <1>4, <2>1 DEF PublishesOK, OnBranch, Live
<1>13. PICK r \in Request: r = req'[q]
  BY <1>8
<1>14. RequestOK(r)'
  BY <1>3, <1>4, <1>6, <1>8, <1>13 DEF RequestOK, ImportingOK
<1>15. \A c \in Branches: branch[c] = "UNBORN" <=> branch'[c] = "UNBORN"
  BY <1>3, <1>6
<1>16. UNCHANGED <<last, revision>> /\ ~Importing(req'[q])
  BY <1>4, <1>8 DEF Importing
<1>17. (\A c \in Branches: branch'[c] = branch[c] /\ head'[c] = head[c]) \/ Unlocked(b)
  BY <1>6
<1>18. QED
  BY <1>6, <1>8, <1>9, <1>10, <1>11, <1>12, <1>13, <1>14, <1>15, <1>16, <1>17, BranchStep

-----------------------------------------------------------------------------
(* The bundle. *)

(* A bounded set of numbers that is not empty has a greatest one.         *)
LEMMA HasMax ==
  ASSUME NEW n \in Nat, NEW S \in SUBSET (1..n), S # {}
  PROVE  \E t \in S: \A u \in S: u <= t
<1> DEFINE T == {n - t : t \in S}
<1> DEFINE R == OpToRel(<, Nat)
<1>0. \A y, x \in Nat: y < x => <<y, x>> \in R
  <2>1. TAKE y, x \in Nat
  <2>2. HAVE y < x
  <2>3. <<y, x>> \in Nat \X Nat /\ <<y, x>>[1] = y /\ <<y,x>>[2] = x
    OBVIOUS
  <2>4. <<y, x>>[1] < <<y, x>>[2]
    BY <2>2, <2>3
  <2>5. QED
    BY <2>3, <2>4, Zenon DEF OpToRel
<1>a. IsWellFoundedOn(R, Nat)
  BY NatLessThanWellFounded, Zenon
<1>1. T \subseteq Nat /\ T # {}
  <2>1. \A t \in S: n - t \in Nat
    OBVIOUS
  <2>2. QED
    BY <2>1
<1>2. \E x \in T: \A y \in T: ~(<<y, x>> \in R)
  <2> HIDE DEF T, R
  <2>1. QED
    BY <1>1, <1>a, WFMin
<1> HIDE DEF R
<1>3. PICK x \in T: \A y \in T: ~(<<y, x>> \in R)
  BY <1>2
<1>4. PICK t \in S: x = n - t
  OBVIOUS
<1>5. ASSUME NEW u \in S PROVE u <= t
  <2>1. n - u \in T /\ n - u \in Nat /\ x \in Nat /\ t \in Nat /\ u \in Nat
    BY <1>1, <1>4
  <2>2. ~(n - u < x)
    BY <1>0, <1>3, <2>1
  <2>3. QED
    BY <1>4, <2>1, <2>2
<1>6. QED
  BY <1>5

(* The layer of a branch is its latest publication.                        *)
LEMMA Latest ==
  ASSUME PolicyAssumption, NoneAssumption, PolicyIInv, NEW b \in Branches
  PROVE  /\ LatestOf(b) \in 0..MaxPublish
         /\ \A p \in publishes: p.branch = b => p.at <= LatestOf(b)
<1> DEFINE stamps == {p.at: p \in {x \in publishes: x.branch = b}}
<1>0. MaxPublish \in Nat /\ stamps \in SUBSET (1..MaxPublish)
  BY DEF PolicyAssumption, PolicyIInv, TypeOK, Publish, Stamps
<1>1. \A p \in publishes: p.branch = b => p.at \in stamps
  OBVIOUS
<1>t. \A t \in stamps: t \in 0..MaxPublish
  BY <1>0
<1>2. LatestOf(b) = IF stamps = {} THEN 0
                    ELSE CHOOSE t \in stamps: \A u \in stamps: u <= t
  BY DEF LatestOf
<1> HIDE DEF stamps
<1>3. CASE stamps = {}
  BY <1>0, <1>1, <1>2, <1>3
<1>4. CASE stamps # {}
  <2>1. \E t \in stamps: \A u \in stamps: u <= t
    BY <1>0, <1>4, HasMax
  <2>2. LatestOf(b) \in stamps /\ \A u \in stamps: u <= LatestOf(b)
    BY <1>2, <1>4, <2>1
  <2>3. LatestOf(b) \in 0..MaxPublish
    BY <1>t, <2>2
  <2>4. \A p \in publishes: p.branch = b => p.at <= LatestOf(b)
    BY <1>1, <2>2
  <2>5. QED
    BY <2>3, <2>4
<1>5. QED
  BY <1>3, <1>4

(* An import that gets the lock of its branch, or finds none to lock.      *)
LEMMA ImportReadStep ==
  ASSUME PolicyAssumption, NoneAssumption, PolicyIInv, NEW q \in Requests, ImportRead(q)
  PROVE  PolicyIInv'
<1> USE DEF PolicyIInv
<1>0. UNCHANGED rowVars
  BY DEF ImportRead, rowVars
<1>1. /\ req[q].pc = "IMPORT_LOCK" /\ req[q] \in Request /\ RequestOK(req[q])
      /\ clock \in Nat /\ written \in Nat
  BY Facts DEF ImportRead, RequestsOK
<1>2. /\ LockOK(req[q].lock, req[q].rows) /\ req[q].rev = None /\ req[q].moved = FALSE
      /\ \A x \in req[q].rows: Identity[x.branch] = req[q].lock /\ x.branch \in Branches
      /\ req[q].at <= clock /\ req[q].seen <= written
  BY <1>1 DEF RequestOK, ImportingOK, Request, SeenHead
<1>3. SUFFICES ASSUME NEW t \in Request, Become(q, t), t.pc = "IMPORT", t.lock = req[q].lock,
                      t.branch \in Branches, t.lock = Identity[t.branch],
                      t.at = req[q].at, t.seen = req[q].seen,
                      ImportOK(t.branch, t.rev, t.rules, t.moved)
               PROVE  PolicyIInv'
  <2>1. ASSUME NEW x \in req[q].rows, Live(x.branch),
               head[x.branch] = x.head => ~SameSource(x.head, req[q].rules),
               Become(q, [req[q] EXCEPT !.pc = "IMPORT", !.branch = x.branch, !.rows = {},
                 !.rev = head[x.branch], !.moved = (head[x.branch] # x.head)])
        PROVE  PolicyIInv'
    <3>1. PICK c \in Branches: c = x.branch
      BY <1>2
    <3>2. PICK rev \in Revs \cup {None}: rev = head[c]
      BY DEF TypeOK
    <3>3. PICK moved \in BOOLEAN: moved = (head[c] # x.head)
      OBVIOUS
    <3> DEFINE t == [req[q] EXCEPT !.pc = "IMPORT", !.branch = c, !.rows = {},
                                   !.rev = rev, !.moved = moved]
    <3>4. Become(q, t)
      BY <2>1, <3>1, <3>2, <3>3, Zenon
    <3>5. /\ t \in Request /\ t.pc = "IMPORT" /\ t.branch = c /\ t.rev = rev /\ t.moved = moved
          /\ t.lock = req[q].lock /\ t.at = req[q].at /\ t.seen = req[q].seen
          /\ t.rules = req[q].rules
      BY <1>1 DEF Request, Phases
    <3> HIDE DEF t
    <3>6. moved \/ ~SameSource(rev, req[q].rules)
      BY <2>1, <3>1, <3>2, <3>3
    <3>7. ImportOK(t.branch, t.rev, t.rules, t.moved)
      BY <2>1, <3>1, <3>2, <3>5, <3>6 DEF ImportOK
    <3>8. t.lock = Identity[t.branch]
      BY <1>2, <3>1, <3>5
    <3>9. QED
      BY <1>3, <3>4, <3>5, <3>7, <3>8
  <2>2. ASSUME NEW b \in Branches, \A x \in req[q].rows: ~Live(x.branch),
               Fresh(b), Identity[b] = req[q].lock,
               Become(q, [req[q] EXCEPT !.pc = "IMPORT", !.branch = b, !.rows = {}])
        PROVE  PolicyIInv'
    <3> DEFINE t == [req[q] EXCEPT !.pc = "IMPORT", !.branch = b, !.rows = {}]
    <3>1. /\ t \in Request /\ t.pc = "IMPORT" /\ t.branch = b /\ t.rev = None
          /\ t.lock = req[q].lock /\ t.at = req[q].at /\ t.seen = req[q].seen
      BY <1>1, <1>2 DEF Request, Phases
    <3>2. Become(q, t)
      BY <2>2
    <3> HIDE DEF t
    <3>3. \A c \in Branches: Live(c) /\ Identity[c] = Identity[b] => ~MadeByImport(c)
      BY <1>2, <2>2 DEF LockOK
    <3>4. ImportOK(t.branch, t.rev, t.rules, t.moved)
      BY <2>2, <3>1, <3>3 DEF ImportOK, SameSource, Fresh
    <3>5. t.branch \in Branches /\ t.lock = Identity[t.branch]
      BY <2>2, <3>1
    <3>6. QED
      BY <1>3, <3>1, <3>2, <3>4, <3>5
  <2>3. QED
    BY <2>1, <2>2 DEF ImportRead
<1>4. PICK b \in Branches, rev \in Revs \cup {None}, rules \in SUBSET Rules, moved \in BOOLEAN:
        b = t.branch /\ rev = t.rev /\ rules = t.rules /\ moved = t.moved
  BY <1>3 DEF Request
<1>5. ImportOK(b, rev, rules, moved)'
  BY <1>0, <1>3, <1>4 DEF ImportOK, SameSource, Live, MadeByImport, First, rowVars, tables
<1>6. RequestOK(t)'
  BY <1>0, <1>2, <1>3, <1>4, <1>5 DEF RequestOK, ImportingOK, rowVars, tables, history
<1>7. QED
  BY <1>0, <1>1, <1>3, <1>6, RequestStep DEF Importing

(* Requests that only read, and those that end.                            *)
LEMMA ReaderStep ==
  ASSUME PolicyAssumption, NoneAssumption, PolicyIInv, NEW q \in Requests,
         PublishFindsRow(q) \/ ServeLatest(q) \/ ServeLayers(q) \/ Abandon(q)
  PROVE  PolicyIInv'
<1> USE DEF PolicyIInv
<1>0. UNCHANGED rowVars
  BY DEF PublishFindsRow, ServeLatest, ServeLayers, Abandon, rowVars
<1>1. /\ req[q] \in Request /\ RequestOK(req[q]) /\ clock \in Nat /\ written \in Nat
      /\ Idle \in Request /\ Idle.at = 0 /\ Idle.seen = 0
  BY Facts DEF RequestsOK
<1>2. SUFFICES ASSUME NEW t \in Request, Become(q, t), RequestOK(t), ~Importing(t)
               PROVE  PolicyIInv'
  <2>1. CASE PublishFindsRow(q)
    <3> DEFINE found == PublishedBefore(req[q].branch, req[q].rev)
               t == [req[q] EXCEPT !.pc = IF found THEN "ANSWERED" ELSE "INSERT"]
    <3>1. /\ t \in Request /\ t.pc = IF found THEN "ANSWERED" ELSE "INSERT"
          /\ t.branch = req[q].branch /\ t.rev = req[q].rev /\ t.at = req[q].at
          /\ t.seen = req[q].seen
      BY <1>1 DEF Request, Phases
    <3>2. Become(q, t) /\ req[q].pc = "PUBLISH"
      BY <2>1 DEF PublishFindsRow, Goto
    <3>3. RequestOK(t)
      <4> HIDE DEF t
      <4>1. QED
        BY <1>1, <3>1, <3>2 DEF RequestOK, ImportingOK
    <3> HIDE DEF t
    <3>4. ~Importing(t)
      BY <3>1 DEF Importing
    <3>5. QED
      BY <1>2, <3>1, <3>2, <3>3, <3>4
  <2>2. CASE ServeLatest(q)
    <3>1. PICK p \in publishes:
            /\ \A other \in publishes: other.at <= p.at
            /\ Become(q, [Idle EXCEPT !.pc = "LAYERS", !.branch = p.branch, !.rev = p.rev,
                                      !.at = p.at, !.seen = written])
      BY <2>2 DEF ServeLatest
    <3> DEFINE t == [Idle EXCEPT !.pc = "LAYERS", !.branch = p.branch, !.rev = p.rev,
                                 !.at = p.at, !.seen = written]
    <3>2. /\ p.at <= clock /\ OnBranch(p.rev, p.branch)
          /\ p.at \in 0..MaxPublish /\ p.branch \in Branches /\ p.rev \in Revs
      BY DEF TypeOK, PublishesOK, Publish, Stamps
    <3>3. /\ t \in Request /\ t.pc = "LAYERS" /\ t.branch = p.branch /\ t.at = p.at
          /\ t.seen = written
      BY <1>1, <3>2 DEF Request, Phases
    <3>4. RequestOK(t) /\ ~Importing(t)
      <4> HIDE DEF t
      <4>1. QED
        BY <1>1, <3>1, <3>2, <3>3 DEF RequestOK, ImportingOK, Importing, OnBranch, Live
    <3>5. QED
      BY <1>2, <3>1, <3>3, <3>4
  <2>3. CASE ServeLayers(q)
    <3> DEFINE f == [b \in Branches |-> LatestOf(b)]
               t == [req[q] EXCEPT !.pc = "SERVED", !.layers = f]
    <3>1. f \in [Branches -> 0..MaxPublish] /\ \A p \in publishes: p.at <= f[p.branch]
      BY Latest DEF TypeOK, Publish
    <3>2. Become(q, t) /\ req[q].pc = "LAYERS"
      BY <2>3 DEF ServeLayers
    <3> HIDE DEF f
    <3>3. /\ t \in Request /\ t.pc = "SERVED" /\ t.branch = req[q].branch
          /\ t.at = req[q].at /\ t.seen = req[q].seen /\ t.layers = f
      BY <1>1, <3>1 DEF Request, Phases
    <3>4. RequestOK(t) /\ ~Importing(t)
      <4> HIDE DEF t
      <4>1. QED
        BY <1>1, <3>1, <3>2, <3>3 DEF RequestOK, ImportingOK, Importing
    <3>5. QED
      BY <1>2, <3>2, <3>3, <3>4
  <2>4. CASE Abandon(q)
    <3> DEFINE t == [Idle EXCEPT !.pc = "ENDED"]
    <3>1. t \in Request /\ t.pc = "ENDED" /\ t.at = 0 /\ t.seen = 0 /\ Become(q, t)
      BY <1>1, <2>4 DEF Request, Phases, Abandon, End
    <3>2. RequestOK(t) /\ ~Importing(t)
      <4> HIDE DEF t
      <4>1. QED
        BY <1>1, <3>1 DEF RequestOK, ImportingOK, Importing
    <3>3. QED
      BY <1>2, <3>1, <3>2
  <2>5. QED
    BY <2>1, <2>2, <2>3, <2>4
<1>3. RequestOK(t)'
  BY <1>0, <1>2 DEF RequestOK, ImportingOK, Importing, OfBranch, PublishedBefore,
                    rowVars, tables, history
<1>4. QED
  BY <1>0, <1>2, <1>3, RequestStep

LEMMA ContinueStep ==
  ASSUME PolicyAssumption, NoneAssumption, PolicyIInv, StampsOK, NEW q \in Requests, Continue(q)
  PROVE  PolicyIInv'
BY ImportReadStep, ImportWriteStep, StatementStep, PackWriteStep, InsertStep, DeleteStep, ReaderStep DEF Continue

-----------------------------------------------------------------------------
(* Every step. *)

(* A revision without approvals has no quorum.                             *)
LEMMA NoQuorum ==
  ASSUME PolicyAssumption, NoneAssumption, NEW r \in Revs, NEW a, a[r] = NoApprovals
  PROVE  ~Quorum(r, a)
<1>1. SUFFICES ASSUME Quorum(r, a) PROVE FALSE
  OBVIOUS
<1>2. PICK x \in Roles: TRUE
  BY <1>1 DEF Quorum
<1> DEFINE yes == {v \in Reviewers: a[r][v] = [role |-> x, approved |-> TRUE]}
<1>3. ASSUME NEW v \in Reviewers
      PROVE  a[r][v] # [role |-> x, approved |-> TRUE]
  <2>1. a[r][v] = None
    BY DEF NoApprovals
  <2>2. [role |-> x, approved |-> TRUE] \in Approval
    BY DEF Approval
  <2>3. QED
    BY <2>1, <2>2 DEF NoneAssumption
<1>4. yes = {}
  BY <1>3
<1>5. Required[x] <= Cardinality(yes) /\ Required[x] \in Nat \ {0}
  BY <1>1 DEF Quorum, PolicyAssumption
<1> HIDE DEF yes
<1>6. Cardinality(yes) = 0
  BY <1>4, FS_EmptySet
<1>7. QED
  BY <1>5, <1>6

(* Steps that leave a revision's approvals alone, or drop them.            *)
LEMMA QuorumsStay ==
  ASSUME PolicyAssumption, NoneAssumption, QuorumsOK, met \subseteq met',
         \A r \in Revs: approval'[r] = approval[r] \/ approval'[r] = NoApprovals
  PROVE  QuorumsOK'
<1> SUFFICES ASSUME NEW r \in Revs, Quorum(r, approval)'
             PROVE  r \in met'
  BY DEF QuorumsOK
<1>1. PICK a: a = approval'
  OBVIOUS
<1>2. Quorum(r, a)
  BY <1>1
<1>3. a[r] # NoApprovals
  BY <1>2, NoQuorum
<1>4. a[r] = approval[r]
  BY <1>1, <1>3
<1>5. Quorum(r, approval)
  BY <1>2, <1>4 DEF Quorum
<1>6. QED
  BY <1>5 DEF QuorumsOK

(* Only a review completes a quorum, and it is then met.                   *)
LEMMA QuorumStep ==
  ASSUME PolicyAssumption, NoneAssumption, PolicyIInv, QuorumsOK, [Next]_vars
  PROVE  QuorumsOK'
<1>t. approval \in [Revs -> [Reviewers -> Approval \cup {None}]]
  BY DEF PolicyIInv, TypeOK
<1>1. CASE UNCHANGED <<approval, met>>
  BY <1>1, QuorumsStay
<1>2. ASSUME NEW r \in Revs, NEW v \in Reviewers, NEW role \in Roles, NEW approved \in BOOLEAN,
             Review(r, v, role, approved)
      PROVE  QuorumsOK'
  <2>1. PICK a: a = approval'
    OBVIOUS
  <2>2. \A s \in Revs: s # r => a[s] = approval[s]
    BY <1>t, <1>2, <2>1 DEF Review
  <2>3. met' = met \cup {x \in {r}: Quorum(x, a)}
    BY <1>2, <2>1 DEF Review
  <2>4. ASSUME NEW s \in Revs, Quorum(s, a)
        PROVE  s \in met'
    <3>1. CASE s = r
      BY <2>3, <2>4, <3>1
    <3>2. CASE s # r
      <4>1. Quorum(s, approval)
        BY <2>2, <2>4, <3>2 DEF Quorum
      <4>2. QED
        BY <2>3, <4>1 DEF QuorumsOK
    <3>3. QED
      BY <3>1, <3>2
  <2>5. \A s \in Revs: Quorum(s, approval)' => Quorum(s, a)
    BY <2>1 DEF Quorum
  <2>6. QED
    BY <2>4, <2>5 DEF QuorumsOK
<1>3. ASSUME NEW b \in Branches, NEW parent \in Revs, NEW rules \in Payloads,
             NEW unread \in BOOLEAN, Commit(b, parent, rules, unread)
      PROVE  QuorumsOK'
  BY <1>t, <1>3, QuorumsStay DEF Commit, history
<1>4. ASSUME NEW q \in Requests, DeleteBranch(q)
      PROVE  QuorumsOK'
  BY <1>t, <1>4, QuorumsStay DEF DeleteBranch, history
<1>5. ASSUME NEW b \in Branches, Author(b)
      PROVE  QuorumsOK'
  <2>1. CASE CreateBranch(b)
    BY <1>1, <2>1 DEF CreateBranch, history
  <2>2. ASSUME NEW base \in Revs, Draft(b, base)
        PROVE  QuorumsOK'
    BY <1>1, <2>2 DEF Draft, history
  <2>3. QED
    BY <1>3, <1>5, <2>1, <2>2 DEF Author
<1>6. ASSUME NEW q \in Requests, NEW b \in Branches, Begin(q, b)
      PROVE  QuorumsOK'
  <2>1. UNCHANGED <<approval, met>>
    BY <1>6 DEF Begin, ImportBegins, PackInstall, PackRead, PublishCheck, RollbackCheck, DeleteCheck,
                tables, history
  <2>2. QED
    BY <1>1, <2>1, SMTT(40)
<1>7. ASSUME NEW q \in Requests, Continue(q)
      PROVE  QuorumsOK'
  <2>1. CASE DeleteBranch(q)
    BY <1>4, <2>1
  <2>2. CASE ~DeleteBranch(q)
    <3>1. UNCHANGED <<approval, met>>
      BY <1>7, <2>2 DEF Continue, ImportRead, ImportWrite, PackWrite, PublishFindsRow,
                        StatementBegins, PublishInsert, RollbackWrite, UnsetHead, DeletePublishes,
                        ServeLatest, ServeLayers, Abandon, tables, history
    <3>2. QED
      BY <1>1, <3>1
  <2>3. QED
    BY <2>1, <2>2
<1>8. QED
  BY <1>1, <1>2, <1>5, <1>6, <1>7 DEF Next, vars, tables, history

(* Steps that give no statement a stamp.                                   *)
LEMMA StampsStay ==
  ASSUME StampsOK, publishes' \subseteq publishes, NEW q \in Requests,
         \A o \in Requests \ {q}: req'[o] = req[o],
         InFlight(req'[q]) => InFlight(req[q]) /\ req'[q].at = req[q].at
  PROVE  StampsOK'
BY DEF StampsOK

(* Stamps go from the clock to a statement, and from there to a row.       *)
LEMMA StampStep ==
  ASSUME PolicyAssumption, NoneAssumption, PolicyIInv, StampsOK, [Next]_vars
  PROVE  StampsOK'
<1> USE DEF PolicyIInv
<1>f. /\ Idle \in Request /\ Idle.pc = "IDLE" /\ Idle.at = 0 /\ clock \in Nat
      /\ \A q \in Requests: req[q] \in Request
  BY Facts
<1>1. CASE UNCHANGED <<publishes, req>>
  BY <1>1 DEF StampsOK
<1>2. ASSUME NEW q \in Requests, NEW t, Become(q, t), publishes' = publishes,
             InFlight(t) => InFlight(req[q]) /\ t.at = req[q].at
      PROVE  StampsOK'
  <2>1. req'[q] = t /\ \A o \in Requests \ {q}: req'[o] = req[o]
    BY <1>2 DEF Become, TypeOK
  <2>2. QED
    BY <1>2, <2>1, StampsStay
<1>3. ASSUME NEW q \in Requests, StatementBegins(q)
      PROVE  StampsOK'
  <2>1. /\ req'[q].at = clock + 1 /\ \A o \in Requests \ {q}: req'[o] = req[o]
        /\ publishes' = publishes
    BY <1>3, <1>f DEF StatementBegins, Become, TypeOK, Request
  <2>2. \A p \in publishes: p.at # clock + 1
    BY <1>f DEF PublishesOK, TypeOK, Publish, Stamps
  <2>3. \A o \in Requests: req[o].at # clock + 1
    BY <1>f DEF RequestsOK, RequestOK, Request
  <2>4. QED
    BY <2>1, <2>2, <2>3 DEF StampsOK
<1>4. ASSUME NEW q \in Requests, PublishInsert(q) \/ RollbackWrite(q)
      PROVE  StampsOK'
  <2>1. PICK b, rev, reviewed: Insert(b, rev, reviewed, req[q].at)
    BY <1>4 DEF PublishInsert, RollbackWrite
  <2>2. Become(q, [req[q] EXCEPT !.pc = "ANSWERED", !.at = 0])
    BY <1>4 DEF PublishInsert, RollbackWrite
  <2>3. req'[q].pc = "ANSWERED" /\ \A o \in Requests \ {q}: req'[o] = req[o]
    BY <1>f, <2>2 DEF Become, TypeOK, Request
  <2>4. ~InFlight(req'[q])
    BY <2>3 DEF InFlight
  <2>5. \A p \in publishes': p \in publishes \/ (p.at = req[q].at /\ InFlight(req[q]))
    <3>1. CASE Live(b)
      <4>1. publishes' = publishes \cup {Row(b, rev, reviewed, req[q].at)}
        BY <2>1, <3>1 DEF Insert
      <4>2. Row(b, rev, reviewed, req[q].at).at = req[q].at
        BY DEF Row
      <4>3. CASE InFlight(req[q])
        BY <4>1, <4>2, <4>3
      <4>4. CASE ~InFlight(req[q])
        <5>1. PublishInsert(q) /\ ~Live(req[q].branch)
          BY <1>4, <4>4 DEF PublishInsert, RollbackWrite, InFlight
        <5>2. publishes' = publishes
          BY <5>1 DEF PublishInsert, Insert
        <5>3. QED
          BY <5>2
      <4>5. QED
        BY <4>3, <4>4
    <3>2. CASE ~Live(b)
      BY <2>1, <3>2 DEF Insert
    <3>3. QED
      BY <3>1, <3>2
  <2>6. QED
    BY <2>3, <2>4, <2>5 DEF StampsOK
<1>5. ASSUME NEW b \in Branches, Author(b)
      PROVE  StampsOK'
  BY <1>1, <1>5 DEF Author, CreateBranch, Draft, Commit
<1>6. ASSUME NEW r \in Revs, NEW v \in Reviewers, NEW role \in Roles, NEW approved \in BOOLEAN,
             Review(r, v, role, approved)
      PROVE  StampsOK'
  BY <1>1, <1>6 DEF Review
<1>7. ASSUME NEW q \in Requests, NEW t, Become(q, t), t.at = 0, publishes' = publishes
      PROVE  StampsOK'
  BY <1>2, <1>7 DEF InFlight
<1>8. ASSUME NEW q \in Requests, NEW b \in Branches, Begin(q, b)
      PROVE  StampsOK'
  <2>1. CASE \E rules \in Payloads: ImportBegins(q, Identity[b], rules)
    <3>1. PICK rules \in Payloads: ImportBegins(q, Identity[b], rules)
      BY <2>1
    <3>2. PICK i, rows: Become(q, [Idle EXCEPT !.pc = "IMPORT_LOCK", !.lock = i, !.rules = rules,
                                              !.rows = rows])
      BY <3>1 DEF ImportBegins
    <3>3. [Idle EXCEPT !.pc = "IMPORT_LOCK", !.lock = i, !.rules = rules, !.rows = rows].at = 0
      BY DEF Idle
    <3>4. QED
      BY <1>7, <3>1, <3>2, <3>3 DEF ImportBegins, tables
  <2>2. ASSUME NEW pc, NEW c, NEW rev, NEW rules, publishes' = publishes,
               Become(q, [Idle EXCEPT !.pc = pc, !.branch = c, !.rev = rev, !.rules = rules])
        PROVE  StampsOK'
    <3>1. [Idle EXCEPT !.pc = pc, !.branch = c, !.rev = rev, !.rules = rules].at = 0
      BY DEF Idle
    <3>2. QED
      BY <1>7, <2>2, <3>1
  <2>3. ASSUME NEW pc, NEW c, NEW rev, publishes' = publishes,
               Become(q, [Idle EXCEPT !.pc = pc, !.branch = c, !.rev = rev])
        PROVE  StampsOK'
    <3>1. [Idle EXCEPT !.pc = pc, !.branch = c, !.rev = rev].at = 0
      BY DEF Idle
    <3>2. QED
      BY <1>7, <2>3, <3>1
  <2>4. CASE DeleteCheck(q, b)
    <3>1. [Idle EXCEPT !.pc = "UNSET_HEAD", !.branch = b].at = 0
      BY DEF Idle
    <3>2. QED
      BY <1>7, <2>4, <3>1 DEF DeleteCheck, tables
  <2>5. CASE PackInstall(q, b)
    BY <2>3, <2>5 DEF PackInstall
  <2>6. ASSUME NEW upstream \in Payloads, NEW preserve \in BOOLEAN, PackRead(q, b, upstream, preserve)
        PROVE  StampsOK'
    BY <2>2, <2>6 DEF PackRead, tables
  <2>7. ASSUME NEW r \in Revs, PublishCheck(q, b, r) \/ RollbackCheck(q, b, r)
        PROVE  StampsOK'
    BY <2>3, <2>7 DEF PublishCheck, RollbackCheck, tables
  <2>8. QED
    BY <1>8, <2>1, <2>4, <2>5, <2>6, <2>7 DEF Begin
<1>9. ASSUME NEW q \in Requests, Continue(q)
      PROVE  StampsOK'
  <2>1. CASE StatementBegins(q) \/ PublishInsert(q) \/ RollbackWrite(q)
    BY <1>3, <1>4, <2>1
  <2>2. CASE ImportWrite(q) \/ DeleteBranch(q) \/ Abandon(q)
    <3>1. End(q) /\ publishes' = publishes
      BY <2>2 DEF ImportWrite, DeleteBranch, Abandon, tables
    <3>2. [Idle EXCEPT !.pc = "ENDED"].at = 0
      BY DEF Idle
    <3>3. QED
      BY <1>7, <3>1, <3>2 DEF End
  <2>3. CASE ServeLatest(q)
    <3>1. PICK p \in publishes:
            Become(q, [Idle EXCEPT !.pc = "LAYERS", !.branch = p.branch, !.rev = p.rev,
                                   !.at = p.at, !.seen = written])
      BY <2>3 DEF ServeLatest
    <3> DEFINE t == [Idle EXCEPT !.pc = "LAYERS", !.branch = p.branch, !.rev = p.rev,
                                 !.at = p.at, !.seen = written]
    <3>2. ~InFlight(t)
      BY DEF InFlight, Idle
    <3>3. publishes' = publishes
      BY <2>3 DEF ServeLatest, tables
    <3> HIDE DEF InFlight
    <3>4. QED
      BY <1>2, <3>1, <3>2, <3>3
  <2>4. ASSUME ImportRead(q) \/ PackWrite(q) \/ PublishFindsRow(q) \/ ServeLayers(q)
        PROVE  ~InFlight(req[q]) /\ ~InFlight(req'[q]) /\ publishes' = publishes
    <3>1. CASE ImportRead(q)
      <4>1. req[q].pc = "IMPORT_LOCK" /\ publishes' = publishes
        BY <3>1 DEF ImportRead, tables
      <4>2. PICK t: Become(q, t) /\ t.pc = "IMPORT"
        <5>1. CASE \E x \in req[q].rows: Live(x.branch)
          <6>1. PICK x \in req[q].rows:
                  Become(q, [req[q] EXCEPT !.pc = "IMPORT", !.branch = x.branch, !.rows = {},
                    !.rev = head[x.branch], !.moved = (head[x.branch] # x.head)])
            BY <3>1, <5>1 DEF ImportRead
          <6>2. [req[q] EXCEPT !.pc = "IMPORT", !.branch = x.branch, !.rows = {},
                    !.rev = head[x.branch], !.moved = (head[x.branch] # x.head)].pc = "IMPORT"
            BY <1>f DEF Request
          <6>3. QED
            BY <6>1, <6>2
        <5>2. CASE \A x \in req[q].rows: ~Live(x.branch)
          <6>1. PICK b \in Branches:
                  Become(q, [req[q] EXCEPT !.pc = "IMPORT", !.branch = b, !.rows = {}])
            BY <3>1, <5>2 DEF ImportRead
          <6>2. [req[q] EXCEPT !.pc = "IMPORT", !.branch = b, !.rows = {}].pc = "IMPORT"
            BY <1>f DEF Request
          <6>3. QED
            BY <6>1, <6>2
        <5>3. QED
          BY <5>1, <5>2
      <4>3. req'[q].pc = "IMPORT"
        BY <4>2 DEF Become, TypeOK
      <4>4. QED
        BY <4>1, <4>3 DEF InFlight
    <3>2. CASE PackWrite(q)
      <4>1. req[q].pc = "PACK_WRITE" /\ req[q].at = 0
        BY <1>f, <3>2 DEF PackWrite, RequestsOK, RequestOK
      <4>2. req'[q].at = 0 /\ publishes' = publishes
        BY <1>f, <3>2, <4>1 DEF PackWrite, Become, TypeOK, Request
      <4>3. QED
        BY <4>1, <4>2 DEF InFlight
    <3>3. CASE PublishFindsRow(q)
      <4>1. req[q].pc = "PUBLISH" /\ req[q].at = 0
        BY <1>f, <3>3 DEF PublishFindsRow, RequestsOK, RequestOK
      <4>2. req'[q].at = 0 /\ publishes' = publishes
        BY <1>f, <3>3, <4>1 DEF PublishFindsRow, Goto, Become, TypeOK, Request, tables
      <4>3. QED
        BY <4>1, <4>2 DEF InFlight
    <3>4. CASE ServeLayers(q)
      <4>1. req'[q].pc = "SERVED" /\ req[q].pc = "LAYERS" /\ publishes' = publishes
        BY <1>f, <3>4 DEF ServeLayers, Become, TypeOK, Request, tables
      <4>2. QED
        BY <4>1 DEF InFlight
    <3>5. QED
      BY <2>4, <3>1, <3>2, <3>3, <3>4
  <2>5. CASE ImportRead(q) \/ PackWrite(q) \/ PublishFindsRow(q) \/ ServeLayers(q)
    <3>1. \A o \in Requests \ {q}: req'[o] = req[o]
      BY <2>5 DEF ImportRead, PackWrite, PublishFindsRow, ServeLayers, Goto, Become, TypeOK
    <3>2. ~InFlight(req'[q]) /\ publishes' = publishes
      BY <2>4, <2>5
    <3>3. QED
      BY <3>1, <3>2, StampsStay
  <2>6. CASE UnsetHead(q) \/ DeletePublishes(q)
    <3>1. PICK pc \in {"DELETE_PUBLISHES", "DELETE_BRANCH"}: Goto(q, pc)
      BY <2>6 DEF UnsetHead, DeletePublishes
    <3>2. req'[q].pc = pc /\ \A o \in Requests \ {q}: req'[o] = req[o]
      BY <1>f, <3>1 DEF Goto, Become, TypeOK, Request
    <3>3. publishes' \subseteq publishes
      BY <2>6 DEF UnsetHead, DeletePublishes
    <3>4. ~InFlight(req'[q])
      BY <3>2 DEF InFlight
    <3>5. QED
      BY <3>2, <3>3, <3>4, StampsStay
  <2>7. QED
    BY <1>9, <2>1, <2>2, <2>3, <2>5, <2>6 DEF Continue
<1>10. QED
  BY <1>1, <1>5, <1>6, <1>8, <1>9 DEF Next, vars, tables

(* The first state.                                                        *)
LEMMA PolicyInit ==
  ASSUME PolicyAssumption, NoneAssumption, Init
  PROVE  PolicyIInv /\ QuorumsOK /\ StampsOK
<1>0. /\ 1..last = {} /\ last = 0 /\ clock = 0 /\ written = 0 /\ 0 \in 0..MaxRev /\ 0 \in 0..MaxPublish
  BY DEF Init, PolicyAssumption
<1>1. Idle \in Request /\ Idle.pc = "IDLE" /\ Idle.at = 0 /\ Idle.seen = 0
  <2>1. "IDLE" \in Phases /\ {} \in SUBSET Rules
    BY DEF Phases
  <2>2. NoLayers \in [Branches -> 0..MaxPublish]
    BY <1>0 DEF NoLayers
  <2> HIDE DEF NoLayers
  <2>3. QED
    BY <1>0, <2>1, <2>2 DEF Idle, Request
<1>2. TypeOK
  <2>1. NoApprovals \in [Reviewers -> Approval \cup {None}]
    BY DEF NoApprovals
  <2> HIDE DEF NoApprovals, Idle
  <2>2. QED
    BY <1>0, <1>1, <2>1 DEF Init, TypeOK
<1>3. RevisionsOK /\ OneImport
  BY <1>0 DEF Init, RevisionsOK, OneImport, Live, Revs
<1>4. HeadsOK /\ PublishesOK
  BY DEF Init, HeadsOK, PublishesOK, Live
<1>5. RequestsOK
  <2>1. \A q \in Requests: req[q] = Idle /\ req[q].pc = "IDLE"
    BY <1>1 DEF Init
  <2>2. RequestOK(Idle)
    BY <1>0, <1>1 DEF RequestOK, ImportingOK
  <2>3. QED
    BY <2>1, <2>2 DEF RequestsOK, Exclusive, Importing
<1>6. QuorumsOK
  BY NoQuorum DEF Init, QuorumsOK
<1>7. StampsOK
  BY <1>1 DEF Init, StampsOK, InFlight
<1>8. QED
  BY <1>2, <1>3, <1>4, <1>5, <1>6, <1>7 DEF PolicyIInv

(* Every step keeps the invariant.                                         *)
LEMMA PolicyStep ==
  ASSUME PolicyAssumption, NoneAssumption, PolicyIInv, QuorumsOK, StampsOK, [Next]_vars
  PROVE  PolicyIInv'
<1>1. ASSUME NEW b \in Branches, Author(b)
      PROVE  PolicyIInv'
  BY <1>1, AuthorStep
<1>2. ASSUME NEW r \in Revs, NEW v \in Reviewers, NEW role \in Roles, NEW approved \in BOOLEAN,
             Review(r, v, role, approved)
      PROVE  PolicyIInv'
  BY <1>2, ReviewStep
<1>3. ASSUME NEW q \in Requests, Continue(q)
      PROVE  PolicyIInv'
  BY <1>3, ContinueStep
<1>4. ASSUME NEW q \in Requests, NEW b \in Branches, Begin(q, b)
      PROVE  PolicyIInv'
  BY <1>4, BeginStep
<1>5. CASE UNCHANGED vars
  <2>1. Acts({})
    BY <1>5 DEF Acts, vars
  <2>2. Exclusive'
    BY <2>1, StillExclusive DEF PolicyIInv
  <2>3. TypeOK'
    BY <1>5 DEF PolicyIInv, TypeOK, vars, tables, history
  <2>4. /\ UNCHANGED <<branch, head, last, revision, publishes, clock, written, condemned, overtaken>>
        /\ met \subseteq met'
    BY <1>5 DEF vars, tables, history
  <2>5. QED
    BY <2>1, <2>2, <2>3, <2>4, ReadStep
<1>6. QED
  BY <1>1, <1>2, <1>3, <1>4, <1>5 DEF Next

-----------------------------------------------------------------------------
(* What the invariant says. *)

Inv == PolicyIInv /\ QuorumsOK /\ StampsOK

LEMMA InvHolds ==
  ASSUME PolicyAssumption, NoneAssumption
  PROVE  Spec => []Inv
<1>1. Init => Inv
  BY PolicyInit DEF Inv
<1>2. Inv /\ [Next]_vars => Inv'
  BY PolicyStep, QuorumStep, StampStep DEF Inv
<1>3. QED
  BY <1>1, <1>2, PTL DEF Spec

(* Every row refers to rows that are there: a deletion in four statements  *)
(* never leaves a head, a publication or a parent of another branch behind,*)
(* whoever writes to the branch meanwhile.                                 *)
THEOREM LineageTheorem == Spec => []PublicationInv
<1> USE PolicyAssumption, NoneAssumption
<1>1. Inv => PublicationInv
  <2> SUFFICES ASSUME Inv PROVE PublicationInv
    OBVIOUS
  <2> USE DEF Inv, PolicyIInv
  <2>1. \A r \in 1..last: revision[r].parent # None =>
           revision[r].parent < r /\ revision[revision[r].parent].branch = revision[r].branch
    BY DEF RevisionsOK, RevisionOK
  <2>2. TypeOK /\ Lineage
    BY <2>1 DEF Lineage, RevisionsOK, RevisionOK, HeadsOK, PublishesOK
  <2>3. ImmutableRulesSurvive
    BY DEF RevisionsOK, RevisionOK, ImmutableRulesSurvive
  <2>4. QED
    BY <2>2, <2>3 DEF PublicationInv
<1>2. QED
  BY <1>1, InvHolds, PTL

(* A draft and a commit carry the immutable rules of the revision they     *)
(* were made from.                                                         *)
THEOREM ImmutableRulesTheorem == Spec => []ImmutableRulesSurvive
<1> USE PolicyAssumption, NoneAssumption
<1>1. Inv => ImmutableRulesSurvive
  BY DEF Inv, PolicyIInv, RevisionsOK, RevisionOK, ImmutableRulesSurvive
<1>2. QED
  BY <1>1, InvHolds, PTL

(* What was published through review once met its quorum, although the     *)
(* approvals are read long before the insert.                              *)
THEOREM ReviewTheorem == Spec => []PublishedWasReviewed
<1> USE PolicyAssumption, NoneAssumption
<1>1. Inv => PublishedWasReviewed
  BY DEF Inv, PolicyIInv, PublishesOK, PublishedWasReviewed
<1>2. QED
  BY <1>1, InvHolds, PTL

(* Concurrent imports of one identity share a branch, and one repeats the  *)
(* source of the head it was appended to only if another writer moved that *)
(* head between the import's snapshot and its lock on the branch.          *)
THEOREM ImportTheorem == Spec => []ImportsAreIdempotent
<1> USE PolicyAssumption, NoneAssumption
<1>1. Inv => ImportsAreIdempotent
  BY DEF Inv, PolicyIInv, OneImport, RevisionsOK, RevisionOK, ImportsAreIdempotent
<1>2. QED
  BY <1>1, InvHolds, PTL

(* A caller told that a revision is published finds its publication.       *)
THEOREM AnswerTheorem == Spec => []AnsweredIsRecorded
<1> USE PolicyAssumption, NoneAssumption
<1>1. Inv => AnsweredIsRecorded
  BY DEF Inv, PolicyIInv, RequestsOK, RequestOK, TypeOK, AnsweredIsRecorded
<1>2. QED
  BY <1>1, InvHolds, PTL

(* A served bundle is as new as the publications that were committed when  *)
(* its label was read, whatever order their stamps were taken in.          *)
THEOREM ServedTheorem == Spec => []ServedFollowsLatest
<1> USE PolicyAssumption, NoneAssumption
<1>1. Inv => ServedFollowsLatest
  BY DEF Inv, PolicyIInv, RequestsOK, RequestOK, TypeOK, ServedFollowsLatest
<1>2. QED
  BY <1>1, InvHolds, PTL

(* An import extends the head as it is when the import commits.            *)
THEOREM ImportExtendsTheorem == Spec => ImportExtendsHead
<1> USE PolicyAssumption, NoneAssumption
<1> DEFINE Extends == last' # last /\ revision'[last'].kind = "IMPORT" =>
                        revision'[last'].parent = head[revision'[last'].branch]
<1>1. Inv /\ [Next]_vars => [Extends]_vars
  <2> SUFFICES ASSUME Inv, Next PROVE Extends
    BY DEF vars, tables
  <2> USE DEF Inv, PolicyIInv
  <2>0. /\ last \in Nat /\ \A i \in Revs: revision[i] \in Revision \cup {None}
        /\ revision \in [Revs -> Revision \cup {None}]
    BY Facts DEF TypeOK
  <2>1. ASSUME NEW b, NEW parent, NEW kind, NEW rules, Append(b, parent, kind, rules),
               kind = "IMPORT" => parent = head[b]
        PROVE  Extends
    <3> DEFINE v == [branch |-> b, parent |-> parent, kind |-> kind, rules |-> rules]
    <3>1. last + 1 \in Revs /\ last' = last + 1
      BY <2>0, <2>1, Facts DEF Append
    <3>2. revision'[last'] = v
      BY <2>0, <2>1, <3>1 DEF Append
    <3>3. v.branch = b /\ v.parent = parent /\ v.kind = kind
      OBVIOUS
    <3> HIDE DEF v
    <3>4. QED
      BY <2>1, <3>2, <3>3
  <2>2. ASSUME NEW b \in Branches, Author(b)
        PROVE  Extends
    <3>1. PICK parent, kind, rules: Append(b, parent, kind, rules) /\ kind # "IMPORT"
      BY <2>2 DEF Author, CreateBranch, Draft, Commit
    <3>2. QED
      BY <2>1, <3>1
  <2>3. ASSUME NEW q \in Requests, ImportWrite(q)
        PROVE  Extends
    <3>1. /\ Append(req[q].branch, req[q].rev, "IMPORT", req[q].rules)
          /\ req[q].pc = "IMPORT" /\ req[q] \in Request
      BY <2>3 DEF ImportWrite, TypeOK
    <3>2. /\ ImportOK(req[q].branch, req[q].rev, req[q].rules, req[q].moved)
          /\ req[q].branch \in Branches
      BY <3>1 DEF RequestsOK, RequestOK, ImportingOK
    <3>3. req[q].rev = head[req[q].branch]
      BY <3>2 DEF ImportOK, HeadsOK, OnBranch, Live
    <3>4. QED
      BY <2>1, <3>1, <3>3
  <2>4. ASSUME NEW q \in Requests, NEW b \in Branches, Begin(q, b)
        PROVE  Extends
    <3>1. CASE PackInstall(q, b)
      <4>1. PICK rules: Append(b, None, "OTHER", rules)
        BY <3>1 DEF PackInstall
      <4>2. QED
        BY <2>1, <4>1
    <3>2. CASE ~PackInstall(q, b)
      <4>1. UNCHANGED last
        BY <2>4, <3>2 DEF Begin, ImportBegins, PackRead, PublishCheck, RollbackCheck, DeleteCheck,
                          tables
      <4>2. QED
        BY <4>1, SMTT(40)
    <3>3. QED
      BY <3>1, <3>2
  <2>5. ASSUME NEW q \in Requests, Continue(q)
        PROVE  Extends
    <3>1. CASE PackWrite(q)
      <4>1. Append(req[q].branch, req[q].rev, "OTHER", req[q].rules)
        BY <3>1 DEF PackWrite
      <4>2. QED
        BY <2>1, <4>1
    <3>2. CASE ~PackWrite(q) /\ ~ImportWrite(q)
      <4>1. UNCHANGED last
        BY <2>5, <3>2 DEF Continue, ImportRead, PublishFindsRow, StatementBegins, PublishInsert,
                          RollbackWrite, UnsetHead, DeletePublishes, DeleteBranch, ServeLatest,
                          ServeLayers, Abandon, tables
      <4>2. QED
        BY <4>1
    <3>3. QED
      BY <2>3, <3>1, <3>2
  <2>6. ASSUME NEW r \in Revs, NEW v \in Reviewers, NEW role \in Roles, NEW approved \in BOOLEAN,
               Review(r, v, role, approved)
        PROVE  Extends
    BY <2>6 DEF Review
  <2>7. QED
    BY <2>2, <2>4, <2>5, <2>6 DEF Next
<1>2. QED
  BY <1>1, InvHolds, PTL DEF Spec, ImportExtendsHead

(* A publication disappears only by a deletion that had found none before  *)
(* it was made.                                                            *)
THEOREM DeletionTheorem == Spec => DeletionSparesWhatItSaw
<1> USE PolicyAssumption, NoneAssumption
<1> DEFINE Spares == \A p \in publishes \ publishes':
                       condemned[p.branch] # None /\ condemned[p.branch] < p.serial
<1>1. Inv /\ [Next]_vars => [Spares]_vars
  <2> SUFFICES ASSUME Inv, Next, NEW p \in publishes \ publishes'
               PROVE  condemned[p.branch] # None /\ condemned[p.branch] < p.serial
    BY DEF vars, tables
  <2> USE DEF Inv, PolicyIInv
  <2>1. PICK q \in Requests: DeletePublishes(q)
    <3>1. ASSUME NEW b \in Branches, Author(b)
          PROVE  FALSE
      BY <3>1 DEF Author, CreateBranch, Draft, Commit
    <3>2. ASSUME NEW r \in Revs, NEW v \in Reviewers, NEW role \in Roles,
                 NEW approved \in BOOLEAN, Review(r, v, role, approved)
          PROVE  FALSE
      BY <3>2, SMTT(40) DEF Review
    <3>3. ASSUME NEW q \in Requests, NEW b \in Branches, Begin(q, b)
          PROVE  FALSE
      BY <3>3 DEF Begin, ImportBegins, PackInstall, PackRead, PublishCheck, RollbackCheck,
                  DeleteCheck, tables
    <3>4. ASSUME NEW q \in Requests, Continue(q), ~DeletePublishes(q)
          PROVE  FALSE
      <4>1. publishes \subseteq publishes'
        BY <3>4 DEF Continue, ImportRead, ImportWrite, PackWrite, PublishFindsRow, StatementBegins,
                    PublishInsert, RollbackWrite, Insert, UnsetHead, DeleteBranch, ServeLatest,
                    ServeLayers, Abandon, tables
      <4>2. QED
        BY <4>1
    <3>5. QED
      BY <3>1, <3>2, <3>3, <3>4 DEF Next
  <2>2. p.branch = req[q].branch /\ req[q].pc = "DELETE_PUBLISHES" /\ req[q] \in Request
    BY <2>1 DEF DeletePublishes, TypeOK
  <2>3. condemned[p.branch] # None
    BY <2>2 DEF RequestsOK, RequestOK
  <2>4. QED
    BY <2>3 DEF PublishesOK
<1>2. QED
  BY <1>1, InvHolds, PTL DEF Spec, DeletionSparesWhatItSaw
=============================================================================
