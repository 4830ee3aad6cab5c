--------------------------- MODULE EvidenceProofs ---------------------------
(***************************************************************************)
(* Proofs about EvidenceStore, for every number of documents,              *)
(* organizations and concurrent requests.                                  *)
(*                                                                         *)
(* Deduplication, the contribution ledger and the log the readers follow,  *)
(* in a service whose rows all came through its own intake (no legacy rows)*)
(* and whose dedupe flag does not change: what a submission decides under  *)
(* the lock must still hold when it writes; nothing but a withdrawal may   *)
(* come between, and withdrawals only take candidates away.                *)
(*                                                                         *)
(* Types, whatever the history; and the backfill of old rows, on a service *)
(* that takes no new ones.                                                 *)
(***************************************************************************)
EXTENDS EvidenceStore, FiniteSetTheorems, WellFoundedInduction, TLAPS

\* All rows came through this intake.
NoHistory == Legacy = {} /\ ~FlagChanges

\* Every stored run is a row with its projection, made by this intake.
RowsOK ==
  /\ runs = [i \in RunId |-> runs[i]]
  /\ \A i \in Stored : runs[i] \in Row /\ runs[i].idx = TRUE /\ runs[i].trusted = TRUE
  /\ revision \in Nat /\ clock \in Nat
  /\ IsFiniteSet(Stored)

\* An open transaction is one; past its reads it holds the revision.
OpenOK ==
  /\ sess = [s \in Session |-> sess[s]]
  /\ \A s \in Session : sess[s] # None => sess[s] \in Tx
  /\ \A s \in Session : sess[s] # None /\ sess[s].pc = "locked" => lock = s

\* The backfill of old rows has nothing to do.
Idle == bf.pc = "off" /\ dedupe = TRUE

\* What a submission decided still holds.
Stands(d, dup, shared) ==
  /\ dup = None => Own(d) = {}
  /\ ~shared => Matches(d) \subseteq Own(d)

Decided ==
  \A s \in Session : Holds(s, "store") =>
    Stands(sess[s].op.doc, sess[s].dup, sess[s].shared)

\* So does that the runs to withdraw belong to who withdraws them.
Requested ==
  \A s \in Session : Holds(s, "withdraw") =>
    sess[s].op.req.ids \subseteq OwnedBy(sess[s].op.req.org)

\* A withdrawal that was recorded has marked its runs.
JobsDone == \A w \in applyJobs : \A i \in w.ids : i \in Stored /\ Withdrawn(runs[i])

EInv ==
  /\ RowsOK /\ OpenOK /\ Idle /\ Decided /\ Requested /\ JobsDone
  /\ NoDoubleCount /\ SharedSourceMarked

-----------------------------------------------------------------------------
\* At the start nothing is stored and nobody is at work.
LEMMA InitEInv == ASSUME NoHistory, Init PROVE EInv
<1>1. Stored = {}
  BY DEF Init, NoHistory, Stored
<1>2. IsFiniteSet({})
  BY FS_EmptySet
<1>3. revision \in Nat
  <2>1. LegacyWithdrawals = {} /\ Legacy = {}
    BY EvidenceAssumption DEF NoHistory, LegacyWithdrawals
  <2>. QED
    BY <2>1, FS_EmptySet DEF Init
<1>4. RowsOK
  BY <1>1, <1>2, <1>3 DEF RowsOK, Init
<1>5. OpenOK /\ Decided /\ Requested
  BY DEF Init, OpenOK, Decided, Requested, Holds
<1>6. Idle /\ JobsDone
  BY DEF Init, NoHistory, Idle, JobsDone, BackfillOff
<1>7. NoDoubleCount /\ SharedSourceMarked
  BY <1>1 DEF NoDoubleCount, SharedSourceMarked, Candidates
<1>. QED
  BY <1>4, <1>5, <1>6, <1>7 DEF EInv

-----------------------------------------------------------------------------
\* A nonempty set of numbers has a least one.
LEMMA LeastNumber ==
  ASSUME NEW T \in SUBSET Nat, T # {}
  PROVE  \E x \in T : \A y \in T : x <= y
<1> DEFINE R == {ss \in Nat \X Nat : ss[1] < ss[2]}
<1>1. IsWellFoundedOn(R, Nat)
  BY NatLessThanWellFounded DEF OpToRel
<1>2. \A x, y \in Nat : y < x => <<y, x>> \in R
  OBVIOUS
<1>3. T \subseteq Nat
  OBVIOUS
<1> HIDE DEF R
<1>4. PICK x \in T : \A y \in T : ~ (<<y, x>> \in R)
  BY <1>1, <1>3, WFMin
<1>5. \A y \in T : ~ (y < x)
  BY <1>2, <1>3, <1>4
<1>6. \A y \in T : x <= y
  BY <1>3, <1>5
<1>. QED
  BY <1>6

\* What is stored has an earliest run, so a lookup that matches finds one.
LEMMA EarliestIsOne ==
  ASSUME NEW S \in SUBSET Stored, S # {}, \A i \in S : runs[i].at \in Nat
  PROVE  /\ Earliest(S) \in S
         /\ \A j \in S : Earliest(S) = j \/ Earlier(Earliest(S), j)
<1> DEFINE A == {runs[i].at : i \in S}
<1>1. A \in SUBSET Nat /\ A # {}
  OBVIOUS
<1>2. PICK a \in A : \A b \in A : a <= b
  BY <1>1, LeastNumber
<1> DEFINE F == {i \in S : runs[i].at = a}
<1>3. RunId \subseteq Nat
  BY EvidenceAssumption DEF RunId
<1>4. F \in SUBSET Nat /\ F # {}
  BY <1>2, <1>3 DEF Stored
<1>5. PICK i \in F : \A j \in F : i <= j
  BY <1>4, LeastNumber
<1>6. \A j \in S : i = j \/ Earlier(i, j)
  <2> SUFFICES ASSUME NEW j \in S, j # i
               PROVE Earlier(i, j)
    OBVIOUS
  <2>1. runs[j].at \in Nat /\ a <= runs[j].at /\ runs[i].at = a /\ a \in Nat
    BY <1>1, <1>2
  <2>2. CASE runs[j].at = a
    <3>1. i <= j /\ i \in Nat /\ j \in Nat
      BY <1>4, <1>5, <2>2
    <3>. QED
      BY <2>1, <2>2, <3>1 DEF Earlier
  <2>3. CASE runs[j].at # a
    BY <2>1, <2>3 DEF Earlier
  <2>. QED
    BY <2>2, <2>3
<1>7. i \in S
  OBVIOUS
<1>. QED
  BY <1>6, <1>7 DEF Earliest

\* A submission that finds no duplicate has no unwithdrawn run of its
\* measurement by its organization.
LEMMA NoDuplicateNoRun ==
  ASSUME RowsOK, Idle, NEW d
  PROVE  /\ DuplicateOf(d) \in RunId \union {None}
         /\ DuplicateOf(d) = None => Own(d) = {}
<1>1. Own(d) \in SUBSET Stored
  BY DEF Own, Matches, SameMeasurement
<1>2. CASE Own(d) = {}
  BY <1>2 DEF DuplicateOf
<1>3. CASE Own(d) # {}
  <2> DEFINE originals == {i \in Own(d) : runs[i].dup = None}
  <2>1. originals \in SUBSET Stored
    BY <1>1
  <2>2. \A i \in Own(d) : runs[i].at \in Nat
    BY <1>1 DEF RowsOK, Row
  <2>3. DuplicateOf(d) \in Own(d)
    BY <1>1, <1>3, <2>1, <2>2, EarliestIsOne DEF DuplicateOf, Idle
  <2>. QED
    BY <1>1, <2>3, EvidenceAssumption DEF Stored
<1>. QED
  BY <1>2, <1>3

-----------------------------------------------------------------------------
\* What becomes of a stored run: it may be flagged or withdrawn.
Aged(i) ==
  /\ i \in Stored' /\ runs'[i].doc = runs[i].doc /\ runs'[i].dup = runs[i].dup
  /\ Withdrawn(runs[i]) => Withdrawn(runs'[i])
  /\ runs[i].suspect => runs'[i].suspect

\* Runs that only age stay apart and flagged, and match no more than they did.
LEMMA Aging ==
  ASSUME EInv, RowsOK', \A i \in Stored : Aged(i), Stored' = Stored
  PROVE  /\ NoDoubleCount' /\ SharedSourceMarked'
         /\ \A d : Own(d)' \subseteq Own(d)
         /\ \A d : Matches(d) \subseteq Own(d) => Matches(d)' \subseteq Own(d)'
<1>1. \A i \in Stored : /\ runs[i].idx = TRUE /\ runs'[i].idx = TRUE
                        /\ runs[i].trusted = TRUE /\ runs'[i].trusted = TRUE
  BY DEF EInv, RowsOK
<1>2. NoDoubleCount'
  BY <1>1 DEF EInv, NoDoubleCount, Aged, Countable, Key3, OrgOfDoc
<1>3. SharedSourceMarked'
  <2>1. \A q \in Proto : Candidates(q)' \subseteq Candidates(q)
    BY <1>1 DEF Candidates, Candidate, Countable, Aged
  <2>. QED
    BY <1>1, <2>1 DEF EInv, SharedSourceMarked, Aged, OrgOfDoc, Candidates
<1>4. \A d : Own(d)' \subseteq Own(d)
  BY <1>1 DEF Own, Matches, SameMeasurement, Aged, OrgOfDoc
<1>5. \A d : Matches(d)' \subseteq Matches(d)
  BY <1>1 DEF Matches, SameMeasurement, Aged, OrgOfDoc
<1>6. \A d : Matches(d) \subseteq Own(d) => Matches(d)' \subseteq Own(d)'
  BY <1>1, <1>5 DEF Own, Matches, SameMeasurement, Aged, OrgOfDoc
<1>. QED
  BY <1>2, <1>3, <1>4, <1>6

\* One transaction at a time is past its reads.
LEMMA OneDecides ==
  ASSUME OpenOK, NEW s \in Session, NEW t \in Session, s # t,
         NEW k, NEW l, Holds(s, k)
  PROVE  ~Holds(t, l)
  BY DEF OpenOK, Holds

\* A step that stores nothing and decides nothing.
LEMMA QuietStep ==
  ASSUME EInv, OpenOK', UNCHANGED <<runs, revision, bf, dedupe>>, clock' \in Nat,
         applyJobs' \subseteq applyJobs,
         \A s \in Session, k \in {"store", "withdraw"} :
           Holds(s, k)' => Holds(s, k) /\ sess'[s] = sess[s]
  PROVE  EInv'
<1>1. RowsOK' /\ Idle' /\ JobsDone' /\ NoDoubleCount' /\ SharedSourceMarked'
  BY DEF EInv, RowsOK, Idle, JobsDone, NoDoubleCount, SharedSourceMarked, Stored, Candidates,
         Candidate, Countable, Withdrawn, Key3, OrgOfDoc
<1>2. Decided' /\ Requested'
  BY DEF EInv, Decided, Stands, Requested, Own, Matches, SameMeasurement, Stored, OwnedBy, OrgOfDoc
<1>. QED
  BY <1>1, <1>2 DEF EInv

\* A step of one session's transaction.
LEMMA OneSession ==
  ASSUME OpenOK, NEW s \in Session, NEW x, sess' = [sess EXCEPT ![s] = x],
         x # None => x \in Tx,
         x # None /\ x.pc = "locked" => lock' = s,
         \A t \in Session \ {s} : sess[t] # None /\ sess[t].pc = "locked" => lock' = t
  PROVE  /\ OpenOK' /\ sess'[s] = x
         /\ \A t \in Session \ {s} : sess'[t] = sess[t]
  BY DEF OpenOK

\* A transaction ends and lets its lock go.
LEMMA Ending ==
  ASSUME OpenOK, NEW s \in Session, End(s)
  PROVE  /\ OpenOK' /\ sess'[s] = None
         /\ \A t \in Session \ {s} : sess'[t] = sess[t]
<1>1. \A t \in Session \ {s} : sess[t] # None /\ sess[t].pc = "locked" => lock' = t
  BY DEF OpenOK, End
<1>. QED
  BY <1>1, OneSession DEF End

-----------------------------------------------------------------------------
\* A transaction begins.
LEMMA BeginStep ==
  ASSUME EInv, NEW s \in Session, NEW op \in StoreOp \union WithdrawOp, Begin(s, op)
  PROVE  EInv'
<1> DEFINE x == [pc |-> "begun", op |-> op, at |-> clock + 1, dup |-> None, shared |-> FALSE]
<1>1. x \in Tx /\ x.pc = "begun"
  BY DEF Tx, EInv, RowsOK
<1>2. sess' = [sess EXCEPT ![s] = x] /\ lock' = lock
  BY DEF Begin
<1>3. clock' \in Nat /\ UNCHANGED <<runs, revision, bf, dedupe, applyJobs>>
  BY DEF Begin, EInv, RowsOK, dbVars
<1> HIDE DEF x
<1>4. /\ OpenOK' /\ sess'[s] = x
      /\ \A t \in Session \ {s} : sess'[t] = sess[t]
  BY <1>1, <1>2, OneSession DEF EInv, OpenOK
<1>5. \A t \in Session, k \in {"store", "withdraw"} :
        Holds(t, k)' => Holds(t, k) /\ sess'[t] = sess[t]
  BY <1>1, <1>4 DEF Holds
<1>. QED
  BY <1>3, <1>4, <1>5, QuietStep

\* A transaction is refused or rolled back.
LEMMA NothingDone ==
  ASSUME EInv, NEW s \in Session, Refuse(s) \/ Abort(s)
  PROVE  EInv'
<1>1. End(s) /\ UNCHANGED <<runs, revision, bf, dedupe, applyJobs, clock>>
  BY DEF Refuse, Abort, dbVars
<1>2. /\ OpenOK' /\ sess'[s] = None
      /\ \A t \in Session \ {s} : sess'[t] = sess[t]
  BY <1>1, Ending DEF EInv
<1>3. \A t \in Session, k \in {"store", "withdraw"} :
        Holds(t, k)' => Holds(t, k) /\ sess'[t] = sess[t]
  BY <1>2 DEF Holds
<1>4. clock' \in Nat
  BY <1>1 DEF EInv, RowsOK
<1>. QED
  BY <1>1, <1>2, <1>3, <1>4, QuietStep

\* The reads under the lock.
LEMMA DecideStep ==
  ASSUME EInv, NEW s \in Session, Decide(s)
  PROVE  EInv'
<1> DEFINE op == sess[s].op
           D == IF op.kind = "store" THEN DuplicateOf(op.doc) ELSE None
           B == op.kind = "store" /\ SharedSource(op.doc)
           x == [sess[s] EXCEPT !.pc = "locked", !.dup = D, !.shared = B]
<1>1. sess[s] \in Tx /\ sess[s] # None /\ lock = None /\ lock' = s
      /\ UNCHANGED <<runs, revision, bf, dedupe, applyJobs, clock>>
  BY DEF Decide, Acquire, EInv, OpenOK, dbVars
<1>2. D \in RunId \union {None} /\ B \in BOOLEAN
  BY NoDuplicateNoRun DEF EInv, SharedSource
<1>3. sess' = [sess EXCEPT ![s] = x]
  BY DEF Decide
<1>4. x \in Tx /\ x.pc = "locked" /\ x.op = op /\ x.dup = D /\ x.shared = B
  <2> HIDE DEF D, B
  <2>. QED
    BY <1>1, <1>2 DEF Tx
<1> HIDE DEF D, B, x
<1>5. /\ OpenOK' /\ sess'[s] = x
      /\ \A t \in Session \ {s} : sess'[t] = sess[t]
  <2>1. \A t \in Session \ {s} : ~(sess[t] # None /\ sess[t].pc = "locked")
    BY <1>1, EvidenceAssumption DEF EInv, OpenOK
  <2>. QED
    BY <1>1, <1>3, <1>4, <2>1, OneSession DEF EInv
<1>6. RowsOK' /\ Idle' /\ JobsDone' /\ NoDoubleCount' /\ SharedSourceMarked'
  BY <1>1 DEF EInv, RowsOK, Idle, JobsDone, NoDoubleCount, SharedSourceMarked, Stored, Candidates,
         Candidate, Countable, Withdrawn, Key3, OrgOfDoc
<1>7. \A d : Own(d)' = Own(d) /\ Matches(d)' = Matches(d)
  BY <1>1 DEF Own, Matches, SameMeasurement, Stored, OrgOfDoc
<1>8. \A t \in Session \ {s}, k \in {"store", "withdraw"} : Holds(t, k)' => FALSE
  BY <1>1, <1>5, EvidenceAssumption DEF EInv, OpenOK, Holds
<1>9. Decided'
  <2>1. \A t \in Session : Holds(t, "store")' =>
          t = s /\ op.kind = "store" /\ sess'[t] = x
    BY <1>4, <1>5, <1>8 DEF Holds
  <2>2. op.kind = "store" => Stands(op.doc, D, B)
    BY NoDuplicateNoRun DEF EInv, Idle, SharedSource, Stands, D, B
  <2>. QED
    BY <1>4, <1>7, <2>1, <2>2 DEF Decided, Stands
<1>10. Requested'
  <2>1. \A t \in Session : Holds(t, "withdraw")' =>
          t = s /\ op.kind = "withdraw" /\ sess'[t].op = op
    BY <1>4, <1>5, <1>8 DEF Holds
  <2>2. op.kind = "withdraw" => op.req.ids \subseteq OwnedBy(op.req.org)
    BY DEF Decide, Refused
  <2>3. \A o : OwnedBy(o)' = OwnedBy(o)
    BY <1>1 DEF OwnedBy, Stored, OrgOfDoc
  <2>. QED
    BY <2>1, <2>2, <2>3 DEF Requested
<1>. QED
  BY <1>5, <1>6, <1>9, <1>10 DEF EInv

-----------------------------------------------------------------------------
\* The row a submission writes.
NewRow(d, at, rev, dup, shared) ==
  [doc |-> d, at |-> at, rev |-> rev, dup |-> dup, suspect |-> shared, wd |-> 0,
   idx |-> TRUE, trusted |-> TRUE]

\* What a flag leaves of a row.
LEMMA FlaggedRow ==
  ASSUME NEW r \in Row
  PROVE  LET f == [r EXCEPT !.suspect = TRUE] IN
         /\ f \in Row /\ f # None /\ f.doc = r.doc /\ f.dup = r.dup /\ f.wd = r.wd
         /\ f.rev = r.rev /\ f.suspect /\ f.idx = r.idx /\ f.trusted = r.trusted
  BY NullAssumption DEF Row

\* What a withdrawal mark leaves of a row.
LEMMA MarkedRow ==
  ASSUME NEW r \in Row, NEW n \in Nat
  PROVE  LET f == [r EXCEPT !.wd = n] IN
         /\ f \in Row /\ f # None /\ f.doc = r.doc /\ f.dup = r.dup /\ f.wd = n
         /\ r.suspect => f.suspect
         /\ f.idx = r.idx /\ f.trusted = r.trusted
  BY NullAssumption DEF Row

\* What a submission makes of the rows: one more, the others flagged or not.
LEMMA StoredRows ==
  ASSUME EInv, NEW s \in Session, StoreNew(s)
  PROVE  LET d == sess[s].op.doc
             x == sess[s]
         IN
         /\ d \in Doc /\ d.id \in RunId \ Stored /\ x.dup \in RunId \union {None}
         /\ x.shared \in BOOLEAN
         /\ Stored' = Stored \union {d.id}
         /\ runs'[d.id] \in Row /\ runs'[d.id].doc = d /\ runs'[d.id].dup = x.dup
         /\ runs'[d.id].suspect = x.shared /\ runs'[d.id].rev = NextRevision(x.dup)
         /\ ~Withdrawn(runs'[d.id])
         /\ runs'[d.id].idx = TRUE /\ runs'[d.id].trusted = TRUE
         /\ \A i \in Stored : /\ runs'[i] \in Row /\ Aged(i) /\ runs'[i].wd = runs[i].wd
                              /\ runs'[i].idx = TRUE /\ runs'[i].trusted = TRUE
                              /\ runs'[i].rev = runs[i].rev
                              /\ i \in Suspects(d, x.shared) => runs'[i].suspect
                              /\ i \notin Suspects(d, x.shared) => runs'[i] = runs[i]
         /\ runs' = [i \in RunId |-> runs'[i]]
<1> DEFINE x == sess[s]
           d == x.op.doc
           rev == NextRevision(x.dup)
           row == NewRow(d, x.at, rev, x.dup, x.shared)
<1>1. x \in Tx /\ x.op \in StoreOp
  BY DEF StoreNew, Holds, EInv, OpenOK, Tx, StoreOp, WithdrawOp
<1>2. d \in Doc /\ x.at \in Nat /\ x.dup \in RunId \union {None} /\ x.shared \in BOOLEAN
      /\ rev \in Nat
  BY <1>1 DEF Tx, StoreOp, NextRevision, EInv, RowsOK
<1>3. d.id \in RunId \ Stored
  BY <1>2 DEF StoreNew, RunId, Stored
<1>4. runs' = [i \in RunId |->
                IF i = d.id THEN row
                ELSE IF i \in Suspects(d, x.shared) THEN [runs[i] EXCEPT !.suspect = TRUE]
                ELSE runs[i]]
  BY DEF StoreNew, NewRow
<1>a. row = NewRow(d, x.at, rev, x.dup, x.shared)
  OBVIOUS
<1> HIDE DEF row, rev, d
<1>5. /\ row \in Row /\ row # None /\ row.doc = d /\ row.dup = x.dup
      /\ row.suspect = x.shared /\ row.rev = rev
      /\ ~Withdrawn(row) /\ row.idx = TRUE /\ row.trusted = TRUE
  <2>1. PICK e \in Doc, a \in Nat, v \in Nat, u \in RunId \union {None}, h \in BOOLEAN :
          e = d /\ a = x.at /\ v = rev /\ u = x.dup /\ h = x.shared
    BY <1>2
  <2>2. row = NewRow(e, a, v, u, h)
    BY <1>a, <2>1
  <2>3. PICK r : r = NewRow(e, a, v, u, h)
    OBVIOUS
  <2>4. /\ r \in Row /\ r # None /\ r.doc = e /\ r.dup = u /\ r.rev = v
        /\ ~Withdrawn(r) /\ r.idx = TRUE /\ r.trusted = TRUE
    <3>1. r \in Row
      BY <2>3 DEF NewRow, Row
    <3>2. r # None
      BY <3>1, NullAssumption
    <3>3. r.doc = e /\ r.dup = u /\ r.rev = v /\ r.wd = 0 /\ r.idx = TRUE /\ r.trusted = TRUE
      BY <2>3 DEF NewRow
    <3>. QED
      BY <3>1, <3>2, <3>3 DEF Withdrawn
  <2>5. r.suspect = h
    BY <2>3 DEF NewRow
  <2>6. r = row
    BY <2>2, <2>3
  <2>. QED
    BY <2>1, <2>4, <2>5, <2>6
<1>6. Suspects(d, x.shared) \subseteq Stored
  BY DEF Suspects, SameMeasurement
<1>7. \A i \in Stored : runs[i] \in Row /\ runs[i].idx = TRUE /\ runs[i].trusted = TRUE /\ i # d.id
                        /\ i \in RunId
  BY <1>3 DEF EInv, RowsOK, Stored
<1>8. \A i \in Stored :
        LET f == [runs[i] EXCEPT !.suspect = TRUE] IN
            /\ f \in Row /\ f # None /\ f.doc = runs[i].doc /\ f.dup = runs[i].dup
            /\ f.wd = runs[i].wd /\ f.rev = runs[i].rev /\ f.suspect
            /\ f.idx = runs[i].idx /\ f.trusted = runs[i].trusted
  BY <1>7, FlaggedRow
<1>9. \A i \in Stored :
        /\ runs'[i] \in Row /\ runs'[i] # None /\ runs'[i].doc = runs[i].doc
        /\ runs'[i].dup = runs[i].dup /\ runs'[i].wd = runs[i].wd /\ runs'[i].rev = runs[i].rev
        /\ runs[i].suspect => runs'[i].suspect
        /\ i \in Suspects(d, x.shared) => runs'[i].suspect
        /\ i \notin Suspects(d, x.shared) => runs'[i] = runs[i]
        /\ runs'[i].idx = TRUE /\ runs'[i].trusted = TRUE
  <2> SUFFICES ASSUME NEW i \in Stored
               PROVE /\ runs'[i] \in Row /\ runs'[i] # None /\ runs'[i].doc = runs[i].doc
                     /\ runs'[i].dup = runs[i].dup /\ runs'[i].wd = runs[i].wd /\ runs'[i].rev = runs[i].rev
                     /\ runs[i].suspect => runs'[i].suspect
                     /\ i \in Suspects(d, x.shared) => runs'[i].suspect
                     /\ i \notin Suspects(d, x.shared) => runs'[i] = runs[i]
                     /\ runs'[i].idx = TRUE /\ runs'[i].trusted = TRUE
    OBVIOUS
  <2>1. CASE i \in Suspects(d, x.shared)
    BY <1>4, <1>7, <1>8, <2>1
  <2>2. CASE i \notin Suspects(d, x.shared)
    <3>1. runs'[i] = runs[i]
      BY <1>4, <1>7, <2>2
    <3>2. runs[i] # None
      BY DEF Stored
    <3>. QED
      BY <1>7, <2>2, <3>1, <3>2
  <2>. QED
    BY <2>1, <2>2
<1>10. runs'[d.id] = row
  BY <1>3, <1>4
<1>11. \A i \in RunId \ Stored : i # d.id => runs'[i] = None
  BY <1>4, <1>6 DEF Stored
<1>12. Stored' = Stored \union {d.id}
  BY <1>3, <1>5, <1>7, <1>9, <1>10, <1>11 DEF Stored
<1>13. runs' = [i \in RunId |-> runs'[i]]
  BY <1>4
<1>14. \A i \in Stored : Aged(i)
  BY <1>9, <1>12 DEF Aged, Withdrawn
<1>. QED
  BY <1>2, <1>3, <1>5, <1>9, <1>10, <1>12, <1>13, <1>14 DEF d, rev

\* A submission stores its run.
LEMMA StoreStep ==
  ASSUME EInv, NEW s \in Session, StoreNew(s)
  PROVE  EInv'
<1>0. PICK x, d, n : x = sess[s] /\ d = sess[s].op.doc /\ n = sess[s].op.doc.id
  OBVIOUS
<1>1. /\ d \in Doc /\ n \in RunId \ Stored /\ x.dup \in RunId \union {None}
      /\ x.shared \in BOOLEAN
      /\ Stored' = Stored \union {n}
      /\ runs'[n] \in Row /\ runs'[n].doc = d /\ runs'[n].dup = x.dup
      /\ runs'[n].suspect = x.shared
      /\ ~Withdrawn(runs'[n])
      /\ runs'[n].idx = TRUE /\ runs'[n].trusted = TRUE
      /\ \A i \in Stored : /\ runs'[i] \in Row /\ Aged(i) /\ runs'[i].wd = runs[i].wd
                           /\ runs'[i].idx = TRUE /\ runs'[i].trusted = TRUE
                           /\ i \in Suspects(d, x.shared) => runs'[i].suspect
      /\ runs' = [i \in RunId |-> runs'[i]]
  BY <1>0, StoredRows
<1>2. Stands(d, x.dup, x.shared) /\ Holds(s, "store") /\ End(s)
  BY <1>0 DEF StoreNew, EInv, Decided
<1>3. revision' \in Nat /\ UNCHANGED <<clock, bf, dedupe, applyJobs>>
  BY DEF StoreNew, NextRevision, EInv, RowsOK
<1>4. RowsOK'
  <2>1. IsFiniteSet(Stored')
    BY <1>1, FS_AddElement DEF EInv, RowsOK
  <2>. QED
    BY <1>1, <1>3, <2>1 DEF RowsOK, EInv
<1>5. /\ OpenOK' /\ sess'[s] = None
      /\ \A t \in Session \ {s} : sess'[t] = sess[t]
  BY <1>2, Ending DEF EInv
<1>6. \A t \in Session, k \in {"store", "withdraw"} : ~Holds(t, k)'
  BY <1>2, <1>5, OneDecides DEF EInv, Holds
<1>7. Decided' /\ Requested'
  BY <1>6 DEF Decided, Requested
<1>8. JobsDone' /\ Idle'
  BY <1>1, <1>3 DEF EInv, JobsDone, Idle, Aged
<1>9. \A i \in Stored : /\ runs[i].idx = TRUE /\ runs[i].trusted = TRUE
                        /\ runs'[i].doc = runs[i].doc /\ runs'[i].dup = runs[i].dup
                        /\ (Withdrawn(runs'[i]) <=> Withdrawn(runs[i]))
                        /\ runs[i].suspect => runs'[i].suspect
  BY <1>1 DEF EInv, RowsOK, Aged, Withdrawn
<1>10. NoDoubleCount'
  <2>1. \A i \in Stored : ~Withdrawn(runs[i]) /\ runs[i].doc.proto = d.proto
            /\ runs[i].doc.meas = d.meas /\ OrgOfDoc(runs[i].doc) = OrgOfDoc(d)
            => i \in Own(d)
    BY <1>9 DEF Own, Matches, SameMeasurement
  <2>2. \A i \in Stored : x.dup = None /\ ~Withdrawn(runs'[i]) => Key3(i)' # Key3(n)'
    BY <1>1, <1>2, <1>9, <2>1 DEF Stands, Key3, OrgOfDoc
  <2>3. \A i, j \in Stored :
          /\ Countable(runs[i])' /\ Countable(runs[j])'
          /\ ~Withdrawn(runs[i])' /\ ~Withdrawn(runs[j])'
          /\ Key3(i)' = Key3(j)'
          => i = j
    BY <1>9 DEF EInv, NoDoubleCount, Countable, Key3, OrgOfDoc
  <2>4. Countable(runs[n])' => x.dup = None
    BY <1>1 DEF Countable
  <2>. QED
    BY <1>1, <2>2, <2>3, <2>4 DEF NoDoubleCount
<1>11. SharedSourceMarked'
  <2>1. \A i \in Stored : ~Withdrawn(runs[i]) /\ runs[i].doc.proto = d.proto
            /\ runs[i].doc.meas = d.meas
            => i \in Matches(d) /\ i \in SameMeasurement(d)
    BY <1>9 DEF Matches, SameMeasurement
  <2>2. \A i \in Stored : OrgOfDoc(runs[i].doc) # OrgOfDoc(d) => i \notin Own(d)
    BY DEF Own
  <2>3. \A i \in Stored :
          /\ ~Withdrawn(runs'[i]) /\ runs'[i].doc.proto = d.proto
          /\ runs'[i].doc.meas = d.meas /\ OrgOfDoc(runs'[i].doc) # OrgOfDoc(d)
          => runs'[i].suspect /\ runs'[n].suspect
    BY <1>1, <1>2, <1>9, <2>1, <2>2 DEF Stands, Suspects
  <2>4. \A p \in Proto : Candidates(p)' \subseteq Candidates(p) \union {n}
    BY <1>1, <1>9 DEF Candidates, Candidate, Countable
  <2>5. \A p \in Proto : \A i \in Candidates(p)' :
          i \in Stored' /\ runs'[i].doc.proto = p /\ ~Withdrawn(runs'[i])
    BY DEF Candidates, Candidate
  <2>6. \A p \in Proto : Candidates(p) \subseteq Stored
    BY DEF Candidates
  <2> SUFFICES ASSUME NEW p \in Proto, NEW i \in Candidates(p)', NEW j \in Candidates(p)',
                      runs'[i].doc.meas = runs'[j].doc.meas,
                      OrgOfDoc(runs'[i].doc) # OrgOfDoc(runs'[j].doc)
               PROVE runs'[i].suspect /\ runs'[j].suspect
    BY DEF SharedSourceMarked, OrgOfDoc
  <2>7. CASE i \in Candidates(p) /\ j \in Candidates(p)
    BY <1>9, <2>6, <2>7 DEF EInv, SharedSourceMarked
  <2>8. CASE i = n /\ j \in Stored
    BY <1>1, <2>3, <2>5, <2>8
  <2>9. CASE j = n /\ i \in Stored
    BY <1>1, <2>3, <2>5, <2>9
  <2>. QED
    BY <2>4, <2>6, <2>7, <2>8, <2>9
<1>. QED
  BY <1>4, <1>5, <1>7, <1>8, <1>10, <1>11 DEF EInv

-----------------------------------------------------------------------------
\* What a mark leaves of the rows: every run is kept, those named withdrawn.
LEMMA MarkedRows ==
  ASSUME EInv, NEW ids \in SUBSET Stored, NEW n \in Nat \ {0}, runs' = Marked(ids, n)
  PROVE  /\ Stored' = Stored
         /\ \A i \in Stored : /\ runs'[i] \in Row /\ Aged(i)
                              /\ runs'[i].idx = TRUE /\ runs'[i].trusted = TRUE
                              /\ i \in ids => Withdrawn(runs'[i])
         /\ runs' = [i \in RunId |-> runs'[i]]
<1>1. runs' = [i \in RunId |-> IF i \in ids /\ ~Withdrawn(runs[i])
                               THEN [runs[i] EXCEPT !.wd = n] ELSE runs[i]]
  BY DEF Marked
<1>2. \A i \in Stored : runs[i] \in Row /\ runs[i].idx = TRUE /\ runs[i].trusted = TRUE
                        /\ runs[i] # None /\ i \in RunId
  BY DEF EInv, RowsOK, Stored
<1>3. \A i \in Stored :
        LET f == [runs[i] EXCEPT !.wd = n] IN
            /\ f \in Row /\ f # None /\ f.doc = runs[i].doc /\ f.dup = runs[i].dup
            /\ f.wd = n
            /\ runs[i].suspect => f.suspect
            /\ f.idx = runs[i].idx /\ f.trusted = runs[i].trusted
  BY <1>2, MarkedRow
<1>4. \A i \in Stored :
        /\ runs'[i] \in Row /\ runs'[i] # None /\ runs'[i].doc = runs[i].doc
        /\ runs'[i].dup = runs[i].dup
        /\ runs[i].suspect => runs'[i].suspect
        /\ runs'[i].idx = TRUE /\ runs'[i].trusted = TRUE
        /\ Withdrawn(runs[i]) => Withdrawn(runs'[i])
        /\ i \in ids => Withdrawn(runs'[i])
  <2> SUFFICES ASSUME NEW i \in Stored
               PROVE /\ runs'[i] \in Row /\ runs'[i] # None /\ runs'[i].doc = runs[i].doc
                     /\ runs'[i].dup = runs[i].dup
                     /\ runs[i].suspect => runs'[i].suspect
                     /\ runs'[i].idx = TRUE /\ runs'[i].trusted = TRUE
                     /\ Withdrawn(runs[i]) => Withdrawn(runs'[i])
                     /\ i \in ids => Withdrawn(runs'[i])
    OBVIOUS
  <2>1. CASE i \in ids /\ ~Withdrawn(runs[i])
    <3>1. runs'[i] = [runs[i] EXCEPT !.wd = n]
      BY <1>1, <1>2, <2>1
    <3>. QED
      BY <1>2, <1>3, <3>1 DEF Withdrawn
  <2>2. CASE ~(i \in ids /\ ~Withdrawn(runs[i]))
    BY <1>1, <1>2, <2>2
  <2>. QED
    BY <2>1, <2>2
<1>5. \A i \in RunId \ Stored : runs'[i] = None
  BY <1>1 DEF Stored
<1>6. Stored' = Stored
  BY <1>2, <1>4, <1>5 DEF Stored
<1>7. runs' = [i \in RunId |-> runs'[i]]
  BY <1>1
<1>8. \A i \in Stored : Aged(i)
  BY <1>4, <1>6 DEF Aged
<1>. QED
  BY <1>4, <1>6, <1>7, <1>8

\* A withdrawal marks its runs.
LEMMA WithdrawStep ==
  ASSUME EInv, NEW s \in Session, WithdrawRuns(s)
  PROVE  EInv'
<1>0. PICK ids, n, w :
        /\ ids = sess[s].op.req.ids /\ n = revision + 1
        /\ w = [org |-> sess[s].op.req.org, ids |-> sess[s].op.req.ids, rev |-> revision + 1]
  OBVIOUS
<1>1. /\ End(s) /\ Holds(s, "withdraw") /\ runs' = Marked(ids, n)
      /\ applyJobs' = applyJobs \union {w} /\ w.ids = ids
      /\ revision' = n /\ UNCHANGED <<clock, bf, dedupe>>
  BY <1>0 DEF WithdrawRuns
<1>2. ids \in SUBSET Stored /\ n \in Nat \ {0}
  <2>1. ids \subseteq OwnedBy(sess[s].op.req.org)
    BY <1>0, <1>1 DEF EInv, Requested
  <2>2. n = revision + 1
    BY <1>0
  <2>. QED
    BY <2>1, <2>2 DEF OwnedBy, EInv, RowsOK
<1>3. /\ Stored' = Stored
      /\ \A i \in Stored : /\ runs'[i] \in Row /\ Aged(i)
                           /\ runs'[i].idx = TRUE /\ runs'[i].trusted = TRUE
                           /\ i \in ids => Withdrawn(runs'[i])
      /\ runs' = [i \in RunId |-> runs'[i]]
  BY <1>1, <1>2, MarkedRows
<1>4. RowsOK' /\ Idle'
  BY <1>1, <1>2, <1>3 DEF EInv, RowsOK, Idle
<1>5. NoDoubleCount' /\ SharedSourceMarked'
  BY <1>3, <1>4, Aging
<1>6. /\ OpenOK' /\ sess'[s] = None
      /\ \A t \in Session \ {s} : sess'[t] = sess[t]
  BY <1>1, Ending DEF EInv
<1>7. \A t \in Session, k \in {"store", "withdraw"} : ~Holds(t, k)'
  BY <1>1, <1>6, OneDecides DEF EInv, Holds
<1>8. Decided' /\ Requested'
  BY <1>7 DEF Decided, Requested
<1>9. JobsDone'
  <2>1. \A v \in applyJobs : \A i \in v.ids : i \in Stored /\ Withdrawn(runs[i])
    BY DEF EInv, JobsDone
  <2>2. \A i \in Stored : Withdrawn(runs[i]) => Withdrawn(runs'[i])
    BY <1>3 DEF Aged
  <2>. QED
    BY <1>1, <1>2, <1>3, <2>1, <2>2 DEF JobsDone
<1>. QED
  BY <1>4, <1>5, <1>6, <1>8, <1>9 DEF EInv

\* The job of a withdrawal finds the marks it would make.
LEMMA ApplyStep ==
  ASSUME EInv, NEW w \in applyJobs, ApplyWithdrawal(w)
  PROVE  EInv'
<1>1. \A i \in RunId : i \in w.ids => Withdrawn(runs[i])
  BY DEF EInv, JobsDone
<1>2. runs' = [i \in RunId |-> runs[i]]
  BY <1>1 DEF ApplyWithdrawal, Marked
<1>3. runs' = runs
  BY <1>2 DEF EInv, RowsOK
<1>4. UNCHANGED <<revision, bf, dedupe, sess, lock, clock>> /\ applyJobs' \subseteq applyJobs
  BY DEF ApplyWithdrawal
<1>5. OpenOK' /\ clock' \in Nat
  BY <1>4 DEF EInv, OpenOK, RowsOK
<1>6. \A t \in Session, k \in {"store", "withdraw"} :
        Holds(t, k)' => Holds(t, k) /\ sess'[t] = sess[t]
  BY <1>4 DEF Holds
<1>. QED
  BY <1>3, <1>4, <1>5, <1>6, QuietStep

\* Steps that touch neither rows nor transactions.
LEMMA OtherStep ==
  ASSUME EInv, UNCHANGED <<dbVars, dedupe, sess, lock, clock, bf>>
  PROVE  EInv'
<1>1. UNCHANGED <<runs, revision, bf, dedupe, sess, lock, clock, applyJobs>>
  BY DEF dbVars
<1>2. OpenOK' /\ clock' \in Nat
  BY <1>1 DEF EInv, OpenOK, RowsOK
<1>3. \A t \in Session, k \in {"store", "withdraw"} :
        Holds(t, k)' => Holds(t, k) /\ sess'[t] = sess[t]
  BY <1>1 DEF Holds
<1>. QED
  BY <1>1, <1>2, <1>3, QuietStep

\* Rows of this intake leave the backfills nothing to do.
LEMMA NothingToRepair ==
  ASSUME EInv
  PROVE  ~SharingBackfill /\ ~IndexBackfill
<1>1. \A i \in Stored : runs[i].idx = TRUE /\ runs[i].trusted = TRUE
  BY DEF EInv, RowsOK
<1>2. ~SharingBackfill
  BY <1>1 DEF SharingBackfill
<1>3. bf.pc = "off"
  BY DEF EInv, Idle
<1>. QED
  BY <1>1, <1>2, <1>3 DEF IndexBackfill, StartIndexBackfill, CrashIndexBackfill, ProjectRow,
       ProjectEnds, MarkDuplicates, MarkSuspects, RepairCount, RepairWrite, RepairZero

-----------------------------------------------------------------------------
\* One step for every kind of step.
LEMMA NextEInv ==
  ASSUME NoHistory, EInv, [Next]_vars
  PROVE  EInv'
<1>1. ASSUME NEW d \in Doc, Preview(d) \/ PreviewExpires(d) PROVE EInv'
  BY <1>1, OtherStep DEF Preview, PreviewExpires
<1>2. CASE ReapPreviews
  BY <1>2, OtherStep DEF ReapPreviews
<1>3. ASSUME NEW s \in Session, NEW d \in Doc, SubmitRun(s, d) PROVE EInv'
  <2>1. [kind |-> "store", doc |-> d] \in StoreOp \union WithdrawOp
    BY DEF StoreOp
  <2>. QED
    BY <1>3, <2>1, BeginStep DEF SubmitRun
<1>4. ASSUME NEW s \in Session, NEW r \in Request, RequestWithdrawal(s, r) PROVE EInv'
  <2>1. [kind |-> "withdraw", req |-> r] \in StoreOp \union WithdrawOp
    BY DEF WithdrawOp
  <2>. QED
    BY <1>4, <2>1, BeginStep DEF RequestWithdrawal
<1>5. ASSUME NEW s \in Session, Transaction(s) PROVE EInv'
  BY <1>5, NothingDone, DecideStep, StoreStep, WithdrawStep DEF Transaction
<1>6. ASSUME NEW w \in applyJobs, ApplyWithdrawal(w) PROVE EInv'
  BY <1>6, ApplyStep
<1>7. ASSUME NEW n \in Node, RevokeNode(n) PROVE EInv'
  BY <1>7, OtherStep DEF RevokeNode
<1>8. CASE ChangeFlag
  BY <1>8 DEF ChangeFlag, NoHistory
<1>9. CASE SharingBackfill \/ IndexBackfill
  BY <1>9, NothingToRepair
<1>10. CASE UNCHANGED vars
  BY <1>10, OtherStep DEF vars, dbVars
<1>. QED
  BY <1>1, <1>2, <1>3, <1>4, <1>5, <1>6, <1>7, <1>8, <1>9, <1>10 DEF Next

\* However many nodes, organizations and requests there are: where every row
\* came through intake, one organization never counts one measurement twice.
THEOREM OneCountPerMeasurement == NoHistory /\ Spec => []NoDoubleCount
<1>1. ASSUME NoHistory PROVE Spec => []NoDoubleCount
  <2>1. Init => EInv
    BY <1>1, InitEInv
  <2>2. EInv /\ [Next]_vars => EInv'
    BY <1>1, NextEInv
  <2>3. EInv => NoDoubleCount
    BY DEF EInv
  <2>. QED
    BY <2>1, <2>2, <2>3, PTL DEF Spec
<1>. QED
  BY <1>1

\* Two organizations behind one measurement in a cohort are always both
\* flagged, so that they count as one contributor.
THEOREM SharedSourcesAreMarked == NoHistory /\ Spec => []SharedSourceMarked
<1>1. ASSUME NoHistory PROVE Spec => []SharedSourceMarked
  <2>1. Init => EInv
    BY <1>1, InitEInv
  <2>2. EInv /\ [Next]_vars => EInv'
    BY <1>1, NextEInv
  <2>3. EInv => SharedSourceMarked
    BY DEF EInv
  <2>. QED
    BY <2>1, <2>2, <2>3, PTL DEF Spec
<1>. QED
  BY <1>1

-----------------------------------------------------------------------------
(***************************************************************************)
(* The contribution ledger agrees with the rows.  A submission adds one    *)
(* run to one account; a withdrawal moves exactly the runs it is the first *)
(* to mark, all of one organization, which the lookup under the lock       *)
(* established.                                                            *)
(***************************************************************************)

Acc(a) == Cardinality(CountedRuns(a, FALSE))
Gone(a) == Cardinality(CountedRuns(a, TRUE))

\* The counts of an account are those of its rows.
LedgerInv ==
  /\ ledger = [a \in Account |-> ledger[a]]
  /\ \A a \in Account : ledger[a] \in Tally \union {None}
  /\ \A a \in Account : CountOf(a).accepted = Acc(a) /\ CountOf(a).withdrawn = Gone(a)

LInv == EInv /\ LedgerInv

-----------------------------------------------------------------------------
\* Which rows an account counts.
LEMMA Counted ==
  ASSUME NEW a, NEW i
  PROVE  /\ i \in CountedRuns(a, FALSE) <=>
              /\ i \in Stored /\ Countable(runs[i]) /\ ~Withdrawn(runs[i])
              /\ <<runs[i].doc.proto, OrgOfDoc(runs[i].doc)>> = a
         /\ i \in CountedRuns(a, TRUE) <=>
              /\ i \in Stored /\ Countable(runs[i]) /\ Withdrawn(runs[i])
              /\ <<runs[i].doc.proto, OrgOfDoc(runs[i].doc)>> = a
  BY DEF CountedRuns, Withdrawn

LEMMA CountsAreFinite ==
  ASSUME RowsOK, NEW a
  PROVE  /\ IsFiniteSet(CountedRuns(a, FALSE)) /\ IsFiniteSet(CountedRuns(a, TRUE))
         /\ Acc(a) \in Nat /\ Gone(a) \in Nat
<1>1. CountedRuns(a, FALSE) \subseteq Stored /\ CountedRuns(a, TRUE) \subseteq Stored
  BY DEF CountedRuns
<1>2. IsFiniteSet(CountedRuns(a, FALSE)) /\ IsFiniteSet(CountedRuns(a, TRUE))
  BY <1>1, FS_Subset DEF RowsOK
<1>. QED
  BY <1>2, FS_CardinalityType DEF Acc, Gone

\* The two counts are all there is to a pair of counts.
LEMMA TallyIs ==
  ASSUME NEW x \in Tally
  PROVE  x = [accepted |-> x.accepted, withdrawn |-> x.withdrawn]
  BY DEF Tally

\* Counts that agree with the rows are the counts the repair would write.
LEMMA LedgerInvIsExact ==
  ASSUME EInv, LedgerInv
  PROVE  LedgerExact
<1> SUFFICES ASSUME NEW a \in Account
             PROVE CountOf(a) = Tallied(a)
  BY DEF LedgerExact
<1>1. Acc(a) \in Nat /\ Gone(a) \in Nat
  BY CountsAreFinite DEF EInv
<1>2. CountOf(a) \in Tally
  BY DEF LedgerInv, CountOf, Zero, Tally
<1>3. CountOf(a) = [accepted |-> Acc(a), withdrawn |-> Gone(a)]
  <2>1. CountOf(a).accepted = Acc(a) /\ CountOf(a).withdrawn = Gone(a)
    BY DEF LedgerInv
  <2>. QED
    BY <1>2, <2>1, TallyIs
<1>4. CASE CountedRuns(a, FALSE) \union CountedRuns(a, TRUE) = {}
  <2>1. CountedRuns(a, FALSE) = {} /\ CountedRuns(a, TRUE) = {}
    BY <1>4
  <2>2. Acc(a) = 0 /\ Gone(a) = 0
    BY <2>1, FS_EmptySet DEF Acc, Gone
  <2>3. Tallied(a) = Zero
    BY <1>4 DEF Tallied, CountedNow
  <2>. QED
    BY <1>3, <2>2, <2>3 DEF Zero
<1>5. CASE CountedRuns(a, FALSE) \union CountedRuns(a, TRUE) # {}
  <2>1. CountedNow[a] = [accepted |-> Acc(a), withdrawn |-> Gone(a)]
    BY <1>5 DEF CountedNow, Acc, Gone
  <2>2. CountedNow[a] # None
    BY <1>2, <1>3, <2>1, NullAssumption
  <2>. QED
    BY <1>3, <2>1, <2>2 DEF Tallied
<1>. QED
  BY <1>4, <1>5

\* Nothing is counted before anything is stored.
LEMMA InitLedger ==
  ASSUME NoHistory, Init
  PROVE  LedgerInv
<1>1. Stored = {}
  BY DEF Init, NoHistory, Stored
<1>2. \A a : Acc(a) = 0 /\ Gone(a) = 0
  BY <1>1, FS_EmptySet DEF CountedRuns, Acc, Gone
<1>3. ledger = [a \in Account |-> None]
  BY DEF Init, NoTally
<1>. QED
  BY <1>2, <1>3 DEF LedgerInv, CountOf, Zero

\* A step that changes neither a row nor a count.
LEMMA SameLedger ==
  ASSUME LedgerInv, UNCHANGED <<runs, ledger>>
  PROVE  LedgerInv'
  BY DEF LedgerInv, CountOf, Acc, Gone, CountedRuns, Stored, Countable, Withdrawn, OrgOfDoc

-----------------------------------------------------------------------------
\* A submission adds its run to its account, unless it is not counted.
LEMMA StoreLedger ==
  ASSUME LInv, NEW s \in Session, StoreNew(s)
  PROVE  LedgerInv'
<1>0. PICK x, d, n : x = sess[s] /\ d = sess[s].op.doc /\ n = sess[s].op.doc.id
  OBVIOUS
<1>1. /\ d \in Doc /\ n \in RunId \ Stored /\ Stored' = Stored \union {n}
      /\ runs'[n].doc = d /\ runs'[n].dup = x.dup /\ runs'[n].idx = TRUE
      /\ ~Withdrawn(runs'[n])
      /\ \A i \in Stored : /\ Aged(i) /\ runs'[i].wd = runs[i].wd
                           /\ runs'[i].idx = TRUE
  BY <1>0, StoredRows DEF LInv
<1>2. ledger' = Recorded(d, x.dup)
  BY <1>0 DEF StoreNew
<1>3. \A i \in Stored :
        /\ Countable(runs'[i]) <=> Countable(runs[i])
        /\ Withdrawn(runs'[i]) <=> Withdrawn(runs[i])
        /\ runs'[i].doc = runs[i].doc
  BY <1>1 DEF LInv, EInv, RowsOK, Aged, Countable, Withdrawn
<1>4. RowsOK
  BY DEF LInv, EInv
<1>5. \A a : /\ n \notin CountedRuns(a, FALSE)
             /\ CountedRuns(a, TRUE)' = CountedRuns(a, TRUE)
             /\ CountedRuns(a, FALSE)' =
                  IF ~d.fixture /\ x.dup = None /\ <<d.proto, OrgOfDoc(d)>> = a
                  THEN CountedRuns(a, FALSE) \union {n} ELSE CountedRuns(a, FALSE)
  <2> SUFFICES ASSUME NEW a
               PROVE /\ n \notin CountedRuns(a, FALSE)
                     /\ CountedRuns(a, TRUE)' = CountedRuns(a, TRUE)
                     /\ CountedRuns(a, FALSE)' =
                          IF ~d.fixture /\ x.dup = None /\ <<d.proto, OrgOfDoc(d)>> = a
                          THEN CountedRuns(a, FALSE) \union {n} ELSE CountedRuns(a, FALSE)
    OBVIOUS
  <2>1. \A i : i \in CountedRuns(a, FALSE)' <=>
           /\ i \in Stored' /\ Countable(runs'[i]) /\ ~Withdrawn(runs'[i])
           /\ <<runs'[i].doc.proto, OrgOfDoc(runs'[i].doc)>> = a
    BY DEF CountedRuns, OrgOfDoc, Countable, Withdrawn
  <2>2. \A i : i \in CountedRuns(a, TRUE)' <=>
           /\ i \in Stored' /\ Countable(runs'[i]) /\ Withdrawn(runs'[i])
           /\ <<runs'[i].doc.proto, OrgOfDoc(runs'[i].doc)>> = a
    BY DEF CountedRuns, OrgOfDoc, Countable, Withdrawn
  <2>3. Countable(runs'[n]) <=> ~d.fixture /\ x.dup = None
    BY <1>1 DEF Countable
  <2>4. n \notin CountedRuns(a, FALSE)
    BY <1>1, Counted
  <2>5. CountedRuns(a, TRUE)' = CountedRuns(a, TRUE)
    <3>1. \A i : i \in CountedRuns(a, TRUE)' <=> i \in CountedRuns(a, TRUE)
      BY <1>1, <1>3, <2>2, Counted
    <3>. QED
      BY <3>1
  <2>6. ASSUME NEW i \in Stored
        PROVE  i \in CountedRuns(a, FALSE)' <=> i \in CountedRuns(a, FALSE)
    <3>1. i \in CountedRuns(a, FALSE)' <=>
            /\ Countable(runs[i]) /\ ~Withdrawn(runs[i])
            /\ <<runs[i].doc.proto, OrgOfDoc(runs[i].doc)>> = a
      BY <1>1, <1>3, <2>1
    <3>2. i \in CountedRuns(a, FALSE) <=>
            /\ Countable(runs[i]) /\ ~Withdrawn(runs[i])
            /\ <<runs[i].doc.proto, OrgOfDoc(runs[i].doc)>> = a
      BY Counted
    <3>. QED
      BY <3>1, <3>2
  <2>7. n \in CountedRuns(a, FALSE)' <=>
          ~d.fixture /\ x.dup = None /\ <<d.proto, OrgOfDoc(d)>> = a
    BY <1>1, <2>1, <2>3
  <2>8. CountedRuns(a, FALSE) \subseteq Stored /\ CountedRuns(a, FALSE)' \subseteq Stored \union {n}
    BY <1>1, <2>1, Counted
  <2>9. CountedRuns(a, FALSE)' =
          IF ~d.fixture /\ x.dup = None /\ <<d.proto, OrgOfDoc(d)>> = a
          THEN CountedRuns(a, FALSE) \union {n} ELSE CountedRuns(a, FALSE)
    <3>1. CASE ~d.fixture /\ x.dup = None /\ <<d.proto, OrgOfDoc(d)>> = a
      <4>1. CountedRuns(a, FALSE)' = CountedRuns(a, FALSE) \union {n}
        BY <2>6, <2>7, <2>8, <3>1
      <4>. QED
        BY <3>1, <4>1
    <3>2. CASE ~(~d.fixture /\ x.dup = None /\ <<d.proto, OrgOfDoc(d)>> = a)
      <4>1. CountedRuns(a, FALSE)' = CountedRuns(a, FALSE)
        BY <2>6, <2>7, <2>8, <3>2
      <4>. QED
        BY <3>2, <4>1
    <3>. QED
      BY <3>1, <3>2
  <2>. QED
    BY <2>4, <2>5, <2>9
<1>6. \A a : Gone(a)' = Gone(a)
  BY <1>5 DEF Gone
<1>7. \A a : Acc(a)' = IF ~d.fixture /\ x.dup = None /\ <<d.proto, OrgOfDoc(d)>> = a
                       THEN Acc(a) + 1 ELSE Acc(a)
  <2> SUFFICES ASSUME NEW a
               PROVE Acc(a)' = IF ~d.fixture /\ x.dup = None /\ <<d.proto, OrgOfDoc(d)>> = a
                               THEN Acc(a) + 1 ELSE Acc(a)
    OBVIOUS
  <2>1. Cardinality(CountedRuns(a, FALSE) \union {n}) = Acc(a) + 1
    BY <1>4, <1>5, CountsAreFinite, FS_AddElement DEF Acc
  <2>. QED
    BY <1>5, <2>1 DEF Acc
<1>8. CASE d.fixture \/ x.dup # None
  <2>1. ledger' = ledger
    BY <1>2, <1>8 DEF Recorded
  <2>2. \A a : Acc(a)' = Acc(a)
    BY <1>7, <1>8
  <2>. QED
    BY <1>6, <2>1, <2>2 DEF LInv, LedgerInv, CountOf
<1>9. CASE ~d.fixture /\ x.dup = None
  <2>1. PICK b : b = <<d.proto, OrgOfDoc(d)>>
    OBVIOUS
  <2>2. PICK t : t = [CountOf(b) EXCEPT !.accepted = @ + 1]
    OBVIOUS
  <2>3. b \in Account
    BY <1>1, <2>1, EvidenceAssumption DEF Account, Proto, Org, OrgOfDoc
  <2>4. CountOf(b) \in Tally
    BY <2>3 DEF LInv, LedgerInv, CountOf, Zero, Tally
  <2>5. t \in Tally /\ t.accepted = CountOf(b).accepted + 1
        /\ t.withdrawn = CountOf(b).withdrawn
    BY <2>2, <2>4 DEF Tally
  <2>6. t # None
    BY <2>5, NullAssumption
  <2>7. ledger' = [ledger EXCEPT ![b] = t]
    BY <1>2, <1>9, <2>1, <2>2 DEF Recorded
  <2>8. ledger' = [a \in Account |-> IF a = b THEN t ELSE ledger[a]]
    BY <2>3, <2>7 DEF LInv, LedgerInv
  <2>9. \A a \in Account : CountOf(a)' = IF a = b THEN t ELSE CountOf(a)
    BY <2>6, <2>8 DEF CountOf
  <2>10. \A a \in Account : CountOf(a)'.accepted = Acc(a)' /\ CountOf(a)'.withdrawn = Gone(a)'
    BY <1>6, <1>7, <1>9, <2>1, <2>5, <2>9 DEF LInv, LedgerInv
  <2>. QED
    BY <2>5, <2>8, <2>10 DEF LInv, LedgerInv
<1>. QED
  BY <1>8, <1>9

\* A withdrawal moves what it is the first to mark, which is all counted in
\* one account of its organization for every protocol.
LEMMA WithdrawLedger ==
  ASSUME LInv, NEW s \in Session, WithdrawRuns(s)
  PROVE  LedgerInv'
<1>0. PICK ids, o, n : /\ ids = sess[s].op.req.ids /\ o = sess[s].op.req.org
                       /\ n = revision + 1
  OBVIOUS
<1>1. Holds(s, "withdraw") /\ runs' = Marked(ids, n) /\ ledger' = Moved(o, ids)
  BY <1>0 DEF WithdrawRuns
<1>2. ids \subseteq OwnedBy(o) /\ ids \in SUBSET Stored
  <2>1. ids \subseteq OwnedBy(o)
    BY <1>0, <1>1 DEF LInv, EInv, Requested
  <2>. QED
    BY <2>1 DEF OwnedBy
<1>3. n \in Nat \ {0}
  <2>1. n = revision + 1
    BY <1>0
  <2>. QED
    BY <2>1 DEF LInv, EInv, RowsOK
<1>4. /\ Stored' = Stored
      /\ \A i \in Stored : /\ Aged(i) /\ runs'[i].idx = TRUE
                           /\ i \in ids => Withdrawn(runs'[i])
  BY <1>1, <1>2, <1>3, MarkedRows DEF LInv
<1>5. \A i \in Stored : i \notin ids => runs'[i] = runs[i]
  BY <1>1 DEF Marked, Stored
<1>6. \A i \in Stored :
        /\ runs'[i].doc = runs[i].doc
        /\ Countable(runs'[i]) <=> Countable(runs[i])
        /\ Withdrawn(runs'[i]) <=> (Withdrawn(runs[i]) \/ i \in ids)
  <2>1. \A i \in Stored : runs[i].idx = TRUE
    BY DEF LInv, EInv, RowsOK
  <2>2. \A i \in Stored : Countable(runs'[i]) <=> Countable(runs[i])
    BY <1>4, <2>1 DEF Aged, Countable
  <2>3. \A i \in Stored : Withdrawn(runs'[i]) <=> (Withdrawn(runs[i]) \/ i \in ids)
    BY <1>4, <1>5 DEF Aged
  <2>. QED
    BY <1>4, <2>2, <2>3 DEF Aged
<1>7. RowsOK
  BY DEF LInv, EInv
<1>8. ASSUME NEW a \in Account
      PROVE  /\ Cardinality(Newly(a, o, ids)) \in Nat
             /\ Cardinality(Newly(a, o, ids)) <= Acc(a)
             /\ Acc(a)' = Acc(a) - Cardinality(Newly(a, o, ids))
             /\ Gone(a)' = Gone(a) + Cardinality(Newly(a, o, ids))
  <2> DEFINE F == CountedRuns(a, FALSE)
             T == CountedRuns(a, TRUE)
             N == Newly(a, o, ids)
  <2>1. \A i : i \in CountedRuns(a, FALSE)' <=>
           /\ i \in Stored' /\ Countable(runs'[i]) /\ ~Withdrawn(runs'[i])
           /\ <<runs'[i].doc.proto, OrgOfDoc(runs'[i].doc)>> = a
    BY DEF CountedRuns, OrgOfDoc, Countable, Withdrawn
  <2>2. \A i : i \in CountedRuns(a, TRUE)' <=>
           /\ i \in Stored' /\ Countable(runs'[i]) /\ Withdrawn(runs'[i])
           /\ <<runs'[i].doc.proto, OrgOfDoc(runs'[i].doc)>> = a
    BY DEF CountedRuns, OrgOfDoc, Countable, Withdrawn
  <2>3. \A i : i \in N <=> i \in ids /\ i \in F
    <3>1. \A i \in ids : i \in Stored /\ OrgOfDoc(runs[i].doc) = o
      BY <1>2 DEF OwnedBy
    <3>. QED
      BY <3>1, Counted DEF Newly
  <2>4. ASSUME NEW i \in Stored
        PROVE  /\ i \in CountedRuns(a, FALSE)' <=> i \in F /\ i \notin ids
               /\ i \in CountedRuns(a, TRUE)' <=> i \in T \/ (i \in F /\ i \in ids)
    <3>1. i \in CountedRuns(a, FALSE)' <=>
            /\ Countable(runs[i]) /\ ~(Withdrawn(runs[i]) \/ i \in ids)
            /\ <<runs[i].doc.proto, OrgOfDoc(runs[i].doc)>> = a
      BY <1>4, <1>6, <2>1
    <3>2. i \in CountedRuns(a, TRUE)' <=>
            /\ Countable(runs[i]) /\ (Withdrawn(runs[i]) \/ i \in ids)
            /\ <<runs[i].doc.proto, OrgOfDoc(runs[i].doc)>> = a
      BY <1>4, <1>6, <2>2
    <3>. QED
      BY <3>1, <3>2, Counted
  <2>5. /\ F \subseteq Stored /\ CountedRuns(a, FALSE)' \subseteq Stored
        /\ T \subseteq Stored /\ CountedRuns(a, TRUE)' \subseteq Stored
    BY <1>4, <2>1, <2>2, Counted
  <2>6. IsFiniteSet(F) /\ IsFiniteSet(T) /\ Acc(a) \in Nat /\ Gone(a) \in Nat
    BY <1>7, CountsAreFinite
  <2>7. F \cap T = {}
    BY Counted
  <2> HIDE DEF F, T, N
  <2>8. N \subseteq F /\ F \cap N = N /\ T \cap N = {}
    BY <2>3, <2>7
  <2>9. CountedRuns(a, FALSE)' = F \ N
    BY <2>3, <2>4, <2>5
  <2>10. CountedRuns(a, TRUE)' = T \union N
    BY <2>3, <2>4, <2>5
  <2>11. IsFiniteSet(N) /\ Cardinality(N) <= Cardinality(F) /\ Cardinality(N) \in Nat
    BY <2>6, <2>8, FS_Subset, FS_CardinalityType
  <2>12. Cardinality(F \ N) = Cardinality(F) - Cardinality(N)
    BY <2>6, <2>8, FS_Difference
  <2>13. Cardinality(T \union N) = Cardinality(T) + Cardinality(N)
    <3>1. Cardinality(T \union N) = Cardinality(T) + Cardinality(N) - Cardinality(T \cap N)
      BY <2>6, <2>11, FS_Union
    <3>2. Cardinality(T \cap N) = 0
      BY <2>8, FS_EmptySet
    <3>3. Cardinality(T) \in Nat
      BY <2>6, FS_CardinalityType
    <3>. QED
      BY <2>11, <3>1, <3>2, <3>3
  <2>14. Acc(a) = Cardinality(F) /\ Gone(a) = Cardinality(T)
    BY DEF Acc, Gone, F, T
  <2>15. Acc(a)' = Cardinality(F \ N) /\ Gone(a)' = Cardinality(T \union N)
    BY <2>9, <2>10 DEF Acc, Gone
  <2>. QED
    BY <2>11, <2>12, <2>13, <2>14, <2>15 DEF N
<1>9. ASSUME NEW a \in Account
      PROVE  /\ ledger'[a] \in Tally \union {None}
             /\ CountOf(a)'.accepted = Acc(a)' /\ CountOf(a)'.withdrawn = Gone(a)'
  <2>1. PICK c \in Nat : c = Cardinality(Newly(a, o, ids))
    BY <1>8
  <2>2. c <= Acc(a) /\ Acc(a)' = Acc(a) - c /\ Gone(a)' = Gone(a) + c
    BY <1>8, <2>1
  <2>3. Acc(a) \in Nat /\ Gone(a) \in Nat
    BY <1>7, CountsAreFinite
  <2>4. CASE ledger[a] = None
    <3>1. ledger'[a] = None
      BY <1>1, <2>4 DEF Moved
    <3>2. Acc(a) = 0 /\ Gone(a) = 0
      BY <2>4 DEF LInv, LedgerInv, CountOf, Zero
    <3>. QED
      BY <2>2, <2>3, <3>1, <3>2 DEF CountOf, Zero
  <2>5. CASE ledger[a] # None
    <3>1. ledger'[a] = [accepted |-> Monus(ledger[a].accepted, c),
                        withdrawn |-> ledger[a].withdrawn + c]
      BY <1>1, <2>1, <2>5 DEF Moved
    <3>2. ledger[a].accepted = Acc(a) /\ ledger[a].withdrawn = Gone(a)
      BY <2>5 DEF LInv, LedgerInv, CountOf
    <3>3. Monus(ledger[a].accepted, c) = Acc(a) - c /\ Acc(a) - c \in Nat
      BY <2>2, <2>3, <3>2 DEF Monus
    <3>4. ledger'[a] = [accepted |-> Acc(a) - c, withdrawn |-> Gone(a) + c]
      BY <3>1, <3>2, <3>3
    <3>5. ledger'[a] \in Tally /\ ledger'[a].accepted = Acc(a) - c
          /\ ledger'[a].withdrawn = Gone(a) + c
      BY <2>3, <3>3, <3>4 DEF Tally
    <3>6. ledger'[a] # None
      BY <3>5, NullAssumption
    <3>. QED
      BY <2>2, <3>5, <3>6 DEF CountOf
  <2>. QED
    BY <2>4, <2>5
<1>10. ledger' = [a \in Account |-> ledger'[a]]
  BY <1>1 DEF Moved
<1>. QED
  BY <1>9, <1>10 DEF LedgerInv

-----------------------------------------------------------------------------
\* No other step changes a row or a count.
LEMMA NextLedger ==
  ASSUME NoHistory, LInv, [Next]_vars
  PROVE  LedgerInv'
<1>0. LedgerInv /\ EInv
  BY DEF LInv
<1>1. ASSUME NEW d \in Doc, Preview(d) \/ PreviewExpires(d) PROVE LedgerInv'
  BY <1>0, <1>1, SameLedger DEF Preview, PreviewExpires, dbVars
<1>2. CASE ReapPreviews
  BY <1>0, <1>2, SameLedger DEF ReapPreviews, dbVars
<1>3. ASSUME NEW s \in Session, NEW op, Begin(s, op) PROVE LedgerInv'
  BY <1>0, <1>3, SameLedger DEF Begin, dbVars
<1>4. ASSUME NEW s \in Session, Refuse(s) \/ Decide(s) \/ Abort(s) PROVE LedgerInv'
  BY <1>0, <1>4, SameLedger DEF Refuse, Decide, Abort, dbVars
<1>5. ASSUME NEW s \in Session, Transaction(s) PROVE LedgerInv'
  BY <1>4, <1>5, StoreLedger, WithdrawLedger DEF Transaction
<1>6. ASSUME NEW w \in applyJobs, ApplyWithdrawal(w) PROVE LedgerInv'
  <2>1. runs' = [i \in RunId |-> runs[i]]
    BY <1>0, <1>6 DEF ApplyWithdrawal, Marked, EInv, JobsDone
  <2>2. runs' = runs
    BY <1>0, <2>1 DEF EInv, RowsOK
  <2>. QED
    BY <1>0, <1>6, <2>2, SameLedger DEF ApplyWithdrawal
<1>7. ASSUME NEW n \in Node, RevokeNode(n) PROVE LedgerInv'
  BY <1>0, <1>7, SameLedger DEF RevokeNode, dbVars
<1>8. CASE ChangeFlag
  BY <1>8 DEF ChangeFlag, NoHistory
<1>9. CASE SharingBackfill \/ IndexBackfill
  BY <1>0, <1>9, NothingToRepair
<1>10. CASE UNCHANGED vars
  BY <1>0, <1>10, SameLedger DEF vars
<1>. QED
  BY <1>1, <1>2, <1>3, <1>5, <1>6, <1>7, <1>8, <1>9, <1>10
     DEF Next, SubmitRun, RequestWithdrawal

\* Where every row came through intake the ledger always says exactly how many
\* distinct measurements an organization contributes, and how many it took
\* back, however submissions, duplicates and overlapping withdrawals race.
THEOREM LedgerIsExact == NoHistory /\ Spec => []LedgerExact
<1>1. ASSUME NoHistory PROVE Spec => []LedgerExact
  <2>1. Init => LInv
    BY <1>1, InitEInv, InitLedger DEF LInv
  <2>2. LInv /\ [Next]_vars => LInv'
    BY <1>1, NextEInv, NextLedger DEF LInv
  <2>3. LInv => LedgerExact
    BY LedgerInvIsExact DEF LInv
  <2>. QED
    BY <2>1, <2>2, <2>3, PTL DEF Spec
<1>. QED
  BY <1>1

-----------------------------------------------------------------------------
(***************************************************************************)
(* The store implements EvidenceLog, for every number of documents,        *)
(* organizations and concurrent requests, where every row came through     *)
(* intake.  What needs the argument is a duplicate: it takes no revision,  *)
(* so it must not change a cohort, although it may flag earlier rows.      *)
(***************************************************************************)

\* No logged revision lies ahead.
LogBehind == \A e \in revlog : e.rev \in Nat /\ e.rev <= revision

\* A decision holds both ways: a duplicate has an unwithdrawn run of its
\* organization, a shared source one of another.
Exactly ==
  \A s \in Session : Holds(s, "store") =>
    /\ sess[s].dup # None => Own(sess[s].op.doc) # {}
    /\ sess[s].shared => ~(Matches(sess[s].op.doc) \subseteq Own(sess[s].op.doc))

\* Whatever stands behind one measurement for two organizations is flagged,
\* candidate or not.
Conflict(r, q) ==
  /\ ~Withdrawn(r) /\ ~Withdrawn(q)
  /\ r.doc.proto = q.doc.proto /\ r.doc.meas = q.doc.meas
  /\ OrgOfDoc(r.doc) # OrgOfDoc(q.doc)

AllMarked == \A i, j \in Stored : Conflict(runs[i], runs[j]) => runs[i].suspect /\ runs[j].suspect

LogInv == EInv /\ LogBehind /\ Exactly /\ AllMarked

-----------------------------------------------------------------------------
LEMMA InitLogInv ==
  ASSUME NoHistory, Init
  PROVE  LogInv
<1>1. EInv
  BY InitEInv
<1>2. revlog = {} /\ Stored = {}
  <2>1. Legacy = {} /\ LegacyGone = {}
    BY EvidenceAssumption DEF NoHistory
  <2>. QED
    BY <2>1 DEF Init, Stored
<1>3. Exactly
  BY DEF Init, Exactly, Holds
<1>. QED
  BY <1>1, <1>2, <1>3 DEF LogInv, LogBehind, AllMarked

\* Steps that store nothing and decide nothing.
LEMMA QuietLog ==
  ASSUME LogInv, EInv', UNCHANGED <<runs, revision, revlog>>,
         \A s \in Session : Holds(s, "store")' => Holds(s, "store") /\ sess'[s] = sess[s]
  PROVE  LogInv' /\ UNCHANGED Log!logVars
<1>1. LogBehind' /\ AllMarked'
  BY DEF LogInv, LogBehind, AllMarked, Stored, Conflict, Withdrawn, OrgOfDoc
<1>2. Exactly'
  BY DEF LogInv, Exactly, Own, Matches, SameMeasurement, Stored, OrgOfDoc, Withdrawn
<1>3. \A p : LatestOf(p)' = LatestOf(p) /\ CohortOf(p)' = CohortOf(p)
  BY DEF LatestOf, CohortOf, Candidates, Candidate, Countable, Withdrawn, Stored, OrgOfDoc
<1>4. UNCHANGED Log!logVars
  BY <1>3 DEF Log!logVars
<1>. QED
  BY <1>1, <1>2, <1>4 DEF LogInv

\* The reads under the lock.
LEMMA DecideLog ==
  ASSUME LogInv, EInv', NEW s \in Session, Decide(s)
  PROVE  LogInv' /\ UNCHANGED Log!logVars
<1>1. UNCHANGED <<runs, revision, revlog>> /\ lock = None
  BY DEF Decide, Acquire, dbVars
<1>2. LogBehind' /\ AllMarked'
  BY <1>1 DEF LogInv, LogBehind, AllMarked, Stored, Conflict, Withdrawn, OrgOfDoc
<1>3. \A p : LatestOf(p)' = LatestOf(p) /\ CohortOf(p)' = CohortOf(p)
  BY <1>1 DEF LatestOf, CohortOf, Candidates, Candidate, Countable, Withdrawn, Stored, OrgOfDoc
<1>4. UNCHANGED Log!logVars
  BY <1>1, <1>3 DEF Log!logVars
<1>5. \A d : Own(d)' = Own(d) /\ Matches(d)' = Matches(d)
  BY <1>1 DEF Own, Matches, SameMeasurement, Stored, OrgOfDoc, Withdrawn
<1>6. Exactly'
  <2> SUFFICES ASSUME NEW t \in Session, Holds(t, "store")'
               PROVE  /\ sess'[t].dup # None => Own(sess'[t].op.doc) # {}
                      /\ sess'[t].shared =>
                           ~(Matches(sess'[t].op.doc) \subseteq Own(sess'[t].op.doc))
    BY <1>5 DEF Exactly
  <2>1. t = s
    <3>1. lock' = s
      BY DEF Decide
    <3>2. lock' = t
      BY DEF EInv, OpenOK, Holds
    <3>. QED
      BY <3>1, <3>2
  <2>2. sess = [u \in Session |-> sess[u]] /\ sess[s] \in Tx
    BY DEF LogInv, EInv, OpenOK, Decide, Acquire
  <2>3. PICK x, D, B : /\ x = sess[s]
                       /\ D = (IF x.op.kind = "store" THEN DuplicateOf(x.op.doc) ELSE None)
                       /\ B = (x.op.kind = "store" /\ SharedSource(x.op.doc))
    OBVIOUS
  <2>4. sess'[s] = [x EXCEPT !.pc = "locked", !.dup = D, !.shared = B]
    BY <2>2, <2>3 DEF Decide
  <2>5. sess'[s].op = x.op /\ sess'[s].dup = D /\ sess'[s].shared = B
    BY <2>2, <2>3, <2>4 DEF Tx
  <2>6. x.op.kind = "store"
    BY <2>1, <2>5 DEF Holds
  <2>7. D = DuplicateOf(x.op.doc)
    BY <2>3, <2>6
  <2>8. D # None => Own(x.op.doc) # {}
    BY <2>7 DEF DuplicateOf
  <2>9. B => Matches(x.op.doc) # Own(x.op.doc)
    BY <2>3 DEF SharedSource
  <2>10. Own(x.op.doc) \subseteq Matches(x.op.doc)
    BY DEF Own
  <2>. QED
    BY <2>1, <2>5, <2>8, <2>9, <2>10
<1>. QED
  BY <1>2, <1>4, <1>6 DEF LogInv

-----------------------------------------------------------------------------
\* What a reader sees of a candidate.
Entry(i) ==
  [id |-> i, org |-> OrgOfDoc(runs[i].doc), meas |-> runs[i].doc.meas,
   suspect |-> runs[i].suspect, rev |-> runs[i].rev]

\* As many entries as there are numbers they are of.
LEMMA EntriesSize ==
  ASSUME NEW S, IsFiniteSet(S), NEW f, \A i \in S : f[i].id = i
  PROVE  /\ IsFiniteSet({f[i] : i \in S})
         /\ Cardinality({f[i] : i \in S}) = Cardinality(S)
<1> DEFINE T == {f[i] : i \in S}
<1> DEFINE g == [i \in S |-> f[i]]
<1>1. g \in Bijection(S, T)
  <2>1. g \in [S -> T]
    OBVIOUS
  <2>2. \A i, j \in S : g[i] = g[j] => i = j
    OBVIOUS
  <2>3. \A e \in T : \E i \in S : g[i] = e
    OBVIOUS
  <2> HIDE DEF g, T
  <2>. QED
    BY <2>1, <2>2, <2>3 DEF Bijection, Injection, Surjection, IsInjective
<1>2. ExistsBijection(S, T)
  BY <1>1 DEF ExistsBijection
<1>. QED
  BY <1>2, FS_Bijection

\* The log counts as the store does.
LEMMA LogCounts == ASSUME NEW S PROVE Log!Cardinality(S) = Cardinality(S)
  BY DEF Log!Cardinality, Cardinality

\* Candidates whose entries stay.
LEMMA SameCohort ==
  ASSUME NEW q, Candidates(q)' = Candidates(q), \A i \in Candidates(q) : Entry(i)' = Entry(i)
  PROVE  CohortOf(q)' = CohortOf(q)
  BY DEF CohortOf, Entry

\* A new revision is the latest of the protocols it is logged under.
LEMMA NewRevision ==
  ASSUME LogBehind, revision \in Nat, NEW P, NEW k,
         revlog' = revlog \union {[rev |-> revision + 1, proto |-> p, kind |-> k] : p \in P}
  PROVE  /\ \A p \in P : LatestOf(p)' = revision + 1
         /\ \A p : p \notin P => LatestOf(p)' = LatestOf(p)
         /\ revision' = revision + 1 => LogBehind'
<1>1. \A p : {x \in revlog' : x.proto = p} =
         IF p \in P THEN {x \in revlog : x.proto = p}
                           \union {[rev |-> revision + 1, proto |-> p, kind |-> k]}
         ELSE {x \in revlog : x.proto = p}
  OBVIOUS
<1>2. ASSUME NEW p \in P PROVE LatestOf(p)' = revision + 1
  <2> DEFINE S == {0} \union {e.rev : e \in {x \in revlog' : x.proto = p}}
  <2>1. revision + 1 \in S
    <3>1. [rev |-> revision + 1, proto |-> p, kind |-> k] \in {x \in revlog' : x.proto = p}
      BY <1>1
    <3>. QED
      BY <3>1
  <2>2. \A y \in S : y \in Nat /\ y <= revision + 1
    BY <1>1 DEF LogBehind
  <2> HIDE DEF S
  <2>3. Max(S) = revision + 1
    BY <2>1, <2>2 DEF Max
  <2>. QED
    BY <2>3 DEF LatestOf, S
<1>3. \A p : p \notin P => LatestOf(p)' = LatestOf(p)
  BY <1>1 DEF LatestOf
<1>4. revision' = revision + 1 => LogBehind'
  BY DEF LogBehind
<1>. QED
  BY <1>2, <1>3, <1>4

-----------------------------------------------------------------------------
\* A submission that is accepted is one revision of its protocol; a duplicate
\* changes no cohort, since what it flags in one is flagged already.
LEMMA StoreLog ==
  ASSUME LogInv, EInv', NEW s \in Session, StoreNew(s)
  PROVE  LogInv' /\ [Log!Next]_Log!logVars
<1>0. PICK x, d, n : x = sess[s] /\ d = sess[s].op.doc /\ n = sess[s].op.doc.id
  OBVIOUS
<1>1. /\ d \in Doc /\ n \in RunId \ Stored /\ x.dup \in RunId \union {None}
      /\ x.shared \in BOOLEAN
      /\ Stored' = Stored \union {n}
      /\ runs'[n].doc = d /\ runs'[n].dup = x.dup
      /\ runs'[n].suspect = x.shared /\ runs'[n].rev = NextRevision(x.dup)
      /\ ~Withdrawn(runs'[n])
      /\ \A i \in Stored : /\ runs'[i] \in Row /\ Aged(i) /\ runs'[i].wd = runs[i].wd
                           /\ runs'[i].idx = TRUE /\ runs'[i].trusted = TRUE
                           /\ runs'[i].rev = runs[i].rev
                           /\ i \in Suspects(d, x.shared) => runs'[i].suspect
                           /\ i \notin Suspects(d, x.shared) => runs'[i] = runs[i]
  BY <1>0, StoredRows DEF LogInv
<1>2. /\ Stands(d, x.dup, x.shared) /\ Holds(s, "store") /\ End(s)
      /\ x.dup # None => Own(d) # {}
      /\ x.shared => ~(Matches(d) \subseteq Own(d))
  BY <1>0 DEF StoreNew, LogInv, EInv, Decided, Exactly
<1>3. RowsOK /\ RowsOK'
  BY DEF LogInv, EInv
<1>4. \A i \in Stored : /\ runs[i] \in Row /\ runs[i].idx = TRUE /\ runs[i].trusted = TRUE
                        /\ runs'[i].doc = runs[i].doc /\ runs'[i].dup = runs[i].dup
                        /\ (Withdrawn(runs'[i]) <=> Withdrawn(runs[i]))
                        /\ runs[i].suspect => runs'[i].suspect
  BY <1>1, <1>3 DEF RowsOK, Aged, Withdrawn
<1>5. \A i \in Stored : ~Withdrawn(runs[i]) /\ runs[i].doc.proto = d.proto
          /\ runs[i].doc.meas = d.meas
          => i \in Matches(d) /\ i \in SameMeasurement(d)
  BY <1>4 DEF Matches, SameMeasurement
<1>6. AllMarked'
  <2>1. \A i \in Stored :
          Conflict(runs'[i], runs'[n]) \/ Conflict(runs'[n], runs'[i]) =>
            runs'[i].suspect /\ runs'[n].suspect
    <3>1. \A i \in Stored : OrgOfDoc(runs[i].doc) # OrgOfDoc(d) => i \notin Own(d)
      BY DEF Own
    <3>. QED
      BY <1>1, <1>2, <1>4, <1>5, <3>1 DEF Stands, Suspects, Conflict
  <2>2. \A i, j \in Stored : Conflict(runs'[i], runs'[j]) => Conflict(runs[i], runs[j])
    BY <1>4 DEF Conflict
  <2>3. ~Conflict(runs'[n], runs'[n])
    BY DEF Conflict
  <2>4. \A i, j \in Stored' :
          Conflict(runs'[i], runs'[j]) => runs'[i].suspect /\ runs'[j].suspect
    BY <1>1, <1>4, <2>1, <2>2, <2>3 DEF LogInv, AllMarked
  <2>. QED
    BY <2>4 DEF AllMarked, Conflict, Withdrawn, OrgOfDoc
<1>7. Exactly'
  <2>1. /\ OpenOK' /\ sess'[s] = None
        /\ \A t \in Session \ {s} : sess'[t] = sess[t]
    BY <1>2, Ending DEF LogInv, EInv
  <2>2. \A t \in Session : ~Holds(t, "store")'
    BY <1>2, <2>1, OneDecides DEF LogInv, EInv, Holds
  <2>. QED
    BY <2>2 DEF Exactly
<1>8. \A q, i : i \in Stored /\ q # d.proto /\ runs[i].doc.proto = q => runs'[i] = runs[i]
  BY <1>1 DEF Suspects, SameMeasurement
<1>9. \A q : /\ Candidates(q) \subseteq Candidates(q)'
             /\ Candidates(q)' \subseteq Candidates(q) \union {n}
             /\ n \in Candidates(q)' => x.dup = None /\ q = d.proto
  BY <1>1, <1>4 DEF Candidates, Candidate, Countable
<1>10. \A q : Candidates(q) \subseteq Stored /\ n \notin Candidates(q)
  BY <1>1 DEF Candidates
<1>11. ASSUME NEW q \in Proto, q # d.proto PROVE CohortOf(q)' = CohortOf(q)
  <2>1. Candidates(q)' = Candidates(q)
    BY <1>9, <1>11
  <2>2. \A i \in Candidates(q) : runs'[i] = runs[i]
    BY <1>8, <1>11 DEF Candidates
  <2>3. \A i \in Candidates(q) : Entry(i)' = Entry(i)
    BY <2>2 DEF Entry, OrgOfDoc
  <2>. QED
    BY <2>1, <2>3, SameCohort
<1>12. CASE x.dup # None
  <2>1. revision' = revision /\ revlog' = revlog
    BY <1>0, <1>12 DEF StoreNew, NextRevision
  <2>2. LogBehind'
    BY <2>1 DEF LogInv, LogBehind
  <2>3. Candidates(d.proto)' = Candidates(d.proto)
    BY <1>9, <1>12
  <2>4. ASSUME NEW i \in Candidates(d.proto), i \in Suspects(d, x.shared)
        PROVE  runs[i].suspect
    <3>1. x.shared /\ i \in Stored /\ ~Withdrawn(runs[i]) /\ runs[i].doc.proto = d.proto
          /\ runs[i].doc.meas = d.meas
      BY <2>4 DEF Candidates, Candidate, Suspects, SameMeasurement
    <3>2. PICK j \in Own(d) : TRUE
      BY <1>2, <1>12
    <3>3. PICK k \in Matches(d) : k \notin Own(d)
      BY <1>2, <3>1
    <3>4. /\ j \in Stored /\ ~Withdrawn(runs[j]) /\ runs[j].doc.proto = d.proto
          /\ runs[j].doc.meas = d.meas /\ OrgOfDoc(runs[j].doc) = OrgOfDoc(d)
      BY <3>2 DEF Own, Matches, SameMeasurement
    <3>5. /\ k \in Stored /\ ~Withdrawn(runs[k]) /\ runs[k].doc.proto = d.proto
          /\ runs[k].doc.meas = d.meas /\ OrgOfDoc(runs[k].doc) # OrgOfDoc(d)
      BY <3>3 DEF Own, Matches, SameMeasurement
    <3>6. Conflict(runs[i], runs[j]) \/ Conflict(runs[i], runs[k])
      BY <3>1, <3>4, <3>5 DEF Conflict
    <3>. QED
      BY <3>1, <3>4, <3>5, <3>6 DEF LogInv, AllMarked
  <2>5. ASSUME NEW i \in Candidates(d.proto) PROVE Entry(i)' = Entry(i)
    <3>1. i \in Stored
      BY <1>10
    <3>2. CASE i \notin Suspects(d, x.shared)
      BY <1>1, <3>1, <3>2 DEF Entry, OrgOfDoc
    <3>3. CASE i \in Suspects(d, x.shared)
      <4>1. runs[i].suspect /\ runs'[i].suspect
        BY <1>1, <2>4, <3>1, <3>3
      <4>2. runs[i].suspect \in BOOLEAN /\ runs'[i].suspect \in BOOLEAN
        BY <1>1, <1>4, <3>1 DEF Row
      <4>3. runs[i].suspect = TRUE /\ runs'[i].suspect = TRUE
        BY <4>1, <4>2
      <4>4. runs'[i].doc = runs[i].doc /\ runs'[i].rev = runs[i].rev
        BY <1>1, <1>4, <3>1
      <4>. QED
        BY <4>3, <4>4 DEF Entry, OrgOfDoc
    <3>. QED
      BY <3>2, <3>3
  <2>6. CohortOf(d.proto)' = CohortOf(d.proto)
    BY <2>3, <2>5, SameCohort
  <2>7. \A q \in Proto : CohortOf(q)' = CohortOf(q) /\ LatestOf(q)' = LatestOf(q)
    BY <1>11, <2>1, <2>6 DEF LatestOf
  <2>8. UNCHANGED Log!logVars
    BY <2>1, <2>7 DEF Log!logVars
  <2>. QED
    BY <1>6, <1>7, <2>2, <2>8 DEF LogInv
<1>13. CASE x.dup = None
  <2>1. /\ revision' = revision + 1 /\ runs'[n].rev = revision + 1
        /\ revlog' = revlog \union {[rev |-> revision + 1, proto |-> d.proto, kind |-> "intake"]}
    BY <1>0, <1>1, <1>13 DEF StoreNew, NextRevision
  <2>2. PICK P, k : P = {d.proto} /\ k = "intake"
    OBVIOUS
  <2>3. /\ LatestOf(d.proto)' = revision + 1 /\ LogBehind'
        /\ \A q : q # d.proto => LatestOf(q)' = LatestOf(q)
    <3>1. revlog' = revlog \union {[rev |-> revision + 1, proto |-> p, kind |-> k] : p \in P}
      BY <2>1, <2>2
    <3>2. LogBehind /\ revision \in Nat
      BY <1>3 DEF LogInv, RowsOK
    <3>3. /\ \A p \in P : LatestOf(p)' = revision + 1
          /\ \A p : p \notin P => LatestOf(p)' = LatestOf(p)
          /\ revision' = revision + 1 => LogBehind'
      BY <3>1, <3>2, NewRevision
    <3>. QED
      BY <2>1, <2>2, <3>3
  <2>4. d.proto \in Proto
    BY <1>1 DEF Proto
  <2>5. Log!Touch({d.proto})
    BY <1>11, <2>1, <2>3 DEF Log!Touch
  <2> DEFINE C == CohortOf(d.proto)
  <2>6. /\ C = {Entry(i) : i \in Candidates(d.proto)}
        /\ C' = {Entry(i)' : i \in Candidates(d.proto)'}
    BY DEF CohortOf, Entry
  <2>7. \A i \in Candidates(d.proto) :
          /\ Entry(i)'.id = Entry(i).id /\ Entry(i)'.org = Entry(i).org
          /\ Entry(i)'.meas = Entry(i).meas /\ Entry(i)'.rev = Entry(i).rev
    BY <1>1, <1>4, <1>10 DEF Entry, OrgOfDoc
  <2>8. Entry(n)'.rev = revision + 1
    BY <2>1 DEF Entry
  <2>9. Log!Ids(C) \subseteq Log!Ids(C')
    <3> HIDE DEF C
    <3>1. \A i \in Candidates(d.proto) : Entry(i) \in C /\ Entry(i)' \in C'
      BY <1>9, <2>6
    <3>. QED
      BY <2>6, <2>7, <3>1 DEF Log!Ids
  <2>10. \A r \in C' : r.rev = revision + 1 \/ <<r.id, r.org, r.meas, r.rev>> \in Log!Ids(C)
    <3> HIDE DEF C
    <3> SUFFICES ASSUME NEW i \in Candidates(d.proto)', Entry(i)'.rev # revision + 1
                 PROVE <<Entry(i)'.id, Entry(i)'.org, Entry(i)'.meas, Entry(i)'.rev>>
                         \in Log!Ids(C)
      BY <2>6
    <3>1. i \in Candidates(d.proto)
      BY <1>9, <2>8
    <3>2. Entry(i) \in C
      BY <2>6, <3>1
    <3>. QED
      BY <2>7, <3>1, <3>2 DEF Log!Ids
  <2>11. Cardinality(C') <= Cardinality(C) + 1
    <3>1. /\ IsFiniteSet(Candidates(d.proto))
          /\ Cardinality(C) = Cardinality(Candidates(d.proto))
      <4>1. IsFiniteSet(Candidates(d.proto))
        BY <1>3, <1>10, FS_Subset DEF RowsOK
      <4>2. PICK f : f = [i \in Candidates(d.proto) |-> Entry(i)]
        OBVIOUS
      <4>3. \A i \in Candidates(d.proto) : f[i] = Entry(i) /\ f[i].id = i
        BY <4>2 DEF Entry
      <4>4. C = {f[i] : i \in Candidates(d.proto)}
        BY <2>6, <4>3
      <4>. QED
        BY <4>1, <4>3, <4>4, EntriesSize
    <3>2. Cardinality(C') = Cardinality(Candidates(d.proto)')
      <4>1. Candidates(d.proto)' \subseteq Stored'
        BY DEF Candidates
      <4>2. IsFiniteSet(Candidates(d.proto)')
        BY <1>3, <4>1, FS_Subset DEF RowsOK
      <4>3. PICK f : f = [i \in Candidates(d.proto)' |-> Entry(i)']
        OBVIOUS
      <4>4. \A i \in Candidates(d.proto)' : f[i] = Entry(i)' /\ f[i].id = i
        BY <4>3 DEF Entry
      <4>5. C' = {f[i] : i \in Candidates(d.proto)'}
        BY <2>6, <4>4
      <4>. QED
        BY <4>2, <4>4, <4>5, EntriesSize
    <3>3. /\ IsFiniteSet(Candidates(d.proto) \union {n})
          /\ Cardinality(Candidates(d.proto) \union {n}) = Cardinality(Candidates(d.proto)) + 1
      BY <1>10, <3>1, FS_AddElement
    <3>4. Cardinality(Candidates(d.proto)') <= Cardinality(Candidates(d.proto) \union {n})
      BY <1>9, <3>3, FS_Subset
    <3>. QED
      BY <3>1, <3>2, <3>3, <3>4
  <2>12. Log!Accept(d.proto)
    <3>1. /\ [p \in Proto |-> CohortOf(p)][d.proto] = C
          /\ [p \in Proto |-> CohortOf(p)]'[d.proto] = C'
      BY <2>4
    <3>2. Log!Cardinality(C') <= Log!Cardinality(C) + 1
      BY <2>11, LogCounts
    <3> HIDE DEF C
    <3>. QED
      BY <2>5, <2>9, <2>10, <3>1, <3>2 DEF Log!Accept
  <2>13. Log!Next
    BY <2>4, <2>12 DEF Log!Next
  <2>. QED
    BY <1>6, <1>7, <2>3, <2>13 DEF LogInv
<1>. QED
  BY <1>1, <1>12, <1>13

\* A withdrawal is one revision of the protocols it takes runs from.
LEMMA WithdrawLog ==
  ASSUME LogInv, EInv', NEW s \in Session, WithdrawRuns(s)
  PROVE  LogInv' /\ [Log!Next]_Log!logVars
<1>0. PICK r, ids, P, k : /\ r = sess[s].op.req /\ ids = r.ids
                          /\ P = {runs[i].doc.proto : i \in ids} /\ k = "withdrawal"
  OBVIOUS
<1>1. /\ End(s) /\ Holds(s, "withdraw") /\ runs' = Marked(ids, revision + 1)
      /\ revision' = revision + 1
      /\ revlog' = revlog \union {[rev |-> revision + 1, proto |-> p, kind |-> k] : p \in P}
  BY <1>0 DEF WithdrawRuns
<1>2. ids \in SUBSET Stored /\ revision \in Nat /\ RowsOK
  BY <1>0, <1>1 DEF LogInv, EInv, Requested, OwnedBy, RowsOK
<1>3. ids # {}
  <2>1. sess[s].op \in StoreOp \union WithdrawOp /\ sess[s].op.kind = "withdraw"
    BY <1>1 DEF LogInv, EInv, OpenOK, Holds, Tx
  <2>2. r \in Request
    BY <1>0, <2>1 DEF StoreOp, WithdrawOp
  <2>3. \A q \in Request : q.ids # {}
    BY EvidenceAssumption
  <2>. QED
    BY <1>0, <2>2, <2>3
<1>4. /\ Stored' = Stored
      /\ \A i \in Stored : /\ runs'[i] \in Row /\ Aged(i)
                           /\ i \in ids => Withdrawn(runs'[i])
  <2>1. EInv /\ revision + 1 \in Nat \ {0}
    BY <1>2 DEF LogInv
  <2>. QED
    BY <1>1, <1>2, <2>1, MarkedRows
<1>5. \A i \in Stored \ ids : runs'[i] = runs[i]
  BY <1>1 DEF Marked, Stored
<1>6. /\ \A p \in P : LatestOf(p)' = revision + 1
      /\ \A p : p \notin P => LatestOf(p)' = LatestOf(p)
      /\ LogBehind'
  BY <1>1, <1>2, NewRevision DEF LogInv
<1>7. AllMarked'
  <2>1. \A i, j \in Stored : Conflict(runs'[i], runs'[j]) =>
          /\ Conflict(runs[i], runs[j])
          /\ runs[i].suspect => runs'[i].suspect
          /\ runs[j].suspect => runs'[j].suspect
    BY <1>4 DEF Conflict, Aged
  <2>2. \A i, j \in Stored' :
          Conflict(runs'[i], runs'[j]) => runs'[i].suspect /\ runs'[j].suspect
    BY <1>4, <2>1 DEF LogInv, AllMarked
  <2>. QED
    BY <2>2 DEF AllMarked, Conflict, Withdrawn, OrgOfDoc
<1>8. Exactly'
  <2>1. /\ OpenOK' /\ sess'[s] = None
        /\ \A t \in Session \ {s} : sess'[t] = sess[t]
    BY <1>1, Ending DEF LogInv, EInv
  <2>2. \A t \in Session : ~Holds(t, "store")'
    BY <1>1, <2>1, OneDecides DEF LogInv, EInv, Holds
  <2>. QED
    BY <2>2 DEF Exactly
<1>9. \A q : Candidates(q)' = Candidates(q) \ ids
  <2>1. \A i \in ids : ~Candidate(runs'[i])
    BY <1>2, <1>4 DEF Candidate
  <2>2. \A i \in Stored \ ids : Candidate(runs'[i]) <=> Candidate(runs[i])
    BY <1>5
  <2>3. \A q : Candidates(q)' = {i \in Stored : Candidate(runs'[i]) /\ runs'[i].doc.proto = q}
    BY <1>4 DEF Candidates, Candidate, Countable, Withdrawn
  <2>. QED
    BY <1>5, <2>1, <2>2, <2>3 DEF Candidates
<1>10. \A q : /\ CohortOf(q) = {Entry(i) : i \in Candidates(q)}
              /\ CohortOf(q)' = {Entry(i)' : i \in Candidates(q)'}
  BY DEF CohortOf, Entry
<1>11. \A q : \A i \in Candidates(q)' : i \in Candidates(q) /\ Entry(i)' = Entry(i)
  BY <1>5, <1>9 DEF Entry, OrgOfDoc, Candidates
<1>12. \A q : CohortOf(q)' \subseteq CohortOf(q)
  BY <1>10, <1>11
<1>13. \A q : q \notin P => CohortOf(q)' = CohortOf(q)
  <2> SUFFICES ASSUME NEW q, q \notin P PROVE CohortOf(q)' = CohortOf(q)
    OBVIOUS
  <2>1. Candidates(q)' = Candidates(q)
    BY <1>0, <1>9 DEF Candidates
  <2>. QED
    BY <1>11, <2>1, SameCohort
<1>14. P \in (SUBSET Proto) \ {{}}
  <2>1. \A i \in Stored : runs[i].doc \in Doc
    BY <1>2 DEF RowsOK, Row
  <2>. QED
    BY <1>0, <1>2, <1>3, <2>1 DEF Proto
<1>15. Log!Withdraw(P)
  <2>1. Log!Touch(P)
    BY <1>1, <1>6, <1>13, <1>14 DEF Log!Touch
  <2>2. \A p \in P : /\ [q \in Proto |-> CohortOf(q)][p] = CohortOf(p)
                     /\ [q \in Proto |-> CohortOf(q)]'[p] = CohortOf(p)'
    BY <1>14
  <2>. QED
    BY <1>12, <2>1, <2>2 DEF Log!Withdraw
<1>16. Log!Next
  BY <1>14, <1>15 DEF Log!Next
<1>. QED
  BY <1>6, <1>7, <1>8, <1>16 DEF LogInv

-----------------------------------------------------------------------------
\* Every step of the store is a step of the log, or none.
LEMMA NextLog ==
  ASSUME NoHistory, LogInv, [Next]_vars
  PROVE  LogInv' /\ [Log!Next]_Log!logVars
<1>0. EInv /\ EInv'
  BY NextEInv DEF LogInv
<1>1. ASSUME UNCHANGED <<runs, revision, revlog, sess>>
      PROVE  LogInv' /\ [Log!Next]_Log!logVars
  <2>1. \A s \in Session : Holds(s, "store")' => Holds(s, "store") /\ sess'[s] = sess[s]
    BY <1>1 DEF Holds
  <2>. QED
    BY <1>0, <1>1, <2>1, QuietLog
<1>2. ASSUME NEW d \in Doc, Preview(d) \/ PreviewExpires(d)
      PROVE  UNCHANGED <<runs, revision, revlog, sess>>
  BY <1>2 DEF Preview, PreviewExpires, dbVars
<1>3. CASE ReapPreviews
  BY <1>1, <1>3 DEF ReapPreviews, dbVars
<1>4. ASSUME NEW s \in Session, NEW op, Begin(s, op)
      PROVE  LogInv' /\ [Log!Next]_Log!logVars
  <2>1. UNCHANGED <<runs, revision, revlog>>
    BY <1>4 DEF Begin, dbVars
  <2>2. \A t \in Session : Holds(t, "store")' => Holds(t, "store") /\ sess'[t] = sess[t]
    <3>1. sess = [t \in Session |-> sess[t]]
      BY <1>0 DEF EInv, OpenOK
    <3>2. sess'[s].pc = "begun" /\ \A t \in Session \ {s} : sess'[t] = sess[t]
      BY <1>4, <3>1 DEF Begin
    <3>. QED
      BY <3>2 DEF Holds
  <2>. QED
    BY <1>0, <2>1, <2>2, QuietLog
<1>5. ASSUME NEW s \in Session, Refuse(s) \/ Abort(s)
      PROVE  LogInv' /\ [Log!Next]_Log!logVars
  <2>1. UNCHANGED <<runs, revision, revlog>> /\ End(s)
    BY <1>5 DEF Refuse, Abort, dbVars
  <2>2. sess'[s] = None /\ \A t \in Session \ {s} : sess'[t] = sess[t]
    BY <1>0, <2>1 DEF EInv, OpenOK, End
  <2>3. \A t \in Session : Holds(t, "store")' => Holds(t, "store") /\ sess'[t] = sess[t]
    BY <2>2 DEF Holds
  <2>. QED
    BY <1>0, <2>1, <2>3, QuietLog
<1>6. ASSUME NEW s \in Session, Transaction(s)
      PROVE  LogInv' /\ [Log!Next]_Log!logVars
  BY <1>0, <1>5, <1>6, DecideLog, StoreLog, WithdrawLog DEF Transaction
<1>7. ASSUME NEW w \in applyJobs, ApplyWithdrawal(w)
      PROVE  UNCHANGED <<runs, revision, revlog, sess>>
  <2>1. runs' = [i \in RunId |-> runs[i]]
    BY <1>0, <1>7 DEF ApplyWithdrawal, Marked, EInv, JobsDone
  <2>2. runs' = runs
    BY <1>0, <2>1 DEF EInv, RowsOK
  <2>. QED
    BY <1>7, <2>2 DEF ApplyWithdrawal
<1>8. ASSUME NEW n \in Node, RevokeNode(n)
      PROVE  UNCHANGED <<runs, revision, revlog, sess>>
  BY <1>8 DEF RevokeNode, dbVars
<1>9. CASE ChangeFlag
  BY <1>9 DEF ChangeFlag, NoHistory
<1>10. CASE SharingBackfill \/ IndexBackfill
  BY <1>0, <1>10, NothingToRepair
<1>11. CASE UNCHANGED vars
  BY <1>1, <1>11 DEF vars
<1>. QED
  BY <1>1, <1>2, <1>3, <1>4, <1>6, <1>7, <1>8, <1>9, <1>10, <1>11
     DEF Next, SubmitRun, RequestWithdrawal

\* The refinement: where every row came through intake, every step of every
\* transaction that changes a cohort is one logged revision of its protocol,
\* which adds at most one run or takes some away; nothing else changes one.
THEOREM StoreImplementsLog == NoHistory /\ Spec => ImplementsLog
<1>1. ASSUME NoHistory PROVE Spec => ImplementsLog
  <2>1. Init => LogInv
    BY <1>1, InitLogInv
  <2>2. Init => Log!Init
    <3> SUFFICES ASSUME Init PROVE Log!Init
      OBVIOUS
    <3>1. /\ Stored = {} /\ revision = 0 /\ revlog = {}
      <4>1. Legacy = {} /\ LegacyGone = {} /\ LegacyWithdrawals = {}
        BY <1>1, EvidenceAssumption DEF NoHistory, LegacyWithdrawals
      <4>. QED
        BY <4>1, FS_EmptySet DEF Init, Stored
    <3>2. \A p : LatestOf(p) = 0
      <4>1. Max({0}) = 0
        BY DEF Max
      <4>2. \A p : {0} \union {e.rev : e \in {x \in revlog : x.proto = p}} = {0}
        BY <3>1
      <4>. QED
        BY <4>1, <4>2 DEF LatestOf
    <3>3. \A p : CohortOf(p) = {}
      BY <3>1 DEF CohortOf, Candidates
    <3>. QED
      BY <3>1, <3>2, <3>3 DEF Log!Init
  <2>3. LogInv /\ [Next]_vars => LogInv' /\ [Log!Next]_Log!logVars
    BY <1>1, NextLog
  <2>. QED
    BY <2>1, <2>2, <2>3, PTL DEF Spec, ImplementsLog, Log!Spec
<1>. QED
  BY <1>1

-----------------------------------------------------------------------------
(***************************************************************************)
(* Types, whatever the history: with rows of an earlier release, changes   *)
(* of the flag and unreadable bodies.  The counts are counts of finitely   *)
(* many rows, and a withdrawal marks only runs that are stored.            *)
(***************************************************************************)

\* Transactions past their reads and queued jobs name stored runs.
Named ==
  /\ \A s \in Session : Holds(s, "withdraw") => sess[s].op.req.ids \subseteq Stored
  /\ \A w \in applyJobs : w.ids \subseteq Stored

TInv == TypeOK /\ IsFiniteSet(Stored) /\ Named

\* What a document says of itself is in the sets of the model.
LEMMA DocIs ==
  ASSUME NEW d \in Doc
  PROVE  /\ d.id \in RunId /\ d.proto \in Proto /\ OrgOfDoc(d) \in Org
         /\ <<d.proto, OrgOfDoc(d)>> \in Account /\ d.id \in Nat
  BY EvidenceAssumption DEF RunId, Proto, Org, OrgOfDoc, Account

\* Legacy rows are rows.
LEMMA LegacyIs ==
  /\ IsFiniteSet(Legacy) /\ Cardinality(Legacy) \in Nat
  /\ \A d \in Legacy : d \in Doc /\ d.id \in Nat /\ LegacyRow(d) \in Row /\ LegacyRow(d) # None
<1>1. IsFiniteSet(Legacy) /\ Cardinality(Legacy) \in Nat
  BY EvidenceAssumption, FS_CardinalityType
<1>2. ASSUME NEW d \in Legacy PROVE d \in Doc /\ d.id \in Nat /\ LegacyRow(d) \in Row
  <2>1. d \in Doc /\ d.id \in Nat
    BY EvidenceAssumption
  <2>2. PICK w \in Nat : w = IF d \in LegacyGone THEN Cardinality(Legacy) + 1 ELSE 0
    BY <1>1
  <2>. QED
    BY <2>1, <2>2 DEF LegacyRow, Row
<1>. QED
  BY <1>1, <1>2, NullAssumption

LEMMA InitTInv == Init => TInv
<1> SUFFICES ASSUME Init PROVE TInv
  OBVIOUS
<1>1. LegacyWithdrawals \subseteq [org : Org, ids : SUBSET RunId, rev : Nat]
  <2>1. {e.id : e \in LegacyGone} \subseteq RunId
    BY EvidenceAssumption DEF RunId
  <2>2. \A d \in LegacyGone : OrgOf[d.node] \in Org
    BY EvidenceAssumption DEF Org
  <2>3. Cardinality(Legacy) + 1 \in Nat
    BY LegacyIs
  <2>. QED
    BY <2>1, <2>2, <2>3 DEF LegacyWithdrawals
<1>2. revision \in Nat
  <2>2. IsFiniteSet(LegacyWithdrawals)
    <3>1. CASE LegacyGone = {}
      <4>1. LegacyWithdrawals = {}
        BY <3>1 DEF LegacyWithdrawals
      <4>. QED
        BY <4>1, FS_EmptySet
    <3>2. CASE LegacyGone # {}
      <4>1. PICK d \in LegacyGone : TRUE
        BY <3>2
      <4>2. PICK w : w = [org |-> OrgOf[d.node], ids |-> {e.id : e \in LegacyGone},
                          rev |-> Cardinality(Legacy) + 1]
        OBVIOUS
      <4>3. LegacyWithdrawals = {w}
        BY <4>1, <4>2, EvidenceAssumption DEF LegacyWithdrawals
      <4>. QED
        BY <4>3, FS_Singleton
    <3>. QED
      BY <3>1, <3>2
  <2>. QED
    BY <2>2, LegacyIs, FS_CardinalityType DEF Init
<1>3. /\ runs \in [RunId -> Row \union {None}]
      /\ Stored = {d.id : d \in Legacy}
  <2>1. ASSUME NEW i \in RunId, \E d \in Legacy : d.id = i
        PROVE  runs[i] \in Row
    BY <2>1, LegacyIs DEF Init
  <2>2. ASSUME NEW i \in RunId, ~ \E d \in Legacy : d.id = i
        PROVE  runs[i] = None
    BY <2>2 DEF Init
  <2>3. runs = [i \in RunId |-> runs[i]]
    BY DEF Init
  <2>4. \A d \in Legacy : d.id \in RunId
    BY LegacyIs, DocIs
  <2>. QED
    BY <2>1, <2>2, <2>3, <2>4, NullAssumption DEF Stored
<1>4. IsFiniteSet(Stored)
  <2>1. PICK n \in Nat : n = Cardinality(Legacy)
    BY LegacyIs
  <2>2. 1 \in Int /\ n \in Int
    OBVIOUS
  <2>3. IsFiniteSet(1 .. n)
    BY <2>2, FS_Interval
  <2>. QED
    BY <1>3, <2>1, <2>3, EvidenceAssumption
<1>5. receipts \subseteq [id : RunId, status : {"accepted", "duplicate"}, rev : Nat]
  <2>1. receipts = {[id |-> d.id, status |-> "accepted", rev |-> d.id] : d \in Legacy}
    BY DEF Init
  <2>2. \A d \in Legacy : d.id \in RunId /\ d.id \in Nat
    BY LegacyIs, DocIs
  <2>. QED
    BY <2>1, <2>2
<1>6. revlog \subseteq [rev : Nat, proto : Proto, kind : {"intake", "withdrawal"}]
  <2>1. \A d \in LegacyGone : d.proto \in Proto
    BY EvidenceAssumption, DocIs
  <2>2. \A d \in Legacy : d.proto \in Proto /\ d.id \in Nat
    BY LegacyIs, DocIs
  <2>3. Cardinality(Legacy) + 1 \in Nat
    BY LegacyIs
  <2>. QED
    BY <2>1, <2>2, <2>3 DEF Init
<1>7. /\ ledger \in [Account -> Tally \union {None}]
      /\ bf \in [pc : BackfillPc, cursor : Nat, skipped : BOOLEAN, marked : BOOLEAN,
                 tally : [Account -> Tally \union {None}]]
  BY DEF Init, NoTally, BackfillOff, BackfillPc
<1>8. /\ dedupe \in BOOLEAN /\ applyJobs = {} /\ withdrawals = LegacyWithdrawals
      /\ previews \in [Doc -> {"none", "live", "expired"}] /\ revoked = {}
      /\ sess = [s \in Session |-> None] /\ lock = None /\ clock = 0
  BY DEF Init
<1>9. Named
  BY <1>8 DEF Named, Holds
<1>. QED
  BY <1>1, <1>2, <1>3, <1>4, <1>5, <1>6, <1>7, <1>8, <1>9 DEF TInv, TypeOK

-----------------------------------------------------------------------------
\* A step that changes nothing stored.
LEMMA TQuiet ==
  ASSUME TInv, UNCHANGED dbVars, TypeOK',
         \A s \in Session : Holds(s, "withdraw")' => Holds(s, "withdraw") /\ sess'[s] = sess[s]
  PROVE  TInv'
<1>1. Stored' = Stored /\ applyJobs' = applyJobs
  BY DEF dbVars, Stored
<1>. QED
  BY <1>1 DEF TInv, Named

\* A step that changes rows but stores none.
LEMMA TRows ==
  ASSUME TInv, runs' \in [RunId -> Row \union {None}],
         \A i \in RunId : runs'[i] = None <=> runs[i] = None,
         UNCHANGED <<revision, receipts, revlog, ledger, withdrawals, previews, revoked, dedupe, sess,
                     lock, clock>>,
         applyJobs' \subseteq applyJobs,
         bf' \in [pc : BackfillPc, cursor : Nat, skipped : BOOLEAN, marked : BOOLEAN,
                  tally : [Account -> Tally \union {None}]]
  PROVE  TInv' /\ Stored' = Stored
<1>1. Stored' = Stored
  BY DEF Stored
<1>2. TypeOK'
  BY DEF TInv, TypeOK
<1>3. Named'
  BY <1>1 DEF TInv, Named, Holds
<1>. QED
  BY <1>1, <1>2, <1>3 DEF TInv

\* Marking stored runs leaves rows.
LEMMA MarksAreRows ==
  ASSUME TInv, NEW ids, ids \subseteq Stored, NEW rev \in Nat
  PROVE  /\ Marked(ids, rev) \in [RunId -> Row \union {None}]
         /\ \A i \in RunId : Marked(ids, rev)[i] = None <=> runs[i] = None
<1>1. ASSUME NEW i \in RunId
      PROVE  /\ Marked(ids, rev)[i] \in Row \union {None}
             /\ Marked(ids, rev)[i] = None <=> runs[i] = None
  <2>1. CASE i \in ids /\ ~Withdrawn(runs[i])
    <3>1. runs[i] \in Row /\ runs[i] # None
      BY <2>1 DEF TInv, TypeOK, Stored
    <3>2. PICK f : f = [runs[i] EXCEPT !.wd = rev]
      OBVIOUS
    <3>3. f \in Row /\ f # None
      BY <3>1, <3>2, MarkedRow
    <3>4. Marked(ids, rev)[i] = f
      BY <2>1, <3>2 DEF Marked
    <3>. QED
      BY <3>1, <3>3, <3>4
  <2>2. CASE ~(i \in ids /\ ~Withdrawn(runs[i]))
    <3>1. Marked(ids, rev)[i] = runs[i]
      BY <2>2 DEF Marked
    <3>. QED
      BY <3>1 DEF TInv, TypeOK
  <2>. QED
    BY <2>1, <2>2
<1>2. Marked(ids, rev) = [i \in RunId |-> Marked(ids, rev)[i]]
  BY DEF Marked
<1>. QED
  BY <1>1, <1>2

\* A lookup that matches finds a stored run.
LEMMA LookupIs ==
  ASSUME TInv, NEW d
  PROVE  DuplicateOf(d) \in RunId \union {None}
<1>1. Own(d) \in SUBSET Stored
  BY DEF Own, Matches, SameMeasurement
<1>2. \A i \in Stored : runs[i].at \in Nat
  BY DEF TInv, TypeOK, Stored, Row
<1>3. CASE ~dedupe \/ Own(d) = {}
  BY <1>3 DEF DuplicateOf
<1>4. CASE dedupe /\ Own(d) # {}
  <2>1. PICK o \in SUBSET Stored : o = {i \in Own(d) : runs[i].dup = None}
    BY <1>1
  <2>2. CASE o # {}
    <3>1. Earliest(o) \in o
      BY <1>2, <2>1, <2>2, EarliestIsOne
    <3>2. DuplicateOf(d) = Earliest(o)
      BY <1>4, <2>1, <2>2 DEF DuplicateOf
    <3>. QED
      BY <3>1, <3>2 DEF Stored
  <2>3. CASE o = {}
    <3>1. Earliest(Own(d)) \in Own(d)
      BY <1>1, <1>2, <1>4, EarliestIsOne
    <3>2. DuplicateOf(d) = Earliest(Own(d))
      BY <1>4, <2>1, <2>3 DEF DuplicateOf
    <3>. QED
      BY <1>1, <3>1, <3>2 DEF Stored
  <2>. QED
    BY <2>2, <2>3
<1>. QED
  BY <1>3, <1>4

\* The transaction of a session: it begins, ends, or has read.
LEMMA TSession ==
  ASSUME TInv, NEW s \in Session, UNCHANGED <<dbVars, previews, revoked, dedupe, bf>>,
         NEW x \in Tx \union {None}, sess' = [sess EXCEPT ![s] = x],
         lock' \in Session \union {None}, clock' \in Nat,
         x # None /\ x.pc = "locked" /\ x.op.kind = "withdraw" => x.op.req.ids \subseteq Stored
  PROVE  TInv'
<1>1. sess' \in [Session -> Tx \union {None}]
  BY DEF TInv, TypeOK
<1>2. TypeOK'
  BY <1>1 DEF TInv, TypeOK, dbVars
<1>3. /\ sess'[s] = x
      /\ \A t \in Session : t # s => sess'[t] = sess[t]
  BY DEF TInv, TypeOK
<1>4. Stored' = Stored /\ applyJobs' = applyJobs
  BY DEF dbVars, Stored
<1>5. Named'
  BY <1>3, <1>4 DEF TInv, Named, Holds
<1>. QED
  BY <1>2, <1>4, <1>5 DEF TInv

LEMMA TBegin ==
  ASSUME TInv, NEW s \in Session, NEW op \in StoreOp \union WithdrawOp, Begin(s, op)
  PROVE  TInv'
<1>1. PICK x : x = [pc |-> "begun", op |-> op, at |-> clock + 1, dup |-> None, shared |-> FALSE]
  OBVIOUS
<1>2. clock \in Nat /\ clock' = clock + 1
  BY DEF Begin, TInv, TypeOK
<1>3. x \in Tx /\ x.pc = "begun"
  BY <1>1, <1>2 DEF Tx
<1>4. /\ UNCHANGED <<dbVars, previews, revoked, dedupe, bf>> /\ sess' = [sess EXCEPT ![s] = x]
      /\ lock' \in Session \union {None}
  BY <1>1 DEF Begin, TInv, TypeOK
<1>5. x \in Tx \union {None} /\ clock' \in Nat /\ ~(x.pc = "locked")
  BY <1>2, <1>3
<1>. QED
  BY <1>4, <1>5, TSession

LEMMA TEnd ==
  ASSUME TInv, NEW s \in Session, Refuse(s) \/ Abort(s)
  PROVE  TInv'
<1>1. /\ UNCHANGED <<dbVars, previews, revoked, dedupe, bf>> /\ sess' = [sess EXCEPT ![s] = None]
      /\ lock' \in Session \union {None} /\ clock' \in Nat
  BY DEF Refuse, Abort, End, TInv, TypeOK
<1>. QED
  BY <1>1, TSession

LEMMA TDecide ==
  ASSUME TInv, NEW s \in Session, Decide(s)
  PROVE  TInv'
<1>1. PICK op, D, B : /\ op = sess[s].op
                      /\ D = IF op.kind = "store" THEN DuplicateOf(op.doc) ELSE None
                      /\ B = (op.kind = "store" /\ SharedSource(op.doc))
  OBVIOUS
<1>2. PICK x : x = [sess[s] EXCEPT !.pc = "locked", !.dup = D, !.shared = B]
  OBVIOUS
<1>3. sess[s] \in Tx /\ sess[s] # None /\ ~Refused(op)
  BY <1>1 DEF Decide, Acquire, TInv, TypeOK
<1>4. D \in RunId \union {None}
  BY <1>1, LookupIs
<1>5. B \in BOOLEAN
  BY <1>1 DEF SharedSource
<1>6. x \in Tx /\ x.op = op
  BY <1>1, <1>2, <1>3, <1>4, <1>5 DEF Tx
<1>7. /\ UNCHANGED <<dbVars, previews, revoked, dedupe, bf>> /\ lock' \in Session \union {None}
      /\ clock' \in Nat
  BY DEF Decide, TInv, TypeOK
<1>8. sess' = [sess EXCEPT ![s] = x]
  BY <1>1, <1>2 DEF Decide
<1>9. op.kind = "withdraw" => op.req.ids \subseteq Stored
  BY <1>3 DEF Refused, OwnedBy
<1>. QED
  BY <1>6, <1>7, <1>8, <1>9, TSession

\* A transaction that ends with what it wrote.
LEMMA TEnding ==
  ASSUME TInv, NEW s \in Session, End(s)
  PROVE  /\ sess' \in [Session -> Tx \union {None}] /\ lock' \in Session \union {None}
         /\ \A t \in Session : Holds(t, "withdraw")' => Holds(t, "withdraw") /\ sess'[t] = sess[t]
<1>1. sess' = [sess EXCEPT ![s] = None]
  BY DEF End
<1>2. sess' \in [Session -> Tx \union {None}] /\ lock' \in Session \union {None}
  BY <1>1 DEF End, TInv, TypeOK
<1>3. sess'[s] = None /\ \A t \in Session : t # s => sess'[t] = sess[t]
  BY <1>1 DEF TInv, TypeOK
<1>. QED
  BY <1>2, <1>3 DEF Holds

\* Counts of an account.
LEMMA CountIs ==
  ASSUME TInv, NEW a \in Account
  PROVE  CountOf(a) \in Tally
  BY DEF TInv, TypeOK, CountOf, Zero, Tally

LEMMA TStore ==
  ASSUME TInv, NEW s \in Session, StoreNew(s)
  PROVE  TInv'
<1>1. PICK x, d, dup, rev : /\ x = sess[s] /\ d = x.op.doc /\ dup = x.dup
                            /\ rev = NextRevision(x.dup)
  OBVIOUS
<1>2. x \in Tx /\ x.op \in StoreOp
  BY <1>1 DEF StoreNew, Holds, TInv, TypeOK, Tx, StoreOp, WithdrawOp
<1>3. /\ d \in Doc /\ x.at \in Nat /\ dup \in RunId \union {None} /\ x.shared \in BOOLEAN
      /\ rev \in Nat
  BY <1>1, <1>2 DEF Tx, StoreOp, NextRevision, TInv, TypeOK
<1>4. d.id \in RunId /\ d.proto \in Proto /\ <<d.proto, OrgOfDoc(d)>> \in Account
  BY <1>3, DocIs
<1>5. PICK row : row = [doc |-> d, at |-> x.at, rev |-> rev, dup |-> dup,
                        suspect |-> x.shared, wd |-> 0, idx |-> TRUE, trusted |-> TRUE]
  OBVIOUS
<1>6. row \in Row /\ row # None
  <2>1. PICK a \in Nat, h \in BOOLEAN : a = x.at /\ h = x.shared
    BY <1>3
  <2>2. row = [doc |-> d, at |-> a, rev |-> rev, dup |-> dup,
               suspect |-> h, wd |-> 0, idx |-> TRUE, trusted |-> TRUE]
    BY <1>5, <2>1
  <2>3. row \in Row
    BY <1>3, <2>2 DEF Row
  <2>. QED
    BY <2>3, NullAssumption
<1>7. PICK T : T = Suspects(d, x.shared)
  OBVIOUS
<1>8. T \subseteq Stored
  BY <1>7 DEF Suspects, SameMeasurement
<1>9. runs' = [i \in RunId |-> IF i = d.id THEN row
                               ELSE IF i \in T THEN [runs[i] EXCEPT !.suspect = TRUE] ELSE runs[i]]
  BY <1>1, <1>5, <1>7 DEF StoreNew
<1>10. ASSUME NEW i \in RunId
       PROVE  /\ runs'[i] \in Row \union {None}
              /\ i # d.id => (runs'[i] = None <=> runs[i] = None)
  <2>1. CASE i = d.id
    BY <1>6, <1>9, <2>1
  <2>2. CASE i # d.id /\ i \in T
    <3>1. runs[i] \in Row /\ runs[i] # None
      BY <1>8, <2>2 DEF TInv, TypeOK, Stored
    <3>2. PICK f : f = [runs[i] EXCEPT !.suspect = TRUE]
      OBVIOUS
    <3>3. f \in Row /\ f # None
      BY <3>1, <3>2, FlaggedRow
    <3>. QED
      BY <1>9, <2>2, <3>1, <3>2, <3>3
  <2>3. CASE i # d.id /\ i \notin T
    BY <1>9, <2>3 DEF TInv, TypeOK
  <2>. QED
    BY <2>1, <2>2, <2>3
<1>11. runs' \in [RunId -> Row \union {None}]
  BY <1>9, <1>10
<1>12. Stored' = Stored \union {d.id}
  <2>1. runs'[d.id] # None
    BY <1>4, <1>6, <1>9
  <2>. QED
    BY <1>4, <1>10, <2>1 DEF Stored
<1>13. IsFiniteSet(Stored')
  BY <1>12, FS_AddElement DEF TInv
<1>14. ledger' \in [Account -> Tally \union {None}]
  <2>1. PICK a \in Account : a = <<d.proto, OrgOfDoc(d)>>
    BY <1>4
  <2>2. PICK c \in Tally : c = CountOf(a)
    BY CountIs
  <2>3. [c EXCEPT !.accepted = @ + 1] \in Tally
    BY DEF Tally
  <2>4. \/ ledger' = ledger
        \/ ledger' = [ledger EXCEPT ![a] = [c EXCEPT !.accepted = @ + 1]]
    BY <1>1, <2>1, <2>2 DEF StoreNew, Recorded
  <2>. QED
    BY <2>3, <2>4 DEF TInv, TypeOK
<1>15. /\ revision' \in Nat
       /\ revlog' \subseteq [rev : Nat, proto : Proto, kind : {"intake", "withdrawal"}]
       /\ receipts' \subseteq [id : RunId, status : {"accepted", "duplicate"}, rev : Nat]
  <2>1. revision' = rev
    BY <1>1 DEF StoreNew
  <2>2. revlog' \subseteq revlog \union {[rev |-> rev, proto |-> d.proto, kind |-> "intake"]}
    BY <1>1 DEF StoreNew
  <2>3. receipts' \subseteq receipts \union {[id |-> d.id, status |-> "accepted", rev |-> rev],
                                             [id |-> d.id, status |-> "duplicate", rev |-> rev]}
    BY <1>1 DEF StoreNew
  <2>. QED
    BY <1>3, <1>4, <2>1, <2>2, <2>3 DEF TInv, TypeOK
<1>16. /\ UNCHANGED <<withdrawals, applyJobs, previews, revoked, dedupe, clock, bf>> /\ End(s)
  BY DEF StoreNew
<1>17. TypeOK'
  BY <1>11, <1>14, <1>15, <1>16, TEnding DEF TInv, TypeOK
<1>18. Named'
  BY <1>12, <1>16, TEnding DEF TInv, Named
<1>. QED
  BY <1>13, <1>17, <1>18 DEF TInv

LEMMA TWithdraw ==
  ASSUME TInv, NEW s \in Session, WithdrawRuns(s)
  PROVE  TInv'
<1>1. PICK op, ids, rev, w : /\ op = sess[s].op.req /\ ids = op.ids /\ rev = revision + 1
                             /\ w = [org |-> op.org, ids |-> ids, rev |-> rev]
  OBVIOUS
<1>2. op \in Request /\ ids \subseteq Stored
  <2>1. Holds(s, "withdraw")
    BY DEF WithdrawRuns
  <2>2. ids \subseteq Stored
    BY <1>1, <2>1 DEF TInv, Named
  <2>3. sess[s] \in Tx /\ sess[s].op.kind = "withdraw"
    BY <2>1 DEF Holds, TInv, TypeOK
  <2>4. sess[s].op \in WithdrawOp
    BY <2>3 DEF Tx, StoreOp, WithdrawOp
  <2>. QED
    BY <1>1, <2>2, <2>4 DEF WithdrawOp
<1>3. op.org \in Org /\ rev \in Nat /\ ids \subseteq RunId
  BY <1>1, <1>2, EvidenceAssumption DEF TInv, TypeOK, Stored
<1>4. w \in [org : Org, ids : SUBSET RunId, rev : Nat] /\ w.ids = ids
  BY <1>1, <1>3
<1>5. runs' = Marked(ids, rev)
  BY <1>1 DEF WithdrawRuns
<1>6. /\ runs' \in [RunId -> Row \union {None}]
      /\ \A i \in RunId : runs'[i] = None <=> runs[i] = None
  BY <1>2, <1>3, <1>5, MarksAreRows
<1>7. Stored' = Stored
  BY <1>6 DEF Stored
<1>8. ledger' \in [Account -> Tally \union {None}]
  <2>1. ledger' = Moved(op.org, ids)
    BY <1>1 DEF WithdrawRuns
  <2>2. ASSUME NEW a \in Account PROVE Moved(op.org, ids)[a] \in Tally \union {None}
    <3>1. PICK n : n = Cardinality(Newly(a, op.org, ids))
      OBVIOUS
    <3>2. n \in Nat
      <4>1. Newly(a, op.org, ids) \subseteq Stored
        BY <1>2 DEF Newly
      <4>2. IsFiniteSet(Newly(a, op.org, ids))
        BY <4>1, FS_Subset DEF TInv
      <4>. QED
        BY <3>1, <4>2, FS_CardinalityType
    <3>3. ledger[a] \in Tally \union {None}
      BY DEF TInv, TypeOK
    <3>4. Moved(op.org, ids)[a] =
            IF ledger[a] = None THEN None
            ELSE [accepted |-> Monus(ledger[a].accepted, n), withdrawn |-> ledger[a].withdrawn + n]
      BY <3>1 DEF Moved
    <3>. QED
      BY <3>2, <3>3, <3>4 DEF Monus, Tally
  <2>3. Moved(op.org, ids) = [a \in Account |-> Moved(op.org, ids)[a]]
    BY DEF Moved
  <2>. QED
    BY <2>1, <2>2, <2>3
<1>9. revlog' \subseteq [rev : Nat, proto : Proto, kind : {"intake", "withdrawal"}]
  <2>1. \A i \in ids : runs[i].doc.proto \in Proto
    BY <1>2, DocIs DEF TInv, TypeOK, Stored, Row
  <2>2. revlog' = revlog \union {[rev |-> rev, proto |-> runs[i].doc.proto, kind |-> "withdrawal"] :
                                   i \in ids}
    BY <1>1 DEF WithdrawRuns
  <2>. QED
    BY <1>3, <2>1, <2>2 DEF TInv, TypeOK
<1>10. /\ withdrawals' = withdrawals \union {w} /\ applyJobs' = applyJobs \union {w}
       /\ revision' = rev /\ End(s)
       /\ UNCHANGED <<receipts, previews, revoked, dedupe, clock, bf>>
  BY <1>1 DEF WithdrawRuns
<1>11. TypeOK'
  <2>1. withdrawals' \subseteq [org : Org, ids : SUBSET RunId, rev : Nat] /\ applyJobs' \subseteq withdrawals'
    BY <1>4, <1>10 DEF TInv, TypeOK
  <2>. QED
    BY <1>3, <1>6, <1>8, <1>9, <1>10, <2>1, TEnding DEF TInv, TypeOK
<1>12. Named'
  BY <1>2, <1>4, <1>7, <1>10, TEnding DEF TInv, Named
<1>. QED
  BY <1>7, <1>11, <1>12 DEF TInv

-----------------------------------------------------------------------------
\* The least of some numbers.
LEMMA MinIs ==
  ASSUME NEW S \in SUBSET Nat, S # {}
  PROVE  Min(S) \in S /\ \A y \in S : Min(S) <= y
  BY LeastNumber DEF Min

LEMMA StoredNumbers == Stored \in SUBSET Nat /\ Stored \subseteq RunId
  BY EvidenceAssumption DEF Stored, RunId

\* The rows the duplicate pass takes for originals of i's measurement.
Firsts(i) ==
  {j \in Stored : /\ runs[j].idx /\ ~Withdrawn(runs[j]) /\ runs[j].dup = None
                  /\ <<runs[j].doc.proto, OrgOfDoc(runs[j].doc), runs[j].doc.meas>>
                       = <<runs[i].doc.proto, OrgOfDoc(runs[i].doc), runs[i].doc.meas>>}

LEMMA OriginalIs ==
  ASSUME \A j \in Stored : runs[j].at \in Nat, NEW i
  PROVE  /\ OriginalOf(i) \in RunId \union {None}
         /\ Firsts(i) # {} => /\ OriginalOf(i) \in Firsts(i)
                              /\ \A j \in Firsts(i) : OriginalOf(i) = j \/ Earlier(OriginalOf(i), j)
<1>1. PICK F \in SUBSET Stored : F = Firsts(i)
  BY DEF Firsts
<1>2. OriginalOf(i) = IF F = {} THEN None ELSE Earliest(F)
  BY <1>1 DEF OriginalOf, Firsts
<1>3. CASE F = {}
  BY <1>1, <1>2, <1>3
<1>4. CASE F # {}
  <2>1. Earliest(F) \in F /\ \A j \in F : Earliest(F) = j \/ Earlier(Earliest(F), j)
    BY <1>4, EarliestIsOne
  <2>. QED
    BY <1>1, <1>2, <1>4, <2>1, StoredNumbers
<1>. QED
  BY <1>3, <1>4

\* A statement of the worker that updates some rows.
LEMMA TUpdate ==
  ASSUME TInv, NEW U, U \subseteq Stored, NEW r,
         \A i \in U : r[i] \in Row /\ r[i] # None,
         \A i \in RunId \ U : r[i] = runs[i],
         r = [i \in RunId |-> r[i]]
  PROVE  /\ r \in [RunId -> Row \union {None}]
         /\ \A i \in RunId : r[i] = None <=> runs[i] = None
<1>1. \A i \in RunId : r[i] \in Row \union {None}
  BY DEF TInv, TypeOK
<1>2. \A i \in RunId : r[i] = None <=> runs[i] = None
  BY DEF Stored
<1>. QED
  BY <1>1, <1>2

LEMMA TApply ==
  ASSUME TInv, NEW w \in applyJobs, ApplyWithdrawal(w)
  PROVE  TInv'
<1>1. w.ids \subseteq Stored /\ w.rev \in Nat
  BY DEF TInv, Named, TypeOK
<1>2. /\ runs' \in [RunId -> Row \union {None}]
      /\ \A i \in RunId : runs'[i] = None <=> runs[i] = None
  BY <1>1, MarksAreRows DEF ApplyWithdrawal
<1>. QED
  BY <1>2, TRows DEF ApplyWithdrawal, TInv, TypeOK

\* Row updates of the worker change one field.
LEMMA ChangedRow ==
  ASSUME NEW r \in Row, NEW o \in RunId \union {None}
  PROVE  /\ [r EXCEPT !.trusted = TRUE] \in Row /\ [r EXCEPT !.idx = TRUE] \in Row
         /\ [r EXCEPT !.suspect = TRUE] \in Row /\ [r EXCEPT !.dup = o] \in Row
<1>1. PICK yes : yes = TRUE
  OBVIOUS
<1>2. [r EXCEPT !.trusted = yes] \in Row
  BY <1>1 DEF Row
<1>3. [r EXCEPT !.idx = yes] \in Row
  BY <1>1 DEF Row
<1>4. [r EXCEPT !.suspect = yes] \in Row
  BY <1>1 DEF Row
<1>5. [r EXCEPT !.dup = o] \in Row
  BY DEF Row
<1>. QED
  BY <1>1, <1>2, <1>3, <1>4, <1>5

LEMMA TSharing ==
  ASSUME TInv, SharingBackfill
  PROVE  TInv'
<1>1. PICK S : S = {i \in Stored : ~runs[i].trusted}
  OBVIOUS
<1>2. PICK m : m = Min(S)
  OBVIOUS
<1>3. m \in Stored
  BY <1>1, <1>2, MinIs, StoredNumbers DEF SharingBackfill
<1>4. runs' = [runs EXCEPT ![m].trusted = TRUE]
  BY <1>1, <1>2 DEF SharingBackfill
<1>5. PICK f : f = [runs[m] EXCEPT !.trusted = TRUE]
  OBVIOUS
<1>6. runs[m] \in Row /\ m \in RunId /\ runs \in [RunId -> Row \union {None}]
  BY <1>3, StoredNumbers DEF TInv, TypeOK, Stored
<1>7. f \in Row /\ f # None
  BY <1>5, <1>6, ChangedRow, NullAssumption
<1>8. runs'[m] = f /\ \A i \in RunId \ {m} : runs'[i] = runs[i]
  BY <1>4, <1>5, <1>6
<1>9. runs' = [i \in RunId |-> runs'[i]]
  BY <1>4, <1>6
<1>10. /\ runs' \in [RunId -> Row \union {None}]
       /\ \A i \in RunId : runs'[i] = None <=> runs[i] = None
  BY <1>3, <1>6, <1>7, <1>8, <1>9 DEF Stored
<1>. QED
  BY <1>10, TRows DEF SharingBackfill, TInv, TypeOK

Backfills == [pc : BackfillPc, cursor : Nat, skipped : BOOLEAN, marked : BOOLEAN,
              tally : [Account -> Tally \union {None}]]

\* The steps of the backfill that move nothing but itself.
LEMMA TBackfill ==
  ASSUME TInv, UNCHANGED <<dbVars, previews, revoked, dedupe, sess, lock, clock>>, bf' \in Backfills
  PROVE  TInv'
<1>1. TypeOK'
  BY DEF TInv, TypeOK, dbVars, Backfills
<1>2. \A s \in Session : Holds(s, "withdraw")' => Holds(s, "withdraw") /\ sess'[s] = sess[s]
  BY DEF Holds
<1>. QED
  BY <1>1, <1>2, TQuiet

\* Where the backfill may be.
LEMMA BackfillIs ==
  ASSUME TInv
  PROVE  /\ bf \in Backfills /\ BackfillOff \in Backfills /\ NoTally \in [Account -> Tally \union {None}]
         /\ bf.cursor \in Nat /\ bf.skipped \in BOOLEAN
         /\ \A x \in BackfillPc : [bf EXCEPT !.pc = x] \in Backfills
         /\ [BackfillOff EXCEPT !.pc = "project"] \in Backfills
<1>1. bf \in Backfills
  BY DEF TInv, TypeOK, Backfills
<1>2. NoTally \in [Account -> Tally \union {None}]
  BY DEF NoTally
<1>3. BackfillOff \in Backfills /\ [BackfillOff EXCEPT !.pc = "project"] \in Backfills
  BY <1>2 DEF BackfillOff, Backfills, BackfillPc
<1>4. \A x \in BackfillPc : [bf EXCEPT !.pc = x] \in Backfills
  BY <1>1 DEF Backfills
<1>5. bf.cursor \in Nat /\ bf.skipped \in BOOLEAN
  BY <1>1 DEF Backfills
<1>. QED
  BY <1>1, <1>2, <1>3, <1>4, <1>5

LEMMA CountedIs ==
  ASSUME TInv
  PROVE  CountedNow \in [Account -> Tally \union {None}]
<1>1. ASSUME NEW a \in Account, NEW wd PROVE Cardinality(CountedRuns(a, wd)) \in Nat
  <2>1. CountedRuns(a, wd) \subseteq Stored
    BY DEF CountedRuns
  <2>2. IsFiniteSet(CountedRuns(a, wd))
    BY <2>1, FS_Subset DEF TInv
  <2>. QED
    BY <2>2, FS_CardinalityType
<1>2. ASSUME NEW a \in Account PROVE CountedNow[a] \in Tally \union {None}
  <2>1. PICK m \in Nat, n \in Nat : /\ m = Cardinality(CountedRuns(a, FALSE))
                                    /\ n = Cardinality(CountedRuns(a, TRUE))
    BY <1>1
  <2>2. CountedNow[a] \in {None, [accepted |-> m, withdrawn |-> n]}
    BY <2>1 DEF CountedNow
  <2>3. [accepted |-> m, withdrawn |-> n] \in Tally
    BY DEF Tally
  <2>. QED
    BY <2>2, <2>3
<1>3. CountedNow = [a \in Account |-> CountedNow[a]]
  BY DEF CountedNow
<1>. QED
  BY <1>2, <1>3

LEMMA TProject ==
  ASSUME TInv, ProjectRow
  PROVE  TInv'
<1>1. PICK m : m = Min(Pending)
  OBVIOUS
<1>2. m \in Stored /\ m \in Nat
  <2>1. Pending \in SUBSET Nat /\ Pending # {} /\ Pending \subseteq Stored
    BY StoredNumbers DEF Pending, ProjectRow
  <2>. QED
    BY <1>1, <2>1, MinIs
<1>3. PICK readable : readable = (runs[m].doc \notin Unreadable)
  OBVIOUS
<1>4. /\ runs' = IF readable THEN [runs EXCEPT ![m].idx = TRUE] ELSE runs
      /\ bf' = [bf EXCEPT !.cursor = m, !.skipped = bf.skipped \/ ~readable]
  BY <1>1, <1>3 DEF ProjectRow
<1>5. PICK f : f = [runs[m] EXCEPT !.idx = TRUE]
  OBVIOUS
<1>6. runs[m] \in Row /\ m \in RunId /\ runs \in [RunId -> Row \union {None}]
  BY <1>2, StoredNumbers DEF TInv, TypeOK, Stored
<1>7. f \in Row /\ f # None
  BY <1>5, <1>6, ChangedRow, NullAssumption
<1>8. /\ runs' \in [RunId -> Row \union {None}]
      /\ \A i \in RunId : runs'[i] = None <=> runs[i] = None
  <2>1. CASE readable
    <3>1. runs' = [runs EXCEPT ![m] = f]
      BY <1>4, <1>5, <2>1
    <3>. QED
      BY <1>2, <1>6, <1>7, <3>1 DEF Stored
  <2>2. CASE ~readable
    BY <1>4, <1>6, <2>2
  <2>. QED
    BY <2>1, <2>2
<1>9. bf' \in Backfills
  <2>1. PICK k \in BOOLEAN : k = (bf.skipped \/ ~readable)
    OBVIOUS
  <2>2. bf' = [bf EXCEPT !.cursor = m, !.skipped = k]
    BY <1>4, <2>1
  <2>. QED
    BY <1>2, <2>2, BackfillIs DEF Backfills
<1>. QED
  BY <1>8, <1>9, TRows DEF ProjectRow, TInv, TypeOK, Backfills

LEMMA TMark ==
  ASSUME TInv, MarkDuplicates \/ MarkSuspects
  PROVE  TInv'
<1>1. runs = [i \in RunId |-> runs[i]] /\ \A i \in Stored : runs[i] \in Row /\ runs[i].at \in Nat
  BY DEF TInv, TypeOK, Stored, Row
<1>2. PICK U \in SUBSET Stored :
        /\ \A i \in U : \/ \E o \in RunId \union {None} : runs'[i] = [runs[i] EXCEPT !.dup = o]
                        \/ runs'[i] = [runs[i] EXCEPT !.suspect = TRUE]
        /\ \A i \in RunId \ U : runs'[i] = runs[i]
        /\ runs' = [i \in RunId |-> runs'[i]]
  <2>1. CASE MarkDuplicates
    <3>1. PICK U \in SUBSET Stored :
            U = {i \in Stored : runs[i].idx /\ runs[i].dup = None
                    /\ OriginalOf(i) # None /\ OriginalOf(i) # i /\ Earlier(OriginalOf(i), i)}
      OBVIOUS
    <3>2. runs' = [i \in RunId |-> IF i \in U THEN [runs[i] EXCEPT !.dup = OriginalOf(i)] ELSE runs[i]]
      BY <2>1, <3>1 DEF MarkDuplicates
    <3>3. \A i : OriginalOf(i) \in RunId \union {None}
      BY <1>1, OriginalIs
    <3>4. \A i \in U : i \in RunId
      BY StoredNumbers
    <3>. QED
      BY <3>2, <3>3, <3>4
  <2>2. CASE MarkSuspects
    <3>1. PICK U \in SUBSET Stored : U = {i \in Stored : runs[i].idx /\ SharedDigest(i)}
      OBVIOUS
    <3>2. runs' = [i \in RunId |-> IF i \in U THEN [runs[i] EXCEPT !.suspect = TRUE] ELSE runs[i]]
      BY <2>2, <3>1 DEF MarkSuspects
    <3>3. \A i \in U : i \in RunId
      BY StoredNumbers
    <3>. QED
      BY <3>2, <3>3
  <2>. QED
    BY <2>1, <2>2
<1>3. \A i \in U : runs'[i] \in Row /\ runs'[i] # None
  <2> SUFFICES ASSUME NEW i \in U PROVE runs'[i] \in Row /\ runs'[i] # None
    OBVIOUS
  <2>1. runs[i] \in Row
    BY <1>1
  <2>2. ASSUME NEW o \in RunId \union {None}, runs'[i] = [runs[i] EXCEPT !.dup = o]
        PROVE  runs'[i] \in Row
    BY <2>1, <2>2, ChangedRow
  <2>3. CASE runs'[i] = [runs[i] EXCEPT !.suspect = TRUE]
    BY <2>1, <2>3, FlaggedRow
  <2>4. runs'[i] \in Row
    BY <1>2, <2>2, <2>3
  <2>. QED
    BY <2>4, NullAssumption
<1>4. PICK r : r = runs'
  OBVIOUS
<1>5. /\ r \in [RunId -> Row \union {None}]
      /\ \A i \in RunId : r[i] = None <=> runs[i] = None
  BY <1>2, <1>3, <1>4, TUpdate
<1>6. bf' \in Backfills
  <2>1. PICK yes \in BOOLEAN, x \in BackfillPc, y \in BackfillPc :
          yes = TRUE /\ x = "suspects" /\ y = "count"
    BY DEF BackfillPc
  <2>2. \/ bf' = [bf EXCEPT !.pc = x, !.marked = yes]
        \/ bf' = [bf EXCEPT !.pc = y]
    BY <2>1 DEF MarkDuplicates, MarkSuspects
  <2>. QED
    BY <2>2, BackfillIs DEF Backfills
<1>7. /\ UNCHANGED <<revision, receipts, revlog, ledger, withdrawals, previews, revoked, dedupe, sess,
                     lock, clock>>
      /\ applyJobs' \subseteq applyJobs
  BY DEF MarkDuplicates, MarkSuspects
<1>. QED
  BY <1>4, <1>5, <1>6, <1>7, TRows DEF Backfills

\* The repair of the ledger.
LEMMA TRepair ==
  ASSUME TInv, RepairCount \/ RepairWrite \/ RepairZero
  PROVE  TInv'
<1>1. ledger' \in [Account -> Tally \union {None}]
  <2>1. \A a \in Account : ledger[a] \in Tally \union {None} /\ bf.tally[a] \in Tally \union {None}
    BY DEF TInv, TypeOK
  <2>2. Zero \in Tally
    BY DEF Zero, Tally
  <2>3. CASE RepairCount
    BY <2>3 DEF RepairCount, dbVars, TInv, TypeOK
  <2>4. CASE RepairWrite
    BY <2>1, <2>4 DEF RepairWrite
  <2>5. CASE RepairZero
    BY <2>1, <2>2, <2>5 DEF RepairZero
  <2>. QED
    BY <2>3, <2>4, <2>5
<1>2. bf' \in Backfills
  <2>1. CASE RepairCount
    <3>1. PICK c \in [Account -> Tally \union {None}], x \in BackfillPc : c = CountedNow /\ x = "write"
      BY CountedIs DEF BackfillPc
    <3>2. bf' = [bf EXCEPT !.pc = x, !.tally = c]
      BY <2>1, <3>1 DEF RepairCount
    <3>. QED
      BY <3>2, BackfillIs DEF Backfills
  <2>2. CASE RepairWrite
    <3>1. PICK c \in [Account -> Tally \union {None}], x \in BackfillPc : c = NoTally /\ x = "zero"
      BY BackfillIs DEF BackfillPc
    <3>2. bf' = [bf EXCEPT !.pc = x, !.tally = c]
      BY <2>2, <3>1 DEF RepairWrite
    <3>. QED
      BY <3>2, BackfillIs DEF Backfills
  <2>3. CASE RepairZero
    <3>1. PICK x \in BackfillPc, no \in BOOLEAN :
            x = (IF bf.skipped THEN "failed" ELSE "done") /\ no = FALSE
      BY DEF BackfillPc
    <3>2. bf' = [bf EXCEPT !.pc = x, !.cursor = 0, !.skipped = no]
      BY <2>3, <3>1 DEF RepairZero
    <3>. QED
      BY <3>2, BackfillIs DEF Backfills
  <2>. QED
    BY <2>1, <2>2, <2>3
<1>3. UNCHANGED <<revision, runs, receipts, revlog, withdrawals, applyJobs,
                  previews, revoked, dedupe, sess, lock, clock>>
  BY DEF RepairCount, RepairWrite, RepairZero, dbVars
<1>4. TypeOK' /\ Stored' = Stored
  BY <1>1, <1>2, <1>3 DEF TInv, TypeOK, Backfills, Stored
<1>5. Named'
  BY <1>3, <1>4 DEF TInv, Named, Holds
<1>. QED
  BY <1>4, <1>5 DEF TInv

LEMMA TFlag ==
  ASSUME TInv, ChangeFlag
  PROVE  TInv'
<1>1. UNCHANGED <<dbVars, previews, revoked, clock>> /\ lock' = None /\ dedupe' \in BOOLEAN
      /\ sess' = [s \in Session |-> None]
  BY DEF ChangeFlag, TInv, TypeOK
<1>2. bf' \in Backfills
  BY BackfillIs DEF ChangeFlag
<1>3. TypeOK'
  BY <1>1, <1>2 DEF TInv, TypeOK, dbVars, Backfills
<1>4. \A s \in Session : ~Holds(s, "withdraw")'
  BY <1>1 DEF Holds
<1>. QED
  BY <1>1, <1>3, <1>4, TQuiet

LEMMA NextTInv == TInv /\ [Next]_vars => TInv'
<1> SUFFICES ASSUME TInv, [Next]_vars PROVE TInv'
  OBVIOUS
<1>1. ASSUME UNCHANGED <<dbVars, dedupe, sess, lock, clock, bf>>,
             previews' \in [Doc -> {"none", "live", "expired"}], revoked' \subseteq Node
      PROVE  TInv'
  <2>1. TypeOK'
    BY <1>1 DEF TInv, TypeOK, dbVars
  <2>2. \A s \in Session : Holds(s, "withdraw")' => Holds(s, "withdraw") /\ sess'[s] = sess[s]
    BY <1>1 DEF Holds
  <2>. QED
    BY <1>1, <2>1, <2>2, TQuiet
<1>2. ASSUME NEW d \in Doc, Preview(d) \/ PreviewExpires(d) PROVE TInv'
  BY <1>1, <1>2 DEF Preview, PreviewExpires, TInv, TypeOK
<1>3. CASE ReapPreviews
  BY <1>1, <1>3 DEF ReapPreviews, TInv, TypeOK
<1>4. ASSUME NEW s \in Session, NEW d \in Doc, SubmitRun(s, d) PROVE TInv'
  <2>1. [kind |-> "store", doc |-> d] \in StoreOp \union WithdrawOp
    BY DEF StoreOp
  <2>. QED
    BY <1>4, <2>1, TBegin DEF SubmitRun
<1>5. ASSUME NEW s \in Session, NEW r \in Request, RequestWithdrawal(s, r) PROVE TInv'
  <2>1. [kind |-> "withdraw", req |-> r] \in StoreOp \union WithdrawOp
    BY DEF WithdrawOp
  <2>. QED
    BY <1>5, <2>1, TBegin DEF RequestWithdrawal
<1>6. ASSUME NEW s \in Session, Transaction(s) PROVE TInv'
  BY <1>6, TEnd, TDecide, TStore, TWithdraw DEF Transaction
<1>7. ASSUME NEW w \in applyJobs, ApplyWithdrawal(w) PROVE TInv'
  BY <1>7, TApply
<1>8. ASSUME NEW n \in Node, RevokeNode(n) PROVE TInv'
  BY <1>1, <1>8 DEF RevokeNode, TInv, TypeOK
<1>9. CASE ChangeFlag
  BY <1>9, TFlag
<1>10. CASE SharingBackfill
  BY <1>10, TSharing
<1>11. CASE IndexBackfill
  <2>1. CASE StartIndexBackfill \/ CrashIndexBackfill
    BY <2>1, TBackfill, BackfillIs DEF StartIndexBackfill, CrashIndexBackfill
  <2>2. CASE ProjectEnds
    <3>1. PICK x \in BackfillPc : bf' = [bf EXCEPT !.pc = x]
      BY <2>2 DEF ProjectEnds, BackfillPc
    <3>2. bf' \in Backfills
      BY <3>1, BackfillIs
    <3>. QED
      BY <2>2, <3>2, TBackfill DEF ProjectEnds
  <2>. QED
    BY <1>11, <2>1, <2>2, TProject, TMark, TRepair DEF IndexBackfill
<1>12. CASE UNCHANGED vars
  BY <1>1, <1>12 DEF vars, dbVars, TInv, TypeOK
<1>. QED
  BY <1>2, <1>3, <1>4, <1>5, <1>6, <1>7, <1>8, <1>9, <1>10, <1>11, <1>12 DEF Next

\* Every row, count, receipt and open transaction is well formed, whatever was
\* stored before the migrations, however often the flag changes and the backfill
\* is cut off.
THEOREM StoreTyped == Spec => []TypeOK
<1>1. TInv => TypeOK
  BY DEF TInv
<1>. QED
  BY <1>1, InitTInv, NextTInv, PTL DEF Spec

-----------------------------------------------------------------------------
(***************************************************************************)
(* The backfill of old rows, on a service that takes no new ones.  From    *)
(* the count on, only columns that are not counted change, so what was     *)
(* counted is what the rows say when it is written; after the duplicate    *)
(* pass an original is the earliest of its measurement.                    *)
(***************************************************************************)

\* No transaction begins.
NoIntake == MaxClock = 0

AfterDuplicates == {"suspects", "count", "write", "zero", "done", "failed"}

BInv ==
  /\ clock = 0 /\ applyJobs = {} /\ \A s \in Session : sess[s] = None
  /\ bf.pc = "write" => bf.tally = CountedNow
  /\ bf.pc = "zero" => \A a \in Account : CountedNow[a] # None => ledger[a] = CountedNow[a]
  /\ bf.pc \in {"done", "failed"} => LedgerExact
  /\ bf.marked => bf.pc \in AfterDuplicates /\ NoDoubleCount

LEMMA InitBInv == Init => BInv
  BY DEF Init, BInv, BackfillOff

\* Rows that keep what is counted keep the counts.
LEMMA SameCounts ==
  ASSUME TInv, TInv',
         \A i \in RunId : runs'[i] = None <=> runs[i] = None,
         \A i \in Stored : /\ runs'[i].doc = runs[i].doc /\ runs'[i].idx = runs[i].idx
                           /\ runs'[i].dup = runs[i].dup /\ runs'[i].wd = runs[i].wd
  PROVE  CountedNow' = CountedNow /\ (NoDoubleCount => NoDoubleCount')
<1>1. Stored' = Stored
  BY DEF Stored
<1>2. \A a, wd : CountedRuns(a, wd)' = CountedRuns(a, wd)
  BY <1>1 DEF CountedRuns, Countable, Withdrawn, OrgOfDoc
<1>3. CountedNow' = CountedNow
  BY <1>2 DEF CountedNow
<1>4. NoDoubleCount => NoDoubleCount'
  BY <1>1 DEF NoDoubleCount, Countable, Withdrawn, Key3, OrgOfDoc
<1>. QED
  BY <1>3, <1>4

\* A step that keeps the counts and the ledger, and the backfill where it is.
LEMMA BKept ==
  ASSUME BInv, NoIntake, UNCHANGED <<clock, applyJobs, ledger>>, CountedNow' = CountedNow,
         NoDoubleCount => NoDoubleCount', \A s \in Session : sess'[s] = None,
         bf' = bf \/ bf' = BackfillOff
  PROVE  BInv'
<1>1. LedgerExact => LedgerExact'
  BY DEF LedgerExact, CountOf, Tallied
<1>2. BackfillOff.pc = "off" /\ ~BackfillOff.marked
  BY DEF BackfillOff
<1>3. CASE bf' = bf
  BY <1>1, <1>3 DEF BInv
<1>4. CASE bf' = BackfillOff
  BY <1>2, <1>4 DEF BInv
<1>. QED
  BY <1>3, <1>4

\* After the duplicate pass an unwithdrawn run that counts is the original.
LEMMA OriginalsStand ==
  ASSUME TInv, TInv', MarkDuplicates
  PROVE  NoDoubleCount'
<1>1. \A j \in Stored : runs[j].at \in Nat /\ runs[j] \in Row /\ j \in RunId
  BY DEF TInv, TypeOK, Stored, Row
<1>2. Stored' = Stored
  <2>1. \A i \in Stored : runs'[i] \in {runs[i], [runs[i] EXCEPT !.dup = OriginalOf(i)]}
    BY <1>1 DEF MarkDuplicates
  <2>2. \A i \in Stored : OriginalOf(i) \in RunId \union {None}
    BY <1>1, OriginalIs
  <2>3. \A i \in Stored : runs'[i] # None
    <3> SUFFICES ASSUME NEW i \in Stored PROVE runs'[i] # None
      OBVIOUS
    <3>1. runs[i] # None /\ [runs[i] EXCEPT !.dup = OriginalOf(i)] \in Row
      BY <1>1, <2>2, ChangedRow DEF Stored
    <3>. QED
      BY <2>1, <3>1, NullAssumption
  <2>4. \A i \in RunId \ Stored : runs'[i] = runs[i]
    BY DEF MarkDuplicates
  <2>. QED
    BY <2>3, <2>4 DEF Stored
<1>3. ASSUME NEW i \in Stored, runs'[i].dup = None, runs'[i].idx, ~Withdrawn(runs'[i])
      PROVE  /\ runs'[i].doc = runs[i].doc /\ i \in Firsts(i) /\ OriginalOf(i) = i
  <2>1. PICK o \in RunId \union {None} : o = OriginalOf(i)
    BY <1>1, OriginalIs
  <2>2. CASE runs'[i] = runs[i] /\ ~(/\ i \in Stored /\ runs[i].idx /\ runs[i].dup = None
                                      /\ o # None /\ o # i /\ Earlier(o, i))
    <3>1. i \in Firsts(i)
      BY <1>3, <2>2 DEF Firsts
    <3>2. o \in Firsts(i) /\ (o = i \/ Earlier(o, i))
      BY <1>1, <2>1, <3>1, OriginalIs
    <3>3. o # None
      BY <3>2, EvidenceAssumption DEF Firsts, Stored
    <3>4. o = i
      BY <1>3, <2>2, <3>2, <3>3
    <3>. QED
      BY <2>1, <2>2, <3>1, <3>4
  <2>3. CASE /\ runs'[i] = [runs[i] EXCEPT !.dup = o] /\ o # None
    BY <1>1, <1>3, <2>3 DEF Row
  <2>4. runs'[i] = IF i \in Stored /\ runs[i].idx /\ runs[i].dup = None
                      /\ o # None /\ o # i /\ Earlier(o, i)
                   THEN [runs[i] EXCEPT !.dup = o] ELSE runs[i]
    BY <1>1, <2>1 DEF MarkDuplicates
  <2>. QED
    BY <2>2, <2>3, <2>4
<1> SUFFICES ASSUME NEW i \in Stored, NEW j \in Stored,
                    Countable(runs'[i]), Countable(runs'[j]),
                    ~Withdrawn(runs'[i]), ~Withdrawn(runs'[j]),
                    <<runs'[i].doc.proto, OrgOfDoc(runs'[i].doc), runs'[i].doc.meas>>
                      = <<runs'[j].doc.proto, OrgOfDoc(runs'[j].doc), runs'[j].doc.meas>>
             PROVE  i = j
  BY <1>2 DEF NoDoubleCount, Countable, Withdrawn, Key3, OrgOfDoc
<1>4. /\ runs'[i].doc = runs[i].doc /\ runs'[j].doc = runs[j].doc
      /\ i \in Firsts(i) /\ j \in Firsts(j) /\ OriginalOf(i) = i /\ OriginalOf(j) = j
  BY <1>3 DEF Countable
<1>5. Firsts(i) = Firsts(j)
  BY <1>4 DEF Firsts
<1>6. OriginalOf(i) = OriginalOf(j)
  <2>1. \A k : OriginalOf(k) = IF Firsts(k) = {} THEN None ELSE Earliest(Firsts(k))
    BY DEF OriginalOf, Firsts
  <2>. QED
    BY <1>5, <2>1
<1>. QED
  BY <1>4, <1>6

LEMMA NextBInv == NoIntake /\ TInv /\ TInv' /\ BInv /\ [Next]_vars => BInv'
<1> SUFFICES ASSUME NoIntake, TInv, TInv', BInv, [Next]_vars PROVE BInv'
  OBVIOUS
<1>0. /\ \A s \in Session : sess[s] = None
      /\ applyJobs = {} /\ clock = 0
  BY DEF BInv
<1>1. ASSUME UNCHANGED <<dbVars, clock, sess>>, bf' = bf \/ bf' = BackfillOff
      PROVE  BInv'
  <2>1. UNCHANGED <<runs, ledger, applyJobs>>
    BY <1>1 DEF dbVars
  <2>2. CountedNow' = CountedNow /\ (NoDoubleCount => NoDoubleCount')
    BY <2>1, SameCounts
  <2>. QED
    BY <1>0, <1>1, <2>1, <2>2, BKept
<1>2. ASSUME NEW d \in Doc, Preview(d) \/ PreviewExpires(d) PROVE BInv'
  BY <1>1, <1>2 DEF Preview, PreviewExpires
<1>3. CASE ReapPreviews
  BY <1>1, <1>3 DEF ReapPreviews
<1>4. ASSUME NEW s \in Session, NEW op, Begin(s, op) PROVE FALSE
  BY <1>0, <1>4 DEF Begin, NoIntake
<1>5. ASSUME NEW s \in Session, Transaction(s) PROVE FALSE
  BY <1>0, <1>5 DEF Transaction, Refuse, Decide, Acquire, StoreNew, WithdrawRuns, Holds, Abort
<1>6. ASSUME NEW n \in Node, RevokeNode(n) PROVE BInv'
  BY <1>1, <1>6 DEF RevokeNode
<1>7. CASE ChangeFlag
  <2>1. UNCHANGED <<dbVars, clock>> /\ sess' = [s \in Session |-> None]
        /\ (bf' = bf \/ bf' = BackfillOff)
    BY <1>7 DEF ChangeFlag
  <2>2. UNCHANGED <<runs, ledger, applyJobs>>
    BY <2>1 DEF dbVars
  <2>3. CountedNow' = CountedNow /\ (NoDoubleCount => NoDoubleCount')
    BY <2>2, SameCounts
  <2>. QED
    BY <2>1, <2>2, <2>3, BKept
<1>8. CASE SharingBackfill
  <2>1. PICK m : runs' = [runs EXCEPT ![m].trusted = TRUE] /\ m \in Stored
    <3>1. PICK S : S = {i \in Stored : ~runs[i].trusted}
      OBVIOUS
    <3>2. Min(S) \in Stored
      BY <1>8, <3>1, MinIs, StoredNumbers DEF SharingBackfill
    <3>. QED
      BY <1>8, <3>1, <3>2 DEF SharingBackfill
  <2>2. \A i \in Stored : runs[i] \in Row /\ i \in RunId
    BY DEF TInv, TypeOK, Stored
  <2>3. PICK f : f = [runs[m] EXCEPT !.trusted = TRUE]
    OBVIOUS
  <2>4. /\ f.doc = runs[m].doc /\ f.idx = runs[m].idx /\ f.dup = runs[m].dup /\ f.wd = runs[m].wd
        /\ f # None
    <3>1. f \in Row
      BY <2>1, <2>2, <2>3, ChangedRow
    <3>. QED
      BY <2>1, <2>2, <2>3, <3>1, NullAssumption DEF Row
  <2>5. runs'[m] = f /\ \A i \in RunId \ {m} : runs'[i] = runs[i]
    BY <2>1, <2>2, <2>3 DEF TInv, TypeOK
  <2>6. CountedNow' = CountedNow /\ (NoDoubleCount => NoDoubleCount')
    <3>1. \A i \in RunId : runs'[i] = None <=> runs[i] = None
      BY <2>1, <2>4, <2>5 DEF Stored
    <3>2. \A i \in Stored : /\ runs'[i].doc = runs[i].doc /\ runs'[i].idx = runs[i].idx
                            /\ runs'[i].dup = runs[i].dup /\ runs'[i].wd = runs[i].wd
      BY <2>2, <2>4, <2>5
    <3>. QED
      BY <3>1, <3>2, SameCounts
  <2>7. UNCHANGED <<clock, applyJobs, ledger, sess, bf>>
    BY <1>8 DEF SharingBackfill
  <2>. QED
    BY <1>0, <2>6, <2>7, BKept
<1>9. CASE IndexBackfill
  <2>0. bf \in Backfills /\ UNCHANGED <<clock, applyJobs, sess>>
    BY <1>9, BackfillIs DEF IndexBackfill, StartIndexBackfill, CrashIndexBackfill, ProjectRow,
         ProjectEnds, MarkDuplicates, MarkSuspects, RepairCount, RepairWrite, RepairZero, dbVars
  <2>1. CASE StartIndexBackfill
    <3>1. bf'.pc = "project" /\ ~bf'.marked
      BY <2>1 DEF StartIndexBackfill, BackfillOff
    <3>. QED
      BY <1>0, <2>0, <3>1 DEF BInv
  <2>2. CASE CrashIndexBackfill
    BY <1>1, <2>2 DEF CrashIndexBackfill
  <2>3. CASE ProjectRow
    <3>1. bf'.pc = "project" /\ bf'.marked = bf.marked /\ bf.pc = "project"
      BY <2>0, <2>3 DEF ProjectRow, Backfills
    <3>2. ~bf.marked
      BY <3>1 DEF BInv, AfterDuplicates
    <3>. QED
      BY <1>0, <2>0, <3>1, <3>2 DEF BInv
  <2>4. CASE ProjectEnds
    <3>1. bf'.pc \in {"dups", "count"} /\ bf'.marked = bf.marked /\ bf.pc = "project"
      BY <2>0, <2>4 DEF ProjectEnds, Backfills
    <3>2. ~bf.marked
      BY <3>1 DEF BInv, AfterDuplicates
    <3>. QED
      BY <1>0, <2>0, <3>1, <3>2 DEF BInv
  <2>5. CASE MarkDuplicates
    <3>1. bf'.pc = "suspects"
      BY <2>0, <2>5 DEF MarkDuplicates, Backfills
    <3>2. NoDoubleCount'
      BY <2>5, OriginalsStand
    <3>. QED
      BY <1>0, <2>0, <3>1, <3>2 DEF BInv, AfterDuplicates
  <2>6. CASE MarkSuspects
    <3>1. bf'.pc = "count" /\ bf'.marked = bf.marked
      BY <2>0, <2>6 DEF MarkSuspects, Backfills
    <3>2. PICK U : /\ runs' = [i \in RunId |-> IF i \in U THEN [runs[i] EXCEPT !.suspect = TRUE]
                                               ELSE runs[i]]
                   /\ U \subseteq Stored
      <4>1. PICK U \in SUBSET Stored : U = {i \in Stored : runs[i].idx /\ SharedDigest(i)}
        OBVIOUS
      <4>2. runs' = [i \in RunId |-> IF i \in U THEN [runs[i] EXCEPT !.suspect = TRUE] ELSE runs[i]]
        BY <2>6, <4>1 DEF MarkSuspects
      <4>. QED
        BY <4>2
    <3>3. \A i \in Stored : runs[i] \in Row /\ i \in RunId /\ runs[i] # None
      BY DEF TInv, TypeOK, Stored
    <3>4. ASSUME NEW i \in Stored
          PROVE  /\ runs'[i] # None
                 /\ runs'[i].doc = runs[i].doc /\ runs'[i].idx = runs[i].idx
                 /\ runs'[i].dup = runs[i].dup /\ runs'[i].wd = runs[i].wd
      <4>1. PICK f : f = [runs[i] EXCEPT !.suspect = TRUE]
        OBVIOUS
      <4>2. /\ f # None /\ f.doc = runs[i].doc /\ f.idx = runs[i].idx
            /\ f.dup = runs[i].dup /\ f.wd = runs[i].wd
        BY <3>3, <4>1, FlaggedRow
      <4>3. runs'[i] \in {f, runs[i]}
        BY <3>2, <3>3, <4>1
      <4>. QED
        BY <3>3, <4>2, <4>3
    <3>5. \A i \in RunId \ Stored : runs'[i] = runs[i]
      BY <3>2
    <3>6. \A i \in RunId : runs'[i] = None <=> runs[i] = None
      BY <3>3, <3>4, <3>5
    <3>7. NoDoubleCount => NoDoubleCount'
      BY <3>4, <3>6, SameCounts
    <3>. QED
      BY <1>0, <2>0, <3>1, <3>7 DEF BInv, AfterDuplicates
  <2>7. CASE RepairCount
    <3>1. /\ bf'.pc = "write" /\ bf'.tally = CountedNow /\ bf'.marked = bf.marked
          /\ UNCHANGED runs
      BY <2>0, <2>7 DEF RepairCount, Backfills, dbVars
    <3>2. CountedNow' = CountedNow /\ (NoDoubleCount => NoDoubleCount')
      BY <3>1, SameCounts
    <3>. QED
      BY <1>0, <2>0, <3>1, <3>2 DEF BInv, AfterDuplicates
  <2>8. CASE RepairWrite
    <3>1. /\ bf.pc = "write" /\ bf'.pc = "zero" /\ bf'.marked = bf.marked /\ UNCHANGED runs
          /\ \A a \in Account : ledger'[a] = IF bf.tally[a] = None THEN ledger[a] ELSE bf.tally[a]
      BY <2>0, <2>8 DEF RepairWrite, Backfills
    <3>2. CountedNow' = CountedNow /\ (NoDoubleCount => NoDoubleCount')
      BY <3>1, SameCounts
    <3>3. bf.tally = CountedNow
      BY <3>1 DEF BInv
    <3>4. \A a \in Account : CountedNow'[a] # None => ledger'[a] = CountedNow'[a]
      BY <3>1, <3>2, <3>3
    <3>. QED
      BY <1>0, <2>0, <3>1, <3>2, <3>4 DEF BInv, AfterDuplicates
  <2>9. CASE RepairZero
    <3>1. /\ bf.pc = "zero" /\ bf'.pc \in {"done", "failed"} /\ bf'.marked = bf.marked
          /\ UNCHANGED runs
          /\ \A a \in Account : ledger'[a] = IF CountedNow[a] = None /\ ledger[a] # None
                                             THEN Zero ELSE ledger[a]
      BY <2>0, <2>9 DEF RepairZero, Backfills
    <3>2. CountedNow' = CountedNow /\ (NoDoubleCount => NoDoubleCount')
      BY <3>1, SameCounts
    <3>3. \A a \in Account : CountedNow[a] # None => ledger[a] = CountedNow[a]
      BY <3>1 DEF BInv
    <3>4. LedgerExact'
      <4> SUFFICES ASSUME NEW a \in Account
                   PROVE  (IF ledger'[a] = None THEN Zero ELSE ledger'[a])
                            = (IF CountedNow'[a] = None THEN Zero ELSE CountedNow'[a])
        BY DEF LedgerExact, CountOf, Tallied
      <4>. QED
        BY <3>1, <3>2, <3>3
    <3>. QED
      BY <1>0, <2>0, <3>1, <3>2, <3>4 DEF BInv, AfterDuplicates
  <2>. QED
    BY <1>9, <2>1, <2>2, <2>3, <2>4, <2>5, <2>6, <2>7, <2>8, <2>9 DEF IndexBackfill
<1>10. CASE UNCHANGED vars
  BY <1>1, <1>10 DEF vars, dbVars
<1>11. ~ \E w \in applyJobs : ApplyWithdrawal(w)
  BY <1>0
<1>. QED
  BY <1>2, <1>3, <1>4, <1>5, <1>6, <1>7, <1>8, <1>9, <1>10, <1>11 DEF Next, SubmitRun, RequestWithdrawal

\* However many legacy rows there are, unreadable ones among them, and however
\* often the backfill is cut off or the flag changes: when it has run to its end
\* the ledger agrees with the rows, and after the duplicate pass no measurement
\* of an organization counts twice (jobs/handlers.ts, cohort/contributions.ts).
THEOREM BackfillIsExact == NoIntake /\ Spec => []BackfillRestores
<1>1. ASSUME NoIntake PROVE Spec => []BackfillRestores
  <2>1. Init => TInv /\ BInv
    BY InitTInv, InitBInv
  <2>2. TInv /\ BInv /\ [Next]_vars => TInv' /\ BInv'
    BY <1>1, NextTInv, NextBInv
  <2>3. BInv => BackfillRestores
    BY DEF BInv, BackfillRestores
  <2>. QED
    BY <2>1, <2>2, <2>3, PTL DEF Spec
<1>. QED
  BY <1>1

=============================================================================
