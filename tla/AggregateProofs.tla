--------------------------- MODULE AggregateProofs ---------------------------
(***************************************************************************)
(* What the aggregate module lets out, in two parts that share the         *)
(* cohort: when an answer is released (QueryRelease), then what it says    *)
(* (Calculation).                                                          *)
(*                                                                         *)
(* The differencing defence holds for every number of organizations,       *)
(* queries and concurrent requests: releases are pairwise equal or far     *)
(* apart. The decision is taken two steps before the release is visible,   *)
(* so the invariant carries what the advisory lock protects in between: a  *)
(* request that is about to record a release holds the lock of its         *)
(* protocol, and its members are still far from every recorded release.    *)
(*                                                                         *)
(* The statistics need no induction: a sort is stated by the place of      *)
(* each value, places are an injection into 1..n, so all are taken, and    *)
(* the k-th of the ascending array is at most x exactly when k of the      *)
(* values are (OrderStatistic). Percentiles, quartiles and medians follow  *)
(* from that.                                                              *)
(***************************************************************************)
EXTENDS QueryRelease, Calculation, SequenceTheorems, FiniteSetTheorems, TLAPS

Deciding(s) == At(s, "commit") /\ Releasing(s)

Members(s) == OrgsOf(sess[s].outcome.cohort)

IsASequence(q) == \E S : q \in Seq(S)

\* The types the argument needs.
Typed ==
  /\ revision \in Nat
  /\ rows \subseteq Row
  /\ cache \subseteq [digest : {Digest(k) : k \in Query}, rev : Nat, outcome : Outcome]
  /\ IsASequence(releases) /\ \A i \in DOMAIN releases : releases[i].members \subseteq Org
  /\ sess \in [Session -> Request \union {None}]
  /\ advisory \in [Proto -> Session \union {None}]

HoldsLock == \A s \in Session : Deciding(s) => advisory[sess[s].query.proto] = s

Near(A, B) == A # B /\ Cardinality(SymmetricDifference(A, B)) < MinOrgDifference

StillFar ==
  \A s \in Session : Deciding(s) =>
    \A i \in DOMAIN releases :
      releases[i].proto = sess[s].query.proto => ~Near(releases[i].members, Members(s))

FarApart ==
  \A i, j \in DOMAIN releases :
    releases[i].proto = releases[j].proto => ~Near(releases[i].members, releases[j].members)

RInv == Typed /\ HoldsLock /\ StillFar /\ FarApart

-----------------------------------------------------------------------------
\* The organizations of any rows are known ones.
LEMMA OrgsTyped == ASSUME NEW C \in SUBSET Row PROVE OrgsOf(C) \in SUBSET Org
  BY DEF OrgsOf, Row

\* There are finitely many organizations, so that distances are numbers.
LEMMA OrgFinite == IsFiniteSet(Org)
<1>1. IsFiniteSet(Run \union Seeded)
  BY FS_Union, QueryAssumption DEF QueryAssumption
<1>. DEFINE f == [c \in Run \union Seeded |-> c.org]
<1>2. f \in Surjection(Run \union Seeded, Org)
  BY DEF Surjection, Org
<1>. QED
  BY <1>1, <1>2, FS_Surjection

\* Distance is symmetric.
LEMMA NearSymmetric == ASSUME NEW A, NEW B, Near(A, B) PROVE Near(B, A)
<1>1. SymmetricDifference(A, B) = SymmetricDifference(B, A)
  BY DEF SymmetricDifference
<1>. QED
  BY <1>1 DEF Near

\* Sets that are not near are the same or differ by MinOrgDifference.
LEMMA FarMeansDifferent ==
  ASSUME NEW A \in SUBSET Org, NEW B \in SUBSET Org, ~Near(A, B)
  PROVE  A = B \/ Cardinality(SymmetricDifference(A, B)) >= MinOrgDifference
<1>1. IsFiniteSet(SymmetricDifference(A, B))
  BY OrgFinite, FS_Subset DEF SymmetricDifference
<1>2. Cardinality(SymmetricDifference(A, B)) \in Nat
  BY <1>1, FS_CardinalityType
<1>. QED
  BY <1>2, CohortAssumption DEF Near, CohortAssumption

-----------------------------------------------------------------------------
\* No request has been asked and nothing is released at the start.
LEMMA InitRInv == Init => RInv
<1>1. Cardinality(Seeded) \in Nat
  BY FS_CardinalityType, QueryAssumption DEF QueryAssumption
<1>. QED
  BY <1>1, QueryAssumption
  DEF Init, RInv, Typed, IsASequence, HoldsLock, StillFar, FarApart, Deciding, At, QueryAssumption

\* What one request does on its own, short of a release decision, disturbs
\* nobody's: the lock of another request is never taken from it.
LEMMA OthersKeep ==
  ASSUME RInv, NEW s \in Session,
         \A t \in Session \ {s} : sess'[t] = sess[t],
         ~Deciding(s)',
         releases' = releases,
         \A p \in Proto : advisory'[p] # advisory[p] => advisory[p] \in {s, None}
  PROVE  HoldsLock' /\ StillFar' /\ FarApart'
<1>1. \A t \in Session : Deciding(t)' => t # s /\ Deciding(t) /\ sess'[t] = sess[t]
  BY DEF Deciding, At, Releasing
<1>2. \A t \in Session : Deciding(t) => sess[t].query.proto \in Proto
  BY QueryAssumption DEF RInv, Typed, Deciding, At, Request, QueryAssumption
<1>3. HoldsLock'
  BY <1>1, <1>2, QueryAssumption DEF RInv, HoldsLock, QueryAssumption
<1>4. StillFar'
  BY <1>1 DEF RInv, StillFar, Members
<1>5. FarApart'
  BY DEF RInv, FarApart
<1>. QED
  BY <1>3, <1>4, <1>5

\* The evidence changes only what the types say of it.
LEMMA EvidenceStep ==
  ASSUME RInv,
         \/ \E c \in Run : AcceptRun(c)
         \/ \E ids \in Withdrawal : Withdraw(ids)
         \/ \E j \in evictions : ApplyWithdrawal(j)
  PROVE  RInv'
<1>. USE DEF RInv, answers
<1>1. UNCHANGED <<releases, sess, advisory>>
  BY DEF AcceptRun, Withdraw, ApplyWithdrawal
<1>2. HoldsLock' /\ StillFar' /\ FarApart'
  BY <1>1 DEF HoldsLock, StillFar, FarApart, Deciding, At, Releasing, Members
<1>3. CASE \E c \in Run : AcceptRun(c)
  <2>. PICK c \in Run : AcceptRun(c)
    BY <1>3
  <2>1. \A r \in rows : r \in Row /\ [r EXCEPT !.suspect = TRUE] \in Row
    BY DEF Typed, Row
  <2>2. \A b \in BOOLEAN, n \in Nat :
          [id |-> c.id, org |-> c.org, proto |-> c.proto, meas |-> c.meas, tags |-> c.tags,
           coop |-> c.coop, suspect |-> b, rev |-> n] \in Row
    <3>1. c.tags \subseteq Tag
      BY DEF Tag
    <3>. QED
      BY <3>1, QueryAssumption DEF QueryAssumption, Row, RunId, Org, Proto, Measurement
  <2>. DEFINE shared == \E r \in SharedWith(c) : r.id \notin gone /\ r.org # c.org
              new == [id |-> c.id, org |-> c.org, proto |-> c.proto, meas |-> c.meas,
                      tags |-> c.tags, coop |-> c.coop, suspect |-> shared, rev |-> revision + 1]
              aged == {IF shared /\ r \in SharedWith(c) THEN [r EXCEPT !.suspect = TRUE] ELSE r :
                         r \in rows}
  <2>3. rows' \subseteq Row
    <3>1. new \in Row
      <4>1. shared \in BOOLEAN /\ revision + 1 \in Nat
        BY DEF Typed
      <4>. HIDE DEF shared
      <4>. QED
        BY <2>2, <4>1
    <3>2. aged \subseteq Row
      <4>. HIDE DEF shared
      <4>. QED
        BY <2>1
    <3>3. rows' = aged \union {new}
      BY DEF AcceptRun
    <3>. HIDE DEF aged, new
    <3>. QED
      BY <3>1, <3>2, <3>3
  <2>. QED
    BY <1>1, <1>2, <2>3 DEF Typed, AcceptRun, Bump
<1>4. CASE \E ids \in Withdrawal : Withdraw(ids)
  BY <1>1, <1>2, <1>4 DEF Typed, Withdraw, Bump
<1>5. CASE \E j \in evictions : ApplyWithdrawal(j)
  BY <1>1, <1>2, <1>5 DEF Typed, ApplyWithdrawal
<1>. QED
  BY <1>3, <1>4, <1>5

-----------------------------------------------------------------------------
\* A request's record is a Request, and updating its fields keeps it one.
LEMMA RequestFields ==
  ASSUME Typed, NEW s \in Session, sess[s] # None
  PROVE  /\ sess[s] \in Request
         /\ sess[s].outcome \in Outcome /\ sess[s].query \in Query
         /\ sess[s].query.proto \in Proto
         /\ sess[s].outcome.cohort \subseteq Row
<1>1. sess[s] \in Request
  BY DEF Typed
<1>. QED
  BY <1>1, QueryAssumption DEF Request, Outcome, QueryAssumption

\* What the steps of a request put into its outcome is an outcome.
LEMMA OutcomesTyped ==
  /\ NoOutcome \in Outcome
  /\ [NoOutcome EXCEPT !.reasons = {"no_cooperative_evidence"}] \in Outcome
  /\ \A C \in SUBSET Row, R \in SUBSET Reason : Suppressed(C, R) \in Outcome
  /\ \A C \in SUBSET Row :
       [status |-> "released", reasons |-> {}, cohort |-> C, limited |-> FALSE] \in Outcome
  BY DEF NoOutcome, Outcome, Suppressed, Status, Reason

\* Candidates are rows, and the threshold reasons are reasons.
LEMMA CandidatesTyped ==
  ASSUME Typed, NEW k, NEW n
  PROVE  Candidates(k, n) \subseteq Row /\ ThresholdReasons(Candidates(k, n)) \subseteq Reason
  BY DEF Typed, Candidates, ThresholdReasons, Reason

\* A step that leaves everything but one request alone, and leaves that one
\* short of recording a release, keeps the invariant.
LEMMA RequestStep ==
  ASSUME RInv, NEW s \in Session, NEW r \in Request,
         sess' = [sess EXCEPT ![s] = r],
         ~(r.pc = "commit" /\ r.outcome.status = "released" /\ ~r.hit),
         UNCHANGED <<revision, rows, releases, advisory>>,
         cache' \subseteq cache
  PROVE  RInv'
<1>1. Typed'
  BY DEF RInv, Typed
<1>2. ~Deciding(s)'
  BY DEF RInv, Typed, Deciding, At, Releasing
<1>3. \A t \in Session \ {s} : sess'[t] = sess[t]
  BY DEF RInv, Typed
<1>4. HoldsLock' /\ StillFar' /\ FarApart'
  BY <1>2, <1>3, OthersKeep
<1>. QED
  BY <1>1, <1>4 DEF RInv

\* Steps up to the own-evidence read decide nothing yet.
LEMMA ReadingSteps ==
  ASSUME RInv, NEW s \in Session,
         \/ \E k \in Query : Ask(s, k)
         \/ ReadCache(s) \/ Count(s) \/ Load(s) \/ CheckPin(s) \/ OwnEvidence(s)
  PROVE  RInv'
<1>. USE DEF evidence, answers
<1>1. CASE \E k \in Query : Ask(s, k)
  <2>. PICK k \in Query : Ask(s, k)
    BY <1>1
  <2>. DEFINE rev == IF k.pin # None THEN k.pin ELSE revision
              r == [pc |-> "cache", query |-> k, rev |-> rev, outcome |-> NoOutcome,
                    formed |-> FALSE, hit |-> FALSE, own |-> {}]
  <2>1. rev \in Nat
    BY QueryAssumption DEF RInv, Typed, QueryAssumption
  <2>2. r \in Request
    BY <2>1, OutcomesTyped DEF Request, Pc
  <2>3. sess' = [sess EXCEPT ![s] = r] /\ r.pc # "commit"
    BY DEF Ask
  <2>4. UNCHANGED <<revision, rows, releases, advisory, cache>>
    BY DEF Ask
  <2>. HIDE DEF r
  <2>. QED
    BY <2>2, <2>3, <2>4, RequestStep
<1>2. CASE ReadCache(s)
  <2>0. sess[s] \in Request
    BY <1>2, RequestFields DEF RInv, ReadCache, At
  <2>1. CASE \E e \in cache : sess' = [sess EXCEPT ![s].pc = "own", ![s].outcome = e.outcome,
                                         ![s].formed = TRUE, ![s].hit = TRUE]
    <3>. PICK e \in cache : sess' = [sess EXCEPT ![s].pc = "own", ![s].outcome = e.outcome,
                                         ![s].formed = TRUE, ![s].hit = TRUE]
      BY <2>1
    <3>. DEFINE r == [sess[s] EXCEPT !.pc = "own", !.outcome = e.outcome,
                                     !.formed = TRUE, !.hit = TRUE]
    <3>1. e.outcome \in Outcome
      BY DEF RInv, Typed
    <3>2. r \in Request /\ r.pc # "commit"
      BY <2>0, <3>1 DEF Request, Pc
    <3>3. sess' = [sess EXCEPT ![s] = r]
      BY DEF RInv, Typed
    <3>4. UNCHANGED <<revision, rows, releases, advisory>> /\ cache' \subseteq cache
      BY <1>2 DEF ReadCache
    <3>. HIDE DEF r
    <3>. QED
      BY <3>2, <3>3, <3>4, RequestStep
  <2>2. CASE sess' = [sess EXCEPT ![s].pc = "count"]
    <3>. DEFINE r == [sess[s] EXCEPT !.pc = "count"]
    <3>1. r \in Request /\ r.pc # "commit"
      BY <2>0 DEF Request, Pc
    <3>2. sess' = [sess EXCEPT ![s] = r]
      BY <2>2 DEF RInv, Typed
    <3>3. UNCHANGED <<revision, rows, releases, advisory>> /\ cache' \subseteq cache
      BY <1>2 DEF ReadCache
    <3>. HIDE DEF r
    <3>. QED
      BY <3>1, <3>2, <3>3, RequestStep
  <2>. QED
    BY <1>2, <2>1, <2>2 DEF ReadCache
<1>3. CASE Count(s)
  <2>. DEFINE C == Candidates(sess[s].query, sess[s].rev)
              none == [NoOutcome EXCEPT !.reasons = {"no_cooperative_evidence"}]
              large == Suppressed(C, {"cohort_too_large"})
  <2>0. sess[s] \in Request
    BY <1>3, RequestFields DEF RInv, Count, At
  <2>1. none \in Outcome /\ large \in Outcome
    BY OutcomesTyped, CandidatesTyped DEF RInv, Reason
  <2>2. UNCHANGED <<revision, rows, releases, advisory, cache>>
    BY <1>3 DEF Count
  <2>3. \E r \in {[sess[s] EXCEPT !.pc = "own", !.outcome = none],
                  [sess[s] EXCEPT !.pc = "own", !.outcome = large],
                  [sess[s] EXCEPT !.pc = "load"]} : sess' = [sess EXCEPT ![s] = r]
    BY <1>3 DEF Count, RInv, Typed
  <2>. HIDE DEF none, large
  <2>4. PICK r \in Request : r.pc # "commit" /\ sess' = [sess EXCEPT ![s] = r]
    BY <2>0, <2>1, <2>3 DEF Request, Pc
  <2>. QED
    BY <2>2, <2>4, RequestStep
<1>4. CASE Load(s)
  <2>. DEFINE C == Candidates(sess[s].query, sess[s].rev)
              R == ThresholdReasons(C)
              released == [status |-> "released", reasons |-> {}, cohort |-> C, limited |-> FALSE]
              o == IF R # {} THEN Suppressed(C, R) ELSE released
              next == IF R = {} /\ sess[s].query.pin # None THEN "pin" ELSE "own"
              r == [sess[s] EXCEPT !.formed = TRUE, !.outcome = o, !.pc = next]
  <2>0. sess[s] \in Request
    BY <1>4, RequestFields DEF RInv, Load, At
  <2>1. o \in Outcome
    BY OutcomesTyped, CandidatesTyped DEF RInv
  <2>2. sess' = [sess EXCEPT ![s] = r]
    BY <1>4 DEF Load, RInv, Typed
  <2>3. UNCHANGED <<revision, rows, releases, advisory, cache>>
    BY <1>4 DEF Load
  <2>4. next \in Pc \ {"commit"}
    BY DEF Pc
  <2>. HIDE DEF o, next
  <2>5. r \in Request /\ r.pc # "commit"
    BY <2>0, <2>1, <2>4 DEF Request
  <2>. HIDE DEF r
  <2>. QED
    BY <2>2, <2>3, <2>5, RequestStep
<1>5. CASE CheckPin(s)
  <2>. DEFINE b == ~Reproduces(sess[s].query, sess[s].rev, sess[s].outcome.cohort)
              o == [sess[s].outcome EXCEPT !.limited = b]
              r == [sess[s] EXCEPT !.pc = "own", !.outcome = o]
  <2>0. sess[s] \in Request /\ sess[s].outcome \in Outcome
    BY <1>5, RequestFields DEF RInv, CheckPin, At
  <2>1. b \in BOOLEAN
    OBVIOUS
  <2>2. sess' = [sess EXCEPT ![s] = r]
    BY <1>5 DEF CheckPin, RInv, Typed
  <2>3. UNCHANGED <<revision, rows, releases, advisory, cache>>
    BY <1>5 DEF CheckPin
  <2>. HIDE DEF b
  <2>4. o \in Outcome
    BY <2>0, <2>1 DEF Outcome
  <2>. HIDE DEF o
  <2>5. r \in Request /\ r.pc # "commit"
    BY <2>0, <2>4 DEF Request, Pc
  <2>. HIDE DEF r
  <2>. QED
    BY <2>2, <2>3, <2>5, RequestStep
<1>6. CASE OwnEvidence(s)
  <2>. DEFINE ids == IF sess[s].formed THEN {c.id : c \in OwnCompatible(s)} ELSE {}
              next == IF Releasing(s) THEN "lock" ELSE "commit"
              r == [sess[s] EXCEPT !.own = ids, !.pc = next]
  <2>0. sess[s] \in Request /\ sess[s].outcome \in Outcome
    BY <1>6, RequestFields DEF RInv, OwnEvidence, At
  <2>1. ids \subseteq RunId
    BY DEF RInv, Typed, OwnCompatible, Candidates, Row
  <2>2. sess' = [sess EXCEPT ![s] = r]
    BY <1>6 DEF OwnEvidence, RInv, Typed
  <2>3. UNCHANGED <<revision, rows, releases, advisory, cache>>
    BY <1>6 DEF OwnEvidence
  <2>4. next \in Pc /\ (next = "commit" => ~Releasing(s))
    BY DEF Pc
  <2>. HIDE DEF ids, next
  <2>5. r \in Request /\ r.pc = next /\ r.outcome = sess[s].outcome /\ r.hit = sess[s].hit
    BY <2>0, <2>1, <2>4 DEF Request
  <2>. HIDE DEF r
  <2>6. ~(r.pc = "commit" /\ r.outcome.status = "released" /\ ~r.hit)
    BY <2>4, <2>5 DEF Releasing
  <2>. QED
    BY <2>2, <2>3, <2>5, <2>6, RequestStep
<1>. QED
  BY <1>1, <1>2, <1>3, <1>4, <1>5, <1>6

-----------------------------------------------------------------------------
\* The decision under the lock: what passes it is far from every prior release.
LEMMA DecideStep ==
  ASSUME RInv, NEW s \in Session, DecideRelease(s)
  PROVE  RInv'
<1>. DEFINE p == sess[s].query.proto
            C == sess[s].outcome.cohort
            priors == {releases[i].members : i \in {j \in DOMAIN releases : releases[j].proto = p}}
            conflict == DifferencingConflict(priors, OrgsOf(C))
            o == IF conflict THEN Suppressed(C, {"differencing"}) ELSE sess[s].outcome
            r == [sess[s] EXCEPT !.pc = "commit", !.outcome = o]
<1>1. sess[s] \in Request /\ sess[s].outcome \in Outcome /\ p \in Proto /\ C \subseteq Row
  BY RequestFields DEF RInv, DecideRelease, At
<1>2. o \in Outcome
  BY <1>1, OutcomesTyped DEF Reason
<1>3. r \in Request /\ r.outcome = o /\ r.query = sess[s].query
  <2>. HIDE DEF o
  <2>. QED
    BY <1>1, <1>2 DEF Request, Pc
<1>4. sess' = [sess EXCEPT ![s] = r]
  BY DEF DecideRelease, RInv, Typed
<1>5. /\ UNCHANGED <<revision, rows, cache, releases>>
      /\ advisory' = [advisory EXCEPT ![p] = s] /\ advisory[p] = None
  BY DEF DecideRelease, LockFree, evidence, answers
<1>. HIDE DEF r
<1>6. /\ sess'[s] = r
      /\ \A t \in Session \ {s} : sess'[t] = sess[t]
  BY <1>4 DEF RInv, Typed
<1>7. Typed'
  BY <1>1, <1>3, <1>4, <1>5 DEF RInv, Typed
<1>8. \A t \in Session \ {s} : Deciding(t)' => Deciding(t) /\ sess[t].query.proto # p
  <2>. SUFFICES ASSUME NEW t \in Session \ {s}, Deciding(t)'
                PROVE  Deciding(t) /\ sess[t].query.proto # p
    OBVIOUS
  <2>1. Deciding(t)
    BY <1>6 DEF Deciding, At, Releasing
  <2>2. advisory[sess[t].query.proto] = t
    BY <2>1 DEF RInv, HoldsLock
  <2>. QED
    BY <2>1, <2>2, <1>5, QueryAssumption DEF QueryAssumption
<1>9. HoldsLock'
  <2>. SUFFICES ASSUME NEW t \in Session, Deciding(t)'
                PROVE  advisory'[sess'[t].query.proto] = t
    BY DEF HoldsLock
  <2>1. CASE t = s
    BY <2>1, <1>1, <1>3, <1>5, <1>6 DEF RInv, Typed
  <2>2. CASE t # s
    <3>1. Deciding(t) /\ sess[t].query.proto # p /\ sess'[t] = sess[t]
      BY <2>2, <1>6, <1>8
    <3>2. sess[t].query.proto \in Proto
      BY <3>1, RequestFields DEF RInv, Deciding, At
    <3>. QED
      BY <3>1, <3>2, <1>5 DEF RInv, Typed, HoldsLock
  <2>. QED
    BY <2>1, <2>2
<1>10. StillFar'
  <2>. SUFFICES ASSUME NEW t \in Session, Deciding(t)', NEW i \in DOMAIN releases',
                       releases'[i].proto = sess'[t].query.proto
                PROVE  ~Near(releases'[i].members, Members(t)')
    BY DEF StillFar
  <2>1. CASE t = s
    <3>1. o.status = "released"
      BY <2>1, <1>3, <1>6 DEF Deciding, Releasing
    <3>2. ~conflict /\ o = sess[s].outcome
      BY <3>1 DEF Suppressed
    <3>3. releases[i].members \in priors
      BY <2>1, <1>3, <1>5, <1>6
    <3>4. ~Near(releases[i].members, OrgsOf(C))
      BY <3>2, <3>3 DEF DifferencingConflict, Near
    <3>5. Members(t)' = OrgsOf(C)
      <4>1. Members(t)' = OrgsOf(sess'[t].outcome.cohort)
        BY DEF Members, OrgsOf
      <4>. QED
        BY <4>1, <2>1, <3>2, <1>3, <1>6
    <3>. QED
      BY <3>4, <3>5, <1>5
  <2>2. CASE t # s
    <3>1. Deciding(t) /\ sess'[t] = sess[t] /\ Members(t)' = Members(t)
      BY <2>2, <1>6, <1>8 DEF Members, OrgsOf
    <3>. QED
      BY <3>1, <1>5 DEF RInv, StillFar
  <2>. QED
    BY <2>1, <2>2
<1>11. FarApart'
  BY <1>5 DEF RInv, FarApart
<1>. QED
  BY <1>7, <1>9, <1>10, <1>11 DEF RInv

\* Ending a request frees only the locks it holds.
LEMMA FinishFrees ==
  ASSUME RInv, NEW s \in Session, Finish(s)
  PROVE  /\ sess' \in [Session -> Request \union {None}]
         /\ advisory' \in [Proto -> Session \union {None}]
         /\ ~Deciding(s)'
         /\ \A t \in Session \ {s} : sess'[t] = sess[t]
         /\ \A p \in Proto : advisory'[p] # advisory[p] => advisory[p] = s
  BY DEF RInv, Typed, Finish, Deciding, At

\* A failed request leaves the others as they were.
LEMMA FailStep ==
  ASSUME RInv, NEW s \in Session, Fail(s)
  PROVE  RInv'
<1>1. Finish(s) /\ UNCHANGED <<revision, rows, cache, releases>>
  BY DEF Fail, evidence, answers
<1>2. HoldsLock' /\ StillFar' /\ FarApart'
  BY <1>1, FinishFrees, OthersKeep
<1>. QED
  BY <1>1, <1>2, FinishFrees DEF RInv, Typed

\* The commit: a release joins the others only from a request that is still
\* far from all of them, and no second request of its protocol is deciding.
LEMMA CommitStep ==
  ASSUME RInv, NEW s \in Session, Commit(s)
  PROVE  RInv'
<1>. DEFINE k == sess[s].query
            o == sess[s].outcome
            rel == [proto |-> k.proto, filter |-> k.filter, rev |-> sess[s].rev,
                    members |-> OrgsOf(o.cohort), count |-> Cardinality(o.cohort)]
<1>1. /\ sess[s] \in Request /\ o \in Outcome /\ k \in Query /\ k.proto \in Proto
      /\ o.cohort \subseteq Row
  BY RequestFields DEF RInv, Commit, At
<1>2. Finish(s) /\ UNCHANGED <<revision, rows>>
  BY DEF Commit, evidence
<1>3. cache' \subseteq [digest : {Digest(q) : q \in Query}, rev : Nat, outcome : Outcome]
  BY <1>1 DEF Commit, RInv, Typed, PinnedRevision, Request
<1>4. CASE ~Releasing(s)
  <2>1. releases' = releases
    BY <1>4 DEF Commit
  <2>2. HoldsLock' /\ StillFar' /\ FarApart'
    BY <1>2, <2>1, FinishFrees, OthersKeep
  <2>. QED
    BY <1>2, <1>3, <2>1, <2>2, FinishFrees DEF RInv, Typed
<1>5. CASE Releasing(s)
  <2>0. Deciding(s)
    BY <1>5 DEF Commit, Deciding
  <2>1. releases' = Append(releases, rel)
    BY <1>5 DEF Commit, PinnedRevision
  <2>2. rel.proto = k.proto /\ rel.members = Members(s) /\ Members(s) \subseteq Org
    BY <1>1, OrgsTyped DEF Members
  <2>. HIDE DEF rel
  <2>3. /\ IsASequence(releases')
        /\ Len(releases) \in Nat /\ DOMAIN releases = 1 .. Len(releases)
        /\ DOMAIN releases' = 1 .. (Len(releases) + 1)
        /\ releases'[Len(releases) + 1] = rel
        /\ \A i \in DOMAIN releases : releases'[i] = releases[i]
    <3>1. PICK S : releases \in Seq(S)
      BY DEF RInv, Typed, IsASequence
    <3>2. releases \in Seq(S \union {rel}) /\ rel \in S \union {rel}
      BY <3>1
    <3>3. Append(releases, rel) \in Seq(S \union {rel})
      BY <3>2
    <3>. QED
      BY <2>1, <3>2, <3>3 DEF IsASequence
  <2>4. \A i \in DOMAIN releases' : i \in DOMAIN releases \/ releases'[i] = rel
    BY <2>3
  <2>5. Typed'
    BY <1>2, <1>3, <2>2, <2>3, <2>4, FinishFrees DEF RInv, Typed
  <2>6. \A i \in DOMAIN releases : releases[i].proto = rel.proto => ~Near(releases[i].members, rel.members)
    BY <2>0, <2>2 DEF RInv, StillFar
  <2>7. FarApart'
    <3>. SUFFICES ASSUME NEW i \in DOMAIN releases', NEW j \in DOMAIN releases',
                         releases'[i].proto = releases'[j].proto
                  PROVE  ~Near(releases'[i].members, releases'[j].members)
      BY DEF FarApart
    <3>1. CASE i \in DOMAIN releases /\ j \in DOMAIN releases
      BY <2>3, <3>1 DEF RInv, FarApart
    <3>2. CASE i \in DOMAIN releases /\ releases'[j] = rel
      BY <2>3, <2>6, <3>2
    <3>3. CASE releases'[i] = rel /\ j \in DOMAIN releases
      BY <2>3, <2>6, <3>3, NearSymmetric
    <3>4. CASE releases'[i] = rel /\ releases'[j] = rel
      BY <3>4 DEF Near
    <3>. QED
      BY <2>4, <3>1, <3>2, <3>3, <3>4
  <2>8. \A t \in Session : Deciding(t)' =>
          t # s /\ Deciding(t) /\ sess'[t] = sess[t] /\ Members(t)' = Members(t)
    BY <1>2, FinishFrees DEF Deciding, At, Releasing, Members, OrgsOf
  <2>9. \A t \in Session : Deciding(t)' =>
          sess[t].query.proto \in Proto /\ sess[t].query.proto # k.proto
    BY <2>0, <2>8, RequestFields DEF RInv, HoldsLock, Deciding, At
  <2>10. HoldsLock'
    <3>1. \A p \in Proto : advisory'[p] # advisory[p] => advisory[p] = s
      BY <1>2, FinishFrees
    <3>. QED
      BY <2>8, <2>9, <3>1 DEF RInv, HoldsLock
  <2>11. StillFar'
    BY <2>2, <2>3, <2>4, <2>8, <2>9 DEF RInv, StillFar
  <2>. QED
    BY <2>5, <2>7, <2>10, <2>11 DEF RInv
<1>. QED
  BY <1>4, <1>5

\* Every step keeps the invariant.
LEMMA NextRInv == RInv /\ [Next]_vars => RInv'
<1>. SUFFICES ASSUME RInv, [Next]_vars PROVE RInv'
  OBVIOUS
<1>1. ASSUME NEW s \in Session, Step(s) PROVE RInv'
  BY <1>1, ReadingSteps, DecideStep, CommitStep, FailStep DEF Step
<1>2. CASE UNCHANGED vars
  BY <1>2
  DEF vars, RInv, Typed, HoldsLock, StillFar, FarApart, Deciding, At, Releasing, Members
<1>. QED
  BY <1>1, <1>2, EvidenceStep DEF Next

\* The differencing defence, for every number of organizations and requests:
\* two releases of a protocol have the same members or differ by at least
\* MinOrgDifference organizations.
THEOREM ReleasesStayApart == Spec => []ReleasesDiffer
<1>1. RInv => ReleasesDiffer
  <2>. SUFFICES ASSUME RInv, NEW i \in DOMAIN releases, NEW j \in DOMAIN releases,
                       releases[i].proto = releases[j].proto
                PROVE  \/ releases[i].members = releases[j].members
                       \/ Cardinality(SymmetricDifference(releases[i].members, releases[j].members))
                            >= MinOrgDifference
    BY DEF ReleasesDiffer
  <2>1. ~Near(releases[i].members, releases[j].members)
    BY DEF RInv, FarApart
  <2>2. releases[i].members \in SUBSET Org /\ releases[j].members \in SUBSET Org
    BY DEF RInv, Typed
  <2>. QED
    BY <2>1, <2>2, FarMeansDifferent
<1>. QED
  BY <1>1, InitRInv, NextRInv, PTL DEF Spec

-----------------------------------------------------------------------------
(***************************************************************************)
(* Answers, for every number of organizations, questions and concurrent    *)
(* requests.  A cohort is read in one step and answered several steps      *)
(* later, from the cache perhaps much later, while the evidence moves.     *)
(* The invariant says what an answer is worth on the way: as long as its   *)
(* protocol has no revision after the one it is pinned at, it is what      *)
(* would be computed now.  An accepted run or a withdrawal always takes a  *)
(* revision later than every pin, so it outdates the answers it changes.   *)
(***************************************************************************)

Answering == {"pin", "own", "lock", "commit"}

\* What cohort C says of question k at revision n, once it is current.
Truthful(k, n, C) == latest[k.proto] <= n => C = Candidates(k, n)

\* A release of protocol p with the members of C is recorded.
Known(p, C) == \E i \in DOMAIN releases : releases[i].proto = p /\ releases[i].members = OrgsOf(C)

\* A request that has its cohort; a cached release is one already recorded.
Sound(r) ==
  /\ r.rev <= revision
  /\ r.pc \notin Answering => ~r.hit
  /\ r.pc \in Answering =>
       /\ Truthful(r.query, r.rev, r.outcome.cohort)
       /\ r.outcome.status = "released" =>
            /\ ThresholdReasons(r.outcome.cohort) = {}
            /\ r.hit => Known(r.query.proto, r.outcome.cohort)

SoundCache ==
  \A e \in cache :
    /\ e.rev <= revision
    /\ Truthful(e.digest, e.rev, e.outcome.cohort)
    /\ e.outcome.status = "released" =>
         ThresholdReasons(e.outcome.cohort) = {} /\ Known(e.digest.proto, e.outcome.cohort)

SoundReceipts ==
  \A t \in receipts :
    /\ t.query \in Query /\ t.rev \in Nat /\ t.rev <= revision
    /\ Truthful(t.query, t.rev, t.outcome.cohort)
    /\ t.outcome.status = "released" => Known(t.query.proto, t.outcome.cohort)

AInv ==
  /\ RInv
  /\ \A s \in Session : sess[s] # None => Sound(sess[s])
  /\ SoundCache /\ SoundReceipts

-----------------------------------------------------------------------------
\* Nothing is answered at the start.
LEMMA InitAInv == Init => AInv
  BY InitRInv DEF Init, AInv, SoundCache, SoundReceipts

\* A question that the evidence step did not outdate has the same candidates.
LEMMA Untouched ==
  ASSUME Typed, (\E c \in Run : AcceptRun(c)) \/ (\E ids \in Withdrawal : Withdraw(ids)),
         NEW k, k.proto \in Proto, NEW n \in Nat, n <= revision, latest'[k.proto] <= n
  PROVE  latest'[k.proto] = latest[k.proto] /\ Candidates(k, n)' = Candidates(k, n)
<1>0. revision \in Nat /\ \A r \in rows : r \in Row
  BY DEF Typed
<1>1. CASE \E c \in Run : AcceptRun(c)
  <2>1. PICK c \in Run : AcceptRun(c)
    BY <1>1
  <2>2. k.proto # c.proto /\ latest'[k.proto] = latest[k.proto]
    BY <1>0, <2>1 DEF AcceptRun, Bump
  <2>3. \A r \in rows : [r EXCEPT !.suspect = TRUE].proto = r.proto
    BY <1>0 DEF Row
  <2>4. {r \in rows' : r.proto = k.proto} = {r \in rows : r.proto = k.proto}
    <3>1. PICK b : b = \E r \in SharedWith(c) : r.id \notin gone /\ r.org # c.org
      OBVIOUS
    <3>2. PICK new : new = [id |-> c.id, org |-> c.org, proto |-> c.proto, meas |-> c.meas,
                            tags |-> c.tags, coop |-> c.coop, suspect |-> b, rev |-> revision + 1]
      OBVIOUS
    <3>3. rows' = {IF b /\ r \in SharedWith(c) THEN [r EXCEPT !.suspect = TRUE] ELSE r : r \in rows}
                    \union {new}
      BY <2>1, <3>1, <3>2 DEF AcceptRun
    <3>4. \A r \in rows : b /\ r \in SharedWith(c) => r.proto = c.proto
      BY DEF SharedWith
    <3>5. new.proto = c.proto
      BY <3>2
    <3>6. ASSUME NEW r \in rows, r.proto = k.proto PROVE r \in rows'
      BY <2>2, <3>3, <3>4, <3>6
    <3>7. ASSUME NEW r \in rows', r.proto = k.proto PROVE r \in rows
      <4>1. r # new
        BY <2>2, <3>5, <3>7
      <4>2. PICK q \in rows :
              r = IF b /\ q \in SharedWith(c) THEN [q EXCEPT !.suspect = TRUE] ELSE q
        BY <3>3, <4>1
      <4>3. q.proto = k.proto
        BY <2>3, <3>7, <4>2
      <4>. QED
        BY <2>2, <3>4, <4>2, <4>3
    <3>. QED
      BY <3>6, <3>7
  <2>5. gone' = gone
    BY <2>1 DEF AcceptRun, gone
  <2>6. Candidates(k, n)' = Candidates(k, n)
    BY <2>4, <2>5 DEF Candidates, Matches
  <2>. QED
    BY <2>2, <2>6
<1>2. CASE \E ids \in Withdrawal : Withdraw(ids)
  <2>1. PICK ids \in Withdrawal : Withdraw(ids)
    BY <1>2
  <2>2. /\ rows' = rows /\ gone' = gone \union ids
        /\ latest' = [p \in Proto |->
             IF p \in {r.proto : r \in {x \in rows : x.id \in ids}} THEN revision + 1 ELSE latest[p]]
    BY <2>1 DEF Withdraw, Bump, gone
  <2>3. k.proto \notin {r.proto : r \in {x \in rows : x.id \in ids}}
    BY <1>0, <2>2
  <2>4. \A r \in rows : r.proto = k.proto => r.id \notin ids
    BY <2>3
  <2>5. Candidates(k, n)' = Candidates(k, n)
    BY <2>2, <2>4 DEF Candidates, Matches
  <2>. QED
    BY <2>2, <2>3, <2>5
<1>. QED
  BY <1>1, <1>2

\* What questions and cached digests have for a protocol.
LEMMA DigestsTyped ==
  ASSUME Typed
  PROVE  /\ \A k \in Query : k.proto \in Proto /\ Digest(k).proto = k.proto
                             /\ Digest(k).filter = k.filter
         /\ \A e \in cache : e.digest.proto \in Proto /\ e.rev \in Nat /\ e.outcome \in Outcome
  BY QueryAssumption DEF Typed, Digest, QueryAssumption

\* New evidence outdates the answers it would change.
LEMMA EvidenceKeepsAnswers ==
  ASSUME AInv, (\E c \in Run : AcceptRun(c)) \/ (\E ids \in Withdrawal : Withdraw(ids))
  PROVE  AInv'
<1>1. RInv' /\ Typed
  BY EvidenceStep DEF AInv, RInv
<1>2. /\ UNCHANGED <<cache, releases, receipts, sess>>
      /\ revision \in Nat /\ revision' = revision + 1
  BY <1>1 DEF AcceptRun, Withdraw, Bump, answers, Typed
<1>3. \A k, n, C : k.proto \in Proto /\ n \in Nat /\ n <= revision /\ Truthful(k, n, C)
                   => Truthful(k, n, C)'
  BY <1>1, Untouched DEF Truthful
<1>4. \A p, C : Known(p, C) => Known(p, C)'
  BY <1>2 DEF Known, OrgsOf
<1>5. ASSUME NEW s \in Session, sess[s] # None PROVE Sound(sess[s])'
  <2>1. Sound(sess[s]) /\ sess'[s] = sess[s]
    BY <1>2, <1>5 DEF AInv
  <2>2. sess[s].query.proto \in Proto /\ sess[s].rev \in Nat
    BY <1>1, <1>5, RequestFields DEF Request
  <2>. QED
    BY <1>2, <1>3, <1>4, <2>1, <2>2 DEF Sound, Answering
<1>6. SoundCache'
  BY <1>1, <1>2, <1>3, <1>4, DigestsTyped DEF AInv, SoundCache
<1>7. SoundReceipts'
  BY <1>1, <1>2, <1>3, <1>4, DigestsTyped DEF AInv, SoundReceipts
<1>. QED
  BY <1>1, <1>2, <1>5, <1>6, <1>7 DEF AInv

\* Without new evidence what was true stays true, and a release stays recorded.
LEMMA SameEvidence ==
  ASSUME UNCHANGED <<latest, rows, withdrawn>>
  PROVE  \A k, n, C : Truthful(k, n, C)' <=> Truthful(k, n, C)
  BY DEF Truthful, Candidates, Matches, gone

\* A step of one request that records nothing.
LEMMA RequestKeepsAnswers ==
  ASSUME AInv, RInv', NEW s \in Session, NEW r,
         sess' = [sess EXCEPT ![s] = r], r # None => Sound(r),
         UNCHANGED <<evidence, releases, receipts>>, cache' \subseteq cache
  PROVE  AInv'
<1>1. UNCHANGED <<revision, latest, rows, withdrawn>>
  BY DEF evidence
<1>2. /\ \A k, n, C : Truthful(k, n, C)' <=> Truthful(k, n, C)
      /\ \A p, C : Known(p, C)' <=> Known(p, C)
  BY <1>1, SameEvidence DEF Known, OrgsOf
<1>3. \A t \in Session : sess'[t] # None => Sound(sess'[t])
  BY DEF AInv, RInv, Typed
<1>4. ASSUME NEW t \in Session, sess'[t] # None PROVE Sound(sess[t])'
  <2>1. PICK x : x = sess'[t]
    OBVIOUS
  <2>2. Sound(x)
    BY <1>3, <1>4, <2>1
  <2>3. Sound(x)'
    BY <1>1, <1>2, <2>2 DEF Sound, Answering
  <2>. QED
    BY <2>1, <2>3 DEF Sound, Answering, Truthful, Known, Candidates, Matches, gone
<1>5. \A t \in Session : (sess[t] # None => Sound(sess[t]))'
  BY <1>4
<1>6. SoundCache' /\ SoundReceipts'
  BY <1>1, <1>2 DEF AInv, SoundCache, SoundReceipts
<1>. QED
  BY <1>5, <1>6 DEF AInv

\* A request on its way to its answer.
LEMMA ReadingKeepsAnswers ==
  ASSUME AInv, NEW s \in Session,
         \/ \E k \in Query : Ask(s, k)
         \/ ReadCache(s) \/ Count(s) \/ Load(s) \/ CheckPin(s) \/ OwnEvidence(s)
  PROVE  AInv'
<1>0. RInv' /\ Typed /\ sess \in [Session -> Request \union {None}]
  BY ReadingSteps DEF AInv, RInv, Typed
<1>1. CASE \E k \in Query : Ask(s, k)
  <2>1. PICK k \in Query : Ask(s, k)
    BY <1>1
  <2>2. PICK rev : rev = IF k.pin # None THEN k.pin ELSE revision
    OBVIOUS
  <2>3. PICK r : r = [pc |-> "cache", query |-> k, rev |-> rev, outcome |-> NoOutcome,
                      formed |-> FALSE, hit |-> FALSE, own |-> {}]
    OBVIOUS
  <2>4. rev <= revision
    BY <1>0, <2>1, <2>2 DEF Ask, PinAccepted, Typed
  <2>5. Sound(r)
    BY <2>3, <2>4 DEF Sound, Answering
  <2>6. sess' = [sess EXCEPT ![s] = r] /\ UNCHANGED <<evidence, releases, receipts, cache>>
    BY <2>1, <2>2, <2>3 DEF Ask, answers
  <2>. QED
    BY <1>0, <2>5, <2>6, RequestKeepsAnswers
<1>2. ASSUME sess[s] # None
      PROVE  sess[s] \in Request /\ Sound(sess[s]) /\ sess[s].outcome \in Outcome
  BY <1>0, <1>2, RequestFields DEF AInv
<1>3. CASE ReadCache(s)
  <2>0. /\ sess[s] \in Request /\ Sound(sess[s]) /\ sess[s].pc = "cache"
        /\ UNCHANGED <<evidence, releases, receipts>> /\ cache' \subseteq cache
    BY <1>2, <1>3 DEF ReadCache, At
  <2>1. CASE \E e \in cache : /\ e.digest = Digest(sess[s].query) /\ e.rev = sess[s].rev
                              /\ sess' = [sess EXCEPT ![s].pc = "own", ![s].outcome = e.outcome,
                                                      ![s].formed = TRUE, ![s].hit = TRUE]
    <3>1. PICK e \in cache :
            /\ e.digest = Digest(sess[s].query) /\ e.rev = sess[s].rev
            /\ sess' = [sess EXCEPT ![s].pc = "own", ![s].outcome = e.outcome,
                                    ![s].formed = TRUE, ![s].hit = TRUE]
      BY <2>1
    <3>2. PICK r : r = [sess[s] EXCEPT !.pc = "own", !.outcome = e.outcome,
                                       !.formed = TRUE, !.hit = TRUE]
      OBVIOUS
    <3>3. /\ r.pc = "own" /\ r.outcome = e.outcome /\ r.query = sess[s].query
          /\ r.rev = sess[s].rev
      BY <2>0, <3>2 DEF Request
    <3>4. /\ r.rev <= revision
          /\ Truthful(e.digest, e.rev, e.outcome.cohort)
          /\ e.outcome.status = "released" =>
               ThresholdReasons(e.outcome.cohort) = {} /\ Known(e.digest.proto, e.outcome.cohort)
      BY <2>0, <3>3 DEF AInv, SoundCache, Sound
    <3>5. Truthful(r.query, r.rev, e.outcome.cohort) /\ e.digest.proto = r.query.proto
      BY <3>1, <3>3, <3>4 DEF Truthful, Digest, Candidates, Matches
    <3>6. Sound(r)
      BY <3>3, <3>4, <3>5 DEF Sound, Answering
    <3>7. sess' = [sess EXCEPT ![s] = r]
      BY <1>0, <3>1, <3>2
    <3>. QED
      BY <1>0, <2>0, <3>6, <3>7, RequestKeepsAnswers
  <2>2. CASE sess' = [sess EXCEPT ![s].pc = "count"]
    <3>1. PICK r : r = [sess[s] EXCEPT !.pc = "count"]
      OBVIOUS
    <3>2. r.pc = "count" /\ r.rev = sess[s].rev /\ r.hit = sess[s].hit
      BY <2>0, <3>1 DEF Request
    <3>3. Sound(r)
      BY <2>0, <3>2 DEF Sound, Answering
    <3>4. sess' = [sess EXCEPT ![s] = r]
      BY <1>0, <2>2, <3>1
    <3>. QED
      BY <1>0, <2>0, <3>3, <3>4, RequestKeepsAnswers
  <2>. QED
    BY <1>3, <2>1, <2>2 DEF ReadCache
<1>4. CASE Count(s) \/ Load(s)
  <2>0. /\ sess[s] \in Request /\ Sound(sess[s]) /\ sess[s].pc \in {"count", "load"}
        /\ UNCHANGED <<evidence, releases, receipts, cache>>
    BY <1>2, <1>4 DEF Count, Load, At, answers
  <2>1. PICK C : C = Candidates(sess[s].query, sess[s].rev)
    OBVIOUS
  <2>2. PICK o, pc, formed :
          /\ sess' = [sess EXCEPT ![s] = [sess[s] EXCEPT !.pc = pc, !.outcome = o, !.formed = formed]]
          /\ \/ pc = "load"
             \/ o.cohort = C /\ (o.status = "released" => ThresholdReasons(C) = {})
    <3>1. CASE Count(s)
      <4>1. CASE sess' = [sess EXCEPT ![s].pc = "load"]
        <5>1. sess' = [sess EXCEPT ![s] = [sess[s] EXCEPT !.pc = "load", !.outcome = sess[s].outcome,
                                                         !.formed = sess[s].formed]]
          BY <1>0, <2>0, <4>1 DEF Request
        <5>. QED
          BY <5>1
      <4>2. CASE \E o : /\ sess' = [sess EXCEPT ![s].pc = "own", ![s].outcome = o]
                        /\ o.cohort = C /\ o.status # "released"
        <5>1. PICK o : /\ sess' = [sess EXCEPT ![s].pc = "own", ![s].outcome = o]
                       /\ o.cohort = C /\ o.status # "released"
          BY <4>2
        <5>2. sess' = [sess EXCEPT ![s] = [sess[s] EXCEPT !.pc = "own", !.outcome = o,
                                                         !.formed = sess[s].formed]]
          BY <1>0, <2>0, <5>1 DEF Request
        <5>. QED
          BY <5>1, <5>2
      <4>3. PICK none, large :
              /\ none = [NoOutcome EXCEPT !.reasons = {"no_cooperative_evidence"}]
              /\ large = Suppressed(C, {"cohort_too_large"})
        OBVIOUS
      <4>4. /\ none.cohort = {} /\ none.status # "released"
            /\ large.cohort = C /\ large.status # "released"
        BY <4>3 DEF NoOutcome, Suppressed
      <4>5. \/ C = {} /\ sess' = [sess EXCEPT ![s].pc = "own", ![s].outcome = none]
            \/ sess' = [sess EXCEPT ![s].pc = "own", ![s].outcome = large]
            \/ sess' = [sess EXCEPT ![s].pc = "load"]
        BY <2>1, <3>1, <4>3 DEF Count
      <4>. QED
        BY <4>1, <4>2, <4>4, <4>5
    <3>2. CASE Load(s)
      <4>1. PICK o : o = IF ThresholdReasons(C) # {} THEN Suppressed(C, ThresholdReasons(C))
                         ELSE [status |-> "released", reasons |-> {}, cohort |-> C, limited |-> FALSE]
        OBVIOUS
      <4>2. o.cohort = C /\ (o.status = "released" => ThresholdReasons(C) = {})
        BY <4>1 DEF Suppressed
      <4>3. PICK pc : pc = IF ThresholdReasons(C) = {} /\ sess[s].query.pin # None
                           THEN "pin" ELSE "own"
        OBVIOUS
      <4>4. sess' = [sess EXCEPT ![s].formed = TRUE, ![s].outcome = o, ![s].pc = pc]
        BY <2>1, <3>2, <4>1, <4>3 DEF Load
      <4>5. sess' = [sess EXCEPT ![s] = [sess[s] EXCEPT !.pc = pc, !.outcome = o, !.formed = TRUE]]
        BY <1>0, <2>0, <4>4 DEF Request
      <4>. QED
        BY <4>2, <4>5
    <3>. QED
      BY <1>4, <3>1, <3>2
  <2>3. PICK r : r = [sess[s] EXCEPT !.pc = pc, !.outcome = o, !.formed = formed]
    OBVIOUS
  <2>4. /\ r.pc = pc /\ r.outcome = o /\ r.query = sess[s].query /\ r.rev = sess[s].rev
        /\ r.hit = sess[s].hit
    BY <2>0, <2>3 DEF Request
  <2>5. Truthful(r.query, r.rev, C)
    BY <2>1, <2>4 DEF Truthful
  <2>6. Sound(r)
    BY <2>0, <2>2, <2>4, <2>5 DEF Sound, Answering
  <2>. QED
    BY <1>0, <2>0, <2>2, <2>3, <2>6, RequestKeepsAnswers
<1>5. CASE CheckPin(s) \/ OwnEvidence(s)
  <2>0. /\ sess[s] \in Request /\ Sound(sess[s]) /\ sess[s].pc \in Answering
        /\ sess[s].outcome \in Outcome
        /\ UNCHANGED <<evidence, releases, receipts, cache>>
    BY <1>2, <1>5 DEF CheckPin, OwnEvidence, At, answers, Answering
  <2>1. PICK r : /\ sess' = [sess EXCEPT ![s] = r] /\ r.pc \in Answering
                 /\ r.query = sess[s].query /\ r.rev = sess[s].rev /\ r.hit = sess[s].hit
                 /\ r.outcome.cohort = sess[s].outcome.cohort
                 /\ r.outcome.status = sess[s].outcome.status
    <3>1. CASE CheckPin(s)
      <4>1. PICK b : b = ~Reproduces(sess[s].query, sess[s].rev, sess[s].outcome.cohort)
        OBVIOUS
      <4>2. PICK r : r = [sess[s] EXCEPT !.pc = "own",
                                         !.outcome = [sess[s].outcome EXCEPT !.limited = b]]
        OBVIOUS
      <4>3. sess' = [sess EXCEPT ![s].pc = "own", ![s].outcome.limited = b]
        BY <3>1, <4>1 DEF CheckPin
      <4>4. sess' = [sess EXCEPT ![s] = r]
        BY <1>0, <2>0, <4>2, <4>3 DEF Request
      <4>5. /\ r.pc = "own" /\ r.query = sess[s].query /\ r.rev = sess[s].rev
            /\ r.hit = sess[s].hit /\ r.outcome = [sess[s].outcome EXCEPT !.limited = b]
        BY <2>0, <4>2 DEF Request
      <4>6. r.outcome.cohort = sess[s].outcome.cohort /\ r.outcome.status = sess[s].outcome.status
        BY <2>0, <4>5 DEF Outcome
      <4>. QED
        BY <4>4, <4>5, <4>6 DEF Answering
    <3>2. CASE OwnEvidence(s)
      <4>1. PICK ids, next : /\ ids = IF sess[s].formed THEN {x.id : x \in OwnCompatible(s)} ELSE {}
                             /\ next = IF Releasing(s) THEN "lock" ELSE "commit"
        OBVIOUS
      <4>2. PICK r : r = [sess[s] EXCEPT !.own = ids, !.pc = next]
        OBVIOUS
      <4>3. sess' = [sess EXCEPT ![s] = r]
        BY <1>0, <3>2, <4>1, <4>2 DEF OwnEvidence
      <4>4. /\ r.pc = next /\ r.query = sess[s].query /\ r.rev = sess[s].rev
            /\ r.hit = sess[s].hit /\ r.outcome = sess[s].outcome
        BY <2>0, <4>2 DEF Request
      <4>. QED
        BY <4>1, <4>3, <4>4 DEF Answering
    <3>. QED
      BY <1>5, <3>1, <3>2
  <2>2. Sound(r)
    BY <2>0, <2>1 DEF Sound
  <2>. QED
    BY <1>0, <2>0, <2>1, <2>2, RequestKeepsAnswers
<1>. QED
  BY <1>1, <1>3, <1>4, <1>5

\* The decision suppresses a release or leaves the answer as it is.
LEMMA DecideKeepsAnswers ==
  ASSUME AInv, NEW s \in Session, DecideRelease(s)
  PROVE  AInv'
<1>0. RInv' /\ Typed /\ sess \in [Session -> Request \union {None}]
  BY DecideStep DEF AInv, RInv, Typed
<1>1. /\ sess[s] \in Request /\ Sound(sess[s]) /\ sess[s].pc = "lock"
      /\ UNCHANGED <<evidence, releases, receipts, cache>>
  BY <1>0, RequestFields DEF AInv, DecideRelease, At, answers
<1>2. PICK C, o : /\ C = sess[s].outcome.cohort
                  /\ o \in {Suppressed(C, {"differencing"}), sess[s].outcome}
                  /\ sess' = [sess EXCEPT ![s].pc = "commit", ![s].outcome = o]
  <2>1. \/ sess' = [sess EXCEPT ![s].pc = "commit",
                     ![s].outcome = Suppressed(sess[s].outcome.cohort, {"differencing"})]
        \/ sess' = [sess EXCEPT ![s].pc = "commit", ![s].outcome = sess[s].outcome]
    BY <1>0 DEF DecideRelease
  <2>. QED
    BY <2>1
<1>3. PICK r : r = [sess[s] EXCEPT !.pc = "commit", !.outcome = o]
  OBVIOUS
<1>4. sess' = [sess EXCEPT ![s] = r]
  BY <1>0, <1>1, <1>2, <1>3 DEF Request
<1>5. /\ r.pc = "commit" /\ r.outcome = o /\ r.query = sess[s].query /\ r.rev = sess[s].rev
      /\ r.hit = sess[s].hit
  BY <1>1, <1>3 DEF Request
<1>6. o.cohort = C /\ (o.status = "released" => o = sess[s].outcome)
  BY <1>2 DEF Suppressed
<1>7. Sound(r)
  BY <1>1, <1>2, <1>5, <1>6 DEF Sound, Answering
<1>. QED
  BY <1>0, <1>1, <1>4, <1>7, RequestKeepsAnswers

\* The commit writes down what the request has; what it releases is recorded
\* with it.
LEMMA CommitKeepsAnswers ==
  ASSUME AInv, NEW s \in Session, Commit(s)
  PROVE  AInv'
<1>0. RInv' /\ Typed /\ sess \in [Session -> Request \union {None}]
  BY CommitStep DEF AInv, RInv, Typed
<1>1. PICK k, n, o : k = sess[s].query /\ n = sess[s].rev /\ o = sess[s].outcome
  OBVIOUS
<1>2. /\ sess[s] \in Request /\ Sound(sess[s]) /\ sess[s].pc = "commit"
      /\ k \in Query /\ n \in Nat
  BY <1>0, <1>1, RequestFields DEF AInv, Commit, At, Request
<1>3. /\ UNCHANGED <<revision, latest, rows, withdrawn>>
      /\ \E own : receipts' = receipts \union {[query |-> k, rev |-> n, outcome |-> o, own |-> own]}
      /\ cache' \in {cache, cache \union {[digest |-> Digest(k), rev |-> n, outcome |-> o]}}
      /\ Finish(s)
  BY <1>1 DEF Commit, evidence, PinnedRevision
<1>4. \A q, m, C : Truthful(q, m, C)' <=> Truthful(q, m, C)
  BY <1>3, SameEvidence
<1>5. /\ \A i \in DOMAIN releases : i \in DOMAIN releases' /\ releases'[i] = releases[i]
      /\ Releasing(s) => \E i \in DOMAIN releases' :
           releases'[i].proto = k.proto /\ releases'[i].members = OrgsOf(o.cohort)
  <2>1. PICK rel : rel = [proto |-> k.proto, filter |-> k.filter, rev |-> n,
                          members |-> OrgsOf(o.cohort), count |-> Cardinality(o.cohort)]
    OBVIOUS
  <2>2. releases' = IF Releasing(s) THEN Append(releases, rel) ELSE releases
    BY <1>1, <2>1 DEF Commit, PinnedRevision
  <2>3. PICK S : releases \in Seq(S)
    BY <1>0 DEF Typed, IsASequence
  <2>4. releases \in Seq(S \union {rel}) /\ rel \in S \union {rel}
    BY <2>3
  <2>5. /\ \A i \in DOMAIN releases : /\ i \in DOMAIN Append(releases, rel)
                                      /\ Append(releases, rel)[i] = releases[i]
        /\ Len(releases) + 1 \in DOMAIN Append(releases, rel)
        /\ Append(releases, rel)[Len(releases) + 1] = rel
    BY <2>4
  <2>6. rel.proto = k.proto /\ rel.members = OrgsOf(o.cohort)
    BY <2>1
  <2>. QED
    BY <2>2, <2>5, <2>6
<1>6. \A p, C : Known(p, C) => Known(p, C)'
  BY <1>5 DEF Known, OrgsOf
<1>7. /\ n <= revision /\ Truthful(k, n, o.cohort)
      /\ o.status = "released" => ThresholdReasons(o.cohort) = {} /\ Known(k.proto, o.cohort)'
  <2>1. Releasing(s) => Known(k.proto, o.cohort)'
    BY <1>5 DEF Known, OrgsOf
  <2>2. o.status = "released" => Releasing(s) \/ sess[s].hit
    BY <1>1 DEF Releasing
  <2>. QED
    BY <1>1, <1>2, <1>6, <2>1, <2>2 DEF Sound, Answering
<1>8. Truthful(Digest(k), n, o.cohort) /\ Digest(k).proto = k.proto
  BY <1>7 DEF Truthful, Digest, Candidates, Matches
<1>9. ASSUME NEW t \in Session, sess'[t] # None PROVE Sound(sess[t])'
  <2>1. sess'[t] = sess[t] /\ Sound(sess[t])
    BY <1>0, <1>3, <1>9 DEF AInv, Finish
  <2>2. PICK x : x = sess[t]
    OBVIOUS
  <2>3. Sound(x)'
    BY <1>3, <1>4, <1>6, <2>1, <2>2 DEF Sound, Answering
  <2>. QED
    BY <2>1, <2>2, <2>3 DEF Sound, Answering, Truthful, Known, Candidates, Matches, gone
<1>10. \A t \in Session : (sess[t] # None => Sound(sess[t]))'
  BY <1>9
<1>11. SoundCache'
  <2>. SUFFICES ASSUME NEW e \in cache'
                PROVE  /\ e.rev <= revision /\ Truthful(e.digest, e.rev, e.outcome.cohort)
                       /\ e.outcome.status = "released" =>
                            /\ ThresholdReasons(e.outcome.cohort) = {}
                            /\ Known(e.digest.proto, e.outcome.cohort)'
    BY <1>3, <1>4 DEF SoundCache
  <2>1. CASE e \in cache
    BY <1>6, <2>1 DEF AInv, SoundCache
  <2>2. CASE e = [digest |-> Digest(k), rev |-> n, outcome |-> o]
    BY <1>7, <1>8, <2>2
  <2>. QED
    BY <1>3, <2>1, <2>2
<1>12. SoundReceipts'
  <2>. SUFFICES ASSUME NEW t \in receipts'
                PROVE  /\ t.query \in Query /\ t.rev \in Nat /\ t.rev <= revision
                       /\ Truthful(t.query, t.rev, t.outcome.cohort)
                       /\ t.outcome.status = "released" => Known(t.query.proto, t.outcome.cohort)'
    BY <1>3, <1>4 DEF SoundReceipts
  <2>1. CASE t \in receipts
    BY <1>6, <2>1 DEF AInv, SoundReceipts
  <2>2. CASE \E own : t = [query |-> k, rev |-> n, outcome |-> o, own |-> own]
    BY <1>2, <1>7, <2>2
  <2>. QED
    BY <1>3, <2>1, <2>2
<1>. QED
  BY <1>0, <1>10, <1>11, <1>12 DEF AInv

\* Every step keeps the answers sound.
LEMMA NextAInv == AInv /\ [Next]_vars => AInv'
<1>. SUFFICES ASSUME AInv, [Next]_vars PROVE AInv'
  OBVIOUS
<1>1. RInv' /\ sess \in [Session -> Request \union {None}]
  BY NextRInv DEF AInv, RInv, Typed
<1>2. ASSUME NEW s \in Session, Fail(s) PROVE AInv'
  <2>1. sess' = [sess EXCEPT ![s] = None] /\ UNCHANGED <<evidence, releases, receipts, cache>>
    BY <1>2 DEF Fail, Finish, answers
  <2>. QED
    BY <1>1, <2>1, RequestKeepsAnswers
<1>3. ASSUME NEW s \in Session, Step(s) PROVE AInv'
  BY <1>2, <1>3, ReadingKeepsAnswers, DecideKeepsAnswers, CommitKeepsAnswers DEF Step
<1>4. ASSUME UNCHANGED <<revision, latest, rows, withdrawn, releases, receipts, sess>>,
             cache' \subseteq cache
      PROVE  AInv'
  <2>1. \A k, n, C : Truthful(k, n, C)' <=> Truthful(k, n, C)
    BY <1>4, SameEvidence
  <2>2. \A p, C : Known(p, C)' <=> Known(p, C)
    BY <1>4 DEF Known, OrgsOf
  <2>3. \A t \in Session : (sess[t] # None => Sound(sess[t]))'
    BY <1>4, <2>1, <2>2 DEF AInv, Sound, Answering
  <2>4. SoundCache' /\ SoundReceipts'
    BY <1>4, <2>1, <2>2 DEF AInv, SoundCache, SoundReceipts
  <2>. QED
    BY <1>1, <2>3, <2>4 DEF AInv
<1>5. ASSUME NEW j \in evictions, ApplyWithdrawal(j) PROVE AInv'
  BY <1>4, <1>5 DEF ApplyWithdrawal
<1>6. CASE UNCHANGED vars
  BY <1>4, <1>6 DEF vars
<1>. QED
  BY <1>3, <1>5, <1>6, EvidenceKeepsAnswers DEF Next

-----------------------------------------------------------------------------
\* A receipt that does not read stale was computed from exactly the candidates
\* its query has now, however queries, intake and withdrawals race.
THEOREM FreshReceiptsAreCurrent == Spec => []FreshReceiptIsCurrent
<1>1. AInv => FreshReceiptIsCurrent
  BY DEF AInv, SoundReceipts, Truthful, FreshReceiptIsCurrent, Fresh
<1>. QED
  BY <1>1, InitAInv, NextAInv, PTL DEF Spec

\* Each released receipt has a recorded release with its members, one that
\* was served from the cache included.
THEOREM ReceiptsAreRecorded == Spec => []ReleasesAreRecorded
<1>1. AInv => ReleasesAreRecorded
  BY DEF AInv, SoundReceipts, Known, ReleasesAreRecorded
<1>. QED
  BY <1>1, InitAInv, NextAInv, PTL DEF Spec

\* What the cache would serve is what would be computed and released now, and
\* no release recorded since is near it.
THEOREM CachedAnswersAreCurrent == Spec => []CacheIsCurrent
<1>1. AInv => CacheIsCurrent
  <2>. SUFFICES ASSUME AInv, NEW e \in cache, Valid(e)
                PROVE  /\ e.outcome.cohort = Candidates(e.digest, e.rev)
                       /\ e.outcome.status = "released"
                          => /\ ThresholdReasons(e.outcome.cohort) = {}
                             /\ \A i \in DOMAIN releases :
                                  releases[i].proto = e.digest.proto
                                  => ~DifferencingConflict({releases[i].members},
                                                           OrgsOf(e.outcome.cohort))
    BY DEF CacheIsCurrent
  <2>1. /\ Truthful(e.digest, e.rev, e.outcome.cohort)
        /\ e.outcome.status = "released" =>
             ThresholdReasons(e.outcome.cohort) = {} /\ Known(e.digest.proto, e.outcome.cohort)
    BY DEF AInv, SoundCache
  <2>2. e.outcome.cohort = Candidates(e.digest, e.rev)
    BY <2>1 DEF Truthful, Valid
  <2>3. ASSUME e.outcome.status = "released", NEW i \in DOMAIN releases,
               releases[i].proto = e.digest.proto
        PROVE  ~DifferencingConflict({releases[i].members}, OrgsOf(e.outcome.cohort))
    <3>1. PICK j \in DOMAIN releases : /\ releases[j].proto = e.digest.proto
                                       /\ releases[j].members = OrgsOf(e.outcome.cohort)
      BY <2>1, <2>3 DEF Known
    <3>2. ~Near(releases[i].members, releases[j].members)
      BY <2>3, <3>1 DEF AInv, RInv, FarApart
    <3>. QED
      BY <3>1, <3>2 DEF DifferencingConflict, Near
  <2>. QED
    BY <2>1, <2>2, <2>3
<1>. QED
  BY <1>1, InitAInv, NextAInv, PTL DEF Spec

-----------------------------------------------------------------------------
(***************************************************************************)
(* The evidence steps are steps of EvidenceLog, as those of the store are. *)
(***************************************************************************)

\* The rows of protocol p that a cohort may be formed from, and the cohort.
Shared(p) == {x \in rows : x.proto = p /\ x.coop /\ x.id \notin gone}
CohortNow(p) == {CohortRow(r) : r \in Shared(p)}

FInv == RInv /\ IsFiniteSet(rows)

\* The log counts as the cohort does.
LEMMA LogCounts == ASSUME NEW S PROVE Log!Cardinality(S) = Cardinality(S)
  BY DEF Log!Cardinality, Cardinality

\* An image of a finite set is no larger than the set.
LEMMA ImageSize ==
  ASSUME NEW S, IsFiniteSet(S), NEW f
  PROVE  /\ IsFiniteSet({f[x] : x \in S})
         /\ Cardinality({f[x] : x \in S}) <= Cardinality(S)
<1> DEFINE T == {f[x] : x \in S}
<1> DEFINE g == [x \in S |-> f[x]]
<1>1. g \in Surjection(S, T)
  <2>1. g \in [S -> T] /\ \A y \in T : \E x \in S : g[x] = y
    OBVIOUS
  <2> HIDE DEF g, T
  <2>. QED
    BY <2>1 DEF Surjection
<1>. QED
  BY <1>1, FS_Surjection

\* There are finitely many rows.
LEMMA NextFInv == FInv /\ [Next]_vars => FInv'
<1>. SUFFICES ASSUME FInv, [Next]_vars PROVE FInv'
  OBVIOUS
<1>1. RInv'
  BY NextRInv DEF FInv
<1>2. ASSUME NEW c \in Run, AcceptRun(c) PROVE IsFiniteSet(rows')
  <2>1. PICK b : b = \E r \in SharedWith(c) : r.id \notin gone /\ r.org # c.org
    OBVIOUS
  <2>2. PICK new : new = [id |-> c.id, org |-> c.org, proto |-> c.proto, meas |-> c.meas,
                          tags |-> c.tags, coop |-> c.coop, suspect |-> b, rev |-> revision + 1]
    OBVIOUS
  <2>3. PICK f : f = [r \in rows |-> IF b /\ r \in SharedWith(c) THEN [r EXCEPT !.suspect = TRUE]
                                     ELSE r]
    OBVIOUS
  <2>4. rows' = {f[r] : r \in rows} \union {new}
    <3>1. rows' = {IF b /\ r \in SharedWith(c) THEN [r EXCEPT !.suspect = TRUE] ELSE r : r \in rows}
                    \union {new}
      BY <1>2, <2>1, <2>2 DEF AcceptRun
    <3>2. \A r \in rows :
            f[r] = IF b /\ r \in SharedWith(c) THEN [r EXCEPT !.suspect = TRUE] ELSE r
      BY <2>3
    <3>. QED
      BY <3>1, <3>2
  <2>5. IsFiniteSet({f[r] : r \in rows})
    BY ImageSize DEF FInv
  <2>. QED
    BY <2>4, <2>5, FS_AddElement
<1>3. ASSUME NEW s \in Session, Step(s) PROVE rows' = rows
  BY <1>3 DEF Step, Ask, ReadCache, Count, Load, CheckPin, OwnEvidence, DecideRelease, Commit,
       Fail, evidence
<1>4. ASSUME NEW ids, Withdraw(ids) PROVE rows' = rows
  BY <1>4 DEF Withdraw
<1>5. ASSUME NEW j, ApplyWithdrawal(j) PROVE rows' = rows
  BY <1>5 DEF ApplyWithdrawal
<1>6. CASE UNCHANGED vars
  BY <1>1, <1>6 DEF vars, FInv
<1>. QED
  BY <1>1, <1>2, <1>3, <1>4, <1>5, <1>6 DEF Next, FInv

\* An accepted run is one Accept of its protocol.
LEMMA AcceptFollows ==
  ASSUME FInv, NEW c \in Run, AcceptRun(c)
  PROVE  Log!Next
<1>0. revision \in Nat /\ IsFiniteSet(rows) /\ \A r \in rows : r \in Row
  BY DEF FInv, RInv, Typed
<1>1. PICK p, b, new, f :
        /\ p = c.proto
        /\ b = \E r \in SharedWith(c) : r.id \notin gone /\ r.org # c.org
        /\ new = [id |-> c.id, org |-> c.org, proto |-> c.proto, meas |-> c.meas,
                  tags |-> c.tags, coop |-> c.coop, suspect |-> b, rev |-> revision + 1]
        /\ f = [r \in rows |-> IF b /\ r \in SharedWith(c) THEN [r EXCEPT !.suspect = TRUE] ELSE r]
  OBVIOUS
<1>2. /\ revision' = revision + 1 /\ gone' = gone
      /\ latest' = [q \in Proto |-> IF q \in {p} THEN revision + 1 ELSE latest[q]]
  BY <1>1 DEF AcceptRun, Bump, gone
<1>3. \A r \in rows :
        f[r] = IF b /\ r \in SharedWith(c) THEN [r EXCEPT !.suspect = TRUE] ELSE r
  BY <1>1
<1>4. rows' = {f[r] : r \in rows} \union {new}
  <2>1. rows' = {IF b /\ r \in SharedWith(c) THEN [r EXCEPT !.suspect = TRUE] ELSE r : r \in rows}
                  \union {new}
    BY <1>1 DEF AcceptRun
  <2>. QED
    BY <1>3, <2>1
<1>5. \A r \in rows : /\ f[r].id = r.id /\ f[r].org = r.org /\ f[r].proto = r.proto
                      /\ f[r].meas = r.meas /\ f[r].coop = r.coop /\ f[r].rev = r.rev
                      /\ f[r].suspect = (IF b /\ r \in SharedWith(c) THEN TRUE ELSE r.suspect)
                      /\ r \notin SharedWith(c) => f[r] = r
  BY <1>0, <1>3 DEF Row
<1>6. new.proto = p /\ new.rev = revision + 1
  BY <1>1
<1>7. p \in Proto
  BY <1>1 DEF Proto
<1>8. \A q : /\ {f[r] : r \in Shared(q)} \subseteq Shared(q)'
             /\ Shared(q)' \subseteq {f[r] : r \in Shared(q)} \union {new}
             /\ q # p => Shared(q)' = Shared(q)
  <2>. SUFFICES ASSUME NEW q
                PROVE  /\ {f[r] : r \in Shared(q)} \subseteq Shared(q)'
                       /\ Shared(q)' \subseteq {f[r] : r \in Shared(q)} \union {new}
                       /\ q # p => Shared(q)' = Shared(q)
    OBVIOUS
  <2>0. \A x : x \in Shared(q)' <=> x \in rows' /\ x.proto = q /\ x.coop /\ x.id \notin gone
    BY <1>2 DEF Shared
  <2>1. ASSUME NEW r \in Shared(q) PROVE f[r] \in Shared(q)'
    <3>1. r \in rows /\ r.proto = q /\ r.coop /\ r.id \notin gone
      BY DEF Shared
    <3>2. f[r] \in rows'
      BY <1>4, <3>1
    <3>. QED
      BY <1>5, <2>0, <3>1, <3>2
  <2>2. ASSUME NEW x \in Shared(q)', x # new PROVE \E r \in Shared(q) : x = f[r]
    <3>1. PICK r \in rows : x = f[r]
      BY <1>4, <2>0, <2>2
    <3>2. x.proto = q /\ x.coop /\ x.id \notin gone
      BY <2>0, <2>2
    <3>3. r.proto = q /\ r.coop /\ r.id \notin gone
      BY <1>5, <3>1, <3>2
    <3>. QED
      BY <3>1, <3>3 DEF Shared
  <2>3. ASSUME q # p PROVE Shared(q)' = Shared(q)
    <3>1. \A r \in Shared(q) : f[r] = r
      BY <1>1, <1>5, <2>3 DEF Shared, SharedWith
    <3>2. \A x \in Shared(q)' : x # new
      BY <1>6, <2>3 DEF Shared
    <3>. QED
      BY <2>1, <2>2, <3>1, <3>2
  <2>. QED
    BY <2>1, <2>2, <2>3
<1>9. PICK K, L : K = CohortNow(p) /\ L = CohortNow(p)'
  OBVIOUS
<1>10. /\ K = {CohortRow(r) : r \in Shared(p)}
       /\ L = {CohortRow(r) : r \in Shared(p)'}
  BY <1>9 DEF CohortNow, CohortRow
<1>11. Log!Touch({p})
  <2>1. \A q \in Proto \ {p} : CohortNow(q)' = CohortNow(q)
    BY <1>8 DEF CohortNow, CohortRow
  <2>. QED
    BY <1>2, <2>1 DEF Log!Touch, CohortNow, Shared
<1>12. Log!Ids(K) \subseteq Log!Ids(L)
  <2>1. \A r \in Shared(p) : /\ CohortRow(f[r]) \in L
                             /\ CohortRow(f[r]).id = CohortRow(r).id
                             /\ CohortRow(f[r]).org = CohortRow(r).org
                             /\ CohortRow(f[r]).meas = CohortRow(r).meas
                             /\ CohortRow(f[r]).rev = CohortRow(r).rev
    <3>1. \A r \in Shared(p) : r \in rows /\ f[r] \in Shared(p)'
      BY <1>8 DEF Shared
    <3>. QED
      BY <1>5, <1>10, <3>1 DEF CohortRow
  <2>. QED
    BY <1>10, <2>1 DEF Log!Ids
<1>13. \A e \in L : e.rev = revision + 1 \/ <<e.id, e.org, e.meas, e.rev>> \in Log!Ids(K)
  <2>. SUFFICES ASSUME NEW x \in Shared(p)'
                PROVE  LET e == CohortRow(x) IN
                       e.rev = revision + 1 \/ <<e.id, e.org, e.meas, e.rev>> \in Log!Ids(K)
    BY <1>10
  <2>1. CASE x = new
    BY <1>6, <2>1 DEF CohortRow
  <2>2. CASE x # new
    <3>1. PICK r \in Shared(p) : x = f[r]
      BY <1>8, <2>2
    <3>2. CohortRow(r) \in K
      BY <1>10
    <3>3. <<CohortRow(r).id, CohortRow(r).org, CohortRow(r).meas, CohortRow(r).rev>> \in Log!Ids(K)
      BY <3>2 DEF Log!Ids
    <3>. QED
      BY <1>5, <3>1, <3>3 DEF CohortRow, Shared
  <2>. QED
    BY <2>1, <2>2
<1>14. Cardinality(L) <= Cardinality(K) + 1
  <2>1. PICK h : h = [e \in K |-> [id |-> e.id, org |-> e.org, meas |-> e.meas,
                                   suspect |-> IF b /\ e.meas = c.meas THEN TRUE ELSE e.suspect,
                                   rev |-> e.rev]]
    OBVIOUS
  <2>2. \A r \in Shared(p) : CohortRow(f[r]) = h[CohortRow(r)]
    <3>. SUFFICES ASSUME NEW r \in Shared(p) PROVE CohortRow(f[r]) = h[CohortRow(r)]
      OBVIOUS
    <3>1. r \in rows /\ r.proto = c.proto /\ (r \in SharedWith(c) <=> r.meas = c.meas)
      BY <1>1 DEF Shared, SharedWith
    <3>2. CohortRow(r) \in K
      BY <1>10
    <3>. QED
      BY <1>5, <2>1, <3>1, <3>2 DEF CohortRow
  <2>3. IsFiniteSet(K)
    <3>1. IsFiniteSet(Shared(p))
      BY <1>0, FS_Subset DEF Shared
    <3>2. PICK g : g = [r \in Shared(p) |-> CohortRow(r)]
      OBVIOUS
    <3>3. K = {g[r] : r \in Shared(p)}
      BY <1>10, <3>2
    <3>. QED
      BY <3>1, <3>3, ImageSize
  <2>4. PICK U, T : U = {h[e] : e \in K} /\ T = U \union {CohortRow(new)}
    OBVIOUS
  <2>5. L \subseteq T
    BY <1>8, <1>10, <2>2, <2>4
  <2>6. IsFiniteSet(U) /\ Cardinality(U) <= Cardinality(K)
    BY <2>3, <2>4, ImageSize
  <2>7. IsFiniteSet(T) /\ Cardinality(T) \in {Cardinality(U), Cardinality(U) + 1}
    BY <2>4, <2>6, FS_AddElement
  <2>8. IsFiniteSet(L) /\ Cardinality(L) <= Cardinality(T)
    BY <2>5, <2>7, FS_Subset
  <2>9. /\ Cardinality(K) \in Nat /\ Cardinality(U) \in Nat
        /\ Cardinality(T) \in Nat /\ Cardinality(L) \in Nat
    BY <2>3, <2>6, <2>7, <2>8, FS_CardinalityType
  <2>. QED
    BY <2>6, <2>7, <2>8, <2>9
<1>15. Log!Accept(p)
  <2>1. Log!Cardinality(L) <= Log!Cardinality(K) + 1
    BY <1>14, LogCounts
  <2>2. /\ [q \in Proto |-> CohortNow(q)][p] = K
        /\ [q \in Proto |-> CohortNow(q)]'[p] = L
    BY <1>7, <1>9
  <2>3. /\ [q \in Proto |-> {CohortRow(r) : r \in {x \in rows : x.proto = q /\ x.coop
                                                       /\ x.id \notin gone}}][p] = K
        /\ [q \in Proto |-> {CohortRow(r) : r \in {x \in rows : x.proto = q /\ x.coop
                                                       /\ x.id \notin gone}}]'[p] = L
    BY <2>2 DEF CohortNow, Shared
  <2>. QED
    BY <1>11, <1>12, <1>13, <2>1, <2>3 DEF Log!Accept
<1>. QED
  BY <1>7, <1>15 DEF Log!Next

\* A withdrawal is one Withdraw of the protocols of its runs.
LEMMA WithdrawFollows ==
  ASSUME FInv, NEW ids \in Withdrawal, Withdraw(ids)
  PROVE  Log!Next
<1>1. PICK P : P = {r.proto : r \in {x \in rows : x.id \in ids}}
  OBVIOUS
<1>2. /\ revision' = revision + 1 /\ rows' = rows /\ gone' = gone \union ids
      /\ latest' = [q \in Proto |-> IF q \in P THEN revision + 1 ELSE latest[q]]
      /\ ids \subseteq {r.id : r \in rows} /\ ids # {}
  BY <1>1, QueryAssumption DEF Withdraw, Bump, gone, QueryAssumption
<1>3. P \in (SUBSET Proto) \ {{}}
  BY <1>1, <1>2 DEF FInv, RInv, Typed, Row
<1>4. \A q : /\ CohortNow(q)' \subseteq CohortNow(q)
             /\ q \notin P => CohortNow(q)' = CohortNow(q)
  <2>1. \A q : /\ Shared(q)' \subseteq Shared(q)
               /\ q \notin P => Shared(q)' = Shared(q)
    BY <1>1, <1>2 DEF Shared
  <2>. QED
    BY <2>1 DEF CohortNow, CohortRow
<1>5. Log!Touch(P)
  BY <1>2, <1>4 DEF Log!Touch, CohortNow, Shared
<1>6. Log!Withdraw(P)
  BY <1>3, <1>4, <1>5 DEF Log!Withdraw, CohortNow, Shared
<1>. QED
  BY <1>3, <1>6 DEF Log!Next

\* Every step of the reader's evidence is a step of the log: what the store is
\* shown to write is what the queries are shown to read.
THEOREM ReaderFollowsLog == Spec => ReadsTheLog
<1>1. Init => FInv
  BY InitRInv, QueryAssumption DEF Init, FInv, QueryAssumption
<1>2. FInv /\ [Next]_vars => [Log!Next]_Log!logVars
  <2>. SUFFICES ASSUME FInv, [Next]_vars PROVE [Log!Next]_Log!logVars
    OBVIOUS
  <2>1. ASSUME UNCHANGED <<revision, latest, rows, withdrawn>> PROVE UNCHANGED Log!logVars
    BY <2>1 DEF Log!logVars, gone, CohortRow
  <2>2. ASSUME NEW s \in Session, Step(s) PROVE UNCHANGED <<revision, latest, rows, withdrawn>>
    BY <2>2 DEF Step, Ask, ReadCache, Count, Load, CheckPin, OwnEvidence, DecideRelease, Commit,
         Fail, evidence
  <2>3. ASSUME NEW j, ApplyWithdrawal(j) PROVE UNCHANGED <<revision, latest, rows, withdrawn>>
    BY <2>3 DEF ApplyWithdrawal
  <2>4. CASE UNCHANGED vars
    BY <2>1, <2>4 DEF vars
  <2>. QED
    BY <2>1, <2>2, <2>3, <2>4, AcceptFollows, WithdrawFollows DEF Next
<1>. QED
  BY <1>1, <1>2, NextFInv, PTL DEF Spec, ReadsTheLog


-----------------------------------------------------------------------------
(* What a cohort is worth. *)

\* A set of organizations that no shared source leaves.
Closed(C, S) == S \in SUBSET OrgsOf(C) /\ \A l \in SharedSourceOf(C) : l[1] \in S <=> l[2] \in S

LEMMA ContributorIsLeast ==
  ASSUME NEW C, NEW o \in OrgsOf(C)
  PROVE  /\ o \in Contributor(C, o) /\ Closed(C, Contributor(C, o))
         /\ \A S : Closed(C, S) /\ o \in S => Contributor(C, o) \subseteq S
<1>1. \A S : Closed(C, S) /\ o \in S => Contributor(C, o) \subseteq S
  BY DEF Closed, Contributor
<1>2. o \in Contributor(C, o)
  BY DEF Contributor
<1>3. \A l \in SharedSourceOf(C) : l[1] \in OrgsOf(C) /\ l[2] \in OrgsOf(C)
  BY DEF SharedSourceOf
<1>4. ASSUME NEW l \in SharedSourceOf(C) PROVE l[1] \in Contributor(C, o) <=> l[2] \in Contributor(C, o)
  BY <1>3 DEF Contributor
<1>. QED
  BY <1>1, <1>2, <1>4 DEF Closed, Contributor

LEMMA ContributorsAgree ==
  ASSUME NEW C, NEW o \in OrgsOf(C), NEW p \in Contributor(C, o)
  PROVE  p \in OrgsOf(C) /\ Contributor(C, p) = Contributor(C, o)
<1>1. p \in OrgsOf(C)
  BY DEF Contributor
<1>2. Contributor(C, p) \subseteq Contributor(C, o)
  BY <1>1, ContributorIsLeast
<1>3. o \in Contributor(C, p)
  <2>. DEFINE rest == OrgsOf(C) \ Contributor(C, p)
  <2>1. \A l \in SharedSourceOf(C) : l[1] \in OrgsOf(C) /\ l[2] \in OrgsOf(C)
    BY DEF SharedSourceOf
  <2>2. Closed(C, Contributor(C, p)) /\ p \in Contributor(C, p)
    BY <1>1, ContributorIsLeast
  <2>3. Closed(C, rest)
    BY <2>1, <2>2 DEF Closed
  <2>4. o \in rest => p \in rest
    BY <2>3, ContributorIsLeast
  <2>. QED
    BY <2>2, <2>4
<1>4. Contributor(C, o) \subseteq Contributor(C, p)
  BY <1>1, <1>3, ContributorIsLeast
<1>. QED
  BY <1>1, <1>2, <1>4

\* The contributors share out the organizations of a cohort: each is of one, and
\* two that stand behind one flagged measurement are of the same.
THEOREM ContributorsPartition ==
  ASSUME NEW C
  PROVE  /\ UNION Contributors(C) = OrgsOf(C) /\ {} \notin Contributors(C)
         /\ \A u, w \in Contributors(C) : u = w \/ u \cap w = {}
         /\ \A l \in SharedSourceOf(C) : Contributor(C, l[1]) = Contributor(C, l[2])
<1>1. \A o \in OrgsOf(C) : o \in Contributor(C, o) /\ Contributor(C, o) \subseteq OrgsOf(C)
  BY ContributorIsLeast DEF Closed
<1>2. UNION Contributors(C) = OrgsOf(C) /\ {} \notin Contributors(C)
  BY <1>1 DEF Contributors
<1>3. ASSUME NEW o \in OrgsOf(C), NEW q \in OrgsOf(C),
             NEW p, p \in Contributor(C, o), p \in Contributor(C, q)
      PROVE  Contributor(C, o) = Contributor(C, q)
  BY <1>3, ContributorsAgree
<1>4. \A u, w \in Contributors(C) : u = w \/ u \cap w = {}
  BY <1>3 DEF Contributors
<1>5. ASSUME NEW l \in SharedSourceOf(C) PROVE Contributor(C, l[1]) = Contributor(C, l[2])
  <2>1. l[1] \in OrgsOf(C) /\ l[2] \in OrgsOf(C)
    BY DEF SharedSourceOf
  <2>2. l[2] \in Contributor(C, l[1])
    BY <2>1, ContributorIsLeast DEF Closed
  <2>. QED
    BY <2>1, <2>2, ContributorsAgree
<1>. QED
  BY <1>2, <1>4, <1>5

\* A cohort that thresholdReasons lets pass has MinOrgs organizations however they
\* are merged, and keeps half of its runs without any one contributor.
THEOREM QualifiedCohorts ==
  ASSUME NEW C, IsFiniteSet(C), ThresholdReasons(C) = {}
  PROVE  /\ Cardinality(C) >= MinRuns /\ Cardinality(OrgsOf(C)) >= MinOrgs
         /\ \A u \in Contributors(C) : 2 * Cardinality({r \in C : r.org \notin u}) >= Cardinality(C)
<1>1. /\ ~ (Cardinality(Contributors(C)) < MinOrgs) /\ ~ (Cardinality(C) < MinRuns)
      /\ \A u \in Contributors(C) : ~ (2 * RunsOf(C, u) > Cardinality(C))
  BY DEF ThresholdReasons
<1>2. MinOrgs \in Nat /\ MinRuns \in Nat
  BY CohortAssumption
<1>3. Cardinality(C) \in Nat
  BY FS_CardinalityType
<1>4. IsFiniteSet(OrgsOf(C)) /\ Cardinality(OrgsOf(C)) \in Nat
  <2>. DEFINE f == [r \in C |-> r.org]
  <2>1. f \in Surjection(C, OrgsOf(C))
    BY DEF OrgsOf, Surjection
  <2>. QED
    BY <2>1, FS_Surjection, FS_CardinalityType
<1>5. Cardinality(Contributors(C)) \in Nat /\ Cardinality(Contributors(C)) <= Cardinality(OrgsOf(C))
  <2>. DEFINE f == [o \in OrgsOf(C) |-> Contributor(C, o)]
  <2>1. f \in Surjection(OrgsOf(C), Contributors(C))
    BY DEF Contributors, Surjection
  <2>. QED
    BY <1>4, <2>1, FS_Surjection, FS_CardinalityType
<1>6. Cardinality(C) >= MinRuns /\ Cardinality(OrgsOf(C)) >= MinOrgs
  BY <1>1, <1>2, <1>3, <1>4, <1>5
<1>7. ASSUME NEW u \in Contributors(C)
      PROVE  2 * Cardinality({r \in C : r.org \notin u}) >= Cardinality(C)
  <2>. DEFINE A == {r \in C : r.org \in u}
              B == {r \in C : r.org \notin u}
  <2>1. B = C \ A /\ C \cap A = A /\ A \in SUBSET C
    OBVIOUS
  <2>2. RunsOf(C, u) = Cardinality(A)
    BY DEF RunsOf
  <2>. HIDE DEF A, B
  <2>3. IsFiniteSet(A) /\ Cardinality(A) \in Nat
    BY <2>1, FS_Subset, FS_CardinalityType
  <2>4. Cardinality(C \ A) = Cardinality(C) - Cardinality(C \cap A)
    BY FS_Difference
  <2>5. Cardinality(B) = Cardinality(C) - Cardinality(A)
    BY <2>1, <2>4
  <2>6. ~ (2 * Cardinality(A) > Cardinality(C))
    BY <1>1, <2>2
  <2>7. 2 * Cardinality(B) >= Cardinality(C)
    BY <1>3, <2>3, <2>5, <2>6
  <2>. QED
    BY <2>7 DEF B
<1>. QED
  BY <1>6, <1>7

-----------------------------------------------------------------------------
(* Nothing is released of a cohort that does not qualify, from whatever step *)
(* or cache row the answer comes.                                            *)

Qualified(o) == o.status = "released" => IsFiniteSet(o.cohort) /\ ThresholdReasons(o.cohort) = {}

QInv ==
  /\ FInv
  /\ \A s \in Session : sess[s] # None => Qualified(sess[s].outcome)
  /\ \A e \in cache : Qualified(e.outcome)
  /\ \A t \in receipts : Qualified(t.outcome)

LEMMA InitQInv == Init => QInv
  BY InitRInv, QueryAssumption DEF Init, QInv, FInv, QueryAssumption

\* What a request has of an answer after a step of it.
LEMMA StepQualifies ==
  ASSUME QInv, NEW s \in Session, Step(s), sess'[s] # None
  PROVE  Qualified(sess'[s].outcome)
<1>0. Typed /\ sess \in [Session -> Request \union {None}] /\ IsFiniteSet(rows)
  BY DEF QInv, FInv, RInv, Typed
<1>1. CASE \E k \in Query : Ask(s, k)
  <2>1. sess'[s].outcome = NoOutcome
    BY <1>0, <1>1 DEF Ask
  <2>. QED
    BY <2>1 DEF Qualified, NoOutcome
<1>2. ASSUME sess[s] # None
      PROVE  sess[s] \in Request /\ sess[s].outcome \in Outcome /\ Qualified(sess[s].outcome)
  BY <1>0, <1>2, RequestFields DEF QInv
<1>3. CASE ReadCache(s)
  <2>1. sess[s] \in Request /\ Qualified(sess[s].outcome)
    BY <1>2, <1>3 DEF ReadCache, At
  <2>2. \/ \E e \in cache : sess'[s].outcome = e.outcome
        \/ sess'[s].outcome = sess[s].outcome
    <3>1. CASE \E e \in cache : sess' = [sess EXCEPT ![s].pc = "own", ![s].outcome = e.outcome,
                                                    ![s].formed = TRUE, ![s].hit = TRUE]
      <4>1. PICK e \in cache : sess' = [sess EXCEPT ![s].pc = "own", ![s].outcome = e.outcome,
                                                   ![s].formed = TRUE, ![s].hit = TRUE]
        BY <3>1
      <4>2. PICK o : o = e.outcome
        OBVIOUS
      <4>3. sess'[s].outcome = o
        BY <1>0, <2>1, <4>1, <4>2 DEF Request
      <4>. QED
        BY <4>2, <4>3
    <3>2. CASE sess' = [sess EXCEPT ![s].pc = "count"]
      BY <1>0, <2>1, <3>2 DEF Request
    <3>. QED
      BY <1>3, <3>1, <3>2 DEF ReadCache
  <2>. QED
    BY <2>1, <2>2 DEF QInv
<1>4. CASE Count(s)
  <2>1. sess[s] \in Request /\ Qualified(sess[s].outcome)
    BY <1>2, <1>4 DEF Count, At
  <2>2. PICK C, none : /\ C = Candidates(sess[s].query, sess[s].rev)
                       /\ none = [NoOutcome EXCEPT !.reasons = {"no_cooperative_evidence"}]
    OBVIOUS
  <2>3. \/ sess'[s].outcome = none
        \/ sess'[s].outcome = Suppressed(C, {"cohort_too_large"})
        \/ sess'[s].outcome = sess[s].outcome
    BY <1>0, <1>4, <2>1, <2>2 DEF Count, Request
  <2>4. none.status # "released"
    BY <2>2 DEF NoOutcome
  <2>. QED
    BY <2>1, <2>3, <2>4 DEF Qualified, Suppressed
<1>5. CASE Load(s)
  <2>1. sess[s] \in Request
    BY <1>2, <1>5 DEF Load, At
  <2>2. PICK C, o : /\ C = Candidates(sess[s].query, sess[s].rev)
                    /\ o = IF ThresholdReasons(C) # {} THEN Suppressed(C, ThresholdReasons(C))
                           ELSE [status |-> "released", reasons |-> {}, cohort |-> C, limited |-> FALSE]
    OBVIOUS
  <2>3. PICK pc : sess' = [sess EXCEPT ![s].formed = TRUE, ![s].outcome = o, ![s].pc = pc]
    BY <1>5, <2>2 DEF Load
  <2>4. sess'[s].outcome = o
    BY <1>0, <2>1, <2>3 DEF Request
  <2>5. IsFiniteSet(C)
    BY <1>0, <2>2, FS_Subset DEF Candidates
  <2>. QED
    BY <2>2, <2>4, <2>5 DEF Qualified, Suppressed
<1>6. CASE CheckPin(s)
  <2>1. sess[s] \in Request /\ Qualified(sess[s].outcome) /\ sess[s].outcome \in Outcome
    BY <1>2, <1>6 DEF CheckPin, At
  <2>2. PICK b : sess' = [sess EXCEPT ![s].pc = "own", ![s].outcome.limited = b]
    BY <1>6 DEF CheckPin
  <2>3. sess'[s].outcome = [sess[s].outcome EXCEPT !.limited = b]
    BY <1>0, <2>1, <2>2 DEF Request
  <2>. QED
    BY <2>1, <2>3 DEF Qualified, Outcome
<1>7. CASE OwnEvidence(s)
  <2>1. sess[s] \in Request /\ Qualified(sess[s].outcome)
    BY <1>2, <1>7 DEF OwnEvidence, At
  <2>2. sess'[s].outcome = sess[s].outcome
    BY <1>0, <1>7, <2>1 DEF OwnEvidence, Request
  <2>. QED
    BY <2>1, <2>2
<1>8. CASE DecideRelease(s)
  <2>1. sess[s] \in Request /\ Qualified(sess[s].outcome)
    BY <1>2, <1>8 DEF DecideRelease, At
  <2>2. \/ sess'[s].outcome = Suppressed(sess[s].outcome.cohort, {"differencing"})
        \/ sess'[s].outcome = sess[s].outcome
    BY <1>0, <1>8, <2>1 DEF DecideRelease, Request
  <2>. QED
    BY <2>1, <2>2 DEF Qualified, Suppressed
<1>9. CASE Commit(s) \/ Fail(s)
  BY <1>0, <1>9 DEF Commit, Fail, Finish
<1>. QED
  BY <1>1, <1>3, <1>4, <1>5, <1>6, <1>7, <1>8, <1>9 DEF Step

\* What is written down is what the request had.
LEMMA NextQInv == QInv /\ [Next]_vars => QInv'
<1>. SUFFICES ASSUME QInv, [Next]_vars PROVE QInv'
  OBVIOUS
<1>0. FInv' /\ sess \in [Session -> Request \union {None}]
  BY NextFInv DEF QInv, FInv, RInv, Typed
<1>1. ASSUME NEW s \in Session, Step(s) PROVE QInv'
  <2>1. \A t \in Session \ {s} : sess'[t] = sess[t]
    BY <1>0, <1>1
    DEF Step, Ask, ReadCache, Count, Load, CheckPin, OwnEvidence, DecideRelease, Commit, Fail, Finish
  <2>2. \A t \in Session : sess'[t] # None => Qualified(sess'[t].outcome)
    BY <1>1, <2>1, StepQualifies DEF QInv
  <2>3. /\ \A e \in cache' : e \in cache \/ (sess[s] # None /\ e.outcome = sess[s].outcome)
        /\ \A t \in receipts' : t \in receipts \/ (sess[s] # None /\ t.outcome = sess[s].outcome)
    <3>1. CASE Commit(s)
      <4>1. PICK o : o = sess[s].outcome
        OBVIOUS
      <4>2. sess[s] # None
        BY <3>1 DEF Commit, At
      <4>3. \A e \in cache' : e \in cache \/ e.outcome = o
        BY <3>1, <4>1 DEF Commit
      <4>4. \A t \in receipts' : t \in receipts \/ t.outcome = o
        BY <3>1, <4>1 DEF Commit
      <4>. QED
        BY <4>1, <4>2, <4>3, <4>4
    <3>2. CASE ~ Commit(s)
      <4>1. receipts' = receipts /\ cache' \subseteq cache
        BY <1>1, <3>2
        DEF Step, Ask, ReadCache, Count, Load, CheckPin, OwnEvidence, DecideRelease, Fail, answers
      <4>. QED
        BY <4>1
    <3>. QED
      BY <3>1, <3>2
  <2>4. /\ \A e \in cache' : Qualified(e.outcome)
        /\ \A t \in receipts' : Qualified(t.outcome)
    BY <2>3 DEF QInv
  <2>. QED
    BY <1>0, <2>2, <2>4 DEF QInv, Qualified
<1>2. ASSUME sess' = sess, receipts' = receipts, cache' \subseteq cache PROVE QInv'
  <2>1. /\ \A s \in Session : sess'[s] # None => Qualified(sess'[s].outcome)
        /\ \A e \in cache' : Qualified(e.outcome)
        /\ \A t \in receipts' : Qualified(t.outcome)
    BY <1>2 DEF QInv
  <2>. QED
    BY <1>0, <2>1 DEF QInv, Qualified
<1>3. ASSUME \/ \E c \in Run : AcceptRun(c)
             \/ \E ids \in Withdrawal : Withdraw(ids)
             \/ \E j \in evictions : ApplyWithdrawal(j)
             \/ UNCHANGED vars
      PROVE  sess' = sess /\ receipts' = receipts /\ cache' \subseteq cache
  BY <1>3 DEF AcceptRun, Withdraw, ApplyWithdrawal, vars, answers
<1>. QED
  BY <1>1, <1>2, <1>3 DEF Next

\* No answer is released of too few, or of one contributor and hardly any other.
THEOREM ReleasesAreShared == Spec => []ReleasedReceiptsQualify
<1>1. QInv => ReleasedReceiptsQualify
  <2>. SUFFICES ASSUME QInv, NEW t \in receipts, t.outcome.status = "released",
                       NEW C, C = t.outcome.cohort
                PROVE  /\ Cardinality(C) >= MinRuns /\ Cardinality(OrgsOf(C)) >= MinOrgs
                       /\ \A u \in Contributors(C) :
                            2 * Cardinality({r \in C : r.org \notin u}) >= Cardinality(C)
    BY DEF ReleasedReceiptsQualify
  <2>1. IsFiniteSet(C) /\ ThresholdReasons(C) = {}
    BY DEF QInv, Qualified
  <2>. QED
    BY <2>1, QualifiedCohorts
<1>. QED
  BY <1>1, InitQInv, NextQInv, PTL DEF Spec

-----------------------------------------------------------------------------
(* The calculation. *)

\* A finite family of numbers.
Family(v) ==
  /\ v = [i \in DOMAIN v |-> v[i]]
  /\ DOMAIN v \in SUBSET Nat /\ IsFiniteSet(DOMAIN v)
  /\ \A i \in DOMAIN v : v[i] \in Nat

\* Every place of the ascending array is taken by one value.
LEMMA PlacesFilled ==
  ASSUME NEW v, Family(v)
  PROVE  /\ Size(v) \in Nat
         /\ \A k \in 1..Size(v) : \E i \in DOMAIN v : Place(v, i) = k
<1> DEFINE D == DOMAIN v
           place == [i \in D |-> Place(v, i)]
<1>1. Size(v) \in Nat
  BY FS_CardinalityType DEF Family, Size
<1>2. \A i \in D : /\ UpToPlace(v, i) \in SUBSET D /\ i \in UpToPlace(v, i)
                   /\ IsFiniteSet(UpToPlace(v, i)) /\ Place(v, i) \in 1..Size(v)
  <2> SUFFICES ASSUME NEW i \in D
               PROVE  /\ UpToPlace(v, i) \in SUBSET D /\ i \in UpToPlace(v, i)
                      /\ IsFiniteSet(UpToPlace(v, i)) /\ Place(v, i) \in 1..Size(v)
    OBVIOUS
  <2>1. UpToPlace(v, i) \in SUBSET D /\ i \in UpToPlace(v, i)
    BY DEF UpToPlace, Family
  <2>2. /\ IsFiniteSet(UpToPlace(v, i)) /\ Cardinality(UpToPlace(v, i)) \in Nat
        /\ Cardinality(UpToPlace(v, i)) <= Cardinality(D)
    BY <2>1, FS_Subset, FS_CardinalityType DEF Family
  <2>3. Cardinality(UpToPlace(v, i)) # 0
    BY <2>1, <2>2, FS_EmptySet
  <2>. QED
    BY <1>1, <2>1, <2>2, <2>3 DEF Place, Size
<1>3. \A i, j \in D : v[i] < v[j] \/ (v[i] = v[j] /\ i < j) => Place(v, i) < Place(v, j)
  <2> SUFFICES ASSUME NEW i \in D, NEW j \in D, v[i] < v[j] \/ (v[i] = v[j] /\ i < j)
               PROVE  Place(v, i) < Place(v, j)
    OBVIOUS
  <2>1. UpToPlace(v, i) \in SUBSET UpToPlace(v, j)
    BY DEF UpToPlace, Family
  <2>2. j \notin UpToPlace(v, i)
    BY DEF UpToPlace, Family
  <2>3. UpToPlace(v, i) # UpToPlace(v, j)
    BY <1>2, <2>2
  <2>. QED
    BY <1>1, <1>2, <2>1, <2>3, FS_Subset DEF Place
<1>4. place \in [D -> 1..Size(v)] /\ IsInjective(place)
  <2>1. ASSUME NEW i \in D, NEW j \in D, place[i] = place[j] PROVE i = j
    <3>1. v[i] \in Nat /\ v[j] \in Nat /\ i \in Nat /\ j \in Nat
      BY DEF Family
    <3>2. Place(v, i) \in Nat /\ Place(v, i) = Place(v, j)
      BY <1>2, <2>1
    <3>. QED
      BY <1>3, <3>1, <3>2
  <2>. QED
    BY <1>2, <2>1 DEF IsInjective
<1>5. IsFiniteSet(1..Size(v)) /\ Cardinality(1..Size(v)) = Cardinality(D)
  BY <1>1, FS_Interval DEF Size
<1>6. place \in Injection(D, 1..Size(v))
  BY <1>4 DEF Injection
<1>7. place \in Surjection(D, 1..Size(v))
  BY <1>5, <1>6, FS_Injection
<1>. QED
  BY <1>1, <1>7 DEF Surjection

\* The k-th of the ascending array is at most x exactly when k of the values are.
LEMMA OrderStatistic ==
  ASSUME NEW v, Family(v)
  PROVE  /\ Sorted(v) \in Seq(Nat) /\ Len(Sorted(v)) = Size(v) /\ Size(v) \in Nat
         /\ \A k \in 1..Size(v) : /\ Sorted(v)[k] \in Nat
                                  /\ \E i \in DOMAIN v : v[i] = Sorted(v)[k]
         /\ \A x \in Nat : UpTo(v, x) \in Nat
         /\ \A k \in 1..Size(v), x \in Nat : Sorted(v)[k] <= x <=> k <= UpTo(v, x)
<1> DEFINE D == DOMAIN v
           pick(k) == CHOOSE i \in D : Place(v, i) = k
<1>0. Size(v) \in Nat
  BY PlacesFilled
<1>1. \A k \in 1..Size(v) : pick(k) \in D /\ Place(v, pick(k)) = k
  BY PlacesFilled
<1>2. \A k \in 1..Size(v) : Sorted(v)[k] = v[pick(k)]
  BY DEF Sorted
<1>3. \A k \in 1..Size(v) : Sorted(v)[k] \in Nat /\ \E i \in D : v[i] = Sorted(v)[k]
  BY <1>1, <1>2 DEF Family
<1>4. Sorted(v) \in [1..Size(v) -> Nat]
  BY <1>3 DEF Sorted
<1>5. Sorted(v) \in Seq(Nat) /\ Len(Sorted(v)) = Size(v)
  <2>1. Sorted(v) \in Seq(Nat)
    BY <1>0, <1>4, SeqDef
  <2>. QED
    BY <1>0, <1>4, <2>1, LenProperties
<1>6. \A x \in Nat : /\ IsFiniteSet({i \in D : v[i] <= x}) /\ UpTo(v, x) \in Nat
  BY FS_Subset, FS_CardinalityType DEF Family, UpTo
<1>7. ASSUME NEW k \in 1..Size(v), NEW x \in Nat PROVE Sorted(v)[k] <= x <=> k <= UpTo(v, x)
  <2> DEFINE i == pick(k)
             B == {j \in D : v[j] <= x}
  <2>0. /\ i \in D /\ Place(v, i) = k /\ Sorted(v)[k] = v[i] /\ v[i] \in Nat /\ i \in Nat
        /\ IsFiniteSet(B) /\ Cardinality(B) = UpTo(v, x) /\ UpTo(v, x) \in Nat
    BY <1>1, <1>2, <1>6 DEF Family, UpTo
  <2> HIDE DEF i
  <2>1. IsFiniteSet(UpToPlace(v, i)) /\ i \in UpToPlace(v, i) /\ Cardinality(UpToPlace(v, i)) = k
    <3>1. UpToPlace(v, i) \in SUBSET D
      BY DEF UpToPlace
    <3>. QED
      BY <2>0, <3>1, FS_Subset DEF Family, Place, UpToPlace
  <2>2. CASE v[i] <= x
    <3>1. UpToPlace(v, i) \in SUBSET B
      BY <2>0, <2>2 DEF UpToPlace, Family
    <3>. QED
      BY <2>0, <2>1, <2>2, <3>1, FS_Subset
  <2>3. CASE ~ (v[i] <= x)
    <3> DEFINE U == UpToPlace(v, i) \ {i}
    <3>1. B \in SUBSET U
      BY <2>0, <2>3 DEF UpToPlace, Family
    <3>2. IsFiniteSet(U) /\ Cardinality(U) = k - 1
      BY <2>1, FS_RemoveElement
    <3>3. Cardinality(B) <= k - 1
      BY <3>1, <3>2, FS_Subset
    <3>. QED
      BY <2>0, <2>3, <3>3
  <2>. QED
    BY <2>2, <2>3
<1>. QED
  BY <1>0, <1>3, <1>5, <1>6, <1>7

\* The nearest rank of p percent is within the array, and the least that is enough.
LEMMA NearestRankIs ==
  ASSUME NEW n \in Nat \ {0}, NEW p \in Percentiles \cup {25, 75}
  PROVE  /\ Rank(n, p) \in 1..n
         /\ 100 * Rank(n, p) >= p * n
         /\ 100 * (Rank(n, p) - 1) < p * n
         /\ AtLeast(AtMost(Ceiling(p * n, 100), n), 1) = Rank(n, p)
  BY DEF Rank, AtLeast, AtMost, Ceiling, Percentiles

\* So the value there is a percentile.
LEMMA RankIsPercentile ==
  ASSUME NEW v, Family(v), Size(v) # 0, NEW p \in Percentiles \cup {25, 75}
  PROVE  IsPercentile(Sorted(v)[Rank(Size(v), p)], v, p)
<1> DEFINE n == Size(v)
           r == Rank(n, p)
           x == Sorted(v)[r]
<1>1. n \in Nat \ {0}
  BY OrderStatistic
<1>2. r \in 1..n /\ 100 * r >= p * n /\ 100 * (r - 1) < p * n /\ p * n \in Nat
  <2>1. p \in Nat
    BY DEF Percentiles
  <2>. QED
    BY <1>1, <2>1, NearestRankIs
<1> HIDE DEF r
<1>3. x \in Nat /\ (\E i \in DOMAIN v : v[i] = x) /\ UpTo(v, x) \in Nat /\ r <= UpTo(v, x)
  <2>0. x \in Nat /\ (\E i \in DOMAIN v : v[i] = x)
    BY <1>2, OrderStatistic
  <2> HIDE DEF x
  <2>1. x \in Nat /\ (\E i \in DOMAIN v : v[i] = x) /\ UpTo(v, x) \in Nat
    BY <2>0, OrderStatistic
  <2>2. x <= x
    BY <2>1
  <2>. QED
    BY <1>2, <2>1, <2>2, OrderStatistic DEF x
<1>4. ASSUME NEW i \in DOMAIN v, v[i] < x PROVE 100 * UpTo(v, v[i]) < p * n
  <2>1. v[i] \in Nat /\ UpTo(v, v[i]) \in Nat
    BY OrderStatistic DEF Family
  <2>2. ~ (r <= UpTo(v, v[i]))
    <3>1. ~ (x <= v[i])
      BY <1>3, <1>4, <2>1
    <3>. QED
      BY <1>2, <2>1, <3>1, OrderStatistic
  <2>. QED
    BY <1>2, <2>1, <2>2
<1>. QED
  BY <1>2, <1>3, <1>4 DEF IsPercentile, r

-----------------------------------------------------------------------------
\* Values of which some may be missing.
Partial(w) ==
  /\ DOMAIN w \in SUBSET Nat /\ IsFiniteSet(DOMAIN w)
  /\ \A i \in DOMAIN w : w[i] \in Nat \cup {Null}

LEMMA PresentIs ==
  ASSUME NEW w, Partial(w)
  PROVE  /\ Family(Present(w)) /\ Present(Present(w)) = Present(w)
         /\ DOMAIN Present(w) = {i \in DOMAIN w : w[i] # Null}
         /\ \A i \in DOMAIN Present(w) : Present(w)[i] = w[i]
<1>. DEFINE D == {i \in DOMAIN w : w[i] # Null}
<1>1. Present(w) = [i \in D |-> w[i]]
  BY DEF Present, RestrictValues, Restrict
<1>2. D \in SUBSET Nat /\ IsFiniteSet(D)
  BY FS_Subset DEF Partial
<1>3. \A i \in D : w[i] \in Nat /\ w[i] # Null
  BY DEF Partial
<1>4. Family(Present(w))
  BY <1>1, <1>2, <1>3 DEF Family
<1>5. Present(Present(w)) = [i \in {i \in D : Present(w)[i] # Null} |-> Present(w)[i]]
  BY <1>1 DEF Present, RestrictValues, Restrict
<1>6. {i \in D : Present(w)[i] # Null} = D
  BY <1>1, <1>3
<1>7. Present(Present(w)) = Present(w)
  BY <1>1, <1>5, <1>6
<1>. QED
  BY <1>1, <1>4, <1>7

\* A family is all there.
LEMMA FamilyPresent ==
  ASSUME NEW v, Family(v)
  PROVE  Partial(v) /\ Present(v) = v
<1>1. Partial(v)
  BY DEF Family, Partial
<1>2. \A i \in DOMAIN v : v[i] # Null
  BY CalculationAssumption DEF Family
<1>3. {i \in DOMAIN v : v[i] # Null} = DOMAIN v
  BY <1>2
<1>4. Present(v) = [i \in DOMAIN v |-> v[i]]
  BY <1>3 DEF Present, RestrictValues, Restrict
<1>. QED
  BY <1>1, <1>4 DEF Family

\* The service's spread of what is there.
LEMMA SpreadIs ==
  ASSUME NEW w, Partial(w)
  PROVE  /\ Size(Present(w)) = 0 => ExactSpread(w) = Null
         /\ Size(Present(w)) # 0 =>
              LET s == Sorted(Present(w)) IN
              /\ ExactSpread(w).n = Size(Present(w))
              /\ ExactSpread(w).min = s[1] /\ ExactSpread(w).max = s[Size(Present(w))]
              /\ \A p \in Percentiles : ExactSpread(w).at[p] = s[Rank(Size(Present(w)), p)]
         /\ IsSpread(ExactSpread(w), Present(w))
<1>. DEFINE v == Present(w)
            s == Sorted(v)
            n == Size(v)
<1>1. Family(v)
  BY PresentIs
<1>. HIDE DEF v
<1>2. Len(s) = n /\ n \in Nat
  BY <1>1, OrderStatistic
<1>3. ExactSpread(w) = IF n = 0 THEN Null
                       ELSE [n |-> n, min |-> s[1], max |-> s[n],
                             at |-> [p \in Percentiles |-> s[Rank(n, p)]]]
  BY <1>2 DEF ExactSpread, NearestRank, v
<1>4. ASSUME n # 0, NEW p \in Percentiles PROVE IsPercentile(s[Rank(n, p)], v, p)
  BY <1>1, <1>4, RankIsPercentile
<1>5. n # 0 => /\ ExactSpread(w).n = n /\ ExactSpread(w).min = s[1] /\ ExactSpread(w).max = s[n]
               /\ \A p \in Percentiles : ExactSpread(w).at[p] = s[Rank(n, p)]
  BY <1>3
<1>6. IsSpread(ExactSpread(w), v)
  <2>1. CASE n = 0
    BY <1>3, <2>1 DEF IsSpread
  <2>2. CASE n # 0
    <3>1. \A p \in Percentiles : IsPercentile(ExactSpread(w).at[p], v, p)
      BY <1>4, <1>5, <2>2
    <3>. QED
      BY <2>2, <3>1 DEF IsSpread
  <2>. QED
    BY <2>1, <2>2
<1>. QED
  BY <1>3, <1>5, <1>6 DEF v

-----------------------------------------------------------------------------
\* The times of the attempts that succeeded.
Timed(s) == Ttfts(Of(s.attempts, "succeeded"))

LEMMA TimedIs ==
  ASSUME NEW s \in Arrivals
  PROVE  Family(Timed(s)) /\ Size(s.attempts) \in Nat /\ Size(Of(s.attempts, "failed")) \in Nat
<1>. DEFINE a == s.attempts
            D == {i \in DOMAIN a : a[i].status = "succeeded"}
            F == {i \in DOMAIN a : a[i].status = "failed"}
<1>1. /\ a \in Seq(Attempt) /\ \A i \in DOMAIN a : a[i].status = "succeeded" => a[i].ttft # Null
  BY ArrivalsAssumption
<1>. HIDE DEF a
<1>2. DOMAIN a = 1..Len(a) /\ Len(a) \in Nat /\ \A i \in DOMAIN a : a[i].ttft \in Nat \cup {Null}
  <2>1. DOMAIN a = 1..Len(a) /\ Len(a) \in Nat /\ \A i \in DOMAIN a : a[i] \in Attempt
    BY <1>1, LenProperties, ElementOfSeq
  <2>. QED
    BY <2>1 DEF Attempt
<1>3. IsFiniteSet(DOMAIN a) /\ Cardinality(DOMAIN a) \in Nat
  BY <1>2, FS_Interval, FS_CardinalityType
<1>4. Timed(s) = [i \in D |-> a[i].ttft] /\ Of(a, "failed") = [i \in F |-> a[i]]
  BY DEF Timed, Ttfts, Of, RestrictValues, Restrict, a
<1>5. D \in SUBSET Nat /\ IsFiniteSet(D) /\ Cardinality(F) \in Nat
  BY <1>2, <1>3, FS_Subset, FS_CardinalityType
<1>6. Family(Timed(s))
  BY <1>1, <1>2, <1>4, <1>5 DEF Family
<1>. QED
  BY <1>3, <1>4, <1>5, <1>6 DEF Size, a

\* What a run has of a result.
LEMMA ResultIs ==
  ASSUME NEW s \in Arrivals, s.result # Null
  PROVE  /\ \A p \in Percentiles :
              /\ s.result.ttft.at[p] \in Nat \cup {Null}
              /\ Size(Timed(s)) # 0 => IsPercentile(s.result.ttft.at[p], Timed(s), p)
         /\ s.result.error_rate \in Nat \cup {Null}
<1>. DEFINE v == Timed(s)
            n == Size(v)
<1>1. /\ s.result = Summarize(s.attempts, s.acc.planned, Scale) /\ Scale \in Nat
  BY ArrivalsAssumption, CalculationAssumption
<1>2. Family(v) /\ Present(v) = v /\ n \in Nat /\ Len(Sorted(v)) = n
  BY TimedIs, FamilyPresent, OrderStatistic
<1>3. s.result.ttft = Distribution(v)
  BY <1>1 DEF Summarize, Timed
<1>. HIDE DEF v
<1>4. \A p \in Percentiles : s.result.ttft.at[p] = Percentile(Sorted(v), p)
  BY <1>2, <1>3 DEF Distribution
<1>5. ASSUME NEW p \in Percentiles
      PROVE  /\ s.result.ttft.at[p] \in Nat \cup {Null}
             /\ n # 0 => IsPercentile(s.result.ttft.at[p], v, p)
  <2>1. CASE n = 0
    BY <1>2, <1>4, <2>1 DEF Percentile
  <2>2. CASE n # 0
    <3>1. s.result.ttft.at[p] = Sorted(v)[Rank(n, p)] /\ Rank(n, p) \in 1..n
      BY <1>2, <1>4, <2>2, NearestRankIs DEF Percentile
    <3>2. s.result.ttft.at[p] \in Nat
      BY <1>2, <3>1, OrderStatistic
    <3>. QED
      BY <1>2, <2>2, <3>1, <3>2, RankIsPercentile
  <2>. QED
    BY <2>1, <2>2
<1>6. s.result.error_rate \in Nat \cup {Null}
  <2>. DEFINE f == Size(Of(s.attempts, "failed"))
              m == Size(s.attempts)
  <2>1. f \in Nat /\ m \in Nat
    BY TimedIs
  <2>2. s.result.error_rate = IF m = 0 THEN Null ELSE (Scale * f) \div m
    BY <1>1 DEF Summarize
  <2>. HIDE DEF f, m
  <2>3. Scale * f \in Nat
    BY <1>1, <2>1
  <2>. QED
    BY <2>1, <2>2, <2>3
<1>. QED
  BY <1>5, <1>6 DEF v

-----------------------------------------------------------------------------
\* A list of runs, or what a filter has left of one.
RunsOK(S) ==
  /\ S = [i \in DOMAIN S |-> S[i]]
  /\ DOMAIN S \in SUBSET Nat /\ IsFiniteSet(DOMAIN S)
  /\ \A i \in DOMAIN S : S[i] \in Arrivals

SInv == samples \in Seq(Arrivals)

LEMMA NoRunsSInv == NoRuns => SInv
  BY DEF NoRuns, SInv

LEMMA JoinSInv == SInv /\ [Join]_samples => SInv'
<1>. SUFFICES ASSUME SInv, Join PROVE SInv'
  BY DEF SInv
<1>1. PICK s \in Arrivals : samples' = Append(samples, s)
  BY DEF Join
<1>. QED
  BY <1>1, AppendProperties DEF SInv

LEMMA CohortOK == SInv => RunsOK(samples)
<1>. SUFFICES ASSUME SInv PROVE RunsOK(samples)
  OBVIOUS
<1>1. /\ samples \in [1..Len(samples) -> Arrivals] /\ Len(samples) \in Nat
  BY LenProperties, ElementOfSeq DEF SInv
<1>2. IsFiniteSet(1..Len(samples))
  BY <1>1, FS_Interval
<1>. QED
  BY <1>1, <1>2 DEF RunsOK

LEMMA FilteredOK ==
  ASSUME NEW S, RunsOK(S), NEW T \in SUBSET DOMAIN S
  PROVE  /\ RunsOK([i \in T |-> S[i]])
         /\ Size([i \in T |-> S[i]]) = Cardinality(T) /\ Cardinality(T) \in Nat
         /\ Size([i \in T |-> S[i]]) <= Size(S) /\ Size(S) \in Nat
<1>1. IsFiniteSet(T) /\ Cardinality(T) \in Nat /\ Cardinality(T) <= Cardinality(DOMAIN S)
      /\ Cardinality(DOMAIN S) \in Nat
  BY FS_Subset, FS_CardinalityType DEF RunsOK
<1>. QED
  BY <1>1 DEF RunsOK, Size

LEMMA EligibleIs ==
  ASSUME NEW S, RunsOK(S), NEW c
  PROVE  /\ EligibleFor(c, S) = [i \in {i \in DOMAIN S : Meets(c, S[i])} |-> S[i]]
         /\ RunsOK(EligibleFor(c, S)) /\ Size(EligibleFor(c, S)) \in Nat
<1>1. EligibleFor(c, S) = [i \in {i \in DOMAIN S : Meets(c, S[i])} |-> S[i]]
  BY DEF EligibleFor, RestrictValues, Restrict
<1>2. {i \in DOMAIN S : Meets(c, S[i])} \in SUBSET DOMAIN S
  OBVIOUS
<1>. QED
  BY <1>1, <1>2, FilteredOK

LEMMA OwnIs ==
  ASSUME NEW S, RunsOK(S), NEW o
  PROVE  /\ Own(S, o) = [i \in {i \in DOMAIN S : S[i].org = o} |-> S[i]]
         /\ RunsOK(Own(S, o)) /\ Size(Own(S, o)) \in Nat
<1>1. Own(S, o) = [i \in {i \in DOMAIN S : S[i].org = o} |-> S[i]]
  BY DEF Own, RestrictValues, Restrict
<1>2. {i \in DOMAIN S : S[i].org = o} \in SUBSET DOMAIN S
  OBVIOUS
<1>. QED
  BY <1>1, <1>2, FilteredOK

\* The numbers of a cohort's runs.
LEMMA CarriedIs ==
  ASSUME NEW S, RunsOK(S), NEW p \in Percentiles
  PROVE  /\ Partial([i \in DOMAIN S |-> StatOf(S[i], p)])
         /\ Partial(Carried(S, p)) /\ Family(Carried(S, p)) /\ Present(Carried(S, p)) = Carried(S, p)
         /\ DOMAIN Carried(S, p) \subseteq DOMAIN S
<1>. DEFINE w == [i \in DOMAIN S |-> StatOf(S[i], p)]
<1>1. \A i \in DOMAIN S : StatOf(S[i], p) \in Nat \cup {Null}
  BY ResultIs DEF RunsOK, StatOf
<1>2. Partial(w)
  BY <1>1 DEF RunsOK, Partial
<1>3. Carried(S, p) = Present(w)
  BY DEF Carried
<1>. HIDE DEF w
<1>4. Family(Present(w)) /\ DOMAIN Present(w) = {i \in DOMAIN w : w[i] # Null}
  BY <1>2, PresentIs
<1>5. Partial(Present(w)) /\ Present(Present(w)) = Present(w)
  BY <1>4, FamilyPresent
<1>. QED
  BY <1>2, <1>3, <1>4, <1>5 DEF w

LEMMA RatesAre ==
  ASSUME NEW S, RunsOK(S)
  PROVE  Partial([i \in DOMAIN S |-> RateOf(S[i])])
<1>1. ASSUME NEW s \in Arrivals PROVE RateOf(s) \in Nat \cup {Null}
  <2>. DEFINE f == s.acc.failed
              m == s.acc.attempted
  <2>1. CASE s.result # Null /\ s.result.error_rate # Null
    BY <2>1, ResultIs DEF RateOf
  <2>2. CASE ~ (s.result # Null /\ s.result.error_rate # Null)
    <3>1. f \in Nat /\ m \in Nat /\ Scale \in Nat
      <4>1. /\ "failed" \in Counted /\ "attempted" \in Counted
        BY DEF Counted
      <4>2. s.acc["failed"] \in Nat /\ s.acc["attempted"] \in Nat
        BY <4>1, ArrivalsAssumption
      <4>. QED
        BY <4>2, CalculationAssumption
    <3>2. RateOf(s) = IF m = 0 THEN Null ELSE (Scale * f) \div m
      BY <2>2 DEF RateOf
    <3>. HIDE DEF f, m
    <3>3. Scale * f \in Nat
      BY <3>1
    <3>. QED
      BY <3>1, <3>2, <3>3
  <2>. QED
    BY <2>1, <2>2
<1>. QED
  BY <1>1 DEF RunsOK, Partial

-----------------------------------------------------------------------------
\* Every percentile the service releases across runs, or a harness reported of
\* its attempts, is a value they have and the least that suffices.
THEOREM PercentilesAreRanks == Growth => []SpreadsAreRanks
<1>1. SInv => SpreadsAreRanks
  <2>. SUFFICES ASSUME SInv PROVE SpreadsAreRanks
    OBVIOUS
  <2>0. RunsOK(samples)
    BY CohortOK
  <2>1. ASSUME NEW c \in ParsedClaims
        PROVE  LET e == EligibleFor(c, samples)
                   x == ComputeClaim(c, samples)
               IN  /\ c.name = x.claim
                   /\ IF c.kind = "rate" THEN IsSpread(x.metric, Present([i \in DOMAIN e |-> RateOf(e[i])]))
                      ELSE \A p \in Percentiles : IsSpread(x.metric[p], Carried(e, p))
    <3>. DEFINE e == EligibleFor(c, samples)
                x == ComputeClaim(c, samples)
    <3>1. RunsOK(e)
      BY <2>0, EligibleIs
    <3>2. x.claim = c.name /\ x.metric = Metric(c, e)
      BY DEF ComputeClaim
    <3>3. c.kind = "distribution" \/ c.kind = "rate"
      BY DEF ParsedClaims
    <3>. HIDE DEF e, x
    <3>4. CASE c.kind = "rate"
      <4>. DEFINE w == [i \in DOMAIN e |-> RateOf(e[i])]
      <4>1. x.metric = ExactSpread(w)
        BY <3>2, <3>4 DEF Metric
      <4>2. Partial(w)
        BY <3>1, RatesAre
      <4>. HIDE DEF w
      <4>3. IsSpread(x.metric, Present(w))
        BY <4>1, <4>2, SpreadIs
      <4>. QED
        BY <3>2, <3>4, <4>3 DEF w, e, x
    <3>5. CASE c.kind = "distribution"
      <4>1. ASSUME NEW p \in Percentiles PROVE IsSpread(x.metric[p], Carried(e, p))
        <5>1. x.metric[p] = ExactSpread(Carried(e, p))
          BY <3>2, <3>5 DEF Metric
        <5>2. Partial(Carried(e, p)) /\ Present(Carried(e, p)) = Carried(e, p)
          BY <3>1, CarriedIs
        <5>. QED
          BY <5>1, <5>2, SpreadIs
      <4>. QED
        BY <3>2, <3>5, <4>1 DEF e, x
    <3>. QED
      BY <3>3, <3>4, <3>5
  <2>2. \A x \in Compute(samples).claims : \E c \in ParsedClaims : x = ComputeClaim(c, samples)
    BY DEF Compute
  <2>3. ASSUME NEW i \in DOMAIN samples,
               samples[i].result # Null, Size(Timed(samples[i])) # 0, NEW p \in Percentiles
        PROVE  IsPercentile(samples[i].result.ttft.at[p], Timed(samples[i]), p)
    <3>1. samples[i] \in Arrivals
      BY <2>0 DEF RunsOK
    <3>. QED
      BY <2>3, <3>1, ResultIs
  <2>. QED
    BY <2>1, <2>2, <2>3 DEF SpreadsAreRanks, Timed
<1>. QED
  BY <1>1, NoRunsSInv, JoinSInv, PTL DEF Growth

-----------------------------------------------------------------------------

\* The arithmetic of the quartiles' ranks.
LEMMA QuartileRanks ==
  ASSUME NEW n \in Nat, NEW r \in Nat, NEW u \in Nat
  PROVE  /\ 100 * r >= 75 * n /\ 100 * (r - 1) < 75 * n => (r <= u <=> 4 * u >= 3 * n)
         /\ 100 * r >= 25 * n /\ 100 * (r - 1) < 25 * n => (r <= u <=> 4 * u >= n)
  OBVIOUS

\* One's upper quartile is below the other's lower one exactly when they are apart.
LEMMA QuartilesApart ==
  ASSUME NEW v, Family(v), Size(v) # 0, NEW w, Family(w), Size(w) # 0
  PROVE  Quartiles(v).q3 < Quartiles(w).q1 <=> Apart(v, w)
<1>. DEFINE n == Size(v)
            m == Size(w)
            r == Rank(n, 75)
            k == Rank(m, 25)
            q3 == Sorted(v)[r]
            q1 == Sorted(w)[k]
<1>1. /\ n \in Nat \ {0} /\ m \in Nat \ {0} /\ Len(Sorted(v)) = n /\ Len(Sorted(w)) = m
      /\ \A x \in Nat : UpTo(v, x) \in Nat /\ UpTo(w, x) \in Nat
  BY OrderStatistic
<1>2. /\ r \in 1..n /\ 100 * r >= 75 * n /\ 100 * (r - 1) < 75 * n
      /\ k \in 1..m /\ 100 * k >= 25 * m /\ 100 * (k - 1) < 25 * m
      /\ r \in Nat /\ k \in Nat
  <2>1. r \in 1..n /\ 100 * r >= 75 * n /\ 100 * (r - 1) < 75 * n
    BY <1>1, NearestRankIs
  <2>2. k \in 1..m /\ 100 * k >= 25 * m /\ 100 * (k - 1) < 25 * m
    BY <1>1, NearestRankIs
  <2>. HIDE DEF n, m, r, k
  <2>. QED
    BY <1>1, <2>1, <2>2
<1>3. Quartiles(v).q3 = q3 /\ Quartiles(w).q1 = q1
  BY <1>1 DEF Quartiles, NearestRank
<1>. HIDE DEF r, k
<1>4. q3 \in Nat /\ q1 \in Nat /\ \E i \in DOMAIN v : v[i] = q3
  BY <1>2, OrderStatistic
<1>5. \A x \in Nat : (q3 <= x <=> r <= UpTo(v, x)) /\ (q1 <= x <=> k <= UpTo(w, x))
  BY <1>2, OrderStatistic
<1>. HIDE DEF n, m, q3, q1
<1>6. ASSUME q3 < q1 PROVE Apart(v, w)
  <2>1. PICK i \in DOMAIN v : v[i] = q3
    BY <1>4
  <2>2. UpTo(v, q3) \in Nat /\ UpTo(w, q3) \in Nat /\ r <= UpTo(v, q3) /\ ~ (k <= UpTo(w, q3))
    BY <1>1, <1>4, <1>5, <1>6
  <2>3. 4 * UpTo(v, q3) >= 3 * n /\ ~ (4 * UpTo(w, q3) >= m)
    BY <1>1, <1>2, <2>2, QuartileRanks
  <2>4. 4 * UpTo(v, v[i]) >= 3 * n /\ 4 * UpTo(w, v[i]) < m
    <3>1. UpTo(v, v[i]) = UpTo(v, q3) /\ UpTo(w, v[i]) = UpTo(w, q3)
      BY <2>1
    <3>. DEFINE a == UpTo(w, q3)
    <3>2. a \in Nat /\ ~ (4 * a >= m)
      BY <2>2, <2>3
    <3>. HIDE DEF a
    <3>3. 4 * a < m
      BY <1>1, <3>2
    <3>. QED
      BY <2>3, <3>1, <3>3 DEF a
  <2>. QED
    BY <2>4 DEF Apart, n, m
<1>7. ASSUME Apart(v, w) PROVE q3 < q1
  <2>1. PICK i \in DOMAIN v : 4 * UpTo(v, v[i]) >= 3 * n /\ 4 * UpTo(w, v[i]) < m
    BY <1>7 DEF Apart, n, m
  <2>2. v[i] \in Nat
    BY DEF Family
  <2>3. UpTo(v, v[i]) \in Nat /\ UpTo(w, v[i]) \in Nat
    BY <1>1, <2>2
  <2>4. 4 * UpTo(v, v[i]) >= 3 * n /\ ~ (4 * UpTo(w, v[i]) >= m)
    <3>. DEFINE a == 4 * UpTo(w, v[i])
    <3>1. a \in Nat /\ a < m
      BY <2>1, <2>3
    <3>. HIDE DEF a
    <3>2. ~ (a >= m)
      BY <1>1, <3>1
    <3>. QED
      BY <2>1, <3>2 DEF a
  <2>5. r <= UpTo(v, v[i]) /\ ~ (k <= UpTo(w, v[i]))
    BY <1>1, <1>2, <2>3, <2>4, QuartileRanks
  <2>. QED
    BY <1>4, <1>5, <2>2, <2>5
<1>. QED
  BY <1>3, <1>6, <1>7

\* The p50s of an organization with any are those of runs it has.
LEMMA P50sAre ==
  ASSUME NEW S, RunsOK(S), NEW o
  PROVE  /\ Family(P50s(S, o)) /\ Size(P50s(S, o)) \in Nat
         /\ Size(P50s(S, o)) # 0 => o \in Orgs(S)
         /\ Orgs(S) \subseteq DOMAIN UnitOf
<1>1. RunsOK(Own(S, o)) /\ Own(S, o) = [i \in {i \in DOMAIN S : S[i].org = o} |-> S[i]]
  BY OwnIs
<1>2. 50 \in Percentiles
  BY DEF Percentiles
<1>3. Family(P50s(S, o)) /\ DOMAIN P50s(S, o) \subseteq DOMAIN Own(S, o)
  BY <1>1, <1>2, CarriedIs DEF P50s
<1>4. Size(P50s(S, o)) \in Nat
  BY <1>3, OrderStatistic
<1>5. ASSUME Size(P50s(S, o)) # 0 PROVE o \in Orgs(S)
  <2>1. DOMAIN P50s(S, o) # {}
    BY <1>5, FS_EmptySet DEF Size
  <2>2. PICK i \in DOMAIN S : S[i].org = o
    BY <1>1, <1>3, <2>1
  <2>. QED
    BY <2>2 DEF Orgs
<1>6. Orgs(S) \subseteq DOMAIN UnitOf
  BY ArrivalsAssumption DEF Orgs, RunsOK
<1>. QED
  BY <1>3, <1>4, <1>5, <1>6

\* A listed contradiction is two organizations whose runs really are apart, and
\* every such pair is listed: quartiles by nearest rank miss none.
THEOREM ContradictionsAreReal == Growth => []DisagreementIsReal
<1>1. SInv => DisagreementIsReal
  <2>. SUFFICES ASSUME SInv, NEW c \in ParsedClaims
                PROVE  LET x == ComputeClaim(c, samples)
                           P50(o) == P50s(EligibleFor(c, samples), o)
                       IN  c.name = x.claim /\
                           (x.contradicted <=> c.kind = "distribution" /\
                              \E o, p \in DOMAIN UnitOf :
                                Size(P50(o)) >= 2 /\ Size(P50(p)) >= 2 /\ Apart(P50(o), P50(p)))
    BY DEF DisagreementIsReal, Compute
  <2>. DEFINE e == EligibleFor(c, samples)
              Pair(o, p) == /\ Size(P50s(e, o)) >= 2 /\ Size(P50s(e, p)) >= 2
                            /\ Apart(P50s(e, o), P50s(e, p))
  <2>1. RunsOK(e)
    BY CohortOK, EligibleIs
  <2>2. LET x == ComputeClaim(c, samples)
        IN  x.claim = c.name /\ x.contradicted = (c.kind = "distribution" /\ Contradicted(e))
    BY DEF ComputeClaim
  <2>. HIDE DEF e
  <2>3. \A o : /\ Family(P50s(e, o)) /\ Size(P50s(e, o)) \in Nat
               /\ Size(P50s(e, o)) # 0 => o \in Orgs(e)
               /\ Orgs(e) \subseteq DOMAIN UnitOf
    BY <2>1, P50sAre
  <2>4. \A o, p : Size(P50s(e, o)) >= 2 /\ Size(P50s(e, p)) >= 2 =>
           (Quartiles(P50s(e, o)).q3 < Quartiles(P50s(e, p)).q1 <=> Apart(P50s(e, o), P50s(e, p)))
    BY <2>3, QuartilesApart
  <2>5. DOMAIN Ranges(e) = {o \in Orgs(e) : Size(P50s(e, o)) >= 2}
        /\ \A o \in DOMAIN Ranges(e) : Ranges(e)[o] = Quartiles(P50s(e, o))
    BY DEF Ranges
  <2>6. ASSUME NEW o \in DOMAIN Ranges(e), NEW p \in DOMAIN Ranges(e), IqrDisjoint(Ranges(e)[o], Ranges(e)[p])
        PROVE  Pair(o, p) \/ Pair(p, o)
    <3>1. Size(P50s(e, o)) >= 2 /\ Size(P50s(e, p)) >= 2
      BY <2>5
    <3>2. \/ Quartiles(P50s(e, o)).q3 < Quartiles(P50s(e, p)).q1
          \/ Quartiles(P50s(e, p)).q3 < Quartiles(P50s(e, o)).q1
      BY <2>5, <2>6 DEF IqrDisjoint
    <3>. QED
      BY <2>4, <3>1, <3>2
  <2>7. ASSUME NEW o, NEW p, Pair(o, p)
        PROVE  /\ o \in DOMAIN Ranges(e) /\ p \in DOMAIN Ranges(e) /\ o # p
               /\ IqrDisjoint(Ranges(e)[o], Ranges(e)[p])
    <3>1. Size(P50s(e, o)) # 0 /\ Size(P50s(e, p)) # 0
      BY <2>3, <2>7
    <3>2. o \in DOMAIN Ranges(e) /\ p \in DOMAIN Ranges(e)
      BY <2>3, <2>5, <2>7, <3>1
    <3>3. o # p
      <4>1. ASSUME o = p PROVE FALSE
        <5>. DEFINE v == P50s(e, o)
        <5>1. PICK i \in DOMAIN v : 4 * UpTo(v, v[i]) >= 3 * Size(v) /\ 4 * UpTo(v, v[i]) < Size(v)
          BY <2>7, <4>1 DEF Apart
        <5>2. Family(v) /\ Size(v) \in Nat
          BY <2>3
        <5>3. v[i] \in Nat
          BY <5>2 DEF Family
        <5>4. UpTo(v, v[i]) \in Nat
          BY <5>2, <5>3, OrderStatistic
        <5>. HIDE DEF v
        <5>. QED
          BY <5>1, <5>2, <5>4
      <4>. QED
        BY <4>1
    <3>4. Quartiles(P50s(e, o)).q3 < Quartiles(P50s(e, p)).q1
      BY <2>4, <2>7
    <3>. QED
      BY <2>5, <3>2, <3>3, <3>4 DEF IqrDisjoint
  <2>8. Contradicted(e) <=> \E o, p \in DOMAIN UnitOf : Pair(o, p)
    <3>1. ASSUME Contradicted(e) PROVE \E o, p \in DOMAIN UnitOf : Pair(o, p)
      <4>1. PICK o \in DOMAIN Ranges(e), p \in DOMAIN Ranges(e) : IqrDisjoint(Ranges(e)[o], Ranges(e)[p])
        BY <3>1 DEF Contradicted
      <4>2. o \in DOMAIN UnitOf /\ p \in DOMAIN UnitOf
        BY <2>3, <2>5
      <4>3. Pair(o, p) \/ Pair(p, o)
        BY <2>6, <4>1
      <4>. QED
        BY <4>2, <4>3
    <3>2. ASSUME NEW o \in DOMAIN UnitOf, NEW p \in DOMAIN UnitOf, Pair(o, p) PROVE Contradicted(e)
      BY <2>7, <3>2 DEF Contradicted
    <3>. QED
      BY <3>1, <3>2
  <2>. QED
    BY <2>2, <2>8 DEF e
<1>. QED
  BY <1>1, NoRunsSInv, JoinSInv, PTL DEF Growth

-----------------------------------------------------------------------------
\* The contributors of a cohort are counted, and a cohort is one's runs and the others'.
LEMMA UnitsAre ==
  ASSUME NEW S, RunsOK(S)
  PROVE  /\ Cardinality(Units(S)) \in Nat
         /\ \A u : /\ RunsOfUnit(S, u) \in Nat
                   /\ Size(RestrictValues(S, LAMBDA s : UnitOf[s.org] # u)) = Size(S) - RunsOfUnit(S, u)
<1>. DEFINE D == DOMAIN S
            f == [i \in D |-> UnitOf[S[i].org]]
<1>1. IsFiniteSet(D) /\ Size(S) = Cardinality(D) /\ Cardinality(D) \in Nat
  BY FS_CardinalityType DEF RunsOK, Size
<1>2. f \in Surjection(D, Units(S))
  BY DEF Units, Surjection
<1>3. Cardinality(Units(S)) \in Nat
  BY <1>1, <1>2, FS_Surjection, FS_CardinalityType
<1>4. ASSUME NEW u
      PROVE  /\ RunsOfUnit(S, u) \in Nat
             /\ Size(RestrictValues(S, LAMBDA s : UnitOf[s.org] # u)) = Size(S) - RunsOfUnit(S, u)
  <2>. DEFINE A == {i \in D : UnitOf[S[i].org] = u}
              B == {i \in D : UnitOf[S[i].org] # u}
  <2>1. RunsOfUnit(S, u) = Cardinality(A)
    BY DEF RunsOfUnit, RestrictValues, Restrict, Size
  <2>2. Size(RestrictValues(S, LAMBDA s : UnitOf[s.org] # u)) = Cardinality(B)
    BY DEF RestrictValues, Restrict, Size
  <2>3. B = D \ A /\ D \cap A = A /\ A \in SUBSET D
    OBVIOUS
  <2>. HIDE DEF A, B, D
  <2>4. Cardinality(B) = Cardinality(D) - Cardinality(A) /\ Cardinality(A) \in Nat
    <3>1. IsFiniteSet(A) /\ Cardinality(A) \in Nat
      BY <1>1, <2>3, FS_Subset, FS_CardinalityType
    <3>2. Cardinality(D \ A) = Cardinality(D) - Cardinality(D \cap A)
      BY <1>1, FS_Difference
    <3>. QED
      BY <2>3, <3>1, <3>2
  <2>. QED
    BY <1>1, <2>1, <2>2, <2>4
<1>. QED
  BY <1>3, <1>4

\* No claim is released on the thresholds that the whole cohort met.
THEOREM ReleasesQualify == Growth => []ReleasedClaimsQualify
<1>1. SInv => ReleasedClaimsQualify
  <2>. SUFFICES ASSUME SInv, NEW d \in ReleaseSections(Compute(samples)).distributions
                PROVE  \E c \in ParsedClaims : c.name = d.claim /\
                         LET e == EligibleFor(c, samples)
                         IN  /\ Size(e) >= MinRuns /\ Cardinality(Units(e)) >= MinOrgs
                             /\ \A u \in Units(e) :
                                  2 * Size(RestrictValues(e, LAMBDA s : UnitOf[s.org] # u)) >= Size(e)
    BY DEF ReleasedClaimsQualify
  <2>1. PICK x \in Compute(samples).claims : ClaimReasons(x) = {} /\ d.claim = x.claim
    BY DEF ReleaseSections, Releasable
  <2>2. PICK c \in ParsedClaims : x = ComputeClaim(c, samples)
    BY DEF Compute
  <2>. DEFINE e == EligibleFor(c, samples)
  <2>3. RunsOK(e) /\ Size(e) \in Nat
    BY CohortOK, EligibleIs
  <2>4. /\ x.claim = c.name /\ x.eligible = Size(e) /\ x.orgs = Cardinality(Units(e))
        /\ x.dominated = Dominated(e)
    BY <2>2 DEF ComputeClaim
  <2>. HIDE DEF e
  <2>5. ~ (x.orgs < MinOrgs) /\ ~ (x.eligible < MinRuns) /\ ~ x.dominated
    BY <2>1 DEF ClaimReasons
  <2>6. MinOrgs \in Nat /\ MinRuns \in Nat /\ Cardinality(Units(e)) \in Nat
    BY <2>3, UnitsAre, CohortAssumption
  <2>7. Size(e) >= MinRuns /\ Cardinality(Units(e)) >= MinOrgs
    BY <2>3, <2>4, <2>5, <2>6
  <2>8. ASSUME NEW u \in Units(e)
        PROVE  2 * Size(RestrictValues(e, LAMBDA s : UnitOf[s.org] # u)) >= Size(e)
    <3>. DEFINE k == RunsOfUnit(e, u)
                n == Size(e)
                others == Size(RestrictValues(e, LAMBDA s : UnitOf[s.org] # u))
    <3>1. k \in Nat /\ n \in Nat /\ others = n - k
      BY <2>3, UnitsAre
    <3>2. ~ (2 * k > n)
      BY <2>4, <2>5 DEF Dominated
    <3>. HIDE DEF k, n, others
    <3>3. 2 * others >= n
      BY <3>1, <3>2
    <3>. QED
      BY <3>3 DEF n, others
  <2>. QED
    BY <2>1, <2>4, <2>7, <2>8 DEF e
<1>. QED
  BY <1>1, NoRunsSInv, JoinSInv, PTL DEF Growth

-----------------------------------------------------------------------------
LEMMA MedianRank ==
  ASSUME NEW n \in Nat \ {0}
  PROVE  /\ n \div 2 \in Nat
         /\ n % 2 = 1 => Rank(n, 50) = (n \div 2) + 1 /\ Rank(n, 50) \in 1..n
         /\ n % 2 # 1 => /\ Rank(n, 50) = n \div 2
                         /\ n \div 2 \in 1..n /\ (n \div 2) + 1 \in 1..n
<1>. DEFINE half == n \div 2
<1>1. half \in Nat /\ (n = 2 * half \/ n = 2 * half + 1) /\ (n % 2 = 1 <=> n = 2 * half + 1)
  OBVIOUS
<1>2. Ceiling(50 * n, 100) = IF n % 2 = 1 THEN half + 1 ELSE half
  BY DEF Ceiling
<1>. HIDE DEF half
<1>3. Rank(n, 50) = IF n % 2 = 1 THEN half + 1 ELSE half
  BY <1>1, <1>2 DEF Rank, AtLeast, AtMost
<1>. QED
  BY <1>1, <1>3 DEF half

\* The report's spread beside the service's: one sort, the median from its middle.
LEMMA ReportSpreadIs ==
  ASSUME NEW v, Family(v), Size(v) # 0
  PROVE  /\ ReportSpread(v).runs = Size(v)
         /\ ReportSpread(v).min = Sorted(v)[1] /\ ReportSpread(v).max = Sorted(v)[Size(v)]
         /\ 2 * Sorted(v)[Rank(Size(v), 50)] <= ReportSpread(v).twiceMedian
<1>. DEFINE s == Sorted(v)
            n == Size(v)
            half == n \div 2
            r == Rank(n, 50)
<1>1. n \in Nat \ {0} /\ Len(s) = n /\ \A x \in Nat : UpTo(v, x) \in Nat
  BY OrderStatistic
<1>2. half \in Nat /\ (n % 2 = 1 => r = half + 1 /\ r \in 1..n)
      /\ (n % 2 # 1 => r = half /\ half \in 1..n /\ half + 1 \in 1..n)
  <2>. HIDE DEF n
  <2>. QED
    BY <1>1, MedianRank
<1>3. /\ ReportSpread(v).runs = n /\ ReportSpread(v).min = s[1] /\ ReportSpread(v).max = s[n]
      /\ ReportSpread(v).twiceMedian = TwiceMedian(v)
      /\ TwiceMedian(v) = IF n % 2 = 1 THEN 2 * s[half + 1] ELSE s[half] + s[half + 1]
  BY <1>1 DEF ReportSpread, TwiceMedian
<1>4. \A k \in 1..n : s[k] \in Nat
  BY OrderStatistic
<1>5. \A k \in 1..n, x \in Nat : s[k] <= x <=> k <= UpTo(v, x)
  BY OrderStatistic
<1>. HIDE DEF s, n, half, r
<1>6. 2 * s[r] <= TwiceMedian(v)
  <2>1. CASE n % 2 = 1
    <3>1. TwiceMedian(v) = 2 * s[r] /\ s[r] \in Nat
      BY <1>2, <1>3, <1>4, <2>1
    <3>. QED
      BY <3>1
  <2>2. CASE n % 2 # 1
    <3>. DEFINE lo == s[half]
                hi == s[half + 1]
    <3>1. TwiceMedian(v) = lo + hi /\ lo \in Nat /\ hi \in Nat /\ s[r] = lo
      BY <1>2, <1>3, <1>4, <2>2
    <3>2. hi <= hi
      BY <3>1
    <3>3. half + 1 <= UpTo(v, hi) /\ UpTo(v, hi) \in Nat
      BY <1>1, <1>2, <1>5, <2>2, <3>1, <3>2
    <3>4. half <= UpTo(v, hi)
      BY <1>2, <3>3
    <3>5. lo <= hi
      BY <1>2, <1>5, <2>2, <3>1, <3>4
    <3>. HIDE DEF lo, hi
    <3>. QED
      BY <3>1, <3>5
  <2>. QED
    BY <2>1, <2>2
<1>. QED
  BY <1>3, <1>6 DEF s, n, r

\* The local report claims no more than the service would.
THEOREM ReportsClaimNoMore == Growth => []ReportClaimsNoMore
<1>1. SInv => ReportClaimsNoMore
  <2>. SUFFICES ASSUME SInv, NEW o \in DOMAIN UnitOf, NEW c \in ParsedClaims
                PROVE  LET mine == Own(samples, o)
                           theirs == ComputeClaim(c, mine)
                           local == ReportClaim(c, mine)
                           p50 == IF c.kind = "rate" THEN theirs.metric ELSE theirs.metric[50]
                       IN  /\ local.eligible <= theirs.eligible
                           /\ local.eligible = theirs.eligible /\ p50 # Null /\ p50.n = local.across.runs =>
                                /\ 2 * p50.at[50] <= local.across.twiceMedian
                                /\ p50.min = local.across.min /\ p50.max = local.across.max
    BY DEF ReportClaimsNoMore
  <2>. DEFINE mine == Own(samples, o)
              e == EligibleFor(c, mine)
              R == {i \in DOMAIN mine : ReportEligible(c, mine[i])}
              g == [i \in R |-> mine[i]]
              theirs == ComputeClaim(c, mine)
              local == ReportClaim(c, mine)
              p50 == IF c.kind = "rate" THEN theirs.metric ELSE theirs.metric[50]
              err(h) == [i \in DOMAIN h |-> IF h[i].result = Null THEN Null ELSE h[i].result.error_rate]
              values == IF c.kind = "distribution" THEN Carried(g, 50) ELSE Present(err(g))
              spreads == IF c.kind = "distribution" THEN Carried(e, 50)
                         ELSE [i \in DOMAIN e |-> RateOf(e[i])]
  <2>1. RunsOK(mine)
    BY CohortOK, OwnIs
  <2>2. /\ RunsOK(e) /\ e = [i \in {i \in DOMAIN mine : Meets(c, mine[i])} |-> mine[i]]
        /\ RunsOK(g) /\ DOMAIN g = R
    BY <2>1, EligibleIs, FilteredOK
  <2>3. RestrictValues(mine, LAMBDA s : ReportEligible(c, s)) = g
    BY DEF RestrictValues, Restrict
  <2>4. local.eligible = Size(g) /\ local.across = ReportSpread(values)
    BY <2>3 DEF ReportClaim
  <2>5. theirs.eligible = Size(e) /\ p50 = ExactSpread(spreads)
    <3>1. 50 \in Percentiles /\ (c.kind = "distribution" \/ c.kind = "rate")
      BY DEF Percentiles, ParsedClaims
    <3>2. theirs.eligible = Size(e) /\ theirs.metric = Metric(c, e)
      BY DEF ComputeClaim
    <3>. QED
      BY <3>1, <3>2 DEF Metric
  <2>6. R \in SUBSET DOMAIN e
    BY <2>2 DEF ReportEligible, Meets
  <2>7. Size(g) <= Size(e) /\ (Size(g) = Size(e) => g = e)
    <3>1. Cardinality(R) <= Cardinality(DOMAIN e) /\ (Cardinality(DOMAIN e) = Cardinality(R) => DOMAIN e = R)
      BY <2>2, <2>6, FS_Subset DEF RunsOK
    <3>. QED
      BY <2>2, <3>1 DEF Size
  <2>. HIDE DEF mine, e, g, R, theirs, local, p50
  <2>8. ASSUME Size(g) = Size(e), p50 # Null, p50.n = local.across.runs
        PROVE  /\ 2 * p50.at[50] <= local.across.twiceMedian
               /\ p50.min = local.across.min /\ p50.max = local.across.max
    <3>1. g = e
      BY <2>7, <2>8
    <3>2. Partial(spreads) /\ 50 \in Percentiles
      <4>1. 50 \in Percentiles
        BY DEF Percentiles
      <4>2. Partial(Carried(e, 50))
        BY <2>2, <4>1, CarriedIs
      <4>3. Partial([i \in DOMAIN e |-> RateOf(e[i])])
        BY <2>2, RatesAre
      <4>. QED
        BY <4>1, <4>2, <4>3
    <3>. DEFINE w == Present(spreads)
    <3>3. Family(w) /\ Size(w) \in Nat
      BY <3>2, PresentIs, OrderStatistic
    <3>. HIDE DEF spreads
    <3>4. /\ Size(w) # 0 /\ p50.n = Size(w)
          /\ p50.min = Sorted(w)[1] /\ p50.max = Sorted(w)[Size(w)]
          /\ p50.at[50] = Sorted(w)[Rank(Size(w), 50)]
      BY <2>5, <2>8, <3>2, SpreadIs
    <3>5. Family(values) /\ local.across.runs = Size(values)
      <4>1. Family(values)
        <5>1. CASE c.kind = "distribution"
          BY <2>2, <3>2, <5>1, CarriedIs
        <5>2. CASE c.kind # "distribution"
          <6>1. Partial(err(g))
            BY <2>2, ResultIs DEF RunsOK, Partial
          <6>. QED
            BY <5>2, <6>1, PresentIs
        <5>. QED
          BY <5>1, <5>2
      <4>. HIDE DEF values
      <4>2. Len(Sorted(values)) = Size(values)
        BY <4>1, OrderStatistic
      <4>. QED
        BY <2>4, <4>1, <4>2 DEF ReportSpread
    <3>6. values = w
      <4>1. CASE c.kind = "distribution"
        BY <2>2, <3>1, <3>2, <4>1, CarriedIs DEF spreads
      <4>2. CASE c.kind # "distribution"
        <5>. DEFINE q == err(e)
        <5>1. Partial(q) /\ values = Present(q)
          BY <2>2, <3>1, <4>2, ResultIs DEF RunsOK, Partial
        <5>2. /\ DOMAIN Present(q) = {i \in DOMAIN q : q[i] # Null}
              /\ \A i \in DOMAIN Present(q) : Present(q)[i] = q[i]
          BY <5>1, PresentIs
        <5>3. /\ DOMAIN w = {i \in DOMAIN spreads : spreads[i] # Null}
              /\ \A i \in DOMAIN w : w[i] = spreads[i]
          BY <3>2, PresentIs
        <5>4. \A i \in DOMAIN e : q[i] # Null => spreads[i] = q[i]
          BY <4>2 DEF spreads, RateOf
        <5>5. DOMAIN q = DOMAIN e /\ DOMAIN spreads = DOMAIN e
          BY <4>2 DEF spreads
        <5>. HIDE DEF q
        <5>6. DOMAIN Present(q) \in SUBSET DOMAIN w /\ \A i \in DOMAIN Present(q) : Present(q)[i] = w[i]
          BY <5>2, <5>3, <5>4, <5>5
        <5>7. DOMAIN Present(q) = DOMAIN w
          <6>1. Size(w) = Size(Present(q))
            BY <2>8, <3>4, <3>5, <5>1
          <6>. QED
            BY <3>3, <5>6, <6>1, FS_Subset DEF Family, Size
        <5>8. Family(Present(q))
          BY <3>5, <5>1
        <5>. QED
          BY <3>3, <5>1, <5>6, <5>7, <5>8 DEF Family
      <4>. QED
        BY <4>1, <4>2
    <3>. HIDE DEF values, w
    <3>7. /\ ReportSpread(w).min = Sorted(w)[1] /\ ReportSpread(w).max = Sorted(w)[Size(w)]
          /\ 2 * Sorted(w)[Rank(Size(w), 50)] <= ReportSpread(w).twiceMedian
      BY <3>3, <3>4, ReportSpreadIs
    <3>. QED
      BY <2>4, <3>4, <3>6, <3>7
  <2>. QED
    BY <2>4, <2>5, <2>7, <2>8 DEF mine, theirs, local, p50
<1>. QED
  BY <1>1, NoRunsSInv, JoinSInv, PTL DEF Growth
=============================================================================
