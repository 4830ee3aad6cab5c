---------------------------- MODULE QueryRelease ----------------------------
(***************************************************************************)
(* POST /v1/evidence/query (packages/service/src/modules/aggregate): the   *)
(* steps of cooperativeAnswer, each a statement of its own on the pool,    *)
(* while intake, withdrawal and the worker's cache eviction go on.  Those  *)
(* are here as single steps that implement EvidenceLog, which the          *)
(* transactions of EvidenceStore also implement.                           *)
(*                                                                         *)
(* The cohort an outcome was computed from is kept with it so that the     *)
(* properties can speak of it; the service stores ranges and hashes only.  *)
(***************************************************************************)
EXTENDS Cohort, Sequences

CONSTANTS
  Run,          \* runs that may be accepted: [id, org, proto, meas, tags, coop]
  Seeded,       \* rows accepted before the instance starts
  Withdrawal,   \* sets of run ids an organization may withdraw together
  Query,        \* [org, proto, filter, pin]; filter None: no context filter;
                \* pin None: no as_of_revision
  Session,      \* concurrent query requests
  None,
  Cap,          \* IWIK_QUERY_COHORT_CAP
  MaxRevision,  \* bound: evidence revisions
  MaxAsked      \* bound: queries asked

VARIABLES
  revision,   \* evidence.revision
  latest,     \* max(revision) of evidence.revision_log, per protocol
  rows,       \* evidence.runs: [id, org, proto, meas, tags, coop, suspect, rev]
  withdrawn,  \* evidence.withdrawals: the sets of ids withdrawn together
  evictions,  \* withdrawal_apply jobs: [protos, rev]
  cache,      \* evidence.cache: [digest, rev, outcome]
  releases,   \* evidence.cohort_releases, oldest first
  receipts,   \* evidence.receipts of kind query, with their claims
  sess,       \* per session: its query in progress, or None
  advisory,   \* per protocol: holder of the cohort_release lock, or None
  asked       \* queries so far

evidence == <<revision, latest, rows, withdrawn, evictions>>
answers == <<cache, releases, receipts>>
vars == <<revision, latest, rows, withdrawn, evictions, cache, releases, receipts,
          sess, advisory, asked>>

Proto == {c.proto : c \in Run \union Seeded}
RunId == {c.id : c \in Run \union Seeded}
Tag == UNION {c.tags : c \in Run \union Seeded}

Org == {c.org : c \in Run \union Seeded}
Measurement == {c.meas : c \in Run \union Seeded}

Row == [id : RunId, org : Org, proto : Proto, meas : Measurement, tags : SUBSET Tag,
        coop : BOOLEAN, suspect : BOOLEAN, rev : Nat]

ASSUME QueryAssumption ==
  /\ IsFiniteSet(Run) /\ IsFiniteSet(Seeded)
  /\ Seeded \subseteq Row /\ {c.rev : c \in Seeded} = 1 .. Cardinality(Seeded)
  /\ \A c \in Run : c.coop \in BOOLEAN
  /\ \A ids \in Withdrawal : ids # {}
  /\ \A k \in Query : /\ k.proto \in Proto /\ k.filter \in Tag \union {None}
                      /\ k.pin \in Nat \union {None}
  /\ None \notin Session \union Nat \union Tag
  /\ Cap \in Nat /\ MaxRevision \in Nat /\ MaxAsked \in Nat

\* The runs with withdrawn_at set.
gone == UNION withdrawn

\* queryDigest: the normalized question; who asks is no part of it, so one
\* cached answer serves every organization.
Digest(k) == [proto |-> k.proto, filter |-> k.filter, pin |-> k.pin]

Status == {"released", "suppressed", "insufficient_evidence"}
Reason == {"min_orgs", "min_runs", "concentration", "differencing",
           "cohort_too_large", "no_cooperative_evidence"}

Outcome == [status : Status, reasons : SUBSET Reason, cohort : SUBSET Row, limited : BOOLEAN]

NoOutcome == [status |-> "insufficient_evidence", reasons |-> {}, cohort |-> {}, limited |-> FALSE]

Pc == {"cache", "count", "load", "pin", "own", "lock", "commit"}

\* A query in progress; formed and hit are cohort_formed and fromCache.
Request == [pc : Pc, query : Query, rev : Nat, outcome : Outcome, formed : BOOLEAN,
            hit : BOOLEAN, own : SUBSET RunId]

Release == [proto : Proto, filter : Tag \union {None}, rev : Nat, members : SUBSET Org,
            count : Nat]

TypeOK ==
  /\ revision \in Nat /\ latest \in [Proto -> 0 .. revision]
  /\ rows \subseteq Row /\ \A r \in rows : r.rev \in 1 .. revision
  /\ withdrawn \subseteq SUBSET {r.id : r \in rows}
  /\ evictions \subseteq [protos : SUBSET Proto, rev : 1 .. revision]
  /\ cache \subseteq [digest : {Digest(k) : k \in Query}, rev : 0 .. revision, outcome : Outcome]
  /\ releases \in Seq(Release)
  /\ receipts \subseteq [query : Query, rev : 0 .. revision, outcome : Outcome, own : SUBSET RunId]
  /\ sess \in [Session -> Request \union {None}]
  /\ \A s \in Session : sess[s] # None => sess[s].rev <= revision
  /\ advisory \in [Proto -> Session \union {None}]
  /\ asked \in 0 .. MaxAsked

Init ==
  /\ revision = Cardinality(Seeded)
  /\ latest = [p \in Proto |-> Max({0} \union {c.rev : c \in {d \in Seeded : d.proto = p}})]
  /\ rows = Seeded
  /\ withdrawn = {}
  /\ evictions = {}
  /\ cache = {}
  /\ releases = <<>>
  /\ receipts = {}
  /\ sess = [s \in Session |-> None]
  /\ advisory = [p \in Proto |-> None]
  /\ asked = 0

-----------------------------------------------------------------------------
\* The evidence, as the readers see it change (see EvidenceStore).

Bump(P) ==
  /\ revision < MaxRevision
  /\ revision' = revision + 1
  /\ latest' = [p \in Proto |-> IF p \in P THEN revision + 1 ELSE latest[p]]

SharedWith(c) ==
  {r \in rows : r.proto = c.proto /\ r.meas = c.meas}

AcceptRun(c) ==
  LET shared == \E r \in SharedWith(c) : r.id \notin gone /\ r.org # c.org IN
  /\ c.id \notin {r.id : r \in rows}
  /\ Bump({c.proto})
  /\ rows' = {IF shared /\ r \in SharedWith(c) THEN [r EXCEPT !.suspect = TRUE] ELSE r : r \in rows}
             \union {[id |-> c.id, org |-> c.org, proto |-> c.proto, meas |-> c.meas,
                      tags |-> c.tags, coop |-> c.coop, suspect |-> shared, rev |-> revision + 1]}
  /\ UNCHANGED <<withdrawn, evictions, answers, sess, advisory, asked>>

\* Slip: the withdrawal is not written to the revision log.
WithdrawUnlogged(ids) ==
  LET protos == {r.proto : r \in {x \in rows : x.id \in ids}} IN
  /\ ids \subseteq {r.id : r \in rows} /\ ids \notin withdrawn
  /\ Bump({})
  /\ withdrawn' = withdrawn \union {ids}
  /\ evictions' = evictions \union {[protos |-> protos, rev |-> revision + 1]}
  /\ UNCHANGED <<rows, answers, sess, advisory, asked>>

Withdraw(ids) ==
  LET protos == {r.proto : r \in {x \in rows : x.id \in ids}} IN
  /\ ids \subseteq {r.id : r \in rows} /\ ids \notin withdrawn
  /\ Bump(protos)
  /\ withdrawn' = withdrawn \union {ids}
  /\ evictions' = evictions \union {[protos |-> protos, rev |-> revision + 1]}
  /\ UNCHANGED <<rows, answers, sess, advisory, asked>>

\* withdrawal_apply evicts what the withdrawal made stale; the queue may run
\* it again (EvidenceStore!ApplyWithdrawal has the rest of the handler).
ApplyWithdrawal(j) ==
  /\ cache' = {e \in cache : ~(e.rev < j.rev /\ e.digest.proto \in j.protos)}
  /\ evictions' \in {evictions, evictions \ {j}}
  /\ UNCHANGED <<revision, latest, rows, withdrawn, releases, receipts, sess, advisory, asked>>

-----------------------------------------------------------------------------
\* The query.

Matches(k, r) == k.filter = None \/ k.filter \in r.tags

\* CANDIDATE_WHERE: countable, cooperative, matching, not withdrawn, accepted
\* at or before the pin.
Candidates(k, rev) ==
  {r \in rows : /\ r.proto = k.proto /\ r.coop /\ Matches(k, r)
                /\ r.id \notin gone /\ r.rev <= rev}

At(s, p) == sess[s] # None /\ sess[s].pc = p

PinAccepted(k) == k.pin # None => k.pin <= revision

\* currentRevision; a pin in the future is a 422.
Ask(s, k) ==
  LET rev == IF k.pin # None THEN k.pin ELSE revision IN
  /\ sess[s] = None
  /\ asked < MaxAsked
  /\ PinAccepted(k)
  /\ asked' = asked + 1
  /\ sess' = [sess EXCEPT ![s] =
       [pc |-> "cache", query |-> k, rev |-> rev, outcome |-> NoOutcome,
        formed |-> FALSE, hit |-> FALSE, own |-> {}]]
  /\ UNCHANGED <<evidence, answers, advisory>>

\* A cached row counts only while its revision is the latest of its protocol.
Valid(e) == e.rev >= latest[e.digest.proto]

\* readCachedOutcome; an outdated row is deleted on the spot.
ReadCache(s) ==
  LET hits == {e \in cache : e.digest = Digest(sess[s].query) /\ e.rev = sess[s].rev} IN
  /\ At(s, "cache")
  /\ \/ \E e \in hits :
          /\ Valid(e)
          /\ sess' = [sess EXCEPT ![s].pc = "own", ![s].outcome = e.outcome,
                                  ![s].formed = TRUE, ![s].hit = TRUE]
          /\ UNCHANGED cache
     \/ /\ \A e \in hits : ~Valid(e)
        /\ cache' = cache \ hits
        /\ sess' = [sess EXCEPT ![s].pc = "count"]
  /\ UNCHANGED <<evidence, releases, receipts, advisory, asked>>

Suppressed(C, reasons) ==
  [status |-> "suppressed", reasons |-> reasons, cohort |-> C, limited |-> FALSE]

\* resolveOutcome, countCandidates: none, too many, or load them.
Count(s) ==
  LET C == Candidates(sess[s].query, sess[s].rev) IN
  /\ At(s, "count")
  /\ \/ /\ C = {}
        /\ sess' = [sess EXCEPT ![s].pc = "own",
             ![s].outcome = [NoOutcome EXCEPT !.reasons = {"no_cooperative_evidence"}]]
     \/ /\ Cardinality(C) > Cap
        /\ sess' = [sess EXCEPT ![s].pc = "own",
             ![s].outcome = Suppressed(C, {"cohort_too_large"})]
     \/ /\ Cardinality(C) \in 1 .. Cap
        /\ sess' = [sess EXCEPT ![s].pc = "load"]
  /\ UNCHANGED <<evidence, answers, advisory, asked>>

\* resolveOutcome, loadCandidates and the calculation over their bodies.
Load(s) ==
  LET C == Candidates(sess[s].query, sess[s].rev)
      reasons == ThresholdReasons(C)
      released == [status |-> "released", reasons |-> {}, cohort |-> C, limited |-> FALSE]
  IN
  /\ At(s, "load")
  /\ sess' = [sess EXCEPT
       ![s].formed = TRUE,
       ![s].outcome = IF reasons # {} THEN Suppressed(C, reasons) ELSE released,
       ![s].pc = IF reasons = {} /\ sess[s].query.pin # None THEN "pin" ELSE "own"]
  /\ UNCHANGED <<evidence, answers, advisory, asked>>

\* Releases recorded for this protocol and filter at this revision.
ReleasedAt(k, rev) ==
  SelectSeq(releases, LAMBDA r : r.proto = k.proto /\ r.filter = k.filter /\ r.rev = rev)

\* pinnedReleaseReproduced: same members and count as the first of them.
Reproduces(k, rev, C) ==
  LET at == ReleasedAt(k, rev) IN
  at = <<>> \/ (at[1].members = OrgsOf(C) /\ at[1].count = Cardinality(C))

CheckPin(s) ==
  /\ At(s, "pin")
  /\ sess' = [sess EXCEPT ![s].pc = "own",
       ![s].outcome.limited = ~Reproduces(sess[s].query, sess[s].rev, sess[s].outcome.cohort)]
  /\ UNCHANGED <<evidence, answers, advisory, asked>>

\* Slip: a pinned answer is not a release of its own.
ReleasingUnpinned(s) ==
  sess[s].outcome.status = "released" /\ ~sess[s].hit /\ sess[s].query.pin = None

\* The release still to be decided: a computed one, not a cached one.
Releasing(s) == sess[s].outcome.status = "released" /\ ~sess[s].hit

OwnCompatible(s) ==
  {r \in Candidates(sess[s].query, sess[s].rev) : r.org = sess[s].query.org}

\* ownEvidence: the caller's compatible runs, said to be in the cohort when
\* one was formed.
OwnEvidence(s) ==
  /\ At(s, "own")
  /\ sess' = [sess EXCEPT
       ![s].own = IF sess[s].formed THEN {r.id : r \in OwnCompatible(s)} ELSE {},
       ![s].pc = IF Releasing(s) THEN "lock" ELSE "commit"]
  /\ UNCHANGED <<evidence, answers, advisory, asked>>

\* Slip: no advisory lock.
LockFreeAlways(p) == TRUE

LockFree(p) == advisory[p] = None

\* BEGIN, pg_advisory_xact_lock, and the differencing check under it.
DecideRelease(s) ==
  LET proto == sess[s].query.proto
      priors == {releases[i].members : i \in {j \in DOMAIN releases : releases[j].proto = proto}}
      C == sess[s].outcome.cohort
  IN
  /\ At(s, "lock")
  /\ LockFree(proto)
  /\ advisory' = [advisory EXCEPT ![proto] = s]
  /\ sess' = [sess EXCEPT ![s].pc = "commit",
       ![s].outcome = IF DifferencingConflict(priors, OrgsOf(C))
                      THEN Suppressed(C, {"differencing"}) ELSE @]
  /\ UNCHANGED <<evidence, answers, asked>>

Finish(s) ==
  /\ sess' = [sess EXCEPT ![s] = None]
  /\ advisory' = [p \in Proto |-> IF advisory[p] = s THEN None ELSE advisory[p]]

\* Slip: the receipt is stamped with the revision of the commit.
RevisionNow(s) == revision

\* The receipt is pinned at the revision the cohort was asked for at.
PinnedRevision(s) == sess[s].rev

\* Outcomes without a formed cohort are recomputed, never cached.
Cacheable(s) == ~sess[s].hit /\ sess[s].formed

\* The transaction's writes: receipt (and its claims), release, cache row.
Commit(s) ==
  LET k == sess[s].query
      rev == PinnedRevision(s)
      o == sess[s].outcome
      known == \E e \in cache : e.digest = Digest(k) /\ e.rev = rev
  IN
  /\ At(s, "commit")
  /\ receipts' = receipts \union {[query |-> k, rev |-> rev, outcome |-> o, own |-> sess[s].own]}
  /\ releases' = IF Releasing(s)
                 THEN Append(releases, [proto |-> k.proto, filter |-> k.filter, rev |-> rev,
                                        members |-> OrgsOf(o.cohort),
                                        count |-> Cardinality(o.cohort)])
                 ELSE releases
  /\ cache' = IF Cacheable(s) /\ ~known
              THEN cache \union {[digest |-> Digest(k), rev |-> rev, outcome |-> o]} ELSE cache
  /\ Finish(s)
  /\ UNCHANGED <<evidence, asked>>

\* The request fails anywhere: an exception, a lost connection, a restart.
Fail(s) ==
  /\ sess[s] # None
  /\ Finish(s)
  /\ UNCHANGED <<evidence, answers, asked>>

-----------------------------------------------------------------------------
Step(s) ==
  \/ \E k \in Query : Ask(s, k)
  \/ ReadCache(s) \/ Count(s) \/ Load(s) \/ CheckPin(s) \/ OwnEvidence(s)
  \/ DecideRelease(s) \/ Commit(s) \/ Fail(s)

Next ==
  \/ \E c \in Run : AcceptRun(c)
  \/ \E ids \in Withdrawal : Withdraw(ids)
  \/ \E j \in evictions : ApplyWithdrawal(j)
  \/ \E s \in Session : Step(s)

Spec == Init /\ [][Next]_vars

-----------------------------------------------------------------------------
\* Properties.

\* The differencing defence: any two releases of a protocol have the same
\* members or differ by MinOrgDifference organizations, whatever queries,
\* filters, pins and withdrawals raced.
ReleasesDiffer ==
  \A i, j \in DOMAIN releases :
    LET A == releases[i].members
        B == releases[j].members IN
    releases[i].proto = releases[j].proto
    => A = B \/ Cardinality(SymmetricDifference(A, B)) >= MinOrgDifference

Fresh(t) == latest[t.query.proto] <= t.rev

\* Staleness on read: a query receipt that does not read `stale' was computed
\* from exactly the candidates the same query has now, nothing withdrawn.
FreshReceiptIsCurrent ==
  \A t \in receipts : Fresh(t) => t.outcome.cohort = Candidates(t.query, t.rev)

\* The answer cache: a row that would be served holds what a new computation
\* over the evidence would release, and serving it without a new differencing
\* check is safe.
CacheIsCurrent ==
  \A e \in cache : Valid(e) =>
    /\ e.outcome.cohort = Candidates(e.digest, e.rev)
    /\ e.outcome.status = "released"
       => /\ ThresholdReasons(e.outcome.cohort) = {}
          /\ \A i \in DOMAIN releases :
               releases[i].proto = e.digest.proto
               => ~DifferencingConflict({releases[i].members}, OrgsOf(e.outcome.cohort))

\* Every released receipt, cached answers included, has a recorded release with
\* its members, so that later cohorts are compared with it.
ReleasesAreRecorded ==
  \A t \in receipts : t.outcome.status = "released" =>
    \E i \in DOMAIN releases : /\ releases[i].proto = t.query.proto
                               /\ releases[i].members = OrgsOf(t.outcome.cohort)

\* Every released receipt, pinned and cached answers included, rests on enough
\* runs of enough organizations, and keeps at least half of its runs without any
\* one contributor, those linked by a flagged measurement being one.
ReleasedReceiptsQualify ==
  \A t \in receipts : t.outcome.status = "released" =>
    LET C == t.outcome.cohort IN
    /\ Cardinality(C) >= MinRuns /\ Cardinality(OrgsOf(C)) >= MinOrgs
    /\ \A u \in Contributors(C) : 2 * Cardinality({r \in C : r.org \notin u}) >= Cardinality(C)

CohortRow(r) == [id |-> r.id, org |-> r.org, meas |-> r.meas, suspect |-> r.suspect, rev |-> r.rev]

\* The evidence steps above are steps of the log EvidenceStore implements.
Log == INSTANCE EvidenceLog WITH
         cohort <- [p \in Proto |->
                      {CohortRow(r) : r \in {x \in rows : x.proto = p /\ x.coop
                                                          /\ x.id \notin gone}}]

ReadsTheLog == [][Log!Next]_Log!logVars

=============================================================================
