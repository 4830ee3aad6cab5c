---------------------------- MODULE EvidenceStore ----------------------------
(***************************************************************************)
(* The evidence schema and everything that writes it: intake (preview,     *)
(* submit), withdrawal, node revocation, and the worker jobs that repair   *)
(* rows which predate a migration (packages/service/src/modules/intake,    *)
(* withdrawal, cohort/contributions.ts, jobs/handlers.ts).                 *)
(*                                                                         *)
(* A request is a session.  Its transaction begins (now() is fixed there), *)
(* waits for the FOR UPDATE lock on the evidence.revision singleton and    *)
(* reads what it decides on, and writes and commits: three steps, since    *)
(* PostgreSQL runs the transactions of other sessions, and the statements  *)
(* of the worker and of the operator, which never take that lock, between. *)
(***************************************************************************)
EXTENDS Naturals, FiniteSets, FiniteSetsExt

CONSTANTS
  Doc,         \* run documents [id, node, proto, meas, fixture, coop] that
               \* pass the envelope schema and the secret rescan
  Request,     \* withdrawal requests [org, node, ids], node = None for the
               \* console; ids is normalized, a set
  Unpreviewed, \* documents not previewed at the start (previews of the others
               \* outlive the instance)
  Revocable,   \* nodes the operator may revoke
  Registered,  \* protocols the registry has as accepted
  Node,        \* nodes
  OrgOf,       \* node -> organization
  Session,     \* concurrent API requests
  None,        \* SQL NULL
  Legacy,      \* documents stored before the stage 7 and 8 migrations
  LegacyGone,  \* the legacy documents withdrawn before the stage 8 migration
  Unreadable,  \* documents whose stored body cannot be opened
  FlagChanges, \* TRUE: IWIK_FEATURE_DEDUPE may change at a restart
  MaxClock     \* bound: transactions begun

VARIABLES
  revision,    \* evidence.revision
  runs,        \* evidence.runs: id -> row, or None
  receipts,    \* evidence.receipts of kind intake
  revlog,      \* evidence.revision_log
  ledger,      \* evidence.contributions: <<proto, org>> -> counts, or None
  withdrawals, \* evidence.withdrawals
  applyJobs,   \* withdrawals whose withdrawal_apply job is queued
  previews,    \* document -> "none", "live" or "expired"
  revoked,     \* identity.nodes with revoked_at set
  dedupe,      \* IWIK_FEATURE_DEDUPE
  sess,        \* session -> its request, or None
  lock,        \* holder of the FOR UPDATE lock on evidence.revision, or None
  clock,       \* source of now()
  bf           \* the index_backfill job

dbVars == <<revision, runs, receipts, revlog, ledger, withdrawals, applyJobs>>
vars == <<revision, runs, receipts, revlog, ledger, withdrawals, applyJobs,
          previews, revoked, dedupe, sess, lock, clock, bf>>

Org == {OrgOf[n] : n \in Node}
RunId == {d.id : d \in Doc}
Proto == {d.proto : d \in Doc}
Account == Proto \X Org

ASSUME EvidenceAssumption ==
  /\ \A d \in Doc : d.id \in Nat /\ d.node \in Node
                    /\ d.fixture \in BOOLEAN /\ d.coop \in BOOLEAN
  /\ \A r \in Request : /\ r.org \in Org /\ r.ids \subseteq RunId /\ r.ids # {}
                        /\ r.node # None => r.node \in Node /\ OrgOf[r.node] = r.org
  /\ Registered \subseteq Proto /\ Unpreviewed \subseteq Doc /\ Revocable \subseteq Node
  /\ Legacy \subseteq Doc /\ IsFiniteSet(Legacy) /\ Unreadable \subseteq Doc /\ LegacyGone \subseteq Legacy
  /\ None \notin RunId /\ None \notin Session /\ None \notin Node
  /\ \A d, e \in Legacy : d.id = e.id => d = e
  /\ {d.id : d \in Legacy} = 1 .. Cardinality(Legacy)
  /\ \A d, e \in LegacyGone : OrgOf[d.node] = OrgOf[e.node]
  /\ FlagChanges \in BOOLEAN /\ MaxClock \in Nat

OrgOfDoc(d) == OrgOf[d.node]
Stored == {i \in RunId : runs[i] # None}

Row == [doc : Doc, at : Nat, rev : Nat, dup : RunId \union {None}, suspect : BOOLEAN,
        wd : Nat, idx : BOOLEAN, trusted : BOOLEAN]

WithdrawOp == [kind : {"withdraw"}, req : Request]
StoreOp == [kind : {"store"}, doc : Doc]

\* An open transaction; dup and shared are what storeRun read under the lock.
Tx == [pc : {"begun", "locked"}, op : StoreOp \union WithdrawOp, at : Nat,
       dup : RunId \union {None}, shared : BOOLEAN]

BackfillPc == {"off", "project", "dups", "suspects", "count", "write", "zero", "done", "failed"}
Tally == [accepted : Nat, withdrawn : Nat]

\* NULL is no row, no transaction and no pair of counts.
ASSUME NullAssumption == None \notin Row /\ None \notin Tx /\ None \notin Tally

TypeOK ==
  /\ revision \in Nat
  /\ runs \in [RunId -> Row \union {None}]
  /\ receipts \subseteq [id : RunId, status : {"accepted", "duplicate"}, rev : Nat]
  /\ revlog \subseteq [rev : Nat, proto : Proto, kind : {"intake", "withdrawal"}]
  /\ ledger \in [Account -> Tally \union {None}]
  /\ withdrawals \subseteq [org : Org, ids : SUBSET RunId, rev : Nat]
  /\ applyJobs \subseteq withdrawals
  /\ previews \in [Doc -> {"none", "live", "expired"}]
  /\ revoked \subseteq Node
  /\ dedupe \in BOOLEAN
  /\ sess \in [Session -> Tx \union {None}]
  /\ lock \in Session \union {None}
  /\ clock \in Nat
  /\ bf \in [pc : BackfillPc, cursor : Nat, skipped : BOOLEAN, marked : BOOLEAN,
            tally : [Account -> Tally \union {None}]]

\* A row inserted by an earlier release of the service: no projection yet and
\* an untrusted sharing column; ids of legacy rows are their revisions.
LegacyRow(d) == [doc |-> d, at |-> 0, rev |-> d.id, dup |-> None, suspect |-> FALSE,
                 wd |-> IF d \in LegacyGone THEN Cardinality(Legacy) + 1 ELSE 0,
                 idx |-> FALSE, trusted |-> FALSE]

LegacyWithdrawals ==
  {[org |-> OrgOf[d.node], ids |-> {e.id : e \in LegacyGone}, rev |-> Cardinality(Legacy) + 1] :
     d \in LegacyGone}

Zero == [accepted |-> 0, withdrawn |-> 0]
NoTally == [a \in Account |-> None]
BackfillOff == [pc |-> "off", cursor |-> 0, skipped |-> FALSE, marked |-> FALSE,
                tally |-> NoTally]

Init ==
  /\ revision = Cardinality(Legacy) + Cardinality(LegacyWithdrawals)
  /\ runs = [i \in RunId |-> IF \E d \in Legacy : d.id = i
                             THEN LegacyRow(CHOOSE d \in Legacy : d.id = i) ELSE None]
  /\ receipts = {[id |-> d.id, status |-> "accepted", rev |-> d.id] : d \in Legacy}
  /\ revlog = {[rev |-> d.id, proto |-> d.proto, kind |-> "intake"] : d \in Legacy}
       \union {[rev |-> Cardinality(Legacy) + 1, proto |-> d.proto, kind |-> "withdrawal"] :
                 d \in LegacyGone}
  /\ ledger = NoTally
  /\ withdrawals = LegacyWithdrawals
  /\ applyJobs = {}
  /\ previews = [d \in Doc |-> IF d \in Unpreviewed THEN "none" ELSE "live"]
  /\ revoked = {}
  /\ dedupe \in IF FlagChanges THEN BOOLEAN ELSE {TRUE}
  /\ sess = [s \in Session |-> None]
  /\ lock = None
  /\ clock = 0
  /\ bf = BackfillOff

-----------------------------------------------------------------------------
\* What a stored row counts for.

Withdrawn(r) == r.wd # 0

\* Trusted projection, not a fixture, not a duplicate: what the ledger counts.
Countable(r) == r.idx /\ ~r.doc.fixture /\ r.dup = None

\* What a cohort can be formed from (matching, CANDIDATE_WHERE): countable,
\* cooperative with a trusted sharing column, not withdrawn.
Candidate(r) == Countable(r) /\ r.trusted /\ r.doc.coop /\ ~Withdrawn(r)

Candidates(p) == {i \in Stored : Candidate(runs[i]) /\ runs[i].doc.proto = p}

\* (received_at, run_id) order.
Earlier(i, j) == runs[i].at < runs[j].at \/ (runs[i].at = runs[j].at /\ i < j)

SameMeasurement(d) ==
  {i \in Stored : runs[i].idx /\ runs[i].doc.proto = d.proto /\ runs[i].doc.meas = d.meas}

-----------------------------------------------------------------------------
\* Intake.

\* checkRun: the registry and identity checks; every other 422 is a document
\* outside Doc.
CheckRun(d, n) == d.proto \in Registered /\ d.node = n

Preview(d) ==
  /\ d.node \notin revoked
  /\ CheckRun(d, d.node)
  /\ previews[d] # "live"
  /\ previews' = [previews EXCEPT ![d] = "live"]
  /\ UNCHANGED <<dbVars, revoked, dedupe, sess, lock, clock, bf>>

PreviewExpires(d) ==
  /\ d \in Unpreviewed /\ previews[d] = "live"
  /\ previews' = [previews EXCEPT ![d] = "expired"]
  /\ UNCHANGED <<dbVars, revoked, dedupe, sess, lock, clock, bf>>

ReapPreviews ==
  /\ \E d \in Doc : previews[d] = "expired"
  /\ previews' = [d \in Doc |-> IF previews[d] = "expired" THEN "none" ELSE previews[d]]
  /\ UNCHANGED <<dbVars, revoked, dedupe, sess, lock, clock, bf>>

\* withTransaction: BEGIN fixes now().
Begin(s, op) ==
  /\ sess[s] = None
  /\ clock < MaxClock
  /\ clock' = clock + 1
  /\ sess' = [sess EXCEPT ![s] = [pc |-> "begun", op |-> op, at |-> clock + 1,
                                  dup |-> None, shared |-> FALSE]]
  /\ UNCHANGED <<dbVars, previews, revoked, dedupe, lock, bf>>

\* POST /v1/runs up to storeRun: auth hook, checks, preview binding, signature.
SubmitRun(s, d) ==
  /\ d.node \notin revoked
  /\ CheckRun(d, d.node)
  /\ previews[d] = "live"
  /\ Begin(s, [kind |-> "store", doc |-> d])

\* POST /v1/withdrawals (with the caller's node) and POST /org/withdrawals.
RequestWithdrawal(s, r) ==
  /\ r.node \notin revoked
  /\ Begin(s, [kind |-> "withdraw", req |-> r])

End(s) ==
  /\ sess' = [sess EXCEPT ![s] = None]
  /\ lock' = IF lock = s THEN None ELSE lock

\* Rollback on an error or a lost connection, at any point before COMMIT.
Abort(s) ==
  /\ sess[s] # None
  /\ End(s)
  /\ UNCHANGED <<dbVars, previews, revoked, dedupe, clock, bf>>

\* The dedupe lookup of storeRun: unwithdrawn rows of the same measurement.
Matches(d) == {i \in SameMeasurement(d) : ~Withdrawn(runs[i])}
Own(d) == {i \in Matches(d) : OrgOfDoc(runs[i].doc) = OrgOfDoc(d)}

Earliest(S) == CHOOSE i \in S : \A j \in S : i = j \/ Earlier(i, j)

DuplicateOf(d) ==
  LET originals == {i \in Own(d) : runs[i].dup = None} IN
  IF ~dedupe \/ Own(d) = {} THEN None
  ELSE IF originals # {} THEN Earliest(originals) ELSE Earliest(Own(d))

SharedSource(d) == dedupe /\ Matches(d) # Own(d)

OwnedBy(o) == {i \in Stored : OrgOfDoc(runs[i].doc) = o}
OpNode(op) == IF op.kind = "store" THEN op.doc.node ELSE op.req.node

\* The early exits under the lock, none of which writes: 401 for a revoked
\* node; for a known run_id 200 (same content) or 409; 404 for a foreign or
\* unknown id; 200 for a set already withdrawn.
Refused(op) ==
  \/ OpNode(op) \in revoked
  \/ op.kind = "store" /\ runs[op.doc.id] # None
  \/ op.kind = "withdraw" /\ ~(op.req.ids \subseteq OwnedBy(op.req.org))
  \/ op.kind = "withdraw"
     /\ \E w \in withdrawals : w.org = op.req.org /\ w.ids = op.req.ids

\* Slip: SELECT without FOR UPDATE: nobody waits.
AcquireAlways(s) == sess[s] # None /\ sess[s].pc = "begun"

\* SELECT revision ... FOR UPDATE is granted.
Acquire(s) == sess[s] # None /\ sess[s].pc = "begun" /\ lock = None

Refuse(s) ==
  /\ Acquire(s)
  /\ Refused(sess[s].op)
  /\ End(s)
  /\ UNCHANGED <<dbVars, previews, revoked, dedupe, clock, bf>>

\* The reads of the transaction: what it will write is decided here.
Decide(s) ==
  LET op == sess[s].op IN
  /\ Acquire(s)
  /\ ~Refused(op)
  /\ lock' = s
  /\ sess' = [sess EXCEPT ![s].pc = "locked",
                          ![s].dup = IF op.kind = "store" THEN DuplicateOf(op.doc) ELSE None,
                          ![s].shared = op.kind = "store" /\ SharedSource(op.doc)]
  /\ UNCHANGED <<dbVars, previews, revoked, dedupe, clock, bf>>

Holds(s, kind) == sess[s] # None /\ sess[s].pc = "locked" /\ sess[s].op.kind = kind

CountOf(a) == IF ledger[a] = None THEN Zero ELSE ledger[a]

\* recordContribution: only a countable run touches the ledger.
Recorded(d, dup) ==
  LET a == <<d.proto, OrgOfDoc(d)>> IN
  IF d.fixture \/ dup # None THEN ledger
  ELSE [ledger EXCEPT ![a] = [CountOf(a) EXCEPT !.accepted = @ + 1]]

\* Slip: the UPDATE that flags the earlier rows is missing.
SuspectsNone(d, shared) == {}

\* The rows storeRun flags as shared-source suspects, withdrawn or not.
Suspects(d, shared) == IF shared THEN SameMeasurement(d) ELSE {}

\* Slip: a duplicate takes a revision of its own without logging it.
NextRevisionAlways(dup) == revision + 1

NextRevision(dup) == IF dup = None THEN revision + 1 ELSE revision

\* The writes of storeRun; run_id is the primary key.
StoreNew(s) ==
  LET d == sess[s].op.doc
      dup == sess[s].dup
      rev == NextRevision(dup)
      row == [doc |-> d, at |-> sess[s].at, rev |-> rev, dup |-> dup,
              suspect |-> sess[s].shared, wd |-> 0, idx |-> TRUE, trusted |-> TRUE]
  IN
  /\ Holds(s, "store")
  /\ runs[d.id] = None
  /\ revision' = rev
  /\ revlog' = IF dup = None
               THEN revlog \union {[rev |-> rev, proto |-> d.proto, kind |-> "intake"]}
               ELSE revlog
  /\ receipts' = receipts \union
       {[id |-> d.id, status |-> IF dup = None THEN "accepted" ELSE "duplicate", rev |-> rev]}
  /\ runs' = [i \in RunId |->
                IF i = d.id THEN row
                ELSE IF i \in Suspects(d, sess[s].shared) THEN [runs[i] EXCEPT !.suspect = TRUE]
                ELSE runs[i]]
  /\ ledger' = Recorded(d, dup)
  /\ End(s)
  /\ UNCHANGED <<withdrawals, applyJobs, previews, revoked, dedupe, clock, bf>>

-----------------------------------------------------------------------------
\* Withdrawal.

Monus(a, b) == IF a >= b THEN a - b ELSE 0

\* What marking `ids' of organization o newly withdraws of account a.
Newly(a, o, ids) ==
  {i \in ids : ~Withdrawn(runs[i]) /\ Countable(runs[i]) /\ <<runs[i].doc.proto, o>> = a}

\* Slip: a run that was withdrawn before is moved again.
MovedAgain(o, ids) ==
  [a \in Account |->
     LET n == Cardinality({i \in ids : Countable(runs[i]) /\ <<runs[i].doc.proto, o>> = a}) IN
     IF ledger[a] = None THEN None
     ELSE [accepted |-> Monus(ledger[a].accepted, n), withdrawn |-> ledger[a].withdrawn + n]]

\* The counted runs this request withdrew move from accepted to withdrawn; an
\* account without a ledger row has nothing to move.
Moved(o, ids) ==
  [a \in Account |->
     LET n == Cardinality(Newly(a, o, ids)) IN
     IF ledger[a] = None THEN None
     ELSE [accepted |-> Monus(ledger[a].accepted, n), withdrawn |-> ledger[a].withdrawn + n]]

\* Runs withdrawn by an earlier request keep their earlier marks.
Marked(ids, rev) ==
  [i \in RunId |-> IF i \in ids /\ ~Withdrawn(runs[i])
                   THEN [runs[i] EXCEPT !.wd = rev] ELSE runs[i]]

WithdrawRuns(s) ==
  LET op == sess[s].op.req
      rev == revision + 1
      w == [org |-> op.org, ids |-> op.ids, rev |-> rev]
  IN
  /\ Holds(s, "withdraw")
  /\ revision' = rev
  /\ withdrawals' = withdrawals \union {w}
  /\ runs' = Marked(op.ids, rev)
  /\ ledger' = Moved(op.org, op.ids)
  /\ revlog' = revlog \union
       {[rev |-> rev, proto |-> runs[i].doc.proto, kind |-> "withdrawal"] : i \in op.ids}
  /\ applyJobs' = applyJobs \union {w}
  /\ End(s)
  /\ UNCHANGED <<receipts, previews, revoked, dedupe, clock, bf>>

\* withdrawal_apply, as often as the queue runs it: re-assert missing marks.
\* (Its cache eviction is QueryRelease!ApplyWithdrawal.)
ApplyWithdrawal(w) ==
  /\ w \in applyJobs
  /\ runs' = Marked(w.ids, w.rev)
  /\ applyJobs' \in {applyJobs, applyJobs \ {w}}
  /\ UNCHANGED <<revision, receipts, revlog, ledger, withdrawals,
                 previews, revoked, dedupe, sess, lock, clock, bf>>

-----------------------------------------------------------------------------
\* Identity and configuration.

RevokeNode(n) ==
  /\ n \in Revocable \ revoked
  /\ revoked' = revoked \union {n}
  /\ UNCHANGED <<dbVars, previews, dedupe, sess, lock, clock, bf>>

\* A restart with another value of the flag: open transactions roll back and
\* the backfill, if it is running, is cut off.
ChangeFlag ==
  /\ FlagChanges
  /\ dedupe' = ~dedupe
  /\ sess' = [s \in Session |-> None]
  /\ lock' = None
  /\ bf' = IF bf.pc \in {"off", "done", "failed"} THEN bf ELSE BackfillOff
  /\ UNCHANGED <<dbVars, previews, revoked, clock>>

-----------------------------------------------------------------------------
\* The worker's backfills.  Every statement commits on its own.

\* sharing_backfill takes the untrusted rows in arrival order; one that cannot
\* be opened throws, so the rows behind it wait for good.
SharingBackfill ==
  LET untrusted == {i \in Stored : ~runs[i].trusted} IN
  /\ untrusted # {}
  /\ runs[Min(untrusted)].doc \notin Unreadable
  /\ runs' = [runs EXCEPT ![Min(untrusted)].trusted = TRUE]
  /\ UNCHANGED <<revision, receipts, revlog, ledger, withdrawals, applyJobs,
                 previews, revoked, dedupe, sess, lock, clock, bf>>

\* ensureMaintenanceJobs enqueues index_backfill while a row lacks its
\* projection; a retry or a recovered stale lock starts the handler afresh.
StartIndexBackfill ==
  /\ bf.pc \in {"off", "failed"}
  /\ \E i \in Stored : ~runs[i].idx
  /\ bf' = [BackfillOff EXCEPT !.pc = "project"]
  /\ UNCHANGED <<dbVars, previews, revoked, dedupe, sess, lock, clock>>

CrashIndexBackfill ==
  /\ bf.pc \notin {"off", "done", "failed"}
  /\ bf' = BackfillOff
  /\ UNCHANGED <<dbVars, previews, revoked, dedupe, sess, lock, clock>>

\* Legacy rows share received_at = 0, so the keyset cursor is the id.
Pending == {i \in Stored : ~runs[i].idx /\ i > bf.cursor}

ProjectRow ==
  /\ bf.pc = "project" /\ Pending # {}
  /\ LET i == Min(Pending)
         readable == runs[i].doc \notin Unreadable
     IN /\ runs' = IF readable THEN [runs EXCEPT ![i].idx = TRUE] ELSE runs
        /\ bf' = [bf EXCEPT !.cursor = i, !.skipped = @ \/ ~readable]
  /\ UNCHANGED <<revision, receipts, revlog, ledger, withdrawals, applyJobs,
                 previews, revoked, dedupe, sess, lock, clock>>

ProjectEnds ==
  /\ bf.pc = "project" /\ Pending = {}
  /\ bf' = [bf EXCEPT !.pc = IF dedupe THEN "dups" ELSE "count"]
  /\ UNCHANGED <<dbVars, previews, revoked, dedupe, sess, lock, clock>>

\* Slip: the original is looked up per node.
OriginalOfNode(i) ==
  LET key(j) == <<runs[j].doc.proto, runs[j].doc.node, runs[j].doc.meas>>
      firsts == {j \in Stored : runs[j].idx /\ ~Withdrawn(runs[j]) /\ runs[j].dup = None
                                /\ key(j) = key(i)}
  IN IF firsts = {} THEN None ELSE Earliest(firsts)

\* The original of each (protocol, organization, measurement): the earliest
\* projected row that is neither withdrawn nor a duplicate.
OriginalOf(i) ==
  LET key(j) == <<runs[j].doc.proto, OrgOfDoc(runs[j].doc), runs[j].doc.meas>>
      firsts == {j \in Stored : runs[j].idx /\ ~Withdrawn(runs[j]) /\ runs[j].dup = None
                                /\ key(j) = key(i)}
  IN IF firsts = {} THEN None ELSE Earliest(firsts)

MarkDuplicates ==
  /\ bf.pc = "dups"
  /\ runs' = [i \in RunId |->
       IF i \in Stored /\ runs[i].idx /\ runs[i].dup = None
          /\ OriginalOf(i) # None /\ OriginalOf(i) # i /\ Earlier(OriginalOf(i), i)
       THEN [runs[i] EXCEPT !.dup = OriginalOf(i)] ELSE runs[i]]
  /\ bf' = [bf EXCEPT !.pc = "suspects", !.marked = TRUE]
  /\ UNCHANGED <<revision, receipts, revlog, ledger, withdrawals, applyJobs,
                 previews, revoked, dedupe, sess, lock, clock>>

SharedDigest(i) ==
  \E j, k \in SameMeasurement(runs[i].doc) :
    /\ ~Withdrawn(runs[j]) /\ ~Withdrawn(runs[k])
    /\ OrgOfDoc(runs[j].doc) # OrgOfDoc(runs[k].doc)

MarkSuspects ==
  /\ bf.pc = "suspects"
  /\ runs' = [i \in RunId |->
       IF i \in Stored /\ runs[i].idx /\ SharedDigest(i)
       THEN [runs[i] EXCEPT !.suspect = TRUE] ELSE runs[i]]
  /\ bf' = [bf EXCEPT !.pc = "count"]
  /\ UNCHANGED <<revision, receipts, revlog, ledger, withdrawals, applyJobs,
                 previews, revoked, dedupe, sess, lock, clock>>

CountedRuns(a, wd) ==
  {i \in Stored : /\ Countable(runs[i])
                  /\ <<runs[i].doc.proto, OrgOfDoc(runs[i].doc)>> = a
                  /\ Withdrawn(runs[i]) = wd}

\* The accounts with a counted run, and their counts.
CountedNow ==
  [a \in Account |->
     IF CountedRuns(a, FALSE) \union CountedRuns(a, TRUE) = {} THEN None
     ELSE [accepted |-> Cardinality(CountedRuns(a, FALSE)),
           withdrawn |-> Cardinality(CountedRuns(a, TRUE))]]

\* repairContributions: the SELECT's snapshot, then the rows it upserts, then
\* the rows with no run left.
RepairCount ==
  /\ bf.pc = "count"
  /\ bf' = [bf EXCEPT !.pc = "write", !.tally = CountedNow]
  /\ UNCHANGED <<dbVars, previews, revoked, dedupe, sess, lock, clock>>

RepairWrite ==
  /\ bf.pc = "write"
  /\ ledger' = [a \in Account |-> IF bf.tally[a] = None THEN ledger[a] ELSE bf.tally[a]]
  /\ bf' = [bf EXCEPT !.pc = "zero", !.tally = NoTally]
  /\ UNCHANGED <<revision, runs, receipts, revlog, withdrawals, applyJobs,
                 previews, revoked, dedupe, sess, lock, clock>>

\* A skipped row fails the job at the end, for another attempt.
RepairZero ==
  /\ bf.pc = "zero"
  /\ ledger' = [a \in Account |->
                 IF CountedNow[a] = None /\ ledger[a] # None THEN Zero ELSE ledger[a]]
  /\ bf' = [bf EXCEPT !.pc = IF bf.skipped THEN "failed" ELSE "done",
                     !.cursor = 0, !.skipped = FALSE]
  /\ UNCHANGED <<revision, runs, receipts, revlog, withdrawals, applyJobs,
                 previews, revoked, dedupe, sess, lock, clock>>

-----------------------------------------------------------------------------
Transaction(s) == Refuse(s) \/ Decide(s) \/ StoreNew(s) \/ WithdrawRuns(s) \/ Abort(s)

IndexBackfill ==
  \/ StartIndexBackfill \/ CrashIndexBackfill \/ ProjectRow \/ ProjectEnds
  \/ MarkDuplicates \/ MarkSuspects \/ RepairCount \/ RepairWrite \/ RepairZero

Next ==
  \/ \E d \in Doc : Preview(d) \/ PreviewExpires(d)
  \/ ReapPreviews
  \/ \E s \in Session : \/ \E d \in Doc : SubmitRun(s, d)
                        \/ \E r \in Request : RequestWithdrawal(s, r)
                        \/ Transaction(s)
  \/ \E w \in applyJobs : ApplyWithdrawal(w)
  \/ \E n \in Node : RevokeNode(n)
  \/ ChangeFlag
  \/ SharingBackfill
  \/ IndexBackfill

Spec == Init /\ [][Next]_vars

-----------------------------------------------------------------------------
\* Properties.

Tallied(a) == IF CountedNow[a] = None THEN Zero ELSE CountedNow[a]

\* dedupe migration, evidence.contributions: runs_accepted is the number of
\* distinct measurements an organization currently contributes, and what it
\* withdrew has moved to runs_withdrawn, whatever intakes, duplicates and
\* overlapping withdrawals interleave.
LedgerExact == \A a \in Account : CountOf(a) = Tallied(a)

Key3(i) == <<runs[i].doc.proto, OrgOfDoc(runs[i].doc), runs[i].doc.meas>>

\* Intake dedupe: one organization never counts one measurement twice, however
\* its nodes race their uploads and withdrawals.
NoDoubleCount ==
  \A i, j \in Stored :
    /\ Countable(runs[i]) /\ Countable(runs[j])
    /\ ~Withdrawn(runs[i]) /\ ~Withdrawn(runs[j])
    /\ Key3(i) = Key3(j)
    => i = j

\* Shared source: when two organizations both stand behind one measurement in
\* a cohort, both rows are flagged, so that cohort/index.ts counts one
\* contributor.
SharedSourceMarked ==
  \A p \in Proto : \A i, j \in Candidates(p) :
    /\ runs[i].doc.meas = runs[j].doc.meas
    /\ OrgOfDoc(runs[i].doc) # OrgOfDoc(runs[j].doc)
    => runs[i].suspect /\ runs[j].suspect

\* The candidates as the readers see them.
CohortOf(p) ==
  {[id |-> i, org |-> OrgOfDoc(runs[i].doc), meas |-> runs[i].doc.meas,
    suspect |-> runs[i].suspect, rev |-> runs[i].rev] : i \in Candidates(p)}

LatestOf(p) == Max({0} \union {e.rev : e \in {x \in revlog : x.proto = p}})

\* The store implements EvidenceLog: every step of every transaction that
\* changes what a cohort can be formed from, or which organizations count as
\* one contributor, is one logged revision of that protocol.
Log == INSTANCE EvidenceLog WITH
         latest <- [p \in Proto |-> LatestOf(p)],
         cohort <- [p \in Proto |-> CohortOf(p)]

ImplementsLog == Log!Spec

\* repairContributions, "the recovery path if the ledger ever disagrees with
\* the rows", and the duplicate pass before it: after index_backfill has run
\* to its end the ledger agrees with the rows, and when it ended with the
\* duplicate pass no measurement of an organization counts twice, even when
\* rows were skipped, the dedupe flag changed, or an earlier run of it was cut
\* off anywhere.
BackfillRestores ==
  bf.pc \in {"done", "failed"} => LedgerExact /\ (bf.marked => NoDoubleCount)

=============================================================================
