--------------------------- MODULE ChallengeLedger ---------------------------
(***************************************************************************)
(* The challenge and outcome ledger (modules/challenge/index.ts,           *)
(* claims.ts, vocab.ts, operator.ts): members file challenges against      *)
(* their released receipts, operators acknowledge and resolve them,        *)
(* members register predictions and report their outcomes.                 *)
(*                                                                         *)
(* A handler that runs in a transaction is cut where another can come in:  *)
(* at its start (the database's now() is fixed there), at each lock it     *)
(* waits for, and at its commit, when its writes become visible.  Reads    *)
(* see what is committed at the statement (READ COMMITTED).  The state of  *)
(* other modules (is the node revoked, does a run exist) and what a body   *)
(* says are chosen where the handler asks for them.                        *)
(***************************************************************************)
EXTENDS Naturals, Sequences, FiniteSets

CONSTANTS
  Sessions,        \* requests in flight, of members and operators
  Orgs, Protocols,
  Receipts,        \* query receipts
  OwnerOf,         \* [Receipts -> Orgs]
  ProtocolOf,      \* [Receipts -> Protocols]
  FindingsOf,      \* [Receipts -> sets of claim keys]: what each one releases
  Legacy,          \* receipts issued before claims existed (no claim rows)
  MaxChallenges,   \* bound on challenges filed
  FilingMax,       \* CHALLENGE_RATE_LIMIT.max (5)
  Window,          \* CHALLENGE_RATE_LIMIT.windowMs (24 hours)
  MaxClock,        \* bound on the clock
  MaxEvidence,     \* bound on revisions brought by intake and withdrawal
  Predictions,     \* predictions that may be registered
  None

ASSUME LedgerAssumption ==
  /\ OwnerOf \in [Receipts -> Orgs]
  /\ ProtocolOf \in [Receipts -> Protocols]
  /\ Legacy \subseteq Receipts
  /\ {MaxChallenges, FilingMax, Window, MaxClock, MaxEvidence} \subseteq Nat
  /\ \A x \in {"released", "withheld", "supported", "rejected", "registered", "observed"} : None # x
  /\ None \notin Sessions

VARIABLES
  clock,
  revision,        \* evidence.revision
  revlog,          \* evidence.revision_log: [protocol, kind], by revision
  cache,           \* evidence.cache: the protocols that have rows
  receipts,        \* receipt -> "released", "withheld" or None (not issued)
  claims,          \* claims of receipts: <<receipt, key>> -> verdict or None
  counters,        \* counter-claims: challenge -> status or None
  relationships,   \* evidence.relationships
  challenges,      \* sequence of filed challenges, by challenge_id
  predictions,     \* prediction -> "registered", or None
  outcomes,        \* prediction -> "observed", or None
  revLock,         \* holder of the evidence.revision row
  advisory,        \* advisory locks: organization or prediction -> holder
  longestWait,     \* history: the longest a filing waited before its count
  pc, req          \* of each session: where it stands, and its request

ledgerVars == <<revision, revlog, cache, receipts, claims, counters, relationships>>
filingVars == <<challenges, longestWait>>
outcomeVars == <<predictions, outcomes>>
lockVars == <<revLock, advisory>>
sessionVars == <<pc, req>>
vars == <<clock, ledgerVars, filingVars, outcomeVars, lockVars, sessionVars>>

-----------------------------------------------------------------------------
(* Vocabulary (vocab.ts) *)

Resolutions == {"upheld", "rejected", "superseded"}
RelationshipKinds == {"supports", "contradicts", "reproduces", "narrows", "supersedes"}

ResolutionRelationship(resolution) ==
  CASE resolution = "upheld" -> "contradicts"
    [] resolution = "rejected" -> "narrows"
    [] resolution = "superseded" -> "supersedes"

Verdict(status, corroboration) == [status |-> status, corroboration |-> corroboration]

\* What a claim row is created with (ensureClaimsForReceipt).
Fresh == Verdict("supported", "unreplicated")

\* targetClaimUpdate: the new verdict on a claim, given the one it has.
ClaimUpdate(resolution, now) ==
  CASE resolution = "upheld" -> Verdict("contradicted", "disputed")
    [] resolution = "superseded" -> Verdict("rejected", "disputed")
    [] resolution = "rejected" -> now

ClaimsOf(r) == {<<r, k>> : k \in FindingsOf[r]}
ClaimIds == UNION {ClaimsOf(r) : r \in Receipts}
Targets == [kind: {"receipt"}, id: Receipts] \cup [kind: {"claim"}, id: ClaimIds]

ReceiptOfTarget(t) == IF t.kind = "receipt" THEN t.id ELSE t.id[1]

-----------------------------------------------------------------------------

Init ==
  /\ clock = 0
  /\ revision = 0
  /\ revlog = <<>>
  /\ cache = {}
  /\ receipts = [r \in Receipts |-> IF r \in Legacy THEN "released" ELSE None]
  /\ claims = [c \in ClaimIds |-> None]
  /\ counters = [n \in 1..MaxChallenges |-> None]
  /\ relationships = {}
  /\ challenges = <<>>
  /\ longestWait = 0
  /\ predictions = [p \in Predictions |-> None]
  /\ outcomes = [p \in Predictions |-> None]
  /\ revLock = None
  /\ advisory = [x \in Orgs \cup Predictions |-> None]
  /\ pc = [s \in Sessions |-> "idle"]
  /\ req = [s \in Sessions |-> None]

Begin(s, next, request) ==
  /\ pc[s] = "idle"
  /\ pc' = [pc EXCEPT ![s] = next]
  /\ req' = [req EXCEPT ![s] = request]

\* The request goes on, knowing one thing more.
Learn(s, next, request) ==
  /\ pc' = [pc EXCEPT ![s] = next]
  /\ req' = [req EXCEPT ![s] = request]

\* Slip: the advisory locks are session locks that nobody unlocks.
FinishKeepsAdvisory(s) ==
  /\ pc' = [pc EXCEPT ![s] = "idle"]
  /\ req' = [req EXCEPT ![s] = None]
  /\ revLock' = IF revLock = s THEN None ELSE revLock
  /\ UNCHANGED advisory

\* The request ends, in a commit or a rollback: its locks are released.
Finish(s) ==
  /\ pc' = [pc EXCEPT ![s] = "idle"]
  /\ req' = [req EXCEPT ![s] = None]
  /\ revLock' = IF revLock = s THEN None ELSE revLock
  /\ advisory' = [x \in DOMAIN advisory |-> IF advisory[x] = s THEN None ELSE advisory[x]]

LockRevision(s) == revLock = None /\ revLock' = s /\ UNCHANGED advisory

\* Slip: the advisory lock is not waited for.
LockNobodyOut(s, x) ==
  /\ advisory' = [advisory EXCEPT ![x] = s]
  /\ UNCHANGED revLock

LockAdvisory(s, x) ==
  /\ advisory[x] = None
  /\ advisory' = [advisory EXCEPT ![x] = s]
  /\ UNCHANGED revLock

Go(s, next) == pc' = [pc EXCEPT ![s] = next] /\ UNCHANGED req

\* One revision, with its row in the log.
Bump(protocol, kind) ==
  /\ revision' = revision + 1
  /\ revlog' = Append(revlog, [protocol |-> protocol, kind |-> kind])

-----------------------------------------------------------------------------
(* Filing (fileChallenge) *)

\* The transaction starts: now(), the default of filed_at, is fixed here.
FileStart(s) ==
  /\ \E o \in Orgs : Begin(s, "file_lock", [org |-> o, filed |-> clock, target |-> None])
  /\ UNCHANGED <<clock, ledgerVars, filingVars, outcomeVars, lockVars>>

\* One filing of an organization at a time.
FileLock(s) ==
  /\ pc[s] = "file_lock"
  /\ LockAdvisory(s, req[s].org)
  /\ Go(s, "file_check")
  /\ UNCHANGED <<clock, ledgerVars, filingVars, outcomeVars>>

\* filed_at > now - windowMs, now being the service's clock at the count.
InWindow(o) ==
  {n \in DOMAIN challenges :
     challenges[n].org = o /\ challenges[n].filed + Window > clock}

\* resolveTarget: a released query receipt of the filer, or a claim with a row
\* on a receipt of the filer.
Resolvable(o, t) ==
  LET r == ReceiptOfTarget(t) IN
  /\ OwnerOf[r] = o
  /\ IF t.kind = "receipt" THEN receipts[r] = "released" ELSE claims[t.id] # None

\* 401 the node is revoked; 429 the window is full; 404 the target is not the
\* filer's, or the replication run it names is not.
FileRefused(s) ==
  /\ pc[s] = "file_check"
  /\ Finish(s)
  /\ UNCHANGED <<clock, ledgerVars, filingVars, outcomeVars>>

FileInsert(s) ==
  /\ pc[s] = "file_check"
  /\ Cardinality(InWindow(req[s].org)) < FilingMax
  /\ \E t \in Targets :
       /\ Resolvable(req[s].org, t)
       /\ Learn(s, "file_commit", [req[s] EXCEPT !.target = t])
  /\ longestWait' = IF clock - req[s].filed > longestWait
                      THEN clock - req[s].filed ELSE longestWait
  /\ UNCHANGED <<clock, ledgerVars, challenges, outcomeVars, lockVars>>

FileCommit(s) ==
  /\ pc[s] = "file_commit"
  /\ Len(challenges) < MaxChallenges
  /\ challenges' = Append(challenges,
       [org |-> req[s].org, target |-> req[s].target, status |-> "open",
        resolution |-> None, revision |-> None, filed |-> req[s].filed])
  /\ Finish(s)
  /\ UNCHANGED <<clock, ledgerVars, longestWait, outcomeVars>>

-----------------------------------------------------------------------------
(* Review (acknowledgeChallenge, parseResolveBody, resolveChallenge) *)

\* A transaction that resolves holds the challenge's row from its read on.
RowLocked(n) == \E s \in Sessions : pc[s] = "resolve_commit" /\ req[s].challenge = n

CanAcknowledge(n) == challenges[n].status = "open"

\* One UPDATE ... WHERE status = 'open'; it waits for the row and then looks
\* at the status again.
Acknowledge(n) ==
  /\ ~RowLocked(n)
  /\ CanAcknowledge(n)
  /\ challenges' = [challenges EXCEPT ![n].status = "acknowledged"]
  /\ UNCHANGED <<clock, longestWait, ledgerVars, outcomeVars, lockVars, sessionVars>>

ResolveStart(s) ==
  /\ Begin(s, "resolve_lock", [challenge |-> None])
  /\ UNCHANGED <<clock, ledgerVars, filingVars, outcomeVars, lockVars>>

ResolveLock(s) ==
  /\ pc[s] = "resolve_lock"
  /\ LockRevision(s)
  /\ Go(s, "resolve_read")
  /\ UNCHANGED <<clock, ledgerVars, filingVars, outcomeVars>>

\* Slip: the status read under the lock is not looked at.
NeverResolved(n) == FALSE

IsResolved(n) == challenges[n].status = "resolved"

\* SELECT ... FOR UPDATE of the challenge.
ResolveRead(s) ==
  /\ pc[s] = "resolve_read"
  /\ \E n \in DOMAIN challenges :
       /\ ~IsResolved(n)
       /\ Learn(s, "resolve_commit", [challenge |-> n])
  /\ UNCHANGED <<clock, ledgerVars, filingVars, outcomeVars, lockVars>>

\* 404 the id names no challenge, 409 it names a resolved one.
ResolveRefused(s) ==
  /\ pc[s] = "resolve_read"
  /\ Finish(s)
  /\ UNCHANGED <<clock, ledgerVars, filingVars, outcomeVars>>

\* Slip: an upsert, ON CONFLICT DO UPDATE.
EnsuredAnew(c) == Fresh

\* What ON CONFLICT (receipt_id, claim_key) DO NOTHING leaves of a claim row.
Ensured(c) == IF claims[c] = None THEN Fresh ELSE claims[c]

\* Slip: the rows of an old receipt are not created before they are listed.
BearingOnRows(target) ==
  IF target.kind = "claim" THEN {target.id} ELSE {c \in ClaimsOf(target.id) : claims[c] # None}

\* The claims a challenge bears on: the one it names, or every finding of the
\* receipt, whose rows are created here if the receipt predates them.
Bearing(target) == IF target.kind = "claim" THEN {target.id} ELSE ClaimsOf(target.id)

Relationship(n, c, kind) ==
  [challenge |-> n, target |-> c, kind |-> kind, revision |-> revision + 1]

\* The writes of resolveChallenge, committed together.  A body whose relationship
\* kind is not the one its resolution implies was refused before.  Every answer
\* kept for the protocol is older than the new revision and goes.
ResolveCommit(s) ==
  LET n == req[s].challenge
      bearing == Bearing(challenges[n].target)
      protocol == ProtocolOf[ReceiptOfTarget(challenges[n].target)]
  IN
  /\ pc[s] = "resolve_commit"
  /\ Bump(protocol, "challenge")
  /\ cache' = cache \ {protocol}
  /\ \E res \in Resolutions :
       /\ counters' = [counters EXCEPT ![n] = IF res = "rejected" THEN "rejected" ELSE "supported"]
       /\ relationships' = relationships \cup
            {Relationship(n, c, ResolutionRelationship(res)) : c \in bearing}
       /\ claims' = [c \in ClaimIds |->
                       IF c \in bearing THEN ClaimUpdate(res, Ensured(c)) ELSE claims[c]]
       /\ challenges' = [challenges EXCEPT ![n].status = "resolved", ![n].resolution = res,
                                           ![n].revision = revision + 1]
  /\ Finish(s)
  /\ UNCHANGED <<clock, receipts, longestWait, outcomeVars>>

-----------------------------------------------------------------------------
(* Predictions and outcomes (registerPrediction, recordOutcome) *)

\* One insert under a fresh id, based on some receipt of the organization.  (An
\* unknown receipt or a revoked node stores nothing.)
Register(p) ==
  /\ predictions[p] = None
  /\ \E r \in Receipts : receipts[r] # None
  /\ predictions' = [predictions EXCEPT ![p] = "registered"]
  /\ UNCHANGED <<clock, ledgerVars, filingVars, outcomes, lockVars, sessionVars>>

\* The transaction reads the prediction and compares what the body restates.
ObserveStart(s) ==
  /\ \E p \in Predictions :
       /\ predictions[p] # None
       /\ Begin(s, "observe_lock", [prediction |-> p])
  /\ UNCHANGED <<clock, ledgerVars, filingVars, outcomeVars, lockVars>>

\* 409 the body restates the target or the receipt differently, 422 it was
\* observed before the registration, 404 its run is not the organization's.
ObserveRefused(s) ==
  /\ pc[s] = "observe_lock"
  /\ Finish(s)
  /\ UNCHANGED <<clock, ledgerVars, filingVars, outcomeVars>>

ObserveLock(s) ==
  /\ pc[s] = "observe_lock"
  /\ LockAdvisory(s, req[s].prediction)
  /\ Go(s, "observe_check")
  /\ UNCHANGED <<clock, ledgerVars, filingVars, outcomeVars>>

ObserveCheck(s) ==
  /\ pc[s] = "observe_check"
  /\ \/ outcomes[req[s].prediction] # None /\ Finish(s)
     \/ /\ outcomes[req[s].prediction] = None
        /\ Go(s, "observe_commit")
        /\ UNCHANGED lockVars
  /\ UNCHANGED <<clock, ledgerVars, filingVars, outcomeVars>>

\* outcomes.prediction_id is UNIQUE: a second insert is an error of the
\* database, a 500 to the caller.
ObserveCommit(s) ==
  LET p == req[s].prediction IN
  /\ pc[s] = "observe_commit"
  /\ IF outcomes[p] = None
       THEN outcomes' = [outcomes EXCEPT ![p] = "observed"]
       ELSE UNCHANGED outcomes
  /\ Finish(s)
  /\ UNCHANGED <<clock, ledgerVars, filingVars, predictions>>

-----------------------------------------------------------------------------
(* The rest of the service, and faults *)

\* A query is answered; a release writes the receipt and its claim rows in one
\* transaction (cooperativeAnswer, ensureClaimsForReceipt), and the answer is kept.
Answer(r) ==
  /\ receipts[r] = None
  /\ \/ /\ receipts' = [receipts EXCEPT ![r] = "released"]
        /\ claims' = [c \in ClaimIds |-> IF c \in ClaimsOf(r) THEN Ensured(c) ELSE claims[c]]
     \/ /\ receipts' = [receipts EXCEPT ![r] = "withheld"]
        /\ UNCHANGED claims
  /\ cache' = cache \cup {ProtocolOf[r]}
  /\ UNCHANGED <<clock, revision, revlog, counters, relationships,
                 filingVars, outcomeVars, lockVars, sessionVars>>

\* An accepted run or a withdrawal takes the same lock and the next revision.
EvidenceMoves(p) ==
  /\ revLock = None
  /\ Cardinality({i \in DOMAIN revlog : revlog[i].kind = "intake"}) < MaxEvidence
  /\ Bump(p, "intake")
  /\ UNCHANGED <<clock, cache, receipts, claims, counters, relationships,
                 filingVars, outcomeVars, lockVars, sessionVars>>

\* A statement fails or the process dies: the transaction rolls back.
Fail(s) ==
  /\ pc[s] # "idle"
  /\ Finish(s)
  /\ UNCHANGED <<clock, ledgerVars, filingVars, outcomeVars>>

Tick ==
  /\ clock < MaxClock
  /\ clock' = clock + 1
  /\ UNCHANGED <<ledgerVars, filingVars, outcomeVars, lockVars, sessionVars>>

Next ==
  \/ \E s \in Sessions :
       \/ FileStart(s) \/ FileLock(s) \/ FileRefused(s) \/ FileInsert(s) \/ FileCommit(s)
       \/ ResolveStart(s) \/ ResolveLock(s) \/ ResolveRead(s) \/ ResolveRefused(s)
       \/ ResolveCommit(s)
       \/ ObserveStart(s) \/ ObserveRefused(s) \/ ObserveLock(s)
       \/ ObserveCheck(s) \/ ObserveCommit(s)
       \/ Fail(s)
  \/ \E n \in DOMAIN challenges : Acknowledge(n)
  \/ \E r \in Receipts : Answer(r)
  \/ \E p \in Predictions : Register(p)
  \/ \E p \in Protocols : EvidenceMoves(p)
  \/ Tick

Spec == Init /\ [][Next]_vars

-----------------------------------------------------------------------------
(* Properties *)

Verdicts == {Fresh, Verdict("contradicted", "disputed"), Verdict("rejected", "disputed")}

Requests ==
  [org: Orgs, target: Targets \cup {None}, filed: 0..MaxClock]
  \cup [challenge: 1..MaxChallenges \cup {None}]
  \cup [prediction: Predictions]

\* NULL is no verdict and no request.
ASSUME NullAssumption == None \notin Verdicts /\ None \notin Requests

Challenges ==
  [org: Orgs, target: Targets, status: {"open", "acknowledged", "resolved"},
   resolution: Resolutions \cup {None}, revision: Nat \cup {None},
   filed: 0..MaxClock]

\* Type invariant of the ledger and its requests; a lock is held only by a
\* request that is past the point where it takes it.
TypeOK ==
  /\ clock \in 0..MaxClock
  /\ revision = Len(revlog)
  /\ \A i \in DOMAIN revlog : revlog[i] \in [protocol: Protocols, kind: {"intake", "challenge"}]
  /\ cache \subseteq Protocols
  /\ receipts \in [Receipts -> {"released", "withheld", None}]
  /\ claims \in [ClaimIds -> Verdicts \cup {None}]
  /\ counters \in [1..MaxChallenges -> {"supported", "rejected", None}]
  /\ relationships \subseteq [challenge: 1..MaxChallenges, target: ClaimIds,
                              kind: RelationshipKinds, revision: 1..revision]
  /\ \A n \in DOMAIN challenges : challenges[n] \in Challenges
  /\ longestWait \in 0..MaxClock
  /\ predictions \in [Predictions -> {"registered", None}]
  /\ outcomes \in [Predictions -> {"observed", None}]
  /\ \A s \in Sessions : (pc[s] = "idle") = (req[s] = None)
  /\ \A s \in Sessions : req[s] \in Requests \cup {None}
  /\ revLock # None => pc[revLock] \in {"resolve_read", "resolve_commit"}
  /\ \A x \in DOMAIN advisory : advisory[x] # None =>
       pc[advisory[x]] \in {"file_check", "file_commit", "observe_check", "observe_commit"}

\* The header's table, "Resolution -> relationship -> claim status".
ClaimStatusAfter(kind) ==
  IF kind = "contradicts" THEN Verdict("contradicted", "disputed")
                          ELSE Verdict("rejected", "disputed")

\* A claim reads as the latest challenge that was not rejected left it, in the
\* order of the revisions, and as released if there is none: creating the rows
\* of an old receipt late, a rejected challenge, or several operators at work
\* never bring back or skip a verdict.
VerdictStands ==
  \A c \in ClaimIds : claims[c] # None =>
    LET judging == {x \in relationships : x.target = c /\ x.kind # "narrows"} IN
    \/ judging = {} /\ claims[c] = Fresh
    \/ \E x \in judging :
         /\ \A y \in judging : y.revision <= x.revision
         /\ claims[c] = ClaimStatusAfter(x.kind)

Resolved == {n \in DOMAIN challenges : challenges[n].status = "resolved"}

\* A challenge to a receipt is resolved for every finding the receipt released,
\* at one revision and in one sense, also when the receipt is older than claim
\* rows; and nothing of a challenge that is not resolved shows.
WholeReceiptJudged ==
  \A n \in 1..MaxChallenges :
    LET made == {x \in relationships : x.challenge = n} IN
    IF n \in Resolved
    THEN /\ \A c \in ClaimIds :
              LET t == challenges[n].target IN
              (\E x \in made : x.target = c) <=> t.id = (IF t.kind = "claim" THEN c ELSE c[1])
         /\ \A x \in made : /\ claims[x.target] # None
                            /\ x.revision = challenges[n].revision
                            /\ x.kind = ResolutionRelationship(challenges[n].resolution)
         /\ counters[n] # None
    ELSE made = {} /\ counters[n] = None

\* "Every resolution bumps the revision": two operators who resolve the same or
\* different challenges, with intake in between, log one revision for each
\* resolved challenge, under its protocol, and none besides.
OneRevisionPerResolution ==
  /\ \A n \in Resolved :
       revlog[challenges[n].revision] =
         [protocol |-> ProtocolOf[ReceiptOfTarget(challenges[n].target)], kind |-> "challenge"]
  /\ \A m, n \in Resolved : challenges[m].revision = challenges[n].revision => m = n
  /\ Cardinality({i \in DOMAIN revlog : revlog[i].kind = "challenge"}) = Cardinality(Resolved)

\* No stretch of the rate limit's window, less the longest a filing waited for
\* the advisory lock after its filed_at was stamped, holds more of an
\* organization's challenges than the limit, however many it sends at once.
RollingCountUpToWait ==
  \A o \in Orgs, t \in 0..MaxClock :
    Cardinality({n \in DOMAIN challenges :
      /\ challenges[n].org = o
      /\ challenges[n].filed <= t
      /\ challenges[n].filed + Window > t + longestWait}) <= FilingMax

=============================================================================
