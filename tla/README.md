# Verification of I Wish I Knew

TLA+ models, TLC configurations and TLAPS proofs for the evidence cooperative
in this repository: the service (`packages/service`), its worker, and the
runner that members use (`packages/runner`).  Paths below are relative to
`src/packages/` unless they start with `src/`.

Every module is written from the code.  Where a comment, a test or a document
says more than the code does, a run says so (see *Divergences*).

## 1. The system

One Fastify service and one worker share a PostgreSQL database with the
schemas `identity` and `evidence`.  Members run `iwik`, the runner, on their
own machines; it measures, keeps raw artifacts in a vault, and submits
sanitized runs.  Members query the pooled evidence, withdraw runs, challenge
what they were told and report outcomes.

Processes of the service hold no state that matters across requests, with three
exceptions: a cache of data keys, the failure windows of the logins and the
worker's in-flight job.  Everything else is in tables or in signed cookies, so
the hard part is what concurrent transactions, and the tabs of one browser, see
of each other.  The runner keeps its state in files that several commands
read and write without locks.  The service orders its transactions with

* the **revision lock**: `SELECT ... FOR UPDATE` on the one row of
  `evidence.revision`, taken by intake, withdrawal and resolution;
* **advisory locks**: one per protocol for releases, one per organization for
  filings, one per prediction for outcomes;
* **single statements** whose `WHERE` decides (claiming a job, acknowledging a
  challenge, redeeming an invite) and `ON CONFLICT DO NOTHING`;
* nothing at all where reads go through the pool before a transaction starts.

### Inventory

| Component | State | Operations | What is hard | What makes it correct | Module |
|---|---|---|---|---|---|
| Durable jobs (`service/src/modules/jobs/index.ts`, `worker.ts`) | `evidence.jobs` | enqueue, recover stale, claim, settle, drain, loop, signals | workers sharing rows; a slow handler loses its lock; crashes; lost answers | one worker in a job, rows locked exactly while running, every job settled | `JobQueue` |
| Intake (`modules/intake`) | `evidence.previews`, `runs`, `receipts`, `revision`, `revision_log`, `contributions` | preview, submit | two nodes of one organization, two organizations, one measurement; withdrawal in between | nobody counts twice, shared sources are marked, one revision is one event | `EvidenceStore` |
| Withdrawal (`modules/withdrawal`) | `evidence.withdrawals`, `runs.withdrawn_*`, `contributions` | withdraw (API and console) | overlapping requests; races with intake and the job | a run moves out of the ledger once | `EvidenceStore` |
| Maintenance jobs (`modules/jobs/handlers.ts`, `cohort/contributions.ts`) | the same tables | reap previews, apply withdrawal, backfill sharing and index, repair ledger | cut off anywhere and run again; unreadable rows | the end state is what intake would have produced | `EvidenceStore`, `QueryRelease` |
| Cooperative query (`modules/aggregate`, `modules/matching`) | `evidence.cache`, `cohort_releases`, `receipts`, `claims` | query, read receipts, list own | reads on the pool, then a transaction; two near cohorts at once; stale cache rows | no two releases differ by too few organizations; what reads fresh is current | `QueryRelease`, `Cohort` |
| Cohort counting (`modules/cohort/index.ts`) | none | contributor merge, thresholds, differencing, operator preview | shared sources merge organizations | thresholds count contributors, not uploads | `Cohort` |
| Envelope encryption and pool (`modules/crypto`, `db.ts`) | `identity.org_keys`, a cache per process, pool clients | data key on first use, seal, open | two requests mint one key; an INSERT that outlives its request; nested use of the pool | every stored body opens; every submission is answered | `DataKeys` |
| Challenge and outcome ledger (`modules/challenge`) | `evidence.challenges`, `claims`, `relationships`, `predictions`, `outcomes` | file, acknowledge, resolve, register, observe | operators at once; receipts older than claim rows; rate limit by a clock read after a wait | verdicts follow the latest resolution, each resolution is one revision | `ChallengeLedger` |
| Operator console (`modules/challenge/operator.ts`) | a signed cookie | log in, list, acknowledge, resolve | the same two actions by form; guesses of the operator token | as above; guesses are bounded, a form acts under the session it was shown for | `ChallengeLedger` (its effects), `SignIn` |
| Identity and enrollment (`modules/identity`, `modules/enrollment`) | `identity.organizations`, `invites`, `console_logins`, `agreements`, `nodes`, `tokens` | create and invite organizations, enroll, reset, register, issue and revoke, seed at boot | an invite that expires or is replaced while it is redeemed; logins of two redemptions; several processes that boot | an invite makes one login, one login lives, nobody is locked out, agreements were asked for, revocation is final | `Enrollment` |
| Member console (`modules/console`, `identity/password.ts`, `identity/ratelimit.ts`) | session and CSRF cookies, failure windows | log in, with a password or a node token, reset, show pages, act by form, log out | a login awaits between the window's check and its record; a login is revoked under a live session, or between a request's lookup of its session and what it renders or writes; tabs of one browser share its cookies | guesses are bounded, a session ends with its login, no form acts under another session | `SignIn`; withdrawal by form in `EvidenceStore`, the making of logins in `Enrollment` |
| Aggregate calculation (`aggregate/calc.ts`, `aggregate/policy.ts`, `own.ts`) | none | percentiles, contradictions, what of a claim is released | ties, one value, even samples; a cohort that qualifies with a claim that does not | percentiles are ranks, contradictions are real, each released claim qualifies on its own | `Statistics`, `Calculation`; the policy in `QueryRelease` with `Cohort` |
| Registry (`modules/registry`) | loaded once from `src/packs` | load and verify protocols | none after start | digests match | a constant, `Registered` |
| Runner: policy, plan, run, vault, submit (`runner/src`) | files under `~/.iwik`, a work directory and a child process per run | init, edit the policy, plan, run, preview, submit, withdraw | crashes between two file writes or in one; two commands on one run or plan; an answer that is lost after the service stored the run; a harness that stops anywhere | what is accepted is what was previewed; a rerun is safe; a success is backed by its attempts; a plan and the vault agree on its runs | `RunRecord`, `Runner` |
| Runner: agent tools, reports (`tools.ts`, `mcp.ts`, `cooperative.ts`, `report.ts`, `cli.ts`) | none of its own | the same operations by name; a local report; rendering | the report repeats the service's calculation | it claims no more than the service would | the operations in `Runner`, the report in `Calculation` |
| Pack harness (`src/packs/inference-api`) | a measurement in progress | connect, measure, summarize, exit | third-party target; killed anywhere | its summary is of its attempts | the `Harness` actions of `Runner`, `Summarize` of `Statistics` |
| Contracts (`packages/contracts`) | none | schemas, canonical JSON, digests | canonical form | equal documents, equal digests | a boundary: documents are records |
| Service plumbing (`app.ts`, `config.ts`, `server.ts`, `health.ts`, `errors.ts`, `logger.ts`, `openapi.ts`, `migrate.ts`) | configuration | start, stop, migrate, report health | | | flags are constants or inputs |
| Deployment, scripts, views | | | | | not modelled |

## 2. Modules

| Module | Models | Role |
|---|---|---|
| `JobQueue` | the job table and its workers | one action per SQL statement |
| `JobQueueProofs` | | three theorems about `JobQueue` |
| `EvidenceLog` | what the evidence promises its readers | abstract specification |
| `EvidenceStore` | everything that writes evidence | implements `EvidenceLog` |
| `EvidenceProofs` | | six theorems about `EvidenceStore`, one of them the refinement |
| `Cohort` | contributors, thresholds, differencing | pure operators, shared |
| `QueryRelease` | the query, step by step, over moving evidence | its evidence steps implement `EvidenceLog` |
| `AggregateProofs` | | six theorems about `QueryRelease`, one of them the refinement, two about `Cohort` and four about `Calculation` |
| `DataKeys` | data keys, the pool and the revision lock | one action per await |
| `DataKeysProofs` | | two theorems about `DataKeys` |
| `ChallengeLedger` | challenges, verdicts, outcomes | cut at the locks |
| `ChallengeProofs` | | its inductive invariant and five theorems from it |
| `Enrollment` | organizations, invites, logins, agreements, nodes, tokens, seeds | cut where another transaction can come between |
| `EnrollmentProofs` | | five theorems about `Enrollment` |
| `SignIn` | failure windows, cookies, the tabs of browsers | cut at the awaits of a handler |
| `SignInProofs` | | four theorems about `SignIn` |
| `RunRecord` | accounting, merged context, cost, the verdict on a harness | pure operators, used by `Runner` |
| `Runner` | commands and harness over the files of a home | cut at awaits and between files |
| `RunnerProofs` | | the inductive invariant of `Runner` and six theorems from it |
| `Statistics` | percentiles of the service, the harness and the report | pure operators on finite families of numbers, used by `Calculation` |
| `Calculation` | what a cohort says, what of it is released, what a member's report says | pure, with the thresholds of `Cohort`; runs join one by one (`Growth`) |
| `MC*` | | the values TLC uses |

`EvidenceLog` is how two modules compose without multiplying their states.
`EvidenceStore` has the transactions, `QueryRelease` the readers.  Each is proved and
checked to implement `EvidenceLog` (`ImplementsLog`, `ReadsTheLog`): revisions
go up by one, each touches the protocols it is logged under and no other, an
accepted run adds at most one candidate, a withdrawal only removes.  What the
reader relies on is what the writer is shown to keep.
`DataKeys` and `ChallengeLedger` share only the revision lock with the rest;
both have it, with the other holders as an action (`EvidenceMoves`) or as
sessions of their own.  `SignIn` has of `Enrollment` that a reset makes a login
and ends the earlier ones, which `OneLiveLogin` is about.  `Runner` has of the
service what a node sees: the registry, previews that expire and one row per
run id; the row's way through intake is `EvidenceStore`'s.

### How code becomes actions

* **Transactions** are cut where another session can come between: at BEGIN
  (`now()` is fixed there), at each lock they wait for, and at COMMIT, when
  the writes become visible.  PostgreSQL runs them READ COMMITTED, so a read
  sees what is committed at its statement.  Statements that hold the revision
  lock and write only what it protects are one step with their commit.
* **Statements on the pool** (all reads of `cooperativeAnswer`, all of
  `Envelope.dataKey`) are one action each.
* **Rollbacks**: `Abort` and `Fail` end a request anywhere before its commit
  and take back its locks and nothing else: errors, lost connections and
  restarts look alike to the database.
* **Early returns** that write nothing are an action that ends the request
  (`Refuse`, `FileRefused`, `ResolveRefused`, `ObserveRefused`,
  `ClaimRefused`), except
  refusals before the first statement, which are not steps of the model.
* **Handlers without transactions** (`SignIn`) are cut at their awaits: between
  two of them nothing else runs in the process.  A browser is its cookies, a tab
  is a page or a request under way.  Of a CSRF nonce only this is kept: whether
  the one a tab carries is still the one in the cookie.
* **Files** (`Runner`) are written in place, so a command is cut between two
  files and a process that dies while it writes one may leave it `Torn`; reading
  a torn file fails the command.  The harness is a process of its own: it goes
  on, or stops, between any two of its outputs, and may be killed there.  That
  of another pack may leave anything (`HarnessStrays`).
* **Time**: `JobQueue` keeps the two comparisons the code makes (`order`
  holds the rows with `run_after <= now()`, `stale` those with
  `locked_at < now() - staleLockMs`).  `EvidenceStore` counts transactions
  begun, which orders `received_at`.  `ChallengeLedger` and `Enrollment` have
  a clock; `now()` is its value at BEGIN, whatever the transaction waits for.
* **Documents** are records of what the code tells apart: organization, node,
  protocol, measurement digest, sharing, fixture.  What fails a schema or the
  secret rescan changes nothing, and is outside the constant sets.
* **Definitions called slips** ("Slip: ...") are plausible mistakes in the
  operator they precede.  No specification uses them; each shows that a
  property notices that mistake.

### Correspondence

`PROJECT.json` "map" has the lines of every definition.  The main ones:

| Module | Action | Code |
|---|---|---|
| `JobQueue` | `Enqueue`, `EnsureMaintenance` | `enqueueJob`; `ensureMaintenanceJobs` |
| | `RecoverStale`, `Claim`, `SettleDone`, `SettleFailure` | the statements of `JobRunner` with those names |
| | `DrainEnds`, `NextTick`, `Signal`, `TickFails` | `drain`, the loop in `worker.ts` and its signal handlers and `catch` |
| | `SettleDoneFails` | the `try` of `runOne` that includes `settleDone` |
| `EvidenceStore` | `Preview`, `SubmitRun`, `Decide`, `StoreNew` | the two intake handlers, `storeRun` |
| | `RequestWithdrawal`, `Decide`, `WithdrawRuns`, `ApplyWithdrawal` | `withdrawRuns` and its job |
| | `ProjectRow` ... `RepairZero`, `SharingBackfill` | `backfillIndex`, `repairContributions`, `backfillSharing` |
| `QueryRelease` | `Ask` ... `OwnEvidence` | the pool statements of `cooperativeAnswer` and `resolveOutcome` |
| | `DecideRelease`, `Commit` | its transaction |
| `DataKeys` | `Load`, `InsertKey`, `Reload`, `Keep` | `Envelope.dataKey` |
| | `Connect`, `LockRevision`, `SealAndCommit` | `withTransaction` around `storeRun` |
| `ChallengeLedger` | `File*`, `Resolve*`, `Acknowledge`, `Register`, `Observe*` | `fileChallenge`, `resolveChallenge`, `acknowledgeChallenge`, `registerPrediction`, `recordOutcome` |
| | `Answer` | `ensureClaimsForReceipt` inside a release |
| `Enrollment` | `CreateOrganization`, `Reinvite*` | the operator's two routes |
| | `Redeem`, `Claim`, `EnrollCommit`, `Reset*` | `POST /enroll/:invite`, `completeEnrollment`, `completeReset` |
| | `Register*`, `Issue*`, `RevokeNode`, `RevokeToken` | the routes under `/org` |
| | `SeedStart`, `SeedRead`, `SeedCommit` | `seedIdentity` |
| `SignIn` | `LoginRefused` ... `LoginSucceeded`, `TokenPosted`, `TokenJudged` | `POST /console/login`, `POST /console/session` |
| | `OperatorLogin`, `ResetPassword`, `Reply`, `Logout` | `POST /admin/login`, a reset's reply, the reply's cookies, the two logouts |
| | `OpenPage`, `LookUpSession`, `ShowPage` | a GET: its cookies, `resolveSession`, and, after further queries, the page with its nonce |
| | `FormPosted`, `FormChecked`, `FormWritten` | `POST /org/...`: `requireCsrf`, `orgSession`, the transaction |
| `Runner` | `InitHome`, `EditPolicy`, `SavePolicy`, `MakePlan` | `iwik init`, `policy`, `plan` |
| | `RunStart`, `RunLaunch`, `Collect`, `WriteDraft`, `WriteMeta`, `SavePlan` | `run` in `run.ts` |
| | `Harness*`, `KillHarness` | the harness's `main`, `spawnHarness` |
| | `Preview*`, `Write*`, `Submit*` | `preview` and `submit` in `submit.ts` |
| `Calculation` | `Compute`, `ReleaseSections`, `Report` | `compute`, `releaseSections`, the report's claims |


## 3. What the runs check

All runs finish; states are distinct states with two TLC workers.

| Run | States | What it asks |
|---|---|---|
| `jobs_loop` | 63,009 | Two workers share one handled job and one periodic job while up to two faults happen anywhere: a handler outlives its lock, a process dies, a statement fails, an answer is lost.  The lock columns belong to running rows, one worker at a time is inside a job unless its handler overran, every claim beyond the attempts is paid for by a fault, and every job is settled. |
| `evidence_dedupe` | 87,554 | Two requests at a time, three nodes of two organizations, one measurement uploaded by all of them, a known run id with other content, a fixture, an unregistered protocol, overlapping withdrawals, a node revoked meanwhile.  The ledger counts what the rows say, nobody counts twice, shared sources are marked, and the store implements `EvidenceLog`: every change of a cohort is one logged revision. |
| `evidence_backfill` | 1,800 | Rows older than their columns, one unreadable and one withdrawn, under a backfill that is cut off at any statement and retried, with the dedupe flag changed by a restart.  It ends with the ledger and the duplicates intake would have made. |
| `query_race` | 274,907 | Two requests ask three of five questions (with and without a filter and a pinned revision) while up to two runs join, runs are withdrawn and cached answers go.  Releases of one protocol are equal or far apart, what reads fresh is current, the cache answers what a recalculation would, every answered release is recorded and rests on enough contributors, however they are linked, and the evidence moves as `EvidenceLog` allows. |
| `keys_race` | 6,356 | Three submissions in two processes need an organization's first data key; failures, a restart, an INSERT that outlives its request.  Every body opens and, with a client to spare in the pool, every submission is answered. |
| `challenge_review` | 1,087,545 | Two requests file, resolve and report outcomes; an operator acknowledges; intake takes revisions; one of two receipts is older than claim rows.  A claim reads as the latest verdict on it, a resolution is one revision, a verdict on a receipt reaches all its claims, and an organization files at most its limit in a window. |
| `enrollment` | 1,511,074 | Two requests or boots among: invite, invite again, enroll, reset, register, issue, revoke, seed; two releases with different terms; invites expire.  An accepted invite made one login, an organization has one live login and one open invite, agreements are those the forms asked for, boots create one node. |
| `runner_node` | 1,613,130 | Two commands at a time over one home, in five workloads: another pack's harness; two runs of one plan; a run that may die; a recorded run previewed and submitted under two sharing policies with a crash, a lost answer and an expiry; edits of the policy around a run of an empty home.  A success is backed, every planned attempt has one outcome, a plan and the vault agree on its runs but for those that overlapped or died, what is accepted is what was shown, and doing it again is safe. |
| `calculation_cohort` | 37,449 | Every cohort of up to five runs out of eight kinds, of three organizations of which two are one contributor: ties, a failed attempt, a run that failed after its attempts, one excluded.  Percentiles are ranks, contradictions are real, a released claim qualifies on its own runs, the member's report claims no more. |
| `sign_in` | 2,018,589 | Two tabs of one browser open pages, post forms, sign in to two organizations, with a node token and as operator, with right, old and wrong secrets, and sign out, while passwords are reset, the token is revoked, time passes, statements fail and the process restarts between any two awaits.  Guesses are bounded, a form acts under the session it was shown for, nothing is rendered or written that was asked for after its session had ended. |

`RollingCountUpToWait`, `OneLiveLogin` and `GuessesAreBounded` are weaker than the
comments next to the code by one case each, stated in the property: logins in
flight pass a window before it fills, so that many guesses more fit; the limit per window is
exact but for filings that waited for the advisory lock across the window's
edge, and a reset leaves one live login unless an invite of the organization
expired while it was being redeemed (`straddled`).  Without the exemption TLC
finds two resets that revoke the same snapshot of logins.
`ResubmissionIsIdempotent` holds as long as a run's sharing policy stays and no two
commands work on the run at once; otherwise the service answers a conflict, and
`AcceptedIsShown` still holds.
`PlanListsItsRuns` exempts the runs whose runner died and those that overlapped with
another run of their plan.  Without the second exemption TLC finds two runs that save
the plan as it was before both.
`EndedSessionsStayEnded` lets a request finish that was under way when its session
ended: pages and forms look their session up once, and nothing looks again when the
page is rendered or the transaction commits.

### Divergences

Two have a run that TLC must find violated.

| Run | Property | What the code does |
|---|---|---|
| `jobs_crashloop` | `CrashLoopIsBounded` | A job whose worker dies before it settles is claimed again for ever: only `settleFailure` compares `attempts` with the maximum.  `jobs/index.ts:9` says that a crash loop "also lands in `failed`". |
| `keys_pool` | `SubmissionsAreAnswered` | `dataKey` asks the pool for a client while its caller holds one and the revision lock.  As many first submissions as the pool has clients wait for each other, with no timeout.  The same formula holds in `keys_race`, where one client is to spare. |

The models have these behaviours too, without a run of their own:

* `settleDone` and `settleFailure` match `job_id` alone.  A first execution that
  overran its lock, or a `settleDone` whose answer was lost, takes a done row
  back to queued.
* When the original is withdrawn and only duplicates are left, the next upload
  points at a duplicate (`DuplicateOf`); `intake/index.ts:301` says it never does.
* Candidates are read before the query's transaction; a withdrawal that commits
  in between leaves its runs in a receipt issued after it, although
  `matching/index.ts:16` says otherwise.  The receipt reads stale, which
  `FreshReceiptIsCurrent` checks.
* An enrollment by a second invite may rename the seeded organization; the next
  boot does not find it by name and creates another (or refuses to start when
  `IWIK_SEED_NODE_ID` is set), although `identity/index.ts:536` says that "a
  second boot finds the rows and changes nothing".
* `runPlan` loads the plan, runs, and saves the record it loaded with its run added.
  Of two runs of one plan that overlap, the one that saves last takes the other out of
  the plan, although nothing failed (`overlapped` in `PlanListsItsRuns`).  `plan.ts:50` calls the list
  the "runs executed from this plan", and the runner's README (lines 150 to 153) says
  that each run is appended.
* A runner that dies leaves its work directory, with the harness's input, and
  nothing removes it later (`Crash`).
* The local report counts succeeded runs only, the service also failed ones where
  a claim asks for attempts, and the report's median is the mean of the middle
  two.  `ReportClaimsNoMore` states what the two still have in common.

### Bounds, and why they are enough

* `jobs_loop`: two workers are what recovery and `SKIP LOCKED` are about; the
  second job has no handler, which is the other branch of `runOne`.
  `MaxAttempts = 2` has a retry and a last attempt; two faults are an overrun
  followed by a crash, and every pair of faults.
* `evidence_*`: three nodes give one organization two of them, and a second
  organization; one measurement is what dedupe compares.  `MaxClock = 4`
  transactions allow each document in flight with a withdrawal before, between
  and after.  `evidence_backfill` has one row of each kind the job branches on.
* `query_race`: thresholds of two, three seeded organizations and a fourth that
  joins put cohorts exactly one below, at and above `MinOrgDifference`; the
  fourth shares a measurement with one of them, which makes the two one contributor.
* `keys_race`: two requests of one process race for the cache, one of another
  process races for the row.
* `challenge_review`: `FilingMax = 1` in a window of one unit is the smallest
  limit that can be passed; two challenges can bear on one claim, once by the
  claim and once by its receipt.
* `enrollment`: `MaxRows = 5` rows in `organizations`, `invites`, `nodes` and
  `tokens` together.  The longest scenarios need them: an organization with
  three invites (an enrollment and two racing resets), an organization with an
  invite, two seeded nodes and a token, two organizations with their invites.
  `Ttl = 1` and `MaxClock = 1`: invites of time 0 expire, later ones do not.
* `runner_node`: each workload has the commands that can disturb each other and
  one fault where it bites; a run with two planned attempts can report none, one
  or both, and `Ttl = 0` with one tick lets a preview expire between any two
  commands.  Where a workload starts from a recorded run, that run is the one
  another workload makes.
* `calculation_cohort`: five runs are the fewest with a cohort that qualifies and a
  claim of it that does not, and with two organizations of two runs whose
  quartiles can touch, cross or be apart.  `MinOrgDifference` is not used there.
* `sign_in`: `MaxFailures = 1` in a window of one tick is the smallest limit; two tabs
  are one request in flight beside another, a second organization tells its window from
  the address's, and a second login is what a reset leaves.  `Ttl = 0` ends every session
  after one tick.  One time to live stands for the member's eight hours and the operator's
  one: only their end matters.
* Sessions are interchangeable wherever `SYMMETRY` is declared; no liveness is
  checked there.

Requests that come to nothing end where the code ends them, so the models whose
requests are all finite stop: their configurations turn deadlock detection off; a home whose workload is spent
and a cohort at `MaxRuns` stop too.
`jobs_loop` and the liveness in `keys_race` would show a real standstill.

### Fairness

* `JobQueue!FairSpec`: weak fairness of every worker's own steps, since the
  loop is a `while` over awaited statements, the process is restarted by its
  unit (`deploy/i-wish-i-knew-worker.service`), and of the passing of time for
  each row.  Nothing is assumed of faults, signals or which worker claims.
* `DataKeys!FairSpec`: weak fairness of `Proceed` of each session: the event
  loop runs its callbacks, the database answers a statement that can run.
  No fairness is assumed of getting a client: that is the question.
* All other specifications are safety only.

## 4. What is proved

Checked by TLAPS for every value of the constants that satisfies the named
assumptions.

| Theorem | Statement | Assumptions |
|---|---|---|
| `JobQueueProofs!QueueSafe` | `Spec => [](TypeOK /\ LockMatchesRunning /\ FailedOnlyWhenSpent)` | `JobQueueAssumption` |
| `JobQueueProofs!OneExecutorPerJob` | two workers are inside one job only after an overrun (`SingleExecutor`) | `JobQueueAssumption` |
| `JobQueueProofs!ClaimsArePaidFor` | a job is claimed at most `MaxAttempts` times plus once for every fault (`ClaimsPaidFor`) | `JobQueueAssumption` |
| `EvidenceProofs!OneCountPerMeasurement` | `NoHistory /\ Spec => []NoDoubleCount` | `EvidenceAssumption`, `NullAssumption` |
| `EvidenceProofs!SharedSourcesAreMarked` | `NoHistory /\ Spec => []SharedSourceMarked` | the same |
| `EvidenceProofs!LedgerIsExact` | `NoHistory /\ Spec => []LedgerExact` | the same |
| `EvidenceProofs!StoreImplementsLog` | `NoHistory /\ Spec => ImplementsLog` (refinement of `EvidenceLog`) | the same |
| `EvidenceProofs!StoreTyped` | `Spec => []TypeOK`, with any legacy rows and changes of the flag | the same |
| `EvidenceProofs!BackfillIsExact` | `NoIntake /\ Spec => []BackfillRestores` | the same |
| `AggregateProofs!ReleasesStayApart` | `Spec => []ReleasesDiffer` | `QueryAssumption`, `CohortAssumption` |
| `AggregateProofs!FreshReceiptsAreCurrent` | `Spec => []FreshReceiptIsCurrent` | the same |
| `AggregateProofs!CachedAnswersAreCurrent` | `Spec => []CacheIsCurrent` | the same |
| `AggregateProofs!ReceiptsAreRecorded` | `Spec => []ReleasesAreRecorded` | the same |
| `AggregateProofs!ReleasesAreShared` | `Spec => []ReleasedReceiptsQualify` | the same |
| `AggregateProofs!ReaderFollowsLog` | `Spec => ReadsTheLog` (its evidence steps are steps of `EvidenceLog`) | the same |
| `AggregateProofs!ContributorsPartition`, `QualifiedCohorts` | contributors share out the organizations of any cohort; what `thresholdReasons` lets pass | `CohortAssumption` |
| `AggregateProofs!PercentilesAreRanks` | `Growth => []SpreadsAreRanks` | `CalculationAssumption`, `ArrivalsAssumption` |
| `AggregateProofs!ContradictionsAreReal` | `Growth => []DisagreementIsReal` | the same |
| `AggregateProofs!ReleasesQualify` | `Growth => []ReleasedClaimsQualify` | the same, `CohortAssumption` |
| `AggregateProofs!ReportsClaimNoMore` | `Growth => []ReportClaimsNoMore` | `CalculationAssumption`, `ArrivalsAssumption` |
| `DataKeysProofs!BodiesOpen` | `Spec => [](TypeOK /\ EveryBodyOpens /\ CachesAgree)` | `KeysAssumption` |
| `DataKeysProofs!KeyIsForever` | no step changes a stored key | `KeysAssumption` |
| `ChallengeProofs!LedgerInvariant`, `LedgerTyped` | `Spec => []IInv`, `Spec => []TypeOK` | `LedgerAssumption`, `NullAssumption` |
| `ChallengeProofs!VerdictsStand` | `Spec => []VerdictStands` | the same |
| `ChallengeProofs!ReceiptsJudgedWhole` | `Spec => []WholeReceiptJudged` | the same |
| `ChallengeProofs!OneRevisionEach` | `Spec => []OneRevisionPerResolution` | the same |
| `ChallengeProofs!FilingsAreBounded` | `Spec => []RollingCountUpToWait` | the same |
| `EnrollmentProofs!OneOpenInviteEach` | `Spec => []OneOpenInvite` | `EnrollmentAssumption` |
| `EnrollmentProofs!InvitesMakeOneLogin` | `Spec => []InviteMakesOneLogin` | `EnrollmentAssumption` |
| `EnrollmentProofs!OneLoginLives` | `Spec => []OneLiveLogin` | `EnrollmentAssumption` |
| `EnrollmentProofs!AgreementsMatch` | `Spec => []AgreementsMatchForms` | `EnrollmentAssumption` |
| `EnrollmentProofs!SeededOnce` | `Spec => []SeedsOneNode` | `EnrollmentAssumption` |
| `SignInProofs!FormsKeep` | `Spec => []FormsKeepTheirSession` | `SignInAssumption` |
| `SignInProofs!SessionsEnd` | `Spec => []EndedSessionsStayEnded` | `SignInAssumption` |
| `SignInProofs!SessionsExpire` | `Spec => []TypeOK`: no cookie outlives its time to live | `SignInAssumption` |
| `SignInProofs!GuessesBounded` | `Spec => []GuessesAreBounded` | `SignInAssumption` |
| `RunnerProofs!HomeInvariant`, `HomeTyped` | `Spec => []IInv`, `Spec => []TypeOK` | `RunnerAssumption` |
| `RunnerProofs!SuccessIsBacked` | `Spec => []SucceededIsBacked` | `RunnerAssumption` |
| `RunnerProofs!AccountsAddUp` | `Spec => []AccountingIsExact` | `RunnerAssumption` |
| `RunnerProofs!PlansListRuns` | `Spec => []PlanListsItsRuns` | `RunnerAssumption` |
| `RunnerProofs!AcceptedWasShown` | `Spec => []AcceptedIsShown` | `RunnerAssumption` |
| `RunnerProofs!ResubmittingIsSafe` | `Spec => []ResubmissionIsIdempotent` | `RunnerAssumption` |

**The queue.**  `FailedOnlyWhenSpent` is not inductive: a settlement decides by
what the worker read when it claimed.  `IInv` adds `HeldOK`: what a worker holds
is a job, with at most as many attempts as its row has, and a job without a
handler is the only one it gives up at once.  Steps of a worker, time and
faults each have a lemma.  `MInv` adds for mutual exclusion that an executing
worker of a job that has not overrun owns its row (`Owner`; or finds it done,
when the answer to `settleDone` was lost), and that two are only in a job that
has (`Alone`).

**The budget of claims.**  That a job is claimed only so often is a count over
several workers, so it is proved as an account.  A claim needs a queued row; a
row is queued by its insertion, by a settlement that has attempts left, or by
recovery.  `Budget` adds up, for each job, the claims so far (those below the
maximum are set aside from the start), one for a row that waits or will be
recovered, and the workers that may yet requeue, and says that the sum is at
most `MaxAttempts + faults`.  A claim or a settlement moves between the three, a
fault pays for what it adds.

**The evidence.**  A submission reads under the revision lock and writes a step
later; its abort, a withdrawal it raced and the worker's statements come
between.  `EInv` says what a decision still means when it is carried out
(`Decided`): no run of the organization with this measurement if it found no
duplicate, none of anybody else's if it found no shared source.  Only the holder
of the lock is past its reads (`OpenOK`), and rows only age: they are flagged or
withdrawn, which takes candidates away and never adds any (`Aging`).  Recorded
withdrawals have marked their runs (`JobsDone`), so their job changes nothing.
`NoHistory`, that all rows came through this intake under one setting of the
dedupe flag, is needed: a backfill breaks all three between its statements, and
what it restores is `BackfillRestores`.  `LInv` adds that the counts of an account are
the cardinalities of its rows.  A submission adds one row to one of them, and a
withdrawal moves exactly the rows it is the first to mark, all of its own
organization (`Requested`).

**The backfill.**  Types need no such hypothesis.  `TInv` adds that withdrawals and
their jobs name stored runs (`Named`) and that these are finitely many, so that
counts are numbers.  For `BackfillRestores`, `BInv` says what each pass of
`repairContributions` still has to do: what it counted is what the rows say, what it
wrote is what it counted, and only accounts without rows are left to be zeroed.
From the count on the backfill changes only columns that are not counted.  Once the
duplicates are marked, the original of a measurement is its earliest row, hence one.
`NoIntake` says that no transaction begins (`MaxClock = 0`, as in
`evidence_backfill`): an upload or a withdrawal between the count and the write is
lost from the ledger, which is one of the hazards.  The legacy rows, which of them are
unreadable, the retries and the changes of the flag are arbitrary.

**The refinement.**  An accepted submission maps to `Accept` of its protocol, a
withdrawal to `Withdraw` of the protocols of its runs, everything else to a
stutter.  The step that could go wrong is a duplicate: it takes no revision, but
when it meets a shared source it flags every row of the measurement, which a
reader could see.  `LogInv` adds that a decision also holds the other way
(`Exactly`: a duplicate has a run of its organization, a shared source one of
another) and that conflicting rows are flagged whether or not they are candidates
(`AllMarked`).  So the rows a duplicate flags are in conflict already, and flagged.
`LogBehind`, that no logged revision is ahead, makes a new one the latest.

**The releases.**  A request compares its cohort with the recorded releases two
steps before its own is visible.  `RInv` carries over these steps that the
request holds its protocol's advisory lock (`HoldsLock`), that its members are
still far from every recorded release (`StillFar`), and that the recorded ones
are pairwise apart (`FarApart`).  A release of another protocol does not
matter, and one of the same protocol needs the lock.  The evidence may move
between the steps, and the proof never looks at it: the members were taken with
the decision.

**The answers.**  A cohort is read in one step and answered several steps later, or
much later from the cache, while intake and withdrawals go on.  `AInv` says of every
request past its reads, every cached row and every receipt what its answer is worth
(`Truthful`): if its protocol has no revision later than the one it is pinned at, its
cohort is what the same question has now.  An evidence step takes a revision later
than every pin, so it makes the hypothesis false of each answer it changes
(`Untouched`).  `Sound` adds that a release passed the thresholds, and that one from
the cache has a recorded release with its members, which is `FarApart` from every
other: so a cached answer is served safely without a new differencing check.

**The contributors.**  The code merges organizations by union-find; the model takes
the least set that links do not leave.  `ContributorIsLeast` shows that this set is
closed itself, so a class contains every class it meets (the rest of a class would
be a smaller closed set): classes are equal or disjoint.  Hence no more contributors
than organizations, and the runs of one contributor and of the others add up, which
is what `QualifiedCohorts` draws from empty `thresholdReasons`.  `QInv` carries that to the
receipts: an outcome that says `released` passed the thresholds when its cohort was
loaded, and pin check, decision, cache and commit put no other cohort into it.

**The statistics.**  `Calculation` has no state to speak of: `SInv` is that the cohort
is a list of arrivals, and the four theorems hold of every such list.  An array is
sorted by giving each value its place, the number of values up to it, equal ones in
their order.  Places are an injection into `1..n`, so all are taken (`PlacesFilled`),
and the k-th of the ascending array is at most x exactly when k of the values are
(`OrderStatistic`).  From this follow, by the arithmetic of the ranks alone, that a
nearest rank is a percentile (`RankIsPercentile`), that one's upper quartile is below
another's lower one exactly when the two are apart (`QuartilesApart`), and that p50
is at most the median (`ReportSpreadIs`).  What a filter leaves keeps its positions, so
two filters with equally many runs, one within the other, leave the same runs: this
compares the report with the service.
`ArrivalsAssumption` says that a result a harness left summarizes the attempts it
made (what `Runner` models and `RunRecord` accounts for) and that every attempt that
succeeded was timed: the harness fails an attempt that ends without a content token
(`src/packs/inference-api/harness/index.js:267`).

**The keys.**  A request carries the key it fetched over several awaits, so
`KInv` adds `FetchedIsStored` (what it goes on with is what the row has) and,
for reads, `ReadsABody`.  Both survive because a stored key never changes
(`KeysAreKept`), an INSERT that comes late included.

**The ledger.**  A resolution reads the challenge under the revision lock, a filing
counts under the advisory lock of its organization, and each writes a step later.
`IInv` says of every request which lock it holds (`Holds`) and what its reads are
worth until then (`StillTrue`): the challenge is still not resolved, the window
still has room.  Locks name only requests that hold them (`LocksOK`), so two requests
in the same place are one.  The window is where care is needed: a filing is
dated at its BEGIN, before it waits, so the filings it must count (`Beside`) are
those in the window less the longest wait so far, and that set only shrinks while
others wait.  `Dated` gives every resolved challenge a resolution and a revision there
is, which makes the revision a new resolution takes its own.

**The invites.**  A re-invite asks for open invites as of its BEGIN and inserts
later.  `OInv` adds that the requests which have passed the check are alone with
their organization (`OneHolder`, the row lock) and that nothing was open at
their BEGIN (`NoneOpen`); since invites never reopen and time does not go back,
nothing is open when they insert.  The steps that matter are three lemmas; all
others only close invites (`QuietStep`).  A redemption claims an invite, reads
and inserts in further statements, and accepts the invite at the end.  `RInv`
says what holds on the way: a claimed invite is not accepted and made no login
yet (`Unspent`), nobody else has claimed it (`OneRedeemer`), every login was
made by an accepted invite of its organization (`MadeByInvites`), no two by the
same (`OneEach`), and each accepted invite has its login (`SpentMade`).

**Logins and agreements.**  A reset revokes the logins it has read, and a form decides
whether to record an agreement long before its transaction.  `MInv` says what those
reads are worth while the invite they came by is open (`Knows`): it is the only open
one of its organization (`OneOpenInvite`) and nobody else has claimed it, so nobody
can have added a login or an agreement, and the logins to revoke are all there are.
An organization whose invite expires in between is `straddled`, which is the
exemption of the properties.  That an enrollment meets no login needs
`EnrolledFirst` and `FreshWhenInvited`: only an organization that has not enrolled is
invited to enroll.

**Boots.**  `BInv` says that one boot at a time is between its look at the tables and
its rows (`OneSeeds`, the advisory lock) and that what it missed then is still not
there (`NothingToReuse`): everybody else only registers nodes that are not seeded, or
revokes.

**The forms.**  A tab may show what it read before another tab signed in.  `FInv`
says of every tab whose nonce would be accepted that the session it shows is the
browser's or is gone (`Linked`), while it is still being rendered too, and that a
browser without a nonce has no session (`NonceFirst`).  A reply that sets a session
sets a nonce with it, which outdates the other tabs.

**The sessions.**  A page or a form opens its cookie in one step, looks its session up in
a second and renders or writes in a third, and a reset, a sign-in or a revocation may come
before each.  `SInv` says of every request that has passed its lookup that what it
carries had not ended when it was asked for (`AskedInForce`): logins only grow and tokens
are never given back (`EndedForGood`), so a session that is found was in force before
(`FoundInForce`).  A form is posted with an accepted nonce, so by `Linked` the cookie it
opens is the session of its page or none, and what it writes under is that session
(`OwnForm`); a sign-in of another tab afterwards changes the browser's cookie and not
what the request carries.

**The guesses.**  `GInv` keeps the windows and the count of guesses together
(`Counted`): both forget by the same rule, so they are equal.  Sign-ins that have
passed the window and await a row are not in it yet; `Room` says that with them it is
less than the limit and the tabs of the address.  A sign-in enters only when the window
has room, and a tab is in one sign-in at a time.

**The home.**  A command keeps what it read across its awaits, while other commands
and the harness write the same files, and may die between any two.  `CommandOK` says what
remains true of what it knows: its entry is there, the preview it will show or submit is
one the service has, the row it will confirm is the stored one.  Every run command takes
an id of its own (`RunsApart`), so the draft of a run is made
by one command, from what one harness left (`Drawn`), and the four facts about success
and accounting are facts about that computation.  A resubmission can meet a conflict
only if the bodies of a run differ: `OneBody` says that for a run previewed under
one policy and by one command at a time (`Solo`) the signed file, the preview, what the
command carries and the stored row are the same body, where a file may be torn, and
`AnswersOK` that a conflict was answered to no such run.

**The plans.**  A run carries the plan it loaded until it saves it, so the saved plan is
only one of several versions, and any of the others may replace it.  `PInv` says of every
version (`Versions`) what the property says of the saved one (`Lists`), that a run which is
about to save it is recorded as a run of the plan and no earlier one is (`CarriesOK`), and
that of two runs that carry versions at once both have overlapped.  When one of them saves, what the
others miss is its run, which is exempt.  While there is no plan nothing carries or names
one, so a first plan misses nothing.

Out of the prover's reach and left to TLC: liveness under fairness
(`EventuallySettled`, `SubmissionsAreAnswered`), and what would need induction
over data (that a recursion computes its result for every input).

Where a proof needs a least row or a greatest revision, it takes it from
`WFMin` of the natural numbers.

Every invariant and every safety property that a passing run checks is a theorem, and so
are the type invariants no run repeats (of the evidence, the queue, the keys and the
sign-in); the
two liveness properties are only model-checked.  What `MapThenSumSet` adds up
(`SumOf`) is in no property.

## 5. What is not modelled

* Validation of bodies, sanitizing, secret scanning, wording, pages.
  What they refuse never reaches the state the models have.
* Digests and encryption as functions: a digest equals another exactly when
  the contents are equal, a body opens exactly with the key that sealed it.
* Signatures of cookies and of runs, and password hashing: a cookie is what the
  service set, a password is the one of a login or of none.
* Rounding: percentiles are of integers.  The service computes the rank in floating
  point, which is exact for the percentiles it uses and any cohort it could hold.
* The delta of own runs has its recipients and its presence, not its numbers.
* The API key of a run.  The runner writes it to the input in the work directory and not
  to the vault's copy (`run.ts:364`), but what a harness prints or leaves in its output
  directory goes to the vault as it is (`run.ts:376`, `run.ts:381`), and the work directory of
  a runner that died stays.
* The validation of the assembled run before `run` returns: it is taken to succeed.
* The runner's withdrawal (its effect is `EvidenceStore`'s), its list of
  contributions, the MCP framing, key files and the HTTP client.
* Retry-after of a full window, which follows its oldest failure.
* The registry and start-up: loaded once, constants or inputs of the models.
* The requests of a harness to its target, deployment, generated schemas and views.

## 6. What remains

1. An upload beside a running backfill: TLC finds the counts it loses (see the
   hazards in `PROJECT.json`), and nothing in the code says how it should be.
2. The runner's withdrawal and contribution list as actions of `Runner`.
