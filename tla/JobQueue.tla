------------------------------ MODULE JobQueue ------------------------------
(***************************************************************************)
(* The durable job table and the workers that share it                     *)
(* (packages/service/src/modules/jobs/index.ts, worker.ts).                *)
(*                                                                         *)
(* A job is named by its idempotency key.  Every SQL statement of the      *)
(* runner is one action; between two statements any other worker, a crash  *)
(* or a database fault may intervene.  Wall-clock time is abstracted to    *)
(* the two comparisons the code makes: run_after <= now() is membership in *)
(* `order', and locked_at < now() - staleLockMs is membership in `stale'.  *)
(***************************************************************************)
EXTENDS Naturals, Sequences, FiniteSets

CONSTANTS
  Key,          \* idempotency keys of the jobs table
  Maint,        \* the keys the workers enqueue themselves (reap, backfills)
  Handled,      \* the keys whose kind has a registered handler
  Worker,       \* worker processes
  None,         \* SQL NULL for locked_by, and "holds no job" for a worker
  MaxAttempts,  \* JobRunnerOptions.maxAttempts
  MaxFaults     \* bound: crashes, stops, database faults and overruns

ASSUME JobQueueAssumption ==
  /\ IsFiniteSet(Key) /\ Maint \subseteq Key /\ Handled \subseteq Key
  /\ None \notin Key /\ None \notin Worker
  /\ MaxAttempts \in Nat \ {0} /\ MaxFaults \in Nat

VARIABLES
  state,     \* jobs.state per key; "absent" before the row is inserted
  attempts,  \* jobs.attempts
  lockedBy,  \* jobs.locked_by; locked_at is set exactly when it is
  stale,     \* keys whose locked_at is older than staleLockMs
  order,     \* keys with run_after <= now(), by (run_after, created_at, job_id)
  pc,        \* where each worker's loop is
  held,      \* the JobRow a worker's claim returned: its key and attempts
  stopping,  \* workers that received SIGTERM or SIGINT
  faults,    \* faults so far, at most MaxFaults
  overran    \* keys a handler of which has outlasted staleLockMs

vars == <<state, attempts, lockedBy, stale, order, pc, held, stopping, faults, overran>>

JobState == {"absent", "queued", "running", "done", "failed"}
Pc == {"tick", "ensure", "claim", "run", "done", "fail", "fatal", "idle", "down"}

\* The program points at which a worker holds a claimed job.
Executing(w) == pc[w] \in {"run", "done", "fail", "fatal"}

NoJob == [key |-> None, attempts |-> 0]

TypeOK ==
  /\ state \in [Key -> JobState]
  /\ attempts \in [Key -> Nat]
  /\ lockedBy \in [Key -> Worker \union {None}]
  /\ stale \subseteq Key
  /\ order \in Seq(Key)
  /\ pc \in [Worker -> Pc]
  /\ held \in [Worker -> [key : Key \union {None}, attempts : Nat]]
  /\ stopping \subseteq Worker
  /\ faults \in Nat
  /\ overran \subseteq Key

Init ==
  /\ state = [k \in Key |-> "absent"]
  /\ attempts = [k \in Key |-> 0]
  /\ lockedBy = [k \in Key |-> None]
  /\ stale = {}
  /\ order = <<>>
  /\ pc = [w \in Worker |-> "tick"]
  /\ held = [w \in Worker |-> NoJob]
  /\ stopping = {}
  /\ faults = 0
  /\ overran = {}

-----------------------------------------------------------------------------
\* enqueueJob: ON CONFLICT (idempotency_key) DO NOTHING; the new rows become
\* runnable now, after every row that already is (in any order among them).
Inserted(S) ==
  LET new == {k \in S : state[k] = "absent"} IN
  /\ state' = [k \in Key |-> IF k \in new THEN "queued" ELSE state[k]]
  /\ \E q \in [1 .. Cardinality(new) -> new] :
       /\ \A i, j \in DOMAIN q : q[i] = q[j] => i = j
       /\ order' = order \o q

\* The API side (withdrawRuns) enqueues in its own transaction.
Enqueue(k) ==
  /\ k \in Key \ Maint
  /\ state[k] = "absent"
  /\ Inserted({k})
  /\ UNCHANGED <<attempts, lockedBy, stale, pc, held, stopping, faults, overran>>

-----------------------------------------------------------------------------
\* The worker's tick: recoverStale, ensureMaintenanceJobs, drain.

Goto(w, p) == pc' = [pc EXCEPT ![w] = p]

\* Bounded: what may go wrong, goes wrong at most MaxFaults times.
Fault == faults < MaxFaults /\ faults' = faults + 1

\* Slip: any running row counts as stale.
RecoverAny(w) ==
  LET gone == {k \in Key : state[k] = "running"} IN
  /\ pc[w] = "tick"
  /\ state' = [k \in Key |-> IF k \in gone THEN "queued" ELSE state[k]]
  /\ lockedBy' = [k \in Key |-> IF k \in gone THEN None ELSE lockedBy[k]]
  /\ stale' = stale \ gone
  /\ Goto(w, "ensure")
  /\ UNCHANGED <<attempts, order, held, stopping, faults, overran>>

\* Slip: locked_at IS NULL instead of IS NOT NULL, so nothing is recovered.
RecoverNone(w) ==
  /\ pc[w] = "tick"
  /\ Goto(w, "ensure")
  /\ UNCHANGED <<state, attempts, lockedBy, stale, order, held, stopping, faults, overran>>

RecoverStale(w) ==
  LET gone == {k \in stale : state[k] = "running" /\ lockedBy[k] # None} IN
  /\ pc[w] = "tick"
  /\ state' = [k \in Key |-> IF k \in gone THEN "queued" ELSE state[k]]
  /\ lockedBy' = [k \in Key |-> IF k \in gone THEN None ELSE lockedBy[k]]
  /\ stale' = stale \ gone
  /\ Goto(w, "ensure")
  /\ UNCHANGED <<attempts, order, held, stopping, faults, overran>>

\* `due' is what this tick schedules: the reap of the current hour bucket and
\* each backfill while rows still need it.
EnsureMaintenance(w, due) ==
  /\ pc[w] = "ensure"
  /\ due \subseteq Maint
  /\ Inserted(due)
  /\ Goto(w, "claim")
  /\ UNCHANGED <<attempts, lockedBy, stale, held, stopping, faults, overran>>

\* The row the claim's sub-select returns: the first runnable one.
Runnable(k) ==
  \E i \in DOMAIN order :
    /\ order[i] = k
    /\ state[k] = "queued"
    /\ \A j \in 1 .. (i - 1) : state[order[j]] # "queued"

\* The single UPDATE of claim(): running, attempts + 1, locked now by w.
\* Slip: the lock columns are not written by the claim.
MarkRunningUnlocked(w, k) ==
  /\ state' = [state EXCEPT ![k] = "running"]
  /\ attempts' = [attempts EXCEPT ![k] = @ + 1]
  /\ stale' = stale \ {k}
  /\ UNCHANGED lockedBy

MarkRunning(w, k) ==
  /\ state' = [state EXCEPT ![k] = "running"]
  /\ attempts' = [attempts EXCEPT ![k] = @ + 1]
  /\ lockedBy' = [lockedBy EXCEPT ![k] = w]
  /\ stale' = stale \ {k}

Claim(w, k) ==
  /\ pc[w] = "claim" /\ w \notin stopping
  /\ Runnable(k)
  /\ MarkRunning(w, k)
  /\ held' = [held EXCEPT ![w] = [key |-> k, attempts |-> attempts[k] + 1]]
  /\ Goto(w, "run")
  /\ UNCHANGED <<order, stopping, faults, overran>>

\* drain ends: nothing runnable, or the stop signal was seen before a claim.
DrainEnds(w) ==
  /\ pc[w] = "claim"
  /\ w \in stopping \/ \A k \in Key : ~Runnable(k)
  /\ Goto(w, "idle")
  /\ UNCHANGED <<state, attempts, lockedBy, stale, order, held, stopping, faults, overran>>

\* runOne: the handler returns or throws; an unregistered kind throws the
\* non-retryable error without running anything.
HandlerReturns(w) ==
  /\ pc[w] = "run" /\ held[w].key \in Handled
  /\ Goto(w, "done")
  /\ UNCHANGED <<state, attempts, lockedBy, stale, order, held, stopping, faults, overran>>

HandlerThrows(w) ==
  /\ pc[w] = "run"
  /\ Goto(w, IF held[w].key \in Handled THEN "fail" ELSE "fatal")
  /\ UNCHANGED <<state, attempts, lockedBy, stale, order, held, stopping, faults, overran>>

\* The UPDATE every settle statement makes: keyed by job_id alone.
Settled(k, s) ==
  /\ state' = [state EXCEPT ![k] = s]
  /\ lockedBy' = [lockedBy EXCEPT ![k] = None]
  /\ stale' = stale \ {k}

SettleDone(w) ==
  /\ pc[w] = "done"
  /\ Settled(held[w].key, "done")
  /\ held' = [held EXCEPT ![w] = NoJob]
  /\ Goto(w, "claim")
  /\ UNCHANGED <<attempts, order, stopping, faults, overran>>

\* Slip: one attempt too many.
ExhaustedLate(w) == pc[w] = "fatal" \/ held[w].attempts > MaxAttempts

\* settleFailure decides on the attempts its own claim returned.
Exhausted(w) == pc[w] = "fatal" \/ held[w].attempts >= MaxAttempts

\* The runnable keys without k, which occurs at most once.
Without(q, k) ==
  LET at == CHOOSE i \in DOMAIN q : q[i] = k IN
  IF \A i \in DOMAIN q : q[i] # k THEN q
  ELSE SubSeq(q, 1, at - 1) \o SubSeq(q, at + 1, Len(q))

SettleFailure(w) ==
  /\ pc[w] \in {"fail", "fatal"}
  /\ \/ /\ Exhausted(w)
        /\ Settled(held[w].key, "failed")
        /\ UNCHANGED order
     \/ /\ ~Exhausted(w)
        /\ Settled(held[w].key, "queued")
        /\ order' = Without(order, held[w].key)
  /\ held' = [held EXCEPT ![w] = NoJob]
  /\ Goto(w, "claim")
  /\ UNCHANGED <<attempts, stopping, faults, overran>>

\* The main loop: next tick, or leave once the stop signal has been seen.
NextTick(w) ==
  /\ pc[w] = "idle"
  /\ Goto(w, IF w \in stopping THEN "down" ELSE "tick")
  /\ UNCHANGED <<state, attempts, lockedBy, stale, order, held, stopping, faults, overran>>

Signal(w) ==
  /\ Fault
  /\ pc[w] # "down" /\ w \notin stopping
  /\ stopping' = stopping \union {w}
  /\ UNCHANGED <<state, attempts, lockedBy, stale, order, pc, held, overran>>

\* The unit's restart policy (or the next cron run of --once).
Restart(w) ==
  /\ pc[w] = "down"
  /\ stopping' = stopping \ {w}
  /\ Goto(w, "tick")
  /\ UNCHANGED <<state, attempts, lockedBy, stale, order, held, faults, overran>>

-----------------------------------------------------------------------------
\* Time.

\* A retry's run_after passes: the row joins the runnable ones, last.
BackoffElapses(k) ==
  /\ state[k] = "queued"
  /\ \A i \in DOMAIN order : order[i] # k
  /\ order' = Append(order, k)
  /\ UNCHANGED <<state, attempts, lockedBy, stale, pc, held, stopping, faults, overran>>

HolderAlive(k) == \E w \in Worker : Executing(w) /\ held[w].key = k

\* A lock outlives staleLockMs because nobody will ever settle the row ...
LockAges(k) ==
  /\ state[k] = "running" /\ k \notin stale
  /\ ~HolderAlive(k)
  /\ stale' = stale \union {k}
  /\ UNCHANGED <<state, attempts, lockedBy, order, pc, held, stopping, faults, overran>>

\* ... or because a handler that is still running is slow.
HandlerOverruns(k) ==
  /\ Fault
  /\ state[k] = "running" /\ k \notin stale
  /\ HolderAlive(k)
  /\ stale' = stale \union {k}
  /\ overran' = overran \union {k}
  /\ UNCHANGED <<state, attempts, lockedBy, order, pc, held, stopping>>

-----------------------------------------------------------------------------
\* Faults.

\* The process dies; its row, if any, stays `running'.
Crash(w) ==
  /\ Fault
  /\ pc[w] # "down"
  /\ Goto(w, "down")
  /\ held' = [held EXCEPT ![w] = NoJob]
  /\ UNCHANGED <<state, attempts, lockedBy, stale, order, stopping, overran>>

\* A statement of the tick outside runOne's try, or settleFailure itself,
\* is rejected: the error is logged and the loop goes on with the next tick.
TickFails(w) ==
  /\ Fault
  /\ pc[w] \in {"tick", "ensure", "claim", "fail", "fatal"}
  /\ held' = [held EXCEPT ![w] = NoJob]
  /\ Goto(w, "idle")
  /\ UNCHANGED <<state, attempts, lockedBy, stale, order, stopping, overran>>

\* The claim commits but its answer never arrives: a `running' row nobody runs.
ClaimAnswerLost(w, k) ==
  /\ Fault
  /\ pc[w] = "claim" /\ w \notin stopping
  /\ Runnable(k)
  /\ MarkRunning(w, k)
  /\ Goto(w, "idle")
  /\ UNCHANGED <<order, held, stopping, overran>>

\* settleDone is rejected inside runOne's try, so the catch settles a failure;
\* the UPDATE itself may or may not have been committed.
SettleDoneFails(w) ==
  /\ Fault
  /\ pc[w] = "done"
  /\ \/ UNCHANGED <<state, lockedBy, stale>>
     \/ Settled(held[w].key, "done")
  /\ Goto(w, "fail")
  /\ UNCHANGED <<attempts, order, held, stopping, overran>>

-----------------------------------------------------------------------------
WorkerStep(w) ==
  \/ RecoverStale(w)
  \/ \E due \in SUBSET Maint : EnsureMaintenance(w, due)
  \/ \E k \in Key : Claim(w, k)
  \/ DrainEnds(w)
  \/ HandlerReturns(w)
  \/ HandlerThrows(w)
  \/ SettleDone(w)
  \/ SettleFailure(w)
  \/ NextTick(w)
  \/ Restart(w)

FaultStep(w) ==
  \/ Crash(w)
  \/ TickFails(w)
  \/ \E k \in Key : ClaimAnswerLost(w, k)
  \/ SettleDoneFails(w)

TimeStep(k) == BackoffElapses(k) \/ LockAges(k)

Next ==
  \/ \E k \in Key : Enqueue(k)
  \/ \E w \in Worker : WorkerStep(w)
  \/ \E w \in Worker : Signal(w)
  \/ \E k \in Key : TimeStep(k)
  \/ \E k \in Key : HandlerOverruns(k)
  \/ \E w \in Worker : FaultStep(w)

Spec == Init /\ [][Next]_vars

\* The loop is a `while' over awaited statements and the unit restarts the
\* process; clocks advance; a handler that is running settles.
FairSpec ==
  /\ Spec
  /\ \A w \in Worker : WF_vars(WorkerStep(w))
  /\ \A k \in Key : WF_vars(TimeStep(k))

-----------------------------------------------------------------------------
\* Properties.

\* A `running' row always has its lock columns set, and only such a row has
\* them: recoverStale's "locked_at IS NOT NULL" never hides a row for good.
LockMatchesRunning ==
  \A k \in Key : state[k] = "running" <=> lockedBy[k] # None

\* A row is `failed' only after maxAttempts claims or because no handler
\* knows its kind, whatever stale recoveries and late settlements did.
FailedOnlyWhenSpent ==
  \A k \in Key : state[k] = "failed" =>
    attempts[k] >= MaxAttempts \/ k \notin Handled

\* FOR UPDATE SKIP LOCKED and the stale-lock rule together: two workers are
\* inside one job at the same time only if a handler of it has outlasted
\* staleLockMs.
SingleExecutor ==
  \A v, w \in Worker :
    Executing(v) /\ Executing(w) /\ held[v].key = held[w].key => v = w \/ held[v].key \in overran

\* Every claim beyond maxAttempts is paid for by a crash, a
\* database fault or an overrun; retries alone never exceed the maximum.
ClaimsPaidFor ==
  \A k \in Key : attempts[k] <= MaxAttempts + faults

\* An enqueued job is eventually settled, through crashes, lost answers,
\* stale locks and retries.
EventuallySettled ==
  \A k \in Key : state[k] # "absent" ~> state[k] \in {"done", "failed"}

\* jobs/index.ts:9-10: "attempts is counted at claim time, so a crash loop
\* also lands in failed instead of running forever": no row is ever claimed
\* more than maxAttempts times.
CrashLoopIsBounded ==
  \A k \in Key : attempts[k] <= MaxAttempts

=============================================================================
