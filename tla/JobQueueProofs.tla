--------------------------- MODULE JobQueueProofs ---------------------------
(* Proofs about JobQueue for any number of jobs, workers, attempts and faults. *)
EXTENDS JobQueue, FiniteSetTheorems, SequenceTheorems, TLAPS

\* What a worker believes about the job it holds.
HeldOK ==
  \A w \in Worker : Executing(w) =>
    /\ held[w].key \in Key
    /\ held[w].attempts <= attempts[held[w].key]
    /\ pc[w] = "fatal" => held[w].key \notin Handled

\* The inductive invariant: a settlement acts on what the worker holds, so
\* FailedOnlyWhenSpent needs HeldOK, and the lock columns need the types.
IInv == TypeOK /\ LockMatchesRunning /\ HeldOK /\ FailedOnlyWhenSpent

-----------------------------------------------------------------------------
\* The table is empty and every worker starts its first tick.
LEMMA InitIInv == Init => IInv
  BY JobQueueAssumption
  DEF Init, IInv, TypeOK, LockMatchesRunning, HeldOK, FailedOnlyWhenSpent, Executing,
      JobState, Pc, NoJob

\* What Inserted does to the rows: absent ones become queued, no other moves.
LEMMA InsertedRows ==
  ASSUME TypeOK, NEW S \in SUBSET Key, Inserted(S)
  PROVE /\ state' \in [Key -> JobState]
        /\ order' \in Seq(Key)
        /\ \A k \in Key : state'[k] = state[k] \/ (state[k] = "absent" /\ state'[k] = "queued")
<1> DEFINE new == {k \in S : state[k] = "absent"}
<1>1. state' = [k \in Key |-> IF k \in new THEN "queued" ELSE state[k]]
  BY DEF Inserted
<1>2. PICK q \in [1 .. Cardinality(new) -> new] : order' = order \o q
  BY DEF Inserted
<1>3. \A k \in Key : state'[k] = state[k] \/ (state[k] = "absent" /\ state'[k] = "queued")
  BY <1>1
<1>4. state' \in [Key -> JobState]
  BY <1>1 DEF TypeOK, JobState
<1>5. order' \in Seq(Key)
  <2>1. Cardinality(new) \in Nat
    BY JobQueueAssumption, FS_Subset, FS_CardinalityType
  <2>2. q \in [1 .. Cardinality(new) -> Key]
    OBVIOUS
  <2>3. q \in Seq(Key)
    BY <2>1, <2>2, SeqDef
  <2>4. QED
    BY <2>3, <1>2, ConcatProperties DEF TypeOK
<1>6. QED
  BY <1>3, <1>4, <1>5

\* Taking a key out of the runnable ones leaves a sequence of keys.
LEMMA WithoutSeq ==
  ASSUME NEW q \in Seq(Key), NEW k
  PROVE Without(q, k) \in Seq(Key)
<1>1. CASE \A i \in DOMAIN q : q[i] # k
  BY <1>1 DEF Without
<1>2. CASE \E i \in DOMAIN q : q[i] = k
  <2> DEFINE at == CHOOSE i \in DOMAIN q : q[i] = k
  <2>1. at \in 1 .. Len(q)
    BY <1>2, LenProperties
  <2>2. /\ SubSeq(q, 1, at - 1) \in Seq(Key)
        /\ SubSeq(q, at + 1, Len(q)) \in Seq(Key)
    <3>1. \A i \in 1 .. Len(q) : q[i] \in Key
      BY ElementOfSeq
    <3>2. Len(q) \in Nat
      BY LenProperties
    <3>3. SubSeq(q, 1, at - 1) \in Seq(Key)
      <4>1. \A i \in 1 .. (at - 1) : q[i] \in Key
        BY <2>1, <3>1, <3>2
      <4>2. QED
        BY <2>1, <3>2, <4>1, SubSeqProperties
    <3>4. SubSeq(q, at + 1, Len(q)) \in Seq(Key)
      <4>1. \A i \in (at + 1) .. Len(q) : q[i] \in Key
        BY <2>1, <3>1, <3>2
      <4>2. QED
        BY <2>1, <3>2, <4>1, SubSeqProperties
    <3>5. QED
      BY <3>3, <3>4
  <2>3. SubSeq(q, 1, at - 1) \o SubSeq(q, at + 1, Len(q)) \in Seq(Key)
    BY <2>2, ConcatProperties
  <2>4. QED
    BY <1>2, <2>3 DEF Without
<1>3. QED
  BY <1>1, <1>2

\* One UPDATE that claims a runnable row keeps the row invariants.
LEMMA MarkRunningKeeps ==
  ASSUME IInv, NEW w \in Worker, NEW k \in Key, MarkRunning(w, k)
  PROVE /\ state' \in [Key -> JobState] /\ attempts' \in [Key -> Nat]
        /\ lockedBy' \in [Key -> Worker \union {None}] /\ stale' \subseteq Key
        /\ LockMatchesRunning' /\ FailedOnlyWhenSpent'
        /\ attempts'[k] = attempts[k] + 1
        /\ \A j \in Key : attempts[j] <= attempts'[j]
  BY JobQueueAssumption
  DEF IInv, TypeOK, LockMatchesRunning, FailedOnlyWhenSpent, MarkRunning, JobState

\* One UPDATE that settles a row keeps the row invariants, provided a failure
\* is justified.
LEMMA SettledKeeps ==
  ASSUME IInv, NEW k \in Key, NEW s \in {"queued", "done", "failed"}, Settled(k, s),
         UNCHANGED attempts,
         s = "failed" => attempts[k] >= MaxAttempts \/ k \notin Handled
  PROVE /\ state' \in [Key -> JobState]
        /\ lockedBy' \in [Key -> Worker \union {None}] /\ stale' \subseteq Key
        /\ LockMatchesRunning' /\ FailedOnlyWhenSpent'
  BY JobQueueAssumption
  DEF IInv, TypeOK, LockMatchesRunning, FailedOnlyWhenSpent, Settled, JobState

\* Every step of a worker's loop keeps the invariant.
LEMMA WorkerStepIInv ==
  ASSUME IInv, NEW w \in Worker, WorkerStep(w)
  PROVE IInv'
<1> USE JobQueueAssumption DEF IInv, JobState, Pc
<1>1. CASE RecoverStale(w)
  BY <1>1 DEF RecoverStale, Goto, TypeOK, LockMatchesRunning, HeldOK, FailedOnlyWhenSpent, Executing
<1>2. ASSUME NEW due \in SUBSET Maint, EnsureMaintenance(w, due)
      PROVE IInv'
  <2>1. due \in SUBSET Key
    OBVIOUS
  <2>2. /\ state' \in [Key -> JobState]
        /\ order' \in Seq(Key)
        /\ \A k \in Key : state'[k] = state[k] \/ (state[k] = "absent" /\ state'[k] = "queued")
    BY <1>2, <2>1, InsertedRows DEF EnsureMaintenance
  <2>3. TypeOK'
    BY <1>2, <2>2 DEF EnsureMaintenance, Goto, TypeOK
  <2>4. LockMatchesRunning' /\ HeldOK' /\ FailedOnlyWhenSpent'
    BY <1>2, <2>2
    DEF EnsureMaintenance, Goto, TypeOK, LockMatchesRunning, HeldOK, FailedOnlyWhenSpent, Executing
  <2>5. QED
    BY <2>3, <2>4
<1>3. ASSUME NEW k \in Key, Claim(w, k)
      PROVE IInv'
  <2>1. /\ state' \in [Key -> JobState] /\ attempts' \in [Key -> Nat]
        /\ lockedBy' \in [Key -> Worker \union {None}] /\ stale' \subseteq Key
        /\ LockMatchesRunning' /\ FailedOnlyWhenSpent'
        /\ attempts'[k] = attempts[k] + 1
        /\ \A j \in Key : attempts[j] <= attempts'[j]
    BY <1>3, MarkRunningKeeps DEF Claim
  <2>2. TypeOK'
    BY <1>3, <2>1 DEF Claim, Goto, TypeOK
  <2>3. HeldOK'
    BY <1>3, <2>1 DEF Claim, Goto, TypeOK, HeldOK, Executing
  <2>4. QED
    BY <2>1, <2>2, <2>3
<1>4. CASE DrainEnds(w)
  BY <1>4 DEF DrainEnds, Goto, TypeOK, LockMatchesRunning, HeldOK, FailedOnlyWhenSpent, Executing
<1>5. CASE HandlerReturns(w)
  BY <1>5 DEF HandlerReturns, Goto, TypeOK, LockMatchesRunning, HeldOK, FailedOnlyWhenSpent, Executing
<1>6. CASE HandlerThrows(w)
  BY <1>6 DEF HandlerThrows, Goto, TypeOK, LockMatchesRunning, HeldOK, FailedOnlyWhenSpent, Executing
<1>7. CASE SettleDone(w)
  <2>1. held[w].key \in Key
    BY <1>7 DEF SettleDone, HeldOK, Executing
  <2>2. /\ state' \in [Key -> JobState]
        /\ lockedBy' \in [Key -> Worker \union {None}] /\ stale' \subseteq Key
        /\ LockMatchesRunning' /\ FailedOnlyWhenSpent'
    BY <1>7, <2>1, SettledKeeps DEF SettleDone
  <2>3. TypeOK' /\ HeldOK'
    BY <1>7, <2>2 DEF SettleDone, Goto, NoJob, TypeOK, HeldOK, Executing
  <2>4. QED
    BY <2>2, <2>3
<1>8. CASE SettleFailure(w)
  <2>1. held[w].key \in Key
    BY <1>8 DEF SettleFailure, HeldOK, Executing
  <2>2. Exhausted(w) => attempts[held[w].key] >= MaxAttempts \/ held[w].key \notin Handled
    <3>1. /\ held[w].attempts \in Nat /\ attempts[held[w].key] \in Nat
          /\ held[w].attempts <= attempts[held[w].key]
          /\ pc[w] = "fatal" => held[w].key \notin Handled
      BY <1>8, <2>1 DEF SettleFailure, HeldOK, Executing, TypeOK
    <3>2. QED
      BY <3>1 DEF Exhausted
  <2>3. /\ state' \in [Key -> JobState]
        /\ lockedBy' \in [Key -> Worker \union {None}] /\ stale' \subseteq Key
        /\ LockMatchesRunning' /\ FailedOnlyWhenSpent'
    BY <1>8, <2>1, <2>2, SettledKeeps DEF SettleFailure
  <2>4. order' \in Seq(Key)
    BY <1>8, WithoutSeq DEF SettleFailure, TypeOK
  <2>5. TypeOK' /\ HeldOK'
    BY <1>8, <2>3, <2>4 DEF SettleFailure, Goto, NoJob, TypeOK, HeldOK, Executing
  <2>6. QED
    BY <2>3, <2>5
<1>9. CASE NextTick(w)
  BY <1>9 DEF NextTick, Goto, TypeOK, LockMatchesRunning, HeldOK, FailedOnlyWhenSpent, Executing
<1>10. CASE Restart(w)
  BY <1>10 DEF Restart, Goto, TypeOK, LockMatchesRunning, HeldOK, FailedOnlyWhenSpent, Executing
<1>11. QED
  BY <1>1, <1>2, <1>3, <1>4, <1>5, <1>6, <1>7, <1>8, <1>9, <1>10 DEF WorkerStep

\* Passing time, an overrun included, keeps the invariant.
LEMMA TimeIInv ==
  ASSUME IInv, NEW k \in Key, TimeStep(k) \/ HandlerOverruns(k)
  PROVE IInv'
<1>1. CASE BackoffElapses(k)
  BY <1>1, AppendProperties
  DEF BackoffElapses, IInv, TypeOK, LockMatchesRunning, HeldOK, FailedOnlyWhenSpent, Executing
<1>2. CASE LockAges(k)
  BY <1>2 DEF LockAges, IInv, TypeOK, LockMatchesRunning, HeldOK, FailedOnlyWhenSpent, Executing
<1>3. CASE HandlerOverruns(k)
  BY <1>3
  DEF HandlerOverruns, Fault, IInv, TypeOK, LockMatchesRunning, HeldOK, FailedOnlyWhenSpent, Executing
<1>4. QED
  BY <1>1, <1>2, <1>3 DEF TimeStep

\* So does every fault.
LEMMA FaultIInv ==
  ASSUME IInv, NEW w \in Worker, FaultStep(w)
  PROVE IInv'
<1> USE JobQueueAssumption DEF IInv, JobState, Pc, Fault
<1>1. CASE Crash(w)
  BY <1>1 DEF Crash, Goto, NoJob, TypeOK, LockMatchesRunning, HeldOK, FailedOnlyWhenSpent, Executing
<1>2. CASE TickFails(w)
  BY <1>2
  DEF TickFails, Goto, NoJob, TypeOK, LockMatchesRunning, HeldOK, FailedOnlyWhenSpent, Executing
<1>3. ASSUME NEW k \in Key, ClaimAnswerLost(w, k)
      PROVE IInv'
  <2>1. /\ state' \in [Key -> JobState] /\ attempts' \in [Key -> Nat]
        /\ lockedBy' \in [Key -> Worker \union {None}] /\ stale' \subseteq Key
        /\ LockMatchesRunning' /\ FailedOnlyWhenSpent'
        /\ \A j \in Key : attempts[j] <= attempts'[j]
    BY <1>3, MarkRunningKeeps DEF ClaimAnswerLost
  <2>2. TypeOK'
    BY <1>3, <2>1 DEF ClaimAnswerLost, Goto, TypeOK
  <2>3. HeldOK'
    BY <1>3, <2>1 DEF ClaimAnswerLost, Goto, TypeOK, HeldOK, Executing
  <2>4. QED
    BY <2>1, <2>2, <2>3
<1>4. CASE SettleDoneFails(w)
  <2>1. held[w].key \in Key
    BY <1>4 DEF SettleDoneFails, HeldOK, Executing
  <2>2. /\ state' \in [Key -> JobState]
        /\ lockedBy' \in [Key -> Worker \union {None}] /\ stale' \subseteq Key
        /\ LockMatchesRunning' /\ FailedOnlyWhenSpent'
    <3>1. CASE UNCHANGED <<state, lockedBy, stale>>
      BY <1>4, <3>1 DEF SettleDoneFails, TypeOK, LockMatchesRunning, FailedOnlyWhenSpent
    <3>2. CASE Settled(held[w].key, "done")
      BY <1>4, <2>1, <3>2, SettledKeeps DEF SettleDoneFails
    <3>3. QED
      BY <1>4, <3>1, <3>2 DEF SettleDoneFails
  <2>3. TypeOK' /\ HeldOK'
    BY <1>4, <2>2 DEF SettleDoneFails, Goto, TypeOK, HeldOK, Executing
  <2>4. QED
    BY <2>2, <2>3
<1>5. QED
  BY <1>1, <1>2, <1>3, <1>4 DEF FaultStep

\* Every step keeps the invariant.
LEMMA NextIInv == IInv /\ [Next]_vars => IInv'
<1> SUFFICES ASSUME IInv, [Next]_vars
             PROVE IInv'
  OBVIOUS
<1>1. ASSUME NEW k \in Key, Enqueue(k)
      PROVE IInv'
  <2>1. /\ state' \in [Key -> JobState]
        /\ order' \in Seq(Key)
        /\ \A j \in Key : state'[j] = state[j] \/ (state[j] = "absent" /\ state'[j] = "queued")
    <3>1. {k} \in SUBSET Key /\ Inserted({k}) /\ TypeOK
      BY <1>1 DEF Enqueue, IInv
    <3>2. QED
      BY <3>1, InsertedRows
  <2>2. QED
    BY <1>1, <2>1
    DEF Enqueue, IInv, TypeOK, LockMatchesRunning, HeldOK, FailedOnlyWhenSpent, Executing
<1>2. ASSUME NEW w \in Worker, WorkerStep(w)
      PROVE IInv'
  BY <1>2, WorkerStepIInv
<1>3. ASSUME NEW w \in Worker, Signal(w)
      PROVE IInv'
  BY <1>3
  DEF Signal, Fault, IInv, TypeOK, LockMatchesRunning, HeldOK, FailedOnlyWhenSpent, Executing
<1>4. ASSUME NEW k \in Key, TimeStep(k) \/ HandlerOverruns(k)
      PROVE IInv'
  BY <1>4, TimeIInv
<1>5. ASSUME NEW w \in Worker, FaultStep(w)
      PROVE IInv'
  BY <1>5, FaultIInv
<1>6. CASE UNCHANGED vars
  BY <1>6
  DEF vars, IInv, TypeOK, LockMatchesRunning, HeldOK, FailedOnlyWhenSpent, Executing
<1>7. QED
  BY <1>1, <1>2, <1>3, <1>4, <1>5, <1>6 DEF Next

\* Whatever workers, crashes, lost answers, stale recoveries and late
\* settlements do: the table keeps its types, its lock columns say which rows
\* run, and a failed row was claimed maxAttempts times or has no handler.
THEOREM QueueSafe == Spec => [](TypeOK /\ LockMatchesRunning /\ FailedOnlyWhenSpent)
<1>1. IInv => TypeOK /\ LockMatchesRunning /\ FailedOnlyWhenSpent
  BY DEF IInv
<1>2. QED
  BY <1>1, InitIInv, NextIInv, PTL DEF Spec

-----------------------------------------------------------------------------
\* Mutual exclusion of handlers.  Unless a handler of it has overrun, a worker
\* inside a job owns its row, unless the row was settled `done' by a statement whose
\* answer was lost; and a lock that has gone stale has no living holder.
Owner ==
  \A w \in Worker : Executing(w) /\ held[w].key \notin overran =>
    \/ /\ state[held[w].key] = "running"
       /\ lockedBy[held[w].key] = w
       /\ held[w].key \notin stale
    \/ pc[w] = "fail" /\ state[held[w].key] = "done"

Alone ==
  \A v, w \in Worker :
    Executing(v) /\ Executing(w) /\ held[v].key = held[w].key => v = w \/ held[v].key \in overran

MInv == IInv /\ Owner /\ Alone

\* Nobody is inside a job at the start.
LEMMA InitMInv == Init => MInv
  BY InitIInv DEF Init, MInv, Owner, Alone, Executing

\* A queued row that no handler has overrun has no worker inside it.
LEMMA QueuedIsFree ==
  ASSUME Owner, NEW k \in Key, state[k] = "queued", NEW w \in Worker, Executing(w)
  PROVE held[w].key # k \/ k \in overran
  BY DEF Owner

\* Every step keeps ownership and exclusion.
LEMMA NextMInv ==
  ASSUME MInv, [Next]_vars
  PROVE Owner' /\ Alone'
<1> USE DEF MInv
<1>a. IInv /\ IInv' /\ Owner /\ Alone
  BY NextIInv
<1>b. /\ state \in [Key -> JobState] /\ pc \in [Worker -> Pc] /\ stale \subseteq Key
      /\ lockedBy \in [Key -> Worker \union {None}]
      /\ held \in [Worker -> [key : Key \union {None}, attempts : Nat]]
      /\ \A w \in Worker : Executing(w) => held[w].key \in Key
  BY <1>a DEF IInv, TypeOK, HeldOK
<1>1. ASSUME NEW k \in Key, Enqueue(k)
      PROVE Owner' /\ Alone'
  <2>1. \A j \in Key : state'[j] = state[j] \/ (state[j] = "absent" /\ state'[j] = "queued")
    <3>1. {k} \in SUBSET Key /\ Inserted({k}) /\ TypeOK
      BY <1>1, <1>a DEF Enqueue, IInv
    <3>2. QED
      BY <3>1, InsertedRows
  <2>2. QED
    BY <1>1, <1>a, <1>b, <2>1 DEF Enqueue, Owner, Alone, Executing
<1>2. ASSUME NEW w \in Worker, RecoverStale(w)
      PROVE Owner' /\ Alone'
  BY <1>2, <1>a, <1>b DEF RecoverStale, Goto, Owner, Alone, Executing
<1>3. ASSUME NEW w \in Worker, NEW due \in SUBSET Maint, EnsureMaintenance(w, due)
      PROVE Owner' /\ Alone'
  <2>1. \A j \in Key : state'[j] = state[j] \/ (state[j] = "absent" /\ state'[j] = "queued")
    <3>1. due \in SUBSET Key /\ Inserted(due) /\ TypeOK
      BY <1>3, <1>a, JobQueueAssumption DEF EnsureMaintenance, IInv
    <3>2. QED
      BY <3>1, InsertedRows
  <2>2. QED
    BY <1>3, <1>a, <1>b, <2>1 DEF EnsureMaintenance, Goto, Owner, Alone, Executing
<1>4. ASSUME NEW w \in Worker, NEW k \in Key, Claim(w, k)
      PROVE Owner' /\ Alone'
  <2>1. state[k] = "queued"
    BY <1>4 DEF Claim, Runnable
  <2>2. \A v \in Worker : Executing(v) => held[v].key # k \/ k \in overran
    BY <2>1, <1>a, QueuedIsFree
  <2>3. QED
    BY <1>4, <1>a, <1>b, <2>2 DEF Claim, MarkRunning, Goto, Owner, Alone, Executing
<1>5. ASSUME NEW w \in Worker, DrainEnds(w) \/ NextTick(w) \/ Restart(w) \/ Signal(w)
      PROVE Owner' /\ Alone'
  BY <1>5, <1>a, <1>b DEF DrainEnds, NextTick, Restart, Signal, Goto, Owner, Alone, Executing
<1>6. ASSUME NEW w \in Worker, HandlerReturns(w) \/ HandlerThrows(w)
      PROVE Owner' /\ Alone'
  BY <1>6, <1>a, <1>b DEF HandlerReturns, HandlerThrows, Goto, Owner, Alone, Executing
<1>7. ASSUME NEW w \in Worker, SettleDone(w)
      PROVE Owner' /\ Alone'
  BY <1>7, <1>a, <1>b DEF SettleDone, Settled, Goto, NoJob, Owner, Alone, Executing
<1>8. ASSUME NEW w \in Worker, SettleFailure(w)
      PROVE Owner' /\ Alone'
  BY <1>8, <1>a, <1>b DEF SettleFailure, Settled, Goto, NoJob, Owner, Alone, Executing
<1>9. ASSUME NEW k \in Key, TimeStep(k)
      PROVE Owner' /\ Alone'
  BY <1>9, <1>a, <1>b
  DEF TimeStep, BackoffElapses, LockAges, HolderAlive, Owner, Alone, Executing
<1>10. ASSUME NEW w \in Worker, Crash(w) \/ TickFails(w)
       PROVE Owner' /\ Alone'
  <2>1. /\ ~Executing(w)'
        /\ \A v \in Worker \ {w} : (Executing(v)' <=> Executing(v)) /\ pc'[v] = pc[v]
                                    /\ held'[v] = held[v]
        /\ UNCHANGED <<state, lockedBy, stale, overran>>
    BY <1>10, <1>b DEF Crash, TickFails, Goto, Executing
  <2>2. QED
    BY <1>a, <2>1 DEF Owner, Alone
<1>11. ASSUME NEW w \in Worker, NEW k \in Key, ClaimAnswerLost(w, k)
       PROVE Owner' /\ Alone'
  <2>1. state[k] = "queued"
    BY <1>11 DEF ClaimAnswerLost, Runnable
  <2>2. \A v \in Worker : Executing(v) => held[v].key # k \/ k \in overran
    BY <2>1, <1>a, QueuedIsFree
  <2>3. QED
    BY <1>11, <1>a, <1>b, <2>2 DEF ClaimAnswerLost, MarkRunning, Goto, Owner, Alone, Executing
<1>12. ASSUME NEW w \in Worker, SettleDoneFails(w)
       PROVE Owner' /\ Alone'
  <2>1. Executing(w) /\ pc[w] = "done"
    BY <1>12 DEF SettleDoneFails, Executing
  <2>2. \A v \in Worker \ {w} : Executing(v) => held[v].key # held[w].key \/ held[w].key \in overran
    BY <2>1, <1>a DEF Alone
  <2>3. /\ held' = held /\ overran' = overran
        /\ pc' = [pc EXCEPT ![w] = "fail"]
        /\ \A v \in Worker : Executing(v)' <=> Executing(v)
    BY <1>12, <1>b, <2>1 DEF SettleDoneFails, Goto, Executing
  <2>4. Alone'
    BY <1>a, <2>3 DEF Alone
  <2>5. CASE UNCHANGED <<state, lockedBy, stale>>
    BY <1>a, <1>b, <2>1, <2>3, <2>4, <2>5 DEF Owner
  <2>6. CASE Settled(held[w].key, "done")
    BY <1>a, <1>b, <2>1, <2>2, <2>3, <2>4, <2>6 DEF Owner, Settled
  <2>7. QED
    BY <1>12, <2>5, <2>6 DEF SettleDoneFails
<1>13. CASE UNCHANGED vars
  BY <1>13, <1>a DEF vars, Owner, Alone, Executing
<1>14. ASSUME NEW k \in Key, HandlerOverruns(k)
       PROVE Owner' /\ Alone'
  BY <1>14, <1>a, <1>b DEF HandlerOverruns, Owner, Alone, Executing
<1>15. QED
  BY <1>1, <1>2, <1>3, <1>4, <1>5, <1>6, <1>7, <1>8, <1>9, <1>10, <1>11, <1>12, <1>13, <1>14
  DEF Next, WorkerStep, FaultStep

\* FOR UPDATE SKIP LOCKED with the stale-lock rule is mutual exclusion, for any
\* number of workers, crashes, lost answers and retries, in every job no handler
\* of which has outlasted staleLockMs.
THEOREM OneExecutorPerJob == Spec => []SingleExecutor
<1>1. MInv /\ [Next]_vars => MInv'
  BY NextMInv, NextIInv DEF MInv
<1>2. MInv => SingleExecutor
  BY DEF MInv, Alone, SingleExecutor
<1>3. QED
  BY <1>1, <1>2, InitMInv, PTL DEF Spec

-----------------------------------------------------------------------------
\* The budget of claims.  Each claim of a job needs a queued row, and a row is
\* queued by its insertion, by a settlement that still has attempts left, or by
\* the recovery of a stale lock.  The first is there once, the second once per
\* claim below maxAttempts, and the third costs a fault.  Counted together:
\* the claims so far or still to come below maxAttempts, a token for a row that
\* waits for a claim or will be recovered, and the workers that may yet requeue.
Pending(k) ==
  {w \in Worker : Executing(w) /\ held[w].key = k /\ held[w].attempts < MaxAttempts}

Token(k) ==
  \/ state[k] \in {"absent", "queued"}
  \/ state[k] = "running" /\ (k \in stale \/ ~HolderAlive(k))

Spent(k) == IF attempts[k] < MaxAttempts THEN MaxAttempts - 1 ELSE attempts[k]

Within(k) ==
  /\ IsFiniteSet(Pending(k))
  /\ Spent(k) + (IF Token(k) THEN 1 ELSE 0) + Cardinality(Pending(k)) <= MaxAttempts + faults

Budget == \A k \in Key : Within(k)

\* A job nobody has inserted has its token and all claims below maxAttempts.
LEMMA InitBudget == Init => Budget
<1> SUFFICES ASSUME Init, NEW k \in Key
             PROVE Within(k)
  BY DEF Budget
<1>1. Pending(k) = {}
  BY DEF Init, Pending, Executing
<1>2. IsFiniteSet(Pending(k)) /\ Cardinality(Pending(k)) = 0
  BY <1>1, FS_EmptySet
<1>3. Spent(k) = MaxAttempts - 1 /\ faults = 0
  BY JobQueueAssumption DEF Init, Spent
<1> QED
  BY <1>2, <1>3, JobQueueAssumption DEF Within

\* A step that claims nothing and lets nobody new requeue keeps the budget of a
\* job if it makes no token, or is a fault.
LEMMA QuietBudget ==
  ASSUME IInv, NEW k \in Key, Within(k),
         attempts'[k] = attempts[k],
         Pending(k)' \subseteq Pending(k),
         \/ faults' = faults /\ (Token(k)' => Token(k))
         \/ faults' = faults + 1
  PROVE  Within(k)'
<1>1. IsFiniteSet(Pending(k)') /\ Cardinality(Pending(k)') <= Cardinality(Pending(k))
  BY FS_Subset DEF Within
<1>2. Cardinality(Pending(k)) \in Nat /\ Cardinality(Pending(k)') \in Nat
  BY <1>1, FS_CardinalityType DEF Within
<1>3. Spent(k)' = Spent(k) /\ Spent(k) \in Nat /\ faults \in Nat
  BY JobQueueAssumption DEF Spent, IInv, TypeOK
<1> QED
  BY <1>1, <1>2, <1>3, JobQueueAssumption DEF Within

\* A claim takes the token of its row; one below maxAttempts may requeue it.
LEMMA ClaimBudget ==
  ASSUME IInv, NEW k \in Key, NEW w \in Worker, Within(k),
         state[k] = "queued", ~Executing(w), MarkRunning(w, k),
         \/ /\ faults' = faults
            /\ held' = [held EXCEPT ![w] = [key |-> k, attempts |-> attempts[k] + 1]]
            /\ pc' = [pc EXCEPT ![w] = "run"]
         \/ /\ faults' = faults + 1
            /\ held' = held
            /\ pc' = [pc EXCEPT ![w] = "idle"]
  PROVE  Within(k)'
<1> DEFINE P == Pending(k)
           Q == Pending(k)'
<1>0. /\ attempts[k] \in Nat /\ attempts'[k] = attempts[k] + 1 /\ faults \in Nat
      /\ MaxAttempts \in Nat \ {0} /\ state'[k] = "running" /\ k \notin stale'
      /\ held \in [Worker -> [key : Key \union {None}, attempts : Nat]]
      /\ pc \in [Worker -> Pc]
  BY JobQueueAssumption DEF IInv, TypeOK, MarkRunning
<1>1. Token(k) /\ IsFiniteSet(P) /\ Cardinality(P) \in Nat /\ w \notin P
  BY FS_CardinalityType DEF Within, Token, Pending
<1>2. CASE faults' = faults + 1
  <2>1. Q \subseteq P
    BY <1>0, <1>2 DEF Pending, Executing
  <2>2. IsFiniteSet(Q) /\ Cardinality(Q) <= Cardinality(P) /\ Cardinality(Q) \in Nat
    BY <1>1, <2>1, FS_Subset, FS_CardinalityType
  <2> QED
    BY <1>0, <1>1, <1>2, <2>2 DEF Within, Spent
<1>3. CASE /\ faults' = faults
           /\ held' = [held EXCEPT ![w] = [key |-> k, attempts |-> attempts[k] + 1]]
           /\ pc' = [pc EXCEPT ![w] = "run"]
  <2>1. ~Token(k)'
    BY <1>0, <1>3 DEF Token, HolderAlive, Executing
  <2>2. CASE attempts[k] + 1 < MaxAttempts
    <3>1. Q \subseteq P \union {w}
      BY <1>0, <1>3 DEF Pending, Executing
    <3>2. /\ IsFiniteSet(P \union {w}) /\ Cardinality(P \union {w}) = Cardinality(P) + 1
      BY <1>1, FS_AddElement
    <3>3. IsFiniteSet(Q) /\ Cardinality(Q) <= Cardinality(P) + 1 /\ Cardinality(Q) \in Nat
      BY <3>1, <3>2, FS_Subset, FS_CardinalityType
    <3> QED
      BY <1>0, <1>1, <1>3, <2>1, <2>2, <3>3 DEF Within, Spent
  <2>3. CASE ~(attempts[k] + 1 < MaxAttempts)
    <3>1. Q \subseteq P
      BY <1>0, <1>3, <2>3 DEF Pending, Executing
    <3>2. IsFiniteSet(Q) /\ Cardinality(Q) <= Cardinality(P) /\ Cardinality(Q) \in Nat
      BY <1>1, <3>1, FS_Subset, FS_CardinalityType
    <3> QED
      BY <1>0, <1>1, <1>3, <2>1, <2>3, <3>2 DEF Within, Spent
  <2> QED
    BY <2>2, <2>3
<1> QED
  BY <1>2, <1>3

\* A settlement that requeues takes its worker out of those that may.
LEMMA RequeueBudget ==
  ASSUME IInv, NEW w \in Worker, NEW k \in Key, held[w].key = k, pc[w] = "fail",
         held[w].attempts < MaxAttempts, Within(k), UNCHANGED <<attempts, faults>>,
         held' = [held EXCEPT ![w] = NoJob], Goto(w, "claim")
  PROVE  Within(k)'
<1> DEFINE P == Pending(k)
           Q == Pending(k)'
<1>0. /\ attempts[k] \in Nat /\ faults \in Nat /\ MaxAttempts \in Nat
      /\ pc \in [Worker -> Pc]
      /\ held \in [Worker -> [key : Key \union {None}, attempts : Nat]]
  BY JobQueueAssumption DEF IInv, TypeOK
<1>1. w \in P
  BY DEF Pending, Executing
<1>2. Q \subseteq P \ {w}
  BY <1>0 DEF Pending, Executing, Goto
<1>3. /\ IsFiniteSet(P) /\ Cardinality(P) \in Nat
      /\ IsFiniteSet(P \ {w}) /\ Cardinality(P \ {w}) = Cardinality(P) - 1
  BY <1>1, FS_RemoveElement, FS_CardinalityType DEF Within
<1>4. IsFiniteSet(Q) /\ Cardinality(Q) <= Cardinality(P) - 1 /\ Cardinality(Q) \in Nat
  BY <1>2, <1>3, FS_Subset, FS_CardinalityType
<1> QED
  BY <1>0, <1>3, <1>4 DEF Within, Spent

\* Every step keeps the budget of every job.
LEMMA NextBudget ==
  ASSUME IInv, Budget, [Next]_vars
  PROVE  Budget'
<1> SUFFICES ASSUME NEW k \in Key
             PROVE Within(k)'
  BY DEF Budget
<1>0. /\ Within(k)
      /\ pc \in [Worker -> Pc] /\ state \in [Key -> JobState] /\ stale \subseteq Key
      /\ held \in [Worker -> [key : Key \union {None}, attempts : Nat]]
      /\ attempts \in [Key -> Nat] /\ faults \in Nat
      /\ \A w \in Worker : Executing(w) => held[w].key \in Key
  BY DEF Budget, IInv, TypeOK, HeldOK
<1> DEFINE Quiet == /\ attempts'[k] = attempts[k]
                    /\ Pending(k)' \subseteq Pending(k)
                    /\ \/ faults' = faults /\ (Token(k)' => Token(k))
                       \/ faults' = faults + 1
<1>q. Quiet => Within(k)'
  BY <1>0, QuietBudget
<1>1. ASSUME NEW j \in Key, Enqueue(j)
      PROVE Within(k)'
  <2>1. state'[k] = state[k] \/ (state[k] = "absent" /\ state'[k] = "queued")
    <3>1. {j} \in SUBSET Key /\ Inserted({j}) /\ TypeOK
      BY <1>1 DEF Enqueue, IInv
    <3> QED
      BY <3>1, InsertedRows
  <2>2. Quiet
    BY <1>1, <2>1 DEF Enqueue, Pending, Token, HolderAlive, Executing
  <2> QED
    BY <2>2, <1>q
<1>2. ASSUME NEW w \in Worker, NEW due \in SUBSET Maint, EnsureMaintenance(w, due)
      PROVE Within(k)'
  <2>1. state'[k] = state[k] \/ (state[k] = "absent" /\ state'[k] = "queued")
    <3>1. due \in SUBSET Key /\ Inserted(due) /\ TypeOK
      BY <1>2, JobQueueAssumption DEF EnsureMaintenance, IInv
    <3> QED
      BY <3>1, InsertedRows
  <2>2. Quiet
    BY <1>2, <1>0, <2>1 DEF EnsureMaintenance, Goto, Pending, Token, HolderAlive, Executing
  <2> QED
    BY <2>2, <1>q
<1>3. ASSUME NEW w \in Worker, RecoverStale(w)
      PROVE Within(k)'
  <2>1. Quiet
    BY <1>3, <1>0 DEF RecoverStale, Goto, Pending, Token, HolderAlive, Executing
  <2> QED
    BY <2>1, <1>q
<1>4. ASSUME NEW w \in Worker, NEW j \in Key, Claim(w, j)
      PROVE Within(k)'
  <2>1. CASE j = k
    BY <1>4, <1>0, <2>1, ClaimBudget DEF Claim, Runnable, Executing, Goto
  <2>2. CASE j # k
    <3>1. /\ state'[k] = state[k] /\ attempts'[k] = attempts[k] /\ stale' = stale \ {j}
          /\ \A u \in Worker \ {w} : pc'[u] = pc[u] /\ held'[u] = held[u]
          /\ held'[w].key = j /\ ~Executing(w) /\ faults' = faults
      BY <1>4, <1>0, <2>2 DEF Claim, MarkRunning, Goto, Executing
    <3>2. Quiet
      BY <3>1, <2>2 DEF Pending, Token, HolderAlive, Executing
    <3> QED
      BY <3>2, <1>q
  <2> QED
    BY <2>1, <2>2
<1>5. ASSUME NEW w \in Worker,
             DrainEnds(w) \/ HandlerReturns(w) \/ HandlerThrows(w) \/ NextTick(w) \/ Restart(w)
      PROVE Within(k)'
  <2>1. /\ UNCHANGED <<state, attempts, stale, held, faults>>
        /\ \A u \in Worker : Executing(u)' <=> Executing(u)
    BY <1>5, <1>0 DEF DrainEnds, HandlerReturns, HandlerThrows, NextTick, Restart, Goto, Executing
  <2>2. Quiet
    BY <2>1 DEF Pending, Token, HolderAlive
  <2> QED
    BY <2>2, <1>q
<1>6. ASSUME NEW w \in Worker, SettleDone(w) \/ SettleFailure(w)
      PROVE Within(k)'
  <2> DEFINE j == held[w].key
  <2>1. /\ UNCHANGED <<attempts, faults>> /\ Executing(w) /\ j \in Key
        /\ held' = [held EXCEPT ![w] = NoJob] /\ Goto(w, "claim")
    BY <1>6, <1>0 DEF SettleDone, SettleFailure, Executing
  <2>2. PICK s \in {"done", "failed", "queued"} :
          /\ Settled(j, s)
          /\ s = "queued" => pc[w] = "fail" /\ held[w].attempts < MaxAttempts
    <3>1. held[w].attempts \in Nat /\ MaxAttempts \in Nat
      BY <1>0, JobQueueAssumption
    <3> QED
      BY <1>6, <3>1 DEF SettleDone, SettleFailure, Exhausted
  <2>3. ~Executing(w)' /\ \A u \in Worker \ {w} : pc'[u] = pc[u] /\ held'[u] = held[u]
    BY <1>0, <2>1 DEF Goto, Executing
  <2>4. CASE s = "queued" /\ j = k
    BY <2>1, <2>2, <2>4, <1>0, RequeueBudget
  <2>5. CASE s # "queued" /\ j = k
    <3>1. state'[k] = s
      BY <2>2, <2>5, <1>0 DEF Settled
    <3>2. Quiet
      BY <2>1, <2>3, <2>5, <3>1 DEF Pending, Token, Executing
    <3> QED
      BY <3>2, <1>q
  <2>6. CASE j # k
    <3>1. state'[k] = state[k] /\ stale' = stale \ {j}
      BY <2>1, <2>2, <2>6, <1>0 DEF Settled
    <3>2. Quiet
      BY <2>1, <2>3, <2>6, <3>1 DEF Pending, Token, HolderAlive, Executing
    <3> QED
      BY <3>2, <1>q
  <2> QED
    BY <2>4, <2>5, <2>6
<1>7. ASSUME NEW j \in Key, TimeStep(j)
      PROVE Within(k)'
  <2>1. Quiet
    BY <1>7, <1>0 DEF TimeStep, BackoffElapses, LockAges, Pending, Token, HolderAlive, Executing
  <2> QED
    BY <2>1, <1>q
<1>8. ASSUME NEW j \in Key, HandlerOverruns(j)
      PROVE Within(k)'
  <2>1. Quiet
    BY <1>8, <1>0 DEF HandlerOverruns, Fault, Pending, Executing
  <2> QED
    BY <2>1, <1>q
<1>9. ASSUME NEW w \in Worker, Signal(w) \/ Crash(w) \/ TickFails(w) \/ SettleDoneFails(w)
      PROVE Within(k)'
  <2>1. /\ UNCHANGED attempts /\ faults' = faults + 1
        /\ \A u \in Worker : Executing(u)' => Executing(u) /\ held'[u] = held[u]
    BY <1>9, <1>0 DEF Signal, Crash, TickFails, SettleDoneFails, Fault, Goto, Executing
  <2>2. Quiet
    BY <2>1 DEF Pending
  <2> QED
    BY <2>2, <1>q
<1>10. ASSUME NEW w \in Worker, NEW j \in Key, ClaimAnswerLost(w, j)
       PROVE Within(k)'
  <2>1. CASE j = k
    BY <1>10, <1>0, <2>1, ClaimBudget DEF ClaimAnswerLost, Fault, Runnable, Executing, Goto
  <2>2. CASE j # k
    <3>1. /\ attempts'[k] = attempts[k] /\ faults' = faults + 1 /\ held' = held
          /\ \A u \in Worker : Executing(u)' => Executing(u)
      BY <1>10, <1>0, <2>2 DEF ClaimAnswerLost, MarkRunning, Goto, Fault, Executing
    <3>2. Quiet
      BY <3>1 DEF Pending
    <3> QED
      BY <3>2, <1>q
  <2> QED
    BY <2>1, <2>2
<1>11. CASE UNCHANGED vars
  <2>1. Quiet
    BY <1>11 DEF vars, Pending, Token, HolderAlive, Executing
  <2> QED
    BY <2>1, <1>q
<1> QED
  BY <1>1, <1>2, <1>3, <1>4, <1>5, <1>6, <1>7, <1>8, <1>9, <1>10, <1>11
  DEF Next, WorkerStep, FaultStep

\* Retries alone never claim a job more than maxAttempts times: each further
\* claim is paid for by a crash, a lost answer, a failed statement or an
\* overrun, for any number of workers and however late they settle.
THEOREM ClaimsArePaidFor == Spec => []ClaimsPaidFor
<1>1. IInv /\ Budget => ClaimsPaidFor
  <2> SUFFICES ASSUME IInv, Budget, NEW k \in Key
               PROVE attempts[k] <= MaxAttempts + faults
    BY DEF ClaimsPaidFor
  <2>1. Within(k) /\ attempts[k] \in Nat /\ faults \in Nat /\ MaxAttempts \in Nat
    BY JobQueueAssumption DEF Budget, IInv, TypeOK
  <2>2. Cardinality(Pending(k)) \in Nat
    BY <2>1, FS_CardinalityType DEF Within
  <2> QED
    BY <2>1, <2>2 DEF Within, Spent
<1>2. IInv /\ Budget /\ [Next]_vars => IInv' /\ Budget'
  BY NextBudget, NextIInv
<1> QED
  BY <1>1, <1>2, InitIInv, InitBudget, PTL DEF Spec
=============================================================================
