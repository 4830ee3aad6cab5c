--------------------------- MODULE ChallengeProofs ---------------------------
(***************************************************************************)
(* Proofs about ChallengeLedger, for every number of sessions, receipts,   *)
(* challenges and predictions: verdicts stand, a receipt is judged as a    *)
(* whole, every resolution is one revision, and no window of the rate      *)
(* limit holds more filings than it allows.                                *)
(*                                                                         *)
(* A resolution reads the challenge under the revision lock and writes a   *)
(* step later; a filing counts under its organization's advisory lock and  *)
(* inserts a step later.  The invariant says of every request what its     *)
(* locks keep true until then.                                             *)
(***************************************************************************)
EXTENDS ChallengeLedger, SequenceTheorems, FiniteSetTheorems, TLAPS

Filing == {"file_lock", "file_check", "file_commit"}
Resolving == {"resolve_lock", "resolve_read", "resolve_commit"}
Observing == {"observe_lock", "observe_check", "observe_commit"}
Pcs == {"idle"} \cup Filing \cup Resolving \cup Observing

LogRow == [protocol : Protocols, kind : {"intake", "challenge"}]

\* The rows of the tables.
DataOK ==
  /\ clock \in 0..MaxClock
  /\ revlog \in Seq(LogRow) /\ revision = Len(revlog)
  /\ cache \subseteq Protocols
  /\ receipts \in [Receipts -> {"released", "withheld", None}]
  /\ claims \in [ClaimIds -> Verdicts \cup {None}]
  /\ counters \in [1..MaxChallenges -> {"supported", "rejected", None}]
  /\ relationships \subseteq [challenge: 1..MaxChallenges, target: ClaimIds,
                              kind: RelationshipKinds, revision: 1..revision]
  /\ challenges \in Seq(Challenges) /\ Len(challenges) <= MaxChallenges
  /\ longestWait \in 0..MaxClock
  /\ predictions \in [Predictions -> {"registered", None}]
  /\ outcomes \in [Predictions -> {"observed", None}]

\* A resolved challenge has the resolution and one of the revisions there are.
Dated ==
  \A n \in Resolved : challenges[n].resolution \in Resolutions /\ challenges[n].revision \in 1..revision

LedgerOK == DataOK /\ Dated /\ VerdictStands /\ WholeReceiptJudged /\ OneRevisionPerResolution

\* What a request carries.
Carries(s) ==
  /\ pc[s] = "idle" => req[s] = None
  /\ pc[s] \in Filing => req[s] \in [org: Orgs, target: Targets \cup {None}, filed: 0..clock]
  /\ pc[s] = "file_commit" => req[s].target \in Targets
  /\ pc[s] \in {"resolve_lock", "resolve_read"} => req[s] = [challenge |-> None]
  /\ pc[s] = "resolve_commit" => req[s] \in [challenge: DOMAIN challenges]
  /\ pc[s] \in Observing => req[s] \in [prediction: Predictions]

\* The locks it holds.
Holds(s) ==
  /\ pc[s] \in {"resolve_read", "resolve_commit"} => revLock = s
  /\ pc[s] \in {"file_check", "file_commit"} => advisory[req[s].org] = s
  /\ pc[s] \in {"observe_check", "observe_commit"} => advisory[req[s].prediction] = s

\* The filings of its organization that a filing of time `at' would join.
Beside(o, at) ==
  {n \in DOMAIN challenges :
     challenges[n].org = o /\ challenges[n].filed + Window > at + longestWait}

\* What it has read still holds: the challenge is not resolved, and the window has room.
StillTrue(s) ==
  /\ pc[s] = "resolve_commit" => ~IsResolved(req[s].challenge)
  /\ pc[s] = "file_commit" => Cardinality(Beside(req[s].org, req[s].filed)) < FilingMax

SessionOK(s) == pc[s] \in Pcs /\ Carries(s) /\ Holds(s) /\ StillTrue(s)

LocksOK ==
  /\ revLock \in Sessions \cup {None}
  /\ revLock # None => pc[revLock] \in {"resolve_read", "resolve_commit"}
  /\ advisory \in [Orgs \cup Predictions -> Sessions \cup {None}]
  /\ \A x \in DOMAIN advisory : advisory[x] # None =>
       pc[advisory[x]] \in {"file_check", "file_commit", "observe_check", "observe_commit"}

RequestsOK ==
  /\ pc = [s \in Sessions |-> pc[s]] /\ req = [s \in Sessions |-> req[s]]
  /\ \A s \in Sessions : SessionOK(s)
  /\ LocksOK

IInv == LedgerOK /\ RollingCountUpToWait /\ RequestsOK

-----------------------------------------------------------------------------
\* There is nothing at the start but the receipts from before.
LEMMA InitOK == Init => IInv
<1> SUFFICES ASSUME Init PROVE IInv
  OBVIOUS
<1> USE LedgerAssumption
<1>1. /\ challenges = <<>> /\ revlog = <<>> /\ Len(<<>>) = 0 /\ DOMAIN <<>> = {}
      /\ <<>> \in Seq(Challenges) /\ <<>> \in Seq(LogRow)
  BY DEF Init
<1>2. DataOK
  BY <1>1 DEF Init, DataOK
<1>3. Resolved = {}
  BY <1>1 DEF Resolved
<1>4. Dated /\ VerdictStands
  BY <1>3 DEF Dated, VerdictStands, Init
<1>5. WholeReceiptJudged
  BY <1>3 DEF WholeReceiptJudged, Init
<1>6. OneRevisionPerResolution
  <2>1. {i \in DOMAIN revlog : revlog[i].kind = "challenge"} = {}
    BY <1>1
  <2> QED BY <1>3, <2>1 DEF OneRevisionPerResolution
<1>7. RollingCountUpToWait
  <2> SUFFICES ASSUME NEW o \in Orgs, NEW t \in 0..MaxClock
               PROVE  Cardinality({n \in DOMAIN challenges :
                        /\ challenges[n].org = o /\ challenges[n].filed <= t
                        /\ challenges[n].filed + Window > t + longestWait}) <= FilingMax
    BY DEF RollingCountUpToWait
  <2>1. {n \in DOMAIN challenges :
           /\ challenges[n].org = o /\ challenges[n].filed <= t
           /\ challenges[n].filed + Window > t + longestWait} = {}
    BY <1>1
  <2> QED BY <2>1, FS_EmptySet
<1>8. RequestsOK
  <2>1. \A s \in Sessions : SessionOK(s)
    BY DEF Init, SessionOK, Pcs, Carries, Holds, StillTrue, Filing, Resolving, Observing
  <2>2. LocksOK
    BY DEF Init, LocksOK
  <2> QED BY <2>1, <2>2 DEF Init, RequestsOK
<1> QED BY <1>2, <1>4, <1>5, <1>6, <1>7, <1>8 DEF IInv, LedgerOK

\* The type invariant of the runs follows.
LEMMA Typed ==
  ASSUME IInv
  PROVE  TypeOK
<1> USE LedgerAssumption DEF IInv, LedgerOK, DataOK, RequestsOK
<1>1. /\ DOMAIN challenges = 1..Len(challenges) /\ Len(challenges) \in Nat
      /\ \A n \in DOMAIN challenges : challenges[n] \in Challenges
      /\ \A i \in DOMAIN revlog : revlog[i] \in LogRow
  BY LenProperties, ElementOfSeq
<1>2. DOMAIN challenges \subseteq 1..MaxChallenges
  BY <1>1
<1>3. ASSUME NEW s \in Sessions PROVE req[s] \in Requests \cup {None} /\ (pc[s] = "idle") = (req[s] = None)
  <2>1. SessionOK(s) /\ pc[s] \in Pcs
    BY DEF SessionOK
  <2>2. CASE pc[s] = "idle"
    BY <2>1, <2>2 DEF SessionOK, Carries
  <2>3. CASE pc[s] # "idle"
    <3>1. req[s] \in Requests
      <4>1. CASE pc[s] \in Filing
        BY <2>1, <4>1 DEF SessionOK, Carries, Requests
      <4>2. CASE pc[s] \in Resolving
        BY <1>2, <2>1, <4>2 DEF SessionOK, Carries, Requests, Resolving
      <4>3. CASE pc[s] \in Observing
        BY <2>1, <4>3 DEF SessionOK, Carries, Requests
      <4> QED BY <2>1, <2>3, <4>1, <4>2, <4>3 DEF Pcs
    <3> QED BY <2>3, <3>1, NullAssumption
  <2> QED BY <2>2, <2>3
<1> QED BY <1>1, <1>3 DEF TypeOK, LocksOK, LogRow

-----------------------------------------------------------------------------
\* What the types say of the filed challenges and of the log.
LEMMA Rows ==
  ASSUME DataOK
  PROVE  /\ DOMAIN challenges = 1..Len(challenges) /\ Len(challenges) \in Nat
         /\ DOMAIN challenges \subseteq 1..MaxChallenges
         /\ IsFiniteSet(DOMAIN challenges)
         /\ \A n \in DOMAIN challenges : challenges[n] \in Challenges /\ challenges[n].filed \in Nat
         /\ DOMAIN revlog = 1..revision /\ revision \in Nat
         /\ \A i \in DOMAIN revlog : revlog[i] \in LogRow
<1>1. /\ DOMAIN challenges = 1..Len(challenges) /\ Len(challenges) \in Nat
      /\ Len(challenges) <= MaxChallenges /\ challenges \in Seq(Challenges)
      /\ DOMAIN revlog = 1..revision /\ revision \in Nat
      /\ revlog \in Seq(LogRow) /\ revision = Len(revlog)
  BY LenProperties DEF DataOK
<1>2. /\ \A n \in DOMAIN challenges : challenges[n] \in Challenges
      /\ \A i \in DOMAIN revlog : revlog[i] \in LogRow
  BY <1>1, ElementOfSeq
<1>3. IsFiniteSet(DOMAIN challenges)
  BY <1>1, FS_Interval
<1>4. \A n \in DOMAIN challenges : challenges[n].filed \in Nat
  BY <1>2, LedgerAssumption DEF Challenges
<1> QED BY <1>1, <1>2, <1>3, <1>4, LedgerAssumption

-----------------------------------------------------------------------------
(* What a step does to the requests.                                         *)

\* What a step may do to the challenges under a request that does not move.
KeepsFor(t) ==
  /\ DOMAIN challenges \subseteq DOMAIN challenges'
  /\ \A n \in DOMAIN challenges' \ DOMAIN challenges :
       pc[t] = "file_commit" => challenges'[n].org # req[t].org
  /\ \A n \in DOMAIN challenges :
       /\ challenges'[n].org = challenges[n].org /\ challenges'[n].filed = challenges[n].filed
       /\ pc[t] = "resolve_commit" /\ req[t].challenge = n /\ ~IsResolved(n) => ~IsResolved(n)'

\* A request that does not move keeps its locks and what it knows.
LEMMA OthersKeep ==
  ASSUME RequestsOK, DataOK, DataOK', NEW t \in Sessions,
         pc'[t] = pc[t], req'[t] = req[t],
         clock' >= clock, longestWait' >= longestWait,
         KeepsFor(t),
         revLock = t => revLock' = t,
         \A x \in DOMAIN advisory : advisory[x] = t => advisory'[x] = t
  PROVE  SessionOK(t)'
<1> USE LedgerAssumption DEF KeepsFor
<1>0. SessionOK(t)
  BY DEF RequestsOK
<1>1. clock \in Nat /\ clock' \in Nat /\ longestWait \in Nat /\ longestWait' \in Nat
  BY DEF DataOK
<1>2. Carries(t)'
  BY <1>0, <1>1 DEF SessionOK, Carries, Targets, ClaimIds
<1>3. Holds(t)'
  <2>1. pc[t] \in {"file_check", "file_commit"} => req[t].org \in DOMAIN advisory
    BY <1>0 DEF SessionOK, Carries, Filing, RequestsOK, LocksOK
  <2>2. pc[t] \in {"observe_check", "observe_commit"} => req[t].prediction \in DOMAIN advisory
    BY <1>0 DEF SessionOK, Carries, Observing, RequestsOK, LocksOK
  <2> QED BY <1>0, <2>1, <2>2 DEF SessionOK, Holds
<1>4. StillTrue(t)'
  <2>1. pc[t] = "resolve_commit" => ~IsResolved(req[t].challenge)'
    BY <1>0 DEF SessionOK, StillTrue, Carries
  <2>2. ASSUME pc[t] = "file_commit"
        PROVE  Cardinality(Beside(req[t].org, req[t].filed)') < FilingMax
    <3> DEFINE B == Beside(req[t].org, req[t].filed)
               C == Beside(req[t].org, req[t].filed)'
    <3>1. \A n \in DOMAIN challenges : challenges[n].filed \in Nat /\ req[t].filed \in Nat
      BY <1>0, <1>1, <2>2, Rows DEF SessionOK, Carries, Filing
    <3>2. C \subseteq B
      BY <1>1, <2>2, <3>1 DEF Beside
    <3>3. IsFiniteSet(B)
      BY Rows, FS_Subset DEF Beside
    <3>4. Cardinality(C) <= Cardinality(B) /\ Cardinality(C) \in Nat /\ Cardinality(B) \in Nat
      BY <3>2, <3>3, FS_Subset, FS_CardinalityType
    <3>5. Cardinality(B) < FilingMax
      BY <1>0, <2>2 DEF SessionOK, StillTrue
    <3> QED BY <3>4, <3>5
  <2>3. pc'[t] = "file_commit" => Cardinality(Beside(req[t].org, req[t].filed)') < FilingMax
    BY <2>2
  <2> QED BY <2>1, <2>3 DEF StillTrue, Beside
<1> QED BY <1>0, <1>2, <1>3, <1>4 DEF SessionOK

\* A request that ends lets go of what it holds.
LEMMA Ends ==
  ASSUME RequestsOK, DataOK, DataOK', NEW s \in Sessions, Finish(s),
         clock' = clock, longestWait' >= longestWait,
         \A t \in Sessions \ {s} : KeepsFor(t)
  PROVE  RequestsOK'
<1> USE LedgerAssumption
<1>1. pc' = [t \in Sessions |-> pc'[t]] /\ req' = [t \in Sessions |-> req'[t]]
  BY DEF RequestsOK, Finish
<1>2. /\ pc'[s] = "idle" /\ req'[s] = None
      /\ \A t \in Sessions \ {s} : pc'[t] = pc[t] /\ req'[t] = req[t]
  BY DEF RequestsOK, Finish
<1>3. LocksOK'
  <2>1. /\ revLock' \in Sessions \cup {None}
        /\ revLock' # None => revLock' = revLock /\ revLock' # s
    BY DEF RequestsOK, LocksOK, Finish
  <2>2. /\ advisory' \in [Orgs \cup Predictions -> Sessions \cup {None}]
        /\ \A x \in DOMAIN advisory : advisory'[x] # None => advisory'[x] = advisory[x] /\ advisory'[x] # s
    BY DEF RequestsOK, LocksOK, Finish
  <2> QED BY <1>2, <2>1, <2>2 DEF RequestsOK, LocksOK
<1>4. SessionOK(s)'
  BY <1>2 DEF SessionOK, Pcs, Carries, Holds, StillTrue, Filing, Resolving, Observing
<1>5. ASSUME NEW t \in Sessions \ {s} PROVE SessionOK(t)'
  <2>1. /\ revLock = t => revLock' = t
        /\ \A x \in DOMAIN advisory : advisory[x] = t => advisory'[x] = t
    BY DEF Finish
  <2>2. clock' >= clock
    BY DEF DataOK
  <2> QED BY <1>2, <2>1, <2>2, OthersKeep
<1> QED BY <1>1, <1>3, <1>4, <1>5 DEF RequestsOK

LEMMA EndsQuietly ==
  ASSUME RequestsOK, DataOK, DataOK', NEW s \in Sessions, Finish(s),
         UNCHANGED <<clock, challenges, longestWait>>
  PROVE  RequestsOK'
<1>1. longestWait' >= longestWait
  BY LedgerAssumption DEF DataOK
<1>2. \A t \in Sessions \ {s} : KeepsFor(t)
  BY DEF KeepsFor, IsResolved
<1> QED BY <1>1, <1>2, Ends

\* A request that goes on keeps its locks, or takes one that nobody has.
LEMMA GoesOn ==
  ASSUME RequestsOK, DataOK, DataOK', NEW s \in Sessions, NEW next, NEW r,
         Learn(s, next, r), UNCHANGED <<clock, challenges>>, longestWait' >= longestWait,
         revLock' = revLock \/ (revLock = None /\ revLock' = s),
         revLock' = s => next \in {"resolve_read", "resolve_commit"},
         advisory' \in [Orgs \cup Predictions -> Sessions \cup {None}],
         \A x \in DOMAIN advisory :
           /\ advisory'[x] = advisory[x] \/ (advisory[x] = None /\ advisory'[x] = s)
           /\ advisory'[x] = s =>
                next \in {"file_check", "file_commit", "observe_check", "observe_commit"},
         SessionOK(s)'
  PROVE  RequestsOK'
<1> USE LedgerAssumption
<1>1. pc' = [t \in Sessions |-> pc'[t]] /\ req' = [t \in Sessions |-> req'[t]]
  BY DEF RequestsOK, Learn
<1>2. /\ pc'[s] = next
      /\ \A t \in Sessions \ {s} : pc'[t] = pc[t] /\ req'[t] = req[t]
  BY DEF RequestsOK, Learn
<1>3. LocksOK'
  <2>1. revLock' \in Sessions \cup {None}
    BY DEF RequestsOK, LocksOK
  <2>2. revLock' # None => pc'[revLock'] \in {"resolve_read", "resolve_commit"}
    BY <1>2, <2>1 DEF RequestsOK, LocksOK
  <2>3. ASSUME NEW x \in DOMAIN advisory', advisory'[x] # None
        PROVE  pc'[advisory'[x]] \in {"file_check", "file_commit", "observe_check", "observe_commit"}
    <3>1. x \in DOMAIN advisory /\ advisory'[x] \in Sessions
      BY <2>3 DEF RequestsOK, LocksOK
    <3>2. CASE advisory'[x] = s
      BY <1>2, <3>1, <3>2
    <3>3. CASE advisory'[x] # s
      BY <1>2, <2>3, <3>1, <3>3 DEF RequestsOK, LocksOK
    <3> QED BY <3>2, <3>3
  <2> QED BY <2>1, <2>2, <2>3 DEF LocksOK
<1>4. ASSUME NEW t \in Sessions \ {s} PROVE SessionOK(t)'
  <2>1. /\ revLock = t => revLock' = t
        /\ \A x \in DOMAIN advisory : advisory[x] = t => advisory'[x] = t
    OBVIOUS
  <2>2. clock' >= clock
    BY DEF DataOK
  <2>3. KeepsFor(t)
    BY DEF KeepsFor, IsResolved
  <2> QED BY <1>2, <2>1, <2>2, <2>3, OthersKeep
<1> QED BY <1>1, <1>3, <1>4 DEF RequestsOK

Free(s) == revLock # s /\ \A x \in DOMAIN advisory : advisory[x] # s

\* A request that is not past a lock has none.
LEMMA FreeBefore ==
  ASSUME RequestsOK, NEW s \in Sessions,
         pc[s] \in {"idle", "file_lock", "resolve_lock", "observe_lock"}
  PROVE  Free(s)
  BY LedgerAssumption DEF RequestsOK, LocksOK, Free

LEMMA GoesOnFree ==
  ASSUME RequestsOK, DataOK, DataOK', NEW s \in Sessions, NEW next, NEW r,
         Learn(s, next, r), Free(s),
         UNCHANGED <<clock, challenges, longestWait, revLock, advisory>>, SessionOK(s)'
  PROVE  RequestsOK'
<1>1. longestWait' >= longestWait
  BY LedgerAssumption DEF DataOK
<1>2. advisory' \in [Orgs \cup Predictions -> Sessions \cup {None}]
  BY DEF RequestsOK, LocksOK
<1> QED BY <1>1, <1>2, GoesOn DEF Free

LEMMA GoesOnLocking ==
  ASSUME RequestsOK, DataOK, DataOK', NEW s \in Sessions, NEW next, NEW r,
         Learn(s, next, r), Free(s), UNCHANGED <<clock, challenges, longestWait>>, SessionOK(s)',
         \/ next = "resolve_read" /\ LockRevision(s)
         \/ /\ next \in {"file_check", "observe_check"}
            /\ \E x \in DOMAIN advisory : LockAdvisory(s, x)
  PROVE  RequestsOK'
<1>1. longestWait' >= longestWait
  BY LedgerAssumption DEF DataOK
<1>2. advisory \in [Orgs \cup Predictions -> Sessions \cup {None}]
  BY DEF RequestsOK, LocksOK
<1>3. advisory' \in [Orgs \cup Predictions -> Sessions \cup {None}]
  BY <1>2 DEF LockRevision, LockAdvisory
<1>4. revLock' = revLock \/ (revLock = None /\ revLock' = s)
  BY DEF LockRevision, LockAdvisory
<1>5. revLock' = s => next \in {"resolve_read", "resolve_commit"}
  BY DEF LockRevision, LockAdvisory, Free
<1>6. \A x \in DOMAIN advisory :
           /\ advisory'[x] = advisory[x] \/ (advisory[x] = None /\ advisory'[x] = s)
           /\ advisory'[x] = s =>
                next \in {"file_check", "file_commit", "observe_check", "observe_commit"}
  BY <1>2 DEF LockRevision, LockAdvisory, Free
<1> QED BY <1>1, <1>3, <1>4, <1>5, <1>6, GoesOn

LEMMA Facts ==
  ASSUME IInv, DataOK', NEW s \in Sessions
  PROVE  /\ DataOK /\ RequestsOK /\ SessionOK(s) /\ LocksOK
         /\ clock \in Nat /\ longestWait \in Nat /\ longestWait' \in Nat
<1>1. DataOK /\ RequestsOK
  BY DEF IInv, LedgerOK
<1>2. SessionOK(s) /\ LocksOK
  BY <1>1 DEF RequestsOK
<1>3. clock \in Nat /\ longestWait \in Nat /\ longestWait' \in Nat
  BY <1>1, LedgerAssumption DEF DataOK
<1> QED BY <1>1, <1>2, <1>3

-----------------------------------------------------------------------------
(* The steps of requests that write nothing.                                 *)
LEMMA FilingSteps ==
  ASSUME IInv, NEW s \in Sessions,
         FileStart(s) \/ FileLock(s) \/ FileRefused(s) \/ FileInsert(s), DataOK'
  PROVE  RequestsOK'
<1> USE LedgerAssumption
<1>0. /\ DataOK /\ RequestsOK /\ SessionOK(s) /\ LocksOK
      /\ clock \in Nat /\ longestWait \in Nat /\ longestWait' \in Nat
  BY Facts
<1>1. CASE FileStart(s)
  <2>1. PICK o \in Orgs : Begin(s, "file_lock", [org |-> o, filed |-> clock, target |-> None])
    BY <1>1 DEF FileStart
  <2> DEFINE r == [org |-> o, filed |-> clock, target |-> None]
  <2>2. Learn(s, "file_lock", r) /\ UNCHANGED <<clock, challenges, longestWait, revLock, advisory>>
    BY <1>1, <2>1 DEF FileStart, Begin, Learn, filingVars, lockVars
  <2>3. SessionOK(s)'
    <3>1. pc'[s] = "file_lock" /\ req'[s] = r
      BY <1>0, <2>2 DEF Learn, RequestsOK
    <3> QED BY <1>0, <2>2, <3>1 DEF SessionOK, Pcs, Carries, Holds, StillTrue, Filing, Resolving, Observing
  <2>4. Free(s)
    BY <1>0, <2>1, FreeBefore DEF Begin
  <2> QED BY <1>0, <2>2, <2>3, <2>4, GoesOnFree
<1>2. CASE FileLock(s)
  <2>1. /\ Learn(s, "file_check", req[s]) /\ LockAdvisory(s, req[s].org)
        /\ UNCHANGED <<clock, challenges, longestWait>>
    BY <1>0, <1>2 DEF FileLock, Go, Learn, RequestsOK, filingVars
  <2>2. req[s] \in [org: Orgs, target: Targets \cup {None}, filed: 0..clock]
    BY <1>0, <1>2 DEF FileLock, SessionOK, Carries, Filing
  <2>3. SessionOK(s)'
    <3>1. pc'[s] = "file_check" /\ req'[s] = req[s] /\ advisory'[req[s].org] = s
      BY <1>0, <2>1, <2>2 DEF Learn, RequestsOK, LockAdvisory, LocksOK
    <3> QED BY <1>0, <2>1, <2>2, <3>1 DEF SessionOK, Pcs, Carries, Holds, StillTrue, Filing, Resolving,
                 Observing, Targets, ClaimIds
  <2>4. Free(s)
    BY <1>0, <1>2, FreeBefore DEF FileLock
  <2>5. req[s].org \in DOMAIN advisory
    BY <1>0, <2>2 DEF LocksOK
  <2> QED BY <1>0, <2>1, <2>3, <2>4, <2>5, GoesOnLocking
<1>3. CASE FileRefused(s)
  <2>1. Finish(s) /\ UNCHANGED <<clock, challenges, longestWait>>
    BY <1>3 DEF FileRefused, filingVars
  <2> QED BY <1>0, <2>1, EndsQuietly
<1>4. CASE FileInsert(s)
  <2>1. PICK t \in Targets : Learn(s, "file_commit", [req[s] EXCEPT !.target = t])
    BY <1>4 DEF FileInsert
  <2> DEFINE r == [req[s] EXCEPT !.target = t]
  <2>2. req[s] \in [org: Orgs, target: Targets \cup {None}, filed: 0..clock]
    BY <1>0, <1>4 DEF FileInsert, SessionOK, Carries, Filing
  <2>3. /\ UNCHANGED <<clock, challenges, revLock, advisory>>
        /\ longestWait' >= longestWait /\ longestWait' >= clock - req[s].filed
    <3>1. req[s].filed \in Nat /\ clock - req[s].filed \in Int
      BY <1>0, <2>2
    <3> QED BY <1>0, <1>4, <3>1 DEF FileInsert, lockVars
  <2>4. SessionOK(s)'
    <3>1. pc'[s] = "file_commit" /\ req'[s] = r
      BY <1>0, <2>1 DEF Learn, RequestsOK
    <3>2. Carries(s)'
      BY <2>2, <2>3, <3>1 DEF Carries, Filing, Observing, Targets, ClaimIds
    <3>3. Holds(s)'
      BY <1>0, <1>4, <2>2, <2>3, <3>1 DEF FileInsert, SessionOK, Holds
    <3> DEFINE B == {n \in DOMAIN challenges : challenges[n].org = req[s].org
                       /\ challenges[n].filed + Window > req[s].filed + longestWait'}
    <3>4. B \subseteq InWindow(req[s].org)
      <4>1. \A n \in DOMAIN challenges : challenges[n].filed \in Nat
        BY <1>0, Rows
      <4>2. req[s].filed \in Nat
        BY <1>0, <2>2
      <4>3. \A n \in DOMAIN challenges :
               challenges[n].filed + Window > req[s].filed + longestWait'
                 => challenges[n].filed + Window > clock
        BY <1>0, <2>3, <4>1, <4>2
      <4> QED BY <4>3 DEF InWindow
    <3>5. IsFiniteSet(InWindow(req[s].org))
      BY <1>0, Rows, FS_Subset DEF InWindow
    <3>6. Cardinality(B) < FilingMax
      <4>1. Cardinality(InWindow(req[s].org)) < FilingMax
        BY <1>4 DEF FileInsert
      <4> QED BY <3>4, <3>5, <4>1, FS_Subset, FS_CardinalityType
    <3>7. StillTrue(s)'
      <4>1. req'[s].org = req[s].org /\ req'[s].filed = req[s].filed
        BY <2>2, <3>1
      <4>2. Beside(req[s].org, req[s].filed)' = B
        BY <2>3, <4>1 DEF Beside
      <4> QED BY <3>1, <3>6, <4>2 DEF StillTrue
    <3> QED BY <3>1, <3>2, <3>3, <3>7 DEF SessionOK, Pcs, Filing
  <2>5. revLock # s
    BY <1>0, <1>4 DEF LocksOK, FileInsert
  <2> QED BY <1>0, <2>1, <2>3, <2>4, <2>5, GoesOn DEF LocksOK
<1> QED BY <1>1, <1>2, <1>3, <1>4

LEMMA ResolvingSteps ==
  ASSUME IInv, NEW s \in Sessions,
         ResolveStart(s) \/ ResolveLock(s) \/ ResolveRead(s) \/ ResolveRefused(s), DataOK'
  PROVE  RequestsOK'
<1> USE LedgerAssumption
<1>0. /\ DataOK /\ RequestsOK /\ SessionOK(s) /\ LocksOK
      /\ clock \in Nat /\ longestWait \in Nat /\ longestWait' \in Nat
  BY Facts
<1>1. CASE ResolveStart(s)
  <2> DEFINE r == [challenge |-> None]
  <2>1. Learn(s, "resolve_lock", r) /\ UNCHANGED <<clock, challenges, longestWait, revLock, advisory>>
    BY <1>1 DEF ResolveStart, Begin, Learn, filingVars, lockVars
  <2>2. SessionOK(s)'
    <3>1. pc'[s] = "resolve_lock" /\ req'[s] = r
      BY <1>0, <2>1 DEF Learn, RequestsOK
    <3> QED BY <3>1 DEF SessionOK, Pcs, Carries, Holds, StillTrue, Filing, Resolving, Observing
  <2>3. Free(s)
    BY <1>0, <1>1, FreeBefore DEF ResolveStart, Begin
  <2> QED BY <1>0, <2>1, <2>2, <2>3, GoesOnFree
<1>2. CASE ResolveLock(s)
  <2>1. /\ Learn(s, "resolve_read", req[s]) /\ LockRevision(s)
        /\ UNCHANGED <<clock, challenges, longestWait>>
    BY <1>0, <1>2 DEF ResolveLock, Go, Learn, RequestsOK, filingVars
  <2>2. req[s] = [challenge |-> None]
    BY <1>0, <1>2 DEF ResolveLock, SessionOK, Carries
  <2>3. SessionOK(s)'
    <3>1. pc'[s] = "resolve_read" /\ req'[s] = req[s] /\ revLock' = s
      BY <1>0, <2>1 DEF Learn, RequestsOK, LockRevision
    <3> QED BY <2>2, <3>1 DEF SessionOK, Pcs, Carries, Holds, StillTrue, Filing, Resolving, Observing
  <2>4. Free(s)
    BY <1>0, <1>2, FreeBefore DEF ResolveLock
  <2> QED BY <1>0, <2>1, <2>3, <2>4, GoesOnLocking
<1>3. CASE ResolveRead(s)
  <2>1. PICK n \in DOMAIN challenges : ~IsResolved(n) /\ Learn(s, "resolve_commit", [challenge |-> n])
    BY <1>3 DEF ResolveRead
  <2>2. UNCHANGED <<clock, challenges, longestWait, revLock, advisory>>
    BY <1>3 DEF ResolveRead, filingVars, lockVars
  <2>3. SessionOK(s)'
    <3>1. pc'[s] = "resolve_commit" /\ req'[s] = [challenge |-> n]
      BY <1>0, <2>1 DEF Learn, RequestsOK
    <3>2. revLock' = s
      BY <1>0, <1>3, <2>2 DEF ResolveRead, SessionOK, Holds
    <3>3. Carries(s)'
      BY <2>2, <3>1 DEF Carries, Filing, Observing
    <3>4. StillTrue(s)'
      BY <2>1, <2>2, <3>1 DEF StillTrue, IsResolved
    <3> QED BY <3>1, <3>2, <3>3, <3>4 DEF SessionOK, Pcs, Holds, Resolving
  <2>4. /\ advisory \in [Orgs \cup Predictions -> Sessions \cup {None}]
        /\ \A x \in DOMAIN advisory : advisory[x] # s
    BY <1>0, <1>3 DEF LocksOK, ResolveRead
  <2> QED BY <1>0, <2>1, <2>2, <2>3, <2>4, GoesOn
<1>4. CASE ResolveRefused(s)
  <2>1. Finish(s) /\ UNCHANGED <<clock, challenges, longestWait>>
    BY <1>4 DEF ResolveRefused, filingVars
  <2> QED BY <1>0, <2>1, EndsQuietly
<1> QED BY <1>1, <1>2, <1>3, <1>4

LEMMA ObservingSteps ==
  ASSUME IInv, NEW s \in Sessions,
         ObserveStart(s) \/ ObserveRefused(s) \/ ObserveLock(s) \/ ObserveCheck(s)
           \/ ObserveCommit(s) \/ Fail(s),
         DataOK'
  PROVE  RequestsOK'
<1> USE LedgerAssumption
<1>0. /\ DataOK /\ RequestsOK /\ SessionOK(s) /\ LocksOK
      /\ clock \in Nat /\ longestWait \in Nat /\ longestWait' \in Nat
  BY Facts
<1>1. CASE ObserveStart(s)
  <2>1. PICK p \in Predictions : Begin(s, "observe_lock", [prediction |-> p])
    BY <1>1 DEF ObserveStart
  <2>2. /\ Learn(s, "observe_lock", [prediction |-> p])
        /\ UNCHANGED <<clock, challenges, longestWait, revLock, advisory>>
    BY <1>1, <2>1 DEF ObserveStart, Begin, Learn, filingVars, lockVars
  <2>3. SessionOK(s)'
    <3>1. pc'[s] = "observe_lock" /\ req'[s] = [prediction |-> p]
      BY <1>0, <2>2 DEF Learn, RequestsOK
    <3> QED BY <3>1 DEF SessionOK, Pcs, Carries, Holds, StillTrue, Filing, Resolving, Observing
  <2>4. Free(s)
    BY <1>0, <2>1, FreeBefore DEF Begin
  <2> QED BY <1>0, <2>2, <2>3, <2>4, GoesOnFree
<1>2. CASE ObserveLock(s)
  <2>1. /\ Learn(s, "observe_check", req[s]) /\ LockAdvisory(s, req[s].prediction)
        /\ UNCHANGED <<clock, challenges, longestWait>>
    BY <1>0, <1>2 DEF ObserveLock, Go, Learn, RequestsOK, filingVars
  <2>2. req[s] \in [prediction: Predictions]
    BY <1>0, <1>2 DEF ObserveLock, SessionOK, Carries, Observing
  <2>3. SessionOK(s)'
    <3>1. pc'[s] = "observe_check" /\ req'[s] = req[s] /\ advisory'[req[s].prediction] = s
      BY <1>0, <2>1, <2>2 DEF Learn, RequestsOK, LockAdvisory, LocksOK
    <3> QED BY <2>2, <3>1 DEF SessionOK, Pcs, Carries, Holds, StillTrue, Filing, Resolving, Observing
  <2>4. Free(s)
    BY <1>0, <1>2, FreeBefore DEF ObserveLock
  <2>5. req[s].prediction \in DOMAIN advisory
    BY <1>0, <2>2 DEF LocksOK
  <2> QED BY <1>0, <2>1, <2>3, <2>4, <2>5, GoesOnLocking
<1>3. CASE ObserveCheck(s) /\ outcomes[req[s].prediction] = None /\ Go(s, "observe_commit") /\ UNCHANGED lockVars
  <2>1. /\ Learn(s, "observe_commit", req[s])
        /\ UNCHANGED <<clock, challenges, longestWait, revLock, advisory>>
    BY <1>0, <1>3 DEF ObserveCheck, Go, Learn, RequestsOK, filingVars, lockVars
  <2>2. req[s] \in [prediction: Predictions] /\ advisory[req[s].prediction] = s
    BY <1>0, <1>3 DEF ObserveCheck, SessionOK, Carries, Holds, Observing
  <2>3. SessionOK(s)'
    <3>1. pc'[s] = "observe_commit" /\ req'[s] = req[s]
      BY <1>0, <2>1 DEF Learn, RequestsOK
    <3> QED BY <2>1, <2>2, <3>1 DEF SessionOK, Pcs, Carries, Holds, StillTrue, Filing, Resolving, Observing
  <2>4. advisory \in [Orgs \cup Predictions -> Sessions \cup {None}] /\ revLock # s
    BY <1>0, <1>3 DEF LocksOK, ObserveCheck
  <2> QED BY <1>0, <2>1, <2>3, <2>4, GoesOn
<1>4. CASE Finish(s) /\ (ObserveRefused(s) \/ ObserveCheck(s) \/ ObserveCommit(s) \/ Fail(s))
  <2>1. UNCHANGED <<clock, challenges, longestWait>>
    BY <1>4 DEF ObserveRefused, ObserveCheck, ObserveCommit, Fail, filingVars
  <2> QED BY <1>0, <1>4, <2>1, EndsQuietly
<1> QED BY <1>1, <1>2, <1>3, <1>4 DEF ObserveRefused, ObserveCheck, ObserveCommit, Fail

-----------------------------------------------------------------------------
(* What a step that does not write the ledger leaves true.                   *)
LEMMA LedgerSame ==
  ASSUME LedgerOK, DataOK', UNCHANGED <<ledgerVars, challenges>>
  PROVE  LedgerOK'
<1>1. Dated'
  BY DEF LedgerOK, Dated, Resolved, ledgerVars
<1>2. VerdictStands'
  BY DEF LedgerOK, VerdictStands, ledgerVars
<1>3. WholeReceiptJudged'
  BY DEF LedgerOK, WholeReceiptJudged, Resolved, ledgerVars
<1>4. OneRevisionPerResolution'
  BY DEF LedgerOK, OneRevisionPerResolution, Resolved, ledgerVars
<1> QED BY <1>1, <1>2, <1>3, <1>4 DEF LedgerOK

\* A wait that is longer makes the window it excuses narrower.
LEMMA RollingSame ==
  ASSUME DataOK, DataOK', RollingCountUpToWait, longestWait' >= longestWait,
         DOMAIN challenges' = DOMAIN challenges,
         \A n \in DOMAIN challenges :
           challenges'[n].org = challenges[n].org /\ challenges'[n].filed = challenges[n].filed
  PROVE  RollingCountUpToWait'
<1> SUFFICES ASSUME NEW o \in Orgs, NEW t \in 0..MaxClock
             PROVE  Cardinality({n \in DOMAIN challenges' :
                      /\ challenges'[n].org = o /\ challenges'[n].filed <= t
                      /\ challenges'[n].filed + Window > t + longestWait'}) <= FilingMax
  BY DEF RollingCountUpToWait
<1> DEFINE B == {n \in DOMAIN challenges :
                   /\ challenges[n].org = o /\ challenges[n].filed <= t
                   /\ challenges[n].filed + Window > t + longestWait}
           C == {n \in DOMAIN challenges' :
                   /\ challenges'[n].org = o /\ challenges'[n].filed <= t
                   /\ challenges'[n].filed + Window > t + longestWait'}
<1>1. \A n \in DOMAIN challenges : challenges[n].filed \in Nat
  BY Rows
<1>2. longestWait \in Nat /\ longestWait' \in Nat /\ t \in Nat /\ Window \in Nat /\ FilingMax \in Nat
  BY LedgerAssumption DEF DataOK
<1>3. \A n \in DOMAIN challenges :
         challenges[n].filed + Window > t + longestWait' => challenges[n].filed + Window > t + longestWait
  BY <1>1, <1>2
<1>4. C \subseteq B
  BY <1>3
<1>5. IsFiniteSet(B)
  BY Rows, FS_Subset
<1>6. Cardinality(B) <= FilingMax
  BY DEF RollingCountUpToWait
<1> QED BY <1>2, <1>4, <1>5, <1>6, FS_Subset, FS_CardinalityType

\* The steps of requests that write nothing but how long they waited.
LEMMA QuietStep ==
  ASSUME IInv, NEW s \in Sessions,
         \/ FileStart(s) \/ FileLock(s) \/ FileRefused(s) \/ FileInsert(s)
         \/ ResolveStart(s) \/ ResolveLock(s) \/ ResolveRead(s) \/ ResolveRefused(s)
         \/ ObserveStart(s) \/ ObserveRefused(s) \/ ObserveLock(s)
         \/ ObserveCheck(s) \/ ObserveCommit(s) \/ Fail(s)
  PROVE  IInv'
<1> USE LedgerAssumption
<1>0. LedgerOK /\ DataOK /\ RequestsOK /\ RollingCountUpToWait /\ SessionOK(s)
  BY DEF IInv, LedgerOK, RequestsOK
<1>1. UNCHANGED <<clock, ledgerVars, challenges, predictions>>
  BY DEF FileStart, FileLock, FileRefused, FileInsert, ResolveStart, ResolveLock, ResolveRead,
         ResolveRefused, ObserveStart, ObserveRefused, ObserveLock, ObserveCheck, ObserveCommit,
         Fail, filingVars, outcomeVars
<1>2. longestWait' \in 0..MaxClock /\ longestWait' >= longestWait
  <2>1. CASE FileInsert(s)
    <3>1. req[s].filed \in 0..clock /\ clock \in 0..MaxClock
      BY <1>0, <2>1 DEF FileInsert, SessionOK, Carries, Filing, DataOK
    <3> QED BY <1>0, <2>1, <3>1 DEF FileInsert, DataOK
  <2>2. CASE ~FileInsert(s)
    <3>1. longestWait' = longestWait
      BY <2>2 DEF FileStart, FileLock, FileRefused, ResolveStart, ResolveLock, ResolveRead,
           ResolveRefused, ObserveStart, ObserveRefused, ObserveLock, ObserveCheck, ObserveCommit,
           Fail, filingVars
    <3> QED BY <1>0, <3>1 DEF DataOK
  <2> QED BY <2>1, <2>2
<1>3. outcomes' \in [Predictions -> {"observed", None}]
  <2>1. CASE ObserveCommit(s)
    BY <1>0, <2>1 DEF ObserveCommit, DataOK
  <2>2. CASE ~ObserveCommit(s)
    <3>1. outcomes' = outcomes
      BY <2>2 DEF FileStart, FileLock, FileRefused, FileInsert, ResolveStart, ResolveLock, ResolveRead,
           ResolveRefused, ObserveStart, ObserveRefused, ObserveLock, ObserveCheck, Fail, outcomeVars
    <3> QED BY <1>0, <3>1 DEF DataOK
  <2> QED BY <2>1, <2>2
<1>4. DataOK'
  BY <1>0, <1>1, <1>2, <1>3 DEF DataOK, ledgerVars
<1>5. LedgerOK'
  BY <1>0, <1>1, <1>4, LedgerSame
<1>6. RollingCountUpToWait'
  BY <1>0, <1>1, <1>2, <1>4, RollingSame
<1>7. RequestsOK'
  BY <1>4, FilingSteps, ResolvingSteps, ObservingSteps
<1> QED BY <1>5, <1>6, <1>7 DEF IInv

-----------------------------------------------------------------------------
(* The steps that write.                                                     *)

\* No session moves: each keeps its locks and what it knows.
LEMMA AllKeep ==
  ASSUME RequestsOK, DataOK, DataOK', UNCHANGED <<lockVars, sessionVars>>,
         clock' >= clock, longestWait' = longestWait,
         \A t \in Sessions : KeepsFor(t)
  PROVE  RequestsOK'
<1>1. UNCHANGED <<revLock, advisory, pc, req>>
  BY DEF lockVars, sessionVars
<1>2. longestWait' >= longestWait
  BY LedgerAssumption DEF DataOK
<1>3. \A t \in Sessions : SessionOK(t)'
  BY <1>1, <1>2, OthersKeep
<1> QED BY <1>1, <1>3 DEF RequestsOK, LocksOK

LEMMA TickOK ==
  ASSUME IInv, Tick
  PROVE  IInv'
<1> USE LedgerAssumption
<1>0. LedgerOK /\ DataOK /\ RequestsOK /\ RollingCountUpToWait
  BY DEF IInv, LedgerOK
<1>1. UNCHANGED <<ledgerVars, challenges, longestWait, predictions, outcomes>>
      /\ UNCHANGED <<lockVars, sessionVars>>
  BY DEF Tick, filingVars, outcomeVars
<1>2. clock' \in 0..MaxClock /\ clock' >= clock /\ longestWait' >= longestWait
  BY <1>0, <1>1 DEF Tick, DataOK
<1>3. DataOK'
  BY <1>0, <1>1, <1>2 DEF DataOK, ledgerVars
<1>4. \A t \in Sessions : KeepsFor(t)
  BY <1>1 DEF KeepsFor, IsResolved
<1>5. RequestsOK'
  BY <1>0, <1>1, <1>2, <1>3, <1>4, AllKeep
<1>6. RollingCountUpToWait'
  BY <1>0, <1>1, <1>2, <1>3, RollingSame
<1> QED BY <1>0, <1>1, <1>3, <1>5, <1>6, LedgerSame DEF IInv

\* A challenge that is filed or acknowledged is none of the ledger's yet.
LEMMA LedgerUntouched ==
  ASSUME LedgerOK, DataOK', UNCHANGED ledgerVars, Resolved' = Resolved,
         \A m \in Resolved : challenges'[m] = challenges[m]
  PROVE  LedgerOK'
<1>1. Dated'
  BY DEF LedgerOK, Dated, ledgerVars
<1>2. VerdictStands'
  BY DEF LedgerOK, VerdictStands, ledgerVars
<1>3. WholeReceiptJudged'
  BY DEF LedgerOK, WholeReceiptJudged, ledgerVars
<1>4. OneRevisionPerResolution'
  BY DEF LedgerOK, OneRevisionPerResolution, ledgerVars
<1> QED BY <1>1, <1>2, <1>3, <1>4 DEF LedgerOK

LEMMA RegisterOK ==
  ASSUME IInv, NEW p \in Predictions, Register(p)
  PROVE  IInv'
<1>0. LedgerOK /\ DataOK /\ RequestsOK /\ RollingCountUpToWait
  BY DEF IInv, LedgerOK
<1>1. UNCHANGED <<clock, ledgerVars, challenges, longestWait, outcomes>>
      /\ UNCHANGED <<lockVars, sessionVars>>
  BY DEF Register, filingVars
<1>2. DataOK'
  BY <1>0, <1>1 DEF Register, DataOK, ledgerVars
<1>3. clock' >= clock /\ longestWait' >= longestWait
  BY <1>0, <1>1, LedgerAssumption DEF DataOK
<1>4. \A t \in Sessions : KeepsFor(t)
  BY <1>1 DEF KeepsFor, IsResolved
<1>5. RequestsOK'
  BY <1>0, <1>1, <1>2, <1>3, <1>4, AllKeep
<1>6. RollingCountUpToWait'
  BY <1>0, <1>1, <1>2, <1>3, RollingSame
<1> QED BY <1>0, <1>1, <1>2, <1>5, <1>6, LedgerSame DEF IInv

LEMMA AcknowledgeOK ==
  ASSUME IInv, NEW n \in DOMAIN challenges, Acknowledge(n)
  PROVE  IInv'
<1>0. LedgerOK /\ DataOK /\ RequestsOK /\ RollingCountUpToWait
  BY DEF IInv, LedgerOK
<1>1. /\ UNCHANGED <<clock, longestWait, ledgerVars, outcomeVars>>
      /\ UNCHANGED <<lockVars, sessionVars>>
      /\ challenges' = [challenges EXCEPT ![n].status = "acknowledged"]
      /\ challenges[n].status = "open"
  BY DEF Acknowledge, CanAcknowledge
<1>2. /\ DOMAIN challenges' = DOMAIN challenges
      /\ \A m \in DOMAIN challenges :
           /\ m # n => challenges'[m] = challenges[m]
           /\ challenges'[m].org = challenges[m].org /\ challenges'[m].filed = challenges[m].filed
      /\ challenges'[n].status = "acknowledged"
  BY <1>0, <1>1, Rows DEF Challenges
<1>3. challenges' \in Seq(Challenges) /\ Len(challenges') = Len(challenges)
  <2>1. [challenges[n] EXCEPT !.status = "acknowledged"] \in Challenges
    BY <1>0, Rows DEF Challenges
  <2>2. challenges' = [challenges EXCEPT ![n] = [challenges[n] EXCEPT !.status = "acknowledged"]]
    BY <1>1
  <2> HIDE DEF Challenges
  <2> QED BY <1>0, <2>1, <2>2, ExceptSeq, Rows DEF DataOK
<1>4. DataOK'
  BY <1>0, <1>1, <1>3 DEF DataOK, ledgerVars, outcomeVars
<1>5. Resolved' = Resolved /\ \A m \in Resolved : challenges'[m] = challenges[m]
  BY <1>1, <1>2 DEF Resolved
<1>6. clock' >= clock /\ longestWait' >= longestWait
  BY <1>0, <1>1, LedgerAssumption DEF DataOK
<1>7. \A t \in Sessions : KeepsFor(t)
  BY <1>2 DEF KeepsFor, IsResolved
<1>8. RequestsOK'
  BY <1>0, <1>1, <1>4, <1>6, <1>7, AllKeep
<1>9. RollingCountUpToWait'
  BY <1>0, <1>2, <1>4, <1>6, RollingSame
<1> QED BY <1>0, <1>1, <1>4, <1>5, <1>8, <1>9, LedgerUntouched DEF IInv

\* Of a claim without a row nothing is said, and only resolutions say anything.
LEMMA SaidOfRows ==
  ASSUME LedgerOK, NEW x \in relationships
  PROVE  /\ x.target \in ClaimIds /\ claims[x.target] # None
         /\ x.challenge \in Resolved /\ x.revision \in 1..revision
<1>1. x.challenge \in 1..MaxChallenges /\ x.target \in ClaimIds /\ x.revision \in 1..revision
  BY DEF LedgerOK, DataOK
<1>2. WholeReceiptJudged
  BY DEF LedgerOK
<1>3. x.challenge \in Resolved
  BY <1>1, <1>2 DEF WholeReceiptJudged
<1>4. claims[x.target] # None
  BY <1>1, <1>2, <1>3 DEF WholeReceiptJudged
<1> QED BY <1>1, <1>3, <1>4

LEMMA AnswerOK ==
  ASSUME IInv, NEW r \in Receipts, Answer(r)
  PROVE  IInv'
<1> USE LedgerAssumption
<1>0. LedgerOK /\ DataOK /\ RequestsOK /\ RollingCountUpToWait
  BY DEF IInv, LedgerOK
<1>1. /\ UNCHANGED <<clock, revision, revlog, counters, relationships>>
      /\ UNCHANGED <<challenges, longestWait, predictions, outcomes>>
      /\ UNCHANGED <<lockVars, sessionVars>>
  BY DEF Answer, filingVars, outcomeVars
<1>2. \/ claims' = claims
      \/ claims' = [c \in ClaimIds |-> IF c \in ClaimsOf(r) THEN Ensured(c) ELSE claims[c]]
  BY DEF Answer
<1>3. /\ claims' \in [ClaimIds -> Verdicts \cup {None}]
      /\ \A c \in ClaimIds : claims'[c] = claims[c] \/ (claims[c] = None /\ claims'[c] = Fresh)
  BY <1>0, <1>2 DEF DataOK, Ensured, Verdicts
<1>4. DataOK'
  <2>1. cache' \subseteq Protocols
    BY <1>0 DEF Answer, DataOK
  <2>2. receipts' \in [Receipts -> {"released", "withheld", None}]
    BY <1>0 DEF Answer, DataOK
  <2> QED BY <1>0, <1>1, <1>3, <2>1, <2>2 DEF DataOK
<1>5. Dated' /\ OneRevisionPerResolution'
  BY <1>0, <1>1 DEF LedgerOK, Dated, OneRevisionPerResolution, Resolved
<1>6. VerdictStands'
  <2> SUFFICES ASSUME NEW c \in ClaimIds, claims'[c] # None
               PROVE  LET judging == {x \in relationships : x.target = c /\ x.kind # "narrows"} IN
                      \/ judging = {} /\ claims'[c] = Fresh
                      \/ \E x \in judging :
                           /\ \A y \in judging : y.revision <= x.revision
                           /\ claims'[c] = ClaimStatusAfter(x.kind)
    BY <1>1 DEF VerdictStands
  <2>1. CASE claims'[c] = claims[c]
    BY <1>0, <2>1 DEF LedgerOK, VerdictStands
  <2>2. CASE claims[c] = None /\ claims'[c] = Fresh
    <3>1. {x \in relationships : x.target = c /\ x.kind # "narrows"} = {}
      BY <1>0, <2>2, SaidOfRows
    <3> QED BY <2>2, <3>1
  <2> QED BY <1>3, <2>1, <2>2
<1>7. WholeReceiptJudged'
  <2>1. \A x \in relationships : x.target \in ClaimIds /\ (claims[x.target] # None => claims'[x.target] # None)
    BY <1>0, <1>3, SaidOfRows
  <2> QED BY <1>0, <1>1, <2>1 DEF LedgerOK, WholeReceiptJudged, Resolved
<1>8. clock' >= clock /\ longestWait' >= longestWait
  BY <1>0, <1>1 DEF DataOK
<1>9. \A t \in Sessions : KeepsFor(t)
  BY <1>1 DEF KeepsFor, IsResolved
<1>10. RequestsOK'
  BY <1>0, <1>1, <1>4, <1>8, <1>9, AllKeep
<1>11. RollingCountUpToWait'
  BY <1>0, <1>1, <1>4, <1>8, RollingSame
<1> QED BY <1>4, <1>5, <1>6, <1>7, <1>10, <1>11 DEF IInv, LedgerOK

\* The challenge that is filed next.
Filed(s) ==
  [org |-> req[s].org, target |-> req[s].target, status |-> "open",
   resolution |-> None, revision |-> None, filed |-> req[s].filed]

LEMMA FileCommitOK ==
  ASSUME IInv, NEW s \in Sessions, FileCommit(s)
  PROVE  IInv'
<1> USE LedgerAssumption
<1>0. LedgerOK /\ DataOK /\ RequestsOK /\ RollingCountUpToWait /\ SessionOK(s)
  BY DEF IInv, LedgerOK, RequestsOK
<1> DEFINE new == Len(challenges) + 1
<1>1. /\ UNCHANGED <<clock, ledgerVars, longestWait, predictions, outcomes>> /\ Finish(s)
      /\ challenges' = Append(challenges, Filed(s)) /\ Len(challenges) < MaxChallenges
      /\ pc[s] = "file_commit"
  BY DEF FileCommit, Filed, outcomeVars
<1>2. /\ req[s].org \in Orgs /\ req[s].target \in Targets /\ req[s].filed \in 0..clock
      /\ advisory[req[s].org] = s
      /\ Cardinality(Beside(req[s].org, req[s].filed)) < FilingMax
  BY <1>0, <1>1 DEF SessionOK, Carries, Holds, StillTrue, Filing
<1>3. Filed(s) \in Challenges
  BY <1>0, <1>2 DEF Filed, Challenges, DataOK
<1>4. /\ challenges' \in Seq(Challenges) /\ Len(challenges') = new
      /\ challenges'[new] = Filed(s) /\ \A n \in DOMAIN challenges : challenges'[n] = challenges[n]
  BY <1>0, <1>1, <1>3, AppendProperties, Rows DEF DataOK
<1>5. DataOK'
  <2>1. Len(challenges') <= MaxChallenges
    BY <1>0, <1>1, <1>4, Rows
  <2> HIDE DEF new
  <2> QED BY <1>0, <1>1, <1>4, <2>1 DEF DataOK, ledgerVars
<1>6. DOMAIN challenges' = DOMAIN challenges \cup {new} /\ new \notin DOMAIN challenges
  <2>1. DOMAIN challenges' = 1..new
    BY <1>4, <1>5, Rows
  <2> QED BY <1>0, <2>1, Rows
<1> HIDE DEF new
<1>7. Resolved' = Resolved /\ \A m \in Resolved : challenges'[m] = challenges[m]
  BY <1>4, <1>6 DEF Resolved, Filed
<1>8. LedgerOK'
  BY <1>0, <1>1, <1>5, <1>7, LedgerUntouched
<1>9. RequestsOK'
  <2>1. longestWait' >= longestWait
    BY <1>0, <1>1 DEF DataOK
  <2>2. ASSUME NEW t \in Sessions \ {s} PROVE KeepsFor(t)
    <3>1. pc[t] = "file_commit" => req[t].org # req[s].org
      BY <1>0, <1>2 DEF RequestsOK, SessionOK, Holds
    <3>2. challenges'[new].org = req[s].org
      BY <1>4 DEF Filed
    <3> QED BY <1>4, <1>6, <3>1, <3>2 DEF KeepsFor, IsResolved
  <2> QED BY <1>0, <1>1, <1>5, <2>1, <2>2, Ends
<1>10. RollingCountUpToWait'
  <2> SUFFICES ASSUME NEW o \in Orgs, NEW t \in 0..MaxClock
               PROVE  Cardinality({n \in DOMAIN challenges' :
                        /\ challenges'[n].org = o /\ challenges'[n].filed <= t
                        /\ challenges'[n].filed + Window > t + longestWait}) <= FilingMax
    BY <1>1 DEF RollingCountUpToWait
  <2> DEFINE B == {n \in DOMAIN challenges :
                     /\ challenges[n].org = o /\ challenges[n].filed <= t
                     /\ challenges[n].filed + Window > t + longestWait}
             C == {n \in DOMAIN challenges' :
                     /\ challenges'[n].org = o /\ challenges'[n].filed <= t
                     /\ challenges'[n].filed + Window > t + longestWait}
  <2>1. IsFiniteSet(B) /\ Cardinality(B) \in Nat /\ Cardinality(B) <= FilingMax
    BY <1>0, Rows, FS_Subset, FS_CardinalityType DEF RollingCountUpToWait
  <2>2. CASE o = req[s].org /\ req[s].filed <= t /\ req[s].filed + Window > t + longestWait
    <3>1. B \subseteq Beside(req[s].org, req[s].filed)
      <4>1. \A n \in DOMAIN challenges : challenges[n].filed \in Nat
        BY <1>0, Rows
      <4>2. longestWait \in Nat /\ t \in Nat /\ Window \in Nat /\ req[s].filed \in Nat
        BY <1>0, <1>2 DEF DataOK
      <4>3. \A n \in DOMAIN challenges : challenges[n].filed + Window > t + longestWait
               => challenges[n].filed + Window > req[s].filed + longestWait
        BY <2>2, <4>1, <4>2
      <4> QED BY <2>2, <4>3 DEF Beside
    <3>2. IsFiniteSet(Beside(req[s].org, req[s].filed))
      BY <1>0, Rows, FS_Subset DEF Beside
    <3>3. Cardinality(B) < FilingMax
      BY <1>2, <2>1, <3>1, <3>2, FS_Subset, FS_CardinalityType
    <3>4. C = B \cup {new} /\ new \notin B
      BY <1>4, <1>6, <2>2 DEF Filed
    <3>5. Cardinality(C) = Cardinality(B) + 1
      BY <2>1, <3>4, FS_AddElement
    <3> QED BY <2>1, <3>3, <3>5
  <2>3. CASE ~(o = req[s].org /\ req[s].filed <= t /\ req[s].filed + Window > t + longestWait)
    <3>1. C = B
      BY <1>4, <1>6, <2>3 DEF Filed
    <3> QED BY <2>1, <3>1
  <2> QED BY <2>2, <2>3
<1> QED BY <1>8, <1>9, <1>10 DEF IInv

\* What the log says of the past is not changed by the next revision.
LEMMA BumpKeeps ==
  ASSUME DataOK, NEW p \in Protocols, NEW k \in {"intake", "challenge"}, Bump(p, k)
  PROVE  /\ revlog' \in Seq(LogRow) /\ revision' = Len(revlog') /\ revision' = revision + 1
         /\ \A i \in 1..revision : revlog'[i] = revlog[i]
         /\ revlog'[revision + 1] = [protocol |-> p, kind |-> k]
         /\ DOMAIN revlog' = 1..(revision + 1)
         /\ relationships \subseteq [challenge: 1..MaxChallenges, target: ClaimIds,
                                     kind: RelationshipKinds, revision: 1..revision']
<1>1. [protocol |-> p, kind |-> k] \in LogRow
  BY DEF LogRow
<1>2. /\ revlog' \in Seq(LogRow) /\ Len(revlog') = Len(revlog) + 1
      /\ \A i \in 1..Len(revlog) : revlog'[i] = revlog[i]
      /\ revlog'[Len(revlog) + 1] = [protocol |-> p, kind |-> k]
  BY <1>1, AppendProperties DEF DataOK, Bump
<1>3. revision = Len(revlog) /\ revision' = revision + 1 /\ revision \in Nat
  BY LenProperties DEF DataOK, Bump
<1>4. DOMAIN revlog' = 1..(revision + 1)
  BY <1>2, <1>3, LenProperties
<1>5. relationships \subseteq [challenge: 1..MaxChallenges, target: ClaimIds,
                               kind: RelationshipKinds, revision: 1..revision']
  <2>1. 1..revision \subseteq 1..revision'
    BY <1>3
  <2> QED BY <2>1 DEF DataOK
<1> QED BY <1>2, <1>3, <1>4, <1>5

LEMMA EvidenceMovesOK ==
  ASSUME IInv, NEW p \in Protocols, EvidenceMoves(p)
  PROVE  IInv'
<1> USE LedgerAssumption
<1>0. LedgerOK /\ DataOK /\ RequestsOK /\ RollingCountUpToWait
  BY DEF IInv, LedgerOK
<1>1. /\ UNCHANGED <<clock, cache, receipts, claims, counters, relationships>>
      /\ UNCHANGED <<challenges, longestWait, predictions, outcomes>>
      /\ UNCHANGED <<lockVars, sessionVars>> /\ Bump(p, "intake")
  BY DEF EvidenceMoves, filingVars, outcomeVars
<1>2. /\ revlog' \in Seq(LogRow) /\ revision' = Len(revlog') /\ revision' = revision + 1
      /\ \A i \in 1..revision : revlog'[i] = revlog[i]
      /\ revlog'[revision + 1] = [protocol |-> p, kind |-> "intake"]
      /\ DOMAIN revlog' = 1..(revision + 1)
      /\ relationships \subseteq [challenge: 1..MaxChallenges, target: ClaimIds,
                                  kind: RelationshipKinds, revision: 1..revision']
  BY <1>0, <1>1, BumpKeeps
<1>3. DataOK'
  BY <1>0, <1>1, <1>2 DEF DataOK
<1>4. revision \in Nat /\ DOMAIN revlog = 1..revision
  BY <1>0, Rows
<1>5. Dated'
  <2>1. 1..revision \subseteq 1..revision'
    BY <1>2, <1>4
  <2> QED BY <1>0, <1>1, <2>1 DEF LedgerOK, Dated, Resolved
<1>6. VerdictStands' /\ WholeReceiptJudged'
  BY <1>0, <1>1 DEF LedgerOK, VerdictStands, WholeReceiptJudged, Resolved
<1>7. OneRevisionPerResolution'
  <2>1. {i \in DOMAIN revlog' : revlog'[i].kind = "challenge"} = {i \in DOMAIN revlog : revlog[i].kind = "challenge"}
    <3>1. DOMAIN revlog' = DOMAIN revlog \cup {revision + 1}
      BY <1>2, <1>4
    <3> QED BY <1>2, <1>4, <3>1
  <2>2. \A n \in Resolved : revlog'[challenges[n].revision] = revlog[challenges[n].revision]
    BY <1>0, <1>2 DEF LedgerOK, Dated
  <2>3. Resolved' = Resolved
    BY <1>1 DEF Resolved
  <2> QED BY <1>0, <1>1, <2>1, <2>2, <2>3 DEF LedgerOK, OneRevisionPerResolution
<1>8. clock' >= clock /\ longestWait' >= longestWait
  BY <1>0, <1>1 DEF DataOK
<1>9. \A t \in Sessions : KeepsFor(t)
  BY <1>1 DEF KeepsFor, IsResolved
<1>10. RequestsOK'
  BY <1>0, <1>1, <1>3, <1>8, <1>9, AllKeep
<1>11. RollingCountUpToWait'
  BY <1>0, <1>1, <1>3, <1>8, RollingSame
<1> QED BY <1>3, <1>5, <1>6, <1>7, <1>10, <1>11 DEF IInv, LedgerOK

\* A challenge bears on claims of the receipts, and these are the ones it is judged on.
LEMMA BearsOn ==
  ASSUME NEW t \in Targets
  PROVE  /\ Bearing(t) \subseteq ClaimIds
         /\ \A c \in ClaimIds : c \in Bearing(t) <=> t.id = (IF t.kind = "claim" THEN c ELSE c[1])
         /\ ReceiptOfTarget(t) \in Receipts
<1>1. CASE t \in [kind: {"receipt"}, id: Receipts]
  <2>1. t.kind = "receipt" /\ t.id \in Receipts /\ Bearing(t) = ClaimsOf(t.id)
    BY <1>1 DEF Bearing
  <2>2. ASSUME NEW c \in ClaimIds PROVE c \in ClaimsOf(t.id) <=> t.id = c[1]
    <3>1. PICK r \in Receipts : \E k \in FindingsOf[r] : c = <<r, k>>
      BY DEF ClaimIds, ClaimsOf
    <3> QED BY <2>1, <3>1 DEF ClaimsOf
  <2>3. ClaimsOf(t.id) \subseteq ClaimIds
    BY <2>1 DEF ClaimIds
  <2> QED BY <2>1, <2>2, <2>3 DEF ReceiptOfTarget
<1>2. CASE t \in [kind: {"claim"}, id: ClaimIds]
  <2>1. t.kind = "claim" /\ t.id \in ClaimIds /\ Bearing(t) = {t.id}
    BY <1>2 DEF Bearing
  <2>2. t.id[1] \in Receipts
    BY <2>1 DEF ClaimIds, ClaimsOf
  <2> QED BY <2>1, <2>2 DEF ReceiptOfTarget
<1> QED BY <1>1, <1>2 DEF Targets

\* The verdict a resolution leaves is the one the header's table names.
LEMMA JudgedAsTold ==
  ASSUME NEW res \in Resolutions, NEW now \in Verdicts
  PROVE  /\ ClaimUpdate(res, now) \in Verdicts
         /\ ResolutionRelationship(res) \in RelationshipKinds
         /\ ResolutionRelationship(res) = "narrows" => ClaimUpdate(res, now) = now
         /\ ResolutionRelationship(res) # "narrows" =>
              ClaimUpdate(res, now) = ClaimStatusAfter(ResolutionRelationship(res))
  BY DEF Resolutions, ClaimUpdate, ResolutionRelationship, RelationshipKinds, ClaimStatusAfter, Verdicts

LEMMA ResolveCommitOK ==
  ASSUME IInv, NEW s \in Sessions, ResolveCommit(s)
  PROVE  IInv'
<1> USE LedgerAssumption
<1>0. LedgerOK /\ DataOK /\ RequestsOK /\ RollingCountUpToWait /\ SessionOK(s)
  BY DEF IInv, LedgerOK, RequestsOK
<1> DEFINE n == req[s].challenge
           target == challenges[n].target
           protocol == ProtocolOf[ReceiptOfTarget(target)]
           bearing == Bearing(target)
<1>1. /\ pc[s] = "resolve_commit" /\ Finish(s) /\ Bump(protocol, "challenge")
      /\ cache' = cache \ {protocol}
      /\ UNCHANGED <<clock, receipts, longestWait, predictions, outcomes>>
  BY DEF ResolveCommit, outcomeVars
<1>2. PICK res \in Resolutions :
        /\ counters' = [counters EXCEPT ![n] = IF res = "rejected" THEN "rejected" ELSE "supported"]
        /\ relationships' = relationships \cup
             {Relationship(n, c, ResolutionRelationship(res)) : c \in bearing}
        /\ claims' = [c \in ClaimIds |->
                        IF c \in bearing THEN ClaimUpdate(res, Ensured(c)) ELSE claims[c]]
        /\ challenges' = [challenges EXCEPT ![n].status = "resolved", ![n].resolution = res,
                                            ![n].revision = revision + 1]
  BY DEF ResolveCommit
<1> DEFINE kind == ResolutionRelationship(res)
           made == {Relationship(n, c, kind) : c \in bearing}
<1>3. n \in DOMAIN challenges /\ n \notin Resolved /\ revLock = s
  BY <1>0, <1>1 DEF SessionOK, Carries, Holds, StillTrue, Resolved, IsResolved
<1>4. target \in Targets /\ challenges[n] \in Challenges
  BY <1>0, <1>3, Rows DEF Challenges
<1>5. protocol \in Protocols
  BY <1>4, BearsOn
<1>6. /\ revlog' \in Seq(LogRow) /\ revision' = Len(revlog') /\ revision' = revision + 1
      /\ \A i \in 1..revision : revlog'[i] = revlog[i]
      /\ revlog'[revision + 1] = [protocol |-> protocol, kind |-> "challenge"]
      /\ DOMAIN revlog' = 1..(revision + 1)
      /\ relationships \subseteq [challenge: 1..MaxChallenges, target: ClaimIds,
                                  kind: RelationshipKinds, revision: 1..revision']
    <2> HIDE DEF protocol
    <2> QED BY <1>0, <1>1, <1>5, BumpKeeps
<1>7. revision \in Nat /\ DOMAIN revlog = 1..revision /\ DOMAIN challenges \subseteq 1..MaxChallenges
  BY <1>0, Rows
<1>8. /\ challenges' \in Seq(Challenges) /\ Len(challenges') = Len(challenges)
      /\ DOMAIN challenges' = DOMAIN challenges
      /\ \A m \in DOMAIN challenges : m # n => challenges'[m] = challenges[m]
      /\ challenges'[n].org = challenges[n].org /\ challenges'[n].filed = challenges[n].filed
      /\ challenges'[n].target = target /\ challenges'[n].status = "resolved"
      /\ challenges'[n].resolution = res /\ challenges'[n].revision = revision + 1
  <2> DEFINE row == [challenges[n] EXCEPT !.status = "resolved", !.resolution = res,
                                          !.revision = revision + 1]
  <2>1. row \in Challenges
    <3>1. revision + 1 \in Nat
      BY <1>7
    <3> HIDE DEF n, target
    <3> QED BY <1>4, <3>1 DEF Challenges
  <2>2. challenges' = [challenges EXCEPT ![n] = row]
    BY <1>2, <1>3
  <2>3. /\ row.org = challenges[n].org /\ row.filed = challenges[n].filed
        /\ row.target = target /\ row.status = "resolved"
        /\ row.resolution = res /\ row.revision = revision + 1
    BY <1>4 DEF Challenges
  <2> HIDE DEF row, n
  <2>4. challenges' \in Seq(Challenges) /\ Len(challenges') = Len(challenges)
    BY <1>0, <1>3, <2>1, <2>2, ExceptSeq, Rows DEF DataOK
  <2> QED BY <1>3, <2>2, <2>3, <2>4
<1>9. \A c \in ClaimIds : Ensured(c) \in Verdicts
  BY <1>0 DEF DataOK, Ensured, Verdicts
<1>10. /\ claims' \in [ClaimIds -> Verdicts \cup {None}]
       /\ \A c \in bearing : claims'[c] \in Verdicts /\ claims'[c] # None
       /\ \A c \in ClaimIds \ bearing : claims'[c] = claims[c]
  BY <1>0, <1>2, <1>4, <1>9, BearsOn, JudgedAsTold, NullAssumption DEF DataOK
<1>11. made \subseteq [challenge: 1..MaxChallenges, target: ClaimIds,
                       kind: RelationshipKinds, revision: 1..revision']
  <2>1. n \in 1..MaxChallenges /\ kind \in RelationshipKinds /\ revision + 1 \in 1..revision'
    BY <1>3, <1>6, <1>7, JudgedAsTold DEF Verdicts
  <2>2. bearing \subseteq ClaimIds
    BY <1>4, BearsOn
  <2> HIDE DEF n, kind, bearing
  <2> QED BY <2>1, <2>2 DEF Relationship
<1>12. DataOK'
  <2>1. counters' \in [1..MaxChallenges -> {"supported", "rejected", None}]
    BY <1>0, <1>2 DEF DataOK
  <2>2. relationships' = relationships \cup made
    BY <1>2
  <2>3. relationships' \subseteq [challenge: 1..MaxChallenges, target: ClaimIds,
                                  kind: RelationshipKinds, revision: 1..revision']
    BY <1>6, <1>11, <2>2
  <2> HIDE DEF n, made, protocol
  <2> QED BY <1>0, <1>1, <1>6, <1>8, <1>10, <2>1, <2>3 DEF DataOK
<1>13. Resolved' = Resolved \cup {n} /\ \A m \in Resolved : m # n /\ challenges'[m] = challenges[m]
  <2> HIDE DEF n
  <2> QED BY <1>3, <1>8 DEF Resolved
<1>14. Dated'
  <2>1. \A m \in Resolved : challenges[m].revision \in 1..revision'
    BY <1>0, <1>6, <1>7 DEF LedgerOK, Dated
  <2>2. revision + 1 \in 1..revision'
    BY <1>6, <1>7
  <2> HIDE DEF n
  <2> QED BY <1>0, <1>8, <1>13, <2>1, <2>2 DEF LedgerOK, Dated
<1>15. VerdictStands'
  <2> SUFFICES ASSUME NEW c \in ClaimIds, claims'[c] # None
               PROVE  LET judging == {x \in relationships' : x.target = c /\ x.kind # "narrows"} IN
                      \/ judging = {} /\ claims'[c] = Fresh
                      \/ \E x \in judging :
                           /\ \A y \in judging : y.revision <= x.revision
                           /\ claims'[c] = ClaimStatusAfter(x.kind)
    BY DEF VerdictStands
  <2> DEFINE before == {x \in relationships : x.target = c /\ x.kind # "narrows"}
             after == {x \in relationships' : x.target = c /\ x.kind # "narrows"}
  <2>1. VerdictStands
    BY <1>0 DEF LedgerOK
  <2>2. \A x \in made : x.target \in bearing /\ x.kind = kind /\ x.revision = revision + 1
    BY DEF Relationship
  <2>3. relationships' = relationships \cup made
    BY <1>2
  <2>4. \A x \in relationships : x.revision \in 1..revision /\ claims[x.target] # None
    BY <1>0, SaidOfRows
  <2>5. ASSUME after = before, claims[c] # None, claims'[c] = claims[c]
        PROVE  \/ after = {} /\ claims'[c] = Fresh
               \/ \E x \in after :
                    /\ \A y \in after : y.revision <= x.revision
                    /\ claims'[c] = ClaimStatusAfter(x.kind)
    <3> HIDE DEF after
    <3> QED BY <2>1, <2>5 DEF VerdictStands
  <2>6. CASE c \notin bearing
    <3>1. after = before
      BY <2>2, <2>3, <2>6
    <3>2. claims'[c] = claims[c]
      BY <1>10, <2>6
    <3> QED BY <2>5, <3>1, <3>2
  <2>7. CASE c \in bearing /\ kind = "narrows"
    <3>1. after = before
      BY <2>2, <2>3, <2>7
    <3>2. claims'[c] = Ensured(c)
      BY <1>2, <1>9, <2>7, JudgedAsTold
    <3>3. CASE claims[c] = None
      <4>1. before = {}
        BY <2>4, <3>3
      <4> QED BY <3>1, <3>2, <3>3, <4>1 DEF Ensured
    <3>4. CASE claims[c] # None
      BY <2>5, <3>1, <3>2, <3>4 DEF Ensured
    <3> QED BY <3>3, <3>4
  <2>8. CASE c \in bearing /\ kind # "narrows"
    <3>1. claims'[c] = ClaimStatusAfter(kind)
      BY <1>2, <1>9, <2>8, JudgedAsTold
    <3> DEFINE x == Relationship(n, c, kind)
    <3>2. x \in after /\ x.kind = kind /\ x.revision = revision + 1
      BY <2>3, <2>8 DEF Relationship
    <3>3. \A y \in after : y.revision <= revision + 1
      BY <1>7, <2>2, <2>3, <2>4
    <3>4. \E z \in after : /\ \A y \in after : y.revision <= z.revision
                           /\ claims'[c] = ClaimStatusAfter(z.kind)
      <4> HIDE DEF x, after, kind
      <4> QED BY <3>1, <3>2, <3>3
    <3> QED BY <3>4
  <2> QED BY <2>6, <2>7, <2>8
<1>16. WholeReceiptJudged'
  <2>1. WholeReceiptJudged
    BY <1>0 DEF LedgerOK
  <2>2. \A x \in made : x.challenge = n /\ x.target \in bearing /\ x.kind = kind /\ x.revision = revision + 1
    <3> HIDE DEF n, bearing, kind
    <3> QED BY DEF Relationship
  <2>3. \A c \in bearing : \E x \in made : x.target = c
    <3>1. \A c \in bearing : Relationship(n, c, kind) \in made
      OBVIOUS
    <3>2. \A c \in bearing : Relationship(n, c, kind).target = c
      BY DEF Relationship
    <3> HIDE DEF made, bearing, kind, n
    <3> QED BY <3>1, <3>2
  <2>4. relationships' = relationships \cup made
    BY <1>2
  <2>5. \A x \in relationships : x.target \in ClaimIds /\ claims[x.target] # None /\ x.challenge # n
    <3> HIDE DEF n
    <3> QED BY <1>0, <1>3, SaidOfRows
  <2>6. \A x \in relationships' : claims'[x.target] # None
    BY <1>10, <2>2, <2>4, <2>5
  <2>7. counters'[n] # None /\ \A m \in 1..MaxChallenges \ {n} : counters'[m] = counters[m]
    <3>1. n \in 1..MaxChallenges /\ counters \in [1..MaxChallenges -> {"supported", "rejected", None}]
      BY <1>0, <1>3, <1>7 DEF DataOK
    <3> HIDE DEF n
    <3> QED BY <1>2, <3>1
  <2>8. \A c \in ClaimIds : c \in bearing <=> target.id = (IF target.kind = "claim" THEN c ELSE c[1])
    <3> HIDE DEF target
    <3> QED BY <1>4, BearsOn
  <2> DEFINE Of(m) == {x \in relationships' : x.challenge = m}
             Judged(m) == /\ \A c \in ClaimIds :
                               (\E x \in Of(m) : x.target = c)
                                 <=> challenges'[m].target.id =
                                       (IF challenges'[m].target.kind = "claim" THEN c ELSE c[1])
                          /\ \A x \in Of(m) : /\ claims'[x.target] # None
                                              /\ x.revision = challenges'[m].revision
                                              /\ x.kind = ResolutionRelationship(challenges'[m].resolution)
                          /\ counters'[m] # None
  <2> SUFFICES ASSUME NEW m \in 1..MaxChallenges
               PROVE  IF m \in Resolved' THEN Judged(m) ELSE Of(m) = {} /\ counters'[m] = None
    BY DEF WholeReceiptJudged
  <2> DEFINE of == Of(m)
  <2>9. CASE m = n
    <3>1. of = made
      BY <2>2, <2>4, <2>5, <2>9
    <3>2. \A c \in ClaimIds : (\E x \in of : x.target = c)
                                <=> target.id = (IF target.kind = "claim" THEN c ELSE c[1])
      <4> HIDE DEF made, bearing, target, of
      <4> QED BY <2>2, <2>3, <2>8, <3>1
    <3>3. \A x \in of : claims'[x.target] # None /\ x.revision = revision + 1
                        /\ x.kind = ResolutionRelationship(res)
      <4> HIDE DEF made
      <4> QED BY <2>2, <2>6, <3>1
    <3>4. n \in Resolved'
      BY <1>13
    <3>5. Judged(n)
      <4>1. Of(n) = of
        BY <2>9
      <4> HIDE DEF of, Of, target, n
      <4> QED BY <1>8, <2>7, <3>2, <3>3, <4>1
    <3> HIDE DEF Judged, n
    <3> QED BY <2>9, <3>4, <3>5
  <2>10. CASE m # n
    <3>1. of = {x \in relationships : x.challenge = m}
      BY <2>2, <2>4, <2>10
    <3>2. m \in Resolved' <=> m \in Resolved
      <4> HIDE DEF n
      <4> QED BY <1>13, <2>10
    <3>3. m \in Resolved => challenges'[m] = challenges[m]
      <4> HIDE DEF n
      <4> QED BY <1>13
    <3>4. counters'[m] = counters[m]
      <4> HIDE DEF n
      <4> QED BY <2>7, <2>10
    <3>5. \A x \in of : claims'[x.target] # None
      BY <2>6
    <3>6. ASSUME m \in Resolved PROVE Judged(m)
      <4>1. \A c \in ClaimIds :
               (\E x \in of : x.target = c)
                 <=> challenges[m].target.id = (IF challenges[m].target.kind = "claim" THEN c ELSE c[1])
        BY <2>1, <3>1, <3>6 DEF WholeReceiptJudged
      <4>2. /\ \A x \in of : /\ x.revision = challenges[m].revision
                             /\ x.kind = ResolutionRelationship(challenges[m].resolution)
            /\ counters[m] # None
        BY <2>1, <3>1, <3>6 DEF WholeReceiptJudged
      <4> HIDE DEF Of
      <4> QED BY <3>3, <3>4, <3>5, <3>6, <4>1, <4>2
    <3>7. ASSUME m \notin Resolved PROVE of = {} /\ counters'[m] = None
      BY <2>1, <3>1, <3>4, <3>7 DEF WholeReceiptJudged
    <3> HIDE DEF Judged, Of
    <3> QED BY <3>2, <3>6, <3>7
  <2> QED BY <2>9, <2>10
<1>17. OneRevisionPerResolution'
  <2>1. OneRevisionPerResolution /\ Dated
    BY <1>0 DEF LedgerOK
  <2>2. \A m \in Resolved : /\ challenges'[m] = challenges[m] /\ challenges[m].revision \in 1..revision
                            /\ revlog'[challenges[m].revision] = revlog[challenges[m].revision]
    BY <1>6, <1>13, <2>1 DEF Dated
  <2> DEFINE Rev(m) == challenges'[m].revision
  <2>3. \A m \in Resolved' :
          revlog'[Rev(m)] = [protocol |-> ProtocolOf[ReceiptOfTarget(challenges'[m].target)],
                             kind |-> "challenge"]
    <3> HIDE DEF n
    <3> QED BY <1>6, <1>8, <1>13, <2>1, <2>2 DEF OneRevisionPerResolution
  <2>4. \A m, l \in Resolved' : Rev(m) = Rev(l) => m = l
    <3>1. Rev(n) = revision + 1 /\ \A m \in Resolved : Rev(m) = challenges[m].revision /\ Rev(m) # Rev(n)
      <4> HIDE DEF n
      <4> QED BY <1>7, <1>8, <2>2
    <3> HIDE DEF n, Rev
    <3> QED BY <1>13, <2>1, <3>1 DEF OneRevisionPerResolution
  <2>5. Cardinality({i \in DOMAIN revlog' : revlog'[i].kind = "challenge"}) = Cardinality(Resolved')
    <3> DEFINE L == {i \in DOMAIN revlog : revlog[i].kind = "challenge"}
               M == {i \in DOMAIN revlog' : revlog'[i].kind = "challenge"}
    <3>1. M = L \cup {revision + 1} /\ revision + 1 \notin L
      <4>1. DOMAIN revlog' = DOMAIN revlog \cup {revision + 1} /\ revision + 1 \notin DOMAIN revlog
        BY <1>6, <1>7
      <4> HIDE DEF protocol
      <4> QED BY <1>6, <1>7, <4>1
    <3>2. IsFiniteSet(L)
      <4>1. IsFiniteSet(DOMAIN revlog)
        BY <1>7, FS_Interval
      <4> QED BY <4>1, FS_Subset
    <3>3. IsFiniteSet(Resolved)
      BY <1>0, Rows, FS_Subset DEF Resolved
    <3>4. Cardinality(L) = Cardinality(Resolved)
      BY <2>1 DEF OneRevisionPerResolution
    <3>5. Cardinality(M) = Cardinality(L) + 1
      BY <3>1, <3>2, FS_AddElement
    <3>6. Cardinality(Resolved') = Cardinality(Resolved) + 1
      <4> HIDE DEF n
      <4> QED BY <1>3, <1>13, <3>3, FS_AddElement
    <3> QED BY <3>4, <3>5, <3>6
  <2> HIDE DEF n
  <2> QED BY <2>3, <2>4, <2>5 DEF OneRevisionPerResolution
<1>18. longestWait' >= longestWait /\ clock' = clock
  BY <1>0, <1>1 DEF DataOK
<1>19. \A m \in DOMAIN challenges :
         challenges'[m].org = challenges[m].org /\ challenges'[m].filed = challenges[m].filed
  <2> HIDE DEF n
  <2> QED BY <1>8
<1>20. RollingCountUpToWait'
  BY <1>0, <1>8, <1>12, <1>18, <1>19, RollingSame
<1>21. RequestsOK'
  <2>1. ASSUME NEW t \in Sessions \ {s} PROVE KeepsFor(t)
    <3>1. pc[t] # "resolve_commit"
      BY <1>0, <1>3 DEF RequestsOK, SessionOK, Holds
    <3> QED BY <1>8, <1>19, <3>1 DEF KeepsFor
  <2> QED BY <1>0, <1>1, <1>12, <1>18, <2>1, Ends
<1> HIDE DEF n, target, protocol, bearing, kind, made
<1> QED BY <1>12, <1>14, <1>15, <1>16, <1>17, <1>20, <1>21 DEF IInv, LedgerOK

-----------------------------------------------------------------------------
LEMMA Inductive == IInv /\ [Next]_vars => IInv'
<1> SUFFICES ASSUME IInv, [Next]_vars PROVE IInv'
  OBVIOUS
<1>1. CASE UNCHANGED vars
  <2>1. UNCHANGED <<clock, ledgerVars, challenges, longestWait, predictions, outcomes>>
        /\ UNCHANGED <<lockVars, sessionVars>>
    BY <1>1 DEF vars, filingVars, outcomeVars
  <2>2. LedgerOK /\ DataOK /\ RequestsOK /\ RollingCountUpToWait
    BY DEF IInv, LedgerOK
  <2>3. DataOK'
    BY <2>1, <2>2 DEF DataOK, ledgerVars
  <2>4. clock' >= clock /\ longestWait' >= longestWait
    BY <2>1, <2>2, LedgerAssumption DEF DataOK
  <2>5. \A t \in Sessions : KeepsFor(t)
    BY <2>1 DEF KeepsFor, IsResolved
  <2> QED BY <2>1, <2>2, <2>3, <2>4, <2>5, AllKeep, LedgerSame, RollingSame DEF IInv
<1>2. CASE \E s \in Sessions : ResolveCommit(s)
  BY <1>2, ResolveCommitOK
<1>3. CASE \E s \in Sessions : FileCommit(s)
  BY <1>3, FileCommitOK
<1>4. CASE \E s \in Sessions :
             \/ FileStart(s) \/ FileLock(s) \/ FileRefused(s) \/ FileInsert(s)
             \/ ResolveStart(s) \/ ResolveLock(s) \/ ResolveRead(s) \/ ResolveRefused(s)
             \/ ObserveStart(s) \/ ObserveRefused(s) \/ ObserveLock(s)
             \/ ObserveCheck(s) \/ ObserveCommit(s) \/ Fail(s)
  BY <1>4, QuietStep
<1>5. CASE \E n \in DOMAIN challenges : Acknowledge(n)
  BY <1>5, AcknowledgeOK
<1>6. CASE \E r \in Receipts : Answer(r)
  BY <1>6, AnswerOK
<1>7. CASE \E p \in Predictions : Register(p)
  BY <1>7, RegisterOK
<1>8. CASE \E p \in Protocols : EvidenceMoves(p)
  BY <1>8, EvidenceMovesOK
<1>9. CASE Tick
  BY <1>9, TickOK
<1> QED BY <1>1, <1>2, <1>3, <1>4, <1>5, <1>6, <1>7, <1>8, <1>9 DEF Next

\* What a request reads under a lock is still true when it writes, whatever locks,
\* commits, failures, intake and time come in between.
THEOREM LedgerInvariant == Spec => []IInv
  BY InitOK, Inductive, PTL DEF Spec

\* The rows of the ledger and the requests in flight keep their types, and no
\* request that has ended or has not begun holds a lock.
THEOREM LedgerTyped == Spec => []TypeOK
  BY LedgerInvariant, Typed, PTL

\* A claim reads as the latest resolution that judged it left it (resolveChallenge,
\* ensureClaimsForReceipt), for any number of operators, answers and receipts.
THEOREM VerdictsStand == Spec => []VerdictStands
<1>1. IInv => VerdictStands
  BY DEF IInv, LedgerOK
<1> QED BY <1>1, LedgerInvariant, PTL

\* A resolved challenge judges every finding of its receipt, once and in one sense;
\* an open one shows nowhere.
THEOREM ReceiptsJudgedWhole == Spec => []WholeReceiptJudged
<1>1. IInv => WholeReceiptJudged
  BY DEF IInv, LedgerOK
<1> QED BY <1>1, LedgerInvariant, PTL

\* The revision lock held from the read to the commit: one revision for each
\* resolved challenge, whatever intake and other operators do in between.
THEOREM OneRevisionEach == Spec => []OneRevisionPerResolution
<1>1. IInv => OneRevisionPerResolution
  BY DEF IInv, LedgerOK
<1> QED BY <1>1, LedgerInvariant, PTL

\* The advisory lock held from the count to the insert: no window, less the longest
\* wait for the lock, holds more filings of an organization than the limit.
THEOREM FilingsAreBounded == Spec => []RollingCountUpToWait
<1>1. IInv => RollingCountUpToWait
  BY DEF IInv
<1> QED BY <1>1, LedgerInvariant, PTL
=============================================================================
