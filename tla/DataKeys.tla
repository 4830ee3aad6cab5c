------------------------------ MODULE DataKeys ------------------------------
(***************************************************************************)
(* Per-organization data keys and the connection pool they are fetched     *)
(* through (modules/crypto/index.ts, db.ts).  Every process of the service *)
(* holds an Envelope, a cache of unwrapped data keys over                  *)
(* identity.org_keys, and one pool of PoolMax database clients.  A         *)
(* submission seals its run inside a transaction (intake's storeRun), so   *)
(* it asks for a data key while it holds a pool client and the lock on     *)
(* evidence.revision; a read opens a stored body with no client of its own.*)
(*                                                                         *)
(* Keys are abstract: a fresh random key is named by the session that      *)
(* minted it.  AES-GCM is modelled by what it promises: a body opens with  *)
(* the key that sealed it and with no other.  A statement sent through the *)
(* pool takes a client for that statement alone and so needs a free one.   *)
(***************************************************************************)
EXTENDS FiniteSets, Naturals

CONSTANTS
  Procs,          \* service and worker processes, each with a pool and a cache
  Sessions,       \* requests in flight
  Orgs,           \* organizations
  ProcOf,         \* [Sessions -> Procs]: the process that serves the request
  OrgOf,          \* [Sessions -> Orgs]: the organization it is made for
  PoolMax,        \* clients in a process's pool (createPool: max 10)
  MaxRestarts,    \* bound on process restarts
  None            \* no key, no holder

ASSUME KeysAssumption ==
  /\ ProcOf \in [Sessions -> Procs]
  /\ OrgOf \in [Sessions -> Orgs]
  /\ PoolMax \in Nat \ {0}
  /\ MaxRestarts \in Nat
  /\ None \notin Sessions

VARIABLES
  orgKeys,        \* identity.org_keys: org -> the key stored wrapped, or None
  cache,          \* Envelope.cache of each process: org -> key, or None
  bodies,         \* evidence.runs bodies: [by, org, key], by the storing session
  pc,             \* where each request stands
  client,         \* the sessions that hold a pool client for a transaction
  revLock,        \* the session that holds the evidence.revision row, or None
  fetched,        \* what the request's last load of the data key returned
  reading,        \* the body a read is about to open
  late,           \* the requests that are over, their INSERT of a key still on its way
  restarts

vars == <<orgKeys, cache, bodies, pc, client, revLock, fetched, reading, late, restarts>>

Keys == Sessions            \* a minted key is named by the session that minted it
KeyOrNone == Keys \cup {None}
Body == [by: Sessions, org: Orgs, key: Keys]

\* Where a request asks for its data key (Envelope.dataKey)
Asking == {"cached?", "load", "insert", "reload", "keep"}
Over == {"done", "failed", "unreadable"}
PCs == {"new", "connect", "lock", "write"} \cup Asking \cup {"have"} \cup Over

Init ==
  /\ orgKeys = [o \in Orgs |-> None]
  /\ cache = [p \in Procs |-> [o \in Orgs |-> None]]
  /\ bodies = {}
  /\ pc = [s \in Sessions |-> "new"]
  /\ client = {}
  /\ revLock = None
  /\ fetched = [s \in Sessions |-> None]
  /\ reading = [s \in Sessions |-> None]
  /\ late = {}
  /\ restarts = 0

-----------------------------------------------------------------------------
(* The pool and the transaction *)

\* Slip: one client is checked out at start-up and never released.
FreeClientOfOneLess(p) == Cardinality({s \in client : ProcOf[s] = p}) + 1 < PoolMax

FreeClient(p) == Cardinality({s \in client : ProcOf[s] = p}) < PoolMax

Go(s, next) == pc' = [pc EXCEPT ![s] = next]

\* What ends with a transaction: its client returns to the pool and its locks
\* are released, whether it commits or rolls back.
EndTransaction(s) ==
  /\ client' = client \ {s}
  /\ revLock' = IF revLock = s THEN None ELSE revLock

\* POST /v1/runs reaches storeRun.
Submit(s) ==
  /\ pc[s] = "new"
  /\ Go(s, "connect")
  /\ UNCHANGED <<orgKeys, cache, bodies, client, revLock, fetched, reading, late, restarts>>

\* pool.connect, BEGIN: waits, without a time limit, for a free client.
Connect(s) ==
  /\ pc[s] = "connect"
  /\ FreeClient(ProcOf[s])
  /\ client' = client \cup {s}
  /\ Go(s, "lock")
  /\ UNCHANGED <<orgKeys, cache, bodies, revLock, fetched, reading, late, restarts>>

\* SELECT revision ... FOR UPDATE, and the statements up to the sealing.
LockRevision(s) ==
  /\ pc[s] = "lock"
  /\ revLock = None
  /\ revLock' = s
  /\ Go(s, "cached?")
  /\ UNCHANGED <<orgKeys, cache, bodies, client, fetched, reading, late, restarts>>

\* GET /v1/runs/:id of the organization: one statement of the pool returns the
\* sealed body and its key_id.
Read(s) ==
  /\ pc[s] = "new"
  /\ FreeClient(ProcOf[s])
  /\ \E b \in bodies :
       /\ b.org = OrgOf[s]
       /\ reading' = [reading EXCEPT ![s] = b]
  /\ Go(s, "cached?")
  /\ UNCHANGED <<orgKeys, cache, bodies, client, revLock, fetched, late, restarts>>

-----------------------------------------------------------------------------
(* Envelope.dataKey, one action per await *)

CachedKey(s) == cache[ProcOf[s]][OrgOf[s]]

CacheHit(s) ==
  /\ pc[s] = "cached?"
  /\ CachedKey(s) # None
  /\ fetched' = [fetched EXCEPT ![s] = CachedKey(s)]
  /\ Go(s, "have")
  /\ UNCHANGED <<orgKeys, cache, bodies, client, revLock, reading, late, restarts>>

CacheMiss(s) ==
  /\ pc[s] = "cached?"
  /\ CachedKey(s) = None
  /\ Go(s, "load")
  /\ UNCHANGED <<orgKeys, cache, bodies, client, revLock, fetched, reading, late, restarts>>

\* load(this.pool, org): a second client, even when the caller holds one.
Load(s) ==
  /\ pc[s] = "load"
  /\ FreeClient(ProcOf[s])
  /\ fetched' = [fetched EXCEPT ![s] = orgKeys[OrgOf[s]]]
  /\ Go(s, IF orgKeys[OrgOf[s]] = None THEN "insert" ELSE "keep")
  /\ UNCHANGED <<orgKeys, cache, bodies, client, revLock, reading, late, restarts>>

\* What INSERT ... ON CONFLICT (org_ref) DO NOTHING leaves in the row.
AfterInsert(o, mine) == IF orgKeys[o] = None THEN mine ELSE orgKeys[o]

\* A statement of its own: it commits at once, whatever becomes of the
\* transaction the caller is in.
InsertKey(s) ==
  /\ pc[s] = "insert"
  /\ FreeClient(ProcOf[s])
  /\ orgKeys' = [orgKeys EXCEPT ![OrgOf[s]] = AfterInsert(OrgOf[s], s)]
  /\ fetched' = [fetched EXCEPT ![s] = s]
  /\ Go(s, "reload")
  /\ UNCHANGED <<cache, bodies, client, revLock, reading, late, restarts>>

\* Slip: no second read; the request goes on with the key it minted.
KeepMinted(s) == fetched[s]

\* The key the request goes on with: what the table holds, not what it minted.
Reread(s) == orgKeys[OrgOf[s]]

Reload(s) ==
  /\ pc[s] = "reload"
  /\ FreeClient(ProcOf[s])
  /\ fetched' = [fetched EXCEPT ![s] = Reread(s)]
  /\ Go(s, IF Reread(s) = None THEN "failed" ELSE "keep")
  /\ IF Reread(s) = None
       THEN EndTransaction(s)
       ELSE UNCHANGED <<client, revLock>>
  /\ UNCHANGED <<orgKeys, cache, bodies, reading, late, restarts>>

\* this.cache.set(org, found); return found
Keep(s) ==
  /\ pc[s] = "keep"
  /\ cache' = [cache EXCEPT ![ProcOf[s]][OrgOf[s]] = fetched[s]]
  /\ Go(s, "have")
  /\ UNCHANGED <<orgKeys, bodies, client, revLock, fetched, reading, late, restarts>>

-----------------------------------------------------------------------------
(* seal, open, and the end of the request *)

\* seal: the body is encrypted under the fetched key and inserted with its
\* key_id; the transaction commits.
SealAndCommit(s) ==
  /\ pc[s] = "have"
  /\ s \in client
  /\ bodies' = bodies \cup {[by |-> s, org |-> OrgOf[s], key |-> fetched[s]]}
  /\ EndTransaction(s)
  /\ Go(s, "done")
  /\ UNCHANGED <<orgKeys, cache, fetched, reading, late, restarts>>

\* open: a key_id that is not the organization's key is a CryptoError.
Open(s) ==
  /\ pc[s] = "have"
  /\ s \notin client
  /\ Go(s, IF reading[s].key = fetched[s] THEN "done" ELSE "unreadable")
  /\ UNCHANGED <<orgKeys, cache, bodies, client, revLock, fetched, reading, late, restarts>>

\* A statement of the request fails (lost connection, database error): the
\* transaction rolls back, its client is released, the caller gets a 500.  A
\* key already inserted stays, and an INSERT whose connection was lost after it
\* was sent may still be executed.
Fail(s) ==
  /\ pc[s] \in {"connect", "lock", "load", "insert", "reload", "have"}
  /\ EndTransaction(s)
  /\ Go(s, "failed")
  /\ late' \in {late} \cup IF pc[s] = "insert" THEN {late \cup {s}} ELSE {}
  /\ UNCHANGED <<orgKeys, cache, bodies, fetched, reading, restarts>>

\* The process is restarted: its cache and its requests are gone, the database
\* rolls their transactions back.
Restart(p) ==
  /\ restarts < MaxRestarts
  /\ restarts' = restarts + 1
  /\ cache' = [cache EXCEPT ![p] = [o \in Orgs |-> None]]
  /\ client' = {s \in client : ProcOf[s] # p}
  /\ revLock' = IF revLock # None /\ ProcOf[revLock] = p THEN None ELSE revLock
  /\ pc' = [s \in Sessions |->
              IF ProcOf[s] = p /\ pc[s] \notin Over \cup {"new"} THEN "failed" ELSE pc[s]]
  /\ \E sent \in SUBSET {s \in Sessions : ProcOf[s] = p /\ pc[s] = "insert"} :
       late' = late \cup sent
  /\ UNCHANGED <<orgKeys, bodies, fetched, reading>>

\* The database executes an INSERT whose request is over: the revision lock of
\* that request is free by now, and another one may hold it.
LateInsert(s) ==
  /\ s \in late
  /\ late' = late \ {s}
  /\ orgKeys' = [orgKeys EXCEPT ![OrgOf[s]] = AfterInsert(OrgOf[s], s)]
  /\ UNCHANGED <<cache, bodies, pc, client, revLock, fetched, reading, restarts>>

-----------------------------------------------------------------------------

\* The steps the event loop and the database take by themselves once a request
\* has begun; Submit, Read, Fail, LateInsert and Restart are the environment's.
Proceed(s) ==
  \/ Connect(s) \/ LockRevision(s)
  \/ CacheHit(s) \/ CacheMiss(s) \/ Load(s) \/ InsertKey(s) \/ Reload(s) \/ Keep(s)
  \/ SealAndCommit(s) \/ Open(s)

Next ==
  \/ \E s \in Sessions : Submit(s) \/ Read(s) \/ Proceed(s) \/ Fail(s) \/ LateInsert(s)
  \/ \E p \in Procs : Restart(p)

Spec == Init /\ [][Next]_vars

\* The event loop runs every callback and the database answers every
\* statement it can; the lock and the pool serve their queues in order.
FairSpec == Spec /\ \A s \in Sessions : WF_vars(Proceed(s))

-----------------------------------------------------------------------------
(* Properties *)

\* Type invariant: keys, caches and requests stay within their sets, and only
\* a process that serves the client's transaction holds one.
TypeOK ==
  /\ orgKeys \in [Orgs -> KeyOrNone]
  /\ cache \in [Procs -> [Orgs -> KeyOrNone]]
  /\ bodies \subseteq Body
  /\ pc \in [Sessions -> PCs]
  /\ client \subseteq Sessions
  /\ revLock \in client \cup {None}
  /\ fetched \in [Sessions -> KeyOrNone]
  /\ reading \in [Sessions -> Body \cup {None}]
  /\ late \subseteq Sessions
  /\ restarts \in 0..MaxRestarts

\* Submissions take turns at minting, since they hold the revision lock, but the
\* INSERT of one that died may come in another's turn: whichever requests fail
\* or restart half way, every stored body is sealed under the one key its
\* organization has in org_keys, and no read of it fails.
EveryBodyOpens ==
  /\ \A b \in bodies : orgKeys[b.org] = b.key
  /\ \A s \in Sessions : pc[s] # "unreadable"

\* No process caches a key other than the stored one: what it seals later
\* would be lost at its next restart.
CachesAgree ==
  \A p \in Procs, o \in Orgs : cache[p][o] # None => cache[p][o] = orgKeys[o]

\* Nothing a member asks to be stored waits for ever: a submission that began
\* is answered.  createPool puts no limit on how long a caller waits for a
\* client, so this rests on somebody always being able to go on.
SubmissionsAreAnswered ==
  \A s \in Sessions : pc[s] = "connect" ~> pc[s] \in Over

=============================================================================
