--------------------------- MODULE DataKeysProofs ---------------------------
(***************************************************************************)
(* No stored body is ever lost to a key, for every number of processes,    *)
(* requests, organizations, clients and restarts.  What a request holds    *)
(* between the statement that fetched its key and the commit is the point: *)
(* the row cannot change under it, because an INSERT that comes late finds *)
(* the row taken.                                                          *)
(***************************************************************************)
EXTENDS DataKeys, TLAPS

Serving == Asking \cup {"have"}

\* A request that has its transaction holds a client for it.
HoldsClient == \A s \in Sessions : pc[s] = "lock" => s \in client

\* A request that goes on with a key goes on with the stored one.
FetchedIsStored ==
  \A s \in Sessions : pc[s] \in {"keep", "have"} =>
    fetched[s] # None /\ fetched[s] = orgKeys[OrgOf[s]]

\* A request without a transaction opens a body that is stored.
ReadsABody ==
  \A s \in Sessions : pc[s] \in Serving /\ s \notin client =>
    reading[s] \in bodies /\ reading[s].org = OrgOf[s]

KInv ==
  /\ TypeOK /\ EveryBodyOpens /\ CachesAgree
  /\ HoldsClient /\ FetchedIsStored /\ ReadsABody

\* A key that is stored stays.
Kept == \A o \in Orgs : orgKeys[o] # None => orgKeys'[o] = orgKeys[o]

-----------------------------------------------------------------------------
\* Nothing is stored, cached or asked for at the start.
LEMMA InitKInv == Init => KInv
  BY KeysAssumption
  DEF Init, KInv, TypeOK, EveryBodyOpens, CachesAgree, HoldsClient, FetchedIsStored, ReadsABody,
      KeyOrNone, Keys, Body, PCs, Asking, Over, Serving

\* The row never changes once it is there: InsertKey and LateInsert alike.
LEMMA KeysAreKept == TypeOK /\ [Next]_vars => Kept
<1>. SUFFICES ASSUME TypeOK, [Next]_vars PROVE Kept
  OBVIOUS
<1>1. ASSUME NEW s \in Sessions, InsertKey(s) \/ LateInsert(s) PROVE Kept
  BY <1>1 DEF InsertKey, LateInsert, AfterInsert, Kept, TypeOK
<1>2. CASE UNCHANGED orgKeys
  BY <1>2 DEF Kept
<1>. QED
  BY <1>1, <1>2
  DEF Next, vars, Proceed, Submit, Connect, LockRevision, Read, CacheHit, CacheMiss, Load, Reload,
      Keep, SealAndCommit, Open, Fail, Restart

-----------------------------------------------------------------------------
\* Types, and the clients that requests hold.
LEMMA StepTypes == KInv /\ [Next]_vars => TypeOK' /\ HoldsClient'
<1>. SUFFICES ASSUME KInv, [Next]_vars PROVE TypeOK' /\ HoldsClient'
  OBVIOUS
<1>. USE KeysAssumption DEF KInv, TypeOK, HoldsClient, KeyOrNone, Keys, PCs, Asking, Over, Go
<1>1. ASSUME NEW s \in Sessions, Submit(s) PROVE TypeOK' /\ HoldsClient'
  BY <1>1 DEF Submit
<1>2. ASSUME NEW s \in Sessions, Connect(s) PROVE TypeOK' /\ HoldsClient'
  BY <1>2 DEF Connect
<1>3. ASSUME NEW s \in Sessions, LockRevision(s) PROVE TypeOK' /\ HoldsClient'
  BY <1>3 DEF LockRevision
<1>4. ASSUME NEW s \in Sessions, Read(s) PROVE TypeOK' /\ HoldsClient'
  BY <1>4 DEF Read
<1>5. ASSUME NEW s \in Sessions, CacheHit(s) \/ CacheMiss(s) PROVE TypeOK' /\ HoldsClient'
  <2>1. CachedKey(s) \in KeyOrNone
    BY DEF CachedKey
  <2>2. CASE CacheHit(s)
    BY <2>1, <2>2 DEF CacheHit
  <2>3. CASE CacheMiss(s)
    BY <2>3 DEF CacheMiss
  <2>. QED
    BY <1>5, <2>2, <2>3
<1>6. ASSUME NEW s \in Sessions, Load(s) PROVE TypeOK' /\ HoldsClient'
  BY <1>6 DEF Load
<1>7. ASSUME NEW s \in Sessions, InsertKey(s) \/ LateInsert(s) PROVE TypeOK' /\ HoldsClient'
  <2>1. AfterInsert(OrgOf[s], s) \in KeyOrNone
    BY DEF AfterInsert
  <2>2. CASE InsertKey(s)
    BY <2>1, <2>2 DEF InsertKey
  <2>3. CASE LateInsert(s)
    BY <2>1, <2>3 DEF LateInsert
  <2>. QED
    BY <1>7, <2>2, <2>3
<1>8. ASSUME NEW s \in Sessions, Reload(s) PROVE TypeOK' /\ HoldsClient'
  BY <1>8 DEF Reload, Reread, EndTransaction
<1>9. ASSUME NEW s \in Sessions, Keep(s) PROVE TypeOK' /\ HoldsClient'
  BY <1>9 DEF Keep
<1>10. ASSUME NEW s \in Sessions, SealAndCommit(s) PROVE TypeOK' /\ HoldsClient'
  BY <1>10 DEF SealAndCommit, EndTransaction, Body, FetchedIsStored
<1>11. ASSUME NEW s \in Sessions, Open(s) PROVE TypeOK' /\ HoldsClient'
  BY <1>11 DEF Open
<1>12. ASSUME NEW s \in Sessions, Fail(s) PROVE TypeOK' /\ HoldsClient'
  BY <1>12 DEF Fail, EndTransaction
<1>13. ASSUME NEW p \in Procs, Restart(p) PROVE TypeOK' /\ HoldsClient'
  BY <1>13 DEF Restart
<1>14. CASE UNCHANGED vars
  BY <1>14 DEF vars
<1>. QED
  BY <1>1, <1>2, <1>3, <1>4, <1>5, <1>6, <1>7, <1>8, <1>9, <1>10, <1>11, <1>12, <1>13, <1>14
  DEF Next, Proceed

-----------------------------------------------------------------------------
\* Fetched keys and cached keys are the stored one, and stay so.
LEMMA StepKeys == KInv /\ [Next]_vars => FetchedIsStored' /\ CachesAgree'
<1>. SUFFICES ASSUME KInv, [Next]_vars PROVE FetchedIsStored' /\ CachesAgree'
  OBVIOUS
<1>1. Kept
  BY KeysAreKept DEF KInv
<1>2. ASSUME UNCHANGED <<cache, fetched>>,
             \A s \in Sessions : pc'[s] \in {"keep", "have"} => pc[s] \in {"keep", "have"}
      PROVE  FetchedIsStored' /\ CachesAgree'
  BY <1>1, <1>2, KeysAssumption DEF KInv, FetchedIsStored, CachesAgree, Kept
<1>. USE KeysAssumption DEF KInv, TypeOK, KeyOrNone, Keys, Go
<1>3. ASSUME NEW s \in Sessions, CacheHit(s) PROVE FetchedIsStored' /\ CachesAgree'
  BY <1>3 DEF CacheHit, CachedKey, FetchedIsStored, CachesAgree
<1>4. ASSUME NEW s \in Sessions, Load(s) PROVE FetchedIsStored' /\ CachesAgree'
  BY <1>4 DEF Load, FetchedIsStored, CachesAgree
<1>5. ASSUME NEW s \in Sessions, InsertKey(s) PROVE FetchedIsStored' /\ CachesAgree'
  BY <1>5, <1>1 DEF InsertKey, FetchedIsStored, CachesAgree, Kept
<1>6. ASSUME NEW s \in Sessions, Reload(s) PROVE FetchedIsStored' /\ CachesAgree'
  BY <1>6 DEF Reload, Reread, FetchedIsStored, CachesAgree
<1>7. ASSUME NEW s \in Sessions, Keep(s) PROVE FetchedIsStored' /\ CachesAgree'
  BY <1>7 DEF Keep, FetchedIsStored, CachesAgree
<1>8. ASSUME NEW p \in Procs, Restart(p) PROVE FetchedIsStored' /\ CachesAgree'
  BY <1>8 DEF Restart, FetchedIsStored, CachesAgree
<1>9. ASSUME NEW s \in Sessions,
             \/ Submit(s) \/ Connect(s) \/ LockRevision(s) \/ Read(s) \/ CacheMiss(s)
             \/ SealAndCommit(s) \/ Open(s) \/ Fail(s) \/ LateInsert(s)
      PROVE  FetchedIsStored' /\ CachesAgree'
  BY <1>2, <1>9
  DEF Submit, Connect, LockRevision, Read, CacheMiss, SealAndCommit, Open, Fail, LateInsert
<1>10. CASE UNCHANGED vars
  BY <1>2, <1>10 DEF vars
<1>. QED
  BY <1>3, <1>4, <1>5, <1>6, <1>7, <1>8, <1>9, <1>10 DEF Next, Proceed

\* Stored bodies open, and requests that read have a stored body before them.
LEMMA StepBodies == KInv /\ [Next]_vars => EveryBodyOpens' /\ ReadsABody'
<1>. SUFFICES ASSUME KInv, [Next]_vars PROVE EveryBodyOpens' /\ ReadsABody'
  OBVIOUS
<1>1. Kept
  BY KeysAreKept DEF KInv
<1>2. \A b \in bodies : orgKeys'[b.org] = b.key
  <2>1. \A b \in bodies : b.org \in Orgs /\ b.key \in Sessions
    BY DEF KInv, TypeOK, Body, Keys
  <2>. QED
    BY <1>1, <2>1, KeysAssumption DEF KInv, EveryBodyOpens, Kept
<1>3. ASSUME bodies' = bodies,
             \A s \in Sessions : pc'[s] # "unreadable" \/ pc[s] = "unreadable",
             \A s \in Sessions : pc'[s] \in Serving /\ s \notin client' =>
               pc[s] \in Serving /\ s \notin client /\ reading'[s] = reading[s]
      PROVE  EveryBodyOpens' /\ ReadsABody'
  BY <1>2, <1>3 DEF KInv, EveryBodyOpens, ReadsABody
<1>. USE KeysAssumption DEF KInv, TypeOK, Go, Serving, Asking
<1>4. ASSUME NEW s \in Sessions, LockRevision(s) PROVE EveryBodyOpens' /\ ReadsABody'
  BY <1>3, <1>4 DEF LockRevision, HoldsClient
<1>5. ASSUME NEW s \in Sessions, Read(s) PROVE EveryBodyOpens' /\ ReadsABody'
  BY <1>2, <1>5 DEF Read, EveryBodyOpens, ReadsABody
<1>6. ASSUME NEW s \in Sessions, SealAndCommit(s) PROVE EveryBodyOpens' /\ ReadsABody'
  <2>1. \A b \in bodies' : orgKeys'[b.org] = b.key
    BY <1>2, <1>6 DEF SealAndCommit, FetchedIsStored
  <2>. QED
    BY <2>1, <1>6 DEF SealAndCommit, EndTransaction, EveryBodyOpens, ReadsABody
<1>7. ASSUME NEW s \in Sessions, Open(s) PROVE EveryBodyOpens' /\ ReadsABody'
  <2>1. reading[s] \in bodies /\ reading[s].org = OrgOf[s]
    BY <1>7 DEF Open, ReadsABody
  <2>2. reading[s].key = fetched[s]
    BY <1>7, <2>1 DEF Open, EveryBodyOpens, FetchedIsStored
  <2>. QED
    BY <1>3, <1>7, <2>2 DEF Open
<1>8. ASSUME NEW s \in Sessions,
             \/ Submit(s) \/ Connect(s) \/ CacheHit(s) \/ CacheMiss(s) \/ Load(s)
             \/ InsertKey(s) \/ Keep(s) \/ LateInsert(s)
      PROVE  EveryBodyOpens' /\ ReadsABody'
  BY <1>3, <1>8 DEF Submit, Connect, CacheHit, CacheMiss, Load, InsertKey, Keep, LateInsert
<1>9. ASSUME NEW s \in Sessions, Reload(s) \/ Fail(s) PROVE EveryBodyOpens' /\ ReadsABody'
  BY <1>3, <1>9 DEF Reload, Fail, EndTransaction
<1>10. ASSUME NEW p \in Procs, Restart(p) PROVE EveryBodyOpens' /\ ReadsABody'
  BY <1>3, <1>10 DEF Restart, Over
<1>11. CASE UNCHANGED vars
  BY <1>3, <1>11 DEF vars
<1>. QED
  BY <1>4, <1>5, <1>6, <1>7, <1>8, <1>9, <1>10, <1>11 DEF Next, Proceed

\* The three together.
LEMMA NextKInv == KInv /\ [Next]_vars => KInv'
  BY StepTypes, StepKeys, StepBodies DEF KInv

\* crypto/index.ts: whatever races, fails or restarts, every stored body opens
\* with its organization's key, and no process caches another.
THEOREM BodiesOpen == Spec => [](TypeOK /\ EveryBodyOpens /\ CachesAgree)
<1>1. KInv => TypeOK /\ EveryBodyOpens /\ CachesAgree
  BY DEF KInv
<1>. QED
  BY <1>1, InitKInv, NextKInv, PTL DEF Spec

\* The rule the rest stands on: an organization's key, once stored, is for ever.
THEOREM KeyIsForever ==
  Spec => [][\A o \in Orgs : orgKeys[o] # None => orgKeys'[o] = orgKeys[o]]_vars
<1>1. KInv /\ [Next]_vars => [\A o \in Orgs : orgKeys[o] # None => orgKeys'[o] = orgKeys[o]]_vars
  BY KeysAreKept DEF KInv, Kept
<1>. QED
  BY <1>1, InitKInv, NextKInv, PTL DEF Spec
=============================================================================
