-------------------------- MODULE EnrollmentProofs --------------------------
(***************************************************************************)
(* For every number of organizations, invites and concurrent requests: an  *)
(* organization has at most one open invite, an accepted invite has made   *)
(* exactly one login of its organization and an open one none.  A          *)
(* re-invite decides with now() of its BEGIN and inserts later, so the     *)
(* first invariant says what the row lock keeps true in between: no invite *)
(* of the organization was open then, hence none is open now.              *)
(*                                                                         *)
(* On top of it: one login of an organization lives, agreements are those  *)
(* the forms asked for, and processes that boot together seed one node.    *)
(***************************************************************************)
EXTENDS Enrollment, SequenceTheorems, FiniteSetTheorems, WellFoundedInduction, TLAPS

InviteRow == [org : Nat, kind : {"enroll", "reset"}, expires : Nat, accepted : BOOLEAN]

IsASequence(q) == \E S : q \in Seq(S)

Reinviting == {"reinvite_lock", "reinvite_commit"}

Typed ==
  /\ clock \in Nat
  /\ IsASequence(orgs)
  /\ invites \in Seq(InviteRow)
  /\ \A i \in DOMAIN invites : invites[i].org \in DOMAIN orgs
  /\ pc = [s \in Requests |-> pc[s]]
  /\ req = [s \in Requests |-> req[s]]

\* A re-invite began in the past and works on a row there is.
Begun ==
  \A s \in Requests : pc[s] \in Reinviting =>
    /\ req[s] \in [org : DOMAIN orgs, at : 0..clock, kind : {None, "enroll", "reset"}]
    /\ pc[s] = "reinvite_commit" => req[s].kind \in {"enroll", "reset"}

OneHolder ==
  \A s, t \in Requests :
    pc[s] = "reinvite_commit" /\ pc[t] = "reinvite_commit" /\ req[s].org = req[t].org => s = t

NoneOpen ==
  \A s \in Requests : pc[s] = "reinvite_commit" => ~HasOpenInvite(req[s].org, req[s].at)

OInv == Typed /\ Begun /\ OneHolder /\ NoneOpen /\ OneOpenInvite

\* What no step undoes: organizations stay, invites stay and never reopen.
InvitesOnlyClose ==
  /\ DOMAIN invites' = DOMAIN invites
  /\ \A i \in DOMAIN invites :
       /\ invites'[i].org = invites[i].org /\ invites'[i].expires = invites[i].expires
       /\ invites[i].accepted => invites'[i].accepted

-----------------------------------------------------------------------------
\* There is nothing at the start.
LEMMA InitOInv == Init => OInv
<1>. SUFFICES ASSUME Init PROVE OInv
  OBVIOUS
<1>1. <<>> \in Seq(InviteRow) /\ DOMAIN <<>> = {}
  OBVIOUS
<1>2. IsASequence(orgs)
  BY <1>1 DEF Init, IsASequence
<1>3. Typed
  <2>1. invites \in Seq(InviteRow) /\ \A i \in DOMAIN invites : invites[i].org \in DOMAIN orgs
    BY <1>1 DEF Init
  <2>2. req = [s \in Requests |-> req[s]]
    BY DEF Init
  <2>3. clock \in Nat /\ pc = [s \in Requests |-> pc[s]]
    BY DEF Init
  <2>. QED
    BY <1>2, <2>1, <2>2, <2>3 DEF Typed
<1>4. Begun /\ OneHolder /\ NoneOpen
  BY DEF Init, Begun, OneHolder, NoneOpen, Reinviting
<1>5. OneOpenInvite
  BY <1>1 DEF Init, OneOpenInvite
<1>. QED
  BY <1>3, <1>4, <1>5 DEF OInv

\* The positions of a sequence.
LEMMA Positions ==
  ASSUME NEW q, IsASequence(q)
  PROVE  Len(q) \in Nat /\ DOMAIN q = 1..Len(q)
  BY DEF IsASequence

\* Every invite is a row.
LEMMA InviteTyped == Typed => \A i \in DOMAIN invites : invites[i] \in InviteRow
<1>. SUFFICES ASSUME Typed, NEW i \in DOMAIN invites PROVE invites[i] \in InviteRow
  OBVIOUS
<1>1. invites \in Seq(InviteRow)
  BY DEF Typed
<1>2. i \in 1..Len(invites)
  BY <1>1, LenProperties
<1>. QED
  BY <1>1, <1>2, ElementOfSeq

\* A sequence with an element changed.
LEMMA ChangedSeq ==
  ASSUME NEW q, IsASequence(q), NEW i, NEW v
  PROVE  IsASequence([q EXCEPT ![i] = v]) /\ DOMAIN [q EXCEPT ![i] = v] = DOMAIN q
<1>1. PICK S : q \in Seq(S)
  BY DEF IsASequence
<1> DEFINE c == [q EXCEPT ![i] = v]
<1>2. q \in [1..Len(q) -> S] /\ Len(q) \in Nat
  BY <1>1, LenProperties
<1>3. c \in [1..Len(q) -> S \cup {v}]
  BY <1>2
<1>4. c \in Seq(S \cup {v})
  BY <1>2, <1>3, SeqDef
<1>5. DOMAIN c = DOMAIN q
  BY <1>2, <1>3
<1> HIDE DEF c
<1>. QED
  BY <1>4, <1>5 DEF IsASequence, c

\* A sequence with an element more.
LEMMA LongerSeq ==
  ASSUME NEW q, IsASequence(q), NEW v
  PROVE  /\ IsASequence(Append(q, v))
         /\ DOMAIN Append(q, v) = 1..Len(q) + 1
<1>1. PICK S : q \in Seq(S)
  BY DEF IsASequence
<1>2. q \in Seq(S \cup {v})
  <2>1. q \in [1..Len(q) -> S] /\ Len(q) \in Nat
    BY <1>1, LenProperties
  <2>. QED
    BY <2>1, SeqDef
<1>3. Append(q, v) \in Seq(S \cup {v}) /\ Len(Append(q, v)) = Len(q) + 1
  BY <1>2, AppendProperties
<1>. QED
  BY <1>3 DEF IsASequence

-----------------------------------------------------------------------------
\* A step that brings no invite, and nobody to the point of inserting one,
\* keeps the invariant but for the types.
LEMMA QuietStep ==
  ASSUME OInv, Typed', clock' >= clock,
         DOMAIN orgs \subseteq DOMAIN orgs',
         InvitesOnlyClose,
         \A s \in Requests : pc'[s] \in Reinviting =>
           \/ pc[s] = pc'[s] /\ req'[s] = req[s]
           \/ pc'[s] = "reinvite_lock" /\
              req'[s] \in [org : DOMAIN orgs, at : 0..clock, kind : {None, "enroll", "reset"}]
  PROVE  OInv'
<1>1. Begun'
  BY DEF OInv, Begun, Typed, Reinviting
<1>2. OneHolder'
  BY DEF OInv, OneHolder, Reinviting
<1>3. NoneOpen'
  BY DEF OInv, NoneOpen, Reinviting, InvitesOnlyClose, HasOpenInvite, OpenAt
<1>4. OneOpenInvite'
  <2>1. \A i \in DOMAIN invites : OpenAt(i, clock)' => OpenAt(i, clock)
    <3>1. \A i \in DOMAIN invites : invites[i].expires \in Nat
      BY InviteTyped DEF OInv, InviteRow
    <3>2. clock \in Nat /\ clock' \in Nat
      BY DEF OInv, Typed
    <3>. QED
      BY <3>1, <3>2 DEF InvitesOnlyClose, OpenAt
  <2>. QED
    BY <2>1 DEF OInv, OneOpenInvite, InvitesOnlyClose
<1>. QED
  BY <1>1, <1>2, <1>3, <1>4 DEF OInv

-----------------------------------------------------------------------------
\* A step of one request that leaves the clock and both tables alone.
LEMMA LocalStep ==
  ASSUME OInv, NEW s \in Requests, NEW next, NEW r,
         Go(s, next, r), UNCHANGED <<clock, orgs, invites>>,
         \/ next \notin Reinviting
         \/ next = "reinvite_lock" /\
            r \in [org : DOMAIN orgs, at : 0..clock, kind : {None, "enroll", "reset"}]
  PROVE  OInv'
<1>1. Typed'
  BY DEF OInv, Typed, Go
<1>2. InvitesOnlyClose
  BY DEF InvitesOnlyClose
<1>3. \A t \in Requests : t # s => pc'[t] = pc[t] /\ req'[t] = req[t]
  BY DEF Go, OInv, Typed
<1>4. pc'[s] = next /\ req'[s] = r
  BY DEF Go, OInv, Typed
<1>. QED
  BY <1>1, <1>2, <1>3, <1>4, QuietStep DEF OInv, Typed, Reinviting

\* A step of no request: time passes, or a node or a token is revoked.
LEMMA IdleStep ==
  ASSUME OInv, UNCHANGED <<orgs, invites, pc, req>>, clock' \in Nat, clock' >= clock
  PROVE  OInv'
<1>1. Typed'
  BY DEF OInv, Typed
<1>2. InvitesOnlyClose
  BY DEF InvitesOnlyClose
<1>. QED
  BY <1>1, <1>2, QuietStep

\* A request ends, and may accept an invite and change what an organization is.
LEMMA EndingStep ==
  ASSUME OInv, NEW s \in Requests, Finish(s), UNCHANGED clock,
         invites' = invites \/ invites' = Accepted(s),
         IsASequence(orgs'), DOMAIN orgs \subseteq DOMAIN orgs'
  PROVE  OInv'
<1>1. invites' \in Seq(InviteRow) /\ InvitesOnlyClose
  <2>1. CASE invites' = invites
    BY <2>1 DEF OInv, Typed, InvitesOnlyClose
  <2>2. CASE invites' = Accepted(s)
    <3> DEFINE i == req[s].invite
    <3>1. Len(invites) \in Nat /\ invites \in [1..Len(invites) -> InviteRow]
      BY LenProperties DEF OInv, Typed
    <3>2. invites' = [invites EXCEPT ![i] = [invites[i] EXCEPT !.accepted = TRUE]]
      BY <2>2 DEF Accepted
    <3>3. \A j \in DOMAIN invites : invites[j] \in InviteRow
      BY InviteTyped DEF OInv
    <3> HIDE DEF i
    <3>4. i \in DOMAIN invites => [invites[i] EXCEPT !.accepted = TRUE] \in InviteRow
      BY <3>3 DEF InviteRow
    <3>5. invites' \in [1..Len(invites) -> InviteRow]
      BY <3>1, <3>2, <3>4
    <3>6. InvitesOnlyClose
      BY <3>1, <3>2, <3>3 DEF InvitesOnlyClose, InviteRow
    <3>. QED
      BY <3>1, <3>5, <3>6, SeqDef
  <2>. QED
    BY <2>1, <2>2
<1>2. Typed'
  BY <1>1 DEF OInv, Typed, Finish, Go, InvitesOnlyClose
<1>3. \A t \in Requests : t # s => pc'[t] = pc[t] /\ req'[t] = req[t]
  BY DEF Finish, Go, OInv, Typed
<1>4. pc'[s] = "idle"
  BY DEF Finish, Go, OInv, Typed
<1>. QED
  BY <1>1, <1>2, <1>3, <1>4, QuietStep DEF OInv, Typed, Reinviting

-----------------------------------------------------------------------------
\* A step that adds an invite of an organization that has none open.
LEMMA InvitingStep ==
  ASSUME OInv, UNCHANGED clock, IsASequence(orgs'), DOMAIN orgs \subseteq DOMAIN orgs',
         NEW o \in DOMAIN orgs', NEW kind \in {"enroll", "reset"},
         invites' = Append(invites, Invite(o, kind)),
         ~HasOpenInvite(o, clock),
         pc' = [t \in Requests |-> pc'[t]], req' = [t \in Requests |-> req'[t]],
         \A t \in Requests : pc'[t] \in Reinviting => pc[t] = pc'[t] /\ req'[t] = req[t],
         \A t \in Requests : pc'[t] = "reinvite_commit" => req'[t].org # o
  PROVE  OInv'
<1> DEFINE new == Invite(o, kind)
<1>1. new \in InviteRow
  <2>1. o \in Nat
    BY Positions
  <2>2. clock + Ttl \in Nat
    BY EnrollmentAssumption DEF OInv, Typed
  <2>. QED
    BY <2>1, <2>2 DEF Invite, InviteRow
<1>2. invites \in Seq(InviteRow) /\ Len(invites) \in Nat /\ DOMAIN invites = 1..Len(invites)
  BY LenProperties DEF OInv, Typed
<1> HIDE DEF new
<1>3. /\ invites' \in Seq(InviteRow)
      /\ DOMAIN invites' = 1..Len(invites) + 1
      /\ \A i \in DOMAIN invites : invites'[i] = invites[i]
      /\ invites'[Len(invites) + 1] = new
  <2>1. invites' = Append(invites, new)
    BY DEF new
  <2>2. /\ Append(invites, new) \in Seq(InviteRow)
        /\ Len(Append(invites, new)) = Len(invites) + 1
        /\ \A i \in 1..Len(invites) : Append(invites, new)[i] = invites[i]
        /\ Append(invites, new)[Len(invites) + 1] = new
    BY <1>1, <1>2, AppendProperties
  <2>. QED
    BY <1>2, <2>1, <2>2, LenProperties
<1>4. new.org = o
  BY DEF new, Invite
<1>5. Typed'
  <2>1. \A i \in DOMAIN invites' : invites'[i].org \in DOMAIN orgs'
    BY <1>2, <1>3, <1>4 DEF OInv, Typed
  <2>. QED
    BY <1>3, <2>1 DEF OInv, Typed
<1>6. Begun' /\ OneHolder'
  BY DEF OInv, Begun, OneHolder, Reinviting
<1>7. NoneOpen'
  BY <1>2, <1>3, <1>4 DEF OInv, NoneOpen, Reinviting, HasOpenInvite, OpenAt
<1>8. OneOpenInvite'
  BY <1>2, <1>3, <1>4 DEF OInv, OneOpenInvite, HasOpenInvite, OpenAt
<1>. QED
  BY <1>5, <1>6, <1>7, <1>8 DEF OInv

\* An organization that exists keeps its number, a new one gets the next.
LEMMA NewOrg ==
  ASSUME IsASequence(orgs), NEW v
  PROVE  /\ IsASequence(Append(orgs, v)) /\ DOMAIN orgs \subseteq DOMAIN Append(orgs, v)
         /\ Len(orgs) + 1 \in DOMAIN Append(orgs, v) /\ Len(orgs) + 1 \notin DOMAIN orgs
  BY Positions, LongerSeq

\* A new organization is invited once.
LEMMA CreateKeeps == ASSUME OInv, NEW name, CreateOrganization(name) PROVE OInv'
<1> DEFINE o == Len(orgs) + 1
<1>1. /\ IsASequence(orgs') /\ DOMAIN orgs \subseteq DOMAIN orgs'
      /\ o \in DOMAIN orgs' /\ o \notin DOMAIN orgs
  BY NewOrg DEF CreateOrganization, OInv, Typed
<1>2. ~HasOpenInvite(o, clock)
  BY <1>1 DEF HasOpenInvite, OInv, Typed
<1>3. \A t \in Requests : pc[t] = "reinvite_commit" => req[t].org \in DOMAIN orgs
  BY DEF OInv, Begun, Reinviting
<1>4. invites' = Append(invites, Invite(o, "enroll")) /\ UNCHANGED <<clock, pc, req>>
  BY DEF CreateOrganization, requests
<1> HIDE DEF o
<1>5. \A t \in Requests : pc'[t] = "reinvite_commit" => req'[t].org # o
  BY <1>1, <1>3, <1>4
<1>6. pc' = [t \in Requests |-> pc'[t]] /\ req' = [t \in Requests |-> req'[t]]
  BY <1>4 DEF OInv, Typed
<1>. QED
  BY <1>1, <1>2, <1>4, <1>5, <1>6, InvitingStep

\* The lock is free, and the two ways the check can go.
LEMMA LockKeeps == ASSUME OInv, NEW s \in Requests, ReinviteLock(s) PROVE OInv'
<1> DEFINE o == req[s].org
<1>1. req[s] \in [org : DOMAIN orgs, at : 0..clock, kind : {None, "enroll", "reset"}]
  BY DEF ReinviteLock, OInv, Begun, Reinviting
<1>2. UNCHANGED <<clock, orgs, invites>>
  BY DEF ReinviteLock, members
<1>3. CASE HasOpenInvite(o, req[s].at)
  BY <1>2, <1>3, LocalStep DEF ReinviteLock, Finish, Reinviting
<1>4. CASE ~HasOpenInvite(o, req[s].at)
  <2>1. PICK kind \in {"enroll", "reset"} :
          Go(s, "reinvite_commit", [req[s] EXCEPT !.kind = kind])
    BY <1>4 DEF ReinviteLock
  <2>2. Typed'
    BY <1>2, <2>1 DEF OInv, Typed, Go
  <2>3. /\ \A t \in Requests : t # s => pc'[t] = pc[t] /\ req'[t] = req[t]
        /\ pc'[s] = "reinvite_commit" /\ req'[s] = [req[s] EXCEPT !.kind = kind]
    BY <2>1 DEF OInv, Typed, Go
  <2>4. req'[s].kind = kind /\ req'[s] \in [org : DOMAIN orgs, at : 0..clock, kind : {None, "enroll", "reset"}]
        /\ req'[s].org = o /\ req'[s].at = req[s].at
    BY <1>1, <2>3
  <2>5. Begun'
    BY <1>2, <2>3, <2>4 DEF OInv, Begun, Reinviting
  <2>6. \A t \in Requests : pc[t] = "reinvite_commit" => req[t].org # o
    BY DEF ReinviteLock, LockFree, OrgLocked
  <2>7. OneHolder'
    BY <2>3, <2>4, <2>6 DEF OInv, OneHolder
  <2>8. NoneOpen' /\ OneOpenInvite'
    BY <1>2, <1>4, <2>3, <2>4 DEF OInv, NoneOpen, OneOpenInvite, HasOpenInvite, OpenAt
  <2>. QED
    BY <2>2, <2>5, <2>7, <2>8 DEF OInv
<1>. QED
  BY <1>3, <1>4

\* None was open when the re-invite began, so none is now.
LEMMA CommitKeeps == ASSUME OInv, NEW s \in Requests, ReinviteCommit(s) PROVE OInv'
<1> DEFINE o == req[s].org
<1>1. req[s] \in [org : DOMAIN orgs, at : 0..clock, kind : {None, "enroll", "reset"}]
           /\ req[s].kind \in {"enroll", "reset"}
  BY DEF ReinviteCommit, OInv, Begun, Reinviting
<1>2. ~HasOpenInvite(o, clock)
  <2>1. ~HasOpenInvite(o, req[s].at)
    BY DEF ReinviteCommit, OInv, NoneOpen
  <2>2. \A i \in DOMAIN invites : invites[i].expires \in Nat
    BY InviteTyped DEF OInv, InviteRow
  <2>. QED
    BY <1>1, <2>1, <2>2 DEF HasOpenInvite, OpenAt, OInv, Typed
<1>3. /\ \A t \in Requests : t # s => pc'[t] = pc[t] /\ req'[t] = req[t]
      /\ pc'[s] = "idle"
      /\ pc' = [t \in Requests |-> pc'[t]] /\ req' = [t \in Requests |-> req'[t]]
  BY DEF ReinviteCommit, Finish, Go, OInv, Typed
<1>4. \A t \in Requests : pc'[t] = "reinvite_commit" => req'[t].org # o
  BY <1>3 DEF ReinviteCommit, OInv, OneHolder
<1>5. /\ invites' = Append(invites, Invite(o, req[s].kind))
      /\ UNCHANGED <<clock, orgs>>
  BY DEF ReinviteCommit
<1>6. req[s].kind \in {"enroll", "reset"} /\ o \in DOMAIN orgs' /\ IsASequence(orgs')
  BY <1>1, <1>5 DEF OInv, Typed
<1> HIDE DEF o
<1>. QED
  BY <1>2, <1>3, <1>4, <1>5, <1>6, InvitingStep DEF Reinviting

\* The boot's rows come after the rows there are.
LEMMA SeedKeeps == ASSUME OInv, NEW s \in Requests, SeedCommit(s) PROVE OInv'
<1>1. Finish(s) /\ UNCHANGED <<clock, invites>>
  BY DEF SeedCommit
<1>2. orgs' = orgs \/ \E v : orgs' = Append(orgs, v)
  BY DEF SeedCommit
<1>3. IsASequence(orgs') /\ DOMAIN orgs \subseteq DOMAIN orgs'
  BY <1>2, NewOrg DEF OInv, Typed
<1>. QED
  BY <1>1, <1>3, EndingStep

\* A redemption for an enrollment, refused or not.
LEMMA EnrollKeeps == ASSUME OInv, NEW s \in Requests, EnrollCommit(s) PROVE OInv'
<1>1. Finish(s) /\ UNCHANGED clock
  BY DEF EnrollCommit
<1>2. CASE NameRefused(s, req[s].name)
  BY <1>1, <1>2, EndingStep DEF EnrollCommit, members, OInv, Typed
<1>3. CASE ~NameRefused(s, req[s].name)
  <2> DEFINE o == OrgOf(s)
  <2>1. invites' = Accepted(s)
    BY <1>3 DEF EnrollCommit
  <2>2. orgs' = [orgs EXCEPT ![o].name = req[s].name, ![o].enrolled = TRUE]
    BY <1>3 DEF EnrollCommit
  <2> HIDE DEF o
  <2>3. PICK v, w : orgs' = [[orgs EXCEPT ![o] = v] EXCEPT ![o] = w]
    BY <2>2
  <2>4. IsASequence(orgs') /\ DOMAIN orgs' = DOMAIN orgs
    BY <2>3, ChangedSeq DEF OInv, Typed
  <2>. QED
    BY <1>1, <2>1, <2>4, EndingStep
<1>. QED
  BY <1>2, <1>3

\* A redemption for a new password.
LEMMA ResetKeeps == ASSUME OInv, NEW s \in Requests, ResetCommit(s) PROVE OInv'
  BY EndingStep DEF ResetCommit, OInv, Typed

-----------------------------------------------------------------------------
\* Every step of the module is one of those.
LEMMA NextOInv == OInv /\ [Next]_vars => OInv'
<1>. SUFFICES ASSUME OInv, [Next]_vars PROVE OInv'
  OBVIOUS
<1>1. ASSUME NEW s \in Requests, ReinviteStart(s) PROVE OInv'
  <2>1. PICK o \in DOMAIN orgs : Begin(s, "reinvite_lock", [org |-> o, at |-> clock, kind |-> None])
    BY <1>1 DEF ReinviteStart
  <2> DEFINE r == [org |-> o, at |-> clock, kind |-> None]
  <2>2. Go(s, "reinvite_lock", r) /\ UNCHANGED <<clock, orgs, invites>>
    BY <1>1, <2>1 DEF ReinviteStart, Begin, Go, members
  <2>3. r \in [org : DOMAIN orgs, at : 0..clock, kind : {None, "enroll", "reset"}]
    BY DEF OInv, Typed
  <2> HIDE DEF r
  <2>. QED
    BY <2>2, <2>3, LocalStep
<1>2. ASSUME NEW s \in Requests, NEW i \in DOMAIN invites, NEW terms, Redeem(s, i, terms) PROVE OInv'
  <2>1. \E r : Go(s, "claim", r)
    BY <1>2 DEF Redeem, Begin, Go
  <2>. QED
    BY <1>2, <2>1, LocalStep DEF Redeem, members, Reinviting
<1>3. ASSUME NEW s \in Requests, Claim(s) PROVE OInv'
  <2>1. \E next, r : next \notin Reinviting /\ Go(s, next, r)
    BY <1>3 DEF Claim, Finish, Reinviting
  <2>. QED
    BY <1>3, <2>1, LocalStep DEF Claim, members
<1>4. ASSUME NEW s \in Requests, ResetRead(s) \/ ResetWait(s) PROVE OInv'
  <2>1. \E next, r : next \notin Reinviting /\ Go(s, next, r)
    BY <1>4 DEF ResetRead, ResetWait, Reinviting
  <2>. QED
    BY <1>4, <2>1, LocalStep DEF ResetRead, ResetWait, members
<1>5. ASSUME NEW s \in Requests, ClaimRefused(s) \/ Fail(s) PROVE OInv'
  BY <1>5, LocalStep DEF ClaimRefused, Fail, Finish, members, Reinviting
<1>6. ASSUME NEW s \in Requests, NEW o, NEW key, RegisterCheck(s, o, key) PROVE OInv'
  <2>1. \E r : Go(s, "register", r)
    BY <1>6 DEF RegisterCheck, Begin, Go
  <2>. QED
    BY <1>6, <2>1, LocalStep DEF RegisterCheck, members, Reinviting
<1>7. ASSUME NEW s \in Requests, RegisterNode(s) \/ IssueToken(s) PROVE OInv'
  BY <1>7, LocalStep DEF RegisterNode, IssueToken, Finish, members, Reinviting
<1>8. ASSUME NEW s \in Requests, NEW n, IssueStart(s, n) PROVE OInv'
  <2>1. \E r : Go(s, "issue", r)
    BY <1>8 DEF IssueStart, Begin, Go
  <2>. QED
    BY <1>8, <2>1, LocalStep DEF IssueStart, members, Reinviting
<1>9. ASSUME NEW s \in Requests, SeedStart(s) PROVE OInv'
  BY <1>9, LocalStep DEF SeedStart, Begin, Go, members, Reinviting
<1>10. ASSUME NEW s \in Requests, SeedRead(s) PROVE OInv'
  <2>1. \E next, r : next \notin Reinviting /\ Go(s, next, r)
    BY <1>10 DEF SeedRead, Finish, Reinviting
  <2>. QED
    BY <1>10, <2>1, LocalStep DEF SeedRead, members
<1>11. CASE (\E n \in DOMAIN nodes : RevokeNode(n)) \/ (\E k \in DOMAIN tokens : RevokeToken(k))
  BY <1>11, IdleStep DEF RevokeNode, RevokeToken, members, requests, OInv, Typed
<1>12. CASE Tick
  BY <1>12, IdleStep DEF Tick, members, requests, OInv, Typed
<1>13. CASE UNCHANGED vars
  BY <1>13, IdleStep DEF vars, members, requests, OInv, Typed
<1>. QED
  BY <1>1, <1>2, <1>3, <1>4, <1>5, <1>6, <1>7, <1>8, <1>9, <1>10, <1>11, <1>12, <1>13,
     CreateKeeps, LockKeeps, CommitKeeps, EnrollKeeps, ResetKeeps, SeedKeeps
  DEF Next

\* enrollment/index.ts:186: however many re-invites of an organization race
\* each other, redemptions and the clock, it has at most one open invite.
THEOREM OneOpenInviteEach == Spec => []OneOpenInvite
<1>1. OInv => OneOpenInvite
  BY DEF OInv
<1>. QED
  BY <1>1, InitOInv, NextOInv, PTL DEF Spec

-----------------------------------------------------------------------------
(***************************************************************************)
(* Redemption.  It is several statements, so the invariant says what holds *)
(* between them: whoever has claimed an invite is alone with it, and it is *)
(* not accepted before the login is there.                                 *)
(***************************************************************************)

LoginRow == [org : Nat, by : Nat, terms : Terms, revoked : BOOLEAN]

Redemption ==
  [invite : DOMAIN invites, name : Names \cup {None}, terms : Terms, asked : BOOLEAN,
   at : Nat, kill : SUBSET Nat]

Redeeming == {"claim"} \cup Claiming

\* A request that redeems works on an invite there is.
Underway == \A s \in Requests : pc[s] \in Redeeming => req[s] \in Redemption

\* An invite that was claimed is not accepted yet ...
Unspent == \A s \in Requests : pc[s] \in Claiming => ~invites[req[s].invite].accepted

\* ... and nobody else has claimed it.
OneRedeemer ==
  \A s, t \in Requests :
    pc[s] \in Claiming /\ pc[t] \in Claiming /\ req[s].invite = req[t].invite => s = t

\* Each login was made by an accepted invite of its organization, ...
MadeByInvites ==
  /\ logins \in Seq(LoginRow)
  /\ \A l \in DOMAIN logins :
       /\ logins[l].by \in DOMAIN invites
       /\ invites[logins[l].by].accepted
       /\ logins[l].org = invites[logins[l].by].org

\* ... no two by the same, ...
OneEach == \A l, m \in DOMAIN logins : logins[l].by = logins[m].by => l = m

\* ... and each accepted invite made one.
SpentMade ==
  \A i \in DOMAIN invites : invites[i].accepted => \E l \in DOMAIN logins : logins[l].by = i

RInv == OInv /\ Underway /\ Unspent /\ OneRedeemer /\ MadeByInvites /\ OneEach /\ SpentMade

-----------------------------------------------------------------------------
\* There is nothing at the start.
LEMMA InitRInv == Init => RInv
<1>. SUFFICES ASSUME Init PROVE RInv
  OBVIOUS
<1>1. OInv
  BY InitOInv
<1>2. Underway /\ Unspent /\ OneRedeemer
  BY DEF Init, Underway, Unspent, OneRedeemer, Redeeming, Claiming
<1>3. logins \in Seq(LoginRow) /\ DOMAIN logins = {} /\ DOMAIN invites = {}
  BY DEF Init
<1>. QED
  BY <1>1, <1>2, <1>3 DEF RInv, MadeByInvites, OneEach, SpentMade

\* The invites and the logins as sequences.
LEMMA Rows ==
  ASSUME RInv
  PROVE  /\ Len(invites) \in Nat /\ DOMAIN invites = 1..Len(invites)
         /\ Len(logins) \in Nat /\ DOMAIN logins = 1..Len(logins)
         /\ \A l \in DOMAIN logins : logins[l] \in LoginRow
         /\ \A i \in DOMAIN invites : invites[i] \in InviteRow
<1>1. invites \in Seq(InviteRow) /\ logins \in Seq(LoginRow)
  BY DEF RInv, OInv, Typed, MadeByInvites
<1>2. Len(logins) \in Nat /\ DOMAIN logins = 1..Len(logins)
  BY <1>1, LenProperties
<1>3. Len(invites) \in Nat /\ DOMAIN invites = 1..Len(invites)
  BY <1>1, LenProperties
<1>4. \A l \in DOMAIN logins : logins[l] \in LoginRow
  BY <1>1, <1>2, ElementOfSeq
<1>. QED
  BY <1>2, <1>3, <1>4, InviteTyped DEF RInv, OInv

\* A step that makes no login and accepts no invite, and brings nobody past the
\* claim.
LEMMA QuietRedemption ==
  ASSUME RInv, OInv', UNCHANGED logins,
         \A i \in DOMAIN invites : i \in DOMAIN invites' /\ invites'[i] = invites[i],
         \A i \in DOMAIN invites' \ DOMAIN invites : ~invites'[i].accepted,
         \A s \in Requests : pc'[s] \in Redeeming =>
           \/ pc'[s] = pc[s] /\ req'[s] = req[s]
           \/ pc'[s] = "claim" /\ req'[s] \in Redemption
           \/ /\ pc[s] \in Claiming /\ pc'[s] \in Claiming
              /\ req'[s] \in Redemption /\ req'[s].invite = req[s].invite
  PROVE  RInv'
<1>1. Redemption \subseteq Redemption'
  BY DEF Redemption
<1>2. Underway'
  BY <1>1 DEF RInv, Underway, Redeeming
<1>3. \A s \in Requests : pc'[s] \in Claiming =>
        pc[s] \in Claiming /\ req'[s].invite = req[s].invite /\ req[s].invite \in DOMAIN invites
  BY DEF RInv, Underway, Redeeming, Claiming, Redemption
<1>4. Unspent' /\ OneRedeemer'
  BY <1>3 DEF RInv, Unspent, OneRedeemer
<1>5. MadeByInvites' /\ OneEach' /\ SpentMade'
  BY DEF RInv, MadeByInvites, OneEach, SpentMade
<1>. QED
  BY <1>2, <1>4, <1>5 DEF RInv

\* A step of one request that leaves both tables alone.
LEMMA LocalRedemption ==
  ASSUME RInv, OInv', NEW s \in Requests, NEW next, NEW r, Go(s, next, r),
         UNCHANGED <<invites, logins>>,
         \/ next \notin Redeeming
         \/ next = "claim" /\ r \in Redemption
         \/ /\ pc[s] \in Claiming /\ next \in Claiming
            /\ r \in Redemption /\ r.invite = req[s].invite
  PROVE  RInv'
<1>1. \A t \in Requests : t # s => pc'[t] = pc[t] /\ req'[t] = req[t]
  BY DEF Go, RInv, OInv, Typed
<1>2. pc'[s] = next /\ req'[s] = r
  BY DEF Go, RInv, OInv, Typed
<1>. QED
  BY <1>1, <1>2, QuietRedemption

\* A step that adds an open invite, with nobody on the way to redeem it.
LEMMA InvitedRedemption ==
  ASSUME RInv, OInv', UNCHANGED logins, NEW o, NEW kind,
         invites' = Append(invites, Invite(o, kind)),
         \A s \in Requests : pc'[s] \in Redeeming => pc'[s] = pc[s] /\ req'[s] = req[s]
  PROVE  RInv'
<1> DEFINE new == Invite(o, kind)
<1>1. new.accepted = FALSE
  BY DEF Invite
<1>2. invites \in Seq(InviteRow)
  BY DEF RInv, OInv, Typed
<1>3. invites' = Append(invites, new)
  OBVIOUS
<1> HIDE DEF new
<1>4. invites \in Seq(InviteRow \cup {new})
  <2>1. invites \in [1..Len(invites) -> InviteRow] /\ Len(invites) \in Nat
    BY <1>2, LenProperties
  <2>. QED
    BY <2>1, SeqDef
<1>5. /\ invites' \in Seq(InviteRow \cup {new})
      /\ Len(invites') = Len(invites) + 1
      /\ \A i \in 1..Len(invites) : invites'[i] = invites[i]
      /\ invites'[Len(invites) + 1] = new
  BY <1>3, <1>4, AppendProperties
<1>6. DOMAIN invites = 1..Len(invites) /\ DOMAIN invites' = 1..Len(invites) + 1 /\ Len(invites) \in Nat
  BY <1>2, <1>5, LenProperties
<1>. QED
  BY <1>1, <1>5, <1>6, QuietRedemption

-----------------------------------------------------------------------------
\* The claim waits until nobody else has the invite, and looks at it again.
LEMMA ClaimStep ==
  ASSUME RInv, OInv', NEW s \in Requests, Claim(s)
  PROVE  RInv'
<1> DEFINE i == req[s].invite
<1>1. req[s] \in Redemption /\ UNCHANGED <<invites, logins>>
  BY DEF Claim, RInv, Underway, Redeeming, members
<1>2. PICK next, r : Go(s, next, r) /\ (\/ next = "idle"
                                        \/ /\ next \in Claiming
                                           /\ r \in Redemption /\ r.invite = i)
  <2>1. CASE \E name \in Names : Go(s, "enroll_commit", [req[s] EXCEPT !.name = name])
    <3>1. PICK name \in Names : Go(s, "enroll_commit", [req[s] EXCEPT !.name = name])
      BY <2>1
    <3>2. [req[s] EXCEPT !.name = name] \in Redemption /\ [req[s] EXCEPT !.name = name].invite = i
      BY <1>1 DEF Redemption
    <3>. QED
      BY <3>1, <3>2 DEF Claiming
  <2>2. CASE Go(s, "reset_read", req[s])
    BY <1>1, <2>2 DEF Claiming
  <2>3. CASE Finish(s)
    BY <2>3 DEF Finish
  <2>. QED
    BY <2>1, <2>2, <2>3 DEF Claim
<1>3. CASE next = "idle"
  BY <1>1, <1>2, <1>3, LocalRedemption DEF Redeeming, Claiming
<1>4. CASE next \in Claiming /\ r \in Redemption /\ r.invite = i
  <2>1. \A t \in Requests : t # s => pc'[t] = pc[t] /\ req'[t] = req[t]
    BY <1>2 DEF Go, RInv, OInv, Typed
  <2>2. pc'[s] = next /\ req'[s] = r
    BY <1>2 DEF Go, RInv, OInv, Typed
  <2>3. ~invites[i].accepted
    BY DEF Claim, StillOpen, OpenAt
  <2>4. \A t \in Requests : t # s /\ pc[t] \in Claiming => req[t].invite # i
    BY DEF Claim, ClaimWaits
  <2>5. Redemption' = Redemption
    BY <1>1 DEF Redemption
  <2>6. Underway'
    BY <1>1, <1>4, <2>1, <2>2, <2>5 DEF RInv, Underway, Redeeming
  <2>7. Unspent'
    BY <1>1, <1>4, <2>1, <2>2, <2>3 DEF RInv, Unspent
  <2>8. OneRedeemer'
    BY <1>4, <2>1, <2>2, <2>4 DEF RInv, OneRedeemer
  <2>9. MadeByInvites' /\ OneEach' /\ SpentMade'
    BY <1>1 DEF RInv, MadeByInvites, OneEach, SpentMade
  <2>. QED
    BY <2>6, <2>7, <2>8, <2>9 DEF RInv
<1>. QED
  BY <1>2, <1>3, <1>4

\* A redemption that commits accepts its invite and adds its login; a reset also
\* revokes logins, which changes neither whose they are nor who made them.
LEMMA CommitStep ==
  ASSUME RInv, OInv', NEW s \in Requests, pc[s] \in Claiming, Finish(s),
         invites' = Accepted(s),
         NEW q \in Seq(LoginRow), Len(q) = Len(logins),
         \A l \in 1..Len(q) : q[l].by = logins[l].by /\ q[l].org = logins[l].org,
         logins' = Append(q, NewLogin(s))
  PROVE  RInv'
<1> DEFINE i == req[s].invite
           n == Len(logins) + 1
           new == NewLogin(s)
<1>0. /\ Len(invites) \in Nat /\ DOMAIN invites = 1..Len(invites)
      /\ Len(logins) \in Nat /\ DOMAIN logins = 1..Len(logins)
      /\ \A l \in DOMAIN logins : logins[l] \in LoginRow
      /\ \A j \in DOMAIN invites : invites[j] \in InviteRow
  BY Rows
<1>1. req[s] \in Redemption /\ i \in DOMAIN invites /\ ~invites[i].accepted
  BY DEF RInv, Underway, Redeeming, Unspent, Redemption
<1>2. /\ DOMAIN invites' = DOMAIN invites
      /\ invites'[i].accepted /\ invites'[i].org = invites[i].org
      /\ \A j \in DOMAIN invites : j # i => invites'[j] = invites[j]
      /\ \A j \in DOMAIN invites : invites'[j].org = invites[j].org
  <2>1. invites' = [invites EXCEPT ![i] = [invites[i] EXCEPT !.accepted = TRUE]]
    BY DEF Accepted
  <2>2. invites \in [1..Len(invites) -> InviteRow]
    BY <1>0, LenProperties DEF RInv, OInv, Typed
  <2>3. [invites[i] EXCEPT !.accepted = TRUE] \in InviteRow
    BY <1>0, <1>1 DEF InviteRow
  <2>. QED
    BY <1>0, <1>1, <2>1, <2>2, <2>3 DEF InviteRow
<1>3. new \in LoginRow /\ new.by = i /\ new.org = invites[i].org
  BY <1>0, <1>1 DEF NewLogin, OrgOf, LoginRow, Redemption, InviteRow
<1> HIDE DEF new
<1>4. /\ logins' \in Seq(LoginRow) /\ DOMAIN logins' = 1..n
      /\ \A l \in 1..Len(logins) : logins'[l].by = logins[l].by /\ logins'[l].org = logins[l].org
      /\ logins'[n] = new
  <2>1. logins' = Append(q, new)
    BY DEF new
  <2>2. /\ Append(q, new) \in Seq(LoginRow)
        /\ Len(Append(q, new)) = Len(q) + 1
        /\ \A l \in 1..Len(q) : Append(q, new)[l] = q[l]
        /\ Append(q, new)[Len(q) + 1] = new
    BY <1>3, AppendProperties
  <2>. QED
    BY <2>1, <2>2, LenProperties
<1>5. /\ \A t \in Requests : t # s => pc'[t] = pc[t] /\ req'[t] = req[t]
      /\ pc'[s] = "idle"
  BY DEF Finish, Go, RInv, OInv, Typed
<1>6. "idle" \notin Redeeming /\ Claiming \subseteq Redeeming /\ Redemption' = Redemption
  BY <1>2 DEF Redeeming, Claiming, Redemption
<1>7. Underway' /\ OneRedeemer'
  BY <1>5, <1>6 DEF RInv, Underway, OneRedeemer
<1>8. Unspent'
  <2> SUFFICES ASSUME NEW t \in Requests, pc'[t] \in Claiming
               PROVE ~invites'[req'[t].invite].accepted
    BY DEF Unspent
  <2>1. t # s /\ pc[t] \in Claiming /\ req'[t] = req[t]
    BY <1>5, <1>6
  <2>2. req[t].invite # i /\ req[t].invite \in DOMAIN invites
    BY <2>1, <1>6 DEF RInv, OneRedeemer, Underway, Redemption
  <2>. QED
    BY <1>2, <2>1, <2>2 DEF RInv, Unspent
<1>9. \A l \in DOMAIN logins : logins[l].by # i
  BY <1>1 DEF RInv, MadeByInvites
<1> HIDE DEF i
<1>10. MadeByInvites'
  <2> SUFFICES ASSUME NEW l \in 1..n
               PROVE /\ logins'[l].by \in DOMAIN invites'
                     /\ invites'[logins'[l].by].accepted
                     /\ logins'[l].org = invites'[logins'[l].by].org
    BY <1>4 DEF MadeByInvites
  <2>1. CASE l = n
    BY <1>1, <1>2, <1>3, <1>4, <2>1
  <2>2. CASE l \in DOMAIN logins
    BY <1>0, <1>2, <1>4, <1>9, <2>2 DEF RInv, MadeByInvites
  <2>. QED
    BY <1>0, <2>1, <2>2
<1>11. OneEach'
  BY <1>0, <1>3, <1>4, <1>9 DEF RInv, OneEach
<1>12. SpentMade'
  <2> SUFFICES ASSUME NEW j \in DOMAIN invites, invites'[j].accepted
               PROVE \E l \in 1..n : logins'[l].by = j
    BY <1>2, <1>4 DEF SpentMade
  <2>1. CASE j = i
    BY <1>0, <1>3, <1>4, <2>1
  <2>2. CASE j # i
    BY <1>0, <1>2, <1>4, <2>2 DEF RInv, SpentMade
  <2>. QED
    BY <2>1, <2>2
<1>. QED
  BY <1>7, <1>8, <1>10, <1>11, <1>12 DEF RInv

\* An enrollment, refused for its name or not.
LEMMA EnrollStep ==
  ASSUME RInv, OInv', NEW s \in Requests, EnrollCommit(s)
  PROVE  RInv'
<1>1. Finish(s) /\ pc[s] \in Claiming
  BY DEF EnrollCommit, Claiming
<1>2. CASE NameRefused(s, req[s].name)
  BY <1>1, <1>2, LocalRedemption DEF EnrollCommit, members, Finish, Redeeming, Claiming
<1>3. CASE ~NameRefused(s, req[s].name)
  <2>1. invites' = Accepted(s) /\ logins' = Append(logins, NewLogin(s))
    BY <1>3 DEF EnrollCommit
  <2>. QED
    BY <1>1, <2>1, CommitStep DEF RInv, MadeByInvites
<1>. QED
  BY <1>2, <1>3

\* A reset.
LEMMA ResetStep ==
  ASSUME RInv, OInv', NEW s \in Requests, ResetCommit(s)
  PROVE  RInv'
<1> DEFINE q == RevokedLogins(s)
<1>1. /\ Finish(s) /\ pc[s] \in Claiming
      /\ invites' = Accepted(s) /\ logins' = Append(q, NewLogin(s))
  BY DEF ResetCommit, ReplacedLogins, Claiming
<1>2. Len(logins) \in Nat /\ DOMAIN logins = 1..Len(logins)
      /\ \A l \in DOMAIN logins : logins[l] \in LoginRow
  BY Rows
<1>3. q = [l \in 1..Len(logins) |->
             IF l \in req[s].kill THEN [logins[l] EXCEPT !.revoked = TRUE] ELSE logins[l]]
  BY <1>2 DEF RevokedLogins
<1> HIDE DEF q
<1>4. \A l \in 1..Len(logins) :
        /\ [logins[l] EXCEPT !.revoked = TRUE] \in LoginRow
        /\ [logins[l] EXCEPT !.revoked = TRUE].by = logins[l].by
        /\ [logins[l] EXCEPT !.revoked = TRUE].org = logins[l].org
  BY <1>2 DEF LoginRow
<1>5. q \in [1..Len(logins) -> LoginRow]
  BY <1>2, <1>3, <1>4
<1>6. q \in Seq(LoginRow) /\ Len(q) = Len(logins)
  BY <1>2, <1>5, SeqDef, LenProperties
<1>7. \A l \in 1..Len(q) : q[l].by = logins[l].by /\ q[l].org = logins[l].org
  BY <1>3, <1>4, <1>6
<1>. QED
  BY <1>1, <1>6, <1>7, CommitStep

-----------------------------------------------------------------------------
\* A login belongs to an organization as a number, so those that live are numbers.
LEMMA LiveAreNumbers == ASSUME RInv, NEW o PROVE Live(o) \in SUBSET Nat
  BY Rows DEF Live

\* What a form asks is a truth value.
LEMMA AsksIsBoolean == ASSUME NEW i, NEW terms PROVE Asks(i, terms) \in BOOLEAN
  BY DEF Asks

\* Every step of the module is one of those.
LEMMA NextRInv == RInv /\ [Next]_vars => RInv'
<1>. SUFFICES ASSUME RInv, [Next]_vars PROVE RInv'
  OBVIOUS
<1>0. OInv'
  BY NextOInv DEF RInv
<1>1. ASSUME NEW s \in Requests, ReinviteStart(s) PROVE RInv'
  <2>1. \E r : Go(s, "reinvite_lock", r)
    BY <1>1 DEF ReinviteStart, Begin, Go
  <2>. QED
    BY <1>0, <1>1, <2>1, LocalRedemption DEF ReinviteStart, members, Redeeming, Claiming
<1>2. ASSUME NEW s \in Requests, ReinviteLock(s) PROVE RInv'
  <2>1. \E next, r : next \notin Redeeming /\ Go(s, next, r)
    BY <1>2 DEF ReinviteLock, Finish, Redeeming, Claiming
  <2>. QED
    BY <1>0, <1>2, <2>1, LocalRedemption DEF ReinviteLock, members
<1>3. ASSUME NEW s \in Requests, ReinviteCommit(s) PROVE RInv'
  <2>1. \A t \in Requests : pc'[t] \in Redeeming => pc'[t] = pc[t] /\ req'[t] = req[t]
    BY <1>3 DEF ReinviteCommit, Finish, Go, Redeeming, Claiming, RInv, OInv, Typed
  <2>. QED
    BY <1>0, <1>3, <2>1, InvitedRedemption DEF ReinviteCommit
<1>4. ASSUME NEW name, CreateOrganization(name) PROVE RInv'
  BY <1>0, <1>4, InvitedRedemption DEF CreateOrganization, requests
<1>5. ASSUME NEW s \in Requests, NEW i \in DOMAIN invites, NEW terms \in Terms, Redeem(s, i, terms)
      PROVE RInv'
  <2> DEFINE r == [invite |-> i, name |-> None, terms |-> terms, asked |-> Asks(i, terms),
                   at |-> clock, kill |-> {}]
  <2>1. Go(s, "claim", r) /\ UNCHANGED <<invites, logins>>
    BY <1>5 DEF Redeem, Begin, Go, members
  <2>2. r \in Redemption
    BY AsksIsBoolean DEF Redemption, RInv, OInv, Typed
  <2> HIDE DEF r
  <2>. QED
    BY <1>0, <2>1, <2>2, LocalRedemption
<1>6. ASSUME NEW s \in Requests, ResetRead(s) \/ ResetWait(s) PROVE RInv'
  <2>1. req[s] \in Redemption /\ pc[s] \in Claiming
    BY <1>6 DEF ResetRead, ResetWait, RInv, Underway, Redeeming, Claiming
  <2>2. \A k \in SUBSET Nat : /\ [req[s] EXCEPT !.kill = k] \in Redemption
                              /\ [req[s] EXCEPT !.kill = k].invite = req[s].invite
    BY <2>1 DEF Redemption
  <2>3. Live(OrgOf(s)) \in SUBSET Nat
    BY LiveAreNumbers
  <2>4. PICK next, k : /\ next \in Claiming /\ k \in SUBSET Nat
                       /\ Go(s, next, [req[s] EXCEPT !.kill = k])
    <3>1. CASE ResetRead(s)
      BY <2>3, <3>1 DEF ResetRead, Claiming
    <3>2. CASE ResetWait(s)
      <4>1. [req[s] EXCEPT !.kill = @ \cap Live(OrgOf(s))]
              = [req[s] EXCEPT !.kill = req[s].kill \cap Live(OrgOf(s))]
        OBVIOUS
      <4>2. req[s].kill \cap Live(OrgOf(s)) \in SUBSET Nat
        BY <2>3
      <4>. QED
        BY <3>2, <4>1, <4>2 DEF ResetWait, Claiming
    <3>. QED
      BY <1>6, <3>1, <3>2
  <2>. QED
    BY <1>0, <1>6, <2>1, <2>2, <2>4, LocalRedemption DEF ResetRead, ResetWait, members
<1>7. ASSUME NEW s \in Requests, ClaimRefused(s) \/ Fail(s) PROVE RInv'
  BY <1>0, <1>7, LocalRedemption DEF ClaimRefused, Fail, Finish, members, Redeeming, Claiming
<1>8. ASSUME NEW s \in Requests, NEW o, NEW key, RegisterCheck(s, o, key) PROVE RInv'
  <2>1. \E r : Go(s, "register", r)
    BY <1>8 DEF RegisterCheck, Begin, Go
  <2>. QED
    BY <1>0, <1>8, <2>1, LocalRedemption DEF RegisterCheck, members, Redeeming, Claiming
<1>9. ASSUME NEW s \in Requests, RegisterNode(s) \/ IssueToken(s) PROVE RInv'
  BY <1>0, <1>9, LocalRedemption DEF RegisterNode, IssueToken, Finish, members, Redeeming, Claiming
<1>10. ASSUME NEW s \in Requests, NEW n, IssueStart(s, n) PROVE RInv'
  <2>1. \E r : Go(s, "issue", r)
    BY <1>10 DEF IssueStart, Begin, Go
  <2>. QED
    BY <1>0, <1>10, <2>1, LocalRedemption DEF IssueStart, members, Redeeming, Claiming
<1>11. ASSUME NEW s \in Requests, SeedStart(s) PROVE RInv'
  BY <1>0, <1>11, LocalRedemption DEF SeedStart, Begin, Go, members, Redeeming, Claiming
<1>12. ASSUME NEW s \in Requests, SeedRead(s) PROVE RInv'
  <2>1. \E next, r : next \notin Redeeming /\ Go(s, next, r)
    BY <1>12 DEF SeedRead, Finish, Redeeming, Claiming
  <2>. QED
    BY <1>0, <1>12, <2>1, LocalRedemption DEF SeedRead, members
<1>13. ASSUME NEW s \in Requests, SeedCommit(s) PROVE RInv'
  BY <1>0, <1>13, LocalRedemption DEF SeedCommit, Finish, Redeeming, Claiming
<1>14. CASE \/ \E n \in DOMAIN nodes : RevokeNode(n)
            \/ \E k \in DOMAIN tokens : RevokeToken(k)
            \/ Tick
            \/ UNCHANGED vars
  <2>1. UNCHANGED <<invites, logins, pc, req>>
    BY <1>14 DEF RevokeNode, RevokeToken, Tick, vars, members, requests
  <2>. QED
    BY <1>0, <2>1, QuietRedemption
<1>. QED
  BY <1>0, <1>1, <1>2, <1>3, <1>4, <1>5, <1>6, <1>7, <1>8, <1>9, <1>10, <1>11, <1>12, <1>13, <1>14,
     ClaimStep, EnrollStep, ResetStep
  DEF Next

\* "One-time invites": however many requests redeem an invite at once, and
\* whatever they are refused for, an accepted invite has made exactly one login
\* of its organization and an open one none.
THEOREM InvitesMakeOneLogin == Spec => []InviteMakesOneLogin
<1>1. RInv => InviteMakesOneLogin
  <2> SUFFICES ASSUME RInv, NEW i \in DOMAIN invites
               PROVE LET made == {l \in DOMAIN logins : logins[l].by = i} IN
                     /\ Cardinality(made) = IF invites[i].accepted THEN 1 ELSE 0
                     /\ \A l \in made : logins[l].org = invites[i].org
    BY DEF InviteMakesOneLogin
  <2> DEFINE made == {l \in DOMAIN logins : logins[l].by = i}
  <2>1. \A l \in made : invites[i].accepted /\ logins[l].org = invites[i].org
    BY DEF RInv, MadeByInvites
  <2>2. CASE invites[i].accepted
    <3>1. PICK l \in DOMAIN logins : logins[l].by = i
      BY <2>2 DEF RInv, SpentMade
    <3>2. made = {l}
      BY <3>1 DEF RInv, OneEach
    <3>. QED
      BY <2>1, <2>2, <3>2, FS_Singleton
  <2>3. CASE ~invites[i].accepted
    <3>1. made = {}
      BY <2>1, <2>3
    <3>. QED
      BY <2>3, <3>1, FS_EmptySet
  <2>. QED
    BY <2>2, <2>3
<1>. QED
  BY <1>1, InitRInv, NextRInv, PTL DEF Spec

-----------------------------------------------------------------------------
(***************************************************************************)
(* Logins and agreements.  A form is shown, a password hashed and the old  *)
(* logins read before the transaction that uses them commits.  What makes  *)
(* that safe is the invite: while it is open no other of its organization  *)
(* is, and nobody else has claimed it, so only its own redemption changes  *)
(* who may log in and what was agreed; once it expires, the organization   *)
(* is among those that straddle.                                           *)
(***************************************************************************)

Resetting == {"reset_read", "reset_wait", "reset_commit"}

AgreementRow == [org : Nat, terms : Terms, asked : BOOLEAN]

OrgRow == [name : Names \cup {None}, enrolled : BOOLEAN, seeded : BOOLEAN]

\* An organization that has not enrolled has no login and no invite to reset one.
EnrolledFirst ==
  /\ orgs \in Seq(OrgRow)
  /\ \A l \in DOMAIN logins : logins[l].org \in DOMAIN orgs /\ orgs[logins[l].org].enrolled
  /\ \A i \in DOMAIN invites : invites[i].kind = "reset" => orgs[invites[i].org].enrolled

\* Until an invite to enroll is redeemed there is nobody to log in.
FreshWhenInvited ==
  \A i \in DOMAIN invites :
    OpenAt(i, clock) /\ invites[i].kind = "enroll" /\ invites[i].org \notin straddled
    => Live(invites[i].org) = {}

AtMostOne ==
  \A l, m \in DOMAIN logins :
    /\ logins[l].org = logins[m].org /\ logins[l].org \notin straddled
    /\ ~logins[l].revoked /\ ~logins[m].revoked
    => l = m

LoginsAgreed ==
  \A l \in DOMAIN logins :
    \E i \in DOMAIN agreements :
      agreements[i].org = logins[l].org /\ agreements[i].terms = logins[l].terms

OnlyAsked ==
  /\ agreements \in Seq(AgreementRow)
  /\ \A i \in DOMAIN agreements : agreements[i].org \notin straddled => agreements[i].asked

\* An invitation in progress is of the kind its organization still calls for.
Fitting(p, r) == p = "reinvite_commit" => (r.kind = "reset" <=> orgs[r.org].enrolled)

\* A redemption takes the branch of its invite.
Branch(p, r) ==
  /\ p = "enroll_commit" => invites[r.invite].kind = "enroll"
  /\ p \in Resetting => invites[r.invite].kind = "reset"

\* While its invite is open no other can be redeemed, so what a redemption has
\* read is still so: the logins that live ...
SeesAll(p, r) ==
  /\ p \in {"reset_wait", "reset_commit"}
  /\ OpenAt(r.invite, clock) /\ invites[r.invite].org \notin straddled
  => Live(invites[r.invite].org) \subseteq r.kill

\* ... and whether to ask for an agreement.
AskedRight(p, r) ==
  /\ p \in Redeeming
  /\ OpenAt(r.invite, clock) /\ invites[r.invite].org \notin straddled
  => r.asked = Asks(r.invite, r.terms)

\* A reset has read only logins of its organization.
OwnOnly(p, r) ==
  p \in {"reset_wait", "reset_commit"} =>
    \A l \in r.kill : l \in DOMAIN logins /\ logins[l].org = invites[r.invite].org

Knows(p, r) ==
  Fitting(p, r) /\ Branch(p, r) /\ SeesAll(p, r) /\ AskedRight(p, r) /\ OwnOnly(p, r)

MInv ==
  /\ RInv
  /\ EnrolledFirst /\ FreshWhenInvited /\ AtMostOne /\ LoginsAgreed /\ OnlyAsked
  /\ \A s \in Requests : Knows(pc[s], req[s])

-----------------------------------------------------------------------------
\* A nonempty set of numbers has a least one ...
LEMMA LeastNumber ==
  ASSUME NEW S \in SUBSET Nat, S # {}
  PROVE  \E x \in S : \A y \in S : x <= y
<1>1. PICK x \in S : \A y \in S : ~ (<<y, x>> \in OpToRel(<, Nat))
  BY NatLessThanWellFounded, WFMin
<1>2. \A y \in S : ~ (y < x)
  BY <1>1 DEF OpToRel
<1>. QED
  BY <1>2

\* ... and if they are bounded, a greatest.
LEMMA GreatestNumber ==
  ASSUME NEW n \in Nat, NEW S \in SUBSET (1..n), S # {}
  PROVE  \E x \in S : \A y \in S : y <= x
<1> DEFINE T == {n - x : x \in S}
<1>0. \A x \in S : n - x \in Nat
  OBVIOUS
<1>1. T \in SUBSET Nat /\ T # {}
  BY <1>0
<1>2. PICK t \in T : \A y \in T : t <= y
  BY <1>1, LeastNumber
<1>3. PICK x \in S : t = n - x
  OBVIOUS
<1>4. \A y \in S : n - x <= n - y
  BY <1>2, <1>3
<1>. QED
  BY <1>4

Greatest(S) == CHOOSE i \in S : \A j \in S : j <= i

AgreementsOf(o) == {i \in DOMAIN agreements : agreements[i].org = o}

\* What an organization has agreed to last is what its last agreement says.
LEMMA LatestIs ==
  ASSUME OnlyAsked, NEW o
  PROVE  /\ AgreementsOf(o) = {} => LatestAgreed(o) = None
         /\ AgreementsOf(o) # {} => /\ Greatest(AgreementsOf(o)) \in AgreementsOf(o)
                                    /\ LatestAgreed(o) = agreements[Greatest(AgreementsOf(o))].terms
<1> DEFINE S == AgreementsOf(o)
<1>1. LatestAgreed(o) = IF S = {} THEN None ELSE agreements[Greatest(S)].terms
  BY DEF LatestAgreed, AgreementsOf, Greatest
<1>2. S \in SUBSET (1..Len(agreements)) /\ Len(agreements) \in Nat
  BY LenProperties DEF OnlyAsked, AgreementsOf
<1> HIDE DEF S
<1>3. ASSUME S # {} PROVE Greatest(S) \in S
  <2>1. \E x \in S : \A y \in S : y <= x
    BY <1>2, <1>3, GreatestNumber
  <2>. QED
    BY <2>1 DEF Greatest
<1>4. S = AgreementsOf(o)
  BY DEF S
<1>. QED
  BY <1>1, <1>3, <1>4

\* An agreement of another organization does not change it.
LEMMA LatestKept ==
  ASSUME OnlyAsked, NEW new \in AgreementRow, agreements' = Append(agreements, new),
         NEW o, new.org # o
  PROVE  LatestAgreed(o)' = LatestAgreed(o)
<1>1. /\ OnlyAsked => TRUE
      /\ agreements \in Seq(AgreementRow)
      /\ Len(agreements) \in Nat /\ DOMAIN agreements = 1..Len(agreements)
  BY LenProperties DEF OnlyAsked
<1>2. /\ agreements' \in Seq(AgreementRow)
      /\ DOMAIN agreements' = 1..Len(agreements) + 1
      /\ \A i \in DOMAIN agreements : agreements'[i] = agreements[i]
      /\ agreements'[Len(agreements) + 1] = new
  <2>1. /\ Append(agreements, new) \in Seq(AgreementRow)
        /\ Len(Append(agreements, new)) = Len(agreements) + 1
        /\ \A i \in 1..Len(agreements) : Append(agreements, new)[i] = agreements[i]
        /\ Append(agreements, new)[Len(agreements) + 1] = new
    BY <1>1, AppendProperties
  <2>. QED
    BY <1>1, <2>1, LenProperties
<1>3. AgreementsOf(o)' = AgreementsOf(o)
  BY <1>1, <1>2 DEF AgreementsOf
<1> DEFINE S == AgreementsOf(o)
<1>4. LatestAgreed(o) = IF S = {} THEN None ELSE agreements[Greatest(S)].terms
  BY DEF LatestAgreed, AgreementsOf, Greatest
<1>5. LatestAgreed(o)' = IF S' = {} THEN None ELSE agreements'[Greatest(S')].terms
  BY DEF LatestAgreed, AgreementsOf, Greatest
<1>6. S # {} => Greatest(S) \in DOMAIN agreements
  BY LatestIs DEF AgreementsOf
<1>7. S' = S
  BY <1>3
<1> HIDE DEF S
<1>. QED
  BY <1>2, <1>4, <1>5, <1>6, <1>7

-----------------------------------------------------------------------------
\* There is nothing at the start.
LEMMA InitMInv == Init => MInv
<1>. SUFFICES ASSUME Init PROVE MInv
  OBVIOUS
<1>1. RInv
  BY InitRInv
<1>2. /\ orgs = <<>> /\ logins = <<>> /\ invites = <<>> /\ agreements = <<>>
      /\ \A s \in Requests : pc[s] = "idle"
  BY DEF Init
<1>3. EnrolledFirst /\ FreshWhenInvited /\ AtMostOne /\ LoginsAgreed /\ OnlyAsked
  BY <1>2 DEF EnrolledFirst, FreshWhenInvited, AtMostOne, LoginsAgreed, OnlyAsked
<1>4. \A s \in Requests : Knows(pc[s], req[s])
  BY <1>2 DEF Knows, Fitting, Branch, SeesAll, AskedRight, OwnOnly, Redeeming, Claiming, Resetting
<1>. QED
  BY <1>1, <1>3, <1>4 DEF MInv

\* A request that is elsewhere knows nothing.
LEMMA Elsewhere ==
  ASSUME NEW p, NEW r, p # "reinvite_commit", p \notin Redeeming
  PROVE  Knows(p, r)
  BY DEF Knows, Fitting, Branch, SeesAll, AskedRight, OwnOnly, Redeeming, Claiming, Resetting

\* A step that changes no login, no agreement and no invite there is.
LEMMA QuietMember ==
  ASSUME MInv, RInv', UNCHANGED <<logins, agreements, straddled>>, clock' >= clock,
         orgs' \in Seq(OrgRow),
         \A o \in DOMAIN orgs : o \in DOMAIN orgs' /\ orgs'[o].enrolled = orgs[o].enrolled,
         \A i \in DOMAIN invites : i \in DOMAIN invites' /\ invites'[i] = invites[i],
         \A i \in DOMAIN invites' \ DOMAIN invites :
           /\ invites'[i].kind = "reset" => orgs'[invites'[i].org].enrolled
           /\ invites'[i].kind = "enroll" =>
                \A l \in DOMAIN logins : logins[l].org # invites'[i].org,
         \A s \in Requests :
           \/ pc'[s] = pc[s] /\ req'[s] = req[s]
           \/ Knows(pc[s], req[s])'
  PROVE  MInv'
<1>0. /\ OInv /\ Typed /\ Begun /\ Underway /\ EnrolledFirst
      /\ \A i \in DOMAIN invites : invites[i] \in InviteRow /\ invites[i].org \in DOMAIN orgs
  BY Rows DEF MInv, RInv, OInv, Typed
<1>1. \A o : Live(o)' = Live(o)
  BY DEF Live
<1>2. \A o : LatestAgreed(o)' = LatestAgreed(o)
  BY DEF LatestAgreed
<1>3. \A i \in DOMAIN invites : OpenAt(i, clock)' => OpenAt(i, clock)
  <2>1. clock \in Nat /\ clock' \in Nat
    BY DEF RInv, OInv, Typed, MInv
  <2>2. \A i \in DOMAIN invites : invites[i].expires \in Nat
    BY <1>0 DEF InviteRow
  <2>. QED
    BY <2>1, <2>2 DEF OpenAt
<1>4. EnrolledFirst'
  BY <1>0 DEF EnrolledFirst
<1>5. FreshWhenInvited'
  <2> SUFFICES ASSUME NEW i \in DOMAIN invites', OpenAt(i, clock)', invites'[i].kind = "enroll",
                      invites'[i].org \notin straddled'
               PROVE  (Live(invites[i].org) = {})'
    BY DEF FreshWhenInvited
  <2>1. PICK o : o = invites'[i].org
    OBVIOUS
  <2>2. CASE i \in DOMAIN invites
    <3>1. Live(o) = {}
      BY <1>3, <2>1, <2>2 DEF MInv, FreshWhenInvited
    <3>. QED
      BY <2>1, <3>1 DEF Live
  <2>3. CASE i \notin DOMAIN invites
    <3>1. \A l \in DOMAIN logins : logins[l].org # o
      BY <2>1, <2>3
    <3>. QED
      BY <2>1, <3>1 DEF Live
  <2>. QED
    BY <2>2, <2>3
<1>6. AtMostOne' /\ LoginsAgreed' /\ OnlyAsked'
  BY DEF MInv, AtMostOne, LoginsAgreed, OnlyAsked
<1>7. ASSUME NEW s \in Requests PROVE Knows(pc[s], req[s])'
  <2>1. CASE Knows(pc[s], req[s])'
    BY <2>1
  <2>2. CASE pc'[s] = pc[s] /\ req'[s] = req[s]
    <3>1. PICK p, r : p = pc[s] /\ r = req[s]
      OBVIOUS
    <3>2. /\ Fitting(p, r) /\ Branch(p, r) /\ SeesAll(p, r) /\ AskedRight(p, r)
          /\ OwnOnly(p, r)
      BY <3>1 DEF MInv, Knows
    <3>3. p = "reinvite_commit" => r.org \in DOMAIN orgs
      BY <1>0, <3>1 DEF Begun, Reinviting
    <3>4. p \in Redeeming => r.invite \in DOMAIN invites
      BY <1>0, <3>1 DEF Underway, Redemption
    <3>5. Fitting(p, r)'
      BY <3>2, <3>3 DEF Fitting
    <3>6. Branch(p, r)'
      BY <3>2, <3>4 DEF Branch, Redeeming, Claiming, Resetting
    <3>7. SeesAll(p, r)'
      <4> SUFFICES ASSUME p \in {"reset_wait", "reset_commit"}, OpenAt(r.invite, clock)',
                          invites'[r.invite].org \notin straddled'
                   PROVE  (Live(invites[r.invite].org) \subseteq r.kill)'
        BY DEF SeesAll
      <4>1. PICK o : o = invites'[r.invite].org
        OBVIOUS
      <4>2. r.invite \in DOMAIN invites /\ o = invites[r.invite].org /\ OpenAt(r.invite, clock)
        BY <1>3, <3>4, <4>1 DEF Redeeming, Claiming
      <4>3. Live(o) \subseteq r.kill
        BY <3>2, <4>1, <4>2 DEF SeesAll
      <4>. QED
        BY <4>1, <4>3 DEF Live
    <3>8. AskedRight(p, r)'
      <4> SUFFICES ASSUME p \in Redeeming, OpenAt(r.invite, clock)',
                          invites'[r.invite].org \notin straddled'
                   PROVE  (r.asked = Asks(r.invite, r.terms))'
        BY DEF AskedRight
      <4>1. PICK o : o = invites'[r.invite].org
        OBVIOUS
      <4>2. r.invite \in DOMAIN invites /\ o = invites[r.invite].org /\ OpenAt(r.invite, clock)
        BY <1>3, <3>4, <4>1
      <4>3. r.asked = Asks(r.invite, r.terms)
        BY <3>2, <4>1, <4>2 DEF AskedRight
      <4>4. Asks(r.invite, r.terms)' = Asks(r.invite, r.terms)
        BY <1>2, <4>2 DEF Asks
      <4>. QED
        BY <4>3, <4>4
    <3>10. OwnOnly(p, r)'
      BY <3>2, <3>4 DEF OwnOnly, Redeeming, Claiming
    <3>9. Knows(p, r)'
      BY <3>5, <3>6, <3>7, <3>8, <3>10 DEF Knows
    <3>. QED
      BY <2>2, <3>1, <3>9
  <2>. QED
    BY <2>1, <2>2
<1>. QED
  BY <1>4, <1>5, <1>6, <1>7 DEF MInv

\* A step of one request that leaves all the tables alone.
LEMMA LocalMember ==
  ASSUME MInv, RInv', NEW s \in Requests, NEW next, NEW r, Go(s, next, r), Knows(next, r),
         UNCHANGED <<clock, orgs, invites, logins, agreements, straddled>>
  PROVE  MInv'
<1>1. \A t \in Requests : t # s => pc'[t] = pc[t] /\ req'[t] = req[t]
  BY DEF Go, MInv, RInv, OInv, Typed
<1>2. pc'[s] = next /\ req'[s] = r
  BY DEF Go, MInv, RInv, OInv, Typed
<1>3. Knows(next, r)'
  BY DEF Knows, Fitting, Branch, SeesAll, AskedRight, OwnOnly, OpenAt, Live, Asks, LatestAgreed
<1>4. Knows(pc[s], req[s])'
  BY <1>2, <1>3
<1>5. clock' >= clock /\ orgs' \in Seq(OrgRow)
  BY DEF MInv, RInv, OInv, Typed, EnrolledFirst
<1>. QED
  BY <1>1, <1>4, <1>5, QuietMember

-----------------------------------------------------------------------------
\* A redemption that commits: its organization has no other open invite, unless
\* it straddles its expiry, so what it read before is still so.
LEMMA CommitMember ==
  ASSUME MInv, RInv', NEW s \in Requests, pc[s] \in Claiming, Finish(s), UNCHANGED clock,
         invites' = Accepted(s), Straddle(s),
         NEW o, o = OrgOf(s), ~OrgLocked(o),
         orgs' \in Seq(OrgRow), DOMAIN orgs' = DOMAIN orgs, orgs'[o].enrolled,
         \A p \in DOMAIN orgs : p # o => orgs'[p].enrolled = orgs[p].enrolled,
         NEW q \in Seq(LoginRow), Len(q) = Len(logins),
         \A l \in 1..Len(q) :
           /\ q[l].org = logins[l].org /\ q[l].terms = logins[l].terms
           /\ logins[l].org # o => q[l].revoked = logins[l].revoked
           /\ logins[l].org = o /\ o \notin straddled' => q[l].revoked,
         logins' = Append(q, NewLogin(s)),
         \/ agreements' = agreements /\ LatestAgreed(o) = req[s].terms
         \/ /\ agreements' = Append(agreements, Agreement(s))
            /\ o \notin straddled' => req[s].asked
  PROVE  MInv'
<1> DEFINE i == req[s].invite
           n == Len(logins) + 1
           new == NewLogin(s)
           agr == Agreement(s)
<1>0. /\ Len(invites) \in Nat /\ DOMAIN invites = 1..Len(invites)
      /\ Len(logins) \in Nat /\ DOMAIN logins = 1..Len(logins)
      /\ \A l \in DOMAIN logins : logins[l] \in LoginRow
      /\ \A j \in DOMAIN invites : invites[j] \in InviteRow
      /\ OInv /\ Typed /\ Begun /\ Underway /\ EnrolledFirst /\ OnlyAsked /\ RInv
      /\ clock \in Nat
      /\ \A j \in DOMAIN invites : invites[j].org \in DOMAIN orgs
  BY Rows DEF MInv, RInv, OInv, Typed
<1>1. /\ req[s] \in Redemption /\ i \in DOMAIN invites /\ ~invites[i].accepted
      /\ o = invites[i].org /\ o \in Nat /\ o \in DOMAIN orgs
  BY <1>0 DEF RInv, Underway, Redeeming, Unspent, Redemption, OrgOf, InviteRow
<1>2. /\ DOMAIN invites' = DOMAIN invites /\ invites'[i].accepted
      /\ \A j \in DOMAIN invites :
           /\ invites'[j].org = invites[j].org /\ invites'[j].kind = invites[j].kind
           /\ invites'[j].expires = invites[j].expires
           /\ j # i => invites'[j] = invites[j]
  <2>1. invites' = [invites EXCEPT ![i] = [invites[i] EXCEPT !.accepted = TRUE]]
    BY DEF Accepted
  <2>2. invites \in [1..Len(invites) -> InviteRow]
    BY <1>0, LenProperties DEF Typed
  <2>3. [invites[i] EXCEPT !.accepted = TRUE] \in InviteRow
    BY <1>0, <1>1 DEF InviteRow
  <2>. QED
    BY <1>0, <1>1, <2>1, <2>2, <2>3 DEF InviteRow
<1>3. /\ new \in LoginRow /\ new.by = i /\ new.org = o /\ new.terms = req[s].terms
      /\ new.revoked = FALSE
  BY <1>0, <1>1 DEF NewLogin, OrgOf, LoginRow, Redemption, InviteRow
<1>4. agr \in AgreementRow /\ agr.org = o /\ agr.terms = req[s].terms /\ agr.asked = req[s].asked
  BY <1>0, <1>1 DEF Agreement, OrgOf, AgreementRow, Redemption, InviteRow
<1>5. straddled \subseteq straddled' /\ straddled' \subseteq straddled \cup {o}
      /\ (invites[i].expires <= clock => o \in straddled')
  BY <1>1 DEF Straddle, OrgOf
<1> HIDE DEF new, agr
<1>6. /\ logins' \in Seq(LoginRow) /\ DOMAIN logins' = 1..n
      /\ \A l \in 1..Len(logins) : logins'[l] = q[l]
      /\ logins'[n] = new
  <2>1. logins' = Append(q, new)
    BY DEF new
  <2>2. /\ Append(q, new) \in Seq(LoginRow)
        /\ Len(Append(q, new)) = Len(q) + 1
        /\ \A l \in 1..Len(q) : Append(q, new)[l] = q[l]
        /\ Append(q, new)[Len(q) + 1] = new
    BY <1>3, AppendProperties
  <2>. QED
    BY <2>1, <2>2, LenProperties
<1>7. /\ Len(agreements) \in Nat /\ DOMAIN agreements = 1..Len(agreements)
      /\ agreements' \in Seq(AgreementRow)
      /\ DOMAIN agreements \subseteq DOMAIN agreements'
      /\ \A j \in DOMAIN agreements : agreements'[j] = agreements[j]
      /\ \A j \in DOMAIN agreements' \ DOMAIN agreements :
           agreements'[j] = agr /\ agreements' = Append(agreements, Agreement(s))
      /\ \E j \in DOMAIN agreements' : agreements'[j].org = o /\ agreements'[j].terms = req[s].terms
  <2>1. /\ Len(agreements) \in Nat /\ DOMAIN agreements = 1..Len(agreements)
        /\ agreements \in Seq(AgreementRow)
    BY <1>0, LenProperties DEF OnlyAsked
  <2>2. CASE agreements' = agreements /\ LatestAgreed(o) = req[s].terms
    <3>1. req[s].terms # None
      BY <1>1, EnrollmentAssumption DEF Redemption
    <3>2. PICK g : g \in AgreementsOf(o) /\ LatestAgreed(o) = agreements[g].terms
      BY <1>0, <2>2, <3>1, LatestIs
    <3>. QED
      BY <2>1, <2>2, <3>2 DEF AgreementsOf
  <2>3. CASE agreements' = Append(agreements, Agreement(s))
    <3>1. agreements' = Append(agreements, agr)
      BY <2>3 DEF agr
    <3>2. /\ Append(agreements, agr) \in Seq(AgreementRow)
          /\ Len(Append(agreements, agr)) = Len(agreements) + 1
          /\ \A j \in 1..Len(agreements) : Append(agreements, agr)[j] = agreements[j]
          /\ Append(agreements, agr)[Len(agreements) + 1] = agr
      BY <1>4, <2>1, AppendProperties
    <3>3. /\ agreements' \in Seq(AgreementRow)
          /\ DOMAIN agreements' = 1..Len(agreements) + 1
          /\ \A j \in DOMAIN agreements : agreements'[j] = agreements[j]
          /\ agreements'[Len(agreements) + 1] = agr
      BY <2>1, <3>1, <3>2, LenProperties
    <3>4. \A j \in DOMAIN agreements' \ DOMAIN agreements : j = Len(agreements) + 1
      BY <2>1, <3>3
    <3>5. Len(agreements) + 1 \in DOMAIN agreements' /\ DOMAIN agreements \subseteq DOMAIN agreements'
      BY <2>1, <3>3
    <3>6. \E j \in DOMAIN agreements' : agreements'[j].org = o /\ agreements'[j].terms = req[s].terms
      BY <1>4, <3>3, <3>5
    <3>. QED
      BY <2>1, <2>3, <3>3, <3>4, <3>5, <3>6
  <2>. QED
    BY <2>2, <2>3
<1>8. \A p : p # o => LatestAgreed(p)' = LatestAgreed(p)
  <2>1. CASE agreements' = agreements
    BY <2>1 DEF LatestAgreed
  <2>2. CASE agreements' = Append(agreements, Agreement(s))
    <3>1. agreements' = Append(agreements, agr)
      BY <2>2 DEF agr
    <3>. QED
      BY <1>0, <1>4, <3>1, LatestKept
  <2>. QED
    BY <2>1, <2>2
<1>9. /\ \A t \in Requests : t # s => pc'[t] = pc[t] /\ req'[t] = req[t]
      /\ pc'[s] = "idle"
  BY <1>0 DEF Finish, Go, Typed
<1>10. ASSUME NEW j \in DOMAIN invites, invites[j].org = o, OpenAt(j, clock)'
       PROVE  o \in straddled'
  <2>1. j # i /\ OpenAt(j, clock)
    BY <1>2, <1>10 DEF OpenAt
  <2>2. ~OpenAt(i, clock)
    BY <1>1, <1>10, <2>1 DEF RInv, OInv, OneOpenInvite, MInv
  <2>3. invites[i].expires <= clock
    BY <1>0, <1>1, <2>2 DEF OpenAt, InviteRow
  <2>. QED
    BY <1>5, <2>3
<1> HIDE DEF i
<1>11. ASSUME NEW j \in DOMAIN invites, OpenAt(j, clock)', invites'[j].org \notin straddled'
       PROVE  /\ OpenAt(j, clock) /\ j # i /\ invites[j].org \notin straddled
              /\ invites[j].org # o
  BY <1>2, <1>5, <1>10, <1>11 DEF OpenAt
<1>12. ASSUME NEW p, p # o PROVE Live(p)' = Live(p)
  <2>1. \A l \in 1..Len(logins) :
          /\ logins'[l].org = logins[l].org
          /\ logins[l].org = p => logins'[l].revoked = logins[l].revoked
    BY <1>6, <1>12
  <2>2. 1..n = 1..Len(logins) \cup {n} /\ logins'[n].org # p
    BY <1>0, <1>3, <1>6, <1>12
  <2>3. Live(p) = {l \in 1..Len(logins) : logins[l].org = p /\ ~logins[l].revoked}
    BY <1>0 DEF Live
  <2>4. Live(p)' = {l \in 1..n : logins'[l].org = p /\ ~logins'[l].revoked}
    BY <1>6 DEF Live
  <2> HIDE DEF n
  <2>. QED
    BY <2>1, <2>2, <2>3, <2>4
<1>13. EnrolledFirst'
  <2>1. \A l \in 1..n : logins'[l].org \in DOMAIN orgs' /\ orgs'[logins'[l].org].enrolled
    <3> SUFFICES ASSUME NEW l \in 1..n
                 PROVE  logins'[l].org \in DOMAIN orgs' /\ orgs'[logins'[l].org].enrolled
      OBVIOUS
    <3>1. CASE l = n
      BY <1>1, <1>3, <1>6, <3>1
    <3>2. CASE l \in DOMAIN logins
      <4>1. logins'[l].org = logins[l].org
        BY <1>0, <1>6, <3>2
      <4>. QED
        BY <1>0, <3>2, <4>1 DEF EnrolledFirst
    <3>. QED
      BY <1>0, <3>1, <3>2
  <2>2. \A j \in DOMAIN invites' : invites'[j].kind = "reset" => orgs'[invites'[j].org].enrolled
    BY <1>0, <1>2 DEF EnrolledFirst
  <2>. QED
    BY <1>6, <2>1, <2>2 DEF EnrolledFirst
<1>14. FreshWhenInvited'
  <2> SUFFICES ASSUME NEW j \in DOMAIN invites', OpenAt(j, clock)', invites'[j].kind = "enroll",
                      invites'[j].org \notin straddled'
               PROVE  (Live(invites[j].org) = {})'
    BY DEF FreshWhenInvited
  <2>1. PICK p : p = invites'[j].org
    OBVIOUS
  <2>2. j \in DOMAIN invites /\ p = invites[j].org /\ invites[j].kind = "enroll"
    BY <1>2, <2>1
  <2>3. OpenAt(j, clock) /\ p \notin straddled /\ p # o
    BY <1>11, <2>1, <2>2
  <2>4. Live(p) = {}
    BY <2>2, <2>3 DEF MInv, FreshWhenInvited
  <2>5. Live(p)' = {}
    BY <1>12, <2>3, <2>4
  <2>. QED
    BY <2>1, <2>5 DEF Live
<1>15. AtMostOne'
  <2> SUFFICES ASSUME NEW l \in 1..n, NEW m \in 1..n, logins'[l].org = logins'[m].org,
                      logins'[l].org \notin straddled', ~logins'[l].revoked, ~logins'[m].revoked
               PROVE  l = m
    BY <1>6 DEF AtMostOne
  <2>1. ASSUME NEW k \in 1..n, logins'[k].org = o, ~logins'[k].revoked, o \notin straddled' PROVE k = n
    BY <1>0, <1>6, <2>1
  <2>2. CASE logins'[l].org = o
    BY <2>1, <2>2
  <2>3. CASE logins'[l].org # o
    <3>1. l \in DOMAIN logins /\ m \in DOMAIN logins
      BY <1>0, <1>3, <1>6, <2>3
    <3>2. /\ logins'[l].org = logins[l].org /\ logins'[m].org = logins[m].org
          /\ logins'[l].revoked = logins[l].revoked /\ logins'[m].revoked = logins[m].revoked
      BY <1>0, <1>6, <2>3, <3>1
    <3>. QED
      BY <1>5, <3>1, <3>2 DEF MInv, AtMostOne
  <2>. QED
    BY <2>2, <2>3
<1>16. LoginsAgreed'
  <2> SUFFICES ASSUME NEW l \in 1..n
               PROVE  \E j \in DOMAIN agreements' :
                        agreements'[j].org = logins'[l].org /\ agreements'[j].terms = logins'[l].terms
    BY <1>6 DEF LoginsAgreed
  <2>1. CASE l = n
    BY <1>3, <1>6, <1>7, <2>1
  <2>2. CASE l \in DOMAIN logins
    <3>1. logins'[l].org = logins[l].org /\ logins'[l].terms = logins[l].terms
      BY <1>0, <1>6, <2>2
    <3>2. PICK j \in DOMAIN agreements :
            agreements[j].org = logins[l].org /\ agreements[j].terms = logins[l].terms
      BY <2>2 DEF MInv, LoginsAgreed
    <3>. QED
      BY <1>7, <3>1, <3>2
  <2>3. l = n \/ l \in DOMAIN logins
    BY <1>0
  <2>. QED
    BY <2>1, <2>2, <2>3
<1>17. OnlyAsked'
  <2> SUFFICES ASSUME NEW j \in DOMAIN agreements', agreements'[j].org \notin straddled'
               PROVE  agreements'[j].asked
    BY <1>7 DEF OnlyAsked
  <2>1. CASE j \in DOMAIN agreements
    BY <1>0, <1>5, <1>7, <2>1 DEF OnlyAsked
  <2>2. CASE j \notin DOMAIN agreements
    <3>1. agreements'[j] = agr /\ agreements' = Append(agreements, Agreement(s))
      BY <1>7, <2>2
    <3>2. agreements' # agreements
      BY <2>2
    <3>. QED
      BY <1>4, <3>1, <3>2
  <2>. QED
    BY <2>1, <2>2
<1>18. ASSUME NEW t \in Requests PROVE Knows(pc[t], req[t])'
  <2>1. PICK p, r : p = pc'[t] /\ r = req'[t]
    OBVIOUS
  <2>2. CASE t = s
    <3>1. p # "reinvite_commit" /\ p \notin Redeeming
      BY <1>9, <2>1, <2>2 DEF Redeeming, Claiming
    <3>2. Knows(p, r)'
      BY <3>1 DEF Knows, Fitting, Branch, SeesAll, AskedRight, OwnOnly, Redeeming, Claiming, Resetting
    <3>. QED
      BY <2>1, <3>2
  <2>3. CASE t # s
    <3>1. p = pc[t] /\ r = req[t]
      BY <1>9, <2>1, <2>3
    <3>2. /\ Fitting(p, r) /\ Branch(p, r) /\ SeesAll(p, r) /\ AskedRight(p, r)
          /\ OwnOnly(p, r)
      BY <3>1 DEF MInv, Knows
    <3>3. p \in Redeeming => r.invite \in DOMAIN invites
      BY <1>0, <3>1 DEF Underway, Redemption
    <3>4. Fitting(p, r)'
      <4>1. p = "reinvite_commit" => r.org \in DOMAIN orgs /\ r.org # o
        BY <1>0, <3>1 DEF Begun, Reinviting, OrgLocked
      <4>. QED
        BY <3>2, <4>1 DEF Fitting
    <3>5. Branch(p, r)'
      BY <1>2, <3>2, <3>3 DEF Branch, Redeeming, Claiming, Resetting
    <3>6. SeesAll(p, r)'
      <4> SUFFICES ASSUME p \in {"reset_wait", "reset_commit"}, OpenAt(r.invite, clock)',
                          invites'[r.invite].org \notin straddled'
                   PROVE  (Live(invites[r.invite].org) \subseteq r.kill)'
        BY DEF SeesAll
      <4>1. PICK k : k = invites'[r.invite].org
        OBVIOUS
      <4>2. /\ r.invite \in DOMAIN invites /\ k = invites[r.invite].org /\ OpenAt(r.invite, clock)
            /\ k \notin straddled /\ k # o
        BY <1>2, <1>11, <3>3, <4>1 DEF Redeeming, Claiming
      <4>3. Live(k) \subseteq r.kill
        BY <3>2, <4>2 DEF SeesAll
      <4>4. Live(k)' \subseteq r.kill
        BY <1>12, <4>2, <4>3
      <4>. QED
        BY <4>1, <4>4 DEF Live
    <3>7. AskedRight(p, r)'
      <4> SUFFICES ASSUME p \in Redeeming, OpenAt(r.invite, clock)',
                          invites'[r.invite].org \notin straddled'
                   PROVE  (r.asked = Asks(r.invite, r.terms))'
        BY DEF AskedRight
      <4>1. PICK k : k = invites'[r.invite].org
        OBVIOUS
      <4>2. /\ r.invite \in DOMAIN invites /\ k = invites[r.invite].org /\ OpenAt(r.invite, clock)
            /\ k \notin straddled /\ k # o /\ invites'[r.invite].kind = invites[r.invite].kind
        BY <1>2, <1>11, <3>3, <4>1
      <4>3. r.asked = Asks(r.invite, r.terms)
        BY <3>2, <4>1, <4>2 DEF AskedRight
      <4>4. LatestAgreed(k)' = LatestAgreed(k)
        BY <1>8, <4>2
      <4>5. (LatestAgreed(invites[r.invite].org))' = LatestAgreed(k)'
        BY <4>1 DEF LatestAgreed
      <4>6. Asks(r.invite, r.terms)' = Asks(r.invite, r.terms)
        BY <4>2, <4>4, <4>5 DEF Asks
      <4>. QED
        BY <4>3, <4>6
    <3>9. OwnOnly(p, r)'
      <4>1. \A l \in DOMAIN logins : l \in DOMAIN logins' /\ logins'[l].org = logins[l].org
        BY <1>0, <1>6
      <4>. QED
        BY <1>2, <3>2, <3>3, <4>1 DEF OwnOnly, Redeeming, Claiming
    <3>8. Knows(p, r)'
      BY <3>4, <3>5, <3>6, <3>7, <3>9 DEF Knows
    <3>. QED
      BY <2>1, <3>8
  <2>. QED
    BY <2>2, <2>3
<1>. QED
  BY <1>13, <1>14, <1>15, <1>16, <1>17, <1>18 DEF MInv

\* An organization's row, with its name and that it has enrolled.
LEMMA EnrolledRow ==
  ASSUME orgs \in Seq(OrgRow), NEW o \in DOMAIN orgs, NEW name \in Names \cup {None},
         orgs' = [orgs EXCEPT ![o].name = name, ![o].enrolled = TRUE]
  PROVE  /\ orgs' \in Seq(OrgRow) /\ DOMAIN orgs' = DOMAIN orgs /\ orgs'[o].enrolled
         /\ \A p \in DOMAIN orgs : p # o => orgs'[p].enrolled = orgs[p].enrolled
<1>1. orgs \in [1..Len(orgs) -> OrgRow] /\ Len(orgs) \in Nat /\ DOMAIN orgs = 1..Len(orgs)
  BY LenProperties
<1>2. PICK yes : yes = TRUE
  OBVIOUS
<1>3. PICK v : v = [[orgs[o] EXCEPT !.name = name] EXCEPT !.enrolled = yes]
  OBVIOUS
<1>4. orgs[o] \in OrgRow
  BY <1>1
<1>5. v \in OrgRow /\ v.enrolled = yes
  BY <1>2, <1>3, <1>4 DEF OrgRow
<1>6. orgs' = [orgs EXCEPT ![o] = v]
  <2>1. orgs' = [[orgs EXCEPT ![o] = [orgs[o] EXCEPT !.name = name]]
                   EXCEPT ![o] = [[orgs EXCEPT ![o] = [orgs[o] EXCEPT !.name = name]][o]
                                    EXCEPT !.enrolled = yes]]
    BY <1>2
  <2>2. PICK u : u = [orgs[o] EXCEPT !.name = name]
    OBVIOUS
  <2>3. [orgs EXCEPT ![o] = u][o] = u /\ v = [u EXCEPT !.enrolled = yes]
    BY <1>3, <2>2
  <2>4. orgs' = [[orgs EXCEPT ![o] = u] EXCEPT ![o] = v]
    BY <2>1, <2>2, <2>3
  <2>. QED
    BY <1>1, <2>4
<1>7. orgs' \in [1..Len(orgs) -> OrgRow]
  BY <1>1, <1>5, <1>6
<1>8. orgs' \in Seq(OrgRow)
  <2>1. PICK c : c = orgs'
    OBVIOUS
  <2>2. c \in [1..Len(orgs) -> OrgRow]
    BY <1>7, <2>1
  <2>3. c \in Seq(OrgRow)
    BY <1>1, <2>2, SeqDef
  <2>. QED
    BY <2>1, <2>3
<1>. QED
  BY <1>1, <1>2, <1>5, <1>6, <1>8

\* An enrollment, refused or not: nobody had a login.
LEMMA EnrollMember == ASSUME MInv, RInv', NEW s \in Requests, EnrollCommit(s) PROVE MInv'
<1>1. Finish(s) /\ pc[s] \in Claiming /\ UNCHANGED clock /\ pc[s] = "enroll_commit"
  BY DEF EnrollCommit, Claiming
<1>2. CASE NameRefused(s, req[s].name)
  <2>1. Knows("idle", None)
    BY Elsewhere DEF Redeeming, Claiming
  <2>. QED
    BY <1>1, <1>2, <2>1, LocalMember DEF EnrollCommit, members, Finish
<1>3. CASE ~NameRefused(s, req[s].name)
  <2>1. PICK o, name : o = OrgOf(s) /\ name = req[s].name
    OBVIOUS
  <2>2. /\ invites' = Accepted(s) /\ Straddle(s) /\ ~OrgLocked(o)
        /\ orgs' = [orgs EXCEPT ![o].name = name, ![o].enrolled = TRUE]
        /\ logins' = Append(logins, NewLogin(s))
        /\ agreements' = Append(agreements, Agreement(s))
    BY <1>3, <2>1 DEF EnrollCommit
  <2>3. /\ OInv /\ Typed /\ Underway /\ Unspent /\ EnrolledFirst /\ MadeByInvites /\ Knows(pc[s], req[s])
        /\ Len(logins) \in Nat /\ DOMAIN logins = 1..Len(logins) /\ logins \in Seq(LoginRow)
        /\ \A i \in DOMAIN invites : invites[i] \in InviteRow /\ invites[i].org \in DOMAIN orgs
    BY Rows DEF MInv, RInv, OInv, Typed, MadeByInvites
  <2>4. /\ req[s].invite \in DOMAIN invites /\ o \in DOMAIN orgs /\ o = invites[req[s].invite].org
        /\ invites[req[s].invite].kind = "enroll" /\ ~invites[req[s].invite].accepted
        /\ name \in Names \cup {None} /\ req[s] \in Redemption
    BY <1>1, <2>1, <2>3 DEF Underway, Unspent, Redeeming, Claiming, Redemption, OrgOf, Knows, Branch
  <2>5. name \in Names \cup {None} /\ orgs \in Seq(OrgRow)
    BY <2>3, <2>4 DEF EnrolledFirst
  <2>6. /\ orgs' \in Seq(OrgRow) /\ DOMAIN orgs' = DOMAIN orgs /\ orgs'[o].enrolled
        /\ \A p \in DOMAIN orgs : p # o => orgs'[p].enrolled = orgs[p].enrolled
    BY <2>2, <2>4, <2>5, EnrolledRow
  <2>7. o \notin straddled' => OpenAt(req[s].invite, clock) /\ o \notin straddled
    <3>1. clock \in Nat /\ invites[req[s].invite].expires \in Nat
      BY <2>3, <2>4 DEF Typed, InviteRow
    <3>. QED
      BY <2>1, <2>2, <2>4, <3>1 DEF Straddle, OpenAt
  <2>8. o \notin straddled' => Live(o) = {}
    BY <2>4, <2>7 DEF MInv, FreshWhenInvited
  <2>9. o \notin straddled' => req[s].asked
    <3>1. Asks(req[s].invite, req[s].terms) = TRUE
      BY <2>4 DEF Asks
    <3>2. pc[s] \in Redeeming
      BY <1>1 DEF Redeeming
    <3>. QED
      BY <2>3, <2>4, <2>7, <3>1, <3>2 DEF Knows, AskedRight
  <2>10. \A l \in 1..Len(logins) :
           /\ logins[l].org = logins[l].org /\ logins[l].terms = logins[l].terms
           /\ logins[l].org # o => logins[l].revoked = logins[l].revoked
           /\ logins[l].org = o /\ o \notin straddled' => logins[l].revoked
    BY <2>3, <2>8 DEF Live
  <2>. QED
    BY <1>1, <2>1, <2>2, <2>3, <2>6, <2>9, <2>10, CommitMember
<1>. QED
  BY <1>2, <1>3

\* A reset: every login that lives is among those it has read.
LEMMA ResetMember == ASSUME MInv, RInv', NEW s \in Requests, ResetCommit(s) PROVE MInv'
<1>1. Finish(s) /\ pc[s] \in Claiming /\ UNCHANGED <<clock, orgs>> /\ pc[s] = "reset_commit"
  BY DEF ResetCommit, Claiming
<1>2. PICK o, q : o = OrgOf(s) /\ q = RevokedLogins(s)
  OBVIOUS
<1>3. /\ invites' = Accepted(s) /\ Straddle(s) /\ ~OrgLocked(o)
      /\ logins' = Append(q, NewLogin(s))
      /\ agreements' = IF AgreesAnew(o, req[s].terms) THEN Append(agreements, Agreement(s)) ELSE agreements
  BY <1>2 DEF ResetCommit, ReplacedLogins
<1>4. /\ OInv /\ Typed /\ Underway /\ Unspent /\ EnrolledFirst /\ MadeByInvites /\ Knows(pc[s], req[s])
      /\ Len(logins) \in Nat /\ DOMAIN logins = 1..Len(logins)
      /\ \A l \in DOMAIN logins : logins[l] \in LoginRow
      /\ \A i \in DOMAIN invites : invites[i] \in InviteRow /\ invites[i].org \in DOMAIN orgs
  BY Rows DEF MInv, RInv, OInv, Typed
<1>5. /\ req[s].invite \in DOMAIN invites /\ o \in DOMAIN orgs /\ o = invites[req[s].invite].org
      /\ invites[req[s].invite].kind = "reset" /\ ~invites[req[s].invite].accepted
      /\ req[s] \in Redemption
  BY <1>1, <1>2, <1>4 DEF Underway, Unspent, Redeeming, Claiming, Resetting, Redemption, OrgOf, Knows, Branch
<1>6. orgs' \in Seq(OrgRow) /\ DOMAIN orgs' = DOMAIN orgs /\ orgs'[o].enrolled
      /\ \A p \in DOMAIN orgs : p # o => orgs'[p].enrolled = orgs[p].enrolled
  BY <1>1, <1>4, <1>5 DEF EnrolledFirst
<1>7. o \notin straddled' => OpenAt(req[s].invite, clock) /\ o \notin straddled
  <2>1. clock \in Nat /\ invites[req[s].invite].expires \in Nat
    BY <1>4, <1>5 DEF Typed, InviteRow
  <2>. QED
    BY <1>2, <1>3, <1>5, <2>1 DEF Straddle, OpenAt
<1>8. o \notin straddled' => Live(o) \subseteq req[s].kill
  BY <1>1, <1>4, <1>5, <1>7 DEF Knows, SeesAll
<1>9. req[s].kill \subseteq Nat
  BY <1>5 DEF Redemption
<1>10. q = [l \in 1..Len(logins) |->
              IF l \in req[s].kill THEN [logins[l] EXCEPT !.revoked = TRUE] ELSE logins[l]]
  BY <1>2, <1>4 DEF RevokedLogins
<1>11. \A l \in 1..Len(logins) :
         /\ [logins[l] EXCEPT !.revoked = TRUE] \in LoginRow
         /\ [logins[l] EXCEPT !.revoked = TRUE].by = logins[l].by
         /\ [logins[l] EXCEPT !.revoked = TRUE].org = logins[l].org
         /\ [logins[l] EXCEPT !.revoked = TRUE].terms = logins[l].terms
         /\ [logins[l] EXCEPT !.revoked = TRUE].revoked = TRUE
  BY <1>4 DEF LoginRow
<1>12. q \in [1..Len(logins) -> LoginRow]
  BY <1>4, <1>10, <1>11
<1>13. q \in Seq(LoginRow) /\ Len(q) = Len(logins)
  BY <1>4, <1>12, SeqDef, LenProperties
<1>14. \A l \in req[s].kill : logins[l].org = o
  BY <1>1, <1>4, <1>5 DEF Knows, OwnOnly
<1>15. \A l \in 1..Len(q) :
         /\ q[l].org = logins[l].org /\ q[l].terms = logins[l].terms
         /\ logins[l].org # o => q[l].revoked = logins[l].revoked
         /\ logins[l].org = o /\ o \notin straddled' => q[l].revoked
  <2> SUFFICES ASSUME NEW l \in 1..Len(logins)
               PROVE  /\ q[l].org = logins[l].org /\ q[l].terms = logins[l].terms
                      /\ logins[l].org # o => q[l].revoked = logins[l].revoked
                      /\ logins[l].org = o /\ o \notin straddled' => q[l].revoked
    BY <1>13
  <2>1. q[l] = IF l \in req[s].kill THEN [logins[l] EXCEPT !.revoked = TRUE] ELSE logins[l]
    BY <1>10
  <2>2. CASE l \in req[s].kill
    BY <1>11, <1>14, <2>1, <2>2
  <2>3. CASE l \notin req[s].kill
    <3>1. logins[l].org = o /\ o \notin straddled' => l \notin Live(o)
      BY <1>8, <2>3
    <3>. QED
      BY <1>4, <2>1, <2>3, <3>1 DEF Live
  <2>. QED
    BY <2>2, <2>3
<1>16. \/ agreements' = agreements /\ LatestAgreed(o) = req[s].terms
       \/ /\ agreements' = Append(agreements, Agreement(s))
          /\ o \notin straddled' => req[s].asked
  <2>1. CASE AgreesAnew(o, req[s].terms)
    <3>1. agreements' = Append(agreements, Agreement(s))
      BY <1>3, <2>1
    <3>2. Asks(req[s].invite, req[s].terms) = TRUE
      BY <1>5, <2>1 DEF Asks, AgreesAnew
    <3>3. pc[s] \in Redeeming
      BY <1>1 DEF Redeeming
    <3>4. o \notin straddled' => req[s].asked
      BY <1>4, <1>5, <1>7, <3>2, <3>3 DEF Knows, AskedRight
    <3>. QED
      BY <3>1, <3>4
  <2>2. CASE ~AgreesAnew(o, req[s].terms)
    BY <1>3, <2>2 DEF AgreesAnew
  <2>. QED
    BY <2>1, <2>2
<1>17. UNCHANGED clock /\ o = OrgOf(s) /\ pc[s] \in Claiming /\ Finish(s)
  BY <1>1, <1>2
<1>. QED
  BY <1>3, <1>6, <1>13, <1>15, <1>16, <1>17, CommitMember

-----------------------------------------------------------------------------
\* An invitation, a claim and what a reset reads, each of what is so then.
LEMMA LockMember == ASSUME MInv, RInv', NEW s \in Requests, ReinviteLock(s) PROVE MInv'
<1>1. req[s] \in [org : DOMAIN orgs, at : 0..clock, kind : {None, "enroll", "reset"}]
  BY DEF ReinviteLock, MInv, RInv, OInv, Begun, Reinviting
<1>2. UNCHANGED <<clock, orgs, invites, logins, agreements, straddled>>
  BY DEF ReinviteLock, members
<1>3. PICK o : o = req[s].org
  OBVIOUS
<1>4. PICK next, r : Go(s, next, r) /\ Knows(next, r)
  <2>1. CASE HasOpenInvite(o, req[s].at)
    <3>1. Go(s, "idle", None)
      BY <1>3, <2>1 DEF ReinviteLock, Finish
    <3>2. Knows("idle", None)
      BY Elsewhere DEF Redeeming, Claiming
    <3>. QED
      BY <3>1, <3>2
  <2>2. CASE ~HasOpenInvite(o, req[s].at)
    <3>1. PICK kind : kind = IF orgs[o].enrolled THEN "reset" ELSE "enroll"
      OBVIOUS
    <3>2. PICK r : r = [req[s] EXCEPT !.kind = kind]
      OBVIOUS
    <3>3. Go(s, "reinvite_commit", r)
      BY <1>3, <2>2, <3>1, <3>2 DEF ReinviteLock
    <3>4. r.kind = kind /\ r.org = o
      BY <1>1, <1>3, <3>2
    <3>5. Knows("reinvite_commit", r)
      BY <3>1, <3>4
      DEF Knows, Fitting, Branch, SeesAll, AskedRight, OwnOnly, Redeeming, Claiming, Resetting
    <3>. QED
      BY <3>3, <3>5
  <2>. QED
    BY <2>1, <2>2
<1>. QED
  BY <1>2, <1>4, LocalMember

LEMMA RedeemMember ==
  ASSUME MInv, RInv', NEW s \in Requests, NEW i \in DOMAIN invites, NEW terms \in Terms,
         Redeem(s, i, terms)
  PROVE  MInv'
<1>1. PICK r : r = [invite |-> i, name |-> None, terms |-> terms, asked |-> Asks(i, terms),
                    at |-> clock, kill |-> {}]
  OBVIOUS
<1>2. Go(s, "claim", r) /\ UNCHANGED <<clock, orgs, invites, logins, agreements, straddled>>
  BY <1>1 DEF Redeem, Begin, Go, members
<1>3. r.invite = i /\ r.terms = terms /\ r.asked = Asks(i, terms)
  BY <1>1
<1>4. Knows("claim", r)
  BY <1>3 DEF Knows, Fitting, Branch, SeesAll, AskedRight, OwnOnly, Resetting
<1>. QED
  BY <1>2, <1>4, LocalMember

LEMMA ClaimMember == ASSUME MInv, RInv', NEW s \in Requests, Claim(s) PROVE MInv'
<1>1. UNCHANGED <<clock, orgs, invites, logins, agreements, straddled>> /\ pc[s] = "claim"
  BY DEF Claim, members
<1>2. req[s] \in Redemption /\ AskedRight(pc[s], req[s])
  BY <1>1 DEF MInv, RInv, Underway, Redeeming, Knows
<1>3. PICK next, r : Go(s, next, r) /\ Knows(next, r)
  <2>1. CASE \E name \in Names : /\ Go(s, "enroll_commit", [req[s] EXCEPT !.name = name])
                                 /\ invites[req[s].invite].kind = "enroll"
    <3>1. PICK name \in Names : Go(s, "enroll_commit", [req[s] EXCEPT !.name = name])
      BY <2>1
    <3>2. PICK r : r = [req[s] EXCEPT !.name = name]
      OBVIOUS
    <3>3. r.invite = req[s].invite /\ r.terms = req[s].terms /\ r.asked = req[s].asked
      BY <1>2, <3>2 DEF Redemption
    <3>4. Knows("enroll_commit", r)
      BY <1>1, <1>2, <2>1, <3>3
      DEF Knows, Fitting, Branch, SeesAll, AskedRight, OwnOnly, Resetting, Redeeming, Claiming
    <3>. QED
      BY <3>1, <3>2, <3>4
  <2>2. CASE Go(s, "reset_read", req[s]) /\ invites[req[s].invite].kind # "enroll"
    <3>1. invites[req[s].invite].kind = "reset"
      BY <1>2, <2>2, Rows DEF MInv, Redemption, InviteRow
    <3>2. Knows("reset_read", req[s])
      BY <1>1, <1>2, <3>1
      DEF Knows, Fitting, Branch, SeesAll, AskedRight, OwnOnly, Resetting, Redeeming, Claiming
    <3>. QED
      BY <2>2, <3>2
  <2>3. CASE Finish(s)
    <3>1. Knows("idle", None)
      BY Elsewhere DEF Redeeming, Claiming
    <3>. QED
      BY <2>3, <3>1 DEF Finish
  <2>. QED
    BY <2>1, <2>2, <2>3 DEF Claim
<1>. QED
  BY <1>1, <1>3, LocalMember

LEMMA ReadMember ==
  ASSUME MInv, RInv', NEW s \in Requests, ResetRead(s) \/ ResetWait(s) PROVE MInv'
<1>1. /\ UNCHANGED <<clock, orgs, invites, logins, agreements, straddled>>
      /\ pc[s] \in {"reset_read", "reset_wait"}
  BY DEF ResetRead, ResetWait, members
<1>2. /\ req[s] \in Redemption /\ AskedRight(pc[s], req[s]) /\ Branch(pc[s], req[s])
      /\ SeesAll(pc[s], req[s]) /\ OwnOnly(pc[s], req[s])
  BY <1>1 DEF MInv, RInv, Underway, Redeeming, Claiming, Knows
<1>3. PICK o : o = OrgOf(s) /\ o = invites[req[s].invite].org
  BY DEF OrgOf
<1>4. PICK next, kill : /\ Go(s, next, [req[s] EXCEPT !.kill = kill])
                        /\ next \in {"reset_wait", "reset_commit"}
                        /\ kill \subseteq Live(o)
                        /\ \/ kill = Live(o)
                           \/ kill = req[s].kill \cap Live(o) /\ pc[s] = "reset_wait"
  <2>1. CASE ResetRead(s)
    BY <1>3, <2>1 DEF ResetRead
  <2>2. CASE ResetWait(s)
    <3>1. PICK kill : kill = req[s].kill \cap Live(o)
      OBVIOUS
    <3>2. [req[s] EXCEPT !.kill = @ \cap Live(OrgOf(s))] = [req[s] EXCEPT !.kill = kill]
      BY <1>3, <3>1
    <3>3. Go(s, "reset_commit", [req[s] EXCEPT !.kill = kill]) /\ pc[s] = "reset_wait"
      BY <2>2, <3>2 DEF ResetWait
    <3>. QED
      BY <3>1, <3>3
  <2>. QED
    BY <2>1, <2>2
<1>5. PICK r : r = [req[s] EXCEPT !.kill = kill]
  OBVIOUS
<1>6. r.invite = req[s].invite /\ r.terms = req[s].terms /\ r.asked = req[s].asked /\ r.kill = kill
  BY <1>2, <1>5 DEF Redemption
<1>7. Fitting(next, r) /\ Branch(next, r)
  BY <1>1, <1>2, <1>4, <1>6 DEF Fitting, Branch, Resetting
<1>8. SeesAll(next, r)
  BY <1>2, <1>3, <1>4, <1>6 DEF SeesAll
<1>9. AskedRight(next, r)
  BY <1>1, <1>2, <1>6 DEF AskedRight, Redeeming, Claiming
<1>10. OwnOnly(next, r)
  BY <1>3, <1>4, <1>6 DEF OwnOnly, Live
<1>11. Go(s, next, r) /\ Knows(next, r)
  BY <1>4, <1>5, <1>7, <1>8, <1>9, <1>10 DEF Knows
<1>. QED
  BY <1>1, <1>11, LocalMember

-----------------------------------------------------------------------------
\* An invite more, of an organization that it fits.
LEMMA InvitedMember ==
  ASSUME MInv, RInv', UNCHANGED <<clock, logins, agreements, straddled>>, NEW o, NEW kind,
         invites' = Append(invites, Invite(o, kind)),
         orgs' \in Seq(OrgRow),
         \A p \in DOMAIN orgs : p \in DOMAIN orgs' /\ orgs'[p].enrolled = orgs[p].enrolled,
         kind = "reset" => orgs'[o].enrolled,
         kind = "enroll" => \A l \in DOMAIN logins : logins[l].org # o,
         \A s \in Requests :
           \/ pc'[s] = pc[s] /\ req'[s] = req[s]
           \/ pc'[s] = "idle"
  PROVE  MInv'
<1>1. PICK new : new = Invite(o, kind)
  OBVIOUS
<1>2. new.org = o /\ new.kind = kind
  BY <1>1 DEF Invite
<1>3. invites \in Seq(InviteRow) /\ clock \in Nat
  BY DEF MInv, RInv, OInv, Typed
<1>4. invites \in Seq(InviteRow \cup {new})
  <2>1. invites \in [1..Len(invites) -> InviteRow] /\ Len(invites) \in Nat
    BY <1>3, LenProperties
  <2>. QED
    BY <2>1, SeqDef
<1>5. /\ invites' \in Seq(InviteRow \cup {new})
      /\ Len(invites') = Len(invites) + 1
      /\ \A i \in 1..Len(invites) : invites'[i] = invites[i]
      /\ invites'[Len(invites) + 1] = new
  BY <1>1, <1>4, AppendProperties
<1>6. DOMAIN invites = 1..Len(invites) /\ DOMAIN invites' = 1..Len(invites) + 1 /\ Len(invites) \in Nat
  BY <1>3, <1>5, LenProperties
<1>7. \A i \in DOMAIN invites : i \in DOMAIN invites' /\ invites'[i] = invites[i]
  BY <1>5, <1>6
<1>8. \A i \in DOMAIN invites' \ DOMAIN invites :
        /\ invites'[i].kind = "reset" => orgs'[invites'[i].org].enrolled
        /\ invites'[i].kind = "enroll" => \A l \in DOMAIN logins : logins[l].org # invites'[i].org
  <2>1. \A i \in DOMAIN invites' \ DOMAIN invites : invites'[i] = new
    BY <1>5, <1>6
  <2>. QED
    BY <1>2, <2>1
<1>9. ASSUME NEW s \in Requests
      PROVE  \/ pc'[s] = pc[s] /\ req'[s] = req[s]
             \/ Knows(pc[s], req[s])'
  BY DEF Knows, Fitting, Branch, SeesAll, AskedRight, OwnOnly, Redeeming, Claiming, Resetting
<1>10. clock' >= clock
  BY <1>3
<1>. QED
  BY <1>7, <1>8, <1>9, <1>10, QuietMember

\* A row more keeps those there are.
LEMMA RowMore ==
  ASSUME orgs \in Seq(OrgRow), NEW v \in OrgRow
  PROVE  /\ Append(orgs, v) \in Seq(OrgRow)
         /\ Len(orgs) + 1 \notin DOMAIN orgs
         /\ \A p \in DOMAIN orgs : p \in DOMAIN Append(orgs, v) /\ Append(orgs, v)[p] = orgs[p]
<1>1. Len(orgs) \in Nat /\ DOMAIN orgs = 1..Len(orgs)
  BY LenProperties
<1>2. /\ Append(orgs, v) \in Seq(OrgRow)
      /\ Len(Append(orgs, v)) = Len(orgs) + 1
      /\ \A p \in 1..Len(orgs) : Append(orgs, v)[p] = orgs[p]
  BY AppendProperties
<1>3. DOMAIN Append(orgs, v) = 1..Len(orgs) + 1
  BY <1>2, LenProperties
<1>. QED
  BY <1>1, <1>2, <1>3

LEMMA CreateMember ==
  ASSUME MInv, RInv', NEW name \in Names, CreateOrganization(name) PROVE MInv'
<1>1. PICK v : v = [name |-> name, enrolled |-> FALSE, seeded |-> FALSE]
  OBVIOUS
<1>2. PICK o : o = Len(orgs) + 1
  OBVIOUS
<1>3. v \in OrgRow
  BY <1>1 DEF OrgRow
<1>4. /\ orgs' = Append(orgs, v) /\ invites' = Append(invites, Invite(o, "enroll"))
      /\ UNCHANGED <<clock, logins, agreements, straddled, pc, req>>
  BY <1>1, <1>2 DEF CreateOrganization, requests
<1>5. EnrolledFirst /\ orgs \in Seq(OrgRow)
  BY DEF MInv, EnrolledFirst
<1>6. /\ orgs' \in Seq(OrgRow) /\ o \notin DOMAIN orgs
      /\ \A p \in DOMAIN orgs : p \in DOMAIN orgs' /\ orgs'[p].enrolled = orgs[p].enrolled
  BY <1>2, <1>3, <1>4, <1>5, RowMore
<1>7. \A l \in DOMAIN logins : logins[l].org # o
  BY <1>5, <1>6 DEF EnrolledFirst
<1>. QED
  BY <1>4, <1>6, <1>7, InvitedMember

LEMMA InviteCommitMember == ASSUME MInv, RInv', NEW s \in Requests, ReinviteCommit(s) PROVE MInv'
<1>1. PICK o, kind : o = req[s].org /\ kind = req[s].kind
  OBVIOUS
<1>2. /\ invites' = Append(invites, Invite(o, kind))
      /\ UNCHANGED <<clock, orgs, logins, agreements, straddled>> /\ pc[s] = "reinvite_commit"
  BY <1>1 DEF ReinviteCommit
<1>3. EnrolledFirst /\ orgs \in Seq(OrgRow) /\ Fitting(pc[s], req[s])
  BY DEF MInv, EnrolledFirst, Knows
<1>4. kind = "reset" <=> orgs[o].enrolled
  BY <1>1, <1>2, <1>3 DEF Fitting
<1>5. \A t \in Requests : \/ pc'[t] = pc[t] /\ req'[t] = req[t]
                          \/ pc'[t] = "idle"
  BY DEF ReinviteCommit, Finish, Go, MInv, RInv, OInv, Typed
<1>6. kind = "enroll" => \A l \in DOMAIN logins : logins[l].org # o
  BY <1>3, <1>4 DEF EnrolledFirst
<1>. QED
  BY <1>2, <1>3, <1>4, <1>5, <1>6, InvitedMember

\* The boot's organization has nobody yet.
LEMMA SeedMember == ASSUME MInv, RInv', NEW s \in Requests, SeedCommit(s) PROVE MInv'
<1>1. UNCHANGED <<clock, invites, logins, agreements, straddled>>
  BY DEF SeedCommit
<1>2. orgs \in Seq(OrgRow)
  BY DEF MInv, EnrolledFirst
<1>3. PICK v : v = [name |-> SeedName, enrolled |-> FALSE, seeded |-> TRUE]
  OBVIOUS
<1>4. v \in OrgRow
  BY <1>3, EnrollmentAssumption DEF OrgRow
<1>5. orgs' = orgs \/ orgs' = Append(orgs, v)
  BY <1>3 DEF SeedCommit
<1>6. /\ orgs' \in Seq(OrgRow)
      /\ \A p \in DOMAIN orgs : p \in DOMAIN orgs' /\ orgs'[p].enrolled = orgs[p].enrolled
  BY <1>2, <1>4, <1>5, RowMore
<1>7. ASSUME NEW t \in Requests
      PROVE  \/ pc'[t] = pc[t] /\ req'[t] = req[t]
             \/ Knows(pc[t], req[t])'
  <2>1. \/ pc'[t] = pc[t] /\ req'[t] = req[t]
        \/ pc'[t] = "idle"
    BY DEF SeedCommit, Finish, Go, MInv, RInv, OInv, Typed
  <2>. QED
    BY <2>1 DEF Knows, Fitting, Branch, SeesAll, AskedRight, OwnOnly, Redeeming, Claiming, Resetting
<1>8. clock' >= clock
  BY <1>1 DEF MInv, RInv, OInv, Typed
<1>. QED
  BY <1>1, <1>6, <1>7, <1>8, QuietMember

\* Every step of the module is one of those.
LEMMA NextMInv == MInv /\ [Next]_vars => MInv'
<1>. SUFFICES ASSUME MInv, [Next]_vars PROVE MInv'
  OBVIOUS
<1>0. RInv'
  BY NextRInv DEF MInv
<1>1. ASSUME NEW s \in Requests, NEW p, NEW r, Go(s, p, r), p # "reinvite_commit", p \notin Redeeming,
             UNCHANGED <<clock, members, straddled>>
      PROVE  MInv'
  BY <1>0, <1>1, Elsewhere, LocalMember DEF members
<1>2. ASSUME NEW s \in Requests, ReinviteStart(s) PROVE MInv'
  <2>1. PICK r : Go(s, "reinvite_lock", r)
    BY <1>2 DEF ReinviteStart, Begin, Go
  <2>. QED
    BY <1>1, <1>2, <2>1 DEF ReinviteStart, Redeeming, Claiming
<1>3. ASSUME NEW s \in Requests, ClaimRefused(s) \/ Fail(s) PROVE MInv'
  BY <1>1, <1>3 DEF ClaimRefused, Fail, Finish, Redeeming, Claiming
<1>4. ASSUME NEW s \in Requests, NEW o, NEW key, RegisterCheck(s, o, key) PROVE MInv'
  <2>1. PICK r : Go(s, "register", r)
    BY <1>4 DEF RegisterCheck, Begin, Go
  <2>. QED
    BY <1>1, <1>4, <2>1 DEF RegisterCheck, Redeeming, Claiming
<1>5. ASSUME NEW s \in Requests, RegisterNode(s) \/ IssueToken(s) PROVE MInv'
  BY <1>1, <1>5 DEF RegisterNode, IssueToken, Finish, Redeeming, Claiming
<1>6. ASSUME NEW s \in Requests, NEW n, IssueStart(s, n) PROVE MInv'
  <2>1. PICK r : Go(s, "issue", r)
    BY <1>6 DEF IssueStart, Begin, Go
  <2>. QED
    BY <1>1, <1>6, <2>1 DEF IssueStart, Redeeming, Claiming
<1>7. ASSUME NEW s \in Requests, SeedStart(s) PROVE MInv'
  <2>1. PICK r : Go(s, "seed_lock", r)
    BY <1>7 DEF SeedStart, Begin, Go
  <2>. QED
    BY <1>1, <1>7, <2>1 DEF SeedStart, Redeeming, Claiming
<1>8. ASSUME NEW s \in Requests, SeedRead(s) PROVE MInv'
  <2>1. PICK p, r : Go(s, p, r) /\ p \in {"idle", "seed_commit"}
    BY <1>8 DEF SeedRead, Finish
  <2>2. UNCHANGED <<clock, members, straddled>>
    BY <1>8 DEF SeedRead
  <2>. QED
    BY <1>1, <2>1, <2>2 DEF Redeeming, Claiming
<1>9. CASE \/ \E n \in DOMAIN nodes : RevokeNode(n)
           \/ \E k \in DOMAIN tokens : RevokeToken(k)
           \/ Tick
           \/ UNCHANGED vars
  <2>1. UNCHANGED <<orgs, invites, logins, agreements, straddled, pc, req>>
    BY <1>9 DEF RevokeNode, RevokeToken, Tick, vars, members, requests
  <2>2. clock' >= clock
    BY <1>9 DEF RevokeNode, RevokeToken, Tick, vars, MInv, RInv, OInv, Typed
  <2>3. orgs \in Seq(OrgRow)
    BY DEF MInv, EnrolledFirst
  <2>. QED
    BY <1>0, <2>1, <2>2, <2>3, QuietMember
<1>. QED
  BY <1>0, <1>2, <1>3, <1>4, <1>5, <1>6, <1>7, <1>8, <1>9, CreateMember, LockMember,
     InviteCommitMember, RedeemMember, ClaimMember, ReadMember, EnrollMember, ResetMember, SeedMember
  DEF Next

\* completeReset "revoke every console login the organization has": whoever
\* redeems, resets and invites at once, an organization has one live login,
\* unless an invite of it expired while it was being redeemed.
THEOREM OneLoginLives == Spec => []OneLiveLogin
<1>1. MInv => OneLiveLogin
  <2> SUFFICES ASSUME MInv, NEW o, o \notin straddled PROVE Cardinality(Live(o)) <= 1
    BY DEF OneLiveLogin
  <2>1. CASE Live(o) = {}
    BY <2>1, FS_EmptySet
  <2>2. CASE Live(o) # {}
    <3>1. PICK l : l \in Live(o)
      BY <2>2
    <3>2. Live(o) = {l}
      BY <3>1 DEF MInv, AtMostOne, Live
    <3>3. Cardinality({l}) = 1
      BY FS_Singleton
    <3>4. Cardinality(Live(o)) = 1
      BY <3>2, <3>3
    <3>. QED
      BY <3>4
  <2>. QED
    BY <2>1, <2>2
<1>. QED
  BY <1>1, InitMInv, NextMInv, PTL DEF Spec

\* Whichever releases answer and however long a form stays open, nobody holds a
\* login under terms the organization has not agreed to, and no agreement is
\* recorded that the form did not ask for, unless an invite straddled its expiry.
THEOREM AgreementsMatch == Spec => []AgreementsMatchForms
<1>1. MInv => AgreementsMatchForms
  BY DEF MInv, LoginsAgreed, OnlyAsked, AgreementsMatchForms
<1>. QED
  BY <1>1, InitMInv, NextMInv, PTL DEF Spec

-----------------------------------------------------------------------------
(***************************************************************************)
(* Boots.  One at a time is between its look at the tables and its rows    *)
(* (the advisory lock), and nobody else adds a seeded node: what it missed *)
(* then is still not there, but for what was revoked.                      *)
(***************************************************************************)

NodeRow == [org : Nat, key : Keys, seeded : BOOLEAN, revoked : BOOLEAN]

NodesOK ==
  /\ nodes \in Seq(NodeRow)
  /\ \A n \in DOMAIN nodes :
       nodes[n].org \in DOMAIN orgs /\ (nodes[n].seeded => nodes[n].key = SeedKey)

Registering ==
  \A s \in Requests : pc[s] = "register" => req[s].org \in DOMAIN orgs /\ req[s].key \in Keys

OneSeeds == \A s, t \in Requests : pc[s] = "seed_commit" /\ pc[t] = "seed_commit" => s = t

NothingToReuse ==
  \A s \in Requests : pc[s] = "seed_commit" =>
    /\ req[s].org \in {None} \cup DOMAIN orgs
    /\ req[s].node = None =>
         \A n \in DOMAIN nodes : nodes[n].seeded /\ nodes[n].org = req[s].org => nodes[n].revoked

BInv == OInv /\ NodesOK /\ Registering /\ OneSeeds /\ NothingToReuse /\ SeedsOneNode

\* There is nothing at the start.
LEMMA InitBInv == Init => BInv
<1>. SUFFICES ASSUME Init PROVE BInv
  OBVIOUS
<1>1. nodes = <<>> /\ \A s \in Requests : pc[s] = "idle"
  BY DEF Init
<1>2. NodesOK /\ Registering /\ OneSeeds /\ NothingToReuse /\ SeedsOneNode
  BY <1>1 DEF NodesOK, Registering, OneSeeds, NothingToReuse, SeedsOneNode
<1>. QED
  BY <1>2, InitOInv DEF BInv

\* The positions of the tables.
LEMMA NodePlaces ==
  ASSUME BInv
  PROVE  /\ Len(nodes) \in Nat /\ DOMAIN nodes = 1..Len(nodes)
         /\ Len(orgs) \in Nat /\ DOMAIN orgs = 1..Len(orgs)
         /\ \A n \in DOMAIN nodes : nodes[n] \in NodeRow
<1>1. nodes \in Seq(NodeRow) /\ IsASequence(orgs)
  BY DEF BInv, NodesOK, OInv, Typed
<1>2. Len(nodes) \in Nat /\ DOMAIN nodes = 1..Len(nodes)
  BY <1>1, LenProperties
<1>3. \A n \in DOMAIN nodes : nodes[n] \in NodeRow
  BY <1>1, <1>2, ElementOfSeq
<1>. QED
  BY <1>1, <1>2, <1>3, Positions

\* A step that leaves the nodes alone and brings nobody to seed.
LEMMA QuietBoot ==
  ASSUME BInv, OInv', UNCHANGED nodes, DOMAIN orgs \subseteq DOMAIN orgs',
         \A s \in Requests :
           \/ pc'[s] = pc[s] /\ req'[s] = req[s]
           \/ pc'[s] \notin {"register", "seed_commit"}
           \/ pc'[s] = "register" /\ req'[s].org \in DOMAIN orgs /\ req'[s].key \in Keys
  PROVE  BInv'
<1>1. NodesOK' /\ SeedsOneNode'
  BY DEF BInv, NodesOK, SeedsOneNode
<1>2. Registering'
  BY DEF BInv, Registering
<1>3. OneSeeds' /\ NothingToReuse'
  BY DEF BInv, OneSeeds, NothingToReuse
<1>. QED
  BY <1>1, <1>2, <1>3 DEF BInv

LEMMA LocalBoot ==
  ASSUME BInv, OInv', NEW s \in Requests, NEW next, NEW r, Go(s, next, r), UNCHANGED nodes,
         DOMAIN orgs \subseteq DOMAIN orgs',
         \/ next \notin {"register", "seed_commit"}
         \/ next = "register" /\ r.org \in DOMAIN orgs /\ r.key \in Keys
  PROVE  BInv'
<1>1. \A t \in Requests : t # s => pc'[t] = pc[t] /\ req'[t] = req[t]
  BY DEF Go, BInv, OInv, Typed
<1>2. pc'[s] = next /\ req'[s] = r
  BY DEF Go, BInv, OInv, Typed
<1>. QED
  BY <1>1, <1>2, QuietBoot

\* A node is registered: no boot has made it.
LEMMA RegisterBoot == ASSUME BInv, OInv', NEW s \in Requests, RegisterNode(s) PROVE BInv'
<1>1. PICK new : new = [org |-> req[s].org, key |-> req[s].key, seeded |-> FALSE, revoked |-> FALSE]
  OBVIOUS
<1>2. nodes' = Append(nodes, new) /\ UNCHANGED orgs /\ Finish(s)
  BY <1>1 DEF RegisterNode, members
<1>3. /\ Len(nodes) \in Nat /\ DOMAIN nodes = 1..Len(nodes)
      /\ Len(orgs) \in Nat /\ DOMAIN orgs = 1..Len(orgs) /\ nodes \in Seq(NodeRow)
  BY NodePlaces DEF BInv, NodesOK
<1>4. new \in NodeRow /\ new.org \in DOMAIN orgs /\ new.seeded = FALSE
  BY <1>1, <1>3 DEF RegisterNode, BInv, Registering, NodeRow
<1>5. /\ Append(nodes, new) \in Seq(NodeRow)
      /\ Len(Append(nodes, new)) = Len(nodes) + 1
      /\ \A n \in 1..Len(nodes) : Append(nodes, new)[n] = nodes[n]
      /\ Append(nodes, new)[Len(nodes) + 1] = new
  BY <1>3, <1>4, AppendProperties
<1>6. /\ nodes' \in Seq(NodeRow)
      /\ DOMAIN nodes' = 1..Len(nodes) + 1
      /\ \A n \in DOMAIN nodes : nodes'[n] = nodes[n]
      /\ nodes'[Len(nodes) + 1] = new
  BY <1>2, <1>3, <1>5, LenProperties
<1>7. \A n \in DOMAIN nodes' : (n \in DOMAIN nodes /\ nodes'[n] = nodes[n]) \/ nodes'[n] = new
  BY <1>3, <1>6
<1>8. NodesOK'
  BY <1>2, <1>4, <1>6, <1>7 DEF BInv, NodesOK
<1>9. SeedsOneNode'
  BY <1>4, <1>7 DEF BInv, SeedsOneNode
<1>10. /\ \A t \in Requests : t # s => pc'[t] = pc[t] /\ req'[t] = req[t]
       /\ pc'[s] = "idle"
  BY <1>2 DEF Finish, Go, BInv, OInv, Typed
<1>11. Registering' /\ OneSeeds'
  BY <1>2, <1>10 DEF BInv, Registering, OneSeeds
<1>12. NothingToReuse'
  BY <1>2, <1>4, <1>7, <1>10 DEF BInv, NothingToReuse
<1>. QED
  BY <1>8, <1>9, <1>11, <1>12 DEF BInv

\* A node is revoked.
LEMMA RevokeBoot == ASSUME BInv, OInv', NEW k \in DOMAIN nodes, RevokeNode(k) PROVE BInv'
<1>1. UNCHANGED <<orgs, pc, req>> /\ nodes' = [nodes EXCEPT ![k].revoked = TRUE]
  BY DEF RevokeNode, members, requests
<1>2. PICK yes : yes = TRUE
  OBVIOUS
<1>3. PICK v : v = [nodes[k] EXCEPT !.revoked = yes]
  OBVIOUS
<1>4. nodes' = [nodes EXCEPT ![k] = v]
  BY <1>1, <1>2, <1>3
<1>5. /\ Len(nodes) \in Nat /\ DOMAIN nodes = 1..Len(nodes)
      /\ \A n \in DOMAIN nodes : nodes[n] \in NodeRow
      /\ nodes \in [1..Len(nodes) -> NodeRow]
  BY NodePlaces, LenProperties DEF BInv, NodesOK
<1>6. /\ v \in NodeRow /\ v.revoked = yes /\ v.org = nodes[k].org /\ v.key = nodes[k].key
      /\ v.seeded = nodes[k].seeded
  BY <1>2, <1>3, <1>5 DEF NodeRow
<1>7. nodes' \in [1..Len(nodes) -> NodeRow]
  BY <1>4, <1>5, <1>6
<1>8. nodes' \in Seq(NodeRow)
  <2>1. PICK c : c = nodes'
    OBVIOUS
  <2>2. c \in Seq(NodeRow)
    BY <1>5, <1>7, <2>1, SeqDef
  <2>. QED
    BY <2>1, <2>2
<1>9. /\ DOMAIN nodes' = DOMAIN nodes
      /\ \A n \in DOMAIN nodes :
           /\ nodes'[n].org = nodes[n].org /\ nodes'[n].key = nodes[n].key
           /\ nodes'[n].seeded = nodes[n].seeded
           /\ nodes[n].revoked => nodes'[n].revoked
  BY <1>2, <1>4, <1>5, <1>6, <1>7
<1>10. NodesOK'
  BY <1>1, <1>8, <1>9 DEF BInv, NodesOK
<1>11. SeedsOneNode'
  BY <1>9 DEF BInv, SeedsOneNode
<1>12. Registering' /\ OneSeeds' /\ NothingToReuse'
  BY <1>1, <1>9 DEF BInv, Registering, OneSeeds, NothingToReuse
<1>. QED
  BY <1>10, <1>11, <1>12 DEF BInv

\* A boot looks when no other is about to write.
LEMMA ReadBoot == ASSUME BInv, OInv', NEW s \in Requests, SeedRead(s) PROVE BInv'
<1>1. PICK o, n : o = FoundOrg /\ n = FoundNode(o)
  OBVIOUS
<1>2. UNCHANGED <<orgs, nodes>> /\ NobodySeeds
  BY DEF SeedRead, members, credentials
<1>3. CASE Finish(s)
  <2>1. Go(s, "idle", None)
    BY <1>3 DEF Finish
  <2>. QED
    BY <1>2, <2>1, LocalBoot
<1>4. CASE Go(s, "seed_commit", [org |-> o, node |-> n])
  <2>1. /\ \A t \in Requests : t # s => pc'[t] = pc[t] /\ req'[t] = req[t]
        /\ pc'[s] = "seed_commit" /\ req'[s].org = o /\ req'[s].node = n
    BY <1>4 DEF Go, BInv, OInv, Typed
  <2>2. o \in {None} \cup DOMAIN orgs
    BY <1>1 DEF FoundOrg, NameTaken
  <2>3. ASSUME n = None, NEW m \in DOMAIN nodes, nodes[m].seeded, nodes[m].org = o
        PROVE  nodes[m].revoked
    <3> DEFINE found == {k \in DOMAIN nodes :
                  IF seedById THEN nodes[k].seeded
                  ELSE nodes[k].org = o /\ nodes[k].key = SeedKey /\ ~nodes[k].revoked}
    <3>1. n = IF found = {} THEN None ELSE CHOOSE k \in found : \A j \in found : k <= j
      BY <1>1 DEF FoundNode
    <3>2. found \in SUBSET Nat
      BY NodePlaces
    <3>3. nodes[m].key = SeedKey
      BY <2>3 DEF BInv, NodesOK
    <3>4. ~nodes[m].revoked => m \in found
      BY <2>3, <3>3
    <3> HIDE DEF found
    <3>5. ASSUME found # {} PROVE FALSE
      <4>1. \E k \in found : \A j \in found : k <= j
        BY <3>2, <3>5, LeastNumber
      <4>2. n \in found
        BY <3>1, <3>5, <4>1
      <4>. QED
        BY <2>3, <3>2, <4>2, EnrollmentAssumption
    <3>. QED
      BY <3>4, <3>5
  <2>4. NothingToReuse'
    <3>1. \A t \in Requests : pc'[t] = "seed_commit" => t = s
      BY <1>2, <2>1 DEF NobodySeeds
    <3>. QED
      BY <1>2, <2>1, <2>2, <2>3, <3>1 DEF NothingToReuse
  <2>5. OneSeeds'
    BY <1>2, <2>1 DEF OneSeeds, NobodySeeds
  <2>6. Registering' /\ NodesOK' /\ SeedsOneNode'
    BY <1>2, <2>1 DEF BInv, Registering, NodesOK, SeedsOneNode
  <2>. QED
    BY <2>4, <2>5, <2>6 DEF BInv
<1>. QED
  BY <1>1, <1>3, <1>4 DEF SeedRead

\* It makes a node if it found none.
LEMMA WriteBoot == ASSUME BInv, OInv', NEW s \in Requests, SeedCommit(s) PROVE BInv'
<1>0. /\ Len(nodes) \in Nat /\ DOMAIN nodes = 1..Len(nodes)
      /\ Len(orgs) \in Nat /\ DOMAIN orgs = 1..Len(orgs)
      /\ nodes \in Seq(NodeRow) /\ IsASequence(orgs)
  BY NodePlaces DEF BInv, NodesOK, OInv, Typed
<1>1. Finish(s) /\ pc[s] = "seed_commit"
  BY DEF SeedCommit
<1>2. Go(s, "idle", None)
  BY <1>1 DEF Finish
<1>3. DOMAIN orgs \subseteq DOMAIN orgs'
  <2>1. orgs' = orgs \/ \E v : orgs' = Append(orgs, v)
    BY DEF SeedCommit
  <2>. QED
    BY <1>0, <2>1, NewOrg
<1>4. CASE nodes' = nodes
  BY <1>2, <1>3, <1>4, LocalBoot
<1>5. CASE nodes' # nodes
  <2>1. PICK o : o = IF req[s].org = None THEN Len(orgs) + 1 ELSE req[s].org
    OBVIOUS
  <2>2. PICK new : new = [org |-> o, key |-> SeedKey, seeded |-> TRUE, revoked |-> FALSE]
    OBVIOUS
  <2>3. /\ nodes' = Append(nodes, new) /\ req[s].node = None
        /\ req[s].org = None => \E v : orgs' = Append(orgs, v)
    BY <1>5, <2>1, <2>2 DEF SeedCommit, credentials
  <2>4. o \in DOMAIN orgs' /\ o \in Nat
    <3>1. CASE req[s].org = None
      BY <1>0, <2>1, <2>3, <3>1, NewOrg
    <3>2. CASE req[s].org # None
      BY <1>0, <1>1, <1>3, <2>1, <3>2 DEF BInv, NothingToReuse
    <3>. QED
      BY <3>1, <3>2
  <2>5. new \in NodeRow /\ new.org = o /\ new.key = SeedKey
    BY <2>2, <2>4, EnrollmentAssumption DEF NodeRow
  <2>6. \A n \in DOMAIN nodes : nodes[n].seeded /\ nodes[n].org = o => nodes[n].revoked
    <3>1. CASE req[s].org = None
      BY <1>0, <2>1, <3>1 DEF BInv, NodesOK
    <3>2. CASE req[s].org # None
      BY <1>1, <2>1, <2>3, <3>2 DEF BInv, NothingToReuse
    <3>. QED
      BY <3>1, <3>2
  <2>7. /\ Append(nodes, new) \in Seq(NodeRow)
        /\ Len(Append(nodes, new)) = Len(nodes) + 1
        /\ \A n \in 1..Len(nodes) : Append(nodes, new)[n] = nodes[n]
        /\ Append(nodes, new)[Len(nodes) + 1] = new
    BY <1>0, <2>5, AppendProperties
  <2>8. /\ nodes' \in Seq(NodeRow)
        /\ DOMAIN nodes' = 1..Len(nodes) + 1
        /\ \A n \in DOMAIN nodes : nodes'[n] = nodes[n]
        /\ nodes'[Len(nodes) + 1] = new
    BY <1>0, <2>3, <2>7, LenProperties
  <2>9. \A n \in DOMAIN nodes' :
          \/ n \in DOMAIN nodes /\ nodes'[n] = nodes[n]
          \/ n = Len(nodes) + 1 /\ nodes'[n] = new
    BY <1>0, <2>8
  <2>10. NodesOK'
    BY <1>3, <2>4, <2>5, <2>8, <2>9 DEF BInv, NodesOK
  <2>11. SeedsOneNode'
    <3> SUFFICES ASSUME NEW m \in DOMAIN nodes', NEW n \in DOMAIN nodes',
                        nodes'[m].seeded, nodes'[n].seeded, nodes'[m].org = nodes'[n].org,
                        ~nodes'[m].revoked, ~nodes'[n].revoked
                 PROVE  m = n
      BY DEF SeedsOneNode
    <3>1. CASE m \in DOMAIN nodes /\ n \in DOMAIN nodes
      BY <2>8, <3>1 DEF BInv, SeedsOneNode
    <3>2. CASE m \in DOMAIN nodes /\ n \notin DOMAIN nodes
      BY <2>5, <2>6, <2>8, <2>9, <3>2
    <3>3. CASE m \notin DOMAIN nodes /\ n \in DOMAIN nodes
      BY <2>5, <2>6, <2>8, <2>9, <3>3
    <3>4. CASE m \notin DOMAIN nodes /\ n \notin DOMAIN nodes
      BY <2>9, <3>4
    <3>. QED
      BY <3>1, <3>2, <3>3, <3>4
  <2>12. /\ \A t \in Requests : t # s => pc'[t] = pc[t] /\ req'[t] = req[t]
         /\ pc'[s] = "idle"
    BY <1>1 DEF Finish, Go, BInv, OInv, Typed
  <2>13. \A t \in Requests : pc'[t] # "seed_commit"
    BY <1>1, <2>12 DEF BInv, OneSeeds
  <2>14. OneSeeds' /\ NothingToReuse'
    BY <2>13 DEF OneSeeds, NothingToReuse
  <2>15. Registering'
    BY <1>3, <2>12 DEF BInv, Registering
  <2>. QED
    BY <2>10, <2>11, <2>14, <2>15 DEF BInv
<1>. QED
  BY <1>4, <1>5

\* Every step of the module is one of those.
LEMMA NextBInv == BInv /\ [Next]_vars => BInv'
<1>. SUFFICES ASSUME BInv, [Next]_vars PROVE BInv'
  OBVIOUS
<1>0. OInv'
  BY NextOInv DEF BInv
<1>1. ASSUME NEW s \in Requests, NEW p, NEW r, Go(s, p, r), p \notin {"register", "seed_commit"},
             UNCHANGED <<members, credentials>>
      PROVE  BInv'
  BY <1>0, <1>1, LocalBoot DEF members, credentials
<1>2. ASSUME NEW s \in Requests, ReinviteStart(s) PROVE BInv'
  <2>1. PICK r : Go(s, "reinvite_lock", r)
    BY <1>2 DEF ReinviteStart, Begin, Go
  <2>. QED
    BY <1>1, <1>2, <2>1 DEF ReinviteStart
<1>3. ASSUME NEW s \in Requests, ReinviteLock(s) PROVE BInv'
  <2>1. PICK p, r : Go(s, p, r) /\ p \in {"idle", "reinvite_commit"}
    BY <1>3 DEF ReinviteLock, Finish
  <2>. QED
    BY <1>1, <1>3, <2>1 DEF ReinviteLock
<1>4. ASSUME NEW s \in Requests, NEW i \in DOMAIN invites, NEW terms \in Terms, Redeem(s, i, terms)
      PROVE  BInv'
  <2>1. PICK r : Go(s, "claim", r)
    BY <1>4 DEF Redeem, Begin, Go
  <2>. QED
    BY <1>1, <1>4, <2>1 DEF Redeem
<1>5. ASSUME NEW s \in Requests, Claim(s) PROVE BInv'
  <2>1. PICK p, r : Go(s, p, r) /\ p \in {"idle", "enroll_commit", "reset_read"}
    BY <1>5 DEF Claim, Finish
  <2>. QED
    BY <1>1, <1>5, <2>1 DEF Claim
<1>6. ASSUME NEW s \in Requests, ResetRead(s) \/ ResetWait(s) PROVE BInv'
  <2>1. PICK p, r : Go(s, p, r) /\ p \in {"reset_wait", "reset_commit"}
    BY <1>6 DEF ResetRead, ResetWait
  <2>. QED
    BY <1>1, <1>6, <2>1 DEF ResetRead, ResetWait
<1>7. ASSUME NEW s \in Requests, ClaimRefused(s) \/ Fail(s) PROVE BInv'
  BY <1>1, <1>7 DEF ClaimRefused, Fail, Finish
<1>8. ASSUME NEW s \in Requests, NEW n, IssueStart(s, n) PROVE BInv'
  <2>1. PICK r : Go(s, "issue", r)
    BY <1>8 DEF IssueStart, Begin, Go
  <2>. QED
    BY <1>1, <1>8, <2>1 DEF IssueStart
<1>9. ASSUME NEW s \in Requests, SeedStart(s) PROVE BInv'
  <2>1. PICK r : Go(s, "seed_lock", r)
    BY <1>9 DEF SeedStart, Begin, Go
  <2>. QED
    BY <1>1, <1>9, <2>1 DEF SeedStart
<1>10. ASSUME NEW s \in Requests, NEW o \in DOMAIN orgs, NEW key \in Keys, RegisterCheck(s, o, key)
       PROVE  BInv'
  <2>1. PICK r : r = [org |-> o, key |-> key]
    OBVIOUS
  <2>2. Go(s, "register", r) /\ UNCHANGED <<orgs, nodes>>
    BY <1>10, <2>1 DEF RegisterCheck, Begin, Go, members, credentials
  <2>. QED
    BY <1>0, <2>1, <2>2, LocalBoot
<1>11. ASSUME NEW s \in Requests, ReinviteCommit(s) \/ IssueToken(s) \/ ResetCommit(s) PROVE BInv'
  <2>1. Go(s, "idle", None) /\ UNCHANGED <<orgs, nodes>>
    BY <1>11 DEF ReinviteCommit, IssueToken, ResetCommit, Finish, members, credentials
  <2>. QED
    BY <1>0, <2>1, LocalBoot
<1>12. ASSUME NEW s \in Requests, EnrollCommit(s) PROVE BInv'
  <2>1. Go(s, "idle", None) /\ UNCHANGED nodes
    BY <1>12 DEF EnrollCommit, Finish, credentials
  <2>2. DOMAIN orgs' = DOMAIN orgs
    <3>1. \/ orgs' = orgs
          \/ orgs' = [orgs EXCEPT ![OrgOf(s)].name = req[s].name, ![OrgOf(s)].enrolled = TRUE]
      BY <1>12 DEF EnrollCommit, members
    <3>. QED
      BY <3>1, ChangedSeq DEF BInv, OInv, Typed
  <2>. QED
    BY <1>0, <2>1, <2>2, LocalBoot
<1>13. ASSUME NEW name, CreateOrganization(name) PROVE BInv'
  <2>1. UNCHANGED <<nodes, pc, req>> /\ \E v : orgs' = Append(orgs, v)
    BY <1>13 DEF CreateOrganization, credentials, requests
  <2>2. DOMAIN orgs \subseteq DOMAIN orgs'
    BY <2>1, NewOrg DEF BInv, OInv, Typed
  <2>. QED
    BY <1>0, <2>1, <2>2, QuietBoot
<1>14. CASE \/ \E k \in DOMAIN tokens : RevokeToken(k)
            \/ Tick
            \/ UNCHANGED vars
  <2>1. UNCHANGED <<orgs, nodes, pc, req>>
    BY <1>14 DEF RevokeToken, Tick, vars, members, credentials, requests
  <2>. QED
    BY <1>0, <2>1, QuietBoot
<1>. QED
  BY <1>0, <1>2, <1>3, <1>4, <1>5, <1>6, <1>7, <1>8, <1>9, <1>10, <1>11, <1>12, <1>13, <1>14,
     RegisterBoot, RevokeBoot, ReadBoot, WriteBoot
  DEF Next

\* However many processes boot at once, in whatever order they take the lock and
\* whatever is registered and revoked meanwhile, an organization has at most one
\* live node that a boot created.
THEOREM SeededOnce == Spec => []SeedsOneNode
<1>1. BInv => SeedsOneNode
  BY DEF BInv
<1>. QED
  BY <1>1, InitBInv, NextBInv, PTL DEF Spec
=============================================================================
