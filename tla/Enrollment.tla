----------------------------- MODULE Enrollment -----------------------------
(***************************************************************************)
(* Who is a member (modules/identity, modules/enrollment): the operator    *)
(* invites organizations and invites them again, an invite is redeemed     *)
(* once, for an enrollment or for a new console password, members register *)
(* and revoke nodes and tokens, and every boot seeds one organization.     *)
(*                                                                         *)
(* A redemption, an invitation, a registration, an issue and a boot are    *)
(* transactions of their own; each is cut where another can come between.  *)
(* now() is the clock at BEGIN.  The row locks they wait for are derived   *)
(* from where the other requests stand.                                    *)
(***************************************************************************)
EXTENDS Naturals, Sequences, FiniteSets

CONSTANTS
  Requests,      \* requests and boots in flight
  Names,         \* display names
  SeedName,      \* IWIK_SEED_ORG
  Keys,          \* public keys of nodes
  SeedKey,       \* IWIK_SEED_NODE_PUBKEY
  Terms,         \* versions of the pilot terms, of the releases that run
  Ttl,           \* config.inviteTtlMs
  MaxClock, MaxRows,   \* bounds: of the clock, of the rows of all tables but logins and agreements
  None

ASSUME EnrollmentAssumption ==
  /\ SeedName \in Names /\ SeedKey \in Keys
  /\ {Ttl, MaxClock, MaxRows} \subseteq Nat
  /\ None \notin Names \cup Terms \cup Nat

VARIABLES
  clock,
  orgs,        \* identity.organizations: sequence of [name, enrolled, seeded]
  invites,     \* identity.invites: sequence of [org, kind, expires, accepted]
  logins,      \* identity.console_logins: sequence of [org, by, terms, revoked]
  agreements,  \* identity.agreements: sequence of [org, terms, asked]; asked is history: the
               \* form that recorded it had asked for it
  nodes,       \* identity.nodes: sequence of [org, key, seeded, revoked]
  tokens,      \* identity.tokens: sequence of [node, seeded, revoked]
  seedById,    \* IWIK_SEED_NODE_ID is set
  straddled,   \* history: organizations an invite of which expired while it was redeemed
  pc, req      \* of each request: where it stands, and what it works on

members == <<orgs, invites, logins, agreements>>
credentials == <<nodes, tokens>>
requests == <<pc, req>>
vars == <<clock, members, credentials, seedById, straddled, requests>>

Live(o) == {l \in DOMAIN logins : logins[l].org = o /\ ~logins[l].revoked}

Init ==
  /\ clock = 0
  /\ orgs = <<>> /\ invites = <<>> /\ logins = <<>> /\ agreements = <<>>
  /\ nodes = <<>> /\ tokens = <<>>
  /\ seedById \in BOOLEAN
  /\ straddled = {}
  /\ pc = [s \in Requests |-> "idle"]
  /\ req = [s \in Requests |-> None]

Begin(s, next, r) ==
  /\ pc[s] = "idle"
  /\ pc' = [pc EXCEPT ![s] = next]
  /\ req' = [req EXCEPT ![s] = r]

Go(s, next, r) ==
  /\ pc' = [pc EXCEPT ![s] = next]
  /\ req' = [req EXCEPT ![s] = r]

\* The request ends; a transaction commits or rolls back with it.
Finish(s) == Go(s, "idle", None)

Bounded == (Len(orgs) + Len(invites) + Len(nodes) + Len(tokens))' <= MaxRows

NameTaken(name) == \E o \in DOMAIN orgs : orgs[o].name = name

-----------------------------------------------------------------------------
(* The operator *)

OpenAt(i, now) == ~invites[i].accepted /\ invites[i].expires > now

Invite(o, kind) ==
  [org |-> o, kind |-> kind, expires |-> clock + Ttl, accepted |-> FALSE]

\* POST /v1/admin/organizations.  The name is checked and UNIQUE besides, so a
\* second request for it ends in 409 or in a violated constraint.
CreateOrganization(name) ==
  /\ ~NameTaken(name)
  /\ orgs' = Append(orgs, [name |-> name, enrolled |-> FALSE, seeded |-> FALSE])
  /\ invites' = Append(invites, Invite(Len(orgs) + 1, "enroll"))
  /\ UNCHANGED <<clock, logins, agreements, credentials, seedById, straddled, requests>>
  /\ Bounded

\* POST /v1/admin/organizations/:org_id/invites: BEGIN.
ReinviteStart(s) ==
  /\ \E o \in DOMAIN orgs : Begin(s, "reinvite_lock", [org |-> o, at |-> clock, kind |-> None])
  /\ UNCHANGED <<clock, members, credentials, seedById, straddled>>

OrgLocked(o) == \E s \in Requests : pc[s] = "reinvite_commit" /\ req[s].org = o

\* Slip: the organization's row is read without FOR UPDATE.
NobodyLocks(o) == TRUE

LockFree(o) == ~OrgLocked(o)

HasOpenInvite(o, now) == \E i \in DOMAIN invites : invites[i].org = o /\ OpenAt(i, now)

\* SELECT ... FOR UPDATE of the organization, then hasOpenInvite.
ReinviteLock(s) ==
  LET o == req[s].org IN
  /\ pc[s] = "reinvite_lock"
  /\ LockFree(o)
  /\ IF HasOpenInvite(o, req[s].at)
       THEN Finish(s)
       ELSE Go(s, "reinvite_commit",
               [req[s] EXCEPT !.kind = IF orgs[o].enrolled THEN "reset" ELSE "enroll"])
  /\ UNCHANGED <<clock, members, credentials, seedById, straddled>>

ReinviteCommit(s) ==
  /\ pc[s] = "reinvite_commit"
  /\ invites' = Append(invites, Invite(req[s].org, req[s].kind))
  /\ Finish(s)
  /\ UNCHANGED <<clock, orgs, logins, agreements, credentials, seedById, straddled>>
  /\ Bounded

-----------------------------------------------------------------------------
(* Redeeming an invite (POST /enroll/:invite) *)

LatestAgreed(o) ==
  LET of == {i \in DOMAIN agreements : agreements[i].org = o} IN
  IF of = {} THEN None ELSE agreements[CHOOSE i \in of : \A j \in of : j <= i].terms

\* Slip: an enrolled organization is never asked again.
AskedOnce(i, terms) == invites[i].kind = "enroll"

\* A form asks to agree when it enrolls, or when the terms have moved on.
Asks(i, terms) == invites[i].kind = "enroll" \/ LatestAgreed(invites[i].org) # terms

\* findOpenInvite, the form, the hash of the password and BEGIN: an invite that
\* expires between the first and the last is refused by the claim.  terms is
\* PILOT_TERMS_VERSION of the release that answers.
Redeem(s, i, terms) ==
  /\ OpenAt(i, clock)
  /\ Begin(s, "claim", [invite |-> i, name |-> None, terms |-> terms, asked |-> Asks(i, terms),
                        at |-> clock, kill |-> {}])
  /\ UNCHANGED <<clock, members, credentials, seedById, straddled>>

Claiming == {"enroll_commit", "reset_read", "reset_wait", "reset_commit"}

\* Slip: the UPDATE that accepts the invite does not look at accepted_at.
Unexpired(i, now) == invites[i].expires > now

\* The row of the invite, waited for and looked at again.
StillOpen(i, now) == OpenAt(i, now)

ClaimWaits(s) == \E t \in Requests \ {s} : pc[t] \in Claiming /\ req[t].invite = req[s].invite

\* 404: the invite was redeemed or expired before BEGIN.
ClaimRefused(s) ==
  /\ pc[s] = "claim"
  /\ ~ClaimWaits(s)
  /\ ~StillOpen(req[s].invite, req[s].at)
  /\ Finish(s)
  /\ UNCHANGED <<clock, members, credentials, seedById, straddled>>

OrgOf(s) == invites[req[s].invite].org

NameRefused(s, name) == \E o \in DOMAIN orgs : o # OrgOf(s) /\ orgs[o].name = name

\* completeEnrollment refuses a name in use, and with it the claim is undone.
\* The name the form carries is chosen here, where it is first looked at.
Claim(s) ==
  /\ pc[s] = "claim"
  /\ ~ClaimWaits(s)
  /\ StillOpen(req[s].invite, req[s].at)
  /\ IF invites[req[s].invite].kind = "enroll"
       THEN \E name \in Names :
              IF NameRefused(s, name) THEN Finish(s)
              ELSE Go(s, "enroll_commit", [req[s] EXCEPT !.name = name])
       ELSE Go(s, "reset_read", req[s])
  /\ UNCHANGED <<clock, members, credentials, seedById, straddled>>

Accepted(s) == [invites EXCEPT ![req[s].invite].accepted = TRUE]

Agreement(s) == [org |-> OrgOf(s), terms |-> req[s].terms, asked |-> req[s].asked]

NewLogin(s) ==
  [org |-> OrgOf(s), by |-> req[s].invite, terms |-> req[s].terms, revoked |-> FALSE]

Straddle(s) ==
  straddled' = IF invites[req[s].invite].expires <= clock
               THEN straddled \cup {OrgOf(s)} ELSE straddled

\* UPDATE organizations waits for an invitation in progress; the name is UNIQUE.
EnrollCommit(s) ==
  LET o == OrgOf(s) IN
  /\ pc[s] = "enroll_commit"
  /\ ~OrgLocked(o)
  /\ IF NameRefused(s, req[s].name)
       THEN UNCHANGED <<members, straddled>>
       ELSE /\ invites' = Accepted(s)
            /\ orgs' = [orgs EXCEPT ![o].name = req[s].name, ![o].enrolled = TRUE]
            /\ logins' = Append(logins, NewLogin(s))
            /\ agreements' = Append(agreements, Agreement(s))
            /\ Straddle(s)
  /\ Finish(s)
  /\ UNCHANGED <<clock, credentials, seedById>>

\* completeReset, the UPDATE that revokes: its snapshot of the live logins.
ResetRead(s) ==
  /\ pc[s] = "reset_read"
  /\ Go(s, "reset_wait", [req[s] EXCEPT !.kill = Live(OrgOf(s))])
  /\ UNCHANGED <<clock, members, credentials, seedById, straddled>>

\* Another reset of the organization holds rows of that snapshot.
RowsHeld(s) ==
  \E t \in Requests \ {s} : pc[t] = "reset_commit" /\ req[t].kill \cap req[s].kill # {}

\* The rows are granted; those that were revoked meanwhile are passed over.
ResetWait(s) ==
  /\ pc[s] = "reset_wait"
  /\ ~RowsHeld(s)
  /\ Go(s, "reset_commit", [req[s] EXCEPT !.kill = @ \cap Live(OrgOf(s))])
  /\ UNCHANGED <<clock, members, credentials, seedById, straddled>>

\* Slip: a reset leaves the old logins alone.
KeptLogins(s) == logins

RevokedLogins(s) ==
  [l \in DOMAIN logins |->
     IF l \in req[s].kill THEN [logins[l] EXCEPT !.revoked = TRUE] ELSE logins[l]]

ReplacedLogins(s) == Append(RevokedLogins(s), NewLogin(s))

AgreesAnew(o, terms) == LatestAgreed(o) # terms

\* The insert of the login waits for an invitation in progress (foreign key).
ResetCommit(s) ==
  LET o == OrgOf(s) IN
  /\ pc[s] = "reset_commit"
  /\ ~OrgLocked(o)
  /\ invites' = Accepted(s)
  /\ logins' = ReplacedLogins(s)
  /\ agreements' = IF AgreesAnew(o, req[s].terms)
                   THEN Append(agreements, Agreement(s)) ELSE agreements
  /\ Straddle(s)
  /\ Finish(s)
  /\ UNCHANGED <<clock, orgs, credentials, seedById>>

-----------------------------------------------------------------------------
(* Nodes and tokens (the organization's console) *)

\* A session is as good as its login, looked up at every request.
SignedIn(o) == Live(o) # {}

HasLiveNode(o, key) ==
  \E n \in DOMAIN nodes : nodes[n].org = o /\ nodes[n].key = key /\ ~nodes[n].revoked

\* POST /org/nodes: a live node with this key is refused; no lock, no constraint.
RegisterCheck(s, o, key) ==
  /\ SignedIn(o)
  /\ ~HasLiveNode(o, key)
  /\ Begin(s, "register", [org |-> o, key |-> key])
  /\ UNCHANGED <<clock, members, credentials, seedById, straddled>>

RegisterNode(s) ==
  /\ pc[s] = "register"
  /\ nodes' = Append(nodes, [org |-> req[s].org, key |-> req[s].key,
                             seeded |-> FALSE, revoked |-> FALSE])
  /\ Finish(s)
  /\ UNCHANGED <<clock, members, tokens, seedById, straddled>>
  /\ Bounded

\* POST /org/nodes/:node_id/tokens: the node is looked up before BEGIN.
IssueStart(s, n) ==
  /\ SignedIn(nodes[n].org) /\ ~nodes[n].revoked
  /\ Begin(s, "issue", [node |-> n])
  /\ UNCHANGED <<clock, members, credentials, seedById, straddled>>

IssueToken(s) ==
  /\ pc[s] = "issue"
  /\ tokens' = Append(tokens, [node |-> req[s].node, seeded |-> FALSE, revoked |-> FALSE])
  /\ Finish(s)
  /\ UNCHANGED <<clock, members, nodes, seedById, straddled>>
  /\ Bounded

RevokeNode(n) ==
  /\ SignedIn(nodes[n].org) /\ ~nodes[n].revoked
  /\ nodes' = [nodes EXCEPT ![n].revoked = TRUE]
  /\ UNCHANGED <<clock, members, tokens, seedById, straddled, requests>>

RevokeToken(k) ==
  /\ SignedIn(nodes[tokens[k].node].org) /\ ~tokens[k].revoked
  /\ tokens' = [tokens EXCEPT ![k].revoked = TRUE]
  /\ UNCHANGED <<clock, members, nodes, seedById, straddled, requests>>

-----------------------------------------------------------------------------
(* Boots (seedIdentity) *)

SeedStart(s) ==
  /\ Begin(s, "seed_lock", None)
  /\ UNCHANGED <<clock, members, credentials, seedById, straddled>>

\* Slip: no advisory lock.
AnyoneSeeds == TRUE

NobodySeeds == \A s \in Requests : pc[s] # "seed_commit"

\* The organization of that name; the node of that id, or a live one with the
\* seed's key.  None stands for a row that is to be created.
FoundOrg ==
  IF NameTaken(SeedName) THEN CHOOSE o \in DOMAIN orgs : orgs[o].name = SeedName ELSE None

FoundNode(o) ==
  LET found == {n \in DOMAIN nodes :
                  IF seedById THEN nodes[n].seeded
                  ELSE nodes[n].org = o /\ nodes[n].key = SeedKey /\ ~nodes[n].revoked}
  IN IF found = {} THEN None ELSE CHOOSE n \in found : \A m \in found : n <= m

\* A node of that id in another organization stops the boot.
SeedRead(s) ==
  LET o == FoundOrg
      n == FoundNode(o)
  IN
  /\ pc[s] = "seed_lock"
  /\ NobodySeeds
  /\ IF n # None /\ nodes[n].org # o
       THEN Finish(s)
       ELSE Go(s, "seed_commit", [org |-> o, node |-> n])
  /\ UNCHANGED <<clock, members, credentials, seedById, straddled>>

\* ON CONFLICT (token_hash) DO NOTHING.
SeedToken(node) ==
  IF \E k \in DOMAIN tokens : tokens[k].seeded THEN tokens
  ELSE Append(tokens, [node |-> node, seeded |-> TRUE, revoked |-> FALSE])

\* A name taken since it was looked up violates UNIQUE and stops the boot.
SeedCommit(s) ==
  LET o == IF req[s].org = None THEN Len(orgs) + 1 ELSE req[s].org
      n == IF req[s].node = None THEN Len(nodes) + 1 ELSE req[s].node
  IN
  /\ pc[s] = "seed_commit"
  /\ IF req[s].org = None /\ NameTaken(SeedName)
       THEN UNCHANGED <<orgs, credentials>>
       ELSE /\ orgs' = IF req[s].org = None
                       THEN Append(orgs, [name |-> SeedName, enrolled |-> FALSE, seeded |-> TRUE])
                       ELSE orgs
            /\ nodes' = IF req[s].node = None
                        THEN Append(nodes, [org |-> o, key |-> SeedKey,
                                            seeded |-> TRUE, revoked |-> FALSE])
                        ELSE nodes
            /\ tokens' = SeedToken(n)
  /\ Finish(s)
  /\ UNCHANGED <<clock, invites, logins, agreements, seedById, straddled>>
  /\ Bounded

-----------------------------------------------------------------------------

\* A statement fails or the process dies: the transaction rolls back.
Fail(s) ==
  /\ pc[s] # "idle"
  /\ Finish(s)
  /\ UNCHANGED <<clock, members, credentials, seedById, straddled>>

Tick ==
  /\ clock < MaxClock
  /\ clock' = clock + 1
  /\ UNCHANGED <<members, credentials, seedById, straddled, requests>>

Next ==
  \/ \E name \in Names : CreateOrganization(name)
  \/ \E s \in Requests :
       \/ ReinviteStart(s) \/ ReinviteLock(s) \/ ReinviteCommit(s)
       \/ \E i \in DOMAIN invites : \E terms \in Terms : Redeem(s, i, terms)
       \/ ClaimRefused(s) \/ Claim(s) \/ ResetRead(s) \/ ResetWait(s)
       \/ EnrollCommit(s) \/ ResetCommit(s)
       \/ \E o \in DOMAIN orgs, key \in Keys : RegisterCheck(s, o, key)
       \/ RegisterNode(s)
       \/ \E n \in DOMAIN nodes : IssueStart(s, n)
       \/ IssueToken(s)
       \/ SeedStart(s) \/ SeedRead(s) \/ SeedCommit(s)
       \/ Fail(s)
  \/ \E n \in DOMAIN nodes : RevokeNode(n)
  \/ \E k \in DOMAIN tokens : RevokeToken(k)
  \/ Tick

Spec == Init /\ [][Next]_vars

-----------------------------------------------------------------------------
(* Properties *)

Pcs == {"idle", "reinvite_lock", "reinvite_commit", "claim", "register", "issue",
        "seed_lock", "seed_commit"} \cup Claiming

\* Type invariant: rows refer to rows that exist, and an idle request has nothing.
TypeOK ==
  /\ clock \in 0..MaxClock
  /\ orgs \in Seq([name : Names, enrolled : BOOLEAN, seeded : BOOLEAN])
  /\ invites \in Seq([org : DOMAIN orgs, kind : {"enroll", "reset"}, expires : Nat,
                      accepted : BOOLEAN])
  /\ logins \in Seq([org : DOMAIN orgs, by : DOMAIN invites, terms : Terms, revoked : BOOLEAN])
  /\ agreements \in Seq([org : DOMAIN orgs, terms : Terms, asked : BOOLEAN])
  /\ nodes \in Seq([org : DOMAIN orgs, key : Keys, seeded : BOOLEAN, revoked : BOOLEAN])
  /\ tokens \in Seq([node : DOMAIN nodes, seeded : BOOLEAN, revoked : BOOLEAN])
  /\ seedById \in BOOLEAN
  /\ straddled \subseteq DOMAIN orgs
  /\ pc \in [Requests -> Pcs]
  /\ \A s \in Requests : pc[s] = "idle" => req[s] = None

\* completeReset "revoke every console login the organization has": whoever
\* redeems, resets and invites at once, an organization has one live login,
\* unless an invite of it expired while it was being redeemed.
OneLiveLogin ==
  \A o \in DOMAIN orgs : o \notin straddled => Cardinality(Live(o)) <= 1

\* "One-time invites": an accepted invite has produced exactly one login of
\* its organization and an open one none, so no refused redemption burns one.
InviteMakesOneLogin ==
  \A i \in DOMAIN invites :
    LET made == {l \in DOMAIN logins : logins[l].by = i} IN
    /\ Cardinality(made) = IF invites[i].accepted THEN 1 ELSE 0
    /\ \A l \in made : logins[l].org = invites[i].org

\* "two concurrent re-invites cannot both pass the open-invite check"
OneOpenInvite ==
  \A i, j \in DOMAIN invites :
    OpenAt(i, clock) /\ OpenAt(j, clock) /\ invites[i].org = invites[j].org => i = j

\* Nobody holds a login under terms the organization has not agreed to, and no
\* agreement is recorded that the form did not ask for, although the form decides
\* that before the transaction and releases with different terms run side by side;
\* unless an invite straddled its expiry.
AgreementsMatchForms ==
  /\ \A l \in DOMAIN logins :
       \E i \in DOMAIN agreements :
         agreements[i].org = logins[l].org /\ agreements[i].terms = logins[l].terms
  /\ \A i \in DOMAIN agreements : agreements[i].org \notin straddled => agreements[i].asked

\* However many processes boot at once, an organization has at most one live
\* node that a boot created.
SeedsOneNode ==
  \A m, n \in DOMAIN nodes :
    /\ nodes[m].seeded /\ nodes[n].seeded /\ nodes[m].org = nodes[n].org
    /\ ~nodes[m].revoked /\ ~nodes[n].revoked
    => m = n

=============================================================================
