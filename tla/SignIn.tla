------------------------------- MODULE SignIn -------------------------------
(***************************************************************************)
(* Sign-in to the consoles: the failure windows (identity/ratelimit.ts),   *)
(* the member's and the operator's login handlers (console/index.ts,       *)
(* challenge/operator.ts), and what browsers hold: signed session cookies  *)
(* and the CSRF nonce that forms repeat (console/session.ts).              *)
(*                                                                         *)
(* A handler runs until its next await, so a login checks the windows in   *)
(* one step and records its failure in a later one.  A tab shows a page or *)
(* waits for a request.  Signatures hold: a cookie is what the service set.*)
(* Of the nonces only this is kept: whether the one a tab carries is still *)
(* the one in its browser's cookie.                                        *)
(***************************************************************************)
EXTENDS Integers, Sequences, FiniteSets

CONSTANTS
  Org, Address, Browser, Tab,
  AddressOf, BrowserOf,        \* of a browser, of a tab
  Token,                       \* node tokens
  OperatorToken,               \* what IWIK_OPERATOR_TOKEN may be set to
  Every, Operators,            \* subjects of the per-address windows
  None,
  MaxFailures, Window,         \* LOGIN_RATE_LIMIT, in ticks of the clock
  Ttl,                         \* SESSION_TTL_SECONDS, in ticks; stands for the operator's too
  MaxClock, MaxLogins, MaxRestarts   \* bounds

ASSUME SignInAssumption ==
  /\ IsFiniteSet(Tab)
  /\ AddressOf \in [Browser -> Address] /\ BrowserOf \in [Tab -> Browser]
  /\ {Every, Operators} \cap Org = {} /\ Every # Operators
  /\ None \notin Org \cup Token \cup OperatorToken
  /\ MaxFailures \in Nat \ {0} /\ Window \in Nat \ {0} /\ Ttl \in Nat
  /\ MaxClock \in Nat /\ MaxRestarts \in Nat /\ MaxLogins \in Nat \ {0}

VARIABLES
  clock, restarts,
  login,      \* per organization, how many logins it has had; the last is live
  live,       \* node tokens not revoked, of nodes not revoked
  operator,   \* the configured operator token
  failures,   \* per subject and address, times of the recent failures
  session,    \* per browser, the member's session cookie
  desk,       \* per browser, the operator's session cookie
  csrf,       \* per browser, whether it holds a CSRF cookie
  tab,        \* per tab, the page it shows or the request it waits for
  guesses     \* history: per address, times of recent refused passwords and operator tokens

vars == <<clock, restarts, login, live, operator, failures, session, desk, csrf, tab, guesses>>
service == <<clock, restarts, login, live, operator>>

Subject == Org \cup {Every, Operators}
Kinds == {"member", "operator"}

-----------------------------------------------------------------------------

Payload(who, at) == [who |-> who, exp |-> at + Ttl]

Opened(cookie) == IF cookie # None /\ cookie.exp >= clock THEN cookie ELSE None

\* (Slip: any login of the organization vouches for its cookies.)
LiveAsOrg(payload) ==
  /\ payload # None
  /\ payload.who \notin Token => payload.who[1] \in Org
  /\ payload.who \in Token => payload.who \in live

\* resolveSession: the login or token must still be there and not revoked.
Live(payload) ==
  /\ payload # None
  /\ payload.who \notin Token => payload.who[2] = login[payload.who[1]]
  /\ payload.who \in Token => payload.who \in live

ResolveSession(payload) == IF Live(payload) THEN payload ELSE None

\* No reset has replaced it, nobody has revoked it.
InForce(who) == IF who \in Token THEN who \in live ELSE login[who[1]] <= who[2]

\* History: what the request of a page or a form carried had not ended then.
Asked(payload) == payload # None => InForce(payload.who)

ResolveOperatorSession(b) ==
  IF Opened(desk[b]) # None /\ operator # None /\ desk[b].who = operator THEN desk[b] ELSE None

-----------------------------------------------------------------------------
(* The failure windows.  Entries that have aged are dropped by every reader  *)
(* before it looks (recent), so Tick drops them.                             *)

\* Failures are pushed as they happen, so those that have aged come first.
Recent(times, now) ==
  LET aged == Cardinality({i \in DOMAIN times : now - times[i] >= Window})
  IN  SubSeq(times, aged + 1, Len(times))

Blocked(subject, a) == Len(Recent(failures[<<subject, a>>], clock)) >= MaxFailures

Recorded(subjects, a) ==
  [k \in DOMAIN failures |->
     IF k[1] \in subjects /\ k[2] = a THEN Append(Recent(failures[k], clock), clock)
     ELSE failures[k]]

\* (Slip: a success clears the address's own window too.)
ClearedBoth(subject, a) ==
  [k \in DOMAIN failures |-> IF k \in {<<subject, a>>, <<Every, a>>} THEN <<>> ELSE failures[k]]

Cleared(subject, a) == [failures EXCEPT ![<<subject, a>>] = <<>>]

Guessed(kind, a) == guesses' = [guesses EXCEPT ![<<kind, a>>] = Append(@, clock)]

-----------------------------------------------------------------------------
(* Tabs.  A blank one shows an error, a redirect, or a page whose form would *)
(* be refused because its nonce has been replaced.                           *)
Blank == [at |-> "blank"]
Shown(member, op) == [at |-> "shown", member |-> member, operator |-> op]

Outdated(x) ==
  CASE x.at = "shown" -> Blank
    [] x.at \in {"opening", "rendering"} -> [x EXCEPT !.fresh = FALSE]
    [] OTHER -> x

At(t, step) == tab[t].at = step
Becomes(t, x) == tab' = [tab EXCEPT ![t] = x]

\* (Slip: a session keeps the nonce that was there before it.)
RotateNever(t, x) ==
  /\ csrf' = [csrf EXCEPT ![BrowserOf[t]] = TRUE]
  /\ Becomes(t, x)

\* The reply to t sets a new nonce: what the browser's other tabs carry, or will
\* show, is refused from here on.
RotateCsrf(t, x) ==
  /\ csrf' = [csrf EXCEPT ![BrowserOf[t]] = TRUE]
  /\ tab' = [u \in Tab |->
       IF u = t THEN x
       ELSE IF BrowserOf[u] = BrowserOf[t] THEN Outdated(tab[u])
       ELSE tab[u]]

\* requireCsrf for the form that t shows.
CsrfAccepted(t) == At(t, "shown") /\ csrf[BrowserOf[t]]

Init ==
  /\ clock = 0 /\ restarts = 0
  /\ login = [o \in Org |-> 1] /\ live = Token
  /\ operator \in OperatorToken
  /\ failures = [k \in Subject \X Address |-> <<>>]
  /\ session = [b \in Browser |-> None] /\ desk = [b \in Browser |-> None]
  /\ csrf = [b \in Browser |-> FALSE]
  /\ tab = [t \in Tab |-> Blank]
  /\ guesses = [k \in Kinds \X Address |-> <<>>]

(* GET of any page: the cookies the request carries are opened at once, the  *)
(* member's session is looked up, what the page shows is queried, and then   *)
(* it is rendered; its form repeats the nonce the request carried, or a new  *)
(* one.                                                                      *)
OpenPage(t) ==
  /\ tab[t].at \in {"blank", "shown"}
  /\ LET b == BrowserOf[t]
         member == Opened(session[b])
     IN  Becomes(t, [at |-> "opening", fresh |-> csrf[b], none |-> ~csrf[b], member |-> member,
                     operator |-> ResolveOperatorSession(b), asked |-> Asked(member)])
  /\ UNCHANGED <<service, failures, session, desk, csrf, guesses>>

LookUpSession(t) ==
  /\ At(t, "opening")
  /\ Becomes(t, [tab[t] EXCEPT !.at = "rendering", !.member = ResolveSession(tab[t].member)])
  /\ UNCHANGED <<service, failures, session, desk, csrf, guesses>>

ShowPage(t) ==
  /\ At(t, "rendering")
  /\ LET page == Shown(tab[t].member, tab[t].operator)
     IN  IF tab[t].none
         THEN RotateCsrf(t, page)
         ELSE Becomes(t, IF tab[t].fresh THEN page ELSE Blank) /\ UNCHANGED csrf
  /\ UNCHANGED <<service, failures, session, desk, guesses>>

(* POST /org/...: a form of the organization's console.  The session of the  *)
(* cookie is looked up, and then a transaction of its own writes.            *)
FormPosted(t) ==
  LET member == Opened(session[BrowserOf[t]])
  IN  /\ CsrfAccepted(t)
      /\ tab[t].member # None /\ tab[t].member.who \notin Token
      /\ Becomes(t, [at |-> "checking", form |-> tab[t].member, member |-> member,
                     asked |-> Asked(member)])
      /\ UNCHANGED <<service, failures, session, desk, csrf, guesses>>

\* orgSession: a redirect to the sign-in unless it is a member's session.
FormChecked(t) ==
  LET member == ResolveSession(tab[t].member)
  IN  /\ At(t, "checking")
      /\ Becomes(t, IF member # None /\ member.who \notin Token
                    THEN [tab[t] EXCEPT !.at = "writing", !.member = member] ELSE Blank)
      /\ UNCHANGED <<service, failures, session, desk, csrf, guesses>>

FormWritten(t) ==
  /\ At(t, "writing") /\ Becomes(t, Blank)
  /\ UNCHANGED <<service, failures, session, desk, csrf, guesses>>

(* POST /console/login: refused before the password is looked at while a     *)
(* window is full.  A password is the one of the organization's n-th login,  *)
(* or of none of them (0).                                                   *)
LoginRefused(t, o) ==
  /\ CsrfAccepted(t)
  /\ \E s \in {o, Every} : Blocked(s, AddressOf[BrowserOf[t]])
  /\ Becomes(t, Blank)
  /\ UNCHANGED <<service, failures, session, desk, csrf, guesses>>

LoginAdmitted(t, o, n) ==
  /\ CsrfAccepted(t)
  /\ \A s \in {o, Every} : ~Blocked(s, AddressOf[BrowserOf[t]])
  /\ Becomes(t, [at |-> "lookup", org |-> o, password |-> n])
  /\ UNCHANGED <<service, failures, session, desk, csrf, guesses>>

\* findConsoleLoginByOrgName: the live login.
LoginLookup(t) ==
  /\ At(t, "lookup")
  /\ Becomes(t, [at |-> "judge", org |-> tab[t].org, password |-> tab[t].password,
                 found |-> login[tab[t].org]])
  /\ UNCHANGED <<service, failures, session, desk, csrf, guesses>>

LoginFailed(t) ==
  /\ At(t, "judge") /\ tab[t].password # tab[t].found
  /\ failures' = Recorded({tab[t].org, Every}, AddressOf[BrowserOf[t]])
  /\ Guessed("member", AddressOf[BrowserOf[t]])
  /\ Becomes(t, Blank)
  /\ UNCHANGED <<service, session, desk, csrf>>

LoginSucceeded(t) ==
  /\ At(t, "judge") /\ tab[t].password = tab[t].found
  /\ failures' = Cleared(tab[t].org, AddressOf[BrowserOf[t]])
  /\ Becomes(t, [at |-> "reply", to |-> "member",
                 cookie |-> Payload(<<tab[t].org, tab[t].found>>, clock)])
  /\ UNCHANGED <<service, session, desk, csrf, guesses>>

(* POST /console/session: a node token.                                      *)
TokenPosted(t, k) ==
  /\ CsrfAccepted(t)
  /\ Becomes(t, [at |-> "token", token |-> k])
  /\ UNCHANGED <<service, failures, session, desk, csrf, guesses>>

TokenJudged(t) ==
  /\ At(t, "token")
  /\ Becomes(t, IF tab[t].token \in live
                THEN [at |-> "reply", to |-> "member", cookie |-> Payload(tab[t].token, clock)]
                ELSE Blank)
  /\ UNCHANGED <<service, failures, session, desk, csrf, guesses>>

(* POST /admin/login: nothing is awaited between the check and the record.   *)
OperatorLogin(t, k) ==
  LET a == AddressOf[BrowserOf[t]] IN
  /\ CsrfAccepted(t)
  /\ IF Blocked(Operators, a) THEN Becomes(t, Blank) /\ UNCHANGED <<failures, guesses>>
     ELSE IF operator = None \/ k # operator
     THEN /\ failures' = Recorded({Operators}, a)
          /\ Guessed("operator", a)
          /\ Becomes(t, Blank)
     ELSE /\ failures' = Cleared(Operators, a)
          /\ Becomes(t, [at |-> "reply", to |-> "operator", cookie |-> Payload(k, clock)])
          /\ guesses' = [guesses EXCEPT ![<<"operator", a>>] = <<>>]
  /\ UNCHANGED <<service, session, desk, csrf>>

(* POST /enroll/:invite of a reset: every earlier login is revoked in the    *)
(* transaction, and the reply signs the browser in as the new one.           *)
ResetPassword(t, o) ==
  /\ CsrfAccepted(t) /\ login[o] < MaxLogins
  /\ login' = [login EXCEPT ![o] = @ + 1]
  /\ Becomes(t, [at |-> "reply", to |-> "member", cookie |-> Payload(<<o, login'[o]>>, clock)])
  /\ UNCHANGED <<clock, restarts, live, operator, failures, session, desk, csrf, guesses>>

(* The reply, after the audit row: the browser takes the session cookie and  *)
(* the new nonce together.                                                   *)
Reply(t) ==
  /\ At(t, "reply")
  /\ LET b == BrowserOf[t]
     IN  IF tab[t].to = "member"
         THEN session' = [session EXCEPT ![b] = tab[t].cookie] /\ UNCHANGED desk
         ELSE desk' = [desk EXCEPT ![b] = tab[t].cookie] /\ UNCHANGED session
  /\ RotateCsrf(t, Blank)
  /\ UNCHANGED <<service, failures, guesses>>

\* POST /console/logout and /admin/logout: the cookie goes, the nonce stays.
Logout(t) ==
  /\ CsrfAccepted(t)
  /\ \/ session' = [session EXCEPT ![BrowserOf[t]] = None] /\ UNCHANGED desk
     \/ desk' = [desk EXCEPT ![BrowserOf[t]] = None] /\ UNCHANGED session
  /\ Becomes(t, Blank)
  /\ UNCHANGED <<service, failures, csrf, guesses>>

\* A statement fails and the answer is a 500.  After the audit row failed the
\* answer may still carry the cookies, which is the framework's choice (Reply).
RequestFails(t) ==
  /\ tab[t].at \in {"opening", "rendering", "checking", "writing", "lookup", "token", "reply"}
  /\ Becomes(t, Blank)
  /\ UNCHANGED <<service, failures, session, desk, csrf, guesses>>

RevokeToken(k) ==
  /\ k \in live
  /\ live' = live \ {k}
  /\ UNCHANGED <<clock, restarts, login, operator, failures, session, desk, csrf, tab, guesses>>

\* The windows are memory of the process; the session key and the cookies stay.
Restart ==
  /\ restarts < MaxRestarts
  /\ restarts' = restarts + 1
  /\ operator' \in OperatorToken \cup {None}
  /\ failures' = [k \in DOMAIN failures |-> <<>>]
  /\ guesses' = [k \in DOMAIN guesses |-> <<>>]
  /\ tab' = [t \in Tab |-> IF At(t, "shown") THEN tab[t] ELSE Blank]
  /\ UNCHANGED <<clock, login, live, session, desk, csrf>>

Tick ==
  /\ clock < MaxClock
  /\ clock' = clock + 1
  /\ failures' = [k \in DOMAIN failures |-> Recent(failures[k], clock')]
  /\ guesses' = [k \in DOMAIN guesses |-> Recent(guesses[k], clock')]
  /\ UNCHANGED <<restarts, login, live, operator, session, desk, csrf, tab>>

Request(t) ==
  \/ OpenPage(t) \/ LookUpSession(t) \/ ShowPage(t)
  \/ FormPosted(t) \/ FormChecked(t) \/ FormWritten(t)
  \/ \E o \in Org : LoginRefused(t, o) \/ ResetPassword(t, o)
                    \/ \E n \in 0..login[o] : LoginAdmitted(t, o, n)
  \/ LoginLookup(t) \/ LoginFailed(t) \/ LoginSucceeded(t)
  \/ \E k \in Token : TokenPosted(t, k)
  \/ TokenJudged(t)
  \/ \E k \in OperatorToken : OperatorLogin(t, k)
  \/ Reply(t) \/ Logout(t) \/ RequestFails(t)

Next == (\E t \in Tab : Request(t)) \/ (\E k \in Token : RevokeToken(k)) \/ Restart \/ Tick

Spec == Init /\ [][Next]_vars

-----------------------------------------------------------------------------
Members == [who : (Org \X (1..MaxLogins)) \cup Token, exp : Ttl..(MaxClock + Ttl)]
Desks == [who : OperatorToken, exp : Ttl..(MaxClock + Ttl)]

\* Types, with sessions that last at most Ttl from now.
TypeOK ==
  /\ clock \in 0..MaxClock /\ restarts \in 0..MaxRestarts
  /\ login \in [Org -> 1..MaxLogins] /\ live \subseteq Token
  /\ operator \in OperatorToken \cup {None}
  /\ session \in [Browser -> Members \cup {None}] /\ desk \in [Browser -> Desks \cup {None}]
  /\ \A b \in Browser : /\ session[b] # None => session[b].exp <= clock + Ttl
                        /\ desk[b] # None => desk[b].exp <= clock + Ttl
  /\ csrf \in [Browser -> BOOLEAN]

(* The windows bound what one address can try, whichever organizations it    *)
(* names and whatever it signs in to in between: within any Window there are *)
(* at most MaxFailures refused passwords, and those that were in flight with *)
(* the last of them; for the operator token, where nothing is awaited        *)
(* between check and record, MaxFailures until it is right once.             *)
GuessesAreBounded ==
  \A a \in Address :
    LET alongside == Cardinality({t \in Tab : AddressOf[BrowserOf[t]] = a}) - 1
    IN  /\ Len(guesses[<<"member", a>>]) <= MaxFailures + alongside
        /\ Len(guesses[<<"operator", a>>]) <= MaxFailures

(* "The old password stops working and its sessions end": what is rendered   *)
(* for a member, and what a form writes, was asked for while its login had   *)
(* not been replaced nor its token revoked, even under a cookie of a sign-in *)
(* that was in flight during the reset; and what a form writes, it writes    *)
(* under the very session that the page with the form was shown to, whatever *)
(* the browser's other tabs did.  A request that was under way when its      *)
(* session ended may still finish: nothing looks again after the lookup.     *)
EndedSessionsStayEnded ==
  \A t \in Tab :
    /\ tab[t].at \in {"rendering", "writing"} /\ tab[t].member # None => tab[t].asked
    /\ At(t, "writing") => tab[t].member = tab[t].form

(* A form acts under the session it was rendered for: one that would still   *)
(* be accepted was not rendered for another sign-in than the browser's       *)
(* present one, whichever tabs signed in, out or reset meanwhile.            *)
FormsKeepTheirSession ==
  \A t \in Tab : CsrfAccepted(t) =>
    LET b == BrowserOf[t]
    IN  /\ tab[t].member # None => session[b] \in {tab[t].member, None}
        /\ tab[t].operator # None => desk[b] \in {tab[t].operator, None}

=============================================================================
