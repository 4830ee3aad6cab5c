---------------------------- MODULE SignInProofs ----------------------------
(***************************************************************************)
(* Proofs about SignIn, for every number of browsers, tabs, organizations  *)
(* and tokens: cookies are well formed and never outlive Ttl, a form acts  *)
(* under the session it was shown for, an ended session stays ended, and an*)
(* address gets no more tries than its windows allow.                      *)
(***************************************************************************)
EXTENDS SignIn, SequenceTheorems, FiniteSetTheorems, TLAPS

\* What a tab may be.
Pages == [at : {"shown"}, member : Members \cup {None}, operator : Desks \cup {None}]

Openings == [at : {"opening", "rendering"}, fresh : BOOLEAN, none : BOOLEAN,
             member : Members \cup {None}, operator : Desks \cup {None}, asked : BOOLEAN]

Posts == [at : {"checking", "writing"}, form : Members, member : Members \cup {None},
          asked : BOOLEAN]

Page(x) == x \in Pages
Opening(x) == x \in Openings
Posted(x) == x \in Posts

Answer(x) ==
  /\ x.at = "reply"
  /\ x.to = "member" => x.cookie \in Members
  /\ x.to # "member" => x.cookie \in Desks
  /\ x.cookie.exp <= clock + Ttl

Waiting(x) ==
  \/ x.at = "lookup" /\ x.org \in Org
  \/ x.at = "judge" /\ x.org \in Org /\ x.found \in 1..MaxLogins
  \/ x.at = "token" /\ x.token \in Token

TabOK(x) == x = Blank \/ Page(x) \/ Opening(x) \/ Posted(x) \/ Answer(x) \/ Waiting(x)

TabsOK ==
  /\ DOMAIN tab = Tab /\ tab = [t \in Tab |-> tab[t]]
  /\ \A t \in Tab : TabOK(tab[t])

IInv == TypeOK /\ TabsOK

-----------------------------------------------------------------------------
LEMMA InitOK == Init => IInv
<1> SUFFICES ASSUME Init PROVE IInv
  OBVIOUS
<1>1. TypeOK
  BY SignInAssumption DEF Init, TypeOK
<1>2. TabsOK
  BY DEF Init, TabsOK, TabOK
<1> QED BY <1>1, <1>2 DEF IInv

\* A new cookie lasts Ttl from now.
LEMMA NewCookie ==
  ASSUME clock \in 0..MaxClock, NEW who
  PROVE  /\ who \in (Org \X (1..MaxLogins)) \cup Token => Payload(who, clock) \in Members
         /\ who \in OperatorToken => Payload(who, clock) \in Desks
         /\ Payload(who, clock).exp = clock + Ttl
  BY SignInAssumption DEF Payload, Members, Desks

\* What a tab becomes by a step of its own that takes no time.
LEMMA OneTab ==
  ASSUME TabsOK, NEW t \in Tab, NEW x, Becomes(t, x), clock' = clock, TabOK(x)
  PROVE  TabsOK'
<1>1. DOMAIN tab' = Tab /\ tab' = [u \in Tab |-> tab'[u]]
  BY DEF TabsOK, Becomes
<1>2. \A u \in Tab : TabOK(tab'[u])
  BY DEF TabsOK, Becomes
<1>3. ASSUME NEW y, TabOK(y) PROVE TabOK(y)'
  BY <1>3 DEF TabOK, Page, Pages, Posted, Posts, Opening, Openings, Answer, Waiting, Members, Desks
<1> QED BY <1>1, <1>2, <1>3 DEF TabsOK

\* A tab whose nonce was replaced is still well formed.
LEMMA OutdatedOK ==
  ASSUME NEW x, TabOK(x)
  PROVE  TabOK(Outdated(x)) /\ (Outdated(x) = x \/ Outdated(x) = Blank
                                 \/ (Opening(x) /\ Opening(Outdated(x))
                                     /\ Outdated(x).at = x.at
                                     /\ ~Outdated(x).fresh /\ Outdated(x).none = x.none
                                     /\ Outdated(x).member = x.member
                                     /\ Outdated(x).operator = x.operator
                                     /\ Outdated(x).asked = x.asked))
<1>1. CASE x.at = "shown"
  BY <1>1 DEF Outdated, TabOK
<1>2. CASE x.at \in {"opening", "rendering"}
  <2>1. Opening(x)
    BY <1>2 DEF TabOK, Blank, Page, Pages, Posted, Posts, Answer, Waiting
  <2>2. Outdated(x) = [x EXCEPT !.fresh = FALSE]
    BY <1>2 DEF Outdated
  <2>3. /\ Outdated(x) \in Openings /\ ~Outdated(x).fresh /\ Outdated(x).at = x.at
        /\ Outdated(x).none = x.none /\ Outdated(x).member = x.member
        /\ Outdated(x).operator = x.operator /\ Outdated(x).asked = x.asked
    BY <2>1, <2>2 DEF Opening, Openings
  <2> QED BY <2>1, <2>3 DEF TabOK, Opening
<1>3. CASE x.at \notin {"shown", "opening", "rendering"}
  BY <1>3 DEF Outdated
<1> QED BY <1>1, <1>2, <1>3

\* What the tabs become when the reply to one of them sets a nonce.
LEMMA Rotated ==
  ASSUME TabsOK, NEW t \in Tab, NEW x, RotateCsrf(t, x), clock' = clock, TabOK(x)
  PROVE  TabsOK'
<1>1. DOMAIN tab' = Tab /\ tab' = [u \in Tab |-> tab'[u]]
  BY DEF RotateCsrf
<1>2. \A u \in Tab : TabOK(tab'[u])
  <2> TAKE u \in Tab
  <2>1. TabOK(tab[u]) /\ TabOK(Outdated(tab[u]))
    BY OutdatedOK DEF TabsOK
  <2>2. tab'[u] \in {x, tab[u], Outdated(tab[u])}
    BY DEF RotateCsrf
  <2> QED BY <2>1, <2>2
<1>3. ASSUME NEW y, TabOK(y) PROVE TabOK(y)'
  BY <1>3 DEF TabOK, Page, Pages, Posted, Posts, Opening, Openings, Answer, Waiting, Members, Desks
<1> QED BY <1>1, <1>2, <1>3 DEF TabsOK

\* Most steps of a tab change nothing that TypeOK speaks of.
LEMMA SameCookies ==
  ASSUME TypeOK, UNCHANGED <<service, session, desk, csrf>>
  PROVE  TypeOK'
  BY DEF TypeOK, service, Members, Desks

LEMMA NonceSet ==
  ASSUME csrf \in [Browser -> BOOLEAN], NEW t, NEW x, RotateCsrf(t, x)
  PROVE  csrf' \in [Browser -> BOOLEAN]
  BY DEF RotateCsrf

\* Whether a session was in force is one of two answers.
LEMMA AskedIs == \A payload : Asked(payload) \in BOOLEAN
  BY DEF Asked, InForce

LEMMA PageSteps ==
  ASSUME IInv, NEW t \in Tab, OpenPage(t) \/ LookUpSession(t) \/ ShowPage(t)
  PROVE  IInv'
<1> USE SignInAssumption
<1> DEFINE b == BrowserOf[t]
<1>1. CASE OpenPage(t)
  <2>1. TypeOK'
    BY <1>1, SameCookies DEF IInv, OpenPage
  <2>2. session[b] \in Members \cup {None} /\ desk[b] \in Desks \cup {None} /\ csrf[b] \in BOOLEAN
    BY DEF IInv, TypeOK
  <2>3. Opened(session[b]) \in Members \cup {None} /\ ResolveOperatorSession(b) \in Desks \cup {None}
    BY <2>2 DEF Opened, ResolveOperatorSession
  <2> DEFINE member == Opened(session[b])
             x == [at |-> "opening", fresh |-> csrf[b], none |-> ~csrf[b], member |-> member,
                   operator |-> ResolveOperatorSession(b), asked |-> Asked(member)]
  <2>4. Opening(x)
    BY <2>2, <2>3, AskedIs DEF Opening, Openings
  <2>5. Becomes(t, x) /\ clock' = clock
    BY <1>1 DEF OpenPage, service
  <2> QED BY <2>1, <2>4, <2>5, OneTab DEF IInv, TabOK
<1>2. CASE LookUpSession(t)
  <2> DEFINE x == [tab[t] EXCEPT !.at = "rendering", !.member = ResolveSession(tab[t].member)]
  <2>1. Opening(tab[t])
    BY <1>2 DEF LookUpSession, At, IInv, TabsOK, TabOK, Blank, Page, Pages, Posted, Posts, Answer, Waiting
  <2>2. Opening(x)
    BY <2>1 DEF Opening, Openings, ResolveSession
  <2>3. Becomes(t, x) /\ clock' = clock /\ UNCHANGED <<service, session, desk, csrf>>
    BY <1>2 DEF LookUpSession, service
  <2> QED BY <2>2, <2>3, OneTab, SameCookies DEF IInv, TabOK
<1>3. CASE ShowPage(t)
  <2> DEFINE x == Shown(tab[t].member, tab[t].operator)
  <2>1. Opening(tab[t])
    BY <1>3 DEF ShowPage, At, IInv, TabsOK, TabOK, Blank, Page, Pages, Posted, Posts, Answer, Waiting
  <2>2. Page(x)
    BY <2>1 DEF Opening, Openings, Page, Pages, Shown
  <2>3. UNCHANGED <<service, session, desk>> /\ clock' = clock
    BY <1>3 DEF ShowPage, service
  <2>4. CASE tab[t].none
    <3>1. RotateCsrf(t, x)
      BY <1>3, <2>4 DEF ShowPage
    <3>2. TypeOK'
      BY <2>3, <3>1, NonceSet DEF IInv, TypeOK, service, Members, Desks
    <3> QED BY <3>1, <3>2, <2>2, <2>3, Rotated DEF IInv, TabOK
  <2>5. CASE ~tab[t].none
    <3>1. Becomes(t, IF tab[t].fresh THEN x ELSE Blank) /\ UNCHANGED csrf
      BY <1>3, <2>5 DEF ShowPage
    <3> QED BY <3>1, <2>2, <2>3, OneTab, SameCookies DEF IInv, TabOK
  <2> QED BY <2>4, <2>5
<1> QED BY <1>1, <1>2, <1>3

\* A form is posted, checked and written.
LEMMA FormSteps ==
  ASSUME IInv, NEW t \in Tab, FormPosted(t) \/ FormChecked(t) \/ FormWritten(t)
  PROVE  IInv'
<1> USE SignInAssumption
<1>0. TypeOK /\ TabsOK /\ TabOK(tab[t])
  BY DEF IInv, TabsOK
<1>1. UNCHANGED <<service, session, desk, csrf>> /\ clock' = clock
  BY DEF FormPosted, FormChecked, FormWritten, service
<1>2. TypeOK'
  BY <1>0, <1>1, SameCookies
<1>3. ASSUME NEW x, Becomes(t, x), x = Blank \/ Posted(x) PROVE IInv'
  BY <1>0, <1>1, <1>2, <1>3, OneTab DEF IInv, TabOK
<1>4. CASE FormPosted(t)
  <2> DEFINE member == Opened(session[BrowserOf[t]])
             x == [at |-> "checking", form |-> tab[t].member, member |-> member,
                   asked |-> Asked(member)]
  <2>1. Page(tab[t]) /\ tab[t].member # None
    BY <1>0, <1>4 DEF FormPosted, CsrfAccepted, At, TabOK, Blank, Opening, Openings, Posted, Posts,
                      Answer, Waiting
  <2>2. tab[t].member \in Members
    BY <2>1 DEF Page, Pages
  <2>3. member \in Members \cup {None}
    BY <1>0 DEF TypeOK, Opened
  <2>4. Posted(x)
    BY <2>2, <2>3, AskedIs DEF Posted, Posts
  <2>5. Becomes(t, x)
    BY <1>4 DEF FormPosted
  <2> QED BY <1>3, <2>4, <2>5
<1>5. CASE FormChecked(t)
  <2> DEFINE member == ResolveSession(tab[t].member)
             x == [tab[t] EXCEPT !.at = "writing", !.member = member]
  <2>1. Posted(tab[t])
    BY <1>0, <1>5 DEF FormChecked, At, TabOK, Blank, Page, Pages, Opening, Openings, Answer, Waiting
  <2>2. Posted(x)
    BY <2>1 DEF Posted, Posts, ResolveSession
  <2>3. Becomes(t, x) \/ Becomes(t, Blank)
    BY <1>5 DEF FormChecked
  <2> QED BY <1>3, <2>2, <2>3
<1>6. CASE FormWritten(t)
  BY <1>3, <1>6 DEF FormWritten
<1> QED BY <1>4, <1>5, <1>6

\* The requests that leave the cookies to a later reply.
LEMMA LoginSteps ==
  ASSUME IInv, NEW t \in Tab, NEW o, NEW n,
         \/ o \in Org /\ (LoginRefused(t, o) \/ LoginAdmitted(t, o, n))
         \/ LoginLookup(t) \/ LoginFailed(t) \/ LoginSucceeded(t)
  PROVE  IInv'
<1>0. /\ clock \in 0..MaxClock /\ login \in [Org -> 1..MaxLogins]
      /\ TabOK(tab[t]) /\ TypeOK /\ TabsOK
  BY DEF IInv, TypeOK, TabsOK
<1>1. UNCHANGED <<service, session, desk, csrf>> /\ clock' = clock
  BY DEF LoginRefused, LoginAdmitted, LoginLookup, LoginFailed, LoginSucceeded, service
<1>2. TypeOK'
  BY <1>0, <1>1, SameCookies
<1>3. CASE (o \in Org /\ LoginRefused(t, o)) \/ LoginFailed(t)
  <2>1. Becomes(t, Blank)
    BY <1>3 DEF LoginRefused, LoginFailed
  <2> QED BY <1>0, <1>1, <1>2, <2>1, OneTab DEF IInv, TabOK
<1>4. CASE o \in Org /\ LoginAdmitted(t, o, n)
  <2> DEFINE x == [at |-> "lookup", org |-> o, password |-> n]
  <2>1. Becomes(t, x) /\ Waiting(x)
    BY <1>4 DEF LoginAdmitted, Waiting
  <2> QED BY <1>0, <1>1, <1>2, <2>1, OneTab DEF IInv, TabOK
<1>5. CASE LoginLookup(t)
  <2> DEFINE x == [at |-> "judge", org |-> tab[t].org, password |-> tab[t].password,
                   found |-> login[tab[t].org]]
  <2>1. tab[t].org \in Org
    BY <1>0, <1>5 DEF LoginLookup, At, TabOK, Blank, Page, Pages, Posted, Posts, Opening, Openings, Answer, Waiting
  <2>2. Becomes(t, x) /\ Waiting(x)
    BY <1>0, <1>5, <2>1 DEF LoginLookup, Waiting
  <2> QED BY <1>0, <1>1, <1>2, <2>2, OneTab DEF IInv, TabOK
<1>6. CASE LoginSucceeded(t)
  <2> DEFINE cookie == Payload(<<tab[t].org, tab[t].found>>, clock)
             x == [at |-> "reply", to |-> "member", cookie |-> cookie]
  <2>1. tab[t].org \in Org /\ tab[t].found \in 1..MaxLogins
    BY <1>0, <1>6 DEF LoginSucceeded, At, TabOK, Blank, Page, Pages, Posted, Posts, Opening, Openings, Answer, Waiting
  <2>2. cookie \in Members /\ cookie.exp = clock + Ttl
    BY <1>0, <2>1, NewCookie
  <2>3. cookie.exp <= clock + Ttl
    BY <1>0, <2>2, SignInAssumption
  <2>4. Becomes(t, x)
    BY <1>6 DEF LoginSucceeded
  <2>5. Answer(x)
    BY <2>2, <2>3 DEF Answer
  <2> QED BY <1>0, <1>1, <1>2, <2>4, <2>5, OneTab DEF IInv, TabOK
<1> QED BY <1>3, <1>4, <1>5, <1>6

LEMMA OtherPosts ==
  ASSUME IInv, NEW t \in Tab, NEW k, NEW w, NEW o,
         \/ k \in Token /\ TokenPosted(t, k)
         \/ w \in OperatorToken /\ OperatorLogin(t, w)
         \/ o \in Org /\ ResetPassword(t, o)
         \/ TokenJudged(t) \/ RequestFails(t)
  PROVE  IInv'
<1>0. /\ clock \in 0..MaxClock /\ login \in [Org -> 1..MaxLogins]
      /\ TabOK(tab[t]) /\ TypeOK /\ TabsOK
  BY DEF IInv, TypeOK, TabsOK
<1>1. UNCHANGED <<session, desk, csrf>> /\ clock' = clock
  BY DEF TokenPosted, TokenJudged, OperatorLogin, ResetPassword, RequestFails, service
<1>2. TypeOK'
  <2>1. CASE o \in Org /\ ResetPassword(t, o)
    <3>1. login' \in [Org -> 1..MaxLogins]
      BY <1>0, <2>1, SignInAssumption DEF ResetPassword
    <3>2. UNCHANGED <<clock, restarts, live, operator>>
      BY <2>1 DEF ResetPassword
    <3> QED BY <1>0, <1>1, <3>1, <3>2 DEF TypeOK, Members, Desks
  <2>2. CASE ~(o \in Org /\ ResetPassword(t, o))
    <3>1. UNCHANGED service
      BY <2>2 DEF TokenPosted, TokenJudged, OperatorLogin, RequestFails
    <3> QED BY <1>0, <1>1, <3>1, SameCookies
  <2> QED BY <2>1, <2>2
<1>3. ASSUME Becomes(t, Blank) PROVE IInv'
  BY <1>0, <1>1, <1>2, <1>3, OneTab DEF IInv, TabOK
<1>4. ASSUME NEW who, NEW to,
             \/ to = "member" /\ who \in (Org \X (1..MaxLogins)) \cup Token
             \/ to = "operator" /\ who \in OperatorToken,
             Becomes(t, [at |-> "reply", to |-> to, cookie |-> Payload(who, clock)])
      PROVE  IInv'
  <2> DEFINE x == [at |-> "reply", to |-> to, cookie |-> Payload(who, clock)]
  <2>1. Payload(who, clock).exp <= clock + Ttl
    BY <1>0, NewCookie, SignInAssumption
  <2>2. Answer(x)
    BY <1>0, <1>4, <2>1, NewCookie DEF Answer
  <2> QED BY <1>0, <1>1, <1>2, <1>4, <2>2, OneTab DEF IInv, TabOK
<1>5. CASE k \in Token /\ TokenPosted(t, k)
  <2> DEFINE x == [at |-> "token", token |-> k]
  <2>1. Becomes(t, x) /\ Waiting(x)
    BY <1>5 DEF TokenPosted, Waiting
  <2> QED BY <1>0, <1>1, <1>2, <2>1, OneTab DEF IInv, TabOK
<1>6. CASE TokenJudged(t)
  <2>1. tab[t].token \in Token
    BY <1>0, <1>6 DEF TokenJudged, At, TabOK, Blank, Page, Pages, Posted, Posts, Opening, Openings, Answer, Waiting
  <2>2. CASE tab[t].token \in live
    BY <1>4, <1>6, <2>1, <2>2 DEF TokenJudged
  <2>3. CASE tab[t].token \notin live
    BY <1>3, <1>6, <2>3 DEF TokenJudged
  <2> QED BY <2>2, <2>3
<1>7. CASE w \in OperatorToken /\ OperatorLogin(t, w)
  <2>1. \/ Becomes(t, Blank)
        \/ Becomes(t, [at |-> "reply", to |-> "operator", cookie |-> Payload(w, clock)])
    BY <1>7 DEF OperatorLogin
  <2> QED BY <1>3, <1>4, <1>7, <2>1
<1>8. CASE o \in Org /\ ResetPassword(t, o)
  <2>1. Becomes(t, [at |-> "reply", to |-> "member", cookie |-> Payload(<<o, login'[o]>>, clock)])
    BY <1>8 DEF ResetPassword
  <2>2. login'[o] \in 1..MaxLogins
    BY <1>2, <1>8 DEF TypeOK
  <2> QED BY <1>4, <1>8, <2>1, <2>2
<1>9. CASE RequestFails(t)
  BY <1>3, <1>9 DEF RequestFails
<1> QED BY <1>5, <1>6, <1>7, <1>8, <1>9

\* The steps that set or remove a session cookie.
LEMMA CookieSteps ==
  ASSUME IInv, NEW t \in Tab, Reply(t) \/ Logout(t)
  PROVE  IInv'
<1> USE SignInAssumption
<1> DEFINE b == BrowserOf[t]
<1>0. TypeOK /\ TabsOK /\ TabOK(tab[t]) /\ b \in Browser
  BY DEF IInv, TabsOK
<1>1. clock' = clock /\ UNCHANGED service
  BY DEF Reply, Logout, service
<1>2. CASE Reply(t)
  <2>1. Answer(tab[t])
    BY <1>0, <1>2 DEF Reply, At, TabOK, Blank, Page, Pages, Posted, Posts, Opening, Openings, Waiting
  <2>2. RotateCsrf(t, Blank)
    BY <1>2 DEF Reply
  <2>3. csrf' \in [Browser -> BOOLEAN]
    BY <1>0, <2>2, NonceSet DEF TypeOK
  <2>4. CASE tab[t].to = "member"
    <3>1. session' = [session EXCEPT ![b] = tab[t].cookie] /\ desk' = desk
      BY <1>2, <2>4 DEF Reply
    <3>2. tab[t].cookie \in Members /\ tab[t].cookie.exp <= clock + Ttl
      BY <2>1, <2>4 DEF Answer
    <3>3. session' \in [Browser -> Members \cup {None}]
      BY <1>0, <3>1, <3>2 DEF TypeOK
    <3>4. \A c \in Browser : session'[c] # None => session'[c].exp <= clock + Ttl
      BY <1>0, <3>1, <3>2 DEF TypeOK
    <3>5. TypeOK'
      BY <1>0, <1>1, <2>3, <3>1, <3>3, <3>4 DEF TypeOK, Members, Desks, service
    <3> QED BY <1>0, <1>1, <2>2, <3>5, Rotated DEF IInv, TabOK
  <2>5. CASE tab[t].to # "member"
    <3>1. desk' = [desk EXCEPT ![b] = tab[t].cookie] /\ session' = session
      BY <1>2, <2>5 DEF Reply
    <3>2. tab[t].cookie \in Desks /\ tab[t].cookie.exp <= clock + Ttl
      BY <2>1, <2>5 DEF Answer
    <3>3. desk' \in [Browser -> Desks \cup {None}]
      BY <1>0, <3>1, <3>2 DEF TypeOK
    <3>4. \A c \in Browser : desk'[c] # None => desk'[c].exp <= clock + Ttl
      BY <1>0, <3>1, <3>2 DEF TypeOK
    <3>5. TypeOK'
      BY <1>0, <1>1, <2>3, <3>1, <3>3, <3>4 DEF TypeOK, Members, Desks, service
    <3> QED BY <1>0, <1>1, <2>2, <3>5, Rotated DEF IInv, TabOK
  <2> QED BY <2>4, <2>5
<1>3. CASE Logout(t)
  <2>1. Becomes(t, Blank) /\ UNCHANGED csrf
    BY <1>3 DEF Logout
  <2>2. /\ session' \in [Browser -> Members \cup {None}] /\ desk' \in [Browser -> Desks \cup {None}]
        /\ \A c \in Browser : session'[c] \in {session[c], None} /\ desk'[c] \in {desk[c], None}
    BY <1>0, <1>3 DEF Logout, TypeOK
  <2>3. TypeOK'
    BY <1>0, <1>1, <2>1, <2>2 DEF TypeOK, Members, Desks, service
  <2> QED BY <1>0, <1>1, <2>1, <2>3, OneTab DEF IInv, TabOK
<1> QED BY <1>2, <1>3

\* Steps of nobody's tab.
LEMMA OtherSteps ==
  ASSUME IInv, (\E k \in Token : RevokeToken(k)) \/ Restart \/ Tick \/ UNCHANGED vars
  PROVE  IInv'
<1> USE SignInAssumption
<1>1. CASE Restart
  <2>1. TypeOK'
    BY <1>1 DEF Restart, IInv, TypeOK, Members, Desks
  <2>2. \A t \in Tab : tab'[t] \in {tab[t], Blank}
    BY <1>1 DEF Restart
  <2>3. DOMAIN tab' = Tab /\ tab' = [t \in Tab |-> tab'[t]]
    BY <1>1 DEF Restart
  <2>4. ASSUME NEW y, TabOK(y) PROVE TabOK(y)'
    BY <1>1, <2>4 DEF Restart, TabOK, Page, Pages, Posted, Posts, Opening, Openings, Answer, Waiting, Members, Desks
  <2>5. TabOK(Blank)
    BY DEF TabOK
  <2> QED BY <2>1, <2>2, <2>3, <2>4, <2>5 DEF IInv, TabsOK
<1>2. CASE (\E k \in Token : RevokeToken(k)) \/ Tick \/ UNCHANGED vars
  <2>1. TypeOK'
    BY <1>2 DEF RevokeToken, Tick, vars, IInv, TypeOK, Members, Desks
  <2>2. UNCHANGED tab /\ clock' >= clock /\ clock \in 0..MaxClock /\ clock' \in 0..MaxClock
    BY <1>2, <2>1 DEF RevokeToken, Tick, vars, IInv, TypeOK
  <2>3. ASSUME NEW y, TabOK(y) PROVE TabOK(y)'
    <3>1. ASSUME Answer(y) PROVE Answer(y)'
      BY <2>2, <3>1 DEF Answer, Members, Desks
    <3> QED BY <2>2, <2>3, <3>1 DEF TabOK, Page, Pages, Posted, Posts, Opening, Openings, Waiting, Members, Desks
  <2> QED BY <2>1, <2>2, <2>3 DEF IInv, TabsOK
<1> QED BY <1>1, <1>2

LEMMA StepOK == IInv /\ [Next]_vars => IInv'
<1> SUFFICES ASSUME IInv, [Next]_vars PROVE IInv'
  OBVIOUS
<1>1. ASSUME NEW t \in Tab, Request(t) PROVE IInv'
  BY <1>1, PageSteps, FormSteps, LoginSteps, OtherPosts, CookieSteps DEF Request
<1> QED BY <1>1, OtherSteps DEF Next

(* Cookies, logins and tabs keep their types, and no session outlives Ttl    *)
(* from now, whatever requests were in flight (setSession, openSession).     *)
THEOREM SessionsExpire == Spec => []TypeOK
<1>1. IInv => TypeOK
  BY DEF IInv
<1> QED BY <1>1, InitOK, StepOK, PTL DEF Spec

-----------------------------------------------------------------------------
\* What a request may do to the tabs and the cookies.
LEMMA RequestKinds ==
  ASSUME IInv, NEW t \in Tab, Request(t)
  PROVE  \/ OpenPage(t) \/ LookUpSession(t) \/ ShowPage(t) \/ Reply(t) \/ Logout(t)
         \/ /\ UNCHANGED <<session, desk, csrf>>
            /\ \E x : Becomes(t, x) /\ x.at \notin {"shown", "opening", "rendering"}
<1> DEFINE Leaves == /\ UNCHANGED <<session, desk, csrf>>
                     /\ \E x : Becomes(t, x) /\ x.at \notin {"shown", "opening", "rendering"}
<1>1. ASSUME NEW o \in Org, LoginRefused(t, o) PROVE Leaves
  BY <1>1 DEF LoginRefused, Blank
<1>2. ASSUME NEW o \in Org, ResetPassword(t, o) PROVE Leaves
  BY <1>2 DEF ResetPassword
<1>3. ASSUME NEW o \in Org, NEW n, LoginAdmitted(t, o, n) PROVE Leaves
  BY <1>3 DEF LoginAdmitted
<1>4. CASE LoginLookup(t)
  BY <1>4 DEF LoginLookup
<1>5. CASE LoginFailed(t)
  BY <1>5 DEF LoginFailed, Blank
<1>6. CASE LoginSucceeded(t)
  BY <1>6 DEF LoginSucceeded
<1>7. ASSUME NEW k \in Token, TokenPosted(t, k) PROVE Leaves
  BY <1>7 DEF TokenPosted
<1>8. CASE TokenJudged(t)
  BY <1>8 DEF TokenJudged, Blank
<1>9. ASSUME NEW k \in OperatorToken, OperatorLogin(t, k) PROVE Leaves
  BY <1>9 DEF OperatorLogin, Blank
<1>10. CASE RequestFails(t)
  BY <1>10 DEF RequestFails, Blank
<1>11. CASE FormPosted(t)
  BY <1>11 DEF FormPosted
<1>12. CASE FormChecked(t)
  <2>1. Posted(tab[t])
    BY <1>12 DEF FormChecked, At, IInv, TabsOK, TabOK, Blank, Page, Pages, Opening, Openings, Answer, Waiting
  <2>2. [tab[t] EXCEPT !.at = "writing", !.member = ResolveSession(tab[t].member)].at = "writing"
    BY <2>1 DEF Posted, Posts
  <2> QED BY <1>12, <2>2 DEF FormChecked, Blank
<1>13. CASE FormWritten(t)
  BY <1>13 DEF FormWritten, Blank
<1> QED BY <1>1, <1>2, <1>3, <1>4, <1>5, <1>6, <1>7, <1>8, <1>9, <1>10, <1>11, <1>12, <1>13 DEF Request

-----------------------------------------------------------------------------
\* A session comes with a nonce.
NonceFirst == \A b \in Browser : session[b] # None \/ desk[b] # None => csrf[b]

\* What t shows, or would show with the nonce it carries, is the browser's session.
Linked(t) ==
  LET b == BrowserOf[t] IN
  (\/ tab[t].at = "shown"
   \/ tab[t].at \in {"opening", "rendering"} /\ (tab[t].fresh \/ tab[t].none)) =>
    /\ tab[t].member # None => session[b] \in {tab[t].member, None}
    /\ tab[t].operator # None => desk[b] \in {tab[t].operator, None}

\* A request without a nonce came without a session.
NoNonceNoSession(t) ==
  tab[t].at \in {"opening", "rendering"} /\ tab[t].none =>
    tab[t].member = None /\ tab[t].operator = None

FInv == NonceFirst /\ \A t \in Tab : Linked(t) /\ NoNonceNoSession(t)

LEMMA FInit == Init => FInv
  BY DEF Init, FInv, NonceFirst, Linked, NoNonceNoSession, Blank

\* A tab that shows nothing and opens nothing asks for nothing.
LEMMA Elsewhere ==
  ASSUME NEW t, tab[t].at \notin {"shown", "opening", "rendering"}
  PROVE  Linked(t) /\ NoNonceNoSession(t)
  BY DEF Linked, NoNonceNoSession

\* As long as cookies are only removed, a tab that stays as it is stays linked.
LEMMA Stays ==
  ASSUME NEW t \in Tab, Linked(t), NoNonceNoSession(t), tab'[t] = tab[t],
         session'[BrowserOf[t]] \in {session[BrowserOf[t]], None},
         desk'[BrowserOf[t]] \in {desk[BrowserOf[t]], None}
  PROVE  Linked(t)' /\ NoNonceNoSession(t)'
  BY DEF Linked, NoNonceNoSession

\* What OpenPage leaves in a tab whose browser has a nonce.
LEMMA OpensWithNonce ==
  ASSUME NEW x, NEW c \in BOOLEAN, NEW f, NEW m, NEW o, NEW a, c,
         x = [at |-> "opening", fresh |-> f, none |-> ~c, member |-> m, operator |-> o, asked |-> a]
  PROVE  ~x.none
  OBVIOUS

LEMMA FStep == IInv /\ IInv' /\ FInv /\ [Next]_vars => FInv'
<1> USE SignInAssumption
<1> SUFFICES ASSUME IInv, IInv', FInv, [Next]_vars PROVE FInv'
  OBVIOUS
<1>0. /\ DOMAIN tab = Tab /\ \A t \in Tab : TabOK(tab[t]) /\ BrowserOf[t] \in Browser
      /\ session \in [Browser -> Members \cup {None}] /\ desk \in [Browser -> Desks \cup {None}]
      /\ csrf \in [Browser -> BOOLEAN]
  BY DEF IInv, TypeOK, TabsOK
<1>1. ASSUME UNCHANGED <<session, desk, csrf>>,
             \A t \in Tab : tab'[t] = tab[t] \/ tab'[t].at \notin {"shown", "opening", "rendering"}
      PROVE  FInv'
  <2>1. NonceFirst'
    BY <1>1 DEF FInv, NonceFirst
  <2>2. ASSUME NEW t \in Tab, tab'[t] = tab[t] PROVE Linked(t)' /\ NoNonceNoSession(t)'
    BY <1>1, <2>2, Stays DEF FInv
  <2>3. ASSUME NEW t \in Tab, tab'[t].at \notin {"shown", "opening", "rendering"}
        PROVE  Linked(t)' /\ NoNonceNoSession(t)'
    BY <2>3 DEF Linked, NoNonceNoSession
  <2> QED BY <1>1, <2>1, <2>2, <2>3 DEF FInv
<1>2. ASSUME NEW t \in Tab, NEW x, Becomes(t, x), UNCHANGED <<session, desk, csrf>>,
             x.at \notin {"shown", "opening", "rendering"}
      PROVE  FInv'
  BY <1>0, <1>1, <1>2 DEF Becomes
<1>3. ASSUME NEW t \in Tab, OpenPage(t) PROVE FInv'
  <2> DEFINE b == BrowserOf[t]
  <2>1. UNCHANGED <<session, desk, csrf>>
    BY <1>3 DEF OpenPage
  <2>2. tab'[t] = [at |-> "opening", fresh |-> csrf[b], none |-> ~csrf[b],
                   member |-> Opened(session[b]), operator |-> ResolveOperatorSession(b),
                   asked |-> Asked(Opened(session[b]))]
    BY <1>0, <1>3 DEF OpenPage, Becomes
  <2>3. Opened(session[b]) \in {session[b], None} /\ ResolveOperatorSession(b) \in {desk[b], None}
    BY DEF Opened, ResolveOperatorSession
  <2>4. ~csrf[b] => session[b] = None /\ desk[b] = None
    BY <1>0 DEF FInv, NonceFirst
  <2>5. Linked(t)'
    BY <2>1, <2>2, <2>3 DEF Linked
  <2>6. NoNonceNoSession(t)'
    <3>1. CASE csrf[b]
      <4>1. ~tab'[t].none
        BY <1>0, <2>2, <3>1, OpensWithNonce
      <4> QED BY <4>1 DEF NoNonceNoSession
    <3>2. CASE ~csrf[b]
      <4>1. Opened(session[b]) = None /\ ResolveOperatorSession(b) = None
        BY <2>3, <2>4, <3>2
      <4>2. tab'[t].member = None /\ tab'[t].operator = None
        BY <2>2, <4>1
      <4> QED BY <4>2 DEF NoNonceNoSession
    <3> QED BY <3>1, <3>2
  <2>7. ASSUME NEW u \in Tab, u # t PROVE Linked(u)' /\ NoNonceNoSession(u)'
    <3>1. tab'[u] = tab[u]
      BY <1>0, <1>3, <2>7 DEF OpenPage, Becomes
    <3> QED BY <2>1, <3>1, Stays DEF FInv
  <2>8. NonceFirst'
    BY <2>1 DEF FInv, NonceFirst
  <2> QED BY <2>5, <2>6, <2>7, <2>8 DEF FInv
<1>4. ASSUME NEW t \in Tab, NEW x, RotateCsrf(t, x),
             \A b \in Browser : b # BrowserOf[t] => session'[b] = session[b] /\ desk'[b] = desk[b],
             Linked(t)', NoNonceNoSession(t)'
      PROVE  FInv'
  <2>1. csrf'[BrowserOf[t]] /\ \A b \in Browser : b # BrowserOf[t] => csrf'[b] = csrf[b]
    BY <1>0, <1>4 DEF RotateCsrf
  <2>2. NonceFirst'
    BY <1>4, <2>1 DEF FInv, NonceFirst
  <2>3. ASSUME NEW u \in Tab, u # t, BrowserOf[u] # BrowserOf[t]
        PROVE  Linked(u)' /\ NoNonceNoSession(u)'
    <3>1. tab'[u] = tab[u]
      BY <1>4, <2>3 DEF RotateCsrf
    <3> QED BY <1>0, <1>4, <2>3, <3>1, Stays DEF FInv
  <2>4. ASSUME NEW u \in Tab, u # t, BrowserOf[u] = BrowserOf[t]
        PROVE  Linked(u)' /\ NoNonceNoSession(u)'
    <3>1. tab'[u] = Outdated(tab[u])
      BY <1>4, <2>4 DEF RotateCsrf
    <3>2. CASE tab[u].at = "shown"
      BY <3>1, <3>2 DEF Outdated, Blank, Linked, NoNonceNoSession
    <3>3. CASE tab[u].at \in {"opening", "rendering"}
      <4>1. Opening(tab[u])
        BY <1>0, <3>3 DEF TabOK, Blank, Page, Pages, Posted, Posts, Answer, Waiting
      <4>2. /\ tab'[u].at \in {"opening", "rendering"} /\ ~tab'[u].fresh /\ tab'[u].none = tab[u].none
            /\ tab'[u].member = tab[u].member /\ tab'[u].operator = tab[u].operator
        BY <3>1, <3>3, <4>1 DEF Outdated, Opening, Openings
      <4>3. NoNonceNoSession(u)
        BY DEF FInv
      <4> QED BY <4>2, <4>3, <3>3 DEF Linked, NoNonceNoSession
    <3>4. CASE tab[u].at \notin {"shown", "opening", "rendering"}
      BY <3>1, <3>4 DEF Outdated, Linked, NoNonceNoSession
    <3> QED BY <3>2, <3>3, <3>4
  <2> QED BY <1>4, <2>2, <2>3, <2>4 DEF FInv
<1>5. ASSUME NEW t \in Tab, ShowPage(t) PROVE FInv'
  <2> DEFINE x == Shown(tab[t].member, tab[t].operator)
  <2>1. UNCHANGED <<session, desk>> /\ tab[t].at = "rendering"
    BY <1>5 DEF ShowPage, At
  <2>3. Linked(t) /\ NoNonceNoSession(t)
    BY DEF FInv
  <2>4. ASSUME tab'[t] = x, tab[t].fresh \/ tab[t].none PROVE Linked(t)' /\ NoNonceNoSession(t)'
    BY <2>1, <2>3, <2>4 DEF Linked, NoNonceNoSession, Shown
  <2>5. CASE tab[t].none
    <3>1. RotateCsrf(t, x)
      BY <1>5, <2>5 DEF ShowPage
    <3>2. tab'[t] = x
      BY <3>1 DEF RotateCsrf
    <3> QED BY <1>4, <2>1, <2>4, <2>5, <3>1, <3>2
  <2>6. CASE ~tab[t].none /\ tab[t].fresh
    <3>1. Becomes(t, x) /\ UNCHANGED csrf
      BY <1>5, <2>6 DEF ShowPage
    <3>2. tab'[t] = x /\ \A u \in Tab : u # t => tab'[u] = tab[u]
      BY <1>0, <3>1 DEF Becomes
    <3>3. NonceFirst'
      BY <2>1, <3>1 DEF FInv, NonceFirst
    <3>4. ASSUME NEW u \in Tab, u # t PROVE Linked(u)' /\ NoNonceNoSession(u)'
      BY <2>1, <3>2, <3>4, Stays DEF FInv
    <3> QED BY <2>4, <2>6, <3>2, <3>3, <3>4 DEF FInv
  <2>7. CASE ~tab[t].none /\ ~tab[t].fresh
    <3>1. Becomes(t, Blank) /\ UNCHANGED csrf /\ Blank.at \notin {"shown", "opening", "rendering"}
      BY <1>5, <2>7 DEF ShowPage, Blank
    <3> QED BY <1>2, <2>1, <3>1
  <2> QED BY <2>5, <2>6, <2>7
<1>6. ASSUME NEW t \in Tab, Reply(t) PROVE FInv'
  <2>1. RotateCsrf(t, Blank)
    BY <1>6 DEF Reply
  <2>2. tab'[t] = Blank
    BY <2>1 DEF RotateCsrf
  <2>3. Linked(t)' /\ NoNonceNoSession(t)'
    BY <2>2 DEF Linked, NoNonceNoSession, Blank
  <2>4. \A b \in Browser : b # BrowserOf[t] => session'[b] = session[b] /\ desk'[b] = desk[b]
    BY <1>0, <1>6 DEF Reply
  <2> QED BY <1>4, <2>1, <2>3, <2>4
<1>7. ASSUME NEW t \in Tab, Logout(t) PROVE FInv'
  <2>1. UNCHANGED csrf /\ tab'[t] = Blank /\ \A u \in Tab : u # t => tab'[u] = tab[u]
    BY <1>0, <1>7 DEF Logout, Becomes
  <2>2. \A b \in Browser : session'[b] \in {session[b], None} /\ desk'[b] \in {desk[b], None}
    BY <1>0, <1>7 DEF Logout
  <2>3. NonceFirst'
    BY <2>1, <2>2 DEF FInv, NonceFirst
  <2>4. Linked(t)' /\ NoNonceNoSession(t)'
    BY <2>1 DEF Linked, NoNonceNoSession, Blank
  <2>5. ASSUME NEW u \in Tab, u # t PROVE Linked(u)' /\ NoNonceNoSession(u)'
    BY <1>0, <2>1, <2>2, <2>5, Stays DEF FInv
  <2> QED BY <2>3, <2>4, <2>5 DEF FInv
<1>11. ASSUME NEW t \in Tab, LookUpSession(t) PROVE FInv'
  <2> DEFINE x == [tab[t] EXCEPT !.at = "rendering", !.member = ResolveSession(tab[t].member)]
  <2>1. UNCHANGED <<session, desk, csrf>> /\ tab[t].at = "opening" /\ Becomes(t, x)
    BY <1>11 DEF LookUpSession, At
  <2>2. Opening(tab[t])
    BY <1>0, <2>1 DEF TabOK, Blank, Page, Pages, Posted, Posts, Answer, Waiting
  <2>3. /\ x.at = "rendering" /\ x.fresh = tab[t].fresh /\ x.none = tab[t].none
        /\ x.member \in {tab[t].member, None} /\ x.operator = tab[t].operator
    BY <2>2 DEF Opening, Openings, ResolveSession
  <2>4. tab'[t] = x /\ \A u \in Tab : u # t => tab'[u] = tab[u]
    BY <1>0, <2>1 DEF Becomes
  <2>5. Linked(t)' /\ NoNonceNoSession(t)'
    <3> HIDE DEF x
    <3>1. Linked(t) /\ NoNonceNoSession(t)
      BY DEF FInv
    <3> QED BY <2>1, <2>3, <2>4, <3>1 DEF Linked, NoNonceNoSession
  <2>6. NonceFirst'
    BY <2>1 DEF FInv, NonceFirst
  <2>7. ASSUME NEW u \in Tab, u # t PROVE Linked(u)' /\ NoNonceNoSession(u)'
    BY <2>1, <2>4, <2>7, Stays DEF FInv
  <2> QED BY <2>5, <2>6, <2>7 DEF FInv
<1>8. ASSUME NEW t \in Tab, Request(t) PROVE FInv'
  BY <1>2, <1>3, <1>5, <1>6, <1>7, <1>8, <1>11, RequestKinds
<1>9. CASE (\E k \in Token : RevokeToken(k)) \/ Tick \/ UNCHANGED vars
  BY <1>1, <1>9 DEF RevokeToken, Tick, vars
<1>10. CASE Restart
  <2>1. \A t \in Tab : tab'[t] = tab[t] \/ tab'[t].at \notin {"shown", "opening", "rendering"}
    BY <1>10 DEF Restart, Blank
  <2> QED BY <1>1, <1>10, <2>1 DEF Restart
<1> QED BY <1>8, <1>9, <1>10 DEF Next

(* A form acts under the session it was rendered for (rotateCsrf,            *)
(* requireCsrf), whichever tabs of its browser sign in, out or reset.        *)
THEOREM FormsKeep == Spec => []FormsKeepTheirSession
<1>1. FInv => FormsKeepTheirSession
  BY DEF FInv, Linked, FormsKeepTheirSession, CsrfAccepted, At
<1>2. Spec => [](IInv /\ FInv)
  BY InitOK, StepOK, FInit, FStep, PTL DEF Spec
<1> QED BY <1>1, <1>2, PTL

-----------------------------------------------------------------------------
\* A session still in force was in force when it was asked for; past the lookup,
\* it was in force then whatever has happened since.
AskedInForce(t) ==
  /\ tab[t].at \in {"opening", "checking"} /\ tab[t].member # None =>
       (InForce(tab[t].member.who) => tab[t].asked)
  /\ tab[t].at \in {"rendering", "writing"} /\ tab[t].member # None => tab[t].asked

\* A form is written under the session of the page it was on.
OwnForm(t) ==
  /\ tab[t].at = "checking" => tab[t].member \in {tab[t].form, None}
  /\ tab[t].at = "writing" => tab[t].member = tab[t].form

SInv == \A t \in Tab : AskedInForce(t) /\ OwnForm(t)

LEMMA SInit == Init => SInv
  BY DEF Init, SInv, AskedInForce, OwnForm, Blank

\* What has ended stays ended: logins are only replaced, tokens only revoked.
LEMMA EndedForGood ==
  ASSUME IInv, IInv', [Next]_vars, NEW payload \in Members, InForce(payload.who)'
  PROVE  InForce(payload.who)
<1>1. /\ payload.who \in (Org \X (1..MaxLogins)) \cup Token
      /\ login \in [Org -> 1..MaxLogins] /\ login' \in [Org -> 1..MaxLogins]
  BY DEF Members, IInv, TypeOK
<1>2. live' \subseteq live /\ \A o \in Org : login[o] <= login'[o]
  <2>1. CASE UNCHANGED <<login, live>>
    BY <1>1, <2>1
  <2>2. ASSUME NEW t \in Tab, NEW o \in Org, ResetPassword(t, o)
        PROVE  live' \subseteq live /\ \A p \in Org : login[p] <= login'[p]
    BY <1>1, <2>2 DEF ResetPassword
  <2>3. ASSUME NEW k \in Token, RevokeToken(k)
        PROVE  live' \subseteq live /\ \A p \in Org : login[p] <= login'[p]
    BY <1>1, <2>3 DEF RevokeToken
  <2>4. \/ UNCHANGED <<login, live>>
        \/ \E t \in Tab, o \in Org : ResetPassword(t, o)
        \/ \E k \in Token : RevokeToken(k)
    <3>1. ASSUME NEW t \in Tab, Request(t), \A o \in Org : ~ResetPassword(t, o)
          PROVE  UNCHANGED <<login, live>>
      <4>1. UNCHANGED service
        BY <3>1 DEF Request, OpenPage, LookUpSession, ShowPage, FormPosted, FormChecked, FormWritten,
                    LoginRefused, LoginAdmitted, LoginLookup, LoginFailed, LoginSucceeded,
                    TokenPosted, TokenJudged, OperatorLogin, Reply, Logout, RequestFails
      <4> QED BY <4>1 DEF service
    <3>2. CASE Restart \/ Tick \/ UNCHANGED vars
      BY <3>2 DEF Restart, Tick, vars
    <3> QED BY <3>1, <3>2 DEF Next
  <2> QED BY <2>1, <2>2, <2>3, <2>4
<1>3. CASE payload.who \in Token
  BY <1>2, <1>3 DEF InForce
<1>4. CASE payload.who \notin Token
  <2>1. payload.who[1] \in Org /\ payload.who[2] \in 1..MaxLogins
    BY <1>1, <1>4
  <2>2. login'[payload.who[1]] <= payload.who[2]
    BY <1>4 DEF InForce
  <2>3. login[payload.who[1]] <= payload.who[2]
    BY <1>1, <1>2, <2>1, <2>2
  <2> QED BY <1>4, <2>3 DEF InForce
<1> QED BY <1>3, <1>4

\* The lookup finds a session only in force.
LEMMA FoundInForce ==
  ASSUME IInv, NEW payload \in Members, ResolveSession(payload) # None
  PROVE  InForce(payload.who) /\ ResolveSession(payload) = payload
<1>1. Live(payload) /\ ResolveSession(payload) = payload
  BY DEF ResolveSession
<1>2. /\ payload.who \in (Org \X (1..MaxLogins)) \cup Token
      /\ login \in [Org -> 1..MaxLogins]
  BY DEF Members, IInv, TypeOK
<1>3. CASE payload.who \in Token
  BY <1>1, <1>3 DEF Live, InForce
<1>4. CASE payload.who \notin Token
  <2>1. payload.who[1] \in Org /\ payload.who[2] = login[payload.who[1]]
    BY <1>1, <1>2, <1>4 DEF Live
  <2>2. login[payload.who[1]] <= payload.who[2]
    BY <1>2, <2>1
  <2> QED BY <1>1, <1>4, <2>2 DEF InForce
<1> QED BY <1>1, <1>3, <1>4

\* A tab that waits on as it was keeps its part.
LEMMA SStays ==
  ASSUME IInv, IInv', [Next]_vars, SInv, NEW t \in Tab,
         \/ tab'[t] = tab[t]
         \/ tab'[t] = Outdated(tab[t])
         \/ tab'[t].at \notin {"opening", "rendering", "checking", "writing"}
  PROVE  AskedInForce(t)' /\ OwnForm(t)'
<1>0. TabOK(tab[t]) /\ AskedInForce(t) /\ OwnForm(t)
  BY DEF IInv, TabsOK, SInv
<1>1. CASE tab'[t].at \notin {"opening", "rendering", "checking", "writing"}
  BY <1>1 DEF AskedInForce, OwnForm
<1>2. CASE tab'[t] = tab[t]
  <2>1. tab[t].at \in {"opening", "checking"} /\ tab[t].member # None => tab[t].member \in Members
    BY <1>0 DEF TabOK, Blank, Page, Pages, Opening, Openings, Posted, Posts, Answer, Waiting
  <2>2. tab[t].at \in {"opening", "checking"} /\ tab[t].member # None =>
          (InForce(tab[t].member.who)' => InForce(tab[t].member.who))
    BY <1>2, <2>1, EndedForGood
  <2> QED BY <1>0, <1>2, <2>2 DEF AskedInForce, OwnForm
<1>3. CASE tab'[t] = Outdated(tab[t]) /\ tab'[t].at \in {"opening", "rendering", "checking", "writing"}
  <2>1. \/ tab'[t] = tab[t]
        \/ /\ Opening(tab[t]) /\ tab'[t].at = tab[t].at
           /\ tab'[t].member = tab[t].member /\ tab'[t].asked = tab[t].asked
    BY <1>0, <1>3, OutdatedOK DEF Blank
  <2>2. CASE Opening(tab[t]) /\ tab'[t].at = tab[t].at
             /\ tab'[t].member = tab[t].member /\ tab'[t].asked = tab[t].asked
    <3>1. tab[t].at \in {"opening", "rendering"} /\ tab[t].member \in Members \cup {None}
      BY <2>2 DEF Opening, Openings
    <3>2. PICK payload : payload = tab[t].member
      OBVIOUS
    <3>3. payload # None => (InForce(payload.who)' => InForce(payload.who))
      BY <3>1, <3>2, EndedForGood
    <3>4. tab'[t].at \in {"opening", "rendering"} /\ tab'[t].member = payload
      BY <2>2, <3>1, <3>2
    <3>5. OwnForm(t)'
      BY <3>4 DEF OwnForm
    <3>6. AskedInForce(t)'
      BY <1>0, <2>2, <3>2, <3>3, <3>4 DEF AskedInForce, InForce
    <3> QED BY <3>5, <3>6
  <2> QED BY <1>2, <2>1, <2>2
<1> QED BY <1>1, <1>2, <1>3

LEMMA SStep == IInv /\ IInv' /\ FInv /\ SInv /\ [Next]_vars => SInv'
<1> SUFFICES ASSUME IInv, IInv', FInv, SInv, [Next]_vars PROVE SInv'
  OBVIOUS
<1>0. /\ DOMAIN tab = Tab /\ \A t \in Tab : TabOK(tab[t]) /\ BrowserOf[t] \in Browser
      /\ session \in [Browser -> Members \cup {None}]
  BY SignInAssumption DEF IInv, TypeOK, TabsOK
<1>1. ASSUME NEW t \in Tab, NEW x, Becomes(t, x), AskedInForce(t)' /\ OwnForm(t)'
      PROVE  SInv'
  <2>1. \A u \in Tab : u # t => tab'[u] = tab[u]
    BY <1>0, <1>1 DEF Becomes
  <2> QED BY <1>1, <2>1, SStays DEF SInv
<1>2. ASSUME NEW t \in Tab, NEW x, Becomes(t, x),
             x.at \notin {"opening", "rendering", "checking", "writing"}
      PROVE  SInv'
  <2>1. tab'[t] = x
    BY <1>0, <1>2 DEF Becomes
  <2> QED BY <1>1, <1>2, <2>1, SStays
<1>3. ASSUME NEW t \in Tab, NEW x, RotateCsrf(t, x),
             x.at \notin {"opening", "rendering", "checking", "writing"}
      PROVE  SInv'
  <2>1. \A u \in Tab : tab'[u] \in {x, tab[u], Outdated(tab[u])}
    BY <1>3 DEF RotateCsrf
  <2> QED BY <1>3, <2>1, SStays DEF SInv
<1>4. ASSUME NEW t \in Tab, OpenPage(t) PROVE SInv'
  <2> DEFINE member == Opened(session[BrowserOf[t]])
  <2>1. /\ tab'[t].at = "opening" /\ tab'[t].member = member /\ tab'[t].asked = Asked(member)
        /\ UNCHANGED <<login, live>> /\ \E x : Becomes(t, x)
    BY <1>0, <1>4 DEF OpenPage, Becomes, service
  <2>2. AskedInForce(t)' /\ OwnForm(t)'
    BY <2>1 DEF AskedInForce, OwnForm, Asked, InForce
  <2> QED BY <1>1, <2>1, <2>2
<1>5. ASSUME NEW t \in Tab, LookUpSession(t) PROVE SInv'
  <2>1. Opening(tab[t]) /\ tab[t].at = "opening" /\ AskedInForce(t)
    BY <1>0, <1>5 DEF LookUpSession, At, TabOK, Blank, Page, Pages, Posted, Posts, Answer, Waiting, SInv
  <2>2. tab[t].member \in Members \cup {None}
    BY <2>1 DEF Opening, Openings
  <2>3. /\ tab'[t].at = "rendering" /\ tab'[t].member = ResolveSession(tab[t].member)
        /\ tab'[t].asked = tab[t].asked /\ \E x : Becomes(t, x)
    BY <1>0, <1>5, <2>1 DEF LookUpSession, Becomes, Opening, Openings
  <2>4. ResolveSession(tab[t].member) # None => tab[t].member # None
    BY DEF ResolveSession
  <2>5. ResolveSession(tab[t].member) # None => tab[t].asked
    BY <2>1, <2>2, <2>4, FoundInForce DEF AskedInForce
  <2>6. AskedInForce(t)' /\ OwnForm(t)'
    BY <2>3, <2>5 DEF AskedInForce, OwnForm
  <2> QED BY <1>1, <2>3, <2>6
<1>6. ASSUME NEW t \in Tab, FormPosted(t) PROVE SInv'
  <2> DEFINE member == Opened(session[BrowserOf[t]])
  <2>1. /\ tab[t].at = "shown" /\ tab[t].member # None
        /\ tab'[t].at = "checking" /\ tab'[t].form = tab[t].member
        /\ tab'[t].member = member /\ tab'[t].asked = Asked(member)
        /\ UNCHANGED <<login, live>> /\ \E x : Becomes(t, x)
    BY <1>0, <1>6 DEF FormPosted, CsrfAccepted, At, Becomes, service
  <2>2. session[BrowserOf[t]] \in {tab[t].member, None}
    BY <2>1 DEF FInv, Linked
  <2>3. member \in {tab[t].member, None}
    BY <2>2 DEF Opened
  <2>4. OwnForm(t)'
    BY <2>1, <2>3 DEF OwnForm
  <2>5. AskedInForce(t)'
    BY <2>1 DEF AskedInForce, Asked, InForce
  <2> QED BY <1>1, <2>1, <2>4, <2>5
<1>7. ASSUME NEW t \in Tab, FormChecked(t) PROVE SInv'
  <2>1. Posted(tab[t]) /\ tab[t].at = "checking" /\ AskedInForce(t) /\ OwnForm(t)
    BY <1>0, <1>7 DEF FormChecked, At, TabOK, Blank, Page, Pages, Opening, Openings, Answer, Waiting, SInv
  <2>2. tab[t].member \in Members \cup {None}
    BY <2>1 DEF Posted, Posts
  <2>3. CASE /\ ResolveSession(tab[t].member) # None
             /\ Becomes(t, [tab[t] EXCEPT !.at = "writing", !.member = ResolveSession(tab[t].member)])
    <3>1. tab[t].member # None
      BY <2>3 DEF ResolveSession
    <3>2. ResolveSession(tab[t].member) = tab[t].member /\ tab[t].asked
      BY <2>1, <2>2, <2>3, <3>1, FoundInForce DEF AskedInForce
    <3>3. /\ tab'[t].at = "writing" /\ tab'[t].member = tab[t].member
          /\ tab'[t].asked = tab[t].asked /\ tab'[t].form = tab[t].form
      BY <1>0, <2>1, <2>3, <3>2 DEF Becomes, Posted, Posts
    <3>4. AskedInForce(t)' /\ OwnForm(t)'
      BY <2>1, <3>1, <3>2, <3>3 DEF AskedInForce, OwnForm
    <3> QED BY <1>1, <2>3, <3>4
  <2>4. CASE Becomes(t, Blank)
    BY <1>2, <2>4 DEF Blank
  <2> QED BY <1>7, <2>3, <2>4 DEF FormChecked
<1>8. ASSUME NEW t \in Tab, ShowPage(t) PROVE SInv'
  <2> DEFINE x == Shown(tab[t].member, tab[t].operator)
  <2>1. RotateCsrf(t, x) \/ Becomes(t, x) \/ Becomes(t, Blank)
    BY <1>8 DEF ShowPage
  <2> QED BY <1>2, <1>3, <2>1 DEF Shown, Blank
<1>9. ASSUME NEW t \in Tab, Request(t) PROVE SInv'
  <2>1. CASE FormWritten(t)
    BY <1>2, <2>1 DEF FormWritten, Blank
  <2>2. CASE Reply(t)
    BY <1>3, <2>2 DEF Reply, Blank
  <2>3. CASE Logout(t)
    BY <1>2, <2>3 DEF Logout, Blank
  <2>4. ASSUME NEW o \in Org, LoginRefused(t, o) PROVE SInv'
    BY <1>2, <2>4 DEF LoginRefused, Blank
  <2>5. ASSUME NEW o \in Org, ResetPassword(t, o) PROVE SInv'
    BY <1>2, <2>5 DEF ResetPassword
  <2>6. ASSUME NEW o \in Org, NEW n, LoginAdmitted(t, o, n) PROVE SInv'
    BY <1>2, <2>6 DEF LoginAdmitted
  <2>7. CASE LoginLookup(t)
    BY <1>2, <2>7 DEF LoginLookup
  <2>8. CASE LoginFailed(t)
    BY <1>2, <2>8 DEF LoginFailed, Blank
  <2>9. CASE LoginSucceeded(t)
    BY <1>2, <2>9 DEF LoginSucceeded
  <2>10. ASSUME NEW k \in Token, TokenPosted(t, k) PROVE SInv'
    BY <1>2, <2>10 DEF TokenPosted
  <2>11. CASE TokenJudged(t)
    BY <1>2, <2>11 DEF TokenJudged, Blank
  <2>12. ASSUME NEW k \in OperatorToken, OperatorLogin(t, k) PROVE SInv'
    BY <1>2, <2>12 DEF OperatorLogin, Blank
  <2>13. CASE RequestFails(t)
    BY <1>2, <2>13 DEF RequestFails, Blank
  <2> QED BY <1>4, <1>5, <1>6, <1>7, <1>8, <1>9, <2>1, <2>2, <2>3, <2>4, <2>5, <2>6, <2>7, <2>8, <2>9,
             <2>10, <2>11, <2>12, <2>13 DEF Request
<1>10. CASE (\E k \in Token : RevokeToken(k)) \/ Tick \/ UNCHANGED vars
  <2>1. UNCHANGED tab
    BY <1>10 DEF RevokeToken, Tick, vars
  <2> QED BY <2>1, SStays DEF SInv
<1>11. CASE Restart
  <2>1. \A t \in Tab : tab'[t] = tab[t] \/ tab'[t] = Blank
    BY <1>11 DEF Restart
  <2> QED BY <2>1, SStays DEF SInv, Blank
<1> QED BY <1>9, <1>10, <1>11 DEF Next

(* "The old password stops working and its sessions end" (acceptReset,       *)
(* resolveSession, orgSession): a page or a form that is past the lookup was *)
(* asked for while its session had not ended, and a form writes under the    *)
(* session its page was shown to.  A reset or a revocation may commit between*)
(* any two steps of the request.                                             *)
THEOREM SessionsEnd == Spec => []EndedSessionsStayEnded
<1>1. SInv => EndedSessionsStayEnded
  BY DEF SInv, AskedInForce, OwnForm, EndedSessionsStayEnded, At
<1>2. Spec => [](IInv /\ FInv /\ SInv)
  BY InitOK, StepOK, FInit, FStep, SInit, SStep, PTL DEF Spec
<1> QED BY <1>1, <1>2, PTL

-----------------------------------------------------------------------------
(***************************************************************************)
(* Guesses.  A failure is recorded some awaits after the windows were      *)
(* looked at, so they may overfill, by the sign-ins in flight: what is     *)
(* recorded and what may still be fit together from one step to the next.  *)
(***************************************************************************)

\* The times in a window, in order, none of the future ...
Times(q, now) ==
  /\ q \in Seq(Nat)
  /\ \A i \in 1..Len(q) : q[i] <= now
  /\ \A i, j \in 1..Len(q) : i <= j => q[i] <= q[j]

\* ... and none that has aged.
Fresh(q, now) == \A i \in 1..Len(q) : now - q[i] < Window

\* The size of an interval.
LEMMA UpTo ==
  ASSUME NEW n \in Nat
  PROVE  IsFiniteSet(1..n) /\ Cardinality(1..n) = n
<1>1. 1 \in Int /\ n \in Int
  OBVIOUS
<1>2. IsFiniteSet(1..n) /\ Cardinality(1..n) = IF 1 > n THEN 0 ELSE n - 1 + 1
  BY <1>1, FS_Interval
<1>3. (IF 1 > n THEN 0 ELSE n - 1 + 1) = n
  OBVIOUS
<1>. QED
  BY <1>2, <1>3

\* What is left of a window has not aged, and a fresh one is left alone.
LEMMA RecentIs ==
  ASSUME NEW q, NEW now \in Nat, Times(q, now)
  PROVE  /\ Times(Recent(q, now), now) /\ Fresh(Recent(q, now), now)
         /\ Len(Recent(q, now)) <= Len(q)
         /\ Fresh(q, now) => Recent(q, now) = q
<1>0. q \in Seq(Nat) /\ Len(q) \in Nat /\ DOMAIN q = 1..Len(q) /\ Window \in Nat
      /\ \A i \in 1..Len(q) : q[i] \in Nat
  BY SignInAssumption, LenProperties, ElementOfSeq DEF Times
<1> DEFINE old == {i \in 1..Len(q) : now - q[i] >= Window}
           n == Cardinality(old)
<1>1. PICK r : r = Recent(q, now) /\ r = SubSeq(q, n + 1, Len(q))
  BY <1>0 DEF Recent
<1>2. n \in Nat /\ n <= Len(q)
  <2>1. IsFiniteSet(1..Len(q)) /\ Cardinality(1..Len(q)) = Len(q)
    BY <1>0, UpTo
  <2>2. IsFiniteSet(old) /\ Cardinality(old) <= Cardinality(1..Len(q))
    BY <2>1, FS_Subset
  <2>. QED
    BY <2>1, <2>2, FS_CardinalityType
<1>3. \A i \in 1..Len(q) : i > n => i \notin old
  <2> SUFFICES ASSUME NEW i \in 1..Len(q), i > n, i \in old PROVE FALSE
    OBVIOUS
  <2>1. 1..i \subseteq old
    <3> SUFFICES ASSUME NEW j \in 1..i PROVE j \in old
      OBVIOUS
    <3>1. j \in 1..Len(q) /\ q[j] <= q[i]
      BY <1>0 DEF Times
    <3>. QED
      BY <1>0, <3>1
  <2>2. IsFiniteSet(1..Len(q))
    BY <1>0, UpTo
  <2>3. IsFiniteSet(old)
    BY <2>2, FS_Subset
  <2>4. Cardinality(1..i) = i
    BY <1>0, UpTo
  <2>5. Cardinality(1..i) <= n
    BY <2>1, <2>3, FS_Subset
  <2>. QED
    BY <1>2, <2>4, <2>5
<1>4. Fresh(q, now) => n = 0
  <2> SUFFICES ASSUME Fresh(q, now) PROVE n = 0
    OBVIOUS
  <2>1. old = {}
    BY <1>0 DEF Fresh
  <2>. QED
    BY <2>1, FS_EmptySet
<1>5. \A i \in 1..Len(q) : i > n => now - q[i] < Window
  BY <1>0, <1>3
<1> HIDE DEF old, n
<1>6. /\ r \in Seq(Nat) /\ Len(r) = Len(q) - n
      /\ \A i \in 1..Len(r) : r[i] = q[n + i]
  <2>1. n + 1 \in Int /\ Len(q) \in Int /\ \A i \in n + 1 .. Len(q) : q[i] \in Nat
    BY <1>0, <1>2
  <2>2. PICK m : m = n + 1
    OBVIOUS
  <2>3. /\ SubSeq(q, m, Len(q)) \in Seq(Nat)
        /\ Len(SubSeq(q, m, Len(q))) = IF m <= Len(q) THEN Len(q) - m + 1 ELSE 0
        /\ \A i \in 1..Len(q) - m + 1 : SubSeq(q, m, Len(q))[i] = q[m + i - 1]
    BY <2>1, <2>2, SubSeqProperties
  <2>4. r = SubSeq(q, m, Len(q))
    BY <1>1, <2>2
  <2>5. Len(r) = Len(q) - n
    <3>1. Len(r) = IF m <= Len(q) THEN Len(q) - m + 1 ELSE 0
      BY <2>3, <2>4
    <3>2. (IF m <= Len(q) THEN Len(q) - m + 1 ELSE 0) = Len(q) - n
      <4>1. ASSUME NEW l \in Nat, NEW c \in Nat, c <= l
            PROVE  (IF c + 1 <= l THEN l - (c + 1) + 1 ELSE 0) = l - c
        BY <4>1
      <4>. QED
        BY <1>0, <1>2, <2>2, <4>1
    <3>. QED
      BY <3>1, <3>2
  <2>6. \A i \in 1..Len(r) : r[i] = q[n + i]
    <3>1. \A i \in 1..Len(r) : i \in 1..Len(q) - m + 1 /\ m + i - 1 = n + i
      BY <1>0, <1>2, <2>2, <2>5
    <3>. QED
      BY <2>3, <2>4, <3>1
  <2>. QED
    BY <2>3, <2>4, <2>5, <2>6
<1>7. Times(r, now) /\ Fresh(r, now)
  <2>1. \A i \in 1..Len(r) : n + i \in 1..Len(q) /\ n + i > n
    BY <1>0, <1>2, <1>6
  <2>2. \A i \in 1..Len(r) : r[i] <= now /\ now - r[i] < Window
    BY <1>5, <1>6, <2>1 DEF Times
  <2>3. \A i, j \in 1..Len(r) : i <= j => r[i] <= r[j]
    BY <1>0, <1>2, <1>6, <2>1 DEF Times
  <2>. QED
    BY <1>6, <2>2, <2>3 DEF Times, Fresh
<1>8. ASSUME n = 0 PROVE r = q
  <2>1. Len(r) = Len(q) /\ \A i \in 1..Len(q) : r[i] = q[i]
    BY <1>0, <1>6, <1>8
  <2>. QED
    BY <1>0, <1>6, <2>1, SeqEqual
<1>9. r = Recent(q, now)
  BY <1>1
<1>10. Len(r) <= Len(q)
  BY <1>0, <1>2, <1>6
<1>11. Fresh(q, now) => r = q
  BY <1>4, <1>8
<1>. QED
  BY <1>7, <1>9, <1>10, <1>11

\* A time more, the latest.
LEMMA OneMore ==
  ASSUME NEW q, NEW now \in Nat, Times(q, now), Fresh(q, now)
  PROVE  /\ Times(Append(q, now), now) /\ Fresh(Append(q, now), now)
         /\ Len(Append(q, now)) = Len(q) + 1
<1>0. q \in Seq(Nat) /\ Len(q) \in Nat /\ Window \in Nat /\ Window > 0
  BY SignInAssumption, LenProperties DEF Times
<1>1. PICK r : r = Append(q, now)
  OBVIOUS
<1>2. /\ r \in Seq(Nat) /\ Len(r) = Len(q) + 1
      /\ \A i \in 1..Len(q) : r[i] = q[i]
      /\ r[Len(q) + 1] = now
  <2>1. /\ Append(q, now) \in Seq(Nat) /\ Len(Append(q, now)) = Len(q) + 1
        /\ \A i \in 1..Len(q) : Append(q, now)[i] = q[i]
        /\ Append(q, now)[Len(q) + 1] = now
    BY <1>0, AppendProperties
  <2>. QED
    BY <1>1, <2>1
<1>3. \A i \in 1..Len(r) : i \in 1..Len(q) \/ i = Len(q) + 1
  BY <1>0, <1>2
<1>4. Fresh(r, now)
  <2> SUFFICES ASSUME NEW i \in 1..Len(r) PROVE now - r[i] < Window
    BY DEF Fresh
  <2>1. CASE i \in 1..Len(q)
    BY <1>2, <2>1 DEF Fresh
  <2>2. CASE i = Len(q) + 1
    BY <1>0, <1>2, <2>2
  <2>. QED
    BY <1>3, <2>1, <2>2
<1>5. Times(r, now)
  <2>1. \A i \in 1..Len(r) : r[i] <= now
    BY <1>0, <1>2, <1>3 DEF Times
  <2>2. \A i, j \in 1..Len(r) : i <= j => r[i] <= r[j]
    <3> SUFFICES ASSUME NEW i \in 1..Len(r), NEW j \in 1..Len(r), i <= j PROVE r[i] <= r[j]
      OBVIOUS
    <3>1. CASE j = Len(q) + 1
      BY <1>2, <2>1, <3>1
    <3>2. CASE j \in 1..Len(q)
      <4>1. i \in 1..Len(q)
        BY <1>0, <3>2
      <4>. QED
        BY <1>2, <3>2, <4>1 DEF Times
    <3>. QED
      BY <1>3, <3>1, <3>2
  <2>. QED
    BY <1>2, <2>1, <2>2 DEF Times
<1>6. Len(r) = Len(q) + 1
  BY <1>2
<1>7. Times(Append(q, now), now) /\ Fresh(Append(q, now), now)
  BY <1>1, <1>4, <1>5
<1>8. Len(Append(q, now)) = Len(q) + 1
  BY <1>1, <1>6
<1>. QED
  BY <1>7, <1>8

-----------------------------------------------------------------------------
Windows == Subject \X Address

\* The sign-ins from an address that the windows let in and that have not failed
\* or succeeded yet.
InFlight(a) == {t \in Tab : AddressOf[BrowserOf[t]] = a /\ tab[t].at \in {"lookup", "judge"}}

TabsAt(a) == {t \in Tab : AddressOf[BrowserOf[t]] = a}

WindowsOK ==
  /\ failures = [k \in Windows |-> failures[k]]
  /\ \A k \in Windows : Times(failures[k], clock) /\ Fresh(failures[k], clock)

\* The windows of an address count every guess, ...
Counted ==
  /\ guesses = [k \in Kinds \X Address |-> guesses[k]]
  /\ \A a \in Address : /\ guesses[<<"member", a>>] = failures[<<Every, a>>]
                        /\ guesses[<<"operator", a>>] = failures[<<Operators, a>>]

\* ... and leave room for those in flight.
Room ==
  \A a \in Address :
    /\ Len(failures[<<Every, a>>]) + Cardinality(InFlight(a)) < MaxFailures + Cardinality(TabsAt(a))
    /\ Len(failures[<<Operators, a>>]) <= MaxFailures

GInv == WindowsOK /\ Counted /\ Room

\* Sign-ins in flight are tabs, and tabs are finitely many.
LEMMA Finite ==
  ASSUME NEW a, NEW S, S \subseteq TabsAt(a)
  PROVE  /\ IsFiniteSet(TabsAt(a)) /\ Cardinality(TabsAt(a)) \in Nat
         /\ IsFiniteSet(S) /\ Cardinality(S) \in Nat
         /\ Cardinality(S) <= Cardinality(TabsAt(a))
<1>1. TabsAt(a) \subseteq Tab
  BY DEF TabsAt
<1>2. IsFiniteSet(TabsAt(a))
  BY <1>1, FS_Subset, SignInAssumption
<1>3. IsFiniteSet(S) /\ Cardinality(S) <= Cardinality(TabsAt(a))
  BY <1>2, FS_Subset
<1>. QED
  BY <1>2, <1>3, FS_CardinalityType

LEMMA GInit == Init => GInv
<1> SUFFICES ASSUME Init PROVE GInv
  OBVIOUS
<1>1. /\ failures = [k \in Windows |-> <<>>] /\ guesses = [k \in Kinds \X Address |-> <<>>]
      /\ clock = 0 /\ tab = [t \in Tab |-> Blank]
  BY DEF Init, Windows
<1>2. \A a \in Address : /\ <<Every, a>> \in Windows /\ <<Operators, a>> \in Windows
                         /\ <<"member", a>> \in Kinds \X Address
                         /\ <<"operator", a>> \in Kinds \X Address
  BY DEF Windows, Subject, Kinds
<1>3. Times(<<>>, 0) /\ Fresh(<<>>, 0) /\ Len(<<>>) = 0
  BY DEF Times, Fresh
<1>4. WindowsOK
  BY <1>1, <1>3 DEF WindowsOK
<1>5. Counted
  BY <1>1, <1>2 DEF Counted
<1>6. Room
  <2> SUFFICES ASSUME NEW a \in Address
               PROVE  /\ Len(failures[<<Every, a>>]) + Cardinality(InFlight(a))
                           < MaxFailures + Cardinality(TabsAt(a))
                      /\ Len(failures[<<Operators, a>>]) <= MaxFailures
    BY DEF Room
  <2>1. failures[<<Every, a>>] = <<>> /\ failures[<<Operators, a>>] = <<>>
    BY <1>1, <1>2
  <2>2. Cardinality(TabsAt(a)) \in Nat /\ Cardinality(InFlight(a)) \in Nat
        /\ Cardinality(InFlight(a)) <= Cardinality(TabsAt(a))
    BY Finite DEF InFlight, TabsAt
  <2>. QED
    BY <1>3, <2>1, <2>2, SignInAssumption
<1>. QED
  BY <1>4, <1>5, <1>6 DEF GInv

\* What the invariant says of one address.
LEMMA OfAddress ==
  ASSUME GInv, TypeOK, NEW a \in Address
  PROVE  /\ clock \in Nat /\ MaxFailures \in Nat
         /\ <<Every, a>> \in Windows /\ <<Operators, a>> \in Windows
         /\ \A o \in Org : <<o, a>> \in Windows /\ o # Every /\ o # Operators
         /\ Every # Operators
         /\ <<"member", a>> \in Kinds \X Address /\ <<"operator", a>> \in Kinds \X Address
         /\ \A k \in Windows : /\ Times(failures[k], clock) /\ Fresh(failures[k], clock)
                               /\ Recent(failures[k], clock) = failures[k]
                               /\ Len(failures[k]) \in Nat
         /\ Len(failures[<<Every, a>>]) + Cardinality(InFlight(a))
              < MaxFailures + Cardinality(TabsAt(a))
         /\ Len(failures[<<Operators, a>>]) <= MaxFailures
<1>1. clock \in Nat /\ MaxFailures \in Nat
  BY SignInAssumption DEF TypeOK
<1>2. /\ <<Every, a>> \in Windows /\ <<Operators, a>> \in Windows
      /\ \A o \in Org : <<o, a>> \in Windows /\ o # Every /\ o # Operators
      /\ Every # Operators
      /\ <<"member", a>> \in Kinds \X Address /\ <<"operator", a>> \in Kinds \X Address
  BY SignInAssumption DEF Windows, Subject, Kinds
<1>3. ASSUME NEW k \in Windows
      PROVE  /\ Times(failures[k], clock) /\ Fresh(failures[k], clock)
             /\ Recent(failures[k], clock) = failures[k]
             /\ Len(failures[k]) \in Nat
  <2>1. Times(failures[k], clock) /\ Fresh(failures[k], clock)
    BY DEF GInv, WindowsOK
  <2>2. Len(failures[k]) \in Nat
    BY <2>1, LenProperties DEF Times
  <2>. QED
    BY <1>1, <2>1, <2>2, RecentIs
<1>. QED
  BY <1>1, <1>2, <1>3 DEF GInv, Room

\* Room is left when the windows do not grow and nobody is admitted.
LEMMA RoomShrinks ==
  ASSUME GInv, TypeOK,
         \A a \in Address : /\ Len(failures'[<<Every, a>>]) \in Nat
                            /\ Len(failures'[<<Every, a>>]) <= Len(failures[<<Every, a>>])
                            /\ Len(failures'[<<Operators, a>>]) <= MaxFailures,
         \A u \in Tab : tab'[u].at \in {"lookup", "judge"} => tab[u].at \in {"lookup", "judge"}
  PROVE  Room'
<1> SUFFICES ASSUME NEW a \in Address
             PROVE  /\ Len(failures'[<<Every, a>>]) + Cardinality(InFlight(a)')
                         < MaxFailures + Cardinality(TabsAt(a))
                    /\ Len(failures'[<<Operators, a>>]) <= MaxFailures
  BY DEF Room, TabsAt
<1>1. InFlight(a)' \subseteq InFlight(a) /\ InFlight(a) \subseteq TabsAt(a)
  BY DEF InFlight, TabsAt
<1>2. /\ IsFiniteSet(InFlight(a)) /\ Cardinality(InFlight(a)) \in Nat
      /\ Cardinality(TabsAt(a)) \in Nat
  BY <1>1, Finite
<1>3. Cardinality(InFlight(a)') \in Nat /\ Cardinality(InFlight(a)') <= Cardinality(InFlight(a))
  BY <1>1, <1>2, FS_Subset, FS_CardinalityType
<1>4. /\ Len(failures[<<Every, a>>]) + Cardinality(InFlight(a))
           < MaxFailures + Cardinality(TabsAt(a))
      /\ Len(failures[<<Every, a>>]) \in Nat /\ MaxFailures \in Nat
  BY OfAddress
<1>. QED
  BY <1>2, <1>3, <1>4

\* A step that leaves windows and clock alone, and admits nobody.
LEMMA GQuiet ==
  ASSUME GInv, TypeOK, UNCHANGED <<clock, failures, guesses>>,
         \A u \in Tab : tab'[u].at \in {"lookup", "judge"} => tab[u].at \in {"lookup", "judge"}
  PROVE  GInv'
<1>1. WindowsOK' /\ Counted'
  BY DEF GInv, WindowsOK, Counted
<1>2. \A a \in Address : /\ Len(failures'[<<Every, a>>]) = Len(failures[<<Every, a>>])
                         /\ Len(failures[<<Every, a>>]) \in Nat
                         /\ Len(failures'[<<Operators, a>>]) <= MaxFailures
  BY OfAddress
<1>3. Room'
  BY <1>2, RoomShrinks
<1>. QED
  BY <1>1, <1>3 DEF GInv

\* A sign-in is let in while there is room in the window of its address.
LEMMA GAdmit ==
  ASSUME GInv, TypeOK, TabsOK, NEW t \in Tab, NEW o \in Org, NEW n, LoginAdmitted(t, o, n)
  PROVE  GInv'
<1>1. UNCHANGED <<clock, failures, guesses>> /\ ~Blocked(Every, AddressOf[BrowserOf[t]])
  BY DEF LoginAdmitted, service
<1>2. \A u \in Tab : u # t => tab'[u] = tab[u]
  BY DEF LoginAdmitted, Becomes, TabsOK
<1>3. WindowsOK' /\ Counted'
  BY <1>1 DEF GInv, WindowsOK, Counted
<1>4. Room'
  <2> SUFFICES ASSUME NEW a \in Address
               PROVE  /\ Len(failures[<<Every, a>>]) + Cardinality(InFlight(a)')
                           < MaxFailures + Cardinality(TabsAt(a))
                      /\ Len(failures[<<Operators, a>>]) <= MaxFailures
    BY <1>1 DEF Room, TabsAt
  <2>1. InFlight(a)' \subseteq TabsAt(a) /\ InFlight(a) \subseteq TabsAt(a)
    BY DEF InFlight, TabsAt
  <2>2. /\ Cardinality(InFlight(a)) \in Nat /\ Cardinality(TabsAt(a)) \in Nat
        /\ IsFiniteSet(InFlight(a))
    BY <2>1, Finite
  <2>3. Cardinality(InFlight(a)') \in Nat /\ Cardinality(InFlight(a)') <= Cardinality(TabsAt(a))
    BY <2>1, Finite
  <2>4. /\ Len(failures[<<Every, a>>]) + Cardinality(InFlight(a))
             < MaxFailures + Cardinality(TabsAt(a))
        /\ Len(failures[<<Operators, a>>]) <= MaxFailures
        /\ Len(failures[<<Every, a>>]) \in Nat /\ MaxFailures \in Nat
        /\ Recent(failures[<<Every, a>>], clock) = failures[<<Every, a>>]
    BY OfAddress
  <2>5. CASE AddressOf[BrowserOf[t]] = a
    <3>1. Len(failures[<<Every, a>>]) < MaxFailures
      BY <1>1, <2>4, <2>5 DEF Blocked
    <3>. QED
      BY <2>2, <2>3, <2>4, <3>1
  <2>6. CASE AddressOf[BrowserOf[t]] # a
    <3>1. InFlight(a)' = InFlight(a)
      BY <1>2, <2>6 DEF InFlight
    <3>. QED
      BY <2>4, <3>1
  <2>. QED
    BY <2>5, <2>6
<1>. QED
  BY <1>3, <1>4 DEF GInv

\* It fails: the window takes its place.
LEMMA GFail ==
  ASSUME GInv, TypeOK, TabsOK, NEW t \in Tab, LoginFailed(t)
  PROVE  GInv'
<1>1. PICK b, o : b = AddressOf[BrowserOf[t]] /\ o = tab[t].org
  OBVIOUS
<1>2. /\ failures' = Recorded({o, Every}, b) /\ UNCHANGED clock
      /\ guesses' = [guesses EXCEPT ![<<"member", b>>] = Append(guesses[<<"member", b>>], clock)]
      /\ Becomes(t, Blank) /\ tab[t].at = "judge"
  BY <1>1 DEF LoginFailed, Guessed, service, At
<1>3. o \in Org /\ b \in Address
  BY <1>1, <1>2, SignInAssumption DEF TabsOK, TabOK, Blank, Page, Pages, Posted, Posts, Opening, Openings, Answer, Waiting
<1>4. /\ \A u \in Tab : u # t => tab'[u] = tab[u]
      /\ tab'[t].at \notin {"lookup", "judge"}
  BY <1>2 DEF Becomes, TabsOK, Blank
<1>5. /\ clock \in Nat /\ <<Every, b>> \in Windows /\ <<Operators, b>> \in Windows
      /\ \A k \in Windows : /\ Times(failures[k], clock) /\ Fresh(failures[k], clock)
                            /\ Recent(failures[k], clock) = failures[k]
                            /\ Len(failures[k]) \in Nat
      /\ o # Every /\ o # Operators /\ Every # Operators
      /\ <<"member", b>> \in Kinds \X Address
  BY <1>3, OfAddress
<1>6. failures = [k \in Windows |-> failures[k]] /\ guesses = [k \in Kinds \X Address |-> guesses[k]]
  BY DEF GInv, WindowsOK, Counted
<1>7. /\ DOMAIN failures' = Windows /\ failures' = [k \in Windows |-> failures'[k]]
      /\ \A k \in Windows :
           failures'[k] = IF k[1] \in {o, Every} /\ k[2] = b THEN Append(failures[k], clock) ELSE failures[k]
  BY <1>2, <1>5, <1>6 DEF Recorded
<1>8. WindowsOK'
  <2>1. \A k \in Windows : /\ Times(failures'[k], clock) /\ Fresh(failures'[k], clock)
    <3> SUFFICES ASSUME NEW k \in Windows
                 PROVE  Times(failures'[k], clock) /\ Fresh(failures'[k], clock)
      OBVIOUS
    <3>1. Times(failures[k], clock) /\ Fresh(failures[k], clock)
      BY <1>5
    <3>2. Times(Append(failures[k], clock), clock) /\ Fresh(Append(failures[k], clock), clock)
      BY <1>5, <3>1, OneMore
    <3>3. failures'[k] \in {Append(failures[k], clock), failures[k]}
      BY <1>7
    <3>. QED
      BY <3>1, <3>2, <3>3
  <2>. QED
    BY <1>2, <1>7, <2>1 DEF WindowsOK
<1>9. /\ guesses' = [k \in Kinds \X Address |-> guesses'[k]]
      /\ guesses'[<<"member", b>>] = Append(guesses[<<"member", b>>], clock)
      /\ \A k \in Kinds \X Address : k # <<"member", b>> => guesses'[k] = guesses[k]
  BY <1>2, <1>5, <1>6
<1>10. failures'[<<Every, b>>] = Append(failures[<<Every, b>>], clock)
  BY <1>5, <1>7
<1>11. \A a \in Address : /\ a # b => failures'[<<Every, a>>] = failures[<<Every, a>>]
                          /\ failures'[<<Operators, a>>] = failures[<<Operators, a>>]
  <2> SUFFICES ASSUME NEW a \in Address
               PROVE  /\ a # b => failures'[<<Every, a>>] = failures[<<Every, a>>]
                      /\ failures'[<<Operators, a>>] = failures[<<Operators, a>>]
    OBVIOUS
  <2>1. <<Every, a>> \in Windows /\ <<Operators, a>> \in Windows
    BY OfAddress
  <2>. QED
    BY <1>5, <1>7, <2>1
<1>12. Counted'
  <2> SUFFICES ASSUME NEW a \in Address
               PROVE  /\ guesses'[<<"member", a>>] = failures'[<<Every, a>>]
                      /\ guesses'[<<"operator", a>>] = failures'[<<Operators, a>>]
    BY <1>9 DEF Counted
  <2>1. guesses[<<"member", a>>] = failures[<<Every, a>>]
        /\ guesses[<<"operator", a>>] = failures[<<Operators, a>>]
    BY DEF GInv, Counted
  <2>2. <<"member", a>> \in Kinds \X Address /\ <<"operator", a>> \in Kinds \X Address
    BY OfAddress
  <2>3. guesses'[<<"operator", a>>] = guesses[<<"operator", a>>]
    <3>1. <<"operator", a>> # <<"member", b>>
      OBVIOUS
    <3>. QED
      BY <1>9, <2>2, <3>1
  <2>4. CASE a = b
    BY <1>9, <1>10, <1>11, <2>1, <2>3, <2>4
  <2>5. CASE a # b
    <3>1. <<"member", a>> # <<"member", b>>
      BY <2>5
    <3>2. guesses'[<<"member", a>>] = guesses[<<"member", a>>]
      BY <1>9, <2>2, <3>1
    <3>. QED
      BY <1>11, <2>1, <2>3, <2>5, <3>2
  <2>. QED
    BY <2>4, <2>5
<1>13. Room'
  <2> SUFFICES ASSUME NEW a \in Address
               PROVE  /\ Len(failures'[<<Every, a>>]) + Cardinality(InFlight(a)')
                           < MaxFailures + Cardinality(TabsAt(a))
                      /\ Len(failures'[<<Operators, a>>]) <= MaxFailures
    BY DEF Room, TabsAt
  <2>1. InFlight(a) \subseteq TabsAt(a)
    BY DEF InFlight, TabsAt
  <2>2. /\ Cardinality(InFlight(a)) \in Nat /\ Cardinality(TabsAt(a)) \in Nat
        /\ IsFiniteSet(InFlight(a))
    BY <2>1, Finite
  <2>3. /\ Len(failures[<<Every, a>>]) + Cardinality(InFlight(a))
             < MaxFailures + Cardinality(TabsAt(a))
        /\ Len(failures[<<Operators, a>>]) <= MaxFailures
        /\ Len(failures[<<Every, a>>]) \in Nat /\ MaxFailures \in Nat
    BY OfAddress
  <2>4. CASE a = b
    <3>1. InFlight(a)' = InFlight(a) \ {t} /\ t \in InFlight(a)
      BY <1>1, <1>2, <1>4, <2>4 DEF InFlight
    <3>2. Cardinality(InFlight(a)') = Cardinality(InFlight(a)) - 1
      BY <2>2, <3>1, FS_RemoveElement
    <3>3. Len(failures'[<<Every, a>>]) = Len(failures[<<Every, a>>]) + 1
      BY <1>5, <1>10, <2>4, OneMore
    <3>. QED
      BY <1>11, <2>2, <2>3, <3>2, <3>3
  <2>5. CASE a # b
    <3>1. InFlight(a)' = InFlight(a)
      BY <1>1, <1>4, <2>5 DEF InFlight
    <3>. QED
      BY <1>11, <2>3, <2>5, <3>1
  <2>. QED
    BY <2>4, <2>5
<1>. QED
  BY <1>8, <1>12, <1>13 DEF GInv

\* It succeeds, and clears the window of its organization, not the address's.
LEMMA GSucceed ==
  ASSUME GInv, TypeOK, TabsOK, NEW t \in Tab, LoginSucceeded(t)
  PROVE  GInv'
<1>1. PICK b, o : b = AddressOf[BrowserOf[t]] /\ o = tab[t].org
  OBVIOUS
<1>2. /\ failures' = [failures EXCEPT ![<<o, b>>] = <<>>] /\ UNCHANGED <<clock, guesses>>
      /\ tab[t].at = "judge"
  BY <1>1 DEF LoginSucceeded, Cleared, service, At
<1>3. o \in Org /\ b \in Address
  BY <1>1, <1>2, SignInAssumption DEF TabsOK, TabOK, Blank, Page, Pages, Posted, Posts, Opening, Openings, Answer, Waiting
<1>4. \A u \in Tab : tab'[u].at \in {"lookup", "judge"} => tab[u].at \in {"lookup", "judge"}
  <2>1. \A u \in Tab : u # t => tab'[u] = tab[u]
    BY DEF LoginSucceeded, Becomes, TabsOK
  <2>. QED
    BY <1>2, <2>1
<1>5. ASSUME NEW s \in {Every, Operators}, NEW a \in Address
      PROVE  failures'[<<s, a>>] = failures[<<s, a>>]
  <2>1. o # s /\ <<s, a>> \in Windows /\ <<o, b>> \in Windows
    BY <1>3, OfAddress
  <2>2. <<s, a>> # <<o, b>>
    BY <2>1
  <2>3. failures = [k \in Windows |-> failures[k]]
    BY DEF GInv, WindowsOK
  <2>. QED
    BY <1>2, <2>1, <2>2, <2>3
<1>6. WindowsOK'
  <2>1. failures = [k \in Windows |-> failures[k]]
        /\ \A k \in Windows : Times(failures[k], clock) /\ Fresh(failures[k], clock)
    BY DEF GInv, WindowsOK
  <2>2. Times(<<>>, clock) /\ Fresh(<<>>, clock)
    BY DEF Times, Fresh
  <2>3. failures' = [k \in Windows |-> failures'[k]]
    BY <1>2, <2>1
  <2>4. \A k \in Windows : failures'[k] \in {failures[k], <<>>}
    BY <1>2, <2>1
  <2>. QED
    BY <1>2, <2>1, <2>2, <2>3, <2>4 DEF WindowsOK
<1>7. Counted'
  BY <1>2, <1>5 DEF GInv, Counted
<1>8. Room'
  <2>1. \A a \in Address : /\ Len(failures'[<<Every, a>>]) = Len(failures[<<Every, a>>])
                           /\ Len(failures[<<Every, a>>]) \in Nat
                           /\ Len(failures'[<<Operators, a>>]) <= MaxFailures
    BY <1>5, OfAddress
  <2>. QED
    BY <1>4, <2>1, RoomShrinks
<1>. QED
  BY <1>6, <1>7, <1>8 DEF GInv

\* The operator's guesses are counted as they are judged.
LEMMA GOperator ==
  ASSUME GInv, TypeOK, TabsOK, NEW t \in Tab, NEW k \in OperatorToken, OperatorLogin(t, k)
  PROVE  GInv'
<1>1. PICK b : b = AddressOf[BrowserOf[t]]
  OBVIOUS
<1>2. b \in Address
  BY <1>1, SignInAssumption
<1>3. /\ clock \in Nat /\ MaxFailures \in Nat
      /\ <<Every, b>> \in Windows /\ <<Operators, b>> \in Windows
      /\ Every # Operators /\ <<"operator", b>> \in Kinds \X Address
      /\ \A w \in Windows : /\ Times(failures[w], clock) /\ Fresh(failures[w], clock)
                            /\ Recent(failures[w], clock) = failures[w]
                            /\ Len(failures[w]) \in Nat
  BY <1>2, OfAddress
<1>4. failures = [w \in Windows |-> failures[w]] /\ guesses = [w \in Kinds \X Address |-> guesses[w]]
  BY DEF GInv, WindowsOK, Counted
<1>5. UNCHANGED clock
  BY DEF OperatorLogin, service
<1>6. \A u \in Tab : tab'[u].at \in {"lookup", "judge"} => tab[u].at \in {"lookup", "judge"}
  <2>1. PICK x : Becomes(t, x) /\ x.at \notin {"lookup", "judge"}
    BY DEF OperatorLogin, Blank
  <2>. QED
    BY <2>1 DEF Becomes, TabsOK
<1>7. CASE UNCHANGED <<failures, guesses>>
  BY <1>5, <1>6, <1>7, GQuiet
<1>8. ASSUME NEW q, Times(q, clock), Fresh(q, clock), Len(q) \in Nat, Len(q) <= MaxFailures,
             failures' = [failures EXCEPT ![<<Operators, b>>] = q],
             guesses' = [guesses EXCEPT ![<<"operator", b>>] = q]
      PROVE  GInv'
  <2>1. /\ failures'[<<Operators, b>>] = q
        /\ \A w \in Windows : w # <<Operators, b>> => failures'[w] = failures[w]
        /\ failures' = [w \in Windows |-> failures'[w]]
    BY <1>3, <1>4, <1>8
  <2>2. /\ guesses'[<<"operator", b>>] = q
        /\ \A w \in Kinds \X Address : w # <<"operator", b>> => guesses'[w] = guesses[w]
        /\ guesses' = [w \in Kinds \X Address |-> guesses'[w]]
    BY <1>3, <1>4, <1>8
  <2>3. WindowsOK'
    BY <1>3, <1>5, <1>8, <2>1 DEF WindowsOK
  <2>4. ASSUME NEW a \in Address
        PROVE  /\ failures'[<<Every, a>>] = failures[<<Every, a>>]
               /\ a # b => failures'[<<Operators, a>>] = failures[<<Operators, a>>]
               /\ guesses'[<<"member", a>>] = guesses[<<"member", a>>]
               /\ a # b => guesses'[<<"operator", a>>] = guesses[<<"operator", a>>]
    <3>1. /\ <<Every, a>> \in Windows /\ <<Operators, a>> \in Windows
          /\ <<"member", a>> \in Kinds \X Address /\ <<"operator", a>> \in Kinds \X Address
      BY OfAddress
    <3>2. /\ <<Every, a>> # <<Operators, b>> /\ <<"member", a>> # <<"operator", b>>
          /\ a # b => /\ <<Operators, a>> # <<Operators, b>>
                      /\ <<"operator", a>> # <<"operator", b>>
      BY <1>3
    <3>. QED
      BY <2>1, <2>2, <3>1, <3>2
  <2>5. Counted'
    <3> SUFFICES ASSUME NEW a \in Address
                 PROVE  /\ guesses'[<<"member", a>>] = failures'[<<Every, a>>]
                        /\ guesses'[<<"operator", a>>] = failures'[<<Operators, a>>]
      BY <2>2 DEF Counted
    <3>1. guesses[<<"member", a>>] = failures[<<Every, a>>]
          /\ guesses[<<"operator", a>>] = failures[<<Operators, a>>]
      BY DEF GInv, Counted
    <3>2. CASE a = b
      BY <2>1, <2>2, <2>4, <3>1, <3>2
    <3>3. CASE a # b
      BY <2>4, <3>1, <3>3
    <3>. QED
      BY <3>2, <3>3
  <2>6. \A a \in Address : /\ Len(failures'[<<Every, a>>]) = Len(failures[<<Every, a>>])
                           /\ Len(failures[<<Every, a>>]) \in Nat
                           /\ Len(failures'[<<Operators, a>>]) <= MaxFailures
    <3> SUFFICES ASSUME NEW a \in Address
                 PROVE  /\ Len(failures'[<<Every, a>>]) = Len(failures[<<Every, a>>])
                        /\ Len(failures[<<Every, a>>]) \in Nat
                        /\ Len(failures'[<<Operators, a>>]) <= MaxFailures
      OBVIOUS
    <3>0. Len(failures[<<Every, a>>]) \in Nat /\ Len(failures[<<Operators, a>>]) <= MaxFailures
      BY OfAddress
    <3>1. CASE a = b
      BY <1>8, <2>1, <2>4, <3>0, <3>1
    <3>2. CASE a # b
      BY <2>4, <3>0, <3>2
    <3>. QED
      BY <3>1, <3>2
  <2>7. Room'
    BY <1>6, <2>6, RoomShrinks
  <2>. QED
    BY <2>3, <2>5, <2>7 DEF GInv
<1>9. CASE /\ ~Blocked(Operators, b) /\ failures' = Recorded({Operators}, b)
           /\ Guessed("operator", b)
  <2>1. PICK q : q = Append(failures[<<Operators, b>>], clock)
    OBVIOUS
  <2>2. Len(failures[<<Operators, b>>]) < MaxFailures
    BY <1>3, <1>9 DEF Blocked
  <2>3. Times(q, clock) /\ Fresh(q, clock) /\ Len(q) = Len(failures[<<Operators, b>>]) + 1
    BY <1>3, <2>1, OneMore
  <2>4. failures' = [failures EXCEPT ![<<Operators, b>>] = q]
    <3>1. failures' = [w \in Windows |->
                         IF w[1] = Operators /\ w[2] = b THEN Append(Recent(failures[w], clock), clock)
                         ELSE failures[w]]
      BY <1>4, <1>9 DEF Recorded
    <3>2. ASSUME NEW w \in Windows
          PROVE  failures'[w] = IF w = <<Operators, b>> THEN q ELSE failures[w]
      <4>1. w = <<w[1], w[2]>>
        BY DEF Windows
      <4>2. w = <<Operators, b>> <=> (w[1] = Operators /\ w[2] = b)
        BY <4>1
      <4>3. CASE w = <<Operators, b>>
        BY <1>3, <2>1, <3>1, <4>2, <4>3
      <4>4. CASE w # <<Operators, b>>
        BY <3>1, <4>2, <4>4
      <4>. QED
        BY <4>3, <4>4
    <3>3. failures' = [w \in Windows |-> IF w = <<Operators, b>> THEN q ELSE failures[w]]
      BY <3>1, <3>2
    <3>. QED
      BY <1>4, <3>3
  <2>5. guesses' = [guesses EXCEPT ![<<"operator", b>>] = q]
    BY <1>2, <1>9, <2>1 DEF Guessed, GInv, Counted
  <2>6. Len(q) \in Nat /\ Len(q) <= MaxFailures
    BY <1>3, <2>2, <2>3
  <2>. QED
    BY <1>8, <2>3, <2>4, <2>5, <2>6
<1>10. CASE failures' = Cleared(Operators, b) /\ guesses' = [guesses EXCEPT ![<<"operator", b>>] = <<>>]
  <2>1. PICK q : q = <<>>
    OBVIOUS
  <2>2. Times(q, clock) /\ Fresh(q, clock) /\ Len(q) \in Nat /\ Len(q) <= MaxFailures
    BY <1>3, <2>1 DEF Times, Fresh
  <2>3. /\ failures' = [failures EXCEPT ![<<Operators, b>>] = q]
        /\ guesses' = [guesses EXCEPT ![<<"operator", b>>] = q]
    BY <1>10, <2>1 DEF Cleared
  <2>. QED
    BY <1>8, <2>2, <2>3
<1>. QED
  BY <1>1, <1>7, <1>9, <1>10 DEF OperatorLogin

\* A restart forgets both.
LEMMA GRestart ==
  ASSUME GInv, TypeOK, TabsOK, Restart
  PROVE  GInv'
<1>1. /\ failures' = [k \in Windows |-> <<>>] /\ guesses' = [k \in Kinds \X Address |-> <<>>]
      /\ UNCHANGED clock
  BY DEF Restart, GInv, WindowsOK, Counted
<1>2. \A u \in Tab : tab'[u].at \notin {"lookup", "judge"}
  BY DEF Restart, At, Blank
<1>3. \A a \in Address : /\ <<Every, a>> \in Windows /\ <<Operators, a>> \in Windows
                         /\ <<"member", a>> \in Kinds \X Address
                         /\ <<"operator", a>> \in Kinds \X Address
  BY OfAddress
<1>4. WindowsOK'
  <2>1. Times(<<>>, clock) /\ Fresh(<<>>, clock)
    BY DEF Times, Fresh
  <2>. QED
    BY <1>1, <2>1 DEF WindowsOK
<1>5. Counted'
  BY <1>1, <1>3 DEF Counted
<1>6. \A a \in Address : /\ Len(failures'[<<Every, a>>]) <= Len(failures[<<Every, a>>])
                         /\ Len(failures'[<<Every, a>>]) \in Nat
                         /\ Len(failures'[<<Operators, a>>]) <= MaxFailures
  <2> SUFFICES ASSUME NEW a \in Address
               PROVE  /\ Len(failures'[<<Every, a>>]) <= Len(failures[<<Every, a>>])
                      /\ Len(failures'[<<Every, a>>]) \in Nat
                      /\ Len(failures'[<<Operators, a>>]) <= MaxFailures
    OBVIOUS
  <2>1. failures'[<<Every, a>>] = <<>> /\ failures'[<<Operators, a>>] = <<>>
    BY <1>1, <1>3
  <2>2. Len(failures[<<Every, a>>]) \in Nat /\ MaxFailures \in Nat
    BY <1>3, OfAddress
  <2>3. Len(<<>>) = 0
    OBVIOUS
  <2>. QED
    BY <2>1, <2>2, <2>3
<1>7. Room'
  BY <1>2, <1>6, RoomShrinks
<1>. QED
  BY <1>4, <1>5, <1>7 DEF GInv

\* Time passes: what has aged is dropped from both.
LEMMA GTick ==
  ASSUME GInv, TypeOK, TabsOK, Tick
  PROVE  GInv'
<1>1. PICK now : now = clock'
  OBVIOUS
<1>2. /\ now \in Nat /\ clock \in Nat /\ clock <= now
      /\ failures' = [k \in Windows |-> Recent(failures[k], now)]
      /\ guesses' = [k \in Kinds \X Address |-> Recent(guesses[k], now)]
      /\ UNCHANGED tab
  <2>1. clock \in Nat
    BY SignInAssumption DEF TypeOK
  <2>2. DOMAIN failures = Windows /\ DOMAIN guesses = Kinds \X Address
    BY DEF GInv, WindowsOK, Counted
  <2>. QED
    BY <1>1, <2>1, <2>2 DEF Tick
<1>3. ASSUME NEW k \in Windows
      PROVE  /\ Times(failures'[k], now) /\ Fresh(failures'[k], now)
             /\ Len(failures'[k]) <= Len(failures[k])
  <2>1. Times(failures[k], clock)
    BY DEF GInv, WindowsOK
  <2>2. Times(failures[k], now)
    <3>1. ASSUME NEW i \in 1..Len(failures[k]) PROVE failures[k][i] <= now
      <4>1. failures[k] \in Seq(Nat) /\ failures[k][i] \in Nat /\ failures[k][i] <= clock
        BY <2>1, ElementOfSeq DEF Times
      <4>. QED
        BY <1>2, <4>1
    <3>. QED
      BY <2>1, <3>1 DEF Times
  <2>3. failures'[k] = Recent(failures[k], now)
    BY <1>2
  <2>. QED
    BY <1>2, <2>2, <2>3, RecentIs
<1>4. WindowsOK'
  BY <1>1, <1>2, <1>3 DEF WindowsOK
<1>5. Counted'
  <2> SUFFICES ASSUME NEW a \in Address
               PROVE  /\ guesses'[<<"member", a>>] = failures'[<<Every, a>>]
                      /\ guesses'[<<"operator", a>>] = failures'[<<Operators, a>>]
    BY <1>2 DEF Counted
  <2>1. guesses[<<"member", a>>] = failures[<<Every, a>>]
        /\ guesses[<<"operator", a>>] = failures[<<Operators, a>>]
    BY DEF GInv, Counted
  <2>2. /\ <<Every, a>> \in Windows /\ <<Operators, a>> \in Windows
        /\ <<"member", a>> \in Kinds \X Address /\ <<"operator", a>> \in Kinds \X Address
    BY OfAddress
  <2>. QED
    BY <1>2, <2>1, <2>2
<1>6. \A a \in Address : /\ Len(failures'[<<Every, a>>]) <= Len(failures[<<Every, a>>])
                         /\ Len(failures'[<<Every, a>>]) \in Nat
                         /\ Len(failures'[<<Operators, a>>]) <= MaxFailures
  <2> SUFFICES ASSUME NEW a \in Address
               PROVE  /\ Len(failures'[<<Every, a>>]) <= Len(failures[<<Every, a>>])
                      /\ Len(failures'[<<Every, a>>]) \in Nat
                      /\ Len(failures'[<<Operators, a>>]) <= MaxFailures
    OBVIOUS
  <2>1. /\ <<Every, a>> \in Windows /\ <<Operators, a>> \in Windows /\ MaxFailures \in Nat
        /\ Len(failures[<<Operators, a>>]) <= MaxFailures
        /\ Len(failures[<<Operators, a>>]) \in Nat
    BY OfAddress
  <2>2. Len(failures'[<<Every, a>>]) \in Nat /\ Len(failures'[<<Operators, a>>]) \in Nat
    BY <1>3, <2>1, LenProperties DEF Times
  <2>. QED
    BY <1>3, <2>1, <2>2
<1>7. Room'
  BY <1>2, <1>6, RoomShrinks
<1>. QED
  BY <1>4, <1>5, <1>7 DEF GInv

\* What is left of a tab whose nonce was replaced is not a sign-in in flight.
LEMMA RotatedQuiet ==
  ASSUME TabsOK, NEW t \in Tab, NEW x, RotateCsrf(t, x), x.at \notin {"lookup", "judge"}
  PROVE  \A u \in Tab : tab'[u].at \in {"lookup", "judge"} => tab[u].at \in {"lookup", "judge"}
<1> SUFFICES ASSUME NEW u \in Tab, tab'[u].at \in {"lookup", "judge"}
             PROVE  tab[u].at \in {"lookup", "judge"}
  OBVIOUS
<1>1. tab'[u] \in {x, tab[u], Outdated(tab[u])}
  BY DEF RotateCsrf
<1>2. CASE tab'[u] = Outdated(tab[u])
  <2>1. Outdated(tab[u]).at = tab[u].at \/ Outdated(tab[u]) = Blank
    BY OutdatedOK DEF TabsOK, Opening, Openings
  <2>. QED
    BY <1>2, <2>1 DEF Blank
<1>. QED
  BY <1>1, <1>2

\* Every step keeps the count.
LEMMA GStep ==
  ASSUME GInv, TypeOK, TabsOK, [Next]_vars
  PROVE  GInv'
<1>1. ASSUME NEW t \in Tab, NEW x, Becomes(t, x), UNCHANGED <<clock, failures, guesses>>,
             x.at \in {"lookup", "judge"} => tab[t].at \in {"lookup", "judge"}
      PROVE  GInv'
  <2>1. \A u \in Tab : tab'[u] = IF u = t THEN x ELSE tab[u]
    BY <1>1 DEF Becomes, TabsOK
  <2>. QED
    BY <1>1, <2>1, GQuiet
<1>2. ASSUME NEW t \in Tab, NEW x, RotateCsrf(t, x), UNCHANGED <<clock, failures, guesses>>,
             x.at \notin {"lookup", "judge"}
      PROVE  GInv'
  BY <1>2, RotatedQuiet, GQuiet
<1>3. ASSUME NEW t \in Tab, Request(t) PROVE GInv'
  <2>1. CASE OpenPage(t)
    <3>1. PICK x : Becomes(t, x) /\ x.at = "opening"
      BY <2>1 DEF OpenPage
    <3>. QED
      BY <1>1, <2>1, <3>1 DEF OpenPage, service
  <2>2. CASE ShowPage(t)
    <3>1. PICK x : x = Shown(tab[t].member, tab[t].operator)
      OBVIOUS
    <3>2. x.at = "shown" /\ Blank.at = "blank"
      BY <3>1 DEF Shown, Blank
    <3>3. \/ RotateCsrf(t, x)
          \/ Becomes(t, x)
          \/ Becomes(t, Blank)
      BY <2>2, <3>1 DEF ShowPage
    <3>. QED
      BY <1>1, <1>2, <2>2, <3>2, <3>3 DEF ShowPage, service
  <2>3. ASSUME NEW o \in Org, LoginRefused(t, o) PROVE GInv'
    BY <1>1, <2>3 DEF LoginRefused, service, Blank
  <2>4. ASSUME NEW o \in Org, ResetPassword(t, o) PROVE GInv'
    <3>1. PICK x : Becomes(t, x) /\ x.at = "reply"
      BY <2>4 DEF ResetPassword
    <3>. QED
      BY <1>1, <2>4, <3>1 DEF ResetPassword
  <2>5. ASSUME NEW o \in Org, NEW n \in 0..login[o], LoginAdmitted(t, o, n) PROVE GInv'
    BY <2>5, GAdmit
  <2>6. CASE LoginLookup(t)
    <3>1. PICK x : Becomes(t, x) /\ x.at = "judge"
      BY <2>6 DEF LoginLookup
    <3>. QED
      BY <1>1, <2>6, <3>1 DEF LoginLookup, service, At
  <2>7. CASE LoginFailed(t)
    BY <2>7, GFail
  <2>8. CASE LoginSucceeded(t)
    BY <2>8, GSucceed
  <2>9. ASSUME NEW k \in Token, TokenPosted(t, k) PROVE GInv'
    <3>1. PICK x : Becomes(t, x) /\ x.at = "token"
      BY <2>9 DEF TokenPosted
    <3>. QED
      BY <1>1, <2>9, <3>1 DEF TokenPosted, service
  <2>10. CASE TokenJudged(t)
    <3>1. PICK x : Becomes(t, x) /\ x.at \in {"reply", "blank"}
      <4>1. \E x \in {[at |-> "reply", to |-> "member", cookie |-> Payload(tab[t].token, clock)], Blank} :
               Becomes(t, x)
        BY <2>10 DEF TokenJudged
      <4>. QED
        BY <4>1 DEF Blank
    <3>. QED
      BY <1>1, <2>10, <3>1 DEF TokenJudged, service
  <2>11. ASSUME NEW k \in OperatorToken, OperatorLogin(t, k) PROVE GInv'
    BY <2>11, GOperator
  <2>12. CASE Reply(t)
    BY <1>2, <2>12 DEF Reply, service, Blank
  <2>13. CASE Logout(t)
    BY <1>1, <2>13 DEF Logout, service, Blank
  <2>14. CASE RequestFails(t)
    BY <1>1, <2>14 DEF RequestFails, service, Blank
  <2>15. CASE LookUpSession(t) \/ FormPosted(t) \/ FormChecked(t) \/ FormWritten(t)
    <3>1. PICK x : Becomes(t, x) /\ x.at \notin {"lookup", "judge"}
      <4>1. CASE LookUpSession(t)
        <5>1. Opening(tab[t])
          BY <4>1 DEF LookUpSession, At, TabsOK, TabOK, Blank, Page, Pages, Posted, Posts, Answer, Waiting
        <5>2. [tab[t] EXCEPT !.at = "rendering", !.member = ResolveSession(tab[t].member)].at = "rendering"
          BY <5>1 DEF Opening, Openings
        <5>. QED
          BY <4>1, <5>2 DEF LookUpSession
      <4>2. CASE FormPosted(t)
        BY <4>2 DEF FormPosted
      <4>3. CASE FormChecked(t)
        <5>1. Posted(tab[t])
          BY <4>3 DEF FormChecked, At, TabsOK, TabOK, Blank, Page, Pages, Opening, Openings, Answer, Waiting
        <5>2. [tab[t] EXCEPT !.at = "writing", !.member = ResolveSession(tab[t].member)].at = "writing"
          BY <5>1 DEF Posted, Posts
        <5>. QED
          BY <4>3, <5>2 DEF FormChecked, Blank
      <4>4. CASE FormWritten(t)
        BY <4>4 DEF FormWritten, Blank
      <4>. QED
        BY <2>15, <4>1, <4>2, <4>3, <4>4
    <3>. QED
      BY <1>1, <2>15, <3>1 DEF LookUpSession, FormPosted, FormChecked, FormWritten, service
  <2>. QED
    BY <1>3, <2>1, <2>2, <2>3, <2>4, <2>5, <2>6, <2>7, <2>8, <2>9, <2>10, <2>11, <2>12, <2>13, <2>14,
       <2>15 DEF Request
<1>4. ASSUME NEW k \in Token, RevokeToken(k) PROVE GInv'
  BY <1>4, GQuiet DEF RevokeToken
<1>5. CASE Restart
  BY <1>5, GRestart
<1>6. CASE Tick
  BY <1>6, GTick
<1>7. CASE UNCHANGED vars
  BY <1>7, GQuiet DEF vars
<1>. QED
  BY <1>3, <1>4, <1>5, <1>6, <1>7 DEF Next

\* The bound on guesses follows.
LEMMA GBound ==
  ASSUME GInv, TypeOK
  PROVE  GuessesAreBounded
<1> SUFFICES ASSUME NEW a \in Address
             PROVE  /\ Len(guesses[<<"member", a>>]) <= MaxFailures + (Cardinality(TabsAt(a)) - 1)
                    /\ Len(guesses[<<"operator", a>>]) <= MaxFailures
  BY DEF GuessesAreBounded, TabsAt
<1>1. /\ guesses[<<"member", a>>] = failures[<<Every, a>>]
      /\ guesses[<<"operator", a>>] = failures[<<Operators, a>>]
  BY DEF GInv, Counted
<1>2. InFlight(a) \subseteq TabsAt(a)
  BY DEF InFlight, TabsAt
<1>3. Cardinality(InFlight(a)) \in Nat /\ Cardinality(TabsAt(a)) \in Nat
  BY <1>2, Finite
<1>4. /\ Len(failures[<<Every, a>>]) + Cardinality(InFlight(a))
           < MaxFailures + Cardinality(TabsAt(a))
      /\ Len(failures[<<Operators, a>>]) <= MaxFailures
      /\ Len(failures[<<Every, a>>]) \in Nat /\ MaxFailures \in Nat
  BY OfAddress
<1>. QED
  BY <1>1, <1>3, <1>4

\* An address gets no more tries than the windows allow, plus those that were in
\* flight when the last place was taken (console/index.ts, ratelimit.ts).
THEOREM GuessesBounded == Spec => []GuessesAreBounded
<1>1. Init => IInv /\ GInv
  BY InitOK, GInit
<1>2. IInv /\ GInv /\ [Next]_vars => IInv' /\ GInv'
  BY StepOK, GStep DEF IInv
<1>3. IInv /\ GInv => GuessesAreBounded
  BY GBound DEF IInv
<1>. QED
  BY <1>1, <1>2, <1>3, PTL DEF Spec

=============================================================================
