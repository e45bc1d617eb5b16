--------------------------- MODULE SessionsProofs ---------------------------
(***************************************************************************)
(* Sessions, for any number of users and browsers.                         *)
(*                                                                         *)
(* What the proxy believes and what the data access layer looks up are two *)
(* things.  What ties them is that a cookie and its row are written with   *)
(* the same user and the same expiry, that rows are never deleted, and     *)
(* that the proxy's prefixes and the guards of the pages agree.            *)
(***************************************************************************)
EXTENDS Sessions, SequenceTheorems, TLAPS

\* A cookie names a row that was written with it.
Genuine(k) ==
  /\ k.token \in DOMAIN session
  /\ session[k.token].user = k.user
  /\ session[k.token].expires = k.expires

CookiesAreGenuine ==
  \A b \in Browsers :
    /\ cookie[b] # NoCookie => Genuine(cookie[b])
    /\ browser[b].op = "issued" => Genuine(browser[b].cookie)

\* What the proxy has let through.
PassedIsAllowed ==
  \A b \in Browsers :
    browser[b].op = "passed" /\ browser[b].path \notin AuthRoutes =>
      cookie[b] # NoCookie /\ CanAccess(cookie[b].role, browser[b].path)

\* The session of a browser that is about to lose its cookie is over.
LeavingIsOver ==
  \A b \in Browsers : browser[b].op = "leaving" /\ cookie[b] # NoCookie =>
    Over(cookie[b].token)

SessionsInv == TypeOK /\ CookiesAreGenuine /\ PassedIsAllowed /\ LeavingIsOver

Waiting == Answered \cup Travelling \cup SigningIn \cup Leaving

-----------------------------------------------------------------------------
(* The three tables.                                                       *)

LEMMA PortalNames ==
  Portals = {"/admin", "/manager", "/agent", "/driver", "/customer", "/notifications"}
  BY DEF Portals, PageGuard

\* The roles whose pages are under a prefix are those the proxy lets browse it.
LEMMA PrefixesAgree ==
  \A role \in Roles, path \in Portals : CanAccess(role, path) <=> role \in PageGuard[path]
  BY PortalNames DEF Roles, CanAccess, RouteRoles, PageGuard, RequireAdministrator,
     RequireManager, RequireAgent, RequireDriver, RequireCustomer, RequireActor

\* Every role has its home, and is let in there.
LEMMA HomesAgree ==
  \A role \in Roles : RoleHome(role) \in Portals /\ CanAccess(role, RoleHome(role))
  BY PortalNames DEF Roles, CanAccess, RouteRoles, RoleHome

\* What each server action does is permitted to every role it lets in.
LEMMA GuardsAgree ==
  \A role \in Roles : \A a \in ServerActions : role \in a.guard => MayPerform(role, a.permission)
  <1> SUFFICES ASSUME NEW role \in Roles, NEW a \in ServerActions, role \in a.guard
               PROVE  a.permission \in Matrix[role]
    BY DEF MayPerform
  <1>1. CASE role = "ADMINISTRATOR"
    BY <1>1 DEF ServerActions, Act, Matrix, Roles, AllPermissions, AdminOnlyOperations,
                Customer, Driver, Agent, Manager, Common, RequireAdministrator,
                RequireManager, RequireAgent, RequireDriver, RequireCustomer, RequireActor
  <1>2. CASE role = "MANAGER"
    BY <1>2 DEF ServerActions, Act, Matrix, Roles, Manager, Common, RequireAdministrator,
                RequireManager, RequireAgent, RequireDriver, RequireCustomer, RequireActor
  <1>3. CASE role = "AGENT"
    BY <1>3 DEF ServerActions, Act, Matrix, Roles, Agent, Common, RequireAdministrator,
                RequireManager, RequireAgent, RequireDriver, RequireCustomer, RequireActor
  <1>4. CASE role = "DRIVER"
    BY <1>4 DEF ServerActions, Act, Matrix, Roles, Driver, Common, RequireAdministrator,
                RequireManager, RequireAgent, RequireDriver, RequireCustomer, RequireActor
  <1>5. CASE role = "CUSTOMER"
    BY <1>5 DEF ServerActions, Act, Matrix, Roles, Customer, Common, RequireAdministrator,
                RequireManager, RequireAgent, RequireDriver, RequireCustomer, RequireActor
  <1> QED
    BY <1>1, <1>2, <1>3, <1>4, <1>5 DEF Roles

-----------------------------------------------------------------------------
(* Types.                                                                  *)

\* What a browser waits for says which fields there are.
LEMMA WaitingKinds ==
  ASSUME NEW w \in Waiting
  PROVE  /\ w.op \in {"sent", "passed"} => w \in Travelling
         /\ w.op = "verified" => w.user \in Users /\ w.role \in Roles
         /\ w.op = "issued" => w.cookie \in Cookie
  BY DEF Waiting, Answered, Travelling, SigningIn, Leaving

\* A request is sent to a path there is.
LEMMA SentKeeps ==
  ASSUME TypeOK, NEW b \in Browsers, NEW path \in Paths, Sent(b, path)
  PROVE  browser' \in [Browsers -> Waiting]
  BY DEF TypeOK, Sent, Waiting, Travelling

LEMMA AnswerKeeps ==
  ASSUME TypeOK, NEW b \in Browsers,
         NEW op \in {"nothing", "form", "served", "refused", "leaving"}, Answer(b, op)
  PROVE  browser' \in [Browsers -> Waiting]
  <1>1. [op |-> op] \in Waiting
    BY DEF Waiting, Answered, Leaving
  <1> QED
    BY <1>1 DEF TypeOK, Answer, Waiting

\* Redirects lead to paths there are.
LEMMA RedirectsAreKnown ==
  ASSUME NEW k \in Cookie \cup {NoCookie}, NEW path \in Paths,
         NEW target \in Redirects(k, path)
  PROVE  target \in Paths
  <1>1. CASE Verifies(k)
    <2>1. k.role \in Roles
      BY <1>1 DEF Verifies, Cookie
    <2>2. target = RoleHome(k.role)
      BY <1>1 DEF Redirects
    <2> QED
      BY <2>1, <2>2, HomesAgree DEF Paths
  <1>2. CASE ~Verifies(k)
    BY <1>2 DEF Redirects, Paths, AuthRoutes
  <1> QED
    BY <1>1, <1>2

\* A row of the users table.
LEMMA UserRows ==
  ASSUME TypeOK, NEW u \in Users
  PROVE  /\ user[u] \in UserRow /\ user[u].role \in Roles
         /\ user[u] # Unregistered => user[u] \in [role : Roles, status : UserStatus]
  BY DEF TypeOK, UserRow, Unregistered, Roles

\* What Proxy sends on, or lets pass.
LEMMA ProxyKeepsTypes ==
  ASSUME TypeOK, NEW b \in Browsers, Proxy(b)
  PROVE  TypeOK'
  <1>1. browser[b] \in Travelling /\ browser[b].path \in Paths
    BY WaitingKinds DEF TypeOK, Proxy, Travelling, Waiting
  <1>2. CASE Redirects(cookie[b], browser[b].path) = {}
    <2>1. browser' = [browser EXCEPT ![b].op = "passed"]
      BY <1>2 DEF Proxy
    <2>2. [browser[b] EXCEPT !.op = "passed"] \in Travelling
      BY <1>1 DEF Travelling
    <2>3. browser' = [browser EXCEPT ![b] = [browser[b] EXCEPT !.op = "passed"]]
      BY <2>1
    <2>4. browser' \in [Browsers -> Waiting]
      BY <2>2, <2>3 DEF TypeOK, Waiting
    <2> QED
      BY <2>4 DEF TypeOK, Waiting, Proxy
  <1>3. CASE Redirects(cookie[b], browser[b].path) # {}
    <2>1. PICK target \in Redirects(cookie[b], browser[b].path) : Sent(b, target)
      BY <1>3 DEF Proxy
    <2>2. cookie[b] \in Cookie \cup {NoCookie}
      BY DEF TypeOK
    <2>3. target \in Paths
      BY <1>1, <2>2, RedirectsAreKnown
    <2>4. browser' \in [Browsers -> Waiting]
      BY <2>1, <2>3, SentKeeps
    <2> QED
      BY <2>4 DEF TypeOK, Waiting, Proxy
  <1> QED
    BY <1>2, <1>3

LEMMA AuthorizeKeepsTypes ==
  ASSUME TypeOK, NEW b \in Browsers, Authorize(b)
  PROVE  TypeOK'
  <1>1. PICK op \in {"form", "served", "refused"} : Answer(b, op)
    BY DEF Authorize
  <1>2. browser' \in [Browsers -> Waiting]
    BY <1>1, AnswerKeeps
  <1> QED
    BY <1>2 DEF TypeOK, Waiting, Authorize

\* Signing in and registering.
LEMMA LoginKeepsTypes ==
  ASSUME TypeOK, NEW b \in Browsers, NEW u \in Users, BeginLogin(b, u) \/ Register(b, u)
  PROVE  TypeOK'
  <1>1. PICK role \in Roles :
          browser' = [browser EXCEPT ![b] = [op |-> "verified", user |-> u, role |-> role]]
    BY UserRows DEF BeginLogin, Register, Roles
  <1>2. [op |-> "verified", user |-> u, role |-> role] \in SigningIn
    BY DEF SigningIn
  <1>3. browser' \in [Browsers -> Waiting]
    BY <1>1, <1>2 DEF TypeOK, Waiting
  <1>4. [role |-> "CUSTOMER", status |-> "ACTIVE"] \in UserRow
    BY DEF UserRow, Roles, UserStatus
  <1>5. user' \in [Users -> UserRow]
    BY <1>4 DEF BeginLogin, Register, TypeOK
  <1> QED
    BY <1>3, <1>5 DEF TypeOK, Waiting, BeginLogin, Register

LEMMA CreateSessionKeepsTypes ==
  ASSUME TypeOK, NEW b \in Browsers, CreateSession(b)
  PROVE  /\ TypeOK'
         /\ session' = Append(session, SessionRow(browser[b].user))
         /\ Len(session) + 1 \in DOMAIN session'
         /\ session'[Len(session) + 1] = SessionRow(browser[b].user)
         /\ \A i \in DOMAIN session : i \in DOMAIN session' /\ session'[i] = session[i]
  <1>1. browser[b].user \in Users /\ browser[b].role \in Roles
    BY WaitingKinds DEF CreateSession, TypeOK, Waiting
  <1>2. now + MaxAge \in Nat /\ session \in Seq(Session)
    BY SessionsAssumption DEF TypeOK
  <1>3. SessionRow(browser[b].user) \in Session
    BY <1>1, <1>2 DEF SessionRow, Session
  <1>4. session' = Append(session, SessionRow(browser[b].user))
    BY DEF CreateSession
  <1>5. /\ session' \in Seq(Session)
        /\ Len(session) + 1 \in DOMAIN session'
        /\ session'[Len(session) + 1] = SessionRow(browser[b].user)
        /\ \A i \in DOMAIN session : i \in DOMAIN session' /\ session'[i] = session[i]
    BY <1>2, <1>3, <1>4
  <1> DEFINE k == [token |-> Len(session) + 1, user |-> browser[b].user,
                   role |-> browser[b].role, expires |-> now + MaxAge]
  <1>6. k \in Cookie
    BY <1>1, <1>2 DEF Cookie
  <1> HIDE DEF k
  <1>7. [op |-> "issued", cookie |-> k] \in SigningIn
    BY <1>6 DEF SigningIn
  <1>8. browser' = [browser EXCEPT ![b] = [op |-> "issued", cookie |-> k]]
    BY DEF CreateSession, k
  <1>9. browser' \in [Browsers -> Waiting]
    BY <1>7, <1>8 DEF TypeOK, Waiting
  <1> QED
    BY <1>4, <1>5, <1>9 DEF TypeOK, Waiting, CreateSession

LEMMA SetCookieKeepsTypes ==
  ASSUME TypeOK, NEW b \in Browsers, SetCookie(b)
  PROVE  TypeOK'
  <1>1. browser[b].cookie \in Cookie
    BY WaitingKinds DEF SetCookie, TypeOK, Waiting
  <1>2. RoleHome(browser[b].cookie.role) \in Paths
    BY <1>1, HomesAgree DEF Cookie, Paths
  <1>3. PICK path \in Paths : Sent(b, path)
    BY <1>2 DEF SetCookie, Paths
  <1>4. browser' \in [Browsers -> Waiting]
    BY <1>3, SentKeeps
  <1> QED
    BY <1>1, <1>4 DEF TypeOK, Waiting, SetCookie

\* Rows stay where they are; only whether they are revoked may change.
LEMMA RevokeKeepsTypes ==
  ASSUME TypeOK, CookiesAreGenuine, NEW b \in Browsers, Revoke(b)
  PROVE  /\ TypeOK'
         /\ cookie[b] # NoCookie =>
              session'[cookie[b].token].revoked \/ session[cookie[b].token].expires <= now
         /\ DOMAIN session' = DOMAIN session
         /\ \A i \in DOMAIN session :
              /\ session'[i].user = session[i].user
              /\ session'[i].expires = session[i].expires
              /\ session[i].revoked => session'[i].revoked
  <1>1. browser' \in [Browsers -> Waiting]
    BY AnswerKeeps DEF Revoke
  <1>2. CASE Verifies(cookie[b])
    <2>1. cookie[b] # NoCookie /\ cookie[b].token \in DOMAIN session
      BY <1>2 DEF Verifies, CookiesAreGenuine, Genuine
    <2> DEFINE i == cookie[b].token
               s == [session[i] EXCEPT !.revoked = TRUE]
    <2>2. session \in Seq(Session) /\ i \in 1..Len(session)
      BY <2>1 DEF TypeOK
    <2>3. session[i] \in Session
      BY <2>2
    <2>4. /\ s \in Session /\ s.user = session[i].user /\ s.expires = session[i].expires
          /\ s.revoked
      BY <2>3 DEF Session
    <2>5. session' = [session EXCEPT ![i] = s]
      BY <1>2 DEF Revoke
    <2> HIDE DEF s, i
    <2>6. /\ session' \in Seq(Session) /\ DOMAIN session' = DOMAIN session
          /\ session'[i] = s /\ \A j \in DOMAIN session : j # i => session'[j] = session[j]
      BY <2>2, <2>4, <2>5
    <2>7. TypeOK'
      BY <1>1, <2>6 DEF TypeOK, Waiting, Revoke
    <2> QED
      BY <2>4, <2>6, <2>7 DEF i
  <1>3. CASE ~Verifies(cookie[b])
    <2>1. session' = session
      BY <1>3 DEF Revoke
    <2>2. TypeOK'
      BY <1>1, <2>1 DEF TypeOK, Waiting, Revoke
    <2>3. cookie[b] # NoCookie => session[cookie[b].token].expires <= now
      <3>1. cookie[b] # NoCookie =>
              cookie[b].expires \in Nat /\ ~(now < cookie[b].expires)
        BY <1>3 DEF TypeOK, Cookie, Verifies
      <3> QED
        BY <3>1 DEF CookiesAreGenuine, Genuine, TypeOK
    <2> QED
      BY <2>1, <2>2, <2>3
  <1> QED
    BY <1>2, <1>3

\* The rest of a sign-out, requests and answers.
LEMMA OthersKeepTypes ==
  ASSUME TypeOK, NEW b \in Browsers,
         \/ \E path \in Visited : Visit(b, path)
         \/ ClearCookie(b) \/ LogoutFails(b) \/ Lost(b)
  PROVE  TypeOK'
  <1>1. "/login" \in Paths /\ Visited \subseteq Paths
    BY SessionsAssumption DEF Paths, AuthRoutes
  <1>2. browser' \in [Browsers -> Waiting]
    BY <1>1, SentKeeps, AnswerKeeps DEF Visit, ClearCookie, LogoutFails, Lost
  <1>3. cookie' \in [Browsers -> Cookie \cup {NoCookie}]
    BY DEF TypeOK, Visit, ClearCookie, LogoutFails, Lost
  <1> QED
    BY <1>2, <1>3 DEF TypeOK, Waiting, Visit, ClearCookie, LogoutFails, Lost

\* Steps of nobody's browser.
LEMMA AroundKeepsTypes ==
  ASSUME TypeOK,
         \/ Tick
         \/ \E u \in Users : Promote(u) \/ \E s \in {"ACTIVE", "SUSPENDED"} : SetStatus(u, s)
  PROVE  TypeOK' /\ UNCHANGED <<session, cookie, browser>>
  <1>1. CASE Tick
    BY <1>1 DEF Tick, TypeOK
  <1>2. ASSUME NEW u \in Users, Promote(u)
        PROVE  TypeOK' /\ UNCHANGED <<session, cookie, browser>>
    <2>1. [role |-> "ADMINISTRATOR", status |-> "ACTIVE"] \in UserRow
      BY DEF UserRow, Roles, UserStatus
    <2>2. user' \in [Users -> UserRow]
      BY <1>2, <2>1 DEF Promote, TypeOK
    <2> QED
      BY <1>2, <2>2 DEF Promote, TypeOK
  <1>3. ASSUME NEW u \in Users, NEW s \in {"ACTIVE", "SUSPENDED"}, SetStatus(u, s)
        PROVE  TypeOK' /\ UNCHANGED <<session, cookie, browser>>
    <2>1. user[u] \in [role : Roles, status : UserStatus]
      BY <1>3, UserRows DEF SetStatus
    <2>2. [user[u] EXCEPT !.status = s] \in UserRow
      BY <2>1 DEF UserRow, UserStatus
    <2>3. user' = [user EXCEPT ![u] = [user[u] EXCEPT !.status = s]]
      BY <1>3 DEF SetStatus
    <2>4. user' \in [Users -> UserRow]
      BY <2>2, <2>3 DEF TypeOK
    <2> QED
      BY <1>3, <2>4 DEF SetStatus, TypeOK
  <1> QED
    BY <1>1, <1>2, <1>3 DEF Tick

-----------------------------------------------------------------------------
(* Cookies and rows.                                                       *)

\* A browser may go on to anything that needs no new cookie or row.
LEMMA GoesOn ==
  ASSUME SessionsInv, TypeOK', NEW b \in Browsers, NEW w,
         browser' = [browser EXCEPT ![b] = w], UNCHANGED <<now, session, cookie>>,
         w.op \notin {"issued", "leaving"},
         w.op = "passed" /\ w.path \notin AuthRoutes =>
           cookie[b] # NoCookie /\ CanAccess(cookie[b].role, w.path)
  PROVE  SessionsInv'
  <1>1. /\ browser'[b] = w
        /\ \A c \in Browsers \ {b} : browser'[c] = browser[c]
    BY DEF SessionsInv, TypeOK
  <1>2. CookiesAreGenuine'
    BY <1>1 DEF SessionsInv, CookiesAreGenuine, Genuine
  <1>3. PassedIsAllowed'
    BY <1>1 DEF SessionsInv, PassedIsAllowed
  <1>4. LeavingIsOver'
    BY <1>1 DEF SessionsInv, LeavingIsOver, Over
  <1> QED
    BY <1>2, <1>3, <1>4 DEF SessionsInv

\* The proxy lets through whom the prefix admits.
LEMMA ProxyKeeps ==
  ASSUME SessionsInv, NEW b \in Browsers, Proxy(b)
  PROVE  SessionsInv'
  <1>1. TypeOK'
    BY ProxyKeepsTypes DEF SessionsInv
  <1>2. browser[b] \in Travelling /\ browser[b].path \in Paths
    BY WaitingKinds DEF SessionsInv, TypeOK, Proxy, Travelling, Waiting
  <1>3. UNCHANGED <<now, session, cookie>>
    BY DEF Proxy
  <1>4. CASE Redirects(cookie[b], browser[b].path) = {}
    <2> DEFINE w == [browser[b] EXCEPT !.op = "passed"]
    <2>1. browser' = [browser EXCEPT ![b] = w]
      BY <1>4 DEF Proxy
    <2>2. w.op = "passed" /\ w.path = browser[b].path
      BY <1>2 DEF Travelling
    <2>3. w.path \notin AuthRoutes =>
            cookie[b] # NoCookie /\ CanAccess(cookie[b].role, w.path)
      BY <1>2, <1>4, <2>2 DEF Redirects, Verifies, Paths
    <2> HIDE DEF w
    <2> QED
      BY <1>1, <1>3, <2>1, <2>2, <2>3, GoesOn
  <1>5. CASE Redirects(cookie[b], browser[b].path) # {}
    <2>1. PICK target : Sent(b, target)
      BY <1>5 DEF Proxy
    <2> QED
      BY <1>1, <1>3, <2>1, GoesOn DEF Sent
  <1> QED
    BY <1>4, <1>5

LEMMA AuthorizeKeeps ==
  ASSUME SessionsInv, NEW b \in Browsers, Authorize(b)
  PROVE  SessionsInv'
  <1>1. TypeOK'
    BY AuthorizeKeepsTypes DEF SessionsInv
  <1>2. PICK op \in {"form", "served", "refused"} : Answer(b, op)
    BY DEF Authorize
  <1> QED
    BY <1>1, <1>2, GoesOn DEF Authorize, Answer

LEMMA LoginKeeps ==
  ASSUME SessionsInv, NEW b \in Browsers, NEW u \in Users,
         BeginLogin(b, u) \/ Register(b, u)
  PROVE  SessionsInv'
  <1>1. TypeOK'
    BY LoginKeepsTypes DEF SessionsInv
  <1>2. PICK role :
          browser' = [browser EXCEPT ![b] = [op |-> "verified", user |-> u, role |-> role]]
    BY DEF BeginLogin, Register
  <1>3. UNCHANGED <<now, session, cookie>>
    BY DEF BeginLogin, Register
  <1> QED
    BY <1>1, <1>2, <1>3, GoesOn

\* The row and its cookie are written with one user and one expiry.
LEMMA CreateSessionKeeps ==
  ASSUME SessionsInv, NEW b \in Browsers, CreateSession(b)
  PROVE  SessionsInv'
  <1> DEFINE k == [token |-> Len(session) + 1, user |-> browser[b].user,
                   role |-> browser[b].role, expires |-> now + MaxAge]
             s == SessionRow(browser[b].user)
  <1>1. /\ TypeOK' /\ k.token \in DOMAIN session' /\ session'[k.token] = s
        /\ \A i \in DOMAIN session : i \in DOMAIN session' /\ session'[i] = session[i]
    BY CreateSessionKeepsTypes DEF SessionsInv
  <1>2. s.user = k.user /\ s.expires = k.expires
    BY DEF SessionRow
  <1> HIDE DEF k, s
  <1>3. browser' = [browser EXCEPT ![b] = [op |-> "issued", cookie |-> k]] /\ cookie' = cookie
    BY DEF CreateSession, k
  <1>4. /\ browser'[b] = [op |-> "issued", cookie |-> k]
        /\ \A c \in Browsers \ {b} : browser'[c] = browser[c]
    BY <1>3 DEF SessionsInv, TypeOK
  <1>5. CookiesAreGenuine'
    BY <1>1, <1>2, <1>3, <1>4 DEF SessionsInv, CookiesAreGenuine, Genuine
  <1>6. PassedIsAllowed'
    BY <1>3, <1>4 DEF SessionsInv, PassedIsAllowed
  <1>7. LeavingIsOver'
    <2>1. now' = now
      BY DEF CreateSession
    <2> QED
      BY <1>1, <1>3, <1>4, <2>1
         DEF SessionsInv, LeavingIsOver, CookiesAreGenuine, Genuine, Over
  <1> QED
    BY <1>1, <1>5, <1>6, <1>7 DEF SessionsInv

LEMMA SetCookieKeeps ==
  ASSUME SessionsInv, NEW b \in Browsers, SetCookie(b)
  PROVE  SessionsInv' /\ cookie'[b] # NoCookie
         /\ \A c \in Browsers \ {b} : cookie'[c] = cookie[c]
  <1>1. TypeOK'
    BY SetCookieKeepsTypes DEF SessionsInv
  <1>2. browser[b].op = "issued" /\ browser[b].cookie \in Cookie
    BY WaitingKinds DEF SetCookie, SessionsInv, TypeOK, Waiting
  <1>3. /\ cookie'[b] = browser[b].cookie /\ cookie'[b] # NoCookie
        /\ \A c \in Browsers \ {b} : cookie'[c] = cookie[c]
        /\ session' = session
    BY <1>2, SessionsAssumption DEF SetCookie, SessionsInv, TypeOK
  <1>4. /\ browser'[b].op = "sent"
        /\ \A c \in Browsers \ {b} : browser'[c] = browser[c]
    BY DEF SetCookie, Sent, SessionsInv, TypeOK
  <1>5. CookiesAreGenuine'
    BY <1>2, <1>3, <1>4 DEF SessionsInv, CookiesAreGenuine, Genuine
  <1>6. PassedIsAllowed' /\ LeavingIsOver'
    BY <1>3, <1>4 DEF SessionsInv, PassedIsAllowed, LeavingIsOver, Over, SetCookie
  <1> QED
    BY <1>1, <1>3, <1>5, <1>6 DEF SessionsInv

LEMMA RevokeKeeps ==
  ASSUME SessionsInv, NEW b \in Browsers, Revoke(b)
  PROVE  SessionsInv'
  <1>1. /\ TypeOK'
        /\ cookie[b] # NoCookie =>
             session'[cookie[b].token].revoked \/ session[cookie[b].token].expires <= now
        /\ DOMAIN session' = DOMAIN session
        /\ \A i \in DOMAIN session :
             /\ session'[i].user = session[i].user
             /\ session'[i].expires = session[i].expires
             /\ session[i].revoked => session'[i].revoked
    BY RevokeKeepsTypes DEF SessionsInv
  <1>2. /\ browser'[b].op = "leaving" /\ cookie' = cookie /\ now' = now
        /\ \A c \in Browsers \ {b} : browser'[c] = browser[c]
    BY DEF Revoke, Answer, SessionsInv, TypeOK
  <1>3. CookiesAreGenuine'
    BY <1>1, <1>2 DEF SessionsInv, CookiesAreGenuine, Genuine
  <1>4. PassedIsAllowed'
    BY <1>2 DEF SessionsInv, PassedIsAllowed
  <1>5. LeavingIsOver'
    <2> SUFFICES ASSUME NEW c \in Browsers, browser'[c].op = "leaving", cookie[c] # NoCookie
                 PROVE  Over(cookie[c].token)'
      BY <1>2 DEF LeavingIsOver
    <2>1. cookie[c].token \in DOMAIN session
      BY DEF SessionsInv, CookiesAreGenuine, Genuine
    <2>2. CASE c = b
      BY <1>1, <1>2, <2>1, <2>2 DEF Over
    <2>3. CASE c # b
      <3>1. Over(cookie[c].token)
        BY <1>2, <2>3 DEF SessionsInv, LeavingIsOver
      <3> QED
        BY <1>1, <1>2, <2>1, <3>1 DEF Over
    <2> QED
      BY <2>2, <2>3
  <1> QED
    BY <1>1, <1>3, <1>4, <1>5 DEF SessionsInv

LEMMA ClearCookieKeeps ==
  ASSUME SessionsInv, NEW b \in Browsers, ClearCookie(b)
  PROVE  SessionsInv' /\ \A c \in Browsers \ {b} : cookie'[c] = cookie[c]
  <1>1. TypeOK'
    BY OthersKeepTypes DEF SessionsInv
  <1>2. /\ cookie'[b] = NoCookie /\ session' = session
        /\ \A c \in Browsers \ {b} : cookie'[c] = cookie[c]
    BY DEF ClearCookie, SessionsInv, TypeOK
  <1>3. /\ browser'[b].op = "sent"
        /\ \A c \in Browsers \ {b} : browser'[c] = browser[c]
    BY DEF ClearCookie, Sent, SessionsInv, TypeOK
  <1>4. CookiesAreGenuine' /\ PassedIsAllowed' /\ LeavingIsOver'
    BY <1>2, <1>3
       DEF SessionsInv, CookiesAreGenuine, Genuine, PassedIsAllowed, LeavingIsOver, Over,
           ClearCookie
  <1> QED
    BY <1>1, <1>2, <1>4 DEF SessionsInv

\* Asking for a page, a sign-out that fails, an answer that is lost.
LEMMA OthersKeep ==
  ASSUME SessionsInv, NEW b \in Browsers,
         (\E path \in Visited : Visit(b, path)) \/ LogoutFails(b) \/ Lost(b)
  PROVE  SessionsInv'
  <1>1. TypeOK'
    BY OthersKeepTypes DEF SessionsInv
  <1>2. (\E path : Sent(b, path)) \/ Answer(b, "nothing")
    BY DEF Visit, LogoutFails, Lost
  <1>3. UNCHANGED <<now, session, cookie>>
    BY DEF Visit, LogoutFails, Lost
  <1> QED
    BY <1>1, <1>2, <1>3, GoesOn DEF Sent, Answer

\* The invariant is inductive.
LEMMA SessionsStep ==
  ASSUME SessionsInv, [Next]_vars
  PROVE  SessionsInv'
  <1>1. CASE \/ Tick
             \/ \E u \in Users : \/ Promote(u)
                                 \/ \E s \in {"ACTIVE", "SUSPENDED"} : SetStatus(u, s)
    <2>1. TypeOK' /\ UNCHANGED <<session, cookie, browser>>
      BY <1>1, AroundKeepsTypes DEF SessionsInv
    <2>2. CookiesAreGenuine' /\ PassedIsAllowed'
      BY <2>1 DEF SessionsInv, CookiesAreGenuine, Genuine, PassedIsAllowed
    <2>3. now \in Nat /\ now' \in Nat /\ now <= now'
      BY <1>1 DEF SessionsInv, TypeOK, Tick, Promote, SetStatus
    <2>4. ASSUME NEW b \in Browsers, cookie[b] # NoCookie, Over(cookie[b].token)
          PROVE  Over(cookie[b].token)'
      <3>1. session[cookie[b].token] \in Session
        BY <2>4 DEF SessionsInv, CookiesAreGenuine, Genuine, TypeOK
      <3> QED
        BY <2>1, <2>3, <2>4, <3>1 DEF Over, Session
    <2>5. LeavingIsOver'
      BY <2>1, <2>4 DEF SessionsInv, LeavingIsOver
    <2> QED
      BY <2>1, <2>2, <2>5 DEF SessionsInv
  <1>2. CASE UNCHANGED vars
    BY <1>2 DEF vars, SessionsInv, TypeOK, CookiesAreGenuine, Genuine, PassedIsAllowed,
                LeavingIsOver, Over
  <1> QED
    BY <1>1, <1>2, ProxyKeeps, AuthorizeKeeps, LoginKeeps, CreateSessionKeeps,
       SetCookieKeeps, RevokeKeeps, ClearCookieKeeps, OthersKeep DEF Next

\* It holds at the start.
LEMMA SessionsStart ==
  ASSUME Init
  PROVE  SessionsInv
  <1>1. TypeOK
    BY SessionsAssumption DEF Init, TypeOK, Answered
  <1> QED
    BY <1>1 DEF Init, SessionsInv, CookiesAreGenuine, PassedIsAllowed, LeavingIsOver

-----------------------------------------------------------------------------
\* Types of the users, sessions, cookies and requests.
THEOREM SessionsTypeCorrect == Spec => []TypeOK
  <1>1. SessionsInv => TypeOK
    BY DEF SessionsInv
  <1> QED
    BY <1>1, SessionsStart, SessionsStep, PTL DEF Spec

\* The matrix, the guards and the proxy's prefixes agree for whoever has an
\* account (src/lib/permissions/index.ts and the actions that name roles).
THEOREM TablesAlwaysAgree == Spec => []TablesAgree
  <1>1. SessionsInv => TablesAgree
    BY UserRows, PrefixesAgree, HomesAgree, GuardsAgree DEF SessionsInv, TablesAgree
  <1> QED
    BY <1>1, SessionsStart, SessionsStep, PTL DEF Spec

\* The requests that requireRole decides.
LEMMA Authorized ==
  ASSUME SessionsInv, [Next]_vars, NEW b \in Browsers, browser[b].op = "passed",
         browser'[b].op \in {"served", "refused"}
  PROVE  /\ Authorize(b) /\ browser[b].path \in Portals
         /\ browser'[b].op = "served" =>
              /\ Verifies(cookie[b])
              /\ Resolved(cookie[b]) \cap PageGuard[browser[b].path] # {}
         /\ browser'[b].op = "refused" =>
              \/ ~Verifies(cookie[b])
              \/ Resolved(cookie[b]) \cap PageGuard[browser[b].path] = {}
  <1>0. browser \in [Browsers -> Waiting] /\ browser[b].path \in Paths
    BY WaitingKinds DEF SessionsInv, TypeOK, Waiting, Travelling
  <1>1. Authorize(b)
    <2>1. ASSUME NEW c \in Browsers \ {b}, NEW w, browser' = [browser EXCEPT ![c] = w]
          PROVE  FALSE
      BY <1>0, <2>1
    <2>2. browser' # browser
      BY DEF vars
    <2>3. ASSUME NEW w, browser' = [browser EXCEPT ![b] = w], w.op \notin {"served", "refused"}
          PROVE  FALSE
      BY <1>0, <2>3
    <2>4. ASSUME NEW c \in Browsers, c # b,
                 \/ \E path \in Visited : Visit(c, path)
                 \/ Authorize(c) \/ SetCookie(c) \/ Revoke(c) \/ ClearCookie(c)
                 \/ LogoutFails(c) \/ Lost(c) \/ CreateSession(c)
                 \/ \E u \in Users : BeginLogin(c, u) \/ Register(c, u)
          PROVE  FALSE
      BY <2>1, <2>4
         DEF Visit, Sent, Answer, Authorize, SetCookie, Revoke, ClearCookie, LogoutFails,
             Lost, CreateSession, BeginLogin, Register
    <2>5. ASSUME NEW c \in Browsers, Proxy(c)
          PROVE  FALSE
      <3>1. c # b
        BY <2>5 DEF Proxy
      <3>2. \/ browser' = [browser EXCEPT ![c].op = "passed"]
            \/ \E target : Sent(c, target)
        BY <2>5 DEF Proxy
      <3> QED
        BY <1>0, <3>1, <3>2 DEF Sent
    <2>6. ~Lost(b)
      BY <2>3 DEF Lost, Answer
    <2>7. browser[b] \notin Answered
      BY DEF Answered
    <2> QED
      BY <2>2, <2>4, <2>5, <2>6, <2>7
         DEF Next, Tick, Promote, SetStatus, vars, Visit, BeginLogin, Register,
             CreateSession, SetCookie, Revoke, ClearCookie, LogoutFails
  <1>2. browser'[b].op =
          IF browser[b].path \in AuthRoutes THEN "form"
          ELSE IF (IF Verifies(cookie[b]) THEN Resolved(cookie[b]) ELSE {})
                    \cap PageGuard[browser[b].path] # {} THEN "served"
          ELSE "refused"
    BY <1>0, <1>1 DEF Authorize, Answer
  <1>3. browser[b].path \notin AuthRoutes
    BY <1>2
  <1> QED
    BY <1>0, <1>1, <1>2, <1>3 DEF Paths

\* getActor and requireRole let nobody in on a session that was revoked, for an
\* account that is not active or in a role it has lost.
THEOREM ServedByTheTables == Spec => ServedAsOfNow
  <1> DEFINE A == \A b \in Browsers :
                    browser'[b].op = "served" /\ browser[b].op = "passed" =>
                      /\ Holder(b).status = "ACTIVE"
                      /\ ~session[cookie[b].token].revoked
                      /\ Holder(b).role \in PageGuard[browser[b].path]
  <1>1. ASSUME SessionsInv, [Next]_vars
        PROVE  A
    BY <1>1, Authorized DEF Resolved, Holder
  <1> QED
    BY <1>1, SessionsStart, SessionsStep, PTL DEF Spec, ServedAsOfNow

\* Who is past the proxy is refused by the page only when something has changed
\* since the cookie was issued.
THEOREM RefusalsHaveReasons == Spec => RefusedForAReason
  <1> DEFINE A == \A b \in Browsers :
                    browser'[b].op = "refused" /\ browser[b].op = "passed" =>
                      \/ ~Verifies(cookie[b])
                      \/ session[cookie[b].token].revoked
                      \/ Holder(b).status # "ACTIVE"
                      \/ Holder(b).role # cookie[b].role
  <1>1. ASSUME SessionsInv, [Next]_vars
        PROVE  A
    <2> SUFFICES ASSUME NEW b \in Browsers, browser[b].op = "passed",
                        browser'[b].op = "refused", Verifies(cookie[b]),
                        ~session[cookie[b].token].revoked,
                        Holder(b).status = "ACTIVE", Holder(b).role = cookie[b].role
                 PROVE  FALSE
      OBVIOUS
    <2>1. /\ browser[b].path \in Portals
          /\ Resolved(cookie[b]) \cap PageGuard[browser[b].path] = {}
      BY <1>1, Authorized
    <2>2. cookie[b] \in Cookie /\ Genuine(cookie[b])
      BY <1>1 DEF Verifies, SessionsInv, TypeOK, CookiesAreGenuine
    <2>3. Resolved(cookie[b]) = {cookie[b].role}
      BY <2>2 DEF Resolved, Verifies, Genuine, Holder
    <2>4. browser[b].path \notin AuthRoutes
      BY <2>1, PortalNames DEF AuthRoutes
    <2>5. CanAccess(cookie[b].role, browser[b].path)
      BY <1>1, <2>4 DEF SessionsInv, PassedIsAllowed
    <2>6. cookie[b].role \in PageGuard[browser[b].path]
      BY <2>1, <2>2, <2>5, PrefixesAgree DEF Cookie
    <2> QED
      BY <2>1, <2>3, <2>6
  <1> QED
    BY <1>1, SessionsStart, SessionsStep, PTL DEF Spec, RefusedForAReason

\* destroySession revokes the row before the cookie goes, if it has not ended, and
\* a logout that fails keeps both.
THEOREM CookiesGoLast == Spec => SignedOutForGood
  <1> DEFINE A == \A b \in Browsers : cookie[b] # NoCookie /\ cookie'[b] = NoCookie =>
                    Over(cookie[b].token)
  <1>1. ASSUME SessionsInv, [Next]_vars
        PROVE  A
    <2> SUFFICES ASSUME NEW b \in Browsers, cookie[b] # NoCookie, cookie'[b] = NoCookie
                 PROVE  Over(cookie[b].token)
      OBVIOUS
    <2>1. PICK c \in Browsers : SetCookie(c) \/ ClearCookie(c)
      BY <1>1 DEF Next, Tick, Promote, SetStatus, vars, Visit, Proxy, Authorize, BeginLogin,
                  Register, CreateSession, Revoke, LogoutFails, Lost
    <2>2. ClearCookie(b)
      BY <1>1, <2>1, SetCookieKeeps, ClearCookieKeeps
    <2> QED
      BY <1>1, <2>2 DEF ClearCookie, SessionsInv, LeavingIsOver
  <1> QED
    BY <1>1, SessionsStart, SessionsStep, PTL DEF Spec, SignedOutForGood

=============================================================================
