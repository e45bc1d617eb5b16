------------------------------ MODULE Sessions ------------------------------
(***************************************************************************)
(* Signing in, being let in, and signing out (src/lib/auth/session.ts,     *)
(* src/lib/auth/dal.ts, src/proxy.ts, src/app/(auth)/actions.ts).          *)
(*                                                                         *)
(* A session is a row of the database and a signed cookie that names it.   *)
(* The cookie repeats the user's role and the expiry; the proxy believes   *)
(* the cookie, the data access layer asks the database.  Between the two,  *)
(* and between any two statements of a login, the user row may change.     *)
(*                                                                         *)
(* A browser has one request on its way at a time; browsers are            *)
(* independent.  Passwords are right (a wrong one changes nothing), and    *)
(* tokens do not repeat: a token is the index of its row.                  *)
(***************************************************************************)
EXTENDS Integers, Sequences, Permissions

CONSTANTS
  Users,        \* user ids
  OpeningUser,  \* the rows there are at the start, or those yet to register
  Browsers,
  Visited,      \* bound: the paths visitors ask for
  MaxAge,       \* SESSION_MAX_AGE_DAYS
  MaxTime,      \* bound: days that pass
  MaxSessions,  \* bound: session rows
  NoCookie

Portals == DOMAIN PageGuard
\* /login stands for the pages a signed-in visitor is sent away from.
AuthRoutes == {"/login"}
Paths == Portals \cup AuthRoutes

UserStatus == {"ACTIVE", "INACTIVE", "SUSPENDED", "PENDING_ACTIVATION"}

Unregistered == [role |-> "CUSTOMER", status |-> "NONE"]

UserRow == [role : Roles, status : UserStatus] \cup {Unregistered}

Session == [user : Users, expires : Nat, revoked : BOOLEAN]
Cookie == [token : Nat \ {0}, user : Users, role : Roles, expires : Nat]

ASSUME SessionsAssumption ==
  /\ NoCookie \notin Cookie
  /\ OpeningUser \subseteq [Users -> UserRow]
  /\ Visited \subseteq Paths
  /\ MaxAge \in Nat \ {0}
  /\ MaxTime \in Nat
  /\ MaxSessions \in Nat

VARIABLES
  now,      \* the day
  user,     \* the users table
  session,  \* the sessions table, by token
  cookie,   \* fnet_session in each browser
  browser   \* what each browser waits for, or was answered

vars == <<now, user, session, cookie, browser>>

\* The request is over: "refused" is the 401 page or the 403 page.
Answered == [op : {"nothing", "form", "served", "refused"}]
\* A request for a page or an action: at the proxy, or past it.
Travelling == [op : {"sent", "passed"}, path : Paths]
\* A login that has read the user row, then one that has created its session.
SigningIn == [op : {"verified"}, user : Users, role : Roles]
                \cup [op : {"issued"}, cookie : Cookie]
Leaving == [op : {"leaving"}]

TypeOK ==
  /\ now \in Nat
  /\ user \in [Users -> UserRow]
  /\ session \in Seq(Session)
  /\ cookie \in [Browsers -> Cookie \cup {NoCookie}]
  /\ browser \in [Browsers -> Answered \cup Travelling \cup SigningIn \cup Leaving]

Init ==
  /\ now = 0
  /\ user \in OpeningUser
  /\ session = <<>>
  /\ cookie = [b \in Browsers |-> NoCookie]
  /\ browser = [b \in Browsers |-> [op |-> "nothing"]]

Sent(b, path) == browser' = [browser EXCEPT ![b] = [op |-> "sent", path |-> path]]

Answer(b, op) == browser' = [browser EXCEPT ![b] = [op |-> op]]

-----------------------------------------------------------------------------
(* Checks.                                                                 *)

\* verifySessionCookie: signature and expiry, no database.
Verifies(k) == k # NoCookie /\ now < k.expires

\* Mutant of Resolved: the role is the cookie's, the account's status ignored.
ResolvedFromCookie(k) ==
  LET s == session[k.token]
  IN  IF ~s.revoked /\ now < s.expires /\ s.user = k.user
        THEN {k.role} ELSE {}

\* resolveSession: the role of the user the cookie's session stands for, in a
\* set that is empty when there is no such session any more.
Resolved(k) ==
  LET s == session[k.token]
  IN  IF /\ ~s.revoked /\ now < s.expires /\ s.user = k.user
         /\ user[s.user].status = "ACTIVE"
        THEN {user[s.user].role} ELSE {}

\* Mutant of Redirects: the pages for signing in look whether there is a cookie,
\* the portals whether it is valid.
RedirectsIfPresent(k, path) ==
  IF path \in AuthRoutes
    THEN IF k = NoCookie THEN {} ELSE {RoleHome(k.role)}
    ELSE IF ~Verifies(k) THEN {"/login"}
         ELSE IF CanAccess(k.role, path) THEN {} ELSE {RoleHome(k.role)}

\* Where the proxy sends a request instead of letting it through.
Redirects(k, path) ==
  IF ~Verifies(k)
    THEN IF path \in Portals THEN {"/login"} ELSE {}
    ELSE IF path \in AuthRoutes \/ ~CanAccess(k.role, path)
           THEN {RoleHome(k.role)} ELSE {}

-----------------------------------------------------------------------------
(* A visit.                                                                *)

Visit(b, path) ==
  /\ browser[b] \in Answered
  /\ Sent(b, path)
  /\ UNCHANGED <<now, user, session, cookie>>

Proxy(b) ==
  /\ browser[b].op = "sent"
  /\ LET path == browser[b].path
         elsewhere == Redirects(cookie[b], path)
     IN  IF elsewhere = {}
           THEN browser' = [browser EXCEPT ![b].op = "passed"]
           ELSE \E target \in elsewhere : Sent(b, target)
  /\ UNCHANGED <<now, user, session, cookie>>

\* getActor and requireRole, on the cookie the proxy let through; the login
\* and register pages ask for nobody.
Authorize(b) ==
  /\ browser[b].op = "passed"
  /\ LET path == browser[b].path
         role == IF Verifies(cookie[b]) THEN Resolved(cookie[b]) ELSE {}
     IN  Answer(b, IF path \in AuthRoutes THEN "form"
                   ELSE IF role \cap PageGuard[path] # {} THEN "served"
                   ELSE "refused")
  /\ UNCHANGED <<now, user, session, cookie>>

-----------------------------------------------------------------------------
(* Signing in.  The forms are posted through the proxy, which turns away a *)
(* browser that has a valid cookie.                                        *)

\* The user row is read and its status found ACTIVE; bcrypt takes its time.
BeginLogin(b, u) ==
  /\ browser[b].op = "form" /\ ~Verifies(cookie[b])
  /\ user[u].status = "ACTIVE"
  /\ browser' = [browser EXCEPT ![b] =
                   [op |-> "verified", user |-> u, role |-> user[u].role]]
  /\ UNCHANGED <<now, user, session, cookie>>

\* registerCustomer has committed; it returns the id and the role.
Register(b, u) ==
  /\ browser[b].op = "form" /\ ~Verifies(cookie[b])
  /\ user[u] = Unregistered
  /\ user' = [user EXCEPT ![u] = [role |-> "CUSTOMER", status |-> "ACTIVE"]]
  /\ browser' = [browser EXCEPT ![b] =
                   [op |-> "verified", user |-> u, role |-> "CUSTOMER"]]
  /\ UNCHANGED <<now, session, cookie>>

\* Mutant of SessionRow: a row that ends before its cookie.
SessionRowShort(u) ==
  [user |-> u, expires |-> now + MaxAge - 1, revoked |-> FALSE]

SessionRow(u) == [user |-> u, expires |-> now + MaxAge, revoked |-> FALSE]

\* createSession: the row, then the cookie, with one expiry.
CreateSession(b) ==
  /\ browser[b].op = "verified"
  /\ Len(session) < MaxSessions /\ now + MaxAge <= MaxTime
  /\ session' = Append(session, SessionRow(browser[b].user))
  /\ browser' = [browser EXCEPT ![b] =
                   [op |-> "issued",
                    cookie |-> [token |-> Len(session) + 1,
                                user |-> browser[b].user,
                                role |-> browser[b].role,
                                expires |-> now + MaxAge]]]
  /\ UNCHANGED <<now, user, cookie>>

\* The answer arrives with the cookie, and a redirect: to the role's portal,
\* or to the path the visitor first wanted.
SetCookie(b) ==
  /\ browser[b].op = "issued"
  /\ cookie' = [cookie EXCEPT ![b] = browser[b].cookie]
  /\ \E path \in {RoleHome(browser[b].cookie.role)} \cup (Visited \cap Portals) :
       Sent(b, path)
  /\ UNCHANGED <<now, user, session>>

-----------------------------------------------------------------------------
(* Signing out, from a page of a portal.                                   *)

\* destroySession revokes the row the cookie names, unless the cookie no longer
\* verifies, then clears the cookie.
Revoke(b) ==
  /\ browser[b].op = "served"
  /\ session' = IF Verifies(cookie[b])
                  THEN [session EXCEPT ![cookie[b].token].revoked = TRUE]
                  ELSE session
  /\ Answer(b, "leaving")
  /\ UNCHANGED <<now, user, cookie>>

ClearCookie(b) ==
  /\ browser[b].op = "leaving"
  /\ cookie' = [cookie EXCEPT ![b] = NoCookie]
  /\ Sent(b, "/login")
  /\ UNCHANGED <<now, user, session>>

\* Mutant of LogoutFails: the cookie goes although its session stays.
LogoutFailsQuietly(b) ==
  /\ browser[b].op = "served" /\ Verifies(cookie[b])
  /\ cookie' = [cookie EXCEPT ![b] = NoCookie]
  /\ Sent(b, "/login")
  /\ UNCHANGED <<now, user, session>>

\* The update failed: logout logs it and redirects with the cookie in place.
LogoutFails(b) ==
  /\ browser[b].op = "served" /\ Verifies(cookie[b])
  /\ Sent(b, "/login")
  /\ UNCHANGED <<now, user, session, cookie>>

-----------------------------------------------------------------------------
(* Around the requests.                                                    *)

\* The server dies, or its answer is lost: a row may be left without cookie,
\* a customer without session, a revoked session with its cookie.
Lost(b) ==
  /\ browser[b] \notin Answered
  /\ Answer(b, "nothing")
  /\ UNCHANGED <<now, user, session, cookie>>

\* An administrator edits the row; the code has no operation for it.
SetStatus(u, status) ==
  /\ user[u] # Unregistered
  /\ user' = [user EXCEPT ![u].status = status]
  /\ UNCHANGED <<now, session, cookie, browser>>

\* prisma/create-admin.ts, for an address that has an account or has none.
Promote(u) ==
  /\ user' = [user EXCEPT ![u] = [role |-> "ADMINISTRATOR", status |-> "ACTIVE"]]
  /\ UNCHANGED <<now, session, cookie, browser>>

Tick ==
  /\ now < MaxTime
  /\ now' = now + 1
  /\ UNCHANGED <<user, session, cookie, browser>>

Next ==
  \/ Tick
  \/ \E u \in Users : Promote(u) \/ \E s \in {"ACTIVE", "SUSPENDED"} : SetStatus(u, s)
  \/ \E b \in Browsers :
       \/ \E path \in Visited : Visit(b, path)
       \/ Proxy(b) \/ Authorize(b)
       \/ \E u \in Users : BeginLogin(b, u) \/ Register(b, u)
       \/ CreateSession(b) \/ SetCookie(b)
       \/ Revoke(b) \/ ClearCookie(b) \/ LogoutFails(b)
       \/ Lost(b)

Spec == Init /\ [][Next]_vars

\* The server answers a request it has received.
FairSpec == Spec /\ \A b \in Browsers : WF_vars(Proxy(b) \/ Authorize(b))

-----------------------------------------------------------------------------
\* The user a cookie stands for, as the tables have it now.
Holder(b) == user[session[cookie[b].token].user]

\* Nobody gets past the data access layer on a session that was revoked, on
\* behalf of an account that is not active any more, or in a role the account
\* has lost, although the proxy and the cookie still say otherwise and a login
\* may create its session after the account was suspended.
ServedAsOfNow ==
  [][\A b \in Browsers : browser'[b].op = "served" /\ browser[b].op = "passed" =>
       /\ Holder(b).status = "ACTIVE"
       /\ ~session[cookie[b].token].revoked
       /\ Holder(b).role \in PageGuard[browser[b].path]]_vars

\* Whoever the proxy lets through is refused by the page only for a reason that
\* came up since the cookie was issued: the session was revoked or has ended,
\* or the account was suspended or has changed its role.  The proxy's prefixes,
\* the pages' guards and the two expiries agree.
RefusedForAReason ==
  [][\A b \in Browsers : browser'[b].op = "refused" /\ browser[b].op = "passed" =>
       \/ ~Verifies(cookie[b])
       \/ session[cookie[b].token].revoked
       \/ Holder(b).status # "ACTIVE"
       \/ Holder(b).role # cookie[b].role]_vars

\* A browser gives up its cookie only when the session behind it is over, revoked
\* or at its end, also when the database refused the revocation and when the
\* cookie expired on the way, so that nothing was revoked.
Over(token) == session[token].revoked \/ session[token].expires <= now
SignedOutForGood ==
  [][\A b \in Browsers : cookie[b] # NoCookie /\ cookie'[b] = NoCookie =>
       Over(cookie[b].token)]_vars

\* Redirects come to an end, whatever role a cookie gives and whenever it
\* expires on the way: each request is answered, or lost.
EveryVisitAnswered ==
  \A b \in Browsers : browser[b].op = "sent" ~> browser[b].op \notin {"sent", "passed"}

\* The three tables agree for whoever has an account, in whatever role: no server
\* action lets a user in whom the matrix does not give the operation to (the
\* guards name roles and never look at the matrix), the proxy lets a user browse
\* exactly the portals whose pages accept him or her, and nobody is sent to a
\* home that refuses its owner.
TablesAgree ==
  \A u \in Users : user[u] # Unregistered =>
    LET role == user[u].role
    IN  /\ \A a \in ServerActions : role \in a.guard => MayPerform(role, a.permission)
        /\ \A path \in Portals : CanAccess(role, path) <=> role \in PageGuard[path]
        /\ CanAccess(role, RoleHome(role))

=============================================================================
