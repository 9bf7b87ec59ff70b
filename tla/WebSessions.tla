---------------------------- MODULE WebSessions -----------------------------
(***************************************************************************)
(* The browser's session with customer-web (internal/customerweb: Handler  *)
(* over PostgresSessionStore).  A cookie names a row that keeps the        *)
(* customer's tokens at the identity service: a login, and the rotation of *)
(* the refresh token last received for it.  The identity service takes a   *)
(* refresh token once; one presented a second time ends the login, and the *)
(* customer is signed out everywhere.                                      *)
(*                                                                         *)
(* A request reads the row and only then asks the identity service; the    *)
(* row is not locked between the two.  What keeps two refreshes of one     *)
(* browser apart is a lease on the row, which names no owner and lasts 30  *)
(* seconds, and that a refreshed session moves to a new cookie.            *)
(***************************************************************************)
EXTENDS Integers

CONSTANTS
  MaxLogins,           \* bound: the sign-ins that the identity service grants
  MaxCookies,          \* bound: cookies that are minted
  MaxRotation,         \* bound: refreshes of a login
  Requests             \* the requests that may be in progress at once

VARIABLES
  row,        \* customer_web.sessions by cookie
  browser,    \* the cookie the browser holds, or 0
  minted,     \* how many cookies were minted
  login,      \* the identity service's session: granted, rotation, ended
  request,    \* the requests in progress: what each has read and is about to do
  reused,     \* the logins for which a spent refresh token was presented
  excused,    \* the logins for which an answer was lost, a process died, a
              \* lease was outlived, or a call that ends them failed
  dropped     \* the logins whose answer was thrown away and that nobody revoked

vars == <<row, browser, minted, login, request, reused, excused, dropped>>

Cookies == 1..MaxCookies
Logins == 1..MaxLogins
Guest == 0
NoRow == [is |-> "NONE"]
Idle == [at |-> "IDLE"]
Known(c) == c \in Cookies /\ row[c].is = "ROW"

Init ==
  /\ row = [c \in Cookies |-> NoRow] /\ browser = 0 /\ minted = 0
  /\ login = [l \in Logins |-> [granted |-> FALSE, rotation |-> 0, ended |-> FALSE]]
  /\ request = [r \in Requests |-> Idle] /\ reused = {} /\ excused = {} /\ dropped = {}

-----------------------------------------------------------------------------
(* The identity service, as this code uses it.                             *)

\* POST /v1/auth/revoke: any token of the login ends it.  Its error is ignored.
Revoke(l, ok) ==
  /\ login' = IF l \in Logins /\ ok THEN [login EXCEPT ![l].ended = TRUE] ELSE login
  /\ excused' = IF l \in Logins /\ ~ok THEN excused \union {l} ELSE excused

-----------------------------------------------------------------------------
(* The session store.                                                      *)

NewSession(l, k) == [is |-> "ROW", login |-> l, rotation |-> k, lease |-> "FREE",
                     expired |-> FALSE]

resolve(c) == Known(c) /\ ~row[c].expired

\* One transaction: the old row is deleted, which fails when it is gone, and
\* the new one is inserted under a fresh cookie.
Replace(old, session) ==
  /\ minted < MaxCookies /\ minted' = minted + 1
  /\ row' = [row EXCEPT ![old] = NoRow, ![minted + 1] = session]

Create(session) ==
  /\ minted < MaxCookies /\ minted' = minted + 1
  /\ row' = [row EXCEPT ![minted + 1] = session]

Delete(c) == row' = [row EXCEPT ![c] = NoRow]

\* Mutant: whoever asks is given the lease.
AcquireRefreshAnyway(c) == resolve(c) /\ row' = [row EXCEPT ![c].lease = "HELD"]

AcquireRefresh(c) ==
  /\ resolve(c) /\ row[c].lease # "HELD"
  /\ row' = [row EXCEPT ![c].lease = "HELD"]

\* The lease is anyone's: it is cleared by cookie.
Released(rows, c) == IF rows[c].is = "ROW" THEN [rows EXCEPT ![c].lease = "FREE"] ELSE rows
ReleaseRefresh(c) == row' = Released(row, c)

-----------------------------------------------------------------------------
(* POST /web/v1/customer/session                                           *)

\* resolveOptional.  A guest's session that lasts is answered as it is.
CreateStarts(r, mode) ==
  /\ request[r] = Idle /\ minted < MaxCookies
  /\ ~(mode = "GUEST" /\ resolve(browser) /\ row[browser].login = Guest)
  /\ request' = [request EXCEPT ![r] =
                   [at |-> "ASK", op |-> "CREATE", mode |-> mode,
                    cookie |-> IF resolve(browser) THEN browser ELSE 0,
                    login |-> IF resolve(browser) THEN row[browser].login ELSE Guest]]
  /\ UNCHANGED <<row, browser, minted, login, reused, excused, dropped>>

\* CreateGuest, or Exchange: the identity service starts a login.
Ask(r) ==
  LET q == request[r]
  IN  /\ q.at = "ASK" /\ q.op = "CREATE"
      /\ \/ /\ q.mode = "GUEST"
            /\ request' = [request EXCEPT ![r] = [at |-> "WRITE", op |-> "CREATE", cookie |-> q.cookie,
                                                  login |-> q.login, new |-> Guest]]
            /\ UNCHANGED login
         \/ /\ q.mode # "GUEST"
            /\ \E l \in Logins :
                 /\ ~login[l].granted /\ \A j \in 1..l - 1 : login[j].granted
                 /\ login' = [login EXCEPT ![l].granted = TRUE]
                 /\ request' = [request EXCEPT ![r] = [at |-> "WRITE", op |-> "CREATE",
                                  cookie |-> q.cookie, login |-> q.login, new |-> l]]
      /\ UNCHANGED <<row, browser, minted, reused, excused, dropped>>

\* The login is granted and its answer does not arrive, or is for another country
\* or not a session that validPlatformSession takes (a role that is not a
\* customer's, say): the request is answered and nobody revokes the login.
AskThrownAway(r) ==
  /\ request[r].at = "ASK" /\ request[r].op = "CREATE" /\ request[r].mode # "GUEST"
  /\ \E l \in Logins :
       /\ ~login[l].granted /\ \A j \in 1..l - 1 : login[j].granted
       /\ login' = [login EXCEPT ![l].granted = TRUE] /\ dropped' = dropped \union {l}
  /\ request' = [request EXCEPT ![r] = Idle]
  /\ UNCHANGED <<row, browser, minted, reused, excused>>

AskFails(r) ==
  /\ request[r].at = "ASK" /\ request[r].op = "CREATE"
  /\ request' = [request EXCEPT ![r] = Idle]
  /\ UNCHANGED <<row, browser, minted, login, reused, excused, dropped>>

\* The session it replaces is revoked once the new row is there.
CreateWrites(r) ==
  LET q == request[r]
      session == NewSession(q.new, 0)
  IN  /\ q.at = "WRITE" /\ q.op = "CREATE"
      /\ \/ q.cookie = 0 /\ Create(session)
         \/ q.cookie # 0 /\ Known(q.cookie) /\ Replace(q.cookie, session)
      /\ request' = [request EXCEPT ![r] = [at |-> "REVOKE", op |-> "CREATE", login |-> q.login,
                                            made |-> minted']]
      /\ UNCHANGED <<browser, login, reused, excused, dropped>>

\* Mutant: the login that nobody will hold is left alone.
CreateFailsQuietly(r) ==
  LET q == request[r]
  IN  /\ q.at = "WRITE" /\ q.op = "CREATE" /\ q.cookie # 0 /\ ~Known(q.cookie)
      /\ request' = [request EXCEPT ![r] = Idle]
      /\ UNCHANGED <<row, browser, minted, login, reused, excused, dropped>>

\* The row was replaced or deleted since it was read: no session, and the
\* login just granted is given up.
CreateFails(r) ==
  LET q == request[r]
  IN  /\ q.at = "WRITE" /\ q.op = "CREATE" /\ q.cookie # 0 /\ ~Known(q.cookie)
      /\ \E ok \in BOOLEAN : Revoke(q.new, ok)
      /\ request' = [request EXCEPT ![r] = Idle]
      /\ UNCHANGED <<row, browser, minted, reused, dropped>>

CreateRevokes(r) ==
  /\ request[r].at = "REVOKE" /\ request[r].op = "CREATE"
  /\ \E ok \in BOOLEAN : Revoke(request[r].login, ok)
  /\ browser' = request[r].made
  /\ request' = [request EXCEPT ![r] = Idle]
  /\ UNCHANGED <<row, minted, reused, dropped>>

-----------------------------------------------------------------------------
(* POST /web/v1/customer/session/refresh                                   *)

RefreshStarts(r) ==
  /\ request[r] = Idle /\ minted < MaxCookies
  /\ resolve(browser) /\ row[browser].login # Guest
  /\ request' = [request EXCEPT ![r] = [at |-> "ACQUIRE", op |-> "REFRESH", cookie |-> browser,
                                        login |-> row[browser].login,
                                        rotation |-> row[browser].rotation]]
  /\ UNCHANGED <<row, browser, minted, login, reused, excused, dropped>>

Acquire(r) ==
  /\ request[r].at = "ACQUIRE"
  /\ AcquireRefresh(request[r].cookie)
  /\ request' = [request EXCEPT ![r].at = "PRESENT"]
  /\ UNCHANGED <<browser, minted, login, reused, excused, dropped>>

\* Another refresh holds the lease, or the row is gone.
AcquireRefused(r) ==
  /\ request[r].at = "ACQUIRE"
  /\ resolve(request[r].cookie) => row[request[r].cookie].lease = "HELD"
  /\ request' = [request EXCEPT ![r] = Idle]
  /\ UNCHANGED <<row, browser, minted, login, reused, excused, dropped>>

\* The identity service rotates the token, and its answer arrives or is lost.
Present(r) ==
  LET q == request[r]
      l == q.login
  IN  /\ q.at = "PRESENT" /\ ~login[l].ended /\ login[l].rotation = q.rotation
      /\ login[l].rotation < MaxRotation
      /\ login' = [login EXCEPT ![l].rotation = @ + 1]
      /\ \/ /\ request' = [request EXCEPT ![r].at = "REPLACE"]
            /\ UNCHANGED <<row, excused>>
         \/ /\ request' = [request EXCEPT ![r] = Idle]      \* retryable: the row stays
            /\ excused' = excused \union {l}
            /\ ReleaseRefresh(q.cookie)
      /\ UNCHANGED <<browser, minted, reused, dropped>>

\* The answer is an error below 500 (also a good one that is too long to read), or
\* a pair that validTokenPair refuses: the row is deleted and nobody revokes the
\* login, whether its token was rotated or not.
PresentThrownAway(r) ==
  LET q == request[r]
      l == q.login
  IN  /\ q.at = "PRESENT" /\ ~login[l].ended /\ login[l].rotation = q.rotation
      /\ \/ UNCHANGED login
         \/ login[l].rotation < MaxRotation /\ login' = [login EXCEPT ![l].rotation = @ + 1]
      /\ dropped' = dropped \union {l} /\ Delete(q.cookie) /\ browser' = 0
      /\ request' = [request EXCEPT ![r] = Idle]
      /\ UNCHANGED <<minted, reused, excused>>

PresentFails(r) ==
  /\ request[r].at = "PRESENT"
  /\ ReleaseRefresh(request[r].cookie)
  /\ request' = [request EXCEPT ![r] = Idle]
  /\ UNCHANGED <<browser, minted, login, reused, excused, dropped>>

\* A token that was spent, or a login that has ended: the row is deleted and
\* the browser's cookie cleared.
PresentRefused(r) ==
  LET q == request[r]
      l == q.login
  IN  /\ q.at = "PRESENT"
      /\ login[l].ended \/ login[l].rotation # q.rotation
      /\ login' = [login EXCEPT ![l].ended = TRUE]
      /\ reused' = IF ~login[l].ended THEN reused \union {l} ELSE reused
      /\ Delete(q.cookie) /\ browser' = 0
      /\ request' = [request EXCEPT ![r] = Idle]
      /\ UNCHANGED <<minted, excused, dropped>>

RefreshReplaces(r) ==
  LET q == request[r]
  IN  /\ q.at = "REPLACE" /\ Known(q.cookie)
      /\ Replace(q.cookie, NewSession(q.login, q.rotation + 1))
      /\ browser' = minted'
      /\ request' = [request EXCEPT ![r] = Idle]
      /\ UNCHANGED <<login, reused, excused, dropped>>

\* The row was deleted meanwhile, or the database does not answer: the new
\* token is given up, and the row, if there is one, keeps the spent token.
RefreshFails(r) ==
  LET q == request[r]
  IN  /\ q.at = "REPLACE"
      /\ \E ok \in BOOLEAN : Revoke(q.login, ok)
      /\ ReleaseRefresh(q.cookie)
      /\ request' = [request EXCEPT ![r] = Idle]
      /\ UNCHANGED <<browser, minted, reused, dropped>>

-----------------------------------------------------------------------------
(* DELETE /web/v1/customer/session                                         *)

DeleteStarts(r) ==
  /\ request[r] = Idle /\ resolve(browser)
  /\ request' = [request EXCEPT ![r] = [at |-> "REVOKE", op |-> "DELETE", cookie |-> browser,
                                        login |-> row[browser].login]]
  /\ UNCHANGED <<row, browser, minted, login, reused, excused, dropped>>

DeleteRevokes(r) ==
  /\ request[r].at = "REVOKE" /\ request[r].op = "DELETE"
  /\ \E ok \in BOOLEAN : Revoke(request[r].login, ok)
  /\ request' = [request EXCEPT ![r].at = "DELETE"]
  /\ UNCHANGED <<row, browser, minted, reused, dropped>>

\* Deleted or already gone, the customer is told that the session is closed.
DeleteSession(r) ==
  /\ request[r].at = "DELETE"
  /\ Delete(request[r].cookie) /\ browser' = 0
  /\ request' = [request EXCEPT ![r] = Idle]
  /\ UNCHANGED <<minted, login, reused, excused, dropped>>

-----------------------------------------------------------------------------
(* Time and faults.                                                        *)

Expire(c) ==
  /\ resolve(c) /\ row' = [row EXCEPT ![c].expired = TRUE]
  /\ excused' = IF row[c].login \in Logins THEN excused \union {row[c].login} ELSE excused
  /\ UNCHANGED <<browser, minted, login, request, reused, dropped>>

PurgeExpired(c) ==
  /\ Known(c) /\ row[c].expired /\ Delete(c)
  /\ UNCHANGED <<browser, minted, login, request, reused, excused, dropped>>

\* 30 seconds have passed.  A refresh that is still under way has outlived it.
LeaseLapses(c) ==
  /\ Known(c) /\ row[c].lease = "HELD"
  /\ row' = [row EXCEPT ![c].lease = "LAPSED"]
  /\ excused' = IF \E r \in Requests : request[r].at \in {"PRESENT", "REPLACE"} /\ request[r].cookie = c
                THEN excused \union {row[c].login} ELSE excused
  /\ UNCHANGED <<browser, minted, login, request, reused, dropped>>

\* What a request alone holds of the identity service: a login not yet in a
\* row, a token not yet in a row, a login that no row has any more.
InHand(q) == CASE q.at = "WRITE" -> {q.new} \cap Logins
               [] q.at = "REPLACE" \/ (q.at = "REVOKE" /\ q.op = "CREATE") -> {q.login} \cap Logins
               [] OTHER -> {}

\* The process dies: what the request had in hand is lost.
Crash(r) ==
  /\ request[r] # Idle
  /\ excused' = excused \union InHand(request[r])
  /\ request' = [request EXCEPT ![r] = Idle]
  /\ UNCHANGED <<row, browser, minted, login, reused, dropped>>

-----------------------------------------------------------------------------
Next ==
  \/ \E r \in Requests, mode \in {"GUEST", "AUTHENTICATED"} : CreateStarts(r, mode)
  \/ \E r \in Requests :
       \/ Ask(r) \/ AskThrownAway(r) \/ AskFails(r) \/ CreateWrites(r) \/ CreateFails(r) \/ CreateRevokes(r)
       \/ RefreshStarts(r) \/ Acquire(r) \/ AcquireRefused(r) \/ Present(r) \/ PresentThrownAway(r)
       \/ PresentFails(r) \/ PresentRefused(r) \/ RefreshReplaces(r) \/ RefreshFails(r)
       \/ DeleteStarts(r) \/ DeleteRevokes(r) \/ DeleteSession(r) \/ Crash(r)
  \/ \E c \in Cookies : Expire(c) \/ PurgeExpired(c) \/ LeaseLapses(c)

Spec == Init /\ [][Next]_vars

-----------------------------------------------------------------------------
TypeOK ==
  /\ browser \in 0..MaxCookies /\ minted \in 0..MaxCookies
  /\ reused \subseteq Logins /\ excused \subseteq Logins /\ dropped \subseteq Logins

\* Two requests of one browser never spend the same refresh token: a customer
\* is signed out for reuse only after a crash, a lost answer, a lease that was
\* outlived or a failed call (refreshSession, AcquireRefresh, insert).
ReuseIsExcused == reused \subseteq excused

\* A login that the identity service still honours is the login of a row or in the
\* hands of a request, whatever sign-ins, refreshes and sign-outs are interleaved.
\* The only ones left behind without a failure are those whose answer createSession
\* or refreshSession throws away: neither revokes them.
NoOrphans ==
  \A l \in Logins \ (excused \union dropped) : login[l].granted /\ ~login[l].ended =>
    \/ \E c \in Cookies : Known(c) /\ row[c].login = l
    \/ \E r \in Requests : l \in InHand(request[r])

=============================================================================
