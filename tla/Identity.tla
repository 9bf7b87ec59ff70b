------------------------------ MODULE Identity ------------------------------
(***************************************************************************)
(* Sign-in sessions and their refresh tokens (internal/identity: Service   *)
(* over PostgresRepository).  A session's family of refresh tokens has one *)
(* ACTIVE token, which a refresh consumes and replaces; a CONSUMED token   *)
(* that is presented again means that two parties hold the family, and     *)
(* ends the session.                                                       *)
(*                                                                         *)
(* A transaction that is given a refresh token locks the token's row and   *)
(* then the session's; one that is given a session locks the session's row *)
(* and then, as it revokes, the rows of its ACTIVE tokens.  The two orders *)
(* differ, so transactions can wait for each other: the database then      *)
(* aborts one of them.  A request of a signed-in customer is admitted by   *)
(* Principal, which locks nothing, before its own transaction begins.      *)
(***************************************************************************)
EXTENDS Naturals

CONSTANTS
  Identities, Sessions, IdentityOf, Purposes,
  MaxRotation, MaxVersion,
  Transactions         \* the requests that may be open at once

VARIABLES
  session,     \* identity.sessions: revoked_at, rotation, the event that ended it
  token,       \* identity.refresh_tokens: status by session and rotation
  lapsed, disabled, profile, consents, deletions,
  admitted,    \* the sessions that Principal has let pass, their request not yet done
  issuing,     \* the sessions for which the service signs an access token
  tx           \* the open transactions: what they lock and are about

vars == <<session, token, lapsed, disabled, profile, consents, deletions,
          admitted, issuing, tx>>
account == <<disabled, profile, consents, deletions>>

Absent == "ABSENT"
Rotations == 0..MaxRotation
NoSession == [known |-> FALSE, revoked |-> FALSE, rotation |-> 0, ended |-> "NONE"]
Idle == [at |-> "IDLE"]

Init ==
  /\ session = [s \in Sessions |-> NoSession]
  /\ token = [s \in Sessions |-> [k \in Rotations |-> Absent]]
  /\ lapsed = {} /\ disabled = {} /\ profile = [i \in Identities |-> 0]
  /\ consents = [i \in Identities |-> [p \in Purposes |-> [version |-> 0, granted |-> FALSE]]]
  /\ deletions = {} /\ admitted = {} /\ issuing = {}
  /\ tx = [t \in Transactions |-> Idle]

TokenHeld(t, s, k) == tx[t].at # "IDLE" /\ tx[t].session = s /\ tx[t].token = k
SessionHeld(t, s) == tx[t].at = "SESSION" /\ tx[t].session = s
Others(t) == Transactions \ {t}

-----------------------------------------------------------------------------
(* Signing in.  The session and its first token are inserted together.     *)

StartSession(s) ==
  LET i == IdentityOf[s]
  IN  /\ ~session[s].known /\ i \notin disabled
      /\ session' = [session EXCEPT ![s].known = TRUE]
      /\ token' = [token EXCEPT ![s][0] = "ACTIVE"]
      /\ profile' = [profile EXCEPT ![i] = IF @ = 0 THEN 1 ELSE @]
      /\ issuing' = issuing \union {s}
      /\ UNCHANGED <<lapsed, disabled, consents, deletions, admitted, tx>>

\* The access token is signed.  When that fails, the service revokes the
\* session it has just committed (RevokeStarts).
Issued(s) ==
  /\ s \in issuing /\ issuing' = issuing \ {s}
  /\ UNCHANGED <<session, token, lapsed, account, admitted, tx>>

Lapse(s) ==
  /\ session[s].known /\ lapsed' = lapsed \union {s}
  /\ UNCHANGED <<session, token, account, admitted, issuing, tx>>

\* disabled_at is written by hand: no code of the repository sets it.
Disable(i) ==
  /\ disabled' = disabled \union {i}
  /\ UNCHANGED <<session, token, lapsed, profile, consents, deletions, admitted, issuing, tx>>

-----------------------------------------------------------------------------
(* Presenting a refresh token: Service.Refresh and Service.Revoke.         *)

Present(t, s, k, op) ==
  /\ tx[t] = Idle /\ token[s][k] # Absent
  /\ \A u \in Others(t) : ~TokenHeld(u, s, k)
  /\ tx' = [tx EXCEPT ![t] = [at |-> "TOKEN", session |-> s, token |-> k, op |-> op]]
  /\ UNCHANGED <<session, token, lapsed, account, admitted, issuing>>

loadSessionForUpdate(t) ==
  /\ tx[t].at = "TOKEN"
  /\ \A u \in Others(t) : ~SessionHeld(u, tx[t].session)
  /\ tx' = [tx EXCEPT ![t].at = "SESSION"]
  /\ UNCHANGED <<session, token, lapsed, account, admitted, issuing>>

\* RevokeSession: by its owner from another or the same session, or by the
\* service when it could not sign.  No token is locked yet.
RevokeStarts(t, s) ==
  /\ tx[t] = Idle /\ session[s].known
  /\ s \in issuing \/ \E c \in admitted : IdentityOf[c] = IdentityOf[s]
  /\ \A u \in Others(t) : ~SessionHeld(u, s)
  /\ tx' = [tx EXCEPT ![t] = [at |-> "SESSION", session |-> s, token |-> MaxRotation + 1,
                              op |-> "REVOKE"]]
  /\ issuing' = issuing \ {s}
  /\ \E c \in {{}} \union {{d} : d \in admitted} : admitted' = admitted \ c
  /\ UNCHANGED <<session, token, lapsed, account>>

Revoked(ses, why) == IF ses.revoked THEN ses ELSE [ses EXCEPT !.revoked = TRUE, !.ended = why]
\* Mutants: the tokens of a revoked session are left alone, or marked as spent.
RevokedTokensKept(family) == family
RevokedTokensSpent(family) ==
  [k \in Rotations |-> IF family[k] = "ACTIVE" THEN "CONSUMED" ELSE family[k]]

RevokedTokens(family) == [k \in Rotations |-> IF family[k] = "ACTIVE" THEN "REVOKED" ELSE family[k]]

\* Waits until no one else holds a token that it is about to revoke.
revokeSessionTx(t, why) ==
  LET s == tx[t].session
  IN  /\ \A k \in Rotations, u \in Others(t) : token[s][k] = "ACTIVE" => ~TokenHeld(u, s, k)
      /\ session' = [session EXCEPT ![s] = Revoked(@, why)]
      /\ token' = [token EXCEPT ![s] = RevokedTokens(@)]

\* A presented token that was already spent: the family has two holders.
Reuse(t) ==
  LET s == tx[t].session
  IN  /\ tx[t].at = "SESSION" /\ tx[t].op = "REFRESH" /\ token[s][tx[t].token] = "CONSUMED"
      /\ revokeSessionTx(t, "REUSE")
      /\ tx' = [tx EXCEPT ![t] = Idle]
      /\ UNCHANGED <<lapsed, account, admitted, issuing>>

RefreshInvalid(t) ==
  LET s == tx[t].session
  IN  /\ tx[t].at = "SESSION" /\ tx[t].op = "REFRESH" /\ token[s][tx[t].token] # "CONSUMED"
      /\ token[s][tx[t].token] # "ACTIVE" \/ session[s].revoked
      /\ tx' = [tx EXCEPT ![t] = Idle]
      /\ UNCHANGED <<session, token, lapsed, account, admitted, issuing>>

RefreshExpired(t) ==
  LET s == tx[t].session
  IN  /\ tx[t].at = "SESSION" /\ tx[t].op = "REFRESH" /\ token[s][tx[t].token] = "ACTIVE"
      /\ ~session[s].revoked /\ s \in lapsed
      /\ revokeSessionTx(t, "EXPIRED")
      /\ tx' = [tx EXCEPT ![t] = Idle]
      /\ UNCHANGED <<lapsed, account, admitted, issuing>>

RotateSession(t) ==
  LET s == tx[t].session
      k == tx[t].token
      n == session[s].rotation + 1
      next == [session[s] EXCEPT !.rotation = n]
      gone == IdentityOf[s] \in disabled
  IN  /\ tx[t].at = "SESSION" /\ tx[t].op = "REFRESH" /\ token[s][k] = "ACTIVE"
      /\ ~session[s].revoked /\ s \notin lapsed /\ n <= MaxRotation
      /\ session' = [session EXCEPT ![s] = IF gone THEN Revoked(next, "DISABLED") ELSE next]
      /\ token' = [token EXCEPT ![s] = [@ EXCEPT ![k] = "CONSUMED",
                                                 ![n] = IF gone THEN "REVOKED" ELSE "ACTIVE"]]
      /\ issuing' = IF gone THEN issuing ELSE issuing \union {s}
      /\ tx' = [tx EXCEPT ![t] = Idle]
      /\ UNCHANGED <<lapsed, account, admitted>>

\* The end of RevokeByRefresh, of any token of the family, and of RevokeSession.
Revoke(t) ==
  /\ tx[t].at = "SESSION" /\ tx[t].op \in {"LOGOUT", "REVOKE"}
  /\ revokeSessionTx(t, "REVOKED")
  /\ tx' = [tx EXCEPT ![t] = Idle]
  /\ UNCHANGED <<lapsed, account, admitted, issuing>>

\* A deadlock's victim, a cancelled request or a lost connection.
Rollback(t) ==
  /\ tx[t] # Idle
  /\ tx' = [tx EXCEPT ![t] = Idle]
  /\ UNCHANGED <<session, token, lapsed, account, admitted, issuing>>

-----------------------------------------------------------------------------
(* The signed-in customer.  Authenticate reads the session and its         *)
(* identity; what the request then does is a transaction of its own.       *)

Principal(s) ==
  /\ session[s].known /\ ~session[s].revoked /\ s \notin lapsed /\ IdentityOf[s] \notin disabled
  /\ admitted' = admitted \union {s}
  /\ UNCHANGED <<session, token, lapsed, account, issuing, tx>>

UpdateProfile(s, version) ==
  LET i == IdentityOf[s]
  IN  /\ s \in admitted /\ version = profile[i] /\ version <= MaxVersion
      /\ profile' = [profile EXCEPT ![i] = version + 1]
      /\ admitted' = admitted \ {s}
      /\ UNCHANGED <<session, token, lapsed, disabled, consents, deletions, issuing, tx>>

RecordConsent(s, p, granted) ==
  LET i == IdentityOf[s]
  IN  /\ s \in admitted /\ consents[i][p].version < MaxVersion
      /\ consents' = [consents EXCEPT ![i][p] = [version |-> @.version + 1, granted |-> granted]]
      /\ admitted' = admitted \ {s}
      /\ UNCHANGED <<session, token, lapsed, disabled, profile, deletions, issuing, tx>>

RequestDeletion(s) ==
  /\ s \in admitted
  /\ deletions' = deletions \union {IdentityOf[s]}
  /\ admitted' = admitted \ {s}
  /\ UNCHANGED <<session, token, lapsed, disabled, profile, consents, issuing, tx>>

Next ==
  \/ \E s \in Sessions :
       \/ StartSession(s) \/ Issued(s) \/ Lapse(s) \/ Principal(s) \/ RequestDeletion(s)
       \/ \E v \in 1..MaxVersion : UpdateProfile(s, v)
       \/ \E p \in Purposes, g \in BOOLEAN : RecordConsent(s, p, g)
  \/ \E i \in Identities : Disable(i)
  \/ \E t \in Transactions :
       \/ \E s \in Sessions :
            \/ RevokeStarts(t, s)
            \/ \E k \in Rotations, op \in {"REFRESH", "LOGOUT"} : Present(t, s, k, op)
       \/ loadSessionForUpdate(t) \/ Reuse(t) \/ RefreshInvalid(t) \/ RefreshExpired(t)
       \/ RotateSession(t) \/ Revoke(t) \/ Rollback(t)

Spec == Init /\ [][Next]_vars

-----------------------------------------------------------------------------
(* Of the family of a session that lives, exactly the token issued last    *)
(* can be spent, and of a revoked session's family none: whatever order    *)
(* refreshes, replays of old tokens, sign-outs and remote revocations take *)
(* their locks in (RotateSession, RevokeByRefresh, revokeSessionTx).       *)
NewestTokenOnly ==
  \A s \in Sessions :
    {k \in Rotations : token[s][k] = "ACTIVE"}
      = IF session[s].known /\ ~session[s].revoked THEN {session[s].rotation} ELSE {}

(* The locking of the PostgreSQL repository implements the in-memory one,  *)
(* whose operations are atomic: every commit is one of its operations, and *)
(* every lock, wait and rollback changes nothing it can see.               *)
OfStatus(status) == [s \in Sessions |-> {k \in Rotations : token[s][k] = status}]
Memory == INSTANCE IdentityMemory
            WITH active <- OfStatus("ACTIVE"), consumed <- OfStatus("CONSUMED")
ImplementsMemory == Memory!Spec

(* A spent token that is presented again ends its session.  It does not    *)
(* hold: the transaction of the replay can be the victim of a deadlock     *)
(* with a refresh of the live token, and nothing tries it again.           *)
ReplayEnds ==
  [][\A t \in Transactions :
       (/\ tx[t].at = "SESSION" /\ tx[t].op = "REFRESH"
        /\ token[tx[t].session][tx[t].token] = "CONSUMED" /\ tx'[t] = Idle)
         => session'[tx[t].session].revoked]_vars

=============================================================================
