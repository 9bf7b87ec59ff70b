--------------------------- MODULE IdentityMemory ---------------------------
(***************************************************************************)
(* What the identity repository promises, as its in-memory implementation  *)
(* (internal/identity, MemoryRepository) states it: every operation holds  *)
(* one mutex from its first read to its last write, so it is one step.     *)
(*                                                                         *)
(* A session's refresh tokens are numbered by the rotation that issued     *)
(* them.  The validity of the caller's input and of the caller's own       *)
(* session is the service's business (module Identity).                    *)
(***************************************************************************)
EXTENDS Naturals

CONSTANTS
  Identities, Sessions, IdentityOf,   \* whose session it would be
  Purposes,
  MaxRotation, MaxVersion             \* bounds on the counters

VARIABLES
  session,     \* sessions: whether revoked, its rotation, how it ended
  active,      \* activeRefresh: by session
  consumed,    \* consumedRefresh: by session
  lapsed,      \* the sessions whose RefreshExpires has passed
  disabled,    \* the identities with a DisabledAt
  profile,     \* Profile.Version by identity, 0 before its first session
  consents,    \* by identity and purpose: the last version, and whether granted
  deletions    \* the identities with a SCHEDULED deletion request

vars == <<session, active, consumed, lapsed, disabled, profile, consents, deletions>>
tokens == <<active, consumed>>
account == <<disabled, profile, consents, deletions>>

NoSession == [known |-> FALSE, revoked |-> FALSE, rotation |-> 0, ended |-> "NONE"]

Init ==
  /\ session = [s \in Sessions |-> NoSession]
  /\ active = [s \in Sessions |-> {}] /\ consumed = [s \in Sessions |-> {}]
  /\ lapsed = {} /\ disabled = {} /\ profile = [i \in Identities |-> 0]
  /\ consents = [i \in Identities |-> [p \in Purposes |-> [version |-> 0, granted |-> FALSE]]]
  /\ deletions = {}

StartSession(s) ==
  LET i == IdentityOf[s]
  IN  /\ ~session[s].known /\ i \notin disabled
      /\ session' = [session EXCEPT ![s].known = TRUE]
      /\ active' = [active EXCEPT ![s] = {0}]
      /\ profile' = [profile EXCEPT ![i] = IF @ = 0 THEN 1 ELSE @]
      /\ UNCHANGED <<consumed, lapsed, disabled, consents, deletions>>

\* revokeLocked: only the first revocation is recorded.
Revoked(ses, why) == IF ses.revoked THEN ses ELSE [ses EXCEPT !.revoked = TRUE, !.ended = why]
revokeLocked(s, why) ==
  /\ session' = [session EXCEPT ![s] = Revoked(@, why)]
  /\ active' = [active EXCEPT ![s] = {}]

\* The current digest is replaced by the next one; a disabled identity loses both.
Rotated(s, k) ==
  LET n == session[s].rotation + 1
      next == [session[s] EXCEPT !.rotation = n]
      gone == IdentityOf[s] \in disabled
  IN  /\ n <= MaxRotation
      /\ consumed' = [consumed EXCEPT ![s] = @ \union {k}]
      /\ active' = [active EXCEPT ![s] = IF gone THEN {} ELSE (@ \ {k}) \union {n}]
      /\ session' = [session EXCEPT ![s] = IF gone THEN Revoked(next, "DISABLED") ELSE next]

RotateSession(s, k) ==
  /\ \/ /\ k \in consumed[s]
        /\ revokeLocked(s, "REUSE") /\ UNCHANGED consumed
     \/ /\ k \in active[s] /\ ~session[s].revoked /\ s \in lapsed
        /\ revokeLocked(s, "EXPIRED") /\ UNCHANGED consumed
     \/ /\ k \in active[s] /\ ~session[s].revoked /\ s \notin lapsed
        /\ Rotated(s, k)
  /\ UNCHANGED <<lapsed, account>>

RevokeByRefresh(s, k) ==
  /\ k \in active[s] \union consumed[s]
  /\ revokeLocked(s, "REVOKED")
  /\ UNCHANGED <<consumed, lapsed, account>>

RevokeSession(s) ==
  /\ session[s].known
  /\ revokeLocked(s, "REVOKED")
  /\ UNCHANGED <<consumed, lapsed, account>>

Lapse(s) ==
  /\ session[s].known /\ lapsed' = lapsed \union {s}
  /\ UNCHANGED <<session, tokens, account>>

Disable(i) ==
  /\ disabled' = disabled \union {i}
  /\ UNCHANGED <<session, tokens, lapsed, profile, consents, deletions>>

UpdateProfile(i, version) ==
  /\ profile[i] > 0 /\ version = profile[i] /\ version <= MaxVersion
  /\ profile' = [profile EXCEPT ![i] = version + 1]
  /\ UNCHANGED <<session, tokens, lapsed, disabled, consents, deletions>>

RecordConsent(i, p, granted) ==
  /\ profile[i] > 0 /\ consents[i][p].version < MaxVersion
  /\ consents' = [consents EXCEPT ![i][p] = [version |-> @.version + 1, granted |-> granted]]
  /\ UNCHANGED <<session, tokens, lapsed, disabled, profile, deletions>>

CreateDeletionRequest(i) ==
  /\ profile[i] > 0
  /\ deletions' = deletions \union {i}
  /\ UNCHANGED <<session, tokens, lapsed, disabled, profile, consents>>

Next ==
  \/ \E s \in Sessions :
       \/ StartSession(s) \/ RevokeSession(s) \/ Lapse(s)
       \/ \E k \in 0..MaxRotation : RotateSession(s, k) \/ RevokeByRefresh(s, k)
  \/ \E i \in Identities :
       \/ Disable(i) \/ CreateDeletionRequest(i)
       \/ \E v \in 1..MaxVersion : UpdateProfile(i, v)
       \/ \E p \in Purposes, g \in BOOLEAN : RecordConsent(i, p, g)

Spec == Init /\ [][Next]_vars
=============================================================================
