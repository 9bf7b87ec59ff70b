--------------------------- MODULE SocialMessaging ---------------------------
(***************************************************************************)
(* Direct messages between two people (internal/social,                    *)
(* postgres_engagement.go): a conversation is open at once if they follow  *)
(* each other and by acceptance otherwise, carries messages and calls, and *)
(* is closed for good by a block.                                          *)
(*                                                                         *)
(* SendMessage and AcceptConversation lock the conversation.               *)
(* OpenConversation and CreateCall read with nothing locked and insert     *)
(* afterwards, so each is two steps.                                       *)
(***************************************************************************)
EXTENDS Naturals, FiniteSets

CONSTANTS
  People,     \* the two people
  MaxSent,    \* bound on the messages
  MaxSignals  \* bound on the signals of the call

VARIABLES
  follows,    \* who follows the other, accepted
  looked,     \* who found no block and is about to follow the other
  control,    \* who blocks the other
  talk,       \* social.conversations, at most one for the pair
  opening,    \* a request to open it, between its look and its insert
  sent,       \* social.direct_messages
  call,       \* social.call_sessions, one at a time
  ringing,    \* a request to call, between its look and its insert
  presence,   \* social.presence: state, or none when it has expired
  freshUnder  \* the conversation was inserted under a block

vars == <<follows, looked, control, talk, opening, sent, call, ringing, presence, freshUnder>>

None == "NONE"
Other(a) == CHOOSE b \in People : b # a
NoTalk == [status |-> None, by |-> None]
NoCall == [status |-> None, signals |-> 0, expired |-> FALSE]
Blocked == control # {}

Init ==
  /\ follows = {} /\ looked = {} /\ control = {} /\ talk = NoTalk
  /\ opening = [a \in People |-> None] /\ sent = 0 /\ call = NoCall
  /\ ringing = FALSE /\ presence = [a \in People |-> None] /\ freshUnder = FALSE

\* Follow looks for a block and inserts afterwards.  A request that waits for its
\* acceptance (AcceptFollow) counts for nothing here until it looks again.
FollowLooks(a) ==
  /\ ~Blocked /\ looked' = looked \cup {a}
  /\ UNCHANGED <<follows, control, talk, opening, sent, call, ringing, presence, freshUnder>>

Follow(a) ==
  /\ a \in looked /\ looked' = looked \ {a} /\ follows' = follows \cup {a}
  /\ UNCHANGED <<control, talk, opening, sent, call, ringing, presence, freshUnder>>

\* Mutant: the conversation is left as it is.
SetRelationshipOnly(a, block) ==
  /\ Other(a) \notin control /\ (block => follows = {})
  /\ control' = IF block THEN control \cup {a} ELSE control \ {a}
  /\ UNCHANGED <<follows, looked, talk, opening, sent, call, ringing, presence, freshUnder>>

\* A block, the first or a repeated one, closes the conversation; taking it back
\* (or muting instead) opens nothing.  While either follows the other every block
\* fails: the follow's counters would be updated on a connection still in use.
SetRelationship(a, block) ==
  /\ Other(a) \notin control /\ (block => follows = {})
  /\ control' = IF block THEN control \cup {a} ELSE control \ {a}
  /\ talk' = IF block /\ talk # NoTalk THEN [talk EXCEPT !.status = "BLOCKED"] ELSE talk
  /\ UNCHANGED <<follows, looked, opening, sent, call, ringing, presence, freshUnder>>

\* The profile of one who blocks the caller is not found; the caller's own
\* block is not asked about.
OpenConversationLooks(a) ==
  /\ opening[a] = None /\ Other(a) \notin control /\ talk = NoTalk
  /\ opening' = [opening EXCEPT ![a] = IF follows = People THEN "ACCEPTED" ELSE "REQUESTED"]
  /\ UNCHANGED <<follows, looked, control, talk, sent, call, ringing, presence, freshUnder>>

\* The index on the pair lets one insert through.
OpenConversation(a) ==
  /\ opening[a] # None /\ opening' = [opening EXCEPT ![a] = None]
  /\ IF talk = NoTalk THEN talk' = [status |-> opening[a], by |-> a] /\ freshUnder' = Blocked
                      ELSE UNCHANGED <<talk, freshUnder>>
  /\ UNCHANGED <<follows, looked, control, sent, call, ringing, presence>>

AcceptConversation(a) ==
  /\ talk.status = "REQUESTED" /\ talk.by # a
  /\ talk' = [talk EXCEPT !.status = "ACCEPTED"]
  /\ UNCHANGED <<follows, looked, control, opening, sent, call, ringing, presence, freshUnder>>

SendMessage(a) ==
  /\ talk.status = "ACCEPTED" /\ sent < MaxSent
  /\ sent' = sent + 1
  /\ UNCHANGED <<follows, looked, control, talk, opening, call, ringing, presence, freshUnder>>

SetPresence(a, state) ==
  /\ presence' = [presence EXCEPT ![a] = state]
  /\ UNCHANGED <<follows, looked, control, talk, opening, sent, call, ringing, freshUnder>>

CreateCallLooks ==
  /\ talk.status = "ACCEPTED" /\ ~ringing /\ call = NoCall
  /\ ringing' = TRUE
  /\ UNCHANGED <<follows, looked, control, talk, opening, sent, call, presence, freshUnder>>

CreateCall ==
  /\ ringing /\ ringing' = FALSE
  /\ call' = [NoCall EXCEPT !.status = "RINGING"]
  /\ UNCHANGED <<follows, looked, control, talk, opening, sent, presence, freshUnder>>

\* Until the call has ended or expired, whatever became of the conversation.
SignalCall(kind) ==
  /\ call.status \in {"RINGING", "CONNECTED"} /\ ~call.expired /\ call.signals < MaxSignals
  /\ call' = [call EXCEPT !.signals = @ + 1,
                          !.status = CASE kind = "ANSWER" -> "CONNECTED" [] kind = "END" -> "ENDED" [] OTHER -> @]
  /\ UNCHANGED <<follows, looked, control, talk, opening, sent, ringing, presence, freshUnder>>

CallExpires ==
  /\ call # NoCall /\ ~call.expired /\ call' = [call EXCEPT !.expired = TRUE]
  /\ UNCHANGED <<follows, looked, control, talk, opening, sent, ringing, presence, freshUnder>>

Next ==
  \/ CreateCallLooks \/ CreateCall \/ CallExpires
  \/ \E kind \in {"OFFER", "ANSWER", "END"} : SignalCall(kind)
  \/ \E a \in People :
       \/ FollowLooks(a) \/ Follow(a) \/ OpenConversationLooks(a) \/ OpenConversation(a) \/ AcceptConversation(a) \/ SendMessage(a)
       \/ \E block \in BOOLEAN : SetRelationship(a, block)
       \/ \E state \in {"ONLINE", None} : SetPresence(a, state)

Spec == Init /\ [][Next]_vars

----------------------------------------------------------------------------

\* What a block silences, exactly: while one blocks the other a message passes only
\* in a conversation that was inserted under the block and has not been closed by a
\* repeated one; and a conversation that a block closed never carries one again.
BlockSilences ==
  [][/\ sent' # sent => ~Blocked \/ freshUnder
     /\ talk.status = "BLOCKED" => talk'.status = "BLOCKED" /\ sent' = sent]_vars

\* "A block in either direction overrides follows, feed visibility and
\* interaction": no message passes under a block.
BlockOverridesMessages == [][sent' # sent => ~Blocked]_vars
=============================================================================
