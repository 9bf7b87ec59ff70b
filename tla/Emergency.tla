----------------------------- MODULE Emergency -----------------------------
(***************************************************************************)
(* Emergency requests (internal/emergency, PostgresService): a request is  *)
(* accepted by one responder and worked on to its resolution, escalated    *)
(* while nobody accepts it, with a live location that its owner may take   *)
(* back, messages, and a timeline that is only ever appended to.           *)
(*                                                                         *)
(* A repeated Create, Accept or Transition is answered with what was       *)
(* stored when it was first answered.                                      *)
(*                                                                         *)
(* Every command is one serializable transaction that locks the request,   *)
(* hence one step.  A caller of Transition whose revision is stale is      *)
(* refused, so the step is taken by one who saw the last revision.         *)
(***************************************************************************)
EXTENDS Naturals, Sequences, FiniteSets, SequencesExt

CONSTANTS
  Requesters, Responders,
  MaxLevel,    \* bound on the escalations of a request
  MaxEvents    \* bound on its timeline

VARIABLES
  request,     \* emergency.requests, one per requester
  overdue,     \* requests whose sla_deadline has passed
  timeline,    \* emergency.timeline: event types, in the order of insertion
  answers      \* emergency.idempotency: to whom an answer is kept, and whether
               \* with the location

vars == <<request, overdue, timeline, answers>>

Nobody == "NOBODY"
NoRequest == [status |-> "NONE", responder |-> Nobody, consent |-> FALSE, location |-> "NONE", level |-> 0]
Request == [status : {"NONE", "OPEN", "ASSIGNED", "EN_ROUTE", "ON_SCENE", "RESOLVED"},
            responder : Responders \cup {Nobody}, consent : BOOLEAN,
            location : {"NONE", "FRESH", "AGED"}, level : 0..MaxLevel]
Events == {"CREATED", "ASSIGNED", "EN_ROUTE", "ON_SCENE", "RESOLVED", "ESCALATED",
           "LOCATION_UPDATED", "LOCATION_REVOKED", "MESSAGE_SENT"}

TypeOK ==
  /\ request \in [Requesters -> Request] /\ overdue \subseteq Requesters
  /\ \A r \in Requesters : Len(timeline[r]) <= MaxEvents /\ Range(timeline[r]) \subseteq Events

Init ==
  /\ request = [r \in Requesters |-> NoRequest] /\ overdue = {}
  /\ timeline = [r \in Requesters |-> <<>>] /\ answers = [r \in Requesters |-> {}]

loadEmergencyRequest(r) == request[r].status # "NONE" /\ Len(timeline[r]) < MaxEvents

insertEmergencyTimeline(r, event) == timeline' = [timeline EXCEPT ![r] = Append(@, event)]

\* The row is stored and the event appended in the same transaction.
stores(r, value, event) ==
  /\ request' = [request EXCEPT ![r] = value]
  /\ insertEmergencyTimeline(r, event)

canSeeEmergencyLocation(a, r, value) == a \in {r, value.responder, "ADMIN"}

\* Whether the request, as a is shown it, is shown with its location.
presentValue(a, r, value) ==
  value.consent /\ value.location = "FRESH" /\ canSeeEmergencyLocation(a, r, value)

\* The answer is kept as it was presented: nothing that happens to the location
\* afterwards changes what a repeat of the command is answered.
storeEmergencyReplay(a, r, value) ==
  answers' = [answers EXCEPT ![r] = @ \cup {[to |-> a, location |-> presentValue(a, r, value)]}]

\* The location is given with the consent to use it.
Create(r) ==
  LET value == [NoRequest EXCEPT !.status = "OPEN", !.consent = TRUE, !.location = "FRESH"]
  IN  /\ request[r] = NoRequest
      /\ stores(r, value, "CREATED") /\ storeEmergencyReplay(r, r, value)
      /\ UNCHANGED overdue

\* Mutant: whoever comes last is the responder.
AcceptAlways(p, r) ==
  LET value == [request[r] EXCEPT !.status = "ASSIGNED", !.responder = p]
  IN  /\ loadEmergencyRequest(r) /\ request[r].status \in {"OPEN", "ASSIGNED"}
      /\ stores(r, value, "ASSIGNED") /\ storeEmergencyReplay(p, r, value)
      /\ UNCHANGED overdue

Accept(p, r) ==
  LET value == [request[r] EXCEPT !.status = "ASSIGNED", !.responder = p]
  IN  /\ loadEmergencyRequest(r) /\ request[r].status = "OPEN" /\ request[r].responder = Nobody
      /\ stores(r, value, "ASSIGNED") /\ storeEmergencyReplay(p, r, value)
      /\ UNCHANGED overdue

\* By the requester or the responder, in every status: a resolved request can
\* be given a location again, and a responder can renew a consent taken back.
UpdateLocation(a, r, consent) ==
  /\ loadEmergencyRequest(r) /\ a \in {r, request[r].responder}
  /\ stores(r, [request[r] EXCEPT !.consent = consent, !.location = IF consent THEN "FRESH" ELSE "NONE"],
            IF consent THEN "LOCATION_UPDATED" ELSE "LOCATION_REVOKED")
  /\ UNCHANGED <<overdue, answers>>

validTransition == {<<"ASSIGNED", "EN_ROUTE">>, <<"EN_ROUTE", "ON_SCENE">>, <<"ON_SCENE", "RESOLVED">>}

\* Mutant: the location stays with the resolved request.
TransitionKeeps(p, r, status) ==
  LET value == [request[r] EXCEPT !.status = status]
  IN  /\ loadEmergencyRequest(r) /\ request[r].responder = p
      /\ <<request[r].status, status>> \in validTransition
      /\ stores(r, value, status) /\ storeEmergencyReplay(p, r, value)
      /\ UNCHANGED overdue

\* By the assigned responder; a resolution erases the location.
Transition(p, r, status) ==
  LET value == [request[r] EXCEPT !.status = status, !.location = IF status = "RESOLVED" THEN "NONE" ELSE @]
  IN  /\ loadEmergencyRequest(r) /\ request[r].responder = p
      /\ <<request[r].status, status>> \in validTransition
      /\ stores(r, value, status) /\ storeEmergencyReplay(p, r, value)
      /\ UNCHANGED overdue

SendMessage(a, r) ==
  /\ loadEmergencyRequest(r) /\ request[r].status # "RESOLVED" /\ a \in {r, request[r].responder}
  /\ insertEmergencyTimeline(r, "MESSAGE_SENT")
  /\ UNCHANGED <<request, overdue, answers>>

\* All requests that are due, in one transaction.
RunEscalations ==
  LET due == {r \in overdue : request[r].status = "OPEN"}
  IN  /\ due # {} /\ \A r \in due : request[r].level < MaxLevel /\ Len(timeline[r]) < MaxEvents
      /\ request' = [r \in Requesters |-> IF r \in due THEN [request[r] EXCEPT !.level = @ + 1] ELSE request[r]]
      /\ timeline' = [r \in Requesters |-> IF r \in due THEN Append(timeline[r], "ESCALATED") ELSE timeline[r]]
      /\ overdue' = overdue \ due
      /\ UNCHANGED answers

\* Time: the assignment SLA, and the age up to which a location is shown.
SLAPasses(r) ==
  /\ request[r].status = "OPEN" /\ r \notin overdue
  /\ overdue' = overdue \cup {r}
  /\ UNCHANGED <<request, timeline, answers>>

LocationAges(r) ==
  /\ request[r].location = "FRESH"
  /\ request' = [request EXCEPT ![r].location = "AGED"]
  /\ UNCHANGED <<overdue, timeline, answers>>

Next ==
  \/ RunEscalations
  \/ \E r \in Requesters :
       \/ Create(r) \/ SLAPasses(r) \/ LocationAges(r)
       \/ \E p \in Responders : Accept(p, r) \/ \E status \in {"EN_ROUTE", "ON_SCENE", "RESOLVED"} : Transition(p, r, status)
       \/ \E a \in Requesters \cup Responders : SendMessage(a, r) \/ \E consent \in BOOLEAN : UpdateLocation(a, r, consent)

Spec == Init /\ [][Next]_vars

\* Time passes and the loop of the transaction service runs the escalations.
Fairness == WF_vars(RunEscalations) /\ \A r \in Requesters : WF_vars(SLAPasses(r))

----------------------------------------------------------------------------
(* What a reader is shown.                                                 *)

\* The last event of the timeline that is one of some.
LastOf(r, some) ==
  LET of == SelectSeq(timeline[r], LAMBDA e : e \in some)
  IN  IF of = <<>> THEN "NONE" ELSE of[Len(of)]

\* The timeline tells the whole story: its last status event is the status, its
\* escalations are the level, and a read shows a location only if the last thing
\* that happened to it was that it was given, not taken back or erased.  The answer
\* to a repeated command is not a read: it shows the location that was given when
\* the command was first answered, but only to the one it belongs to and to the one
\* responder the request ever has.
TimelineTells ==
  \A r \in Requesters : request[r] # NoRequest =>
    /\ request[r].status =
         LET s == LastOf(r, {"ASSIGNED", "EN_ROUTE", "ON_SCENE", "RESOLVED"}) IN IF s = "NONE" THEN "OPEN" ELSE s
    /\ request[r].level = Len(SelectSeq(timeline[r], LAMBDA e : e = "ESCALATED"))
    /\ \A a \in Requesters \cup Responders \cup {"ADMIN"} :
         presentValue(a, r, request[r]) => LastOf(r, {"CREATED", "LOCATION_UPDATED", "LOCATION_REVOKED", "RESOLVED"})
                                           \in {"CREATED", "LOCATION_UPDATED"}
    /\ \A answer \in answers[r] : answer.location => answer.to \in {r, request[r].responder}

\* "atomic responder assignment": the first responder who accepts is the only
\* one, an accepted request is not escalated any more, and no timeline entry is
\* rewritten.
OneResponder ==
  [][\A r \in Requesters :
       /\ request[r].responder # Nobody =>
            request'[r].responder = request[r].responder /\ request'[r].level = request[r].level
       /\ IsPrefix(timeline[r], timeline'[r])]_vars
=============================================================================
