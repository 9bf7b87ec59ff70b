------------------------------ MODULE MCOrder ------------------------------
(***************************************************************************)
(* Two scenarios of Order in one run: the whole life of an order, whose    *)
(* notifications nobody sends, and the outbox, with two workers, of a paid *)
(* order of at most two revisions that one client changes.                 *)
(***************************************************************************)
EXTENDS Order

CONSTANTS c1, c2, w1, w2

VARIABLE scenario

\* The revisions of the order whose outbox is followed.
Followed == 1..2

mcVars == <<vars, scenario>>

Outbox(A) == scenario = "outbox" /\ A /\ UNCHANGED scenario

MCInit == Init /\ scenario \in {"commands", "outbox"}

MCNext ==
  \/ /\ scenario = "commands"
     /\ (\E paymentCaptured \in BOOLEAN : Create(paymentCaptured)) \/ (\E c \in Clients : Command(c))
     /\ UNCHANGED scenario
  \/ Outbox(Create(TRUE))
  \/ Outbox(Command(c1) /\ order'.revision \in Followed)
  \/ \E w \in Workers : Outbox(ProcessNotifications(w))
  \/ \E r \in Followed : Outbox(LeaseEnds(r) \/ DelayEnds(r))

\* Fairness of Order, for the scenario that has workers.
MCSpec ==
  /\ MCInit /\ [][MCNext]_mcVars
  /\ \A w \in Workers, r \in Followed : SF_mcVars(Outbox(claimNotification(w, r)))
  /\ \A w \in Workers : /\ SF_mcVars(Outbox(Send(w, "SENT")))
                        /\ SF_mcVars(Outbox(Complete(w))) /\ WF_mcVars(Outbox(Release(w)))
  /\ \A r \in Followed : WF_mcVars(Outbox(LeaseEnds(r))) /\ WF_mcVars(Outbox(DelayEnds(r)))

\* EventuallyDelivered of Order: every queued notification is delivered in the
\* end, although workers die and leases lapse.
MCEventuallyDelivered ==
  \A r \in Followed :
    scenario = "outbox" /\ intents[r] # NoIntent ~> intents[r].delivered
=============================================================================
