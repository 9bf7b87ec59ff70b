----------------------------- MODULE MCBooking -----------------------------
(***************************************************************************)
(* Three scenarios of Booking in one run: "slots", two customers who       *)
(* compete for the places of two slots and of whom the second pays in      *)
(* points, with bookings that no provider has answered yet; "life", the    *)
(* whole life of the first customer's booking, while the slots come        *)
(* nearer; and "paying", that customer's booking of one slot with failures *)
(* and retries of the payment and a page of other bookings before it.  The *)
(* first customer holds a place in each slot, in either order, the second  *)
(* in the first.                                                           *)
(***************************************************************************)
EXTENDS Booking

VARIABLE scenario

mcVars == <<vars, scenario>>

MCOwner == [h \in {"h1", "h2", "h3"} |-> IF h = "h3" THEN "b" ELSE "a"]
MCMethod == [c \in {"a", "b"} |-> IF c = "a" THEN "ONLINE" ELSE "WALLET"]

SlotOf == [h1 |-> "s1", h2 |-> "s2", h3 |-> "s1"]

InScenario(name) ==
  /\ scenario = name /\ UNCHANGED scenario
  /\ \A c \in Customers : proc'[c].op = "hold" => proc'[c].slot = SlotOf[proc'[c].hold]

Early == \A c \in Customers : booking'[c].status \in {"NONE", "PENDING_PAYMENT", "REQUESTED", "CANCELLED"}
NoFailure == behind' = {} /\ \A c \in Customers : pay'[c] \notin {"RETRYABLE", "FINAL", "REFUND_FAILED"}

InSlots(A) ==
  /\ A /\ InScenario("slots")
  /\ phase' = phase /\ Early /\ NoFailure

InLife(A) ==
  /\ A /\ InScenario("life")
  /\ proc'["b"] = Idle /\ NoFailure

InPaying(A) ==
  /\ A /\ InScenario("paying")
  /\ proc'["b"] = Idle /\ hold'["h2"] = NoHold /\ Early

MCInit == Init /\ scenario \in {"slots", "life", "paying"}
MCNext == InSlots(Next) \/ InLife(Next) \/ InPaying(Next)

\* Fairness of Booking; no scenario stops these steps.
MCFair(A) == Fair(A) /\ UNCHANGED scenario

MCSpec ==
  /\ MCInit /\ [][MCNext]_mcVars
  /\ \A h \in Holds : WF_mcVars(MCFair(Lapse(h)))
  /\ \A c \in Customers : SF_mcVars(MCFair(ExpireStarts(c))) /\ WF_mcVars(MCFair(Abort(c)))
  /\ SF_mcVars(MCFair(CancelVoids("sweeper"))) /\ SF_mcVars(MCFair(CancelCommits("sweeper")))

\* A slot is overbooked only by two races inside Hold; a cancelled booking keeps no
\* points and its payment is void or its refund was asked for, unless an overtaken
\* retry reopened it; and a booking that nobody pays for frees its place once it
\* is on the sweeper's page.
PlacesAreSound == [](TypeOK /\ OverbookedOnlyByRace /\ CancelledIsSettled) /\ UnpaidIsFreed
=============================================================================
