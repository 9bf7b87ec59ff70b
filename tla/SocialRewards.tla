---------------------------- MODULE SocialRewards ----------------------------
(***************************************************************************)
(* The worker that pays the rewards of the social service                  *)
(* (internal/social, ProcessRewards): it leases pending events in one      *)
(* transaction, calls the wallet for each, and settles each with an update *)
(* that holds only while the lease is its own.  Several workers run, a     *)
(* worker dies or outlives its lease anywhere, and the wallet answers a    *)
(* repeated key from its ledger.                                           *)
(***************************************************************************)
EXTENDS Naturals, FiniteSets

CONSTANTS Events, Workers

VARIABLES
  event,     \* social.reward_events: status
  lease,     \* lease_owner: a claim of a worker, or none
  lapsed,    \* events whose lease_until has passed
  due,       \* events whose next_attempt_at has passed
  batch,     \* the events a worker still has to pay, from its last claim
  answer,    \* what the wallet answered a worker about an event
  credited,  \* the wallet's ledger: how often it was credited for an event
  late,      \* events whose points would have expired by now
  overran    \* events whose lease has ever lapsed

vars == <<event, lease, lapsed, due, batch, answer, credited, late, overran>>

None == "NONE"

Init ==
  /\ event = [e \in Events |-> None] /\ lease = [e \in Events |-> None]
  /\ lapsed = {} /\ due = {} /\ batch = [w \in Workers |-> {}]
  /\ answer = [w \in Workers |-> [e \in Events |-> None]]
  /\ credited = [e \in Events |-> 0] /\ late = {} /\ overran = {}

\* At most one event per reference, whatever is liked and unliked.
queueSocialReward(e) ==
  /\ event[e] = None
  /\ event' = [event EXCEPT ![e] = "PENDING"] /\ due' = due \cup {e}
  /\ UNCHANGED <<lease, lapsed, batch, answer, credited, late, overran>>

Claimable == {e \in due : event[e] = "PENDING" /\ (lease[e] = None \/ e \in lapsed)}

\* The events are locked, leased and released in one transaction.
Claim(w) ==
  /\ batch[w] = {} /\ Claimable # {}
  /\ lease' = [e \in Events |-> IF e \in Claimable THEN w ELSE lease[e]]
  /\ lapsed' = lapsed \ Claimable
  /\ batch' = [batch EXCEPT ![w] = Claimable]
  /\ answer' = [answer EXCEPT ![w] = [e \in Events |-> None]]
  /\ UNCHANGED <<event, due, credited, late, overran>>

\* Mutant: the wallet is called under a key of the claim, not of the event.
RewardEngagementPerClaim(w, e, result) ==
  /\ e \in batch[w] /\ answer[w][e] = None
  /\ \/ result = "ERROR"
     \/ result = "REJECTED" /\ (e \in late \/ credited[e] = 0)
     \/ result = "APPLIED" /\ e \notin late
  /\ answer' = [answer EXCEPT ![w][e] = result]
  /\ credited' = [credited EXCEPT ![e] = IF result = "APPLIED" THEN @ + 1 ELSE @]
  /\ UNCHANGED <<event, lease, lapsed, due, batch, late, overran>>

\* The wallet's answer: a refusal of the expiry comes before the look into the
\* ledger, that of the device's cooldown or cap after it.
RewardEngagement(w, e, result) ==
  /\ e \in batch[w] /\ answer[w][e] = None
  /\ \/ result = "ERROR"
     \/ result = "REJECTED" /\ (e \in late \/ credited[e] = 0)
     \/ result = "APPLIED" /\ e \notin late
  /\ answer' = [answer EXCEPT ![w][e] = result]
  /\ credited' = [credited EXCEPT ![e] = IF result = "APPLIED" /\ @ = 0 THEN @ + 1 ELSE @]
  /\ UNCHANGED <<event, lease, lapsed, due, batch, late, overran>>

\* An error is tried again after a pause; a refusal is final.
Settle(w, e) ==
  /\ e \in batch[w] /\ answer[w][e] # None
  /\ batch' = [batch EXCEPT ![w] = @ \ {e}]
  /\ IF event[e] = "PENDING" /\ lease[e] = w
     THEN /\ lease' = [lease EXCEPT ![e] = None] /\ lapsed' = lapsed \ {e}
          /\ event' = [event EXCEPT ![e] = IF answer[w][e] = "ERROR" THEN "PENDING" ELSE answer[w][e]]
          /\ due' = IF answer[w][e] = "ERROR" THEN due \ {e} ELSE due
     ELSE UNCHANGED <<event, lease, lapsed, due>>
  /\ UNCHANGED <<answer, credited, late, overran>>

Crash(w) ==
  /\ batch[w] # {}
  /\ batch' = [batch EXCEPT ![w] = {}]
  /\ UNCHANGED <<event, lease, lapsed, due, answer, credited, late, overran>>

\* Time: the lease of 5 minutes, the pause before the next attempt, the expiry
\* of the points.
LeaseLapses(e) ==
  /\ lease[e] # None /\ e \notin lapsed
  /\ lapsed' = lapsed \cup {e} /\ overran' = overran \cup {e}
  /\ UNCHANGED <<event, lease, due, batch, answer, credited, late>>

PauseEnds(e) ==
  /\ event[e] = "PENDING" /\ e \notin due
  /\ due' = due \cup {e}
  /\ UNCHANGED <<event, lease, lapsed, batch, answer, credited, late, overran>>

PointsExpire(e) ==
  /\ event[e] # None /\ e \notin late
  /\ late' = late \cup {e}
  /\ UNCHANGED <<event, lease, lapsed, due, batch, answer, credited, overran>>

Next ==
  \/ \E e \in Events : queueSocialReward(e) \/ LeaseLapses(e) \/ PauseEnds(e) \/ PointsExpire(e)
  \/ \E w \in Workers :
       \/ Claim(w) \/ Crash(w)
       \/ \E e \in Events : Settle(w, e) \/ \E result \in {"APPLIED", "REJECTED", "ERROR"} : RewardEngagement(w, e, result)

Spec == Init /\ [][Next]_vars

\* The loops run, time passes, and a worker that keeps trying does not crash
\* and the wallet does not fail every time.
Fairness ==
  /\ \A e \in Events : WF_vars(LeaseLapses(e)) /\ WF_vars(PauseEnds(e))
  /\ \A w \in Workers : WF_vars(Claim(w)) /\ \A e \in Events :
       /\ SF_vars(\E result \in {"APPLIED", "REJECTED"} : RewardEngagement(w, e, result))
       /\ WF_vars(Settle(w, e)) /\ SF_vars(Settle(w, e) /\ lease[e] = w /\ answer[w][e] # "ERROR")

----------------------------------------------------------------------------

\* What the event says is what the wallet did, at most once, however often
\* leases lapse under slow workers: a paid event was credited; a refused one was
\* not, unless a worker outlived its lease (one is refused by the cooldown and
\* settles, the other is credited afterwards) or the points had expired before
\* the credit could be settled.
SettledAsCredited ==
  \A e \in Events :
    /\ credited[e] <= 1
    /\ event[e] = "APPLIED" => credited[e] = 1
    /\ event[e] = "REJECTED" => credited[e] = 0 \/ e \in late \cup overran

\* Every queued reward is settled, whichever workers die on the way.
RewardsSettle == \A e \in Events : event[e] = "PENDING" ~> event[e] \in {"APPLIED", "REJECTED"}
=============================================================================
