----------------------------- MODULE Fulfilment -----------------------------
(***************************************************************************)
(* Delivery tasks and the riders who carry them (internal/fulfillment,     *)
(* PostgresService): riders are reviewed and go on and off duty, tasks are *)
(* offered to all riders of a zone and taken by the first, picked up,      *)
(* delivered and paid for, taken away and offered again; positions and     *)
(* pick-ups recorded off line are sent later, in numbered batches.         *)
(*                                                                         *)
(* Every command is a serializable transaction that locks the rows it      *)
(* reads, hence one step.                                                  *)
(***************************************************************************)
EXTENDS Naturals, Sequences, FiniteSets

CONSTANTS
  Riders, Tasks, Zones,
  ZonesOf,         \* zones of a rider's profile
  ZoneOf,          \* zone of each task
  MaxConcurrent,   \* profile.MaxConcurrent
  MaxRevision,     \* bound on the revisions of a task
  MaxSequence      \* bound, for each rider, on location updates and offline commands

VARIABLES
  profile,    \* fulfillment.rider_profiles: status
  duty,       \* zone of the rider's active session, or "OFF"
  task,       \* fulfillment.delivery_tasks
  declined,   \* fulfillment.offer_declines
  position,   \* fulfillment.rider_locations: sequence number, and whether it is fresh
  device,     \* commands each rider's device has recorded off line
  applied,    \* fulfillment.offline_commands: how many of them are applied
  earned      \* fulfillment.ledger_entries of deliveries

vars == <<profile, duty, task, declined, position, device, applied, earned>>

Nobody == "NOBODY"
NoTask == [status |-> "NONE", rider |-> Nobody, revision |-> 0, live |-> FALSE]
DeliveryTask ==
  [status : {"NONE", "READY_FOR_DISPATCH", "OFFERED", "ASSIGNED", "PICKED_UP", "DELIVERED", "REASSIGNMENT_REQUIRED"},
   rider : Riders \cup {Nobody}, revision : 0..MaxRevision, live : BOOLEAN]
OfflineCommand == [kind : {"LOCATION"}, old : BOOLEAN] \cup [kind : {"PICKUP"}, task : Tasks, revision : 0..MaxRevision]

QueuesOK ==
  /\ position \in [Riders -> [sequence : Nat, fresh : BOOLEAN]]
  /\ device \in [Riders -> Seq(OfflineCommand)]
  /\ applied \in [Riders -> Nat] /\ \A r \in Riders : applied[r] <= Len(device[r])

TypeOK ==
  /\ profile \in [Riders -> {"NONE", "KYC_REVIEW", "APPROVED", "SUSPENDED"}]
  /\ duty \in [Riders -> Zones \cup {"OFF"}]
  /\ task \in [Tasks -> DeliveryTask] /\ declined \subseteq Riders \X Tasks
  /\ QueuesOK /\ earned \subseteq Riders \X Tasks

Init ==
  /\ profile = [r \in Riders |-> "NONE"] /\ duty = [r \in Riders |-> "OFF"]
  /\ task = [t \in Tasks |-> NoTask] /\ declined = {}
  /\ position = [r \in Riders |-> [sequence |-> 0, fresh |-> FALSE]]
  /\ device = [r \in Riders |-> <<>>] /\ applied = [r \in Riders |-> 0]
  /\ earned = {}

----------------------------------------------------------------------------
(* Riders.                                                                 *)

RegisterRider(r) ==
  /\ profile[r] = "NONE" /\ profile' = [profile EXCEPT ![r] = "KYC_REVIEW"]
  /\ UNCHANGED <<duty, task, declined, position, device, applied, earned>>

ReviewRider(r, approved) ==
  /\ profile[r] = "KYC_REVIEW"
  /\ profile' = [profile EXCEPT ![r] = IF approved THEN "APPROVED" ELSE "SUSPENDED"]
  /\ UNCHANGED <<duty, task, declined, position, device, applied, earned>>

\* One active session per rider, by an index.
StartDuty(r, z) ==
  /\ profile[r] = "APPROVED" /\ z \in ZonesOf[r] /\ duty[r] = "OFF"
  /\ duty' = [duty EXCEPT ![r] = z]
  /\ UNCHANGED <<profile, task, declined, position, device, applied, earned>>

Active(r) == {t \in Tasks : task[t].rider = r /\ task[t].status \in {"ASSIGNED", "PICKED_UP"}}

\* Mutant: only what the rider carries keeps the rider on duty.
EndDutyEmptyHanded(r) ==
  /\ duty[r] # "OFF" /\ \A t \in Active(r) : task[t].status # "PICKED_UP"
  /\ duty' = [duty EXCEPT ![r] = "OFF"]
  /\ UNCHANGED <<profile, task, declined, position, device, applied, earned>>

EndDuty(r) ==
  /\ duty[r] # "OFF" /\ Active(r) = {}
  /\ duty' = [duty EXCEPT ![r] = "OFF"]
  /\ UNCHANGED <<profile, task, declined, position, device, applied, earned>>

----------------------------------------------------------------------------
(* Tasks.                                                                  *)

loadPostgresTask(t, statuses) == task[t].status \in statuses /\ task[t].revision < MaxRevision

stored(t, status, rider, live) ==
  [status |-> status, rider |-> rider, revision |-> task[t].revision + 1, live |-> live]

\* The command of a dispatcher who saw the last revision.
mutateTask(t, value) ==
  /\ task' = [task EXCEPT ![t] = value]
  /\ UNCHANGED <<profile, duty, declined, position, device, applied, earned>>

SeedTask(t) == task[t] = NoTask /\ mutateTask(t, stored(t, "READY_FOR_DISPATCH", Nobody, FALSE))

OfferTask(t) ==
  /\ loadPostgresTask(t, {"READY_FOR_DISPATCH", "REASSIGNMENT_REQUIRED"})
  /\ mutateTask(t, stored(t, "OFFERED", Nobody, TRUE))

\* Mutant: a task can be taken out of the hands of the rider who carries it.
ReassignCarried(t) ==
  /\ loadPostgresTask(t, {"ASSIGNED", "PICKED_UP", "REASSIGNMENT_REQUIRED"})
  /\ mutateTask(t, stored(t, "OFFERED", Nobody, TRUE))

\* Not from OFFERED: an offer nobody took in time can be neither taken nor
\* offered again.
Reassign(t) ==
  /\ loadPostgresTask(t, {"ASSIGNED", "REASSIGNMENT_REQUIRED"})
  /\ mutateTask(t, stored(t, "OFFERED", Nobody, TRUE))

\* What a rider may answer: an offer of the zone of the session that is not
\* over and that the rider has not declined before.
Offered(r, t) ==
  /\ loadPostgresTask(t, {"OFFERED"}) /\ task[t].live /\ task[t].rider = Nobody
  /\ profile[r] = "APPROVED" /\ duty[r] = ZoneOf[t]
  /\ <<r, t>> \notin declined

AcceptOffer(r, t) ==
  /\ Offered(r, t) /\ Cardinality(Active(r)) < MaxConcurrent
  /\ mutateTask(t, stored(t, "ASSIGNED", r, task[t].live))

\* For good: the rider is not offered the task again.
DeclineOffer(r, t) ==
  /\ Offered(r, t)
  /\ declined' = declined \cup {<<r, t>>}
  /\ UNCHANGED <<profile, duty, task, position, device, applied, earned>>

mutateRiderTask(r, t, from) == loadPostgresTask(t, {from}) /\ task[t].rider = r

MarkPickedUp(r, t) ==
  /\ mutateRiderTask(r, t, "ASSIGNED")
  /\ mutateTask(t, stored(t, "PICKED_UP", r, task[t].live))

\* One entry per account, reference and kind.
createPostgresEarning(r, t) == earned' = earned \cup {<<r, t>>}

CompleteDelivery(r, t) ==
  /\ mutateRiderTask(r, t, "PICKED_UP")
  /\ task' = [task EXCEPT ![t] = stored(t, "DELIVERED", r, task[t].live)]
  /\ createPostgresEarning(r, t)
  /\ UNCHANGED <<profile, duty, declined, position, device, applied>>

\* Every assignment to a rider without a fresh position is flagged; the rider
\* stays in the row until the task is offered again.
SweepStaleAssignments ==
  LET stale == {t \in Tasks : loadPostgresTask(t, {"ASSIGNED"}) /\ ~position[task[t].rider].fresh}
  IN  /\ stale # {}
      /\ task' = [t \in Tasks |-> IF t \in stale THEN stored(t, "REASSIGNMENT_REQUIRED", task[t].rider, task[t].live)
                                  ELSE task[t]]
      /\ UNCHANGED <<profile, duty, declined, position, device, applied, earned>>

----------------------------------------------------------------------------
(* Positions and the offline queue.                                        *)

UpdateLocation(r, sequence) ==
  /\ duty[r] # "OFF" /\ sequence > position[r].sequence
  /\ position' = [position EXCEPT ![r] = [sequence |-> sequence, fresh |-> TRUE]]
  /\ UNCHANGED <<profile, duty, task, declined, device, applied, earned>>

\* The device of a rider without network writes a command down.
Record(r, command) ==
  /\ Len(device[r]) < MaxSequence[r]
  /\ command.kind = "PICKUP" => mutateRiderTask(r, command.task, "ASSIGNED") /\ command.revision = task[command.task].revision
  /\ device' = [device EXCEPT ![r] = Append(@, command)]
  /\ UNCHANGED <<profile, duty, task, declined, position, applied, earned>>

Locations(r, n) == Cardinality({i \in applied[r] + 1..n : device[r][i].kind = "LOCATION"})
PickedUp(r, n) == {t \in Tasks : \E i \in applied[r] + 1..n : device[r][i].kind = "PICKUP" /\ device[r][i].task = t}

\* The device sends its commands up to number n; those applied before are
\* answered from the table.  One that cannot be applied refuses the batch.  A
\* position is given the number after the last one, although it may have been
\* captured up to a quarter of an hour before that: what is shown as the rider's
\* fresh position is then the older of the two.
RecoverOffline(r, n) ==
  /\ n \in applied[r] + 1..Len(device[r])
  /\ Locations(r, n) > 0 => duty[r] # "OFF" /\ \A i \in applied[r] + 1..n : device[r][i].kind = "LOCATION" => ~device[r][i].old
  /\ \A i \in applied[r] + 1..n : device[r][i].kind = "PICKUP" =>
       mutateRiderTask(r, device[r][i].task, "ASSIGNED") /\ device[r][i].revision = task[device[r][i].task].revision
  /\ \A i, j \in applied[r] + 1..n :
       device[r][i].kind = "PICKUP" /\ device[r][j].kind = "PICKUP" /\ device[r][i].task = device[r][j].task => i = j
  /\ applied' = [applied EXCEPT ![r] = n]
  /\ position' = [position EXCEPT ![r] = [sequence |-> @.sequence + Locations(r, n), fresh |-> @.fresh \/ Locations(r, n) > 0]]
  /\ task' = [t \in Tasks |-> IF t \in PickedUp(r, n) THEN stored(t, "PICKED_UP", r, task[t].live) ELSE task[t]]
  /\ UNCHANGED <<profile, duty, declined, device, earned>>

----------------------------------------------------------------------------
(* Time.                                                                   *)

OfferLapses(t) ==
  /\ task[t].status = "OFFERED" /\ task[t].live
  /\ task' = [task EXCEPT ![t].live = FALSE]
  /\ UNCHANGED <<profile, duty, declined, position, device, applied, earned>>

PositionAges(r) ==
  /\ position[r].fresh /\ position' = [position EXCEPT ![r].fresh = FALSE]
  /\ UNCHANGED <<profile, duty, task, declined, device, applied, earned>>

\* A position captured a quarter of an hour ago is refused, and with it every
\* batch that contains it.
RecordAges(r, i) ==
  /\ i \in applied[r] + 1..Len(device[r]) /\ device[r][i].kind = "LOCATION" /\ ~device[r][i].old
  /\ device' = [device EXCEPT ![r][i].old = TRUE]
  /\ UNCHANGED <<profile, duty, task, declined, position, applied, earned>>

Next ==
  \/ SweepStaleAssignments
  \/ \E r \in Riders :
       \/ RegisterRider(r) \/ EndDuty(r) \/ PositionAges(r)
       \/ \E approved \in BOOLEAN : ReviewRider(r, approved)
       \/ \E z \in Zones : StartDuty(r, z)
       \/ \E t \in Tasks : AcceptOffer(r, t) \/ DeclineOffer(r, t) \/ MarkPickedUp(r, t) \/ CompleteDelivery(r, t)
       \/ \E n \in 1..MaxSequence[r] : RecoverOffline(r, n) \/ UpdateLocation(r, n) \/ RecordAges(r, n)
       \/ Record(r, [kind |-> "LOCATION", old |-> FALSE])
       \/ \E t \in Tasks : Record(r, [kind |-> "PICKUP", task |-> t, revision |-> task[t].revision])
  \/ \E t \in Tasks : SeedTask(t) \/ OfferTask(t) \/ Reassign(t) \/ OfferLapses(t)

Spec == Init /\ [][Next]_vars

----------------------------------------------------------------------------

\* Whoever has a task is an approved rider on duty in its zone who never
\* declined it and has no more tasks than allowed; a delivery is paid for once,
\* to the rider who made it, and nothing else is.
RiderHoldsDuty ==
  /\ \A t \in Tasks : task[t].status \in {"ASSIGNED", "PICKED_UP"} =>
       LET r == task[t].rider
       IN  profile[r] = "APPROVED" /\ duty[r] = ZoneOf[t] /\ <<r, t>> \notin declined
  /\ \A r \in Riders : Cardinality(Active(r)) <= MaxConcurrent
  /\ earned = {<<task[t].rider, t>> : t \in {u \in Tasks : task[u].status = "DELIVERED"}}

\* A pick-up that was recorded off line and applied stands: whatever was offered,
\* reassigned or sent again meanwhile, its task is the recorder's, picked up or
\* delivered.
PickupsStand ==
  \A r \in Riders : \A i \in 1..applied[r] : device[r][i].kind = "PICKUP" =>
    LET t == device[r][i].task
    IN  task[t].rider = r /\ task[t].status \in {"PICKED_UP", "DELIVERED"}

\* What has been picked up, on line or by a command recorded off line, does not
\* change hands and is not offered again, and a pick-up that was applied stands.
CarriedToTheEnd ==
  /\ []PickupsStand
  /\ [][\A t \in Tasks : task[t].status \in {"PICKED_UP", "DELIVERED"} =>
          task'[t].rider = task[t].rider /\ task'[t].status \in {"PICKED_UP", "DELIVERED"}]_vars

\* Sooner or later an offer is answered or made again.  It is not: the code
\* never takes up an offer whose time has passed.
OfferEnds == \A t \in Tasks : task[t].status = "OFFERED" ~> task[t].status # "OFFERED"
=============================================================================
