---------------------------- MODULE TradeProofs ----------------------------
(***************************************************************************)
(* Proofs about the components of the shop that keep their rows to         *)
(* themselves, for every value of the constants of Trade.                  *)
(***************************************************************************)
EXTENDS Trade, Sums, TLAPS, FiniteSetTheorems, WellFoundedInduction

----------------------------------------------------------------------------
(* Deliveries (internal/fulfillment).  The invariant adds that a task      *)
(* taken, carried, delivered or taken away has a rider.                    *)

Holding(k) == k.status \in {"ASSIGNED", "PICKED_UP"}
HasRider(k) == k.status \in {"ASSIGNED", "PICKED_UP", "DELIVERED", "REASSIGNMENT_REQUIRED"}

Duties ==
  /\ riderProfile \in [Riders -> {"NONE", "KYC_REVIEW", "APPROVED", "SUSPENDED"}]
  /\ riderDuty \in [Riders -> Zones \cup {"OFF"}]
  /\ riderDeclined \subseteq Riders \X Tasks
Rows ==
  /\ riderTask \in [Tasks -> Dispatch!DeliveryTask]
  /\ \A t \in Tasks : HasRider(riderTask[t]) => riderTask[t].rider \in Riders
Held ==
  \A t \in Tasks : Holding(riderTask[t]) =>
    /\ riderProfile[riderTask[t].rider] = "APPROVED" /\ riderDuty[riderTask[t].rider] = ZoneOf[t]
    /\ <<riderTask[t].rider, t>> \notin riderDeclined
Few == \A r \in Riders : Cardinality(Dispatch!Active(r)) <= MaxConcurrent
Earned ==
  /\ riderEarned \subseteq Riders \X Tasks
  /\ riderEarned = {<<riderTask[t].rider, t>> : t \in {u \in Tasks : riderTask[u].status = "DELIVERED"}}

DutyInv == Duties /\ Rows /\ Dispatch!QueuesOK /\ Held /\ Few /\ Earned

\* The instance's cardinality is the one the library's theorems are about.
LEMMA SameCardinality == \A S : Dispatch!Cardinality(S) = Cardinality(S)
BY DEF Dispatch!Cardinality, Cardinality, Dispatch!IsFiniteSet, IsFiniteSet

\* The invariant is what the run checks, and more.
LEMMA DutyImplies == DutyInv => RiderHoldsDuty
<1> SUFFICES ASSUME DutyInv PROVE RiderHoldsDuty
  OBVIOUS
<1>1. Dispatch!TypeOK
  BY DEF DutyInv, Duties, Rows, Earned, Dispatch!TypeOK
<1>2. Dispatch!RiderHoldsDuty
  <2>1. Held /\ Few /\ Earned
    BY DEF DutyInv
  <2> QED BY <2>1, SameCardinality, Zenon DEF Held, Holding, Few, Earned, Dispatch!RiderHoldsDuty
<1> QED BY <1>1, <1>2 DEF RiderHoldsDuty

\* Nobody has more tasks than before when no task is taken.
LEMMA NoneTaken ==
  ASSUME Rows, Few, \A t \in Tasks : Holding(riderTask'[t]) => Holding(riderTask[t]) /\ riderTask'[t].rider = riderTask[t].rider
  PROVE  Few'
<1> SUFFICES ASSUME NEW r \in Riders
             PROVE  Cardinality(Dispatch!Active(r)') <= MaxConcurrent
  BY DEF Few
<1>1. Dispatch!Active(r)' \subseteq Dispatch!Active(r) /\ Dispatch!Active(r) \subseteq Tasks
  BY DEF Dispatch!Active, Holding
<1>2. IsFiniteSet(Dispatch!Active(r)) /\ IsFiniteSet(Dispatch!Active(r)')
  BY <1>1, DeliveryAssumption, FS_Subset
<1>3. Cardinality(Dispatch!Active(r)') <= Cardinality(Dispatch!Active(r))
  BY <1>1, <1>2, FS_Subset
<1>4. Cardinality(Dispatch!Active(r)') \in Nat /\ Cardinality(Dispatch!Active(r)) \in Nat
  BY <1>2, FS_CardinalityType
<1> QED BY <1>3, <1>4, DeliveryAssumption DEF Few

\* What a revision of a row is.
LEMMA StoredRow ==
  ASSUME Rows, NEW t \in Tasks, riderTask[t].revision < MaxTaskRevision, NEW rider \in Riders \cup {"NOBODY"},
         NEW status \in {"NONE", "READY_FOR_DISPATCH", "OFFERED", "ASSIGNED", "PICKED_UP", "DELIVERED", "REASSIGNMENT_REQUIRED"},
         NEW live \in BOOLEAN
  PROVE  /\ Dispatch!stored(t, status, rider, live) \in Dispatch!DeliveryTask
         /\ Dispatch!stored(t, status, rider, live).status = status
         /\ Dispatch!stored(t, status, rider, live).rider = rider
<1>1. riderTask[t].revision \in 0..MaxTaskRevision
  BY DEF Rows, Dispatch!DeliveryTask
<1>2. riderTask[t].revision + 1 \in 0..MaxTaskRevision
  BY <1>1, DeliveryAssumption
<1> QED BY <1>2 DEF Dispatch!stored, Dispatch!DeliveryTask, Dispatch!Nobody

LEMMA RowFields ==
  ASSUME Rows, NEW t \in Tasks
  PROVE  riderTask[t].live \in BOOLEAN /\ riderTask[t].rider \in Riders \cup {"NOBODY"} /\ riderTask[t].revision \in 0..MaxTaskRevision
BY DEF Rows, Dispatch!DeliveryTask, Dispatch!Nobody

\* A step that takes no task and delivers none keeps the invariant's parts.
Harmless(t) ==
  \/ riderTask'[t] = riderTask[t]
  \/ /\ HasRider(riderTask'[t]) => riderTask'[t].rider \in Riders
     /\ Holding(riderTask'[t]) => Holding(riderTask[t]) /\ riderTask'[t].rider = riderTask[t].rider
     /\ riderTask[t].status # "DELIVERED" /\ riderTask'[t].status # "DELIVERED"

LEMMA TasksKept ==
  ASSUME DutyInv, riderTask' \in [Tasks -> Dispatch!DeliveryTask], \A t \in Tasks : Harmless(t),
         UNCHANGED <<riderProfile, riderDuty, riderDeclined, riderEarned>>
  PROVE  Duties' /\ Rows' /\ Held' /\ Few' /\ Earned'
<1>1. \A t \in Tasks : Holding(riderTask'[t]) => Holding(riderTask[t]) /\ riderTask'[t].rider = riderTask[t].rider
  BY DEF Harmless
<1>2. Duties'
  BY DEF DutyInv, Duties
<1>3. Rows'
  <2>1. ASSUME NEW t \in Tasks, HasRider(riderTask'[t]) PROVE riderTask'[t].rider \in Riders
    BY <2>1 DEF DutyInv, Rows, Harmless, HasRider
  <2> QED BY <2>1 DEF Rows, HasRider
<1>4. Held'
  BY <1>1 DEF DutyInv, Held, Holding
<1>5. Few'
  BY <1>1, NoneTaken DEF DutyInv
<1>6. Earned'
  <2>1. \A t \in Tasks : riderTask'[t].status = "DELIVERED" <=> riderTask[t].status = "DELIVERED"
    BY DEF Harmless
  <2>2. \A t \in Tasks : riderTask[t].status = "DELIVERED" => riderTask'[t].rider = riderTask[t].rider
    BY DEF Harmless
  <2>3. {<<riderTask'[t].rider, t>> : t \in {u \in Tasks : riderTask'[u].status = "DELIVERED"}}
          = {<<riderTask[t].rider, t>> : t \in {u \in Tasks : riderTask[u].status = "DELIVERED"}}
    BY <2>1, <2>2, Zenon
  <2> QED BY <2>3 DEF DutyInv, Earned
<1> QED BY <1>2, <1>3, <1>4, <1>5, <1>6

\* The same for a step that writes one row.
LEMMA TaskKept ==
  ASSUME DutyInv, NEW t \in Tasks, NEW value \in Dispatch!DeliveryTask, Dispatch!mutateTask(t, value),
         HasRider(value) => value.rider \in Riders,
         Holding(value) => Holding(riderTask[t]) /\ value.rider = riderTask[t].rider,
         riderTask[t].status # "DELIVERED", value.status # "DELIVERED"
  PROVE  DutyInv'
<1>1. riderTask \in [Tasks -> Dispatch!DeliveryTask] /\ Dispatch!QueuesOK
  BY DEF DutyInv, Rows
<1>2. riderTask' = [riderTask EXCEPT ![t] = value]
      /\ UNCHANGED <<riderProfile, riderDuty, riderDeclined, riderPosition, riderDevice, riderApplied, riderEarned>>
  BY DEF Dispatch!mutateTask
<1>3. riderTask' \in [Tasks -> Dispatch!DeliveryTask]
  BY <1>1, <1>2
<1>4. \A u \in Tasks : Harmless(u)
  BY <1>1, <1>2 DEF Harmless
<1>5. Duties' /\ Rows' /\ Held' /\ Few' /\ Earned'
  BY <1>2, <1>3, <1>4, TasksKept
<1>6. Dispatch!QueuesOK'
  BY <1>1, <1>2 DEF Dispatch!QueuesOK
<1> QED BY <1>5, <1>6 DEF DutyInv

\* The first to answer an offer has the task, and had room for it.
LEMMA AcceptKeeps ==
  ASSUME DutyInv, NEW r \in Riders, NEW t \in Tasks, Dispatch!AcceptOffer(r, t)
  PROVE  DutyInv'
<1> DEFINE value == Dispatch!stored(t, "ASSIGNED", r, riderTask[t].live)
<1>1. /\ riderTask[t].status = "OFFERED" /\ riderTask[t].revision < MaxTaskRevision
      /\ riderProfile[r] = "APPROVED" /\ riderDuty[r] = ZoneOf[t] /\ <<r, t>> \notin riderDeclined
      /\ Cardinality(Dispatch!Active(r)) < MaxConcurrent
      /\ Dispatch!mutateTask(t, value)
  BY SameCardinality DEF Dispatch!AcceptOffer, Dispatch!Offered, Dispatch!loadPostgresTask
<1>2. Duties /\ Rows /\ Dispatch!QueuesOK /\ Held /\ Few /\ Earned
  BY DEF DutyInv
<1>3. value \in Dispatch!DeliveryTask /\ value.status = "ASSIGNED" /\ value.rider = r
  BY <1>1, <1>2, StoredRow, RowFields
<1>4. riderTask' = [riderTask EXCEPT ![t] = value]
      /\ UNCHANGED <<riderProfile, riderDuty, riderDeclined, riderPosition, riderDevice, riderApplied, riderEarned>>
  BY <1>1 DEF Dispatch!mutateTask
<1> HIDE DEF value
<1>5. riderTask' \in [Tasks -> Dispatch!DeliveryTask] /\ riderTask'[t] = value /\ \A u \in Tasks \ {t} : riderTask'[u] = riderTask[u]
  BY <1>2, <1>3, <1>4 DEF Rows
<1>6. Duties' /\ Rows' /\ Held' /\ Dispatch!QueuesOK'
  BY <1>1, <1>2, <1>3, <1>4, <1>5 DEF Duties, Rows, Held, Holding, HasRider, Dispatch!QueuesOK
<1>7. Earned'
  <2>1. {<<riderTask'[u].rider, u>> : u \in {v \in Tasks : riderTask'[v].status = "DELIVERED"}}
          = {<<riderTask[u].rider, u>> : u \in {v \in Tasks : riderTask[v].status = "DELIVERED"}}
    BY <1>1, <1>3, <1>5
  <2> QED BY <1>2, <1>4, <2>1 DEF Earned
<1>8. Few'
  <2> SUFFICES ASSUME NEW q \in Riders PROVE Cardinality(Dispatch!Active(q)') <= MaxConcurrent
    BY DEF Few
  <2>1. Dispatch!Active(q) \subseteq Tasks /\ IsFiniteSet(Dispatch!Active(q))
    BY DeliveryAssumption, FS_Subset DEF Dispatch!Active
  <2>2. CASE q = r
    <3>1. Dispatch!Active(q)' = Dispatch!Active(q) \cup {t}
      BY <1>1, <1>3, <1>5, <2>2 DEF Dispatch!Active
    <3>2. t \notin Dispatch!Active(q)
      BY <1>1 DEF Dispatch!Active
    <3>3. Cardinality(Dispatch!Active(q)') = Cardinality(Dispatch!Active(q)) + 1 /\ Cardinality(Dispatch!Active(q)) \in Nat
      BY <2>1, <3>1, <3>2, FS_AddElement, FS_CardinalityType
    <3> QED BY <1>1, <2>2, <3>3, DeliveryAssumption
  <2>3. CASE q # r
    <3>1. Dispatch!Active(q)' = Dispatch!Active(q)
      BY <1>1, <1>3, <1>5, <2>3 DEF Dispatch!Active
    <3> QED BY <1>2, <3>1 DEF Few
  <2> QED BY <2>2, <2>3
<1> QED BY <1>6, <1>7, <1>8 DEF DutyInv

\* A delivery is entered for the rider of the row.
LEMMA CompleteKeeps ==
  ASSUME DutyInv, NEW r \in Riders, NEW t \in Tasks, Dispatch!CompleteDelivery(r, t)
  PROVE  DutyInv'
<1> DEFINE value == Dispatch!stored(t, "DELIVERED", r, riderTask[t].live)
<1>1. /\ riderTask[t].status = "PICKED_UP" /\ riderTask[t].revision < MaxTaskRevision /\ riderTask[t].rider = r
      /\ riderTask' = [riderTask EXCEPT ![t] = value] /\ riderEarned' = riderEarned \cup {<<r, t>>}
      /\ UNCHANGED <<riderProfile, riderDuty, riderDeclined, riderPosition, riderDevice, riderApplied>>
  BY DEF Dispatch!CompleteDelivery, Dispatch!mutateRiderTask, Dispatch!loadPostgresTask, Dispatch!createPostgresEarning
<1>2. Duties /\ Rows /\ Dispatch!QueuesOK /\ Held /\ Few /\ Earned
  BY DEF DutyInv
<1>3. value \in Dispatch!DeliveryTask /\ value.status = "DELIVERED" /\ value.rider = r
  BY <1>1, <1>2, StoredRow, RowFields
<1> HIDE DEF value
<1>4. riderTask' \in [Tasks -> Dispatch!DeliveryTask] /\ riderTask'[t] = value /\ \A u \in Tasks \ {t} : riderTask'[u] = riderTask[u]
  BY <1>1, <1>2, <1>3 DEF Rows
<1>5. Duties' /\ Rows' /\ Held' /\ Dispatch!QueuesOK'
  BY <1>1, <1>2, <1>3, <1>4 DEF Duties, Rows, Held, Holding, HasRider, Dispatch!QueuesOK
<1>6. Few'
  BY <1>2, <1>3, <1>4, NoneTaken DEF Holding
<1>7. Earned'
  <2>1. {<<riderTask'[u].rider, u>> : u \in {v \in Tasks : riderTask'[v].status = "DELIVERED"}}
          = {<<riderTask[u].rider, u>> : u \in {v \in Tasks : riderTask[v].status = "DELIVERED"}} \cup {<<r, t>>}
    BY <1>1, <1>3, <1>4
  <2> QED BY <1>1, <1>2, <2>1 DEF Earned
<1> QED BY <1>5, <1>6, <1>7 DEF DutyInv

\* The sweep flags rows that are assigned, and leaves their riders in them.
LEMMA SweepKeeps ==
  ASSUME DutyInv, Dispatch!SweepStaleAssignments
  PROVE  DutyInv'
<1> DEFINE stale == {t \in Tasks : Dispatch!loadPostgresTask(t, {"ASSIGNED"}) /\ ~riderPosition[riderTask[t].rider].fresh}
           row(t) == Dispatch!stored(t, "REASSIGNMENT_REQUIRED", riderTask[t].rider, riderTask[t].live)
<1>1. /\ riderTask' = [t \in Tasks |-> IF t \in stale THEN row(t) ELSE riderTask[t]]
      /\ UNCHANGED <<riderProfile, riderDuty, riderDeclined, riderPosition, riderDevice, riderApplied, riderEarned>>
  BY DEF Dispatch!SweepStaleAssignments
<1>2. Rows /\ Dispatch!QueuesOK
  BY DEF DutyInv
<1>3. ASSUME NEW t \in stale
      PROVE  /\ row(t) \in Dispatch!DeliveryTask /\ row(t).status = "REASSIGNMENT_REQUIRED" /\ row(t).rider = riderTask[t].rider
             /\ riderTask[t].status = "ASSIGNED"
  <2>1. t \in Tasks /\ riderTask[t].status = "ASSIGNED" /\ riderTask[t].revision < MaxTaskRevision
    BY <1>3 DEF Dispatch!loadPostgresTask
  <2>2. riderTask[t].live \in BOOLEAN /\ riderTask[t].rider \in Riders \cup {"NOBODY"}
    BY <1>2, <2>1, RowFields
  <2> QED BY <1>2, <2>1, <2>2, StoredRow
<1> HIDE DEF stale, row
<1>4. riderTask' \in [Tasks -> Dispatch!DeliveryTask]
  BY <1>1, <1>2, <1>3 DEF Rows
<1>5. ASSUME NEW t \in Tasks PROVE Harmless(t)
  BY <1>1, <1>2, <1>3 DEF Harmless, Rows, HasRider, Holding
<1>6. Duties' /\ Rows' /\ Held' /\ Few' /\ Earned'
  BY <1>1, <1>4, <1>5, TasksKept
<1>7. Dispatch!QueuesOK'
  BY <1>1, <1>2 DEF Dispatch!QueuesOK
<1> QED BY <1>6, <1>7 DEF DutyInv

\* How many positions a batch has is a number.
LEMMA LocationsNat ==
  ASSUME Dispatch!QueuesOK, NEW r \in Riders, NEW n \in Nat
  PROVE  Dispatch!Locations(r, n) \in Nat
<1> DEFINE S == {i \in riderApplied[r] + 1..n : riderDevice[r][i].kind = "LOCATION"}
<1>1. riderApplied[r] + 1 \in Int /\ n \in Int
  BY DEF Dispatch!QueuesOK
<1>2. IsFiniteSet(riderApplied[r] + 1..n)
  BY <1>1, FS_Interval
<1>3. S \subseteq riderApplied[r] + 1..n
  OBVIOUS
<1>4. IsFiniteSet(S)
  BY <1>2, <1>3, FS_Subset
<1>5. Cardinality(S) \in Nat
  BY <1>4, FS_CardinalityType
<1> QED BY <1>5, SameCardinality DEF Dispatch!Locations

\* A batch picks up what is assigned to the rider who sends it.
LEMMA RecoverKeeps ==
  ASSUME DutyInv, NEW r \in Riders, NEW n \in 1..MaxSequence[r], Dispatch!RecoverOffline(r, n)
  PROVE  DutyInv'
<1> DEFINE picked == Dispatch!PickedUp(r, n)
           row(t) == Dispatch!stored(t, "PICKED_UP", r, riderTask[t].live)
           position == [sequence |-> riderPosition[r].sequence + Dispatch!Locations(r, n),
                        fresh |-> riderPosition[r].fresh \/ Dispatch!Locations(r, n) > 0]
<1>0. n \in Nat
  BY DeliveryAssumption
<1>1. /\ riderTask' = [t \in Tasks |-> IF t \in picked THEN row(t) ELSE riderTask[t]]
      /\ n \in riderApplied[r] + 1..Dispatch!Len(riderDevice[r])
      /\ riderApplied' = [riderApplied EXCEPT ![r] = n]
      /\ riderPosition' = [riderPosition EXCEPT ![r] = position]
      /\ UNCHANGED <<riderProfile, riderDuty, riderDeclined, riderDevice, riderEarned>>
  BY DEF Dispatch!RecoverOffline
<1>2. Rows /\ Dispatch!QueuesOK
  BY DEF DutyInv
<1>3. ASSUME NEW t \in picked
      PROVE  /\ t \in Tasks /\ row(t) \in Dispatch!DeliveryTask /\ row(t).status = "PICKED_UP" /\ row(t).rider = r
             /\ riderTask[t].status = "ASSIGNED" /\ riderTask[t].rider = r
  <2>1. t \in Tasks
    BY <1>3 DEF Dispatch!PickedUp
  <2>2. PICK i \in riderApplied[r] + 1..n : riderDevice[r][i].kind = "PICKUP" /\ riderDevice[r][i].task = t
    BY <1>3 DEF Dispatch!PickedUp
  <2>3. Dispatch!mutateRiderTask(r, t, "ASSIGNED")
    BY <2>2 DEF Dispatch!RecoverOffline
  <2>4. riderTask[t].status = "ASSIGNED" /\ riderTask[t].revision < MaxTaskRevision /\ riderTask[t].rider = r
    BY <2>3 DEF Dispatch!mutateRiderTask, Dispatch!loadPostgresTask
  <2>5. riderTask[t].live \in BOOLEAN
    BY <1>2, <2>1, RowFields
  <2> QED BY <1>2, <2>1, <2>4, <2>5, StoredRow
<1>4. Dispatch!Locations(r, n) \in Nat
  BY <1>0, <1>2, LocationsNat
<1>5. position \in [sequence : Nat, fresh : BOOLEAN]
  BY <1>2, <1>4 DEF Dispatch!QueuesOK
<1> HIDE DEF picked, row, position
<1>6. riderTask' \in [Tasks -> Dispatch!DeliveryTask]
  BY <1>1, <1>2, <1>3 DEF Rows
<1>7. ASSUME NEW t \in Tasks PROVE Harmless(t)
  BY <1>1, <1>2, <1>3 DEF Harmless, Rows, HasRider, Holding
<1>8. Duties' /\ Rows' /\ Held' /\ Few' /\ Earned'
  BY <1>1, <1>6, <1>7, TasksKept
<1>9. Dispatch!QueuesOK'
  BY <1>0, <1>1, <1>2, <1>5 DEF Dispatch!QueuesOK
<1> QED BY <1>8, <1>9 DEF DutyInv

\* What a device writes down is a command.
LEMMA RecordKeeps ==
  ASSUME DutyInv, NEW r \in Riders, NEW command \in Dispatch!OfflineCommand, Dispatch!Record(r, command)
  PROVE  DutyInv'
<1>1. /\ riderDevice' = [riderDevice EXCEPT ![r] = Dispatch!Append(@, command)]
      /\ UNCHANGED <<riderProfile, riderDuty, riderTask, riderDeclined, riderPosition, riderApplied, riderEarned>>
  BY DEF Dispatch!Record
<1>2. Duties /\ Rows /\ Dispatch!QueuesOK /\ Held /\ Few /\ Earned
  BY DEF DutyInv
<1>3. riderTask' \in [Tasks -> Dispatch!DeliveryTask] /\ \A t \in Tasks : Harmless(t)
  BY <1>1, <1>2 DEF Rows, Harmless
<1>4. Duties' /\ Rows' /\ Held' /\ Few' /\ Earned'
  BY <1>1, <1>3, TasksKept
<1>5. Dispatch!QueuesOK'
  BY <1>1, <1>2 DEF Dispatch!QueuesOK
<1> QED BY <1>4, <1>5 DEF DutyInv

LEMMA ExceptKeepsSeq ==
  ASSUME NEW S, NEW s \in Dispatch!Seq(S), NEW i \in 1..Dispatch!Len(s), NEW v \in S
  PROVE  [s EXCEPT ![i] = v] \in Dispatch!Seq(S) /\ Dispatch!Len([s EXCEPT ![i] = v]) = Dispatch!Len(s)
OBVIOUS

\* A position that grew old is still a command of its queue.
LEMMA RecordAgesKeeps ==
  ASSUME DutyInv, NEW r \in Riders, NEW i \in Nat, Dispatch!RecordAges(r, i)
  PROVE  DutyInv'
<1> DEFINE old == [riderDevice[r][i] EXCEPT !.old = TRUE]
<1>1. /\ riderDevice' = [riderDevice EXCEPT ![r][i].old = TRUE]
      /\ i \in riderApplied[r] + 1..Dispatch!Len(riderDevice[r]) /\ riderDevice[r][i].kind = "LOCATION"
      /\ UNCHANGED <<riderProfile, riderDuty, riderTask, riderDeclined, riderPosition, riderApplied, riderEarned>>
  BY DEF Dispatch!RecordAges
<1>2. Duties /\ Rows /\ Dispatch!QueuesOK /\ Held /\ Few /\ Earned
  BY DEF DutyInv
<1>3. riderTask' \in [Tasks -> Dispatch!DeliveryTask] /\ \A t \in Tasks : Harmless(t)
  BY <1>1, <1>2 DEF Rows, Harmless
<1>4. Duties' /\ Rows' /\ Held' /\ Few' /\ Earned'
  BY <1>1, <1>3, TasksKept
<1>5. Dispatch!QueuesOK'
  <2>1. riderDevice[r][i] \in Dispatch!OfflineCommand
    BY <1>1, <1>2 DEF Dispatch!QueuesOK
  <2>2. old \in Dispatch!OfflineCommand
    BY <1>1, <2>1 DEF Dispatch!OfflineCommand
  <2>3. riderDevice' = [riderDevice EXCEPT ![r] = [riderDevice[r] EXCEPT ![i] = old]]
    BY <1>1
  <2> HIDE DEF old
  <2>4. riderDevice[r] \in Dispatch!Seq(Dispatch!OfflineCommand) /\ i \in 1..Dispatch!Len(riderDevice[r])
    BY <1>1, <1>2 DEF Dispatch!QueuesOK
  <2>5. /\ [riderDevice[r] EXCEPT ![i] = old] \in Dispatch!Seq(Dispatch!OfflineCommand)
        /\ Dispatch!Len([riderDevice[r] EXCEPT ![i] = old]) = Dispatch!Len(riderDevice[r])
    BY <2>2, <2>4, ExceptKeepsSeq
  <2> QED BY <1>1, <1>2, <2>3, <2>5 DEF Dispatch!QueuesOK
<1> QED BY <1>4, <1>5 DEF DutyInv

\* Steps that write no row of a task.
LEMMA RiderKeeps ==
  ASSUME DutyInv, NEW r \in Riders,
         \/ Dispatch!RegisterRider(r) \/ Dispatch!EndDuty(r) \/ Dispatch!PositionAges(r)
         \/ \E approved \in BOOLEAN : Dispatch!ReviewRider(r, approved)
         \/ \E z \in Zones : Dispatch!StartDuty(r, z)
         \/ \E t \in Tasks : Dispatch!DeclineOffer(r, t)
         \/ \E n \in 1..MaxSequence[r] : Dispatch!UpdateLocation(r, n)
  PROVE  DutyInv'
<1>1. Duties /\ Rows /\ Dispatch!QueuesOK /\ Held /\ Few /\ Earned
  BY DEF DutyInv
<1>2. UNCHANGED <<riderTask, riderEarned, riderDevice, riderApplied>>
  BY DEF Dispatch!RegisterRider, Dispatch!EndDuty, Dispatch!PositionAges, Dispatch!ReviewRider, Dispatch!StartDuty,
         Dispatch!DeclineOffer, Dispatch!UpdateLocation
<1>3. Rows' /\ Earned'
  BY <1>1, <1>2 DEF Rows, Earned
<1>4. Few'
  BY <1>1, <1>2, NoneTaken
<1>5. Dispatch!QueuesOK'
  <2>1. riderPosition' \in [Riders -> [sequence : Nat, fresh : BOOLEAN]]
    <3>1. riderPosition \in [Riders -> [sequence : Nat, fresh : BOOLEAN]]
      BY <1>1 DEF Dispatch!QueuesOK
    <3>2. CASE Dispatch!PositionAges(r)
      BY <3>1, <3>2 DEF Dispatch!PositionAges
    <3>3. ASSUME NEW n \in 1..MaxSequence[r], Dispatch!UpdateLocation(r, n)
          PROVE  riderPosition' \in [Riders -> [sequence : Nat, fresh : BOOLEAN]]
      BY <3>1, <3>3, DeliveryAssumption DEF Dispatch!UpdateLocation
    <3>4. CASE UNCHANGED riderPosition
      BY <3>1, <3>4
    <3> QED BY <3>2, <3>3, <3>4 DEF Dispatch!RegisterRider, Dispatch!EndDuty, Dispatch!ReviewRider, Dispatch!StartDuty,
            Dispatch!DeclineOffer
  <2> QED BY <1>1, <1>2, <2>1 DEF Dispatch!QueuesOK
<1>6. Duties'
  BY <1>1 DEF Duties, Dispatch!RegisterRider, Dispatch!EndDuty, Dispatch!PositionAges, Dispatch!ReviewRider,
     Dispatch!StartDuty, Dispatch!DeclineOffer, Dispatch!UpdateLocation
<1>7. Held'
  <2> SUFFICES ASSUME NEW u \in Tasks, Holding(riderTask[u])
               PROVE  /\ riderProfile'[riderTask[u].rider] = "APPROVED" /\ riderDuty'[riderTask[u].rider] = ZoneOf[u]
                      /\ <<riderTask[u].rider, u>> \notin riderDeclined'
    BY <1>2 DEF Held, Holding
  <2> DEFINE h == riderTask[u].rider
  <2>1. h \in Riders /\ riderProfile[h] = "APPROVED" /\ riderDuty[h] = ZoneOf[u] /\ <<h, u>> \notin riderDeclined /\ ZoneOf[u] # "OFF"
    BY <1>1, DeliveryAssumption DEF Rows, Held, Holding, HasRider
  <2>2. riderProfile'[h] = "APPROVED"
    BY <1>1, <2>1 DEF Duties, Dispatch!RegisterRider, Dispatch!EndDuty, Dispatch!PositionAges, Dispatch!ReviewRider,
       Dispatch!StartDuty, Dispatch!DeclineOffer, Dispatch!UpdateLocation
  <2>3. riderDuty'[h] = ZoneOf[u]
    <3>1. CASE Dispatch!EndDuty(r)
      <4>1. h # r
        BY <3>1 DEF Dispatch!EndDuty, Dispatch!Active, Holding
      <4> QED BY <1>1, <2>1, <3>1, <4>1 DEF Duties, Dispatch!EndDuty
    <3>2. CASE ~Dispatch!EndDuty(r)
      BY <1>1, <2>1, <3>2 DEF Duties, Dispatch!RegisterRider, Dispatch!PositionAges, Dispatch!ReviewRider,
         Dispatch!StartDuty, Dispatch!DeclineOffer, Dispatch!UpdateLocation
    <3> QED BY <3>1, <3>2
  <2>4. <<h, u>> \notin riderDeclined'
    <3>1. CASE \E t \in Tasks : Dispatch!DeclineOffer(r, t)
      BY <2>1, <3>1 DEF Dispatch!DeclineOffer, Dispatch!Offered, Dispatch!loadPostgresTask, Holding
    <3>2. CASE ~ \E t \in Tasks : Dispatch!DeclineOffer(r, t)
      BY <1>1, <2>1, <3>2 DEF Dispatch!RegisterRider, Dispatch!EndDuty, Dispatch!PositionAges, Dispatch!ReviewRider,
         Dispatch!StartDuty, Dispatch!UpdateLocation
    <3> QED BY <3>1, <3>2
  <2> QED BY <2>2, <2>3, <2>4
<1> QED BY <1>3, <1>4, <1>5, <1>6, <1>7 DEF DutyInv

\* Steps of dispatchers, of time, and a pick-up on line.
LEMMA DispatchKeeps ==
  ASSUME DutyInv, NEW t \in Tasks,
         \/ Dispatch!SeedTask(t) \/ Dispatch!OfferTask(t) \/ Dispatch!Reassign(t)
         \/ \E r \in Riders : Dispatch!MarkPickedUp(r, t)
  PROVE  DutyInv'
<1>1. Rows /\ riderTask[t].live \in BOOLEAN /\ riderTask[t].rider \in Riders \cup {"NOBODY"}
  BY RowFields DEF DutyInv
<1>2. CASE Dispatch!SeedTask(t)
  <2>1. riderTask[t].status = "NONE" /\ riderTask[t].revision < MaxTaskRevision
    BY <1>2, DeliveryAssumption DEF Dispatch!SeedTask, Dispatch!NoTask
  <2> DEFINE value == Dispatch!stored(t, "READY_FOR_DISPATCH", "NOBODY", FALSE)
  <2>2. Dispatch!mutateTask(t, value)
    BY <1>2 DEF Dispatch!SeedTask, Dispatch!Nobody
  <2>3. value \in Dispatch!DeliveryTask /\ value.status = "READY_FOR_DISPATCH"
    <3>1. riderTask[t].revision \in 0..MaxTaskRevision
      BY <1>1, RowFields
    <3>2. riderTask[t].revision + 1 \in 0..MaxTaskRevision
      BY <2>1, <3>1, DeliveryAssumption
    <3> QED BY <3>2 DEF Dispatch!stored, Dispatch!DeliveryTask, Dispatch!Nobody
  <2> HIDE DEF value
  <2> QED BY <2>1, <2>2, <2>3, TaskKept DEF HasRider, Holding
<1>3. CASE Dispatch!OfferTask(t) \/ Dispatch!Reassign(t)
  <2>1. riderTask[t].status \in {"READY_FOR_DISPATCH", "REASSIGNMENT_REQUIRED", "ASSIGNED"} /\ riderTask[t].revision < MaxTaskRevision
    BY <1>3 DEF Dispatch!OfferTask, Dispatch!Reassign, Dispatch!loadPostgresTask
  <2> DEFINE value == Dispatch!stored(t, "OFFERED", "NOBODY", TRUE)
  <2>2. Dispatch!mutateTask(t, value)
    BY <1>3 DEF Dispatch!OfferTask, Dispatch!Reassign, Dispatch!Nobody
  <2>3. value \in Dispatch!DeliveryTask /\ value.status = "OFFERED"
    <3>1. riderTask[t].revision \in 0..MaxTaskRevision
      BY <1>1, RowFields
    <3>2. riderTask[t].revision + 1 \in 0..MaxTaskRevision
      BY <2>1, <3>1, DeliveryAssumption
    <3> QED BY <3>2 DEF Dispatch!stored, Dispatch!DeliveryTask, Dispatch!Nobody
  <2> HIDE DEF value
  <2> QED BY <2>1, <2>2, <2>3, TaskKept DEF HasRider, Holding
<1>4. CASE \E r \in Riders : Dispatch!MarkPickedUp(r, t)
  <2>1. PICK r \in Riders : Dispatch!MarkPickedUp(r, t)
    BY <1>4
  <2>2. riderTask[t].status = "ASSIGNED" /\ riderTask[t].rider = r /\ riderTask[t].revision < MaxTaskRevision
    BY <2>1 DEF Dispatch!MarkPickedUp, Dispatch!mutateRiderTask, Dispatch!loadPostgresTask
  <2> DEFINE value == Dispatch!stored(t, "PICKED_UP", r, riderTask[t].live)
  <2>3. Dispatch!mutateTask(t, value)
    BY <2>1 DEF Dispatch!MarkPickedUp
  <2>4. value \in Dispatch!DeliveryTask /\ value.status = "PICKED_UP" /\ value.rider = r
    BY <1>1, <2>2, StoredRow
  <2> HIDE DEF value
  <2> QED BY <2>2, <2>3, <2>4, TaskKept DEF HasRider, Holding
<1> QED BY <1>2, <1>3, <1>4

LEMMA LapseKeeps ==
  ASSUME DutyInv, NEW t \in Tasks, Dispatch!OfferLapses(t)
  PROVE  DutyInv'
<1>1. /\ riderTask' = [riderTask EXCEPT ![t].live = FALSE] /\ riderTask[t].status = "OFFERED"
      /\ UNCHANGED <<riderProfile, riderDuty, riderDeclined, riderPosition, riderDevice, riderApplied, riderEarned>>
  BY DEF Dispatch!OfferLapses
<1>2. Rows /\ Dispatch!QueuesOK
  BY DEF DutyInv
<1>3. riderTask' \in [Tasks -> Dispatch!DeliveryTask]
  BY <1>1, <1>2 DEF Rows, Dispatch!DeliveryTask
<1>4. \A u \in Tasks : Harmless(u)
  BY <1>1, <1>2 DEF Rows, Harmless, HasRider, Holding, Dispatch!DeliveryTask
<1>5. Duties' /\ Rows' /\ Held' /\ Few' /\ Earned'
  BY <1>1, <1>3, <1>4, TasksKept
<1>6. Dispatch!QueuesOK'
  BY <1>1, <1>2 DEF Dispatch!QueuesOK
<1> QED BY <1>5, <1>6 DEF DutyInv

LEMMA DutyInit == Dispatch!Init => DutyInv
<1> SUFFICES ASSUME Dispatch!Init PROVE DutyInv
  OBVIOUS
<1> USE DeliveryAssumption DEF Dispatch!Init, Dispatch!NoTask, Dispatch!Nobody
<1>1. Duties /\ Dispatch!QueuesOK
  BY DEF Duties, Dispatch!QueuesOK
<1>2. Rows /\ Held /\ Earned
  BY DEF Rows, Dispatch!DeliveryTask, HasRider, Held, Holding, Earned
<1>3. Few
  <2> SUFFICES ASSUME NEW r \in Riders PROVE Cardinality(Dispatch!Active(r)) <= MaxConcurrent
    BY DEF Few
  <2>1. Dispatch!Active(r) = {}
    BY DEF Dispatch!Active
  <2> QED BY <2>1, FS_EmptySet
<1> QED BY <1>1, <1>2, <1>3 DEF DutyInv

LEMMA DutyNext == DutyInv /\ [Dispatch!Next]_(Dispatch!vars) => DutyInv'
<1> SUFFICES ASSUME DutyInv, [Dispatch!Next]_(Dispatch!vars) PROVE DutyInv'
  OBVIOUS
<1>1. CASE UNCHANGED Dispatch!vars
  BY <1>1 DEF Dispatch!vars, DutyInv, Duties, Rows, Dispatch!QueuesOK, Held, Few, Dispatch!Active, Earned
<1>2. CASE Dispatch!SweepStaleAssignments
  BY <1>2, SweepKeeps
<1>3. ASSUME NEW r \in Riders,
             \/ Dispatch!RegisterRider(r) \/ Dispatch!EndDuty(r) \/ Dispatch!PositionAges(r)
             \/ \E approved \in BOOLEAN : Dispatch!ReviewRider(r, approved)
             \/ \E z \in Zones : Dispatch!StartDuty(r, z)
             \/ \E t \in Tasks : Dispatch!DeclineOffer(r, t)
             \/ \E n \in 1..MaxSequence[r] : Dispatch!UpdateLocation(r, n)
      PROVE  DutyInv'
  BY <1>3, RiderKeeps
<1>4. ASSUME NEW r \in Riders, NEW t \in Tasks, Dispatch!AcceptOffer(r, t) PROVE DutyInv'
  BY <1>4, AcceptKeeps
<1>5. ASSUME NEW r \in Riders, NEW t \in Tasks, Dispatch!CompleteDelivery(r, t) PROVE DutyInv'
  BY <1>5, CompleteKeeps
<1>6. ASSUME NEW r \in Riders, NEW n \in 1..MaxSequence[r], Dispatch!RecoverOffline(r, n) PROVE DutyInv'
  BY <1>6, RecoverKeeps
<1>7. ASSUME NEW r \in Riders, NEW n \in 1..MaxSequence[r], Dispatch!RecordAges(r, n) PROVE DutyInv'
  <2>1. n \in Nat
    BY DeliveryAssumption
  <2> QED BY <1>7, <2>1, RecordAgesKeeps
<1>8. ASSUME NEW r \in Riders, Dispatch!Record(r, [kind |-> "LOCATION", old |-> FALSE]) PROVE DutyInv'
  <2>1. [kind |-> "LOCATION", old |-> FALSE] \in Dispatch!OfflineCommand
    BY DEF Dispatch!OfflineCommand
  <2> QED BY <1>8, <2>1, RecordKeeps
<1>9. ASSUME NEW r \in Riders, NEW t \in Tasks,
             Dispatch!Record(r, [kind |-> "PICKUP", task |-> t, revision |-> riderTask[t].revision])
      PROVE  DutyInv'
  <2>1. [kind |-> "PICKUP", task |-> t, revision |-> riderTask[t].revision] \in Dispatch!OfflineCommand
    BY RowFields DEF DutyInv, Dispatch!OfflineCommand
  <2> QED BY <1>9, <2>1, RecordKeeps
<1>10. ASSUME NEW t \in Tasks,
              \/ Dispatch!SeedTask(t) \/ Dispatch!OfferTask(t) \/ Dispatch!Reassign(t)
              \/ \E r \in Riders : Dispatch!MarkPickedUp(r, t)
       PROVE  DutyInv'
  BY <1>10, DispatchKeeps
<1>11. ASSUME NEW t \in Tasks, Dispatch!OfferLapses(t) PROVE DutyInv'
  BY <1>11, LapseKeeps
<1> QED BY <1>1, <1>2, <1>3, <1>4, <1>5, <1>6, <1>7, <1>8, <1>9, <1>10, <1>11, Zenon DEF Dispatch!Next

\* internal/fulfillment: whoever has a task is an approved rider on duty in its
\* zone who never declined it and has no more tasks than allowed; deliveries are
\* paid for once, to the rider who made them: for any riders, tasks and zones.
THEOREM DutyHeld == Dispatch!Spec => []RiderHoldsDuty
<1>1. Dispatch!Spec => []DutyInv
  BY DutyInit, DutyNext, PTL DEF Dispatch!Spec
<1> QED BY <1>1, DutyImplies, PTL

\* What a step does to a task that is carried or delivered.
Carries(t) == riderTask[t].status \in {"PICKED_UP", "DELIVERED"} =>
  riderTask'[t].rider = riderTask[t].rider /\ riderTask'[t].status \in {"PICKED_UP", "DELIVERED"}

LEMMA StepCarries ==
  ASSUME DutyInv, Dispatch!Next, NEW t \in Tasks
  PROVE  Carries(t)
<1> USE DEF Carries
<1>1. Rows /\ riderTask \in [Tasks -> Dispatch!DeliveryTask]
  BY DEF DutyInv, Rows
<1>2. CASE UNCHANGED riderTask
  BY <1>2
<1>3. CASE Dispatch!SweepStaleAssignments
  <2>1. riderTask[t].status # "ASSIGNED" => riderTask'[t] = riderTask[t]
    BY <1>3 DEF Dispatch!SweepStaleAssignments, Dispatch!loadPostgresTask
  <2> QED BY <2>1
<1>4. ASSUME NEW u \in Tasks, NEW value, riderTask' = [riderTask EXCEPT ![u] = value],
             \/ riderTask[u].status \notin {"PICKED_UP", "DELIVERED"}
             \/ value.rider = riderTask[u].rider /\ value.status = "DELIVERED"
      PROVE  Carries(t)
  BY <1>1, <1>4
<1>5. ASSUME NEW r \in Riders, NEW n \in 1..MaxSequence[r], Dispatch!RecoverOffline(r, n) PROVE Carries(t)
  <2>1. riderTask'[t] = IF t \in Dispatch!PickedUp(r, n) THEN Dispatch!stored(t, "PICKED_UP", r, riderTask[t].live) ELSE riderTask[t]
    BY <1>5 DEF Dispatch!RecoverOffline
  <2>2. ASSUME t \in Dispatch!PickedUp(r, n) PROVE riderTask[t].status = "ASSIGNED"
    <3>1. PICK i \in riderApplied[r] + 1..n : riderDevice[r][i].kind = "PICKUP" /\ riderDevice[r][i].task = t
      BY <2>2 DEF Dispatch!PickedUp
    <3>2. Dispatch!mutateRiderTask(r, t, "ASSIGNED")
      BY <1>5, <3>1 DEF Dispatch!RecoverOffline
    <3> QED BY <3>2 DEF Dispatch!mutateRiderTask, Dispatch!loadPostgresTask
  <2> QED BY <2>1, <2>2
<1>6. ASSUME NEW u \in Tasks, Dispatch!SeedTask(u) \/ Dispatch!OfferTask(u) \/ Dispatch!Reassign(u) PROVE Carries(t)
  <2>1. PICK value : riderTask' = [riderTask EXCEPT ![u] = value]
    BY <1>6 DEF Dispatch!SeedTask, Dispatch!OfferTask, Dispatch!Reassign, Dispatch!mutateTask
  <2>2. riderTask[u].status \in {"NONE", "READY_FOR_DISPATCH", "REASSIGNMENT_REQUIRED", "ASSIGNED"}
    <3>1. Dispatch!SeedTask(u) => riderTask[u].status = "NONE"
      BY DEF Dispatch!SeedTask, Dispatch!NoTask
    <3> QED BY <1>6, <3>1 DEF Dispatch!OfferTask, Dispatch!Reassign, Dispatch!loadPostgresTask
  <2> QED BY <1>4, <2>1, <2>2
<1>7. ASSUME NEW u \in Tasks, Dispatch!OfferLapses(u) PROVE Carries(t)
  <2>1. riderTask' = [riderTask EXCEPT ![u] = [riderTask[u] EXCEPT !.live = FALSE]] /\ riderTask[u].status = "OFFERED"
    BY <1>7 DEF Dispatch!OfferLapses
  <2> QED BY <1>4, <2>1
<1>8. ASSUME NEW r \in Riders, NEW u \in Tasks, Dispatch!AcceptOffer(r, u) \/ Dispatch!MarkPickedUp(r, u) PROVE Carries(t)
  <2>1. PICK value : riderTask' = [riderTask EXCEPT ![u] = value]
    BY <1>8 DEF Dispatch!AcceptOffer, Dispatch!MarkPickedUp, Dispatch!mutateTask
  <2>2. riderTask[u].status \notin {"PICKED_UP", "DELIVERED"}
    BY <1>8 DEF Dispatch!AcceptOffer, Dispatch!Offered, Dispatch!MarkPickedUp, Dispatch!mutateRiderTask, Dispatch!loadPostgresTask
  <2> QED BY <1>4, <2>1, <2>2
<1>9. ASSUME NEW r \in Riders, NEW u \in Tasks, Dispatch!CompleteDelivery(r, u) PROVE Carries(t)
  <2>1. /\ riderTask' = [riderTask EXCEPT ![u] = Dispatch!stored(u, "DELIVERED", r, riderTask[u].live)]
        /\ riderTask[u].rider = r
    BY <1>9 DEF Dispatch!CompleteDelivery, Dispatch!mutateRiderTask
  <2>2. /\ Dispatch!stored(u, "DELIVERED", r, riderTask[u].live).rider = r
        /\ Dispatch!stored(u, "DELIVERED", r, riderTask[u].live).status = "DELIVERED"
    BY DEF Dispatch!stored
  <2> QED BY <1>4, <2>1, <2>2
<1>10. ASSUME NEW r \in Riders,
             \/ Dispatch!RegisterRider(r) \/ Dispatch!EndDuty(r) \/ Dispatch!PositionAges(r)
             \/ \E approved \in BOOLEAN : Dispatch!ReviewRider(r, approved)
             \/ \E z \in Zones : Dispatch!StartDuty(r, z)
             \/ \E u \in Tasks : Dispatch!DeclineOffer(r, u)
             \/ \E n \in 1..MaxSequence[r] : Dispatch!UpdateLocation(r, n) \/ Dispatch!RecordAges(r, n)
             \/ Dispatch!Record(r, [kind |-> "LOCATION", old |-> FALSE])
             \/ \E u \in Tasks : Dispatch!Record(r, [kind |-> "PICKUP", task |-> u, revision |-> riderTask[u].revision])
       PROVE UNCHANGED riderTask
  BY <1>10, Zenon DEF Dispatch!RegisterRider, Dispatch!EndDuty, Dispatch!PositionAges, Dispatch!ReviewRider, Dispatch!StartDuty,
     Dispatch!DeclineOffer, Dispatch!UpdateLocation, Dispatch!RecordAges, Dispatch!Record
<1> QED BY <1>2, <1>3, <1>5, <1>6, <1>7, <1>8, <1>9, <1>10, Zenon DEF Dispatch!Next

\* What a device has recorded up to the number that is applied only ages, and is
\* never of a position that was applied.
LEMMA RecordsStay ==
  ASSUME DutyInv, [Dispatch!Next]_(Dispatch!vars), NEW r \in Riders, NEW i \in 1..riderApplied[r]
  PROVE  riderDevice'[r][i] = riderDevice[r][i]
<1>1. Dispatch!QueuesOK /\ riderDevice \in [Riders -> Dispatch!Seq(Dispatch!OfflineCommand)] /\ i \in Nat
      /\ riderApplied[r] \in Nat /\ i <= Dispatch!Len(riderDevice[r])
  BY DEF DutyInv, Dispatch!QueuesOK
<1>2. CASE UNCHANGED riderDevice
  BY <1>2
<1>3. ASSUME NEW q \in Riders, NEW command, Dispatch!Record(q, command) PROVE riderDevice'[r][i] = riderDevice[r][i]
  BY <1>1, <1>3 DEF Dispatch!Record
<1>4. ASSUME NEW q \in Riders, NEW n, Dispatch!RecordAges(q, n) PROVE riderDevice'[r][i] = riderDevice[r][i]
  BY <1>1, <1>4 DEF Dispatch!RecordAges, Dispatch!QueuesOK
<1>5. ASSUME NEW q \in Riders,
             \/ Dispatch!RegisterRider(q) \/ Dispatch!EndDuty(q) \/ Dispatch!PositionAges(q)
             \/ \E approved \in BOOLEAN : Dispatch!ReviewRider(q, approved)
             \/ \E z \in Zones : Dispatch!StartDuty(q, z)
             \/ \E u \in Tasks : Dispatch!AcceptOffer(q, u) \/ Dispatch!DeclineOffer(q, u) \/ Dispatch!MarkPickedUp(q, u) \/ Dispatch!CompleteDelivery(q, u)
             \/ \E n \in 1..MaxSequence[q] : Dispatch!RecoverOffline(q, n) \/ Dispatch!UpdateLocation(q, n)
       PROVE UNCHANGED riderDevice
  BY <1>5, Zenon DEF Dispatch!RegisterRider, Dispatch!EndDuty, Dispatch!PositionAges, Dispatch!ReviewRider, Dispatch!StartDuty,
     Dispatch!AcceptOffer, Dispatch!DeclineOffer, Dispatch!MarkPickedUp, Dispatch!CompleteDelivery, Dispatch!RecoverOffline,
     Dispatch!UpdateLocation, Dispatch!mutateTask
<1>6. ASSUME \/ Dispatch!SweepStaleAssignments
             \/ \E u \in Tasks : Dispatch!SeedTask(u) \/ Dispatch!OfferTask(u) \/ Dispatch!Reassign(u) \/ Dispatch!OfferLapses(u)
       PROVE UNCHANGED riderDevice
  BY <1>6, Zenon DEF Dispatch!SweepStaleAssignments, Dispatch!SeedTask, Dispatch!OfferTask, Dispatch!Reassign, Dispatch!OfferLapses, Dispatch!mutateTask
<1>7. UNCHANGED Dispatch!vars => UNCHANGED riderDevice
  BY DEF Dispatch!vars
<1> QED BY <1>2, <1>3, <1>4, <1>5, <1>6, <1>7, Zenon DEF Dispatch!Next

\* Nothing but a batch moves the number up to which commands are applied.
LEMMA BatchesApply ==
  ASSUME [Dispatch!Next]_(Dispatch!vars)
  PROVE  \/ UNCHANGED riderApplied
         \/ \E q \in Riders : \E n \in 1..MaxSequence[q] : Dispatch!RecoverOffline(q, n)
<1>1. ASSUME NEW q \in Riders,
             \/ Dispatch!RegisterRider(q) \/ Dispatch!EndDuty(q) \/ Dispatch!PositionAges(q)
             \/ \E approved \in BOOLEAN : Dispatch!ReviewRider(q, approved)
             \/ \E z \in Zones : Dispatch!StartDuty(q, z)
             \/ \E u \in Tasks : Dispatch!AcceptOffer(q, u) \/ Dispatch!DeclineOffer(q, u) \/ Dispatch!MarkPickedUp(q, u) \/ Dispatch!CompleteDelivery(q, u)
             \/ \E n \in 1..MaxSequence[q] : Dispatch!RecordAges(q, n) \/ Dispatch!UpdateLocation(q, n)
             \/ Dispatch!Record(q, [kind |-> "LOCATION", old |-> FALSE])
             \/ \E u \in Tasks : Dispatch!Record(q, [kind |-> "PICKUP", task |-> u, revision |-> riderTask[u].revision])
       PROVE UNCHANGED riderApplied
  BY <1>1, Zenon DEF Dispatch!RegisterRider, Dispatch!EndDuty, Dispatch!PositionAges, Dispatch!ReviewRider, Dispatch!StartDuty,
     Dispatch!AcceptOffer, Dispatch!DeclineOffer, Dispatch!MarkPickedUp, Dispatch!CompleteDelivery, Dispatch!RecordAges,
     Dispatch!UpdateLocation, Dispatch!Record, Dispatch!mutateTask
<1>2. ASSUME \/ Dispatch!SweepStaleAssignments
             \/ \E u \in Tasks : Dispatch!SeedTask(u) \/ Dispatch!OfferTask(u) \/ Dispatch!Reassign(u) \/ Dispatch!OfferLapses(u)
       PROVE UNCHANGED riderApplied
  BY <1>2, Zenon DEF Dispatch!SweepStaleAssignments, Dispatch!SeedTask, Dispatch!OfferTask, Dispatch!Reassign, Dispatch!OfferLapses, Dispatch!mutateTask
<1>3. UNCHANGED Dispatch!vars => UNCHANGED riderApplied
  BY DEF Dispatch!vars
<1> QED BY <1>1, <1>2, <1>3, Zenon DEF Dispatch!Next

LEMMA PickupsNext ==
  ASSUME DutyInv, Dispatch!PickupsStand, [Dispatch!Next]_(Dispatch!vars)
  PROVE  Dispatch!PickupsStand'
<1> SUFFICES ASSUME NEW r \in Riders, NEW i \in 1..riderApplied'[r], riderDevice'[r][i].kind = "PICKUP"
             PROVE  /\ riderTask'[riderDevice'[r][i].task].rider = r
                    /\ riderTask'[riderDevice'[r][i].task].status \in {"PICKED_UP", "DELIVERED"}
  BY DEF Dispatch!PickupsStand
<1>1. Dispatch!QueuesOK /\ riderApplied \in [Riders -> Nat] /\ Rows /\ riderDevice \in [Riders -> Dispatch!Seq(Dispatch!OfflineCommand)]
  BY DEF DutyInv, Dispatch!QueuesOK
<1>2. CASE i \in 1..riderApplied[r]
  <2> DEFINE t == riderDevice[r][i].task
  <2>1. riderDevice'[r][i] = riderDevice[r][i]
    BY <1>2, RecordsStay
  <2>2. riderDevice[r][i] \in Dispatch!OfflineCommand
    BY <1>1, <1>2 DEF Dispatch!QueuesOK
  <2>3. t \in Tasks /\ riderTask[t].rider = r /\ riderTask[t].status \in {"PICKED_UP", "DELIVERED"}
    BY <1>2, <2>1, <2>2 DEF Dispatch!PickupsStand, Dispatch!OfflineCommand
  <2>4. Dispatch!Next => Carries(t)
    BY <2>3, StepCarries
  <2>5. UNCHANGED Dispatch!vars => UNCHANGED riderTask
    BY DEF Dispatch!vars
  <2> QED BY <2>1, <2>3, <2>4, <2>5 DEF Carries
<1>3. CASE i \notin 1..riderApplied[r]
  <2>1. PICK q \in Riders : \E n \in 1..MaxSequence[q] : Dispatch!RecoverOffline(q, n)
    BY <1>3, BatchesApply
  <2>2. PICK n \in 1..MaxSequence[q] : Dispatch!RecoverOffline(q, n)
    BY <2>1
  <2>3. /\ riderApplied' = [riderApplied EXCEPT ![q] = n] /\ riderDevice' = riderDevice
        /\ n \in riderApplied[q] + 1..Dispatch!Len(riderDevice[q]) /\ n \in Nat
    BY <2>2, DeliveryAssumption DEF Dispatch!RecoverOffline
  <2>4. q = r /\ i \in riderApplied[r] + 1..n
    BY <1>1, <1>3, <2>3
  <2> DEFINE t == riderDevice[r][i].task
  <2>5. riderDevice[r][i] \in Dispatch!OfflineCommand
    BY <1>1, <2>3, <2>4 DEF Dispatch!QueuesOK
  <2>6. t \in Tasks
    BY <2>3, <2>5 DEF Dispatch!OfflineCommand
  <2>7. t \in Dispatch!PickedUp(r, n)
    BY <2>3, <2>4, <2>6 DEF Dispatch!PickedUp
  <2>8. riderTask'[t] = Dispatch!stored(t, "PICKED_UP", r, riderTask[t].live)
    BY <2>2, <2>4, <2>6, <2>7 DEF Dispatch!RecoverOffline
  <2> QED BY <2>3, <2>8 DEF Dispatch!stored
<1> QED BY <1>2, <1>3

\* internal/fulfillment: a delivery that was picked up, on line or off line,
\* stays with its rider to the end, and an off-line pick-up that was applied
\* stands: for any riders, tasks and batches.
THEOREM DeliveriesCarried == Dispatch!Spec => CarriedToTheEnd
<1>1. DutyInv /\ [Dispatch!Next]_(Dispatch!vars) => [\A t \in Tasks : Carries(t)]_(Dispatch!vars)
  BY StepCarries
<1>2. [\A t \in Tasks : Carries(t)]_(Dispatch!vars)
      <=> [\A t \in Tasks : riderTask[t].status \in {"PICKED_UP", "DELIVERED"} =>
             riderTask'[t].rider = riderTask[t].rider /\ riderTask'[t].status \in {"PICKED_UP", "DELIVERED"}]_(Dispatch!vars)
  BY DEF Carries
<1>3. Dispatch!Init => Dispatch!PickupsStand
  BY DEF Dispatch!Init, Dispatch!PickupsStand
<1>4. DutyInv /\ Dispatch!PickupsStand /\ [Dispatch!Next]_(Dispatch!vars) => Dispatch!PickupsStand'
  BY PickupsNext
<1> QED BY <1>1, <1>2, <1>3, <1>4, DutyInit, DutyNext, PTL DEF Dispatch!Spec, CarriedToTheEnd, Dispatch!CarriedToTheEnd

\* internal/fulfillment: deliveries are in the hands of a rider on duty and stay
\* there to the end: for any riders, tasks, zones and batches.
THEOREM DeliveriesKept == Dispatch!Spec => DeliveriesHeld
BY DutyHeld, DeliveriesCarried, PTL DEF DeliveriesHeld

----------------------------------------------------------------------------
(* Settlement (internal/fulfillment, postgres_settlement.go).  The         *)
(* invariant says that claimed entries are available and belong to the     *)
(* account of the payout, and that the entries of an account are worth     *)
(* what is unclaimed and all payouts of the account together.              *)

NetOf(l, S) == SumTo([e \in Books!Entries |-> IF e \in S THEN l[e].net ELSE 0], MaxEntry)
OfAccount(a) == {e \in Books!Entries : AccountOf[e] = a}
Unclaimed(p, a) == {e \in Books!Entries : AccountOf[e] = a /\ \A k \in Books!Payouts : e \notin p[k].entries}
AllOf(p, a) == SumTo([k \in Books!Payouts |-> IF p[k].account = a THEN p[k].amount ELSE 0], MaxPayout)

Claims ==
  \A k \in Books!Payouts :
    /\ \A e \in payPayout[k].entries : payLedger[e].state = "AVAILABLE" /\ AccountOf[e] = payPayout[k].account
    /\ payPayout[k].status = "NONE" => payPayout[k].amount = 0
Balanced(a) == NetOf(payLedger, OfAccount(a)) = NetOf(payLedger, Unclaimed(payPayout, a)) + AllOf(payPayout, a)
Approved ==
  \A k \in Books!Payouts :
    /\ payPayout[k].status \in {"FIRST_APPROVED", "APPROVED", "PAID", "FAILED"} => payPayout[k].first # "NOBODY"
    /\ payPayout[k].status \in {"APPROVED", "PAID", "FAILED"} =>
         payPayout[k].second # "NOBODY" /\ payPayout[k].first # payPayout[k].second

BooksInv == Books!TypeOK /\ Claims /\ (\A a \in Accounts : Balanced(a)) /\ Approved

\* The instance's sums are the ones the lemmas are about.
LEMMA SameSum == \A f, n : Books!SumTo(f, n) = SumTo(f, n)
BY DEF Books!SumTo, SumTo

LEMMA BooksBounds == MaxEntry \in Nat /\ MaxPayout \in Nat /\ Books!Entries = 1..MaxEntry /\ Books!Payouts = 1..MaxPayout
BY SettlementAssumption DEF Books!Entries, Books!Payouts

\* The worth of two sets of entries without a common entry.
LEMMA NetSplit ==
  ASSUME NEW l, \A e \in Books!Entries : l[e].net \in Nat, NEW S, NEW T, S \cap T = {}
  PROVE  /\ NetOf(l, S \cup T) = NetOf(l, S) + NetOf(l, T)
         /\ NetOf(l, S) \in Int /\ NetOf(l, T) \in Int
<1> DEFINE f == [e \in Books!Entries |-> IF e \in S THEN l[e].net ELSE 0]
           g == [e \in Books!Entries |-> IF e \in T THEN l[e].net ELSE 0]
           h == [e \in Books!Entries |-> IF e \in S \cup T THEN l[e].net ELSE 0]
<1>1. \A e \in 1..MaxEntry : f[e] \in Int /\ g[e] \in Int /\ h[e] = f[e] + g[e]
  BY BooksBounds
<1> HIDE DEF f, g, h
<1>2. /\ SumTo(f, MaxEntry) \in Int /\ SumTo(g, MaxEntry) \in Int
      /\ SumTo(h, MaxEntry) = SumTo(f, MaxEntry) + SumTo(g, MaxEntry)
  BY <1>1, BooksBounds, SumLinear
<1> QED BY <1>2 DEF NetOf, f, g, h

LEMMA NetInt ==
  ASSUME NEW l, \A e \in Books!Entries : l[e].net \in Nat, NEW S
  PROVE  NetOf(l, S) \in Int
<1>1. S \cap {} = {}
  OBVIOUS
<1> QED BY <1>1, NetSplit

\* Worth depends on the entries counted only.
LEMMA NetSame ==
  ASSUME NEW l, NEW m, NEW S, \A e \in Books!Entries : e \in S => l[e].net = m[e].net
  PROVE  NetOf(l, S) = NetOf(m, S)
<1>1. [e \in Books!Entries |-> IF e \in S THEN l[e].net ELSE 0] = [e \in Books!Entries |-> IF e \in S THEN m[e].net ELSE 0]
  OBVIOUS
<1> QED BY <1>1 DEF NetOf

Raised(l, m, e, more) ==
  \A i \in Books!Entries : l[i].net \in Nat /\ m[i].net = IF i = e THEN l[i].net + more ELSE l[i].net

\* One entry more is worth its amount more.
LEMMA NetMore ==
  ASSUME NEW l, NEW m, NEW S, NEW e \in Books!Entries, e \in S, NEW more \in Nat,
         Raised(l, m, e, more)
  PROVE  NetOf(m, S) = NetOf(l, S) + more /\ NetOf(l, S) \in Int
<1> DEFINE before == [i \in Books!Entries |-> IF i \in S THEN l[i].net ELSE 0]
           after == [i \in Books!Entries |-> IF i \in S THEN m[i].net ELSE 0]
<1>1. ASSUME NEW i \in 1..MaxEntry
      PROVE  before[i] \in Int /\ after[i] = IF i = e THEN before[i] + more ELSE before[i]
  <2>1. /\ i \in Books!Entries /\ before[i] = (IF i \in S THEN l[i].net ELSE 0) /\ after[i] = IF i \in S THEN m[i].net ELSE 0
        /\ l[i].net \in Nat /\ m[i].net = IF i = e THEN l[i].net + more ELSE l[i].net
    BY BooksBounds DEF Raised
  <2> HIDE DEF before, after
  <2>2. CASE i = e
    BY <2>1, <2>2
  <2>3. CASE i # e
    BY <2>1, <2>3
  <2> QED BY <2>2, <2>3
<1>2. e \in 1..MaxEntry
  BY BooksBounds
<1> HIDE DEF before, after
<1>3. SumTo(before, MaxEntry) \in Int /\ SumTo(after, MaxEntry) = SumTo(before, MaxEntry) + more
  <2>1. \A i \in 1..MaxEntry : before[i] \in Int
    BY <1>1
  <2>2. \A i \in 1..MaxEntry : after[i] = IF i = e THEN before[i] + more ELSE before[i]
    BY <1>1
  <2>3. more \in Int /\ MaxEntry \in Nat
    BY BooksBounds
  <2> QED BY <1>2, <2>1, <2>2, <2>3, SumChange
<1> QED BY <1>3 DEF NetOf, before, after

\* All payouts of an account.
LEMMA AllSame ==
  ASSUME NEW p, NEW q, NEW a,
         \A k \in Books!Payouts : p[k].account = q[k].account /\ p[k].amount = q[k].amount
  PROVE  AllOf(p, a) = AllOf(q, a)
<1>1. [k \in Books!Payouts |-> IF p[k].account = a THEN p[k].amount ELSE 0] = [k \in Books!Payouts |-> IF q[k].account = a THEN q[k].amount ELSE 0]
  OBVIOUS
<1> QED BY <1>1 DEF AllOf

Added(p, q, a, j, more) ==
  /\ \A i \in Books!Payouts : p[i].amount \in Nat
  /\ \A i \in Books!Payouts \ {j} : q[i] = p[i]
  /\ p[j].amount = 0 /\ more = IF q[j].account = a THEN q[j].amount ELSE 0

LEMMA AllMore ==
  ASSUME NEW p, NEW q, NEW a, NEW j \in Books!Payouts, NEW more \in Int,
         Added(p, q, a, j, more)
  PROVE  AllOf(q, a) = AllOf(p, a) + more /\ AllOf(p, a) \in Int
<1> DEFINE before == [i \in Books!Payouts |-> IF p[i].account = a THEN p[i].amount ELSE 0]
           after == [i \in Books!Payouts |-> IF q[i].account = a THEN q[i].amount ELSE 0]
<1>1. ASSUME NEW i \in 1..MaxPayout
      PROVE  before[i] \in Int /\ after[i] = IF i = j THEN before[i] + more ELSE before[i]
  <2>1. /\ i \in Books!Payouts /\ before[i] = (IF p[i].account = a THEN p[i].amount ELSE 0)
        /\ after[i] = (IF q[i].account = a THEN q[i].amount ELSE 0) /\ p[i].amount \in Nat
        /\ (i # j => q[i] = p[i]) /\ p[j].amount = 0 /\ more = IF q[j].account = a THEN q[j].amount ELSE 0
    BY BooksBounds DEF Added
  <2> HIDE DEF before, after
  <2>2. CASE i = j
    BY <2>1, <2>2
  <2>3. CASE i # j
    BY <2>1, <2>3
  <2> QED BY <2>2, <2>3
<1>2. j \in 1..MaxPayout
  BY BooksBounds
<1> HIDE DEF before, after
<1>3. SumTo(before, MaxPayout) \in Int /\ SumTo(after, MaxPayout) = SumTo(before, MaxPayout) + more
  <2>1. \A i \in 1..MaxPayout : before[i] \in Int
    BY <1>1
  <2>2. \A i \in 1..MaxPayout : after[i] = IF i = j THEN before[i] + more ELSE before[i]
    BY <1>1
  <2>3. more \in Int /\ MaxPayout \in Nat
    BY BooksBounds
  <2> QED BY <1>2, <2>1, <2>2, <2>3, SumChange
<1> QED BY <1>3 DEF AllOf, before, after

LEMMA SumInt ==
  ASSUME NEW n \in Nat, NEW f, \A i \in 1..n : f[i] \in Int
  PROVE  SumTo(f, n) \in Int
<1> DEFINE zero == [i \in 1..n |-> 0]
<1>1. \A i \in 1..n : f[i] \in Int /\ zero[i] \in Int /\ f[i] = f[i] + zero[i]
  OBVIOUS
<1> HIDE DEF zero
<1> QED BY <1>1, SumLinear

\* Rates and the lines of an order give integers.
LEMMA RatesInt ==
  ASSUME NEW x \in Nat, NEW points \in Nat
  PROVE  Books!settlementBasisPoints(x, points) \in Nat
<1>1. x * points \in Nat
  OBVIOUS
<1>2. \A y \in Nat : y \div 10000 \in Nat
  OBVIOUS
<1> QED BY <1>1, <1>2 DEF Books!settlementBasisPoints

LEMMA VendorSumInt ==
  ASSUME NEW e \in Books!Entries, NEW amount, \A i \in DOMAIN Lines[e] : amount[i] \in Int
  PROVE  Books!VendorSum(e, amount) \in Int
<1> DEFINE term == [i \in DOMAIN Lines[e] |-> IF Lines[e][i].vendor = SettledVendor[e] THEN amount[i] ELSE 0]
<1>1. Books!Len(Lines[e]) \in Nat /\ DOMAIN Lines[e] = 1..Books!Len(Lines[e])
  BY SettlementAssumption, BooksBounds
<1>2. \A i \in 1..Books!Len(Lines[e]) : term[i] \in Int
  BY <1>1
<1>3. Books!VendorSum(e, amount) = SumTo(term, Books!Len(Lines[e]))
  BY SameSum DEF Books!VendorSum
<1> HIDE DEF term
<1> QED BY <1>1, <1>2, <1>3, SumInt

LEMMA VendorSumNat ==
  ASSUME NEW e \in Books!Entries, NEW amount, \A i \in DOMAIN Lines[e] : amount[i] \in Nat
  PROVE  Books!VendorSum(e, amount) \in Nat
<1> DEFINE term == [i \in DOMAIN Lines[e] |-> IF Lines[e][i].vendor = SettledVendor[e] THEN amount[i] ELSE 0]
<1>1. Books!Len(Lines[e]) \in Nat /\ DOMAIN Lines[e] = 1..Books!Len(Lines[e])
  BY SettlementAssumption, BooksBounds
<1>2. \A i \in 1..Books!Len(Lines[e]) : term[i] \in Nat
  BY <1>1
<1>3. Books!VendorSum(e, amount) = SumTo(term, Books!Len(Lines[e]))
  BY SameSum DEF Books!VendorSum
<1> HIDE DEF term
<1> QED BY <1>1, <1>2, <1>3, SumNat

LEMMA ElementOf ==
  ASSUME NEW S, NEW q \in Books!Seq(S), NEW i \in DOMAIN q
  PROVE  q[i] \in S
OBVIOUS

LEMMA OrderInt ==
  ASSUME NEW e \in Books!Entries
  PROVE  Books!OrderGross(e) \in Int /\ Books!OrderCommission(e) \in Nat
<1>1. ASSUME NEW i \in DOMAIN Lines[e]
      PROVE  Lines[e][i].total \in Nat /\ Lines[e][i].discount \in Nat /\ Lines[e][i].tax \in Nat /\ Lines[e][i].commission \in Nat
  <2>1. Lines[e] \in Books!Seq([vendor : STRING, total : Nat, discount : Nat, tax : Nat, commission : Nat])
    BY SettlementAssumption, BooksBounds
  <2>2. Lines[e][i] \in [vendor : STRING, total : Nat, discount : Nat, tax : Nat, commission : Nat]
    BY <2>1, ElementOf
  <2> QED BY <2>2
<1> DEFINE due == [i \in DOMAIN Lines[e] |-> Lines[e][i].total - Lines[e][i].discount + Lines[e][i].tax]
           fee == [i \in DOMAIN Lines[e] |-> Lines[e][i].commission]
<1>2. \A i \in DOMAIN Lines[e] : due[i] \in Int /\ fee[i] \in Nat
  BY <1>1
<1>3. Books!OrderGross(e) = Books!VendorSum(e, due) /\ Books!OrderCommission(e) = Books!VendorSum(e, fee)
  BY DEF Books!OrderGross, Books!OrderCommission
<1> HIDE DEF due, fee
<1>4. Books!VendorSum(e, due) \in Int
  BY <1>2, VendorSumInt
<1>5. Books!VendorSum(e, fee) \in Nat
  BY <1>2, VendorSumNat
<1> QED BY <1>3, <1>4, <1>5

LEMMA AllInt ==
  ASSUME Books!TypeOK, NEW a
  PROVE  AllOf(payPayout, a) \in Int
<1> DEFINE term == [k \in Books!Payouts |-> IF payPayout[k].account = a THEN payPayout[k].amount ELSE 0]
<1>1. \A k \in 1..MaxPayout : term[k] \in Int
  BY BooksBounds DEF Books!TypeOK
<1> HIDE DEF term
<1>2. SumTo(term, MaxPayout) \in Int
  BY <1>1, BooksBounds, SumInt
<1> QED BY <1>2 DEF AllOf, term

\* A row is entered once; no payout has claimed it yet.
LEMMA SeedingKeeps ==
  ASSUME BooksInv, NEW e \in Books!Entries, NEW gross \in Int, NEW commission \in Int, NEW tax \in Int,
         Books!seedPostgresSettlement(e, gross, commission, tax)
  PROVE  BooksInv'
<1> DEFINE net == gross - commission - tax
<1>1. Books!TypeOK /\ Claims /\ (\A a \in Accounts : Balanced(a)) /\ Approved
  BY DEF BooksInv
<1>2. /\ payLedger \in [Books!Entries -> [net : Nat, state : {"NONE", "COOLING", "AVAILABLE"}]] /\ UNCHANGED payPayout
      /\ payLedger' = [payLedger EXCEPT ![e] = IF payLedger[e] = Books!NoEntry THEN [net |-> net, state |-> "COOLING"] ELSE payLedger[e]]
      /\ net \in Nat
  BY <1>1 DEF Books!TypeOK, Books!seedPostgresSettlement
<1> HIDE DEF net
<1>3. CASE payLedger[e] # Books!NoEntry
  <2>1. payLedger' = payLedger
    BY <1>2, <1>3
  <2> QED BY <1>1, <1>2, <2>1 DEF BooksInv, Books!TypeOK, Claims, Balanced, Approved
<1>4. CASE payLedger[e] = Books!NoEntry
  <2>1. /\ payLedger' = [payLedger EXCEPT ![e] = [net |-> net, state |-> "COOLING"]]
        /\ payLedger[e].net = 0 /\ payLedger[e].state = "NONE"
    BY <1>2, <1>4 DEF Books!NoEntry
  <2>2. payLedger' \in [Books!Entries -> [net : Nat, state : {"NONE", "COOLING", "AVAILABLE"}]]
    BY <1>2, <2>1
  <2>3. \A k \in Books!Payouts : e \notin payPayout[k].entries
    BY <1>1, <2>1 DEF Claims
  <2>4. \A i \in Books!Entries \ {e} : payLedger'[i] = payLedger[i]
    BY <1>2, <2>1
  <2>5. Claims'
    <3> SUFFICES ASSUME NEW k \in Books!Payouts
                 PROVE  /\ \A i \in payPayout[k].entries : payLedger'[i].state = "AVAILABLE" /\ AccountOf[i] = payPayout[k].account
                        /\ payPayout[k].status = "NONE" => payPayout[k].amount = 0
      BY <1>2 DEF Claims
    <3>1. payPayout[k].entries \subseteq Books!Entries
      BY <1>1 DEF Books!TypeOK
    <3> QED BY <1>1, <2>3, <2>4, <3>1 DEF Claims
  <2>6. Raised(payLedger, payLedger', e, net)
    BY <1>2, <2>1 DEF Raised
  <2>7. ASSUME NEW a \in Accounts PROVE Balanced(a)'
    <3>1. Balanced(a)
      BY <1>1
    <3>2. CASE AccountOf[e] = a
      <4>1. e \in OfAccount(a) /\ e \in Unclaimed(payPayout, a)
        BY <2>3, <3>2 DEF OfAccount, Unclaimed
      <4>2. NetOf(payLedger', OfAccount(a)) = NetOf(payLedger, OfAccount(a)) + net /\ NetOf(payLedger, OfAccount(a)) \in Int
        BY <1>2, <2>6, <4>1, NetMore
      <4>3. /\ NetOf(payLedger', Unclaimed(payPayout, a)) = NetOf(payLedger, Unclaimed(payPayout, a)) + net
            /\ NetOf(payLedger, Unclaimed(payPayout, a)) \in Int
        BY <1>2, <2>6, <4>1, NetMore
      <4>4. AllOf(payPayout, a) \in Int
        BY <1>1, AllInt
      <4> QED BY <1>2, <3>1, <4>2, <4>3, <4>4 DEF Balanced, OfAccount
    <3>3. CASE AccountOf[e] # a
      <4>1. NetOf(payLedger', OfAccount(a)) = NetOf(payLedger, OfAccount(a))
        BY <2>4, <3>3, NetSame DEF OfAccount
      <4>2. NetOf(payLedger', Unclaimed(payPayout, a)) = NetOf(payLedger, Unclaimed(payPayout, a))
        BY <2>4, <3>3, NetSame DEF Unclaimed
      <4> QED BY <1>2, <3>1, <4>1, <4>2 DEF Balanced, OfAccount
    <3> QED BY <3>2, <3>3
  <2>8. Books!TypeOK' /\ Approved'
    BY <1>1, <1>2, <2>2 DEF Books!TypeOK, Approved
  <2> QED BY <2>5, <2>7, <2>8 DEF BooksInv
<1> QED BY <1>3, <1>4

\* Cooling down changes no amount.
LEMMA CoolingKeeps ==
  ASSUME BooksInv, NEW e \in Books!Entries, Books!CoolingEnds(e)
  PROVE  BooksInv'
<1>1. Books!TypeOK /\ Claims /\ (\A a \in Accounts : Balanced(a)) /\ Approved
  BY DEF BooksInv
<1>2. /\ payLedger \in [Books!Entries -> [net : Nat, state : {"NONE", "COOLING", "AVAILABLE"}]] /\ UNCHANGED payPayout
      /\ payLedger' = [payLedger EXCEPT ![e] = [payLedger[e] EXCEPT !.state = "AVAILABLE"]]
  BY <1>1 DEF Books!TypeOK, Books!CoolingEnds
<1>3. \A i \in Books!Entries : payLedger'[i].net = payLedger[i].net /\ (payLedger[i].state = "AVAILABLE" => payLedger'[i].state = "AVAILABLE")
  BY <1>2
<1>4. payLedger' \in [Books!Entries -> [net : Nat, state : {"NONE", "COOLING", "AVAILABLE"}]]
  BY <1>2
<1>5. Books!TypeOK' /\ Approved'
  BY <1>1, <1>2, <1>4 DEF Books!TypeOK, Approved
<1>6. Claims'
  <2>1. \A k \in Books!Payouts : payPayout[k].entries \subseteq Books!Entries
    BY <1>1 DEF Books!TypeOK
  <2> QED BY <1>1, <1>2, <1>3, <2>1 DEF Claims
<1>7. ASSUME NEW a \in Accounts PROVE Balanced(a)'
  <2>1. NetOf(payLedger', OfAccount(a)) = NetOf(payLedger, OfAccount(a))
    BY <1>3, NetSame
  <2>2. NetOf(payLedger', Unclaimed(payPayout, a)) = NetOf(payLedger, Unclaimed(payPayout, a))
    BY <1>3, NetSame
  <2>3. Balanced(a)
    BY <1>1
  <2> QED BY <1>2, <2>1, <2>2, <2>3 DEF Balanced, OfAccount
<1> QED BY <1>5, <1>6, <1>7 DEF BooksInv

\* The shape of a payout.
PayoutRow == [status : {"NONE", "PENDING_REVIEW", "FIRST_APPROVED", "APPROVED", "PAID", "FAILED"},
              account : Accounts \cup {"NOBODY"}, amount : Nat, entries : SUBSET Books!Entries,
              first : Approvers \cup {"NOBODY"}, second : Approvers \cup {"NOBODY"},
              reference : References \cup {"NOBODY"}, attempts : 0..MaxAttempts]

LEMMA BooksTypes ==
  Books!TypeOK <=> /\ payLedger \in [Books!Entries -> [net : Nat, state : {"NONE", "COOLING", "AVAILABLE"}]]
                   /\ payPayout \in [Books!Payouts -> PayoutRow]
BY DEF Books!TypeOK, PayoutRow, Books!Nobody

\* What a payout claims moves from the unclaimed entries to its amount.
LEMMA RequestKeeps ==
  ASSUME BooksInv, NEW a \in Accounts, NEW j \in Books!Payouts, NEW S \in SUBSET Books!Entries, Books!RequestPayout(a, j, S)
  PROVE  BooksInv'
<1> DEFINE row == [Books!NoPayout EXCEPT !.status = "PENDING_REVIEW", !.account = a, !.amount = Books!Net(S), !.entries = S]
<1>1. Books!TypeOK /\ Claims /\ (\A b \in Accounts : Balanced(b)) /\ Approved
  BY DEF BooksInv
<1>2. /\ payPayout[j] = Books!NoPayout /\ payPayout' = [payPayout EXCEPT ![j] = row] /\ UNCHANGED payLedger
      /\ \A e \in S : AccountOf[e] = a /\ payLedger[e].state = "AVAILABLE" /\ e \notin Books!Claimed
  BY DEF Books!RequestPayout
<1>3. /\ payLedger \in [Books!Entries -> [net : Nat, state : {"NONE", "COOLING", "AVAILABLE"}]]
      /\ payPayout \in [Books!Payouts -> PayoutRow]
  BY <1>1, BooksTypes
<1>4. Books!Net(S) = NetOf(payLedger, S) /\ NetOf(payLedger, S) \in Nat
  <2> DEFINE term == [e \in Books!Entries |-> IF e \in S THEN payLedger[e].net ELSE 0]
  <2>1. \A e \in 1..MaxEntry : term[e] \in Nat
    BY <1>3, BooksBounds
  <2>2. Books!Net(S) = SumTo(term, MaxEntry)
    BY SameSum DEF Books!Net
  <2>3. NetOf(payLedger, S) = SumTo(term, MaxEntry)
    BY DEF NetOf
  <2> HIDE DEF term
  <2>4. SumTo(term, MaxEntry) \in Nat
    BY <2>1, BooksBounds, SumNat
  <2> QED BY <2>2, <2>3, <2>4
<1>5. /\ row.status = "PENDING_REVIEW" /\ row.account = a /\ row.amount = NetOf(payLedger, S) /\ row.entries = S
      /\ row.first = "NOBODY" /\ row.second = "NOBODY" /\ row \in PayoutRow
  <2>1. 0 \in 0..MaxAttempts /\ Books!Net(S) \in Nat
    BY <1>4, SettlementAssumption
  <2>2. Books!NoPayout \in PayoutRow /\ Books!NoPayout.first = "NOBODY" /\ Books!NoPayout.second = "NOBODY"
    BY <2>1 DEF Books!NoPayout, PayoutRow, Books!Nobody
  <2>3. row \in PayoutRow
    BY <2>1, <2>2 DEF PayoutRow
  <2>4. /\ row.status = "PENDING_REVIEW" /\ row.account = a /\ row.amount = Books!Net(S) /\ row.entries = S
        /\ row.first = "NOBODY" /\ row.second = "NOBODY"
    BY <2>2 DEF PayoutRow
  <2> HIDE DEF row
  <2> QED BY <1>4, <2>3, <2>4
<1> HIDE DEF row
<1>6. payPayout' \in [Books!Payouts -> PayoutRow] /\ payPayout'[j] = row /\ \A k \in Books!Payouts \ {j} : payPayout'[k] = payPayout[k]
  BY <1>2, <1>3, <1>5
<1>7. Books!TypeOK'
  BY <1>2, <1>3, <1>6 DEF Books!TypeOK, PayoutRow, Books!Nobody
<1>8. Claims'
  <2> SUFFICES ASSUME NEW k \in Books!Payouts
               PROVE  /\ \A e \in payPayout'[k].entries : payLedger[e].state = "AVAILABLE" /\ AccountOf[e] = payPayout'[k].account
                      /\ payPayout'[k].status = "NONE" => payPayout'[k].amount = 0
    BY <1>2 DEF Claims
  <2>1. CASE k = j
    BY <1>2, <1>5, <1>6, <2>1
  <2>2. CASE k # j
    BY <1>1, <1>6, <2>2 DEF Claims
  <2> QED BY <2>1, <2>2
<1>9. Approved'
  BY <1>1, <1>5, <1>6 DEF Approved
<1>10. payPayout[j].entries = {} /\ payPayout[j].amount = 0
  BY <1>2 DEF Books!NoPayout
<1>11. ASSUME NEW b \in Accounts PROVE Balanced(b)'
  <2>1. Balanced(b)
    BY <1>1
  <2> DEFINE more == IF a = b THEN NetOf(payLedger, S) ELSE 0
  <2>2. Added(payPayout, payPayout', b, j, more)
    <3>1. \A i \in Books!Payouts : payPayout[i].amount \in Nat
      BY <1>3 DEF PayoutRow
    <3> QED BY <1>5, <1>6, <1>10, <3>1 DEF Added
  <2>3. more \in Int
    BY <1>4
  <2> HIDE DEF more
  <2>4. AllOf(payPayout', b) = AllOf(payPayout, b) + more /\ AllOf(payPayout, b) \in Int
    BY <2>2, <2>3, AllMore
  <2>5. NetOf(payLedger, Unclaimed(payPayout, b)) = NetOf(payLedger, Unclaimed(payPayout', b)) + more
        /\ NetOf(payLedger, Unclaimed(payPayout', b)) \in Int
    <3>1. \A e \in Books!Entries : payLedger[e].net \in Nat
      BY <1>3
    <3>2. \A e \in S : \A k \in Books!Payouts : e \notin payPayout[k].entries
      BY <1>2 DEF Books!Claimed
    <3>3. CASE a = b
      <4>1. Unclaimed(payPayout, b) = Unclaimed(payPayout', b) \cup S /\ Unclaimed(payPayout', b) \cap S = {}
        BY <1>2, <1>5, <1>6, <1>10, <3>2, <3>3 DEF Unclaimed
      <4> HIDE DEF Unclaimed
      <4>2. /\ NetOf(payLedger, Unclaimed(payPayout', b) \cup S) = NetOf(payLedger, Unclaimed(payPayout', b)) + NetOf(payLedger, S)
            /\ NetOf(payLedger, Unclaimed(payPayout', b)) \in Int
        BY <3>1, <4>1, NetSplit
      <4> QED BY <3>3, <4>1, <4>2 DEF more
    <3>4. CASE a # b
      <4>1. Unclaimed(payPayout, b) = Unclaimed(payPayout', b)
        BY <1>2, <1>5, <1>6, <1>10, <3>4 DEF Unclaimed
      <4>2. NetOf(payLedger, Unclaimed(payPayout', b)) \in Int
        BY <3>1, NetInt
      <4> QED BY <3>4, <4>1, <4>2 DEF more
    <3> QED BY <3>3, <3>4
  <2>6. NetOf(payLedger, OfAccount(b)) = NetOf(payLedger, Unclaimed(payPayout', b)) + AllOf(payPayout', b)
    BY <2>1, <2>3, <2>4, <2>5 DEF Balanced
  <2> QED BY <1>2, <2>6 DEF Balanced, OfAccount
<1> QED BY <1>7, <1>8, <1>9, <1>11 DEF BooksInv

\* Approvals and executions leave the claim and the amount alone.
LEMMA MutateKeeps ==
  ASSUME BooksInv, NEW j \in Books!Payouts, NEW row \in PayoutRow, UNCHANGED payLedger,
         payPayout' = [payPayout EXCEPT ![j] = row], row.status # "NONE",
         row.account = payPayout[j].account /\ row.amount = payPayout[j].amount /\ row.entries = payPayout[j].entries,
         row.first # "NOBODY",
         row.status # "FIRST_APPROVED" => row.second # "NOBODY" /\ row.first # row.second
  PROVE  BooksInv'
<1>1. Books!TypeOK /\ Claims /\ (\A b \in Accounts : Balanced(b)) /\ Approved
  BY DEF BooksInv
<1>2. /\ payLedger \in [Books!Entries -> [net : Nat, state : {"NONE", "COOLING", "AVAILABLE"}]]
      /\ payPayout \in [Books!Payouts -> PayoutRow]
  BY <1>1, BooksTypes
<1>3. payPayout' \in [Books!Payouts -> PayoutRow] /\ payPayout'[j] = row /\ \A k \in Books!Payouts \ {j} : payPayout'[k] = payPayout[k]
  BY <1>2
<1>4. \A k \in Books!Payouts : /\ payPayout'[k].account = payPayout[k].account /\ payPayout'[k].amount = payPayout[k].amount
                               /\ payPayout'[k].entries = payPayout[k].entries
  BY <1>3
<1>5. Books!TypeOK'
  BY <1>2, <1>3 DEF Books!TypeOK, PayoutRow, Books!Nobody
<1>6. Claims'
  BY <1>1, <1>3, <1>4 DEF Claims
<1>7. Approved'
  BY <1>1, <1>3 DEF Approved
<1>8. ASSUME NEW b \in Accounts PROVE Balanced(b)'
  <2>1. AllOf(payPayout', b) = AllOf(payPayout, b)
    <3>1. \A k \in Books!Payouts : payPayout'[k].account = payPayout[k].account /\ payPayout'[k].amount = payPayout[k].amount
      BY <1>4
    <3> DEFINE q == payPayout'
    <3>2. \A k \in Books!Payouts : q[k].account = payPayout[k].account /\ q[k].amount = payPayout[k].amount
      BY <3>1
    <3> HIDE DEF q
    <3>3. AllOf(q, b) = AllOf(payPayout, b)
      BY <3>2, AllSame
    <3> QED BY <3>3 DEF q
  <2>2. Unclaimed(payPayout', b) = Unclaimed(payPayout, b)
    BY <1>4 DEF Unclaimed
  <2>3. Balanced(b)
    BY <1>1
  <2> QED BY <2>1, <2>2, <2>3 DEF Balanced, OfAccount
<1> QED BY <1>5, <1>6, <1>7, <1>8 DEF BooksInv

LEMMA ApproveKeeps ==
  ASSUME BooksInv, NEW p \in Approvers, NEW j \in Books!Payouts, Books!ApprovePayout(p, j)
  PROVE  BooksInv'
<1>1. payPayout[j] \in PayoutRow /\ Approved /\ p # "NOBODY" /\ p \in Approvers
  BY BooksTypes, SettlementAssumption DEF BooksInv
<1>2. CASE Books!mutatePayout(j, {"PENDING_REVIEW"}, [payPayout[j] EXCEPT !.status = "FIRST_APPROVED", !.first = p])
  <2> DEFINE row == [payPayout[j] EXCEPT !.status = "FIRST_APPROVED", !.first = p]
  <2>1. row \in PayoutRow /\ row.status = "FIRST_APPROVED" /\ row.first = p
    BY <1>1 DEF PayoutRow
  <2>2. row.account = payPayout[j].account /\ row.amount = payPayout[j].amount /\ row.entries = payPayout[j].entries
    BY <1>1 DEF PayoutRow
  <2>3. UNCHANGED payLedger /\ payPayout' = [payPayout EXCEPT ![j] = row]
    BY <1>2 DEF Books!mutatePayout
  <2> HIDE DEF row
  <2> QED BY <1>1, <2>1, <2>2, <2>3, MutateKeeps
<1>3. CASE payPayout[j].first # p /\ Books!mutatePayout(j, {"FIRST_APPROVED"}, [payPayout[j] EXCEPT !.status = "APPROVED", !.second = p])
  <2> DEFINE row == [payPayout[j] EXCEPT !.status = "APPROVED", !.second = p]
  <2>1. row \in PayoutRow /\ row.status = "APPROVED" /\ row.second = p /\ row.first = payPayout[j].first
    BY <1>1 DEF PayoutRow
  <2>2. row.account = payPayout[j].account /\ row.amount = payPayout[j].amount /\ row.entries = payPayout[j].entries
    BY <1>1 DEF PayoutRow
  <2>3. UNCHANGED payLedger /\ payPayout' = [payPayout EXCEPT ![j] = row] /\ payPayout[j].status = "FIRST_APPROVED"
    BY <1>3 DEF Books!mutatePayout
  <2>4. payPayout[j].first # "NOBODY"
    BY <1>1, <2>3 DEF Approved
  <2> HIDE DEF row
  <2> QED BY <1>1, <1>3, <2>1, <2>2, <2>3, <2>4, MutateKeeps
<1> QED BY <1>2, <1>3 DEF Books!ApprovePayout

LEMMA ExecuteKeeps ==
  ASSUME BooksInv, NEW j \in Books!Payouts, NEW reference \in References, NEW success \in BOOLEAN,
         Books!ExecutePayout(j, reference, success)
  PROVE  BooksInv'
<1>1. payPayout[j] \in PayoutRow /\ Approved
  BY BooksTypes DEF BooksInv
<1> DEFINE row == [payPayout[j] EXCEPT !.status = IF success THEN "PAID" ELSE "FAILED",
                                       !.reference = reference, !.attempts = @ + 1]
<1>2. /\ payPayout[j].attempts < MaxAttempts /\ payPayout[j].status \in {"APPROVED", "FAILED"}
      /\ UNCHANGED payLedger /\ payPayout' = [payPayout EXCEPT ![j] = row]
  BY DEF Books!ExecutePayout, Books!mutatePayout
<1>3. payPayout[j].attempts \in 0..MaxAttempts
  BY <1>1 DEF PayoutRow
<1>4. payPayout[j].attempts + 1 \in 0..MaxAttempts
  BY <1>2, <1>3, SettlementAssumption
<1>5. row \in PayoutRow /\ row.status \in {"PAID", "FAILED"} /\ row.first = payPayout[j].first /\ row.second = payPayout[j].second
  BY <1>1, <1>4 DEF PayoutRow
<1>6. row.account = payPayout[j].account /\ row.amount = payPayout[j].amount /\ row.entries = payPayout[j].entries
  BY <1>1 DEF PayoutRow
<1>7. payPayout[j].first # "NOBODY" /\ payPayout[j].second # "NOBODY" /\ payPayout[j].first # payPayout[j].second
  BY <1>1, <1>2 DEF Approved
<1> HIDE DEF row
<1> QED BY <1>2, <1>5, <1>6, <1>7, MutateKeeps

LEMMA BooksInit == Books!Init => BooksInv
<1> SUFFICES ASSUME Books!Init PROVE BooksInv
  OBVIOUS
<1>1. payLedger = [e \in Books!Entries |-> Books!NoEntry] /\ payPayout = [k \in Books!Payouts |-> Books!NoPayout]
  BY DEF Books!Init
<1>2. Books!NoEntry \in [net : Nat, state : {"NONE", "COOLING", "AVAILABLE"}] /\ Books!NoEntry.net = 0
  BY DEF Books!NoEntry
<1>3. 0 \in 0..MaxAttempts
  BY SettlementAssumption
<1>4. /\ Books!NoPayout \in PayoutRow /\ Books!NoPayout.entries = {} /\ Books!NoPayout.amount = 0
      /\ Books!NoPayout.status = "NONE"
  BY <1>3 DEF Books!NoPayout, PayoutRow, Books!Nobody
<1>5. Books!TypeOK
  BY <1>1, <1>2, <1>4, BooksTypes
<1>6. Claims /\ Approved
  BY <1>1, <1>4 DEF Claims, Approved
<1>7. ASSUME NEW a \in Accounts PROVE Balanced(a)
  <2>1. \A S : NetOf(payLedger, S) = 0
    <3> SUFFICES ASSUME NEW S PROVE NetOf(payLedger, S) = 0
      OBVIOUS
    <3> DEFINE term == [e \in Books!Entries |-> IF e \in S THEN payLedger[e].net ELSE 0]
    <3>1. \A e \in 1..MaxEntry : term[e] = 0
      BY <1>1, <1>2, BooksBounds
    <3> HIDE DEF term
    <3>2. SumTo(term, MaxEntry) = 0
      BY <3>1, BooksBounds, SumZero
    <3> QED BY <3>2 DEF NetOf, term
  <2>2. AllOf(payPayout, a) = 0
    <3> DEFINE term == [k \in Books!Payouts |-> IF payPayout[k].account = a THEN payPayout[k].amount ELSE 0]
    <3>1. \A k \in 1..MaxPayout : term[k] = 0
      BY <1>1, <1>4, BooksBounds
    <3> HIDE DEF term
    <3>2. SumTo(term, MaxPayout) = 0
      BY <3>1, BooksBounds, SumZero
    <3> QED BY <3>2 DEF AllOf, term
  <2> QED BY <2>1, <2>2 DEF Balanced
<1> QED BY <1>5, <1>6, <1>7 DEF BooksInv

LEMMA BooksNext == BooksInv /\ [Books!Next]_(Books!vars) => BooksInv'
<1> SUFFICES ASSUME BooksInv, [Books!Next]_(Books!vars) PROVE BooksInv'
  OBVIOUS
<1>1. CASE UNCHANGED Books!vars
  BY <1>1 DEF Books!vars, BooksInv, Books!TypeOK, Claims, Balanced, OfAccount, Approved
<1>2. ASSUME NEW e \in Books!Entries, Books!SeedSettlement(e) PROVE BooksInv'
  <2> DEFINE commission == Books!settlementBasisPoints(Gross[e], CommissionBasisPoints)
             tax == Books!settlementBasisPoints(commission, TaxBasisPoints)
  <2>1. Gross[e] \in Nat /\ CommissionBasisPoints \in Nat /\ TaxBasisPoints \in Nat
    BY SettlementAssumption, BooksBounds
  <2>2. commission \in Nat
    BY <2>1, RatesInt
  <2>3. Books!seedPostgresSettlement(e, Gross[e], commission, tax)
    BY <1>2 DEF Books!SeedSettlement
  <2> HIDE DEF commission
  <2>4. tax \in Nat
    BY <2>1, <2>2, RatesInt
  <2> HIDE DEF tax
  <2>5. Gross[e] \in Int /\ commission \in Int /\ tax \in Int
    BY <2>1, <2>2, <2>4
  <2> QED BY <2>3, <2>5, SeedingKeeps
<1>3. ASSUME NEW e \in Books!Entries, Books!SeedOrderSettlement(e) PROVE BooksInv'
  <2> DEFINE tax == Books!settlementBasisPoints(Books!OrderCommission(e), TaxBasisPoints)
  <2>1. Books!OrderGross(e) \in Int /\ Books!OrderCommission(e) \in Nat /\ TaxBasisPoints \in Nat
    BY OrderInt, SettlementAssumption
  <2>2. Books!seedPostgresSettlement(e, Books!OrderGross(e), Books!OrderCommission(e), tax)
    BY <1>3 DEF Books!SeedOrderSettlement
  <2>3. tax \in Nat
    BY <2>1, RatesInt
  <2> HIDE DEF tax
  <2>4. Books!OrderCommission(e) \in Int /\ tax \in Int
    BY <2>1, <2>3
  <2> QED BY <2>1, <2>2, <2>4, SeedingKeeps
<1>4. ASSUME NEW e \in Books!Entries, Books!CoolingEnds(e) PROVE BooksInv'
  BY <1>4, CoolingKeeps
<1>5. ASSUME NEW a \in Accounts, NEW k \in Books!Payouts, NEW S \in SUBSET Books!Entries, Books!RequestPayout(a, k, S) PROVE BooksInv'
  BY <1>5, RequestKeeps
<1>6. ASSUME NEW p \in Approvers, NEW k \in Books!Payouts, Books!ApprovePayout(p, k) PROVE BooksInv'
  BY <1>6, ApproveKeeps
<1>7. ASSUME NEW k \in Books!Payouts, NEW reference \in References, NEW success \in BOOLEAN,
             Books!ExecutePayout(k, reference, success)
      PROVE  BooksInv'
  BY <1>7, ExecuteKeeps
<1> QED BY <1>1, <1>2, <1>3, <1>4, <1>5, <1>6, <1>7, Zenon DEF Books!Next

\* Reconcile splits the payouts of an account by status.
LEMMA BooksImply == BooksInv => PaidOutOnce
<1> SUFFICES ASSUME BooksInv PROVE PaidOutOnce
  OBVIOUS
<1>1. Books!TypeOK /\ Claims /\ (\A a \in Accounts : Balanced(a)) /\ Approved
  BY DEF BooksInv
<1>2. /\ payLedger \in [Books!Entries -> [net : Nat, state : {"NONE", "COOLING", "AVAILABLE"}]]
      /\ payPayout \in [Books!Payouts -> PayoutRow]
  BY <1>1, BooksTypes
<1>3. \A S : Books!Net(S) = NetOf(payLedger, S)
  BY SameSum DEF Books!Net, NetOf
<1>4. ASSUME NEW a \in Accounts
      PROVE  Books!Reconcile(a) = Books!Net({e \in Books!Entries : AccountOf[e] = a /\ e \notin Books!Claimed}) + Books!Amounts(a, {"FAILED"})
  <2> DEFINE term(T) == [k \in Books!Payouts |-> IF payPayout[k].account = a /\ payPayout[k].status \in T THEN payPayout[k].amount ELSE 0]
             all == [k \in Books!Payouts |-> IF payPayout[k].account = a THEN payPayout[k].amount ELSE 0]
             P == {"PAID"}
             O == {"PENDING_REVIEW", "FIRST_APPROVED", "APPROVED"}
             F == {"FAILED"}
             settled == [k \in Books!Payouts |-> term(P)[k] + term(O)[k]]
             paid == term(P)
             open == term(O)
             failed == term(F)
  <2>1. ASSUME NEW k \in 1..MaxPayout
        PROVE  /\ paid[k] \in Int /\ open[k] \in Int /\ failed[k] \in Int
               /\ settled[k] = paid[k] + open[k] /\ all[k] = settled[k] + failed[k]
    <3>1. k \in Books!Payouts /\ payPayout[k] \in PayoutRow
      BY <1>2, BooksBounds
    <3>2. payPayout[k].amount \in Nat /\ (payPayout[k].status = "NONE" => payPayout[k].amount = 0)
          /\ payPayout[k].status \in {"NONE", "PENDING_REVIEW", "FIRST_APPROVED", "APPROVED", "PAID", "FAILED"}
      BY <1>1, <3>1 DEF PayoutRow, Claims
    <3>3. paid[k] = IF payPayout[k].account = a /\ payPayout[k].status = "PAID" THEN payPayout[k].amount ELSE 0
      BY <3>1
    <3>4. open[k] = IF payPayout[k].account = a /\ payPayout[k].status \in O THEN payPayout[k].amount ELSE 0
      BY <3>1
    <3>5. failed[k] = IF payPayout[k].account = a /\ payPayout[k].status = "FAILED" THEN payPayout[k].amount ELSE 0
      BY <3>1
    <3>6. all[k] = (IF payPayout[k].account = a THEN payPayout[k].amount ELSE 0) /\ settled[k] = paid[k] + open[k]
      BY <3>1
    <3> HIDE DEF paid, open, failed, all, settled
    <3> QED BY <3>2, <3>3, <3>4, <3>5, <3>6
  <2>2. /\ Books!Amounts(a, P) = SumTo(paid, MaxPayout) /\ Books!Amounts(a, O) = SumTo(open, MaxPayout)
        /\ Books!Amounts(a, F) = SumTo(failed, MaxPayout) /\ AllOf(payPayout, a) = SumTo(all, MaxPayout)
    BY SameSum DEF Books!Amounts, AllOf
  <2>3. Books!Reconcile(a) = Books!Net({e \in Books!Entries : AccountOf[e] = a}) - Books!Amounts(a, P) - Books!Amounts(a, O)
    BY DEF Books!Reconcile
  <2>4. Unclaimed(payPayout, a) = {e \in Books!Entries : AccountOf[e] = a /\ e \notin Books!Claimed}
    BY DEF Unclaimed, Books!Claimed
  <2>5. OfAccount(a) = {e \in Books!Entries : AccountOf[e] = a}
    BY DEF OfAccount
  <2> HIDE DEF paid, open, failed, all, settled
  <2>6. /\ SumTo(paid, MaxPayout) \in Int /\ SumTo(open, MaxPayout) \in Int
        /\ SumTo(settled, MaxPayout) = SumTo(paid, MaxPayout) + SumTo(open, MaxPayout)
    <3>1. \A k \in 1..MaxPayout : paid[k] \in Int /\ open[k] \in Int /\ settled[k] = paid[k] + open[k]
      BY <2>1, Zenon
    <3> QED BY <3>1, BooksBounds, SumLinear
  <2>7. /\ SumTo(failed, MaxPayout) \in Int
        /\ SumTo(all, MaxPayout) = SumTo(settled, MaxPayout) + SumTo(failed, MaxPayout)
    <3>1. \A k \in 1..MaxPayout : settled[k] \in Int /\ failed[k] \in Int /\ all[k] = settled[k] + failed[k]
      BY <2>1
    <3> QED BY <3>1, BooksBounds, SumLinear
  <2>8. NetOf(payLedger, OfAccount(a)) \in Int /\ NetOf(payLedger, Unclaimed(payPayout, a)) \in Int
    BY <1>2, NetInt
  <2>9. NetOf(payLedger, OfAccount(a)) = NetOf(payLedger, Unclaimed(payPayout, a)) + AllOf(payPayout, a)
    BY <1>1 DEF Balanced
  <2>10. /\ Books!Net({e \in Books!Entries : AccountOf[e] = a}) = NetOf(payLedger, OfAccount(a))
         /\ Books!Net({e \in Books!Entries : AccountOf[e] = a /\ e \notin Books!Claimed}) = NetOf(payLedger, Unclaimed(payPayout, a))
    BY <1>3, <2>4, <2>5
  <2> QED BY <2>2, <2>3, <2>6, <2>7, <2>8, <2>9, <2>10
<1>5. \A k \in Books!Payouts : payPayout[k].status \in {"APPROVED", "PAID", "FAILED"} =>
        payPayout[k].first # payPayout[k].second /\ "NOBODY" \notin {payPayout[k].first, payPayout[k].second}
  BY <1>1 DEF Approved
<1> QED BY <1>1, <1>4, <1>5, Zenon DEF PaidOutOnce, Books!PaidOutOnce, Books!Nobody

\* internal/fulfillment, settlement: whatever entries, payouts, approvers and
\* retries there are, the variance Reconcile reports is the money no payout has
\* claimed or whose payout failed, and what is paid was approved by two people.
THEOREM SettledOnce == Books!Spec => []PaidOutOnce
<1>1. Books!Spec => []BooksInv
  BY BooksInit, BooksNext, PTL DEF Books!Spec
<1> QED BY <1>1, BooksImply, PTL

----------------------------------------------------------------------------
(* Supply (internal/supply).  The invariant gives every stage its timeline, *)
(* says that a verified account is the one that was looked at, and that     *)
(* whoever sends the revision of the row looked at what is in it.           *)

AppStatus == {"NONE", "REGISTERED", "DOCUMENTS_SUBMITTED", "OCR_REVIEW", "KYC_REVIEW", "FIELD_VISIT_REQUIRED",
              "FIELD_VISIT_SCHEDULED", "FIELD_VISIT_PASSED", "BANK_REVIEW", "APPROVED", "REJECTED"}
AppRow == [revision : Nat, status : AppStatus, ocr : {"NONE", "PENDING", "REVIEW_REQUIRED", "VERIFIED"},
           visit : {"NONE", "SCHEDULED", "CHECKED_IN"}, zones : BOOLEAN, bank : Banks \cup {"NONE"},
           bankStatus : {"NONE", "PENDING_VERIFICATION", "VERIFIED"}, verified : BOOLEAN, timeline : Vendors!Seq(AppStatus)]
ItemRow == [revision : Nat, content : Contents \cup {"NONE"}, stock : Nat, scheduled : BOOLEAN,
            approval : {"NONE", "PENDING_APPROVAL", "APPROVED", "REJECTED"}, active : BOOLEAN]
Whats == Banks \cup Contents \cup {"NONE"}
Screen == [revision : Nat, what : Whats]

Stages == {"REGISTERED", "DOCUMENTS_SUBMITTED", "OCR_REVIEW", "KYC_REVIEW", "FIELD_VISIT_REQUIRED",
           "FIELD_VISIT_SCHEDULED", "FIELD_VISIT_PASSED", "BANK_REVIEW", "APPROVED"}
Late == {"KYC_REVIEW", "FIELD_VISIT_REQUIRED", "FIELD_VISIT_SCHEDULED", "FIELD_VISIT_PASSED", "BANK_REVIEW", "APPROVED"}
Follows ==
  {<<"REGISTERED", "DOCUMENTS_SUBMITTED">>, <<"DOCUMENTS_SUBMITTED", "OCR_REVIEW">>, <<"OCR_REVIEW", "KYC_REVIEW">>,
   <<"KYC_REVIEW", "FIELD_VISIT_REQUIRED">>, <<"FIELD_VISIT_REQUIRED", "FIELD_VISIT_SCHEDULED">>,
   <<"FIELD_VISIT_SCHEDULED", "FIELD_VISIT_PASSED">>, <<"FIELD_VISIT_PASSED", "BANK_REVIEW">>, <<"BANK_REVIEW", "APPROVED">>}
Path(s) ==
  CASE s = "REGISTERED" -> <<"REGISTERED">>
    [] s = "DOCUMENTS_SUBMITTED" -> <<"REGISTERED", "DOCUMENTS_SUBMITTED">>
    [] s = "OCR_REVIEW" -> <<"REGISTERED", "DOCUMENTS_SUBMITTED", "OCR_REVIEW">>
    [] s = "KYC_REVIEW" -> <<"REGISTERED", "DOCUMENTS_SUBMITTED", "OCR_REVIEW", "KYC_REVIEW">>
    [] s = "FIELD_VISIT_REQUIRED" -> <<"REGISTERED", "DOCUMENTS_SUBMITTED", "OCR_REVIEW", "KYC_REVIEW", "FIELD_VISIT_REQUIRED">>
    [] s = "FIELD_VISIT_SCHEDULED" -> <<"REGISTERED", "DOCUMENTS_SUBMITTED", "OCR_REVIEW", "KYC_REVIEW", "FIELD_VISIT_REQUIRED",
                                        "FIELD_VISIT_SCHEDULED">>
    [] s = "FIELD_VISIT_PASSED" -> <<"REGISTERED", "DOCUMENTS_SUBMITTED", "OCR_REVIEW", "KYC_REVIEW", "FIELD_VISIT_REQUIRED",
                                     "FIELD_VISIT_SCHEDULED", "FIELD_VISIT_PASSED">>
    [] s = "BANK_REVIEW" -> <<"REGISTERED", "DOCUMENTS_SUBMITTED", "OCR_REVIEW", "KYC_REVIEW", "FIELD_VISIT_REQUIRED",
                              "FIELD_VISIT_SCHEDULED", "FIELD_VISIT_PASSED", "BANK_REVIEW">>
    [] s = "APPROVED" -> <<"REGISTERED", "DOCUMENTS_SUBMITTED", "OCR_REVIEW", "KYC_REVIEW", "FIELD_VISIT_REQUIRED",
                           "FIELD_VISIT_SCHEDULED", "FIELD_VISIT_PASSED", "BANK_REVIEW", "APPROVED">>
    [] OTHER -> <<>>

\* What is true of an application, given what was vouched for it, and of the
\* screen that shows it.
AppOK(a, w) ==
  /\ a \in AppRow
  /\ a.status \in Stages => a.timeline = Path(a.status)
  /\ a.status \in Late => a.ocr = "VERIFIED"
  /\ a.verified => a.status = "APPROVED"
  /\ a.status = "APPROVED" => a.bankStatus = "VERIFIED"
  /\ a.bankStatus = "VERIFIED" => a.bank = w
AppShown(a, s) == s \in Screen /\ s.revision <= a.revision /\ (s.revision = a.revision => s.what = a.bank)

ItemOK(i, w) ==
  /\ i \in ItemRow /\ (i.revision = 0 => i = Vendors!NoItem)
  /\ i.active => i.content = w
ItemShown(i, s) == s \in Screen /\ s.revision <= i.revision /\ (s.revision = i.revision => s.what = i.content)

SupplyTypes ==
  /\ supplyApplication \in [Sellers -> AppRow] /\ supplyItem \in [Items -> ItemRow]
  /\ supplySeen \in [Sellers \cup Items -> Screen] /\ supplyVouched \in [Sellers \cup Items -> Whats]
AppsOK == \A v \in Sellers : AppOK(supplyApplication[v], supplyVouched[v]) /\ AppShown(supplyApplication[v], supplySeen[v])
ItemsOK ==
  \A i \in Items : /\ ItemOK(supplyItem[i], supplyVouched[i]) /\ ItemShown(supplyItem[i], supplySeen[i])
                   /\ supplyItem[i].revision # 0 => supplyApplication[OwnerOf[i]].verified

SupplyInv == SupplyTypes /\ AppsOK /\ ItemsOK

\* The timeline of a stage is that of the stage before, and the stage.
LEMMA PathStep ==
  ASSUME NEW s, NEW t, <<s, t>> \in Follows
  PROVE  s \in Stages /\ t \in Stages /\ s # t /\ s # "APPROVED" /\ Path(t) = Vendors!Append(Path(s), t)
<1>1. CASE s = "REGISTERED" /\ t = "DOCUMENTS_SUBMITTED"
  BY <1>1 DEF Path, Stages
<1>2. CASE s = "DOCUMENTS_SUBMITTED" /\ t = "OCR_REVIEW"
  BY <1>2 DEF Path, Stages
<1>3. CASE s = "OCR_REVIEW" /\ t = "KYC_REVIEW"
  BY <1>3 DEF Path, Stages
<1>4. CASE s = "KYC_REVIEW" /\ t = "FIELD_VISIT_REQUIRED"
  BY <1>4 DEF Path, Stages
<1>5. CASE s = "FIELD_VISIT_REQUIRED" /\ t = "FIELD_VISIT_SCHEDULED"
  BY <1>5 DEF Path, Stages
<1>6. CASE s = "FIELD_VISIT_SCHEDULED" /\ t = "FIELD_VISIT_PASSED"
  BY <1>6 DEF Path, Stages
<1>7. CASE s = "FIELD_VISIT_PASSED" /\ t = "BANK_REVIEW"
  BY <1>7 DEF Path, Stages
<1>8. CASE s = "BANK_REVIEW" /\ t = "APPROVED"
  BY <1>8 DEF Path, Stages
<1> QED BY <1>1, <1>2, <1>3, <1>4, <1>5, <1>6, <1>7, <1>8 DEF Follows

SavedAs(row, value, n, timeline) ==
  /\ row \in AppRow /\ row.revision = n /\ row.timeline = timeline
  /\ row.status = value.status /\ row.ocr = value.ocr /\ row.bank = value.bank /\ row.bankStatus = value.bankStatus
  /\ row.verified <=> value.verified

LEMMA AppendTyped ==
  ASSUME NEW S, NEW q \in Vendors!Seq(S), NEW s \in S
  PROVE  Vendors!Append(q, s) \in Vendors!Seq(S)
OBVIOUS

\* A row is saved as the next revision.
LEMMA SavedRow ==
  ASSUME NEW value \in AppRow, NEW n \in Nat, NEW timeline \in Vendors!Seq(AppStatus)
  PROVE  SavedAs([value EXCEPT !.revision = n, !.timeline = timeline], value, n, timeline)
BY DEF AppRow, SavedAs

\* A step that saves an application that is not live yet.
LEMMA SaveKeeps ==
  ASSUME SupplyInv, NEW v \in Sellers, NEW row, supplyApplication' = [supplyApplication EXCEPT ![v] = row],
         UNCHANGED <<supplyItem, supplySeen>>, ~supplyApplication[v].verified,
         AppOK(row, supplyVouched'[v]), row.revision = supplyApplication[v].revision + 1,
         supplyVouched' \in [Sellers \cup Items -> Whats],
         \A x \in (Sellers \cup Items) \ {v} : supplyVouched'[x] = supplyVouched[x]
  PROVE  SupplyInv'
<1>1. SupplyTypes /\ AppsOK /\ ItemsOK
  BY DEF SupplyInv
<1>2. row \in AppRow /\ supplyApplication[v] \in AppRow /\ AppShown(supplyApplication[v], supplySeen[v])
  BY <1>1 DEF AppOK, AppsOK
<1>3. AppShown(row, supplySeen[v])
  BY <1>2 DEF AppShown, Screen, AppRow
<1>4. supplyApplication' \in [Sellers -> AppRow] /\ supplyApplication'[v] = row
      /\ \A u \in Sellers \ {v} : supplyApplication'[u] = supplyApplication[u]
  BY <1>1, <1>2 DEF SupplyTypes
<1>5. SupplyTypes'
  BY <1>1, <1>4 DEF SupplyTypes
<1>6. AppsOK'
  BY <1>1, <1>3, <1>4 DEF AppsOK
<1>7. ItemsOK'
  <2> SUFFICES ASSUME NEW i \in Items
               PROVE  /\ ItemOK(supplyItem[i], supplyVouched'[i]) /\ ItemShown(supplyItem[i], supplySeen[i])
                      /\ supplyItem[i].revision # 0 => supplyApplication'[OwnerOf[i]].verified
    BY DEF ItemsOK
  <2>1. /\ ItemOK(supplyItem[i], supplyVouched[i]) /\ ItemShown(supplyItem[i], supplySeen[i])
        /\ supplyItem[i].revision # 0 => supplyApplication[OwnerOf[i]].verified
    BY <1>1 DEF ItemsOK
  <2>2. supplyVouched'[i] = supplyVouched[i] /\ OwnerOf[i] \in Sellers
    BY SupplyAssumption
  <2> QED BY <1>4, <2>1, <2>2
<1> QED BY <1>5, <1>6, <1>7 DEF SupplyInv

\* A step that saves an application that is not approved yet.
LEMMA ApplicationStep ==
  ASSUME SupplyInv, NEW v \in Sellers, NEW revision, NEW value \in AppRow, Vendors!mutateApplication(v, revision, value),
         supplyApplication[v].status \in Stages \ {"APPROVED"},
         \/ value.status \in {supplyApplication[v].status, "REJECTED"}
         \/ <<supplyApplication[v].status, value.status>> \in Follows,
         value.status \in Late => value.ocr = "VERIFIED",
         value.verified => value.status = "APPROVED",
         value.status = "APPROVED" => value.bankStatus = "VERIFIED",
         value.bankStatus = "VERIFIED" => value.bank = supplyVouched'[v],
         supplyVouched' \in [Sellers \cup Items -> Whats],
         \A x \in (Sellers \cup Items) \ {v} : supplyVouched'[x] = supplyVouched[x]
  PROVE  SupplyInv'
<1> DEFINE a == supplyApplication[v]
           timeline == Vendors!appendApplicationTimeline(v, value.status)
           row == [value EXCEPT !.revision = revision + 1, !.timeline = timeline]
<1>1. /\ revision = a.revision /\ supplyApplication' = [supplyApplication EXCEPT ![v] = row]
      /\ UNCHANGED <<supplyItem, supplyWork, supplyPromotion, supplySeen>>
  BY DEF Vendors!mutateApplication, Vendors!saveApplication
<1>2. SupplyTypes /\ AppsOK /\ ItemsOK
  BY DEF SupplyInv
<1>3. AppOK(a, supplyVouched[v]) /\ AppShown(a, supplySeen[v])
  BY <1>2 DEF AppsOK
<1>4. a \in AppRow /\ a.revision \in Nat /\ a.timeline = Path(a.status) /\ a.timeline \in Vendors!Seq(AppStatus) /\ value.status \in AppStatus
  BY <1>3 DEF AppOK, AppRow
<1>5. timeline \in Vendors!Seq(AppStatus) /\ (value.status \in Stages => timeline = Path(value.status))
  <2>1. timeline = IF value.status = a.status THEN a.timeline ELSE Vendors!Append(a.timeline, value.status)
    BY DEF Vendors!appendApplicationTimeline
  <2>2. timeline \in Vendors!Seq(AppStatus)
    <3>1. Vendors!Append(a.timeline, value.status) \in Vendors!Seq(AppStatus)
      BY <1>4, AppendTyped
    <3> QED BY <1>4, <2>1, <3>1
  <2>3. CASE value.status = a.status
    BY <1>4, <2>1, <2>2, <2>3
  <2>4. CASE value.status = "REJECTED"
    BY <2>2, <2>4 DEF Stages
  <2>5. CASE <<a.status, value.status>> \in Follows
    <3>1. a.status # value.status /\ Path(value.status) = Vendors!Append(Path(a.status), value.status)
      BY <2>5, PathStep
    <3> QED BY <1>4, <2>1, <2>2, <3>1
  <2> QED BY <2>3, <2>4, <2>5
<1>6. a.revision + 1 \in Nat /\ a.revision + 1 # a.revision
  BY <1>4
<1> HIDE DEF timeline
<1>7. /\ row \in AppRow /\ row.revision = a.revision + 1 /\ row.timeline = timeline
      /\ row.status = value.status /\ row.ocr = value.ocr /\ row.bank = value.bank /\ row.bankStatus = value.bankStatus
      /\ row.verified <=> value.verified
  <2>1. SavedAs(row, value, revision + 1, timeline)
    BY <1>1, <1>5, <1>6, SavedRow
  <2> QED BY <1>1, <2>1 DEF SavedAs
<1> HIDE DEF row
<1>8. AppOK(row, supplyVouched'[v])
  BY <1>5, <1>7 DEF AppOK
<1>9. ~a.verified
  BY <1>3 DEF AppOK
<1> QED BY <1>1, <1>7, <1>8, <1>9, SaveKeeps

\* The application commands, by the stage they start from.
LEMMA DocumentsKeep ==
  ASSUME SupplyInv, NEW v \in Sellers, Vendors!SubmitDocuments(v)
  PROVE  SupplyInv'
<1> DEFINE a == supplyApplication[v]
           value == [a EXCEPT !.status = "DOCUMENTS_SUBMITTED", !.ocr = "PENDING"]
<1>1. AppOK(a, supplyVouched[v]) /\ supplyVouched \in [Sellers \cup Items -> Whats]
  BY DEF SupplyInv, AppsOK, SupplyTypes
<1>2. a.status = "REGISTERED" /\ Vendors!mutateApplication(v, a.revision, value) /\ UNCHANGED supplyVouched
  BY DEF Vendors!SubmitDocuments
<1>3. /\ value \in AppRow /\ value.status = "DOCUMENTS_SUBMITTED" /\ value.bankStatus = a.bankStatus /\ value.bank = a.bank
      /\ value.verified <=> a.verified
  BY <1>1 DEF AppOK, AppRow, AppStatus
<1>4. ~a.verified /\ (a.bankStatus = "VERIFIED" => a.bank = supplyVouched[v])
  BY <1>1, <1>2 DEF AppOK
<1> HIDE DEF value
<1>5. a.status \in Stages \ {"APPROVED"} /\ <<a.status, value.status>> \in Follows /\ value.status \notin Late
  BY <1>2, <1>3 DEF Stages, Follows, Late
<1> QED BY <1>1, <1>2, <1>3, <1>4, <1>5, ApplicationStep

LEMMA TransitionKeeps ==
  ASSUME SupplyInv, NEW v \in Sellers, NEW status \in AppStatus, Vendors!TransitionForVendor(v, status)
  PROVE  SupplyInv'
<1> DEFINE a == supplyApplication[v]
           value == [a EXCEPT !.status = status, !.verified = status = "APPROVED",
                              !.ocr = CASE status = "OCR_REVIEW" -> "REVIEW_REQUIRED"
                                        [] status = "KYC_REVIEW" -> "VERIFIED" [] OTHER -> @]
<1>1. AppOK(a, supplyVouched[v]) /\ supplyVouched \in [Sellers \cup Items -> Whats]
  BY DEF SupplyInv, AppsOK, SupplyTypes
<1>2. /\ <<a.status, status>> \in Vendors!allowedApplicationTransition
      /\ status = "APPROVED" => a.bankStatus = "VERIFIED"
      /\ Vendors!mutateApplication(v, supplySeen[v].revision, value) /\ UNCHANGED supplyVouched
  BY DEF Vendors!TransitionForVendor
<1>3. /\ a.status \in Stages \ {"APPROVED"}
      /\ status = "REJECTED" \/ <<a.status, status>> \in Follows
      /\ status \in Late => status = "KYC_REVIEW" \/ (a.status \in Late /\ status # "OCR_REVIEW")
  BY <1>2 DEF Stages, Follows, Late, Vendors!allowedApplicationTransition
<1>4. value \in AppRow
  BY <1>1 DEF AppOK, AppRow, AppStatus
<1>5. /\ value.status = status /\ value.bankStatus = a.bankStatus /\ value.bank = a.bank
      /\ value.verified <=> (status = "APPROVED")
  BY <1>1 DEF AppOK, AppRow, AppStatus
<1>6. value.ocr = CASE status = "OCR_REVIEW" -> "REVIEW_REQUIRED" [] status = "KYC_REVIEW" -> "VERIFIED" [] OTHER -> a.ocr
  BY <1>1 DEF AppOK, AppRow, AppStatus
<1> HIDE DEF value
<1>7. status \in Late => value.ocr = "VERIFIED"
  BY <1>1, <1>3, <1>6 DEF AppOK
<1>8. a.bankStatus = "VERIFIED" => a.bank = supplyVouched[v]
  BY <1>1 DEF AppOK
<1> QED BY <1>1, <1>2, <1>3, <1>4, <1>5, <1>7, <1>8, ApplicationStep

LEMMA VisitKeeps ==
  ASSUME SupplyInv, NEW v \in Sellers, Vendors!ScheduleVisit(v) \/ Vendors!FieldCheckIn(v)
  PROVE  SupplyInv'
<1> DEFINE a == supplyApplication[v]
<1>1. AppOK(a, supplyVouched[v]) /\ supplyVouched \in [Sellers \cup Items -> Whats]
  BY DEF SupplyInv, AppsOK, SupplyTypes
<1>2. a.bankStatus = "VERIFIED" => a.bank = supplyVouched[v]
  BY <1>1 DEF AppOK
<1>3. CASE Vendors!ScheduleVisit(v)
  <2> DEFINE value == [a EXCEPT !.status = "FIELD_VISIT_SCHEDULED", !.visit = "SCHEDULED"]
  <2>1. /\ a.status \in {"FIELD_VISIT_REQUIRED", "FIELD_VISIT_SCHEDULED"}
        /\ Vendors!mutateApplication(v, a.revision, value) /\ UNCHANGED supplyVouched
    BY <1>3 DEF Vendors!ScheduleVisit
  <2>2. /\ value \in AppRow /\ value.status = "FIELD_VISIT_SCHEDULED" /\ value.bankStatus = a.bankStatus /\ value.bank = a.bank
        /\ value.ocr = a.ocr /\ (value.verified <=> a.verified)
    BY <1>1 DEF AppOK, AppRow, AppStatus
  <2>3. ~a.verified /\ a.ocr = "VERIFIED"
    BY <1>1, <2>1 DEF AppOK, Late
  <2> HIDE DEF value
  <2>4. a.status \in Stages \ {"APPROVED"} /\ (value.status = a.status \/ <<a.status, value.status>> \in Follows)
    BY <2>1, <2>2 DEF Stages, Follows
  <2> QED BY <1>1, <1>2, <2>1, <2>2, <2>3, <2>4, ApplicationStep
<1>4. CASE Vendors!FieldCheckIn(v)
  <2> DEFINE value == [a EXCEPT !.status = "FIELD_VISIT_PASSED", !.visit = "CHECKED_IN"]
  <2>1. /\ a.status = "FIELD_VISIT_SCHEDULED"
        /\ Vendors!mutateApplication(v, supplySeen[v].revision, value) /\ UNCHANGED supplyVouched
    BY <1>4 DEF Vendors!FieldCheckIn
  <2>2. /\ value \in AppRow /\ value.status = "FIELD_VISIT_PASSED" /\ value.bankStatus = a.bankStatus /\ value.bank = a.bank
        /\ value.ocr = a.ocr /\ (value.verified <=> a.verified)
    BY <1>1 DEF AppOK, AppRow, AppStatus
  <2>3. ~a.verified /\ a.ocr = "VERIFIED"
    BY <1>1, <2>1 DEF AppOK, Late
  <2> HIDE DEF value
  <2>4. a.status \in Stages \ {"APPROVED"} /\ <<a.status, value.status>> \in Follows
    BY <2>1, <2>2 DEF Stages, Follows
  <2> QED BY <1>1, <1>2, <2>1, <2>2, <2>3, <2>4, ApplicationStep
<1> QED BY <1>3, <1>4

LEMMA ZonesKeep ==
  ASSUME SupplyInv, NEW v \in Sellers, Vendors!SetZones(v)
  PROVE  SupplyInv'
<1> DEFINE a == supplyApplication[v]
           value == [a EXCEPT !.zones = TRUE]
<1>1. AppOK(a, supplyVouched[v]) /\ supplyVouched \in [Sellers \cup Items -> Whats]
  BY DEF SupplyInv, AppsOK, SupplyTypes
<1>2. /\ a.status \in {"FIELD_VISIT_PASSED", "BANK_REVIEW"}
      /\ Vendors!mutateApplication(v, a.revision, value) /\ UNCHANGED supplyVouched
  BY DEF Vendors!SetZones
<1>3. /\ value \in AppRow /\ value.status = a.status /\ value.bankStatus = a.bankStatus /\ value.bank = a.bank
      /\ value.ocr = a.ocr /\ (value.verified <=> a.verified)
  BY <1>1 DEF AppOK, AppRow, AppStatus
<1>4. ~a.verified /\ a.ocr = "VERIFIED" /\ (a.bankStatus = "VERIFIED" => a.bank = supplyVouched[v])
  BY <1>1, <1>2 DEF AppOK, Late
<1> HIDE DEF value
<1>5. a.status \in Stages \ {"APPROVED"}
  BY <1>2 DEF Stages
<1> QED BY <1>1, <1>2, <1>3, <1>4, <1>5, ApplicationStep

LEMMA BankKeeps ==
  ASSUME SupplyInv, NEW v \in Sellers, NEW bank \in Banks, Vendors!SubmitBank(v, bank)
  PROVE  SupplyInv'
<1> DEFINE a == supplyApplication[v]
           value == [a EXCEPT !.status = "BANK_REVIEW", !.bank = bank, !.bankStatus = "PENDING_VERIFICATION"]
<1>1. AppOK(a, supplyVouched[v]) /\ supplyVouched \in [Sellers \cup Items -> Whats]
  BY DEF SupplyInv, AppsOK, SupplyTypes
<1>2. /\ a.status \in {"FIELD_VISIT_PASSED", "BANK_REVIEW"}
      /\ Vendors!mutateApplication(v, a.revision, value) /\ UNCHANGED supplyVouched
  BY DEF Vendors!SubmitBank
<1>3. /\ value \in AppRow /\ value.status = "BANK_REVIEW" /\ value.bankStatus = "PENDING_VERIFICATION"
      /\ value.ocr = a.ocr /\ (value.verified <=> a.verified)
  BY <1>1 DEF AppOK, AppRow, AppStatus
<1>4. ~a.verified /\ a.ocr = "VERIFIED"
  BY <1>1, <1>2 DEF AppOK, Late
<1> HIDE DEF value
<1>5. a.status \in Stages \ {"APPROVED"} /\ (value.status = a.status \/ <<a.status, value.status>> \in Follows)
  BY <1>2, <1>3 DEF Stages, Follows
<1> QED BY <1>1, <1>2, <1>3, <1>4, <1>5, ApplicationStep

\* Whoever verifies sent the row's revision, so looked at its account.
LEMMA VerifyKeeps ==
  ASSUME SupplyInv, NEW v \in Sellers, Vendors!VerifyBank(v)
  PROVE  SupplyInv'
<1> DEFINE a == supplyApplication[v]
           value == [a EXCEPT !.bankStatus = "VERIFIED"]
<1>1. /\ AppOK(a, supplyVouched[v]) /\ AppShown(a, supplySeen[v])
      /\ supplyVouched \in [Sellers \cup Items -> Whats] /\ supplySeen[v] \in Screen
  BY DEF SupplyInv, AppsOK, SupplyTypes
<1>2. /\ a.status = "BANK_REVIEW" /\ Vendors!mutateApplication(v, supplySeen[v].revision, value)
      /\ supplyVouched' = [supplyVouched EXCEPT ![v] = supplySeen[v].what]
  BY DEF Vendors!VerifyBank
<1>3. supplySeen[v].revision = a.revision
  BY <1>2 DEF Vendors!mutateApplication
<1>4. /\ value \in AppRow /\ value.status = a.status /\ value.bank = a.bank
      /\ value.ocr = a.ocr /\ (value.verified <=> a.verified)
  BY <1>1 DEF AppOK, AppRow, AppStatus
<1>5. ~a.verified /\ a.ocr = "VERIFIED" /\ supplySeen[v].what = a.bank /\ supplySeen[v].what \in Whats
  BY <1>1, <1>2, <1>3 DEF AppOK, Late, AppShown, Screen
<1>6. /\ supplyVouched' \in [Sellers \cup Items -> Whats] /\ supplyVouched'[v] = a.bank
      /\ \A x \in (Sellers \cup Items) \ {v} : supplyVouched'[x] = supplyVouched[x]
  BY <1>1, <1>2, <1>5
<1> HIDE DEF value
<1>7. a.status \in Stages \ {"APPROVED"}
  BY <1>2 DEF Stages
<1> QED BY <1>2, <1>4, <1>5, <1>6, <1>7, ApplicationStep

LEMMA RegisterKeeps ==
  ASSUME SupplyInv, NEW v \in Sellers, Vendors!Register(v)
  PROVE  SupplyInv'
<1> DEFINE row == [Vendors!NoApplication EXCEPT !.revision = 1, !.status = "REGISTERED", !.timeline = <<"REGISTERED">>]
<1>1. /\ supplyApplication[v] = Vendors!NoApplication /\ supplyApplication' = [supplyApplication EXCEPT ![v] = row]
      /\ UNCHANGED <<supplyItem, supplySeen, supplyVouched>>
  BY DEF Vendors!Register, Vendors!saveApplication
<1>2. Vendors!NoApplication \in AppRow /\ ~Vendors!NoApplication.verified /\ Vendors!NoApplication.bankStatus = "NONE"
      /\ Vendors!NoApplication.revision = 0
  BY DEF Vendors!NoApplication, Vendors!None, AppRow, AppStatus
<1>3. <<"REGISTERED">> \in Vendors!Seq(AppStatus)
  BY DEF AppStatus
<1>4. row \in AppRow
  BY <1>2, <1>3 DEF AppRow, AppStatus
<1>5. row.revision = 1 /\ row.status = "REGISTERED" /\ row.timeline = <<"REGISTERED">> /\ ~row.verified /\ row.bankStatus = "NONE"
  BY <1>2 DEF AppRow
<1> HIDE DEF row
<1>6. AppOK(row, supplyVouched'[v])
  BY <1>4, <1>5 DEF AppOK, Path, Late, Stages
<1>7. row.revision = supplyApplication[v].revision + 1 /\ ~supplyApplication[v].verified
  BY <1>1, <1>2, <1>5
<1>8. supplyVouched \in [Sellers \cup Items -> Whats]
  BY DEF SupplyInv, SupplyTypes
<1> QED BY <1>1, <1>6, <1>7, <1>8, SaveKeeps

\* A step that writes a row of the catalogue of a verified vendor.
LEMMA ItemStep ==
  ASSUME SupplyInv, NEW i \in Items, NEW row \in ItemRow, supplyItem' = [supplyItem EXCEPT ![i] = row],
         UNCHANGED <<supplyApplication, supplySeen>>, supplyApplication[OwnerOf[i]].verified,
         row.revision = supplyItem[i].revision + 1, row.active => row.content = supplyVouched'[i],
         supplyVouched' \in [Sellers \cup Items -> Whats],
         \A x \in (Sellers \cup Items) \ {i} : supplyVouched'[x] = supplyVouched[x]
  PROVE  SupplyInv'
<1>1. SupplyTypes /\ AppsOK /\ ItemsOK
  BY DEF SupplyInv
<1>2. supplyItem[i] \in ItemRow /\ ItemShown(supplyItem[i], supplySeen[i])
  BY <1>1 DEF ItemOK, ItemsOK
<1>3. supplyItem[i].revision \in Nat /\ row.revision # 0
  BY <1>2 DEF ItemRow
<1>4. ItemShown(row, supplySeen[i]) /\ ItemOK(row, supplyVouched'[i])
  BY <1>2, <1>3 DEF ItemShown, Screen, ItemOK
<1>5. supplyItem' \in [Items -> ItemRow] /\ supplyItem'[i] = row /\ \A k \in Items \ {i} : supplyItem'[k] = supplyItem[k]
  BY <1>1 DEF SupplyTypes
<1>6. SupplyTypes'
  BY <1>1, <1>5 DEF SupplyTypes
<1>7. AppsOK'
  <2> SUFFICES ASSUME NEW v \in Sellers
               PROVE  AppOK(supplyApplication[v], supplyVouched'[v]) /\ AppShown(supplyApplication[v], supplySeen[v])
    BY DEF AppsOK
  <2>1. supplyVouched'[v] = supplyVouched[v]
    BY SupplyAssumption
  <2> QED BY <1>1, <2>1 DEF AppsOK
<1>8. ItemsOK'
  BY <1>1, <1>4, <1>5 DEF ItemsOK
<1> QED BY <1>6, <1>7, <1>8 DEF SupplyInv

LEMMA UpsertKeeps ==
  ASSUME SupplyInv, NEW i \in Items, NEW content \in Contents, Vendors!UpsertCatalog(i, content)
  PROVE  SupplyInv'
<1> DEFINE row == [supplyItem[i] EXCEPT !.revision = supplyItem[i].revision + 1, !.content = content,
                                        !.approval = "PENDING_APPROVAL", !.active = FALSE]
<1>1. supplyItem \in [Items -> ItemRow] /\ supplyVouched \in [Sellers \cup Items -> Whats] /\ supplyItem[i] \in ItemRow
  BY DEF SupplyInv, SupplyTypes
<1>2. /\ supplyItem' = [supplyItem EXCEPT ![i].revision = @ + 1, ![i].content = content,
                                         ![i].approval = "PENDING_APPROVAL", ![i].active = FALSE]
      /\ UNCHANGED <<supplyApplication, supplySeen, supplyVouched>> /\ supplyApplication[OwnerOf[i]].verified
  BY DEF Vendors!UpsertCatalog
<1>3. supplyItem' = [supplyItem EXCEPT ![i] = row]
  BY <1>1, <1>2
<1>4. row \in ItemRow /\ row.revision = supplyItem[i].revision + 1 /\ ~row.active
  <2>1. supplyItem[i].revision + 1 \in Nat
    BY <1>1 DEF ItemRow
  <2>2. row \in ItemRow
    BY <1>1, <2>1 DEF ItemRow
  <2>3. row.revision = supplyItem[i].revision + 1
    BY <1>1 DEF ItemRow
  <2>4. row.active = FALSE
    BY <1>1 DEF ItemRow
  <2> QED BY <2>2, <2>3, <2>4
<1> HIDE DEF row
<1> QED BY <1>1, <1>2, <1>3, <1>4, ItemStep

\* An item that was written before has a vendor who is verified.
LEMMA ItemOwner ==
  ASSUME SupplyInv, NEW i \in Items, supplyItem[i] # Vendors!NoItem
  PROVE  supplyApplication[OwnerOf[i]].verified
BY DEF SupplyInv, ItemsOK, ItemOK

\* Whoever approves sent the item's revision, so looked at its content.
LEMMA ApproveItemKeeps ==
  ASSUME SupplyInv, NEW i \in Items, NEW approved \in BOOLEAN, Vendors!ApproveCatalog(i, approved)
  PROVE  SupplyInv'
<1> DEFINE value == [supplyItem[i] EXCEPT !.approval = IF approved THEN "APPROVED" ELSE "REJECTED", !.active = approved]
           row == [value EXCEPT !.revision = @ + 1]
<1>1. /\ supplyVouched \in [Sellers \cup Items -> Whats] /\ supplyItem[i] \in ItemRow
      /\ ItemShown(supplyItem[i], supplySeen[i]) /\ supplySeen[i] \in Screen
  BY DEF SupplyInv, SupplyTypes, ItemsOK
<1>2. /\ supplyItem[i] # Vendors!NoItem /\ supplySeen[i].revision = supplyItem[i].revision
      /\ supplyItem' = [supplyItem EXCEPT ![i] = row] /\ UNCHANGED <<supplyApplication, supplySeen>>
      /\ supplyVouched' = [supplyVouched EXCEPT ![i] = IF approved THEN supplySeen[i].what ELSE "NONE"]
  BY DEF Vendors!ApproveCatalog, Vendors!mutateCatalog, Vendors!None
<1>3. value \in ItemRow /\ value.revision = supplyItem[i].revision /\ value.content = supplyItem[i].content
      /\ (value.active <=> approved)
  BY <1>1 DEF ItemRow
<1> HIDE DEF value
<1>4. row \in ItemRow /\ row.revision = supplyItem[i].revision + 1 /\ row.content = supplyItem[i].content /\ (row.active <=> approved)
  BY <1>3 DEF ItemRow
<1>5. supplySeen[i].what = supplyItem[i].content /\ supplySeen[i].what \in Whats /\ "NONE" \in Whats
  BY <1>1, <1>2 DEF ItemShown, Screen, Whats
<1>6. /\ supplyVouched' \in [Sellers \cup Items -> Whats] /\ (approved => supplyVouched'[i] = supplyItem[i].content)
      /\ \A x \in (Sellers \cup Items) \ {i} : supplyVouched'[x] = supplyVouched[x]
  BY <1>1, <1>2, <1>5
<1>7. supplyApplication[OwnerOf[i]].verified
  BY <1>2, ItemOwner
<1> HIDE DEF row
<1> QED BY <1>2, <1>4, <1>6, <1>7, ItemStep

LEMMA OwnerKeeps ==
  ASSUME SupplyInv, NEW i \in Items, Vendors!SetSchedule(i) \/ \E stock \in 0..1 : Vendors!SetInventory(i, stock)
  PROVE  SupplyInv'
<1>1. /\ supplyVouched \in [Sellers \cup Items -> Whats] /\ supplyItem[i] \in ItemRow
      /\ ItemOK(supplyItem[i], supplyVouched[i])
  BY DEF SupplyInv, SupplyTypes, ItemsOK
<1>2. ASSUME NEW value \in ItemRow, Vendors!mutateCatalog(i, supplyItem[i].revision, value), UNCHANGED supplyVouched,
             value.revision = supplyItem[i].revision, value.content = supplyItem[i].content, value.active <=> supplyItem[i].active
      PROVE  SupplyInv'
  <2> DEFINE row == [value EXCEPT !.revision = @ + 1]
  <2>1. /\ supplyItem[i] # Vendors!NoItem /\ supplyItem' = [supplyItem EXCEPT ![i] = row]
        /\ UNCHANGED <<supplyApplication, supplySeen>>
    BY <1>2 DEF Vendors!mutateCatalog
  <2>2. row \in ItemRow /\ row.revision = supplyItem[i].revision + 1 /\ row.content = supplyItem[i].content
        /\ (row.active <=> supplyItem[i].active)
    BY <1>2 DEF ItemRow
  <2>3. supplyApplication[OwnerOf[i]].verified
    BY <2>1, ItemOwner
  <2>4. row.active => row.content = supplyVouched[i]
    BY <1>1, <2>2 DEF ItemOK
  <2> HIDE DEF row
  <2> QED BY <1>1, <1>2, <2>1, <2>2, <2>3, <2>4, ItemStep
<1>3. CASE Vendors!SetSchedule(i)
  <2> DEFINE value == [supplyItem[i] EXCEPT !.scheduled = TRUE]
  <2>1. Vendors!mutateCatalog(i, supplyItem[i].revision, value) /\ UNCHANGED supplyVouched
    BY <1>3 DEF Vendors!SetSchedule
  <2>2. value \in ItemRow /\ value.revision = supplyItem[i].revision /\ value.content = supplyItem[i].content
        /\ (value.active <=> supplyItem[i].active)
    BY <1>1 DEF ItemRow
  <2> HIDE DEF value
  <2> QED BY <1>2, <2>1, <2>2
<1>4. ASSUME NEW stock \in 0..1, Vendors!SetInventory(i, stock) PROVE SupplyInv'
  <2> DEFINE value == [supplyItem[i] EXCEPT !.stock = stock]
  <2>1. Vendors!mutateCatalog(i, supplyItem[i].revision, value) /\ UNCHANGED supplyVouched
    BY <1>4 DEF Vendors!SetInventory
  <2>2. value \in ItemRow /\ value.revision = supplyItem[i].revision /\ value.content = supplyItem[i].content
        /\ (value.active <=> supplyItem[i].active)
    BY <1>1 DEF ItemRow
  <2> HIDE DEF value
  <2> QED BY <1>2, <2>1, <2>2
<1> QED BY <1>3, <1>4

\* Opening a row shows what is in it.
LEMMA ScreensKeep ==
  ASSUME SupplyInv, \/ \E v \in Sellers : Vendors!loadApplicationByVendor(v)
                    \/ \E i \in Items : Vendors!Catalog(i)
  PROVE  SupplyInv'
<1>1. SupplyTypes /\ AppsOK /\ ItemsOK
  BY DEF SupplyInv
<1>2. ASSUME NEW x \in Sellers \cup Items, NEW s \in Screen, supplySeen' = [supplySeen EXCEPT ![x] = s],
             x \in Sellers => s.revision = supplyApplication[x].revision /\ s.what = supplyApplication[x].bank,
             x \in Items => s.revision = supplyItem[x].revision /\ s.what = supplyItem[x].content,
             UNCHANGED <<supplyApplication, supplyItem, supplyVouched>>
      PROVE  SupplyInv'
  <2>1. supplySeen' \in [Sellers \cup Items -> Screen] /\ supplySeen'[x] = s /\ \A y \in (Sellers \cup Items) \ {x} : supplySeen'[y] = supplySeen[y]
    BY <1>1, <1>2 DEF SupplyTypes
  <2>2. SupplyTypes'
    BY <1>1, <1>2, <2>1 DEF SupplyTypes
  <2>3. AppsOK'
    <3> SUFFICES ASSUME NEW v \in Sellers
                 PROVE  AppOK(supplyApplication[v], supplyVouched[v]) /\ AppShown(supplyApplication[v], supplySeen'[v])
      BY <1>2 DEF AppsOK
    <3>1. supplyApplication[v].revision \in Nat /\ AppOK(supplyApplication[v], supplyVouched[v]) /\ AppShown(supplyApplication[v], supplySeen[v])
      BY <1>1 DEF AppsOK, AppOK, AppRow
    <3>2. CASE v = x
      BY <1>2, <2>1, <3>1, <3>2 DEF AppShown
    <3>3. CASE v # x
      BY <2>1, <3>1, <3>3
    <3> QED BY <3>2, <3>3
  <2>4. ItemsOK'
    <3> SUFFICES ASSUME NEW i \in Items
                 PROVE  /\ ItemOK(supplyItem[i], supplyVouched[i]) /\ ItemShown(supplyItem[i], supplySeen'[i])
                        /\ supplyItem[i].revision # 0 => supplyApplication[OwnerOf[i]].verified
      BY <1>2 DEF ItemsOK
    <3>1. /\ supplyItem[i].revision \in Nat /\ ItemOK(supplyItem[i], supplyVouched[i]) /\ ItemShown(supplyItem[i], supplySeen[i])
          /\ supplyItem[i].revision # 0 => supplyApplication[OwnerOf[i]].verified
      BY <1>1 DEF ItemsOK, ItemOK, ItemRow
    <3>2. CASE i = x
      BY <1>2, <2>1, <3>1, <3>2 DEF ItemShown
    <3>3. CASE i # x
      BY <2>1, <3>1, <3>3
    <3> QED BY <3>2, <3>3
  <2> QED BY <2>2, <2>3, <2>4 DEF SupplyInv
<1>3. ASSUME NEW v \in Sellers, Vendors!loadApplicationByVendor(v) PROVE SupplyInv'
  <2> DEFINE s == [revision |-> supplyApplication[v].revision, what |-> supplyApplication[v].bank]
  <2>1. supplySeen' = [supplySeen EXCEPT ![v] = s] /\ UNCHANGED <<supplyApplication, supplyItem, supplyVouched>>
    BY <1>3 DEF Vendors!loadApplicationByVendor
  <2>2. s \in Screen /\ s.revision = supplyApplication[v].revision /\ s.what = supplyApplication[v].bank
    BY <1>1 DEF SupplyTypes, AppRow, Screen, Whats
  <2>3. v \notin Items /\ v \in Sellers \cup Items
    BY SupplyAssumption
  <2> HIDE DEF s
  <2> QED BY <1>2, <2>1, <2>2, <2>3
<1>4. ASSUME NEW i \in Items, Vendors!Catalog(i) PROVE SupplyInv'
  <2> DEFINE s == [revision |-> supplyItem[i].revision, what |-> supplyItem[i].content]
  <2>1. supplySeen' = [supplySeen EXCEPT ![i] = s] /\ UNCHANGED <<supplyApplication, supplyItem, supplyVouched>>
    BY <1>4 DEF Vendors!Catalog
  <2>2. s \in Screen /\ s.revision = supplyItem[i].revision /\ s.what = supplyItem[i].content
    BY <1>1 DEF SupplyTypes, ItemRow, Screen, Whats
  <2>3. i \notin Sellers /\ i \in Sellers \cup Items
    BY SupplyAssumption
  <2> HIDE DEF s
  <2> QED BY <1>2, <2>1, <2>2, <2>3
<1> QED BY <1>3, <1>4

LEMMA SupplySame ==
  ASSUME SupplyInv, UNCHANGED <<supplyApplication, supplyItem, supplySeen, supplyVouched>>
  PROVE  SupplyInv'
BY DEF SupplyInv, SupplyTypes, AppsOK, ItemsOK

LEMMA SupplyInit == Vendors!Init => SupplyInv
<1> SUFFICES ASSUME Vendors!Init PROVE SupplyInv
  OBVIOUS
<1> DEFINE s == [revision |-> 0, what |-> "NONE"]
<1>1. /\ supplyApplication = [v \in Sellers |-> Vendors!NoApplication] /\ supplyItem = [i \in Items |-> Vendors!NoItem]
      /\ supplySeen = [x \in Sellers \cup Items |-> s] /\ supplyVouched = [x \in Sellers \cup Items |-> "NONE"]
  BY DEF Vendors!Init, Vendors!None
<1>2. /\ Vendors!NoApplication \in AppRow /\ ~Vendors!NoApplication.verified /\ Vendors!NoApplication.bankStatus = "NONE"
      /\ Vendors!NoApplication.revision = 0 /\ Vendors!NoApplication.status = "NONE" /\ Vendors!NoApplication.bank = "NONE"
  BY DEF Vendors!NoApplication, Vendors!None, AppRow, AppStatus
<1>3. /\ Vendors!NoItem \in ItemRow /\ ~Vendors!NoItem.active /\ Vendors!NoItem.revision = 0 /\ Vendors!NoItem.content = "NONE"
  BY DEF Vendors!NoItem, Vendors!None, ItemRow
<1>4. s \in Screen /\ s.revision = 0 /\ s.what = "NONE" /\ "NONE" \in Whats
  BY DEF Screen, Whats
<1> HIDE DEF s
<1>5. SupplyTypes
  BY <1>1, <1>2, <1>3, <1>4 DEF SupplyTypes
<1>6. AppOK(Vendors!NoApplication, "NONE") /\ AppShown(Vendors!NoApplication, s)
  BY <1>2, <1>4 DEF AppOK, AppShown, Stages, Late
<1>7. ItemOK(Vendors!NoItem, "NONE") /\ ItemShown(Vendors!NoItem, s)
  BY <1>3, <1>4 DEF ItemOK, ItemShown
<1>8. AppsOK /\ ItemsOK
  BY <1>1, <1>3, <1>6, <1>7 DEF AppsOK, ItemsOK
<1> QED BY <1>5, <1>8 DEF SupplyInv

LEMMA SupplyNext == SupplyInv /\ [Vendors!Next]_(Vendors!vars) => SupplyInv'
<1> SUFFICES ASSUME SupplyInv, [Vendors!Next]_(Vendors!vars) PROVE SupplyInv'
  OBVIOUS
<1>1. CASE UNCHANGED Vendors!vars
  BY <1>1, SupplySame DEF Vendors!vars
<1>2. ASSUME NEW v \in Sellers, Vendors!Register(v) PROVE SupplyInv'
  BY <1>2, RegisterKeeps
<1>3. ASSUME NEW v \in Sellers, Vendors!SubmitDocuments(v) PROVE SupplyInv'
  BY <1>3, DocumentsKeep
<1>4. ASSUME NEW v \in Sellers, Vendors!ScheduleVisit(v) \/ Vendors!FieldCheckIn(v) PROVE SupplyInv'
  BY <1>4, VisitKeeps
<1>5. ASSUME NEW v \in Sellers, Vendors!SetZones(v) PROVE SupplyInv'
  BY <1>5, ZonesKeep
<1>6. ASSUME NEW v \in Sellers, Vendors!VerifyBank(v) PROVE SupplyInv'
  BY <1>6, VerifyKeeps
<1>7. ASSUME NEW v \in Sellers, NEW bank \in Banks, Vendors!SubmitBank(v, bank) PROVE SupplyInv'
  BY <1>7, BankKeeps
<1>8. ASSUME NEW v \in Sellers, NEW t \in Vendors!allowedApplicationTransition, Vendors!TransitionForVendor(v, t[2]) PROVE SupplyInv'
  <2>1. t[2] \in AppStatus
    BY DEF Vendors!allowedApplicationTransition, AppStatus
  <2> QED BY <1>8, <2>1, TransitionKeeps
<1>9. ASSUME NEW v \in Sellers, Vendors!loadApplicationByVendor(v) PROVE SupplyInv'
  BY <1>9, ScreensKeep
<1>10. ASSUME NEW i \in Items, Vendors!SetSchedule(i) \/ \E stock \in 0..1 : Vendors!SetInventory(i, stock) PROVE SupplyInv'
  BY <1>10, OwnerKeeps
<1>11. ASSUME NEW i \in Items, Vendors!Catalog(i) PROVE SupplyInv'
  BY <1>11, ScreensKeep
<1>12. ASSUME NEW i \in Items, NEW content \in Contents, Vendors!UpsertCatalog(i, content) PROVE SupplyInv'
  BY <1>12, UpsertKeeps
<1>13. ASSUME NEW i \in Items, NEW approved \in BOOLEAN, Vendors!ApproveCatalog(i, approved) PROVE SupplyInv'
  BY <1>13, ApproveItemKeeps
<1>14. ASSUME \/ \E w \in {"w"} : Vendors!SeedWork(w) \/ \E t \in Vendors!allowedWorkTransition : Vendors!TransitionWork(w, t[2])
              \/ \E p \in {"p"} : Vendors!UpsertPromotion(p)
       PROVE  SupplyInv'
  <2>1. UNCHANGED <<supplyApplication, supplyItem, supplySeen, supplyVouched>>
    BY <1>14 DEF Vendors!SeedWork, Vendors!TransitionWork, Vendors!UpsertPromotion
  <2> QED BY <2>1, SupplySame
<1> QED BY <1>1, <1>2, <1>3, <1>4, <1>5, <1>6, <1>7, <1>8, <1>9, <1>10, <1>11, <1>12, <1>13, <1>14, Zenon DEF Vendors!Next

LEMMA SupplyImplies == SupplyInv => LiveWasVouchedFor
<1> SUFFICES ASSUME SupplyInv PROVE LiveWasVouchedFor
  OBVIOUS
<1>1. ASSUME NEW v \in Sellers, supplyApplication[v].verified
      PROVE  /\ supplyApplication[v].bank = supplyVouched[v] /\ supplyApplication[v].ocr = "VERIFIED"
             /\ supplyApplication[v].timeline = Path("APPROVED")
  BY <1>1 DEF SupplyInv, AppsOK, AppOK, Stages, Late
<1>2. ASSUME NEW i \in Items, supplyItem[i].active
      PROVE  supplyItem[i].content = supplyVouched[i] /\ supplyApplication[OwnerOf[i]].verified
  <2>1. /\ ItemOK(supplyItem[i], supplyVouched[i])
        /\ supplyItem[i].revision # 0 => supplyApplication[OwnerOf[i]].verified
    BY DEF SupplyInv, ItemsOK
  <2>2. ~Vendors!NoItem.active
    BY DEF Vendors!NoItem
  <2> QED BY <1>2, <2>1, <2>2 DEF ItemOK
<1>3. Path("APPROVED") = <<"REGISTERED", "DOCUMENTS_SUBMITTED", "OCR_REVIEW", "KYC_REVIEW", "FIELD_VISIT_REQUIRED",
                           "FIELD_VISIT_SCHEDULED", "FIELD_VISIT_PASSED", "BANK_REVIEW", "APPROVED">>
  BY DEF Path
<1> QED BY <1>1, <1>2, <1>3, Zenon DEF LiveWasVouchedFor, Vendors!LiveWasVouchedFor

\* internal/supply: for any vendors, accounts, items and edits, an approved
\* vendor went through every stage in order and is paid on the account that was
\* verified, and an active item offers the content its approver saw.
THEOREM VouchedFor == Vendors!Spec => []LiveWasVouchedFor
<1>1. Vendors!Spec => []SupplyInv
  BY SupplyInit, SupplyNext, PTL DEF Vendors!Spec
<1> QED BY <1>1, SupplyImplies, PTL

----------------------------------------------------------------------------
(* Food (internal/food).  The invariant follows a refusal: it has the row   *)
(* of an unanswered order to itself; beyond its first step the points are   *)
(* back, and at its last step the payment is cancelled or given back, or a  *)
(* retry opened it again since.  An order that is still being made has no   *)
(* row, and nothing is refused yet.                                         *)

CreateJob == [op : {"create"}, of : FoodKeys, step : {"redeem", "pay", "commit"}]
RefuseJob == [op : {"refuse"}, of : FoodKeys, to : {"REJECTED", "TIMED_OUT"}, 
              step : {"reverse", "refund", "finalize", "void", "commit"}]
Refusers == {"vendor", "sweeper"}
Ended == {"CANCELLED", "REFUND_REQUESTED", "REFUND_SUBMITTED"}
Settled(fund) == fund.pay \in Ended \/ fund.reopened
Unmade == {"NONE", "OPEN", "RETRYABLE", "FINAL", "CAPTURED"}

Busy(p) == foodDoing[p].op # "idle"

FoodTypes ==
  /\ foodServing \in BOOLEAN /\ foodAvailable \subseteq FoodOptions
  /\ foodCart \in [FoodCarts -> {"NONE", "PRICED", "EXPIRED"}] /\ foodLate \subseteq FoodKeys
  /\ foodOrder \in [FoodKeys -> Meals!Order] /\ foodFunds \in [FoodKeys -> Meals!Funds]
Jobs ==
  /\ foodDoing \in [{"customer", "vendor", "sweeper"} -> {Meals!Idle} \cup CreateJob \cup RefuseJob]
  /\ foodDoing["customer"] \in {Meals!Idle} \cup CreateJob
  /\ \A p \in Refusers : foodDoing[p] \in {Meals!Idle} \cup RefuseJob
CreateOK ==
  Busy("customer") => /\ foodOrder[foodDoing["customer"].of].status = "NONE"
                      /\ foodDoing["customer"].step = "redeem" => Method[foodDoing["customer"].of] = "WALLET"
RefuseOK(p) ==
  Busy(p) => /\ foodOrder[foodDoing[p].of].status = "PENDING_RESTAURANT"
             /\ foodDoing[p].step = "reverse" => Method[foodDoing[p].of] = "WALLET"
             /\ foodDoing[p].step # "reverse" => foodFunds[foodDoing[p].of].points # "TAKEN"
             /\ foodDoing[p].step # "reverse" /\ Method[foodDoing[p].of] = "WALLET" => foodFunds[foodDoing[p].of].points = "BACK"
             /\ foodDoing[p].step = "commit" => Settled(foodFunds[foodDoing[p].of])
Apart == Busy("vendor") /\ Busy("sweeper") => foodDoing["vendor"].of # foodDoing["sweeper"].of
FundsOK(k) ==
  /\ Method[k] # "WALLET" => foodFunds[k].points = "NONE"
  /\ foodOrder[k].status = "NONE" => foodOrder[k] = Meals!NoOrder /\ foodFunds[k].pay \in Unmade
  /\ foodOrder[k].status \in {"REJECTED", "TIMED_OUT"} => Settled(foodFunds[k]) /\ foodFunds[k].points # "TAKEN"
CartOnce ==
  \A j, k \in FoodKeys : foodOrder[j].status # "NONE" /\ foodOrder[k].status # "NONE" /\ CartOf[j] = CartOf[k] => j = k

FoodInv ==
  /\ FoodTypes /\ Jobs /\ CreateOK /\ (\A p \in Refusers : RefuseOK(p)) /\ Apart
  /\ (\A k \in FoodKeys : FundsOK(k)) /\ CartOnce

\* The sweeper's list is kept apart from the commands.
Listed == foodBehind \subseteq FoodKeys

LEMMA FoodImplies == FoodInv /\ Listed => RefusedIsSettled
<1> SUFFICES ASSUME FoodInv, Listed PROVE RefusedIsSettled
  OBVIOUS
<1>1. Meals!TypeOK
  BY DEF FoodInv, FoodTypes, Jobs, Listed, Meals!TypeOK, Meals!Processes
<1>2. \A k \in FoodKeys : foodOrder[k].status \in {"REJECTED", "TIMED_OUT"} => Settled(foodFunds[k]) /\ foodFunds[k].points # "TAKEN"
  BY DEF FoodInv, FundsOK
<1>3. \A k \in FoodKeys : foodOrder[k] # Meals!NoOrder => foodOrder[k].status # "NONE"
  BY DEF FoodInv, FundsOK
<1>4. CartOnce
  BY DEF FoodInv
<1>5. Meals!RefusedIsSettled
  BY <1>2, <1>3, <1>4 DEF CartOnce, Settled, Ended, Meals!Refunding, Meals!RefusedIsSettled
<1> QED BY <1>1, <1>5 DEF RefusedIsSettled

LEMMA FoodInit == Meals!Init => FoodInv /\ Listed
<1> SUFFICES ASSUME Meals!Init PROVE FoodInv /\ Listed
  OBVIOUS
<1> DEFINE free == Meals!NoFunds
<1>1. /\ foodServing = TRUE /\ foodAvailable = FoodOptions /\ foodCart = [c \in FoodCarts |-> "NONE"]
      /\ foodOrder = [k \in FoodKeys |-> Meals!NoOrder] /\ foodLate = {} /\ foodFunds = [k \in FoodKeys |-> free]
      /\ foodDoing = [p \in {"customer", "vendor", "sweeper"} |-> Meals!Idle]
  BY DEF Meals!Init, Meals!Processes
<1>2. Meals!NoOrder \in Meals!Order /\ Meals!NoOrder.status = "NONE"
  BY DEF Meals!NoOrder, Meals!Order, Meals!PayStatus
<1>3. free \in Meals!Funds /\ free.pay = "NONE" /\ free.points = "NONE" /\ Meals!Idle.op = "idle"
  BY DEF Meals!Funds, Meals!PayStatus, Meals!Session, Meals!NoFunds, Meals!Idle
<1> HIDE DEF free
<1>4. FoodTypes
  BY <1>1, <1>2, <1>3 DEF FoodTypes
<1>5. Jobs /\ \A p \in {"customer", "vendor", "sweeper"} : ~Busy(p)
  BY <1>1, <1>3 DEF Jobs, Busy, Refusers
<1>6. CreateOK /\ (\A p \in Refusers : RefuseOK(p)) /\ Apart
  BY <1>5 DEF CreateOK, RefuseOK, Refusers, Apart
<1>7. (\A k \in FoodKeys : FundsOK(k)) /\ CartOnce
  BY <1>1, <1>2, <1>3 DEF FundsOK, CartOnce, Unmade
<1>8. Listed
  BY DEF Meals!Init, Listed
<1> QED BY <1>4, <1>5, <1>6, <1>7, <1>8 DEF FoodInv

\* What the shapes say field by field.
LEMMA JobFields ==
  ASSUME FoodInv
  PROVE  /\ Busy("customer") => foodDoing["customer"] \in CreateJob /\ foodDoing["customer"].of \in FoodKeys
         /\ \A p \in Refusers : Busy(p) => foodDoing[p] \in RefuseJob /\ foodDoing[p].of \in FoodKeys
         /\ \A p \in {"customer", "vendor", "sweeper"} : ~Busy(p) <=> foodDoing[p] = Meals!Idle
<1>1. Jobs
  BY DEF FoodInv
<1> QED BY <1>1 DEF Jobs, Busy, CreateJob, RefuseJob, Meals!Idle, Refusers

\* Commands of the cart, the menu, the clock.
LEMMA MenuKeeps ==
  ASSUME FoodInv, UNCHANGED <<foodOrder, foodFunds, foodDoing>>, foodServing' \in BOOLEAN, foodAvailable' \subseteq FoodOptions,
         foodCart' \in [FoodCarts -> {"NONE", "PRICED", "EXPIRED"}], foodLate' \subseteq FoodKeys
  PROVE  FoodInv'
<1>1. FoodTypes' /\ Jobs'
  BY DEF FoodInv, FoodTypes, Jobs
<1>2. CreateOK' /\ (\A p \in Refusers : RefuseOK(p)')
  BY DEF FoodInv, CreateOK, RefuseOK, Busy
<1>3. Apart' /\ (\A k \in FoodKeys : FundsOK(k)') /\ CartOnce'
  BY DEF FoodInv, Apart, Busy, FundsOK, CartOnce
<1> QED BY <1>1, <1>2, <1>3 DEF FoodInv

\* A step of CreateOrder touches the funds of a key without an order.
LEMMA CustomerStep ==
  ASSUME FoodInv, NEW k \in FoodKeys, foodOrder[k].status = "NONE",
         NEW fund \in Meals!Funds, fund.pay \in Unmade, Method[k] # "WALLET" => fund.points = "NONE",
         NEW job \in {Meals!Idle} \cup CreateJob, job # Meals!Idle => job.of = k /\ (job.step = "redeem" => Method[k] = "WALLET"),
         foodDoing' = [foodDoing EXCEPT !["customer"] = job], foodFunds' = [foodFunds EXCEPT ![k] = fund],
         UNCHANGED <<foodServing, foodAvailable, foodCart, foodOrder, foodLate>>
  PROVE  FoodInv'
<1>1. FoodTypes /\ Jobs
  BY DEF FoodInv
<1>2. /\ foodDoing'["customer"] = job /\ \A p \in Refusers : foodDoing'[p] = foodDoing[p]
      /\ foodFunds'[k] = fund /\ \A j \in FoodKeys : j # k => foodFunds'[j] = foodFunds[j]
  BY <1>1 DEF FoodTypes, Jobs, Refusers
<1>3. FoodTypes'
  BY <1>1 DEF FoodTypes
<1>4. Jobs'
  BY <1>1, <1>2 DEF Jobs, Refusers
<1>5. CreateOK'
  BY <1>2 DEF CreateOK, Busy, Meals!Idle
<1>6. ASSUME NEW p \in Refusers PROVE RefuseOK(p)'
  <2>1. RefuseOK(p)
    BY DEF FoodInv
  <2>2. Busy(p) => foodDoing[p].of # k /\ foodDoing[p].of \in FoodKeys
    BY <2>1, JobFields DEF RefuseOK
  <2> QED BY <1>2, <2>1, <2>2 DEF RefuseOK, Busy
<1>7. Apart' /\ CartOnce'
  BY <1>2 DEF FoodInv, Apart, CartOnce, Busy, Refusers
<1>8. ASSUME NEW j \in FoodKeys PROVE FundsOK(j)'
  <2>1. FundsOK(j) /\ FundsOK(k)
    BY DEF FoodInv
  <2>2. CASE j = k
    BY <1>2, <2>1, <2>2 DEF FundsOK
  <2>3. CASE j # k
    BY <1>2, <2>1, <2>3 DEF FundsOK
  <2> QED BY <2>2, <2>3
<1> QED BY <1>3, <1>4, <1>5, <1>6, <1>7, <1>8 DEF FoodInv

\* A step of a refusal touches the funds of an order nobody else refuses.
LEMMA RefuserStep ==
  ASSUME FoodInv, NEW p \in Refusers, NEW k \in FoodKeys, foodOrder[k].status = "PENDING_RESTAURANT",
         \A q \in Refusers : q # p /\ Busy(q) => foodDoing[q].of # k,
         NEW fund \in Meals!Funds, Method[k] # "WALLET" => fund.points = "NONE",
         NEW job \in {Meals!Idle} \cup RefuseJob,
         job # Meals!Idle => /\ job.of = k
                             /\ job.step = "reverse" => Method[k] = "WALLET"
                             /\ job.step # "reverse" => fund.points # "TAKEN"
                             /\ job.step # "reverse" /\ Method[k] = "WALLET" => fund.points = "BACK"
                             /\ job.step = "commit" => Settled(fund),
         foodDoing' = [foodDoing EXCEPT ![p] = job], foodFunds' = [foodFunds EXCEPT ![k] = fund],
         UNCHANGED <<foodServing, foodAvailable, foodCart, foodOrder, foodLate>>
  PROVE  FoodInv'
<1>1. FoodTypes /\ Jobs
  BY DEF FoodInv
<1>2. /\ foodDoing'[p] = job /\ \A q \in {"customer", "vendor", "sweeper"} : q # p => foodDoing'[q] = foodDoing[q]
      /\ foodFunds'[k] = fund /\ \A j \in FoodKeys : j # k => foodFunds'[j] = foodFunds[j]
  BY <1>1 DEF FoodTypes, Jobs, Refusers
<1>3. FoodTypes'
  BY <1>1 DEF FoodTypes
<1>4. Jobs'
  <2>1. foodDoing' \in [{"customer", "vendor", "sweeper"} -> {Meals!Idle} \cup CreateJob \cup RefuseJob]
    BY <1>1 DEF Jobs
  <2> QED BY <1>1, <1>2, <2>1 DEF Jobs, Refusers
<1>5. CreateOK'
  BY <1>2 DEF FoodInv, CreateOK, Busy, Refusers
<1>6. ASSUME NEW q \in Refusers PROVE RefuseOK(q)'
  <2>1. CASE q = p
    BY <1>2, <2>1 DEF RefuseOK, Busy, Meals!Idle
  <2>2. CASE q # p
    <3>1. RefuseOK(q)
      BY DEF FoodInv
    <3>2. Busy(q) => foodDoing[q].of # k /\ foodDoing[q].of \in FoodKeys
      BY <2>2, JobFields
    <3>3. foodDoing'[q] = foodDoing[q]
      BY <1>2, <2>2 DEF Refusers
    <3> QED BY <1>2, <3>1, <3>2, <3>3 DEF RefuseOK, Busy
  <2> QED BY <2>1, <2>2
<1>7. Apart'
  <2>1. job.op # "idle" => job.of = k
    BY DEF Meals!Idle
  <2> QED BY <1>2, <2>1 DEF FoodInv, Apart, Busy, Refusers
<1>8. CartOnce'
  BY DEF FoodInv, CartOnce
<1>9. ASSUME NEW j \in FoodKeys PROVE FundsOK(j)'
  <2>1. FundsOK(j) /\ FundsOK(k)
    BY DEF FoodInv
  <2>2. CASE j = k
    BY <1>2, <2>1, <2>2 DEF FundsOK
  <2>3. CASE j # k
    BY <1>2, <2>1, <2>3 DEF FundsOK
  <2> QED BY <2>2, <2>3
<1> QED BY <1>3, <1>4, <1>5, <1>6, <1>7, <1>8, <1>9 DEF FoodInv

\* A step that only writes the row of an order nobody refuses.
LEMMA OrderStep ==
  ASSUME FoodInv, NEW k \in FoodKeys, \A q \in Refusers : Busy(q)' => foodDoing[q].of # k,
         NEW p \in {"customer", "vendor", "sweeper"}, foodDoing' \in {foodDoing, [foodDoing EXCEPT ![p] = Meals!Idle]},
         foodDoing'["customer"] = foodDoing["customer"] => foodOrder[k].status # "NONE",
         foodDoing'["customer"] # foodDoing["customer"] => foodDoing'["customer"] = Meals!Idle,
         NEW row \in Meals!Order, row.status # "NONE",
         row.status \in {"REJECTED", "TIMED_OUT"} => Settled(foodFunds[k]) /\ foodFunds[k].points # "TAKEN",
         \A j \in FoodKeys : foodOrder[k].status = "NONE" /\ j # k /\ CartOf[j] = CartOf[k] => foodOrder[j].status = "NONE",
         foodOrder' = [foodOrder EXCEPT ![k] = row],
         UNCHANGED <<foodServing, foodAvailable, foodCart, foodFunds, foodLate>>
  PROVE  FoodInv'
<1>1. FoodTypes /\ Jobs
  BY DEF FoodInv
<1>2. /\ \A q \in {"customer", "vendor", "sweeper"} : foodDoing'[q] = foodDoing[q] \/ foodDoing'[q] = Meals!Idle
      /\ foodOrder'[k] = row /\ \A j \in FoodKeys : j # k => foodOrder'[j] = foodOrder[j]
  BY <1>1 DEF FoodTypes, Jobs
<1>3. FoodTypes'
  BY <1>1 DEF FoodTypes
<1>4. Jobs'
  <2>1. foodDoing' \in [{"customer", "vendor", "sweeper"} -> {Meals!Idle} \cup CreateJob \cup RefuseJob]
    BY <1>1 DEF Jobs
  <2> QED BY <1>1, <1>2, <2>1 DEF Jobs, Refusers
<1>5. CreateOK'
  <2>1. CASE foodDoing'["customer"] # foodDoing["customer"]
    BY <2>1 DEF CreateOK, Busy, Meals!Idle
  <2>2. CASE foodDoing'["customer"] = foodDoing["customer"]
    <3>1. Busy("customer") => foodDoing["customer"].of # k /\ foodDoing["customer"].of \in FoodKeys
      BY <2>2, JobFields DEF FoodInv, CreateOK
    <3> QED BY <1>2, <2>2, <3>1 DEF FoodInv, CreateOK, Busy
  <2> QED BY <2>1, <2>2
<1>6. ASSUME NEW q \in Refusers PROVE RefuseOK(q)'
  <2>1. RefuseOK(q)
    BY DEF FoodInv
  <2>2. CASE Busy(q)'
    <3>1. foodDoing'[q] = foodDoing[q]
      BY <1>2, <2>2 DEF Busy, Refusers, Meals!Idle
    <3>2. Busy(q) /\ foodDoing[q].of # k
      BY <2>2, <3>1 DEF Busy
    <3>3. foodDoing[q].of \in FoodKeys
      BY <3>2, JobFields
    <3> QED BY <1>2, <2>1, <3>1, <3>2, <3>3 DEF RefuseOK, Busy
  <2>3. CASE ~Busy(q)'
    BY <2>3 DEF RefuseOK
  <2> QED BY <2>2, <2>3
<1>7. Apart'
  BY <1>2 DEF FoodInv, Apart, Busy, Meals!Idle
<1>8. ASSUME NEW j \in FoodKeys PROVE FundsOK(j)'
  <2>1. FundsOK(j)
    BY DEF FoodInv
  <2>2. CASE j = k
    BY <1>2, <2>1, <2>2 DEF FundsOK
  <2>3. CASE j # k
    BY <1>2, <2>1, <2>3 DEF FundsOK
  <2> QED BY <2>2, <2>3
<1>9. CartOnce'
  <2>1. CartOnce
    BY DEF FoodInv
  <2>2. \A j \in FoodKeys : j # k /\ foodOrder[j].status # "NONE" => CartOf[j] # CartOf[k]
    BY <2>1 DEF CartOnce
  <2> QED BY <1>2, <2>1, <2>2 DEF CartOnce
<1> QED BY <1>3, <1>4, <1>5, <1>6, <1>7, <1>8, <1>9 DEF FoodInv

LEMMA FundsFields ==
  ASSUME FoodInv, NEW k \in FoodKeys
  PROVE  /\ foodFunds[k] \in Meals!Funds
         /\ foodFunds[k].pay \in Meals!PayStatus
         /\ foodFunds[k].points \in {"NONE", "TAKEN", "BACK"}
         /\ foodFunds = [foodFunds EXCEPT ![k] = foodFunds[k]]
         /\ foodOrder[k] \in Meals!Order /\ FundsOK(k)
<1>1. FoodTypes /\ FundsOK(k)
  BY DEF FoodInv
<1>2. foodFunds[k] \in Meals!Funds /\ foodFunds = [foodFunds EXCEPT ![k] = foodFunds[k]] /\ foodOrder[k] \in Meals!Order
  BY <1>1 DEF FoodTypes
<1> QED BY <1>1, <1>2 DEF Meals!Funds, Meals!PayStatus

LEMMA CreateKeeps ==
  ASSUME FoodInv, NEW k \in FoodKeys,
         Meals!CreateStarts(k) \/ Meals!CreateRedeems(k) \/ Meals!CreatePays(k) \/ Meals!CreateRollsBack(k)
  PROVE  FoodInv'
<1>1. FundsOK(k) /\ foodFunds[k] \in Meals!Funds
  BY FundsFields
<1>2. CASE Meals!CreateStarts(k)
  <2> DEFINE job == [op |-> "create", of |-> k, step |-> IF Method[k] = "WALLET" THEN "redeem" ELSE "pay"]
  <2>1. /\ foodDoing' = [foodDoing EXCEPT !["customer"] = job] /\ foodOrder[k] = Meals!NoOrder
        /\ UNCHANGED <<foodServing, foodAvailable, foodCart, foodOrder, foodLate, foodFunds>>
    BY <1>2 DEF Meals!CreateStarts, Meals!Do
  <2>2. job \in CreateJob /\ job.of = k /\ (job.step = "redeem" => Method[k] = "WALLET")
    BY DEF CreateJob
  <2>3. foodOrder[k].status = "NONE" /\ foodFunds' = [foodFunds EXCEPT ![k] = foodFunds[k]]
    BY <2>1, FundsFields DEF Meals!NoOrder
  <2>4. foodFunds[k].pay \in Unmade /\ (Method[k] # "WALLET" => foodFunds[k].points = "NONE")
    BY <1>1, <2>3 DEF FundsOK
  <2> HIDE DEF job
  <2> QED BY <1>1, <2>1, <2>2, <2>3, <2>4, CustomerStep
<1>3. ASSUME NEW s \in {"redeem", "pay"}, Meals!Creating(k, s)
      PROVE  /\ foodOrder[k].status = "NONE" /\ (s = "redeem" => Method[k] = "WALLET")
             /\ foodDoing["customer"] \in CreateJob /\ foodDoing["customer"].of = k
             /\ foodFunds[k].pay \in Unmade /\ (Method[k] # "WALLET" => foodFunds[k].points = "NONE")
  <2>1. foodDoing["customer"].op = "create" /\ foodDoing["customer"].of = k /\ foodDoing["customer"].step = s
    BY <1>3 DEF Meals!Creating
  <2>2. Busy("customer")
    BY <2>1 DEF Busy
  <2>3. foodOrder[k].status = "NONE" /\ (s = "redeem" => Method[k] = "WALLET")
    BY <2>1, <2>2 DEF FoodInv, CreateOK
  <2> QED BY <1>1, <2>1, <2>2, <2>3, JobFields DEF FundsOK
<1>4. CASE Meals!CreateRedeems(k)
  <2> DEFINE fund == [foodFunds[k] EXCEPT !.points = IF @ = "NONE" THEN "TAKEN" ELSE @]
             job == [foodDoing["customer"] EXCEPT !.step = "pay"]
  <2>1. /\ foodDoing' = [foodDoing EXCEPT !["customer"] = job] /\ foodFunds' = [foodFunds EXCEPT ![k] = fund]
        /\ UNCHANGED <<foodServing, foodAvailable, foodCart, foodOrder, foodLate>> /\ Meals!Creating(k, "redeem")
    BY <1>4 DEF Meals!CreateRedeems, Meals!Do
  <2>2. foodOrder[k].status = "NONE" /\ Method[k] = "WALLET" /\ foodDoing["customer"] \in CreateJob
        /\ foodDoing["customer"].of = k /\ foodFunds[k].pay \in Unmade
    BY <1>3, <2>1
  <2>3. fund \in Meals!Funds /\ fund.pay = foodFunds[k].pay
    BY <1>1 DEF Meals!Funds, Meals!PayStatus
  <2>4. job \in CreateJob /\ job.of = k /\ job.step = "pay"
    BY <2>2 DEF CreateJob
  <2> HIDE DEF job, fund
  <2> QED BY <2>1, <2>2, <2>3, <2>4, CustomerStep
<1>5. CASE Meals!CreatePays(k)
  <2> DEFINE job == [foodDoing["customer"] EXCEPT !.step = "commit"]
  <2>1. /\ foodDoing' = [foodDoing EXCEPT !["customer"] = job]
        /\ UNCHANGED <<foodServing, foodAvailable, foodCart, foodOrder, foodLate>> /\ Meals!Creating(k, "pay")
    BY <1>5 DEF Meals!CreatePays, Meals!Do
  <2>2. foodOrder[k].status = "NONE" /\ foodDoing["customer"] \in CreateJob
        /\ foodDoing["customer"].of = k /\ foodFunds[k].pay \in Unmade
        /\ (Method[k] # "WALLET" => foodFunds[k].points = "NONE")
    BY <1>3, <2>1
  <2>3. PICK fund \in Meals!Funds : /\ foodFunds' = [foodFunds EXCEPT ![k] = fund]
                                    /\ fund.points = foodFunds[k].points /\ fund.pay \in Unmade
    <3>1. CASE UNCHANGED foodFunds
      BY <1>1, <2>2, <3>1, FundsFields
    <3>2. ASSUME NEW status \in Unmade, NEW session \in Meals!Session,
                 foodFunds' \in {[foodFunds EXCEPT ![k].pay = status],
                                 [foodFunds EXCEPT ![k].pay = status, ![k].session = session]}
          PROVE  \E fund \in Meals!Funds : /\ foodFunds' = [foodFunds EXCEPT ![k] = fund]
                                            /\ fund.points = foodFunds[k].points /\ fund.pay \in Unmade
      <4> DEFINE one == [foodFunds[k] EXCEPT !.pay = status]
                 two == [foodFunds[k] EXCEPT !.pay = status, !.session = session]
      <4>1. foodFunds' = [foodFunds EXCEPT ![k] = one] \/ foodFunds' = [foodFunds EXCEPT ![k] = two]
        BY <3>2 DEF FoodInv, FoodTypes
      <4>2. /\ one \in Meals!Funds /\ one.points = foodFunds[k].points /\ one.pay = status
            /\ two \in Meals!Funds /\ two.points = foodFunds[k].points /\ two.pay = status
        BY <1>1 DEF Meals!Funds, Meals!PayStatus, Unmade
      <4> HIDE DEF one, two
      <4> QED BY <4>1, <4>2
    <3>3. CASE foodFunds' = [foodFunds EXCEPT ![k].pay = "CAPTURED"] \/ foodFunds' = [foodFunds EXCEPT ![k].pay = "OPEN"]
      <4>1. "CAPTURED" \in Unmade /\ "OPEN" \in Unmade /\ "none" \in Meals!Session
        BY DEF Unmade, Meals!Session
      <4> QED BY <3>2, <3>3, <4>1
    <3>4. ASSUME NEW status \in Meals!Uncaptured,
                 foodFunds' = [foodFunds EXCEPT ![k].pay = status,
                                                ![k].session = IF status = "OPEN" THEN "open" ELSE "none"]
          PROVE  \E fund \in Meals!Funds : /\ foodFunds' = [foodFunds EXCEPT ![k] = fund]
                                            /\ fund.points = foodFunds[k].points /\ fund.pay \in Unmade
      <4> DEFINE session == IF status = "OPEN" THEN "open" ELSE "none"
      <4>1. status \in Unmade /\ session \in Meals!Session
        BY <3>4 DEF Unmade, Meals!Uncaptured, Meals!Session
      <4>2. foodFunds' = [foodFunds EXCEPT ![k].pay = status, ![k].session = session]
        BY <3>4
      <4> HIDE DEF session
      <4> QED BY <3>2, <4>1, <4>2
    <3> QED BY <1>5, <3>1, <3>3, <3>4 DEF Meals!CreatePays
  <2>4. job \in CreateJob /\ job.of = k /\ job.step = "commit"
    BY <2>2 DEF CreateJob
  <2> HIDE DEF job
  <2> QED BY <2>1, <2>2, <2>3, <2>4, CustomerStep
<1>6. CASE Meals!CreateRollsBack(k)
  <2> DEFINE fund == [foodFunds[k] EXCEPT !.points = IF @ = "TAKEN" THEN "BACK" ELSE @]
  <2>1. /\ foodDoing' = [foodDoing EXCEPT !["customer"] = Meals!Idle] /\ foodFunds' = [foodFunds EXCEPT ![k] = fund]
        /\ UNCHANGED <<foodServing, foodAvailable, foodCart, foodOrder, foodLate>> /\ Meals!Creating(k, "pay")
    BY <1>6 DEF Meals!CreateRollsBack, Meals!Do
  <2>2. foodOrder[k].status = "NONE" /\ foodFunds[k].pay \in Unmade
        /\ (Method[k] # "WALLET" => foodFunds[k].points = "NONE")
    BY <1>3, <2>1
  <2>3. fund \in Meals!Funds /\ fund.pay = foodFunds[k].pay /\ (foodFunds[k].points = "NONE" => fund.points = "NONE")
    BY <1>1 DEF Meals!Funds, Meals!PayStatus
  <2> HIDE DEF fund
  <2> QED BY <2>1, <2>2, <2>3, CustomerStep
<1> QED BY <1>2, <1>4, <1>5, <1>6

LEMMA CommitKeeps ==
  ASSUME FoodInv, NEW k \in FoodKeys, Meals!CreateCommits(k)
  PROVE  FoodInv'
<1> DEFINE row == [status |-> "PENDING_RESTAURANT", payment |-> foodFunds[k].pay]
<1>1. /\ foodDoing' = [foodDoing EXCEPT !["customer"] = Meals!Idle] /\ foodOrder' = [foodOrder EXCEPT ![k] = row]
      /\ UNCHANGED <<foodServing, foodAvailable, foodCart, foodFunds, foodLate>> /\ Meals!Creating(k, "commit")
      /\ \A o \in FoodKeys \ {k} : CartOf[o] = CartOf[k] => foodOrder[o] = Meals!NoOrder
  BY DEF Meals!CreateCommits, Meals!insertFoodOrder, Meals!Do
<1>2. foodDoing["customer"].op = "create" /\ foodDoing["customer"].of = k
  BY <1>1 DEF Meals!Creating
<1>3. foodOrder[k].status = "NONE"
  BY <1>2 DEF FoodInv, CreateOK, Busy
<1>4. foodFunds[k].pay \in Unmade
  BY <1>3, FundsFields DEF FundsOK
<1>5. row \in Meals!Order /\ row.status = "PENDING_RESTAURANT"
  BY <1>4 DEF Meals!Order, Meals!OrderStatus, Meals!PayStatus, Unmade
<1>6. /\ foodDoing'["customer"] = Meals!Idle /\ foodDoing["customer"] # Meals!Idle
      /\ foodDoing'["vendor"] = foodDoing["vendor"] /\ foodDoing'["sweeper"] = foodDoing["sweeper"]
  BY <1>1, <1>2 DEF FoodInv, Jobs, Meals!Idle
<1>7. \A q \in Refusers : Busy(q)' => foodDoing[q].of # k
  BY <1>3, <1>6 DEF FoodInv, RefuseOK, Busy, Refusers
<1>8. \A j \in FoodKeys : foodOrder[k].status = "NONE" /\ j # k /\ CartOf[j] = CartOf[k] => foodOrder[j].status = "NONE"
  BY <1>1 DEF Meals!NoOrder
<1> HIDE DEF row
<1> QED BY <1>1, <1>5, <1>6, <1>7, <1>8, OrderStep

LEMMA KitchenKeeps ==
  ASSUME FoodInv, NEW k \in FoodKeys, NEW to \in Meals!OrderStatus,
         Meals!RestaurantTransition(k, to) \/ Meals!DispatchTransition(k, to)
  PROVE  FoodInv'
<1>1. PICK from \in Meals!OrderStatus : Meals!mutateOrder(k, {from}, to) /\ to \notin {"REJECTED", "TIMED_OUT"}
  BY DEF Meals!RestaurantTransition, Meals!DispatchTransition, Meals!allowedRestaurantTransition
<1> DEFINE row == [foodOrder[k] EXCEPT !.status = to]
<1>2. /\ foodOrder' = [foodOrder EXCEPT ![k] = row] /\ foodOrder[k].status = from
      /\ \A p \in Refusers : foodDoing[p] # Meals!Idle => foodDoing[p].of # k
      /\ UNCHANGED <<foodServing, foodAvailable, foodCart, foodLate, foodFunds, foodDoing>>
  BY <1>1 DEF Meals!mutateOrder, Meals!loadFoodOrder, Meals!updateFoodOrder, Refusers
<1>3. foodOrder[k].status # "NONE" /\ to # "NONE"
  BY <1>2 DEF Meals!OrderStatus
<1>4. row \in Meals!Order /\ row.status = to
  BY FundsFields DEF Meals!Order
<1>5. \A q \in Refusers : Busy(q)' => foodDoing[q].of # k
  BY <1>2 DEF Busy, Meals!Idle
<1> HIDE DEF row
<1>6. PICK c \in {"customer", "vendor", "sweeper"} : c = "customer"
  OBVIOUS
<1> QED BY <1>1, <1>2, <1>3, <1>4, <1>5, <1>6, OrderStep

LEMMA RefusalStarts ==
  ASSUME FoodInv, NEW k \in FoodKeys, Meals!Reject(k) \/ Meals!Expire(k)
  PROVE  FoodInv'
<1>1. PICK p \in Refusers, to \in {"REJECTED", "TIMED_OUT"} :
        /\ foodDoing' = [foodDoing EXCEPT ![p] = Meals!Compensation(k, to)]
        /\ Meals!loadFoodOrder(k, {"PENDING_RESTAURANT"})
        /\ UNCHANGED <<foodServing, foodAvailable, foodCart, foodOrder, foodLate, foodFunds>>
  BY DEF Meals!Reject, Meals!Expire, Meals!Do, Refusers
<1> DEFINE job == Meals!Compensation(k, to)
<1>2. foodOrder[k].status = "PENDING_RESTAURANT" /\ \A q \in Refusers : Busy(q) => foodDoing[q].of # k
  BY <1>1 DEF Meals!loadFoodOrder, Refusers, Busy, Meals!Idle
<1>3. job \in RefuseJob /\ job.of = k /\ job.step \in {"reverse", "refund", "void"} /\ (job.step = "reverse" <=> Method[k] = "WALLET")
  BY DEF Meals!Compensation, RefuseJob
<1>4. foodFunds[k] \in Meals!Funds /\ foodFunds' = [foodFunds EXCEPT ![k] = foodFunds[k]]
      /\ (Method[k] # "WALLET" => foodFunds[k].points = "NONE")
  BY <1>1, FundsFields DEF FundsOK
<1>5. foodDoing' = [foodDoing EXCEPT ![p] = job] /\ UNCHANGED <<foodServing, foodAvailable, foodCart, foodOrder, foodLate>>
  BY <1>1
<1> HIDE DEF job
<1> QED BY <1>2, <1>3, <1>4, <1>5, RefuserStep

\* What a refusal under way knows of its order.
LEMMA RefusingFacts ==
  ASSUME FoodInv, NEW p \in Refusers, Busy(p)
  PROVE  /\ foodDoing[p] \in RefuseJob /\ foodDoing[p].of \in FoodKeys
         /\ foodOrder[foodDoing[p].of].status = "PENDING_RESTAURANT"
         /\ \A q \in Refusers : q # p /\ Busy(q) => foodDoing[q].of # foodDoing[p].of
         /\ Method[foodDoing[p].of] # "WALLET" => foodFunds[foodDoing[p].of].points = "NONE"
<1>1. foodDoing[p] \in RefuseJob /\ foodDoing[p].of \in FoodKeys
  BY JobFields
<1>2. foodOrder[foodDoing[p].of].status = "PENDING_RESTAURANT"
  BY DEF FoodInv, RefuseOK
<1>3. \A q \in Refusers : q # p /\ Busy(q) => foodDoing[q].of # foodDoing[p].of
  BY DEF FoodInv, Apart, Refusers
<1>4. Method[foodDoing[p].of] # "WALLET" => foodFunds[foodDoing[p].of].points = "NONE"
  BY <1>1 DEF FoodInv, FundsOK
<1> QED BY <1>1, <1>2, <1>3, <1>4

LEMMA CompensationKeeps ==
  ASSUME FoodInv, NEW p \in Refusers,
         Meals!CompensatePoints(p) \/ Meals!CompensateRefund(p) \/ Meals!finalizeRefund(p) \/ Meals!CompensateVoid(p)
  PROVE  FoodInv'
<1> DEFINE k == foodDoing[p].of
<1>1. Busy(p)
  BY DEF Meals!CompensatePoints, Meals!CompensateRefund, Meals!finalizeRefund, Meals!CompensateVoid,
         Meals!Refusing, Busy
<1>2. /\ foodDoing[p] \in RefuseJob /\ k \in FoodKeys /\ foodOrder[k].status = "PENDING_RESTAURANT"
      /\ \A q \in Refusers : q # p /\ Busy(q) => foodDoing[q].of # k
      /\ Method[k] # "WALLET" => foodFunds[k].points = "NONE"
  BY <1>1, RefusingFacts
<1>3. foodFunds[k] \in Meals!Funds /\ foodFunds = [foodFunds EXCEPT ![k] = foodFunds[k]]
  BY <1>2, FundsFields
<1>4. RefuseOK(p)
  BY DEF FoodInv
<1>5. ASSUME NEW s \in {"refund", "finalize", "void", "commit"}
      PROVE  LET job == [foodDoing[p] EXCEPT !.step = s] IN job \in RefuseJob /\ job.of = k /\ job.step = s
  BY <1>2 DEF RefuseJob
<1>6. CASE Meals!CompensatePoints(p)
  <2> DEFINE s == IF foodOrder[k].payment \in Meals!Captured THEN "refund" ELSE "void"
             job == [foodDoing[p] EXCEPT !.step = s]
             fund == [foodFunds[k] EXCEPT !.points = "BACK"]
  <2>1. /\ foodDoing' = [foodDoing EXCEPT ![p] = job] /\ foodFunds' = [foodFunds EXCEPT ![k] = fund]
        /\ foodDoing[p].step = "reverse" /\ UNCHANGED <<foodServing, foodAvailable, foodCart, foodOrder, foodLate>>
    BY <1>6 DEF Meals!CompensatePoints, Meals!Refusing, Meals!Do
  <2>2. Method[k] = "WALLET"
    BY <1>1, <1>4, <2>1 DEF RefuseOK
  <2>3. fund \in Meals!Funds /\ fund.points = "BACK"
    BY <1>3 DEF Meals!Funds, Meals!PayStatus
  <2>4. s \in {"refund", "void"}
    OBVIOUS
  <2> HIDE DEF s
  <2>5. job \in RefuseJob /\ job.of = k /\ job.step = s
    BY <1>5, <2>4
  <2> HIDE DEF job, fund, k
  <2> QED BY <1>2, <2>1, <2>2, <2>3, <2>4, <2>5, RefuserStep
<1>7. CASE Meals!CompensateRefund(p) \/ Meals!finalizeRefund(p)
  <2>1. foodDoing[p].step \in {"refund", "finalize"} /\ UNCHANGED <<foodServing, foodAvailable, foodCart, foodOrder, foodLate>>
    BY <1>7 DEF Meals!CompensateRefund, Meals!finalizeRefund, Meals!Refusing
  <2>2. foodFunds[k].points # "TAKEN" /\ (Method[k] = "WALLET" => foodFunds[k].points = "BACK")
    BY <1>1, <1>4, <2>1 DEF RefuseOK
  <2>3. ASSUME NEW status \in {"REFUND_REQUESTED", "REFUND_SUBMITTED"}, NEW s \in {"finalize", "commit"},
               foodFunds' = [foodFunds EXCEPT ![k].pay = status],
               foodDoing' = [foodDoing EXCEPT ![p] = [foodDoing[p] EXCEPT !.step = s]]
        PROVE  FoodInv'
    <3> DEFINE fund == [foodFunds[k] EXCEPT !.pay = status]
               job == [foodDoing[p] EXCEPT !.step = s]
    <3>1. foodDoing' = [foodDoing EXCEPT ![p] = job] /\ foodFunds' = [foodFunds EXCEPT ![k] = fund]
      BY <2>3
    <3>2. fund \in Meals!Funds /\ fund.points = foodFunds[k].points /\ Settled(fund)
      BY <1>3 DEF Meals!Funds, Meals!PayStatus, Ended, Settled
    <3>3. job \in RefuseJob /\ job.of = k /\ job.step = s
      BY <1>5
    <3> HIDE DEF job, fund, k
    <3> QED BY <1>2, <2>1, <2>2, <3>1, <3>2, <3>3, RefuserStep
  <2>4. CASE /\ UNCHANGED foodFunds /\ foodFunds[k].pay \in Meals!Refunding
             /\ foodDoing' = [foodDoing EXCEPT ![p] = [foodDoing[p] EXCEPT !.step = "commit"]]
    <3> DEFINE job == [foodDoing[p] EXCEPT !.step = "commit"]
    <3>1. foodFunds' = [foodFunds EXCEPT ![k] = foodFunds[k]] /\ foodDoing' = [foodDoing EXCEPT ![p] = job]
      BY <1>3, <2>4
    <3>2. Settled(foodFunds[k])
      BY <2>4 DEF Settled, Ended, Meals!Refunding
    <3>3. job \in RefuseJob /\ job.of = k /\ job.step = "commit"
      BY <1>5
    <3> HIDE DEF job, k
    <3> QED BY <1>2, <1>3, <2>1, <2>2, <3>1, <3>2, <3>3, RefuserStep
  <2> QED BY <1>7, <2>3, <2>4 DEF Meals!CompensateRefund, Meals!finalizeRefund, Meals!Do
<1>8. CASE Meals!CompensateVoid(p)
  <2>1. foodDoing[p].step = "void" /\ UNCHANGED <<foodServing, foodAvailable, foodCart, foodOrder, foodLate>>
    BY <1>8 DEF Meals!CompensateVoid, Meals!Refusing
  <2>2. foodFunds[k].points # "TAKEN" /\ (Method[k] = "WALLET" => foodFunds[k].points = "BACK")
    BY <1>1, <1>4, <2>1 DEF RefuseOK
  <2>3. CASE /\ foodFunds' = [foodFunds EXCEPT ![k].pay = "CANCELLED"]
             /\ foodDoing' = [foodDoing EXCEPT ![p] = [foodDoing[p] EXCEPT !.step = "commit"]]
    <3> DEFINE fund == [foodFunds[k] EXCEPT !.pay = "CANCELLED"]
               job == [foodDoing[p] EXCEPT !.step = "commit"]
    <3>1. foodDoing' = [foodDoing EXCEPT ![p] = job] /\ foodFunds' = [foodFunds EXCEPT ![k] = fund]
      BY <2>3
    <3>2. fund \in Meals!Funds /\ fund.points = foodFunds[k].points /\ Settled(fund)
      BY <1>3 DEF Meals!Funds, Meals!PayStatus, Ended, Settled
    <3>3. job \in RefuseJob /\ job.of = k /\ job.step = "commit"
      BY <1>5
    <3> HIDE DEF job, fund, k
    <3> QED BY <1>2, <2>1, <2>2, <3>1, <3>2, <3>3, RefuserStep
  <2>4. CASE UNCHANGED foodFunds /\ foodDoing' = [foodDoing EXCEPT ![p] = Meals!Idle]
    <3>1. foodFunds' = [foodFunds EXCEPT ![k] = foodFunds[k]]
      BY <1>3, <2>4
    <3> HIDE DEF k
    <3> QED BY <1>2, <1>3, <2>1, <2>4, <3>1, RefuserStep
  <2> QED BY <1>8, <2>3, <2>4 DEF Meals!CompensateVoid, Meals!Do
<1> QED BY <1>6, <1>7, <1>8

LEMMA RefusalCommits ==
  ASSUME FoodInv, NEW p \in Refusers, Meals!RefuseCommits(p)
  PROVE  FoodInv'
<1> DEFINE k == foodDoing[p].of
           row == [status |-> foodDoing[p].to, payment |-> foodFunds[k].pay]
<1>1. /\ Busy(p) /\ foodDoing[p].step = "commit" /\ foodDoing' = [foodDoing EXCEPT ![p] = Meals!Idle]
      /\ foodOrder' = [foodOrder EXCEPT ![k] = row] /\ UNCHANGED <<foodServing, foodAvailable, foodCart, foodFunds, foodLate>>
  BY DEF Meals!RefuseCommits, Meals!Refusing, Meals!updateFoodOrder, Meals!Do, Busy
<1>2. /\ foodDoing[p] \in RefuseJob /\ k \in FoodKeys /\ foodOrder[k].status = "PENDING_RESTAURANT"
      /\ \A q \in Refusers : q # p /\ Busy(q) => foodDoing[q].of # k
  BY <1>1, RefusingFacts
<1>3. Settled(foodFunds[k]) /\ foodFunds[k].points # "TAKEN"
  BY <1>1 DEF FoodInv, RefuseOK
<1>4. row \in Meals!Order /\ row.status \in {"REJECTED", "TIMED_OUT"}
  BY <1>2, FundsFields DEF Meals!Order, Meals!OrderStatus, RefuseJob
<1>5. /\ foodDoing'[p] = Meals!Idle /\ foodDoing'["customer"] = foodDoing["customer"]
      /\ \A q \in Refusers : q # p => foodDoing'[q] = foodDoing[q]
  BY <1>1 DEF FoodInv, Jobs, Refusers
<1>6. \A q \in Refusers : Busy(q)' => foodDoing[q].of # k
  BY <1>2, <1>5 DEF Busy, Meals!Idle
<1>7. p \in {"customer", "vendor", "sweeper"}
  BY DEF Refusers
<1> HIDE DEF row, k
<1> QED BY <1>1, <1>2, <1>3, <1>4, <1>5, <1>6, <1>7, OrderStep

LEMMA AbortKeeps ==
  ASSUME FoodInv, NEW p \in {"customer", "vendor", "sweeper"}, Meals!Abort(p)
  PROVE  FoodInv'
<1>1. /\ foodDoing' = [foodDoing EXCEPT ![p] = Meals!Idle] /\ Busy(p)
      /\ UNCHANGED <<foodServing, foodAvailable, foodCart, foodOrder, foodLate, foodFunds>>
  BY JobFields DEF Meals!Abort, Meals!Do
<1> DEFINE k == foodDoing[p].of
<1>2. k \in FoodKeys
  BY <1>1, JobFields DEF Refusers
<1>3. /\ foodFunds[k] \in Meals!Funds /\ foodFunds' = [foodFunds EXCEPT ![k] = foodFunds[k]] /\ FundsOK(k)
  BY <1>1, <1>2, FundsFields
<1>4. CASE p = "customer"
  <2>1. foodOrder[k].status = "NONE"
    BY <1>1, <1>4 DEF FoodInv, CreateOK
  <2>2. foodFunds[k].pay \in Unmade /\ (Method[k] # "WALLET" => foodFunds[k].points = "NONE")
    BY <1>3, <2>1 DEF FundsOK
  <2> HIDE DEF k
  <2> QED BY <1>1, <1>2, <1>3, <1>4, <2>1, <2>2, CustomerStep
<1>5. CASE p \in Refusers
  <2>1. /\ foodOrder[k].status = "PENDING_RESTAURANT" /\ \A q \in Refusers : q # p /\ Busy(q) => foodDoing[q].of # k
        /\ Method[k] # "WALLET" => foodFunds[k].points = "NONE"
    BY <1>1, <1>5, RefusingFacts
  <2> HIDE DEF k
  <2> QED BY <1>1, <1>2, <1>3, <1>5, <2>1, RefuserStep
<1> QED BY <1>4, <1>5 DEF Refusers

\* What happens to a payment at the provider, in a webhook or in a retry: a settled
\* one stays settled, or is marked as opened again.
LEMMA BillKeeps ==
  ASSUME FoodInv, NEW k \in FoodKeys, NEW fund, Meals!Bill(k, fund), fund \in Meals!Funds,
         fund.points = foodFunds[k].points, Settled(foodFunds[k]) => Settled(fund)
  PROVE  FoodInv'
<1>1. /\ foodOrder[k] # Meals!NoOrder /\ foodFunds' = [foodFunds EXCEPT ![k] = fund]
      /\ UNCHANGED <<foodServing, foodAvailable, foodCart, foodOrder, foodLate, foodDoing>>
  BY DEF Meals!Bill
<1>2. foodOrder[k].status # "NONE"
  BY <1>1, FundsFields DEF FundsOK
<1>3. FoodTypes /\ Jobs
  BY DEF FoodInv
<1>4. foodFunds'[k] = fund /\ \A j \in FoodKeys : j # k => foodFunds'[j] = foodFunds[j]
  BY <1>1, <1>3 DEF FoodTypes
<1>5. FoodTypes' /\ Jobs'
  BY <1>1, <1>3 DEF FoodTypes, Jobs
<1>6. CreateOK' /\ Apart' /\ CartOnce'
  BY <1>1 DEF FoodInv, CreateOK, Apart, CartOnce, Busy
<1>7. ASSUME NEW p \in Refusers PROVE RefuseOK(p)'
  <2>1. RefuseOK(p) /\ (Busy(p) => foodDoing[p].of \in FoodKeys)
    BY JobFields DEF FoodInv
  <2>2. CASE Busy(p) /\ foodDoing[p].of = k
    BY <1>1, <1>4, <2>1, <2>2 DEF RefuseOK, Busy
  <2>3. CASE ~(Busy(p) /\ foodDoing[p].of = k)
    BY <1>1, <1>4, <2>1, <2>3 DEF RefuseOK, Busy
  <2> QED BY <2>2, <2>3
<1>8. ASSUME NEW j \in FoodKeys PROVE FundsOK(j)'
  <2>1. FundsOK(j)
    BY DEF FoodInv
  <2>2. CASE j = k
    BY <1>1, <1>2, <1>4, <2>1, <2>2 DEF FundsOK
  <2>3. CASE j # k
    BY <1>1, <1>4, <2>1, <2>3 DEF FundsOK
  <2> QED BY <2>2, <2>3
<1> QED BY <1>5, <1>6, <1>7, <1>8 DEF FoodInv

LEMMA PayKeeps ==
  ASSUME FoodInv, NEW k \in FoodKeys,
         \/ Meals!Pay(k) \/ Meals!Captures(k) \/ Meals!AttemptFails(k)
         \/ Meals!RetryStarts(k) \/ Meals!RetryFinalizes(k) \/ Meals!RetryFails(k)
  PROVE  FoodInv'
<1>1. foodFunds[k] \in Meals!Funds
  BY FundsFields
<1>2. ASSUME NEW fund, Meals!Bill(k, fund), fund \in Meals!Funds, fund.points = foodFunds[k].points,
             Settled(foodFunds[k]) => Settled(fund)
      PROVE  FoodInv'
  BY <1>2, BillKeeps
<1>3. CASE Meals!Pay(k)
  <2>1. PICK fund \in {[foodFunds[k] EXCEPT !.session = "paid"], [foodFunds[k] EXCEPT !.older = "paid"]} : Meals!Bill(k, fund)
    BY <1>3 DEF Meals!Pay
  <2>2. /\ fund \in Meals!Funds /\ fund.points = foodFunds[k].points
        /\ fund.pay = foodFunds[k].pay /\ fund.reopened = foodFunds[k].reopened
    BY <1>1, <2>1 DEF Meals!Funds, Meals!Session
  <2> QED BY <1>2, <2>1, <2>2 DEF Settled
<1>4. CASE Meals!Captures(k) \/ Meals!AttemptFails(k)
  <2>1. PICK status \in {"CAPTURED", "RETRYABLE"} : Meals!Bill(k, [foodFunds[k] EXCEPT !.pay = status])
    BY <1>4 DEF Meals!Captures, Meals!AttemptFails
  <2> DEFINE fund == [foodFunds[k] EXCEPT !.pay = status]
  <2>2. foodFunds[k].pay \notin Ended
    BY <1>4 DEF Meals!Captures, Meals!AttemptFails, Ended
  <2>3. fund \in Meals!Funds /\ fund.points = foodFunds[k].points /\ fund.reopened = foodFunds[k].reopened
    BY <1>1, <2>1 DEF Meals!Funds, Meals!PayStatus
  <2>4. Meals!Bill(k, fund)
    BY <2>1
  <2> HIDE DEF fund
  <2> QED BY <1>2, <2>2, <2>3, <2>4 DEF Settled
<1>5. ASSUME NEW asks \in BOOLEAN, Meals!Bill(k, [foodFunds[k] EXCEPT !.asking = asks]) PROVE FoodInv'
  <2> DEFINE fund == [foodFunds[k] EXCEPT !.asking = asks]
  <2>1. /\ fund \in Meals!Funds /\ fund.points = foodFunds[k].points
        /\ fund.pay = foodFunds[k].pay /\ fund.reopened = foodFunds[k].reopened
    BY <1>1 DEF Meals!Funds
  <2>2. Meals!Bill(k, fund)
    BY <1>5
  <2> HIDE DEF fund
  <2> QED BY <1>2, <2>1, <2>2 DEF Settled
<1> DEFINE to(b) == [foodFunds[k] EXCEPT !.pay = "OPEN", !.session = "open",
                       !.older = Meals!Superseded(k), !.asking = FALSE, !.reopened = b]
<1>6. ASSUME NEW b \in BOOLEAN, Settled(foodFunds[k]) => b, Meals!Bill(k, to(b)) PROVE FoodInv'
  <2>1. Meals!Superseded(k) \in Meals!Session
    BY DEF Meals!Superseded, Meals!Session
  <2>2. to(b) \in Meals!Funds /\ to(b).points = foodFunds[k].points /\ to(b).reopened = b
    BY <1>1, <2>1 DEF Meals!Funds, Meals!PayStatus, Meals!Session
  <2> HIDE DEF to
  <2> QED BY <1>2, <1>6, <2>2 DEF Settled
<1>7. CASE Meals!RetryStarts(k) \/ Meals!RetryFails(k)
  BY <1>5, <1>7 DEF Meals!RetryStarts, Meals!RetryFails
<1>8. CASE Meals!RetryFinalizes(k)
  <2> DEFINE again == foodFunds[k].reopened \/ foodFunds[k].pay # "RETRYABLE"
  <2>1. CASE Meals!Bill(k, [foodFunds[k] EXCEPT !.asking = FALSE])
    BY <1>5, <2>1
  <2>2. CASE Meals!Bill(k, to(again))
    <3>1. again = TRUE \/ again = FALSE
      OBVIOUS
    <3>2. Settled(foodFunds[k]) => again
      BY DEF Settled, Ended
    <3> HIDE DEF again, to
    <3>3. CASE again = TRUE
      BY <1>6, <2>2, <3>3
    <3>4. CASE again = FALSE
      BY <1>6, <2>2, <3>2, <3>4
    <3> QED BY <3>1, <3>3, <3>4
  <2> QED BY <1>8, <2>1, <2>2 DEF Meals!RetryFinalizes
<1> QED BY <1>3, <1>4, <1>7, <1>8

LEMMA FoodNext == FoodInv /\ [Meals!Next]_(Meals!vars) => FoodInv'
<1> SUFFICES ASSUME FoodInv, [Meals!Next]_(Meals!vars) PROVE FoodInv'
  OBVIOUS
<1>0. FoodTypes
  BY DEF FoodInv
<1>1. ASSUME NEW c \in FoodCarts, NEW chosen \in SUBSET FoodOptions, Meals!CartLapses(c) \/ Meals!SetCart(c, chosen) PROVE FoodInv'
  BY <1>0, <1>1, MenuKeeps DEF FoodTypes, Meals!CartLapses, Meals!SetCart
<1>2. ASSUME Meals!beforeCutoff \/ (\E o \in FoodOptions : Meals!SellOut(o)) \/ (\E k \in FoodKeys : Meals!AcceptByPasses(k)) PROVE FoodInv'
  BY <1>0, <1>2, MenuKeeps DEF FoodTypes, Meals!beforeCutoff, Meals!SellOut, Meals!AcceptByPasses
<1>3. ASSUME Meals!steps' = Meals!steps PROVE FoodInv'
  BY <1>0, <1>3, MenuKeeps DEF FoodTypes, Meals!steps
<1>4. {} \in SUBSET FoodOptions
  OBVIOUS
<1>5. CASE Meals!Step
  BY <1>1, <1>2, <1>4, <1>5, CreateKeeps, CommitKeeps, KitchenKeeps, RefusalStarts, CompensationKeeps,
     RefusalCommits, AbortKeeps, PayKeeps DEF Meals!Step, Meals!Processes, Refusers
<1> QED BY <1>3, <1>5 DEF Meals!Next, Meals!OthersLeave, Meals!vars

LEMMA ListNext == FoodInv /\ FoodInv' /\ Listed /\ [Meals!Next]_(Meals!vars) => Listed'
  BY DEF FoodInv, FoodTypes, Listed, Meals!Next, Meals!Placed, Meals!OthersLeave, Meals!vars

\* In the books, a food order that was refused keeps no points and its payment is
\* void or being refunded, at whatever step earlier attempts of the refusal were
\* rolled back, unless a retry of the payment opened it again; and a cart is
\* ordered once; for every set of commands, carts and menu.
THEOREM RefusalsSettled == Meals!Spec => []RefusedIsSettled
<1>1. FoodInv /\ Listed /\ [Meals!Next]_(Meals!vars) => FoodInv' /\ Listed'
  BY FoodNext, ListNext
<1> QED BY <1>1, FoodInit, FoodImplies, PTL DEF Meals!Spec

----------------------------------------------------------------------------
(* Points coming into a wallet (internal/wallet, internal/checkout).  What  *)
(* a transaction read of an account is the balance as long as it holds the  *)
(* row, no two hold one row, and what is about to be rewarded is not in the *)
(* ledger yet.  The rows are locked in ascending order.                     *)

TxRow == [op : {"NONE", "ACTIVATE", "REWARD"}, who : Customers \cup {0}, event : Events \cup {"none"}, day : Nat,
          rows : Growth!Seq(Customers), seen : Growth!Seq(Nat), admitted : BOOLEAN]
Referral == [owner : Customers \cup {0}, activated : BOOLEAN]

GrowthTypes ==
  /\ growthApplication \in [Customers -> Referral] /\ growthBalance \in [Customers -> Nat]
  /\ IsFiniteSet(growthLedger) /\ growthToday \in Nat /\ growthTx \in [Transactions -> TxRow]
NotOneself == \A c \in Customers : growthApplication[c].owner # c
Undertakes(t) ==
  /\ growthTx[t].op = "NONE" => growthTx[t] = Growth!Idle
  /\ growthTx[t].op = "ACTIVATE" =>
       /\ growthTx[t].who \in Customers /\ growthApplication[growthTx[t].who].owner \in Customers
       /\ ~growthApplication[growthTx[t].who].activated
  /\ growthTx[t].op = "REWARD" => growthTx[t].event \in Events /\ growthTx[t].who = CustomerOf[growthTx[t].event]
Locked(t) ==
  /\ Growth!Len(growthTx[t].rows) <= Growth!Len(Growth!LockOrder(t))
  /\ Growth!Len(growthTx[t].seen) = Growth!Len(growthTx[t].rows)
  /\ \A i \in 1..Growth!Len(growthTx[t].rows) :
       /\ growthTx[t].rows[i] = Growth!LockOrder(t)[i]
       /\ growthTx[t].seen[i] = growthBalance[growthTx[t].rows[i]]
Admitted(t) ==
  growthTx[t].admitted => growthTx[t].op = "REWARD" /\ Growth!LocksAll(t) /\ ~Growth!Claimed(growthTx[t].event)
Exclusive ==
  \A t, u \in Transactions : t # u => \A c \in Customers : ~(Growth!Holds(t, c) /\ Growth!Holds(u, c))
OneActivation ==
  \A t, u \in Transactions :
    t # u /\ growthTx[t].op = "ACTIVATE" /\ growthTx[u].op = "ACTIVATE" => growthTx[t].who # growthTx[u].who
Unrewarded ==
  \A c \in Customers : ~growthApplication[c].activated =>
    \A w \in Customers : Growth!Entry(w, "SENDER", c) \notin growthLedger /\ Growth!Entry(w, "RECIPIENT", c) \notin growthLedger
NotClaimed ==
  \A e \in Events : ~Growth!Claimed(e) => \A w \in Customers : Growth!Entry(w, "ENGAGEMENT", e) \notin growthLedger

GrowthInv ==
  /\ GrowthTypes /\ NotOneself /\ Exclusive /\ OneActivation /\ Unrewarded /\ NotClaimed /\ Growth!BalanceIsLedger
  /\ \A t \in Transactions : Undertakes(t) /\ Locked(t) /\ Admitted(t)

LEMMA TxFields ==
  ASSUME GrowthTypes, NEW t \in Transactions
  PROVE  /\ growthTx[t].op \in {"NONE", "ACTIVATE", "REWARD"} /\ growthTx[t].who \in Customers \cup {0}
         /\ growthTx[t].rows \in Growth!Seq(Customers) /\ growthTx[t].seen \in Growth!Seq(Nat)
         /\ growthTx[t].admitted \in BOOLEAN /\ growthTx[t] \in TxRow
<1>1. growthTx[t] \in TxRow
  BY DEF GrowthTypes
<1> QED BY <1>1 DEF TxRow

LEMMA IdleFields ==
  /\ Growth!Idle \in TxRow /\ Growth!Idle.op = "NONE" /\ Growth!Idle.who = 0 /\ Growth!Idle.rows = << >>
  /\ Growth!Idle.seen = << >> /\ Growth!Idle.admitted = FALSE
<1>1. << >> \in Growth!Seq(Customers) /\ << >> \in Growth!Seq(Nat)
  OBVIOUS
<1> QED BY <1>1 DEF Growth!Idle, Growth!None, TxRow

\* The accounts of a transaction in the order in which it locks them.
LEMMA LockOrders ==
  ASSUME GrowthTypes, NotOneself, NEW t \in Transactions, Undertakes(t)
  PROVE  /\ growthTx[t].op = "NONE" => Growth!LockOrder(t) = << >>
         /\ growthTx[t].op = "REWARD" => growthTx[t].who \in Customers /\ Growth!LockOrder(t) = <<growthTx[t].who>>
         /\ growthTx[t].op = "ACTIVATE" =>
              LET who == growthTx[t].who
                  owner == growthApplication[who].owner
              IN  /\ who \in Customers /\ owner \in Customers /\ owner # who
                  /\ \/ owner < who /\ Growth!LockOrder(t) = <<owner, who>>
                     \/ who < owner /\ Growth!LockOrder(t) = <<who, owner>>
<1>1. growthTx[t].op = "NONE" => Growth!LockOrder(t) = << >>
  BY DEF Growth!LockOrder
<1>2. growthTx[t].op = "REWARD" => growthTx[t].who \in Customers /\ Growth!LockOrder(t) = <<growthTx[t].who>>
  BY GrowthAssumption DEF Growth!LockOrder, Undertakes
<1>3. ASSUME growthTx[t].op = "ACTIVATE"
      PROVE  LET who == growthTx[t].who
                 owner == growthApplication[who].owner
             IN  /\ who \in Customers /\ owner \in Customers /\ owner # who
                 /\ \/ owner < who /\ Growth!LockOrder(t) = <<owner, who>>
                    \/ who < owner /\ Growth!LockOrder(t) = <<who, owner>>
  <2> DEFINE who == growthTx[t].who
             owner == growthApplication[who].owner
  <2>1. who \in Customers /\ owner \in Customers /\ owner # who
    BY <1>3 DEF Undertakes, NotOneself
  <2>2. who \in Nat /\ owner \in Nat
    BY <2>1, GrowthAssumption
  <2>3. CASE owner < who
    BY <1>3, <2>1, <2>2, <2>3 DEF Growth!LockOrder
  <2>4. CASE who < owner
    BY <1>3, <2>1, <2>2, <2>4 DEF Growth!LockOrder
  <2> QED BY <2>1, <2>2, <2>3, <2>4
<1> QED BY <1>1, <1>2, <1>3

LEMMA LockOrderShape ==
  ASSUME GrowthTypes, NotOneself, NEW t \in Transactions, Undertakes(t)
  PROVE  /\ Growth!LockOrder(t) \in Growth!Seq(Customers) /\ Growth!Len(Growth!LockOrder(t)) \in 0..2
         /\ growthTx[t].op # "NONE" => Growth!Len(Growth!LockOrder(t)) > 0
         /\ Growth!Len(Growth!LockOrder(t)) = 2 => Growth!LockOrder(t)[1] < Growth!LockOrder(t)[2]
<1>5. << >> \in Growth!Seq(Customers) /\ Growth!Len(<< >>) = 0
  OBVIOUS
<1>1. CASE growthTx[t].op = "NONE"
  <2>1. Growth!LockOrder(t) = << >>
    BY <1>1, LockOrders
  <2>2. Growth!LockOrder(t) \in Growth!Seq(Customers) /\ Growth!Len(Growth!LockOrder(t)) = 0
    BY <1>5, <2>1
  <2> QED BY <1>1, <2>2
<1>4. ASSUME NEW a \in Customers, NEW b \in Customers
      PROVE  /\ <<a>> \in Growth!Seq(Customers) /\ Growth!Len(<<a>>) = 1
             /\ <<a, b>> \in Growth!Seq(Customers) /\ Growth!Len(<<a, b>>) = 2 /\ <<a, b>>[1] = a /\ <<a, b>>[2] = b
  OBVIOUS
<1>2. CASE growthTx[t].op = "REWARD"
  <2>1. PICK a \in Customers : Growth!LockOrder(t) = <<a>>
    BY <1>2, LockOrders
  <2>2. Growth!LockOrder(t) \in Growth!Seq(Customers) /\ Growth!Len(Growth!LockOrder(t)) = 1
    BY <1>4, <2>1
  <2> QED BY <2>2
<1>3. CASE growthTx[t].op = "ACTIVATE"
  <2>1. PICK a \in Customers, b \in Customers : a < b /\ Growth!LockOrder(t) = <<a, b>>
    BY <1>3, LockOrders
  <2>2. Growth!LockOrder(t) \in Growth!Seq(Customers) /\ Growth!Len(Growth!LockOrder(t)) = 2
        /\ Growth!LockOrder(t)[1] = a /\ Growth!LockOrder(t)[2] = b
    BY <1>4, <2>1
  <2> QED BY <2>1, <2>2
<1> QED BY <1>1, <1>2, <1>3, TxFields

\* Among naturals there is a least.
LEMMA LeastNatural ==
  ASSUME NEW T \in SUBSET Nat, T # {}
  PROVE  \E n \in T : \A m \in T : n <= m
<1>1. PICK n \in T : \A m \in T : ~(<<m, n>> \in OpToRel(<, Nat))
  BY NatLessThanWellFounded, WFMin
<1>2. \A m \in T : ~(m < n)
  BY <1>1 DEF OpToRel
<1> QED BY <1>2

\* A transaction that still waits wants an account above those it holds.
LEMMA AscendingLocks ==
  ASSUME GrowthInv, NEW t \in Transactions, ~Growth!LocksAll(t)
  PROVE  /\ Growth!Wants(t) \in Customers /\ Growth!Wants(t) \in Nat
         /\ \A c \in Customers : Growth!Holds(t, c) => c < Growth!Wants(t)
<1> DEFINE L == Growth!LockOrder(t)
           rows == growthTx[t].rows
           n == Growth!Len(rows)
<1>1. GrowthTypes /\ NotOneself /\ Undertakes(t) /\ Locked(t)
  BY DEF GrowthInv
<1>2. L \in Growth!Seq(Customers) /\ Growth!Len(L) \in 0..2 /\ (Growth!Len(L) = 2 => L[1] < L[2])
  BY <1>1, LockOrderShape
<1>3. rows \in Growth!Seq(Customers) /\ n \in Nat
  BY <1>1, TxFields
<1>4. n < Growth!Len(L) /\ \A i \in 1..n : rows[i] = L[i]
  BY <1>1, <1>2, <1>3 DEF Locked, Growth!LocksAll
<1>5. Growth!Wants(t) = L[n + 1]
  BY DEF Growth!Wants
<1> HIDE DEF L, rows
<1>6. L[n + 1] \in Customers
  BY <1>2, <1>3, <1>4
<1>9. n \in Nat /\ n < Growth!Len(L) /\ Growth!Len(L) \in 0..2
  BY <1>2, <1>3, <1>4
<1> HIDE DEF n
<1>7. ASSUME NEW c \in Customers, NEW i \in 1..n, rows[i] = c PROVE c < L[n + 1]
  <2>1. n = 1 /\ i = 1 /\ Growth!Len(L) = 2
    <3> DEFINE size == Growth!Len(L)
    <3>1. n \in Nat /\ size \in 0..2 /\ n < size /\ i \in 1..n
      BY <1>9
    <3> HIDE DEF size
    <3>2. n = 1 /\ i = 1 /\ size = 2
      BY <3>1
    <3> QED BY <3>2 DEF size
  <2>2. L[1] < L[2] /\ rows[1] = L[1]
    BY <1>2, <1>4, <2>1
  <2> QED BY <1>7, <2>1, <2>2
<1>8. \A c \in Customers : Growth!Holds(t, c) => \E i \in 1..n : rows[i] = c
  BY DEF Growth!Holds, rows, n
<1> QED BY <1>5, <1>6, <1>7, <1>8, GrowthAssumption

\* The transaction whose wanted account is highest waits for no other.
LEMMA NobodyWaitsInACircle == GrowthInv => Growth!NoMutualWait
<1> SUFFICES ASSUME GrowthInv, NEW S \in SUBSET Transactions, S # {},
                    \A t \in S : \E u \in S : Growth!Waits(t, u)
             PROVE  FALSE
  BY DEF Growth!NoMutualWait
<1> DEFINE Above(t) == {v \in S : Growth!Wants(t) < Growth!Wants(v)}
           Heights == {Cardinality(Above(t)) : t \in S}
<1>1. \A t \in S : Growth!Wants(t) \in Nat
  BY AscendingLocks DEF Growth!Waits
<1>2. ASSUME NEW t \in S PROVE IsFiniteSet(Above(t)) /\ Cardinality(Above(t)) \in Nat
  <2>1. Above(t) \in SUBSET Transactions
    OBVIOUS
  <2> HIDE DEF Above
  <2> QED BY <2>1, GrowthAssumption, FS_Subset, FS_CardinalityType
<1>3. PICK n \in Heights : \A m \in Heights : n <= m
  <2>1. Heights \in SUBSET Nat /\ Heights # {}
    BY <1>2
  <2> HIDE DEF Heights
  <2> QED BY <2>1, LeastNatural
<1>4. PICK t \in S : n = Cardinality(Above(t))
  BY <1>3
<1>5. PICK u \in S : Growth!Waits(t, u)
  OBVIOUS
<1>6. Growth!Wants(t) \in Customers /\ Growth!Holds(u, Growth!Wants(t))
  BY <1>5, AscendingLocks DEF Growth!Waits
<1>7. Growth!Wants(t) < Growth!Wants(u)
  <2>1. ~Growth!LocksAll(u)
    BY DEF Growth!Waits
  <2> QED BY <1>6, <2>1, AscendingLocks
<1>8. Above(u) \in SUBSET Above(t) /\ u \in Above(t) /\ u \notin Above(u)
  BY <1>1, <1>7
<1>9. Cardinality(Above(t)) <= Cardinality(Above(u))
  BY <1>3, <1>4
<1> HIDE DEF Above
<1> QED BY <1>2, <1>8, <1>9, FS_Subset

LEMMA GrowthImplies == GrowthInv => GrowthIsSound
  BY NobodyWaitsInACircle DEF GrowthInv, GrowthIsSound

LEMMA SameCount == \A S : Growth!Cardinality(S) = Cardinality(S)
  BY DEF Growth!Cardinality, Cardinality

LEMMA GrowthInit == Growth!Init => GrowthInv
<1> SUFFICES ASSUME Growth!Init PROVE GrowthInv
  OBVIOUS
<1> DEFINE free == [owner |-> 0, activated |-> FALSE]
<1>1. /\ growthApplication = [c \in Customers |-> free] /\ growthBalance = [c \in Customers |-> 0]
      /\ growthLedger = {} /\ growthTx = [t \in Transactions |-> Growth!Idle] /\ growthToday = 0
  BY DEF Growth!Init, Growth!None
<1>2. free \in Referral /\ free.owner = 0
  BY DEF Referral
<1> HIDE DEF free
<1>3. GrowthTypes /\ NotOneself /\ Unrewarded /\ NotClaimed
  BY <1>1, <1>2, IdleFields, FS_EmptySet, GrowthAssumption DEF GrowthTypes, NotOneself, Unrewarded, NotClaimed
<1>4. \A t \in Transactions : growthTx[t] = Growth!Idle /\ growthTx[t].rows = << >> /\ Growth!Len(growthTx[t].rows) = 0
  BY <1>1, IdleFields
<1>5. Exclusive /\ OneActivation
  BY <1>4, IdleFields DEF Exclusive, OneActivation, Growth!Holds
<1>6. ASSUME NEW t \in Transactions PROVE Undertakes(t) /\ Locked(t) /\ Admitted(t)
  <2>1. Undertakes(t) /\ Admitted(t)
    BY <1>4, IdleFields DEF Undertakes, Admitted
  <2>2. Growth!LockOrder(t) = << >>
    BY <1>4, <2>1, <1>3, LockOrders, IdleFields
  <2>3. growthTx[t].seen = << >> /\ Growth!Len(growthTx[t].seen) = 0 /\ Growth!Len(Growth!LockOrder(t)) = 0
    BY <1>4, <2>2, IdleFields
  <2> QED BY <1>4, <2>1, <2>3 DEF Locked
<1>7. Growth!BalanceIsLedger
  <2>1. ASSUME NEW c \in Customers PROVE growthBalance[c] = 1 * Growth!Cardinality({x \in growthLedger : x.who = c})
    <3>1. {x \in growthLedger : x.who = c} = {}
      BY <1>1
    <3>2. Growth!Cardinality({}) = 0
      BY SameCount, FS_EmptySet
    <3> QED BY <1>1, <3>1, <3>2
  <2> QED BY <2>1 DEF Growth!BalanceIsLedger, Growth!Points
<1> QED BY <1>3, <1>5, <1>6, <1>7 DEF GrowthInv

\* What a step leaves of a transaction it is not about.
LEMMA Undisturbed ==
  ASSUME GrowthInv, NEW u \in Transactions, growthTx'[u] = growthTx[u],
         growthTx[u].op = "ACTIVATE" => growthApplication'[growthTx[u].who] = growthApplication[growthTx[u].who],
         \A c \in Customers : Growth!Holds(u, c) => growthBalance'[c] = growthBalance[c],
         growthTx[u].admitted => ~Growth!Claimed(growthTx[u].event)'
  PROVE  Undertakes(u)' /\ Locked(u)' /\ Admitted(u)' /\ \A c \in Customers : Growth!Holds(u, c)' <=> Growth!Holds(u, c)
<1>1. GrowthTypes /\ Undertakes(u) /\ Locked(u) /\ Admitted(u)
  BY DEF GrowthInv
<1>2. Undertakes(u)'
  BY <1>1 DEF Undertakes
<1>3. Growth!LockOrder(u)' = Growth!LockOrder(u)
  <2>1. CASE growthTx[u].op = "NONE"
    BY <2>1 DEF Growth!LockOrder
  <2>2. CASE growthTx[u].op = "REWARD"
    BY <2>2 DEF Growth!LockOrder
  <2>3. CASE growthTx[u].op = "ACTIVATE"
    BY <2>3 DEF Growth!LockOrder
  <2> QED BY <1>1, <2>1, <2>2, <2>3, TxFields
<1>4. \A c \in Customers : Growth!Holds(u, c)' <=> Growth!Holds(u, c)
  BY DEF Growth!Holds
<1>5. Admitted(u)'
  BY <1>1, <1>3 DEF Admitted, Growth!LocksAll
<1>6. Locked(u)'
  <2>1. growthTx[u].rows \in Growth!Seq(Customers)
    BY <1>1, TxFields
  <2>2. ASSUME NEW i \in 1..Growth!Len(growthTx[u].rows)
        PROVE  growthBalance'[growthTx[u].rows[i]] = growthBalance[growthTx[u].rows[i]]
    BY <2>1 DEF Growth!Holds
  <2> QED BY <1>1, <1>3, <2>2 DEF Locked
<1> QED BY <1>2, <1>4, <1>5, <1>6

\* A transaction that begins, locks, reads or is rolled back.
LEMMA TxStep ==
  ASSUME GrowthInv, NEW t \in Transactions, NEW row \in TxRow, growthTx' = [growthTx EXCEPT ![t] = row],
         UNCHANGED <<growthApplication, growthBalance, growthLedger, growthClaims, growthToday>>,
         Undertakes(t)', Locked(t)', Admitted(t)',
         \A u \in Transactions : \A c \in Customers : u # t /\ Growth!Holds(t, c)' => ~Growth!Holds(u, c),
         \A u \in Transactions : u # t /\ row.op = "ACTIVATE" /\ growthTx[u].op = "ACTIVATE" => row.who # growthTx[u].who
  PROVE  GrowthInv'
<1>1. GrowthTypes /\ NotOneself /\ Exclusive /\ OneActivation /\ Unrewarded /\ NotClaimed /\ Growth!BalanceIsLedger
  BY DEF GrowthInv
<1>2. growthTx'[t] = row /\ \A u \in Transactions : u # t => growthTx'[u] = growthTx[u]
  BY <1>1 DEF GrowthTypes
<1>3. ASSUME NEW u \in Transactions, u # t
      PROVE  Undertakes(u)' /\ Locked(u)' /\ Admitted(u)' /\ \A c \in Customers : Growth!Holds(u, c)' <=> Growth!Holds(u, c)
  <2>1. growthTx[u].admitted => ~Growth!Claimed(growthTx[u].event)
    BY DEF GrowthInv, Admitted
  <2>2. growthTx'[u] = growthTx[u]
    BY <1>2, <1>3
  <2>3. growthTx[u].admitted => ~Growth!Claimed(growthTx[u].event)'
    BY <2>1, <2>2 DEF Growth!Claimed
  <2> QED BY <2>2, <2>3, Undisturbed
<1>4. GrowthTypes' /\ NotOneself'
  BY <1>1 DEF GrowthTypes, NotOneself
<1>5. Unrewarded' /\ NotClaimed' /\ Growth!BalanceIsLedger'
  BY <1>1 DEF Unrewarded, NotClaimed, Growth!Claimed, Growth!BalanceIsLedger
<1>6. Exclusive'
  <2> SUFFICES ASSUME NEW u \in Transactions, NEW v \in Transactions, u # v, NEW c \in Customers
               PROVE  ~(Growth!Holds(u, c)' /\ Growth!Holds(v, c)')
    BY DEF Exclusive
  <2>1. CASE u # t /\ v # t
    <3>1. ~(Growth!Holds(u, c) /\ Growth!Holds(v, c))
      BY <1>1 DEF Exclusive
    <3>2. (Growth!Holds(u, c)' <=> Growth!Holds(u, c)) /\ (Growth!Holds(v, c)' <=> Growth!Holds(v, c))
      BY <1>3, <2>1
    <3> QED BY <3>1, <3>2
  <2>2. CASE u = t
    BY <1>3, <2>2
  <2>3. CASE v = t
    BY <1>3, <2>3
  <2> QED BY <2>1, <2>2, <2>3
<1>7. OneActivation'
  BY <1>1, <1>2 DEF OneActivation
<1> QED BY <1>3, <1>4, <1>5, <1>6, <1>7 DEF GrowthInv

LEMMA IdleIsFine ==
  ASSUME NEW t \in Transactions, growthTx'[t] = Growth!Idle, GrowthTypes', NotOneself'
  PROVE  Undertakes(t)' /\ Locked(t)' /\ Admitted(t)' /\ \A c \in Customers : ~Growth!Holds(t, c)'
<1>1. Undertakes(t)' /\ Admitted(t)'
  BY IdleFields DEF Undertakes, Admitted
<1>2. Growth!LockOrder(t)' = << >>
  BY IdleFields DEF Growth!LockOrder
<1>3. growthTx'[t].rows = << >> /\ growthTx'[t].seen = << >>
  BY IdleFields
<1>4. Growth!Len(growthTx'[t].rows) = 0 /\ Growth!Len(growthTx'[t].seen) = 0 /\ Growth!Len(Growth!LockOrder(t)') = 0
  BY <1>2, <1>3
<1> QED BY <1>1, <1>4 DEF Locked, Growth!Holds

LEMMA RollbackKeeps ==
  ASSUME GrowthInv, NEW t \in Transactions, Growth!Rollback(t)
  PROVE  GrowthInv'
<1>1. /\ growthTx' = [growthTx EXCEPT ![t] = Growth!Idle]
      /\ UNCHANGED <<growthApplication, growthBalance, growthLedger, growthClaims, growthToday>>
  BY DEF Growth!Rollback, Growth!growth
<1>2. GrowthTypes /\ NotOneself
  BY DEF GrowthInv
<1>3. growthTx'[t] = Growth!Idle /\ GrowthTypes' /\ NotOneself'
  BY <1>1, <1>2, IdleFields DEF GrowthTypes, NotOneself
<1>4. Undertakes(t)' /\ Locked(t)' /\ Admitted(t)' /\ \A c \in Customers : ~Growth!Holds(t, c)'
  BY <1>3, IdleIsFine
<1> QED BY <1>1, <1>4, IdleFields, TxStep

\* A transaction at its start holds nothing.
LEMMA StartKeeps ==
  ASSUME GrowthInv, NEW t \in Transactions, growthTx[t] = Growth!Idle, NEW row \in TxRow, row.op # "NONE",
         row.rows = << >>, row.seen = << >>, row.admitted = FALSE, growthTx' = [growthTx EXCEPT ![t] = row],
         UNCHANGED <<growthApplication, growthBalance, growthLedger, growthClaims, growthToday>>, Undertakes(t)',
         \A u \in Transactions : u # t /\ row.op = "ACTIVATE" /\ growthTx[u].op = "ACTIVATE" => row.who # growthTx[u].who
  PROVE  GrowthInv'
<1>1. GrowthTypes /\ NotOneself
  BY DEF GrowthInv
<1>2. growthTx'[t] = row /\ GrowthTypes' /\ NotOneself'
  BY <1>1 DEF GrowthTypes, NotOneself
<1>3. Growth!Len(growthTx'[t].rows) = 0 /\ Growth!Len(growthTx'[t].seen) = 0
  BY <1>2
<1>4. Growth!Len(Growth!LockOrder(t)') \in {1, 2}
  <2> DEFINE who == row.who
             owner == growthApplication[who].owner
  <2>1. growthTx'[t].op \in {"ACTIVATE", "REWARD"}
    BY <1>2 DEF TxRow
  <2>2. CASE row.op = "REWARD"
    <3>1. Growth!LockOrder(t)' = <<who>>
      BY <1>2, <2>2 DEF Growth!LockOrder
    <3> HIDE DEF who
    <3> QED BY <3>1
  <2>3. CASE row.op = "ACTIVATE"
    <3>1. who \in Customers /\ owner \in Customers /\ owner # who
      BY <1>1, <1>2, <2>3 DEF Undertakes, NotOneself
    <3>2. who \in Nat /\ owner \in Nat
      BY <3>1, GrowthAssumption
    <3>3. CASE owner < who
      <4>1. Growth!LockOrder(t)' = <<owner, who>>
        BY <1>2, <2>3, <3>2, <3>3 DEF Growth!LockOrder
      <4> HIDE DEF who, owner
      <4> QED BY <4>1
    <3>4. CASE who < owner
      <4>1. Growth!LockOrder(t)' = <<who, owner>>
        BY <1>2, <2>3, <3>2, <3>4 DEF Growth!LockOrder
      <4> HIDE DEF who, owner
      <4> QED BY <4>1
    <3> QED BY <3>1, <3>2, <3>3, <3>4
  <2> QED BY <1>2, <2>1, <2>2, <2>3
<1>5. Locked(t)' /\ \A c \in Customers : ~Growth!Holds(t, c)'
  BY <1>3, <1>4 DEF Locked, Growth!Holds
<1>6. Admitted(t)'
  BY <1>2 DEF Admitted
<1> QED BY <1>5, <1>6, TxStep

LEMMA BeginKeeps ==
  ASSUME GrowthInv, NEW t \in Transactions,
         (\E c \in Customers : Growth!BeginActivation(t, c)) \/ (\E e \in Events : Growth!BeginReward(t, e))
  PROVE  GrowthInv'
<1>1. GrowthTypes /\ growthTx[t] \in TxRow
  BY TxFields DEF GrowthInv
<1>2. CASE \E c \in Customers : Growth!BeginActivation(t, c)
  <2>1. PICK c \in Customers : Growth!BeginActivation(t, c)
    BY <1>2
  <2> DEFINE row == [growthTx[t] EXCEPT !.op = "ACTIVATE", !.who = c]
  <2>2. /\ growthTx[t] = Growth!Idle /\ growthApplication[c].owner # 0 /\ ~growthApplication[c].activated
        /\ \A u \in Transactions : ~(growthTx[u].op = "ACTIVATE" /\ growthTx[u].who = c)
        /\ growthTx' = [growthTx EXCEPT ![t] = row]
        /\ UNCHANGED <<growthApplication, growthBalance, growthLedger, growthClaims, growthToday>>
    BY <1>1, <2>1 DEF Growth!BeginActivation, Growth!growth, Growth!None, GrowthTypes
  <2>3. row \in TxRow
    BY <1>1 DEF TxRow
  <2>4. /\ row.op = "ACTIVATE" /\ row.who = c /\ row.rows = growthTx[t].rows /\ row.seen = growthTx[t].seen
        /\ row.admitted = growthTx[t].admitted
    BY <1>1 DEF TxRow
  <2> HIDE DEF row
  <2>5. row.rows = << >> /\ row.seen = << >> /\ row.admitted = FALSE
    BY <2>2, <2>4, IdleFields
  <2>6. growthTx'[t] = row /\ growthApplication[c].owner \in Customers
    BY <1>1, <2>2 DEF GrowthTypes, Referral
  <2>7. Undertakes(t)'
    BY <2>2, <2>4, <2>6 DEF Undertakes
  <2> QED BY <2>2, <2>3, <2>4, <2>5, <2>7, StartKeeps
<1>3. CASE \E e \in Events : Growth!BeginReward(t, e)
  <2>1. PICK e \in Events : Growth!BeginReward(t, e)
    BY <1>3
  <2> DEFINE row == [growthTx[t] EXCEPT !.op = "REWARD", !.who = CustomerOf[e], !.event = e, !.day = growthToday]
  <2>2. /\ growthTx[t] = Growth!Idle /\ growthTx' = [growthTx EXCEPT ![t] = row]
        /\ UNCHANGED <<growthApplication, growthBalance, growthLedger, growthClaims, growthToday>>
    BY <1>1, <2>1 DEF Growth!BeginReward, Growth!growth, GrowthTypes
  <2>3. CustomerOf[e] \in Customers /\ growthToday \in Nat
    BY <1>1, GrowthAssumption DEF GrowthTypes
  <2>4. row \in TxRow
    BY <1>1, <2>3 DEF TxRow
  <2>5. /\ row.op = "REWARD" /\ row.who = CustomerOf[e] /\ row.event = e /\ row.rows = growthTx[t].rows
        /\ row.seen = growthTx[t].seen /\ row.admitted = growthTx[t].admitted
    BY <1>1 DEF TxRow
  <2> HIDE DEF row
  <2>6. row.rows = << >> /\ row.seen = << >> /\ row.admitted = FALSE
    BY <2>2, <2>5, IdleFields
  <2>7. growthTx'[t] = row
    BY <1>1, <2>2 DEF GrowthTypes
  <2>8. Undertakes(t)'
    BY <2>5, <2>7 DEF Undertakes
  <2> QED BY <2>2, <2>4, <2>5, <2>6, <2>8, StartKeeps
<1> QED BY <1>2, <1>3

\* One more element at the end.
LEMMA Longer ==
  ASSUME NEW S, NEW q \in Growth!Seq(S), NEW x \in S
  PROVE  /\ Growth!Append(q, x) \in Growth!Seq(S) /\ Growth!Len(Growth!Append(q, x)) = Growth!Len(q) + 1
         /\ Growth!Append(q, x)[Growth!Len(q) + 1] = x /\ Growth!Len(q) \in Nat
         /\ \A i \in 1..Growth!Len(q) : Growth!Append(q, x)[i] = q[i]
OBVIOUS

LEMMA LockKeeps ==
  ASSUME GrowthInv, NEW t \in Transactions, Growth!lockWalletAccount(t)
  PROVE  GrowthInv'
<1> DEFINE c == Growth!Wants(t)
           old == growthTx[t].rows
           more == Growth!Append(old, c)
           was == growthTx[t].seen
           read == Growth!Append(was, growthBalance[c])
           row == [growthTx[t] EXCEPT !.rows = more, !.seen = read]
<1>1. GrowthTypes /\ NotOneself /\ Undertakes(t) /\ Locked(t) /\ Admitted(t) /\ growthTx[t] \in TxRow
  BY TxFields DEF GrowthInv
<1>2. /\ growthTx[t].op # "NONE" /\ ~Growth!LocksAll(t) /\ (\A u \in Transactions : ~Growth!Waits(t, u))
      /\ growthTx' = [growthTx EXCEPT ![t] = row]
      /\ UNCHANGED <<growthApplication, growthBalance, growthLedger, growthClaims, growthToday>>
  BY <1>1 DEF Growth!lockWalletAccount, Growth!growth, GrowthTypes
<1>3. c \in Customers /\ growthBalance[c] \in Nat
  BY <1>1, <1>2, AscendingLocks DEF GrowthTypes
<1>4. old \in Growth!Seq(Customers) /\ was \in Growth!Seq(Nat)
  BY <1>1, TxFields
<1>5. /\ more \in Growth!Seq(Customers) /\ Growth!Len(more) = Growth!Len(old) + 1 /\ more[Growth!Len(old) + 1] = c
      /\ \A i \in 1..Growth!Len(old) : more[i] = old[i]
      /\ read \in Growth!Seq(Nat) /\ Growth!Len(read) = Growth!Len(was) + 1 /\ read[Growth!Len(was) + 1] = growthBalance[c]
      /\ \A i \in 1..Growth!Len(was) : read[i] = was[i]
      /\ Growth!Len(old) \in Nat
  BY <1>3, <1>4, Longer
<1>6. c = Growth!LockOrder(t)[Growth!Len(old) + 1]
  BY DEF Growth!Wants
<1> HIDE DEF more, read, c
<1>7. row \in TxRow
  BY <1>1, <1>5 DEF TxRow
<1>8. /\ row.op = growthTx[t].op /\ row.who = growthTx[t].who /\ row.event = growthTx[t].event /\ row.rows = more
      /\ row.seen = read /\ row.admitted = growthTx[t].admitted
  BY <1>1 DEF TxRow
<1> HIDE DEF row
<1>9. growthTx'[t] = row
  BY <1>1, <1>2 DEF GrowthTypes
<1>10. Growth!LockOrder(t)' = Growth!LockOrder(t)
  BY <1>2, <1>8, <1>9 DEF Growth!LockOrder
<1>11. Undertakes(t)'
  BY <1>1, <1>2, <1>8, <1>9 DEF Undertakes
<1>12. Admitted(t)'
  <2>1. growthTx[t].admitted = FALSE
    BY <1>1, <1>2 DEF Admitted, TxRow
  <2> QED BY <2>1, <1>8, <1>9 DEF Admitted
<1>13. Growth!Len(old) < Growth!Len(Growth!LockOrder(t)) /\ Growth!Len(Growth!LockOrder(t)) \in Nat
  BY <1>1, <1>2, <1>5, LockOrderShape DEF Locked, Growth!LocksAll
<1>14. /\ Growth!Len(was) = Growth!Len(old)
       /\ \A i \in 1..Growth!Len(old) : old[i] = Growth!LockOrder(t)[i] /\ was[i] = growthBalance[old[i]]
  BY <1>1 DEF Locked
<1>15. Locked(t)'
  <2> DEFINE L == Growth!LockOrder(t)
             n == Growth!Len(old)
  <2>1. /\ n \in Nat /\ Growth!Len(more) = n + 1 /\ Growth!Len(read) = n + 1 /\ n < Growth!Len(L) /\ Growth!Len(L) \in Nat
        /\ c = L[n + 1]
    BY <1>5, <1>6, <1>13, <1>14
  <2>2. ASSUME NEW i \in 1..n + 1 PROVE more[i] = L[i] /\ read[i] = growthBalance[more[i]]
    <3>1. CASE i = n + 1
      BY <1>5, <1>14, <2>1, <3>1
    <3>2. CASE i \in 1..n
      BY <1>5, <1>14, <2>1, <3>2
    <3> HIDE DEF n
    <3> QED BY <2>1, <3>1, <3>2
  <2>3. growthTx'[t].rows = more /\ growthTx'[t].seen = read /\ growthBalance' = growthBalance
    BY <1>2, <1>8, <1>9
  <2> HIDE DEF L, n
  <2>4. Growth!LockOrder(t)' = L
    BY <1>10 DEF L
  <2> QED BY <2>1, <2>2, <2>3, <2>4 DEF Locked
<1>16. ASSUME NEW u \in Transactions, NEW d \in Customers, u # t, Growth!Holds(t, d)' PROVE ~Growth!Holds(u, d)
  <2>1. PICK i \in 1..Growth!Len(more) : more[i] = d
    BY <1>8, <1>9, <1>16 DEF Growth!Holds
  <2>2. d = c \/ Growth!Holds(t, d)
    <3>1. CASE i = Growth!Len(old) + 1
      BY <1>5, <2>1, <3>1
    <3>2. CASE i \in 1..Growth!Len(old)
      BY <1>5, <2>1, <3>2 DEF Growth!Holds
    <3> QED BY <1>5, <3>1, <3>2
  <2>3. CASE d = c
    BY <1>2, <1>16, <2>3 DEF Growth!Waits, c
  <2>4. CASE Growth!Holds(t, d)
    BY <1>16, <2>4 DEF GrowthInv, Exclusive
  <2> QED BY <2>2, <2>3, <2>4
<1>17. \A u \in Transactions : u # t /\ row.op = "ACTIVATE" /\ growthTx[u].op = "ACTIVATE" => row.who # growthTx[u].who
  BY <1>8 DEF GrowthInv, OneActivation
<1> QED BY <1>2, <1>7, <1>11, <1>12, <1>15, <1>16, <1>17, TxStep

LEMMA ReadKeeps ==
  ASSUME GrowthInv, NEW t \in Transactions, Growth!ReadLimits(t)
  PROVE  GrowthInv'
<1> DEFINE row == [growthTx[t] EXCEPT !.admitted = TRUE]
<1>1. GrowthTypes /\ NotOneself /\ Undertakes(t) /\ Locked(t) /\ growthTx[t] \in TxRow
  BY TxFields DEF GrowthInv
<1>2. /\ growthTx[t].op = "REWARD" /\ Growth!LocksAll(t) /\ ~Growth!Claimed(growthTx[t].event)
      /\ growthTx' = [growthTx EXCEPT ![t] = row]
      /\ UNCHANGED <<growthApplication, growthBalance, growthLedger, growthClaims, growthToday>>
  BY <1>1 DEF Growth!ReadLimits, Growth!growth, GrowthTypes
<1>3. row \in TxRow
  BY <1>1 DEF TxRow
<1>4. /\ row.op = growthTx[t].op /\ row.who = growthTx[t].who /\ row.event = growthTx[t].event
      /\ row.rows = growthTx[t].rows /\ row.seen = growthTx[t].seen /\ row.admitted = TRUE
  BY <1>1 DEF TxRow
<1> HIDE DEF row
<1>5. growthTx'[t] = row
  BY <1>1, <1>2 DEF GrowthTypes
<1>6. Growth!LockOrder(t)' = Growth!LockOrder(t)
  BY <1>2, <1>4, <1>5 DEF Growth!LockOrder
<1>7. Undertakes(t)'
  BY <1>1, <1>2, <1>4, <1>5 DEF Undertakes
<1>8. Locked(t)'
  BY <1>1, <1>2, <1>4, <1>5, <1>6 DEF Locked
<1>9. Admitted(t)'
  BY <1>2, <1>4, <1>5, <1>6 DEF Admitted, Growth!LocksAll, Growth!Claimed
<1>10. \A d \in Customers : Growth!Holds(t, d)' <=> Growth!Holds(t, d)
  BY <1>4, <1>5 DEF Growth!Holds
<1>11. \A u \in Transactions : \A d \in Customers : u # t /\ Growth!Holds(t, d)' => ~Growth!Holds(u, d)
  BY <1>10 DEF GrowthInv, Exclusive
<1> QED BY <1>2, <1>3, <1>4, <1>7, <1>8, <1>9, <1>11, TxStep

\* What was read under a lock is the balance.
LEMMA SeenIsBalance ==
  ASSUME GrowthInv, NEW t \in Transactions, NEW c \in Customers, Growth!Holds(t, c)
  PROVE  Growth!Seen(t, c) = growthBalance[c]
<1> DEFINE j == CHOOSE i \in 1..Growth!Len(growthTx[t].rows) : growthTx[t].rows[i] = c
<1>1. j \in 1..Growth!Len(growthTx[t].rows) /\ growthTx[t].rows[j] = c
  BY DEF Growth!Holds
<1>2. Growth!Seen(t, c) = growthTx[t].seen[j]
  BY DEF Growth!Seen
<1> HIDE DEF j
<1>3. Locked(t)
  BY DEF GrowthInv
<1> QED BY <1>1, <1>2, <1>3 DEF Locked

\* The accounts held once all are locked.
LEMMA HoldsItsOwn ==
  ASSUME GrowthInv, NEW t \in Transactions, Growth!LocksAll(t), NEW c \in Customers
  PROVE  /\ growthTx[t].op = "REWARD" => (Growth!Holds(t, c) <=> c = growthTx[t].who)
         /\ growthTx[t].op = "ACTIVATE" =>
              (Growth!Holds(t, c) <=> c = growthTx[t].who \/ c = growthApplication[growthTx[t].who].owner)
<1> DEFINE L == Growth!LockOrder(t)
           rows == growthTx[t].rows
<1>1. GrowthTypes /\ NotOneself /\ Undertakes(t) /\ Locked(t)
  BY DEF GrowthInv
<1>2. Growth!Len(rows) = Growth!Len(L) /\ \A i \in 1..Growth!Len(L) : rows[i] = L[i]
  BY <1>1 DEF Locked, Growth!LocksAll
<1>3. Growth!Holds(t, c) <=> \E i \in 1..Growth!Len(L) : L[i] = c
  <2> HIDE DEF L
  <2> QED BY <1>2 DEF Growth!Holds
<1>4. CASE growthTx[t].op = "REWARD"
  <2>1. L = <<growthTx[t].who>>
    BY <1>1, <1>4, LockOrders
  <2>2. Growth!Len(L) = 1 /\ L[1] = growthTx[t].who
    BY <2>1
  <2> HIDE DEF L
  <2> QED BY <1>3, <1>4, <2>2
<1>5. CASE growthTx[t].op = "ACTIVATE"
  <2> DEFINE who == growthTx[t].who
             owner == growthApplication[who].owner
  <2>1. L = <<owner, who>> \/ L = <<who, owner>>
    BY <1>1, <1>5, LockOrders
  <2>2. Growth!Len(L) = 2 /\ ((L[1] = owner /\ L[2] = who) \/ (L[1] = who /\ L[2] = owner))
    <3>1. ASSUME NEW a, NEW b PROVE Growth!Len(<<a, b>>) = 2 /\ <<a, b>>[1] = a /\ <<a, b>>[2] = b
      OBVIOUS
    <3> HIDE DEF L, who, owner
    <3>2. CASE L = <<owner, who>>
      BY <3>1, <3>2
    <3>3. CASE L = <<who, owner>>
      BY <3>1, <3>3
    <3> QED BY <2>1, <3>2, <3>3
  <2> HIDE DEF L, who, owner
  <2>3. (\E i \in 1..Growth!Len(L) : L[i] = c) <=> c = who \/ c = owner
    BY <2>2
  <2> QED BY <1>3, <1>5, <2>3 DEF who, owner
<1>6. growthTx[t].op \in {"NONE", "ACTIVATE", "REWARD"}
  BY <1>1, TxFields
<1> QED BY <1>4, <1>5

Of(F, c) == {x \in F : x.who = c}

\* One more entry counts for its account only.
LEMMA EntryCounts ==
  ASSUME NEW F, IsFiniteSet(F), NEW e, e \notin F, NEW c
  PROVE  /\ IsFiniteSet(F \cup {e}) /\ Cardinality(Of(F, c)) \in Nat
         /\ e.who = c => Cardinality(Of(F \cup {e}, c)) = Cardinality(Of(F, c)) + 1
         /\ e.who # c => Cardinality(Of(F \cup {e}, c)) = Cardinality(Of(F, c))
<1>1. IsFiniteSet(F \cup {e})
  BY FS_AddElement
<1>2. IsFiniteSet(Of(F, c)) /\ Cardinality(Of(F, c)) \in Nat
  <2>1. Of(F, c) \in SUBSET F
    BY DEF Of
  <2> QED BY <2>1, FS_Subset, FS_CardinalityType
<1>3. CASE e.who = c
  <2>1. Of(F \cup {e}, c) = Of(F, c) \cup {e} /\ e \notin Of(F, c)
    BY <1>3 DEF Of
  <2> QED BY <1>1, <1>2, <1>3, <2>1, FS_AddElement
<1>4. CASE e.who # c
  <2>1. Of(F \cup {e}, c) = Of(F, c)
    BY <1>4 DEF Of
  <2> QED BY <1>1, <1>2, <1>4, <2>1
<1> QED BY <1>3, <1>4

LEMMA BalanceCounts ==
  Growth!BalanceIsLedger <=> \A c \in Customers : growthBalance[c] = 1 * Cardinality(Of(growthLedger, c))
  BY SameCount DEF Growth!BalanceIsLedger, Growth!Points, Of

LEMMA BalanceCountsPrime ==
  Growth!BalanceIsLedger' <=> \A c \in Customers : growthBalance'[c] = 1 * Cardinality(Of(growthLedger', c))
  BY SameCount DEF Growth!BalanceIsLedger, Growth!Points, Of

\* A commit writes what it saw plus the points, and the entries beside it.
LEMMA CommitStep ==
  ASSUME GrowthInv, NEW t \in Transactions, Growth!updateWalletAccount(t), growthTx' = [growthTx EXCEPT ![t] = Growth!Idle],
         IsFiniteSet(growthLedger'), UNCHANGED growthToday,
         \A c \in Customers : Growth!Holds(t, c) => Cardinality(Of(growthLedger', c)) = Cardinality(Of(growthLedger, c)) + 1,
         \A c \in Customers : ~Growth!Holds(t, c) => Cardinality(Of(growthLedger', c)) = Cardinality(Of(growthLedger, c)),
         growthApplication' \in [Customers -> Referral], NotOneself', Unrewarded', NotClaimed',
         \A u \in Transactions : u # t /\ growthTx[u].op = "ACTIVATE" =>
           growthApplication'[growthTx[u].who] = growthApplication[growthTx[u].who],
         \A u \in Transactions : u # t /\ growthTx[u].admitted => ~Growth!Claimed(growthTx[u].event)'
  PROVE  GrowthInv'
<1>1. GrowthTypes /\ Exclusive /\ OneActivation /\ Growth!BalanceIsLedger
  BY DEF GrowthInv
<1>2. \A c \in Customers : Cardinality(Of(growthLedger, c)) \in Nat /\ growthBalance[c] = Cardinality(Of(growthLedger, c))
  <2>1. ASSUME NEW c \in Customers PROVE growthBalance[c] = 1 * Cardinality(Of(growthLedger, c))
    BY <1>1, BalanceCounts
  <2>2. ASSUME NEW c \in Customers PROVE Cardinality(Of(growthLedger, c)) \in Nat
    <3>1. Of(growthLedger, c) \in SUBSET growthLedger
      BY DEF Of
    <3> QED BY <1>1, <3>1, FS_Subset, FS_CardinalityType DEF GrowthTypes
  <2> QED BY <2>1, <2>2
<1>3. growthBalance' = [c \in Customers |-> IF Growth!Holds(t, c) THEN Growth!Seen(t, c) + 1 ELSE growthBalance[c]]
  BY DEF Growth!updateWalletAccount, Growth!Points
<1>4. ASSUME NEW c \in Customers
      PROVE  /\ Growth!Holds(t, c) => growthBalance'[c] = growthBalance[c] + 1
             /\ ~Growth!Holds(t, c) => growthBalance'[c] = growthBalance[c]
  BY <1>3, SeenIsBalance
<1>5. ASSUME NEW c \in Customers PROVE growthBalance'[c] = Cardinality(Of(growthLedger', c)) /\ growthBalance'[c] \in Nat
  BY <1>2, <1>4
<1>6. Growth!BalanceIsLedger'
  <2>1. ASSUME NEW c \in Customers PROVE growthBalance'[c] = 1 * Cardinality(Of(growthLedger', c))
    BY <1>5
  <2> QED BY <2>1, BalanceCountsPrime
<1>7. growthTx'[t] = Growth!Idle /\ \A u \in Transactions : u # t => growthTx'[u] = growthTx[u]
  BY <1>1 DEF GrowthTypes
<1>8. GrowthTypes'
  <2>1. growthBalance' \in [Customers -> Nat]
    BY <1>3, <1>5
  <2> QED BY <1>1, <2>1, IdleFields DEF GrowthTypes
<1>9. ASSUME NEW u \in Transactions, u # t
      PROVE  Undertakes(u)' /\ Locked(u)' /\ Admitted(u)' /\ \A c \in Customers : Growth!Holds(u, c)' <=> Growth!Holds(u, c)
  <2>1. \A c \in Customers : Growth!Holds(u, c) => growthBalance'[c] = growthBalance[c]
    BY <1>1, <1>4, <1>9 DEF Exclusive
  <2> QED BY <1>7, <1>9, <2>1, Undisturbed
<1>10. Undertakes(t)' /\ Locked(t)' /\ Admitted(t)' /\ \A c \in Customers : ~Growth!Holds(t, c)'
  BY <1>7, <1>8, IdleIsFine
<1>11. Exclusive'
  <2> SUFFICES ASSUME NEW u \in Transactions, NEW v \in Transactions, u # v, NEW c \in Customers
               PROVE  ~(Growth!Holds(u, c)' /\ Growth!Holds(v, c)')
    BY DEF Exclusive
  <2>1. CASE u # t /\ v # t
    <3>1. ~(Growth!Holds(u, c) /\ Growth!Holds(v, c))
      BY <1>1 DEF Exclusive
    <3>2. (Growth!Holds(u, c)' <=> Growth!Holds(u, c)) /\ (Growth!Holds(v, c)' <=> Growth!Holds(v, c))
      BY <1>9, <2>1
    <3> QED BY <3>1, <3>2
  <2>2. CASE u = t \/ v = t
    BY <1>10, <2>2
  <2> QED BY <2>1, <2>2
<1>12. OneActivation'
  BY <1>1, <1>7, IdleFields DEF OneActivation
<1> QED BY <1>6, <1>8, <1>9, <1>10, <1>11, <1>12 DEF GrowthInv

LEMMA ActivateKeeps ==
  ASSUME GrowthInv, NEW t \in Transactions, Growth!ActivateReferral(t)
  PROVE  GrowthInv'
<1> DEFINE referred == growthTx[t].who
           owner == growthApplication[referred].owner
           sent == Growth!Entry(owner, "SENDER", referred)
           received == Growth!Entry(referred, "RECIPIENT", referred)
           done == [growthApplication[referred] EXCEPT !.activated = TRUE]
<1>1. GrowthTypes /\ NotOneself /\ Undertakes(t) /\ Unrewarded /\ NotClaimed
  BY DEF GrowthInv
<1>2. /\ growthTx[t].op = "ACTIVATE" /\ Growth!LocksAll(t) /\ growthLedger' = growthLedger \cup {sent, received}
      /\ Growth!updateWalletAccount(t) /\ growthApplication' = [growthApplication EXCEPT ![referred] = done]
      /\ growthTx' = [growthTx EXCEPT ![t] = Growth!Idle] /\ UNCHANGED <<growthClaims, growthToday>>
  BY <1>1 DEF Growth!ActivateReferral, GrowthTypes
<1>3. referred \in Customers /\ owner \in Customers /\ owner # referred /\ ~growthApplication[referred].activated
  BY <1>1, <1>2 DEF Undertakes, NotOneself
<1>4. /\ sent.who = owner /\ received.who = referred /\ sent # received
      /\ sent \notin growthLedger /\ received \notin growthLedger
  BY <1>1, <1>3 DEF Unrewarded, Growth!Entry
<1>5. done \in Referral /\ done.owner = owner /\ done.activated = TRUE
  BY <1>1, <1>3 DEF GrowthTypes, Referral
<1>6. \A c \in Customers : Growth!Holds(t, c) <=> c = referred \/ c = owner
  BY <1>2, HoldsItsOwn
<1>7. growthApplication' \in [Customers -> Referral] /\ growthApplication'[referred] = done
      /\ \A c \in Customers : c # referred => growthApplication'[c] = growthApplication[c]
  BY <1>1, <1>2, <1>3, <1>5 DEF GrowthTypes
<1>8. NotOneself'
  BY <1>1, <1>3, <1>5, <1>7 DEF NotOneself
<1>9. Unrewarded'
  <2> SUFFICES ASSUME NEW c \in Customers, ~growthApplication'[c].activated, NEW w \in Customers
               PROVE  Growth!Entry(w, "SENDER", c) \notin growthLedger' /\ Growth!Entry(w, "RECIPIENT", c) \notin growthLedger'
    BY DEF Unrewarded
  <2>1. c # referred /\ growthApplication'[c] = growthApplication[c]
    BY <1>5, <1>7
  <2>2. Growth!Entry(w, "SENDER", c) \notin growthLedger /\ Growth!Entry(w, "RECIPIENT", c) \notin growthLedger
    BY <1>1, <2>1 DEF Unrewarded
  <2>3. Growth!Entry(w, "SENDER", c) \notin {sent, received} /\ Growth!Entry(w, "RECIPIENT", c) \notin {sent, received}
    BY <2>1 DEF Growth!Entry
  <2> QED BY <1>2, <2>2, <2>3
<1>10. NotClaimed'
  <2> SUFFICES ASSUME NEW e \in Events, ~Growth!Claimed(e)', NEW w \in Customers
               PROVE  Growth!Entry(w, "ENGAGEMENT", e) \notin growthLedger'
    BY DEF NotClaimed
  <2>1. ~Growth!Claimed(e)
    BY <1>2 DEF Growth!Claimed
  <2>2. Growth!Entry(w, "ENGAGEMENT", e) \notin {sent, received}
    BY DEF Growth!Entry
  <2> QED BY <1>1, <1>2, <2>1, <2>2 DEF NotClaimed
<1>11. \A u \in Transactions : u # t /\ growthTx[u].op = "ACTIVATE" =>
         growthApplication'[growthTx[u].who] = growthApplication[growthTx[u].who]
  <2>1. \A u \in Transactions : u # t /\ growthTx[u].op = "ACTIVATE" => growthTx[u].who \in Customers /\ growthTx[u].who # referred
    BY <1>2 DEF GrowthInv, Undertakes, OneActivation
  <2> QED BY <1>7, <2>1
<1>12. \A u \in Transactions : u # t /\ growthTx[u].admitted => ~Growth!Claimed(growthTx[u].event)'
  <2>1. \A u \in Transactions : u # t => growthTx'[u] = growthTx[u]
    BY <1>1, <1>2 DEF GrowthTypes
  <2>2. \A u \in Transactions : growthTx[u].admitted => ~Growth!Claimed(growthTx[u].event)
    BY DEF GrowthInv, Admitted
  <2> QED BY <1>2, <2>1, <2>2 DEF Growth!Claimed
<1> HIDE DEF sent, received, done
<1>13. IsFiniteSet(growthLedger \cup {sent}) /\ received \notin growthLedger \cup {sent}
  BY <1>1, <1>4, EntryCounts DEF GrowthTypes
<1>14. growthLedger' = (growthLedger \cup {sent}) \cup {received} /\ IsFiniteSet(growthLedger')
  BY <1>2, <1>13, FS_AddElement
<1>15. ASSUME NEW c \in Customers
       PROVE  /\ Growth!Holds(t, c) => Cardinality(Of(growthLedger', c)) = Cardinality(Of(growthLedger, c)) + 1
              /\ ~Growth!Holds(t, c) => Cardinality(Of(growthLedger', c)) = Cardinality(Of(growthLedger, c))
  <2>1. /\ sent.who = c => Cardinality(Of(growthLedger \cup {sent}, c)) = Cardinality(Of(growthLedger, c)) + 1
        /\ sent.who # c => Cardinality(Of(growthLedger \cup {sent}, c)) = Cardinality(Of(growthLedger, c))
    <3>1. IsFiniteSet(growthLedger)
      BY <1>1 DEF GrowthTypes
    <3> QED BY <1>4, <3>1, EntryCounts
  <2>2. /\ received.who = c => Cardinality(Of(growthLedger', c)) = Cardinality(Of(growthLedger \cup {sent}, c)) + 1
        /\ received.who # c => Cardinality(Of(growthLedger', c)) = Cardinality(Of(growthLedger \cup {sent}, c))
    BY <1>13, <1>14, EntryCounts
  <2> QED BY <1>3, <1>4, <1>6, <2>1, <2>2
<1> QED BY <1>2, <1>7, <1>8, <1>9, <1>10, <1>11, <1>12, <1>14, <1>15, CommitStep

LEMMA RewardKeeps ==
  ASSUME GrowthInv, NEW t \in Transactions, Growth!RewardEngagement(t)
  PROVE  GrowthInv'
<1> DEFINE e == growthTx[t].event
           who == growthTx[t].who
           entry == Growth!Entry(who, "ENGAGEMENT", e)
           claim == [event |-> e, day |-> growthTx[t].day]
<1>1. GrowthTypes /\ NotOneself /\ Undertakes(t) /\ Unrewarded /\ NotClaimed /\ Admitted(t)
  BY DEF GrowthInv
<1>2. /\ growthTx[t].op = "REWARD" /\ growthTx[t].admitted /\ growthLedger' = growthLedger \cup {entry}
      /\ growthClaims' = growthClaims \cup {claim} /\ Growth!updateWalletAccount(t)
      /\ growthTx' = [growthTx EXCEPT ![t] = Growth!Idle] /\ UNCHANGED <<growthApplication, growthToday>>
  BY DEF Growth!RewardEngagement
<1>3. Growth!LocksAll(t) /\ ~Growth!Claimed(e) /\ e \in Events /\ who = CustomerOf[e] /\ who \in Customers
  BY <1>1, <1>2, GrowthAssumption DEF Admitted, Undertakes
<1>4. entry.who = who /\ entry \notin growthLedger
  BY <1>1, <1>3 DEF NotClaimed, Growth!Entry
<1>5. \A c \in Customers : Growth!Holds(t, c) <=> c = who
  BY <1>2, <1>3, HoldsItsOwn
<1>6. \A d \in Events : ~Growth!Claimed(d)' => ~Growth!Claimed(d) /\ d # e
  <2>1. claim.event = e
    OBVIOUS
  <2> HIDE DEF claim, e
  <2> QED BY <1>2, <2>1 DEF Growth!Claimed
<1>7. NotOneself' /\ Unrewarded'
  BY <1>1, <1>2 DEF NotOneself, Unrewarded, Growth!Entry
<1>8. NotClaimed'
  <2> SUFFICES ASSUME NEW d \in Events, ~Growth!Claimed(d)', NEW w \in Customers
               PROVE  Growth!Entry(w, "ENGAGEMENT", d) \notin growthLedger'
    BY DEF NotClaimed
  <2>1. ~Growth!Claimed(d) /\ d # e
    BY <1>6
  <2>2. Growth!Entry(w, "ENGAGEMENT", d) # entry
    BY <2>1 DEF Growth!Entry
  <2> QED BY <1>1, <1>2, <2>1, <2>2 DEF NotClaimed
\* An event has one customer, whose account this transaction holds.
<1>9. ASSUME NEW u \in Transactions, u # t, growthTx[u].admitted PROVE ~Growth!Claimed(growthTx[u].event)'
  <2>1. growthTx'[u] = growthTx[u]
    BY <1>1, <1>2, <1>9 DEF GrowthTypes
  <2>2. Undertakes(u) /\ Admitted(u)
    BY DEF GrowthInv
  <2>3. /\ growthTx[u].op = "REWARD" /\ Growth!LocksAll(u) /\ ~Growth!Claimed(growthTx[u].event)
        /\ growthTx[u].event \in Events /\ growthTx[u].who = CustomerOf[growthTx[u].event]
    BY <1>9, <2>2 DEF Undertakes, Admitted
  <2>4. growthTx[u].event # e
    <3> SUFFICES ASSUME growthTx[u].event = e PROVE FALSE
      OBVIOUS
    <3>1. Growth!Holds(u, who)
      BY <1>3, <2>3, HoldsItsOwn
    <3>2. Growth!Holds(t, who)
      BY <1>3, <1>5
    <3> QED BY <1>3, <1>9, <3>1, <3>2 DEF GrowthInv, Exclusive
  <2> HIDE DEF e
  <2>5. ~\E k \in growthClaims' : k.event = growthTx[u].event
    <3>1. ~\E k \in growthClaims : k.event = growthTx[u].event
      BY <2>3 DEF Growth!Claimed
    <3>2. claim.event = e
      OBVIOUS
    <3> HIDE DEF claim
    <3> QED BY <1>2, <2>4, <3>1, <3>2
  <2> QED BY <2>1, <2>5 DEF Growth!Claimed
<1> HIDE DEF entry
<1>10. IsFiniteSet(growthLedger')
  BY <1>1, <1>2, <1>4, EntryCounts DEF GrowthTypes
<1>11. ASSUME NEW c \in Customers
       PROVE  /\ Growth!Holds(t, c) => Cardinality(Of(growthLedger', c)) = Cardinality(Of(growthLedger, c)) + 1
              /\ ~Growth!Holds(t, c) => Cardinality(Of(growthLedger', c)) = Cardinality(Of(growthLedger, c))
  <2>1. IsFiniteSet(growthLedger)
    BY <1>1 DEF GrowthTypes
  <2>2. /\ entry.who = c => Cardinality(Of(growthLedger \cup {entry}, c)) = Cardinality(Of(growthLedger, c)) + 1
        /\ entry.who # c => Cardinality(Of(growthLedger \cup {entry}, c)) = Cardinality(Of(growthLedger, c))
    BY <1>4, <2>1, EntryCounts
  <2> QED BY <1>2, <1>4, <1>5, <2>2
<1>12. growthApplication' \in [Customers -> Referral]
  BY <1>1, <1>2 DEF GrowthTypes
<1> QED BY <1>2, <1>7, <1>8, <1>9, <1>10, <1>11, <1>12, CommitStep

\* A step that touches the wallet at most in accounts nobody holds.
LEMMA AsideKeeps ==
  ASSUME GrowthInv, growthApplication' \in [Customers -> Referral], growthBalance' \in [Customers -> Nat],
         IsFiniteSet(growthLedger'), growthToday' \in Nat, UNCHANGED <<growthTx, growthClaims>>,
         NotOneself', Unrewarded', NotClaimed', Growth!BalanceIsLedger',
         \A u \in Transactions : growthTx[u].op = "ACTIVATE" =>
           growthApplication'[growthTx[u].who] = growthApplication[growthTx[u].who],
         \A u \in Transactions : \A c \in Customers : Growth!Holds(u, c) => growthBalance'[c] = growthBalance[c]
  PROVE  GrowthInv'
<1>1. GrowthTypes /\ Exclusive /\ OneActivation
  BY DEF GrowthInv
<1>2. GrowthTypes'
  BY <1>1 DEF GrowthTypes
<1>3. Exclusive' /\ OneActivation'
  BY <1>1 DEF Exclusive, OneActivation, Growth!Holds
<1>4. ASSUME NEW u \in Transactions PROVE Undertakes(u)' /\ Locked(u)' /\ Admitted(u)'
  <2>1. growthTx[u].admitted => ~Growth!Claimed(growthTx[u].event)'
    <3>1. growthTx[u].admitted => ~Growth!Claimed(growthTx[u].event)
      BY DEF GrowthInv, Admitted
    <3> QED BY <3>1 DEF Growth!Claimed
  <2> QED BY <2>1, Undisturbed
<1> QED BY <1>2, <1>3, <1>4 DEF GrowthInv

LEMMA FinalizeKeeps ==
  ASSUME GrowthInv, NEW r \in Refills, Growth!FinalizeProviderWalletRefill(r)
  PROVE  GrowthInv'
<1> DEFINE payer == PayerOf[r]
           entry == Growth!RefillCredit(r)
<1>1. GrowthTypes /\ NotOneself /\ Unrewarded /\ NotClaimed /\ Growth!BalanceIsLedger /\ IsFiniteSet(growthLedger)
  BY DEF GrowthInv, GrowthTypes
<1>2. /\ \A t \in Transactions : ~Growth!Holds(t, payer)
      /\ growthLedger' = growthLedger \cup {entry} /\ UNCHANGED <<growthApplication, growthClaims, growthToday, growthTx>>
      /\ entry \in growthLedger => growthBalance' = growthBalance
      /\ entry \notin growthLedger => growthBalance' = [growthBalance EXCEPT ![payer] = @ + 1]
  BY DEF Growth!FinalizeProviderWalletRefill, Growth!growth, Growth!Points
<1>3. payer \in Customers /\ entry.who = payer
  BY GrowthAssumption DEF Growth!RefillCredit, Growth!Entry
<1>4. \A c \in Customers : growthBalance[c] \in Nat
  BY <1>1 DEF GrowthTypes
<1>5. growthBalance' \in [Customers -> Nat] /\ \A c \in Customers : c # payer => growthBalance'[c] = growthBalance[c]
  BY <1>1, <1>2, <1>3, <1>4 DEF GrowthTypes
<1>6. NotOneself' /\ Unrewarded' /\ NotClaimed'
  <2>1. NotOneself'
    BY <1>1, <1>2 DEF NotOneself
  <2>2. Unrewarded'
    <3>1. \A c, w : Growth!Entry(w, "SENDER", c) # entry /\ Growth!Entry(w, "RECIPIENT", c) # entry
      BY DEF Growth!RefillCredit, Growth!Entry
    <3> HIDE DEF entry
    <3> QED BY <1>1, <1>2, <3>1 DEF Unrewarded, Growth!Entry
  <2>3. NotClaimed'
    <3>1. \A c, w : Growth!Entry(w, "ENGAGEMENT", c) # entry
      BY DEF Growth!RefillCredit, Growth!Entry
    <3> HIDE DEF entry
    <3> QED BY <1>1, <1>2, <3>1 DEF NotClaimed, Growth!Entry, Growth!Claimed
  <2> QED BY <2>1, <2>2, <2>3
<1> HIDE DEF entry
<1>7. IsFiniteSet(growthLedger') /\ Growth!BalanceIsLedger'
  <2>1. CASE entry \in growthLedger
    <3>1. growthLedger' = growthLedger /\ growthBalance' = growthBalance
      BY <1>2, <2>1
    <3> QED BY <1>1, <3>1 DEF Growth!BalanceIsLedger
  <2>2. CASE entry \notin growthLedger
    <3>1. IsFiniteSet(growthLedger \cup {entry})
      BY <1>1, <2>2, EntryCounts
    <3>2. ASSUME NEW c \in Customers PROVE growthBalance'[c] = 1 * Cardinality(Of(growthLedger', c))
      <4>1. growthBalance[c] = 1 * Cardinality(Of(growthLedger, c))
        BY <1>1, BalanceCounts
      <4>2. /\ Cardinality(Of(growthLedger, c)) \in Nat
            /\ entry.who = c => Cardinality(Of(growthLedger', c)) = Cardinality(Of(growthLedger, c)) + 1
            /\ entry.who # c => Cardinality(Of(growthLedger', c)) = Cardinality(Of(growthLedger, c))
        <5>1. /\ Cardinality(Of(growthLedger, c)) \in Nat
              /\ entry.who = c => Cardinality(Of(growthLedger \cup {entry}, c)) = Cardinality(Of(growthLedger, c)) + 1
              /\ entry.who # c => Cardinality(Of(growthLedger \cup {entry}, c)) = Cardinality(Of(growthLedger, c))
          BY <1>1, <2>2, EntryCounts
        <5> QED BY <1>2, <5>1
      <4>3. c = payer => growthBalance'[c] = growthBalance[c] + 1
        BY <1>1, <1>2, <1>3, <2>2 DEF GrowthTypes
      <4> QED BY <1>3, <1>5, <4>1, <4>2, <4>3
    <3> QED BY <1>2, <3>1, <3>2, BalanceCountsPrime
  <2> QED BY <2>1, <2>2
<1>8. \A u \in Transactions : \A c \in Customers : Growth!Holds(u, c) => growthBalance'[c] = growthBalance[c]
  BY <1>2, <1>5
<1>9. growthApplication' \in [Customers -> Referral] /\ growthToday' \in Nat
  BY <1>1, <1>2 DEF GrowthTypes
<1> HIDE DEF payer
<1> QED BY <1>2, <1>5, <1>6, <1>7, <1>8, <1>9, AsideKeeps

LEMMA ApplyKeeps ==
  ASSUME GrowthInv, NEW c \in Customers, NEW owner \in Customers, Growth!ApplyReferral(c, owner)
  PROVE  GrowthInv'
<1> DEFINE row == [growthApplication[c] EXCEPT !.owner = owner]
<1>1. GrowthTypes /\ NotOneself /\ Unrewarded /\ NotClaimed /\ Growth!BalanceIsLedger
  BY DEF GrowthInv
<1>2. /\ owner # c /\ growthApplication[c].owner = 0 /\ growthApplication' = [growthApplication EXCEPT ![c] = row]
      /\ UNCHANGED <<growthBalance, growthLedger, growthClaims, growthTx, growthToday>>
  BY DEF Growth!ApplyReferral, Growth!None
<1>3. row \in Referral
  BY <1>1 DEF GrowthTypes, Referral
<1>4. row.owner = owner /\ row.activated = growthApplication[c].activated
  BY <1>1 DEF GrowthTypes, Referral
<1> HIDE DEF row
<1>5. /\ growthApplication' \in [Customers -> Referral] /\ growthApplication'[c] = row
      /\ \A d \in Customers : d # c => growthApplication'[d] = growthApplication[d]
  BY <1>1, <1>2, <1>3 DEF GrowthTypes
<1>6. NotOneself'
  BY <1>1, <1>2, <1>4, <1>5 DEF NotOneself
<1>7. Unrewarded'
  <2>1. \A d \in Customers : growthApplication'[d].activated = growthApplication[d].activated
    BY <1>4, <1>5
  <2> QED BY <1>1, <1>2, <2>1 DEF Unrewarded, Growth!Entry
<1>8. NotClaimed' /\ Growth!BalanceIsLedger'
  BY <1>1, <1>2 DEF NotClaimed, Growth!Entry, Growth!Claimed, Growth!BalanceIsLedger
<1>9. \A u \in Transactions : growthTx[u].op = "ACTIVATE" =>
        growthApplication'[growthTx[u].who] = growthApplication[growthTx[u].who]
  <2>1. \A u \in Transactions : growthTx[u].op = "ACTIVATE" => growthTx[u].who \in Customers /\ growthTx[u].who # c
    BY <1>2, GrowthAssumption DEF GrowthInv, Undertakes
  <2> QED BY <1>5, <2>1
<1>10. growthBalance' \in [Customers -> Nat] /\ IsFiniteSet(growthLedger') /\ growthToday' \in Nat
  BY <1>1, <1>2 DEF GrowthTypes
<1> QED BY <1>2, <1>5, <1>6, <1>7, <1>8, <1>9, <1>10, AsideKeeps

LEMMA WalletUntouched ==
  ASSUME GrowthInv, growthToday' \in Nat,
         UNCHANGED <<growthApplication, growthBalance, growthLedger, growthTx, growthClaims>>
  PROVE  GrowthInv'
<1>1. GrowthTypes /\ NotOneself /\ Unrewarded /\ NotClaimed /\ Growth!BalanceIsLedger
  BY DEF GrowthInv
<1>2. NotOneself' /\ Unrewarded' /\ NotClaimed' /\ Growth!BalanceIsLedger'
  BY <1>1 DEF NotOneself, Unrewarded, NotClaimed, Growth!Entry, Growth!Claimed, Growth!BalanceIsLedger
<1>3. growthApplication' \in [Customers -> Referral] /\ growthBalance' \in [Customers -> Nat] /\ IsFiniteSet(growthLedger')
  BY <1>1 DEF GrowthTypes
<1> QED BY <1>2, <1>3, AsideKeeps

LEMMA GrowthNext == GrowthInv /\ [Growth!Next]_(Growth!vars) => GrowthInv'
<1> SUFFICES ASSUME GrowthInv, [Growth!Next]_(Growth!vars) PROVE GrowthInv'
  OBVIOUS
<1>1. growthToday \in Nat
  BY DEF GrowthInv, GrowthTypes
<1>2. ASSUME NEW c \in Customers, Growth!Experience(c) PROVE GrowthInv'
  BY <1>1, <1>2, WalletUntouched DEF Growth!Experience
<1>3. ASSUME NEW e \in Events, Growth!Cooldown(DeviceOf[e]) PROVE GrowthInv'
  BY <1>1, <1>3, WalletUntouched DEF Growth!Cooldown
<1>4. ASSUME Growth!NextDay PROVE GrowthInv'
  BY <1>1, <1>4, WalletUntouched DEF Growth!NextDay
<1>5. ASSUME NEW r \in Refills,
             Growth!CreateWalletRefill(r) \/ Growth!SaveRefill(r) \/ Growth!Captured(r) \/ Growth!HasNoWalletRefill(r)
      PROVE  GrowthInv'
  BY <1>1, <1>5, WalletUntouched
     DEF Growth!CreateWalletRefill, Growth!SaveRefill, Growth!Captured, Growth!HasNoWalletRefill, Growth!growth
<1>6. ASSUME UNCHANGED Growth!vars PROVE GrowthInv'
  BY <1>1, <1>6, WalletUntouched DEF Growth!vars
<1> QED BY <1>2, <1>3, <1>4, <1>5, <1>6, ApplyKeeps, BeginKeeps, LockKeeps, ActivateKeeps, ReadKeeps, RewardKeeps,
           RollbackKeeps, FinalizeKeeps DEF Growth!Next

\* However referrals, rewards and refills run across each other, the balance
\* of every account is the sum of its ledger entries and no transactions wait
\* for each other in a circle; for every set of customers, events, refills and
\* transactions.
THEOREM GrowthKept == Growth!Spec => []GrowthIsSound
<1>1. GrowthInv /\ [Growth!Next]_(Growth!vars) => GrowthInv'
  BY GrowthNext
<1> QED BY <1>1, GrowthInit, GrowthImplies, PTL DEF Growth!Spec

----------------------------------------------------------------------------
(* Carts (internal/commerce).  A call that has read the lines has read     *)
(* those of the revision it named, if the cart is still at that revision:  *)
(* revisions only grow.                                                    *)

CartRequest == Baskets!ChangeRequests \cup Baskets!PriceRequests
CartRow == [revision : Nat, items : [Variants -> Quantities \cup {0}]]
CartCall == [asks : CartRequest, seen : CartRow, step : {"ROW", "READ", "RESOLVED"}]

CartTypes ==
  /\ cartCart \in CartRow
  /\ cartCall \in [CartCalls -> CartCall \cup {Baskets!NoCall}]
SeenAsNamed(k) ==
  /\ k.seen.revision = k.asks.expected /\ k.asks.expected <= cartCart.revision
  /\ k.step # "ROW" /\ cartCart.revision = k.asks.expected => k.seen.items = cartCart.items

CartInv == CartTypes /\ \A c \in CartCalls : cartCall[c] \in CartCall => SeenAsNamed(cartCall[c])

LEMMA CartShapes ==
  /\ Baskets!emptyCart \in CartRow
  /\ Baskets!NoCall \notin CartCall /\ Baskets!NoCall.step = "IDLE"
  /\ \A r \in CartRequest : r.expected \in 0..MaxCartRevision /\ r.kind \in {"CHANGE", "PRICE"}
  /\ \A r \in CartRequest : r.kind = "CHANGE" => r \in Baskets!ChangeRequests
  /\ \A k \in CartCall : k.step # "IDLE" /\ k.seen \in CartRow /\ k.asks \in CartRequest
<1>1. Baskets!emptyCart \in CartRow
  BY DEF Baskets!emptyCart, CartRow
<1>2. Baskets!NoCall.step = "IDLE" /\ \A k \in CartCall : k.step # "IDLE" /\ k.seen \in CartRow /\ k.asks \in CartRequest
  BY DEF Baskets!NoCall, CartCall
<1>3. \A r \in Baskets!ChangeRequests : r.expected \in 0..MaxCartRevision /\ r.kind = "CHANGE"
  BY DEF Baskets!ChangeRequests
<1>4. \A r \in Baskets!PriceRequests : r.expected \in 0..MaxCartRevision /\ r.kind = "PRICE"
  BY DEF Baskets!PriceRequests, Baskets!NoRequest
<1> QED BY <1>1, <1>2, <1>3, <1>4 DEF CartRequest

LEMMA CartInit == Baskets!Init => CartInv /\ Baskets!MemoryInit
BY CartShapes DEF Baskets!Init, CartInv, CartTypes, Baskets!MemoryInit

\* A call ends, or takes a step and has seen what it says: the others are as they were.
LEMMA CartCallStep ==
  ASSUME CartInv, NEW c \in CartCalls, NEW k \in CartCall \cup {Baskets!NoCall},
         cartCart' = cartCart, cartCall' = [cartCall EXCEPT ![c] = k],
         k \in CartCall => SeenAsNamed(k)
  PROVE  CartInv'
<1>1. CartTypes'
  BY DEF CartInv, CartTypes
<1>2. \A d \in CartCalls : cartCall'[d] = IF d = c THEN k ELSE cartCall[d]
  BY DEF CartInv, CartTypes
<1> QED BY <1>1, <1>2 DEF CartInv, SeenAsNamed

\* What a call wants written, if the cart is still at the revision it named, is the
\* change of the cart in memory.
LEMMA CartWanted ==
  ASSUME CartInv, NEW c \in CartCalls, cartCall[c].step = "RESOLVED",
         cartCart.revision = cartCall[c].asks.expected
  PROVE  /\ cartCall[c].seen = cartCart /\ cartCall[c].asks \in CartRequest
         /\ cartCall[c].asks.kind = "CHANGE" =>
              /\ cartCall[c].asks.variant \in Variants /\ cartCall[c].asks.quantity \in Quantities
              /\ Baskets!Wanted(c) = [cartCart.items EXCEPT ![cartCall[c].asks.variant] = cartCall[c].asks.quantity]
<1>1. cartCall[c] \in CartCall /\ cartCart \in CartRow
  BY CartShapes DEF CartInv, CartTypes
<1>2. cartCall[c].seen.revision = cartCart.revision /\ cartCall[c].seen.items = cartCart.items
  BY <1>1 DEF CartInv, SeenAsNamed
<1>3. cartCall[c].seen = cartCart
  BY <1>1, <1>2 DEF CartCall, CartRow
<1>4. cartCall[c].asks.kind = "CHANGE" => cartCall[c].asks \in Baskets!ChangeRequests
  BY <1>1, CartShapes
<1> QED BY <1>1, <1>2, <1>3, <1>4, CartShapes DEF Baskets!Wanted, Baskets!ChangeRequests

LEMMA CartReads ==
  ASSUME CartInv, NEW c \in CartCalls,
         \/ \E r \in CartRequest : Baskets!Asked(c, r)
         \/ Baskets!ReadLines(c) \/ Baskets!resolveLines(c) \/ Baskets!CallDies(c)
  PROVE  CartInv' /\ UNCHANGED <<cartCart, cartPriced>>
<1>1. cartCart \in CartRow /\ cartCall[c] \in CartCall \cup {Baskets!NoCall} /\ cartCart.revision \in Nat
      /\ cartCart.items \in [Variants -> Quantities \cup {0}]
  BY DEF CartInv, CartTypes, CartRow
<1>2. ASSUME NEW r \in CartRequest, Baskets!Asked(c, r)
      PROVE  CartInv' /\ UNCHANGED <<cartCart, cartPriced>>
  <2> DEFINE k == [asks |-> r, step |-> "ROW", seen |-> [Baskets!emptyCart EXCEPT !.revision = cartCart.revision]]
  <2>1. k.seen \in CartRow /\ k.seen.revision = cartCart.revision
    BY <1>1, CartShapes DEF CartRow
  <2>2. k \in CartCall /\ k.step = "ROW" /\ k.asks = r
    BY <2>1 DEF CartCall
  <2>3. r.expected = cartCart.revision /\ cartCall' = [cartCall EXCEPT ![c] = k] /\ UNCHANGED <<cartCart, cartPriced>>
    BY <1>2 DEF Baskets!Asked
  <2>4. SeenAsNamed(k)
    BY <1>1, <2>1, <2>2, <2>3 DEF SeenAsNamed
  <2> QED BY <2>2, <2>3, <2>4, CartCallStep
<1>3. ASSUME Baskets!ReadLines(c)
      PROVE  CartInv' /\ UNCHANGED <<cartCart, cartPriced>>
  <2> DEFINE k == [cartCall[c] EXCEPT !.seen.items = cartCart.items, !.step = "READ"]
  <2>1. cartCall[c] \in CartCall /\ SeenAsNamed(cartCall[c])
    BY <1>1, <1>3, CartShapes DEF Baskets!ReadLines, CartInv
  <2>2. /\ k \in CartCall /\ k.asks = cartCall[c].asks
        /\ k.seen.revision = cartCall[c].seen.revision /\ k.seen.items = cartCart.items
    BY <1>1, <2>1 DEF CartCall, CartRow
  <2>3. cartCall' = [cartCall EXCEPT ![c] = k] /\ UNCHANGED <<cartCart, cartPriced>>
    BY <1>3 DEF Baskets!ReadLines
  <2>4. SeenAsNamed(k)
    BY <2>1, <2>2 DEF SeenAsNamed
  <2> QED BY <2>2, <2>3, <2>4, CartCallStep
<1>4. ASSUME Baskets!resolveLines(c)
      PROVE  CartInv' /\ UNCHANGED <<cartCart, cartPriced>>
  <2> DEFINE k == [cartCall[c] EXCEPT !.step = "RESOLVED"]
  <2>1. cartCall[c] \in CartCall /\ SeenAsNamed(cartCall[c]) /\ cartCall[c].step = "READ"
    BY <1>1, <1>4, CartShapes DEF Baskets!resolveLines, CartInv
  <2>2. k \in CartCall /\ k.asks = cartCall[c].asks /\ k.seen = cartCall[c].seen
    BY <2>1 DEF CartCall
  <2>3. /\ cartCall' = [cartCall EXCEPT ![c] = k] \/ cartCall' = [cartCall EXCEPT ![c] = Baskets!NoCall]
        /\ UNCHANGED <<cartCart, cartPriced>>
    BY <1>4 DEF Baskets!resolveLines, Baskets!Advance, Baskets!Finish
  <2>4. SeenAsNamed(k)
    BY <2>1, <2>2 DEF SeenAsNamed
  <2> QED BY <2>2, <2>3, <2>4, CartCallStep, CartShapes
<1>5. ASSUME Baskets!CallDies(c)
      PROVE  CartInv' /\ UNCHANGED <<cartCart, cartPriced>>
  BY <1>5, CartCallStep, CartShapes DEF Baskets!CallDies, Baskets!Finish
<1> QED BY <1>2, <1>3, <1>4, <1>5

LEMMA CartWrites ==
  ASSUME CartInv, NEW c \in CartCalls, Baskets!Change(c)
  PROVE  CartInv' /\ (Baskets!MemoryNext \/ UNCHANGED <<cartCart, cartPriced>>)
<1>1. cartCart \in CartRow /\ cartCart.revision \in Nat /\ cartCart.items \in [Variants -> Quantities \cup {0}]
      /\ cartCall \in [CartCalls -> CartCall \cup {Baskets!NoCall}]
  BY DEF CartInv, CartTypes, CartRow
<1> DEFINE asks == cartCall[c].asks
<1>2. /\ cartCall[c].step = "RESOLVED" /\ asks.kind = "CHANGE" /\ UNCHANGED cartPriced
      /\ cartCall' = [cartCall EXCEPT ![c] = Baskets!NoCall]
      /\ \/ UNCHANGED cartCart
         \/ /\ cartCart.revision = asks.expected /\ asks.expected < MaxCartRevision
            /\ cartCart' = [revision |-> asks.expected + 1, items |-> Baskets!Wanted(c)]
  BY DEF Baskets!Change, Baskets!Finish
<1>3. CASE UNCHANGED cartCart
  BY <1>2, <1>3, CartCallStep, CartShapes
<1>4. CASE /\ cartCart.revision = asks.expected /\ asks.expected < MaxCartRevision
           /\ cartCart' = [revision |-> asks.expected + 1, items |-> Baskets!Wanted(c)]
  <2>1. /\ asks \in CartRequest /\ asks.variant \in Variants /\ asks.quantity \in Quantities
        /\ Baskets!Wanted(c) = [cartCart.items EXCEPT ![asks.variant] = asks.quantity]
    BY <1>2, <1>4, CartWanted
  <2>2. asks.expected \in 0..MaxCartRevision
    BY <2>1, CartShapes
  <2>3. Baskets!MemoryChange(asks.expected, asks.variant, asks.quantity)
    BY <1>2, <1>4, <2>1 DEF Baskets!MemoryChange
  <2>4. Baskets!MemoryNext
    BY <2>1, <2>2, <2>3 DEF Baskets!MemoryNext
  <2>5. cartCart' \in CartRow /\ cartCart'.revision = cartCart.revision + 1
    BY <1>1, <1>4, <2>1 DEF CartRow
  <2>6. cartCall' \in [CartCalls -> CartCall \cup {Baskets!NoCall}]
    BY <1>1, <1>2
  <2>7. ASSUME NEW d \in CartCalls, cartCall'[d] \in CartCall
        PROVE  SeenAsNamed(cartCall[d])' /\ cartCall'[d] = cartCall[d]
    <3>1. cartCall'[d] = cartCall[d] /\ cartCall[d] \in CartCall
      BY <1>1, <1>2, <2>7, CartShapes
    <3>2. SeenAsNamed(cartCall[d]) /\ cartCall[d].asks.expected \in Nat
      BY <3>1, CartShapes, CartAssumption DEF CartInv
    <3> QED BY <1>1, <2>5, <3>1, <3>2 DEF SeenAsNamed
  <2> QED BY <2>4, <2>5, <2>6, <2>7 DEF CartInv, CartTypes
<1> QED BY <1>2, <1>3, <1>4

LEMMA CartPrices ==
  ASSUME CartInv, NEW c \in CartCalls, Baskets!Price(c)
  PROVE  CartInv' /\ (Baskets!MemoryNext \/ UNCHANGED <<cartCart, cartPriced>>)
<1>1. CartInv'
  BY CartCallStep, CartShapes DEF Baskets!Price, Baskets!Finish
<1>2. CASE cartCart.revision = cartCall[c].asks.expected
  <2>1. cartCall[c].seen = cartCart /\ cartCall[c].asks \in CartRequest
    BY <1>2, CartWanted DEF Baskets!Price
  <2>2. cartCart.revision \in 0..MaxCartRevision
    BY <1>2, <2>1, CartShapes
  <2>3. Baskets!MemoryPrice(cartCart.revision)
    BY <1>2, <2>1 DEF Baskets!Price, Baskets!MemoryPrice
  <2> QED BY <1>1, <2>2, <2>3 DEF Baskets!MemoryNext
<1>3. CASE cartCart.revision # cartCall[c].asks.expected
  BY <1>1, <1>3 DEF Baskets!Price
<1> QED BY <1>2, <1>3

LEMMA CartNext ==
  CartInv /\ [Baskets!Next]_(Baskets!vars) => CartInv' /\ [Baskets!MemoryNext]_<<cartCart, cartPriced>>
<1> SUFFICES ASSUME CartInv, [Baskets!Next]_(Baskets!vars)
             PROVE  CartInv' /\ (Baskets!MemoryNext \/ UNCHANGED <<cartCart, cartPriced>>)
  OBVIOUS
<1>1. ASSUME UNCHANGED <<cartCart, cartCall>>
      PROVE  CartInv'
  BY <1>1 DEF CartInv, CartTypes, SeenAsNamed
<1>2. ASSUME \/ \E v \in Variants : Baskets!Offer(v)
             \/ \E k \in CartKeys : Baskets!ReplayExpires(k)
             \/ UNCHANGED Baskets!vars
      PROVE  CartInv' /\ UNCHANGED <<cartCart, cartPriced>>
  BY <1>1, <1>2 DEF Baskets!Offer, Baskets!ReplayExpires, Baskets!vars
<1> QED BY <1>2, CartReads, CartWrites, CartPrices DEF Baskets!Next, CartRequest

\* internal/commerce: although a call may read the row of one revision and the lines
\* of the next, the Postgres cart (Change, Price) is the cart in memory: its initial
\* state is one of that cart, and every step a step of it or none.
THEOREM CartRefines == Baskets!Spec => CartImplementsMemory
BY CartInit, CartNext, PTL DEF Baskets!Spec, CartImplementsMemory, Baskets!CartImplementsMemory

----------------------------------------------------------------------------
(* Quotes (internal/checkout).  Every answer for a key is its quote, and   *)
(* there is none before the quote is stored.                               *)

QuoteRead(k) == k = Quoting!NoCall \/ (k.stage = "SAVE" /\ k.key \in QuoteKeys /\ k.id \in QuotedIds)
QuoteInv ==
  /\ quoteQuote = [q \in QuoteKeys |-> quoteQuote[q]] /\ quoteShown = [q \in QuoteKeys |-> quoteShown[q]]
  /\ quotePlaced = [q \in QuoteKeys |-> quotePlaced[q]]
  /\ quoteCall = [c \in QuoteCalls |-> quoteCall[c]]
  /\ \A c \in QuoteCalls : QuoteRead(quoteCall[c])
  /\ \A q \in QuoteKeys : /\ quotePlaced[q] \in {Quoting!NoQuote, quoteQuote[q]}
                          /\ \A s \in quoteShown[q] : s = quoteQuote[q] /\ s # Quoting!NoQuote

LEMMA QuoteImplies == QuoteInv => Quoting!PlacedAsShown
BY DEF QuoteInv, Quoting!PlacedAsShown

LEMMA QuoteInit == Quoting!Init => QuoteInv
BY DEF Quoting!Init, QuoteInv, QuoteRead

LEMMA QuoteLoadKeeps ==
  ASSUME QuoteInv, NEW c \in QuoteCalls, NEW q \in QuoteKeys, NEW i \in QuotedIds, Quoting!LoadQuote(c, q, i)
  PROVE  QuoteInv'
<1>1. CASE quoteQuote[q] # Quoting!NoQuote
  <2>1. UNCHANGED <<quoteQuote, quoteCall, quotePlaced>> /\ quoteShown' = [quoteShown EXCEPT ![q] = @ \cup {quoteQuote[q]}]
    BY <1>1 DEF Quoting!LoadQuote
  <2>2. quoteShown' = [p \in QuoteKeys |-> quoteShown'[p]]
    BY <2>1 DEF QuoteInv
  <2>3. \A p \in QuoteKeys : quoteShown'[p] = IF p = q THEN quoteShown[q] \cup {quoteQuote[q]} ELSE quoteShown[p]
    BY <2>1 DEF QuoteInv
  <2> QED BY <1>1, <2>1, <2>2, <2>3 DEF QuoteInv
<1>2. CASE quoteQuote[q] = Quoting!NoQuote
  <2> DEFINE k == [stage |-> "SAVE", key |-> q, id |-> i, content |-> quoteAddress[i].content]
  <2>1. UNCHANGED <<quoteQuote, quoteShown, quotePlaced>> /\ quoteCall' = [quoteCall EXCEPT ![c] = k]
    BY <1>2 DEF Quoting!LoadQuote
  <2>2. QuoteRead(k)
    BY DEF QuoteRead
  <2>3. quoteCall' = [d \in QuoteCalls |-> quoteCall'[d]] /\ \A d \in QuoteCalls : quoteCall'[d] = IF d = c THEN k ELSE quoteCall[d]
    BY <2>1 DEF QuoteInv
  <2> QED BY <2>1, <2>2, <2>3 DEF QuoteInv
<1> QED BY <1>1, <1>2

LEMMA QuoteSaveKeeps ==
  ASSUME QuoteInv, NEW c \in QuoteCalls, Quoting!SaveQuote(c)
  PROVE  QuoteInv'
<1> DEFINE q == quoteCall[c].key
           kept == IF quoteQuote[q] = Quoting!NoQuote THEN Quoting!Snapshot(c) ELSE quoteQuote[q]
<1>1. q \in QuoteKeys /\ quoteCall[c].id \in QuotedIds
  BY DEF QuoteInv, QuoteRead, Quoting!SaveQuote, Quoting!NoCall
<1>2. kept # Quoting!NoQuote
  <2>1. Quoting!Snapshot(c).id # 0 /\ Quoting!NoQuote.id = 0
    BY <1>1, AddressAssumption DEF Quoting!Snapshot, Quoting!NoQuote, Quoting!None
  <2> QED BY <2>1
<1>3. /\ quoteQuote' = [quoteQuote EXCEPT ![q] = kept] /\ UNCHANGED quotePlaced
      /\ quoteShown' = [quoteShown EXCEPT ![q] = IF kept.id = quoteCall[c].id THEN @ \cup {kept} ELSE @]
      /\ quoteCall' = [quoteCall EXCEPT ![c] = Quoting!NoCall]
  BY DEF Quoting!SaveQuote
<1>4. /\ quoteCall' = [d \in QuoteCalls |-> quoteCall'[d]]
      /\ \A d \in QuoteCalls : quoteCall'[d] = IF d = c THEN Quoting!NoCall ELSE quoteCall[d]
  BY <1>3 DEF QuoteInv
<1>5. /\ quoteQuote' = [p \in QuoteKeys |-> quoteQuote'[p]] /\ quoteShown' = [p \in QuoteKeys |-> quoteShown'[p]]
      /\ quoteQuote'[q] = kept /\ quoteShown'[q] \subseteq quoteShown[q] \cup {kept}
      /\ \A p \in QuoteKeys : p # q => quoteQuote'[p] = quoteQuote[p] /\ quoteShown'[p] = quoteShown[p]
  BY <1>1, <1>3 DEF QuoteInv
<1>6. \A s \in quoteShown[q] : s = kept
  BY <1>1 DEF QuoteInv
<1>7. quotePlaced[q] \in {Quoting!NoQuote, kept}
  BY <1>1 DEF QuoteInv
<1>8. \A d \in QuoteCalls : QuoteRead(quoteCall'[d])
  BY <1>4 DEF QuoteInv, QuoteRead
<1>9. ASSUME NEW p \in QuoteKeys
      PROVE  /\ quotePlaced'[p] \in {Quoting!NoQuote, quoteQuote'[p]}
             /\ \A s \in quoteShown'[p] : s = quoteQuote'[p] /\ s # Quoting!NoQuote
  <2> HIDE DEF kept, q
  <2> QED BY <1>2, <1>3, <1>5, <1>6, <1>7 DEF QuoteInv
<1>10. quotePlaced' = [p \in QuoteKeys |-> quotePlaced'[p]]
  BY <1>3 DEF QuoteInv
<1> QED BY <1>4, <1>5, <1>8, <1>9, <1>10 DEF QuoteInv

LEMMA QuoteNext == QuoteInv /\ [Quoting!Next]_(Quoting!vars) => QuoteInv'
<1> SUFFICES ASSUME QuoteInv, [Quoting!Next]_(Quoting!vars) PROVE QuoteInv'
  OBVIOUS
<1>1. ASSUME UNCHANGED <<quoteQuote, quoteCall, quoteShown, quotePlaced>> PROVE QuoteInv'
  BY <1>1 DEF QuoteInv
<1>2. ASSUME NEW t \in QuoteCommands, NEW i \in QuotedIds, NEW content \in Contents, NEW default \in BOOLEAN,
             Quoting!BeginCreate(t, i, content, default) \/ \E op \in {"UPDATE", "DELETE"} : Quoting!BeginEdit(t, op, i, content, default)
      PROVE  QuoteInv'
  BY <1>1, <1>2 DEF Quoting!BeginCreate, Quoting!BeginEdit, Quoting!book
<1>3. ASSUME NEW t \in QuoteCommands,
             Quoting!FindAddress(t) \/ Quoting!LockRow(t) \/ Quoting!CommitAddress(t) \/ Quoting!Rollback(t)
      PROVE  QuoteInv'
  BY <1>1, <1>3 DEF Quoting!FindAddress, Quoting!LockRow, Quoting!CommitAddress, Quoting!Rollback, Quoting!book
<1>4. ASSUME NEW c \in QuoteCalls, Quoting!CallDies(c) PROVE QuoteInv'
  <2>1. /\ UNCHANGED <<quoteQuote, quoteShown, quotePlaced>> /\ quoteCall' = [d \in QuoteCalls |-> quoteCall'[d]]
        /\ \A d \in QuoteCalls : quoteCall'[d] = IF d = c THEN Quoting!NoCall ELSE quoteCall[d]
    BY <1>4 DEF QuoteInv, Quoting!CallDies
  <2> QED BY <2>1 DEF QuoteInv, QuoteRead
<1>5. ASSUME NEW q \in QuoteKeys, Quoting!Place(q) PROVE QuoteInv'
  <2>1. /\ UNCHANGED <<quoteQuote, quoteCall, quoteShown>> /\ quotePlaced' = [p \in QuoteKeys |-> quotePlaced'[p]]
        /\ \A p \in QuoteKeys : quotePlaced'[p] = IF p = q THEN quoteQuote[q] ELSE quotePlaced[p]
    BY <1>5 DEF QuoteInv, Quoting!Place
  <2> QED BY <2>1 DEF QuoteInv
<1>6. CASE UNCHANGED Quoting!vars
  BY <1>1, <1>6 DEF Quoting!vars
<1> QED BY <1>2, <1>3, <1>4, <1>5, <1>6, QuoteLoadKeeps, QuoteSaveKeeps DEF Quoting!Next

\* internal/checkout: an order goes where every answer for its quote said it would
\* (quote and place of PostgresStore).
THEOREM QuotesKept == Quoting!Spec => []Quoting!PlacedAsShown
BY QuoteInit, QuoteNext, QuoteImplies, PTL DEF Quoting!Spec

----------------------------------------------------------------------------
(* Address commands.  A command that edits an address has seen it, at the  *)
(* revision it is at or an earlier one; once it has the row it has seen it *)
(* as it is, and nobody else has the row; a new address is of one command. *)

AddressRow == [state : {"NONE", "ACTIVE", "DELETED"}, content : Contents \cup {"none"}, default : BOOLEAN, revision : Nat]
Editing(k) == k.op \in {"UPDATE", "DELETE"} /\ k.id \in AddressIds /\ k.stage \in {"FIND", "LOCK"}
Creating(k) == k.op = "CREATE" /\ k.id \in AddressIds /\ k.stage = "LOCK"
Fields(k) == {"op", "id", "content", "default", "view", "plan", "held", "stage", "promote"} \subseteq DOMAIN k

BookTypes ==
  /\ bookAddress \in [AddressIds -> AddressRow]
  /\ bookTx = [t \in AddressCommands |-> bookTx[t]]
  /\ \A t \in AddressCommands : /\ Fields(bookTx[t])
                                /\ bookTx[t].content \in Contents \cup {"none"} /\ bookTx[t].default \in BOOLEAN
                                /\ bookTx[t].view \in AddressRow
                                /\ bookTx[t] = Addresses!NoTx \/ Editing(bookTx[t]) \/ Creating(bookTx[t])
Seen(k) ==
  Editing(k) => /\ bookAddress[k.id].state # "NONE"
                /\ k.view.revision <= bookAddress[k.id].revision
                /\ k.view.revision = bookAddress[k.id].revision => k.view.content = bookAddress[k.id].content
                /\ k.stage = "LOCK" => k.view.revision = bookAddress[k.id].revision /\ k.id \in k.held
Fresh(k) == Creating(k) => bookAddress[k.id].state = "NONE"
HeldApart(k, l) == k.held \cap l.held = {} /\ (Creating(k) /\ Creating(l) => k.id # l.id)

BookInv ==
  /\ BookTypes
  /\ \A t \in AddressCommands : Seen(bookTx[t]) /\ Fresh(bookTx[t])
  /\ \A t, u \in AddressCommands : t # u => HeldApart(bookTx[t], bookTx[u])

LEMMA NoCommand ==
  /\ Addresses!NoTx.op = "NONE" /\ Addresses!NoTx.held = {} /\ Addresses!NoTx.stage = "NONE" /\ Fields(Addresses!NoTx)
  /\ Addresses!NoTx.content \in Contents \cup {"none"} /\ Addresses!NoTx.default \in BOOLEAN /\ Addresses!NoTx.view \in AddressRow
  /\ Addresses!NoTx.promote = 0 /\ Addresses!Missing \in AddressRow
  /\ ~Editing(Addresses!NoTx) /\ ~Creating(Addresses!NoTx)
BY DEF Addresses!NoTx, Addresses!Missing, Addresses!None, AddressRow, Fields, Editing, Creating

LEMMA BookInit == Addresses!Init => BookInv
BY NoCommand DEF Addresses!Init, BookInv, BookTypes, Seen, Fresh, HeldApart

\* A command that takes a step, while the addresses stay as they are.
CommandOK(k) ==
  /\ Fields(k) /\ k.content \in Contents \cup {"none"} /\ k.default \in BOOLEAN /\ k.view \in AddressRow
  /\ k = Addresses!NoTx \/ Editing(k) \/ Creating(k)

LEMMA CommandStep ==
  ASSUME BookInv, NEW t \in AddressCommands, NEW k, bookAddress' = bookAddress,
         bookTx' = [bookTx EXCEPT ![t] = k], CommandOK(k), Seen(k), Fresh(k),
         \A u \in AddressCommands \ {t} : HeldApart(k, bookTx[u])
  PROVE  BookInv'
<1>1. /\ bookTx' = [u \in AddressCommands |-> bookTx'[u]]
      /\ \A u \in AddressCommands : bookTx'[u] = IF u = t THEN k ELSE bookTx[u]
  BY DEF BookInv, BookTypes
<1>2. BookTypes'
  BY <1>1 DEF BookInv, BookTypes, CommandOK
<1>3. \A u \in AddressCommands : Seen(bookTx[u])' /\ Fresh(bookTx[u])'
  BY <1>1 DEF BookInv, Seen, Fresh
<1>4. \A u, v \in AddressCommands : u # v => HeldApart(bookTx'[u], bookTx'[v])
  <2>1. \A m, n : HeldApart(m, n) => HeldApart(n, m)
    BY DEF HeldApart
  <2> QED BY <1>1, <2>1 DEF BookInv
<1> QED BY <1>2, <1>3, <1>4 DEF BookInv

LEMMA CommandEnds ==
  ASSUME BookInv, NEW t \in AddressCommands, bookAddress' = bookAddress,
         bookTx' = [bookTx EXCEPT ![t] = Addresses!NoTx]
  PROVE  BookInv'
<1>1. CommandOK(Addresses!NoTx) /\ Seen(Addresses!NoTx) /\ Fresh(Addresses!NoTx)
      /\ \A l : HeldApart(Addresses!NoTx, l)
  BY NoCommand DEF CommandOK, Seen, Fresh, HeldApart
<1> QED BY <1>1, CommandStep

LEMMA CommandBegins ==
  ASSUME BookInv, NEW t \in AddressCommands, NEW i \in AddressIds, NEW content \in Contents, NEW default \in BOOLEAN,
         \/ Addresses!BeginCreate(t, i, content, default)
         \/ \E op \in {"UPDATE", "DELETE"} : Addresses!BeginEdit(t, op, i, content, default)
  PROVE  BookInv'
<1>1. CASE Addresses!BeginCreate(t, i, content, default)
  <2> DEFINE k == [Addresses!NoTx EXCEPT
              !.op = "CREATE", !.id = i, !.content = content,
              !.default = default \/ Addresses!Active = {},
              !.plan = IF default THEN Addresses!InOrder(Addresses!Active) ELSE <<>>, !.stage = "LOCK"]
  <2>1. /\ bookAddress' = bookAddress /\ bookTx' = [bookTx EXCEPT ![t] = k] /\ bookAddress[i].state = "NONE"
        /\ \A u \in AddressCommands : bookTx[u].op = "CREATE" => bookTx[u].id # i
    BY <1>1 DEF Addresses!BeginCreate
  <2>2. /\ k.op = "CREATE" /\ k.id = i /\ k.content = content /\ k.default \in BOOLEAN /\ k.stage = "LOCK" /\ k.held = {}
        /\ k.view = Addresses!Missing /\ Fields(k)
    BY NoCommand DEF Addresses!NoTx, Fields
  <2> HIDE DEF k
  <2>3. CommandOK(k) /\ Seen(k) /\ Fresh(k)
    BY <2>1, <2>2, NoCommand DEF CommandOK, Creating, Editing, Seen, Fresh
  <2>4. \A u \in AddressCommands : HeldApart(k, bookTx[u])
    BY <2>1, <2>2 DEF HeldApart, Creating
  <2> QED BY <2>1, <2>3, <2>4, CommandStep
<1>2. ASSUME NEW op \in {"UPDATE", "DELETE"}, Addresses!BeginEdit(t, op, i, content, default)
      PROVE  BookInv'
  <2> DEFINE k == [Addresses!NoTx EXCEPT
              !.op = op, !.id = i, !.content = content, !.default = default,
              !.view = bookAddress[i], !.plan = <<i>>, !.stage = "FIND"]
  <2>1. bookAddress' = bookAddress /\ bookTx' = [bookTx EXCEPT ![t] = k] /\ bookAddress[i].state = "ACTIVE"
    BY <1>2 DEF Addresses!BeginEdit, Addresses!Active
  <2>2. /\ k.op = op /\ k.id = i /\ k.content = content /\ k.default = default /\ k.stage = "FIND" /\ k.held = {}
        /\ k.view = bookAddress[i] /\ Fields(k)
    BY NoCommand DEF Addresses!NoTx, Fields
  <2>3. bookAddress[i] \in AddressRow /\ bookAddress[i].revision \in Nat
    BY DEF BookInv, BookTypes, AddressRow
  <2> HIDE DEF k
  <2>4. CommandOK(k) /\ Seen(k) /\ Fresh(k)
    BY <2>1, <2>2, <2>3 DEF CommandOK, Creating, Editing, Seen, Fresh
  <2>5. \A u \in AddressCommands : HeldApart(k, bookTx[u])
    BY <2>2 DEF HeldApart, Creating
  <2> QED BY <2>1, <2>4, <2>5, CommandStep
<1> QED BY <1>1, <1>2

LEMMA CommandFinds ==
  ASSUME BookInv, NEW t \in AddressCommands, Addresses!FindAddress(t)
  PROVE  BookInv'
<1> DEFINE x == bookTx[t]
           next == Addresses!Following(t, x.id)
           promoted == IF x.op = "DELETE" /\ next # <<>> THEN Addresses!Head(next) ELSE Addresses!None
           k == [x EXCEPT !.stage = "LOCK", !.held = {x.id}, !.plan = next, !.promote = promoted]
<1>1. CommandOK(x) /\ Seen(x) /\ Fresh(x) /\ x.stage = "FIND" /\ Addresses!Free(t, x.id) /\ bookAddress' = bookAddress
  BY DEF BookInv, BookTypes, CommandOK, Addresses!FindAddress
<1>2. CASE ~Addresses!FoundAsSeen(t, x.id)
  BY <1>1, <1>2, CommandEnds DEF Addresses!FindAddress
<1>3. CASE Addresses!FoundAsSeen(t, x.id)
  <2>1. bookTx' = [bookTx EXCEPT ![t] = k]
    BY <1>3 DEF Addresses!FindAddress
  <2>2. /\ k.op = x.op /\ k.id = x.id /\ k.content = x.content /\ k.default = x.default /\ k.stage = "LOCK" /\ k.held = {x.id}
        /\ k.view = x.view /\ Fields(k)
    BY <1>1 DEF CommandOK, Fields
  <2>3. Editing(x) /\ x.view.revision = bookAddress[x.id].revision
    BY <1>1, <1>3, NoCommand DEF CommandOK, Creating, Addresses!FoundAsSeen
  <2> HIDE DEF k
  <2>4. CommandOK(k) /\ Seen(k) /\ Fresh(k)
    BY <1>1, <2>2, <2>3 DEF CommandOK, Creating, Editing, Seen, Fresh
  <2>5. \A u \in AddressCommands \ {t} : HeldApart(k, bookTx[u])
    BY <1>1, <2>2, <2>3 DEF HeldApart, Creating, Editing, Addresses!Free
  <2> QED BY <1>1, <2>1, <2>4, <2>5, CommandStep
<1> QED BY <1>2, <1>3

LEMMA CommandLocks ==
  ASSUME BookInv, NEW t \in AddressCommands, Addresses!LockRow(t)
  PROVE  BookInv'
<1> DEFINE x == bookTx[t]
           row == Addresses!Head(x.plan)
           k == [x EXCEPT !.plan = Addresses!Tail(x.plan), !.held = x.held \cup {row}]
<1>1. CommandOK(x) /\ Seen(x) /\ Fresh(x) /\ x.stage = "LOCK" /\ Addresses!Free(t, row) /\ bookAddress' = bookAddress
  BY DEF BookInv, BookTypes, CommandOK, Addresses!LockRow
<1>2. bookTx' = [bookTx EXCEPT ![t] = k]
  BY DEF Addresses!LockRow
<1>3. /\ k.op = x.op /\ k.id = x.id /\ k.content = x.content /\ k.default = x.default /\ k.stage = "LOCK"
      /\ k.held = x.held \cup {row} /\ k.view = x.view /\ Fields(k)
  BY <1>1 DEF CommandOK, Fields
<1>4. Editing(x) \/ Creating(x)
  BY <1>1, NoCommand DEF CommandOK
<1> HIDE DEF k, row
<1>5. CommandOK(k) /\ Seen(k) /\ Fresh(k)
  BY <1>1, <1>3, <1>4 DEF CommandOK, Creating, Editing, Seen, Fresh
<1>6. \A u \in AddressCommands \ {t} : HeldApart(k, bookTx[u])
  <2>1. \A u \in AddressCommands \ {t} : HeldApart(x, bookTx[u]) /\ row \notin bookTx[u].held
    BY <1>1 DEF BookInv, Addresses!Free
  <2> QED BY <1>1, <1>3, <2>1 DEF HeldApart, Creating
<1> QED BY <1>1, <1>2, <1>5, <1>6, CommandStep

\* What a command writes: a new revision of its own address, and of the others only
\* which of them is the default.
LEMMA WritesOwn ==
  ASSUME BookInv, NEW t \in AddressCommands, bookTx[t].stage = "LOCK", NEW i \in AddressIds
  PROVE  /\ Addresses!Written(t, i) \in AddressRow
         /\ i = bookTx[t].id => /\ Addresses!Written(t, i).revision = bookAddress[i].revision + 1
                                /\ Addresses!Written(t, i).state # "NONE"
         /\ i # bookTx[t].id => /\ Addresses!Written(t, i).state = bookAddress[i].state
                                /\ Addresses!Written(t, i).content = bookAddress[i].content
                                /\ Addresses!Written(t, i).revision = bookAddress[i].revision
<1>1. bookAddress[i] \in AddressRow /\ bookTx[t].content \in Contents \cup {"none"} /\ bookTx[t].default \in BOOLEAN
  BY DEF BookInv, BookTypes
<1>2. CASE i = bookTx[t].id /\ bookTx[t].op = "DELETE"
  <2>1. Addresses!Written(t, i) = [bookAddress[i] EXCEPT !.state = "DELETED", !.default = FALSE, !.revision = @ + 1]
    BY <1>2 DEF Addresses!Written
  <2>2. bookAddress[i].revision \in Nat /\ bookAddress[i] = [state |-> bookAddress[i].state, content |-> bookAddress[i].content,
                                                            default |-> bookAddress[i].default, revision |-> bookAddress[i].revision]
    BY <1>1 DEF AddressRow
  <2>3. Addresses!Written(t, i) = [state |-> "DELETED", content |-> bookAddress[i].content, default |-> FALSE,
                                   revision |-> bookAddress[i].revision + 1]
    BY <2>1, <2>2
  <2> QED BY <1>1, <1>2, <2>2, <2>3 DEF AddressRow
<1>3. CASE i = bookTx[t].id /\ bookTx[t].op # "DELETE"
  <2>1. Addresses!Written(t, i) = [state |-> "ACTIVE", content |-> bookTx[t].content, default |-> bookTx[t].default,
                                   revision |-> bookAddress[i].revision + 1]
    BY <1>3 DEF Addresses!Written
  <2> QED BY <1>1, <1>3, <2>1 DEF AddressRow
<1>4. CASE i # bookTx[t].id
  <2>1. Addresses!Written(t, i) \in {[bookAddress[i] EXCEPT !.default = FALSE], [bookAddress[i] EXCEPT !.default = TRUE], bookAddress[i]}
    <3>1. CASE i \in Addresses!Cleared(t) /\ i # bookTx[t].promote
      BY <1>4, <3>1 DEF Addresses!Written
    <3>2. CASE i \notin Addresses!Cleared(t) /\ i = bookTx[t].promote
      BY <1>4, <3>2 DEF Addresses!Written
    <3>3. CASE i \notin Addresses!Cleared(t) /\ i # bookTx[t].promote
      BY <1>4, <3>3 DEF Addresses!Written
    <3>4. CASE i \in Addresses!Cleared(t) /\ i = bookTx[t].promote
      BY <1>4, <3>4 DEF Addresses!Written
    <3> QED BY <3>1, <3>2, <3>3, <3>4
  <2> QED BY <1>1, <1>4, <2>1 DEF AddressRow
<1> QED BY <1>2, <1>3, <1>4

LEMMA CommandCommits ==
  ASSUME BookInv, NEW t \in AddressCommands, Addresses!CommitAddress(t)
  PROVE  BookInv'
<1> DEFINE x == bookTx[t]
<1>1. /\ CommandOK(x) /\ Seen(x) /\ Fresh(x) /\ x.stage = "LOCK" /\ (Editing(x) \/ Creating(x))
      /\ bookAddress' = [i \in AddressIds |-> Addresses!Written(t, i)] /\ bookTx' = [bookTx EXCEPT ![t] = Addresses!NoTx]
  BY NoCommand DEF BookInv, BookTypes, CommandOK, Addresses!CommitAddress
<1>2. /\ bookAddress' \in [AddressIds -> AddressRow]
      /\ \A i \in AddressIds :
           /\ i = x.id => bookAddress'[i].revision = bookAddress[i].revision + 1
           /\ i # x.id => /\ bookAddress'[i].state = bookAddress[i].state /\ bookAddress'[i].content = bookAddress[i].content
                          /\ bookAddress'[i].revision = bookAddress[i].revision
  <2>1. \A i \in AddressIds : bookAddress'[i] = Addresses!Written(t, i)
    BY <1>1
  <2>2. \A i \in AddressIds : Addresses!Written(t, i) \in AddressRow
    BY <1>1, WritesOwn
  <2>3. bookAddress' \in [AddressIds -> AddressRow]
    BY <1>1, <2>2
  <2> QED BY <1>1, <2>1, <2>3, WritesOwn
<1>3. /\ bookTx' = [u \in AddressCommands |-> bookTx'[u]]
      /\ \A u \in AddressCommands : bookTx'[u] = IF u = t THEN Addresses!NoTx ELSE bookTx[u]
  BY <1>1 DEF BookInv, BookTypes
<1>4. BookTypes'
  BY <1>2, <1>3, NoCommand DEF BookInv, BookTypes
<1>5. \A u, v \in AddressCommands : u # v => HeldApart(bookTx'[u], bookTx'[v])
  BY <1>3, NoCommand DEF BookInv, HeldApart
<1>6. ASSUME NEW u \in AddressCommands, u # t
      PROVE  Seen(bookTx[u])' /\ Fresh(bookTx[u])'
  <2> DEFINE k == bookTx[u]
  <2>1. bookTx'[u] = k /\ Seen(k) /\ Fresh(k) /\ HeldApart(x, k) /\ k.view \in AddressRow /\ k.view.revision \in Nat
    BY <1>3, <1>6 DEF BookInv, BookTypes, AddressRow
  <2>2. \A i \in AddressIds : bookAddress[i].revision \in Nat
    BY DEF BookInv, BookTypes, AddressRow
  <2>3. ASSUME Creating(k) PROVE k.id # x.id
    BY <1>1, <2>1, <2>3 DEF HeldApart, Seen, Fresh, Editing
  <2>4. ASSUME Editing(k), k.id = x.id PROVE Editing(x) /\ k.stage = "FIND"
    BY <1>1, <2>1, <2>4 DEF HeldApart, Seen, Fresh, Editing
  <2>5. Fresh(k)'
    BY <1>2, <2>1, <2>3 DEF Fresh, Creating
  <2>6. CASE ~Editing(k)
    BY <2>1, <2>5, <2>6 DEF Seen
  <2>7. CASE Editing(k) /\ k.id # x.id
    BY <1>2, <2>1, <2>5, <2>7 DEF Seen, Editing
  <2>8. CASE Editing(k) /\ k.id = x.id
    <3>1. k.id \in AddressIds /\ k.stage = "FIND" /\ Editing(x) /\ x.id \in AddressIds
      BY <2>4, <2>8 DEF Editing
    <3>2. k.view.revision < bookAddress'[k.id].revision
      BY <1>2, <2>1, <2>2, <2>8, <3>1 DEF Seen
    <3>3. bookAddress'[k.id].state # "NONE"
      BY <1>1, <2>8, <3>1, WritesOwn
    <3>4. Seen(k)'
      BY <1>2, <2>1, <2>2, <3>1, <3>2, <3>3 DEF Seen, Editing
    <3> QED BY <2>5, <3>4
  <2> QED BY <2>6, <2>7, <2>8
<1>7. Seen(bookTx[t])' /\ Fresh(bookTx[t])'
  BY <1>3, NoCommand DEF Seen, Fresh
<1> QED BY <1>4, <1>5, <1>6, <1>7 DEF BookInv

LEMMA BookNext ==
  BookInv /\ [Addresses!Next]_(Addresses!vars) => BookInv'
<1> SUFFICES ASSUME BookInv, [Addresses!Next]_(Addresses!vars) PROVE BookInv'
  OBVIOUS
<1>1. ASSUME UNCHANGED <<bookAddress, bookTx>> PROVE BookInv'
  BY <1>1 DEF BookInv, BookTypes, Seen, Fresh
<1>2. ASSUME \/ \E c \in AddressCalls : \/ \E q \in AddressQuotes, i \in AddressIds : Addresses!LoadQuote(c, q, i)
                                        \/ Addresses!SaveQuote(c) \/ Addresses!CallDies(c)
             \/ \E q \in AddressQuotes : Addresses!Place(q)
             \/ UNCHANGED Addresses!vars
      PROVE  BookInv'
  BY <1>1, <1>2 DEF Addresses!LoadQuote, Addresses!SaveQuote, Addresses!CallDies, Addresses!Place, Addresses!vars
<1>3. ASSUME NEW t \in AddressCommands, Addresses!Rollback(t) PROVE BookInv'
  BY <1>3, CommandEnds DEF Addresses!Rollback
<1> QED BY <1>2, <1>3, CommandBegins, CommandFinds, CommandLocks, CommandCommits DEF Addresses!Next

\* What a command that commits an edit has seen.
LEMMA BookImplies ==
  BookInv => \A t \in AddressCommands :
    Addresses!CommitAddress(t) /\ bookTx[t].op # "CREATE" => bookAddress[bookTx[t].id].content = bookTx[t].view.content
<1> SUFFICES ASSUME BookInv, NEW t \in AddressCommands, Addresses!CommitAddress(t), bookTx[t].op # "CREATE"
             PROVE  bookAddress[bookTx[t].id].content = bookTx[t].view.content
  OBVIOUS
<1>1. bookTx[t].stage = "LOCK" /\ Seen(bookTx[t]) /\ Editing(bookTx[t])
  BY NoCommand DEF BookInv, BookTypes, Creating, Addresses!CommitAddress
<1> QED BY <1>1 DEF Seen

\* internal/checkout: an edit or a deletion of an address replaces what its sender
\* was shown (loadCheckoutAddress under the lock, then the revision).
THEOREM EditsKept == Addresses!Spec => Addresses!EditsWhatWasSeen
<1> DEFINE A == \A t \in AddressCommands :
                  Addresses!CommitAddress(t) /\ bookTx[t].op # "CREATE" => bookAddress[bookTx[t].id].content = bookTx[t].view.content
<1>1. BookInv /\ [Addresses!Next]_(Addresses!vars) => [A]_(Addresses!vars)
  BY BookImplies
<1>2. Addresses!EditsWhatWasSeen <=> [][A]_(Addresses!vars)
  BY DEF Addresses!EditsWhatWasSeen
<1> HIDE DEF A
<1> QED BY <1>1, <1>2, BookInit, BookNext, PTL DEF Addresses!Spec

\* internal/checkout: orders go where their quotes were shown to go, and edits of
\* addresses replace what was shown.
THEOREM AddressesKept == Quoting!Spec /\ Addresses!Spec => AddressedAsShown
BY QuotesKept, EditsKept, PTL DEF AddressedAsShown
=============================================================================
