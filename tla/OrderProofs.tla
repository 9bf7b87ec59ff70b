---------------------------- MODULE OrderProofs ----------------------------
(***************************************************************************)
(* Proofs about Order, for any number of clients and workers and any       *)
(* bounds: orders and return cases agree, delivery is proven, every        *)
(* revision has one notification, no update is lost and the outbox never   *)
(* reopens or invents a delivery.                                          *)
(*                                                                         *)
(* IInv is the inductive invariant.  Besides the properties themselves it  *)
(* says what clients and workers may know: a client never saw a revision   *)
(* that is yet to come, and what it saw of the current one is the current  *)
(* status; a worker with a positive answer holds an intent that was sent;  *)
(* and nothing delivered is leased.                                        *)
(*                                                                         *)
(* Then about Booking, for any customers, slots, holds and capacity: how   *)
(* a slot can be overbooked, and what a cancelled booking keeps.  Its      *)
(* invariant is BookingInv; Places counts the places of a slot, those of   *)
(* holds that a Create is using up included.                               *)
(***************************************************************************)
EXTENDS Order, FiniteSetTheorems, TLAPS

CONSTANTS Customers, Slots, Capacity, Holds, Owner, Method, MaxReschedules
VARIABLES hold, due, booking, phase, pay, charge, points, proc, raced, behind

Bookings == INSTANCE Booking

Returns == [status : ReturnStatuses \cup {"NONE"}, amount : 0..MaxAmount, reference : BOOLEAN]
Orders == [revision : 0..MaxRevision, status : Statuses \cup {"NONE"}, proof : BOOLEAN,
           return : Returns, rated : BOOLEAN]
Intents == [status : Statuses \cup {"NONE"}, leased : BOOLEAN, waiting : BOOLEAN, delivered : BOOLEAN]

\* What DeliveredIsProven and ReturnCaseAgrees ask of an order.
Sound(value) ==
  /\ value.status \in Kept \cup ReturnStatuses => value.proof
  /\ value.return # NoReturn <=> value.status \in ReturnStatuses
  /\ value.return.reference <=> value.status = "REFUNDED"
  /\ value.status \in ReturnStatuses =>
       value.return.status = IF value.status = "RETURNED" THEN "RETURN_APPROVED" ELSE value.status

SeenInOrder ==
  \A c \in Clients :
    /\ seen[c].revision <= order.revision
    /\ seen[c].revision = order.revision => seen[c].status = order.status

WorkersKnow ==
  \A w \in Workers :
    /\ sending[w].answer # "NONE" => sending[w].intent # 0
    /\ sending[w].intent # 0 => intents[sending[w].intent] # NoIntent
    /\ sending[w].answer = "SENT" => sending[w].intent \in sent

IntentHasStatus == \A r \in Revisions : intents[r] # NoIntent => intents[r].status # "NONE"

DeliveredUnleased == \A r \in Revisions : intents[r].delivered => ~intents[r].leased

IInv ==
  /\ TypeOK
  /\ Sound(order)
  /\ order = NoOrder \/ (order.revision > 0 /\ order.status # "NONE")
  /\ IntentPerRevision
  /\ IntentHasStatus
  /\ SeenInOrder
  /\ DeliveredMeansSent
  /\ WorkersKnow
  /\ DeliveredUnleased

\* Storing a sound order with the next revision, and its notification, keeps
\* everything the invariant says.
LEMMA StoreSafe ==
  ASSUME IInv, NEW value \in Orders, Sound(value), value.status # "NONE",
         value.revision = order.revision + 1, value.revision \in Revisions,
         order' = value, queueNotification(value), UNCHANGED <<seen, sending, sent>>
  PROVE  IInv'
<1> USE OrderAssumption
<1>1. /\ order \in Orders
      /\ intents \in [Revisions -> Intents]
      /\ order.revision \in Nat
  BY DEF IInv, TypeOK, Orders, Returns, Intents
<1>2. [NoIntent EXCEPT !.status = value.status] \in Intents
  BY DEF NoIntent, Intents, Orders
<1>3. /\ \A r \in Revisions : r # value.revision => intents'[r] = intents[r]
      /\ intents'[value.revision] = [NoIntent EXCEPT !.status = value.status]
      /\ intents' \in [Revisions -> Intents]
  BY <1>1, <1>2 DEF queueNotification
<1>4. TypeOK'
  BY <1>3 DEF IInv, TypeOK, Orders, Returns, Intents
<1>5. Sound(order)' /\ order'.revision > 0 /\ order'.status # "NONE"
  BY <1>1 DEF Sound
<1>6. IntentPerRevision'
  <2>1. intents'[value.revision].status = value.status
    BY <1>3 DEF NoIntent
  <2>2. intents'[value.revision] # NoIntent
    BY <2>1 DEF NoIntent
  <2>3. \A r \in Revisions : r # value.revision => (r <= value.revision <=> r <= order.revision)
    BY <1>1 DEF Revisions
  <2>4. \A r \in Revisions : intents[r] # NoIntent <=> r <= order.revision
    BY DEF IInv, IntentPerRevision
  <2>5. \A r \in Revisions : intents'[r] # NoIntent <=> r <= value.revision
    <3> SUFFICES ASSUME NEW r \in Revisions
                 PROVE  intents'[r] # NoIntent <=> r <= value.revision
      OBVIOUS
    <3>1. CASE r = value.revision
      BY <2>2, <3>1, <1>1 DEF Revisions
    <3>2. CASE r # value.revision
      BY <1>3, <2>3, <2>4, <3>2
    <3> QED BY <3>1, <3>2
  <2> QED BY <2>1, <2>5 DEF IntentPerRevision
<1>7. SeenInOrder'
  BY <1>1 DEF IInv, SeenInOrder, TypeOK
<1>8. DeliveredMeansSent' /\ DeliveredUnleased' /\ IntentHasStatus'
  BY <1>3 DEF IInv, DeliveredMeansSent, DeliveredUnleased, IntentHasStatus, NoIntent
<1>9. WorkersKnow'
  <2>1. \A r \in Revisions : intents[r] # NoIntent => intents'[r] # NoIntent
    BY <1>1, <1>6 DEF IInv, IntentPerRevision, Revisions
  <2>2. \A w \in Workers : sending[w].intent # 0 => sending[w].intent \in Revisions
    BY DEF IInv, TypeOK, Revisions
  <2> QED BY <2>1, <2>2 DEF IInv, WorkersKnow
<1> QED BY <1>4, <1>5, <1>6, <1>7, <1>8, <1>9 DEF IInv

\* What mutate stores keeps the invariant if it is sound.
LEMMA MutateSafe ==
  ASSUME IInv, NEW c \in Clients, NEW value \in Orders, Sound(value), value.status # "NONE",
         mutate(c, value)
  PROVE  IInv'
<1> USE OrderAssumption
<1> DEFINE next == [value EXCEPT !.revision = order.revision + 1]
<1>1. order.revision \in 0..MaxRevision /\ order.revision < MaxRevision
  BY DEF IInv, TypeOK, mutate
<1>2. next \in Orders /\ next.revision = order.revision + 1 /\ next.revision \in Revisions
  BY <1>1 DEF Orders, Revisions
<1>3. /\ next.status = value.status /\ next.return = value.return
      /\ next.proof = value.proof
  BY DEF Orders
<1>4. Sound(next) /\ next.status # "NONE"
  BY <1>3 DEF Sound
<1>5. order' = next /\ queueNotification(next) /\ UNCHANGED <<seen, sending, sent>>
  BY DEF mutate
<1> HIDE DEF next
<1> QED BY <1>2, <1>4, <1>5, StoreSafe

\* Creating the order keeps the invariant.
LEMMA CreateSafe ==
  ASSUME IInv, NEW paymentCaptured \in BOOLEAN, Create(paymentCaptured)
  PROVE  IInv'
<1> USE OrderAssumption
<1> DEFINE status == IF paymentCaptured \/ COD THEN "PLACED" ELSE "PENDING_PAYMENT"
           value == [NoOrder EXCEPT !.revision = 1, !.status = status]
<1>1. status \in {"PLACED", "PENDING_PAYMENT"} /\ status \in Statuses
  BY DEF Statuses, Undelivered
<1>2. NoReturn \in Returns /\ 1 \in 0..MaxRevision /\ 1 \in Revisions
  BY DEF NoReturn, Returns, Revisions
<1>3. /\ value \in Orders /\ value.revision = 1
      /\ value.status = status /\ value.return = NoReturn
  BY <1>1, <1>2 DEF NoOrder, Orders
<1>4. /\ order.revision = 0
      /\ order' = value /\ queueNotification(value) /\ UNCHANGED <<seen, sending, sent>>
  BY DEF Create, NoOrder
<1> HIDE DEF value
<1>5. Sound(value) /\ value.status # "NONE"
  BY <1>1, <1>3 DEF Sound, Kept, ReturnStatuses, NoReturn
<1> QED BY <1>2, <1>3, <1>4, <1>5, StoreSafe

\* Every command of a client keeps the invariant.
LEMMA CommandSafe ==
  ASSUME IInv, NEW c \in Clients, Command(c)
  PROVE  IInv'
<1> USE OrderAssumption
<1>1. order \in Orders /\ Sound(order)
  BY DEF IInv, TypeOK, Orders, Returns
<1>2. CASE Get(c)
  <2>1. TypeOK'
    BY <1>2 DEF IInv, TypeOK, Get
  <2>2. SeenInOrder'
    BY <1>2 DEF IInv, TypeOK, Get, SeenInOrder
  <2> QED BY <1>2, <2>1, <2>2
    DEF IInv, Get, Sound, IntentPerRevision, IntentHasStatus, DeliveredMeansSent, WorkersKnow, DeliveredUnleased
<1>3. ASSUME NEW target \in Statuses, NEW actor \in Actors, Transition(c, target, actor)
      PROVE  IInv'
  <2> DEFINE value == [order EXCEPT !.status = target]
  <2>1. /\ value \in Orders /\ value.status = target /\ value.proof = order.proof
        /\ value.return = order.return
    BY <1>1 DEF Orders
  <2>2. \/ target \notin Kept \cup ReturnStatuses /\ order.status \notin ReturnStatuses
        \/ target = "COMPLETED" /\ order.status = "DELIVERED_PENDING_CONFIRMATION"
        \/ target = "RETURNED" /\ order.status = "RETURN_APPROVED"
    BY <1>3 DEF Transition, canTransition, Kept, ReturnStatuses
  <2>3. Sound(value) /\ target # "NONE"
    BY <1>1, <2>1, <2>2 DEF Sound, Kept, ReturnStatuses, Statuses, Undelivered
  <2>4. mutate(c, value)
    BY <1>3 DEF Transition
  <2> HIDE DEF value
  <2> QED BY <2>1, <2>3, <2>4, MutateSafe
<1>4. CASE RecordPOD(c)
  <2> DEFINE value == [order EXCEPT !.status = "DELIVERED_PENDING_CONFIRMATION", !.proof = TRUE]
  <2>1. /\ value \in Orders /\ value.status = "DELIVERED_PENDING_CONFIRMATION" /\ value.proof
        /\ value.return = order.return
    BY <1>1 DEF Orders, Statuses, Kept
  <2>2. order.status = "OUT_FOR_DELIVERY" /\ mutate(c, value)
    BY <1>4 DEF RecordPOD
  <2>3. Sound(value)
    BY <1>1, <2>1, <2>2 DEF Sound, Kept, ReturnStatuses
  <2> HIDE DEF value
  <2> QED BY <2>1, <2>2, <2>3, MutateSafe
<1>5. ASSUME NEW amount \in 0..MaxAmount, RequestReturn(c, amount)
      PROVE  IInv'
  <2> DEFINE case == [status |-> "RETURN_REQUESTED", amount |-> amount, reference |-> FALSE]
             value == [order EXCEPT !.status = "RETURN_REQUESTED", !.return = case]
  <2>1. case \in Returns /\ case # NoReturn
    BY DEF Returns, ReturnStatuses, NoReturn
  <2>2. /\ value \in Orders /\ value.status = "RETURN_REQUESTED" /\ value.proof = order.proof
        /\ value.return = case
    BY <1>1, <2>1 DEF Orders, Statuses, ReturnStatuses
  <2>3. order.status \in Kept /\ mutate(c, value)
    BY <1>5 DEF RequestReturn
  <2>4. Sound(value)
    BY <1>1, <2>1, <2>2, <2>3 DEF Sound, Kept, ReturnStatuses
  <2> HIDE DEF value
  <2> QED BY <2>2, <2>3, <2>4, MutateSafe
<1>6. ASSUME NEW approved \in BOOLEAN, DecideReturn(c, approved)
      PROVE  IInv'
  <2> DEFINE target == IF approved THEN "RETURN_APPROVED" ELSE "RETURN_REJECTED"
             value == [order EXCEPT !.status = target, !.return.status = target]
  <2>1. target \in {"RETURN_APPROVED", "RETURN_REJECTED"}
    OBVIOUS
  <2>2. /\ value \in Orders /\ value.status = target /\ value.proof = order.proof
        /\ value.return.status = target /\ value.return.reference = order.return.reference
    BY <1>1, <2>1 DEF Orders, Returns, Statuses, ReturnStatuses
  <2>3. order.status = "RETURN_REQUESTED" /\ mutate(c, value)
    BY <1>6 DEF DecideReturn
  <2> HIDE DEF value, target
  <2>4. Sound(value)
    BY <1>1, <2>1, <2>2, <2>3 DEF Sound, Kept, ReturnStatuses, NoReturn
  <2> QED BY <2>1, <2>2, <2>3, <2>4, MutateSafe
<1>7. ASSUME NEW amount \in 0..MaxAmount, RecordRefund(c, amount)
      PROVE  IInv'
  <2> DEFINE value == [order EXCEPT !.status = "REFUNDED",
                         !.return.status = "REFUNDED", !.return.reference = TRUE]
  <2>1. /\ value \in Orders /\ value.status = "REFUNDED" /\ value.proof = order.proof
        /\ value.return.status = "REFUNDED" /\ value.return.reference
    BY <1>1 DEF Orders, Returns, Statuses, ReturnStatuses
  <2>2. order.status = "RETURNED" /\ mutate(c, value)
    BY <1>7 DEF RecordRefund
  <2> HIDE DEF value
  <2>3. Sound(value)
    BY <1>1, <2>1, <2>2 DEF Sound, Kept, ReturnStatuses, NoReturn
  <2> QED BY <2>1, <2>2, <2>3, MutateSafe
<1>8. CASE Rate(c)
  <2> DEFINE value == [order EXCEPT !.rated = TRUE]
  <2>1. /\ value \in Orders /\ value.status = order.status /\ value.proof = order.proof
        /\ value.return = order.return
    BY <1>1 DEF Orders
  <2>2. order.status = "COMPLETED" /\ mutate(c, value)
    BY <1>8 DEF Rate
  <2>3. Sound(value)
    BY <1>1, <2>1 DEF Sound
  <2> HIDE DEF value
  <2> QED BY <2>1, <2>2, <2>3, MutateSafe
<1> QED BY <1>2, <1>3, <1>4, <1>5, <1>6, <1>7, <1>8 DEF Command

\* The steps of the outbox leave the order and the clients alone.
OutboxStep ==
  \/ \E w \in Workers : ProcessNotifications(w)
  \/ \E r \in Revisions : LeaseEnds(r) \/ DelayEnds(r)

\* Writing the leased, waiting or delivered mark of an intent that exists keeps
\* what the invariant says of the intents.
LEMMA MarkSafe ==
  ASSUME IInv, NEW r \in Revisions, NEW value \in Intents,
         value.status = intents[r].status,
         intents[r] # NoIntent,
         value.delivered => r \in sent' /\ ~value.leased,
         sent \subseteq sent',
         intents' = [intents EXCEPT ![r] = value] \/ intents' = intents,
         UNCHANGED order
  PROVE  /\ intents' \in [Revisions -> Intents]
         /\ IntentPerRevision' /\ IntentHasStatus' /\ DeliveredMeansSent' /\ DeliveredUnleased'
<1>1. intents \in [Revisions -> Intents]
  BY DEF IInv, TypeOK, Intents
<1>2. CASE intents' = intents
  BY <1>1, <1>2 DEF IInv, IntentPerRevision, IntentHasStatus, DeliveredMeansSent, DeliveredUnleased
<1>3. CASE intents' = [intents EXCEPT ![r] = value]
  <2>1. \A i \in Revisions : intents'[i] = IF i = r THEN value ELSE intents[i]
    BY <1>1, <1>3
  <2>2. intents' \in [Revisions -> Intents]
    BY <1>1, <1>3
  <2>3. r <= order.revision /\ value.status # "NONE" /\ value # NoIntent
    BY DEF IInv, IntentPerRevision, IntentHasStatus, NoIntent
  <2>4. IntentPerRevision'
    BY <2>1, <2>3 DEF IInv, IntentPerRevision, TypeOK, Revisions
  <2>5. DeliveredMeansSent' /\ DeliveredUnleased' /\ IntentHasStatus'
    BY <2>1, <2>3 DEF IInv, DeliveredMeansSent, DeliveredUnleased, IntentHasStatus
  <2> QED BY <2>2, <2>4, <2>5
<1> QED BY <1>2, <1>3

\* A step that leaves order and clients alone keeps the invariant if it keeps
\* what it says of the outbox.
LEMMA FrameSafe ==
  ASSUME IInv, UNCHANGED <<order, seen>>,
         intents' \in [Revisions -> Intents],
         sending' \in [Workers -> [intent : 0..MaxRevision, answer : {"NONE", "SENT", "FAILED"}]],
         sent' \subseteq Revisions,
         IntentPerRevision', IntentHasStatus', DeliveredMeansSent', WorkersKnow',
         DeliveredUnleased'
  PROVE  IInv'
<1>1. TypeOK'
  BY DEF IInv, TypeOK, Intents
<1> QED BY <1>1 DEF IInv, Sound, SeenInOrder

\* Every step of a worker, and of the clock, keeps the invariant.
LEMMA OutboxSafe ==
  ASSUME IInv, OutboxStep
  PROVE  IInv'
<1> DEFINE Sendings == [intent : 0..MaxRevision, answer : {"NONE", "SENT", "FAILED"}]
<1>1. /\ intents \in [Revisions -> Intents] /\ sending \in [Workers -> Sendings]
      /\ sent \subseteq Revisions /\ Revisions \subseteq 0..MaxRevision
      /\ \A r \in 0..MaxRevision : r # 0 => r \in Revisions
      /\ Idle \in Sendings
  BY OrderAssumption DEF IInv, TypeOK, Intents, Revisions, Idle
<1>2. ASSUME UNCHANGED order, IntentPerRevision'
      PROVE  \A r \in Revisions : intents[r] # NoIntent => intents'[r] # NoIntent
  BY <1>2 DEF IInv, IntentPerRevision
<1>3. ASSUME NEW w \in Workers, NEW r \in Revisions, claimNotification(w, r)
      PROVE  IInv'
  <2> DEFINE value == [intents[r] EXCEPT !.leased = TRUE]
  <2>1. /\ value \in Intents /\ value.status = intents[r].status
        /\ value.delivered = intents[r].delivered
    BY <1>1 DEF Intents
  <2>2. /\ intents[r] # NoIntent /\ ~intents[r].delivered
        /\ intents' = [intents EXCEPT ![r] = value]
        /\ sending' = [sending EXCEPT ![w].intent = r]
        /\ UNCHANGED <<order, seen, sent>> /\ sending[w] = Idle
    BY <1>3 DEF claimNotification
  <2> HIDE DEF value
  <2>3. /\ intents' \in [Revisions -> Intents]
        /\ IntentPerRevision' /\ IntentHasStatus' /\ DeliveredMeansSent' /\ DeliveredUnleased'
    BY <2>1, <2>2, MarkSafe
  <2>4. sending' \in [Workers -> Sendings] /\ WorkersKnow'
    BY <1>1, <1>2, <2>2, <2>3 DEF IInv, WorkersKnow, Idle
  <2> QED BY <1>1, <2>2, <2>3, <2>4, FrameSafe
<1>4. ASSUME NEW w \in Workers, NEW answer \in {"SENT", "FAILED"}, Send(w, answer)
      PROVE  IInv'
  <2>1. /\ sending[w].intent # 0 /\ sending[w].intent \in Revisions
        /\ sending' = [sending EXCEPT ![w].answer = answer]
        /\ sent \subseteq sent' /\ sent' \subseteq Revisions
        /\ answer = "SENT" => sending[w].intent \in sent'
        /\ UNCHANGED <<order, seen, intents>>
    BY <1>1, <1>4 DEF Send
  <2>2. sending' \in [Workers -> Sendings] /\ WorkersKnow'
    BY <1>1, <2>1 DEF IInv, WorkersKnow
  <2>3. DeliveredMeansSent'
    BY <2>1 DEF IInv, DeliveredMeansSent
  <2>4. IntentPerRevision' /\ IntentHasStatus' /\ DeliveredUnleased'
    BY <2>1 DEF IInv, IntentPerRevision, IntentHasStatus, DeliveredUnleased
  <2> QED BY <1>1, <2>1, <2>2, <2>3, <2>4, FrameSafe
<1>5. ASSUME NEW w \in Workers,
             NEW value \in Intents, sending[w].answer # "NONE",
             value.status = intents[sending[w].intent].status, ~value.leased,
             value.delivered => intents[sending[w].intent].delivered \/ sending[w].answer = "SENT",
             IfUndelivered(sending[w].intent, value),
             sending' = [sending EXCEPT ![w] = Idle], UNCHANGED <<order, seen, sent>>
      PROVE  IInv'
  <2> DEFINE r == sending[w].intent
  <2>1. r \in Revisions /\ intents[r] # NoIntent
    BY <1>1, <1>5 DEF IInv, WorkersKnow
  <2>2. value.delivered => r \in sent
    BY <1>5, <2>1 DEF IInv, WorkersKnow, DeliveredMeansSent
  <2>3. intents' = [intents EXCEPT ![r] = value] \/ intents' = intents
    BY <1>5 DEF IfUndelivered
  <2>4. /\ intents' \in [Revisions -> Intents]
        /\ IntentPerRevision' /\ IntentHasStatus' /\ DeliveredMeansSent' /\ DeliveredUnleased'
    BY <1>5, <2>1, <2>2, <2>3, MarkSafe
  <2>5. sending' \in [Workers -> Sendings] /\ WorkersKnow'
    BY <1>1, <1>2, <1>5, <2>4 DEF IInv, WorkersKnow, Idle
  <2> QED BY <1>1, <1>5, <2>4, <2>5, FrameSafe
<1>6. ASSUME NEW w \in Workers, Release(w)
      PROVE  IInv'
  <2> DEFINE r == sending[w].intent
             value == [intents[r] EXCEPT !.leased = FALSE, !.waiting = TRUE]
  <2>1. r \in Revisions /\ intents[r] \in Intents
    BY <1>1, <1>6 DEF Release, IInv, WorkersKnow
  <2>2. /\ value \in Intents /\ value.status = intents[r].status /\ ~value.leased
        /\ value.delivered = intents[r].delivered
    <3> HIDE DEF r
    <3> QED BY <2>1 DEF Intents
  <2>3. /\ sending[w].answer # "NONE" /\ IfUndelivered(r, value)
        /\ sending' = [sending EXCEPT ![w] = Idle] /\ UNCHANGED <<order, seen, sent>>
    BY <1>6 DEF Release
  <2> HIDE DEF value
  <2> QED BY <1>5, <2>2, <2>3
<1>7. ASSUME NEW w \in Workers, Complete(w)
      PROVE  IInv'
  <2> DEFINE r == sending[w].intent
             value == [intents[r] EXCEPT !.leased = FALSE, !.delivered = TRUE]
  <2>1. r \in Revisions /\ intents[r] \in Intents
    BY <1>1, <1>7 DEF Complete, IInv, WorkersKnow
  <2>2. value \in Intents /\ value.status = intents[r].status /\ ~value.leased
    <3> HIDE DEF r
    <3> QED BY <2>1 DEF Intents
  <2>3. /\ sending[w].answer = "SENT" /\ IfUndelivered(r, value)
        /\ sending' = [sending EXCEPT ![w] = Idle] /\ UNCHANGED <<order, seen, sent>>
    BY <1>7 DEF Complete
  <2> HIDE DEF value
  <2> QED BY <1>5, <2>2, <2>3
<1>8. ASSUME NEW w \in Workers, Crash(w)
      PROVE  IInv'
  <2>1. sending' = [sending EXCEPT ![w] = Idle] /\ UNCHANGED <<order, seen, intents, sent>>
    BY <1>8 DEF Crash
  <2>2. sending' \in [Workers -> Sendings] /\ WorkersKnow'
    BY <1>1, <2>1 DEF IInv, WorkersKnow, Idle
  <2>3. /\ IntentPerRevision' /\ IntentHasStatus' /\ DeliveredMeansSent' /\ DeliveredUnleased'
    BY <2>1 DEF IInv, IntentPerRevision, IntentHasStatus, DeliveredMeansSent, DeliveredUnleased
  <2> QED BY <1>1, <2>1, <2>2, <2>3, FrameSafe
<1>9. ASSUME NEW r \in Revisions, LeaseEnds(r) \/ DelayEnds(r)
      PROVE  IInv'
  <2>1. PICK value \in Intents :
          /\ value.status = intents[r].status
          /\ value.delivered = intents[r].delivered /\ (value.leased => intents[r].leased)
          /\ intents' = [intents EXCEPT ![r] = value]
    <3>1. CASE LeaseEnds(r)
      <4>1. [intents[r] EXCEPT !.leased = FALSE] \in Intents
        BY <1>1 DEF Intents
      <4> QED BY <1>1, <3>1, <4>1 DEF LeaseEnds, Intents
    <3>2. CASE DelayEnds(r)
      <4>1. [intents[r] EXCEPT !.waiting = FALSE] \in Intents
        BY <1>1 DEF Intents
      <4> QED BY <1>1, <3>2, <4>1 DEF DelayEnds, Intents
    <3> QED BY <1>9, <3>1, <3>2
  <2>2. intents[r] # NoIntent /\ UNCHANGED <<order, seen, sending, sent>>
    BY <1>9 DEF LeaseEnds, DelayEnds, NoIntent
  <2>3. value.delivered => r \in sent /\ ~value.leased
    BY <2>1 DEF IInv, DeliveredMeansSent, DeliveredUnleased
  <2>4. /\ intents' \in [Revisions -> Intents]
        /\ IntentPerRevision' /\ IntentHasStatus' /\ DeliveredMeansSent' /\ DeliveredUnleased'
    BY <2>1, <2>2, <2>3, MarkSafe
  <2>5. WorkersKnow'
    BY <1>1, <1>2, <2>2, <2>4 DEF IInv, WorkersKnow
  <2> QED BY <1>1, <2>2, <2>4, <2>5, FrameSafe
<1> QED BY <1>3, <1>4, <1>6, <1>7, <1>8, <1>9 DEF OutboxStep, ProcessNotifications

\* IInv is an inductive invariant of Order.
THEOREM OrderInvariant == Spec => []IInv
<1>1. Init => IInv
  BY OrderAssumption
  DEF Init, IInv, TypeOK, Sound, NoOrder, NoReturn, NoIntent, Idle, Kept, ReturnStatuses,
      IntentPerRevision, IntentHasStatus, SeenInOrder, DeliveredMeansSent, WorkersKnow,
      DeliveredUnleased, Revisions
<1>2. IInv /\ [Next]_vars => IInv'
  <2> SUFFICES ASSUME IInv, [Next]_vars PROVE IInv'
    OBVIOUS
  <2>1. CASE UNCHANGED vars
    BY <2>1 DEF vars, IInv, TypeOK, Sound, IntentPerRevision, IntentHasStatus, SeenInOrder,
                DeliveredMeansSent, WorkersKnow, DeliveredUnleased
  <2>2. CASE Next
    BY <2>2, CreateSafe, CommandSafe, OutboxSafe DEF Next, OutboxStep
  <2> QED BY <2>1, <2>2
<1> QED BY <1>1, <1>2, PTL DEF Spec

\* Type correctness, and: delivery needs its proof, order and return case agree,
\* every revision has one notification, and only what was sent counts as
\* delivered, for any number of clients and workers.
THEOREM OrderSafe ==
  Spec => []TypeOK /\ []DeliveredIsProven /\ []ReturnCaseAgrees
            /\ []IntentPerRevision /\ []DeliveredMeansSent
<1>1. IInv => TypeOK /\ DeliveredIsProven /\ ReturnCaseAgrees /\ IntentPerRevision /\ DeliveredMeansSent
  BY DEF IInv, Sound, DeliveredIsProven, ReturnCaseAgrees
<1> QED BY <1>1, OrderInvariant, PTL

\* A command either reads, or stores an order by mutate.
LEMMA CommandStores ==
  ASSUME TypeOK, NEW c \in Clients, Command(c), ~Get(c)
  PROVE  \E value \in Orders : mutate(c, value)
<1> USE OrderAssumption
<1>1. order \in Orders /\ order.return \in Returns
  BY DEF TypeOK, Orders, Returns
<1>2. ASSUME NEW target \in Statuses, NEW actor \in Actors, Transition(c, target, actor)
      PROVE  \E value \in Orders : mutate(c, value)
  <2>1. [order EXCEPT !.status = target] \in Orders
    BY <1>1 DEF Orders
  <2> QED BY <1>2, <2>1 DEF Transition
<1>3. CASE RecordPOD(c)
  <2>1. [order EXCEPT !.status = "DELIVERED_PENDING_CONFIRMATION", !.proof = TRUE] \in Orders
    BY <1>1 DEF Orders, Statuses, Kept
  <2> QED BY <1>3, <2>1 DEF RecordPOD
<1>4. ASSUME NEW amount \in 0..MaxAmount, RequestReturn(c, amount)
      PROVE  \E value \in Orders : mutate(c, value)
  <2>1. [order EXCEPT !.status = "RETURN_REQUESTED",
           !.return = [status |-> "RETURN_REQUESTED", amount |-> amount, reference |-> FALSE]] \in Orders
    BY <1>1 DEF Orders, Returns, Statuses, ReturnStatuses
  <2> QED BY <1>4, <2>1 DEF RequestReturn
<1>5. ASSUME NEW approved \in BOOLEAN, DecideReturn(c, approved)
      PROVE  \E value \in Orders : mutate(c, value)
  <2> DEFINE target == IF approved THEN "RETURN_APPROVED" ELSE "RETURN_REJECTED"
  <2>1. [order EXCEPT !.status = target, !.return.status = target] \in Orders
    BY <1>1 DEF Orders, Returns, Statuses, ReturnStatuses
  <2> QED BY <1>5, <2>1 DEF DecideReturn
<1>6. ASSUME NEW amount \in 0..MaxAmount, RecordRefund(c, amount)
      PROVE  \E value \in Orders : mutate(c, value)
  <2>1. [order EXCEPT !.status = "REFUNDED",
           !.return.status = "REFUNDED", !.return.reference = TRUE] \in Orders
    BY <1>1 DEF Orders, Returns, Statuses, ReturnStatuses
  <2> QED BY <1>6, <2>1 DEF RecordRefund
<1>7. CASE Rate(c)
  <2>1. [order EXCEPT !.rated = TRUE] \in Orders
    BY <1>1 DEF Orders
  <2> QED BY <1>7, <2>1 DEF Rate
<1> QED BY <1>2, <1>3, <1>4, <1>5, <1>6, <1>7 DEF Command

\* Whoever changes an order saw it as it was, for any number of clients.
THEOREM NoLostUpdate == Spec => ActsOnWhatWasSeen
<1> DEFINE Seen == \E c \in Clients : seen[c] = [revision |-> order.revision, status |-> order.status]
<1>1. ASSUME IInv, NEW c \in Clients, NEW value \in Orders, mutate(c, value)
      PROVE  Seen
  <2>1. /\ seen[c] \in [revision : 0..MaxRevision, status : Statuses \cup {"NONE"}]
        /\ seen[c].revision = order.revision /\ seen[c].status = order.status
    BY <1>1 DEF IInv, TypeOK, SeenInOrder, mutate
  <2> QED BY <2>1
<1>2. ASSUME IInv, [Next]_vars, order' # order, order # NoOrder
      PROVE  Seen
  <2>1. PICK c \in Clients : Command(c)
    BY <1>2 DEF Next, vars, Create, ProcessNotifications, claimNotification, Send, Release,
                Complete, Crash, LeaseEnds, DelayEnds
  <2>2. ~Get(c)
    BY <1>2 DEF Get
  <2>3. \E value \in Orders : mutate(c, value)
    BY <1>2, <2>1, <2>2, CommandStores DEF IInv
  <2> QED BY <1>1, <1>2, <2>3
<1>3. IInv /\ [Next]_vars => [order' # order /\ order # NoOrder => Seen]_vars
  BY <1>2
<1> QED BY <1>3, OrderInvariant, PTL DEF Spec, ActsOnWhatWasSeen

\* What is delivered stays delivered and is not claimed again, for any number of
\* workers.
THEOREM OutboxFinal == Spec => DeliveredIsFinal
<1> DEFINE Final == \A r \in Revisions :
                      intents[r].delivered => intents'[r].delivered /\ ~intents'[r].leased
<1>1. ASSUME IInv, [Next]_vars
      PROVE  Final
  <2> SUFFICES ASSUME NEW r \in Revisions, intents[r].delivered
               PROVE  intents'[r].delivered /\ ~intents'[r].leased
    OBVIOUS
  <2>1. /\ intents \in [Revisions -> Intents] /\ intents[r] \in Intents
        /\ ~intents[r].leased /\ intents[r] # NoIntent
    BY <1>1 DEF IInv, TypeOK, Intents, DeliveredUnleased, NoIntent
  <2>2. CASE UNCHANGED intents
    BY <2>1, <2>2
  <2>3. ASSUME NEW value, value.revision = order.revision + 1, queueNotification(value)
        PROVE  intents'[r] = intents[r]
    <3>1. r <= order.revision
      BY <1>1, <2>1 DEF IInv, IntentPerRevision
    <3>2. r # value.revision
      BY <1>1, <2>3, <3>1 DEF IInv, TypeOK, Revisions
    <3> QED BY <2>1, <2>3, <3>2 DEF queueNotification
  <2>4. ASSUME NEW c \in Clients, NEW value \in Orders, mutate(c, value)
        PROVE  intents'[r] = intents[r]
    <3>1. [value EXCEPT !.revision = order.revision + 1].revision = order.revision + 1
      BY DEF Orders
    <3> QED BY <2>3, <2>4, <3>1 DEF mutate
  <2>5. CASE \E paymentCaptured \in BOOLEAN : Create(paymentCaptured)
    <3>1. order = NoOrder
      BY <2>5 DEF Create
    <3>2. \A i \in Revisions : intents[i] = NoIntent
      BY <1>1, <3>1 DEF IInv, IntentPerRevision, NoOrder, Revisions
    <3> QED BY <2>1, <3>2
  <2>6. CASE \E c \in Clients : Command(c)
    <3>1. PICK c \in Clients : Get(c) \/ \E value \in Orders : mutate(c, value)
      BY <1>1, <2>6, CommandStores DEF IInv
    <3> QED BY <2>1, <2>2, <2>4, <3>1 DEF Get
  <2>7. ASSUME NEW w \in Workers, ProcessNotifications(w)
        PROVE  intents'[r] = intents[r]
    BY <2>1, <2>7
    DEF ProcessNotifications, claimNotification, Send, Release, Complete, Crash, IfUndelivered
  <2>8. ASSUME NEW i \in Revisions, LeaseEnds(i) \/ DelayEnds(i)
        PROVE  intents'[r].delivered /\ ~intents'[r].leased
    BY <2>1, <2>8 DEF LeaseEnds, DelayEnds, Intents
  <2> QED BY <1>1, <2>1, <2>2, <2>5, <2>6, <2>7, <2>8 DEF Next, vars
<1>2. IInv /\ [Next]_vars => [Final]_vars
  BY <1>1
<1> QED BY <1>2, OrderInvariant, PTL DEF Spec, DeliveredIsFinal

-----------------------------------------------------------------------------
(***************************************************************************)
(* Booking: the places of a slot, and the money and points of a booking    *)
(* that was cancelled.                                                     *)
(***************************************************************************)
HoldTx == [op : {"hold", "insert"}, hold : Holds, slot : Slots, stale : SUBSET Holds]
CreateTx == [op : {"create"}, hold : Holds, step : {"redeem", "pay", "commit"}]
CancelTx == [op : {"cancel"}, of : Customers, step : {"reverse", "refund", "finalize", "void", "commit"}]
BookingTx(p) == {Bookings!Idle} \cup CancelTx \cup (IF p = "sweeper" THEN {} ELSE HoldTx \cup CreateTx)

BookingTypes ==
  /\ Bookings!RowsOK
  /\ proc = [p \in Bookings!Processes |-> proc[p]]
  /\ \A p \in Bookings!Processes : proc[p] \in BookingTx(p)

\* What Hold marks as expired has lapsed, and nobody makes a booking of it.
HoldOK(c, x) ==
  x \in HoldTx => Owner[x.hold] = c /\ \A h \in x.stale : h \in due /\ ~Bookings!Consuming(h)
CreateOK(c, x, b, m) ==
  x \in CreateTx =>
    /\ Owner[x.hold] = c /\ b = Bookings!NoBooking
    /\ x.step = "redeem" => Method[c] = "WALLET"
    /\ x.step = "commit" => m # "NONE"
CancelOK(x, b, n) ==
  x \in CancelTx =>
    /\ b.status \in {"PENDING_PAYMENT", "REQUESTED", "ACCEPTED"}
    /\ x.step = "reverse" => Method[x.of] = "WALLET"
    /\ x.step = "void" => Method[x.of] = "ONLINE"
    /\ x.step \in {"refund", "finalize", "commit"} => n # "TAKEN"
PaidOK(c, b, m, n) ==
  /\ b.status = "NONE" => b = Bookings!NoBooking /\ (Method[c] = "WALLET" => m \in {"NONE", "CAPTURED"})
  /\ b.status = "PENDING_PAYMENT" => Method[c] = "ONLINE"
  /\ Method[c] = "ONLINE" => n = "NONE"
  /\ b.status = "CANCELLED" => n # "TAKEN"

Paid ==
  /\ \A c \in Customers : CreateOK(c, proc[c], booking[c], pay[c]) /\ PaidOK(c, booking[c], pay[c], points[c])
  /\ \A p \in Bookings!Processes : proc[p] \in CancelTx =>
       /\ p \in {proc[p].of, "sweeper"}
       /\ CancelOK(proc[p], booking[proc[p].of], points[proc[p].of])
  /\ \A p, q \in Bookings!Processes : proc[p] \in CancelTx /\ proc[q] \in CancelTx /\ proc[p].of = proc[q].of => p = q

HoldsKept ==
  \A c \in Customers : HoldOK(c, proc[c]) /\ (proc[c] \in CreateTx => hold[proc[c].hold].status = "HELD")

Taken(s) == {h \in Holds : hold[h].slot = s /\ hold[h].status = "HELD" /\ (h \notin due \/ Bookings!Consuming(h))}
Places(s) == Cardinality(Taken(s)) + Cardinality(Bookings!Occupying(s))
Inserting(s) == {c \in Customers : proc[c] \in HoldTx /\ proc[c].op = "insert" /\ proc[c].slot = s}
PlacesCounted ==
  \A s \in Slots \ raced : Places(s) <= Capacity /\ (Inserting(s) # {} => Places(s) < Capacity)

BookingInv == BookingTypes /\ Paid /\ HoldsKept /\ PlacesCounted

----------------------------------------------------------------------------
\* The kinds of transactions, by what they are doing.
LEMMA TxKinds ==
  ASSUME NEW p, NEW x \in BookingTx(p)
  PROVE  /\ x.op \in {"hold", "insert"} <=> x \in HoldTx
         /\ x.op = "create" <=> x \in CreateTx
         /\ x.op = "cancel" <=> x \in CancelTx
         /\ p = "sweeper" => x \notin HoldTx /\ x \notin CreateTx
         /\ x \in HoldTx => x \notin CreateTx /\ x \notin CancelTx
         /\ x \in CreateTx => x \notin CancelTx
         /\ x.op = "idle" => x = Bookings!Idle
<1>1. \A y \in HoldTx : y.op \in {"hold", "insert"}
  BY DEF HoldTx
<1>2. \A y \in CreateTx : y.op = "create"
  BY DEF CreateTx
<1>3. \A y \in CancelTx : y.op = "cancel"
  BY DEF CancelTx
<1>4. Bookings!Idle.op = "idle"
  BY DEF Bookings!Idle
<1> QED BY <1>1, <1>2, <1>3, <1>4 DEF BookingTx

LEMMA BookingCardinality == \A S : Bookings!Cardinality(S) = Cardinality(S)
BY DEF Bookings!Cardinality, Cardinality, Bookings!IsFiniteSet, IsFiniteSet

LEMMA BookingFinite ==
  ASSUME Bookings!BookingParameters
  PROVE  /\ IsFiniteSet(Customers) /\ IsFiniteSet(Holds) /\ Capacity \in Nat /\ "NONE" \notin Slots /\ "sweeper" \notin Customers
         /\ Owner \in [Holds -> Customers] /\ Method \in [Customers -> {"ONLINE", "WALLET"}] /\ MaxReschedules \in Nat
         /\ \A S \in SUBSET Customers : IsFiniteSet(S) /\ Cardinality(S) \in Nat
         /\ \A S \in SUBSET Holds : IsFiniteSet(S) /\ Cardinality(S) \in Nat
<1>1. /\ IsFiniteSet(Customers) /\ IsFiniteSet(Holds) /\ Capacity \in Nat /\ "NONE" \notin Slots /\ "sweeper" \notin Customers
      /\ Owner \in [Holds -> Customers] /\ Method \in [Customers -> {"ONLINE", "WALLET"}] /\ MaxReschedules \in Nat
  BY DEF Bookings!BookingParameters, Bookings!IsFiniteSet, IsFiniteSet
<1> QED BY <1>1, FS_Subset, FS_CardinalityType

LEMMA BookingImplies ==
  ASSUME Bookings!BookingParameters, BookingInv
  PROVE  /\ Bookings!RowsOK /\ Bookings!OverbookedOnlyByRace
         /\ \A c \in Customers : booking[c].status = "CANCELLED" => points[c] # "TAKEN"
<1>1. \A c \in Customers : booking[c].status = "CANCELLED" => points[c] # "TAKEN"
  BY DEF BookingInv, Paid, PaidOK
<1>2. ASSUME NEW s \in Slots, s \notin raced
      PROVE  ~(Bookings!Reserved(s) > Capacity)
  <2>1. Bookings!Held(s) \subseteq Taken(s) /\ Taken(s) \in SUBSET Holds /\ Bookings!Occupying(s) \in SUBSET Customers
    BY DEF Bookings!Held, Taken, Bookings!Occupying
  <2>2. Cardinality(Bookings!Held(s)) <= Cardinality(Taken(s))
    BY <2>1, BookingFinite, FS_Subset
  <2>3. Bookings!Reserved(s) = Cardinality(Bookings!Held(s)) + Cardinality(Bookings!Occupying(s))
    BY BookingCardinality DEF Bookings!Reserved
  <2>4. Cardinality(Bookings!Held(s)) \in Nat /\ Cardinality(Taken(s)) \in Nat /\ Cardinality(Bookings!Occupying(s)) \in Nat
    <3>1. Bookings!Held(s) \in SUBSET Holds
      BY DEF Bookings!Held
    <3> QED BY <2>1, <3>1, BookingFinite
  <2>5. Places(s) <= Capacity /\ Capacity \in Nat
    BY <1>2, BookingFinite DEF BookingInv, PlacesCounted
  <2> QED BY <2>2, <2>3, <2>4, <2>5 DEF Places
<1> QED BY <1>1, <1>2 DEF BookingInv, BookingTypes, Bookings!OverbookedOnlyByRace

LEMMA BookingInit ==
  ASSUME Bookings!BookingParameters, Bookings!Init
  PROVE  BookingInv
<1>1. \A p \in Bookings!Processes : proc[p] = Bookings!Idle
  BY DEF Bookings!Init
<1>2. Bookings!Idle \notin HoldTx /\ Bookings!Idle \notin CreateTx /\ Bookings!Idle \notin CancelTx
  BY TxKinds DEF BookingTx, Bookings!Idle
<1>3. Bookings!NoBooking.status = "NONE" /\ Bookings!NoBooking.slot = "NONE"
  BY DEF Bookings!NoBooking
<1>4. BookingTypes
  <2>1. Bookings!RowsOK
    <3>1. Bookings!NoBooking \in [status : Bookings!Statuses \cup {"NONE"}, slot : Slots \cup {"NONE"},
                                  payment : Bookings!PayStatus,
                                  until : Holds \cup {"NONE"}, count : 0..MaxReschedules, otp : BOOLEAN]
      BY BookingFinite DEF Bookings!NoBooking, Bookings!PayStatus
    <3> QED BY <3>1 DEF Bookings!Init, Bookings!RowsOK, Bookings!NoHold, Bookings!PayStatus
  <2> QED BY <1>1, <2>1 DEF Bookings!Init, BookingTypes, BookingTx
<1>5. Paid
  BY <1>1, <1>2, <1>3 DEF Bookings!Init, Paid, PaidOK, CreateOK, CancelOK, Bookings!Processes
<1>6. HoldsKept
  BY <1>1, <1>2 DEF HoldsKept, HoldOK, Bookings!Processes
<1>7. PlacesCounted
  <2> SUFFICES ASSUME NEW s \in Slots PROVE Places(s) <= Capacity /\ Inserting(s) = {}
    BY DEF PlacesCounted
  <2>1. Taken(s) = {} /\ Bookings!Occupying(s) = {}
    BY <1>3, BookingFinite DEF Bookings!Init, Taken, Bookings!Occupying, Bookings!NoHold
  <2>2. Inserting(s) = {}
    BY <1>1, <1>2 DEF Inserting, Bookings!Processes
  <2> QED BY <2>1, <2>2, FS_EmptySet, BookingFinite DEF Places
<1> QED BY <1>4, <1>5, <1>6, <1>7 DEF BookingInv

----------------------------------------------------------------------------
\* No slot has more places taken than before.
LEMMA PlacesShrink ==
  ASSUME Bookings!BookingParameters, BookingInv, raced \subseteq raced',
         \A s \in Slots \ raced' : Taken(s)' \subseteq Taken(s) /\ Bookings!Occupying(s)' \subseteq Bookings!Occupying(s),
         \A s \in Slots \ raced' : Inserting(s)' \subseteq Inserting(s) \/ Places(s) < Capacity
  PROVE  PlacesCounted'
<1> SUFFICES ASSUME NEW s \in Slots \ raced'
             PROVE  Places(s)' <= Capacity /\ (Inserting(s)' # {} => Places(s)' < Capacity)
  BY DEF PlacesCounted
<1>1. Taken(s) \in SUBSET Holds /\ Bookings!Occupying(s) \in SUBSET Customers
  BY DEF Taken, Bookings!Occupying
<1>2. /\ Cardinality(Taken(s)) \in Nat /\ Cardinality(Taken(s)') \in Nat /\ Cardinality(Taken(s)') <= Cardinality(Taken(s))
      /\ Cardinality(Bookings!Occupying(s)) \in Nat /\ Cardinality(Bookings!Occupying(s)') \in Nat
      /\ Cardinality(Bookings!Occupying(s)') <= Cardinality(Bookings!Occupying(s))
  BY <1>1, BookingFinite, FS_Subset
<1>3. Places(s) <= Capacity /\ (Inserting(s) # {} => Places(s) < Capacity) /\ Capacity \in Nat
  BY BookingFinite DEF BookingInv, PlacesCounted
<1>4. Places(s)' = Cardinality(Taken(s)') + Cardinality(Bookings!Occupying(s)')
  BY DEF Places
<1>5. Inserting(s)' # {} => Places(s) < Capacity
  BY <1>3
<1> QED BY <1>2, <1>3, <1>4, <1>5 DEF Places

\* A process moves from one transaction, or step of it, to another.
LEMMA ProcMoves ==
  ASSUME BookingTypes, NEW p \in Bookings!Processes, NEW x \in BookingTx(p), proc' = [proc EXCEPT ![p] = x]
  PROVE  /\ \A q \in Bookings!Processes : proc'[q] = IF q = p THEN x ELSE proc[q]
         /\ proc' = [q \in Bookings!Processes |-> proc'[q]]
         /\ \A q \in Bookings!Processes : proc'[q] \in BookingTx(q)
         /\ DOMAIN proc' = Bookings!Processes
BY DEF BookingTypes

\* One customer's booking, payment and points change with one process.
LEMMA PaidStep ==
  ASSUME BookingTypes, Paid, NEW c \in Customers, NEW p \in Bookings!Processes, NEW x \in BookingTx(p),
         NEW b, NEW m, NEW n,
         proc' = [proc EXCEPT ![p] = x], booking' = [booking EXCEPT ![c] = b],
         pay' = [pay EXCEPT ![c] = m], points' = [points EXCEPT ![c] = n],
         x \in CreateTx => p = c /\ CreateOK(c, x, b, m),
         x \in CancelTx => x.of = c /\ p \in {c, "sweeper"} /\ CancelOK(x, b, n),
         \A q \in Bookings!Processes \ {p} :
           (q = c /\ proc[q] \in CreateTx) \/ (proc[q] \in CancelTx /\ proc[q].of = c) =>
             b = booking[c] /\ m = pay[c] /\ n = points[c] /\ x \notin CancelTx,
         PaidOK(c, b, m, n), "sweeper" \notin Customers
  PROVE  Paid'
<1>1. \A q \in Bookings!Processes : proc'[q] = IF q = p THEN x ELSE proc[q]
  BY ProcMoves
<1>2. \A d \in Customers : /\ booking'[d] = IF d = c THEN b ELSE booking[d]
                           /\ pay'[d] = IF d = c THEN m ELSE pay[d]
                           /\ points'[d] = IF d = c THEN n ELSE points[d]
  BY DEF BookingTypes, Bookings!RowsOK
<1>3. Customers \subseteq Bookings!Processes
  BY DEF Bookings!Processes
<1>4. ASSUME NEW d \in Customers
      PROVE  CreateOK(d, proc'[d], booking'[d], pay'[d]) /\ PaidOK(d, booking'[d], pay'[d], points'[d])
  <2>1. CreateOK(d, proc[d], booking[d], pay[d]) /\ PaidOK(d, booking[d], pay[d], points[d])
    BY DEF Paid
  <2>2. CASE d = c
    <3>1. CASE p = c
      BY <1>1, <1>2, <1>3, <2>2, <3>1 DEF CreateOK
    <3>2. CASE p # c
      BY <1>1, <1>2, <1>3, <2>1, <2>2, <3>2 DEF CreateOK
    <3> QED BY <3>1, <3>2
  <2>3. CASE d # c
    <3>1. CASE p = d
      BY <1>1, <1>2, <1>3, <2>1, <2>3, <3>1 DEF CreateOK
    <3>2. CASE p # d
      BY <1>1, <1>2, <1>3, <2>1, <2>3, <3>2
    <3> QED BY <3>1, <3>2
  <2> QED BY <2>2, <2>3
<1>5. ASSUME NEW q \in Bookings!Processes, proc'[q] \in CancelTx
      PROVE  /\ q \in {proc'[q].of, "sweeper"}
             /\ CancelOK(proc'[q], booking'[proc'[q].of], points'[proc'[q].of])
  <2>1. CASE q = p
    BY <1>1, <1>2, <1>5, <2>1
  <2>2. CASE q # p
    <3>1. proc'[q] = proc[q] /\ proc[q].of \in Customers
      BY <1>1, <1>5, <2>2 DEF CancelTx
    <3>2. CASE proc[q].of = c
      BY <1>2, <1>5, <2>2, <3>1, <3>2 DEF Paid
    <3>3. CASE proc[q].of # c
      BY <1>2, <1>5, <3>1, <3>3 DEF Paid
    <3> QED BY <3>2, <3>3
  <2> QED BY <2>1, <2>2
<1>6. ASSUME NEW q \in Bookings!Processes, NEW r \in Bookings!Processes, proc'[q] \in CancelTx, proc'[r] \in CancelTx,
             proc'[q].of = proc'[r].of
      PROVE  q = r
  BY <1>1, <1>6 DEF Paid
<1> QED BY <1>4, <1>5, <1>6 DEF Paid

\* Nothing is held, released or lapses, while a process moves.
LEMMA HoldsStep ==
  ASSUME Bookings!BookingParameters, BookingInv, NEW p \in Bookings!Processes, NEW x \in BookingTx(p),
         proc' = [proc EXCEPT ![p] = x], UNCHANGED <<hold, due>>, raced \subseteq raced',
         \A s \in Slots : Bookings!Occupying(s)' \subseteq Bookings!Occupying(s),
         x \in CreateTx => \/ proc[p] \in CreateTx /\ proc[p].hold = x.hold
                           \/ Owner[x.hold] = p /\ hold[x.hold].status = "HELD" /\ x.hold \notin due,
         x \in HoldTx => p \in Customers /\ HoldOK(p, x),
         x \in HoldTx /\ x.op = "insert" =>
           proc[p] = x \/ x.slot \in raced' \/ Places(x.slot) < Capacity
  PROVE  HoldsKept' /\ PlacesCounted'
<1>1. \A q \in Bookings!Processes : proc'[q] = IF q = p THEN x ELSE proc[q]
  BY ProcMoves DEF BookingInv
<1>2. Customers \subseteq Bookings!Processes /\ \A h \in Holds : Owner[h] \in Customers
  BY BookingFinite DEF Bookings!Processes
<1>3. \A q \in Bookings!Processes : proc[q] \in BookingTx(q)
  BY DEF BookingInv, BookingTypes
<1>4. p = "sweeper" => x \notin CreateTx /\ x \notin HoldTx
  BY TxKinds
<1>5. \A h \in Holds : Bookings!Consuming(h) <=> proc[Owner[h]] \in CreateTx /\ proc[Owner[h]].hold = h
  BY <1>2, <1>3, TxKinds DEF Bookings!Consuming
<1>6. \A h \in Holds : Bookings!Consuming(h)' <=> proc'[Owner[h]] \in CreateTx /\ proc'[Owner[h]].hold = h
  <2>1. \A q \in Customers : proc'[q] \in BookingTx(q)
    BY <1>2, ProcMoves DEF BookingInv
  <2>2. \A q \in Customers : proc'[q].op = "create" <=> proc'[q] \in CreateTx
    BY <2>1, TxKinds
  <2> QED BY <1>2, <2>2 DEF Bookings!Consuming
<1>7. ASSUME NEW h \in Holds, Bookings!Consuming(h)'
      PROVE  Bookings!Consuming(h) \/ (hold[h].status = "HELD" /\ h \notin due)
  BY <1>1, <1>2, <1>5, <1>6, <1>7
<1>8. HoldsKept'
  <2> SUFFICES ASSUME NEW c \in Customers
               PROVE  HoldOK(c, proc[c])' /\ (proc'[c] \in CreateTx => hold[proc'[c].hold].status = "HELD")
    BY DEF HoldsKept
  <2>1. HoldOK(c, proc[c]) /\ (proc[c] \in CreateTx => hold[proc[c].hold].status = "HELD")
    BY DEF BookingInv, HoldsKept
  <2>2. proc'[c] \in CreateTx => hold[proc'[c].hold].status = "HELD"
    BY <1>1, <1>2, <2>1
  <2>3. HoldOK(c, proc'[c])
    <3>1. CASE x \in HoldTx \/ c # p
      BY <1>1, <1>2, <2>1, <3>1
    <3>2. CASE x \notin HoldTx /\ c = p
      BY <1>1, <1>2, <3>2 DEF HoldOK
    <3> QED BY <3>1, <3>2
  <2>4. ASSUME proc'[c] \in HoldTx, NEW h \in proc'[c].stale
        PROVE  h \in due /\ ~Bookings!Consuming(h)'
    <3>1. h \in Holds /\ h \in due /\ ~Bookings!Consuming(h)
      BY <2>3, <2>4 DEF HoldOK, HoldTx
    <3> QED BY <1>7, <3>1
  <2> QED BY <2>2, <2>3, <2>4 DEF HoldOK
<1>9. \A s \in Slots : Taken(s)' \subseteq Taken(s)
  BY <1>7 DEF Taken
<1>10. ASSUME NEW s \in Slots \ raced'
       PROVE  Inserting(s)' \subseteq Inserting(s) \/ Places(s) < Capacity
  BY <1>1, <1>2 DEF Inserting
<1> QED BY <1>8, <1>9, <1>10, PlacesShrink

BookingRow == [status : Bookings!Statuses \cup {"NONE"}, slot : Slots \cup {"NONE"},
               payment : Bookings!PayStatus,
               until : Holds \cup {"NONE"}, count : 0..MaxReschedules, otp : BOOLEAN]

\* One process p moves on to x, with the booking, the payment and the points of one
\* customer c.
Moves(c, p, x, b, m, n) ==
  /\ x \in BookingTx(p) /\ b \in BookingRow /\ m \in Bookings!PayStatus /\ n \in {"NONE", "TAKEN", "BACK"}
  /\ proc' = [proc EXCEPT ![p] = x] /\ booking' = [booking EXCEPT ![c] = b]
  /\ pay' = [pay EXCEPT ![c] = m] /\ points' = [points EXCEPT ![c] = n]
  /\ x \in CreateTx => p = c /\ CreateOK(c, x, b, m)
  /\ x \in CancelTx => x.of = c /\ p \in {c, "sweeper"} /\ CancelOK(x, b, n)
  /\ \A q \in Bookings!Processes \ {p} :
       (q = c /\ proc[q] \in CreateTx) \/ (proc[q] \in CancelTx /\ proc[q].of = c) =>
         b = booking[c] /\ m = pay[c] /\ n = points[c] /\ x \notin CancelTx
  /\ PaidOK(c, b, m, n)
  /\ x \in CreateTx => \/ proc[p] \in CreateTx /\ proc[p].hold = x.hold
                       \/ Owner[x.hold] = p /\ hold[x.hold].status = "HELD" /\ x.hold \notin due
  /\ x \in HoldTx => p \in Customers /\ HoldOK(p, x)
  /\ x \in HoldTx /\ x.op = "insert" => proc[p] = x \/ x.slot \in raced' \/ Places(x.slot) < Capacity

LEMMA BookingStep ==
  ASSUME Bookings!BookingParameters, BookingInv,
         NEW c \in Customers, NEW p \in Bookings!Processes, NEW x, NEW b, NEW m, NEW n,
         Moves(c, p, x, b, m, n),
         b.status \in {"CANCELLED", "DECLINED"}
           \/ (b.slot = booking[c].slot /\ booking[c].status \notin {"CANCELLED", "DECLINED"}),
         UNCHANGED <<hold, due, phase>>, raced \subseteq raced', raced' \subseteq Slots
  PROVE  BookingInv'
<1>1. \A d \in Customers : booking'[d] = IF d = c THEN b ELSE booking[d]
  BY DEF Moves, BookingInv, BookingTypes, Bookings!RowsOK
<1>2. BookingTypes'
  <2>1. Bookings!RowsOK'
    <3>1. /\ booking' \in [Customers -> BookingRow] /\ pay' \in [Customers -> Bookings!PayStatus]
          /\ points' \in [Customers -> {"NONE", "TAKEN", "BACK"}]
      BY DEF Moves, BookingInv, BookingTypes, Bookings!RowsOK, BookingRow, Bookings!PayStatus
    <3>2. DOMAIN proc' = Bookings!Processes
      BY ProcMoves DEF Moves, BookingInv
    <3> QED BY <3>1, <3>2 DEF BookingInv, BookingTypes, Bookings!RowsOK, BookingRow, Bookings!PayStatus
  <2> QED BY <2>1, ProcMoves DEF Moves, BookingInv, BookingTypes
<1>3. Paid'
  BY PaidStep, BookingFinite DEF Moves, BookingInv
<1>4. \A s \in Slots : Bookings!Occupying(s)' \subseteq Bookings!Occupying(s)
  BY <1>1 DEF Bookings!Occupying
<1>5. HoldsKept' /\ PlacesCounted'
  BY <1>4, HoldsStep DEF Moves
<1> QED BY <1>2, <1>3, <1>5 DEF BookingInv

\* A customer's rows and transaction.
LEMMA BookingRows ==
  ASSUME Bookings!BookingParameters, BookingInv, NEW c \in Customers
  PROVE  /\ c \in Bookings!Processes /\ c # "sweeper" /\ proc[c] \in BookingTx(c) /\ "sweeper" \in Bookings!Processes
         /\ booking[c] \in BookingRow /\ pay[c] \in Bookings!PayStatus /\ points[c] \in {"NONE", "TAKEN", "BACK"}
         /\ booking = [booking EXCEPT ![c] = booking[c]] /\ pay = [pay EXCEPT ![c] = pay[c]]
         /\ points = [points EXCEPT ![c] = points[c]] /\ proc = [proc EXCEPT ![c] = proc[c]]
         /\ Bookings!Idle \in BookingTx(c) /\ Bookings!Idle.op = "idle" /\ raced \subseteq Slots
         /\ CreateOK(c, proc[c], booking[c], pay[c]) /\ PaidOK(c, booking[c], pay[c], points[c])
         /\ proc[c] \in CancelTx => proc[c].of = c /\ CancelOK(proc[c], booking[c], points[c])
<1>1. c \in Bookings!Processes /\ c # "sweeper" /\ "sweeper" \in Bookings!Processes
  BY BookingFinite DEF Bookings!Processes
<1>2. /\ booking[c] \in BookingRow /\ pay[c] \in Bookings!PayStatus /\ points[c] \in {"NONE", "TAKEN", "BACK"}
      /\ booking = [booking EXCEPT ![c] = booking[c]] /\ pay = [pay EXCEPT ![c] = pay[c]]
      /\ points = [points EXCEPT ![c] = points[c]]
  BY DEF BookingInv, BookingTypes, Bookings!RowsOK, BookingRow, Bookings!PayStatus
<1>3. proc = [proc EXCEPT ![c] = proc[c]] /\ proc[c] \in BookingTx(c)
  BY <1>1 DEF BookingInv, BookingTypes
<1>4. CreateOK(c, proc[c], booking[c], pay[c]) /\ PaidOK(c, booking[c], pay[c], points[c])
  BY DEF BookingInv, Paid
<1>5. proc[c] \in CancelTx => proc[c].of = c /\ CancelOK(proc[c], booking[c], points[c])
  BY <1>1 DEF BookingInv, Paid
<1> QED BY <1>1, <1>2, <1>3, <1>4, <1>5 DEF BookingInv, BookingTypes, Bookings!RowsOK, BookingTx, Bookings!Idle

\* A booking that is being made is nobody's to cancel.
LEMMA Alone ==
  ASSUME Bookings!BookingParameters, BookingInv, NEW c \in Customers, booking[c].status = "NONE"
  PROVE  \A q \in Bookings!Processes : ~(proc[q] \in CancelTx /\ proc[q].of = c)
BY DEF BookingInv, Paid, CancelOK

\* A process begins or ends, and nothing was written.
LEMMA OnlyMoves ==
  ASSUME Bookings!BookingParameters, BookingInv,
         NEW c \in Customers, NEW p \in Bookings!Processes, NEW x \in BookingTx(p),
         proc' = [proc EXCEPT ![p] = x], UNCHANGED <<hold, due, phase, booking, pay, points>>,
         raced \subseteq raced', raced' \subseteq Slots,
         x \in CreateTx => p = c /\ CreateOK(c, x, booking[c], pay[c]) /\ hold[x.hold].status = "HELD" /\ x.hold \notin due,
         x \in CancelTx => /\ x.of = c /\ p \in {c, "sweeper"} /\ CancelOK(x, booking[c], points[c])
                           /\ \A q \in Bookings!Processes \ {p} : ~(proc[q] \in CancelTx /\ proc[q].of = c)
                           /\ proc[c] \notin CreateTx,
         x \in HoldTx => p \in Customers /\ HoldOK(p, x),
         x \in HoldTx /\ x.op = "insert" => x.slot \in raced' \/ Places(x.slot) < Capacity
  PROVE  BookingInv'
<1> DEFINE b == booking[c]
           m == pay[c]
           n == points[c]
<1>1. /\ b \in BookingRow /\ m \in Bookings!PayStatus /\ n \in {"NONE", "TAKEN", "BACK"} /\ PaidOK(c, b, m, n)
      /\ booking' = [booking EXCEPT ![c] = b] /\ pay' = [pay EXCEPT ![c] = m] /\ points' = [points EXCEPT ![c] = n]
  BY BookingRows
<1>2. x \in CreateTx => CreateOK(c, x, b, m) /\ Owner[x.hold] = p
  BY DEF CreateOK
<1>3. Moves(c, p, x, b, m, n)
  BY <1>1, <1>2 DEF Moves
<1>4. b.status \in {"CANCELLED", "DECLINED"}
        \/ (b.slot = booking[c].slot /\ booking[c].status \notin {"CANCELLED", "DECLINED"})
  OBVIOUS
<1> HIDE DEF b, m, n
<1> QED BY <1>3, <1>4, BookingStep

LEMMA HoldBegun ==
  ASSUME Bookings!BookingParameters, BookingInv, NEW c \in Customers, NEW h \in Holds, NEW s \in Slots,
         Bookings!HoldBegins(c, h, s)
  PROVE  BookingInv'
<1> DEFINE x == [op |-> "hold", hold |-> h, slot |-> s, stale |-> {g \in Holds : Bookings!Lapsed(g) /\ hold[g].slot = s}]
<1>1. /\ proc' = [proc EXCEPT ![c] = x] /\ UNCHANGED <<hold, due, booking, phase, pay, points, raced>> /\ Owner[h] = c
      /\ \A g \in Holds : Bookings!Lapsed(g) /\ hold[g].slot = s => ~Bookings!HoldLocked(g)
  BY DEF Bookings!HoldBegins, Bookings!Do
<1>2. x \in HoldTx /\ x.op = "hold" /\ x.hold = h
  BY DEF HoldTx
<1>3. \A g \in x.stale : g \in due /\ ~Bookings!Consuming(g)
  BY <1>1 DEF Bookings!HoldLocked, Bookings!Lapsed
<1> HIDE DEF x
<1>4. x \in BookingTx(c) /\ x \notin CreateTx /\ x \notin CancelTx
  <2>1. x \in BookingTx(c)
    BY <1>2, BookingRows DEF BookingTx
  <2> QED BY <1>2, <2>1, TxKinds
<1>5. HoldOK(c, x)
  BY <1>1, <1>2, <1>3 DEF HoldOK
<1> QED BY <1>1, <1>2, <1>4, <1>5, BookingRows, OnlyMoves

\* Holds that a booking is being made of, by the kind of the transaction.
LEMMA ConsumingTx ==
  ASSUME Bookings!BookingParameters, BookingInv, NEW h \in Holds
  PROVE  /\ Owner[h] \in Customers
         /\ Bookings!Consuming(h) <=> proc[Owner[h]] \in CreateTx /\ proc[Owner[h]].hold = h
<1>1. Owner[h] \in Customers
  BY BookingFinite
<1> QED BY <1>1, BookingRows, TxKinds DEF Bookings!Consuming

LEMMA HoldCounted ==
  ASSUME Bookings!BookingParameters, BookingInv, NEW c \in Customers, Bookings!HoldCounts(c)
  PROVE  BookingInv'
<1> DEFINE s == proc[c].slot
           y == [op |-> "insert", hold |-> proc[c].hold, slot |-> s, stale |-> proc[c].stale]
           free == phase[s] # "begun" /\ Bookings!Reserved(s) < Capacity
           x == IF free THEN y ELSE Bookings!Idle
<1>1. /\ proc[c].op = "hold" /\ proc' = [proc EXCEPT ![c] = x] /\ UNCHANGED <<hold, due, phase, booking, pay, points>>
      /\ raced' = IF \E h \in Holds : Bookings!Lapsed(h) /\ hold[h].slot = s /\ Bookings!Consuming(h)
                    THEN raced \cup {s} ELSE raced
  BY DEF Bookings!HoldCounts, Bookings!Do
<1>2. proc[c] \in HoldTx /\ proc[c].hold \in Holds /\ s \in Slots /\ proc[c].stale \in SUBSET Holds
  <2>1. proc[c] \in HoldTx
    BY <1>1, BookingRows, TxKinds
  <2> QED BY <2>1 DEF HoldTx
<1>3. y \in HoldTx /\ y.hold = proc[c].hold /\ y.stale = proc[c].stale /\ y.slot = s
  BY <1>2 DEF HoldTx
<1>4. x \in BookingTx(c) /\ x \notin CreateTx /\ x \notin CancelTx /\ (x \in HoldTx => free /\ x = y)
  <2>1. x \in BookingTx(c)
    BY <1>3, BookingRows DEF BookingTx
  <2>2. CASE free
    BY <1>3, <2>1, <2>2, TxKinds
  <2>3. CASE ~free
    BY <2>1, <2>3, BookingRows, TxKinds
  <2> QED BY <2>2, <2>3
<1>5. HoldOK(c, y)
  BY <1>2, <1>3 DEF BookingInv, HoldsKept, HoldOK
<1>6. ASSUME free
      PROVE  s \in raced' \/ Places(s) < Capacity
  <2>1. CASE \E h \in Holds : Bookings!Lapsed(h) /\ hold[h].slot = s /\ Bookings!Consuming(h)
    BY <1>1, <2>1
  <2>2. CASE ~\E h \in Holds : Bookings!Lapsed(h) /\ hold[h].slot = s /\ Bookings!Consuming(h)
    <3>1. Taken(s) = Bookings!Held(s)
      BY <2>2 DEF Taken, Bookings!Held, Bookings!Lapsed
    <3>2. Places(s) = Bookings!Reserved(s)
      BY <3>1, BookingCardinality DEF Places, Bookings!Reserved
    <3> QED BY <1>6, <3>2
  <2> QED BY <2>1, <2>2
<1>7. raced \subseteq raced' /\ raced' \subseteq Slots
  BY <1>1, <1>2, BookingRows
<1> HIDE DEF x, y, free
<1>8. x \in HoldTx /\ x.op = "insert" => x.slot \in raced' \/ Places(x.slot) < Capacity
  BY <1>3, <1>4, <1>6
<1>9. x \in HoldTx => c \in Customers /\ HoldOK(c, x)
  BY <1>4, <1>5
<1> HIDE DEF s
<1>10. c \in Bookings!Processes
  BY BookingRows
<1> QED BY <1>1, <1>4, <1>7, <1>8, <1>9, <1>10, OnlyMoves

LEMMA CreateStarted ==
  ASSUME Bookings!BookingParameters, BookingInv, NEW c \in Customers, NEW h \in Holds, Bookings!CreateStarts(c, h)
  PROVE  BookingInv'
<1> DEFINE x == [op |-> "create", hold |-> h, step |-> IF Method[c] = "WALLET" THEN "redeem" ELSE "pay"]
<1>1. /\ proc' = [proc EXCEPT ![c] = x] /\ UNCHANGED <<hold, due, phase, booking, pay, points, raced>>
      /\ Owner[h] = c /\ hold[h].status = "HELD" /\ h \notin due /\ booking[c] = Bookings!NoBooking
  BY DEF Bookings!CreateStarts, Bookings!Do
<1>2. x \in CreateTx /\ x.hold = h /\ x.step # "commit" /\ (x.step = "redeem" => Method[c] = "WALLET")
  BY DEF CreateTx
<1> HIDE DEF x
<1>3. x \in BookingTx(c) /\ x \notin HoldTx /\ x \notin CancelTx
  <2>1. x \in BookingTx(c)
    BY <1>2, BookingRows DEF BookingTx
  <2> QED BY <1>2, <2>1, TxKinds
<1>4. CreateOK(c, x, booking[c], pay[c])
  BY <1>1, <1>2 DEF CreateOK
<1> QED BY <1>1, <1>2, <1>3, <1>4, BookingRows, OnlyMoves

LEMMA Cancelled ==
  ASSUME Bookings!BookingParameters, BookingInv, NEW c \in Customers, NEW p \in {c, "sweeper"},
         NEW step \in {"reverse", "refund", "void"}, proc[p] = Bookings!Idle, ~Bookings!BookingLocked(c),
         booking[c].status \in {"PENDING_PAYMENT", "REQUESTED", "ACCEPTED"},
         step = "reverse" => Method[c] = "WALLET", step # "reverse" => Method[c] = "ONLINE",
         proc' = [proc EXCEPT ![p] = [op |-> "cancel", of |-> c, step |-> step]],
         UNCHANGED <<hold, due, booking, phase, pay, points, raced>>
  PROVE  BookingInv'
<1> DEFINE x == [op |-> "cancel", of |-> c, step |-> step]
<1>1. x \in CancelTx /\ x.of = c /\ x.step = step
  BY DEF CancelTx
<1>2. p \in Bookings!Processes /\ "sweeper" \in Bookings!Processes /\ c \in Bookings!Processes /\ p \in {c, "sweeper"}
  BY BookingRows
<1>3. proc' = [proc EXCEPT ![p] = x]
  OBVIOUS
<1> HIDE DEF x
<1>4. x \in BookingTx(p) /\ x \notin HoldTx /\ x \notin CreateTx
  <2>1. x \in BookingTx(p)
    BY <1>1 DEF BookingTx
  <2> QED BY <1>1, <2>1, TxKinds
<1>5. CancelOK(x, booking[c], points[c])
  <2>1. PaidOK(c, booking[c], pay[c], points[c])
    BY BookingRows
  <2> QED BY <1>1, <2>1 DEF CancelOK, PaidOK
<1>6. proc[c] \notin CreateTx
  <2>1. CreateOK(c, proc[c], booking[c], pay[c])
    BY BookingRows
  <2> QED BY <2>1 DEF CreateOK, Bookings!NoBooking
<1>7. ASSUME NEW q \in Bookings!Processes \ {p}, proc[q] \in CancelTx, proc[q].of = c
      PROVE  FALSE
  <2>1. q \in {c, "sweeper"} /\ proc[q].op = "cancel"
    <3>1. q \in {proc[q].of, "sweeper"}
      BY <1>7 DEF BookingInv, Paid
    <3> QED BY <1>7, <3>1 DEF CancelTx
  <2> QED BY <1>7, <2>1 DEF Bookings!BookingLocked
<1>8. raced \subseteq raced' /\ raced' \subseteq Slots
  BY BookingRows
<1> QED BY <1>1, <1>2, <1>3, <1>4, <1>5, <1>6, <1>7, <1>8, OnlyMoves

LEMMA CancelStarted ==
  ASSUME Bookings!BookingParameters, BookingInv, NEW c \in Customers, Bookings!CancelStarts(c) \/ Bookings!ExpireStarts(c)
  PROVE  BookingInv'
<1>0. PaidOK(c, booking[c], pay[c], points[c]) /\ Method[c] \in {"ONLINE", "WALLET"}
  BY BookingRows, BookingFinite
<1>1. CASE Bookings!CancelStarts(c)
  <2> DEFINE step == IF Method[c] = "WALLET" THEN "reverse"
                     ELSE IF booking[c].payment \in Bookings!Captured THEN "refund" ELSE "void"
  <2>1. /\ proc[c] = Bookings!Idle /\ ~Bookings!BookingLocked(c)
        /\ booking[c].status \in {"PENDING_PAYMENT", "REQUESTED", "ACCEPTED"}
        /\ proc' = [proc EXCEPT ![c] = [op |-> "cancel", of |-> c, step |-> step]]
        /\ UNCHANGED <<hold, due, booking, phase, pay, points, raced>>
    BY <1>1 DEF Bookings!CancelStarts, Bookings!Do
  <2>2. step \in {"reverse", "refund", "void"} /\ (step = "reverse" <=> Method[c] = "WALLET")
    OBVIOUS
  <2> HIDE DEF step
  <2> QED BY <1>0, <2>1, <2>2, Cancelled
<1>2. CASE Bookings!ExpireStarts(c)
  <2>1. /\ proc["sweeper"] = Bookings!Idle /\ ~Bookings!BookingLocked(c) /\ booking[c].status = "PENDING_PAYMENT"
        /\ proc' = [proc EXCEPT !["sweeper"] = [op |-> "cancel", of |-> c, step |-> "void"]]
        /\ UNCHANGED <<hold, due, booking, phase, pay, points, raced>>
    BY <1>2 DEF Bookings!ExpireStarts, Bookings!Do
  <2>2. Method[c] = "ONLINE"
    BY <1>0, <2>1 DEF PaidOK
  <2> QED BY <2>1, <2>2, Cancelled
<1> QED BY <1>1, <1>2

LEMMA Aborted ==
  ASSUME Bookings!BookingParameters, BookingInv, NEW p \in Bookings!Processes, Bookings!Abort(p)
  PROVE  BookingInv'
<1>1. /\ proc[p] # Bookings!Idle /\ proc' = [proc EXCEPT ![p] = Bookings!Idle]
      /\ UNCHANGED <<hold, due, booking, phase, pay, points, raced>>
  BY DEF Bookings!Abort, Bookings!Do
<1>2. PICK c \in Customers : TRUE
  <2>1. CASE p \in Customers
    BY <2>1
  <2>2. CASE p = "sweeper"
    <3>1. proc[p] \in CancelTx
      BY <1>1, <2>2 DEF BookingInv, BookingTypes, BookingTx
    <3> QED BY <3>1 DEF CancelTx
  <2> QED BY <2>1, <2>2 DEF Bookings!Processes
<1>3. Bookings!Idle \in BookingTx(p) /\ Bookings!Idle.op = "idle"
  BY DEF BookingTx, Bookings!Idle
<1>4. Bookings!Idle \notin HoldTx /\ Bookings!Idle \notin CreateTx /\ Bookings!Idle \notin CancelTx
  BY <1>3, TxKinds
<1>5. raced \subseteq raced' /\ raced' \subseteq Slots
  BY <1>1, <1>2, BookingRows
<1> QED BY <1>1, <1>3, <1>4, <1>5, OnlyMoves

----------------------------------------------------------------------------
\* While a booking is made, its payment and its points change.
LEMMA MakingStep ==
  ASSUME Bookings!BookingParameters, BookingInv, NEW c \in Customers, proc[c] \in CreateTx, NEW x, NEW m, NEW n,
         x = Bookings!Idle \/ (x \in CreateTx /\ x.hold = proc[c].hold),
         x \in CreateTx => (x.step = "redeem" => Method[c] = "WALLET") /\ (x.step = "commit" => m # "NONE"),
         m \in Bookings!PayStatus, Method[c] = "WALLET" => m \in {"NONE", "CAPTURED"},
         n \in {"NONE", "TAKEN", "BACK"}, Method[c] = "ONLINE" => n = "NONE",
         proc' = [proc EXCEPT ![c] = x], pay' = [pay EXCEPT ![c] = m], points' = [points EXCEPT ![c] = n],
         UNCHANGED <<hold, due, booking, phase, raced>>
  PROVE  BookingInv'
<1> DEFINE b == booking[c]
<1>1. booking[c] = Bookings!NoBooking /\ booking[c].status = "NONE" /\ Owner[proc[c].hold] = c
  <2>1. CreateOK(c, proc[c], booking[c], pay[c])
    BY BookingRows
  <2> QED BY <2>1 DEF CreateOK, Bookings!NoBooking
<1>2. x \in BookingTx(c) /\ x \notin HoldTx /\ x \notin CancelTx
  <2>1. x \in BookingTx(c)
    BY BookingRows DEF BookingTx
  <2> QED BY <2>1, BookingRows, TxKinds
<1>3. PaidOK(c, b, m, n)
  BY <1>1 DEF PaidOK
<1>4. x \in CreateTx => CreateOK(c, x, b, m) /\ x.hold = proc[c].hold
  <2>1. Bookings!Idle \notin CreateTx
    BY BookingRows, TxKinds
  <2> QED BY <1>1, <2>1 DEF CreateOK
<1>6. Moves(c, c, x, b, m, n)
  <2>1. \A q \in Bookings!Processes : ~(proc[q] \in CancelTx /\ proc[q].of = c)
    BY <1>1, Alone
  <2>2. b \in BookingRow /\ booking' = [booking EXCEPT ![c] = b]
    BY BookingRows
  <2> QED BY <1>2, <1>3, <1>4, <2>1, <2>2 DEF Moves
<1>7. b.slot = booking[c].slot /\ booking[c].status \notin {"CANCELLED", "DECLINED"}
  BY <1>1
<1>8. c \in Bookings!Processes /\ raced \subseteq raced' /\ raced' \subseteq Slots
  BY BookingRows
<1> HIDE DEF b
<1> QED BY <1>6, <1>7, <1>8, BookingStep

LEMMA Made ==
  ASSUME Bookings!BookingParameters, BookingInv, NEW c \in Customers,
         Bookings!CreateRedeems(c) \/ Bookings!CreatePays(c) \/ Bookings!CreateRollsBack(c)
  PROVE  BookingInv'
<1>1. proc[c] \in CreateTx
  BY BookingRows, TxKinds DEF Bookings!CreateRedeems, Bookings!CreatePays, Bookings!CreateRollsBack, Bookings!Creating
<1>2. /\ booking[c].status = "NONE" /\ pay[c] \in Bookings!PayStatus /\ Method[c] \in {"ONLINE", "WALLET"}
      /\ Method[c] = "WALLET" => pay[c] \in {"NONE", "CAPTURED"}
      /\ Method[c] = "ONLINE" => points[c] = "NONE"
      /\ proc[c].step = "redeem" => Method[c] = "WALLET"
  <2>1. CreateOK(c, proc[c], booking[c], pay[c]) /\ PaidOK(c, booking[c], pay[c], points[c])
    BY BookingRows
  <2>2. pay[c] \in Bookings!PayStatus /\ Method[c] \in {"ONLINE", "WALLET"}
    BY BookingRows, BookingFinite
  <2> QED BY <1>1, <2>1, <2>2 DEF CreateOK, PaidOK, Bookings!NoBooking
<1>3. points[c] \in {"NONE", "TAKEN", "BACK"} /\ pay = [pay EXCEPT ![c] = pay[c]] /\ points = [points EXCEPT ![c] = points[c]]
  BY BookingRows
<1>4. CASE Bookings!CreateRedeems(c)
  <2> DEFINE x == [proc[c] EXCEPT !.step = "pay"]
             n == IF points[c] = "NONE" THEN "TAKEN" ELSE points[c]
  <2>1. /\ proc' = [proc EXCEPT ![c] = x] /\ points' = [points EXCEPT ![c] = n] /\ proc[c].step = "redeem"
        /\ UNCHANGED <<hold, due, booking, phase, pay, raced>>
    BY <1>3, <1>4 DEF Bookings!CreateRedeems, Bookings!Do, Bookings!Creating
  <2>2. x \in CreateTx /\ x.hold = proc[c].hold /\ x.step = "pay"
    BY <1>1 DEF CreateTx
  <2>3. n \in {"NONE", "TAKEN", "BACK"}
    BY <1>3
  <2> HIDE DEF x, n
  <2> QED BY <1>1, <1>2, <1>3, <2>1, <2>2, <2>3, MakingStep
<1>5. CASE Bookings!CreatePays(c)
  <2> DEFINE x == [proc[c] EXCEPT !.step = "commit"]
  <2>1. PICK m \in Bookings!PayStatus \ {"NONE"} :
          /\ proc' = [proc EXCEPT ![c] = x] /\ pay' = [pay EXCEPT ![c] = m]
          /\ UNCHANGED <<hold, due, booking, phase, points, raced>>
          /\ Method[c] = "WALLET" => m = "CAPTURED"
    <3>1. CASE pay[c] # "NONE"
      BY <1>2, <1>3, <1>5, <3>1 DEF Bookings!CreatePays, Bookings!Do
    <3>2. CASE pay[c] = "NONE"
      BY <1>5, <3>2 DEF Bookings!CreatePays, Bookings!Do, Bookings!PayStatus, Bookings!Uncaptured, Bookings!Captured
    <3> QED BY <3>1, <3>2
  <2>2. x \in CreateTx /\ x.hold = proc[c].hold /\ x.step = "commit"
    BY <1>1 DEF CreateTx
  <2> HIDE DEF x
  <2> QED BY <1>1, <1>2, <1>3, <2>1, <2>2, MakingStep
<1>6. CASE Bookings!CreateRollsBack(c)
  <2> DEFINE n == IF points[c] = "TAKEN" THEN "BACK" ELSE points[c]
  <2>1. /\ proc' = [proc EXCEPT ![c] = Bookings!Idle] /\ points' = [points EXCEPT ![c] = n]
        /\ UNCHANGED <<hold, due, booking, phase, pay, raced>>
    BY <1>3, <1>6 DEF Bookings!CreateRollsBack, Bookings!Do
  <2>2. n \in {"NONE", "TAKEN", "BACK"} /\ (Method[c] = "ONLINE" => n = "NONE")
    BY <1>2, <1>3
  <2>3. Bookings!Idle \notin CreateTx
    BY BookingRows, TxKinds
  <2> HIDE DEF n
  <2> QED BY <1>1, <1>2, <1>3, <2>1, <2>2, <2>3, MakingStep
<1> QED BY <1>4, <1>5, <1>6

----------------------------------------------------------------------------
\* A command on a booking, which nobody else has locked.
LEMMA MutateMoves ==
  ASSUME Bookings!BookingParameters, BookingInv, NEW c \in Customers, NEW from, NEW v \in BookingRow,
         Bookings!mutate(c, from, v),
         booking[c].status \notin {"NONE", "CANCELLED", "DECLINED"},
         v.status \notin {"NONE", "PENDING_PAYMENT", "CANCELLED"}
  PROVE  /\ Moves(c, c, proc[c], v, pay[c], points[c]) /\ booking' = [booking EXCEPT ![c] = v]
         /\ UNCHANGED <<due, phase, pay, points, proc, raced>>
<1> DEFINE x == proc[c]
           m == pay[c]
           n == points[c]
<1>1. /\ ~Bookings!BookingLocked(c) /\ booking' = [booking EXCEPT ![c] = v]
      /\ UNCHANGED <<due, phase, pay, points, proc, raced>>
  BY DEF Bookings!mutate, Bookings!updateBooking
<1>2. \A q \in Bookings!Processes : ~(proc[q] \in CancelTx /\ proc[q].of = c)
  <2> SUFFICES ASSUME NEW q \in Bookings!Processes, proc[q] \in CancelTx, proc[q].of = c PROVE FALSE
    OBVIOUS
  <2>1. q \in {c, "sweeper"} /\ proc[q].op = "cancel"
    <3>1. q \in {proc[q].of, "sweeper"}
      BY DEF BookingInv, Paid
    <3> QED BY <3>1 DEF CancelTx
  <2> QED BY <1>1, <2>1 DEF Bookings!BookingLocked
<1>3. x \notin CreateTx
  <2>1. CreateOK(c, proc[c], booking[c], pay[c])
    BY BookingRows
  <2> QED BY <2>1 DEF CreateOK, Bookings!NoBooking
<1>4. x \notin CancelTx
  BY <1>2, BookingRows
<1>5. PaidOK(c, v, m, n)
  <2>1. PaidOK(c, booking[c], pay[c], points[c])
    BY BookingRows
  <2> QED BY <2>1 DEF PaidOK
<1>6. x \in HoldTx => HoldOK(c, x)
  BY DEF BookingInv, HoldsKept
<1>7. /\ proc' = [proc EXCEPT ![c] = x] /\ pay' = [pay EXCEPT ![c] = m] /\ points' = [points EXCEPT ![c] = n]
      /\ x \in BookingTx(c) /\ m \in Bookings!PayStatus /\ n \in {"NONE", "TAKEN", "BACK"}
  BY <1>1, BookingRows
<1>8. Moves(c, c, x, v, m, n)
  BY <1>1, <1>2, <1>3, <1>4, <1>5, <1>6, <1>7 DEF Moves
<1> QED BY <1>1, <1>8

LEMMA Mutated ==
  ASSUME Bookings!BookingParameters, BookingInv, NEW c \in Customers, NEW from, NEW v \in BookingRow,
         Bookings!mutate(c, from, v), UNCHANGED hold, v.slot = booking[c].slot,
         booking[c].status \notin {"NONE", "CANCELLED", "DECLINED"},
         v.status \notin {"NONE", "PENDING_PAYMENT", "CANCELLED"}
  PROVE  BookingInv'
<1>1. /\ Moves(c, c, proc[c], v, pay[c], points[c]) /\ booking' = [booking EXCEPT ![c] = v]
      /\ UNCHANGED <<due, phase, pay, points, proc, raced>>
  BY MutateMoves
<1>2. c \in Bookings!Processes /\ raced \subseteq raced' /\ raced' \subseteq Slots
  BY <1>1, BookingRows
<1> QED BY <1>1, <1>2, BookingStep

LEMMA Confirmed ==
  ASSUME Bookings!BookingParameters, BookingInv, NEW c \in Customers, Bookings!ConfirmPayment(c)
  PROVE  BookingInv'
<1> DEFINE v == [booking[c] EXCEPT !.status = "REQUESTED", !.payment = pay[c]]
<1>1. Bookings!mutate(c, {"PENDING_PAYMENT"}, v) /\ UNCHANGED hold
  BY DEF Bookings!ConfirmPayment
<1>2. v \in BookingRow /\ v.slot = booking[c].slot /\ v.status = "REQUESTED"
  <2>1. booking[c] \in BookingRow /\ pay[c] \in Bookings!PayStatus
    BY BookingRows
  <2> QED BY <2>1 DEF BookingRow, Bookings!PayStatus, Bookings!Statuses
<1>3. booking[c].status = "PENDING_PAYMENT"
  BY <1>1 DEF Bookings!mutate
<1> HIDE DEF v
<1> QED BY <1>1, <1>2, <1>3, Mutated

LEMMA Served ==
  ASSUME Bookings!BookingParameters, BookingInv, NEW c \in Customers,
         \/ \E target \in Bookings!Statuses : Bookings!ProviderTransition(c, target)
         \/ Bookings!Start(c) \/ Bookings!Complete(c) \/ Bookings!ConfirmCompletion(c) \/ Bookings!Dispute(c)
         \/ \E who \in {"CUSTOMER_NO_SHOW", "PROVIDER_NO_SHOW"} : Bookings!NoShow(c, who)
  PROVE  BookingInv'
<1>0. booking[c] \in BookingRow
  BY BookingRows
<1>1. ASSUME NEW target \in Bookings!Statuses, Bookings!ProviderTransition(c, target)
      PROVE  BookingInv'
  <2> DEFINE v == [booking[c] EXCEPT !.status = target, !.otp = @ \/ target = "ACCEPTED"]
  <2>1. /\ Bookings!mutate(c, Bookings!Statuses, v) /\ UNCHANGED hold
        /\ <<booking[c].status, target>> \in Bookings!validProviderTransition
    BY <1>1 DEF Bookings!ProviderTransition
  <2>2. v \in BookingRow /\ v.slot = booking[c].slot /\ v.status = target
    BY <1>0 DEF BookingRow
  <2>3. /\ booking[c].status \notin {"NONE", "CANCELLED", "DECLINED"}
        /\ target \notin {"NONE", "PENDING_PAYMENT", "CANCELLED"}
    BY <2>1 DEF Bookings!validProviderTransition
  <2> HIDE DEF v
  <2> QED BY <2>1, <2>2, <2>3, Mutated
<1>2. CASE Bookings!Start(c)
  <2> DEFINE v == [booking[c] EXCEPT !.status = "IN_PROGRESS", !.otp = FALSE]
  <2>1. /\ Bookings!mutate(c, {"START_OTP_REQUIRED"}, v) /\ UNCHANGED hold
        /\ booking[c].status = "START_OTP_REQUIRED"
    BY <1>2 DEF Bookings!Start, Bookings!mutate
  <2>2. v \in BookingRow /\ v.slot = booking[c].slot /\ v.status = "IN_PROGRESS"
    BY <1>0 DEF BookingRow, Bookings!Statuses
  <2> HIDE DEF v
  <2> QED BY <2>1, <2>2, Mutated
<1>3. ASSUME NEW from, NEW to \in Bookings!Statuses, Bookings!Moves(c, from, to),
             from \cap {"NONE", "CANCELLED", "DECLINED"} = {}, to \notin {"NONE", "PENDING_PAYMENT", "CANCELLED"}
      PROVE  BookingInv'
  <2> DEFINE v == [booking[c] EXCEPT !.status = to]
  <2>1. Bookings!mutate(c, from, v) /\ UNCHANGED hold /\ booking[c].status \in from
    BY <1>3 DEF Bookings!Moves, Bookings!mutate
  <2>2. v \in BookingRow /\ v.slot = booking[c].slot /\ v.status = to
    BY <1>0 DEF BookingRow
  <2> HIDE DEF v
  <2> QED BY <1>3, <2>1, <2>2, Mutated
<1>4. CASE Bookings!Complete(c)
  BY <1>3, <1>4 DEF Bookings!Complete, Bookings!Statuses
<1>5. CASE Bookings!ConfirmCompletion(c)
  BY <1>3, <1>5 DEF Bookings!ConfirmCompletion, Bookings!Statuses
<1>6. CASE Bookings!Dispute(c)
  BY <1>3, <1>6 DEF Bookings!Dispute, Bookings!Statuses
<1>7. ASSUME NEW who \in {"CUSTOMER_NO_SHOW", "PROVIDER_NO_SHOW"}, Bookings!NoShow(c, who)
      PROVE  BookingInv'
  BY <1>3, <1>7 DEF Bookings!NoShow, Bookings!Statuses
<1> QED BY <1>1, <1>2, <1>4, <1>5, <1>6, <1>7

----------------------------------------------------------------------------
\* Of the transactions that cancel a booking there is one.
Cancels(c, p, x, b, m, n) ==
  /\ proc[p] \in CancelTx /\ c = proc[p].of
  /\ b \in BookingRow /\ m \in Bookings!PayStatus /\ n \in {"NONE", "TAKEN", "BACK"}
  /\ x = Bookings!Idle \/ (x \in CancelTx /\ x.of = c /\ CancelOK(x, b, n))
  /\ b.slot = booking[c].slot /\ PaidOK(c, b, m, n)
  /\ proc' = [proc EXCEPT ![p] = x] /\ booking' = [booking EXCEPT ![c] = b]
  /\ pay' = [pay EXCEPT ![c] = m] /\ points' = [points EXCEPT ![c] = n] /\ UNCHANGED <<hold, due, phase, raced>>

LEMMA CancellingStep ==
  ASSUME Bookings!BookingParameters, BookingInv, NEW p \in Bookings!Processes,
         NEW c, NEW x, NEW b, NEW m, NEW n, Cancels(c, p, x, b, m, n)
  PROVE  BookingInv'
<1>1. c \in Customers /\ p \in {c, "sweeper"} /\ CancelOK(proc[p], booking[c], points[c])
  BY DEF BookingInv, Paid, CancelTx, Cancels
<1>2. booking[c].status \in {"PENDING_PAYMENT", "REQUESTED", "ACCEPTED"}
  BY <1>1 DEF CancelOK, Cancels
<1>3. proc[c] \notin CreateTx
  <2>1. CreateOK(c, proc[c], booking[c], pay[c])
    BY <1>1, BookingRows
  <2> QED BY <1>2, <2>1 DEF CreateOK, Bookings!NoBooking
<1>4. \A q \in Bookings!Processes \ {p} : ~(proc[q] \in CancelTx /\ proc[q].of = c)
  BY DEF BookingInv, Paid, Cancels
<1>5. x \in BookingTx(p) /\ x \notin HoldTx /\ x \notin CreateTx /\ (x \in CancelTx => x.of = c /\ CancelOK(x, b, n))
  <2>1. x \in BookingTx(p) /\ Bookings!Idle \in BookingTx(p) /\ Bookings!Idle.op = "idle"
    BY DEF BookingTx, Bookings!Idle, Cancels
  <2> QED BY <2>1, TxKinds DEF Cancels
<1>6. Moves(c, p, x, b, m, n)
  BY <1>1, <1>3, <1>4, <1>5 DEF Moves, Cancels
<1>7. raced \subseteq raced' /\ raced' \subseteq Slots
  BY <1>1, BookingRows DEF Cancels
<1>8. UNCHANGED <<hold, due, phase>> /\ b.slot = booking[c].slot
  BY DEF Cancels
<1> QED BY <1>1, <1>2, <1>6, <1>7, <1>8, BookingStep

\* A cancelling transaction, its customer and what it knows.
LEMMA CancellingTx ==
  ASSUME Bookings!BookingParameters, BookingInv, NEW p \in Bookings!Processes, proc[p].op = "cancel"
  PROVE  /\ proc[p] \in CancelTx /\ proc[p].of \in Customers /\ p \in {proc[p].of, "sweeper"}
         /\ CancelOK(proc[p], booking[proc[p].of], points[proc[p].of])
         /\ \A step \in {"refund", "commit"} :
              /\ [proc[p] EXCEPT !.step = step] \in CancelTx
              /\ [proc[p] EXCEPT !.step = step].of = proc[p].of /\ [proc[p] EXCEPT !.step = step].step = step
<1>1. proc[p] \in CancelTx
  BY TxKinds DEF BookingInv, BookingTypes
<1> QED BY <1>1 DEF BookingInv, Paid, CancelTx

LEMMA CancelReversed ==
  ASSUME Bookings!BookingParameters, BookingInv, NEW c \in Customers, Bookings!CancelReverses(c)
  PROVE  BookingInv'
<1> DEFINE x == [proc[c] EXCEPT !.step = "refund"]
           b == booking[c]
           m == pay[c]
<1>0. c \in Bookings!Processes /\ c # "sweeper"
  BY BookingRows
<1>1. /\ proc[c].op = "cancel" /\ proc[c].step = "reverse" /\ proc' = [proc EXCEPT ![c] = x]
      /\ points' = [points EXCEPT ![c] = "BACK"] /\ UNCHANGED <<hold, due, booking, phase, pay, raced>>
  BY DEF Bookings!CancelReverses, Bookings!Cancelling, Bookings!Do
<1>2. /\ proc[c] \in CancelTx /\ proc[c].of = c /\ CancelOK(proc[c], b, points[c])
      /\ x \in CancelTx /\ x.of = c /\ x.step = "refund"
  <2>1. proc[c] \in CancelTx /\ c \in {proc[c].of, "sweeper"}
    BY <1>0, <1>1, CancellingTx
  <2>2. x \in CancelTx /\ x.of = proc[c].of /\ x.step = "refund"
    BY <2>1 DEF CancelTx
  <2> QED BY <1>0, <2>1, <2>2, BookingRows
<1>3. b \in BookingRow /\ m \in Bookings!PayStatus /\ booking' = [booking EXCEPT ![c] = b] /\ pay' = [pay EXCEPT ![c] = m]
      /\ PaidOK(c, b, m, points[c])
  BY <1>1, BookingRows
<1>4. CancelOK(x, b, "BACK") /\ PaidOK(c, b, m, "BACK")
  BY <1>1, <1>2, <1>3 DEF CancelOK, PaidOK
<1>5. b.slot = booking[c].slot
  OBVIOUS
<1>6. Cancels(c, c, x, b, m, "BACK")
  BY <1>1, <1>2, <1>3, <1>4, <1>5 DEF Cancels
<1> HIDE DEF x, b, m
<1> QED BY <1>0, <1>6, CancellingStep

LEMMA CancelRefunded ==
  ASSUME Bookings!BookingParameters, BookingInv, NEW c \in Customers,
         Bookings!CancelRefunds(c) \/ Bookings!finalizeRefund(c)
  PROVE  BookingInv'
<1> DEFINE b == booking[c]
           n == points[c]
           to(step) == [proc[c] EXCEPT !.step = step]
<1>0. c \in Bookings!Processes /\ c # "sweeper"
  BY BookingRows
<1>1. /\ proc[c].op = "cancel" /\ proc[c].step \in {"refund", "finalize"}
      /\ UNCHANGED <<hold, due, booking, phase, points, raced>>
  BY DEF Bookings!CancelRefunds, Bookings!finalizeRefund, Bookings!Cancelling
<1>2. PICK m \in Bookings!PayStatus, x \in {Bookings!Idle, to("finalize"), to("commit")} :
        pay' = [pay EXCEPT ![c] = m] /\ proc' = [proc EXCEPT ![c] = x]
  <2>1. pay[c] \in Bookings!PayStatus /\ pay = [pay EXCEPT ![c] = pay[c]]
    BY BookingRows
  <2>2. {"REFUND_REQUESTED", "REFUND_SUBMITTED", "REFUND_FAILED"} \subseteq Bookings!PayStatus
    BY DEF Bookings!PayStatus, Bookings!Refunding
  <2> QED BY <2>1, <2>2 DEF Bookings!CancelRefunds, Bookings!finalizeRefund, Bookings!Do
<1>3. /\ proc[c] \in CancelTx /\ proc[c].of = c /\ CancelOK(proc[c], b, n)
  <2>1. proc[c] \in CancelTx /\ c \in {proc[c].of, "sweeper"}
    BY <1>0, <1>1, CancellingTx
  <2> QED BY <1>0, <2>1, BookingRows
<1>4. x # Bookings!Idle => x \in CancelTx /\ x.of = c /\ x.step \in {"finalize", "commit"}
  BY <1>2, <1>3 DEF CancelTx
<1>5. b \in BookingRow /\ n \in {"NONE", "TAKEN", "BACK"} /\ booking' = [booking EXCEPT ![c] = b]
      /\ points' = [points EXCEPT ![c] = n] /\ PaidOK(c, b, pay[c], n)
  BY <1>1, BookingRows
<1>6. x # Bookings!Idle => CancelOK(x, b, n)
  BY <1>1, <1>3, <1>4 DEF CancelOK
<1>7. PaidOK(c, b, m, n)
  BY <1>3, <1>5 DEF PaidOK, CancelOK
<1>8. b.slot = booking[c].slot
  OBVIOUS
<1> HIDE DEF b, n, to
<1>9. Cancels(c, c, x, b, m, n)
  BY <1>1, <1>2, <1>3, <1>4, <1>5, <1>6, <1>7, <1>8 DEF Cancels
<1> QED BY <1>0, <1>9, CancellingStep

LEMMA CancelVoided ==
  ASSUME Bookings!BookingParameters, BookingInv, NEW p \in Bookings!Processes, Bookings!CancelVoids(p)
  PROVE  BookingInv'
<1> DEFINE c == proc[p].of
           x == [proc[p] EXCEPT !.step = "commit"]
           b == booking[c]
           n == points[c]
<1>1. /\ proc[p].op = "cancel" /\ proc[p].step = "void" /\ UNCHANGED <<hold, due, booking, phase, points, raced>>
      /\ \/ pay' = [pay EXCEPT ![c] = "CANCELLED"] /\ proc' = [proc EXCEPT ![p] = x]
         \/ UNCHANGED pay /\ proc' = [proc EXCEPT ![p] = Bookings!Idle]
  BY DEF Bookings!CancelVoids, Bookings!Cancelling, Bookings!Do
<1>2. /\ proc[p] \in CancelTx /\ c \in Customers /\ CancelOK(proc[p], b, n)
      /\ x \in CancelTx /\ x.of = c /\ x.step = "commit"
  BY <1>1, CancellingTx
<1>3. b \in BookingRow /\ n \in {"NONE", "TAKEN", "BACK"} /\ booking' = [booking EXCEPT ![c] = b]
      /\ points' = [points EXCEPT ![c] = n] /\ PaidOK(c, b, pay[c], n) /\ pay = [pay EXCEPT ![c] = pay[c]] /\ pay[c] \in Bookings!PayStatus
  BY <1>1, <1>2, BookingRows
<1>4. "CANCELLED" \in Bookings!PayStatus /\ CancelOK(x, b, n) /\ PaidOK(c, b, "CANCELLED", n)
  BY <1>1, <1>2, <1>3 DEF CancelOK, PaidOK, Bookings!PayStatus
<1>5. b.slot = booking[c].slot
  OBVIOUS
<1> HIDE DEF x, b, n
<1>7. CASE pay' = [pay EXCEPT ![c] = "CANCELLED"] /\ proc' = [proc EXCEPT ![p] = x]
  <2>1. Cancels(c, p, x, b, "CANCELLED", n)
    BY <1>1, <1>2, <1>3, <1>4, <1>5, <1>7 DEF Cancels
  <2> QED BY <2>1, CancellingStep
<1>8. CASE UNCHANGED pay /\ proc' = [proc EXCEPT ![p] = Bookings!Idle]
  <2>1. Cancels(c, p, Bookings!Idle, b, pay[c], n)
    BY <1>1, <1>2, <1>3, <1>5, <1>8 DEF Cancels
  <2> QED BY <2>1, CancellingStep
<1> QED BY <1>1, <1>7, <1>8

LEMMA CancelCommitted ==
  ASSUME Bookings!BookingParameters, BookingInv, NEW p \in Bookings!Processes, Bookings!CancelCommits(p)
  PROVE  BookingInv'
<1> DEFINE c == proc[p].of
           b == [booking[c] EXCEPT !.status = "CANCELLED", !.payment = pay[c]]
           m == pay[c]
           n == points[c]
<1>1. /\ proc[p].op = "cancel" /\ proc[p].step = "commit" /\ booking' = [booking EXCEPT ![c] = b]
      /\ proc' = [proc EXCEPT ![p] = Bookings!Idle] /\ UNCHANGED <<hold, due, phase, pay, points, raced>>
  BY DEF Bookings!CancelCommits, Bookings!Cancelling, Bookings!Do, Bookings!updateBooking
<1>2. proc[p] \in CancelTx /\ c \in Customers /\ CancelOK(proc[p], booking[c], n)
  BY <1>1, CancellingTx
<1>3. /\ booking[c] \in BookingRow /\ m \in Bookings!PayStatus /\ n \in {"NONE", "TAKEN", "BACK"} /\ pay' = [pay EXCEPT ![c] = m]
      /\ points' = [points EXCEPT ![c] = n] /\ PaidOK(c, booking[c], m, n)
  BY <1>1, <1>2, BookingRows
<1>4. b \in BookingRow /\ b.slot = booking[c].slot /\ b.status = "CANCELLED"
  BY <1>3 DEF BookingRow, Bookings!PayStatus, Bookings!Statuses
<1> HIDE DEF b
<1>5. PaidOK(c, b, m, n)
  BY <1>1, <1>2, <1>3, <1>4 DEF PaidOK, CancelOK
<1>6. Cancels(c, p, Bookings!Idle, b, m, n)
  BY <1>1, <1>2, <1>3, <1>4, <1>5 DEF Cancels
<1> QED BY <1>6, CancellingStep

\* The provider, its webhooks, the recovery loop and retries.
LEMMA Billed ==
  ASSUME Bookings!BookingParameters, BookingInv, NEW c \in Customers, NEW m \in Bookings!PayStatus, NEW value,
         Bookings!Bill(c, m, value)
  PROVE  BookingInv'
<1> DEFINE x == proc[c]
           b == booking[c]
           n == points[c]
<1>1. /\ b # Bookings!NoBooking /\ pay' = [pay EXCEPT ![c] = m]
      /\ UNCHANGED <<hold, due, booking, phase, points, proc, raced>>
  BY DEF Bookings!Bill
<1>2. /\ b \in BookingRow /\ n \in {"NONE", "TAKEN", "BACK"} /\ PaidOK(c, b, pay[c], n) /\ CreateOK(c, x, b, pay[c])
      /\ booking' = [booking EXCEPT ![c] = b] /\ points' = [points EXCEPT ![c] = n] /\ proc' = [proc EXCEPT ![c] = x]
      /\ x \in BookingTx(c) /\ c \in Bookings!Processes /\ raced \subseteq raced' /\ raced' \subseteq Slots
      /\ x \in CancelTx => x.of = c /\ CancelOK(x, b, n)
  BY <1>1, BookingRows
<1>3. x \notin CreateTx /\ PaidOK(c, b, m, n)
  BY <1>1, <1>2 DEF PaidOK, CreateOK
<1>4. x \in HoldTx => HoldOK(c, x)
  BY DEF BookingInv, HoldsKept
<1>5. Paid'
  <2>1. \A d \in Customers : pay'[d] = IF d = c THEN m ELSE pay[d]
    BY <1>1 DEF BookingInv, BookingTypes, Bookings!RowsOK
  <2>2. ASSUME NEW d \in Customers
        PROVE  CreateOK(d, proc[d], booking[d], pay'[d]) /\ PaidOK(d, booking[d], pay'[d], points[d])
    <3>1. CASE d = c
      BY <1>3, <2>1, <3>1 DEF CreateOK
    <3>2. CASE d # c
      BY <2>1, <3>2, BookingRows
    <3> QED BY <3>1, <3>2
  <2>3. ASSUME NEW p \in Bookings!Processes, proc[p] \in CancelTx
        PROVE  /\ p \in {proc[p].of, "sweeper"}
               /\ CancelOK(proc[p], booking[proc[p].of], points[proc[p].of])
    <3>1. proc[p].of \in Customers /\ p \in {proc[p].of, "sweeper"}
          /\ CancelOK(proc[p], booking[proc[p].of], points[proc[p].of])
      BY <2>3 DEF BookingInv, Paid, CancelTx
    <3> QED BY <1>1, <2>1, <3>1 DEF CancelOK
  <2> QED BY <1>1, <2>2, <2>3 DEF BookingInv, Paid
<1>6. HoldsKept' /\ PlacesCounted'
  <2>1. \A s \in Slots : Bookings!Occupying(s)' \subseteq Bookings!Occupying(s)
    BY <1>1 DEF Bookings!Occupying
  <2> QED BY <1>1, <1>2, <1>3, <1>4, <2>1, HoldsStep
<1>7. BookingTypes'
  <2>1. pay' \in [Customers -> Bookings!PayStatus]
    BY <1>1, <1>3 DEF BookingInv, BookingTypes, Bookings!RowsOK, Bookings!PayStatus
  <2>2. Bookings!RowsOK'
    BY <1>1, <2>1 DEF BookingInv, BookingTypes, Bookings!RowsOK, Bookings!PayStatus
  <2> QED BY <1>1, <2>2 DEF BookingInv, BookingTypes
<1> QED BY <1>5, <1>6, <1>7 DEF BookingInv

LEMMA Payed ==
  ASSUME Bookings!BookingParameters, BookingInv, NEW c \in Customers,
         \/ Bookings!Pay(c) \/ Bookings!Captures(c) \/ Bookings!AttemptFails(c) \/ Bookings!RefundFails(c)
         \/ Bookings!RetryStarts(c) \/ Bookings!RetryFinalizes(c) \/ Bookings!RetryFails(c)
  PROVE  BookingInv'
<1>1. pay[c] \in Bookings!PayStatus
  BY BookingRows
<1>2. {"CAPTURED", "RETRYABLE", "REFUND_FAILED", "OPEN"} \subseteq Bookings!PayStatus
  BY DEF Bookings!PayStatus, Bookings!Uncaptured, Bookings!Captured
<1>3. \E m \in Bookings!PayStatus : \E value : Bookings!Bill(c, m, value)
  BY <1>1, <1>2 DEF Bookings!Pay, Bookings!Captures, Bookings!AttemptFails, Bookings!RefundFails,
     Bookings!RetryStarts, Bookings!RetryFinalizes, Bookings!RetryFails
<1> QED BY <1>3, Billed

----------------------------------------------------------------------------
\* Holds lapse, are released or marked, and nobody was making a booking of them.
LEMMA HoldsFall ==
  ASSUME Bookings!BookingParameters, BookingInv, UNCHANGED <<proc, booking, pay, points, raced>>, Bookings!RowsOK',
         due \subseteq due',
         \A h \in Holds : hold'[h] = hold[h] \/ (hold'[h].status # "HELD" /\ ~Bookings!Consuming(h))
  PROVE  BookingInv'
<1>1. BookingTypes'
  BY DEF BookingInv, BookingTypes
<1>2. Paid'
  BY DEF BookingInv, Paid
<1>3. \A h : Bookings!Consuming(h)' = Bookings!Consuming(h)
  BY DEF Bookings!Consuming
<1>4. HoldsKept'
  <2> SUFFICES ASSUME NEW c \in Customers
               PROVE  HoldOK(c, proc[c])' /\ (proc[c] \in CreateTx => hold'[proc[c].hold].status = "HELD")
    BY DEF HoldsKept
  <2>1. HoldOK(c, proc[c]) /\ (proc[c] \in CreateTx => hold[proc[c].hold].status = "HELD")
    BY DEF BookingInv, HoldsKept
  <2>2. ASSUME proc[c] \in CreateTx
        PROVE  hold'[proc[c].hold].status = "HELD"
    <3>1. proc[c].hold \in Holds /\ Owner[proc[c].hold] = c
      BY <2>2, BookingRows DEF CreateTx, CreateOK
    <3>2. Bookings!Consuming(proc[c].hold)
      BY <2>2, <3>1, ConsumingTx
    <3> QED BY <2>1, <2>2, <3>1, <3>2
  <2>3. HoldOK(c, proc[c])'
    BY <1>3, <2>1 DEF HoldOK
  <2> QED BY <2>2, <2>3
<1>5. \A s \in Slots : Taken(s)' \subseteq Taken(s) /\ Bookings!Occupying(s)' = Bookings!Occupying(s) /\ Inserting(s)' = Inserting(s)
  BY <1>3 DEF Taken, Bookings!Occupying, Inserting
<1>6. PlacesCounted'
  BY <1>5, PlacesShrink
<1> QED BY <1>1, <1>2, <1>4, <1>6 DEF BookingInv

LEMMA HoldsFallen ==
  ASSUME Bookings!BookingParameters, BookingInv,
         \/ \E h \in Holds : Bookings!ReleaseHold(h) \/ Bookings!Lapse(h)
         \/ Bookings!ExpireHolds \/ (\E s \in Slots : Bookings!Approach(s)) \/ UNCHANGED Bookings!steps
  PROVE  BookingInv'
<1>0. Bookings!RowsOK
  BY DEF BookingInv, BookingTypes
<1>1. ASSUME NEW h \in Holds, Bookings!ReleaseHold(h)
      PROVE  BookingInv'
  <2>1. /\ hold' = [hold EXCEPT ![h].status = "RELEASED"] /\ ~Bookings!Consuming(h)
        /\ UNCHANGED <<due, booking, phase, pay, points, proc, raced>>
    BY <1>1 DEF Bookings!ReleaseHold, Bookings!HoldLocked
  <2>2. Bookings!RowsOK'
    BY <1>0, <2>1 DEF Bookings!RowsOK, Bookings!Processes
  <2>3. \A g \in Holds : hold'[g] = hold[g] \/ (hold'[g].status # "HELD" /\ ~Bookings!Consuming(g))
    BY <1>0, <2>1 DEF Bookings!RowsOK
  <2> QED BY <2>1, <2>2, <2>3, HoldsFall
<1>2. ASSUME NEW h \in Holds, Bookings!Lapse(h)
      PROVE  BookingInv'
  <2>1. due' = due \cup {h} /\ UNCHANGED <<hold, booking, phase, pay, points, proc, raced>>
    BY <1>2 DEF Bookings!Lapse
  <2>2. Bookings!RowsOK'
    BY <1>0, <2>1 DEF Bookings!RowsOK
  <2> QED BY <2>1, <2>2, HoldsFall
<1>3. CASE Bookings!ExpireHolds
  <2>1. /\ hold' = [h \in Holds |-> IF Bookings!Lapsed(h) THEN [hold[h] EXCEPT !.status = "EXPIRED"] ELSE hold[h]]
        /\ UNCHANGED <<due, booking, phase, pay, points, proc, raced>>
        /\ \A h \in Holds : Bookings!Lapsed(h) => ~Bookings!Consuming(h)
    BY <1>3 DEF Bookings!ExpireHolds, Bookings!HoldLocked
  <2>2. Bookings!RowsOK'
    BY <1>0, <2>1 DEF Bookings!RowsOK
  <2>3. \A g \in Holds : hold'[g] = hold[g] \/ (hold'[g].status # "HELD" /\ ~Bookings!Consuming(g))
    BY <1>0, <2>1 DEF Bookings!RowsOK
  <2> QED BY <2>1, <2>2, <2>3, HoldsFall
<1>4. ASSUME NEW s \in Slots, Bookings!Approach(s)
      PROVE  BookingInv'
  <2>1. phase' \in [Slots -> {"far", "near", "begun"}] /\ UNCHANGED <<hold, due, booking, pay, points, proc, raced>>
    BY <1>0, <1>4 DEF Bookings!Approach, Bookings!RowsOK
  <2>2. Bookings!RowsOK'
    BY <1>0, <2>1 DEF Bookings!RowsOK
  <2> QED BY <2>1, <2>2, HoldsFall
<1>5. CASE UNCHANGED Bookings!steps
  <2>1. UNCHANGED <<hold, due, booking, phase, pay, points, proc, raced>>
    BY <1>5 DEF Bookings!steps
  <2>2. Bookings!RowsOK'
    BY <1>0, <2>1 DEF Bookings!RowsOK
  <2> QED BY <2>1, <2>2, HoldsFall
<1> QED BY <1>1, <1>2, <1>3, <1>4, <1>5

\* A hold becomes a booking: it keeps its place.
LEMMA PlaceTurns ==
  ASSUME Bookings!BookingParameters, BookingInv, NEW c \in Customers, NEW h \in Holds, UNCHANGED raced,
         h \in Taken(hold[h].slot),
         \A s \in Slots : Taken(s)' \subseteq Taken(s) \ {h} /\ Inserting(s)' \subseteq Inserting(s),
         \A s \in Slots : Bookings!Occupying(s)' \subseteq Bookings!Occupying(s) \cup (IF s = hold[h].slot THEN {c} ELSE {})
  PROVE  PlacesCounted'
<1> SUFFICES ASSUME NEW s \in Slots \ raced
             PROVE  Places(s)' <= Capacity /\ (Inserting(s)' # {} => Places(s)' < Capacity)
  BY DEF PlacesCounted
<1>1. Taken(s) \in SUBSET Holds /\ Bookings!Occupying(s) \in SUBSET Customers
  BY DEF Taken, Bookings!Occupying
<1>2. Places(s) <= Capacity /\ (Inserting(s)' # {} => Places(s) < Capacity) /\ Capacity \in Nat
  BY BookingFinite DEF BookingInv, PlacesCounted
<1>3. /\ Cardinality(Taken(s)) \in Nat /\ Cardinality(Taken(s)') \in Nat /\ IsFiniteSet(Taken(s)) /\ IsFiniteSet(Taken(s) \ {h})
      /\ Cardinality(Bookings!Occupying(s)) \in Nat /\ Cardinality(Bookings!Occupying(s)') \in Nat /\ IsFiniteSet(Bookings!Occupying(s))
      /\ Taken(s)' \in SUBSET Holds /\ Bookings!Occupying(s)' \in SUBSET Customers
  BY <1>1, BookingFinite
<1>4. Places(s)' = Cardinality(Taken(s)') + Cardinality(Bookings!Occupying(s)')
  BY DEF Places
<1>5. CASE s = hold[h].slot
  <2>1. Cardinality(Taken(s)') <= Cardinality(Taken(s) \ {h})
    BY <1>3, FS_Subset
  <2>2. Cardinality(Taken(s) \ {h}) = Cardinality(Taken(s)) - 1
    BY <1>3, <1>5, FS_RemoveElement
  <2>3. Cardinality(Bookings!Occupying(s)') <= Cardinality(Bookings!Occupying(s)) + 1
    <3>1. /\ IsFiniteSet(Bookings!Occupying(s) \cup {c})
          /\ Cardinality(Bookings!Occupying(s) \cup {c}) \in {Cardinality(Bookings!Occupying(s)), Cardinality(Bookings!Occupying(s)) + 1}
      BY <1>3, FS_AddElement
    <3>2. Cardinality(Bookings!Occupying(s)') <= Cardinality(Bookings!Occupying(s) \cup {c})
      BY <1>5, <3>1, FS_Subset
    <3> QED BY <1>3, <3>1, <3>2
  <2> QED BY <1>2, <1>3, <1>4, <2>1, <2>2, <2>3 DEF Places
<1>6. CASE s # hold[h].slot
  <2>1. Cardinality(Taken(s)') <= Cardinality(Taken(s)) /\ Cardinality(Bookings!Occupying(s)') <= Cardinality(Bookings!Occupying(s))
    BY <1>3, <1>6, FS_Subset
  <2> QED BY <1>2, <1>3, <1>4, <2>1 DEF Places
<1> QED BY <1>5, <1>6

LEMMA HoldInserted ==
  ASSUME Bookings!BookingParameters, BookingInv, NEW c \in Customers, Bookings!HoldInserts(c)
  PROVE  BookingInv'
<1> DEFINE s == proc[c].slot
           g == proc[c].hold
           stale == proc[c].stale
           others == \E o \in Customers \ {c} : proc[o].op = "insert" /\ proc[o].slot = s
<1>1. /\ proc[c].op = "insert" /\ proc' = [proc EXCEPT ![c] = Bookings!Idle]
      /\ hold' = [h \in Holds |-> IF h = g THEN [status |-> "HELD", slot |-> s]
                                  ELSE IF h \in stale THEN [hold[h] EXCEPT !.status = "EXPIRED"] ELSE hold[h]]
      /\ raced' = IF others THEN raced \cup {s} ELSE raced
      /\ UNCHANGED <<due, booking, phase, pay, points>>
  BY DEF Bookings!HoldInserts, Bookings!Do
<1>2. proc[c] \in HoldTx /\ g \in Holds /\ s \in Slots /\ Owner[g] = c /\ \A h \in stale : h \in Holds /\ ~Bookings!Consuming(h)
  <2>1. proc[c] \in HoldTx
    BY <1>1, BookingRows, TxKinds
  <2>2. HoldOK(c, proc[c])
    BY DEF BookingInv, HoldsKept
  <2> QED BY <2>1, <2>2 DEF HoldTx, HoldOK
<1>3. /\ \A q \in Customers : proc'[q] = IF q = c THEN Bookings!Idle ELSE proc[q]
      /\ Bookings!Idle \notin HoldTx /\ Bookings!Idle \notin CreateTx /\ Bookings!Idle \notin CancelTx
      /\ \A q \in Customers : proc'[q] \in BookingTx(q)
  BY <1>1, BookingRows, ProcMoves, TxKinds DEF BookingInv
<1>4. Bookings!RowsOK /\ hold \in [Holds -> [status : {"NONE", "HELD", "CONSUMED", "EXPIRED", "RELEASED"}, slot : Slots \cup {"NONE"}]]
  BY DEF BookingInv, BookingTypes, Bookings!RowsOK
<1>5. BookingTypes'
  <2>1. hold' \in [Holds -> [status : {"NONE", "HELD", "CONSUMED", "EXPIRED", "RELEASED"}, slot : Slots \cup {"NONE"}]]
    <3> SUFFICES ASSUME NEW h \in Holds PROVE hold'[h] \in [status : {"NONE", "HELD", "CONSUMED", "EXPIRED", "RELEASED"}, slot : Slots \cup {"NONE"}]
      BY <1>1
    <3> QED BY <1>1, <1>2, <1>4
  <2>2. /\ DOMAIN proc' = Bookings!Processes /\ proc' = [p \in Bookings!Processes |-> proc'[p]]
        /\ \A p \in Bookings!Processes : proc'[p] \in BookingTx(p)
    BY <1>1, BookingRows, ProcMoves DEF BookingInv
  <2>3. raced' \subseteq Slots
    BY <1>1, <1>2, BookingRows
  <2> QED BY <1>1, <1>4, <2>1, <2>2, <2>3 DEF BookingTypes, Bookings!RowsOK
<1>6. Paid'
  <2>1. /\ booking' = [booking EXCEPT ![c] = booking[c]] /\ pay' = [pay EXCEPT ![c] = pay[c]]
        /\ points' = [points EXCEPT ![c] = points[c]] /\ PaidOK(c, booking[c], pay[c], points[c])
        /\ Bookings!Idle \in BookingTx(c) /\ c \in Bookings!Processes /\ "sweeper" \notin Customers
    BY <1>1, BookingRows, BookingFinite
  <2> QED BY <1>1, <1>3, <2>1, PaidStep DEF BookingInv
<1>7. \A h \in Holds : Bookings!Consuming(h)' => Bookings!Consuming(h)
  <2> SUFFICES ASSUME NEW h \in Holds, Bookings!Consuming(h)' PROVE Bookings!Consuming(h)
    OBVIOUS
  <2>1. Owner[h] \in Customers
    BY BookingFinite
  <2>2. proc'[Owner[h]].op = "create"
    BY DEF Bookings!Consuming
  <2>3. Owner[h] # c
    BY <1>3, <2>1, <2>2, BookingRows
  <2> QED BY <1>3, <2>1, <2>3 DEF Bookings!Consuming
<1>8. HoldsKept'
  <2> SUFFICES ASSUME NEW d \in Customers
               PROVE  HoldOK(d, proc[d])' /\ (proc'[d] \in CreateTx => hold'[proc'[d].hold].status = "HELD")
    BY DEF HoldsKept
  <2>1. CASE d = c
    BY <1>3, <2>1 DEF HoldOK
  <2>2. CASE d # c
    <3>1. proc'[d] = proc[d] /\ HoldOK(d, proc[d]) /\ (proc[d] \in CreateTx => hold[proc[d].hold].status = "HELD")
      BY <1>3, <2>2 DEF BookingInv, HoldsKept
    <3>2. HoldOK(d, proc[d])'
      <4> SUFFICES ASSUME proc[d] \in HoldTx PROVE Owner[proc[d].hold] = d /\ \A h \in proc[d].stale : h \in due' /\ ~Bookings!Consuming(h)'
        BY <3>1 DEF HoldOK
      <4>1. proc[d].stale \subseteq Holds
        BY DEF HoldTx
      <4> QED BY <1>1, <1>7, <3>1, <4>1 DEF HoldOK
    <3>3. ASSUME proc[d] \in CreateTx
          PROVE  hold'[proc[d].hold].status = "HELD"
      <4>1. proc[d].hold \in Holds /\ Owner[proc[d].hold] = d
        BY <3>3, BookingRows DEF CreateTx, CreateOK
      <4>2. Bookings!Consuming(proc[d].hold)
        BY <3>3, <4>1, ConsumingTx
      <4> QED BY <1>1, <1>2, <3>1, <3>3, <4>1, <4>2
    <3> QED BY <3>1, <3>2, <3>3
  <2> QED BY <2>1, <2>2
<1>9. ASSUME NEW t \in Slots
      PROVE  /\ t # s => Taken(t)' \subseteq Taken(t)
             /\ Taken(t)' \subseteq Taken(t) \cup {g}
             /\ Bookings!Occupying(t)' = Bookings!Occupying(t) /\ Inserting(t)' = Inserting(t) \ {c}
  <2>1. \A h \in Taken(t)' : h = g \/ h \in Taken(t)
    BY <1>1, <1>4, <1>7 DEF Taken
  <2>2. t # s => g \notin Taken(t)'
    BY <1>1, <1>2 DEF Taken
  <2>3. Bookings!Occupying(t)' = Bookings!Occupying(t)
    BY <1>1 DEF Bookings!Occupying
  <2>4. Inserting(t)' = Inserting(t) \ {c}
    BY <1>3 DEF Inserting
  <2> QED BY <2>1, <2>2, <2>3, <2>4
<1>10. PlacesCounted'
  <2> SUFFICES ASSUME NEW t \in Slots \ raced'
               PROVE  Places(t)' <= Capacity /\ (Inserting(t)' # {} => Places(t)' < Capacity)
    BY DEF PlacesCounted
  <2>0. t \in Slots \ raced
    BY <1>1
  <2>1. Taken(t) \in SUBSET Holds /\ Taken(t)' \in SUBSET Holds /\ Bookings!Occupying(t) \in SUBSET Customers
    BY DEF Taken, Bookings!Occupying
  <2>2. /\ IsFiniteSet(Taken(t)) /\ Cardinality(Taken(t)) \in Nat /\ Cardinality(Taken(t)') \in Nat
        /\ Cardinality(Bookings!Occupying(t)) \in Nat /\ Capacity \in Nat
    BY <2>1, BookingFinite
  <2>3. Places(t) <= Capacity /\ (Inserting(t) # {} => Places(t) < Capacity)
    BY <2>0 DEF BookingInv, PlacesCounted
  <2>4. Places(t)' = Cardinality(Taken(t)') + Cardinality(Bookings!Occupying(t))
    BY <1>9 DEF Places
  <2>5. CASE t # s
    <3>1. Cardinality(Taken(t)') <= Cardinality(Taken(t))
      BY <1>9, <2>2, <2>5, FS_Subset
    <3> QED BY <1>9, <2>2, <2>3, <2>4, <3>1 DEF Places
  <2>6. CASE t = s
    <3>1. Inserting(t)' = {}
      <4>1. ~others
        BY <1>1, <1>2, <2>6
      <4> QED BY <1>9, <2>6, <4>1 DEF Inserting
    <3>2. c \in Inserting(t)
      BY <1>1, <1>2, <2>6 DEF Inserting
    <3>3. /\ IsFiniteSet(Taken(t) \cup {g})
          /\ Cardinality(Taken(t) \cup {g}) \in {Cardinality(Taken(t)), Cardinality(Taken(t)) + 1}
      BY <2>2, FS_AddElement
    <3>4. Cardinality(Taken(t)') <= Cardinality(Taken(t) \cup {g})
      BY <1>9, <3>3, FS_Subset
    <3>5. Cardinality(Taken(t)') <= Cardinality(Taken(t)) + 1 /\ Places(t) < Capacity
      BY <2>2, <2>3, <3>2, <3>3, <3>4
    <3> QED BY <2>2, <2>4, <3>1, <3>5 DEF Places
  <2> QED BY <2>5, <2>6
<1> QED BY <1>5, <1>6, <1>8, <1>10 DEF BookingInv

\* The part of a move that PaidStep asks for.
MoveKeepsPaid(c, p, x, b, m, n) ==
  /\ x \in BookingTx(p) /\ PaidOK(c, b, m, n)
  /\ proc' = [proc EXCEPT ![p] = x] /\ booking' = [booking EXCEPT ![c] = b]
  /\ pay' = [pay EXCEPT ![c] = m] /\ points' = [points EXCEPT ![c] = n]
  /\ x \in CreateTx => p = c /\ CreateOK(c, x, b, m)
  /\ x \in CancelTx => x.of = c /\ p \in {c, "sweeper"} /\ CancelOK(x, b, n)
  /\ \A q \in Bookings!Processes \ {p} :
       (q = c /\ proc[q] \in CreateTx) \/ (proc[q] \in CancelTx /\ proc[q].of = c) =>
         b = booking[c] /\ m = pay[c] /\ n = points[c] /\ x \notin CancelTx

LEMMA PaidMoves ==
  ASSUME BookingTypes, Paid, NEW c \in Customers, NEW p \in Bookings!Processes, NEW x, NEW b, NEW m, NEW n,
         MoveKeepsPaid(c, p, x, b, m, n), "sweeper" \notin Customers
  PROVE  Paid'
BY PaidStep DEF MoveKeepsPaid

\* What Create and Reschedule write is a row.
LEMMA RowWritten ==
  ASSUME NEW s \in Bookings!Statuses, NEW t \in Slots \cup {"NONE"}
  PROVE  /\ \A m \in Bookings!PayStatus, u \in Holds, r \in BookingRow :
              [r EXCEPT !.status = s, !.slot = t, !.payment = m, !.until = u] \in BookingRow
         /\ \A r \in BookingRow : r.count + 1 \in 0..MaxReschedules =>
              [r EXCEPT !.status = s, !.slot = t, !.count = @ + 1] \in BookingRow
<1>1. \A m \in Bookings!PayStatus, u \in Holds, r \in BookingRow :
              [r EXCEPT !.status = s, !.slot = t, !.payment = m, !.until = u] \in BookingRow
  BY DEF BookingRow, Bookings!PayStatus
<1>2. ASSUME NEW r \in BookingRow, NEW k \in 0..MaxReschedules
      PROVE  [r EXCEPT !.status = s, !.slot = t, !.count = k] \in BookingRow
  BY DEF BookingRow
<1> QED BY <1>1, <1>2

\* A customer's hold is used up by a booking in its slot.
LEMMA HoldConsumed ==
  ASSUME Bookings!BookingParameters, BookingInv, NEW c \in Customers, NEW h \in Holds, Owner[h] = c,
         h \in Taken(hold[h].slot), NEW b \in BookingRow, b.slot = hold[h].slot,
         hold' = [hold EXCEPT ![h].status = "CONSUMED"], booking' = [booking EXCEPT ![c] = b],
         NEW x \in {proc[c], Bookings!Idle}, proc' = [proc EXCEPT ![c] = x], x \notin CreateTx,
         UNCHANGED <<due, phase, pay, points, raced>>, Paid'
  PROVE  BookingInv'
<1>1. /\ x \in BookingTx(c) /\ c \in Bookings!Processes /\ (x \in HoldTx => x = proc[c])
      /\ \A q \in Customers : proc'[q] = IF q = c THEN x ELSE proc[q]
      /\ \A q \in Customers : proc'[q] \in BookingTx(q)
  <2>1. /\ c \in Bookings!Processes /\ Bookings!Idle \in BookingTx(c) /\ Bookings!Idle.op = "idle"
        /\ proc[c] \in BookingTx(c) /\ BookingTypes
    BY BookingRows DEF BookingInv
  <2>2. x \in BookingTx(c)
    BY <2>1
  <2>3. Bookings!Idle \notin HoldTx
    BY <2>1, TxKinds
  <2>4. /\ \A q \in Bookings!Processes : proc'[q] = IF q = c THEN x ELSE proc[q]
        /\ \A q \in Bookings!Processes : proc'[q] \in BookingTx(q)
    BY <2>1, <2>2, ProcMoves
  <2>5. \A q \in Customers : q \in Bookings!Processes
    BY DEF Bookings!Processes
  <2>6. x \in HoldTx => x = proc[c]
    BY <2>3
  <2> QED BY <2>1, <2>2, <2>4, <2>5, <2>6
<1>2. Bookings!RowsOK /\ \A g \in Holds : g # h => hold'[g] = hold[g]
  BY DEF BookingInv, BookingTypes, Bookings!RowsOK
<1>3. hold'[h].status = "CONSUMED"
  BY DEF BookingInv, BookingTypes, Bookings!RowsOK
<1>4. BookingTypes'
  <2>1. /\ hold' \in [Holds -> [status : {"NONE", "HELD", "CONSUMED", "EXPIRED", "RELEASED"}, slot : Slots \cup {"NONE"}]]
        /\ booking' \in [Customers -> BookingRow]
    BY <1>2 DEF Bookings!RowsOK, BookingRow
  <2>2. /\ DOMAIN proc' = Bookings!Processes /\ proc' = [p \in Bookings!Processes |-> proc'[p]]
        /\ \A p \in Bookings!Processes : proc'[p] \in BookingTx(p)
    BY <1>1, ProcMoves DEF BookingInv
  <2> QED BY <1>2, <2>1, <2>2 DEF BookingTypes, Bookings!RowsOK, BookingRow
<1>5. \A g \in Holds : Bookings!Consuming(g)' => Bookings!Consuming(g) /\ Owner[g] # c
  <2> SUFFICES ASSUME NEW g \in Holds, Bookings!Consuming(g)' PROVE Bookings!Consuming(g) /\ Owner[g] # c
    OBVIOUS
  <2>1. Owner[g] \in Customers
    BY BookingFinite
  <2>2. proc'[Owner[g]] \in CreateTx
    BY <1>1, <2>1, TxKinds DEF Bookings!Consuming
  <2> QED BY <1>1, <2>1, <2>2 DEF Bookings!Consuming
<1>6. HoldsKept'
  <2> SUFFICES ASSUME NEW d \in Customers
               PROVE  HoldOK(d, proc[d])' /\ (proc'[d] \in CreateTx => hold'[proc'[d].hold].status = "HELD")
    BY DEF HoldsKept
  <2>1. HoldOK(d, proc[d]) /\ (proc[d] \in CreateTx => hold[proc[d].hold].status = "HELD")
    BY DEF BookingInv, HoldsKept
  <2>2. HoldOK(d, proc[d])'
    <3> SUFFICES ASSUME proc'[d] \in HoldTx
                 PROVE  Owner[proc'[d].hold] = d /\ \A g \in proc'[d].stale : g \in due' /\ ~Bookings!Consuming(g)'
      BY DEF HoldOK
    <3>1. proc'[d] = proc[d] /\ proc[d].stale \subseteq Holds
      BY <1>1 DEF HoldTx
    <3> QED BY <1>5, <2>1, <3>1 DEF HoldOK
  <2>3. ASSUME proc'[d] \in CreateTx
        PROVE  hold'[proc'[d].hold].status = "HELD"
    <3>1. d # c /\ proc'[d] = proc[d] /\ proc[d] \in CreateTx
      BY <1>1, <2>3
    <3>2. proc[d].hold \in Holds /\ Owner[proc[d].hold] = d
      BY <3>1, BookingRows DEF CreateTx, CreateOK
    <3> QED BY <1>2, <2>1, <3>1, <3>2
  <2> QED BY <2>2, <2>3
<1>7. \A s \in Slots : Taken(s)' \subseteq Taken(s) \ {h} /\ Inserting(s)' \subseteq Inserting(s)
  BY <1>1, <1>2, <1>3, <1>5 DEF Taken, Inserting
<1>8. \A s \in Slots : Bookings!Occupying(s)' \subseteq Bookings!Occupying(s) \cup (IF s = hold[h].slot THEN {c} ELSE {})
  <2>1. \A d \in Customers : booking'[d] = IF d = c THEN b ELSE booking[d]
    BY <1>2 DEF Bookings!RowsOK
  <2> QED BY <2>1 DEF Bookings!Occupying
<1>9. PlacesCounted'
  BY <1>7, <1>8, PlaceTurns
<1> QED BY <1>4, <1>6, <1>9 DEF BookingInv

LEMMA CreateCommitted ==
  ASSUME Bookings!BookingParameters, BookingInv, NEW c \in Customers, Bookings!CreateCommits(c)
  PROVE  BookingInv'
<1> DEFINE h == proc[c].hold
           m == pay[c]
           n == points[c]
           status == IF m \in Bookings!Captured THEN "REQUESTED" ELSE "PENDING_PAYMENT"
           b == [Bookings!NoBooking EXCEPT !.status = status, !.slot = hold[h].slot, !.payment = m, !.until = h]
<1>1. /\ proc[c].op = "create" /\ proc[c].step = "commit" /\ proc' = [proc EXCEPT ![c] = Bookings!Idle]
      /\ booking' = [booking EXCEPT ![c] = b] /\ hold' = [hold EXCEPT ![h].status = "CONSUMED"]
      /\ UNCHANGED <<due, phase, pay, points, raced>>
  BY DEF Bookings!CreateCommits, Bookings!Creating, Bookings!insertBooking, Bookings!Do
<1>2. proc[c] \in CreateTx /\ h \in Holds /\ Owner[h] = c /\ hold[h].status = "HELD" /\ Bookings!Consuming(h)
  <2>1. proc[c] \in CreateTx
    BY <1>1, BookingRows, TxKinds
  <2>2. h \in Holds /\ Owner[h] = c /\ hold[h].status = "HELD"
    BY <2>1, BookingRows DEF CreateTx, CreateOK, BookingInv, HoldsKept
  <2> QED BY <2>1, <2>2, ConsumingTx
<1>3. h \in Taken(hold[h].slot)
  BY <1>2 DEF Taken
<1>4. /\ booking[c].status = "NONE" /\ m # "NONE" /\ (Method[c] = "WALLET" => m = "CAPTURED")
      /\ Method[c] \in {"ONLINE", "WALLET"} /\ (Method[c] = "ONLINE" => n = "NONE")
  <2>1. CreateOK(c, proc[c], booking[c], m) /\ PaidOK(c, booking[c], m, n) /\ Method[c] \in {"ONLINE", "WALLET"}
    BY BookingRows, BookingFinite
  <2>2. booking[c].status = "NONE" /\ m # "NONE"
    BY <1>1, <1>2, <2>1 DEF CreateOK, Bookings!NoBooking
  <2> QED BY <2>1, <2>2 DEF PaidOK
<1>5. b \in BookingRow /\ b.slot = hold[h].slot /\ b.status = status
  <2>1. m \in Bookings!PayStatus /\ hold[h].slot \in Slots \cup {"NONE"} /\ MaxReschedules \in Nat
    BY <1>2, BookingRows, BookingFinite DEF BookingInv, BookingTypes, Bookings!RowsOK
  <2>2. Bookings!NoBooking \in BookingRow
    BY <2>1 DEF BookingRow, Bookings!NoBooking, Bookings!PayStatus
  <2>3. status \in Bookings!Statuses
    BY DEF Bookings!Statuses
  <2>4. b.slot = hold[h].slot /\ b.status = status
    BY DEF Bookings!NoBooking
  <2> HIDE DEF status, h, m
  <2> QED BY <1>2, <2>1, <2>2, <2>3, <2>4, RowWritten
<1>6. Paid'
  <2>1. PaidOK(c, b, m, n)
    <3> HIDE DEF b
    <3> QED BY <1>4, <1>5 DEF PaidOK, Bookings!Captured
  <2>2. /\ pay' = [pay EXCEPT ![c] = m] /\ points' = [points EXCEPT ![c] = n] /\ Bookings!Idle \in BookingTx(c)
        /\ c \in Bookings!Processes /\ Bookings!Idle.op = "idle" /\ "sweeper" \notin Customers
    BY <1>1, BookingRows, BookingFinite
  <2>3. Bookings!Idle \notin CreateTx /\ Bookings!Idle \notin CancelTx
    BY <2>2, TxKinds
  <2>4. \A q \in Bookings!Processes : ~(proc[q] \in CancelTx /\ proc[q].of = c)
    BY <1>4, Alone
  <2> HIDE DEF b, m, n
  <2> QED BY <1>1, <2>1, <2>2, <2>3, <2>4, PaidStep DEF BookingInv
<1>7. Bookings!Idle \notin CreateTx
  BY BookingRows, TxKinds
<1> HIDE DEF b, h
<1> QED BY <1>1, <1>2, <1>3, <1>5, <1>6, <1>7, HoldConsumed

LEMMA Rescheduled ==
  ASSUME Bookings!BookingParameters, BookingInv, NEW c \in Customers, NEW h \in Holds, Bookings!Reschedule(c, h)
  PROVE  BookingInv'
<1> DEFINE v == [booking[c] EXCEPT !.status = "REQUESTED", !.slot = hold[h].slot, !.count = @ + 1]
<1>1. /\ Owner[h] = c /\ hold[h].status = "HELD" /\ h \notin due /\ booking[c].count < MaxReschedules
      /\ Bookings!mutate(c, {"REQUESTED", "ACCEPTED"}, v) /\ hold' = [hold EXCEPT ![h].status = "CONSUMED"]
      /\ booking[c].status \in {"REQUESTED", "ACCEPTED"}
  BY DEF Bookings!Reschedule, Bookings!mutate
<1>2. v \in BookingRow /\ v.slot = hold[h].slot /\ v.status = "REQUESTED"
  <2>1. booking[c] \in BookingRow /\ hold[h].slot \in Slots \cup {"NONE"} /\ MaxReschedules \in Nat
    BY BookingRows, BookingFinite DEF BookingInv, BookingTypes, Bookings!RowsOK
  <2>2. booking[c].count + 1 \in 0..MaxReschedules
    BY <1>1, <2>1 DEF BookingRow
  <2>3. "REQUESTED" \in Bookings!Statuses
    BY DEF Bookings!Statuses
  <2>4. v \in BookingRow
    BY <2>1, <2>2, <2>3, RowWritten
  <2>5. v.slot = hold[h].slot /\ v.status = "REQUESTED"
    BY <2>1 DEF BookingRow
  <2> QED BY <2>4, <2>5
<1>3. h \in Taken(hold[h].slot)
  BY <1>1 DEF Taken
<1> HIDE DEF v
<1>4. /\ Moves(c, c, proc[c], v, pay[c], points[c]) /\ booking' = [booking EXCEPT ![c] = v]
      /\ UNCHANGED <<due, phase, pay, points, proc, raced>>
  BY <1>1, <1>2, MutateMoves
<1>5. Paid'
  <2>1. c \in Bookings!Processes /\ "sweeper" \notin Customers
    BY BookingRows, BookingFinite
  <2>2. /\ Paid /\ BookingTypes
    BY DEF BookingInv
  <2>3. MoveKeepsPaid(c, c, proc[c], v, pay[c], points[c])
    BY <1>4 DEF Moves, MoveKeepsPaid
  <2> QED BY <2>1, <2>2, <2>3, PaidMoves
<1>6. proc[c] \notin CreateTx
  <2>1. CreateOK(c, proc[c], booking[c], pay[c])
    BY BookingRows
  <2> QED BY <1>1, <2>1 DEF CreateOK, Bookings!NoBooking
<1>7. proc' = [proc EXCEPT ![c] = proc[c]]
  BY <1>4, BookingRows
<1> QED BY <1>1, <1>2, <1>3, <1>4, <1>5, <1>6, <1>7, HoldConsumed

LEMMA BookingNext ==
  ASSUME Bookings!BookingParameters, BookingInv, [Bookings!Next]_(Bookings!vars)
  PROVE  BookingInv'
<1>1. CASE UNCHANGED Bookings!steps
  BY <1>1, HoldsFallen
<1>2. CASE Bookings!Step
  BY <1>2, HoldBegun, HoldsFallen, CreateStarted, Rescheduled, HoldCounted, HoldInserted, Made, CreateCommitted,
     Confirmed, Payed, Served, CancelStarted, CancelReversed, CancelRefunded, CancelVoided, CancelCommitted, Aborted
     DEF Bookings!Step
<1> QED BY <1>1, <1>2 DEF Bookings!Next, Bookings!vars, Bookings!OthersLeave

----------------------------------------------------------------------------
\* The money of a cancelled booking: void, refund asked for, or written open again
\* by a retry.  Nothing takes a payment out of this condition.
Compensated == {"CANCELLED", "REFUND_FAILED"} \cup Bookings!Refunding
Settled(c) == pay[c] \in Compensated \/ charge[c].reopened
Committing(p) == proc[p].op = "cancel" /\ proc[p].step = "commit"

Settlement ==
  /\ Bookings!ChargesOK
  /\ \A c \in Customers : booking[c].status = "CANCELLED" => Settled(c)
  /\ \A p \in Bookings!Processes : Committing(p) => Settled(proc[p].of)

\* The steps that touch a payment.
PaymentSteps(c) ==
  \/ Bookings!CreatePays(c) \/ Bookings!CancelRefunds(c) \/ Bookings!finalizeRefund(c)
  \/ Bookings!Pay(c) \/ Bookings!Captures(c) \/ Bookings!AttemptFails(c) \/ Bookings!RefundFails(c)
  \/ Bookings!RetryStarts(c) \/ Bookings!RetryFinalizes(c) \/ Bookings!RetryFails(c)

LEMMA OtherSteps ==
  ASSUME Bookings!Step
  PROVE  \/ UNCHANGED <<pay, charge>>
         \/ \E c \in Customers : PaymentSteps(c)
         \/ \E p \in Bookings!Processes : Bookings!CancelVoids(p)
<1>1. CASE \E c \in Customers, h \in Holds, s \in Slots : Bookings!HoldBegins(c, h, s)
  BY <1>1 DEF Bookings!HoldBegins
<1>2. CASE \E h \in Holds : Bookings!ReleaseHold(h) \/ Bookings!Lapse(h)
  BY <1>2 DEF Bookings!ReleaseHold, Bookings!Lapse
<1>3. CASE \E c \in Customers, h \in Holds : Bookings!CreateStarts(c, h) \/ Bookings!Reschedule(c, h)
  BY <1>3 DEF Bookings!CreateStarts, Bookings!Reschedule, Bookings!mutate
<1>4. ASSUME NEW c \in Customers,
             \/ Bookings!HoldCounts(c) \/ Bookings!HoldInserts(c)
             \/ Bookings!CreateRedeems(c) \/ Bookings!CreateRollsBack(c) \/ Bookings!CreateCommits(c)
             \/ Bookings!ConfirmPayment(c) \/ Bookings!Start(c)
             \/ Bookings!CancelStarts(c) \/ Bookings!CancelReverses(c) \/ Bookings!ExpireStarts(c)
      PROVE  UNCHANGED <<pay, charge>>
  BY <1>4 DEF Bookings!HoldCounts, Bookings!HoldInserts, Bookings!CreateRedeems, Bookings!CreateRollsBack,
     Bookings!CreateCommits, Bookings!ConfirmPayment, Bookings!Start, Bookings!mutate,
     Bookings!CancelStarts, Bookings!CancelReverses, Bookings!ExpireStarts
<1>5. ASSUME NEW c \in Customers, Bookings!Complete(c) \/ Bookings!ConfirmCompletion(c) \/ Bookings!Dispute(c)
      PROVE  UNCHANGED <<pay, charge>>
  BY <1>5 DEF Bookings!Complete, Bookings!ConfirmCompletion, Bookings!Dispute, Bookings!Moves, Bookings!mutate
<1>6. CASE \E c \in Customers, target \in Bookings!Statuses : Bookings!ProviderTransition(c, target)
  BY <1>6 DEF Bookings!ProviderTransition, Bookings!mutate
<1>7. CASE \E c \in Customers, who \in {"CUSTOMER_NO_SHOW", "PROVIDER_NO_SHOW"} : Bookings!NoShow(c, who)
  BY <1>7 DEF Bookings!NoShow, Bookings!Moves, Bookings!mutate
<1>8. CASE \E p \in Bookings!Processes : Bookings!CancelCommits(p) \/ Bookings!Abort(p)
  BY <1>8 DEF Bookings!CancelCommits, Bookings!Abort
<1>9. CASE Bookings!ExpireHolds \/ \E s \in Slots : Bookings!Approach(s)
  BY <1>9 DEF Bookings!ExpireHolds, Bookings!Approach
<1> QED BY <1>1, <1>2, <1>3, <1>4, <1>5, <1>6, <1>7, <1>8, <1>9 DEF Bookings!Step, PaymentSteps

\* A row of Charge, whatever retries and the provider do to it.
LEMMA ChargeUpdates ==
  ASSUME NEW v \in Bookings!Charge, NEW to \in Bookings!Session, NEW again \in BOOLEAN
  PROVE  /\ [v EXCEPT !.session = to] \in Bookings!Charge /\ [v EXCEPT !.older = to] \in Bookings!Charge
         /\ [v EXCEPT !.asking = again] \in Bookings!Charge
         /\ [v EXCEPT !.session = to].reopened = v.reopened /\ [v EXCEPT !.older = to].reopened = v.reopened
         /\ [v EXCEPT !.asking = again].reopened = v.reopened
         /\ v.session \in Bookings!Session /\ v.older \in Bookings!Session /\ v.reopened \in BOOLEAN
BY DEF Bookings!Charge

\* What Bill writes keeps the condition.
LEMMA BillSettles ==
  ASSUME Bookings!RowsOK, Bookings!ChargesOK, NEW c \in Customers, NEW m, NEW value \in Bookings!Charge,
         Bookings!Bill(c, m, value),
         charge[c].reopened => value.reopened,
         pay[c] \in Compensated => m \in Compensated \/ value.reopened
  PROVE  Bookings!ChargesOK' /\ \A d \in Customers : Settled(d) => Settled(d)'
<1>1. /\ pay' = [pay EXCEPT ![c] = m] /\ charge' = [charge EXCEPT ![c] = value]
  BY DEF Bookings!Bill
<1>2. Bookings!ChargesOK'
  BY <1>1 DEF Bookings!ChargesOK
<1>3. \A d \in Customers : pay'[d] = (IF d = c THEN m ELSE pay[d]) /\ charge'[d] = (IF d = c THEN value ELSE charge[d])
  BY <1>1 DEF Bookings!RowsOK, Bookings!ChargesOK
<1>4. ASSUME NEW d \in Customers, Settled(d)
      PROVE  Settled(d)'
  <2>1. CASE d = c
    BY <1>3, <1>4, <2>1 DEF Settled
  <2>2. CASE d # c
    BY <1>3, <1>4, <2>2 DEF Settled
  <2> QED BY <2>1, <2>2
<1> QED BY <1>2, <1>4

LEMMA SettledStays ==
  ASSUME Bookings!BookingParameters, BookingInv, Bookings!ChargesOK, Bookings!Step
  PROVE  Bookings!ChargesOK' /\ \A d \in Customers : Settled(d) => Settled(d)'
<1>0. Bookings!RowsOK
  BY DEF BookingInv, BookingTypes
<1>1. CASE UNCHANGED <<pay, charge>>
  BY <1>1 DEF Bookings!ChargesOK, Settled
<1>2. ASSUME NEW c \in Customers, Bookings!CreatePays(c)
      PROVE  Bookings!ChargesOK' /\ \A d \in Customers : Settled(d) => Settled(d)'
  <2>1. CASE UNCHANGED <<pay, charge>>
    BY <2>1 DEF Bookings!ChargesOK, Settled
  <2>2. CASE pay[c] = "NONE" /\ UNCHANGED charge /\ pay' = [pay EXCEPT ![c] = "CAPTURED"]
    BY <1>0, <2>2 DEF Bookings!ChargesOK, Settled, Compensated, Bookings!Refunding, Bookings!RowsOK
  <2>3. ASSUME pay[c] = "NONE", NEW m, pay' = [pay EXCEPT ![c] = m], NEW to \in Bookings!Session,
               charge' = [charge EXCEPT ![c].session = to]
        PROVE  Bookings!ChargesOK' /\ \A d \in Customers : Settled(d) => Settled(d)'
    <3> DEFINE value == [charge[c] EXCEPT !.session = to]
    <3>1. value \in Bookings!Charge /\ value.reopened = charge[c].reopened
      BY ChargeUpdates DEF Bookings!ChargesOK
    <3>2. charge' = [charge EXCEPT ![c] = value]
      BY <2>3
    <3> HIDE DEF value
    <3>3. Bookings!ChargesOK'
      BY <3>1, <3>2 DEF Bookings!ChargesOK
    <3>4. \A d \in Customers : pay'[d] = (IF d = c THEN m ELSE pay[d]) /\ charge'[d] = (IF d = c THEN value ELSE charge[d])
      BY <1>0, <2>3, <3>2 DEF Bookings!RowsOK, Bookings!ChargesOK
    <3>5. \A d \in Customers : Settled(d) => Settled(d)'
      BY <2>3, <3>1, <3>4 DEF Settled, Compensated, Bookings!Refunding
    <3> QED BY <3>3, <3>5
  <2>4. PICK status \in Bookings!PayStatus :
          \/ UNCHANGED <<pay, charge>>
          \/ pay[c] = "NONE" /\ UNCHANGED charge /\ pay' = [pay EXCEPT ![c] = "CAPTURED"]
          \/ /\ pay[c] = "NONE" /\ pay' = [pay EXCEPT ![c] = status]
             /\ charge' = [charge EXCEPT ![c].session = IF status = "OPEN" THEN "open" ELSE charge[c].session]
    BY <1>2 DEF Bookings!CreatePays, Bookings!PayStatus
  <2>5. (IF status = "OPEN" THEN "open" ELSE charge[c].session) \in Bookings!Session
    <3>1. charge[c] \in Bookings!Charge
      BY DEF Bookings!ChargesOK
    <3> QED BY <3>1 DEF Bookings!Charge, Bookings!Session
  <2> QED BY <2>1, <2>2, <2>3, <2>4, <2>5
<1>3. ASSUME NEW c \in Customers, Bookings!CancelRefunds(c) \/ Bookings!finalizeRefund(c)
      PROVE  Bookings!ChargesOK' /\ \A d \in Customers : Settled(d) => Settled(d)'
  <2>1. UNCHANGED charge /\ (UNCHANGED pay \/ \E m \in Compensated : pay' = [pay EXCEPT ![c] = m])
    BY <1>3 DEF Bookings!CancelRefunds, Bookings!finalizeRefund, Compensated, Bookings!Refunding
  <2> QED BY <1>0, <2>1 DEF Bookings!ChargesOK, Settled, Bookings!RowsOK
<1>4. ASSUME NEW p \in Bookings!Processes, Bookings!CancelVoids(p)
      PROVE  Bookings!ChargesOK' /\ \A d \in Customers : Settled(d) => Settled(d)'
  <2>1. UNCHANGED charge /\ (UNCHANGED pay \/ pay' = [pay EXCEPT ![proc[p].of] = "CANCELLED"])
    BY <1>4 DEF Bookings!CancelVoids
  <2>2. "CANCELLED" \in Compensated
    BY DEF Compensated
  <2> QED BY <1>0, <2>1, <2>2 DEF Bookings!ChargesOK, Settled, Bookings!RowsOK
<1>5. ASSUME NEW c \in Customers,
             \/ Bookings!Pay(c) \/ Bookings!Captures(c) \/ Bookings!AttemptFails(c) \/ Bookings!RefundFails(c)
             \/ Bookings!RetryStarts(c) \/ Bookings!RetryFinalizes(c) \/ Bookings!RetryFails(c)
      PROVE  Bookings!ChargesOK' /\ \A d \in Customers : Settled(d) => Settled(d)'
  <2> DEFINE kept(m, value) ==
               /\ value \in Bookings!Charge /\ Bookings!Bill(c, m, value)
               /\ charge[c].reopened => value.reopened
               /\ pay[c] \in Compensated => m \in Compensated \/ value.reopened
  <2>0. charge[c] \in Bookings!Charge /\ {"none", "open", "paid"} = Bookings!Session
    BY DEF Bookings!ChargesOK, Bookings!Session
  <2>1. CASE Bookings!Pay(c)
    <3>1. kept(pay[c], [charge[c] EXCEPT !.session = "paid"]) \/ kept(pay[c], [charge[c] EXCEPT !.older = "paid"])
      BY <2>0, <2>1, ChargeUpdates DEF Bookings!Pay
    <3> QED BY <1>0, <3>1, BillSettles
  <2>2. CASE Bookings!Captures(c)
    <3>1. kept("CAPTURED", charge[c])
      BY <2>0, <2>2 DEF Bookings!Captures, Compensated, Bookings!Refunding
    <3> QED BY <1>0, <3>1, BillSettles
  <2>3. CASE Bookings!AttemptFails(c)
    <3>1. kept("RETRYABLE", charge[c])
      BY <2>0, <2>3 DEF Bookings!AttemptFails, Compensated, Bookings!Refunding
    <3> QED BY <1>0, <3>1, BillSettles
  <2>4. CASE Bookings!RefundFails(c)
    <3>1. kept("REFUND_FAILED", charge[c])
      BY <2>0, <2>4 DEF Bookings!RefundFails, Compensated
    <3> QED BY <1>0, <3>1, BillSettles
  <2>5. CASE Bookings!RetryStarts(c) \/ Bookings!RetryFails(c)
    <3>1. kept(pay[c], [charge[c] EXCEPT !.asking = TRUE]) \/ kept(pay[c], [charge[c] EXCEPT !.asking = FALSE])
      BY <2>0, <2>5, ChargeUpdates DEF Bookings!RetryStarts, Bookings!RetryFails
    <3> QED BY <1>0, <3>1, BillSettles
  <2>6. CASE Bookings!RetryFinalizes(c)
    <3> DEFINE value == [session |-> "open", older |-> Bookings!Superseded(c), asking |-> FALSE,
                         reopened |-> charge[c].reopened \/ pay[c] # "RETRYABLE"]
    <3>1. \/ Bookings!Bill(c, pay[c], [charge[c] EXCEPT !.asking = FALSE])
          \/ Bookings!Bill(c, "OPEN", value)
      BY <2>6 DEF Bookings!RetryFinalizes
    <3>2. CASE Bookings!Bill(c, pay[c], [charge[c] EXCEPT !.asking = FALSE])
      <4>1. kept(pay[c], [charge[c] EXCEPT !.asking = FALSE])
        BY <2>0, <3>2, ChargeUpdates
      <4> QED BY <1>0, <4>1, BillSettles
    <3>3. CASE Bookings!Bill(c, "OPEN", value)
      <4>1. Bookings!Superseded(c) \in Bookings!Session
        BY DEF Bookings!Superseded, Bookings!Session
      <4>2. value \in Bookings!Charge
        BY <2>0, <4>1 DEF Bookings!Charge
      <4>3. value.reopened <=> charge[c].reopened \/ pay[c] # "RETRYABLE"
        OBVIOUS
      <4>4. pay[c] \in Compensated => pay[c] # "RETRYABLE"
        BY DEF Compensated, Bookings!Refunding
      <4> HIDE DEF value
      <4>5. kept("OPEN", value)
        BY <3>3, <4>2, <4>3, <4>4
      <4> QED BY <1>0, <4>5, BillSettles
    <3> QED BY <3>1, <3>2, <3>3
  <2> QED BY <1>5, <2>1, <2>2, <2>3, <2>4, <2>5, <2>6
<1> QED BY <1>1, <1>2, <1>3, <1>4, <1>5, OtherSteps DEF PaymentSteps

\* A booking is cancelled by a transaction that is ready to commit.
LEMMA CancelledBy ==
  ASSUME Bookings!BookingParameters, BookingInv, Bookings!Step, NEW c \in Customers, booking'[c].status = "CANCELLED"
  PROVE  booking[c].status = "CANCELLED" \/ \E p \in Bookings!Processes : Committing(p) /\ proc[p].of = c
<1>0. booking \in [Customers -> BookingRow]
  BY DEF BookingInv, BookingTypes, Bookings!RowsOK, BookingRow
<1>1. CASE UNCHANGED booking
  BY <1>1
<1>2. ASSUME NEW d \in Customers, NEW v, Bookings!updateBooking(d, v), v.status # "CANCELLED"
      PROVE  booking[c].status = "CANCELLED"
  BY <1>0, <1>2 DEF Bookings!updateBooking
<1>3. CASE \E d \in Customers : Bookings!CreateCommits(d)
  <2>1. PICK d \in Customers : Bookings!insertBooking(d, proc[d].hold)
    BY <1>3 DEF Bookings!CreateCommits
  <2> DEFINE v == [Bookings!NoBooking EXCEPT
                     !.status = IF pay[d] \in Bookings!Captured THEN "REQUESTED" ELSE "PENDING_PAYMENT",
                     !.slot = hold[proc[d].hold].slot, !.payment = pay[d], !.until = proc[d].hold]
  <2>2. v.status # "CANCELLED"
    BY DEF Bookings!NoBooking
  <2>3. Bookings!updateBooking(d, v)
    BY <2>1 DEF Bookings!insertBooking, Bookings!updateBooking
  <2> HIDE DEF v
  <2> QED BY <1>2, <2>2, <2>3
<1>4. ASSUME NEW d \in Customers, NEW v, NEW from, Bookings!mutate(d, from, v), v.status # "CANCELLED"
      PROVE  booking[c].status = "CANCELLED"
  BY <1>2, <1>4 DEF Bookings!mutate
<1>5. ASSUME NEW d \in Customers,
             \/ Bookings!ConfirmPayment(d) \/ Bookings!Start(d) \/ \E h \in Holds : Bookings!Reschedule(d, h)
             \/ \E target \in Bookings!Statuses : Bookings!ProviderTransition(d, target)
      PROVE  booking[c].status = "CANCELLED"
  <2>0. booking[d] \in BookingRow
    BY <1>0
  <2>1. CASE Bookings!ConfirmPayment(d)
    <3>1. [booking[d] EXCEPT !.status = "REQUESTED", !.payment = pay[d]].status = "REQUESTED"
      BY <2>0 DEF BookingRow
    <3> QED BY <1>4, <2>1, <3>1 DEF Bookings!ConfirmPayment
  <2>2. CASE Bookings!Start(d)
    <3>1. [booking[d] EXCEPT !.status = "IN_PROGRESS", !.otp = FALSE].status = "IN_PROGRESS"
      BY <2>0 DEF BookingRow
    <3> QED BY <1>4, <2>2, <3>1 DEF Bookings!Start
  <2>3. ASSUME NEW h \in Holds, Bookings!Reschedule(d, h)
        PROVE  booking[c].status = "CANCELLED"
    <3> DEFINE v == [booking[d] EXCEPT !.status = "REQUESTED", !.slot = hold[h].slot, !.count = @ + 1]
    <3>1. v.status = "REQUESTED"
      BY <2>0 DEF BookingRow
    <3>2. Bookings!mutate(d, {"REQUESTED", "ACCEPTED"}, v)
      BY <2>3 DEF Bookings!Reschedule
    <3> HIDE DEF v
    <3> QED BY <1>4, <3>1, <3>2
  <2>4. ASSUME NEW target \in Bookings!Statuses, Bookings!ProviderTransition(d, target)
        PROVE  booking[c].status = "CANCELLED"
    <3> DEFINE v == [booking[d] EXCEPT !.status = target, !.otp = @ \/ target = "ACCEPTED"]
    <3>1. v.status = target
      BY <2>0 DEF BookingRow
    <3>2. target # "CANCELLED" /\ Bookings!mutate(d, Bookings!Statuses, v)
      BY <2>4 DEF Bookings!ProviderTransition, Bookings!validProviderTransition
    <3> HIDE DEF v
    <3> QED BY <1>4, <3>1, <3>2
  <2> QED BY <1>5, <2>1, <2>2, <2>3, <2>4
<1>6. ASSUME NEW d \in Customers,
             \/ Bookings!Complete(d) \/ Bookings!ConfirmCompletion(d) \/ Bookings!Dispute(d)
             \/ \E who \in {"CUSTOMER_NO_SHOW", "PROVIDER_NO_SHOW"} : Bookings!NoShow(d, who)
      PROVE  booking[c].status = "CANCELLED"
  <2>1. ASSUME NEW from, NEW to, to # "CANCELLED", Bookings!Moves(d, from, to)
        PROVE  booking[c].status = "CANCELLED"
    <3>1. [booking[d] EXCEPT !.status = to].status = to
      BY <1>0 DEF BookingRow
    <3> QED BY <1>4, <2>1, <3>1 DEF Bookings!Moves
  <2> QED BY <1>6, <2>1 DEF Bookings!Complete, Bookings!ConfirmCompletion, Bookings!Dispute, Bookings!NoShow
<1>7. ASSUME NEW p \in Bookings!Processes, Bookings!CancelCommits(p)
      PROVE  booking[c].status = "CANCELLED" \/ (Committing(p) /\ proc[p].of = c)
  BY <1>0, <1>7 DEF Bookings!CancelCommits, Bookings!Cancelling, Bookings!updateBooking, Committing
<1>8. ASSUME NEW d \in Customers, PaymentSteps(d)
      PROVE  UNCHANGED booking
  BY <1>8 DEF PaymentSteps, Bookings!CreatePays, Bookings!CancelRefunds, Bookings!finalizeRefund, Bookings!Pay,
     Bookings!Captures, Bookings!AttemptFails, Bookings!RefundFails, Bookings!RetryStarts, Bookings!RetryFinalizes,
     Bookings!RetryFails, Bookings!Bill
<1>9. ASSUME NEW d \in Customers,
             \/ Bookings!HoldCounts(d) \/ Bookings!HoldInserts(d)
             \/ Bookings!CreateRedeems(d) \/ Bookings!CreateRollsBack(d)
             \/ Bookings!CancelStarts(d) \/ Bookings!CancelReverses(d) \/ Bookings!ExpireStarts(d)
      PROVE  UNCHANGED booking
  BY <1>9 DEF Bookings!HoldCounts, Bookings!HoldInserts, Bookings!CreateRedeems, Bookings!CreateRollsBack,
     Bookings!CancelStarts, Bookings!CancelReverses, Bookings!ExpireStarts
<1>10. CASE \/ \E d \in Customers, h \in Holds : Bookings!CreateStarts(d, h) \/ \E s \in Slots : Bookings!HoldBegins(d, h, s)
            \/ \E h \in Holds : Bookings!ReleaseHold(h) \/ Bookings!Lapse(h)
            \/ \E p \in Bookings!Processes : Bookings!CancelVoids(p) \/ Bookings!Abort(p)
            \/ Bookings!ExpireHolds \/ \E s \in Slots : Bookings!Approach(s)
  <2>1. UNCHANGED booking
    BY <1>10 DEF Bookings!CreateStarts, Bookings!HoldBegins, Bookings!ReleaseHold, Bookings!Lapse, Bookings!CancelVoids,
       Bookings!Abort, Bookings!ExpireHolds, Bookings!Approach
  <2> QED BY <1>1, <2>1
<1> QED BY <1>1, <1>3, <1>5, <1>6, <1>7, <1>8, <1>9, <1>10 DEF Bookings!Step, PaymentSteps

\* A cancelling transaction is ready to commit once the payment is settled.
LEMMA CommitsSettled ==
  ASSUME Bookings!BookingParameters, BookingInv, Bookings!Step, NEW p \in Bookings!Processes, Committing(p)'
  PROVE  \/ Committing(p) /\ proc'[p].of = proc[p].of
         \/ proc'[p].of \in Customers /\ pay'[proc'[p].of] \in Compensated
<1>0. /\ \A q \in Bookings!Processes : proc[q] \in BookingTx(q)
      /\ DOMAIN proc = Bookings!Processes /\ Customers \subseteq Bookings!Processes
      /\ DOMAIN pay = Customers
  BY DEF BookingInv, BookingTypes, Bookings!RowsOK, Bookings!Processes
<1>1. CASE UNCHANGED proc
  BY <1>1 DEF Committing
<1>2. ASSUME NEW q \in Bookings!Processes, NEW x, Bookings!Do(q, x), x.op # "cancel" \/ x.step # "commit"
      PROVE  Committing(p) /\ proc'[p].of = proc[p].of
  BY <1>0, <1>2 DEF Bookings!Do, Committing
<1>3. ASSUME NEW q \in Bookings!Processes, Bookings!Do(q, Bookings!Idle)
      PROVE  Committing(p) /\ proc'[p].of = proc[p].of
  BY <1>2, <1>3 DEF Bookings!Idle
<1>4. ASSUME NEW c \in Customers,
             \/ Bookings!HoldCounts(c) \/ Bookings!HoldInserts(c) \/ Bookings!CreateRollsBack(c) \/ Bookings!CreateCommits(c)
             \/ \E h \in Holds : Bookings!CreateStarts(c, h) \/ \E s \in Slots : Bookings!HoldBegins(c, h, s)
      PROVE  Committing(p) /\ proc'[p].of = proc[p].of
  <2>1. c \in Bookings!Processes
    BY <1>0
  <2>2. CASE Bookings!HoldCounts(c)
    BY <1>2, <1>3, <2>1, <2>2 DEF Bookings!HoldCounts
  <2>3. CASE Bookings!HoldInserts(c) \/ Bookings!CreateRollsBack(c) \/ Bookings!CreateCommits(c)
    BY <1>3, <2>1, <2>3 DEF Bookings!HoldInserts, Bookings!CreateRollsBack, Bookings!CreateCommits
  <2>4. CASE \E h \in Holds : Bookings!CreateStarts(c, h) \/ \E s \in Slots : Bookings!HoldBegins(c, h, s)
    BY <1>2, <2>1, <2>4 DEF Bookings!CreateStarts, Bookings!HoldBegins
  <2> QED BY <1>4, <2>2, <2>3, <2>4
<1>5. ASSUME NEW c \in Customers, Bookings!CreateRedeems(c) \/ Bookings!CreatePays(c)
      PROVE  Committing(p) /\ proc'[p].of = proc[p].of
  <2> DEFINE x(step) == [proc[c] EXCEPT !.step = step]
  <2>1. proc[c] \in CreateTx
    BY <1>0, <1>5, TxKinds DEF Bookings!CreateRedeems, Bookings!CreatePays, Bookings!Creating
  <2>2. x("pay").op = "create" /\ x("commit").op = "create"
    BY <2>1 DEF CreateTx
  <2>3. Bookings!Do(c, x("pay")) \/ Bookings!Do(c, x("commit"))
    BY <1>5 DEF Bookings!CreateRedeems, Bookings!CreatePays
  <2> HIDE DEF x
  <2> QED BY <1>0, <1>2, <2>2, <2>3
<1>6. ASSUME NEW c \in Customers, Bookings!CancelStarts(c) \/ Bookings!ExpireStarts(c)
      PROVE  Committing(p) /\ proc'[p].of = proc[p].of
  <2>1. \E q \in Bookings!Processes, step \in {"reverse", "refund", "void"} :
          Bookings!Do(q, [op |-> "cancel", of |-> c, step |-> step])
    BY <1>0, <1>6 DEF Bookings!CancelStarts, Bookings!ExpireStarts, Bookings!Processes
  <2> QED BY <1>2, <2>1
<1>7. ASSUME NEW q \in Bookings!Processes, NEW step \in {"refund", "finalize", "commit"}, proc[q].op = "cancel",
             Bookings!Do(q, [proc[q] EXCEPT !.step = step]),
             step = "commit" => pay'[proc[q].of] \in Compensated
      PROVE  \/ Committing(p) /\ proc'[p].of = proc[p].of
             \/ proc'[p].of \in Customers /\ pay'[proc'[p].of] \in Compensated
  <2> DEFINE x == [proc[q] EXCEPT !.step = step]
  <2>1. proc[q] \in CancelTx
    BY <1>0, <1>7, TxKinds
  <2>2. x.op = "cancel" /\ x.step = step /\ x.of = proc[q].of /\ proc[q].of \in Customers
    BY <2>1 DEF CancelTx
  <2>3. \A r \in Bookings!Processes : proc'[r] = IF r = q THEN x ELSE proc[r]
    BY <1>0, <1>7 DEF Bookings!Do
  <2> HIDE DEF x
  <2> QED BY <1>7, <2>2, <2>3 DEF Committing
<1>8. ASSUME NEW c \in Customers,
             Bookings!CancelReverses(c) \/ Bookings!CancelRefunds(c) \/ Bookings!finalizeRefund(c)
      PROVE  \/ Committing(p) /\ proc'[p].of = proc[p].of
             \/ proc'[p].of \in Customers /\ pay'[proc'[p].of] \in Compensated
  <2>0. c \in Bookings!Processes /\ proc[c].op = "cancel"
    BY <1>0, <1>8 DEF Bookings!CancelReverses, Bookings!CancelRefunds, Bookings!finalizeRefund, Bookings!Cancelling
  <2>1. proc[c].of = c
    BY <2>0, BookingRows, TxKinds
  <2>2. CASE Bookings!CancelReverses(c)
    BY <1>7, <2>0, <2>2 DEF Bookings!CancelReverses
  <2>3. CASE Bookings!CancelRefunds(c)
    <3>1. CASE pay[c] \in Bookings!Refunding /\ UNCHANGED pay /\ Bookings!Do(c, [proc[c] EXCEPT !.step = "commit"])
      BY <1>7, <2>0, <2>1, <3>1 DEF Compensated
    <3>2. CASE Bookings!Do(c, [proc[c] EXCEPT !.step = "finalize"])
      BY <1>7, <2>0, <3>2
    <3>3. CASE Bookings!Do(c, Bookings!Idle)
      BY <1>3, <2>0, <3>3
    <3> QED BY <2>3, <3>1, <3>2, <3>3 DEF Bookings!CancelRefunds
  <2>4. CASE Bookings!finalizeRefund(c)
    <3>1. CASE pay' = [pay EXCEPT ![c] = "REFUND_SUBMITTED"] /\ Bookings!Do(c, [proc[c] EXCEPT !.step = "commit"])
      <4>1. pay'[c] \in Compensated
        BY <1>0, <3>1 DEF Compensated, Bookings!Refunding
      <4> QED BY <1>7, <2>0, <2>1, <3>1, <4>1
    <3>2. CASE Bookings!Do(c, Bookings!Idle)
      BY <1>3, <2>0, <3>2
    <3> QED BY <2>4, <3>1, <3>2 DEF Bookings!finalizeRefund
  <2> QED BY <1>8, <2>2, <2>3, <2>4
<1>9. ASSUME NEW q \in Bookings!Processes, Bookings!CancelVoids(q)
      PROVE  \/ Committing(p) /\ proc'[p].of = proc[p].of
             \/ proc'[p].of \in Customers /\ pay'[proc'[p].of] \in Compensated
  <2>1. proc[q].op = "cancel"
    BY <1>9 DEF Bookings!CancelVoids, Bookings!Cancelling
  <2>2. proc[q].of \in Customers
    BY <2>1, CancellingTx
  <2>3. CASE pay' = [pay EXCEPT ![proc[q].of] = "CANCELLED"] /\ Bookings!Do(q, [proc[q] EXCEPT !.step = "commit"])
    <3>1. pay'[proc[q].of] \in Compensated
      BY <1>0, <2>2, <2>3 DEF Compensated
    <3> QED BY <1>7, <2>1, <2>3, <3>1
  <2>4. CASE Bookings!Do(q, Bookings!Idle)
    BY <1>3, <2>4
  <2> QED BY <1>9, <2>3, <2>4 DEF Bookings!CancelVoids
<1>10. ASSUME NEW q \in Bookings!Processes, Bookings!CancelCommits(q) \/ Bookings!Abort(q)
       PROVE  Committing(p) /\ proc'[p].of = proc[p].of
  BY <1>3, <1>10 DEF Bookings!CancelCommits, Bookings!Abort
<1>11. ASSUME NEW c \in Customers,
              \/ Bookings!Pay(c) \/ Bookings!Captures(c) \/ Bookings!AttemptFails(c) \/ Bookings!RefundFails(c)
              \/ Bookings!RetryStarts(c) \/ Bookings!RetryFinalizes(c) \/ Bookings!RetryFails(c)
              \/ Bookings!ConfirmPayment(c) \/ Bookings!Start(c) \/ \E h \in Holds : Bookings!Reschedule(c, h)
              \/ \E target \in Bookings!Statuses : Bookings!ProviderTransition(c, target)
       PROVE  UNCHANGED proc
  BY <1>11 DEF Bookings!Pay, Bookings!Captures, Bookings!AttemptFails, Bookings!RefundFails, Bookings!RetryStarts,
     Bookings!RetryFinalizes, Bookings!RetryFails, Bookings!Bill, Bookings!ConfirmPayment, Bookings!Start,
     Bookings!Reschedule, Bookings!ProviderTransition, Bookings!mutate
<1>12. ASSUME NEW c \in Customers,
              \/ Bookings!Complete(c) \/ Bookings!ConfirmCompletion(c) \/ Bookings!Dispute(c)
              \/ \E who \in {"CUSTOMER_NO_SHOW", "PROVIDER_NO_SHOW"} : Bookings!NoShow(c, who)
       PROVE  UNCHANGED proc
  BY <1>12 DEF Bookings!Complete, Bookings!ConfirmCompletion, Bookings!Dispute, Bookings!NoShow, Bookings!Moves, Bookings!mutate
<1>13. ASSUME \/ \E h \in Holds : Bookings!ReleaseHold(h) \/ Bookings!Lapse(h)
              \/ Bookings!ExpireHolds \/ \E s \in Slots : Bookings!Approach(s)
       PROVE  UNCHANGED proc
  BY <1>13 DEF Bookings!ReleaseHold, Bookings!Lapse, Bookings!ExpireHolds, Bookings!Approach
<1> QED BY <1>1, <1>4, <1>5, <1>6, <1>8, <1>9, <1>10, <1>11, <1>12, <1>13 DEF Bookings!Step

LEMMA SettlementNext ==
  ASSUME Bookings!BookingParameters, BookingInv, Settlement, Bookings!PlaceOK, [Bookings!Next]_(Bookings!vars)
  PROVE  Settlement' /\ Bookings!PlaceOK'
<1>1. CASE UNCHANGED Bookings!steps
  <2>1. Settlement'
    BY <1>1 DEF Bookings!steps, Settlement, Settled, Committing, Bookings!ChargesOK
  <2> QED BY <1>1, <2>1 DEF Bookings!vars, Bookings!Next, Bookings!Step, Bookings!OthersLeave, Bookings!Placed, Bookings!PlaceOK,
             BookingInv, BookingTypes, Bookings!RowsOK, Bookings!steps
<1>2. CASE Bookings!Step /\ Bookings!Placed
  <2>1. Bookings!ChargesOK' /\ \A c \in Customers : Settled(c) => Settled(c)'
    BY <1>2, SettledStays DEF Settlement
  <2>2. ASSUME NEW c \in Customers, booking'[c].status = "CANCELLED"
        PROVE  Settled(c)'
    BY <1>2, <2>1, <2>2, CancelledBy DEF Settlement
  <2>3. ASSUME NEW p \in Bookings!Processes, Committing(p)'
        PROVE  Settled(proc[p].of)'
    <3>1. CASE Committing(p) /\ proc'[p].of = proc[p].of
      <4>1. proc[p].of \in Customers
        BY <3>1, CancellingTx DEF Committing
      <4>2. Settled(proc[p].of)
        BY <3>1 DEF Settlement
      <4> QED BY <2>1, <3>1, <4>1, <4>2 DEF Settled
    <3>2. CASE pay'[proc'[p].of] \in Compensated
      BY <3>2 DEF Settled
    <3> QED BY <1>2, <2>3, <3>1, <3>2, CommitsSettled
  <2>4. Bookings!PlaceOK'
    <3>1. due' \subseteq Holds
      BY BookingNext DEF BookingInv, BookingTypes, Bookings!RowsOK
    <3> QED BY <1>2, <3>1 DEF Bookings!Placed, Bookings!PlaceOK
  <2> QED BY <2>1, <2>2, <2>3, <2>4 DEF Settlement
<1> QED BY <1>1, <1>2 DEF Bookings!Next, Bookings!vars, Bookings!OthersLeave

\* internal/booking: for any customers, slots, holds and capacity, however Hold,
\* Create, Reschedule, Cancel, the sweeper, rollbacks, webhooks and payment
\* retries interleave, a slot is overbooked only by one of the two races inside
\* Hold, and a cancelled booking keeps no points and has its payment void or its
\* refund asked for, unless a retry that was overtaken wrote it open again.
THEOREM PlacesKept ==
  ASSUME Bookings!BookingParameters
  PROVE  Bookings!Spec => [](Bookings!TypeOK /\ Bookings!OverbookedOnlyByRace /\ Bookings!CancelledIsSettled)
<1>1. Bookings!Init => BookingInv /\ Settlement /\ Bookings!PlaceOK
  <2> SUFFICES ASSUME Bookings!Init PROVE Settlement /\ Bookings!PlaceOK
    BY BookingInit
  <2>1. Bookings!ChargesOK
    BY DEF Bookings!Init, Bookings!ChargesOK, Bookings!Charge, Bookings!NoCharge, Bookings!Session
  <2>2. \A c \in Customers : booking[c].status = "NONE"
    BY DEF Bookings!Init, Bookings!NoBooking
  <2>3. \A p \in Bookings!Processes : proc[p].op = "idle"
    BY DEF Bookings!Init, Bookings!Idle
  <2> QED BY <2>1, <2>2, <2>3 DEF Settlement, Committing, Bookings!PlaceOK, Bookings!Init
<1>2. BookingInv /\ Settlement /\ Bookings!PlaceOK /\ [Bookings!Next]_(Bookings!vars)
        => BookingInv' /\ Settlement' /\ Bookings!PlaceOK'
  BY BookingNext, SettlementNext
<1>3. BookingInv /\ Settlement /\ Bookings!PlaceOK
        => Bookings!TypeOK /\ Bookings!OverbookedOnlyByRace /\ Bookings!CancelledIsSettled
  <2> SUFFICES ASSUME BookingInv, Settlement, Bookings!PlaceOK
               PROVE  Bookings!TypeOK /\ Bookings!OverbookedOnlyByRace /\ Bookings!CancelledIsSettled
    OBVIOUS
  <2>1. Bookings!CancelledIsSettled
    BY BookingImplies DEF Settlement, Settled, Compensated, Bookings!CancelledIsSettled
  <2> QED BY <2>1, BookingImplies DEF Bookings!TypeOK, Settlement
<1> QED BY <1>1, <1>2, <1>3, PTL DEF Bookings!Spec
=============================================================================
