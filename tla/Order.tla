------------------------------- MODULE Order -------------------------------
(***************************************************************************)
(* One order (internal/order): its life cycle, the revision that guards    *)
(* every command, and the outbox of customer notifications.                *)
(*                                                                         *)
(* Every command of PostgresService locks the order row, checks the        *)
(* revision its caller read earlier, changes the order and queues the      *)
(* notification of the new revision, all in one transaction.  A repeated   *)
(* command is answered from ordering.idempotency_records and changes       *)
(* nothing; since it names the revision it was made for, it could not be   *)
(* applied again in any case.  The timeline only repeats the statuses.     *)
(*                                                                         *)
(* The clock of the outbox is reduced to two facts about an intent: leased *)
(* (claim_until lies ahead) and waiting (next_attempt_at lies ahead).      *)
(***************************************************************************)
EXTENDS Naturals

CONSTANTS
  Clients,      \* customers, vendors, riders and platform workers
  Workers,      \* processes that run ProcessNotifications
  COD,          \* the order is paid in cash on delivery
  MaxAmount,    \* bound on what a return is worth
  MaxRevision   \* bound on the number of commands

ASSUME OrderAssumption == COD \in BOOLEAN /\ MaxAmount \in Nat /\ MaxRevision \in Nat \ {0}

VARIABLES order, seen, intents, sending, sent

vars == <<order, seen, intents, sending, sent>>

Revisions == 1..MaxRevision

Undelivered == {"PENDING_PAYMENT", "PLACED", "ACCEPTED", "REJECTED", "PACKING",
                "READY_FOR_HANDOVER", "ASSIGNED", "PICKED_UP", "OUT_FOR_DELIVERY",
                "CANCEL_REQUESTED", "CANCELLED"}
Kept == {"DELIVERED_PENDING_CONFIRMATION", "COMPLETED"}
ReturnStatuses == {"RETURN_REQUESTED", "RETURN_APPROVED", "RETURN_REJECTED", "RETURNED", "REFUNDED"}
Statuses == Undelivered \cup Kept \cup ReturnStatuses

NoReturn == [status |-> "NONE", amount |-> 0, reference |-> FALSE]
NoOrder == [revision |-> 0, status |-> "NONE", proof |-> FALSE, return |-> NoReturn, rated |-> FALSE]
NoIntent == [status |-> "NONE", leased |-> FALSE, waiting |-> FALSE, delivered |-> FALSE]

\* sending[w] is the intent w has claimed, 0 for none, and the provider's answer.
Idle == [intent |-> 0, answer |-> "NONE"]

TypeOK ==
  /\ order \in [revision : 0..MaxRevision, status : Statuses \cup {"NONE"}, proof : BOOLEAN,
                return : [status : ReturnStatuses \cup {"NONE"}, amount : 0..MaxAmount,
                          reference : BOOLEAN],
                rated : BOOLEAN]
  /\ seen \in [Clients -> [revision : 0..MaxRevision, status : Statuses \cup {"NONE"}]]
  /\ intents \in [Revisions -> [status : Statuses \cup {"NONE"}, leased : BOOLEAN,
                                waiting : BOOLEAN, delivered : BOOLEAN]]
  /\ sending \in [Workers -> [intent : 0..MaxRevision, answer : {"NONE", "SENT", "FAILED"}]]
  /\ sent \subseteq Revisions

Init ==
  /\ order = NoOrder
  /\ seen = [c \in Clients |-> [revision |-> 0, status |-> "NONE"]]
  /\ intents = [r \in Revisions |-> NoIntent]
  /\ sending = [w \in Workers |-> Idle]
  /\ sent = {}

----------------------------------------------------------------------------
(* Commands.                                                               *)

\* Mutant: the intent is recorded for the revision the command was made for.
queueLate(value) ==
  intents' = [intents EXCEPT
    ![value.revision] = [NoIntent EXCEPT !.status = order.status]]

\* The intent of a revision is due at once.
queueNotification(value) ==
  intents' = [intents EXCEPT
    ![value.revision] = [NoIntent EXCEPT !.status = value.status]]

\* Mutant: an unpaid order gets a status the life cycle does not know.
CreateDraft(paymentCaptured) ==
  LET value == [NoOrder EXCEPT
                  !.revision = 1,
                  !.status = IF paymentCaptured \/ COD THEN "PLACED" ELSE "DRAFT"]
  IN  /\ order = NoOrder
      /\ order' = value
      /\ queueNotification(value)
      /\ UNCHANGED <<seen, sending, sent>>

\* An order that is paid for, or will be in cash, is placed when it is created.
Create(paymentCaptured) ==
  LET value == [NoOrder EXCEPT
                  !.revision = 1,
                  !.status = IF paymentCaptured \/ COD THEN "PLACED" ELSE "PENDING_PAYMENT"]
  IN  /\ order = NoOrder
      /\ order' = value
      /\ queueNotification(value)
      /\ UNCHANGED <<seen, sending, sent>>

Get(c) ==
  /\ order # NoOrder
  /\ seen' = [seen EXCEPT ![c] = [revision |-> order.revision, status |-> order.status]]
  /\ UNCHANGED <<order, intents, sending, sent>>

\* Mutant: the expected revision is not compared.
mutateBlind(c, value) ==
  LET next == [value EXCEPT !.revision = order.revision + 1]
  IN  /\ order # NoOrder /\ order.revision < MaxRevision
      /\ order' = next
      /\ queueNotification(next)
      /\ UNCHANGED <<seen, sending, sent>>

\* What every command does with the order its own part made of the current one.
mutate(c, value) ==
  LET next == [value EXCEPT !.revision = order.revision + 1]
  IN  /\ order # NoOrder /\ order.revision < MaxRevision
      /\ seen[c].revision = order.revision
      /\ order' = next
      /\ queueNotification(next)
      /\ UNCHANGED <<seen, sending, sent>>

\* Current status, target and the actor it is reserved for.
canTransition ==
  {<<"PENDING_PAYMENT", "PLACED", "PLATFORM">>,
   <<"PENDING_PAYMENT", "CANCEL_REQUESTED", "CUSTOMER">>,
   <<"PENDING_PAYMENT", "CANCELLED", "PLATFORM">>,
   <<"PLACED", "ACCEPTED", "VENDOR">>, <<"PLACED", "REJECTED", "VENDOR">>,
   <<"PLACED", "CANCEL_REQUESTED", "CUSTOMER">>,
   <<"ACCEPTED", "PACKING", "VENDOR">>, <<"ACCEPTED", "CANCEL_REQUESTED", "CUSTOMER">>,
   <<"PACKING", "READY_FOR_HANDOVER", "VENDOR">>, <<"PACKING", "CANCEL_REQUESTED", "CUSTOMER">>,
   <<"READY_FOR_HANDOVER", "ASSIGNED", "PLATFORM">>, <<"ASSIGNED", "PICKED_UP", "RIDER">>,
   <<"PICKED_UP", "OUT_FOR_DELIVERY", "RIDER">>,
   <<"DELIVERED_PENDING_CONFIRMATION", "COMPLETED", "CUSTOMER">>,
   <<"CANCEL_REQUESTED", "CANCELLED", "PLATFORM">>,
   <<"RETURN_APPROVED", "RETURNED", "PLATFORM">>}

Actors == {"CUSTOMER", "VENDOR", "RIDER", "PLATFORM"}

\* Mutant: a rider may report delivery without the proof.
TransitionUnproven(c, target, actor) ==
  /\ \/ <<order.status, target, actor>> \in canTransition
     \/ order.status = "OUT_FOR_DELIVERY" /\ target = "DELIVERED_PENDING_CONFIRMATION"
  /\ mutate(c, [order EXCEPT !.status = target])

Transition(c, target, actor) ==
  /\ <<order.status, target, actor>> \in canTransition
  /\ mutate(c, [order EXCEPT !.status = target])

RecordPOD(c) ==
  /\ order.status = "OUT_FOR_DELIVERY"
  /\ mutate(c, [order EXCEPT !.status = "DELIVERED_PENDING_CONFIRMATION", !.proof = TRUE])

\* amount is what refundable computes from the order's lines.
RequestReturn(c, amount) ==
  /\ order.status \in Kept
  /\ mutate(c, [order EXCEPT !.status = "RETURN_REQUESTED",
                  !.return = [status |-> "RETURN_REQUESTED", amount |-> amount, reference |-> FALSE]])

DecideReturn(c, approved) ==
  LET target == IF approved THEN "RETURN_APPROVED" ELSE "RETURN_REJECTED"
  IN  /\ order.status = "RETURN_REQUESTED"
      /\ mutate(c, [order EXCEPT !.status = target, !.return.status = target])

\* Mutant: an approved return is refunded before the goods are back.
RecordRefundEarly(c, amount) ==
  /\ order.status \in {"RETURN_APPROVED", "RETURNED"}
  /\ amount = order.return.amount
  /\ mutate(c, [order EXCEPT !.status = "REFUNDED", !.return.reference = TRUE])

RecordRefund(c, amount) ==
  /\ order.status = "RETURNED" /\ order.return # NoReturn
  /\ amount = order.return.amount
  /\ mutate(c, [order EXCEPT !.status = "REFUNDED",
                  !.return.status = "REFUNDED", !.return.reference = TRUE])

Rate(c) ==
  /\ order.status = "COMPLETED" /\ ~order.rated
  /\ mutate(c, [order EXCEPT !.rated = TRUE])

----------------------------------------------------------------------------
(* The notification outbox.                                                *)

\* Mutant: a delivered intent is claimed again.
claimDelivered(w, r) ==
  /\ sending[w] = Idle
  /\ intents[r] # NoIntent
  /\ ~intents[r].waiting /\ ~intents[r].leased
  /\ intents' = [intents EXCEPT ![r].leased = TRUE]
  /\ sending' = [sending EXCEPT ![w].intent = r]
  /\ UNCHANGED <<order, seen, sent>>

claimNotification(w, r) ==
  /\ sending[w] = Idle
  /\ intents[r] # NoIntent
  /\ ~intents[r].delivered /\ ~intents[r].waiting /\ ~intents[r].leased
  /\ intents' = [intents EXCEPT ![r].leased = TRUE]
  /\ sending' = [sending EXCEPT ![w].intent = r]
  /\ UNCHANGED <<order, seen, sent>>

\* The notifier accepts the message, or fails, perhaps after it was accepted.
Send(w, answer) ==
  /\ sending[w].intent # 0 /\ sending[w].answer = "NONE"
  /\ sending' = [sending EXCEPT ![w].answer = answer]
  /\ \/ sent' = sent \cup {sending[w].intent}
     \/ answer = "FAILED" /\ UNCHANGED sent
  /\ UNCHANGED <<order, seen, intents>>

\* UPDATE ... WHERE id=$1 AND delivered_at IS NULL
IfUndelivered(r, value) ==
  intents' = IF intents[r].delivered THEN intents ELSE [intents EXCEPT ![r] = value]

\* Mutant: a failed attempt is not put back.
ForgetFailure(w) ==
  LET r == sending[w].intent
  IN  /\ sending[w].answer = "FAILED"
      /\ IfUndelivered(r, [intents[r] EXCEPT !.leased = FALSE, !.delivered = TRUE])
      /\ sending' = [sending EXCEPT ![w] = Idle]
      /\ UNCHANGED <<order, seen, sent>>

Release(w) ==
  LET r == sending[w].intent
  IN  /\ sending[w].answer = "FAILED"
      /\ IfUndelivered(r, [intents[r] EXCEPT !.leased = FALSE, !.waiting = TRUE])
      /\ sending' = [sending EXCEPT ![w] = Idle]
      /\ UNCHANGED <<order, seen, sent>>

Complete(w) ==
  LET r == sending[w].intent
  IN  /\ sending[w].answer = "SENT"
      /\ IfUndelivered(r, [intents[r] EXCEPT !.leased = FALSE, !.delivered = TRUE])
      /\ sending' = [sending EXCEPT ![w] = Idle]
      /\ UNCHANGED <<order, seen, sent>>

\* The process dies: what it knows is lost, its lease is not given back.
Crash(w) ==
  /\ sending[w] # Idle
  /\ sending' = [sending EXCEPT ![w] = Idle]
  /\ UNCHANGED <<order, seen, intents, sent>>

\* Mutant: the claim has no end.
LeaseForEver(r) == intents[r].leased /\ UNCHANGED vars

\* Time passes: a minute for the lease, up to an hour for the next attempt.
LeaseEnds(r) ==
  /\ intents[r].leased
  /\ intents' = [intents EXCEPT ![r].leased = FALSE]
  /\ UNCHANGED <<order, seen, sending, sent>>

DelayEnds(r) ==
  /\ intents[r].waiting
  /\ intents' = [intents EXCEPT ![r].waiting = FALSE]
  /\ UNCHANGED <<order, seen, sending, sent>>

----------------------------------------------------------------------------

Command(c) ==
  \/ Get(c)
  \/ \E target \in Statuses, actor \in Actors : Transition(c, target, actor)
  \/ RecordPOD(c)
  \/ \E amount \in 0..MaxAmount : RequestReturn(c, amount)
  \/ \E approved \in BOOLEAN : DecideReturn(c, approved)
  \/ \E amount \in 0..MaxAmount : RecordRefund(c, amount)
  \/ Rate(c)

ProcessNotifications(w) ==
  \/ \E r \in Revisions : claimNotification(w, r)
  \/ \E answer \in {"SENT", "FAILED"} : Send(w, answer)
  \/ Release(w)
  \/ Complete(w)
  \/ Crash(w)

Next ==
  \/ \E paymentCaptured \in BOOLEAN : Create(paymentCaptured)
  \/ \E c \in Clients : Command(c)
  \/ \E w \in Workers : ProcessNotifications(w)
  \/ \E r \in Revisions : LeaseEnds(r) \/ DelayEnds(r)

Spec == Init /\ [][Next]_vars

\* recoveryLoop calls ProcessNotifications for ever; the claim takes the intent
\* that has been due longest, so none is passed over for ever; the notifier
\* does not fail, nor the process die, every time; and time passes.
Fairness ==
  /\ \A w \in Workers, r \in Revisions : SF_vars(claimNotification(w, r))
  /\ \A w \in Workers : SF_vars(Send(w, "SENT")) /\ SF_vars(Complete(w)) /\ WF_vars(Release(w))
  /\ \A r \in Revisions : WF_vars(LeaseEnds(r)) /\ WF_vars(DelayEnds(r))

FairSpec == Spec /\ Fairness

----------------------------------------------------------------------------

\* "delivery requires configured POD": no order counts as delivered, completed
\* or returned unless a proof was recorded for it.
DeliveredIsProven == order.status \in Kept \cup ReturnStatuses => order.proof

\* The return case and the order, two tables, tell the same story: there is a
\* case exactly when the order is being returned, a refund reference exactly
\* when it is refunded, and a refund is only recorded for a return that was
\* approved and received (its case keeps RETURN_APPROVED until then).
ReturnCaseAgrees ==
  /\ order.return # NoReturn <=> order.status \in ReturnStatuses
  /\ order.return.reference <=> order.status = "REFUNDED"
  /\ order.status \in ReturnStatuses =>
       order.return.status = IF order.status = "RETURNED" THEN "RETURN_APPROVED" ELSE order.status

\* The customer is told of every revision, none is skipped or told twice, and
\* the last one tells the status the order has.
IntentPerRevision ==
  /\ \A r \in Revisions : intents[r] # NoIntent <=> r <= order.revision
  /\ order.revision > 0 => intents[order.revision].status = order.status

\* No lost update: a command takes effect only on the very state its caller
\* saw, so of a cancellation and an acceptance sent at once only one counts.
ActsOnWhatWasSeen ==
  [][order' # order /\ order # NoOrder =>
       \E c \in Clients : seen[c] = [revision |-> order.revision, status |-> order.status]]_vars

\* A notification is marked delivered only if the notifier took it, however
\* leases lapse and workers die in between.
DeliveredMeansSent == \A r \in Revisions : intents[r].delivered => r \in sent

\* A worker whose lease lapsed cannot reopen what another one delivered, and
\* nobody claims it again.
DeliveredIsFinal ==
  [][\A r \in Revisions :
       intents[r].delivered => intents'[r].delivered /\ ~intents'[r].leased]_vars

\* Every queued notification is delivered in the end.
EventuallyDelivered ==
  \A r \in Revisions : intents[r] # NoIntent ~> intents[r].delivered
=============================================================================
