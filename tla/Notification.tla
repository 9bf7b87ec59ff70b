---------------------------- MODULE Notification ----------------------------
(***************************************************************************)
(* Deliveries of notifications (internal/notification: Service over        *)
(* PostgresRepository, OrderNotifier, FCMProvider; the loop of             *)
(* cmd/notification).                                                      *)
(*                                                                         *)
(* The order service hands a notification of an order to OrderNotifier,    *)
(* which queues one delivery per device of the customer and processes it   *)
(* at once, and hands it over again when that fails.  A loop processes     *)
(* what is still queued.  A delivery is claimed for a minute; the claim    *)
(* names no owner, so a late process writes its result over the claim of   *)
(* another.  An answer of the push provider may be lost after the message  *)
(* was sent.                                                               *)
(***************************************************************************)
EXTENDS Naturals, Sequences, FiniteSets

CONSTANTS
  Devices,          \* the customer's devices, in the order they are notified
  PurposeOf,        \* of the delivery to a device
  Consented,        \* whether marketing consent was granted
  Loops,            \* processes of the delivery loop
  MaxAttempts,      \* after so many lapsed claims a delivery has failed (20)
  MaxFaults         \* bound on faults: lost answers, slow or dead processes

VARIABLES
  preference,  \* notification.preferences: version (0: no row) and enabled
  device,      \* notification.push_device: whether enabled, by device
  delivery,    \* notification.deliveries: status and attempts, by device
  outboxed,    \* messaging.outbox: the deliveries an event was written for
  lapsed,      \* the deliveries whose claim_until has passed
  process,     \* what a process has claimed, and the provider's answer to it
  notifier,    \* the devices OrderNotifier has still to go through
  handed,      \* whether the order service has got a positive answer
  sent,        \* how often the provider sent the message of a delivery
  doubts,      \* how often a process lost track of a delivery it had claimed
  faults       \* faults so far

vars == <<preference, device, delivery, outboxed, lapsed, process, notifier, handed, sent,
          doubts, faults>>
settings == <<preference, device>>

DeviceSet == {Devices[i] : i \in 1..Len(Devices)}
Notifier == "NOTIFIER"
Processes == Loops \union {Notifier}
Final == {"DELIVERED", "FAILED", "SUPPRESSED"}
Idle == [delivery |-> "NONE", answer |-> "NONE"]

Init ==
  /\ preference = [version |-> 0, enabled |-> FALSE]
  /\ device = [d \in DeviceSet |-> TRUE]
  /\ delivery = [d \in DeviceSet |-> [status |-> "ABSENT", attempts |-> 0]]
  /\ outboxed = {} /\ lapsed = {} /\ process = [p \in Processes |-> Idle]
  /\ notifier = <<>> /\ handed = FALSE
  /\ sent = [d \in DeviceSet |-> 0] /\ doubts = [d \in DeviceSet |-> 0] /\ faults = 0

-----------------------------------------------------------------------------
(* What the customer sets.                                                 *)

\* A first read writes the default.
Preference ==
  /\ preference.version = 0
  /\ preference' = [version |-> 1, enabled |-> PurposeOf # "MARKETING"]
  /\ UNCHANGED <<device, delivery, outboxed, lapsed, process, notifier, handed, sent, doubts, faults>>

UpdatePreference(expected, enabled) ==
  /\ PurposeOf # "SECURITY" /\ expected = preference.version /\ expected < 2
  /\ preference' = [version |-> expected + 1, enabled |-> enabled]
  /\ UNCHANGED <<device, delivery, outboxed, lapsed, process, notifier, handed, sent, doubts, faults>>

SetDevice(d, enabled) ==
  /\ faults < MaxFaults
  /\ device[d] # enabled /\ device' = [device EXCEPT ![d] = enabled]
  /\ faults' = faults + 1
  /\ UNCHANGED <<preference, delivery, outboxed, lapsed, process, notifier, handed, sent, doubts>>

allowed ==
  CASE PurposeOf = "SECURITY" -> TRUE
    [] PurposeOf = "MARKETING" -> Consented /\ preference.version > 0 /\ preference.enabled
    [] OTHER -> preference.version = 0 \/ preference.enabled

-----------------------------------------------------------------------------
(* Processing a delivery, by the loop or by OrderNotifier.                 *)

\* Mutant: a delivery another process is sending can be claimed.
ClaimDeliverySending(p, d) ==
  /\ process[p] = Idle /\ delivery[d].status \in {"QUEUED", "SENDING"}
  /\ delivery' = [delivery EXCEPT ![d].status = "SENDING"]
  /\ process' = [process EXCEPT ![p] = [delivery |-> d, answer |-> "NONE"]]
  /\ lapsed' = lapsed \ {d}

ClaimDelivery(p, d) ==
  /\ process[p] = Idle /\ delivery[d].status = "QUEUED"
  /\ delivery' = [delivery EXCEPT ![d].status = "SENDING"]
  /\ process' = [process EXCEPT ![p] = [delivery |-> d, answer |-> "NONE"]]
  /\ lapsed' = lapsed \ {d}

Answered(p, answer) == process' = [process EXCEPT ![p].answer = answer]

\* FCMProvider.Send.
Send(p) ==
  LET d == process[p].delivery
  IN  /\ d # "NONE" /\ process[p].answer = "NONE"
      /\ \/ /\ device[d] /\ Answered(p, "SENT")
            /\ sent' = [sent EXCEPT ![d] = @ + 1] /\ UNCHANGED <<doubts, faults>>
         \/ /\ ~device[d] /\ Answered(p, "FAILED") /\ UNCHANGED <<sent, doubts, faults>>
         \/ /\ device[d] /\ faults < MaxFaults /\ faults' = faults + 1
            /\ \/ Answered(p, "RETRY") /\ UNCHANGED <<sent, doubts>>
               \/ Answered(p, "FAILED") /\ UNCHANGED <<sent, doubts>>
               \/ /\ Answered(p, "RETRY")         \* sent, and the answer lost
                  /\ sent' = [sent EXCEPT ![d] = @ + 1]
                  /\ doubts' = [doubts EXCEPT ![d] = @ + 1]
      /\ UNCHANGED <<settings, delivery, outboxed, lapsed, notifier, handed>>

\* UpdateDelivery writes over any SENDING row; no row is ErrConflict.
UpdateDelivery(p) ==
  LET d == process[p].delivery
      answer == process[p].answer
      n == delivery[d].attempts
  IN  /\ IF delivery[d].status = "SENDING"
         THEN /\ delivery' = [delivery EXCEPT ![d] =
                   IF answer = "RETRY"
                   THEN [status |-> "QUEUED", attempts |-> IF n < MaxAttempts THEN n + 1 ELSE n]
                   ELSE [status |-> answer, attempts |-> n]]
              /\ lapsed' = lapsed \ {d}
         ELSE UNCHANGED <<delivery, lapsed>>
      /\ process' = [process EXCEPT ![p] = Idle]

LoopClaims(p, d) ==
  /\ p \in Loops /\ ClaimDelivery(p, d)
  /\ UNCHANGED <<settings, outboxed, notifier, handed, sent, doubts, faults>>

LoopUpdates(p) ==
  /\ p \in Loops /\ process[p].answer # "NONE" /\ UpdateDelivery(p)
  /\ UNCHANGED <<settings, outboxed, notifier, handed, sent, doubts, faults>>

\* The process dies, or stays away beyond the minute of its claim.
Stray(p) ==
  LET d == process[p].delivery
  IN  /\ d # "NONE" /\ faults < MaxFaults /\ faults' = faults + 1
      /\ doubts' = [doubts EXCEPT ![d] = @ + 1]
      /\ lapsed' = IF delivery[d].status = "SENDING" THEN lapsed \union {d} ELSE lapsed
      /\ \/ process' = [process EXCEPT ![p] = Idle]
            /\ notifier' = IF p = Notifier THEN <<>> ELSE notifier
         \/ UNCHANGED <<process, notifier>>
      /\ UNCHANGED <<settings, delivery, outboxed, handed, sent>>

\* The first statement of QueuedDeliveryIDs: lapsed claims are queued again.
Recover(d) ==
  /\ delivery[d].status = "SENDING" /\ d \in lapsed
  /\ delivery' = [delivery EXCEPT ![d] =
       [status |-> IF @.attempts >= MaxAttempts - 1 THEN "FAILED" ELSE "QUEUED",
        attempts |-> IF @.attempts < MaxAttempts THEN @.attempts + 1 ELSE @.attempts]]
  /\ lapsed' = lapsed \ {d}
  /\ UNCHANGED <<settings, outboxed, process, notifier, handed, sent, doubts, faults>>

\* A receipt of the provider, for what it has sent.
RecordReceipt(d, status) ==
  /\ sent[d] > 0 /\ delivery[d].status \notin Final
  /\ delivery' = [delivery EXCEPT ![d].status = status]
  /\ UNCHANGED <<settings, outboxed, lapsed, process, notifier, handed, sent, doubts, faults>>

-----------------------------------------------------------------------------
(* OrderNotifier.Send goes through the enabled devices and stops at the    *)
(* first error; the order service hands the notification over again.       *)

Hand ==
  /\ ~handed /\ notifier = <<>> /\ process[Notifier] = Idle
  /\ notifier' = SelectSeq(Devices, LAMBDA d : device[d])
  /\ handed' = (notifier' = <<>>)
  /\ UNCHANGED <<settings, delivery, outboxed, lapsed, process, sent, doubts, faults>>

\* Idempotent by order, revision and device: what is queued already stays.
Queue(d) ==
  /\ notifier # <<>> /\ d = Head(notifier) /\ process[Notifier] = Idle
  /\ delivery[d].status = "ABSENT"
  /\ delivery' = [delivery EXCEPT ![d].status = IF allowed THEN "QUEUED" ELSE "SUPPRESSED"]
  /\ outboxed' = IF allowed THEN outboxed \union {d} ELSE outboxed
  /\ UNCHANGED <<settings, lapsed, process, notifier, handed, sent, doubts, faults>>

Goes(ok) ==
  /\ notifier' = IF ok THEN Tail(notifier) ELSE <<>>
  /\ handed' = (ok /\ notifier' = <<>>)

NotifierProcesses(d) ==
  /\ notifier # <<>> /\ d = Head(notifier) /\ process[Notifier] = Idle
  /\ \/ ClaimDelivery(Notifier, d) /\ UNCHANGED <<notifier, handed>>
     \/ /\ delivery[d].status \in {"SENT", "DELIVERED", "SUPPRESSED"} /\ Goes(TRUE)
        /\ UNCHANGED <<delivery, lapsed, process>>
     \/ /\ delivery[d].status \in {"SENDING", "FAILED"} /\ Goes(FALSE)
        /\ UNCHANGED <<delivery, lapsed, process>>
  /\ UNCHANGED <<settings, outboxed, sent, doubts, faults>>

NotifierUpdates ==
  LET d == process[Notifier].delivery
  IN  /\ process[Notifier].answer # "NONE" /\ UpdateDelivery(Notifier)
      /\ Goes(process[Notifier].answer # "RETRY" /\ delivery[d].status = "SENDING")
      /\ UNCHANGED <<settings, outboxed, sent, doubts, faults>>

Next ==
  \/ Preference \/ \E e \in 0..1, on \in BOOLEAN : UpdatePreference(e, on)
  \/ \E d \in DeviceSet :
       \/ Recover(d) \/ Queue(d) \/ NotifierProcesses(d)
       \/ \E on \in BOOLEAN : SetDevice(d, on)
       \/ \E status \in {"DELIVERED", "FAILED"} : RecordReceipt(d, status)
  \/ \E p \in Processes : Send(p) \/ Stray(p) \/ LoopUpdates(p) \/ \E d \in DeviceSet : LoopClaims(p, d)
  \/ Hand \/ NotifierUpdates

Spec == Init /\ [][Next]_vars

(* The loop runs as long as the service, claims lapse by the clock, and    *)
(* the order service hands over again what was not taken.                  *)
Fairness ==
  /\ \A p \in Processes : WF_vars(Send(p)) /\ WF_vars(LoopUpdates(p))
  /\ \A p \in Loops, d \in DeviceSet : SF_vars(LoopClaims(p, d))
  /\ \A d \in DeviceSet : WF_vars(Recover(d)) /\ WF_vars(Queue(d)) /\ WF_vars(NotifierProcesses(d))
  /\ WF_vars(Hand) /\ WF_vars(NotifierUpdates)

-----------------------------------------------------------------------------
(* A customer gets a message once, and once more at most for every time    *)
(* its sender was lost from sight: an answer that never came, a process    *)
(* that died or overstayed its claim.  The loop and OrderNotifier work on  *)
(* the same rows and never send the same delivery both (ClaimDelivery).    *)
SendsAccounted == \A d \in DeviceSet : sent[d] <= 1 + doubts[d]

(* What ended, delivered, failed or suppressed, stays as it ended, though  *)
(* processes that lost their claim still bring results and receipts are    *)
(* repeated (UpdateDelivery, RecordReceipt).                               *)
EndedStays ==
  [][\A d \in DeviceSet : delivery[d].status \in Final => delivery'[d].status = delivery[d].status]_vars

(* The order service ends up with a positive answer.  It does not hold: a  *)
(* delivery that the loop has found undeliverable is a conflict to         *)
(* OrderNotifier, every time it is handed the notification again, and the  *)
(* devices after it are never notified.                                    *)
HandedInTheEnd == <>handed
=============================================================================
