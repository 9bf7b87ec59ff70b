------------------------------ MODULE Booking ------------------------------
(***************************************************************************)
(* Bookings of the slots of one service (internal/booking,                 *)
(* PostgresService): holds that lapse, bookings made from them, paid       *)
(* online or in points, moved, cancelled, served, and the sweeper.         *)
(*                                                                         *)
(* Every command is one transaction.  Those that call the payment or the   *)
(* wallet service in the middle, whose effects stay if the transaction is  *)
(* rolled back, are several steps; so is Hold, whose statements see        *)
(* different snapshots.  The other commands are one step: they lock the    *)
(* booking row and are refused unless their caller saw its last revision.  *)
(*                                                                         *)
(* A customer has one booking (one idempotency key, with which Create is   *)
(* repeated) and is in at most one command at a time.  A payment is its    *)
(* row, the provider session the row names, and a session it named before; *)
(* the row learns what happens at the provider from webhooks and           *)
(* reconciliation, the provider learns nothing from it.                    *)
(***************************************************************************)
EXTENDS Naturals, FiniteSets

CONSTANTS
  Customers,
  Slots,          \* slots of one offering
  Capacity,       \* places of each slot
  Holds,          \* idempotency keys of Hold commands
  Owner,          \* the customer of each
  Method,         \* how each customer pays: "ONLINE" or "WALLET"
  MaxReschedules  \* policy.MaximumFreeReschedules

\* Customers and holds are finitely many; "NONE" is no slot, "sweeper" no customer.
BookingParameters ==
  /\ IsFiniteSet(Customers) /\ IsFiniteSet(Holds)
  /\ Owner \in [Holds -> Customers] /\ Method \in [Customers -> {"ONLINE", "WALLET"}]
  /\ Capacity \in Nat /\ MaxReschedules \in Nat
  /\ "sweeper" \notin Customers /\ "NONE" \notin Slots

ASSUME BookingAssumption == BookingParameters

VARIABLES
  hold,     \* booking.slot_holds
  due,      \* holds whose expires_at has passed
  booking,  \* booking.bookings, by customer
  phase,    \* a slot's start: "far", "near" (within the cut-off), "begun"
  pay,      \* status of each booking's payment, in the payment service
  charge,   \* its sessions at the provider, and a retry that is asking for one
  points,   \* state of the redemption made for it
  proc,     \* what each customer and the sweeper is doing
  raced,    \* slots for which two transactions overlapped, see NotOverbooked
  behind    \* due holds whose bookings have a full page of earlier ones before them

steps == <<hold, due, booking, phase, pay, charge, points, proc, raced>>
vars == <<steps, behind>>

Processes == Customers \cup {"sweeper"}
Idle == [op |-> "idle"]

NoHold == [status |-> "NONE", slot |-> "NONE"]
NoBooking == [status |-> "NONE", slot |-> "NONE", payment |-> "NONE", until |-> "NONE",
              count |-> 0, otp |-> FALSE]

\* OPEN is PROVIDER_ORDER_CREATED; RETRYABLE and FINAL are the two failures;
\* CAPTURED is also RECONCILED; REFUND_SUBMITTED is also REFUNDED.
Uncaptured == {"OPEN", "RETRYABLE", "FINAL"}
Captured == {"CAPTURED"}
Refunding == {"REFUND_REQUESTED", "REFUND_SUBMITTED"}
PayStatus == {"NONE", "CANCELLED", "REFUND_FAILED"} \cup Uncaptured \cup Captured \cup Refunding

Session == {"none", "open", "paid"}
Charge == [session : Session, older : Session, asking : BOOLEAN, reopened : BOOLEAN]
NoCharge == [session |-> "none", older |-> "none", asking |-> FALSE, reopened |-> FALSE]

Statuses == {"PENDING_PAYMENT", "REQUESTED", "ACCEPTED", "PROVIDER_EN_ROUTE", "ARRIVED",
             "START_OTP_REQUIRED", "IN_PROGRESS", "COMPLETION_EVIDENCE_REQUIRED",
             "COMPLETED_PENDING_CONFIRMATION", "COMPLETED", "CANCELLED", "DECLINED",
             "CUSTOMER_NO_SHOW", "PROVIDER_NO_SHOW", "DISPUTED"}

\* Types of the rows, of the transactions and of the clock.
RowsOK ==
  /\ hold \in [Holds -> [status : {"NONE", "HELD", "CONSUMED", "EXPIRED", "RELEASED"},
                         slot : Slots \cup {"NONE"}]]
  /\ due \subseteq Holds
  /\ booking \in [Customers -> [status : Statuses \cup {"NONE"}, slot : Slots \cup {"NONE"},
                                payment : PayStatus, until : Holds \cup {"NONE"},
                                count : 0..MaxReschedules, otp : BOOLEAN]]
  /\ phase \in [Slots -> {"far", "near", "begun"}]
  /\ pay \in [Customers -> PayStatus]
  /\ points \in [Customers -> {"NONE", "TAKEN", "BACK"}]
  /\ DOMAIN proc = Processes /\ raced \subseteq Slots

ChargesOK == charge \in [Customers -> Charge]
PlaceOK == behind \subseteq Holds
TypeOK == RowsOK /\ ChargesOK /\ PlaceOK

Init ==
  /\ hold = [h \in Holds |-> NoHold] /\ due = {}
  /\ booking = [c \in Customers |-> NoBooking]
  /\ phase = [s \in Slots |-> "far"]
  /\ pay = [c \in Customers |-> "NONE"] /\ points = [c \in Customers |-> "NONE"]
  /\ charge = [c \in Customers |-> NoCharge]
  /\ proc = [p \in Processes |-> Idle]
  /\ raced = {} /\ behind = {}

Do(p, next) == proc' = [proc EXCEPT ![p] = next]

\* Rows a transaction that is under way has locked.
Consuming(h) == proc[Owner[h]].op = "create" /\ proc[Owner[h]].hold = h
HoldLocked(h) == Consuming(h) \/ \E c \in Customers : proc[c].op \in {"hold", "insert"} /\ h \in proc[c].stale
BookingLocked(c) == proc[c].op = "cancel" \/ (proc["sweeper"].op = "cancel" /\ proc["sweeper"].of = c)

Lapsed(h) == hold[h].status = "HELD" /\ h \in due
Occupying(s) == {c \in Customers : booking[c].slot = s /\ booking[c].status \notin {"CANCELLED", "DECLINED"}}
Held(s) == {h \in Holds : hold[h].slot = s /\ hold[h].status = "HELD" /\ h \notin due}

----------------------------------------------------------------------------
(* Hold and ReleaseHold.                                                   *)

\* First statement: the lapsed holds of the slot are marked, once those that
\* another transaction has locked are unlocked.
HoldBegins(c, h, s) ==
  /\ proc[c] = Idle /\ Owner[h] = c /\ hold[h] = NoHold
  /\ \A g \in Holds : Lapsed(g) /\ hold[g].slot = s => ~HoldLocked(g)
  /\ Do(c, [op |-> "hold", hold |-> h, slot |-> s,
            stale |-> {g \in Holds : Lapsed(g) /\ hold[g].slot = s}])
  /\ UNCHANGED <<hold, due, booking, phase, pay, charge, points, raced>>

\* What the second statement counts.
Reserved(s) == Cardinality(Held(s)) + Cardinality(Occupying(s))

\* Second statement: its snapshot is taken before it waits for the slot's row
\* lock, so the count is not made again once the lock is granted.
HoldCounts(c) ==
  LET s == proc[c].slot
  IN  /\ proc[c].op = "hold"
      /\ IF phase[s] # "begun" /\ Reserved(s) < Capacity
           THEN Do(c, [op |-> "insert", hold |-> proc[c].hold, slot |-> s, stale |-> proc[c].stale])
           ELSE Do(c, Idle)
      /\ raced' = IF \E h \in Holds : Lapsed(h) /\ hold[h].slot = s /\ Consuming(h)
                    THEN raced \cup {s} ELSE raced
      /\ UNCHANGED <<hold, due, booking, phase, pay, charge, points>>

\* The lock is granted, the hold inserted and the transaction committed.
HoldInserts(c) ==
  LET s == proc[c].slot
  IN  /\ proc[c].op = "insert"
      /\ hold' = [h \in Holds |->
                    IF h = proc[c].hold THEN [status |-> "HELD", slot |-> s]
                    ELSE IF h \in proc[c].stale
                           THEN [hold[h] EXCEPT !.status = "EXPIRED"] ELSE hold[h]]
      /\ Do(c, Idle)
      /\ raced' = IF \E o \in Customers \ {c} : proc[o].op = "insert" /\ proc[o].slot = s
                    THEN raced \cup {s} ELSE raced
      /\ UNCHANGED <<due, booking, phase, pay, charge, points>>

\* A hold that has lapsed and is not marked yet can be released too.
ReleaseHold(h) ==
  /\ proc[Owner[h]] = Idle /\ hold[h].status = "HELD" /\ ~HoldLocked(h)
  /\ hold' = [hold EXCEPT ![h].status = "RELEASED"]
  /\ UNCHANGED <<due, booking, phase, pay, charge, points, proc, raced>>

----------------------------------------------------------------------------
(* Create.                                                                 *)

\* Mutant: the expiry of the hold is not looked at.
CreateFromLapsed(c, h) ==
  /\ proc[c] = Idle /\ booking[c] = NoBooking
  /\ Owner[h] = c /\ hold[h].status = "HELD" /\ phase[hold[h].slot] # "begun"
  /\ Do(c, [op |-> "create", hold |-> h, step |-> IF Method[c] = "WALLET" THEN "redeem" ELSE "pay"])
  /\ UNCHANGED <<hold, due, booking, phase, pay, charge, points, raced>>

CreateStarts(c, h) ==
  /\ proc[c] = Idle /\ booking[c] = NoBooking
  /\ Owner[h] = c /\ hold[h].status = "HELD" /\ h \notin due /\ phase[hold[h].slot] # "begun"
  /\ Do(c, [op |-> "create", hold |-> h, step |-> IF Method[c] = "WALLET" THEN "redeem" ELSE "pay"])
  /\ UNCHANGED <<hold, due, booking, phase, pay, charge, points, raced>>

Creating(c, step) == proc[c].op = "create" /\ proc[c].step = step

\* Redeem is answered from the ledger if it was made before, even if it was
\* reversed since.
CreateRedeems(c) ==
  /\ Creating(c, "redeem")
  /\ points' = [points EXCEPT ![c] = IF @ = "NONE" THEN "TAKEN" ELSE @]
  /\ Do(c, [proc[c] EXCEPT !.step = "pay"])
  /\ UNCHANGED <<hold, due, booking, phase, pay, charge, raced>>

\* Points are captured at once; the provider is asked for a session, which may
\* fail.  Repeated, Create answers with the row.
CreatePays(c) ==
  /\ Creating(c, "pay")
  /\ \/ /\ pay[c] # "NONE"
        /\ UNCHANGED <<pay, charge>>
     \/ /\ pay[c] = "NONE" /\ Method[c] = "WALLET"
        /\ pay' = [pay EXCEPT ![c] = "CAPTURED"]
        /\ UNCHANGED charge
     \/ /\ pay[c] = "NONE" /\ Method[c] = "ONLINE"
        /\ \E status \in Uncaptured :
             /\ pay' = [pay EXCEPT ![c] = status]
             /\ charge' = [charge EXCEPT ![c].session = IF status = "OPEN" THEN "open" ELSE @]
  /\ Do(c, [proc[c] EXCEPT !.step = "commit"])
  /\ UNCHANGED <<hold, due, booking, phase, points, raced>>

\* The payment cannot be created: the points go back and Create fails.
CreateRollsBack(c) ==
  /\ Creating(c, "pay") /\ pay[c] = "NONE"
  /\ points' = [points EXCEPT ![c] = IF @ = "TAKEN" THEN "BACK" ELSE @]
  /\ Do(c, Idle)
  /\ UNCHANGED <<hold, due, booking, phase, pay, charge, raced>>

insertBooking(c, h) ==
  booking' = [booking EXCEPT ![c] =
                [NoBooking EXCEPT !.status = IF pay[c] \in Captured THEN "REQUESTED" ELSE "PENDING_PAYMENT",
                                  !.slot = hold[h].slot, !.payment = pay[c], !.until = h]]

CreateCommits(c) ==
  LET h == proc[c].hold
  IN  /\ Creating(c, "commit")
      /\ insertBooking(c, h)
      /\ hold' = [hold EXCEPT ![h].status = "CONSUMED"]
      /\ Do(c, Idle)
      /\ UNCHANGED <<due, phase, pay, charge, points, raced>>

----------------------------------------------------------------------------
(* Commands on a booking.                                                  *)

updateBooking(c, value) == booking' = [booking EXCEPT ![c] = value]

\* The row is locked, its status is one of from, and value is stored.
mutate(c, from, value) ==
  /\ ~BookingLocked(c) /\ booking[c].status \in from
  /\ updateBooking(c, value)
  /\ UNCHANGED <<due, phase, pay, charge, points, proc, raced>>

ConfirmPayment(c) ==
  /\ pay[c] \in Captured
  /\ mutate(c, {"PENDING_PAYMENT"}, [booking[c] EXCEPT !.status = "REQUESTED", !.payment = pay[c]])
  /\ UNCHANGED hold

\* The start OTP of an accepted booking is left as it is.
Reschedule(c, h) ==
  /\ Owner[h] = c /\ hold[h].status = "HELD" /\ h \notin due /\ ~HoldLocked(h)
  /\ hold[h].slot # booking[c].slot /\ phase[hold[h].slot] # "begun"
  /\ mutate(c, {"REQUESTED", "ACCEPTED"},
            [booking[c] EXCEPT !.status = "REQUESTED", !.slot = hold[h].slot, !.count = @ + 1])
  /\ booking[c].count < MaxReschedules /\ phase[booking[c].slot] = "far"
  /\ hold' = [hold EXCEPT ![h].status = "CONSUMED"]

validProviderTransition ==
  {<<"REQUESTED", "ACCEPTED">>, <<"REQUESTED", "DECLINED">>, <<"ACCEPTED", "PROVIDER_EN_ROUTE">>,
   <<"PROVIDER_EN_ROUTE", "ARRIVED">>, <<"ARRIVED", "START_OTP_REQUIRED">>,
   <<"IN_PROGRESS", "COMPLETION_EVIDENCE_REQUIRED">>}

\* Nothing is refunded when a booking is declined.
ProviderTransition(c, target) ==
  /\ <<booking[c].status, target>> \in validProviderTransition
  /\ mutate(c, Statuses, [booking[c] EXCEPT !.status = target, !.otp = @ \/ target = "ACCEPTED"])
  /\ UNCHANGED hold

\* The OTP of the customer is used up.
Start(c) ==
  /\ booking[c].otp
  /\ mutate(c, {"START_OTP_REQUIRED"}, [booking[c] EXCEPT !.status = "IN_PROGRESS", !.otp = FALSE])
  /\ UNCHANGED hold

Moves(c, from, to) ==
  /\ mutate(c, from, [booking[c] EXCEPT !.status = to])
  /\ UNCHANGED hold

Complete(c) == Moves(c, {"COMPLETION_EVIDENCE_REQUIRED"}, "COMPLETED_PENDING_CONFIRMATION")
ConfirmCompletion(c) == Moves(c, {"COMPLETED_PENDING_CONFIRMATION"}, "COMPLETED")
NoShow(c, who) == Moves(c, {"ACCEPTED", "PROVIDER_EN_ROUTE", "ARRIVED", "START_OTP_REQUIRED"}, who)
Dispute(c) ==
  Moves(c, {"CUSTOMER_NO_SHOW", "PROVIDER_NO_SHOW", "COMPLETED_PENDING_CONFIRMATION", "COMPLETED"}, "DISPUTED")

----------------------------------------------------------------------------
(* Cancel, and the sweeper that cancels what was not paid in time.  The    *)
(* booking's own copy of the payment decides between refund and void.      *)

CancelStarts(c) ==
  /\ proc[c] = Idle /\ ~BookingLocked(c)
  /\ booking[c].status \in {"PENDING_PAYMENT", "REQUESTED", "ACCEPTED"} /\ phase[booking[c].slot] = "far"
  /\ Do(c, [op |-> "cancel", of |-> c,
            step |-> IF Method[c] = "WALLET" THEN "reverse"
                     ELSE IF booking[c].payment \in Captured THEN "refund" ELSE "void"])
  /\ UNCHANGED <<hold, due, booking, phase, pay, charge, points, raced>>

\* Mutant: only holds are swept for, not the payment windows they left.
ExpireUnconsumed(c) ==
  /\ proc["sweeper"] = Idle /\ ~BookingLocked(c)
  /\ booking[c].status = "PENDING_PAYMENT" /\ Lapsed(booking[c].until)
  /\ Do("sweeper", [op |-> "cancel", of |-> c, step |-> "void"])
  /\ UNCHANGED <<hold, due, booking, phase, pay, charge, points, raced>>

\* The payment window of a booking ends with the hold it was made from.  The
\* sweeper lists a page of them, the earliest first; what it cannot cancel stays
\* on the page.
ExpireStarts(c) ==
  /\ proc["sweeper"] = Idle /\ ~BookingLocked(c)
  /\ booking[c].status = "PENDING_PAYMENT" /\ booking[c].until \in due \ behind
  /\ Do("sweeper", [op |-> "cancel", of |-> c, step |-> "void"])
  /\ UNCHANGED <<hold, due, booking, phase, pay, charge, points, raced>>

Cancelling(p, step) == proc[p].op = "cancel" /\ proc[p].step = step

CancelReverses(c) ==
  /\ Cancelling(c, "reverse")
  /\ points' = [points EXCEPT ![c] = "BACK"]
  /\ Do(c, [proc[c] EXCEPT !.step = "refund"])
  /\ UNCHANGED <<hold, due, booking, phase, pay, charge, raced>>

\* RequestRefund: asked for before, whether or not the provider was told, or
\* recorded before the provider is asked with no lock held on the payment.
CancelRefunds(c) ==
  /\ Cancelling(c, "refund")
  /\ \/ /\ pay[c] \in Refunding
        /\ UNCHANGED pay
        /\ Do(c, [proc[c] EXCEPT !.step = "commit"])
     \/ /\ pay[c] \in Captured \cup {"REFUND_FAILED"}
        /\ pay' = [pay EXCEPT ![c] = "REFUND_REQUESTED"]
        /\ Do(c, [proc[c] EXCEPT !.step = "finalize"])
     \/ /\ pay[c] \notin Captured \cup Refunding \cup {"REFUND_FAILED"}
        /\ UNCHANGED pay
        /\ Do(c, Idle)
  /\ UNCHANGED <<hold, due, booking, phase, charge, points, raced>>

\* What the provider answered, whatever the row says by now; points need none.
finalizeRefund(c) ==
  /\ Cancelling(c, "finalize")
  /\ \/ /\ pay' = [pay EXCEPT ![c] = "REFUND_SUBMITTED"]
        /\ Do(c, [proc[c] EXCEPT !.step = "commit"])
     \/ /\ Method[c] = "ONLINE"
        /\ pay' = [pay EXCEPT ![c] = "REFUND_FAILED"]
        /\ Do(c, Idle)
  /\ UNCHANGED <<hold, due, booking, phase, charge, points, raced>>

\* Mutant: a payment that cannot be voided any more is no obstacle.
CancelVoidsAnyway(p) ==
  LET c == proc[p].of
  IN  /\ Cancelling(p, "void")
      /\ pay' = [pay EXCEPT ![c] = IF @ \in Uncaptured THEN "CANCELLED" ELSE @]
      /\ Do(p, [proc[p] EXCEPT !.step = "commit"])
      /\ UNCHANGED <<hold, due, booking, phase, charge, points, raced>>

\* CancelUncaptured, which fails once the row says captured.  The provider is not
\* told: the session stays open.
CancelVoids(p) ==
  LET c == proc[p].of
  IN  /\ Cancelling(p, "void")
      /\ \/ /\ pay[c] \in Uncaptured \cup {"CANCELLED"}
            /\ pay' = [pay EXCEPT ![c] = "CANCELLED"]
            /\ Do(p, [proc[p] EXCEPT !.step = "commit"])
         \/ /\ pay[c] \notin Uncaptured \cup {"CANCELLED"}
            /\ UNCHANGED pay
            /\ Do(p, Idle)
      /\ UNCHANGED <<hold, due, booking, phase, charge, points, raced>>

CancelCommits(p) ==
  LET c == proc[p].of
  IN  /\ Cancelling(p, "commit")
      /\ updateBooking(c, [booking[c] EXCEPT !.status = "CANCELLED", !.payment = pay[c]])
      /\ Do(p, Idle)
      /\ UNCHANGED <<hold, due, phase, pay, charge, points, raced>>

\* The other statement of the sweeper; it waits for locked rows.
ExpireHolds ==
  /\ \E h \in Holds : Lapsed(h)
  /\ \A h \in Holds : Lapsed(h) => ~HoldLocked(h)
  /\ hold' = [h \in Holds |-> IF Lapsed(h) THEN [hold[h] EXCEPT !.status = "EXPIRED"] ELSE hold[h]]
  /\ UNCHANGED <<due, booking, phase, pay, charge, points, proc, raced>>

\* A transaction is rolled back: a crash, a timeout, a serialization failure.
\* What other services did for it stays.
Abort(p) ==
  /\ proc[p] # Idle
  /\ Do(p, Idle)
  /\ UNCHANGED <<hold, due, booking, phase, pay, charge, points, raced>>

----------------------------------------------------------------------------
(* The payment of a booking that the customer knows of, at the provider    *)
(* and in the payment service.                                             *)

Bill(c, status, value) ==
  /\ booking[c] # NoBooking /\ Method[c] = "ONLINE"
  /\ pay' = [pay EXCEPT ![c] = status] /\ charge' = [charge EXCEPT ![c] = value]
  /\ UNCHANGED <<hold, due, booking, phase, points, proc, raced>>

\* The customer pays a session, whatever became of the payment.
Pay(c) ==
  \/ charge[c].session = "open" /\ Bill(c, pay[c], [charge[c] EXCEPT !.session = "paid"])
  \/ charge[c].older = "open" /\ Bill(c, pay[c], [charge[c] EXCEPT !.older = "paid"])

\* A webhook or the recovery loop records the capture of the session the row
\* names.  A row that was cancelled refuses it.
Captures(c) ==
  /\ charge[c].session = "paid" /\ pay[c] \in {"OPEN", "RETRYABLE"}
  /\ Bill(c, "CAPTURED", charge[c])

\* The webhooks of a failed attempt and of a refund that failed.
AttemptFails(c) == pay[c] = "OPEN" /\ Bill(c, "RETRYABLE", charge[c])
RefundFails(c) == pay[c] \in Refunding /\ Bill(c, "REFUND_FAILED", charge[c])

\* RetryProvider asks for another session with no lock held,
RetryStarts(c) ==
  /\ pay[c] = "RETRYABLE" /\ ~charge[c].asking
  /\ Bill(c, pay[c], [charge[c] EXCEPT !.asking = TRUE])

Superseded(c) ==
  LET sessions == {charge[c].session, charge[c].older}
  IN  IF "paid" \in sessions THEN "paid" ELSE IF "open" \in sessions THEN "open" ELSE "none"

\* and finalizeInitialization writes it over any status but PROVIDER_ORDER_CREATED,
\* over a capture, a cancellation and a refund too.
RetryFinalizes(c) ==
  /\ charge[c].asking
  /\ \/ /\ pay[c] = "OPEN" /\ charge[c].session # "none"
        /\ Bill(c, pay[c], [charge[c] EXCEPT !.asking = FALSE])
     \/ /\ ~(pay[c] = "OPEN" /\ charge[c].session # "none")
        /\ Bill(c, "OPEN", [session |-> "open", older |-> Superseded(c), asking |-> FALSE,
                             reopened |-> charge[c].reopened \/ pay[c] # "RETRYABLE"])

RetryFails(c) == charge[c].asking /\ Bill(c, pay[c], [charge[c] EXCEPT !.asking = FALSE])

----------------------------------------------------------------------------
(* Time.                                                                   *)

Lapse(h) ==
  /\ hold[h].status \in {"HELD", "CONSUMED"} /\ h \notin due
  /\ due' = due \cup {h}
  /\ UNCHANGED <<hold, booking, phase, pay, charge, points, proc, raced>>

Approach(s) ==
  /\ phase[s] # "begun"
  /\ phase' = [phase EXCEPT ![s] = IF @ = "far" THEN "near" ELSE "begun"]
  /\ UNCHANGED <<hold, due, booking, pay, charge, points, proc, raced>>

\* expires_at passes: the bookings before it on the sweeper's list are known.
Placed == behind' \in {behind, behind \cup (due' \ due)}

OthersLeave ==
  /\ \E h \in behind : behind' = behind \ {h}
  /\ UNCHANGED steps

Step ==
  \/ \E c \in Customers, h \in Holds, s \in Slots : HoldBegins(c, h, s)
  \/ \E h \in Holds : ReleaseHold(h) \/ Lapse(h)
  \/ \E c \in Customers, h \in Holds : CreateStarts(c, h) \/ Reschedule(c, h)
  \/ \E c \in Customers :
       \/ HoldCounts(c) \/ HoldInserts(c)
       \/ CreateRedeems(c) \/ CreatePays(c) \/ CreateRollsBack(c) \/ CreateCommits(c)
       \/ ConfirmPayment(c)
       \/ Pay(c) \/ Captures(c) \/ AttemptFails(c) \/ RefundFails(c)
       \/ RetryStarts(c) \/ RetryFinalizes(c) \/ RetryFails(c)
       \/ Start(c) \/ Complete(c) \/ ConfirmCompletion(c) \/ Dispute(c)
       \/ CancelStarts(c) \/ CancelReverses(c) \/ CancelRefunds(c) \/ finalizeRefund(c)
       \/ ExpireStarts(c)
  \/ \E c \in Customers, target \in Statuses : ProviderTransition(c, target)
  \/ \E c \in Customers, who \in {"CUSTOMER_NO_SHOW", "PROVIDER_NO_SHOW"} : NoShow(c, who)
  \/ \E p \in Processes : CancelVoids(p) \/ CancelCommits(p) \/ Abort(p)
  \/ ExpireHolds
  \/ \E s \in Slots : Approach(s)

Next == (Step /\ Placed) \/ OthersLeave

Spec == Init /\ [][Next]_vars

\* Time passes; recoveryLoop sweeps again and again and tries every booking of a
\* page, and not all of its transactions are rolled back; the customers' end, by
\* their timeout if not before.  Nothing makes the bookings before one on the
\* list go.
Fair(A) == A /\ Placed
Fairness ==
  /\ \A h \in Holds : WF_vars(Fair(Lapse(h)))
  /\ \A c \in Customers : SF_vars(Fair(ExpireStarts(c))) /\ WF_vars(Fair(Abort(c)))
  /\ SF_vars(Fair(CancelVoids("sweeper"))) /\ SF_vars(Fair(CancelCommits("sweeper")))

FairSpec == Spec /\ Fairness

----------------------------------------------------------------------------

\* "24 concurrent last-slot attempts produce exactly one winner": live holds and
\* bookings never take more places than a slot has.
NotOverbooked == \A s \in Slots : Reserved(s) <= Capacity

\* The only ways to overbook are two Hold transactions that overlap, and a hold
\* that lapses while a booking is made from it and a Hold is between its two
\* statements: no order of bookings, moves, cancellations, releases, sweeps and
\* rollbacks does it.
OverbookedOnlyByRace == \A s \in Slots : Reserved(s) > Capacity => s \in raced

\* "Cancellation ... cancels or refunds the payment, reverses wallet lots": in the
\* books, a cancelled booking keeps no points, and its payment is void or its
\* refund was asked for (the provider may turn it down later), whether the
\* customer or the sweeper cancelled it, at the first attempt or after rollbacks.
\* One thing undoes it: a retry that was asking the provider meanwhile and writes
\* the payment open again.
CancelledIsSettled ==
  \A c \in Customers : booking[c].status = "CANCELLED" =>
    /\ points[c] # "TAKEN"
    /\ pay[c] \in {"CANCELLED", "REFUND_FAILED"} \cup Refunding \/ charge[c].reopened

\* The customer of a booking whose payment was voided has not paid.  This does not
\* hold: the session can still be paid, or was before its webhook came, and a
\* capture of a cancelled payment is turned away.
VoidIsNotCharged ==
  \A c \in Customers : pay[c] = "CANCELLED" => "paid" \notin {charge[c].session, charge[c].older}

\* No place is stranded: a booking that nobody pays for is cancelled, and its slot
\* free again, once it is on the page the sweeper lists, however often the
\* sweeper's transaction is rolled back.  Bookings captured and never confirmed
\* keep their places, and a page of them stops the sweeper for all those behind.
UnpaidIsFreed ==
  \A c \in Customers :
    booking[c].status = "PENDING_PAYMENT" /\ booking[c].until \in due \ behind ~>
      booking[c].status # "PENDING_PAYMENT" \/ pay[c] \in Captured

\* A booking paid in points holds the points.  A Create that was rolled back
\* once and repeated breaks it: Redeem is answered from the ledger.
PaidInPoints ==
  \A c \in Customers :
    Method[c] = "WALLET" /\ booking[c].status \notin {"NONE", "CANCELLED"} => points[c] = "TAKEN"

\* What is declined is paid back, as the action VIEW_REFUND it offers suggests.
\* It is not: no refund is asked for.
DeclinedIsRefunded ==
  \A c \in Customers : booking[c].status = "DECLINED" => pay[c] \notin Captured
=============================================================================
