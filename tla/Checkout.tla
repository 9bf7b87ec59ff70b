------------------------------ MODULE Checkout ------------------------------
(***************************************************************************)
(* One checkout (internal/checkout): the saga that drives stock, points,   *)
(* payment and order, which live in four schemas with no transaction       *)
(* across them.  Every call of another service is one step of the process  *)
(* that makes it; a process may die before any of its steps.               *)
(*                                                                         *)
(* The components are reduced to what the saga can tell apart.  Inventory, *)
(* Wallet, Payment and Order model each of them in full; here stock is one *)
(* reservation, points one redemption, and the vendor's and the rider's    *)
(* part of an order's life is one step.  Two steps of a process are joined *)
(* where the first only reads what nothing can change before the second,   *)
(* or what the second checks again by revision.  A refund is an amount of  *)
(* money and whole points: the minor units that refundTenderSplit loses in *)
(* dividing are left out.                                                  *)
(***************************************************************************)
EXTENDS Naturals, FiniteSets

CONSTANTS
  Methods,     \* the payment methods a placement may choose from
  UsesPoints,  \* the quote redeems points
  Shoppers,    \* requests that place the order, all with one idempotency key
  Cancellers,  \* FinalizeCancellation commands, each with a key of its own
  Retriers,    \* requests for another session at the provider, with a key each
  Faults,      \* what may go wrong: "HOLD_LAPSES", "REFUND_FAILS"
  MaxCrashes   \* bound on the number of processes that die

ASSUME CheckoutAssumption ==
  /\ Methods \subseteq {"PAYSTACK", "COD", "WALLET"} /\ UsesPoints \in BOOLEAN
  /\ "WALLET" \in Methods => UsesPoints
  /\ Faults \subseteq {"HOLD_LAPSES", "REFUND_FAILS"} /\ MaxCrashes \in Nat
  /\ (Shoppers \cup Cancellers \cup Retriers) \cap {"webhook", "recovery", "return", "refund"} = {}
  /\ Shoppers \cap Cancellers = {} /\ Retriers \cap (Shoppers \cup Cancellers) = {}

VARIABLES
  method,    \* how the order is paid
  hold,      \* state of the reservation
  due,       \* its expiry has passed
  restocks,  \* who put the goods back
  points,    \* state of the redemption
  backBy,    \* whose key the reversal of the redemption has
  pay,       \* status of the payment
  refundOf,  \* the amount a refund was requested for: "ALL", "PART" or "NONE"
  provider,  \* the session the payment's row names, at the provider
  older,     \* what became of sessions it named before
  reopened,  \* a retry came late and wrote over the status it found
  order,     \* status of the order
  saved,     \* the process row and the answer of Place are stored
  pc, seen,  \* where each process is, and what it read last
  crashes

stock == <<hold, due, restocks>>
wallet == <<points, backBy>>
sessions == <<provider, older, reopened>>
money == <<pay, refundOf, sessions>>
vars == <<method, stock, wallet, money, order, saved, pc, seen, crashes>>

Finalizers == {"webhook", "recovery"}
Processes == Shoppers \cup Cancellers \cup Retriers \cup Finalizers \cup {"return", "refund"}

Captured == {"CAPTURED", "RECONCILED"}
RefundStatuses == {"REFUND_REQUESTED", "REFUND_SUBMITTED", "REFUNDED", "REFUND_FAILED"}
Uncaptured == {"PROVIDER_ORDER_CREATED", "AUTHORISATION_PENDING", "FAILED_RETRYABLE", "FAILED_FINAL"}

\* A session is open, paid, being paid back (the provider has accepted the
\* refund), paid back, or paid back with the event of it on record here.
Session == {"OPEN", "PAID", "PAID_BACK", "SETTLED", "TOLD"}
Returned == {"PAID_BACK", "SETTLED", "TOLD"}
Sessions == {provider} \cup older

TypeOK ==
  /\ method \in Methods
  /\ hold \in {"NONE", "RESERVED", "COMMITTED", "RELEASED"} /\ due \in BOOLEAN
  /\ restocks \subseteq Cancellers \cup {"return"} /\ Cardinality(restocks) <= 1
  /\ points \in {"NONE", "TAKEN", "BACK"}
  /\ backBy \in Cancellers \cup {"NONE", "place", "return"}
  /\ pay \in {"NONE", "CANCELLED"} \cup Uncaptured \cup Captured \cup RefundStatuses
  /\ refundOf \in {"NONE", "ALL", "PART"}
  /\ provider \in {"NONE"} \cup Session /\ older \subseteq Session
  /\ reopened \in BOOLEAN /\ saved \in BOOLEAN
  /\ order \in {"NONE", "PENDING_PAYMENT", "PLACED", "REJECTED", "COMPLETED", "CANCEL_REQUESTED",
                "CANCELLED", "RETURN_REQUESTED", "RETURN_APPROVED", "RETURNED", "REFUNDED"}
  /\ DOMAIN pc = Processes /\ DOMAIN seen = Processes
  /\ crashes \in 0..MaxCrashes

Init ==
  /\ method \in Methods
  /\ hold = "NONE" /\ due = FALSE /\ restocks = {}
  /\ points = "NONE" /\ backBy = "NONE"
  /\ pay = "NONE" /\ refundOf = "NONE"
  /\ provider = "NONE" /\ older = {} /\ reopened = FALSE
  /\ order = "NONE" /\ saved = FALSE
  /\ pc = [p \in Processes |-> "idle"] /\ seen = [p \in Processes |-> "NONE"]
  /\ crashes = 0

\* Process p goes from one label to another.
Goto(p, from, to) ==
  /\ pc[p] = from
  /\ pc' = [pc EXCEPT ![p] = to]
  /\ UNCHANGED <<method, crashes, saved>>

Forget(p) == seen' = [seen EXCEPT ![p] = "NONE"]
Note(p, value) == seen' = [seen EXCEPT ![p] = value]

\* The status of a refund matters to a return later on, to a cancellation not.
Answered(p, value) == Note(p, IF p = "return" THEN value ELSE "NONE")

----------------------------------------------------------------------------
(* Place.                                                                  *)

\* No stored answer yet, the quote is fresh and repriced to the same value.
PlaceStarts(p) ==
  /\ ~saved
  /\ Goto(p, "idle", "reserve")
  /\ UNCHANGED <<stock, wallet, money, order, seen>>

\* The expiry asked for is part of the command, so a second Reserve with the
\* key of the first, made at another time, is a conflict.
PlaceReserves(p) ==
  /\ \/ hold = "NONE" /\ hold' = "RESERVED" /\ Goto(p, "reserve", IF UsesPoints THEN "redeem" ELSE "pay")
     \/ UNCHANGED hold /\ Goto(p, "reserve", "idle")
  /\ UNCHANGED <<due, restocks, wallet, money, order, seen>>

PlaceRedeems(p) ==
  /\ \/ points' = "TAKEN" /\ Goto(p, "redeem", "pay")
     \/ UNCHANGED points /\ Goto(p, "redeem", "release")
  /\ UNCHANGED <<stock, backBy, money, order, seen>>

\* CreateWithPayer records the payment before it calls the provider.
PlaceCreatesPayment(p) ==
  /\ \/ /\ pay' = CASE method = "COD" -> "AUTHORISATION_PENDING"
                    [] method = "WALLET" -> "CAPTURED"
                    [] OTHER -> "FAILED_RETRYABLE"
        /\ Goto(p, "pay", IF method = "PAYSTACK" THEN "initialize" ELSE "order")
     \/ UNCHANGED pay /\ Goto(p, "pay", "release")
  /\ UNCHANGED <<stock, wallet, refundOf, sessions, order, seen>>

\* A provider that fails leaves a payment to retry, one whose answer is not
\* understood a payment that is final, and the order is created all the same.
PlaceInitializes(p) ==
  /\ \/ /\ pay' = "PROVIDER_ORDER_CREATED" /\ provider' = "OPEN"
        /\ Goto(p, "initialize", "order")
     \/ /\ pay' \in {"FAILED_RETRYABLE", "FAILED_FINAL"} /\ UNCHANGED provider
        /\ Goto(p, "initialize", "order")
     \/ UNCHANGED <<pay, provider>> /\ Goto(p, "initialize", "release")
  /\ UNCHANGED <<stock, wallet, refundOf, older, reopened, order, seen>>

PlaceCreatesOrder(p) ==
  /\ \/ /\ order' = IF method = "PAYSTACK" THEN "PENDING_PAYMENT" ELSE "PLACED"
        /\ Goto(p, "order", IF method = "PAYSTACK" THEN "save" ELSE "commit")
     \/ UNCHANGED order /\ Goto(p, "order", "release")
  /\ UNCHANGED <<stock, wallet, money, seen>>

\* Commit succeeds on a live or a committed reservation; one that is due it
\* releases, and fails.
Committable == hold = "COMMITTED" \/ (hold = "RESERVED" /\ ~due)

\* Mutant: the error of Commit is ignored.
CommitIgnored(p, from, to) ==
  /\ hold' = IF Committable THEN "COMMITTED" ELSE "RELEASED"
  /\ Goto(p, from, to)
  /\ UNCHANGED <<due, restocks>>

CommitStock(p, from, to) ==
  /\ \/ Committable /\ hold' = "COMMITTED" /\ Goto(p, from, to)
     \/ ~Committable /\ hold' = "RELEASED" /\ Goto(p, from, "idle")
  /\ UNCHANGED <<due, restocks>>

PlaceCommits(p) ==
  /\ CommitStock(p, "commit", "save")
  /\ UNCHANGED <<wallet, money, order, seen>>

SavePlace(p) ==
  /\ pc[p] = "save"
  /\ pc' = [pc EXCEPT ![p] = "idle"]
  /\ saved' = TRUE
  /\ UNCHANGED <<stock, wallet, money, order, seen, crashes, method>>

\* compensate ignores the errors of both its calls.
CompensateStock(p) ==
  /\ hold' = IF hold = "RESERVED" THEN "RELEASED" ELSE hold
  /\ Goto(p, "release", IF points = "TAKEN" THEN "reverse" ELSE "idle")
  /\ UNCHANGED <<due, restocks, wallet, money, order, seen>>

CompensatePoints(p) ==
  /\ Goto(p, "reverse", "idle")
  /\ points' = "BACK" /\ backBy' = "place"
  /\ UNCHANGED <<stock, money, order, seen>>

Place(p) ==
  \/ PlaceStarts(p) \/ PlaceReserves(p) \/ PlaceRedeems(p)
  \/ PlaceCreatesPayment(p) \/ PlaceInitializes(p) \/ PlaceCreatesOrder(p)
  \/ PlaceCommits(p) \/ SavePlace(p)
  \/ CompensateStock(p) \/ CompensatePoints(p)

----------------------------------------------------------------------------
(* The customer, the vendor and the provider.                              *)

\* RetryProvider reads the row and calls the provider: a transaction,
RetryStarts(p) ==
  /\ order # "NONE" /\ pay = "FAILED_RETRYABLE"
  /\ Goto(p, "idle", "asking")
  /\ UNCHANGED <<stock, wallet, money, order, seen>>

\* and finalizeInitialization records the session, another.  It leaves alone only
\* a session that is open: a capture, a cancellation or a refund that came in
\* between is written over.  Its answer is on record then, under the key of the
\* request.
RetryFinalizes(p) ==
  /\ pay # "PROVIDER_ORDER_CREATED"
  /\ pay' = "PROVIDER_ORDER_CREATED" /\ provider' = "OPEN"
  /\ older' = Sessions \ {"NONE"}
  /\ reopened' = (reopened \/ pay # "FAILED_RETRYABLE")
  /\ Goto(p, "asking", "done")
  /\ UNCHANGED <<stock, wallet, refundOf, order, seen>>

\* The provider fails, or the row names an open session already.
RetryFails(p) ==
  /\ Goto(p, "asking", "idle")
  /\ UNCHANGED <<stock, wallet, money, order, seen>>

RetryPayment(p) == RetryStarts(p) \/ RetryFinalizes(p) \/ RetryFails(p)

\* The customer pays at the provider, which nobody tells of a cancellation or of a
\* session that took the place of this one.
Pay ==
  /\ order # "NONE"
  /\ \/ provider = "OPEN" /\ provider' = "PAID" /\ UNCHANGED older
     \/ "OPEN" \in older /\ "PAID" \notin older /\ older' = older \cup {"PAID"} /\ UNCHANGED provider
  /\ UNCHANGED <<stock, wallet, pay, refundOf, reopened, order, saved, pc, seen, crashes, method>>

\* The webhook of an attempt that failed; the session stays open.
AttemptFails ==
  /\ order # "NONE" /\ provider \in {"OPEN", "PAID"} /\ pay = "PROVIDER_ORDER_CREATED"
  /\ pay' = "FAILED_RETRYABLE"
  /\ UNCHANGED <<stock, wallet, refundOf, sessions, order, saved, pc, seen, crashes, method>>

\* The order moves by a command of someone outside the saga.
Moves(from, to) ==
  /\ order \in from
  /\ order' = to
  /\ UNCHANGED <<stock, wallet, money, saved, pc, seen, crashes, method>>

RequestCancel == Moves({"PENDING_PAYMENT", "PLACED"}, "CANCEL_REQUESTED")
Reject == Moves({"PLACED"}, "REJECTED")
Deliver == Moves({"PLACED"}, "COMPLETED")
RequestReturn == Moves({"COMPLETED"}, "RETURN_REQUESTED")

Lapse ==
  /\ "HOLD_LAPSES" \in Faults
  /\ hold = "RESERVED" /\ ~due
  /\ due' = TRUE
  /\ UNCHANGED <<hold, restocks, wallet, money, order, saved, pc, seen, crashes, method>>

Sweep ==
  /\ hold = "RESERVED" /\ due
  /\ hold' = "RELEASED"
  /\ UNCHANGED <<due, restocks, wallet, money, order, saved, pc, seen, crashes, method>>

----------------------------------------------------------------------------
(* FinalizeCapturedPayment, for a webhook and for the recovery loop.       *)

\* The provider repeats the webhook of a capture until it is answered.  One for a
\* session the row does not name, or from a status that does not allow it, is
\* refused; a repeated one is answered from the record of the first.
CaptureWebhook ==
  /\ provider = "PAID"
  /\ pay \in {"PROVIDER_ORDER_CREATED", "FAILED_RETRYABLE"} \cup Captured
  /\ pay' = IF pay \in Captured THEN pay ELSE "CAPTURED"
  /\ Goto("webhook", "idle", "payment")
  /\ UNCHANGED <<stock, wallet, refundOf, sessions, order, seen>>

\* Mutant: the provider is not asked.
ReconcileUnverified ==
  /\ pay \in {"PROVIDER_ORDER_CREATED", "CAPTURED"}
  /\ pay' = "RECONCILED"
  /\ Goto("recovery", "idle", "payment")
  /\ UNCHANGED <<stock, wallet, refundOf, sessions, order, seen>>

\* The recovery loop asks the provider about payments that are open or captured.
Reconcile ==
  /\ provider = "PAID" /\ pay \in {"PROVIDER_ORDER_CREATED", "CAPTURED"}
  /\ pay' = "RECONCILED"
  /\ Goto("recovery", "idle", "payment")
  /\ UNCHANGED <<stock, wallet, refundOf, sessions, order, seen>>

\* The process row is found and the payment is still captured.
FinalizeReadsPayment(p) ==
  /\ IF saved /\ pay \in Captured THEN Goto(p, "payment", "stock") ELSE Goto(p, "payment", "idle")
  /\ UNCHANGED <<stock, wallet, money, order, seen>>

FinalizeCommits(p) ==
  /\ CommitStock(p, "stock", "order")
  /\ UNCHANGED <<wallet, money, order, seen>>

FinalizePlaces(p) ==
  /\ Goto(p, "order", "idle")
  /\ order' = IF order = "PENDING_PAYMENT" THEN "PLACED" ELSE order
  /\ UNCHANGED <<stock, wallet, money, seen>>

FinalizeCapturedPayment(p) == FinalizeReadsPayment(p) \/ FinalizeCommits(p) \/ FinalizePlaces(p)

----------------------------------------------------------------------------
(* Steps that a cancellation and a return share.                           *)

AmountOf(p) == IF p = "return" THEN "PART" ELSE "ALL"

\* RequestRefundWithProvider: answered as it is if the same amount was asked
\* for before, else recorded.  An order paid with points alone has a payment of
\* nothing, and a refund of nothing is refused.
RequestRefund(p, from, to) ==
  \/ /\ pay \in RefundStatuses \ {"REFUND_FAILED"} /\ refundOf = AmountOf(p)
     /\ Answered(p, pay) /\ Goto(p, from, to) /\ UNCHANGED <<pay, refundOf>>
  \/ /\ pay \in Captured \cup {"REFUND_FAILED"} /\ method # "WALLET"
     /\ pay' = "REFUND_REQUESTED" /\ refundOf' = AmountOf(p)
     /\ Goto(p, from, "refunding") /\ UNCHANGED seen
  \/ /\ \/ pay \notin Captured \cup RefundStatuses
        \/ pay \in RefundStatuses \ {"REFUND_FAILED"} /\ refundOf # AmountOf(p)
        \/ method = "WALLET"
     /\ Goto(p, from, "idle") /\ Forget(p) /\ UNCHANGED <<pay, refundOf>>

\* The provider is asked for the refund of the session the row names.  It accepts
\* or has made it; it refuses; or it accepts and the answer is lost.  Cash has no
\* provider: the refund counts as submitted.
AskRefund(p) ==
  /\ \/ method # "PAYSTACK" /\ Note(p, "REFUND_SUBMITTED") /\ UNCHANGED provider
     \/ provider = "PAID" /\ provider' = "PAID_BACK" /\ Note(p, "REFUND_SUBMITTED")
     \/ provider = "PAID" /\ provider' = "SETTLED" /\ Note(p, "REFUNDED")
     \/ /\ method = "PAYSTACK" /\ ("REFUND_FAILS" \in Faults \/ provider # "PAID")
        /\ Note(p, "REFUND_FAILED") /\ UNCHANGED provider
     \/ /\ "REFUND_FAILS" \in Faults /\ provider = "PAID" /\ provider' = "PAID_BACK"
        /\ Note(p, "REFUND_FAILED")
  /\ Goto(p, "refunding", "finalize")
  /\ UNCHANGED <<stock, wallet, pay, refundOf, older, reopened, order>>

\* finalizeRefund, a transaction of its own, writes the answer whatever the row has
\* come to say, as long as the amount is the one asked for.
finalizeRefund(p, to) ==
  /\ pay' = IF refundOf = AmountOf(p) THEN seen[p] ELSE pay
  /\ IF refundOf = AmountOf(p) /\ seen[p] # "REFUND_FAILED"
     THEN Goto(p, "finalize", to) /\ Answered(p, seen[p])
     ELSE Goto(p, "finalize", "idle") /\ Forget(p)
  /\ UNCHANGED <<stock, wallet, refundOf, sessions, order>>

\* Restock is idempotent by key and bounded by what was committed.
Restock(p, to) ==
  /\ \/ p \in restocks /\ UNCHANGED restocks /\ Goto(p, "restock", to)
     \/ hold = "COMMITTED" /\ restocks = {} /\ restocks' = {p} /\ Goto(p, "restock", to)
     \/ (hold # "COMMITTED" \/ restocks \notin {{}, {p}}) /\ UNCHANGED restocks /\ Goto(p, "restock", "idle")
  /\ UNCHANGED <<hold, due, wallet, money, order, seen>>

----------------------------------------------------------------------------
(* FinalizeCancellation.                                                   *)

\* Mutant: the status of the order is not read again.
CancelAnything(p) ==
  /\ saved /\ order # "CANCELLED"
  /\ Goto(p, "idle", IF pay \in Captured \cup {"REFUND_FAILED"} THEN "refund" ELSE "void")
  /\ UNCHANGED <<stock, wallet, money, order, seen>>

CancelStarts(p) ==
  /\ order = "CANCEL_REQUESTED" /\ saved
  /\ Goto(p, "idle", IF pay \in Captured \cup {"REFUND_FAILED"} THEN "refund" ELSE "void")
  /\ UNCHANGED <<stock, wallet, money, order, seen>>

CancelRefunds(p) ==
  /\ RequestRefund(p, "refund", "hold")
  /\ UNCHANGED <<stock, wallet, sessions, order>>

CancelUncaptured(p) ==
  /\ \/ pay \in Uncaptured \cup {"CANCELLED"} /\ pay' = "CANCELLED" /\ Goto(p, "void", "hold")
     \/ pay \in Captured \cup RefundStatuses /\ UNCHANGED pay /\ Goto(p, "void", "idle")
  /\ UNCHANGED <<stock, wallet, refundOf, sessions, order, seen>>

\* Mutant: a reservation that was committed is left alone.
CancelSkipsCommitted(p) ==
  /\ Goto(p, "hold", IF hold = "RESERVED" THEN "release" ELSE "points")
  /\ UNCHANGED <<stock, wallet, money, order, seen>>

CancelReadsHold(p) ==
  /\ Goto(p, "hold", CASE hold = "RESERVED" -> "release"
                       [] hold = "COMMITTED" -> "restock"
                       [] OTHER -> "points")
  /\ UNCHANGED <<stock, wallet, money, order, seen>>

CancelReleases(p) ==
  /\ p \in Cancellers
  /\ \/ hold # "COMMITTED" /\ hold' = "RELEASED" /\ Goto(p, "release", "points")
     \/ hold = "COMMITTED" /\ UNCHANGED hold /\ Goto(p, "release", "idle")
  /\ UNCHANGED <<due, restocks, wallet, money, order, seen>>

\* ErrAlreadyReversed is not an error here.
CancelReverses(p) ==
  /\ Goto(p, "points", "order")
  /\ IF points = "TAKEN" THEN points' = "BACK" /\ backBy' = p ELSE UNCHANGED wallet
  /\ UNCHANGED <<stock, money, order, seen>>

CancelEnds(p) ==
  /\ Goto(p, "order", "idle") /\ Forget(p)
  /\ order' = IF order = "CANCEL_REQUESTED" THEN "CANCELLED" ELSE order
  /\ UNCHANGED <<stock, wallet, money>>

FinalizeCancellation(p) ==
  \/ CancelStarts(p) \/ CancelRefunds(p) \/ CancelUncaptured(p)
  \/ AskRefund(p) \/ finalizeRefund(p, "hold")
  \/ CancelReadsHold(p) \/ CancelReleases(p) \/ Restock(p, "points")
  \/ CancelReverses(p) \/ CancelEnds(p)

----------------------------------------------------------------------------
(* ApproveReturn, always retried with the same key.                        *)

\* The decision is made, or answered from the record of having been made.
ReturnStarts ==
  /\ order \in {"RETURN_REQUESTED", "RETURN_APPROVED", "RETURNED"} /\ saved
  /\ order' = IF order = "RETURN_REQUESTED" THEN "RETURN_APPROVED" ELSE order
  /\ Goto("return", "idle", IF method = "WALLET" THEN "restock" ELSE "refund")
  /\ UNCHANGED <<stock, wallet, money, seen>>

\* Cash counts as collected before it can be refunded.
ReturnCollects ==
  /\ pc["return"] = "refund" /\ pay = "AUTHORISATION_PENDING"
  /\ pay' = "CAPTURED"
  /\ UNCHANGED <<stock, wallet, refundOf, sessions, order, saved, pc, seen, crashes, method>>

ReturnRefunds ==
  /\ pay # "AUTHORISATION_PENDING"
  /\ RequestRefund("return", "refund", "restock")
  /\ UNCHANGED <<stock, wallet, sessions, order>>

ReturnRestoresPoints ==
  /\ \/ points = "TAKEN" /\ points' = "BACK" /\ backBy' = "return" /\ Goto("return", "points", "received")
     \/ /\ points = "NONE" \/ backBy = "return"
        /\ UNCHANGED wallet /\ Goto("return", "points", "received")
     \/ points = "BACK" /\ backBy # "return" /\ UNCHANGED wallet /\ Goto("return", "points", "idle")
  /\ UNCHANGED <<stock, money, order, seen>>

\* Mutant: a refund that was only submitted is booked as made.
ReturnedUnconfirmed ==
  /\ order' = IF order = "RETURN_APPROVED" THEN "RETURNED" ELSE order
  /\ Goto("return", "received", "record")
  /\ UNCHANGED <<stock, wallet, money, seen>>

\* The refund is booked at once only if it was answered as made.
ReturnReceived ==
  /\ order' = IF order = "RETURN_APPROVED" THEN "RETURNED" ELSE order
  /\ Goto("return", "received",
          IF method = "WALLET" \/ seen["return"] = "REFUNDED" THEN "record" ELSE "idle")
  /\ UNCHANGED <<stock, wallet, money, seen>>

RecordRefund(p) ==
  /\ Goto(p, "record", "idle") /\ Forget(p)
  /\ order' = IF order = "RETURNED" THEN "REFUNDED" ELSE order
  /\ UNCHANGED <<stock, wallet, money>>

ApproveReturn ==
  \/ ReturnStarts \/ ReturnCollects \/ ReturnRefunds
  \/ AskRefund("return") \/ finalizeRefund("return", "restock")
  \/ Restock("return", "points") \/ ReturnRestoresPoints
  \/ ReturnReceived \/ RecordRefund("return")

----------------------------------------------------------------------------
(* The webhook of a refund, repeated until it is answered.                 *)

\* The first delivery changes the row, if the row allows it; a repeated one is
\* answered from the record of the first.
RefundWebhook ==
  /\ \/ /\ provider \in {"PAID_BACK", "SETTLED"} /\ pay \in {"REFUND_REQUESTED", "REFUND_SUBMITTED"}
        /\ pay' = "REFUNDED" /\ provider' = "TOLD"
     \/ "TOLD" \in Sessions /\ UNCHANGED <<pay, provider>>
  /\ Goto("refund", "idle", "payment")
  /\ UNCHANGED <<stock, wallet, refundOf, older, reopened, order, seen>>

\* FinalizeProviderRefund reads the payment again: a status that finalizeRefund has
\* put back to submitted is not a refund.
FinalizeProviderRefund ==
  /\ Goto("refund", "payment", IF saved /\ pay = "REFUNDED" THEN "record" ELSE "idle")
  /\ UNCHANGED <<stock, wallet, money, order, seen>>

RefundFails ==
  /\ "REFUND_FAILS" \in Faults
  /\ provider = "PAID_BACK" /\ pay \in {"REFUND_REQUESTED", "REFUND_SUBMITTED"}
  /\ pay' = "REFUND_FAILED" /\ provider' = "PAID"
  /\ UNCHANGED <<stock, wallet, refundOf, older, reopened, order, saved, pc, seen, crashes, method>>

\* A process dies, or a call of it fails that has no compensation.
Crash(p) ==
  /\ crashes < MaxCrashes /\ pc[p] \notin {"idle", "done"}
  /\ crashes' = crashes + 1
  /\ pc' = [pc EXCEPT ![p] = "idle"] /\ Forget(p)
  /\ UNCHANGED <<stock, wallet, money, order, saved, method>>

Next ==
  \/ \E p \in Shoppers : Place(p)
  \/ \E p \in Retriers : RetryPayment(p)
  \/ Pay \/ AttemptFails \/ RequestCancel \/ Reject \/ Deliver \/ RequestReturn
  \/ Lapse \/ Sweep
  \/ CaptureWebhook \/ Reconcile \/ \E p \in Finalizers : FinalizeCapturedPayment(p)
  \/ \E p \in Cancellers : FinalizeCancellation(p)
  \/ ApproveReturn
  \/ RefundWebhook \/ FinalizeProviderRefund \/ RecordRefund("refund") \/ RefundFails
  \/ \E p \in Processes : Crash(p)

Spec == Init /\ [][Next]_vars

\* The recovery loop runs for ever, has this payment on the page it lists and
\* repeats its question; a process that has begun goes on unless it dies.  Nobody
\* has to pay, and the webhook of a capture may be lost.
Fairness ==
  /\ WF_vars(Reconcile) /\ WF_vars(Sweep)
  /\ \A p \in Shoppers : WF_vars(pc[p] # "idle" /\ Place(p))
  /\ \A p \in Finalizers : WF_vars(FinalizeCapturedPayment(p))

FairSpec == Spec /\ Fairness

----------------------------------------------------------------------------

\* What follows a placed order: goods leave the shelf for these only.
Going == {"PLACED", "COMPLETED", "RETURN_REQUESTED"}

\* "inventory reservation precedes placement": an order that goes ahead has its
\* goods, sold to it and to nobody else, once its placement is on record.
PlacedHasStock == order \in Going /\ saved => hold = "COMMITTED" /\ restocks = {}

\* The same from the moment the order is placed.  It holds for orders paid in
\* advance; a cash order whose placement dies before Commit breaks it.
GoodsNotResold == order \in Going => hold # "RELEASED" /\ restocks = {}

\* An order paid in advance goes ahead only once the provider has the money of one
\* of its sessions.  The payment says so too, unless a retry has written over the
\* capture: then the money is that of a session it no longer names.
PlacedIsPaid ==
  method = "PAYSTACK" /\ order \in Going => "PAID" \in Sessions /\ (pay \in Captured \/ reopened)

\* A cancelled order keeps nothing: the goods are back on the shelf, the points
\* are back, and the payment is void or a refund of it was asked for, unless a
\* retry has opened it again.
CancelledKeepsNothing ==
  order = "CANCELLED" =>
    /\ hold = "RELEASED" \/ restocks # {}
    /\ points # "TAKEN"
    /\ pay \in {"CANCELLED"} \cup RefundStatuses \/ reopened

\* Money is paid back only for an order that is cancelled or returned.
RefundHasReason ==
  Sessions \cap Returned # {} \/ pay \in RefundStatuses =>
    order \in {"CANCEL_REQUESTED", "CANCELLED", "RETURN_APPROVED", "RETURNED", "REFUNDED"}

\* An order counts as refunded only when goods and points are back and the
\* provider, if anything was paid besides points, has made the refund.
RefundedIsSettled ==
  order = "REFUNDED" =>
    /\ restocks = {"return"} /\ points # "TAKEN"
    /\ method # "WALLET" => Sessions \cap {"SETTLED", "TOLD"} # {}

\* An order that goes ahead has its goods and, if it is paid in advance, its
\* money.
PlacedIsBacked == TypeOK /\ PlacedHasStock /\ PlacedIsPaid

\* What is undone is undone as a whole: goods and points of an order that is
\* cancelled or refunded are back, its payment is void, asked back or returned
\* unless a late retry opened it again, and money goes back for no other order.
UndoneAsAWhole == CancelledKeepsNothing /\ RefundHasReason /\ RefundedIsSettled

\* "Payment was accepted and order finalization will be retried": a customer who
\* has paid does not stay with a pending order.
PaidIsPlaced == provider = "PAID" ~> order # "PENDING_PAYMENT"

\* These do not hold.  A cancelled order may be charged: the session stays open at
\* the provider.  A cancellation may never get through: the refund of an order paid
\* with points alone is refused each time.  A return may never end: finalizeRefund
\* writes over what the webhook has recorded.
CancelledIsUnpaid == order = "CANCELLED" => "PAID" \notin Sessions \/ pay = "REFUND_FAILED"
CancellationCompletes == order = "CANCEL_REQUESTED" /\ saved ~> order = "CANCELLED"
ReturnCompletes == order = "RETURN_REQUESTED" ~> order = "REFUNDED"
=============================================================================
