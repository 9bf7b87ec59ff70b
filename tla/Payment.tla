------------------------------ MODULE Payment ------------------------------
(***************************************************************************)
(* One payment of internal/payment (PostgresService) and the provider it   *)
(* talks to.  An operation that crosses the network is two transactions    *)
(* around a call: the first records the intent, the call is made with no   *)
(* lock held, the second records the outcome.  Any number of handlers may  *)
(* be between the two at once; a handler may die there.  Webhooks arrive   *)
(* late, repeatedly, in any order, or never.                               *)
(*                                                                         *)
(* Payments do not interact, so one row is modelled.  A provider session   *)
(* (a Razorpay order, a Paystack transaction) is a number; a transaction   *)
(* reference is the session together with the attempt on it.               *)
(***************************************************************************)
EXTENDS Integers, Sequences, FiniteSets

CONSTANTS
  Methods,      \* the payment methods a creation may choose from
  Handlers,     \* request handlers running at once
  Recovery,     \* the recovery loops that reconcile
  Amount,       \* the payment's amount
  MaxSessions,  \* bound on provider sessions
  MaxRefunds,   \* bound on refunds the provider accepts
  PageSize      \* candidates the recovery loop lists on a tick (100)

ASSUME PaymentAssumption ==
  /\ Methods \subseteq {"RAZORPAY", "PAYSTACK", "COD", "WALLET"}
  /\ Amount \in Nat \ {0} /\ MaxSessions \in Nat /\ MaxRefunds \in Nat
  /\ PageSize \in Nat \ {0}

VARIABLES
  method, status, opState, reference, txRef, refund,  \* the payment.payments row
  events,     \* payment.provider_events: the event ids recorded
  excepted,   \* a payment.reconciliation_exceptions row exists
  calls,      \* what each handler is doing
  sessions,   \* provider: number of sessions created
  handed,     \* sessions whose handoff a customer has been given
  failed,     \* provider: sessions with a failed attempt
  paid,       \* provider: sessions captured
  refunds,    \* provider: refunds accepted, in order
  ahead       \* candidates whose updated_at is before the row's, at most PageSize

row == <<method, status, opState, reference, txRef, refund>>
provider == <<sessions, handed, failed, paid, refunds>>
steps == <<row, events, excepted, calls, provider>>
vars == <<steps, ahead>>

Workers == Handlers \cup Recovery
Online == {"RAZORPAY", "PAYSTACK"}
Sessions == 1..MaxSessions
NoCall == [op |-> "none"]
NoTx == <<0, "none">>

Statuses == {"NONE", "PROVIDER_ORDER_CREATED", "AUTHORISATION_PENDING", "AUTHORISED",
             "CAPTURED", "RECONCILED", "FAILED_RETRYABLE", "FAILED_FINAL", "CANCELLED",
             "REFUND_REQUESTED", "REFUND_SUBMITTED", "REFUNDED", "REFUND_FAILED"}
Refunding == {"REFUND_REQUESTED", "REFUND_SUBMITTED", "REFUND_FAILED"}

StepsOK ==
  /\ method \in Methods \cup {"NONE"} /\ status \in Statuses
  /\ opState \in {"READY", "INITIALIZING", "REFUNDING"}
  /\ reference \in 0..MaxSessions /\ refund \in 0..Amount
  /\ txRef \in {NoTx} \cup (Sessions \X {"failed", "paid"})
  /\ excepted \in BOOLEAN
  /\ sessions \in 0..MaxSessions
  /\ handed \subseteq 1..sessions /\ failed \subseteq handed /\ paid \subseteq handed
  /\ refunds \in Seq([session : Sessions, amount : 1..Amount,
                      state : {"pending", "processed", "failed"}])

PlaceOK == ahead \in 0..PageSize

TypeOK == StepsOK /\ PlaceOK

Init ==
  /\ method = "NONE" /\ status = "NONE" /\ opState = "READY"
  /\ reference = 0 /\ txRef = NoTx /\ refund = 0
  /\ events = {} /\ excepted = FALSE
  /\ calls = [w \in Workers |-> NoCall]
  /\ sessions = 0 /\ handed = {} /\ failed = {} /\ paid = {} /\ refunds = <<>>
  /\ ahead = 0

Return(w, call) == calls' = [calls EXCEPT ![w] = call]

----------------------------------------------------------------------------
(* Creation and retry.                                                     *)

\* First transaction of CreateWithPayer; a second call with the key replays.
Create(w, m) ==
  /\ status = "NONE" /\ calls[w] = NoCall
  /\ method' = m
  /\ status' = CASE m = "COD"    -> "AUTHORISATION_PENDING"
                 [] m = "WALLET" -> "CAPTURED"
                 [] OTHER        -> "FAILED_RETRYABLE"
  /\ opState' = IF m \in Online THEN "INITIALIZING" ELSE "READY"
  /\ Return(w, IF m \in Online THEN [op |-> "create"] ELSE NoCall)
  /\ UNCHANGED <<reference, txRef, refund, events, excepted, provider>>

\* First transaction of RetryProvider.  Nothing stops a second retry while one
\* is in flight: the status is still FAILED_RETRYABLE.
RetryProvider(w) ==
  /\ status = "FAILED_RETRYABLE" /\ method \in Online
  /\ calls[w] = NoCall
  /\ opState' = "INITIALIZING"
  /\ Return(w, [op |-> "retry"])
  /\ UNCHANGED <<method, status, reference, txRef, refund, events, excepted, provider>>

\* Mutant: an answer without a session is taken for one.
InitializeUnchecked(w) ==
  /\ calls[w].op \in {"create", "retry"}
  /\ Return(w, [op |-> "initialized", session |-> 0, status |-> "PROVIDER_ORDER_CREATED"])
  /\ UNCHANGED <<row, events, excepted, provider>>

\* The provider's answer to Initialize: a session, or an error with or without
\* a session having been created (a timeout after the fact).
InitializeAnswers(w) ==
  /\ calls[w].op \in {"create", "retry"}
  /\ sessions < MaxSessions
  /\ sessions' = sessions + 1
  /\ Return(w, [op |-> "initialized", session |-> sessions + 1,
                status |-> "PROVIDER_ORDER_CREATED"])
  /\ UNCHANGED <<row, events, excepted, handed, failed, paid, refunds>>

InitializeFails(w) ==
  /\ calls[w].op \in {"create", "retry"}
  /\ sessions' \in {sessions, sessions + 1} /\ sessions' <= MaxSessions
  /\ \/ /\ calls[w].op = "create"
        /\ \E s \in {"FAILED_RETRYABLE", "FAILED_FINAL"} :
             Return(w, [op |-> "initialized", session |-> 0, status |-> s])
        /\ UNCHANGED opState
     \/ /\ calls[w].op = "retry"
        /\ opState' = "READY"
        /\ Return(w, NoCall)
  /\ UNCHANGED <<method, status, reference, txRef, refund, events, excepted,
                 handed, failed, paid, refunds>>

\* Second transaction of both.  Only an already created session is kept; any
\* other status the row has reached meanwhile is overwritten.
FinalizeInitialization(w) ==
  /\ calls[w].op = "initialized"
  /\ \/ /\ status = "PROVIDER_ORDER_CREATED" /\ reference # 0
        /\ UNCHANGED <<row, handed>>
     \/ /\ ~(status = "PROVIDER_ORDER_CREATED" /\ reference # 0)
        /\ status' = calls[w].status
        /\ opState' = "READY"
        /\ IF calls[w].status = "PROVIDER_ORDER_CREATED"
           THEN reference' = calls[w].session /\ handed' = handed \cup {calls[w].session}
           ELSE UNCHANGED <<reference, handed>>
        /\ UNCHANGED <<method, txRef, refund>>
  /\ Return(w, NoCall)
  /\ UNCHANGED <<events, excepted, sessions, failed, paid, refunds>>

----------------------------------------------------------------------------
(* The provider and its webhooks.                                          *)

\* A customer's attempt on a session fails, or goes through.
AttemptFails(s) ==
  /\ s \in handed \ (failed \cup paid)
  /\ failed' = failed \cup {s}
  /\ UNCHANGED <<row, events, excepted, calls, sessions, handed, paid, refunds>>

Pay(s) ==
  /\ s \in handed \ paid
  /\ paid' = paid \cup {s}
  /\ UNCHANGED <<row, events, excepted, calls, sessions, handed, failed, refunds>>

SettleRefund(n, outcome) ==
  /\ refunds[n].state = "pending"
  /\ refunds' = [refunds EXCEPT ![n].state = outcome]
  /\ UNCHANGED <<row, events, excepted, calls, sessions, handed, failed, paid>>

\* A webhook as normalizeProviderEvent presents it.  Only Razorpay reports a
\* transaction reference, only its refund events lack the session, and only
\* Razorpay reports an authorisation.
Event(kind, s, n) ==
  [id |-> <<kind, s, n>>,
   status |-> kind,
   reference |-> IF n > 0 /\ method = "RAZORPAY" THEN 0 ELSE s,
   tx |-> IF method # "RAZORPAY" THEN NoTx
          ELSE <<s, IF kind = "FAILED_RETRYABLE" THEN "failed" ELSE "paid">>,
   amount |-> IF n > 0 THEN refunds[n].amount ELSE Amount]

Sent ==
  {Event("FAILED_RETRYABLE", s, 0) : s \in failed} \cup
  {Event("CAPTURED", s, 0) : s \in paid} \cup
  {Event("AUTHORISED", s, 0) : s \in IF method = "RAZORPAY" THEN paid ELSE {}} \cup
  {Event("REFUNDED", refunds[n].session, n) :
     n \in {i \in DOMAIN refunds : refunds[i].state = "processed"}} \cup
  {Event("REFUND_FAILED", refunds[n].session, n) :
     n \in {i \in DOMAIN refunds : refunds[i].state = "failed"}}

\* Mutant: an authorisation that arrives after the capture is applied.
validLateAuthorisation(current, target) ==
  CASE target = "AUTHORISED" ->
         current \in {"PROVIDER_ORDER_CREATED", "AUTHORISATION_PENDING", "CAPTURED"}
    [] target = "CAPTURED" ->
         current \in {"PROVIDER_ORDER_CREATED", "AUTHORISED", "FAILED_RETRYABLE"}
    [] target = "FAILED_RETRYABLE" ->
         current \in {"PROVIDER_ORDER_CREATED", "AUTHORISATION_PENDING", "AUTHORISED"}
    [] OTHER -> current \in {"REFUND_REQUESTED", "REFUND_SUBMITTED"}

validProviderTransition(current, target) ==
  CASE target = "AUTHORISED" ->
         current \in {"PROVIDER_ORDER_CREATED", "AUTHORISATION_PENDING"}
    [] target = "CAPTURED" ->
         current \in {"PROVIDER_ORDER_CREATED", "AUTHORISED", "FAILED_RETRYABLE"}
    [] target = "FAILED_RETRYABLE" ->
         current \in {"PROVIDER_ORDER_CREATED", "AUTHORISATION_PENDING", "AUTHORISED"}
    [] OTHER -> current \in {"REFUND_REQUESTED", "REFUND_SUBMITTED"}

expectedAmount == IF status \in Refunding /\ refund > 0 THEN refund ELSE Amount

Matches(e) ==
  /\ \/ reference = e.reference
     \/ e.reference = 0 /\ status = "REFUND_SUBMITTED"
  /\ e.tx = NoTx \/ txRef = NoTx \/ txRef = e.tx
  /\ expectedAmount = e.amount

\* A recorded event is only replayed.  A mismatch is filed and not recorded; a
\* transition that is not allowed leaves nothing behind.
applyProviderEvent(e) ==
  /\ e \in Sent /\ e.id \notin events
  /\ \/ /\ ~Matches(e)
        /\ excepted' = TRUE
        /\ UNCHANGED <<row, events>>
     \/ /\ Matches(e)
        /\ validProviderTransition(status, e.status)
        /\ status' = e.status
        /\ opState' = "READY"
        /\ txRef' = IF e.tx = NoTx THEN txRef ELSE e.tx
        /\ events' = events \cup {e.id}
        /\ UNCHANGED <<method, reference, refund, excepted>>
  /\ UNCHANGED <<calls, provider>>

----------------------------------------------------------------------------
(* Reconciliation by the recovery loop.  A tick lists one page of candidates, *)
(* the ones written longest ago first, and asks about each.  A candidate that *)
(* cannot be verified is left as it is and keeps its place in the page.     *)

ReconciliationCandidate ==
  /\ method \in Online /\ opState = "READY"
  /\ status \in {"PROVIDER_ORDER_CREATED", "AUTHORISATION_PENDING", "AUTHORISED", "CAPTURED"}

\* Every write of the row moves it behind the candidates of that moment.
Placed ==
  \/ row' = row /\ UNCHANGED ahead
  \/ row' # row /\ ReconciliationCandidate' /\ ahead' \in 0..PageSize
  \/ row' # row /\ ~ReconciliationCandidate' /\ ahead' = 0

\* Candidates before the row are settled, cancelled or written again.
OthersLeave ==
  /\ ahead' \in 0..ahead - 1
  /\ UNCHANGED steps

\* Mutant: Paystack is asked only once a transaction reference is known.
ReconcileByTransaction(w) ==
  /\ calls[w] = NoCall /\ ReconciliationCandidate /\ ahead < PageSize
  /\ txRef # NoTx /\ txRef[2] = "paid"
  /\ Return(w, [op |-> "verified", session |-> txRef[1], tx |-> txRef,
                match |-> txRef[1] = reference])
  /\ UNCHANGED <<row, events, excepted, provider>>

\* Mutant: an answer other than "success" is taken for a capture.
ReconcileUnverified(w) ==
  /\ calls[w] = NoCall /\ ReconciliationCandidate /\ ahead < PageSize
  /\ Return(w, [op |-> "verified", session |-> reference, tx |-> <<reference, "paid">>,
                match |-> TRUE])
  /\ UNCHANGED <<row, events, excepted, provider>>

\* ReconcileWithProvider up to the provider's answer.  Razorpay's Verify needs
\* the transaction reference and asks about that attempt, Paystack's asks
\* about the session; both answer only for a captured one.
ReconcileRead(w) ==
  /\ calls[w] = NoCall /\ ReconciliationCandidate /\ ahead < PageSize
  /\ \/ /\ method = "RAZORPAY" /\ txRef # NoTx /\ txRef[2] = "paid"
        /\ Return(w, [op |-> "verified", session |-> txRef[1], tx |-> txRef,
                      match |-> txRef[1] = reference])
     \/ /\ method = "PAYSTACK" /\ reference \in paid
        /\ Return(w, [op |-> "verified", session |-> reference, tx |-> <<reference, "paid">>,
                      match |-> txRef \in {NoTx, <<reference, "paid">>}])
  /\ UNCHANGED <<row, events, excepted, provider>>

\* Mutant: the reference is not compared again under the lock.
ReconcileStale(w) ==
  /\ calls[w].op = "verified"
  /\ \/ /\ ~calls[w].match
        /\ excepted' = TRUE
        /\ UNCHANGED row
     \/ /\ calls[w].match
        /\ status \in {"PROVIDER_ORDER_CREATED", "AUTHORISATION_PENDING", "AUTHORISED", "CAPTURED"}
        /\ status' = "RECONCILED" /\ txRef' = calls[w].tx /\ opState' = "READY"
        /\ UNCHANGED <<method, reference, refund, excepted>>
  /\ Return(w, NoCall)
  /\ UNCHANGED <<events, provider>>

\* The transaction that follows: locks the row and rechecks it.
ReconcileApply(w) ==
  /\ calls[w].op = "verified"
  /\ \/ /\ ~calls[w].match \/ reference # calls[w].session
        /\ excepted' = TRUE
        /\ UNCHANGED row
     \/ /\ calls[w].match /\ reference = calls[w].session
        /\ status \in {"PROVIDER_ORDER_CREATED", "AUTHORISATION_PENDING", "AUTHORISED", "CAPTURED"}
        /\ status' = "RECONCILED" /\ txRef' = calls[w].tx /\ opState' = "READY"
        /\ UNCHANGED <<method, reference, refund, excepted>>
     \/ /\ calls[w].match /\ reference = calls[w].session
        /\ status \notin {"PROVIDER_ORDER_CREATED", "AUTHORISATION_PENDING", "AUTHORISED", "CAPTURED"}
        /\ UNCHANGED <<row, excepted>>
  /\ Return(w, NoCall)
  /\ UNCHANGED <<events, provider>>

----------------------------------------------------------------------------
(* Refunds, cash and cancellation.                                         *)

\* First transaction of RequestRefundWithProvider.  The same amount asked for
\* again in REFUND_REQUESTED, REFUND_SUBMITTED or REFUNDED is answered with
\* the row as it is.
RequestRefund(w, a) ==
  /\ calls[w] = NoCall
  /\ status \in {"CAPTURED", "RECONCILED", "REFUND_FAILED"}
  /\ a \in 1..Amount
  /\ status' = "REFUND_REQUESTED" /\ refund' = a /\ opState' = "REFUNDING"
  /\ Return(w, [op |-> "refund", amount |-> a, session |-> reference, tx |-> txRef])
  /\ UNCHANGED <<method, reference, txRef, events, excepted, provider>>

Refunded(s) ==
  LET live == {n \in DOMAIN refunds : refunds[n].session = s /\ refunds[n].state # "failed"}
      total[N \in SUBSET live] ==
        IF N = {} THEN 0 ELSE LET n == CHOOSE n \in N : TRUE
                              IN  refunds[n].amount + total[N \ {n}]
  IN  total[live]

RefundResult(w, s) == [op |-> "refunded", amount |-> calls[w].amount, status |-> s]

\* validRefundRequest, and the provider's own rule: it refunds a capture at
\* most once over.  No idempotency key is sent.
RefundAcceptable(w) ==
  /\ method = "RAZORPAY" => calls[w].tx # NoTx /\ calls[w].tx[2] = "paid"
  /\ calls[w].session \in paid
  /\ Refunded(calls[w].session) + calls[w].amount <= Amount
  /\ Len(refunds) < MaxRefunds

\* The provider accepts the refund; its answer may say so, may say it is
\* already processed, or may be lost, which the handler takes for a failure.
RefundAccepted(w) ==
  /\ calls[w].op = "refund" /\ method \in Online
  /\ RefundAcceptable(w)
  /\ \E answer \in {<<"pending", "REFUND_SUBMITTED">>, <<"processed", "REFUNDED">>,
                    <<"pending", "REFUND_FAILED">>} :
       /\ refunds' = Append(refunds, [session |-> calls[w].session,
                                      amount |-> calls[w].amount, state |-> answer[1]])
       /\ Return(w, RefundResult(w, answer[2]))
  /\ UNCHANGED <<row, events, excepted, sessions, handed, failed, paid>>

\* Refused, unreachable, or no request made at all.
RefundRefused(w) ==
  /\ calls[w].op = "refund" /\ method \in Online
  /\ Return(w, RefundResult(w, "REFUND_FAILED"))
  /\ UNCHANGED <<row, events, excepted, provider>>

\* Cash and wallet tenders have no provider to ask.
RefundOffline(w) ==
  /\ calls[w].op = "refund" /\ method \notin Online
  /\ Return(w, RefundResult(w, "REFUND_SUBMITTED"))
  /\ UNCHANGED <<row, events, excepted, provider>>

\* Second transaction: the amount is compared, the status is not.
finalizeRefund(w) ==
  /\ calls[w].op = "refunded"
  /\ \/ /\ refund = calls[w].amount
        /\ status' = calls[w].status /\ opState' = "READY"
        /\ UNCHANGED <<method, reference, txRef, refund>>
     \/ /\ refund # calls[w].amount
        /\ UNCHANGED row
  /\ Return(w, NoCall)
  /\ UNCHANGED <<events, excepted, provider>>

MarkCODCollected ==
  /\ method = "COD" /\ status = "AUTHORISATION_PENDING"
  /\ status' = "CAPTURED" /\ opState' = "READY"
  /\ UNCHANGED <<method, reference, txRef, refund, events, excepted, calls, provider>>

CancelUncaptured ==
  /\ status \in {"PROVIDER_ORDER_CREATED", "AUTHORISATION_PENDING", "AUTHORISED",
                 "FAILED_RETRYABLE", "FAILED_FINAL"}
  /\ status' = "CANCELLED" /\ opState' = "READY"
  /\ UNCHANGED <<method, reference, txRef, refund, events, excepted, calls, provider>>

\* The process dies between the two transactions of an operation.
Crash(w) ==
  /\ calls[w] # NoCall
  /\ Return(w, NoCall)
  /\ UNCHANGED <<row, events, excepted, provider>>

Reconcile == \E w \in Recovery : ReconcileRead(w) \/ ReconcileApply(w)
Deliver == \E e \in Sent : applyProviderEvent(e)

Step ==
  \/ \E w \in Handlers, m \in Methods : Create(w, m)
  \/ \E w \in Handlers :
       \/ RetryProvider(w) \/ InitializeAnswers(w) \/ InitializeFails(w)
       \/ FinalizeInitialization(w)
       \/ RefundAccepted(w) \/ RefundRefused(w) \/ RefundOffline(w) \/ finalizeRefund(w)
  \/ \E w \in Workers : Crash(w)
  \/ \E w \in Handlers, a \in 1..Amount : RequestRefund(w, a)
  \/ \E s \in Sessions : AttemptFails(s) \/ Pay(s)
  \/ \E n \in DOMAIN refunds, outcome \in {"processed", "failed"} : SettleRefund(n, outcome)
  \/ Deliver
  \/ Reconcile
  \/ MarkCODCollected
  \/ CancelUncaptured

Next == (Step /\ Placed) \/ OthersLeave

Spec == Init /\ [][Next]_vars

----------------------------------------------------------------------------

\* The books never show money that was not taken: an online payment that is
\* captured or reconciled points at a session the provider did capture,
\* whatever stale answers, retries and reconciliations raced to write the row.
CapturedMeansPaid ==
  method \in Online /\ status \in {"CAPTURED", "RECONCILED"} => reference \in paid

\* Late, repeated and reordered webhooks only move a payment forward: none
\* touches one that is captured, reconciled, refunded, cancelled or finally
\* failed, and each that does move it is recorded in the same transaction.
WebhooksNeverRegress ==
  [][Deliver /\ status' # status =>
       /\ status \notin {"CAPTURED", "RECONCILED", "REFUNDED", "CANCELLED", "FAILED_FINAL"}
       /\ events' # events]_vars

\* Refunded money stays refunded: "REFUND_REQUESTED -> REFUND_SUBMITTED ->
\* REFUNDED|REFUND_FAILED" (docs/phase-1/STATE_MACHINES.md).
RefundedIsFinal == [][status = "REFUNDED" => status' = "REFUNDED"]_vars

\* A captured payment moves on to reconciliation or refund only:
\* "AUTHORISED -> CAPTURED -> RECONCILED" (docs/phase-1/STATE_MACHINES.md).
CapturedIsKept ==
  [][status = "CAPTURED" => status' \in {"CAPTURED", "RECONCILED", "REFUND_REQUESTED"}]_vars

\* The refund path is idempotent: however often it is retried, the provider
\* holds one refund of the payment that has not failed.
NoDoubleRefund ==
  Cardinality({n \in DOMAIN refunds : refunds[n].state # "failed"}) <= 1

\* A refund recorded before the network boundary does not disappear with the
\* process: with no handler left to submit it, the provider has it.
RefundIntentSurvives ==
  status = "REFUND_REQUESTED" /\ method \in Online /\ (\A w \in Workers : calls[w] = NoCall)
    => Refunded(reference) > 0

\* Signed events are applied: the capture of the session the row points at is
\* never turned away as a mismatch while a capture is what the row waits for.
CaptureAccepted ==
  reference \in paid /\ validProviderTransition(status, "CAPTURED")
    => Matches(Event("CAPTURED", reference, 0))

\* The recovery loop runs on every tick and asks about every row of its page; a
\* process that dies between asking the provider and recording the answer does
\* not do so every time.  Nothing makes the candidates before the row leave.
FairSpec ==
  /\ Spec
  /\ \A w \in Recovery :
       WF_vars(ReconcileRead(w) /\ Placed) /\ SF_vars(ReconcileApply(w) /\ Placed)

\* Reconciliation alone, with every webhook lost, gets a paid Paystack payment
\* out of PROVIDER_ORDER_CREATED once it is on the page the loop lists, and it
\* never falls off that page.  (Behind a page of payments nobody pays, which keep
\* their places, it is not reached; one whose row already names another
\* session's transaction, see CapturedIsKept, is beyond it.)
LostWebhookRecovered ==
  (/\ method = "PAYSTACK" /\ status = "PROVIDER_ORDER_CREATED" /\ reference \in paid
   /\ txRef = NoTx /\ ahead < PageSize)
    ~> (status # "PROVIDER_ORDER_CREATED")

\* Without a place on the page the loop never reaches it.  This does not hold.
StarvedRecovered ==
  (/\ method = "PAYSTACK" /\ status = "PROVIDER_ORDER_CREATED" /\ reference \in paid
   /\ txRef = NoTx)
    ~> (status # "PROVIDER_ORDER_CREATED")

\* What webhooks may do and what their loss may not: they only move a payment
\* forward, and a Paystack payment all of whose webhooks were lost is recovered.
WebhooksHold == []TypeOK /\ WebhooksNeverRegress /\ LostWebhookRecovered
=============================================================================
