--------------------------- MODULE PaymentProofs ---------------------------
(***************************************************************************)
(* Payment, for any methods, handlers, amount and number of sessions.      *)
(*                                                                         *)
(* That the books never show money that was not taken is not inductive: a  *)
(* status is written from what a handler was told before its second        *)
(* transaction, and from transaction references the row took over.  PayInv *)
(* adds what those carry: an answer to Verify is about a captured session, *)
(* a reference to a paid attempt is one, the provider refunds only what it *)
(* captured, and no answer to Initialize or Refund claims a capture.       *)
(***************************************************************************)
EXTENDS Payment, TLAPS

Txs == {NoTx} \cup (Sessions \X {"failed", "paid"})

\* What a handler may be doing between the two transactions of an operation, when
\* the provider has created n sessions and captured those of P.
CallOK(c, n, P) ==
  \/ c = NoCall
  \/ c = [op |-> "create"]
  \/ c = [op |-> "retry"]
  \/ /\ c \in [op : {"initialized"}, session : 0..n,
               status : {"PROVIDER_ORDER_CREATED", "FAILED_RETRYABLE", "FAILED_FINAL"}]
     /\ c.status = "PROVIDER_ORDER_CREATED" => c.session # 0
  \/ /\ c \in [op : {"verified"}, session : Sessions, tx : Txs, match : BOOLEAN]
     /\ c.session \in P /\ c.tx = <<c.session, "paid">>
  \/ c \in [op : {"refund"}, amount : 1..Amount, session : 0..MaxSessions, tx : Txs]
  \/ c \in [op : {"refunded"}, amount : 1..Amount,
            status : {"REFUND_SUBMITTED", "REFUNDED", "REFUND_FAILED"}]

CallsOK == calls = [w \in Workers |-> calls[w]] /\ \A w \in Workers : CallOK(calls[w], sessions, paid)

\* The transaction reference of the row, and what the provider refunded.
PaidRefs ==
  /\ txRef[2] = "paid" => txRef[1] \in paid
  /\ \A n \in DOMAIN refunds : refunds[n].session \in paid

PayInv == StepsOK /\ CallsOK /\ PaidRefs /\ CapturedMeansPaid

USE PaymentAssumption

----------------------------------------------------------------------------

\* What a handler was told stays true as sessions are created and captured.
LEMMA CallStaysOK ==
  ASSUME NEW c, NEW n \in Nat, NEW m \in Nat, NEW P, NEW Q,
         CallOK(c, n, P), n <= m, P \subseteq Q
  PROVE  CallOK(c, m, Q)
<1>1. 0..n \subseteq 0..m
  OBVIOUS
<1> QED BY <1>1 DEF CallOK

\* A step that gives worker w the call c, and the provider more at most.
LEMMA CallsStep ==
  ASSUME StepsOK, CallsOK, NEW w \in Workers, NEW c, calls' = [calls EXCEPT ![w] = c],
         sessions' \in Nat, sessions <= sessions', paid \subseteq paid',
         CallOK(c, sessions', paid')
  PROVE  CallsOK'
<1>1. calls' = [v \in Workers |-> calls'[v]] /\ calls'[w] = c
      /\ \A v \in Workers : v # w => calls'[v] = calls[v]
  BY DEF CallsOK
<1>2. sessions \in Nat
  BY DEF StepsOK
<1>3. \A v \in Workers : CallOK(calls'[v], sessions', paid')
  <2> TAKE v \in Workers
  <2>1. CallOK(calls[v], sessions, paid)
    BY DEF CallsOK
  <2>2. CallOK(calls[v], sessions', paid')
    BY <1>2, <2>1, CallStaysOK
  <2> QED BY <1>1, <2>2
<1>4. \A v \in Workers : CallOK(calls[v], sessions, paid)' <=> CallOK(calls'[v], sessions', paid')
  BY DEF CallOK, NoCall, Sessions, Txs, NoTx
<1> QED BY <1>1, <1>3, <1>4 DEF CallsOK, Workers

\* The same with the provider left alone.
LEMMA CallGiven ==
  ASSUME StepsOK, CallsOK, NEW w \in Workers, NEW c, calls' = [calls EXCEPT ![w] = c],
         UNCHANGED <<sessions, paid>>, CallOK(c, sessions, paid)
  PROVE  CallsOK'
<1>1. sessions' \in Nat /\ sessions <= sessions'
  BY DEF StepsOK
<1> QED BY <1>1, CallsStep

\* A step that leaves the handlers alone.
LEMMA CallsKept ==
  ASSUME StepsOK, CallsOK, calls' = calls, sessions' \in Nat, sessions <= sessions',
         paid \subseteq paid'
  PROVE  CallsOK'
<1>1. sessions \in Nat
  BY DEF StepsOK
<1>2. \A v \in Workers : CallOK(calls[v], sessions', paid')
  BY <1>1, CallStaysOK DEF CallsOK
<1>3. \A v \in Workers : CallOK(calls[v], sessions, paid)' <=> CallOK(calls[v], sessions', paid')
  BY DEF CallOK, NoCall, Sessions, Txs, NoTx
<1> QED BY <1>2, <1>3 DEF CallsOK, Workers

\* What the handler of each second transaction was told.
LEMMA CallKinds ==
  ASSUME CallsOK, NEW w \in Workers
  PROVE  LET c == calls[w]
         IN  /\ c.op = "initialized" =>
                  /\ c.session \in 0..sessions
                  /\ c.status \in {"PROVIDER_ORDER_CREATED", "FAILED_RETRYABLE", "FAILED_FINAL"}
                  /\ c.status = "PROVIDER_ORDER_CREATED" => c.session # 0
             /\ c.op = "verified" => /\ c.session \in Sessions /\ c.session \in paid
                                     /\ c.tx = <<c.session, "paid">>
             /\ c.op = "refund" => /\ c.amount \in 1..Amount /\ c.session \in 0..MaxSessions
                                   /\ c.tx \in Txs
             /\ c.op = "refunded" =>
                  /\ c.amount \in 1..Amount
                  /\ c.status \in {"REFUND_SUBMITTED", "REFUNDED", "REFUND_FAILED"}
<1>1. CallOK(calls[w], sessions, paid)
  BY DEF CallsOK
<1> QED BY <1>1 DEF CallOK, NoCall

----------------------------------------------------------------------------
(* Steps.                                                                  *)

\* A payment is created; nothing online is captured by that.
LEMMA CreatePay ==
  ASSUME PayInv, NEW w \in Handlers, NEW m \in Methods, Create(w, m)
  PROVE  PayInv'
<1>0. StepsOK /\ CallsOK /\ PaidRefs /\ w \in Workers
  BY DEF PayInv, Workers
<1>1. StepsOK'
  BY <1>0 DEF StepsOK, Create, Online, Statuses, provider, Sessions, NoTx
<1>2. CallsOK'
  <2> DEFINE c == IF m \in Online THEN [op |-> "create"] ELSE NoCall
  <2>1. calls' = [calls EXCEPT ![w] = c] /\ CallOK(c, sessions, paid)
    BY DEF Create, Return, CallOK
  <2>2. sessions' = sessions /\ paid' = paid
    BY DEF Create, provider
  <2> HIDE DEF c
  <2> QED BY <1>0, <2>1, <2>2, CallGiven
<1>3. PaidRefs'
  BY <1>0 DEF PaidRefs, Create, provider
<1>4. CapturedMeansPaid'
  BY DEF CapturedMeansPaid, Create, Online
<1> QED BY <1>1, <1>2, <1>3, <1>4 DEF PayInv

\* A step that writes neither the status of the row nor its references, whatever
\* it does to the handler's call and to the state of the operation.
LEMMA QuietPay ==
  ASSUME PayInv, CallsOK', UNCHANGED <<method, status, reference, txRef, refund, excepted>>,
         opState' \in {"READY", "INITIALIZING", "REFUNDING"},
         sessions' \in 0..MaxSessions, sessions <= sessions',
         UNCHANGED <<handed, failed, paid, refunds>>
  PROVE  PayInv'
<1>0. sessions \in Nat /\ 1..sessions \subseteq 1..sessions'
  BY DEF PayInv, StepsOK
<1>1. StepsOK'
  BY <1>0 DEF PayInv, StepsOK, Sessions, NoTx, Statuses
<1>2. PaidRefs' /\ CapturedMeansPaid'
  BY DEF PayInv, PaidRefs, CapturedMeansPaid, Online
<1> QED BY <1>1, <1>2 DEF PayInv

\* A retry, the provider's answers to Initialize and to Refund that change no
\* refund, a question to the provider, and a crash.
LEMMA CallPay ==
  ASSUME PayInv,
         \/ \E w \in Handlers : \/ RetryProvider(w) \/ InitializeAnswers(w) \/ InitializeFails(w)
                                \/ RefundRefused(w) \/ RefundOffline(w)
         \/ \E w \in Workers : ReconcileRead(w) \/ Crash(w)
  PROVE  PayInv'
<1>0. PICK w \in Workers : \/ RetryProvider(w) \/ InitializeAnswers(w) \/ InitializeFails(w)
                           \/ RefundRefused(w) \/ RefundOffline(w) \/ ReconcileRead(w) \/ Crash(w)
  BY DEF Workers
<1>1. /\ StepsOK /\ CallsOK /\ PaidRefs /\ sessions \in 0..MaxSessions /\ sessions \in Nat
      /\ opState \in {"READY", "INITIALIZING", "REFUNDING"}
  BY DEF PayInv, StepsOK
<1>2. CASE RetryProvider(w)
  <2> DEFINE c == [op |-> "retry"]
  <2>1. calls' = [calls EXCEPT ![w] = c] /\ CallOK(c, sessions, paid)
    BY <1>2 DEF RetryProvider, Return, CallOK
  <2>2. /\ UNCHANGED <<method, status, reference, txRef, refund, excepted>>
        /\ UNCHANGED provider /\ opState' = "INITIALIZING"
    BY <1>2 DEF RetryProvider
  <2>3. UNCHANGED <<sessions, handed, failed, paid, refunds>>
    BY <2>2 DEF provider
  <2> HIDE DEF c
  <2>4. CallsOK'
    BY <1>1, <2>1, <2>3, CallGiven
  <2> QED BY <1>1, <2>2, <2>3, <2>4, QuietPay
<1>3. CASE InitializeAnswers(w)
  <2> DEFINE c == [op |-> "initialized", session |-> sessions + 1,
                   status |-> "PROVIDER_ORDER_CREATED"]
  <2>0. sessions' = sessions + 1 /\ sessions' \in 0..MaxSessions /\ sessions' \in Nat
    BY <1>1, <1>3 DEF InitializeAnswers
  <2>1. calls' = [calls EXCEPT ![w] = c] /\ CallOK(c, sessions', paid')
    <3>1. sessions + 1 \in 0..sessions' /\ sessions + 1 # 0
      BY <1>1, <2>0
    <3> QED BY <1>3, <3>1 DEF InitializeAnswers, Return, CallOK
  <2>2. /\ UNCHANGED <<excepted, handed, failed, paid, refunds>>
        /\ UNCHANGED row
    BY <1>3 DEF InitializeAnswers
  <2>3. UNCHANGED <<method, status, opState, reference, txRef, refund>>
    BY <2>2 DEF row
  <2> HIDE DEF c
  <2>4. sessions <= sessions' /\ paid \subseteq paid'
    BY <1>1, <2>0, <2>2
  <2>5. CallsOK'
    BY <1>1, <2>0, <2>1, <2>4, CallsStep
  <2> QED BY <1>1, <2>0, <2>2, <2>3, <2>4, <2>5, QuietPay
<1>4. CASE InitializeFails(w)
  <2>1. PICK c : /\ calls' = [calls EXCEPT ![w] = c]
                 /\ \/ c = NoCall
                    \/ \E s \in {"FAILED_RETRYABLE", "FAILED_FINAL"} :
                         c = [op |-> "initialized", session |-> 0, status |-> s]
    BY <1>4 DEF InitializeFails, Return
  <2>2. /\ sessions' \in {sessions, sessions + 1} /\ sessions' <= MaxSessions
        /\ opState' \in {"READY", "INITIALIZING", "REFUNDING"}
        /\ UNCHANGED <<method, status, reference, txRef, refund, excepted, handed, failed, paid, refunds>>
    BY <1>1, <1>4 DEF InitializeFails
  <2>3. sessions' \in 0..MaxSessions /\ sessions' \in Nat /\ sessions <= sessions'
    BY <1>1, <2>2
  <2>4. CallOK(c, sessions', paid')
    <3>1. 0 \in 0..sessions'
      BY <2>3
    <3> QED BY <2>1, <3>1 DEF CallOK
  <2>5. CallsOK'
    BY <1>1, <2>1, <2>2, <2>3, <2>4, CallsStep
  <2> QED BY <2>2, <2>3, <2>5, QuietPay
<1>5. CASE RefundRefused(w) \/ RefundOffline(w) \/ ReconcileRead(w) \/ Crash(w)
  <2>1. /\ UNCHANGED <<row, excepted, provider>>
    BY <1>5 DEF RefundRefused, RefundOffline, ReconcileRead, Crash
  <2>2. /\ UNCHANGED <<method, status, opState, reference, txRef, refund, excepted>>
        /\ UNCHANGED <<sessions, handed, failed, paid, refunds>>
    BY <2>1 DEF row, provider
  <2>3. PICK c : calls' = [calls EXCEPT ![w] = c] /\ CallOK(c, sessions, paid)
    <3>1. CASE Crash(w)
      BY <3>1 DEF Crash, Return, CallOK
    <3>2. CASE RefundRefused(w) \/ RefundOffline(w)
      <4>1. calls[w].op = "refund" /\ calls[w].amount \in 1..Amount
        BY <1>1, <3>2, CallKinds DEF RefundRefused, RefundOffline
      <4>2. PICK s \in {"REFUND_SUBMITTED", "REFUNDED", "REFUND_FAILED"} :
              calls' = [calls EXCEPT ![w] = RefundResult(w, s)]
        BY <3>2 DEF RefundRefused, RefundOffline, Return
      <4>3. CallOK(RefundResult(w, s), sessions, paid)
        BY <4>1 DEF CallOK, RefundResult
      <4> QED BY <4>2, <4>3
    <3>3. CASE ReconcileRead(w)
      <4>0. paid \subseteq Sessions /\ \A x \in Sessions : <<x, "paid">> \in Txs
        <5>1. paid \subseteq 1..sessions /\ 1..sessions \subseteq 1..MaxSessions
          BY <1>1 DEF StepsOK
        <5> QED BY <5>1 DEF Sessions, Txs
      <4>1. CASE method = "RAZORPAY"
        <5> DEFINE c == [op |-> "verified", session |-> txRef[1], tx |-> txRef,
                         match |-> txRef[1] = reference]
        <5>1. calls' = [calls EXCEPT ![w] = c] /\ txRef # NoTx /\ txRef[2] = "paid"
          BY <3>3, <4>1 DEF ReconcileRead, Return
        <5>2. txRef[1] \in Sessions /\ txRef = <<txRef[1], "paid">> /\ txRef[1] \in paid
          BY <1>1, <5>1 DEF StepsOK, PaidRefs
        <5>3. CallOK(c, sessions, paid)
          BY <4>0, <5>2 DEF CallOK
        <5> QED BY <5>1, <5>3
      <4>2. CASE method # "RAZORPAY"
        <5> DEFINE c == [op |-> "verified", session |-> reference, tx |-> <<reference, "paid">>,
                         match |-> txRef \in {NoTx, <<reference, "paid">>}]
        <5>1. calls' = [calls EXCEPT ![w] = c] /\ reference \in paid
          BY <3>3, <4>2 DEF ReconcileRead, Return
        <5>2. reference \in Sessions /\ <<reference, "paid">> \in Txs
          BY <4>0, <5>1
        <5>3. CallOK(c, sessions, paid)
          BY <5>1, <5>2 DEF CallOK
        <5> QED BY <5>1, <5>3
      <4> QED BY <4>1, <4>2
    <3> QED BY <1>5, <3>1, <3>2, <3>3
  <2>4. CallsOK'
    BY <1>1, <2>2, <2>3, CallGiven
  <2> QED BY <1>1, <2>2, <2>4, QuietPay
<1> QED BY <1>0, <1>2, <1>3, <1>4, <1>5


\* The second transaction of an initialization: it may overwrite a capture, never
\* claim one.
LEMMA FinalizePay ==
  ASSUME PayInv, NEW w \in Handlers, FinalizeInitialization(w)
  PROVE  PayInv'
<1>0. /\ StepsOK /\ CallsOK /\ PaidRefs /\ CapturedMeansPaid /\ w \in Workers
      /\ calls[w].op = "initialized" /\ sessions \in 0..MaxSessions
      /\ calls' = [calls EXCEPT ![w] = NoCall] /\ CallOK(NoCall, sessions, paid)
      /\ UNCHANGED <<events, excepted, sessions, failed, paid, refunds>>
  BY DEF PayInv, StepsOK, Workers, FinalizeInitialization, Return, CallOK
<1>1. /\ calls[w].session \in 0..sessions
      /\ calls[w].status \in {"PROVIDER_ORDER_CREATED", "FAILED_RETRYABLE", "FAILED_FINAL"}
      /\ calls[w].status = "PROVIDER_ORDER_CREATED" => calls[w].session \in 1..sessions
  <2>1. /\ calls[w].session \in 0..sessions
        /\ calls[w].status \in {"PROVIDER_ORDER_CREATED", "FAILED_RETRYABLE", "FAILED_FINAL"}
        /\ calls[w].status = "PROVIDER_ORDER_CREATED" => calls[w].session # 0
    BY <1>0, CallKinds
  <2> QED BY <1>0, <2>1
<1>2. CallsOK'
  BY <1>0, CallGiven
<1>3. CASE UNCHANGED <<row, handed>>
  <2>1. UNCHANGED <<method, status, opState, reference, txRef, refund>> /\ handed' = handed
    BY <1>3 DEF row
  <2>2. StepsOK' /\ PaidRefs' /\ CapturedMeansPaid'
    BY <1>0, <2>1 DEF StepsOK, PaidRefs, CapturedMeansPaid
  <2> QED BY <1>2, <2>2 DEF PayInv
<1>4. CASE /\ status' = calls[w].status /\ opState' = "READY"
           /\ IF calls[w].status = "PROVIDER_ORDER_CREATED"
              THEN reference' = calls[w].session /\ handed' = handed \cup {calls[w].session}
              ELSE UNCHANGED <<reference, handed>>
           /\ UNCHANGED <<method, txRef, refund>>
  <2>1. status' \in Statuses /\ status' \notin {"CAPTURED", "RECONCILED"}
    BY <1>1, <1>4 DEF Statuses
  <2>2. reference' \in 0..MaxSessions /\ handed' \subseteq 1..sessions /\ handed \subseteq handed'
    <3>1. /\ reference \in 0..MaxSessions /\ handed \subseteq 1..sessions
          /\ 1..sessions \subseteq 0..MaxSessions
      BY <1>0 DEF StepsOK
    <3>2. CASE calls[w].status = "PROVIDER_ORDER_CREATED"
      BY <1>1, <1>4, <3>1, <3>2
    <3>3. CASE calls[w].status # "PROVIDER_ORDER_CREATED"
      BY <1>4, <3>1, <3>3
    <3> QED BY <3>2, <3>3
  <2>3. failed' \subseteq handed' /\ paid' \subseteq handed'
    BY <1>0, <2>2 DEF StepsOK
  <2>4. StepsOK'
    BY <1>0, <1>4, <2>1, <2>2, <2>3 DEF StepsOK
  <2>5. PaidRefs' /\ CapturedMeansPaid'
    BY <1>0, <1>4, <2>1 DEF PaidRefs, CapturedMeansPaid
  <2> QED BY <1>2, <2>4, <2>5 DEF PayInv
<1> QED BY <1>3, <1>4 DEF FinalizeInitialization

\* What the customer and the provider do: sessions are only ever added to those
\* captured, and a refund keeps its session.
LEMMA ProviderPay ==
  ASSUME PayInv,
         \/ \E s \in Sessions : AttemptFails(s) \/ Pay(s)
         \/ \E n \in DOMAIN refunds, outcome \in {"processed", "failed"} : SettleRefund(n, outcome)
  PROVE  PayInv'
<1>0. /\ StepsOK /\ CallsOK /\ PaidRefs /\ CapturedMeansPaid
      /\ sessions \in Nat /\ sessions <= sessions
  BY DEF PayInv, StepsOK
<1>1. ASSUME NEW s \in Sessions, AttemptFails(s) \/ Pay(s)
      PROVE  PayInv'
  <2>1. /\ UNCHANGED <<row, excepted, calls, sessions, handed, refunds>>
        /\ paid \subseteq paid' /\ paid' \subseteq handed /\ failed' \subseteq handed
    BY <1>0, <1>1 DEF AttemptFails, Pay, StepsOK
  <2>2. UNCHANGED <<method, status, opState, reference, txRef, refund>>
    BY <2>1 DEF row
  <2>3. CallsOK'
    BY <1>0, <2>1, CallsKept
  <2>4. StepsOK' /\ PaidRefs' /\ CapturedMeansPaid'
    BY <1>0, <2>1, <2>2 DEF StepsOK, PaidRefs, CapturedMeansPaid
  <2> QED BY <2>3, <2>4 DEF PayInv
<1>2. ASSUME NEW n \in DOMAIN refunds, NEW outcome \in {"processed", "failed"}, SettleRefund(n, outcome)
      PROVE  PayInv'
  <2>1. /\ UNCHANGED <<row, excepted, calls, sessions, handed, failed, paid>>
        /\ refunds' = [refunds EXCEPT ![n].state = outcome]
    BY <1>2 DEF SettleRefund
  <2>2. UNCHANGED <<method, status, opState, reference, txRef, refund>>
    BY <2>1 DEF row
  <2>3. CallsOK'
    BY <1>0, <2>1, CallsKept
  <2>4. /\ refunds' \in Seq([session : Sessions, amount : 1..Amount,
                             state : {"pending", "processed", "failed"}])
        /\ DOMAIN refunds' = DOMAIN refunds
        /\ \A i \in DOMAIN refunds : refunds'[i].session = refunds[i].session
    <3> DEFINE Ref == [session : Sessions, amount : 1..Amount,
                       state : {"pending", "processed", "failed"}]
    <3>1. refunds \in Seq(Ref) /\ DOMAIN refunds = 1..Len(refunds) /\ Len(refunds) \in Nat
      BY <1>0 DEF StepsOK
    <3>2. \A r \in Ref : /\ [r EXCEPT !.state = outcome] \in Ref
                         /\ [r EXCEPT !.state = outcome].session = r.session
      <4> TAKE r \in Ref
      <4>1. r = [session |-> r.session, amount |-> r.amount, state |-> r.state]
            /\ r.session \in Sessions /\ r.amount \in 1..Amount
        OBVIOUS
      <4>2. [r EXCEPT !.state = outcome] =
              [f \in DOMAIN r |-> IF f = "state" THEN outcome ELSE r[f]]
        OBVIOUS
      <4>3. [session |-> r.session, amount |-> r.amount, state |-> outcome] =
              [f \in DOMAIN r |-> IF f = "state" THEN outcome ELSE r[f]]
        BY <4>1
      <4>4. [r EXCEPT !.state = outcome] =
              [session |-> r.session, amount |-> r.amount, state |-> outcome]
        BY <4>2, <4>3
      <4> QED BY <4>1, <4>4
    <3>3. refunds[n] \in Ref
      <4> HIDE DEF Ref
      <4> QED BY <1>2, <3>1
    <3>4. refunds' = [refunds EXCEPT ![n] = [refunds[n] EXCEPT !.state = outcome]]
      BY <2>1
    <3> HIDE DEF Ref
    <3>5. refunds' \in Seq(Ref) /\ DOMAIN refunds' = DOMAIN refunds
      BY <3>1, <3>2, <3>3, <3>4
    <3>6. \A i \in DOMAIN refunds : refunds'[i].session = refunds[i].session
      BY <3>2, <3>3, <3>4
    <3> QED BY <3>5, <3>6 DEF Ref
  <2>5. StepsOK' /\ PaidRefs' /\ CapturedMeansPaid'
    BY <1>0, <2>1, <2>2, <2>4 DEF StepsOK, PaidRefs, CapturedMeansPaid
  <2> QED BY <2>3, <2>5 DEF PayInv
<1> QED BY <1>1, <1>2

\* What a webhook says is about a session of the provider's.
LEMMA SentKinds ==
  ASSUME PayInv, NEW e \in Sent
  PROVE  /\ e.status \in {"FAILED_RETRYABLE", "CAPTURED", "AUTHORISED", "REFUNDED", "REFUND_FAILED"}
         /\ e.status = "CAPTURED" => e.reference \in paid
         /\ e.tx \in Txs /\ (e.tx[2] = "paid" => e.tx[1] \in paid)
<1>0. /\ paid \subseteq Sessions /\ failed \subseteq Sessions
      /\ \A n \in DOMAIN refunds : refunds[n].session \in paid
  <2>1. paid \subseteq 1..sessions /\ failed \subseteq 1..sessions /\ 1..sessions \subseteq 1..MaxSessions
    BY DEF PayInv, StepsOK
  <2> QED BY <2>1 DEF Sessions, PayInv, PaidRefs
<1>1. PICK kind, s, n :
        /\ e = Event(kind, s, n)
        /\ \/ kind = "FAILED_RETRYABLE" /\ s \in failed /\ n = 0
           \/ kind \in {"CAPTURED", "AUTHORISED"} /\ s \in paid /\ n = 0
           \/ kind \in {"REFUNDED", "REFUND_FAILED"} /\ n \in DOMAIN refunds /\ s = refunds[n].session
  BY DEF Sent
<1>2. /\ e.status = kind
      /\ n = 0 => e.reference = s
      /\ e.tx = NoTx \/ (e.tx = <<s, "failed">> /\ kind = "FAILED_RETRYABLE")
                     \/ (e.tx = <<s, "paid">> /\ kind # "FAILED_RETRYABLE")
  BY <1>1 DEF Event
<1>3. kind # "FAILED_RETRYABLE" => s \in paid
  BY <1>0, <1>1
<1>4. s \in Sessions
  BY <1>0, <1>1
<1>5. NoTx \in Txs /\ NoTx[2] # "paid" /\ <<s, "failed">> \in Txs /\ <<s, "paid">> \in Txs
  BY <1>4 DEF Txs, NoTx
<1> QED BY <1>1, <1>2, <1>3, <1>5

\* A webhook: a capture is applied only to the session the row points at.
LEMMA WebhookPay ==
  ASSUME PayInv, NEW e \in Sent, applyProviderEvent(e)
  PROVE  PayInv'
<1>0. StepsOK /\ CallsOK /\ PaidRefs /\ CapturedMeansPaid /\ sessions \in Nat /\ sessions <= sessions
  BY DEF PayInv, StepsOK
<1>1. UNCHANGED <<calls, provider>>
  BY DEF applyProviderEvent
<1>2. UNCHANGED <<calls, sessions, handed, failed, paid, refunds>>
  BY <1>1 DEF provider
<1>3. CallsOK'
  BY <1>0, <1>2, CallsKept
<1>4. CASE UNCHANGED row /\ excepted' = TRUE
  <2>1. UNCHANGED <<method, status, opState, reference, txRef, refund>>
    BY <1>4 DEF row
  <2>2. StepsOK' /\ PaidRefs' /\ CapturedMeansPaid'
    BY <1>0, <1>2, <1>4, <2>1 DEF StepsOK, PaidRefs, CapturedMeansPaid
  <2> QED BY <1>3, <2>2 DEF PayInv
<1>5. CASE /\ Matches(e) /\ validProviderTransition(status, e.status)
           /\ status' = e.status /\ opState' = "READY"
           /\ txRef' = IF e.tx = NoTx THEN txRef ELSE e.tx
           /\ UNCHANGED <<method, reference, refund, excepted>>
  <2>1. status' \in Statuses /\ txRef' \in Txs /\ (txRef'[2] = "paid" => txRef'[1] \in paid)
    <3>1. /\ e.status \in {"FAILED_RETRYABLE", "CAPTURED", "AUTHORISED", "REFUNDED", "REFUND_FAILED"}
          /\ e.tx \in Txs /\ (e.tx[2] = "paid" => e.tx[1] \in paid)
      BY SentKinds
    <3>2. txRef \in Txs /\ (txRef[2] = "paid" => txRef[1] \in paid)
      BY <1>0 DEF StepsOK, PaidRefs, Txs
    <3>3. status' \in Statuses
      BY <1>5, <3>1 DEF Statuses
    <3>4. txRef' = txRef \/ txRef' = e.tx
      BY <1>5
    <3> QED BY <3>1, <3>2, <3>3, <3>4
  <2>2. status' \in {"CAPTURED", "RECONCILED"} => reference \in paid
    <3> SUFFICES ASSUME status' \in {"CAPTURED", "RECONCILED"} PROVE reference \in paid
      OBVIOUS
    <3>1. e.status = "CAPTURED" /\ e.reference \in paid
      BY <1>5, SentKinds
    <3>2. status # "REFUND_SUBMITTED"
      BY <1>5, <3>1 DEF validProviderTransition
    <3> QED BY <1>5, <3>1, <3>2 DEF Matches
  <2>3. StepsOK'
    BY <1>0, <1>2, <1>5, <2>1 DEF StepsOK, Txs
  <2>4. PaidRefs'
    BY <1>0, <1>2, <2>1 DEF PaidRefs
  <2>5. CapturedMeansPaid'
    BY <1>2, <1>5, <2>2 DEF CapturedMeansPaid
  <2> QED BY <1>3, <2>3, <2>4, <2>5 DEF PayInv
<1> QED BY <1>4, <1>5 DEF applyProviderEvent


\* The second transaction of a reconciliation rechecks that the row still points
\* at the session it asked about, and that session is captured.
LEMMA ReconcilePay ==
  ASSUME PayInv, NEW w \in Workers, ReconcileApply(w)
  PROVE  PayInv'
<1>0. /\ StepsOK /\ CallsOK /\ PaidRefs /\ CapturedMeansPaid
      /\ calls' = [calls EXCEPT ![w] = NoCall] /\ CallOK(NoCall, sessions, paid)
      /\ calls[w].op = "verified" /\ UNCHANGED provider
  BY DEF PayInv, ReconcileApply, Return, CallOK
<1>1. UNCHANGED <<sessions, handed, failed, paid, refunds>>
  BY <1>0 DEF provider
<1>2. CallsOK'
  BY <1>0, <1>1, CallGiven
<1>3. CASE UNCHANGED row /\ excepted' \in BOOLEAN
  <2>1. UNCHANGED <<method, status, opState, reference, txRef, refund>>
    BY <1>3 DEF row
  <2>2. StepsOK' /\ PaidRefs' /\ CapturedMeansPaid'
    BY <1>0, <1>1, <1>3, <2>1 DEF StepsOK, PaidRefs, CapturedMeansPaid
  <2> QED BY <1>2, <2>2 DEF PayInv
<1>4. CASE /\ reference = calls[w].session
           /\ status' = "RECONCILED" /\ txRef' = calls[w].tx /\ opState' = "READY"
           /\ UNCHANGED <<method, reference, refund, excepted>>
  <2>1. /\ reference \in Sessions /\ reference \in paid
        /\ txRef' = <<reference, "paid">>
    BY <1>0, <1>4, CallKinds
  <2>2. txRef' \in Txs /\ txRef'[1] \in paid
    BY <2>1 DEF Txs
  <2>3. StepsOK' /\ PaidRefs' /\ CapturedMeansPaid'
    BY <1>0, <1>1, <1>4, <2>1, <2>2 DEF StepsOK, PaidRefs, CapturedMeansPaid, Statuses, Txs
  <2> QED BY <1>2, <2>3 DEF PayInv
<1>5. excepted \in BOOLEAN
  BY <1>0 DEF StepsOK
<1> QED BY <1>3, <1>4, <1>5 DEF ReconcileApply

\* Both transactions of a refund, cash and cancellation: whatever they do to the
\* status, they do not mark an online payment captured.
LEMMA StatusPay ==
  ASSUME PayInv, CallsOK', UNCHANGED <<method, reference, txRef, excepted>>, UNCHANGED provider,
         status' \in Statuses, opState' \in {"READY", "INITIALIZING", "REFUNDING"},
         refund' \in 0..Amount,
         status' \in {"CAPTURED", "RECONCILED"} => method = "COD" \/ status' = status
  PROVE  PayInv'
<1>1. UNCHANGED <<sessions, handed, failed, paid, refunds>>
  BY DEF provider
<1>2. StepsOK' /\ PaidRefs' /\ CapturedMeansPaid'
  BY <1>1 DEF PayInv, StepsOK, PaidRefs, CapturedMeansPaid, Online
<1> QED BY <1>2 DEF PayInv

LEMMA RefundPay ==
  ASSUME PayInv,
         \/ \E w \in Handlers, a \in 1..Amount : RequestRefund(w, a)
         \/ \E w \in Handlers : finalizeRefund(w)
         \/ MarkCODCollected \/ CancelUncaptured
  PROVE  PayInv'
<1>0. /\ StepsOK /\ CallsOK /\ Handlers \subseteq Workers /\ 1..Amount \subseteq 0..Amount
      /\ refund \in 0..Amount /\ reference \in 0..MaxSessions /\ txRef \in Txs
      /\ status \in Statuses /\ opState \in {"READY", "INITIALIZING", "REFUNDING"}
      /\ sessions \in Nat /\ sessions <= sessions
  BY DEF PayInv, StepsOK, Workers, Txs
<1>1. ASSUME NEW w \in Handlers, NEW a \in 1..Amount, RequestRefund(w, a)
      PROVE  PayInv'
  <2> DEFINE c == [op |-> "refund", amount |-> a, session |-> reference, tx |-> txRef]
  <2>1. /\ calls' = [calls EXCEPT ![w] = c] /\ status' = "REFUND_REQUESTED" /\ refund' = a
        /\ opState' = "REFUNDING" /\ UNCHANGED <<method, reference, txRef, excepted>>
        /\ UNCHANGED provider
    BY <1>1 DEF RequestRefund, Return
  <2>2. CallOK(c, sessions, paid)
    BY <1>0 DEF CallOK
  <2> HIDE DEF c
  <2>3. UNCHANGED <<sessions, paid>>
    BY <2>1 DEF provider
  <2>4. CallsOK'
    BY <1>0, <2>1, <2>2, <2>3, CallGiven
  <2>5. refund' \in 0..Amount /\ status' \in Statuses
    BY <1>0, <2>1 DEF Statuses
  <2> QED BY <2>1, <2>4, <2>5, StatusPay
<1>2. ASSUME NEW w \in Handlers, finalizeRefund(w)
      PROVE  PayInv'
  <2>1. /\ calls[w].op = "refunded" /\ calls' = [calls EXCEPT ![w] = NoCall]
        /\ CallOK(NoCall, sessions, paid) /\ UNCHANGED <<excepted, provider>>
    BY <1>2 DEF finalizeRefund, Return, CallOK
  <2>2. calls[w].status \in {"REFUND_SUBMITTED", "REFUNDED", "REFUND_FAILED"}
    BY <1>0, <2>1, CallKinds
  <2>3. UNCHANGED <<sessions, paid>>
    BY <2>1 DEF provider
  <2>4. CallsOK'
    BY <1>0, <2>1, <2>3, CallGiven
  <2>5. /\ UNCHANGED <<method, reference, txRef, refund>>
        /\ \/ status' = status /\ opState' = opState
           \/ status' = calls[w].status /\ opState' = "READY"
    BY <1>2 DEF finalizeRefund, row
  <2>6. status' \in Statuses /\ opState' \in {"READY", "INITIALIZING", "REFUNDING"}
        /\ (status' \in {"CAPTURED", "RECONCILED"} => status' = status)
    BY <1>0, <2>2, <2>5 DEF Statuses
  <2> QED BY <1>0, <2>1, <2>4, <2>5, <2>6, StatusPay
<1>3. CASE MarkCODCollected \/ CancelUncaptured
  <2>1. /\ calls' = calls /\ UNCHANGED provider
        /\ UNCHANGED <<method, reference, txRef, refund, excepted>> /\ opState' = "READY"
        /\ \/ status' = "CAPTURED" /\ method = "COD"
           \/ status' = "CANCELLED"
    BY <1>3 DEF MarkCODCollected, CancelUncaptured
  <2>2. UNCHANGED <<sessions, paid>>
    BY <2>1 DEF provider
  <2>3. CallsOK'
    BY <1>0, <2>1, <2>2, CallsKept
  <2>4. status' \in Statuses /\ refund' \in 0..Amount
    BY <1>0, <2>1 DEF Statuses
  <2> QED BY <2>1, <2>3, <2>4, StatusPay
<1> QED BY <1>1, <1>2, <1>3

\* The provider accepts a refund of a session it captured.
LEMMA AcceptPay ==
  ASSUME PayInv, NEW w \in Handlers, RefundAccepted(w)
  PROVE  PayInv'
<1> DEFINE Ref == [session : Sessions, amount : 1..Amount,
                   state : {"pending", "processed", "failed"}]
<1>0. /\ StepsOK /\ CallsOK /\ PaidRefs /\ CapturedMeansPaid /\ w \in Workers
      /\ calls[w].op = "refund" /\ calls[w].session \in paid /\ refunds \in Seq(Ref)
      /\ UNCHANGED <<row, excepted, sessions, handed, failed, paid>>
  BY DEF PayInv, StepsOK, Workers, RefundAccepted, RefundAcceptable
<1>1. calls[w].amount \in 1..Amount /\ calls[w].session \in Sessions
  <2>1. paid \subseteq 1..sessions /\ 1..sessions \subseteq 1..MaxSessions
    BY <1>0 DEF StepsOK
  <2> QED BY <1>0, <2>1, CallKinds DEF Sessions
<1>2. PICK answer \in {<<"pending", "REFUND_SUBMITTED">>, <<"processed", "REFUNDED">>,
                       <<"pending", "REFUND_FAILED">>} :
        /\ refunds' = Append(refunds, [session |-> calls[w].session,
                                       amount |-> calls[w].amount, state |-> answer[1]])
        /\ calls' = [calls EXCEPT ![w] = RefundResult(w, answer[2])]
  BY DEF RefundAccepted, Return
<1>3. answer[1] \in {"pending", "processed"}
      /\ answer[2] \in {"REFUND_SUBMITTED", "REFUNDED", "REFUND_FAILED"}
  OBVIOUS
<1> DEFINE r == [session |-> calls[w].session, amount |-> calls[w].amount, state |-> answer[1]]
<1>4. r \in Ref /\ r.session = calls[w].session
  BY <1>1, <1>3
<1>5. CallOK(RefundResult(w, answer[2]), sessions, paid)
  BY <1>1, <1>3 DEF CallOK, RefundResult
<1>6. CallsOK'
  BY <1>0, <1>2, <1>5, CallGiven
<1>7. refunds' \in Seq(Ref) /\ \A n \in DOMAIN refunds' : refunds'[n].session \in paid
  <2>1. refunds' = Append(refunds, r)
    BY <1>2
  <2> HIDE DEF r, Ref
  <2>2. /\ refunds' \in Seq(Ref) /\ Len(refunds') = Len(refunds) + 1 /\ Len(refunds) \in Nat
        /\ DOMAIN refunds' = 1..Len(refunds') /\ DOMAIN refunds = 1..Len(refunds)
        /\ \A n \in 1..Len(refunds) : refunds'[n] = refunds[n]
        /\ refunds'[Len(refunds) + 1] = r
    BY <1>0, <1>4, <2>1
  <2>3. \A n \in DOMAIN refunds' : n \in DOMAIN refunds \/ n = Len(refunds) + 1
    BY <2>2
  <2> QED BY <1>0, <1>4, <2>2, <2>3 DEF PaidRefs
<1>8. UNCHANGED <<method, status, opState, reference, txRef, refund>>
  BY <1>0 DEF row
<1>9. StepsOK' /\ PaidRefs' /\ CapturedMeansPaid'
  BY <1>0, <1>7, <1>8 DEF StepsOK, PaidRefs, CapturedMeansPaid
<1> QED BY <1>6, <1>9 DEF PayInv

\* Every step keeps the invariant.
LEMMA NextPay == PayInv /\ [Next]_vars => PayInv'
<1> SUFFICES ASSUME PayInv, [Next]_vars PROVE PayInv'
  OBVIOUS
<1>1. CASE UNCHANGED steps
  <2>1. /\ UNCHANGED <<method, status, opState, reference, txRef, refund, excepted, calls>>
        /\ UNCHANGED <<sessions, handed, failed, paid, refunds>>
    BY <1>1 DEF steps, row, provider
  <2>2. sessions \in 0..MaxSessions /\ sessions \in Nat /\ sessions <= sessions
        /\ opState \in {"READY", "INITIALIZING", "REFUNDING"} /\ StepsOK /\ CallsOK
    BY DEF PayInv, StepsOK
  <2>3. CallsOK'
    BY <2>1, <2>2, CallsKept
  <2> QED BY <2>1, <2>2, <2>3, QuietPay
<1>2. ASSUME NEW w \in Handlers, NEW m \in Methods, Create(w, m)
      PROVE  PayInv'
  BY <1>2, CreatePay
<1>3. CASE Deliver
  BY <1>3, WebhookPay DEF Deliver
<1>4. CASE Reconcile
  BY <1>4, CallPay, ReconcilePay DEF Reconcile, Workers
<1>5. CASE Step
  BY <1>2, <1>3, <1>4, <1>5, CallPay, FinalizePay, ProviderPay, RefundPay, AcceptPay DEF Step
<1> QED BY <1>1, <1>5 DEF Next, OthersLeave, vars

\* The row's place among the candidates is a place on the page or behind it.
LEMMA NextPlace == PlaceOK /\ [Next]_vars => PlaceOK'
<1>1. PageSize \in Nat
  BY PaymentAssumption
<1> QED BY <1>1 DEF Next, Placed, OthersLeave, vars, PlaceOK

\* And it holds before the payment exists.
LEMMA InitPay == Init => PayInv
<1> SUFFICES ASSUME Init PROVE PayInv
  OBVIOUS
<1>1. StepsOK
  <2>1. 0 \in 0..MaxSessions /\ 0 \in 0..Amount
    OBVIOUS
  <2> DEFINE Ref == [session : Sessions, amount : 1..Amount,
                     state : {"pending", "processed", "failed"}]
  <2>2. <<>> \in Seq(Ref)
    OBVIOUS
  <2> QED BY <2>1, <2>2 DEF Init, StepsOK, Statuses
<1>2. CallsOK
  BY DEF Init, CallsOK, CallOK
<1>3. PaidRefs /\ CapturedMeansPaid
  BY DEF Init, PaidRefs, CapturedMeansPaid, NoTx
<1> QED BY <1>1, <1>2, <1>3 DEF PayInv

\* The books never show money that was not taken, whatever answers, retries,
\* webhooks and reconciliations race to write the row.
THEOREM BooksAreBacked == Spec => []CapturedMeansPaid
<1>1. PayInv => CapturedMeansPaid
  BY DEF PayInv
<1> QED BY <1>1, InitPay, NextPay, PTL DEF Spec

\* The half of WebhooksHold that is about single steps: the row has its type, and
\* no webhook touches a payment that is captured, reconciled, refunded, cancelled
\* or finally failed.
THEOREM WebhooksForward == Spec => []TypeOK /\ WebhooksNeverRegress
<1> DEFINE A == Deliver /\ status' # status =>
                  /\ status \notin {"CAPTURED", "RECONCILED", "REFUNDED", "CANCELLED", "FAILED_FINAL"}
                  /\ events' # events
<1>1. A
  <2> SUFFICES ASSUME NEW e \in Sent, applyProviderEvent(e), status' # status
               PROVE  /\ status \notin {"CAPTURED", "RECONCILED", "REFUNDED", "CANCELLED",
                                        "FAILED_FINAL"}
                      /\ events' # events
    BY DEF Deliver
  <2>1. /\ validProviderTransition(status, e.status)
        /\ events' = events \cup {e.id} /\ e.id \notin events
    BY DEF applyProviderEvent, row
  <2>2. status \notin {"CAPTURED", "RECONCILED", "REFUNDED", "CANCELLED", "FAILED_FINAL"}
    BY <2>1 DEF validProviderTransition
  <2> QED BY <2>1, <2>2
<1>2. [Next]_vars => [A]_vars
  BY <1>1
<1>3. PayInv /\ PlaceOK => TypeOK
  BY DEF PayInv, TypeOK
<1>4. Init => PlaceOK
  BY PaymentAssumption DEF Init, PlaceOK
<1> QED BY <1>2, <1>3, <1>4, InitPay, NextPay, NextPlace, PTL DEF Spec, WebhooksNeverRegress
=============================================================================
