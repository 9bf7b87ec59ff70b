-------------------------------- MODULE Food --------------------------------
(***************************************************************************)
(* Food orders of one restaurant (internal/food, PostgresService): carts   *)
(* priced against the menu, orders made from them, the restaurant's answer *)
(* and kitchen, the dispatch, and the sweeper that refuses what was not    *)
(* answered in time.                                                       *)
(*                                                                         *)
(* A create command and a refusal call the wallet and the payment service  *)
(* in the middle of their transaction; what these did stays when the       *)
(* transaction is rolled back, so they are several steps.  All the other   *)
(* commands lock the order row and are one step.                           *)
(*                                                                         *)
(* An online payment is its row, the provider session the row names, and a *)
(* session it named before; the row learns what happens at the provider    *)
(* from webhooks and reconciliation, the provider learns nothing from it.  *)
(***************************************************************************)
EXTENDS Naturals, FiniteSets

CONSTANTS
  Keys,       \* idempotency keys of CreateOrder commands; each names its order
  Carts, CartOf,
  Method,     \* how each command pays: "ONLINE", "WALLET" or "CASH"
  Options, Minimum, Maximum   \* one option group of the menu item

VARIABLES
  serving,    \* the restaurant is open and before its cut-off
  available,  \* options of the item that can be had
  cart,       \* food.carts: "NONE", "PRICED", "EXPIRED"
  order,      \* food.orders, by the key that created them
  late,       \* orders whose accept_by has passed
  funds,      \* payment and redemption made for each key, in the other services
  doing,      \* the transaction that is under way, by process
  behind      \* late orders with a full page of earlier ones before them

steps == <<serving, available, cart, order, late, funds, doing>>
vars == <<steps, behind>>

Processes == {"customer", "vendor", "sweeper"}
Idle == [op |-> "idle"]
Do(p, next) == doing' = [doing EXCEPT ![p] = next]

\* OPEN is PROVIDER_ORDER_CREATED or, for cash, AUTHORISATION_PENDING; RETRYABLE
\* and FINAL are the two failures; CAPTURED is also RECONCILED.
PayStatus == {"NONE", "OPEN", "RETRYABLE", "FINAL", "CAPTURED", "CANCELLED",
              "REFUND_REQUESTED", "REFUND_SUBMITTED"}
Uncaptured == {"OPEN", "RETRYABLE", "FINAL"}
Refunding == {"REFUND_REQUESTED", "REFUND_SUBMITTED"}
Session == {"none", "open", "paid"}
Funds == [pay : PayStatus, points : {"NONE", "TAKEN", "BACK"}, session : Session, older : Session,
          asking : BOOLEAN, reopened : BOOLEAN]
NoFunds == [pay |-> "NONE", points |-> "NONE", session |-> "none", older |-> "none",
            asking |-> FALSE, reopened |-> FALSE]

OrderStatus == {"PENDING_RESTAURANT", "ACCEPTED", "PREPARING", "READY", "RIDER_ASSIGNED",
                "PICKED_UP", "DELIVERED", "REJECTED", "TIMED_OUT"}
Order == [status : OrderStatus \cup {"NONE"}, payment : PayStatus]
NoOrder == [status |-> "NONE", payment |-> "NONE"]
Captured == {"CAPTURED"}

TypeOK ==
  /\ serving \in BOOLEAN /\ available \subseteq Options
  /\ cart \in [Carts -> {"NONE", "PRICED", "EXPIRED"}]
  /\ order \in [Keys -> Order] /\ late \subseteq Keys
  /\ funds \in [Keys -> Funds]
  /\ DOMAIN doing = Processes /\ behind \subseteq Keys

Init ==
  /\ serving = TRUE /\ available = Options
  /\ cart = [c \in Carts |-> "NONE"] /\ order = [k \in Keys |-> NoOrder] /\ late = {}
  /\ funds = [k \in Keys |-> NoFunds] /\ behind = {}
  /\ doing = [p \in Processes |-> Idle]

----------------------------------------------------------------------------
(* The cart.                                                               *)

\* Every chosen option is on offer and the group's bounds are met.
pricePostgresLine(chosen) ==
  chosen \subseteq available /\ Cardinality(chosen) \in Minimum..Maximum

\* The restaurant row is locked: no CreateOrder is under way.
SetCart(c, chosen) ==
  /\ doing["customer"] = Idle /\ serving /\ pricePostgresLine(chosen)
  /\ cart' = [cart EXCEPT ![c] = "PRICED"]
  /\ UNCHANGED <<serving, available, order, late, funds, doing>>

----------------------------------------------------------------------------
(* CreateOrder.  The cart and the restaurant row stay locked to the end.   *)

loadCart(k) == cart[CartOf[k]] = "PRICED"

CreateStarts(k) ==
  /\ doing["customer"] = Idle /\ order[k] = NoOrder
  /\ loadCart(k) /\ serving
  /\ Do("customer", [op |-> "create", of |-> k, step |-> IF Method[k] = "WALLET" THEN "redeem" ELSE "pay"])
  /\ UNCHANGED <<serving, available, cart, order, late, funds>>

Creating(k, step) == doing["customer"] = [op |-> "create", of |-> k, step |-> step]

CreateRedeems(k) ==
  /\ Creating(k, "redeem")
  /\ funds' = [funds EXCEPT ![k].points = IF @ = "NONE" THEN "TAKEN" ELSE @]
  /\ Do("customer", [doing["customer"] EXCEPT !.step = "pay"])
  /\ UNCHANGED <<serving, available, cart, order, late>>

\* Points are captured at once, cash is collected later, and the provider is
\* asked for a session, which may fail.  Repeated, Create answers with the row.
CreatePays(k) ==
  /\ Creating(k, "pay")
  /\ \/ /\ funds[k].pay # "NONE"
        /\ UNCHANGED funds
     \/ /\ funds[k].pay = "NONE" /\ Method[k] = "WALLET"
        /\ funds' = [funds EXCEPT ![k].pay = "CAPTURED"]
     \/ /\ funds[k].pay = "NONE" /\ Method[k] = "CASH"
        /\ funds' = [funds EXCEPT ![k].pay = "OPEN"]
     \/ /\ funds[k].pay = "NONE" /\ Method[k] = "ONLINE"
        /\ \E status \in Uncaptured :
             funds' = [funds EXCEPT ![k].pay = status,
                                    ![k].session = IF status = "OPEN" THEN "open" ELSE "none"]
  /\ Do("customer", [doing["customer"] EXCEPT !.step = "commit"])
  /\ UNCHANGED <<serving, available, cart, order, late>>

CreateRollsBack(k) ==
  /\ Creating(k, "pay") /\ funds[k].pay = "NONE"
  /\ funds' = [funds EXCEPT ![k].points = IF @ = "TAKEN" THEN "BACK" ELSE @]
  /\ Do("customer", Idle)
  /\ UNCHANGED <<serving, available, cart, order, late>>

\* A cart is ordered once: the index on source_cart_id refuses the second.
insertFoodOrder(k) ==
  /\ \A o \in Keys \ {k} : CartOf[o] = CartOf[k] => order[o] = NoOrder
  /\ order' = [order EXCEPT ![k] = [status |-> "PENDING_RESTAURANT", payment |-> funds[k].pay]]

CreateCommits(k) ==
  /\ Creating(k, "commit")
  /\ insertFoodOrder(k)
  /\ Do("customer", Idle)
  /\ UNCHANGED <<serving, available, cart, late, funds>>

----------------------------------------------------------------------------
(* The restaurant and the dispatch.                                        *)

loadFoodOrder(k, from) ==
  /\ order[k].status \in from
  /\ \A p \in {"vendor", "sweeper"} : doing[p] # Idle => doing[p].of # k

updateFoodOrder(k, value) == order' = [order EXCEPT ![k] = value]

\* The row is locked and at the revision the caller saw.
mutateOrder(k, from, to) ==
  /\ loadFoodOrder(k, from)
  /\ updateFoodOrder(k, [order[k] EXCEPT !.status = to])
  /\ UNCHANGED <<serving, available, cart, late, funds, doing>>

allowedRestaurantTransition ==
  {<<"PENDING_RESTAURANT", "ACCEPTED">>, <<"PENDING_RESTAURANT", "REJECTED">>,
   <<"ACCEPTED", "PREPARING">>, <<"PREPARING", "READY">>}

\* Neither the deadline nor the payment is looked at; a rejection is below.
RestaurantTransition(k, to) ==
  /\ to # "REJECTED"
  /\ \E from \in OrderStatus :
       <<from, to>> \in allowedRestaurantTransition /\ mutateOrder(k, {from}, to)

DispatchTransition(k, to) ==
  \E from \in OrderStatus :
    /\ <<from, to>> \in {<<"READY", "RIDER_ASSIGNED">>, <<"RIDER_ASSIGNED", "PICKED_UP">>, <<"PICKED_UP", "DELIVERED">>}
    /\ mutateOrder(k, {from}, to)

----------------------------------------------------------------------------
(* Refusals: the restaurant rejects, the sweeper times out.  The order's   *)
(* own copy of the payment status decides between refund and void.         *)

Compensation(k, to) ==
  [op |-> "refuse", of |-> k, to |-> to,
   step |-> IF Method[k] = "WALLET" THEN "reverse" ELSE IF order[k].payment \in Captured THEN "refund" ELSE "void"]

Reject(k) ==
  /\ doing["vendor"] = Idle /\ loadFoodOrder(k, {"PENDING_RESTAURANT"})
  /\ Do("vendor", Compensation(k, "REJECTED"))
  /\ UNCHANGED <<serving, available, cart, order, late, funds>>

\* Mutant: the sweeper takes only what the restaurant can no longer serve.
ExpireWhenClosed(k) ==
  /\ doing["sweeper"] = Idle /\ loadFoodOrder(k, {"PENDING_RESTAURANT"}) /\ k \in late \ behind /\ ~serving
  /\ Do("sweeper", Compensation(k, "TIMED_OUT"))
  /\ UNCHANGED <<serving, available, cart, order, late, funds>>

\* The sweeper lists a page of late orders, the earliest accept_by first; what it
\* cannot refuse stays on the page.
Expire(k) ==
  /\ doing["sweeper"] = Idle /\ loadFoodOrder(k, {"PENDING_RESTAURANT"}) /\ k \in late \ behind
  /\ Do("sweeper", Compensation(k, "TIMED_OUT"))
  /\ UNCHANGED <<serving, available, cart, order, late, funds>>

Refusing(p, step) == doing[p].op = "refuse" /\ doing[p].step = step

\* compensate, step by step: first the points,
CompensatePoints(p) ==
  LET k == doing[p].of
  IN  /\ Refusing(p, "reverse")
      /\ funds' = [funds EXCEPT ![k].points = "BACK"]
      /\ Do(p, [doing[p] EXCEPT !.step = IF order[k].payment \in Captured THEN "refund" ELSE "void"])
      /\ UNCHANGED <<serving, available, cart, order, late>>

\* then RequestRefund: only points are captured by the time the order copies the
\* status, and for those no provider is asked between the two transactions.
CompensateRefund(p) ==
  LET k == doing[p].of
  IN  /\ Refusing(p, "refund")
      /\ \/ /\ funds[k].pay = "CAPTURED"
            /\ funds' = [funds EXCEPT ![k].pay = "REFUND_REQUESTED"]
            /\ Do(p, [doing[p] EXCEPT !.step = "finalize"])
         \/ /\ funds[k].pay \in Refunding
            /\ UNCHANGED funds
            /\ Do(p, [doing[p] EXCEPT !.step = "commit"])
      /\ UNCHANGED <<serving, available, cart, order, late>>

finalizeRefund(p) ==
  /\ Refusing(p, "finalize")
  /\ funds' = [funds EXCEPT ![doing[p].of].pay = "REFUND_SUBMITTED"]
  /\ Do(p, [doing[p] EXCEPT !.step = "commit"])
  /\ UNCHANGED <<serving, available, cart, order, late>>

\* Mutant: what cannot be voided any more is taken for void.
CompensateAnyway(p) ==
  /\ Refusing(p, "void")
  /\ funds' = [funds EXCEPT ![doing[p].of].pay = IF @ \in Uncaptured THEN "CANCELLED" ELSE @]
  /\ Do(p, [doing[p] EXCEPT !.step = "commit"])
  /\ UNCHANGED <<serving, available, cart, order, late>>

\* or CancelUncaptured, which fails once the row says captured.  The provider is
\* not told: the session stays open.
CompensateVoid(p) ==
  LET k == doing[p].of
  IN  /\ Refusing(p, "void")
      /\ \/ /\ funds[k].pay \in Uncaptured \cup {"CANCELLED"}
            /\ funds' = [funds EXCEPT ![k].pay = "CANCELLED"]
            /\ Do(p, [doing[p] EXCEPT !.step = "commit"])
         \/ /\ funds[k].pay \notin Uncaptured \cup {"CANCELLED"}
            /\ UNCHANGED funds
            /\ Do(p, Idle)
      /\ UNCHANGED <<serving, available, cart, order, late>>

RefuseCommits(p) ==
  LET k == doing[p].of
  IN  /\ Refusing(p, "commit")
      /\ updateFoodOrder(k, [status |-> doing[p].to, payment |-> funds[k].pay])
      /\ Do(p, Idle)
      /\ UNCHANGED <<serving, available, cart, late, funds>>

\* A transaction is rolled back; the other services keep what they did.
Abort(p) ==
  /\ doing[p] # Idle
  /\ Do(p, Idle)
  /\ UNCHANGED <<serving, available, cart, order, late, funds>>

----------------------------------------------------------------------------
(* The payment of an order that the customer knows of, at the provider and *)
(* in the payment service.                                                 *)

Bill(k, value) ==
  /\ order[k] # NoOrder /\ Method[k] = "ONLINE"
  /\ funds' = [funds EXCEPT ![k] = value]
  /\ UNCHANGED <<serving, available, cart, order, late, doing>>

\* The customer pays a session, whatever became of the payment.
Pay(k) ==
  \/ funds[k].session = "open" /\ Bill(k, [funds[k] EXCEPT !.session = "paid"])
  \/ funds[k].older = "open" /\ Bill(k, [funds[k] EXCEPT !.older = "paid"])

\* A webhook or the recovery loop records the capture of the session the row
\* names.  A row that was cancelled refuses it.
Captures(k) ==
  /\ funds[k].session = "paid" /\ funds[k].pay \in {"OPEN", "RETRYABLE"}
  /\ Bill(k, [funds[k] EXCEPT !.pay = "CAPTURED"])

\* The webhook of a failed attempt.
AttemptFails(k) ==
  /\ funds[k].pay = "OPEN"
  /\ Bill(k, [funds[k] EXCEPT !.pay = "RETRYABLE"])

\* RetryProvider asks for another session with no lock held,
RetryStarts(k) ==
  /\ funds[k].pay = "RETRYABLE" /\ ~funds[k].asking
  /\ Bill(k, [funds[k] EXCEPT !.asking = TRUE])

Superseded(k) == IF "paid" \in {funds[k].session, funds[k].older} THEN "paid"
                 ELSE IF "open" \in {funds[k].session, funds[k].older} THEN "open" ELSE "none"

\* and finalizeInitialization writes it over any status but PROVIDER_ORDER_CREATED,
\* over a capture and a cancellation too.
RetryFinalizes(k) ==
  /\ funds[k].asking
  /\ \/ /\ funds[k].pay = "OPEN" /\ funds[k].session # "none"
        /\ Bill(k, [funds[k] EXCEPT !.asking = FALSE])
     \/ /\ ~(funds[k].pay = "OPEN" /\ funds[k].session # "none")
        /\ Bill(k, [funds[k] EXCEPT !.pay = "OPEN", !.session = "open", !.older = Superseded(k),
                      !.asking = FALSE, !.reopened = @ \/ funds[k].pay # "RETRYABLE"])

RetryFails(k) == funds[k].asking /\ Bill(k, [funds[k] EXCEPT !.asking = FALSE])

----------------------------------------------------------------------------
(* The restaurant's menu and hours, and time.                              *)

beforeCutoff == serving /\ serving' = FALSE /\ UNCHANGED <<available, cart, order, late, funds, doing>>

SellOut(o) ==
  /\ o \in available /\ available' = available \ {o}
  /\ UNCHANGED <<serving, cart, order, late, funds, doing>>

CartLapses(c) ==
  /\ cart[c] = "PRICED" /\ cart' = [cart EXCEPT ![c] = "EXPIRED"]
  /\ UNCHANGED <<serving, available, order, late, funds, doing>>

AcceptByPasses(k) ==
  /\ order[k].status = "PENDING_RESTAURANT" /\ k \notin late /\ late' = late \cup {k}
  /\ UNCHANGED <<serving, available, cart, order, funds, doing>>

\* accept_by passes: the orders before it on the sweeper's list are known.
Placed == behind' \in {behind, behind \cup (late' \ late)}

OthersLeave ==
  /\ \E k \in behind : behind' = behind \ {k}
  /\ UNCHANGED steps

Step ==
  \/ \E c \in Carts : CartLapses(c) \/ \E chosen \in SUBSET Options : SetCart(c, chosen)
  \/ \E k \in Keys :
       \/ CreateStarts(k) \/ CreateRedeems(k) \/ CreatePays(k) \/ CreateRollsBack(k) \/ CreateCommits(k)
       \/ Reject(k) \/ Expire(k) \/ AcceptByPasses(k)
       \/ Pay(k) \/ Captures(k) \/ AttemptFails(k) \/ RetryStarts(k) \/ RetryFinalizes(k) \/ RetryFails(k)
       \/ \E to \in OrderStatus : RestaurantTransition(k, to) \/ DispatchTransition(k, to)
  \/ \E p \in Processes : Abort(p)
  \/ \E p \in {"vendor", "sweeper"} :
       CompensatePoints(p) \/ CompensateRefund(p) \/ finalizeRefund(p) \/ CompensateVoid(p) \/ RefuseCommits(p)
  \/ beforeCutoff \/ \E o \in Options : SellOut(o)

Next == (Step /\ Placed) \/ OthersLeave

\* Time passes; recoveryLoop sweeps again and again and tries every order of a
\* page, and not all of its transactions are rolled back; the restaurant's end,
\* by their timeout if not before.  Nothing makes the orders before one on the
\* list go.
Fair(A) == A /\ Placed
Fairness ==
  /\ \A k \in Keys : WF_vars(Fair(AcceptByPasses(k))) /\ SF_vars(Fair(Expire(k)))
  /\ SF_vars(Fair(CompensatePoints("sweeper"))) /\ SF_vars(Fair(CompensateRefund("sweeper")))
  /\ SF_vars(Fair(finalizeRefund("sweeper")))
  /\ SF_vars(Fair(CompensateVoid("sweeper"))) /\ SF_vars(Fair(RefuseCommits("sweeper")))
  /\ WF_vars(Fair(Abort("vendor")))

Spec == Init /\ [][Next]_vars
FairSpec == Spec /\ Fairness

----------------------------------------------------------------------------

\* "restaurant accept/reject/timeout, refund": in the books, an order the
\* restaurant or the sweeper refused keeps no points, and its payment is void or
\* being refunded, at whatever step earlier attempts were rolled back and whenever
\* the capture was recorded.  One thing undoes it: a retry that was asking the
\* provider meanwhile and writes the payment open again.  And a cart is ordered
\* at most once.
RefusedIsSettled ==
  /\ \A k \in Keys : order[k].status \in {"REJECTED", "TIMED_OUT"} =>
       /\ funds[k].points # "TAKEN"
       /\ funds[k].pay \in {"CANCELLED"} \cup Refunding \/ funds[k].reopened
  /\ \A j, k \in Keys : order[j] # NoOrder /\ order[k] # NoOrder /\ CartOf[j] = CartOf[k] => j = k

\* The customer of a refused order has not paid.  This does not hold: the session
\* of a payment that was voided can still be paid, or was before its webhook came,
\* and a capture of a cancelled payment is turned away.
RefusedIsNotCharged ==
  \A k \in Keys : order[k].status \in {"REJECTED", "TIMED_OUT"} =>
    "paid" \notin {funds[k].session, funds[k].older}

\* An order left unanswered is answered or timed out once it is on the page the
\* sweeper lists, however often the sweeper is rolled back.  The exception is a
\* payment whose capture was recorded after the order was made, of which the
\* order's own copy never learns: CancelUncaptured then fails in every sweep.
\* Such orders keep their places, and a page of them stops the sweeper for all
\* the orders behind.
UnansweredEnds ==
  \A k \in Keys :
    order[k].status = "PENDING_RESTAURANT" /\ k \in late \ behind ~>
      order[k].status # "PENDING_RESTAURANT" \/ (Method[k] = "ONLINE" /\ funds[k].pay = "CAPTURED")

\* An order paid in points holds the points.  Two things break it: Redeem is
\* answered from the ledger after a rolled back create gave the points back,
\* and a second command for the same cart takes points for an order that the
\* index refuses.
TakenForAnOrder ==
  \A k \in Keys : funds[k].points = "TAKEN" /\ doing["customer"] = Idle => order[k] # NoOrder
=============================================================================
