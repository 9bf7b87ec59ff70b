--------------------------- MODULE CheckoutProofs ---------------------------
(***************************************************************************)
(* Safety of the checkout saga, for any number of requests, cancellations  *)
(* and crashes and every choice of payment method.  The invariant says how *)
(* far each process can be, given what stock, wallet, payment and order    *)
(* have come to, and the other way round.  Each lemma takes one way in     *)
(* which a process goes on; the last ones put them together.               *)
(***************************************************************************)
EXTENDS Checkout, FiniteSetTheorems, TLAPS

\* Where the processes of each kind can be.
ShopperLabels == {"idle", "reserve", "redeem", "pay", "initialize", "order", "commit", "save", "release", "reverse"}
CancelLabels == {"idle", "refund", "refunding", "finalize", "void", "hold", "release", "restock", "points", "order"}
FinalizeLabels == {"idle", "payment", "stock", "order"}
ReturnLabels == {"idle", "refund", "refunding", "finalize", "restock", "points", "received", "record"}
RetryLabels == {"idle", "asking", "done"}
WebhookLabels == {"idle", "payment", "record"}

Labels == ShopperLabels \cup CancelLabels \cup FinalizeLabels \cup ReturnLabels \cup RetryLabels
Statuses == {"NONE", "CANCELLED"} \cup Uncaptured \cup Captured \cup RefundStatuses

\* Who can put goods and points back.
Undoers == Cancellers \cup {"return"}

\* TypeOK, with the labels of each kind of process.
Typed ==
  /\ method \in Methods
  /\ hold \in {"NONE", "RESERVED", "COMMITTED", "RELEASED"} /\ due \in BOOLEAN
  /\ restocks \subseteq Undoers /\ \A q, r \in restocks : q = r
  /\ points \in {"NONE", "TAKEN", "BACK"}
  /\ backBy \in Cancellers \cup {"NONE", "place", "return"}
  /\ pay \in Statuses
  /\ refundOf \in {"NONE", "ALL", "PART"}
  /\ provider \in {"NONE"} \cup Session /\ older \subseteq Session
  /\ reopened \in BOOLEAN /\ saved \in BOOLEAN
  /\ order \in {"NONE", "PENDING_PAYMENT", "PLACED", "REJECTED", "COMPLETED", "CANCEL_REQUESTED",
                "CANCELLED", "RETURN_REQUESTED", "RETURN_APPROVED", "RETURNED", "REFUNDED"}
  /\ crashes \in 0..MaxCrashes

\* The places a process can be in.
LabelsOf(p) ==
  CASE p \in Shoppers -> ShopperLabels
    [] p \in Cancellers -> CancelLabels
    [] p \in Finalizers -> FinalizeLabels
    [] p = "return" -> ReturnLabels
    [] p \in Retriers -> RetryLabels
    [] p = "refund" -> WebhookLabels

Labelled ==
  /\ pc \in [Processes -> Labels] /\ seen \in [Processes -> Statuses]
  /\ \A p \in Processes : pc[p] \in LabelsOf(p)

Undoing == {"CANCEL_REQUESTED", "CANCELLED"}
Returning == {"RETURN_APPROVED", "RETURNED", "REFUNDED"}
Undone == {"CANCELLED"} \cup RefundStatuses
Placing == ShopperLabels \ {"idle", "reserve"}

\* Before its placement is on record an order is the business of one request.
OnePlacement ==
  /\ \A p \in Shoppers : pc[p] \in Placing => hold # "NONE" /\ ~saved
  /\ \A p, q \in Shoppers : pc[p] \in Placing /\ pc[q] \in Placing => p = q
  /\ hold = "NONE" => ~saved /\ order = "NONE" /\ pay = "NONE" /\ points = "NONE" /\ backBy = "NONE"
  /\ ~saved => /\ \A p \in Undoers : pc[p] = "idle"
               /\ \A p \in Finalizers : pc[p] \in {"idle", "payment"}
               /\ pc["refund"] # "record"
  /\ order = "NONE" => /\ \A p \in Finalizers \cup Retriers : pc[p] = "idle"
                       /\ provider \in {"NONE", "OPEN"} /\ older = {} /\ reopened = FALSE

\* What the placement has done so far.
PlacementKnows ==
  \A p \in Shoppers :
    /\ pc[p] \in {"redeem", "pay", "initialize", "order"} => order = "NONE"
    /\ pc[p] \in {"redeem", "pay"} => pay = "NONE"
    /\ pc[p] = "redeem" => backBy = "NONE"
    /\ pc[p] = "initialize" => method = "PAYSTACK"
    /\ pc[p] = "commit" => method # "PAYSTACK"
    /\ pc[p] = "save" /\ method # "PAYSTACK" => hold = "COMMITTED"

\* Goods that are sold to an order stay with it until it is undone, by whom it says.
GoodsKept ==
  /\ saved /\ method # "PAYSTACK" => hold = "COMMITTED"
  /\ method = "PAYSTACK" /\ order \in Going => hold = "COMMITTED"
  /\ \A p \in Finalizers : pc[p] = "order" => hold = "COMMITTED"
  /\ restocks # {} => saved
  /\ restocks # {} /\ "return" \notin restocks => order \in Undoing
  /\ "return" \in restocks => order \in Returning

\* Some session of the payment is paid; one is on its way back; one is back.
Paid == "PAID" \in Sessions
GivenBack == Sessions \cap Returned # {}
Settled == Sessions \cap {"SETTLED", "TOLD"} # {}

\* Money is taken before an order goes ahead and given back only once it is undone.
\* A payment that has begun to be refunded stays so, unless a retry opens it again.
MoneyKept ==
  /\ method # "PAYSTACK" => /\ provider = "NONE" /\ older = {}
                            /\ pay \notin {"FAILED_RETRYABLE", "PROVIDER_ORDER_CREATED"}
                            /\ \A p \in Retriers : pc[p] # "asking"
  /\ GivenBack \/ pay \in RefundStatuses => order \in Undoing \cup Returning
  /\ method = "PAYSTACK" /\ order \in Going => Paid /\ (pay \in Captured \/ reopened = TRUE)
  /\ \A p \in Finalizers : pc[p] # "idle" =>
       (Paid /\ (pay \in Captured \/ reopened = TRUE)) \/ order \in Undoing \cup Returning
  /\ \A p \in Undoers : pc[p] \in {"refunding", "finalize"} => pay \in RefundStatuses \/ reopened = TRUE
  /\ \A p \in Undoers : pc[p] = "finalize" => seen[p] \in RefundStatuses
  /\ pay = "REFUNDED" => Settled
  /\ \A p \in Processes : seen[p] = "REFUNDED" => Settled

\* How far a cancellation is.
CancellationKnows ==
  \A p \in Cancellers :
    /\ pc[p] # "idle" => order \in Undoing
    /\ pc[p] \in {"hold", "release", "restock", "points", "order"} => pay \in Undone \/ reopened = TRUE
    /\ pc[p] \in {"points", "order"} => hold = "RELEASED" \/ restocks # {}
    /\ pc[p] = "order" => points # "TAKEN"

\* How far a return is.
ReturnKnows ==
  /\ backBy # "NONE" => points = "BACK"
  /\ pc["return"] # "idle" => order \in Returning
  /\ pc["return"] \in {"points", "received", "record"} => "return" \in restocks
  /\ pc["return"] \in {"received", "record"} => points # "TAKEN"
  /\ pc["return"] = "record" => method = "WALLET" \/ Settled
  /\ pc["refund"] = "record" => Settled
  /\ order \in {"RETURNED", "REFUNDED"} => "return" \in restocks /\ points # "TAKEN"
  /\ order = "REFUNDED" => method = "WALLET" \/ Settled

\* CancelledKeepsNothing, as an invariant.
CancelledOK ==
  order = "CANCELLED" => (hold = "RELEASED" \/ restocks # {}) /\ points # "TAKEN"
                          /\ (pay \in Undone \/ reopened = TRUE)

CInv ==
  /\ Typed /\ Labelled /\ OnePlacement /\ PlacementKnows /\ GoodsKept /\ MoneyKept
  /\ CancellationKnows /\ ReturnKnows /\ CancelledOK

USE DEF Sessions, Paid, GivenBack, Settled

\* The kinds of processes are disjoint, and each has labels of its own.
LEMMA Kinds ==
  /\ \A p \in Shoppers : p \in Processes /\ p \notin Undoers \cup Finalizers \cup Retriers \cup {"refund"} /\ LabelsOf(p) = ShopperLabels
  /\ \A p \in Cancellers : p \in Processes /\ p \notin Shoppers \cup Finalizers \cup Retriers \cup {"return", "refund"} /\ LabelsOf(p) = CancelLabels
  /\ \A p \in Finalizers : p \in Processes /\ p \notin Shoppers \cup Undoers \cup Retriers \cup {"refund"} /\ LabelsOf(p) = FinalizeLabels
  /\ \A p \in Retriers : p \in Processes /\ p \notin Shoppers \cup Undoers \cup Finalizers \cup {"refund"} /\ LabelsOf(p) = RetryLabels
  /\ "return" \in Processes /\ "return" \notin Shoppers \cup Cancellers \cup Finalizers \cup Retriers /\ LabelsOf("return") = ReturnLabels
  /\ "refund" \in Processes /\ "refund" \notin Shoppers \cup Undoers \cup Finalizers \cup Retriers /\ LabelsOf("refund") = WebhookLabels
<1> USE CheckoutAssumption DEF Processes, Finalizers, Undoers
<1>1. \A p \in Shoppers : p \in Processes /\ p \notin Undoers \cup Finalizers \cup Retriers \cup {"refund"} /\ LabelsOf(p) = ShopperLabels
  BY DEF LabelsOf
<1>2. \A p \in Cancellers : p \in Processes /\ p \notin Shoppers \cup Finalizers \cup Retriers \cup {"return", "refund"} /\ LabelsOf(p) = CancelLabels
  BY DEF LabelsOf
<1>3. \A p \in Finalizers : p \in Processes /\ p \notin Shoppers \cup Undoers \cup Retriers \cup {"refund"} /\ LabelsOf(p) = FinalizeLabels
  BY DEF LabelsOf
<1>4. \A p \in Retriers : p \in Processes /\ p \notin Shoppers \cup Undoers \cup Finalizers \cup {"refund"} /\ LabelsOf(p) = RetryLabels
  BY DEF LabelsOf
<1>5. "return" \in Processes /\ "return" \notin Shoppers \cup Cancellers \cup Finalizers \cup Retriers /\ LabelsOf("return") = ReturnLabels
  BY DEF LabelsOf
<1>6. "refund" \in Processes /\ "refund" \notin Shoppers \cup Undoers \cup Finalizers \cup Retriers /\ LabelsOf("refund") = WebhookLabels
  BY DEF LabelsOf
<1>7. QED
  BY <1>1, <1>2, <1>3, <1>4, <1>5, <1>6

\* Process p is now at a label of its own, and the others are where they were.
Moved(p, to) ==
  /\ Labelled' /\ pc'[p] = to
  /\ \A q \in Processes : q # p => pc'[q] = pc[q] /\ seen'[q] = seen[q]

LEMMA ProcessMoves ==
  ASSUME Labelled, NEW p \in Processes, NEW to \in LabelsOf(p), pc' = [pc EXCEPT ![p] = to],
         UNCHANGED seen \/ \E status \in Statuses : seen' = [seen EXCEPT ![p] = status]
  PROVE  Moved(p, to)
<1>1. to \in Labels
  BY Kinds DEF LabelsOf, Labels, Processes, ReturnLabels, WebhookLabels, RetryLabels, FinalizeLabels
<1>2. pc' \in [Processes -> Labels] /\ seen' \in [Processes -> Statuses]
  BY <1>1 DEF Labelled
<1>3. pc'[p] = to /\ \A q \in Processes : q # p => pc'[q] = pc[q] /\ seen'[q] = seen[q]
  BY DEF Labelled
<1>4. \A q \in Processes : pc'[q] \in LabelsOf(q)
  BY <1>3 DEF Labelled
<1>5. QED
  BY <1>2, <1>3, <1>4 DEF Labelled, Moved

\* A process dies, or gives up without a trace.
LEMMA GivesUp ==
  ASSUME CInv, NEW p \in Processes,
         \/ UNCHANGED <<seen, crashes>>
         \/ seen' = [seen EXCEPT ![p] = "NONE"] /\ crashes' \in 0..MaxCrashes,
         pc' = [pc EXCEPT ![p] = "idle"],
         UNCHANGED <<method, hold, due, restocks, points, backBy, pay, refundOf, provider, older, reopened, order, saved>>
  PROVE  CInv'
<1>1. p \in Processes /\ "idle" \in LabelsOf(p)
  BY Kinds DEF Processes, LabelsOf, ShopperLabels, CancelLabels, FinalizeLabels, ReturnLabels, RetryLabels, WebhookLabels
<1>2. Moved(p, "idle")
  BY <1>1, ProcessMoves DEF CInv, Typed, Statuses, RefundStatuses
<1>3. Typed'
  BY DEF CInv, Typed, Statuses, Captured, Uncaptured, RefundStatuses
<1>4. OnePlacement'
  BY <1>1, <1>2, Kinds DEF Moved, CInv, OnePlacement, Placing, ShopperLabels, Undoers
<1>5. MoneyKept'
  BY <1>1, <1>2, Kinds DEF Moved, CInv, MoneyKept, Undoers, Labelled
<1>6. PlacementKnows' /\ GoodsKept' /\ CancellationKnows' /\ ReturnKnows' /\ CancelledOK'
  BY <1>1, <1>2, Kinds DEF Moved, CInv, PlacementKnows, GoodsKept, CancellationKnows,
                           ReturnKnows, CancelledOK
<1>7. QED
  BY <1>2, <1>3, <1>4, <1>5, <1>6 DEF CInv, Moved

\* Place, step by step.
LEMMA PlaceBegun ==
  ASSUME CInv, NEW p \in Shoppers, ~saved, pc[p] = "idle", pc' = [pc EXCEPT ![p] = "reserve"],
         UNCHANGED <<method, hold, due, restocks, points, backBy, pay, refundOf, provider, older, reopened, order, saved, crashes, seen>>
  PROVE  CInv'
<1>1. p \in Processes /\ "reserve" \in LabelsOf(p)
  BY Kinds DEF ShopperLabels
<1>2. Moved(p, "reserve")
  BY <1>1, ProcessMoves DEF CInv
<1>3. Typed'
  BY DEF CInv, Typed
<1>4. OnePlacement'
  BY <1>1, <1>2, Kinds DEF Moved, CInv, OnePlacement, Placing, ShopperLabels, Undoers
<1>5. PlacementKnows' /\ GoodsKept' /\ MoneyKept' /\ CancellationKnows' /\ ReturnKnows' /\ CancelledOK'
  BY <1>1, <1>2, Kinds DEF Moved, CInv, PlacementKnows, GoodsKept, MoneyKept, CancellationKnows,
                           ReturnKnows, CancelledOK, Undoers
<1>6. QED
  BY <1>2, <1>3, <1>4, <1>5 DEF CInv, Moved

\* Reserve, which succeeds once.
LEMMA PlaceReserved ==
  ASSUME CInv, NEW p \in Shoppers, NEW to \in {"redeem", "pay"}, hold = "NONE",
         hold' = "RESERVED", pc[p] = "reserve", pc' = [pc EXCEPT ![p] = to],
         UNCHANGED <<method, due, restocks, points, backBy, pay, refundOf, provider, older, reopened, order, saved, crashes, seen>>
  PROVE  CInv'
<1>1. p \in Processes /\ to \in LabelsOf(p)
  BY Kinds DEF ShopperLabels
<1>2. Moved(p, to)
  BY <1>1, ProcessMoves DEF CInv
<1>3. Typed'
  BY DEF CInv, Typed
<1>4. OnePlacement'
  BY <1>1, <1>2, Kinds DEF Moved, CInv, OnePlacement, Placing, ShopperLabels, Undoers
<1>5. PlacementKnows'
  BY <1>1, <1>2, Kinds DEF Moved, CInv, PlacementKnows, OnePlacement, Placing, ShopperLabels,
                           Undoers
<1>6. GoodsKept'
  BY <1>1, <1>2, Kinds DEF Moved, CInv, GoodsKept, OnePlacement, Placing, ShopperLabels, Undoers
<1>7. MoneyKept'
  BY <1>1, <1>2, Kinds DEF Moved, CInv, MoneyKept, OnePlacement, Placing, ShopperLabels, Undoers
<1>8. CancellationKnows' /\ ReturnKnows' /\ CancelledOK'
  BY <1>1, <1>2, Kinds DEF Moved, CInv, CancellationKnows, ReturnKnows, CancelledOK
<1>9. QED
  BY <1>2, <1>3, <1>4, <1>5, <1>6, <1>7, <1>8 DEF CInv, Moved

\* Redeem.
LEMMA PlaceRedeemed ==
  ASSUME CInv, NEW p \in Shoppers, points' = "TAKEN", pc[p] = "redeem",
         pc' = [pc EXCEPT ![p] = "pay"],
         UNCHANGED <<method, hold, due, restocks, backBy, pay, refundOf, provider, older, reopened, order, saved, crashes, seen>>
  PROVE  CInv'
<1>1. p \in Processes /\ "pay" \in LabelsOf(p)
  BY Kinds DEF ShopperLabels
<1>2. Moved(p, "pay")
  BY <1>1, ProcessMoves DEF CInv
<1>3. Typed'
  BY DEF CInv, Typed
<1>4. OnePlacement'
  BY <1>1, <1>2, Kinds DEF Moved, CInv, OnePlacement, Placing, ShopperLabels, Undoers
<1>5. PlacementKnows'
  BY <1>1, <1>2, Kinds DEF Moved, CInv, PlacementKnows, OnePlacement, Placing, ShopperLabels,
                           Undoers
<1>6. GoodsKept'
  BY <1>1, <1>2, Kinds DEF Moved, CInv, GoodsKept, OnePlacement, Placing, ShopperLabels,
                           Undoers, PlacementKnows
<1>7. MoneyKept'
  BY <1>1, <1>2, Kinds DEF Moved, CInv, MoneyKept, OnePlacement, Placing, ShopperLabels,
                           Undoers, PlacementKnows
<1>8. CancellationKnows'
  BY <1>1, <1>2, Kinds DEF Moved, CInv, CancellationKnows, OnePlacement, Placing, ShopperLabels,
                           Undoers, PlacementKnows
<1>9. ReturnKnows'
  BY <1>1, <1>2, Kinds DEF Moved, CInv, ReturnKnows, OnePlacement, Placing, ShopperLabels,
                           Undoers, PlacementKnows
<1>10. CancelledOK'
  BY <1>1, <1>2, Kinds DEF Moved, CInv, CancelledOK, OnePlacement, Placing, ShopperLabels,
                           Undoers, PlacementKnows
<1>11. QED
  BY <1>2, <1>3, <1>4, <1>5, <1>6, <1>7, <1>8, <1>9, <1>10 DEF CInv, Moved

\* A call failed: compensation begins.
LEMMA PlaceReleases ==
  ASSUME CInv, NEW p \in Shoppers, pc[p] \in {"redeem", "pay", "initialize", "order"},
         pc' = [pc EXCEPT ![p] = "release"],
         UNCHANGED <<method, hold, due, restocks, points, backBy, pay, refundOf, provider, older, reopened, order, saved, crashes, seen>>
  PROVE  CInv'
<1>1. p \in Processes /\ "release" \in LabelsOf(p)
  BY Kinds DEF ShopperLabels
<1>2. Moved(p, "release")
  BY <1>1, ProcessMoves DEF CInv
<1>3. Typed'
  BY DEF CInv, Typed
<1>4. OnePlacement'
  BY <1>1, <1>2, Kinds DEF Moved, CInv, OnePlacement, Placing, ShopperLabels, Undoers
<1>5. PlacementKnows' /\ GoodsKept' /\ MoneyKept' /\ CancellationKnows' /\ ReturnKnows' /\ CancelledOK'
  BY <1>1, <1>2, Kinds DEF Moved, CInv, PlacementKnows, GoodsKept, MoneyKept, CancellationKnows,
                           ReturnKnows, CancelledOK, Undoers
<1>6. QED
  BY <1>2, <1>3, <1>4, <1>5 DEF CInv, Moved

\* CreateWithPayer.
LEMMA PlacePays ==
  ASSUME CInv, NEW p \in Shoppers,
         pay' = CASE method = "COD" -> "AUTHORISATION_PENDING"
                  [] method = "WALLET" -> "CAPTURED"
                  [] OTHER -> "FAILED_RETRYABLE",
         pc[p] = "pay",
         pc' = [pc EXCEPT ![p] = IF method = "PAYSTACK" THEN "initialize" ELSE "order"],
         UNCHANGED <<method, hold, due, restocks, points, backBy, refundOf, provider, older, reopened, order, saved, crashes, seen>>
  PROVE  CInv'
<1>1. p \in Processes /\ (IF method = "PAYSTACK" THEN "initialize" ELSE "order") \in LabelsOf(p)
  BY Kinds DEF ShopperLabels
<1>2. Moved(p, IF method = "PAYSTACK" THEN "initialize" ELSE "order")
  BY <1>1, ProcessMoves DEF CInv
<1>3. Typed'
  BY DEF CInv, Typed, Statuses, Captured, Uncaptured, RefundStatuses
<1>4. OnePlacement'
  BY <1>1, <1>2, Kinds DEF Moved, CInv, OnePlacement, Placing, ShopperLabels, Undoers
<1>5. PlacementKnows'
  BY <1>1, <1>2, Kinds DEF Moved, CInv, PlacementKnows, OnePlacement, Placing, ShopperLabels,
                           Undoers
<1>6. GoodsKept'
  BY <1>1, <1>2, Kinds DEF Moved, CInv, GoodsKept, Going, Undoing, Returning, OnePlacement,
                           Placing, ShopperLabels, Undoers, PlacementKnows
<1>7. MoneyKept'
  BY <1>1, <1>2, Kinds, CheckoutAssumption DEF Moved, CInv, MoneyKept, Going, Undoing,
                                               Returning, RefundStatuses, Captured, Uncaptured,
                                               Undoers, Statuses, OnePlacement, Placing,
                                               ShopperLabels, PlacementKnows, Typed
<1>8. CancellationKnows'
  BY <1>1, <1>2, Kinds DEF Moved, CInv, CancellationKnows, Undoing, Undone, RefundStatuses,
                           OnePlacement, Placing, ShopperLabels, Undoers, PlacementKnows
<1>9. ReturnKnows'
  BY <1>1, <1>2, Kinds DEF Moved, CInv, ReturnKnows, Returning, OnePlacement, Placing,
                           ShopperLabels, Undoers, PlacementKnows
<1>10. CancelledOK'
  BY <1>1, <1>2, Kinds DEF Moved, CInv, CancelledOK, Undone, RefundStatuses, OnePlacement,
                           Placing, ShopperLabels, Undoers, PlacementKnows
<1>11. QED
  BY <1>2, <1>3, <1>4, <1>5, <1>6, <1>7, <1>8, <1>9, <1>10 DEF CInv, Moved

\* The session at the provider, opened or not.
LEMMA PlaceInitialized ==
  ASSUME CInv, NEW p \in Shoppers,
         \/ pay' = "PROVIDER_ORDER_CREATED" /\ provider' = "OPEN"
         \/ pay' \in {"FAILED_RETRYABLE", "FAILED_FINAL"} /\ UNCHANGED provider,
         pc[p] = "initialize", pc' = [pc EXCEPT ![p] = "order"],
         UNCHANGED <<method, hold, due, restocks, points, backBy, refundOf, older, reopened, order, saved, crashes, seen>>
  PROVE  CInv'
<1>1. p \in Processes /\ "order" \in LabelsOf(p)
  BY Kinds DEF ShopperLabels
<1>2. Moved(p, "order")
  BY <1>1, ProcessMoves DEF CInv
<1>3. Typed'
  BY DEF CInv, Typed, Statuses, Captured, Uncaptured, RefundStatuses, Session
<1>4. OnePlacement'
  BY <1>1, <1>2, Kinds DEF Moved, CInv, OnePlacement, Placing, ShopperLabels, Undoers
<1>5. PlacementKnows'
  BY <1>1, <1>2, Kinds DEF Moved, CInv, PlacementKnows, OnePlacement, Placing, ShopperLabels,
                           Undoers
<1>6. GoodsKept'
  BY <1>1, <1>2, Kinds DEF Moved, CInv, GoodsKept, Going, Undoing, Returning, OnePlacement,
                           Placing, ShopperLabels, Undoers, PlacementKnows
<1>7. MoneyKept'
  BY <1>1, <1>2, Kinds DEF Moved, CInv, MoneyKept, Going, Undoing, Returning, RefundStatuses,
                           Captured, Uncaptured, Undoers, Statuses, OnePlacement, Placing,
                           ShopperLabels, PlacementKnows, Returned, Typed, Session
<1>8. CancellationKnows'
  BY <1>1, <1>2, Kinds DEF Moved, CInv, CancellationKnows, Undoing, Undone, RefundStatuses,
                           OnePlacement, Placing, ShopperLabels, Undoers, PlacementKnows
<1>9. ReturnKnows'
  BY <1>1, <1>2, Kinds DEF Moved, CInv, ReturnKnows, Returning, OnePlacement, Placing,
                           ShopperLabels, Undoers, PlacementKnows
<1>10. CancelledOK'
  BY <1>1, <1>2, Kinds DEF Moved, CInv, CancelledOK, Undone, RefundStatuses, OnePlacement,
                           Placing, ShopperLabels, Undoers, PlacementKnows
<1>11. QED
  BY <1>2, <1>3, <1>4, <1>5, <1>6, <1>7, <1>8, <1>9, <1>10 DEF CInv, Moved

\* The order is created.
LEMMA PlaceOrdered ==
  ASSUME CInv, NEW p \in Shoppers,
         order' = IF method = "PAYSTACK" THEN "PENDING_PAYMENT" ELSE "PLACED", pc[p] = "order",
         pc' = [pc EXCEPT ![p] = IF method = "PAYSTACK" THEN "save" ELSE "commit"],
         UNCHANGED <<method, hold, due, restocks, points, backBy, pay, refundOf, provider, older, reopened, saved, crashes, seen>>
  PROVE  CInv'
<1>1. p \in Processes /\ (IF method = "PAYSTACK" THEN "save" ELSE "commit") \in LabelsOf(p)
  BY Kinds DEF ShopperLabels
<1>2. Moved(p, IF method = "PAYSTACK" THEN "save" ELSE "commit")
  BY <1>1, ProcessMoves DEF CInv
<1>3. Typed'
  BY DEF CInv, Typed
<1>4. OnePlacement'
  BY <1>1, <1>2, Kinds DEF Moved, CInv, OnePlacement, Placing, ShopperLabels, Undoers
<1>5. PlacementKnows'
  BY <1>1, <1>2, Kinds DEF Moved, CInv, PlacementKnows, OnePlacement, Placing, ShopperLabels,
                           Undoers
<1>6. GoodsKept'
  BY <1>1, <1>2, Kinds DEF Moved, CInv, GoodsKept, Going, Undoing, Returning, OnePlacement,
                           Placing, ShopperLabels, Undoers, PlacementKnows
<1>7. MoneyKept'
  BY <1>1, <1>2, Kinds DEF Moved, CInv, MoneyKept, Going, Undoing, Returning, RefundStatuses,
                           Captured, Uncaptured, Undoers, Statuses, OnePlacement, Placing,
                           ShopperLabels, PlacementKnows
<1>8. CancellationKnows'
  BY <1>1, <1>2, Kinds DEF Moved, CInv, CancellationKnows, Undoing, Undone, RefundStatuses,
                           OnePlacement, Placing, ShopperLabels, Undoers, PlacementKnows
<1>9. ReturnKnows'
  BY <1>1, <1>2, Kinds DEF Moved, CInv, ReturnKnows, Returning, OnePlacement, Placing,
                           ShopperLabels, Undoers, PlacementKnows
<1>10. CancelledOK'
  BY <1>1, <1>2, Kinds DEF Moved, CInv, CancelledOK, Undone, RefundStatuses, OnePlacement,
                           Placing, ShopperLabels, Undoers, PlacementKnows
<1>11. QED
  BY <1>2, <1>3, <1>4, <1>5, <1>6, <1>7, <1>8, <1>9, <1>10 DEF CInv, Moved

\* Commit of a live reservation.
LEMMA PlaceCommitted ==
  ASSUME CInv, NEW p \in Shoppers, hold \in {"RESERVED", "COMMITTED"}, hold' = "COMMITTED",
         pc[p] = "commit", pc' = [pc EXCEPT ![p] = "save"],
         UNCHANGED <<method, due, restocks, points, backBy, pay, refundOf, provider, older, reopened, order, saved, crashes, seen>>
  PROVE  CInv'
<1>1. p \in Processes /\ "save" \in LabelsOf(p)
  BY Kinds DEF ShopperLabels
<1>2. Moved(p, "save")
  BY <1>1, ProcessMoves DEF CInv
<1>3. Typed'
  BY DEF CInv, Typed
<1>4. OnePlacement'
  BY <1>1, <1>2, Kinds DEF Moved, CInv, OnePlacement, Placing, ShopperLabels, Undoers
<1>5. GoodsKept'
  BY <1>1, <1>2, Kinds DEF Moved, CInv, GoodsKept, OnePlacement, Placing, ShopperLabels,
                           Undoers, PlacementKnows
<1>6. CancellationKnows'
  BY <1>1, <1>2, Kinds DEF Moved, CInv, CancellationKnows, OnePlacement, Placing, ShopperLabels,
                           Undoers, GoodsKept, PlacementKnows
<1>7. CancelledOK'
  BY <1>1, <1>2, Kinds DEF Moved, CInv, CancelledOK, OnePlacement, Placing, ShopperLabels,
                           Undoers, GoodsKept, PlacementKnows
<1>8. PlacementKnows' /\ MoneyKept' /\ ReturnKnows'
  BY <1>1, <1>2, Kinds DEF Moved, CInv, PlacementKnows, MoneyKept, ReturnKnows, Undoers
<1>9. QED
  BY <1>2, <1>3, <1>4, <1>5, <1>6, <1>7, <1>8 DEF CInv, Moved

\* Commit of a reservation that is due.
LEMMA PlaceNotCommitted ==
  ASSUME CInv, NEW p \in Shoppers, hold # "COMMITTED", hold' = "RELEASED", pc[p] = "commit",
         pc' = [pc EXCEPT ![p] = "idle"],
         UNCHANGED <<method, due, restocks, points, backBy, pay, refundOf, provider, older, reopened, order, saved, crashes, seen>>
  PROVE  CInv'
<1>1. p \in Processes /\ "idle" \in LabelsOf(p)
  BY Kinds DEF ShopperLabels
<1>2. Moved(p, "idle")
  BY <1>1, ProcessMoves DEF CInv
<1>3. Typed'
  BY DEF CInv, Typed
<1>4. OnePlacement'
  BY <1>1, <1>2, Kinds DEF Moved, CInv, OnePlacement, Placing, ShopperLabels, Undoers
<1>5. GoodsKept'
  BY <1>1, <1>2, Kinds DEF Moved, CInv, GoodsKept, OnePlacement, Placing, ShopperLabels,
                           Undoers, PlacementKnows
<1>6. CancellationKnows'
  BY <1>1, <1>2, Kinds DEF Moved, CInv, CancellationKnows, OnePlacement, Placing, ShopperLabels,
                           Undoers, GoodsKept, PlacementKnows
<1>7. CancelledOK'
  BY <1>1, <1>2, Kinds DEF Moved, CInv, CancelledOK, OnePlacement, Placing, ShopperLabels,
                           Undoers, GoodsKept, PlacementKnows
<1>8. PlacementKnows' /\ MoneyKept' /\ ReturnKnows'
  BY <1>1, <1>2, Kinds DEF Moved, CInv, PlacementKnows, MoneyKept, ReturnKnows, Undoers
<1>9. QED
  BY <1>2, <1>3, <1>4, <1>5, <1>6, <1>7, <1>8 DEF CInv, Moved

\* The process row and the answer are stored.
LEMMA PlaceSaved ==
  ASSUME CInv, NEW p \in Shoppers, saved' = TRUE, pc[p] = "save",
         pc' = [pc EXCEPT ![p] = "idle"],
         UNCHANGED <<method, hold, due, restocks, points, backBy, pay, refundOf, provider, older, reopened, order, crashes, seen>>
  PROVE  CInv'
<1>1. p \in Processes /\ "idle" \in LabelsOf(p)
  BY Kinds DEF ShopperLabels
<1>2. Moved(p, "idle")
  BY <1>1, ProcessMoves DEF CInv
<1>3. Typed'
  BY DEF CInv, Typed
<1>4. OnePlacement'
  BY <1>1, <1>2, Kinds DEF Moved, CInv, OnePlacement, Placing, ShopperLabels, Undoers,
                           PlacementKnows
<1>5. GoodsKept'
  BY <1>1, <1>2, Kinds DEF Moved, CInv, GoodsKept, PlacementKnows
<1>6. PlacementKnows' /\ MoneyKept' /\ CancellationKnows' /\ ReturnKnows' /\ CancelledOK'
  BY <1>1, <1>2, Kinds DEF Moved, CInv, PlacementKnows, MoneyKept, CancellationKnows,
                           ReturnKnows, CancelledOK, Undoers
<1>7. QED
  BY <1>2, <1>3, <1>4, <1>5, <1>6 DEF CInv, Moved

\* compensate, the stock.
LEMMA PlaceStockReleased ==
  ASSUME CInv, NEW p \in Shoppers, NEW to \in {"reverse", "idle"},
         hold' = IF hold = "RESERVED" THEN "RELEASED" ELSE hold, pc[p] = "release",
         pc' = [pc EXCEPT ![p] = to],
         UNCHANGED <<method, due, restocks, points, backBy, pay, refundOf, provider, older, reopened, order, saved, crashes, seen>>
  PROVE  CInv'
<1>1. p \in Processes /\ to \in LabelsOf(p)
  BY Kinds DEF ShopperLabels
<1>2. Moved(p, to)
  BY <1>1, ProcessMoves DEF CInv
<1>3. Typed'
  BY DEF CInv, Typed
<1>4. OnePlacement'
  BY <1>1, <1>2, Kinds DEF Moved, CInv, OnePlacement, Placing, ShopperLabels, Undoers
<1>5. GoodsKept'
  BY <1>1, <1>2, Kinds DEF Moved, CInv, GoodsKept, OnePlacement, Placing, ShopperLabels,
                           Undoers, PlacementKnows
<1>6. CancellationKnows'
  BY <1>1, <1>2, Kinds DEF Moved, CInv, CancellationKnows, OnePlacement, Placing, ShopperLabels,
                           Undoers, GoodsKept, PlacementKnows
<1>7. CancelledOK'
  BY <1>1, <1>2, Kinds DEF Moved, CInv, CancelledOK, OnePlacement, Placing, ShopperLabels,
                           Undoers, GoodsKept, PlacementKnows
<1>8. PlacementKnows' /\ MoneyKept' /\ ReturnKnows'
  BY <1>1, <1>2, Kinds DEF Moved, CInv, PlacementKnows, MoneyKept, ReturnKnows, Undoers
<1>9. QED
  BY <1>2, <1>3, <1>4, <1>5, <1>6, <1>7, <1>8 DEF CInv, Moved

\* compensate, the points.
LEMMA PlacePointsReversed ==
  ASSUME CInv, NEW p \in Shoppers, points' = "BACK", backBy' = "place", pc[p] = "reverse",
         pc' = [pc EXCEPT ![p] = "idle"],
         UNCHANGED <<method, hold, due, restocks, pay, refundOf, provider, older, reopened, order, saved, crashes, seen>>
  PROVE  CInv'
<1>1. p \in Processes /\ "idle" \in LabelsOf(p)
  BY Kinds DEF ShopperLabels
<1>2. Moved(p, "idle")
  BY <1>1, ProcessMoves DEF CInv
<1>3. Typed'
  BY DEF CInv, Typed, Undoers
<1>4. OnePlacement'
  BY <1>1, <1>2, Kinds DEF Moved, CInv, OnePlacement, Placing, ShopperLabels, Undoers
<1>5. PlacementKnows'
  BY <1>1, <1>2, Kinds DEF Moved, CInv, PlacementKnows, OnePlacement, Placing, ShopperLabels,
                           Undoers
<1>6. GoodsKept' /\ MoneyKept' /\ CancellationKnows' /\ ReturnKnows' /\ CancelledOK'
  BY <1>1, <1>2, Kinds DEF Moved, CInv, GoodsKept, MoneyKept, CancellationKnows, ReturnKnows,
                           CancelledOK, Undoers
<1>7. QED
  BY <1>2, <1>3, <1>4, <1>5, <1>6 DEF CInv, Moved

\* A capture is recorded, by webhook or by reconciliation.
LEMMA Captures ==
  ASSUME CInv, NEW p \in Finalizers, provider = "PAID", pay \in Uncaptured \cup Captured,
         pay' \in Captured, pc[p] = "idle", pc' = [pc EXCEPT ![p] = "payment"],
         UNCHANGED <<method, hold, due, restocks, points, backBy, refundOf, provider, older, reopened, order, saved, crashes, seen>>
  PROVE  CInv'
<1>1. p \in Processes /\ "payment" \in LabelsOf(p)
  BY Kinds DEF FinalizeLabels
<1>2. Moved(p, "payment")
  BY <1>1, ProcessMoves DEF CInv
<1>3. Typed'
  BY DEF CInv, Typed, Statuses, Captured, Uncaptured, RefundStatuses
<1>4. OnePlacement'
  BY <1>1, <1>2, Kinds DEF Moved, CInv, OnePlacement, Placing, ShopperLabels, Undoers
<1>5. PlacementKnows'
  BY <1>1, <1>2, Kinds DEF Moved, CInv, PlacementKnows, OnePlacement, Placing, ShopperLabels,
                           Undoers
<1>6. GoodsKept'
  BY <1>1, <1>2, Kinds DEF Moved, CInv, GoodsKept, Going, Undoing, Returning
<1>7. MoneyKept'
  BY <1>1, <1>2, Kinds DEF Moved, CInv, MoneyKept, Going, Undoing, Returning, RefundStatuses,
                           Captured, Uncaptured, Undoers, Statuses
<1>8. CancellationKnows'
  BY <1>1, <1>2, Kinds DEF Moved, CInv, CancellationKnows, Undoing, Undone, RefundStatuses,
                           MoneyKept, Captured, Uncaptured
<1>9. ReturnKnows'
  BY <1>1, <1>2, Kinds DEF Moved, CInv, ReturnKnows, Returning, MoneyKept, Captured, Uncaptured,
                           RefundStatuses
<1>10. CancelledOK'
  BY <1>1, <1>2, Kinds DEF Moved, CInv, CancelledOK, Undone, RefundStatuses, MoneyKept,
                           Captured, Uncaptured
<1>11. QED
  BY <1>2, <1>3, <1>4, <1>5, <1>6, <1>7, <1>8, <1>9, <1>10 DEF CInv, Moved

\* FinalizeCapturedPayment finds the payment captured.
LEMMA FinalizeReads ==
  ASSUME CInv, NEW p \in Finalizers, saved, pay \in Captured, pc[p] = "payment",
         pc' = [pc EXCEPT ![p] = "stock"],
         UNCHANGED <<method, hold, due, restocks, points, backBy, pay, refundOf, provider, older, reopened, order, saved, crashes, seen>>
  PROVE  CInv'
<1>1. p \in Processes /\ "stock" \in LabelsOf(p)
  BY Kinds DEF FinalizeLabels
<1>2. Moved(p, "stock")
  BY <1>1, ProcessMoves DEF CInv
<1>3. Typed'
  BY DEF CInv, Typed
<1>4. OnePlacement'
  BY <1>1, <1>2, Kinds DEF Moved, CInv, OnePlacement, Placing, ShopperLabels, Undoers
<1>5. PlacementKnows' /\ GoodsKept' /\ MoneyKept' /\ CancellationKnows' /\ ReturnKnows' /\ CancelledOK'
  BY <1>1, <1>2, Kinds DEF Moved, CInv, PlacementKnows, GoodsKept, MoneyKept, CancellationKnows,
                           ReturnKnows, CancelledOK, Undoers
<1>6. QED
  BY <1>2, <1>3, <1>4, <1>5 DEF CInv, Moved

\* It commits the stock,
LEMMA FinalizeCommitted ==
  ASSUME CInv, NEW p \in Finalizers, hold' = "COMMITTED", hold \in {"RESERVED", "COMMITTED"},
         pc[p] = "stock", pc' = [pc EXCEPT ![p] = "order"],
         UNCHANGED <<method, due, restocks, points, backBy, pay, refundOf, provider, older, reopened, order, saved, crashes, seen>>
  PROVE  CInv'
<1>1. p \in Processes /\ "order" \in LabelsOf(p)
  BY Kinds DEF FinalizeLabels
<1>2. Moved(p, "order")
  BY <1>1, ProcessMoves DEF CInv
<1>3. Typed'
  BY DEF CInv, Typed
<1>4. OnePlacement'
  BY <1>1, <1>2, Kinds DEF Moved, CInv, OnePlacement, Placing, ShopperLabels, Undoers
<1>5. PlacementKnows' /\ GoodsKept' /\ MoneyKept' /\ CancellationKnows' /\ ReturnKnows' /\ CancelledOK'
  BY <1>1, <1>2, Kinds DEF Moved, CInv, PlacementKnows, GoodsKept, MoneyKept, CancellationKnows,
                           ReturnKnows, CancelledOK, Undoers
<1>6. QED
  BY <1>2, <1>3, <1>4, <1>5 DEF CInv, Moved

\* or finds it due,
LEMMA FinalizeNotCommitted ==
  ASSUME CInv, NEW p \in Finalizers, hold # "COMMITTED", hold' = "RELEASED", pc[p] = "stock",
         pc' = [pc EXCEPT ![p] = "idle"],
         UNCHANGED <<method, due, restocks, points, backBy, pay, refundOf, provider, older, reopened, order, saved, crashes, seen>>
  PROVE  CInv'
<1>1. p \in Processes /\ "idle" \in LabelsOf(p)
  BY Kinds DEF FinalizeLabels
<1>2. Moved(p, "idle")
  BY <1>1, ProcessMoves DEF CInv
<1>3. Typed'
  BY DEF CInv, Typed
<1>4. OnePlacement'
  BY <1>1, <1>2, Kinds DEF Moved, CInv, OnePlacement, Placing, ShopperLabels, Undoers
<1>5. PlacementKnows' /\ GoodsKept' /\ MoneyKept' /\ CancellationKnows' /\ ReturnKnows' /\ CancelledOK'
  BY <1>1, <1>2, Kinds DEF Moved, CInv, PlacementKnows, GoodsKept, MoneyKept, CancellationKnows,
                           ReturnKnows, CancelledOK, Undoers
<1>6. QED
  BY <1>2, <1>3, <1>4, <1>5 DEF CInv, Moved

\* and places the order.
LEMMA FinalizePlaced ==
  ASSUME CInv, NEW p \in Finalizers,
         order' = IF order = "PENDING_PAYMENT" THEN "PLACED" ELSE order, pc[p] = "order",
         pc' = [pc EXCEPT ![p] = "idle"],
         UNCHANGED <<method, hold, due, restocks, points, backBy, pay, refundOf, provider, older, reopened, saved, crashes, seen>>
  PROVE  CInv'
<1>1. p \in Processes /\ "idle" \in LabelsOf(p)
  BY Kinds DEF FinalizeLabels
<1>2. Moved(p, "idle")
  BY <1>1, ProcessMoves DEF CInv
<1>3. Typed'
  BY DEF CInv, Typed
<1>4. OnePlacement'
  BY <1>1, <1>2, Kinds DEF Moved, CInv, OnePlacement, Placing, ShopperLabels, Undoers
<1>5. PlacementKnows'
  BY <1>1, <1>2, Kinds DEF Moved, CInv, PlacementKnows
<1>6. GoodsKept'
  BY <1>1, <1>2, Kinds DEF Moved, CInv, GoodsKept, Going, Undoing, Returning, MoneyKept
<1>7. MoneyKept'
  BY <1>1, <1>2, Kinds DEF Moved, CInv, MoneyKept, Going, Undoing, Returning, RefundStatuses,
                           Captured, Uncaptured, Undoers, Statuses, GoodsKept
<1>8. CancellationKnows'
  BY <1>1, <1>2, Kinds DEF Moved, CInv, CancellationKnows, Undoing, Undone, RefundStatuses
<1>9. ReturnKnows'
  BY <1>1, <1>2, Kinds DEF Moved, CInv, ReturnKnows, Returning
<1>10. CancelledOK'
  BY <1>1, <1>2, Kinds DEF Moved, CInv, CancelledOK, Undone, RefundStatuses
<1>11. QED
  BY <1>2, <1>3, <1>4, <1>5, <1>6, <1>7, <1>8, <1>9, <1>10 DEF CInv, Moved

\* FinalizeCancellation begins.
LEMMA CancelStarted ==
  ASSUME CInv, NEW p \in Cancellers, NEW to \in {"refund", "void"}, order = "CANCEL_REQUESTED",
         saved, pc[p] = "idle", pc' = [pc EXCEPT ![p] = to],
         UNCHANGED <<method, hold, due, restocks, points, backBy, pay, refundOf, provider, older, reopened, order, saved, crashes, seen>>
  PROVE  CInv'
<1>1. p \in Processes /\ to \in LabelsOf(p)
  BY Kinds DEF CancelLabels
<1>2. Moved(p, to)
  BY <1>1, ProcessMoves DEF CInv, Typed, Statuses, RefundStatuses
<1>3. Typed'
  BY DEF CInv, Typed, Statuses, Captured, Uncaptured, RefundStatuses
<1>4. OnePlacement'
  BY <1>1, <1>2, Kinds DEF Moved, CInv, OnePlacement, Placing, ShopperLabels, Undoers
<1>5. MoneyKept'
  BY <1>1, <1>2, Kinds DEF Moved, CInv, MoneyKept, Undoers
<1>6. CancellationKnows'
  BY <1>1, <1>2, Kinds DEF Moved, CInv, CancellationKnows, Undoing
<1>7. PlacementKnows' /\ GoodsKept' /\ ReturnKnows' /\ CancelledOK'
  BY <1>1, <1>2, Kinds DEF Moved, CInv, PlacementKnows, GoodsKept, ReturnKnows, CancelledOK
<1>8. QED
  BY <1>2, <1>3, <1>4, <1>5, <1>6, <1>7 DEF CInv, Moved

\* The refund was requested before.
LEMMA RefundKnown ==
  ASSUME CInv, NEW p \in Undoers, pay \in RefundStatuses \ {"REFUND_FAILED"}, pc[p] = "refund",
         pc' = [pc EXCEPT ![p] = IF p = "return" THEN "restock" ELSE "hold"],
         seen' = [seen EXCEPT ![p] = IF p = "return" THEN pay ELSE "NONE"],
         UNCHANGED <<method, hold, due, restocks, points, backBy, pay, refundOf, provider, older, reopened, order, saved, crashes>>
  PROVE  CInv'
<1>1. p \in Processes /\ (IF p = "return" THEN "restock" ELSE "hold") \in LabelsOf(p)
  BY Kinds DEF Undoers, CancelLabels, ReturnLabels
<1>2. Moved(p, IF p = "return" THEN "restock" ELSE "hold")
  BY <1>1, ProcessMoves DEF CInv, Typed, Statuses, RefundStatuses
<1>3. Typed'
  BY DEF CInv, Typed, Statuses, Captured, Uncaptured, RefundStatuses
<1>4. OnePlacement'
  BY <1>1, <1>2, Kinds DEF Moved, CInv, OnePlacement, Placing, ShopperLabels, Undoers
<1>5. MoneyKept'
  BY <1>1, <1>2, Kinds DEF Moved, CInv, MoneyKept, Undoers
<1>6. CancellationKnows'
  BY <1>1, <1>2, Kinds DEF Moved, CInv, CancellationKnows, Undone, Captured, Uncaptured,
                           RefundStatuses
<1>7. ReturnKnows'
  BY <1>1, <1>2, Kinds DEF Moved, CInv, ReturnKnows, Undone, Captured, Uncaptured,
                           RefundStatuses
<1>8. PlacementKnows' /\ GoodsKept' /\ CancelledOK'
  BY <1>1, <1>2, Kinds DEF Moved, CInv, PlacementKnows, GoodsKept, CancelledOK
<1>9. QED
  BY <1>2, <1>3, <1>4, <1>5, <1>6, <1>7, <1>8 DEF CInv, Moved

\* The refund is recorded before the provider is called.
LEMMA RefundRequested ==
  ASSUME CInv, NEW p \in Undoers, pay \in Captured \cup {"REFUND_FAILED"},
         pay' = "REFUND_REQUESTED", refundOf' \in {"ALL", "PART"}, pc[p] = "refund",
         pc' = [pc EXCEPT ![p] = "refunding"],
         UNCHANGED <<method, hold, due, restocks, points, backBy, provider, older, reopened, order, saved, crashes, seen>>
  PROVE  CInv'
<1>1. p \in Processes /\ "refunding" \in LabelsOf(p)
  BY Kinds DEF Undoers, CancelLabels, ReturnLabels
<1>2. Moved(p, "refunding")
  BY <1>1, ProcessMoves DEF CInv
<1>3. Typed'
  BY DEF CInv, Typed, Statuses, Captured, Uncaptured, RefundStatuses
<1>4. OnePlacement'
  BY <1>1, <1>2, Kinds DEF Moved, CInv, OnePlacement, Placing, ShopperLabels, Undoers
<1>5. PlacementKnows'
  BY <1>1, <1>2, Kinds DEF Moved, CInv, PlacementKnows, OnePlacement, Placing, ShopperLabels,
                           Undoers
<1>6. GoodsKept'
  BY <1>1, <1>2, Kinds DEF Moved, CInv, GoodsKept, Going, Undoing, Returning
<1>7. MoneyKept'
  BY <1>1, <1>2, Kinds DEF Moved, CInv, MoneyKept, Going, Undoing, Returning, RefundStatuses,
                           Captured, Uncaptured, Undoers, Statuses, CancellationKnows,
                           ReturnKnows, CancelledOK, OnePlacement
<1>8. CancellationKnows'
  BY <1>1, <1>2, Kinds DEF Moved, CInv, CancellationKnows, Undoing, Undone, RefundStatuses,
                           MoneyKept, ReturnKnows, CancelledOK, OnePlacement, Captured,
                           Uncaptured
<1>9. ReturnKnows'
  BY <1>1, <1>2, Kinds DEF Moved, CInv, ReturnKnows, Returning, MoneyKept, CancellationKnows,
                           CancelledOK, OnePlacement, Captured, Uncaptured, RefundStatuses
<1>10. CancelledOK'
  BY <1>1, <1>2, Kinds DEF Moved, CInv, CancelledOK, Undone, RefundStatuses, MoneyKept,
                           CancellationKnows, ReturnKnows, OnePlacement, Captured, Uncaptured
<1>11. QED
  BY <1>2, <1>3, <1>4, <1>5, <1>6, <1>7, <1>8, <1>9, <1>10 DEF CInv, Moved

\* The provider answers.
LEMMA RefundAsked ==
  ASSUME CInv, NEW p \in Undoers, NEW status \in {"REFUND_SUBMITTED", "REFUNDED", "REFUND_FAILED"},
         \/ UNCHANGED provider /\ status # "REFUNDED"
         \/ provider = "PAID" /\ provider' = "PAID_BACK" /\ status # "REFUNDED"
         \/ provider = "PAID" /\ provider' = "SETTLED",
         pc[p] = "refunding", pc' = [pc EXCEPT ![p] = "finalize"],
         seen' = [seen EXCEPT ![p] = status],
         UNCHANGED <<method, hold, due, restocks, points, backBy, pay, refundOf, older, reopened, order, saved, crashes>>
  PROVE  CInv'
<1>1. p \in Processes /\ "finalize" \in LabelsOf(p)
  BY Kinds DEF Undoers, CancelLabels, ReturnLabels
<1>2. Moved(p, "finalize") /\ seen'[p] = status
  BY <1>1, ProcessMoves DEF CInv, Typed, Statuses, RefundStatuses, Labelled
<1>3. Typed'
  BY DEF CInv, Typed, Statuses, Captured, Uncaptured, RefundStatuses, Session
<1>4. OnePlacement'
  BY <1>1, <1>2, Kinds DEF Moved, CInv, OnePlacement, Placing, ShopperLabels, Undoers
<1>5. PlacementKnows'
  BY <1>1, <1>2, Kinds DEF Moved, CInv, PlacementKnows, OnePlacement, Placing, ShopperLabels,
                           Undoers
<1>6. GoodsKept'
  BY <1>1, <1>2, Kinds DEF Moved, CInv, GoodsKept, Going, Undoing, Returning
<1>7. MoneyKept'
  BY <1>1, <1>2, Kinds DEF Moved, CInv, MoneyKept, Going, Undoing, Returning, RefundStatuses,
                           Captured, Uncaptured, Undoers, Statuses, CancellationKnows, Returned,
                           ReturnKnows, OnePlacement, Typed, Session, Labelled
<1>8. CancellationKnows'
  BY <1>1, <1>2, Kinds DEF Moved, CInv, CancellationKnows, Undoing, Undone, RefundStatuses,
                           MoneyKept, Undoers
<1>9. ReturnKnows'
  BY <1>1, <1>2, Kinds DEF Moved, CInv, ReturnKnows, Returning, MoneyKept
<1>10. CancelledOK'
  BY <1>1, <1>2, Kinds DEF Moved, CInv, CancelledOK, Undone, RefundStatuses, MoneyKept, Undoers,
                           CancellationKnows
<1>11. QED
  BY <1>2, <1>3, <1>4, <1>5, <1>6, <1>7, <1>8, <1>9, <1>10 DEF CInv, Moved

\* finalizeRefund, when it writes and when it does not.
LEMMA RefundFinalized ==
  ASSUME CInv, NEW p \in Undoers, NEW to,
         to \in {"idle", IF p = "return" THEN "restock" ELSE "hold"},
         pay' = seen[p] \/ (UNCHANGED pay /\ to = "idle"),
         pc[p] = "finalize", pc' = [pc EXCEPT ![p] = to],
         (p = "return" /\ UNCHANGED seen) \/ seen' = [seen EXCEPT ![p] = "NONE"],
         UNCHANGED <<method, hold, due, restocks, points, backBy, refundOf, provider, older, reopened, order, saved, crashes>>
  PROVE  CInv'
<1>1. p \in Processes /\ to \in LabelsOf(p)
  BY Kinds DEF Undoers, CancelLabels, ReturnLabels
<1>2. Moved(p, to) /\ (seen'[p] = seen[p] \/ seen'[p] = "NONE") /\ seen[p] \in RefundStatuses
  BY <1>1, ProcessMoves DEF CInv, Typed, Statuses, RefundStatuses, Labelled, MoneyKept
<1>3. Typed'
  BY <1>2 DEF CInv, Typed, Statuses, Captured, Uncaptured, RefundStatuses, Session
<1>4. OnePlacement'
  BY <1>1, <1>2, Kinds DEF Moved, CInv, OnePlacement, Placing, ShopperLabels, Undoers
<1>5. PlacementKnows'
  BY <1>1, <1>2, Kinds DEF Moved, CInv, PlacementKnows, OnePlacement, Placing, ShopperLabels,
                           Undoers
<1>6. GoodsKept'
  BY <1>1, <1>2, Kinds DEF Moved, CInv, GoodsKept, Going, Undoing, Returning
<1>7. MoneyKept'
  BY <1>1, <1>2, Kinds DEF Moved, CInv, MoneyKept, Going, Undoing, Returning, RefundStatuses,
                           Captured, Uncaptured, Undoers, Statuses, CancellationKnows, Returned,
                           ReturnKnows, OnePlacement, Typed, Session, Labelled
<1>8. CancellationKnows'
  BY <1>1, <1>2, Kinds DEF Moved, CInv, CancellationKnows, Undoing, Undone, RefundStatuses,
                           MoneyKept, Undoers
<1>9. ReturnKnows'
  BY <1>1, <1>2, Kinds DEF Moved, CInv, ReturnKnows, Returning, MoneyKept
<1>10. CancelledOK'
  BY <1>1, <1>2, Kinds DEF Moved, CInv, CancelledOK, Undone, RefundStatuses, MoneyKept, Undoers,
                           CancellationKnows
<1>11. QED
  BY <1>2, <1>3, <1>4, <1>5, <1>6, <1>7, <1>8, <1>9, <1>10 DEF CInv, Moved

\* An uncaptured payment is cancelled.
LEMMA PaymentVoided ==
  ASSUME CInv, NEW p \in Cancellers, pay \in Uncaptured \cup {"CANCELLED"}, pay' = "CANCELLED",
         pc[p] = "void", pc' = [pc EXCEPT ![p] = "hold"],
         UNCHANGED <<method, hold, due, restocks, points, backBy, refundOf, provider, older, reopened, order, saved, crashes, seen>>
  PROVE  CInv'
<1>1. p \in Processes /\ "hold" \in LabelsOf(p)
  BY Kinds DEF CancelLabels
<1>2. Moved(p, "hold")
  BY <1>1, ProcessMoves DEF CInv
<1>3. Typed'
  BY DEF CInv, Typed, Statuses, Captured, Uncaptured, RefundStatuses
<1>4. OnePlacement'
  BY <1>1, <1>2, Kinds DEF Moved, CInv, OnePlacement, Placing, ShopperLabels, Undoers
<1>5. PlacementKnows'
  BY <1>1, <1>2, Kinds DEF Moved, CInv, PlacementKnows, OnePlacement, Placing, ShopperLabels,
                           Undoers
<1>6. GoodsKept'
  BY <1>1, <1>2, Kinds DEF Moved, CInv, GoodsKept, Going, Undoing, Returning
<1>7. MoneyKept'
  BY <1>1, <1>2, Kinds DEF Moved, CInv, MoneyKept, Going, Undoing, Returning, RefundStatuses,
                           Captured, Uncaptured, Undoers, Statuses, CancellationKnows
<1>8. CancellationKnows'
  BY <1>1, <1>2, Kinds DEF Moved, CInv, CancellationKnows, Undoing, Undone, RefundStatuses
<1>9. ReturnKnows'
  BY <1>1, <1>2, Kinds DEF Moved, CInv, ReturnKnows, Returning, MoneyKept, CancellationKnows,
                           Captured, Uncaptured, RefundStatuses
<1>10. CancelledOK'
  BY <1>1, <1>2, Kinds DEF Moved, CInv, CancelledOK, Undone, RefundStatuses, MoneyKept,
                           CancellationKnows, Captured, Uncaptured
<1>11. QED
  BY <1>2, <1>3, <1>4, <1>5, <1>6, <1>7, <1>8, <1>9, <1>10 DEF CInv, Moved

\* The reservation is read.
LEMMA CancelReadHold ==
  ASSUME CInv, NEW p \in Cancellers, NEW to \in {"release", "restock", "points"},
         to = "points" => hold \notin {"RESERVED", "COMMITTED"}, pc[p] = "hold",
         pc' = [pc EXCEPT ![p] = to],
         UNCHANGED <<method, hold, due, restocks, points, backBy, pay, refundOf, provider, older, reopened, order, saved, crashes, seen>>
  PROVE  CInv'
<1>1. p \in Processes /\ to \in LabelsOf(p)
  BY Kinds DEF CancelLabels
<1>2. Moved(p, to)
  BY <1>1, ProcessMoves DEF CInv
<1>3. Typed'
  BY DEF CInv, Typed
<1>4. OnePlacement'
  BY <1>1, <1>2, Kinds DEF Moved, CInv, OnePlacement, Placing, ShopperLabels, Undoers
<1>5. CancellationKnows'
  BY <1>1, <1>2, Kinds DEF Moved, CInv, CancellationKnows, Typed, OnePlacement, Undoers
<1>6. PlacementKnows' /\ GoodsKept' /\ MoneyKept' /\ ReturnKnows' /\ CancelledOK'
  BY <1>1, <1>2, Kinds DEF Moved, CInv, PlacementKnows, GoodsKept, MoneyKept, ReturnKnows,
                           CancelledOK, Undoers
<1>7. QED
  BY <1>2, <1>3, <1>4, <1>5, <1>6 DEF CInv, Moved

\* It is released.
LEMMA CancelReleased ==
  ASSUME CInv, NEW p \in Cancellers, hold # "COMMITTED", hold' = "RELEASED", pc[p] = "release",
         pc' = [pc EXCEPT ![p] = "points"],
         UNCHANGED <<method, due, restocks, points, backBy, pay, refundOf, provider, older, reopened, order, saved, crashes, seen>>
  PROVE  CInv'
<1>1. p \in Processes /\ "points" \in LabelsOf(p)
  BY Kinds DEF CancelLabels
<1>2. Moved(p, "points")
  BY <1>1, ProcessMoves DEF CInv
<1>3. Typed'
  BY DEF CInv, Typed
<1>4. OnePlacement'
  BY <1>1, <1>2, Kinds DEF Moved, CInv, OnePlacement, Placing, ShopperLabels, Undoers
<1>5. PlacementKnows' /\ GoodsKept' /\ MoneyKept' /\ CancellationKnows' /\ ReturnKnows' /\ CancelledOK'
  BY <1>1, <1>2, Kinds DEF Moved, CInv, PlacementKnows, GoodsKept, MoneyKept, CancellationKnows,
                           ReturnKnows, CancelledOK, Undoers
<1>6. QED
  BY <1>2, <1>3, <1>4, <1>5 DEF CInv, Moved

\* Restock, repeated or for the first time.
LEMMA GoodsBack ==
  ASSUME CInv, NEW p \in Undoers,
         (p \in restocks /\ UNCHANGED restocks) \/ (hold = "COMMITTED" /\ restocks = {} /\ restocks' = {p}),
         pc[p] = "restock", pc' = [pc EXCEPT ![p] = "points"],
         UNCHANGED <<method, hold, due, points, backBy, pay, refundOf, provider, older, reopened, order, saved, crashes, seen>>
  PROVE  CInv'
<1>1. p \in Processes /\ "points" \in LabelsOf(p)
  BY Kinds DEF Undoers, CancelLabels, ReturnLabels
<1>2. Moved(p, "points")
  BY <1>1, ProcessMoves DEF CInv
<1>3. Typed'
  BY DEF CInv, Typed, Undoers
<1>4. OnePlacement'
  BY <1>1, <1>2, Kinds DEF Moved, CInv, OnePlacement, Placing, ShopperLabels, Undoers
<1>5. GoodsKept'
  BY <1>1, <1>2, Kinds DEF Moved, CInv, GoodsKept, CancellationKnows, ReturnKnows, OnePlacement,
                           Undoers
<1>6. CancellationKnows'
  BY <1>1, <1>2, Kinds DEF Moved, CInv, CancellationKnows, ReturnKnows, OnePlacement, Undoers
<1>7. ReturnKnows'
  BY <1>1, <1>2, Kinds DEF Moved, CInv, ReturnKnows, CancellationKnows, OnePlacement, Undoers
<1>8. PlacementKnows' /\ MoneyKept' /\ CancelledOK'
  BY <1>1, <1>2, Kinds DEF Moved, CInv, PlacementKnows, MoneyKept, CancelledOK, Undoers
<1>9. QED
  BY <1>2, <1>3, <1>4, <1>5, <1>6, <1>7, <1>8 DEF CInv, Moved

\* The points are reversed, if they are not back.
LEMMA CancelReversed ==
  ASSUME CInv, NEW p \in Cancellers,
         IF points = "TAKEN" THEN points' = "BACK" /\ backBy' = p ELSE UNCHANGED <<points, backBy>>,
         pc[p] = "points", pc' = [pc EXCEPT ![p] = "order"],
         UNCHANGED <<method, hold, due, restocks, pay, refundOf, provider, older, reopened, order, saved, crashes, seen>>
  PROVE  CInv'
<1>1. p \in Processes /\ "order" \in LabelsOf(p)
  BY Kinds DEF CancelLabels
<1>2. Moved(p, "order")
  BY <1>1, ProcessMoves DEF CInv
<1>3. Typed'
  BY DEF CInv, Typed, Undoers
<1>4. OnePlacement'
  BY <1>1, <1>2, Kinds DEF Moved, CInv, OnePlacement, Placing, ShopperLabels, Undoers
<1>5. PlacementKnows'
  BY <1>1, <1>2, Kinds DEF Moved, CInv, PlacementKnows, OnePlacement, Placing, ShopperLabels,
                           Undoers
<1>6. CancellationKnows'
  BY <1>1, <1>2, Kinds DEF Moved, CInv, CancellationKnows, GoodsKept, Typed, Undoing
<1>7. ReturnKnows'
  BY <1>1, <1>2, Kinds DEF Moved, CInv, ReturnKnows, GoodsKept, Typed, Undoing
<1>8. CancelledOK'
  BY <1>1, <1>2, Kinds DEF Moved, CInv, CancelledOK, GoodsKept, Typed, Undoing
<1>9. GoodsKept' /\ MoneyKept'
  BY <1>1, <1>2, Kinds DEF Moved, CInv, GoodsKept, MoneyKept, Undoers
<1>10. QED
  BY <1>2, <1>3, <1>4, <1>5, <1>6, <1>7, <1>8, <1>9 DEF CInv, Moved

\* The order is cancelled.
LEMMA CancelEnded ==
  ASSUME CInv, NEW p \in Cancellers,
         order' = IF order = "CANCEL_REQUESTED" THEN "CANCELLED" ELSE order, pc[p] = "order",
         pc' = [pc EXCEPT ![p] = "idle"], seen' = [seen EXCEPT ![p] = "NONE"],
         UNCHANGED <<method, hold, due, restocks, points, backBy, pay, refundOf, provider, older, reopened, saved, crashes>>
  PROVE  CInv'
<1>1. p \in Processes /\ "idle" \in LabelsOf(p)
  BY Kinds DEF CancelLabels
<1>2. Moved(p, "idle")
  BY <1>1, ProcessMoves DEF CInv, Typed, Statuses, RefundStatuses
<1>3. Typed'
  BY DEF CInv, Typed, Statuses, Captured, Uncaptured, RefundStatuses
<1>4. OnePlacement'
  BY <1>1, <1>2, Kinds DEF Moved, CInv, OnePlacement, Placing, ShopperLabels, Undoers
<1>5. PlacementKnows'
  BY <1>1, <1>2, Kinds DEF Moved, CInv, PlacementKnows
<1>6. GoodsKept'
  BY <1>1, <1>2, Kinds DEF Moved, CInv, GoodsKept, Going, Undoing, Returning
<1>7. MoneyKept'
  BY <1>1, <1>2, Kinds DEF Moved, CInv, MoneyKept, Going, Undoing, Returning, RefundStatuses,
                           Captured, Uncaptured, Undoers, Statuses
<1>8. CancellationKnows'
  BY <1>1, <1>2, Kinds DEF Moved, CInv, CancellationKnows, Undoing, Undone, RefundStatuses
<1>9. ReturnKnows'
  BY <1>1, <1>2, Kinds DEF Moved, CInv, ReturnKnows, Returning
<1>10. CancelledOK'
  BY <1>1, <1>2, Kinds DEF Moved, CInv, CancelledOK, Undone, RefundStatuses, CancellationKnows,
                           Typed
<1>11. QED
  BY <1>2, <1>3, <1>4, <1>5, <1>6, <1>7, <1>8, <1>9, <1>10 DEF CInv, Moved

\* ApproveReturn begins.
LEMMA ReturnStarted ==
  ASSUME CInv, NEW to \in {"restock", "refund"},
         order \in {"RETURN_REQUESTED", "RETURN_APPROVED", "RETURNED"}, saved,
         order' = IF order = "RETURN_REQUESTED" THEN "RETURN_APPROVED" ELSE order,
         pc["return"] = "idle", pc' = [pc EXCEPT !["return"] = to],
         UNCHANGED <<method, hold, due, restocks, points, backBy, pay, refundOf, provider, older, reopened, saved, crashes, seen>>
  PROVE  CInv'
<1>1. "return" \in Processes /\ to \in LabelsOf("return")
  BY Kinds DEF ReturnLabels
<1>2. Moved("return", to)
  BY <1>1, ProcessMoves DEF CInv
<1>3. Typed'
  BY DEF CInv, Typed
<1>4. OnePlacement'
  BY <1>1, <1>2, Kinds DEF Moved, CInv, OnePlacement, Placing, ShopperLabels, Undoers
<1>5. PlacementKnows'
  BY <1>1, <1>2, Kinds DEF Moved, CInv, PlacementKnows
<1>6. GoodsKept'
  BY <1>1, <1>2, Kinds DEF Moved, CInv, GoodsKept, Going, Undoing, Returning, ReturnKnows
<1>7. MoneyKept'
  BY <1>1, <1>2, Kinds DEF Moved, CInv, MoneyKept, Going, Undoing, Returning, RefundStatuses,
                           Captured, Uncaptured, Undoers, Statuses, ReturnKnows
<1>8. CancellationKnows'
  BY <1>1, <1>2, Kinds DEF Moved, CInv, CancellationKnows, Undoing, Undone, RefundStatuses,
                           ReturnKnows
<1>9. ReturnKnows'
  BY <1>1, <1>2, Kinds DEF Moved, CInv, ReturnKnows, Returning
<1>10. CancelledOK'
  BY <1>1, <1>2, Kinds DEF Moved, CInv, CancelledOK, Undone, RefundStatuses
<1>11. QED
  BY <1>2, <1>3, <1>4, <1>5, <1>6, <1>7, <1>8, <1>9, <1>10 DEF CInv, Moved

\* The points are restored.
LEMMA ReturnPointsBack ==
  ASSUME CInv,
         (points = "TAKEN" /\ points' = "BACK" /\ backBy' = "return") \/ ((points = "NONE" \/ backBy = "return") /\ UNCHANGED <<points, backBy>>),
         pc["return"] = "points", pc' = [pc EXCEPT !["return"] = "received"],
         UNCHANGED <<method, hold, due, restocks, pay, refundOf, provider, older, reopened, order, saved, crashes, seen>>
  PROVE  CInv'
<1>1. "return" \in Processes /\ "received" \in LabelsOf("return")
  BY Kinds DEF ReturnLabels
<1>2. Moved("return", "received")
  BY <1>1, ProcessMoves DEF CInv
<1>3. Typed'
  BY DEF CInv, Typed, Undoers
<1>4. OnePlacement'
  BY <1>1, <1>2, Kinds DEF Moved, CInv, OnePlacement, Placing, ShopperLabels, Undoers
<1>5. PlacementKnows'
  BY <1>1, <1>2, Kinds DEF Moved, CInv, PlacementKnows, OnePlacement, Placing, ShopperLabels,
                           Undoers
<1>6. CancellationKnows'
  BY <1>1, <1>2, Kinds DEF Moved, CInv, CancellationKnows, GoodsKept, Typed, Undoing
<1>7. ReturnKnows'
  BY <1>1, <1>2, Kinds DEF Moved, CInv, ReturnKnows, GoodsKept, Typed, Undoing
<1>8. CancelledOK'
  BY <1>1, <1>2, Kinds DEF Moved, CInv, CancelledOK, GoodsKept, Typed, Undoing
<1>9. GoodsKept' /\ MoneyKept'
  BY <1>1, <1>2, Kinds DEF Moved, CInv, GoodsKept, MoneyKept, Undoers
<1>10. QED
  BY <1>2, <1>3, <1>4, <1>5, <1>6, <1>7, <1>8, <1>9 DEF CInv, Moved

\* The goods are received.
LEMMA ReturnBooked ==
  ASSUME CInv, order' = IF order = "RETURN_APPROVED" THEN "RETURNED" ELSE order,
         pc["return"] = "received",
         pc' = [pc EXCEPT !["return"] = IF method = "WALLET" \/ seen["return"] = "REFUNDED" THEN "record" ELSE "idle"],
         UNCHANGED <<method, hold, due, restocks, points, backBy, pay, refundOf, provider, older, reopened, saved, crashes, seen>>
  PROVE  CInv'
<1>1. "return" \in Processes /\ (IF method = "WALLET" \/ seen["return"] = "REFUNDED" THEN "record" ELSE "idle") \in LabelsOf("return")
  BY Kinds DEF ReturnLabels
<1>2. Moved("return", IF method = "WALLET" \/ seen["return"] = "REFUNDED" THEN "record" ELSE "idle")
  BY <1>1, ProcessMoves DEF CInv
<1>3. Typed'
  BY DEF CInv, Typed
<1>4. OnePlacement'
  BY <1>1, <1>2, Kinds DEF Moved, CInv, OnePlacement, Placing, ShopperLabels, Undoers
<1>5. PlacementKnows'
  BY <1>1, <1>2, Kinds DEF Moved, CInv, PlacementKnows
<1>6. GoodsKept'
  BY <1>1, <1>2, Kinds DEF Moved, CInv, GoodsKept, Going, Undoing, Returning
<1>7. MoneyKept'
  BY <1>1, <1>2, Kinds DEF Moved, CInv, MoneyKept, Going, Undoing, Returning, RefundStatuses,
                           Captured, Uncaptured, Undoers, Statuses, ReturnKnows
<1>8. CancellationKnows'
  BY <1>1, <1>2, Kinds DEF Moved, CInv, CancellationKnows, Undoing, Undone, RefundStatuses
<1>9. ReturnKnows'
  BY <1>1, <1>2, Kinds DEF Moved, CInv, ReturnKnows, Returning, MoneyKept
<1>10. CancelledOK'
  BY <1>1, <1>2, Kinds DEF Moved, CInv, CancelledOK, Undone, RefundStatuses
<1>11. QED
  BY <1>2, <1>3, <1>4, <1>5, <1>6, <1>7, <1>8, <1>9, <1>10 DEF CInv, Moved

\* The refund is booked, by the return or by the webhook.
LEMMA RefundRecorded ==
  ASSUME CInv, NEW p \in {"return", "refund"},
         order' = IF order = "RETURNED" THEN "REFUNDED" ELSE order, pc[p] = "record",
         pc' = [pc EXCEPT ![p] = "idle"], seen' = [seen EXCEPT ![p] = "NONE"],
         UNCHANGED <<method, hold, due, restocks, points, backBy, pay, refundOf, provider, older, reopened, saved, crashes>>
  PROVE  CInv'
<1>1. p \in Processes /\ "idle" \in LabelsOf(p)
  BY Kinds DEF ReturnLabels, WebhookLabels
<1>2. Moved(p, "idle")
  BY <1>1, ProcessMoves DEF CInv, Typed, Statuses, RefundStatuses
<1>3. Typed'
  BY DEF CInv, Typed, Statuses, Captured, Uncaptured, RefundStatuses
<1>4. OnePlacement'
  BY <1>1, <1>2, Kinds DEF Moved, CInv, OnePlacement, Placing, ShopperLabels, Undoers
<1>5. PlacementKnows'
  BY <1>1, <1>2, Kinds DEF Moved, CInv, PlacementKnows
<1>6. GoodsKept'
  BY <1>1, <1>2, Kinds DEF Moved, CInv, GoodsKept, Going, Undoing, Returning
<1>7. MoneyKept'
  BY <1>1, <1>2, Kinds DEF Moved, CInv, MoneyKept, Going, Undoing, Returning, RefundStatuses,
                           Captured, Uncaptured, Undoers, Statuses
<1>8. CancellationKnows'
  BY <1>1, <1>2, Kinds DEF Moved, CInv, CancellationKnows, Undoing, Undone, RefundStatuses
<1>9. ReturnKnows'
  BY <1>1, <1>2, Kinds DEF Moved, CInv, ReturnKnows, Returning
<1>10. CancelledOK'
  BY <1>1, <1>2, Kinds DEF Moved, CInv, CancelledOK, Undone, RefundStatuses
<1>11. QED
  BY <1>2, <1>3, <1>4, <1>5, <1>6, <1>7, <1>8, <1>9, <1>10 DEF CInv, Moved

\* The webhook of a refund, delivered first or again.
LEMMA RefundMade ==
  ASSUME CInv,
         \/ /\ provider \in {"PAID_BACK", "SETTLED"} /\ pay \in {"REFUND_REQUESTED", "REFUND_SUBMITTED"}
            /\ pay' = "REFUNDED" /\ provider' = "TOLD"
         \/ UNCHANGED <<pay, provider>>,
         pc["refund"] = "idle", pc' = [pc EXCEPT !["refund"] = "payment"],
         UNCHANGED <<method, hold, due, restocks, points, backBy, refundOf, older, reopened, order, saved, crashes, seen>>
  PROVE  CInv'
<1>1. "refund" \in Processes /\ "payment" \in LabelsOf("refund")
  BY Kinds DEF WebhookLabels
<1>2. Moved("refund", "payment")
  BY <1>1, ProcessMoves DEF CInv
<1>3. Typed'
  BY DEF CInv, Typed, Statuses, Captured, Uncaptured, RefundStatuses, Session
<1>4. OnePlacement'
  BY <1>1, <1>2, Kinds DEF Moved, CInv, OnePlacement, Placing, ShopperLabels, Undoers
<1>5. PlacementKnows'
  BY <1>1, <1>2, Kinds DEF Moved, CInv, PlacementKnows, OnePlacement, Placing, ShopperLabels,
                           Undoers
<1>6. GoodsKept'
  BY <1>1, <1>2, Kinds DEF Moved, CInv, GoodsKept, Going, Undoing, Returning
<1>7. MoneyKept'
  BY <1>1, <1>2, Kinds DEF Moved, CInv, MoneyKept, Going, Undoing, Returning, RefundStatuses,
                           Captured, Uncaptured, Undoers, Statuses, CancellationKnows, Returned,
                           ReturnKnows, OnePlacement, Typed, Session, Labelled
<1>8. CancellationKnows'
  BY <1>1, <1>2, Kinds DEF Moved, CInv, CancellationKnows, Undoing, Undone, RefundStatuses,
                           MoneyKept, Undoers
<1>9. ReturnKnows'
  BY <1>1, <1>2, Kinds DEF Moved, CInv, ReturnKnows, Returning, MoneyKept
<1>10. CancelledOK'
  BY <1>1, <1>2, Kinds DEF Moved, CInv, CancelledOK, Undone, RefundStatuses, MoneyKept, Undoers,
                           CancellationKnows
<1>11. QED
  BY <1>2, <1>3, <1>4, <1>5, <1>6, <1>7, <1>8, <1>9, <1>10 DEF CInv, Moved

\* FinalizeProviderRefund finds the payment refunded.
LEMMA RefundRead ==
  ASSUME CInv, saved, pay = "REFUNDED", pc["refund"] = "payment",
         pc' = [pc EXCEPT !["refund"] = "record"],
         UNCHANGED <<method, hold, due, restocks, points, backBy, pay, refundOf, provider, older, reopened, order, saved, crashes, seen>>
  PROVE  CInv'
<1>1. "refund" \in Processes /\ "record" \in LabelsOf("refund")
  BY Kinds DEF WebhookLabels
<1>2. Moved("refund", "record")
  BY <1>1, ProcessMoves DEF CInv
<1>3. Typed'
  BY DEF CInv, Typed, Statuses, Captured, Uncaptured, RefundStatuses, Session
<1>4. OnePlacement'
  BY <1>1, <1>2, Kinds DEF Moved, CInv, OnePlacement, Placing, ShopperLabels, Undoers
<1>5. PlacementKnows'
  BY <1>1, <1>2, Kinds DEF Moved, CInv, PlacementKnows, OnePlacement, Placing, ShopperLabels,
                           Undoers
<1>6. GoodsKept'
  BY <1>1, <1>2, Kinds DEF Moved, CInv, GoodsKept, Going, Undoing, Returning
<1>7. MoneyKept'
  BY <1>1, <1>2, Kinds DEF Moved, CInv, MoneyKept, Going, Undoing, Returning, RefundStatuses,
                           Captured, Uncaptured, Undoers, Statuses, CancellationKnows, Returned,
                           ReturnKnows, OnePlacement, Typed, Session, Labelled
<1>8. CancellationKnows'
  BY <1>1, <1>2, Kinds DEF Moved, CInv, CancellationKnows, Undoing, Undone, RefundStatuses,
                           MoneyKept, Undoers
<1>9. ReturnKnows'
  BY <1>1, <1>2, Kinds DEF Moved, CInv, ReturnKnows, Returning, MoneyKept
<1>10. CancelledOK'
  BY <1>1, <1>2, Kinds DEF Moved, CInv, CancelledOK, Undone, RefundStatuses, MoneyKept, Undoers,
                           CancellationKnows
<1>11. QED
  BY <1>2, <1>3, <1>4, <1>5, <1>6, <1>7, <1>8, <1>9, <1>10 DEF CInv, Moved

\* A retry begins,
LEMMA RetryBegun ==
  ASSUME CInv, NEW p \in Retriers, order # "NONE", pay = "FAILED_RETRYABLE",
         pc[p] = "idle", pc' = [pc EXCEPT ![p] = "asking"],
         UNCHANGED <<method, hold, due, restocks, points, backBy, pay, refundOf, provider, older, reopened, order, saved, crashes, seen>>
  PROVE  CInv'
<1>1. p \in Processes /\ "asking" \in LabelsOf(p)
  BY Kinds DEF RetryLabels
<1>2. Moved(p, "asking")
  BY <1>1, ProcessMoves DEF CInv
<1>3. Typed'
  BY DEF CInv, Typed, Statuses, Captured, Uncaptured, RefundStatuses, Session
<1>4. OnePlacement'
  BY <1>1, <1>2, Kinds DEF Moved, CInv, OnePlacement, Placing, ShopperLabels, Undoers
<1>5. PlacementKnows'
  BY <1>1, <1>2, Kinds DEF Moved, CInv, PlacementKnows, OnePlacement, Placing, ShopperLabels,
                           Undoers
<1>6. GoodsKept'
  BY <1>1, <1>2, Kinds DEF Moved, CInv, GoodsKept, Going, Undoing, Returning
<1>7. MoneyKept'
  BY <1>1, <1>2, Kinds DEF Moved, CInv, MoneyKept, Going, Undoing, Returning, RefundStatuses,
                           Captured, Uncaptured, Undoers, Statuses, CancellationKnows, Returned,
                           ReturnKnows, OnePlacement, Typed, Session, Labelled
<1>8. CancellationKnows'
  BY <1>1, <1>2, Kinds DEF Moved, CInv, CancellationKnows, Undoing, Undone, RefundStatuses,
                           MoneyKept, Undoers
<1>9. ReturnKnows'
  BY <1>1, <1>2, Kinds DEF Moved, CInv, ReturnKnows, Returning, MoneyKept
<1>10. CancelledOK'
  BY <1>1, <1>2, Kinds DEF Moved, CInv, CancelledOK, Undone, RefundStatuses, MoneyKept, Undoers,
                           CancellationKnows
<1>11. QED
  BY <1>2, <1>3, <1>4, <1>5, <1>6, <1>7, <1>8, <1>9, <1>10 DEF CInv, Moved

\* and writes over what it finds.
LEMMA RetryEnded ==
  ASSUME CInv, NEW p \in Retriers, pay # "PROVIDER_ORDER_CREATED",
         pay' = "PROVIDER_ORDER_CREATED", provider' = "OPEN", older' = Sessions \ {"NONE"},
         reopened' = (reopened \/ pay # "FAILED_RETRYABLE"),
         pc[p] = "asking", pc' = [pc EXCEPT ![p] = "done"],
         UNCHANGED <<method, hold, due, restocks, points, backBy, refundOf, order, saved, crashes, seen>>
  PROVE  CInv'
<1>1. p \in Processes /\ "done" \in LabelsOf(p)
  BY Kinds DEF RetryLabels
<1>2. Moved(p, "done")
  BY <1>1, ProcessMoves DEF CInv
<1>a. /\ method = "PAYSTACK" /\ order # "NONE"
      /\ reopened = TRUE \/ pay # "FAILED_RETRYABLE" => reopened' = TRUE
      /\ Paid => Paid' /\ (Settled => Settled') /\ (GivenBack' => GivenBack)
  BY Kinds DEF CInv, MoneyKept, OnePlacement, Typed, Returned
<1>3. Typed'
  BY <1>a DEF CInv, Typed, Statuses, Captured, Uncaptured, RefundStatuses, Session
<1>4. OnePlacement'
  BY <1>1, <1>2, <1>a, Kinds DEF Moved, CInv, OnePlacement, Placing, ShopperLabels, Undoers
<1>5. PlacementKnows'
  BY <1>1, <1>2, <1>a, Kinds DEF Moved, CInv, PlacementKnows, OnePlacement, Placing, ShopperLabels,
                           Undoers
<1>6. GoodsKept'
  BY <1>1, <1>2, <1>a, Kinds DEF Moved, CInv, GoodsKept, Going, Undoing, Returning
<1>7. MoneyKept'
  BY <1>1, <1>2, <1>a, Kinds DEF Moved, CInv, MoneyKept, Going, Undoing, Returning, RefundStatuses,
                           Captured, Uncaptured, Undoers, Statuses, CancellationKnows, Returned,
                           ReturnKnows, OnePlacement, Typed, Session, Labelled
<1>8. CancellationKnows'
  BY <1>1, <1>2, <1>a, Kinds DEF Moved, CInv, CancellationKnows, Undoing, Undone, RefundStatuses,
                           MoneyKept, Undoers
<1>9. ReturnKnows'
  BY <1>1, <1>2, <1>a, Kinds DEF Moved, CInv, ReturnKnows, Returning, MoneyKept
<1>10. CancelledOK'
  BY <1>1, <1>2, <1>a, Kinds DEF Moved, CInv, CancelledOK, Undone, RefundStatuses, MoneyKept, Undoers,
                           CancellationKnows
<1>11. QED
  BY <1>2, <1>3, <1>4, <1>5, <1>6, <1>7, <1>8, <1>9, <1>10 DEF CInv, Moved

\* What the customer, the vendor, the clock and the provider do by themselves: no
\* process moves.
LEMMA OutsideKeeps ==
  ASSUME CInv, \/ Pay \/ AttemptFails \/ RequestCancel \/ Reject \/ Deliver \/ RequestReturn
               \/ Lapse \/ Sweep \/ ReturnCollects \/ RefundFails
  PROVE  CInv'
<1> USE DEF CInv, stock, wallet, money, sessions
<1>1. UNCHANGED <<pc, seen, method, saved, crashes, restocks, wallet, refundOf>>
  BY DEF Pay, AttemptFails, RequestCancel, Reject, Deliver, RequestReturn, Moves, Lapse, Sweep,
         ReturnCollects, RefundFails
<1>2. Labelled'
  BY <1>1 DEF Labelled
<1>3. CASE Pay \/ AttemptFails
  <2>1. /\ order # "NONE" /\ UNCHANGED <<hold, due, order, reopened>>
        /\ \/ /\ pay = "PROVIDER_ORDER_CREATED" /\ pay' = "FAILED_RETRYABLE"
              /\ provider # "NONE" /\ UNCHANGED <<provider, older>>
           \/ UNCHANGED <<pay, older>> /\ provider = "OPEN" /\ provider' = "PAID"
           \/ UNCHANGED <<pay, provider>> /\ "OPEN" \in older /\ older' = older \cup {"PAID"}
    <3>1. CASE Pay
      BY <3>1 DEF Pay
    <3>2. CASE AttemptFails
      BY <3>2, <1>1 DEF AttemptFails, OnePlacement, Typed
    <3>3. QED
      BY <1>3, <3>1, <3>2
  <2>2. Typed'
    <3>1. pay' \in Statuses
      BY <2>1 DEF Typed, Statuses, Uncaptured
    <3>2. provider' \in {"NONE"} \cup Session /\ older' \subseteq Session
      BY <2>1 DEF Typed, Session
    <3>3. QED
      BY <1>1, <2>1, <3>1, <3>2 DEF Typed
  <2>3. OnePlacement' /\ PlacementKnows' /\ GoodsKept'
    BY <1>1, <2>1, Kinds DEF OnePlacement, PlacementKnows, GoodsKept, Placing, ShopperLabels, Undoers
  <2>4. MoneyKept'
    BY <1>1, <2>1 DEF MoneyKept, Captured, RefundStatuses, Returned
  <2>5. CancellationKnows' /\ ReturnKnows' /\ CancelledOK'
    BY <1>1, <2>1 DEF CancellationKnows, ReturnKnows, CancelledOK, Undone, RefundStatuses
  <2>6. QED
    BY <1>2, <2>2, <2>3, <2>4, <2>5
<1>4. CASE RequestCancel \/ Reject \/ Deliver \/ RequestReturn
  <2>1. /\ UNCHANGED <<hold, due, pay, provider, older, reopened>>
        /\ order \in {"PENDING_PAYMENT", "PLACED", "COMPLETED"}
        /\ \/ order' = "CANCEL_REQUESTED" \/ order' = "REJECTED"
           \/ order \in Going /\ order' \in {"COMPLETED", "RETURN_REQUESTED"}
    BY <1>4 DEF RequestCancel, Reject, Deliver, RequestReturn, Moves, Going
  <2>2. Typed'
    BY <1>1, <2>1 DEF Typed
  <2>3. OnePlacement' /\ PlacementKnows'
    BY <1>1, <2>1 DEF OnePlacement, PlacementKnows
  <2>4. GoodsKept' /\ MoneyKept'
    BY <1>1, <2>1 DEF GoodsKept, MoneyKept, Going, Undoing, Returning
  <2>5. CancellationKnows' /\ ReturnKnows' /\ CancelledOK'
    BY <1>1, <2>1 DEF CancellationKnows, ReturnKnows, CancelledOK, Undoing, Returning
  <2>6. QED
    BY <1>2, <2>2, <2>3, <2>4, <2>5
<1>5. CASE Lapse \/ Sweep
  <2>1. /\ UNCHANGED <<order, pay, provider, older, reopened>> /\ hold = "RESERVED" /\ due' \in BOOLEAN
        /\ hold' = "RESERVED" \/ hold' = "RELEASED"
    BY <1>5 DEF Lapse, Sweep, Typed
  <2>2. Typed'
    BY <1>1, <2>1 DEF Typed
  <2>3. OnePlacement' /\ PlacementKnows' /\ GoodsKept'
    BY <1>1, <2>1 DEF OnePlacement, PlacementKnows, GoodsKept
  <2>4. MoneyKept' /\ CancellationKnows' /\ ReturnKnows' /\ CancelledOK'
    BY <1>1, <2>1 DEF MoneyKept, CancellationKnows, ReturnKnows, CancelledOK
  <2>5. QED
    BY <1>2, <2>2, <2>3, <2>4
<1>6. CASE ReturnCollects
  <2>1. /\ UNCHANGED <<hold, due, order, provider, older, reopened>> /\ pc["return"] = "refund"
        /\ pay = "AUTHORISATION_PENDING" /\ pay' = "CAPTURED"
    BY <1>6 DEF ReturnCollects
  <2>2. Typed'
    BY <1>1, <2>1 DEF Typed, Statuses, Captured
  <2>3. OnePlacement' /\ PlacementKnows' /\ GoodsKept'
    BY <1>1, <2>1, Kinds DEF OnePlacement, PlacementKnows, GoodsKept, Placing, ShopperLabels, Undoers
  <2>4. MoneyKept' /\ CancellationKnows' /\ ReturnKnows' /\ CancelledOK'
    BY <1>1, <2>1 DEF MoneyKept, CancellationKnows, ReturnKnows, CancelledOK, Captured, Undone, RefundStatuses
  <2>5. QED
    BY <1>2, <2>2, <2>3, <2>4
<1>7. CASE RefundFails
  <2>1. /\ UNCHANGED <<hold, due, order, older, reopened>> /\ provider = "PAID_BACK" /\ provider' = "PAID"
        /\ pay \in {"REFUND_REQUESTED", "REFUND_SUBMITTED"} /\ pay' = "REFUND_FAILED"
    BY <1>7 DEF RefundFails
  <2>2. Typed'
    BY <1>1, <2>1 DEF Typed, Statuses, RefundStatuses, Captured, Uncaptured, Session
  <2>3. OnePlacement' /\ PlacementKnows' /\ GoodsKept'
    BY <1>1, <2>1 DEF OnePlacement, PlacementKnows, GoodsKept, Placing, ShopperLabels
  <2>4. MoneyKept' /\ CancellationKnows' /\ ReturnKnows' /\ CancelledOK'
    BY <1>1, <2>1 DEF MoneyKept, CancellationKnows, ReturnKnows, CancelledOK, Captured, Undone,
       RefundStatuses, Going, Undoing, Returning, Returned
  <2>5. QED
    BY <1>2, <2>2, <2>3, <2>4
<1>8. QED
  BY <1>3, <1>4, <1>5, <1>6, <1>7

\* Place, with its compensation.
LEMMA PlaceKeeps ==
  ASSUME CInv, NEW p \in Shoppers, Place(p)
  PROVE  CInv'
<1> USE DEF Goto, stock, wallet, money, sessions
<1>0. p \in Processes
  BY Kinds
<1>1. CASE PlaceStarts(p)
  BY <1>1, PlaceBegun DEF PlaceStarts
<1>2. CASE PlaceReserves(p)
  BY <1>0, <1>2, PlaceReserved, GivesUp DEF PlaceReserves
<1>3. CASE PlaceRedeems(p)
  BY <1>3, PlaceRedeemed, PlaceReleases DEF PlaceRedeems
<1>4. CASE PlaceCreatesPayment(p)
  BY <1>4, PlacePays, PlaceReleases DEF PlaceCreatesPayment
<1>5. CASE PlaceInitializes(p)
  BY <1>5, PlaceInitialized, PlaceReleases DEF PlaceInitializes
<1>6. CASE PlaceCreatesOrder(p)
  BY <1>6, PlaceOrdered, PlaceReleases DEF PlaceCreatesOrder
<1>7. CASE PlaceCommits(p)
  BY <1>7, PlaceCommitted, PlaceNotCommitted DEF PlaceCommits, CommitStock, Committable
<1>8. CASE SavePlace(p)
  BY <1>8, PlaceSaved DEF SavePlace
<1>9. CASE CompensateStock(p)
  BY <1>9, PlaceStockReleased DEF CompensateStock
<1>10. CASE CompensatePoints(p)
  BY <1>10, PlacePointsReversed DEF CompensatePoints
<1>11. QED
  BY <1>1, <1>2, <1>3, <1>4, <1>5, <1>6, <1>7, <1>8, <1>9, <1>10 DEF Place

\* The webhook of a capture and the recovery loop.
LEMMA FinalizeKeeps ==
  ASSUME CInv, CaptureWebhook \/ Reconcile \/ \E p \in Finalizers : FinalizeCapturedPayment(p)
  PROVE  CInv'
<1> USE DEF Goto, stock, wallet, money, sessions
<1>1. CASE CaptureWebhook
  <2>1. "webhook" \in Finalizers /\ pay' \in Captured /\ pay \in Uncaptured \cup Captured
    BY <1>1 DEF CaptureWebhook, Finalizers, Captured, Uncaptured
  <2>2. QED
    BY <1>1, <2>1, Captures DEF CaptureWebhook
<1>2. CASE Reconcile
  <2>1. "recovery" \in Finalizers /\ pay' \in Captured /\ pay \in Uncaptured \cup Captured
    BY <1>2 DEF Reconcile, Finalizers, Captured, Uncaptured
  <2>2. QED
    BY <1>2, <2>1, Captures DEF Reconcile
<1>3. ASSUME NEW p \in Finalizers, FinalizeCapturedPayment(p) PROVE CInv'
  <2>0. p \in Processes
    BY Kinds
  <2>1. CASE FinalizeReadsPayment(p)
    BY <2>0, <2>1, FinalizeReads, GivesUp DEF FinalizeReadsPayment
  <2>2. CASE FinalizeCommits(p)
    BY <2>2, FinalizeCommitted, FinalizeNotCommitted DEF FinalizeCommits, CommitStock, Committable
  <2>3. CASE FinalizePlaces(p)
    BY <2>3, FinalizePlaced DEF FinalizePlaces
  <2>4. QED
    BY <1>3, <2>1, <2>2, <2>3 DEF FinalizeCapturedPayment
<1>4. QED
  BY <1>1, <1>2, <1>3

\* RequestRefundWithProvider and Restock, of a cancellation or of a return.
LEMMA UndoKeeps ==
  ASSUME CInv, NEW p \in Undoers, NEW next, next = IF p = "return" THEN "restock" ELSE "hold",
         \/ RequestRefund(p, "refund", next) /\ UNCHANGED <<stock, wallet, sessions, order>>
         \/ AskRefund(p)
         \/ finalizeRefund(p, next)
         \/ Restock(p, "points")
  PROVE  CInv'
<1> USE DEF Goto, stock, wallet, money, sessions
<1>0. p \in Processes
  BY Kinds DEF Undoers
<1>1. CASE RequestRefund(p, "refund", next) /\ UNCHANGED <<stock, wallet, sessions, order>>
  <2>1. CASE pay \in RefundStatuses \ {"REFUND_FAILED"} /\ Answered(p, pay) /\ Goto(p, "refund", next) /\ UNCHANGED <<pay, refundOf>>
    BY <1>1, <2>1, RefundKnown DEF Answered, Note
  <2>2. CASE /\ pay \in Captured \cup {"REFUND_FAILED"} /\ pay' = "REFUND_REQUESTED"
             /\ refundOf' = AmountOf(p) /\ Goto(p, "refund", "refunding") /\ UNCHANGED seen
    BY <1>1, <2>2, RefundRequested DEF AmountOf
  <2>3. CASE Goto(p, "refund", "idle") /\ Forget(p) /\ UNCHANGED <<pay, refundOf>>
    <3>1. crashes' \in 0..MaxCrashes
      BY <2>3 DEF CInv, Typed
    <3>2. QED
      BY <1>0, <1>1, <2>3, <3>1, GivesUp DEF Forget
  <2>4. QED
    BY <1>1, <2>1, <2>2, <2>3 DEF RequestRefund
<1>2. CASE AskRefund(p)
  <2>1. PICK status \in {"REFUND_SUBMITTED", "REFUNDED", "REFUND_FAILED"} :
          /\ \/ UNCHANGED provider /\ status # "REFUNDED"
             \/ provider = "PAID" /\ provider' = "PAID_BACK" /\ status # "REFUNDED"
             \/ provider = "PAID" /\ provider' = "SETTLED"
          /\ seen' = [seen EXCEPT ![p] = status]
    BY <1>2 DEF AskRefund, Note
  <2>2. QED
    BY <1>2, <2>1, RefundAsked DEF AskRefund
<1>3. CASE finalizeRefund(p, next)
  <2>1. CASE refundOf = AmountOf(p) /\ seen[p] # "REFUND_FAILED"
    <3>1. (p = "return" /\ UNCHANGED seen) \/ seen' = [seen EXCEPT ![p] = "NONE"]
      BY <1>0, <1>3, <2>1 DEF finalizeRefund, Answered, Note, CInv, Labelled
    <3>2. QED
      BY <1>3, <2>1, <3>1, RefundFinalized DEF finalizeRefund
  <2>2. CASE ~(refundOf = AmountOf(p) /\ seen[p] # "REFUND_FAILED")
    BY <1>3, <2>2, RefundFinalized DEF finalizeRefund, Forget
  <2>3. QED
    BY <2>1, <2>2
<1>4. CASE Restock(p, "points")
  BY <1>0, <1>4, GoodsBack, GivesUp DEF Restock
<1>5. QED
  BY <1>1, <1>2, <1>3, <1>4

\* FinalizeCancellation.
LEMMA CancelKeeps ==
  ASSUME CInv, NEW p \in Cancellers, FinalizeCancellation(p)
  PROVE  CInv'
<1>0. p \in Processes /\ p \in Undoers /\ p # "return"
  BY Kinds DEF Undoers
<1>1. CASE CancelRefunds(p) \/ AskRefund(p) \/ finalizeRefund(p, "hold") \/ Restock(p, "points")
  BY <1>0, <1>1, UndoKeeps DEF CancelRefunds
<1> USE DEF Goto, stock, wallet, money, sessions
<1>2. CASE CancelStarts(p)
  BY <1>2, CancelStarted DEF CancelStarts
<1>3. CASE CancelUncaptured(p)
  BY <1>0, <1>3, PaymentVoided, GivesUp DEF CancelUncaptured
<1>4. CASE CancelReadsHold(p)
  BY <1>4, CancelReadHold DEF CancelReadsHold
<1>5. CASE CancelReleases(p)
  BY <1>0, <1>5, CancelReleased, GivesUp DEF CancelReleases
<1>6. CASE CancelReverses(p)
  BY <1>6, CancelReversed DEF CancelReverses
<1>7. CASE CancelEnds(p)
  BY <1>7, CancelEnded DEF CancelEnds, Forget
<1>8. QED
  BY <1>1, <1>2, <1>3, <1>4, <1>5, <1>6, <1>7 DEF FinalizeCancellation

\* ApproveReturn, but for ReturnCollects.
LEMMA ReturnKeeps ==
  ASSUME CInv, ApproveReturn
  PROVE  CInv'
<1>0. "return" \in Processes /\ "return" \in Undoers
  BY Kinds DEF Undoers
<1>1. CASE ReturnRefunds \/ AskRefund("return") \/ finalizeRefund("return", "restock") \/ Restock("return", "points")
  BY <1>0, <1>1, UndoKeeps DEF ReturnRefunds
<1> USE DEF Goto, stock, wallet, money, sessions
<1>2. CASE ReturnStarts
  BY <1>2, ReturnStarted DEF ReturnStarts
<1>3. CASE ReturnCollects
  BY <1>3, OutsideKeeps
<1>4. CASE ReturnRestoresPoints
  BY <1>0, <1>4, ReturnPointsBack, GivesUp DEF ReturnRestoresPoints
<1>5. CASE ReturnReceived
  BY <1>5, ReturnBooked DEF ReturnReceived
<1>6. CASE RecordRefund("return")
  BY <1>6, RefundRecorded DEF RecordRefund, Forget
<1>7. QED
  BY <1>1, <1>2, <1>3, <1>4, <1>5, <1>6 DEF ApproveReturn

\* RetryProvider.
LEMMA RetryKeeps ==
  ASSUME CInv, NEW p \in Retriers, RetryPayment(p)
  PROVE  CInv'
<1> USE DEF Goto, stock, wallet, money, sessions
<1>0. p \in Processes
  BY Kinds
<1>1. CASE RetryStarts(p)
  BY <1>1, RetryBegun DEF RetryStarts
<1>2. CASE RetryFinalizes(p)
  BY <1>2, RetryEnded DEF RetryFinalizes
<1>3. CASE RetryFails(p)
  BY <1>0, <1>3, GivesUp DEF RetryFails
<1>4. QED
  BY <1>1, <1>2, <1>3 DEF RetryPayment

\* Every step keeps the invariant.
LEMMA CheckoutStep ==
  ASSUME CInv, [Next]_vars
  PROVE  CInv'
<1>1. CASE UNCHANGED vars
  BY <1>1 DEF vars, stock, wallet, money, sessions, CInv, Typed, Labelled, OnePlacement, PlacementKnows,
     GoodsKept, MoneyKept, CancellationKnows, ReturnKnows, CancelledOK
<1>2. CASE RefundWebhook \/ RecordRefund("refund")
  BY <1>2, RefundMade, RefundRecorded DEF RefundWebhook, RecordRefund, Forget, Goto, stock, wallet, money, sessions
<1>3. ASSUME NEW p \in Processes, Crash(p) PROVE CInv'
  <2>1. crashes' \in 0..MaxCrashes
    BY <1>3, CheckoutAssumption DEF Crash, CInv, Typed
  <2>2. QED
    BY <1>3, <2>1, GivesUp DEF Crash, Forget, stock, wallet, money, sessions
<1>4. CASE FinalizeProviderRefund
  <2>1. "refund" \in Processes
    BY Kinds
  <2>2. QED
    BY <1>4, <2>1, RefundRead, GivesUp DEF FinalizeProviderRefund, Goto, stock, wallet, money, sessions
<1>5. QED
  BY <1>1, <1>2, <1>3, <1>4, OutsideKeeps, PlaceKeeps, FinalizeKeeps, CancelKeeps, ReturnKeeps, RetryKeeps DEF Next

\* The invariant holds.
LEMMA CheckoutInvariant == Spec => []CInv
<1>1. Init => CInv
  <2> SUFFICES ASSUME Init PROVE CInv
    OBVIOUS
  <2> USE DEF Init
  <2>0. 0 \in 0..MaxCrashes
    BY CheckoutAssumption
  <2>1. Typed
    BY <2>0 DEF Typed, Statuses
  <2>2. Labelled
    BY DEF Labelled, Labels, Statuses, LabelsOf, ShopperLabels, CancelLabels, FinalizeLabels, ReturnLabels, RetryLabels, WebhookLabels, Processes
  <2>3. \A p \in Processes : pc[p] = "idle" /\ seen[p] = "NONE"
    OBVIOUS
  <2>4. OnePlacement /\ PlacementKnows
    BY <2>3, Kinds DEF OnePlacement, PlacementKnows, Placing, Undoers
  <2>5. GoodsKept /\ MoneyKept
    BY <2>3, Kinds DEF GoodsKept, MoneyKept, Going, Undoers, RefundStatuses, Returned
  <2>6. CancellationKnows /\ ReturnKnows /\ CancelledOK
    BY <2>3, Kinds DEF CancellationKnows, ReturnKnows, CancelledOK
  <2>7. QED
    BY <2>1, <2>2, <2>4, <2>5, <2>6 DEF CInv
<1>2. CInv /\ [Next]_vars => CInv'
  BY CheckoutStep
<1>3. QED
  BY <1>1, <1>2, PTL DEF Spec

\* PlacedIsBacked of Checkout (Place, FinalizeCapturedPayment, and all who undo): an
\* order that goes ahead has its goods, sold to it alone, and one that is paid in
\* advance its money, however requests, webhooks, recovery and crashes interleave.
THEOREM PlacementsBacked == Spec => []PlacedIsBacked
<1>1. CInv => PlacedIsBacked
  <2> SUFFICES ASSUME CInv PROVE PlacedIsBacked
    OBVIOUS
  <2>1. IsFiniteSet(restocks) /\ Cardinality(restocks) <= 1
    <3>1. CASE restocks = {}
      BY <3>1, FS_EmptySet
    <3>2. ASSUME NEW x \in restocks PROVE Cardinality(restocks) = 1 /\ IsFiniteSet(restocks)
      <4>1. restocks = {x}
        BY <3>2 DEF CInv, Typed
      <4>2. QED
        BY <4>1, FS_Singleton
    <3>3. QED
      BY <3>1, <3>2
  <2>2. TypeOK
    BY <2>1 DEF TypeOK, CInv, Typed, Labelled, Statuses, Undoers
  <2>3. PlacedHasStock /\ PlacedIsPaid
    BY DEF PlacedHasStock, PlacedIsPaid, CInv, GoodsKept, MoneyKept, Going, Undoing, Returning
  <2>4. QED
    BY <2>2, <2>3 DEF PlacedIsBacked
<1>2. QED
  BY <1>1, CheckoutInvariant, PTL

\* UndoneAsAWhole of Checkout (FinalizeCancellation, ApproveReturn): goods and points
\* of a cancelled or refunded order are back, its payment is void, asked back or
\* returned unless a late retry opened it again, and no other order's money goes
\* back, whoever retries or dies on the way.
THEOREM UndoingComplete == Spec => []UndoneAsAWhole
<1>1. CInv => UndoneAsAWhole
  <2> SUFFICES ASSUME CInv PROVE UndoneAsAWhole
    OBVIOUS
  <2>1. CancelledKeepsNothing
    BY DEF CInv, CancelledOK, CancelledKeepsNothing, Undone
  <2>2. RefundHasReason
    BY DEF CInv, MoneyKept, RefundHasReason, Undoing, Returning, RefundStatuses
  <2>3. RefundedIsSettled
    BY DEF CInv, Typed, ReturnKnows, RefundedIsSettled
  <2>4. QED
    BY <2>1, <2>2, <2>3 DEF UndoneAsAWhole
<1>2. QED
  BY <1>1, CheckoutInvariant, PTL
=============================================================================
