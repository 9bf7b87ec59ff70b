-------------------------------- MODULE Cart --------------------------------
(***************************************************************************)
(* A customer's cart (internal/commerce, PostgresService).                 *)
(*                                                                         *)
(* The cart's row and its lines are read by two statements, so another     *)
(* change may come between them; every line is then resolved against the   *)
(* catalogue, which takes time; and only then is the cart locked and       *)
(* written, or, for a priced cart, its revision read once more.            *)
(***************************************************************************)
EXTENDS Naturals

CONSTANTS
  Variants, Quantities,
  Keys,               \* idempotency keys
  Calls,              \* calls being served at a time
  MaxRevision         \* bound on the cart's revision

VARIABLES
  cart,        \* commerce.carts and cart_items
  sold,        \* the variants the catalogue publishes as available
  replay,      \* commerce.idempotency_records: the request a key was used for
  call,        \* calls being served: what they ask, what they have read
  priced       \* the cart as Price last answered it

vars == <<cart, sold, replay, call, priced>>

emptyCart == [revision |-> 0, items |-> [v \in Variants |-> 0]]
NoRequest == [kind |-> "NONE", key |-> "NONE", expected |-> 0, variant |-> "NONE", quantity |-> 0]
NoCall == [asks |-> NoRequest, seen |-> emptyCart, step |-> "IDLE"]

Init ==
  /\ cart = emptyCart /\ sold = Variants /\ replay = [k \in Keys |-> NoRequest]
  /\ call = [c \in Calls |-> NoCall] /\ priced = emptyCart

Held(items) == {v \in Variants : items[v] > 0}

\* The catalogue publishes a variant or withdraws it.
Offer(v) ==
  /\ sold' = IF v \in sold THEN sold \ {v} ELSE sold \union {v}
  /\ UNCHANGED <<cart, replay, call, priced>>

Finish(c) == call' = [call EXCEPT ![c] = NoCall]
Advance(c, step) == call' = [call EXCEPT ![c].step = step]

-----------------------------------------------------------------------------
(* A call reads the cart: first its row, then its lines.                   *)

\* loadCartReplay refuses a key that was used for another request.
Asked(c, request) ==
  /\ call[c] = NoCall
  /\ request.kind = "CHANGE" => replay[request.key] = NoRequest
  /\ request.expected = cart.revision
  /\ call' = [call EXCEPT ![c] = [asks |-> request, step |-> "ROW",
                                  seen |-> [emptyCart EXCEPT !.revision = cart.revision]]]
  /\ UNCHANGED <<cart, sold, replay, priced>>

ReadLines(c) ==
  /\ call[c].step = "ROW"
  /\ call' = [call EXCEPT ![c] = [@ EXCEPT !.seen.items = cart.items, !.step = "READ"]]
  /\ UNCHANGED <<cart, sold, replay, priced>>

Wanted(c) ==
  IF call[c].asks.kind = "PRICE" THEN call[c].seen.items
  ELSE [call[c].seen.items EXCEPT ![call[c].asks.variant] = call[c].asks.quantity]

\* resolveLines: a line that the catalogue does not have refuses the call.
resolveLines(c) ==
  /\ call[c].step = "READ"
  /\ IF Held(Wanted(c)) \subseteq sold THEN Advance(c, "RESOLVED") ELSE Finish(c)
  /\ UNCHANGED <<cart, sold, replay, priced>>

-----------------------------------------------------------------------------
(* Change, under the advisory lock of the cart.                            *)

Change(c) ==
  LET asks == call[c].asks
  IN  /\ call[c].step = "RESOLVED" /\ asks.kind = "CHANGE"
      /\ IF replay[asks.key] = NoRequest /\ cart.revision = asks.expected /\ asks.expected < MaxRevision
         THEN /\ cart' = [revision |-> asks.expected + 1, items |-> Wanted(c)]
              /\ replay' = [replay EXCEPT ![asks.key] = asks]
         ELSE UNCHANGED <<cart, replay>>
      /\ Finish(c) /\ UNCHANGED <<sold, priced>>

\* A record beyond its TTL is deleted, and its key is new again.
ReplayExpires(k) ==
  /\ replay[k] # NoRequest /\ replay' = [replay EXCEPT ![k] = NoRequest]
  /\ UNCHANGED <<cart, sold, call, priced>>

\* Mutant: the revision is not read again.
PriceAtOnce(c) ==
  /\ call[c].step = "RESOLVED" /\ call[c].asks.kind = "PRICE"
  /\ priced' = call[c].seen
  /\ Finish(c) /\ UNCHANGED <<cart, sold, replay>>

\* Price reads the revision once more before it answers.
Price(c) ==
  /\ call[c].step = "RESOLVED" /\ call[c].asks.kind = "PRICE"
  /\ priced' = IF cart.revision = call[c].asks.expected THEN call[c].seen ELSE priced
  /\ Finish(c) /\ UNCHANGED <<cart, sold, replay>>

CallDies(c) ==
  /\ call[c] # NoCall /\ Finish(c)
  /\ UNCHANGED <<cart, sold, replay, priced>>

ChangeRequests ==
  [kind : {"CHANGE"}, key : Keys, expected : 0..MaxRevision, variant : Variants, quantity : Quantities]
PriceRequests == {[NoRequest EXCEPT !.kind = "PRICE", !.expected = r] : r \in 0..MaxRevision}

Next ==
  \/ \E v \in Variants : Offer(v)
  \/ \E k \in Keys : ReplayExpires(k)
  \/ \E c \in Calls :
       \/ \E r \in ChangeRequests \union PriceRequests : Asked(c, r)
       \/ ReadLines(c) \/ resolveLines(c) \/ Change(c) \/ Price(c) \/ CallDies(c)

Spec == Init /\ [][Next]_vars

-----------------------------------------------------------------------------
(* What a cart promises, as the in-memory Service states it: a change is   *)
(* applied to the revision it names or not at all, and a priced cart is    *)
(* the cart of the revision the caller names.  A key that was seen before  *)
(* changes nothing, so keys do not appear here.                            *)

MemoryInit == cart = emptyCart /\ priced = emptyCart

MemoryChange(expected, v, quantity) ==
  /\ expected = cart.revision /\ expected < MaxRevision
  /\ cart' = [revision |-> expected + 1, items |-> [cart.items EXCEPT ![v] = quantity]]
  /\ UNCHANGED priced

MemoryPrice(expected) == expected = cart.revision /\ priced' = cart /\ UNCHANGED cart

MemoryNext ==
  \E r \in 0..MaxRevision :
    \/ \E v \in Variants, q \in Quantities : MemoryChange(r, v, q)
    \/ MemoryPrice(r)

\* Although a call may read the row of one revision and the lines of the next, the
\* carts it writes and the priced carts it answers are those of the in-memory
\* service: a change applies to the lines of the revision it names, and the lines
\* priced are those of the revision asked for.
CartImplementsMemory == MemoryInit /\ [][MemoryNext]_<<cart, priced>>

\* Does not hold.  Whatever is in the cart, some line can be removed: two lines
\* withdrawn from the catalogue hold each other, for each is resolved when the
\* other is removed.
CanBeEmptied ==
  Held(cart.items) # {} =>
    \E v \in Held(cart.items) : Held([cart.items EXCEPT ![v] = 0]) \subseteq sold
=============================================================================
