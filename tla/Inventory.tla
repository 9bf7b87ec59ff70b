----------------------------- MODULE Inventory -----------------------------
(***************************************************************************)
(* Stock reservations (internal/inventory).  Every operation of the        *)
(* Postgres service is one transaction that locks what it reads, so here   *)
(* it is one atomic step; InventoryTx opens the transactions up and shows  *)
(* that the row locks justify this.                                        *)
(*                                                                         *)
(* A variable is a column: stock is inventory.stock.available_quantity,    *)
(* state and expiresAt are columns of inventory.reservations (whose        *)
(* idempotency key is unique, so a reservation is named by its key), lines *)
(* and restocked are the two columns of inventory.reservation_lines, and   *)
(* restocks is the table inventory.restock_requests.  A call that returns  *)
(* an error or a stored replay changes no table and is no step.            *)
(***************************************************************************)
EXTENDS Integers, FiniteSets, Sums

CONSTANTS
  Variants,       \* product variants of one tenant and country
  MaxKey,         \* reservation idempotency keys are 1..MaxKey
  MaxRestockKey,  \* restock idempotency keys are 1..MaxRestockKey
  InitialStock,   \* quantity on the shelf before the first reservation
  MaxQuantity,    \* largest quantity of one normalised line (999 in the code)
  MaxHold,        \* longest hold a caller may ask for (30 minutes)
  ClockLag,       \* a transaction commits at most this long after it read
                  \* the clock (inventoryOperationTimeout)
  Horizon         \* bound on the clock

ASSUME InventoryAssumption ==
  /\ MaxKey \in Nat /\ MaxRestockKey \in Nat
  /\ InitialStock \in [Variants -> Nat]
  /\ MaxQuantity \in Nat /\ MaxHold \in Nat /\ ClockLag \in Nat /\ Horizon \in Nat

Keys == 1..MaxKey
RestockKeys == 1..MaxRestockKey

VARIABLES stock, state, expiresAt, lines, restocked, restocks, now

vars == <<stock, state, expiresAt, lines, restocked, restocks, now>>

NoLines == [v \in Variants |-> 0]

\* What normalizeRequest and normalizeRestock return for a valid request: the
\* requested lines merged to one positive quantity per variant asked for.
Lines == {l \in [Variants -> 0..MaxQuantity] : \E v \in Variants : l[v] > 0}

NoRestock == [of |-> 0, lines |-> NoLines]

TypeOK ==
  /\ stock \in [Variants -> Nat]
  /\ state \in [Keys -> {"NONE", "RESERVED", "COMMITTED", "RELEASED"}]
  /\ expiresAt \in [Keys -> Nat]
  /\ lines \in [Keys -> [Variants -> Nat]]
  /\ restocked \in [Keys -> [Variants -> Nat]]
  /\ restocks \in [RestockKeys -> [of : 0..MaxKey, lines : [Variants -> Nat]]]
  /\ now \in Nat

Init ==
  /\ stock = InitialStock
  /\ state = [k \in Keys |-> "NONE"]
  /\ expiresAt = [k \in Keys |-> 0]
  /\ lines = [k \in Keys |-> NoLines]
  /\ restocked = [k \in Keys |-> NoLines]
  /\ restocks = [q \in RestockKeys |-> NoRestock]
  /\ now = 0

----------------------------------------------------------------------------

\* Mutant: availability is checked on one line only.
CoversSome(wanted) == \E v \in Variants : wanted[v] > 0 /\ wanted[v] <= stock[v]

\* The availability test over the locked stock rows.
Covers(wanted) == \A v \in Variants : wanted[v] <= stock[v]

\* The clock readings a transaction that commits now may be working with.
Readings == {at \in 0..now : now <= at + ClockLag}

\* A first Reserve with key k; a repeated one is a replay or a conflict.
Reserve(k, wanted, until, at) ==
  /\ until > at /\ until <= at + MaxHold
  /\ state[k] = "NONE"
  /\ Covers(wanted)
  /\ stock' = [v \in Variants |-> stock[v] - wanted[v]]
  /\ state' = [state EXCEPT ![k] = "RESERVED"]
  /\ expiresAt' = [expiresAt EXCEPT ![k] = until]
  /\ lines' = [lines EXCEPT ![k] = wanted]
  /\ UNCHANGED <<restocked, restocks, now>>

Expired(k, at) == expiresAt[k] <= at

\* restorePostgresStock
Restore(back) == stock' = [v \in Variants |-> stock[v] + back[v]]

\* Mutant: the expiry test of a Commit is missing.
TransitionLate(k, target, at) ==
  /\ state[k] = "RESERVED"
  /\ IF target = "RELEASED" THEN Restore(lines[k]) ELSE UNCHANGED stock
  /\ state' = [state EXCEPT ![k] = target]
  /\ UNCHANGED <<expiresAt, lines, restocked, restocks, now>>

\* Commit and Release share one handler.  A due reservation is released by
\* whichever call meets it, a Commit included, which then reports
\* ErrInvalidTransition after having committed the release.
Transition(k, target, at) ==
  /\ state[k] = "RESERVED"
  /\ \/ /\ Expired(k, at) \/ target = "RELEASED"
        /\ Restore(lines[k])
        /\ state' = [state EXCEPT ![k] = "RELEASED"]
     \/ /\ ~Expired(k, at) /\ target = "COMMITTED"
        /\ state' = [state EXCEPT ![k] = "COMMITTED"]
        /\ UNCHANGED stock
  /\ UNCHANGED <<expiresAt, lines, restocked, restocks, now>>

Commit(k, at) == Transition(k, "COMMITTED", at)
Release(k, at) == Transition(k, "RELEASED", at)

\* Mutant: earlier restocks are not subtracted.
RestockUnbounded(q, k, back) ==
  /\ restocks[q] = NoRestock
  /\ state[k] = "COMMITTED"
  /\ \A v \in Variants : back[v] <= lines[k][v]
  /\ Restore(back)
  /\ restocked' = [restocked EXCEPT ![k] = [v \in Variants |-> restocked[k][v] + back[v]]]
  /\ restocks' = [restocks EXCEPT ![q] = [of |-> k, lines |-> back]]
  /\ UNCHANGED <<state, expiresAt, lines, now>>

\* Mutant: the idempotency key is not looked up.
RestockAgain(q, k, back) ==
  /\ state[k] = "COMMITTED"
  /\ \A v \in Variants : back[v] <= lines[k][v] - restocked[k][v]
  /\ Restore(back)
  /\ restocked' = [restocked EXCEPT ![k] = [v \in Variants |-> restocked[k][v] + back[v]]]
  /\ restocks' = [restocks EXCEPT ![q] = [of |-> k, lines |-> back]]
  /\ UNCHANGED <<state, expiresAt, lines, now>>

\* A first Restock with key q.
Restock(q, k, back) ==
  /\ restocks[q] = NoRestock
  /\ state[k] = "COMMITTED"
  /\ \A v \in Variants : back[v] <= lines[k][v] - restocked[k][v]
  /\ Restore(back)
  /\ restocked' = [restocked EXCEPT ![k] = [v \in Variants |-> restocked[k][v] + back[v]]]
  /\ restocks' = [restocks EXCEPT ![q] = [of |-> k, lines |-> back]]
  /\ UNCHANGED <<state, expiresAt, lines, now>>

Due == {k \in Keys : state[k] = "RESERVED" /\ Expired(k, now)}

\* Mutant: only one reservation of the batch gives its lines back.
BatchReturnOne(batch, v) == lines[CHOOSE k \in batch : TRUE][v]

\* What variant v gets back from the reservations of a batch.
BatchReturn(batch, v) ==
  SumTo([k \in Keys |-> IF k \in batch THEN lines[k][v] ELSE 0], MaxKey)

\* One sweeper batch.  SKIP LOCKED passes over rows other transactions hold
\* and the batch is limited, so any set of due reservations may be claimed.
ExpireBatch(batch) ==
  /\ stock' = [v \in Variants |-> stock[v] + BatchReturn(batch, v)]
  /\ state' = [k \in Keys |-> IF k \in batch THEN "RELEASED" ELSE state[k]]
  /\ UNCHANGED <<expiresAt, lines, restocked, restocks, now>>

\* Mutant: off by one, a hold that ends now is not claimed.
ExpireStrict ==
  \E batch \in (SUBSET {k \in Due : expiresAt[k] < now}) \ {{}} : ExpireBatch(batch)

Expire == \E batch \in (SUBSET Due) \ {{}} : ExpireBatch(batch)

\* The wall clock.
Tick ==
  /\ now < Horizon
  /\ now' = now + 1
  /\ UNCHANGED <<stock, state, expiresAt, lines, restocked, restocks>>

Next ==
  \/ \E k \in Keys, wanted \in Lines, until \in 1..(now + MaxHold), at \in Readings :
       Reserve(k, wanted, until, at)
  \/ \E k \in Keys, at \in Readings : Commit(k, at)
  \/ \E k \in Keys, at \in Readings : Release(k, at)
  \/ \E q \in RestockKeys, k \in Keys, back \in Lines : Restock(q, k, back)
  \/ Expire
  \/ Tick

Spec == Init /\ [][Next]_vars

\* recoveryLoop calls Expire on every tick of the worker; time passes.
FairSpec == Spec /\ WF_vars(Expire) /\ WF_vars(Tick)

----------------------------------------------------------------------------

\* Units of variant v that reservation k has taken off the shelf and not
\* given back.
Outstanding(k, v) ==
  IF state[k] = "RESERVED" THEN lines[k][v]
  ELSE IF state[k] = "COMMITTED" THEN lines[k][v] - restocked[k][v]
  ELSE 0

OutstandingTotal(v) == SumTo([k \in Keys |-> Outstanding(k, v)], MaxKey)

\* Conservation of stock: what is on the shelf plus what live reservations
\* hold is what there was at the start, for every variant, whatever the
\* order of reservations, commits, releases, partial restocks and sweeps.  A
\* reservation returned twice (by a release and by the sweeper, say) or an
\* expired one committed without its units would break it.
StockConserved ==
  \A v \in Variants : stock[v] + OutstandingTotal(v) = InitialStock[v]

\* Cumulative restocks never exceed what the reservation took, and only a
\* committed reservation is ever restocked ("prevents duplicate return and
\* webhook processing from inflating stock").
RestockBounded ==
  \A k \in Keys :
    /\ \A v \in Variants : restocked[k][v] <= lines[k][v]
    /\ state[k] # "COMMITTED" => restocked[k] = NoLines

\* The restock log accounts for every restocked unit: the quantities of the
\* requests recorded for a reservation add up to its restocked column.
RestockLogComplete ==
  \A k \in Keys, v \in Variants :
    restocked[k][v] =
      SumTo([q \in RestockKeys |->
               IF restocks[q].of = k THEN restocks[q].lines[v] ELSE 0], MaxRestockKey)

\* A reservation's life is one way: what it took and until when is fixed once
\* made, COMMITTED and RELEASED are final, and a hold that was due before the
\* transaction began is never turned into a sale, whichever of Commit, Release
\* and the sweeper reaches it first.
OneWay ==
  [][\A k \in Keys :
       /\ state[k] # "NONE" => lines'[k] = lines[k] /\ expiresAt'[k] = expiresAt[k]
       /\ state[k] \in {"COMMITTED", "RELEASED"} => state'[k] = state[k]
       /\ state[k] = "RESERVED" /\ state'[k] = "COMMITTED" => expiresAt[k] + ClockLag > now]_vars

\* Every abandoned hold is given back: a due reservation does not stay
\* RESERVED, given only that the sweeper keeps running.
DueIsReleased ==
  \A k \in Keys : (k \in Due) ~> (state[k] # "RESERVED")
=============================================================================
