------------------------------- MODULE Wallet -------------------------------
(***************************************************************************)
(* The points ledger of one customer (internal/wallet).  Every operation   *)
(* of PostgresService locks the account row first and holds it until it    *)
(* commits, so each is one step; accounts do not interact but for          *)
(* referrals and device caps, which are left out here.                     *)
(*                                                                         *)
(* A ledger entry is named by its idempotency key.  A credit also opens a  *)
(* lot of that name; remaining and expiry are the columns of               *)
(* wallet.credit_lots, alloc and refunded those of                         *)
(* wallet.debit_allocations.  An EXPIRY entry has the key "expiry-<lot>",  *)
(* so there is at most one for a lot: lapsed is its amount.                *)
(***************************************************************************)
EXTENDS Integers, Sums

CONSTANTS
  MaxKey,     \* idempotency keys are 1..MaxKey
  MaxPoints,  \* bound on the points of one command
  MaxLife,    \* longest life of a credit (three years)
  Horizon     \* bound on the clock

ASSUME WalletAssumption ==
  MaxKey \in Nat /\ MaxPoints \in Nat /\ MaxLife \in Nat /\ Horizon \in Nat

VARIABLES balance, entries, remaining, expiry, lapsed, alloc, refunded, now

vars == <<balance, entries, remaining, expiry, lapsed, alloc, refunded, now>>

Keys == 1..MaxKey
Nothing == [k \in Keys |-> 0]
NoEntry == [kind |-> "NONE", delta |-> 0, reverses |-> 0]

TypeOK ==
  /\ balance \in Nat
  /\ entries \in [Keys -> [kind : {"NONE", "CREDIT", "DEBIT", "REVERSAL"},
                           delta : Int, reverses : 0..MaxKey]]
  /\ remaining \in [Keys -> Nat] /\ expiry \in [Keys -> Nat] /\ lapsed \in [Keys -> Nat]
  /\ alloc \in [Keys -> [Keys -> Nat]] /\ refunded \in [Keys -> [Keys -> Nat]]
  /\ now \in Nat

Init ==
  /\ balance = 0
  /\ entries = [k \in Keys |-> NoEntry]
  /\ remaining = Nothing /\ expiry = Nothing /\ lapsed = Nothing
  /\ alloc = [d \in Keys |-> Nothing] /\ refunded = [d \in Keys |-> Nothing]
  /\ now = 0

----------------------------------------------------------------------------
(* Lots, soonest expiry first.                                             *)

\* Mutant: the lots are taken in the order of their ids.
Unordered(j, k) == j < k

\* ORDER BY lot.expires_at, lot.ledger_entry_id
Earlier(j, k) ==
  \/ expiry[j] < expiry[k]
  \/ expiry[j] = expiry[k] /\ j < k

Prior(avail, k) == SumTo([j \in Keys |-> IF Earlier(j, k) THEN avail[j] ELSE 0], MaxKey)

\* How the loops of Redeem and restoreDebit spread points over lots that have
\* avail to give: each in turn gives the lesser of what it has and what is
\* still needed.
Spread(avail, points) ==
  [k \in Keys |->
     IF points <= Prior(avail, k) THEN 0
     ELSE IF points - Prior(avail, k) < avail[k] THEN points - Prior(avail, k)
     ELSE avail[k]]

Plus(f, g) == [k \in Keys |-> f[k] + g[k]]
Minus(f, g) == [k \in Keys |-> f[k] - g[k]]
Total(f) == SumTo(f, MaxKey)

\* expireLocked, given what the lots hold: it runs inside every operation.
DueLots(held) == {k \in Keys : held[k] > 0 /\ expiry[k] <= now}
Due(held) == [k \in Keys |-> IF k \in DueLots(held) THEN held[k] ELSE 0]

\* Appending a second EXPIRY entry for a lot violates the unique key; the
\* transaction fails as a whole.
Expirable(held) == \A k \in DueLots(held) : lapsed[k] = 0

\* Mutant: points are taken from the lots but no EXPIRY entry is appended.
ExpireSilently(held) == UNCHANGED lapsed

expireLocked(held) == lapsed' = Plus(lapsed, Due(held))

----------------------------------------------------------------------------

Append(k, kind, delta, reverses) ==
  /\ entries[k] = NoEntry
  /\ entries' = [entries EXCEPT ![k] = [kind |-> kind, delta |-> delta, reverses |-> reverses]]

\* The command is checked at a clock reading, at, taken before the account is
\* locked: the lot may already be due when it is opened.
Credit(k, points, until, at) ==
  /\ until > at /\ until <= at + MaxLife
  /\ Expirable(remaining)
  /\ Append(k, "CREDIT", points, 0)
  /\ expireLocked(remaining)
  /\ remaining' = [Minus(remaining, Due(remaining)) EXCEPT ![k] = points]
  /\ expiry' = [expiry EXCEPT ![k] = until]
  /\ balance' = balance - Total(Due(remaining)) + points
  /\ UNCHANGED <<alloc, refunded, now>>

\* Mutant: the balance is not checked.
RedeemUnchecked(k, points) ==
  LET held == Minus(remaining, Due(remaining))
      used == Spread(held, points)
  IN  /\ Expirable(remaining)
      /\ Append(k, "DEBIT", -points, 0)
      /\ expireLocked(remaining)
      /\ remaining' = Minus(held, used)
      /\ alloc' = [alloc EXCEPT ![k] = used]
      /\ balance' = balance - Total(Due(remaining)) - points
      /\ UNCHANGED <<expiry, refunded, now>>

Redeem(k, points) ==
  LET held == Minus(remaining, Due(remaining))
      left == balance - Total(Due(remaining))
      used == Spread(held, points)
  IN  /\ Expirable(remaining)
      /\ points <= left /\ Total(used) = points
      /\ Append(k, "DEBIT", -points, 0)
      /\ expireLocked(remaining)
      /\ remaining' = Minus(held, used)
      /\ alloc' = [alloc EXCEPT ![k] = used]
      /\ balance' = left - points
      /\ UNCHANGED <<expiry, refunded, now>>

\* Mutant: earlier partial refunds are forgotten.
RefundableAgain(d) == alloc[d]

Refundable(d) == Minus(alloc[d], refunded[d])

\* Mutant: the allocations are not told what was given back.
restoreUnrecorded(k, d, points) ==
  LET held == Plus(remaining, Spread(Refundable(d), points))
  IN  /\ entries[d].kind = "DEBIT"
      /\ points \in 1..Total(Refundable(d))
      /\ Expirable(held)
      /\ Append(k, "REVERSAL", points, d)
      /\ expireLocked(held)
      /\ remaining' = Minus(held, Due(held))
      /\ balance' = balance + points - Total(Due(held))
      /\ UNCHANGED <<expiry, alloc, refunded, now>>

\* What restoreDebit gives back to the lots may be due at once: a refunded
\* point keeps the expiry it had.
restoreDebit(k, d, points) ==
  LET back == Spread(Refundable(d), points)
      held == Plus(remaining, back)
  IN  /\ entries[d].kind = "DEBIT"
      /\ points \in 1..Total(Refundable(d))
      /\ Expirable(held)
      /\ Append(k, "REVERSAL", points, d)
      /\ expireLocked(held)
      /\ remaining' = Minus(held, Due(held))
      /\ refunded' = [refunded EXCEPT ![d] = Plus(refunded[d], back)]
      /\ balance' = balance + points - Total(Due(held))
      /\ UNCHANGED <<expiry, alloc, now>>

ReverseDebit(k, d) == restoreDebit(k, d, Total(Refundable(d)))
RefundDebit(k, d, points) == restoreDebit(k, d, points)

\* Expire, and Account, which runs it before it answers.
Expire ==
  /\ DueLots(remaining) # {}
  /\ Expirable(remaining)
  /\ expireLocked(remaining)
  /\ remaining' = Minus(remaining, Due(remaining))
  /\ balance' = balance - Total(Due(remaining))
  /\ UNCHANGED <<entries, expiry, alloc, refunded, now>>

\* Reading an account writes: what is due expires before the balance is answered.
Account == Expire

Tick ==
  /\ now < Horizon
  /\ now' = now + 1
  /\ UNCHANGED <<balance, entries, remaining, expiry, lapsed, alloc, refunded>>

Next ==
  \/ \E k \in Keys, points \in 1..MaxPoints, until \in 1..(now + MaxLife), at \in 0..now :
       Credit(k, points, until, at)
  \/ \E k \in Keys, points \in 1..MaxPoints : Redeem(k, points)
  \/ \E k \in Keys, d \in Keys : ReverseDebit(k, d)
  \/ \E k \in Keys, d \in Keys, points \in 1..MaxPoints : RefundDebit(k, d, points)
  \/ Expire \/ Account
  \/ Tick

Spec == Init /\ [][Next]_vars

----------------------------------------------------------------------------

\* "Sum of ledger entries equals migrated balances; expiry lots and reversals
\* reconcile with zero unexplained variance": the account row, the ledger and
\* the lots, three tables written by different statements, always agree.
Reconciles ==
  /\ balance = Total(remaining)
  /\ balance = Total([k \in Keys |-> entries[k].delta]) - Total(lapsed)

\* Every point of a credit is in one place: still in its lot, lapsed, or held
\* by a redemption that has not been refunded.  Refunding a redemption twice,
\* to the wrong lot, or a point that lapsed would break it.
LotsConserved ==
  \A k \in Keys :
    remaining[k] + lapsed[k] + Total([d \in Keys |-> alloc[d][k] - refunded[d][k]])
      = IF entries[k].kind = "CREDIT" THEN entries[k].delta ELSE 0

\* "Multiple partial refunds may not exceed the original debit": the reversals
\* of a redemption add up to what its allocations say was given back, and to
\* no more than it took.
RefundsAccounted ==
  \A d \in Keys : entries[d].kind = "DEBIT" =>
    /\ Total(refunded[d]) <= -entries[d].delta
    /\ Total(refunded[d]) =
         Total([k \in Keys |-> IF entries[k].reverses = d THEN entries[k].delta ELSE 0])

\* First in, first out: a redemption never takes a point while one that lapses
\* sooner is left behind.
SoonestFirst ==
  [][\A d \in Keys : alloc'[d] # alloc[d] =>
       \A j, k \in Keys :
         alloc'[d][k] > 0 /\ expiry[j] < expiry[k] => remaining'[j] = 0]_vars

\* "debit allocations retain the original lot expiries required for exact
\* partial refunds and reversals": whatever a redemption still holds can be
\* given back in full.
ReversalPossible ==
  \A d \in Keys : Expirable(Plus(remaining, Refundable(d)))
=============================================================================
