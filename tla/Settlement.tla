----------------------------- MODULE Settlement -----------------------------
(***************************************************************************)
(* The settlement ledger and its payouts (internal/fulfillment,            *)
(* postgres_settlement.go): entries for orders and services, less          *)
(* commission and the tax on it, cool down, are claimed by one payout,     *)
(* which two people of finance approve and a worker executes, repeating    *)
(* what failed under the same provider reference.                          *)
(***************************************************************************)
EXTENDS Sums, Sequences

CONSTANTS
  Accounts,
  MaxEntry,         \* entries of the ledger are numbered
  AccountOf,
  Gross,            \* gross amount of each entry settled by rate
  Lines,            \* order lines of each entry settled from a snapshot: vendor, total, discount, tax, commission
  Vendor,           \* whose lines are settled
  CommissionBasisPoints, TaxBasisPoints,
  MaxPayout,        \* payout requests are numbered, by idempotency key
  Approvers, References,
  MaxAttempts       \* bound on the executions of a payout

VARIABLES
  ledger,   \* fulfillment.ledger_entries: nothing, or net amount and whether it is available
  payout    \* fulfillment.payouts, with the entries claimed by each

vars == <<ledger, payout>>

Entries == 1..MaxEntry
Payouts == 1..MaxPayout

Nobody == "NOBODY"
NoEntry == [net |-> 0, state |-> "NONE"]
NoPayout == [status |-> "NONE", account |-> Nobody, amount |-> 0, entries |-> {},
             first |-> Nobody, second |-> Nobody, reference |-> Nobody, attempts |-> 0]

TypeOK ==
  /\ ledger \in [Entries -> [net : Nat, state : {"NONE", "COOLING", "AVAILABLE"}]]
  /\ payout \in [Payouts -> [status : {"NONE", "PENDING_REVIEW", "FIRST_APPROVED", "APPROVED", "PAID", "FAILED"},
                             account : Accounts \cup {Nobody}, amount : Nat, entries : SUBSET Entries,
                             first : Approvers \cup {Nobody}, second : Approvers \cup {Nobody},
                             reference : References \cup {Nobody}, attempts : 0..MaxAttempts]]

Init == ledger = [e \in Entries |-> NoEntry] /\ payout = [k \in Payouts |-> NoPayout]

----------------------------------------------------------------------------

settlementBasisPoints(amount, points) == (amount * points) \div 10000

\* The first entry for an account, a reference and a kind stays.
seedPostgresSettlement(e, gross, commission, tax) ==
  /\ gross > 0 /\ commission + tax <= gross
  /\ ledger' = [ledger EXCEPT ![e] = IF @ = NoEntry THEN [net |-> gross - commission - tax, state |-> "COOLING"] ELSE @]
  /\ UNCHANGED payout

SeedSettlement(e) ==
  LET commission == settlementBasisPoints(Gross[e], CommissionBasisPoints)
  IN  seedPostgresSettlement(e, Gross[e], commission, settlementBasisPoints(commission, TaxBasisPoints))

\* What the vendor's lines of an order add up to.
VendorSum(e, amount) ==
  SumTo([i \in DOMAIN Lines[e] |-> IF Lines[e][i].vendor = Vendor[e] THEN amount[i] ELSE 0], Len(Lines[e]))

OrderGross(e) ==
  VendorSum(e, [i \in DOMAIN Lines[e] |-> Lines[e][i].total - Lines[e][i].discount + Lines[e][i].tax])
OrderCommission(e) == VendorSum(e, [i \in DOMAIN Lines[e] |-> Lines[e][i].commission])

\* Commission as agreed when the order was placed, tax at today's rate.
SeedOrderSettlement(e) ==
  seedPostgresSettlement(e, OrderGross(e), OrderCommission(e),
                         settlementBasisPoints(OrderCommission(e), TaxBasisPoints))

CoolingEnds(e) ==
  /\ ledger[e].state = "COOLING" /\ ledger' = [ledger EXCEPT ![e].state = "AVAILABLE"]
  /\ UNCHANGED payout

----------------------------------------------------------------------------

Net(entries) == SumTo([e \in Entries |-> IF e \in entries THEN ledger[e].net ELSE 0], MaxEntry)
Claimed == UNION {payout[k].entries : k \in Payouts}

\* Mutant: an entry is free again once its payout has failed.
RequestPayoutAgain(a, k, entries) ==
  /\ payout[k] = NoPayout /\ entries # {}
  /\ \A e \in entries :
       /\ AccountOf[e] = a /\ ledger[e].state = "AVAILABLE"
       /\ \A o \in Payouts : e \in payout[o].entries => payout[o].status = "FAILED"
  /\ payout' = [payout EXCEPT ![k] = [NoPayout EXCEPT !.status = "PENDING_REVIEW", !.account = a,
                                                      !.amount = Net(entries), !.entries = entries]]
  /\ UNCHANGED ledger

\* Each entry is claimed by the payout; the key of payout_entry_claims refuses
\* a second claim, whatever became of the first.
RequestPayout(a, k, entries) ==
  /\ payout[k] = NoPayout /\ entries # {}
  /\ \A e \in entries : AccountOf[e] = a /\ ledger[e].state = "AVAILABLE" /\ e \notin Claimed
  /\ payout' = [payout EXCEPT ![k] = [NoPayout EXCEPT !.status = "PENDING_REVIEW", !.account = a,
                                                      !.amount = Net(entries), !.entries = entries]]
  /\ UNCHANGED ledger

\* The row is locked and at the revision the caller saw.
mutatePayout(k, from, value) ==
  /\ payout[k].status \in from
  /\ payout' = [payout EXCEPT ![k] = value]
  /\ UNCHANGED ledger

ApprovePayout(p, k) ==
  \/ mutatePayout(k, {"PENDING_REVIEW"}, [payout[k] EXCEPT !.status = "FIRST_APPROVED", !.first = p])
  \/ /\ payout[k].first # p
     /\ mutatePayout(k, {"FIRST_APPROVED"}, [payout[k] EXCEPT !.status = "APPROVED", !.second = p])

ExecutePayout(k, reference, success) ==
  /\ payout[k].reference \in {Nobody, reference} /\ payout[k].attempts < MaxAttempts
  /\ mutatePayout(k, {"APPROVED", "FAILED"},
                  [payout[k] EXCEPT !.status = IF success THEN "PAID" ELSE "FAILED",
                                    !.reference = reference, !.attempts = @ + 1])

Next ==
  \/ \E e \in Entries : SeedSettlement(e) \/ SeedOrderSettlement(e) \/ CoolingEnds(e)
  \/ \E a \in Accounts, k \in Payouts, entries \in SUBSET Entries : RequestPayout(a, k, entries)
  \/ \E p \in Approvers, k \in Payouts : ApprovePayout(p, k)
  \/ \E k \in Payouts, reference \in References, success \in BOOLEAN : ExecutePayout(k, reference, success)

Spec == Init /\ [][Next]_vars

----------------------------------------------------------------------------
(* The answer of Reconcile for an account.                                 *)

Amounts(a, statuses) ==
  SumTo([k \in Payouts |-> IF payout[k].account = a /\ payout[k].status \in statuses
                           THEN payout[k].amount ELSE 0], MaxPayout)

Reconcile(a) ==
  Net({e \in Entries : AccountOf[e] = a})
    - Amounts(a, {"PAID"}) - Amounts(a, {"PENDING_REVIEW", "FIRST_APPROVED", "APPROVED"})

\* No entry is paid out twice: the variance Reconcile reports is exactly the
\* money of the account that no payout has claimed or whose payout has failed,
\* hence never negative; and what is paid was approved by two people.
PaidOutOnce ==
  /\ \A a \in Accounts :
       Reconcile(a) = Net({e \in Entries : AccountOf[e] = a /\ e \notin Claimed}) + Amounts(a, {"FAILED"})
  /\ \A k \in Payouts : payout[k].status \in {"APPROVED", "PAID", "FAILED"} =>
       payout[k].first # payout[k].second /\ Nobody \notin {payout[k].first, payout[k].second}
=============================================================================
