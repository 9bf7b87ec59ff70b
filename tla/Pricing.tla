------------------------------ MODULE Pricing -------------------------------
(***************************************************************************)
(* The arithmetic of an order (internal/checkout: calculate,               *)
(* orderSnapshot, refundTenderSplit; internal/order: refundable).  Amounts *)
(* are integers of the smallest unit of a currency; rates are basis        *)
(* points.  A quote spreads the discount and the tax over the lines of the *)
(* cart and caps the points that may be spent; a return takes the share of *)
(* its lines back out of the snapshot and divides it between the points    *)
(* and the payment.  Every division rounds, and the roundings of the       *)
(* purchase and of the return have to fit each other.                      *)
(***************************************************************************)
EXTENDS Sums, Sequences

CONSTANTS
  Carts,          \* sequences of lines [variant, item, vendor, unit, quantity]
  Policies,       \* [taxRate, inclusive, fee, feeTaxRate, pointValue, mode]
  Promotions,     \* [rate, minimum, maximum]
  SlotFees, Balances, WantedPoints,
  MaxQuantity,    \* bound: the quantity of a line
  Plan, VendorRules, ProductRules    \* the commercial policy: defaults, and sequences of rules

VARIABLES
  quote,     \* commerce.checkout_quotes, with the terms of each line
  order,     \* the snapshot kept with the order
  refund     \* how a return is to be given back: points, and money through the payment

vars == <<quote, order, refund>>

None == [is |-> "NONE"]

Init == quote = None /\ order = None /\ refund = None

-----------------------------------------------------------------------------
(* Helpers of the calculation.                                             *)

Total(values) == SumTo(values, Len(values))
Lesser(a, b) == IF a < b THEN a ELSE b

basisPointsAmount(amount, basisPoints, round) ==
  (amount * basisPoints + (IF round THEN 5000 ELSE 0)) \div 10000

LineTotals(cart) == [i \in DOMAIN cart |-> cart[i].unit * cart[i].quantity]

\* Mutant: every line is given its share, rounded down.
allocateShares(cart, total) ==
  LET lines == LineTotals(cart)
  IN  [i \in DOMAIN cart |-> IF total = 0 THEN 0 ELSE (total * lines[i]) \div Total(lines)]

\* In proportion to the lines; the last line takes what rounding leaves.
allocate(cart, total) ==
  LET lines == LineTotals(cart)
      n == Len(cart)
      share == [i \in DOMAIN cart |-> (total * lines[i]) \div Total(lines)]
  IN  [i \in DOMAIN cart |->
         IF total = 0 THEN 0 ELSE IF i < n THEN share[i] ELSE total - SumTo(share, n - 1)]

-----------------------------------------------------------------------------
(* What a vendor pays and how far points reach, for a line.                *)

Applies(rule, line) ==
  rule.vendor = line.vendor /\ (IF rule.variant # "" THEN rule.variant = line.variant
                                                     ELSE rule.item = line.item)

\* Of the rules that fit, the first counts.
Overlay(product, vendor) ==
  IF product # <<>> THEN product[1].rates ELSE IF vendor # <<>> THEN vendor[1].rates ELSE Plan

\* StaticCommercialTermsResolver: the first product rule of the list that fits.
StaticResolve(line) ==
  Overlay(SelectSeq(ProductRules, LAMBDA r : Applies(r, line)),
          SelectSeq(VendorRules, LAMBDA r : r.vendor = line.vendor))

\* PostgresCommercialTermsResolver: a rule for the variant before one for the item.
Resolve(line) ==
  LET exact == SelectSeq(ProductRules, LAMBDA r : Applies(r, line) /\ r.variant # "")
      broad == SelectSeq(ProductRules, LAMBDA r : Applies(r, line))
  IN  Overlay(IF exact # <<>> THEN exact ELSE broad,
              SelectSeq(VendorRules, LAMBDA r : r.vendor = line.vendor))

-----------------------------------------------------------------------------
(* A quote.                                                                *)

Discount(promotion, subtotal) ==
  LET d == basisPointsAmount(subtotal, promotion.rate, FALSE)
  IN  IF promotion.maximum > 0 THEN Lesser(d, promotion.maximum) ELSE d

ChargedTax(policy, taxable) ==
  IF policy.inclusive THEN 0 ELSE basisPointsAmount(taxable, policy.taxRate, TRUE)

\* Each line's part of the points' limit, of the line less its discount.
LineLimit(line, net) == basisPointsAmount(net, Resolve(line).wallet, FALSE)
Commission(line) == basisPointsAmount(line.unit * line.quantity, Resolve(line).commission, TRUE)

paymentMethods(total, mode) ==
  IF total = 0 THEN {"WALLET"} ELSE IF mode = "POINTS_ONLY" THEN {} ELSE {"PROVIDER", "COD"}

PointsFor(wanted, balance, limit, gross, value) ==
  Lesser(Lesser(wanted, balance), Lesser(limit \div value, gross \div value))

\* A line whose discount is larger than the line has no limit for its points:
\* the quote is refused.
calculate(cart, policy, promotion, slotFee, balance, wanted) ==
  LET subtotal == Total(LineTotals(cart))
      discount == Discount(promotion, subtotal)
      taxable == subtotal - discount
      charged == ChargedTax(policy, taxable)
      tax == charged + basisPointsAmount(policy.fee, policy.feeTaxRate, TRUE)
      fees == policy.fee + slotFee
      gross == taxable + tax + fees
      discounts == allocate(cart, discount)
      nets == [i \in DOMAIN cart |-> LineTotals(cart)[i] - discounts[i]]
      limit == Total([i \in DOMAIN cart |-> LineLimit(cart[i], nets[i])])
      points == PointsFor(wanted, balance, limit, gross, policy.pointValue)
      applied == points * policy.pointValue
  IN  IF \E i \in DOMAIN cart : nets[i] < 0 THEN [is |-> "REFUSED"]
      ELSE [is |-> "QUOTE", cart |-> cart, policy |-> policy, subtotal |-> subtotal,
            discount |-> discount, charged |-> charged, tax |-> tax, fees |-> fees,
            commission |-> Total([i \in DOMAIN cart |-> Commission(cart[i])]),
            points |-> points, applied |-> applied, total |-> gross - applied]

Quote(cart, policy, promotion, slotFee, balance, wanted) ==
  LET q == calculate(cart, policy, promotion, slotFee, balance, wanted)
  IN  /\ quote = None /\ Total(LineTotals(cart)) >= promotion.minimum
      /\ q.is = "QUOTE" /\ policy.mode = "POINTS_ONLY" => q.total = 0
      /\ quote' = q
      /\ UNCHANGED <<order, refund>>

-----------------------------------------------------------------------------
(* The order, and a return.                                                *)

\* The discount and the tax on the goods are spread again, and kept per line.
orderSnapshot(q, method) ==
  LET discounts == allocate(q.cart, q.discount)
      taxes == allocate(q.cart, q.charged)
  IN  [is |-> "ORDER", method |-> method,
       lines |-> [i \in DOMAIN q.cart |-> [unit |-> q.cart[i].unit, quantity |-> q.cart[i].quantity,
                                           discount |-> discounts[i], tax |-> taxes[i]]],
       subtotal |-> q.subtotal, discount |-> q.discount, tax |-> q.tax, applied |-> q.applied,
       total |-> q.total]

Place(method) ==
  /\ quote.is = "QUOTE" /\ order = None
  /\ method \in paymentMethods(quote.total, quote.policy.mode)
  /\ order' = orderSnapshot(quote, method)
  /\ UNCHANGED <<quote, refund>>

\* Of a line, its price for the quantity less its share of the discount,
\* plus its share of the tax.
refundable(lines, back) ==
  Total([i \in DOMAIN lines |->
    lines[i].unit * back[i] - (lines[i].discount * back[i]) \div lines[i].quantity
                            + (lines[i].tax * back[i]) \div lines[i].quantity])

\* Mutant: the share in points is rounded up to whole points.
refundTenderSplitUp(snapshot, amount, pointValue) ==
  LET pool == snapshot.subtotal - snapshot.discount + snapshot.tax
      share == (amount * snapshot.applied) \div pool
      points == (share + pointValue) \div pointValue
  IN  [points |-> points, provider |-> amount - points * pointValue]

refundTenderSplit(snapshot, amount, pointValue) ==
  LET pool == snapshot.subtotal - snapshot.discount + snapshot.tax
      share == IF amount = pool \/ snapshot.method = "WALLET" THEN Lesser(amount, snapshot.applied)
               ELSE (amount * snapshot.applied) \div pool
      points == share \div pointValue
  IN  IF snapshot.applied = 0 THEN [points |-> 0, provider |-> amount]
      ELSE [points |-> points, provider |-> amount - points * pointValue]

\* receiveApprovedReturn: the value of a point is that of the policy of today.
Return(back, pointValue) ==
  LET amount == refundable(order.lines, back)
      split == refundTenderSplit(order, amount, pointValue)
  IN  /\ order.is = "ORDER" /\ refund = None
      /\ \E i \in DOMAIN order.lines : back[i] > 0
      /\ amount >= 0
      /\ order.applied = 0 \/ order.subtotal - order.discount + order.tax >= 1
      /\ refund' = [is |-> "REFUND", whole |-> \A i \in DOMAIN back : back[i] = order.lines[i].quantity,
                    amount |-> amount, value |-> pointValue, points |-> split.points,
                    provider |-> split.provider]
      /\ UNCHANGED <<quote, order>>

Returns(lines) == {b \in [DOMAIN lines -> 0..MaxQuantity] : \A i \in DOMAIN lines : b[i] <= lines[i].quantity}

-----------------------------------------------------------------------------
Next ==
  \/ \E cart \in Carts, policy \in Policies, promotion \in Promotions, slotFee \in SlotFees,
        balance \in Balances, wanted \in WantedPoints :
       Quote(cart, policy, promotion, slotFee, balance, wanted)
  \/ \E method \in {"WALLET", "PROVIDER", "COD"} : Place(method)
  \/ order.is = "ORDER" /\ \E back \in Returns(order.lines),
                                 pointValue \in {policy.pointValue : policy \in Policies} :
       Return(back, pointValue)

Spec == Init /\ [][Next]_vars

-----------------------------------------------------------------------------
\* A return gives back no more than was paid: not more points than were
\* spent, and through the payment less than one point's worth above what
\* passed through it, whatever the roundings of the discount, the taxes, the
\* limits and the shares (refundTenderSplit, refundable), as long as a point
\* is worth what it was.
RefundWithinTender ==
  refund.is = "REFUND" /\ refund.value = quote.policy.pointValue =>
    /\ refund.points <= quote.points /\ refund.provider >= 0
    /\ refund.provider < order.total + refund.value

\* Returning everything returns the goods to the last unit: the shares of
\* the discount and of the tax that the lines were given are all of it
\* (allocate, orderSnapshot, refundable).
WholeReturnIsWhole ==
  refund.is = "REFUND" /\ refund.whole => refund.amount = quote.subtotal - quote.discount + quote.charged

\* Both resolvers of commercial terms find the same rule: only where the list
\* has the rules for variants before those for items.
SameTerms ==
  quote.is = "QUOTE" => \A i \in DOMAIN quote.cart : StaticResolve(quote.cart[i]) = Resolve(quote.cart[i])

\* These do not hold: see the README.
RefundThroughPaymentFits == refund.is = "REFUND" => refund.provider <= order.total
DiscountedIsQuoted == quote.is # "REFUSED"
=============================================================================
