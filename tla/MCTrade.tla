------------------------------ MODULE MCTrade ------------------------------
(***************************************************************************)
(* The components of the shop that keep their rows to themselves, each in  *)
(* a scenario of its own: an initial state chooses one, and the others     *)
(* stay as they are.  Those of Trade, and Wallet, are extended, so that    *)
(* their assumptions are checked here; the others are instances.           *)
(***************************************************************************)
EXTENDS Wallet, Trade

VARIABLES
  deskTicket, deskMessage, deskPage, deskKnown,
  priceQuote, priceOrder, priceRefund,
  shelfItem, shelfCategory, shelfQuestion, shelfWithdrawn, shelfCache, shelfReader,
  shelfAnswer, shelfClock, shelfChanges,
  scenario

----------------------------------------------------------------------------
\* A basket of three lines, two of them of one item, whose prices do not divide
\* evenly; policies with and without tax in the price and a fee.
Line(variant, item, vendor, unit, quantity) ==
  [variant |-> variant, item |-> item, vendor |-> vendor, unit |-> unit, quantity |-> quantity]
Rates(commission, points) == [commission |-> commission, wallet |-> points]

SomeCarts ==
  {<<Line("x1", "x", "v", u, 2), Line("y1", "y", "v", w, 1), Line("z1", "y", "w", 7, 2)>> :
     u \in {1, 7}, w \in {2, 5}}
SomePolicies ==
  {[taxRate |-> 1800, inclusive |-> n, fee |-> f, feeTaxRate |-> 1800, pointValue |-> p,
    mode |-> IF f = 0 /\ n THEN "POINTS_ONLY" ELSE "HYBRID_PAYMENT"] :
     n \in BOOLEAN, f \in {0, 3}, p \in {1, 2}}
SomePromotions == {[rate |-> r, minimum |-> 0, maximum |-> m] : r \in {0, 6000}, m \in {0, 5}}
SomeRules ==
  <<[vendor |-> "v", variant |-> "x1", item |-> "x", rates |-> Rates(500, 5000)],
    [vendor |-> "v", variant |-> "", item |-> "x", rates |-> Rates(600, 6000)]>>

\* The second entry of the ledger is settled from the lines of an order.
OrderLine(vendor) == [vendor |-> vendor, total |-> 500, discount |-> 50, tax |-> 25, commission |-> 47]
OrderLines == <<<<>>, <<OrderLine("v"), OrderLine("w")>>>>
OneAccount == <<"a", "a">>
OneGross == <<999, 0>>
OneVendor == <<"v", "v">>

\* One zone; the first rider's telephone keeps two commands while it is offline.
InOneZone == [r \in {"r1", "r2"} |-> {"z"}]
OfOneZone == [t \in {"t1"} |-> "z"]
FirstOffline == [r1 |-> 2, r2 |-> 0]

\* Two requests for one cart, paid in points and online; only the first is cooked.
OneCart == [k \in {"k1", "k2"} |-> "a"]
PointsAndOnline == [k1 |-> "WALLET", k2 |-> "ONLINE"]

OneOwner == [i |-> "v"]
OneEarner == [e1 |-> 1]
OneDevice == [e1 |-> "d"]
OnePayer == [r |-> 1]

----------------------------------------------------------------------------
\* Three tickets created at two instants, read one to a page; only the first
\* is written to again.
Desk == INSTANCE Support WITH
  Tickets <- 1..3, Times <- {1, 2}, Digests <- {"d"}, MessageKeys <- {"m"}, Limit <- 1,
  ticket <- deskTicket, message <- deskMessage, page <- deskPage, known <- deskKnown

----------------------------------------------------------------------------
\* Every cart, policy, promotion and choice of points above.
Prices == INSTANCE Pricing WITH
  Carts <- SomeCarts, Policies <- SomePolicies, Promotions <- SomePromotions,
  SlotFees <- {0}, Balances <- {50}, WantedPoints <- {0, 3, 50}, MaxQuantity <- 2,
  Plan <- Rates(1000, 10000),
  VendorRules <- <<[vendor |-> "w", rates |-> Rates(700, 9000)]>>,
  ProductRules <- SomeRules,
  quote <- priceQuote, order <- priceOrder, refund <- priceRefund

----------------------------------------------------------------------------
\* One item with one question, two readers of the listing and a copy that may
\* be served one tick after its time.
Shelves == INSTANCE Catalog WITH
  Items <- {1}, Categories <- {"c"}, CategoryOf <- [i \in {1} |-> "c"], Keys <- {"k1"},
  AskerOf <- [k1 |-> "a"], Readers <- {"r", "s"}, StaleTTL <- 1, QuestionLimit <- 1,
  MaxQuestions <- 1, MaxClock <- 2, MaxChanges <- 1,
  item <- shelfItem, category <- shelfCategory, question <- shelfQuestion,
  withdrawn <- shelfWithdrawn, cache <- shelfCache, reader <- shelfReader,
  answer <- shelfAnswer, clock <- shelfClock, changes <- shelfChanges

----------------------------------------------------------------------------
foodVars == <<foodServing, foodAvailable, foodCart, foodOrder, foodLate, foodFunds,
              foodDoing, foodBehind>>
riderVars == <<riderProfile, riderDuty, riderTask, riderDeclined, riderPosition,
               riderDevice, riderApplied, riderEarned>>
payVars == <<payLedger, payPayout>>
supplyVars == <<supplyApplication, supplyItem, supplyWork, supplyPromotion, supplySeen,
                supplyVouched>>
cartVars == <<cartCart, cartSold, cartReplay, cartCall, cartPriced>>
deskVars == <<deskTicket, deskMessage, deskPage, deskKnown>>
priceVars == <<priceQuote, priceOrder, priceRefund>>
growthVars == <<growthCodes, growthApplication, growthBalance, growthLedger, growthClaims,
                growthTx, growthToday, growthResting, growthRefill>>
bookVars == <<bookAddress, bookTx, bookQuote, bookCall, bookShown, bookPlaced>>
quoteVars == <<quoteAddress, quoteTx, quoteQuote, quoteCall, quoteShown, quotePlaced>>
shelfVars == <<shelfItem, shelfCategory, shelfQuestion, shelfWithdrawn, shelfCache,
               shelfReader, shelfAnswer, shelfClock, shelfChanges>>

mcVars == <<vars, foodVars, riderVars, payVars, supplyVars, cartVars, deskVars, priceVars, growthVars,
            bookVars, quoteVars, shelfVars, scenario>>

\* One scenario is followed; the other components stay as they were.
Alone(s) ==
  /\ scenario' = s
  /\ IF s = "wallet" THEN TRUE ELSE UNCHANGED vars
  /\ IF s = "food" THEN TRUE ELSE UNCHANGED foodVars
  /\ IF s = "rider" THEN TRUE ELSE UNCHANGED riderVars
  /\ IF s = "payout" THEN TRUE ELSE UNCHANGED payVars
  /\ IF s = "supply" THEN TRUE ELSE UNCHANGED supplyVars
  /\ IF s = "cart" THEN TRUE ELSE UNCHANGED cartVars
  /\ IF s = "support" THEN TRUE ELSE UNCHANGED deskVars
  /\ IF s = "pricing" THEN TRUE ELSE UNCHANGED priceVars
  /\ IF s = "growth" THEN TRUE ELSE UNCHANGED growthVars
  /\ IF s = "addresses" THEN TRUE ELSE UNCHANGED bookVars
  /\ IF s = "quotes" THEN TRUE ELSE UNCHANGED quoteVars
  /\ IF s = "catalog" THEN TRUE ELSE UNCHANGED shelfVars

MCInit ==
  /\ scenario \in {"wallet", "food", "rider", "payout", "supply", "cart", "support", "pricing", "growth",
                   "addresses", "quotes", "catalog"}
  /\ Init
  /\ Meals!Init
  /\ Dispatch!Init
  /\ Books!Init
  /\ Vendors!Init
  /\ Baskets!Init
  /\ Desk!Init
  /\ Prices!Init
  /\ Growth!Init
  /\ Addresses!Init
  /\ Quoting!Init
  /\ Shelves!Init /\ (scenario # "catalog" => shelfItem = {})

MCNext ==
  \/ scenario = "wallet" /\ Next /\ Alone("wallet")
  \/ /\ scenario = "food" /\ Meals!Next /\ Alone("food")
     /\ foodBehind' = {} /\ foodOrder'["k2"].status # "PREPARING"
  \/ scenario = "rider" /\ Dispatch!Next /\ Alone("rider")
  \/ scenario = "payout" /\ Books!Next /\ Alone("payout")
  \/ scenario = "supply" /\ Vendors!Next /\ Alone("supply")
  \/ scenario = "cart" /\ Baskets!Next /\ Alone("cart")
  \/ /\ scenario = "support" /\ Desk!Next /\ Alone("support")
     /\ \A t \in 2..3 : deskMessage'[t] = deskMessage[t]
  \/ scenario = "pricing" /\ Prices!Next /\ Alone("pricing")
  \/ scenario = "growth" /\ Growth!Next /\ Alone("growth")
  \/ scenario = "addresses" /\ Addresses!Next /\ Alone("addresses")
  \/ scenario = "quotes" /\ Quoting!Next /\ Alone("quotes")
  \/ scenario = "catalog" /\ Shelves!Next /\ Alone("catalog")

MCSpec == MCInit /\ [][MCNext]_mcVars

----------------------------------------------------------------------------
\* internal/wallet: the balance is what the ledger adds up to, the lots hold what
\* was credited and neither spent nor lapsed, and no debit is given back beyond
\* what it took, whatever expires in between; points are spent soonest expiry
\* first.
WalletIsSound ==
  /\ [](scenario = "wallet" => TypeOK /\ Reconciles /\ LotsConserved /\ RefundsAccounted)
  /\ SoonestFirst

\* internal/checkout: whatever the roundings of the discount, the taxes and the
\* shares, a return gives back no more points than were spent and less than one
\* point's worth above what passed through the payment; returning everything
\* returns the goods to the last unit.
RefundsFit == Prices!RefundWithinTender /\ Prices!WholeReturnIsWhole

\* internal/catalog and internal/support, what readers are told.  An answer of the
\* catalogue is as old as it says and never older than the freshness window,
\* although slow reads store out of order and changes fall between the statements
\* of one read; and a reader who followed the cursors to the end has listed every
\* ticket that was there when it began, and none twice, tickets of one instant
\* included.
ReadersAreTold == Shelves!AsOldAsItSays /\ Desk!ListedOnce
=============================================================================
