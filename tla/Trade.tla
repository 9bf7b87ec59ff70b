------------------------------- MODULE Trade -------------------------------
(***************************************************************************)
(* The components of the shop that keep their rows to themselves and that  *)
(* theorems are about: carts, addresses and quotes, food orders,           *)
(* deliveries, settlement, supply and the ways points come into a wallet.  *)
(* Each has variables and constants of its own; TradeProofs proves the     *)
(* properties below of each, MCTrade runs them with the other components   *)
(* of the shop.                                                            *)
(***************************************************************************)
EXTENDS Integers, FiniteSets

CONSTANTS
  Riders, Tasks, Zones, ZonesOf, ZoneOf,            \* deliveries
  MaxConcurrent, MaxTaskRevision, MaxSequence,
  Accounts, MaxEntry, AccountOf, Gross, Lines,      \* settlement
  SettledVendor, CommissionBasisPoints, TaxBasisPoints,
  MaxPayout, Approvers, References, MaxAttempts,
  FoodKeys, FoodCarts, CartOf, Method, FoodOptions, \* food
  Sellers, Banks, Items, OwnerOf, Contents,         \* supply
  MaxRevision, MaxEdits,
  Customers, Events, CustomerOf, DeviceOf,          \* growth of a wallet
  DailyDeviceCap, Transactions, Refills, PayerOf, MaxDay,
  Variants, Quantities, CartKeys, CartCalls, MaxCartRevision,             \* carts
  AddressIds, AddressCommands, AddressQuotes, AddressCalls, MaxAddressRevision,
  QuotedIds, QuoteCommands, QuoteKeys, QuoteCalls, MaxQuotedRevision      \* quotes

ASSUME CartAssumption == MaxCartRevision \in Nat

\* Addresses are numbered from 1.
ASSUME AddressAssumption == AddressIds \cup QuotedIds \subseteq Nat \ {0}

ASSUME SupplyAssumption ==
  /\ Sellers \cap Items = {} /\ OwnerOf \in [Items -> Sellers] /\ MaxRevision \in Nat /\ MaxEdits \in Nat

ASSUME GrowthAssumption ==
  /\ Customers \subseteq Nat \ {0} /\ IsFiniteSet(Transactions)
  /\ CustomerOf \in [Events -> Customers] /\ PayerOf \in [Refills -> Customers]

ASSUME DeliveryAssumption ==
  /\ IsFiniteSet(Tasks) /\ "NOBODY" \notin Riders /\ "OFF" \notin Zones
  /\ ZonesOf \in [Riders -> SUBSET Zones] /\ ZoneOf \in [Tasks -> Zones]
  /\ MaxConcurrent \in Nat /\ MaxTaskRevision \in Nat \ {0} /\ MaxSequence \in [Riders -> Nat]

VARIABLES
  cartCart, cartSold, cartReplay, cartCall, cartPriced,
  bookAddress, bookTx, bookQuote, bookCall, bookShown, bookPlaced,
  quoteAddress, quoteTx, quoteQuote, quoteCall, quoteShown, quotePlaced,
  foodServing, foodAvailable, foodCart, foodOrder, foodLate, foodFunds, foodDoing, foodBehind,
  riderProfile, riderDuty, riderTask, riderDeclined, riderPosition, riderDevice,
  riderApplied, riderEarned,
  payLedger, payPayout,
  supplyApplication, supplyItem, supplyWork, supplyPromotion, supplySeen, supplyVouched,
  growthCodes, growthApplication, growthBalance, growthLedger, growthClaims, growthTx,
  growthToday, growthResting, growthRefill

----------------------------------------------------------------------------
Meals == INSTANCE Food WITH
  Keys <- FoodKeys, Carts <- FoodCarts,
  Options <- FoodOptions, Minimum <- 1, Maximum <- 1,
  serving <- foodServing, available <- foodAvailable, cart <- foodCart, order <- foodOrder,
  late <- foodLate, funds <- foodFunds, doing <- foodDoing, behind <- foodBehind

Dispatch == INSTANCE Fulfilment WITH
  MaxRevision <- MaxTaskRevision,
  profile <- riderProfile, duty <- riderDuty, task <- riderTask, declined <- riderDeclined,
  position <- riderPosition, device <- riderDevice, applied <- riderApplied,
  earned <- riderEarned

Books == INSTANCE Settlement WITH
  Vendor <- SettledVendor,
  ledger <- payLedger, payout <- payPayout

ASSUME SettlementAssumption ==
  /\ MaxEntry \in Nat /\ MaxPayout \in Nat /\ MaxAttempts \in Nat /\ "NOBODY" \notin Approvers
  /\ Gross \in [1..MaxEntry -> Nat] /\ CommissionBasisPoints \in Nat /\ TaxBasisPoints \in Nat
  /\ Lines \in [1..MaxEntry -> Books!Seq([vendor : STRING, total : Nat, discount : Nat, tax : Nat, commission : Nat])]

Vendors == INSTANCE Supply WITH
  Vendors <- Sellers, Works <- {"w"}, Promotions <- {"p"},
  application <- supplyApplication, item <- supplyItem, work <- supplyWork,
  promotion <- supplyPromotion, seen <- supplySeen, vouched <- supplyVouched

Growth == INSTANCE WalletGrowth WITH
  codes <- growthCodes, application <- growthApplication, balance <- growthBalance,
  ledger <- growthLedger, claims <- growthClaims, tx <- growthTx, today <- growthToday,
  resting <- growthResting, refill <- growthRefill

Baskets == INSTANCE Cart WITH
  Keys <- CartKeys, Calls <- CartCalls, MaxRevision <- MaxCartRevision,
  cart <- cartCart, sold <- cartSold, replay <- cartReplay, call <- cartCall,
  priced <- cartPriced

\* A book of addresses, and one whose addresses quotes are for.
Addresses == INSTANCE AddressBook WITH
  Ids <- AddressIds, Commands <- AddressCommands, Quotes <- AddressQuotes,
  Calls <- AddressCalls, MaxRevision <- MaxAddressRevision,
  address <- bookAddress, tx <- bookTx, quote <- bookQuote, call <- bookCall,
  shown <- bookShown, placed <- bookPlaced

Quoting == INSTANCE AddressBook WITH
  Ids <- QuotedIds, Commands <- QuoteCommands, Quotes <- QuoteKeys,
  Calls <- QuoteCalls, MaxRevision <- MaxQuotedRevision,
  address <- quoteAddress, tx <- quoteTx, quote <- quoteQuote, call <- quoteCall,
  shown <- quoteShown, placed <- quotePlaced

----------------------------------------------------------------------------
\* internal/food: in the books, an order that was rejected or timed out keeps no
\* points and its payment is void or being refunded, whatever was rolled back and
\* whenever the capture was recorded, unless a retry of the payment that was under
\* way opened it again; and a cart is ordered at most once.
RefusedIsSettled == Meals!TypeOK /\ Meals!RefusedIsSettled

\* internal/fulfillment: whoever has a task is an approved rider on duty in its
\* zone who never declined it and has no more tasks than allowed, through
\* reassignment, the sweep and commands recorded off line; a delivery is paid for
\* once, to the rider who made it.
RiderHoldsDuty == Dispatch!TypeOK /\ Dispatch!RiderHoldsDuty

\* internal/fulfillment: what a rider has picked up, on line or by a command that
\* was recorded off line, neither changes hands nor is offered again, and an off-line
\* pick-up that was applied stands, whatever batches arrive late or twice.
CarriedToTheEnd == Dispatch!CarriedToTheEnd

\* internal/fulfillment: both of them, deliveries are in the hands of a rider on duty
\* and stay there to the end.
DeliveriesHeld == []RiderHoldsDuty /\ CarriedToTheEnd

\* internal/fulfillment, settlement: no entry of the ledger is paid out twice,
\* whatever payouts claim, fail and are repeated at the same time, and what is
\* paid was approved by two people.
PaidOutOnce == Books!TypeOK /\ Books!PaidOutOnce

\* internal/supply: an approved vendor went through every stage in order and is
\* paid on the account that was verified, and an active item offers the content
\* its approver saw, however the vendor's edits fell between look and decision.
LiveWasVouchedFor == Vendors!LiveWasVouchedFor

\* internal/wallet, referrals and rewards: an account's balance is what its
\* ledger adds up to while transactions lock accounts in pairs and refills are
\* credited again; and no two transactions wait for one another.
GrowthIsSound == Growth!BalanceIsLedger /\ Growth!NoMutualWait

\* internal/commerce: the Postgres cart, which may read the row of one revision
\* and the lines of the next, writes and answers what the cart in memory would.
CartImplementsMemory == Baskets!CartImplementsMemory

\* internal/checkout: an order goes where every answer for its quote said it
\* would, although requests with one key are calculated at the same time; and an
\* edit of an address that commits replaces what its sender was shown.
AddressedAsShown == []Quoting!PlacedAsShown /\ Addresses!EditsWhatWasSeen
=============================================================================
