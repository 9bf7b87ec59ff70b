# TLA+ models of planext4u-backend

This directory holds TLA+ models of the backend, the TLC configurations that check
them on small instances, and TLAPS proofs of the properties that matter most. Every
definition is translated from the Go source under `internal/` and `cmd/`;
`PROJECT.json` maps each one to the lines it stands for and lists the runs, the
hazards, the findings and the theorems.

## 1. The system

The backend is a set of bounded contexts, each a Go package under `internal/`
with an in-memory `Service` (one mutex, used by tests and local runs) and a
`PostgresService` or `PostgresRepository` over a schema of its own. The models
follow the Postgres side, where the concurrency is: several replicas, `READ
COMMITTED` or `SERIALIZABLE` transactions, row locks (`SELECT ... FOR UPDATE`), an
advisory lock and a stored answer per idempotency key. No transaction spans two
contexts: what one of them did stays done when the caller rolls back, and is undone
only by a compensating call. `recoveryLoop` (`cmd/transaction/main.go`) sweeps what
lapsed, reconciles payments, pays social rewards and sends order notifications on
every tick; `cmd/messaging`, `cmd/notification` and `cmd/customer-web` have a loop
each.

### Components

| component | state | operations | interacts with | what is hard | what makes it correct |
|---|---|---|---|---|---|
| inventory | stock rows, reservations, restock log | Reserve, Commit, Release, Restock, Expire | checkout; recoveryLoop | lock order, races on the last unit, holds that lapse while they are committed | stock is conserved, nothing is sold twice or returned twice, due holds come back |
| payment | payment row, provider events, exceptions | Create, RetryProvider, webhooks, Reconcile, RequestRefund, MarkCODCollected, CancelUncaptured | checkout, booking, food; the providers over HTTP | two transactions around a call; late, repeated, reordered and lost webhooks; retries | no capture without money, no regress, no double refund, a paid payment is found |
| wallet | account row, ledger, lots, allocations, claims | Credit, Redeem, ReverseDebit, RefundDebit, Expire; referrals, engagement rewards, refills | checkout, booking, food, social | four tables that must agree; lots that lapse between refunds; two accounts locked at once | they reconcile; points are spent soonest expiry first; refunds are exact; no mutual wait |
| order | order, return case, notification intents | Create and the commands of customer, vendor, rider and platform; ProcessNotifications | checkout; the notifier | stale clients; leases without owner; crashed workers | no lost update; order and return case agree; one notification per revision, sent at least once |
| checkout | process row, stored answers, addresses, quotes | Place, RetryPayment, finalization, FinalizeCancellation, ApproveReturn, refund webhook; address commands, Quote | inventory, wallet, payment, order, cart | a saga of calls with a possible crash between any two; rounding; concurrent quotes of one key | what goes ahead has its stock and money; what is cancelled or refunded keeps nothing; refunds fit what was paid |
| booking | slot holds, bookings | Hold, ReleaseHold, Create, ConfirmPayment, Reschedule, Cancel, provider commands, Expire | payment, wallet; recoveryLoop | counting places under a lock; external effects inside a transaction | no overbooking; a cancelled booking is settled; unpaid places come back |
| food | carts, food orders | SetCart, CreateOrder, RestaurantTransition, DispatchTransition, Expire | payment, wallet; recoveryLoop | refusal and sweep at once; compensation inside a transaction; a stale copy of the payment | a refused order is settled; an unanswered one ends |
| fulfilment | riders, duties, tasks, offers, offline commands; ledger, payouts; conversations | RegisterRider, StartDuty, OfferTask, AcceptOffer, Reassign, CompleteDelivery, RecoverOffline; RequestPayout, ApprovePayout, ExecutePayout; SendMessage, BlockConversation | order | first acceptance wins, stale riders, commands recorded earlier; two payouts over one entry | who has a task may have it; one earning per delivery; nothing is paid out twice; a block silences |
| supply | applications, catalogue items, work items, promotions | Register to approval, SubmitBank, UpsertCatalog, ApproveCatalog, TransitionWork | catalog | approvers decide on what they saw earlier | what is live is what was vouched for |
| emergency | requests, timeline, messages | Create, Accept, Transition, UpdateLocation, SendMessage, RunEscalations | recoveryLoop | escalation racing an acceptance, withdrawn consent | the timeline tells the state |
| identity | sessions, refresh tokens, consents, deletions | StartSession, RotateSession, RevokeByRefresh, RevokeSession, RecordConsent, CreateDeletionRequest | all handlers | one token used twice at once, two lock orders | only the newest token is usable; as in memory |
| customer web | browser sessions | login, refresh, logout, purge | identity | a lease without owner, answers that are lost | no refresh token spent twice, no login left behind |
| messaging | outbox, inbox | Enqueue, Claim, MarkPublished, MarkFailed, Begin, Complete, Release, Replay | NATS | leases, crashes between publish and mark, duplicates, disorder | effects in the order of versions; the outbox drains |
| notification | deliveries, devices | Queue, ClaimDelivery, UpdateDelivery, RecordReceipt | order, push providers | a claim without owner, a lost answer, two processors | every message beyond the first is accounted for |
| cart (`commerce`) | revisioned carts | Change, Price | checkout, catalog | a read in two statements | as the cart in memory |
| catalog | last known good projection, questions | Items, Item, AskQuestion | supply, cart | slow reads, reads in three statements | an answer is as old as it says |
| support | tickets | Create, AddMessage, List | - | tickets of one instant, tickets committed late | a listing is complete |
| social | profiles, follows, controls, posts, media, conversations, reward events | Follow, SetRelationship, Like, Share, Report, media review and appeal, OpenConversation, SendMessage, ProcessRewards | wallet; recoveryLoop | counters beside rows, workers that outlive a lease, checks without a lock | counters agree; rewards are settled as credited; review and blocks hold |
| local verticals | homes, classifieds, reports | CreateHome, PublishHome, Inquire, ScheduleVisit, CreateClassified, RepostClassified, UpgradeClassified, ReportClassified, ExpireClassifieds | recoveryLoop | reports around the threshold, reposting | what is reported enough is withheld |
| media | assets | Create, Complete, Delete | object store, scanner | calls between read and update | what is decided stays decided |
| config and CMS | drafts, snapshots, history, cache | SaveWorkspaceDraft, SavePageDraft, PublishWithAudit, Get | adminops | lost publications, an outdated cache | what is published was approved; readers catch up |
| audit | hash chain | Record, Search, Export | all | concurrent appends | the chain verifies and misses nothing |
| adminops | changes, events, domain tables | Submit, Approve, Reject, execution | configcms and others | three transactions per call, competing decisions | each change is executed at most once, with two people if it is risky |
| governance, gateway, admin shell, platform | none that others read | dashboards, routing, rendering, start-up, migrations | all | - | - |

`PROJECT.json` lists all of them under `components`, and under `hazards` what in
this code is hard to test, each at its line.

## 2. The modules

One module models a component, or one concern of it; `MC` modules instantiate them
for TLC; `Proofs` modules hold the theorems.

The core, with a run of its own each:

* **`Inventory`** - `stock`, `state`, `expiresAt`, `lines`, `restocked` are the
  columns of the reservation tables, `restocks` the restock log, `now` the clock.
  One action per operation: `Reserve`, `Commit`, `Release`, `Restock`, `Expire`
  (any batch of due reservations that the sweep did not have to skip). An operation
  reads the clock before it commits, so it may use a reading up to `ClockLag` old.
* **`InventoryTx`** - the same operations as transactions that take their locks one
  at a time in the order of the SQL statements, `FOR UPDATE SKIP LOCKED` of the
  sweeper included, and publish their writes at commit. `ImplementsInventory` says
  that its committed tables behave as `Inventory`. `AtomicSpec`, at its end, has the
  operations as single steps with the sweeper's fairness: the run `inventory` follows
  that, the run `inventory_tx` the transactions.
* **`Payment`** - one payment row and its provider. An operation that crosses the
  network is split into the transaction before, the call, and the transaction
  after; `calls` says who is in between. The provider (sessions, captures, refunds)
  is external and modelled from how the code uses it; `Sent` is what it may ever
  have sent, so delivery is late, repeated, reordered or absent. `ahead` counts the
  rows before this one on the recovery loop's list; with `PageSize` or more of them
  the loop does not come to it (`ORDER BY updated_at, id LIMIT 100`, and a question
  that fails leaves the row where it is).
* **`Order`** - one order with its return case, the revision and status each client
  saw last, and the notification intents with their leases. Every command goes
  through `mutate`, as in the code: revision check, transition, new revision and
  its intent in one transaction.
* **`Checkout`** - composes inventory, wallet, payment and order, each reduced to
  what the saga can tell apart. Every call of another service is one step of the
  process (shopper, canceller, retrier, webhook, recovery loop, return, refund webhook)
  that makes it, and a process may die before any of its steps. A retry of the payment
  and a refund are two transactions with the provider's answer in between:
  `RetryFinalizes` writes whatever the row has become meanwhile over, and `reopened`
  remembers that; `provider` is the session the row names, `older` those it named
  before, which stay payable.
* **`Booking`** - slots, holds and bookings of one offering. `Hold` is three steps
  because its statements see different snapshots; `Create` and `Cancel` are as many
  as they call services inside their transaction; `Abort` rolls a transaction back
  and leaves what those services did. The payment row (`pay`) and the sessions at the
  provider (`charge`) move apart: a capture is recorded later, or refused, and a retry
  that was overtaken writes the row open again (`reopened`). `behind` has the bookings
  that are past the end of the sweeper's page. `raced` is a history variable that only
  `OverbookedOnlyByRace` reads.
* **`Sums`** - sums over `1..n` as a recursive function, used by `Inventory` and
  `Wallet`, with the lemmas about them.

Followed in `MCTrade`:

* **`Wallet`** - the ledger of one customer: account row, entries, lots
  (`remaining`, `expiry`), allocations (`alloc`, `refunded`) and `lapsed`, the
  EXPIRY entries. Every operation locks the account first, so each is one step.
* **`WalletGrowth`** - referrals, engagement rewards and refills, which touch several
  accounts: a transaction holds the account rows it locked, in the order of
  `scopeKey`, and the balances it read under them.
* **`Food`** - a create command and a refusal call wallet and payment in the middle
  of their transaction, so they are several steps that a rollback may interrupt.
  `funds` has the payment row beside the sessions at the provider, as in `Booking`,
  and `behind` the orders past the end of the sweeper's page.
* **`Fulfilment`**, **`Settlement`** - riders and delivery tasks; the ledger with its
  commission arithmetic and the payouts. Commands are serializable, one step each. A
  position from an offline batch gets the number after the last one, though it may
  have been captured before that: no property says that positions are shown in the
  order they were captured in.
* **`Supply`** - `seen` is what is on the screens of staff, `vouched` what they said
  yes to; the vendor edits in between. (The code has no endpoint by which staff read an
  application: the look is on whatever their shell shows them.)
* **`Cart`** - `Change` and `Price` of the Postgres service in the steps in which they
  read; the in-memory service, one step each (`MemoryInit`, `MemoryNext`), is the
  abstract specification, and `CartImplementsMemory` the refinement.
* **`Pricing`** - a pure module: discount, tax, fees and points of a quote, the
  snapshot of an order, and the shares of a return, over all carts, policies and
  promotions of small sets. `refundable` and `refundTenderSplit` are compared with
  what was paid.
* **`AddressBook`** - address commands with the row locks they take one after the
  other, and quotes with their keys.
* **`Catalog`** - `loadItems` with the statements of its read, the last known good
  projection and the clock; customers' questions.
* **`Support`** - tickets whose times are taken before they are committed, and
  readers that follow the cursors of the pages.

Followed in `MCPlatform`:

* **`Identity`**, **`IdentityMemory`** - transactions that take tokens and sessions in
  two orders, waits, and the victim of a deadlock; the in-memory repository is the
  abstract specification, with `active` and `consumed` mapped to the status of the
  token rows.
* **`WebSessions`** - the browser's cookie, the session row with its refresh lease, and
  the identity service as the web handler sees it: a login and a rotation. Answers of
  the identity service that the handler throws away (another country, an invalid token
  pair) leave their login behind, unrevoked (`dropped`).
* **`Messaging`**, **`Notification`** - outbox, dispatchers, stream, inbox and handlers;
  deliveries, the loop and the order notifier. Leases run out under the slow.
* **`AdminOps`** - a call reads the change, has it executed and writes it, in three
  transactions; the in-memory service (`MemoryInit`, `MemoryNext`) is the abstract
  specification. It also records refused and failed calls, as DENIED and FAILED events
  that the Postgres side never writes: the refinement allows that, and says nothing of
  refusals. CMS PUBLISH goes to the CMS and not to the domain tables (`PublishPage`);
  repeated after another publication it never completes, as the snapshot it expects is
  gone.
* **`Audit`** - a hash stands for what it covers, as it was when it was hashed; what is
  read back differs where redaction cut a rune in two, and does not verify then.
  **`ConfigCMS`** - drafts,
  publications and a cache in another process. **`Media`** - assets, with object store
  and scanner external.
* **`Social`**, **`SocialRewards`**, **`SocialMedia`**, **`SocialMessaging`** - the graph
  and its counters, the reward worker, media review and purge, conversations. What
  reads without a lock and writes later is two steps.
* **`LocalVerticals`**, **`Emergency`**, **`Chat`** - one step per command, as the rows
  are locked. `Emergency` keeps the stored answers: a repeated command gets the location
  that was visible when it was first made, also after consent was withdrawn. In `Chat`
  operators may write and block without being members.

`MCTrade` and `MCPlatform` hold one instance per component and a variable
`scenario` that an initial state chooses: one component moves, the others stay as
they are. The sets and bounds of the components that theorems are about are constants
of `MCPlatform` and of `Trade`, given by the `.cfg`, so that the theorems are about the
very definitions the runs check. `Trade` holds the constants, variables, instances and
properties of `Cart`, `AddressBook`, `Food`, `Fulfilment`, `Settlement`, `Supply` and
`WalletGrowth`, and `MCTrade` extends it; with `MCLoops.cfg` `MCPlatform` follows the scenarios whose progress
hangs on a loop, food among them. The components do not share rows, so nothing is lost by following them one
at a time; where they do act on each other (checkout, booking and food over stock,
points and payments; customer web over identity; social over wallet), the acting
module has the other side in it.

In every module a lower-case definition carries the Go name of the function it
translates. Definitions whose comment begins with "Mutant" are faulty variants of
an action: they are in no specification and exist to show that a property would
notice that fault.

Abstractions common to all: tenants, countries and authorization (each module
follows one owner, or one row, that the caller may touch); money as a small number
or a status, but for `Pricing` and `Settlement`; validation of formats; replay of a
stored answer, which changes nothing, is a stuttering step, and a repeated command
with another body is refused.

## 3. The runs

| run | what it checks |
|---|---|
| `inventory` | two reservations and two restocks compete for three units of two variants: `StockConserved`, `RestockBounded`, `RestockLogComplete`, `OneWay`, and `DueIsReleased` under the sweeper's fairness |
| `inventory_tx` | two sessions, lock by lock, with rollbacks: `ImplementsInventory` (refinement), and `NoDeadlockWithoutSweeper` (canonical lock order; the sweeper locks reservation by reservation and is exempt, Postgres breaks its deadlocks) |
| `payment` | any method, two handlers and a recovery loop, two provider sessions, a page of one: `CapturedMeansPaid`, and `WebhooksHold` (`WebhooksNeverRegress`, and `LostWebhookRecovered`: a captured payment that is on the recovery loop's page is found) |
| `order` | the whole life of an order under two stale clients, and the outbox with two workers: `ReturnCaseAgrees`, `ActsOnWhatWasSeen`, `DeliveredIsFinal`, `MCEventuallyDelivered` |
| `checkout` | a placement, two retries of its payment, both finalizers, a cancellation, a return, lapsing holds, failing refunds, one crash: `PlacedIsBacked` (stock and money) and `UndoneAsAWhole` (what is cancelled or refunded has given goods and points back, its payment is void or asked back unless an overtaken retry opened it again, and nothing else is paid back) |
| `booking` | two customers and two slots, and the whole life of a booking with its payment at the provider: `PlacesAreSound` (`OverbookedOnlyByRace`; `CancelledIsSettled`, with the same exception as in `checkout`; `UnpaidIsFreed` for what is on the sweeper's page) |
| `trade` | twelve scenarios: `WalletIsSound`, `GrowthIsSound`, `RefusedIsSettled` (food), `DeliveriesHeld` (`RiderHoldsDuty` and `CarriedToTheEnd`, fulfilment), `PaidOutOnce` (settlement), `LiveWasVouchedFor` (supply), `RefundsFit` (pricing), `ReadersAreTold` (catalogue, support), `AddressedAsShown` (addresses, quotes), `CartImplementsMemory` (refinement) |
| `platform` | fifteen scenarios: `CountsAgree`, `SettledAsCredited`, `ModerationHolds`, `BlocksSilence` (social, local verticals, chat), `TrailsAreWhole` (audit, emergency), `DeliveriesAccounted` (messaging, notification), `PublishedAsApproved`, `SessionsAccounted`, `DecidedStays` (media), `LoginsAreSound` and `ChangesAreSound` (refinements of the in-memory repository and service, with an invariant each) |
| `loops` | four scenarios under the fairness of the loops: `UnansweredEnds` (food orders on the sweeper's page), `BehindCatchesUp` (outbox, rewards, cached settings) |
| `payment_double_refund`, `checkout_paid_is_placed`, `booking_overbooked` | findings, section 4 |

The properties of `trade`, `platform` and `loops` are conjunctions of properties of the
component modules, which state them in full; where a module has a type invariant it
is a conjunct too. Each property has at least one mutant in `PROJECT.json`, and each
conjunct that can fail on its own mostly one of its own: a variant of one operation,
as a plausible mistake would make it, under which TLC finds the property violated.

The refinements. `Cart`, `Identity` and `AdminOps` run across each other, statement by
statement or transaction by transaction; the in-memory service or repository of the
same package holds one mutex through each operation, and is what the tests of the
package mostly exercise. `IdentityMemory` and the `Memory...` definitions of `Cart` and
`AdminOps` translate the latter, and the refinement says that callers of the Postgres side see nothing
the other could not show. In `platform` the step of the refinement is written out and
guarded by the scenario, so that it is evaluated only where the component moves.

### Bounds, and why they are enough

* `inventory`: 2 + 1 units for two reservations of up to two units each, so that
  reservations are refused, and two restocks of one reservation. A third variant or
  reservation adds no new conflict: reservations meet pairwise on a stock row. The
  theorems of section 5 remove the bounds for safety.
* `inventory_tx`: two sessions and two variants, the smallest circle of waits.
* `payment`: two handlers, two sessions: a stale answer needs one other. `Amount`
  is 2 where partial refunds matter and 1 elsewhere. A page of one row, so that one row
  before this one is enough to starve it.
* `order`: 15 revisions, as many as the longest life of an order takes; the outbox
  is followed for two revisions only, whose intents do not interact.
* `checkout`: one order, one placement, one cancellation; two retries, so that one can
  overtake the other; one crash, because a second one meets the states the first one
  left. Placements and cancellations that overlap are left to the theorems, which are
  for any number of each.
* `booking`: one place per slot, three holds: the first customer's second hold is
  what a reschedule needs.
* `trade`: the wallet has four keys (two credits, a redemption over both and a refund
  of it) and two units of time, so that one lot can lapse while the other does not.
  Food has two commands over one cart, the smallest conflict over it. One task and two
  riders, six revisions: offered, taken, taken away and taken by the other. Two
  payouts over two ledger entries. One vendor, twelve revisions of the application
  (the longest way to approval with a second bank account) and four edits of an item.
  Two calls on a cart, as a read in two statements needs one writer beside it. Carts,
  rates and promotions of `Pricing` are amounts whose shares do not divide evenly,
  with up to two units per line and points that cover nothing, a part, or all. Two
  customers who refer each other and two transactions, the smallest circle. Three
  tickets of two instants, one to a page, so that a page ends within an instant. One
  catalogue item, two readers: a slow one and a fast one.
* `platform`: two of whatever competes (people, workers, dispatchers, handlers,
  calls, requests, transactions), two versions of an aggregate, two rotations of a
  session, two levels of escalation, three changes of which two share a target, a
  report threshold of two. Failures are counted down from `MaxFailures` or `MaxFaults`.
* `loops`: one row and the loop that comes to it, two dispatchers where one takes over
  from the other. Larger instances add interleavings, not reasons to wait.

The `MC` modules of `Order` and `Booking` have a variable `scenario` too, which chooses
between two parts of the behaviour that would be too many states together.
Deadlock is not checked: each model follows a finite number of commands and really
may end.

### Fairness, and what justifies it

* `Inventory`: the sweeper and the clock (weak): `recoveryLoop` calls `Expire` on
  every tick.
* `Payment`: the recovery loop asks again and again (weak) and does not die every
  time between asking and recording (strong), for a payment that is on its page.
  Nothing is assumed of the rows before it: the code lists at most 100 candidates per
  tick, the least recently updated first, and rows whose verification keeps failing
  keep their places. `Payment!StarvedRecovered` asks the same of a payment behind them,
  and does not hold.
* `Order`: claims, sends and completions are not passed over, or failing, every
  time (strong); leases and delays end (weak).
* `Checkout` (only in `checkout_paid_is_placed`): the recovery loop, with the payment on
  its page, and the sweeper run; a process that began goes on unless it dies. Nobody is
  assumed to repeat a placement or to pay, and the webhook of a capture may be lost.
* `Booking`: holds lapse; the sweeper tries every booking of its page and is not rolled
  back every time (strong), but nothing makes the bookings before one on the list go
  (`ORDER BY payment_expires_at LIMIT 100`); a customer's transaction ends, at the latest by
  `bookingOperationTimeout` (weak fairness of `Abort`).
* `Food`: `accept_by` passes; the sweeper tries every order of its page, and its calls of
  wallet and payment and its commit do not fail every time (strong). Nothing is
  assumed of the restaurant, nor of the orders before one on the list (`ORDER BY
  accept_by LIMIT 100`).
* `Messaging`: dispatchers and consumers go on (`dispatchLoop` of `cmd/messaging`),
  leases end with the clock (weak). Failures are bounded by `MaxFailures`.
* `SocialRewards`: leases and pauses end and workers claim (weak, `ProcessRewards` on
  every tick); a call of the wallet, and a settlement under the worker's own lease,
  succeed if they are tried again and again (strong).
* `ConfigCMS`: the cached copy expires with the clock and a read that began ends
  (weak).

## 4. Where code and documentation disagree

Checked by a run each (`findings` quotes both sides):

1. `NoDoubleRefund` (`payment_double_refund`): a refund that reached the provider
   and timed out is recorded as REFUND_FAILED and may be requested again; the
   request has no idempotency key.
2. `PaidIsPlaced` (`checkout_paid_is_placed`): the recovery loop records RECONCILED
   and then places the order; if it dies in between, a RECONCILED payment is not
   listed again.
3. `NotOverbooked` (`booking_overbooked`): the count of taken places belongs to the
   statement that waits for the slot's lock, and is made on the snapshot from
   before the wait. `OverbookedOnlyByRace` shows that this, and a hold that lapses
   while a booking is made from it, are the only ways.

The modules also state properties that are in no run, because they do not hold;
each can be tried by naming it in a cfg.

Money and points:

* `Payment!CapturedIsKept` - the answer to a second initialization that arrives after
  the capture of the first session overwrites CAPTURED with
  PROVIDER_ORDER_CREATED (`internal/payment/postgres_service.go:161`; the in-memory
  service rechecks the status, `service.go:194`). `Payment!StarvedRecovered` - a hundred
  candidates whose verification fails keep the recovery loop from every later one
  (`:263`).
* `Payment!RefundedIsFinal` - the answer to the refund request overwrites the webhook
  that overtook it. `Payment!RefundIntentSurvives` - nothing resubmits a recorded
  refund intent. `Payment!CaptureAccepted` - a capture can be turned away as a
  mismatch when the row has the transaction reference of an earlier attempt.
* `Wallet!ReversalPossible` - a lot that lapsed in part and later gets points back
  needs a second EXPIRY entry under the same unique key, so the refund fails, and
  fails again (`internal/wallet/postgres_service.go:440`).
* `WalletGrowth!CapPerDevice` - the cap of a device is counted over all accounts while
  only one is locked (`internal/wallet/postgres_service.go:592`).
  `WalletGrowth!RepeatIsAcknowledged` - the expiry of refilled points is computed from
  the clock and is part of the credit command, so a repeated webhook gets a conflict
  (`internal/checkout/service.go:231`).
* `Pricing!RefundThroughPaymentFits` - rounding a return down to whole points leaves a
  remainder that is asked of the payment, also where nothing passed through it
  (`internal/checkout/service.go:919`). `Pricing!DiscountedIsQuoted` - the
  rest of a discount goes to the last line, and where that line is worth less than the
  rest the whole quote is refused (`internal/checkout/service.go:1098`).
* `Checkout!GoodsNotResold` - a cash order is PLACED before its stock is committed;
  after a crash in between, the hold lapses and the goods are sold again.
  `Checkout!CancelledIsUnpaid` - CancelUncaptured voids the row and does not tell the
  provider, whose session can still be paid; the webhook is then refused.
  `Checkout!CancellationCompletes` - the refund of an order paid with points alone is of
  amount 0, which RequestRefund refuses every time (`internal/payment/postgres_service.go:481`).
  `Checkout!ReturnCompletes` - finalizeRefund writes REFUND_SUBMITTED over the REFUNDED of
  a webhook that overtook it, and with cash nobody confirms the refund.
* `Booking!VoidIsNotCharged`, `Food!RefusedIsNotCharged` - as `CancelledIsUnpaid`: the money
  of a session that is paid after the void stays with the provider, and no refund is
  asked for.
* `Booking!PaidInPoints` - a Create whose payment failed gives the points back; repeated,
  its redemption is answered from the ledger. `Booking!DeclinedIsRefunded` - a declined
  booking is not refunded, though `customerActions` offers VIEW_REFUND
  (`internal/booking/service.go:790`).
* `Food!TakenForAnOrder` - the same repetition, and a second command for the same cart,
  which takes points for an order that the unique index then refuses.

Everything else:

* `AddressBook!HasDefault` - an edit may give the default up, and two deletions at once
  may promote an address that is gone. `AddressBook!NoMutualWait` - two edits that each
  make another address the default lock their own rows first
  (`internal/checkout/postgres_store.go:188`).
  `AddressBook!PlacedWhereItStands` - an order goes where the quote's copy says, not where
  the address book does when it is placed (`internal/checkout/service.go:1383`).
* `Fulfilment!OfferEnds` - no code takes up an offer whose time has passed.
  `Chat!ReadStaysRead` - a late DELIVERED receipt replaces READ.
* `Social!BlockSevers` - Follow reads the block without a lock
  (`internal/social/postgres_service.go:547`), and a BLOCK of someone with an accepted
  follow fails every time: the counters are updated on the connection whose rows are
  still being read (`:689`). `Social!PendingIsReviewed` - only a report
  opens a decision, and nobody but the author sees a post that waits for one. `SocialMedia!ShownHasMedia` - the purge buries
  media that other content still shows (`postgres_engagement.go:345`).
  `SocialMessaging!BlockOverridesMessages` - OpenConversation does not look at blocks;
  `docs/phase-5/SOCIO_TRUST_ENTRY_SLICE.md:21` says otherwise.
* `LocalVerticals!WithheldIsReviewed` - there is no review: a withheld listing is shown
  again by a repost (`internal/localverticals/postgres_service.go:469`).
  `LocalVerticals!ActiveIsVerified` - a draft keeps the verification of the day it was
  written.
* `Identity!ReplayEnds` - a replayed token whose transaction is the victim of a deadlock
  leaves its session alive (`internal/identity/postgres_repository.go:120`, `:563`).
* `Messaging!AppliedOnce` - an effect is repeated when a handler outlives its lease.
* `Notification!HandedInTheEnd` - a delivery that the loop found undeliverable is a
  conflict for the order notifier, every time (`internal/notification/order_notifier.go:48`).
* `AdminOps!RejectedIsNotExecuted` - an approval that read the change before its rejection
  executes it (`internal/adminops/postgres.go:245`).
* `Audit!ExportVerifies` - an export of one country is not a chain
  (`internal/audit/service.go:105`).
* `ConfigCMS!CacheNeverGoesBack` - a slow read stores an old snapshot over a newer one
  (`internal/configcms/repository.go:116`).
* `Cart!CanBeEmptied` - two lines withdrawn from the catalogue hold each other
  (`internal/commerce/postgres_service.go:207`).
* `Media!ReadyHasObject` - a deletion removes the object and then loses the update of the
  row to a completion (`internal/media/service.go:182`).
* `Catalog!QuestionsStayReadable` - nothing bounds the questions of all customers on an
  item, and a list with too many is refused as a whole (`internal/catalog/repository.go:88`).

Two more facts the models show: a booking that was paid and never confirmed by its
customer stays PENDING_PAYMENT, since the sweeper cannot void it; and a food order whose
payment was captured after it was made can be refused by neither the restaurant nor
the sweeper, because its own copy of the payment never learns of the capture. Such rows
are what fills the pages of the three loops, and starves the rows behind them.

## 5. What is proved

TLAPS checks these for every value of the constants that satisfies the assumption of
the module that declares them:

| assumption | what it says beyond "bounds are natural numbers, flags Boolean" |
|---|---|
| `InventoryAssumption`, `OrderAssumption` | nothing |
| `TxAssumption` | variants are finitely many, and numbered in the order of their ids |
| `PaymentAssumption` | methods are those of the code; amount and page size are positive |
| `CheckoutAssumption` | methods and faults are those of the code; who pays by wallet uses points; shoppers, cancellers, retriers and the other processes have different names |
| `PlatformAssumption` | no worker, moderator or person is called "NONE"; people and channels are finitely many, and events numbered up to a last one; a listing is hidden after at least one report (the schema has 1 to 100: `migrations/local_verticals/000002`) |
| `NoticeAssumption` | no device is called "NONE"; the notification loop runs in finitely many processes |
| `LoginAssumption` | a session is of an identity |
| `AdminAssumption` | every change was requested by an administrator, and none is called "NOBODY" |
| `CartAssumption` | nothing |
| `BookingAssumption` | every hold has an owner; customers and holds are finitely many; no slot is called "NONE" and no customer "sweeper" |
| `AddressAssumption` | addresses are numbered from 1 |
| `DeliveryAssumption` | tasks are finitely many; every task has a zone; no rider is called "NOBODY" and no zone "OFF" |
| `SettlementAssumption` | gross amounts, lines and rates are not negative; no approver is called "NOBODY" |
| `SupplyAssumption` | a vendor is not an item, and an item has a vendor |
| `GrowthAssumption` | customers are numbered in the order of their `scopeKey`s; transactions are finitely many; an event and a refill have a customer |

Nearly every theorem states a definition that a run checks. Such an invariant is
seldom inductive; what had to be added says why the code is right, and is the point of
the proof:

* **`InventoryProofs`**, operations as single steps: `InventorySafe` (types,
  `RestockBounded`, `StockConserved`), `NoOversell` (`StockConserved`),
  `ReservationsOneWay` (`OneWay`) and `RestocksLogged` (`RestockLogComplete`). The
  invariant is `TypeOK /\ RestockBounded /\ StockConserved`: a restock keeps
  conservation only if it returns no more than is outstanding. Each action changes
  what one reservation holds, or what a batch holds, and `TotalChange`, `TotalSame`
  carry that over to the sum. What the log adds up to changes by one entry at a time.
* **`InventoryProofs`**, operations as transactions: `LocksMakeAtomic` (`TxSpec`
  implements `Inventory`, for any number of sessions, variants and reservations and
  any batch) and `CanonicalOrder` (`NoDeadlockWithoutSweeper`). `TxInv` says of every
  session that no other has its locks (`Exclusive`), that it read the clock no longer
  ago than a transaction may last (`Timely`), and that what it read under the locks it holds is
  still in the tables (`Sound`): at commit the operation of `Inventory` is enabled and
  writes what the session writes; every other step is a stutter. `Ordered` says that
  what a session has still to lock ranks above what it holds, but for the sweeper.
* **`Sums`**: `SumTo` is linear, local and monotone (`SumLinear`, `SumPoint`,
  `SumChange`, `SumSame`, `SumNat`, `SumZero`). The induction is made once, as an
  induction over subsets of the naturals (`SetInduction`).
* **`OrderProofs`**: `OrderSafe` (types, `DeliveredIsProven`, `ReturnCaseAgrees`,
  `IntentPerRevision`, `DeliveredMeansSent`), `NoLostUpdate` (`ActsOnWhatWasSeen`) and
  `OutboxFinal` (`DeliveredIsFinal`). The invariant adds to them that clients saw no
  revision the order has not reached (`SeenInOrder`; a command on a stale revision is
  refused only because of it), that a worker with an answer "SENT" did send
  (`WorkersKnow`), and that what is delivered is not leased (`DeliveredUnleased`).
  It also holds `PlacesKept` about `Booking` (types, `OverbookedOnlyByRace`,
  `CancelledIsSettled`). The invariant follows who has a place: `Places` counts the
  bookings of a slot and its holds that are in force, lapsed ones included while a
  Create is using them up (`Taken`), so that a hold which becomes a booking, by Create or
  Reschedule, keeps its place (`PlaceTurns`), and a Hold that has counted still finds a
  place free at its insert unless the slot was raced for (`PlacesCounted`). What a Hold
  marks as expired is used by nobody (`HoldsKept`). `Paid` says how far the payment and
  the points are at each step of a Create or a Cancel, whose effects a rollback leaves
  behind, and that a booking is in the hands of one Cancel at most; `Settlement`
  carries the payment through the steps that others take on it: it is void, asked back or
  reopened from the last step of a Cancel on.
* **`PaymentProofs`**: `BooksAreBacked` (`CapturedMeansPaid`) and `WebhooksForward`
  (types and `WebhooksNeverRegress`). A status is written from what a handler was told
  before its second transaction; `PayInv` adds what it may have been told (`CallsOK`:
  an answer to Verify is about a captured session, no other answer claims a capture)
  and that the references to paid attempts that the row took over are paid (`PaidRefs`).
* **`CheckoutProofs`**: `PlacementsBacked` (`PlacedIsBacked`) and `UndoingComplete`
  (`UndoneAsAWhole`), for any number of requests, cancellations and crashes. `CInv` says
  how far each process can be given what stock, wallet, payment and order have come
  to: until its placement is on record the order is the business of one request
  (`OnePlacement`), which knows what it has taken (`PlacementKnows`); goods stay with
  the order until it is undone (`GoodsKept`), and money is taken before it goes ahead
  and given back only once it is undone (`MoneyKept`, of all sessions, as a retry may have
  left the paid one behind); a cancellation or return past a
  step finds that step done (`CancellationKnows`, `ReturnKnows`, `CancelledOK`).
* **`ServiceProofs`**, about `MCPlatform`'s definitions:
  - `MediaDecides` (`DecidedStays`): the version a call saw is not above the asset's, and
    if it is the asset's so is the state (`MediaInv`); hence a stale completion loses.
  - `RewardsSettled` (`SettledAsCredited`): a worker that has an event and not its lease
    has outlived it, and what a worker was told is still true of the wallet (`RewardInv`).
  - `PublicationsKept` (`PublishedAsApproved`): a publication that will pass the
    revision check was built on the snapshot that is current (`CMSInv`).
  - `ModerationKept` (`ModerationHolds`): what content shows was cleared when it was
    chosen and stays so (`GalleryInv`); a listing counts each customer's report once,
    and is withheld at the threshold unless it was posted anew (`LocalsInv`).
  - `BlocksKept` (`BlocksSilence`): only members of a chat have receipts (`ChatInv`);
    under a block a conversation is closed, or was opened under it by a request that
    had looked before (`TalkInv`).
  - `LoginsKept` (`LoginsAreSound`, and the refinement `Identity!ImplementsMemory`
    itself), for any identities, sessions and requests. `LoginInv` says of a family of
    tokens what is active and that nothing was issued beyond the session's rotation
    (`Family`), and that a request holding locks is about a session that exists. Taking
    a lock, or losing a deadlock, changes nothing the memory has; a commit is one
    operation of `IdentityMemory`, because its locks kept the rows as they were checked.
  - `ChangesKept` (`ChangesAreSound`, and `AdminOps!ImplementsMemory`), for any
    administrators, changes and calls. `AdminInv` says of a call between two of its
    transactions that it is what it was allowed to be when it began (a submission the
    requester's, an approval somebody else's) and that it will report a change executed
    only after the command was: what makes the row that is written later, perhaps after
    a rejection, a decision the service in memory could have taken. The revision of a
    target is counted along the executions.
* **`PlatformProofs`**, about `MCPlatform`'s definitions as well:
  - `CountersKept` (`CountsAgree`), for any people, posts and channels. A step changes
    the accepted follows by a set of pairs that were not accepted, or were, and each
    counter by the number of those pairs that end at its person: one for a follow or an
    acceptance, both directions for a block (`GraphUp`, `GraphDown`). `SocialInv`
    adds that whom a request looked up is somebody else, so that it follows along a pair.
  - `MessagesAccounted` (`DeliveriesAccounted`), for any events, dispatchers, consumers,
    devices and processes, from `EffectsInOrder` and `SendsKept`. `BusInv` says that a
    consumer has begun a version only after all before it are done, and that what is
    done has had its effect; the highest version done is then the length of a beginning
    of the versions (`NextVersion`), and `Begin` goes one further. `NoticeInv` counts: the
    messages a device got, the processes that may still send it one and, if the delivery
    is due, the process that will claim it, are together at most one and its doubts. A
    claim turns the last into a process, a sending a process into a message, and only a
    lost answer, process or claim adds to the sum, which it adds to the doubts too.
  - `SessionsKept` (`SessionsAccounted`), for any number of overlapping requests, logins
    and cookies. `WebInv` is custody: a login that is honoured and not excused is in one
    row at most, and in a row or with a request; its row has the token that the identity
    service expects unless the one request with the row's lease has spent it and is about
    to replace the row. Most steps only let go of something, and `WebLets` treats them at
    once.
* **`TradeProofs`**, about `Trade`'s definitions:
  - `DeliveriesKept` (`DeliveriesHeld`: `DutyHeld` for `RiderHoldsDuty`,
    `DeliveriesCarried` for `CarriedToTheEnd`), for any riders, tasks, zones and batches. `DutyInv` adds that a task taken, carried,
    delivered or taken away has a rider, so that the one who is paid for a delivery is
    a rider; a command from a device's queue meets the row as it is when the batch
    arrives, and is checked against that. That no rider has more tasks than allowed is counted:
    a step adds one element to what one rider has, and to nobody else's.
  - `SettledOnce` (`PaidOutOnce`), for any entries, payouts, approvers and retries. An
    entry belongs to one payout or none, and `Balanced` says of every account that its
    available money is what nobody claimed and what its payouts are worth. A new payout
    moves exactly the sum of what it claims from one side to the other (`SumLinear`,
    `SumChange` of `Sums`), and a repeated execution moves nothing.
  - `VouchedFor` (`LiveWasVouchedFor`). The timeline of an application is the path to its
    stage; what staff have on the screen under the current revision is the current
    content (`AppShown`, `ItemShown`), so that a decision which passes the revision check
    is about what was seen; who has an item in the catalogue was verified before.
  - `RefusalsSettled` (`RefusedIsSettled`), from no assumption at all. `FoodInv` says how
    far a creation or a refusal is, given what wallet and payment have already done
    outside the transaction that may yet be rolled back (`CreateOK`, `RefuseOK`), and
    that two of them do not hold one order (`Apart`); an order that does not exist yet
    has a payment that is still open or captured (`FundsOK`).
  - `GrowthKept` (`GrowthIsSound`). A balance read under the lock is the balance
    (`Locked`), one account has one holder (`Exclusive`), and what will be entered in
    the ledger is not there yet (`Unrewarded`, `NotClaimed`). No transactions wait in a
    circle because a transaction that waits wants a higher account than it has: among
    the waiting there is one whose account is the highest, and its holder does not wait.
  - `CartRefines` (`CartImplementsMemory`), a refinement with the cart itself as the
    mapping. `CartInv` says of a call that has read the lines that they are those of the
    revision it named, if the cart is still at that revision; revisions only grow, so a
    call that read a row and the lines of the next revision is refused in the end.
  - `AddressesKept` (`AddressedAsShown`). Every answer for a key is its quote, and there
    is none before the quote is stored (`QuoteInv`). A command that edits an address saw
    it at its revision or an earlier one, and one that has locked the row saw it as it is
    (`BookInv`); who commits to the same row meanwhile would have to hold its lock, or to
    create an address that is there already.

Trying to prove `RefusedIsSettled` showed that the compensations of `Food` and `Booking`
were written with a CASE whose guards overlap (points only, and captured). TLC takes the
first, TLA+ leaves the choice open; they are now written in the order of the code's `if`s.

Only model-checked, and why:

* every liveness property (`DueIsReleased`, `LostWebhookRecovered`,
  `MCEventuallyDelivered`, `UnpaidIsFreed`, and those of `loops`) and `ENABLED`: beyond
  this prover;
* `TrailsAreWhole`, `WalletIsSound`, `RefundsFit`, `ReadersAreTold`: what they say of a
  history, of lots, of shares or of pages needs induction over data.

## 6. What is not modelled, and the plan

Not modelled because no other operation depends on state they keep: HTTP routing and
rendering, the gateway, the governance dashboard, signature checks, encryption and
encoding, schema migrations, start-up, telemetry, catalogue search and feeds, which
read only. The admin shell's own sessions, notification preferences and templates,
attendance entries and field check-ins are rows written by one statement each. The
in-memory services that are not an abstract specification above run the same
operations under one mutex and are not modelled again.

Planned, proofs first:

1. `Reconciles` and `LotsConserved` of `Wallet` (needs that the points taken from the lots
   add up to the points asked for).
