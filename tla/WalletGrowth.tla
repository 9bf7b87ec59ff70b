---------------------------- MODULE WalletGrowth ----------------------------
(***************************************************************************)
(* How points come into a wallet: referrals, engagement rewards and paid   *)
(* refills (internal/wallet PostgresService, internal/checkout Service).   *)
(* Unlike the operations of Wallet these touch several accounts: a         *)
(* referral credits two, a device cap counts the claims of all.  A         *)
(* transaction holds the account rows it locked until it ends; tx[t].rows  *)
(* are those rows, tx[t].seen the balances read under the locks.           *)
(*                                                                         *)
(* A scope is a number and scopeKey's order that of the numbers.  Lots and *)
(* their expiry are in Wallet; here an entry is its account, key, points.  *)
(***************************************************************************)
EXTENDS Naturals, FiniteSets, FiniteSetsExt, Sequences

CONSTANTS
  Customers,        \* a set of numbers
  Events,           \* engagement events waiting for their reward
  CustomerOf, DeviceOf,
  DailyDeviceCap,
  Transactions,     \* open database transactions
  Refills,          \* idempotency keys of refill requests
  PayerOf,
  MaxDay            \* bound on the clock

VARIABLES codes, application, balance, ledger, claims, tx, today, resting, refill

vars == <<codes, application, balance, ledger, claims, tx, today, resting, refill>>

growth == <<codes, application, claims, today, resting>>

Points == 1
None == 0
Idle == [op |-> "NONE", who |-> None, event |-> "none", day |-> 0, rows |-> <<>>,
         seen |-> <<>>, admitted |-> FALSE]

\* A refill: its payment, whether checkout knows the payment as a refill, the
\* answer stored for the key, and the credits and refusals of its webhooks.
NoRefill == [payment |-> "NONE", process |-> FALSE, command |-> FALSE, refused |-> FALSE]

Init ==
  /\ codes = {}
  /\ application = [c \in Customers |-> [owner |-> None, activated |-> FALSE]]
  /\ balance = [c \in Customers |-> 0]
  /\ ledger = {} /\ claims = {}
  /\ tx = [t \in Transactions |-> Idle]
  /\ today = 0
  /\ resting = {}
  /\ refill = [r \in Refills |-> NoRefill]

----------------------------------------------------------------------------
(* Referrals are applied once and rewarded at the first captured purchase. *)

\* referralProfile, called for every look at the wallet, issues the code.
Experience(c) ==
  /\ codes' = codes \cup {c}
  /\ UNCHANGED <<application, balance, ledger, claims, tx, today, resting, refill>>

\* A replay is answered from wallet.referral_requests and changes nothing;
\* the primary key of referral_applications admits one for a customer.
ApplyReferral(c, owner) ==
  /\ owner \in codes /\ owner # c
  /\ application[c].owner = None
  /\ application' = [application EXCEPT ![c].owner = owner]
  /\ UNCHANGED <<codes, balance, ledger, claims, tx, today, resting, refill>>

\* The application row is locked before anything else and is read again once
\* the lock is granted.
BeginActivation(t, c) ==
  /\ tx[t] = Idle
  /\ application[c].owner # None /\ ~application[c].activated
  /\ \A u \in Transactions : ~(tx[u].op = "ACTIVATE" /\ tx[u].who = c)
  /\ tx' = [tx EXCEPT ![t].op = "ACTIVATE", ![t].who = c]
  /\ UNCHANGED <<growth, balance, ledger, refill>>

\* Mutant: the sender's account is locked first.
OwnerFirst(t) ==
  IF tx[t].op = "ACTIVATE" THEN <<application[tx[t].who].owner, tx[t].who>>
  ELSE IF tx[t].op = "NONE" THEN <<>> ELSE <<tx[t].who>>

\* The accounts a transaction locks, in scopeKey's order.
LockOrder(t) ==
  LET owner == application[tx[t].who].owner
      referred == tx[t].who
  IN  CASE tx[t].op = "NONE" -> <<>>
        [] tx[t].op = "ACTIVATE" /\ owner < referred -> <<owner, referred>>
        [] tx[t].op = "ACTIVATE" /\ owner > referred -> <<referred, owner>>
        [] OTHER -> <<tx[t].who>>

Wants(t) == LockOrder(t)[Len(tx[t].rows) + 1]
Holds(t, c) == \E i \in 1..Len(tx[t].rows) : tx[t].rows[i] = c
LocksAll(t) == Len(tx[t].rows) = Len(LockOrder(t))
Waits(t, u) == ~LocksAll(t) /\ t # u /\ Holds(u, Wants(t))

\* Mutant: the balance is read without FOR UPDATE.
lockWalletAccountUnlocked(t) ==
  /\ tx[t].op # "NONE" /\ ~LocksAll(t)
  /\ tx' = [tx EXCEPT ![t].rows = Append(@, Wants(t)),
                      ![t].seen = Append(@, balance[Wants(t)])]
  /\ UNCHANGED <<growth, balance, ledger, refill>>

\* lockWalletAccount creates the row if there is none and selects it FOR
\* UPDATE.
lockWalletAccount(t) ==
  /\ tx[t].op # "NONE" /\ ~LocksAll(t)
  /\ \A u \in Transactions : ~Waits(t, u)
  /\ tx' = [tx EXCEPT ![t].rows = Append(@, Wants(t)),
                      ![t].seen = Append(@, balance[Wants(t)])]
  /\ UNCHANGED <<growth, balance, ledger, refill>>

Seen(t, c) == tx[t].seen[CHOOSE i \in 1..Len(tx[t].rows) : tx[t].rows[i] = c]
Entry(c, kind, reference) == [who |-> c, kind |-> kind, reference |-> reference]

\* What the transaction saw of each account it locked, and what it appends.
updateWalletAccount(t) ==
  balance' = [c \in Customers |-> IF Holds(t, c) THEN Seen(t, c) + Points ELSE balance[c]]

ActivateReferral(t) ==
  LET referred == tx[t].who
      owner == application[referred].owner
  IN  /\ tx[t].op = "ACTIVATE" /\ LocksAll(t)
      /\ ledger' = ledger \cup {Entry(owner, "SENDER", referred), Entry(referred, "RECIPIENT", referred)}
      /\ updateWalletAccount(t)
      /\ application' = [application EXCEPT ![referred].activated = TRUE]
      /\ tx' = [tx EXCEPT ![t] = Idle]
      /\ UNCHANGED <<codes, claims, today, resting, refill>>

----------------------------------------------------------------------------
(* Engagement rewards are capped by the device that earned them.           *)

\* The clock is read before the account is locked.
BeginReward(t, e) ==
  /\ tx[t] = Idle
  /\ tx' = [tx EXCEPT ![t].op = "REWARD", ![t].who = CustomerOf[e], ![t].event = e,
                      ![t].day = today]
  /\ UNCHANGED <<growth, balance, ledger, refill>>

\* The points claimed on a device since the start of a day.
Used(device, day) ==
  Points * Cardinality({k \in claims : DeviceOf[k.event] = device /\ k.day >= day})

Claimed(e) == \E k \in claims : k.event = e

\* The limits are read over the claims of every account; only the own account
\* is locked.
ReadLimits(t) ==
  LET device == DeviceOf[tx[t].event]
  IN  /\ tx[t].op = "REWARD" /\ LocksAll(t) /\ ~tx[t].admitted
      /\ ~Claimed(tx[t].event)
      /\ Used(device, tx[t].day) + Points <= DailyDeviceCap
      /\ device \notin resting
      /\ tx' = [tx EXCEPT ![t].admitted = TRUE]
      /\ UNCHANGED <<growth, balance, ledger, refill>>

RewardEngagement(t) ==
  LET e == tx[t].event
  IN  /\ tx[t].op = "REWARD" /\ tx[t].admitted
      /\ ledger' = ledger \cup {Entry(tx[t].who, "ENGAGEMENT", e)}
      /\ claims' = claims \cup {[event |-> e, day |-> tx[t].day]}
      /\ updateWalletAccount(t)
      /\ resting' = resting \cup {DeviceOf[e]}
      /\ tx' = [tx EXCEPT ![t] = Idle]
      /\ UNCHANGED <<codes, application, today, refill>>

\* A refusal, an error, the operation's timeout or a crash rolls back.
Rollback(t) ==
  /\ tx[t] # Idle
  /\ tx' = [tx EXCEPT ![t] = Idle]
  /\ UNCHANGED <<growth, balance, ledger, refill>>

Cooldown(device) ==
  /\ device \in resting
  /\ resting' = resting \ {device}
  /\ UNCHANGED <<codes, application, balance, ledger, claims, tx, today, refill>>

NextDay ==
  /\ today < MaxDay
  /\ today' = today + 1
  /\ UNCHANGED <<codes, application, balance, ledger, claims, tx, resting, refill>>

----------------------------------------------------------------------------
(* A refill is bought and credited when its capture is reported.           *)

\* CreateWithPayer of the payment, replayed under "<key>-payment".
CreateWalletRefill(r) ==
  /\ ~refill[r].command /\ refill[r].payment = "NONE"
  /\ refill' = [refill EXCEPT ![r].payment = "CREATED"]
  /\ UNCHANGED <<growth, balance, ledger, tx>>

\* One transaction stores the process row and the answer to the key; the
\* process may die before it, and the customer may then repeat the request.
SaveRefill(r) ==
  /\ refill[r].payment # "NONE" /\ ~refill[r].command
  /\ refill' = [refill EXCEPT ![r].process = TRUE, ![r].command = TRUE]
  /\ UNCHANGED <<growth, balance, ledger, tx>>

Captured(r) ==
  /\ refill[r].payment = "CREATED"
  /\ refill' = [refill EXCEPT ![r].payment = "CAPTURED"]
  /\ UNCHANGED <<growth, balance, ledger, tx>>

RefillCredit(r) == Entry(PayerOf[r], "REFILL", r)

\* Mutant: no entry of the same key is looked for.
FinalizeAgain(r) ==
  LET payer == PayerOf[r]
  IN  /\ refill[r].payment = "CAPTURED" /\ refill[r].process
      /\ \A t \in Transactions : ~Holds(t, payer)
      /\ ledger' = ledger \cup {RefillCredit(r)}
      /\ balance' = [balance EXCEPT ![payer] = @ + Points]
      /\ UNCHANGED <<growth, tx, refill>>

\* A webhook of the capture, the provider's repetitions included.  The key of
\* the credit is that of the payment, so there is one; the expiry, which the
\* fingerprint includes, is that of the call, so that a repetition is an
\* idempotency conflict and is answered with an error.
FinalizeProviderWalletRefill(r) ==
  LET payer == PayerOf[r]
  IN  /\ refill[r].payment = "CAPTURED" /\ refill[r].process
      /\ \A t \in Transactions : ~Holds(t, payer)
      /\ ledger' = ledger \cup {RefillCredit(r)}
      /\ IF RefillCredit(r) \in ledger
         THEN /\ refill' = [refill EXCEPT ![r].refused = TRUE]
              /\ UNCHANGED balance
         ELSE /\ balance' = [balance EXCEPT ![payer] = @ + Points]
              /\ UNCHANGED refill
      /\ UNCHANGED <<growth, tx>>

\* A webhook that finds no process row is answered with an error.
HasNoWalletRefill(r) ==
  /\ refill[r].payment = "CAPTURED" /\ ~refill[r].process
  /\ refill' = [refill EXCEPT ![r].refused = TRUE]
  /\ UNCHANGED <<growth, balance, ledger, tx>>

----------------------------------------------------------------------------

Next ==
  \/ \E c \in Customers : Experience(c) \/ \E owner \in Customers : ApplyReferral(c, owner)
  \/ \E t \in Transactions :
       \/ \E c \in Customers : BeginActivation(t, c)
       \/ \E e \in Events : BeginReward(t, e)
       \/ lockWalletAccount(t)
       \/ ActivateReferral(t)
       \/ ReadLimits(t)
       \/ RewardEngagement(t)
       \/ Rollback(t)
  \/ \E e \in Events : Cooldown(DeviceOf[e])
  \/ NextDay
  \/ \E r \in Refills :
       \/ CreateWalletRefill(r)
       \/ SaveRefill(r)
       \/ Captured(r)
       \/ FinalizeProviderWalletRefill(r)
       \/ HasNoWalletRefill(r)

Spec == Init /\ [][Next]_vars

----------------------------------------------------------------------------

\* However referrals run across each other (customers may have applied one
\* another's codes), among any transactions in flight one waits for none of
\* them: Postgres never has to break a cycle of account locks.
NoMutualWait ==
  \A S \in SUBSET {t \in Transactions : tx[t] # Idle} :
    S # {} => \E t \in S : \A u \in S : ~Waits(t, u)

\* The balance column is the sum of the account's ledger entries, although it
\* is written from what the transaction read before it appended.
BalanceIsLedger ==
  \A c \in Customers :
    balance[c] = Points * Cardinality({x \in ledger : x.who = c})

\* The cap of a device over all accounts.  Not so: two accounts of one device
\* read the limits before either has claimed.
CapPerDevice ==
  \A e \in Events : Used(DeviceOf[e], 0) <= (MaxDay + 1) * DailyDeviceCap

\* A webhook that reports a credited refill again is acknowledged.  Not so.
RepeatIsAcknowledged ==
  \A r \in Refills : refill[r].refused => RefillCredit(r) \notin ledger

=============================================================================
