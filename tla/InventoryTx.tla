---------------------------- MODULE InventoryTx ----------------------------
(***************************************************************************)
(* The inventory operations as the READ COMMITTED transactions they are:   *)
(* each takes its locks one at a time, in the order of the statements of   *)
(* postgres_service.go, checks what it read under them, and makes all its  *)
(* writes visible at COMMIT.  Any number of replicas run them at the same  *)
(* time, and the sweeper with them.  The tables are those of Inventory,    *)
(* with what is committed in them; a transaction's own writes stay in its  *)
(* record until it commits.                                                *)
(***************************************************************************)
EXTENDS Inventory, SequencesExt

CONSTANTS
  Txs,        \* database sessions
  BatchLimit  \* reservations of one sweep (500 in the code)

\* Variants are numbered in the order of their ids, the canonical lock order.
ASSUME TxAssumption ==
  /\ Variants \subseteq Nat /\ IsFiniteSet(Variants)
  /\ BatchLimit \in Nat

VARIABLES
  tx,    \* what each session is doing and the locks it has still to take
  held   \* locks each session holds until its transaction ends

txVars == <<tx, held>>
allVars == <<vars, txVars>>

Idle == [op |-> "idle", plan |-> <<>>, at |-> 0]

\* The stock rows of some lines, in variant order (sorted by normalizeRequest,
\* ORDER BY variant_id in loadPostgresReservation): the i-th has i - 1 before it.
StockRows(l) ==
  LET asked == {v \in Variants : l[v] > 0}
  IN  [i \in 1..Cardinality(asked) |->
         <<"stock", CHOOSE v \in asked : Cardinality({u \in asked : u < v}) = i - 1>>]

\* Mutant: stock rows are read without FOR UPDATE.
FreeStock(p, lock) == lock[1] = "stock" \/ \A o \in Txs \ {p} : lock \notin held[o]

\* Mutant: the reservation row is read without FOR UPDATE.
FreeRow(p, lock) == lock[1] = "row" \/ \A o \in Txs \ {p} : lock \notin held[o]

Free(p, lock) == \A o \in Txs \ {p} : lock \notin held[o]

TxTypeOK ==
  /\ TypeOK
  /\ \A p \in Txs : tx[p].op \in {"idle", "reserve", "transition", "restock", "expire"}
  /\ \A p \in Txs : tx[p].op = "idle" => held[p] = {}

TxInit ==
  /\ Init
  /\ tx = [p \in Txs |-> Idle]
  /\ held = [p \in Txs |-> {}]

----------------------------------------------------------------------------

\* Mutant: stock rows are locked in the order the caller listed them.
BeginReserveUnsorted(p, k, wanted, until) ==
  /\ tx[p] = Idle
  /\ \E rows \in {StockRows(wanted), Reverse(StockRows(wanted))} :
       tx' = [tx EXCEPT ![p] =
                [op |-> "reserve", key |-> k, lines |-> wanted, until |-> until,
                 at |-> now, plan |-> <<<<"key", k>>>> \o rows]]
  /\ UNCHANGED <<vars, held>>

BeginReserve(p, k, wanted, until) ==
  /\ tx[p] = Idle
  /\ tx' = [tx EXCEPT ![p] =
              [op |-> "reserve", key |-> k, lines |-> wanted, until |-> until,
               at |-> now, plan |-> <<<<"key", k>>>> \o StockRows(wanted)]]
  /\ UNCHANGED <<vars, held>>

BeginTransition(p, k, target) ==
  /\ tx[p] = Idle
  /\ state[k] # "NONE"
  /\ tx' = [tx EXCEPT ![p] =
              [op |-> "transition", key |-> k, target |-> target,
               at |-> now, plan |-> <<<<"row", k>>>>]]
  /\ UNCHANGED <<vars, held>>

BeginRestock(p, q, k, back) ==
  /\ tx[p] = Idle
  /\ state[k] # "NONE"
  /\ tx' = [tx EXCEPT ![p] =
              [op |-> "restock", request |-> q, key |-> k, lines |-> back, at |-> now,
               plan |-> <<<<"restock", q>>, <<"row", k>>>> \o StockRows(back)]]
  /\ UNCHANGED <<vars, held>>

\* The sweep's SELECT ... ORDER BY expires_at, id FOR UPDATE SKIP LOCKED
\* LIMIT: the earliest due reservations nobody has locked.
Claimable(p) == {k \in Due : Free(p, <<"row", k>>)}
Before(j, k) ==
  \/ expiresAt[j] < expiresAt[k]
  \/ expiresAt[j] = expiresAt[k] /\ j < k
Earliest(p, batch) ==
  /\ Cardinality(batch) = Min({BatchLimit, Cardinality(Claimable(p))})
  /\ \A j \in batch, k \in Claimable(p) \ batch : Before(j, k)

\* The stock rows of a batch, reservation by reservation, which is not the
\* canonical order once a batch holds two reservations.
BatchRows(batch) ==
  LET order == SetToSortSeq(batch, Before)
  IN  FlattenSeq([i \in DOMAIN order |-> StockRows(lines[order[i]])])

BeginExpire(p) ==
  /\ tx[p] = Idle
  /\ Claimable(p) # {}
  /\ \E batch \in SUBSET Claimable(p) :
       /\ Earliest(p, batch)
       /\ tx' = [tx EXCEPT ![p] =
                   [op |-> "expire", batch |-> batch, at |-> now, plan |-> BatchRows(batch)]]
       /\ held' = [held EXCEPT ![p] = {<<"row", k>> : k \in batch}]
  /\ UNCHANGED vars

----------------------------------------------------------------------------

\* What a statement checks once it has its lock; failing it, the transaction
\* returns an error or a replay and rolls back.
Admits(p, lock) ==
  CASE lock[1] = "key"     -> state[tx[p].key] = "NONE"
    [] lock[1] = "restock" -> restocks[tx[p].request] = NoRestock
    [] lock[1] = "row"     ->
         IF tx[p].op = "transition" THEN state[tx[p].key] = "RESERVED"
         ELSE /\ state[tx[p].key] = "COMMITTED"
              /\ \A v \in Variants :
                   tx[p].lines[v] <= lines[tx[p].key][v] - restocked[tx[p].key][v]
    [] lock[1] = "stock"   -> tx[p].op = "reserve" => tx[p].lines[lock[2]] <= stock[lock[2]]

\* A transition reads the clock after it has the reservation row, and only
\* then knows whether the reservation's stock rows are to be updated.
AfterRow(p) ==
  LET k == tx[p].key
      back == Expired(k, now) \/ tx[p].target = "RELEASED"
  IN  [op |-> "transition", key |-> k, at |-> now,
       target |-> IF back THEN "RELEASED" ELSE "COMMITTED",
       plan |-> IF back THEN StockRows(lines[k]) ELSE <<>>]

\* Any other statement leaves the rest of the plan.
Onward(p) == [tx[p] EXCEPT !.plan = Tail(tx[p].plan)]

Lock(p) ==
  /\ tx[p].plan # <<>>
  /\ LET lock == Head(tx[p].plan)
     IN  /\ Free(p, lock)
         /\ Admits(p, lock)
         /\ held' = [held EXCEPT ![p] = @ \cup {lock}]
         /\ tx' = [tx EXCEPT ![p] =
                     IF tx[p].op = "transition" /\ lock[1] = "row" THEN AfterRow(p)
                     ELSE Onward(p)]
  /\ UNCHANGED vars

End(p) ==
  /\ tx' = [tx EXCEPT ![p] = Idle]
  /\ held' = [held EXCEPT ![p] = {}]

Refuse(p) ==
  /\ tx[p].plan # <<>>
  /\ Free(p, Head(tx[p].plan))
  /\ ~Admits(p, Head(tx[p].plan))
  /\ End(p)
  /\ UNCHANGED vars

\* The operation's timeout, a lost connection, a crash of the replica, or the
\* database choosing it as a deadlock's victim: nothing of it is visible.
Rollback(p) ==
  /\ tx[p] # Idle
  /\ End(p)
  /\ UNCHANGED vars

----------------------------------------------------------------------------

Ready(p, op) == tx[p].op = op /\ tx[p].plan = <<>>

CommitReserve(p) ==
  /\ Ready(p, "reserve")
  /\ stock' = [v \in Variants |-> stock[v] - tx[p].lines[v]]
  /\ state' = [state EXCEPT ![tx[p].key] = "RESERVED"]
  /\ expiresAt' = [expiresAt EXCEPT ![tx[p].key] = tx[p].until]
  /\ lines' = [lines EXCEPT ![tx[p].key] = tx[p].lines]
  /\ End(p)
  /\ UNCHANGED <<restocked, restocks, now>>

CommitTransition(p) ==
  /\ Ready(p, "transition")
  /\ IF tx[p].target = "RELEASED" THEN Restore(lines[tx[p].key]) ELSE UNCHANGED stock
  /\ state' = [state EXCEPT ![tx[p].key] = tx[p].target]
  /\ End(p)
  /\ UNCHANGED <<expiresAt, lines, restocked, restocks, now>>

CommitRestock(p) ==
  /\ Ready(p, "restock")
  /\ Restore(tx[p].lines)
  /\ restocked' = [restocked EXCEPT ![tx[p].key] =
                     [v \in Variants |-> @[v] + tx[p].lines[v]]]
  /\ restocks' = [restocks EXCEPT ![tx[p].request] =
                     [of |-> tx[p].key, lines |-> tx[p].lines]]
  /\ End(p)
  /\ UNCHANGED <<state, expiresAt, lines, now>>

CommitExpire(p) ==
  /\ Ready(p, "expire")
  /\ ExpireBatch(tx[p].batch)
  /\ End(p)

\* Time passes; an open transaction is rolled back before it is ClockLag old.
TxTick ==
  /\ \A p \in Txs : tx[p] # Idle => now < tx[p].at + ClockLag
  /\ Tick
  /\ UNCHANGED txVars

TxNext ==
  \/ \E p \in Txs, k \in Keys, wanted \in Lines, until \in (now + 1)..(now + MaxHold) :
       BeginReserve(p, k, wanted, until)
  \/ \E p \in Txs, k \in Keys, target \in {"COMMITTED", "RELEASED"} :
       BeginTransition(p, k, target)
  \/ \E p \in Txs, q \in RestockKeys, k \in Keys, back \in Lines :
       BeginRestock(p, q, k, back)
  \/ \E p \in Txs :
       \/ BeginExpire(p) \/ Lock(p) \/ Refuse(p) \/ Rollback(p)
       \/ CommitReserve(p) \/ CommitTransition(p) \/ CommitRestock(p) \/ CommitExpire(p)
  \/ TxTick

TxSpec == TxInit /\ [][TxNext]_allVars

----------------------------------------------------------------------------

\* The row and advisory locks make the transactions atomic: however their
\* statements interleave, the committed tables evolve as in Inventory, where
\* each operation is a single step.
Atomically == INSTANCE Inventory
ImplementsInventory == Atomically!Spec

\* Sessions that wait for one another in a circle.
WaitsFor(p, o) == tx[p].plan # <<>> /\ Head(tx[p].plan) \in held[o] /\ o # p
Deadlocked(S) == S # {} /\ \A p \in S : \E o \in S : WaitsFor(p, o)

\* "Stock rows are locked in canonical variant order so concurrent multi-line
\* reservations cannot ... deadlock each other": no circle of waits without a
\* sweeper in it, be it made of reservations, commits, releases or restocks.
NoDeadlockWithoutSweeper ==
  \A S \in SUBSET {p \in Txs : tx[p].op # "expire"} : ~Deadlocked(S)

----------------------------------------------------------------------------
\* What the runs instantiate: few units, so that reservations compete for the
\* last one.

MCVariants == 1..2
TwoAndOne == <<2, 1>>
OneEach == <<1, 1>>

\* The operations as single steps, with FairSpec's fairness: no transaction is
\* ever begun.
AtOnce(A) == A /\ UNCHANGED txVars

AtomicSpec ==
  /\ TxInit /\ [][AtOnce(Next)]_allVars
  /\ WF_allVars(AtOnce(Expire)) /\ WF_allVars(AtOnce(Tick))
=============================================================================
