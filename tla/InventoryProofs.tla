-------------------------- MODULE InventoryProofs --------------------------
(***************************************************************************)
(* Inventory, for any variants, any stock and any number of reservations:  *)
(* types, conservation of stock and the bound on restocks.  Conservation   *)
(* is not inductive alone: that a restock returns no more than is          *)
(* outstanding needs the bound on restocks, and both need the types.       *)
(* Then the transactions of InventoryTx, for any sessions and sweeps: they *)
(* implement Inventory, where each operation is one step, and those that   *)
(* are not sweeps never wait for one another in a circle.                  *)
(***************************************************************************)
EXTENDS InventoryTx, FiniteSetTheorems

IInv == TypeOK /\ RestockBounded /\ StockConserved

\* Under the invariants no reservation holds a negative quantity.
LEMMA OutstandingNat ==
  ASSUME TypeOK, RestockBounded, NEW k \in Keys, NEW v \in Variants
  PROVE  Outstanding(k, v) \in Nat
  BY DEF TypeOK, RestockBounded, Outstanding

\* A step that changes what one reservation holds by d changes the total by d.
LEMMA TotalChange ==
  ASSUME TypeOK, RestockBounded, NEW k \in Keys, NEW v \in Variants, NEW d \in Int,
         \A j \in Keys : Outstanding(j, v)' =
                           IF j = k THEN Outstanding(j, v) + d ELSE Outstanding(j, v)
  PROVE  /\ OutstandingTotal(v) \in Int
         /\ OutstandingTotal(v)' = OutstandingTotal(v) + d
<1> DEFINE f == [j \in Keys |-> Outstanding(j, v)]
           g == [j \in Keys |-> Outstanding(j, v)']
<1>1. \A i \in 1..MaxKey : f[i] \in Int
  BY OutstandingNat DEF Keys
<1>2. \A i \in 1..MaxKey : g[i] = IF i = k THEN f[i] + d ELSE f[i]
  BY DEF Keys
<1>3. OutstandingTotal(v) = SumTo(f, MaxKey) /\ OutstandingTotal(v)' = SumTo(g, MaxKey)
  BY DEF OutstandingTotal
<1>4. k \in 1..MaxKey /\ MaxKey \in Nat
  BY InventoryAssumption DEF Keys
<1>5. SumTo(f, MaxKey) \in Int /\ SumTo(g, MaxKey) = SumTo(f, MaxKey) + d
  <2> DEFINE p == [i \in 1..MaxKey |-> IF i = k THEN d ELSE 0]
  <2>1. SumTo(p, MaxKey) = d
    BY <1>4, SumPoint
  <2>2. \A i \in 1..MaxKey : f[i] \in Int /\ p[i] \in Int /\ g[i] = f[i] + p[i]
    <3> HIDE DEF f, g
    <3> QED BY <1>1, <1>2
  <2> HIDE DEF f, g, p
  <2>3. SumTo(f, MaxKey) \in Int /\ SumTo(g, MaxKey) = SumTo(f, MaxKey) + SumTo(p, MaxKey)
    BY <2>2, <1>4, SumLinear
  <2> QED BY <2>1, <2>3
<1> QED BY <1>3, <1>5

\* A step that changes no reservation leaves the total alone.
LEMMA TotalSame ==
  ASSUME TypeOK, RestockBounded, NEW v \in Variants,
         \A j \in Keys : Outstanding(j, v)' = Outstanding(j, v)
  PROVE  OutstandingTotal(v)' = OutstandingTotal(v)
<1> DEFINE f == [j \in Keys |-> Outstanding(j, v)]
           g == [j \in Keys |-> Outstanding(j, v)']
<1>1. \A i \in 1..MaxKey : f[i] \in Int /\ g[i] = f[i]
  BY OutstandingNat DEF Keys
<1>2. OutstandingTotal(v) = SumTo(f, MaxKey) /\ OutstandingTotal(v)' = SumTo(g, MaxKey)
  BY DEF OutstandingTotal
<1>3. SumTo(g, MaxKey) = SumTo(f, MaxKey)
  <2> HIDE DEF f, g
  <2> QED BY <1>1, SumSame, InventoryAssumption
<1> QED BY <1>2, <1>3

\* The initial state satisfies the invariant: nothing is outstanding.
LEMMA InitIInv == Init => IInv
<1> SUFFICES ASSUME Init PROVE IInv
  OBVIOUS
<1>1. TypeOK
  BY InventoryAssumption DEF Init, TypeOK, NoLines, NoRestock
<1>2. RestockBounded
  BY DEF Init, RestockBounded, NoLines
<1>3. ASSUME NEW v \in Variants
      PROVE  stock[v] + OutstandingTotal(v) = InitialStock[v]
  <2>1. \A i \in 1..MaxKey : [k \in Keys |-> Outstanding(k, v)][i] = 0
    BY DEF Init, Outstanding, Keys
  <2>2. OutstandingTotal(v) = 0
    BY <2>1, SumZero, InventoryAssumption DEF OutstandingTotal
  <2> QED BY <2>2, InventoryAssumption DEF Init
<1> QED BY <1>1, <1>2, <1>3 DEF IInv, StockConserved

\* A reservation moves its units from the shelf to itself.
LEMMA ReserveIInv ==
  ASSUME IInv, NEW k \in Keys, NEW wanted \in Lines,
         NEW until \in 1..(now + MaxHold), NEW at \in Readings, Reserve(k, wanted, until, at)
  PROVE  IInv'
<1> USE InventoryAssumption
<1>0. wanted \in [Variants -> Nat] /\ until \in Nat
  BY DEF Lines, IInv, TypeOK
<1>1. TypeOK'
  BY <1>0 DEF IInv, TypeOK, Reserve, Covers
<1>2. RestockBounded'
  BY <1>0 DEF IInv, TypeOK, RestockBounded, Reserve, NoLines
<1>3. ASSUME NEW v \in Variants
      PROVE  (stock[v] + OutstandingTotal(v) = InitialStock[v])'
  <2>1. \A j \in Keys : Outstanding(j, v)' =
                          IF j = k THEN Outstanding(j, v) + wanted[v] ELSE Outstanding(j, v)
    BY <1>0 DEF IInv, TypeOK, Reserve, Outstanding
  <2>2. /\ OutstandingTotal(v) \in Int
        /\ OutstandingTotal(v)' = OutstandingTotal(v) + wanted[v]
    BY <1>0, <2>1, TotalChange DEF IInv
  <2>3. stock'[v] = stock[v] - wanted[v]
    BY DEF Reserve
  <2> QED BY <1>0, <2>2, <2>3 DEF IInv, TypeOK, StockConserved
<1> QED BY <1>1, <1>2, <1>3 DEF IInv, StockConserved

\* Commit and Release, on time or late: units go back exactly when the
\* reservation stops holding them.
LEMMA TransitionIInv ==
  ASSUME IInv, NEW k \in Keys, NEW target \in {"COMMITTED", "RELEASED"},
         NEW at \in Readings, Transition(k, target, at)
  PROVE  IInv'
<1> USE InventoryAssumption
<1>1. TypeOK'
  BY DEF IInv, TypeOK, Transition, Restore
<1>2. RestockBounded'
  BY DEF IInv, TypeOK, RestockBounded, Transition, NoLines
<1>3. ASSUME NEW v \in Variants
      PROVE  (stock[v] + OutstandingTotal(v) = InitialStock[v])'
  <2>0. state[k] = "RESERVED" /\ restocked[k][v] = 0 /\ lines[k][v] \in Nat
    BY DEF IInv, TypeOK, RestockBounded, Transition, NoLines
  <2>1. CASE Expired(k, at) \/ target = "RELEASED"
    <3>0. /\ stock' = [u \in Variants |-> stock[u] + lines[k][u]]
          /\ state' = [state EXCEPT ![k] = "RELEASED"]
          /\ UNCHANGED <<lines, restocked>>
      BY <2>1 DEF Transition, Restore
    <3>1. \A j \in Keys : Outstanding(j, v)' =
             IF j = k THEN Outstanding(j, v) + (- lines[k][v]) ELSE Outstanding(j, v)
      BY <2>0, <3>0 DEF IInv, TypeOK, Outstanding
    <3>2. /\ OutstandingTotal(v) \in Int
          /\ OutstandingTotal(v)' = OutstandingTotal(v) + (- lines[k][v])
      <4>1. - lines[k][v] \in Int
        BY <2>0
      <4> QED BY <3>1, <4>1, TotalChange DEF IInv
    <3> QED BY <2>0, <3>0, <3>2 DEF IInv, TypeOK, StockConserved
  <2>2. CASE ~(Expired(k, at) \/ target = "RELEASED")
    <3>0. /\ state' = [state EXCEPT ![k] = "COMMITTED"]
          /\ UNCHANGED <<lines, restocked, stock>>
      BY <2>2 DEF Transition
    <3>1. \A j \in Keys : Outstanding(j, v)' = Outstanding(j, v)
      BY <2>0, <3>0 DEF IInv, TypeOK, Outstanding
    <3>2. OutstandingTotal(v)' = OutstandingTotal(v)
      BY <3>1, TotalSame DEF IInv
    <3> QED BY <3>0, <3>2 DEF IInv, StockConserved
  <2> QED BY <2>1, <2>2
<1> QED BY <1>1, <1>2, <1>3 DEF IInv, StockConserved

\* A restock returns at most what is still outstanding.
LEMMA RestockIInv ==
  ASSUME IInv, NEW q \in RestockKeys, NEW k \in Keys, NEW back \in Lines,
         Restock(q, k, back)
  PROVE  IInv'
<1> USE InventoryAssumption
<1>0. back \in [Variants -> Nat] /\ state[k] = "COMMITTED"
  BY DEF Lines, Restock
<1>1. TypeOK'
  <2>1. k \in 0..MaxKey
    BY DEF Keys
  <2> QED BY <1>0, <2>1 DEF IInv, TypeOK, Restock, Restore
<1>2. RestockBounded'
  BY <1>0 DEF IInv, TypeOK, RestockBounded, Restock, NoLines
<1>3. ASSUME NEW v \in Variants
      PROVE  (stock[v] + OutstandingTotal(v) = InitialStock[v])'
  <2>1. \A j \in Keys : Outstanding(j, v)' =
             IF j = k THEN Outstanding(j, v) + (- back[v]) ELSE Outstanding(j, v)
    BY <1>0 DEF IInv, TypeOK, Restock, Outstanding
  <2>2. /\ OutstandingTotal(v) \in Int
        /\ OutstandingTotal(v)' = OutstandingTotal(v) + (- back[v])
    BY <1>0, <2>1, TotalChange DEF IInv
  <2> QED BY <1>0, <2>2 DEF IInv, TypeOK, StockConserved, Restock, Restore
<1> QED BY <1>1, <1>2, <1>3 DEF IInv, StockConserved

\* A sweep gives back exactly what the reservations of its batch held.
LEMMA ExpireIInv ==
  ASSUME IInv, NEW batch \in SUBSET Due, ExpireBatch(batch)
  PROVE  IInv'
<1> USE InventoryAssumption
<1>0. \A j \in batch : j \in Keys /\ state[j] = "RESERVED"
  BY DEF Due
<1>1. ASSUME NEW v \in Variants
      PROVE  BatchReturn(batch, v) \in Nat
  <2> DEFINE b == [j \in Keys |-> IF j \in batch THEN lines[j][v] ELSE 0]
  <2>1. \A i \in 1..MaxKey : b[i] \in Nat
    BY DEF IInv, TypeOK, Keys
  <2>2. SumTo(b, MaxKey) \in Nat
    <3> HIDE DEF b
    <3> QED BY <2>1, SumNat
  <2> QED BY <2>2 DEF BatchReturn
<1>2. TypeOK'
  BY <1>1 DEF IInv, TypeOK, ExpireBatch
<1>3. RestockBounded'
  BY <1>0 DEF IInv, TypeOK, RestockBounded, ExpireBatch, NoLines
<1>4. ASSUME NEW v \in Variants
      PROVE  (stock[v] + OutstandingTotal(v) = InitialStock[v])'
  <2> DEFINE b == [j \in Keys |-> IF j \in batch THEN lines[j][v] ELSE 0]
             f == [j \in Keys |-> Outstanding(j, v)]
             g == [j \in Keys |-> Outstanding(j, v)']
  <2>1. \A i \in 1..MaxKey : g[i] \in Int /\ b[i] \in Int /\ f[i] = g[i] + b[i]
    <3> SUFFICES ASSUME NEW i \in Keys
                 PROVE  g[i] \in Int /\ b[i] \in Int /\ f[i] = g[i] + b[i]
      BY DEF Keys
    <3>1. CASE i \in batch
      BY <1>0, <3>1 DEF IInv, TypeOK, ExpireBatch, Outstanding
    <3>2. CASE i \notin batch
      BY <3>2 DEF IInv, TypeOK, ExpireBatch, Outstanding
    <3> QED BY <3>1, <3>2
  <2>2. /\ OutstandingTotal(v) = SumTo(f, MaxKey)
        /\ OutstandingTotal(v)' = SumTo(g, MaxKey)
        /\ BatchReturn(batch, v) = SumTo(b, MaxKey)
    BY DEF OutstandingTotal, BatchReturn
  <2>3. /\ SumTo(g, MaxKey) \in Int /\ SumTo(b, MaxKey) \in Int
        /\ SumTo(f, MaxKey) = SumTo(g, MaxKey) + SumTo(b, MaxKey)
    <3> HIDE DEF f, g, b
    <3> QED BY <2>1, SumLinear
  <2>4. stock'[v] = stock[v] + BatchReturn(batch, v) /\ stock[v] \in Nat
    BY DEF ExpireBatch, IInv, TypeOK
  <2>5. stock[v] + OutstandingTotal(v) = InitialStock[v]
    BY DEF IInv, StockConserved
  <2> HIDE DEF f, g, b
  <2> QED BY <2>2, <2>3, <2>4, <2>5
<1> QED BY <1>2, <1>3, <1>4 DEF IInv, StockConserved

\* Steps that touch neither stock nor reservations.
LEMMA IdleIInv ==
  ASSUME IInv, Tick \/ UNCHANGED vars
  PROVE  IInv'
<1>0. UNCHANGED <<stock, state, expiresAt, lines, restocked, restocks>> /\ now' \in Nat
  BY DEF Tick, vars, IInv, TypeOK
<1>1. TypeOK'
  BY <1>0 DEF IInv, TypeOK
<1>2. RestockBounded'
  BY <1>0 DEF IInv, RestockBounded
<1>3. ASSUME NEW v \in Variants
      PROVE  (stock[v] + OutstandingTotal(v) = InitialStock[v])'
  <2>1. \A j \in Keys : Outstanding(j, v)' = Outstanding(j, v)
    BY <1>0 DEF Outstanding
  <2>2. OutstandingTotal(v)' = OutstandingTotal(v)
    BY <2>1, TotalSame DEF IInv
  <2> QED BY <1>0, <2>2 DEF IInv, StockConserved
<1> QED BY <1>1, <1>2, <1>3 DEF IInv, StockConserved

\* Every step preserves the invariant.
LEMMA NextIInv == IInv /\ [Next]_vars => IInv'
<1> SUFFICES ASSUME IInv, [Next]_vars PROVE IInv'
  OBVIOUS
<1>1. ASSUME NEW k \in Keys, NEW wanted \in Lines,
             NEW until \in 1..(now + MaxHold), NEW at \in Readings, Reserve(k, wanted, until, at)
      PROVE  IInv'
  BY <1>1, ReserveIInv
<1>2. ASSUME NEW k \in Keys, NEW at \in Readings, Commit(k, at) \/ Release(k, at)
      PROVE  IInv'
  BY <1>2, TransitionIInv DEF Commit, Release
<1>3. ASSUME NEW q \in RestockKeys, NEW k \in Keys, NEW back \in Lines,
             Restock(q, k, back)
      PROVE  IInv'
  BY <1>3, RestockIInv
<1>4. CASE Expire
  BY <1>4, ExpireIInv DEF Expire
<1>5. CASE Tick \/ UNCHANGED vars
  BY <1>5, IdleIInv
<1> QED BY <1>1, <1>2, <1>3, <1>4, <1>5 DEF Next

\* Stock is conserved, cumulative restocks are bounded and every table is well
\* typed in every reachable state of the inventory service.
THEOREM InventorySafe == Spec => [](TypeOK /\ RestockBounded /\ StockConserved)
<1>1. IInv => TypeOK /\ RestockBounded /\ StockConserved
  BY DEF IInv
<1> QED BY InitIInv, NextIInv, <1>1, PTL DEF Spec

\* No oversell: for every variant the shelf is never negative and holds, with
\* what live reservations hold, exactly the initial stock.
THEOREM NoOversell == Spec => []StockConserved
  BY InventorySafe, PTL

\* No step changes a made reservation's lines, leaves a final state, or turns a
\* due hold into a sale.
THEOREM ReservationsOneWay == Spec => OneWay
<1> DEFINE A == \A k \in Keys :
       /\ state[k] # "NONE" => lines'[k] = lines[k] /\ expiresAt'[k] = expiresAt[k]
       /\ state[k] \in {"COMMITTED", "RELEASED"} => state'[k] = state[k]
       /\ state[k] = "RESERVED" /\ state'[k] = "COMMITTED" => expiresAt[k] + ClockLag > now
<1>1. IInv /\ [Next]_vars => [A]_vars
  <2> SUFFICES ASSUME IInv, Next PROVE A
    OBVIOUS
  <2> USE DEF IInv, TypeOK
  <2>1. ASSUME NEW k \in Keys, NEW wanted \in Lines,
               NEW until \in 1..(now + MaxHold), NEW at \in Readings, Reserve(k, wanted, until, at)
        PROVE  A
    BY <2>1 DEF Reserve
  <2>2. ASSUME NEW k \in Keys, NEW target \in {"COMMITTED", "RELEASED"},
               NEW at \in Readings, Transition(k, target, at)
        PROVE  A
    BY <2>2, InventoryAssumption DEF Transition, Expired, Readings
  <2>3. ASSUME NEW q \in RestockKeys, NEW k \in Keys, NEW back \in Lines,
               Restock(q, k, back)
        PROVE  A
    BY <2>3 DEF Restock
  <2>4. ASSUME NEW batch \in SUBSET Due, ExpireBatch(batch)
        PROVE  A
    BY <2>4 DEF ExpireBatch, Due
  <2>5. CASE Tick
    BY <2>5 DEF Tick
  <2> QED BY <2>1, <2>2, <2>3, <2>4, <2>5 DEF Next, Commit, Release, Expire
<1> QED BY InitIInv, NextIInv, <1>1, PTL DEF Spec, OneWay

\* What the log holds for reservation k and variant v, request by request.
Logged(k, v) ==
  [q \in RestockKeys |-> IF restocks[q].of = k THEN restocks[q].lines[v] ELSE 0]

\* A restock adds to the log of its reservation what it adds to the column, and
\* nothing to any other: its request was not recorded before, so its row is new.
LEMMA RestockLogs ==
  ASSUME IInv, RestockLogComplete, NEW q \in RestockKeys, NEW k \in Keys,
         NEW back \in Lines, Restock(q, k, back)
  PROVE  RestockLogComplete'
<1> USE InventoryAssumption
<1>0. back \in [Variants -> Nat] /\ restocks[q].of = 0 /\ 0 \notin Keys
  BY DEF Lines, Restock, NoRestock, Keys
<1>1. ASSUME NEW j \in Keys, NEW v \in Variants
      PROVE  restocked'[j][v] = SumTo(Logged(j, v)', MaxRestockKey)
  <2> DEFINE f == Logged(j, v)
             g == Logged(j, v)'
             d == IF j = k THEN back[v] ELSE 0
  <2>1. \A i \in 1..MaxRestockKey : f[i] \in Int
    BY DEF IInv, TypeOK, Logged, RestockKeys
  <2>2. \A i \in 1..MaxRestockKey : g[i] = IF i = q THEN f[i] + d ELSE f[i]
    <3> SUFFICES ASSUME NEW i \in RestockKeys
                 PROVE  g[i] = IF i = q THEN f[i] + d ELSE f[i]
      BY DEF RestockKeys
    <3>1. restocks'[i] = IF i = q THEN [of |-> k, lines |-> back] ELSE restocks[i]
      BY DEF IInv, TypeOK, Restock
    <3>2. /\ g[i] = IF restocks'[i].of = j THEN restocks'[i].lines[v] ELSE 0
          /\ f[i] = IF restocks[i].of = j THEN restocks[i].lines[v] ELSE 0
      BY DEF Logged
    <3>3. back[v] \in Nat
      BY <1>0
    <3>4. CASE i = q
      BY <1>0, <3>1, <3>2, <3>3, <3>4
    <3> QED BY <3>1, <3>2, <3>4
  <2>3. d \in Int /\ q \in 1..MaxRestockKey
    BY <1>0 DEF RestockKeys
  <2>4. SumTo(f, MaxRestockKey) \in Int /\ SumTo(g, MaxRestockKey) = SumTo(f, MaxRestockKey) + d
    <3> HIDE DEF f, g, d
    <3> QED BY <2>1, <2>2, <2>3, SumChange
  <2>5. restocked[j][v] = SumTo(f, MaxRestockKey)
    BY DEF RestockLogComplete, Logged
  <2>6. restocked'[j][v] = restocked[j][v] + d
    BY <1>0 DEF IInv, TypeOK, Restock
  <2> QED BY <2>4, <2>5, <2>6
<1> QED BY <1>1 DEF RestockLogComplete, Logged

\* The other steps write neither the column nor the log.
LEMMA NextLog == IInv /\ RestockLogComplete /\ [Next]_vars => RestockLogComplete'
<1> SUFFICES ASSUME IInv, RestockLogComplete, [Next]_vars PROVE RestockLogComplete'
  OBVIOUS
<1>1. ASSUME NEW q \in RestockKeys, NEW k \in Keys, NEW back \in Lines, Restock(q, k, back)
      PROVE  RestockLogComplete'
  BY <1>1, RestockLogs
<1>2. CASE UNCHANGED <<restocked, restocks>>
  BY <1>2 DEF RestockLogComplete
<1> QED BY <1>1, <1>2 DEF Next, vars, Reserve, Commit, Release, Transition, Expire, ExpireBatch, Tick

\* The log of restocks accounts for every unit that was put back: a return that
\* is retried or reported by two webhooks is found in it, and counted once.
THEOREM RestocksLogged == Spec => []RestockLogComplete
<1>1. Init => RestockLogComplete
  <2> SUFFICES ASSUME Init, NEW k \in Keys, NEW v \in Variants
               PROVE  restocked[k][v] = SumTo(Logged(k, v), MaxRestockKey)
    BY DEF RestockLogComplete, Logged
  <2>1. \A i \in 1..MaxRestockKey : Logged(k, v)[i] = 0
    BY DEF Init, Logged, RestockKeys, NoRestock, NoLines
  <2>2. SumTo(Logged(k, v), MaxRestockKey) = 0
    BY <2>1, SumZero, InventoryAssumption
  <2> QED BY <2>2 DEF Init, NoLines
<1> QED BY <1>1, InitIInv, NextIInv, NextLog, PTL DEF Spec
----------------------------------------------------------------------------
(* InventoryTx: what a statement checked when it got its lock must still   *)
(* be true at COMMIT.  TxInv says so, lock by lock: a lock is held by one  *)
(* session, a session has every lock it needs or has still to take it, and *)
(* what a held lock protects is as its holder found it.  The second        *)
(* theorem rests on the order alone: a session waits only for locks of a   *)
(* higher rank than all it holds.                                          *)

----------------------------------------------------------------------------
(* Sorting: numbering the elements of a finite set of naturals.            *)

Below(T, v) == {u \in T : u < v}

\* Of two elements the smaller has fewer below it, and none has all.
LEMMA FewerBelow ==
  ASSUME NEW T \in SUBSET Nat, IsFiniteSet(T), NEW v \in T
  PROVE  /\ Cardinality(Below(T, v)) \in 0..(Cardinality(T) - 1)
         /\ \A u \in T : u < v => Cardinality(Below(T, u)) < Cardinality(Below(T, v))
<1>1. ASSUME NEW A \in SUBSET T, NEW B \in SUBSET A, B # A
      PROVE  Cardinality(B) \in Nat /\ Cardinality(A) \in Nat /\ Cardinality(B) < Cardinality(A)
  <2>1. IsFiniteSet(A) /\ IsFiniteSet(B)
    BY FS_Subset
  <2>2. Cardinality(B) <= Cardinality(A) /\ Cardinality(A) # Cardinality(B)
    BY <1>1, <2>1, FS_Subset
  <2>3. Cardinality(B) \in Nat /\ Cardinality(A) \in Nat
    BY <2>1, FS_CardinalityType
  <2> QED BY <2>2, <2>3
<1>2. Cardinality(Below(T, v)) \in Nat /\ Cardinality(T) \in Nat
      /\ Cardinality(Below(T, v)) < Cardinality(T)
  <2>1. Below(T, v) \in SUBSET T /\ v \notin Below(T, v)
    BY DEF Below
  <2>2. Below(T, v) # T /\ T \in SUBSET T
    BY <2>1
  <2> QED BY <1>1, <2>1, <2>2
<1>3. ASSUME NEW u \in T, u < v
      PROVE  Cardinality(Below(T, u)) < Cardinality(Below(T, v))
  <2>0. (\A w \in T : w < u => w < v) /\ ~(u < u)
    BY <1>3
  <2>1. Below(T, u) \in SUBSET Below(T, v) /\ u \in Below(T, v) /\ u \notin Below(T, u)
    BY <1>3, <2>0, Zenon DEF Below
  <2>2. Below(T, v) \in SUBSET T
    BY DEF Below
  <2>3. Below(T, u) # Below(T, v)
    BY <2>1
  <2> QED BY <1>1, <2>1, <2>2, <2>3
<1> QED BY <1>2, <1>3

\* Every number up to the size of the set is the number below some element.
LEMMA EveryPlaceTaken ==
  ASSUME NEW T \in SUBSET Nat, IsFiniteSet(T), NEW i \in 1..Cardinality(T)
  PROVE  \E v \in T : Cardinality(Below(T, v)) = i - 1
<1> DEFINE n == Cardinality(T)
           place == [v \in T |-> Cardinality(Below(T, v))]
<1>0. n \in Nat
  BY FS_CardinalityType
<1>1. place \in [T -> 0..(n - 1)]
  BY FewerBelow
<1>2. ASSUME NEW u \in T, NEW v \in T, u # v
      PROVE  place[u] # place[v]
  <2>1. u < v \/ v < u
    BY <1>2
  <2>2. \A x, y \in T : x < y => place[x] < place[y]
    BY FewerBelow
  <2>3. place[u] \in Int /\ place[v] \in Int
    BY <1>1
  <2> HIDE DEF place
  <2> QED BY <2>1, <2>2, <2>3
<1>3. place \in Injection(T, 0..(n - 1))
  <2>1. IsInjective(place)
    BY <1>2 DEF IsInjective
  <2> HIDE DEF place
  <2> QED BY <1>1, <2>1 DEF Injection
<1>4. IsFiniteSet(0..(n - 1)) /\ Cardinality(0..(n - 1)) = n
  <2>1. 0 \in Int /\ n - 1 \in Int /\ (0 > n - 1 => n = 0)
    BY <1>0
  <2>2. /\ IsFiniteSet(0..(n - 1))
        /\ Cardinality(0..(n - 1)) = IF 0 > n - 1 THEN 0 ELSE (n - 1) - 0 + 1
    BY <2>1, FS_Interval
  <2> QED BY <1>0, <2>1, <2>2
<1>5. place \in Surjection(T, 0..(n - 1))
  <2> HIDE DEF place
  <2> QED BY <1>3, <1>4, FS_Injection
<1>6. i - 1 \in 0..(n - 1)
  BY <1>0
<1>7. \E v \in T : place[v] = i - 1
  <2> HIDE DEF place
  <2> QED BY <1>5, <1>6 DEF Surjection
<1> QED BY <1>7

\* A finite set of naturals that is not empty has a greatest element.
LEMMA GreatestExists ==
  ASSUME NEW T \in SUBSET Nat, IsFiniteSet(T), T # {}
  PROVE  \E m \in T : \A v \in T : v <= m
<1>0. Cardinality(T) \in Nat /\ Cardinality(T) # 0
  BY FS_CardinalityType, FS_EmptySet
<1>1. PICK m \in T : Cardinality(Below(T, m)) = Cardinality(T) - 1
  BY <1>0, EveryPlaceTaken
<1>2. ASSUME NEW v \in T, m < v
      PROVE  FALSE
  <2>1. Cardinality(Below(T, m)) < Cardinality(Below(T, v))
        /\ Cardinality(Below(T, v)) \in 0..(Cardinality(T) - 1)
    BY <1>2, FewerBelow
  <2> QED BY <1>0, <1>1, <2>1
<1> QED BY <1>2

----------------------------------------------------------------------------
(* The plans of locks.                                                     *)

Locks ==
  ({"key", "row"} \X Keys) \cup ({"restock"} \X RestockKeys) \cup ({"stock"} \X Variants)

\* The order in which locks are taken: the call's own key, then the reservation,
\* then the stock rows by variant.
Rank(lock) ==
  IF lock[1] \in {"key", "restock"} THEN 0
  ELSE IF lock[1] = "row" THEN 1
  ELSE 2 + lock[2]

Increasing(plan) ==
  \A i, j \in 1..Len(plan) : i < j => Rank(plan[i]) < Rank(plan[j])

\* Ranks are natural numbers, and only stock rows rank above reservations.
LEMMA RankNat ==
  /\ \A lock \in Locks : Rank(lock) \in Nat
  /\ \A v \in Variants : <<"stock", v>> \in Locks /\ Rank(<<"stock", v>>) = 2 + v
  /\ \A k \in Keys : /\ <<"row", k>> \in Locks /\ Rank(<<"row", k>>) = 1
                     /\ <<"key", k>> \in Locks /\ Rank(<<"key", k>>) = 0
  /\ \A q \in RestockKeys : <<"restock", q>> \in Locks /\ Rank(<<"restock", q>>) = 0
<1>1. ASSUME NEW lock \in Locks
      PROVE  Rank(lock) \in Nat
  <2>1. \/ \E k \in Keys : lock = <<"key", k>> \/ lock = <<"row", k>>
        \/ \E q \in RestockKeys : lock = <<"restock", q>>
        \/ \E v \in Variants : lock = <<"stock", v>>
    BY DEF Locks
  <2>2. \A k : Rank(<<"key", k>>) = 0 /\ Rank(<<"row", k>>) = 1 /\ Rank(<<"restock", k>>) = 0
    BY DEF Rank
  <2>3. \A v \in Variants : Rank(<<"stock", v>>) \in Nat
    BY TxAssumption DEF Rank
  <2> QED BY <2>1, <2>2, <2>3
<1>2. \A v \in Variants : <<"stock", v>> \in Locks /\ Rank(<<"stock", v>>) = 2 + v
  BY DEF Rank, Locks
<1>3. \A k \in Keys : /\ <<"row", k>> \in Locks /\ Rank(<<"row", k>>) = 1
                      /\ <<"key", k>> \in Locks /\ Rank(<<"key", k>>) = 0
  BY DEF Rank, Locks
<1>4. \A q \in RestockKeys : <<"restock", q>> \in Locks /\ Rank(<<"restock", q>>) = 0
  BY DEF Rank, Locks
<1> QED BY <1>1, <1>2, <1>3, <1>4

\* What the first lock of a plan and the rest of it are.
LEMMA PlanHead ==
  ASSUME NEW plan \in Seq(Locks), plan # <<>>
  PROVE  /\ Head(plan) \in Locks /\ Tail(plan) \in Seq(Locks)
         /\ ToSet(plan) = {Head(plan)} \cup ToSet(Tail(plan))
         /\ Increasing(plan) => /\ Increasing(Tail(plan))
                                /\ \A i \in 1..Len(Tail(plan)) : Rank(Head(plan)) < Rank(Tail(plan)[i])
<1>1. /\ Head(plan) = plan[1] /\ plan[1] \in Locks /\ Tail(plan) \in Seq(Locks)
      /\ Len(plan) \in Nat /\ Len(plan) >= 1 /\ Len(Tail(plan)) = Len(plan) - 1
      /\ \A i \in 1..Len(Tail(plan)) : Tail(plan)[i] = plan[i + 1]
  OBVIOUS
<1>2. /\ ToSet(plan) = {plan[i] : i \in 1..Len(plan)}
      /\ ToSet(Tail(plan)) = {Tail(plan)[i] : i \in 1..Len(Tail(plan))}
  <2>1. DOMAIN plan = 1..Len(plan) /\ DOMAIN Tail(plan) = 1..Len(Tail(plan))
    BY <1>1
  <2> QED BY <2>1, Zenon DEF ToSet
<1>3. ToSet(plan) \subseteq {Head(plan)} \cup ToSet(Tail(plan))
  <2> SUFFICES ASSUME NEW i \in 1..Len(plan), i # 1
               PROVE  plan[i] \in ToSet(Tail(plan))
    BY <1>1, <1>2
  <2>1. i - 1 \in 1..Len(Tail(plan)) /\ (i - 1) + 1 = i
    BY <1>1
  <2>2. Tail(plan)[i - 1] = plan[i]
    BY <1>1, <2>1
  <2> QED BY <1>2, <2>1, <2>2
<1>4. {Head(plan)} \cup ToSet(Tail(plan)) \subseteq ToSet(plan)
  <2>1. 1 \in 1..Len(plan) /\ \A i \in 1..Len(Tail(plan)) : i + 1 \in 1..Len(plan)
    BY <1>1
  <2> QED BY <1>1, <1>2, <2>1
<1>5. ASSUME Increasing(plan)
      PROVE  /\ Increasing(Tail(plan))
             /\ \A i \in 1..Len(Tail(plan)) : Rank(Head(plan)) < Rank(Tail(plan)[i])
  <2>1. /\ 1 \in 1..Len(plan)
        /\ \A i \in 1..Len(Tail(plan)) : i + 1 \in 1..Len(plan) /\ 1 < i + 1
        /\ \A i, j \in 1..Len(Tail(plan)) : i < j => i + 1 < j + 1
    BY <1>1
  <2> QED BY <1>1, <1>5, <2>1 DEF Increasing
<1> QED BY <1>1, <1>3, <1>4, <1>5

\* The stock rows of some lines are the rows of the variants they ask for, in the
\* order of their rank.
LEMMA StockRowsSorted ==
  ASSUME NEW l \in [Variants -> Nat]
  PROVE  /\ StockRows(l) \in Seq({"stock"} \X Variants)
         /\ \A v \in Variants : l[v] > 0 => <<"stock", v>> \in ToSet(StockRows(l))
         /\ Increasing(StockRows(l))
<1> DEFINE T == {v \in Variants : l[v] > 0}
           n == Cardinality(T)
           at(i) == CHOOSE v \in T : Cardinality(Below(T, v)) = i - 1
<1>0. T \in SUBSET Nat /\ IsFiniteSet(T) /\ n \in Nat
  <2>1. T \in SUBSET Variants
    OBVIOUS
  <2> QED BY <2>1, TxAssumption, FS_Subset, FS_CardinalityType
<1>1. ASSUME NEW i \in 1..n
      PROVE  at(i) \in T /\ Cardinality(Below(T, at(i))) = i - 1
  <2>1. \E v \in T : Cardinality(Below(T, v)) = i - 1
    BY <1>0, EveryPlaceTaken
  <2> HIDE DEF T
  <2> QED BY <2>1
<1>2. StockRows(l) = [i \in 1..n |-> <<"stock", at(i)>>]
  BY Zenon DEF StockRows, Below
<1>3. /\ StockRows(l) \in Seq({"stock"} \X Variants) /\ Len(StockRows(l)) = n
      /\ \A i \in 1..n : StockRows(l)[i] = <<"stock", at(i)>>
  <2>1. \A i \in 1..n : at(i) \in Variants
    BY <1>1
  <2> HIDE DEF at, n
  <2> QED BY <1>0, <1>2, <2>1
<1>4. ASSUME NEW i \in 1..n, NEW j \in 1..n, i < j
      PROVE  at(i) < at(j)
  <2>1. at(i) \in T /\ at(j) \in T /\ Cardinality(Below(T, at(i))) = i - 1
        /\ Cardinality(Below(T, at(j))) = j - 1
    BY <1>1
  <2>2. at(i) # at(j)
    BY <1>0, <1>4, <2>1
  <2>3. ~(at(j) < at(i))
    <3>1. SUFFICES ASSUME at(j) < at(i) PROVE FALSE
      OBVIOUS
    <3> HIDE DEF at, T, n
    <3>2. Cardinality(Below(T, at(j))) < Cardinality(Below(T, at(i)))
      BY <1>0, <2>1, <3>1, FewerBelow
    <3> QED BY <1>0, <1>4, <2>1, <3>2
  <2>4. at(i) \in Nat /\ at(j) \in Nat
    BY <1>0, <2>1
  <2> HIDE DEF at, T
  <2> QED BY <2>2, <2>3, <2>4
<1>5. Increasing(StockRows(l))
  <2> HIDE DEF at, n
  <2>1. ASSUME NEW i \in 1..n
        PROVE  at(i) \in Nat /\ Rank(<<"stock", at(i)>>) = 2 + at(i)
    <3>1. at(i) \in Variants
      BY <1>1
    <3> QED BY <3>1, RankNat, TxAssumption
  <2> QED BY <1>3, <1>4, <2>1 DEF Increasing
<1>6. ASSUME NEW v \in Variants, l[v] > 0
      PROVE  <<"stock", v>> \in ToSet(StockRows(l))
  <2> DEFINE i == Cardinality(Below(T, v)) + 1
  <2>1. v \in T
    BY <1>6
  <2>2. i \in 1..n /\ i - 1 = Cardinality(Below(T, v))
    <3> HIDE DEF T, n
    <3>1. Cardinality(Below(T, v)) \in 0..(n - 1)
      BY <1>0, <2>1, FewerBelow DEF n
    <3> QED BY <1>0, <3>1
  <2>3. at(i) \in T /\ Cardinality(Below(T, at(i))) = Cardinality(Below(T, v))
    BY <1>1, <2>2
  <2>4. at(i) = v
    <3> HIDE DEF at, T, i
    <3>1. ~(at(i) < v) /\ ~(v < at(i))
      <4>1. \A x, y \in T : x < y => /\ Cardinality(Below(T, x)) \in Nat
                                     /\ Cardinality(Below(T, y)) \in Nat
                                     /\ Cardinality(Below(T, x)) < Cardinality(Below(T, y))
        BY <1>0, FewerBelow
      <4> QED BY <2>1, <2>3, <4>1
    <3>2. at(i) \in Nat /\ v \in Nat
      BY <1>0, <2>1, <2>3
    <3> QED BY <3>1, <3>2
  <2>5. StockRows(l)[i] = <<"stock", v>> /\ i \in DOMAIN StockRows(l)
    <3> HIDE DEF at, T, n, i
    <3> QED BY <1>3, <2>2, <2>4
  <2> HIDE DEF i
  <2> QED BY <2>5 DEF ToSet
<1> QED BY <1>3, <1>5, <1>6

----------------------------------------------------------------------------
(* The invariant of the transactions.                                      *)

\* What a session may be doing.  The plan of a sweep is left open: nothing below
\* depends on it.
WellFormed(t) ==
  \/ t = Idle
  \/ /\ t.op = "reserve"
     /\ t = [op |-> "reserve", key |-> t.key, lines |-> t.lines, until |-> t.until,
             at |-> t.at, plan |-> t.plan]
     /\ t.key \in Keys /\ t.lines \in Lines /\ t.until \in Nat /\ t.at \in Nat
     /\ t.plan \in Seq(Locks)
  \/ /\ t.op = "transition"
     /\ t = [op |-> "transition", key |-> t.key, target |-> t.target, at |-> t.at,
             plan |-> t.plan]
     /\ t.key \in Keys /\ t.target \in {"COMMITTED", "RELEASED"} /\ t.at \in Nat
     /\ t.plan \in Seq(Locks)
  \/ /\ t.op = "restock"
     /\ t = [op |-> "restock", request |-> t.request, key |-> t.key, lines |-> t.lines,
             at |-> t.at, plan |-> t.plan]
     /\ t.request \in RestockKeys /\ t.key \in Keys /\ t.lines \in Lines /\ t.at \in Nat
     /\ t.plan \in Seq(Locks)
  \/ /\ t.op = "expire"
     /\ t = [op |-> "expire", batch |-> t.batch, at |-> t.at, plan |-> t.plan]
     /\ t.batch \in SUBSET Keys /\ t.at \in Nat

TxShape ==
  /\ tx = [p \in Txs |-> tx[p]] /\ held = [p \in Txs |-> held[p]]
  /\ \A p \in Txs :
       /\ WellFormed(tx[p])
       /\ tx[p].op # "expire" => held[p] \subseteq Locks
       /\ tx[p].op = "idle" => held[p] = {}

Exclusive == \A p, o \in Txs : p # o => held[p] \cap held[o] = {}

\* An open transaction has read the clock, and not longer ago than it may last.
Timely == \A p \in Txs : tx[p].op # "idle" => tx[p].at <= now /\ now <= tx[p].at + ClockLag

\* What session p has or will have locked.
Claims(p) == held[p] \cup ToSet(tx[p].plan)

ReserveSound(p) ==
  tx[p].op = "reserve" =>
    /\ <<"key", tx[p].key>> \in Claims(p)
    /\ \A v \in Variants : tx[p].lines[v] > 0 => <<"stock", v>> \in Claims(p)
    /\ <<"key", tx[p].key>> \in held[p] => state[tx[p].key] = "NONE"
    /\ \A v \in Variants : <<"stock", v>> \in held[p] => tx[p].lines[v] <= stock[v]
    /\ tx[p].until > tx[p].at /\ tx[p].until <= tx[p].at + MaxHold

TransitionSound(p) ==
  tx[p].op = "transition" =>
    /\ <<"row", tx[p].key>> \in held[p] \/ tx[p].plan = <<<<"row", tx[p].key>>>>
    /\ <<"row", tx[p].key>> \in held[p] =>
         /\ state[tx[p].key] = "RESERVED"
         /\ tx[p].target = "COMMITTED" => ~Expired(tx[p].key, tx[p].at)

RestockSound(p) ==
  tx[p].op = "restock" =>
    /\ <<"restock", tx[p].request>> \in Claims(p) /\ <<"row", tx[p].key>> \in Claims(p)
    /\ <<"restock", tx[p].request>> \in held[p] => restocks[tx[p].request] = NoRestock
    /\ <<"row", tx[p].key>> \in held[p] =>
         /\ state[tx[p].key] = "COMMITTED"
         /\ \A v \in Variants :
              tx[p].lines[v] <= lines[tx[p].key][v] - restocked[tx[p].key][v]

ExpireSound(p) ==
  tx[p].op = "expire" =>
    \A k \in tx[p].batch :
      <<"row", k>> \in held[p] /\ state[k] = "RESERVED" /\ Expired(k, now)

Sound(p) == ReserveSound(p) /\ TransitionSound(p) /\ RestockSound(p) /\ ExpireSound(p)

TxInv == IInv /\ TxShape /\ Exclusive /\ Timely /\ \A p \in Txs : Sound(p)

\* What a session still has to lock ranks above what it holds, and in order.
Ordered ==
  \A p \in Txs : tx[p].op # "expire" =>
    /\ Increasing(tx[p].plan)
    /\ \A lock \in held[p], i \in 1..Len(tx[p].plan) : Rank(lock) < Rank(tx[p].plan[i])

----------------------------------------------------------------------------
(* Steps of one session.                                                   *)

\* A step of p leaves the other sessions' records and locks alone.
LEMMA Elsewhere ==
  ASSUME TxShape, NEW p \in Txs, NEW t, NEW h,
         tx' = [tx EXCEPT ![p] = t], held' = [held EXCEPT ![p] = h]
  PROVE  /\ tx'[p] = t /\ held'[p] = h
         /\ \A o \in Txs : o # p => tx'[o] = tx[o] /\ held'[o] = held[o]
         /\ tx' = [o \in Txs |-> tx'[o]] /\ held' = [o \in Txs |-> held'[o]]
BY DEF TxShape

\* The shape of the sessions, the locks and the clock after a step of p, from what
\* they are for p.
LEMMA StepKeepsShape ==
  ASSUME TxShape, Exclusive, Timely, NEW p \in Txs, NEW t, NEW h,
         tx' = [tx EXCEPT ![p] = t], held' = [held EXCEPT ![p] = h], now' = now,
         WellFormed(t), t.op # "expire" => h \subseteq Locks, t.op = "idle" => h = {},
         t.op # "idle" => t.at <= now /\ now <= t.at + ClockLag,
         \A o \in Txs : o # p => h \cap held[o] = {}
  PROVE  TxShape' /\ Exclusive' /\ Timely'
<1>1. /\ tx'[p] = t /\ held'[p] = h
      /\ \A o \in Txs : o # p => tx'[o] = tx[o] /\ held'[o] = held[o]
      /\ tx' = [o \in Txs |-> tx'[o]] /\ held' = [o \in Txs |-> held'[o]]
  BY Elsewhere
<1>2. \A o \in Txs : /\ WellFormed(tx'[o])
                     /\ tx'[o].op # "expire" => held'[o] \subseteq Locks
                     /\ tx'[o].op = "idle" => held'[o] = {}
  BY <1>1 DEF TxShape
<1>3. TxShape'
  <2>1. \A o \in Txs : WellFormed(tx[o])' <=> WellFormed(tx'[o])
    BY DEF WellFormed, Idle, Keys, RestockKeys, Lines, Locks
  <2>2. Locks' = Locks
    BY DEF Locks, Keys, RestockKeys
  <2> QED BY <1>1, <1>2, <2>1, <2>2 DEF TxShape
<1>4. Exclusive'
  BY <1>1 DEF Exclusive
<1>5. Timely'
  BY <1>1 DEF Timely
<1> QED BY <1>3, <1>4, <1>5

\* A step of p that writes no table keeps the invariant if p itself does.
LEMMA QuietStep ==
  ASSUME TxInv, NEW p \in Txs, NEW t, NEW h,
         tx' = [tx EXCEPT ![p] = t], held' = [held EXCEPT ![p] = h], UNCHANGED vars,
         WellFormed(t), t.op # "expire" => h \subseteq Locks, t.op = "idle" => h = {},
         t.op # "idle" => t.at <= now /\ now <= t.at + ClockLag,
         \A o \in Txs : o # p => h \cap held[o] = {},
         Sound(p)'
  PROVE  TxInv'
<1>1. TxShape' /\ Exclusive' /\ Timely'
  BY StepKeepsShape DEF TxInv, vars
<1>2. IInv'
  BY IdleIInv DEF TxInv
<1>3. ASSUME NEW o \in Txs, o # p
      PROVE  Sound(o)'
  <2>1. tx'[o] = tx[o] /\ held'[o] = held[o] /\ UNCHANGED vars
    BY <1>3, Elsewhere DEF TxInv
  <2>2. Sound(o)
    BY DEF TxInv
  <2> QED BY <2>1, <2>2 DEF Sound, ReserveSound, TransitionSound, RestockSound, ExpireSound,
                            Claims, Expired, vars
<1> QED BY <1>1, <1>2, <1>3 DEF TxInv

\* A plan that goes on with stock rows: it has its first locks and all the rows,
\* in the order of rank if the first locks are and rank below the stock.
LEMMA PlanOf ==
  ASSUME NEW first \in Seq(Locks), NEW l \in [Variants -> Nat]
  PROVE  /\ first \o StockRows(l) \in Seq(Locks)
         /\ ToSet(first) \subseteq ToSet(first \o StockRows(l))
         /\ \A v \in Variants : l[v] > 0 => <<"stock", v>> \in ToSet(first \o StockRows(l))
         /\ Increasing(first) /\ (\A i \in 1..Len(first) : Rank(first[i]) < 2)
              => Increasing(first \o StockRows(l))
<1> DEFINE rows == StockRows(l)
           plan == first \o rows
<1>1. /\ rows \in Seq(Locks) /\ rows \in Seq({"stock"} \X Variants)
      /\ \A v \in Variants : l[v] > 0 => <<"stock", v>> \in ToSet(rows)
      /\ Increasing(rows)
  <2>1. {"stock"} \X Variants \subseteq Locks
    BY DEF Locks
  <2>2. rows \in Seq({"stock"} \X Variants)
    BY StockRowsSorted
  <2>3. rows \in Seq(Locks)
    <3> HIDE DEF rows
    <3> QED BY <2>1, <2>2
  <2> QED BY <2>2, <2>3, StockRowsSorted
<1>2. /\ plan \in Seq(Locks) /\ Len(plan) = Len(first) + Len(rows)
      /\ Len(first) \in Nat /\ Len(rows) \in Nat
      /\ DOMAIN plan = 1..Len(plan) /\ DOMAIN first = 1..Len(first)
      /\ DOMAIN rows = 1..Len(rows)
      /\ \A i \in 1..Len(plan) :
           plan[i] = IF i <= Len(first) THEN first[i] ELSE rows[i - Len(first)]
  <2> HIDE DEF rows
  <2> QED BY <1>1
<1>3. ToSet(first) \subseteq ToSet(plan)
  <2> HIDE DEF plan
  <2>1. \A i \in 1..Len(first) : i \in 1..Len(plan) /\ first[i] = plan[i]
    BY <1>2
  <2> QED BY <1>2, <2>1 DEF ToSet
<1>4. ToSet(rows) \subseteq ToSet(plan)
  <2> HIDE DEF plan, rows
  <2>1. ASSUME NEW i \in 1..Len(rows)
        PROVE  Len(first) + i \in 1..Len(plan) /\ rows[i] = plan[Len(first) + i]
    <3>1. Len(first) + i \in 1..Len(plan) /\ ~(Len(first) + i <= Len(first))
          /\ (Len(first) + i) - Len(first) = i
      BY <1>2
    <3> QED BY <1>2, <3>1
  <2> QED BY <1>2, <2>1 DEF ToSet
<1>5. ASSUME Increasing(first), \A i \in 1..Len(first) : Rank(first[i]) < 2
      PROVE  Increasing(plan)
  <2> HIDE DEF plan, rows
  <2>1. \A i \in 1..Len(rows) : Rank(rows[i]) >= 2 /\ Rank(rows[i]) \in Nat
    <3>1. ASSUME NEW i \in 1..Len(rows)
          PROVE  Rank(rows[i]) >= 2 /\ Rank(rows[i]) \in Nat
      <4>1. PICK v \in Variants : rows[i] = <<"stock", v>>
        BY <1>1
      <4> QED BY <4>1, RankNat, TxAssumption
    <3> QED BY <3>1
  <2>2. \A i \in 1..Len(first) : Rank(first[i]) \in Nat
    BY RankNat
  <2> SUFFICES ASSUME NEW i \in 1..Len(plan), NEW j \in 1..Len(plan), i < j
               PROVE  Rank(plan[i]) < Rank(plan[j])
    BY DEF Increasing
  <2>3. CASE j <= Len(first)
    BY <1>2, <1>5, <2>3 DEF Increasing
  <2>4. CASE i > Len(first)
    <3>1. /\ plan[i] = rows[i - Len(first)] /\ plan[j] = rows[j - Len(first)]
          /\ i - Len(first) \in 1..Len(rows) /\ j - Len(first) \in 1..Len(rows)
          /\ i - Len(first) < j - Len(first)
      BY <1>2, <2>4
    <3> QED BY <1>1, <3>1 DEF Increasing
  <2>5. CASE i <= Len(first) /\ j > Len(first)
    <3>1. /\ plan[i] = first[i] /\ plan[j] = rows[j - Len(first)]
          /\ i \in 1..Len(first) /\ j - Len(first) \in 1..Len(rows)
      BY <1>2, <2>5
    <3> QED BY <1>5, <2>1, <2>2, <3>1
  <2> QED BY <1>2, <2>3, <2>4, <2>5
<1> QED BY <1>1, <1>2, <1>3, <1>4, <1>5

\* The two beginnings of a plan that stock rows follow.
LEMMA FirstLocks ==
  /\ \A k \in Keys :
       /\ <<<<"key", k>>>> \in Seq(Locks) /\ ToSet(<<<<"key", k>>>>) = {<<"key", k>>}
       /\ <<<<"row", k>>>> \in Seq(Locks) /\ ToSet(<<<<"row", k>>>>) = {<<"row", k>>}
  /\ \A q \in RestockKeys, k \in Keys :
       /\ <<<<"restock", q>>, <<"row", k>>>> \in Seq(Locks)
       /\ ToSet(<<<<"restock", q>>, <<"row", k>>>>) = {<<"restock", q>>, <<"row", k>>}
<1>1. \A a, b : ToSet(<<a>>) = {a} /\ ToSet(<<a, b>>) = {a, b}
  <2> TAKE a, b
  <2>1. DOMAIN <<a>> = {1} /\ DOMAIN <<a, b>> = {1, 2}
    OBVIOUS
  <2> QED BY <2>1 DEF ToSet
<1>2. \A a, b \in Locks : <<a>> \in Seq(Locks) /\ <<a, b>> \in Seq(Locks)
  OBVIOUS
<1> QED BY <1>1, <1>2, RankNat

\* A transaction that ends without a commit, and one that has not begun.
LEMMA EndTxInv ==
  ASSUME TxInv, NEW p \in Txs, Refuse(p) \/ Rollback(p)
  PROVE  TxInv'
<1>1. /\ tx' = [tx EXCEPT ![p] = Idle] /\ held' = [held EXCEPT ![p] = {}]
      /\ UNCHANGED vars
  BY DEF Refuse, Rollback, End
<1>2. WellFormed(Idle) /\ Idle.op = "idle"
  BY DEF WellFormed, Idle
<1>3. Sound(p)'
  <2>1. tx'[p].op = "idle"
    BY <1>1, <1>2, Elsewhere DEF TxInv
  <2> QED BY <2>1 DEF Sound, ReserveSound, TransitionSound, RestockSound, ExpireSound
<1>4. {} \subseteq Locks /\ \A o \in Txs : {} \cap held[o] = {}
  OBVIOUS
<1> QED BY <1>1, <1>2, <1>3, <1>4, QuietStep

\* A session without a transaction holds nothing.
LEMMA IdleHoldsNothing ==
  ASSUME TxInv, NEW p \in Txs, tx[p] = Idle, UNCHANGED held
  PROVE  held[p] = {} /\ held' = [held EXCEPT ![p] = {}]
<1>1. tx[p].op = "idle"
  BY DEF Idle
<1> QED BY <1>1 DEF TxInv, TxShape

\* Reserve begins: the locks it plans are all it will need.
LEMMA BeginReserveTxInv ==
  ASSUME TxInv, NEW p \in Txs, NEW k \in Keys, NEW wanted \in Lines,
         NEW until \in (now + 1)..(now + MaxHold), BeginReserve(p, k, wanted, until)
  PROVE  TxInv'
<1> USE InventoryAssumption
<1> DEFINE plan == <<<<"key", k>>>> \o StockRows(wanted)
           t == [op |-> "reserve", key |-> k, lines |-> wanted, until |-> until,
                 at |-> now, plan |-> plan]
<1>0. now \in Nat /\ until \in Nat /\ until > now /\ until <= now + MaxHold
      /\ wanted \in [Variants -> Nat]
  BY DEF TxInv, IInv, TypeOK, Lines
<1>1. tx' = [tx EXCEPT ![p] = t] /\ held' = [held EXCEPT ![p] = {}] /\ UNCHANGED vars
  BY IdleHoldsNothing DEF BeginReserve
<1>2. /\ plan \in Seq(Locks) /\ <<"key", k>> \in ToSet(plan)
      /\ \A v \in Variants : wanted[v] > 0 => <<"stock", v>> \in ToSet(plan)
  <2> DEFINE first == <<<<"key", k>>>>
  <2>1. first \in Seq(Locks) /\ <<"key", k>> \in ToSet(first)
    BY FirstLocks
  <2>2. plan = first \o StockRows(wanted)
    OBVIOUS
  <2> HIDE DEF first, plan
  <2> QED BY <1>0, <2>1, <2>2, PlanOf
<1>3. WellFormed(t)
  <2> HIDE DEF plan
  <2> QED BY <1>0, <1>2 DEF WellFormed
<1>4. tx'[p] = t /\ held'[p] = {}
  BY <1>1, Elsewhere DEF TxInv
<1>5. Sound(p)'
  <2> HIDE DEF plan
  <2> QED BY <1>0, <1>2, <1>4 DEF Sound, ReserveSound, TransitionSound, RestockSound, ExpireSound, Claims
<1>6. t.op # "idle" /\ t.at <= now /\ now <= t.at + ClockLag
  <2> HIDE DEF plan
  <2> QED BY <1>0
<1>7. {} \subseteq Locks /\ \A o \in Txs : {} \cap held[o] = {}
  OBVIOUS
<1> HIDE DEF t, plan
<1> QED BY <1>1, <1>3, <1>5, <1>6, <1>7, QuietStep

\* Commit and Release begin with the reservation row.
LEMMA BeginTransitionTxInv ==
  ASSUME TxInv, NEW p \in Txs, NEW k \in Keys, NEW target \in {"COMMITTED", "RELEASED"},
         BeginTransition(p, k, target)
  PROVE  TxInv'
<1> USE InventoryAssumption
<1> DEFINE plan == <<<<"row", k>>>>
           t == [op |-> "transition", key |-> k, target |-> target, at |-> now, plan |-> plan]
<1>0. now \in Nat
  BY DEF TxInv, IInv, TypeOK
<1>1. tx' = [tx EXCEPT ![p] = t] /\ held' = [held EXCEPT ![p] = {}] /\ UNCHANGED vars
  BY IdleHoldsNothing DEF BeginTransition
<1>2. plan \in Seq(Locks)
  BY FirstLocks
<1>3. WellFormed(t)
  <2> HIDE DEF plan
  <2> QED BY <1>0, <1>2 DEF WellFormed
<1>4. tx'[p] = t /\ held'[p] = {}
  BY <1>1, Elsewhere DEF TxInv
<1>5. Sound(p)'
  BY <1>4 DEF Sound, ReserveSound, TransitionSound, RestockSound, ExpireSound, Claims
<1>6. t.op # "idle" /\ t.at <= now /\ now <= t.at + ClockLag
  BY <1>0
<1>7. {} \subseteq Locks /\ \A o \in Txs : {} \cap held[o] = {}
  OBVIOUS
<1> HIDE DEF t, plan
<1> QED BY <1>1, <1>3, <1>5, <1>6, <1>7, QuietStep

\* Restock begins: its request, the reservation row and the rows it puts back.
LEMMA BeginRestockTxInv ==
  ASSUME TxInv, NEW p \in Txs, NEW q \in RestockKeys, NEW k \in Keys, NEW back \in Lines,
         BeginRestock(p, q, k, back)
  PROVE  TxInv'
<1> USE InventoryAssumption
<1> DEFINE plan == <<<<"restock", q>>, <<"row", k>>>> \o StockRows(back)
           t == [op |-> "restock", request |-> q, key |-> k, lines |-> back, at |-> now,
                 plan |-> plan]
<1>0. now \in Nat /\ back \in [Variants -> Nat]
  BY DEF TxInv, IInv, TypeOK, Lines
<1>1. tx' = [tx EXCEPT ![p] = t] /\ held' = [held EXCEPT ![p] = {}] /\ UNCHANGED vars
  BY IdleHoldsNothing DEF BeginRestock
<1>2. plan \in Seq(Locks) /\ <<"restock", q>> \in ToSet(plan) /\ <<"row", k>> \in ToSet(plan)
  <2> DEFINE first == <<<<"restock", q>>, <<"row", k>>>>
  <2>1. first \in Seq(Locks) /\ <<"restock", q>> \in ToSet(first) /\ <<"row", k>> \in ToSet(first)
    BY FirstLocks
  <2>2. plan = first \o StockRows(back)
    OBVIOUS
  <2> HIDE DEF first, plan
  <2> QED BY <1>0, <2>1, <2>2, PlanOf
<1>3. WellFormed(t)
  <2> HIDE DEF plan
  <2> QED BY <1>0, <1>2 DEF WellFormed
<1>4. tx'[p] = t /\ held'[p] = {}
  BY <1>1, Elsewhere DEF TxInv
<1>5. Sound(p)'
  <2> HIDE DEF plan
  <2> QED BY <1>0, <1>2, <1>4 DEF Sound, ReserveSound, TransitionSound, RestockSound, ExpireSound, Claims
<1>6. t.op # "idle" /\ t.at <= now /\ now <= t.at + ClockLag
  <2> HIDE DEF plan
  <2> QED BY <1>0
<1>7. {} \subseteq Locks /\ \A o \in Txs : {} \cap held[o] = {}
  OBVIOUS
<1> HIDE DEF t, plan
<1> QED BY <1>1, <1>3, <1>5, <1>6, <1>7, QuietStep

\* A sweep claims due reservations that nobody has locked.
LEMMA BeginExpireTxInv ==
  ASSUME TxInv, NEW p \in Txs, BeginExpire(p)
  PROVE  TxInv'
<1> USE InventoryAssumption
<1>0. now \in Nat
  BY DEF TxInv, IInv, TypeOK
<1>1. PICK batch \in SUBSET Claimable(p) :
        /\ tx' = [tx EXCEPT ![p] =
                    [op |-> "expire", batch |-> batch, at |-> now, plan |-> BatchRows(batch)]]
        /\ held' = [held EXCEPT ![p] = {<<"row", k>> : k \in batch}]
        /\ UNCHANGED vars
  BY DEF BeginExpire
<1> DEFINE plan == BatchRows(batch)
           t == [op |-> "expire", batch |-> batch, at |-> now, plan |-> plan]
           h == {<<"row", k>> : k \in batch}
<1>2. \A k \in batch :
        /\ k \in Keys /\ state[k] = "RESERVED" /\ Expired(k, now)
        /\ \A o \in Txs : o # p => <<"row", k>> \notin held[o]
  BY DEF Claimable, Due, Free
<1>3. WellFormed(t)
  <2> HIDE DEF plan
  <2> QED BY <1>0, <1>2 DEF WellFormed
<1>4. t.op = "expire"
  OBVIOUS
<1>5. \A o \in Txs : o # p => h \cap held[o] = {}
  BY <1>2
<1>6. tx'[p] = t /\ held'[p] = h
  BY <1>1, Elsewhere DEF TxInv
<1>7. Sound(p)'
  <2> HIDE DEF plan
  <2> QED BY <1>1, <1>2, <1>6 DEF Sound, ReserveSound, TransitionSound, RestockSound, ExpireSound,
                                  Expired, vars
<1>8. t.op # "idle" /\ t.at <= now /\ now <= t.at + ClockLag
  <2> HIDE DEF plan
  <2> QED BY <1>0
<1>9. tx' = [tx EXCEPT ![p] = t] /\ held' = [held EXCEPT ![p] = h] /\ UNCHANGED vars
  BY <1>1
<1> HIDE DEF t, h, plan
<1> QED BY <1>3, <1>4, <1>5, <1>7, <1>8, <1>9, QuietStep

\* A record keeps its kind and its other fields when its plan is replaced.
LEMMA PlanReplaced ==
  ASSUME NEW r, WellFormed(r), r.op # "idle", NEW z, r.op # "expire" => z \in Seq(Locks)
  PROVE  WellFormed([r EXCEPT !.plan = z])
<1> DEFINE new == [f \in DOMAIN r |-> IF f = "plan" THEN z ELSE r[f]]
<1>0. [r EXCEPT !.plan = z] = new
  OBVIOUS
<1>1. CASE r.op = "reserve"
  <2>1. r = [op |-> "reserve", key |-> r.key, lines |-> r.lines, until |-> r.until, at |-> r.at,
                  plan |-> r.plan]
    BY <1>1 DEF WellFormed, Idle
  <2>2. new = [op |-> "reserve", key |-> r.key, lines |-> r.lines, until |-> r.until, at |-> r.at,
                  plan |-> z]
    BY <2>1
  <2>3. new.op = "reserve" /\ new.plan = z /\ new.key = r.key /\ new.lines = r.lines /\ new.until = r.until /\ new.at = r.at
    BY <2>2
  <2> HIDE DEF new
  <2> QED BY <1>1, <2>2, <2>3 DEF WellFormed, Idle
<1>2. CASE r.op = "transition"
  <2>1. r = [op |-> "transition", key |-> r.key, target |-> r.target, at |-> r.at,
                  plan |-> r.plan]
    BY <1>2 DEF WellFormed, Idle
  <2>2. new = [op |-> "transition", key |-> r.key, target |-> r.target, at |-> r.at,
                  plan |-> z]
    BY <2>1
  <2>3. new.op = "transition" /\ new.plan = z /\ new.key = r.key /\ new.target = r.target /\ new.at = r.at
    BY <2>2
  <2> HIDE DEF new
  <2> QED BY <1>2, <2>2, <2>3 DEF WellFormed, Idle
<1>3. CASE r.op = "restock"
  <2>1. r = [op |-> "restock", request |-> r.request, key |-> r.key, lines |-> r.lines, at |-> r.at,
                  plan |-> r.plan]
    BY <1>3 DEF WellFormed, Idle
  <2>2. new = [op |-> "restock", request |-> r.request, key |-> r.key, lines |-> r.lines, at |-> r.at,
                  plan |-> z]
    BY <2>1
  <2>3. new.op = "restock" /\ new.plan = z /\ new.request = r.request /\ new.key = r.key /\ new.lines = r.lines /\ new.at = r.at
    BY <2>2
  <2> HIDE DEF new
  <2> QED BY <1>3, <2>2, <2>3 DEF WellFormed, Idle
<1>4. CASE r.op = "expire"
  <2>1. r = [op |-> "expire", batch |-> r.batch, at |-> r.at,
                  plan |-> r.plan]
    BY <1>4 DEF WellFormed, Idle
  <2>2. new = [op |-> "expire", batch |-> r.batch, at |-> r.at,
                  plan |-> z]
    BY <2>1
  <2>3. new.op = "expire" /\ new.plan = z /\ new.batch = r.batch /\ new.at = r.at
    BY <2>2
  <2> HIDE DEF new
  <2> QED BY <1>4, <2>2, <2>3 DEF WellFormed, Idle
<1> HIDE DEF new
<1> QED BY <1>0, <1>1, <1>2, <1>3, <1>4 DEF WellFormed, Idle

\* A statement gets its lock: what it checked is what the lock now protects.
LEMMA LockTxInv ==
  ASSUME TxInv, NEW p \in Txs, Lock(p)
  PROVE  TxInv'
<1> USE InventoryAssumption
<1> DEFINE lock == Head(tx[p].plan)
           h == held[p] \cup {lock}
           rest == Onward(p)
           late == tx[p].op = "transition" /\ lock[1] = "row"
           t == IF late THEN AfterRow(p) ELSE rest
<1>0. /\ now \in Nat /\ WellFormed(tx[p]) /\ tx[p].plan # <<>> /\ tx[p].op # "idle"
      /\ tx[p].at <= now /\ now <= tx[p].at + ClockLag /\ Sound(p)
      /\ tx[p].op # "expire" => held[p] \subseteq Locks
  <2>1. tx[p].plan # <<>>
    BY DEF Lock
  <2>2. tx[p].op # "idle"
    BY <2>1 DEF TxInv, TxShape, WellFormed, Idle
  <2> QED BY <2>1, <2>2 DEF TxInv, IInv, TypeOK, TxShape, Timely
<1>1. /\ tx' = [tx EXCEPT ![p] = t] /\ held' = [held EXCEPT ![p] = h] /\ UNCHANGED vars
      /\ Admits(p, lock) /\ \A o \in Txs : o # p => lock \notin held[o]
  <2>1. tx' = [tx EXCEPT ![p] = t]
    BY Zenon DEF Lock
  <2>2. held' = [held EXCEPT ![p] = h] /\ UNCHANGED vars /\ Admits(p, lock) /\ Free(p, lock)
    BY Zenon DEF Lock
  <2> QED BY <2>1, <2>2 DEF Free
<1>2. \A o \in Txs : o # p => h \cap held[o] = {}
  BY <1>1 DEF TxInv, Exclusive
<1>3. tx'[p] = t /\ held'[p] = h
  BY <1>1, Elsewhere DEF TxInv
<1>4. ASSUME tx[p].op # "expire"
      PROVE  /\ tx[p].plan \in Seq(Locks) /\ lock \in Locks /\ Tail(tx[p].plan) \in Seq(Locks)
             /\ ToSet(tx[p].plan) = {lock} \cup ToSet(Tail(tx[p].plan))
  <2>1. tx[p].plan \in Seq(Locks)
    BY <1>0, <1>4 DEF WellFormed, Idle
  <2> QED BY <1>0, <2>1, PlanHead
<1>5. CASE late
  <2> DEFINE k == tx[p].key
             u == AfterRow(p)
  <2>0. tx[p].key \in Keys /\ state[tx[p].key] = "RESERVED" /\ lines[tx[p].key] \in [Variants -> Nat]
    <3>1. tx[p].key \in Keys
      BY <1>0, <1>5 DEF WellFormed, Idle
    <3>2. state[tx[p].key] = "RESERVED"
      <4> HIDE DEF lock
      <4> QED BY <1>1, <1>5 DEF Admits, late
    <3> QED BY <3>1, <3>2 DEF TxInv, IInv, TypeOK
  <2>1. StockRows(lines[tx[p].key]) \in Seq(Locks) /\ <<>> \in Seq(Locks)
    <3>1. {"stock"} \X Variants \subseteq Locks
      BY DEF Locks
    <3>2. StockRows(lines[tx[p].key]) \in Seq({"stock"} \X Variants)
      BY <2>0, StockRowsSorted
    <3> QED BY <3>1, <3>2
  <2>2. /\ u.op = "transition" /\ u.key = tx[p].key /\ u.at = now
        /\ u.target \in {"COMMITTED", "RELEASED"} /\ u.plan \in Seq(Locks)
        /\ u.target = "COMMITTED" => ~Expired(tx[p].key, now)
        /\ u = [op |-> "transition", key |-> u.key, target |-> u.target, at |-> u.at,
                plan |-> u.plan]
    BY <2>1 DEF AfterRow
  <2>3. t = u
    BY <1>5
  <2>4. WellFormed(u)
    <3> HIDE DEF u
    <3> QED BY <1>0, <2>0, <2>2 DEF WellFormed
  <2>5. <<"row", tx[p].key>> \in h
    <3>1. CASE <<"row", tx[p].key>> \in held[p]
      BY <3>1
    <3>2. CASE tx[p].plan = <<<<"row", tx[p].key>>>>
      BY <3>2
    <3> QED BY <1>0, <1>5, <3>1, <3>2 DEF Sound, TransitionSound
  <2>6. Sound(p)'
    <3>1. tx'[p] = u /\ held'[p] = h /\ state' = state /\ expiresAt' = expiresAt
      BY <1>1, <1>3, <2>3 DEF vars
    <3> HIDE DEF u, h
    <3> QED BY <2>0, <2>2, <2>5, <3>1 DEF Sound, ReserveSound, TransitionSound, RestockSound,
                                         ExpireSound, Expired
  <2>7. h \subseteq Locks
    BY <1>0, <1>4, <1>5
  <2>8. u.op # "idle" /\ u.at <= now /\ now <= u.at + ClockLag
    BY <1>0, <2>2
  <2>9. tx' = [tx EXCEPT ![p] = u]
    BY <1>1, <2>3
  <2> HIDE DEF u, h
  <2> QED BY <1>1, <1>2, <2>4, <2>6, <2>7, <2>8, <2>9, QuietStep
<1>6. CASE ~late
  <2>0. t = rest
    BY <1>6
  <2>2. /\ rest.op = tx[p].op /\ rest.at = tx[p].at /\ rest.plan = Tail(tx[p].plan)
        /\ tx[p].op \in {"reserve", "transition", "restock"} => rest.key = tx[p].key
        /\ tx[p].op \in {"reserve", "restock"} => rest.lines = tx[p].lines
        /\ tx[p].op = "reserve" => rest.until = tx[p].until
        /\ tx[p].op = "transition" => rest.target = tx[p].target
        /\ tx[p].op = "restock" => rest.request = tx[p].request
        /\ tx[p].op = "expire" => rest.batch = tx[p].batch
    BY <1>0 DEF WellFormed, Idle, Onward
  <2>1. WellFormed(rest)
    BY <1>0, <1>4, PlanReplaced DEF Onward
  <2>3. tx'[p] = rest /\ held'[p] = h /\ UNCHANGED vars
    BY <1>1, <1>3, <2>0
  <2>4. ReserveSound(p)'
    <3> SUFFICES ASSUME tx[p].op = "reserve" PROVE ReserveSound(p)'
      BY <2>2, <2>3 DEF ReserveSound
    <3>1. Claims(p)' = Claims(p)
      <4>1. Claims(p)' = h \cup ToSet(Tail(tx[p].plan))
        BY <2>2, <2>3 DEF Claims
      <4> QED BY <1>4, <4>1 DEF Claims
    <3>2. ReserveSound(p)
      BY <1>0 DEF Sound
    <3>3. ASSUME <<"key", tx[p].key>> = lock
          PROVE  state[tx[p].key] = "NONE"
      <4>1. lock[1] = "key"
        BY <3>3
      <4> HIDE DEF lock
      <4> QED BY <1>1, <4>1 DEF Admits
    <3>4. ASSUME NEW v \in Variants, <<"stock", v>> = lock
          PROVE  tx[p].lines[v] <= stock[v]
      <4>1. lock[1] = "stock" /\ lock[2] = v
        BY <3>4
      <4> QED BY <1>1, <4>1 DEF Admits
    <3> HIDE DEF lock, rest
    <3> QED BY <2>2, <2>3, <3>1, <3>2, <3>3, <3>4 DEF ReserveSound, vars
  <2>5. TransitionSound(p)'
    <3> SUFFICES ASSUME tx[p].op = "transition" PROVE TransitionSound(p)'
      BY <2>2, <2>3 DEF TransitionSound
    <3>1. TransitionSound(p) /\ lock[1] # "row"
      BY <1>0, <1>6 DEF Sound
    <3>2. tx[p].plan = <<<<"row", tx[p].key>>>> => lock[1] = "row"
      OBVIOUS
    <3>3. <<"row", tx[p].key>> \in held[p] /\ <<"row", tx[p].key>> \in h
      BY <3>1, <3>2 DEF TransitionSound
    <3> HIDE DEF lock, rest, h
    <3> QED BY <2>2, <2>3, <3>1, <3>3 DEF TransitionSound, Expired, vars
  <2>6. RestockSound(p)'
    <3> SUFFICES ASSUME tx[p].op = "restock" PROVE RestockSound(p)'
      BY <2>2, <2>3 DEF RestockSound
    <3>1. Claims(p)' = Claims(p)
      <4>1. Claims(p)' = h \cup ToSet(Tail(tx[p].plan))
        BY <2>2, <2>3 DEF Claims
      <4> QED BY <1>4, <4>1 DEF Claims
    <3>2. RestockSound(p)
      BY <1>0 DEF Sound
    <3>3. ASSUME <<"restock", tx[p].request>> = lock
          PROVE  restocks[tx[p].request] = NoRestock
      <4>1. lock[1] = "restock"
        BY <3>3
      <4> HIDE DEF lock
      <4> QED BY <1>1, <4>1 DEF Admits
    <3>4. <<"row", tx[p].key>> = lock =>
            /\ state[tx[p].key] = "COMMITTED"
            /\ \A v \in Variants :
                 tx[p].lines[v] <= lines[tx[p].key][v] - restocked[tx[p].key][v]
      <4>1. SUFFICES ASSUME <<"row", tx[p].key>> = lock
                     PROVE  /\ state[tx[p].key] = "COMMITTED"
                            /\ \A v \in Variants :
                                 tx[p].lines[v] <= lines[tx[p].key][v] - restocked[tx[p].key][v]
        OBVIOUS
      <4>2. lock[1] = "row"
        BY <4>1
      <4> QED BY <1>1, <4>2 DEF Admits
    <3> HIDE DEF lock, rest
    <3> QED BY <2>2, <2>3, <3>1, <3>2, <3>3, <3>4 DEF RestockSound, vars
  <2>7. ExpireSound(p)'
    <3> SUFFICES ASSUME tx[p].op = "expire" PROVE ExpireSound(p)'
      BY <2>2, <2>3 DEF ExpireSound
    <3>1. ExpireSound(p)
      BY <1>0 DEF Sound
    <3> HIDE DEF rest, lock
    <3> QED BY <2>2, <2>3, <3>1 DEF ExpireSound, Expired, vars
  <2>8. tx[p].op # "expire" => h \subseteq Locks
    BY <1>0, <1>4
  <2>9. Sound(p)'
    BY <2>4, <2>5, <2>6, <2>7 DEF Sound
  <2>10. tx' = [tx EXCEPT ![p] = rest]
    BY <1>1, <2>0
  <2> HIDE DEF rest, h
  <2> QED BY <1>0, <1>1, <1>2, <2>1, <2>2, <2>8, <2>9, <2>10, QuietStep
<1> QED BY <1>5, <1>6

----------------------------------------------------------------------------
(* Commits: one step of Inventory each.                                    *)

\* What another session checked outlives a commit of p that changes only what p
\* has locked, and otherwise only adds stock.
LEMMA SoundElsewhere ==
  ASSUME TxInv, NEW p \in Txs, NEW o \in Txs, o # p,
         tx'[o] = tx[o], held'[o] = held[o], now' = now,
         \A v \in Variants : <<"stock", v>> \notin held[p] => stock'[v] >= stock[v],
         \A k \in Keys : state'[k] # state[k] =>
           \/ state[k] = "NONE" /\ <<"key", k>> \in held[p]
           \/ state[k] = "RESERVED" /\ <<"row", k>> \in held[p],
         \A k \in Keys : state[k] # "NONE" => expiresAt'[k] = expiresAt[k] /\ lines'[k] = lines[k],
         \A k \in Keys : restocked'[k] # restocked[k] => <<"row", k>> \in held[p],
         \A q \in RestockKeys : restocks'[q] # restocks[q] => <<"restock", q>> \in held[p],
         IInv'
  PROVE  Sound(o)'
<1>1. /\ Sound(o) /\ WellFormed(tx[o]) /\ \A lock \in held[o] : lock \notin held[p]
      /\ stock \in [Variants -> Nat] /\ stock' \in [Variants -> Nat]
  BY DEF TxInv, TxShape, Exclusive, IInv, TypeOK
<1>2. Claims(o)' = Claims(o)
  BY DEF Claims
<1>3. ReserveSound(o)'
  <2> SUFFICES ASSUME tx[o].op = "reserve" PROVE ReserveSound(o)'
    BY DEF ReserveSound
  <2>1. tx[o].key \in Keys /\ tx[o].lines \in [Variants -> Nat]
    <3>1. tx[o].key \in Keys /\ tx[o].lines \in Lines
      BY <1>1 DEF WellFormed, Idle
    <3> QED BY <3>1, InventoryAssumption DEF Lines
  <2>2. <<"key", tx[o].key>> \in held[o] => state'[tx[o].key] = "NONE"
    BY <1>1, <2>1 DEF Sound, ReserveSound
  <2>3. ASSUME NEW v \in Variants, <<"stock", v>> \in held[o]
        PROVE  tx[o].lines[v] <= stock'[v]
    <3>1. tx[o].lines[v] <= stock[v] /\ stock'[v] >= stock[v]
      BY <1>1, <2>3 DEF Sound, ReserveSound
    <3> QED BY <1>1, <2>1, <3>1
  <2> QED BY <1>1, <1>2, <2>2, <2>3 DEF Sound, ReserveSound
<1>4. TransitionSound(o)'
  <2> SUFFICES ASSUME tx[o].op = "transition" PROVE TransitionSound(o)'
    BY DEF TransitionSound
  <2>1. tx[o].key \in Keys
    BY <1>1 DEF WellFormed, Idle
  <2> QED BY <1>1, <2>1 DEF Sound, TransitionSound, Expired
<1>5. RestockSound(o)'
  <2> SUFFICES ASSUME tx[o].op = "restock" PROVE RestockSound(o)'
    BY DEF RestockSound
  <2>1. tx[o].key \in Keys /\ tx[o].request \in RestockKeys
    BY <1>1 DEF WellFormed, Idle
  <2>2. <<"restock", tx[o].request>> \in held[o] => restocks'[tx[o].request] = NoRestock
    BY <1>1, <2>1 DEF Sound, RestockSound
  <2>3. <<"row", tx[o].key>> \in held[o] =>
          /\ state[tx[o].key] = "COMMITTED" /\ state'[tx[o].key] = "COMMITTED"
          /\ lines'[tx[o].key] = lines[tx[o].key] /\ restocked'[tx[o].key] = restocked[tx[o].key]
    BY <1>1, <2>1 DEF Sound, RestockSound
  <2>4. NoRestock' = NoRestock
    BY DEF NoRestock, NoLines
  <2> QED BY <1>1, <1>2, <2>2, <2>3, <2>4 DEF Sound, RestockSound
<1>6. ExpireSound(o)'
  <2> SUFFICES ASSUME tx[o].op = "expire", NEW k \in tx[o].batch
               PROVE  <<"row", k>> \in held[o] /\ state'[k] = "RESERVED" /\ expiresAt'[k] <= now
    BY DEF ExpireSound, Expired
  <2>1. k \in Keys
    BY <1>1 DEF WellFormed, Idle
  <2> QED BY <1>1, <2>1 DEF Sound, ExpireSound, Expired
<1> QED BY <1>3, <1>4, <1>5, <1>6 DEF Sound

\* The invariant after a commit of p, from the tables and the other sessions.
LEMMA CommitTxInv ==
  ASSUME TxInv, NEW p \in Txs, End(p), now' = now, IInv',
         \A o \in Txs : o # p /\ tx'[o] = tx[o] /\ held'[o] = held[o] => Sound(o)'
  PROVE  TxInv'
<1>1. tx' = [tx EXCEPT ![p] = Idle] /\ held' = [held EXCEPT ![p] = {}]
  BY DEF End
<1>2. WellFormed(Idle) /\ Idle.op = "idle" /\ {} \subseteq Locks
      /\ \A o \in Txs : {} \cap held[o] = {}
  BY DEF WellFormed, Idle
<1>3. TxShape' /\ Exclusive' /\ Timely'
  BY <1>1, <1>2, StepKeepsShape DEF TxInv
<1>4. Sound(p)'
  <2>1. tx'[p].op = "idle"
    BY <1>1, <1>2, Elsewhere DEF TxInv
  <2> QED BY <2>1 DEF Sound, ReserveSound, TransitionSound, RestockSound, ExpireSound
<1>5. \A o \in Txs : o # p => tx'[o] = tx[o] /\ held'[o] = held[o]
  BY <1>1, Elsewhere DEF TxInv
<1> QED BY <1>3, <1>4, <1>5 DEF TxInv

\* A session whose plan is done holds every lock it needs.
LEMMA ReadyHolds ==
  ASSUME NEW p \in Txs, NEW op, Ready(p, op)
  PROVE  Claims(p) = held[p]
<1>1. ToSet(<<>>) = {}
  BY DEF ToSet
<1> QED BY <1>1 DEF Claims, Ready

\* A reservation: nobody else has made one with its key, and the stock it checked
\* is there.
LEMMA CommitReserveStep ==
  ASSUME TxInv, NEW p \in Txs, CommitReserve(p)
  PROVE  [Next]_vars /\ TxInv'
<1> USE InventoryAssumption
<1> DEFINE k == tx[p].key
           l == tx[p].lines
<1>1. /\ tx[p].op = "reserve" /\ k \in Keys /\ l \in Lines /\ l \in [Variants -> Nat]
      /\ tx[p].until \in Nat /\ tx[p].at \in Nat /\ now \in Nat
      /\ tx[p].at <= now /\ now <= tx[p].at + ClockLag
      /\ tx[p].until > tx[p].at /\ tx[p].until <= tx[p].at + MaxHold
      /\ stock \in [Variants -> Nat]
  <2>1. tx[p].op = "reserve"
    BY DEF CommitReserve, Ready
  <2>2. WellFormed(tx[p]) /\ ReserveSound(p) /\ now \in Nat /\ stock \in [Variants -> Nat]
        /\ tx[p].at <= now /\ now <= tx[p].at + ClockLag
    BY <2>1 DEF TxInv, TxShape, Sound, IInv, TypeOK, Timely
  <2>3. k \in Keys /\ l \in Lines /\ tx[p].until \in Nat /\ tx[p].at \in Nat
    BY <2>1, <2>2 DEF WellFormed, Idle
  <2> QED BY <2>1, <2>2, <2>3 DEF ReserveSound, Lines
<1>2. /\ <<"key", k>> \in held[p] /\ state[k] = "NONE"
      /\ \A v \in Variants : l[v] > 0 => <<"stock", v>> \in held[p] /\ l[v] <= stock[v]
  <2>1. ReserveSound(p) /\ Claims(p) = held[p]
    BY ReadyHolds DEF TxInv, Sound, CommitReserve
  <2> QED BY <1>1, <2>1 DEF ReserveSound
<1>3. Covers(l)
  <2> SUFFICES ASSUME NEW v \in Variants PROVE l[v] <= stock[v]
    BY DEF Covers
  <2>1. l[v] \in Nat /\ stock[v] \in Nat
    BY <1>1
  <2>2. l[v] > 0 => l[v] <= stock[v]
    BY <1>2
  <2> HIDE DEF l
  <2> QED BY <2>1, <2>2
<1>4. Reserve(k, l, tx[p].until, tx[p].at)
  BY <1>1, <1>2, <1>3 DEF CommitReserve, Reserve
<1>5. Next
  <2>1. tx[p].until \in 1..(now + MaxHold) /\ tx[p].at \in Readings
    BY <1>1 DEF Readings
  <2> QED BY <1>1, <1>4, <2>1 DEF Next
<1>6. IInv'
  BY <1>5, NextIInv DEF TxInv
<1>7. ASSUME NEW o \in Txs, o # p, tx'[o] = tx[o], held'[o] = held[o]
      PROVE  Sound(o)'
  <2>1. \A v \in Variants : <<"stock", v>> \notin held[p] => stock'[v] >= stock[v]
    <3>1. \A v \in Variants : stock'[v] = stock[v] - l[v] /\ stock[v] \in Nat /\ l[v] \in Nat
      BY <1>1, <1>4 DEF Reserve
    <3> QED BY <1>2, <3>1
  <2>2. \A j \in Keys : /\ state'[j] # state[j] => state[j] = "NONE" /\ <<"key", j>> \in held[p]
                        /\ state[j] # "NONE" => expiresAt'[j] = expiresAt[j] /\ lines'[j] = lines[j]
    <3>1. \A j \in Keys : j # k => /\ state'[j] = state[j] /\ expiresAt'[j] = expiresAt[j]
                                   /\ lines'[j] = lines[j]
      BY <1>4 DEF Reserve, TxInv, IInv, TypeOK
    <3> QED BY <1>2, <3>1
  <2>3. restocked' = restocked /\ restocks' = restocks /\ now' = now
    BY <1>4 DEF Reserve
  <2> HIDE DEF k, l
  <2> QED BY <1>6, <1>7, <2>1, <2>2, <2>3, SoundElsewhere
<1>8. End(p) /\ now' = now
  BY DEF CommitReserve
<1> QED BY <1>5, <1>6, <1>7, <1>8, CommitTxInv

\* Commit and Release: the row was RESERVED when it was locked and still is; a
\* Commit whose hold was due turned into a release then.
LEMMA CommitTransitionStep ==
  ASSUME TxInv, NEW p \in Txs, CommitTransition(p)
  PROVE  [Next]_vars /\ TxInv'
<1> USE InventoryAssumption
<1> DEFINE k == tx[p].key
<1>1. /\ tx[p].op = "transition" /\ k \in Keys /\ tx[p].target \in {"COMMITTED", "RELEASED"}
      /\ tx[p].at \in Readings /\ <<"row", k>> \in held[p] /\ state[k] = "RESERVED"
      /\ tx[p].target = "COMMITTED" => ~Expired(k, tx[p].at)
  <2>1. tx[p].op = "transition" /\ tx[p].plan = <<>>
    BY DEF CommitTransition, Ready
  <2>2. WellFormed(tx[p]) /\ TransitionSound(p) /\ now \in Nat
        /\ tx[p].at <= now /\ now <= tx[p].at + ClockLag
    BY <2>1 DEF TxInv, TxShape, Sound, IInv, TypeOK, Timely
  <2>3. k \in Keys /\ tx[p].target \in {"COMMITTED", "RELEASED"} /\ tx[p].at \in Nat
    BY <2>1, <2>2 DEF WellFormed, Idle
  <2>4. <<>> # <<<<"row", k>>>>
    OBVIOUS
  <2>5. tx[p].at \in Readings
    BY <2>2, <2>3 DEF Readings
  <2> QED BY <2>1, <2>2, <2>3, <2>4, <2>5 DEF TransitionSound
<1>2. Transition(k, tx[p].target, tx[p].at)
  BY <1>1 DEF CommitTransition, Transition
<1>3. Next
  <2>1. CASE tx[p].target = "COMMITTED"
    BY <1>1, <1>2, <2>1 DEF Next, Commit
  <2>2. CASE tx[p].target = "RELEASED"
    BY <1>1, <1>2, <2>2 DEF Next, Release
  <2> QED BY <1>1, <2>1, <2>2
<1>4. IInv'
  BY <1>3, NextIInv DEF TxInv
<1>5. ASSUME NEW o \in Txs, o # p, tx'[o] = tx[o], held'[o] = held[o]
      PROVE  Sound(o)'
  <2>0. stock \in [Variants -> Nat] /\ lines[k] \in [Variants -> Nat]
    BY <1>1 DEF TxInv, IInv, TypeOK
  <2>1. \A v \in Variants : <<"stock", v>> \notin held[p] => stock'[v] >= stock[v]
    <3>1. stock' = stock \/ stock' = [v \in Variants |-> stock[v] + lines[k][v]]
      BY <1>2 DEF Transition, Restore
    <3>2. \A v \in Variants : stock[v] \in Nat /\ lines[k][v] \in Nat
      BY <2>0
    <3> QED BY <3>1, <3>2
  <2>2. \A j \in Keys : state'[j] # state[j] => state[j] = "RESERVED" /\ <<"row", j>> \in held[p]
    <3>1. \A j \in Keys : j # k => state'[j] = state[j]
      BY <1>2 DEF Transition, TxInv, IInv, TypeOK
    <3> QED BY <1>1, <3>1
  <2>3. /\ expiresAt' = expiresAt /\ lines' = lines /\ restocked' = restocked
        /\ restocks' = restocks /\ now' = now
    BY <1>2 DEF Transition
  <2> HIDE DEF k
  <2> QED BY <1>4, <1>5, <2>1, <2>2, <2>3, SoundElsewhere
<1>6. End(p) /\ now' = now
  BY DEF CommitTransition
<1> QED BY <1>3, <1>4, <1>5, <1>6, CommitTxInv

\* Restock: nobody else used its request, and what the reservation has left to
\* give back is what it read.
LEMMA CommitRestockStep ==
  ASSUME TxInv, NEW p \in Txs, CommitRestock(p)
  PROVE  [Next]_vars /\ TxInv'
<1> USE InventoryAssumption
<1> DEFINE k == tx[p].key
           q == tx[p].request
           l == tx[p].lines
<1>1. /\ tx[p].op = "restock" /\ k \in Keys /\ q \in RestockKeys /\ l \in Lines
      /\ <<"row", k>> \in held[p] /\ <<"restock", q>> \in held[p]
      /\ restocks[q] = NoRestock /\ state[k] = "COMMITTED"
      /\ \A v \in Variants : l[v] <= lines[k][v] - restocked[k][v]
  <2>1. tx[p].op = "restock"
    BY DEF CommitRestock, Ready
  <2>2. WellFormed(tx[p]) /\ RestockSound(p) /\ Claims(p) = held[p]
    BY ReadyHolds DEF TxInv, TxShape, Sound, CommitRestock
  <2>3. k \in Keys /\ q \in RestockKeys /\ l \in Lines
    BY <2>1, <2>2 DEF WellFormed, Idle
  <2> QED BY <2>1, <2>2, <2>3 DEF RestockSound
<1>2. Restock(q, k, l)
  BY <1>1 DEF CommitRestock, Restock
<1>3. Next
  BY <1>1, <1>2 DEF Next
<1>4. IInv'
  BY <1>3, NextIInv DEF TxInv
<1>5. ASSUME NEW o \in Txs, o # p, tx'[o] = tx[o], held'[o] = held[o]
      PROVE  Sound(o)'
  <2>0. stock \in [Variants -> Nat] /\ l \in [Variants -> Nat]
    BY <1>1 DEF TxInv, IInv, TypeOK, Lines
  <2>1. \A v \in Variants : <<"stock", v>> \notin held[p] => stock'[v] >= stock[v]
    <3>1. stock' = [v \in Variants |-> stock[v] + l[v]]
      BY <1>2 DEF Restock, Restore
    <3>2. \A v \in Variants : stock[v] \in Nat /\ l[v] \in Nat
      BY <2>0
    <3> QED BY <3>1, <3>2
  <2>2. \A j \in Keys : restocked'[j] # restocked[j] => <<"row", j>> \in held[p]
    <3>1. \A j \in Keys : j # k => restocked'[j] = restocked[j]
      BY <1>2 DEF Restock, TxInv, IInv, TypeOK
    <3> QED BY <1>1, <3>1
  <2>3. \A j \in RestockKeys : restocks'[j] # restocks[j] => <<"restock", j>> \in held[p]
    <3>1. \A j \in RestockKeys : j # q => restocks'[j] = restocks[j]
      BY <1>2 DEF Restock, TxInv, IInv, TypeOK
    <3> QED BY <1>1, <3>1
  <2>4. expiresAt' = expiresAt /\ lines' = lines /\ state' = state /\ now' = now
    BY <1>2 DEF Restock
  <2> HIDE DEF k, q, l
  <2> QED BY <1>4, <1>5, <2>1, <2>2, <2>3, <2>4, SoundElsewhere
<1>6. End(p) /\ now' = now
  BY DEF CommitRestock
<1> QED BY <1>3, <1>4, <1>5, <1>6, CommitTxInv

\* A sweep: what it claimed is still due, or it claimed nothing and changes nothing.
LEMMA CommitExpireStep ==
  ASSUME TxInv, NEW p \in Txs, CommitExpire(p)
  PROVE  [Next]_vars /\ TxInv'
<1> USE InventoryAssumption
<1> DEFINE batch == tx[p].batch
<1>1. /\ batch \in SUBSET Due /\ \A k \in batch : <<"row", k>> \in held[p] /\ state[k] = "RESERVED"
      /\ ExpireBatch(batch) /\ End(p)
  <2>1. tx[p].op = "expire"
    BY DEF CommitExpire, Ready
  <2>2. WellFormed(tx[p]) /\ ExpireSound(p)
    BY DEF TxInv, TxShape, Sound
  <2>3. batch \in SUBSET Keys
    BY <2>1, <2>2 DEF WellFormed, Idle
  <2> QED BY <2>1, <2>2, <2>3 DEF ExpireSound, Due, CommitExpire
<1> HIDE DEF batch
<1>2. [Next]_vars
  <2>1. CASE batch = {}
    <3>1. ASSUME NEW v \in Variants
          PROVE  BatchReturn(batch, v) = 0
      <4> DEFINE f == [k \in Keys |-> IF k \in batch THEN lines[k][v] ELSE 0]
      <4>1. \A i \in 1..MaxKey : f[i] = 0
        BY <2>1 DEF Keys
      <4>2. BatchReturn(batch, v) = SumTo(f, MaxKey)
        BY DEF BatchReturn
      <4> HIDE DEF f
      <4> QED BY <4>1, <4>2, SumZero
    <3>2. \A v \in Variants : stock[v] + 0 = stock[v]
      BY DEF TxInv, IInv, TypeOK
    <3>3. stock' = stock
      <4>1. stock' = [v \in Variants |-> stock[v] + BatchReturn(batch, v)]
        BY <1>1 DEF ExpireBatch
      <4>2. \A v \in Variants : stock[v] + BatchReturn(batch, v) = stock[v]
        BY <3>1, <3>2
      <4>3. stock = [v \in Variants |-> stock[v]]
        BY DEF TxInv, IInv, TypeOK
      <4> QED BY <4>1, <4>2, <4>3
    <3>4. state' = state
      BY <1>1, <2>1 DEF ExpireBatch, TxInv, IInv, TypeOK
    <3> QED BY <1>1, <3>3, <3>4 DEF ExpireBatch, vars
  <2>2. CASE batch # {}
    BY <1>1, <2>2 DEF Next, Expire
  <2> QED BY <2>1, <2>2
<1>4. IInv'
  BY <1>2, NextIInv DEF TxInv
<1>5. ASSUME NEW o \in Txs, o # p, tx'[o] = tx[o], held'[o] = held[o]
      PROVE  Sound(o)'
  <2>1. \A v \in Variants : <<"stock", v>> \notin held[p] => stock'[v] >= stock[v]
    <3> SUFFICES ASSUME NEW v \in Variants PROVE stock'[v] >= stock[v]
      OBVIOUS
    <3> DEFINE f == [k \in Keys |-> IF k \in batch THEN lines[k][v] ELSE 0]
    <3>1. \A i \in 1..MaxKey : f[i] \in Nat
      BY DEF Keys, TxInv, IInv, TypeOK
    <3>2. stock'[v] = stock[v] + SumTo(f, MaxKey)
      BY <1>1 DEF ExpireBatch, BatchReturn
    <3>3. stock[v] \in Nat
      BY DEF TxInv, IInv, TypeOK
    <3> HIDE DEF f
    <3>4. SumTo(f, MaxKey) \in Nat
      BY <3>1, SumNat
    <3> QED BY <3>2, <3>3, <3>4
  <2>2. \A j \in Keys : state'[j] # state[j] => state[j] = "RESERVED" /\ <<"row", j>> \in held[p]
    BY <1>1 DEF ExpireBatch
  <2>3. /\ expiresAt' = expiresAt /\ lines' = lines /\ restocked' = restocked
        /\ restocks' = restocks /\ now' = now
    BY <1>1 DEF ExpireBatch
  <2> QED BY <1>4, <1>5, <2>1, <2>2, <2>3, SoundElsewhere
<1>6. now' = now
  BY <1>1 DEF ExpireBatch
<1> QED BY <1>1, <1>2, <1>4, <1>5, <1>6, CommitTxInv

\* Time passes: due holds stay due, and no transaction outlives its timeout.
LEMMA TxTickStep ==
  ASSUME TxInv, TxTick
  PROVE  [Next]_vars /\ TxInv'
<1> USE InventoryAssumption
<1>1. Tick /\ tx' = tx /\ held' = held
  BY DEF TxTick, txVars
<1>2. /\ UNCHANGED <<stock, state, expiresAt, lines, restocked, restocks>>
      /\ now \in Nat /\ now' = now + 1
  BY <1>1 DEF Tick, TxInv, IInv, TypeOK
<1>3. Next
  BY <1>1 DEF Next
<1>4. IInv'
  BY <1>3, NextIInv DEF TxInv
<1>5. TxShape' /\ Exclusive'
  BY <1>1 DEF TxInv, TxShape, Exclusive, WellFormed, Idle, Locks
<1>6. Timely'
  <2> SUFFICES ASSUME NEW p \in Txs, tx[p].op # "idle"
               PROVE  tx[p].at <= now + 1 /\ now + 1 <= tx[p].at + ClockLag
    BY <1>1, <1>2 DEF Timely
  <2>1. tx[p].at \in Nat /\ tx[p].at <= now /\ now < tx[p].at + ClockLag
    <3>1. WellFormed(tx[p]) /\ tx[p] # Idle
      BY DEF TxInv, TxShape, Idle
    <3>2. tx[p].at \in Nat
      BY <3>1 DEF WellFormed
    <3> QED BY <3>1, <3>2 DEF TxInv, Timely, TxTick
  <2> QED BY <1>2, <2>1
<1>7. ASSUME NEW p \in Txs
      PROVE  Sound(p)'
  <2>1. Sound(p) /\ WellFormed(tx[p]) /\ expiresAt \in [Keys -> Nat]
    BY DEF TxInv, TxShape, IInv, TypeOK
  <2>2. ReserveSound(p)' /\ TransitionSound(p)' /\ RestockSound(p)'
    BY <1>1, <1>2, <2>1 DEF Sound, ReserveSound, TransitionSound, RestockSound, Claims, Expired
  <2>3. ExpireSound(p)'
    <3> SUFFICES ASSUME tx[p].op = "expire", NEW k \in tx[p].batch
                 PROVE  <<"row", k>> \in held[p] /\ state[k] = "RESERVED" /\ expiresAt[k] <= now + 1
      BY <1>1, <1>2 DEF ExpireSound, Expired
    <3>1. k \in Keys
      BY <2>1 DEF WellFormed, Idle
    <3>2. <<"row", k>> \in held[p] /\ state[k] = "RESERVED" /\ expiresAt[k] <= now
      BY <2>1 DEF Sound, ExpireSound, Expired
    <3>3. expiresAt[k] \in Nat
      BY <2>1, <3>1
    <3> QED BY <1>2, <3>2, <3>3
  <2> QED BY <2>2, <2>3 DEF Sound
<1> QED BY <1>3, <1>4, <1>5, <1>6, <1>7 DEF TxInv

\* Every step of the transactions keeps the invariant and is a step of Inventory,
\* or leaves the tables alone.
LEMMA NextTxInv == TxInv /\ [TxNext]_allVars => TxInv' /\ [Next]_vars
<1> SUFFICES ASSUME TxInv, [TxNext]_allVars PROVE TxInv' /\ [Next]_vars
  OBVIOUS
<1>1. ASSUME NEW p \in Txs, NEW k \in Keys, NEW wanted \in Lines,
             NEW until \in (now + 1)..(now + MaxHold), BeginReserve(p, k, wanted, until)
      PROVE  TxInv' /\ [Next]_vars
  BY <1>1, BeginReserveTxInv DEF BeginReserve
<1>2. ASSUME NEW p \in Txs, NEW k \in Keys, NEW target \in {"COMMITTED", "RELEASED"},
             BeginTransition(p, k, target)
      PROVE  TxInv' /\ [Next]_vars
  BY <1>2, BeginTransitionTxInv DEF BeginTransition
<1>3. ASSUME NEW p \in Txs, NEW q \in RestockKeys, NEW k \in Keys, NEW back \in Lines,
             BeginRestock(p, q, k, back)
      PROVE  TxInv' /\ [Next]_vars
  BY <1>3, BeginRestockTxInv DEF BeginRestock
<1>4. ASSUME NEW p \in Txs, BeginExpire(p)
      PROVE  TxInv' /\ [Next]_vars
  BY <1>4, BeginExpireTxInv DEF BeginExpire
<1>5. ASSUME NEW p \in Txs, Lock(p)
      PROVE  TxInv' /\ [Next]_vars
  BY <1>5, LockTxInv DEF Lock
<1>6. ASSUME NEW p \in Txs, Refuse(p) \/ Rollback(p)
      PROVE  TxInv' /\ [Next]_vars
  BY <1>6, EndTxInv DEF Refuse, Rollback
<1>7. ASSUME NEW p \in Txs, CommitReserve(p) \/ CommitTransition(p) \/ CommitRestock(p) \/ CommitExpire(p)
      PROVE  TxInv' /\ [Next]_vars
  BY <1>7, CommitReserveStep, CommitTransitionStep, CommitRestockStep, CommitExpireStep
<1>8. CASE TxTick
  BY <1>8, TxTickStep
<1>9. CASE UNCHANGED allVars
  <2>1. UNCHANGED vars /\ tx' = tx /\ held' = held
    BY <1>9 DEF allVars, txVars
  <2>2. IInv'
    BY <2>1, IdleIInv DEF TxInv
  <2>3. TxShape' /\ Exclusive' /\ Timely'
    BY <2>1 DEF TxInv, TxShape, Exclusive, Timely, WellFormed, Idle, Locks, vars
  <2>4. ASSUME NEW p \in Txs
        PROVE  Sound(p)'
    <3>1. Sound(p)
      BY DEF TxInv
    <3> QED BY <2>1, <3>1 DEF Sound, ReserveSound, TransitionSound, RestockSound, ExpireSound,
                              Claims, Expired, vars
  <2> QED BY <2>1, <2>2, <2>3, <2>4 DEF TxInv
<1> QED BY <1>1, <1>2, <1>3, <1>4, <1>5, <1>6, <1>7, <1>8, <1>9 DEF TxNext

\* The invariant holds before any transaction.
LEMMA InitTxInv == TxInit => TxInv
<1> SUFFICES ASSUME TxInit PROVE TxInv
  OBVIOUS
<1>1. IInv
  BY InitIInv DEF TxInit
<1>2. \A p \in Txs : tx[p] = Idle /\ held[p] = {} /\ tx[p].op = "idle"
  BY DEF TxInit, Idle
<1>3. TxShape
  <2>1. tx = [p \in Txs |-> tx[p]] /\ held = [p \in Txs |-> held[p]]
    BY DEF TxInit
  <2>2. {} \subseteq Locks
    OBVIOUS
  <2> QED BY <1>2, <2>1, <2>2 DEF TxShape, WellFormed
<1>4. Exclusive /\ Timely
  BY <1>2 DEF Exclusive, Timely
<1>5. \A p \in Txs : Sound(p)
  BY <1>2 DEF Sound, ReserveSound, TransitionSound, RestockSound, ExpireSound
<1> QED BY <1>1, <1>3, <1>4, <1>5 DEF TxInv

\* The transactions of postgres_service.go, however their statements interleave,
\* change the tables as the atomic operations of Inventory do.
THEOREM LocksMakeAtomic == TxSpec => ImplementsInventory
<1>1. TxInit => Atomically!Init
  BY DEF TxInit, Init, Atomically!Init, NoLines, NoRestock, Keys, RestockKeys,
         Atomically!NoLines, Atomically!NoRestock, Atomically!Keys, Atomically!RestockKeys
<1>2. [Next]_vars => [Atomically!Next]_(Atomically!vars)
  <2>1. /\ Keys = Atomically!Keys /\ RestockKeys = Atomically!RestockKeys
        /\ Lines = Atomically!Lines /\ NoRestock = Atomically!NoRestock
        /\ Readings = Atomically!Readings /\ Due = Atomically!Due
    BY DEF Keys, RestockKeys, Lines, NoRestock, NoLines, Readings, Due, Expired,
           Atomically!Keys, Atomically!RestockKeys, Atomically!Lines, Atomically!NoRestock,
           Atomically!NoLines, Atomically!Readings, Atomically!Due, Atomically!Expired
  <2>2. \A k, wanted, until, at :
          Reserve(k, wanted, until, at) <=> Atomically!Reserve(k, wanted, until, at)
    BY DEF Reserve, Covers, Atomically!Reserve, Atomically!Covers
  <2>3. \A k, at : /\ Commit(k, at) <=> Atomically!Commit(k, at)
                   /\ Release(k, at) <=> Atomically!Release(k, at)
    BY DEF Commit, Release, Transition, Expired, Restore, Atomically!Commit, Atomically!Release,
           Atomically!Transition, Atomically!Expired, Atomically!Restore
  <2>4. \A q, k, back : Restock(q, k, back) <=> Atomically!Restock(q, k, back)
    BY <2>1 DEF Restock, Restore, Atomically!Restock, Atomically!Restore
  <2>5. Expire <=> Atomically!Expire
    <3>1. \A batch, v : BatchReturn(batch, v) = Atomically!BatchReturn(batch, v)
      BY <2>1, Zenon DEF BatchReturn, Atomically!BatchReturn, SumTo, Atomically!SumTo
    <3>2. \A batch : ExpireBatch(batch) <=> Atomically!ExpireBatch(batch)
      BY <2>1, <3>1, Zenon DEF ExpireBatch, Atomically!ExpireBatch
    <3> QED BY <2>1, <3>2 DEF Expire, Atomically!Expire
  <2>6. Tick <=> Atomically!Tick
    BY DEF Tick, Atomically!Tick
  <2> QED BY <2>1, <2>2, <2>3, <2>4, <2>5, <2>6 DEF Next, vars, Atomically!Next, Atomically!vars
<1> QED BY <1>1, <1>2, InitTxInv, NextTxInv, PTL DEF TxSpec, ImplementsInventory, Atomically!Spec


----------------------------------------------------------------------------
(* Waiting.                                                                *)

\* The order of the locks after a step of p, from the order of p's.
LEMMA StepKeepsOrder ==
  ASSUME TxShape, Ordered, NEW p \in Txs, NEW t, NEW h,
         tx' = [tx EXCEPT ![p] = t], held' = [held EXCEPT ![p] = h],
         t.op # "expire" =>
           /\ Increasing(t.plan)
           /\ \A lock \in h, i \in 1..Len(t.plan) : Rank(lock) < Rank(t.plan[i])
  PROVE  Ordered'
<1>1. /\ tx'[p] = t /\ held'[p] = h
      /\ \A o \in Txs : o # p => tx'[o] = tx[o] /\ held'[o] = held[o]
  BY Elsewhere
<1>2. \A o \in Txs : tx'[o].op # "expire" =>
        /\ Increasing(tx'[o].plan)
        /\ \A lock \in held'[o], i \in 1..Len(tx'[o].plan) : Rank(lock) < Rank(tx'[o].plan[i])
  BY <1>1 DEF Ordered
<1> QED BY <1>2 DEF Ordered, Increasing, Rank

\* The plans that transactions begin with, and the empty one, are in order.
LEMMA PlansInOrder ==
  /\ Increasing(<<>>)
  /\ \A k \in Keys : Increasing(<<<<"row", k>>>>)
  /\ \A k \in Keys, l \in Lines : Increasing(<<<<"key", k>>>> \o StockRows(l))
  /\ \A q \in RestockKeys, k \in Keys, l \in Lines :
       Increasing(<<<<"restock", q>>, <<"row", k>>>> \o StockRows(l))
<1>1. Increasing(<<>>) /\ \A a : Increasing(<<a>>)
  BY DEF Increasing
<1>2. \A l \in Lines : l \in [Variants -> Nat]
  BY InventoryAssumption DEF Lines
<1>3. ASSUME NEW k \in Keys, NEW l \in Lines
      PROVE  Increasing(<<<<"key", k>>>> \o StockRows(l))
  <2> DEFINE first == <<<<"key", k>>>>
  <2>1. first \in Seq(Locks) /\ Increasing(first) /\ \A i \in 1..Len(first) : Rank(first[i]) < 2
    <3>1. first \in Seq(Locks) /\ Increasing(first)
      BY <1>1, FirstLocks
    <3>2. Len(first) = 1 /\ first[1] = <<"key", k>> /\ Rank(<<"key", k>>) = 0
      BY RankNat
    <3> HIDE DEF first
    <3> QED BY <3>1, <3>2
  <2> HIDE DEF first
  <2>2. Increasing(first \o StockRows(l))
    BY <1>2, <2>1, PlanOf
  <2> QED BY <2>2 DEF first
<1>4. ASSUME NEW q \in RestockKeys, NEW k \in Keys, NEW l \in Lines
      PROVE  Increasing(<<<<"restock", q>>, <<"row", k>>>> \o StockRows(l))
  <2> DEFINE first == <<<<"restock", q>>, <<"row", k>>>>
  <2>1. first \in Seq(Locks) /\ Increasing(first) /\ \A i \in 1..Len(first) : Rank(first[i]) < 2
    <3>1. first \in Seq(Locks)
      BY FirstLocks
    <3>2. /\ Len(first) = 2 /\ first[1] = <<"restock", q>> /\ first[2] = <<"row", k>>
          /\ Rank(<<"restock", q>>) = 0 /\ Rank(<<"row", k>>) = 1
      BY RankNat
    <3> HIDE DEF first
    <3>3. \A i \in 1..Len(first) : i = 1 \/ i = 2
      BY <3>2
    <3>4. \A i \in 1..Len(first) : Rank(first[i]) < 2
      BY <3>2, <3>3
    <3>5. \A i, j \in 1..Len(first) : i < j => i = 1 /\ j = 2
      BY <3>3
    <3>6. Rank(first[1]) < Rank(first[2])
      BY <3>2
    <3>7. Increasing(first)
      BY <3>5, <3>6 DEF Increasing
    <3> QED BY <3>1, <3>4, <3>7
  <2> HIDE DEF first
  <2>2. Increasing(first \o StockRows(l))
    BY <1>2, <2>1, PlanOf
  <2> QED BY <2>2 DEF first
<1> QED BY <1>1, <1>3, <1>4

\* A statement gets its lock: the rest of its plan still ranks above all it holds.
LEMMA LockOrdered ==
  ASSUME TxInv, Ordered, NEW p \in Txs, Lock(p)
  PROVE  Ordered'
<1> DEFINE lock == Head(tx[p].plan)
           h == held[p] \cup {lock}
           late == tx[p].op = "transition" /\ lock[1] = "row"
           t == IF late THEN AfterRow(p) ELSE Onward(p)
<1>1. /\ tx[p].plan # <<>> /\ tx[p].op # "idle" /\ WellFormed(tx[p])
      /\ tx[p].op # "expire" => held[p] \subseteq Locks
  <2>1. tx[p].plan # <<>>
    BY DEF Lock
  <2> QED BY <2>1 DEF TxInv, TxShape, WellFormed, Idle
<1>2. tx' = [tx EXCEPT ![p] = t] /\ held' = [held EXCEPT ![p] = h] /\ Admits(p, lock)
  BY Zenon DEF Lock
<1>3. ASSUME tx[p].op # "expire"
      PROVE  /\ lock \in Locks /\ Rank(lock) \in Nat
             /\ Tail(tx[p].plan) \in Seq(Locks) /\ Increasing(Tail(tx[p].plan))
             /\ \A i \in 1..Len(Tail(tx[p].plan)) : Rank(lock) < Rank(Tail(tx[p].plan)[i])
             /\ \A x \in held[p] : Rank(x) < Rank(lock) /\ Rank(x) \in Nat
  <2>1. tx[p].plan \in Seq(Locks)
    BY <1>1, <1>3 DEF WellFormed, Idle
  <2>2. Increasing(tx[p].plan)
        /\ \A x \in held[p], i \in 1..Len(tx[p].plan) : Rank(x) < Rank(tx[p].plan[i])
    BY <1>3 DEF Ordered
  <2>3. 1 \in 1..Len(tx[p].plan) /\ lock = tx[p].plan[1]
    BY <1>1, <2>1
  <2>4. \A x \in held[p] : Rank(x) < Rank(lock)
    BY <2>2, <2>3
  <2>5. lock \in Locks
    BY <2>1, <2>3
  <2> HIDE DEF lock
  <2> QED BY <1>1, <1>3, <2>1, <2>2, <2>4, <2>5, PlanHead, RankNat DEF lock
<1>4. CASE late
  <2>0. tx[p].op # "expire"
    BY <1>4
  <2>1. Rank(lock) = 1
    BY <1>4 DEF Rank
  <2>2. \A x \in h : Rank(x) < 2
    <3> HIDE DEF lock
    <3> QED BY <1>3, <2>0, <2>1
  <2> DEFINE l == lines[tx[p].key]
             u == AfterRow(p)
  <2>3. u.plan = StockRows(l) \/ u.plan = <<>>
    BY DEF AfterRow
  <2>4. l \in [Variants -> Nat]
    <3>1. tx[p].key \in Keys
      BY <1>1, <1>4 DEF WellFormed, Idle
    <3> QED BY <3>1 DEF TxInv, IInv, TypeOK
  <2>5. /\ Increasing(StockRows(l)) /\ StockRows(l) \in Seq({"stock"} \X Variants)
        /\ \A i \in 1..Len(StockRows(l)) : Rank(StockRows(l)[i]) >= 2 /\ Rank(StockRows(l)[i]) \in Nat
    <3>1. Increasing(StockRows(l)) /\ StockRows(l) \in Seq({"stock"} \X Variants)
      BY <2>4, StockRowsSorted
    <3> HIDE DEF l
    <3>2. ASSUME NEW i \in 1..Len(StockRows(l))
          PROVE  Rank(StockRows(l)[i]) >= 2 /\ Rank(StockRows(l)[i]) \in Nat
      <4>1. PICK v \in Variants : StockRows(l)[i] = <<"stock", v>>
        BY <3>1
      <4> QED BY <4>1, RankNat, TxAssumption
    <3> QED BY <3>1, <3>2
  <2>6. \A x \in h : Rank(x) \in Nat
    <3> HIDE DEF lock
    <3> QED BY <1>3, <2>0
  <2>7. Increasing(u.plan) /\ \A x \in h, i \in 1..Len(u.plan) : Rank(x) < Rank(u.plan[i])
    <3>1. CASE u.plan = <<>>
      BY <3>1, PlansInOrder
    <3>2. CASE u.plan = StockRows(l)
      <4> HIDE DEF u, l, h
      <4>1. ASSUME NEW x \in h, NEW i \in 1..Len(StockRows(l))
            PROVE  Rank(x) < Rank(StockRows(l)[i])
        <5>1. Rank(x) \in Nat /\ Rank(x) < 2 /\ Rank(StockRows(l)[i]) \in Nat
              /\ Rank(StockRows(l)[i]) >= 2
          BY <2>2, <2>5, <2>6
        <5> QED BY <5>1
      <4> QED BY <2>5, <3>2, <4>1
    <3> QED BY <2>3, <3>1, <3>2
  <2>8. tx' = [tx EXCEPT ![p] = u]
    BY <1>2, <1>4
  <2> HIDE DEF u, h
  <2> QED BY <1>2, <2>7, <2>8, StepKeepsOrder DEF TxInv
<1>5. CASE ~late
  <2> DEFINE r == Onward(p)
  <2>1. r.op = tx[p].op /\ r.plan = Tail(tx[p].plan)
    BY <1>1 DEF Onward, WellFormed, Idle
  <2>2. tx' = [tx EXCEPT ![p] = r]
    BY <1>2, <1>5
  <2>3. tx[p].op # "expire" => \A x \in h, i \in 1..Len(r.plan) : Rank(x) < Rank(r.plan[i])
    <3> SUFFICES ASSUME tx[p].op # "expire", NEW x \in h, NEW i \in 1..Len(Tail(tx[p].plan))
                 PROVE  Rank(x) < Rank(Tail(tx[p].plan)[i])
      BY <2>1
    <3>1. /\ Rank(lock) < Rank(Tail(tx[p].plan)[i])
          /\ Rank(Tail(tx[p].plan)[i]) \in Nat /\ Rank(lock) \in Nat
      BY <1>3, RankNat
    <3>2. x = lock \/ (Rank(x) < Rank(lock) /\ Rank(x) \in Nat)
      BY <1>3
    <3> HIDE DEF lock
    <3> QED BY <3>1, <3>2
  <2> HIDE DEF r, h
  <2> QED BY <1>2, <1>3, <2>1, <2>2, <2>3, StepKeepsOrder DEF TxInv
<1> QED BY <1>4, <1>5

\* Every step keeps the order.
LEMMA NextOrdered == TxInv /\ Ordered /\ [TxNext]_allVars => Ordered'
<1> SUFFICES ASSUME TxInv, Ordered, [TxNext]_allVars PROVE Ordered'
  OBVIOUS
<1>0. \A plan : \A lock \in {}, i \in 1..Len(plan) : Rank(lock) < Rank(plan[i])
  OBVIOUS
<1>1. ASSUME NEW p \in Txs, NEW k \in Keys, NEW wanted \in Lines, NEW until,
             BeginReserve(p, k, wanted, until)
      PROVE  Ordered'
  <2> DEFINE plan == <<<<"key", k>>>> \o StockRows(wanted)
             t == [op |-> "reserve", key |-> k, lines |-> wanted, until |-> until,
                   at |-> now, plan |-> plan]
  <2>1. tx' = [tx EXCEPT ![p] = t] /\ held' = [held EXCEPT ![p] = {}]
    BY <1>1, IdleHoldsNothing DEF BeginReserve
  <2>2. t.plan = plan /\ Increasing(plan)
    BY PlansInOrder
  <2> HIDE DEF t
  <2> QED BY <1>0, <2>1, <2>2, StepKeepsOrder DEF TxInv
<1>2. ASSUME NEW p \in Txs, NEW k \in Keys, NEW target, BeginTransition(p, k, target)
      PROVE  Ordered'
  <2> DEFINE plan == <<<<"row", k>>>>
             t == [op |-> "transition", key |-> k, target |-> target, at |-> now, plan |-> plan]
  <2>1. tx' = [tx EXCEPT ![p] = t] /\ held' = [held EXCEPT ![p] = {}]
    BY <1>2, IdleHoldsNothing DEF BeginTransition
  <2>2. t.plan = plan /\ Increasing(plan)
    BY PlansInOrder
  <2> HIDE DEF t
  <2> QED BY <1>0, <2>1, <2>2, StepKeepsOrder DEF TxInv
<1>3. ASSUME NEW p \in Txs, NEW q \in RestockKeys, NEW k \in Keys, NEW back \in Lines,
             BeginRestock(p, q, k, back)
      PROVE  Ordered'
  <2> DEFINE plan == <<<<"restock", q>>, <<"row", k>>>> \o StockRows(back)
             t == [op |-> "restock", request |-> q, key |-> k, lines |-> back, at |-> now,
                   plan |-> plan]
  <2>1. tx' = [tx EXCEPT ![p] = t] /\ held' = [held EXCEPT ![p] = {}]
    BY <1>3, IdleHoldsNothing DEF BeginRestock
  <2>2. t.plan = plan /\ Increasing(plan)
    BY PlansInOrder
  <2> HIDE DEF t
  <2> QED BY <1>0, <2>1, <2>2, StepKeepsOrder DEF TxInv
<1>4. ASSUME NEW p \in Txs, BeginExpire(p)
      PROVE  Ordered'
  <2>1. PICK batch \in SUBSET Claimable(p) :
          /\ tx' = [tx EXCEPT ![p] =
                      [op |-> "expire", batch |-> batch, at |-> now, plan |-> BatchRows(batch)]]
          /\ held' = [held EXCEPT ![p] = {<<"row", k>> : k \in batch}]
    BY <1>4 DEF BeginExpire
  <2> DEFINE t == [op |-> "expire", batch |-> batch, at |-> now, plan |-> BatchRows(batch)]
  <2>2. t.op = "expire" /\ tx' = [tx EXCEPT ![p] = t]
    BY <2>1
  <2> HIDE DEF t
  <2> QED BY <2>1, <2>2, StepKeepsOrder DEF TxInv
<1>5. ASSUME NEW p \in Txs, Lock(p)
      PROVE  Ordered'
  BY <1>5, LockOrdered
<1>6. ASSUME NEW p \in Txs, End(p)
      PROVE  Ordered'
  <2>1. Idle.plan = <<>> /\ Increasing(<<>>)
    BY PlansInOrder DEF Idle
  <2> QED BY <1>0, <1>6, <2>1, StepKeepsOrder DEF TxInv, End
<1>7. CASE tx' = tx /\ held' = held
  BY <1>7 DEF Ordered, Increasing, Rank
<1> QED BY <1>1, <1>2, <1>3, <1>4, <1>5, <1>6, <1>7
        DEF TxNext, Refuse, Rollback, CommitReserve, CommitTransition, CommitRestock, CommitExpire,
            TxTick, allVars, txVars


\* Ranks are bounded, as there are finitely many variants.
LEMMA RanksBounded == \E m \in Nat : \A lock \in Locks : Rank(lock) <= m
<1>1. \E m \in Nat : \A v \in Variants : v <= m
  <2>1. CASE Variants = {}
    BY <2>1
  <2>2. CASE Variants # {}
    BY <2>2, TxAssumption, GreatestExists
  <2> QED BY <2>1, <2>2
<1>2. PICK m \in Nat : \A v \in Variants : v <= m
  BY <1>1
<1>3. ASSUME NEW lock \in Locks
      PROVE  Rank(lock) <= 2 + m
  <2>1. \/ \E k \in Keys : lock = <<"key", k>> \/ lock = <<"row", k>>
        \/ \E q \in RestockKeys : lock = <<"restock", q>>
        \/ \E v \in Variants : lock = <<"stock", v>>
    BY DEF Locks
  <2>2. \A v \in Variants : 2 + v <= 2 + m
    BY <1>2, TxAssumption
  <2>3. Rank(lock) \in {0, 1} \/ \E v \in Variants : Rank(lock) = 2 + v
    BY <2>1, RankNat
  <2> QED BY <1>2, <2>2, <2>3
<1>4. 2 + m \in Nat
  OBVIOUS
<1> QED BY <1>3, <1>4

\* Of sessions that all wait, one waits for a lock of the highest rank; who holds
\* that lock waits for nothing.
LEMMA OrderedNoDeadlock == TxInv /\ Ordered => NoDeadlockWithoutSweeper
<1> SUFFICES ASSUME TxInv, Ordered,
                    NEW S \in SUBSET {p \in Txs : tx[p].op # "expire"}, Deadlocked(S)
             PROVE  FALSE
  BY DEF NoDeadlockWithoutSweeper
<1> DEFINE next(p) == Head(tx[p].plan)
           R == {Rank(next(p)) : p \in S}
<1>1. ASSUME NEW p \in S
      PROVE  /\ next(p) \in Locks /\ Rank(next(p)) \in Nat
             /\ \A lock \in held[p] : Rank(lock) < Rank(next(p))
             /\ \E o \in S : next(p) \in held[o]
  <2>1. PICK o \in S : WaitsFor(p, o)
    BY DEF Deadlocked
  <2>2. tx[p].plan # <<>> /\ next(p) \in held[o]
    BY <2>1 DEF WaitsFor
  <2>3. tx[p].plan \in Seq(Locks)
    <3>1. WellFormed(tx[p]) /\ tx[p].op # "expire"
      BY DEF TxInv, TxShape
    <3> QED BY <2>2, <3>1 DEF WellFormed, Idle
  <2>4. 1 \in 1..Len(tx[p].plan) /\ next(p) = tx[p].plan[1] /\ next(p) \in Locks
    BY <2>2, <2>3
  <2>5. \A lock \in held[p] : Rank(lock) < Rank(next(p))
    BY <2>4 DEF Ordered
  <2> QED BY <2>2, <2>4, <2>5, RankNat
<1> HIDE DEF next
<1>2. R \in SUBSET Nat /\ R # {}
  BY <1>1 DEF Deadlocked
<1>3. IsFiniteSet(R)
  <2>1. PICK m \in Nat : \A lock \in Locks : Rank(lock) <= m
    BY RanksBounded
  <2>2. R \subseteq 0..m
    BY <1>1, <2>1
  <2>3. IsFiniteSet(0..m)
    BY FS_Interval
  <2> HIDE DEF R
  <2> QED BY <2>2, <2>3, FS_Subset
<1>4. PICK top \in R : \A r \in R : r <= top
  <2> HIDE DEF R
  <2> QED BY <1>2, <1>3, GreatestExists
<1>5. PICK p \in S : top = Rank(next(p))
  BY <1>4
<1>6. PICK o \in S : next(p) \in held[o]
  BY <1>1
<1>7. Rank(next(p)) < Rank(next(o)) /\ Rank(next(o)) <= top
  BY <1>1, <1>4, <1>6
<1>8. Rank(next(p)) \in Nat /\ Rank(next(o)) \in Nat
  BY <1>1
<1> QED BY <1>5, <1>7, <1>8

\* Reservations, commits, releases and restocks never wait for one another in a
\* circle, whatever their lines and however many sessions there are.
THEOREM CanonicalOrder == TxSpec => []NoDeadlockWithoutSweeper
<1>1. TxInit => Ordered
  BY PlansInOrder DEF TxInit, Ordered, Idle
<1> QED BY <1>1, InitTxInv, NextTxInv, NextOrdered, OrderedNoDeadlock, PTL DEF TxSpec
=============================================================================
