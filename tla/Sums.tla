-------------------------------- MODULE Sums --------------------------------
(***************************************************************************)
(* Sums of integer-valued functions over 1..n, as a recursive function     *)
(* (not a RECURSIVE operator), so that modules that use it can be proved   *)
(* about; and facts about them, for every length and every function.  The  *)
(* induction theorems of the library take the induction hypothesis as an   *)
(* operator; here induction is over a set of naturals instead, obtained    *)
(* from the well-foundedness of <, which takes no operator.                *)
(***************************************************************************)
EXTENDS Integers, TLAPS, WellFoundedInduction

SumTo(f, n) ==
  LET s[i \in 0..n] == IF i = 0 THEN 0 ELSE s[i-1] + f[i]
  IN  s[n]

----------------------------------------------------------------------------
\* Induction: a set that holds 0 and is closed under successor holds every
\* natural number.
LEMMA SetInduction ==
  ASSUME NEW S, 0 \in S, \A n \in Nat : n \in S => n + 1 \in S
  PROVE  Nat \subseteq S
<1> DEFINE T == Nat \ S
           R == {p \in Nat \X Nat : p[1] < p[2]}
<1>1. IsWellFoundedOn(R, Nat)
  BY NatLessThanWellFounded, Zenon DEF OpToRel
<1>2. SUFFICES ASSUME T # {} PROVE FALSE
  OBVIOUS
<1>3. PICK x \in T : \A y \in T : ~ (<<y, x>> \in R)
  BY <1>1, <1>2, WFMin
<1>4. x # 0 /\ x - 1 \in Nat /\ x - 1 < x
  BY SMT
<1>5. x - 1 \notin T
  BY <1>3, <1>4
<1> QED BY <1>4, <1>5

IsPrefixSum(s, f, n) == s = [i \in 0..n |-> IF i = 0 THEN 0 ELSE s[i-1] + f[i]]

\* The recursive function inside SumTo exists.
LEMMA PrefixSumExists ==
  ASSUME NEW n \in Nat, NEW f
  PROVE  \E s : IsPrefixSum(s, f, n)
<1> DEFINE S == {m \in Nat : \E s : IsPrefixSum(s, f, m)}
<1>1. 0 \in S
  <2>1. IsPrefixSum([i \in 0..0 |-> 0], f, 0)
    BY DEF IsPrefixSum
  <2> QED BY <2>1
<1>2. ASSUME NEW m \in Nat, m \in S
      PROVE  m + 1 \in S
  <2>1. PICK s : IsPrefixSum(s, f, m)
    BY <1>2
  <2> DEFINE t == [i \in 0..(m+1) |-> IF i = m+1 THEN s[m] + f[m+1] ELSE s[i]]
  <2>2. ASSUME NEW i \in 0..(m+1)
        PROVE  t[i] = IF i = 0 THEN 0 ELSE t[i-1] + f[i]
    BY <2>1 DEF IsPrefixSum
  <2>3. t = [i \in 0..(m+1) |-> IF i = 0 THEN 0 ELSE t[i-1] + f[i]]
    BY <2>2
  <2>4. IsPrefixSum(t, f, m+1)
    BY <2>3 DEF IsPrefixSum
  <2> QED BY <2>4
<1>3. Nat \subseteq S
  BY <1>1, <1>2, SetInduction
<1> QED BY <1>3

\* SumTo is the last entry of the prefix sums.
LEMMA SumToPrefix ==
  ASSUME NEW n \in Nat, NEW f
  PROVE  \E s : IsPrefixSum(s, f, n) /\ SumTo(f, n) = s[n]
<1> DEFINE c == CHOOSE s : s = [i \in 0..n |-> IF i = 0 THEN 0 ELSE s[i-1] + f[i]]
<1>1. IsPrefixSum(c, f, n)
  BY PrefixSumExists DEF IsPrefixSum
<1>2. SumTo(f, n) = c[n]
  BY DEF SumTo
<1> QED BY <1>1, <1>2

\* A sum of integers is an integer, and sums add up pointwise.
LEMMA SumLinear ==
  ASSUME NEW n \in Nat, NEW f, NEW g, NEW h,
         \A i \in 1..n : f[i] \in Int /\ g[i] \in Int /\ h[i] = f[i] + g[i]
  PROVE  /\ SumTo(f, n) \in Int
         /\ SumTo(g, n) \in Int
         /\ SumTo(h, n) = SumTo(f, n) + SumTo(g, n)
<1>1. PICK sf : IsPrefixSum(sf, f, n) /\ SumTo(f, n) = sf[n]
  BY SumToPrefix
<1>2. PICK sg : IsPrefixSum(sg, g, n) /\ SumTo(g, n) = sg[n]
  BY SumToPrefix
<1>3. PICK sh : IsPrefixSum(sh, h, n) /\ SumTo(h, n) = sh[n]
  BY SumToPrefix
<1> DEFINE S == {m \in Nat : m <= n => /\ sf[m] \in Int /\ sg[m] \in Int
                                       /\ sh[m] = sf[m] + sg[m]}
<1>4. 0 \in S
  BY <1>1, <1>2, <1>3 DEF IsPrefixSum
<1>5. ASSUME NEW m \in Nat, m \in S
      PROVE  m + 1 \in S
  <2>1. CASE m + 1 <= n
    <3>1. m + 1 \in 0..n /\ m + 1 # 0 /\ (m + 1) - 1 = m /\ m + 1 \in 1..n
      BY <2>1
    <3>2. /\ sf[m+1] = sf[m] + f[m+1]
          /\ sg[m+1] = sg[m] + g[m+1]
          /\ sh[m+1] = sh[m] + h[m+1]
      BY <1>1, <1>2, <1>3, <3>1 DEF IsPrefixSum
    <3> QED BY <1>5, <2>1, <3>1, <3>2
  <2>2. CASE ~(m + 1 <= n)
    BY <2>2
  <2> QED BY <2>1, <2>2
<1>6. Nat \subseteq S
  BY <1>4, <1>5, SetInduction
<1>7. sf[n] \in Int /\ sg[n] \in Int /\ sh[n] = sf[n] + sg[n]
  BY <1>6
<1> QED BY <1>1, <1>2, <1>3, <1>7

\* A sum of naturals is a natural.
LEMMA SumNat ==
  ASSUME NEW n \in Nat, NEW f, \A i \in 1..n : f[i] \in Nat
  PROVE  SumTo(f, n) \in Nat
<1>1. PICK s : IsPrefixSum(s, f, n) /\ SumTo(f, n) = s[n]
  BY SumToPrefix
<1> DEFINE S == {m \in Nat : m <= n => s[m] \in Nat}
<1>2. 0 \in S
  BY <1>1 DEF IsPrefixSum
<1>3. ASSUME NEW m \in Nat, m \in S
      PROVE  m + 1 \in S
  <2>1. CASE m + 1 <= n
    <3>1. m + 1 \in 0..n /\ m + 1 # 0 /\ (m + 1) - 1 = m /\ m + 1 \in 1..n
      BY <2>1
    <3>2. s[m+1] = s[m] + f[m+1]
      BY <1>1, <3>1 DEF IsPrefixSum
    <3> QED BY <1>3, <2>1, <3>1, <3>2
  <2>2. CASE ~(m + 1 <= n)
    BY <2>2
  <2> QED BY <2>1, <2>2
<1>4. Nat \subseteq S
  BY <1>2, <1>3, SetInduction
<1> QED BY <1>1, <1>4

\* A sum with at most one term that is not zero is that term.
LEMMA SumPoint ==
  ASSUME NEW n \in Nat, NEW k \in 1..n, NEW d \in Int, NEW f,
         \A i \in 1..n : f[i] = IF i = k THEN d ELSE 0
  PROVE  SumTo(f, n) = d
<1>1. PICK s : IsPrefixSum(s, f, n) /\ SumTo(f, n) = s[n]
  BY SumToPrefix
<1> DEFINE S == {m \in Nat : m <= n => s[m] = IF m < k THEN 0 ELSE d}
<1>2. 0 \in S
  BY <1>1 DEF IsPrefixSum
<1>3. ASSUME NEW m \in Nat, m \in S
      PROVE  m + 1 \in S
  <2>1. CASE m + 1 <= n
    <3>1. m + 1 \in 0..n /\ m + 1 # 0 /\ (m + 1) - 1 = m /\ m + 1 \in 1..n
      BY <2>1
    <3>2. s[m+1] = s[m] + f[m+1]
      BY <1>1, <3>1 DEF IsPrefixSum
    <3> QED BY <1>3, <2>1, <3>1, <3>2
  <2>2. CASE ~(m + 1 <= n)
    BY <2>2
  <2> QED BY <2>1, <2>2
<1>4. Nat \subseteq S
  BY <1>2, <1>3, SetInduction
<1> QED BY <1>1, <1>4

\* A sum of zeros is zero.
LEMMA SumZero ==
  ASSUME NEW n \in Nat, NEW f, \A i \in 1..n : f[i] = 0
  PROVE  SumTo(f, n) = 0
<1>1. SumTo(f, n) \in Int /\ SumTo(f, n) = SumTo(f, n) + SumTo(f, n)
  BY SumLinear
<1>2. \A x \in Int : x = x + x => x = 0
  OBVIOUS
<1> QED BY <1>1, <1>2

\* Adding d to one term adds d to the sum.
LEMMA SumChange ==
  ASSUME NEW n \in Nat, NEW k \in 1..n, NEW d \in Int, NEW f, NEW g,
         \A i \in 1..n : f[i] \in Int,
         \A i \in 1..n : g[i] = IF i = k THEN f[i] + d ELSE f[i]
  PROVE  SumTo(f, n) \in Int /\ SumTo(g, n) = SumTo(f, n) + d
<1> DEFINE p == [i \in 1..n |-> IF i = k THEN d ELSE 0]
<1>1. \A i \in 1..n : f[i] \in Int /\ p[i] \in Int /\ g[i] = f[i] + p[i]
  OBVIOUS
<1>2. SumTo(p, n) = d
  BY SumPoint
<1>3. SumTo(f, n) \in Int /\ SumTo(g, n) = SumTo(f, n) + SumTo(p, n)
  <2> HIDE DEF p
  <2> QED BY <1>1, SumLinear
<1> QED BY <1>2, <1>3

\* Functions that agree on 1..n have the same sum.
LEMMA SumSame ==
  ASSUME NEW n \in Nat, NEW f, NEW g,
         \A i \in 1..n : f[i] \in Int /\ g[i] = f[i]
  PROVE  SumTo(f, n) \in Int /\ SumTo(g, n) = SumTo(f, n)
<1> DEFINE z == [i \in 1..n |-> 0]
<1>1. \A i \in 1..n : f[i] \in Int /\ z[i] \in Int /\ g[i] = f[i] + z[i]
  OBVIOUS
<1>2. SumTo(z, n) = 0
  BY SumZero
<1>3. SumTo(f, n) \in Int /\ SumTo(g, n) = SumTo(f, n) + SumTo(z, n)
  <2> HIDE DEF z
  <2> QED BY <1>1, SumLinear, ZenonT(20)
<1> QED BY <1>2, <1>3
=============================================================================
