-------------------------- MODULE Arithmetic_proof --------------------------
(***************************************************************************)
(* Induction, sums, powers of ten, and division.  The library's induction  *)
(* has the predicate for a parameter, which the provers cannot             *)
(* instantiate; SetInduction has the set of the numbers that satisfy it,   *)
(* and comes from the order of the naturals being well founded.            *)
(***************************************************************************)
EXTENDS Arithmetic, WellFoundedInduction, TLAPS

NatLess == {p \in Nat \X Nat : p[1] < p[2]}

LEMMA NatMin ==
    ASSUME NEW T, T \subseteq Nat, T # {}
    PROVE  \E x \in T : \A y \in T : ~(y < x)
<1>1. IsWellFoundedOn(NatLess, Nat)
  BY NatLessThanWellFounded DEF OpToRel, NatLess
<1>2. \E x \in T : \A y \in T : ~(<<y, x>> \in NatLess)
  BY <1>1, WFMin
<1>3. QED
  BY <1>2 DEF NatLess

LEMMA SetInduction ==
    ASSUME NEW S, 0 \in S, \A n \in Nat : n \in S => n + 1 \in S
    PROVE  Nat \subseteq S
<1> DEFINE T == Nat \ S
<1>1. CASE T # {}
  <2>1. PICK x \in T : \A y \in T : ~(y < x)
    BY <1>1, NatMin
  <2>2. x - 1 \in Nat /\ x - 1 \notin T
    BY <2>1
  <2>3. QED
    BY <2>1, <2>2
<1>2. QED
  BY <1>1

-----------------------------------------------------------------------------
(* Sums *)

\* The sums of the first 0, 1, ..., n numbers of s.
PartialSums(f, s, n) ==
    /\ f \in [0..n -> Int]
    /\ f[0] = 0
    /\ \A i \in 1..n : f[i] = f[i - 1] + s[i]

LEMMA PartialSumsExist ==
    ASSUME NEW s \in Seq(Int)
    PROVE  \E f : PartialSums(f, s, Len(s))
<1> DEFINE K == {n \in Nat : n <= Len(s) => \E f : PartialSums(f, s, n)}
<1>1. 0 \in K
  <2>1. PartialSums([i \in 0..0 |-> 0], s, 0)
    BY DEF PartialSums
  <2>2. QED
    BY <2>1
<1>2. ASSUME NEW n \in Nat, n \in K PROVE n + 1 \in K
  <2> SUFFICES ASSUME n + 1 <= Len(s) PROVE \E f : PartialSums(f, s, n + 1)
    OBVIOUS
  <2>1. PICK f : PartialSums(f, s, n)
    BY <1>2
  <2> DEFINE g == [i \in 0..(n + 1) |-> IF i = n + 1 THEN f[n] + s[n + 1] ELSE f[i]]
  <2>2. s[n + 1] \in Int /\ f \in [0..n -> Int]
    BY <2>1 DEF PartialSums
  <2>3. g \in [0..(n + 1) -> Int]
    BY <2>2
  <2>4. g[0] = 0
    BY <2>1 DEF PartialSums
  <2>5. \A i \in 1..(n + 1) : g[i] = g[i - 1] + s[i]
    <3> SUFFICES ASSUME NEW i \in 1..(n + 1) PROVE g[i] = g[i - 1] + s[i]
      OBVIOUS
    <3>1. g[i - 1] = f[i - 1]
      OBVIOUS
    <3>2. CASE i = n + 1
      BY <3>1, <3>2
    <3>3. CASE i # n + 1
      BY <2>1, <3>1, <3>3 DEF PartialSums
    <3>4. QED
      BY <3>2, <3>3
  <2>6. QED
    BY <2>3, <2>4, <2>5 DEF PartialSums
<1>3. Nat \subseteq K
  <2> HIDE DEF K
  <2>1. QED
    BY <1>1, <1>2, SetInduction
<1>4. QED
  BY <1>3

\* The recursive function of Total is one of partial sums.
LEMMA TotalIsLast ==
    ASSUME NEW s \in Seq(Int)
    PROVE  \E f : PartialSums(f, s, Len(s)) /\ Total(s) = f[Len(s)]
<1> DEFINE body(f) == [i \in 0..Len(s) |-> IF i = 0 THEN 0 ELSE f[i - 1] + s[i]]
           sum == CHOOSE f : f = body(f)
<1>1. Total(s) = sum[Len(s)]
  BY Zenon DEF Total
<1>2. PICK f : PartialSums(f, s, Len(s))
  BY PartialSumsExist
<1>3. f = body(f)
  BY <1>2 DEF PartialSums
<1>4. sum = body(sum)
  <2> HIDE DEF body
  <2>1. QED
    BY <1>3
<1> HIDE DEF sum
<1>5. /\ Len(s) \in Nat
      /\ sum[0] = 0
      /\ \A i \in 1..Len(s) : sum[i] = sum[i - 1] + s[i]
  BY <1>4
<1> DEFINE K == {n \in Nat : n <= Len(s) => sum[n] \in Int}
<1>6. 0 \in K
  BY <1>5
<1>7. ASSUME NEW n \in Nat, n \in K PROVE n + 1 \in K
  <2> SUFFICES ASSUME n + 1 <= Len(s) PROVE sum[n + 1] \in Int
    OBVIOUS
  <2>1. sum[n + 1] = sum[n] + s[n + 1]
    BY <1>5
  <2>2. QED
    BY <1>7, <2>1
<1>8. Nat \subseteq K
  <2> HIDE DEF K
  <2>1. QED
    BY <1>6, <1>7, SetInduction
<1>9. sum \in [0..Len(s) -> Int]
  <2>1. \A i \in 0..Len(s) : sum[i] \in Int
    BY <1>8
  <2>2. QED
    BY <1>4, <2>1
<1>10. QED
  BY <1>1, <1>5, <1>9 DEF PartialSums

AgreeUpTo(n, s, r) == \A i \in 1..n : s[i] = r[i]

\* Sequences that agree up to n have the same partial sums up to n.
LEMMA PartialSumsAgree ==
    ASSUME NEW s, NEW r, NEW n \in Nat, NEW m \in Nat, n <= m,
           AgreeUpTo(n, s, r),
           NEW f, PartialSums(f, s, n), NEW g, PartialSums(g, r, m)
    PROVE  g[n] = f[n]
<1> DEFINE K == {i \in Nat : i <= n => g[i] = f[i]}
<1>1. 0 \in K
  BY DEF PartialSums
<1>2. ASSUME NEW i \in Nat, i \in K PROVE i + 1 \in K
  <2>1. CASE i + 1 <= n
    <3>1. i + 1 \in 1..n /\ i + 1 \in 1..m /\ (i + 1) - 1 = i
      BY <2>1
    <3>2. /\ f[i + 1] = f[(i + 1) - 1] + s[i + 1]
          /\ g[i + 1] = g[(i + 1) - 1] + r[i + 1]
      BY <3>1, Zenon DEF PartialSums
    <3>3. QED
      BY <1>2, <2>1, <3>1, <3>2 DEF AgreeUpTo
  <2>2. QED
    BY <2>1
<1>3. Nat \subseteq K
  <2> HIDE DEF K
  <2>1. QED
    BY <1>1, <1>2, SetInduction
<1>4. QED
  BY <1>3

-----------------------------------------------------------------------------
LEMMA TotalOfNothing == Total(<<>>) = 0
<1>1. <<>> \in Seq(Int) /\ Len(<<>>) = 0
  OBVIOUS
<1>2. QED
  BY <1>1, TotalIsLast DEF PartialSums

LEMMA TotalIsInt ==
    ASSUME NEW s \in Seq(Int)
    PROVE  Total(s) \in Int
BY TotalIsLast DEF PartialSums

LEMMA TotalOfAppend ==
    ASSUME NEW s \in Seq(Int), NEW x \in Int
    PROVE  Total(Append(s, x)) = Total(s) + x
<1> DEFINE r == Append(s, x)
           n == Len(s)
<1>1. /\ r \in Seq(Int) /\ Len(r) = n + 1 /\ r[n + 1] = x
      /\ \A i \in 1..n : r[i] = s[i]
  OBVIOUS
<1>2. PICK f : PartialSums(f, s, n) /\ Total(s) = f[n]
  BY TotalIsLast
<1> HIDE DEF r
<1>3. PICK g : PartialSums(g, r, n + 1) /\ Total(r) = g[n + 1]
  BY <1>1, TotalIsLast
<1>4. g[n] = f[n]
  <2>1. n \in Nat /\ n + 1 \in Nat /\ n <= n + 1
    OBVIOUS
  <2>2. AgreeUpTo(n, s, r)
    BY <1>1 DEF AgreeUpTo
  <2> HIDE DEF n
  <2>3. QED
    BY <1>2, <1>3, <2>1, <2>2, PartialSumsAgree
<1>5. g[n + 1] = g[n] + x
  BY <1>1, <1>3 DEF PartialSums
<1>6. QED
  BY <1>2, <1>3, <1>4, <1>5 DEF r

\* The total of a column of records, one of which is added.
LEMMA ColumnOfAppend ==
    ASSUME NEW T, NEW s \in Seq(T), NEW t \in T, NEW f \in [T -> Int]
    PROVE  /\ Total([i \in DOMAIN s |-> f[s[i]]]) \in Int
           /\ Total([i \in DOMAIN Append(s, t) |-> f[Append(s, t)[i]]])
                  = Total([i \in DOMAIN s |-> f[s[i]]]) + f[t]
<1> DEFINE c == [i \in DOMAIN s |-> f[s[i]]]
<1>1. c \in Seq(Int) /\ f[t] \in Int
  OBVIOUS
<1>2. [i \in DOMAIN Append(s, t) |-> f[Append(s, t)[i]]] = Append(c, f[t])
  OBVIOUS
<1> HIDE DEF c
<1>3. Total(c) \in Int /\ Total(Append(c, f[t])) = Total(c) + f[t]
  BY <1>1, TotalIsInt, TotalOfAppend
<1>4. QED
  BY <1>2, <1>3 DEF c

-----------------------------------------------------------------------------
(* Powers of ten *)

\* The powers up to n.
Powers(f, n) == f \in [0..n -> Nat] /\ f[0] = 1 /\ \A i \in 0..n - 1 : f[i + 1] = 10 * f[i]

LEMMA PowersExist == ASSUME NEW n \in Nat PROVE \E f : Powers(f, n)
<1> DEFINE K == {k \in Nat : \E f : Powers(f, k)}
<1>1. 0 \in K
  <2>1. Powers([i \in 0..0 |-> 1], 0)
    BY DEF Powers
  <2>2. QED
    BY <2>1
<1>2. ASSUME NEW k \in Nat, k \in K PROVE k + 1 \in K
  <2>1. PICK f : Powers(f, k)
    BY <1>2
  <2> DEFINE g == [i \in 0..k + 1 |-> IF i = k + 1 THEN 10 * f[k] ELSE f[i]]
  <2>2. Powers(g, k + 1)
    BY <2>1 DEF Powers
  <2>3. QED
    BY <2>2
<1>3. Nat \subseteq K
  <2> HIDE DEF K
  <2>1. QED
    BY <1>1, <1>2, SetInduction
<1>4. QED
  BY <1>3

LEMMA PowersAgree ==
    ASSUME NEW n \in Nat, NEW m \in Nat, n <= m,
           NEW f, Powers(f, n), NEW g, Powers(g, m)
    PROVE  f[n] = g[n]
<1> DEFINE K == {i \in Nat : i <= n => f[i] = g[i]}
<1>1. 0 \in K
  BY DEF Powers
<1>2. ASSUME NEW i \in Nat, i \in K PROVE i + 1 \in K
  <2>1. CASE i + 1 <= n
    <3>1. i \in 0..n - 1 /\ i \in 0..m - 1
      BY <2>1
    <3>2. f[i + 1] = 10 * f[i] /\ g[i + 1] = 10 * g[i]
      BY <3>1 DEF Powers
    <3>3. QED
      BY <1>2, <2>1, <3>2
  <2>2. QED
    BY <2>1
<1>3. Nat \subseteq K
  <2> HIDE DEF K
  <2>1. QED
    BY <1>1, <1>2, SetInduction
<1>4. QED
  BY <1>3

\* The recursive definition of TenTo has a solution.
LEMMA TenToRec ==
    /\ TenTo \in [Nat -> Nat]
    /\ TenTo[0] = 1
    /\ \A n \in Nat : TenTo[n + 1] = 10 * TenTo[n]
<1> DEFINE body(f) == [n \in Nat |-> IF n = 0 THEN 1 ELSE 10 * f[n - 1]]
           up(n) == CHOOSE f : Powers(f, n)
           t == [n \in Nat |-> up(n)[n]]
<1>1. \A n \in Nat : Powers(up(n), n)
  BY PowersExist
<1> HIDE DEF up
<1>2. t \in [Nat -> Nat] /\ t[0] = 1
  BY <1>1 DEF Powers
<1>3. \A n \in Nat : t[n + 1] = 10 * t[n]
  <2> SUFFICES ASSUME NEW n \in Nat PROVE t[n + 1] = 10 * t[n]
    OBVIOUS
  <2>1. Powers(up(n), n) /\ Powers(up(n + 1), n + 1)
    BY <1>1
  <2>2. up(n + 1)[n + 1] = 10 * up(n + 1)[n]
    BY <2>1 DEF Powers
  <2>3. up(n)[n] = up(n + 1)[n]
    BY <2>1, PowersAgree
  <2>4. QED
    BY <2>2, <2>3
<1>4. t = body(t)
  <2>1. ASSUME NEW n \in Nat PROVE t[n] = IF n = 0 THEN 1 ELSE 10 * t[n - 1]
    <3>1. CASE n = 0
      BY <1>2, <3>1
    <3>2. CASE n # 0
      <4>1. n - 1 \in Nat /\ (n - 1) + 1 = n
        BY <3>2
      <4>2. t[(n - 1) + 1] = 10 * t[n - 1]
        BY <1>3, <4>1
      <4>3. QED
        BY <3>2, <4>1, <4>2
    <3>3. QED
      BY <3>1, <3>2
  <2>2. QED
    BY <2>1
<1> HIDE DEF t
<1>5. TenTo = CHOOSE f : f = body(f)
  BY Zenon DEF TenTo
<1>6. TenTo = body(TenTo)
  <2> HIDE DEF body
  <2>1. QED
    BY <1>4, <1>5
<1>7. TenTo[0] = 1 /\ \A n \in Nat : TenTo[n + 1] = 10 * TenTo[n]
  BY <1>6
<1>8. \A n \in Nat : TenTo[n] \in Nat
  <2> DEFINE K == {n \in Nat : TenTo[n] \in Nat}
  <2>1. 0 \in K /\ \A n \in Nat : n \in K => n + 1 \in K
    BY <1>7
  <2>2. Nat \subseteq K
    <3> HIDE DEF K
    <3>1. QED
      BY <2>1, SetInduction
  <2>3. QED
    BY <2>2
<1>9. TenTo \in [Nat -> Nat]
  BY <1>6, <1>8
<1>10. QED
  BY <1>7, <1>9

LEMMA TenToPositive == ASSUME NEW n \in Nat PROVE TenTo[n] \in Nat \ {0}
<1> DEFINE K == {k \in Nat : TenTo[k] \in Nat \ {0}}
<1>1. 0 \in K /\ \A k \in Nat : k \in K => k + 1 \in K
  BY TenToRec
<1>2. Nat \subseteq K
  <2> HIDE DEF K
  <2>1. QED
    BY <1>1, SetInduction
<1>3. QED
  BY <1>2

LEMMA TenToSum ==
    ASSUME NEW n \in Nat, NEW m \in Nat
    PROVE  TenTo[n + m] = TenTo[n] * TenTo[m]
<1> DEFINE K == {k \in Nat : TenTo[n + k] = TenTo[n] * TenTo[k]}
<1>1. 0 \in K
  BY TenToRec
<1>2. ASSUME NEW k \in Nat, k \in K PROVE k + 1 \in K
  <2>1. n + k \in Nat /\ n + (k + 1) = (n + k) + 1
    OBVIOUS
  <2>2. TenTo[n + (k + 1)] = 10 * TenTo[n + k] /\ TenTo[k + 1] = 10 * TenTo[k]
    BY <2>1, TenToRec
  <2>3. TenTo[n] \in Nat /\ TenTo[k] \in Nat
    BY TenToRec
  <2>4. QED
    BY <1>2, <2>2, <2>3
<1>3. Nat \subseteq K
  <2> HIDE DEF K
  <2>1. QED
    BY <1>1, <1>2, SetInduction
<1>4. QED
  BY <1>3

-----------------------------------------------------------------------------
(* Division *)

LEMMA DivMod ==
    ASSUME NEW n \in Int, NEW d \in Nat \ {0}
    PROVE  /\ n \div d \in Int /\ n % d \in 0..d - 1
           /\ n = d * (n \div d) + (n % d)
OBVIOUS

LEMMA DivExact ==
    ASSUME NEW k \in Int, NEW d \in Nat \ {0}
    PROVE  (k * d) \div d = k /\ (k * d) % d = 0
OBVIOUS

LEMMA CancelFactor ==
    ASSUME NEW a \in Int, NEW b \in Int, NEW d \in Nat \ {0}, a * d = b * d
    PROVE  a = b
OBVIOUS

=============================================================================
