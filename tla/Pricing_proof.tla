---------------------------- MODULE Pricing_proof ----------------------------
(***************************************************************************)
(* What the conversions of Pricing, Spot and Units compute, as facts about *)
(* fractions: ticks and prices are each other's inverse, a division that   *)
(* is rounded comes to the nearest, and the units of a pair are the filled *)
(* amount on the scale both owners signed.                                 *)
(***************************************************************************)
EXTENDS Spot, Units, Arithmetic_proof

-----------------------------------------------------------------------------
(* Decimals and ticks *)

LEMMA Larger ==
    ASSUME NEW a \in Nat, NEW b \in Nat
    PROVE  Max({a, b}) \in {a, b} /\ Max({a, b}) >= a /\ Max({a, b}) >= b
<1>1. \E x \in {a, b} : \A y \in {a, b} : x >= y
  OBVIOUS
<1>2. QED
  BY <1>1 DEF Max

\* Two decimals are the same when they are as fractions.
LEMMA SameIsCross ==
    ASSUME NEW a \in Decimal, NEW b \in Decimal
    PROVE  Same(a, b) <=> a.units * TenTo[b.places] = b.units * TenTo[a.places]
<1> DEFINE f == Finest(a, b)
           ta == TenTo[a.places]
           tb == TenTo[b.places]
           ra == TenTo[f - a.places]
           rb == TenTo[f - b.places]
<1>1. /\ a.places \in Nat /\ b.places \in Nat /\ a.units \in Int /\ b.units \in Int
      /\ f \in Nat /\ f - a.places \in Nat /\ f - b.places \in Nat
  BY Larger DEF Decimal, Finest
<1>2. /\ ta \in Nat \ {0} /\ tb \in Nat \ {0} /\ ra \in Nat \ {0} /\ rb \in Nat \ {0}
      /\ TenTo[f] \in Nat \ {0}
  BY <1>1, TenToPositive
<1>3. ta * ra = TenTo[f] /\ tb * rb = TenTo[f]
  <2>1. TenTo[a.places + (f - a.places)] = ta * ra /\ TenTo[b.places + (f - b.places)] = tb * rb
    BY <1>1, TenToSum
  <2>2. QED
    BY <1>1, <2>1
<1>4. Same(a, b) <=> a.units * ra = b.units * rb
  BY DEF Same, At
<1> DEFINE au == a.units
           bu == b.units
           t == TenTo[f]
<1> HIDE DEF ta, tb, ra, rb, au, bu, t
<1>5. ta \in Nat \ {0} /\ tb \in Nat \ {0} /\ ra \in Nat \ {0} /\ rb \in Nat \ {0}
      /\ t \in Nat \ {0} /\ au \in Int /\ bu \in Int /\ ta * ra = t /\ tb * rb = t
  BY <1>1, <1>2, <1>3 DEF au, bu, t
<1>6. ASSUME au * ra = bu * rb PROVE au * tb = bu * ta
  <2>1. (au * tb) * t = (bu * ta) * t
    <3>1. (au * ra) * (ta * tb) = (bu * rb) * (ta * tb)
      BY <1>6
    <3>2. /\ (au * ra) * (ta * tb) = (au * tb) * (ta * ra)
          /\ (bu * rb) * (ta * tb) = (bu * ta) * (tb * rb)
      BY <1>5
    <3>3. QED
      BY <1>5, <3>1, <3>2
  <2>2. au * tb \in Int /\ bu * ta \in Int
    BY <1>5
  <2>3. QED
    BY <1>5, <2>1, <2>2, CancelFactor
<1>7. ASSUME au * tb = bu * ta PROVE au * ra = bu * rb
  <2>1. (au * ra) * (ta * tb) = (bu * rb) * (ta * tb)
    <3>1. (au * tb) * t = (bu * ta) * t
      BY <1>7
    <3>2. /\ (au * ra) * (ta * tb) = (au * tb) * (ta * ra)
          /\ (bu * rb) * (ta * tb) = (bu * ta) * (tb * rb)
      BY <1>5
    <3>3. QED
      BY <1>5, <3>1, <3>2
  <2>2. au * ra \in Int /\ bu * rb \in Int /\ ta * tb \in Nat \ {0}
    BY <1>5
  <2>3. QED
    BY <2>1, <2>2, CancelFactor
<1>8. QED
  BY <1>4, <1>6, <1>7 DEF au, bu, ta, tb

Registered(instrument) == instrument.tick \in Positive /\ instrument.precision \in Nat

\* What Parse accepts it converts without a remainder.
LEMMA ParseIsExact ==
    ASSUME NEW instrument, Registered(instrument), NEW price \in Decimal,
           Parse(instrument, price) # NoTicks
    PROVE  /\ Parse(instrument, price) \in Nat \ {0} /\ price.units \in Nat
           /\ (Parse(instrument, price) * instrument.tick.units) * TenTo[price.places]
                  = price.units * TenTo[instrument.tick.places]
<1> DEFINE tu == instrument.tick.units
           tt == TenTo[instrument.tick.places]
           tp == TenTo[price.places]
           n == price.units * tt
           d == tp * tu
           k == n \div d
<1>1. /\ tu \in Nat \ {0} /\ instrument.tick.places \in Nat
      /\ price.units \in Int /\ price.places \in Nat
  BY DEF Registered, Positive, Decimal
<1>2. tt \in Nat \ {0} /\ tp \in Nat \ {0}
  BY <1>1, TenToPositive
<1>3. ~(price.units < 0) /\ n % d = 0 /\ Parse(instrument, price) = n \div d
  BY DEF Parse
<1>4. price.units \in Nat /\ n \in Nat /\ d \in Nat \ {0}
  BY <1>1, <1>2, <1>3
<1> HIDE DEF n, d
<1>5. k \in Nat /\ n = d * k
  BY <1>3, <1>4, DivMod
<1>6. k # 0
  BY <1>3 DEF NoTicks
<1> HIDE DEF k
<1>7. d * k = (k * tu) * tp
  <2> HIDE DEF tu, tt, tp
  <2>1. QED
    BY <1>1, <1>2, <1>5 DEF d
<1>8. QED
  BY <1>3, <1>4, <1>5, <1>6, <1>7 DEF n, k

\* FormatTicks writes exactly so many ticks.
LEMMA FormatIsExact ==
    ASSUME NEW instrument, Registered(instrument), NEW ticks \in Nat
    PROVE  LET price == FormatTicks(instrument, ticks)
           IN  /\ price \in Decimal /\ price.units \in Nat
               /\ (ticks * instrument.tick.units) * TenTo[price.places]
                      = price.units * TenTo[instrument.tick.places]
<1> DEFINE tu == instrument.tick.units
           tp == instrument.tick.places
           pl == Max({tp, instrument.precision})
           n == ticks * tu
           d == TenTo[tp]
           q == n \div d
           m == n % d
           r == TenTo[pl - tp]
           t == TenTo[pl]
<1>1. /\ tu \in Nat \ {0} /\ tp \in Nat /\ pl \in Nat /\ pl - tp \in Nat
  BY Larger DEF Registered, Positive
<1>2. d \in Nat \ {0} /\ r \in Nat \ {0} /\ t \in Nat \ {0}
  BY <1>1, TenToPositive
<1>3. t = d * r
  <2>1. TenTo[tp + (pl - tp)] = d * r
    BY <1>1, TenToSum
  <2>2. QED
    BY <1>1, <2>1
<1>4. n \in Nat
  BY <1>1
<1>5. FormatTicks(instrument, ticks) = Dec(q * t + (m * t) \div d, pl)
  BY DEF FormatTicks, Written
<1> HIDE DEF n, d, r, t, pl
<1>6. q \in Nat /\ m \in Nat /\ n = d * q + m
  BY <1>2, <1>4, DivMod
<1> HIDE DEF q, m
<1>7. (m * t) \div d = m * r
  <2>1. m * t = (m * r) * d
    BY <1>2, <1>3, <1>6
  <2>2. QED
    BY <1>2, <1>6, <2>1, DivExact
<1>8. q * t + m * r = n * r
  BY <1>2, <1>3, <1>6
<1>9. FormatTicks(instrument, ticks) = Dec(n * r, pl)
  BY <1>5, <1>7, <1>8
<1>10. n * r \in Nat /\ n * t = (n * r) * d
  BY <1>2, <1>3, <1>4
<1>11. QED
  BY <1>1, <1>9, <1>10 DEF Dec, Decimal, n, d, t

\* Parse undoes FormatTicks.
LEMMA ParseUndoesFormat ==
    ASSUME NEW instrument, Registered(instrument), NEW ticks \in Nat
    PROVE  Parse(instrument, FormatTicks(instrument, ticks)) = ticks
<1> DEFINE price == FormatTicks(instrument, ticks)
           tu == instrument.tick.units
           tt == TenTo[instrument.tick.places]
           tp == TenTo[price.places]
<1>1. /\ price \in Decimal /\ price.units \in Nat
      /\ (ticks * tu) * tp = price.units * tt
  BY FormatIsExact
<1> HIDE DEF price
<1>2. tu \in Nat \ {0} /\ tt \in Nat \ {0} /\ tp \in Nat \ {0}
  BY <1>1, TenToPositive DEF Registered, Positive, Decimal
<1> HIDE DEF tu, tt, tp
<1>3. price.units * tt = ticks * (tp * tu) /\ tp * tu \in Nat \ {0}
  BY <1>1, <1>2
<1>4. (price.units * tt) % (tp * tu) = 0 /\ (price.units * tt) \div (tp * tu) = ticks
  BY <1>3, DivExact
<1>5. ~(price.units < 0)
  BY <1>1
<1>6. Parse(instrument, price) = ticks
  BY <1>4, <1>5 DEF Parse, tu, tt, tp
<1>7. QED
  BY <1>6 DEF price

\* FormatTicks undoes Parse, up to zeros at the end.
LEMMA FormatUndoesParse ==
    ASSUME NEW instrument, Registered(instrument), NEW price \in Decimal,
           Parse(instrument, price) # NoTicks
    PROVE  /\ FormatTicks(instrument, Parse(instrument, price)) \in Decimal
           /\ Same(FormatTicks(instrument, Parse(instrument, price)), price)
<1> DEFINE k == Parse(instrument, price)
           back == FormatTicks(instrument, k)
           n == k * instrument.tick.units
           tt == TenTo[instrument.tick.places]
           tp == TenTo[price.places]
           tb == TenTo[back.places]
<1>1. k \in Nat /\ price.units \in Nat /\ n * tp = price.units * tt
  BY ParseIsExact
<1> HIDE DEF k
<1>2. back \in Decimal /\ back.units \in Nat /\ n * tb = back.units * tt
  BY <1>1, FormatIsExact
<1> HIDE DEF back
<1>3. n \in Nat /\ tt \in Nat \ {0} /\ tp \in Nat \ {0} /\ tb \in Nat \ {0}
  BY <1>1, <1>2, TenToPositive DEF Registered, Positive, Decimal
<1> DEFINE u == price.units
           v == back.units
<1> HIDE DEF n, tt, tp, tb, u, v
<1>4. /\ u \in Nat /\ v \in Nat
      /\ n * tp = u * tt /\ n * tb = v * tt
  BY <1>1, <1>2 DEF u, v
<1>5. (v * tp) * tt = (u * tb) * tt
  <2>1. (v * tp) * tt = (n * tb) * tp /\ (u * tb) * tt = (n * tp) * tb
    BY <1>3, <1>4
  <2>2. (n * tb) * tp = (n * tp) * tb
    BY <1>3
  <2>3. QED
    BY <2>1, <2>2
<1>6. v * tp \in Int /\ u * tb \in Int
  BY <1>3, <1>4
<1>7. v * tp = u * tb
  BY <1>3, <1>5, <1>6, CancelFactor
<1>8. Same(back, price)
  BY <1>2, <1>7, SameIsCross DEF u, v, tp, tb
<1>9. QED
  BY <1>2, <1>8 DEF back, k

-----------------------------------------------------------------------------
(* Rounding *)

\* q is what n / d comes to, to the nearest, a half upwards.
Nearest(q, n, d) == d * (2 * q - 1) <= 2 * n /\ 2 * n < d * (2 * q + 1)

LEMMA RoundedIsNearest ==
    ASSUME NEW n \in Nat, NEW d \in Nat \ {0}, NEW scale \in Nat
    PROVE  \E q \in Nat : Rounded(n, d, scale) = Dec(q, scale) /\ Nearest(q, n * TenTo[scale], d)
<1> DEFINE s == n * TenTo[scale]
           k == s \div d
           m == s % d
           up == IF 2 * m >= d THEN 1 ELSE 0
<1>1. s \in Nat
  BY TenToPositive
<1>2. Rounded(n, d, scale) = Dec(k + up, scale)
  BY DEF Rounded
<1> HIDE DEF s
<1>3. k \in Int /\ m \in 0..d - 1 /\ s = d * k + m
  BY <1>1, DivMod
<1> HIDE DEF k, m
<1>4. k \in Nat
  BY <1>1, <1>3
<1>5. Nearest(k + up, s, d)
  <2>1. CASE 2 * m >= d
    BY <1>3, <1>4, <2>1 DEF Nearest
  <2>2. CASE ~(2 * m >= d)
    BY <1>3, <1>4, <2>2 DEF Nearest
  <2>3. QED
    BY <2>1, <2>2
<1>6. k + up \in Nat
  BY <1>4
<1>7. QED
  BY <1>2, <1>5, <1>6 DEF s

LEMMA NearestIsUnique ==
    ASSUME NEW q \in Int, NEW r \in Int, NEW n \in Nat, NEW d \in Nat \ {0},
           Nearest(q, n, d), Nearest(r, n, d)
    PROVE  q = r
<1>1. d * (2 * q - 1) < d * (2 * r + 1) /\ d * (2 * r - 1) < d * (2 * q + 1)
  BY DEF Nearest
<1>2. \A x, y \in Int : d * x < d * y => x < y
  OBVIOUS
<1>3. 2 * q - 1 < 2 * r + 1 /\ 2 * r - 1 < 2 * q + 1
  BY <1>1, <1>2
<1>4. QED
  BY <1>3

\* The rounding of an exact quotient.
LEMMA ExactIsNearest ==
    ASSUME NEW q \in Nat, NEW d \in Nat \ {0}
    PROVE  Nearest(q, q * d, d)
BY DEF Nearest

\* To round fractions that are the same is the same.
LEMMA NearestOfSame ==
    ASSUME NEW q \in Int, NEW n \in Nat, NEW d \in Nat \ {0},
           NEW m \in Nat, NEW e \in Nat \ {0}, n * e = m * d,
           Nearest(q, m, e)
    PROVE  Nearest(q, n, d)
<1> DEFINE x == 2 * q - 1
           y == 2 * q + 1
<1>1. x \in Int /\ y \in Int /\ e * x <= 2 * m /\ 2 * m < e * y
  BY DEF Nearest
<1> HIDE DEF x, y
<1>2. (e * x) * d <= (2 * m) * d /\ (2 * m) * d < (e * y) * d
  BY <1>1
<1>3. (d * x) * e <= (2 * n) * e /\ (2 * n) * e < (d * y) * e
  BY <1>1, <1>2
<1>4. /\ \A u, v \in Int : u * e <= v * e => u <= v
      /\ \A u, v \in Int : u * e < v * e => u < v
  OBVIOUS
<1>5. d * x \in Int /\ d * y \in Int /\ 2 * n \in Int
  BY <1>1
<1>6. d * x <= 2 * n /\ 2 * n < d * y
  BY <1>3, <1>4, <1>5
<1>7. QED
  BY <1>6 DEF Nearest, x, y

\* The inverse of an inverse, each rounded: X is what a price of one has at the
\* finer scale, p the price and w what one is at the coarser.
LEMMA InverseOfInverse ==
    ASSUME NEW p \in Nat \ {0}, NEW w \in Nat \ {0}, NEW X \in Nat, NEW Q \in Nat,
           Nearest(Q, X, p), p * (p * w) < X
    PROVE  Q > 0 /\ Nearest(p * w, w * X, Q)
<1>1. p * (2 * Q - 1) <= 2 * X /\ 2 * X < p * (2 * Q + 1)
  BY DEF Nearest
<1> DEFINE r == p * w
<1>2. r \in Nat \ {0} /\ p * r < X
  OBVIOUS
<1>3. r <= Q
  <2> SUFFICES ASSUME r >= Q + 1 PROVE FALSE
    BY <1>2
  <2> HIDE DEF r
  <2>1. p * (Q + 1) <= p * r
    BY <1>2
  <2>2. 2 * X < p * (2 * Q + 1) /\ p * (2 * Q + 1) <= 2 * (p * (Q + 1))
    BY <1>1
  <2>3. QED
    BY <1>2, <2>1, <2>2
<1>4. Q * (2 * r) = w * (2 * (p * Q))
  OBVIOUS
<1>5. 2 * (p * Q) <= 2 * X + p /\ 2 * X - p < 2 * (p * Q)
  BY <1>1
<1> DEFINE z == 2 * (p * Q)
<1>6. z \in Int
  OBVIOUS
<1> HIDE DEF z
<1>7. w * z <= w * (2 * X + p) /\ w * (2 * X - p) < w * z
  BY <1>5, <1>6 DEF z
<1>8. w * (2 * X + p) = 2 * (w * X) + r /\ w * (2 * X - p) = 2 * (w * X) - r
  OBVIOUS
<1> HIDE DEF r
<1>9. Q * (2 * r - 1) = w * z - Q /\ Q * (2 * r + 1) = w * z + Q
  BY <1>2, <1>4 DEF z
<1> DEFINE t == w * X
           g == w * z
<1>10. t \in Int /\ g \in Int
  BY <1>6
<1> HIDE DEF t, g
<1>11. g <= 2 * t + r /\ 2 * t - r < g
  BY <1>7, <1>8 DEF t, g
<1>12. g - Q <= 2 * t /\ 2 * t < g + Q
  BY <1>2, <1>3, <1>10, <1>11
<1>13. QED
  BY <1>2, <1>3, <1>9, <1>12 DEF Nearest, r, t, g

\* An amount times the rounded inverse of a price, rounded.  N is one at the
\* finer scale, A the amount, h what one is at the coarser scale, and R the
\* size looked for: A * h * X = p * R * N.
LEMMA SizeOfAmount ==
    ASSUME NEW p \in Nat \ {0}, NEW X \in Nat, NEW Q \in Nat, NEW N \in Nat \ {0},
           NEW A \in Nat, NEW h \in Nat \ {0}, NEW R \in Nat,
           Nearest(Q, X, p), A * h < N, (A * h) * X = p * (R * N)
    PROVE  Nearest(R, (Q * A) * h, N)
<1> DEFINE g == A * h
           rn == R * N
           qg == Q * g
<1>1. g \in Nat /\ rn \in Nat /\ qg \in Nat /\ g < N /\ g * X = p * rn
      /\ (Q * A) * h = qg
  OBVIOUS
<1>2. 2 * (p * Q) <= 2 * X + p /\ 2 * X - p < 2 * (p * Q)
  BY DEF Nearest
<1>3. N * (2 * R - 1) = 2 * rn - N /\ N * (2 * R + 1) = 2 * rn + N
  OBVIOUS
<1>4. p * qg = g * (p * Q)
  OBVIOUS
<1> HIDE DEF g, rn, qg
<1> DEFINE z == p * Q
<1>5. z \in Int
  OBVIOUS
<1> HIDE DEF z
<1>6. g * (2 * z) <= g * (2 * X + p) /\ g * (2 * X - p) <= g * (2 * z)
  BY <1>1, <1>2, <1>5 DEF z
<1>7. p * (2 * qg) <= p * (2 * rn + g) /\ p * (2 * rn - g) <= p * (2 * qg)
  <2>1. g * (2 * z) = p * (2 * qg)
    BY <1>1, <1>4, <1>5 DEF z
  <2>2. g * (2 * X + p) = p * (2 * rn + g) /\ g * (2 * X - p) = p * (2 * rn - g)
    BY <1>1
  <2>3. QED
    BY <1>6, <2>1, <2>2
<1>8. \A x, y \in Int : p * x <= p * y => x <= y
  OBVIOUS
<1>9. 2 * qg <= 2 * rn + g /\ 2 * rn - g <= 2 * qg
  BY <1>1, <1>7, <1>8
<1>10. 2 * rn - N <= 2 * qg /\ 2 * qg < 2 * rn + N
  BY <1>1, <1>9
<1>11. QED
  BY <1>1, <1>3, <1>10 DEF Nearest

\* The powers of ten of an intent as fine as it is shown.
LEMMA ScalesOf ==
    ASSUME NEW a \in 0..UIScale, NEW b \in 0..UIScale
    PROVE  LET t(n) == TenTo[n]
           IN  /\ {t(a), t(b), t(UIScale), t(EngineScale), t(UIScale - a), t(UIScale - b),
                   t(EngineScale - UIScale), t(EngineScale - (a + b))} \subseteq Nat \ {0}
               /\ t(UIScale) = t(a) * t(UIScale - a) /\ t(UIScale) = t(b) * t(UIScale - b)
               /\ t(EngineScale) = t(EngineScale - UIScale) * t(UIScale)
               /\ t(a + b) = t(a) * t(b)
               /\ t(EngineScale) = (t(a) * t(b)) * t(EngineScale - (a + b))
               /\ t(EngineScale - UIScale + 2 * a) = t(EngineScale - UIScale) * (t(a) * t(a))
               /\ t(EngineScale - UIScale + a + b) = t(EngineScale - UIScale) * (t(a) * t(b))
<1>1. /\ a \in Nat /\ b \in Nat /\ UIScale \in Nat /\ EngineScale \in Nat
      /\ UIScale - a \in Nat /\ UIScale - b \in Nat /\ EngineScale - UIScale \in Nat
      /\ EngineScale - (a + b) \in Nat
  BY ScaleAssumption
<1> DEFINE U == UIScale
           E == EngineScale
<1>2. /\ TenTo[a + (U - a)] = TenTo[a] * TenTo[U - a]
      /\ TenTo[b + (U - b)] = TenTo[b] * TenTo[U - b]
      /\ TenTo[(E - U) + U] = TenTo[E - U] * TenTo[U]
      /\ TenTo[a + b] = TenTo[a] * TenTo[b] /\ TenTo[a + a] = TenTo[a] * TenTo[a]
  BY <1>1, TenToSum
<1>3. /\ TenTo[(a + b) + (E - (a + b))] = TenTo[a + b] * TenTo[E - (a + b)]
      /\ TenTo[(E - U) + (a + a)] = TenTo[E - U] * TenTo[a + a]
      /\ TenTo[(E - U) + (a + b)] = TenTo[E - U] * TenTo[a + b]
  <2>1. /\ a + b \in Nat /\ a + a \in Nat
        /\ E - U \in Nat /\ E - (a + b) \in Nat
    BY <1>1
  <2>2. QED
    BY <2>1, TenToSum, Zenon
<1>4. /\ a + (U - a) = U /\ b + (U - b) = U /\ (E - U) + U = E
      /\ (a + b) + (E - (a + b)) = E
      /\ (E - U) + (a + a) = E - U + 2 * a /\ (E - U) + (a + b) = E - U + a + b
  BY <1>1
<1>5. \A n \in {a, b, U, E, U - a, U - b, E - U, E - (a + b)} : TenTo[n] \in Nat \ {0}
  BY <1>1, TenToPositive
<1>6. QED
  BY <1>2, <1>3, <1>4, <1>5

-----------------------------------------------------------------------------
(* Signed scales *)

\* A shared scale divides both signed values.
LEMMA SharedScaleDivides ==
    ASSUME NEW p \in Int, NEW s \in Int, NEW q \in Int, NEW r \in Int,
           SharedScale(p, s, q, r) # NoScale
    PROVE  LET k == SharedScale(p, s, q, r)
           IN  k \in Nat \ {0} /\ p \in Nat \ {0} /\ q \in Nat \ {0} /\ s = p * k /\ r = q * k
<1> DEFINE k == s \div p
<1>1. /\ p > 0 /\ s > 0 /\ s % p = 0 /\ q > 0 /\ r > 0 /\ r % q = 0
      /\ k = r \div q
      /\ SharedScale(p, s, q, r) = k
  BY DEF SharedScale
<1>2. k \in Int /\ s = p * k
  BY <1>1, DivMod
<1>3. r = q * (r \div q)
  BY <1>1, DivMod
<1> HIDE DEF k
<1>4. k > 0
  BY <1>1, <1>2
<1>5. QED
  BY <1>1, <1>2, <1>3, <1>4

\* Values that have a common factor have it for their scale.
LEMMA SharedScaleIs ==
    ASSUME NEW p \in Nat \ {0}, NEW q \in Nat \ {0}, NEW k \in Nat \ {0}
    PROVE  SharedScale(p, p * k, q, q * k) = k
<1>1. p * k = k * p /\ q * k = k * q /\ p * k > 0 /\ q * k > 0
  OBVIOUS
<1>2. /\ (p * k) % p = 0 /\ (p * k) \div p = k
      /\ (q * k) % q = 0 /\ (q * k) \div q = k
  BY <1>1, DivExact
<1>3. QED
  BY <1>1, <1>2 DEF SharedScale

Signed(order) ==
    /\ {order.ticks, order.desired} \subseteq Nat \ {0}
    /\ {order.signed.price, order.signed.desired} \subseteq Int

LEMMA Smaller ==
    ASSUME NEW a \in Int, NEW b \in Int
    PROVE  Min({a, b}) \in {a, b} /\ Min({a, b}) <= a /\ Min({a, b}) <= b
<1>1. \E x \in {a, b} : \A y \in {a, b} : x <= y
  OBVIOUS
<1>2. QED
  BY <1>1 DEF Min

\* What the units of a pair are when there are any.
LEMMA UnitsFit ==
    ASSUME NEW taker, NEW maker, Signed(taker), Signed(maker),
           NEW amount \in Int,
           ExecutionUnits(taker, maker, maker.ticks, amount) # NoUnits
    PROVE  LET units == ExecutionUnits(taker, maker, maker.ticks, amount)
           IN  /\ SignedFor(taker) /\ SignedFor(maker)
               /\ SizeFits(taker, maker, amount)
               /\ units \in [price: Nat \ {0}, amount: Nat \ {0}]
               /\ WithinSigned(taker, units.price) /\ WithinSigned(maker, units.price)
               /\ units.amount * taker.desired = amount * taker.signed.desired
               /\ units.amount * maker.desired = amount * maker.signed.desired
<1> DEFINE k == SharedScale(taker.ticks, taker.signed.price, maker.ticks, maker.signed.price)
           c == SharedScale(taker.desired, taker.signed.desired,
                            maker.desired, maker.signed.desired)
           units == ExecutionUnits(taker, maker, maker.ticks, amount)
<1>1. /\ SignedFor(taker) /\ SignedFor(maker)
      /\ k # NoScale /\ c # NoScale
      /\ SizeFits(taker, maker, amount)
      /\ WithinSigned(taker, maker.ticks * k) /\ WithinSigned(maker, maker.ticks * k)
      /\ units = [price |-> maker.ticks * k, amount |-> amount * c]
  BY DEF ExecutionUnits
<1>2. /\ taker.ticks \in Nat \ {0} /\ maker.ticks \in Nat \ {0}
      /\ taker.desired \in Nat \ {0} /\ maker.desired \in Nat \ {0}
      /\ taker.signed.price \in Int /\ maker.signed.price \in Int
      /\ taker.signed.desired \in Int /\ maker.signed.desired \in Int
  BY DEF Signed
<1>3. k \in Nat \ {0}
  BY <1>1, <1>2, SharedScaleDivides
<1>4. /\ c \in Nat \ {0} /\ taker.signed.desired = taker.desired * c
      /\ maker.signed.desired = maker.desired * c
  BY <1>1, <1>2, SharedScaleDivides
<1>5. amount > 0
  BY <1>1 DEF SizeFits
<1> HIDE DEF k, c, units
<1>6. maker.ticks * k \in Nat \ {0} /\ amount * c \in Nat \ {0}
  BY <1>2, <1>3, <1>4, <1>5
<1>7. /\ units \in [price: Nat \ {0}, amount: Nat \ {0}]
      /\ units.price = maker.ticks * k /\ units.amount = amount * c
  BY <1>1, <1>6
<1>8. /\ (amount * c) * taker.desired = amount * taker.signed.desired
      /\ (amount * c) * maker.desired = amount * maker.signed.desired
  BY <1>2, <1>4
<1>9. QED
  BY <1>1, <1>7, <1>8 DEF units

=============================================================================
