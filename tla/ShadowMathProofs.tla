--------------------------- MODULE ShadowMathProofs ---------------------------
(***************************************************************************)
(* Facts about the arithmetic of the lending program that the proofs of    *)
(* the other modules cite: products and quotients, saturating operations,  *)
(* the index and the debt it restates, prices and the way back.            *)
(***************************************************************************)
EXTENDS ShadowMath, TLAPS

-----------------------------------------------------------------------------
(* Products and quotients.                                                 *)

LEMMA ProductMonotone ==
    ASSUME NEW a \in Nat, NEW b \in Nat, NEW c \in Nat, a <= b
    PROVE  a * c \in Nat /\ a * c <= b * c
OBVIOUS

LEMMA ProductCancels ==
    ASSUME NEW a \in Nat, NEW b \in Nat, NEW c \in Nat \ {0}, a * c <= b * c
    PROVE  a <= b
<1>1. SUFFICES ASSUME a >= b + 1 PROVE FALSE
    OBVIOUS
<1>2. (b + 1) * c <= a * c
    BY <1>1, ProductMonotone
<1>3. (b + 1) * c = b * c + c
    OBVIOUS
<1> QED
    BY <1>2, <1>3

LEMMA Quotient ==
    ASSUME NEW a \in Nat, NEW c \in Nat \ {0}
    PROVE  /\ a \div c \in Nat
           /\ (a \div c) * c <= a
           /\ a < (a \div c + 1) * c
OBVIOUS

\* The quotient is the largest whose product still fits.
LEMMA QuotientIsLargest ==
    ASSUME NEW a \in Nat, NEW c \in Nat \ {0}, NEW q \in Nat
    PROVE  q * c <= a <=> q <= a \div c
<1>1. /\ a \div c \in Nat /\ (a \div c) * c <= a
      /\ a < (a \div c + 1) * c
    BY Quotient
<1>2. ASSUME q <= a \div c
      PROVE  q * c <= a
  <2>1. q * c <= (a \div c) * c
      BY <1>1, <1>2, ProductMonotone
  <2> QED
      BY <1>1, <2>1
<1>3. ASSUME q >= a \div c + 1
      PROVE  q * c > a
  <2>1. (a \div c + 1) * c <= q * c
      BY <1>1, <1>3, ProductMonotone
  <2> QED
      BY <1>1, <2>1
<1> QED
    BY <1>1, <1>2, <1>3

LEMMA QuotientSmaller ==
    ASSUME NEW a \in Nat, NEW c \in Nat \ {0}
    PROVE  a \div c \in Nat /\ a \div c <= a
<1>1. a \div c \in Nat /\ (a \div c) * c <= a
    BY Quotient
<1>2. (a \div c) * 1 <= (a \div c) * c
    BY <1>1, ProductMonotone
<1> QED
    BY <1>1, <1>2

LEMMA QuotientMonotone ==
    ASSUME NEW a \in Nat, NEW b \in Nat, NEW c \in Nat \ {0}, a <= b
    PROVE  a \div c <= b \div c
<1>1. a \div c \in Nat /\ (a \div c) * c <= a
    BY Quotient
<1>2. (a \div c) * c <= b
  <2>1. (a \div c) * c \in Nat
      BY <1>1
  <2> QED
      BY <1>1, <2>1
<1> QED
    BY <1>1, <1>2, QuotientIsLargest

\* If b/s is at most p/r, and d at most its share of i in b/s, then d is at most
\* the share of i in p/r.
LEMMA ShareOfShare ==
    ASSUME NEW b \in Nat, NEW s \in Nat \ {0}, NEW p \in Nat, NEW r \in Nat,
           NEW i \in Nat, NEW d \in Nat,
           b * r <= p * s, d * s <= b * i
    PROVE  d * r <= p * i
<1>1. (d * s) * r <= (b * i) * r
    BY ProductMonotone
<1>2. (b * r) * i <= (p * s) * i
    BY ProductMonotone
<1>3. (d * s) * r = (d * r) * s /\ (b * i) * r = (b * r) * i /\ (p * s) * i = (p * i) * s
    OBVIOUS
<1>4. (d * r) * s <= (p * i) * s
    BY <1>1, <1>2, <1>3
<1>5. d * r \in Nat /\ p * i \in Nat
    OBVIOUS
<1> QED
    BY <1>4, <1>5, ProductCancels

-----------------------------------------------------------------------------
(* Saturating operations.                                                  *)

LEMMA Scales == RateScale \in Nat \ {0} /\ BpsDenominator \in Nat \ {0} /\ U64 \subseteq Nat
                  /\ U128 \subseteq Nat
BY WidthAssumption, ScaleAssumption DEF U64, U128

LEMMA Saturated ==
    ASSUME NEW a \in Nat, NEW b \in Nat
    PROVE  /\ SatMul(a, b) \in Nat /\ SatMul(a, b) <= a * b
           /\ a * b <= U128Max => SatMul(a, b) = a * b
           /\ SatMul(a, b) <= U128Max
<1>1. a * b \in Nat
    OBVIOUS
<1> QED
    BY <1>1, WidthAssumption DEF SatMul, Least

LEMMA SatMulMonotone ==
    ASSUME NEW a \in Nat, NEW b \in Nat, NEW c \in Nat, a <= b
    PROVE  SatMul(a, c) <= SatMul(b, c)
<1>1. a * c \in Nat /\ b * c \in Nat /\ a * c <= b * c
    BY ProductMonotone
<1> QED
    BY <1>1, WidthAssumption DEF SatMul, Least

LEMMA SaturatingTypes ==
    ASSUME NEW a \in Nat, NEW b \in Nat
    PROVE  /\ SatMul(a, b) \in U128
           /\ SatAdd(a, b) \in U128
           /\ SatSub(a, b) \in 0..a
           /\ ToU64(a) \in U64
<1>1. a * b \in Nat
    OBVIOUS
<1> QED
    BY <1>1, WidthAssumption DEF SatMul, SatAdd, SatSub, ToU64, Least, U64, U128

-----------------------------------------------------------------------------
(* Interest.                                                               *)

\* accrue_market never lowers the index.
LEMMA IndexNeverFalls ==
    ASSUME NEW i \in U128, NEW rate \in Nat, NEW slots \in Nat
    PROVE  GrownIndex(i, rate, slots) \in U128 /\ GrownIndex(i, rate, slots) >= i
<1>1. i \in Nat /\ i <= U128Max /\ U128 \subseteq Nat
    BY WidthAssumption DEF U128
<1>2. SatMul(i, rate) \in Nat
    BY <1>1, SaturatingTypes
<1>3. SatMul(SatMul(i, rate), slots) \in Nat
    BY <1>1, <1>2, SaturatingTypes
<1>4. RateScale \in Nat \ {0}
    BY ScaleAssumption, WidthAssumption
<1> DEFINE growth == SatMul(SatMul(i, rate), slots) \div RateScale
<1>5. growth \in Nat
    BY <1>3, <1>4, Quotient
<1> HIDE DEF growth
<1>6. SatAdd(i, growth) \in U128 /\ SatAdd(i, growth) >= i
    BY <1>1, <1>5, WidthAssumption DEF SatAdd, Least, U128
<1> QED
    BY <1>6 DEF GrownIndex, growth

\* and a longer time lets it grow no less.
LEMMA IndexGrowsWithTime ==
    ASSUME NEW i \in U128, NEW rate \in Nat, NEW m \in Nat, NEW n \in Nat, m <= n
    PROVE  GrownIndex(i, rate, m) <= GrownIndex(i, rate, n)
<1> DEFINE perSlot == SatMul(i, rate)
           short == SatMul(perSlot, m)
           long == SatMul(perSlot, n)
<1>1. i \in Nat /\ RateScale \in Nat \ {0} /\ perSlot \in Nat
    BY Scales, Saturated
<1> HIDE DEF perSlot
<1>2. /\ short = SatMul(m, perSlot) /\ long = SatMul(n, perSlot)
      /\ short \in Nat /\ long \in Nat
    BY <1>1, Saturated DEF SatMul
<1>3. short <= long
    BY <1>1, <1>2, SatMulMonotone
<1> HIDE DEF short, long
<1>4. /\ short \div RateScale \in Nat /\ long \div RateScale \in Nat
      /\ short \div RateScale <= long \div RateScale
    BY <1>1, <1>2, <1>3, Quotient, QuotientMonotone
<1>5. SatAdd(i, short \div RateScale) <= SatAdd(i, long \div RateScale)
    BY <1>1, <1>4, WidthAssumption DEF SatAdd, Least
<1> QED
    BY <1>5 DEF GrownIndex, perSlot, short, long

\* accrue_position keeps a debt a u64, and owes nothing on no debt.
LEMMA RestatedType ==
    ASSUME NEW b \in U64, NEW s \in U128, NEW i \in U128
    PROVE  /\ RestatedDebt(b, s, i) \in U64
           /\ b = 0 => RestatedDebt(b, s, i) = 0
<1>1. U64 \subseteq Nat /\ U128 \subseteq Nat
    BY WidthAssumption DEF U64, U128
<1>2. SatMul(b, i) \in Nat
    BY <1>1, SaturatingTypes
<1>3. CASE s = 0 \/ b = 0 \/ s = i
    BY <1>3 DEF RestatedDebt
<1>4. CASE ~(s = 0 \/ b = 0 \/ s = i)
  <2>1. SatMul(b, i) \div s \in Nat
      BY <1>1, <1>2, <1>4, Quotient
  <2>2. ToU64(SatMul(b, i) \div s) \in U64
      BY <2>1, SaturatingTypes
  <2> QED
      BY <1>4, <2>2 DEF RestatedDebt
<1> QED
    BY <1>3, <1>4

\* While the product of debt and index fits, the restated debt is the rounded
\* share that accrue_position means, whichever of its branches computes it.
LEMMA RestatedShare ==
    ASSUME NEW b \in U64, NEW s \in Nat \ {0}, NEW i \in Nat, b * i <= U128Max
    PROVE  RestatedDebt(b, s, i) = ToU64((b * i) \div s)
<1>1. b \in Nat /\ b <= U64Max /\ SatMul(b, i) = b * i
    BY Scales, Saturated DEF U64
<1>2. CASE b = 0 \/ s = i
  <2>1. (b * i) \div s = b
    <3>1. CASE b = 0
      <4>1. b * i = 0 /\ 0 \div s = 0
          BY <1>1, <3>1
      <4> QED
          BY <3>1, <4>1
    <3>2. CASE s = i
      <4>1. (b * s) \div s = b
        <5>1. b <= (b * s) \div s
            BY <1>1, QuotientIsLargest
        <5>2. /\ (b * s) \div s \in Nat
              /\ ((b * s) \div s) * s <= b * s
            BY <1>1, Quotient
        <5>3. (b * s) \div s <= b
            BY <1>1, <5>2, ProductCancels
        <5> QED
            BY <1>1, <5>1, <5>2, <5>3
      <4> QED
          BY <3>2, <4>1
    <3> QED
        BY <1>2, <3>1, <3>2
  <2> QED
      BY <1>1, <1>2, <2>1 DEF RestatedDebt, ToU64, Least
<1>3. CASE ~(b = 0 \/ s = i)
    BY <1>1, <1>3 DEF RestatedDebt
<1> QED
    BY <1>2, <1>3

\* So it is no less than what was stored, and grows with the index.
LEMMA RestatedGrows ==
    ASSUME NEW b \in U64, NEW s \in Nat, NEW i \in Nat, NEW j \in Nat,
           b > 0 => s > 0, b > 0 => s <= i, i <= j, b * j <= U128Max
    PROVE  /\ RestatedDebt(b, s, i) \in U64
           /\ b <= RestatedDebt(b, s, i)
           /\ RestatedDebt(b, s, i) <= RestatedDebt(b, s, j)
<1>1. b \in Nat /\ b <= U64Max /\ U64Max \in Nat /\ U128Max \in Nat
    BY Scales, WidthAssumption DEF U64
<1>2. CASE b = 0
    BY <1>2, WidthAssumption DEF RestatedDebt, U64
<1>3. CASE b > 0
  <2> DEFINE now == (b * i) \div s
             then == (b * j) \div s
  <2>1. s \in Nat \ {0} /\ s <= i
      BY <1>3
  <2>2. /\ b * s <= b * i /\ b * i <= b * j
        /\ b * s \in Nat /\ b * i \in Nat /\ b * j \in Nat
    <3>1. s * b <= i * b /\ i * b <= j * b
        BY <1>1, <2>1, ProductMonotone
    <3> QED
        BY <1>1, <3>1
  <2>3. b * i <= U128Max
      BY <1>1, <2>2
  <2>4. RestatedDebt(b, s, i) = ToU64(now) /\ RestatedDebt(b, s, j) = ToU64(then)
      BY <2>1, <2>3, RestatedShare
  <2>5. now \in Nat /\ then \in Nat /\ now * s <= b * i
      BY <2>1, <2>2, Quotient
  <2>6. b <= now
      BY <1>1, <2>1, <2>2, QuotientIsLargest
  <2>7. now <= then
    <3>1. now * s <= b * j
      <4>1. now * s \in Nat
          BY <2>1, <2>5
      <4> QED
          BY <2>2, <2>5, <4>1
    <3> HIDE DEF now
    <3> QED
        BY <2>1, <2>2, <2>5, <3>1, QuotientIsLargest
  <2> HIDE DEF now, then
  <2> QED
      BY <1>1, <2>4, <2>5, <2>6, <2>7 DEF ToU64, Least, U64
<1> QED
    BY <1>1, <1>2, <1>3

-----------------------------------------------------------------------------
(* Prices.                                                                 *)

LEMMA PowerType ==
    ASSUME NEW k \in Int
    PROVE  /\ CheckedPow10(k, U128Max) \in Nat \ {0}
           /\ CheckedPow10(k, 1) \in Nat \ {0}
BY WidthAssumption DEF CheckedPow10

LEMMA ShiftType ==
    ASSUME NEW q \in Quote
    PROVE  q.price \in Int /\ Shift(q) \in Int /\ -Shift(q) \in Int
BY ScaleAssumption DEF Shift, Quote

\* The value of more tokens is no less.
LEMMA TokenUsdMonotone ==
    ASSUME NEW a \in Nat, NEW b \in Nat, NEW q \in Quote, a <= b
    PROVE  TokenUsd(a, q) \in Nat /\ TokenUsd(a, q) <= TokenUsd(b, q)
<1> DEFINE p == IF q.price > 0 THEN q.price ELSE 0
           up == CheckedPow10(Shift(q), U128Max)
           down == CheckedPow10(-Shift(q), 1)
<1>1. /\ q.price \in Int /\ Shift(q) \in Int /\ p \in Nat
      /\ up \in Nat \ {0} /\ down \in Nat \ {0}
    BY ShiftType, PowerType
<1>2. /\ TokenUsd(a, q) = IF Shift(q) >= 0 THEN SatMul(SatMul(a, p), up)
                          ELSE SatMul(a, p) \div down
      /\ TokenUsd(b, q) = IF Shift(q) >= 0 THEN SatMul(SatMul(b, p), up)
                          ELSE SatMul(b, p) \div down
    BY DEF TokenUsd
<1> HIDE DEF p, up, down
<1>3. SatMul(a, p) \in Nat /\ SatMul(b, p) \in Nat /\ SatMul(a, p) <= SatMul(b, p)
    BY <1>1, Saturated, SatMulMonotone
<1>4. CASE Shift(q) >= 0
  <2>1. SatMul(SatMul(a, p), up) \in Nat
      BY <1>1, <1>3, Saturated
  <2>2. SatMul(SatMul(a, p), up) <= SatMul(SatMul(b, p), up)
      BY <1>1, <1>3, SatMulMonotone
  <2> QED
      BY <1>2, <1>4, <2>1, <2>2
<1>5. CASE ~(Shift(q) >= 0)
    BY <1>1, <1>2, <1>3, <1>5, Quotient, QuotientMonotone
<1> QED
    BY <1>4, <1>5

LEMMA UsdToTokenType ==
    ASSUME NEW usd \in Nat, NEW q \in Quote
    PROVE  UsdToToken(usd, q) \in U64
<1>1. q.price \in Int /\ Shift(q) \in Int /\ -Shift(q) \in Int
    BY ShiftType
<1>2. CASE q.price <= 0
    BY <1>2, WidthAssumption DEF UsdToToken, U64
<1>3. CASE q.price > 0 /\ Shift(q) >= 0
  <2> DEFINE unit == SatMul(q.price, CheckedPow10(Shift(q), U128Max))
  <2>1. unit \in Nat \ {0}
    <3>1. q.price * CheckedPow10(Shift(q), U128Max) \in Nat \ {0}
        BY <1>1, <1>3, PowerType
    <3> QED
        BY <3>1, WidthAssumption DEF SatMul, Least
  <2>2. UsdToToken(usd, q) = ToU64(usd \div unit)
      BY <1>1, <1>3 DEF UsdToToken
  <2> HIDE DEF unit
  <2> QED
      BY <2>1, <2>2, Quotient, SaturatingTypes
<1>4. CASE q.price > 0 /\ ~(Shift(q) >= 0)
  <2> DEFINE product == SatMul(usd, CheckedPow10(-Shift(q), 1))
  <2>1. product \in Nat
      BY <1>1, PowerType, Saturated
  <2>2. UsdToToken(usd, q) = ToU64(product \div q.price)
      BY <1>1, <1>4 DEF UsdToToken
  <2> HIDE DEF product
  <2>3. product \div q.price \in Nat
      BY <1>1, <1>4, <2>1, Quotient
  <2> QED
      BY <2>2, <2>3, SaturatingTypes
<1> QED
    BY <1>1, <1>2, <1>3, <1>4

\* Dollars turned into tokens are never worth more than they were, whatever
\* the price and its exponent, also where a product or a power saturates.
LEMMA RoundTripLoses ==
    ASSUME NEW usd \in Nat, NEW q \in Quote
    PROVE  TokenUsd(UsdToToken(usd, q), q) <= usd
<1> DEFINE t == UsdToToken(usd, q)
           p == q.price
           up == CheckedPow10(Shift(q), U128Max)
           down == CheckedPow10(-Shift(q), 1)
<1> SUFFICES TokenUsd(t, q) <= usd
    OBVIOUS
<1>1. /\ p \in Int /\ Shift(q) \in Int /\ t \in Nat
      /\ up \in Nat \ {0} /\ down \in Nat \ {0}
  <2>1. t \in U64
      BY UsdToTokenType
  <2> QED
      BY <2>1, Scales, ShiftType, PowerType
<1>2. CASE p <= 0
  <2>1. t = 0 /\ (IF q.price > 0 THEN q.price ELSE 0) = 0
      BY <1>1, <1>2 DEF UsdToToken
  <2>2. SatMul(0, 0) = 0 /\ SatMul(0, up) = 0
      BY <1>1, WidthAssumption DEF SatMul, Least
  <2>3. 0 \div down = 0
      BY <1>1
  <2>4. TokenUsd(t, q) = 0
      BY <2>1, <2>2, <2>3 DEF TokenUsd
  <2> QED
      BY <2>4
<1>3. CASE p > 0 /\ Shift(q) >= 0
  <2> DEFINE unit == SatMul(p, up)
             raw == SatMul(t, p)
  <2>1. p \in Nat \ {0} /\ p * up \in Nat \ {0}
      BY <1>1, <1>3
  <2>2. unit \in Nat \ {0} /\ (unit = p * up \/ unit = U128Max)
      BY <2>1, WidthAssumption DEF SatMul, Least
  <2>3. t = ToU64(usd \div unit) /\ TokenUsd(t, q) = SatMul(raw, up)
      BY <1>1, <1>3 DEF UsdToToken, TokenUsd
  <2> HIDE DEF t, unit, p, up
  <2>4. t * unit <= usd
    <3>1. t <= usd \div unit
        BY <2>2, <2>3, Quotient, WidthAssumption DEF ToU64, Least
    <3> QED
        BY <1>1, <2>2, <3>1, QuotientIsLargest
  <2>5. raw \in Nat /\ raw <= t * p
      BY <1>1, <2>1, Saturated
  <2> HIDE DEF raw
  <2>6. /\ SatMul(raw, up) \in Nat /\ SatMul(raw, up) <= raw * up
        /\ SatMul(raw, up) <= U128Max
      BY <1>1, <2>5, Saturated
  <2>7. CASE unit = p * up
    <3>1. raw * up \in Nat /\ raw * up <= (t * p) * up
      <4>1. t * p \in Nat
          BY <1>1, <2>1
      <4> QED
          BY <1>1, <2>5, <4>1, ProductMonotone
    <3>2. (t * p) * up = t * (p * up)
        BY <1>1, <2>1
    <3>3. t * (p * up) \in Nat
        BY <1>1, <2>1
    <3> QED
        BY <1>1, <2>3, <2>4, <2>6, <2>7, <3>1, <3>2, <3>3
  <2>8. CASE unit = U128Max
    <3>1. CASE t = 0
      <4>1. t * p = 0
          BY <2>1, <3>1
      <4>2. raw = 0
          BY <2>5, <4>1
      <4>3. raw * up = 0
          BY <1>1, <4>2
      <4> QED
          BY <1>1, <2>3, <2>6, <4>3
    <3>2. CASE t > 0
      <4>1. 1 * unit <= t * unit
          BY <1>1, <2>2, <3>2, ProductMonotone
      <4>2. t * unit \in Nat /\ 1 * unit = unit
          BY <1>1, <2>2
      <4> QED
          BY <2>2, <2>3, <2>4, <2>6, <2>8, <4>1, <4>2, WidthAssumption
    <3> QED
        BY <1>1, <3>1, <3>2
  <2> QED
      BY <2>2, <2>7, <2>8
<1>4. CASE p > 0 /\ ~(Shift(q) >= 0)
  <2> DEFINE product == SatMul(usd, down)
             raw == SatMul(t, p)
  <2>1. p \in Nat \ {0}
      BY <1>1, <1>4
  <2>2. t = ToU64(product \div p) /\ TokenUsd(t, q) = raw \div down
      BY <1>1, <1>4 DEF UsdToToken, TokenUsd
  <2> HIDE DEF t, p, down
  <2>3. product \in Nat /\ product <= usd * down /\ raw \in Nat /\ raw <= t * p
      BY <1>1, <2>1, Saturated
  <2> HIDE DEF product, raw
  <2>4. t * p <= product
    <3>1. t <= product \div p
        BY <2>1, <2>2, <2>3, Quotient, WidthAssumption DEF ToU64, Least
    <3> QED
        BY <1>1, <2>1, <2>3, <3>1, QuotientIsLargest
  <2>5. raw <= usd * down
    <3>1. t * p \in Nat /\ usd * down \in Nat
        BY <1>1, <2>1
    <3> QED
        BY <2>3, <2>4, <3>1
  <2>6. raw \div down \in Nat /\ (raw \div down) * down <= raw
      BY <1>1, <2>3, Quotient
  <2>7. (raw \div down) * down <= usd * down
    <3>1. (raw \div down) * down \in Nat /\ usd * down \in Nat
        BY <1>1, <2>6
    <3> QED
        BY <2>3, <2>5, <2>6, <3>1
  <2>8. raw \div down <= usd
      BY <1>1, <2>6, <2>7, ProductCancels
  <2> QED
      BY <2>2, <2>8
<1> QED
    BY <1>1, <1>2, <1>3, <1>4

\* What liquidate lets a liquidator take for r is worth r and the bonus at most.
LEMMA SeizureWorth ==
    ASSUME NEW r \in Nat, NEW dq \in Quote, NEW cq \in Quote
    PROVE  /\ SeizeFor(r, dq, cq) \in U64
           /\ TokenUsd(SeizeFor(r, dq, cq), cq) * BpsDenominator
                <= TokenUsd(r, dq) * (BpsDenominator + LiquidationBonusBps)
<1> DEFINE worth == TokenUsd(r, dq)
           factor == BpsDenominator + LiquidationBonusBps
           usd == SatMul(worth, factor) \div BpsDenominator
           seize == SeizeFor(r, dq, cq)
<1>1. /\ worth \in Nat /\ factor \in Nat /\ BpsDenominator \in Nat \ {0}
    BY ScaleAssumption, TokenUsdMonotone
<1>2. seize = UsdToToken(usd, cq)
    BY DEF SeizeFor
<1> HIDE DEF worth, factor, seize
<1>3. /\ SatMul(worth, factor) \in Nat /\ SatMul(worth, factor) <= worth * factor
      /\ usd \in Nat /\ usd * BpsDenominator <= SatMul(worth, factor)
    BY <1>1, Saturated, Quotient
<1> HIDE DEF usd
<1>4. seize \in U64 /\ TokenUsd(seize, cq) <= usd
    BY <1>2, <1>3, UsdToTokenType, RoundTripLoses
<1>5. TokenUsd(seize, cq) \in Nat
    BY <1>4, Scales, TokenUsdMonotone
<1>6. TokenUsd(seize, cq) * BpsDenominator <= usd * BpsDenominator
    BY <1>1, <1>3, <1>4, <1>5, ProductMonotone
<1>7. /\ TokenUsd(seize, cq) * BpsDenominator \in Nat
      /\ usd * BpsDenominator \in Nat /\ worth * factor \in Nat
    BY <1>1, <1>3, <1>5
<1>8. TokenUsd(seize, cq) * BpsDenominator <= worth * factor
    BY <1>3, <1>6, <1>7
<1> QED
    BY <1>4, <1>8 DEF worth, factor, seize

-----------------------------------------------------------------------------
(* What a change of an amount does to its value.                           *)

LEMMA SatMulClimbs ==
    ASSUME NEW a \in Nat, NEW b \in Nat, NEW c \in Nat
    PROVE  SatMul(a + b, c) <= SatMul(a, c) + b * c
<1>1. a * c \in Nat /\ b * c \in Nat /\ (a + b) * c = a * c + b * c
    OBVIOUS
<1>2. U128Max \in Nat
    BY WidthAssumption
<1> DEFINE x == a * c
           y == b * c
<1>3. x \in Nat /\ y \in Nat /\ (a + b) * c = x + y
    BY <1>1
<1>4. SatMul(a + b, c) = Least((a + b) * c, U128Max) /\ SatMul(a, c) = Least(x, U128Max)
    BY DEF SatMul
<1> SUFFICES Least(x + y, U128Max) <= Least(x, U128Max) + y
    BY <1>3, <1>4
<1> HIDE DEF x, y
<1> QED
    BY <1>2, <1>3 DEF Least

LEMMA QuotientPlus ==
    ASSUME NEW a \in Nat, NEW b \in Nat, NEW n \in Nat, NEW c \in Nat \ {0}, a <= b + n * c
    PROVE  a \div c <= b \div c + n
<1>1. n * c \in Nat /\ b + n * c \in Nat
    OBVIOUS
<1>2. a \div c <= (b + n * c) \div c
    BY <1>1, QuotientMonotone
<1>3. (b + n * c) \div c = b \div c + n
    OBVIOUS
<1> QED
    BY <1>2, <1>3

LEMMA QuotientsAdd ==
    ASSUME NEW a \in Nat, NEW b \in Nat, NEW c \in Nat \ {0}
    PROVE  a \div c + b \div c <= (a + b) \div c
<1>1. /\ a \div c \in Nat /\ (a \div c) * c <= a
      /\ b \div c \in Nat /\ (b \div c) * c <= b
    BY Quotient
<1>2. (a \div c + b \div c) * c = (a \div c) * c + (b \div c) * c
    BY <1>1
<1>3. (a \div c + b \div c) * c <= a + b
    BY <1>1, <1>2
<1> QED
    BY <1>1, <1>3, QuotientIsLargest

\* What a price that is not positive makes of any amount.
LEMMA WorthlessAtNoPrice ==
    ASSUME NEW a \in Nat, NEW q \in Quote, q.price <= 0
    PROVE  TokenUsd(a, q) = 0
<1> DEFINE up == CheckedPow10(Shift(q), U128Max)
           down == CheckedPow10(-Shift(q), 1)
<1>1. up \in Nat \ {0} /\ down \in Nat \ {0} /\ q.price \in Int
    BY ShiftType, PowerType
<1>2. TokenUsd(a, q) = IF Shift(q) >= 0 THEN SatMul(SatMul(a, 0), up)
                       ELSE SatMul(a, 0) \div down
    BY <1>1 DEF TokenUsd
<1> HIDE DEF up, down
<1>3. SatMul(a, 0) = 0 /\ SatMul(0, up) = 0
    BY <1>1, WidthAssumption DEF SatMul, Least
<1>4. 0 \div down = 0
    BY <1>1
<1> QED
    BY <1>2, <1>3, <1>4

\* And what a positive one makes of it.
LEMMA WorthAtPrice ==
    ASSUME NEW q \in Quote, q.price > 0
    PROVE  \E up \in Nat \ {0}, down \in Nat \ {0} :
              /\ up = CheckedPow10(Shift(q), U128Max)
              /\ down = CheckedPow10(-Shift(q), 1)
              /\ \A a \in Nat :
                    /\ SatMul(a, q.price) \in Nat
                    /\ TokenUsd(a, q) = IF Shift(q) >= 0
                                        THEN SatMul(SatMul(a, q.price), up)
                                        ELSE SatMul(a, q.price) \div down
<1> DEFINE up == CheckedPow10(Shift(q), U128Max)
           down == CheckedPow10(-Shift(q), 1)
<1>1. up \in Nat \ {0} /\ down \in Nat \ {0} /\ q.price \in Nat
    BY ShiftType, PowerType
<1>2. ASSUME NEW a \in Nat
      PROVE  /\ SatMul(a, q.price) \in Nat
             /\ TokenUsd(a, q) = IF Shift(q) >= 0 THEN SatMul(SatMul(a, q.price), up)
                                 ELSE SatMul(a, q.price) \div down
    BY <1>1, Saturated DEF TokenUsd
<1> HIDE DEF up, down
<1> QED
    BY <1>1, <1>2 DEF up, down

\* Taking no more tokens than some dollars buy lowers a value by no more than
\* those dollars: what the quotients drop on both ways never adds up to one.
LEMMA SeizureLowers ==
    ASSUME NEW s \in Nat, NEW z \in Nat, NEW usd \in U128, NEW q \in Quote,
           z <= UsdToToken(usd, q)
    PROVE  TokenUsd(s + z, q) <= TokenUsd(s, q) + usd
<1> DEFINE p == q.price
<1>1. usd \in Nat /\ usd <= U128Max /\ p \in Int /\ Shift(q) \in Int /\ U128Max \in Nat
    BY WidthAssumption, ShiftType DEF U128
<1>2. CASE p <= 0
    BY <1>1, <1>2, WorthlessAtNoPrice
<1>3. CASE p > 0
  <2>1. PICK up \in Nat \ {0}, down \in Nat \ {0} :
              /\ up = CheckedPow10(Shift(q), U128Max)
              /\ down = CheckedPow10(-Shift(q), 1)
              /\ \A a \in Nat :
                    /\ SatMul(a, p) \in Nat
                    /\ TokenUsd(a, q) = IF Shift(q) >= 0 THEN SatMul(SatMul(a, p), up)
                                        ELSE SatMul(a, p) \div down
      BY <1>3, WorthAtPrice
  <2> DEFINE raw == SatMul(s, p)
             high == SatMul(s + z, p)
  <2>2. /\ raw \in Nat /\ high \in Nat /\ p \in Nat \ {0} /\ z * p \in Nat
        /\ high <= raw + z * p
    <3>1. p \in Nat \ {0} /\ s + z \in Nat
        BY <1>1, <1>3
    <3>2. SatMul(s + z, p) <= SatMul(s, p) + z * p
        BY <3>1, SatMulClimbs
    <3> QED
        BY <2>1, <3>1, <3>2
  <2>3. /\ TokenUsd(s, q) = IF Shift(q) >= 0 THEN SatMul(raw, up) ELSE raw \div down
        /\ TokenUsd(s + z, q) = IF Shift(q) >= 0 THEN SatMul(high, up) ELSE high \div down
      BY <2>1
  <2> HIDE DEF raw, high
  <2>4. CASE Shift(q) >= 0
    <3> DEFINE unit == SatMul(p, up)
    <3>1. p * up \in Nat \ {0}
        BY <2>2
    <3>2. unit \in Nat \ {0} /\ (unit = p * up \/ unit = U128Max)
        BY <3>1, WidthAssumption DEF SatMul, Least
    <3>3. UsdToToken(usd, q) = ToU64(usd \div unit)
        BY <1>1, <1>3, <2>1, <2>4 DEF UsdToToken
    <3> HIDE DEF unit
    <3>4. z * unit <= usd
      <4>1. usd \div unit \in Nat
          BY <1>1, <3>2, Quotient
      <4>2. z <= usd \div unit
          BY <3>3, <4>1, WidthAssumption DEF ToU64, Least
      <4> QED
          BY <1>1, <3>2, <4>2, QuotientIsLargest
    <3>5. /\ SatMul(raw, up) \in Nat /\ SatMul(high, up) \in Nat
          /\ SatMul(high, up) <= U128Max
        BY <2>2, Saturated
    <3>6. CASE unit = p * up
      <4>1. /\ (z * p) * up \in Nat /\ raw + z * p \in Nat
            /\ SatMul(raw + z * p, up) \in Nat
        <5>1. (z * p) * up \in Nat /\ raw + z * p \in Nat
            BY <2>2
        <5> QED
            BY <5>1, Saturated
      <4>2. SatMul(high, up) <= SatMul(raw + z * p, up)
          BY <2>2, <4>1, SatMulMonotone
      <4>3. SatMul(raw + z * p, up) <= SatMul(raw, up) + (z * p) * up
          BY <2>2, SatMulClimbs
      <4>4. (z * p) * up = z * (p * up)
          BY <2>2
      <4>5. (z * p) * up <= usd
          BY <3>4, <3>6, <4>4
      <4>6. SatMul(high, up) <= SatMul(raw, up) + usd
          BY <1>1, <3>5, <4>1, <4>2, <4>3, <4>5
      <4> QED
          BY <2>3, <2>4, <4>6
    <3>7. CASE unit = U128Max
      <4>1. CASE z = 0
          BY <1>1, <2>3, <2>4, <3>5, <4>1
      <4>2. CASE z >= 1
        <5>1. 1 * U128Max <= z * U128Max
            BY <1>1, <4>2, ProductMonotone
        <5>2. z * U128Max \in Nat
            BY <1>1
        <5>3. U128Max <= usd
            BY <1>1, <3>4, <3>7, <5>1, <5>2
        <5> QED
            BY <1>1, <2>3, <2>4, <3>5, <5>3
      <4> QED
          BY <4>1, <4>2
    <3> QED
        BY <3>2, <3>6, <3>7
  <2>5. CASE ~(Shift(q) >= 0)
    <3> DEFINE product == SatMul(usd, down)
    <3>1. product \in Nat /\ product <= usd * down /\ usd * down \in Nat
      <4>1. usd * down \in Nat
          BY <1>1
      <4> QED
          BY <1>1, <4>1, Saturated
    <3>2. UsdToToken(usd, q) = ToU64(product \div p)
        BY <1>1, <1>3, <2>1, <2>5 DEF UsdToToken
    <3> HIDE DEF product
    <3>3. z * p <= product
      <4>1. product \div p \in Nat
          BY <2>2, <3>1, Quotient
      <4>2. z <= product \div p
          BY <3>2, <4>1, WidthAssumption DEF ToU64, Least
      <4> QED
          BY <2>2, <3>1, <4>2, QuotientIsLargest
    <3>4. high <= raw + usd * down
        BY <2>2, <3>1, <3>3
    <3>5. high \div down <= raw \div down + usd
        BY <1>1, <2>2, <3>4, QuotientPlus
    <3> QED
        BY <2>3, <2>5, <3>5
  <2> QED
      BY <2>4, <2>5
<1> QED
    BY <1>1, <1>2, <1>3

\* Where LTV times bonus is at most one, a seizure takes no more out of the
\* collateral than the repayment takes off the debt, rounding included.
LEMMA CollateralFalls ==
    ASSUME NEW s \in Nat, NEW z \in Nat, NEW r \in Nat, NEW dq \in Quote, NEW q \in Quote,
           NEW ltv \in Nat, z <= SeizeFor(r, dq, q),
           ltv * (BpsDenominator + LiquidationBonusBps) <= BpsDenominator * BpsDenominator
    PROVE  CollateralAtLtv(s + z, q, ltv) <= CollateralAtLtv(s, q, ltv) + TokenUsd(r, dq)
<1> DEFINE v == TokenUsd(r, dq)
           one == BpsDenominator
           factor == BpsDenominator + LiquidationBonusBps
           usd == SatMul(v, factor) \div one
           w == TokenUsd(s, q)
           high == TokenUsd(s + z, q)
<1>1. /\ v \in Nat /\ w \in Nat /\ high \in Nat
      /\ one \in Nat \ {0} /\ factor \in Nat
    BY ScaleAssumption, TokenUsdMonotone
<1>2. usd \in U128 /\ usd \in Nat /\ usd * one <= v * factor
  <2>1. /\ SatMul(v, factor) \in Nat /\ SatMul(v, factor) <= U128Max
        /\ SatMul(v, factor) <= v * factor
      BY <1>1, Saturated
  <2>2. usd \in Nat /\ usd * one <= SatMul(v, factor) /\ usd <= SatMul(v, factor)
      BY <1>1, <2>1, Quotient, QuotientSmaller
  <2>3. v * factor \in Nat /\ usd * one \in Nat
      BY <1>1, <2>2
  <2> QED
      BY <2>1, <2>2, <2>3, WidthAssumption DEF U128
<1>3. high <= w + usd
  <2>1. z <= UsdToToken(usd, q)
      BY DEF SeizeFor
  <2> QED
      BY <1>2, <2>1, SeizureLowers
<1>4. /\ CollateralAtLtv(s, q, ltv) = SatMul(w, ltv) \div one
      /\ CollateralAtLtv(s + z, q, ltv) = SatMul(high, ltv) \div one
    BY DEF CollateralAtLtv
<1>5. ltv * factor <= one * one
    OBVIOUS
<1> HIDE DEF v, one, factor, usd, w, high
<1>6. usd * ltv <= v * one
  <2>1. /\ usd * one \in Nat /\ v * factor \in Nat /\ usd * ltv \in Nat /\ v * one \in Nat
        /\ ltv * factor \in Nat /\ one * one \in Nat
      BY <1>1, <1>2
  <2>2. (usd * one) * ltv <= (v * factor) * ltv
      BY <1>2, <2>1, ProductMonotone
  <2>3. (ltv * factor) * v <= (one * one) * v
      BY <1>1, <1>5, <2>1, ProductMonotone
  <2>4. (usd * one) * ltv = (usd * ltv) * one /\ (v * factor) * ltv = (ltv * factor) * v
      BY <1>1, <1>2
  <2>5. (one * one) * v = (v * one) * one
      BY <1>1
  <2>6. (usd * ltv) * one \in Nat /\ (ltv * factor) * v \in Nat /\ (v * one) * one \in Nat
      BY <1>1, <2>1
  <2>7. (usd * ltv) * one <= (v * one) * one
      BY <2>2, <2>3, <2>4, <2>5, <2>6
  <2> QED
      BY <1>1, <2>1, <2>7, ProductCancels
<1>7. SatMul(high, ltv) <= SatMul(w, ltv) + v * one
  <2>1. /\ SatMul(high, ltv) \in Nat /\ SatMul(w, ltv) \in Nat
        /\ SatMul(w + usd, ltv) \in Nat /\ usd * ltv \in Nat /\ v * one \in Nat
    <3>1. w + usd \in Nat /\ usd * ltv \in Nat /\ v * one \in Nat
        BY <1>1, <1>2
    <3> QED
        BY <1>1, <3>1, Saturated
  <2>2. SatMul(high, ltv) <= SatMul(w + usd, ltv)
      BY <1>1, <1>2, <1>3, SatMulMonotone
  <2>3. SatMul(w + usd, ltv) <= SatMul(w, ltv) + usd * ltv
      BY <1>1, <1>2, SatMulClimbs
  <2> QED
      BY <1>6, <2>1, <2>2, <2>3
<1>8. SatMul(high, ltv) \div one <= SatMul(w, ltv) \div one + v
  <2>1. SatMul(high, ltv) \in Nat /\ SatMul(w, ltv) \in Nat
      BY <1>1, Saturated
  <2> QED
      BY <1>1, <1>7, <2>1, QuotientPlus
<1> QED
    BY <1>4, <1>8 DEF v

\* Two parts of an amount are worth no more apart than together, while nothing
\* saturates.
LEMMA TokenUsdAdds ==
    ASSUME NEW a \in Nat, NEW b \in Nat, NEW q \in Quote,
           (a + b) * q.price <= U128Max, TokenUsd(a + b, q) < U128Max
    PROVE  TokenUsd(a, q) + TokenUsd(b, q) <= TokenUsd(a + b, q)
<1> DEFINE p == q.price
<1>1. p \in Int /\ Shift(q) \in Int /\ a + b \in Nat
    BY ShiftType
<1>2. CASE p <= 0
    BY <1>1, <1>2, WorthlessAtNoPrice
<1>3. CASE p > 0
  <2>1. PICK up \in Nat \ {0}, down \in Nat \ {0} :
              \A n \in Nat :
                    /\ SatMul(n, p) \in Nat
                    /\ TokenUsd(n, q) = IF Shift(q) >= 0 THEN SatMul(SatMul(n, p), up)
                                        ELSE SatMul(n, p) \div down
      BY <1>3, WorthAtPrice
  <2> DEFINE x == a * p
             y == b * p
  <2>2. /\ x \in Nat /\ y \in Nat /\ (a + b) * p = x + y /\ p \in Nat
      BY <1>1, <1>3
  <2>3. SatMul(a + b, p) = x + y /\ SatMul(a, p) <= x /\ SatMul(b, p) <= y
      BY <1>1, <2>2, Saturated
  <2>4. SatMul(a, p) = x /\ SatMul(b, p) = y
    <3>1. x <= U128Max /\ y <= U128Max
        BY <2>2, WidthAssumption
    <3> QED
        BY <2>2, <3>1, Saturated
  <2> HIDE DEF x, y
  <2>5. CASE Shift(q) >= 0
    <3>1. TokenUsd(a + b, q) = SatMul(x + y, up)
        BY <1>1, <2>1, <2>3, <2>5
    <3>2. SatMul(x + y, up) = (x + y) * up
        BY <2>2, <3>1, WidthAssumption DEF SatMul, Least
    <3>3. (x + y) * up = x * up + y * up /\ x * up \in Nat /\ y * up \in Nat
        BY <2>2
    <3>4. /\ SatMul(x, up) <= x * up /\ SatMul(y, up) <= y * up
          /\ SatMul(x, up) \in Nat /\ SatMul(y, up) \in Nat
        BY <2>2, Saturated
    <3>5. TokenUsd(a, q) = SatMul(x, up) /\ TokenUsd(b, q) = SatMul(y, up)
        BY <2>1, <2>4, <2>5
    <3> QED
        BY <3>1, <3>2, <3>3, <3>4, <3>5
  <2>6. CASE ~(Shift(q) >= 0)
    <3>1. /\ TokenUsd(a + b, q) = (x + y) \div down
          /\ TokenUsd(a, q) = x \div down /\ TokenUsd(b, q) = y \div down
        BY <1>1, <2>1, <2>3, <2>4, <2>6
    <3> QED
        BY <2>2, <3>1, QuotientsAdd
  <2> QED
      BY <2>5, <2>6
<1> QED
    BY <1>1, <1>2, <1>3

===============================================================================
