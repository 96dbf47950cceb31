----------------------------- MODULE AccrualProofs -----------------------------
(***************************************************************************)
(* What one debt grows to, and how circuits and program judge it, for all  *)
(* rates, widths and histories.                                            *)
(***************************************************************************)
EXTENDS Accrual, ShadowMathProofs

-----------------------------------------------------------------------------
(* The index and the debt.                                                 *)

LEMMA RateType ==
    ASSUME rateBps \in Nat
    PROVE  Rate \in Nat
<1>1. RateScale \div BpsDenominator \in Nat
    BY Scales, Quotient
<1> QED
    BY <1>1 DEF Rate

\* accrue_market never lowers the index.
LEMMA IndexGrows ==
    ASSUME AccrualInv
    PROVE  CurrentIndex \in U128 /\ index <= CurrentIndex
<1>1. index \in Nat /\ index <= U128Max /\ slot \in Nat /\ lastSlot \in Nat /\ Rate \in Nat
    BY RateType, WidthAssumption DEF AccrualInv, U128
<1>2. CASE slot <= lastSlot
    BY <1>1, <1>2 DEF CurrentIndex, AccrualInv
<1>3. CASE slot > lastSlot
  <2>1. slot - lastSlot \in Nat
      BY <1>1, <1>3
  <2>2. CurrentIndex = GrownIndex(index, Rate, slot - lastSlot)
      BY <1>1, <1>3 DEF CurrentIndex
  <2> QED
      BY <1>1, <2>1, <2>2, IndexNeverFalls DEF AccrualInv
<1> QED
    BY <1>1, <1>2, <1>3

\* A debt, restated at the index of the moment, is at most its share of it.
LEMMA DebtIsShare ==
    ASSUME AccrualInv
    PROVE  Debt \in U64 /\ Debt * RateScale <= principal * CurrentIndex
<1> DEFINE i == CurrentIndex
<1>0. i \in U128 /\ index <= i
    BY IndexGrows
<1> HIDE DEF i
<1>1. /\ borrowed \in U64 /\ borrowed \in Nat /\ principal \in Nat
      /\ snapshot \in Nat \ {0} /\ i \in Nat /\ snapshot <= i
      /\ borrowed * RateScale <= principal * snapshot
  <2>1. /\ borrowed \in U64 /\ principal \in U64 /\ snapshot \in 1..index /\ index \in U128
        /\ borrowed * RateScale <= principal * snapshot
      BY DEF AccrualInv
  <2>2. index \in Nat /\ i \in Nat /\ borrowed \in Nat /\ principal \in Nat
      BY <1>0, <2>1, Scales
  <2>3. snapshot \in Nat \ {0} /\ snapshot <= i
      BY <1>0, <2>1, <2>2
  <2> QED
      BY <2>1, <2>2, <2>3
<1>2. CASE borrowed = 0 \/ snapshot = i
  <2>1. Debt = borrowed
      BY <1>2 DEF Debt, RestatedDebt, i
  <2>2. borrowed * RateScale <= principal * i
    <3>1. CASE borrowed = 0
      <4>1. borrowed * RateScale = 0 /\ principal * i \in Nat
          BY <1>1, <3>1, Scales
      <4> QED
          BY <4>1
    <3>2. CASE snapshot = i
        BY <1>1, <3>2
    <3> QED
        BY <1>2, <3>1, <3>2
  <2> QED
      BY <1>1, <2>1, <2>2 DEF i
<1>3. CASE ~(borrowed = 0 \/ snapshot = i)
  <2> DEFINE product == SatMul(borrowed, i)
             q == product \div snapshot
  <2>1. product \in Nat /\ product <= borrowed * i
      BY <1>1, Saturated
  <2>2. Debt = ToU64(q)
      BY <1>1, <1>3 DEF Debt, RestatedDebt, i
  <2>3. q \in Nat /\ q * snapshot <= product
      BY <1>1, <2>1, Quotient
  <2> HIDE DEF q, product
  <2>4. Debt \in U64 /\ Debt <= q
      BY <2>2, <2>3, WidthAssumption DEF ToU64, Least, U64
  <2>5. Debt \in Nat
      BY <2>4, Scales
  <2>6. Debt * snapshot \in Nat /\ Debt * snapshot <= q * snapshot
      BY <1>1, <2>3, <2>4, <2>5, ProductMonotone
  <2>7. borrowed * i \in Nat /\ q * snapshot \in Nat
      BY <1>1, <2>3
  <2>8. Debt * snapshot <= borrowed * i
      BY <2>1, <2>3, <2>6, <2>7
  <2>9. Debt * RateScale <= principal * i
      BY <1>1, <2>5, <2>8, Scales, ShareOfShare
  <2> QED
      BY <2>4, <2>9 DEF i
<1> QED
    BY <1>2, <1>3

\* So it is at most what the principal would have become.
LEMMA ShareIsFree ==
    ASSUME AccrualInv
    PROVE  TouchingIsFree
<1> DEFINE i == CurrentIndex
<1>1. /\ principal \in Nat /\ principal \in U64 /\ i \in Nat /\ Debt \in Nat /\ Debt <= U64Max
      /\ RateScale \in Nat \ {0} /\ U64Max \in Nat /\ U128Max \in Nat
      /\ Debt * RateScale <= principal * i
  <2>1. i \in U128 /\ Debt \in U64 /\ Debt * RateScale <= principal * i
      BY IndexGrows, DebtIsShare
  <2>2. principal \in U64
      BY DEF AccrualInv
  <2> HIDE DEF i
  <2>3. i \in Nat /\ Debt \in Nat /\ principal \in Nat
      BY <2>1, <2>2, Scales
  <2>4. Debt <= U64Max /\ U64Max \in Nat /\ U128Max \in Nat
      BY <2>1, WidthAssumption DEF U64
  <2> QED
      BY <2>1, <2>2, <2>3, <2>4, Scales
<1> HIDE DEF i
<1>2. CASE principal = 0 \/ i = RateScale
  <2>1. Untouched = principal
      BY <1>1, <1>2 DEF Untouched, RestatedDebt, i
  <2>2. Debt * RateScale <= principal * RateScale
    <3>1. CASE principal = 0
      <4>1. principal * i = 0 /\ principal * RateScale = 0
          BY <1>1, <3>1
      <4> QED
          BY <1>1, <4>1
    <3>2. CASE i = RateScale
        BY <1>1, <3>2
    <3> QED
        BY <1>2, <3>1, <3>2
  <2>3. Debt <= principal
      BY <1>1, <2>2, ProductCancels
  <2> QED
      BY <2>1, <2>3 DEF TouchingIsFree
<1>3. CASE ~(principal = 0 \/ i = RateScale)
  <2> DEFINE product == SatMul(principal, i)
  <2>1. Untouched = ToU64(product \div RateScale)
      BY <1>1, <1>3 DEF Untouched, RestatedDebt, i
  <2>2. product \in Nat
      BY <1>1, Saturated
  <2>3. Debt * RateScale <= U128Max
    <3>1. Debt * RateScale <= U64Max * RateScale
        BY <1>1, ProductMonotone
    <3>2. U64Max * RateScale <= U128Max /\ Debt * RateScale \in Nat /\ U64Max * RateScale \in Nat
        BY <1>1, AccrualAssumption
    <3> QED
        BY <1>1, <3>1, <3>2
  <2>4. Debt * RateScale <= product
      BY <1>1, <2>3 DEF SatMul, Least
  <2> HIDE DEF product
  <2>5. Debt <= product \div RateScale
      BY <1>1, <2>2, <2>4, QuotientIsLargest
  <2>6. product \div RateScale \in Nat
      BY <1>1, <2>2, Quotient
  <2>7. Debt <= ToU64(product \div RateScale)
      BY <1>1, <2>5, <2>6 DEF ToU64, Least
  <2> QED
      BY <2>1, <2>7 DEF TouchingIsFree
<1> QED
    BY <1>2, <1>3

\* Circuits and program compare the same numbers, at any limit.
LEMMA SameVerdict ==
    ASSUME NEW c \in Nat, NEW f \in Nat, NEW d \in Nat, c * f <= U128Max
    PROVE  /\ CheckLtv(c, d, f) <=> d <= SatMul(c, f) \div BpsDenominator
           /\ CheckLiquidatable(c, d, f) <=> d > SatMul(c, f) \div BpsDenominator
<1>1. c * f \in Nat /\ SatMul(c, f) = c * f
    BY Saturated
<1>2. d * BpsDenominator <= c * f <=> d <= (c * f) \div BpsDenominator
    BY <1>1, Scales, QuotientIsLargest
<1>3. (c * f) \div BpsDenominator \in Nat /\ d * BpsDenominator \in Nat
    BY <1>1, Scales, Quotient
<1>4. c * f < d * BpsDenominator <=> ~(d * BpsDenominator <= c * f)
    BY <1>1, <1>3
<1>5. d > (c * f) \div BpsDenominator <=> ~(d <= (c * f) \div BpsDenominator)
    BY <1>3
<1> QED
    BY <1>1, <1>2, <1>4, <1>5 DEF CheckLtv, CheckLiquidatable

-----------------------------------------------------------------------------
(* The theorems.                                                           *)

LEMMA InitAccrual == Init => AccrualInv
<1> SUFFICES ASSUME Init
             PROVE  AccrualInv
    OBVIOUS
<1>1. /\ principal \in U64 /\ rateBps \in Nat /\ slot = 0 /\ lastSlot = 0
      /\ index = RateScale /\ snapshot = RateScale /\ borrowed = principal
    BY AccrualAssumption DEF Init
<1>2. RateScale \in U128 /\ RateScale \in 1..RateScale
    BY WidthAssumption, ScaleAssumption DEF U128
<1>3. borrowed * RateScale <= principal * snapshot
    BY <1>1, Scales
<1> QED
    BY <1>1, <1>2, <1>3 DEF AccrualInv

LEMMA StepAccrual == AccrualInv /\ [Next]_vars => AccrualInv'
<1> SUFFICES ASSUME AccrualInv, [Next]_vars
             PROVE  AccrualInv'
    OBVIOUS
<1>1. /\ principal \in U64 /\ rateBps \in Nat /\ slot \in Nat /\ lastSlot \in Nat
      /\ index \in U128 /\ snapshot \in 1..index /\ borrowed \in U64
      /\ borrowed * RateScale <= principal * snapshot
    BY DEF AccrualInv
<1>2. CurrentIndex \in U128 /\ index <= CurrentIndex
    BY IndexGrows
<1>3. index \in Nat /\ CurrentIndex \in Nat /\ snapshot \in Nat
    BY <1>1, <1>2, Scales
<1>4. CASE Tick
  <2>1. slot' = slot + 1 /\ UNCHANGED <<principal, rateBps, index, lastSlot, borrowed, snapshot>>
      BY <1>4 DEF Tick
  <2> QED
      BY <1>1, <2>1 DEF AccrualInv
<1>5. CASE UseMarket
  <2>1. /\ index' = CurrentIndex /\ lastSlot' = slot
        /\ UNCHANGED <<principal, rateBps, slot, borrowed, snapshot>>
      BY <1>5 DEF UseMarket, AccrueMarket
  <2>2. snapshot \in 1..CurrentIndex
      BY <1>1, <1>2, <1>3
  <2> QED
      BY <1>1, <1>2, <2>1, <2>2 DEF AccrualInv
<1>6. CASE AccruePosition
  <2>1. /\ index' = CurrentIndex /\ lastSlot' = slot
        /\ borrowed' = Debt /\ snapshot' = CurrentIndex
        /\ UNCHANGED <<principal, rateBps, slot>>
      BY <1>6 DEF AccruePosition, AccrueMarket
  <2>2. CurrentIndex \in 1..CurrentIndex
      BY <1>1, <1>2, <1>3
  <2>3. Debt \in U64 /\ Debt * RateScale <= principal * CurrentIndex
      BY DebtIsShare
  <2> QED
      BY <1>1, <1>2, <2>1, <2>2, <2>3 DEF AccrualInv
<1>7. CASE UNCHANGED vars
    BY <1>1, <1>7 DEF vars, AccrualInv
<1> QED
    BY <1>4, <1>5, <1>6, <1>7 DEF Next

\* The inductive invariant: a debt is never more than its share of the index.
THEOREM AccrualInvariant == Spec => []AccrualInv
BY InitAccrual, StepAccrual, PTL DEF Spec

\* Whoever touches a position, and however often, its owner owes no more than
\* the untouched principal would have become.
THEOREM TouchingAlwaysFree == Spec => []TouchingIsFree
<1>1. AccrualInv => TouchingIsFree
    BY ShareIsFree
<1> QED
    BY <1>1, AccrualInvariant, PTL

\* check_ltv and check_liquidatable judge every debt as the program's health
\* check does.
THEOREM CircuitsAlwaysJudgeAlike == Spec => []CircuitsJudgeAlike
<1>1. AccrualInv => CircuitsJudgeAlike
  <2> SUFFICES ASSUME AccrualInv
               PROVE  CircuitsJudgeAlike
      OBVIOUS
  <2>1. Debt \in Nat
      BY DebtIsShare, Scales
  <2>2. Collateral \in Nat /\ Factor \in Nat /\ Collateral * Factor <= U128Max
      BY AccrualAssumption
  <2> QED
      BY <2>1, <2>2, SameVerdict DEF CircuitsJudgeAlike
<1> QED
    BY <1>1, AccrualInvariant, PTL

-----------------------------------------------------------------------------
(* A debt's history, while nothing saturates at 128 bits.                  *)

\* What accrue_market multiplies and adds in u128.
GrowthFits ==
    LET grown == (index * Rate) * (slot - lastSlot)
    IN  /\ index * Rate <= U128Max
        /\ grown <= U128Max
        /\ index + grown \div RateScale <= U128Max

\* What accrue_position multiplies in u128.
DebtFits == borrowed * CurrentIndex <= U128Max

\* Simple interest since slot 0 is in the index; a market nobody has accrued
\* and a debt nobody has restated are as they began.
SimpleInv ==
    /\ lastSlot <= slot
    /\ RateScale + lastSlot * Rate <= index
    /\ lastSlot = 0 => /\ index = RateScale /\ snapshot = RateScale
                       /\ borrowed = principal

\* Each slot in which the debt was restated has lost it less than one unit,
\* which would have grown with the index since.  A debt dated before the index
\* moved was not restated in the last of lastSlot slots.
Losses == IF snapshot = index THEN lastSlot ELSE lastSlot - 1

RoundedInv ==
    /\ lastSlot <= slot
    /\ RateScale <= snapshot
    /\ snapshot # index => lastSlot > 0
    /\ \/ borrowed = U64Max
       \/ principal * snapshot <= borrowed * RateScale + Losses * snapshot

\* The numbers all of them speak of.
LEMMA AccrualTypes ==
    ASSUME AccrualInv
    PROVE  /\ principal \in Nat /\ borrowed \in Nat /\ rateBps \in Nat /\ Rate \in Nat
           /\ slot \in Nat /\ lastSlot \in Nat
           /\ index \in Nat /\ CurrentIndex \in Nat /\ snapshot \in Nat \ {0}
           /\ snapshot <= index /\ index <= CurrentIndex
<1>1. /\ principal \in U64 /\ borrowed \in U64 /\ rateBps \in Nat
      /\ slot \in Nat /\ lastSlot \in Nat
      /\ index \in U128 /\ snapshot \in 1..index
    BY DEF AccrualInv
<1>2. CurrentIndex \in U128 /\ index <= CurrentIndex
    BY IndexGrows
<1>3. /\ principal \in Nat /\ borrowed \in Nat /\ index \in Nat /\ CurrentIndex \in Nat
    BY <1>1, <1>2, Scales
<1> QED
    BY <1>1, <1>2, <1>3, RateType

\* An untroubled accrual adds the interest of the slots it catches up with.
LEMMA UncutIndex ==
    ASSUME AccrualInv, GrowthFits, lastSlot <= slot
    PROVE  CurrentIndex = index + ((index * Rate) * (slot - lastSlot)) \div RateScale
<1>1. /\ index \in Nat /\ Rate \in Nat /\ slot \in Nat /\ lastSlot \in Nat
      /\ RateScale \in Nat \ {0}
    BY AccrualTypes, Scales
<1> DEFINE dt == slot - lastSlot
           grown == (index * Rate) * dt
<1>2. dt \in Nat /\ index * Rate \in Nat
    BY <1>1
<1>3. /\ index * Rate <= U128Max /\ grown <= U128Max
      /\ index + grown \div RateScale <= U128Max
    BY DEF GrowthFits
<1>4. SatMul(index, Rate) = index * Rate
    BY <1>1, <1>3, Saturated
<1>5. grown \in Nat /\ SatMul(index * Rate, dt) = grown
    BY <1>2, <1>3, Saturated
<1>6. CASE slot <= lastSlot
  <2>1. dt = 0
      BY <1>1, <1>6
  <2>2. grown = 0
      BY <1>2, <2>1
  <2>3. grown \div RateScale = 0
      BY <1>1, <2>2
  <2> QED
      BY <1>1, <1>6, <2>3 DEF CurrentIndex
<1>7. CASE ~(slot <= lastSlot)
  <2>1. CurrentIndex = SatAdd(index, grown \div RateScale)
      BY <1>4, <1>5, <1>7 DEF CurrentIndex, GrownIndex
  <2> QED
      BY <1>3, <2>1 DEF SatAdd, Least
<1> QED
    BY <1>6, <1>7

LEMMA SimpleIndex ==
    ASSUME AccrualInv, GrowthFits, SimpleInv
    PROVE  RateScale + slot * Rate <= CurrentIndex
<1> DEFINE dt == slot - lastSlot
           grown == (index * Rate) * dt
<1>1. /\ index \in Nat /\ Rate \in Nat /\ slot \in Nat /\ lastSlot \in Nat
      /\ RateScale \in Nat \ {0} /\ lastSlot <= slot
      /\ RateScale + lastSlot * Rate <= index
    BY AccrualTypes, Scales DEF SimpleInv
<1>2. CurrentIndex = index + grown \div RateScale
    BY <1>1, UncutIndex
<1>3. dt \in Nat /\ Rate * dt \in Nat /\ index * Rate \in Nat /\ grown \in Nat
  <2>1. dt \in Nat /\ Rate * dt \in Nat /\ index * Rate \in Nat
      BY <1>1
  <2> QED
      BY <2>1
<1>4. (Rate * dt) * RateScale <= grown
  <2>1. RateScale <= index
    <3>1. lastSlot * Rate \in Nat
        BY <1>1
    <3> QED
        BY <1>1, <3>1
  <2>2. RateScale * (Rate * dt) <= index * (Rate * dt)
      BY <1>1, <1>3, <2>1, ProductMonotone
  <2>3. index * (Rate * dt) = grown /\ RateScale * (Rate * dt) = (Rate * dt) * RateScale
      BY <1>1, <1>3
  <2> QED
      BY <2>2, <2>3
<1>5. Rate * dt <= grown \div RateScale
    BY <1>1, <1>3, <1>4, QuotientIsLargest
<1>6. grown \div RateScale \in Nat
    BY <1>1, <1>3, Quotient
<1>7. slot * Rate = lastSlot * Rate + Rate * dt
    BY <1>1
<1> HIDE DEF dt, grown
<1>8. lastSlot * Rate \in Nat /\ slot * Rate \in Nat
    BY <1>1
<1> QED
    BY <1>1, <1>2, <1>3, <1>5, <1>6, <1>7, <1>8

LEMMA SimpleStep == AccrualInv /\ GrowthFits /\ SimpleInv /\ [Next]_vars => SimpleInv'
<1> SUFFICES ASSUME AccrualInv, GrowthFits, SimpleInv, [Next]_vars
             PROVE  SimpleInv'
    OBVIOUS
<1>1. /\ slot \in Nat /\ lastSlot \in Nat /\ lastSlot <= slot
      /\ RateScale + lastSlot * Rate <= index
      /\ lastSlot = 0 => index = RateScale /\ snapshot = RateScale /\ borrowed = principal
    BY AccrualTypes DEF SimpleInv
<1>2. slot = 0 => CurrentIndex = RateScale /\ Debt = principal
    BY <1>1 DEF CurrentIndex, Debt, RestatedDebt
<1>3. CASE Tick
  <2>1. slot' = slot + 1 /\ UNCHANGED <<principal, rateBps, index, lastSlot, borrowed, snapshot>>
      BY <1>3 DEF Tick
  <2> QED
      BY <1>1, <2>1 DEF SimpleInv, Rate
<1>4. CASE UseMarket
  <2>1. /\ index' = CurrentIndex /\ lastSlot' = slot
        /\ UNCHANGED <<principal, rateBps, slot, borrowed, snapshot>>
      BY <1>4 DEF UseMarket, AccrueMarket
  <2>2. Rate' = Rate
      BY <2>1 DEF Rate
  <2>3. slot = 0 => lastSlot = 0
      BY <1>1
  <2> QED
      BY <1>1, <1>2, <2>1, <2>2, <2>3, SimpleIndex DEF SimpleInv
<1>5. CASE AccruePosition
  <2>1. /\ index' = CurrentIndex /\ lastSlot' = slot
        /\ borrowed' = Debt /\ snapshot' = CurrentIndex
        /\ UNCHANGED <<principal, rateBps, slot>>
      BY <1>5 DEF AccruePosition, AccrueMarket
  <2>2. Rate' = Rate
      BY <2>1 DEF Rate
  <2> QED
      BY <1>1, <1>2, <2>1, <2>2, SimpleIndex DEF SimpleInv
<1>6. CASE UNCHANGED vars
    BY <1>1, <1>6 DEF vars, SimpleInv, Rate
<1> QED
    BY <1>3, <1>4, <1>5, <1>6 DEF Next

LEMMA InitSimple == Init => SimpleInv
<1> SUFFICES ASSUME Init PROVE SimpleInv
    OBVIOUS
<1>1. rateBps \in Nat
    BY AccrualAssumption DEF Init
<1>2. Rate \in Nat /\ RateScale \in Nat
    BY <1>1, RateType, Scales
<1> QED
    BY <1>2 DEF Init, SimpleInv

LEMMA SimpleInvariant == Spec /\ []GrowthFits => []SimpleInv
BY InitSimple, SimpleStep, AccrualInvariant, PTL DEF Spec

\* However a market is accrued, often or seldom, its index is no less than
\* simple interest since slot 0 would have made it.
THEOREM IndexAtLeastSimple == Spec /\ []GrowthFits => []AtLeastSimple
<1>1. AccrualInv /\ GrowthFits /\ SimpleInv => AtLeastSimple
  <2> SUFFICES ASSUME AccrualInv, GrowthFits, SimpleInv PROVE AtLeastSimple
      OBVIOUS
  <2>1. RateScale + slot * Rate <= CurrentIndex /\ slot * Rate \in Nat /\ RateScale \in Nat
      BY SimpleIndex, AccrualTypes, Scales
  <2> QED
      BY <2>1, AccrualTypes DEF AtLeastSimple
<1> QED
    BY <1>1, AccrualInvariant, SimpleInvariant, PTL

\* A factor of both dividend and divisor drops out.
LEMMA CommonFactor ==
    ASSUME NEW x \in Nat, NEW a \in Nat \ {0}, NEW q \in Nat \ {0}
    PROVE  (x * q) \div (a * q) = x \div a
<1> DEFINE y == x \div a
           z == (x * q) \div (a * q)
<1>1. a * q \in Nat \ {0} /\ x * q \in Nat
    OBVIOUS
<1>2. y \in Nat /\ y * a <= x
    BY Quotient
<1>3. z \in Nat /\ z * (a * q) <= x * q
    BY <1>1, Quotient
<1> HIDE DEF y, z
<1>4. y <= z
  <2>1. y * a \in Nat /\ (y * a) * q <= x * q
      BY <1>2, ProductMonotone
  <2>2. (y * a) * q = y * (a * q)
      BY <1>2
  <2>3. y * (a * q) <= x * q
      BY <2>1, <2>2
  <2> QED
      BY <1>1, <1>2, <2>3, QuotientIsLargest DEF z
<1>5. z <= y
  <2>1. z * a \in Nat /\ z * (a * q) = (z * a) * q
      BY <1>3
  <2>2. z * a <= x
      BY <1>3, <2>1, ProductCancels
  <2> QED
      BY <1>3, <2>2, QuotientIsLargest DEF y
<1> QED
    BY <1>2, <1>3, <1>4, <1>5 DEF y, z

\* What is owed in a market nobody has accrued is the principal and its simple
\* interest, rounded down.
LEMMA FirstDebt ==
    ASSUME AccrualInv, GrowthFits, SimpleInv, lastSlot = 0, Untouched < U64Max
    PROVE  /\ Debt = Untouched
           /\ Debt = principal + ((principal * rateBps) * slot) \div BpsDenominator
<1> DEFINE q == RateScale \div BpsDenominator
           growth == Rate * slot
           i == CurrentIndex
           x == (principal * rateBps) * slot
<1>1. /\ principal \in Nat /\ rateBps \in Nat /\ Rate \in Nat /\ slot \in Nat
      /\ i \in Nat /\ principal \in U64
      /\ index = RateScale /\ snapshot = RateScale /\ borrowed = principal
      /\ RateScale \in Nat \ {0} /\ BpsDenominator \in Nat \ {0}
      /\ U64Max \in Nat /\ U128Max \in Nat
    BY AccrualTypes, Scales, WidthAssumption DEF SimpleInv, AccrualInv
<1>2. q \in Nat \ {0} /\ RateScale = BpsDenominator * q /\ Rate = rateBps * q
  <2>1. RateScale % BpsDenominator = 0
      BY AccrualAssumption
  <2>2. RateScale = BpsDenominator * q /\ q \in Nat
      BY <1>1, <2>1
  <2>3. q # 0
      BY <1>1, <2>2
  <2> QED
      BY <2>2, <2>3 DEF Rate
<1>3. i = RateScale + growth /\ growth \in Nat
  <2>1. i = RateScale + ((RateScale * Rate) * slot) \div RateScale
    <3>1. lastSlot <= slot /\ slot - lastSlot = slot
        BY <1>1
    <3> QED
        BY <1>1, <3>1, UncutIndex
  <2>2. growth \in Nat /\ (RateScale * Rate) * slot = growth * RateScale
      BY <1>1
  <2>3. (growth * RateScale) \div RateScale = growth
    <3> HIDE DEF growth
    <3>1. /\ (growth * RateScale) \div (1 * RateScale) = growth \div 1
        BY <1>1, <2>2, CommonFactor
    <3>2. growth \div 1 = growth /\ 1 * RateScale = RateScale
        BY <1>1, <2>2
    <3> QED
        BY <3>1, <3>2
  <2> QED
      BY <2>1, <2>2, <2>3
<1>4. Debt = Untouched
    BY <1>1 DEF Debt, Untouched
<1> HIDE DEF q, growth, i, x
<1>5. principal * i <= U128Max
  <2> SUFFICES ASSUME ~(principal * i <= U128Max) PROVE FALSE
      OBVIOUS
  <2>1. principal # 0
      BY <1>1
  <2>2. SatMul(principal, i) = U128Max
      BY <1>1 DEF SatMul, Least
  <2>3. U64Max <= U128Max \div RateScale
    <3>1. U64Max * RateScale <= U128Max
        BY AccrualAssumption
    <3> QED
        BY <1>1, <3>1, QuotientIsLargest
  <2>4. U128Max \div RateScale \in Nat
      BY <1>1, Quotient
  <2>5. ToU64(SatMul(principal, i) \div RateScale) = U64Max
      BY <1>1, <2>2, <2>3, <2>4 DEF ToU64, Least
  <2>6. CASE i = RateScale
    <3>1. principal * RateScale <= U64Max * RateScale
      <4>1. principal <= U64Max
          BY <1>1 DEF U64
      <4> QED
          BY <1>1, <4>1, ProductMonotone
    <3>2. /\ principal * RateScale \in Nat /\ U64Max * RateScale \in Nat
          /\ U64Max * RateScale <= U128Max
        BY <1>1, AccrualAssumption
    <3> QED
        BY <1>1, <2>6, <3>1, <3>2
  <2>7. CASE i # RateScale
    <3>1. Untouched = ToU64(SatMul(principal, i) \div RateScale)
        BY <1>1, <2>1, <2>7 DEF Untouched, RestatedDebt, i
    <3> QED
        BY <1>1, <2>5, <3>1
  <2> QED
      BY <2>6, <2>7
<1>6. Untouched = ToU64((principal * i) \div RateScale)
    BY <1>1, <1>5, RestatedShare DEF Untouched, i
<1>7. (principal * i) \div RateScale \in Nat
  <2>1. principal * i \in Nat
      BY <1>1
  <2> QED
      BY <1>1, <2>1, Quotient
<1>8. Untouched = (principal * i) \div RateScale
    BY <1>1, <1>6, <1>7 DEF ToU64, Least
<1>9. (principal * i) \div RateScale = principal + x \div BpsDenominator
  <2>1. x \in Nat /\ principal * growth = x * q
    <3>1. principal * rateBps \in Nat
        BY <1>1
    <3> QED
        BY <1>1, <1>2, <3>1 DEF x, growth
  <2>2. principal * i = principal * RateScale + x * q
    <3>1. principal * (RateScale + growth) = principal * RateScale + principal * growth
        BY <1>1, <1>3
    <3> QED
        BY <1>3, <2>1, <3>1
  <2>3. (principal * i) \div RateScale = principal + (x * q) \div RateScale
    <3> DEFINE y == x * q
    <3>1. y \in Nat
        BY <1>2, <2>1
    <3> HIDE DEF y
    <3>2. (principal * RateScale + y) \div RateScale = principal + y \div RateScale
        BY <1>1, <3>1
    <3> QED
        BY <2>2, <3>2 DEF y
  <2>4. (x * q) \div RateScale = x \div BpsDenominator
    <3>1. (x * q) \div (BpsDenominator * q) = x \div BpsDenominator
        BY <1>1, <1>2, <2>1, CommonFactor
    <3> QED
        BY <1>2, <3>1
  <2> QED
      BY <2>3, <2>4
<1> QED
    BY <1>4, <1>8, <1>9 DEF x

\* accrue_interest of the circuits and accrue_market with accrue_position
\* charge the same for a debt nobody has touched, at all widths and rates.
THEOREM CircuitChargesTheSame == Spec /\ []GrowthFits => []CircuitChargesAlike
<1>1. AccrualInv /\ GrowthFits /\ SimpleInv => CircuitChargesAlike
  <2> SUFFICES ASSUME AccrualInv, GrowthFits, SimpleInv, lastSlot = 0, Untouched < U64Max
               PROVE  AccrueInterest(principal, rateBps, slot) = {Debt}
      BY DEF CircuitChargesAlike
  <2> DEFINE interest == ((principal * rateBps) * slot) \div BpsDenominator
  <2>1. Debt = Untouched /\ Debt = principal + interest
      BY FirstDebt
  <2>2. interest \in Nat /\ principal \in Nat /\ U64Max \in Nat
    <3>1. principal \in Nat /\ rateBps \in Nat /\ slot \in Nat
        BY AccrualTypes
    <3>2. (principal * rateBps) * slot \in Nat
      <4>1. principal * rateBps \in Nat
          BY <3>1
      <4> QED
          BY <3>1, <4>1
    <3> QED
        BY <3>1, <3>2, Scales, Quotient, WidthAssumption
  <2>3. AccrueInterest(principal, rateBps, slot) =
           IF principal + (interest % (U64Max + 1)) <= U64Max
           THEN {principal + (interest % (U64Max + 1))}
           ELSE {Panic, (principal + (interest % (U64Max + 1))) % (U64Max + 1)}
      BY DEF AccrueInterest
  <2> HIDE DEF interest
  <2>4. interest < U64Max + 1 /\ principal + interest <= U64Max
      BY <2>1, <2>2
  <2>5. interest % (U64Max + 1) = interest
      BY <2>2, <2>4
  <2> QED
      BY <2>1, <2>3, <2>4, <2>5
<1> QED
    BY <1>1, AccrualInvariant, SimpleInvariant, PTL

-----------------------------------------------------------------------------
(* What touching a debt costs.                                             *)

\* Restating is dividing: what is left of the product is less than a snapshot.
LEMMA RestatedOnce ==
    ASSUME AccrualInv, DebtFits
    PROVE  /\ Debt \in U64 /\ borrowed <= Debt
           /\ Debt = U64Max \/ borrowed * CurrentIndex < (Debt + 1) * snapshot
<1> DEFINE i == CurrentIndex
           share == (borrowed * i) \div snapshot
<1>1. /\ borrowed \in Nat /\ snapshot \in Nat \ {0} /\ i \in Nat /\ snapshot <= i
      /\ borrowed \in U64 /\ borrowed * i <= U128Max /\ U64Max \in Nat
    BY AccrualTypes, WidthAssumption DEF AccrualInv, DebtFits
<1>2. Debt = RestatedDebt(borrowed, snapshot, i)
    BY DEF Debt
<1> HIDE DEF i
<1>3. Debt \in U64 /\ borrowed <= Debt
  <2>1. i <= i
      BY <1>1
  <2> QED
      BY <1>1, <1>2, <2>1, RestatedGrows
<1>4. Debt = ToU64(share)
    BY <1>1, <1>2, RestatedShare
<1>5. share \in Nat /\ borrowed * i < (share + 1) * snapshot
  <2>1. borrowed * i \in Nat
      BY <1>1
  <2> QED
      BY <1>1, <2>1, Quotient
<1> HIDE DEF share
<1>6. Debt = U64Max \/ Debt = share
    BY <1>4 DEF ToU64, Least
<1> QED
    BY <1>3, <1>5, <1>6 DEF i

\* While its product fits, restating a debt never lowers it.
THEOREM NothingForgiven == Spec /\ []DebtFits => []NeverForgiven
<1> DEFINE Kept == principal <= borrowed
<1>1. Init => Kept
  <2> SUFFICES ASSUME Init PROVE Kept
      OBVIOUS
  <2>1. principal \in Nat /\ borrowed = principal
      BY AccrualAssumption, Scales DEF Init
  <2> QED
      BY <2>1
<1>2. AccrualInv /\ DebtFits /\ Kept => NeverForgiven
  <2> SUFFICES ASSUME AccrualInv, DebtFits, Kept PROVE NeverForgiven
      OBVIOUS
  <2>1. principal \in Nat /\ borrowed \in Nat /\ Debt \in Nat /\ borrowed <= Debt
      BY AccrualTypes, RestatedOnce, Scales
  <2> QED
      BY <2>1 DEF NeverForgiven
<1>3. AccrualInv /\ DebtFits /\ Kept /\ [Next]_vars => Kept'
  <2> SUFFICES ASSUME AccrualInv, DebtFits, Kept, [Next]_vars PROVE Kept'
      OBVIOUS
  <2>1. principal' = principal /\ (borrowed' = borrowed \/ borrowed' = Debt)
      BY DEF Next, Tick, UseMarket, AccruePosition, vars
  <2> QED
      BY <1>2, <2>1 DEF NeverForgiven
<1> QED
    BY <1>1, <1>2, <1>3, AccrualInvariant, PTL DEF Spec

\* A debt d restated at index i from b at snapshot s, when b had lost k units
\* of its share of p since index scale: it has lost one more at most.
LEMMA OneMoreLoss ==
    ASSUME NEW p \in Nat, NEW b \in Nat, NEW d \in Nat, NEW k \in Nat,
           NEW s \in Nat \ {0}, NEW i \in Nat, NEW scale \in Nat, scale <= i,
           p * s <= b * scale + k * s, b * i <= (d + 1) * s
    PROVE  p * i <= d * scale + (k + 1) * i
<1>1. /\ p * i \in Nat /\ d * scale \in Nat /\ (d + 1) * scale \in Nat
      /\ k * i \in Nat /\ p * s \in Nat /\ b * i \in Nat /\ (d + 1) * s \in Nat
      /\ b * scale + k * s \in Nat
    OBVIOUS
<1>2. (p * s) * i <= (b * scale + k * s) * i
    BY <1>1, ProductMonotone
<1>3. (b * i) * scale <= ((d + 1) * s) * scale
    BY <1>1, ProductMonotone
<1>4. (p * i) * s <= ((d + 1) * scale + k * i) * s
  <2>1. (p * s) * i = (p * i) * s
      OBVIOUS
  <2>2. (b * scale + k * s) * i = (b * i) * scale + (k * i) * s
      OBVIOUS
  <2>3. ((d + 1) * s) * scale = ((d + 1) * scale) * s
      OBVIOUS
  <2>4. ((d + 1) * scale + k * i) * s = ((d + 1) * scale) * s + (k * i) * s
    <3> DEFINE x == (d + 1) * scale
               y == k * i
    <3>1. x \in Nat /\ y \in Nat
        BY <1>1
    <3> HIDE DEF x, y
    <3>2. (x + y) * s = x * s + y * s
        BY <3>1
    <3> QED
        BY <3>2 DEF x, y
  <2>5. /\ (p * i) * s \in Int /\ (b * i) * scale \in Int /\ (k * i) * s \in Int
        /\ ((d + 1) * scale) * s \in Int
      BY <1>1
  <2> QED
      BY <1>2, <1>3, <2>1, <2>2, <2>3, <2>4, <2>5
<1>5. p * i <= (d + 1) * scale + k * i
  <2> DEFINE x == p * i
             y == (d + 1) * scale + k * i
  <2>1. x \in Nat /\ y \in Nat
      BY <1>1
  <2>2. x * s <= y * s
      BY <1>4
  <2> HIDE DEF x, y
  <2>3. x <= y
      BY <2>1, <2>2, ProductCancels
  <2> QED
      BY <2>3 DEF x, y
<1>6. (d + 1) * scale = d * scale + scale /\ (k + 1) * i = k * i + i
    OBVIOUS
<1> QED
    BY <1>1, <1>5, <1>6

\* Reading a debt loses no more than its history and this slot account for.
LEMMA DebtRounded ==
    ASSUME AccrualInv, DebtFits, RoundedInv
    PROVE  \/ Debt = U64Max
           \/ principal * CurrentIndex <= Debt * RateScale + slot * CurrentIndex
<1> DEFINE i == CurrentIndex
<1>1. /\ principal \in Nat /\ borrowed \in Nat /\ slot \in Nat /\ lastSlot \in Nat
      /\ snapshot \in Nat \ {0} /\ i \in Nat /\ index \in Nat
      /\ snapshot <= index /\ index <= i /\ RateScale \in Nat \ {0}
      /\ lastSlot <= slot /\ RateScale <= snapshot
      /\ snapshot # index => lastSlot > 0
      /\ borrowed = U64Max \/ principal * snapshot <= borrowed * RateScale + Losses * snapshot
    BY AccrualTypes, Scales DEF RoundedInv
<1>2. Debt \in U64 /\ borrowed <= Debt
    BY RestatedOnce
<1>3. Debt \in Nat /\ Debt <= U64Max /\ U64Max \in Nat
    BY <1>2, Scales, WidthAssumption DEF U64
<1>4. Losses \in Nat /\ Losses <= lastSlot
    BY <1>1 DEF Losses
<1>5. CASE borrowed = U64Max
    BY <1>2, <1>3, <1>5
<1>6. CASE snapshot = i /\ principal * snapshot <= borrowed * RateScale + Losses * snapshot
  <2>1. Debt = borrowed
      BY <1>6 DEF Debt, RestatedDebt
  <2> HIDE DEF i
  <2>2. Losses * i \in Nat /\ Losses * i <= slot * i /\ slot * i \in Nat
      BY <1>1, <1>4, ProductMonotone
  <2>3. principal * i <= borrowed * RateScale + Losses * i
      BY <1>6
  <2>4. principal * i \in Nat /\ borrowed * RateScale \in Nat
      BY <1>1
  <2>5. principal * i <= Debt * RateScale + slot * i
      BY <2>1, <2>2, <2>3, <2>4
  <2> QED
      BY <2>5 DEF i
<1>7. CASE snapshot # i /\ principal * snapshot <= borrowed * RateScale + Losses * snapshot
  <2>1. Debt = U64Max \/ borrowed * i < (Debt + 1) * snapshot
      BY RestatedOnce
  <2> SUFFICES ASSUME borrowed * i < (Debt + 1) * snapshot
               PROVE  principal * i <= Debt * RateScale + slot * i
      BY <2>1
  <2>2. Losses + 1 <= slot
    <3>1. CASE snapshot # index
        BY <1>1, <3>1 DEF Losses
    <3>2. CASE snapshot = index
      <4>1. ~(slot <= lastSlot)
          BY <1>7, <3>2 DEF CurrentIndex
      <4> QED
          BY <1>1, <3>2, <4>1 DEF Losses
    <3> QED
        BY <3>1, <3>2
  <2> HIDE DEF i
  <2>3. borrowed * i \in Nat /\ (Debt + 1) * snapshot \in Nat
      BY <1>1, <1>3
  <2>4. borrowed * i <= (Debt + 1) * snapshot /\ RateScale <= i
      BY <1>1, <2>3
  <2>5. principal * i <= Debt * RateScale + (Losses + 1) * i
      BY <1>1, <1>3, <1>4, <1>7, <2>4, OneMoreLoss
  <2>6. (Losses + 1) * i \in Nat /\ slot * i \in Nat /\ (Losses + 1) * i <= slot * i
      BY <1>1, <1>4, <2>2, ProductMonotone
  <2>7. principal * i \in Nat /\ Debt * RateScale \in Nat
      BY <1>1, <1>3
  <2> QED
      BY <2>5, <2>6, <2>7
<1> QED
    BY <1>1, <1>5, <1>6, <1>7

LEMMA RoundedStep == AccrualInv /\ DebtFits /\ RoundedInv /\ [Next]_vars => RoundedInv'
<1> SUFFICES ASSUME AccrualInv, DebtFits, RoundedInv, [Next]_vars
             PROVE  RoundedInv'
    OBVIOUS
<1>1. /\ principal \in Nat /\ borrowed \in Nat /\ slot \in Nat /\ lastSlot \in Nat
      /\ snapshot \in Nat \ {0} /\ CurrentIndex \in Nat /\ index \in Nat
      /\ snapshot <= index /\ index <= CurrentIndex /\ RateScale \in Nat \ {0}
      /\ lastSlot <= slot /\ RateScale <= snapshot
      /\ snapshot # index => lastSlot > 0
      /\ borrowed = U64Max \/ principal * snapshot <= borrowed * RateScale + Losses * snapshot
    BY AccrualTypes, Scales DEF RoundedInv
<1>2. Losses \in Nat
    BY <1>1 DEF Losses
<1>3. CASE Tick
  <2>1. slot' = slot + 1 /\ UNCHANGED <<principal, rateBps, index, lastSlot, borrowed, snapshot>>
      BY <1>3 DEF Tick
  <2>2. Losses' = Losses
      BY <2>1 DEF Losses
  <2> QED
      BY <1>1, <2>1, <2>2 DEF RoundedInv
<1>4. CASE UseMarket
  <2>1. /\ index' = CurrentIndex /\ lastSlot' = slot
        /\ UNCHANGED <<principal, rateBps, slot, borrowed, snapshot>>
      BY <1>4 DEF UseMarket, AccrueMarket
  <2>2. snapshot # CurrentIndex /\ snapshot = index => slot > lastSlot
      BY <1>1 DEF CurrentIndex
  <2>3. snapshot # CurrentIndex => slot > 0
      BY <1>1, <2>2
  <2>4. Losses' \in Nat /\ Losses <= Losses'
    <3>1. Losses' = IF snapshot = CurrentIndex THEN slot ELSE slot - 1
        BY <2>1 DEF Losses
    <3> QED
        BY <1>1, <2>2, <2>3, <3>1 DEF Losses
  <2>5. \/ borrowed = U64Max
        \/ principal * snapshot <= borrowed * RateScale + Losses' * snapshot
    <3> DEFINE k == Losses
               kk == Losses'
    <3>1. /\ k \in Nat /\ kk \in Nat /\ k <= kk
          /\ borrowed = U64Max \/ principal * snapshot <= borrowed * RateScale + k * snapshot
        BY <1>1, <1>2, <2>4
    <3> HIDE DEF k, kk
    <3>2. k * snapshot \in Nat /\ kk * snapshot \in Nat
        BY <1>1, <3>1
    <3>3. k * snapshot <= kk * snapshot
        BY <1>1, <3>1, ProductMonotone
    <3>4. principal * snapshot \in Nat /\ borrowed * RateScale \in Nat
        BY <1>1
    <3>5. \/ borrowed = U64Max
          \/ principal * snapshot <= borrowed * RateScale + kk * snapshot
        BY <3>1, <3>2, <3>3, <3>4
    <3> QED
        BY <3>5 DEF kk
  <2> QED
      BY <1>1, <2>1, <2>3, <2>5 DEF RoundedInv
<1>5. CASE AccruePosition
  <2>1. /\ index' = CurrentIndex /\ lastSlot' = slot
        /\ borrowed' = Debt /\ snapshot' = CurrentIndex
        /\ UNCHANGED <<principal, rateBps, slot>>
      BY <1>5 DEF AccruePosition, AccrueMarket
  <2>2. Losses' = slot
      BY <2>1 DEF Losses
  <2>3. RateScale <= CurrentIndex
      BY <1>1
  <2> QED
      BY <1>1, <2>1, <2>2, <2>3, DebtRounded DEF RoundedInv
<1>6. CASE UNCHANGED vars
    BY <1>1, <1>6 DEF vars, RoundedInv, Losses
<1> QED
    BY <1>3, <1>4, <1>5, <1>6 DEF Next

\* Touching a debt loses the debtor's market less than one unit in each slot,
\* and what that would have earned since, at all rates and widths.
THEOREM RoundingAlwaysSmall == Spec /\ []DebtFits => []RoundingIsSmall
<1>1. Init => RoundedInv
  <2> SUFFICES ASSUME Init PROVE RoundedInv
      OBVIOUS
  <2>1. /\ principal \in Nat /\ RateScale \in Nat
        /\ slot = 0 /\ lastSlot = 0 /\ index = RateScale /\ snapshot = RateScale
        /\ borrowed = principal
      BY AccrualAssumption, Scales DEF Init
  <2>2. Losses = 0
      BY <2>1 DEF Losses
  <2>3. 0 * RateScale = 0 /\ principal * RateScale \in Nat
      BY <2>1
  <2> QED
      BY <2>1, <2>2, <2>3 DEF RoundedInv
<1>2. AccrualInv /\ DebtFits /\ RoundedInv => RoundingIsSmall
  <2> SUFFICES ASSUME AccrualInv, DebtFits, RoundedInv PROVE RoundingIsSmall
      OBVIOUS
  <2> DEFINE i == CurrentIndex
  <2>1. /\ principal \in U64 /\ principal \in Nat /\ slot \in Nat /\ i \in Nat
        /\ RateScale \in Nat \ {0} /\ U64Max \in Nat
      BY AccrualTypes, Scales, WidthAssumption DEF AccrualInv
  <2>2. Debt \in Nat /\ Debt <= U64Max
      BY RestatedOnce, Scales DEF U64
  <2>3. \/ Debt = U64Max
        \/ principal * i <= Debt * RateScale + slot * i
      BY DebtRounded
  <2>4. Untouched = RestatedDebt(principal, RateScale, i)
      BY DEF Untouched
  <2> HIDE DEF i
  <2>5. /\ Untouched \in Nat /\ Untouched <= U64Max
        /\ Untouched * RateScale <= principal * i
    <3> DEFINE product == SatMul(principal, i)
               q == product \div RateScale
    <3>1. product \in Nat /\ product <= principal * i /\ principal * i \in Nat
      <4>1. principal * i \in Nat
          BY <2>1
      <4> QED
          BY <2>1, <4>1, Saturated
    <3>2. q \in Nat /\ q * RateScale <= product /\ q * RateScale \in Nat
        BY <2>1, <3>1, Quotient
    <3>3. CASE principal = 0 \/ RateScale = i
      <4>1. Untouched = principal
          BY <2>4, <3>3 DEF RestatedDebt
      <4>2. CASE principal = 0
        <5>1. principal * RateScale = 0
            BY <2>1, <4>2
        <5> QED
            BY <2>1, <3>1, <4>1, <4>2, <5>1 DEF U64
      <4>3. CASE RateScale = i
        <5>1. Untouched * RateScale = principal * i
            BY <4>1, <4>3
        <5> QED
            BY <2>1, <3>1, <4>1, <5>1 DEF U64
      <4> QED
          BY <3>3, <4>2, <4>3
    <3>4. CASE ~(principal = 0 \/ RateScale = i)
      <4>1. Untouched = ToU64(q)
          BY <2>1, <2>4, <3>4 DEF RestatedDebt
      <4> HIDE DEF q, product
      <4>2. Untouched \in Nat /\ Untouched <= q /\ Untouched <= U64Max
          BY <2>1, <3>2, <4>1 DEF ToU64, Least
      <4>3. Untouched * RateScale <= q * RateScale /\ Untouched * RateScale \in Nat
          BY <2>1, <3>2, <4>2, ProductMonotone
      <4> QED
          BY <3>1, <3>2, <4>2, <4>3
    <3> QED
        BY <3>3, <3>4
  <2>6. slot * i \in Nat
      BY <2>1
  <2>7. (Untouched - Debt) * RateScale = Untouched * RateScale - Debt * RateScale
      BY <2>1, <2>2, <2>5
  <2>8. Untouched * RateScale \in Nat /\ Debt * RateScale \in Nat /\ principal * i \in Nat
      BY <2>1, <2>2, <2>5
  <2>9. CASE Debt = U64Max
    <3>1. Untouched * RateScale <= Debt * RateScale
        BY <2>1, <2>2, <2>5, <2>9, ProductMonotone
    <3> QED
        BY <2>6, <2>7, <2>8, <3>1 DEF RoundingIsSmall, i
  <2>10. CASE principal * i <= Debt * RateScale + slot * i
    <3>1. Untouched * RateScale - Debt * RateScale <= slot * i
        BY <2>5, <2>6, <2>8, <2>10
    <3> QED
        BY <2>7, <3>1 DEF RoundingIsSmall, i
  <2> QED
      BY <2>3, <2>9, <2>10
<1> QED
    BY <1>1, <1>2, RoundedStep, AccrualInvariant, PTL DEF Spec

===============================================================================
