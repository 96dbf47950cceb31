----------------------------- MODULE HealthProofs -----------------------------
(***************************************************************************)
(* What users risk.  withdraw and borrow leave debts covered; liquidate    *)
(* seizes from users under water alone, at a fair price, and helps them.   *)
(*                                                                         *)
(* The check of the program folds saturating sums over the positions it is *)
(* given.  Sum counts the same units as the elements of a set, so that     *)
(* facts about finite sets apply; DebtUsdIsSum and CollateralUsdIsSum say  *)
(* that the fold leaves that number, capped at u128.                       *)
(***************************************************************************)
EXTENDS BankProofs

-----------------------------------------------------------------------------
(* Who takes a risk, and who loses collateral.                             *)

LEMMA AmountsAreNat ==
    ASSUME TypeOK
    PROVE  /\ supplied \in [User -> [Market -> U64]] /\ wallet \in [User -> [Market -> U64]]
           /\ \A u \in User, m \in Market :
                 supplied[u][m] \in Nat /\ wallet[u][m] \in Nat /\ Debt(u, m) \in Nat
<1>1. supplied \in [User -> [Market -> U64]] /\ wallet \in [User -> [Market -> U64]]
    BY DEF TypeOK
<1>2. \A u \in User, m \in Market : supplied[u][m] \in U64 /\ wallet[u][m] \in U64
    BY <1>1
<1> QED
    BY <1>1, <1>2, DebtIsNat, Scales

\* Without a health check nobody takes tokens for a debt or for collateral,
\* and nobody loses collateral.
LEMMA UncheckedIsSafe ==
    ASSUME TypeOK, UncheckedStep \/ UNCHANGED vars, NEW v \in User
    PROVE  ~TakesRisk(v) /\ \A k \in Market : ~Seized(v, k)
<1>1. /\ supplied \in [User -> [Market -> U64]] /\ wallet \in [User -> [Market -> U64]]
      /\ \A u \in User, m \in Market :
            supplied[u][m] \in Nat /\ wallet[u][m] \in Nat /\ Debt(u, m) \in Nat
    BY AmountsAreNat
<1>2. ASSUME wallet' = wallet, supplied' = supplied
      PROVE  ~TakesRisk(v) /\ \A k \in Market : ~Seized(v, k)
    BY <1>1, <1>2 DEF TakesRisk, Seized
<1>3. ASSUME NEW m \in Market, NEW a \in U64, InitializeMarket(m, a) \/ SetClaimAmount(m, a)
      PROVE  wallet' = wallet /\ supplied' = supplied
    BY <1>3 DEF InitializeMarket, SetClaimAmount, positionVars, tokenVars
<1>4. ASSUME NEW u \in User, NEW m \in Market, ClaimFaucet(u, m)
      PROVE  ~TakesRisk(v) /\ \A k \in Market : ~Seized(v, k)
  <2>1. /\ supplied' = supplied
        /\ UNCHANGED <<index, lastSlot, borrowed, snapshot, slot>>
      BY <1>4 DEF ClaimFaucet, marketVars, positionVars, worldVars
  <2>2. \A k \in Market : Debt(v, k)' = Debt(v, k)
      BY <2>1, DebtsUntouched
  <2> QED
      BY <1>1, <2>1, <2>2 DEF TakesRisk, Seized
<1>5. ASSUME NEW u \in User, NEW m \in Market, NEW a \in U64, Supply(u, m, a) \/ Repay(u, m, a)
      PROVE  ~TakesRisk(v) /\ \A k \in Market : ~Seized(v, k)
  <2>1. PICK n \in Nat, sup \in Nat : /\ wallet' = [wallet EXCEPT ![u][m] = @ - n]
                                      /\ supplied' = [supplied EXCEPT ![u][m] = sup]
                                      /\ supplied[u][m] <= sup
    <3>1. CASE Supply(u, m, a)
      <4>1. /\ wallet' = [wallet EXCEPT ![u][m] = @ - a]
            /\ supplied' = [supplied EXCEPT ![u][m] = supplied[u][m] + a]
            /\ a \in Nat
        <5>1. a \in Nat
            BY Scales
        <5> QED
            BY <3>1, <5>1 DEF Supply, TransferIn, SetPosition
      <4>2. supplied[u][m] + a \in Nat /\ supplied[u][m] <= supplied[u][m] + a
          BY <1>1, <4>1
      <4> QED
          BY <4>1, <4>2
    <3>2. CASE Repay(u, m, a)
      <4>1. /\ wallet' = [wallet EXCEPT ![u][m] = @ - Payable(u, m, a)]
            /\ supplied' = [supplied EXCEPT ![u][m] = supplied[u][m]]
          BY <3>2 DEF Repay, TransferIn, SetPosition
      <4>2. Payable(u, m, a) \in Nat
        <5>1. Payable(u, m, a) \in U64
            BY PayableType
        <5> QED
            BY <5>1, Scales
      <4>3. supplied[u][m] \in Nat /\ supplied[u][m] <= supplied[u][m]
          BY <1>1
      <4> QED
          BY <4>1, <4>2, <4>3
    <3> QED
        BY <1>5, <3>1, <3>2
  <2>2. \A k \in Market : wallet'[v][k] <= wallet[v][k] /\ supplied[v][k] <= supplied'[v][k]
      BY <1>1, <2>1
  <2>3. \A k \in Market : ~(wallet'[v][k] > wallet[v][k]) /\ ~(supplied'[v][k] < supplied[v][k])
    <3> SUFFICES ASSUME NEW k \in Market
                 PROVE  /\ ~(wallet'[v][k] > wallet[v][k])
                        /\ ~(supplied'[v][k] < supplied[v][k])
        OBVIOUS
    <3>1. wallet'[v][k] \in Int /\ supplied'[v][k] \in Int
        BY <1>1, <2>1
    <3> QED
        BY <1>1, <2>2, <3>1
  <2> QED
      BY <2>3 DEF TakesRisk, Seized
<1>6. ASSUME AdvanceSlot \/ \E m \in Market, q \in Quote : PublishPrice(m, q)
      PROVE  wallet' = wallet /\ supplied' = supplied
    BY <1>6 DEF AdvanceSlot, PublishPrice, positionVars, tokenVars
<1>7. ASSUME UNCHANGED vars
      PROVE  wallet' = wallet /\ supplied' = supplied
    BY <1>7 DEF vars, positionVars, tokenVars
<1> QED
    BY <1>2, <1>3, <1>4, <1>5, <1>6, <1>7 DEF UncheckedStep

\* A withdrawal and a borrow take a risk for their own user alone.
LEMMA OwnRisk ==
    ASSUME TypeOK, NEW u \in User, NEW m \in Market, NEW a \in U64, NEW rest,
           Withdraw(u, m, a, rest) \/ Borrow(u, m, a, rest), NEW v \in User
    PROVE  (v # u => ~TakesRisk(v)) /\ \A k \in Market : ~Seized(v, k)
<1>1. /\ supplied \in [User -> [Market -> U64]] /\ wallet \in [User -> [Market -> U64]]
      /\ \A w \in User, k \in Market : supplied[w][k] \in Nat /\ wallet[w][k] \in Nat
    BY AmountsAreNat
<1>2. PICK sup : /\ wallet' = [wallet EXCEPT ![u][m] = @ + a]
                 /\ supplied' = [supplied EXCEPT ![u][m] = sup]
                 /\ a \in Nat /\ a > 0
    BY Scales DEF Withdraw, Borrow, TransferOut, SetPosition
<1>3. ASSUME v # u
      PROVE  ~TakesRisk(v)
  <2>1. \A k \in Market : wallet'[v][k] = wallet[v][k]
      BY <1>1, <1>2, <1>3
  <2> QED
      BY <1>1, <2>1 DEF TakesRisk
<1>4. ASSUME NEW k \in Market
      PROVE  ~Seized(v, k)
  <2>1. CASE v = u /\ k = m
    <3>1. wallet'[v][k] = wallet[v][k] + a
        BY <1>1, <1>2, <2>1
    <3> QED
        BY <1>1, <1>2, <3>1 DEF Seized
  <2>2. CASE ~(v = u /\ k = m)
    <3>1. supplied'[v][k] = supplied[v][k]
        BY <1>1, <1>2, <2>2
    <3> QED
        BY <1>1, <3>1 DEF Seized
  <2> QED
      BY <2>1, <2>2
<1> QED
    BY <1>3, <1>4

\* A liquidation takes collateral from one user, and a risk for none.
LEMMA LiquidationSeizes ==
    ASSUME TypeOK, NEW l \in User, NEW u \in User, NEW d \in Market, NEW c \in Market,
           NEW a \in U64, NEW rest, Liquidate(l, u, d, c, a, rest), NEW v \in User
    PROVE  /\ ~TakesRisk(v)
           /\ \A k \in Market : Seized(v, k) => v = u /\ k = c
<1>1. /\ supplied \in [User -> [Market -> U64]] /\ wallet \in [User -> [Market -> U64]]
      /\ \A w \in User, m \in Market :
            supplied[w][m] \in Nat /\ wallet[w][m] \in Nat /\ Debt(w, m) \in Nat
    BY AmountsAreNat
<1>2. PICK r, s : Liquidates(l, u, d, c, r, s)
    BY LiquidateDebts
<1>3. l # u
    BY DEF Liquidate
<1>4. CASE v = l
  <2>1. \A k \in Market : supplied'[v][k] = supplied[v][k] /\ Debt(v, k)' = Debt(v, k)
      BY <1>1, <1>2, <1>3, <1>4 DEF Liquidates
  <2> QED
      BY <1>1, <2>1 DEF TakesRisk, Seized
<1>5. CASE v # l
  <2>1. \A k \in Market : wallet'[v][k] = wallet[v][k]
      BY <1>1, <1>2, <1>5 DEF Liquidates
  <2>2. \A k \in Market : ~(v = u /\ k = c) => supplied'[v][k] = supplied[v][k]
      BY <1>1, <1>2 DEF Liquidates
  <2> QED
      BY <1>1, <2>1, <2>2 DEF TakesRisk, Seized
<1> QED
    BY <1>4, <1>5

\* Nobody but a liquidator takes collateral to a wallet that is not its owner's.
LEMMA OnlyLiquidationSeizes ==
    ASSUME TypeOK, [ProgramStep]_vars, NEW v \in User, NEW k \in Market, Seized(v, k)
    PROVE  \E l \in User, d \in Market, a \in U64 : \E rest :
              <<d, k>> \in LiquidationPairs /\ Liquidate(l, v, d, k, a, rest)
<1>1. ~(UncheckedStep \/ UNCHANGED vars)
    BY UncheckedIsSafe
<1>2. \A u \in User, m \in Market, a \in U64 : \A rest :
         ~(Withdraw(u, m, a, rest) \/ Borrow(u, m, a, rest))
    BY OwnRisk
<1>3. PICK l \in User, u \in User, d \in Market, c \in Market, a \in U64 : \E rest :
          <<d, c>> \in LiquidationPairs /\ Liquidate(l, u, d, c, a, rest)
    BY <1>1, <1>2 DEF ProgramStep
<1>4. v = u /\ k = c
    BY <1>3, LiquidationSeizes
<1> QED
    BY <1>3, <1>4

\* A seizure across markets: v owes r less in d and has s less in k.
SeizureOf(v, k, d, r, s) ==
    /\ d # k
    /\ r \in Nat /\ 0 < r /\ r <= Debt(v, d)
    /\ s \in Nat /\ s <= supplied[v][k] /\ s <= SeizeFor(r, price[d], price[k])
    /\ supplied' = [supplied EXCEPT ![v][k] = @ - s]
    /\ Debt(v, d)' = Debt(v, d) - r
    /\ \A m \in Market \ {d} : Debt(v, m)' = Debt(v, m)
    /\ price' = price

LEMMA SeizureFacts ==
    ASSUME CrossMarketOnly, TypeOK, [ProgramStep]_vars,
           NEW v \in User, NEW k \in Market, Seized(v, k)
    PROVE  \E d \in Market : \E r, s : SeizureOf(v, k, d, r, s)
<1>1. PICK l \in User, d \in Market, a \in U64 : \E rest :
         <<d, k>> \in LiquidationPairs /\ Liquidate(l, v, d, k, a, rest)
    BY OnlyLiquidationSeizes
<1>2. d # k
    BY <1>1 DEF CrossMarketOnly
<1>3. PICK r, s : /\ r = Payable(v, d, a) /\ s = Seizable(v, d, k, r)
                  /\ Liquidates(l, v, d, k, r, s)
    BY <1>1, LiquidateDebts
<1>4. /\ r \in Nat /\ r <= Debt(v, d)
      /\ s \in Nat /\ s <= supplied[v][k]
      /\ supplied' = [supplied EXCEPT ![v][k] = @ - s]
      /\ Debt(v, d)' = Debt(v, d) - r
      /\ \A m \in Market \ {d} : Debt(v, m)' = Debt(v, m)
    BY <1>2, <1>3 DEF Liquidates
<1>5. price' = price /\ a > 0 /\ Debt(v, d) > 0
    BY <1>1 DEF Liquidate, worldVars
<1>6. 0 < r
    BY <1>3, <1>5 DEF Payable, Least
<1>7. s <= SeizeFor(r, price[d], price[k])
  <2>1. /\ supplied[v][k] \in Nat /\ price[d] \in Quote /\ price[k] \in Quote
      BY AmountsAreNat DEF TypeOK
  <2>2. SeizeFor(r, price[d], price[k]) \in U64
      BY <1>4, <2>1, SeizureWorth
  <2>3. SeizeFor(r, price[d], price[k]) \in Nat
      BY <2>2, Scales
  <2> QED
      BY <1>3, <2>1, <2>3 DEF Seizable, Least
<1> QED
    BY <1>2, <1>4, <1>5, <1>6, <1>7 DEF SeizureOf

-----------------------------------------------------------------------------
(* The price of a seizure.                                                 *)

\* What SeizurePriced says of a step.
PricedStep ==
    \A u \in User, c \in Market :
        Seized(u, c) =>
            \E d \in Market :
                TokenUsd(supplied[u][c] - supplied'[u][c], price[c]) * BpsDenominator
                  <= TokenUsd(Debt(u, d) - Debt(u, d)', price[d])
                        * (BpsDenominator + LiquidationBonusBps)

LEMMA PricedStepHolds ==
    ASSUME CrossMarketOnly, TypeOK, [ProgramStep]_vars
    PROVE  PricedStep
<1> SUFFICES ASSUME NEW v \in User, NEW k \in Market, Seized(v, k)
             PROVE  \E d \in Market :
                       TokenUsd(supplied[v][k] - supplied'[v][k], price[k]) * BpsDenominator
                         <= TokenUsd(Debt(v, d) - Debt(v, d)', price[d])
                               * (BpsDenominator + LiquidationBonusBps)
    BY DEF PricedStep
<1>0. PICK d \in Market : \E r, s : SeizureOf(v, k, d, r, s)
    BY SeizureFacts
<1>1. PICK r, s : SeizureOf(v, k, d, r, s)
    BY <1>0
<1>2. /\ supplied \in [User -> [Market -> U64]] /\ supplied[v][k] \in Nat
      /\ Debt(v, d) \in Nat /\ price[d] \in Quote /\ price[k] \in Quote
    BY AmountsAreNat DEF TypeOK
<1>3. /\ r \in Nat /\ s \in Nat
      /\ supplied[v][k] - supplied'[v][k] = s /\ Debt(v, d) - Debt(v, d)' = r
    BY <1>1, <1>2 DEF SeizureOf
<1> DEFINE most == SeizeFor(r, price[d], price[k])
<1>4. /\ most \in Nat
      /\ TokenUsd(most, price[k]) * BpsDenominator
           <= TokenUsd(r, price[d]) * (BpsDenominator + LiquidationBonusBps)
    BY <1>2, <1>3, SeizureWorth, Scales
<1>5. s <= most
    BY <1>1 DEF SeizureOf
<1> HIDE DEF most
<1>6. /\ TokenUsd(s, price[k]) \in Nat /\ TokenUsd(most, price[k]) \in Nat
      /\ TokenUsd(r, price[d]) \in Nat
      /\ TokenUsd(s, price[k]) <= TokenUsd(most, price[k])
    BY <1>2, <1>3, <1>4, <1>5, TokenUsdMonotone
<1>7. TokenUsd(s, price[k]) * BpsDenominator
        <= TokenUsd(r, price[d]) * (BpsDenominator + LiquidationBonusBps)
  <2>1. TokenUsd(s, price[k]) * BpsDenominator <= TokenUsd(most, price[k]) * BpsDenominator
      BY <1>6, Scales, ProductMonotone
  <2>2. /\ TokenUsd(s, price[k]) * BpsDenominator \in Nat
        /\ TokenUsd(most, price[k]) * BpsDenominator \in Nat
        /\ TokenUsd(r, price[d]) * (BpsDenominator + LiquidationBonusBps) \in Nat
      BY <1>6, ScaleAssumption
  <2> QED
      BY <1>4, <2>1, <2>2
<1> QED
    BY <1>3, <1>7

LEMMA ProgramPricesSeizures == CrossMarketOnly => (Program => SeizurePriced)
<1> SUFFICES ASSUME CrossMarketOnly
             PROVE  Program => SeizurePriced
    OBVIOUS
<1>1. LedgerInv /\ [ProgramStep]_vars => [PricedStep]_vars
    BY PricedStepHolds DEF LedgerInv
<1> QED
    BY <1>1, ProgramKeepsLedger, PTL DEF Program, SeizurePriced, PricedStep

\* When debt and collateral are in different markets, whatever prices and
\* exponents the feeds publish and wherever a product saturates, a liquidator
\* takes no more than the worth of the debt he cancels and the bonus.
THEOREM SeizuresArePriced == CrossMarketOnly => (Spec => SeizurePriced)
BY ProgramPricesSeizures, SpecIsProgram, PTL

\* What SeizureCredited says of a step.
CreditedStep ==
    \A u \in User, c \in Market :
        Seized(u, c) => \E d \in Market : Debt(u, d)' < Debt(u, d)

LEMMA CreditedStepHolds ==
    ASSUME CrossMarketOnly, TypeOK, [ProgramStep]_vars
    PROVE  CreditedStep
<1> SUFFICES ASSUME NEW v \in User, NEW k \in Market, Seized(v, k)
             PROVE  \E d \in Market : Debt(v, d)' < Debt(v, d)
    BY DEF CreditedStep
<1>0. PICK d \in Market : \E r, s : SeizureOf(v, k, d, r, s)
    BY SeizureFacts
<1>1. PICK r, s : SeizureOf(v, k, d, r, s)
    BY <1>0
<1>2. Debt(v, d) \in Nat
    BY DebtIsNat
<1> QED
    BY <1>1, <1>2 DEF SeizureOf

LEMMA ProgramCreditsSeizures == CrossMarketOnly => (Program => SeizureCredited)
<1> SUFFICES ASSUME CrossMarketOnly
             PROVE  Program => SeizureCredited
    OBVIOUS
<1>1. LedgerInv /\ [ProgramStep]_vars => [CreditedStep]_vars
    BY CreditedStepHolds DEF LedgerInv
<1> QED
    BY <1>1, ProgramKeepsLedger, PTL DEF Program, SeizureCredited, CreditedStep

\* When debt and collateral are in different markets, who loses collateral owes
\* less for it: the program fails its own comment in one market alone.
THEOREM SeizuresAreCredited == CrossMarketOnly => (Spec => SeizureCredited)
BY ProgramCreditsSeizures, SpecIsProgram, PTL

-----------------------------------------------------------------------------
(* Sums over markets.                                                      *)

\* One element for each unit f gives a member of S: their number is the sum.
Worth(f, S) == {p \in S \X (1..U128Max) : p[2] <= f[p[1]]}
Sum(f, S) == Cardinality(Worth(f, S))

LEMMA WorthFinite ==
    ASSUME NEW S, IsFiniteSet(S), NEW f
    PROVE  IsFiniteSet(Worth(f, S)) /\ Sum(f, S) \in Nat
<1>1. IsFiniteSet(1..U128Max)
    BY WidthAssumption, FS_Interval
<1>2. IsFiniteSet(S \X (1..U128Max))
    BY <1>1, FS_Product
<1>3. Worth(f, S) \in SUBSET (S \X (1..U128Max))
    BY DEF Worth
<1>4. IsFiniteSet(Worth(f, S))
    BY <1>2, <1>3, FS_Subset
<1> QED
    BY <1>4, FS_CardinalityType DEF Sum

\* No members, no sum.
LEMMA SumEmpty ==
    ASSUME NEW f
    PROVE  Sum(f, {}) = 0
<1>1. Worth(f, {}) = {}
    BY DEF Worth
<1> QED
    BY <1>1, FS_EmptySet DEF Sum

\* A sum is one member's share and that of the others.
LEMMA SumSplit ==
    ASSUME NEW S, IsFiniteSet(S), NEW f, NEW m \in S, f[m] \in U128
    PROVE  Sum(f, S \ {m}) \in Nat /\ Sum(f, S) = f[m] + Sum(f, S \ {m})
<1> DEFINE Own == {m} \X (1..f[m])
           Others == Worth(f, S \ {m})
<1>1. f[m] \in Nat /\ f[m] <= U128Max /\ U128Max \in Nat
    BY WidthAssumption DEF U128
<1>2. IsFiniteSet(Own) /\ Cardinality(Own) = f[m]
  <2>1. IsFiniteSet(1..f[m]) /\ Cardinality(1..f[m]) = f[m]
    <3>1. \A k \in Nat : IsFiniteSet(1..k) /\ Cardinality(1..k) = k
        BY FS_Interval
    <3> QED
        BY <1>1, <3>1
  <2>2. IsFiniteSet({m}) /\ Cardinality({m}) = 1
      BY FS_Singleton
  <2>3. IsFiniteSet(Own) /\ Cardinality(Own) = Cardinality({m}) * Cardinality(1..f[m])
      BY <2>1, <2>2, FS_Product
  <2> QED
      BY <1>1, <2>1, <2>2, <2>3
<1>3. IsFiniteSet(Others) /\ Cardinality(Others) \in Nat
  <2>1. IsFiniteSet(S \ {m})
      BY FS_RemoveElement
  <2> QED
      BY <2>1, WorthFinite DEF Sum
<1>4. Worth(f, S) = Others \cup Own
  <2>1. \A p \in Worth(f, S) : p \in Others \cup Own
      BY <1>1 DEF Worth
  <2>2. Others \subseteq Worth(f, S)
      BY DEF Worth
  <2>3. Own \subseteq Worth(f, S)
      BY <1>1 DEF Worth
  <2> QED
      BY <2>1, <2>2, <2>3
<1>5. Others \cap Own = {}
    BY DEF Worth
<1>6. Cardinality(Others \cap Own) = 0
    BY <1>5, FS_EmptySet
<1>7. Cardinality(Others \cup Own) = Cardinality(Others) + Cardinality(Own)
                                       - Cardinality(Others \cap Own)
    BY <1>2, <1>3, FS_Union
<1> QED
    BY <1>1, <1>2, <1>3, <1>4, <1>6, <1>7 DEF Sum

\* Larger shares of more members make no smaller a sum.
LEMMA SumMonotone ==
    ASSUME NEW T, IsFiniteSet(T), NEW S \in SUBSET T, NEW f, NEW g,
           \A m \in S : f[m] \in Nat /\ g[m] \in Nat /\ f[m] <= g[m]
    PROVE  Sum(f, S) \in Nat /\ Sum(g, T) \in Nat /\ Sum(f, S) <= Sum(g, T)
<1>1. Worth(f, S) \in SUBSET Worth(g, T)
    BY WidthAssumption DEF Worth
<1>2. IsFiniteSet(S) /\ IsFiniteSet(Worth(g, T)) /\ Sum(g, T) \in Nat
    BY WorthFinite, FS_Subset
<1>3. Sum(f, S) \in Nat
    BY <1>2, WorthFinite
<1> QED
    BY <1>1, <1>2, <1>3, FS_Subset DEF Sum

\* Members without a share do not count.
LEMMA SumOfRest ==
    ASSUME NEW T, NEW S \in SUBSET T, NEW f, \A m \in T \ S : f[m] = 0
    PROVE  Sum(f, S) = Sum(f, T)
<1>1. Worth(f, S) = Worth(f, T)
    BY WidthAssumption DEF Worth
<1> QED
    BY <1>1 DEF Sum

LEMMA SumSame ==
    ASSUME NEW S, NEW f, NEW g, \A m \in S : f[m] = g[m]
    PROVE  Sum(f, S) = Sum(g, S)
<1>1. Worth(f, S) = Worth(g, S)
    BY DEF Worth
<1> QED
    BY <1>1 DEF Sum

-----------------------------------------------------------------------------
(* The accumulator of the health check.                                    *)

\* What the fold over a subset of S leaves in the accumulator.
Accumulated(f, S) == [s \in SUBSET S |-> Least(Sum(f, s), U128Max)]

\* One turn of the walk: a position is added to what the others make.
Turn(f, S, h) ==
    [s \in SUBSET S |->
        IF s = {} THEN 0
        ELSE LET x == CHOOSE m \in s : TRUE IN SatAdd(f[x], h[s \ {x}])]

LEMMA AccumulatedTurns ==
    ASSUME NEW S, IsFiniteSet(S), NEW f, \A m \in S : f[m] \in U128
    PROVE  Accumulated(f, S) = Turn(f, S, Accumulated(f, S))
<1> SUFFICES ASSUME NEW s \in SUBSET S
             PROVE  Least(Sum(f, s), U128Max)
                      = IF s = {} THEN 0
                        ELSE LET x == CHOOSE m \in s : TRUE
                             IN SatAdd(f[x], Accumulated(f, S)[s \ {x}])
    BY Zenon DEF Accumulated, Turn
<1>1. CASE s = {}
    BY <1>1, SumEmpty, WidthAssumption DEF Least
<1>2. CASE s # {}
  <2> DEFINE x == CHOOSE m \in s : TRUE
  <2>1. x \in s
      BY <1>2
  <2> HIDE DEF x
  <2>2. IsFiniteSet(s)
      BY FS_Subset
  <2>3. f[x] \in U128
      BY <2>1
  <2>4. Sum(f, s \ {x}) \in Nat /\ Sum(f, s) = f[x] + Sum(f, s \ {x})
      BY <2>1, <2>2, <2>3, SumSplit
  <2>5. Accumulated(f, S)[s \ {x}] = Least(Sum(f, s \ {x}), U128Max)
      BY DEF Accumulated
  <2>6. Least(Sum(f, s), U128Max) = SatAdd(f[x], Accumulated(f, S)[s \ {x}])
      BY <2>3, <2>4, <2>5, WidthAssumption DEF SatAdd, Least, U128
  <2> QED
      BY <1>2, <2>6 DEF x
<1> QED
    BY <1>1, <1>2

\* Nothing else is left by such turns: of the sets where something else
\* were, a smallest one would take its turn from where nothing else is.
LEMMA AccumulatedAlone ==
    ASSUME NEW S, IsFiniteSet(S), NEW f, \A m \in S : f[m] \in U128,
           NEW h, h = Turn(f, S, h)
    PROVE  h = Accumulated(f, S)
<1> DEFINE g == Accumulated(f, S)
           Wrong == {s \in SUBSET S : h[s] # g[s]}
<1>1. g = Turn(f, S, g)
    BY AccumulatedTurns
<1>2. ASSUME Wrong # {} PROVE FALSE
  <2>1. IsWellFoundedOn(StrictSubsetOrdering(S), SUBSET S)
      BY FS_StrictSubsetOrderingWellFounded, FS_FiniteSubsetsOfFinite
  <2>2. Wrong \subseteq SUBSET S
      OBVIOUS
  <2>3. PICK s \in Wrong : \A t \in Wrong : <<t, s>> \notin StrictSubsetOrdering(S)
      BY <1>2, <2>1, <2>2, WFMin
  <2>4. ASSUME s = {} PROVE FALSE
    <3>1. Turn(f, S, h)[s] = 0 /\ Turn(f, S, g)[s] = 0
        BY <2>4 DEF Turn
    <3> QED
        BY <1>1, <2>3, <3>1
  <2>5. ASSUME s # {} PROVE FALSE
    <3> DEFINE x == CHOOSE m \in s : TRUE
    <3>1. x \in s
        BY <2>5
    <3>2. s \ {x} \in SUBSET S /\ s \ {x} # s /\ s \ {x} \subseteq s /\ s \in SUBSET S
        BY <2>2, <3>1
    <3>3. <<s \ {x}, s>> \in StrictSubsetOrdering(S)
        BY <3>2 DEF StrictSubsetOrdering
    <3>4. h[s \ {x}] = g[s \ {x}]
        BY <2>3, <3>2, <3>3
    <3>5. Turn(f, S, h)[s] = SatAdd(f[x], h[s \ {x}])
        BY <2>5, <3>2 DEF Turn
    <3>6. Turn(f, S, g)[s] = SatAdd(f[x], g[s \ {x}])
        BY <2>5, <3>2 DEF Turn
    <3>7. h[s] = Turn(f, S, h)[s] /\ g[s] = Turn(f, S, g)[s]
        BY <1>1
    <3> QED
        BY <2>3, <3>4, <3>5, <3>6, <3>7
  <2> QED
      BY <2>4, <2>5
<1>3. \A s \in SUBSET S : h[s] = g[s]
    BY <1>2
<1>4. h = [s \in SUBSET S |-> h[s]] /\ g = [s \in SUBSET S |-> g[s]]
    BY DEF Turn, Accumulated
<1> QED
    BY <1>3, <1>4

-----------------------------------------------------------------------------
(* The sums of the health check, and those of what a user really has.      *)

LEMMA WorthType ==
    ASSUME NEW q \in Quote, NEW ltv \in Nat, NEW a \in Nat
    PROVE  TokenUsd(a, q) \in U128 /\ CollateralAtLtv(a, q, ltv) \in U128
<1> DEFINE p == IF q.price > 0 THEN q.price ELSE 0
           raw == SatMul(a, p)
           up == CheckedPow10(Shift(q), U128Max)
           down == CheckedPow10(-Shift(q), 1)
<1>1. /\ p \in Nat /\ up \in Nat \ {0} /\ down \in Nat \ {0} /\ Shift(q) \in Int
    BY ShiftType, PowerType
<1>2. TokenUsd(a, q) = IF Shift(q) >= 0 THEN SatMul(raw, up) ELSE raw \div down
    BY DEF TokenUsd
<1> HIDE DEF p, up, down
<1>3. raw \in U128 /\ raw \in Nat /\ raw <= U128Max
    BY <1>1, SaturatingTypes, Scales DEF U128
<1> HIDE DEF raw
<1>4. SatMul(raw, up) \in U128
    BY <1>1, <1>3, SaturatingTypes
<1>5. raw \div down \in U128
  <2>1. raw \div down \in Nat /\ raw \div down <= raw
      BY <1>1, <1>3, QuotientSmaller
  <2> QED
      BY <1>3, <2>1, WidthAssumption DEF U128
<1>6. TokenUsd(a, q) \in U128
    BY <1>1, <1>2, <1>4, <1>5
<1>7. CollateralAtLtv(a, q, ltv) \in U128
  <2> DEFINE w == SatMul(TokenUsd(a, q), ltv)
  <2>1. w \in Nat /\ w <= U128Max
    <3>1. TokenUsd(a, q) \in Nat
        BY <1>6, Scales
    <3> QED
        BY <3>1, Saturated
  <2>2. CollateralAtLtv(a, q, ltv) = w \div BpsDenominator
      BY DEF CollateralAtLtv
  <2> HIDE DEF w
  <2>3. w \div BpsDenominator \in Nat /\ w \div BpsDenominator <= w
      BY <2>1, Scales, QuotientSmaller
  <2> QED
      BY <2>1, <2>2, <2>3, WidthAssumption DEF U128
<1> QED
    BY <1>6, <1>7

\* Nothing is worth nothing, at any price.
LEMMA NothingIsWorthless ==
    ASSUME NEW q \in Quote, NEW ltv \in Nat
    PROVE  TokenUsd(0, q) = 0 /\ CollateralAtLtv(0, q, ltv) = 0
<1>1. \A n \in Nat : SatMul(0, n) = 0
    BY WidthAssumption DEF SatMul, Least
<1>2. \A n \in Nat \ {0} : 0 \div n = 0
    OBVIOUS
<1> DEFINE p == IF q.price > 0 THEN q.price ELSE 0
           up == CheckedPow10(Shift(q), U128Max)
           down == CheckedPow10(-Shift(q), 1)
<1>3. /\ p \in Nat /\ up \in Nat \ {0} /\ down \in Nat \ {0} /\ Shift(q) \in Int
    BY ShiftType, PowerType
<1>4. TokenUsd(0, q) = IF Shift(q) >= 0 THEN SatMul(SatMul(0, p), up)
                       ELSE SatMul(0, p) \div down
    BY DEF TokenUsd
<1> HIDE DEF p, up, down
<1>5. TokenUsd(0, q) = 0
    BY <1>1, <1>2, <1>3, <1>4
<1>6. CollateralAtLtv(0, q, ltv) = 0
    BY <1>1, <1>2, <1>5, Scales DEF CollateralAtLtv
<1> QED
    BY <1>5, <1>6

\* What each market adds to the sums of the check.
DebtValue(bor) == [m \in Market |-> TokenUsd(bor[m], price[m])]
CollateralValue(sup) == [m \in Market |-> CollateralAtLtv(sup[m], price[m], MaxLtv[m])]

LEMMA ValueTypes ==
    ASSUME TypeOK, NEW f \in [Market -> Nat]
    PROVE  /\ DebtValue(f) \in [Market -> U128]
           /\ CollateralValue(f) \in [Market -> U128]
<1>1. \A m \in Market : price[m] \in Quote /\ MaxLtv[m] \in Nat /\ f[m] \in Nat
    BY MarketAssumption DEF TypeOK
<1> QED
    BY <1>1, WorthType DEF DebtValue, CollateralValue

LEMMA DebtUsdIsSum ==
    ASSUME TypeOK, NEW S \in SUBSET Market, NEW bor \in [Market -> Nat]
    PROVE  DebtUsd(bor, S) = Least(Sum(DebtValue(bor), S), U128Max)
<1> DEFINE f == DebtValue(bor)
           g == Accumulated(f, S)
<1>1. IsFiniteSet(S) /\ \A m \in S : f[m] \in U128
    BY MarketAssumption, ValueTypes, FS_Subset
<1>2. g = Turn(f, S, g) /\ \A h : h = Turn(f, S, h) => h = g
    BY <1>1, AccumulatedTurns, AccumulatedAlone
<1>3. \A h : Turn(f, S, h) =
               [s \in SUBSET S |->
                  IF s = {} THEN 0
                  ELSE LET x == CHOOSE m \in s : TRUE
                       IN SatAdd(TokenUsd(bor[x], price[x]), h[s \ {x}])]
    BY DEF Turn, DebtValue
<1>4. g = [s \in SUBSET S |->
                  IF s = {} THEN 0
                  ELSE LET x == CHOOSE m \in s : TRUE
                       IN SatAdd(TokenUsd(bor[x], price[x]), g[s \ {x}])]
    BY <1>2, <1>3
<1>5. ASSUME NEW h,
             h = [s \in SUBSET S |->
                  IF s = {} THEN 0
                  ELSE LET x == CHOOSE m \in s : TRUE
                       IN SatAdd(TokenUsd(bor[x], price[x]), h[s \ {x}])]
      PROVE  h = g
  <2>1. Turn(f, S, h) = h
      BY <1>3, <1>5
  <2> QED
      BY <1>2, <2>1
<1>6. g[S] = Least(Sum(f, S), U128Max)
    BY DEF Accumulated
<1> HIDE DEF f, g
<1>7. DebtUsd(bor, S) = g[S]
    BY <1>4, <1>5 DEF DebtUsd, SumSat, MapThenFoldSet
<1> QED
    BY <1>6, <1>7 DEF f

LEMMA CollateralUsdIsSum ==
    ASSUME TypeOK, NEW S \in SUBSET Market, NEW sup \in [Market -> Nat]
    PROVE  CollateralUsd(sup, S) = Least(Sum(CollateralValue(sup), S), U128Max)
<1> DEFINE f == CollateralValue(sup)
           g == Accumulated(f, S)
<1>1. IsFiniteSet(S) /\ \A m \in S : f[m] \in U128
    BY MarketAssumption, ValueTypes, FS_Subset
<1>2. g = Turn(f, S, g) /\ \A h : h = Turn(f, S, h) => h = g
    BY <1>1, AccumulatedTurns, AccumulatedAlone
<1>3. \A h : Turn(f, S, h) =
               [s \in SUBSET S |->
                  IF s = {} THEN 0
                  ELSE LET x == CHOOSE m \in s : TRUE
                       IN SatAdd(CollateralAtLtv(sup[x], price[x], MaxLtv[x]), h[s \ {x}])]
    BY DEF Turn, CollateralValue
<1>4. g = [s \in SUBSET S |->
                  IF s = {} THEN 0
                  ELSE LET x == CHOOSE m \in s : TRUE
                       IN SatAdd(CollateralAtLtv(sup[x], price[x], MaxLtv[x]), g[s \ {x}])]
    BY <1>2, <1>3
<1>5. ASSUME NEW h,
             h = [s \in SUBSET S |->
                  IF s = {} THEN 0
                  ELSE LET x == CHOOSE m \in s : TRUE
                       IN SatAdd(CollateralAtLtv(sup[x], price[x], MaxLtv[x]), h[s \ {x}])]
      PROVE  h = g
  <2>1. Turn(f, S, h) = h
      BY <1>3, <1>5
  <2> QED
      BY <1>2, <2>1
<1>6. g[S] = Least(Sum(f, S), U128Max)
    BY DEF Accumulated
<1> HIDE DEF f, g
<1>7. CollateralUsd(sup, S) = g[S]
    BY <1>4, <1>5 DEF CollateralUsd, SumSat, MapThenFoldSet
<1> QED
    BY <1>6, <1>7 DEF f

LEMMA RealDebtIsSum ==
    ASSUME TypeOK, NEW u \in User
    PROVE  /\ Owed[u] \in [Market -> Nat]
           /\ RealDebtUsd(u) = Least(Sum(DebtValue(Owed[u]), Market), U128Max)
<1> DEFINE f == DebtValue(Owed[u])
           g == Accumulated(f, Market)
<1>1. Owed[u] \in [Market -> Nat] /\ \A m \in Market : Owed[u][m] = Debt(u, m)
    BY DebtIsNat DEF Owed
<1>2. IsFiniteSet(Market) /\ \A m \in Market : f[m] \in U128
    BY <1>1, MarketAssumption, ValueTypes
<1>3. g = Turn(f, Market, g) /\ \A h : h = Turn(f, Market, h) => h = g
    BY <1>2, AccumulatedTurns, AccumulatedAlone
<1>4. \A h : Turn(f, Market, h) =
               [s \in SUBSET Market |->
                  IF s = {} THEN 0
                  ELSE LET x == CHOOSE m \in s : TRUE
                       IN SatAdd(TokenUsd(Debt(u, x), price[x]), h[s \ {x}])]
    BY <1>1 DEF Turn, DebtValue
<1>5. g = [s \in SUBSET Market |->
                  IF s = {} THEN 0
                  ELSE LET x == CHOOSE m \in s : TRUE
                       IN SatAdd(TokenUsd(Debt(u, x), price[x]), g[s \ {x}])]
    BY <1>3, <1>4
<1>6. ASSUME NEW h,
             h = [s \in SUBSET Market |->
                    IF s = {} THEN 0
                    ELSE LET x == CHOOSE m \in s : TRUE
                         IN SatAdd(TokenUsd(Debt(u, x), price[x]), h[s \ {x}])]
      PROVE  h = g
  <2>1. Turn(f, Market, h) = h
      BY <1>4, <1>6
  <2> QED
      BY <1>3, <2>1
<1>7. g[Market] = Least(Sum(f, Market), U128Max)
    BY DEF Accumulated
<1> HIDE DEF f, g
<1>8. RealDebtUsd(u) = g[Market]
    BY <1>5, <1>6 DEF RealDebtUsd, SumSat, MapThenFoldSet
<1> QED
    BY <1>1, <1>7, <1>8 DEF f

\* In every state, and so in the next one.
RealSums ==
    \A u \in User :
        /\ Owed[u] \in [Market -> Nat]
        /\ supplied[u] \in [Market -> Nat]
        /\ RealDebtUsd(u) = Least(Sum(DebtValue(Owed[u]), Market), U128Max)
        /\ RealCollateralUsd(u) = Least(Sum(CollateralValue(supplied[u]), Market), U128Max)

LEMMA RealSumsHold == TypeOK => RealSums
<1> SUFFICES ASSUME TypeOK, NEW u \in User
             PROVE  /\ supplied[u] \in [Market -> Nat]
                    /\ RealCollateralUsd(u)
                         = Least(Sum(CollateralValue(supplied[u]), Market), U128Max)
    BY RealDebtIsSum DEF RealSums
<1>1. supplied[u] \in [Market -> Nat]
  <2>1. supplied[u] \in [Market -> U64]
      BY DEF TypeOK
  <2> QED
      BY <2>1, Scales
<1> QED
    BY <1>1, CollateralUsdIsSum DEF RealCollateralUsd

LEMMA RealSumsNext == TypeOK' => RealSums'
BY RealSumsHold, PTL

-----------------------------------------------------------------------------
(* A borrow and a withdrawal leave the debt covered.                       *)

StoredSums ==
    \A u \in User :
        StoredDebtUsd(u) = Least(Sum(DebtValue(borrowed[u]), Market), U128Max)

LEMMA StoredSumsHold == TypeOK => StoredSums
<1> SUFFICES ASSUME TypeOK, NEW u \in User
             PROVE  StoredDebtUsd(u) = Least(Sum(DebtValue(borrowed[u]), Market), U128Max)
    BY DEF StoredSums
<1>1. borrowed[u] \in [Market -> Nat]
  <2>1. borrowed[u] \in [Market -> U64]
      BY DEF TypeOK
  <2> QED
      BY <2>1, Scales
<1> QED
    BY <1>1, DebtUsdIsSum DEF StoredDebtUsd

LEMMA StoredSumsNext == TypeOK' => StoredSums'
BY StoredSumsHold, PTL

\* Markets of which S leaves out none where u has borrowed.
ListsDebts(u, S) == S \subseteq Market /\ \A m \in Market \ S : borrowed[u][m] = 0

LEMMA CoveredStep ==
    ASSUME TypeOK, TypeOK', NEW u \in User, NEW m \in Market, NEW a \in U64,
           NEW rest, ListsDebts(u, rest \cup {m}),
           Withdraw(u, m, a, rest) \/ Borrow(u, m, a, rest)
    PROVE  StoredDebtUsd(u)' <= RealCollateralUsd(u)'
<1> DEFINE S == rest \cup {m}
<1>1. /\ borrowed \in [User -> [Market -> U64]] /\ supplied \in [User -> [Market -> U64]]
      /\ Debt(u, m) \in Nat
    BY DebtIsNat DEF TypeOK
<1>2. PICK sup \in Nat, bor \in Nat :
         /\ Covered(u, m, sup, bor, rest)
         /\ SetPosition(u, m, sup, bor)
         /\ price' = price
  <2>1. a \in Nat /\ supplied[u][m] \in Nat
      BY <1>1, Scales
  <2>2. CASE Withdraw(u, m, a, rest)
    <3>1. supplied[u][m] - a \in Nat
        BY <2>1, <2>2 DEF Withdraw
    <3> QED
        BY <1>1, <2>2, <3>1 DEF Withdraw, worldVars
  <2>3. CASE Borrow(u, m, a, rest)
      BY <1>1, <2>1, <2>3 DEF Borrow, worldVars
  <2> QED
      BY <2>2, <2>3
<1> DEFINE newSup == [supplied[u] EXCEPT ![m] = sup]
           newBor == [borrowed[u] EXCEPT ![m] = bor]
<1>3. /\ supplied'[u] = newSup /\ borrowed'[u] = newBor
      /\ newSup \in [Market -> Nat] /\ newBor \in [Market -> Nat]
  <2>1. /\ supplied' = [supplied EXCEPT ![u][m] = sup]
        /\ borrowed' = [borrowed EXCEPT ![u][m] = bor]
      BY <1>2 DEF SetPosition
  <2>2. borrowed[u] \in [Market -> Nat] /\ supplied[u] \in [Market -> Nat]
      BY <1>1, Scales
  <2> QED
      BY <1>1, <2>1, <2>2
<1>4. S \in SUBSET Market /\ \A k \in Market \ S : newBor[k] = 0
    BY <1>1 DEF ListsDebts
<1>5. Sum(DebtValue(newBor), S) = Sum(DebtValue(newBor), Market)
  <2>1. \A k \in Market \ S : DebtValue(newBor)[k] = 0
      BY <1>4, NothingIsWorthless, MarketAssumption DEF DebtValue, TypeOK
  <2> QED
      BY <1>4, <2>1, SumOfRest
<1>6. /\ Sum(CollateralValue(newSup), S) \in Nat
      /\ Sum(CollateralValue(newSup), Market) \in Nat
      /\ Sum(CollateralValue(newSup), S) <= Sum(CollateralValue(newSup), Market)
  <2>1. \A k \in S : CollateralValue(newSup)[k] \in Nat
    <3>1. CollateralValue(newSup) \in [Market -> U128]
        BY <1>3, ValueTypes
    <3>2. \A k \in S : CollateralValue(newSup)[k] \in U128
        BY <1>4, <3>1
    <3> QED
        BY <3>2 DEF U128
  <2>2. \A k \in S : CollateralValue(newSup)[k] <= CollateralValue(newSup)[k]
      BY <2>1
  <2> QED
      BY <1>4, <2>1, <2>2, MarketAssumption, SumMonotone
<1>7. DebtUsd(newBor, S) <= CollateralUsd(newSup, S)
    BY <1>2 DEF Covered
<1>8. DebtUsd(newBor, S) = Least(Sum(DebtValue(newBor), Market), U128Max)
    BY <1>3, <1>4, <1>5, DebtUsdIsSum
<1>9. CollateralUsd(newSup, S) = Least(Sum(CollateralValue(newSup), S), U128Max)
    BY <1>3, <1>4, CollateralUsdIsSum
<1>10. /\ StoredDebtUsd(u)' = Least(Sum(DebtValue(borrowed[u])', Market), U128Max)
       /\ RealCollateralUsd(u)' = Least(Sum(CollateralValue(supplied[u])', Market), U128Max)
    BY RealSumsNext, StoredSumsNext DEF RealSums, StoredSums
<1>11. DebtValue(borrowed[u])' = DebtValue(newBor)
    BY <1>2, <1>3 DEF DebtValue
<1>12. CollateralValue(supplied[u])' = CollateralValue(newSup)
    BY <1>2, <1>3 DEF CollateralValue
<1>13. Sum(DebtValue(newBor), Market) \in Nat /\ U128Max \in Nat
    BY MarketAssumption, WidthAssumption, WorthFinite
<1> QED
    BY <1>6, <1>7, <1>8, <1>9, <1>10, <1>11, <1>12, <1>13 DEF Least

\* What StoredRiskIsCovered says of a step.
StoredRiskStep == \A u \in User : TakesRisk(u) => StoredDebtUsd(u)' <= RealCollateralUsd(u)'

\* A step in which whoever withdraws or borrows lists all his debts.
ListedStep ==
    \/ UncheckedStep
    \/ \E u \in User, m \in Market, a \in U64 : \E rest :
          /\ ListsDebts(u, rest \cup {m})
          /\ Withdraw(u, m, a, rest) \/ Borrow(u, m, a, rest)
    \/ \E l \in User, u \in User, d \in Market, c \in Market, a \in U64 : \E rest :
          Liquidate(l, u, d, c, a, rest)

LEMMA StoredRiskStepHolds ==
    ASSUME TypeOK, TypeOK', [ListedStep]_vars
    PROVE  StoredRiskStep
<1> SUFFICES ASSUME NEW v \in User, TakesRisk(v)
             PROVE  StoredDebtUsd(v)' <= RealCollateralUsd(v)'
    BY DEF StoredRiskStep
<1>1. ~(UncheckedStep \/ UNCHANGED vars)
    BY UncheckedIsSafe
<1>2. \A l, u \in User, d, c \in Market, a \in U64 : \A rest :
         ~Liquidate(l, u, d, c, a, rest)
    BY LiquidationSeizes
<1>3. PICK u \in User, m \in Market, a \in U64 : \E rest :
         /\ ListsDebts(u, rest \cup {m})
         /\ Withdraw(u, m, a, rest) \/ Borrow(u, m, a, rest)
    BY <1>1, <1>2 DEF ListedStep
<1>4. u = v
    BY <1>3, OwnRisk
<1> QED
    BY <1>3, <1>4, CoveredStep

\* A client that misses no active position lists all debts.
LEMMA NextIsListed ==
    ASSUME CompleteListing, LedgerInv, [Next]_vars
    PROVE  [ListedStep]_vars
<1>1. /\ ClaimAmounts \subseteq U64
      /\ \A m \in Market : Amounts[m] \subseteq U64 /\ Quotes[m] \subseteq Quote
    BY InputAssumption
<1>2. ASSUME NEW u \in User, NEW m \in Market, NEW rest \in ClientListings(u, m)
      PROVE  ListsDebts(u, rest \cup {m})
  <2>1. rest = {k \in Market \ {m} : <<u, k>> \in opened /\ Active(u, k)}
      BY <1>2 DEF ClientListings, OtherPositions
  <2>2. \A k \in Market : borrowed[u][k] \in Nat
    <3>1. \A k \in Market : borrowed[u][k] \in U64
        BY DEF LedgerInv, TypeOK
    <3> QED
        BY <3>1, Scales
  <2>3. \A k \in Market : borrowed[u][k] # 0 => <<u, k>> \in opened /\ Active(u, k)
      BY <2>2 DEF LedgerInv, MarketsFirst, Active
  <2> QED
      BY <2>1, <2>3 DEF ListsDebts
<1>3. CASE Faucet
    BY <1>1, <1>3 DEF Faucet, ListedStep, UncheckedStep
<1>4. CASE Modify
    BY <1>1, <1>2, <1>4 DEF Modify, ListedStep, UncheckedStep
<1>5. CASE Liquidation
  <2>1. PICK l \in User, u \in User, p \in LiquidationPairs :
           \E a \in Amounts[p[1]], rest \in LiquidatorListings(u, p[1], p[2]) :
              Liquidate(l, u, p[1], p[2], a, rest)
      BY <1>5 DEF Liquidation
  <2>2. p[1] \in Market /\ p[2] \in Market
      BY MarketAssumption
  <2>3. PICK a \in U64 : \E rest : Liquidate(l, u, p[1], p[2], a, rest)
      BY <1>1, <2>1, <2>2
  <2> QED
      BY <2>2, <2>3 DEF ListedStep
<1>6. CASE World
    BY <1>1, <1>6 DEF World, ListedStep, UncheckedStep
<1> QED
    BY <1>3, <1>4, <1>5, <1>6 DEF Next, Trade

LEMMA ListedRisksAreCovered == Program /\ [][ListedStep]_vars => StoredRiskIsCovered
<1>1. LedgerInv /\ LedgerInv' /\ [ListedStep]_vars => [StoredRiskStep]_vars
    BY StoredRiskStepHolds DEF LedgerInv
<1> QED
    BY <1>1, ProgramKeepsLedger, PTL DEF StoredRiskIsCovered, StoredRiskStep

LEMMA SpecIsListed == CompleteListing => (Spec => [][ListedStep]_vars)
<1> SUFFICES ASSUME CompleteListing
             PROVE  Spec => [][ListedStep]_vars
    OBVIOUS
<1>1. LedgerInv /\ [Next]_vars => [ListedStep]_vars
    BY NextIsListed
<1> QED
    BY <1>1, LedgerInvariant, PTL DEF Spec

\* Whatever interest the markets charge: withdraw and borrow leave who takes
\* the risk within his collateral over all markets, his debts counted as his
\* positions store them.  The accumulators of the check may saturate.
THEOREM StoredRisksAreCovered == CompleteListing => (Spec => StoredRiskIsCovered)
BY ListedRisksAreCovered, SpecIsListed, SpecIsProgram, PTL

-----------------------------------------------------------------------------
(* What remains covered when interest accrues.                             *)

\* A debt grows no faster than the index it is dated by.
LEMMA DebtShare ==
    ASSUME LedgerInv, NEW u \in User, NEW m \in Market, borrowed[u][m] > 0
    PROVE  /\ borrowed[u][m] \in Nat /\ Debt(u, m) \in Nat
           /\ snapshot[u][m] \in Nat \ {0} /\ CurrentIndex(m) \in Nat
           /\ snapshot[u][m] <= CurrentIndex(m)
           /\ Debt(u, m) * snapshot[u][m] <= borrowed[u][m] * CurrentIndex(m)
<1> DEFINE b == borrowed[u][m]
           s == snapshot[u][m]
           i == CurrentIndex(m)
<1>1. b \in Nat /\ Debt(u, m) \in Nat /\ i \in Nat /\ index[m] \in Nat /\ index[m] <= i
  <2>1. b \in U64 /\ index[m] \in U128
      BY DEF LedgerInv, TypeOK
  <2>2. Debt(u, m) \in U64 /\ i \in U128 /\ i >= index[m]
      BY DebtType, CurrentIndexGrows DEF LedgerInv
  <2> HIDE DEF i, b
  <2> QED
      BY <2>1, <2>2, Scales
<1>2. s \in Nat \ {0} /\ s <= i
  <2>1. s \in RateScale..index[m]
      BY DEF LedgerInv, DebtDated
  <2> HIDE DEF s, i
  <2> QED
      BY <1>1, <2>1, Scales
<1>3. Debt(u, m) * s <= b * i
  <2>1. CASE s = i
    <3>1. Debt(u, m) = b
        BY <2>1 DEF Debt, RestatedDebt
    <3> HIDE DEF b, s, i
    <3>2. b * i \in Nat
        BY <1>1
    <3> QED
        BY <2>1, <3>1, <3>2
  <2>2. CASE s # i
    <3> DEFINE q == SatMul(b, i) \div s
    <3>1. Debt(u, m) = ToU64(q)
        BY <1>1, <1>2, <2>2 DEF Debt, RestatedDebt
    <3> HIDE DEF b, s, i
    <3>2. SatMul(b, i) \in Nat /\ SatMul(b, i) <= b * i /\ b * i \in Nat
        BY <1>1, Saturated
    <3>3. q \in Nat /\ q * s <= SatMul(b, i)
        BY <1>2, <3>2, Quotient
    <3> HIDE DEF q
    <3>4. Debt(u, m) <= q
        BY <3>1, <3>3, WidthAssumption DEF ToU64, Least
    <3>5. Debt(u, m) * s <= q * s /\ q * s \in Nat /\ Debt(u, m) * s \in Nat
        BY <1>1, <1>2, <3>3, <3>4, ProductMonotone
    <3> QED
        BY <3>2, <3>3, <3>5
  <2> QED
      BY <2>1, <2>2
<1> QED
    BY <1>1, <1>2, <1>3

\* Saturating a product by the same factor keeps a ratio of at least one.
LEMMA SatMulShare ==
    ASSUME NEW x \in Nat, NEW y \in Nat, NEW n \in Nat, NEW s \in Nat, NEW i \in Nat,
           s <= i, x * s <= y * i
    PROVE  SatMul(x, n) * s <= SatMul(y, n) * i
<1> DEFINE X == SatMul(x, n)
           Y == SatMul(y, n)
<1> SUFFICES X * s <= Y * i
    OBVIOUS
<1>1. x * n \in Nat /\ y * n \in Nat /\ U128Max \in Nat
    BY WidthAssumption
<1>2. X \in Nat /\ X <= x * n /\ X <= U128Max /\ Y \in Nat
    BY Saturated
<1>3. Y = y * n \/ Y = U128Max
    BY DEF SatMul, Least
<1> HIDE DEF X, Y
<1>4. CASE Y = U128Max
  <2>1. X * s <= U128Max * s /\ X * s \in Nat
      BY <1>1, <1>2, ProductMonotone
  <2>2. s * U128Max <= i * U128Max
      BY <1>1, ProductMonotone
  <2>3. /\ s * U128Max = U128Max * s /\ i * U128Max = U128Max * i
        /\ U128Max * s \in Nat /\ U128Max * i \in Nat
      BY <1>1
  <2> QED
      BY <1>4, <2>1, <2>2, <2>3
<1>5. CASE Y = y * n
  <2>1. X * s <= (x * n) * s /\ X * s \in Nat
      BY <1>1, <1>2, ProductMonotone
  <2>2. (x * s) * n <= (y * i) * n
    <3>1. x * s \in Nat /\ y * i \in Nat
        OBVIOUS
    <3> QED
        BY <3>1, ProductMonotone
  <2>3. /\ (x * s) * n = (x * n) * s /\ (y * i) * n = (y * n) * i
        /\ (x * n) * s \in Nat /\ (y * n) * i \in Nat
      OBVIOUS
  <2> QED
      BY <1>5, <2>1, <2>2, <2>3
<1> QED
    BY <1>3, <1>4, <1>5

\* The worth of a debt grows no faster either, but for the part of a unit that
\* pricing drops, and whatever saturates.
LEMMA WorthShare ==
    ASSUME NEW b \in Nat, NEW d \in Nat, NEW s \in Nat \ {0}, NEW i \in Nat, s <= i,
           d * s <= b * i, NEW q \in Quote
    PROVE  TokenUsd(d, q) * s <= i * (TokenUsd(b, q) + 1)
<1>1. TokenUsd(d, q) \in Nat /\ TokenUsd(b, q) \in Nat
    BY WorthType, Scales
<1>2. CASE q.price <= 0
  <2>1. TokenUsd(d, q) = 0
      BY <1>2, WorthlessAtNoPrice
  <2> QED
      BY <1>1, <2>1
<1>3. CASE q.price > 0
  <2> DEFINE p == q.price
  <2>1. p \in Nat /\ U128Max \in Nat
      BY <1>3, ShiftType, WidthAssumption
  <2>2. PICK up \in Nat \ {0}, down \in Nat \ {0} :
           \A a \in Nat : /\ SatMul(a, p) \in Nat
                          /\ TokenUsd(a, q) = IF Shift(q) >= 0 THEN SatMul(SatMul(a, p), up)
                                              ELSE SatMul(a, p) \div down
      BY <1>3, WorthAtPrice
  <2> HIDE DEF p
  <2>3. \A x, y, n \in Nat : x * s <= y * i => SatMul(x, n) * s <= SatMul(y, n) * i
      BY SatMulShare
  <2>4. SatMul(d, p) * s <= SatMul(b, p) * i
      BY <2>1, <2>3
  <2> DEFINE rd == SatMul(d, p)
             rb == SatMul(b, p)
  <2>5. rd \in Nat /\ rb \in Nat /\ rd * s <= rb * i
      BY <2>2, <2>4
  <2>6. /\ TokenUsd(d, q) = IF Shift(q) >= 0 THEN SatMul(rd, up) ELSE rd \div down
        /\ TokenUsd(b, q) = IF Shift(q) >= 0 THEN SatMul(rb, up) ELSE rb \div down
      BY <2>2
  <2> HIDE DEF rd, rb
  <2>7. CASE Shift(q) >= 0
    <3>1. TokenUsd(d, q) * s <= TokenUsd(b, q) * i
        BY <2>3, <2>5, <2>6, <2>7
    <3>2. TokenUsd(b, q) * i <= i * (TokenUsd(b, q) + 1)
        BY <1>1
    <3>3. /\ TokenUsd(d, q) * s \in Nat /\ TokenUsd(b, q) * i \in Nat
          /\ i * (TokenUsd(b, q) + 1) \in Nat
        BY <1>1
    <3> QED
        BY <3>1, <3>2, <3>3
  <2>8. CASE ~(Shift(q) >= 0)
    <3> DEFINE td == TokenUsd(d, q)
               tb == TokenUsd(b, q)
    <3>1. td \in Nat /\ tb \in Nat /\ td * down <= rd /\ rb <= (tb + 1) * down
        BY <1>1, <2>5, <2>6, <2>8, Quotient
    <3> HIDE DEF td, tb
    <3>2. (td * down) * s <= rd * s
        BY <2>5, <3>1, ProductMonotone
    <3>3. rb * i <= ((tb + 1) * down) * i
        BY <2>5, <3>1, ProductMonotone
    <3>4. /\ (td * down) * s = (td * s) * down
          /\ ((tb + 1) * down) * i = (i * (tb + 1)) * down
        BY <3>1
    <3>5. (td * s) * down <= (i * (tb + 1)) * down
      <4>1. (td * down) * s \in Nat /\ rd * s \in Nat /\ rb * i \in Nat
            /\ ((tb + 1) * down) * i \in Nat
          BY <2>5, <3>1
      <4> QED
          BY <2>5, <3>2, <3>3, <3>4, <4>1
    <3>6. td * s \in Nat /\ i * (tb + 1) \in Nat
        BY <3>1
    <3> QED
        BY <3>5, <3>6, ProductCancels DEF td, tb
  <2> QED
      BY <2>7, <2>8
<1> QED
    BY <1>2, <1>3 DEF Quote

\* A count is one member's and that of the others.
LEMMA CountSplit ==
    ASSUME NEW K, NEW S, IsFiniteSet(S), NEW x \in S
    PROVE  Cardinality(K \cap S)
             = (IF x \in K THEN 1 ELSE 0) + Cardinality(K \cap (S \ {x}))
<1>1. IsFiniteSet(K \cap S) /\ Cardinality(K \cap S) \in Nat
    BY FS_Subset, FS_CardinalityType
<1>2. CASE x \in K
  <2>1. K \cap (S \ {x}) = (K \cap S) \ {x} /\ x \in K \cap S
      BY <1>2
  <2>2. Cardinality((K \cap S) \ {x}) = Cardinality(K \cap S) - 1
      BY <1>1, <2>1, FS_RemoveElement
  <2>3. Cardinality(K \cap (S \ {x})) = Cardinality(K \cap S) - 1
      BY <2>1, <2>2
  <2>4. Cardinality(K \cap S) = 1 + Cardinality(K \cap (S \ {x}))
      BY <1>1, <2>3
  <2> QED
      BY <1>2, <2>4
<1>3. CASE x \notin K
  <2>1. K \cap (S \ {x}) = K \cap S
      BY <1>3
  <2> QED
      BY <1>1, <1>3, <2>1
<1> QED
    BY <1>2, <1>3

\* Where each share of f is within i/s of the one of g, or of a unit more in K,
\* the sums are, with a unit for each member of K.
LEMMA SharesAdd ==
    ASSUME NEW T, IsFiniteSet(T), NEW K \in SUBSET T, NEW f, NEW g,
           NEW s \in Nat, NEW i \in Nat,
           \A m \in T : /\ f[m] \in U128 /\ g[m] \in U128
                        /\ f[m] * s <= i * (g[m] + IF m \in K THEN 1 ELSE 0)
    PROVE  Sum(f, T) * s <= i * (Sum(g, T) + Cardinality(K))
<1> DEFINE Within(S) == Sum(f, S) * s <= i * (Sum(g, S) + Cardinality(K \cap S))
           Wrong == {S \in SUBSET T : ~Within(S)}
<1>1. ASSUME NEW S \in SUBSET T
      PROVE  /\ IsFiniteSet(S) /\ Sum(f, S) \in Nat /\ Sum(g, S) \in Nat
             /\ IsFiniteSet(K \cap S) /\ Cardinality(K \cap S) \in Nat
  <2>1. IsFiniteSet(S) /\ IsFiniteSet(K \cap S)
      BY FS_Subset
  <2> QED
      BY <2>1, WorthFinite, FS_CardinalityType
<1>2. ASSUME Wrong # {} PROVE FALSE
  <2>1. IsWellFoundedOn(StrictSubsetOrdering(T), SUBSET T)
      BY FS_StrictSubsetOrderingWellFounded, FS_FiniteSubsetsOfFinite
  <2>2. PICK S \in Wrong : \A R \in Wrong : <<R, S>> \notin StrictSubsetOrdering(T)
    <3>1. Wrong \subseteq SUBSET T
        OBVIOUS
    <3> QED
        BY <1>2, <2>1, <3>1, WFMin
  <2>3. S \in SUBSET T /\ ~Within(S)
      BY <2>2
  <2>4. ASSUME S = {} PROVE FALSE
    <3>1. Sum(f, S) = 0
        BY <2>4, SumEmpty
    <3>2. Sum(g, S) \in Nat /\ Cardinality(K \cap S) \in Nat
        BY <1>1, <2>3
    <3>3. Within(S)
        BY <3>1, <3>2
    <3> QED
        BY <2>3, <3>3
  <2>5. ASSUME NEW x \in S PROVE FALSE
    <3> DEFINE R == S \ {x}
               one == IF x \in K THEN 1 ELSE 0
    <3>1. R \in SUBSET T /\ <<R, S>> \in StrictSubsetOrdering(T)
        BY <2>3, <2>5 DEF StrictSubsetOrdering
    <3>2. Within(R)
        BY <2>2, <3>1
    <3>3. /\ f[x] \in U128 /\ g[x] \in U128 /\ f[x] \in Nat /\ g[x] \in Nat
          /\ f[x] * s <= i * (g[x] + one)
        BY <2>3, <2>5, Scales
    <3>4. Sum(f, S) = f[x] + Sum(f, R) /\ Sum(g, S) = g[x] + Sum(g, R)
        BY <1>1, <2>3, <2>5, <3>3, SumSplit
    <3>5. Cardinality(K \cap S) = one + Cardinality(K \cap R)
        BY <1>1, <2>3, <2>5, CountSplit
    <3>6. /\ Sum(f, R) \in Nat /\ Sum(g, R) \in Nat /\ Cardinality(K \cap R) \in Nat
          /\ one \in Nat
        BY <1>1, <3>1
    <3> DEFINE F == Sum(f, R)
               G == Sum(g, R)
               n == Cardinality(K \cap R)
               v == f[x]
               w == g[x]
    <3>7. /\ F \in Nat /\ G \in Nat /\ n \in Nat /\ v \in Nat /\ w \in Nat /\ one \in Nat
          /\ F * s <= i * (G + n) /\ v * s <= i * (w + one)
        BY <3>2, <3>3, <3>6
    <3>8. Sum(f, S) = v + F /\ Sum(g, S) = w + G /\ Cardinality(K \cap S) = one + n
        BY <3>4, <3>5
    <3> HIDE DEF F, G, n, v, w, one
    <3>9. (v + F) * s <= i * ((w + G) + (one + n))
      <4>1. (v + F) * s = v * s + F * s
          BY <3>7
      <4>2. i * ((w + G) + (one + n)) = i * (w + one) + i * (G + n)
          BY <3>7
      <4>3. v * s \in Nat /\ F * s \in Nat /\ i * (w + one) \in Nat /\ i * (G + n) \in Nat
          BY <3>7
      <4> QED
          BY <3>7, <4>1, <4>2, <4>3
    <3>10. Within(S)
        BY <3>8, <3>9
    <3> QED
        BY <2>3, <3>10
  <2> QED
      BY <2>4, <2>5
<1>3. Within(T)
    BY <1>2
<1>4. K \cap T = K
    OBVIOUS
<1> QED
    BY <1>3, <1>4

\* What all debts have grown to.
GrownDebts ==
    \A u \in User, k \in Market :
        GrewMost(u, k) =>
            /\ snapshot[u][k] \in Nat /\ CurrentIndex(k) \in Nat
            /\ RealDebtUsd(u) \in Nat /\ StoredDebtUsd(u) \in Nat
            /\ RealCollateralUsd(u) \in Nat /\ Cardinality(Overdue(u)) \in Nat
            /\ RealDebtUsd(u) * snapshot[u][k]
                 <= CurrentIndex(k) * (StoredDebtUsd(u) + Cardinality(Overdue(u)))

LEMMA GrownDebtsHold == LedgerInv => GrownDebts
<1> SUFFICES ASSUME LedgerInv, NEW u \in User, NEW k \in Market, GrewMost(u, k)
             PROVE  /\ snapshot[u][k] \in Nat /\ CurrentIndex(k) \in Nat
                    /\ RealDebtUsd(u) \in Nat /\ StoredDebtUsd(u) \in Nat
                    /\ RealCollateralUsd(u) \in Nat /\ Cardinality(Overdue(u)) \in Nat
                    /\ RealDebtUsd(u) * snapshot[u][k]
                         <= CurrentIndex(k) * (StoredDebtUsd(u) + Cardinality(Overdue(u)))
    BY DEF GrownDebts
<1> DEFINE s == snapshot[u][k]
           i == CurrentIndex(k)
           f == DebtValue(Owed[u])
           g == DebtValue(borrowed[u])
           K == Overdue(u)
<1>1. TypeOK /\ IsFiniteSet(Market)
    BY MarketAssumption DEF LedgerInv
<1>2. /\ s \in Nat \ {0} /\ i \in Nat /\ s <= i
      /\ \A m \in Market : borrowed[u][m] > 0 => CurrentIndex(m) * s <= i * snapshot[u][m]
    BY DebtShare DEF GrewMost
<1>3. /\ borrowed[u] \in [Market -> Nat]
      /\ \A m \in Market : borrowed[u][m] \in Nat
      /\ Owed[u] \in [Market -> Nat] /\ \A m \in Market : Owed[u][m] = Debt(u, m)
  <2>1. borrowed[u] \in [Market -> U64]
      BY <1>1 DEF TypeOK
  <2> QED
      BY <1>1, <2>1, DebtIsNat, Scales DEF Owed
<1>4. f \in [Market -> U128] /\ g \in [Market -> U128]
    BY <1>1, <1>3, ValueTypes
<1>5. K \in SUBSET Market /\ IsFiniteSet(K) /\ Cardinality(K) \in Nat
  <2>1. K \in SUBSET Market
      BY DEF Overdue
  <2> QED
      BY <1>1, <2>1, FS_Subset, FS_CardinalityType
<1>6. ASSUME NEW m \in Market
      PROVE  f[m] * s <= i * (g[m] + IF m \in K THEN 1 ELSE 0)
  <2>1. /\ f[m] = TokenUsd(Debt(u, m), price[m]) /\ g[m] = TokenUsd(borrowed[u][m], price[m])
        /\ price[m] \in Quote /\ MaxLtv[m] \in Nat
      BY <1>1, <1>3, MarketAssumption DEF DebtValue, TypeOK
  <2>2. f[m] \in Nat /\ g[m] \in Nat
      BY <1>4, Scales
  <2> HIDE DEF f, g, s, i, K
  <2>3. CASE borrowed[u][m] = 0
    <3>1. Debt(u, m) = 0
        BY <1>1, <2>3, DebtType
    <3>2. f[m] = 0
        BY <2>1, <3>1, NothingIsWorthless
    <3> QED
        BY <1>2, <2>2, <3>2
  <2>4. CASE borrowed[u][m] > 0 /\ m \notin K
    <3>1. Debt(u, m) = borrowed[u][m]
        BY <2>4 DEF Overdue, Debt, RestatedDebt, K
    <3>2. f[m] = g[m] /\ s * g[m] <= i * g[m]
        BY <1>2, <2>1, <2>2, <3>1, ProductMonotone
    <3>3. f[m] * s = s * g[m] /\ (IF m \in K THEN 1 ELSE 0) = 0
        BY <1>2, <2>2, <2>4, <3>2
    <3> QED
        BY <2>2, <3>2, <3>3
  <2>5. CASE borrowed[u][m] > 0 /\ m \in K
    <3> DEFINE b == borrowed[u][m]
               d == Debt(u, m)
               sm == snapshot[u][m]
               im == CurrentIndex(m)
    <3>1. /\ b \in Nat /\ d \in Nat /\ sm \in Nat \ {0} /\ im \in Nat
          /\ d * sm <= b * im /\ im * s <= i * sm
        BY <1>2, <2>5, DebtShare
    <3>2. f[m] = TokenUsd(d, price[m]) /\ g[m] = TokenUsd(b, price[m])
        BY <2>1
    <3> HIDE DEF b, d, sm, im
    <3>3. d * s <= b * i
      <4>1. b * im = im * b /\ b * i = i * b
          BY <1>2, <3>1
      <4>2. d * s <= i * b
          BY <1>2, <3>1, <4>1, ShareOfShare
      <4> QED
          BY <4>1, <4>2
    <3> QED
        BY <1>2, <2>1, <2>5, <3>1, <3>2, <3>3, WorthShare
  <2> QED
      BY <1>3, <2>3, <2>4, <2>5
<1>7. /\ RealDebtUsd(u) = Least(Sum(f, Market), U128Max)
      /\ StoredDebtUsd(u) = Least(Sum(g, Market), U128Max)
      /\ RealCollateralUsd(u) = Least(Sum(CollateralValue(supplied[u]), Market), U128Max)
    BY <1>1, RealSumsHold, StoredSumsHold DEF RealSums, StoredSums
<1>8. /\ Sum(f, Market) \in Nat /\ Sum(g, Market) \in Nat /\ U128Max \in Nat
      /\ Sum(CollateralValue(supplied[u]), Market) \in Nat
    BY <1>1, WorthFinite, WidthAssumption
<1>9. Sum(f, Market) * s <= i * (Sum(g, Market) + Cardinality(K))
  <2> HIDE DEF f, g, s, i, K
  <2>1. \A m \in Market : f[m] \in U128 /\ g[m] \in U128
      BY <1>4
  <2> QED
      BY <1>1, <1>2, <1>5, <1>6, <2>1, SharesAdd
<1> DEFINE F == Sum(f, Market)
           G == Sum(g, Market)
           n == Cardinality(K)
<1>10. Least(F, U128Max) * s <= i * (Least(G, U128Max) + n)
  <2>1. F \in Nat /\ G \in Nat /\ n \in Nat /\ F * s <= i * (G + n)
      BY <1>5, <1>8, <1>9
  <2> HIDE DEF F, G, n, s, i
  <2>2. Least(F, U128Max) \in Nat /\ Least(F, U128Max) <= F /\ Least(F, U128Max) <= U128Max
      BY <1>8, <2>1 DEF Least
  <2>3. CASE G <= U128Max
    <3>1. Least(G, U128Max) = G
        BY <2>3 DEF Least
    <3>2. Least(F, U128Max) * s <= F * s
        BY <1>2, <2>1, <2>2, ProductMonotone
    <3>3. Least(F, U128Max) * s \in Nat /\ F * s \in Nat /\ i * (G + n) \in Nat
        BY <1>2, <2>1, <2>2
    <3> QED
        BY <2>1, <3>1, <3>2, <3>3
  <2>4. CASE G > U128Max
    <3>1. Least(G, U128Max) = U128Max
        BY <1>8, <2>1, <2>4 DEF Least
    <3>2. Least(F, U128Max) * s <= U128Max * s
        BY <1>2, <1>8, <2>2, ProductMonotone
    <3>3. s * U128Max <= i * U128Max
        BY <1>2, <1>8, ProductMonotone
    <3>4. U128Max * s = s * U128Max /\ i * U128Max <= i * (U128Max + n)
      <4>1. i * (U128Max + n) = i * U128Max + i * n /\ i * n \in Nat /\ i * U128Max \in Nat
          BY <1>2, <1>8, <2>1
      <4> QED
          BY <1>2, <1>8, <4>1
    <3>5. Least(F, U128Max) * s \in Nat /\ s * U128Max \in Nat /\ i * U128Max \in Nat
          /\ i * (U128Max + n) \in Nat
        BY <1>2, <1>8, <2>1, <2>2
    <3> QED
        BY <3>1, <3>2, <3>3, <3>4, <3>5
  <2> QED
      BY <1>8, <2>1, <2>3, <2>4
<1>11. RealDebtUsd(u) \in Nat /\ StoredDebtUsd(u) \in Nat /\ RealCollateralUsd(u) \in Nat
    BY <1>7, <1>8 DEF Least
<1> QED
    BY <1>2, <1>5, <1>7, <1>10, <1>11

\* What GrownRiskIsCovered says of a step.
GrownRiskStep ==
    \A u \in User, k \in Market :
        TakesRisk(u) /\ GrewMost(u, k)' =>
            RealDebtUsd(u)' * snapshot'[u][k]
              <= CurrentIndex(k)' * (RealCollateralUsd(u)' + Cardinality(Overdue(u)'))

LEMMA GrownRiskStepHolds ==
    ASSUME GrownDebts', StoredRiskStep
    PROVE  GrownRiskStep
<1> SUFFICES ASSUME NEW u \in User, NEW k \in Market, TakesRisk(u), GrewMost(u, k)'
             PROVE  RealDebtUsd(u)' * snapshot'[u][k]
                      <= CurrentIndex(k)' * (RealCollateralUsd(u)' + Cardinality(Overdue(u)'))
    BY DEF GrownRiskStep
<1> DEFINE s == snapshot'[u][k]
           i == CurrentIndex(k)'
           owed == RealDebtUsd(u)'
           stored == StoredDebtUsd(u)'
           has == RealCollateralUsd(u)'
           n == Cardinality(Overdue(u)')
<1>1. /\ s \in Nat /\ i \in Nat /\ owed \in Nat /\ stored \in Nat /\ has \in Nat /\ n \in Nat
      /\ owed * s <= i * (stored + n)
    BY DEF GrownDebts
<1>2. stored <= has
    BY DEF StoredRiskStep
<1> HIDE DEF s, i, owed, stored, has, n
<1>3. (stored + n) * i <= (has + n) * i
    BY <1>1, <1>2, ProductMonotone
<1>4. /\ (stored + n) * i = i * (stored + n) /\ (has + n) * i = i * (has + n)
      /\ owed * s \in Nat /\ i * (stored + n) \in Nat /\ i * (has + n) \in Nat
    BY <1>1
<1>5. owed * s <= i * (has + n)
    BY <1>1, <1>3, <1>4
<1> QED
    BY <1>5 DEF s, i, owed, has, n

LEMMA ListedRisksGrow == Program /\ [][ListedStep]_vars => GrownRiskIsCovered
<1>1. LedgerInv /\ LedgerInv' /\ [ListedStep]_vars => [StoredRiskStep]_vars
    BY StoredRiskStepHolds DEF LedgerInv
<1>2. LedgerInv => GrownDebts
    BY GrownDebtsHold
<1>3. GrownDebts' /\ [StoredRiskStep]_vars => [GrownRiskStep]_vars
    BY GrownRiskStepHolds
<1> QED
    BY <1>1, <1>2, <1>3, ProgramKeepsLedger, PTL DEF GrownRiskIsCovered, GrownRiskStep

\* Whatever interest the markets charge, and however long ago the positions
\* were touched: who takes a risk owes, over all markets, no more than his
\* collateral allows, grown as the index of one of his debts has, and a unit
\* for each debt that has grown.  Where nothing is overdue, the health check
\* of withdraw and borrow is one of all that the user really owes and has.
THEOREM GrownRisksAreCovered == CompleteListing => (Spec => GrownRiskIsCovered)
BY ListedRisksGrow, SpecIsListed, SpecIsProgram, PTL

-----------------------------------------------------------------------------
(* Only a borrower under water is seized from.                             *)

\* Markets, outside of which u has no collateral.
ListsSupplies(u, S) == S \subseteq Market /\ CollateralWithin(u, S)

\* Added one by one or all together, accumulators agree.
LEMMA PairAndRest ==
    ASSUME NEW f \in [Market -> U128], NEW d \in Market, NEW c \in Market, d # c,
           NEW rest \in SUBSET (Market \ {d, c})
    PROVE  SatAdd(SatAdd(Least(Sum(f, {d}), U128Max), Least(Sum(f, {c}), U128Max)),
                  Least(Sum(f, rest), U128Max))
             = Least(Sum(f, {d, c} \cup rest), U128Max)
<1> DEFINE M == U128Max
           T == Sum(f, rest)
<1>1. M \in Nat /\ f[d] \in U128 /\ f[c] \in U128
    BY WidthAssumption
<1>2. f[d] \in Nat /\ f[c] \in Nat
    BY <1>1 DEF U128
<1>3. IsFiniteSet(rest) /\ IsFiniteSet({c} \cup rest) /\ IsFiniteSet({d, c} \cup rest)
    BY MarketAssumption, FS_Subset
<1>4. IsFiniteSet({d}) /\ IsFiniteSet({c})
    BY FS_Singleton
<1>5. Sum(f, {d}) = f[d] /\ Sum(f, {c}) = f[c]
  <2>1. {d} \ {d} = {} /\ {c} \ {c} = {}
      OBVIOUS
  <2>2. Sum(f, {d}) = f[d] + Sum(f, {d} \ {d}) /\ Sum(f, {c}) = f[c] + Sum(f, {c} \ {c})
      BY <1>1, <1>4, SumSplit
  <2> QED
      BY <1>2, <2>1, <2>2, SumEmpty
<1>6. T \in Nat /\ Sum(f, {c} \cup rest) = f[c] + T
  <2>1. ({c} \cup rest) \ {c} = rest
      OBVIOUS
  <2> QED
      BY <1>1, <1>3, <2>1, SumSplit
<1>7. Sum(f, {d, c} \cup rest) = f[d] + Sum(f, {c} \cup rest)
  <2>1. ({d, c} \cup rest) \ {d} = {c} \cup rest
      OBVIOUS
  <2> QED
      BY <1>1, <1>3, <2>1, SumSplit
<1> HIDE DEF T, M
<1>8. SatAdd(SatAdd(Least(f[d], M), Least(f[c], M)), Least(T, M)) = Least(f[d] + (f[c] + T), M)
    BY <1>1, <1>2, <1>6 DEF SatAdd, Least, M
<1> QED
    BY <1>5, <1>6, <1>7, <1>8 DEF T, M

LEMMA UnderwaterIsReal ==
    ASSUME TypeOK, DebtDated, ProductsFit, NEW u \in User,
           NEW d \in Market, NEW c \in Market, d # c,
           NEW rest \in SUBSET (Market \ {d, c}), ListsSupplies(u, {d, c} \cup rest),
           Underwater(u, d, c, rest)
    PROVE  RealDebtUsd(u) > RealCollateralUsd(u)
<1> DEFINE bor == [borrowed[u] EXCEPT ![d] = Debt(u, d), ![c] = Debt(u, c)]
           sup == supplied[u]
           S == {d, c} \cup rest
           f == DebtValue(bor)
           g == CollateralValue(sup)
           owes == DebtValue(Owed[u])
<1>1. /\ borrowed[u] \in [Market -> Nat] /\ sup \in [Market -> Nat]
      /\ \A m \in Market : Debt(u, m) \in Nat /\ price[m] \in Quote
  <2>1. borrowed[u] \in [Market -> U64] /\ supplied[u] \in [Market -> U64]
      BY DEF TypeOK
  <2> QED
      BY <2>1, DebtIsNat, Scales DEF TypeOK
<1>2. bor \in [Market -> Nat] /\ S \in SUBSET Market /\ IsFiniteSet(Market)
    BY <1>1, MarketAssumption
<1>3. \A m \in Market : bor[m] \in Nat /\ bor[m] <= Debt(u, m)
  <2>1. \A m \in Market : borrowed[u][m] <= Debt(u, m)
      BY DebtKeeps
  <2> QED
      BY <1>1, <1>2, <2>1
<1>4. f \in [Market -> U128] /\ g \in [Market -> U128] /\ owes \in [Market -> U128]
    BY <1>1, <1>2, ValueTypes, RealDebtIsSum
<1>5. /\ SatAdd(SatAdd(DebtUsd(bor, {d}), DebtUsd(bor, {c})), DebtUsd(bor, rest))
           = Least(Sum(f, S), U128Max)
      /\ SatAdd(SatAdd(CollateralUsd(sup, {d}), CollateralUsd(sup, {c})),
                CollateralUsd(sup, rest))
           = Least(Sum(g, S), U128Max)
  <2>1. /\ {d} \in SUBSET Market /\ {c} \in SUBSET Market /\ rest \in SUBSET Market
      OBVIOUS
  <2>2. /\ DebtUsd(bor, {d}) = Least(Sum(f, {d}), U128Max)
        /\ DebtUsd(bor, {c}) = Least(Sum(f, {c}), U128Max)
        /\ DebtUsd(bor, rest) = Least(Sum(f, rest), U128Max)
      BY <1>2, <2>1, DebtUsdIsSum
  <2>3. /\ CollateralUsd(sup, {d}) = Least(Sum(g, {d}), U128Max)
        /\ CollateralUsd(sup, {c}) = Least(Sum(g, {c}), U128Max)
        /\ CollateralUsd(sup, rest) = Least(Sum(g, rest), U128Max)
      BY <1>1, <2>1, CollateralUsdIsSum
  <2> HIDE DEF f, g, bor, sup
  <2> QED
      BY <1>4, <2>2, <2>3, PairAndRest
<1>6. Least(Sum(f, S), U128Max) > Least(Sum(g, S), U128Max)
    BY <1>5 DEF Underwater
<1>7. Sum(g, S) = Sum(g, Market)
  <2>1. \A m \in Market \ S : g[m] = 0
      BY <1>1, NothingIsWorthless, MarketAssumption DEF ListsSupplies, CollateralWithin, CollateralValue
  <2> QED
      BY <1>2, <2>1, SumOfRest
<1>8. Sum(f, S) \in Nat /\ Sum(owes, Market) \in Nat /\ Sum(f, S) <= Sum(owes, Market)
  <2>1. \A m \in S : f[m] \in Nat /\ owes[m] \in Nat
    <3>1. \A m \in S : f[m] \in U128 /\ owes[m] \in U128
        BY <1>2, <1>4
    <3> QED
        BY <3>1 DEF U128
  <2>2. \A m \in S : f[m] <= owes[m]
    <3> SUFFICES ASSUME NEW m \in S PROVE f[m] <= owes[m]
        OBVIOUS
    <3>1. f[m] = TokenUsd(bor[m], price[m]) /\ owes[m] = TokenUsd(Debt(u, m), price[m])
        BY <1>2 DEF DebtValue, Owed
    <3>2. bor[m] \in Nat /\ Debt(u, m) \in Nat /\ bor[m] <= Debt(u, m) /\ price[m] \in Quote
        BY <1>1, <1>2, <1>3
    <3> HIDE DEF f, owes, bor
    <3> QED
        BY <3>1, <3>2, TokenUsdMonotone
  <2> HIDE DEF f, owes, S
  <2> QED
      BY <1>2, <2>1, <2>2, SumMonotone
<1>9. Sum(g, Market) \in Nat /\ U128Max \in Nat
    BY <1>2, WidthAssumption, WorthFinite
<1>10. /\ RealDebtUsd(u) = Least(Sum(owes, Market), U128Max)
       /\ RealCollateralUsd(u) = Least(Sum(g, Market), U128Max)
    BY RealSumsHold DEF RealSums
<1> HIDE DEF f, g, owes, S, bor, sup
<1> QED
    BY <1>6, <1>7, <1>8, <1>9, <1>10 DEF Least

\* What ListedSeizureJustified says of a step.
JustifiedStep ==
    \A u \in User, p \in LiquidationPairs :
        Seized(u, p[2]) =>
            \A l \in User, a \in Amounts[p[1]],
               rest \in SUBSET (Market \ {p[1], p[2]}) :
                Liquidate(l, u, p[1], p[2], a, rest) /\ CollateralWithin(u, {p[1], p[2]} \cup rest)
                  => RealDebtUsd(u) > RealCollateralUsd(u)

LEMMA JustifiedStepHolds ==
    ASSUME CrossMarketOnly, LedgerInv, ProductsFit
    PROVE  JustifiedStep
<1> SUFFICES ASSUME NEW u \in User, NEW p \in LiquidationPairs,
                    NEW l \in User, NEW a \in Amounts[p[1]],
                    NEW rest \in SUBSET (Market \ {p[1], p[2]}),
                    Liquidate(l, u, p[1], p[2], a, rest),
                    CollateralWithin(u, {p[1], p[2]} \cup rest)
             PROVE  RealDebtUsd(u) > RealCollateralUsd(u)
    BY DEF JustifiedStep
<1>1. TypeOK /\ DebtDated /\ p[1] \in Market /\ p[2] \in Market /\ p[1] # p[2]
    BY MarketAssumption DEF LedgerInv, CrossMarketOnly
<1>2. ListsSupplies(u, {p[1], p[2]} \cup rest)
    BY <1>1 DEF ListsSupplies
<1>3. Underwater(u, p[1], p[2], rest)
    BY DEF Liquidate
<1> QED
    BY <1>1, <1>2, <1>3, UnderwaterIsReal

LEMMA ProgramJustifies ==
    CrossMarketOnly => (Program /\ []ProductsFit => ListedSeizureJustified)
<1> SUFFICES ASSUME CrossMarketOnly
             PROVE  Program /\ []ProductsFit => ListedSeizureJustified
    OBVIOUS
<1>1. LedgerInv /\ ProductsFit => JustifiedStep
    BY JustifiedStepHolds
<1> QED
    BY <1>1, ProgramKeepsLedger, PTL DEF ListedSeizureJustified, JustifiedStep

\* A liquidator chooses what he lists.  When that is all of the borrower's
\* collateral he seizes only from one who owes more, over all markets and
\* interest included, than the collateral allows: no debt the listing leaves
\* out, and none the check has not restated, makes a borrower look worse.
THEOREM SeizuresAreJustified ==
    CrossMarketOnly => (Spec /\ []ProductsFit => ListedSeizureJustified)
BY ProgramJustifies, SpecIsProgram, PTL

-----------------------------------------------------------------------------
(* No liquidation sinks its borrower.                                      *)

\* initialize_market takes an LTV of up to 9999 bps; LTV times bonus stays
\* below one up to 9523.
BonusBelowOne ==
    \A m \in Market :
        MaxLtv[m] * (BpsDenominator + LiquidationBonusBps) <= BpsDenominator * BpsDenominator

\* No debt is worth so much that its value, or the sum of them, saturates.
ValuesFit ==
    /\ \A u \in User, m \in Market : Debt(u, m) * price[m].price <= U128Max
    /\ \A u \in User : RealDebtUsd(u) < U128Max

LEMMA RepaymentLowersDebt ==
    ASSUME TypeOK, TypeOK', ValuesFit, NEW v \in User, NEW k \in Market, NEW d \in Market,
           NEW r, NEW s, SeizureOf(v, k, d, r, s)
    PROVE  /\ RealDebtUsd(v) \in Nat /\ RealDebtUsd(v)' \in Nat
           /\ RealDebtUsd(v)' + TokenUsd(r, price[d]) <= RealDebtUsd(v)
<1> DEFINE f == DebtValue(Owed[v])
           T == TokenUsd(r, price[d])
           R == Sum(f, Market \ {d})
<1>1. /\ r \in Nat /\ r <= Debt(v, d) /\ Debt(v, d)' = Debt(v, d) - r /\ price' = price
      /\ \A m \in Market \ {d} : Debt(v, m)' = Debt(v, m)
    BY DEF SeizureOf
<1>2. /\ Debt(v, d) \in Nat /\ Debt(v, d) - r \in Nat /\ price[d] \in Quote
      /\ price[d].price \in Int /\ (Debt(v, d) - r) + r = Debt(v, d)
    BY <1>1, DebtIsNat DEF TypeOK, Quote
<1>3. f \in [Market -> U128] /\ f' \in [Market -> U128]
  <2>1. f \in [Market -> U128]
      BY ValueTypes, RealDebtIsSum
  <2>2. Owed'[v] \in [Market -> Nat]
      BY RealSumsNext DEF RealSums
  <2>3. \A m \in Market : price'[m] \in Quote
      BY DEF TypeOK
  <2>4. \A m \in Market : TokenUsd(Owed'[v][m], price'[m]) \in U128
      BY <2>2, <2>3, WorthType
  <2> QED
      BY <2>1, <2>4 DEF DebtValue
<1>4. /\ f[d] = TokenUsd(Debt(v, d), price[d])
      /\ f'[d] = TokenUsd(Debt(v, d) - r, price[d])
      /\ \A m \in Market \ {d} : f'[m] = f[m]
    BY <1>1 DEF DebtValue, Owed
<1> HIDE DEF f
<1>5. /\ IsFiniteSet(Market) /\ U128Max \in Nat
      /\ f[d] \in Nat /\ f'[d] \in Nat
  <2>1. f[d] \in U128 /\ f'[d] \in U128
      BY <1>3
  <2> QED
      BY <2>1, MarketAssumption, WidthAssumption DEF U128
<1>6. R \in Nat /\ Sum(f, Market) = f[d] + R
    BY <1>3, <1>5, SumSplit
<1>7. Sum(f', Market) = f'[d] + R
  <2>1. Sum(f', Market) = f'[d] + Sum(f', Market \ {d})
      BY <1>3, <1>5, SumSplit
  <2>2. Sum(f', Market \ {d}) = R
      BY <1>4, SumSame
  <2> QED
      BY <2>1, <2>2
<1> HIDE DEF R
<1>8. /\ RealDebtUsd(v) = Least(f[d] + R, U128Max)
      /\ RealDebtUsd(v)' = Least(f'[d] + R, U128Max)
  <2>1. RealDebtUsd(v) = Least(Sum(f, Market), U128Max)
      BY RealSumsHold DEF RealSums, f
  <2>2. RealDebtUsd(v)' = Least(Sum(f', Market), U128Max)
      BY RealSumsNext DEF RealSums, f
  <2> QED
      BY <1>6, <1>7, <2>1, <2>2
<1>9. RealDebtUsd(v) < U128Max /\ Debt(v, d) * price[d].price <= U128Max
    BY DEF ValuesFit
<1>10. f[d] + R < U128Max
    BY <1>5, <1>6, <1>8, <1>9 DEF Least
<1>11. T \in Nat /\ f'[d] + T <= f[d]
  <2>1. TokenUsd(Debt(v, d), price[d]) < U128Max
      BY <1>4, <1>5, <1>6, <1>10
  <2>2. TokenUsd(Debt(v, d) - r, price[d]) + T <= TokenUsd(Debt(v, d), price[d])
      BY <1>1, <1>2, <1>9, <2>1, TokenUsdAdds
  <2>3. T \in Nat
      BY <1>1, <1>2, TokenUsdMonotone
  <2> QED
      BY <1>4, <2>2, <2>3
<1> HIDE DEF T
<1>12. f'[d] + R < U128Max
    BY <1>5, <1>6, <1>10, <1>11
<1>13. RealDebtUsd(v) = f[d] + R /\ RealDebtUsd(v)' = f'[d] + R
    BY <1>5, <1>6, <1>8, <1>10, <1>12 DEF Least
<1> QED
    BY <1>5, <1>6, <1>11, <1>13 DEF T

LEMMA SeizureLowersCollateral ==
    ASSUME BonusBelowOne, TypeOK, TypeOK', NEW v \in User, NEW k \in Market, NEW d \in Market,
           NEW r, NEW s, SeizureOf(v, k, d, r, s)
    PROVE  /\ RealCollateralUsd(v) \in Nat /\ RealCollateralUsd(v)' \in Nat
           /\ RealCollateralUsd(v) <= RealCollateralUsd(v)' + TokenUsd(r, price[d])
<1> DEFINE g == CollateralValue(supplied[v])
           T == TokenUsd(r, price[d])
           R == Sum(g, Market \ {k})
           left == supplied[v][k] - s
<1>1. /\ r \in Nat /\ s \in Nat /\ s <= supplied[v][k]
      /\ s <= SeizeFor(r, price[d], price[k])
      /\ supplied' = [supplied EXCEPT ![v][k] = @ - s] /\ price' = price
    BY DEF SeizureOf
<1>2. /\ supplied \in [User -> [Market -> U64]] /\ supplied[v][k] \in Nat
      /\ price[d] \in Quote /\ price[k] \in Quote
      /\ MaxLtv[k] \in Nat
    BY AmountsAreNat, MarketAssumption DEF TypeOK
<1>3. /\ left \in Nat /\ left + s = supplied[v][k]
      /\ supplied'[v][k] = left
      /\ \A m \in Market \ {k} : supplied'[v][m] = supplied[v][m]
    BY <1>1, <1>2
<1>4. g \in [Market -> U128] /\ g' \in [Market -> U128]
  <2>1. supplied[v] \in [Market -> Nat] /\ supplied'[v] \in [Market -> Nat]
      BY RealSumsHold, RealSumsNext DEF RealSums
  <2>2. g \in [Market -> U128]
      BY <2>1, ValueTypes
  <2>3. \A m \in Market : price'[m] \in Quote /\ MaxLtv[m] \in Nat
      BY MarketAssumption DEF TypeOK
  <2>4. \A m \in Market : CollateralAtLtv(supplied'[v][m], price'[m], MaxLtv[m]) \in U128
      BY <2>1, <2>3, WorthType
  <2> QED
      BY <2>2, <2>4 DEF CollateralValue
<1>5. /\ g[k] = CollateralAtLtv(left + s, price[k], MaxLtv[k])
      /\ g'[k] = CollateralAtLtv(left, price[k], MaxLtv[k])
      /\ \A m \in Market \ {k} : g'[m] = g[m]
    BY <1>1, <1>3 DEF CollateralValue
<1>6. T \in Nat
    BY <1>1, <1>2, TokenUsdMonotone
<1>7. g[k] <= g'[k] + T
  <2>1. MaxLtv[k] * (BpsDenominator + LiquidationBonusBps) <= BpsDenominator * BpsDenominator
      BY DEF BonusBelowOne
  <2> HIDE DEF g, left
  <2> QED
      BY <1>1, <1>2, <1>3, <1>5, <2>1, CollateralFalls
<1> HIDE DEF g, T
<1>8. /\ IsFiniteSet(Market) /\ U128Max \in Nat
      /\ g[k] \in Nat /\ g'[k] \in Nat
  <2>1. g[k] \in U128 /\ g'[k] \in U128
      BY <1>4
  <2> QED
      BY <2>1, MarketAssumption, WidthAssumption DEF U128
<1>9. R \in Nat /\ Sum(g, Market) = g[k] + R
    BY <1>4, <1>8, SumSplit
<1>10. Sum(g', Market) = g'[k] + R
  <2>1. Sum(g', Market) = g'[k] + Sum(g', Market \ {k})
      BY <1>4, <1>8, SumSplit
  <2>2. Sum(g', Market \ {k}) = R
      BY <1>5, SumSame
  <2> QED
      BY <2>1, <2>2
<1> HIDE DEF R
<1>11. /\ RealCollateralUsd(v) = Least(g[k] + R, U128Max)
       /\ RealCollateralUsd(v)' = Least(g'[k] + R, U128Max)
  <2>1. RealCollateralUsd(v) = Least(Sum(g, Market), U128Max)
      BY RealSumsHold DEF RealSums, g
  <2>2. RealCollateralUsd(v)' = Least(Sum(g', Market), U128Max)
      BY RealSumsNext DEF RealSums, g
  <2> QED
      BY <1>9, <1>10, <2>1, <2>2
<1>12. /\ RealCollateralUsd(v) \in Nat /\ RealCollateralUsd(v)' \in Nat
       /\ RealCollateralUsd(v) <= RealCollateralUsd(v)' + T
    BY <1>6, <1>7, <1>8, <1>9, <1>11 DEF Least
<1> QED
    BY <1>12 DEF T

\* What LiquidationHelps says of a step.
HelpfulStep ==
    \A u \in User, m \in Market :
        Seized(u, m) =>
            RealDebtUsd(u)' - RealCollateralUsd(u)' <= RealDebtUsd(u) - RealCollateralUsd(u)

LEMMA HelpfulStepHolds ==
    ASSUME CrossMarketOnly, BonusBelowOne, TypeOK, TypeOK', ValuesFit, [ProgramStep]_vars
    PROVE  HelpfulStep
<1> SUFFICES ASSUME NEW v \in User, NEW k \in Market, Seized(v, k)
             PROVE  RealDebtUsd(v)' - RealCollateralUsd(v)'
                      <= RealDebtUsd(v) - RealCollateralUsd(v)
    BY DEF HelpfulStep
<1>0. PICK d \in Market : \E r, s : SeizureOf(v, k, d, r, s)
    BY SeizureFacts
<1>1. PICK r, s : SeizureOf(v, k, d, r, s)
    BY <1>0
<1>2. r \in Nat /\ price[d] \in Quote
    BY <1>1 DEF SeizureOf, TypeOK
<1>3. TokenUsd(r, price[d]) \in Nat
    BY <1>2, TokenUsdMonotone
<1>4. /\ RealDebtUsd(v) \in Nat /\ RealDebtUsd(v)' \in Nat
      /\ RealDebtUsd(v)' + TokenUsd(r, price[d]) <= RealDebtUsd(v)
    BY <1>1, RepaymentLowersDebt
<1>5. /\ RealCollateralUsd(v) \in Nat /\ RealCollateralUsd(v)' \in Nat
      /\ RealCollateralUsd(v) <= RealCollateralUsd(v)' + TokenUsd(r, price[d])
    BY <1>1, SeizureLowersCollateral
<1> QED
    BY <1>3, <1>4, <1>5

LEMMA ProgramHelps ==
    CrossMarketOnly /\ BonusBelowOne => (Program /\ []ValuesFit => LiquidationHelps)
<1> SUFFICES ASSUME CrossMarketOnly, BonusBelowOne
             PROVE  Program /\ []ValuesFit => LiquidationHelps
    OBVIOUS
<1>1. LedgerInv /\ LedgerInv' /\ ValuesFit /\ [ProgramStep]_vars => [HelpfulStep]_vars
    BY HelpfulStepHolds DEF LedgerInv
<1> QED
    BY <1>1, ProgramKeepsLedger, PTL DEF Program, LiquidationHelps, HelpfulStep

\* Up to an LTV of 9523 bps, whatever is listed, repaid and rounded, and also
\* when the collateral runs out or the accumulator of the collateral saturates:
\* a liquidation lowers the debt by no less than what it takes out of the
\* collateral.
THEOREM LiquidationsHelp ==
    CrossMarketOnly /\ BonusBelowOne => (Spec /\ []ValuesFit => LiquidationHelps)
BY ProgramHelps, SpecIsProgram, PTL

===============================================================================
