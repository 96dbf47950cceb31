------------------------------ MODULE BankProofs ------------------------------
(***************************************************************************)
(* What users owe.  Debts move by tokens and time alone; what a market     *)
(* says it lent never outgrows its positions; and the program implements   *)
(* LendingBank: every instruction is one move of the bank, or none, with   *)
(* debts read at the index of the moment.                                  *)
(***************************************************************************)
EXTENDS ShadowLendProofs

\* accrue_position multiplies a debt by its market's index in 128 bits and
\* saturates.  While the product fits, what it computes is the debt; beyond it
\* a debt would shrink.  2^128 holds the greatest u64 at an index of 18.
ProductsFit ==
    \A u \in User, m \in Market : borrowed[u][m] * CurrentIndex(m) <= U128Max

-----------------------------------------------------------------------------
(* One debt.                                                               *)

\* Accruing now what reading the index computes anyway changes no reading.
LEMMA IndexStays ==
    ASSUME TypeOK, NEW M, AccrueMarkets(M), slot' = slot, NEW m \in Market
    PROVE  CurrentIndex(m)' = CurrentIndex(m)
<1>1. /\ lastSlot[m] \in Int /\ slot \in Int
      /\ index'[m] = (IF m \in M THEN CurrentIndex(m) ELSE index[m])
      /\ lastSlot'[m] = (IF m \in M /\ slot > lastSlot[m] THEN slot ELSE lastSlot[m])
  <2>1. lastSlot[m] \in 0..MaxSlot /\ slot \in 0..MaxSlot
      BY DEF TypeOK
  <2> QED
      BY <2>1 DEF AccrueMarkets
<1>2. CASE m \in M
  <2>1. slot' <= lastSlot'[m]
      BY <1>1, <1>2
  <2> QED
      BY <1>1, <1>2, <2>1 DEF CurrentIndex
<1>3. CASE m \notin M
    BY <1>1, <1>3 DEF CurrentIndex
<1> QED
    BY <1>2, <1>3

\* Nor does the clock make it fall.
LEMMA IndexWaits ==
    ASSUME TypeOK, AdvanceSlot, NEW m \in Market
    PROVE  CurrentIndex(m) <= CurrentIndex(m)'
<1>1. /\ index[m] \in U128 /\ index'[m] = index[m]
      /\ lastSlot[m] \in Nat /\ lastSlot'[m] = lastSlot[m]
      /\ slot \in Nat /\ slot' = slot + 1
      /\ Rate[m] \in Nat
    BY InputAssumption, MarketAssumption DEF TypeOK, AdvanceSlot, marketVars
<1>2. index[m] \in Nat
    BY <1>1, Scales
<1>3. CASE slot < lastSlot[m]
    BY <1>1, <1>2, <1>3 DEF CurrentIndex
<1>4. CASE slot = lastSlot[m]
  <2>1. CurrentIndex(m) = index[m] /\ CurrentIndex(m)' = GrownIndex(index[m], Rate[m], 1)
      BY <1>1, <1>4 DEF CurrentIndex
  <2> QED
      BY <1>1, <2>1, IndexNeverFalls
<1>5. CASE slot > lastSlot[m]
  <2>1. /\ CurrentIndex(m) = GrownIndex(index[m], Rate[m], slot - lastSlot[m])
        /\ CurrentIndex(m)' = GrownIndex(index[m], Rate[m], slot + 1 - lastSlot[m])
      BY <1>1, <1>5 DEF CurrentIndex
  <2>2. /\ slot - lastSlot[m] \in Nat /\ slot + 1 - lastSlot[m] \in Nat
        /\ slot - lastSlot[m] <= slot + 1 - lastSlot[m]
      BY <1>1, <1>5
  <2> QED
      BY <1>1, <2>1, <2>2, IndexGrowsWithTime
<1> QED
    BY <1>1, <1>3, <1>4, <1>5

LEMMA DebtIsNat ==
    ASSUME TypeOK, NEW u \in User, NEW m \in Market
    PROVE  Debt(u, m) \in Nat
<1>1. Debt(u, m) \in U64
    BY DebtType
<1> QED
    BY <1>1, Scales

LEMMA DebtStays ==
    ASSUME NEW u \in User, NEW m \in Market,
           borrowed'[u][m] = borrowed[u][m], snapshot'[u][m] = snapshot[u][m],
           CurrentIndex(m)' = CurrentIndex(m)
    PROVE  Debt(u, m)' = Debt(u, m)
BY DEF Debt

\* A debt written at the current index is what is owed.
LEMMA DebtWritten ==
    ASSUME NEW u \in User, NEW m \in Market,
           snapshot'[u][m] = CurrentIndex(m), CurrentIndex(m)' = CurrentIndex(m)
    PROVE  Debt(u, m)' = borrowed'[u][m]
<1>1. Debt(u, m)' = RestatedDebt(borrowed'[u][m], CurrentIndex(m), CurrentIndex(m))
    BY DEF Debt
<1> QED
    BY <1>1 DEF RestatedDebt

\* Restating never lowers a debt.
LEMMA DebtKeeps ==
    ASSUME TypeOK, DebtDated, ProductsFit, NEW u \in User, NEW m \in Market
    PROVE  borrowed[u][m] <= Debt(u, m)
<1>1. /\ borrowed[u][m] \in U64 /\ snapshot[u][m] \in Nat
      /\ CurrentIndex(m) \in Nat /\ CurrentIndex(m) >= index[m] /\ index[m] \in Nat
      /\ borrowed[u][m] * CurrentIndex(m) <= U128Max
  <2>1. borrowed[u][m] \in U64 /\ snapshot[u][m] \in U128 /\ index[m] \in U128
      BY DEF TypeOK
  <2>2. CurrentIndex(m) \in U128 /\ CurrentIndex(m) >= index[m]
      BY CurrentIndexGrows
  <2>3. borrowed[u][m] * CurrentIndex(m) <= U128Max
      BY DEF ProductsFit
  <2> QED
      BY <2>1, <2>2, <2>3, Scales
<1>2. borrowed[u][m] > 0 => snapshot[u][m] > 0 /\ snapshot[u][m] <= CurrentIndex(m)
  <2> SUFFICES ASSUME borrowed[u][m] > 0
               PROVE  snapshot[u][m] > 0 /\ snapshot[u][m] <= CurrentIndex(m)
      OBVIOUS
  <2>1. snapshot[u][m] \in RateScale..index[m]
      BY DEF DebtDated
  <2> QED
      BY <1>1, <2>1, Scales
<1> HIDE DEF CurrentIndex
<1>3. CurrentIndex(m) <= CurrentIndex(m)
    BY <1>1
<1>4. borrowed[u][m] <= RestatedDebt(borrowed[u][m], snapshot[u][m], CurrentIndex(m))
    BY <1>1, <1>2, <1>3, RestatedGrows
<1> QED
    BY <1>4 DEF Debt

\* Within a slot, an instruction moves the debt it writes and no other.
LEMMA SetPositionDebts ==
    ASSUME TypeOK, NEW u \in User, NEW m \in Market, NEW sup, NEW bor,
           SetPosition(u, m, sup, bor), AccrueMarkets({m}), slot' = slot
    PROVE  /\ Debt(u, m)' = bor
           /\ borrowed' = [borrowed EXCEPT ![u][m] = bor]
           /\ \A v \in User, k \in Market : ~(v = u /\ k = m) => Debt(v, k)' = Debt(v, k)
<1>1. /\ borrowed \in [User -> [Market -> U64]] /\ snapshot \in [User -> [Market -> U128]]
      /\ borrowed' = [borrowed EXCEPT ![u][m] = bor]
      /\ snapshot' = [snapshot EXCEPT ![u][m] = CurrentIndex(m)]
    BY DEF TypeOK, SetPosition
<1>2. \A k \in Market : CurrentIndex(k)' = CurrentIndex(k)
    BY IndexStays
<1>3. borrowed'[u][m] = bor /\ snapshot'[u][m] = CurrentIndex(m)
    BY <1>1
<1>4. Debt(u, m)' = bor
    BY <1>2, <1>3, DebtWritten
<1>5. ASSUME NEW v \in User, NEW k \in Market, ~(v = u /\ k = m)
      PROVE  Debt(v, k)' = Debt(v, k)
  <2>1. borrowed'[v][k] = borrowed[v][k] /\ snapshot'[v][k] = snapshot[v][k]
      BY <1>1, <1>5
  <2> QED
      BY <1>2, <2>1, DebtStays
<1> QED
    BY <1>1, <1>4, <1>5

\* l repays r of what u owes in d and takes s of u's deposit in c; a debt market
\* that is the collateral market as well sees no repayment.
Liquidates(l, u, d, c, r, s) ==
    /\ r \in Nat /\ r <= Debt(u, d) /\ r <= wallet[l][d]
    /\ s \in Nat /\ s <= supplied[u][c] /\ s <= vault[c]
    /\ vault' = [vault EXCEPT ![d] = @ + r, ![c] = @ - s]
    /\ wallet' = [wallet EXCEPT ![l][d] = @ - r, ![l][c] = @ + s]
    /\ supplied' = [supplied EXCEPT ![u][c] = @ - s]
    /\ borrowed' = [borrowed EXCEPT ![u][d] = Debt(u, d) - r, ![u][c] = Debt(u, c)]
    /\ d # c => Debt(u, d)' = Debt(u, d) - r
    /\ \A v \in User, k \in Market :
          ~(v = u /\ k = d /\ d # c) => Debt(v, k)' = Debt(v, k)

LEMMA LiquidateDebts ==
    ASSUME TypeOK, NEW l \in User, NEW u \in User, NEW d \in Market, NEW c \in Market,
           NEW a \in U64, NEW rest, Liquidate(l, u, d, c, a, rest)
    PROVE  \E r, s : /\ r = Payable(u, d, a) /\ s = Seizable(u, d, c, r)
                     /\ Liquidates(l, u, d, c, r, s)
<1> DEFINE r == Payable(u, d, a)
           s == Seizable(u, d, c, r)
<1>1. /\ r \in Nat /\ r <= Debt(u, d) /\ SatSub(Debt(u, d), r) = Debt(u, d) - r
      /\ s \in Nat /\ s <= supplied[u][c] /\ SatSub(supplied[u][c], s) = supplied[u][c] - s
  <2>1. Debt(u, d) \in Nat /\ supplied[u][c] \in Nat
    <3>1. Debt(u, d) \in U64 /\ supplied[u][c] \in U64
        BY DebtType DEF TypeOK
    <3> QED
        BY <3>1, Scales
  <2>2. r \in U64 /\ r <= Debt(u, d)
      BY PayableType
  <2>3. s \in 0..supplied[u][c]
      BY <2>2, SeizableType
  <2> HIDE DEF r, s
  <2>4. r \in Nat /\ s \in Nat /\ s <= supplied[u][c]
      BY <2>1, <2>2, <2>3, Scales
  <2> QED
      BY <2>1, <2>2, <2>4 DEF SatSub
<1>2. /\ vault[c] >= s /\ wallet[l][d] >= r
      /\ wallet' = [wallet EXCEPT ![l][d] = @ - r, ![l][c] = @ + s]
      /\ vault' = [vault EXCEPT ![d] = @ + r, ![c] = @ - s]
      /\ borrowed' = [borrowed EXCEPT ![u] =
                         [borrowed[u] EXCEPT ![d] = SatSub(Debt(u, d), r), ![c] = Debt(u, c)]]
      /\ supplied' = [supplied EXCEPT ![u] =
                         [supplied[u] EXCEPT ![d] = supplied[u][d],
                                             ![c] = SatSub(supplied[u][c], s)]]
      /\ snapshot' = [snapshot EXCEPT ![u] =
                         [snapshot[u] EXCEPT ![d] = CurrentIndex(d), ![c] = CurrentIndex(c)]]
      /\ AccrueMarkets({d, c}) /\ slot' = slot
    BY DEF Liquidate, WriteBack, TypeOK, worldVars
<1> HIDE DEF r, s
<1>3. vault[c] \in Nat /\ wallet[l][d] \in Nat
  <2>1. vault[c] \in U64 /\ wallet[l][d] \in U64
      BY DEF TypeOK
  <2> QED
      BY <2>1, Scales
<1>4. s <= vault[c] /\ r <= wallet[l][d]
    BY <1>1, <1>2, <1>3
<1>5. /\ supplied \in [User -> [Market -> U64]] /\ borrowed \in [User -> [Market -> U64]]
      /\ snapshot \in [User -> [Market -> U128]]
    BY DEF TypeOK
<1>6. supplied' = [supplied EXCEPT ![u][c] = @ - s]
    BY <1>1, <1>2, <1>5
<1>7. borrowed' = [borrowed EXCEPT ![u][d] = Debt(u, d) - r, ![u][c] = Debt(u, c)]
    BY <1>1, <1>2, <1>5
<1>8. \A k \in Market : CurrentIndex(k)' = CurrentIndex(k)
    BY <1>2, IndexStays
<1>9. /\ borrowed'[u][c] = Debt(u, c) /\ snapshot'[u][c] = CurrentIndex(c)
      /\ snapshot'[u][d] = CurrentIndex(d)
      /\ d # c => borrowed'[u][d] = Debt(u, d) - r
    BY <1>1, <1>2, <1>5
<1>10. Debt(u, c)' = Debt(u, c)
    BY <1>8, <1>9, DebtWritten
<1>11. d # c => Debt(u, d)' = Debt(u, d) - r
    BY <1>8, <1>9, DebtWritten
<1>12. ASSUME NEW v \in User, NEW k \in Market, ~(v = u /\ k = d /\ d # c)
       PROVE  Debt(v, k)' = Debt(v, k)
  <2>1. CASE v = u /\ k = c
      BY <1>10, <2>1
  <2>2. CASE ~(v = u /\ k = c)
    <3>1. borrowed'[v][k] = borrowed[v][k] /\ snapshot'[v][k] = snapshot[v][k]
        BY <1>2, <1>5, <1>12, <2>2
    <3> QED
        BY <1>8, <3>1, DebtStays
  <2> QED
      BY <2>1, <2>2
<1>13. Liquidates(l, u, d, c, r, s)
    BY <1>1, <1>2, <1>4, <1>6, <1>7, <1>11, <1>12 DEF Liquidates
<1> QED
    BY <1>13 DEF r, s

-----------------------------------------------------------------------------
(* The steps of the program, as the properties of debts see them.          *)

\* An instruction of u on market m: a position written at the current index,
\* and the tokens that go with it.
Modifies(u, m) ==
    \E sup \in U64, bor \in U64 :
        /\ SetPosition(u, m, sup, bor)
        /\ AccrueMarkets({m})
        /\ slot' = slot
        /\ bor - Debt(u, m) = 0 \/ bor - Debt(u, m) = vault[m] - vault'[m]

LEMMA ModifyMoves ==
    ASSUME LedgerInv, NEW u \in User, NEW m \in Market, NEW a \in U64, NEW rest,
           \/ Supply(u, m, a)
           \/ Repay(u, m, a)
           \/ Withdraw(u, m, a, rest)
           \/ Borrow(u, m, a, rest)
    PROVE  Modifies(u, m)
<1>1. /\ TypeOK
      /\ Debt(u, m) \in U64 /\ Debt(u, m) \in Nat /\ a \in Nat
      /\ supplied[u][m] \in U64 /\ supplied[u][m] \in Nat
      /\ vault \in [Market -> U64] /\ vault[m] \in Nat
      /\ U64Max \in Nat
  <2>1. TypeOK
      BY DEF LedgerInv
  <2>2. Debt(u, m) \in U64 /\ supplied[u][m] \in U64 /\ vault[m] \in U64
      BY <2>1, DebtType DEF TypeOK
  <2> QED
      BY <2>1, <2>2, Scales, WidthAssumption DEF TypeOK
<1>2. CASE Supply(u, m, a)
  <2>1. /\ SetPosition(u, m, supplied[u][m] + a, Debt(u, m))
        /\ AccrueMarkets({m}) /\ slot' = slot
        /\ supplied[u][m] + a <= U64Max
      BY <1>2 DEF Supply, worldVars
  <2>2. supplied[u][m] + a \in U64 /\ Debt(u, m) - Debt(u, m) = 0
      BY <1>1, <2>1 DEF U64
  <2> QED
      BY <1>1, <2>1, <2>2 DEF Modifies
<1>3. CASE Repay(u, m, a)
  <2> DEFINE pay == Payable(u, m, a)
             bor == SatSub(Debt(u, m), pay)
  <2>1. /\ SetPosition(u, m, supplied[u][m], bor)
        /\ AccrueMarkets({m}) /\ slot' = slot
        /\ vault' = [vault EXCEPT ![m] = @ + pay]
      BY <1>3 DEF Repay, TransferIn, worldVars
  <2>2. pay \in U64 /\ pay \in Nat /\ pay <= Debt(u, m) /\ bor \in U64
      BY <1>1, PayableType, Scales
  <2>3. bor = Debt(u, m) - pay
      BY <1>1, <2>2 DEF SatSub
  <2> HIDE DEF pay, bor
  <2>4. bor - Debt(u, m) = vault[m] - vault'[m]
    <3>1. vault'[m] = vault[m] + pay
        BY <1>1, <2>1
    <3> QED
        BY <1>1, <2>2, <2>3, <3>1
  <2> QED
      BY <1>1, <2>1, <2>2, <2>4 DEF Modifies
<1>4. CASE Withdraw(u, m, a, rest)
  <2>1. /\ SetPosition(u, m, supplied[u][m] - a, Debt(u, m))
        /\ AccrueMarkets({m}) /\ slot' = slot
        /\ a <= supplied[u][m]
      BY <1>4 DEF Withdraw, worldVars
  <2>2. supplied[u][m] - a \in U64 /\ Debt(u, m) - Debt(u, m) = 0
      BY <1>1, <2>1 DEF U64
  <2> QED
      BY <1>1, <2>1, <2>2 DEF Modifies
<1>5. CASE Borrow(u, m, a, rest)
  <2> DEFINE bor == Debt(u, m) + a
  <2>1. /\ SetPosition(u, m, 0, bor)
        /\ AccrueMarkets({m}) /\ slot' = slot
        /\ bor <= U64Max
        /\ vault' = [vault EXCEPT ![m] = @ - a]
      BY <1>5 DEF Borrow, TransferOut, worldVars
  <2>2. 0 \in U64 /\ bor \in U64
      BY <1>1, <2>1 DEF U64
  <2>3. bor - Debt(u, m) = vault[m] - vault'[m]
    <3>1. vault'[m] = vault[m] - a
        BY <1>1, <2>1
    <3> QED
        BY <1>1, <3>1
  <2> HIDE DEF bor
  <2> QED
      BY <2>1, <2>2, <2>3 DEF Modifies
<1> QED
    BY <1>2, <1>3, <1>4, <1>5

\* Steps that touch neither accounts nor the clock touch no debt.
LEMMA DebtsUntouched ==
    ASSUME UNCHANGED <<index, lastSlot, borrowed, snapshot, slot>>
    PROVE  \A u \in User, m \in Market : Debt(u, m)' = Debt(u, m)
BY DEF Debt, CurrentIndex

\* Nobody owes anything in a market that is about to be opened.
LEMMA OpeningDebts ==
    ASSUME LedgerInv, NEW m \in Market, NEW a, InitializeMarket(m, a)
    PROVE  \A u \in User, k \in Market : Debt(u, k)' = Debt(u, k)
<1>1. /\ index \in [Market -> U128] /\ lastSlot \in [Market -> 0..MaxSlot]
      /\ m \notin created
      /\ index' = [index EXCEPT ![m] = RateScale]
      /\ lastSlot' = [lastSlot EXCEPT ![m] = slot]
      /\ borrowed' = borrowed /\ snapshot' = snapshot /\ slot' = slot
    BY DEF LedgerInv, TypeOK, InitializeMarket, Vacant, positionVars, worldVars
<1> SUFFICES ASSUME NEW u \in User, NEW k \in Market
             PROVE  Debt(u, k)' = Debt(u, k)
    OBVIOUS
<1>2. CASE k = m
  <2>1. borrowed[u][m] = 0
      BY <1>1 DEF LedgerInv, MarketsFirst
  <2>2. Debt(u, m) = 0 /\ Debt(u, m)' = 0
      BY <1>1, <2>1 DEF Debt, RestatedDebt
  <2> QED
      BY <1>2, <2>2
<1>3. CASE k # m
  <2>1. CurrentIndex(k)' = CurrentIndex(k)
      BY <1>1, <1>3 DEF CurrentIndex
  <2> QED
      BY <1>1, <2>1, DebtStays
<1> QED
    BY <1>2, <1>3

\* While time passes debts grow at most.
LEMMA WaitingDebts ==
    ASSUME LedgerInv, ProductsFit', AdvanceSlot, NEW u \in User, NEW m \in Market
    PROVE  /\ Debt(u, m)' \in U64
           /\ Debt(u, m) <= Debt(u, m)'
           /\ Debt(u, m) = 0 => Debt(u, m)' = 0
<1>1. /\ TypeOK /\ DebtDated
      /\ borrowed' = borrowed /\ snapshot' = snapshot /\ index' = index
    BY DEF LedgerInv, AdvanceSlot, positionVars, marketVars
<1> DEFINE b == borrowed[u][m]
           s == snapshot[u][m]
           i == CurrentIndex(m)
           j == CurrentIndex(m)'
<1>2. i <= j
    BY <1>1, IndexWaits
<1>3. b \in U64 /\ s \in Nat /\ i \in Nat /\ i >= index[m] /\ index[m] \in Nat
  <2>1. b \in U64 /\ s \in U128 /\ index[m] \in U128
      BY <1>1 DEF TypeOK
  <2>2. i \in U128 /\ i >= index[m]
      BY <1>1, CurrentIndexGrows
  <2> QED
      BY <2>1, <2>2, Scales
<1>4. j \in Nat
  <2>1. TypeOK'
      BY AdvanceSlotPreserves DEF LedgerInv
  <2>2. /\ index'[m] \in U128 /\ lastSlot'[m] \in Nat /\ slot' \in Nat /\ Rate[m] \in Nat
      BY <2>1, MarketAssumption, InputAssumption DEF TypeOK
  <2>3. CASE slot' <= lastSlot'[m]
      BY <2>2, <2>3, Scales DEF CurrentIndex
  <2>4. CASE slot' > lastSlot'[m]
    <3>1. j = GrownIndex(index'[m], Rate[m], slot' - lastSlot'[m])
        BY <2>2, <2>4 DEF CurrentIndex
    <3>2. slot' - lastSlot'[m] \in Nat
        BY <2>2, <2>4
    <3> QED
        BY <2>2, <3>1, <3>2, IndexNeverFalls, Scales
  <2> QED
      BY <2>2, <2>3, <2>4
<1>5. b * j <= U128Max
    BY <1>1 DEF ProductsFit
<1>6. b > 0 => s > 0 /\ s <= i
  <2> SUFFICES ASSUME b > 0 PROVE s > 0 /\ s <= i
      OBVIOUS
  <2>1. s \in RateScale..index[m]
      BY <1>1 DEF DebtDated
  <2> QED
      BY <1>3, <2>1, Scales
<1>7. Debt(u, m) = RestatedDebt(b, s, i) /\ Debt(u, m)' = RestatedDebt(b, s, j)
    BY <1>1 DEF Debt
<1> HIDE DEF b, s, i, j
<1>8. /\ RestatedDebt(b, s, i) \in U64 /\ b <= RestatedDebt(b, s, i)
      /\ RestatedDebt(b, s, i) <= RestatedDebt(b, s, j)
    BY <1>2, <1>3, <1>4, <1>5, <1>6, RestatedGrows
<1>9. b * j = b * j /\ j <= j
    BY <1>4
<1>10. RestatedDebt(b, s, j) \in U64
    BY <1>2, <1>3, <1>4, <1>5, <1>6, <1>9, RestatedGrows
<1>11. RestatedDebt(b, s, i) = 0 => RestatedDebt(b, s, j) = 0
  <2> SUFFICES ASSUME RestatedDebt(b, s, i) = 0 PROVE RestatedDebt(b, s, j) = 0
      OBVIOUS
  <2>1. b = 0
      BY <1>3, <1>8, Scales
  <2> QED
      BY <2>1 DEF RestatedDebt
<1> QED
    BY <1>7, <1>8, <1>10, <1>11

-----------------------------------------------------------------------------
(* Debts move by tokens.                                                   *)

\* What DebtIsTokens says of a step.
DebtStep ==
    \A u \in User, m \in Market :
        LET change == Debt(u, m)' - Debt(u, m)
        IN  IF slot' = slot THEN change = 0 \/ change = vault[m] - vault'[m]
            ELSE change >= 0

LEMMA DebtStepSame ==
    ASSUME TypeOK, slot' = slot, \A u \in User, m \in Market : Debt(u, m)' = Debt(u, m)
    PROVE  DebtStep
<1>1. \A u \in User, m \in Market : Debt(u, m) \in Int
    BY DebtIsNat
<1> QED
    BY <1>1 DEF DebtStep

LEMMA LiquidateDebtStep ==
    ASSUME TypeOK, NEW l \in User, NEW u \in User, NEW d \in Market, NEW c \in Market,
           NEW a \in U64, NEW rest, Liquidate(l, u, d, c, a, rest)
    PROVE  DebtStep
<1>1. PICK r, s : Liquidates(l, u, d, c, r, s)
    BY LiquidateDebts
<1>2. /\ r \in Nat
      /\ vault' = [vault EXCEPT ![d] = @ + r, ![c] = @ - s]
      /\ d # c => Debt(u, d)' = Debt(u, d) - r
      /\ \A v \in User, k \in Market :
            ~(v = u /\ k = d /\ d # c) => Debt(v, k)' = Debt(v, k)
    BY <1>1 DEF Liquidates
<1>3. slot' = slot
    BY DEF Liquidate, worldVars
<1>4. vault \in [Market -> U64] /\ vault[d] \in Nat
  <2>1. vault \in [Market -> U64] /\ vault[d] \in U64
      BY DEF TypeOK
  <2> QED
      BY <2>1, Scales
<1>5. d # c => vault[d] - vault'[d] = -r
    BY <1>2, <1>4
<1>6. \A v \in User, k \in Market : Debt(v, k) \in Int
    BY DebtIsNat
<1>7. ASSUME NEW v \in User, NEW k \in Market
      PROVE  \/ Debt(v, k)' - Debt(v, k) = 0
             \/ Debt(v, k)' - Debt(v, k) = vault[k] - vault'[k]
  <2>1. CASE v = u /\ k = d /\ d # c
      BY <1>2, <1>5, <1>6, <2>1
  <2>2. CASE ~(v = u /\ k = d /\ d # c)
      BY <1>2, <1>6, <2>2
  <2> QED
      BY <2>1, <2>2
<1> QED
    BY <1>3, <1>7 DEF DebtStep

LEMMA DebtStepHolds ==
    LedgerInv /\ ProductsFit' /\ [ProgramStep]_vars => DebtStep
<1> SUFFICES ASSUME LedgerInv, ProductsFit', [ProgramStep]_vars
             PROVE  DebtStep
    OBVIOUS
<1>1. TypeOK
    BY DEF LedgerInv
<1>2. \A u \in User, m \in Market : Debt(u, m) \in Int
    BY <1>1, DebtIsNat
<1>3. ASSUME UNCHANGED <<index, lastSlot, borrowed, snapshot, slot>>
      PROVE  DebtStep
    BY <1>1, <1>3, DebtsUntouched, DebtStepSame
<1>4. ASSUME NEW m \in Market, NEW a \in U64, InitializeMarket(m, a)
      PROVE  DebtStep
  <2>1. slot' = slot
      BY <1>4 DEF InitializeMarket, worldVars
  <2> QED
      BY <1>1, <1>4, <2>1, OpeningDebts, DebtStepSame
<1>5. ASSUME NEW m \in Market, NEW a \in U64, SetClaimAmount(m, a)
      PROVE  DebtStep
    BY <1>3, <1>5 DEF SetClaimAmount, marketVars, positionVars, worldVars
<1>6. ASSUME NEW u \in User, NEW m \in Market, ClaimFaucet(u, m)
      PROVE  DebtStep
    BY <1>3, <1>6 DEF ClaimFaucet, marketVars, positionVars, worldVars
<1>7. ASSUME NEW u \in User, NEW m \in Market, Modifies(u, m)
      PROVE  DebtStep
  <2>1. PICK sup \in U64, bor \in U64 :
           /\ SetPosition(u, m, sup, bor)
           /\ AccrueMarkets({m})
           /\ slot' = slot
           /\ bor - Debt(u, m) = 0 \/ bor - Debt(u, m) = vault[m] - vault'[m]
      BY <1>7 DEF Modifies
  <2>2. /\ Debt(u, m)' = bor
        /\ \A v \in User, k \in Market : ~(v = u /\ k = m) => Debt(v, k)' = Debt(v, k)
      BY <1>1, <2>1, SetPositionDebts
  <2> QED
      BY <1>2, <2>1, <2>2 DEF DebtStep
<1>8. CASE AdvanceSlot
  <2>1. slot' # slot
    <3>1. slot \in Int /\ slot' = slot + 1
        BY <1>1, <1>8 DEF TypeOK, AdvanceSlot
    <3> QED
        BY <3>1
  <2>2. \A u \in User, m \in Market : Debt(u, m)' \in Int /\ Debt(u, m)' >= Debt(u, m)
    <3> SUFFICES ASSUME NEW u \in User, NEW m \in Market
                 PROVE  Debt(u, m)' \in Int /\ Debt(u, m)' >= Debt(u, m)
        OBVIOUS
    <3>1. Debt(u, m)' \in U64 /\ Debt(u, m) <= Debt(u, m)'
        BY <1>8, WaitingDebts
    <3>2. Debt(u, m)' \in Nat
        BY <3>1, Scales
    <3> QED
        BY <1>2, <3>1, <3>2
  <2> QED
      BY <1>2, <2>1, <2>2 DEF DebtStep
<1>9. ASSUME NEW m \in Market, NEW q \in Quote, PublishPrice(m, q)
      PROVE  DebtStep
    BY <1>3, <1>9 DEF PublishPrice, marketVars, positionVars
<1>10. CASE UNCHANGED vars
    BY <1>3, <1>10 DEF vars, marketVars, positionVars, worldVars
<1> QED
    BY <1>1, <1>4, <1>5, <1>6, <1>7, <1>8, <1>9, <1>10, ModifyMoves, LiquidateDebtStep
    DEF ProgramStep, UncheckedStep

LEMMA ProgramMovesDebtsByTokens == Program /\ []ProductsFit => DebtIsTokens
<1>1. LedgerInv /\ ProductsFit' /\ [ProgramStep]_vars => [DebtStep]_vars
    BY DebtStepHolds
<1> QED
    BY <1>1, ProgramKeepsLedger, PTL DEF Program, DebtIsTokens, DebtStep

\* While the products of debts and indices fit 128 bits, whoever touches which
\* position in whatever order: within a slot a debt changes by the tokens that
\* its market's vault pays or receives, and it never shrinks by itself.
THEOREM DebtsMoveByTokens == Spec /\ []ProductsFit => DebtIsTokens
BY ProgramMovesDebtsByTokens, SpecIsProgram, PTL

-----------------------------------------------------------------------------
(* What a market says it lent.                                             *)

\* The total keeps below the positions if, in each market, it falls at least as
\* far as they do, or is nothing.
LEMMA DebtLedgerMoves ==
    ASSUME TypeOK, TypeOK', DebtLedger, NEW u \in User,
           \A v \in User \ {u}, k \in Market : borrowed'[v][k] = borrowed[v][k],
           \A k \in Market :
              \/ totalBorrowed'[k] = 0
              \/ totalBorrowed'[k] - totalBorrowed[k] <= borrowed'[u][k] - borrowed[u][k]
    PROVE  DebtLedger'
<1>1. ASSUME NEW k \in Market PROVE totalBorrowed'[k] <= Held(borrowed', k)
  <2>1. borrowed \in [User -> [Market -> U64]] /\ borrowed' \in [User -> [Market -> U64]]
      BY DEF TypeOK
  <2>2. /\ totalBorrowed[k] \in Nat /\ totalBorrowed'[k] \in Nat
        /\ borrowed[u][k] \in Nat /\ borrowed'[u][k] \in Nat
    <3>1. /\ totalBorrowed[k] \in U64 /\ totalBorrowed'[k] \in U64
          /\ borrowed[u][k] \in U64 /\ borrowed'[u][k] \in U64
        BY DEF TypeOK
    <3> QED
        BY <3>1, Scales
  <2>3. Held(borrowed', k) = Held(borrowed, k) - borrowed[u][k] + borrowed'[u][k]
      BY <2>1, HeldUpdate
  <2>4. Held(borrowed, k) \in Nat /\ Held(borrowed', k) \in Nat
      BY <2>1, HeldBounds
  <2>5. totalBorrowed[k] <= Held(borrowed, k)
      BY DEF DebtLedger
  <2>6. \/ totalBorrowed'[k] = 0
        \/ totalBorrowed'[k] - totalBorrowed[k] <= borrowed'[u][k] - borrowed[u][k]
      OBVIOUS
  <2> QED
      BY <2>2, <2>3, <2>4, <2>5, <2>6
<1> QED
    BY <1>1 DEF DebtLedger

\* A total that falls by a repayment, or to zero.
LEMMA TotalFalls ==
    ASSUME NEW t \in Nat, NEW r \in Nat, NEW b \in Nat, NEW debt \in Nat, b <= debt
    PROVE  \/ SatSub(t, r) = 0
           \/ SatSub(t, r) - t <= (debt - r) - b
BY DEF SatSub

LEMMA ModifyDebtLedger ==
    ASSUME LedgerInv, LedgerInv', DebtLedger, ProductsFit,
           NEW u \in User, NEW m \in Market, NEW a \in U64, NEW rest,
           \/ Supply(u, m, a)
           \/ Repay(u, m, a)
           \/ Withdraw(u, m, a, rest)
           \/ Borrow(u, m, a, rest)
    PROVE  DebtLedger'
<1>1. TypeOK /\ TypeOK' /\ DebtDated
    BY DEF LedgerInv
<1>2. /\ borrowed[u][m] \in Nat /\ Debt(u, m) \in Nat /\ borrowed[u][m] <= Debt(u, m)
      /\ totalBorrowed \in [Market -> U64] /\ borrowed \in [User -> [Market -> U64]]
      /\ a \in Nat
      /\ \A k \in Market : totalBorrowed[k] \in Nat /\ borrowed[u][k] \in Int
  <2>1. totalBorrowed \in [Market -> U64] /\ borrowed \in [User -> [Market -> U64]]
      BY <1>1 DEF TypeOK
  <2>2. \A k \in Market : totalBorrowed[k] \in Nat /\ borrowed[u][k] \in Nat
    <3>1. \A k \in Market : totalBorrowed[k] \in U64 /\ borrowed[u][k] \in U64
        BY <2>1
    <3> QED
        BY <3>1, Scales
  <2> QED
      BY <1>1, <2>1, <2>2, DebtIsNat, DebtKeeps, Scales
<1>3. PICK bor :
        /\ borrowed' = [borrowed EXCEPT ![u][m] = bor]
        /\ \/ totalBorrowed' = totalBorrowed /\ bor = Debt(u, m)
           \/ totalBorrowed' = [totalBorrowed EXCEPT ![m] = @ + a] /\ bor = Debt(u, m) + a
           \/ /\ totalBorrowed' = [totalBorrowed EXCEPT
                                      ![m] = SatSub(@, Payable(u, m, a))]
              /\ bor = Debt(u, m) - Payable(u, m, a)
  <2>1. CASE Supply(u, m, a)
      BY <2>1 DEF Supply, SetPosition
  <2>2. CASE Repay(u, m, a)
    <3>1. SatSub(Debt(u, m), Payable(u, m, a)) = Debt(u, m) - Payable(u, m, a)
        BY <1>1, PayableType DEF SatSub
    <3> QED
        BY <2>2, <3>1 DEF Repay, SetPosition
  <2>3. CASE Withdraw(u, m, a, rest)
      BY <2>3 DEF Withdraw, SetPosition
  <2>4. CASE Borrow(u, m, a, rest)
      BY <2>4 DEF Borrow, SetPosition
  <2> QED
      BY <2>1, <2>2, <2>3, <2>4
<1>4. borrowed'[u][m] = bor
    BY <1>2, <1>3
<1>5. \/ totalBorrowed'[m] = 0
      \/ totalBorrowed'[m] - totalBorrowed[m] <= bor - borrowed[u][m]
  <2>1. CASE totalBorrowed' = totalBorrowed /\ bor = Debt(u, m)
      BY <1>2, <2>1
  <2>2. CASE totalBorrowed' = [totalBorrowed EXCEPT ![m] = @ + a] /\ bor = Debt(u, m) + a
      BY <1>2, <2>2
  <2>3. CASE /\ totalBorrowed' = [totalBorrowed EXCEPT ![m] = SatSub(@, Payable(u, m, a))]
             /\ bor = Debt(u, m) - Payable(u, m, a)
    <3> DEFINE pay == Payable(u, m, a)
    <3>1. pay \in Nat
        BY <1>1, PayableType, Scales
    <3>2. totalBorrowed'[m] = SatSub(totalBorrowed[m], pay) /\ bor = Debt(u, m) - pay
        BY <1>2, <2>3
    <3> HIDE DEF pay
    <3> QED
        BY <1>2, <3>1, <3>2, TotalFalls
  <2> QED
      BY <1>3, <2>1, <2>2, <2>3
<1>6. ASSUME NEW k \in Market \ {m}
      PROVE  totalBorrowed'[k] - totalBorrowed[k] <= borrowed'[u][k] - borrowed[u][k]
  <2>1. totalBorrowed'[k] = totalBorrowed[k] /\ borrowed'[u][k] = borrowed[u][k]
      BY <1>2, <1>3
  <2> QED
      BY <1>2, <2>1
<1>7. \A v \in User \ {u}, k \in Market : borrowed'[v][k] = borrowed[v][k]
    BY <1>2, <1>3
<1> QED
    BY <1>1, <1>4, <1>5, <1>6, <1>7, DebtLedgerMoves

LEMMA LiquidateDebtLedger ==
    ASSUME LedgerInv, LedgerInv', DebtLedger, ProductsFit,
           NEW l \in User, NEW u \in User, NEW d \in Market, NEW c \in Market,
           NEW a \in U64, NEW rest, Liquidate(l, u, d, c, a, rest)
    PROVE  DebtLedger'
<1>1. TypeOK /\ TypeOK' /\ DebtDated
    BY DEF LedgerInv
<1>2. PICK r, s : r = Payable(u, d, a) /\ Liquidates(l, u, d, c, r, s)
    BY <1>1, LiquidateDebts
<1>3. /\ r \in Nat
      /\ borrowed' = [borrowed EXCEPT ![u][d] = Debt(u, d) - r, ![u][c] = Debt(u, c)]
    BY <1>2 DEF Liquidates
<1>4. totalBorrowed' = [totalBorrowed EXCEPT ![d] = SatSub(totalBorrowed[d], r),
                                             ![c] = totalBorrowed[c]]
    BY <1>2 DEF Liquidate, WriteBack
<1>5. totalBorrowed \in [Market -> U64] /\ borrowed \in [User -> [Market -> U64]]
    BY <1>1 DEF TypeOK
<1>6. \A k \in Market : /\ totalBorrowed[k] \in Nat /\ borrowed[u][k] \in Nat
                        /\ Debt(u, k) \in Nat /\ borrowed[u][k] <= Debt(u, k)
  <2>1. \A k \in Market : totalBorrowed[k] \in U64 /\ borrowed[u][k] \in U64
      BY <1>5
  <2> QED
      BY <1>1, <2>1, DebtIsNat, DebtKeeps, Scales
<1>7. ASSUME NEW k \in Market
      PROVE  \/ totalBorrowed'[k] = 0
             \/ totalBorrowed'[k] - totalBorrowed[k] <= borrowed'[u][k] - borrowed[u][k]
  <2>1. CASE k = c
    <3>1. totalBorrowed'[k] = totalBorrowed[k] /\ borrowed'[u][k] = Debt(u, k)
        BY <1>3, <1>4, <1>5, <2>1
    <3> QED
        BY <1>6, <3>1
  <2>2. CASE k # c /\ k = d
    <3>1. totalBorrowed'[k] = SatSub(totalBorrowed[k], r) /\ borrowed'[u][k] = Debt(u, k) - r
        BY <1>3, <1>4, <1>5, <2>2
    <3> QED
        BY <1>3, <1>6, <3>1, TotalFalls
  <2>3. CASE k # c /\ k # d
    <3>1. totalBorrowed'[k] = totalBorrowed[k] /\ borrowed'[u][k] = borrowed[u][k]
        BY <1>3, <1>4, <1>5, <2>3
    <3> QED
        BY <1>6, <3>1
  <2> QED
      BY <2>1, <2>2, <2>3
<1>8. \A v \in User \ {u}, k \in Market : borrowed'[v][k] = borrowed[v][k]
    BY <1>3, <1>5
<1> QED
    BY <1>1, <1>7, <1>8, DebtLedgerMoves

LEMMA DebtLedgerStep ==
    LedgerInv /\ LedgerInv' /\ ProductsFit /\ DebtLedger /\ [ProgramStep]_vars => DebtLedger'
<1> SUFFICES ASSUME LedgerInv, LedgerInv', ProductsFit, DebtLedger, [ProgramStep]_vars
             PROVE  DebtLedger'
    OBVIOUS
<1>1. ASSUME UNCHANGED <<totalBorrowed, borrowed>> PROVE DebtLedger'
    BY <1>1 DEF DebtLedger
<1>2. ASSUME NEW m \in Market, NEW a \in U64, InitializeMarket(m, a)
      PROVE  DebtLedger'
  <2>1. /\ totalBorrowed \in [Market -> U64] /\ borrowed \in [User -> [Market -> U64]]
        /\ totalBorrowed' = [totalBorrowed EXCEPT ![m] = 0] /\ borrowed' = borrowed
      BY <1>2 DEF InitializeMarket, LedgerInv, TypeOK, positionVars
  <2>2. \A k \in Market : Held(borrowed, k) \in Nat /\ totalBorrowed[k] <= Held(borrowed, k)
      BY <2>1, UnitsFinite DEF DebtLedger, Held
  <2>3. \A k \in Market : totalBorrowed'[k] <= Held(borrowed, k)
      BY <2>1, <2>2
  <2> QED
      BY <2>1, <2>3 DEF DebtLedger
<1>3. ASSUME NEW m \in Market, NEW a \in U64, SetClaimAmount(m, a)
      PROVE  DebtLedger'
    BY <1>1, <1>3 DEF SetClaimAmount, marketVars, positionVars
<1>4. ASSUME NEW u \in User, NEW m \in Market, ClaimFaucet(u, m)
      PROVE  DebtLedger'
    BY <1>1, <1>4 DEF ClaimFaucet, marketVars, positionVars
<1>5. ASSUME AdvanceSlot \/ \E m \in Market, q \in Quote : PublishPrice(m, q)
      PROVE  DebtLedger'
    BY <1>1, <1>5 DEF AdvanceSlot, PublishPrice, marketVars, positionVars
<1>6. CASE UNCHANGED vars
    BY <1>1, <1>6 DEF vars, marketVars, positionVars
<1> QED
    BY <1>2, <1>3, <1>4, <1>5, <1>6, ModifyDebtLedger, LiquidateDebtLedger
    DEF ProgramStep, UncheckedStep

LEMMA ProgramKeepsDebtLedger == Program /\ []ProductsFit => []DebtLedger
<1>1. Init => DebtLedger
  <2> SUFFICES ASSUME Init PROVE DebtLedger
      OBVIOUS
  <2>1. \A m \in Market : totalBorrowed[m] = 0 /\ Held(borrowed, m) = 0
      BY HeldZero DEF Init
  <2> QED
      BY <2>1 DEF DebtLedger
<1> QED
    BY <1>1, DebtLedgerStep, ProgramKeepsLedger, PTL DEF Program

\* While the products fit, Market.total_borrowed never says more than the
\* positions owe, though repay and liquidate subtract interest from it that
\* nothing has added.
THEOREM DebtLedgerHolds == Spec /\ []ProductsFit => []DebtLedger
BY ProgramKeepsDebtLedger, SpecIsProgram, PTL

-----------------------------------------------------------------------------
(* The bank.                                                               *)

\* What the client offers: collateral of another market than the debt's.
CrossMarketOnly == \A p \in LiquidationPairs : p[1] # p[2]

\* The mapping of the bank's debts.
Owed == [u \in User |-> [m \in Market |-> Debt(u, m)]]

-----------------------------------------------------------------------------
(* Tokens.                                                                 *)

LEMMA HoldingsAreNat ==
    ASSUME TypeOK, NEW u \in User, NEW m \in Market
    PROVE  wallet[u][m] \in Nat /\ vault[m] \in Nat /\ supplied[u][m] \in Nat
<1>1. wallet[u][m] \in U64 /\ vault[m] \in U64 /\ supplied[u][m] \in U64
    BY DEF TypeOK
<1> QED
    BY <1>1, Scales

LEMMA TransferInPays ==
    ASSUME TypeOK, NEW u \in User, NEW m \in Market, NEW a \in Nat, TransferIn(u, m, a)
    PROVE  Bank!Pay(u, m, a)
<1>1. /\ wallet \in [User -> [Market -> U64]]
      /\ wallet[u][m] \in Nat /\ vault[m] \in Nat
      /\ wallet[u][m] >= a
      /\ wallet' = [wallet EXCEPT ![u][m] = @ - a]
      /\ vault' = [vault EXCEPT ![m] = @ + a]
    BY HoldingsAreNat DEF TypeOK, TransferIn
<1>2. wallet' = [wallet EXCEPT ![u][m] = @ + -a]
  <2>1. wallet[u][m] - a = wallet[u][m] + -a
      BY <1>1
  <2> QED
      BY <1>1, <2>1
<1>3. vault[m] + a >= 0
    BY <1>1
<1> QED
    BY <1>1, <1>2, <1>3 DEF Bank!Pay, Bank!Add

LEMMA TransferOutPays ==
    ASSUME TypeOK, NEW u \in User, NEW m \in Market, NEW a \in Nat, TransferOut(u, m, a)
    PROVE  Bank!Pay(u, m, -a)
<1>1. /\ wallet \in [User -> [Market -> U64]] /\ vault \in [Market -> U64]
      /\ wallet[u][m] \in Nat /\ vault[m] \in Nat
      /\ vault[m] >= a
      /\ wallet' = [wallet EXCEPT ![u][m] = @ + a]
      /\ vault' = [vault EXCEPT ![m] = @ - a]
    BY HoldingsAreNat DEF TypeOK, TransferOut
<1>2. /\ wallet[u][m] >= -a /\ vault[m] + -a >= 0
      /\ vault[m] + -a = vault[m] - a
      /\ wallet[u][m] + -(-a) = wallet[u][m] + a
    BY <1>1
<1>3. wallet' = [wallet EXCEPT ![u][m] = @ + -(-a)]
    BY <1>1, <1>2
<1>4. vault' = [vault EXCEPT ![m] = @ + -a]
    BY <1>1, <1>2
<1> QED
    BY <1>2, <1>3, <1>4 DEF Bank!Pay, Bank!Add

-----------------------------------------------------------------------------
(* Debts.                                                                  *)

LEMMA OwedStays ==
    ASSUME \A u \in User, m \in Market : Debt(u, m)' = Debt(u, m)
    PROVE  Owed' = Owed
<1>1. /\ Owed = [u \in User |-> [m \in Market |-> Debt(u, m)]]
      /\ Owed' = [u \in User |-> [m \in Market |-> Debt(u, m)']]
    BY DEF Owed
<1>2. \A u \in User : [m \in Market |-> Debt(u, m)'] = [m \in Market |-> Debt(u, m)]
    OBVIOUS
<1> QED
    BY <1>1, <1>2

\* One debt moves, by x.
LEMMA OwedMoves ==
    ASSUME NEW u \in User, NEW m \in Market, NEW x,
           Debt(u, m)' = Debt(u, m) + x,
           \A v \in User, k \in Market : ~(v = u /\ k = m) => Debt(v, k)' = Debt(v, k)
    PROVE  Owed' = Bank!Add(Owed, u, m, x)
<1>1. /\ Owed = [v \in User |-> [k \in Market |-> Debt(v, k)]]
      /\ Owed' = [v \in User |-> [k \in Market |-> Debt(v, k)']]
    BY DEF Owed
<1>2. ASSUME NEW v \in User, NEW k \in Market
      PROVE  Owed'[v][k] = IF v = u /\ k = m THEN Owed[u][m] + x ELSE Owed[v][k]
    BY <1>1
<1>3. [Owed EXCEPT ![u][m] = @ + x]
        = [v \in User |-> [k \in Market |->
              IF v = u /\ k = m THEN Owed[u][m] + x ELSE Owed[v][k]]]
    BY <1>1
<1>4. Owed' = [v \in User |-> [k \in Market |->
                  IF v = u /\ k = m THEN Owed[u][m] + x ELSE Owed[v][k]]]
  <2>1. \A v \in User : [k \in Market |-> Debt(v, k)']
           = [k \in Market |-> IF v = u /\ k = m THEN Owed[u][m] + x ELSE Owed[v][k]]
      BY <1>1, <1>2
  <2> QED
      BY <1>1, <2>1
<1> QED
    BY <1>3, <1>4 DEF Bank!Add

-----------------------------------------------------------------------------
(* The moves.                                                              *)

LEMMA ClaimGrants ==
    ASSUME TypeOK, NEW u \in User, NEW m \in Market, ClaimFaucet(u, m)
    PROVE  claimAmount[m] \in U64 /\ Bank!Grant(u, m, claimAmount[m])
<1>1. /\ claimAmount[m] \in U64
      /\ wallet' = Bank!Add(wallet, u, m, claimAmount[m])
      /\ vault' = vault /\ supplied' = supplied
    BY DEF TypeOK, ClaimFaucet, positionVars, Bank!Add
<1>2. Owed' = Owed
    BY DebtsUntouched, OwedStays DEF ClaimFaucet, marketVars, positionVars, worldVars
<1> QED
    BY <1>1, <1>2 DEF Bank!Grant, Owed

LEMMA SupplyDeposits ==
    ASSUME TypeOK, NEW u \in User, NEW m \in Market, NEW a \in U64, Supply(u, m, a)
    PROVE  Bank!Deposit(u, m, a)
<1>1. /\ SetPosition(u, m, supplied[u][m] + a, Debt(u, m))
      /\ TransferIn(u, m, a) /\ AccrueMarkets({m}) /\ slot' = slot
    BY DEF Supply, worldVars
<1>2. Bank!Pay(u, m, a)
    BY <1>1, Scales, TransferInPays
<1>3. supplied' = Bank!Add(supplied, u, m, a)
    BY <1>1 DEF SetPosition, Bank!Add
<1>4. Debt(u, m)' = Debt(u, m)
    BY <1>1, SetPositionDebts
<1>5. \A v \in User, k \in Market : ~(v = u /\ k = m) => Debt(v, k)' = Debt(v, k)
    BY <1>1, SetPositionDebts
<1>6. Owed' = Owed
    BY <1>4, <1>5, OwedStays
<1> QED
    BY <1>2, <1>3, <1>6 DEF Bank!Deposit, Owed

LEMMA WithdrawRedeems ==
    ASSUME TypeOK, NEW u \in User, NEW m \in Market, NEW a \in U64, NEW rest,
           Withdraw(u, m, a, rest)
    PROVE  Bank!Redeem(u, m, a)
<1>1. /\ SetPosition(u, m, supplied[u][m] - a, Debt(u, m))
      /\ TransferOut(u, m, a) /\ AccrueMarkets({m}) /\ slot' = slot
      /\ a <= supplied[u][m]
    BY DEF Withdraw, worldVars
<1>2. /\ a \in Nat /\ supplied[u][m] \in Nat
      /\ supplied \in [User -> [Market -> U64]]
    BY Scales, HoldingsAreNat DEF TypeOK
<1>3. Bank!Pay(u, m, -a)
    BY <1>1, <1>2, TransferOutPays
<1>4. supplied[u][m] + -a = supplied[u][m] - a /\ supplied[u][m] >= a
    BY <1>1, <1>2
<1>5. supplied' = Bank!Add(supplied, u, m, -a)
    BY <1>1, <1>4 DEF SetPosition, Bank!Add
<1>6. Debt(u, m)' = Debt(u, m)
    BY <1>1, SetPositionDebts
<1>7. \A v \in User, k \in Market : ~(v = u /\ k = m) => Debt(v, k)' = Debt(v, k)
    BY <1>1, SetPositionDebts
<1>8. Owed' = Owed
    BY <1>6, <1>7, OwedStays
<1> QED
    BY <1>3, <1>4, <1>5, <1>8 DEF Bank!Redeem, Owed

LEMMA BorrowLends ==
    ASSUME TypeOK, NEW u \in User, NEW m \in Market, NEW a \in U64, NEW rest,
           Borrow(u, m, a, rest)
    PROVE  Bank!Lend(u, m, a)
<1>1. /\ SetPosition(u, m, 0, Debt(u, m) + a)
      /\ TransferOut(u, m, a) /\ AccrueMarkets({m}) /\ slot' = slot
      /\ supplied[u][m] = 0
    BY DEF Borrow, worldVars
<1>2. Bank!Pay(u, m, -a)
    BY <1>1, Scales, TransferOutPays
<1>3. supplied' = supplied
  <2>1. supplied \in [User -> [Market -> U64]] /\ supplied' = [supplied EXCEPT ![u][m] = 0]
      BY <1>1 DEF TypeOK, SetPosition
  <2> QED
      BY <1>1, <2>1
<1>4. Debt(u, m)' = Debt(u, m) + a
    BY <1>1, SetPositionDebts
<1>5. \A v \in User, k \in Market : ~(v = u /\ k = m) => Debt(v, k)' = Debt(v, k)
    BY <1>1, SetPositionDebts
<1>6. Owed' = Bank!Add(Owed, u, m, a)
    BY <1>4, <1>5, OwedMoves
<1> QED
    BY <1>2, <1>3, <1>6 DEF Bank!Lend, Owed

LEMMA RepaySettles ==
    ASSUME TypeOK, NEW u \in User, NEW m \in Market, NEW a \in U64, Repay(u, m, a)
    PROVE  \E pay \in U64 : Bank!Settle(u, m, pay)
<1> DEFINE pay == Payable(u, m, a)
           bor == SatSub(Debt(u, m), pay)
<1>1. /\ SetPosition(u, m, supplied[u][m], bor)
      /\ TransferIn(u, m, pay) /\ AccrueMarkets({m}) /\ slot' = slot
    BY DEF Repay, worldVars
<1>2. pay \in U64 /\ pay <= Debt(u, m)
    BY PayableType
<1>3. Debt(u, m) \in Nat
    BY DebtIsNat
<1> HIDE DEF pay
<1>4. pay \in Nat /\ bor = Debt(u, m) + -pay /\ Debt(u, m) >= pay
  <2>1. pay \in Nat
      BY <1>2, Scales
  <2> QED
      BY <1>2, <1>3, <2>1 DEF SatSub
<1> HIDE DEF bor
<1>5. Bank!Pay(u, m, pay)
    BY <1>1, <1>4, TransferInPays
<1>6. supplied' = supplied
  <2>1. /\ supplied \in [User -> [Market -> U64]]
        /\ supplied' = [supplied EXCEPT ![u][m] = supplied[u][m]]
      BY <1>1 DEF TypeOK, SetPosition
  <2> QED
      BY <2>1
<1>7. Debt(u, m)' = bor
    BY <1>1, SetPositionDebts
<1>8. \A v \in User, k \in Market : ~(v = u /\ k = m) => Debt(v, k)' = Debt(v, k)
    BY <1>1, SetPositionDebts
<1>9. Owed' = Bank!Add(Owed, u, m, -pay)
    BY <1>4, <1>7, <1>8, OwedMoves
<1>10. Owed[u][m] >= pay
    BY <1>4 DEF Owed
<1>11. Bank!Settle(u, m, pay)
    BY <1>5, <1>6, <1>9, <1>10 DEF Bank!Settle, Owed
<1> QED
    BY <1>2, <1>11

LEMMA LiquidateSeizes ==
    ASSUME TypeOK, NEW l \in User, NEW u \in User, NEW d \in Market, NEW c \in Market,
           NEW a \in U64, NEW rest, Liquidate(l, u, d, c, a, rest), d # c
    PROVE  \E paid, taken \in U64 : Bank!Seize(l, u, d, c, paid, taken)
<1>1. PICK r, s : Liquidates(l, u, d, c, r, s)
    BY LiquidateDebts
<1>2. /\ r \in Nat /\ r <= Debt(u, d) /\ r <= wallet[l][d]
      /\ s \in Nat /\ s <= supplied[u][c] /\ s <= vault[c]
      /\ vault' = [vault EXCEPT ![d] = @ + r, ![c] = @ - s]
      /\ wallet' = [wallet EXCEPT ![l][d] = @ - r, ![l][c] = @ + s]
      /\ supplied' = [supplied EXCEPT ![u][c] = @ - s]
      /\ Debt(u, d)' = Debt(u, d) - r
      /\ l # u
    BY <1>1 DEF Liquidates, Liquidate
<1>3. /\ wallet \in [User -> [Market -> U64]]
      /\ wallet[l][d] \in Nat /\ wallet[l][c] \in Nat
      /\ supplied[u][c] \in Nat /\ vault[c] \in Nat /\ vault[d] \in Nat
      /\ Debt(u, d) \in Nat
    BY HoldingsAreNat, DebtIsNat DEF TypeOK
<1>4. r \in U64 /\ s \in U64
  <2>1. wallet[l][d] \in U64 /\ supplied[u][c] \in U64
      BY DEF TypeOK
  <2> QED
      BY <1>2, <1>3, <2>1, WidthAssumption DEF U64
<1>5. /\ supplied[u][c] + -s = supplied[u][c] - s /\ wallet[l][d] + -r = wallet[l][d] - r
      /\ Debt(u, d) - r = Debt(u, d) + -r
      /\ supplied[u][c] >= s /\ wallet[l][d] >= r /\ vault[c] >= s /\ Debt(u, d) >= r
    BY <1>2, <1>3
<1>6. supplied' = Bank!Add(supplied, u, c, -s)
    BY <1>2, <1>5 DEF Bank!Add
<1>7. wallet' = Bank!Add(Bank!Add(wallet, l, d, -r), l, c, s)
    BY <1>2, <1>3, <1>5 DEF Bank!Add
<1>8. \A v \in User, k \in Market : ~(v = u /\ k = d) => Debt(v, k)' = Debt(v, k)
    BY <1>1 DEF Liquidates
<1>9. Owed' = Bank!Add(Owed, u, d, -r)
  <2>1. Debt(u, d)' = Debt(u, d) + -r
      BY <1>2, <1>5
  <2> QED
      BY <1>8, <2>1, OwedMoves
<1>10. Owed[u][d] >= r
    BY <1>5 DEF Owed
<1>11. Bank!Seize(l, u, d, c, r, s)
    BY <1>2, <1>5, <1>6, <1>7, <1>9, <1>10 DEF Bank!Seize, Owed
<1> QED
    BY <1>4, <1>11

LEMMA WaitingCharges ==
    ASSUME LedgerInv, ProductsFit', AdvanceSlot
    PROVE  Bank!Interest
<1>1. vault' = vault /\ wallet' = wallet /\ supplied' = supplied
    BY DEF AdvanceSlot, tokenVars, positionVars
<1>2. \A u \in User, m \in Market : /\ Debt(u, m)' \in U64
                                    /\ Debt(u, m) \in Nat /\ Debt(u, m)' \in Nat
                                    /\ Debt(u, m) <= Debt(u, m)'
                                    /\ Debt(u, m) = 0 => Debt(u, m)' = 0
  <2>1. \A u \in User, m \in Market : /\ Debt(u, m)' \in U64 /\ Debt(u, m) \in Nat
                                      /\ Debt(u, m) <= Debt(u, m)'
                                      /\ Debt(u, m) = 0 => Debt(u, m)' = 0
      BY WaitingDebts, DebtIsNat DEF LedgerInv
  <2> QED
      BY <2>1, Scales
<1>3. Owed' \in [User -> [Market -> U64]]
    BY <1>2 DEF Owed
<1>4. \A u \in User, m \in Market : /\ Owed'[u][m] >= Owed[u][m]
                                    /\ Owed[u][m] = 0 => Owed'[u][m] = 0
  <2> SUFFICES ASSUME NEW u \in User, NEW m \in Market
               PROVE  /\ Owed'[u][m] >= Owed[u][m]
                      /\ Owed[u][m] = 0 => Owed'[u][m] = 0
      OBVIOUS
  <2>1. Owed[u][m] = Debt(u, m) /\ Owed'[u][m] = Debt(u, m)'
      BY DEF Owed
  <2> QED
      BY <1>2, <2>1
<1> QED
    BY <1>1, <1>3, <1>4 DEF Bank!Interest, Owed

-----------------------------------------------------------------------------
(* The refinement.                                                         *)

LEMMA InitIsBank == Init => Bank!Init
<1> SUFFICES ASSUME Init PROVE Bank!Init
    OBVIOUS
<1>1. vault = [m \in Market |-> 0] /\ wallet = Bank!Nothing /\ supplied = Bank!Nothing
    BY DEF Init, Bank!Nothing
<1>2. \A u \in User, m \in Market : Debt(u, m) = 0
    BY DEF Init, Debt, RestatedDebt
<1>3. Owed = Bank!Nothing
    BY <1>2 DEF Owed, Bank!Nothing
<1> QED
    BY <1>1, <1>3 DEF Bank!Init, Owed

LEMMA StepIsBank ==
    ASSUME CrossMarketOnly, LedgerInv, ProductsFit', [ProgramStep]_vars
    PROVE  [Bank!Next]_Bank!vars
<1>1. TypeOK
    BY DEF LedgerInv
<1>2. ASSUME vault' = vault, wallet' = wallet, supplied' = supplied,
             \A u \in User, m \in Market : Debt(u, m)' = Debt(u, m)
      PROVE  UNCHANGED Bank!vars
  <2>1. Owed' = Owed
      BY <1>2, OwedStays
  <2> QED
      BY <1>2, <2>1 DEF Bank!vars, Owed
<1>3. ASSUME NEW m \in Market, NEW a \in U64, InitializeMarket(m, a)
      PROVE  UNCHANGED Bank!vars
    BY <1>2, <1>3, OpeningDebts DEF InitializeMarket, tokenVars, positionVars
<1>4. ASSUME NEW m \in Market, NEW a \in U64, SetClaimAmount(m, a)
      PROVE  UNCHANGED Bank!vars
    BY <1>2, <1>4, DebtsUntouched
    DEF SetClaimAmount, marketVars, tokenVars, positionVars, worldVars
<1>5. ASSUME \E m \in Market, q \in Quote : PublishPrice(m, q)
      PROVE  UNCHANGED Bank!vars
    BY <1>2, <1>5, DebtsUntouched DEF PublishPrice, marketVars, tokenVars, positionVars
<1>6. CASE UNCHANGED vars
    BY <1>2, <1>6, DebtsUntouched DEF vars, marketVars, tokenVars, positionVars, worldVars
<1>7. ASSUME NEW u \in User, NEW m \in Market, ClaimFaucet(u, m)
      PROVE  Bank!Next
    BY <1>1, <1>7, ClaimGrants DEF Bank!Next
<1>8. ASSUME NEW u \in User, NEW m \in Market, NEW a \in U64, NEW rest,
             \/ Supply(u, m, a) \/ Repay(u, m, a)
             \/ Withdraw(u, m, a, rest) \/ Borrow(u, m, a, rest)
      PROVE  Bank!Next
    BY <1>1, <1>8, SupplyDeposits, RepaySettles, WithdrawRedeems, BorrowLends DEF Bank!Next
<1>9. ASSUME NEW l \in User, NEW u \in User, NEW d \in Market, NEW c \in Market,
             NEW a \in U64, NEW rest, <<d, c>> \in LiquidationPairs,
             Liquidate(l, u, d, c, a, rest)
      PROVE  Bank!Next
  <2>1. d # c
      BY <1>9 DEF CrossMarketOnly
  <2> QED
      BY <1>1, <1>9, <2>1, LiquidateSeizes DEF Bank!Next
<1>10. AdvanceSlot => Bank!Next
    BY WaitingCharges DEF Bank!Next
<1> QED
    BY <1>3, <1>4, <1>5, <1>6, <1>7, <1>8, <1>9, <1>10 DEF ProgramStep, UncheckedStep

LEMMA ProgramIsBank == CrossMarketOnly => (Program /\ []ProductsFit => ImplementsBank)
<1> SUFFICES ASSUME CrossMarketOnly
             PROVE  Program /\ []ProductsFit => ImplementsBank
    OBVIOUS
<1>1. LedgerInv /\ ProductsFit' /\ [ProgramStep]_vars => [Bank!Next]_Bank!vars
    BY StepIsBank
<1> QED
    BY <1>1, InitIsBank, ProgramKeepsLedger, PTL DEF Program, ImplementsBank, Bank!Spec

\* Where products fit and debt and collateral are in different markets, the
\* program is the bank: interest charged lazily, position by position, is
\* interest charged to every debtor at once; each instruction moves tokens,
\* deposits and debts together; nothing but a user's own withdrawal or the
\* liquidation of his debt takes from his deposit.
THEOREM SpecIsBank == CrossMarketOnly => (Spec /\ []ProductsFit => ImplementsBank)
BY ProgramIsBank, SpecIsProgram, PTL

===============================================================================
