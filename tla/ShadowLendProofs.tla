--------------------------- MODULE ShadowLendProofs ---------------------------
(***************************************************************************)
(* Theorems of ShadowLend, for every choice of users, markets, widths,     *)
(* rates, prices and amounts its assumptions allow.  The ledger properties *)
(* follow from one inductive invariant, LedgerInv.                         *)
(***************************************************************************)
EXTENDS ShadowLend, ShadowMathProofs, FiniteSetTheorems

-----------------------------------------------------------------------------
(* Sums over users.                                                        *)

LEMMA UnitsFinite ==
    ASSUME NEW f
    PROVE  /\ IsFiniteSet(Units(f))
           /\ Total(f) \in Nat
<1>1. IsFiniteSet(1..U64Max)
    BY WidthAssumption, FS_Interval
<1>2. IsFiniteSet(User \X (1..U64Max))
    BY <1>1, MarketAssumption, FS_Product
<1>3. Units(f) \in SUBSET (User \X (1..U64Max))
    BY DEF Units
<1>4. IsFiniteSet(Units(f))
    BY <1>2, <1>3, FS_Subset
<1> QED
    BY <1>4, FS_CardinalityType DEF Total

\* The units of one user, and those of the others.
LEMMA TotalSplit ==
    ASSUME NEW f \in [User -> U64], NEW u \in User
    PROVE  /\ IsFiniteSet({p \in Units(f) : p[1] # u})
           /\ Cardinality({p \in Units(f) : p[1] # u}) \in Nat
           /\ Total(f) = Cardinality({p \in Units(f) : p[1] # u}) + f[u]
<1> DEFINE Others == {p \in Units(f) : p[1] # u}
           Own == {u} \X (1..f[u])
<1>1. f[u] \in Nat /\ f[u] <= U64Max
    BY WidthAssumption DEF U64
<1>2. IsFiniteSet(Own) /\ Cardinality(Own) = f[u]
  <2>1. IsFiniteSet(1..f[u]) /\ Cardinality(1..f[u]) = f[u]
      BY <1>1, FS_Interval
  <2>2. IsFiniteSet({u}) /\ Cardinality({u}) = 1
      BY FS_Singleton
  <2>3. IsFiniteSet(Own) /\ Cardinality(Own) = Cardinality({u}) * Cardinality(1..f[u])
      BY <2>1, <2>2, FS_Product
  <2> QED
      BY <1>1, <2>1, <2>2, <2>3
<1>3. IsFiniteSet(Others)
    BY UnitsFinite, FS_Subset
<1>4. Units(f) = Others \cup Own
    BY <1>1, WidthAssumption DEF Units, U64
<1>5. Others \cap Own = {}
    OBVIOUS
<1>6. Cardinality(Others \cap Own) = 0
    BY <1>5, FS_EmptySet
<1>7. Cardinality(Others) \in Nat
    BY <1>3, FS_CardinalityType
<1>8. Cardinality(Others \cup Own) = Cardinality(Others) + Cardinality(Own)
                                       - Cardinality(Others \cap Own)
    BY <1>2, <1>3, FS_Union
<1>9. Total(f) = Cardinality(Others \cup Own)
    BY <1>4 DEF Total
<1>10. Total(f) = Cardinality(Others) + f[u]
    BY <1>1, <1>2, <1>6, <1>7, <1>8, <1>9
<1> QED
    BY <1>3, <1>7, <1>10

\* Every user's share is within the sum.
LEMMA TotalBounds ==
    ASSUME NEW f \in [User -> U64], NEW u \in User
    PROVE  f[u] <= Total(f)
<1>1. f[u] \in Nat
    BY WidthAssumption DEF U64
<1>2. /\ Cardinality({p \in Units(f) : p[1] # u}) \in Nat
      /\ Total(f) = Cardinality({p \in Units(f) : p[1] # u}) + f[u]
    BY TotalSplit
<1> QED
    BY <1>1, <1>2

\* A sum moves with the value of the one user that changes.
LEMMA TotalUpdate ==
    ASSUME NEW f \in [User -> U64], NEW u \in User, NEW n \in U64
    PROVE  Total([f EXCEPT ![u] = n]) = Total(f) - f[u] + n
<1> DEFINE g == [f EXCEPT ![u] = n]
<1>1. g \in [User -> U64] /\ g[u] = n
    OBVIOUS
<1>2. {p \in Units(g) : p[1] # u} = {p \in Units(f) : p[1] # u}
    BY DEF Units
<1>3. Total(g) = Cardinality({p \in Units(f) : p[1] # u}) + n
    BY <1>1, <1>2, TotalSplit
<1>4. Total(f) = Cardinality({p \in Units(f) : p[1] # u}) + f[u]
    BY TotalSplit
<1>5. Cardinality({p \in Units(f) : p[1] # u}) \in Nat
    BY TotalSplit
<1> QED
    BY <1>3, <1>4, <1>5 DEF U64

\* Nobody holds anything: the sum is nothing.
LEMMA TotalZero ==
    ASSUME NEW f \in [User -> U64], \A u \in User : f[u] = 0
    PROVE  Total(f) = 0
<1>1. Units(f) = {}
    BY WidthAssumption DEF Units
<1> QED
    BY <1>1, FS_EmptySet DEF Total

\* The same, market by market: g is f but for user u in market m.
LEMMA HeldUpdate ==
    ASSUME NEW f \in [User -> [Market -> U64]], NEW g \in [User -> [Market -> U64]],
           NEW u \in User, NEW m \in Market,
           \A v \in User \ {u} : g[v][m] = f[v][m]
    PROVE  Held(g, m) = Held(f, m) - f[u][m] + g[u][m]
<1> DEFINE Column(h) == [v \in User |-> h[v][m]]
<1>1. Column(f) \in [User -> U64] /\ Column(f)[u] = f[u][m] /\ g[u][m] \in U64
    OBVIOUS
<1>2. Column(g) = [Column(f) EXCEPT ![u] = g[u][m]]
    OBVIOUS
<1>3. Total(Column(g)) = Total(Column(f)) - f[u][m] + g[u][m]
    BY <1>1, <1>2, TotalUpdate
<1> QED
    BY <1>3 DEF Held

LEMMA HeldSame ==
    ASSUME NEW f, NEW g, NEW m, \A v \in User : g[v][m] = f[v][m]
    PROVE  Held(g, m) = Held(f, m)
<1>1. [v \in User |-> g[v][m]] = [v \in User |-> f[v][m]]
    OBVIOUS
<1> QED
    BY <1>1 DEF Held

LEMMA HeldBounds ==
    ASSUME NEW f \in [User -> [Market -> U64]], NEW u \in User, NEW m \in Market
    PROVE  Held(f, m) \in Nat /\ f[u][m] <= Held(f, m)
<1> DEFINE column == [v \in User |-> f[v][m]]
<1>1. column \in [User -> U64] /\ column[u] = f[u][m]
    OBVIOUS
<1>2. Total(column) \in Nat
    BY UnitsFinite
<1>3. column[u] <= Total(column)
    BY <1>1, TotalBounds
<1> QED
    BY <1>1, <1>2, <1>3 DEF Held

LEMMA HeldZero ==
    ASSUME NEW f, NEW m, \A u \in User : f[u][m] = 0
    PROVE  Held(f, m) = 0
<1> DEFINE column == [v \in User |-> f[v][m]]
<1>1. \A u \in User : column[u] = 0
    OBVIOUS
<1>2. column \in [User -> U64]
    BY <1>1, WidthAssumption DEF U64
<1>3. Total(column) = 0
    BY <1>1, <1>2, TotalZero
<1> QED
    BY <1>3 DEF Held

-----------------------------------------------------------------------------
(* What the parts of an instruction preserve.                              *)

LEMMA CurrentIndexGrows ==
    ASSUME TypeOK, NEW m \in Market
    PROVE  CurrentIndex(m) \in U128 /\ CurrentIndex(m) >= index[m]
<1>1. /\ index[m] \in U128
      /\ lastSlot[m] \in Nat /\ slot \in Nat
      /\ Rate[m] \in Nat
    BY MarketAssumption, InputAssumption DEF TypeOK
<1>2. CASE slot <= lastSlot[m]
    BY <1>1, <1>2, WidthAssumption DEF CurrentIndex, U128
<1>3. CASE slot > lastSlot[m]
  <2>1. slot - lastSlot[m] \in Nat
      BY <1>1, <1>3
  <2>2. CurrentIndex(m) = GrownIndex(index[m], Rate[m], slot - lastSlot[m])
      BY <1>1, <1>3 DEF CurrentIndex
  <2> QED
      BY <1>1, <2>1, <2>2, IndexNeverFalls
<1> QED
    BY <1>1, <1>2, <1>3

LEMMA DebtType ==
    ASSUME TypeOK, NEW u \in User, NEW m \in Market
    PROVE  /\ Debt(u, m) \in U64
           /\ borrowed[u][m] = 0 => Debt(u, m) = 0
<1>1. borrowed[u][m] \in U64 /\ snapshot[u][m] \in U128
    BY DEF TypeOK
<1>2. CurrentIndex(m) \in U128
    BY CurrentIndexGrows
<1> QED
    BY <1>1, <1>2, RestatedType DEF Debt

LEMMA AccrueMarketsFacts ==
    ASSUME TypeOK, NEW M, AccrueMarkets(M)
    PROVE  /\ index' \in [Market -> U128]
           /\ lastSlot' \in [Market -> 0..MaxSlot]
           /\ \A m \in Market : index'[m] >= index[m]
           /\ \A m \in Market \cap M : index'[m] = CurrentIndex(m)
<1>1. \A m \in Market : index[m] \in U128 /\ index[m] \in Int
    BY WidthAssumption DEF TypeOK, U128
<1>2. \A m \in Market : CurrentIndex(m) \in U128 /\ CurrentIndex(m) >= index[m]
    BY CurrentIndexGrows
<1>3. index' = [m \in Market |-> IF m \in M THEN CurrentIndex(m) ELSE index[m]]
    BY DEF AccrueMarkets
<1>4. lastSlot' \in [Market -> 0..MaxSlot]
    BY DEF AccrueMarkets, TypeOK
<1> QED
    BY <1>1, <1>2, <1>3, <1>4

\* Tokens that move between one user's wallet and the vaults stay within u64:
\* together they are never more than was minted.
LEMMA TokensMove ==
    ASSUME TypeOK, TokensConserved, NEW u \in User,
           wallet' \in [User -> [Market -> Nat]], vault' \in [Market -> Nat],
           \A v \in User \ {u} : wallet'[v] = wallet[v],
           \A k \in Market : wallet'[u][k] + vault'[k] = wallet[u][k] + vault[k],
           minted' = minted
    PROVE  /\ wallet' \in [User -> [Market -> U64]]
           /\ vault' \in [Market -> U64]
           /\ TokensConserved'
<1>1. /\ wallet \in [User -> [Market -> U64]]
      /\ \A k \in Market : minted[k] \in 0..U64Max /\ vault[k] \in Nat
    BY WidthAssumption DEF TypeOK, U64
<1>2. ASSUME NEW k \in Market PROVE wallet'[u][k] \in U64 /\ vault'[k] \in U64
  <2>1. /\ Held(wallet, k) \in Nat /\ wallet[u][k] <= Held(wallet, k)
        /\ Held(wallet, k) + vault[k] = minted[k]
      BY <1>1, HeldBounds DEF TokensConserved
  <2>2. wallet[u][k] \in Nat /\ wallet'[u][k] \in Nat /\ vault'[k] \in Nat
      BY <1>1, WidthAssumption DEF U64
  <2>3. wallet'[u][k] + vault'[k] = wallet[u][k] + vault[k]
      OBVIOUS
  <2> QED
      BY <1>1, <2>1, <2>2, <2>3, WidthAssumption DEF U64
<1>3. \A v \in User, k \in Market : wallet'[v][k] \in U64
    BY <1>1, <1>2
<1>4. wallet' \in [User -> [Market -> U64]] /\ vault' \in [Market -> U64]
    BY <1>2, <1>3
<1>5. ASSUME NEW k \in Market PROVE Held(wallet', k) + vault'[k] = minted'[k]
  <2>1. \A v \in User \ {u} : wallet'[v][k] = wallet[v][k]
      OBVIOUS
  <2>2. Held(wallet', k) = Held(wallet, k) - wallet[u][k] + wallet'[u][k]
      BY <1>1, <1>4, <2>1, HeldUpdate
  <2>3. Held(wallet, k) \in Nat /\ Held(wallet, k) + vault[k] = minted[k]
      BY <1>1, HeldBounds DEF TokensConserved
  <2>4. wallet[u][k] \in Nat /\ wallet'[u][k] \in Nat /\ vault'[k] \in Nat
      BY <1>1, WidthAssumption DEF U64
  <2>5. wallet'[u][k] + vault'[k] = wallet[u][k] + vault[k]
      OBVIOUS
  <2>6. vault[k] \in Nat /\ minted'[k] = minted[k]
      BY <1>1
  <2>7. Held(wallet', k) + vault'[k] = Held(wallet, k) + vault[k]
      BY <2>2, <2>3, <2>4, <2>5, <2>6
  <2> QED
      BY <2>3, <2>6, <2>7
<1> QED
    BY <1>4, <1>5 DEF TokensConserved

LEMMA TransferInFacts ==
    ASSUME TypeOK, TokensConserved, NEW u \in User, NEW m \in Market, NEW a \in U64,
           TransferIn(u, m, a), minted' = minted
    PROVE  /\ wallet' \in [User -> [Market -> U64]]
           /\ vault' \in [Market -> U64]
           /\ ata' \subseteq User \X Market
           /\ vault' = [vault EXCEPT ![m] = vault[m] + a]
           /\ TokensConserved'
<1>1. /\ wallet \in [User -> [Market -> Nat]] /\ vault \in [Market -> Nat]
      /\ a \in Nat
    BY WidthAssumption DEF TypeOK, U64
<1>2. /\ wallet[u][m] >= a
      /\ wallet' = [wallet EXCEPT ![u][m] = wallet[u][m] - a]
      /\ vault' = [vault EXCEPT ![m] = vault[m] + a]
      /\ ata' \subseteq User \X Market
    BY <1>1 DEF TransferIn, TypeOK
<1>3. wallet' \in [User -> [Market -> Nat]] /\ vault' \in [Market -> Nat]
    BY <1>1, <1>2
<1>4. /\ \A v \in User \ {u} : wallet'[v] = wallet[v]
      /\ \A k \in Market : wallet'[u][k] + vault'[k] = wallet[u][k] + vault[k]
    BY <1>1, <1>2
<1> QED
    BY <1>2, <1>3, <1>4, TokensMove

LEMMA TransferOutFacts ==
    ASSUME TypeOK, TokensConserved, NEW u \in User, NEW m \in Market, NEW a \in U64,
           TransferOut(u, m, a), minted' = minted
    PROVE  /\ wallet' \in [User -> [Market -> U64]]
           /\ vault' \in [Market -> U64]
           /\ ata' \subseteq User \X Market
           /\ vault' = [vault EXCEPT ![m] = vault[m] - a]
           /\ TokensConserved'
<1>1. /\ wallet \in [User -> [Market -> Nat]] /\ vault \in [Market -> Nat]
      /\ a \in Nat
    BY WidthAssumption DEF TypeOK, U64
<1>2. /\ vault[m] >= a
      /\ wallet' = [wallet EXCEPT ![u][m] = wallet[u][m] + a]
      /\ vault' = [vault EXCEPT ![m] = vault[m] - a]
      /\ ata' \subseteq User \X Market
    BY <1>1 DEF TransferOut, TypeOK
<1>3. wallet' \in [User -> [Market -> Nat]] /\ vault' \in [Market -> Nat]
    BY <1>1, <1>2
<1>4. /\ \A v \in User \ {u} : wallet'[v] = wallet[v]
      /\ \A k \in Market : wallet'[u][k] + vault'[k] = wallet[u][k] + vault[k]
    BY <1>1, <1>2
<1> QED
    BY <1>2, <1>3, <1>4, TokensMove

\* Writing a position at its market's current index keeps its debt dated.
LEMMA SetPositionFacts ==
    ASSUME TypeOK, DebtDated, MarketsFirst,
           NEW u \in User, NEW m \in created, NEW sup \in U64, NEW bor \in U64,
           SetPosition(u, m, sup, bor), AccrueMarkets({m}), created' = created,
           opened' = opened \cup {<<u, m>>}
    PROVE  /\ supplied' \in [User -> [Market -> U64]]
           /\ borrowed' \in [User -> [Market -> U64]]
           /\ snapshot' \in [User -> [Market -> U128]]
           /\ supplied' = [supplied EXCEPT ![u][m] = sup]
           /\ opened' \subseteq User \X Market
           /\ DebtDated'
           /\ MarketsFirst'
<1>1. /\ created \subseteq Market /\ m \in Market
      /\ supplied \in [User -> [Market -> U64]]
      /\ borrowed \in [User -> [Market -> U64]]
      /\ snapshot \in [User -> [Market -> U128]]
      /\ \A k \in Market : index[k] \in Int
      /\ \A v \in User, k \in Market : snapshot[v][k] \in Int
    BY WidthAssumption DEF TypeOK, U128
<1>2. /\ supplied' = [supplied EXCEPT ![u][m] = sup]
      /\ borrowed' = [borrowed EXCEPT ![u][m] = bor]
      /\ snapshot' = [snapshot EXCEPT ![u][m] = CurrentIndex(m)]
    BY DEF SetPosition
<1>3. /\ CurrentIndex(m) \in U128
      /\ \A k \in Market : index'[k] >= index[k] /\ index'[k] \in U128
      /\ index'[m] = CurrentIndex(m)
    BY <1>1, AccrueMarketsFacts, CurrentIndexGrows
<1>4. /\ supplied' \in [User -> [Market -> U64]]
      /\ borrowed' \in [User -> [Market -> U64]]
      /\ snapshot' \in [User -> [Market -> U128]]
    BY <1>1, <1>2, <1>3
<1>5. \A k \in Market : index'[k] \in Int
    BY <1>3, WidthAssumption DEF U128
<1>6. index[m] >= RateScale /\ RateScale \in Int
    BY ScaleAssumption, WidthAssumption DEF MarketsFirst
<1>7. DebtDated'
  <2>1. ASSUME NEW v \in User, NEW k \in Market, borrowed'[v][k] > 0
        PROVE  snapshot'[v][k] \in RateScale..index'[k]
    <3>1. CASE v = u /\ k = m
      <4>1. snapshot'[u][m] = index'[m]
          BY <1>1, <1>2, <1>3
      <4>2. index'[m] \in RateScale..index'[m]
          BY <1>1, <1>3, <1>5, <1>6
      <4> QED
          BY <3>1, <4>1, <4>2
    <3>2. CASE ~(v = u /\ k = m)
      <4>1. borrowed'[v][k] = borrowed[v][k] /\ snapshot'[v][k] = snapshot[v][k]
          BY <1>1, <1>2, <3>2
      <4>2. snapshot[v][k] \in RateScale..index[k]
          BY <2>1, <4>1 DEF DebtDated
      <4> QED
          BY <1>1, <1>3, <1>5, <1>6, <4>1, <4>2
    <3> QED
        BY <3>1, <3>2
  <2> QED
      BY <2>1 DEF DebtDated
<1>8. MarketsFirst'
  <2>1. opened' \subseteq User \X created'
      BY DEF MarketsFirst
  <2>2. \A k \in created' : index'[k] >= RateScale
      BY <1>1, <1>3, <1>5, <1>6 DEF MarketsFirst
  <2>3. ASSUME NEW v \in User, NEW k \in Market, <<v, k>> \notin opened'
        PROVE  supplied'[v][k] = 0 /\ borrowed'[v][k] = 0
    <3>1. <<v, k>> \notin opened /\ ~(v = u /\ k = m)
        BY <2>3
    <3>2. supplied[v][k] = 0 /\ borrowed[v][k] = 0
        BY <3>1 DEF MarketsFirst
    <3> QED
        BY <1>1, <1>2, <3>1, <3>2
  <2> QED
      BY <2>1, <2>2, <2>3 DEF MarketsFirst
<1>9. opened' \subseteq User \X Market
    BY <1>1 DEF TypeOK
<1> QED
    BY <1>2, <1>4, <1>7, <1>8, <1>9

\* total_supplied follows the positions of the one user that moves.
LEMMA SupplyMoves ==
    ASSUME TypeOK, SupplyLedger, NEW u \in User,
           supplied' \in [User -> [Market -> U64]],
           \A v \in User \ {u}, k \in Market : supplied'[v][k] = supplied[v][k],
           \A k \in Market :
              totalSupplied'[k] = totalSupplied[k] - supplied[u][k] + supplied'[u][k]
    PROVE  SupplyLedger'
<1>1. supplied \in [User -> [Market -> U64]]
    BY DEF TypeOK
<1>2. ASSUME NEW k \in Market PROVE totalSupplied'[k] = Held(supplied', k)
  <2>1. Held(supplied', k) = Held(supplied, k) - supplied[u][k] + supplied'[u][k]
      BY <1>1, HeldUpdate
  <2>2. totalSupplied[k] = Held(supplied, k)
      BY DEF SupplyLedger
  <2> QED
      BY <2>1, <2>2
<1> QED
    BY <1>2 DEF SupplyLedger

-----------------------------------------------------------------------------
(* The instructions, one by one.                                           *)

LEMMA SupplyPreserves ==
    ASSUME LedgerInv, NEW u \in User, NEW m \in Market, NEW a \in U64, Supply(u, m, a)
    PROVE  LedgerInv'
<1>1. /\ TypeOK /\ TokensConserved /\ SupplyLedger /\ Solvent /\ DebtDated /\ MarketsFirst
    BY DEF LedgerInv
<1>2. /\ m \in created
      /\ supplied[u][m] + a <= U64Max /\ totalSupplied[m] + a <= U64Max
      /\ opened' = opened \cup {<<u, m>>}
      /\ SetPosition(u, m, supplied[u][m] + a, Debt(u, m))
      /\ TransferIn(u, m, a)
      /\ AccrueMarkets({m})
      /\ totalSupplied' = [totalSupplied EXCEPT ![m] = totalSupplied[m] + a]
      /\ UNCHANGED <<created, totalBorrowed, faucetVars, worldVars>>
    BY DEF Supply
<1>3. /\ a \in Nat /\ supplied[u][m] \in Nat
      /\ \A k \in Market : totalSupplied[k] \in Nat /\ vault[k] \in Nat
                           /\ totalBorrowed[k] \in Nat
      /\ supplied[u][m] + a \in U64 /\ totalSupplied[m] + a \in U64
    BY <1>1, <1>2, WidthAssumption DEF TypeOK, U64
<1>4. Debt(u, m) \in U64
    BY <1>1, DebtType
<1>5. /\ wallet' \in [User -> [Market -> U64]] /\ vault' \in [Market -> U64]
      /\ ata' \subseteq User \X Market
      /\ vault' = [vault EXCEPT ![m] = vault[m] + a]
      /\ TokensConserved'
    BY <1>1, <1>2, TransferInFacts DEF faucetVars
<1>6. /\ supplied' \in [User -> [Market -> U64]] /\ borrowed' \in [User -> [Market -> U64]]
      /\ snapshot' \in [User -> [Market -> U128]]
      /\ supplied' = [supplied EXCEPT ![u][m] = supplied[u][m] + a]
      /\ opened' \subseteq User \X Market
      /\ DebtDated' /\ MarketsFirst'
    BY <1>1, <1>2, <1>3, <1>4, SetPositionFacts
<1>7. TypeOK'
  <2>1. index' \in [Market -> U128] /\ lastSlot' \in [Market -> 0..MaxSlot]
      BY <1>1, <1>2, AccrueMarketsFacts
  <2>2. totalSupplied' \in [Market -> U64]
      BY <1>1, <1>2, <1>3 DEF TypeOK
  <2> QED
      BY <1>1, <1>2, <1>5, <1>6, <2>1, <2>2 DEF TypeOK, faucetVars, worldVars
<1>8. SupplyLedger'
  <2>1. \A v \in User \ {u}, k \in Market : supplied'[v][k] = supplied[v][k]
      BY <1>1, <1>6 DEF TypeOK
  <2>2. ASSUME NEW k \in Market
        PROVE  totalSupplied'[k] = totalSupplied[k] - supplied[u][k] + supplied'[u][k]
    <3>1. CASE k = m
        BY <1>1, <1>2, <1>3, <1>6, <3>1 DEF TypeOK
    <3>2. CASE k # m
      <4>1. supplied'[u][k] = supplied[u][k] /\ totalSupplied'[k] = totalSupplied[k]
          BY <1>1, <1>2, <1>6, <3>2 DEF TypeOK
      <4>2. supplied[u][k] \in Int
          BY <1>1, WidthAssumption DEF TypeOK, U64
      <4> QED
          BY <1>3, <4>1, <4>2
    <3> QED
        BY <3>1, <3>2
  <2> QED
      BY <1>1, <1>6, <2>1, <2>2, SupplyMoves
<1>9. Solvent'
  <2>1. ASSUME NEW k \in Market PROVE vault'[k] + totalBorrowed'[k] >= totalSupplied'[k]
    <3>1. vault[k] + totalBorrowed[k] >= totalSupplied[k]
        BY <1>1 DEF Solvent
    <3>2. vault'[k] - vault[k] = totalSupplied'[k] - totalSupplied[k]
        BY <1>1, <1>2, <1>3, <1>5 DEF TypeOK
    <3>3. totalSupplied'[k] \in Int /\ vault'[k] \in Int
        BY <1>5, <1>7, WidthAssumption DEF TypeOK, U64
    <3> QED
        BY <1>2, <1>3, <3>1, <3>2, <3>3
  <2> QED
      BY <2>1 DEF Solvent
<1> QED
    BY <1>5, <1>6, <1>7, <1>8, <1>9 DEF LedgerInv

LEMMA WithdrawPreserves ==
    ASSUME LedgerInv, NEW u \in User, NEW m \in Market, NEW a \in U64, NEW rest,
           Withdraw(u, m, a, rest)
    PROVE  LedgerInv'
<1>1. /\ TypeOK /\ TokensConserved /\ SupplyLedger /\ Solvent /\ DebtDated /\ MarketsFirst
    BY DEF LedgerInv
<1>2. /\ <<u, m>> \in opened
      /\ a <= supplied[u][m] /\ a <= totalSupplied[m]
      /\ SetPosition(u, m, supplied[u][m] - a, Debt(u, m))
      /\ TransferOut(u, m, a)
      /\ AccrueMarkets({m})
      /\ totalSupplied' = [totalSupplied EXCEPT ![m] = totalSupplied[m] - a]
      /\ UNCHANGED <<created, totalBorrowed, opened, faucetVars, worldVars>>
    BY DEF Withdraw
<1>3. /\ a \in Nat /\ supplied[u][m] \in Nat
      /\ \A k \in Market : totalSupplied[k] \in Nat /\ vault[k] \in Nat
                           /\ totalBorrowed[k] \in Nat
      /\ supplied[u][m] - a \in U64 /\ totalSupplied[m] - a \in U64
    BY <1>1, <1>2, WidthAssumption DEF TypeOK, U64
<1>4. /\ m \in created
      /\ opened' = opened \cup {<<u, m>>}
    BY <1>1, <1>2 DEF MarketsFirst
<1>5. /\ wallet' \in [User -> [Market -> U64]] /\ vault' \in [Market -> U64]
      /\ ata' \subseteq User \X Market
      /\ vault' = [vault EXCEPT ![m] = vault[m] - a]
      /\ TokensConserved'
    BY <1>1, <1>2, TransferOutFacts DEF faucetVars
<1>6. /\ supplied' \in [User -> [Market -> U64]] /\ borrowed' \in [User -> [Market -> U64]]
      /\ snapshot' \in [User -> [Market -> U128]]
      /\ supplied' = [supplied EXCEPT ![u][m] = supplied[u][m] - a]
      /\ opened' \subseteq User \X Market
      /\ DebtDated' /\ MarketsFirst'
  <2>1. Debt(u, m) \in U64
      BY <1>1, DebtType
  <2> QED
      BY <1>1, <1>2, <1>3, <1>4, <2>1, SetPositionFacts
<1>7. TypeOK'
  <2>1. index' \in [Market -> U128] /\ lastSlot' \in [Market -> 0..MaxSlot]
      BY <1>1, <1>2, AccrueMarketsFacts
  <2>2. totalSupplied' \in [Market -> U64]
      BY <1>1, <1>2, <1>3 DEF TypeOK
  <2> QED
      BY <1>1, <1>2, <1>5, <1>6, <2>1, <2>2 DEF TypeOK, faucetVars, worldVars
<1>8. SupplyLedger'
  <2>1. \A v \in User \ {u}, k \in Market : supplied'[v][k] = supplied[v][k]
      BY <1>1, <1>6 DEF TypeOK
  <2>2. ASSUME NEW k \in Market
        PROVE  totalSupplied'[k] = totalSupplied[k] - supplied[u][k] + supplied'[u][k]
    <3>1. CASE k = m
        BY <1>1, <1>2, <1>3, <1>6, <3>1 DEF TypeOK
    <3>2. CASE k # m
      <4>1. supplied'[u][k] = supplied[u][k] /\ totalSupplied'[k] = totalSupplied[k]
          BY <1>1, <1>2, <1>6, <3>2 DEF TypeOK
      <4>2. supplied[u][k] \in Int
          BY <1>1, WidthAssumption DEF TypeOK, U64
      <4> QED
          BY <1>3, <4>1, <4>2
    <3> QED
        BY <3>1, <3>2
  <2> QED
      BY <1>1, <1>6, <2>1, <2>2, SupplyMoves
<1>9. Solvent'
  <2>1. ASSUME NEW k \in Market PROVE vault'[k] + totalBorrowed'[k] >= totalSupplied'[k]
    <3>1. vault[k] + totalBorrowed[k] >= totalSupplied[k]
        BY <1>1 DEF Solvent
    <3>2. vault'[k] - vault[k] = totalSupplied'[k] - totalSupplied[k]
        BY <1>1, <1>2, <1>3, <1>5 DEF TypeOK
    <3>3. totalSupplied'[k] \in Int /\ vault'[k] \in Int
        BY <1>5, <1>7, WidthAssumption DEF TypeOK, U64
    <3> QED
        BY <1>2, <1>3, <3>1, <3>2, <3>3
  <2> QED
      BY <2>1 DEF Solvent
<1> QED
    BY <1>5, <1>6, <1>7, <1>8, <1>9 DEF LedgerInv

LEMMA BorrowPreserves ==
    ASSUME LedgerInv, NEW u \in User, NEW m \in Market, NEW a \in U64, NEW rest,
           Borrow(u, m, a, rest)
    PROVE  LedgerInv'
<1>1. /\ TypeOK /\ TokensConserved /\ SupplyLedger /\ Solvent /\ DebtDated /\ MarketsFirst
    BY DEF LedgerInv
<1>2. /\ <<u, m>> \in opened
      /\ supplied[u][m] = 0
      /\ Debt(u, m) + a <= U64Max /\ totalBorrowed[m] + a <= U64Max
      /\ SetPosition(u, m, 0, Debt(u, m) + a)
      /\ TransferOut(u, m, a)
      /\ AccrueMarkets({m})
      /\ totalBorrowed' = [totalBorrowed EXCEPT ![m] = totalBorrowed[m] + a]
      /\ UNCHANGED <<created, totalSupplied, opened, faucetVars, worldVars>>
    BY DEF Borrow
<1>3. /\ a \in Nat /\ Debt(u, m) \in Nat
      /\ \A k \in Market : totalSupplied[k] \in Nat /\ vault[k] \in Nat
                           /\ totalBorrowed[k] \in Nat
      /\ 0 \in U64 /\ Debt(u, m) + a \in U64 /\ totalBorrowed[m] + a \in U64
  <2>1. Debt(u, m) \in U64
      BY <1>1, DebtType
  <2> QED
      BY <1>1, <1>2, <2>1, WidthAssumption DEF TypeOK, U64
<1>4. /\ m \in created
      /\ opened' = opened \cup {<<u, m>>}
    BY <1>1, <1>2 DEF MarketsFirst
<1>5. /\ wallet' \in [User -> [Market -> U64]] /\ vault' \in [Market -> U64]
      /\ ata' \subseteq User \X Market
      /\ vault' = [vault EXCEPT ![m] = vault[m] - a]
      /\ TokensConserved'
    BY <1>1, <1>2, TransferOutFacts DEF faucetVars
<1>6. /\ supplied' \in [User -> [Market -> U64]] /\ borrowed' \in [User -> [Market -> U64]]
      /\ snapshot' \in [User -> [Market -> U128]]
      /\ supplied' = [supplied EXCEPT ![u][m] = 0]
      /\ opened' \subseteq User \X Market
      /\ DebtDated' /\ MarketsFirst'
    BY <1>1, <1>2, <1>3, <1>4, SetPositionFacts
<1>7. supplied' = supplied
    BY <1>1, <1>2, <1>6 DEF TypeOK
<1>8. TypeOK'
  <2>1. index' \in [Market -> U128] /\ lastSlot' \in [Market -> 0..MaxSlot]
      BY <1>1, <1>2, AccrueMarketsFacts
  <2>2. totalBorrowed' \in [Market -> U64]
      BY <1>1, <1>2, <1>3 DEF TypeOK
  <2> QED
      BY <1>1, <1>2, <1>5, <1>6, <2>1, <2>2 DEF TypeOK, faucetVars, worldVars
<1>9. SupplyLedger'
    BY <1>1, <1>2, <1>7 DEF SupplyLedger
<1>10. Solvent'
  <2>1. ASSUME NEW k \in Market PROVE vault'[k] + totalBorrowed'[k] >= totalSupplied'[k]
    <3>1. vault[k] + totalBorrowed[k] >= totalSupplied[k]
        BY <1>1 DEF Solvent
    <3>2. vault'[k] + totalBorrowed'[k] = vault[k] + totalBorrowed[k]
        BY <1>1, <1>2, <1>3, <1>5 DEF TypeOK
    <3> QED
        BY <1>2, <3>1, <3>2
  <2> QED
      BY <2>1 DEF Solvent
<1> QED
    BY <1>5, <1>6, <1>8, <1>9, <1>10 DEF LedgerInv

\* What repay and liquidate take is a debt's share, so a u64.
LEMMA PayableType ==
    ASSUME TypeOK, NEW u \in User, NEW m \in Market, NEW a \in U64
    PROVE  /\ Payable(u, m, a) \in U64
           /\ SatSub(Debt(u, m), Payable(u, m, a)) \in U64
           /\ Payable(u, m, a) <= Debt(u, m)
<1>1. Debt(u, m) \in U64
    BY DebtType
<1> QED
    BY <1>1, WidthAssumption DEF Payable, Least, SatSub, U64

LEMMA RepayPreserves ==
    ASSUME LedgerInv, NEW u \in User, NEW m \in Market, NEW a \in U64, Repay(u, m, a)
    PROVE  LedgerInv'
<1> DEFINE pay == Payable(u, m, a)
<1>1. /\ TypeOK /\ TokensConserved /\ SupplyLedger /\ Solvent /\ DebtDated /\ MarketsFirst
    BY DEF LedgerInv
<1>2. /\ m \in created
      /\ pay > 0
      /\ SetPosition(u, m, supplied[u][m], SatSub(Debt(u, m), pay))
      /\ TransferIn(u, m, pay)
      /\ AccrueMarkets({m})
      /\ totalBorrowed' = [totalBorrowed EXCEPT ![m] = SatSub(totalBorrowed[m], pay)]
      /\ UNCHANGED <<created, totalSupplied, opened, faucetVars, worldVars>>
    BY DEF Repay
<1>3. /\ pay \in U64 /\ pay \in Nat
      /\ SatSub(Debt(u, m), pay) \in U64
      /\ pay <= Debt(u, m)
    BY <1>1, PayableType, WidthAssumption DEF U64
<1> HIDE DEF pay
<1>4. /\ supplied[u][m] \in U64
      /\ \A k \in Market : totalSupplied[k] \in Nat /\ vault[k] \in Nat
                           /\ totalBorrowed[k] \in Nat /\ totalBorrowed[k] <= U64Max
    BY <1>1, WidthAssumption DEF TypeOK, U64
<1>5. opened' = opened \cup {<<u, m>>}
  <2>1. Debt(u, m) \in U64 /\ (borrowed[u][m] = 0 => Debt(u, m) = 0)
      BY <1>1, DebtType
  <2>2. borrowed[u][m] # 0
      BY <1>2, <1>3, <2>1
  <2>3. <<u, m>> \in opened
      BY <1>1, <2>2 DEF MarketsFirst
  <2> QED
      BY <1>2, <2>3
<1>6. /\ wallet' \in [User -> [Market -> U64]] /\ vault' \in [Market -> U64]
      /\ ata' \subseteq User \X Market
      /\ vault' = [vault EXCEPT ![m] = vault[m] + pay]
      /\ TokensConserved'
    BY <1>1, <1>2, <1>3, TransferInFacts DEF faucetVars
<1>7. /\ supplied' \in [User -> [Market -> U64]] /\ borrowed' \in [User -> [Market -> U64]]
      /\ snapshot' \in [User -> [Market -> U128]]
      /\ supplied' = [supplied EXCEPT ![u][m] = supplied[u][m]]
      /\ opened' \subseteq User \X Market
      /\ DebtDated' /\ MarketsFirst'
    BY <1>1, <1>2, <1>3, <1>4, <1>5, SetPositionFacts
<1>8. supplied' = supplied
    BY <1>1, <1>7 DEF TypeOK
<1>9. SatSub(totalBorrowed[m], pay) \in U64 /\ SatSub(totalBorrowed[m], pay) \in Int
      /\ SatSub(totalBorrowed[m], pay) >= totalBorrowed[m] - pay
    BY <1>3, <1>4, WidthAssumption DEF SatSub, U64
<1>10. TypeOK'
  <2>1. index' \in [Market -> U128] /\ lastSlot' \in [Market -> 0..MaxSlot]
      BY <1>1, <1>2, AccrueMarketsFacts
  <2>2. totalBorrowed' \in [Market -> U64]
      BY <1>1, <1>2, <1>9 DEF TypeOK
  <2> QED
      BY <1>1, <1>2, <1>6, <1>7, <2>1, <2>2 DEF TypeOK, faucetVars, worldVars
<1>11. SupplyLedger'
    BY <1>1, <1>2, <1>8 DEF SupplyLedger
<1>12. Solvent'
  <2>1. ASSUME NEW k \in Market PROVE vault'[k] + totalBorrowed'[k] >= totalSupplied'[k]
    <3>1. vault[k] + totalBorrowed[k] >= totalSupplied[k]
        BY <1>1 DEF Solvent
    <3>2. CASE k = m
      <4>1. vault'[k] = vault[m] + pay /\ totalBorrowed'[k] = SatSub(totalBorrowed[m], pay)
          BY <1>1, <1>2, <1>6, <3>2 DEF TypeOK
      <4> QED
          BY <1>2, <1>3, <1>4, <1>9, <3>1, <3>2, <4>1
    <3>3. CASE k # m
        BY <1>1, <1>2, <1>6, <3>1, <3>3 DEF TypeOK
    <3> QED
        BY <3>2, <3>3
  <2> QED
      BY <2>1 DEF Solvent
<1> QED
    BY <1>6, <1>7, <1>10, <1>11, <1>12 DEF LedgerInv

\* The seizure is a number, and never more than the position holds.
LEMMA SeizableType ==
    ASSUME TypeOK, NEW u \in User, NEW d \in Market, NEW c \in Market, NEW r \in U64
    PROVE  Seizable(u, d, c, r) \in 0..supplied[u][c]
<1>1. /\ r \in Nat /\ supplied[u][c] \in Nat
      /\ price[d] \in Quote /\ price[c] \in Quote
  <2>1. supplied[u][c] \in U64 /\ price[d] \in Quote /\ price[c] \in Quote
      BY DEF TypeOK
  <2> QED
      BY <2>1, Scales
<1>2. SeizeFor(r, price[d], price[c]) \in Nat
    BY <1>1, Scales, SeizureWorth
<1> QED
    BY <1>1, <1>2 DEF Seizable, Least

LEMMA LiquidatePreserves ==
    ASSUME LedgerInv, NEW l \in User, NEW u \in User, NEW d \in Market, NEW c \in Market,
           NEW a \in U64, NEW rest, Liquidate(l, u, d, c, a, rest)
    PROVE  LedgerInv'
<1> DEFINE r == Payable(u, d, a)
           s == Seizable(u, d, c, r)
<1>1. /\ TypeOK /\ TokensConserved /\ SupplyLedger /\ Solvent /\ DebtDated /\ MarketsFirst
    BY DEF LedgerInv
<1>2. /\ <<u, d>> \in opened /\ <<u, c>> \in opened
      /\ vault[c] >= s
      /\ wallet[l][d] >= r
      /\ wallet' = [wallet EXCEPT ![l][d] = @ - r, ![l][c] = @ + s]
      /\ vault' = [vault EXCEPT ![d] = @ + r, ![c] = @ - s]
      /\ borrowed' = [borrowed EXCEPT ![u] =
                         [borrowed[u] EXCEPT ![d] = SatSub(Debt(u, d), r), ![c] = Debt(u, c)]]
      /\ supplied' = [supplied EXCEPT ![u] =
                         [supplied[u] EXCEPT ![d] = supplied[u][d],
                                             ![c] = SatSub(supplied[u][c], s)]]
      /\ snapshot' = [snapshot EXCEPT ![u] =
                         [snapshot[u] EXCEPT ![d] = CurrentIndex(d), ![c] = CurrentIndex(c)]]
      /\ AccrueMarkets({d, c})
      /\ totalBorrowed' = [totalBorrowed EXCEPT ![d] = SatSub(totalBorrowed[d], r),
                                                ![c] = totalBorrowed[c]]
      /\ totalSupplied' = [totalSupplied EXCEPT ![d] = totalSupplied[d],
                                                ![c] = SatSub(totalSupplied[c], s)]
      /\ UNCHANGED <<created, opened, ata, faucetVars, worldVars>>
    BY <1>1 DEF Liquidate, WriteBack, TypeOK
<1>3. /\ r \in U64 /\ SatSub(Debt(u, d), r) \in U64
      /\ s \in 0..supplied[u][c]
    BY <1>1, PayableType, SeizableType
<1> HIDE DEF r, s
<1>4. /\ r \in Nat /\ s \in Nat /\ s <= supplied[u][c]
      /\ supplied[u][c] \in Nat
      /\ \A k \in Market : totalSupplied[k] \in Nat /\ vault[k] \in Nat
                           /\ totalBorrowed[k] \in Nat /\ totalBorrowed[k] <= U64Max
                           /\ totalSupplied[k] <= U64Max /\ supplied[u][k] \in Nat
      /\ wallet \in [User -> [Market -> Nat]] /\ vault \in [Market -> Nat]
      /\ totalSupplied \in [Market -> Nat] /\ totalBorrowed \in [Market -> Nat]
    BY <1>1, <1>3, WidthAssumption DEF TypeOK, U64
\* What is seized is in the ledger: both saturating subtractions are exact.
<1>5. /\ SatSub(supplied[u][c], s) = supplied[u][c] - s
      /\ SatSub(totalSupplied[c], s) = totalSupplied[c] - s
      /\ s <= totalSupplied[c]
  <2>1. supplied \in [User -> [Market -> U64]]
      BY <1>1 DEF TypeOK
  <2>2. Held(supplied, c) \in Nat /\ supplied[u][c] <= Held(supplied, c)
      BY <2>1, HeldBounds
  <2>3. totalSupplied[c] = Held(supplied, c)
      BY <1>1 DEF SupplyLedger
  <2> QED
      BY <1>4, <2>2, <2>3 DEF SatSub
<1>6. /\ wallet' \in [User -> [Market -> U64]] /\ vault' \in [Market -> U64]
      /\ TokensConserved'
  <2>1. /\ wallet' = [wallet EXCEPT ![l][d] = @ - r, ![l][c] = @ + s]
        /\ vault' = [vault EXCEPT ![d] = @ + r, ![c] = @ - s]
        /\ wallet[l][d] >= r /\ vault[c] >= s
      BY <1>2
  <2>2. /\ wallet \in [User -> [Market -> Nat]] /\ vault \in [Market -> Nat]
        /\ r \in Nat /\ s \in Nat
      BY <1>4
  <2>3. /\ wallet' \in [User -> [Market -> Nat]] /\ vault' \in [Market -> Nat]
        /\ \A v \in User \ {l} : wallet'[v] = wallet[v]
        /\ \A k \in Market : wallet'[l][k] + vault'[k] = wallet[l][k] + vault[k]
    <3>1. wallet' \in [User -> [Market -> Nat]]
        BY <2>1, <2>2
    <3>2. vault' \in [Market -> Nat]
        BY <2>1, <2>2
    <3>3. \A v \in User \ {l} : wallet'[v] = wallet[v]
        BY <2>1, <2>2
    <3>4. \A k \in Market : wallet'[l][k] + vault'[k] = wallet[l][k] + vault[k]
        BY <2>1, <2>2
    <3> QED
        BY <3>1, <3>2, <3>3, <3>4
  <2>4. minted' = minted
      BY <1>2 DEF faucetVars
  <2> QED
      BY <1>1, <2>3, <2>4, TokensMove
<1>7. /\ supplied' \in [User -> [Market -> U64]] /\ borrowed' \in [User -> [Market -> U64]]
      /\ snapshot' \in [User -> [Market -> U128]]
  <2>1. supplied[u][c] - s \in U64
      BY <1>1, <1>4, WidthAssumption DEF TypeOK, U64
  <2>2. Debt(u, c) \in U64
      BY <1>1, DebtType
  <2>3. CurrentIndex(d) \in U128 /\ CurrentIndex(c) \in U128
      BY <1>1, CurrentIndexGrows
  <2> QED
      BY <1>1, <1>2, <1>3, <1>5, <2>1, <2>2, <2>3 DEF TypeOK
<1>8. /\ index' \in [Market -> U128] /\ lastSlot' \in [Market -> 0..MaxSlot]
      /\ \A k \in Market : index'[k] >= index[k] /\ index'[k] \in Int /\ index[k] \in Int
      /\ index'[d] = CurrentIndex(d) /\ index'[c] = CurrentIndex(c)
  <2>1. /\ index' \in [Market -> U128] /\ lastSlot' \in [Market -> 0..MaxSlot]
        /\ \A k \in Market : index'[k] >= index[k]
        /\ index'[d] = CurrentIndex(d) /\ index'[c] = CurrentIndex(c)
      BY <1>1, <1>2, AccrueMarketsFacts
  <2> QED
      BY <1>1, <2>1, WidthAssumption DEF TypeOK, U128
<1>9. TypeOK'
  <2>1. totalSupplied' \in [Market -> U64]
      BY <1>1, <1>2, <1>4, <1>5, WidthAssumption DEF TypeOK, U64
  <2>2. SatSub(totalBorrowed[d], r) \in U64
      BY <1>4, WidthAssumption DEF SatSub, U64
  <2>3. totalBorrowed' \in [Market -> U64]
      BY <1>1, <1>2, <2>2 DEF TypeOK
  <2> QED
      BY <1>1, <1>2, <1>6, <1>7, <1>8, <2>1, <2>3 DEF TypeOK, faucetVars, worldVars
<1>10. SupplyLedger'
  <2>1. \A v \in User \ {u}, k \in Market : supplied'[v][k] = supplied[v][k]
      BY <1>1, <1>2 DEF TypeOK
  <2>2. ASSUME NEW k \in Market
        PROVE  totalSupplied'[k] = totalSupplied[k] - supplied[u][k] + supplied'[u][k]
    <3>1. CASE k = c
      <4>1. supplied'[u][c] = supplied[u][c] - s /\ totalSupplied'[c] = totalSupplied[c] - s
          BY <1>1, <1>2, <1>5 DEF TypeOK
      <4>2. totalSupplied[c] - s = totalSupplied[c] - supplied[u][c] + (supplied[u][c] - s)
          BY <1>4
      <4> QED
          BY <3>1, <4>1, <4>2
    <3>2. CASE k # c
      <4>1. supplied'[u][k] = supplied[u][k] /\ totalSupplied'[k] = totalSupplied[k]
          BY <1>1, <1>2, <3>2 DEF TypeOK
      <4> QED
          BY <1>4, <4>1
    <3> QED
        BY <3>1, <3>2
  <2> QED
      BY <1>1, <1>7, <2>1, <2>2, SupplyMoves
<1>11. Solvent'
  <2>1. ASSUME NEW k \in Market PROVE vault'[k] + totalBorrowed'[k] >= totalSupplied'[k]
    <3>1. vault[k] + totalBorrowed[k] >= totalSupplied[k]
        BY <1>1 DEF Solvent
    <3>2. /\ SatSub(totalBorrowed[d], r) >= totalBorrowed[d] - r
          /\ SatSub(totalBorrowed[d], r) \in Int
        BY <1>4 DEF SatSub
    <3>3. CASE k = c
      <4>1. /\ totalBorrowed'[c] = totalBorrowed[c]
            /\ totalSupplied'[c] = totalSupplied[c] - s
            /\ vault'[c] >= vault[c] - s
            /\ vault'[c] \in Int
          BY <1>2, <1>4, <1>5
      <4> QED
          BY <1>4, <3>1, <3>3, <4>1
    <3>4. CASE k = d /\ k # c
      <4>1. /\ totalBorrowed'[d] = SatSub(totalBorrowed[d], r)
            /\ totalSupplied'[d] = totalSupplied[d]
            /\ vault'[d] = vault[d] + r
          BY <1>2, <1>4, <3>4
      <4> QED
          BY <1>4, <3>1, <3>2, <3>4, <4>1
    <3>5. CASE k # d /\ k # c
        BY <1>2, <1>4, <3>1, <3>5
    <3> QED
        BY <3>3, <3>4, <3>5
  <2> QED
      BY <2>1 DEF Solvent
<1>12. d \in created /\ c \in created
    BY <1>1, <1>2 DEF MarketsFirst
<1>13. DebtDated'
  <2>1. ASSUME NEW v \in User, NEW k \in Market, borrowed'[v][k] > 0
        PROVE  snapshot'[v][k] \in RateScale..index'[k]
    <3>1. /\ RateScale \in Int
          /\ \A j \in created : index[j] >= RateScale
        BY <1>1, ScaleAssumption, WidthAssumption DEF MarketsFirst
    <3>2. CASE v = u /\ k \in {d, c}
      <4>1. snapshot'[u][k] = index'[k]
          BY <1>1, <1>2, <1>8, <3>2 DEF TypeOK
      <4>2. index'[k] >= RateScale /\ index'[k] \in Int
          BY <1>8, <1>12, <3>1, <3>2
      <4> QED
          BY <3>1, <3>2, <4>1, <4>2
    <3>3. CASE ~(v = u /\ k \in {d, c})
      <4>1. borrowed'[v][k] = borrowed[v][k] /\ snapshot'[v][k] = snapshot[v][k]
          BY <1>1, <1>2, <3>3 DEF TypeOK
      <4>2. snapshot[v][k] \in RateScale..index[k]
          BY <1>1, <2>1, <4>1 DEF DebtDated
      <4> QED
          BY <1>8, <3>1, <4>1, <4>2
    <3> QED
        BY <3>2, <3>3
  <2> QED
      BY <2>1 DEF DebtDated
<1>14. MarketsFirst'
  <2>1. opened' \subseteq User \X created'
      BY <1>1, <1>2 DEF MarketsFirst
  <2>2. ASSUME NEW k \in created' PROVE index'[k] >= RateScale
    <3>1. k \in Market /\ index[k] >= RateScale
        BY <1>1, <1>2 DEF MarketsFirst, TypeOK
    <3> QED
        BY <1>8, <3>1, ScaleAssumption, WidthAssumption
  <2>3. ASSUME NEW v \in User, NEW k \in Market, <<v, k>> \notin opened'
        PROVE  supplied'[v][k] = 0 /\ borrowed'[v][k] = 0
    <3>1. <<v, k>> \notin opened /\ ~(v = u /\ k \in {d, c})
        BY <1>2, <2>3
    <3>2. supplied[v][k] = 0 /\ borrowed[v][k] = 0
        BY <1>1, <3>1 DEF MarketsFirst
    <3> QED
        BY <1>1, <1>2, <3>1, <3>2 DEF TypeOK
  <2> QED
      BY <2>1, <2>2, <2>3 DEF MarketsFirst
<1> QED
    BY <1>6, <1>9, <1>10, <1>11, <1>13, <1>14 DEF LedgerInv

\* A market is opened empty: nobody has a position in it.
LEMMA InitializeMarketPreserves ==
    ASSUME LedgerInv, NEW m \in Market, NEW a \in U64, InitializeMarket(m, a)
    PROVE  LedgerInv'
<1>1. /\ TypeOK /\ TokensConserved /\ SupplyLedger /\ Solvent /\ DebtDated /\ MarketsFirst
    BY DEF LedgerInv
<1>2. /\ m \notin created
      /\ created' = created \cup {m}
      /\ claimAmount' = [claimAmount EXCEPT ![m] = a]
      /\ index' = [index EXCEPT ![m] = RateScale]
      /\ lastSlot' = [lastSlot EXCEPT ![m] = slot]
      /\ totalSupplied' = [totalSupplied EXCEPT ![m] = 0]
      /\ totalBorrowed' = [totalBorrowed EXCEPT ![m] = 0]
      /\ claimCount' = [claimCount EXCEPT ![m] = 0]
      /\ UNCHANGED <<receipts, minted, positionVars, tokenVars, worldVars>>
    BY DEF InitializeMarket, Vacant
<1>3. RateScale \in U128 /\ RateScale \in Int /\ 0 \in U64
    BY ScaleAssumption, WidthAssumption DEF U64, U128
<1>4. \A u \in User : supplied[u][m] = 0 /\ borrowed[u][m] = 0
    BY <1>1, <1>2 DEF MarketsFirst
<1>5. TypeOK'
    BY <1>1, <1>2, <1>3 DEF TypeOK, positionVars, tokenVars, worldVars
<1>6. TokensConserved'
    BY <1>1, <1>2 DEF TokensConserved, tokenVars, Held
<1>7. SupplyLedger'
  <2>1. ASSUME NEW k \in Market PROVE totalSupplied'[k] = Held(supplied', k)
    <3>1. supplied' = supplied /\ totalSupplied[k] = Held(supplied, k)
        BY <1>1, <1>2 DEF SupplyLedger, positionVars
    <3>2. CASE k = m
      <4>1. Held(supplied, m) = 0
          BY <1>4, HeldZero
      <4>2. totalSupplied'[m] = 0
          BY <1>1, <1>2 DEF TypeOK
      <4> QED
          BY <3>1, <3>2, <4>1, <4>2
    <3>3. CASE k # m
        BY <1>1, <1>2, <3>1, <3>3 DEF TypeOK
    <3> QED
        BY <3>2, <3>3
  <2> QED
      BY <2>1 DEF SupplyLedger
<1>8. Solvent'
  <2>1. ASSUME NEW k \in Market PROVE vault'[k] + totalBorrowed'[k] >= totalSupplied'[k]
    <3>1. /\ vault'[k] = vault[k] /\ vault[k] \in Nat
          /\ vault[k] + totalBorrowed[k] >= totalSupplied[k]
        BY <1>1, <1>2, WidthAssumption DEF TypeOK, U64, Solvent, tokenVars
    <3>2. CASE k = m
      <4>1. totalBorrowed'[k] = 0 /\ totalSupplied'[k] = 0
          BY <1>1, <1>2, <3>2 DEF TypeOK
      <4> QED
          BY <3>1, <4>1
    <3>3. CASE k # m
        BY <1>1, <1>2, <3>1, <3>3 DEF TypeOK
    <3> QED
        BY <3>2, <3>3
  <2> QED
      BY <2>1 DEF Solvent
<1>9. DebtDated'
  <2>1. ASSUME NEW u \in User, NEW k \in Market, borrowed'[u][k] > 0
        PROVE  snapshot'[u][k] \in RateScale..index'[k]
    <3>1. borrowed[u][k] > 0 /\ snapshot'[u][k] = snapshot[u][k]
        BY <1>2, <2>1 DEF positionVars
    <3>2. k # m
        BY <1>4, <3>1
    <3>3. index'[k] = index[k]
        BY <1>1, <1>2, <3>2 DEF TypeOK
    <3> QED
        BY <1>1, <3>1, <3>3 DEF DebtDated
  <2> QED
      BY <2>1 DEF DebtDated
<1>10. MarketsFirst'
  <2>1. opened' \subseteq User \X created'
      BY <1>1, <1>2 DEF MarketsFirst, positionVars
  <2>2. \A k \in created' : index'[k] >= RateScale
      BY <1>1, <1>2, <1>3 DEF MarketsFirst, TypeOK
  <2>3. \A u \in User, k \in Market :
           <<u, k>> \notin opened' => supplied'[u][k] = 0 /\ borrowed'[u][k] = 0
      BY <1>1, <1>2 DEF MarketsFirst, positionVars
  <2> QED
      BY <2>1, <2>2, <2>3 DEF MarketsFirst
<1> QED
    BY <1>5, <1>6, <1>7, <1>8, <1>9, <1>10 DEF LedgerInv

\* A claim adds as much to one wallet as to what the mint has issued.
LEMMA ClaimFaucetPreserves ==
    ASSUME LedgerInv, NEW u \in User, NEW m \in Market, ClaimFaucet(u, m)
    PROVE  LedgerInv'
<1> DEFINE a == claimAmount[m]
<1>1. /\ TypeOK /\ TokensConserved /\ SupplyLedger /\ Solvent /\ DebtDated /\ MarketsFirst
    BY DEF LedgerInv
<1>2. /\ minted[m] + a <= U64Max
      /\ claimCount[m] + 1 <= U64Max
      /\ minted' = [minted EXCEPT ![m] = minted[m] + a]
      /\ wallet' = [wallet EXCEPT ![u][m] = wallet[u][m] + a]
      /\ ata' = ata \cup {<<u, m>>}
      /\ receipts' = receipts \cup {<<u, m>>}
      /\ claimCount' = [claimCount EXCEPT ![m] = claimCount[m] + 1]
      /\ UNCHANGED <<claimAmount, marketVars, positionVars, vault, worldVars>>
    BY <1>1 DEF ClaimFaucet, TypeOK
<1>3. /\ a \in Nat /\ minted[m] \in Nat /\ claimCount[m] \in Nat /\ wallet[u][m] \in Nat
      /\ wallet \in [User -> [Market -> U64]]
      /\ U64Max \in Nat
      /\ \A k \in Market : vault[k] \in Nat
    BY <1>1, WidthAssumption DEF TypeOK, U64
<1> HIDE DEF a
<1>4. /\ Held(wallet, m) \in Nat /\ wallet[u][m] <= Held(wallet, m)
      /\ Held(wallet, m) + vault[m] = minted[m]
    BY <1>1, <1>3, HeldBounds DEF TokensConserved
<1>5. /\ wallet[u][m] + a \in U64 /\ minted[m] + a \in U64 /\ claimCount[m] + 1 \in U64
  <2>1. vault[m] \in Nat
      BY <1>3
  <2>2. wallet[u][m] + a <= U64Max
      BY <1>2, <1>3, <1>4, <2>1
  <2> QED
      BY <1>2, <1>3, <2>2 DEF U64
<1>6. wallet' \in [User -> [Market -> U64]]
    BY <1>2, <1>3, <1>5
<1>7. TypeOK'
  <2>1. minted' \in [Market -> U64] /\ claimCount' \in [Market -> U64]
      BY <1>1, <1>2, <1>5 DEF TypeOK
  <2> QED
      BY <1>1, <1>2, <1>6, <2>1 DEF TypeOK, marketVars, positionVars, worldVars
<1>8. TokensConserved'
  <2>1. ASSUME NEW k \in Market PROVE Held(wallet', k) + vault'[k] = minted'[k]
    <3>1. vault'[k] = vault[k] /\ Held(wallet, k) + vault[k] = minted[k]
        BY <1>1, <1>2 DEF TokensConserved
    <3>2. CASE k = m
      <4>1. \A v \in User \ {u} : wallet'[v][m] = wallet[v][m]
          BY <1>2, <1>3
      <4>2. Held(wallet', m) = Held(wallet, m) - wallet[u][m] + wallet'[u][m]
          BY <1>3, <1>6, <4>1, HeldUpdate
      <4>3. wallet'[u][m] = wallet[u][m] + a /\ minted'[m] = minted[m] + a
          BY <1>1, <1>2 DEF TypeOK
      <4>4. vault[m] \in Nat
          BY <1>3
      <4> QED
          BY <1>3, <1>4, <3>1, <3>2, <4>2, <4>3, <4>4
    <3>3. CASE k # m
      <4>1. \A v \in User : wallet'[v][k] = wallet[v][k]
          BY <1>2, <1>3, <3>3
      <4>2. Held(wallet', k) = Held(wallet, k)
          BY <4>1, HeldSame
      <4>3. minted'[k] = minted[k]
          BY <1>1, <1>2, <3>3 DEF TypeOK
      <4> QED
          BY <3>1, <4>2, <4>3
    <3> QED
        BY <3>2, <3>3
  <2> QED
      BY <2>1 DEF TokensConserved
<1>9. SupplyLedger'
    BY <1>1, <1>2 DEF SupplyLedger, marketVars, positionVars
<1>10. Solvent'
    BY <1>1, <1>2 DEF Solvent, marketVars
<1>11. DebtDated'
    BY <1>1, <1>2 DEF DebtDated, marketVars, positionVars
<1>12. MarketsFirst'
    BY <1>1, <1>2 DEF MarketsFirst, marketVars, positionVars
<1> QED
    BY <1>7, <1>8, <1>9, <1>10, <1>11, <1>12 DEF LedgerInv

\* Steps that touch neither markets, positions nor tokens keep the ledger.
LEMMA LedgerUntouched ==
    ASSUME LedgerInv, TypeOK',
           UNCHANGED <<created, index, totalSupplied, totalBorrowed, minted,
                       positionVars, tokenVars>>
    PROVE  LedgerInv'
<1>1. TokensConserved' /\ SupplyLedger' /\ Solvent'
    BY DEF LedgerInv, TokensConserved, SupplyLedger, Solvent, positionVars, tokenVars
<1>2. DebtDated' /\ MarketsFirst'
    BY DEF LedgerInv, DebtDated, MarketsFirst, positionVars
<1> QED
    BY <1>1, <1>2 DEF LedgerInv

LEMMA SetClaimAmountPreserves ==
    ASSUME LedgerInv, NEW m \in Market, NEW a \in U64, SetClaimAmount(m, a)
    PROVE  LedgerInv'
<1>1. TypeOK'
    BY DEF LedgerInv, TypeOK, SetClaimAmount, marketVars, positionVars, tokenVars, worldVars
<1> QED
    BY <1>1, LedgerUntouched DEF SetClaimAmount, marketVars

LEMMA AdvanceSlotPreserves ==
    ASSUME LedgerInv, AdvanceSlot
    PROVE  LedgerInv'
<1>1. slot' \in 0..MaxSlot
    BY InputAssumption DEF AdvanceSlot, LedgerInv, TypeOK
<1>2. TypeOK'
    BY <1>1 DEF AdvanceSlot, LedgerInv, TypeOK, marketVars, faucetVars, positionVars, tokenVars
<1> QED
    BY <1>2, LedgerUntouched DEF AdvanceSlot, marketVars, faucetVars

LEMMA PublishPricePreserves ==
    ASSUME LedgerInv, NEW m \in Market, NEW q \in Quote, PublishPrice(m, q)
    PROVE  LedgerInv'
<1>1. price' \in [Market -> Quote] /\ publishedAt' \in [Market -> 0..MaxSlot]
    BY DEF PublishPrice, LedgerInv, TypeOK
<1>2. TypeOK'
    BY <1>1 DEF PublishPrice, LedgerInv, TypeOK, marketVars, faucetVars, positionVars, tokenVars
<1> QED
    BY <1>2, LedgerUntouched DEF PublishPrice, marketVars, faucetVars

-----------------------------------------------------------------------------
(* The invariant.                                                          *)

LEMMA LedgerInit ==
    Init => LedgerInv
<1> SUFFICES ASSUME Init PROVE LedgerInv
    OBVIOUS
<1>1. TypeOK
    BY WidthAssumption, InputAssumption DEF Init, TypeOK, U64, U128
<1>2. \A m \in Market : Held(wallet, m) = 0 /\ Held(supplied, m) = 0
    BY HeldZero DEF Init
<1>3. TokensConserved /\ SupplyLedger /\ Solvent
    BY <1>2 DEF Init, TokensConserved, SupplyLedger, Solvent
<1>4. DebtDated /\ MarketsFirst
    BY DEF Init, DebtDated, MarketsFirst
<1> QED
    BY <1>1, <1>3, <1>4 DEF LedgerInv

\* What happens without a health check, whoever calls, with any amount.
UncheckedStep ==
    \/ \E m \in Market, a \in U64 : InitializeMarket(m, a) \/ SetClaimAmount(m, a)
    \/ \E u \in User, m \in Market : ClaimFaucet(u, m)
    \/ \E u \in User, m \in Market, a \in U64 : Supply(u, m, a) \/ Repay(u, m, a)
    \/ AdvanceSlot
    \/ \E m \in Market, q \in Quote : PublishPrice(m, q)

\* What the program may do on chain, whatever positions the caller lists for
\* the health check.
ProgramStep ==
    \/ UncheckedStep
    \/ \E u \in User, m \in Market, a \in U64 : \E rest :
          Withdraw(u, m, a, rest) \/ Borrow(u, m, a, rest)
    \/ \E l \in User, u \in User, d \in Market, c \in Market, a \in U64 : \E rest :
          <<d, c>> \in LiquidationPairs /\ Liquidate(l, u, d, c, a, rest)

Program == Init /\ [][ProgramStep]_vars

\* A client that lists every active position is one of those callers.
LEMMA NextIsProgramStep ==
    ASSUME [Next]_vars
    PROVE  [ProgramStep]_vars
<1>1. /\ ClaimAmounts \subseteq U64
      /\ \A m \in Market : Amounts[m] \subseteq U64 /\ Quotes[m] \subseteq Quote
    BY InputAssumption
<1>2. CASE Faucet
    BY <1>1, <1>2 DEF Faucet, ProgramStep, UncheckedStep
<1>3. CASE Modify
    BY <1>1, <1>3 DEF Modify, ProgramStep, UncheckedStep
<1>4. CASE Liquidation
  <2>1. PICK l \in User, u \in User, p \in LiquidationPairs :
           \E a \in Amounts[p[1]], rest \in LiquidatorListings(u, p[1], p[2]) :
              Liquidate(l, u, p[1], p[2], a, rest)
      BY <1>4 DEF Liquidation
  <2>2. p[1] \in Market /\ p[2] \in Market /\ <<p[1], p[2]>> \in LiquidationPairs
      BY MarketAssumption
  <2>3. PICK a \in U64 : \E rest : Liquidate(l, u, p[1], p[2], a, rest)
      BY <1>1, <2>1, <2>2
  <2> QED
      BY <2>2, <2>3 DEF ProgramStep, UncheckedStep
<1>5. CASE World
    BY <1>1, <1>5 DEF World, ProgramStep, UncheckedStep
<1> QED
    BY <1>2, <1>3, <1>4, <1>5 DEF Next, Trade

LEMMA SpecIsProgram == Spec => Program
<1>1. [Next]_vars => [ProgramStep]_vars
    BY NextIsProgramStep
<1> QED
    BY <1>1, PTL DEF Spec, Program

LEMMA LedgerStep ==
    LedgerInv /\ [ProgramStep]_vars => LedgerInv'
<1> SUFFICES ASSUME LedgerInv, [ProgramStep]_vars PROVE LedgerInv'
    OBVIOUS
<1>1. ASSUME NEW m \in Market, NEW a \in U64, InitializeMarket(m, a) \/ SetClaimAmount(m, a)
      PROVE  LedgerInv'
    BY <1>1, InitializeMarketPreserves, SetClaimAmountPreserves
<1>2. ASSUME NEW u \in User, NEW m \in Market, ClaimFaucet(u, m)
      PROVE  LedgerInv'
    BY <1>2, ClaimFaucetPreserves
<1>3. ASSUME NEW u \in User, NEW m \in Market, NEW a \in U64, NEW rest,
             \/ Supply(u, m, a) \/ Repay(u, m, a)
             \/ Withdraw(u, m, a, rest) \/ Borrow(u, m, a, rest)
      PROVE  LedgerInv'
    BY <1>3, SupplyPreserves, RepayPreserves, WithdrawPreserves, BorrowPreserves
<1>4. ASSUME NEW l \in User, NEW u \in User, NEW d \in Market, NEW c \in Market,
             NEW a \in U64, NEW rest, Liquidate(l, u, d, c, a, rest)
      PROVE  LedgerInv'
    BY <1>4, LiquidatePreserves
<1>5. ASSUME AdvanceSlot \/ \E m \in Market, q \in Quote : PublishPrice(m, q)
      PROVE  LedgerInv'
    BY <1>5, AdvanceSlotPreserves, PublishPricePreserves
<1>6. CASE UNCHANGED vars
  <2>1. TypeOK'
      BY <1>6 DEF LedgerInv, TypeOK, vars, marketVars, faucetVars, positionVars,
                  tokenVars, worldVars
  <2> QED
      BY <1>6, <2>1, LedgerUntouched DEF vars, marketVars, faucetVars
<1> QED
    BY <1>1, <1>2, <1>3, <1>4, <1>5, <1>6 DEF ProgramStep, UncheckedStep

LEMMA ProgramKeepsLedger == Program => []LedgerInv
BY LedgerInit, LedgerStep, PTL DEF Program

\* No sequence of instructions, of any number of users in any number of
\* markets, breaks the ledger: no order of claims, supplies, withdrawals,
\* borrows, repayments, liquidations, price changes and slots.
THEOREM LedgerInvariant == Spec => []LedgerInv
BY ProgramKeepsLedger, SpecIsProgram, PTL

\* Every account field stays within its Rust type: the sums and differences the
\* program computes unchecked, or lets the token program compute, do not leave
\* it.
THEOREM TypeCorrect == Spec => []TypeOK
<1>1. LedgerInv => TypeOK
    BY DEF LedgerInv
<1> QED
    BY <1>1, LedgerInvariant, PTL

\* supply, withdraw and liquidate keep Market.total_supplied equal to what the
\* positions of the market hold; liquidate's saturating_sub never saturates.
THEOREM SupplyLedgerHolds == Spec => []SupplyLedger
<1>1. LedgerInv => SupplyLedger
    BY DEF LedgerInv
<1> QED
    BY <1>1, LedgerInvariant, PTL

\* The vault of a market and what it has lent cover what was supplied to it,
\* whatever is liquidated, also when debt and collateral are one account.
THEOREM SolventAlways == Spec => []Solvent
<1>1. LedgerInv => Solvent
    BY DEF LedgerInv
<1> QED
    BY <1>1, LedgerInvariant, PTL

\* accrue_position always finds a debt dated by an index between the market's
\* first and its present one.
THEOREM DebtDatedAlways == Spec => []DebtDated
<1>1. LedgerInv => DebtDated
    BY DEF LedgerInv
<1> QED
    BY <1>1, LedgerInvariant, PTL

-----------------------------------------------------------------------------
(* Each wallet claims once from each faucet: the markets' claim counters   *)
(* are the numbers of their receipts.                                      *)

Claimants(m) == {u \in User : <<u, m>> \in receipts}

\* Inductive beside the types: a market that is opened anew finds no receipts
\* that its counter of zero would miss.
ClaimsInv == receipts \subseteq User \X created /\ OneClaimEach

LEMMA ClaimantsFinite ==
    ASSUME NEW m
    PROVE  IsFiniteSet(Claimants(m)) /\ Cardinality(Claimants(m)) \in Nat
<1>1. Claimants(m) \in SUBSET User
    BY DEF Claimants
<1> QED
    BY <1>1, MarketAssumption, FS_Subset, FS_CardinalityType

LEMMA ClaimsUntouched ==
    ASSUME ClaimsInv, UNCHANGED <<created, receipts, claimCount>>
    PROVE  ClaimsInv'
BY DEF ClaimsInv, OneClaimEach

LEMMA OpeningKeepsClaims ==
    ASSUME TypeOK, ClaimsInv, NEW m \in Market, NEW a, InitializeMarket(m, a)
    PROVE  ClaimsInv'
<1>1. /\ m \notin created /\ created' = created \cup {m} /\ receipts' = receipts
      /\ claimCount' = [claimCount EXCEPT ![m] = 0]
      /\ claimCount \in [Market -> U64]
    BY DEF InitializeMarket, Vacant, TypeOK
<1>2. receipts' \subseteq User \X created'
    BY <1>1 DEF ClaimsInv
<1>3. ASSUME NEW k \in Market
      PROVE  claimCount'[k] = Cardinality({u \in User : <<u, k>> \in receipts'})
  <2>1. CASE k = m
    <3>1. {u \in User : <<u, k>> \in receipts'} = {}
        BY <1>1, <2>1 DEF ClaimsInv
    <3> QED
        BY <1>1, <2>1, <3>1, FS_EmptySet
  <2>2. CASE k # m
      BY <1>1, <2>2 DEF ClaimsInv, OneClaimEach
  <2> QED
      BY <2>1, <2>2
<1> QED
    BY <1>2, <1>3 DEF ClaimsInv, OneClaimEach

LEMMA ClaimingCounts ==
    ASSUME TypeOK, ClaimsInv, NEW u \in User, NEW m \in Market, ClaimFaucet(u, m)
    PROVE  ClaimsInv'
<1>1. /\ m \in created /\ <<u, m>> \notin receipts /\ created' = created
      /\ receipts' = receipts \cup {<<u, m>>}
      /\ claimCount' = [claimCount EXCEPT ![m] = claimCount[m] + 1]
      /\ claimCount \in [Market -> U64]
    BY DEF ClaimFaucet, Unclaimed, marketVars, TypeOK
<1>2. receipts' \subseteq User \X created'
    BY <1>1 DEF ClaimsInv
<1>3. ASSUME NEW k \in Market
      PROVE  claimCount'[k] = Cardinality({v \in User : <<v, k>> \in receipts'})
  <2>1. claimCount[k] = Cardinality(Claimants(k))
      BY DEF ClaimsInv, OneClaimEach, Claimants
  <2>2. CASE k = m
    <3>1. {v \in User : <<v, k>> \in receipts'} = Claimants(k) \cup {u}
        BY <1>1, <2>2 DEF Claimants
    <3>2. u \notin Claimants(k)
        BY <1>1, <2>2 DEF Claimants
    <3>3. Cardinality(Claimants(k) \cup {u}) = Cardinality(Claimants(k)) + 1
        BY <3>2, ClaimantsFinite, FS_AddElement
    <3> QED
        BY <1>1, <2>1, <2>2, <3>1, <3>3
  <2>3. CASE k # m
    <3>1. {v \in User : <<v, k>> \in receipts'} = Claimants(k)
        BY <1>1, <2>3 DEF Claimants
    <3> QED
        BY <1>1, <2>1, <2>3, <3>1
  <2> QED
      BY <2>2, <2>3
<1> QED
    BY <1>2, <1>3 DEF ClaimsInv, OneClaimEach

LEMMA ClaimsStep ==
    TypeOK /\ ClaimsInv /\ [ProgramStep]_vars => ClaimsInv'
<1> SUFFICES ASSUME TypeOK, ClaimsInv, [ProgramStep]_vars
             PROVE  ClaimsInv'
    OBVIOUS
<1>1. ASSUME NEW m \in Market, NEW a \in U64, InitializeMarket(m, a)
      PROVE  ClaimsInv'
    BY <1>1, OpeningKeepsClaims
<1>2. ASSUME NEW m \in Market, NEW a \in U64, SetClaimAmount(m, a)
      PROVE  ClaimsInv'
    BY <1>2, ClaimsUntouched DEF SetClaimAmount, marketVars
<1>3. ASSUME NEW u \in User, NEW m \in Market, ClaimFaucet(u, m)
      PROVE  ClaimsInv'
    BY <1>3, ClaimingCounts
<1>4. ASSUME NEW u \in User, NEW m \in Market, NEW a \in U64, NEW rest,
             \/ Supply(u, m, a) \/ Repay(u, m, a)
             \/ Withdraw(u, m, a, rest) \/ Borrow(u, m, a, rest)
      PROVE  ClaimsInv'
    BY <1>4, ClaimsUntouched DEF Supply, Repay, Withdraw, Borrow, faucetVars
<1>5. ASSUME NEW l \in User, NEW u \in User, NEW d \in Market, NEW c \in Market,
             NEW a \in U64, NEW rest, Liquidate(l, u, d, c, a, rest)
      PROVE  ClaimsInv'
    BY <1>5, ClaimsUntouched DEF Liquidate, faucetVars
<1>6. ASSUME AdvanceSlot \/ \E m \in Market, q \in Quote : PublishPrice(m, q)
      PROVE  ClaimsInv'
    BY <1>6, ClaimsUntouched DEF AdvanceSlot, PublishPrice, marketVars, faucetVars
<1>7. CASE UNCHANGED vars
    BY <1>7, ClaimsUntouched DEF vars, marketVars, faucetVars
<1> QED
    BY <1>1, <1>2, <1>3, <1>4, <1>5, <1>6, <1>7 DEF ProgramStep, UncheckedStep

LEMMA ProgramCountsClaims == Program => []OneClaimEach
<1>1. Init => ClaimsInv
  <2> SUFFICES ASSUME Init
               PROVE  ClaimsInv
      OBVIOUS
  <2>1. receipts = {} /\ \A m \in Market : claimCount[m] = 0
      BY DEF Init
  <2>2. \A m \in Market : {u \in User : <<u, m>> \in receipts} = {}
      BY <2>1
  <2> QED
      BY <2>1, <2>2, FS_EmptySet DEF ClaimsInv, OneClaimEach
<1>2. ClaimsInv => OneClaimEach
    BY DEF ClaimsInv
<1>3. LedgerInv => TypeOK
    BY DEF LedgerInv
<1> QED
    BY <1>1, <1>2, <1>3, ClaimsStep, ProgramKeepsLedger, PTL DEF Program

\* claim_faucet's receipt and counter agree after any sequence of instructions,
\* markets opened and claim amounts changed in between included.
THEOREM OneClaimAlways == Spec => []OneClaimEach
BY ProgramCountsClaims, SpecIsProgram, PTL

===============================================================================
