------------------------------ MODULE ShadowLend ------------------------------
(***************************************************************************)
(* The on-chain lending program (programs/shadow-lend/src/lib.rs): markets *)
(* with their vaults and faucets, positions, and the instructions supply,  *)
(* withdraw, borrow, repay and liquidate over them.                        *)
(*                                                                         *)
(* A transaction is one step.  An instruction that returns an error leaves *)
(* every account as it was, so each of its checks is a conjunct of the     *)
(* action and a failing call is no step at all.                            *)
(*                                                                         *)
(* A Position keeps copies of its market's feed id, LTV and decimals;      *)
(* nothing ever changes them in a market, so the model reads the market's. *)
(* Slots and unix seconds are one clock.                                   *)
(***************************************************************************)
EXTENDS ShadowMath, FiniteSets

CONSTANTS
    User,
    Market,
    MaxLtv,            \* [Market -> u16], the LTV argument of initialize_market
    Rate,              \* [Market -> u64], its borrow_rate_per_slot_e18 argument
    ClaimAmounts,      \* amounts an admin configures for a faucet
    Amounts,           \* [Market -> SUBSET u64], amounts a caller passes
    StartPrice,        \* [Market -> Quote], what the feeds say at first
    Quotes,            \* [Market -> SUBSET Quote], what they may say later
    MaxPriceAge,       \* MAX_PRICE_AGE_SEC
    MaxSlot,           \* bound of the clock
    CompleteListing,   \* no read fails while a client lists its user's positions
    LiquidationPairs   \* the <<debt market, collateral market>> pairs callers pick

ASSUME MarketAssumption ==
    /\ IsFiniteSet(User) /\ IsFiniteSet(Market)
    /\ MaxLtv \in [Market -> Nat]
    /\ Rate \in [Market -> Nat]
    /\ LiquidationPairs \subseteq Market \X Market

ASSUME InputAssumption ==
    /\ ClaimAmounts \subseteq U64
    /\ Amounts \in [Market -> SUBSET U64]
    /\ StartPrice \in [Market -> Quote]
    /\ Quotes \in [Market -> SUBSET Quote]
    /\ MaxPriceAge \in Nat
    /\ MaxSlot \in Nat
    /\ CompleteListing \in BOOLEAN

VARIABLES
    created,        \* markets that exist
    index,          \* Market.borrow_index_e18
    lastSlot,       \* Market.last_update_slot
    totalSupplied,  \* Market.total_supplied
    totalBorrowed,  \* Market.total_borrowed
    claimAmount,    \* Market.amount_per_claim
    claimCount,     \* Market.claim_count
    receipts,       \* ClaimReceipt accounts, as <<user, market>>
    minted,         \* supply of each market's mint
    opened,         \* Position accounts that exist, as <<user, market>>
    supplied,       \* Position.supplied
    borrowed,       \* Position.borrowed
    snapshot,       \* Position.borrow_index_snapshot_e18
    ata,            \* associated token accounts that exist, as <<user, market>>
    wallet,         \* their balances
    vault,          \* balance of each market's vault
    slot,           \* Clock
    price,          \* the price in each feed's PriceUpdateV2 account
    publishedAt     \* and its publish_time

marketVars   == <<created, index, lastSlot, totalSupplied, totalBorrowed>>
faucetVars   == <<claimAmount, claimCount, receipts, minted>>
positionVars == <<opened, supplied, borrowed, snapshot>>
tokenVars    == <<ata, wallet, vault>>
worldVars    == <<slot, price, publishedAt>>

vars == <<marketVars, faucetVars, positionVars, tokenVars, worldVars>>

\* Each variable holds values of its account field's width.
TypeOK ==
    /\ created \subseteq Market
    /\ index \in [Market -> U128]
    /\ lastSlot \in [Market -> 0..MaxSlot]
    /\ totalSupplied \in [Market -> U64]
    /\ totalBorrowed \in [Market -> U64]
    /\ claimAmount \in [Market -> U64]
    /\ claimCount \in [Market -> U64]
    /\ receipts \subseteq User \X Market
    /\ minted \in [Market -> U64]
    /\ opened \subseteq User \X Market
    /\ supplied \in [User -> [Market -> U64]]
    /\ borrowed \in [User -> [Market -> U64]]
    /\ snapshot \in [User -> [Market -> U128]]
    /\ ata \subseteq User \X Market
    /\ wallet \in [User -> [Market -> U64]]
    /\ vault \in [Market -> U64]
    /\ slot \in 0..MaxSlot
    /\ price \in [Market -> Quote]
    /\ publishedAt \in [Market -> 0..MaxSlot]

Init ==
    /\ created = {}
    /\ index = [m \in Market |-> 0]
    /\ lastSlot = [m \in Market |-> 0]
    /\ totalSupplied = [m \in Market |-> 0]
    /\ totalBorrowed = [m \in Market |-> 0]
    /\ claimAmount = [m \in Market |-> 0]
    /\ claimCount = [m \in Market |-> 0]
    /\ receipts = {}
    /\ minted = [m \in Market |-> 0]
    /\ opened = {}
    /\ supplied = [u \in User |-> [m \in Market |-> 0]]
    /\ borrowed = [u \in User |-> [m \in Market |-> 0]]
    /\ snapshot = [u \in User |-> [m \in Market |-> 0]]
    /\ ata = {}
    /\ wallet = [u \in User |-> [m \in Market |-> 0]]
    /\ vault = [m \in Market |-> 0]
    /\ slot = 0
    /\ price = StartPrice
    /\ publishedAt = [m \in Market |-> 0]

-----------------------------------------------------------------------------
(* Accrual, read by every instruction before anything else.                *)

\* The index accrue_market leaves in market m.
CurrentIndex(m) ==
    IF slot <= lastSlot[m] THEN index[m]
    ELSE GrownIndex(index[m], Rate[m], slot - lastSlot[m])

\* fault: the slot is stored, the index is not
AccrueSlotsOnly(M) ==
    /\ UNCHANGED index
    /\ lastSlot' = [m \in Market |->
                       IF m \in M /\ slot > lastSlot[m] THEN slot ELSE lastSlot[m]]

AccrueMarkets(M) ==
    /\ index' = [m \in Market |-> IF m \in M THEN CurrentIndex(m) ELSE index[m]]
    /\ lastSlot' = [m \in Market |->
                       IF m \in M /\ slot > lastSlot[m] THEN slot ELSE lastSlot[m]]

\* The debt accrue_position leaves in u's position: what u really owes now.
Debt(u, m) == RestatedDebt(borrowed[u][m], snapshot[u][m], CurrentIndex(m))

-----------------------------------------------------------------------------
(* The health check.                                                       *)

\* PriceUpdateV2::get_price_no_older_than
Fresh(m) == publishedAt[m] + MaxPriceAge >= slot

Active(u, m) == supplied[u][m] > 0 \/ borrowed[u][m] > 0

\* u's positions outside of the markets S.
OtherPositions(u, S) == {m \in Market \ S : <<u, m>> \in opened}

\* What u's client passes in remaining_accounts when the instruction's own
\* market is m.  It lists every other active position, except those whose read
\* failed: fetchPosition answers null and the market is skipped.
ClientListings(u, m) ==
    LET active == {k \in OtherPositions(u, {m}) : Active(u, k)}
    IN  IF CompleteListing THEN {active} ELSE SUBSET active

\* What a liquidator passes of borrower u's positions: those he likes.  The
\* program asks of each that it is u's, and of none that it is there.
LiquidatorListings(u, d, c) == SUBSET OtherPositions(u, {d, c})

\* accumulate_remaining: stored amounts, as they are.
CollateralUsd(sup, S) ==
    SumSat(LAMBDA m : CollateralAtLtv(sup[m], price[m], MaxLtv[m]), S)
DebtUsd(bor, S) ==
    SumSat(LAMBDA m : TokenUsd(bor[m], price[m]), S)

\* The markets S of the instruction need fresh prices, and so do the listed
\* positions, but for empty ones, which are passed over.
AllFresh(u, S, rest) ==
    /\ \A m \in S : Fresh(m)
    /\ \A m \in rest : Active(u, m) => Fresh(m)

\* fault: the stored position is checked, not the one the instruction leaves
CoveredBefore(u, m, sup, bor, rest) ==
    /\ AllFresh(u, {m}, rest)
    /\ DebtUsd(borrowed[u], rest \cup {m}) <= CollateralUsd(supplied[u], rest \cup {m})

\* fault: of the listed positions only the collateral is added
CoveredAlone(u, m, sup, bor, rest) ==
    /\ AllFresh(u, {m}, rest)
    /\ TokenUsd(bor, price[m])
         <= SatAdd(CollateralAtLtv(sup, price[m], MaxLtv[m]), CollateralUsd(supplied[u], rest))

\* The check of withdraw and borrow, on market m with the amounts the
\* instruction would leave in it, and on the positions listed in rest.
Covered(u, m, sup, bor, rest) ==
    /\ AllFresh(u, {m}, rest)
    /\ DebtUsd([borrowed[u] EXCEPT ![m] = bor], rest \cup {m})
         <= CollateralUsd([supplied[u] EXCEPT ![m] = sup], rest \cup {m})

\* fault: a borrower exactly at the limit counts as under water
UnderwaterAtLimit(u, d, c, rest) ==
    LET bor == [borrowed[u] EXCEPT ![d] = Debt(u, d), ![c] = Debt(u, c)]
    IN  DebtUsd(bor, {d, c} \cup rest) >= CollateralUsd(supplied[u], {d, c} \cup rest)

\* fault: the listed positions are not walked
UnderwaterAlone(u, d, c, rest) ==
    DebtUsd([borrowed[u] EXCEPT ![d] = Debt(u, d), ![c] = Debt(u, c)], {d, c})
      > CollateralUsd(supplied[u], {d, c})

\* The check of liquidate: both main positions are added, even when they are
\* the same account, then the listed ones.
Underwater(u, d, c, rest) ==
    LET sup == supplied[u]
        bor == [borrowed[u] EXCEPT ![d] = Debt(u, d), ![c] = Debt(u, c)]
    IN  SatAdd(SatAdd(DebtUsd(bor, {d}), DebtUsd(bor, {c})), DebtUsd(bor, rest))
          > SatAdd(SatAdd(CollateralUsd(sup, {d}), CollateralUsd(sup, {c})),
                   CollateralUsd(sup, rest))

-----------------------------------------------------------------------------
(* Markets and their faucets.                                              *)

\* Anchor's init on the market and on the receipt: each is created once.
VacantUnchecked(m) == TRUE  \* fault: init_if_needed
Vacant(m) == m \notin created
UnclaimedUnchecked(u, m) == TRUE  \* fault: init_if_needed
Unclaimed(u, m) == <<u, m>> \notin receipts

InitializeMarket(m, amount) ==
    /\ Vacant(m)
    /\ MaxLtv[m] > 0 /\ MaxLtv[m] < BpsDenominator
    /\ created' = created \cup {m}
    /\ claimAmount' = [claimAmount EXCEPT ![m] = amount]
    /\ index' = [index EXCEPT ![m] = RateScale]
    /\ lastSlot' = [lastSlot EXCEPT ![m] = slot]
    /\ totalSupplied' = [totalSupplied EXCEPT ![m] = 0]
    /\ totalBorrowed' = [totalBorrowed EXCEPT ![m] = 0]
    /\ claimCount' = [claimCount EXCEPT ![m] = 0]
    /\ UNCHANGED <<receipts, minted, positionVars, tokenVars, worldVars>>

\* By the market's admin, the signer of initialize_market.
SetClaimAmount(m, amount) ==
    /\ m \in created
    /\ claimAmount' = [claimAmount EXCEPT ![m] = amount]
    /\ UNCHANGED <<marketVars, claimCount, receipts, minted, positionVars,
                   tokenVars, worldVars>>

ClaimFaucet(u, m) ==
    /\ m \in created
    /\ Unclaimed(u, m)
    /\ minted[m] + claimAmount[m] <= U64Max
    /\ claimCount[m] + 1 <= U64Max
    /\ minted' = [minted EXCEPT ![m] = @ + claimAmount[m]]
    /\ wallet' = [wallet EXCEPT ![u][m] = @ + claimAmount[m]]
    /\ ata' = ata \cup {<<u, m>>}
    /\ receipts' = receipts \cup {<<u, m>>}
    /\ claimCount' = [claimCount EXCEPT ![m] = @ + 1]
    /\ UNCHANGED <<claimAmount, marketVars, positionVars, vault, worldVars>>

-----------------------------------------------------------------------------
(* Positions.                                                              *)

\* fault: the debt is restated, its snapshot is not
SetPositionUndated(u, m, sup, bor) ==
    /\ supplied' = [supplied EXCEPT ![u][m] = sup]
    /\ borrowed' = [borrowed EXCEPT ![u][m] = bor]
    /\ snapshot' = [snapshot EXCEPT ![u][m] = IF @ = 0 THEN CurrentIndex(m) ELSE @]

\* u's position in m after accrual, holding sup and bor.
SetPosition(u, m, sup, bor) ==
    /\ supplied' = [supplied EXCEPT ![u][m] = sup]
    /\ borrowed' = [borrowed EXCEPT ![u][m] = bor]
    /\ snapshot' = [snapshot EXCEPT ![u][m] = CurrentIndex(m)]

\* SPL transfers between u's token account and the vault of m; withdraw and
\* borrow create the account if needed.
TransferIn(u, m, amount) ==
    /\ wallet[u][m] >= amount
    /\ wallet' = [wallet EXCEPT ![u][m] = @ - amount]
    /\ vault' = [vault EXCEPT ![m] = @ + amount]
    /\ ata' = ata \cup {<<u, m>>}

TransferOut(u, m, amount) ==
    /\ vault[m] >= amount
    /\ vault' = [vault EXCEPT ![m] = @ - amount]
    /\ wallet' = [wallet EXCEPT ![u][m] = @ + amount]
    /\ ata' = ata \cup {<<u, m>>}

Supply(u, m, amount) ==
    /\ m \in created
    /\ amount > 0
    /\ supplied[u][m] + amount <= U64Max
    /\ totalSupplied[m] + amount <= U64Max
    /\ opened' = opened \cup {<<u, m>>}
    /\ SetPosition(u, m, supplied[u][m] + amount, Debt(u, m))
    /\ TransferIn(u, m, amount)
    /\ AccrueMarkets({m})
    /\ totalSupplied' = [totalSupplied EXCEPT ![m] = @ + amount]
    /\ UNCHANGED <<created, totalBorrowed, faucetVars, worldVars>>

Withdraw(u, m, amount, rest) ==
    /\ <<u, m>> \in opened
    /\ amount > 0
    /\ amount <= supplied[u][m]
    /\ Covered(u, m, supplied[u][m] - amount, Debt(u, m), rest)
    /\ amount <= totalSupplied[m]
    /\ SetPosition(u, m, supplied[u][m] - amount, Debt(u, m))
    /\ TransferOut(u, m, amount)
    /\ AccrueMarkets({m})
    /\ totalSupplied' = [totalSupplied EXCEPT ![m] = @ - amount]
    /\ UNCHANGED <<created, totalBorrowed, opened, faucetVars, worldVars>>

Borrow(u, m, amount, rest) ==
    /\ <<u, m>> \in opened
    /\ amount > 0
    /\ supplied[u][m] = 0
    /\ Debt(u, m) + amount <= U64Max
    /\ vault[m] >= amount
    /\ Covered(u, m, 0, Debt(u, m) + amount, rest)
    /\ totalBorrowed[m] + amount <= U64Max
    /\ SetPosition(u, m, 0, Debt(u, m) + amount)
    /\ TransferOut(u, m, amount)
    /\ AccrueMarkets({m})
    /\ totalBorrowed' = [totalBorrowed EXCEPT ![m] = @ + amount]
    /\ UNCHANGED <<created, totalSupplied, opened, faucetVars, worldVars>>

\* Never more than the borrower owes.
PayableUncapped(u, m, amount) == amount  \* fault: the cap is forgotten
Payable(u, m, amount) == Least(amount, Debt(u, m))

\* A position the instruction would create owes nothing and is refused.
Repay(u, m, amount) ==
    LET pay == Payable(u, m, amount)
    IN  /\ m \in created
        /\ amount > 0
        /\ pay > 0
        /\ SetPosition(u, m, supplied[u][m], SatSub(Debt(u, m), pay))
        /\ TransferIn(u, m, pay)
        /\ AccrueMarkets({m})
        /\ totalBorrowed' = [totalBorrowed EXCEPT ![m] = SatSub(@, pay)]
        /\ UNCHANGED <<created, totalSupplied, opened, faucetVars, worldVars>>

\* Never more than the borrower supplied.
SeizableUncapped(u, d, c, repaid) == SeizeFor(repaid, price[d], price[c])  \* fault: no cap
Seizable(u, d, c, repaid) == Least(SeizeFor(repaid, price[d], price[c]), supplied[u][c])

\* The account structs are written back in the order they are declared, the
\* collateral market and position after the debt ones: when both are the same
\* account, what was stored through the debt structs is lost.
WriteDebtLast(field, d, ofDebt, c, ofCollateral) ==  \* fault: the other order
    [field EXCEPT ![c] = ofCollateral, ![d] = ofDebt]
WriteBack(field, d, ofDebt, c, ofCollateral) ==
    [field EXCEPT ![d] = ofDebt, ![c] = ofCollateral]

Liquidate(l, u, d, c, amount, rest) ==
    LET repaid == Payable(u, d, amount)
        seized == Seizable(u, d, c, repaid)
    IN  /\ amount > 0
        /\ l # u
        /\ {<<u, d>>, <<u, c>>} \subseteq opened
        /\ Debt(u, d) > 0
        /\ supplied[u][c] > 0
        /\ AllFresh(u, {d, c}, rest)
        /\ Underwater(u, d, c, rest)
        /\ seized > 0
        /\ vault[c] >= seized
        /\ {<<l, d>>, <<l, c>>} \subseteq ata
        /\ wallet[l][d] >= repaid
        /\ wallet' = [wallet EXCEPT ![l][d] = @ - repaid, ![l][c] = @ + seized]
        /\ vault' = [vault EXCEPT ![d] = @ + repaid, ![c] = @ - seized]
        /\ borrowed' = [borrowed EXCEPT ![u] =
                           WriteBack(@, d, SatSub(Debt(u, d), repaid), c, Debt(u, c))]
        /\ supplied' = [supplied EXCEPT ![u] =
                           WriteBack(@, d, @[d], c, SatSub(@[c], seized))]
        /\ snapshot' = [snapshot EXCEPT ![u] =
                           WriteBack(@, d, CurrentIndex(d), c, CurrentIndex(c))]
        /\ totalBorrowed' = WriteBack(totalBorrowed, d, SatSub(totalBorrowed[d], repaid),
                                                     c, totalBorrowed[c])
        /\ totalSupplied' = WriteBack(totalSupplied, d, totalSupplied[d],
                                                     c, SatSub(totalSupplied[c], seized))
        /\ AccrueMarkets({d, c})
        /\ UNCHANGED <<created, opened, ata, faucetVars, worldVars>>

-----------------------------------------------------------------------------
(* The world the program reads: the clock and the price feeds.             *)

AdvanceSlot ==
    /\ slot < MaxSlot
    /\ slot' = slot + 1
    /\ UNCHANGED <<marketVars, faucetVars, positionVars, tokenVars, price, publishedAt>>

PublishPrice(m, quote) ==
    /\ price' = [price EXCEPT ![m] = quote]
    /\ publishedAt' = [publishedAt EXCEPT ![m] = slot]
    /\ UNCHANGED <<marketVars, faucetVars, positionVars, tokenVars, slot>>

-----------------------------------------------------------------------------

Faucet ==
    \E m \in Market :
        \/ \E a \in ClaimAmounts : InitializeMarket(m, a) \/ SetClaimAmount(m, a)
        \/ \E u \in User : ClaimFaucet(u, m)

Modify ==
    \E u \in User, m \in Market : \E a \in Amounts[m] :
        \/ Supply(u, m, a)
        \/ Repay(u, m, a)
        \/ \E rest \in ClientListings(u, m) : Withdraw(u, m, a, rest) \/ Borrow(u, m, a, rest)

Liquidation ==
    \E l, u \in User, p \in LiquidationPairs :
        \E a \in Amounts[p[1]], rest \in LiquidatorListings(u, p[1], p[2]) :
            Liquidate(l, u, p[1], p[2], a, rest)

World ==
    \/ AdvanceSlot
    \/ \E m \in Market : \E q \in Quotes[m] : PublishPrice(m, q)

\* What happens once markets are set up and funded.
Trade == Modify \/ Liquidation \/ World

Next == Faucet \/ Trade

Spec == Init /\ [][Next]_vars

-----------------------------------------------------------------------------
(* Properties of the ledger.                                               *)

\* One element for each unit that f gives a user, so that their number is the
\* sum of f.
Units(f) == {p \in User \X (1..U64Max) : p[2] <= f[p[1]]}
Total(f) == Cardinality(Units(f))

\* What all users together have in m.
Held(f, m) == Total([u \in User |-> f[u][m]])

\* Tokens appear only by claims and never leave: what wallets and vaults hold
\* is what the faucets minted, through any interleaving of instructions.
TokensConserved ==
    \A m \in Market : Held(wallet, m) + vault[m] = minted[m]

\* One claim per wallet and mint: a market has counted exactly the wallets that
\* hold its receipt.
OneClaimEach ==
    \A m \in Market : claimCount[m] = Cardinality({u \in User : <<u, m>> \in receipts})

\* Market.total_supplied is the sum of its positions, also after a liquidation
\* whose saturating subtractions could lose part of a seizure.
SupplyLedger ==
    \A m \in Market : totalSupplied[m] = Held(supplied, m)

\* Market.total_borrowed never says more than the positions owe: repay and
\* liquidate subtract interest from it that borrow never added.
DebtLedger ==
    \A m \in Market : totalBorrowed[m] <= Held(borrowed, m)

\* What suppliers deposited is in the vault or lent: no order of borrows,
\* repayments and liquidations leaves a market owing more than that.
Solvent ==
    \A m \in Market : vault[m] + totalBorrowed[m] >= totalSupplied[m]

\* A debt is dated by an index its market has really had; at 0, or ahead of
\* the market, accrue_position would forgive interest.
DebtDated ==
    \A u \in User, m \in Market :
        borrowed[u][m] > 0 => snapshot[u][m] \in RateScale..index[m]

\* Accounts are empty until they are opened, and opened only in a market whose
\* index has started.
MarketsFirst ==
    /\ opened \subseteq User \X created
    /\ \A m \in created : index[m] >= RateScale
    /\ \A u \in User, m \in Market :
          <<u, m>> \notin opened => supplied[u][m] = 0 /\ borrowed[u][m] = 0

\* Inductive: the ledger properties that hold for all values of the constants.
LedgerInv ==
    /\ TypeOK
    /\ TokensConserved
    /\ SupplyLedger
    /\ Solvent
    /\ DebtDated
    /\ MarketsFirst

\* Touching a position neither forgives nor charges interest: within a slot,
\* what a user owes changes by exactly the tokens that enter or leave the
\* vault, and the clock alone never lowers it.
DebtIsTokens ==
    [][\A u \in User, m \in Market :
         LET change == Debt(u, m)' - Debt(u, m)
         IN  IF slot' = slot THEN change = 0 \/ change = vault[m] - vault'[m]
             ELSE change >= 0]_vars

-----------------------------------------------------------------------------
(* Properties of health and liquidation, on what a user really owes over   *)
(* all markets: every debt at the current index.                           *)

RealDebtUsd(u) == SumSat(LAMBDA m : TokenUsd(Debt(u, m), price[m]), Market)
RealCollateralUsd(u) == CollateralUsd(supplied[u], Market)

\* A step in which u borrows, or takes collateral out.
TakesRisk(u) ==
    \E m \in Market :
        /\ wallet'[u][m] > wallet[u][m]
        /\ supplied'[u][m] < supplied[u][m] \/ Debt(u, m)' > Debt(u, m)

\* A step in which u loses collateral to somebody else.
Seized(u, m) ==
    /\ supplied'[u][m] < supplied[u][m]
    /\ wallet'[u][m] <= wallet[u][m]

\* withdraw and borrow leave the user's total debt, across markets, within the
\* LTV-weighted collateral.
RiskIsCovered ==
    [][\A u \in User : TakesRisk(u) => RealDebtUsd(u)' <= RealCollateralUsd(u)']_vars

\* What u owes over all markets as the positions store it: each debt with its
\* interest up to the position's last touch.
StoredDebtUsd(u) == DebtUsd(borrowed[u], Market)

\* What of this remains when interest accrues: the debts are within it as they
\* are stored.
StoredRiskIsCovered ==
    [][\A u \in User : TakesRisk(u) => StoredDebtUsd(u)' <= RealCollateralUsd(u)']_vars

\* Where u's debt is larger than his position says.
Overdue(u) == {m \in Market : borrowed[u][m] > 0 /\ snapshot[u][m] # CurrentIndex(m)}

\* u has a debt in k, and since u touched his positions no index has grown by a
\* larger factor on a debt of his than that of k.
GrewMost(u, k) ==
    /\ borrowed[u][k] > 0
    /\ \A m \in Market :
          borrowed[u][m] > 0 =>
              CurrentIndex(m) * snapshot[u][k] <= CurrentIndex(k) * snapshot[u][m]

\* How far the real debt may exceed the collateral: by the growth of the debt
\* that grew most, and a unit for the rounding of each debt that has grown.
\* With no debt overdue this is RiskIsCovered.
GrownRiskIsCovered ==
    [][\A u \in User, k \in Market :
         TakesRisk(u) /\ GrewMost(u, k)' =>
             RealDebtUsd(u)' * snapshot'[u][k]
               <= CurrentIndex(k)' * (RealCollateralUsd(u)' + Cardinality(Overdue(u)'))]_vars

\* u has collateral in the markets S alone.
CollateralWithin(u, S) == \A m \in Market \ S : supplied[u][m] = 0

\* Whoever liquidates and passes all positions with collateral of the borrower
\* seizes it only from one who is really under water over all markets: that
\* some of his debts are counted as stored, or are not passed, does no harm.
ListedSeizureJustified ==
    [][\A u \in User, p \in LiquidationPairs :
         Seized(u, p[2]) =>
            \A l \in User, a \in Amounts[p[1]],
               rest \in SUBSET (Market \ {p[1], p[2]}) :
                Liquidate(l, u, p[1], p[2], a, rest) /\ CollateralWithin(u, {p[1], p[2]} \cup rest)
                  => RealDebtUsd(u) > RealCollateralUsd(u)]_vars

\* What is seized is worth no more than the debt it cancels plus the bonus.
SeizurePriced ==
    [][\A u \in User, c \in Market :
         Seized(u, c) =>
            \E d \in Market :
                TokenUsd(supplied[u][c] - supplied'[u][c], price[c]) * BpsDenominator
                  <= TokenUsd(Debt(u, d) - Debt(u, d)', price[d])
                        * (BpsDenominator + LiquidationBonusBps)]_vars

\* While LTV times bonus stays below one, a liquidation never leaves the
\* borrower deeper under water.
LiquidationHelps ==
    [][\A u \in User, m \in Market :
         Seized(u, m) =>
            RealDebtUsd(u)' - RealCollateralUsd(u)'
              <= RealDebtUsd(u) - RealCollateralUsd(u)]_vars

-----------------------------------------------------------------------------
(* The bank these instructions implement.                                  *)

Bank == INSTANCE LendingBank WITH
    Amount <- U64,
    reserve <- vault,
    purse <- wallet,
    deposit <- supplied,
    owed <- [u \in User |-> [m \in Market |-> Debt(u, m)]]

\* Charging interest lazily, position by position as they are touched, is no
\* different from charging every debtor at every slot; every instruction moves
\* tokens, deposits and debts together; depositors keep what they put in.
ImplementsBank == Bank!Spec

-----------------------------------------------------------------------------
(* What the code's own comments say and the code does not do.              *)

\* "The liquidator repays some of the borrower's debt" (lib.rs:386-387).
SeizureCredited ==
    [][\A u \in User, c \in Market :
         Seized(u, c) => \E d \in Market : Debt(u, d)' < Debt(u, d)]_vars

\* "so the program can verify global health < 1" (lib.rs:390): only a borrower
\* who is under water over all markets loses collateral.
SeizureJustified ==
    [][\A u \in User, m \in Market :
         Seized(u, m) => RealDebtUsd(u) > RealCollateralUsd(u)]_vars

\* "You can supply SOL, but you can't borrow SOL against it" (README.md:24-25).
NoSameMintBorrow ==
    \A u \in User, m \in Market : supplied[u][m] = 0 \/ borrowed[u][m] = 0

===============================================================================
