-------------------------------- MODULE Accrual --------------------------------
(***************************************************************************)
(* One debt over time.  Its market is accrued whenever anybody uses it and *)
(* the position whenever its owner does; what is owed in the end depends   *)
(* on when that was.  The histories are compared with a debt nobody        *)
(* touched, with simple interest and with the circuits.                    *)
(***************************************************************************)
EXTENDS Circuits

CONSTANTS
    Principals,   \* amounts borrowed
    RatesBps,     \* rates per slot, in basis points
    Collateral,   \* dollars that secure the debt
    Factor,       \* LTV and liquidation threshold
    MaxSlot       \* bound of the clock

ASSUME AccrualAssumption ==
    /\ RateScale % BpsDenominator = 0
    /\ U64Max * RateScale <= U128Max
    /\ Principals \subseteq U64
    /\ RatesBps \subseteq Nat
    /\ Collateral \in Nat /\ Factor \in Nat
    /\ Collateral * Factor <= U128Max
    /\ MaxSlot \in Nat

VARIABLES
    principal,   \* what was borrowed in slot 0
    rateBps,     \* the market's rate
    slot,
    index,       \* Market.borrow_index_e18
    lastSlot,    \* Market.last_update_slot
    borrowed,    \* Position.borrowed
    snapshot     \* Position.borrow_index_snapshot_e18

vars == <<principal, rateBps, slot, index, lastSlot, borrowed, snapshot>>

Rate == rateBps * (RateScale \div BpsDenominator)

Init ==
    /\ principal \in Principals
    /\ rateBps \in RatesBps
    /\ slot = 0
    /\ index = RateScale
    /\ lastSlot = 0
    /\ borrowed = principal
    /\ snapshot = RateScale

\* accrue_market
CurrentIndex ==
    IF slot <= lastSlot THEN index ELSE GrownIndex(index, Rate, slot - lastSlot)

Debt == RestatedDebt(borrowed, snapshot, CurrentIndex)

Tick ==
    /\ slot < MaxSlot
    /\ slot' = slot + 1
    /\ UNCHANGED <<principal, rateBps, index, lastSlot, borrowed, snapshot>>

AccrueSlotOnly ==  \* fault: the slots are passed over
    /\ UNCHANGED index
    /\ lastSlot' = slot

AccrueMarket ==
    /\ index' = CurrentIndex
    /\ lastSlot' = slot

\* Somebody else uses the market.
UseMarket ==
    /\ AccrueMarket
    /\ UNCHANGED <<principal, rateBps, slot, borrowed, snapshot>>

AccruePositionUndated ==  \* fault: restated, but the old date kept
    /\ AccrueMarket
    /\ borrowed' = Debt
    /\ UNCHANGED <<principal, rateBps, slot, snapshot>>

AccruePositionUnstated ==  \* fault: dated anew, but the old debt kept
    /\ AccrueMarket
    /\ snapshot' = CurrentIndex
    /\ UNCHANGED <<principal, rateBps, slot, borrowed>>

\* The debtor uses it: accrue_position.
AccruePosition ==
    /\ AccrueMarket
    /\ borrowed' = Debt
    /\ snapshot' = CurrentIndex
    /\ UNCHANGED <<principal, rateBps, slot>>

Next == Tick \/ UseMarket \/ AccruePosition

Spec == Init /\ [][Next]_vars

-----------------------------------------------------------------------------
(* Properties.                                                             *)

\* What would be owed had the debtor never touched the position.
Untouched == RestatedDebt(principal, RateScale, CurrentIndex)

\* However often his position is touched, a debtor owes no more than if it had
\* been left alone: interest on interest is charged by the index alone.
TouchingIsFree == Debt <= Untouched

\* A debt never falls below what was borrowed, touched or not.
NeverForgiven == principal <= Debt

\* What touching loses is the fraction of one unit at each slot, and what that
\* would have earned since.
RoundingIsSmall == (Untouched - Debt) * RateScale <= slot * CurrentIndex

\* However often a market is accrued, its index has grown by simple interest
\* at least: "slightly underestimates continuous compounding" (lib.rs:669-670)
\* and nothing below that.
AtLeastSimple == CurrentIndex >= RateScale + slot * Rate

\* Before anybody has touched the market the circuit charges the same, as long
\* as the result fits 64 bits.
CircuitChargesAlike ==
    lastSlot = 0 /\ Untouched < U64Max =>
        AccrueInterest(principal, rateBps, slot) = {Debt}

\* Circuits and program judge every debt alike, at the limit too, and a debt is
\* either within the LTV or liquidatable.
CircuitsJudgeAlike ==
    LET limit == SatMul(Collateral, Factor) \div BpsDenominator
    IN  /\ CheckLtv(Collateral, Debt, Factor) <=> Debt <= limit
        /\ CheckLiquidatable(Collateral, Debt, Factor) <=> Debt > limit

\* Inductive: restating never lifts a debt above its share of the index.
AccrualInv ==
    /\ principal \in U64 /\ rateBps \in Nat
    /\ slot \in Nat /\ lastSlot \in Nat
    /\ index \in U128 /\ snapshot \in 1..index
    /\ borrowed \in U64
    /\ borrowed * RateScale <= principal * snapshot

===============================================================================
