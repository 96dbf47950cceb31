------------------------------ MODULE ShadowMath ------------------------------
(***************************************************************************)
(* The arithmetic of the lending program (programs/shadow-lend/src/lib.rs, *)
(* lines 631-721): fixed-width integers that saturate, token amounts       *)
(* priced in dollars and back, the borrow index and the debt it restates.  *)
(* Rust's u64 and u128 are the intervals 0..U64Max and 0..U128Max, so      *)
(* that a run may use small widths and meet their limits.                  *)
(***************************************************************************)
EXTENDS Integers, Folds

CONSTANTS
    U64Max,               \* u64::MAX, the width of token amounts
    U128Max,              \* u128::MAX, the width of intermediate results
    RateScale,            \* RATE_SCALE_E18
    BpsDenominator,       \* BPS_DENOMINATOR
    LiquidationBonusBps,  \* LIQUIDATION_BONUS_BPS
    UsdDecimals,          \* the 8 of token_usd_8dp
    MintDecimals          \* MINT_DECIMALS

ASSUME WidthAssumption ==
    /\ U64Max \in Nat \ {0}
    /\ U128Max \in Nat
    /\ U64Max < U128Max

ASSUME ScaleAssumption ==
    /\ RateScale \in 1..U128Max
    /\ BpsDenominator \in Nat \ {0}
    /\ LiquidationBonusBps \in Nat
    /\ UsdDecimals \in Nat
    /\ MintDecimals \in Nat

U64 == 0..U64Max
U128 == 0..U128Max

\* A Pyth price: an integer mantissa and a power of ten.
Quote == [price : Int, expo : Int]

Least(a, b) == IF a <= b THEN a ELSE b

-----------------------------------------------------------------------------
(* u128::saturating_mul, u128::saturating_add, u64::saturating_sub and     *)
(* u128 -> u64 try_into().unwrap_or(u64::MAX).                             *)

SatMul(a, b) == Least(a * b, U128Max)
SatAdd(a, b) == Least(a + b, U128Max)
SubWrapping(a, b) == a - b  \* fault: no saturation
SatSub(a, b) == IF b <= a THEN a - b ELSE 0
ToU64(a) == Least(a, U64Max)

\* 10u128.checked_pow(k).unwrap_or(otherwise)
CheckedPow10(k, otherwise) == IF 10^k \in 1..U128Max THEN 10^k ELSE otherwise

-----------------------------------------------------------------------------
(* Pricing.                                                                *)

Shift(quote) == UsdDecimals + quote.expo - MintDecimals

\* token_usd_8dp: a negative price counts as zero; a positive shift scales up,
\* a negative one divides and rounds down.
TokenUsd(amount, quote) ==
    LET raw == SatMul(amount, IF quote.price > 0 THEN quote.price ELSE 0)
    IN  IF Shift(quote) >= 0
        THEN SatMul(raw, CheckedPow10(Shift(quote), U128Max))
        ELSE raw \div CheckedPow10(-Shift(quote), 1)

\* usd_8dp_to_token: how many base units a dollar value buys, rounded down;
\* none at a price that is not positive.
UsdToToken(usd, quote) ==
    IF quote.price <= 0 THEN 0
    ELSE IF Shift(quote) >= 0
         THEN ToU64(usd \div SatMul(quote.price, CheckedPow10(Shift(quote), U128Max)))
         ELSE ToU64(SatMul(usd, CheckedPow10(-Shift(quote), 1)) \div quote.price)

\* accumulate_position: the collateral of one position, at its market's LTV.
CollateralAtLtv(supplied, quote, ltv) ==
    SatMul(TokenUsd(supplied, quote), ltv) \div BpsDenominator

\* fault: priced in the debt token
SeizeForInDebtToken(repaid, debtQuote, collateralQuote) ==
    UsdToToken(SatMul(TokenUsd(repaid, debtQuote), BpsDenominator + LiquidationBonusBps)
                   \div BpsDenominator,
               debtQuote)

\* What a liquidator may seize for a repayment: its value plus the bonus,
\* in the collateral token.
SeizeFor(repaid, debtQuote, collateralQuote) ==
    UsdToToken(SatMul(TokenUsd(repaid, debtQuote), BpsDenominator + LiquidationBonusBps)
                   \div BpsDenominator,
               collateralQuote)

\* The u128 accumulator of a walk over positions: val(m) for every m in S.
SumSat(val(_), S) == MapThenFoldSet(SatAdd, 0, val, LAMBDA T : CHOOSE m \in T : TRUE, S)

-----------------------------------------------------------------------------
(* Interest.                                                               *)

\* accrue_market: simple interest on the index since the last accrual.
GrownIndex(index, rate, slots) ==
    SatAdd(index, SatMul(SatMul(index, rate), slots) \div RateScale)

RestatedBackwards(borrowed, snapshot, index) ==  \* fault: the ratio is inverted
    IF snapshot = 0 \/ borrowed = 0 \/ snapshot = index
    THEN borrowed
    ELSE ToU64(SatMul(borrowed, snapshot) \div index)

\* accrue_position: the debt restated from its snapshot index to `index`.
RestatedDebt(borrowed, snapshot, index) ==
    IF snapshot = 0 \/ borrowed = 0 \/ snapshot = index
    THEN borrowed
    ELSE ToU64(SatMul(borrowed, index) \div snapshot)

===============================================================================
