SPECIFICATION Spec
CONSTANTS
    U64Max = 63
    U128Max = 65535
    RateScale = 20
    BpsDenominator = 10
    LiquidationBonusBps = 1
    UsdDecimals = 2
    MintDecimals = 0
    Principals = {1, 2, 3, 5, 10, 40}
    RatesBps = {0, 1, 2, 3}
    Collateral = 10
    Factor = 8
    MaxSlot = 6
INVARIANTS AccrualInv TouchingIsFree NeverForgiven RoundingIsSmall AtLeastSimple CircuitChargesAlike CircuitsJudgeAlike
CHECK_DEADLOCK FALSE
