SPECIFICATION FundedSpec
CONSTANTS
    u1 = u1
    u2 = u2
    A = A
    B = B
    User = {u1, u2}
    Market = {A, B}
    U64Max = 5
    U128Max = 4095
    RateScale = 2
    BpsDenominator = 4
    LiquidationBonusBps = 1
    UsdDecimals = 2
    MintDecimals = 0
    MaxLtv <- PairLtv
    Rate <- Doubling
    ClaimAmounts = {2}
    Amounts <- PairAmounts
    C = C
    Granted <- PairGrant
    StartPrice <- AllAtOne
    Quotes <- Quiet
    MaxPriceAge = 3
    MaxSlot = 2
    CompleteListing = TRUE
    LiquidationPairs <- AllPairs
PROPERTIES SeizureCredited
CHECK_DEADLOCK FALSE
