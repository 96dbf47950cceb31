SPECIFICATION FundedSpec
CONSTANTS
    u1 = u1
    u2 = u2
    A = A
    B = B
    C = C
    Granted <- TrioGrant
    User = {u1, u2}
    Market = {A, B, C}
    U64Max = 255
    U128Max = 65535
    RateScale = 2
    BpsDenominator = 20
    LiquidationBonusBps = 1
    UsdDecimals = 2
    MintDecimals = 0
    MaxLtv <- TrioLtv
    Rate <- TrioRate
    ClaimAmounts = {}
    Amounts <- TrioAmounts
    StartPrice <- TrioPrice
    Quotes <- TrioQuotes
    MaxPriceAge = 0
    MaxSlot = 1
    CompleteListing = TRUE
    LiquidationPairs <- TrioPairs
PROPERTIES StoredRiskIsCovered GrownRiskIsCovered  SeizurePriced LiquidationHelps
CHECK_DEADLOCK FALSE
