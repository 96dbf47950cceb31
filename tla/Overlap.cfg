SPECIFICATION PreparedSpec
CONSTANTS
    u1 = u1
    u2 = u2
    A = A
    B = B
    C = C
    Granted <- TrioGrant
    User = {u1, u2}
    Market = {A, B, C}
    U64Max = 255
    U128Max = 65535
    RateScale = 2
    BpsDenominator = 20
    LiquidationBonusBps = 1
    UsdDecimals = 2
    MintDecimals = 0
    MaxLtv <- TrioLtv
    Rate <- NoRate
    ClaimAmounts = {}
    Amounts <- OverlapAmounts
    StartPrice <- TrioPrice
    Quotes <- Quiet
    MaxPriceAge = 0
    MaxSlot = 0
    CompleteListing = TRUE
    LiquidationPairs <- Pairs
    t1 = t1
    t2 = t2
    none = none
    NoMarket = none
    Tab = {t1, t2}
    MarketList <- MarketsInOrder
    ReadsFail = FALSE
    UserOf <- BothOfU1
    CallOf <- Borrows
    Borrower = {}
PROPERTIES RiskIsCovered
CHECK_DEADLOCK FALSE
