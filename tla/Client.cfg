SPECIFICATION PreparedSpec
CONSTANTS
    u1 = u1
    u2 = u2
    A = A
    B = B
    C = C
    Granted <- TrioGrant
    User = {u1, u2}
    Market = {A, B, C}
    U64Max = 255
    U128Max = 65535
    RateScale = 2
    BpsDenominator = 20
    LiquidationBonusBps = 1
    UsdDecimals = 2
    MintDecimals = 0
    MaxLtv <- TrioLtv
    Rate <- NoRate
    ClaimAmounts = {}
    Amounts <- ClientAmounts
    StartPrice <- TrioPrice
    Quotes <- ClientQuotes
    MaxPriceAge = 0
    MaxSlot = 1
    CompleteListing = TRUE
    LiquidationPairs <- Pairs
    t1 = t1
    t2 = t2
    none = none
    NoMarket = none
    Tab = {t1, t2}
    MarketList <- MarketsInOrder
    ReadsFail = FALSE
    UserOf <- OneEach
    CallOf <- Split
    Borrower = {u1}
PROPERTIES RiskIsCovered ReadSeizureJustified OverlookedByDeposit
CHECK_DEADLOCK FALSE
