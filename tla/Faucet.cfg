SPECIFICATION Spec
CONSTANTS
    u1 = u1
    u2 = u2
    A = A
    B = B
    User = {u1, u2}
    Market = {A, B}
    U64Max = 3
    U128Max = 4095
    RateScale = 2
    BpsDenominator = 4
    LiquidationBonusBps = 1
    UsdDecimals = 2
    MintDecimals = 0
    MaxLtv <- PairLtv
    Rate <- Doubling
    ClaimAmounts = {1, 2}
    Amounts <- Singles
    C = C
    Granted <- PairGrant
    StartPrice <- AllAtOne
    Quotes <- OnlyOne
    MaxPriceAge = 0
    MaxSlot = 1
    CompleteListing = TRUE
    LiquidationPairs <- CrossPairs
SYMMETRY UserSymmetry
INVARIANTS LedgerInv OneClaimEach
PROPERTIES ImplementsBank
CHECK_DEADLOCK FALSE
