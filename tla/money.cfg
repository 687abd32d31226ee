SPECIFICATION Spec
CONSTANTS
    a1 = a1
    a2 = a2
    usd = usd
    sek = sek
    Accounts = {a1, a2}
    Currencies = {usd, sek}
    Currency <- MCCurrency
    UsdRates <- MCUsdRates
    Amounts = {1, 2, 6, 10, 17, 41, 60, 4000}
    Scale = 40
    Cent = 4
    MaxStored = 14
    MaxTotal = 14
INVARIANTS
    TypeOK
    ShortByACentAtMost
    CoveredIsAccepted
    BalanceCanBeDrawn
    CentsAreEnough
