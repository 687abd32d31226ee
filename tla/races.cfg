SPECIFICATION Spec
CONSTANTS
    None = None
    ann = ann
    bob = bob
    usd = usd
    sek = sek
    a1 = a1
    a2 = a2
    Users <- MCUsers
    Currencies <- MCCurrencies
    Seeds = {a1}
    SeedAccounts <- OneAccount
    SeedCredits <- OneCredit
    SeedDebits <- NoEntry
    Requests = {r1, r2, r3}
    Inputs <- RaceInputs
    Rates <- FixedRates
    RealExchange = FALSE
    MaxFaults = 1
INVARIANTS
    NoOrphanEntry
    OverdraftTakesARace
    DeletedFundsWereUnseen
    OwnersActOnTheirOwn
PROPERTIES
    LoadedBalanceIsCovered
    EntriesComeAndGoInTime
SYMMETRY Symmetry
