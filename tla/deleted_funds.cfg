SPECIFICATION Spec
CONSTANTS
    None = None
    ann = ann
    bob = bob
    usd = usd
    sek = sek
    a1 = a1
    a2 = a2
    Users <- MCUsers
    Currencies <- MCCurrencies
    Seeds = {a1}
    SeedAccounts <- OneAccount
    SeedCredits <- NoEntry
    SeedDebits <- NoEntry
    Requests = {r1, r2}
    Inputs <- RaceInputs
    Rates <- FixedRates
    RealExchange = FALSE
    MaxFaults = 0
INVARIANTS
    NoFundsAreDeleted
