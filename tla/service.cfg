SPECIFICATION FairSpec
CONSTANTS
    None = None
    ann = ann
    bob = bob
    usd = usd
    sek = sek
    a1 = a1
    a2 = a2
    Users <- MCUsers
    Currencies <- MCCurrencies
    Seeds = {a1, a2}
    SeedAccounts <- TwoDollars
    SeedCredits <- OneCredit
    SeedDebits <- NoEntry
    Requests = {r1, r2}
    Inputs <- EveryInput
    Rates <- ChangingRates
    RealExchange = TRUE
    MaxFaults = 1
INVARIANTS
    TypeOK
    IInv
    OkIsAReceipt
    OverdraftTakesARace
PROPERTIES
    EveryRequestIsAnswered
    ImplementsLedger
