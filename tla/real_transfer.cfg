SPECIFICATION Spec
CONSTANTS
    None = None
    ann = ann
    bob = bob
    usd = usd
    sek = sek
    a1 = a1
    a2 = a2
    Users <- MCUsers
    Currencies <- MCCurrencies
    Seeds = {a1, a2}
    SeedAccounts <- TwoAccounts
    SeedCredits <- OneCredit
    SeedDebits <- NoEntry
    Requests = {r1, r2}
    Inputs <- OneTransfer
    Rates <- ChangingRates
    RealExchange = TRUE
    MaxFaults = 0
INVARIANTS
    TransferHasAnAnswer
