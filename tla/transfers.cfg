SPECIFICATION Spec
CONSTANTS
    None = None
    ann = ann
    bob = bob
    usd = usd
    sek = sek
    a1 = a1
    a2 = a2
    Users <- MCUsers
    Currencies <- MCCurrencies
    Seeds = {a1, a2}
    SeedAccounts <- TwoAccounts
    SeedCredits <- OneCredit
    SeedDebits <- NoEntry
    Requests = {r1, r2, r3}
    Inputs <- TransferInputs
    Rates <- FixedRates
    RealExchange = FALSE
    MaxFaults = 1
INVARIANTS
    TransferMakesNoMoney
    RefusedLeavesNothing
    OkIsAReceipt
PROPERTIES
    ImplementsLedger
SYMMETRY Symmetry
