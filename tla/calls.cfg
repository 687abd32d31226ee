SPECIFICATION PagesFairSpec
CONSTANTS
    None = None
    ann = ann
    usd = usd
    a1 = a1
    a2 = a2
    Users <- MCUsers
    Currencies <- MCCurrencies
    Seeds = {a1, a2}
    SeedAccounts <- MCAccounts
    SeedCredits <- MCCredits
    SeedDebits <- MCDebits
    Requests = {r1, r2}
    Inputs <- EachInput
    Rates <- MCRates
    RealExchange = FALSE
    MaxFaults = 1
    Visitor = ann
    Links <- EachLink
    Others <- EachInput
    ErrorFilter = TRUE
PROPERTIES
    EveryRequestIsAnswered
    DebitIsCredited
    CallsSettle
