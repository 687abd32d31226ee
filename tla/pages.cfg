SPECIFICATION PagesSpec
CONSTANTS
    None = None
    ann = ann
    usd = usd
    a1 = a1
    a2 = a2
    Users <- MCUsers
    Currencies <- MCCurrencies
    Seeds = {a1, a2}
    SeedAccounts <- MCAccounts
    SeedCredits <- MCCredits
    SeedDebits <- MCDebits
    Requests = {r1, r2, r3}
    Inputs <- PostingInputs
    Rates <- MCRates
    RealExchange = FALSE
    MaxFaults = 1
    Visitor = ann
    Links <- PostingLinks
    Others <- Closes
    ErrorFilter = TRUE
INVARIANTS
    PagesInv
    MovedOnMeansPosted
    PageShowsThePosting
SYMMETRY Symmetry
