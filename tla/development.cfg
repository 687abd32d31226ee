SPECIFICATION HostSpec
CONSTANTS
    None = None
    ann = ann
    bob = bob
    usd = usd
    a1 = a1
    a2 = a2
    r1 = r1
    r2 = r2
    r3 = r3
    Seeds = {a1, a2}
    SeedAccounts <- MCSeedAccounts
    SeedCredits <- MCSeedCredits
    SeedDebits = {}
    Requests = {r1, r2, r3}
    Inputs <- MCInputs
    Features <- MCFeatures
    Controllers <- MCControllers
    Gate <- MCGate
    Configurations <- MCConfigurations
SYMMETRY Symmetry
CHECK_DEADLOCK FALSE
INVARIANTS
    HostTypeOK
    ServedAreThoseThatAreOn
    NothingIsDoneThatIsOff
    OnlyMeetingsDoubleOrRevive
    OverdraftTakesAMeeting
PROPERTIES
    AloneItIsALedger
