SPECIFICATION FairSpec
CONSTANTS
    Tabs = {left, right}
    Watched = {left}
    Users = {ann, bob}
    ExternalUsers = {bob}
    None = None
INVARIANTS
    SessionInv
    ShowsItsUsersData
PROPERTIES
    NobodyElseIsLoggedOut
    SignInSettles
