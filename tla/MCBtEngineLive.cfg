SPECIFICATION FairSpec
CONSTANTS
    Ids = {l1}
    Versions = {full}
    Handles = {h1, h2}
    Calls = {c1}
    BtSeeder = FALSE
    Peers = {p1, p2}
    MaxStarts = 2
    None = None
    Prefix = None
    Torn = Torn
    Junk = Junk
PROPERTIES
    StartSettles
    WaiterReturns
    FreshStartCompletes
    ImplementsService
