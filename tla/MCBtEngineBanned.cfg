SPECIFICATION FairSpec
CONSTANTS
    Ids = {l1}
    Versions = {full}
    Handles = {h1, h2}
    Calls = {}
    BtSeeder = FALSE
    Peers = {p1}
    MaxStarts = 2
    None = None
    Prefix = None
    Torn = Torn
    Junk = Junk
PROPERTIES
    EveryStartCompletes
