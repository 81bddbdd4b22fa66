SPECIFICATION Spec
CONSTANTS
    Ids = {l1}
    Versions = {full, part}
    Handles = {h1, h2, h3}
    Calls = {}
    BtSeeder = FALSE
    Peers = {p1}
    MaxStarts = 2
    None = None
    Prefix = part
    Torn = Torn
    Junk = Junk
INVARIANTS
    DropIsSafe
