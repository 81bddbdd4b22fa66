SPECIFICATION Spec
CONSTANTS
    Ids = {l1}
    Versions = {full, part}
    Handles = {h1, h2, h3}
    Calls = {c1, c2}
    BtSeeder = FALSE
    Peers = {}
    MaxStarts = 2
    None = None
    Prefix = part
    Torn = Torn
    Junk = Junk
SYMMETRY Symmetry
INVARIANTS
    IInv
    SettledIsStarted
    WaiterIsServed
    CompleteIsIntact
PROPERTIES
    ImplementsService
