SPECIFICATION Spec
CONSTANTS
    l1 = l1
    l2 = l2
    a = a
    b = b
    r1 = r1
    r2 = r2
    v1 = v1
    v2 = v2
    BtSeeder = FALSE
    UseHardlink = FALSE
    Ids = {l1}
    Versions = {whole, part, holed, Junk}
    Offered <- WholeOffer
    Images = {a}
    Layers <- OneLayer
    Repos = {r1}
    Name <- OneName
    Convertible = {a}
    Calls = {c1}
    Peers = {}
    Quiet = {}
    Whole = whole
    Prefix = part
    Holed = holed
    None = None
    Torn = Torn
    Junk = Junk
    Closed = Closed
    Linked = Linked
INVARIANTS
    StartedIsStoppable
