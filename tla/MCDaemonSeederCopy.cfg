SPECIFICATION Spec
CONSTANTS
    l1 = l1
    l2 = l2
    a = a
    b = b
    r1 = r1
    r2 = r2
    v1 = v1
    v2 = v2
    BtSeeder = TRUE
    UseHardlink = FALSE
    Ids = {l1, l2}
    Versions = {whole, part, holed, Junk}
    Offered <- WholeOffer
    Images = {a, b}
    Layers <- SharedLayer
    Repos = {r1, r2}
    Name <- TwoRepos
    Convertible = {a, b}
    Calls = {c1, c2}
    Peers = {}
    Quiet = {}
    Whole = whole
    Prefix = part
    Holed = holed
    None = None
    Torn = Torn
    Junk = Junk
    Closed = Closed
    Linked = Linked
SYMMETRY CallSymmetry
INVARIANTS
    TorrentIsWhole
    StoredIsSeeded
PROPERTIES
    TorrentIsKept
    ImplementsImageStore
