SPECIFICATION Spec
CONSTANTS
    Ids = {l1}
    Versions = {full, part, Junk}
    Handles = {h1, h2, h3}
    Calls = {}
    BtSeeder = TRUE
    Peers = {}
    MaxStarts = 3
    None = None
    Prefix = part
    Torn = Torn
    Junk = Junk
SYMMETRY Symmetry
INVARIANTS
    SeedTorrentIsDurable
    EveryIdHasTorrent
    OpenIffStarted
    NoStartLeaks
PROPERTIES
    ImplementsService
    FilesOutliveTorrent
