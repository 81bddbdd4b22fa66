SPECIFICATION FairSpec
CONSTANTS
    Clients = {a, b}
    Quiet = {}
    Remote = {b}
    Reports = 3
    PipeSize = 2
INVARIANTS
    OpenHasReader
PROPERTIES
    StartReturns
    RequestEnds
CHECK_DEADLOCK FALSE
