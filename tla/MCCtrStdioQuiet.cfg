SPECIFICATION FairSpec
CONSTANTS
    Clients = {a}
    Quiet = {a}
    Remote = {}
    Reports = 2
    PipeSize = 1
PROPERTY
    QuietReturns
CHECK_DEADLOCK FALSE
