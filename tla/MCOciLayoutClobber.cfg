SPECIFICATION Spec
CONSTANTS
    Procs = {p1, p2}
    Blobs = {b1, b2}
    Names = {n1}
    None = None
    Empty = Empty
    Partial = Partial
PROPERTIES
    ImplementsStore
