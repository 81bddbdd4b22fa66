SPECIFICATION Spec
CONSTANTS
    Procs = {p1}
    Blobs = {b1, b2}
    Names = {n1, n2}
    None = None
    Empty = Empty
    Partial = Partial
PROPERTIES
    ImplementsStore
