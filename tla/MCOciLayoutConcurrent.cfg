SPECIFICATION Spec
CONSTANTS
    Procs = {p1, p2, p3}
    Blobs = {b1, b2}
    Names = {n1}
    None = None
    Empty = Empty
    Partial = Partial
SYMMETRY Symmetry
INVARIANTS
    IInv
    LayoutImpliesDirs
    OpenIsUsable
    OneInitializer
PROPERTIES
    HalfMadeIsFinal
    ImplementsWeakStore
