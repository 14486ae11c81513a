SPECIFICATION Spec
CONSTANTS
    a = a
    b = b
    r1 = r1
    Writer = Writer
    NoGeneration = NoGeneration
    Paths = {a, b}
    Readers = {}
    Searchers = {}
    Cleans = TRUE
    PartialRemovals = FALSE
    KillsPartial = TRUE
SYMMETRY Alike
INVARIANTS
    TypeOK
    PrunedStoreHoldsNothing
