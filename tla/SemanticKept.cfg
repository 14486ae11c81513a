SPECIFICATION Spec
CONSTANTS
    a = a
    b = b
    r1 = r1
    Writer = Writer
    NoGeneration = NoGeneration
    Paths = {a}
    Readers = {r1}
    Searchers = {}
    Cleans = FALSE
    PartialRemovals = TRUE
    KillsPartial = TRUE
SYMMETRY Alike
INVARIANTS
    LastGoodKept
PROPERTIES
    PromotedComplete
