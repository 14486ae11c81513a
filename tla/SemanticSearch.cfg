SPECIFICATION Spec
CONSTANTS
    a = a
    b = b
    r1 = r1
    Writer = Writer
    NoGeneration = NoGeneration
    Paths = {a, b}
    Readers = {r1}
    Searchers = {r1}
    Cleans = FALSE
    PartialRemovals = FALSE
    KillsPartial = FALSE
SYMMETRY Alike
INVARIANTS
    SearchAnswersIndexed
    NeverCorrupt
