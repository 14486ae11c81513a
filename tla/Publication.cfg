SPECIFICATION Spec
CONSTANTS
    d1 = d1
    d2 = d2
    d3 = d3
    s1 = s1
    Dbs = {d1, d2, d3}
    NoDb = NoDb
    NoIndex = NoIndex
    NoDir = NoDir
    Sessions = {s1}
    MaxRuns = 3
    Kinds = {"index", "start", "event", "import"}
    CutPoints <- NotMoving
SYMMETRY Alike
INVARIANTS
    TypeOK
    PublishedWhole
    AnswersOneIndex
    PublishedIsFound
    PublishedIsNewestUnlessCut
    LogBesideItsDatabase
    NotIndexedUnlessRaced
