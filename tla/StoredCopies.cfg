SPECIFICATION Spec
CONSTANTS
    keep = keep
    a = a
    b = b
    h = h
    v = v
    w = w
    Raw = Raw
    NoContent = NoContent
    NoManifest = NoManifest
    Unreadable = Unreadable
    Sources = {keep, a, b}
    Documents = {keep, b}
    Permanent = {keep}
    HistoryPaths = {}
    Deniable = {}
    Ignorable = {}
    Vaults = {}
    Withheld = {}
    Kinds = {"index", "event"}
    Stores = {"older", "unreadable", "current"}
    PackReaders = TRUE
    CutPoints <- OutsideStaging
INVARIANTS
    PreRedactionTracked
    DerivedStoresPruned
