SPECIFICATION Spec
CONSTANTS
    keep = keep
    a = a
    b = b
    h = h
    v = v
    w = w
    Raw = Raw
    NoContent = NoContent
    NoManifest = NoManifest
    Unreadable = Unreadable
    Sources = {keep, a}
    Documents = {keep}
    Permanent = {keep}
    HistoryPaths = {h}
    Deniable = {h}
    Ignorable = {a}
    Vaults = {v}
    Withheld = {v}
    Kinds = {"start", "event"}
    Stores = {"new", "unmarked"}
    PackReaders = FALSE
    CutPoints <- AllPoints
INVARIANTS
    TypeOK
    ExcludedContentCleared
    FullRunSettles
    RecentMoveCleared
