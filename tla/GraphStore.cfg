SPECIFICATION Spec
CONSTANTS
    a = a
    b = b
    nA = nA
    nB = nB
    nX = nX
    aX = aX
    bX = bX
    xX = xX
    ab = ab
    NoFile = NoFile
    Files <- MCFiles
    NodeIds <- MCNodeIds
    EdgeIds <- MCEdgeIds
    NodeContents = {1, 2}
    EdgeContents <- MCEdgeContents
    From <- MCFrom
    To <- MCTo
    OwnerOf <- MCOwnerOf
    PathOf <- MCPathOf
    RankOf <- MCRankOf
    Scans <- MCScans
INVARIANTS
    TypeOK
    GraphIsLastScans
    RanksTrusted
    DictionaryExact
    FactsNameIndexedFiles
