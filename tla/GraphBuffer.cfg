SPECIFICATION Spec
CONSTANTS
    call = call
    use = use
    file = file
    symbol = symbol
    name = name
    Buffers = {b1, b2}
    Keys = {call, use}
    Ids = {file, symbol, name}
    EdgeWrites = {1, 2, 3, 4, 5, 6, 7, 8, 9, 10}
    NodeWrites <- MCNodeWrites
    Edge <- MCEdge
    Node <- MCNode
    FactWrites = {8, 9, 10}
    SelfUses = {10}
    Establishing = {1}
    NoSite = 3
    MaxLines = 2
    MaxWrites = 4
INVARIANTS
    TypeOK
    EdgesJoined
    NodesJoined
    FactsKeepOff
CHECK_DEADLOCK FALSE
