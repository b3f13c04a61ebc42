SPECIFICATION MCSpec
CONSTANTS
    a = a
    b = b
    d = d
    ab = ab
    ab2 = ab2
    ba = ba
    ba2 = ba2
    bd = bd
    db1 = db1
    Routers = {a, b, d}
    Origin = a
    Ifs <- MCIfs
    Peer <- MCPeer
    Batches = {1}
    SeqMod = 3
    Ttl = 2
    LsuInt = 2
    Timeout = 3
    MaxFaults = 1
    NoEntry = NoEntry
INVARIANTS TypeOK Spread
PROPERTIES Recovers
