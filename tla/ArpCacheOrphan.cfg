SPECIFICATION FairSpec
CONSTANTS
    h1 = h1
    d1 = d1
    d2 = d2
    Data = {d1}
    Hosts = {h1}
    SelfIP = SelfIP
    BackHop <- MCBackHopOne
    Askers = {h1}
    Threads = {main}
    Main = main
    Rids = {r1, r2, r3}
    NoIP = NoIP
    NoRid = NoRid
    SZ = 1
    TO = 1
    MaxSent = 1
PROPERTIES UnlinkedDestroyed
