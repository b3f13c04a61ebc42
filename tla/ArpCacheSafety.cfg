SPECIFICATION Spec
CONSTANTS
    h1 = h1
    d1 = d1
    d2 = d2
    Data = {d1, d2}
    Hosts = {h1}
    SelfIP = SelfIP
    BackHop <- MCBackHop
    Askers = {h1}
    Threads = {main, lsu}
    Main = main
    Rids = {r1, r2, r3}
    NoIP = NoIP
    NoRid = NoRid
    SZ = 2
    TO = 1
    MaxSent = 2
SYMMETRY Symm
INVARIANTS TypeOK NoDanglingRequest OneRequestPerHop OnePlace CascadeEnds
PROPERTIES NoSilentDrop AskedBeforeReport Implements
