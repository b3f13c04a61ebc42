SPECIFICATION Spec
CONSTANTS
    r1 = r1
    r2 = r2
    i1 = i1
    i2 = i2
    Routers = {r1, r2}
    Ifaces = {i1, i2}
    Port <- MCPort
    None = None
    HelloInt = 1
    Timeout = 5
    MaxLoss = 1
INVARIANTS TypeOK NoDuplicates DetectionBound Supplied
PROPERTIES NoFalseDeath NewNeighborTold
