SPECIFICATION Spec
CONSTANTS
    r1 = r1
    r2 = r2
    i1 = i1
    i2 = i2
    Routers = {r1}
    Ifaces = {i1}
    Port <- MCPortOne
    None = None
    HelloInt = 5
    Timeout = 20
    MaxLoss = 2
INVARIANTS InterfaceAdjusted
