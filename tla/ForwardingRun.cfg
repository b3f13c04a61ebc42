SPECIFICATION FairSpec
CONSTANTS
    A = A
    B = B
    h = h
    a1 = a1
    a2 = a2
    b1 = b1
    b2 = b2
    g = g
    x = x
    z = z
    Routers = {A, B}
    Hosts = {h, g}
    Own <- MCOwn
    Wires <- MCWires
    Gateway <- MCGateway
    Direct <- MCDirect
    Views <- MCViews
    Start <- MCStart
    Firsts <- MCFirsts
    Trips = {1}
    TTLs = 8
    GenTTL = 6
    HostTTL = 7
    MaxChanges = 3
    NoRoute = NoRoute
    NoGw = NoGw
    NoPacket = NoPacket
INVARIANTS TypeOK TtlBound LongestPrefix
PROPERTIES Settles
CHECK_DEADLOCK FALSE
