SPECIFICATION Spec
CONSTANTS
    b = b
    c = c
    s = s
    sb = sb
    sc = sc
    bc = bc
    stub = stub
    Routers = {b, c}
    Self = s
    None = None
    Nets = {sb, sc, bc, stub}
    Ifaces <- MCIfaces
    Peer <- MCPeer
    Lsas <- MCLsas
    Main = Main
    Tids = {t1, t2}
    Prompt = TRUE
SYMMETRY Symm
INVARIANTS TypeOK HeapSorted OwnRoutesKept CalmRunCorrect Covered
