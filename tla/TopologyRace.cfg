SPECIFICATION Spec
CONSTANTS
    b = b
    c = c
    s = s
    m = m
    Routers = {b, c, s}
    Self = s
    Nets = {m}
    Announces <- MCAnnounces
    Peers <- MCPeers
    None = None
    Restarting = {}
    Tids = {t1, t2}
    Timeout = 1
    MaxSeq <- MCMaxSeq
PROPERTIES NeverOlder
