SPECIFICATION MCSpec
CONSTANTS
    b = b
    c = c
    s = s
    m = m
    Routers = {b, c, s}
    Self = s
    Nets = {m}
    Announces <- MCAnnounces
    Peers <- MCPeers
    None = None
    Restarting = {b}
    Tids = {t1, t2}
    Timeout = 1
    MaxSeq <- MCMaxSeq
INVARIANTS TypeOK EntriesAnnounced
PROPERTIES ChangesRecomputed EntriesExpire
