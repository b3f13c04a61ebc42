----------------------------- MODULE MCTopology -----------------------------
\* Instance of Topology for TLC: this router s, b and c are on one network m.
\* It begins when b has heard c and then s and announced it each time, c has
\* heard s and announced it, and c has fallen silent; s has heard nothing yet.
\* An interface keeps the neighbour heard last, so b and c do not name each
\* other and the entry of each makes the other's LSA invalid.
EXTENDS Topology, TLC

CONSTANTS b, c, s, m

MCAnnounces == [o \in Routers |-> <<m>>]
MCPeers == (b :> (m :> {s})) @@ (c :> (m :> {})) @@ (s :> (m :> {}))
MCMaxSeq == (b :> 2) @@ (c :> 1) @@ (s :> 0)

MCLsu(o, p, k) == [orig |-> o, seq |-> k, lsas |-> <<[net |-> m, nbr |-> p]>>]

MCInit ==
    /\ db = <<>> /\ handler = [t \in Tids |-> Idle] /\ stale = FALSE /\ overlap = {}
    /\ nbr = [o \in Routers |-> [x \in Nets |-> IF o = s THEN None ELSE s]]
    /\ seqno = MCMaxSeq
    /\ sent = {MCLsu(b, c, 1), MCLsu(b, s, 2), MCLsu(c, s, 1)}

MCSpec == MCInit /\ [][Next]_vars /\ Fairness
=============================================================================
