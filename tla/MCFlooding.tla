----------------------------- MODULE MCFlooding -----------------------------
\* Instance of Flooding for TLC: the routers a (the origin), b and d in a line,
\* with two links between a and b.  What comes to b over one of them goes on
\* towards d and back over the other: its ttl goes down twice.
EXTENDS Flooding, TLC

CONSTANTS a, b, d, ab, ab2, ba, ba2, bd, db1

MCIfs == (a :> <<ab, ab2>>) @@ (b :> <<bd, ba, ba2>>) @@ (d :> <<db1>>)
MCPeer == (ab :> ba) @@ (ba :> ab) @@ (ab2 :> ba2) @@ (ba2 :> ab2)
            @@ (bd :> db1) @@ (db1 :> bd)

\* Everybody else is up and has heard the others.  (Boot and Hear lead here;
\* the orders in which routers start that the instance leaves out come back
\* with the restart of b or d.)
MCInit ==
    /\ up = Others
    /\ known = {i \in Interfaces : {Owner[i], Owner[Peer[i]]} \subseteq Others}
    /\ seqno = 0 /\ clock = 0
    /\ thread = [x \in OriginIfs \X Batches |-> Idle]
    /\ net = {}
    /\ db = [r \in Others |-> NoEntry]
    /\ faults = 0
    /\ sound = FALSE

MCSpec == MCInit /\ [][Next]_vars /\ Fairness
=============================================================================
