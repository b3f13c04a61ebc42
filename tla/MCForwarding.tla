---------------------------- MODULE MCForwarding ----------------------------
\* Small instance of Forwarding for TLC: host h - router A - router B - host g.
\* x is an address of g's network that nobody has, z one of no network.  The
\* dynamic routes may be gone, right, or a default route towards each other, also
\* with a second default route behind it, which is never the one to take.
EXTENDS Forwarding, TLC

CONSTANTS A, B, h, a1, a2, b2, b1, g, x, z

NetH == {h, a1}
NetAB == {a2, b2}
NetG == {b1, g, x}
All  == NetH \cup NetAB \cup NetG \cup {z}

Route(n, m, gw, out) == [net |-> n, mask |-> m, gw |-> gw, out |-> out]

MCOwn == (A :> {a1, a2}) @@ (B :> {b1, b2})
MCWires == (A :> NetH \cup NetAB) @@ (B :> NetAB \cup NetG)
MCGateway == (h :> A) @@ (g :> B)
MCDirect == (A :> <<Route(NetH, 24, NoGw, a1), Route(NetAB, 24, NoGw, a2)>>)
         @@ (B :> <<Route(NetAB, 24, NoGw, b2), Route(NetG, 24, NoGw, b1)>>)
Right == (A :> <<Route(NetG, 24, b2, a2)>>) @@ (B :> <<Route(NetH, 24, a2, b2)>>)
Default == (A :> <<Route(All, 0, b2, a2)>>) @@ (B :> <<Route(All, 0, a2, b2)>>)
MCStart == Right
Second == (A :> <<Route(All, 0, h, a1)>>) @@ (B :> <<Route(All, 0, g, b1)>>)
MCViews == [r \in {A, B} |-> {Right[r], Default[r] \o Second[r], Default[r] \o Right[r]}]

Of(type, dst, ttl) == [type |-> type, src |-> h, dst |-> dst, ttl |-> ttl, sum |-> ttl]

MCFirsts ==
    {Of("request", d, 5) : d \in {a1, a2, b1, b2, g, x, z}} \cup
    {Of("request", g, t) : t \in {0, 1, 2}} \cup
    {Of("udp", d, 5) : d \in {b1, g}} \cup
    {[Of("udp", g, 5) EXCEPT !.sum = 4]}
=============================================================================
