------------------------------- MODULE MCSpf --------------------------------
\* Instances of Spf for TLC; s is this router.
EXTENDS Spf, TLC

CONSTANTS b, c, s, sb, sc, bc, stub

\* A triangle of s, b and c, and a network behind c.
MCIfaces == <<sb, sc>>
MCPeer == (sb :> b) @@ (sc :> c) @@ (bc :> None) @@ (stub :> None)
MCLsas ==
    (b :> <<[net |-> sb, nbr |-> s], [net |-> bc, nbr |-> c]>>) @@
    (c :> <<[net |-> sc, nbr |-> s], [net |-> stub, nbr |-> None], [net |-> bc, nbr |-> b]>>)

ASSUME MCPointToPoint == PointToPoint

Symm == Permutations(Tids)
=============================================================================
