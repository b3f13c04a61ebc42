---------------------------- MODULE MCNeighbors -----------------------------
\* Instances of Neighbors for TLC.
EXTENDS Neighbors, TLC

CONSTANTS r1, r2, i1, i2

MCPort == (r1 :> i1) @@ (r2 :> i2)
MCPortOne == (r1 :> i1)
=============================================================================
