----------------------------- MODULE MCArpCache -----------------------------
\* Small instances of ArpCache for TLC.
EXTENDS ArpCache, TLC

CONSTANTS h1, d1, d2

\* d1 comes from the same host it is sent to in the worst case; d2 is one of
\* the router's own packets.
MCBackHop == (d1 :> h1) @@ (d2 :> SelfIP)
MCBackHopOne == (d1 :> h1)

Symm == Permutations(Rids)
=============================================================================
