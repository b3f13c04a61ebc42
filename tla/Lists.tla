------------------------------- MODULE Lists -------------------------------
(***************************************************************************)
(* Removing nodes from a linked list while it is walked: the tables of     *)
(* pwospf_neighbors.c, pwospf_topology.c and sr_rt.c are kept as           *)
(* sequences, and what remains is given by the positions that are kept.    *)
(***************************************************************************)
EXTENDS Integers, FiniteSets, Functions

\* How many positions of S are not behind i: where S, listed, has i.
Rank(S, i) == Cardinality({j \in S : j <= i})

\* The positions of S in increasing order.
Listing(S) ==
    [k \in 1 .. Cardinality(S) |-> CHOOSE i \in S : Rank(S, i) = k]
=============================================================================
