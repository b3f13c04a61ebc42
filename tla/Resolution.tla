----------------------------- MODULE Resolution -----------------------------
(***************************************************************************)
(* What the ARP cache of a router promises to the code that sends packets  *)
(* (the comment of sr_arpcache.h:1-32), without threads, locks, lists and  *)
(* retries.  A packet goes out at once if its next hop is known and waits  *)
(* otherwise.  What waits for a hop is sent after that hop has answered,   *)
(* all together or without the packets that came too late for the answer,  *)
(* or is given up and its source told, unless the source is behind the     *)
(* hop that does not answer.  Nothing else ends the waiting, and no packet *)
(* is sent on the answer of another hop.                                   *)
(*                                                                         *)
(* ArpCache implements this module (ArpCache!Implements).  That the        *)
(* waiting does end is PacketsResolved of ArpCache, where it is true.      *)
(***************************************************************************)
CONSTANTS
    Data,       \* packets
    Hosts,      \* next hops that may answer
    Hops,       \* next hops
    BackHop,    \* BackHop[d]: next hop towards the source of d
    NoHop

VARIABLES
    known,      \* next hops whose MAC address is known
    serving,    \* the hop that answered and whose packets are being sent
    waits,      \* waits[d]: the hop that d waits for, or NoHop
    outcome     \* how the last use of a packet ended

abstract == <<known, serving, waits, outcome>>

Waiting == {d \in Data : waits[d] # NoHop}

Pass(d, h) ==
    /\ d \notin Waiting /\ h \in known
    /\ outcome' = [outcome EXCEPT ![d] = "sent"]
    /\ UNCHANGED <<known, serving, waits>>

Wait(d, h) ==
    /\ d \notin Waiting /\ h \notin known
    /\ waits' = [waits EXCEPT ![d] = h]
    /\ outcome' = [outcome EXCEPT ![d] = "pending"]
    /\ UNCHANGED <<known, serving>>

\* An ARP packet of h: its address is learnt, if there is room, and if it is
\* a reply the packets that wait for h will be sent.
Hear(h) ==
    /\ serving = NoHop
    /\ known' \in {known, known \cup {h}}
    /\ serving' \in {NoHop, h}
    /\ UNCHANGED <<waits, outcome>>

Serve ==
    /\ serving # NoHop
    /\ \E D \in SUBSET {d \in Waiting : waits[d] = serving} :
        /\ waits' = [d \in Data |-> IF d \in D THEN NoHop ELSE waits[d]]
        /\ outcome' = [d \in Data |-> IF d \in D THEN "sent" ELSE outcome[d]]
    /\ serving' = NoHop
    /\ UNCHANGED known

Forget ==
    /\ known' \in SUBSET known
    /\ UNCHANGED <<serving, waits, outcome>>

GiveUpOn(d) ==
    /\ d \in Waiting
    /\ waits' = [waits EXCEPT ![d] = NoHop]
    /\ \/ outcome' = [outcome EXCEPT ![d] = "reported"]
       \/ /\ waits[d] = BackHop[d]
          /\ outcome' = [outcome EXCEPT ![d] = "muted"]
    /\ UNCHANGED <<known, serving>>

Init ==
    /\ known = {} /\ serving = NoHop
    /\ waits = [d \in Data |-> NoHop]
    /\ outcome = [d \in Data |-> "none"]

Next ==
    \/ \E d \in Data, h \in Hops : Pass(d, h) \/ Wait(d, h)
    \/ \E h \in Hosts : Hear(h)
    \/ Serve \/ Forget
    \/ \E d \in Data : GiveUpOn(d)

Spec == Init /\ [][Next]_abstract
=============================================================================
