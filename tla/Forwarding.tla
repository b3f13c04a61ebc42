----------------------------- MODULE Forwarding -----------------------------
(***************************************************************************)
(* What the routers do with IP packets: is_packet_valid, sr_handle_ip_     *)
(* packet, sr_forward_ip_packet, longest prefix match and the ICMP         *)
(* messages (sr_router.c, sr_ip.c, sr_icmp.c, sr_utils.c).                 *)
(*                                                                         *)
(* A trip is what becomes of one packet of a host.  A router turns a       *)
(* packet into at most one other (itself, an echo reply or an ICMP error), *)
(* so a trip has one packet at a time.  Routing tables change as the SPF   *)
(* runs change them: the dynamic routes go first and come back later,      *)
(* perhaps others.  Hosts may leave.                                       *)
(*                                                                         *)
(* Abstractions: an interface is known by its address, a prefix by the set *)
(* of addresses in it; the ARP cache is seen through what it promises      *)
(* (Resolution): the packet reaches the machine with the next hop's        *)
(* address, or an ICMP error about it is sent; an IP checksum is known by  *)
(* the TTL it was computed over, the one field of the header that a        *)
(* router changes.  PWOSPF packets are left to the other modules.          *)
(***************************************************************************)
EXTENDS Integers, Sequences

CONSTANTS
    Routers, Hosts, \* machines; a host is its address
    Own,        \* Own[r]: addresses of r's interfaces
    Wires,      \* Wires[r]: addresses on the networks r is connected to
    Gateway,    \* Gateway[h]: the router a host sends everything to
    Direct,     \* Direct[r]: the routes to those networks, a sequence
    Views,      \* Views[r]: the dynamic routes an SPF run may install
    Start,      \* Start[r]: the dynamic routes at the start
    Firsts,     \* packets that hosts send
    Trips,      \* packets under way (bound of the model)
    TTLs,       \* values of ip_ttl: 256 in the code
    GenTTL,     \* ip_ttl of an ICMP message: 16
    HostTTL,    \* ip_ttl of a host's answer
    MaxChanges, \* table changes (bound of the model)
    NoRoute, NoGw, NoPacket

Protocols == {"request", "reply", "udp", "error"}
Addrs     == UNION {Wires[r] : r \in Routers} \cup {p.dst : p \in Firsts}
Packets   == [type : Protocols, src : Addrs, dst : Addrs,
              ttl : 0 .. TTLs - 1, sum : 0 .. TTLs - 1]
Routes    == [net : SUBSET Addrs, mask : Nat, gw : Addrs \cup {NoGw}, out : Addrs]

ASSUME MachinesAssumption ==
    /\ Own \in [Routers -> SUBSET Addrs] /\ Wires \in [Routers -> SUBSET Addrs]
    /\ Gateway \in [Hosts -> Routers] /\ Hosts \subseteq Addrs
ASSUME TablesAssumption ==
    /\ Direct \in [Routers -> Seq(Routes)] /\ Start \in [Routers -> Seq(Routes)]
    /\ \A r \in Routers : Views[r] \subseteq Seq(Routes)
ASSUME PacketsAssumption ==
    /\ Firsts \subseteq Packets /\ \A p \in Firsts : p.src \in Hosts
    /\ TTLs \in Nat /\ {GenTTL, HostTTL} \subseteq 1 .. TTLs - 1
ASSUME BoundAssumption == MaxChanges \in Nat
ASSUME NullsAssumption == NoRoute \notin Routes /\ NoPacket \notin Packets

VARIABLES
    first,      \* first[i]: the packet a trip begins with
    pkt,        \* its packet now
    at,         \* the machine that has it
    st,         \* "idle", then "arrived" or "queued" (for ARP), then how the
                \* trip ended: "delivered", "answered", "reported", "lost"
    hop,        \* the next hop a queued packet waits for
    born, hops, \* history: the packet's first TTL, and the routers that have
                \* forwarded it
    table,      \* sr->routing_table of each router
    up,         \* routers that have not crashed
    present,    \* hosts on their network
    changes     \* table changes so far

net  == <<table, up, present, changes>>
trip == <<first, pkt, at, st, hop, born, hops>>
vars == <<first, pkt, at, st, hop, born, hops, table, up, present, changes>>

\* Nothing has changed since the start.
Calm == changes = 0 /\ present = Hosts

-----------------------------------------------------------------------------
(* Pure helpers.                                                           *)

\* Fault: of equally long ones the last is kept.
FaultBetter(best, row, dst) ==
    IF dst \in row.net /\ (best = NoRoute \/ row.mask >= best.mask) THEN row ELSE best

Better(best, row, dst) ==
    IF dst \in row.net /\ (best = NoRoute \/ row.mask > best.mask) THEN row ELSE best

\* lpm: one walk over the table; the best of the first k rows, and of all.
LpmWalk(t, dst) ==
    LET best[k \in 0 .. Len(t)] ==
            IF k = 0 THEN NoRoute ELSE Better(best[k - 1], t[k], dst)
    IN  best
Lpm(t, dst) == LpmWalk(t, dst)[Len(t)]

\* Fault: the gateway is the next hop, also of a direct route, which has none.
FaultNextHop(e, dst) == e.gw

\* The gateway, or the destination itself.
NextHop(e, dst) == IF e.gw # NoGw THEN e.gw ELSE dst

\* ip_cksum, over the one field of the header that changes.
IpCksum(ttl) == ttl

\* create_ip_header.
IcmpMessage(type, src, dst) ==
    [type |-> type, src |-> src, dst |-> dst, ttl |-> GenTTL, sum |-> IpCksum(GenTTL)]

\* generate_icmp_packet, from the address that was asked.
EchoOf(p) == IcmpMessage("reply", p.dst, p.src)

\* generate_icmp_packet_t3, from the interface towards the sender.
ErrorAbout(p, e) == IcmpMessage("error", e.out, p.src)

\* is_packet_valid.
IsPacketValid(p) == p.sum = IpCksum(p.ttl)

\* sr_get_interface_given_ip finds the destination.
ForUs(r, p) == p.dst \in Own[r]

\* Fault: the header checksum is not computed again.
FaultAged(p) == [p EXCEPT !.ttl = (@ - 1) % TTLs]

\* ip_ttl is a byte: 0 becomes the largest value.
Aged(p) == LET ttl == (p.ttl - 1) % TTLs IN [p EXCEPT !.ttl = ttl, !.sum = IpCksum(ttl)]

-----------------------------------------------------------------------------
(* What an action does to its trip.                                        *)

End(i, how) ==
    /\ st' = [st EXCEPT ![i] = how]
    /\ UNCHANGED <<first, pkt, at, hop, born, hops, net>>

\* sr_handle_arp_lookup: p waits for its next hop.
Queue(i, p, nh) ==
    /\ pkt' = [pkt EXCEPT ![i] = p]
    /\ st' = [st EXCEPT ![i] = "queued"]
    /\ hop' = [hop EXCEPT ![i] = nh]

QueueMessage(i, p, nh) ==
    /\ Queue(i, p, nh)
    /\ born' = [born EXCEPT ![i] = p.ttl] /\ hops' = [hops EXCEPT ![i] = 0]
    /\ UNCHANGED <<first, at, net>>

\* A null route is dereferenced: the process ends with all it holds.
Crash(r) ==
    /\ up' = up \ {r}
    /\ st' = [i \in Trips |-> IF at[i] = r /\ st[i] \in {"arrived", "queued"}
                              THEN "lost" ELSE st[i]]
    /\ UNCHANGED <<first, pkt, at, hop, born, hops, table, present, changes>>

\* sr_send_icmp_error_packet, about packet p.
SendIcmpError(i, r, p) ==
    LET e == Lpm(table[r], p.src) IN
    IF e = NoRoute THEN Crash(r)
    ELSE QueueMessage(i, ErrorAbout(p, e), NextHop(e, p.src))

-----------------------------------------------------------------------------
(* A router handles a packet.                                              *)

Here(i, r) == st[i] = "arrived" /\ at[i] = r /\ r \in up

\* sr_handlepacket: a wrong length or checksum.
DropInvalid(i, r) ==
    /\ Here(i, r) /\ ~IsPacketValid(pkt[i])
    /\ End(i, "lost")

\* sr_send_icmp_echo_request: the reply to an echo request.  Without a gateway
\* the next hop is the address that was asked, which is the router's own.
EchoReply(i, r) ==
    /\ Here(i, r) /\ IsPacketValid(pkt[i]) /\ ForUs(r, pkt[i])
    /\ pkt[i].type = "request"
    /\ LET e == Lpm(table[r], pkt[i].src) IN
       IF e = NoRoute THEN SendIcmpError(i, r, pkt[i])
       ELSE QueueMessage(i, EchoOf(pkt[i]), NextHop(e, pkt[i].dst))

\* Anything else for the router, ICMP errors included: port unreachable.
PortUnreachable(i, r) ==
    /\ Here(i, r) /\ IsPacketValid(pkt[i]) /\ ForUs(r, pkt[i])
    /\ pkt[i].type # "request"
    /\ SendIcmpError(i, r, pkt[i])

\* sr_forward_ip_packet: the TTL is used up.
TimeExceeded(i, r) ==
    /\ Here(i, r) /\ IsPacketValid(pkt[i]) /\ ~ForUs(r, pkt[i])
    /\ Aged(pkt[i]).ttl = 0
    /\ SendIcmpError(i, r, pkt[i])

\* ... there is no route.
NetUnreachable(i, r) ==
    /\ Here(i, r) /\ IsPacketValid(pkt[i]) /\ ~ForUs(r, pkt[i])
    /\ Aged(pkt[i]).ttl # 0 /\ Lpm(table[r], pkt[i].dst) = NoRoute
    /\ SendIcmpError(i, r, pkt[i])

\* Fault: the TTL is compared before it is decremented.
FaultForward(i, r) ==
    /\ Here(i, r) /\ IsPacketValid(pkt[i]) /\ ~ForUs(r, pkt[i])
    /\ LET e == Lpm(table[r], pkt[i].dst) IN
        /\ pkt[i].ttl # 0 /\ e # NoRoute
        /\ Queue(i, Aged(pkt[i]), NextHop(e, pkt[i].dst))
    /\ hops' = [hops EXCEPT ![i] = @ + 1]
    /\ UNCHANGED <<first, at, born, net>>

\* ... or it is sent on.
Forward(i, r) ==
    /\ Here(i, r) /\ IsPacketValid(pkt[i]) /\ ~ForUs(r, pkt[i])
    /\ LET e == Lpm(table[r], pkt[i].dst) IN
        /\ Aged(pkt[i]).ttl # 0 /\ e # NoRoute
        /\ Queue(i, Aged(pkt[i]), NextHop(e, pkt[i].dst))
    /\ hops' = [hops EXCEPT ![i] = @ + 1]
    /\ UNCHANGED <<first, at, born, net>>

Handle(i, r) ==
    \/ DropInvalid(i, r) \/ EchoReply(i, r) \/ PortUnreachable(i, r)
    \/ TimeExceeded(i, r) \/ NetUnreachable(i, r) \/ Forward(i, r)

-----------------------------------------------------------------------------
(* The ARP cache and the wire.                                             *)

\* The machine with an address; an address of no machine is its own.
Machine(a) == IF \E r \in Routers : a \in Own[r]
              THEN CHOOSE r \in Routers : a \in Own[r] ELSE a

\* Somebody answers r's ARP requests for a: not r itself.
Answers(r, a) ==
    a \in Wires[r] /\ Machine(a) # r /\ Machine(a) \in up \cup present

Waits(i, r) == st[i] = "queued" /\ at[i] = r /\ r \in up

Resolved(i, r) ==
    /\ Waits(i, r) /\ Answers(r, hop[i])
    /\ at' = [at EXCEPT ![i] = Machine(hop[i])]
    /\ st' = [st EXCEPT ![i] = "arrived"]
    /\ UNCHANGED <<first, pkt, hop, born, hops, net>>

\* A mapping that is still cached leads to a machine that is gone.
SentInVain(i, r) ==
    /\ Waits(i, r) /\ ~Answers(r, hop[i])
    /\ hop[i] \in Wires[r] /\ Machine(hop[i]) \in (Routers \cup Hosts) \ {r}
    /\ End(i, "lost")

\* host_unreachable; an error that would wait for the hop that was given up
\* joins the request that is about to be freed, and is freed with it.
HostUnreachable(i, r) ==
    /\ Waits(i, r) /\ ~Answers(r, hop[i])
    /\ LET e == Lpm(table[r], pkt[i].src) IN
       IF e # NoRoute /\ NextHop(e, pkt[i].src) = hop[i] THEN End(i, "lost")
       ELSE SendIcmpError(i, r, pkt[i])

-----------------------------------------------------------------------------
(* The hosts and the network.                                              *)

\* A host sends a packet to its gateway.
Send(i, p) ==
    /\ st[i] = "idle" /\ p.src \in present /\ Gateway[p.src] \in up
    /\ first' = [first EXCEPT ![i] = p] /\ pkt' = [pkt EXCEPT ![i] = p]
    /\ at' = [at EXCEPT ![i] = Gateway[p.src]]
    /\ st' = [st EXCEPT ![i] = "arrived"]
    /\ born' = [born EXCEPT ![i] = p.ttl] /\ hops' = [hops EXCEPT ![i] = 0]
    /\ UNCHANGED <<hop, net>>

\* A host answers an echo request through its gateway.
HostAnswers(i, h) ==
    /\ st[i] = "arrived" /\ at[i] = h /\ pkt[i].type = "request"
    /\ LET p == pkt[i] IN
       IF h \in present /\ Gateway[h] \in up
       THEN /\ pkt' = [pkt EXCEPT ![i] = [p EXCEPT !.type = "reply", !.src = h, !.dst = p.src,
                                                   !.ttl = HostTTL, !.sum = IpCksum(HostTTL)]]
            /\ at' = [at EXCEPT ![i] = Gateway[h]]
            /\ born' = [born EXCEPT ![i] = HostTTL] /\ hops' = [hops EXCEPT ![i] = 0]
            /\ UNCHANGED <<first, st, hop, net>>
       ELSE End(i, "lost")

\* It takes in anything else.
HostReceives(i, h) ==
    /\ st[i] = "arrived" /\ at[i] = h /\ pkt[i].type # "request"
    /\ End(i, CASE pkt[i].type = "udp" /\ h = first[i].dst  -> "delivered"
                [] pkt[i].type = "reply" /\ h = first[i].src -> "answered"
                [] pkt[i].type = "error" /\ h = first[i].src -> "reported"
                [] OTHER -> "lost")

HostLeaves(h) ==
    /\ h \in present
    /\ present' = present \ {h}
    /\ UNCHANGED <<trip, table, up, changes>>

Becomes(r, dynamic) ==
    /\ r \in up /\ changes < MaxChanges
    /\ table' = [table EXCEPT ![r] = Direct[r] \o dynamic]
    /\ changes' = changes + 1
    /\ UNCHANGED <<trip, up, present>>

\* An SPF run begins: clear_routes.
ClearRoutes(r) == Becomes(r, <<>>)

\* It ends: the new routes are behind the old ones.
InstallRoutes(r) == \E v \in Views[r] : Becomes(r, v)

-----------------------------------------------------------------------------
Init ==
    /\ first = [i \in Trips |-> NoPacket] /\ pkt = [i \in Trips |-> NoPacket]
    /\ at = [i \in Trips |-> NoGw] /\ hop = [i \in Trips |-> NoGw]
    /\ st = [i \in Trips |-> "idle"]
    /\ born = [i \in Trips |-> 0] /\ hops = [i \in Trips |-> 0]
    /\ table = [r \in Routers |-> Direct[r] \o Start[r]]
    /\ up = Routers /\ present = Hosts /\ changes = 0

Step(i) ==
    \/ \E r \in Routers : Handle(i, r) \/ Resolved(i, r) \/ SentInVain(i, r)
                            \/ HostUnreachable(i, r)
    \/ \E h \in Hosts : HostAnswers(i, h) \/ HostReceives(i, h)

Next ==
    \/ \E i \in Trips : Step(i) \/ \E p \in Firsts : Send(i, p)
    \/ \E h \in Hosts : HostLeaves(h)
    \/ \E r \in Routers : ClearRoutes(r) \/ InstallRoutes(r)

Spec == Init /\ [][Next]_vars

\* Routers read their packets and ARP ends (ArpCache); hosts take what comes.
\* No host need send or leave, and no table need change.
FairSpec == Spec /\ \A i \in Trips : WF_vars(Step(i))

-----------------------------------------------------------------------------
(* Properties.                                                             *)

Flying(i) == st[i] \in {"arrived", "queued"}

\* Every variable has its type; in particular a packet that waits for ARP waits
\* for an address, never for the 0.0.0.0 that direct routes have for a gateway
\* (sr_ip.c:29-31, sr_router.c:99, 122).
TypeOK ==
    /\ first \in [Trips -> Firsts \cup {NoPacket}]
    /\ pkt \in [Trips -> Packets \cup {NoPacket}]
    /\ at \in [Trips -> Routers \cup Hosts \cup {NoGw}]
    /\ hop \in [Trips -> Addrs \cup {NoGw}]
    /\ st \in [Trips -> {"idle", "arrived", "queued", "delivered", "answered",
                         "reported", "lost"}]
    /\ born \in [Trips -> 0 .. TTLs - 1] /\ hops \in [Trips -> Nat]
    /\ table \in [Routers -> Seq(Routes)]
    /\ up \subseteq Routers /\ present \subseteq Hosts /\ changes \in 0 .. MaxChanges
    /\ \A r \in Routers : table[r] \in {Direct[r] \o v : v \in Views[r] \cup {<<>>, Start[r]}}
    /\ \A i \in Trips : Flying(i) => at[i] \in Routers \cup Hosts /\ pkt[i] # NoPacket
    /\ \A i \in Trips : st[i] = "queued" => hop[i] \in Addrs

\* No packet goes round for ever, whatever loops the changing tables form: it
\* passes fewer routers than its first TTL, and one that arrives with TTL 0,
\* which the decrement in sr_forward_ip_packet wraps, fewer than 256.
TtlBound ==
    \A i \in Trips : st[i] # "idle" => hops[i] < IF born[i] = 0 THEN TTLs ELSE born[i]

\* What TtlBound rests on: every router that has forwarded a packet has taken
\* one off its TTL, and 0 counts as 256.
TtlAccount ==
    \A i \in Trips : Flying(i) =>
        \/ hops[i] = 0 /\ pkt[i].ttl = born[i]
        \/ hops[i] > 0 /\ pkt[i].ttl = (IF born[i] = 0 THEN TTLs ELSE born[i]) - hops[i]

\* The inductive invariant of ForwardingProofs.
IInv == TypeOK /\ TtlBound /\ TtlAccount

\* The walk of lpm finds the longest matching prefix, and of equal ones the
\* first, whatever the order in which SPF runs have put the table.
LongestPrefix ==
    \A r \in Routers, a \in Addrs :
        LET t == table[r]
            Matches == {k \in DOMAIN t : a \in t[k].net}
            Longest == {k \in Matches : \A j \in Matches : t[j].mask <= t[k].mask}
        IN Lpm(t, a) = IF Longest = {} THEN NoRoute
                       ELSE t[CHOOSE k \in Longest : \A j \in Longest : k <= j]

\* An echo request to an address of a router that reaches the sender without
\* a gateway: the reply waits for the router's own address.
AskedByNeighbour(i) ==
    LET p == first[i] IN
    p.type = "request" /\ \E r \in Routers : p.dst \in Own[r] /\ p.src \in Wires[r]

\* While tables and hosts stay as they are, every valid packet reaches its
\* destination and is answered, or its sender gets an ICMP error: no router
\* crashes for want of a route (sr_router.c:118) and no two exchange errors
\* about errors for ever (sr_router.c:176).  The one exception is the ping of
\* a router by its neighbour (sr_router.c:99).
Settles ==
    \A i \in Trips :
        (st[i] # "idle" /\ IsPacketValid(first[i]) /\ ~AskedByNeighbour(i))
            ~> (st[i] \in {"delivered", "answered", "reported"} \/ ~Calm)
=============================================================================
