----------------------------- MODULE Neighbors ------------------------------
(***************************************************************************)
(* Which routers one router believes to be alive: the table of             *)
(* pwospf_neighbors.c, the neighbor_id of each interface, and the threads  *)
(* of sr_pwospf.c that keep them (send_hellos and                          *)
(* sr_handle_pwospf_hello_packet on one side, check_neighbors_life on the  *)
(* other).  The neighbouring routers run the same program: their send_hellos *)
(* is modelled, the network loses at most MaxLoss HELLOs in a row, and     *)
(* a neighbour may crash and start again.                                  *)
(*                                                                         *)
(* Time: every thread's loop body runs once a second, in any order within  *)
(* the second (the threads sleep one second; drift is left out).  A HELLO  *)
(* that is not lost arrives in the second it is sent; one that fails the   *)
(* checksum, mask or interval check of the handler counts as lost (a       *)
(* router with another mask or interval is not one of Routers).  Handlers  *)
(* are atomic here: the data race on the list is another question.         *)
(***************************************************************************)
EXTENDS Integers, Sequences, FiniteSets, Lists

CONSTANTS
    Routers,    \* the neighbouring routers
    Ifaces,     \* interfaces of this router
    Port,       \* Port[r]: the interface router r is behind
    None,       \* neighbor_id 0: no neighbour
    HelloInt,   \* OSPF_DEFAULT_HELLOINT
    Timeout,    \* OSPF_NEIGHBOR_TIMEOUT
    MaxLoss     \* HELLOs the network loses in a row, at most

ASSUME PortAssumption == Port \in [Routers -> Ifaces]
ASSUME NoneAssumption == None \notin Routers
ASSUME RoutersAssumption == IsFiniteSet(Routers) /\ "check" \notin Routers
ASSUME TimesAssumption ==
    /\ HelloInt \in Nat /\ Timeout \in Nat \ {0} /\ MaxLoss \in Nat
    \* 6 * 3 < 20 in the code: three HELLOs leave within the timeout.
    /\ (HelloInt + 1) * (MaxLoss + 1) < Timeout

VARIABLES
    table,      \* g_neighbors behind its dummy head: ids, in list order
    alive,      \* seconds each neighbour in the table has left
    nid,        \* neighbor_id of each interface
    spawned,    \* threads started: send_lsu for an interface, or "spf"
    due,        \* loop bodies that have not run in this second
    up,         \* neighbours that are running
    helloint,   \* countdown of each neighbour's send_hellos
    lost,       \* HELLOs of a neighbour lost in a row
    silence,    \* history: seconds since the last HELLO of a neighbour
    crashed     \* history: neighbours that crashed since their last HELLO

vars == <<table, alive, nid, spawned, due, up, helloint, lost, silence, crashed>>

\* The first value of silence that DetectionBound forbids; none is counted
\* beyond it.
MaxSilence == Timeout + 2 * Cardinality(Routers)
Known      == Range(table)

Lsu(i) == <<"lsu", i>>
Spf    == <<"spf", None>>

-----------------------------------------------------------------------------
(* Receiving a HELLO: sr_handle_pwospf_hello_packet.                       *)

\* flood_lsu: a send_lsu thread for every interface with a neighbour.
FloodOn(ids) == {Lsu(i) : i \in {j \in Ifaces : ids[j] # None}}

\* Fault: an entry already in the table is not renewed.
FaultRefresh(r) ==
    IF r \in Known
    THEN UNCHANGED <<table, alive>>
    ELSE /\ table' = <<r>> \o table
         /\ alive' = [alive EXCEPT ![r] = Timeout]

\* Fault: the table is not searched.
FaultAddAlways(r) ==
    /\ table' = <<r>> \o table
    /\ alive' = [alive EXCEPT ![r] = Timeout]

\* refresh_neighbors_alive: renew the entry, or add one at the front.
Refresh(r) ==
    /\ table' = IF r \in Known THEN table ELSE <<r>> \o table
    /\ alive' = [alive EXCEPT ![r] = Timeout]

\* Fault: the LSUs are flooded before the interface learns its neighbour.
FaultNewNeighbor(i, r) ==
    IF nid[i] = r
    THEN UNCHANGED <<nid, spawned>>
    ELSE /\ nid' = [nid EXCEPT ![i] = r]
         /\ spawned' = spawned \cup FloodOn(nid)

\* A HELLO of another router than the interface's neighbour makes it the
\* neighbour and floods; that of the known neighbour does neither.
NewNeighbor(i, r) ==
    IF nid[i] = r
    THEN UNCHANGED <<nid, spawned>>
    ELSE /\ nid' = [nid EXCEPT ![i] = r]
         /\ spawned' = spawned \cup FloodOn(nid')

HandleHello(r) ==
    /\ NewNeighbor(Port[r], r)
    /\ Refresh(r)
    /\ silence' = [silence EXCEPT ![r] = 0]
    /\ crashed' = crashed \ {r}

-----------------------------------------------------------------------------
(* A neighbour's send_hellos, once a second.                               *)

\* Fault: the countdown starts from twice the interval.
FaultCountdown(r) ==
    helloint' = [helloint EXCEPT ![r] = IF @ = 0 THEN 2 * HelloInt ELSE @ - 1]

\* The countdown: send at 0 and start again, otherwise count.
Countdown(r) ==
    helloint' = [helloint EXCEPT ![r] = IF @ = 0 THEN HelloInt ELSE @ - 1]

Quiet(r) ==
    /\ r \in due /\ r \in up /\ helloint[r] > 0
    /\ due' = due \ {r}
    /\ Countdown(r)
    /\ UNCHANGED <<table, alive, nid, spawned, up, lost, silence, crashed>>

HelloArrives(r) ==
    /\ r \in due /\ r \in up /\ helloint[r] = 0
    /\ due' = due \ {r}
    /\ Countdown(r)
    /\ lost' = [lost EXCEPT ![r] = 0]
    /\ HandleHello(r)
    /\ UNCHANGED up

HelloLost(r) ==
    /\ r \in due /\ r \in up /\ helloint[r] = 0
    /\ lost[r] < MaxLoss
    /\ due' = due \ {r}
    /\ Countdown(r)
    /\ lost' = [lost EXCEPT ![r] = @ + 1]
    /\ UNCHANGED <<table, alive, nid, spawned, up, silence, crashed>>

Down(r) ==
    /\ r \in due /\ r \notin up
    /\ due' = due \ {r}
    /\ UNCHANGED <<table, alive, nid, spawned, up, helloint, lost, silence, crashed>>

Crash(r) ==
    /\ r \in up
    /\ up' = up \ {r}
    /\ crashed' = crashed \cup {r}
    /\ UNCHANGED <<table, alive, nid, spawned, due, helloint, lost, silence>>

\* The program starts again: sr_add_interface sets helloint to 0.
Restart(r) ==
    /\ r \notin up
    /\ up' = up \cup {r}
    /\ helloint' = [helloint EXCEPT ![r] = 0]
    /\ lost' = [lost EXCEPT ![r] = 0]
    /\ UNCHANGED <<table, alive, nid, spawned, due, silence, crashed>>

-----------------------------------------------------------------------------
(* check_neighbors_life, once a second.                                    *)

\* Fault: the walk starts behind the first entry.
FaultVisited == [i \in 1 .. Len(table) |-> i # 1]

\* check_neighbors_alive: after it removes an entry, ptr moves on to the next
\* one, which is therefore not looked at in this second.
Visited ==
    LET visited[i \in 1 .. Len(table)] ==
            i = 1 \/ ~(visited[i - 1] /\ alive[table[i - 1]] = 0)
    IN  visited

Counted == {table[i] : i \in {j \in 1 .. Len(table) : Visited[j]}}
Dead    == {r \in Counted : alive[r] = 0}

\* Something removed: flood, recompute the routes.  The neighbor_id of the
\* interface is left as it is.
CheckNeighborsLife ==
    /\ "check" \in due
    /\ due' = due \ {"check"}
    /\ alive' = [r \in Routers |-> IF r \in Counted /\ alive[r] > 0
                                   THEN alive[r] - 1 ELSE alive[r]]
    /\ LET kept == Listing({i \in 1 .. Len(table) : table[i] \notin Dead})
       IN  table' = [i \in DOMAIN kept |-> table[kept[i]]]
    /\ spawned' = IF Dead = {} THEN spawned
                               ELSE spawned \cup FloodOn(nid) \cup {Spf}
    /\ UNCHANGED <<nid, up, helloint, lost, silence, crashed>>

\* A thread started earlier does its work (another module's business).
RunThread(x) ==
    /\ x \in spawned
    /\ spawned' = spawned \ {x}
    /\ UNCHANGED <<table, alive, nid, due, up, helloint, lost, silence, crashed>>

\* The next second begins when every loop body of this one has run.
Tick ==
    /\ due = {}
    /\ due' = {"check"} \cup Routers
    /\ silence' = [r \in Routers |-> IF silence[r] < MaxSilence THEN silence[r] + 1
                                                               ELSE silence[r]]
    /\ UNCHANGED <<table, alive, nid, spawned, up, helloint, lost, crashed>>

-----------------------------------------------------------------------------
Init ==
    /\ table = <<>>
    /\ alive = [r \in Routers |-> 0]
    /\ nid = [i \in Ifaces |-> None]
    /\ spawned = {} /\ due = {}
    /\ up = {} /\ crashed = {}
    /\ helloint = [r \in Routers |-> 0]
    /\ lost = [r \in Routers |-> 0]
    /\ silence = [r \in Routers |-> 0]

Hello(r) == Quiet(r) \/ HelloArrives(r) \/ HelloLost(r) \/ Down(r)

Next ==
    \/ \E r \in Routers : Hello(r) \/ Crash(r) \/ Restart(r)
    \/ CheckNeighborsLife
    \/ \E x \in spawned : RunThread(x)
    \/ Tick

Spec == Init /\ [][Next]_vars

-----------------------------------------------------------------------------
(* Properties.                                                             *)

\* Every variable has its type.
TypeOK ==
    /\ table \in Seq(Routers)
    /\ alive \in [Routers -> 0 .. Timeout]
    /\ nid \in [Ifaces -> Routers \cup {None}]
    /\ spawned \subseteq {Lsu(i) : i \in Ifaces} \cup {Spf}
    /\ due \subseteq {"check"} \cup Routers
    /\ up \subseteq Routers /\ crashed \subseteq Routers
    /\ helloint \in [Routers -> 0 .. HelloInt]
    /\ lost \in [Routers -> 0 .. MaxLoss]
    /\ silence \in [Routers -> 0 .. MaxSilence]

\* A router is in the table once: removing it removes it.
NoDuplicates ==
    \A i, j \in 1 .. Len(table) : table[i] = table[j] => i = j

\* A neighbour that runs is not declared dead, although HELLOs leave every
\* HelloInt + 1 seconds, MaxLoss of them may be lost in a row, and the thread
\* that counts runs in any order with the handler (sr_pwospf.c:328-369,
\* pwospf_neighbors.c:33-61).
NoFalseDeath ==
    [][\A r \in Routers : r \in Known /\ r \notin Range(table') => r \in crashed]_vars

\* The turns of check_neighbors_life that may come before the next HELLO of r
\* that the network may not lose: one in each second until then.
TurnsLeft(r) ==
    (HelloInt + 1) * (MaxLoss - lost[r]) + helloint[r]
        + (IF "check" \in due THEN 1 ELSE 0) + (IF r \in due THEN 0 ELSE 1)

\* A neighbour that runs has been given a second for each of those turns,
\* however the loops of the two routers interleave (sr_pwospf.c:346-360,
\* pwospf_neighbors.c:43-56): what NoFalseDeath rests on.
Supplied ==
    \A r \in Known \ crashed : r \in up /\ alive[r] >= TurnsLeft(r)

\* A silent neighbour is removed after Timeout + 1 seconds, and at most two
\* more for every other neighbour, whose removal makes the walk skip the
\* entry behind it for a second (pwospf_neighbors.c:45-58).  This takes few
\* neighbours: with Timeout + 1 others that come and go in turn, one of them
\* can be removed in front of the silent one every second, for ever.
DetectionBound == \A r \in Known : silence[r] < MaxSilence

\* A neighbour just found on an interface is sent this router's LSU: the
\* flood covers the interface that changed (sr_pwospf.c:690-703).
NewNeighborTold ==
    [][\A i \in Ifaces : nid'[i] # nid[i] => Lsu(i) \in spawned']_vars

\* "Si hay un cambio, se debe ajustar el neighbor id en la interfaz."
\* (sr_pwospf.c:259): no interface names a router that was declared dead.
InterfaceAdjusted == \A i \in Ifaces : nid[i] # None => nid[i] \in Known
=============================================================================
