-------------------------------- MODULE Spf --------------------------------
(***************************************************************************)
(* The dynamic routes of one router: the runs of Dijkstra's algorithm      *)
(* (dijkstra.c) over the topology table, each in a thread of its own, and  *)
(* the routing table they clear and fill (sr_rt.c).                        *)
(*                                                                         *)
(* run_dijkstra locks a copy of g_dijkstra_mutex, so the runs exclude      *)
(* nobody and their steps interleave: clear the table, look at an entry of *)
(* the topology, take an item from the heap, find the end of the routing   *)
(* table, link a route there.  Neither the heap nor the stack is emptied   *)
(* between two destinations.                                               *)
(*                                                                         *)
(* Of two that found the same end, the one that links last cuts the route  *)
(* of the other off; a route linked to an entry that was removed in the    *)
(* meantime goes to freed memory and is lost.  To clear the whole table    *)
(* and to walk to its end are one step each: what two clearings that cross *)
(* do to the memory (sr_rt.c:243-257) is left out.                         *)
(*                                                                         *)
(* The topology table grows while the runs walk it, as LSUs of a static    *)
(* network are applied one LSA at a time; the entry a run stands on is     *)
(* found from the end of the list, since entries are added in front of it. *)
(* Masks go with their network; a route names the interface's network for  *)
(* the next hop on it.                                                     *)
(***************************************************************************)
EXTENDS Integers, Sequences, FiniteSets, Lists

CONSTANTS
    Routers,    \* the other routers
    Self,       \* this router
    None,       \* neighbor_id 0
    Nets,       \* networks
    Ifaces,     \* networks of this router's interfaces, in if_list order
    Peer,       \* Peer[n]: the router this one will find on network n, or None
    Lsas,       \* Lsas[r]: what r announces, in the order of its LSU
    Tids,       \* run_dijkstra threads at a time (bound of the model)
    Main,       \* pwospf_run_thread
    Prompt      \* all routers start together: nothing is heard of the others
                \* before pwospf_run_thread has added the direct routes

ASSUME NamesAssumption ==
    /\ IsFiniteSet(Routers) /\ Self \notin Routers /\ None \notin Routers \cup {Self}
    /\ Main \notin Tids
ASSUME NetsAssumption ==
    /\ Ifaces \in Seq(Nets) /\ IsInjective(Ifaces)
    /\ Peer \in [Nets -> Routers \cup {None}]
    /\ Lsas \in [Routers -> Seq([net : Nets, nbr : Routers \cup {Self, None}])]
    /\ Prompt \in BOOLEAN

VARIABLES
    topology,       \* g_topology behind its dummy head, in list order
    nid,            \* neighbor_id of the interface on each network
    routing_table,  \* in list order
    boot,           \* interfaces whose direct route pwospf_run_thread has seen to
    direct,         \* what it does next for the one after them
    run,            \* each run_dijkstra thread
    end,            \* rt_walker: the last entry a writer found, 0 for no entry
    changed,        \* history: something changed and no run was started since
    torn            \* history: a route was cut off since the table was cleared

vars == <<topology, nid, routing_table, boot, direct, run, end, changed, torn>>

Own     == Range(Ifaces)
Writers == Tids \cup {Main}
Gone    == -1   \* the entry a writer found is no longer in the table
Entry == [router : Routers, net : Nets, nbr : Routers \cup {Self, None}]
Route == [dest : Nets, via : Nets, dynamic : BOOLEAN]
\* A path: its last network, the router behind it, its length, its first network.
Item  == [net : Nets, nbr : Routers \cup {Self, None}, cost : Nat, first : Nets]
NoItem == [net |-> None, nbr |-> None, cost |-> 0, first |-> None]

Idle == [phase |-> "idle", left |-> 0, heap |-> <<>>, top |-> NoItem, calm |-> FALSE]

-----------------------------------------------------------------------------
(* The routing table.                                                      *)

\* check_route
HasRoute(n) == \E i \in DOMAIN routing_table : routing_table[i].dest = n

\* sr_add_rt_entry walks to the end ...
FoundEnd(w) == end' = [end EXCEPT ![w] = Len(routing_table)]

\* ... and links the route behind the entry found, unless that was removed;
\* what others have linked there is cut off.
Linked(w, n, via, dyn) ==
    LET route == [dest |-> n, via |-> via, dynamic |-> dyn]
        lost  == end[w] = Gone
    IN  /\ routing_table' = IF lost THEN routing_table
                            ELSE Append(SubSeq(routing_table, 1, end[w]), route)
        /\ end' = [v \in Writers |-> IF v = w THEN 0
                                     ELSE IF ~lost /\ end[v] > end[w] THEN Gone
                                     ELSE end[v]]
        /\ torn' = (torn \/ (~lost /\ end[w] < Len(routing_table)))

\* Fault: admin_dst >= 1.
FaultKept == {i \in DOMAIN routing_table : i = 1}

\* Fault: nothing is removed.
FaultKeptAll == DOMAIN routing_table

\* clear_routes looks behind entry, so the first one stays whatever it is.
Kept == {i \in DOMAIN routing_table : i = 1 \/ ~routing_table[i].dynamic}

Remaining(e) == IF e = 0 THEN 0 ELSE IF e \in Kept THEN Rank(Kept, e) ELSE Gone

ClearRoutes ==
    /\ LET kept == Listing(Kept) IN
        routing_table' = [i \in DOMAIN kept |-> routing_table[kept[i]]]
    /\ end' = [w \in Writers |-> Remaining(end[w])]
    /\ torn' = FALSE

-----------------------------------------------------------------------------
(* The search.                                                             *)

\* search_topolgy_table
InTopology(n) == \E e \in Range(topology) : e.net = n

\* The paths of length 1, each pushed in front of what is in the heap.
FirstHop(n) == [net |-> n, nbr |-> nid[n], cost |-> 1, first |-> n]
IsFirstHop(n) == InTopology(n) /\ nid[n] # None
WithFirstHops(heap) ==
    LET pushed[k \in 0 .. Len(Ifaces)] ==
            IF k = 0 THEN heap
            ELSE IF IsFirstHop(Ifaces[k]) THEN <<FirstHop(Ifaces[k])>> \o pushed[k - 1]
                                          ELSE pushed[k - 1]
    IN  pushed[Len(Ifaces)]

Costlier(x, y) == IF x.cost > y.cost THEN x ELSE y

\* Fault: the item stays in front.
FaultReorder(h) == h

\* dijkstra_stack_reorder: one pass over the list carries the costliest item
\* met so far to the end.
Reorder(h) ==
    LET carried[i \in DOMAIN h] ==
            IF i = 1 THEN h[1] ELSE Costlier(carried[i - 1], h[i])
    IN  [i \in DOMAIN h |->
            IF i < Len(h) /\ carried[i].cost > h[i + 1].cost THEN h[i + 1]
                                                             ELSE carried[i]]

Extends(e, item) ==
    /\ e.router = item.nbr
    /\ e.net # item.net
    /\ e.nbr # item.nbr

\* The code counts in a uint8_t (dijkstra.c:195), enough for 255 hops.
Extension(e, item) ==
    [net |-> e.net, nbr |-> e.nbr, cost |-> item.cost + 1, first |-> item.first]

\* The heap when every entry that extends the item has been pushed.
Expanded(heap, item) ==
    LET pushed[k \in 0 .. Len(topology)] ==
            IF k = 0 THEN heap
            ELSE IF Extends(topology[k], item)
                 THEN Reorder(<<Extension(topology[k], item)>> \o pushed[k - 1])
                 ELSE pushed[k - 1]
    IN  pushed[Len(topology)]

-----------------------------------------------------------------------------
(* The rest of the router.                                                 *)

Disturbed == [t \in Tids |-> [run[t] EXCEPT !.calm = FALSE]]

\* pwospf_run_thread adds the direct routes, one interface after the other.
CheckDirect ==
    /\ direct = "check" /\ boot < Len(Ifaces)
    /\ IF HasRoute(Ifaces[boot + 1])
       THEN boot' = boot + 1 /\ UNCHANGED direct
       ELSE direct' = "find" /\ UNCHANGED boot
    /\ UNCHANGED <<topology, nid, routing_table, run, end, changed, torn>>

FindDirect ==
    /\ direct = "find" /\ direct' = "link"
    /\ FoundEnd(Main)
    /\ UNCHANGED <<topology, nid, routing_table, boot, run, changed, torn>>

LinkDirect ==
    /\ direct = "link" /\ direct' = "check"
    /\ boot' = boot + 1
    /\ LET n == Ifaces[boot + 1] IN Linked(Main, n, n, FALSE)
    /\ UNCHANGED <<topology, nid, run, changed>>

\* The router handles HELLOs and LSUs from the start; unless Prompt they come
\* while the direct routes are still missing.
Listening == Prompt => boot = Len(Ifaces)

\* A HELLO: the interface learns its neighbour.
Discover(n) ==
    /\ Listening /\ n \in Own /\ nid[n] = None /\ Peer[n] # None
    /\ nid' = [nid EXCEPT ![n] = Peer[n]]
    /\ changed' = TRUE /\ run' = Disturbed
    /\ UNCHANGED <<topology, routing_table, boot, direct, end, torn>>

Known(r) == Cardinality({i \in DOMAIN topology : topology[i].router = r})

\* The next LSA of r is applied and becomes the first entry.
Learn(r) ==
    /\ Listening /\ Known(r) < Len(Lsas[r])
    /\ LET lsa == Lsas[r][Known(r) + 1] IN
        topology' = <<[router |-> r, net |-> lsa.net, nbr |-> lsa.nbr]>> \o topology
    /\ changed' = TRUE /\ run' = Disturbed
    /\ UNCHANGED <<nid, routing_table, boot, direct, end, torn>>

-----------------------------------------------------------------------------
(* A run.                                                                  *)

\* run_dijkstra_in_thread.  A run is calm as long as it is the only one and
\* nothing changes.
Start(t) ==
    /\ run[t] = Idle
    /\ run' = [Disturbed EXCEPT ![t] =
            [Idle EXCEPT !.phase = "clear", !.calm = \A u \in Tids : run[u] = Idle]]
    /\ changed' = FALSE
    /\ UNCHANGED <<topology, nid, routing_table, boot, direct, end, torn>>

\* Fault: the walk starts at the dummy head.
FaultToWalk == Len(topology) + 1

\* Fault: the walk starts behind the first entry.
FaultToWalkLess == IF topology = <<>> THEN 0 ELSE Len(topology) - 1

\* topo_entry = topology->next
ToWalk == Len(topology)

Clear(t) ==
    /\ run[t].phase = "clear"
    /\ ClearRoutes
    /\ run' = [run EXCEPT ![t].phase = "walk", ![t].left = ToWalk]
    /\ UNCHANGED <<topology, nid, boot, direct, changed>>

\* topo_entry, counted from the end of the list.
Target(t) == topology[Len(topology) + 1 - run[t].left]

\* check_route(topo_entry->net_num): the next entry, or a search for this one.
Skip(t) ==
    /\ run[t].phase = "walk" /\ run[t].left > 0
    /\ HasRoute(Target(t).net)
    /\ run' = [run EXCEPT ![t].left = @ - 1]
    /\ UNCHANGED <<topology, nid, routing_table, boot, direct, end, changed, torn>>

Search(t) ==
    /\ run[t].phase = "walk" /\ run[t].left > 0
    /\ ~HasRoute(Target(t).net)
    /\ run' = [run EXCEPT ![t].phase = "search", ![t].top = NoItem,
                          ![t].heap = WithFirstHops(@)]
    /\ UNCHANGED <<topology, nid, routing_table, boot, direct, end, changed, torn>>

\* One item from the heap.  What leads on or is the target goes on the stack,
\* of which the search needs the top only.
Pop(t) ==
    /\ run[t].phase = "search" /\ run[t].heap # <<>>
    /\ LET item  == Head(run[t].heap)
           rest  == Tail(run[t].heap)
           found == item.net = Target(t).net
       IN  run' = [run EXCEPT
                ![t].heap = IF found \/ item.nbr = None THEN rest ELSE Expanded(rest, item),
                ![t].top = IF found \/ item.nbr # None THEN item ELSE @,
                ![t].phase = IF found THEN "add" ELSE "search"]
    /\ UNCHANGED <<topology, nid, routing_table, boot, direct, end, changed, torn>>

Exhausted(t) ==
    /\ run[t].phase = "search" /\ run[t].heap = <<>>
    /\ run' = [run EXCEPT ![t].phase = "add"]
    /\ UNCHANGED <<topology, nid, routing_table, boot, direct, end, changed, torn>>

NoPath(t) ==
    /\ run[t].phase = "add" /\ run[t].top = NoItem
    /\ run' = [run EXCEPT ![t].phase = "walk", ![t].left = @ - 1]
    /\ UNCHANGED <<topology, nid, routing_table, boot, direct, end, changed, torn>>

FindEnd(t) ==
    /\ run[t].phase = "add" /\ run[t].top # NoItem
    /\ run' = [run EXCEPT ![t].phase = "link"]
    /\ FoundEnd(t)
    /\ UNCHANGED <<topology, nid, routing_table, boot, direct, changed, torn>>

\* The route goes to the first hop of the item on top of the stack, which is
\* the last one looked at when the target was not found.
Add(t) ==
    /\ run[t].phase = "link"
    /\ run' = [run EXCEPT ![t].phase = "walk", ![t].left = @ - 1]
    /\ Linked(t, Target(t).net, run[t].top.first, TRUE)
    /\ UNCHANGED <<topology, nid, boot, direct, changed>>

Finish(t) ==
    /\ run[t].phase = "walk" /\ run[t].left = 0
    /\ run' = [run EXCEPT ![t] = Idle]
    /\ UNCHANGED <<topology, nid, routing_table, boot, direct, end, changed, torn>>

-----------------------------------------------------------------------------
Init ==
    /\ topology = <<>>
    /\ nid = [n \in Nets |-> None]
    /\ routing_table = <<>> /\ boot = 0 /\ direct = "check"
    /\ run = [t \in Tids |-> Idle]
    /\ end = [w \in Writers |-> 0]
    /\ changed = FALSE /\ torn = FALSE

Step(t) ==
    \/ Clear(t) \/ Skip(t) \/ Search(t) \/ Pop(t) \/ Exhausted(t)
    \/ NoPath(t) \/ FindEnd(t) \/ Add(t) \/ Finish(t)

Next ==
    \/ CheckDirect \/ FindDirect \/ LinkDirect
    \/ \E n \in Nets : Discover(n)
    \/ \E r \in Routers : Learn(r)
    \/ \E t \in Tids : Start(t) \/ Step(t)

Spec == Init /\ [][Next]_vars

-----------------------------------------------------------------------------
(* Shortest paths by definition.                                           *)

\* The pairs of a first network and a router that is at most k + 1 hops away
\* over it.
Near ==
    LET near[k \in 0 .. Cardinality(Routers)] ==
            IF k = 0
            THEN {<<n, nid[n]>> : n \in {m \in Own : IsFirstHop(m)}}
            ELSE near[k - 1] \cup
                 {<<p[1][1], p[2].nbr>> :
                    p \in {q \in near[k - 1] \X Range(topology) : q[2].router = q[1][2]}}
    IN  near

\* n can be reached over the network f in k + 2 hops at most.
Reached(n, f, k) == \E e \in Range(topology) : e.net = n /\ <<f, e.router>> \in Near[k]

Reachable(n) == \E f \in Own : Reached(n, f, Cardinality(Routers))

Shortest(n, f) ==
    \E k \in DOMAIN Near : Reached(n, f, k) /\ \A g \in Own, j \in 0 .. k - 1 : ~Reached(n, g, j)

\* How the routers are connected: a network joins two of them at most, and
\* nobody is its own neighbour.  An interface has room for one neighbour
\* (sr_if.h: neighbor_id), so that an LSU names one for each network; with
\* three routers on a network not even all of them would be announced.
PointToPoint ==
    /\ \A q, r \in Routers : \A a \in Range(Lsas[q]), b \in Range(Lsas[r]) :
            a.net = b.net /\ a.nbr = r => b.nbr \notin Routers \ {q}
    /\ \A f \in Own : Peer[f] # None =>
            \A b \in Range(Lsas[Peer[f]]) : b.net = f => b.nbr \notin Routers
    /\ \A r \in Routers : \A a \in Range(Lsas[r]) : a.nbr # r

-----------------------------------------------------------------------------
(* Properties.                                                             *)

\* Every variable has its type.
TypeOK ==
    /\ topology \in Seq(Entry)
    /\ nid \in [Nets -> Routers \cup {None}]
    /\ routing_table \in Seq(Route)
    /\ boot \in 0 .. Len(Ifaces)
    /\ direct \in {"check", "find", "link"}
    /\ run \in [Tids -> [phase : {"idle", "clear", "walk", "search", "add", "link"},
                         left : 0 .. Len(topology), heap : Seq(Item),
                         top : Item \cup {NoItem}, calm : BOOLEAN]]
    /\ end \in [Writers -> Gone .. Len(routing_table)]
    /\ changed \in BOOLEAN /\ torn \in BOOLEAN

\* One pass after each insertion keeps the heap sorted, although it holds what
\* earlier searches left (dijkstra.c:28, 156-177).
HeapSorted ==
    \A t \in Tids : \A i, j \in DOMAIN run[t].heap :
        i < j => run[t].heap[i].cost <= run[t].heap[j].cost

\* The direct routes outlive every run, and no run adds a second route for a
\* network of the router's own (sr_rt.c:214-234, dijkstra.c:37).  Not so when
\* an LSU comes before the direct routes, see Cleaned.
OwnRoutesKept ==
    Prompt => \A k \in 1 .. boot : \E i \in DOMAIN routing_table :
        /\ ~routing_table[i].dynamic
        /\ \A j \in DOMAIN routing_table : routing_table[j].dest = Ifaces[k] <=> i = j

\* A run that nothing disturbed leaves exactly one route to every network that
\* can be reached, over a shortest path (dijkstra.c:35-135).
CalmRunCorrect ==
    \A t \in Tids : run[t].phase = "walk" /\ run[t].left = 0 /\ run[t].calm /\ Prompt =>
        \A n \in Nets \ Own : Reachable(n) =>
            \E i \in DOMAIN routing_table :
                /\ Shortest(n, routing_table[i].via)
                /\ \A j \in DOMAIN routing_table : routing_table[j].dest = n <=> i = j

\* However the runs overlap and clear what others have added: when all are
\* over and one of them was started after the last change, every network that
\* can be reached has a route (dijkstra.c:19-31, sr_pwospf.c:229), unless two
\* of them linked routes to the same entry since the table was last cleared
\* (sr_rt.c:116-125), which loses one until the next run.
Covered ==
    ~torn /\ ~changed /\ (\A t \in Tids : run[t] = Idle) =>
        \A n \in Nets : Reachable(n) => HasRoute(n)

\* "Clean the dynamic routes from the routing table" (sr_rt.c:210).
Cleaned ==
    [][\A t \in Tids : run[t].phase = "clear" /\ run'[t].phase = "walk" =>
            \A i \in DOMAIN routing_table' : ~routing_table'[i].dynamic]_vars
=============================================================================
