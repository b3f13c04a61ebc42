# A TLA+ model of the PWOSPF router

The repository holds two software routers in C that share most of their code:
`enrutamiento/` learns its routes with PWOSPF, a small link-state protocol, and
`reenvio/` forwards over static routes. They run in an emulated network
(Mininet, a POX controller in `pox_module/`) and talk to the controller over
the VNS protocol. `dist/` holds a JSON-RPC library that neither of them uses.
Paths below are relative to
`src/redes2024_ob2/`.

## 1. The system

### Components, their state, what makes them correct

| Component | State | Operations | Must hold | Module |
|---|---|---|---|---|
| ARP cache and request queue (`sr_arpcache.c`, `sr_arp.c`, ARP half of `sr_router.c`) | table of mappings, list of requests with waiting packets, recursive mutex | lookup, queue, insert, destroy, sweep, ARP request and reply handlers | no freed request is used, a hop has one request, no packet is sent twice, every packet is sent or reported, and the one case in which a report is lost is the known one | `ArpCache`, `Resolution` |
| Neighbour discovery (`pwospf_neighbors.c`, half of `sr_pwospf.c`) | list of neighbours with seconds to live, `neighbor_id` and HELLO countdown of each interface | send HELLO, receive HELLO, count down | a live neighbour is kept, a dead one is detected in bounded time, a new one is told the topology | `Neighbors` |
| Topology table and LSU handler (`pwospf_topology.c`, half of `sr_pwospf.c`) | list of (router, network, neighbour, number, age) | check number, apply LSA, age, start SPF | no entry that nobody announced, no return to older data, old data forgotten, routes recomputed | `Topology` |
| Flooding (`send_lsu`, `send_all_lsu`, forwarding in the LSU handler) | router id, neighbours heard, sequence number, 30 s timer, TTL | start, hear a neighbour, originate, forward, restart | once all have heard their neighbours a round reaches every router, a flood dies down, a router that fell behind recovers | `Flooding` |
| Shortest paths (`dijkstra.c`) and routing table (`sr_rt.c`) | routing table, heap and stack of one run | clear, search, add | routes are those of the topology, overlapping runs lose no direct route, and another one only when two link at the same place | `Spf` |
| IP forwarding and ICMP (`sr_router.c`, `sr_ip.c`, `sr_icmp.c`) | none of its own | decide what to do with a packet | longest prefix, no packet goes round for ever, each one is answered or reported | `Forwarding` |
| Start of the router (`sr_if.c`, `sr_main.c`, `pwospf_run_thread`) | interface list, router id | hardware message, choice of the id, direct routes | the id and the direct routes cover every interface | `Session` |
| VNS session (`sr_vns_comm.c`) and POX controller (`pox_module/pwospf`) | phase of the session, messages on the socket, interface tables, registered clients | open, authenticate, hardware message, relay frames, disconnect | a router that connects becomes ready, no frame stops it | `Session` |
| Static router `reenvio/` | as above without PWOSPF | | its table names interfaces that exist | `ArpCache`, `Forwarding`, `Session` |
| Packet checks (`sr_utils.c`) | none | | what fails the check is dropped | `Forwarding`, in part |
| JSON-RPC library, SHA-1, pcap dumper, scripts | | | | not modelled, see section 6 |

### How they interact

- The main thread reads frames from the controller and runs the ARP, IP, ICMP
  and HELLO handlers to the end of each frame. Every LSU gets a detached thread.
- Five threads loop for ever: the ARP sweep, `send_hellos`, `send_all_lsu`,
  `check_neighbors_life`, `check_topology_entries_age`. They start short ones:
  `send_hello_packet`, `send_lsu`, `run_dijkstra`.
- Only the ARP cache has a lock that works. `pwospf_lock` is taken by the two
  sending loops and by nobody who writes what they read; the mutex of
  `run_dijkstra` is copied into its argument, so each run locks its own.
- LSUs and ICMP errors are sent through the ARP cache and may wait there; a
  request releases its packets last in, first out, which reorders LSUs.

### What is hard

Interleavings of those threads on shared lists; lookup and queueing in two
critical sections; a sweep that sends ICMP errors, which queue again while the
list is being swept; reordered, duplicated and lost LSUs; routers that restart
and count from 0; timeouts that race the message they wait for; a walk over a
list that removes from it. `PROJECT.json` lists each hazard at its line, with
the properties that cover it or the reason why none does.

## 2. Plan

Modules in the order in which they were written:

1. `ArpCache`: most of the concurrency, every packet passes through it.
2. `Neighbors`: timers, losses, crashes.
3. `Topology`: LSU threads on one table.
4. `Spf`: the search of `dijkstra.c` as it is written, against shortest paths by
   definition; several runs over one routing table; `clear_routes`.
5. `Session`: how a router starts and gets its interfaces, with the controller.
6. `Forwarding`: a network of routers and hosts, seen from one packet.
7. `Flooding`: a network of routers, seen from the LSUs of one of them.
8. `Resolution`: next-hop resolution without threads and lists; `ArpCache` is
   shown to implement it, and `Forwarding` relies on no more than it.

How they fit together: `Session` ends where HELLOs and LSUs start; `Neighbors`
starts the LSU threads that `Flooding` follows through the network and the
handlers of which `Topology` interleaves; `Topology` starts the SPF runs of
`Spf`, which change the tables that `Forwarding` looks up; `ArpCache` carries
every packet of all of them.

The runs are few and each asks one question: one safety run for each module
together with its liveness where the instance allows, and one run for each real
disagreement with what the code's comments say.

Theorems worth proving, for every value of the constants. Proved are all the
safety properties that the runs check, the action properties among them, and the
refinement of `Resolution`. The liveness properties stay with TLC.

## 3. The modules

Each module `X` is the component, `MCX` gives values to its constants for TLC,
`XProofs` holds the proofs. `Lists` says what remains of a linked list from
which a walk removes nodes; `Neighbors`, `Topology` and `Spf` share it. An
operator `Fault...` in front of a definition is that definition with a plausible
mistake; no specification uses it. Replacing the definition by it must break the
property named in `PROJECT.json`, which shows that the property can fail.

### ArpCache

| Model | Code |
|---|---|
| `entries`, `heap`, `alive`, `queue` | the arrays and lists of `struct sr_arpcache`; a cell of `heap` is a `struct sr_arpreq` |
| `LookupHit`, `LookupMiss`, `Enqueue` | `sr_handle_arp_lookup`: the mutex is free between lookup and queueing |
| `ArpRequest`, `ArpReply`, `SendPending`, `DestroyHeld` | `sr_handle_arp_packet` with `sr_arpcache_insert` under the mutex and the rest without it |
| `Wake`, `TooSoon`, `SendRequest`, `GiveUp`, `Report`, `DestroyCur`, `SweepEnd` | `sr_arpcache_timeout`, which holds the mutex for the whole sweep, request by request and packet by packet |
| `fate` | history: how the last use of a packet ended |
| `IInv`, `PlacesInv` | the inductive invariants of section 5 |
| `Abstract`, `Implements` | the refinement of `Resolution`: see there |

Left out: MAC addresses, the order of the request list (a sweep visits in any
order), the contents of packets. An ICMP error is `<<d, k>>`, an error about
`<<d, k - 1>>`. The error about a forwarded packet goes back to its sender, who
may sit behind the very hop that does not answer; the error about an error has
the router's own address as its destination, which nobody resolves. An error
that joins the request which is about to be freed is never sent: then `fate` is
"muted" and not "reported", and `NoSilentDrop` allows it where the sender of the
packet sits behind the dead hop, and nowhere else.

Without MAC addresses the two entries that one address may have in the table are
alike. That `sr_arpcache_lookup` may answer with the stale one of them
(`sr_arpcache.c:217`) is covered by no property; `EntriesExpire` only shows that
both age out.

### Resolution

What `sr_arpcache.h:1-32` promises, with four variables: which next hops are
known, which one has just answered, what each packet waits for, and how its use
ended. `ArpCache` maps `known` to the valid entries (`KnownHops`), `serving` to
the hop of a thread between `sr_arpcache_insert` and the end of
`sr_arp_reply_send_pending_packets`, and `waits` to the place of a packet,
whether it stands on a request in the queue, on one that was taken off it, or in
the hands of a thread (`WaitsFor`, `HopsOf`). The two critical sections of
`sr_handle_arp_lookup`, the sweep that reports packet by packet while reports
queue again, and the release of packets outside the mutex all become stutters or
one of the six abstract actions. `Serve` lets a packet stay behind: one queued
between the lookup that missed and the answer waits for the next sweep.
`GiveUpOn` tells the sender, or does not when the sender is behind the hop that
was given up.

### Neighbors

`table` and `alive` are `g_neighbors`; `nid` the `neighbor_id` of each
interface; `spawned` the `send_lsu` and `run_dijkstra` threads that were
started; `helloint` the countdown of the neighbours, who run the same code.
Every loop body runs once a second, in any order within the second: `due` holds
those that have not run yet and `Tick` starts the next second. The network
loses at most `MaxLoss` HELLOs of a neighbour in a row; neighbours crash and
restart at any time. Handlers are atomic here.

### Topology

`db` is `g_topology` in list order. `handler[t]` is an LSU thread:

| Step | Code |
|---|---|
| `CheckLsu` | the number check and what precedes it in `sr_handle_pwospf_lsu_packet` |
| `Scan` | one turn of the loop over the LSAs: the search of `refresh_topology_entry`, up to the first entry that stops it |
| `Add` | `add_topology_entry`, at the head of the list; nothing is looked up again |
| `WriteAge`, `WriteNumber`, `WriteNeighbour` | the three assignments of `pwospf_topology.c:83-85` |
| `Finish` | the start of SPF |
| `CheckAge` | one turn of the ageing thread |

None of them holds a lock, so every step of another thread may come between two
of them. `at` is the pointer a thread keeps between the search and the
assignments: it moves when another thread inserts and becomes 0 when the ageing
thread removes the entry, and then the assignments change nothing in the table.
Two threads that both find nothing both insert: an entry may be there twice, and
no property denies it. Two that renew one entry may leave the number of one LSU
with the neighbour of another; `overlap` remembers the routers two of whose LSUs
were applied at a time, and `EntriesAnnounced` says what still holds of them and
what holds of all the others.

`sent` holds every LSU ever sent and the network may deliver any of them at any
time. The other routers hear neighbours, announce the one they heard last, and
restart with number 0. A walk over the list and the two assignments of an
insertion are one step each.

### Spf

`routing_table` and `topology` are lists in the code's order. `run[t]` is a
`run_dijkstra` thread: `Clear` is `clear_routes`, `Skip` and `Search` are the test
of one destination, `Pop` is one turn of the search with all that it pushes.
`sr_add_rt_entry` is two steps: `FindEnd` is its walk to the end of the table,
which leaves `end[t]`, and `Add` links the new route there. Between the two,
others may do the same or clear the table. Of two writers that found the same end
the one that links last cuts off what the other has linked, and a route linked to
an entry that was removed is lost (`Linked`); `torn` remembers that a route was
cut off since the table was last cleared. An item of the heap carries its first
network where the code follows parents; of the stack only the top is kept, since a
search that pushes nothing comes after searches that pushed nothing. `Reorder` is
the one bubble pass of `dijkstra_stack_reorder`. `Near`, `Reached` and `Shortest`
define shortest paths without heap or order and are what the search is compared
with. The loops that push are functions of the position they have reached
(`pushed`, `carried`). `CheckDirect`, `FindDirect` and `LinkDirect` are the loop
of `pwospf_run_thread`, which writes to the table in the same way (`Main`).
`Prompt` says that the neighbours are heard of after it only, as when all routers
start together. `PointToPoint`, that a network joins two routers at most, is a
hypothesis of one theorem and no part of the specification.

### Session

| Model | Code |
|---|---|
| `Start` to `HandleFrame`, `Kill` | `main`, `sr_connect_to_server`, `sr_read_from_server_expect` of both programs; one read, one step |
| `HwEntry`, `HwDone`, `HwDoneStatic` | `sr_handle_hwinfo`, entry by entry, then `sr_verify_routing_table` |
| `FrameAborts` | the assertion of `sr_arp_req_not_for_us` |
| `Wake`, `Scan`, `ScanEnd`, `AddDirect`, `StartThreads` | `pwospf_run_thread`, which walks the interface list with no lock |
| `NewClient` to `Disconnected` | the reactor thread of `srhandler.py`; `HandleOpen` and `SendHardware` are the two halves of `_handle_open_msg`, between which the POX thread may run |
| `RouterInfo`, `PacketIn` | the POX thread: `ofhandler.py`, `_handle_SRPacketIn` |
| `down`, `up` | the connection; TCP keeps the order and loses nothing while both ends live |

A process whose connection was closed by the controller has no action: `recv`
returns 0 and the loop of `sr_vns_comm.c:357` goes on for ever. What the code
does not promise stands in the properties as a condition: a router that opens
its session before its switch is connected may never be answered
(`srhandler.py:147` raises outside the `try`), `early` marks a thread that woke
before the hardware message was handled, `overtaken` a connection that was sent a
frame before it.

### Forwarding

A trip follows one packet of a host through the network: a router turns a packet
into at most one other. `DropInvalid`, `EchoReply`, `PortUnreachable`,
`TimeExceeded`, `NetUnreachable` and `Forward` are the branches of
`sr_handlepacket`, `sr_handle_ip_packet` and `sr_forward_ip_packet`; each ends
with the packet waiting for its next hop or with `Crash`, the null route of
`sr_router.c:118`. `Resolved`, `SentInVain` and `HostUnreachable` are what
`Resolution` allows to happen next; the last includes the error that waits for
the hop just given up, which `ArpCache` frees with the request. `ClearRoutes`
and `InstallRoutes` are the beginning and the end of an SPF run. `LpmWalk`
is the loop of `lpm`: the best row so far at every position; tables may hold two
rows of the same length, of which the first is taken. The TTL wraps as the byte
does.

### Flooding

The LSUs of one router, `Origin`, in a network in which all routers run the same
program and any of them may start late or again.

| Model | Code |
|---|---|
| `up`, `Boot` | `g_router_id`, chosen by `pwospf_run_thread`; until then a router drops what it gets (`sr_pwospf.c:852`) |
| `known`, `Hear`, `NewNeighbour` | `neighbor_id` of each interface, set by the first HELLO; at the origin it starts a flood |
| `Round` | one turn of `send_all_lsu` |
| `NoNeighbour`, `Load`, `Store`, `Send` | a `send_lsu` thread: `g_sequence_num++` is a read and a write, and the LSU reads the counter again |
| `Onward`, `Sends`, `Forwarded` | the loop that sends one packet on all the other interfaces with a neighbour (`sr_pwospf.c:801`) and decrements its TTL for each of them |
| `Handle` | the whole of `sr_handle_pwospf_lsu_packet` at one router; that its check and its update are several steps is the matter of `Topology` |
| `Counters` | the values that the number of the next LSU may start from: `g_sequence_num` and what a thread has read of it and not written back |
| `Lose`, `Restart` | the faults: a packet is lost, any router, the origin included, starts again with nothing |

`sound` remembers whether the last round had any reason to fail, so that
`Spread` says something about all the others. The reasons: when the round began
some router had not started, or had not heard all its neighbours, or was ahead of
the counter; since then a copy was lost, a router restarted or the counter
wrapped. The first two are the price of the guard at `sr_pwospf.c:801` and of the
check at `:852`: a transit router that has just started swallows the LSU, and
the routers behind it wait for the next round.

## 4. The runs

| Run | Asks | Bounds, and why they are enough |
|---|---|---|
| `arp_safety` | is a freed request ever reached, a packet lost, duplicated or given up too early; is that what `Resolution` says? | 2 sending threads, one of which also receives; a forwarded packet and one of the router's own; 1 host and the router's own address as hops; 3 request cells; 2 table slots; lifetime 1 s, 2 attempts. Two threads meet on one hop, the error of a packet meets its own request and is lost with it, the cascade of errors needs the 3 cells, the table fills up. The proofs cover the other sizes |
| `arp_live` | is everything that waits resolved, does everything expire? | one table slot, so it is full all the time; one attempt; no ARP requests from neighbours (see `arp_orphan`) |
| `arp_orphan` | is every request that was taken off the list destroyed? | one host that asks as well |
| `neighbors_two` | are live neighbours kept, dead ones detected, new ones told? | 2 neighbours on 2 interfaces, HELLO every 1 + 1 s, timeout 5 s, one loss in a row. The code has 5 + 1 s, 20 s and so two losses; the proportions are kept, `TimesAssumption` is the inequality that matters. Two entries are the least for which the walk skips one |
| `neighbors_iface` | does the interface forget a dead neighbour? | the real times, 1 neighbour |
| `topology` | can threads, reordering, duplicates and restarts make an entry that nobody announced; is SPF run after every change, is old data forgotten? | this router and two others on one network; one of the two has announced two different neighbours, one has fallen silent; 2 LSU threads, which meet in one entry, in two of one router, and between the search and the insertion; timeout 1 s. The first restarts and uses its numbers again. The run begins when the two have spoken and this router has heard nothing (`MCInit`): what they say before is no part of the question. The proofs cover any number of routers, networks and threads |
| `topology_race` | can an older LSU overwrite a newer one? | the same without the restart, from the beginning |
| `spf_runs` | are routes shortest paths, which do overlapping runs lose? | this router in a triangle with two others and a network behind one of them, so that there are two paths and a better one may become known later; 2 runs at a time, which may find the same end of the table, one to four destinations each; every order of the LSAs of the two routers and of the two HELLOs |
| `spf_start` | does `clear_routes` remove all dynamic routes? | the same with one run at a time and neighbours that are heard of before the direct routes exist |
| `session` | what does a router know when its threads start, can a frame stop it, does it become ready? | one virtual host, since hosts share nothing but the reactor; 2 processes one after the other, so that the second meets what the first left behind; 2 interfaces in either order; either program; a table of `reenvio` that may name a missing interface; up to 2 frames on their way in each direction |
| `forwarding` | what can a packet go through, and in a calm network, is each one answered or reported? | two routers between two hosts, tables that are right, hold only default routes (towards each other, a loop, with a second one of the same length behind) or both, 3 changes (cleared, installed, cleared), hosts that leave. One trip, since trips meet only in a crash, which `Crash` applies to all; TTLs 0 to 7 for 0 to 255, so that a packet in the loop uses up its TTL, and one with TTL 0 wraps |
| `flooding` | does a round reach every router, and does every router hear of the origin again after a fault? | three routers in a line, two links between the first two: copies overtake each other, come back and lose TTL twice at the middle router. Numbers modulo 3, so that they wrap after three LSUs; one loss or one restart of any router; timer 2 s and timeout 3 s, in the order of 30 and 35 (one missed round is enough, `TimesAssumption`). The origin starts last (`MCInit`); the orders this leaves out come back with the restart of the middle or the last router, which swallows LSUs until it has heard its neighbours |

In `topology` and `topology_race` `MaxSeq` bounds how many LSUs a router sends
before a restart and `Tids` how many LSU threads run at a time; the code bounds
neither.

In `flooding` the TTL is 2, just enough for this network, because `if_list` of the
middle router names the way on before the way back. The TTL goes down for every
interface (`sr_pwospf.c:815`): were the way back the first, the LSU would die
before it reaches the last router, although that is only two links away. With the
64 of the code this takes a network with many interfaces per router. `Batches` has
one member: the timer and the flood of a new neighbour do not overlap, so the only
race on the counter is the one between the threads of a batch.

### Fairness

`ArpCache.FairSpec`: the loop of the timeout thread, the clock and the steps of
a thread that has begun to handle a packet go on. What needs the mutex is
strongly fair: its only long holder sleeps a second between two sweeps, so the
others find it free again and again. Nothing forces a packet to be sent, a host
to answer or a neighbour to ask.
`Topology.FairSpec`: a thread that was started goes on to its end, and so does
the ageing loop; nothing forces an LSU to be sent or delivered.
`Session.FairSpec`: the threads of a process and the reactor run. Nobody need
start or kill a process, connect a switch or send a frame.
`Forwarding.FairSpec`: a router handles what it has received and the ARP cache
sends or reports what waits, which is `PacketsResolved` of `ArpCache`; nobody
need send a packet, and no table need change.
`Flooding.FairSpec`: threads go on, copies that are not lost arrive, the timer
and the clock run (`Work`, weak fairness). Routers start, and neighbours say HELLO
every few seconds (`Meet`, strong fairness, because the bound on `Batches`
disables `NewNeighbour` while other threads run).

### Disagreements between the code and its comments

- `arp_orphan`: `sr_handle_arp_packet` ignores the request that
  `sr_arpcache_insert` returns when a neighbour's ARP request brings the awaited
  mapping (`sr_router.c:249`). The packets on it are never sent, reported or
  freed; `sr_arpcache.h:28-32` says what to do with it.
- `neighbors_iface`: a dead neighbour leaves the list and stays in the
  interface (`sr_pwospf.c:265`), although the comment at line 259 says that it
  must be adjusted. LSUs go on announcing it, and when it comes back it is not
  new, so nothing is flooded to it.
- `topology_race`: `check_sequence_number` and the update of the table are two
  steps of a thread (`sr_pwospf.c:756`). Two LSUs of one router that arrive
  together both pass and the older may be applied last.

- `spf_start`: `clear_routes` looks behind the entry it stands on
  (`sr_rt.c:225`), so the first entry is never removed; the comment at line 210
  says that it cleans the dynamic routes. The routing table files are empty and
  `pwospf_run_thread` sleeps five seconds before it adds the direct routes, so a
  router that restarts among running ones can have a dynamic route in front. It
  stays for ever, and keeps out the direct route if the network is its own.

More were met while modelling. They are part of the actions, and where they limit
what a property can promise the property names them as a condition:

- a miss only queues the packet and the first ARP request leaves with the next
  sweep (`sr_arpcache.h:18-19` calls `handle_arpreq` at once);
- HELLOs leave every six seconds, not five (`sr_pwospf.c:323` and `:355`);
- a neighbour's ping of a router is never answered: without a gateway the reply
  waits for the router's own address (`sr_router.c:99`; `AskedByNeighbour`);
- an ICMP error for the router is answered with an ICMP error
  (`sr_router.c:176`), so two routers may exchange them without end, and an error
  without a route ends the process (`sr_router.c:118`); `Settles` holds because
  neither can begin while the tables stay right;
- a packet that arrives with TTL 0 is forwarded with 255 (`sr_ip.c:10`;
  `TtlBound`);
- an OPEN before the switch has connected closes the connection, and the router
  does not notice (`srhandler.py:147`, `sr_vns_comm.c:357`; `GetsReady`);
- a frame that overtakes the hardware message aborts the router
  (`srhandler.py:144`, `sr_vns_comm.c:657`; `AbortOnlyOvertaken`);
- a router id is chosen from the interfaces there are after five seconds
  (`sr_pwospf.c:139`; `early` in `SettledId`);
- `_handle_open_template_msg` lacks `self`, so no template can be opened;
- after a wrap of the 16-bit counter or a restart a router's LSUs are refused
  until its entries age out (`pwospf_topology.c:33`; `sound` in `Spread`);
- a router that has just started drops LSUs (`sr_pwospf.c:852`) and sends none to
  neighbours it has not heard (`:801`), so that routers behind it wait for the next
  round (`sound` in `Spread`);
- the error about a packet that cannot be delivered back to its own source is
  queued on the request that is about to be freed (`sr_arpcache.c:107`; "muted" in
  `NoSilentDrop`);
- two LSUs of one router that are applied at a time leave an entry with the number
  of one and the neighbour of the other (`pwospf_topology.c:83-85`; `overlap` in
  `EntriesAnnounced`);
- two runs of SPF that append at a time lose a route until the next run
  (`sr_rt.c:117-134`; `torn` in `Covered`).

## 5. Proofs

### The ARP cache

`ArpCacheProofs` proves, for any number of threads, hosts, packets, request
cells and slots, and any lifetime and number of attempts:

| Theorem | States |
|---|---|
| `Invariant` | `Spec => []IInv` |
| `TypeCorrect` | `TypeOK` |
| `MemorySafety` | `NoDanglingRequest` |
| `UniqueRequests` | `OneRequestPerHop` |
| `CascadeBounded` | `CascadeEnds` |
| `PlacesInvariant` | `Spec => []PlacesInv` |
| `SinglePlace` | `OnePlace` |
| `NothingDropped` | `NoSilentDrop`, of every step |
| `AskedOutFirst` | `AskedBeforeReport`, of every step |
| `Refinement` | `Implements`: `Spec` implements `Resolution` |

From the assumptions on the constants in `ArpCache` only. The argument: none of
the properties is inductive. `NoDanglingRequest` needs `SweepOver` (outside a
sweep nothing is left to visit), otherwise a request could be unlinked while a
sweep remembers it; that the queue cannot lose a request during a sweep is the
mutex, and that the sweep may free the one it visits is `cur \notin todo`.
`CascadeEnds` needs the levels (`MissJobs`, `CellLevels`, `ReportLevels`): an
error about an error waits for the router's own address only, and since there
is one request for that address (`OneRequestPerHop`), an error of the next level
can only join the request that is about to be freed. `IInv` is their
conjunction; there is one lemma for each action or group of actions, and
`QueuedOnSafe` for the call they share.

`PlacesInv` stands on `IInv`. `OnePlace` alone says nothing of the moment in which
a packet and the error about it are both there, so `OneLevel` and `StillToReport`
say when that is: the packet has been reported and is about to be freed.
`AskedOut` counts the attempts of the request under the sweep, `FateKnown` and
`HopKnown` tie the history to the place of the packet; `GivenUp` says that a
packet whose error went nowhere waits for the hop towards its source. The
refinement then has one lemma for each action: a step of the cache is the step of
`Resolution` that it looks like, or leaves `known`, `serving`, `waits` and `fate`
as they were.

### Neighbours

`NeighborsProofs` proves, for any finite set of neighbours and any intervals:

| Theorem | States |
|---|---|
| `Invariant` | `Spec => []IInv` |
| `TypeCorrect` | `TypeOK` |
| `UniqueNeighbors` | `NoDuplicates` |
| `SecondsSuffice` | `Supplied` |
| `NeverFalselyDead` | `NoFalseDeath` |
| `NeighborTold` | `NewNeighborTold` |
| `DetectedInTime` | `DetectionBound`, with few neighbours |

The assumption that carries the proof is `(HelloInt + 1) * (MaxLoss + 1) <
Timeout`: HELLOs leave every `HelloInt + 1` seconds, and the last of
`MaxLoss + 1` of them arrives. In the code it is `6 * 3 < 20`; with `<=` in its
place the proof fails, because the counting thread may run before the sender in
one second and after it in another. `NoFalseDeath` is an action property, and
what makes it true is `Supplied`: a neighbour that runs has at least `TurnsLeft`
seconds to live, one for each turn of the counting thread that can come before
its next HELLO that is not lost. Losing a HELLO costs one interval of both,
`Tick` moves a turn from one second to the next, and the count at 0 that removes
an entry is thereby a count of a router that crashed. The walk that skips an
entry behind a removed one only ever takes fewer seconds away. `NoDuplicates`
is needed by `Removal`: a router that is removed is no longer in the table.

`DetectionBound` holds under `Few`, `2 * (|Routers| - 1) < Timeout`: with the 20
seconds of the code, for ten neighbours. The walk skips the entry behind one that
it removes (`pwospf_neighbors.c:45-58`), and the bound allows two such skips for
every other neighbour. `SkipsLeft` says why that is enough: only an entry ahead
of the silent one makes the walk skip it, new entries come in front, and one that
was removed has to live for a whole timeout before it can do so again. Without
`Few` it can, and the bound is wrong: with 3 neighbours and a timeout of 2
seconds TLC exceeds it. It is a limit of the code, not of the proof: neighbours
that keep coming and going in front of a dead one postpone its removal.

### Topology

`TopologyProofs` proves, for any number of routers, networks, LSU threads and
LSUs, whatever the routers announce and whatever the timeout:

| Theorem | States |
|---|---|
| `Invariant` | `Spec => []IInv` |
| `TypeCorrect` | `TypeOK` |
| `NothingInvented` | `EntriesAnnounced` |

`EntriesAnnounced` is not inductive: a thread applies LSAs long after the check,
and writes an entry long after it found it. `IInv` says what a thread carries
(`Carries`: what it has not applied yet stands in an LSU that was sent under the
number it carries), what it points at (`Finds`: an entry of its router for the
network of its LSA, however often others have inserted or removed since), and what
it has already written there (`Ready`). `Overlaps` is why the history is complete:
two threads that apply LSUs of one router at a time have been noticed. Of an entry
both halves were announced (`Half`), and together unless the history or a thread
about to write the second half says otherwise (`Whole`). `Age` moves both the
entries and the pointers; that rests on `RankProperties` and `ListingProperties`
of `ListsProofs`.

### Shortest paths

`SpfProofs` proves, for any routers, networks and interfaces, any order in which
they become known, and any number of overlapping runs:

| Theorem | States |
|---|---|
| `Invariant` | `Spec => []IInv` |
| `TypeCorrect` | `TypeOK` |
| `AlwaysSorted` | `HeapSorted` |
| `DirectRoutesSafe` | `OwnRoutesKept` |
| `NothingUncovered` | `Covered` |
| `CalmRunsCorrect` | `CalmRunCorrect`, if `PointToPoint` |

The loops that push are recursive functions, and their results are reached by
induction over the positions (`WalkExists`, `WalkInduction` of `ListsProofs`).
`ReorderHeap` is the lemma about `dijkstra_stack_reorder`: what the pass carries
past a position costs at least what it found there (`Carried`), so one pass is
enough for a list that is sorted but for its first item, and `RangeReorder` that
nothing gets lost. `FirstHopsHeap` and `ExpandedHeap` lift both to the loops of a
search.

`DirectRoutesSafe` needs that no run ever adds a route for a network of the
router's own: it searches only for networks without a route (`NotOwn`), and
under `Prompt` the table has all direct routes before the topology has an entry
(`NothingYet`). The first entry of the table, which `clear_routes` cannot remove,
is then a direct one.

A direct route could still be lost when a run that found the end of the table
before the route was linked cuts it off. `Behind` excludes that: the end a writer
has found is never in front of a direct route. When the last of them is linked no
run has found any end yet, and nothing else adds or removes one.

`Covered` is about runs that clear what others have added, between their test
and their addition, and cut off what others have linked. Of two that link to the
same end the first loses its route, and nobody looks for it again before the next
run: so `Covered` speaks of the times in which that has not happened (`~torn`),
and without that condition TLC finds the lost route. The argument is a leader
(`Leads`): after the last change some run is yet to clear, or has seen to a route
for every entry it has passed, with nothing cleared or cut off since, or all
entries have routes (`Led`). A run whose end is gone, because somebody cleared the
table, does not lead, and the one that cleared does. A run that
clears becomes the leader; a leader adds a route for every entry that has none,
since the search has at least one first hop to put on its stack if anything can
be reached (`ReachableHop`).

`CalmRunsCorrect` is the correctness of the search itself, for every topology.
A chain (`Chains`) is a path together with all that it continues. While a calm
run searches, its heap holds ends of chains only (`OnPaths`), and every chain to
the network it looks for has a member in the heap (`Seeks`): at first the first
hops, later whatever has replaced them (`GoesOn`). An item costs as much as its
chain is long (`ChainFacts`), so the first item of the sorted heap that is on the
network ends a chain that none undercuts (`FirstFound`), whatever the search
before has left in the heap; and a heap runs empty only when there is no chain.
`NearChain` and `ReachedChain` connect that with the definition of shortest
paths, which knows nothing of chains, and here the hypothesis comes in. The
search does not go on over the network it came by, nor to the router it is at
(`dijkstra.c:97-99`). That loses nothing when such a step leads back, which is so
when a network joins two routers at most (`Wired`). `PointToPoint` says that of
what the routers announce. It is what the code can represent, an interface having
one `neighbor_id`; `MCSpf` assumes it too, so that TLC evaluates it for the
instance. With three routers on a network the search would miss what lies
behind the third, and so would their LSUs. `FullInv` adds to `IInv` what calm
runs rely on: that the tables hold what the routers are connected to (`Learnt`),
that the first route of the table is a direct one (`DirectFirst`), so that a
cleared table holds direct routes only, and the state of the run (`CalmRun`).

### Flooding

`FloodingProofs` proves, for any network, any number of batches and threads and
any timer:

| Theorem | States |
|---|---|
| `TypeCorrect` | `TypeOK` |
| `Invariant` | `Spec => []IInv(d)`, if `EnoughTtl(d)` |
| `SpreadHolds` | `Spread`, if `Connected` and `EnoughTtl(d)` |

`Connected` says that there is a way from the origin to every router;
`EnoughTtl(d)` that every other router has at most `d + 1` interfaces, one of
which the LSU came in on, and that `d` times their number is less than the TTL. In
the code, whose TTL is 64, that covers a network of 32 routers with three
interfaces each. It is sufficient only: `flooding` has less TTL than that and
`Spread` still holds there.

A round is followed by the invariant `RoundAbove(n)`, where `n` is the least of
the `Counters` when it began: all routers run and have heard their neighbours,
every copy of the round has a number above `n`, no table was beyond it, and every
link that leads out of the set of routers that have a number above `n` has such a
copy on its way or a thread that is to send one. When nothing is under way that
set has no link out, so by `Connected` it is everyone. That no interface is passed
over needs the guard of `sr_pwospf.c:801` to be true at every router, which is
what `known = Interfaces` in `RoundAbove` is for; a restart makes it false and
ends the round's claim. That no copy dies on the way is `TtlLeft(d)`: a copy has
lost at most `d` for each router that has its number, and it has not been where it
goes. `SentOn` says that copies come from routers that have their number.

The proof showed that it is not enough to compare the counter with the tables
when the round begins. With two batches under way a thread may have read the
counter long ago and writes an old value back after the round has begun, and its
LSUs are refused. `Behind` therefore looks at all `Counters`; with that the
theorem holds for any number of batches, where the run has one.

### Forwarding

`ForwardingProofs` proves, for any network, any tables and any changes of them:

| Theorem | States |
|---|---|
| `Invariant` | `Spec => []IInv` |
| `TypeCorrect` | `TypeOK` |
| `NoEternalPacket` | `TtlBound` |
| `LongestPrefixFound` | `LongestPrefix` |

`TtlBound` is not inductive; `TtlAccount` says what the TTL of a packet under way
is, the wrap of a TTL of 0 included. `TypeCorrect` rests on the addresses: what
waits for ARP waits for an address, since `NextHop` replaces the null gateway of a
direct route by the destination. `LongestPrefix` is a statement about a loop:
`LpmBest` shows by induction that the walk holds the first of the longest rows
seen so far, and `LeastNumber` that there is one.

### Sessions

`SessionProofs` proves, for any number of hosts, processes, interfaces and
frames:

| Theorem | States |
|---|---|
| `Invariant` | `Spec => []IInv` |
| `TypeCorrect` | `TypeOK` |
| `SettledInTime` | `SettledId` |
| `AbortsExplained` | `AbortOnlyOvertaken` |
| `TableVerified` | `StaticRoutesKnown` |

The heart of `IInv` is that a connection gets one hardware message: a session is
opened once, and from then on the message is due, on its way, being handled or
done (`Once`, `Hardware`). `Handled` says what the interface list is after so many
entries of it, the mask and the address each coming one entry later, so that a
completed list names every interface, each with its own address. `FramesBehind`
orders the frames: one that was not sent too early stands behind the hardware
message. `Settling` follows the two walks of the PWOSPF thread through the list
that, for a thread that woke in time, does not change any more: the highest
address is found whatever the order of the interfaces.

### Lists

`ListsProofs` has the lemmas that the others share: the positions that remain of a
list and where they go (`RankProperties`, `ListingProperties`), the least member
of a set of numbers (`LeastNumber`), induction over the positions of a walk
(`WalkInduction`), and the existence of the function that a walk computes
(`WalkExists`).

### What is only model-checked

- The liveness properties `RequestsResolved`, `PacketsResolved`, `EntriesExpire`,
  `UnlinkedDestroyed`, `ChangesRecomputed`, `Recovers`, `Settles` and
  `GetsReady`: fairness and leads-to are outside the prover's reach.
- The four properties that the code does not satisfy (`arp_orphan`,
  `neighbors_iface`, `topology_race`, `spf_start`) have counterexamples instead.

## 6. Limits

Not modelled:

- The JSON-RPC library in `dist/`: no router and no controller calls it.
- SHA-1 and the pcap dumper: third-party code without part in the protocols.
- Mininet topology and scripts: they set the network up.
- Printing, option parsing, the bytes of headers beyond what section 3 names.
- Lists as pointers. In `Neighbors` a call on a list is one step. In `Topology` the
  search, the insertion and each field write are steps, in `Spf` the walk to the
  end of the routing table and the link; within such a step nothing comes between.
  The code has no lock there, so the real lists can also lose an insertion at the
  head (`pwospf_topology.c:9-14`, `pwospf_neighbors.c:8`), and two `clear_routes`
  that cross (`sr_rt.c:243-257`), or a walk that meets one, can follow or free a
  freed node; what a freed node reads as is the allocator's choice, so no property
  over it would say more than that it is undefined. A write to an entry that is no
  longer in its list is a write to nowhere. The hazards in `PROJECT.json` name the
  lines.

Simplified:

- Times are whole seconds; drift between threads is left out, except for the
  order within a second in `Neighbors`.
- In `Spf` the topology only grows; an entry that ages out while a run stands on
  it is freed memory. The cost of a path is a number; `create_dikjstra_item` takes
  a `uint8_t` (`dijkstra.c:195`), so what is shown of shortest paths holds for
  paths of up to 255 hops. A network that cannot be reached gets the route of the last router looked at, and with a cycle of other routers the
  search for it does not end (`dijkstra.c:63`, `:112`).
- `Flooding` leaves out that the death of a neighbour floods as well (the next
  round does the same later), and the time an LSU may wait for ARP.
- In `Session` a process starts again only after the controller has noticed the
  loss of the last one, a switch connects once (one that connects again, and has
  `_handle_RouterInfo` run again, is left out), and a frame is one write: several threads write to the
  socket without a lock (`sr_vns_comm.c:563`), and a short write of one would
  break the stream.
- Some hazards are covered through the conditions of a property only, which show
  that the case does not arise in a calm network or on an early connection and not
  what happens when it does: the null route of an ICMP error (`sr_router.c:118`),
  the ping that is never answered (`:99`), errors about errors between routers
  (`:176`), and the OPEN before the switch (`srhandler.py:147`).
- `sr_send_packet` always succeeds. A reply for an address that is not the
  router's (`sr_router.c:280` dereferences a null interface) is not in the model.
