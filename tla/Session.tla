------------------------------ MODULE Session ------------------------------
(***************************************************************************)
(* The session between a router process and the POX controller, and how    *)
(* the process starts (sr_main.c, sr_vns_comm.c, sr_if.c, the start of     *)
(* sr_pwospf.c; srhandler.py, ofhandler.py and VNSProtocol.py).            *)
(*                                                                         *)
(* A process connects, is authenticated, opens the session of its virtual  *)
(* host, starts its threads and reads commands for ever.  The hardware     *)
(* message builds the interface list, one entry at a time, while the       *)
(* PWOSPF thread reads that list to choose the router id and to add the    *)
(* direct routes.  The controller has two threads: the Twisted reactor     *)
(* answers the routers, POX handles the switches and hands their frames    *)
(* over.  Any process may be killed; it is started again on a new          *)
(* connection once the controller has noticed.                             *)
(*                                                                         *)
(* TCP neither loses nor reorders.  An exception in a handler of the       *)
(* reactor makes Twisted close the connection.  The router then reads 0    *)
(* bytes for ever (its loops wait for bytes_read to grow), so there is no  *)
(* action for it: the process hangs.                                       *)
(*                                                                         *)
(* Abstractions: addresses are numbered in the order in which the code     *)
(* compares them; Ethernet addresses, the salt and the digest are left     *)
(* out; an interface is linked into the list in one step.  The controller  *)
(* never sends VNSCLOSE, VNSBANNER or VNS_RTABLE.  A switch connects once: *)
(* one that comes back, and has its interfaces told again, is left out.    *)
(***************************************************************************)
EXTENDS Integers, Sequences

CONSTANTS
    Vhosts,     \* virtual hosts: a switch and the router that drives it
    NIfs,       \* interfaces of a switch
    Tables,     \* Tables[v, p]: what the file rtable.v may hold when program p is
                \* started, as the set of the interfaces it names
    MaxConns,   \* processes that are ever started (bound of the model)
    MaxFrames,  \* messages to a router before a frame is held back, and frames
                \* from a router to the controller (bound of the model)
    NoHost      \* the virtual host of a connection not in use

ASSUME SizesAssumption == NIfs \in Nat \ {0} /\ MaxConns \in Nat /\ MaxFrames \in Nat
ASSUME HostsAssumption ==
    /\ NoHost \notin Vhosts
    /\ Tables \in [Vhosts \X {"enrutamiento", "reenvio"} -> SUBSET SUBSET Nat]

\* A process and its connection have the same number; 0 is no connection.
Conns  == 1 .. MaxConns
NoConn == 0

\* vhostN-eth1 ...: each has an address in IP_CONFIG, and 0 is none.
Ifs == 1 .. NIfs

\* The two routers: with PWOSPF, and with a table from a file.
Programs == {"enrutamiento", "reenvio"}

VARIABLES
    host, prog, \* mVirtualHostID the process was started with, and its program
    pc,         \* main of each process
    tpc, pos,   \* pwospf_run_thread: where it is, and at which interface
    ifs,        \* sr->if_list
    todo,       \* entries of the hardware message not handled yet
    rid,        \* g_router_id
    routes,     \* interfaces whose network is in the routing table
    srv,        \* the controller's end of each connection
    down, up,   \* messages to the router and from it
    clients,    \* srclients
    interfaces, \* interfaces and port maps of srhandler.py, <<>> until known
    early,      \* history: the PWOSPF thread woke before the hardware message
    overtaken   \* history: a frame was sent before the hardware message

id     == <<host, prog>>
thread == <<tpc, pos, rid, early>>
ctrl   == <<srv, clients, interfaces, overtaken>>
vars   == <<host, prog, pc, tpc, pos, ifs, todo, rid, routes, srv, down, up,
            clients, interfaces, early, overtaken>>

-----------------------------------------------------------------------------
(* Messages.  Both ends agree on the layout (vnscommand.h, VNSProtocol.py). *)

AuthRequest  == [type |-> "AUTH_REQUEST"]
AuthReply    == [type |-> "AUTH_REPLY"]
AuthStatus   == [type |-> "AUTH_STATUS"]
Open         == [type |-> "OPEN"]
OpenTemplate == [type |-> "OPEN_TEMPLATE"]
HardwareInfo(s) == [type |-> "HWINFO", ifs |-> s]
PacketOut    == [type |-> "PACKET"]
Packet(i)    == [type |-> "PACKET", intf |-> i]

\* What is packed for an interface and changes the state of the receiver.
HwKeys == <<"INTERFACE", "ETHIP", "MASK">>
HwEntries(s) ==
    [k \in 1 .. 3 * Len(s) |->
        [key |-> HwKeys[1 + ((k - 1) % 3)], intf |-> s[1 + ((k - 1) \div 3)]]]

\* The interfaces in the order of a Python 2 dictionary: any.
Orders == {s \in [Ifs -> Ifs] : \A i, j \in Ifs : i # j => s[i] # s[j]}

\* LTProtocol and the two read loops: whole messages, in order.
Next1(queue, t) == queue # <<>> /\ Head(queue).type = t

-----------------------------------------------------------------------------
(* The interface list.                                                     *)

\* What malloc may leave in a field nobody has set: nothing, or more than
\* any address.
Junk == {0, NIfs + 1}

AddInterface(l, i, junk) == Append(l, [name |-> i, ip |-> junk, mask |-> FALSE])

\* Fault: the first interface of the list gets every address.
FaultSetIp(l, i) == [l EXCEPT ![1].ip = i]

SetIp(l, i) == [l EXCEPT ![Len(l)].ip = i]
SetMask(l)  == [l EXCEPT ![Len(l)].mask = TRUE]

Names(l) == {l[k].name : k \in 1 .. Len(l)}

\* sr_get_interface: the record of that name, if any.
Knows(c, i) == i \in Names(ifs[c])

Complete(c) == Len(ifs[c]) = NIfs /\ todo[c] = <<>>

-----------------------------------------------------------------------------
(* The router process: main and its read loop.                             *)

IsStatic(c) == prog[c] = "reenvio"

Alive(c) == pc[c] \in {"auth", "status", "rtable", "run", "hw"}

Goto(c, l) == pc' = [pc EXCEPT ![c] = l]
Read(c)    == down' = [down EXCEPT ![c] = Tail(@)]
Write(c, m) == up' = [up EXCEPT ![c] = Append(@, m)]

\* The process ends; what it had sent stays in the connection.
Ends(c, why) ==
    /\ Goto(c, why)
    /\ tpc' = [tpc EXCEPT ![c] = "off"]
    /\ pos' = [pos EXCEPT ![c] = 1]
    /\ ifs' = [ifs EXCEPT ![c] = <<>>]
    /\ todo' = [todo EXCEPT ![c] = <<>>]
    /\ rid' = [rid EXCEPT ![c] = 0]
    /\ routes' = [routes EXCEPT ![c] = {}]
    /\ early' = [early EXCEPT ![c] = FALSE]
    /\ down' = [down EXCEPT ![c] = <<>>]

\* sr_load_rt: the table is what the file says.
LoadTable(c, v, p) == \E t \in Tables[<<v, p>>] : routes' = [routes EXCEPT ![c] = t]

\* main up to connect(): a virtual host has one process at a time.
Start(c, v, p) ==
    /\ pc[c] = "unused" /\ \A d \in 1 .. c - 1 : pc[d] # "unused"
    /\ \A d \in Conns : host[d] = v => ~Alive(d) /\ srv[d] = "closed"
    /\ host' = [host EXCEPT ![c] = v]
    /\ prog' = [prog EXCEPT ![c] = p]
    /\ LoadTable(c, v, p)
    /\ Goto(c, "auth")
    /\ srv' = [srv EXCEPT ![c] = "accepting"]
    /\ UNCHANGED <<thread, ifs, todo, down, up, clients, interfaces, overtaken>>

\* sr_handle_auth_request: auth_key can be read.
Authenticate(c) ==
    /\ pc[c] = "auth" /\ Next1(down[c], "AUTH_REQUEST")
    /\ Read(c)
    /\ Write(c, AuthReply)
    /\ Goto(c, "status")
    /\ UNCHANGED <<id, thread, ifs, todo, routes, ctrl>>

\* auth_key cannot be read: sr_connect_to_server fails and main returns.
NoCredentials(c) ==
    /\ pc[c] = "auth" /\ Next1(down[c], "AUTH_REQUEST")
    /\ Ends(c, "over")
    /\ UNCHANGED <<id, up, ctrl>>

\* sr_init: the PWOSPF thread exists only in enrutamiento/.
SrInit(c) == tpc' = [tpc EXCEPT ![c] = IF IsStatic(c) THEN "off" ELSE "sleep"]

\* Authenticated: open the session, start the threads, enter the main loop.
OpenSession(c) ==
    /\ pc[c] = "status" /\ Next1(down[c], "AUTH_STATUS")
    /\ Read(c)
    /\ Write(c, Open)
    /\ Goto(c, "run")
    /\ SrInit(c)
    /\ UNCHANGED <<id, pos, rid, early, ifs, todo, routes, ctrl>>

\* With -T a template is opened and its routing table awaited.
OpenByTemplate(c) ==
    /\ pc[c] = "status" /\ Next1(down[c], "AUTH_STATUS")
    /\ Read(c)
    /\ Write(c, OpenTemplate)
    /\ Goto(c, "rtable")
    /\ UNCHANGED <<id, thread, ifs, todo, routes, ctrl>>

\* VNSHWINFO: sr_handle_hwinfo starts.
HwInfo(c) ==
    /\ pc[c] = "run" /\ Next1(down[c], "HWINFO")
    /\ Read(c)
    /\ todo' = [todo EXCEPT ![c] = HwEntries(Head(down[c]).ifs)]
    /\ Goto(c, "hw")
    /\ UNCHANGED <<id, thread, ifs, routes, up, ctrl>>

\* The effect of one entry in enrutamiento/ and, without masks, in reenvio/.
Applied(l, e) ==
    CASE e.key = "INTERFACE" -> {AddInterface(l, e.intf, j) : j \in Junk}
      [] e.key = "ETHIP"     -> {SetIp(l, e.intf)}
      [] e.key = "MASK"      -> {SetMask(l)}
AppliedStatic(l, e) == IF e.key = "MASK" THEN {l} ELSE Applied(l, e)

HwEntry(c) ==
    /\ pc[c] = "hw" /\ todo[c] # <<>>
    /\ \E l \in IF IsStatic(c) THEN AppliedStatic(ifs[c], Head(todo[c]))
                                      ELSE Applied(ifs[c], Head(todo[c])) :
            ifs' = [ifs EXCEPT ![c] = l]
    /\ todo' = [todo EXCEPT ![c] = Tail(@)]
    /\ UNCHANGED <<id, pc, thread, routes, down, up, ctrl>>

\* Fault: it is enough that one interface of the table exists.
FaultVerified(c) == routes[c] \cap Names(ifs[c]) # {}

\* sr_verify_routing_table returns 0.
Verified(c) == ifs[c] # <<>> /\ routes[c] # {} /\ routes[c] \subseteq Names(ifs[c])

\* The hardware message is handled; enrutamiento/ ignores the verdict.
HwDone(c) ==
    /\ pc[c] = "hw" /\ todo[c] = <<>>
    /\ ~IsStatic(c)
    /\ Goto(c, "run")
    /\ UNCHANGED <<id, thread, ifs, todo, routes, down, up, ctrl>>

\* reenvio/ ends if the table names an interface that does not exist.
HwDoneStatic(c) ==
    /\ pc[c] = "hw" /\ todo[c] = <<>>
    /\ IsStatic(c)
    /\ IF Verified(c)
       THEN Goto(c, "run") /\ UNCHANGED <<thread, ifs, todo, routes, down>>
       ELSE Ends(c, "over")
    /\ UNCHANGED <<id, up, ctrl>>

\* VNSPACKET on an interface of the list: for the ARP and IP handlers, or
\* dropped as an ARP request for another router.
HandleFrame(c) ==
    /\ pc[c] = "run" /\ Next1(down[c], "PACKET")
    /\ Knows(c, Head(down[c]).intf)
    /\ Read(c)
    /\ UNCHANGED <<id, pc, thread, ifs, todo, routes, up, ctrl>>

\* sr_arp_req_not_for_us: assert(iface) fails (it is not reached by a frame
\* shorter than an ARP packet; ARP, ICMP and OSPF frames are not).
FrameAborts(c) ==
    /\ pc[c] = "run" /\ Next1(down[c], "PACKET")
    /\ ~Knows(c, Head(down[c]).intf)
    /\ Ends(c, "aborted")
    /\ UNCHANGED <<id, up, ctrl>>

\* sr_send_packet: an answer of the reading thread, or any other thread.
SendFrame(c, i) ==
    /\ pc[c] = "run" \/ (pc[c] = "hw" /\ tpc[c] = "run")
    /\ Knows(c, i)
    /\ Len(up[c]) < MaxFrames
    /\ Write(c, PacketOut)
    /\ UNCHANGED <<id, pc, thread, ifs, todo, routes, down, ctrl>>

\* The process is killed.
Kill(c) ==
    /\ Alive(c)
    /\ Ends(c, "over")
    /\ UNCHANGED <<id, up, ctrl>>

-----------------------------------------------------------------------------
(* The thread that starts PWOSPF: pwospf_run_thread.                       *)

\* sleep(5) is over.
Wake(c) ==
    /\ tpc[c] = "sleep"
    /\ tpc' = [tpc EXCEPT ![c] = "scan"]
    /\ early' = [early EXCEPT ![c] = ~Complete(c)]
    /\ UNCHANGED <<id, pc, pos, rid, ifs, todo, routes, down, up, ctrl>>

\* Fault: the last address instead of the highest.
FaultHigher(x, y) == IF y # 0 THEN y ELSE x

Higher(x, y) == IF y > x THEN y ELSE x

\* Fault: the walk skips the entry behind the one it has looked at.
FaultScan(c) ==
    /\ tpc[c] = "scan" /\ pos[c] <= Len(ifs[c])
    /\ rid' = [rid EXCEPT ![c] = Higher(@, ifs[c][pos[c]].ip)]
    /\ pos' = [pos EXCEPT ![c] = @ + 2]
    /\ UNCHANGED <<id, pc, tpc, early, ifs, todo, routes, down, up, ctrl>>

\* One interface is compared with the id found so far.
Scan(c) ==
    /\ tpc[c] = "scan" /\ pos[c] <= Len(ifs[c])
    /\ rid' = [rid EXCEPT ![c] = Higher(@, ifs[c][pos[c]].ip)]
    /\ pos' = [pos EXCEPT ![c] = @ + 1]
    /\ UNCHANGED <<id, pc, tpc, early, ifs, todo, routes, down, up, ctrl>>

\* The end of the list: again while there is no id, else to the routes.
ScanEnd(c) ==
    /\ tpc[c] = "scan" /\ pos[c] > Len(ifs[c])
    /\ tpc' = [tpc EXCEPT ![c] = IF rid[c] = 0 THEN "scan" ELSE "routes"]
    /\ pos' = [pos EXCEPT ![c] = 1]
    /\ UNCHANGED <<id, pc, rid, early, ifs, todo, routes, down, up, ctrl>>

\* The network of an interface is added unless it is in the table; without
\* its address or its mask some other network is.
AddDirect(c) ==
    /\ tpc[c] = "routes" /\ pos[c] <= Len(ifs[c])
    /\ LET f == ifs[c][pos[c]] IN
       routes' = [routes EXCEPT ![c] = IF f.ip = f.name /\ f.mask
                                       THEN @ \cup {f.name} ELSE @]
    /\ pos' = [pos EXCEPT ![c] = @ + 1]
    /\ UNCHANGED <<id, pc, tpc, rid, early, ifs, todo, down, up, ctrl>>

\* The HELLO, LSU and ageing threads are created.
StartThreads(c) ==
    /\ tpc[c] = "routes" /\ pos[c] > Len(ifs[c])
    /\ tpc' = [tpc EXCEPT ![c] = "run"]
    /\ pos' = [pos EXCEPT ![c] = 1]
    /\ UNCHANGED <<id, pc, rid, early, ifs, todo, routes, down, up, ctrl>>

-----------------------------------------------------------------------------
(* The controller.                                                         *)

ReactorFree == \A c \in Conns : srv[c] # "opening"

Tell(c, m) == down' = IF Alive(c) THEN [down EXCEPT ![c] = Append(@, m)] ELSE down
Take(c)    == up' = [up EXCEPT ![c] = Tail(@)]
Srv(c, l)  == srv' = [srv EXCEPT ![c] = l]

rest == <<id, pc, thread, ifs, todo, routes>>

\* _handle_new_client.
NewClient(c) ==
    /\ srv[c] = "accepting" /\ ReactorFree
    /\ Srv(c, "open")
    /\ Tell(c, AuthRequest)
    /\ UNCHANGED <<rest, up, clients, interfaces, overtaken>>

\* _handle_auth_reply: always authenticated.
HandleAuthReply(c) ==
    /\ srv[c] = "open" /\ ReactorFree /\ Next1(up[c], "AUTH_REPLY")
    /\ Take(c)
    /\ Tell(c, AuthStatus)
    /\ UNCHANGED <<rest, srv, clients, interfaces, overtaken>>

\* _handle_open_msg registers the client; the POX thread may run before the
\* hardware message is sent.
HandleOpen(c) ==
    /\ srv[c] = "open" /\ ReactorFree /\ Next1(up[c], "OPEN")
    /\ Take(c)
    /\ clients' = [clients EXCEPT ![host[c]] = c]
    /\ Srv(c, "opening")
    /\ UNCHANGED <<rest, down, interfaces, overtaken>>

\* Fault: the client is told about one interface only.
FaultSendHardware(c) ==
    /\ srv[c] = "opening"
    /\ IF interfaces[host[c]] = <<>>
       THEN Srv(c, "closed") /\ up' = [up EXCEPT ![c] = <<>>] /\ UNCHANGED down
       ELSE /\ Srv(c, "open") /\ UNCHANGED up
            /\ Tell(c, HardwareInfo(<<interfaces[host[c]][1]>>))
    /\ UNCHANGED <<rest, clients, interfaces, overtaken>>

\* The rest of _handle_open_msg: without interfaces the print in front of the
\* try raises KeyError, and Twisted closes the connection.
SendHardware(c) ==
    /\ srv[c] = "opening"
    /\ IF interfaces[host[c]] = <<>>
       THEN Srv(c, "closed") /\ up' = [up EXCEPT ![c] = <<>>] /\ UNCHANGED down
       ELSE /\ Srv(c, "open") /\ UNCHANGED up
            /\ Tell(c, HardwareInfo(interfaces[host[c]]))
    /\ UNCHANGED <<rest, clients, interfaces, overtaken>>

\* _handle_open_template_msg is declared without self: TypeError.
HandleOpenTemplate(c) ==
    /\ srv[c] = "open" /\ ReactorFree /\ Next1(up[c], "OPEN_TEMPLATE")
    /\ Srv(c, "closed")
    /\ up' = [up EXCEPT ![c] = <<>>]
    /\ UNCHANGED <<rest, down, clients, interfaces, overtaken>>

\* _handle_packet_msg: the frame leaves by a port of the switch.
HandlePacket(c) ==
    /\ srv[c] = "open" /\ ReactorFree /\ Next1(up[c], "PACKET")
    /\ Take(c)
    /\ UNCHANGED <<rest, down, ctrl>>

\* _handle_client_disconnected: srclients keeps the connection.
Disconnected(c) ==
    /\ srv[c] = "open" /\ ReactorFree /\ ~Alive(c) /\ up[c] = <<>>
    /\ Srv(c, "closed")
    /\ UNCHANGED <<rest, down, up, clients, interfaces, overtaken>>

\* A switch connects: OFHandler, then _handle_RouterInfo.
RouterInfo(v) ==
    /\ interfaces[v] = <<>>
    /\ \E s \in Orders : interfaces' = [interfaces EXCEPT ![v] = s]
    /\ UNCHANGED <<rest, srv, down, up, clients, overtaken>>

\* _handle_SRPacketIn: a frame for the client registered last, if any.
PacketIn(v, i) ==
    /\ interfaces[v] # <<>> /\ clients[v] # NoConn
    /\ LET c == clients[v] IN
        /\ srv[c] \in {"open", "opening"} /\ Len(down[c]) < MaxFrames
        /\ Tell(c, Packet(i))
        /\ overtaken' = IF srv[c] = "opening" THEN overtaken \cup {c} ELSE overtaken
    /\ UNCHANGED <<rest, srv, up, clients, interfaces>>

-----------------------------------------------------------------------------
Init ==
    /\ host = [c \in Conns |-> NoHost] /\ prog = [c \in Conns |-> "enrutamiento"]
    /\ pc = [c \in Conns |-> "unused"]
    /\ tpc = [c \in Conns |-> "off"] /\ pos = [c \in Conns |-> 1]
    /\ ifs = [c \in Conns |-> <<>>] /\ todo = [c \in Conns |-> <<>>]
    /\ rid = [c \in Conns |-> 0] /\ routes = [c \in Conns |-> {}]
    /\ srv = [c \in Conns |-> "none"]
    /\ down = [c \in Conns |-> <<>>] /\ up = [c \in Conns |-> <<>>]
    /\ clients = [v \in Vhosts |-> NoConn]
    /\ interfaces = [v \in Vhosts |-> <<>>]
    /\ early = [c \in Conns |-> FALSE] /\ overtaken = {}

Main(c) ==
    \/ Authenticate(c) \/ NoCredentials(c) \/ OpenSession(c) \/ OpenByTemplate(c)
    \/ HwInfo(c) \/ HwEntry(c) \/ HwDone(c) \/ HwDoneStatic(c)
    \/ HandleFrame(c) \/ FrameAborts(c)

RunThread(c) ==
    Wake(c) \/ Scan(c) \/ ScanEnd(c) \/ AddDirect(c) \/ StartThreads(c)

Reactor(c) ==
    \/ NewClient(c) \/ HandleAuthReply(c) \/ HandleOpen(c) \/ SendHardware(c)
    \/ HandleOpenTemplate(c) \/ HandlePacket(c) \/ Disconnected(c)

Next ==
    \/ \E c \in Conns :
        \/ Main(c) \/ RunThread(c) \/ Reactor(c) \/ Kill(c)
        \/ \E v \in Vhosts, p \in Programs : Start(c, v, p)
        \/ \E i \in Ifs : SendFrame(c, i)
    \/ \E v \in Vhosts : RouterInfo(v) \/ \E i \in Ifs : PacketIn(v, i)

Spec == Init /\ [][Next]_vars

\* The threads of a process run, and the reactor serves every connection.
\* Nobody need start or kill a process, connect a switch or send a frame.
Fairness ==
    \A c \in Conns : WF_vars(Main(c)) /\ WF_vars(RunThread(c)) /\ WF_vars(Reactor(c))

FairSpec == Spec /\ Fairness

-----------------------------------------------------------------------------
(* Properties.                                                             *)

Records == [name : Ifs, ip : 0 .. NIfs + 1, mask : BOOLEAN]

\* Types: the walk of the PWOSPF thread never leaves the interface list, an
\* interface is listed once, and a message is only under way to a process
\* that runs.
TypeOK ==
    /\ host \in [Conns -> Vhosts \cup {NoHost}] /\ prog \in [Conns -> Programs]
    /\ pc \in [Conns -> {"unused", "auth", "status", "rtable", "run", "hw",
                         "over", "aborted"}]
    /\ tpc \in [Conns -> {"off", "sleep", "scan", "routes", "run"}]
    /\ rid \in [Conns -> 0 .. NIfs + 1]
    /\ srv \in [Conns -> {"none", "accepting", "open", "opening", "closed"}]
    /\ clients \in [Vhosts -> Conns \cup {NoConn}]
    /\ interfaces \in [Vhosts -> Orders \cup {<<>>}]
    /\ early \in [Conns -> BOOLEAN] /\ overtaken \subseteq Conns
    /\ \A c \in Conns :
        /\ \A k \in 1 .. Len(ifs[c]) : ifs[c][k] \in Records
        /\ Len(ifs[c]) <= NIfs
        /\ pos[c] \in 1 .. Len(ifs[c]) + 1
        /\ down[c] # <<>> => Alive(c)

\* "Se puede asumir que las interfaces han sido creadas e inicializadas en
\* este punto" (sr_pwospf.c:59): nothing waits for it but sleep(5).  Where the
\* whole hardware message was handled before the thread woke, in whatever
\* order it listed the interfaces and whatever frames, restarts and sessions
\* of other routers there were, HELLOs and LSUs start with the highest
\* address as router id and with every connected network in the table.
SettledId ==
    \A c \in Conns : tpc[c] = "run" /\ ~early[c] => rid[c] = NIfs /\ Ifs \subseteq routes[c]

\* The assertion of sr_arp_req_not_for_us (sr_vns_comm.c:657) can fail in one
\* way only: the POX thread sent a frame after the reactor had registered the
\* client and before it sent the hardware message.  Every other frame is on
\* an interface the router knows by then, also after a restart, when frames
\* still come for the old connection.
AbortOnlyOvertaken == \A c \in Conns : pc[c] = "aborted" => c \in overtaken

\* The static router that has got past the hardware message forwards only
\* to interfaces that exist (sr_verify_routing_table).
StaticRoutesKnown ==
    \A c \in Conns :
        pc[c] = "run" /\ IsStatic(c) /\ Complete(c)
            => routes[c] \subseteq Names(ifs[c])

\* " <-- Ready to process packets --> ", and the threads of PWOSPF run.
Ready(c) ==
    /\ pc[c] \in {"run", "hw"} /\ Complete(c)
    /\ IsStatic(c) \/ tpc[c] = "run"

\* A router that connects when the controller knows its interfaces becomes
\* ready, unless it ends first or waits for the table of a template; neither
\* a stream of frames nor what an earlier process of the host left behind
\* prevents it.  One that connects before the switch may never be answered.
GetsReady ==
    \A c \in Conns :
        (pc[c] = "auth" /\ interfaces[host[c]] # <<>>)
            ~> (Ready(c) \/ ~Alive(c) \/ pc[c] = "rtable")

-----------------------------------------------------------------------------
(* Why the safety properties hold: the inductive invariant.                *)

Entry == [key : {"INTERFACE", "ETHIP", "MASK"}, intf : Ifs]
ToRouter ==
    {AuthRequest, AuthStatus} \cup {HardwareInfo(s) : s \in Orders}
        \cup {Packet(i) : i \in Ifs}
FromRouter == {AuthReply, Open, OpenTemplate, PacketOut}

Shapes ==
    /\ ifs \in [Conns -> Seq(Records)] /\ todo \in [Conns -> Seq(Entry)]
    /\ pos \in [Conns -> Nat \ {0}] /\ routes \in [Conns -> SUBSET Nat]
    /\ down \in [Conns -> Seq(ToRouter)] /\ up \in [Conns -> Seq(FromRouter)]

\* The opening of the session, or the hardware message, is under way.
Asked(c) == \E k \in 1 .. Len(up[c]) : up[c][k].type = "OPEN"
Told(c)  == \E k \in 1 .. Len(down[c]) : down[c][k].type = "HWINFO"
\* The process has the hardware message or will have it before what comes next.
Served(c) == Told(c) \/ pc[c] = "hw" \/ Complete(c)
Blank(c) == ifs[c] = <<>> /\ todo[c] = <<>>

\* A process that has not opened its session, or has ended, has nothing.
Outside(c) ==
    /\ pc[c] \notin {"run", "hw"} => tpc[c] = "off" /\ Blank(c) /\ ~Told(c)
    /\ tpc[c] \in {"off", "sleep"} => pos[c] = 1 /\ rid[c] = 0
    /\ tpc[c] # "off" => ~IsStatic(c)
    /\ pc[c] = "unused" => srv[c] = "none" /\ up[c] = <<>>
    /\ pc[c] # "unused" => host[c] \in Vhosts

OneOpen(c) ==
    \A j, k \in 1 .. Len(up[c]) :
        up[c][j].type = "OPEN" /\ up[c][k].type = "OPEN" => j = k
OneHardware(c) ==
    \A j, k \in 1 .. Len(down[c]) :
        down[c][j].type = "HWINFO" /\ down[c][k].type = "HWINFO" => j = k

\* The session is opened once and answered by one hardware message.
Once(c) ==
    /\ OneOpen(c) /\ OneHardware(c)
    /\ Asked(c) \/ srv[c] = "opening" =>
        pc[c] \in {"run", "over", "aborted"} /\ Blank(c) /\ ~Told(c)
    /\ Asked(c) => srv[c] # "opening"
    /\ \A v \in Vhosts : clients[v] = c =>
        /\ ~Asked(c) /\ pc[c] \in {"run", "hw", "over", "aborted"} /\ srv[c] # "accepting"
        /\ srv[c] = "open" /\ Alive(c) => Served(c)
    /\ Told(c) => pc[c] = "run" /\ Blank(c)

\* The first 3 * m + r entries of the message about s are handled.
Handled(c, s, m, r) ==
    /\ 3 * m + r + Len(todo[c]) = 3 * NIfs
    /\ \A k \in 1 .. Len(todo[c]) : todo[c][k] = HwEntries(s)[3 * m + r + k]
    /\ Len(ifs[c]) = IF r = 0 THEN m ELSE m + 1
    /\ \A k \in 1 .. Len(ifs[c]) : ifs[c][k].name = s[k]
    /\ \A k \in 1 .. m : ifs[c][k].ip = s[k] /\ (ifs[c][k].mask \/ IsStatic(c))
    /\ r = 2 => ifs[c][m + 1].ip = s[m + 1]

Hardware(c) ==
    \/ Blank(c) /\ pc[c] # "hw"
    \/ /\ pc[c] \in {"run", "hw"}
       /\ \E s \in Orders, m \in 0 .. NIfs, r \in 0 .. 2 : Handled(c, s, m, r)
       /\ pc[c] = "run" => todo[c] = <<>>

\* A frame that was not sent too soon is behind the hardware message.
FramesBehind(c) ==
    \A k \in 1 .. Len(down[c]) : down[c][k].type = "PACKET" =>
        \/ c \in overtaken \/ pc[c] = "hw" \/ Complete(c)
        \/ \E j \in 1 .. k - 1 : down[c][j].type = "HWINFO"

\* How far the PWOSPF thread is, where it woke late enough.
Settling(c) ==
    tpc[c] \in {"scan", "routes", "run"} /\ ~early[c] =>
        /\ Complete(c)
        /\ tpc[c] = "scan" => \A k \in 1 .. pos[c] - 1 : ifs[c][k].ip <= rid[c]
        /\ rid[c] <= NIfs
        /\ tpc[c] # "scan" => rid[c] = NIfs
        /\ tpc[c] = "routes" => \A k \in 1 .. pos[c] - 1 : ifs[c][k].name \in routes[c]
        /\ tpc[c] = "run" => Ifs \subseteq routes[c]

ConnInv(c) ==
    /\ Outside(c) /\ Once(c) /\ Hardware(c) /\ FramesBehind(c) /\ Settling(c)
    /\ pc[c] = "aborted" => c \in overtaken
    /\ pc[c] = "run" /\ IsStatic(c) /\ Complete(c) => routes[c] \subseteq Names(ifs[c])

IInv == TypeOK /\ Shapes /\ \A c \in Conns : ConnInv(c)
=============================================================================
