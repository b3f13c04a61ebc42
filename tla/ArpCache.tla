------------------------------ MODULE ArpCache ------------------------------
(***************************************************************************)
(* The ARP cache of one router and the threads that use it                 *)
(* (sr_arpcache.c, sr_arp.c and the ARP half of sr_router.c).              *)
(*                                                                         *)
(* The cache has a table of IP -> MAC entries and a linked list of         *)
(* outstanding requests, each with the packets that wait for the answer.   *)
(* One recursive mutex protects both.  The timeout thread holds it for a   *)
(* whole sweep, which is many steps here; every other critical section is  *)
(* one step that needs the mutex free.  What a thread does between two     *)
(* critical sections is a step of its own.                                 *)
(*                                                                         *)
(* Abstractions: a list is a set (a sweep may visit it in any order); a    *)
(* MAC address is left out (an entry records which address it resolves);   *)
(* time stamps are ages in whole seconds, which is all difftime compares;  *)
(* a heap block is a cell of Rids, reused once it has been freed.          *)
(***************************************************************************)
EXTENDS Integers

CONSTANTS
    Data,       \* packets the router originates or forwards
    Hosts,      \* next hops that may answer ARP
    SelfIP,     \* the router's own address (nobody answers ARP for it)
    BackHop,    \* BackHop[d]: next hop of an ICMP error about packet d
    Askers,     \* hosts that send the router ARP requests
    Threads,    \* threads that send packets
    Main,       \* the one that also receives ARP packets
    Rids,       \* heap cells for struct sr_arpreq (bound of the model)
    SZ,         \* SR_ARPCACHE_SZ
    TO,         \* SR_ARPCACHE_TO, in seconds
    MaxSent,    \* requests sent before giving up (5)
    NoIP,       \* the address of a slot or a cell not in use
    NoRid       \* the null struct sr_arpreq pointer

ASSUME HopsAssumption ==
    /\ SelfIP \notin Hosts
    /\ BackHop \in [Data -> Hosts \cup {SelfIP}]
    /\ Askers \subseteq Hosts
ASSUME NullsAssumption == NoIP \notin Hosts \cup {SelfIP} /\ NoRid \notin Rids
ASSUME ThreadsAssumption == Main \in Threads
ASSUME SizesAssumption == SZ \in Nat /\ TO \in Nat /\ MaxSent \in Nat

Hops  == Hosts \cup {SelfIP}
Slots == 0 .. SZ - 1

\* difftime(now, sent) > 1.0 over whole seconds: resent every two seconds.
ResendAge == 2

\* <<d, 0>> is a packet of Data, <<d, k + 1>> an ICMP error about <<d, k>>.
Packets  == Data \X (0 .. 3)

\* Fault: host_unreachable queues the packet itself.
FaultErrorOf(p) == p

ErrorOf(p) == <<p[1], p[2] + 1>>

\* An error goes to the source of the packet it is about; the source of an
\* ICMP error is the router itself.

ErrorHop(p) == IF p[2] = 0 THEN BackHop[p[1]] ELSE SelfIP

Idle  == [pkt |-> <<>>, hop |-> NoIP]

Empty  == [ip |-> NoIP, age |-> 0]
Fresh(ip) == [ip |-> ip, age |-> 0]

\* calloc, then the address: never sent, so as good as sent long ago.
NewReq(ip) == [ip |-> ip, since |-> ResendAge, times |-> 0, pkts |-> {}]

VARIABLES
    entries,    \* struct sr_arpentry entries[SR_ARPCACHE_SZ]
    heap,       \* the contents of every struct sr_arpreq
    alive,      \* cells allocated and not freed
    queue,      \* cells linked from cache->requests
    pc, job,    \* each sending thread: where it is, and with which packet
    held,       \* the request the ARP reply handler took from the queue
    tpc,        \* timeout thread; it holds the mutex unless "sleep"
    woken,      \* a second has passed since the timeout thread slept
    todo,       \* requests this sweep still has to visit
    cur,        \* the request host_unreachable works on
    unreported, \* packets of cur no ICMP error has been sent for
    fate        \* history: how the last use of a data packet ended

timer == <<tpc, woken, todo, cur, unreported>>
store == <<entries, heap, alive, queue>>
vars  == <<entries, heap, alive, queue, pc, job, held,
           tpc, woken, todo, cur, unreported, fate>>

LockFree == tpc = "sleep"

InGap(p)   == \E t \in Threads : pc[t] = "miss" /\ job[t].pkt = p
InCell(p)  == \E r \in alive : p \in heap[r].pkts
Pending(p) == InGap(p) \/ InCell(p)
InUse(d)   == \E k \in 0 .. 3 : Pending(<<d, k>>)

-----------------------------------------------------------------------------
(* The operations of the cache, each under the mutex.                      *)

\* sr_arpcache_lookup finds a valid entry for ip.
Hit(ip) == \E s \in Slots : entries[s].ip = ip

\* Fault: the queue is not searched first.
FaultQueueReq(ip, p) ==
    \E r \in Rids \ alive :
        /\ heap' = [heap EXCEPT ![r] = [NewReq(ip) EXCEPT !.pkts = {p}]]
        /\ alive' = alive \cup {r}
        /\ queue' = queue \cup {r}

\* sr_arpcache_queuereq: find the request for ip or link a new one in front.
QueueReq(ip, p) ==
    \/ \E r \in queue :
        /\ heap[r].ip = ip
        /\ heap' = [heap EXCEPT ![r].pkts = @ \cup {p}]
        /\ UNCHANGED <<alive, queue>>
    \/ /\ \A r \in queue : heap[r].ip # ip
       /\ \E r \in Rids \ alive :
            /\ heap' = [heap EXCEPT ![r] = [NewReq(ip) EXCEPT !.pkts = {p}]]
            /\ alive' = alive \cup {r}
            /\ queue' = queue \cup {r}

\* Fault: a known mapping is renewed.
FaultStoreMapping(ip) ==
    entries' = [s \in Slots |-> IF entries[s].ip \in {ip, NoIP} THEN Fresh(ip)
                                                             ELSE entries[s]]

\* The table half of sr_arpcache_insert: the first invalid slot, if any.
StoreMapping(ip) ==
    \/ \E s \in Slots :
        /\ entries[s] = Empty
        /\ \A u \in Slots : u < s => entries[u] # Empty
        /\ entries' = [entries EXCEPT ![s] = Fresh(ip)]
    \/ /\ \A s \in Slots : entries[s] # Empty
       /\ UNCHANGED entries

\* Fault: the first request of the queue is taken, whatever it is for.
FaultUnlinked(ip) ==
    IF queue # {} THEN CHOOSE r \in queue : TRUE ELSE NoRid

\* The queue half: unlink the request for ip; its cell, or NoRid.
Unlinked(ip) ==
    IF \E r \in queue : heap[r].ip = ip
    THEN CHOOSE r \in queue : heap[r].ip = ip
    ELSE NoRid

\* sr_arpreq_destroy: unlink if linked, free its packets and itself.
Destroy(r) ==
    /\ queue' = queue \ {r}
    /\ alive' = alive \ {r}
    /\ heap' = [heap EXCEPT ![r].pkts = {}]

-----------------------------------------------------------------------------
(* Sending threads: sr_handle_arp_lookup.                                  *)

Goto(t, l) == pc' = [pc EXCEPT ![t] = l]

\* Lookup finds the address: the packet is sent.
LookupHit(t, d, ip) ==
    /\ pc[t] = "idle" /\ LockFree /\ ~InUse(d)
    /\ Hit(ip)
    /\ fate' = [fate EXCEPT ![d] = "sent"]
    /\ UNCHANGED <<store, timer, pc, job, held>>

\* Lookup fails; the mutex is released before the packet is queued.
LookupMiss(t, d, ip) ==
    /\ pc[t] = "idle" /\ LockFree /\ ~InUse(d)
    /\ ~Hit(ip)
    /\ Goto(t, "miss")
    /\ job' = [job EXCEPT ![t] = [pkt |-> <<d, 0>>, hop |-> ip]]
    /\ fate' = [fate EXCEPT ![d] = "pending"]
    /\ UNCHANGED <<store, timer, held>>

Enqueue(t) ==
    /\ pc[t] = "miss" /\ LockFree
    /\ QueueReq(job[t].hop, job[t].pkt)
    /\ Goto(t, "idle")
    /\ job' = [job EXCEPT ![t] = Idle]
    /\ UNCHANGED <<entries, timer, held, fate>>

-----------------------------------------------------------------------------
(* The receiving thread: sr_handle_arp_packet.                             *)

\* An ARP request for one of our interfaces: the sender is cached and
\* answered; the request that insert unlinks for it is discarded.
ArpRequest(ip) ==
    /\ pc[Main] = "idle" /\ LockFree
    /\ StoreMapping(ip)
    /\ queue' = queue \ {Unlinked(ip)}
    /\ UNCHANGED <<heap, alive, timer, pc, job, held, fate>>

\* Fault: insert does not take the mutex.
FaultUnlockedReply(ip) ==
    /\ pc[Main] = "idle"
    /\ StoreMapping(ip)
    /\ queue' = queue \ {Unlinked(ip)}
    /\ held' = Unlinked(ip)
    /\ IF held' = NoRid THEN UNCHANGED pc ELSE Goto(Main, "reply")
    /\ UNCHANGED <<heap, alive, timer, job, fate>>

\* Fault: the reply handler ignores what insert returns.
FaultDiscardingReply(ip) ==
    /\ pc[Main] = "idle" /\ LockFree
    /\ StoreMapping(ip)
    /\ queue' = queue \ {Unlinked(ip)}
    /\ UNCHANGED <<heap, alive, timer, pc, job, held, fate>>

\* An ARP reply: cached, and the waiting request taken off the queue.
ArpReply(ip) ==
    /\ pc[Main] = "idle" /\ LockFree
    /\ StoreMapping(ip)
    /\ queue' = queue \ {Unlinked(ip)}
    /\ held' = Unlinked(ip)
    /\ IF held' = NoRid THEN UNCHANGED pc ELSE Goto(Main, "reply")
    /\ UNCHANGED <<heap, alive, timer, job, fate>>

\* sr_arp_reply_send_pending_packets, without the mutex.
SendPending ==
    /\ pc[Main] = "reply"
    /\ Goto(Main, "free")
    /\ fate' = [d \in Data |-> IF <<d, 0>> \in heap[held].pkts
                               THEN "sent" ELSE fate[d]]
    /\ UNCHANGED <<store, timer, job, held>>

\* Fault: the request is not destroyed after its packets are sent.
FaultDestroyHeld ==
    /\ pc[Main] = "free" /\ LockFree
    /\ held' = NoRid
    /\ Goto(Main, "idle")
    /\ UNCHANGED <<store, timer, job, fate>>

DestroyHeld ==
    /\ pc[Main] = "free" /\ LockFree
    /\ Destroy(held)
    /\ held' = NoRid
    /\ Goto(Main, "idle")
    /\ UNCHANGED <<entries, timer, job, fate>>

-----------------------------------------------------------------------------
(* The timeout thread: sr_arpcache_timeout.                                *)

\* sleep(1.0) is over: take the mutex, invalidate old entries, start a sweep.
Wake ==
    /\ tpc = "sleep" /\ woken
    /\ tpc' = "sweep"
    /\ entries' = [s \in Slots |-> IF entries[s].age > TO THEN Empty
                                                          ELSE entries[s]]
    /\ todo' = queue
    /\ UNCHANGED <<heap, alive, queue, pc, job, held, woken, cur,
                   unreported, fate>>

\* handle_arpreq: asked less than two seconds ago.
TooSoon(r) ==
    /\ tpc = "sweep" /\ r \in todo
    /\ heap[r].since < ResendAge
    /\ todo' = todo \ {r}
    /\ UNCHANGED <<store, pc, job, held, tpc, woken, cur, unreported, fate>>

\* Fault: times_sent is not counted.
FaultSendRequest(r) ==
    /\ tpc = "sweep" /\ r \in todo
    /\ heap[r].since >= ResendAge /\ heap[r].times < MaxSent
    /\ heap' = [heap EXCEPT ![r].since = 0]
    /\ todo' = todo \ {r}
    /\ UNCHANGED <<entries, alive, queue, pc, job, held, tpc, woken, cur,
                   unreported, fate>>

\* Fault: asks once more than MaxSent times.
FaultOneMoreRequest(r) ==
    /\ tpc = "sweep" /\ r \in todo
    /\ heap[r].since >= ResendAge /\ heap[r].times <= MaxSent
    /\ heap' = [heap EXCEPT ![r].since = 0, ![r].times = @ + 1]
    /\ todo' = todo \ {r}
    /\ UNCHANGED <<entries, alive, queue, pc, job, held, tpc, woken, cur,
                   unreported, fate>>

\* handle_arpreq: ask (again).
SendRequest(r) ==
    /\ tpc = "sweep" /\ r \in todo
    /\ heap[r].since >= ResendAge /\ heap[r].times < MaxSent
    /\ heap' = [heap EXCEPT ![r].since = 0, ![r].times = @ + 1]
    /\ todo' = todo \ {r}
    /\ UNCHANGED <<entries, alive, queue, pc, job, held, tpc, woken, cur,
                   unreported, fate>>

\* Fault: gives up one request too early.
FaultEarlyGiveUp(r) ==
    /\ tpc = "sweep" /\ r \in todo
    /\ heap[r].since >= ResendAge /\ heap[r].times >= MaxSent - 1
    /\ todo' = todo \ {r}
    /\ cur' = r
    /\ unreported' = heap[r].pkts
    /\ tpc' = "report"
    /\ UNCHANGED <<store, pc, job, held, woken, fate>>

\* Fault: host_unreachable is not called.
FaultSilentGiveUp(r) ==
    /\ tpc = "sweep" /\ r \in todo
    /\ heap[r].since >= ResendAge /\ heap[r].times >= MaxSent
    /\ todo' = todo \ {r}
    /\ cur' = r
    /\ unreported' = {}
    /\ tpc' = "report"
    /\ UNCHANGED <<store, pc, job, held, woken, fate>>

\* handle_arpreq: five requests were sent; host_unreachable starts.
GiveUp(r) ==
    /\ tpc = "sweep" /\ r \in todo
    /\ heap[r].since >= ResendAge /\ heap[r].times >= MaxSent
    /\ todo' = todo \ {r}
    /\ cur' = r
    /\ unreported' = heap[r].pkts
    /\ tpc' = "report"
    /\ UNCHANGED <<store, pc, job, held, woken, fate>>

\* Fault: packets are appended, so the loop meets the errors it queues.
FaultReport(p) ==
    /\ tpc = "report" /\ p \in unreported
    /\ unreported' = (unreported \ {p}) \cup
                     (IF heap[cur].ip = ErrorHop(p) THEN {ErrorOf(p)} ELSE {})
    /\ fate' = IF p[2] = 0 THEN [fate EXCEPT ![p[1]] = "reported"] ELSE fate
    /\ IF Hit(ErrorHop(p)) THEN UNCHANGED <<heap, alive, queue>>
                           ELSE QueueReq(ErrorHop(p), ErrorOf(p))
    /\ UNCHANGED <<entries, pc, job, held, tpc, woken, todo, cur>>

\* The error about p joins the packets that are about to be freed, so that
\* nobody ever sends it.
Muted(p) == ~Hit(ErrorHop(p)) /\ ErrorHop(p) = heap[cur].ip

\* One turn of host_unreachable's loop.  The ICMP error is sent if its next
\* hop is cached and queued otherwise: perhaps on the very request that is
\* about to be freed, in front of the packets still to visit.
Report(p) ==
    /\ tpc = "report" /\ p \in unreported
    /\ unreported' = unreported \ {p}
    /\ fate' = IF p[2] = 0
               THEN [fate EXCEPT ![p[1]] = IF Muted(p) THEN "muted" ELSE "reported"]
               ELSE fate
    /\ IF Hit(ErrorHop(p)) THEN UNCHANGED <<heap, alive, queue>>
                           ELSE QueueReq(ErrorHop(p), ErrorOf(p))
    /\ UNCHANGED <<entries, pc, job, held, tpc, woken, todo, cur>>

DestroyCur ==
    /\ tpc = "report" /\ unreported = {}
    /\ Destroy(cur)
    /\ cur' = NoRid
    /\ tpc' = "sweep"
    /\ UNCHANGED <<entries, pc, job, held, woken, todo, unreported, fate>>

\* The sweep is over: release the mutex and sleep.
SweepEnd ==
    /\ tpc = "sweep" /\ todo = {}
    /\ tpc' = "sleep"
    /\ woken' = FALSE
    /\ UNCHANGED <<store, pc, job, held, todo, cur, unreported, fate>>

\* Ages beyond what the code compares them with are equal.
Older(n, cap) == IF n < cap THEN n + 1 ELSE n

\* A second passes.
Tick ==
    /\ woken' = TRUE
    /\ entries' = [s \in Slots |->
                    IF entries[s] = Empty THEN Empty
                    ELSE [entries[s] EXCEPT !.age = Older(@, TO + 1)]]
    /\ heap' = [r \in Rids |-> [heap[r] EXCEPT !.since = Older(@, ResendAge)]]
    /\ UNCHANGED <<alive, queue, pc, job, held, tpc, todo, cur, unreported, fate>>

-----------------------------------------------------------------------------
Init ==
    /\ entries = [s \in Slots |-> Empty]
    /\ heap = [r \in Rids |-> NewReq(NoIP)]
    /\ alive = {} /\ queue = {}
    /\ pc = [t \in Threads |-> "idle"] /\ job = [t \in Threads |-> Idle]
    /\ held = NoRid
    /\ tpc = "sleep" /\ woken = FALSE
    /\ todo = {} /\ cur = NoRid /\ unreported = {}
    /\ fate = [d \in Data |-> "none"]

Sweep ==
    \/ \E r \in todo : TooSoon(r) \/ SendRequest(r) \/ GiveUp(r)
    \/ \E p \in unreported : Report(p)
    \/ DestroyCur \/ SweepEnd

Send(t) == \E d \in Data, ip \in Hops : LookupHit(t, d, ip) \/ LookupMiss(t, d, ip)

Next ==
    \/ \E t \in Threads : Send(t) \/ Enqueue(t)
    \/ \E ip \in Askers : ArpRequest(ip)
    \/ \E ip \in Hosts : ArpReply(ip)
    \/ SendPending \/ DestroyHeld
    \/ Wake \/ Sweep \/ Tick

Spec == Init /\ [][Next]_vars

\* Threads keep running and the clock keeps ticking.  A thread that waits for
\* the mutex gets it in the end: its only long holder sleeps a second between
\* two sweeps.  Nothing forces a packet to be sent or a host to answer.
Fairness ==
    /\ WF_vars(Wake) /\ WF_vars(Sweep) /\ WF_vars(Tick)
    /\ WF_vars(SendPending) /\ SF_vars(DestroyHeld)
    /\ \A t \in Threads : SF_vars(Enqueue(t))

FairSpec == Spec /\ Fairness

-----------------------------------------------------------------------------
(* Properties.                                                             *)

Request == [ip : Hops \cup {NoIP}, since : 0 .. ResendAge,
            times : 0 .. MaxSent, pkts : SUBSET Packets]

Job == [pkt : Packets, hop : Hops]

\* Every variable has its type; in particular no hop is asked more than MaxSent
\* times for the same request (sr_arpcache.c:85-97).
TypeOK ==
    /\ entries \in [Slots -> [ip : Hops \cup {NoIP}, age : 0 .. TO + 1]]
    /\ heap \in [Rids -> Request]
    /\ alive \subseteq Rids /\ queue \subseteq Rids
    /\ pc \in [Threads -> {"idle", "miss", "reply", "free"}]
    /\ job \in [Threads -> Job \cup {Idle}]
    /\ held \in Rids \cup {NoRid}
    /\ tpc \in {"sleep", "sweep", "report"} /\ woken \in BOOLEAN
    /\ todo \subseteq Rids /\ cur \in Rids \cup {NoRid}
    /\ unreported \subseteq Packets
    /\ fate \in [Data -> {"none", "pending", "sent", "reported", "muted"}]

\* No thread can reach a freed request: the list, what is left of a running
\* sweep (nextReq is read before the request is handled and possibly freed),
\* the request host_unreachable walks and the one the reply handler took are
\* all allocated, and the last two have one owner (sr_arpcache.c:66-112,
\* sr_router.c:275-282).
NoDanglingRequest ==
    /\ queue \subseteq alive
    /\ todo \subseteq queue
    /\ tpc = "report" => cur \in queue /\ cur \notin todo
    /\ pc[Main] \in {"reply", "free"} => held \in alive \ queue

\* One request per next hop: packets for one hop never wait on two requests,
\* although lookup and queuereq are separate critical sections and
\* host_unreachable queues while the sweep runs (sr_arpcache.c:148-187).
OneRequestPerHop ==
    \A r, s \in queue : heap[r].ip = heap[s].ip => r = s

\* A packet is in one place: never on two requests, nor on a request while a
\* thread still carries it, so none is sent twice or freed twice.
OnePlace ==
    \A p \in Packets :
        /\ \A r, s \in alive : p \in heap[r].pkts /\ p \in heap[s].pkts => r = s
        /\ InGap(p) => ~InCell(p)
        /\ \A t, u \in Threads :
            pc[t] = "miss" /\ pc[u] = "miss" /\ job[t].pkt = p /\ job[u].pkt = p
                => t = u

\* host_unreachable calls itself through the queue: an error about a packet,
\* then an error about that error, addressed to the router itself.  It stops
\* there, because the error about the latter joins the request that is being
\* freed (sr_arpcache.c:101-112, sr_router.c:110-127).
CascadeEnds ==
    \A p \in unreported : p[2] <= 2

\* What CascadeEnds and NoDanglingRequest rest on: outside a sweep nothing is
\* left to visit; a thread carries data packets; an error about an error waits
\* for SelfIP, and an error about that one waits on the request being freed.
SweepOver == tpc = "sleep" => todo = {}
MissJobs  == \A t \in Threads : pc[t] = "miss" => job[t] \in Job /\ job[t].pkt[2] = 0
CellLevels ==
    \A r \in alive : \A p \in heap[r].pkts :
        /\ p[2] = 2 => heap[r].ip = SelfIP
        /\ p[2] = 3 => tpc = "report" /\ r = cur
ReportLevels ==
    tpc = "report" => \A p \in unreported : p[2] = 2 => heap[cur].ip = SelfIP

\* The inductive invariant of ArpCacheProofs.
IInv ==
    /\ TypeOK /\ NoDanglingRequest /\ OneRequestPerHop /\ CascadeEnds
    /\ SweepOver /\ MissJobs /\ CellLevels /\ ReportLevels

\* What OnePlace and the two action properties below rest on.  An error about a
\* packet exists beside it only until the packet, already reported, is freed; a
\* packet still to report is the only one of its kind; and the fate of a packet
\* that waits is known from where it is.
Reported(p) == tpc = "report" /\ p \in heap[cur].pkts /\ p \notin unreported
OneLevel ==
    \A p, q \in Packets :
        Pending(p) /\ Pending(q) /\ p[1] = q[1] /\ p[2] < q[2] => Reported(p)
StillToReport ==
    tpc = "report" =>
        /\ unreported \subseteq heap[cur].pkts
        /\ \A p \in unreported, q \in Packets : Pending(q) /\ p[1] = q[1] => p = q
AskedOut == tpc = "report" => heap[cur].times = MaxSent
GivenUp(d) == fate[d] = "reported" \/ (fate[d] = "muted" /\ heap[cur].ip = BackHop[d])
FateKnown ==
    \A d \in Data : Pending(<<d, 0>>) =>
        IF Reported(<<d, 0>>) THEN GivenUp(d)
        ELSE fate[d] = IF pc[Main] = "free" /\ <<d, 0>> \in heap[held].pkts
                       THEN "sent" ELSE "pending"
HopKnown == \A r \in alive : heap[r].ip \in Hops

\* The second inductive invariant of ArpCacheProofs, on top of IInv.
PlacesInv ==
    OnePlace /\ OneLevel /\ StillToReport /\ AskedOut /\ FateKnown /\ HopKnown

\* A data packet that waits is freed only when it has been transmitted, or an
\* ICMP error about it has been sent or queued on a request that stays; or when
\* its source is behind the hop that does not answer, where the error joins the
\* packets about to be freed and is lost (sr_arpcache.c:85-112).
NoSilentDrop ==
    [][\A d \in Data : Pending(<<d, 0>>) /\ ~Pending(<<d, 0>>)' =>
            \/ fate'[d] \in {"sent", "reported"}
            \/ fate'[d] = "muted" /\ heap[cur].ip = BackHop[d]]_vars

\* The cache as its users see it: what is in the table, the hop whose reply is
\* being handled, and for a packet not yet sent or reported the hop it waits
\* for, in a thread or on a request.
KnownHops == {entries[s].ip : s \in Slots} \ {NoIP}
Serving   == IF pc[Main] = "reply" THEN heap[held].ip ELSE NoIP
HopsOf(p) == {job[t].hop : t \in {u \in Threads : pc[u] = "miss" /\ job[u].pkt = p}}
        \cup {heap[r].ip : r \in {q \in alive : p \in heap[q].pkts}}
WaitsFor  ==
    [d \in Data |-> IF fate[d] = "pending" /\ Pending(<<d, 0>>)
                    THEN CHOOSE h \in HopsOf(<<d, 0>>) : TRUE ELSE NoIP]

Abstract == INSTANCE Resolution WITH
    NoHop <- NoIP, known <- KnownHops, serving <- Serving,
    waits <- WaitsFor, outcome <- fate

\* The threads, the mutex taken and released, the two lists and the retries
\* together implement Resolution: every packet waits for its own next hop, is
\* sent only on the answer of that hop, and never just disappears.
Implements == Abstract!Spec

\* A request is given up only after its next hop was asked MaxSent times, so
\* no sender is told "unreachable" about a hop that was never asked.
AskedBeforeReport ==
    [][\A d \in Data : fate'[d] # fate[d] /\ fate'[d] \in {"reported", "muted"}
            => heap[cur].times = MaxSent]_vars

\* A request does not stay in the queue for ever, however many packets keep
\* joining it: it is answered or given up.
RequestsResolved ==
    \A r \in Rids : r \in queue ~> r \notin queue

\* Every packet that missed in the cache is in the end transmitted or given up
\* with an ICMP error, whatever the threads do between lookup and queuereq
\* (sr_arp.c:8-36, sr_arpcache.c:81-112).
PacketsResolved ==
    \A d \in Data : fate[d] = "pending" ~> fate[d] \in {"sent", "reported", "muted"}

\* A request that sr_arpcache_insert took off the queue is destroyed once its
\* packets are sent: "req = arpcache_insert(ip, mac); if req: send all packets
\* on the req->packets linked list; arpreq_destroy(req)" (sr_arpcache.h:28-32).
UnlinkedDestroyed ==
    \A r \in Rids : r \in alive \ queue ~> r \notin alive

\* An entry does not stay for ever: it is invalidated once it is older than
\* TO, and a later ARP packet does not renew it but takes another slot.
EntriesExpire ==
    \A s \in Slots : entries[s] # Empty ~> entries[s] = Empty
=============================================================================
