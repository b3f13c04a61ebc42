------------------------------ MODULE Topology ------------------------------
(***************************************************************************)
(* The topology table of one router (pwospf_topology.c) and the threads    *)
(* that change it: one detached thread for every LSU received              *)
(* (sr_handle_pwospf_lsu_packet) and the ageing thread                     *)
(* (check_topology_entries_age).                                           *)
(*                                                                         *)
(* The other routers run the same program: each numbers its LSUs           *)
(* (send_lsu), announces the networks of its static and direct routes with *)
(* the neighbour it heard last on each, hears another one, and may start   *)
(* again with sequence number 0.  The network delivers any LSU sent so     *)
(* far, in any order, any number of times or never: flooding uses several  *)
(* paths and an ARP request releases its packets last in, first out.       *)
(*                                                                         *)
(* The table has no lock.  refresh_topology_entry looks for an entry in    *)
(* one step and inserts a new one, or writes each field of the one found,  *)
(* in later ones: two threads may both insert, or leave the number of one  *)
(* LSU with the neighbour of another.  A walk over the list and an         *)
(* insertion are one step each, and what a thread writes to an entry that  *)
(* has been removed since goes nowhere: entries lost when two threads      *)
(* insert at the same instant, and freed memory in use again, are not      *)
(* followed.  Masks go with their network, next hops (never read back),    *)
(* checksums and the TTL are left out.                                     *)
(***************************************************************************)
EXTENDS Integers, Sequences, Lists

CONSTANTS
    Routers,    \* the routers that send LSUs, this one included
    Self,       \* this router
    Nets,       \* networks
    Announces,  \* Announces[o]: the networks of o, in routing table order
    Peers,      \* Peers[o][n]: the routers o hears on n
    None,       \* neighbor_id 0
    Restarting, \* routers that may start again
    Tids,       \* LSU threads that may run at a time (bound of the model)
    Timeout,    \* OSPF_TOPO_ENTRY_TIMEOUT
    MaxSeq      \* LSUs each router sends before it restarts (bound of the model)

ASSUME SelfAssumption  == Self \in Routers /\ Restarting \subseteq Routers \ {Self}
ASSUME NoneAssumption  == None \notin Routers
ASSUME NetsAssumption  ==
    /\ Announces \in [Routers -> Seq(Nets)]
    /\ Peers \in [Routers -> [Nets -> SUBSET Routers]]
ASSUME TimesAssumption == Timeout \in Nat /\ MaxSeq \in [Routers -> Nat]

VARIABLES
    db,         \* g_topology behind its dummy head, in list order
    handler,    \* each LSU thread: the LSU, the LSAs it has not applied, and
                \* the position of the entry it renews (0: it is gone)
    nbr,        \* nbr[o][n]: neighbor_id of the interface of o on n
    seqno,      \* g_sequence_num of each router
    sent,       \* every LSU sent so far
    stale,      \* history: the table changed and no SPF was started since
    overlap     \* history: routers two of whose LSUs were applied at a time

vars == <<db, handler, nbr, seqno, sent, stale, overlap>>

Entry == [router : Routers, net : Nets, nbr : Routers \cup {None},
          seq : Nat, age : 0 .. Timeout]
Lsa   == [net : Nets, nbr : Routers \cup {None}]
Thread == [phase : {"idle", "check", "apply", "add", "age", "number", "neighbour"},
           orig : Routers \cup {None}, seq : Nat, lsas : Seq(Lsa), at : Nat]
Idle  == [phase |-> "idle", orig |-> None, seq |-> 0, lsas |-> <<>>, at |-> 0]

\* A thread that is past the checks, and one that renews an entry.
Applying(h) == h.phase \notin {"idle", "check"}
Renewing(h) == h.phase \in {"age", "number", "neighbour"}

-----------------------------------------------------------------------------
(* The table.                                                              *)

Positions == 1 .. Len(db)
Entries   == Range(db)

\* Fault: the number in the table is accepted again.
FaultIsNewEqual(o, seq) == \A i \in Positions : db[i].router = o => db[i].seq <= seq

\* check_sequence_number: the first entry of the router decides.
IsNew(o, seq) ==
    \A i \in Positions : db[i].router = o /\
        (\A j \in Positions : j < i => db[j].router # o) => db[i].seq < seq

\* refresh_topology_entry stops at the first entry for the same network that
\* is the router's own, or that names a neighbour when the two routers do
\* not name each other.
Mutual(e, o, n) == e.router = n /\ e.nbr = o
Stops(i, o, lsa) ==
    /\ db[i].net = lsa.net
    /\ db[i].router = o \/ (db[i].nbr # None /\ ~Mutual(db[i], o, lsa.nbr))

StopsFirst(i, o, lsa) ==
    /\ Stops(i, o, lsa)
    /\ \A j \in Positions : j < i => ~Stops(j, o, lsa)

NewEntry(o, lsa, seq) ==
    [router |-> o, net |-> lsa.net, nbr |-> lsa.nbr, seq |-> seq, age |-> 0]

\* check_topology_age: after a removal ptr moves on to the next entry, which
\* is therefore not looked at in this second.
Visited ==
    LET visited[i \in Positions] ==
            i = 1 \/ ~(visited[i - 1] /\ db[i - 1].age = Timeout)
    IN  visited

\* Fault: an entry is removed one second late.
FaultExpired(i) == Visited[i] /\ db[i].age > Timeout

Expired(i) == Visited[i] /\ db[i].age = Timeout

-----------------------------------------------------------------------------
(* The other routers.                                                      *)

\* A HELLO from another router than the one heard last on n.
Discover(o, n) ==
    /\ \E p \in Peers[o][n] \ {nbr[o][n]} : nbr' = [nbr EXCEPT ![o][n] = p]
    /\ UNCHANGED <<db, handler, seqno, sent, stale, overlap>>

Announcement(o) ==
    [i \in 1 .. Len(Announces[o]) |->
        [net |-> Announces[o][i], nbr |-> nbr[o][Announces[o][i]]]]

\* send_lsu of router o, on an interface that has a neighbour (this router's
\* LSUs come back from its neighbours).
SendLsu(o) ==
    /\ \E n \in Nets : nbr[o][n] # None
    /\ seqno[o] < MaxSeq[o]
    /\ seqno' = [seqno EXCEPT ![o] = @ + 1]
    /\ sent' = sent \cup {[orig |-> o, seq |-> seqno'[o], lsas |-> Announcement(o)]}
    /\ UNCHANGED <<db, handler, nbr, stale, overlap>>

Restart(o) ==
    /\ o \in Restarting /\ seqno[o] > 0
    /\ seqno' = [seqno EXCEPT ![o] = 0]
    /\ nbr' = [nbr EXCEPT ![o] = [n \in Nets |-> None]]
    /\ UNCHANGED <<db, handler, sent, stale, overlap>>

-----------------------------------------------------------------------------
(* This router.                                                            *)

\* sr_handle_pwospf_packet starts a thread with a copy of the packet.
Receive(t, m) ==
    /\ handler[t] = Idle
    /\ handler' = [handler EXCEPT ![t] =
            [phase |-> "check", orig |-> m.orig, seq |-> m.seq, lsas |-> m.lsas, at |-> 0]]
    /\ UNCHANGED <<db, nbr, seqno, sent, stale, overlap>>

\* The checks before the LSAs are read.
Accept(h) == h.orig # Self /\ IsNew(h.orig, h.seq)

CheckLsu(t) ==
    /\ handler[t].phase = "check"
    /\ IF Accept(handler[t])
       THEN /\ handler' = [handler EXCEPT ![t].phase = "apply"]
            /\ overlap' = overlap \cup
                    {o \in {handler[t].orig} : \E u \in Tids :
                        Applying(handler[u]) /\ handler[u].orig = o}
       ELSE /\ handler' = [handler EXCEPT ![t] = Idle]
            /\ UNCHANGED overlap
    /\ UNCHANGED <<db, nbr, seqno, sent, stale>>

\* A turn of the loop over the LSAs: refresh_topology_entry looks for what
\* stops it.  The own entry is to be renewed, another router's makes the LSA
\* invalid, and if nothing stops the walk a new entry is to be added.
Scan(t) ==
    LET h   == handler[t]
        lsa == Head(h.lsas)
    IN  /\ h.phase = "apply" /\ h.lsas # <<>>
        /\ \/ \E i \in Positions :
                /\ StopsFirst(i, h.orig, lsa)
                /\ handler' = [handler EXCEPT ![t] =
                        IF db[i].router = h.orig
                        THEN [h EXCEPT !.phase = "age", !.at = i]
                        ELSE [h EXCEPT !.lsas = Tail(h.lsas)]]
           \/ /\ \A i \in Positions : ~Stops(i, h.orig, lsa)
              /\ handler' = [handler EXCEPT ![t].phase = "add"]
        /\ UNCHANGED <<db, nbr, seqno, sent, stale, overlap>>

\* add_topology_entry puts the entry in front.  The others find theirs one
\* place further on.
Add(t) ==
    LET h == handler[t]
    IN  /\ h.phase = "add"
        /\ db' = <<NewEntry(h.orig, Head(h.lsas), h.seq)>> \o db
        /\ handler' = [u \in Tids |->
                IF u = t THEN [h EXCEPT !.phase = "apply", !.lsas = Tail(h.lsas)]
                ELSE IF handler[u].at = 0 THEN handler[u]
                ELSE [handler[u] EXCEPT !.at = @ + 1]]
        /\ stale' = TRUE
        /\ UNCHANGED <<nbr, seqno, sent, overlap>>

\* What the table is when e is written over the entry of thread t.
Write(t, e) ==
    IF handler[t].at = 0 THEN db ELSE [db EXCEPT ![handler[t].at] = e]

\* The three assignments that renew an entry.
WriteAge(t) ==
    /\ handler[t].phase = "age"
    /\ db' = Write(t, [db[handler[t].at] EXCEPT !.age = 0])
    /\ handler' = [handler EXCEPT ![t].phase = "number"]
    /\ stale' = (stale \/ db' # db)
    /\ UNCHANGED <<nbr, seqno, sent, overlap>>

\* Fault: the number is not renewed.
FaultWriteNumber(t) ==
    /\ handler[t].phase = "number"
    /\ handler' = [handler EXCEPT ![t].phase = "neighbour"]
    /\ UNCHANGED <<db, nbr, seqno, sent, stale, overlap>>

WriteNumber(t) ==
    /\ handler[t].phase = "number"
    /\ db' = Write(t, [db[handler[t].at] EXCEPT !.seq = handler[t].seq])
    /\ handler' = [handler EXCEPT ![t].phase = "neighbour"]
    /\ stale' = (stale \/ db' # db)
    /\ UNCHANGED <<nbr, seqno, sent, overlap>>

WriteNeighbour(t) ==
    /\ handler[t].phase = "neighbour"
    /\ db' = Write(t, [db[handler[t].at] EXCEPT !.nbr = Head(handler[t].lsas).nbr])
    /\ handler' = [handler EXCEPT ![t] = [handler[t] EXCEPT
            !.phase = "apply", !.lsas = Tail(handler[t].lsas), !.at = 0]]
    /\ stale' = (stale \/ db' # db)
    /\ UNCHANGED <<nbr, seqno, sent, overlap>>

\* run_dijkstra_in_thread, then the flooding (of no effect on this table).
Finish(t) ==
    /\ handler[t].phase = "apply" /\ handler[t].lsas = <<>>
    /\ handler' = [handler EXCEPT ![t] = Idle]
    /\ stale' = FALSE
    /\ UNCHANGED <<db, nbr, seqno, sent, overlap>>

\* What the walk leaves of the entry at position i.
Older(i) == IF Visited[i] THEN [db[i] EXCEPT !.age = @ + 1] ELSE db[i]

\* Where the list that is left has the entry that was at position i.
Moved(S, i) == IF i \in S THEN Rank(S, i) ELSE 0

\* check_topology_age: remove what has reached the timeout, age the rest.
Age ==
    /\ db # <<>>
    /\ LET S    == {i \in Positions : ~Expired(i)}
           kept == Listing(S)
       IN  /\ db' = [k \in DOMAIN kept |-> Older(kept[k])]
           /\ handler' = [t \in Tids |-> [handler[t] EXCEPT !.at = Moved(S, @)]]
    /\ UNCHANGED <<nbr, seqno, sent, overlap>>

\* Fault: no SPF is started when entries were removed.
FaultCheckAge == Age /\ stale' = (stale \/ Len(db') # Len(db))

\* Once a second; an SPF run if anything was removed.
CheckAge == Age /\ stale' = (stale /\ Len(db') = Len(db))

-----------------------------------------------------------------------------
Init ==
    /\ db = <<>>
    /\ handler = [t \in Tids |-> Idle]
    /\ nbr = [o \in Routers |-> [n \in Nets |-> None]]
    /\ seqno = [o \in Routers |-> 0]
    /\ sent = {}
    /\ stale = FALSE
    /\ overlap = {}

Refresh(t) == Scan(t) \/ Add(t) \/ WriteAge(t) \/ WriteNumber(t) \/ WriteNeighbour(t)
Step(t) == CheckLsu(t) \/ Refresh(t) \/ Finish(t)

Next ==
    \/ \E o \in Routers, n \in Nets : Discover(o, n)
    \/ \E o \in Routers : SendLsu(o) \/ Restart(o)
    \/ \E t \in Tids, m \in sent : Receive(t, m)
    \/ \E t \in Tids : Step(t)
    \/ CheckAge

Spec == Init /\ [][Next]_vars

\* The threads that were started run on, and so does the ageing thread.
Fairness == (\A t \in Tids : WF_vars(Step(t))) /\ WF_vars(CheckAge)
FairSpec == Spec /\ Fairness

-----------------------------------------------------------------------------
(* Properties.                                                             *)

\* Every variable has its type.
TypeOK ==
    /\ db \in Seq(Entry)
    /\ handler \in [Tids -> Thread]
    /\ nbr \in [Routers -> [Nets -> Routers \cup {None}]]
    /\ seqno \in [Routers -> Nat]
    /\ \A m \in sent : m.orig \in Routers /\ m.seq \in Nat /\ m.lsas \in Seq(Lsa)
    /\ stale \in BOOLEAN
    /\ overlap \subseteq Routers

\* The LSU m announces the network of e, with its number and its neighbour.
Numbered(m, e) ==
    /\ m.orig = e.router /\ m.seq = e.seq
    /\ \E k \in 1 .. Len(m.lsas) : m.lsas[k].net = e.net
Neighboured(m, e) ==
    /\ m.orig = e.router
    /\ \E k \in 1 .. Len(m.lsas) : m.lsas[k] = [net |-> e.net, nbr |-> e.nbr]

Announced(e) == \E m \in sent : Numbered(m, e) /\ Neighboured(m, e)

\* Nothing is invented: the number of an entry and its neighbour are ones its
\* router announced the network with.  They come from one LSU, except while
\* they are being written and after two LSUs of that router were applied at a
\* time (pwospf_topology.c:83-85), whatever LSUs of other routers, restarts
\* and the ageing thread do meanwhile.
EntriesAnnounced ==
    \A e \in Entries :
        /\ \E m \in sent : Numbered(m, e)
        /\ \E m \in sent : Neighboured(m, e)
        /\ \/ Announced(e)
           \/ e.router \in overlap
           \/ \E t \in Tids : Applying(handler[t]) /\ handler[t].orig = e.router

\* "LSU Packet dropped, repeated sequence number" (sr_pwospf.c:752-759): an
\* entry is never overwritten with an older LSU of its router.
NeverOlder ==
    [][Len(db') = Len(db) =>
        \A i \in Positions :
            db[i].router = db'[i].router /\ db[i].net = db'[i].net
                => db'[i].seq >= db[i].seq]_vars

\* Every change of the table is followed by a run of Dijkstra's algorithm
\* that was started after it (sr_pwospf.c:295-301 and 796).
ChangesRecomputed == stale ~> ~stale

\* What a router said of a network and does not say again is forgotten, even
\* when the network delivers its last LSUs over and over
\* (pwospf_topology.c:33-66 and 197-218).
EntriesExpire ==
    \A o \in Routers \ {Self} : \A n \in Range(Announces[o]) :
        (\E e \in Entries : e.router = o /\ e.net = n)
            ~> ~(\E e \in Entries : e.router = o /\ e.net = n)
=============================================================================
