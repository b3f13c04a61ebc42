------------------------------ MODULE Flooding ------------------------------
(***************************************************************************)
(* How the LSUs of one router, the origin, get to all the others and keep  *)
(* its entries alive there (sr_pwospf.c): the timer of send_all_lsu, the   *)
(* LSUs of a new neighbour (flood_lsu), the threads of send_lsu that share *)
(* one 16-bit counter with no lock, the forwarding in                      *)
(* sr_handle_pwospf_lsu_packet and the ageing of the tables.  Every router *)
(* starts at a moment of its own and hears its neighbours one by one.  It  *)
(* drops all it gets until it has chosen its ID, sends LSUs only to the    *)
(* neighbours it has heard, and forgets everything when it restarts.       *)
(*                                                                         *)
(* LSUs of different origins share neither a counter nor an entry of a     *)
(* table, so one origin is enough.  A table is reduced to the first entry  *)
(* of the origin, the one that check_sequence_number looks at, and a       *)
(* router handles one LSU at a time; module Topology has the whole table   *)
(* and threads that interleave.  Copies of an LSU take less than a second  *)
(* to get through the network, may overtake each other and may get lost;   *)
(* two that are alike count once.  An interface belongs to one router and  *)
(* one link; interfaces towards hosts send no LSU and are left out.        *)
(***************************************************************************)
EXTENDS Integers, Sequences, FiniteSets

CONSTANTS
    Routers, Origin,
    Ifs,        \* Ifs[r]: the interfaces of r, in the order of if_list
    Peer,       \* Peer[i]: the interface at the other end of the link
    Batches,    \* times flood_lsu and send_all_lsu may be under way together
    SeqMod,     \* values of a sequence number: 65536 in the code
    Ttl,        \* ttl of a new LSU: 64
    LsuInt,     \* OSPF_DEFAULT_LSUINT: 30
    Timeout,    \* OSPF_TOPO_ENTRY_TIMEOUT: 35
    MaxFaults,  \* copies lost and restarts together (bound of the model)
    NoEntry

InterfacesOf(r) == {Ifs[r][k] : k \in DOMAIN Ifs[r]}
Interfaces == UNION {InterfacesOf(r) : r \in Routers}
OriginIfs  == InterfacesOf(Origin)
Others     == Routers \ {Origin}
Owner == [i \in Interfaces |-> CHOOSE r \in Routers : i \in InterfacesOf(r)]

ASSUME NetworkAssumption ==
    /\ Origin \in Routers
    /\ \A r \in Routers :
        /\ Ifs[r] \in Seq(InterfacesOf(r))
        /\ \A k, l \in DOMAIN Ifs[r] : Ifs[r][k] = Ifs[r][l] => k = l
    /\ \A r, q \in Routers : r # q => InterfacesOf(r) \cap InterfacesOf(q) = {}
    /\ \A i \in Interfaces : Peer[i] \in Interfaces /\ Peer[Peer[i]] = i
ASSUME TimesAssumption ==
    /\ SeqMod \in Nat \ {0} /\ Ttl \in Nat \ {0} /\ LsuInt \in Nat \ {0}
    /\ Timeout \in LsuInt + 1 .. 2 * LsuInt - 1
    /\ MaxFaults \in Nat

VARIABLES
    up,         \* routers that have chosen their ID
    known,      \* interfaces whose neighbor_id is not 0
    seqno,      \* g_sequence_num of the origin
    thread,     \* its send_lsu threads: pc, and the value of the counter read
    clock,      \* seconds since send_all_lsu last woke
    net,        \* copies on their way, each with the interface it goes to
    db,         \* db[r]: number and age of the origin's entry, or NoEntry
    faults,     \* copies lost and restarts so far
    sound       \* history, see Spread

vars == <<up, known, seqno, thread, clock, net, db, faults, sound>>

Numbers == 0 .. SeqMod - 1
Entry   == [seq : Numbers, age : 0 .. Timeout]
Copy    == [seq : Numbers, ttl : 1 .. Ttl, to : Interfaces]
Idle    == [pc |-> "idle", reg |-> 0]
ASSUME NoEntryAssumption == NoEntry \notin Entry

Quiet   ==
    /\ net = {}
    /\ \A i \in OriginIfs, b \in Batches : thread[<<i, b>>] = Idle

-----------------------------------------------------------------------------
(* Starting, and neighbours.                                               *)

\* pwospf_run_thread gives the router its ID and starts the timers.
Boot(r) ==
    /\ r \notin up
    /\ up' = up \cup {r}
    /\ UNCHANGED <<known, seqno, thread, clock, net, db, faults, sound>>

\* A HELLO arrives on an interface without neighbour: both routers have IDs.
Greeted(i) == i \notin known /\ Owner[i] \in up /\ Owner[Peer[i]] \in up

\* It gets the neighbour's ID.  (The LSUs that follow are not the origin's.)
Hear(i) ==
    /\ i \notin OriginIfs /\ Greeted(i)
    /\ known' = known \cup {i}
    /\ UNCHANGED <<up, seqno, thread, clock, net, db, faults, sound>>

-----------------------------------------------------------------------------
(* The origin.                                                             *)

Started(b) ==
    [x \in OriginIfs \X Batches |->
        IF x[2] = b THEN [pc |-> "start", reg |-> 0] ELSE thread[x]]

Free(b) == \A i \in OriginIfs : thread[<<i, b>>] = Idle

\* A HELLO on an interface without neighbour: it gets the neighbour's ID, and
\* flood_lsu starts a thread for every interface that has one.  (Here the
\* threads of the others end at once, see NoNeighbour.)
NewNeighbour(i, b) ==
    /\ Greeted(i) /\ Free(b)
    /\ known' = known \cup {i}
    /\ thread' = Started(b)
    /\ UNCHANGED <<up, seqno, clock, net, db, faults, sound>>

\* The counter, and the values that threads have read and are to write back.
Counters == {seqno} \cup
    {thread[x].reg : x \in {y \in OriginIfs \X Batches : thread[y].pc = "loaded"}}

\* One of them has fallen behind a number in some table: the counter wrapped,
\* the origin restarted, or other threads have sent LSUs since it was read.
Behind == \E r \in Others, n \in Counters : db[r] # NoEntry /\ db[r].seq > n

\* send_all_lsu wakes and starts a thread for every interface, if any
\* neighbour is alive.
Round(b) ==
    /\ clock = LsuInt /\ Free(b)
    /\ clock' = 0
    /\ thread' = IF known \cap OriginIfs = {} THEN thread ELSE Started(b)
    /\ sound' = (up = Routers /\ known = Interfaces /\ ~Behind)
    /\ UNCHANGED <<up, known, seqno, net, db, faults>>

\* send_lsu: nobody on this interface.
NoNeighbour(i, b) ==
    /\ thread[<<i, b>>].pc = "start" /\ i \notin known
    /\ thread' = [thread EXCEPT ![<<i, b>>] = Idle]
    /\ UNCHANGED <<up, known, seqno, clock, net, db, faults, sound>>

\* g_sequence_num++ reads the counter,
Load(i, b) ==
    /\ thread[<<i, b>>].pc = "start" /\ i \in known
    /\ thread' = [thread EXCEPT ![<<i, b>>] = [pc |-> "loaded", reg |-> seqno]]
    /\ UNCHANGED <<up, known, seqno, clock, net, db, faults, sound>>

NextNumber(reg) == (reg + 1) % SeqMod

\* and writes it.
Store(i, b) ==
    /\ thread[<<i, b>>].pc = "loaded"
    /\ seqno' = NextNumber(thread[<<i, b>>].reg)
    /\ thread' = [thread EXCEPT ![<<i, b>>] = [pc |-> "stored", reg |-> 0]]
    /\ sound' = (sound /\ seqno' # 0)
    /\ UNCHANGED <<up, known, clock, net, db, faults>>

\* The LSU takes its number from the counter as it is now.
Send(i, b) ==
    /\ thread[<<i, b>>].pc = "stored"
    /\ net' = net \cup {[seq |-> seqno, ttl |-> Ttl, to |-> Peer[i]]}
    /\ thread' = [thread EXCEPT ![<<i, b>>] = Idle]
    /\ UNCHANGED <<up, known, seqno, clock, db, faults, sound>>

\* The program of a router ends and will start again: its ID, its neighbours
\* and its table are gone, at the origin the counter and the threads too.
\* (Copies on their way have arrived, or count as lost.)
Restart(r) ==
    /\ r \in up /\ faults < MaxFaults /\ net = {}
    /\ faults' = faults + 1
    /\ up' = up \ {r} /\ known' = known \ InterfacesOf(r)
    /\ IF r = Origin
       THEN /\ seqno' = 0 /\ clock' = 0
            /\ thread' = [x \in OriginIfs \X Batches |-> Idle]
            /\ UNCHANGED db
       ELSE /\ db' = [db EXCEPT ![r] = NoEntry]
            /\ UNCHANGED <<seqno, clock, thread>>
    /\ sound' = FALSE
    /\ UNCHANGED net

-----------------------------------------------------------------------------
(* The routers.                                                            *)

Lose(m) ==
    /\ faults < MaxFaults
    /\ faults' = faults + 1
    /\ net' = net \ {m}
    /\ sound' = FALSE
    /\ UNCHANGED <<up, known, seqno, thread, clock, db>>

\* Fault: the walk that finds no entry of the origin ends with 0.
FaultIsNew(r, seq) == db[r] # NoEntry /\ db[r].seq < seq

\* check_sequence_number
IsNew(r, seq) == db[r] = NoEntry \/ db[r].seq < seq

\* The interfaces r sends on what came in on "in": the others with a neighbour.
Onward(r, in) == {k \in DOMAIN Ifs[r] : Ifs[r][k] \in known \ {in}}

\* On how many of its first k interfaces r sends it.
Sends(r, in, k) == Cardinality(Onward(r, in) \cap 1 .. k)

\* Fault: the loop ends one interface after the ttl is used up.
FaultForwarded(r, m) ==
    {[seq |-> m.seq, ttl |-> m.ttl - Sends(r, m.to, k), to |-> Peer[Ifs[r][k]]] :
        k \in {j \in Onward(r, m.to) : Sends(r, m.to, j) <= m.ttl}}

\* Fault: the loop ends before the ttl is used up.
FaultForwardedEarly(r, m) ==
    {[seq |-> m.seq, ttl |-> m.ttl - Sends(r, m.to, k), to |-> Peer[Ifs[r][k]]] :
        k \in {j \in Onward(r, m.to) : Sends(r, m.to, j) + 1 < m.ttl}}

\* One packet is changed and sent on interface after interface: its ttl goes
\* down each time, and at 0 the loop ends.
Forwarded(r, m) ==
    {[seq |-> m.seq, ttl |-> m.ttl - Sends(r, m.to, k), to |-> Peer[Ifs[r][k]]] :
        k \in {j \in Onward(r, m.to) : Sends(r, m.to, j) < m.ttl}}

\* sr_handle_pwospf_packet and sr_handle_pwospf_lsu_packet: the checks, then
\* the entry is renewed and the LSU forwarded.
Handle(m) ==
    LET r == Owner[m.to]
    IN  /\ IF r \in up \ {Origin} /\ IsNew(r, m.seq)
           THEN /\ db' = [db EXCEPT ![r] = [seq |-> m.seq, age |-> 0]]
                /\ net' = (net \ {m}) \cup Forwarded(r, m)
           ELSE /\ net' = net \ {m}
                /\ UNCHANGED db
        /\ UNCHANGED <<up, known, seqno, thread, clock, faults, sound>>

\* check_topology_age: remove at the timeout, else grow older.
Aged(e) == IF e.age = Timeout THEN NoEntry ELSE [e EXCEPT !.age = @ + 1]

\* A second passes everywhere; the LSUs of the last one have arrived.  The
\* timer runs once the origin has its ID.
Tick ==
    /\ Quiet /\ clock < LsuInt
    /\ clock' = IF Origin \in up THEN clock + 1 ELSE 0
    /\ db' = [r \in Others |-> IF db[r] = NoEntry THEN NoEntry ELSE Aged(db[r])]
    /\ UNCHANGED <<up, known, seqno, thread, net, faults, sound>>

-----------------------------------------------------------------------------
Init ==
    /\ up = {} /\ known = {} /\ seqno = 0 /\ clock = 0
    /\ thread = [x \in OriginIfs \X Batches |-> Idle]
    /\ net = {}
    /\ db = [r \in Others |-> NoEntry]
    /\ faults = 0
    /\ sound = FALSE

ThreadStep(i, b) == NoNeighbour(i, b) \/ Load(i, b) \/ Store(i, b) \/ Send(i, b)

\* Routers start and greet each other.
Meet ==
    \/ \E r \in Routers : Boot(r)
    \/ \E i \in Interfaces : Hear(i)
    \/ \E i \in OriginIfs, b \in Batches : NewNeighbour(i, b)

\* What goes on for ever.
Work ==
    \/ \E i \in OriginIfs, b \in Batches : ThreadStep(i, b)
    \/ \E b \in Batches : Round(b)
    \/ \E m \in net : Handle(m)
    \/ Tick

Next == Meet \/ Work \/ (\E r \in Routers : Restart(r)) \/ \E m \in net : Lose(m)

Spec == Init /\ [][Next]_vars

\* Threads run on, packets that are not lost arrive, and time passes: between
\* two ticks there is little to do, so one condition covers it all.  Routers
\* start, and neighbours say HELLO every few seconds: strong fairness, because
\* the bound on Batches holds NewNeighbour back while other threads run, and
\* again one condition, because only restarts, which are few, undo a greeting.
Fairness == SF_vars(Meet) /\ WF_vars(Work)
FairSpec == Spec /\ Fairness

-----------------------------------------------------------------------------
(* Properties.                                                             *)

\* Every variable has its type; in particular no copy travels with ttl 0.
TypeOK ==
    /\ up \subseteq Routers
    /\ known \subseteq Interfaces
    /\ seqno \in Numbers
    /\ thread \in [OriginIfs \X Batches ->
                    [pc : {"idle", "start", "loaded", "stored"}, reg : Numbers]]
    /\ clock \in 0 .. LsuInt
    /\ net \subseteq Copy
    /\ db \in [Others -> Entry \cup {NoEntry}]
    /\ faults \in 0 .. MaxFaults
    /\ sound \in BOOLEAN

\* The router has heard of the origin since the timer last woke.
Fresh(r) == db[r] # NoEntry /\ db[r].age <= clock

\* A round reaches every router, whatever the order of copies, the race of
\* send_lsu threads on the counter (sr_pwospf.c:588-591) and the decrement of
\* the ttl for every interface (:815): once no copy is under way, every
\* router has been refreshed.  The exceptions: when the round began a router
\* had no ID yet or had not yet heard one of its neighbours (it drops the LSU,
\* :852, or does not send it there, :801), or the counter, or a value of it
\* that a thread was to write back, was behind a table; or since then a copy
\* was lost, the counter wrapped or a router restarted.
Spread == Quiet /\ sound => \A r \in Others : Fresh(r)

\* A flood dies down, and whatever happened to the numbers (a wrap, a
\* restart, equal numbers from racing threads) a router that refuses the
\* origin's LSUs does so only until its entry has aged out
\* (pwospf_topology.c:33-66 and 197-218).
Recovers == \A r \in Others : []<>(Quiet /\ Fresh(r))
=============================================================================
