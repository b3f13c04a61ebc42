--------------------------- MODULE ArpCacheProofs ---------------------------
(***************************************************************************)
(* The ARP cache for every number of hosts, packets, threads and heap      *)
(* cells, in three parts: memory safety (IInv of ArpCache is inductive),   *)
(* where a packet can be and what ends its waiting (PlacesInv is inductive *)
(* on top of it), and the refinement of Resolution that follows from both. *)
(***************************************************************************)
EXTENDS ArpCache, TLAPS

USE HopsAssumption, NullsAssumption, ThreadsAssumption, SizesAssumption

\* What sr_arpcache_queuereq does to the list and the heap, in one form for
\* the request it finds and for the one it allocates: q is that request.
QueuedOn(q, ip, p) ==
    /\ q \in Rids
    /\ q \in queue \/ q \notin alive
    /\ alive' = alive \cup {q} /\ queue' = queue \cup {q}
    /\ heap' \in [Rids -> Request]
    /\ heap'[q].ip = ip
    /\ heap'[q].pkts = {p} \cup (IF q \in queue THEN heap[q].pkts ELSE {})
    /\ q \in queue => heap[q].ip = ip /\ heap'[q].times = heap[q].times
    /\ q \notin queue => \A r \in queue : heap[r].ip # ip
    /\ \A r \in Rids : r # q => heap'[r] = heap[r]

\* queuereq always ends with the packet on the one request for its hop.
LEMMA QueueReqShape ==
    ASSUME TypeOK, NoDanglingRequest, NEW ip \in Hops, NEW p \in Packets,
           QueueReq(ip, p)
    PROVE  \E q \in Rids : QueuedOn(q, ip, p)
<1>1. CASE \E r \in queue : /\ heap[r].ip = ip
                            /\ heap' = [heap EXCEPT ![r].pkts = @ \cup {p}]
                            /\ UNCHANGED <<alive, queue>>
  <2>1. PICK r \in queue : /\ heap[r].ip = ip
                           /\ heap' = [heap EXCEPT ![r].pkts = @ \cup {p}]
                           /\ UNCHANGED <<alive, queue>>
    BY <1>1
  <2>2. r \in Rids /\ r \in alive
    BY DEF TypeOK, NoDanglingRequest
  <2>3. heap[r] \in Request /\ heap[r].pkts \cup {p} \in SUBSET Packets
    BY <2>2 DEF TypeOK, Request
  <2>4. heap' \in [Rids -> Request]
    BY <2>1, <2>2, <2>3 DEF TypeOK, Request
  <2>5. /\ heap'[r].ip = ip /\ heap'[r].times = heap[r].times
        /\ heap'[r].pkts = heap[r].pkts \cup {p}
    BY <2>1, <2>2, <2>3 DEF TypeOK, Request
  <2>6. QueuedOn(r, ip, p)
    BY <2>1, <2>2, <2>4, <2>5 DEF QueuedOn, TypeOK
  <2> QED
    BY <2>2, <2>6
<1>2. CASE /\ \A r \in queue : heap[r].ip # ip
           /\ \E r \in Rids \ alive :
                /\ heap' = [heap EXCEPT ![r] = [NewReq(ip) EXCEPT !.pkts = {p}]]
                /\ alive' = alive \cup {r}
                /\ queue' = queue \cup {r}
  <2>1. PICK r \in Rids \ alive :
            /\ heap' = [heap EXCEPT ![r] = [NewReq(ip) EXCEPT !.pkts = {p}]]
            /\ alive' = alive \cup {r}
            /\ queue' = queue \cup {r}
    BY <1>2
  <2>2. r \notin queue
    BY DEF NoDanglingRequest
  <2>3. [NewReq(ip) EXCEPT !.pkts = {p}]
            = [ip |-> ip, since |-> 2, times |-> 0, pkts |-> {p}]
    BY DEF NewReq, ResendAge
  <2>4. [ip |-> ip, since |-> 2, times |-> 0, pkts |-> {p}] \in Request
    BY DEF Request, ResendAge
  <2>5. QueuedOn(r, ip, p)
    BY <1>2, <2>1, <2>2, <2>3, <2>4 DEF QueuedOn, TypeOK
  <2> QED
    BY <2>5
<1> QED
  BY <1>1, <1>2 DEF QueueReq

\* Storing a mapping keeps the table well typed.
LEMMA StoreMappingType ==
    ASSUME TypeOK, NEW ip \in Hosts, StoreMapping(ip)
    PROVE  entries' \in [Slots -> [ip : Hops \cup {NoIP}, age : 0 .. TO + 1]]
<1>1. Fresh(ip) \in [ip : Hops \cup {NoIP}, age : 0 .. TO + 1]
  BY DEF Fresh, Hops
<1> QED
  BY <1>1 DEF StoreMapping, TypeOK

\* The cell a lookup of the queue returns is queued, or it is NoRid.
LEMMA UnlinkedQueued ==
    ASSUME TypeOK, NEW ip
    PROVE  \/ Unlinked(ip) \in queue
           \/ Unlinked(ip) = NoRid
  BY DEF Unlinked

LEMMA InitIInv == Init => IInv
<1> SUFFICES ASSUME Init PROVE IInv
  OBVIOUS
<1> USE DEF Init
<1>1. NewReq(NoIP) \in Request /\ NewReq(NoIP).pkts = {}
  BY DEF NewReq, Request, ResendAge
<1>2. Empty \in [ip : Hops \cup {NoIP}, age : 0 .. TO + 1]
  BY DEF Empty
<1>3. TypeOK
  BY <1>1, <1>2 DEF TypeOK
<1>4. NoDanglingRequest /\ OneRequestPerHop /\ CascadeEnds
  BY DEF NoDanglingRequest, OneRequestPerHop, CascadeEnds
<1>5. SweepOver /\ MissJobs /\ CellLevels /\ ReportLevels
  BY DEF SweepOver, MissJobs, CellLevels, ReportLevels
<1> QED
  BY <1>3, <1>4, <1>5 DEF IInv

\* A sending thread between lookup and queuereq.
LEMMA SendStep ==
    ASSUME IInv, NEW t \in Threads, NEW d \in Data, NEW ip \in Hops,
           LookupHit(t, d, ip) \/ LookupMiss(t, d, ip)
    PROVE  IInv'
<1> USE DEF IInv, store, timer
<1>1. CASE LookupHit(t, d, ip)
  <2> USE <1>1 DEF LookupHit
  <2>1. TypeOK'
    BY DEF TypeOK
  <2>2. (NoDanglingRequest /\ OneRequestPerHop /\ CascadeEnds)'
    BY DEF NoDanglingRequest, OneRequestPerHop, CascadeEnds
  <2>3. (SweepOver /\ MissJobs /\ CellLevels /\ ReportLevels)'
    BY DEF SweepOver, MissJobs, CellLevels, ReportLevels
  <2> QED
    BY <2>1, <2>2, <2>3
<1>2. CASE LookupMiss(t, d, ip)
  <2> DEFINE j == [pkt |-> <<d, 0>>, hop |-> ip]
  <2> USE <1>2 DEF LookupMiss, Goto
  <2>1. <<d, 0>> \in Packets /\ j \in Job /\ j.pkt[2] = 0
    BY DEF Packets, Job
  <2>2. TypeOK'
    BY <2>1 DEF TypeOK
  <2>3. NoDanglingRequest'
    BY DEF NoDanglingRequest, TypeOK
  <2>4. MissJobs'
    BY <2>1 DEF MissJobs, TypeOK
  <2>5. (OneRequestPerHop /\ CascadeEnds /\ SweepOver /\ CellLevels /\ ReportLevels)'
    BY DEF OneRequestPerHop, CascadeEnds, SweepOver, CellLevels, ReportLevels
  <2> QED
    BY <2>2, <2>3, <2>4, <2>5
<1> QED
  BY <1>1, <1>2

\* Queueing a packet on q keeps the list free of duplicates and its cells
\* allocated, whoever queues it.
LEMMA QueuedOnSafe ==
    ASSUME TypeOK, OneRequestPerHop, NoDanglingRequest,
           NEW ip \in Hops, NEW p \in Packets, NEW q \in Rids,
           QueuedOn(q, ip, p)
    PROVE  /\ OneRequestPerHop'
           /\ queue' \subseteq alive'
           /\ queue \subseteq queue'
           /\ \A r \in queue : heap'[r].ip = heap[r].ip
<1> USE DEF QueuedOn, TypeOK, NoDanglingRequest
<1>1. \A r \in queue : heap'[r].ip = heap[r].ip
  OBVIOUS
<1>2. \A r \in queue : r # q => heap'[r].ip # ip
  BY <1>1 DEF OneRequestPerHop
<1>3. OneRequestPerHop'
  BY <1>1, <1>2 DEF OneRequestPerHop
<1> QED
  BY <1>1, <1>3

LEMMA EnqueueStep ==
    ASSUME IInv, NEW t \in Threads, Enqueue(t)
    PROVE  IInv'
<1> DEFINE ip == job[t].hop
           p  == job[t].pkt
<1> USE DEF IInv, Enqueue, Goto, LockFree, timer
<1>1. ip \in Hops /\ p \in Packets /\ p[2] = 0
  BY DEF MissJobs, Job
<1>2. PICK q \in Rids : QueuedOn(q, ip, p)
  BY <1>1, QueueReqShape
<1> HIDE DEF ip, p
<1>3. OneRequestPerHop' /\ queue' \subseteq alive'
  BY <1>1, <1>2, QueuedOnSafe
<1>4. TypeOK'
  BY <1>2 DEF TypeOK, QueuedOn
<1>5. NoDanglingRequest'
  <2>1. todo' = {} /\ tpc' = "sleep"
    BY DEF SweepOver
  <2>2. pc'[Main] \in {"reply", "free"} => held' \in alive' \ queue'
    <3> SUFFICES ASSUME pc'[Main] \in {"reply", "free"}
                 PROVE  held' \in alive' \ queue'
      OBVIOUS
    <3>1. held \in alive \ queue /\ held' = held
      BY DEF TypeOK, NoDanglingRequest
    <3> QED
      BY <1>2, <3>1 DEF QueuedOn
  <2> QED
    BY <1>3, <2>1, <2>2 DEF NoDanglingRequest
<1>6. MissJobs'
  BY DEF MissJobs, TypeOK
<1>7. CellLevels'
  BY <1>1, <1>2 DEF CellLevels, QueuedOn, TypeOK, NoDanglingRequest
<1>8. (CascadeEnds /\ SweepOver /\ ReportLevels)'
  BY DEF CascadeEnds, SweepOver, ReportLevels
<1> QED
  BY <1>3, <1>4, <1>5, <1>6, <1>7, <1>8

\* The receiving thread: an ARP packet arrives, and a reply is worked off.
LEMMA ArpPacketStep ==
    ASSUME IInv, NEW ip \in Hosts, ArpRequest(ip) \/ ArpReply(ip)
    PROVE  IInv'
<1> USE DEF IInv, timer, LockFree
<1>1. StoreMapping(ip) /\ queue' = queue \ {Unlinked(ip)} /\ todo = {}
      /\ pc[Main] = "idle" /\ tpc = "sleep"
      /\ UNCHANGED <<heap, alive, timer, job, fate>>
  BY DEF ArpRequest, ArpReply, SweepOver
<1>2. entries' \in [Slots -> [ip : Hops \cup {NoIP}, age : 0 .. TO + 1]]
  BY <1>1, StoreMappingType
<1>3. CASE ArpRequest(ip)
  <2> USE <1>3 DEF ArpRequest
  <2>1. TypeOK'
    BY <1>1, <1>2 DEF TypeOK
  <2>2. (NoDanglingRequest /\ OneRequestPerHop /\ CascadeEnds)'
    BY <1>1 DEF NoDanglingRequest, OneRequestPerHop, CascadeEnds
  <2>3. (SweepOver /\ MissJobs /\ CellLevels /\ ReportLevels)'
    BY <1>1 DEF SweepOver, MissJobs, CellLevels, ReportLevels
  <2> QED
    BY <2>1, <2>2, <2>3
<1>4. CASE ArpReply(ip)
  <2> USE <1>4 DEF ArpReply, Goto
  <2>1. held' \in queue \cup {NoRid} /\ (held' # NoRid => held' \in alive \ queue')
    BY UnlinkedQueued, <1>1 DEF NoDanglingRequest
  <2>2. TypeOK'
    BY <1>1, <1>2, <2>1 DEF TypeOK
  <2>3. NoDanglingRequest'
    <3>1. CASE held' = NoRid
      BY <1>1, <3>1 DEF NoDanglingRequest
    <3>2. CASE held' # NoRid
      BY <1>1, <2>1, <3>2 DEF NoDanglingRequest, TypeOK
    <3> QED
      BY <3>1, <3>2
  <2>4. MissJobs'
    BY <1>1 DEF MissJobs, TypeOK
  <2>5. (OneRequestPerHop /\ CascadeEnds /\ SweepOver /\ CellLevels /\ ReportLevels)'
    BY <1>1 DEF OneRequestPerHop, CascadeEnds, SweepOver, CellLevels, ReportLevels
  <2> QED
    BY <2>2, <2>3, <2>4, <2>5
<1> QED
  BY <1>3, <1>4

LEMMA SendPendingStep ==
    ASSUME IInv, SendPending
    PROVE  IInv'
<1> USE DEF IInv, SendPending, Goto, store, timer
<1>1. TypeOK'
  BY DEF TypeOK
<1>2. NoDanglingRequest'
  BY DEF NoDanglingRequest, TypeOK
<1>3. MissJobs'
  BY DEF MissJobs, TypeOK
<1>4. (OneRequestPerHop /\ CascadeEnds /\ SweepOver /\ CellLevels /\ ReportLevels)'
  BY DEF OneRequestPerHop, CascadeEnds, SweepOver, CellLevels, ReportLevels
<1> QED
  BY <1>1, <1>2, <1>3, <1>4

\* Freeing a cell empties it and leaves every other cell as it is.
LEMMA DestroyShape ==
    ASSUME TypeOK, NEW r \in Rids, Destroy(r)
    PROVE  /\ heap' \in [Rids -> Request]
           /\ \A s \in Rids : s # r => heap'[s] = heap[s]
           /\ alive' = alive \ {r} /\ queue' = queue \ {r}
<1>1. heap[r] \in Request
  BY DEF TypeOK
<1>2. [heap[r] EXCEPT !.pkts = {}] \in Request
  BY <1>1 DEF Request
<1> QED
  BY <1>2 DEF Destroy, TypeOK

LEMMA DestroyHeldStep ==
    ASSUME IInv, DestroyHeld
    PROVE  IInv'
<1> USE DEF IInv, DestroyHeld, Goto, timer, LockFree
<1>1. held \in Rids /\ held \in alive \ queue /\ todo = {}
  BY DEF NoDanglingRequest, TypeOK, SweepOver
<1>2. /\ heap' \in [Rids -> Request]
      /\ \A s \in Rids : s # held => heap'[s] = heap[s]
      /\ alive' = alive \ {held} /\ queue' = queue \ {held}
  BY <1>1, DestroyShape
<1>3. TypeOK'
  BY <1>1, <1>2 DEF TypeOK
<1>4. NoDanglingRequest'
  BY <1>1, <1>2 DEF NoDanglingRequest, TypeOK
<1>5. OneRequestPerHop'
  BY <1>1, <1>2 DEF OneRequestPerHop, TypeOK
<1>6. MissJobs'
  BY DEF MissJobs, TypeOK
<1>7. CellLevels'
  BY <1>1, <1>2 DEF CellLevels, TypeOK
<1>8. (CascadeEnds /\ SweepOver /\ ReportLevels)'
  BY DEF CascadeEnds, SweepOver, ReportLevels
<1> QED
  BY <1>3, <1>4, <1>5, <1>6, <1>7, <1>8

\* The timeout thread outside host_unreachable.
LEMMA WakeStep ==
    ASSUME IInv, Wake
    PROVE  IInv'
<1> USE DEF IInv, Wake
<1>1. Empty \in [ip : Hops \cup {NoIP}, age : 0 .. TO + 1]
  BY DEF Empty
<1>2. TypeOK'
  BY <1>1 DEF TypeOK
<1>3. (NoDanglingRequest /\ OneRequestPerHop /\ CascadeEnds)'
  BY DEF NoDanglingRequest, OneRequestPerHop, CascadeEnds
<1>4. (SweepOver /\ MissJobs /\ CellLevels /\ ReportLevels)'
  BY DEF SweepOver, MissJobs, CellLevels, ReportLevels
<1> QED
  BY <1>2, <1>3, <1>4

LEMMA VisitStep ==
    ASSUME IInv, NEW r \in todo, TooSoon(r) \/ SendRequest(r) \/ GiveUp(r)
    PROVE  IInv'
<1> USE DEF IInv, store
<1>1. r \in Rids /\ r \in queue /\ r \in alive
  BY DEF TypeOK, NoDanglingRequest
<1>2. CASE TooSoon(r)
  <2> USE <1>2 DEF TooSoon
  <2>1. TypeOK' /\ NoDanglingRequest'
    BY DEF TypeOK, NoDanglingRequest
  <2>2. (OneRequestPerHop /\ CascadeEnds /\ SweepOver /\ MissJobs /\ CellLevels
         /\ ReportLevels)'
    BY DEF OneRequestPerHop, CascadeEnds, SweepOver, MissJobs, CellLevels, ReportLevels
  <2> QED
    BY <2>1, <2>2
<1>3. CASE SendRequest(r)
  <2> USE <1>3 DEF SendRequest
  <2>1. heap[r] \in Request
    BY <1>1 DEF TypeOK
  <2>2. heap[r].times + 1 \in 0 .. MaxSent /\ 0 \in 0 .. ResendAge
    BY <2>1 DEF Request, ResendAge
  <2>3. heap' \in [Rids -> Request]
    BY <2>1, <2>2 DEF TypeOK, Request, ResendAge
  <2>4. \A s \in Rids : heap'[s].ip = heap[s].ip /\ heap'[s].pkts = heap[s].pkts
    BY <1>1, <2>1 DEF TypeOK, Request
  <2>5. TypeOK' /\ NoDanglingRequest'
    BY <2>3 DEF TypeOK, NoDanglingRequest
  <2>6. OneRequestPerHop' /\ CellLevels'
    BY <2>4 DEF OneRequestPerHop, CellLevels, TypeOK
  <2>7. (CascadeEnds /\ SweepOver /\ MissJobs /\ ReportLevels)'
    BY DEF CascadeEnds, SweepOver, MissJobs, ReportLevels
  <2> QED
    BY <2>5, <2>6, <2>7
<1>4. CASE GiveUp(r)
  <2> USE <1>4 DEF GiveUp
  <2>1. heap[r].pkts \subseteq Packets
    BY <1>1 DEF TypeOK, Request
  <2>2. \A p \in heap[r].pkts : p[2] \in 0 .. 3 /\ p[2] # 3
    BY <1>1, <2>1 DEF CellLevels, Packets
  <2>3. TypeOK' /\ NoDanglingRequest'
    BY <1>1, <2>1 DEF TypeOK, NoDanglingRequest
  <2>4. CascadeEnds'
    BY <2>2 DEF CascadeEnds
  <2>5. CellLevels' /\ ReportLevels'
    BY <1>1 DEF CellLevels, ReportLevels
  <2>6. (OneRequestPerHop /\ SweepOver /\ MissJobs)'
    BY DEF OneRequestPerHop, SweepOver, MissJobs
  <2> QED
    BY <2>3, <2>4, <2>5, <2>6
<1> QED
  BY <1>2, <1>3, <1>4

\* host_unreachable: the step in which an error may join the request that is
\* about to be freed.  A second-order error is on SelfIP's request, so the
\* error about it finds that very request (one request per hop).
LEMMA ReportStep ==
    ASSUME IInv, NEW p \in unreported, Report(p)
    PROVE  IInv'
<1> USE DEF IInv, Report
<1>1. p \in Packets /\ cur \in Rids /\ cur \in queue
  BY DEF TypeOK, NoDanglingRequest
<1>2. p[1] \in Data /\ p[2] \in 0 .. 2
  BY <1>1 DEF CascadeEnds, Packets
<1>3. ErrorOf(p) \in Packets /\ ErrorOf(p)[2] = p[2] + 1
  BY <1>2 DEF ErrorOf, Packets
<1>4. ErrorHop(p) \in Hops /\ (p[2] # 0 => ErrorHop(p) = SelfIP)
  BY <1>2 DEF ErrorHop, Hops
<1>5. fate' \in [Data -> {"none", "pending", "sent", "reported", "muted"}]
  BY <1>2 DEF TypeOK
<1>6. unreported' \subseteq unreported
  OBVIOUS
<1>7. CASE UNCHANGED <<heap, alive, queue>>
  <2>1. TypeOK'
    BY <1>5, <1>6, <1>7 DEF TypeOK
  <2>2. (NoDanglingRequest /\ OneRequestPerHop /\ CascadeEnds)'
    BY <1>6, <1>7 DEF NoDanglingRequest, OneRequestPerHop, CascadeEnds
  <2>3. (SweepOver /\ MissJobs /\ CellLevels /\ ReportLevels)'
    BY <1>6, <1>7 DEF SweepOver, MissJobs, CellLevels, ReportLevels
  <2> QED
    BY <2>1, <2>2, <2>3
<1>8. CASE QueueReq(ErrorHop(p), ErrorOf(p))
  <2>1. PICK q \in Rids : QueuedOn(q, ErrorHop(p), ErrorOf(p))
    BY <1>3, <1>4, <1>8, QueueReqShape
  <2>2. /\ OneRequestPerHop' /\ queue' \subseteq alive' /\ queue \subseteq queue'
        /\ \A r \in queue : heap'[r].ip = heap[r].ip
    BY <1>3, <1>4, <2>1, QueuedOnSafe
  <2>3. TypeOK'
    BY <1>5, <1>6, <2>1 DEF TypeOK, QueuedOn
  <2>4. NoDanglingRequest'
    <3>1. pc'[Main] \in {"reply", "free"} => held' \in alive' \ queue'
      BY <2>1 DEF NoDanglingRequest, QueuedOn
    <3> QED
      BY <1>1, <2>2, <3>1 DEF NoDanglingRequest
  <2>5. p[2] = 2 => q = cur
    <3> SUFFICES ASSUME p[2] = 2 PROVE q = cur
      OBVIOUS
    <3>1. heap[cur].ip = SelfIP /\ ErrorHop(p) = SelfIP
      BY <1>4 DEF ReportLevels
    <3>2. q \in queue /\ heap[q].ip = SelfIP
      BY <1>1, <2>1, <3>1 DEF QueuedOn
    <3> QED
      BY <1>1, <3>1, <3>2 DEF OneRequestPerHop
  <2>6. CellLevels'
    <3> SUFFICES ASSUME NEW r \in alive', NEW x \in heap'[r].pkts
                 PROVE  /\ x[2] = 2 => heap'[r].ip = SelfIP
                        /\ x[2] = 3 => tpc' = "report" /\ r = cur'
      BY DEF CellLevels
    <3>1. CASE r \in alive /\ x \in heap[r].pkts
      BY <2>1, <3>1 DEF CellLevels, QueuedOn, TypeOK
    <3>2. CASE r = q /\ x = ErrorOf(p)
      BY <1>2, <1>3, <1>4, <2>1, <2>5, <3>2 DEF QueuedOn
    <3> QED
      BY <2>1, <3>1, <3>2 DEF QueuedOn, TypeOK, NoDanglingRequest
  <2>7. ReportLevels'
    BY <1>1, <1>6, <2>2 DEF ReportLevels
  <2>8. (CascadeEnds /\ SweepOver /\ MissJobs)'
    BY <1>6 DEF CascadeEnds, SweepOver, MissJobs
  <2> QED
    BY <2>2, <2>3, <2>4, <2>6, <2>7, <2>8
<1> QED
  BY <1>7, <1>8

LEMMA DestroyCurStep ==
    ASSUME IInv, DestroyCur
    PROVE  IInv'
<1> USE DEF IInv, DestroyCur
<1>1. cur \in Rids /\ cur \in queue /\ cur \notin todo
  BY DEF NoDanglingRequest, TypeOK
<1>2. /\ heap' \in [Rids -> Request]
      /\ \A s \in Rids : s # cur => heap'[s] = heap[s]
      /\ alive' = alive \ {cur} /\ queue' = queue \ {cur}
  BY <1>1, DestroyShape
<1>3. TypeOK'
  BY <1>2 DEF TypeOK
<1>4. NoDanglingRequest'
  BY <1>1, <1>2 DEF NoDanglingRequest, TypeOK
<1>5. OneRequestPerHop'
  BY <1>1, <1>2 DEF OneRequestPerHop, TypeOK
<1>6. CellLevels'
  BY <1>1, <1>2 DEF CellLevels, TypeOK
<1>7. (CascadeEnds /\ SweepOver /\ MissJobs /\ ReportLevels)'
  BY DEF CascadeEnds, SweepOver, MissJobs, ReportLevels
<1> QED
  BY <1>3, <1>4, <1>5, <1>6, <1>7

LEMMA SweepEndStep ==
    ASSUME IInv, SweepEnd
    PROVE  IInv'
<1> USE DEF IInv, SweepEnd, store
<1>1. TypeOK' /\ NoDanglingRequest'
  BY DEF TypeOK, NoDanglingRequest
<1>2. (OneRequestPerHop /\ CascadeEnds /\ SweepOver /\ MissJobs /\ CellLevels
       /\ ReportLevels)'
  BY DEF OneRequestPerHop, CascadeEnds, SweepOver, MissJobs, CellLevels, ReportLevels
<1> QED
  BY <1>1, <1>2

LEMMA TickStep ==
    ASSUME IInv, Tick
    PROVE  IInv'
<1> USE DEF IInv, Tick
<1>1. \A r \in Rids : /\ heap'[r] \in Request
                      /\ heap'[r].ip = heap[r].ip /\ heap'[r].pkts = heap[r].pkts
  <2> SUFFICES ASSUME NEW r \in Rids
               PROVE  /\ heap'[r] \in Request
                      /\ heap'[r].ip = heap[r].ip /\ heap'[r].pkts = heap[r].pkts
    OBVIOUS
  <2>1. heap[r] \in Request
    BY DEF TypeOK
  <2>2. Older(heap[r].since, ResendAge) \in 0 .. ResendAge
    BY <2>1 DEF Request, Older, ResendAge
  <2>3. heap'[r] = [heap[r] EXCEPT !.since = Older(heap[r].since, ResendAge)]
    OBVIOUS
  <2> QED
    BY <2>1, <2>2, <2>3 DEF Request
<1>2. \A s \in Slots : entries'[s] \in [ip : Hops \cup {NoIP}, age : 0 .. TO + 1]
  <2> SUFFICES ASSUME NEW s \in Slots
               PROVE  entries'[s] \in [ip : Hops \cup {NoIP}, age : 0 .. TO + 1]
    OBVIOUS
  <2>1. entries[s] \in [ip : Hops \cup {NoIP}, age : 0 .. TO + 1]
    BY DEF TypeOK
  <2>2. Older(entries[s].age, TO + 1) \in 0 .. TO + 1
    BY <2>1 DEF Older
  <2>3. Empty \in [ip : Hops \cup {NoIP}, age : 0 .. TO + 1]
    BY DEF Empty
  <2> QED
    BY <2>1, <2>2, <2>3
<1>3. TypeOK'
  BY <1>1, <1>2 DEF TypeOK
<1>4. (OneRequestPerHop /\ CellLevels /\ ReportLevels)'
  BY <1>1 DEF OneRequestPerHop, CellLevels, ReportLevels, TypeOK, NoDanglingRequest
<1>5. (NoDanglingRequest /\ CascadeEnds /\ SweepOver /\ MissJobs)'
  BY DEF NoDanglingRequest, CascadeEnds, SweepOver, MissJobs
<1> QED
  BY <1>3, <1>4, <1>5

LEMMA NextStep == IInv /\ [Next]_vars => IInv'
<1> SUFFICES ASSUME IInv, [Next]_vars PROVE IInv'
  OBVIOUS
<1>1. ASSUME NEW t \in Threads, Send(t) \/ Enqueue(t) PROVE IInv'
  BY <1>1, SendStep, EnqueueStep DEF Send
<1>2. CASE \/ \E ip \in Askers : ArpRequest(ip)
           \/ \E ip \in Hosts : ArpReply(ip)
  BY <1>2, ArpPacketStep
<1>3. CASE SendPending \/ DestroyHeld \/ Wake \/ Tick
  BY <1>3, SendPendingStep, DestroyHeldStep, WakeStep, TickStep
<1>4. CASE Sweep
  BY <1>4, VisitStep, ReportStep, DestroyCurStep, SweepEndStep DEF Sweep
<1>5. CASE UNCHANGED vars
  <2>1. TypeOK' /\ NoDanglingRequest'
    BY <1>5 DEF IInv, vars, TypeOK, NoDanglingRequest
  <2>2. (OneRequestPerHop /\ CascadeEnds /\ SweepOver /\ MissJobs)'
    BY <1>5 DEF IInv, vars, OneRequestPerHop, CascadeEnds, SweepOver, MissJobs
  <2>3. (CellLevels /\ ReportLevels)'
    BY <1>5 DEF IInv, vars, CellLevels, ReportLevels
  <2> QED
    BY <2>1, <2>2, <2>3 DEF IInv
<1> QED
  BY <1>1, <1>2, <1>3, <1>4, <1>5 DEF Next

\* The inductive invariant holds in every reachable state.
THEOREM Invariant == Spec => []IInv
<1> QED
  BY InitIInv, NextStep, PTL DEF Spec

\* Every variable keeps its type: sr_arpcache.h's structures.
THEOREM TypeCorrect == Spec => []TypeOK
<1>1. IInv => TypeOK
  BY DEF IInv
<1> QED
  BY <1>1, Invariant, PTL

\* No thread can reach a freed struct sr_arpreq (sr_arpcache.c:66-112 and
\* 236-272, sr_router.c:269-285), for any number of threads and requests.
THEOREM MemorySafety == Spec => []NoDanglingRequest
<1>1. IInv => NoDanglingRequest
  BY DEF IInv
<1> QED
  BY <1>1, Invariant, PTL

\* The list never holds two requests for one hop (sr_arpcache.c:148-187).
THEOREM UniqueRequests == Spec => []OneRequestPerHop
<1>1. IInv => OneRequestPerHop
  BY DEF IInv
<1> QED
  BY <1>1, Invariant, PTL

\* host_unreachable never reports an error of the third order, so it does not
\* feed itself for ever (sr_arpcache.c:101-112, sr_router.c:110-127).
THEOREM CascadeBounded == Spec => []CascadeEnds
<1>1. IInv => CascadeEnds
  BY DEF IInv
<1> QED
  BY <1>1, Invariant, PTL

-----------------------------------------------------------------------------
(* Where a packet can be, and what has become of it.                        *)

\* A step that leaves every packet where it is.
SamePlaces ==
    /\ alive' = alive
    /\ \A r \in Rids : heap'[r].pkts = heap[r].pkts /\ heap'[r].ip = heap[r].ip
    /\ \A t \in Threads : /\ (pc'[t] = "miss") <=> (pc[t] = "miss")
                          /\ pc[t] = "miss" => job'[t] = job[t]

LEMMA SamePending ==
    ASSUME TypeOK, SamePlaces, NEW p
    PROVE  /\ InGap(p)' <=> InGap(p)
           /\ InCell(p)' <=> InCell(p)
           /\ Pending(p)' <=> Pending(p)
<1>1. InGap(p)' <=> InGap(p)
  BY DEF InGap, SamePlaces
<1>2. InCell(p)' <=> InCell(p)
  BY DEF InCell, SamePlaces, TypeOK
<1> QED
  BY <1>1, <1>2 DEF Pending

LEMMA SameOnePlace ==
    ASSUME TypeOK, SamePlaces, OnePlace, HopKnown
    PROVE  OnePlace' /\ HopKnown'
<1>1. \A p \in Packets : (InGap(p)' <=> InGap(p)) /\ (InCell(p)' <=> InCell(p))
  BY SamePending
<1>2. OnePlace'
  <2> SUFFICES ASSUME NEW p \in Packets
               PROVE /\ \A r, s \in alive' : p \in heap'[r].pkts /\ p \in heap'[s].pkts => r = s
                     /\ InGap(p)' => ~InCell(p)'
                     /\ \A t, u \in Threads :
                          pc'[t] = "miss" /\ pc'[u] = "miss" /\ job'[t].pkt = p /\ job'[u].pkt = p
                              => t = u
    BY DEF OnePlace
  <2>1. \A r, s \in alive' : p \in heap'[r].pkts /\ p \in heap'[s].pkts => r = s
    BY DEF OnePlace, SamePlaces, TypeOK
  <2>2. InGap(p)' => ~InCell(p)'
    BY <1>1 DEF OnePlace
  <2>3. \A t, u \in Threads :
            pc'[t] = "miss" /\ pc'[u] = "miss" /\ job'[t].pkt = p /\ job'[u].pkt = p => t = u
    BY DEF OnePlace, SamePlaces
  <2> QED
    BY <2>1, <2>2, <2>3
<1>3. HopKnown'
  BY DEF HopKnown, SamePlaces, TypeOK
<1> QED
  BY <1>2, <1>3

\* ... and reports and frees nothing that waits.
LEMMA SamePlacesInv ==
    ASSUME IInv, SamePlaces, PlacesInv,
           (tpc' = "report") <=> (tpc = "report"),
           tpc = "report" => /\ cur' = cur /\ unreported' = unreported
                             /\ heap'[cur].times = heap[cur].times,
           (pc'[Main] = "free") <=> (pc[Main] = "free"),
           pc[Main] = "free" => held' = held,
           \A d \in Data : Pending(<<d, 0>>) => fate'[d] = fate[d]
    PROVE  PlacesInv'
<1> USE DEF IInv, PlacesInv
<1>1. \A p \in Packets : Pending(p)' <=> Pending(p)
  BY SamePending
<1>2. OnePlace' /\ HopKnown'
  BY SameOnePlace
<1>3. tpc = "report" => cur \in Rids
  BY DEF NoDanglingRequest, TypeOK
<1>4. \A p : Reported(p)' <=> Reported(p)
  BY <1>3 DEF Reported, SamePlaces
<1>5. OneLevel'
  BY <1>1, <1>4 DEF OneLevel
<1>6. StillToReport'
  BY <1>1, <1>3 DEF StillToReport, SamePlaces
<1>7. AskedOut'
  BY <1>3 DEF AskedOut
<1>8. pc[Main] = "free" => held \in Rids
  BY DEF NoDanglingRequest, TypeOK
<1>9. FateKnown'
  <2> SUFFICES ASSUME NEW d \in Data, Pending(<<d, 0>>)'
               PROVE  IF Reported(<<d, 0>>)' THEN GivenUp(d)'
                      ELSE fate'[d] = IF pc'[Main] = "free" /\ <<d, 0>> \in heap'[held'].pkts
                                      THEN "sent" ELSE "pending"
    BY DEF FateKnown
  <2>1. <<d, 0>> \in Packets
    BY DEF Packets
  <2>2. pc[Main] = "free" => heap'[held'].pkts = heap[held].pkts
    BY <1>8 DEF SamePlaces
  <2>3. Pending(<<d, 0>>) /\ fate'[d] = fate[d]
    BY <1>1, <2>1
  <2>4. Reported(<<d, 0>>) /\ GivenUp(d) => GivenUp(d)'
    BY <1>3, <2>3 DEF Reported, GivenUp, SamePlaces
  <2> QED
    BY <1>4, <2>2, <2>3, <2>4 DEF FateKnown
<1> QED
  BY <1>2, <1>5, <1>6, <1>7, <1>9

\* The steps of which that is all there is to say.
LEMMA QuietStep ==
    ASSUME IInv, PlacesInv,
           \/ \E t \in Threads, d \in Data, ip \in Hops : LookupHit(t, d, ip)
           \/ \E ip \in Hosts : ArpRequest(ip) \/ ArpReply(ip)
           \/ Wake \/ SweepEnd \/ Tick
           \/ \E r \in todo : TooSoon(r) \/ SendRequest(r)
           \/ UNCHANGED vars
    PROVE  PlacesInv' /\ SamePlaces
<1> USE DEF IInv, store, timer, LockFree, Goto
<1>1. CASE \E t \in Threads, d \in Data, ip \in Hops : LookupHit(t, d, ip)
  <2>1. SamePlaces
    BY <1>1 DEF LookupHit, SamePlaces
  <2>2. \A d \in Data : Pending(<<d, 0>>) => fate'[d] = fate[d]
    BY <1>1 DEF LookupHit, InUse, TypeOK
  <2> QED
    BY <1>1, <2>1, <2>2, SamePlacesInv DEF LookupHit
<1>2. CASE \E ip \in Hosts : ArpRequest(ip) \/ ArpReply(ip)
  <2>1. SamePlaces
    BY <1>2 DEF ArpRequest, ArpReply, SamePlaces, TypeOK
  <2>2. (pc'[Main] = "free") <=> (pc[Main] = "free")
    BY <1>2 DEF ArpRequest, ArpReply, TypeOK
  <2> QED
    BY <1>2, <2>1, <2>2, SamePlacesInv DEF ArpRequest, ArpReply
<1>3. CASE Wake \/ SweepEnd \/ UNCHANGED vars
  <2>1. SamePlaces
    BY <1>3 DEF Wake, SweepEnd, SamePlaces, vars
  <2> QED
    BY <1>3, <2>1, SamePlacesInv DEF Wake, SweepEnd, vars
<1>4. CASE Tick
  <2>1. \A r \in Rids : /\ heap'[r].pkts = heap[r].pkts /\ heap'[r].ip = heap[r].ip
                        /\ heap'[r].times = heap[r].times
    BY <1>4 DEF Tick, TypeOK, Request
  <2>2. SamePlaces
    BY <1>4, <2>1 DEF Tick, SamePlaces
  <2>3. tpc = "report" => cur \in Rids
    BY DEF NoDanglingRequest, TypeOK
  <2> QED
    BY <1>4, <2>1, <2>2, <2>3, SamePlacesInv DEF Tick
<1>5. CASE \E r \in todo : TooSoon(r) \/ SendRequest(r)
  <2>1. \A r \in Rids : heap'[r].pkts = heap[r].pkts /\ heap'[r].ip = heap[r].ip
    BY <1>5 DEF TooSoon, SendRequest, TypeOK, Request
  <2>2. SamePlaces
    BY <1>5, <2>1 DEF TooSoon, SendRequest, SamePlaces
  <2> QED
    BY <1>5, <2>2, SamePlacesInv DEF TooSoon, SendRequest
<1> QED
  BY <1>1, <1>2, <1>3, <1>4, <1>5

\* A packet that missed in the table and is in the hands of its thread.
LEMMA MissPlaces ==
    ASSUME IInv, PlacesInv, NEW t \in Threads, NEW d \in Data, NEW ip \in Hops,
           LookupMiss(t, d, ip)
    PROVE  PlacesInv'
<1> USE DEF IInv, PlacesInv, LookupMiss, Goto, store, timer
<1> DEFINE p == <<d, 0>>
<1>1. \A q \in Packets : q[1] = d => ~Pending(q)
  <2> SUFFICES ASSUME NEW q \in Packets, q[1] = d PROVE ~Pending(q)
    OBVIOUS
  <2>1. q[2] \in 0 .. 3 /\ q = <<d, q[2]>>
    BY DEF Packets
  <2> QED
    BY <2>1 DEF InUse
<1>2. p \in Packets /\ p[1] = d /\ p[2] = 0
  BY DEF Packets
<1> HIDE DEF p
<1>3. \A q \in Packets : InCell(q)' <=> InCell(q)
  BY DEF InCell
<1>4. \A q \in Packets : InGap(q)' <=> (InGap(q) \/ q = p)
  BY DEF InGap, TypeOK, p
<1>5. \A q \in Packets : Pending(q)' <=> (Pending(q) \/ q = p)
  BY <1>3, <1>4 DEF Pending
<1>6. tpc = "sleep" /\ \A q : ~Reported(q) /\ ~Reported(q)'
  BY DEF LockFree, Reported
<1>7. OnePlace'
  <2>1. \A q \in Packets : InGap(q)' => ~InCell(q)'
    BY <1>1, <1>2, <1>3, <1>4 DEF OnePlace, Pending
  <2>2. \A q \in Packets : \A r, s \in alive' :
            q \in heap'[r].pkts /\ q \in heap'[s].pkts => r = s
    BY DEF OnePlace
  <2>3. ASSUME NEW q \in Packets, NEW u \in Threads, NEW v \in Threads,
               pc'[u] = "miss", pc'[v] = "miss", job'[u].pkt = q, job'[v].pkt = q
        PROVE  u = v
    <3>1. ASSUME NEW w \in Threads, w # t
          PROVE  pc'[w] = pc[w] /\ job'[w] = job[w]
      BY <3>1 DEF TypeOK
    <3>2. job'[t].pkt = p
      BY DEF TypeOK, p
    <3>3. \A w \in Threads : pc[w] = "miss" => job[w].pkt # p
      BY <1>1, <1>2 DEF Pending, InGap
    <3> QED
      BY <2>3, <3>1, <3>2, <3>3 DEF OnePlace
  <2> QED
    BY <2>1, <2>2, <2>3 DEF OnePlace
<1>8. OneLevel'
  BY <1>1, <1>2, <1>5, <1>6 DEF OneLevel
<1>9. StillToReport' /\ AskedOut' /\ HopKnown'
  BY <1>6 DEF StillToReport, AskedOut, HopKnown
<1>10. FateKnown'
  <2> SUFFICES ASSUME NEW e \in Data, Pending(<<e, 0>>)'
               PROVE  IF Reported(<<e, 0>>)' THEN GivenUp(e)'
                      ELSE fate'[e] = IF pc'[Main] = "free" /\ <<e, 0>> \in heap'[held'].pkts
                                      THEN "sent" ELSE "pending"
    BY DEF FateKnown
  <2>1. <<e, 0>> \in Packets
    BY DEF Packets
  <2>2. pc'[Main] = "free" <=> pc[Main] = "free"
    BY DEF TypeOK
  <2>3. CASE e = d
    <3>1. ~Pending(p)
      BY <1>1, <1>2
    <3>2. pc[Main] = "free" => p \notin heap[held].pkts
      BY <3>1 DEF Pending, InCell, NoDanglingRequest
    <3>3. fate'[d] = "pending"
      BY DEF TypeOK
    <3> QED
      BY <1>6, <2>2, <2>3, <3>2, <3>3 DEF p
  <2>4. CASE e # d
    <3>1. Pending(<<e, 0>>) /\ fate'[e] = fate[e]
      BY <1>5, <2>1, <2>4 DEF TypeOK, p
    <3> QED
      BY <1>6, <2>2, <3>1 DEF FateKnown
  <2> QED
    BY <2>3, <2>4
<1> QED
  BY <1>7, <1>8, <1>9, <1>10

\* Where packets are after queuereq has put p on the request q.
LEMMA QueuedPending ==
    ASSUME TypeOK, NoDanglingRequest, NEW q \in Rids, NEW ip, NEW p \in Packets,
           QueuedOn(q, ip, p)
    PROVE  /\ \A x \in Packets : InCell(x)' <=> (InCell(x) \/ x = p)
           /\ \A x \in Packets, r \in alive' :
                x \in heap'[r].pkts <=> (r \in alive /\ x \in heap[r].pkts) \/ (r = q /\ x = p)
<1>1. \A x \in Packets, r \in alive' :
         x \in heap'[r].pkts <=> (r \in alive /\ x \in heap[r].pkts) \/ (r = q /\ x = p)
  <2> SUFFICES ASSUME NEW x \in Packets, NEW r \in alive'
               PROVE x \in heap'[r].pkts
                       <=> (r \in alive /\ x \in heap[r].pkts) \/ (r = q /\ x = p)
    OBVIOUS
  <2>1. CASE r = q
    BY <2>1 DEF QueuedOn, NoDanglingRequest
  <2>2. CASE r # q
    BY <2>2 DEF QueuedOn, TypeOK
  <2> QED
    BY <2>1, <2>2
<1>2. q \in alive' /\ alive \subseteq alive'
  BY DEF QueuedOn
<1> QED
  BY <1>1, <1>2 DEF InCell

LEMMA EnqueuePlaces ==
    ASSUME IInv, PlacesInv, NEW t \in Threads, Enqueue(t)
    PROVE  /\ PlacesInv'
           /\ \A x \in Packets : Pending(x)' <=> Pending(x)
<1> DEFINE ip == job[t].hop
           p  == job[t].pkt
<1> USE DEF IInv, PlacesInv, Enqueue, Goto, LockFree, timer
<1>1. ip \in Hops /\ p \in Packets /\ p[2] = 0
  BY DEF MissJobs, Job
<1>2. PICK q \in Rids : QueuedOn(q, ip, p)
  BY <1>1, QueueReqShape
<1>3. /\ \A x \in Packets : InCell(x)' <=> (InCell(x) \/ x = p)
      /\ \A x \in Packets, r \in alive' :
            x \in heap'[r].pkts <=> (r \in alive /\ x \in heap[r].pkts) \/ (r = q /\ x = p)
  BY <1>1, <1>2, QueuedPending
<1>4. InGap(p) /\ ~InCell(p)
  BY <1>1 DEF InGap, OnePlace
<1>5. /\ \A u \in Threads : u # t => pc'[u] = pc[u] /\ job'[u] = job[u]
      /\ pc'[t] = "idle"
  BY DEF TypeOK
<1>6. \A u \in Threads : pc[u] = "miss" /\ job[u].pkt = p => u = t
  BY <1>1 DEF OnePlace
<1> HIDE DEF ip, p
<1>7. \A x \in Packets : InGap(x)' <=> (InGap(x) /\ x # p)
  BY <1>5, <1>6 DEF InGap, p
<1>8. \A x \in Packets : Pending(x)' <=> Pending(x)
  BY <1>1, <1>3, <1>4, <1>7 DEF Pending
<1>9. \A x : ~Reported(x) /\ ~Reported(x)'
  BY DEF Reported
<1>10. OnePlace'
  <2>1. \A x \in Packets : \A r, s \in alive' :
            x \in heap'[r].pkts /\ x \in heap'[s].pkts => r = s
    BY <1>1, <1>3, <1>4 DEF OnePlace, InCell
  <2>2. \A x \in Packets : InGap(x)' => ~InCell(x)'
    BY <1>3, <1>7 DEF OnePlace
  <2>3. \A x \in Packets, u, v \in Threads :
            pc'[u] = "miss" /\ pc'[v] = "miss" /\ job'[u].pkt = x /\ job'[v].pkt = x => u = v
    BY <1>5 DEF OnePlace
  <2> QED
    BY <2>1, <2>2, <2>3 DEF OnePlace
<1>11. OneLevel'
  BY <1>8, <1>9 DEF OneLevel
<1>12. StillToReport' /\ AskedOut'
  BY DEF StillToReport, AskedOut
<1>13. HopKnown'
  BY <1>1, <1>2 DEF HopKnown, QueuedOn, TypeOK
<1>14. FateKnown'
  <2> SUFFICES ASSUME NEW e \in Data, Pending(<<e, 0>>)'
               PROVE  IF Reported(<<e, 0>>)' THEN GivenUp(e)'
                      ELSE fate'[e] = IF pc'[Main] = "free" /\ <<e, 0>> \in heap'[held'].pkts
                                      THEN "sent" ELSE "pending"
    BY DEF FateKnown
  <2>1. <<e, 0>> \in Packets
    BY DEF Packets
  <2>2. pc'[Main] = "free" <=> pc[Main] = "free"
    BY <1>5 DEF TypeOK
  <2>3. pc[Main] = "free" => heap'[held'] = heap[held]
    BY <1>2 DEF QueuedOn, NoDanglingRequest, TypeOK
  <2> QED
    BY <1>8, <1>9, <2>1, <2>2, <2>3 DEF FateKnown
<1> QED
  BY <1>8, <1>10, <1>11, <1>12, <1>13, <1>14

LEMMA SendPendingPlaces ==
    ASSUME IInv, PlacesInv, SendPending
    PROVE  PlacesInv'
<1> USE DEF IInv, PlacesInv, SendPending, Goto, store, timer
<1>1. SamePlaces
  BY DEF SamePlaces, TypeOK
<1>2. \A p \in Packets : Pending(p)' <=> Pending(p)
  BY <1>1, SamePending
<1>3. OnePlace' /\ HopKnown'
  BY <1>1, SameOnePlace
<1>4. \A p : Reported(p)' <=> Reported(p)
  BY DEF Reported
<1>5. OneLevel' /\ StillToReport' /\ AskedOut'
  BY <1>2, <1>4 DEF OneLevel, StillToReport, AskedOut
<1>6. FateKnown'
  <2> SUFFICES ASSUME NEW e \in Data, Pending(<<e, 0>>)'
               PROVE  IF Reported(<<e, 0>>)' THEN GivenUp(e)'
                      ELSE fate'[e] = IF pc'[Main] = "free" /\ <<e, 0>> \in heap'[held'].pkts
                                      THEN "sent" ELSE "pending"
    BY DEF FateKnown
  <2>1. <<e, 0>> \in Packets
    BY DEF Packets
  <2>2. pc'[Main] = "free" /\ held' = held /\ heap' = heap
    BY DEF TypeOK
  <2>3. held \in alive \ queue /\ (tpc = "report" => cur \in queue /\ cur \in alive)
    BY DEF NoDanglingRequest
  <2>4. CASE <<e, 0>> \in heap[held].pkts
    <3>1. ~Reported(<<e, 0>>)
      BY <2>1, <2>3, <2>4 DEF Reported, OnePlace
    <3> QED
      BY <1>4, <2>2, <2>4, <3>1 DEF TypeOK
  <2>5. CASE <<e, 0>> \notin heap[held].pkts
    <3>1. fate'[e] = fate[e] /\ Pending(<<e, 0>>)
      BY <1>2, <2>1, <2>5 DEF TypeOK
    <3> QED
      BY <1>4, <2>2, <2>5, <3>1 DEF FateKnown, GivenUp
  <2> QED
    BY <2>4, <2>5
<1> QED
  BY <1>3, <1>5, <1>6

\* Freeing r removes the packets on r and no others.
LEMMA DestroyPending ==
    ASSUME IInv, OnePlace, NEW r \in alive, Destroy(r), UNCHANGED job,
           \A t \in Threads : (pc'[t] = "miss") <=> (pc[t] = "miss")
    PROVE  /\ \A p \in Packets : Pending(p)' <=> Pending(p) /\ p \notin heap[r].pkts
           /\ OnePlace'
<1> USE DEF IInv
<1>1. r \in Rids
  BY DEF TypeOK
<1>2. /\ \A s \in Rids : s # r => heap'[s] = heap[s]
      /\ alive' = alive \ {r} /\ alive \subseteq Rids
  BY <1>1, DestroyShape DEF TypeOK
<1>3. \A p : InGap(p)' <=> InGap(p)
  BY DEF InGap
<1>4. \A p \in Packets : InCell(p)' <=> InCell(p) /\ p \notin heap[r].pkts
  BY <1>2 DEF InCell, OnePlace
<1>5. \A p \in Packets : InGap(p) => p \notin heap[r].pkts
  BY DEF OnePlace, InCell
<1>6. \A p \in Packets : Pending(p)' <=> Pending(p) /\ p \notin heap[r].pkts
  BY <1>3, <1>4, <1>5 DEF Pending
<1>7. OnePlace'
  <2>1. \A p \in Packets : \A s, u \in alive' :
            p \in heap'[s].pkts /\ p \in heap'[u].pkts => s = u
    BY <1>2 DEF OnePlace
  <2>2. \A p \in Packets : InGap(p)' => ~InCell(p)'
    BY <1>3, <1>4 DEF OnePlace
  <2>3. \A p \in Packets, t, u \in Threads :
            pc'[t] = "miss" /\ pc'[u] = "miss" /\ job'[t].pkt = p /\ job'[u].pkt = p => t = u
    BY DEF OnePlace
  <2> QED
    BY <2>1, <2>2, <2>3 DEF OnePlace
<1> QED
  BY <1>6, <1>7

LEMMA DestroyHeldPlaces ==
    ASSUME IInv, PlacesInv, DestroyHeld
    PROVE  /\ PlacesInv'
           /\ \A p \in Packets : Pending(p)' <=> Pending(p) /\ p \notin heap[held].pkts
<1> USE DEF IInv, PlacesInv, DestroyHeld, Goto, timer, LockFree
<1>1. held \in alive /\ held \in Rids
  BY DEF NoDanglingRequest, TypeOK
<1>2. \A t \in Threads : (pc'[t] = "miss") <=> (pc[t] = "miss")
  BY DEF TypeOK
<1>3. /\ \A p \in Packets : Pending(p)' <=> Pending(p) /\ p \notin heap[held].pkts
      /\ OnePlace'
  BY <1>1, <1>2, DestroyPending
<1>4. \A p : ~Reported(p) /\ ~Reported(p)'
  BY DEF Reported
<1>5. OneLevel' /\ StillToReport' /\ AskedOut'
  BY <1>3, <1>4 DEF OneLevel, StillToReport, AskedOut
<1>6. HopKnown'
  BY <1>1, DestroyShape DEF HopKnown, TypeOK
<1>7. FateKnown'
  <2>1. pc'[Main] = "idle"
    BY DEF TypeOK
  <2>2. \A d \in Data : <<d, 0>> \in Packets
    BY DEF Packets
  <2> QED
    BY <1>3, <1>4, <2>1, <2>2 DEF FateKnown
<1> QED
  BY <1>3, <1>5, <1>6, <1>7

LEMMA DestroyCurPlaces ==
    ASSUME IInv, PlacesInv, DestroyCur
    PROVE  /\ PlacesInv'
           /\ \A p \in Packets : Pending(p)' <=> Pending(p) /\ p \notin heap[cur].pkts
<1> USE DEF IInv, PlacesInv, DestroyCur
<1>1. cur \in alive /\ cur \in Rids /\ cur \in queue
  BY DEF NoDanglingRequest, TypeOK
<1>2. /\ \A p \in Packets : Pending(p)' <=> Pending(p) /\ p \notin heap[cur].pkts
      /\ OnePlace'
  BY <1>1, DestroyPending
<1>3. \A p : (Reported(p) <=> p \in heap[cur].pkts) /\ ~Reported(p)'
  BY DEF Reported
<1>4. OneLevel' /\ StillToReport' /\ AskedOut'
  BY <1>2, <1>3 DEF OneLevel, StillToReport, AskedOut
<1>5. HopKnown'
  BY <1>1, DestroyShape DEF HopKnown, TypeOK
<1>6. FateKnown'
  <2> SUFFICES ASSUME NEW e \in Data, Pending(<<e, 0>>)'
               PROVE  IF Reported(<<e, 0>>)' THEN GivenUp(e)'
                      ELSE fate'[e] = IF pc'[Main] = "free" /\ <<e, 0>> \in heap'[held'].pkts
                                      THEN "sent" ELSE "pending"
    BY DEF FateKnown
  <2>1. <<e, 0>> \in Packets
    BY DEF Packets
  <2>2. Pending(<<e, 0>>) /\ ~Reported(<<e, 0>>)
    BY <1>2, <1>3, <2>1
  <2>3. pc[Main] = "free" => heap'[held] = heap[held]
    BY <1>1, DestroyShape DEF NoDanglingRequest, TypeOK
  <2> QED
    BY <1>3, <2>2, <2>3 DEF FateKnown
<1> QED
  BY <1>2, <1>4, <1>5, <1>6

\* The request that is given up was asked for often enough, and nothing on it
\* has an error yet.
LEMMA GiveUpPlaces ==
    ASSUME IInv, PlacesInv, NEW r \in todo, GiveUp(r)
    PROVE  PlacesInv' /\ SamePlaces
<1> USE DEF IInv, PlacesInv, GiveUp, store
<1>1. r \in Rids /\ r \in alive
  BY DEF NoDanglingRequest, TypeOK
<1>2. SamePlaces
  BY DEF SamePlaces
<1>3. \A p \in Packets : Pending(p)' <=> Pending(p)
  BY <1>2, SamePending
<1>4. OnePlace' /\ HopKnown'
  BY <1>2, SameOnePlace
<1>5. \A p : ~Reported(p) /\ ~Reported(p)'
  BY DEF Reported
<1>6. OneLevel'
  BY <1>3, <1>5 DEF OneLevel
<1>7. StillToReport'
  <2> SUFFICES ASSUME NEW p \in heap[r].pkts, NEW q \in Packets, Pending(q), p[1] = q[1]
               PROVE  p = q
    BY <1>3 DEF StillToReport
  <2>1. p \in Packets /\ Pending(p)
    BY <1>1 DEF TypeOK, Request, Pending, InCell
  <2>2. p = <<p[1], p[2]>> /\ q = <<q[1], q[2]>> /\ p[2] \in 0 .. 3 /\ q[2] \in 0 .. 3
    BY <2>1 DEF Packets
  <2>3. ~(p[2] < q[2]) /\ ~(q[2] < p[2])
    BY <1>5, <2>1 DEF OneLevel
  <2> QED
    BY <2>2, <2>3
<1>8. AskedOut'
  <2>1. heap[r].times \in 0 .. MaxSent
    BY <1>1 DEF TypeOK, Request
  <2> QED
    BY <2>1 DEF AskedOut
<1>9. FateKnown'
  BY <1>3, <1>5 DEF FateKnown, Packets
<1> QED
  BY <1>2, <1>4, <1>6, <1>7, <1>8, <1>9

\* One ICMP error: about a packet that is the only one of its kind, so the
\* error is new, and from then on it may wait beside that packet.
LEMMA ReportPlaces ==
    ASSUME IInv, PlacesInv, NEW p \in unreported, Report(p)
    PROVE  PlacesInv'
<1> USE DEF IInv, PlacesInv, Report
<1> DEFINE e == ErrorOf(p)
<1>1. p \in Packets /\ cur \in Rids /\ cur \in queue /\ cur \in alive
      /\ p \in heap[cur].pkts /\ Pending(p)
  BY DEF TypeOK, NoDanglingRequest, StillToReport, Pending, InCell
<1>2. p[1] \in Data /\ p[2] \in 0 .. 2 /\ p = <<p[1], p[2]>>
  BY <1>1 DEF CascadeEnds, Packets
<1>3. e \in Packets /\ e[1] = p[1] /\ e[2] = p[2] + 1
  BY <1>2 DEF ErrorOf, Packets
<1>4. ErrorHop(p) \in Hops
  BY <1>2 DEF ErrorHop, Hops
<1>5. \A x \in Packets : Pending(x) /\ x[1] = p[1] => x = p
  BY DEF StillToReport
<1>6. ~Pending(e)
  BY <1>2, <1>3, <1>5
<1> HIDE DEF e
<1>7. \A d \in Data : /\ p # <<d, 0>> => fate'[d] = fate[d]
                      /\ p = <<d, 0>> => \/ fate'[d] = "reported"
                                         \/ fate'[d] = "muted" /\ heap[cur].ip = BackHop[d]
  BY <1>2 DEF TypeOK, Muted, ErrorHop
<1>8. \A x : InGap(x)' <=> InGap(x)
  BY DEF InGap
<1>9. CASE UNCHANGED <<heap, alive, queue>>
  <2>1. SamePlaces
    BY <1>9 DEF SamePlaces
  <2>2. \A x \in Packets : Pending(x)' <=> Pending(x)
    BY <2>1, SamePending
  <2>3. OnePlace' /\ HopKnown'
    BY <2>1, SameOnePlace
  <2>4. \A x : Reported(x)' <=> Reported(x) \/ x = p
    BY <1>1, <1>9 DEF Reported
  <2>5. OneLevel' /\ StillToReport' /\ AskedOut'
    BY <1>9, <2>2, <2>4 DEF OneLevel, StillToReport, AskedOut
  <2>6. FateKnown'
    BY <1>7, <1>9, <2>2, <2>4 DEF FateKnown, GivenUp, Packets
  <2> QED
    BY <2>3, <2>5, <2>6
<1>10. CASE QueueReq(ErrorHop(p), e)
  <2>1. PICK q \in Rids : QueuedOn(q, ErrorHop(p), e)
    BY <1>3, <1>4, <1>10, QueueReqShape
  <2>2. /\ \A x \in Packets : InCell(x)' <=> (InCell(x) \/ x = e)
        /\ \A x \in Packets, r \in alive' :
            x \in heap'[r].pkts <=> (r \in alive /\ x \in heap[r].pkts) \/ (r = q /\ x = e)
    BY <1>3, <2>1, QueuedPending
  <2>3. \A x \in Packets : Pending(x)' <=> Pending(x) \/ x = e
    BY <1>8, <2>2 DEF Pending
  <2>4. ~InGap(e) /\ ~InCell(e)
    BY <1>6 DEF Pending
  <2>5. OnePlace'
    <3>1. \A x \in Packets : \A r, s \in alive' :
              x \in heap'[r].pkts /\ x \in heap'[s].pkts => r = s
      BY <2>2, <2>4 DEF OnePlace, InCell
    <3>2. \A x \in Packets : InGap(x)' => ~InCell(x)'
      BY <1>8, <2>2, <2>4 DEF OnePlace
    <3>3. \A x \in Packets, t, u \in Threads :
              pc'[t] = "miss" /\ pc'[u] = "miss" /\ job'[t].pkt = x /\ job'[u].pkt = x => t = u
      BY DEF OnePlace
    <3> QED
      BY <3>1, <3>2, <3>3 DEF OnePlace
  <2>6. cur \in alive' /\ heap[cur].pkts \subseteq Packets /\ heap'[cur].pkts \subseteq Packets
    BY <1>1, <2>1 DEF QueuedOn, TypeOK, Request
  <2>7. heap[cur].pkts \subseteq heap'[cur].pkts /\ heap'[cur].times = heap[cur].times
    BY <1>1, <2>1 DEF QueuedOn, TypeOK
  <2>8. \A x \in Packets : x # e => (Reported(x)' <=> Reported(x) \/ x = p)
    BY <1>1, <2>2, <2>6 DEF Reported
  <2>9. OneLevel'
    <3> SUFFICES ASSUME NEW x \in Packets, NEW y \in Packets,
                        Pending(x)', Pending(y)', x[1] = y[1], x[2] < y[2]
                 PROVE  Reported(x)'
      BY DEF OneLevel
    <3>1. CASE x = e
      BY <1>2, <1>3, <1>5, <2>3, <3>1
    <3>2. CASE x # e /\ y = e
      BY <1>3, <1>5, <2>3, <2>8, <3>2
    <3>3. CASE x # e /\ y # e
      BY <2>3, <2>8, <3>3 DEF OneLevel
    <3> QED
      BY <3>1, <3>2, <3>3
  <2>10. StillToReport'
    <3> SUFFICES ASSUME NEW x \in unreported, x # p, NEW y \in Packets,
                        Pending(y)', x[1] = y[1]
                 PROVE  x = y
      BY <2>7 DEF StillToReport
    <3>1. x \in Packets /\ x \in heap[cur].pkts /\ Pending(x)
      BY <1>1 DEF TypeOK, StillToReport, Pending, InCell
    <3>2. y # e
      BY <1>3, <1>5, <3>1
    <3> QED
      BY <2>3, <3>2 DEF StillToReport
  <2>11. AskedOut' /\ HopKnown'
    BY <1>4, <2>1, <2>7 DEF AskedOut, HopKnown, QueuedOn, TypeOK
  <2>12. FateKnown'
    <3> SUFFICES ASSUME NEW d \in Data, Pending(<<d, 0>>)'
                 PROVE  IF Reported(<<d, 0>>)' THEN GivenUp(d)'
                        ELSE fate'[d] = IF pc'[Main] = "free" /\ <<d, 0>> \in heap'[held'].pkts
                                        THEN "sent" ELSE "pending"
      BY DEF FateKnown
    <3>1. <<d, 0>> \in Packets /\ <<d, 0>> # e /\ Pending(<<d, 0>>)
      BY <1>2, <1>3, <2>3 DEF Packets
    <3>2. pc[Main] = "free" => heap'[held'] = heap[held]
      BY <2>1 DEF QueuedOn, NoDanglingRequest, TypeOK
    <3>3. heap'[cur].ip = heap[cur].ip /\ cur' = cur
      BY <1>1, <2>1 DEF QueuedOn, TypeOK
    <3> QED
      BY <1>7, <2>8, <3>1, <3>2, <3>3 DEF FateKnown, GivenUp
  <2> QED
    BY <2>5, <2>9, <2>10, <2>11, <2>12
<1> QED
  BY <1>9, <1>10 DEF e

LEMMA PlacesInit == Init => PlacesInv
<1> SUFFICES ASSUME Init PROVE PlacesInv
  OBVIOUS
<1>1. \A p : ~InGap(p) /\ ~InCell(p) /\ ~Pending(p)
  BY DEF Init, InGap, InCell, Pending
<1>2. OnePlace /\ OneLevel /\ FateKnown /\ HopKnown
  BY <1>1 DEF Init, OnePlace, OneLevel, FateKnown, HopKnown
<1>3. StillToReport /\ AskedOut
  BY DEF Init, StillToReport, AskedOut
<1> QED
  BY <1>2, <1>3 DEF PlacesInv

LEMMA PlacesNext == IInv /\ PlacesInv /\ [Next]_vars => PlacesInv'
<1> SUFFICES ASSUME IInv, PlacesInv, [Next]_vars PROVE PlacesInv'
  OBVIOUS
<1>1. ASSUME NEW t \in Threads, Send(t) \/ Enqueue(t) PROVE PlacesInv'
  BY <1>1, QuietStep, MissPlaces, EnqueuePlaces DEF Send
<1>2. CASE \/ \E ip \in Askers : ArpRequest(ip)
           \/ \E ip \in Hosts : ArpReply(ip)
  BY <1>2, QuietStep
<1>3. CASE SendPending \/ DestroyHeld \/ Wake \/ Tick \/ UNCHANGED vars
  BY <1>3, SendPendingPlaces, DestroyHeldPlaces, QuietStep
<1>4. CASE Sweep
  BY <1>4, QuietStep, GiveUpPlaces, ReportPlaces, DestroyCurPlaces DEF Sweep
<1> QED
  BY <1>1, <1>2, <1>3, <1>4 DEF Next

\* The second inductive invariant.
THEOREM PlacesInvariant == Spec => []PlacesInv
<1> QED
  BY PlacesInit, PlacesNext, Invariant, PTL DEF Spec

\* No packet waits in two places, so none is sent or freed twice, for any
\* number of threads (sr_arp.c:8-36, sr_arpcache.c:148-187).
THEOREM SinglePlace == Spec => []OnePlace
<1>1. PlacesInv => OnePlace
  BY DEF PlacesInv
<1> QED
  BY <1>1, PlacesInvariant, PTL

\* Which packets a step may remove from the cache.
LEMMA PendingStep ==
    ASSUME IInv, PlacesInv, [Next]_vars, NEW p \in Packets, Pending(p), ~Pending(p)'
    PROVE  \/ DestroyHeld /\ p \in heap[held].pkts
           \/ DestroyCur /\ p \in heap[cur].pkts
<1> USE DEF IInv, PlacesInv
<1>1. ~SamePlaces
  BY SamePending
<1>2. ~SendPending
  BY <1>1 DEF SendPending, SamePlaces, store, Goto, TypeOK
<1>3. ASSUME NEW t \in Threads, NEW d \in Data, NEW ip \in Hops PROVE ~LookupMiss(t, d, ip)
  <2> SUFFICES ASSUME LookupMiss(t, d, ip) PROVE Pending(p)'
    OBVIOUS
  <2>1. InCell(p) => InCell(p)'
    BY DEF LookupMiss, InCell, store
  <2>2. InGap(p) => InGap(p)'
    BY DEF LookupMiss, InGap, Goto, TypeOK
  <2> QED
    BY <2>1, <2>2 DEF Pending
<1>4. ASSUME NEW ip \in Hops, NEW e \in Packets, QueueReq(ip, e), InCell(p) \/ p = e
      PROVE  FALSE
  <2>1. PICK q \in Rids : QueuedOn(q, ip, e)
    BY <1>4, QueueReqShape
  <2>2. InCell(p)'
    BY <1>4, <2>1, QueuedPending
  <2> QED
    BY <2>2 DEF Pending
<1>5. ASSUME NEW t \in Threads, Enqueue(t) PROVE FALSE
  <2>1. job[t].hop \in Hops /\ job[t].pkt \in Packets
    BY <1>5 DEF Enqueue, MissJobs, Job
  <2>2. ~InCell(p) /\ p # job[t].pkt
    BY <1>4, <1>5, <2>1 DEF Enqueue
  <2>3. PICK u \in Threads : pc[u] = "miss" /\ job[u].pkt = p
    BY <2>2 DEF Pending, InGap
  <2>4. pc'[u] = "miss" /\ job'[u].pkt = p
    BY <1>5, <2>2, <2>3 DEF Enqueue, Goto, TypeOK
  <2> QED
    BY <2>4 DEF Pending, InGap
<1>6. ASSUME NEW x \in unreported, Report(x) PROVE FALSE
  <2>1. x[1] \in Data /\ x[2] \in 0 .. 2
    BY DEF TypeOK, CascadeEnds, Packets
  <2>2. ErrorOf(x) \in Packets /\ ErrorHop(x) \in Hops
    BY <2>1 DEF ErrorOf, ErrorHop, Packets, Hops
  <2>3. QueueReq(ErrorHop(x), ErrorOf(x))
    BY <1>1, <1>6 DEF Report, SamePlaces
  <2>4. InGap(p)' <=> InGap(p)
    BY <1>6 DEF Report, InGap
  <2> QED
    BY <1>4, <2>2, <2>3, <2>4 DEF Pending
<1>7. ASSUME NEW r \in todo PROVE ~GiveUp(r)
  BY <1>1, GiveUpPlaces
<1>8. DestroyHeld \/ DestroyCur
  <2>1. ~(\/ \E t \in Threads, d \in Data, ip \in Hops : LookupHit(t, d, ip)
          \/ \E ip \in Hosts : ArpRequest(ip) \/ ArpReply(ip)
          \/ Wake \/ SweepEnd \/ Tick
          \/ \E r \in todo : TooSoon(r) \/ SendRequest(r)
          \/ UNCHANGED vars)
    BY <1>1, QuietStep
  <2> QED
    BY <2>1, <1>2, <1>3, <1>5, <1>6, <1>7 DEF Next, Send, Sweep
<1> QED
  BY <1>8, DestroyHeldPlaces, DestroyCurPlaces

\* A packet that waits is freed only after it has been sent or an ICMP error
\* about it has been sent or queued; the error is lost only when the source is
\* behind the hop that does not answer (sr_router.c:186-209,
\* sr_arpcache.c:81-112).
THEOREM NothingDropped == Spec => NoSilentDrop
<1>1. ASSUME IInv, PlacesInv, [Next]_vars, NEW d \in Data,
             Pending(<<d, 0>>), ~Pending(<<d, 0>>)'
      PROVE  \/ fate'[d] \in {"sent", "reported"}
             \/ fate'[d] = "muted" /\ heap[cur].ip = BackHop[d]
  <2> USE DEF IInv, PlacesInv
  <2>1. <<d, 0>> \in Packets
    BY DEF Packets
  <2>2. CASE DestroyHeld /\ <<d, 0>> \in heap[held].pkts
    <3>1. fate[d] = "sent"
      BY <1>1, <2>2 DEF FateKnown, DestroyHeld, LockFree, Reported
    <3> QED
      BY <2>2, <3>1 DEF DestroyHeld
  <2>3. CASE DestroyCur /\ <<d, 0>> \in heap[cur].pkts
    <3>1. GivenUp(d)
      BY <1>1, <2>3 DEF FateKnown, DestroyCur, Reported
    <3> QED
      BY <2>3, <3>1 DEF DestroyCur, GivenUp
  <2> QED
    BY <1>1, <2>1, <2>2, <2>3, PendingStep
<1>2. IInv /\ PlacesInv /\ [Next]_vars =>
        [\A d \in Data : Pending(<<d, 0>>) /\ ~Pending(<<d, 0>>)' =>
            \/ fate'[d] \in {"sent", "reported"}
            \/ fate'[d] = "muted" /\ heap[cur].ip = BackHop[d]]_vars
  BY <1>1
<1> QED
  BY <1>2, Invariant, PlacesInvariant, PTL DEF Spec, NoSilentDrop

\* A packet is reported undeliverable only after its request went out MaxSent
\* times (sr_arpcache.c:81-103).
THEOREM AskedOutFirst == Spec => AskedBeforeReport
<1>1. ASSUME IInv, PlacesInv, [Next]_vars, NEW d \in Data,
             fate'[d] # fate[d], fate'[d] \in {"reported", "muted"}
      PROVE  heap[cur].times = MaxSent
  <2> USE DEF IInv, PlacesInv
  <2>1. PICK p \in unreported : Report(p)
    BY <1>1 DEF Next, vars, Send, Enqueue, LookupHit, LookupMiss, ArpRequest, ArpReply,
                SendPending, DestroyHeld, Wake, Tick, Sweep, TooSoon, SendRequest, GiveUp,
                DestroyCur, SweepEnd, TypeOK
  <2> QED
    BY <1>1, <2>1 DEF Report, AskedOut
<1>2. IInv /\ PlacesInv /\ [Next]_vars =>
        [\A d \in Data : fate'[d] # fate[d] /\ fate'[d] \in {"reported", "muted"}
            => heap[cur].times = MaxSent]_vars
  BY <1>1
<1> QED
  BY <1>2, Invariant, PlacesInvariant, PTL DEF Spec, AskedBeforeReport

-----------------------------------------------------------------------------
(* The cache implements Resolution.                                         *)

\* The hop a waiting packet waits for is the only one there is.
Waits(d) == fate[d] = "pending" /\ Pending(<<d, 0>>)
WaitsForOneHop ==
    \A d \in Data :
        /\ ~Waits(d) => WaitsFor[d] = NoIP
        /\ Waits(d) => WaitsFor[d] \in HopsOf(<<d, 0>>) \cap Hops
        /\ Waits(d) => \A h \in HopsOf(<<d, 0>>) : WaitsFor[d] = h

LEMMA DataPackets == \A d \in Data : <<d, 0>> \in Packets
  BY DEF Packets

LEMMA OneHop == IInv /\ PlacesInv => WaitsForOneHop
<1> SUFFICES ASSUME IInv, PlacesInv, NEW d \in Data
             PROVE  /\ ~Waits(d) => WaitsFor[d] = NoIP
                    /\ Waits(d) => WaitsFor[d] \in HopsOf(<<d, 0>>) \cap Hops
                    /\ Waits(d) => \A h \in HopsOf(<<d, 0>>) : WaitsFor[d] = h
  BY DEF WaitsForOneHop
<1> USE DEF IInv, PlacesInv
<1> DEFINE p == <<d, 0>>
<1>1. p \in Packets
  BY DEF Packets
<1>2. WaitsFor[d] = IF Waits(d) THEN CHOOSE h \in HopsOf(p) : TRUE ELSE NoIP
  BY DEF WaitsFor, Waits
<1> HIDE DEF p
<1>3. Pending(p) => HopsOf(p) # {}
  <2>1. ASSUME NEW t \in Threads, pc[t] = "miss", job[t].pkt = p
        PROVE  job[t].hop \in HopsOf(p)
    BY <2>1 DEF HopsOf
  <2>2. ASSUME NEW r \in alive, p \in heap[r].pkts
        PROVE  heap[r].ip \in HopsOf(p)
    BY <2>2 DEF HopsOf
  <2> QED
    BY <2>1, <2>2 DEF Pending, InGap, InCell
<1>4. HopsOf(p) \subseteq Hops
  BY DEF HopsOf, HopKnown, MissJobs, Job
<1>5. \A g, h \in HopsOf(p) : g = h
  BY <1>1 DEF HopsOf, OnePlace, InGap, InCell
<1>6. Waits(d) => HopsOf(p) # {}
  BY <1>3 DEF Waits, p
<1>7. Waits(d) => WaitsFor[d] \in HopsOf(p)
  BY <1>2, <1>6
<1> QED
  BY <1>2, <1>4, <1>5, <1>7 DEF p

LEMMA OneHopNext == IInv' /\ PlacesInv' => WaitsForOneHop'
  BY OneHop, PTL

\* A packet that goes on waiting waits for the same hop.
LEMMA KeepWaits ==
    ASSUME IInv, PlacesInv, IInv', PlacesInv', NEW d \in Data,
           Waits(d)' <=> Waits(d),
           Waits(d) => HopsOf(<<d, 0>>) \subseteq HopsOf(<<d, 0>>)'
    PROVE  WaitsFor'[d] = WaitsFor[d]
<1>1. WaitsForOneHop /\ WaitsForOneHop'
  BY OneHop, OneHopNext
<1>2. CASE Waits(d)
  BY <1>1, <1>2 DEF WaitsForOneHop
<1>3. CASE ~Waits(d)
  BY <1>1, <1>3 DEF WaitsForOneHop
<1> QED
  BY <1>2, <1>3

LEMMA WaitsEqual ==
    ASSUME IInv, PlacesInv, IInv', PlacesInv',
           \A d \in Data : Waits(d)' <=> Waits(d),
           \A d \in Data : Waits(d) => HopsOf(<<d, 0>>) \subseteq HopsOf(<<d, 0>>)'
    PROVE  WaitsFor' = WaitsFor
<1>1. \A d \in Data : WaitsFor'[d] = WaitsFor[d]
  BY KeepWaits
<1> QED
  BY <1>1 DEF WaitsFor

LEMMA SameHops ==
    ASSUME TypeOK, SamePlaces, NEW p
    PROVE  HopsOf(p)' = HopsOf(p)
  BY DEF SamePlaces, HopsOf, TypeOK

\* A step that moves no packet and ends no wait changes nothing the abstract
\* cache tracks of the packets.
LEMMA SameWaits ==
    ASSUME IInv, PlacesInv, IInv', PlacesInv', SamePlaces,
           \A d \in Data : Pending(<<d, 0>>) => fate'[d] = fate[d]
    PROVE  WaitsFor' = WaitsFor
<1>1. \A d \in Data : Pending(<<d, 0>>)' <=> Pending(<<d, 0>>)
  BY SamePending DEF IInv
<1>2. \A d \in Data : Waits(d)' <=> Waits(d)
  BY <1>1 DEF Waits
<1>3. \A d \in Data : HopsOf(<<d, 0>>)' = HopsOf(<<d, 0>>)
  BY SameHops DEF IInv
<1> QED
  BY <1>2, <1>3, WaitsEqual

LEMMA WaitsIsMap ==
    /\ WaitsFor = [d \in Data |-> WaitsFor[d]]
    /\ WaitsFor' = [d \in Data |-> WaitsFor'[d]]
  BY DEF WaitsFor

LEMMA KnownHit ==
    ASSUME NEW ip \in Hops
    PROVE  Hit(ip) <=> ip \in KnownHops
  BY DEF Hit, KnownHops, Hops

LEMMA InitMaps == Init => Abstract!Init
<1> SUFFICES ASSUME Init PROVE Abstract!Init
  OBVIOUS
<1>1. KnownHops = {}
  BY DEF Init, KnownHops, Empty
<1>2. Serving = NoIP
  BY DEF Init, Serving
<1>3. WaitsFor = [d \in Data |-> NoIP]
  BY DEF Init, WaitsFor
<1> QED
  BY <1>1, <1>2, <1>3 DEF Init, Abstract!Init

LEMMA HitMaps ==
    ASSUME IInv, PlacesInv, IInv', PlacesInv', NEW t \in Threads,
           NEW d \in Data, NEW ip \in Hops, LookupHit(t, d, ip)
    PROVE  Abstract!Pass(d, ip)
<1> USE DEF LookupHit, store, timer
<1>1. SamePlaces
  BY DEF SamePlaces
<1>2. ~Pending(<<d, 0>>)
  BY DEF InUse
<1>3. WaitsFor' = WaitsFor
  BY <1>1, <1>2, SameWaits DEF IInv, TypeOK
<1>4. WaitsFor[d] = NoIP
  BY <1>2 DEF WaitsFor
<1>5. KnownHops' = KnownHops /\ Serving' = Serving
  BY DEF KnownHops, Serving
<1> QED
  BY <1>3, <1>4, <1>5, KnownHit DEF Abstract!Pass, Abstract!Waiting

LEMMA MissMaps ==
    ASSUME IInv, PlacesInv, IInv', PlacesInv', NEW t \in Threads,
           NEW d \in Data, NEW ip \in Hops, LookupMiss(t, d, ip)
    PROVE  Abstract!Wait(d, ip)
<1> USE DEF LookupMiss, store, timer, Goto, IInv
<1>1. ~Pending(<<d, 0>>)
  BY DEF InUse
<1>2. WaitsFor[d] = NoIP
  BY <1>1 DEF WaitsFor
<1>3. KnownHops' = KnownHops
  BY DEF KnownHops
<1>4. Serving' = Serving
  BY DEF Serving, TypeOK
<1>5. /\ pc'[t] = "miss" /\ job'[t].pkt = <<d, 0>> /\ job'[t].hop = ip
      /\ \A u \in Threads : u # t => pc'[u] = pc[u] /\ job'[u] = job[u]
      /\ \A e \in Data : fate'[e] = IF e = d THEN "pending" ELSE fate[e]
  BY DEF TypeOK
<1>6. \A e \in Data : e # d => HopsOf(<<e, 0>>)' = HopsOf(<<e, 0>>)
  BY <1>5 DEF HopsOf
<1>7. \A e \in Data : e # d => (Pending(<<e, 0>>)' <=> Pending(<<e, 0>>))
  BY <1>5 DEF Pending, InGap, InCell
<1>8. \A e \in Data : e # d => WaitsFor'[e] = WaitsFor[e]
  BY <1>5, <1>6, <1>7, KeepWaits DEF Waits
<1>9. WaitsFor'[d] = ip
  <2>1. Waits(d)'
    BY <1>5 DEF Waits, Pending, InGap
  <2>2. ip \in HopsOf(<<d, 0>>)'
    BY <1>5 DEF HopsOf
  <2> QED
    BY <2>1, <2>2, OneHopNext DEF WaitsForOneHop
<1>10. WaitsFor' = [WaitsFor EXCEPT ![d] = ip]
  BY <1>8, <1>9, WaitsIsMap
<1> QED
  BY <1>2, <1>3, <1>4, <1>10, KnownHit DEF Abstract!Wait, Abstract!Waiting

\* A step that puts one packet on the request for ip: nobody else's hop moves.
LEMMA QueuedHops ==
    ASSUME TypeOK, NoDanglingRequest, NEW q \in Rids, NEW ip, NEW p \in Packets,
           QueuedOn(q, ip, p), NEW x \in Packets,
           \A t \in Threads : pc[t] = "miss" /\ job[t].pkt = x
                => (pc'[t] = "miss" /\ job'[t] = job[t]) \/ (x = p /\ job[t].hop = ip)
    PROVE  HopsOf(x) \subseteq HopsOf(x)'
<1> SUFFICES ASSUME NEW h \in HopsOf(x) PROVE h \in HopsOf(x)'
  OBVIOUS
<1>1. /\ q \in alive' /\ alive \subseteq alive' /\ heap'[q].ip = ip
      /\ p \in heap'[q].pkts
      /\ \A r \in alive : heap'[r].ip = heap[r].ip /\ heap[r].pkts \subseteq heap'[r].pkts
  BY DEF QueuedOn, TypeOK, NoDanglingRequest
<1>2. CASE \E r \in alive : x \in heap[r].pkts /\ heap[r].ip = h
  BY <1>1, <1>2 DEF HopsOf
<1>3. CASE \E t \in Threads : pc[t] = "miss" /\ job[t].pkt = x /\ job[t].hop = h
  <2>1. PICK t \in Threads : pc[t] = "miss" /\ job[t].pkt = x /\ job[t].hop = h
    BY <1>3
  <2>2. CASE pc'[t] = "miss" /\ job'[t] = job[t]
    BY <2>1, <2>2 DEF HopsOf
  <2>3. CASE x = p /\ h = ip
    BY <1>1, <2>3 DEF HopsOf
  <2> QED
    BY <2>1, <2>2, <2>3
<1> QED
  BY <1>2, <1>3 DEF HopsOf

LEMMA EnqueueMaps ==
    ASSUME IInv, PlacesInv, IInv', PlacesInv', NEW t \in Threads, Enqueue(t)
    PROVE  UNCHANGED <<KnownHops, Serving, WaitsFor, fate>>
<1> DEFINE ip == job[t].hop
           p  == job[t].pkt
<1>0. \A d \in Data : Pending(<<d, 0>>)' <=> Pending(<<d, 0>>)
  BY EnqueuePlaces DEF Packets
<1> USE DEF IInv, Enqueue, Goto, LockFree, timer
<1>1. ip \in Hops /\ p \in Packets /\ p[2] = 0
  BY DEF MissJobs, Job
<1>2. PICK q \in Rids : QueuedOn(q, ip, p)
  BY <1>1, QueueReqShape
<1>3. /\ \A u \in Threads : u # t => pc'[u] = pc[u] /\ job'[u] = job[u]
      /\ pc[t] = "miss" /\ pc'[t] = "idle"
  BY DEF TypeOK
<1>4. \A d \in Data : HopsOf(<<d, 0>>) \subseteq HopsOf(<<d, 0>>)'
  <2> SUFFICES ASSUME NEW d \in Data PROVE HopsOf(<<d, 0>>) \subseteq HopsOf(<<d, 0>>)'
    OBVIOUS
  <2>1. <<d, 0>> \in Packets
    BY DEF Packets
  <2>2. \A u \in Threads : pc[u] = "miss" /\ job[u].pkt = <<d, 0>>
            => (pc'[u] = "miss" /\ job'[u] = job[u]) \/ (<<d, 0>> = p /\ job[u].hop = ip)
    BY <1>3
  <2> HIDE DEF ip, p
  <2> QED
    BY <1>1, <1>2, <2>1, <2>2, QueuedHops
<1>6. WaitsFor' = WaitsFor
  BY <1>0, <1>4, WaitsEqual DEF Waits
<1>7. Serving' = Serving
  <2>1. pc[Main] = "reply" => heap'[held] = heap[held]
    BY <1>2 DEF QueuedOn, NoDanglingRequest, TypeOK
  <2>2. pc'[Main] = "reply" <=> pc[Main] = "reply"
    BY <1>3
  <2> QED
    BY <2>1, <2>2 DEF Serving
<1> QED
  BY <1>6, <1>7 DEF KnownHops

\* The table half of sr_arpcache_insert.
LEMMA StoreKnown ==
    ASSUME IInv, NEW ip \in Hosts, StoreMapping(ip)
    PROVE  KnownHops' \in {KnownHops, KnownHops \cup {ip}}
<1>1. CASE entries' = entries
  BY <1>1 DEF KnownHops
<1>2. CASE \E s \in Slots : /\ entries[s] = Empty
                            /\ entries' = [entries EXCEPT ![s] = Fresh(ip)]
  <2>1. PICK s \in Slots : /\ entries[s] = Empty
                           /\ entries' = [entries EXCEPT ![s] = Fresh(ip)]
    BY <1>2
  <2>2. \A u \in Slots : entries'[u] = IF u = s THEN Fresh(ip) ELSE entries[u]
    BY <2>1 DEF IInv, TypeOK
  <2>3. entries[s].ip = NoIP /\ Fresh(ip).ip = ip
    BY <2>1 DEF Empty, Fresh
  <2>4. \A x : x \in KnownHops' <=> x \in KnownHops \/ x = ip
    BY <2>2, <2>3 DEF KnownHops, Hops
  <2> QED
    BY <2>4
<1> QED
  BY <1>1, <1>2 DEF StoreMapping

LEMMA ArpPacketMaps ==
    ASSUME IInv, PlacesInv, IInv', PlacesInv', NEW ip \in Hosts,
           ArpRequest(ip) \/ ArpReply(ip)
    PROVE  Abstract!Hear(ip)
<1> USE DEF IInv, ArpRequest, ArpReply, timer, Goto, LockFree
<1>1. KnownHops' \in {KnownHops, KnownHops \cup {ip}}
  BY StoreKnown
<1>2. Serving = NoIP
  BY DEF Serving
<1>3. Serving' \in {NoIP, ip}
  BY DEF Serving, Unlinked, TypeOK
<1>4. SamePlaces
  BY DEF SamePlaces, TypeOK
<1>5. WaitsFor' = WaitsFor
  BY <1>4, SameWaits
<1> QED
  BY <1>1, <1>2, <1>3, <1>5 DEF Abstract!Hear

LEMMA SendPendingMaps ==
    ASSUME IInv, PlacesInv, IInv', PlacesInv', SendPending
    PROVE  Abstract!Serve
<1> DEFINE D == {d \in Data : <<d, 0>> \in heap[held].pkts}
<1> USE DEF IInv, PlacesInv, SendPending, Goto, store, timer
<1>1. /\ held \in alive \ queue /\ held \in Rids
      /\ tpc = "report" => cur \in queue /\ cur \in alive
  BY DEF NoDanglingRequest, TypeOK
<1>2. Serving = heap[held].ip /\ Serving \in Hops /\ Serving' = NoIP
  BY <1>1 DEF Serving, HopKnown, TypeOK
<1>3. SamePlaces
  BY DEF SamePlaces, TypeOK
<1>4. \A d \in Data : <<d, 0>> \in Packets
  BY DataPackets
<1>5. ASSUME NEW d \in D PROVE Waits(d)
  <2>1. Pending(<<d, 0>>)
    BY <1>1, <1>5 DEF Pending, InCell
  <2>2. ~Reported(<<d, 0>>)
    BY <1>1, <1>4, <1>5 DEF Reported, OnePlace
  <2> QED
    BY <2>1, <2>2 DEF FateKnown, Waits
<1>6. ASSUME NEW d \in D PROVE WaitsFor[d] = Serving /\ WaitsFor[d] # NoIP
  <2>1. heap[held].ip \in HopsOf(<<d, 0>>)
    BY <1>1, <1>6 DEF HopsOf
  <2>2. WaitsFor[d] = heap[held].ip
    BY <1>5, <1>6, <2>1, OneHop DEF WaitsForOneHop
  <2> QED
    BY <1>2, <2>2, NullsAssumption DEF Hops
<1>7. \A d \in Data : fate'[d] = IF d \in D THEN "sent" ELSE fate[d]
  OBVIOUS
<1>8. \A d \in Data : HopsOf(<<d, 0>>)' = HopsOf(<<d, 0>>)
  BY <1>3, SameHops
<1>9. \A d \in Data : Pending(<<d, 0>>)' <=> Pending(<<d, 0>>)
  BY <1>3, <1>4, SamePending
<1> HIDE DEF D
<1>10. \A d \in Data : d \notin D => WaitsFor'[d] = WaitsFor[d]
  BY <1>7, <1>8, <1>9, KeepWaits DEF Waits
<1>11. \A d \in Data : d \in D => WaitsFor'[d] = NoIP
  BY <1>7, OneHopNext DEF WaitsForOneHop, Waits
<1>12. WaitsFor' = [d \in Data |-> IF d \in D THEN NoIP ELSE WaitsFor[d]]
  BY <1>10, <1>11, WaitsIsMap
<1>13. fate' = [d \in Data |-> IF d \in D THEN "sent" ELSE fate[d]]
  BY DEF D
<1>14. D \in SUBSET {d \in Abstract!Waiting : WaitsFor[d] = Serving}
  BY <1>6 DEF D, Abstract!Waiting
<1>15. KnownHops' = KnownHops
  BY DEF KnownHops
<1> QED
  BY <1>2, <1>12, <1>13, <1>14, <1>15, NullsAssumption DEF Abstract!Serve, Hops

\* Freeing a request whose packets have all been sent or reported ends no wait.
LEMMA DestroyWaits ==
    ASSUME IInv, PlacesInv, IInv', PlacesInv', NEW r \in alive, Destroy(r),
           UNCHANGED <<job, fate>>,
           \A t \in Threads : (pc'[t] = "miss") <=> (pc[t] = "miss"),
           \A d \in Data : <<d, 0>> \in heap[r].pkts => fate[d] # "pending"
    PROVE  WaitsFor' = WaitsFor
<1> USE DEF IInv, PlacesInv
<1>1. r \in Rids
  BY DEF TypeOK
<1>2. \A d \in Data : Pending(<<d, 0>>)' <=> Pending(<<d, 0>>) /\ <<d, 0>> \notin heap[r].pkts
  <2>1. \A p \in Packets : Pending(p)' <=> Pending(p) /\ p \notin heap[r].pkts
    BY DestroyPending
  <2> QED
    BY <2>1, DataPackets
<1>3. \A d \in Data : Waits(d)' <=> Waits(d)
  BY <1>2 DEF Waits
<1>4. ASSUME NEW d \in Data, Waits(d)
      PROVE  HopsOf(<<d, 0>>) \subseteq HopsOf(<<d, 0>>)'
  <2>1. <<d, 0>> \notin heap[r].pkts
    BY <1>4 DEF Waits
  <2>2. /\ \A s \in alive : s # r => s \in alive' /\ heap'[s] = heap[s]
    BY <1>1, DestroyShape DEF TypeOK
  <2> QED
    BY <2>1, <2>2 DEF HopsOf
<1> QED
  BY <1>3, <1>4, WaitsEqual

LEMMA DestroyHeldMaps ==
    ASSUME IInv, PlacesInv, IInv', PlacesInv', DestroyHeld
    PROVE  UNCHANGED <<KnownHops, Serving, WaitsFor, fate>>
<1> USE DEF IInv, PlacesInv, DestroyHeld, Goto, timer, LockFree
<1>1. held \in alive
  BY DEF NoDanglingRequest
<1>2. \A t \in Threads : (pc'[t] = "miss") <=> (pc[t] = "miss")
  BY DEF TypeOK
<1>3. \A d \in Data : <<d, 0>> \in heap[held].pkts => fate[d] = "sent"
  BY <1>1 DEF FateKnown, Reported, Pending, InCell
<1>4. WaitsFor' = WaitsFor
  BY <1>1, <1>2, <1>3, DestroyWaits
<1>5. Serving' = Serving
  BY DEF Serving, TypeOK
<1> QED
  BY <1>4, <1>5 DEF KnownHops

LEMMA DestroyCurMaps ==
    ASSUME IInv, PlacesInv, IInv', PlacesInv', DestroyCur
    PROVE  UNCHANGED <<KnownHops, Serving, WaitsFor, fate>>
<1> USE DEF IInv, PlacesInv, DestroyCur
<1>1. cur \in alive /\ cur \in queue /\ cur \in Rids
  BY DEF NoDanglingRequest, TypeOK
<1>2. \A d \in Data : <<d, 0>> \in heap[cur].pkts => fate[d] # "pending"
  BY <1>1 DEF FateKnown, GivenUp, Reported, Pending, InCell
<1>3. WaitsFor' = WaitsFor
  BY <1>1, <1>2, DestroyWaits
<1>4. pc[Main] = "reply" => heap'[held].ip = heap[held].ip
  BY <1>1, DestroyShape DEF NoDanglingRequest, TypeOK
<1>5. Serving' = Serving
  BY <1>4 DEF Serving
<1> QED
  BY <1>3, <1>5 DEF KnownHops

\* The next hops a table that only lost entries knows.
LEMMA WakeMaps ==
    ASSUME IInv, PlacesInv, IInv', PlacesInv', Wake
    PROVE  Abstract!Forget
<1> USE DEF Wake
<1>1. KnownHops' \subseteq KnownHops
  BY DEF KnownHops, Empty
<1>2. SamePlaces
  BY DEF SamePlaces
<1>3. WaitsFor' = WaitsFor
  BY <1>2, SameWaits
<1>4. Serving' = Serving
  BY DEF Serving
<1> QED
  BY <1>1, <1>3, <1>4 DEF Abstract!Forget

\* The steps the users of the cache do not see.
LEMMA QuietMaps ==
    ASSUME IInv, PlacesInv, IInv', PlacesInv',
           \/ SweepEnd \/ Tick
           \/ \E r \in todo : TooSoon(r) \/ SendRequest(r) \/ GiveUp(r)
           \/ UNCHANGED vars
    PROVE  UNCHANGED <<KnownHops, Serving, WaitsFor, fate>>
<1>1. SamePlaces
  BY QuietStep, GiveUpPlaces
<1>2. fate' = fate /\ pc' = pc /\ held' = held
  BY DEF SweepEnd, Tick, TooSoon, SendRequest, GiveUp, vars, store, timer
<1>3. WaitsFor' = WaitsFor
  BY <1>1, <1>2, SameWaits
<1>4. pc[Main] = "reply" => held \in Rids
  BY DEF IInv, NoDanglingRequest, TypeOK
<1>5. Serving' = Serving
  BY <1>1, <1>2, <1>4 DEF Serving, SamePlaces
<1>6. \A s \in Slots : entries'[s].ip = entries[s].ip
  <2>1. CASE Tick
    BY <2>1 DEF Tick, IInv, TypeOK, Empty
  <2>2. CASE ~Tick
    BY <2>2 DEF SweepEnd, TooSoon, SendRequest, GiveUp, vars, store
  <2> QED
    BY <2>1, <2>2
<1>7. KnownHops' = KnownHops
  BY <1>6 DEF KnownHops
<1> QED
  BY <1>2, <1>3, <1>5, <1>7

\* The error about a data packet ends its wait; an error about an error is
\* no business of the users.
LEMMA ReportMaps ==
    ASSUME IInv, PlacesInv, IInv', PlacesInv', NEW p \in unreported, Report(p)
    PROVE  \/ Abstract!GiveUpOn(p[1])
           \/ UNCHANGED <<KnownHops, Serving, WaitsFor, fate>>
<1> USE DEF IInv, PlacesInv, Report
<1>1. /\ p \in Packets /\ cur \in Rids /\ cur \in queue /\ cur \in alive
      /\ p \in heap[cur].pkts /\ Pending(p) /\ ~Reported(p)
  BY DEF TypeOK, NoDanglingRequest, StillToReport, Pending, InCell, Reported
<1>2. p[1] \in Data /\ p[2] \in 0 .. 2 /\ p = <<p[1], p[2]>>
  BY <1>1 DEF CascadeEnds, Packets
<1>3. ErrorOf(p) \in Packets /\ ErrorHop(p) \in Hops
  BY <1>2 DEF ErrorOf, ErrorHop, Packets, Hops
<1>4. \A d \in Data : <<d, 0>> # ErrorOf(p)
  BY <1>2 DEF ErrorOf
<1>5. \/ UNCHANGED <<heap, alive, queue>>
      \/ \E q \in Rids : QueuedOn(q, ErrorHop(p), ErrorOf(p))
  BY <1>3, QueueReqShape
<1>6. \A d \in Data : HopsOf(<<d, 0>>) \subseteq HopsOf(<<d, 0>>)'
  <2>1. CASE UNCHANGED <<heap, alive, queue>>
    BY <2>1 DEF HopsOf
  <2>2. ASSUME NEW q \in Rids, QueuedOn(q, ErrorHop(p), ErrorOf(p)), NEW d \in Data
        PROVE  HopsOf(<<d, 0>>) \subseteq HopsOf(<<d, 0>>)'
    <3>1. \A t \in Threads : pc'[t] = pc[t] /\ job'[t] = job[t]
      OBVIOUS
    <3> QED
      BY <2>2, <3>1, <1>3, DataPackets, QueuedHops
  <2> QED
    BY <1>5, <2>1, <2>2
<1>7. \A d \in Data : Pending(<<d, 0>>)' <=> Pending(<<d, 0>>)
  <2>1. \A x : InGap(x)' <=> InGap(x)
    BY DEF InGap
  <2>2. CASE UNCHANGED <<heap, alive, queue>>
    BY <2>1, <2>2 DEF Pending, InCell
  <2>3. ASSUME NEW q \in Rids, QueuedOn(q, ErrorHop(p), ErrorOf(p)), NEW d \in Data
        PROVE  Pending(<<d, 0>>)' <=> Pending(<<d, 0>>)
    <3>1. \A x \in Packets : InCell(x)' <=> (InCell(x) \/ x = ErrorOf(p))
      BY <2>3, <1>3, QueuedPending
    <3> QED
      BY <2>1, <3>1, <1>4, DataPackets DEF Pending
  <2> QED
    BY <1>5, <2>2, <2>3
<1>8. pc[Main] = "reply" => heap'[held] = heap[held]
  BY <1>5 DEF QueuedOn, NoDanglingRequest, TypeOK
<1>9. Serving' = Serving /\ KnownHops' = KnownHops
  BY <1>8 DEF Serving, KnownHops
<1>10. CASE p[2] # 0
  <2>1. WaitsFor' = WaitsFor
    BY <1>6, <1>7, <1>10, WaitsEqual DEF Waits
  <2> QED
    BY <1>9, <1>10, <2>1
<1>11. CASE p[2] = 0
  <2>1. p = <<p[1], 0>>
    BY <1>2, <1>11
  <2>2. pc[Main] = "free" => p \notin heap[held].pkts
    BY <1>1 DEF OnePlace, NoDanglingRequest
  <2>3. Waits(p[1])
    BY <1>1, <1>2, <2>1, <2>2 DEF Waits, FateKnown
  <2>4. p[1] \in Abstract!Waiting
    BY <1>2, <2>3, OneHop, NullsAssumption DEF Abstract!Waiting, WaitsForOneHop, Hops
  <2> DEFINE o == IF Muted(p) THEN "muted" ELSE "reported"
  <2>5. fate' = [fate EXCEPT ![p[1]] = o]
    BY <1>11
  <2>6. \A d \in Data : fate'[d] = IF d = p[1] THEN o ELSE fate[d]
    BY <2>5 DEF TypeOK
  <2>10. Muted(p) => WaitsFor[p[1]] = BackHop[p[1]]
    <3>1. heap[cur].ip \in HopsOf(<<p[1], 0>>)
      BY <1>1, <2>1 DEF HopsOf
    <3>2. WaitsFor[p[1]] = heap[cur].ip
      BY <1>2, <2>3, <3>1, OneHop DEF WaitsForOneHop
    <3> QED
      BY <1>11, <3>2 DEF Muted, ErrorHop
  <2>7. WaitsFor'[p[1]] = NoIP
    <3>1. fate'[p[1]] # "pending"
      BY <1>2, <2>6
    <3>2. ~Waits(p[1])'
      BY <3>1 DEF Waits
    <3>3. WaitsForOneHop'
      BY OneHopNext
    <3> QED
      BY <1>2, <3>2, <3>3 DEF WaitsForOneHop
  <2>8. \A d \in Data : d # p[1] => WaitsFor'[d] = WaitsFor[d]
    BY <1>6, <1>7, <2>6, KeepWaits DEF Waits
  <2>9. WaitsFor' = [WaitsFor EXCEPT ![p[1]] = NoIP]
    BY <2>7, <2>8, WaitsIsMap
  <2> QED
    BY <1>9, <2>4, <2>5, <2>9, <2>10 DEF Abstract!GiveUpOn
<1> QED
  BY <1>10, <1>11

\* One step of the cache is one step of Resolution or none.
LEMMA StepMaps ==
    IInv /\ PlacesInv /\ IInv' /\ PlacesInv' /\ [Next]_vars
        => [Abstract!Next]_<<KnownHops, Serving, WaitsFor, fate>>
<1> SUFFICES ASSUME IInv, PlacesInv, IInv', PlacesInv', [Next]_vars
             PROVE  [Abstract!Next]_<<KnownHops, Serving, WaitsFor, fate>>
  OBVIOUS
<1>1. ASSUME NEW t \in Threads, Send(t) PROVE Abstract!Next
  BY <1>1, HitMaps, MissMaps DEF Send, Abstract!Next
<1>2. ASSUME NEW t \in Threads, Enqueue(t)
      PROVE  UNCHANGED <<KnownHops, Serving, WaitsFor, fate>>
  BY <1>2, EnqueueMaps
<1>3. ASSUME NEW ip \in Hosts, ArpRequest(ip) \/ ArpReply(ip) PROVE Abstract!Next
  BY <1>3, ArpPacketMaps DEF Abstract!Next
<1>4. CASE SendPending \/ Wake
  BY <1>4, SendPendingMaps, WakeMaps DEF Abstract!Next
<1>5. CASE DestroyHeld \/ Tick \/ UNCHANGED vars
  BY <1>5, DestroyHeldMaps, QuietMaps
<1>6. CASE Sweep
  <2>1. ASSUME NEW p \in unreported, Report(p)
        PROVE  [Abstract!Next]_<<KnownHops, Serving, WaitsFor, fate>>
    <3>1. p[1] \in Data
      BY DEF IInv, TypeOK, Packets
    <3> QED
      BY <2>1, <3>1, ReportMaps DEF Abstract!Next
  <2>2. CASE DestroyCur
    BY <2>2, DestroyCurMaps
  <2>3. CASE SweepEnd \/ \E r \in todo : TooSoon(r) \/ SendRequest(r) \/ GiveUp(r)
    BY <2>3, QuietMaps
  <2> QED
    BY <1>6, <2>1, <2>2, <2>3 DEF Sweep
<1> QED
  BY <1>1, <1>2, <1>3, <1>4, <1>5, <1>6, HopsAssumption DEF Next

\* The cache, its threads, its lock and its retries implement Resolution: no
\* packet is sent on the answer of another hop or just disappears
\* (sr_arpcache.h:1-32).
THEOREM Refinement == Spec => Implements
<1>1. IInv /\ PlacesInv /\ IInv' /\ PlacesInv' /\ [Next]_vars
        => [Abstract!Next]_(Abstract!abstract)
  BY StepMaps DEF Abstract!abstract
<1> QED
  BY <1>1, InitMaps, Invariant, PlacesInvariant, PTL
     DEF Spec, Implements, Abstract!Spec
=============================================================================
