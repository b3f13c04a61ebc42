--------------------------- MODULE FloodingProofs ---------------------------
(***************************************************************************)
(* A round of LSUs reaches every router: for every connected network whose *)
(* routers have so few interfaces that the ttl lasts, every range of       *)
(* sequence numbers, and any number of batches of send_lsu threads under   *)
(* way together, once every router runs and has heard its neighbours.      *)
(***************************************************************************)
EXTENDS Flooding, ListsProofs, TLAPS

USE NetworkAssumption, TimesAssumption, NoEntryAssumption

\* Every router can be reached from the origin.
Connected ==
    \A S \in SUBSET Routers : Origin \in S /\ S # Routers =>
        \E i \in Interfaces : Owner[i] \in S /\ Owner[Peer[i]] \notin S

\* The ttl of a new LSU is enough for a path through all the other routers,
\* each of which sends the LSU on d interfaces at most.
EnoughTtl(d) ==
    /\ IsFiniteSet(Routers)
    /\ \A r \in Others : Len(Ifs[r]) <= d + 1
    /\ d * Cardinality(Others) < Ttl

-----------------------------------------------------------------------------
(* The inductive invariant.                                                *)

\* The entry of r has the number n or a later one.
Seen(r, n) == db[r] # NoEntry /\ db[r].seq >= n
Having(n)  == {r \in Others : Seen(r, n)}

\* The router on the other side of the link to the interface i.
Across(i) == Owner[Peer[i]]

\* A router that sent an LSU on has its number or a later one.
SentOn == \A m \in net : Across(m.to) # Origin => Seen(Across(m.to), m.seq)

\* A copy has lost at most d of its ttl at every router that has its number.
TtlLeft(d) == \A m \in net :
    Ttl <= m.ttl + d * Cardinality(Having(m.seq))

\* A thread is going to send a number above n on the interface i,
Due(i, n) == \E b \in Batches :
    \/ thread[<<i, b>>].pc \in {"start", "loaded"}
    \/ thread[<<i, b>>].pc = "stored" /\ seqno > n

\* or a copy with such a number is on its way from there.
OnItsWay(i, n) == \E m \in net : m.to = Peer[i] /\ m.seq > n

\* This round, in which everybody has heard everybody, is the one in which the
\* numbers above n are sent: no thread will go back below n, a router that has
\* such a number has it since the timer woke, and the flood goes on wherever it
\* has not been yet.
RoundAbove(n) ==
    /\ up = Routers /\ known = Interfaces
    /\ \A c \in Counters : c >= n
    /\ \A r \in Others : Seen(r, n + 1) => db[r].age <= clock
    /\ \A i \in OriginIfs : Across(i) # Origin =>
        Seen(Across(i), n + 1) \/ Due(i, n) \/ OnItsWay(i, n)
    /\ \A q \in Others : Seen(q, n + 1) =>
        \A i \in InterfacesOf(q) : Across(i) # Origin =>
            Seen(Across(i), n + 1) \/ OnItsWay(i, n)

IInv(d) ==
    /\ TypeOK /\ SentOn /\ TtlLeft(d)
    /\ sound => \E n \in Numbers : RoundAbove(n)

-----------------------------------------------------------------------------
(* The network.                                                            *)

LEMMA Network ==
    /\ \A i \in Interfaces :
        /\ Owner[i] \in Routers /\ i \in InterfacesOf(Owner[i])
        /\ Peer[i] \in Interfaces /\ Peer[Peer[i]] = i
    /\ \A r \in Routers : \A i \in InterfacesOf(r) : i \in Interfaces /\ Owner[i] = r
    /\ \A i \in OriginIfs : i \in Interfaces /\ Owner[i] = Origin
<1>1. \A i \in Interfaces : \E r \in Routers : i \in InterfacesOf(r)
  BY DEF Interfaces
<1>2. \A i \in Interfaces : Owner[i] \in Routers /\ i \in InterfacesOf(Owner[i])
  <2> SUFFICES ASSUME NEW i \in Interfaces
               PROVE  Owner[i] \in Routers /\ i \in InterfacesOf(Owner[i])
    OBVIOUS
  <2>1. Owner[i] = CHOOSE r \in Routers : i \in InterfacesOf(r)
    BY DEF Owner
  <2> QED
    BY <1>1, <2>1
<1>3. \A r \in Routers : \A i \in InterfacesOf(r) : i \in Interfaces /\ Owner[i] = r
  <2> SUFFICES ASSUME NEW r \in Routers, NEW i \in InterfacesOf(r)
               PROVE  i \in Interfaces /\ Owner[i] = r
    OBVIOUS
  <2>1. i \in Interfaces
    BY DEF Interfaces
  <2>2. Owner[i] \in Routers /\ i \in InterfacesOf(Owner[i])
    BY <1>2, <2>1
  <2> QED
    BY <2>1, <2>2
<1>4. \A i \in Interfaces : Peer[i] \in Interfaces /\ Peer[Peer[i]] = i
  OBVIOUS
<1>5. \A i \in OriginIfs : i \in Interfaces /\ Owner[i] = Origin
  BY <1>3 DEF OriginIfs
<1> QED
  BY <1>2, <1>3, <1>4, <1>5

LEMMA OwnInterfaces ==
    ASSUME NEW r \in Routers
    PROVE  /\ Len(Ifs[r]) \in Nat /\ DOMAIN Ifs[r] = 1 .. Len(Ifs[r])
           /\ \A k \in DOMAIN Ifs[r] : Ifs[r][k] \in InterfacesOf(r)
           /\ \A i \in InterfacesOf(r) : \E k \in DOMAIN Ifs[r] : Ifs[r][k] = i
<1>1. Ifs[r] \in Seq(InterfacesOf(r))
  OBVIOUS
<1> QED
  BY <1>1 DEF InterfacesOf

\* The interface that the LSU came in on is none of those it leaves on, and a
\* k-th interface that it leaves on is one of the first k.
LEMMA SendsBounds ==
    ASSUME NEW r \in Routers, NEW in \in InterfacesOf(r), NEW k \in DOMAIN Ifs[r]
    PROVE  /\ Sends(r, in, k) \in Nat
           /\ Sends(r, in, k) <= Len(Ifs[r]) - 1
           /\ k \in Onward(r, in) => Sends(r, in, k) >= 1
<1>1. PICK n \in Nat : n = Len(Ifs[r]) /\ DOMAIN Ifs[r] = 1 .. n
  BY OwnInterfaces
<1>2. PICK j \in 1 .. n : Ifs[r][j] = in
  BY <1>1, OwnInterfaces
<1>3. k \in 1 .. n
  BY <1>1
<1> DEFINE all  == 1 .. n
           rest == all \ {j}
           out  == Onward(r, in) \cap 1 .. k
<1>4. IsFiniteSet(all) /\ Cardinality(all) = n
  BY FS_Interval
<1>5. IsFiniteSet(rest) /\ Cardinality(rest) = n - 1
  <2>1. j \in all
    BY <1>2
  <2> HIDE DEF all
  <2> QED
    BY <1>4, <2>1, FS_RemoveElement
<1>6. out \in SUBSET rest
  BY <1>1, <1>2, <1>3 DEF Onward
<1>7. IsFiniteSet(out) /\ Cardinality(out) <= n - 1
  BY <1>5, <1>6, FS_Subset
<1>8. Cardinality(out) \in Nat
  BY <1>7, FS_CardinalityType
<1>9. ASSUME k \in Onward(r, in)
      PROVE  Cardinality(out) # 0
  <2>1. k \in out
    BY <1>3, <1>9
  <2> QED
    BY <1>7, <2>1, FS_EmptySet
<1> QED
  BY <1>1, <1>7, <1>8, <1>9 DEF Sends

-----------------------------------------------------------------------------
(* Every variable has its type.                                            *)

\* What a router sends on: copies of the LSU, with the ttl used up so far.
LEMMA ForwardedCopies ==
    ASSUME NEW r \in Routers, NEW m \in Copy, m.to \in InterfacesOf(r),
           NEW c \in Forwarded(r, m)
    PROVE  /\ c \in Copy /\ c.seq = m.seq
           /\ \E i \in InterfacesOf(r) : i # m.to /\ c.to = Peer[i]
           /\ c.ttl >= m.ttl - (Len(Ifs[r]) - 1)
<1>1. PICK k \in DOMAIN Ifs[r] :
        /\ k \in Onward(r, m.to) /\ Ifs[r][k] # m.to /\ Sends(r, m.to, k) < m.ttl
        /\ c = [seq |-> m.seq, ttl |-> m.ttl - Sends(r, m.to, k), to |-> Peer[Ifs[r][k]]]
  BY DEF Forwarded, Onward
<1>2. /\ Sends(r, m.to, k) \in Nat /\ Sends(r, m.to, k) >= 1
      /\ Sends(r, m.to, k) <= Len(Ifs[r]) - 1
  BY <1>1, SendsBounds
<1>3. Ifs[r][k] \in InterfacesOf(r) /\ Len(Ifs[r]) \in Nat
  BY OwnInterfaces
<1>4. Peer[Ifs[r][k]] \in Interfaces
  BY <1>3, Network
<1>5. m.seq \in Numbers /\ m.ttl \in 1 .. Ttl
  BY DEF Copy
<1>6. m.ttl - Sends(r, m.to, k) \in 1 .. Ttl
  BY <1>1, <1>2, <1>5
<1>7. c \in Copy
  BY <1>1, <1>4, <1>5, <1>6 DEF Copy
<1>8. c.ttl >= m.ttl - (Len(Ifs[r]) - 1)
  BY <1>1, <1>2, <1>3, <1>5
<1> QED
  BY <1>1, <1>3, <1>7, <1>8

LEMMA TypeInit == Init => TypeOK
<1> SUFFICES ASSUME Init PROVE TypeOK
  OBVIOUS
<1>1. 0 \in Numbers /\ 0 \in 0 .. LsuInt /\ 0 \in 0 .. MaxFaults
  BY DEF Numbers
<1>2. Idle \in [pc : {"idle", "start", "loaded", "stored"}, reg : Numbers]
  BY <1>1 DEF Idle
<1>3. /\ thread \in [OriginIfs \X Batches ->
                      [pc : {"idle", "start", "loaded", "stored"}, reg : Numbers]]
      /\ db \in [Others -> Entry \cup {NoEntry}]
  BY <1>2 DEF Init
<1> QED
  BY <1>1, <1>3 DEF Init, TypeOK

\* One thread goes on.
LEMMA ThreadType ==
    ASSUME TypeOK, NEW i \in OriginIfs, NEW b \in Batches,
           NEW pc \in {"idle", "start", "loaded", "stored"}, NEW n \in Numbers
    PROVE  [thread EXCEPT ![<<i, b>>] = [pc |-> pc, reg |-> n]] \in
             [OriginIfs \X Batches ->
                [pc : {"idle", "start", "loaded", "stored"}, reg : Numbers]]
  BY DEF TypeOK

LEMMA StartedType ==
    ASSUME TypeOK, NEW b \in Batches
    PROVE  Started(b) \in
             [OriginIfs \X Batches ->
                [pc : {"idle", "start", "loaded", "stored"}, reg : Numbers]]
<1>1. [pc |-> "start", reg |-> 0] \in [pc : {"idle", "start", "loaded", "stored"}, reg : Numbers]
  BY DEF Numbers
<1>2. \A x \in OriginIfs \X Batches :
        thread[x] \in [pc : {"idle", "start", "loaded", "stored"}, reg : Numbers]
  BY DEF TypeOK
<1> QED
  BY <1>1, <1>2 DEF Started

LEMMA TypeStep == TypeOK /\ [Next]_vars => TypeOK'
<1> SUFFICES ASSUME TypeOK, [Next]_vars PROVE TypeOK'
  OBVIOUS
<1> USE DEF TypeOK
<1>0. 0 \in Numbers /\ 0 \in 0 .. LsuInt
  BY DEF Numbers
<1>1. ASSUME NEW i \in OriginIfs, NEW b \in Batches, NewNeighbour(i, b)
      PROVE  TypeOK'
  BY <1>1, StartedType, Network DEF NewNeighbour
<1>2. ASSUME NEW b \in Batches, Round(b)
      PROVE  TypeOK'
  <2>1. thread' \in [OriginIfs \X Batches ->
                [pc : {"idle", "start", "loaded", "stored"}, reg : Numbers]]
    BY <1>2, StartedType DEF Round
  <2>2. sound' \in BOOLEAN
    BY <1>2 DEF Round
  <2> QED
    BY <1>0, <1>2, <2>1, <2>2 DEF Round
<1>3. ASSUME NEW i \in OriginIfs, NEW b \in Batches, NoNeighbour(i, b)
      PROVE  TypeOK'
  <2>1. thread' = [thread EXCEPT ![<<i, b>>] = [pc |-> "idle", reg |-> 0]]
    BY <1>3 DEF NoNeighbour, Idle
  <2>2. thread' \in [OriginIfs \X Batches ->
                [pc : {"idle", "start", "loaded", "stored"}, reg : Numbers]]
    BY <1>0, <2>1, ThreadType
  <2> QED
    BY <1>3, <2>2 DEF NoNeighbour
<1>4. ASSUME NEW i \in OriginIfs, NEW b \in Batches, Load(i, b)
      PROVE  TypeOK'
  <2>1. thread' \in [OriginIfs \X Batches ->
                [pc : {"idle", "start", "loaded", "stored"}, reg : Numbers]]
    BY <1>4, ThreadType DEF Load
  <2> QED
    BY <1>4, <2>1 DEF Load
<1>5. ASSUME NEW i \in OriginIfs, NEW b \in Batches, Store(i, b)
      PROVE  TypeOK'
  <2>1. thread[<<i, b>>].reg \in Numbers
    OBVIOUS
  <2>2. NextNumber(thread[<<i, b>>].reg) \in Numbers
    BY <2>1 DEF NextNumber, Numbers
  <2>3. sound' \in BOOLEAN
    BY <1>5 DEF Store
  <2> QED
    BY <1>0, <1>5, <2>2, <2>3, ThreadType DEF Store
<1>6. ASSUME NEW i \in OriginIfs, NEW b \in Batches, Send(i, b)
      PROVE  TypeOK'
  <2>1. Peer[i] \in Interfaces
    BY Network
  <2>2. [seq |-> seqno, ttl |-> Ttl, to |-> Peer[i]] \in Copy
    BY <2>1 DEF Copy
  <2> QED
    BY <1>0, <1>6, <2>2, ThreadType DEF Send, Idle
<1>7. ASSUME NEW m \in net, Handle(m)
      PROVE  TypeOK'
  <2> DEFINE r == Owner[m.to]
  <2>1. m \in Copy /\ m.to \in Interfaces /\ m.seq \in Numbers
    BY DEF Copy
  <2>2. r \in Routers /\ m.to \in InterfacesOf(r)
    BY <2>1, Network
  <2>3. Forwarded(r, m) \subseteq Copy
    BY <2>1, <2>2, ForwardedCopies
  <2>4. [seq |-> m.seq, age |-> 0] \in Entry
    BY <2>1 DEF Entry
  <2>5. net' \subseteq Copy
    BY <1>7, <2>3 DEF Handle
  <2>6. db' \in [Others -> Entry \cup {NoEntry}]
    BY <1>7, <2>4 DEF Handle
  <2> QED
    BY <1>7, <2>5, <2>6 DEF Handle
<1>8. ASSUME NEW m \in net, Lose(m)
      PROVE  TypeOK'
  <2>1. faults' \in 0 .. MaxFaults
    BY <1>8 DEF Lose
  <2> QED
    BY <1>8, <2>1 DEF Lose
<1>9. ASSUME NEW r \in Routers, Restart(r)
      PROVE  TypeOK'
  <2>1. Idle \in [pc : {"idle", "start", "loaded", "stored"}, reg : Numbers]
    BY <1>0 DEF Idle
  <2>2. faults' \in 0 .. MaxFaults
    BY <1>9 DEF Restart
  <2>3. /\ up' \subseteq Routers /\ known' \subseteq Interfaces
        /\ sound' \in BOOLEAN /\ net' \subseteq Copy
    BY <1>9 DEF Restart
  <2>4. CASE r = Origin
    <3>1. thread' \in [OriginIfs \X Batches ->
                [pc : {"idle", "start", "loaded", "stored"}, reg : Numbers]]
      BY <1>9, <2>1, <2>4 DEF Restart
    <3>2. seqno' = 0 /\ clock' = 0 /\ db' = db
      BY <1>9, <2>4 DEF Restart
    <3> QED
      BY <1>0, <2>2, <2>3, <3>1, <3>2
  <2>5. CASE r # Origin
    <3>1. db' \in [Others -> Entry \cup {NoEntry}]
      BY <1>9, <2>5 DEF Restart
    <3>2. UNCHANGED <<seqno, clock, thread>>
      BY <1>9, <2>5 DEF Restart
    <3> QED
      BY <2>2, <2>3, <3>1, <3>2
  <2> QED
    BY <2>4, <2>5
<1>10. CASE Tick
  <2>1. ASSUME NEW e \in Entry
        PROVE  Aged(e) \in Entry \cup {NoEntry}
    BY DEF Entry, Aged
  <2>2. db' \in [Others -> Entry \cup {NoEntry}]
    <3>1. \A r \in Others : db[r] \in Entry \cup {NoEntry}
      OBVIOUS
    <3>2. \A r \in Others : db[r] # NoEntry => Aged(db[r]) \in Entry \cup {NoEntry}
      BY <2>1, <3>1
    <3> QED
      BY <1>10, <3>2 DEF Tick
  <2>3. clock' \in 0 .. LsuInt
    BY <1>0, <1>10 DEF Tick
  <2> QED
    BY <1>10, <2>2, <2>3 DEF Tick
<1>11. CASE UNCHANGED vars
  BY <1>11 DEF vars
<1>12. ASSUME NEW r \in Routers, Boot(r)
       PROVE  TypeOK'
  BY <1>12 DEF Boot
<1>13. ASSUME NEW i \in Interfaces, Hear(i)
       PROVE  TypeOK'
  BY <1>13 DEF Hear
<1> QED
  BY <1>1, <1>2, <1>3, <1>4, <1>5, <1>6, <1>7, <1>8, <1>9, <1>10, <1>11, <1>12, <1>13
     DEF Next, Meet, Work, ThreadStep

-----------------------------------------------------------------------------
(* Copies and the numbers in the tables, whatever the origin does.         *)

\* check_sequence_number decides whether the LSU renews the entry of the
\* router and is sent on, or is dropped.
LEMMA HandleCases ==
    ASSUME TypeOK, NEW m \in net, Handle(m), NEW r, r = Owner[m.to]
    PROVE  /\ r \in Routers /\ m.to \in InterfacesOf(r)
           /\ \/ /\ r \in Others /\ ~Seen(r, m.seq)
                 /\ db'[r] = [seq |-> m.seq, age |-> 0] /\ db'[r] # NoEntry
                 /\ \A q \in Others \ {r} : db'[q] = db[q]
                 /\ net' = (net \ {m}) \cup Forwarded(r, m)
              \/ /\ r \in Others \cap up => Seen(r, m.seq)
                 /\ net' = net \ {m} /\ UNCHANGED db
<1>1. m \in Copy /\ m.to \in Interfaces /\ m.seq \in Numbers
  BY DEF TypeOK, Copy
<1>2. r \in Routers /\ m.to \in InterfacesOf(r)
  BY <1>1, Network
<1>3. ASSUME r \in up \ {Origin}, IsNew(r, m.seq)
      PROVE  /\ r \in Others /\ ~Seen(r, m.seq)
             /\ db'[r] = [seq |-> m.seq, age |-> 0] /\ db'[r] # NoEntry
             /\ \A q \in Others \ {r} : db'[q] = db[q]
             /\ net' = (net \ {m}) \cup Forwarded(r, m)
  <2>1. r \in Others
    BY <1>2, <1>3 DEF Others
  <2>2. db' = [db EXCEPT ![r] = [seq |-> m.seq, age |-> 0]]
        /\ net' = (net \ {m}) \cup Forwarded(r, m)
    BY <1>3 DEF Handle
  <2>3. DOMAIN db = Others
    BY DEF TypeOK
  <2>4. [seq |-> m.seq, age |-> 0] # NoEntry
    BY <1>1 DEF Entry
  <2>5. ~Seen(r, m.seq)
    <3>1. db[r] # NoEntry => db[r].seq \in Int /\ m.seq \in Int
      BY <1>1, <2>1 DEF TypeOK, Entry, Numbers
    <3> QED
      BY <1>3, <3>1 DEF IsNew, Seen
  <2> QED
    BY <2>1, <2>2, <2>3, <2>4, <2>5
<1>4. ASSUME ~(r \in up \ {Origin} /\ IsNew(r, m.seq))
      PROVE  (r \in Others \cap up => Seen(r, m.seq)) /\ net' = net \ {m} /\ UNCHANGED db
  <2>1. net' = net \ {m} /\ UNCHANGED db
    BY <1>4 DEF Handle
  <2>2. ASSUME r \in Others \cap up
        PROVE  Seen(r, m.seq)
    <3>1. r \in up \ {Origin}
      BY <2>2 DEF Others
    <3>2. db[r] # NoEntry => db[r].seq \in Int /\ m.seq \in Int
      BY <1>1, <2>2 DEF TypeOK, Entry, Numbers
    <3> QED
      BY <1>4, <3>1, <3>2 DEF IsNew, Seen
  <2> QED
    BY <2>1, <2>2
<1> QED
  BY <1>2, <1>3, <1>4

\* Handling an LSU, a router forgets no number.
LEMMA SeenStays ==
    ASSUME TypeOK, NEW m \in net, Handle(m)
    PROVE  \A q \in Others, n \in Int : Seen(q, n) => Seen(q, n)'
<1>1. PICK r : r = Owner[m.to]
  OBVIOUS
<1>2. m.seq \in Int
  BY DEF TypeOK, Copy, Numbers
<1> SUFFICES ASSUME NEW q \in Others, NEW n \in Int, Seen(q, n)
             PROVE  Seen(q, n)'
  OBVIOUS
<1>3. db[q].seq \in Int
  BY DEF TypeOK, Entry, Numbers, Seen
<1>4. CASE UNCHANGED db
  BY <1>4 DEF Seen
<1>5. CASE /\ ~Seen(r, m.seq)
           /\ db'[r] = [seq |-> m.seq, age |-> 0] /\ db'[r] # NoEntry
           /\ \A p \in Others \ {r} : db'[p] = db[p]
  <2>1. CASE q = r
    <3>1. db[q].seq < m.seq
      BY <1>2, <1>3, <1>5, <2>1 DEF Seen
    <3>2. db'[q].seq = m.seq /\ db'[q] # NoEntry
      BY <1>5, <2>1
    <3> QED
      BY <1>2, <1>3, <3>1, <3>2 DEF Seen
  <2>2. CASE q # r
    BY <1>5, <2>2 DEF Seen
  <2> QED
    BY <2>1, <2>2
<1> QED
  BY <1>1, <1>4, <1>5, HandleCases

\* The actions that touch neither a copy nor a table.
LEMMA OriginSteps ==
    ASSUME NEW i \in OriginIfs, NEW b \in Batches,
           NoNeighbour(i, b) \/ Load(i, b) \/ Store(i, b)
    PROVE  UNCHANGED <<net, db>>
  BY DEF NoNeighbour, Load, Store

LEMMA MeetSteps == Meet => UNCHANGED <<net, db>>
  BY DEF Meet, Boot, Hear, NewNeighbour

LEMMA SentOnStep == TypeOK /\ SentOn /\ [Next]_vars => SentOn'
<1> SUFFICES ASSUME TypeOK, SentOn, [Next]_vars PROVE SentOn'
  OBVIOUS
<1>1. ASSUME UNCHANGED db, net' \subseteq net
      PROVE  SentOn'
  BY <1>1 DEF SentOn, Seen, Across
<1>2. ASSUME NEW i \in OriginIfs, NEW b \in Batches, Send(i, b)
      PROVE  SentOn'
  <2>1. PICK c : c = [seq |-> seqno, ttl |-> Ttl, to |-> Peer[i]]
    OBVIOUS
  <2>2. net' = net \cup {c} /\ UNCHANGED db
    BY <1>2, <2>1 DEF Send
  <2>3. Across(c.to) = Origin
    BY <2>1, Network DEF Across
  <2> QED
    BY <2>2, <2>3 DEF SentOn, Seen
<1>3. ASSUME NEW m \in net, Handle(m)
      PROVE  SentOn'
  <2>1. PICK r : r = Owner[m.to]
    OBVIOUS
  <2>2. r \in Routers /\ m.to \in InterfacesOf(r) /\ m \in Copy
    BY <1>3, <2>1, HandleCases DEF TypeOK
  <2> SUFFICES ASSUME NEW c \in net', Across(c.to) # Origin
               PROVE  Seen(Across(c.to), c.seq)'
    BY DEF SentOn, Across
  <2>3. PICK a : a = Across(c.to)
    OBVIOUS
  <2>4. CASE c \in net
    <3>1. c \in Copy /\ c.seq \in Int /\ c.to \in Interfaces
      BY <2>4 DEF TypeOK, Copy, Numbers
    <3>2. a \in Others
      BY <2>3, <3>1, Network DEF Across, Others
    <3>3. Seen(a, c.seq)
      BY <2>3, <2>4 DEF SentOn
    <3>4. Seen(a, c.seq)'
      BY <1>3, <3>1, <3>2, <3>3, SeenStays
    <3> QED
      BY <2>3, <3>4
  <2>5. CASE c \notin net
    <3>1. /\ r \in Others
          /\ db'[r] = [seq |-> m.seq, age |-> 0] /\ db'[r] # NoEntry
          /\ c \in Forwarded(r, m)
      BY <1>3, <2>1, <2>5, HandleCases
    <3>2. PICK i \in InterfacesOf(r) : c.to = Peer[i]
      BY <2>2, <3>1, ForwardedCopies
    <3>3. c.seq = m.seq
      BY <2>2, <3>1, ForwardedCopies
    <3>4. a = r
      BY <2>2, <2>3, <3>2, Network DEF Across
    <3>5. m.seq \in Int
      BY <2>2 DEF Copy, Numbers
    <3>6. Seen(a, c.seq)'
      BY <3>1, <3>3, <3>4, <3>5 DEF Seen
    <3> QED
      BY <2>3, <3>6
  <2> QED
    BY <2>4, <2>5
<1>4. ASSUME net' = {}
      PROVE  SentOn'
  BY <1>4 DEF SentOn
<1>5. ASSUME NEW i \in OriginIfs, NEW b \in Batches, ThreadStep(i, b)
      PROVE  SentOn'
  BY <1>1, <1>2, <1>5, OriginSteps DEF ThreadStep
<1>6. ASSUME NEW b \in Batches, Round(b)
      PROVE  SentOn'
  BY <1>1, <1>6 DEF Round
<1>7. ASSUME NEW m \in net, Lose(m)
      PROVE  SentOn'
  BY <1>1, <1>7 DEF Lose
<1>8. ASSUME NEW r \in Routers, Restart(r)
      PROVE  SentOn'
  BY <1>4, <1>8 DEF Restart
<1>9. CASE Tick
  BY <1>4, <1>9 DEF Tick, Quiet
<1>10. CASE UNCHANGED vars
  BY <1>1, <1>10 DEF vars
<1>11. CASE Meet
  BY <1>1, <1>11, MeetSteps
<1> QED
  BY <1>3, <1>5, <1>6, <1>7, <1>8, <1>9, <1>10, <1>11 DEF Next, Work

-----------------------------------------------------------------------------
(* The ttl lasts.                                                          *)

LEMMA Products ==
    ASSUME NEW d \in Nat, NEW a \in Nat, NEW b \in Nat, a <= b
    PROVE  /\ d * a \in Nat /\ d * b \in Nat /\ d * a <= d * b
           /\ d * (a + 1) = d * a + d
<1>1. PICK c \in Nat : b = a + c
  <2>1. b - a \in Nat /\ b = a + (b - a)
    OBVIOUS
  <2> QED
    BY <2>1
<1>2. d * c \in Nat /\ d * a \in Nat
  OBVIOUS
<1>3. d * b = d * a + d * c
  BY <1>1
<1> QED
  BY <1>2, <1>3

LEMMA HavingFinite ==
    ASSUME IsFiniteSet(Routers), NEW n
    PROVE  /\ IsFiniteSet(Others) /\ Cardinality(Others) \in Nat
           /\ IsFiniteSet(Having(n)) /\ Cardinality(Having(n)) \in Nat
           /\ Cardinality(Having(n)) <= Cardinality(Others)
<1>1. IsFiniteSet(Others)
  BY FS_RemoveElement DEF Others
<1>2. Having(n) \in SUBSET Others
  BY DEF Having
<1> QED
  BY <1>1, <1>2, FS_Subset, FS_CardinalityType

\* A copy that is new to a router has enough ttl for all its interfaces.
LEMMA TtlLasts ==
    ASSUME TypeOK, NEW d \in Nat, EnoughTtl(d), TtlLeft(d),
           NEW m \in net, NEW r \in Others, ~Seen(r, m.seq)
    PROVE  d < m.ttl
<1> DEFINE H == Having(m.seq)
           O == Cardinality(Others)
<1>1. /\ IsFiniteSet(Others) /\ O \in Nat
      /\ IsFiniteSet(H) /\ Cardinality(H) \in Nat
  BY HavingFinite DEF EnoughTtl
<1>2. Cardinality(H) + 1 <= O
  <2>1. r \notin H /\ H \cup {r} \in SUBSET Others
    BY DEF Having
  <2>2. Cardinality(H \cup {r}) = Cardinality(H) + 1
    <3> HIDE DEF H
    <3> QED
      BY <1>1, <2>1, FS_AddElement
  <2>3. Cardinality(H \cup {r}) <= O
    BY <1>1, <2>1, FS_Subset
  <2> QED
    BY <2>2, <2>3
<1>3. m.ttl \in Int /\ Ttl <= m.ttl + d * Cardinality(H)
  BY DEF TypeOK, Copy, TtlLeft
<1>4. d * O < Ttl
  BY DEF EnoughTtl
<1> HIDE DEF H, O
<1>5. PICK h \in Nat : h = Cardinality(H)
  BY <1>1
<1>6. d * h + d = d * (h + 1) /\ d * h \in Nat
  BY <1>5, Products
<1>7. d * (h + 1) <= d * O /\ d * O \in Nat
  BY <1>1, <1>2, <1>5, Products
<1>8. PICK x \in Nat, y \in Nat : x = d * h /\ y = d * O
  BY <1>6, <1>7
<1>9. x + d <= y /\ y < Ttl /\ Ttl <= m.ttl + x
  BY <1>3, <1>4, <1>5, <1>6, <1>7, <1>8
<1> QED
  BY <1>3, <1>9

LEMMA TtlStep ==
    ASSUME NEW d \in Nat, EnoughTtl(d), TypeOK, TtlLeft(d), [Next]_vars
    PROVE  TtlLeft(d)'
<1>0. IsFiniteSet(Routers)
  BY DEF EnoughTtl
<1>1. ASSUME UNCHANGED db, net' \subseteq net
      PROVE  TtlLeft(d)'
  BY <1>1 DEF TtlLeft, Having, Seen
<1>2. ASSUME NEW i \in OriginIfs, NEW b \in Batches, Send(i, b)
      PROVE  TtlLeft(d)'
  <2>1. PICK c : c = [seq |-> seqno, ttl |-> Ttl, to |-> Peer[i]]
    OBVIOUS
  <2>2. net' = net \cup {c} /\ UNCHANGED db
    BY <1>2, <2>1 DEF Send
  <2>3. Ttl <= c.ttl + d * Cardinality(Having(c.seq))
    <3>1. Cardinality(Having(c.seq)) \in Nat /\ c.ttl = Ttl
      BY <1>0, <2>1, HavingFinite
    <3>2. d * Cardinality(Having(c.seq)) \in Nat
      BY <3>1, Products
    <3> QED
      BY <3>1, <3>2
  <2>4. \A m \in net' : Having(m.seq)' = Having(m.seq)
    BY <2>2 DEF Having, Seen
  <2> QED
    BY <2>2, <2>3, <2>4 DEF TtlLeft
<1>3. ASSUME NEW m \in net, Handle(m)
      PROVE  TtlLeft(d)'
  <2>1. PICK r : r = Owner[m.to]
    OBVIOUS
  <2>2. r \in Routers /\ m.to \in InterfacesOf(r) /\ m \in Copy
    BY <1>3, <2>1, HandleCases DEF TypeOK
  <2>3. \A n \in Int : Having(n) \subseteq Having(n)'
    BY <1>3, SeenStays DEF Having
  <2> SUFFICES ASSUME NEW c \in net'
               PROVE  Ttl <= c.ttl + d * Cardinality(Having(c.seq)')
    BY DEF TtlLeft
  <2>4. PICK before, after : before = Having(c.seq) /\ after = Having(c.seq)'
    OBVIOUS
  <2>5. IsFiniteSet(Others) /\ after \subseteq Others
    BY <1>0, <2>4, HavingFinite DEF Having
  <2>6. IsFiniteSet(after) /\ Cardinality(after) \in Nat
    BY <2>5, FS_Subset, FS_CardinalityType
  <2>7. IsFiniteSet(before) /\ Cardinality(before) \in Nat
    BY <1>0, <2>4, HavingFinite
  <2>8. CASE c \in net
    <3>1. c \in Copy /\ c.seq \in Int /\ c.ttl \in Int
      BY <2>8 DEF TypeOK, Copy, Numbers
    <3>2. before \subseteq after
      BY <2>3, <2>4, <3>1
    <3>3. Cardinality(before) <= Cardinality(after)
      BY <2>6, <3>2, FS_Subset
    <3>4. /\ d * Cardinality(before) <= d * Cardinality(after)
          /\ d * Cardinality(before) \in Nat /\ d * Cardinality(after) \in Nat
      BY <2>6, <2>7, <3>3, Products
    <3>5. Ttl <= c.ttl + d * Cardinality(before)
      BY <2>4, <2>8 DEF TtlLeft
    <3>6. Ttl <= c.ttl + d * Cardinality(after)
      BY <3>1, <3>4, <3>5
    <3> QED
      BY <2>4, <3>6
  <2>9. CASE c \notin net
    <3>1. /\ r \in Others /\ ~Seen(r, m.seq)
          /\ db'[r] = [seq |-> m.seq, age |-> 0] /\ db'[r] # NoEntry
          /\ c \in Forwarded(r, m)
      BY <1>3, <2>1, <2>9, HandleCases
    <3>2. c.seq = m.seq /\ c.ttl >= m.ttl - (Len(Ifs[r]) - 1) /\ c \in Copy
      BY <2>2, <3>1, ForwardedCopies
    <3>3. m.ttl \in Int /\ c.ttl \in Int /\ m.seq \in Int
      BY <2>2, <3>2 DEF Copy, Numbers
    <3>4. Len(Ifs[r]) <= d + 1 /\ Len(Ifs[r]) \in Nat
      BY <3>1, OwnInterfaces DEF EnoughTtl, Others
    <3>5. c.ttl >= m.ttl - d
      BY <3>2, <3>3, <3>4
    <3>6. r \notin before /\ r \in after /\ before \subseteq after
      <4>1. Seen(r, m.seq)'
        BY <3>1, <3>3 DEF Seen
      <4> QED
        BY <2>3, <2>4, <3>1, <3>2, <3>3, <4>1 DEF Having
    <3>7. Cardinality(before) + 1 <= Cardinality(after)
      <4>1. Cardinality(before \cup {r}) = Cardinality(before) + 1
        BY <2>7, <3>6, FS_AddElement
      <4>2. Cardinality(before \cup {r}) <= Cardinality(after)
        BY <2>6, <3>6, FS_Subset
      <4> QED
        BY <4>1, <4>2
    <3>8. PICK x \in Nat, y \in Nat :
            x = d * Cardinality(before) /\ y = d * Cardinality(after)
      BY <2>6, <2>7, Products
    <3>9. x + d <= y
      <4>1. d * (Cardinality(before) + 1) = x + d
        BY <2>7, <3>8, Products
      <4>2. d * (Cardinality(before) + 1) <= y
        BY <2>6, <2>7, <3>7, <3>8, Products
      <4> QED
        BY <4>1, <4>2
    <3>10. Ttl <= m.ttl + x
      BY <2>4, <3>2, <3>8 DEF TtlLeft
    <3>11. Ttl <= c.ttl + y
      BY <3>3, <3>5, <3>9, <3>10
    <3> QED
      BY <2>4, <3>8, <3>11
  <2> QED
    BY <2>8, <2>9
<1>4. ASSUME net' = {}
      PROVE  TtlLeft(d)'
  BY <1>4 DEF TtlLeft
<1>5. ASSUME NEW i \in OriginIfs, NEW b \in Batches, ThreadStep(i, b)
      PROVE  TtlLeft(d)'
  BY <1>1, <1>2, <1>5, OriginSteps DEF ThreadStep
<1>6. ASSUME NEW b \in Batches, Round(b)
      PROVE  TtlLeft(d)'
  BY <1>1, <1>6 DEF Round
<1>7. ASSUME NEW m \in net, Lose(m)
      PROVE  TtlLeft(d)'
  BY <1>1, <1>7 DEF Lose
<1>8. ASSUME NEW r \in Routers, Restart(r)
      PROVE  TtlLeft(d)'
  BY <1>4, <1>8 DEF Restart
<1>9. CASE Tick
  BY <1>4, <1>9 DEF Tick, Quiet
<1>10. CASE UNCHANGED vars
  BY <1>1, <1>10 DEF vars
<1>11. CASE Meet
  BY <1>1, <1>11, MeetSteps
<1> QED
  BY <1>3, <1>5, <1>6, <1>7, <1>8, <1>9, <1>10, <1>11 DEF Next, Work

-----------------------------------------------------------------------------
(* A round.                                                                *)

LEMMA CountersType == TypeOK => Counters \subseteq Numbers /\ seqno \in Counters
<1> SUFFICES ASSUME TypeOK PROVE Counters \subseteq Numbers /\ seqno \in Counters
  OBVIOUS
<1>1. \A x \in OriginIfs \X Batches : thread[x].reg \in Numbers
  BY DEF TypeOK
<1> QED
  BY <1>1 DEF TypeOK, Counters

\* The least value that the counter has, or that a thread is to write back,
\* is behind no table when the round begins: the numbers of this round, all
\* greater, are new to every router.
LEMMA RoundBegins ==
    ASSUME TypeOK, NEW b \in Batches, Round(b), sound'
    PROVE  \E n \in Numbers : RoundAbove(n)'
<1>1. Counters \in SUBSET Nat /\ Counters # {} /\ Counters \subseteq Numbers
  BY CountersType DEF Numbers
<1>2. PICK n \in Counters : \A c \in Counters : n <= c
  BY <1>1, LeastNumber
<1>3. n \in Nat /\ n \in Numbers
  BY <1>1
<1>4. /\ up = Routers /\ known = Interfaces /\ ~Behind
      /\ UNCHANGED <<up, known, seqno, net, db>>
  BY DEF Round
<1>5. \A r \in Others : ~Seen(r, n + 1)'
  <2> SUFFICES ASSUME NEW r \in Others, Seen(r, n + 1)
               PROVE  FALSE
    BY <1>4 DEF Seen
  <2>1. db[r] # NoEntry /\ db[r].seq \in Int /\ db[r].seq >= n + 1
    BY DEF Seen, TypeOK, Entry, Numbers
  <2>2. db[r].seq > n
    BY <1>3, <2>1
  <2> QED
    BY <1>4, <2>1, <2>2 DEF Behind
<1>6. \A c \in Counters' : c >= n
  <2> SUFFICES ASSUME NEW c \in Counters'
               PROVE  c \in Counters
    BY <1>1, <1>2, <1>3
  <2>1. CASE c = seqno'
    BY <1>4, <2>1 DEF Counters
  <2>2. CASE c # seqno'
    <3>1. PICK x \in OriginIfs \X Batches : thread'[x].pc = "loaded" /\ thread'[x].reg = c
      BY <2>2 DEF Counters
    <3>2. thread'[x] = thread[x]
      <4>1. CASE known \cap OriginIfs = {}
        BY <4>1 DEF Round
      <4>2. CASE known \cap OriginIfs # {}
        <5>1. thread'[x] = IF x[2] = b THEN [pc |-> "start", reg |-> 0] ELSE thread[x]
          BY <4>2 DEF Round, Started
        <5> QED
          BY <3>1, <5>1
      <4> QED
        BY <4>1, <4>2
    <3> QED
      BY <3>1, <3>2 DEF Counters
  <2> QED
    BY <2>1, <2>2
<1>7. ASSUME NEW i \in OriginIfs
      PROVE  Due(i, n)'
  <2>1. thread' = Started(b) /\ <<i, b>> \in OriginIfs \X Batches
    BY <1>4, Network DEF Round
  <2>2. thread'[<<i, b>>].pc = "start"
    BY <2>1 DEF Started
  <2> QED
    BY <2>2 DEF Due
<1> QED
  BY <1>3, <1>4, <1>5, <1>6, <1>7 DEF RoundAbove

\* A thread is started, reads the counter, writes the next number and sends
\* the counter as it is then, which all the while is not below n.
LEMMA LoadInRound ==
    ASSUME TypeOK, NEW n \in Numbers, RoundAbove(n),
           NEW i \in OriginIfs, NEW b \in Batches, Load(i, b)
    PROVE  RoundAbove(n)'
<1>1. /\ UNCHANGED <<up, known, seqno, clock, net, db>>
      /\ thread' = [thread EXCEPT ![<<i, b>>] = [pc |-> "loaded", reg |-> seqno]]
  BY DEF Load
<1>2. DOMAIN thread = OriginIfs \X Batches
  BY DEF TypeOK
<1>3. Counters' \subseteq Counters
  BY <1>1, <1>2 DEF Counters
<1>4. \A j \in OriginIfs : Due(j, n) => Due(j, n)'
  BY <1>1, <1>2 DEF Due
<1>5. \A q \in Others : Seen(q, n + 1)' = Seen(q, n + 1)
  BY <1>1 DEF Seen
<1>6. \A j : OnItsWay(j, n) => OnItsWay(j, n)'
  BY <1>1 DEF OnItsWay
<1>7. \A j : Across(j) # Origin => (Seen(Across(j), n + 1) => Seen(Across(j), n + 1)')
  BY <1>1 DEF Seen
<1> QED
  BY <1>1, <1>3, <1>4, <1>5, <1>6, <1>7 DEF RoundAbove

LEMMA StoreInRound ==
    ASSUME TypeOK, NEW n \in Numbers, RoundAbove(n), sound',
           NEW i \in OriginIfs, NEW b \in Batches, Store(i, b)
    PROVE  RoundAbove(n)'
<1>1. /\ UNCHANGED <<up, known, clock, net, db>>
      /\ thread[<<i, b>>].pc = "loaded"
      /\ seqno' = NextNumber(thread[<<i, b>>].reg) /\ seqno' # 0
      /\ thread' = [thread EXCEPT ![<<i, b>>] = [pc |-> "stored", reg |-> 0]]
  BY DEF Store
<1>2. DOMAIN thread = OriginIfs \X Batches /\ <<i, b>> \in OriginIfs \X Batches
  BY DEF TypeOK
<1>3. PICK reg : reg = thread[<<i, b>>].reg
  OBVIOUS
<1>4. reg \in Counters
  BY <1>1, <1>2, <1>3 DEF Counters
<1>5. reg \in Numbers /\ reg >= n
  BY <1>4, CountersType DEF RoundAbove
<1>6. seqno' = reg + 1
  <2>1. reg \in Nat /\ reg < SeqMod /\ SeqMod \in Nat
    BY <1>5 DEF Numbers
  <2>2. reg + 1 = SeqMod => (reg + 1) % SeqMod = 0
    BY <2>1
  <2>3. reg + 1 < SeqMod => (reg + 1) % SeqMod = reg + 1
    BY <2>1
  <2>4. seqno' = (reg + 1) % SeqMod
    BY <1>1, <1>3 DEF NextNumber
  <2>5. reg + 1 < SeqMod \/ reg + 1 = SeqMod
    BY <2>1
  <2> QED
    BY <1>1, <2>2, <2>3, <2>4, <2>5, Zenon
<1>7. n \in Int /\ seqno' \in Int /\ seqno' > n
  BY <1>5, <1>6 DEF Numbers
<1>8. \A c \in Counters' : c >= n
  <2>1. Counters' \subseteq Counters \cup {seqno'}
    BY <1>1, <1>2 DEF Counters
  <2>2. seqno' >= n
    BY <1>7
  <2> QED
    BY <2>1, <2>2 DEF RoundAbove
<1>9. \A j \in OriginIfs : Due(j, n) => Due(j, n)'
  <2> SUFFICES ASSUME NEW j \in OriginIfs, NEW c \in Batches,
                      thread[<<j, c>>].pc \in {"start", "loaded", "stored"}
               PROVE  Due(j, n)'
    BY DEF Due
  <2>1. thread'[<<j, c>>].pc \in {"start", "loaded"} \/ thread'[<<j, c>>].pc = "stored"
    BY <1>1, <1>2
  <2> QED
    BY <1>7, <2>1 DEF Due
<1>10. \A q \in Others : Seen(q, n + 1)' = Seen(q, n + 1)
  BY <1>1 DEF Seen
<1>11. \A j : OnItsWay(j, n) => OnItsWay(j, n)'
  BY <1>1 DEF OnItsWay
<1>12. \A j : Seen(Across(j), n + 1) => Seen(Across(j), n + 1)'
  BY <1>1 DEF Seen
<1> QED
  BY <1>1, <1>8, <1>9, <1>10, <1>11, <1>12 DEF RoundAbove

LEMMA SendInRound ==
    ASSUME TypeOK, NEW n \in Numbers, RoundAbove(n),
           NEW i \in OriginIfs, NEW b \in Batches, Send(i, b)
    PROVE  RoundAbove(n)'
<1>0. PICK new : new = [seq |-> seqno, ttl |-> Ttl, to |-> Peer[i]]
  OBVIOUS
<1>1. /\ UNCHANGED <<up, known, seqno, clock, db>>
      /\ net' = net \cup {new} /\ new.seq = seqno /\ new.to = Peer[i]
      /\ thread[<<i, b>>].pc = "stored"
      /\ thread' = [thread EXCEPT ![<<i, b>>] = [pc |-> "idle", reg |-> 0]]
  BY <1>0 DEF Send, Idle
<1>2. DOMAIN thread = OriginIfs \X Batches /\ <<i, b>> \in OriginIfs \X Batches
  BY DEF TypeOK
<1>3. Counters' \subseteq Counters
  BY <1>1, <1>2 DEF Counters
<1>4. \A j : OnItsWay(j, n) => OnItsWay(j, n)'
  BY <1>1 DEF OnItsWay
<1>5. ASSUME NEW j \in OriginIfs, Due(j, n)
      PROVE  Due(j, n)' \/ OnItsWay(j, n)'
  <2>1. PICK c \in Batches : thread[<<j, c>>].pc \in {"start", "loaded"}
                             \/ (thread[<<j, c>>].pc = "stored" /\ seqno > n)
    BY <1>5 DEF Due
  <2>2. CASE <<j, c>> = <<i, b>>
    <3>1. seqno > n /\ j = i
      BY <1>1, <2>1, <2>2
    <3>2. new \in net' /\ new.to = Peer[j] /\ new.seq > n
      BY <1>1, <3>1
    <3> QED
      BY <3>2 DEF OnItsWay
  <2>3. CASE <<j, c>> # <<i, b>>
    <3>1. <<j, c>> \in OriginIfs \X Batches
      OBVIOUS
    <3>2. thread'[<<j, c>>] = thread[<<j, c>>] /\ seqno' = seqno
      BY <1>1, <1>2, <2>3, <3>1
    <3> QED
      BY <2>1, <3>2 DEF Due
  <2> QED
    BY <2>2, <2>3
<1>6. \A q \in Others : Seen(q, n + 1)' = Seen(q, n + 1)
  BY <1>1 DEF Seen
<1>7. \A j : Seen(Across(j), n + 1) => Seen(Across(j), n + 1)'
  BY <1>1 DEF Seen
<1> QED
  BY <1>1, <1>3, <1>4, <1>5, <1>6, <1>7 DEF RoundAbove

LEMMA NothingInRound ==
    ASSUME NEW n \in Numbers, RoundAbove(n), UNCHANGED vars
    PROVE  RoundAbove(n)'
<1>1. UNCHANGED <<up, known, seqno, thread, clock, net, db>>
  BY DEF vars
<1>2. Counters' = Counters
  BY <1>1 DEF Counters
<1>3. \A i \in OriginIfs : Due(i, n) => Due(i, n)'
  BY <1>1 DEF Due
<1>4. \A q \in Others : Seen(q, n + 1)' = Seen(q, n + 1)
  BY <1>1 DEF Seen
<1>5. \A i : OnItsWay(i, n) => OnItsWay(i, n)'
  BY <1>1 DEF OnItsWay
<1>6. \A i : Seen(Across(i), n + 1) => Seen(Across(i), n + 1)'
  BY <1>1 DEF Seen
<1> QED
  BY <1>1, <1>2, <1>3, <1>4, <1>5, <1>6 DEF RoundAbove

\* While the flood of the round goes on, every router that has not got a
\* number of the round gets a copy from each router that has.
LEMMA HandleInRound ==
    ASSUME TypeOK, SentOn, NEW d \in Nat, EnoughTtl(d), TtlLeft(d),
           NEW n \in Numbers, RoundAbove(n), NEW m \in net, Handle(m)
    PROVE  RoundAbove(n)'
<1>1. PICK r : r = Owner[m.to]
  OBVIOUS
<1>2. /\ r \in Routers /\ m.to \in InterfacesOf(r)
      /\ m \in Copy /\ m.seq \in Int /\ m.to \in Interfaces /\ n \in Int
  <2>1. m \in Copy
    BY DEF TypeOK
  <2>2. m.seq \in Int /\ m.to \in Interfaces /\ n \in Int
    BY <2>1 DEF Copy, Numbers
  <2>3. r \in Routers /\ m.to \in InterfacesOf(r)
    BY <1>1, HandleCases
  <2> QED
    BY <2>1, <2>2, <2>3
<1>3. UNCHANGED <<up, known, seqno, thread, clock>>
  BY DEF Handle
<1>4. \A q \in Others : Seen(q, n + 1) => Seen(q, n + 1)'
  BY <1>2, SeenStays
<1>5. \A i \in Interfaces : Across(i) # Origin => Across(i) \in Others
  BY Network DEF Across, Others
<1>6. ASSUME NEW i \in Interfaces, Across(i) # Origin, OnItsWay(i, n)
      PROVE  Seen(Across(i), n + 1)' \/ OnItsWay(i, n)'
  <2>1. PICK c \in net : c.to = Peer[i] /\ c.seq > n
    BY <1>6 DEF OnItsWay
  <2>2. CASE c # m
    <3>1. c \in net'
      BY <2>2 DEF Handle
    <3> QED
      BY <2>1, <3>1 DEF OnItsWay
  <2>3. CASE c = m
    <3>1. Across(i) = r /\ r \in Others /\ m.seq >= n + 1
      BY <1>1, <1>2, <1>5, <1>6, <2>1, <2>3 DEF Across
    <3>2. Seen(r, m.seq)'
      <4>1. CASE Seen(r, m.seq)
        BY <1>2, <3>1, <4>1, SeenStays
      <4>2. CASE ~Seen(r, m.seq)
        <5>1. db'[r] = [seq |-> m.seq, age |-> 0] /\ db'[r] # NoEntry
          BY <1>1, <1>2, <3>1, <4>2, HandleCases DEF RoundAbove
        <5> QED
          BY <1>2, <5>1 DEF Seen
      <4> QED
        BY <4>1, <4>2
    <3>3. db'[r] # NoEntry => db'[r].seq \in Int
      <4>1. TypeOK'
        BY TypeStep DEF Next, Work
      <4> QED
        BY <3>1, <4>1 DEF TypeOK, Entry, Numbers
    <3>4. Seen(r, n + 1)'
      BY <1>2, <3>1, <3>2, <3>3 DEF Seen
    <3> QED
      BY <3>1, <3>4
  <2> QED
    BY <2>2, <2>3
<1>7. \A q \in Others : Seen(q, n + 1)' => db'[q].age <= clock'
  <2> SUFFICES ASSUME NEW q \in Others, Seen(q, n + 1)'
               PROVE  db'[q].age <= clock
    BY <1>3
  <2>1. CASE db'[q] = db[q]
    BY <2>1 DEF Seen, RoundAbove
  <2>2. CASE db'[q] # db[q]
    <3>1. db'[q] = [seq |-> m.seq, age |-> 0]
      BY <1>1, <2>2, HandleCases
    <3> QED
      BY <3>1 DEF TypeOK
  <2> QED
    BY <2>1, <2>2
<1>8. ASSUME NEW i \in OriginIfs, Across(i) # Origin
      PROVE  Seen(Across(i), n + 1)' \/ Due(i, n)' \/ OnItsWay(i, n)'
  <2>1. i \in Interfaces
    BY Network
  <2>2. Due(i, n) => Due(i, n)'
    BY <1>3 DEF Due
  <2>3. Seen(Across(i), n + 1) \/ Due(i, n) \/ OnItsWay(i, n)
    BY <1>8 DEF RoundAbove
  <2> QED
    BY <1>4, <1>5, <1>6, <1>8, <2>1, <2>2, <2>3
<1>9. ASSUME NEW q \in Others, Seen(q, n + 1)', NEW i \in InterfacesOf(q), Across(i) # Origin
      PROVE  Seen(Across(i), n + 1)' \/ OnItsWay(i, n)'
  <2>1. i \in Interfaces
    BY Network DEF Others
  <2>2. CASE Seen(q, n + 1)
    <3>1. Seen(Across(i), n + 1) \/ OnItsWay(i, n)
      BY <1>9, <2>2 DEF RoundAbove
    <3> QED
      BY <1>4, <1>5, <1>6, <1>9, <2>1, <3>1
  <2>3. CASE ~Seen(q, n + 1)
    <3>1. /\ q = r /\ ~Seen(r, m.seq)
          /\ db'[r] = [seq |-> m.seq, age |-> 0]
          /\ net' = (net \ {m}) \cup Forwarded(r, m)
      <4>1. ~(UNCHANGED db)
        BY <1>9, <2>3 DEF Seen
      <4>2. q # r => db'[q] # db[q]
        BY <1>9, <2>3 DEF Seen
      <4> QED
        BY <1>1, <4>1, <4>2, HandleCases
    <3>2. m.seq >= n + 1 /\ m.seq > n
      BY <1>2, <1>9, <3>1 DEF Seen
    <3>3. CASE i = m.to
      <4>1. Seen(Across(i), m.seq) /\ Across(i) \in Others
        BY <1>5, <1>9, <2>1, <3>3 DEF SentOn
      <4>2. Seen(Across(i), n + 1)
        <5>1. db[Across(i)].seq \in Int
          BY <4>1 DEF TypeOK, Entry, Numbers, Seen
        <5> QED
          BY <1>2, <3>2, <4>1, <5>1 DEF Seen
      <4> QED
        BY <1>4, <4>1, <4>2
    <3>4. CASE i # m.to
      <4>1. PICK k \in DOMAIN Ifs[r] : Ifs[r][k] = i
        BY <1>2, <1>9, <3>1, OwnInterfaces
      <4>2. Sends(r, m.to, k) < m.ttl
        <5>1. d < m.ttl /\ r \in Others
          BY <1>9, <3>1, TtlLasts
        <5>2. Sends(r, m.to, k) <= Len(Ifs[r]) - 1 /\ Sends(r, m.to, k) \in Nat
          BY <1>2, SendsBounds
        <5>3. Len(Ifs[r]) <= d + 1 /\ Len(Ifs[r]) \in Nat
          BY <1>2, <5>1, OwnInterfaces DEF EnoughTtl
        <5>4. m.ttl \in Int
          BY <1>2 DEF Copy
        <5> QED
          BY <5>1, <5>2, <5>3, <5>4
      <4>3. PICK c : c = [seq |-> m.seq, ttl |-> m.ttl - Sends(r, m.to, k),
                          to |-> Peer[Ifs[r][k]]]
        OBVIOUS
      <4>4. c \in Forwarded(r, m)
        <5>1. k \in Onward(r, m.to)
          BY <2>1, <3>4, <4>1 DEF Onward, RoundAbove
        <5> QED
          BY <4>2, <4>3, <5>1 DEF Forwarded
      <4>5. c \in net' /\ c.to = Peer[i] /\ c.seq > n
        BY <3>1, <3>2, <4>1, <4>3, <4>4
      <4> QED
        BY <4>5 DEF OnItsWay
    <3> QED
      BY <3>3, <3>4
  <2> QED
    BY <2>2, <2>3
<1>10. up' = Routers /\ known' = Interfaces /\ \A c \in Counters' : c >= n
  BY <1>3 DEF RoundAbove, Counters
<1> QED
  BY <1>7, <1>8, <1>9, <1>10 DEF RoundAbove

\* The entries of the round are not old enough to be removed before the next.
LEMMA TickInRound ==
    ASSUME TypeOK, NEW n \in Numbers, RoundAbove(n), Tick
    PROVE  RoundAbove(n)'
<1>1. /\ UNCHANGED <<up, known, seqno, thread, net>> /\ clock' = clock + 1
      /\ net = {} /\ clock \in Nat /\ clock < LsuInt
      /\ \A i \in OriginIfs, b \in Batches : thread[<<i, b>>].pc = "idle"
  BY DEF Tick, Quiet, Idle, TypeOK, RoundAbove
<1>2. ASSUME NEW q \in Others, Seen(q, n + 1)
      PROVE  Seen(q, n + 1)' /\ db'[q].age <= clock'
  <2>1. db[q] \in Entry /\ db[q] # NoEntry /\ db[q].age \in Nat /\ db[q].age <= clock
    BY <1>2 DEF Seen, TypeOK, Entry, RoundAbove
  <2>2. db[q].age # Timeout
    BY <1>1, <2>1
  <2>3. db'[q] = [db[q] EXCEPT !.age = @ + 1]
    BY <2>1, <2>2 DEF Tick, Aged
  <2>4. db'[q].seq = db[q].seq /\ db'[q].age = db[q].age + 1 /\ db'[q] # NoEntry
    <3>1. db[q].age + 1 \in 0 .. Timeout
      BY <1>1, <2>1
    <3>2. db'[q] \in Entry
      BY <2>1, <2>3, <3>1 DEF Entry
    <3> QED
      BY <2>1, <2>3, <3>2 DEF Entry
  <2> QED
    BY <1>1, <1>2, <2>1, <2>4 DEF Seen
<1>3. ASSUME NEW q \in Others, Seen(q, n + 1)'
      PROVE  Seen(q, n + 1)
  <2>1. db[q] # NoEntry /\ db[q] \in Entry
    BY <1>3 DEF Seen, Tick, TypeOK
  <2>2. db'[q] = [db[q] EXCEPT !.age = @ + 1]
    BY <1>3, <2>1 DEF Seen, Tick, Aged
  <2> QED
    BY <1>3, <2>1, <2>2 DEF Seen, Entry
<1>4. ASSUME NEW i \in OriginIfs, Across(i) # Origin
      PROVE  Seen(Across(i), n + 1)'
  <2>1. ~Due(i, n) /\ ~OnItsWay(i, n)
    BY <1>1 DEF Due, OnItsWay
  <2>2. Seen(Across(i), n + 1)
    BY <1>4, <2>1 DEF RoundAbove
  <2>3. Across(i) \in Others
    BY <1>4, Network DEF Across, Others
  <2> QED
    BY <1>2, <2>2, <2>3
<1>5. ASSUME NEW q \in Others, Seen(q, n + 1)', NEW i \in InterfacesOf(q), Across(i) # Origin
      PROVE  Seen(Across(i), n + 1)'
  <2>1. Seen(q, n + 1) /\ ~OnItsWay(i, n)
    BY <1>1, <1>3, <1>5 DEF OnItsWay
  <2>2. Seen(Across(i), n + 1)
    BY <1>5, <2>1 DEF RoundAbove
  <2>3. Across(i) \in Others
    BY <1>5, Network DEF Across, Others
  <2> QED
    BY <1>2, <2>2, <2>3
<1>6. up' = Routers /\ known' = Interfaces /\ \A c \in Counters' : c >= n
  BY <1>1 DEF RoundAbove, Counters
<1> QED
  BY <1>2, <1>3, <1>4, <1>5, <1>6 DEF RoundAbove

-----------------------------------------------------------------------------
(* The theorems.                                                           *)

\* Every variable keeps its type: numbers stay in their 16 bits, and a copy
\* that is sent on always has some ttl left (sr_pwospf.c:815-820).
THEOREM TypeCorrect == Spec => []TypeOK
<1>1. Init => TypeOK
  BY TypeInit
<1>2. TypeOK /\ [Next]_vars => TypeOK'
  BY TypeStep
<1> QED
  BY <1>1, <1>2, PTL DEF Spec

\* Copies are on their way only from routers that have their number, with the
\* ttl that these have left them; and after the timer woke at a sound moment
\* the flood of the round goes on until it has been everywhere.
THEOREM Invariant ==
    ASSUME NEW d \in Nat, EnoughTtl(d)
    PROVE  Spec => []IInv(d)
<1>1. Init => IInv(d)
  <2> SUFFICES ASSUME Init PROVE IInv(d)
    OBVIOUS
  <2>1. TypeOK
    BY TypeInit
  <2>2. net = {} /\ sound = FALSE
    BY DEF Init
  <2> QED
    BY <2>1, <2>2 DEF IInv, SentOn, TtlLeft
<1>2. IInv(d) /\ [Next]_vars => IInv(d)'
  <2> SUFFICES ASSUME IInv(d), [Next]_vars PROVE IInv(d)'
    OBVIOUS
  <2> USE DEF IInv
  <2>1. TypeOK' /\ SentOn' /\ TtlLeft(d)'
    BY TypeStep, SentOnStep, TtlStep
  <2>2. ASSUME sound'
        PROVE  \E n \in Numbers : RoundAbove(n)'
    <3>1. CASE \E b \in Batches : Round(b)
      BY <2>2, <3>1, RoundBegins
    <3>2. CASE ~\E b \in Batches : Round(b)
      <4>1. (~\E r \in Routers : Restart(r)) /\ ~\E m \in net : Lose(m)
        BY <2>2 DEF Restart, Lose
      <4>2. sound
        BY <2>2, <3>2, <4>1 DEF Next, Meet, Work, Boot, Hear, ThreadStep, NewNeighbour,
             NoNeighbour, Load, Store, Send, Handle, Tick, vars, TypeOK
      <4>3. PICK n \in Numbers : RoundAbove(n)
        BY <4>2
      <4>4. up = Routers /\ known = Interfaces /\ \A i \in OriginIfs : i \in known
        BY <4>3, Network DEF RoundAbove
      <4>5. ASSUME NEW i \in OriginIfs, NEW b \in Batches, ThreadStep(i, b)
            PROVE  RoundAbove(n)'
        <5>1. ~NoNeighbour(i, b)
          BY <4>4 DEF NoNeighbour
        <5> QED
          BY <2>2, <4>3, <4>5, <5>1, LoadInRound, StoreInRound, SendInRound DEF ThreadStep
      <4>6. ASSUME NEW m \in net, Handle(m)
            PROVE  RoundAbove(n)'
        BY <4>3, <4>6, HandleInRound
      <4>7. ASSUME Tick
            PROVE  RoundAbove(n)'
        BY <4>3, <4>7, TickInRound
      <4>8. ASSUME UNCHANGED vars
            PROVE  RoundAbove(n)'
        BY <4>3, <4>8, NothingInRound
      <4>9. ~Meet
        BY <4>4 DEF Meet, Boot, Hear, NewNeighbour, Greeted
      <4>10. RoundAbove(n)'
        BY <3>2, <4>1, <4>5, <4>6, <4>7, <4>8, <4>9 DEF Next, Work
      <4>11. \E k \in Numbers : RoundAbove(k)'
        BY <4>10, Zenon
      <4> QED
        BY <4>11, Zenon
    <3> QED
      BY <3>1, <3>2
  <2>3. sound' => (\E n \in Numbers : RoundAbove(n))'
    BY <2>2 DEF Numbers
  <2> QED
    BY <2>1, <2>3
<1> QED
  BY <1>1, <1>2, PTL DEF Spec

\* A round of LSUs reaches every router, whatever the order of the copies and
\* however the send_lsu threads race on the counter (sr_pwospf.c:588-591), as
\* long as the ttl, which goes down for every interface (:815), is enough for
\* the network.
THEOREM SpreadHolds ==
    ASSUME Connected, NEW d \in Nat, EnoughTtl(d)
    PROVE  Spec => []Spread
<1>1. IInv(d) => Spread
  <2> SUFFICES ASSUME IInv(d), Quiet, sound, NEW r \in Others
               PROVE  Fresh(r)
    BY DEF Spread
  <2>1. PICK n \in Numbers : RoundAbove(n)
    BY DEF IInv
  <2> DEFINE reached == {Origin} \cup {q \in Others : Seen(q, n + 1)}
  <2>2. \A i \in OriginIfs : ~Due(i, n)
    <3>1. \A i \in OriginIfs, b \in Batches : thread[<<i, b>>].pc = "idle"
      <4>1. \A i \in OriginIfs, b \in Batches : thread[<<i, b>>] = Idle
        BY DEF Quiet
      <4>2. Idle.pc = "idle"
        BY DEF Idle
      <4> QED
        BY <4>1, <4>2, Zenon
    <3> QED
      BY <3>1 DEF Due
  <2>3. \A i : ~OnItsWay(i, n)
    BY DEF Quiet, OnItsWay
  <2>4. ASSUME NEW i \in Interfaces, Owner[i] \in reached
        PROVE  Owner[Peer[i]] \in reached
    <3>1. /\ Owner[i] \in Routers /\ i \in InterfacesOf(Owner[i])
          /\ Peer[i] \in Interfaces /\ Owner[Peer[i]] \in Routers
      BY Network
    <3>2. CASE Across(i) = Origin
      BY <3>2 DEF Across
    <3>3. CASE Across(i) # Origin
      <4>1. Across(i) \in Others
        BY <3>1, <3>3 DEF Across, Others
      <4>2. Seen(Across(i), n + 1)
        <5>1. CASE Owner[i] = Origin
          BY <2>1, <2>2, <2>3, <3>1, <3>3, <5>1 DEF RoundAbove, OriginIfs
        <5>2. CASE Owner[i] # Origin
          <6>1. Owner[i] \in Others /\ Seen(Owner[i], n + 1)
            BY <2>4, <5>2
          <6> QED
            BY <2>1, <2>3, <3>1, <3>3, <6>1 DEF RoundAbove
        <5> QED
          BY <5>1, <5>2
      <4> QED
        BY <4>1, <4>2 DEF Across
    <3> QED
      BY <3>2, <3>3
  <2>5. reached \in SUBSET Routers /\ Origin \in reached
    BY DEF Others
  <2>6. reached = Routers
    <3> HIDE DEF reached
    <3> QED
      BY <2>4, <2>5 DEF Connected
  <2>7. Seen(r, n + 1)
    BY <2>6 DEF Others
  <2> QED
    BY <2>1, <2>7 DEF RoundAbove, Seen, Fresh
<1>2. Spec => []IInv(d)
  BY Invariant
<1> QED
  BY <1>1, <1>2, PTL
=============================================================================
