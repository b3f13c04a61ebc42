--------------------------- MODULE TopologyProofs ---------------------------
(***************************************************************************)
(* The topology table holds nothing that was not announced, for any number *)
(* of routers, networks and LSU threads, for any delivery of the LSUs and  *)
(* any order of what the threads write.                                    *)
(***************************************************************************)
EXTENDS Topology, ListsProofs, TLAPS

USE SelfAssumption, NoneAssumption, NetsAssumption, TimesAssumption

\* m announces lsa under the number seq of o.
Says(m, o, seq, lsa) ==
    /\ m.orig = o /\ m.seq = seq
    /\ \E k \in 1 .. Len(m.lsas) : m.lsas[k] = lsa

\* What a thread still has to apply was announced by the LSU it works on.
Carries(h) ==
    h.phase # "idle" =>
        /\ h.orig \in Routers
        /\ \A k \in 1 .. Len(h.lsas) : \E m \in sent : Says(m, h.orig, h.seq, h.lsas[k])

\* A thread that adds or renews an entry has an LSA for it; the entry it
\* renews is its router's, for the network of that LSA.
HasLsa(h) == h.phase = "add" \/ Renewing(h) => h.lsas # <<>>
Finds(h) ==
    h.at # 0 =>
        /\ Renewing(h) /\ h.at \in Positions
        /\ db[h.at].router = h.orig /\ db[h.at].net = Head(h.lsas).net

\* A thread that is about to write the neighbour has written the number.
Ready(h) ==
    h.phase = "neighbour" /\ h.at # 0 =>
        h.orig \in overlap \/ db[h.at].seq = h.seq

ThreadsInv ==
    \A t \in Tids : /\ Carries(handler[t]) /\ HasLsa(handler[t])
                    /\ Finds(handler[t]) /\ Ready(handler[t])

\* Two LSUs of a router are only applied at a time if that was noticed.
Overlaps ==
    \A t, u \in Tids :
        t # u /\ Applying(handler[t]) /\ Applying(handler[u])
            /\ handler[t].orig = handler[u].orig => handler[t].orig \in overlap

\* The number of e and its neighbour were announced for its network.
Half(e) == (\E m \in sent : Numbered(m, e)) /\ (\E m \in sent : Neighboured(m, e))

\* They come from one LSU, but for the causes EntriesAnnounced names.
Whole(i) ==
    \/ db[i].router \in overlap
    \/ Announced(db[i])
    \/ \E t \in Tids : handler[t].phase = "neighbour" /\ handler[t].at = i

EntriesInv == \A i \in Positions : Half(db[i]) /\ Whole(i)

IInv == TypeOK /\ ThreadsInv /\ Overlaps /\ EntriesInv

-----------------------------------------------------------------------------
(* Facts about the definitions.                                            *)

LEMMA TableFacts ==
    ASSUME TypeOK
    PROVE  /\ Len(db) \in Nat /\ DOMAIN db = 1 .. Len(db) /\ Positions = 1 .. Len(db)
           /\ \A i \in Positions : db[i] \in Entry /\ db[i] \in Entries
           /\ \A e \in Entries : \E i \in Positions : e = db[i]
  BY DEF TypeOK, Positions, Entries, Range

LEMMA NewEntryType ==
    ASSUME NEW o \in Routers, NEW lsa \in Lsa, NEW seq \in Nat
    PROVE  /\ NewEntry(o, lsa, seq) \in Entry
           /\ NewEntry(o, lsa, seq).router = o /\ NewEntry(o, lsa, seq).net = lsa.net
           /\ NewEntry(o, lsa, seq).nbr = lsa.nbr /\ NewEntry(o, lsa, seq).seq = seq
  BY DEF NewEntry, Entry, Lsa

LEMMA HeadFacts ==
    ASSUME NEW h \in Thread, h.lsas # <<>>
    PROVE  /\ Head(h.lsas) \in Lsa /\ Head(h.lsas) = h.lsas[1]
           /\ Len(h.lsas) \in Nat /\ 1 \in 1 .. Len(h.lsas)
           /\ Tail(h.lsas) \in Seq(Lsa)
           /\ \A k \in 1 .. Len(Tail(h.lsas)) : k + 1 \in 1 .. Len(h.lsas)
                                                 /\ Tail(h.lsas)[k] = h.lsas[k + 1]
  BY DEF Thread

\* The LSA in hand says what is written of it.
LEMMA SaidLsa ==
    ASSUME NEW h \in Thread, h.lsas # <<>>, h.phase # "idle", Carries(h), NEW e \in Entry,
           e.router = h.orig, e.net = Head(h.lsas).net
    PROVE  /\ e.seq = h.seq => \E m \in sent : Numbered(m, e)
           /\ e.nbr = Head(h.lsas).nbr => \E m \in sent : Neighboured(m, e)
           /\ e.seq = h.seq /\ e.nbr = Head(h.lsas).nbr => Announced(e)
<1>1. /\ Head(h.lsas) \in Lsa /\ Head(h.lsas) = h.lsas[1] /\ 1 \in 1 .. Len(h.lsas)
  BY HeadFacts
<1>2. PICK m \in sent : Says(m, h.orig, h.seq, Head(h.lsas))
  BY <1>1 DEF Carries
<1>3. PICK k \in 1 .. Len(m.lsas) : m.lsas[k] = Head(h.lsas)
  BY <1>2 DEF Says
<1>4. e.seq = h.seq => Numbered(m, e)
  BY <1>2, <1>3 DEF Numbered, Says
<1>5. e.nbr = Head(h.lsas).nbr => Neighboured(m, e)
  <2>1. e.nbr = Head(h.lsas).nbr => Head(h.lsas) = [net |-> e.net, nbr |-> e.nbr]
    BY <1>1 DEF Lsa
  <2> QED
    BY <1>2, <1>3, <2>1 DEF Neighboured, Says
<1> QED
  BY <1>4, <1>5 DEF Announced

\* What was announced stays so, whatever the age of the entry.
LEMMA AnnouncedStays ==
    ASSUME sent \subseteq sent', NEW d, NEW e,
           e.router = d.router, e.net = d.net, e.nbr = d.nbr, e.seq = d.seq
    PROVE  /\ Half(d) => Half(e)'
           /\ Announced(d) => Announced(e)'
<1>1. \A m : (Numbered(m, d) => Numbered(m, e)) /\ (Neighboured(m, d) => Neighboured(m, e))
  BY DEF Numbered, Neighboured
<1>2. \A m : (Numbered(m, e)' <=> Numbered(m, e)) /\ (Neighboured(m, e)' <=> Neighboured(m, e))
  BY DEF Numbered, Neighboured
<1>3. Half(d) => Half(e)'
  BY <1>1, <1>2 DEF Half, Numbered, Neighboured
<1>4. Announced(d) => Announced(e)'
  BY <1>1, <1>2 DEF Announced, Numbered, Neighboured
<1> QED
  BY <1>3, <1>4

LEMMA CarriesRest ==
    ASSUME NEW g \in Thread, g.lsas # <<>>, g.phase # "idle", Carries(g), NEW h,
           h.orig = g.orig, h.seq = g.seq, h.lsas = g.lsas \/ h.lsas = Tail(g.lsas)
    PROVE  Carries(h)
<1>1. \A k \in 1 .. Len(Tail(g.lsas)) : \E j \in 1 .. Len(g.lsas) : Tail(g.lsas)[k] = g.lsas[j]
  BY HeadFacts
<1>2. \A k \in 1 .. Len(h.lsas) : \E j \in 1 .. Len(g.lsas) : h.lsas[k] = g.lsas[j]
  <2>1. CASE h.lsas = g.lsas
    BY <2>1
  <2>2. CASE h.lsas = Tail(g.lsas)
    BY <1>1, <2>2
  <2> QED
    BY <2>1, <2>2
<1> QED
  BY <1>2 DEF Carries

LEMMA CarriesStays ==
    ASSUME sent \subseteq sent', NEW h, NEW g, Carries(h),
           g.phase # "idle" => h.phase # "idle" /\ g.orig = h.orig /\ g.seq = h.seq,
           g.phase # "idle" => g.lsas = h.lsas \/ (h \in Thread /\ h.lsas # <<>> /\ g.lsas = Tail(h.lsas))
    PROVE  Carries(g)'
<1> SUFFICES ASSUME g.phase # "idle"
             PROVE  /\ g.orig \in Routers
                    /\ \A k \in 1 .. Len(g.lsas) : \E m \in sent' : Says(m, g.orig, g.seq, g.lsas[k])
  BY DEF Carries, Says
<1>1. g.orig = h.orig /\ g.seq = h.seq /\ h.orig \in Routers
  BY DEF Carries
<1>2. ASSUME NEW k \in 1 .. Len(g.lsas)
      PROVE  \E j \in 1 .. Len(h.lsas) : g.lsas[k] = h.lsas[j]
  <2>1. CASE g.lsas = h.lsas
    BY <2>1
  <2>2. CASE h \in Thread /\ h.lsas # <<>> /\ g.lsas = Tail(h.lsas)
    BY <2>2, HeadFacts
  <2> QED
    BY <2>1, <2>2
<1>3. \A j \in 1 .. Len(h.lsas) : \E m \in sent' : Says(m, h.orig, h.seq, h.lsas[j])
  BY DEF Carries
<1> QED
  BY <1>1, <1>2, <1>3

-----------------------------------------------------------------------------
(* The steps.                                                              *)

LEMMA InitIInv == Init => IInv
<1> SUFFICES ASSUME Init PROVE IInv
  OBVIOUS
<1>0. /\ db = <<>> /\ handler = [t \in Tids |-> Idle]
      /\ nbr = [o \in Routers |-> [n \in Nets |-> None]]
      /\ seqno = [o \in Routers |-> 0] /\ sent = {} /\ stale = FALSE /\ overlap = {}
  BY DEF Init
<1>1. TypeOK
  <2>1. Idle \in Thread
    BY DEF Idle, Thread
  <2>2. db \in Seq(Entry)
    BY <1>0
  <2>4. seqno \in [Routers -> Nat]
    BY <1>0
  <2>3. nbr \in [Routers -> [Nets -> Routers \cup {None}]]
    BY <1>0
  <2> QED
    BY <1>0, <2>1, <2>2, <2>3, <2>4, Zenon DEF TypeOK
<1>2. Positions = {}
  BY <1>0 DEF Positions
<1>3. \A t \in Tids : handler[t].phase = "idle" /\ handler[t].at = 0
  BY <1>0 DEF Idle
<1> QED
  BY <1>1, <1>2, <1>3 DEF IInv, ThreadsInv, Overlaps, EntriesInv, Carries, HasLsa, Finds,
                          Ready, Applying, Renewing

\* What another router does adds LSUs at most.
LEMMA RouterStep ==
    ASSUME IInv, NEW o \in Routers,
           (\E n \in Nets : Discover(o, n)) \/ SendLsu(o) \/ Restart(o)
    PROVE  IInv'
<1> USE DEF IInv
<1>1. /\ db' = db /\ handler' = handler /\ overlap' = overlap /\ sent \subseteq sent'
      /\ Positions' = Positions
  BY DEF Discover, SendLsu, Restart, Positions
<1>2. TypeOK'
  <2>1. CASE \E n \in Nets : Discover(o, n)
    BY <2>1 DEF Discover, TypeOK
  <2>2. CASE SendLsu(o)
    <3>1. /\ seqno[o] + 1 \in Nat /\ seqno' = [seqno EXCEPT ![o] = seqno[o] + 1]
          /\ seqno'[o] = seqno[o] + 1
      BY <2>2 DEF SendLsu, TypeOK
    <3>2. Announcement(o) \in Seq(Lsa)
      <4>1. /\ Len(Announces[o]) \in Nat
            /\ \A i \in 1 .. Len(Announces[o]) : Announces[o][i] \in Nets
        OBVIOUS
      <4>2. \A i \in 1 .. Len(Announces[o]) :
                [net |-> Announces[o][i], nbr |-> nbr[o][Announces[o][i]]] \in Lsa
        BY <4>1 DEF TypeOK, Lsa
      <4> QED
        BY <4>1, <4>2 DEF Announcement
    <3>3. sent' = sent \cup {[orig |-> o, seq |-> seqno[o] + 1, lsas |-> Announcement(o)]}
      BY <2>2, <3>1 DEF SendLsu
    <3>4. \A m \in sent' : m.orig \in Routers /\ m.seq \in Nat /\ m.lsas \in Seq(Lsa)
      BY <3>1, <3>2, <3>3 DEF TypeOK
    <3> QED
      BY <2>2, <3>1, <3>4 DEF SendLsu, TypeOK
  <2>3. CASE Restart(o)
    BY <2>3 DEF Restart, TypeOK
  <2> QED
    BY <2>1, <2>2, <2>3
<1>3. ThreadsInv'
  <2> SUFFICES ASSUME NEW t \in Tids
               PROVE  Carries(handler[t])' /\ HasLsa(handler[t])'
                        /\ Finds(handler[t])' /\ Ready(handler[t])'
    BY DEF ThreadsInv
  <2>1. Carries(handler[t]) /\ HasLsa(handler[t]) /\ Finds(handler[t]) /\ Ready(handler[t])
    BY DEF ThreadsInv
  <2>2. Carries(handler[t])'
    BY <1>1, <2>1, CarriesStays
  <2> QED
    BY <1>1, <2>1, <2>2 DEF HasLsa, Finds, Ready, Renewing
<1>4. Overlaps'
  BY <1>1 DEF Overlaps, Applying
<1>5. ASSUME NEW i \in Positions PROVE Half(db[i])' /\ Whole(i)'
  <2>1. Half(db[i]) /\ Whole(i)
    BY DEF EntriesInv
  <2>2. Half(db[i])' /\ (Announced(db[i]) => Announced(db[i])')
    BY <1>1, <2>1, AnnouncedStays
  <2> QED
    BY <1>1, <2>1, <2>2 DEF Whole
<1> QED
  BY <1>1, <1>2, <1>3, <1>4, <1>5 DEF EntriesInv

\* A thread goes on as h, having written e over the entry it renews, if any.
Written(t, h, e) ==
    /\ handler' = [handler EXCEPT ![t] = h] /\ db' = Write(t, e)
    /\ sent' = sent /\ nbr' = nbr /\ seqno' = seqno
    /\ stale' \in BOOLEAN /\ overlap \subseteq overlap' /\ overlap' \subseteq Routers

\* Only the entry of the thread is written, and stays its router's.
LEMMA WriteFacts ==
    ASSUME TypeOK, NEW t \in Tids, NEW e, db' = Write(t, e),
           handler[t].at # 0 => handler[t].at \in Positions /\ e \in Entry
    PROVE  /\ db' \in Seq(Entry) /\ Len(db') = Len(db) /\ Positions' = Positions
           /\ handler[t].at # 0 => db'[handler[t].at] = e
           /\ \A i \in Positions : i # handler[t].at => db'[i] = db[i]
<1>1. Len(db) \in Nat /\ Positions = 1 .. Len(db) /\ 0 \notin Positions
  BY TableFacts
<1> QED
  BY <1>1 DEF Write, Positions, TypeOK

\* Sufficient conditions for the step of a thread to keep the invariant.
LEMMA OneThread ==
    ASSUME IInv, NEW t \in Tids, NEW h \in Thread, NEW e, Written(t, h, e),
           Carries(h), HasLsa(h),
           handler[t].at # 0 =>
                /\ e \in Entry
                /\ e.router = db[handler[t].at].router /\ e.net = db[handler[t].at].net
                /\ Half(e)
                /\ \/ e.router \in overlap \/ Announced(e)
                   \/ h.phase = "neighbour" /\ h.at = handler[t].at,
           Finds(h), h.phase = "neighbour" /\ h.at # 0 => h.at = handler[t].at /\ e.seq = h.seq,
           Applying(h) /\ ~(Applying(handler[t]) /\ handler[t].orig = h.orig) =>
                \A u \in Tids \ {t} :
                    Applying(handler[u]) /\ handler[u].orig = h.orig => h.orig \in overlap'
    PROVE  IInv'
<1> USE DEF IInv
<1> DEFINE at == handler[t].at
<1>1. /\ handler' \in [Tids -> Thread] /\ handler'[t] = h
      /\ \A u \in Tids \ {t} : handler'[u] = handler[u]
      /\ sent' = sent /\ overlap \subseteq overlap'
  BY DEF Written, TypeOK
<1>2. \A u \in Tids : /\ Carries(handler[u]) /\ HasLsa(handler[u])
                      /\ Finds(handler[u]) /\ Ready(handler[u])
  BY DEF ThreadsInv
<1>3. /\ db' \in Seq(Entry) /\ Len(db') = Len(db) /\ Positions' = Positions
      /\ at # 0 => at \in Positions /\ db'[at] = e
      /\ \A i \in Positions : i # at => db'[i] = db[i]
  BY <1>2, WriteFacts DEF Written, Finds
<1>5. TypeOK'
  BY <1>1, <1>3 DEF TypeOK, Written
<1>6. Positions \subseteq Nat /\ 0 \notin Positions
  BY TableFacts
<1>13. at # 0 => e.router = db[at].router /\ e.net = db[at].net
  OBVIOUS
<1> HIDE DEF at
<1>4. \A i \in Positions : db'[i].router = db[i].router /\ db'[i].net = db[i].net
  <2> SUFFICES ASSUME NEW i \in Positions
               PROVE  db'[i].router = db[i].router /\ db'[i].net = db[i].net
    OBVIOUS
  <2>1. CASE i = at
    BY <1>3, <1>6, <1>13, <2>1
  <2>2. CASE i # at
    BY <1>3, <2>2
  <2> QED
    BY <2>1, <2>2
<1>7. ASSUME NEW u \in Tids \ {t}
      PROVE  /\ Carries(handler[u])' /\ HasLsa(handler[u])'
             /\ Finds(handler[u])' /\ Ready(handler[u])'
  <2>1. Carries(handler[u])'
    BY <1>1, <1>2, CarriesStays
  <2>2. HasLsa(handler[u])'
    BY <1>1, <1>2 DEF HasLsa, Renewing
  <2>3. Finds(handler[u])'
    <3> SUFFICES ASSUME handler[u].at # 0
                 PROVE  /\ Renewing(handler[u]) /\ handler[u].at \in Positions'
                        /\ db'[handler[u].at].router = handler[u].orig
                        /\ db'[handler[u].at].net = Head(handler[u].lsas).net
      BY <1>1 DEF Finds, Renewing
    <3>1. /\ Renewing(handler[u]) /\ handler[u].at \in Positions
          /\ db[handler[u].at].router = handler[u].orig
          /\ db[handler[u].at].net = Head(handler[u].lsas).net
      BY <1>2 DEF Finds
    <3> QED
      BY <1>3, <1>4, <3>1
  <2>4. Ready(handler[u])'
    <3> SUFFICES ASSUME handler[u].phase = "neighbour", handler[u].at # 0,
                        handler[u].orig \notin overlap
                 PROVE  db'[handler[u].at].seq = handler[u].seq
      BY <1>1 DEF Ready
    <3>1. handler[u].at \in Positions /\ db[handler[u].at].router = handler[u].orig
      BY <1>2 DEF Finds
    <3>2. CASE handler[u].at = at
      <4>1. Renewing(handler[t]) /\ handler[t].orig = handler[u].orig
        BY <1>2, <3>1, <3>2 DEF Finds, at
      <4>2. handler[u].orig \in overlap
        BY <4>1 DEF Overlaps, Applying, Renewing
      <4> QED
        BY <4>2
    <3>3. CASE handler[u].at # at
      BY <1>2, <1>3, <3>1, <3>3 DEF Ready
    <3> QED
      BY <3>2, <3>3
  <2> QED
    BY <2>1, <2>2, <2>3, <2>4
<1>8. Carries(handler[t])' /\ HasLsa(handler[t])' /\ Finds(handler[t])' /\ Ready(handler[t])'
  <2>1. Carries(handler[t])'
    BY <1>1, CarriesStays
  <2>2. HasLsa(handler[t])'
    BY <1>1 DEF HasLsa, Renewing
  <2>3. Finds(handler[t])'
    BY <1>1, <1>3, <1>4 DEF Finds, Renewing
  <2>4. Ready(handler[t])'
    BY <1>1, <1>3 DEF Ready, at
  <2> QED
    BY <2>1, <2>2, <2>3, <2>4
<1>9. ThreadsInv'
  BY <1>7, <1>8 DEF ThreadsInv
<1>10. Overlaps'
  <2> SUFFICES ASSUME NEW u \in Tids, NEW v \in Tids, u # v,
                      Applying(handler[u])', Applying(handler[v])',
                      handler'[u].orig = handler'[v].orig
               PROVE  handler'[u].orig \in overlap'
    BY DEF Overlaps
  <2>1. CASE u # t /\ v # t
    BY <1>1, <2>1 DEF Overlaps, Applying
  <2>2. ASSUME NEW w \in Tids \ {t}, Applying(h), Applying(handler[w]), h.orig = handler[w].orig
        PROVE  h.orig \in overlap'
    BY <1>1, <2>2 DEF Overlaps
  <2>3. CASE u = t
    <3>1. handler'[u] = h /\ handler'[v] = handler[v] /\ v \in Tids \ {t}
      BY <1>1, <2>3
    <3>2. Applying(h) /\ Applying(handler[v])
      BY <3>1 DEF Applying
    <3> QED
      BY <2>2, <3>1, <3>2
  <2>4. CASE v = t
    <3>1. handler'[v] = h /\ handler'[u] = handler[u] /\ u \in Tids \ {t}
      BY <1>1, <2>4
    <3>2. Applying(h) /\ Applying(handler[u])
      BY <3>1 DEF Applying
    <3> QED
      BY <2>2, <3>1, <3>2
  <2> QED
    BY <2>1, <2>3, <2>4
<1>11. ASSUME NEW i \in Positions PROVE Half(db[i])' /\ Whole(i)'
  <2>1. CASE i = at
    <3>1. db'[i] = e /\ at # 0
      BY <1>3, <1>6, <2>1
    <3>2. /\ Half(e)
          /\ \/ e.router \in overlap \/ Announced(e)
             \/ h.phase = "neighbour" /\ h.at = at
      BY <3>1 DEF at
    <3>3. Half(db[i])' /\ (Announced(e) => Announced(db[i])')
      BY <1>1, <3>1, <3>2, Zenon DEF Half, Announced, Numbered, Neighboured
    <3>4. CASE e.router \in overlap
      BY <1>1, <3>1, <3>3, <3>4 DEF Whole
    <3>5. CASE Announced(e)
      BY <3>3, <3>5 DEF Whole
    <3>6. CASE h.phase = "neighbour" /\ h.at = at
      BY <1>1, <2>1, <3>3, <3>6 DEF Whole
    <3> QED
      BY <3>2, <3>4, <3>5, <3>6
  <2>2. CASE i # at
    <3>1. db'[i] = db[i] /\ Half(db[i]) /\ Whole(i)
      BY <1>3, <2>2 DEF EntriesInv
    <3>2. Half(db[i])' /\ (Announced(db[i]) => Announced(db[i])')
      <4>1. PICK d : d = db[i]
        OBVIOUS
      <4>2. db'[i] = d /\ Half(d)
        BY <3>1, <4>1
      <4>3. Half(db[i])' /\ (Announced(d) => Announced(db[i])')
        BY <1>1, <4>2, Zenon DEF Half, Announced, Numbered, Neighboured
      <4> QED
        BY <4>1, <4>3
    <3>3. \A u \in Tids : handler[u].phase = "neighbour" /\ handler[u].at = i
                            => handler'[u].phase = "neighbour" /\ handler'[u].at = i
      BY <1>1, <2>2 DEF at
    <3>4. CASE db[i].router \in overlap
      BY <1>1, <3>1, <3>2, <3>4 DEF Whole
    <3>5. CASE Announced(db[i])
      BY <3>2, <3>5 DEF Whole
    <3>6. CASE \E u \in Tids : handler[u].phase = "neighbour" /\ handler[u].at = i
      BY <3>2, <3>3, <3>6 DEF Whole
    <3> QED
      BY <3>1, <3>4, <3>5, <3>6 DEF Whole
  <2> QED
    BY <2>1, <2>2
<1>12. EntriesInv'
  BY <1>3, <1>11 DEF EntriesInv
<1> QED
  BY <1>5, <1>9, <1>10, <1>12

\* A new thread carries the LSAs of an LSU that was sent; the checks keep or
\* drop them, the end drops them.
LEMMA ThreadStep ==
    ASSUME IInv, NEW t \in Tids,
           (\E m \in sent : Receive(t, m)) \/ CheckLsu(t) \/ Finish(t)
    PROVE  IInv'
<1> USE DEF IInv
<1>1. handler[t] \in Thread /\ handler[t].phase \in {"idle", "check", "apply"}
  BY DEF TypeOK, Receive, CheckLsu, Finish, Idle
<1>2. /\ Carries(handler[t]) /\ Finds(handler[t]) /\ overlap \subseteq Routers
      /\ stale \in BOOLEAN
  BY DEF ThreadsInv, TypeOK
<1>3. handler[t].at = 0
  BY <1>1, <1>2 DEF Finds, Renewing
<1>4. PICK h \in Thread :
        /\ handler' = [handler EXCEPT ![t] = h]
        /\ h.phase \in {"idle", "check", "apply"} /\ h.at = 0 /\ Carries(h)
        /\ h.phase = "apply" => /\ h.orig = handler[t].orig
                                /\ \A u \in Tids : Applying(handler[u])
                                    /\ handler[u].orig = h.orig => h.orig \in overlap'
        /\ overlap \subseteq overlap' /\ overlap' \subseteq Routers /\ stale' \in BOOLEAN
        /\ UNCHANGED <<db, nbr, seqno, sent>>
  <2>1. ASSUME NEW m \in sent, Receive(t, m)
        PROVE  \E h \in Thread :
                /\ handler' = [handler EXCEPT ![t] = h]
                /\ h.phase = "check" /\ h.at = 0 /\ Carries(h)
                /\ overlap' = overlap /\ stale' \in BOOLEAN
                /\ UNCHANGED <<db, nbr, seqno, sent>>
    <3> DEFINE h == [phase |-> "check", orig |-> m.orig, seq |-> m.seq, lsas |-> m.lsas, at |-> 0]
    <3>1. m.orig \in Routers /\ m.seq \in Nat /\ m.lsas \in Seq(Lsa)
      BY DEF TypeOK
    <3>2. h \in Thread
      BY <3>1 DEF Thread
    <3>3. Carries(h)
      BY <3>1 DEF Carries, Says
    <3>4. /\ handler' = [handler EXCEPT ![t] = h] /\ h.phase = "check" /\ h.at = 0
          /\ overlap' = overlap /\ stale' \in BOOLEAN /\ UNCHANGED <<db, nbr, seqno, sent>>
      BY <1>2, <2>1 DEF Receive
    <3> HIDE DEF h
    <3> QED
      BY <3>2, <3>3, <3>4
  <2>2. Idle \in Thread /\ Idle.phase = "idle" /\ Idle.at = 0 /\ Carries(Idle)
    BY DEF Idle, Thread, Carries
  <2>3. CASE Finish(t)
    BY <1>2, <2>2, <2>3 DEF Finish
  <2>4. CASE CheckLsu(t) /\ ~Accept(handler[t])
    BY <1>2, <2>2, <2>4 DEF CheckLsu
  <2>5. CASE CheckLsu(t) /\ Accept(handler[t])
    <3> DEFINE h == [handler[t] EXCEPT !.phase = "apply"]
    <3>1. /\ h \in Thread /\ h.phase = "apply" /\ h.orig = handler[t].orig
          /\ h.seq = handler[t].seq /\ h.lsas = handler[t].lsas /\ h.at = 0
      BY <1>1, <1>3 DEF Thread
    <3>2. handler[t].phase = "check" /\ handler[t].orig \in Routers
      BY <1>2, <2>5 DEF CheckLsu, Carries
    <3>3. Carries(h)
      BY <1>2, <3>1, <3>2 DEF Carries
    <3>4. /\ handler' = [handler EXCEPT ![t] = h]
          /\ overlap' = overlap \cup
                {o \in {handler[t].orig} : \E u \in Tids :
                    Applying(handler[u]) /\ handler[u].orig = o}
          /\ UNCHANGED <<db, nbr, seqno, sent, stale>>
      BY <2>5 DEF CheckLsu
    <3>5. \A u \in Tids : Applying(handler[u]) /\ handler[u].orig = h.orig => h.orig \in overlap'
      BY <3>1, <3>4
    <3>6. overlap \subseteq overlap' /\ overlap' \subseteq Routers
      BY <1>2, <3>2, <3>4
    <3> HIDE DEF h
    <3> QED
      BY <1>2, <3>1, <3>3, <3>4, <3>5, <3>6
  <2>6. CASE \E m \in sent : Receive(t, m)
    <3>1. PICK m \in sent : Receive(t, m)
      BY <2>6
    <3>2. PICK h \in Thread :
            /\ handler' = [handler EXCEPT ![t] = h]
            /\ h.phase = "check" /\ h.at = 0 /\ Carries(h)
            /\ overlap' = overlap /\ stale' \in BOOLEAN
            /\ UNCHANGED <<db, nbr, seqno, sent>>
      BY <2>1, <3>1
    <3> QED
      BY <1>2, <3>2
  <2> QED
    BY <2>3, <2>4, <2>5, <2>6
<1>6. Written(t, h, None)
  BY <1>2, <1>3, <1>4 DEF Written, Write
<1>7. HasLsa(h) /\ Finds(h) /\ ~Renewing(h)
  BY <1>4 DEF HasLsa, Finds, Renewing
<1>8. Applying(h) => h.phase = "apply"
  BY <1>4 DEF Applying
<1> QED
  BY <1>3, <1>4, <1>6, <1>7, <1>8, OneThread
\* The walk changes nothing but what the thread is about to do.
LEMMA ScanStep ==
    ASSUME IInv, NEW t \in Tids, Scan(t)
    PROVE  IInv'
<1> USE DEF IInv
<1> DEFINE g == handler[t]
<1>1. /\ g \in Thread /\ g.phase = "apply" /\ g.lsas # <<>> /\ Carries(g) /\ Finds(g)
      /\ overlap \subseteq Routers /\ stale \in BOOLEAN
      /\ UNCHANGED <<db, nbr, seqno, sent, stale, overlap>>
  BY DEF TypeOK, ThreadsInv, Scan
<1>2. g.at = 0
  BY <1>1 DEF Finds, Renewing
<1>3. PICK h \in Thread :
        /\ handler' = [handler EXCEPT ![t] = h]
        /\ h.orig = g.orig /\ h.seq = g.seq
        /\ \/ h.phase = "apply" /\ h.lsas = Tail(g.lsas) /\ h.at = 0
           \/ h.phase = "add" /\ h.lsas = g.lsas /\ h.at = 0
           \/ /\ h.phase = "age" /\ h.lsas = g.lsas /\ h.at \in Positions
              /\ db[h.at].router = h.orig /\ db[h.at].net = Head(h.lsas).net
  <2>1. ASSUME NEW i \in Positions, StopsFirst(i, g.orig, Head(g.lsas)), db[i].router = g.orig,
               handler' = [handler EXCEPT ![t] = [g EXCEPT !.phase = "age", !.at = i]]
        PROVE  \E h \in Thread :
                /\ handler' = [handler EXCEPT ![t] = h]
                /\ h.orig = g.orig /\ h.seq = g.seq
                /\ h.phase = "age" /\ h.lsas = g.lsas /\ h.at \in Positions
                /\ db[h.at].router = h.orig /\ db[h.at].net = Head(h.lsas).net
    <3> DEFINE h == [g EXCEPT !.phase = "age", !.at = i]
    <3>1. i \in Nat /\ db[i].net = Head(g.lsas).net
      BY <2>1, TableFacts DEF StopsFirst, Stops
    <3>2. /\ h \in Thread /\ h.orig = g.orig /\ h.seq = g.seq /\ h.phase = "age"
          /\ h.lsas = g.lsas /\ h.at = i
      BY <1>1, <3>1 DEF Thread
    <3> HIDE DEF h, g
    <3> QED
      BY <2>1, <3>1, <3>2 DEF h
  <2>2. CASE handler' = [handler EXCEPT ![t] = [g EXCEPT !.lsas = Tail(g.lsas)]]
    <3> DEFINE h == [g EXCEPT !.lsas = Tail(g.lsas)]
    <3>1. Tail(g.lsas) \in Seq(Lsa)
      BY <1>1, HeadFacts
    <3>2. /\ h \in Thread /\ h.orig = g.orig /\ h.seq = g.seq /\ h.phase = "apply"
          /\ h.lsas = Tail(g.lsas) /\ h.at = 0
      BY <1>1, <1>2, <3>1 DEF Thread
    <3> HIDE DEF h, g
    <3> QED
      BY <2>2, <3>2 DEF h
  <2>3. CASE handler' = [handler EXCEPT ![t] = [g EXCEPT !.phase = "add"]]
    <3> DEFINE h == [g EXCEPT !.phase = "add"]
    <3>2. /\ h \in Thread /\ h.orig = g.orig /\ h.seq = g.seq /\ h.phase = "add"
          /\ h.lsas = g.lsas /\ h.at = 0
      BY <1>1, <1>2 DEF Thread
    <3> HIDE DEF h, g
    <3> QED
      BY <2>3, <3>2 DEF h
  <2>4. \/ \E i \in Positions :
                /\ StopsFirst(i, g.orig, Head(g.lsas)) /\ db[i].router = g.orig
                /\ handler' = [handler EXCEPT ![t] = [g EXCEPT !.phase = "age", !.at = i]]
        \/ handler' = [handler EXCEPT ![t] = [g EXCEPT !.lsas = Tail(g.lsas)]]
        \/ handler' = [handler EXCEPT ![t] = [g EXCEPT !.phase = "add"]]
    BY DEF Scan
  <2> HIDE DEF g
  <2> QED
    BY <2>1, <2>2, <2>3, <2>4
<1>4. Written(t, h, None)
  BY <1>1, <1>2, <1>3 DEF Written, Write
<1>5. Carries(h) /\ HasLsa(h) /\ Finds(h)
  <2>1. Carries(h)
    BY <1>1, <1>3, CarriesRest
  <2>2. HasLsa(h) /\ Finds(h)
    BY <1>1, <1>3 DEF HasLsa, Finds, Renewing
  <2> QED
    BY <2>1, <2>2
<1>6. h.phase # "neighbour" /\ Applying(g)
  BY <1>1, <1>3 DEF Applying
<1> QED
  BY <1>2, <1>3, <1>4, <1>5, <1>6, OneThread

\* The entry that is renewed, and the thread after the assignment.
LEMMA WriteStep ==
    ASSUME IInv, NEW t \in Tids, WriteAge(t) \/ WriteNumber(t) \/ WriteNeighbour(t)
    PROVE  IInv'
<1> USE DEF IInv
<1> DEFINE g == handler[t]
           d == db[g.at]
           lsa == Head(g.lsas)
<1>1. /\ g \in Thread /\ Renewing(g) /\ g.lsas # <<>> /\ g.phase # "idle" /\ Applying(g)
      /\ Carries(g) /\ Finds(g) /\ Ready(g)
  BY DEF TypeOK, ThreadsInv, WriteAge, WriteNumber, WriteNeighbour, Renewing, Applying, HasLsa
<1>2. /\ stale' \in BOOLEAN /\ UNCHANGED <<nbr, seqno, sent, overlap>> /\ overlap \subseteq Routers
  BY DEF TypeOK, WriteAge, WriteNumber, WriteNeighbour
<1>3. g.at # 0 => /\ g.at \in Positions /\ d \in Entry /\ d.router = g.orig /\ d.net = lsa.net
                  /\ Half(d) /\ Whole(g.at)
  BY <1>1, TableFacts DEF Finds, EntriesInv
<1>4. lsa \in Lsa /\ Tail(g.lsas) \in Seq(Lsa)
  BY <1>1, HeadFacts
<1>5. CASE WriteAge(t)
  <2> DEFINE h == [g EXCEPT !.phase = "number"]
             e == [d EXCEPT !.age = 0]
  <2>1. g.phase = "age" /\ handler' = [handler EXCEPT ![t] = h] /\ db' = Write(t, e)
    BY <1>5 DEF WriteAge
  <2>2. /\ h \in Thread /\ h.phase = "number" /\ h.orig = g.orig /\ h.seq = g.seq
        /\ h.lsas = g.lsas /\ h.at = g.at
    BY <1>1 DEF Thread
  <2>3. Written(t, h, e) /\ Carries(h) /\ HasLsa(h) /\ Finds(h)
    BY <1>1, <1>2, <2>1, <2>2 DEF Written, Carries, HasLsa, Finds, Renewing
  <2>4. ASSUME g.at # 0
        PROVE  /\ e \in Entry /\ e.router = d.router /\ e.net = d.net /\ Half(e)
               /\ e.router \in overlap \/ Announced(e)
    <3>1. d \in Entry /\ Half(d) /\ Whole(g.at) /\ d.router = g.orig
      BY <1>3, <2>4
    <3>2. /\ e \in Entry /\ e.router = d.router /\ e.net = d.net
          /\ e.nbr = d.nbr /\ e.seq = d.seq
      <4>1. 0 \in 0 .. Timeout
        OBVIOUS
      <4> HIDE DEF d
      <4>2. d \in [router : Routers, net : Nets, nbr : Routers \cup {None},
                   seq : Nat, age : 0 .. Timeout]
        BY <3>1 DEF Entry
      <4>3. e \in [router : Routers, net : Nets, nbr : Routers \cup {None},
                   seq : Nat, age : 0 .. Timeout]
        BY <4>1, <4>2
      <4> QED
        BY <4>2, <4>3 DEF Entry
    <3>3. \A m : (Numbered(m, d) => Numbered(m, e)) /\ (Neighboured(m, d) => Neighboured(m, e))
      <4> HIDE DEF d, e
      <4> QED
        BY <3>2 DEF Numbered, Neighboured
    <3>4. Half(e) /\ (Announced(d) => Announced(e))
      <4> HIDE DEF d, e
      <4> QED
        BY <3>1, <3>3 DEF Half, Announced
    <3>5. d.router \in overlap \/ Announced(d)
      <4> SUFFICES ASSUME NEW u \in Tids, handler[u].phase = "neighbour", handler[u].at = g.at
                   PROVE  d.router \in overlap
        BY <3>1 DEF Whole
      <4>1. handler[u].orig = d.router /\ u # t /\ Applying(handler[u])
        BY <2>1, <2>4 DEF ThreadsInv, Finds, Applying
      <4>2. handler[u].orig = g.orig
        BY <3>1, <4>1
      <4> HIDE DEF d
      <4> QED
        BY <1>1, <4>1, <4>2 DEF Overlaps
    <3> HIDE DEF d, e
    <3> QED
      BY <3>2, <3>4, <3>5
  <2> HIDE DEF h, e
  <2> QED
    BY <1>1, <2>2, <2>3, <2>4, OneThread
<1>6. CASE WriteNumber(t)
  <2> DEFINE h == [g EXCEPT !.phase = "neighbour"]
             e == [d EXCEPT !.seq = g.seq]
  <2>1. g.phase = "number" /\ handler' = [handler EXCEPT ![t] = h] /\ db' = Write(t, e)
    BY <1>6 DEF WriteNumber
  <2>2. /\ h \in Thread /\ h.phase = "neighbour" /\ h.orig = g.orig /\ h.seq = g.seq
        /\ h.lsas = g.lsas /\ h.at = g.at /\ g.seq \in Nat
    BY <1>1 DEF Thread
  <2>3. Written(t, h, e) /\ Carries(h) /\ HasLsa(h) /\ Finds(h)
    BY <1>1, <1>2, <2>1, <2>2 DEF Written, Carries, HasLsa, Finds, Renewing
  <2>4. ASSUME g.at # 0
        PROVE  e \in Entry /\ e.router = d.router /\ e.net = d.net /\ Half(e) /\ e.seq = h.seq
    <3>1. d \in Entry /\ Half(d) /\ d.router = g.orig /\ d.net = lsa.net
      BY <1>3, <2>4
    <3>2. /\ e \in Entry /\ e.router = d.router /\ e.net = d.net
          /\ e.nbr = d.nbr /\ e.seq = g.seq
      <4> HIDE DEF d
      <4> QED
        BY <2>2, <3>1 DEF Entry
    <3>3. \E m \in sent : Numbered(m, e)
      <4> HIDE DEF d, e, g
      <4> QED
        BY <1>1, <3>1, <3>2, SaidLsa
    <3>4. \E m \in sent : Neighboured(m, e)
      <4> HIDE DEF d, e
      <4> QED
        BY <3>1, <3>2 DEF Half, Neighboured
    <3> HIDE DEF d, e
    <3> QED
      BY <2>2, <3>2, <3>3, <3>4 DEF Half
  <2> HIDE DEF h, e
  <2> QED
    BY <1>1, <2>2, <2>3, <2>4, OneThread
<1>7. CASE WriteNeighbour(t)
  <2> DEFINE h == [g EXCEPT !.phase = "apply", !.lsas = Tail(g.lsas), !.at = 0]
             e == [d EXCEPT !.nbr = lsa.nbr]
  <2>1. g.phase = "neighbour" /\ handler' = [handler EXCEPT ![t] = h] /\ db' = Write(t, e)
    BY <1>7 DEF WriteNeighbour
  <2>2. /\ h \in Thread /\ h.phase = "apply" /\ h.orig = g.orig /\ h.seq = g.seq
        /\ h.lsas = Tail(g.lsas) /\ h.at = 0
    BY <1>1, <1>4 DEF Thread
  <2>3. Written(t, h, e) /\ HasLsa(h) /\ Finds(h)
    BY <1>1, <1>2, <2>1, <2>2 DEF Written, HasLsa, Finds, Renewing
  <2>4. Carries(h)
    <3> HIDE DEF h
    <3> QED
      BY <1>1, <2>2, CarriesRest
  <2>5. ASSUME g.at # 0
        PROVE  /\ e \in Entry /\ e.router = d.router /\ e.net = d.net /\ Half(e)
               /\ e.router \in overlap \/ Announced(e)
    <3>1. d \in Entry /\ Half(d) /\ d.router = g.orig /\ d.net = lsa.net
      BY <1>3, <2>5
    <3>2. /\ e \in Entry /\ e.router = d.router /\ e.net = d.net
          /\ e.nbr = lsa.nbr /\ e.seq = d.seq
      <4> HIDE DEF d
      <4> QED
        BY <1>4, <3>1 DEF Entry, Lsa
    <3>3. /\ \E m \in sent : Neighboured(m, e)
          /\ e.seq = g.seq => Announced(e)
      <4> HIDE DEF d, e, g
      <4> QED
        BY <1>1, <3>1, <3>2, SaidLsa DEF lsa
    <3>4. \E m \in sent : Numbered(m, e)
      <4> HIDE DEF d, e
      <4> QED
        BY <3>1, <3>2 DEF Half, Numbered
    <3>5. e.router \in overlap \/ e.seq = g.seq
      BY <1>1, <2>1, <2>5, <3>1, <3>2 DEF Ready
    <3> HIDE DEF d, e
    <3> QED
      BY <3>2, <3>3, <3>4, <3>5 DEF Half
  <2> HIDE DEF h, e
  <2> QED
    BY <1>1, <2>2, <2>3, <2>4, <2>5, OneThread
<1> QED
  BY <1>5, <1>6, <1>7
\* d and e differ in their age at most.
Same(d, e) == e.router = d.router /\ e.net = d.net /\ e.nbr = d.nbr /\ e.seq = d.seq

\* A thread that goes on, or has added its entry; the entry it renews is gone
\* or has moved.
Goes(h, g) ==
    /\ g \in Thread /\ g.orig = h.orig /\ g.seq = h.seq
    /\ \/ g.phase = h.phase /\ g.lsas = h.lsas
       \/ h.phase = "add" /\ g.phase = "apply" /\ g.lsas = Tail(h.lsas)
    /\ \/ g.at = 0
       \/ h.at # 0 /\ g.phase = h.phase /\ g.at \in Positions' /\ Same(db[h.at], db'[g.at])

\* Sufficient conditions for a change of the list to keep the invariant: every
\* entry was there, with the threads that renew it, or was announced.
LEMMA ListStep ==
    ASSUME IInv, db' \in Seq(Entry), handler' \in [Tids -> Thread],
           \A u \in Tids : Goes(handler[u], handler'[u]),
           \A i \in Positions' :
                \/ Announced(db[i])'
                \/ \E j \in Positions : /\ Same(db[j], db'[i])
                                        /\ \A u \in Tids : handler[u].at = j => handler'[u].at = i
                                            /\ handler'[u].phase = handler[u].phase,
           sent' = sent, nbr' = nbr, seqno' = seqno, overlap' = overlap, stale' \in BOOLEAN
    PROVE  IInv'
<1> USE DEF IInv
<1>1. TypeOK'
  BY DEF TypeOK
<1>2. ASSUME NEW u \in Tids
      PROVE  Carries(handler[u])' /\ HasLsa(handler[u])' /\ Finds(handler[u])' /\ Ready(handler[u])'
  <2>1. PICK h \in Thread : h = handler[u]
    BY DEF TypeOK
  <2>2. PICK g \in Thread : g = handler'[u]
    BY DEF TypeOK
  <2>3. Carries(h) /\ HasLsa(h) /\ Finds(h) /\ Ready(h) /\ Goes(h, g)
    BY <2>1, <2>2 DEF ThreadsInv
  <2>4. g.phase = "add" \/ Renewing(g) => g.phase = h.phase /\ g.lsas = h.lsas
    BY <2>3 DEF Goes, Renewing
  <2>5. Carries(handler[u])'
    <3>1. CASE g.lsas = h.lsas
      BY <2>2, <2>3, <3>1, CarriesStays DEF Goes
    <3>2. CASE g.lsas # h.lsas
      <4>1. h.phase = "add" /\ h.lsas # <<>> /\ g.lsas = Tail(h.lsas)
        BY <2>3, <3>2 DEF Goes, HasLsa
      <4> QED
        BY <2>2, <2>3, <4>1, CarriesStays DEF Goes
    <3> QED
      BY <3>1, <3>2
  <2>6. HasLsa(handler[u])'
    BY <2>2, <2>3, <2>4 DEF HasLsa, Renewing
  <2>7. g.at # 0 => /\ h.at # 0 /\ g.phase = h.phase /\ g.lsas = h.lsas /\ Renewing(h)
                    /\ g.at \in Positions' /\ Same(db[h.at], db'[g.at])
                    /\ db[h.at].router = h.orig /\ db[h.at].net = Head(h.lsas).net
                    /\ g.orig = h.orig /\ g.seq = h.seq
    BY <2>3 DEF Goes, Finds, Renewing
  <2>8. Finds(handler[u])'
    BY <2>2, <2>7 DEF Finds, Renewing, Same
  <2>9. Ready(handler[u])'
    BY <2>2, <2>3, <2>7 DEF Ready, Same
  <2> QED
    BY <2>5, <2>6, <2>8, <2>9
<1>3. ThreadsInv'
  BY <1>2 DEF ThreadsInv
<1>4. Overlaps'
  <2>1. \A u \in Tids : /\ handler'[u].orig = handler[u].orig
                        /\ Applying(handler'[u]) => Applying(handler[u])
    BY DEF Goes, Applying
  <2>2. \A u \in Tids : Applying(handler[u])' => Applying(handler'[u])
    BY DEF Applying
  <2> QED
    BY <2>1, <2>2 DEF Overlaps
<1>5. ASSUME NEW i \in Positions' PROVE Half(db[i])' /\ Whole(i)'
  <2>1. CASE Announced(db[i])'
    BY <2>1 DEF Announced, Half, Whole
  <2>2. CASE \E j \in Positions : /\ Same(db[j], db'[i])
                                  /\ \A u \in Tids : handler[u].at = j => handler'[u].at = i
                                      /\ handler'[u].phase = handler[u].phase
    <3>1. PICK j \in Positions : /\ Same(db[j], db'[i])
                                 /\ \A u \in Tids : handler[u].at = j => handler'[u].at = i
                                      /\ handler'[u].phase = handler[u].phase
      BY <2>2
    <3>2. Half(db[j]) /\ Whole(j)
      BY DEF EntriesInv
    <3>3. PICK d : d = db[j]
      OBVIOUS
    <3>4. PICK e : e = db'[i]
      OBVIOUS
    <3>5. \A m : (Numbered(m, d) => Numbered(m, e)) /\ (Neighboured(m, d) => Neighboured(m, e))
      BY <3>1, <3>3, <3>4 DEF Same, Numbered, Neighboured
    <3>6. Half(e) /\ (Announced(d) => Announced(e))
      BY <3>2, <3>3, <3>5 DEF Half, Announced
    <3>7. Half(db[i])' /\ (Announced(e) => Announced(db[i])')
      BY <3>4, <3>6, Zenon DEF Half, Announced, Numbered, Neighboured
    <3>8. CASE db[j].router \in overlap
      BY <3>1, <3>7, <3>8 DEF Whole, Same
    <3>9. CASE Announced(d)
      BY <3>6, <3>7, <3>9 DEF Whole
    <3>10. CASE \E u \in Tids : handler[u].phase = "neighbour" /\ handler[u].at = j
      BY <3>1, <3>7, <3>10 DEF Whole
    <3> QED
      BY <3>2, <3>3, <3>8, <3>9, <3>10 DEF Whole
  <2> QED
    BY <2>1, <2>2
<1> QED
  BY <1>1, <1>3, <1>4, <1>5 DEF EntriesInv

LEMMA AddStep ==
    ASSUME IInv, NEW t \in Tids, Add(t)
    PROVE  IInv'
<1> USE DEF IInv
<1> DEFINE g == handler[t]
           new == NewEntry(g.orig, Head(g.lsas), g.seq)
<1>1. /\ g \in Thread /\ g.phase = "add" /\ g.lsas # <<>> /\ g.orig \in Routers
      /\ Carries(g) /\ g.at = 0 /\ g.seq \in Nat
  BY DEF TypeOK, ThreadsInv, Add, Carries, HasLsa, Finds, Renewing, Thread
<1>2. Head(g.lsas) \in Lsa /\ Tail(g.lsas) \in Seq(Lsa)
  BY <1>1, HeadFacts
<1>3. new \in Entry /\ Announced(new)
  <2>1. /\ new \in Entry /\ new.router = g.orig /\ new.net = Head(g.lsas).net
        /\ new.nbr = Head(g.lsas).nbr /\ new.seq = g.seq
    BY <1>1, <1>2, NewEntryType
  <2> HIDE DEF new
  <2> QED
    BY <1>1, <2>1, SaidLsa
<1>4. /\ db' = <<new>> \o db
      /\ handler' = [u \in Tids |->
            IF u = t THEN [g EXCEPT !.phase = "apply", !.lsas = Tail(g.lsas)]
            ELSE IF handler[u].at = 0 THEN handler[u]
            ELSE [handler[u] EXCEPT !.at = @ + 1]]
      /\ stale' \in BOOLEAN /\ UNCHANGED <<nbr, seqno, sent, overlap>>
  BY DEF Add
<1> HIDE DEF new
<1>5. /\ Len(db) \in Nat /\ Positions = 1 .. Len(db) /\ db \in Seq(Entry)
  BY TableFacts DEF TypeOK
<1>6. /\ db' \in Seq(Entry) /\ Len(db') = Len(db) + 1 /\ db'[1] = new
      /\ \A i \in 1 .. Len(db) : db'[i + 1] = db[i]
      /\ Positions' = 1 .. Len(db) + 1
  BY <1>3, <1>4, <1>5 DEF Positions
<1>7. /\ handler'[t] \in Thread /\ handler'[t].orig = g.orig /\ handler'[t].seq = g.seq
      /\ handler'[t].phase = "apply" /\ handler'[t].lsas = Tail(g.lsas) /\ handler'[t].at = 0
  <2>1. handler'[t] = [g EXCEPT !.phase = "apply", !.lsas = Tail(g.lsas)]
    BY <1>4
  <2> HIDE DEF g
  <2> QED
    BY <1>1, <1>2, <2>1 DEF Thread
<1>8. ASSUME NEW u \in Tids \ {t}
      PROVE  /\ handler'[u] \in Thread /\ handler[u] \in Thread
             /\ handler'[u].orig = handler[u].orig /\ handler'[u].seq = handler[u].seq
             /\ handler'[u].phase = handler[u].phase /\ handler'[u].lsas = handler[u].lsas
             /\ handler'[u].at = IF handler[u].at = 0 THEN 0 ELSE handler[u].at + 1
  <2>1. handler[u] \in Thread
    BY DEF TypeOK
  <2>2. CASE handler[u].at = 0
    BY <1>4, <2>1, <2>2
  <2>3. CASE handler[u].at # 0
    <3>1. handler'[u] = [handler[u] EXCEPT !.at = @ + 1]
      BY <1>4, <2>3
    <3>2. handler[u].at \in Nat /\ handler[u].at + 1 \in Nat
      BY <2>1 DEF Thread
    <3> QED
      BY <2>1, <2>3, <3>1, <3>2 DEF Thread
  <2> QED
    BY <2>2, <2>3
<1>9. handler' \in [Tids -> Thread]
  <2>1. \A u \in Tids : handler'[u] \in Thread
    BY <1>7, <1>8
  <2> QED
    BY <1>4, <2>1
<1>10. ASSUME NEW u \in Tids PROVE Goes(handler[u], handler'[u])
  <2>1. CASE u = t
    BY <1>1, <1>7, <2>1 DEF Goes
  <2>2. CASE u # t
    <3>1. handler[u].at # 0 => handler[u].at \in 1 .. Len(db)
      BY <1>5 DEF ThreadsInv, Finds
    <3>2. handler[u].at # 0 => /\ handler'[u].at \in Positions'
                               /\ db'[handler'[u].at] = db[handler[u].at]
      <4> SUFFICES ASSUME handler[u].at # 0
                   PROVE  /\ handler'[u].at \in Positions'
                          /\ db'[handler'[u].at] = db[handler[u].at]
        OBVIOUS
      <4>1. PICK k \in 1 .. Len(db) : k = handler[u].at
        BY <3>1
      <4>2. handler'[u].at = k + 1 /\ k + 1 \in 1 .. Len(db) + 1
        BY <1>5, <1>8, <2>2, <4>1
      <4> QED
        BY <1>6, <4>1, <4>2
    <3> QED
      BY <1>8, <2>2, <3>2 DEF Goes, Same
  <2> QED
    BY <2>1, <2>2
<1>11. ASSUME NEW i \in Positions'
       PROVE  \/ Announced(db[i])'
              \/ \E j \in Positions : /\ Same(db[j], db'[i])
                                      /\ \A u \in Tids : handler[u].at = j => handler'[u].at = i
                                            /\ handler'[u].phase = handler[u].phase
  <2>1. CASE i = 1
    <3>1. PICK e : e = new
      OBVIOUS
    <3>2. db'[i] = e /\ Announced(e) /\ sent' = sent
      BY <1>3, <1>4, <1>6, <2>1, <3>1
    <3> QED
      BY <3>2, Zenon DEF Announced, Numbered, Neighboured
  <2>2. CASE i # 1
    <3>1. i - 1 \in Positions /\ db'[i] = db[i - 1] /\ i - 1 # 0 /\ (i - 1) + 1 = i
      <4>1. i - 1 \in 1 .. Len(db) /\ (i - 1) + 1 = i /\ i - 1 # 0
        BY <1>5, <1>6, <2>2
      <4> QED
        BY <1>5, <1>6, <4>1
    <3>2. ASSUME NEW u \in Tids, handler[u].at = i - 1
          PROVE  handler'[u].at = i /\ handler'[u].phase = handler[u].phase
      <4>1. u # t
        BY <1>1, <3>1, <3>2
      <4>2. handler'[u].at = (i - 1) + 1
        BY <1>8, <3>1, <3>2, <4>1
      <4> QED
        BY <1>8, <3>1, <4>1, <4>2
    <3> QED
      BY <3>1, <3>2 DEF Same
  <2> QED
    BY <2>1, <2>2
<1> HIDE DEF g
<1> QED
  BY <1>4, <1>6, <1>9, <1>10, <1>11, ListStep
LEMMA AgeStep ==
    ASSUME IInv, CheckAge
    PROVE  IInv'
<1> USE DEF IInv
<1> DEFINE S == {i \in Positions : ~Expired(i)}
           f == Listing(S)
<1>1. /\ db' = [k \in DOMAIN f |-> Older(f[k])]
      /\ handler' = [t \in Tids |-> [handler[t] EXCEPT !.at = Moved(S, @)]]
      /\ stale' \in BOOLEAN /\ UNCHANGED <<nbr, seqno, sent, overlap>>
  BY DEF CheckAge, Age
<1>2. Len(db) \in Nat /\ Positions = 1 .. Len(db)
  BY TableFacts
<1>3. /\ S \in SUBSET (1 .. Len(db))
      /\ \A i \in S : db[i] \in Entry /\ ~Expired(i) /\ i \in Positions
  BY <1>2, TableFacts
<1>4. ASSUME NEW i \in S
      PROVE  Older(i) \in Entry /\ Same(db[i], Older(i))
  <2>1. CASE Visited[i]
    <3>1. db[i].age \in 0 .. Timeout /\ db[i].age # Timeout
      BY <1>3, <2>1 DEF Expired, Entry
    <3>2. db[i].age + 1 \in 0 .. Timeout
      BY <3>1
    <3> QED
      BY <1>3, <2>1, <3>2 DEF Older, Entry, Same
  <2>2. CASE ~Visited[i]
    BY <1>3, <2>2 DEF Older, Same
  <2> QED
    BY <2>1, <2>2
<1> HIDE DEF S
<1>5. /\ Cardinality(S) \in Nat /\ DOMAIN f = 1 .. Cardinality(S)
      /\ \A k \in DOMAIN f : f[k] \in S /\ Rank(S, f[k]) = k
      /\ \A i \in S : Rank(S, i) \in DOMAIN f /\ f[Rank(S, i)] = i
  BY <1>2, <1>3, ListingProperties
<1> HIDE DEF f
<1>6. /\ db' \in Seq(Entry) /\ Len(db') = Cardinality(S)
      /\ \A k \in 1 .. Cardinality(S) : db'[k] = Older(f[k])
  <2>1. \A k \in 1 .. Cardinality(S) : Older(f[k]) \in Entry
    BY <1>4, <1>5
  <2>2. db' = [k \in 1 .. Cardinality(S) |-> Older(f[k])]
    BY <1>1, <1>5
  <2>3. db' \in [1 .. Cardinality(S) -> Entry]
    BY <2>1, <2>2
  <2>4. \A k \in 1 .. Cardinality(S) : db'[k] = Older(f[k])
    BY <2>2
  <2>5. PICK c \in Nat : c = Cardinality(S)
    BY <1>5
  <2>6. db' \in [1 .. c -> Entry]
    BY <2>3, <2>5
  <2>7. db' \in Seq(Entry) /\ Len(db') = c
    <3> HIDE DEF f
    <3> QED
      BY ONLY <2>6, c \in Nat
  <2> QED
    BY <2>4, <2>5, <2>7
<1>7. Positions' = 1 .. Cardinality(S)
  BY <1>5, <1>6 DEF Positions
<1>8. ASSUME NEW u \in Tids
      PROVE  /\ handler[u] \in Thread /\ handler'[u] \in Thread
             /\ handler'[u].orig = handler[u].orig /\ handler'[u].seq = handler[u].seq
             /\ handler'[u].phase = handler[u].phase /\ handler'[u].lsas = handler[u].lsas
             /\ handler'[u].at = Moved(S, handler[u].at)
  <2>1. handler[u] \in Thread
    BY DEF TypeOK
  <2>2. handler'[u] = [handler[u] EXCEPT !.at = Moved(S, @)]
    BY <1>1
  <2>3. Moved(S, handler[u].at) \in Nat
    BY <1>5 DEF Moved
  <2> QED
    BY <2>1, <2>2, <2>3 DEF Thread
<1>9. handler' \in [Tids -> Thread]
  BY <1>1, <1>8
<1>10. ASSUME NEW u \in Tids PROVE Goes(handler[u], handler'[u])
  <2>1. CASE handler[u].at \in S
    <3>1. /\ handler'[u].at \in Positions' /\ f[handler'[u].at] = handler[u].at
          /\ handler[u].at # 0
      <4>1. handler'[u].at = Rank(S, handler[u].at)
        BY <1>8, <2>1 DEF Moved
      <4>2. /\ Rank(S, handler[u].at) \in DOMAIN f
            /\ f[Rank(S, handler[u].at)] = handler[u].at
        BY <1>5, <2>1
      <4> QED
        BY <1>3, <1>5, <1>7, <2>1, <4>1, <4>2
    <3>2. Same(db[handler[u].at], db'[handler'[u].at])
      BY <1>4, <1>6, <1>7, <2>1, <3>1
    <3> QED
      BY <1>8, <3>1, <3>2 DEF Goes
  <2>2. CASE handler[u].at \notin S
    BY <1>8, <2>2 DEF Goes, Moved
  <2> QED
    BY <2>1, <2>2
<1>11. ASSUME NEW i \in Positions'
       PROVE  \E j \in Positions : /\ Same(db[j], db'[i])
                                   /\ \A u \in Tids : handler[u].at = j => handler'[u].at = i
                                        /\ handler'[u].phase = handler[u].phase
  <2>1. f[i] \in S /\ f[i] \in Positions /\ Rank(S, f[i]) = i /\ Same(db[f[i]], db'[i])
    <3>1. i \in DOMAIN f /\ i \in 1 .. Cardinality(S)
      BY <1>5, <1>7
    <3>2. f[i] \in S /\ Rank(S, f[i]) = i /\ db'[i] = Older(f[i])
      BY <1>5, <1>6, <3>1
    <3> QED
      BY <1>3, <1>4, <3>2
  <2>2. \A u \in Tids : handler[u].at = f[i] => handler'[u].at = i
                            /\ handler'[u].phase = handler[u].phase
    BY <1>8, <2>1 DEF Moved
  <2> QED
    BY <2>1, <2>2
<1> QED
  BY <1>1, <1>6, <1>9, <1>10, <1>11, ListStep

LEMMA NextStep == IInv /\ [Next]_vars => IInv'
<1> SUFFICES ASSUME IInv, [Next]_vars PROVE IInv'
  OBVIOUS
<1>1. ASSUME NEW t \in Tids, Step(t)
      PROVE  IInv'
  BY <1>1, ThreadStep, ScanStep, AddStep, WriteStep DEF Step, Refresh
<1>2. CASE UNCHANGED vars
  <2>1. /\ db' = db /\ handler' = handler /\ nbr' = nbr /\ seqno' = seqno
        /\ sent' = sent /\ stale' = stale /\ overlap' = overlap /\ Positions' = Positions
    BY <1>2 DEF vars, Positions
  <2>2. ASSUME NEW u \in Tids PROVE Goes(handler[u], handler'[u])
    <3>1. handler[u] \in Thread /\ Finds(handler[u])
      BY DEF IInv, TypeOK, ThreadsInv
    <3> QED
      BY <2>1, <3>1 DEF Goes, Finds, Same
  <2>3. \A i \in Positions' : \E j \in Positions :
            /\ Same(db[j], db'[i])
            /\ \A u \in Tids : handler[u].at = j => handler'[u].at = i
                                /\ handler'[u].phase = handler[u].phase
    BY <2>1 DEF Same
  <2>4. db' \in Seq(Entry) /\ handler' \in [Tids -> Thread] /\ stale' \in BOOLEAN
    BY <2>1 DEF IInv, TypeOK
  <2> QED
    BY <2>1, <2>2, <2>3, <2>4, ListStep
<1> QED
  BY <1>1, <1>2, RouterStep, ThreadStep, AgeStep DEF Next

-----------------------------------------------------------------------------
(* The theorems.                                                           *)

\* The inductive invariant holds in every reachable state.
THEOREM Invariant == Spec => []IInv
<1> QED
  BY InitIInv, NextStep, PTL DEF Spec

\* Every variable keeps its type: no entry gets older than the timeout.
THEOREM TypeCorrect == Spec => []TypeOK
<1>1. IInv => TypeOK
  BY DEF IInv
<1> QED
  BY <1>1, Invariant, PTL

\* The number and the neighbour of an entry were announced by its router, and
\* by one LSU of it unless two were applied at a time or one is being written,
\* however the steps of the LSU threads and of the ageing thread interleave
\* (pwospf_topology.c:68-116, sr_pwospf.c:761-789).
THEOREM NothingInvented == Spec => []EntriesAnnounced
<1>1. IInv => EntriesAnnounced
  <2> SUFFICES ASSUME IInv, NEW e \in Entries
               PROVE  /\ \E m \in sent : Numbered(m, e)
                      /\ \E m \in sent : Neighboured(m, e)
                      /\ \/ Announced(e)
                         \/ e.router \in overlap
                         \/ \E t \in Tids : Applying(handler[t]) /\ handler[t].orig = e.router
    BY DEF EntriesAnnounced
  <2>1. PICK i \in Positions : e = db[i]
    BY TableFacts DEF IInv
  <2>2. i # 0 /\ Half(e) /\ Whole(i)
    BY <2>1, TableFacts DEF IInv, EntriesInv
  <2>3. ASSUME NEW t \in Tids, handler[t].phase = "neighbour", handler[t].at = i
        PROVE  Applying(handler[t]) /\ handler[t].orig = e.router
    BY <2>1, <2>2, <2>3 DEF IInv, ThreadsInv, Finds, Applying
  <2> QED
    BY <2>1, <2>2, <2>3 DEF Half, Whole
<1> QED
  BY <1>1, Invariant, PTL
=============================================================================
