-------------------------- MODULE ForwardingProofs --------------------------
(***************************************************************************)
(* What is proved of forwarding, for every network, every routing table    *)
(* and every way in which the tables change: lpm computes what its name    *)
(* says (by induction over the rows), types, and the bound on the routers  *)
(* that a packet passes.                                                   *)
(***************************************************************************)
EXTENDS Forwarding, ListsProofs, SequenceTheorems, TLAPS

\* The walk of lpm is what its recursive definition says.
LEMMA WalkDefined ==
    ASSUME NEW t \in Seq(Routes), NEW dst
    PROVE  LpmWalk(t, dst) = [k \in 0 .. Len(t) |->
               IF k = 0 THEN NoRoute ELSE Better(LpmWalk(t, dst)[k - 1], t[k], dst)]
<1> DEFINE n == Len(t)
           X == Routes \cup {NoRoute}
           step == [y \in X \X (1 .. n) |-> Better(y[1], t[y[2]], dst)]
<1>1. n \in Nat /\ \A k \in 1 .. n : t[k] \in Routes
  OBVIOUS
<1>2. step \in [X \X (1 .. n) -> X]
  BY <1>1 DEF Better
<1>3. PICK w : IsWalk(w, X, NoRoute, n, step)
  <2> HIDE DEF n, step
  <2> QED
    BY <1>1, <1>2, WalkExists
<1>4. \A k \in 1 .. n : w[k - 1] \in X /\ w[k] = Better(w[k - 1], t[k], dst)
  <2> SUFFICES ASSUME NEW k \in 1 .. n
               PROVE  w[k - 1] \in X /\ w[k] = Better(w[k - 1], t[k], dst)
    OBVIOUS
  <2>1. k - 1 \in 0 .. n /\ k \in 0 .. n
    BY <1>1
  <2>2. w[k - 1] \in X /\ w[k] = step[<<w[k - 1], k>>]
    BY <1>3, <2>1 DEF IsWalk
  <2>3. <<w[k - 1], k>> \in X \X (1 .. n)
    BY <2>2
  <2> QED
    BY <2>2, <2>3
<1>5. w = [k \in 0 .. n |-> IF k = 0 THEN NoRoute ELSE Better(w[k - 1], t[k], dst)]
  <2> HIDE DEF X, step
  <2> QED
    BY <1>1, <1>3, <1>4 DEF IsWalk
<1> QED
  BY <1>5 DEF LpmWalk

\* Row j of the first k is the first of the longest that match.
FirstLongest(t, dst, k, j) ==
    /\ dst \in t[j].net
    /\ \A i \in 1 .. k : dst \in t[i].net =>
            t[i].mask <= t[j].mask /\ (i < j => t[i].mask < t[j].mask)

BestOf(t, dst, k, best) ==
    \/ best = NoRoute /\ \A i \in 1 .. k : dst \notin t[i].net
    \/ \E j \in 1 .. k : best = t[j] /\ FirstLongest(t, dst, k, j)

\* One turn of the loop.
LEMMA BetterBest ==
    ASSUME NEW t \in Seq(Routes), NEW dst, NEW k \in 0 .. Len(t) - 1, NEW best,
           BestOf(t, dst, k, best)
    PROVE  BestOf(t, dst, k + 1, Better(best, t[k + 1], dst))
<1> DEFINE row == t[k + 1]
<1>1. /\ \A i \in 1 .. k + 1 : t[i] \in Routes /\ t[i] # NoRoute
      /\ k + 1 \in 1 .. k + 1 /\ \A i \in 1 .. k + 1 : i \in 1 .. k \/ i = k + 1
  BY NullsAssumption
<1>2. \A i \in 1 .. k + 1 : t[i].mask \in Nat
  BY <1>1 DEF Routes
<1> HIDE DEF row
<1>3. CASE best = NoRoute /\ \A i \in 1 .. k : dst \notin t[i].net
  <2>1. CASE dst \in row.net
    <3>1. FirstLongest(t, dst, k + 1, k + 1)
      BY <1>1, <1>2, <1>3, <2>1 DEF FirstLongest, row
    <3> QED
      BY <1>1, <1>3, <2>1, <3>1 DEF BestOf, Better, row
  <2>2. CASE dst \notin row.net
    BY <1>1, <1>3, <2>2 DEF BestOf, Better, row
  <2> QED
    BY <2>1, <2>2
<1>4. ASSUME NEW j \in 1 .. k, best = t[j], FirstLongest(t, dst, k, j)
      PROVE  BestOf(t, dst, k + 1, Better(best, row, dst))
  <2>1. j \in 1 .. k + 1 /\ best # NoRoute /\ t[j].mask \in Nat /\ row.mask \in Nat
    BY <1>1, <1>2, <1>4 DEF row
  <2>2. CASE dst \in row.net /\ row.mask > best.mask
    <3>0. \A i \in 1 .. k : i \in 1 .. k + 1 /\ (dst \in t[i].net => t[i].mask <= t[j].mask)
      BY <1>4 DEF FirstLongest
    <3>1. \A i \in 1 .. k : dst \in t[i].net => t[i].mask < t[k + 1].mask
      BY <1>2, <1>4, <2>1, <2>2, <3>0 DEF row
    <3>2. FirstLongest(t, dst, k + 1, k + 1)
      BY <1>1, <1>2, <2>2, <3>0, <3>1 DEF FirstLongest, row
    <3> QED
      BY <1>1, <2>1, <2>2, <3>2 DEF BestOf, Better, row
  <2>3. CASE ~(dst \in row.net /\ row.mask > best.mask)
    <3>1. FirstLongest(t, dst, k + 1, j)
      BY <1>1, <1>2, <1>4, <2>1, <2>3 DEF FirstLongest, row
    <3> QED
      BY <1>4, <2>1, <2>3, <3>1 DEF BestOf, Better
  <2> QED
    BY <2>2, <2>3
<1> QED
  BY <1>3, <1>4 DEF BestOf, row

\* The best row so far is the first of the longest so far.
LEMMA LpmBest ==
    ASSUME NEW t \in Seq(Routes), NEW dst
    PROVE  BestOf(t, dst, Len(t), Lpm(t, dst))
<1> DEFINE n == Len(t)
           w == LpmWalk(t, dst)
           S == {k \in 0 .. n : BestOf(t, dst, k, w[k])}
<1>1. n \in Nat
  OBVIOUS
<1>2. \A k \in 0 .. n : w[k] = IF k = 0 THEN NoRoute ELSE Better(w[k - 1], t[k], dst)
  <2>1. w = [k \in 0 .. n |-> IF k = 0 THEN NoRoute ELSE Better(w[k - 1], t[k], dst)]
    BY WalkDefined
  <2> HIDE DEF w, n
  <2> QED
    BY <2>1
<1> HIDE DEF w
<1>3. 0 \in S
  BY <1>1, <1>2 DEF BestOf
<1>4. ASSUME NEW k \in 0 .. n - 1, k \in S PROVE k + 1 \in S
  <2>1. k + 1 \in 1 .. n /\ k + 1 \in 0 .. n /\ (k + 1) - 1 = k
    BY <1>1
  <2>2. w[k + 1] = Better(w[k], t[k + 1], dst)
    BY <1>2, <2>1
  <2>3. BestOf(t, dst, k + 1, w[k + 1])
    BY <1>4, <2>2, BetterBest
  <2> QED
    BY <2>1, <2>3
<1>5. n \in S
  <2> HIDE DEF S, n
  <2>1. 0 .. n \subseteq S
    BY <1>1, <1>3, <1>4, WalkInduction
  <2> QED
    BY <1>1, <2>1
<1> QED
  BY <1>5 DEF Lpm, w

\* lpm returns a row of the table or nothing.
LEMMA LpmType ==
    ASSUME NEW t \in Seq(Routes), NEW dst
    PROVE  Lpm(t, dst) \in Routes \cup {NoRoute}
<1>1. BestOf(t, dst, Len(t), Lpm(t, dst))
  BY LpmBest
<1>2. \A j \in 1 .. Len(t) : t[j] \in Routes
  OBVIOUS
<1> QED
  BY <1>1, <1>2 DEF BestOf

\* ... the one that LongestPrefix describes.
LEMMA LpmLongest ==
    ASSUME NEW t \in Seq(Routes), NEW a
    PROVE  LET Matches == {k \in DOMAIN t : a \in t[k].net}
               Longest == {k \in Matches : \A j \in Matches : t[j].mask <= t[k].mask}
           IN Lpm(t, a) = IF Longest = {} THEN NoRoute
                          ELSE t[CHOOSE k \in Longest : \A j \in Longest : k <= j]
<1> DEFINE Matches == {k \in DOMAIN t : a \in t[k].net}
           Longest == {k \in Matches : \A j \in Matches : t[j].mask <= t[k].mask}
<1>1. BestOf(t, a, Len(t), Lpm(t, a))
  BY LpmBest
<1>2. DOMAIN t = 1 .. Len(t) /\ Len(t) \in Nat /\ \A k \in DOMAIN t : t[k].mask \in Nat
  <2>1. \A k \in 1 .. Len(t) : t[k] \in Routes
    OBVIOUS
  <2>2. \A k \in 1 .. Len(t) : t[k].mask \in Nat
    BY <2>1 DEF Routes
  <2>3. DOMAIN t = 1 .. Len(t) /\ Len(t) \in Nat
    OBVIOUS
  <2> QED
    BY <2>2, <2>3
<1>4. ASSUME NEW j \in 1 .. Len(t), Lpm(t, a) = t[j], FirstLongest(t, a, Len(t), j)
      PROVE  Lpm(t, a) = t[CHOOSE k \in Longest : \A i \in Longest : k <= i] /\ Longest # {}
  <2>1. j \in Longest
    BY <1>2, <1>4 DEF FirstLongest
  <2>2. ASSUME NEW k \in Longest PROVE j <= k
    <3>1. k \in 1 .. Len(t) /\ a \in t[k].net /\ t[j].mask <= t[k].mask
      BY <1>2, <2>1
    <3>2. t[k].mask \in Nat /\ t[j].mask \in Nat
      BY <1>2, <3>1
    <3>3. k < j => t[k].mask < t[j].mask
      BY <1>4, <3>1 DEF FirstLongest
    <3>4. ~(k < j)
      BY <3>1, <3>2, <3>3
    <3> QED
      BY <3>1, <3>4
  <2>3. \A k \in Longest : (\A i \in Longest : k <= i) => k = j
    <3>1. Longest \subseteq 1 .. Len(t)
      BY <1>2
    <3> HIDE DEF Longest
    <3> QED
      BY <2>1, <2>2, <3>1
  <2> HIDE DEF Longest
  <2>4. (CHOOSE k \in Longest : \A i \in Longest : k <= i) = j
    BY <2>1, <2>2, <2>3
  <2> QED
    BY <1>4, <2>1, <2>4
<1>5. Lpm(t, a) = IF Longest = {} THEN NoRoute
                  ELSE t[CHOOSE k \in Longest : \A i \in Longest : k <= i]
  <2>1. CASE Lpm(t, a) = NoRoute /\ \A i \in 1 .. Len(t) : a \notin t[i].net
    <3>1. Longest = {}
      BY <1>2, <2>1
    <3> QED
      BY <2>1, <3>1
  <2> HIDE DEF Longest
  <2> QED
    BY <1>1, <1>4, <2>1 DEF BestOf
<1> QED
  BY <1>5

-----------------------------------------------------------------------------
(* Types and the TTL.                                                      *)

\* The decrement of an unsigned number below n.
LEMMA Decrement ==
    ASSUME NEW n \in Nat \ {0}, NEW ttl \in 0 .. n - 1
    PROVE  (ttl - 1) % n = IF ttl = 0 THEN n - 1 ELSE ttl - 1
<1> DEFINE q == (ttl - 1) \div n
           r == (ttl - 1) % n
           m == n * q
<1>1. q \in Int /\ r \in 0 .. n - 1 /\ ttl - 1 = m + r
  OBVIOUS
<1> HIDE DEF q, r
<1>2. /\ q >= 1 => m >= n
      /\ q = 0 => m = 0
      /\ q = -1 => m = -n
      /\ q <= -2 => m <= -(2 * n)
      /\ m \in Int
  BY <1>1
<1> HIDE DEF m
<1>3. r = IF ttl = 0 THEN n - 1 ELSE ttl - 1
  BY <1>1, <1>2
<1> QED
  BY <1>3 DEF r

\* The account of a TTL t after h routers, when one more takes one off.
LEMMA TtlArithmetic ==
    ASSUME NEW n \in Nat, NEW b \in 0 .. n - 1, NEW h \in Nat, NEW t \in 0 .. n - 1,
           h < IF b = 0 THEN n ELSE b,
           (h = 0 /\ t = b) \/ (h > 0 /\ t = (IF b = 0 THEN n ELSE b) - h),
           (IF t = 0 THEN n - 1 ELSE t - 1) # 0
    PROVE  /\ (IF t = 0 THEN n - 1 ELSE t - 1) = (IF b = 0 THEN n ELSE b) - (h + 1)
           /\ h + 1 < IF b = 0 THEN n ELSE b
<1>1. CASE b = 0
  BY <1>1
<1>2. CASE b # 0
  BY <1>2
<1> QED
  BY <1>1, <1>2

USE NullsAssumption, MachinesAssumption, TablesAssumption, PacketsAssumption, BoundAssumption

LEMMA AgedType ==
    ASSUME NEW p \in Packets
    PROVE  /\ Aged(p) \in Packets
           /\ Aged(p).ttl = IF p.ttl = 0 THEN TTLs - 1 ELSE p.ttl - 1
<1> DEFINE ttl == (p.ttl - 1) % TTLs
<1>1. TTLs \in Nat \ {0} /\ p.ttl \in 0 .. TTLs - 1
  BY DEF Packets
<1>2. ttl = (IF p.ttl = 0 THEN TTLs - 1 ELSE p.ttl - 1) /\ ttl \in 0 .. TTLs - 1
  BY <1>1, Decrement
<1> HIDE DEF ttl
<1>3. [p EXCEPT !.ttl = ttl, !.sum = IpCksum(ttl)] \in Packets
  BY <1>2 DEF Packets, IpCksum
<1>4. [p EXCEPT !.ttl = ttl, !.sum = IpCksum(ttl)].ttl = ttl
  BY DEF Packets
<1> QED
  BY <1>2, <1>3, <1>4 DEF Aged, ttl

LEMMA InitIInv == Init => IInv
<1> SUFFICES ASSUME Init PROVE IInv
  OBVIOUS
<1>1. TypeOK
  <2>1. \A r \in Routers : Direct[r] \o Start[r] \in Seq(Routes)
    BY ConcatProperties
  <2>2. table \in [Routers -> Seq(Routes)]
    BY <2>1 DEF Init
  <2>3. /\ born \in [Trips -> 0 .. TTLs - 1] /\ hops \in [Trips -> Nat]
        /\ changes \in 0 .. MaxChanges
    BY DEF Init
  <2>4. \A r \in Routers : table[r] \in {Direct[r] \o v : v \in Views[r] \cup {<<>>, Start[r]}}
    BY DEF Init
  <2> QED
    BY <2>2, <2>3, <2>4 DEF Init, TypeOK, Flying
<1>2. TtlBound /\ TtlAccount
  BY DEF Init, TtlBound, TtlAccount, Flying
<1> QED
  BY <1>1, <1>2 DEF IInv

\* What a packet of a trip is when a router queues it anew.
LEMMA NewMessage ==
    ASSUME IInv, NEW i \in Trips, NEW r \in Routers, Here(i, r) \/ Waits(i, r),
           NEW p \in Packets, NEW nh \in Addrs, QueueMessage(i, p, nh)
    PROVE  IInv'
<1> USE DEF IInv, QueueMessage, Queue, net
<1>1. at[i] \in up /\ st[i] # "idle" /\ p # NoPacket /\ p.ttl \in 0 .. TTLs - 1
  BY DEF Here, Waits, Packets
<1>2. TypeOK'
  BY <1>1 DEF TypeOK, Flying
<1>3. TtlBound'
  BY <1>1 DEF TypeOK, TtlBound
<1>4. TtlAccount'
  BY <1>1 DEF TypeOK, TtlAccount, Flying
<1> QED
  BY <1>2, <1>3, <1>4

\* A router that ends ends no other machine's packets.
LEMMA CrashStep ==
    ASSUME IInv, NEW r \in Routers, Crash(r)
    PROVE  IInv'
<1> USE DEF IInv, Crash
<1>1. \A i \in Trips : /\ Flying(i)' => Flying(i) /\ at[i] # r /\ at'[i] = at[i]
                       /\ st'[i] # "idle" => st[i] # "idle"
  BY DEF Flying, TypeOK
<1>2. st' \in [Trips -> {"idle", "arrived", "queued", "delivered", "answered",
                         "reported", "lost"}]
  BY DEF TypeOK
<1>3. TypeOK'
  BY <1>1, <1>2 DEF TypeOK
<1>4. TtlBound' /\ TtlAccount'
  BY <1>1 DEF TtlBound, TtlAccount
<1> QED
  BY <1>3, <1>4

\* A trip that ends where it is.
LEMMA EndStep ==
    ASSUME IInv, NEW i \in Trips, NEW how \in {"delivered", "answered", "reported", "lost"},
           Flying(i), End(i, how)
    PROVE  IInv'
<1> USE DEF IInv, End, net
<1>1. \A j \in Trips : /\ Flying(j)' => Flying(j)
                       /\ st'[j] # "idle" => st[j] # "idle"
  BY DEF Flying, TypeOK
<1>2. TypeOK'
  BY <1>1 DEF TypeOK
<1>3. TtlBound' /\ TtlAccount'
  BY <1>1 DEF TtlBound, TtlAccount
<1> QED
  BY <1>2, <1>3

LEMMA NextHopType ==
    ASSUME NEW e \in Routes, NEW dst \in Addrs
    PROVE  NextHop(e, dst) \in Addrs /\ e.out \in Addrs
  BY DEF NextHop, Routes

LEMMA MessageType ==
    ASSUME NEW type \in Protocols, NEW src \in Addrs, NEW dst \in Addrs
    PROVE  IcmpMessage(type, src, dst) \in Packets
  BY DEF IcmpMessage, IpCksum, Packets

LEMMA ErrorStep ==
    ASSUME IInv, NEW i \in Trips, NEW r \in Routers, Here(i, r) \/ Waits(i, r),
           SendIcmpError(i, r, pkt[i])
    PROVE  IInv'
<1> DEFINE p == pkt[i]
           e == Lpm(table[r], p.src)
<1>1. p \in Packets /\ p.src \in Addrs /\ table[r] \in Seq(Routes)
  BY DEF IInv, TypeOK, Flying, Here, Waits, Packets
<1>2. e \in Routes \cup {NoRoute}
  BY <1>1, LpmType
<1>3. CASE e = NoRoute
  BY <1>3, CrashStep DEF SendIcmpError
<1>4. CASE e # NoRoute
  <2>1. NextHop(e, p.src) \in Addrs /\ e.out \in Addrs
    BY <1>1, <1>2, <1>4, NextHopType
  <2>2. ErrorAbout(p, e) \in Packets
    BY <1>1, <2>1, MessageType DEF ErrorAbout, Protocols
  <2> QED
    BY <1>4, <2>1, <2>2, NewMessage DEF SendIcmpError
<1> QED
  BY <1>3, <1>4

LEMMA ForwardStep ==
    ASSUME IInv, NEW i \in Trips, NEW r \in Routers, Forward(i, r)
    PROVE  IInv'
<1> DEFINE p == pkt[i]
           e == Lpm(table[r], p.dst)
           nh == NextHop(e, p.dst)
<1> USE DEF IInv
<1>1. /\ p \in Packets /\ p.dst \in Addrs /\ table[r] \in Seq(Routes)
      /\ p.ttl \in 0 .. TTLs - 1 /\ at[i] \in Routers /\ st[i] = "arrived"
  BY DEF TypeOK, Flying, Forward, Here, Packets
<1>2. e \in Routes /\ nh \in Addrs
  BY <1>1, LpmType, NextHopType DEF Forward
<1>3. /\ Aged(p) \in Packets /\ Aged(p).ttl # 0 /\ Aged(p) # NoPacket
      /\ Aged(p).ttl = IF p.ttl = 0 THEN TTLs - 1 ELSE p.ttl - 1
  BY <1>1, AgedType DEF Forward
<1>4. /\ pkt' = [pkt EXCEPT ![i] = Aged(p)] /\ st' = [st EXCEPT ![i] = "queued"]
      /\ hop' = [hop EXCEPT ![i] = nh] /\ hops' = [hops EXCEPT ![i] = @ + 1]
      /\ UNCHANGED <<first, at, born, net>>
  BY DEF Forward, Queue
<1> HIDE DEF p, e, nh
<1>5. /\ \A j \in Trips : j # i => /\ hops'[j] = hops[j] /\ st'[j] = st[j]
                                   /\ pkt'[j] = pkt[j] /\ born'[j] = born[j]
      /\ hops'[i] = hops[i] + 1 /\ born'[i] = born[i] /\ pkt'[i] = Aged(p)
      /\ hops[i] \in Nat /\ born[i] \in 0 .. TTLs - 1 /\ TTLs \in Nat
  BY <1>4 DEF TypeOK
<1>6. TypeOK'
  <2>1. \A j \in Trips : Flying(j)' => at'[j] \in Routers \cup Hosts /\ pkt'[j] # NoPacket
    BY <1>1, <1>3, <1>4, <1>5 DEF TypeOK, Flying, net
  <2>3. \A j \in Trips : st'[j] = "queued" => hop'[j] \in Addrs
    BY <1>2, <1>4, <1>5 DEF TypeOK
  <2>2. /\ pkt' \in [Trips -> Packets \cup {NoPacket}]
        /\ hop' \in [Trips -> Addrs \cup {NoGw}] /\ hops' \in [Trips -> Nat]
        /\ st' \in [Trips -> {"idle", "arrived", "queued", "delivered", "answered",
                              "reported", "lost"}]
    BY <1>2, <1>3, <1>4 DEF TypeOK
  <2> QED
    BY <1>4, <2>1, <2>2, <2>3 DEF TypeOK, net
<1>7. \/ hops[i] = 0 /\ p.ttl = born[i]
      \/ hops[i] > 0 /\ p.ttl = (IF born[i] = 0 THEN TTLs ELSE born[i]) - hops[i]
  BY <1>1 DEF TtlAccount, Flying, p
<1>8. hops[i] < IF born[i] = 0 THEN TTLs ELSE born[i]
  BY <1>1 DEF TtlBound
<1>9. /\ Aged(p).ttl = (IF born[i] = 0 THEN TTLs ELSE born[i]) - (hops[i] + 1)
      /\ hops[i] + 1 < IF born[i] = 0 THEN TTLs ELSE born[i]
  BY <1>1, <1>3, <1>5, <1>7, <1>8, TtlArithmetic
<1>10. TtlBound'
  BY <1>5, <1>9 DEF TtlBound
<1>11. TtlAccount'
  <2> SUFFICES ASSUME NEW j \in Trips, Flying(j)'
               PROVE  \/ hops'[j] = 0 /\ pkt'[j].ttl = born'[j]
                      \/ /\ hops'[j] > 0
                         /\ pkt'[j].ttl = (IF born'[j] = 0 THEN TTLs ELSE born'[j]) - hops'[j]
    BY DEF TtlAccount
  <2>1. CASE j = i
    BY <1>5, <1>9, <2>1
  <2>2. CASE j # i
    BY <1>5, <2>2 DEF TtlAccount, Flying
  <2> QED
    BY <2>1, <2>2
<1> QED
  BY <1>6, <1>10, <1>11

LEMMA HandleStep ==
    ASSUME IInv, NEW i \in Trips, NEW r \in Routers, Handle(i, r)
    PROVE  IInv'
<1>1. CASE DropInvalid(i, r)
  BY <1>1, EndStep DEF DropInvalid, Here, Flying
<1>2. CASE EchoReply(i, r)
  <2> DEFINE p == pkt[i]
             e == Lpm(table[r], p.src)
  <2>1. p \in Packets /\ p.src \in Addrs /\ p.dst \in Addrs /\ table[r] \in Seq(Routes)
    BY <1>2 DEF EchoReply, IInv, TypeOK, Flying, Here, Packets
  <2>2. e \in Routes \cup {NoRoute}
    BY <2>1, LpmType
  <2>3. CASE e = NoRoute
    BY <1>2, <2>3, ErrorStep DEF EchoReply
  <2>4. CASE e # NoRoute
    <3>1. NextHop(e, p.dst) \in Addrs
      BY <2>1, <2>2, <2>4, NextHopType
    <3>2. EchoOf(p) \in Packets
      BY <2>1, MessageType DEF EchoOf, Protocols
    <3> QED
      BY <1>2, <2>4, <3>1, <3>2, NewMessage DEF EchoReply
  <2> QED
    BY <2>3, <2>4
<1>3. CASE PortUnreachable(i, r) \/ TimeExceeded(i, r) \/ NetUnreachable(i, r)
  BY <1>3, ErrorStep DEF PortUnreachable, TimeExceeded, NetUnreachable
<1>4. CASE Forward(i, r)
  BY <1>4, ForwardStep
<1> QED
  BY <1>1, <1>2, <1>3, <1>4 DEF Handle

LEMMA ArpStep ==
    ASSUME IInv, NEW i \in Trips, NEW r \in Routers,
           Resolved(i, r) \/ SentInVain(i, r) \/ HostUnreachable(i, r)
    PROVE  IInv'
<1>1. CASE Resolved(i, r)
  <2> USE <1>1 DEF IInv, Resolved, Waits, Answers, net
  <2>1. /\ Machine(hop[i]) \in up \cup Hosts
        /\ pkt[i] # NoPacket /\ st[i] # "idle"
    BY DEF TypeOK, Flying
  <2>2. TypeOK'
    BY <2>1 DEF TypeOK, Flying
  <2>3. TtlBound' /\ TtlAccount'
    BY <2>1 DEF TypeOK, TtlBound, TtlAccount, Flying
  <2> QED
    BY <2>2, <2>3
<1>2. CASE SentInVain(i, r)
  BY <1>2, EndStep DEF SentInVain, Waits, Flying
<1>3. CASE HostUnreachable(i, r)
  BY <1>3, EndStep, ErrorStep DEF HostUnreachable, Waits, Flying
<1> QED
  BY <1>1, <1>2, <1>3

LEMMA SendStep ==
    ASSUME IInv, NEW i \in Trips, NEW p \in Firsts, Send(i, p)
    PROVE  IInv'
<1> USE DEF IInv, Send, net
<1>1. /\ p \in Packets /\ p # NoPacket /\ p.ttl \in 0 .. TTLs - 1
      /\ Gateway[p.src] \in Routers
  BY DEF TypeOK, Packets
<1>2. TypeOK'
  BY <1>1 DEF TypeOK, Flying
<1>3. TtlBound' /\ TtlAccount'
  BY <1>1 DEF TypeOK, TtlBound, TtlAccount, Flying
<1> QED
  BY <1>2, <1>3

LEMMA HostStep ==
    ASSUME IInv, NEW i \in Trips, NEW h \in Hosts, HostAnswers(i, h) \/ HostReceives(i, h)
    PROVE  IInv'
<1> DEFINE p == pkt[i]
           q == [p EXCEPT !.type = "reply", !.src = h, !.dst = p.src,
                          !.ttl = HostTTL, !.sum = IpCksum(HostTTL)]
<1>1. CASE /\ HostAnswers(i, h) /\ h \in present /\ Gateway[h] \in up
  <2> USE <1>1 DEF IInv, net
  <2>1. p \in Packets /\ st[i] = "arrived" /\ Gateway[h] \in Routers
    BY DEF HostAnswers, TypeOK, Flying
  <2>2. HostTTL \in 0 .. TTLs - 1 /\ h \in Addrs
    OBVIOUS
  <2>3. q \in Packets /\ q # NoPacket /\ q.ttl = HostTTL
    BY <2>1, <2>2 DEF Packets, Protocols, IpCksum
  <2>4. /\ pkt' = [pkt EXCEPT ![i] = q] /\ at' = [at EXCEPT ![i] = Gateway[h]]
        /\ born' = [born EXCEPT ![i] = HostTTL] /\ hops' = [hops EXCEPT ![i] = 0]
        /\ UNCHANGED <<first, st, hop, net>>
    BY DEF HostAnswers
  <2> HIDE DEF p, q
  <2>5. TypeOK'
    BY <2>1, <2>2, <2>3, <2>4 DEF TypeOK, Flying
  <2>6. TtlBound' /\ TtlAccount'
    BY <2>2, <2>3, <2>4 DEF TypeOK, TtlBound, TtlAccount, Flying
  <2> QED
    BY <2>5, <2>6
<1>2. CASE HostAnswers(i, h) /\ ~(h \in present /\ Gateway[h] \in up)
  BY <1>2, EndStep DEF HostAnswers, Flying
<1>3. CASE HostReceives(i, h)
  BY <1>3, EndStep DEF HostReceives, Flying
<1> QED
  BY <1>1, <1>2, <1>3

LEMMA TableStep ==
    ASSUME IInv, NEW r \in Routers, NEW v \in Views[r] \cup {<<>>}, Becomes(r, v)
    PROVE  IInv'
<1> USE DEF IInv, Becomes, trip
<1>1. Direct[r] \o v \in Seq(Routes)
  <2>1. Direct[r] \in Seq(Routes)
    BY TablesAssumption
  <2>2. v \in Seq(Routes)
    <3>1. CASE v = <<>>
      BY <3>1
    <3>2. CASE v \in Views[r]
      <4>1. Views[r] \subseteq Seq(Routes)
        BY TablesAssumption
      <4> QED
        BY <3>2, <4>1
    <3> QED
      BY <3>1, <3>2
  <2> QED
    BY <2>1, <2>2, ConcatProperties
<1>2. \A q \in Routers : table'[q] = IF q = r THEN Direct[r] \o v ELSE table[q]
  BY DEF TypeOK
<1>3. TypeOK'
  <2>1. table' \in [Routers -> Seq(Routes)]
    BY <1>1 DEF TypeOK
  <2>2. \A q \in Routers :
            table'[q] \in {Direct[q] \o w : w \in Views[q] \cup {<<>>, Start[q]}}
    <3>1. v \in Views[r] \cup {<<>>, Start[r]}
      OBVIOUS
    <3>2. ASSUME NEW q \in Routers
          PROVE table'[q] \in {Direct[q] \o w : w \in Views[q] \cup {<<>>, Start[q]}}
      <4>1. CASE q = r
        BY <1>2, <3>1, <4>1
      <4>2. CASE q # r
        <5>1. table[q] \in {Direct[q] \o w : w \in Views[q] \cup {<<>>, Start[q]}}
          BY DEF TypeOK
        <5>2. table'[q] = table[q]
          BY <1>2, <4>2
        <5> QED
          BY <5>1, <5>2
      <4> QED
        BY <4>1, <4>2
    <3> QED
      BY <3>2
  <2>3. changes' \in 0 .. MaxChanges
    BY DEF TypeOK
  <2> QED
    BY <2>1, <2>2, <2>3 DEF TypeOK, Flying
<1>4. TtlBound' /\ TtlAccount'
  BY DEF TtlBound, TtlAccount, Flying
<1> QED
  BY <1>3, <1>4

LEMMA NextStep == IInv /\ [Next]_vars => IInv'
<1> SUFFICES ASSUME IInv, [Next]_vars PROVE IInv'
  OBVIOUS
<1>1. CASE UNCHANGED vars
  BY <1>1 DEF vars, IInv, TypeOK, TtlBound, TtlAccount, Flying
<1>2. ASSUME NEW i \in Trips, Step(i) PROVE IInv'
  BY <1>2, HandleStep, ArpStep, HostStep DEF Step
<1>3. ASSUME NEW i \in Trips, NEW p \in Firsts, Send(i, p) PROVE IInv'
  BY <1>3, SendStep
<1>4. ASSUME NEW h \in Hosts, HostLeaves(h) PROVE IInv'
  BY <1>4 DEF HostLeaves, trip, IInv, TypeOK, TtlBound, TtlAccount, Flying
<1>5. ASSUME NEW r \in Routers, ClearRoutes(r) \/ InstallRoutes(r) PROVE IInv'
  BY <1>5, TableStep DEF ClearRoutes, InstallRoutes
<1> QED
  BY <1>1, <1>2, <1>3, <1>4, <1>5 DEF Next

\* The inductive invariant: every network of routers and hosts, every table.
THEOREM Invariant == Spec => []IInv
<1> QED
  BY InitIInv, NextStep, PTL DEF Spec

\* Every variable has its type, and a packet waits for ARP under an address,
\* never under the null gateway of a direct route (sr_ip.c:29-31,
\* sr_router.c:99, 122).
THEOREM TypeCorrect == Spec => []TypeOK
<1>1. IInv => TypeOK
  BY DEF IInv
<1> QED
  BY <1>1, Invariant, PTL

\* A packet passes fewer routers than its TTL, 0 being 256, whatever the
\* tables are and however they change (sr_ip.c:9-19).
THEOREM NoEternalPacket == Spec => []TtlBound
<1>1. IInv => TtlBound
  BY DEF IInv
<1> QED
  BY <1>1, Invariant, PTL

\* lpm finds the first of the longest prefixes in every table that the SPF
\* runs may build (sr_router.c:65-84).
THEOREM LongestPrefixFound == Spec => []LongestPrefix
<1>1. IInv => LongestPrefix
  BY LpmLongest DEF IInv, TypeOK, LongestPrefix
<1> QED
  BY <1>1, Invariant, PTL
=============================================================================
