----------------------------- MODULE SpfProofs ------------------------------
(***************************************************************************)
(* The heap of every run stays sorted, no run touches a direct route,      *)
(* overlapping runs leave no network out unless two of them linked their   *)
(* routes to the same entry, and a run that nothing disturbs finds the     *)
(* shortest paths: for any number of runs, and for any networks and        *)
(* routers that become known in any order.                                 *)
(***************************************************************************)
EXTENDS Spf, ListsProofs, TLAPS

USE NamesAssumption, NetsAssumption

-----------------------------------------------------------------------------
(* The inductive invariant.                                                *)

\* The paths of length 1, and those that continue a path.
Starts    == {FirstHop(f) : f \in {g \in Own : IsFirstHop(g)}}
Follow(x) == {Extension(e, x) : e \in {d \in Range(topology) : Extends(d, x)}}

\* A heap that is sorted, and holds paths only.
Sorted(h) == \A i, j \in DOMAIN h : i < j => h[i].cost <= h[j].cost
Heaps     == {h \in Seq(Item) : Sorted(h) /\ \A i \in DOMAIN h : h[i].cost >= 1}

\* A search is for an entry that is there, and what it put on the stack is a
\* path; a route that is about to be linked has one.
Searching ==
    \A t \in Tids :
        /\ run[t].heap \in Heaps
        /\ run[t].top # NoItem => run[t].top.cost >= 1
        /\ run[t].phase \in {"search", "add", "link"} => run[t].left > 0
        /\ run[t].phase = "link" => run[t].top # NoItem

\* pwospf_run_thread adds a route for an interface.
Booting == direct # "check" => boot < Len(Ifaces)

\* When all start together, no run looks for a network of the router's own:
\* it has a route from before the first LSU on.
OwnAsRoutes ==
    \A i \in DOMAIN routing_table, k \in 1 .. Len(Ifaces) :
        routing_table[i].dest = Ifaces[k] => k <= boot
NothingYet  == boot < Len(Ifaces) => topology = <<>>
AllDirect   ==
    boot < Len(Ifaces) => \A i \in DOMAIN routing_table : ~routing_table[i].dynamic
Elsewhere   ==
    \A t \in Tids : run[t].phase \in {"search", "add", "link"} => Target(t).net \notin Own

\* The end that a writer found is not in front of a direct route, so that it
\* cuts off dynamic ones only; the end that pwospf_run_thread found stays.
Writing(w)  == IF w = Main THEN direct = "link" ELSE run[w].phase = "link"
Behind      ==
    \A w \in Writers : Writing(w) /\ end[w] # Gone =>
        \A i \in DOMAIN routing_table : ~routing_table[i].dynamic => i <= end[w]
DirectEnd   == direct = "link" => end[Main] # Gone
PromptInv   ==
    Prompt => OwnAsRoutes /\ NothingYet /\ AllDirect /\ Elsewhere /\ Behind /\ DirectEnd

\* There is an interface from which paths can start.
Hop == \E n \in Own : IsFirstHop(n)

\* An entry of the topology, counted from the end of the list.
FromEnd(j) == topology[Len(topology) + 1 - j]

\* The run t has seen to a route for every entry it has passed, and will for
\* the one it stands on.
Leads(t) ==
    /\ run[t].phase \in {"walk", "search", "add", "link"}
    /\ \A j \in run[t].left + 1 .. Len(topology) : HasRoute(FromEnd(j).net)
    /\ run[t].phase = "search" =>
        run[t].top # NoItem \/ \E i \in DOMAIN run[t].heap : run[t].heap[i].nbr # None
    /\ run[t].phase = "add" => run[t].top # NoItem
    /\ run[t].phase = "link" => end[t] # Gone

\* Every entry of the topology has a route.
Routed == \A j \in 1 .. Len(topology) : HasRoute(FromEnd(j).net)

\* After the last change, until a run has gone all the way, one is under way
\* after which nothing was cleared.  What a run cuts off may be a route of the
\* one that leads.
Led == ~torn /\ ~changed /\ Hop =>
    \/ \E t \in Tids : run[t].phase = "clear" \/ Leads(t)
    \/ Routed

IInv == TypeOK /\ Searching /\ Booting /\ OwnRoutesKept /\ PromptInv /\ Led

-----------------------------------------------------------------------------
(* The heap.                                                               *)

\* An item put in front of a list.
LEMMA InFront ==
    ASSUME NEW S, NEW x \in S, NEW h \in Seq(S)
    PROVE  /\ <<x>> \o h \in Seq(S)
           /\ DOMAIN h = 1 .. Len(h) /\ DOMAIN (<<x>> \o h) = 1 .. Len(h) + 1
           /\ Len(<<x>> \o h) = Len(h) + 1
           /\ (<<x>> \o h)[1] = x
           /\ \A i \in 2 .. Len(h) + 1 :
                i - 1 \in 1 .. Len(h) /\ (<<x>> \o h)[i] = h[i - 1]
OBVIOUS

LEMMA HeapType ==
    ASSUME NEW h \in Heaps
    PROVE  /\ h \in Seq(Item) /\ Len(h) \in Nat /\ DOMAIN h = 1 .. Len(h)
           /\ \A i \in 1 .. Len(h) : h[i] \in Item /\ h[i].cost \in Nat /\ h[i].cost >= 1
           /\ \A i, j \in 1 .. Len(h) : i < j => h[i].cost <= h[j].cost
<1>1. h \in Seq(Item) /\ Sorted(h) /\ \A i \in DOMAIN h : h[i].cost >= 1
  BY DEF Heaps
<1>2. Len(h) \in Nat /\ DOMAIN h = 1 .. Len(h) /\ \A i \in 1 .. Len(h) : h[i] \in Item
  BY <1>1
<1> QED
  BY <1>1, <1>2 DEF Item, Sorted

\* A path of length 1 in front.
LEMMA PushFirst ==
    ASSUME NEW h \in Heaps, NEW x \in Item, x.cost = 1
    PROVE  <<x>> \o h \in Heaps
<1> DEFINE c == <<x>> \o h
<1>1. PICK n \in Nat : n = Len(h)
  BY HeapType
<1>2. /\ c \in Seq(Item) /\ DOMAIN c = 1 .. n + 1 /\ c[1] = x
      /\ \A i \in 2 .. n + 1 : i - 1 \in 1 .. n /\ c[i] = h[i - 1]
  <2>1. h \in Seq(Item)
    BY HeapType
  <2> QED
    BY <1>1, <2>1, InFront
<1>3. /\ \A i \in 1 .. n : h[i].cost \in Nat /\ h[i].cost >= 1
      /\ \A i, j \in 1 .. n : i < j => h[i].cost <= h[j].cost
  BY <1>1, HeapType
<1> HIDE DEF c
<1>4. Sorted(c)
  <2> SUFFICES ASSUME NEW i \in 1 .. n + 1, NEW j \in 1 .. n + 1, i < j
               PROVE  c[i].cost <= c[j].cost
    BY <1>2 DEF Sorted
  <2>1. j \in 2 .. n + 1
    OBVIOUS
  <2>2. CASE i = 1
    BY <1>2, <1>3, <2>1, <2>2
  <2>3. CASE i # 1
    <3>1. i \in 2 .. n + 1 /\ i - 1 < j - 1
      BY <2>3
    <3> QED
      BY <1>2, <1>3, <2>1, <3>1
  <2> QED
    BY <2>2, <2>3
<1>5. \A i \in 1 .. n + 1 : c[i].cost >= 1
  <2> TAKE i \in 1 .. n + 1
  <2>1. i = 1 \/ i \in 2 .. n + 1
    OBVIOUS
  <2> QED
    BY <1>2, <1>3, <2>1
<1> QED
  BY <1>2, <1>4, <1>5 DEF Heaps, c

\* What the pass over a list carries along.
LEMMA Carried ==
    ASSUME NEW h \in Seq(Item), NEW m \in Nat, Len(h) = m + 1
    PROVE  \E carried \in [1 .. m + 1 -> Item] :
             /\ Reorder(h) = [i \in 1 .. m + 1 |->
                    IF i < m + 1 /\ carried[i].cost > h[i + 1].cost THEN h[i + 1]
                                                                    ELSE carried[i]]
             /\ carried[1] = h[1]
             /\ \A i \in 2 .. m + 1 : carried[i] = Costlier(carried[i - 1], h[i])
<1> DEFINE step == [y \in Item \X (1 .. m) |-> Costlier(y[1], h[y[2] + 1])]
           eqn(v) == v = [i \in DOMAIN h |->
                            IF i = 1 THEN h[1] ELSE Costlier(v[i - 1], h[i])]
           c      == CHOOSE v : eqn(v)
<1>1. DOMAIN h = 1 .. m + 1 /\ \A i \in 1 .. m + 1 : h[i] \in Item
  OBVIOUS
<1>2. step \in [Item \X (1 .. m) -> Item]
  <2>1. \A k \in 1 .. m : h[k + 1] \in Item
    BY <1>1
  <2> QED
    BY <2>1 DEF Costlier
<1>3. PICK w : IsWalk(w, Item, h[1], m, step)
  <2>1. h[1] \in Item
    BY <1>1
  <2> HIDE DEF step
  <2> QED
    BY <1>2, <2>1, WalkExists
<1> DEFINE v == [i \in 1 .. m + 1 |-> w[i - 1]]
<1>4. v \in [1 .. m + 1 -> Item] /\ v[1] = h[1]
  BY <1>3 DEF IsWalk
<1>5. \A i \in 2 .. m + 1 : v[i] = Costlier(v[i - 1], h[i])
  <2> TAKE i \in 2 .. m + 1
  <2>1. i - 1 \in 1 .. m /\ i - 2 \in 0 .. m /\ i - 1 \in 1 .. m + 1
    OBVIOUS
  <2>2. w[i - 1] = step[<<w[i - 2], i - 1>>] /\ w[i - 2] \in Item
    <3>1. (i - 1) - 1 = i - 2
      OBVIOUS
    <3> HIDE DEF step
    <3> QED
      BY <1>3, <2>1, <3>1 DEF IsWalk
  <2>3. step[<<w[i - 2], i - 1>>] = Costlier(w[i - 2], h[i])
    <3>1. <<w[i - 2], i - 1>> \in Item \X (1 .. m) /\ (i - 1) + 1 = i
      BY <2>1, <2>2
    <3> QED
      BY <3>1
  <2> HIDE DEF step
  <2> QED
    BY <2>1, <2>2, <2>3
<1>6. eqn(v)
  <2>1. \A i \in 1 .. m + 1 :
            v[i] = IF i = 1 THEN h[1] ELSE Costlier(v[i - 1], h[i])
    <3> HIDE DEF v
    <3> TAKE i \in 1 .. m + 1
    <3>1. i = 1 \/ i \in 2 .. m + 1
      OBVIOUS
    <3> QED
      BY <1>4, <1>5, <3>1
  <2>2. v = [i \in 1 .. m + 1 |-> v[i]]
    OBVIOUS
  <2> HIDE DEF v
  <2> QED
    BY <1>1, <2>1, <2>2
<1>7. eqn(c)
  <2> HIDE DEF eqn
  <2> QED
    BY <1>6
<1>8. Reorder(h) = [i \in DOMAIN h |->
            IF i < Len(h) /\ c[i].cost > h[i + 1].cost THEN h[i + 1] ELSE c[i]]
  BY DEF Reorder
<1> HIDE DEF c
<1>9. /\ \A i \in 1 .. m + 1 : c[i] = IF i = 1 THEN h[1] ELSE Costlier(c[i - 1], h[i])
      /\ DOMAIN c = 1 .. m + 1 /\ c = [i \in 1 .. m + 1 |-> c[i]]
  BY <1>1, <1>7
<1>12. c[1] = h[1] /\ \A i \in 2 .. m + 1 : c[i] = Costlier(c[i - 1], h[i])
  <2>1. c[1] = h[1]
    <3>1. 1 \in 1 .. m + 1
      OBVIOUS
    <3>2. c[1] = IF 1 = 1 THEN h[1] ELSE Costlier(c[1 - 1], h[1])
      BY <1>9, <3>1
    <3> QED
      BY <3>2
  <2>2. ASSUME NEW i \in 2 .. m + 1 PROVE c[i] = Costlier(c[i - 1], h[i])
    <3>1. i \in 1 .. m + 1 /\ i # 1
      OBVIOUS
    <3> QED
      BY <1>9, <3>1
  <2> QED
    BY <2>1, <2>2
<1>10. \A i \in 0 .. m : c[i + 1] \in Item
  <2> DEFINE S == {i \in 0 .. m : c[i + 1] \in Item}
  <2>1. 0 \in S
    BY <1>1, <1>12
  <2>2. ASSUME NEW k \in 0 .. m - 1, k \in S PROVE k + 1 \in S
    <3>1. (k + 1) + 1 \in 2 .. m + 1 /\ (k + 1) + 1 - 1 = k + 1 /\ k + 1 \in 0 .. m
      OBVIOUS
    <3>2. c[(k + 1) + 1] = Costlier(c[k + 1], h[(k + 1) + 1])
      <4> DEFINE i == (k + 1) + 1
      <4>1. i \in 2 .. m + 1 /\ i - 1 = k + 1
        OBVIOUS
      <4>2. c[i] = Costlier(c[i - 1], h[i])
        <5> HIDE DEF i
        <5> QED
          BY <1>12, <4>1
      <4> QED
        BY <4>1, <4>2
    <3>3. h[(k + 1) + 1] \in Item /\ c[k + 1] \in Item
      BY <1>1, <2>2, <3>1
    <3> QED
      BY <3>1, <3>2, <3>3 DEF Costlier
  <2> HIDE DEF S
  <2>3. 0 .. m \subseteq S
    BY <2>1, <2>2, WalkInduction
  <2> QED
    BY <2>3 DEF S
<1>11. c \in [1 .. m + 1 -> Item]
  <2>1. \A i \in 1 .. m + 1 : c[i] \in Item
    <3> TAKE i \in 1 .. m + 1
    <3>1. i - 1 \in 0 .. m /\ (i - 1) + 1 = i
      OBVIOUS
    <3> QED
      BY <1>10, <3>1
  <2> QED
    BY <1>9, <2>1
<1>13. Len(h) = m + 1
  OBVIOUS
<1>14. Reorder(h) = [i \in 1 .. m + 1 |->
            IF i < m + 1 /\ c[i].cost > h[i + 1].cost THEN h[i + 1] ELSE c[i]]
  BY <1>1, <1>8, <1>13
<1> QED
  BY <1>11, <1>12, <1>14

\* What such a list holds.
LEMMA RangeFront ==
    ASSUME NEW S, NEW x \in S, NEW h \in Seq(S)
    PROVE  Range(<<x>> \o h) = {x} \cup Range(h)
<1> DEFINE p == <<x>> \o h
<1>1. PICK n \in Nat : n = Len(h)
  OBVIOUS
<1>2. /\ DOMAIN h = 1 .. n /\ DOMAIN p = 1 .. n + 1 /\ p[1] = x
      /\ \A i \in 2 .. n + 1 : i - 1 \in 1 .. n /\ p[i] = h[i - 1]
  BY <1>1, InFront
<1> HIDE DEF p
<1>3. ASSUME NEW i \in 1 .. n + 1 PROVE p[i] \in {x} \cup Range(h)
  <2>1. i = 1 \/ i \in 2 .. n + 1
    OBVIOUS
  <2> QED
    BY <1>2, <2>1 DEF Range
<1>4. ASSUME NEW i \in 1 .. n PROVE h[i] \in Range(p)
  <2>1. i + 1 \in 2 .. n + 1 /\ i + 1 \in 1 .. n + 1 /\ (i + 1) - 1 = i
    OBVIOUS
  <2>2. p[i + 1] = h[i]
    BY <1>2, <2>1
  <2> QED
    BY <1>2, <2>1, <2>2 DEF Range
<1>5. x \in Range(p)
  <2>1. 1 \in 1 .. n + 1
    OBVIOUS
  <2> QED
    BY <1>2, <2>1 DEF Range
<1>6. Range(p) \subseteq {x} \cup Range(h)
  BY <1>2, <1>3 DEF Range
<1>7. {x} \cup Range(h) \subseteq Range(p)
  BY <1>2, <1>4, <1>5 DEF Range
<1> QED
  BY <1>6, <1>7 DEF p

\* The pass loses nothing.
LEMMA RangeReorder ==
    ASSUME NEW p \in Seq(Item), p # <<>>
    PROVE  Range(Reorder(p)) = Range(p)
<1> DEFINE r == Reorder(p)
<1>1. PICK n \in Nat : Len(p) = n + 1
  <2>1. Len(p) \in Nat /\ Len(p) # 0
    OBVIOUS
  <2>2. Len(p) - 1 \in Nat /\ Len(p) = (Len(p) - 1) + 1
    BY <2>1
  <2> QED
    BY <2>2
<1>2. PICK c \in [1 .. n + 1 -> Item] :
        /\ r = [i \in 1 .. n + 1 |->
                IF i < n + 1 /\ c[i].cost > p[i + 1].cost THEN p[i + 1] ELSE c[i]]
        /\ c[1] = p[1]
        /\ \A i \in 2 .. n + 1 : c[i] = Costlier(c[i - 1], p[i])
  BY <1>1, Carried
<1>3. DOMAIN p = 1 .. n + 1
  BY <1>1
<1> HIDE DEF r
<1>4. DOMAIN r = 1 .. n + 1 /\ r[n + 1] = c[n + 1]
  BY <1>2
<1>5. \A i \in 1 .. n : {r[i], c[i + 1]} = {c[i], p[i + 1]}
  <2> TAKE i \in 1 .. n
  <2>1. i \in 1 .. n + 1 /\ i < n + 1 /\ i + 1 \in 2 .. n + 1 /\ (i + 1) - 1 = i
    OBVIOUS
  <2>2. c[i + 1] = Costlier(c[i], p[i + 1])
    BY <1>2, <2>1
  <2>3. r[i] = IF c[i].cost > p[i + 1].cost THEN p[i + 1] ELSE c[i]
    BY <1>2, <2>1
  <2> QED
    BY <2>2, <2>3 DEF Costlier
<1> DEFINE upto(f, i) == {f[j] : j \in 1 .. i}
           S == {i \in 0 .. n : upto(p, i + 1) = upto(r, i) \cup {c[i + 1]}}
<1>6. \A f : \A i \in 0 .. n : upto(f, i + 1) = upto(f, i) \cup {f[i + 1]}
  <2> TAKE f
  <2> TAKE i \in 0 .. n
  <2>1. 1 .. i + 1 = (1 .. i) \cup {i + 1}
    OBVIOUS
  <2> QED
    BY <2>1
<1>7. 0 \in S
  <2>1. \A f : upto(f, 0) = {}
    OBVIOUS
  <2>2. upto(p, 0 + 1) = upto(p, 0) \cup {p[0 + 1]}
    <3>1. 0 \in 0 .. n
      OBVIOUS
    <3> HIDE DEF upto
    <3> QED
      BY <1>6, <3>1
  <2>3. p[0 + 1] = c[0 + 1] /\ 0 \in 0 .. n
    BY <1>2
  <2>4. upto(p, 0 + 1) = {c[0 + 1]} /\ upto(r, 0) = {}
    BY <2>1, <2>2, <2>3
  <2> HIDE DEF upto
  <2> QED
    BY <2>3, <2>4
<1>8. ASSUME NEW i \in 0 .. n - 1, i \in S PROVE i + 1 \in S
  <2>1. i + 1 \in 0 .. n /\ i \in 0 .. n /\ i + 1 \in 1 .. n
    OBVIOUS
  <2>2. upto(p, (i + 1) + 1) = upto(p, i + 1) \cup {p[(i + 1) + 1]}
    BY <1>6, <2>1
  <2>3. upto(r, i + 1) = upto(r, i) \cup {r[i + 1]}
    BY <1>6, <2>1
  <2>4. {r[i + 1], c[(i + 1) + 1]} = {c[i + 1], p[(i + 1) + 1]}
    BY <1>5, <2>1
  <2>5. upto(p, i + 1) = upto(r, i) \cup {c[i + 1]}
    BY <1>8
  <2> HIDE DEF upto
  <2>6. upto(p, (i + 1) + 1) = upto(r, i + 1) \cup {c[(i + 1) + 1]}
    BY <2>2, <2>3, <2>4, <2>5
  <2> QED
    BY <2>1, <2>6
<1>9. upto(p, n + 1) = upto(r, n + 1)
  <2>1. n \in S
    <3> HIDE DEF S
    <3>1. 0 .. n \subseteq S
      BY <1>7, <1>8, WalkInduction
    <3> QED
      BY <3>1
  <2>2. upto(r, n + 1) = upto(r, n) \cup {r[n + 1]}
    BY <1>6
  <2> HIDE DEF upto
  <2> QED
    BY <1>4, <2>1, <2>2
<1> QED
  BY <1>3, <1>4, <1>9 DEF Range, r

\* One pass sorts a heap that one path was put in front of.
LEMMA ReorderHeap ==
    ASSUME NEW h \in Heaps, NEW x \in Item, x.cost >= 1
    PROVE  Reorder(<<x>> \o h) \in Heaps
<1> DEFINE p == <<x>> \o h
           r == Reorder(p)
<1>1. PICK n \in Nat : n = Len(h)
  BY HeapType
<1>2. /\ p \in Seq(Item) /\ Len(p) = n + 1 /\ p[1] = x
      /\ \A i \in 1 .. n + 1 : p[i] \in Item
      /\ \A i \in 2 .. n + 1 : i - 1 \in 1 .. n /\ p[i] = h[i - 1]
  <2>1. h \in Seq(Item)
    BY HeapType
  <2>2. /\ p \in Seq(Item) /\ Len(p) = n + 1 /\ p[1] = x
        /\ DOMAIN p = 1 .. n + 1
        /\ \A i \in 2 .. n + 1 : i - 1 \in 1 .. n /\ p[i] = h[i - 1]
    BY <1>1, <2>1, InFront
  <2> HIDE DEF p
  <2> QED
    BY <2>2
<1> HIDE DEF p
<1>3. PICK c \in [1 .. n + 1 -> Item] :
        /\ r = [i \in 1 .. n + 1 |->
                IF i < n + 1 /\ c[i].cost > p[i + 1].cost THEN p[i + 1] ELSE c[i]]
        /\ c[1] = p[1]
        /\ \A i \in 2 .. n + 1 : c[i] = Costlier(c[i - 1], p[i])
  BY <1>2, Carried
<1> HIDE DEF r
<1>4. \A i \in 1 .. n + 1 : /\ p[i].cost \in Nat /\ p[i].cost >= 1
                            /\ c[i].cost \in Nat /\ c[i].cost >= p[i].cost
  <2> TAKE i \in 1 .. n + 1
  <2>1. p[i].cost \in Nat /\ c[i].cost \in Nat
    BY <1>2 DEF Item
  <2>2. p[i].cost >= 1
    <3>1. i = 1 \/ i \in 2 .. n + 1
      OBVIOUS
    <3>2. \A j \in 1 .. n : h[j].cost >= 1
      BY <1>1, HeapType
    <3> QED
      BY <1>2, <3>1, <3>2
  <2>3. CASE i = 1
    BY <1>3, <2>1, <2>2, <2>3
  <2>4. CASE i # 1
    <3>1. i \in 2 .. n + 1 /\ i - 1 \in 1 .. n + 1
      BY <2>4
    <3>2. c[i - 1].cost \in Nat
      BY <3>1 DEF Item
    <3>3. c[i] = Costlier(c[i - 1], p[i])
      BY <1>3, <3>1
    <3> QED
      BY <2>1, <2>2, <3>2, <3>3 DEF Costlier
  <2> QED
    BY <2>3, <2>4
<1>5. \A i, j \in 2 .. n + 1 : i <= j => p[i].cost <= p[j].cost
  <2> TAKE i, j \in 2 .. n + 1
  <2>1. \A k, l \in 1 .. n : k < l => h[k].cost <= h[l].cost
    BY <1>1, HeapType
  <2>2. CASE i = j
    BY <1>4, <2>2
  <2>3. CASE i < j
    <3>1. i - 1 < j - 1 /\ i - 1 \in 1 .. n /\ j - 1 \in 1 .. n
      BY <2>3
    <3> QED
      BY <1>2, <2>1, <3>1
  <2> QED
    BY <2>2, <2>3
<1>6. /\ r \in Seq(Item) /\ DOMAIN r = 1 .. n + 1
      /\ \A i \in 1 .. n + 1 : r[i].cost \in Nat /\ r[i].cost >= 1
  <2>1. \A i \in 1 .. n + 1 : r[i] \in Item /\ r[i].cost >= 1
    <3> TAKE i \in 1 .. n + 1
    <3>1. c[i] \in Item /\ c[i].cost \in Nat /\ c[i].cost >= 1
      BY <1>4
    <3>2. i < n + 1 => p[i + 1] \in Item /\ p[i + 1].cost >= 1
      BY <1>2, <1>4
    <3> QED
      BY <1>3, <3>1, <3>2
  <2>2. r \in [1 .. n + 1 -> Item]
    BY <1>3, <2>1
  <2>3. r \in Seq(Item) /\ DOMAIN r = 1 .. n + 1
    BY <2>2
  <2>4. \A i \in 1 .. n + 1 : r[i].cost \in Nat
    BY <2>1 DEF Item
  <2> QED
    BY <2>1, <2>3, <2>4
<1>7. \A i, j \in 1 .. n + 1 : i < j => r[i].cost <= r[j].cost
  <2> SUFFICES ASSUME NEW i \in 1 .. n + 1, NEW j \in 1 .. n + 1, i < j
               PROVE  r[i].cost <= r[j].cost
    OBVIOUS
  <2>1. i + 1 \in 2 .. n + 1 /\ i + 1 \in 1 .. n + 1 /\ j \in 2 .. n + 1 /\ i + 1 <= j /\ i < n + 1
    OBVIOUS
  <2>2. r[i] = IF c[i].cost > p[i + 1].cost THEN p[i + 1] ELSE c[i]
    BY <1>3, <2>1
  <2>3. r[i].cost <= p[i + 1].cost
    <3>1. c[i].cost \in Nat /\ p[i + 1].cost \in Nat
      BY <1>4, <2>1
    <3>2. CASE c[i].cost > p[i + 1].cost
      <4>1. r[i] = p[i + 1]
        BY <2>2, <3>2
      <4> QED
        BY <3>1, <4>1
    <3>3. CASE ~(c[i].cost > p[i + 1].cost)
      <4>1. r[i] = c[i]
        BY <2>2, <3>3
      <4> QED
        BY <3>1, <3>3, <4>1
    <3> QED
      BY <3>2, <3>3
  <2>4. p[i + 1].cost <= p[j].cost
    BY <1>5, <2>1
  <2>5. p[j].cost <= r[j].cost
    <3>1. CASE j < n + 1 /\ c[j].cost > p[j + 1].cost
      <4>1. r[j] = p[j + 1] /\ j + 1 \in 2 .. n + 1
        BY <1>3, <3>1
      <4> QED
        BY <1>5, <2>1, <4>1
    <3>2. CASE ~(j < n + 1 /\ c[j].cost > p[j + 1].cost)
      <4>1. r[j] = c[j]
        BY <1>3, <3>2
      <4> QED
        BY <1>4, <4>1
    <3> QED
      BY <3>1, <3>2
  <2>6. /\ r[i].cost \in Nat /\ r[j].cost \in Nat
        /\ p[i + 1].cost \in Nat /\ p[j].cost \in Nat
    BY <1>4, <1>6, <2>1
  <2>7. \A a, b, y, z \in Nat : a <= b /\ b <= y /\ y <= z => a <= z
    OBVIOUS
  <2> QED
    BY Zenon, <2>3, <2>4, <2>5, <2>6, <2>7
<1> QED
  BY <1>6, <1>7 DEF Heaps, Sorted, r, p

\* Every search starts from the heap it found, with the paths of length 1 in
\* front: at least one if there is any.
LEMMA FirstHopsHeap ==
    ASSUME NEW h \in Heaps, nid \in [Nets -> Routers \cup {None}]
    PROVE  /\ WithFirstHops(h) \in Heaps
           /\ Range(WithFirstHops(h)) = Range(h) \cup Starts
           /\ Hop => \E i \in DOMAIN WithFirstHops(h) : WithFirstHops(h)[i].nbr # None
<1> DEFINE n == Len(Ifaces)
           next(x, k) == IF IsFirstHop(Ifaces[k]) THEN <<FirstHop(Ifaces[k])>> \o x ELSE x
           step   == [y \in Heaps \X (1 .. n) |-> next(y[1], y[2])]
           eqn(v) == v = [k \in 0 .. n |-> IF k = 0 THEN h ELSE
                            IF IsFirstHop(Ifaces[k]) THEN <<FirstHop(Ifaces[k])>> \o v[k - 1]
                                                     ELSE v[k - 1]]
           c      == CHOOSE v : eqn(v)
<1>1. n \in Nat /\ \A k \in 1 .. n : Ifaces[k] \in Nets
  OBVIOUS
<1>2. \A k \in 1 .. n : FirstHop(Ifaces[k]) \in Item /\ FirstHop(Ifaces[k]).cost = 1
  BY <1>1 DEF FirstHop, Item
<1>3. ASSUME NEW x \in Heaps, NEW k \in 1 .. n PROVE next(x, k) \in Heaps
  BY <1>2, PushFirst
<1>4. step \in [Heaps \X (1 .. n) -> Heaps]
  <2> HIDE DEF next, n
  <2> QED
    BY <1>3
<1>5. PICK w : IsWalk(w, Heaps, h, n, step)
  <2> HIDE DEF n, step
  <2> QED
    BY <1>1, <1>4, WalkExists
<1>6. \A k \in 1 .. n : w[k - 1] \in Heaps /\ w[k] = next(w[k - 1], k)
  <2> SUFFICES ASSUME NEW k \in 1 .. n
               PROVE  w[k - 1] \in Heaps /\ w[k] = next(w[k - 1], k)
    OBVIOUS
  <2> HIDE DEF next
  <2>1. k - 1 \in 0 .. n
    BY <1>1
  <2>2. w[k - 1] \in Heaps /\ w[k] = step[<<w[k - 1], k>>]
    <3> HIDE DEF n, step
    <3> QED
      BY <1>5, <2>1 DEF IsWalk
  <2>3. <<w[k - 1], k>> \in Heaps \X (1 .. n)
    BY <2>2
  <2> HIDE DEF n
  <2> QED
    BY <2>2, <2>3
<1>7. eqn(w)
  <2>1. w = [k \in 0 .. n |-> IF k = 0 THEN h ELSE next(w[k - 1], k)]
    <3> HIDE DEF next, n, step
    <3> QED
      BY <1>5, <1>6 DEF IsWalk
  <2> HIDE DEF n
  <2> QED
    BY <2>1
<1>8. eqn(c)
  <2> HIDE DEF eqn
  <2> QED
    BY <1>7
<1>9. WithFirstHops(h) = c[n]
  BY DEF WithFirstHops
<1> HIDE DEF c
<1>10. c[0] = h /\ \A k \in 1 .. n : c[k] = next(c[k - 1], k)
  <2>1. c = [k \in 0 .. n |-> IF k = 0 THEN h ELSE next(c[k - 1], k)]
    BY <1>8
  <2> HIDE DEF next
  <2>2. c[0] = h
    <3>1. 0 \in 0 .. n
      BY <1>1
    <3> HIDE DEF n
    <3> QED
      BY <2>1, <3>1
  <2>3. ASSUME NEW k \in 1 .. n PROVE c[k] = next(c[k - 1], k)
    <3>1. k \in 0 .. n /\ k # 0
      BY <1>1
    <3> HIDE DEF n
    <3> QED
      BY <2>1, <3>1
  <2> QED
    BY <2>2, <2>3
<1> DEFINE some(k) == {FirstHop(Ifaces[j]) : j \in {l \in 1 .. k : IsFirstHop(Ifaces[l])}}
           S == {k \in 0 .. n : c[k] \in Heaps /\ Range(c[k]) = Range(h) \cup some(k)}
<1>11. 0 \in S
  <2>1. some(0) = {} /\ 0 \in 0 .. n
    BY <1>1
  <2> HIDE DEF some, n
  <2> QED
    BY <1>10, <2>1
<1>12. ASSUME NEW k \in 0 .. n - 1, k \in S PROVE k + 1 \in S
  <2> DEFINE x == FirstHop(Ifaces[k + 1])
  <2>1. k + 1 \in 1 .. n /\ k + 1 \in 0 .. n /\ (k + 1) - 1 = k
    BY <1>1
  <2>2. c[k + 1] = next(c[k], k + 1)
    <3> HIDE DEF next, n
    <3> QED
      BY <1>10, <2>1
  <2>3. c[k] \in Heaps /\ Range(c[k]) = Range(h) \cup some(k)
    BY <1>12
  <2>4. c[k + 1] \in Heaps
    <3> HIDE DEF next, n
    <3> QED
      BY <1>3, <2>1, <2>2, <2>3
  <2>5. 1 .. k + 1 = (1 .. k) \cup {k + 1}
    OBVIOUS
  <2>6. CASE IsFirstHop(Ifaces[k + 1])
    <3>1. x \in Item /\ c[k] \in Seq(Item)
      BY <1>2, <2>1, <2>3, HeapType
    <3>2. c[k + 1] = <<x>> \o c[k]
      BY <2>2, <2>6
    <3>3. some(k + 1) = some(k) \cup {x}
      BY <2>5, <2>6
    <3> HIDE DEF x, some, n, next
    <3>4. Range(c[k + 1]) = {x} \cup Range(c[k])
      BY <3>1, <3>2, RangeFront
    <3> QED
      BY <2>1, <2>3, <2>4, <3>3, <3>4
  <2>7. CASE ~IsFirstHop(Ifaces[k + 1])
    <3>1. c[k + 1] = c[k]
      BY <2>2, <2>7
    <3>2. some(k + 1) = some(k)
      BY <2>5, <2>7
    <3> HIDE DEF some, n, next
    <3> QED
      BY <2>1, <2>3, <2>4, <3>1, <3>2
  <2> QED
    BY <2>6, <2>7
<1>13. n \in S
  <2> HIDE DEF S, n
  <2>1. 0 .. n \subseteq S
    BY <1>1, <1>11, <1>12, WalkInduction
  <2> QED
    BY <1>1, <2>1
<1>14. some(n) = Starts
  BY DEF Starts, Own, Range
<1>15. Hop => \E x \in Starts : x.nbr # None
  <2> SUFFICES ASSUME NEW g \in Own, IsFirstHop(g) PROVE \E x \in Starts : x.nbr # None
    BY DEF Hop
  <2>1. FirstHop(g) \in Starts
    BY DEF Starts
  <2>2. FirstHop(g).nbr # None
    BY DEF FirstHop, IsFirstHop
  <2> QED
    BY <2>1, <2>2
<1> HIDE DEF some, n
<1>16. c[n] \in Heaps /\ Range(c[n]) = Range(h) \cup Starts
  BY <1>13, <1>14
<1>17. Hop => \E i \in DOMAIN c[n] : c[n][i].nbr # None
  BY <1>15, <1>16 DEF Range
<1> QED
  BY <1>9, <1>16, <1>17

\* The same of the paths that extend one.
LEMMA ExpandedHeap ==
    ASSUME NEW h \in Heaps, NEW item \in Item, topology \in Seq(Entry)
    PROVE  /\ Expanded(h, item) \in Heaps
           /\ Range(Expanded(h, item)) = Range(h) \cup Follow(item)
<1> DEFINE n == Len(topology)
           next(x, k) == IF Extends(topology[k], item)
                         THEN Reorder(<<Extension(topology[k], item)>> \o x) ELSE x
           step   == [y \in Heaps \X (1 .. n) |-> next(y[1], y[2])]
           eqn(v) == v = [k \in 0 .. n |-> IF k = 0 THEN h ELSE
                            IF Extends(topology[k], item)
                            THEN Reorder(<<Extension(topology[k], item)>> \o v[k - 1])
                            ELSE v[k - 1]]
           c      == CHOOSE v : eqn(v)
<1>1. n \in Nat /\ \A k \in 1 .. n : topology[k] \in Entry
  OBVIOUS
<1>2. \A k \in 1 .. n : /\ Extension(topology[k], item) \in Item
                        /\ Extension(topology[k], item).cost >= 1
  BY <1>1 DEF Extension, Item, Entry
<1>3. ASSUME NEW x \in Heaps, NEW k \in 1 .. n PROVE next(x, k) \in Heaps
  BY <1>2, ReorderHeap
<1>4. step \in [Heaps \X (1 .. n) -> Heaps]
  <2> HIDE DEF next, n
  <2> QED
    BY <1>3
<1>5. PICK w : IsWalk(w, Heaps, h, n, step)
  <2> HIDE DEF n, step
  <2> QED
    BY <1>1, <1>4, WalkExists
<1>6. \A k \in 1 .. n : w[k] = next(w[k - 1], k)
  <2> SUFFICES ASSUME NEW k \in 1 .. n PROVE w[k] = next(w[k - 1], k)
    OBVIOUS
  <2> HIDE DEF next
  <2>1. k - 1 \in 0 .. n
    BY <1>1
  <2>2. w[k - 1] \in Heaps /\ w[k] = step[<<w[k - 1], k>>]
    <3> HIDE DEF n, step
    <3> QED
      BY <1>5, <2>1 DEF IsWalk
  <2>3. <<w[k - 1], k>> \in Heaps \X (1 .. n)
    BY <2>2
  <2> HIDE DEF n
  <2> QED
    BY <2>2, <2>3
<1>7. eqn(w)
  <2>1. w = [k \in 0 .. n |-> IF k = 0 THEN h ELSE next(w[k - 1], k)]
    <3> HIDE DEF next, n, step
    <3> QED
      BY <1>5, <1>6 DEF IsWalk
  <2> HIDE DEF n
  <2> QED
    BY <2>1
<1>8. eqn(c)
  <2> HIDE DEF eqn
  <2> QED
    BY <1>7
<1>9. Expanded(h, item) = c[n]
  BY DEF Expanded
<1> HIDE DEF c
<1>10. c[0] = h /\ \A k \in 1 .. n : c[k] = next(c[k - 1], k)
  <2>1. c = [k \in 0 .. n |-> IF k = 0 THEN h ELSE next(c[k - 1], k)]
    BY <1>8
  <2> HIDE DEF next
  <2>2. c[0] = h
    <3>1. 0 \in 0 .. n
      BY <1>1
    <3> HIDE DEF n
    <3> QED
      BY <2>1, <3>1
  <2>3. ASSUME NEW k \in 1 .. n PROVE c[k] = next(c[k - 1], k)
    <3>1. k \in 0 .. n /\ k # 0
      BY <1>1
    <3> HIDE DEF n
    <3> QED
      BY <2>1, <3>1
  <2> QED
    BY <2>2, <2>3
<1> DEFINE some(k) == {Extension(topology[j], item) :
                        j \in {l \in 1 .. k : Extends(topology[l], item)}}
           S == {k \in 0 .. n : c[k] \in Heaps /\ Range(c[k]) = Range(h) \cup some(k)}
<1>11. 0 \in S
  <2>1. some(0) = {} /\ 0 \in 0 .. n
    BY <1>1
  <2> HIDE DEF some, n
  <2> QED
    BY <1>10, <2>1
<1>12. ASSUME NEW k \in 0 .. n - 1, k \in S PROVE k + 1 \in S
  <2> DEFINE x == Extension(topology[k + 1], item)
  <2>1. k + 1 \in 1 .. n /\ k + 1 \in 0 .. n /\ (k + 1) - 1 = k
    BY <1>1
  <2>2. c[k + 1] = next(c[k], k + 1)
    <3> HIDE DEF next, n
    <3> QED
      BY <1>10, <2>1
  <2>3. c[k] \in Heaps /\ Range(c[k]) = Range(h) \cup some(k)
    BY <1>12
  <2>4. c[k + 1] \in Heaps
    <3> HIDE DEF next, n
    <3> QED
      BY <1>3, <2>1, <2>2, <2>3
  <2>5. 1 .. k + 1 = (1 .. k) \cup {k + 1}
    OBVIOUS
  <2>6. CASE Extends(topology[k + 1], item)
    <3>1. x \in Item /\ c[k] \in Seq(Item)
      BY <1>2, <2>1, <2>3, HeapType
    <3>2. c[k + 1] = Reorder(<<x>> \o c[k])
      BY <2>2, <2>6
    <3>3. some(k + 1) = some(k) \cup {x}
      BY <2>5, <2>6
    <3> HIDE DEF x, some, n, next
    <3>4. Range(<<x>> \o c[k]) = {x} \cup Range(c[k])
      BY <3>1, RangeFront
    <3>5. <<x>> \o c[k] \in Seq(Item) /\ <<x>> \o c[k] # <<>>
      <4>1. Len(<<x>> \o c[k]) = Len(c[k]) + 1 /\ Len(c[k]) \in Nat
        BY <3>1, InFront
      <4> QED
        BY <3>1, <4>1, InFront
    <3>6. Range(c[k + 1]) = {x} \cup Range(c[k])
      BY <3>2, <3>4, <3>5, RangeReorder
    <3> QED
      BY <2>1, <2>3, <2>4, <3>3, <3>6
  <2>7. CASE ~Extends(topology[k + 1], item)
    <3>1. c[k + 1] = c[k]
      BY <2>2, <2>7
    <3>2. some(k + 1) = some(k)
      BY <2>5, <2>7
    <3> HIDE DEF some, n, next
    <3> QED
      BY <2>1, <2>3, <2>4, <3>1, <3>2
  <2> QED
    BY <2>6, <2>7
<1>13. n \in S
  <2> HIDE DEF S, n
  <2>1. 0 .. n \subseteq S
    BY <1>1, <1>11, <1>12, WalkInduction
  <2> QED
    BY <1>1, <2>1
<1>14. some(n) = Follow(item)
  <2>1. DOMAIN topology = 1 .. n
    BY <1>1
  <2>2. ASSUME NEW e \in Range(topology), Extends(e, item)
        PROVE  Extension(e, item) \in some(n)
    <3>1. PICK j \in 1 .. n : e = topology[j]
      BY <2>1 DEF Range
    <3> HIDE DEF n
    <3> QED
      BY <2>2, <3>1
  <2>3. ASSUME NEW j \in 1 .. n, Extends(topology[j], item)
        PROVE  Extension(topology[j], item) \in Follow(item)
    <3>1. topology[j] \in Range(topology)
      BY <2>1 DEF Range
    <3> QED
      BY <2>3, <3>1 DEF Follow
  <2> HIDE DEF n
  <2> QED
    BY <2>2, <2>3 DEF Follow
<1> HIDE DEF some, n
<1> QED
  BY <1>9, <1>13, <1>14

\* The definition of Near is a recursion that ends.
LEMMA NearSteps ==
    ASSUME topology \in Seq(Entry), nid \in [Nets -> Routers \cup {None}]
    PROVE  /\ Cardinality(Routers) \in Nat
           /\ DOMAIN Near = 0 .. Cardinality(Routers)
           /\ Near[0] = {<<i, nid[i]>> : i \in {j \in Own : IsFirstHop(j)}}
           /\ \A k \in 1 .. Cardinality(Routers) :
                Near[k] = Near[k - 1] \cup
                    {<<p[1][1], p[2].nbr>> :
                        p \in {q \in Near[k - 1] \X Range(topology) : q[2].router = q[1][2]}}
           /\ \A k \in 0 .. Cardinality(Routers) :
                Near[k] \subseteq Nets \X (Routers \cup {Self, None})
<1> DEFINE n == Cardinality(Routers)
           X == SUBSET (Nets \X (Routers \cup {Self, None}))
           first == {<<i, nid[i]>> : i \in {j \in Own : IsFirstHop(j)}}
           next(x) == x \cup {<<p[1][1], p[2].nbr>> :
                        p \in {q \in x \X Range(topology) : q[2].router = q[1][2]}}
           step == [y \in X \X (1 .. n) |-> next(y[1])]
           eqn(v) == v = [k \in 0 .. n |-> IF k = 0 THEN first ELSE
                            v[k - 1] \cup {<<p[1][1], p[2].nbr>> :
                        p \in {q \in v[k - 1] \X Range(topology) : q[2].router = q[1][2]}}]
<1>1. n \in Nat
  BY FS_CardinalityType
<1>2. \A e \in Range(topology) : e \in Entry
  BY DEF Range
<1>3. ASSUME NEW x \in X PROVE next(x) \in X
  <2> SUFFICES ASSUME NEW q \in x \X Range(topology)
               PROVE  <<q[1][1], q[2].nbr>> \in Nets \X (Routers \cup {Self, None})
    OBVIOUS
  <2>1. q[1] \in Nets \X (Routers \cup {Self, None}) /\ q[2] \in Entry
    BY <1>2
  <2> QED
    BY <2>1 DEF Entry
<1>4. first \in X
  BY DEF Own, Range
<1>5. step \in [X \X (1 .. n) -> X]
  <2> HIDE DEF next, n, X
  <2> QED
    BY <1>3
<1>6. PICK w : IsWalk(w, X, first, n, step)
  <2> HIDE DEF n, step, X, first
  <2> QED
    BY <1>1, <1>4, <1>5, WalkExists
<1>7. \A k \in 1 .. n : w[k] = next(w[k - 1])
  <2> SUFFICES ASSUME NEW k \in 1 .. n PROVE w[k] = next(w[k - 1])
    OBVIOUS
  <2> HIDE DEF next
  <2>1. k - 1 \in 0 .. n
    BY <1>1
  <2>2. w[k - 1] \in X /\ w[k] = step[<<w[k - 1], k>>]
    <3> HIDE DEF n, step, X, first
    <3> QED
      BY <1>6, <2>1 DEF IsWalk
  <2>3. <<w[k - 1], k>> \in X \X (1 .. n)
    <3> HIDE DEF X
    <3> QED
      BY <2>2
  <2> HIDE DEF n, X
  <2> QED
    BY <2>2, <2>3
<1>8. eqn(w)
  <2>1. w = [k \in 0 .. n |-> IF k = 0 THEN first ELSE next(w[k - 1])]
    <3> HIDE DEF next, n, step, X, first
    <3>1. w \in [0 .. n -> X] /\ w[0] = first
      BY <1>6 DEF IsWalk
    <3>2. \A k \in 0 .. n : w[k] = IF k = 0 THEN first ELSE next(w[k - 1])
      <4> TAKE k \in 0 .. n
      <4>1. k = 0 \/ k \in 1 .. n
        BY <1>1
      <4>2. k \in 1 .. n => w[k] = next(w[k - 1])
        BY <1>7
      <4> QED
        BY <3>1, <4>1, <4>2
    <3> QED
      BY <3>1, <3>2
  <2> HIDE DEF n, first
  <2> QED
    BY <2>1
<1>9. Near = CHOOSE v : eqn(v)
  BY DEF Near
<1>10. eqn(Near)
  <2> HIDE DEF eqn
  <2> QED
    BY <1>8, <1>9
<1>11. Near = [k \in 0 .. n |-> IF k = 0 THEN first ELSE next(Near[k - 1])]
  BY <1>10
<1>12. DOMAIN Near = 0 .. n /\ Near[0] = first
  <2>1. 0 \in 0 .. n
    BY <1>1
  <2> HIDE DEF first, next, n
  <2> QED
    BY <1>11, <2>1
<1>13. ASSUME NEW k \in 1 .. n PROVE Near[k] = next(Near[k - 1])
  <2>1. k \in 0 .. n /\ k # 0
    BY <1>1
  <2> HIDE DEF first, next, n
  <2> QED
    BY <1>11, <2>1
<1> DEFINE S == {k \in 0 .. n : Near[k] \in X}
<1>14. 0 \in S
  BY <1>1, <1>4, <1>12
<1>15. ASSUME NEW k \in 0 .. n - 1, k \in S PROVE k + 1 \in S
  <2>1. k + 1 \in 1 .. n /\ k + 1 \in 0 .. n /\ (k + 1) - 1 = k
    BY <1>1
  <2> HIDE DEF next, n, X
  <2>2. Near[k + 1] = next(Near[k])
    BY <1>13, <2>1
  <2> QED
    BY <1>3, <1>15, <2>1, <2>2
<1>16. \A k \in 0 .. n : Near[k] \in X
  <2> HIDE DEF S, n
  <2>1. 0 .. n \subseteq S
    BY <1>1, <1>14, <1>15, WalkInduction
  <2> QED
    BY <2>1 DEF S
<1> QED
  BY <1>1, <1>12, <1>13, <1>16

\* A network that can be reached is reached over an interface with a neighbour.
LEMMA ReachableHop ==
    ASSUME topology \in Seq(Entry), nid \in [Nets -> Routers \cup {None}],
           NEW m, Reachable(m)
    PROVE  Hop
<1> SUFFICES ASSUME ~Hop PROVE FALSE
  OBVIOUS
<1>1. PICK n \in Nat : n = Cardinality(Routers)
  BY NearSteps
<1> DEFINE S == {k \in 0 .. n : Near[k] = {}}
<1>2. 0 \in S
  BY <1>1, NearSteps DEF Hop
<1>3. ASSUME NEW k \in 0 .. n - 1, k \in S PROVE k + 1 \in S
  <2>1. k + 1 \in 1 .. n /\ k + 1 \in 0 .. n /\ (k + 1) - 1 = k
    OBVIOUS
  <2>2. Near[k + 1] = Near[k] \cup {<<p[1][1], p[2].nbr>> :
            p \in {q \in Near[k] \X Range(topology) : q[2].router = q[1][2]}}
    BY <1>1, <2>1, NearSteps
  <2> QED
    BY <1>3, <2>1, <2>2
<1>4. Near[n] = {}
  <2> HIDE DEF S
  <2>1. 0 .. n \subseteq S
    BY <1>2, <1>3, WalkInduction
  <2>2. n \in S
    BY <2>1
  <2> QED
    BY <2>2 DEF S
<1> QED
  BY <1>1, <1>4 DEF Reachable, Reached

-----------------------------------------------------------------------------
(* Paths.  A chain is a path with all that it continues.                   *)

Chains(m) == {q \in [1 .. m -> Item] :
                q[1] \in Starts /\ \A i \in 1 .. m - 1 : q[i + 1] \in Follow(q[i])}

\* What the tables hold is what the routers are connected to.
Learnt ==
    /\ \A e \in Range(topology) : \E a \in Range(Lsas[e.router]) : e.net = a.net /\ e.nbr = a.nbr
    /\ \A n \in Nets : nid[n] \in {None, Peer[n]}

Tables == topology \in Seq(Entry) /\ nid \in [Nets -> Routers \cup {None}]

LEMMA EntryType ==
    ASSUME Tables, NEW e \in Range(topology)
    PROVE  e \in Entry /\ e.router \in Routers /\ e.net \in Nets
           /\ e.nbr \in Routers \cup {Self, None}
<1>1. e \in Entry
  BY DEF Tables, Range
<1> QED
  BY <1>1 DEF Entry

LEMMA StartPath ==
    ASSUME Tables, NEW x \in Starts
    PROVE  /\ x \in Item /\ x.cost = 1 /\ x.net = x.first
           /\ x.first \in Own /\ IsFirstHop(x.first)
           /\ x.nbr = nid[x.first] /\ x.nbr \in Routers
<1>1. PICK f \in Own : IsFirstHop(f) /\ x = FirstHop(f)
  BY DEF Starts
<1>2. f \in Nets /\ nid[f] \in Routers
  BY <1>1 DEF Own, Range, Tables, IsFirstHop
<1> QED
  BY <1>1, <1>2 DEF FirstHop, Item

LEMMA FollowPath ==
    ASSUME Tables, NEW x \in Item, NEW y \in Follow(x)
    PROVE  /\ y \in Item /\ y.cost = x.cost + 1 /\ y.first = x.first
           /\ x.nbr \in Routers
           /\ \E e \in Range(topology) :
                e.router = x.nbr /\ y.net = e.net /\ y.nbr = e.nbr
<1>1. PICK e \in Range(topology) : Extends(e, x) /\ y = Extension(e, x)
  BY DEF Follow
<1>2. e.router \in Routers /\ e.net \in Nets /\ e.nbr \in Routers \cup {Self, None}
  BY EntryType
<1> QED
  BY <1>1, <1>2 DEF Extends, Extension, Item

LEMMA ChainGrows ==
    ASSUME Tables, NEW m \in Nat \ {0}, NEW q \in Chains(m), NEW y \in Follow(q[m])
    PROVE  \E p \in Chains(m + 1) : p[m + 1] = y
<1> DEFINE p == [i \in 1 .. m + 1 |-> IF i = m + 1 THEN y ELSE q[i]]
<1>1. q \in [1 .. m -> Item] /\ q[1] \in Starts /\ \A i \in 1 .. m - 1 : q[i + 1] \in Follow(q[i])
  BY DEF Chains
<1>2. y \in Item
  <2>1. q[m] \in Item
    BY <1>1
  <2> QED
    BY <2>1, FollowPath
<1>3. p \in [1 .. m + 1 -> Item]
  BY <1>1, <1>2
<1>4. \A i \in 1 .. m : p[i] = q[i]
  OBVIOUS
<1>5. p[m + 1] = y
  OBVIOUS
<1> HIDE DEF p
<1>6. ASSUME NEW i \in 1 .. m PROVE p[i + 1] \in Follow(p[i])
  <2>1. CASE i = m
    BY <1>4, <1>5, <2>1
  <2>2. CASE i # m
    <3>1. i \in 1 .. m - 1 /\ i + 1 \in 1 .. m
      BY <2>2
    <3> QED
      BY <1>1, <1>4, <3>1
  <2> QED
    BY <2>1, <2>2
<1>7. p \in Chains(m + 1)
  <2>1. 1 \in 1 .. m /\ (m + 1) - 1 = m
    OBVIOUS
  <2> QED
    BY <1>1, <1>3, <1>4, <1>6, <2>1 DEF Chains
<1> QED
  BY <1>5, <1>7

LEMMA ChainPrefix ==
    ASSUME NEW m \in Nat \ {0}, NEW q \in Chains(m), NEW k \in 1 .. m
    PROVE  \E p \in Chains(k) : p[k] = q[k]
<1> DEFINE p == [i \in 1 .. k |-> q[i]]
<1>1. q \in [1 .. m -> Item] /\ q[1] \in Starts /\ \A i \in 1 .. m - 1 : q[i + 1] \in Follow(q[i])
  BY DEF Chains
<1>2. p \in [1 .. k -> Item] /\ \A i \in 1 .. k : p[i] = q[i]
  BY <1>1
<1> HIDE DEF p
<1>3. \A i \in 1 .. k - 1 : i \in 1 .. m - 1 /\ i \in 1 .. k /\ i + 1 \in 1 .. k
  OBVIOUS
<1>4. p \in Chains(k)
  <2>1. \A i \in 1 .. k - 1 : p[i + 1] \in Follow(p[i])
    BY <1>1, <1>2, <1>3
  <2>2. p[1] \in Starts
    BY <1>1, <1>2
  <2> QED
    BY <1>2, <2>1, <2>2 DEF Chains
<1> QED
  BY <1>2, <1>4

\* The length of a path, and where it leads.
LEMMA ChainFacts ==
    ASSUME Tables, NEW m \in Nat \ {0}, NEW q \in Chains(m)
    PROVE  \A i \in 1 .. m :
             /\ q[i].cost = i
             /\ i - 1 <= Cardinality(Routers) => <<q[i].first, q[i].nbr>> \in Near[i - 1]
<1>1. q \in [1 .. m -> Item] /\ q[1] \in Starts /\ \A i \in 1 .. m - 1 : q[i + 1] \in Follow(q[i])
  BY DEF Chains
<1>2. PICK n \in Nat : n = Cardinality(Routers)
  BY NearSteps DEF Tables
<1> DEFINE good(i) == /\ q[i].cost = i /\ q[i].first \in Own
                      /\ i - 1 <= n => <<q[i].first, q[i].nbr>> \in Near[i - 1]
           S == {i \in 0 .. m - 1 : good(i + 1)}
<1>3. 0 \in S
  <2>1. q[1].cost = 1 /\ q[1].first \in Own /\ IsFirstHop(q[1].first)
        /\ q[1].nbr = nid[q[1].first]
    BY <1>1, StartPath
  <2>2. <<q[1].first, q[1].nbr>> \in Near[0]
    BY <2>1, NearSteps DEF Tables
  <2>3. 0 + 1 = 1 /\ 1 - 1 = 0 /\ 0 \in 0 .. m - 1
    OBVIOUS
  <2> QED
    BY <2>1, <2>2, <2>3
<1>4. ASSUME NEW k \in 0 .. (m - 1) - 1, k \in S PROVE k + 1 \in S
  <2> DEFINE i == k + 1
  <2>1. i \in 1 .. m - 1 /\ i \in 1 .. m /\ i + 1 \in 1 .. m /\ i \in 0 .. m - 1 /\ (i + 1) - 1 = i
    OBVIOUS
  <2>2. good(i)
    BY <1>4
  <2> HIDE DEF i
  <2>3. /\ q[i + 1].cost = q[i].cost + 1 /\ q[i + 1].first = q[i].first
        /\ \E e \in Range(topology) :
                e.router = q[i].nbr /\ q[i + 1].net = e.net /\ q[i + 1].nbr = e.nbr
    <3>1. q[i] \in Item /\ q[i + 1] \in Follow(q[i])
      BY <1>1, <2>1
    <3> QED
      BY <3>1, FollowPath
  <2>4. ASSUME (i + 1) - 1 <= n
        PROVE  <<q[i + 1].first, q[i + 1].nbr>> \in Near[i]
    <3>1. i \in 1 .. n /\ i - 1 <= n
      BY <2>1, <2>4
    <3>2. PICK e \in Range(topology) : e.router = q[i].nbr /\ q[i + 1].nbr = e.nbr
      BY <2>3
    <3>3. Near[i] = Near[i - 1] \cup {<<p[1][1], p[2].nbr>> :
              p \in {r \in Near[i - 1] \X Range(topology) : r[2].router = r[1][2]}}
      BY <1>2, <3>1, NearSteps DEF Tables
    <3>4. <<q[i].first, q[i].nbr>> \in Near[i - 1]
      BY <2>2, <3>1
    <3> DEFINE p == <<<<q[i].first, q[i].nbr>>, e>>
    <3>5. /\ p \in {r \in Near[i - 1] \X Range(topology) : r[2].router = r[1][2]}
          /\ p[1][1] = q[i].first /\ p[2].nbr = e.nbr
      BY <3>2, <3>4
    <3>6. <<p[1][1], p[2].nbr>> \in Near[i]
      <4> HIDE DEF p
      <4> QED
        BY <3>3, <3>5
    <3> HIDE DEF p
    <3> QED
      BY <2>3, <3>2, <3>5, <3>6
  <2>5. good(i + 1)
    BY <2>1, <2>2, <2>3, <2>4
  <2> QED
    BY <2>1, <2>5 DEF i
<1>5. ASSUME NEW i \in 1 .. m PROVE good(i)
  <2>1. i - 1 \in 0 .. m - 1 /\ (i - 1) + 1 = i /\ m - 1 \in Nat
    OBVIOUS
  <2>2. 0 .. m - 1 \subseteq S
    <3> HIDE DEF S
    <3> QED
      BY <1>3, <1>4, <2>1, WalkInduction
  <2> HIDE DEF good
  <2> QED
    BY <2>1, <2>2
<1> QED
  BY <1>1, <1>2, <1>5

\* What that says of the tables: a link is not left the way it was entered.
LEMMA Wired ==
    ASSUME PointToPoint, Learnt, Tables
    PROVE  /\ \A d, e \in Range(topology) :
                d.nbr = e.router /\ d.net = e.net => e.nbr \notin Routers \ {d.router}
           /\ \A f \in Own, e \in Range(topology) :
                nid[f] = e.router /\ e.net = f => e.nbr \notin Routers
           /\ \A e \in Range(topology) : e.nbr # e.router
<1>1. \A e \in Range(topology) :
        /\ e.router \in Routers
        /\ \E a \in Range(Lsas[e.router]) : e.net = a.net /\ e.nbr = a.nbr
  BY EntryType DEF Learnt
<1>2. ASSUME NEW d \in Range(topology), NEW e \in Range(topology),
             d.nbr = e.router, d.net = e.net
      PROVE  e.nbr \notin Routers \ {d.router}
  <2>1. PICK a \in Range(Lsas[d.router]) : d.net = a.net /\ d.nbr = a.nbr
    BY <1>1
  <2>2. PICK b \in Range(Lsas[e.router]) : e.net = b.net /\ e.nbr = b.nbr
    BY <1>1
  <2>3. d.router \in Routers /\ e.router \in Routers /\ a.net = b.net /\ a.nbr = e.router
    BY <1>1, <1>2, <2>1, <2>2
  <2>4. b.nbr \notin Routers \ {d.router}
    BY <2>3 DEF PointToPoint
  <2> QED
    BY <2>2, <2>4
<1>3. ASSUME NEW f \in Own, NEW e \in Range(topology), nid[f] = e.router, e.net = f
      PROVE  e.nbr \notin Routers
  <2>1. PICK b \in Range(Lsas[e.router]) : e.net = b.net /\ e.nbr = b.nbr
    BY <1>1
  <2>2. e.router \in Routers /\ f \in Nets
    BY <1>1 DEF Own, Range
  <2>3. e.router = Peer[f] /\ Peer[f] # None
    BY <1>3, <2>2 DEF Learnt
  <2>4. b.nbr \notin Routers
    BY <1>3, <2>1, <2>3 DEF PointToPoint
  <2> QED
    BY <2>1, <2>4
<1>4. ASSUME NEW e \in Range(topology) PROVE e.nbr # e.router
  BY <1>1 DEF PointToPoint
<1> QED
  BY <1>2, <1>3, <1>4

\* The search finds every router that is near: the entries it does not follow
\* lead back.
LEMMA NearChain ==
    ASSUME PointToPoint, Learnt, Tables, NEW k \in 0 .. Cardinality(Routers),
           NEW f, NEW r \in Routers, <<f, r>> \in Near[k]
    PROVE  \E m \in 1 .. k + 1 : \E q \in Chains(m) : q[m].nbr = r /\ q[m].first = f
<1>1. PICK n \in Nat : n = Cardinality(Routers)
  BY NearSteps DEF Tables
<1> DEFINE to(i, g, s) == \E m \in 1 .. i + 1 : \E q \in Chains(m) : q[m].nbr = s /\ q[m].first = g
           S == {i \in 0 .. n : \A g : \A s \in Routers : <<g, s>> \in Near[i] => to(i, g, s)}
<1>2. 0 \in S
  <2> SUFFICES ASSUME NEW g, NEW s \in Routers, <<g, s>> \in Near[0] PROVE to(0, g, s)
    OBVIOUS
  <2>1. g \in Own /\ IsFirstHop(g) /\ s = nid[g]
    BY NearSteps DEF Tables
  <2> DEFINE x == FirstHop(g)
             q == [i \in 1 .. 1 |-> x]
  <2>2. x \in Starts
    BY <2>1 DEF Starts
  <2>3. x.nbr = s /\ x.first = g
    BY <2>1 DEF FirstHop
  <2> HIDE DEF x
  <2>4. x \in Item
    BY <2>2, StartPath
  <2>5. q \in [1 .. 1 -> Item] /\ q[1] = x
    BY <2>4
  <2>6. q \in Chains(1)
    <3>1. 1 .. 1 - 1 = {}
      OBVIOUS
    <3> HIDE DEF q
    <3> QED
      BY <2>2, <2>5, <3>1 DEF Chains
  <2>7. 1 \in 1 .. 0 + 1
    OBVIOUS
  <2> HIDE DEF q
  <2> QED
    BY <2>3, <2>5, <2>6, <2>7
<1>3. ASSUME NEW i \in 0 .. n - 1, i \in S PROVE i + 1 \in S
  <2>0. i + 1 \in 0 .. n /\ i + 1 \in 1 .. n /\ (i + 1) - 1 = i /\ i \in 0 .. n
    OBVIOUS
  <2> SUFFICES ASSUME NEW g, NEW s \in Routers, <<g, s>> \in Near[i + 1]
               PROVE  to(i + 1, g, s)
    BY <2>0
  <2>1. Near[i + 1] = Near[i] \cup {<<p[1][1], p[2].nbr>> :
            p \in {q \in Near[i] \X Range(topology) : q[2].router = q[1][2]}}
    BY <1>1, <2>0, NearSteps DEF Tables
  <2>2. CASE <<g, s>> \in Near[i]
    <3>1. to(i, g, s)
      BY <1>3, <2>2
    <3>2. \A m \in 1 .. i + 1 : m \in 1 .. (i + 1) + 1
      OBVIOUS
    <3> QED
      BY <3>1, <3>2
  <2>3. CASE <<g, s>> \notin Near[i]
    <3>1. PICK p \in Near[i] \X Range(topology) :
                p[2].router = p[1][2] /\ <<g, s>> = <<p[1][1], p[2].nbr>>
      BY <2>1, <2>3
    <3>2. PICK e \in Range(topology) : /\ e = p[2] /\ p[1] \in Near[i]
                                       /\ e.router = p[1][2] /\ e.nbr = s /\ p[1][1] = g
      BY <3>1
    <3>3. e.router \in Routers /\ p[1] = <<g, e.router>>
      <4>1. p[1] \in Nets \X (Routers \cup {Self, None})
        BY <1>1, <2>0, <3>2, NearSteps DEF Tables
      <4> QED
        BY <3>2, <4>1, EntryType
    <3>10. PICK m \in 1 .. i + 1 : \E q \in Chains(m) : q[m].nbr = e.router /\ q[m].first = g
      <4>1. \A h : \A c \in Routers : <<h, c>> \in Near[i] => to(i, h, c)
        BY <1>3
      <4>2. <<g, e.router>> \in Near[i]
        BY <3>2, <3>3
      <4>3. to(i, g, e.router)
        <5> HIDE DEF to, S
        <5> QED
          BY <3>3, <4>1, <4>2
      <4> QED
        BY <4>3
    <3>4. PICK q \in Chains(m) : q[m].nbr = e.router /\ q[m].first = g
      BY <3>10
    <3>5. /\ m \in Nat \ {0} /\ m + 1 \in 1 .. (i + 1) + 1 /\ m \in 1 .. (i + 1) + 1
          /\ q \in [1 .. m -> Item] /\ q[1] \in Starts
          /\ \A j \in 1 .. m - 1 : q[j + 1] \in Follow(q[j])
      BY DEF Chains
    <3>6. e.nbr # e.router
      BY Wired
    <3>7. CASE e.net # q[m].net
      <4> DEFINE y == Extension(e, q[m])
      <4>1. y \in Follow(q[m]) /\ y.nbr = s /\ y.first = g
        BY <3>2, <3>4, <3>6, <3>7 DEF Follow, Extends, Extension
      <4> HIDE DEF y
      <4>2. PICK v \in Chains(m + 1) : v[m + 1] = y
        BY <3>5, <4>1, ChainGrows
      <4> QED
        BY <3>5, <4>1, <4>2
    <3>8. CASE e.net = q[m].net /\ m = 1
      <4>1. q[1].net \in Own /\ nid[q[1].net] = e.router
        BY <3>4, <3>5, <3>8, StartPath
      <4>2. e.nbr \notin Routers
        BY <3>8, <4>1, Wired
      <4> QED
        BY <3>2, <4>2
    <3>9. CASE e.net = q[m].net /\ m # 1
      <4>1. m - 1 \in 1 .. m /\ m - 1 \in 1 .. m - 1 /\ (m - 1) + 1 = m
            /\ m - 1 \in 1 .. (i + 1) + 1
        BY <3>5, <3>9
      <4>2. q[m] \in Follow(q[m - 1]) /\ q[m - 1] \in Item
        BY <3>5, <4>1
      <4>3. PICK d \in Range(topology) :
                d.router = q[m - 1].nbr /\ q[m].net = d.net /\ q[m].nbr = d.nbr
        BY <4>2, FollowPath
      <4>4. q[m].first = q[m - 1].first
        BY <4>2, FollowPath
      <4>5. e.nbr \notin Routers \ {d.router}
        <5>1. d.nbr = e.router /\ d.net = e.net
          BY <3>4, <3>9, <4>3
        <5> QED
          BY <5>1, Wired
      <4>6. q[m - 1].nbr = s /\ q[m - 1].first = g
        BY <3>2, <3>4, <4>3, <4>4, <4>5
      <4>7. PICK v \in Chains(m - 1) : v[m - 1] = q[m - 1]
        <5>1. m \in Nat \ {0}
          BY <3>5
        <5>2. \A l \in 1 .. m : \E v \in Chains(l) : v[l] = q[l]
          BY <5>1, ChainPrefix
        <5> QED
          BY <4>1, <5>2
      <4> QED
        BY <4>1, <4>6, <4>7
    <3> QED
      BY <3>7, <3>8, <3>9
  <2> QED
    BY <2>2, <2>3
<1>4. k \in S
  <2>1. 0 .. n \subseteq S
    <3> HIDE DEF S
    <3> QED
      BY <1>2, <1>3, WalkInduction
  <2> HIDE DEF S
  <2> QED
    BY <1>1, <2>1
<1> QED
  BY <1>4

\* A network that can be reached is at the end of a path that is no longer than
\* it need be.
LEMMA ReachedChain ==
    ASSUME PointToPoint, Learnt, Tables, NEW k \in 0 .. Cardinality(Routers),
           NEW f, NEW n, Reached(n, f, k)
    PROVE  \E m \in 1 .. k + 2 : \E q \in Chains(m) : q[m].net = n
<1>1. PICK e \in Range(topology) : e.net = n /\ <<f, e.router>> \in Near[k]
  BY DEF Reached
<1>0. k \in Nat
  BY NearSteps DEF Tables
<1>2. e.router \in Routers
  BY EntryType
<1>7. PICK m \in 1 .. k + 1 : \E q \in Chains(m) : q[m].nbr = e.router
  BY <1>1, <1>2, NearChain
<1>3. PICK q \in Chains(m) : q[m].nbr = e.router
  BY <1>7
<1>4. m \in Nat \ {0} /\ m \in 1 .. k + 2 /\ m + 1 \in 1 .. k + 2
  BY <1>0
<1>5. CASE e.net = q[m].net
  BY <1>1, <1>4, <1>5
<1>6. CASE e.net # q[m].net
  <2> DEFINE y == Extension(e, q[m])
  <2>1. y \in Follow(q[m]) /\ y.net = n
    <3>1. e.nbr # e.router
      BY Wired
    <3> QED
      BY <1>1, <1>3, <1>6, <3>1 DEF Follow, Extends, Extension
  <2> HIDE DEF y
  <2>2. PICK p \in Chains(m + 1) : p[m + 1] = y
    BY <1>4, <2>1, ChainGrows
  <2> QED
    BY <1>4, <2>1, <2>2
<1> QED
  BY <1>5, <1>6

\* The other way round: what a path ends with is reached that way.
LEMMA ChainReaches ==
    ASSUME Tables, NEW m \in Nat \ {0}, NEW q \in Chains(m), q[m].net \notin Own,
           m - 2 <= Cardinality(Routers)
    PROVE  m - 2 \in 0 .. Cardinality(Routers) /\ Reached(q[m].net, q[m].first, m - 2)
<1>1. q \in [1 .. m -> Item] /\ q[1] \in Starts /\ \A i \in 1 .. m - 1 : q[i + 1] \in Follow(q[i])
  BY DEF Chains
<1>2. PICK n \in Nat : n = Cardinality(Routers)
  BY NearSteps DEF Tables
<1>3. m # 1
  BY <1>1, StartPath
<1>4. m - 1 \in 1 .. m - 1 /\ m - 1 \in 1 .. m /\ (m - 1) + 1 = m /\ (m - 1) - 1 = m - 2
      /\ m - 2 \in 0 .. n
  BY <1>2, <1>3
<1>5. q[m] \in Follow(q[m - 1]) /\ q[m - 1] \in Item
  BY <1>1, <1>4
<1>6. PICK e \in Range(topology) : e.router = q[m - 1].nbr /\ q[m].net = e.net
  BY <1>5, FollowPath
<1>7. q[m].first = q[m - 1].first
  BY <1>5, FollowPath
<1>8. <<q[m - 1].first, q[m - 1].nbr>> \in Near[m - 2]
  <2>1. m - 2 <= Cardinality(Routers)
    OBVIOUS
  <2>2. \A i \in 1 .. m : i - 1 <= Cardinality(Routers) => <<q[i].first, q[i].nbr>> \in Near[i - 1]
    BY ChainFacts
  <2>3. (m - 1) - 1 <= Cardinality(Routers)
        => <<q[m - 1].first, q[m - 1].nbr>> \in Near[(m - 1) - 1]
    BY <1>4, <2>2
  <2> QED
    BY <1>4, <2>1, <2>3
<1> QED
  BY <1>2, <1>4, <1>6, <1>7, <1>8 DEF Reached

-----------------------------------------------------------------------------
(* The steps.                                                              *)

LEMMA InitInv == Init => IInv
<1> SUFFICES ASSUME Init PROVE IInv
  OBVIOUS
<1>1. Len(Ifaces) \in Nat
  OBVIOUS
<1>2. TypeOK
  <2>1. Idle \in [phase : {"idle", "clear", "walk", "search", "add", "link"}, left : 0 .. 0,
                  heap : Seq(Item), top : Item \cup {NoItem}, calm : BOOLEAN]
    BY DEF Idle
  <2>2. topology = <<>> /\ Len(topology) = 0 /\ run = [t \in Tids |-> Idle]
    BY DEF Init
  <2>3. topology \in Seq(Entry) /\ routing_table \in Seq(Route) /\ changed \in BOOLEAN
        /\ torn \in BOOLEAN /\ direct \in {"check", "find", "link"}
        /\ nid \in [Nets -> Routers \cup {None}]
    <3>1. \A S : <<>> \in Seq(S)
      OBVIOUS
    <3>2. topology \in Seq(Entry) /\ routing_table \in Seq(Route)
      BY <3>1 DEF Init
    <3>3. changed \in BOOLEAN /\ torn \in BOOLEAN /\ direct \in {"check", "find", "link"}
      BY DEF Init
    <3>4. nid \in [Nets -> Routers \cup {None}]
      BY DEF Init
    <3> QED
      BY <3>2, <3>3, <3>4
  <2>4. boot \in 0 .. Len(Ifaces)
    BY <1>1 DEF Init
  <2>5. run \in [Tids -> [phase : {"idle", "clear", "walk", "search", "add", "link"}, left : 0 .. 0,
                  heap : Seq(Item), top : Item \cup {NoItem}, calm : BOOLEAN]]
    BY <2>1, <2>2
  <2>6. end \in [Writers -> Gone .. Len(routing_table)]
    <3>1. Len(routing_table) = 0 /\ 0 \in Gone .. 0
      BY DEF Init, Gone
    <3> QED
      BY <3>1 DEF Init
  <2> QED
    BY <2>2, <2>3, <2>4, <2>5, <2>6 DEF TypeOK
<1>3. <<>> \in Heaps
  BY DEF Heaps, Sorted
<1>4. Searching
  BY <1>3 DEF Init, Searching, Idle
<1>5. OwnRoutesKept
  BY DEF Init, OwnRoutesKept
<1>6. PromptInv
  <2>1. \A w \in Writers : ~Writing(w)
    BY DEF Init, Writing, Writers, Idle
  <2> QED
    BY <2>1 DEF Init, PromptInv, OwnAsRoutes, NothingYet, AllDirect, Elsewhere, Idle,
                Behind, DirectEnd
<1>7. Led
  BY DEF Init, Led, Routed
<1>8. Booting
  BY DEF Init, Booting
<1> QED
  BY <1>2, <1>4, <1>5, <1>6, <1>7, <1>8 DEF IInv

\* What a run may be.
Runs == [phase : {"idle", "clear", "walk", "search", "add", "link"}, left : 0 .. Len(topology),
         heap : Seq(Item), top : Item \cup {NoItem}, calm : BOOLEAN]
GoodRuns == {r \in Runs : /\ r.heap \in Heaps
                          /\ r.top # NoItem => r.top.cost >= 1
                          /\ r.phase \in {"search", "add", "link"} => r.left > 0
                          /\ r.phase = "link" => r.top # NoItem}

LEMMA RunIsGood ==
    ASSUME IInv
    PROVE  /\ run \in [Tids -> GoodRuns]
           /\ topology \in Seq(Entry) /\ Len(topology) \in Nat
           /\ nid \in [Nets -> Routers \cup {None}] /\ routing_table \in Seq(Route)
           /\ end \in [Writers -> Gone .. Len(routing_table)]
<1>1. run \in [Tids -> Runs] /\ topology \in Seq(Entry) /\ routing_table \in Seq(Route)
      /\ nid \in [Nets -> Routers \cup {None}] /\ end \in [Writers -> Gone .. Len(routing_table)]
  BY DEF IInv, TypeOK, Runs
<1>2. ASSUME NEW t \in Tids PROVE run[t] \in GoodRuns
  BY <1>1 DEF IInv, Searching, GoodRuns
<1> QED
  BY <1>1, <1>2

\* A step of one run on the table: types, and what a search may rely on.
LEMMA RunTypes ==
    ASSUME IInv, NEW t \in Tids, NEW r \in GoodRuns, run' = [run EXCEPT ![t] = r],
           routing_table' \in Seq(Route), end' \in [Writers -> Gone .. Len(routing_table')],
           torn' \in BOOLEAN, UNCHANGED <<topology, nid, boot, direct, changed>>
    PROVE  /\ TypeOK' /\ Searching' /\ Booting' /\ (NothingYet => NothingYet')
           /\ run'[t] = r /\ \A u \in Tids \ {t} : run'[u] = run[u]
<1>1. run \in [Tids -> GoodRuns]
  BY RunIsGood
<1>2. run' \in [Tids -> GoodRuns] /\ run'[t] = r /\ \A u \in Tids \ {t} : run'[u] = run[u]
  BY <1>1
<1>3. run' \in [Tids -> Runs]
  BY <1>2 DEF GoodRuns
<1>4. TypeOK'
  <2>1. TypeOK
    BY DEF IInv
  <2> QED
    BY <1>3, <2>1 DEF TypeOK, Runs
<1>5. Searching'
  <2> SUFFICES ASSUME NEW u \in Tids
               PROVE  /\ run'[u].heap \in Heaps
                      /\ run'[u].top # NoItem => run'[u].top.cost >= 1
                      /\ run'[u].phase \in {"search", "add", "link"} => run'[u].left > 0
                      /\ run'[u].phase = "link" => run'[u].top # NoItem
    BY DEF Searching
  <2> QED
    BY <1>2 DEF GoodRuns
<1> QED
  BY <1>2, <1>4, <1>5 DEF NothingYet, Booting, IInv

\* Led is kept by a step of one run that clears nothing, when the run still
\* leads or has gone all the way.
LEMMA LedKept ==
    ASSUME Led, NEW t \in Tids, UNCHANGED <<topology, nid, changed, torn>>,
           \A u \in Tids \ {t} : run'[u] = run[u] /\ end'[u] = end[u],
           \A n : HasRoute(n) => HasRoute(n)',
           Hop /\ (run[t].phase = "clear" \/ Leads(t)) =>
               run'[t].phase = "clear" \/ Leads(t)' \/ Routed'
    PROVE  Led'
<1> SUFFICES ASSUME ~torn, ~changed, Hop
             PROVE  (\E u \in Tids : run'[u].phase = "clear" \/ Leads(u)') \/ Routed'
  BY DEF Led, Hop, IsFirstHop, InTopology, Leads
<1>1. Routed => Routed'
  BY DEF Routed, FromEnd
<1>2. ASSUME NEW u \in Tids \ {t}, Leads(u) PROVE Leads(u)'
  BY <1>2 DEF Leads, FromEnd
<1>3. (\E u \in Tids : run[u].phase = "clear" \/ Leads(u)) \/ Routed
  BY DEF Led
<1> QED
  BY <1>1, <1>2, <1>3

\* The networks of the interfaces differ.
LEMMA OwnNetworks ==
    /\ Len(Ifaces) \in Nat
    /\ \A k \in 1 .. Len(Ifaces) : Ifaces[k] \in Nets /\ Ifaces[k] \in Own
    /\ \A m \in Own : \E k \in 1 .. Len(Ifaces) : m = Ifaces[k]
    /\ \A j, k \in 1 .. Len(Ifaces) : Ifaces[j] = Ifaces[k] => j = k
BY DEF Own, Range, IsInjective

\* What a link leaves of the table, when its end is still there.
Grown(w, n, via, dyn) ==
    \E e \in 0 .. Len(routing_table) :
        /\ e = end[w] /\ DOMAIN routing_table' = 1 .. e + 1
        /\ \A i \in 1 .. e : i \in DOMAIN routing_table /\ routing_table'[i] = routing_table[i]
        /\ routing_table'[e + 1] = [dest |-> n, via |-> via, dynamic |-> dyn]
        /\ \A v \in Writers \ {w} :
                end'[v] # Gone => end'[v] = end[v] /\ end[v] <= e

LEMMA LinkedRoute ==
    ASSUME routing_table \in Seq(Route), end \in [Writers -> Gone .. Len(routing_table)],
           torn \in BOOLEAN, NEW w \in Writers,
           NEW n \in Nets, NEW via \in Nets, NEW dyn \in BOOLEAN, Linked(w, n, via, dyn)
    PROVE  /\ routing_table' \in Seq(Route) /\ torn' \in BOOLEAN
           /\ end' \in [Writers -> Gone .. Len(routing_table')]
           /\ end[w] = Gone => /\ UNCHANGED <<routing_table, torn>>
                               /\ \A v \in Writers \ {w} : end'[v] = end[v]
           /\ end[w] # Gone => Grown(w, n, via, dyn) /\ HasRoute(n)'
           /\ ~torn' => /\ ~torn
                        /\ \A m : HasRoute(m) => HasRoute(m)'
                        /\ \A v \in Writers \ {w} : end'[v] = end[v]
           /\ end[w] # Gone /\ end[w] = Len(routing_table) =>
                \A m : HasRoute(m) => HasRoute(m)'
<1> DEFINE x == [dest |-> n, via |-> via, dynamic |-> dyn]
<1>1. PICK L \in Nat : L = Len(routing_table)
  OBVIOUS
<1>2. x \in Route /\ x.dest = n
  BY DEF Route
<1>3. PICK e \in Gone .. L : e = end[w]
  BY <1>1
<1>4. DOMAIN routing_table = 1 .. L /\ \A i \in 1 .. L : routing_table[i] \in Route
  BY <1>1
<1>5. /\ routing_table' = IF e = Gone THEN routing_table
                          ELSE Append(SubSeq(routing_table, 1, e), x)
      /\ end' = [v \in Writers |-> IF v = w THEN 0
                                   ELSE IF e # Gone /\ end[v] > e THEN Gone ELSE end[v]]
      /\ torn' = (torn \/ (e # Gone /\ e < L))
  BY <1>1, <1>3 DEF Linked
<1> HIDE DEF x
<1>6. CASE e = Gone
  <2>1. UNCHANGED <<routing_table, torn>>
    BY <1>5, <1>6
  <2>2. \A v \in Writers \ {w} : end'[v] = end[v]
    BY <1>5, <1>6
  <2>3. end' \in [Writers -> Gone .. L]
    <3>1. 0 \in Gone .. L
      BY DEF Gone
    <3> QED
      BY <1>1, <1>5, <1>6, <3>1
  <2>4. \A m : HasRoute(m) => HasRoute(m)'
    BY <2>1 DEF HasRoute
  <2> QED
    BY <1>1, <1>3, <1>6, <2>1, <2>2, <2>3, <2>4
<1>7. CASE e # Gone
  <2>1. e \in 0 .. L
    BY <1>3, <1>7 DEF Gone
  <2> DEFINE q == SubSeq(routing_table, 1, e)
  <2>2. q \in Seq(Route) /\ Len(q) = e /\ \A i \in 1 .. e : q[i] = routing_table[i]
    BY <1>1, <1>4, <2>1
  <2>3. routing_table' = Append(q, x)
    BY <1>5, <1>7
  <2> HIDE DEF q
  <2>4. /\ routing_table' \in Seq(Route) /\ Len(routing_table') = e + 1
        /\ DOMAIN routing_table' = 1 .. e + 1 /\ routing_table'[e + 1] = x
        /\ \A i \in 1 .. e : routing_table'[i] = q[i]
    BY <1>2, <2>1, <2>2, <2>3
  <2>5. \A i \in 1 .. e : i \in DOMAIN routing_table /\ routing_table'[i] = routing_table[i]
    BY <1>4, <2>1, <2>2, <2>4
  <2>6. ASSUME NEW v \in Writers \ {w}, end'[v] # Gone PROVE end'[v] = end[v] /\ end[v] <= e
    <3>1. end'[v] = IF end[v] > e THEN Gone ELSE end[v]
      BY <1>5, <1>7
    <3>2. end[v] \in Gone .. L
      BY <1>1
    <3> QED
      BY <2>1, <2>6, <3>1, <3>2 DEF Gone
  <2>7. end' \in [Writers -> Gone .. e + 1]
    <3>1. ASSUME NEW v \in Writers PROVE end'[v] \in Gone .. e + 1
      <4>1. CASE v = w
        BY <1>5, <2>1, <4>1 DEF Gone
      <4>2. CASE v # w /\ end'[v] = Gone
        BY <2>1, <4>2 DEF Gone
      <4>3. CASE v # w /\ end'[v] # Gone
        <5>1. end[v] \in Gone .. L
          BY <1>1
        <5> QED
          BY <2>1, <2>6, <4>3, <5>1 DEF Gone
      <4> QED
        BY <4>1, <4>2, <4>3
    <3>2. end' = [v \in Writers |-> end'[v]]
      BY <1>5
    <3> QED
      BY <3>1, <3>2
  <2>8. Grown(w, n, via, dyn)
    <3>1. routing_table'[e + 1] = [dest |-> n, via |-> via, dynamic |-> dyn]
      BY <2>4 DEF x
    <3> QED
      BY <1>1, <1>3, <2>1, <2>4, <2>5, <2>6, <3>1 DEF Grown
  <2>9. HasRoute(n)'
    <3>1. e + 1 \in DOMAIN routing_table' /\ routing_table'[e + 1].dest = n
      BY <1>2, <2>1, <2>4
    <3> QED
      BY <3>1 DEF HasRoute
  <2>10. ASSUME e = L, NEW m, HasRoute(m) PROVE HasRoute(m)'
    <3>1. PICK i \in 1 .. L : routing_table[i].dest = m
      BY <1>4, <2>10 DEF HasRoute
    <3>2. i \in DOMAIN routing_table' /\ routing_table'[i].dest = m
      BY <2>1, <2>4, <2>5, <2>10, <3>1
    <3> QED
      BY <3>2 DEF HasRoute
  <2>11. ASSUME ~torn' PROVE ~torn /\ e = L
    <3>1. ~torn /\ ~(e < L)
      BY Zenon, <1>5, <1>7, <2>11
    <3>2. e = L
      BY <2>1, <3>1
    <3> QED
      BY Zenon, <3>1, <3>2
  <2>12. ASSUME e = L, NEW v \in Writers \ {w} PROVE end'[v] = end[v]
    <3>1. end'[v] = IF end[v] > e THEN Gone ELSE end[v]
      BY <1>5, <1>7
    <3>2. end[v] \in Gone .. L
      BY <1>1
    <3> QED
      BY <2>1, <2>12, <3>1, <3>2 DEF Gone
  <2>13. torn' \in BOOLEAN
    BY <1>5
  <2> QED
    BY <1>1, <1>3, <1>7, <2>4, <2>7, <2>8, <2>9, <2>10, <2>11, <2>12, <2>13
<1> QED
  BY <1>6, <1>7

\* The table rt has one route for the interface k, a direct one.
KeptFor(rt, k) ==
    \E i \in DOMAIN rt : /\ ~rt[i].dynamic
                         /\ \A j \in DOMAIN rt : rt[j].dest = Ifaces[k] <=> i = j

LEMMA KeptForAll ==
    /\ OwnRoutesKept  <=> (Prompt => \A k \in 1 .. boot : KeptFor(routing_table, k))
    /\ OwnRoutesKept' <=> (Prompt => \A k \in 1 .. boot' : KeptFor(routing_table', k))
<1>1. OwnRoutesKept <=> (Prompt => \A k \in 1 .. boot : KeptFor(routing_table, k))
  BY Zenon DEF OwnRoutesKept, KeptFor
<1>2. OwnRoutesKept' <=> (Prompt => \A k \in 1 .. boot' : KeptFor(routing_table', k))
  BY Zenon DEF OwnRoutesKept, KeptFor
<1> QED
  BY <1>1, <1>2

\* The direct route of an interface survives a link to another network.
LEMMA LinkKeeps ==
    ASSUME routing_table \in Seq(Route), NEW w, NEW n, NEW via, NEW dyn,
           Grown(w, n, via, dyn), NEW k, KeptFor(routing_table, k), Ifaces[k] # n,
           \A i \in DOMAIN routing_table : ~routing_table[i].dynamic => i <= end[w]
    PROVE  KeptFor(routing_table', k)
<1>1. PICK i \in DOMAIN routing_table :
            /\ ~routing_table[i].dynamic
            /\ \A j \in DOMAIN routing_table : routing_table[j].dest = Ifaces[k] <=> i = j
  BY DEF KeptFor
<1>2. PICK e \in 0 .. Len(routing_table) :
            /\ e = end[w] /\ DOMAIN routing_table' = 1 .. e + 1
            /\ \A j \in 1 .. e :
                    j \in DOMAIN routing_table /\ routing_table'[j] = routing_table[j]
            /\ routing_table'[e + 1] = [dest |-> n, via |-> via, dynamic |-> dyn]
  BY DEF Grown
<1>6. routing_table'[e + 1].dest = n
  BY <1>2
<1>3. i \in 1 .. e
  BY <1>1, <1>2
<1>4. i \in DOMAIN routing_table' /\ ~routing_table'[i].dynamic
  BY <1>1, <1>2, <1>3
<1>5. ASSUME NEW j \in 1 .. e + 1 PROVE routing_table'[j].dest = Ifaces[k] <=> i = j
  <2>1. CASE j \in 1 .. e
    BY <1>1, <1>2, <2>1
  <2>2. CASE j = e + 1
    BY <1>1, <1>3, <1>6, <2>2
  <2> QED
    BY <2>1, <2>2
<1> QED
  BY <1>2, <1>4, <1>5 DEF KeptFor

\* While pwospf_run_thread adds the direct routes, no run adds any.
LEMMA AloneAtBoot ==
    ASSUME IInv, Prompt, boot < Len(Ifaces)
    PROVE  /\ topology = <<>> /\ \A t \in Tids : ~Writing(t)
           /\ \A t \in Tids : run[t].phase \notin {"search", "add", "link"}
<1>1. topology = <<>> /\ Len(topology) = 0
  BY DEF IInv, PromptInv, NothingYet
<1>2. ASSUME NEW t \in Tids PROVE run[t].phase \notin {"search", "add", "link"}
  <2>1. run[t] \in GoodRuns
    BY RunIsGood
  <2>2. run[t].left \in 0 .. 0 /\ (run[t].phase \in {"search", "add", "link"} => run[t].left > 0)
    BY <1>1, <2>1 DEF GoodRuns, Runs
  <2> QED
    BY <2>2
<1> QED
  BY <1>1, <1>2 DEF Writing

\* pwospf_run_thread looks for the end of the table, or finds that there is a
\* route already.
LEMMA SeekDirectStep ==
    ASSUME IInv, CheckDirect \/ FindDirect
    PROVE  IInv'
<1>1. /\ UNCHANGED <<topology, nid, routing_table, run, changed, torn>>
      /\ routing_table \in Seq(Route) /\ boot \in 0 .. Len(Ifaces)
      /\ end \in [Writers -> Gone .. Len(routing_table)] /\ Booting
      /\ direct \in {"check", "find", "link"} /\ run \in [Tids -> GoodRuns]
  BY RunIsGood DEF IInv, TypeOK, CheckDirect, FindDirect
<1>2. PICK L \in Nat : L = Len(routing_table) /\ DOMAIN routing_table = 1 .. L
  BY <1>1
<1>3. PICK B \in Nat : B = Len(Ifaces)
  BY OwnNetworks
<1>4. /\ end' \in [Writers -> Gone .. L] /\ boot' \in 0 .. B
      /\ direct' \in {"check", "find", "link"} /\ Booting'
      /\ \A t \in Tids : end'[t] = end[t]
      /\ direct' = "link" => end'[Main] = L
      /\ boot <= boot' /\ (boot' = boot \/ (boot' = boot + 1 /\ boot < B /\ HasRoute(Ifaces[boot + 1])))
  <2>1. CASE CheckDirect
    <3>1. /\ UNCHANGED end /\ boot < B /\ direct' \in {"check", "find"}
          /\ (boot' = boot + 1 /\ direct' = "check" /\ HasRoute(Ifaces[boot + 1])) \/ boot' = boot
      BY <1>1, <1>3, <2>1 DEF CheckDirect
    <3> QED
      BY <1>1, <1>2, <1>3, <3>1 DEF Booting
  <2>2. CASE FindDirect
    <3>1. /\ end' = [end EXCEPT ![Main] = L] /\ direct = "find" /\ direct' = "link" /\ boot' = boot
      BY <1>2, <2>2 DEF FindDirect, FoundEnd
    <3>2. L \in Gone .. L /\ Main \in Writers
      BY DEF Gone, Writers
    <3>3. end' \in [Writers -> Gone .. L] /\ end'[Main] = L /\ \A t \in Tids : end'[t] = end[t]
      BY <1>1, <1>2, <3>1, <3>2 DEF Writers
    <3> QED
      BY <1>1, <1>3, <3>1, <3>3 DEF Booting
  <2> QED
    BY <2>1, <2>2
<1>5. TypeOK'
  <2>1. end' \in [Writers -> Gone .. Len(routing_table')] /\ boot' \in 0 .. Len(Ifaces)
    BY <1>1, <1>2, <1>3, <1>4
  <2> QED
    BY <1>1, <1>4, <2>1 DEF IInv, TypeOK
<1>6. Searching'
  BY <1>1 DEF IInv, Searching
<1>7. Led'
  <2>1. ASSUME NEW t \in Tids, Leads(t) PROVE Leads(t)'
    BY <1>1, <1>4, <2>1 DEF Leads, FromEnd, HasRoute
  <2>2. Routed => Routed'
    BY <1>1 DEF Routed, FromEnd, HasRoute
  <2>3. Hop' <=> Hop
    BY <1>1 DEF Hop, IsFirstHop, InTopology
  <2> QED
    BY <1>1, <2>1, <2>2, <2>3 DEF IInv, Led
<1>8. CASE Prompt
  <2>1. OwnAsRoutes /\ NothingYet /\ AllDirect /\ Elsewhere /\ Behind /\ DirectEnd
    BY <1>8 DEF IInv, PromptInv
  <2>2. boot' = boot
    <3> SUFFICES ASSUME boot < B, HasRoute(Ifaces[boot + 1]) PROVE FALSE
      BY <1>4
    <3>1. PICK i \in DOMAIN routing_table : routing_table[i].dest = Ifaces[boot + 1]
      BY DEF HasRoute
    <3>2. boot + 1 \in 1 .. B
      BY <1>1, <1>3
    <3>3. boot + 1 <= boot
      BY <1>3, <2>1, <3>1, <3>2 DEF OwnAsRoutes
    <3> QED
      BY <1>1, <3>3
  <2>3. OwnAsRoutes' /\ NothingYet' /\ AllDirect' /\ OwnRoutesKept'
    BY <1>1, <2>1, <2>2 DEF IInv, OwnAsRoutes, NothingYet, AllDirect, OwnRoutesKept
  <2>4. Elsewhere'
    BY <1>1, <2>1 DEF Elsewhere, Target
  <2>5. Behind'
    <3> SUFFICES ASSUME NEW w \in Writers, Writing(w)', end'[w] # Gone,
                        NEW i \in DOMAIN routing_table, ~routing_table[i].dynamic
                 PROVE  i <= end'[w]
      BY <1>1 DEF Behind
    <3>1. CASE w = Main
      <4>1. direct' = "link"
        BY <3>1 DEF Writing
      <4> QED
        BY <1>2, <1>4, <3>1, <4>1
    <3>2. CASE w # Main
      <4>1. w \in Tids /\ Writing(w)
        BY <1>1, <3>2 DEF Writing, Writers
      <4> QED
        BY <1>4, <2>1, <4>1 DEF Behind
    <3> QED
      BY <3>1, <3>2
  <2>6. DirectEnd'
    BY <1>4 DEF DirectEnd, Gone
  <2> QED
    BY <1>4, <1>5, <1>6, <1>7, <2>3, <2>4, <2>5, <2>6 DEF IInv, PromptInv
<1>9. CASE ~Prompt
  BY <1>4, <1>5, <1>6, <1>7, <1>9 DEF IInv, PromptInv, OwnRoutesKept
<1> QED
  BY <1>8, <1>9

LEMMA LinkDirectStep == IInv /\ LinkDirect => IInv'
<1> SUFFICES ASSUME IInv, LinkDirect PROVE IInv'
  OBVIOUS
<1>0. PICK n : n = Ifaces[boot + 1]
  OBVIOUS
<1>1. /\ boot \in 0 .. Len(Ifaces) /\ boot < Len(Ifaces) /\ boot' = boot + 1
      /\ UNCHANGED <<topology, nid, run, changed>> /\ routing_table \in Seq(Route)
      /\ end \in [Writers -> Gone .. Len(routing_table)] /\ torn \in BOOLEAN
      /\ direct = "link" /\ direct' = "check" /\ Linked(Main, n, n, FALSE)
  BY <1>0 DEF IInv, TypeOK, LinkDirect, Booting
<1>2. PICK B \in Nat : B = Len(Ifaces)
  BY OwnNetworks
<1>3. boot \in 0 .. B /\ boot' \in 0 .. B /\ boot + 1 \in 1 .. B /\ n \in Nets /\ Main \in Writers
  <2>1. boot \in 0 .. B /\ boot' \in 0 .. B /\ boot + 1 \in 1 .. B
    BY <1>1, <1>2
  <2> QED
    BY <1>0, <1>2, <2>1, OwnNetworks DEF Writers
<1>4. /\ routing_table' \in Seq(Route) /\ torn' \in BOOLEAN
      /\ end' \in [Writers -> Gone .. Len(routing_table')]
      /\ end[Main] # Gone => Grown(Main, n, n, FALSE)
      /\ ~torn' => /\ ~torn
                   /\ \A m : HasRoute(m) => HasRoute(m)'
                   /\ \A v \in Writers \ {Main} : end'[v] = end[v]
  <2>1. FALSE \in BOOLEAN
    OBVIOUS
  <2> QED
    BY <1>1, <1>3, <2>1, LinkedRoute
<1>5. TypeOK'
  BY <1>1, <1>2, <1>3, <1>4 DEF IInv, TypeOK
<1>6. Searching' /\ Booting'
  BY <1>1 DEF IInv, Searching, Booting
<1>7. Led'
  <2> SUFFICES ASSUME ~torn' PROVE Led'
    BY DEF Led
  <2>0. Tids \subseteq Writers \ {Main}
    BY DEF Writers
  <2>1. ASSUME NEW t \in Tids, Leads(t) PROVE Leads(t)'
    <3>1. end'[t] = end[t] /\ \A m : HasRoute(m) => HasRoute(m)'
      BY <1>4, <2>0
    <3> QED
      BY <1>1, <2>1, <3>1 DEF Leads, FromEnd
  <2>2. Routed => Routed'
    BY <1>1, <1>4 DEF Routed, FromEnd
  <2>3. Hop' <=> Hop
    BY <1>1 DEF Hop, IsFirstHop, InTopology
  <2> QED
    BY <1>1, <1>4, <2>1, <2>2, <2>3 DEF IInv, Led
<1>8. CASE Prompt
  <2>1. OwnAsRoutes /\ NothingYet /\ AllDirect /\ Elsewhere /\ Behind /\ DirectEnd
    BY <1>8 DEF IInv, PromptInv
  <2>2. ~HasRoute(n)
    <3> SUFFICES ASSUME HasRoute(n) PROVE FALSE
      OBVIOUS
    <3>1. PICK i \in DOMAIN routing_table : routing_table[i].dest = Ifaces[boot + 1]
      BY <1>0 DEF HasRoute
    <3>2. boot + 1 <= boot
      BY <1>2, <1>3, <2>1, <3>1 DEF OwnAsRoutes
    <3> QED
      BY <1>3, <3>2
  <2>10. /\ end[Main] # Gone /\ Grown(Main, n, n, FALSE)
         /\ \A i \in DOMAIN routing_table : ~routing_table[i].dynamic => i <= end[Main]
    BY <1>1, <1>3, <1>4, <2>1 DEF DirectEnd, Behind, Writing
  <2>3. PICK L \in 0 .. Len(routing_table) :
            /\ DOMAIN routing_table' = 1 .. L + 1
            /\ \A i \in 1 .. L : i \in DOMAIN routing_table /\ routing_table'[i] = routing_table[i]
            /\ routing_table'[L + 1] = [dest |-> n, via |-> n, dynamic |-> FALSE]
    BY <2>10 DEF Grown
  <2>4. routing_table'[L + 1].dest = n /\ ~routing_table'[L + 1].dynamic /\ L \in Nat
    BY <1>1, <2>3
  <2>5. \A k \in 1 .. B : n = Ifaces[k] <=> k = boot + 1
    BY <1>0, <1>2, <1>3, OwnNetworks
  <2>6. OwnAsRoutes'
    <3> SUFFICES ASSUME NEW i \in 1 .. L + 1, NEW k \in 1 .. B,
                        routing_table'[i].dest = Ifaces[k]
                 PROVE  k <= boot + 1
      BY <1>1, <1>2, <2>3 DEF OwnAsRoutes
    <3>1. CASE i \in 1 .. L
      <4>1. k <= boot
        BY <1>2, <2>1, <2>3, <3>1 DEF OwnAsRoutes
      <4> QED
        BY <1>3, <4>1
    <3>2. CASE i = L + 1
      BY <1>3, <2>4, <2>5, <3>2
    <3> QED
      BY <2>4, <3>1, <3>2
  <2>7. NothingYet'
    BY <1>1, <1>2, <1>3, <2>1 DEF NothingYet
  <2>8. Elsewhere'
    BY <1>1, <2>1 DEF Elsewhere, Target
  <2>9. OwnRoutesKept'
    <3> SUFFICES ASSUME NEW k \in 1 .. boot + 1
                 PROVE  KeptFor(routing_table', k)
      BY <1>1, KeptForAll
    <3>0. k \in 1 .. B /\ L + 1 \in 1 .. L + 1
      BY <1>3, <2>4
    <3>1. CASE k = boot + 1
      <4>1. Ifaces[k] = n
        BY <1>0, <3>1
      <4>2. ASSUME NEW j \in 1 .. L + 1
            PROVE  routing_table'[j].dest = Ifaces[k] <=> L + 1 = j
        <5>1. CASE j \in 1 .. L
          <6>1. routing_table[j].dest # n
            BY <2>2, <2>3, <5>1 DEF HasRoute
          <6> QED
            BY <2>3, <2>4, <4>1, <5>1, <6>1
        <5>2. CASE j = L + 1
          BY <2>4, <4>1, <5>2
        <5> QED
          BY <2>4, <5>1, <5>2
      <4> QED
        BY <2>3, <2>4, <3>0, <4>2 DEF KeptFor
    <3>2. CASE k # boot + 1
      <4>1. k \in 1 .. boot
        BY <1>3, <3>2
      <4>2. KeptFor(routing_table, k)
        BY <1>8, <4>1, KeptForAll DEF IInv
      <4>3. n # Ifaces[k]
        BY <2>5, <3>0, <3>2
      <4> QED
        BY <1>1, <2>10, <4>2, <4>3, LinkKeeps
    <3> QED
      BY <3>1, <3>2
  <2>11. AllDirect'
    <3>1. ASSUME NEW i \in 1 .. L + 1 PROVE ~routing_table'[i].dynamic
      <4>1. CASE i \in 1 .. L
        BY <1>1, <2>1, <2>3, <4>1 DEF AllDirect
      <4>2. CASE i = L + 1
        BY <2>4, <4>2
      <4> QED
        BY <2>4, <4>1, <4>2
    <3> QED
      BY <2>3, <3>1 DEF AllDirect
  <2>12. Behind' /\ DirectEnd'
    <3>1. \A t \in Tids : ~Writing(t)
      BY <1>1, <1>8, AloneAtBoot
    <3>2. \A w \in Writers : ~Writing(w)'
      BY <1>1, <3>1 DEF Writing, Writers
    <3> QED
      BY <1>1, <3>2 DEF Behind, DirectEnd
  <2> QED
    BY <1>5, <1>6, <1>7, <2>6, <2>7, <2>8, <2>9, <2>11, <2>12 DEF IInv, PromptInv
<1>9. CASE ~Prompt
  BY <1>5, <1>6, <1>7, <1>9 DEF IInv, PromptInv, OwnRoutesKept
<1> QED
  BY <1>8, <1>9

\* Something changes: no run is calm any more, and none leads.
LEMMA ChangeStep ==
    ASSUME IInv, (\E n \in Nets : Discover(n)) \/ (\E r \in Routers : Learn(r))
    PROVE  IInv'
<1>1. run \in [Tids -> GoodRuns] /\ topology \in Seq(Entry)
  BY RunIsGood
<1>2. /\ UNCHANGED <<routing_table, boot, direct, end, torn>>
      /\ changed' = TRUE /\ run' = Disturbed /\ Listening
  BY DEF Discover, Learn
<1>3. PICK n \in Nat : n = Len(topology)
  BY <1>1
<1> DEFINE grown(m) ==
        /\ topology' \in Seq(Entry) /\ Len(topology') = n + m
        /\ \A j \in 1 .. n : topology'[(n + m) + 1 - j] = topology[n + 1 - j]
<1>4. PICK m \in Nat : grown(m)
  <2>1. ASSUME topology' = topology PROVE grown(0)
    BY <1>1, <1>3, <2>1
  <2>2. ASSUME NEW r \in Routers, Learn(r) PROVE grown(1)
    <3> DEFINE lsa == Lsas[r][Known(r) + 1]
               e   == [router |-> r, net |-> lsa.net, nbr |-> lsa.nbr]
    <3>1. topology' = <<e>> \o topology /\ Known(r) < Len(Lsas[r])
      BY <2>2 DEF Learn
    <3>2. Known(r) \in Nat
      <4>1. IsFiniteSet(1 .. n)
        BY FS_Interval
      <4>2. IsFiniteSet({i \in DOMAIN topology : topology[i].router = r})
        BY <1>1, <1>3, <4>1, FS_Subset
      <4> QED
        BY <4>2, FS_CardinalityType DEF Known
    <3>3. lsa \in [net : Nets, nbr : Routers \cup {Self, None}]
      <4>1. PICK k \in Nat : k = Len(Lsas[r])
        OBVIOUS
      <4>2. Known(r) + 1 \in 1 .. k
        BY <3>1, <3>2, <4>1
      <4>3. \A S, q : q \in Seq(S) => \A i \in 1 .. Len(q) : q[i] \in S
        OBVIOUS
      <4>4. Lsas[r] \in Seq([net : Nets, nbr : Routers \cup {Self, None}])
        OBVIOUS
      <4> QED
        BY <4>1, <4>2, <4>3, <4>4
    <3>4. e \in Entry
      <4> HIDE DEF lsa
      <4> QED
        BY <3>3 DEF Entry
    <3> HIDE DEF e
    <3>5. /\ topology' \in Seq(Entry) /\ Len(topology') = n + 1
          /\ \A i \in 2 .. n + 1 : topology'[i] = topology[i - 1]
      BY <1>1, <1>3, <3>1, <3>4, InFront
    <3>6. ASSUME NEW j \in 1 .. n PROVE topology'[(n + 1) + 1 - j] = topology[n + 1 - j]
      <4>1. (n + 1) + 1 - j \in 2 .. n + 1 /\ ((n + 1) + 1 - j) - 1 = n + 1 - j
        OBVIOUS
      <4> QED
        BY <3>5, <4>1
    <3> QED
      BY <3>5, <3>6
  <2>3. ASSUME NEW i \in Nets, Discover(i) PROVE topology' = topology
    BY <2>3 DEF Discover
  <2> HIDE DEF grown
  <2> QED
    BY <2>1, <2>2, <2>3
<1>5. \A t \in Tids : /\ run'[t] = [run[t] EXCEPT !.calm = FALSE]
                      /\ run[t] \in GoodRuns /\ run[t] \in Runs
  BY <1>1, <1>2 DEF Disturbed, GoodRuns
<1>6. \A t \in Tids : /\ run'[t].phase = run[t].phase /\ run'[t].left = run[t].left
                      /\ run'[t].heap = run[t].heap /\ run'[t].top = run[t].top
  <2> SUFFICES ASSUME NEW t \in Tids
               PROVE  /\ run'[t].phase = run[t].phase /\ run'[t].left = run[t].left
                      /\ run'[t].heap = run[t].heap /\ run'[t].top = run[t].top
    OBVIOUS
  <2> QED
    BY <1>5 DEF Runs
<1>7. TypeOK'
  <2>1. nid' \in [Nets -> Routers \cup {None}]
    BY DEF Discover, Learn, IInv, TypeOK
  <2>2. ASSUME NEW t \in Tids PROVE run'[t] \in Runs'
    <3>1. 0 .. n \subseteq 0 .. n + m
      OBVIOUS
    <3>2. run[t] \in [phase : {"idle", "clear", "walk", "search", "add", "link"}, left : 0 .. n + m,
                      heap : Seq(Item), top : Item \cup {NoItem}, calm : BOOLEAN]
      BY <1>3, <1>5, <3>1 DEF Runs
    <3> QED
      BY <1>4, <1>5, <3>2 DEF Runs
  <2>3. run' \in [Tids -> Runs']
    <3>1. run' = [t \in Tids |-> [run[t] EXCEPT !.calm = FALSE]]
      BY <1>2 DEF Disturbed
    <3> QED
      BY <2>2, <3>1
  <2> QED
    BY <1>2, <1>4, <2>1, <2>3 DEF IInv, TypeOK, Runs
<1>8. Searching'
  BY <1>6 DEF IInv, Searching
<1>9. OwnRoutesKept'
  BY <1>2 DEF IInv, OwnRoutesKept
<1>10. PromptInv'
  <2> SUFFICES ASSUME Prompt
               PROVE  /\ OwnAsRoutes' /\ NothingYet' /\ AllDirect' /\ Elsewhere'
                      /\ Behind' /\ DirectEnd'
    BY DEF PromptInv
  <2>1. OwnAsRoutes /\ AllDirect /\ Elsewhere /\ Behind /\ DirectEnd
    BY DEF IInv, PromptInv
  <2>2. OwnAsRoutes'
    BY <1>2, <2>1 DEF OwnAsRoutes
  <2>3. NothingYet'
    <3>1. boot' = Len(Ifaces)
      BY <1>2 DEF Listening
    <3> QED
      BY <3>1, OwnNetworks DEF NothingYet
  <2>4. ASSUME NEW t \in Tids, run'[t].phase \in {"search", "add", "link"}
        PROVE  Target(t)' = Target(t)
    <3>1. run[t].left \in 1 .. n
      <4>1. run[t].left \in 0 .. n /\ run[t].left > 0
        BY <1>3, <1>5, <1>6, <2>4 DEF Runs, GoodRuns
      <4> QED
        BY <4>1
    <3>2. Target(t) = topology[n + 1 - run[t].left]
      BY <1>3 DEF Target
    <3>3. Target(t)' = topology'[(n + m) + 1 - run[t].left]
      BY <1>4, <1>6 DEF Target
    <3> QED
      BY <1>4, <3>1, <3>2, <3>3
  <2>5. Elsewhere'
    BY <1>6, <2>1, <2>4 DEF Elsewhere
  <2>6. AllDirect' /\ DirectEnd'
    BY <1>2, <2>1 DEF AllDirect, DirectEnd
  <2>7. Behind'
    <3>1. \A w \in Writers : Writing(w)' <=> Writing(w)
      BY <1>2, <1>6 DEF Writing, Writers
    <3> QED
      BY <1>2, <2>1, <3>1 DEF Behind
  <2> QED
    BY <2>2, <2>3, <2>5, <2>6, <2>7
<1>11. Led'
  BY <1>2 DEF Led
<1>12. Booting'
  BY <1>2 DEF IInv, Booting
<1> QED
  BY <1>7, <1>8, <1>9, <1>10, <1>11, <1>12 DEF IInv

LEMMA StartStep ==
    ASSUME IInv, NEW t \in Tids, Start(t)
    PROVE  IInv'
<1> DEFINE calm == \A u \in Tids : run[u] = Idle
           r    == [Idle EXCEPT !.phase = "clear", !.calm = calm]
<1>1. /\ run \in [Tids -> GoodRuns] /\ routing_table \in Seq(Route)
      /\ UNCHANGED <<topology, nid, routing_table, boot, direct, end, torn>> /\ changed' = FALSE
      /\ run' = [Disturbed EXCEPT ![t] = r]
  BY RunIsGood DEF Start
<1>2. <<>> \in Heaps /\ 0 \in 0 .. Len(topology)
  <2>1. Len(topology) \in Nat
    BY RunIsGood
  <2> QED
    BY <2>1 DEF Heaps, Sorted
<1>3. r \in GoodRuns /\ r.phase = "clear"
  <2>1. Idle \in Runs /\ Idle.heap = <<>> /\ Idle.top = NoItem
    BY <1>2 DEF Idle, Runs
  <2>2. calm \in BOOLEAN
    OBVIOUS
  <2> HIDE DEF calm
  <2>3. r \in Runs /\ r.phase = "clear" /\ r.heap = <<>> /\ r.top = NoItem
    BY <2>1, <2>2 DEF Runs
  <2> HIDE DEF r
  <2> QED
    BY <1>2, <2>3 DEF GoodRuns
<1>4. \A u \in Tids \ {t} : /\ run'[u] \in GoodRuns
                            /\ run'[u].phase = run[u].phase /\ run'[u].left = run[u].left
                            /\ run'[u].heap = run[u].heap /\ run'[u].top = run[u].top
  <2> SUFFICES ASSUME NEW u \in Tids \ {t}
               PROVE  /\ run'[u] \in GoodRuns
                      /\ run'[u].phase = run[u].phase /\ run'[u].left = run[u].left
                      /\ run'[u].heap = run[u].heap /\ run'[u].top = run[u].top
    OBVIOUS
  <2> HIDE DEF r
  <2>1. run'[u] = [run[u] EXCEPT !.calm = FALSE] /\ run[u] \in GoodRuns
    BY <1>1 DEF Disturbed
  <2> QED
    BY <2>1 DEF GoodRuns, Runs
<1>5. run' \in [Tids -> GoodRuns] /\ run'[t] = r
  <2> HIDE DEF r
  <2>1. run'[t] = r /\ DOMAIN run' = Tids /\ run' = [u \in Tids |-> run'[u]]
    BY <1>1 DEF Disturbed
  <2> QED
    BY <1>3, <1>4, <2>1
<1> HIDE DEF r, calm
<1>6. TypeOK'
  <2>1. run' \in [Tids -> Runs]
    BY <1>5 DEF GoodRuns
  <2> QED
    BY <1>1, <2>1 DEF IInv, TypeOK, Runs
<1>7. Searching'
  <2> SUFFICES ASSUME NEW u \in Tids
               PROVE  /\ run'[u].heap \in Heaps
                      /\ run'[u].top # NoItem => run'[u].top.cost >= 1
                      /\ run'[u].phase \in {"search", "add", "link"} => run'[u].left > 0
                      /\ run'[u].phase = "link" => run'[u].top # NoItem
    BY DEF Searching
  <2> QED
    BY <1>5 DEF GoodRuns
<1>8. OwnRoutesKept'
  BY <1>1 DEF IInv, OwnRoutesKept
<1>9. PromptInv'
  <2> SUFFICES ASSUME Prompt
               PROVE  /\ OwnAsRoutes' /\ NothingYet' /\ AllDirect' /\ Elsewhere'
                      /\ Behind' /\ DirectEnd'
    BY DEF PromptInv
  <2>1. OwnAsRoutes /\ NothingYet /\ AllDirect /\ Elsewhere /\ Behind /\ DirectEnd
    BY DEF IInv, PromptInv
  <2>2. OwnAsRoutes' /\ NothingYet' /\ AllDirect' /\ DirectEnd'
    BY <1>1, <2>1 DEF OwnAsRoutes, NothingYet, AllDirect, DirectEnd
  <2>3. ASSUME NEW u \in Tids, run'[u].phase \in {"search", "add", "link"}
        PROVE  Target(u)'.net \notin Own
    <3>1. u # t
      BY <1>3, <1>5, <2>3
    <3> QED
      BY <1>1, <1>4, <2>1, <2>3, <3>1 DEF Elsewhere, Target
  <2>4. Behind'
    <3>1. \A w \in Writers : Writing(w)' => Writing(w)
      BY <1>1, <1>3, <1>4, <1>5 DEF Writing, Writers
    <3> QED
      BY <1>1, <2>1, <3>1 DEF Behind
  <2> QED
    BY <2>2, <2>3, <2>4 DEF Elsewhere
<1>10. Led'
  BY <1>3, <1>5 DEF Led
<1>11. Booting'
  BY <1>1 DEF IInv, Booting
<1> QED
  BY <1>6, <1>7, <1>8, <1>9, <1>10, <1>11 DEF IInv

\* A step of one run that leaves the table alone.
LEMMA RunStep ==
    ASSUME IInv, NEW t \in Tids, NEW r \in GoodRuns, run' = [run EXCEPT ![t] = r],
           UNCHANGED <<topology, nid, routing_table, boot, direct, changed, torn>>,
           (UNCHANGED end /\ r.phase # "link") \/ FoundEnd(t),
           Prompt /\ r.phase \in {"search", "add", "link"} => FromEnd(r.left).net \notin Own,
           Hop /\ (run[t].phase = "clear" \/ Leads(t)) => Leads(t)' \/ Routed'
    PROVE  IInv'
<1>0. PICK L \in Nat : L = Len(routing_table) /\ DOMAIN routing_table = 1 .. L
  BY RunIsGood
<1>5. /\ end' \in [Writers -> Gone .. L] /\ \A w \in Writers \ {t} : end'[w] = end[w]
      /\ r.phase = "link" => end'[t] = L
  <2>1. end \in [Writers -> Gone .. L] /\ t \in Writers /\ L \in Gone .. L
    BY <1>0, RunIsGood DEF Writers, Gone
  <2>2. CASE UNCHANGED end /\ r.phase # "link"
    BY <2>1, <2>2
  <2>3. CASE FoundEnd(t)
    <3>1. end' = [end EXCEPT ![t] = L]
      BY <1>0, <2>3 DEF FoundEnd
    <3> QED
      BY <2>1, <3>1
  <2> QED
    BY <2>2, <2>3
<1>1. /\ TypeOK' /\ Searching' /\ Booting' /\ (NothingYet => NothingYet')
      /\ run'[t] = r /\ \A u \in Tids \ {t} : run'[u] = run[u]
  <2>1. routing_table' \in Seq(Route) /\ torn' \in BOOLEAN
    BY RunIsGood DEF IInv, TypeOK
  <2>2. end' \in [Writers -> Gone .. Len(routing_table')]
    BY <1>0, <1>5
  <2> QED
    BY <2>1, <2>2, RunTypes
<1>2. OwnRoutesKept'
  BY DEF IInv, OwnRoutesKept
<1>3. PromptInv'
  <2> SUFFICES ASSUME Prompt
               PROVE  /\ OwnAsRoutes' /\ NothingYet' /\ AllDirect' /\ Elsewhere'
                      /\ Behind' /\ DirectEnd'
    BY DEF PromptInv
  <2>1. OwnAsRoutes /\ NothingYet /\ AllDirect /\ Elsewhere /\ Behind /\ DirectEnd
    BY DEF IInv, PromptInv
  <2>2. OwnAsRoutes' /\ AllDirect'
    BY <2>1 DEF OwnAsRoutes, AllDirect
  <2>3. ASSUME NEW u \in Tids, run'[u].phase \in {"search", "add", "link"}
        PROVE  Target(u)'.net \notin Own
    <3>1. CASE u = t
      BY <1>1, <2>3, <3>1 DEF Target, FromEnd
    <3>2. CASE u # t
      BY <1>1, <2>1, <2>3, <3>2 DEF Elsewhere, Target
    <3> QED
      BY <3>1, <3>2
  <2>4. Behind'
    <3> SUFFICES ASSUME NEW w \in Writers, Writing(w)', end'[w] # Gone,
                        NEW i \in 1 .. L, ~routing_table[i].dynamic
                 PROVE  i <= end'[w]
      BY <1>0 DEF Behind
    <3>1. CASE w = t
      <4>1. r.phase = "link"
        BY <1>1, <3>1 DEF Writing
      <4> QED
        BY <1>5, <3>1, <4>1
    <3>2. CASE w # t
      <4>1. Writing(w)
        BY <1>1, <3>2 DEF Writing, Writers
      <4> QED
        BY <1>0, <1>5, <2>1, <3>2, <4>1 DEF Behind
    <3> QED
      BY <3>1, <3>2
  <2>5. DirectEnd'
    BY <1>5, <2>1 DEF DirectEnd, Writers
  <2> QED
    BY <1>1, <2>1, <2>2, <2>3, <2>4, <2>5 DEF Elsewhere
<1>4. Led'
  <2>1. \A n : HasRoute(n) => HasRoute(n)'
    BY DEF HasRoute
  <2> QED
    BY <1>1, <1>5, <2>1, LedKept DEF IInv, Writers
<1> QED
  BY <1>1, <1>2, <1>3, <1>4 DEF IInv

\* What a search looks for is not a network of the router's own.
LEMMA NotOwn ==
    ASSUME IInv, Prompt, NEW j \in 1 .. Len(topology), ~HasRoute(FromEnd(j).net)
    PROVE  FromEnd(j).net \notin Own
<1> SUFFICES ASSUME FromEnd(j).net \in Own PROVE FALSE
  OBVIOUS
<1>1. PICK k \in 1 .. Len(Ifaces) : FromEnd(j).net = Ifaces[k]
  BY OwnNetworks
<1>2. topology # <<>>
  BY RunIsGood
<1>3. boot = Len(Ifaces)
  <2>1. ~(boot < Len(Ifaces)) /\ boot \in 0 .. Len(Ifaces)
    BY <1>2 DEF IInv, PromptInv, NothingYet, TypeOK
  <2> QED
    BY <2>1, OwnNetworks
<1>4. KeptFor(routing_table, k)
  BY <1>1, <1>3, KeptForAll DEF IInv
<1> QED
  BY <1>1, <1>4 DEF KeptFor, HasRoute

LEMMA SkipStep ==
    ASSUME IInv, NEW t \in Tids, Skip(t)
    PROVE  IInv'
<1> DEFINE r == [run[t] EXCEPT !.left = @ - 1]
<1>1. /\ run \in [Tids -> GoodRuns] /\ run[t] \in Runs
      /\ run' = [run EXCEPT ![t] = r] /\ UNCHANGED <<topology, nid, routing_table, boot, direct, end, changed, torn>>
      /\ run[t].phase = "walk" /\ run[t].left > 0 /\ HasRoute(FromEnd(run[t].left).net)
  BY RunIsGood DEF Skip, GoodRuns, Target, FromEnd
<1>2. PICK n \in Nat : n = Len(topology)
  BY RunIsGood
<1>3. run[t].left \in 1 .. n
  BY <1>1, <1>2 DEF Runs
<1>4. r \in GoodRuns /\ r.phase = "walk" /\ r.left = run[t].left - 1
  <2>1. run[t].left - 1 \in 0 .. n
    BY <1>3
  <2>2. /\ r \in Runs /\ r.phase = "walk" /\ r.left = run[t].left - 1
        /\ r.heap = run[t].heap /\ r.top = run[t].top
    BY <1>1, <1>2, <2>1 DEF Runs
  <2>3. run[t] \in GoodRuns
    BY <1>1
  <2> HIDE DEF r
  <2> QED
    BY <2>2, <2>3 DEF GoodRuns
<1>5. run'[t] = r
  BY <1>1
<1> HIDE DEF r
<1>6. ASSUME Leads(t) PROVE Leads(t)'
  <2>1. \A j \in run[t].left + 1 .. n : HasRoute(FromEnd(j).net)
    BY <1>2, <1>6 DEF Leads
  <2>2. ASSUME NEW j \in r.left + 1 .. n PROVE HasRoute(FromEnd(j).net)
    <3>1. j = run[t].left \/ j \in run[t].left + 1 .. n
      BY <1>3, <1>4
    <3> QED
      BY <1>1, <2>1, <3>1
  <2>3. ASSUME NEW j \in r.left + 1 .. n PROVE HasRoute(FromEnd(j).net)'
    BY <1>1, <2>2 DEF HasRoute, FromEnd
  <2> QED
    BY <1>1, <1>2, <1>4, <1>5, <2>3 DEF Leads
<1> QED
  BY <1>1, <1>4, <1>6, RunStep

LEMMA SearchStep ==
    ASSUME IInv, NEW t \in Tids, Search(t)
    PROVE  IInv'
<1> DEFINE h == WithFirstHops(run[t].heap)
           r == [run[t] EXCEPT !.phase = "search", !.top = NoItem, !.heap = h]
<1>1. /\ run \in [Tids -> GoodRuns] /\ run[t] \in Runs /\ run[t].heap \in Heaps
      /\ run' = [run EXCEPT ![t] = r] /\ UNCHANGED <<topology, nid, routing_table, boot, direct, end, changed, torn>>
      /\ run[t].phase = "walk" /\ run[t].left > 0 /\ ~HasRoute(FromEnd(run[t].left).net)
  BY RunIsGood DEF Search, GoodRuns, Target, FromEnd
<1>2. h \in Heaps /\ (Hop => \E i \in DOMAIN h : h[i].nbr # None)
  <2>1. nid \in [Nets -> Routers \cup {None}]
    BY RunIsGood
  <2> QED
    BY <1>1, <2>1, FirstHopsHeap
<1> HIDE DEF h
<1>3. PICK n \in Nat : n = Len(topology)
  BY RunIsGood
<1>4. run[t].left \in 1 .. n
  BY <1>1, <1>3 DEF Runs
<1>5. r \in GoodRuns /\ r.phase = "search" /\ r.left = run[t].left /\ r.heap = h
  <2>1. h \in Seq(Item)
    BY <1>2 DEF Heaps
  <2>2. /\ r \in Runs /\ r.phase = "search" /\ r.left = run[t].left /\ r.heap = h
        /\ r.top = NoItem
    BY <1>1, <2>1 DEF Runs
  <2> HIDE DEF r
  <2> QED
    BY <1>1, <1>2, <2>2 DEF GoodRuns
<1>6. run'[t] = r
  BY <1>1
<1> HIDE DEF r
<1>7. Prompt => FromEnd(r.left).net \notin Own
  BY <1>1, <1>3, <1>4, <1>5, NotOwn
<1>8. ASSUME Hop, Leads(t) PROVE Leads(t)'
  <2>1. \A j \in run[t].left + 1 .. n : HasRoute(FromEnd(j).net)
    BY <1>3, <1>8 DEF Leads
  <2>2. ASSUME NEW j \in r.left + 1 .. n PROVE HasRoute(FromEnd(j).net)'
    BY <1>1, <1>5, <2>1 DEF HasRoute, FromEnd
  <2>3. \E i \in DOMAIN r.heap : r.heap[i].nbr # None
    BY <1>2, <1>5, <1>8
  <2> QED
    BY <1>1, <1>3, <1>5, <1>6, <2>2, <2>3 DEF Leads
<1> QED
  BY <1>1, <1>5, <1>7, <1>8, RunStep

LEMMA TailHeap ==
    ASSUME NEW h \in Heaps, h # <<>>
    PROVE  /\ Head(h) = h[1] /\ h[1] \in Item /\ h[1].cost >= 1
           /\ Tail(h) \in Heaps
           /\ \A i \in DOMAIN h : i # 1 => i - 1 \in DOMAIN Tail(h) /\ Tail(h)[i - 1] = h[i]
<1>1. PICK n \in Nat : n = Len(h)
  BY HeapType
<1>2. /\ h \in Seq(Item) /\ DOMAIN h = 1 .. n
      /\ \A i \in 1 .. n : h[i] \in Item /\ h[i].cost \in Nat /\ h[i].cost >= 1
      /\ \A i, j \in 1 .. n : i < j => h[i].cost <= h[j].cost
  BY <1>1, HeapType
<1>3. n # 0 /\ 1 \in 1 .. n
  BY <1>1, <1>2
<1> DEFINE r == Tail(h)
<1>4. /\ r \in Seq(Item) /\ DOMAIN r = 1 .. n - 1
      /\ \A i \in 1 .. n - 1 : i + 1 \in 1 .. n /\ r[i] = h[i + 1]
  BY <1>1, <1>2, <1>3
<1> HIDE DEF r
<1>5. Sorted(r)
  <2> SUFFICES ASSUME NEW i \in 1 .. n - 1, NEW j \in 1 .. n - 1, i < j
               PROVE  r[i].cost <= r[j].cost
    BY <1>4 DEF Sorted
  <2> QED
    BY <1>2, <1>4
<1>6. \A i \in DOMAIN r : r[i].cost >= 1
  BY <1>2, <1>4
<1>7. r \in Heaps
  BY <1>4, <1>5, <1>6 DEF Heaps
<1>8. \A i \in 1 .. n : i # 1 => i - 1 \in 1 .. n - 1 /\ r[i - 1] = h[i]
  <2> SUFFICES ASSUME NEW i \in 1 .. n, i # 1
               PROVE  i - 1 \in 1 .. n - 1 /\ r[i - 1] = h[i]
    OBVIOUS
  <2>1. i - 1 \in 1 .. n - 1 /\ (i - 1) + 1 = i
    OBVIOUS
  <2> QED
    BY <1>4, <2>1
<1> QED
  BY <1>2, <1>3, <1>4, <1>7, <1>8 DEF r

LEMMA PopStep ==
    ASSUME IInv, NEW t \in Tids, Pop(t)
    PROVE  IInv'
<1> DEFINE item  == Head(run[t].heap)
           rest  == Tail(run[t].heap)
           found == item.net = Target(t).net
           h     == IF found \/ item.nbr = None THEN rest ELSE Expanded(rest, item)
           top   == IF found \/ item.nbr # None THEN item ELSE run[t].top
           phase == IF found THEN "add" ELSE "search"
           r     == [run[t] EXCEPT !.heap = h, !.top = top, !.phase = phase]
<1>1. /\ run \in [Tids -> GoodRuns] /\ run[t] \in Runs /\ run[t].heap \in Heaps
      /\ run' = [run EXCEPT ![t] = r] /\ UNCHANGED <<topology, nid, routing_table, boot, direct, end, changed, torn>>
      /\ run[t].phase = "search" /\ run[t].heap # <<>> /\ run[t].left > 0
      /\ run[t].top # NoItem => run[t].top.cost >= 1
  <2>1. /\ run' = [run EXCEPT ![t] = r] /\ UNCHANGED <<topology, nid, routing_table, boot, direct, end, changed, torn>>
        /\ run[t].phase = "search" /\ run[t].heap # <<>>
    BY Zenon DEF Pop
  <2>2. run[t] \in GoodRuns
    BY RunIsGood
  <2> HIDE DEF r
  <2> QED
    BY <2>1, <2>2, RunIsGood DEF GoodRuns
<1>2. /\ item = run[t].heap[1] /\ item \in Item /\ item.cost >= 1 /\ rest \in Heaps
      /\ \A i \in DOMAIN run[t].heap : i # 1 =>
            i - 1 \in DOMAIN rest /\ rest[i - 1] = run[t].heap[i]
  BY <1>1, TailHeap
<1>3. item # NoItem
  BY <1>2 DEF NoItem
<1>4. Expanded(rest, item) \in Heaps
  <2>1. topology \in Seq(Entry)
    BY RunIsGood
  <2> HIDE DEF item, rest
  <2> QED
    BY <1>2, <2>1, ExpandedHeap
<1> HIDE DEF item, rest, found
<1>5. h \in Heaps /\ top \in Item \cup {NoItem} /\ (top # NoItem => top.cost >= 1)
      /\ phase \in {"search", "add"}
  BY <1>1, <1>2, <1>4 DEF Runs
<1>6. ASSUME Leads(t)
      PROVE  (phase = "add" => top # NoItem) /\
             (phase = "search" => top # NoItem \/ \E i \in DOMAIN h : h[i].nbr # None)
  <2>1. CASE found \/ item.nbr # None
    BY <1>3, <2>1
  <2>2. CASE ~found /\ item.nbr = None
    <3>1. run[t].top # NoItem \/ \E i \in DOMAIN run[t].heap : run[t].heap[i].nbr # None
      BY <1>1, <1>6 DEF Leads
    <3>2. ASSUME NEW i \in DOMAIN run[t].heap, run[t].heap[i].nbr # None
          PROVE  \E j \in DOMAIN rest : rest[j].nbr # None
      <4>1. i # 1
        BY <1>2, <2>2, <3>2
      <4> QED
        BY <1>2, <3>2, <4>1
    <3> QED
      BY <2>2, <3>1, <3>2
  <2> QED
    BY <2>1, <2>2
<1> HIDE DEF h, top, phase
<1>7. r \in GoodRuns /\ r.phase = phase /\ r.left = run[t].left /\ r.heap = h /\ r.top = top
  <2>1. h \in Seq(Item)
    BY <1>5 DEF Heaps
  <2>2. /\ r \in Runs /\ r.phase = phase /\ r.left = run[t].left /\ r.heap = h
        /\ r.top = top
    BY <1>1, <1>5, <2>1 DEF Runs
  <2> HIDE DEF r
  <2> QED
    BY <1>1, <1>5, <2>2 DEF GoodRuns
<1>8. run' = [run EXCEPT ![t] = r] /\ run'[t] = r
  BY <1>1
<1> HIDE DEF r
<1>9. Prompt => FromEnd(r.left).net \notin Own
  BY <1>1, <1>7 DEF IInv, PromptInv, Elsewhere, Target, FromEnd
<1>10. ASSUME Leads(t) PROVE Leads(t)'
  <2>1. ASSUME NEW j \in r.left + 1 .. Len(topology) PROVE HasRoute(FromEnd(j).net)'
    BY <1>1, <1>7, <1>10, <2>1 DEF Leads, HasRoute, FromEnd
  <2> QED
    BY <1>1, <1>5, <1>6, <1>7, <1>8, <1>10, <2>1 DEF Leads
<1>11. r.phase # "link"
  BY <1>5, <1>7
<1> QED
  BY <1>1, <1>7, <1>8, <1>9, <1>10, <1>11, RunStep

LEMMA ExhaustedStep ==
    ASSUME IInv, NEW t \in Tids, Exhausted(t)
    PROVE  IInv'
<1> DEFINE r == [run[t] EXCEPT !.phase = "add"]
<1>1. /\ run \in [Tids -> GoodRuns] /\ run[t] \in GoodRuns /\ run[t] \in Runs
      /\ run' = [run EXCEPT ![t] = r] /\ UNCHANGED <<topology, nid, routing_table, boot, direct, end, changed, torn>>
      /\ run[t].phase = "search" /\ run[t].heap = <<>> /\ run[t].left > 0
  BY RunIsGood DEF Exhausted, GoodRuns
<1>2. r \in GoodRuns /\ r.phase = "add" /\ r.left = run[t].left /\ r.top = run[t].top
  <2>1. /\ r \in Runs /\ r.phase = "add" /\ r.left = run[t].left /\ r.heap = run[t].heap
        /\ r.top = run[t].top
    BY <1>1 DEF Runs
  <2> HIDE DEF r
  <2> QED
    BY <1>1, <2>1 DEF GoodRuns
<1>3. run'[t] = r
  BY <1>1
<1> HIDE DEF r
<1>4. Prompt => FromEnd(r.left).net \notin Own
  BY <1>1, <1>2 DEF IInv, PromptInv, Elsewhere, Target, FromEnd
<1>5. ASSUME Leads(t) PROVE Leads(t)'
  <2>1. ASSUME NEW j \in r.left + 1 .. Len(topology) PROVE HasRoute(FromEnd(j).net)'
    BY <1>1, <1>2, <1>5, <2>1 DEF Leads, HasRoute, FromEnd
  <2>2. r.top # NoItem
    BY <1>1, <1>2, <1>5 DEF Leads
  <2> QED
    BY <1>1, <1>2, <1>3, <2>1, <2>2 DEF Leads
<1> QED
  BY <1>1, <1>2, <1>4, <1>5, RunStep

LEMMA FinishStep ==
    ASSUME IInv, NEW t \in Tids, Finish(t)
    PROVE  IInv'
<1>1. /\ run' = [run EXCEPT ![t] = Idle] /\ UNCHANGED <<topology, nid, routing_table, boot, direct, end, changed, torn>>
      /\ run[t].phase = "walk" /\ run[t].left = 0
  BY DEF Finish
<1>2. Idle \in GoodRuns /\ Idle.phase = "idle"
  <2>1. <<>> \in Heaps /\ 0 \in 0 .. Len(topology)
    <3>1. Len(topology) \in Nat
      BY RunIsGood
    <3> QED
      BY <3>1 DEF Heaps, Sorted
  <2>2. Idle \in Runs /\ Idle.heap = <<>> /\ Idle.top = NoItem /\ Idle.phase = "idle"
    BY <2>1 DEF Idle, Runs
  <2> QED
    BY <2>1, <2>2 DEF GoodRuns
<1>3. ASSUME Leads(t) PROVE Routed'
  <2>1. \A j \in 1 .. Len(topology) : HasRoute(FromEnd(j).net)
    BY <1>1, <1>3 DEF Leads
  <2> QED
    BY <1>1, <2>1 DEF Routed, HasRoute, FromEnd
<1> QED
  BY <1>1, <1>2, <1>3, RunStep

\* A run clears the table: it leads from now on, and nobody else may.
LEMMA ClearStep ==
    ASSUME IInv, NEW t \in Tids, Clear(t)
    PROVE  IInv'
<1> DEFINE r == [run[t] EXCEPT !.phase = "walk", !.left = ToWalk]
<1>1. /\ run \in [Tids -> GoodRuns] /\ run[t] \in GoodRuns /\ run[t] \in Runs
      /\ run' = [run EXCEPT ![t] = r] /\ UNCHANGED <<topology, nid, boot, direct, changed>>
      /\ run[t].phase = "clear" /\ routing_table \in Seq(Route) /\ torn' = FALSE
  BY RunIsGood DEF Clear, ClearRoutes, GoodRuns
<1>2. PICK n \in Nat : n = Len(topology)
  BY RunIsGood
<1>3. r \in GoodRuns /\ r.phase = "walk" /\ r.left = n
  <2>1. /\ r \in Runs /\ r.phase = "walk" /\ r.left = n /\ r.heap = run[t].heap
        /\ r.top = run[t].top
    <3>1. ToWalk = n /\ n \in 0 .. n
      BY <1>2 DEF ToWalk
    <3> QED
      BY <1>1, <1>2, <3>1 DEF Runs
  <2> HIDE DEF r
  <2> QED
    BY <1>1, <2>1 DEF GoodRuns
<1> HIDE DEF r
<1>4. PICK L \in Nat : L = Len(routing_table)
  BY <1>1
<1>5. DOMAIN routing_table = 1 .. L /\ \A i \in 1 .. L : routing_table[i] \in Route
  BY <1>1, <1>4
<1>6. PICK kept : /\ kept = Listing(Kept)
                 /\ routing_table' = [i \in DOMAIN kept |-> routing_table[kept[i]]]
  BY DEF Clear, ClearRoutes
<1>7. /\ Cardinality(Kept) \in Nat /\ DOMAIN kept = 1 .. Cardinality(Kept)
      /\ \A i \in DOMAIN kept : kept[i] \in Kept
      /\ \A i, j \in DOMAIN kept : kept[i] = kept[j] => i = j
      /\ \A k \in Kept : \E i \in DOMAIN kept : kept[i] = k
      /\ Kept \in SUBSET (1 .. L) /\ \A i \in DOMAIN kept : Rank(Kept, kept[i]) = i
  <2>1. Kept \in SUBSET (1 .. L)
    BY <1>5 DEF Kept
  <2> QED
    BY <1>6, <2>1, ListingProperties
<1>8. /\ DOMAIN routing_table' = DOMAIN kept
      /\ \A i \in DOMAIN kept : /\ kept[i] \in DOMAIN routing_table
                                /\ routing_table'[i] = routing_table[kept[i]]
  <2>1. \A i \in DOMAIN kept : kept[i] \in DOMAIN routing_table
    BY <1>7 DEF Kept
  <2> QED
    BY <1>6, <2>1
<1>9. routing_table' \in Seq(Route)
  <2>1. \A i \in 1 .. Cardinality(Kept) : routing_table[kept[i]] \in Route
    BY <1>5, <1>7, <1>8
  <2>2. routing_table' \in [1 .. Cardinality(Kept) -> Route]
    BY <1>6, <1>7, <2>1
  <2>3. PICK c \in Nat : c = Cardinality(Kept)
    BY <1>7
  <2>4. routing_table' \in [1 .. c -> Route]
    BY <2>2, <2>3
  <2> QED
    BY ONLY <2>4, c \in Nat
<1>14. /\ \A i \in Kept : Rank(Kept, i) \in 1 .. Cardinality(Kept)
       /\ \A i, k \in Kept : i < k => Rank(Kept, i) < Rank(Kept, k)
  BY <1>7, RankProperties
<1>15. \A w \in Writers :
          /\ end[w] \in Gone .. L
          /\ end[w] = 0 => end'[w] = 0
          /\ end[w] \in Kept => end'[w] = Rank(Kept, end[w])
          /\ end[w] # 0 /\ end[w] \notin Kept => end'[w] = Gone
  <2> TAKE w \in Writers
  <2>1. end[w] \in Gone .. L
    BY <1>4, RunIsGood
  <2>2. end'[w] = Remaining(end[w])
    BY DEF Clear, ClearRoutes
  <2>3. 0 \notin Kept
    BY <1>7
  <2> QED
    BY <2>1, <2>2, <2>3 DEF Remaining
<1>16. end' \in [Writers -> Gone .. Len(routing_table')]
  <2>1. Len(routing_table') = Cardinality(Kept)
    BY <1>7, <1>8, <1>9
  <2>2. ASSUME NEW w \in Writers PROVE end'[w] \in Gone .. Cardinality(Kept)
    <3>1. end'[w] \in {0, Gone} \/ end'[w] \in 1 .. Cardinality(Kept)
      BY <1>14, <1>15
    <3> QED
      BY <1>7, <3>1 DEF Gone
  <2>3. end' = [w \in Writers |-> end'[w]]
    BY DEF Clear, ClearRoutes
  <2> QED
    BY <2>1, <2>2, <2>3
<1>10. /\ TypeOK' /\ Searching' /\ Booting' /\ (NothingYet => NothingYet')
       /\ run'[t] = r /\ \A u \in Tids \ {t} : run'[u] = run[u]
  BY <1>1, <1>3, <1>9, <1>16, RunTypes
<1>11. OwnRoutesKept'
  <2> SUFFICES ASSUME Prompt, NEW k \in 1 .. boot PROVE KeptFor(routing_table', k)
    BY <1>1, KeptForAll
  <2>1. KeptFor(routing_table, k)
    BY KeptForAll DEF IInv
  <2>2. PICK i \in DOMAIN routing_table :
            /\ ~routing_table[i].dynamic
            /\ \A j \in DOMAIN routing_table : routing_table[j].dest = Ifaces[k] <=> i = j
    BY <2>1 DEF KeptFor
  <2>3. PICK l \in DOMAIN kept : kept[l] = i
    <3>1. i \in Kept
      BY <2>2 DEF Kept
    <3> QED
      BY <1>7, <3>1
  <2>4. l \in DOMAIN routing_table' /\ ~routing_table'[l].dynamic
    BY <1>8, <2>2, <2>3
  <2>5. ASSUME NEW j \in DOMAIN routing_table'
        PROVE  routing_table'[j].dest = Ifaces[k] <=> l = j
    <3>1. j \in DOMAIN kept /\ kept[j] \in DOMAIN routing_table
      BY <1>8
    <3>2. routing_table[kept[j]].dest = Ifaces[k] <=> i = kept[j]
      BY <2>2, <3>1
    <3>3. i = kept[j] <=> l = j
      BY <1>7, <2>3, <3>1
    <3> QED
      BY <1>8, <3>1, <3>2, <3>3
  <2> QED
    BY <2>4, <2>5 DEF KeptFor
<1>12. PromptInv'
  <2> SUFFICES ASSUME Prompt
               PROVE  /\ OwnAsRoutes' /\ NothingYet' /\ AllDirect' /\ Elsewhere'
                      /\ Behind' /\ DirectEnd'
    BY DEF PromptInv
  <2>1. OwnAsRoutes /\ NothingYet /\ AllDirect /\ Elsewhere /\ Behind /\ DirectEnd
    BY DEF IInv, PromptInv
  <2>2. OwnAsRoutes'
    BY <1>1, <1>8, <2>1 DEF OwnAsRoutes
  <2>3. ASSUME NEW u \in Tids, run'[u].phase \in {"search", "add", "link"}
        PROVE  Target(u)'.net \notin Own
    <3>1. u # t
      BY <1>3, <1>10, <2>3
    <3> QED
      BY <1>1, <1>10, <2>1, <2>3, <3>1 DEF Elsewhere, Target
  <2>4. AllDirect'
    BY <1>1, <1>8, <2>1 DEF AllDirect
  <2>5. DirectEnd'
    <3> SUFFICES ASSUME direct = "link" PROVE end'[Main] # Gone
      BY <1>1 DEF DirectEnd
    <3>1. \A i \in 1 .. L : ~routing_table[i].dynamic
      BY <1>5, <2>1 DEF IInv, Booting, AllDirect
    <3>2. Kept = 1 .. L
      BY <1>5, <3>1 DEF Kept
    <3>3. Main \in Writers /\ end[Main] # Gone
      BY <2>1 DEF DirectEnd, Writers
    <3>4. end[Main] = 0 \/ end[Main] \in Kept
      BY <1>15, <3>2, <3>3 DEF Gone
    <3>5. end'[Main] = 0 \/ end'[Main] \in 1 .. Cardinality(Kept)
      BY <1>14, <1>15, <3>3, <3>4
    <3> QED
      BY <1>7, <3>5 DEF Gone
  <2>6. Behind'
    <3> SUFFICES ASSUME NEW w \in Writers, Writing(w)', end'[w] # Gone,
                        NEW i \in DOMAIN kept, ~routing_table'[i].dynamic
                 PROVE  i <= end'[w]
      BY <1>8 DEF Behind
    <3>1. Writing(w)
      BY <1>1, <1>3, <1>10 DEF Writing, Writers
    <3>2. /\ kept[i] \in Kept /\ kept[i] \in 1 .. L /\ ~routing_table[kept[i]].dynamic
          /\ Rank(Kept, kept[i]) = i
      BY <1>7, <1>8
    <3>3. end[w] # Gone
      BY <1>7, <1>15 DEF Gone
    <3>4. kept[i] <= end[w]
      BY <1>5, <2>1, <3>1, <3>2, <3>3 DEF Behind
    <3>5. end[w] \in Kept /\ end'[w] = Rank(Kept, end[w])
      BY <1>15, <3>2, <3>4
    <3>6. kept[i] = end[w] \/ kept[i] < end[w]
      BY <1>15, <3>2, <3>4 DEF Gone
    <3>7. i = end'[w] \/ i < end'[w]
      BY <1>14, <3>2, <3>5, <3>6
    <3>8. i \in Nat /\ end'[w] \in Nat
      <4>1. DOMAIN kept = 1 .. Cardinality(Kept) /\ Cardinality(Kept) \in Nat
        BY <1>7
      <4>2. i \in 1 .. Cardinality(Kept)
        BY Zenon, <4>1
      <4>3. end'[w] \in 1 .. Cardinality(Kept)
        BY Zenon, <1>14, <3>5
      <4> QED
        BY <4>1, <4>2, <4>3
    <3> QED
      BY <3>7, <3>8
  <2> QED
    BY <1>10, <2>1, <2>2, <2>3, <2>4, <2>5, <2>6 DEF Elsewhere
<1>13. Led'
  <2>1. \A j \in n + 1 .. n : FALSE
    OBVIOUS
  <2>2. Leads(t)'
    BY <1>1, <1>2, <1>3, <1>10, <2>1 DEF Leads
  <2> QED
    BY <2>2 DEF Led
<1> QED
  BY <1>10, <1>11, <1>12, <1>13 DEF IInv

\* A run goes on to the next entry.
LEMMA OneLess ==
    ASSUME IInv, NEW t \in Tids, run[t].phase \in {"add", "link"},
           NEW r, r = [run[t] EXCEPT !.phase = "walk", !.left = @ - 1]
    PROVE  /\ r \in GoodRuns /\ r.phase = "walk" /\ r.left = run[t].left - 1
           /\ r.heap = run[t].heap /\ r.calm = run[t].calm
           /\ run[t].left \in 1 .. Len(topology) /\ run[t].left - 1 \in 0 .. Len(topology)
<1>1. PICK n \in Nat : n = Len(topology)
  BY RunIsGood
<1>2. run[t] \in GoodRuns /\ run[t] \in Runs /\ run[t].left > 0
  BY RunIsGood DEF GoodRuns
<1>3. run[t].left \in 1 .. n /\ run[t].left - 1 \in 0 .. n
  <2>1. run[t].left \in 0 .. n
    BY <1>1, <1>2 DEF Runs
  <2> QED
    BY <1>2, <2>1
<1>4. /\ r \in Runs /\ r.phase = "walk" /\ r.left = run[t].left - 1
      /\ r.heap = run[t].heap /\ r.top = run[t].top /\ r.calm = run[t].calm
  BY <1>1, <1>2, <1>3 DEF Runs
<1>5. r \in GoodRuns
  BY <1>2, <1>4 DEF GoodRuns
<1> QED
  BY <1>1, <1>3, <1>4, <1>5

\* No path was found: the run goes on without a route.
LEMMA NoPathStep ==
    ASSUME IInv, NEW t \in Tids, NoPath(t)
    PROVE  IInv'
<1> DEFINE r == [run[t] EXCEPT !.phase = "walk", !.left = @ - 1]
<1>1. /\ run \in [Tids -> GoodRuns] /\ run[t] \in GoodRuns /\ run[t] \in Runs
      /\ run' = [run EXCEPT ![t] = r]
      /\ UNCHANGED <<topology, nid, routing_table, boot, direct, end, changed, torn>>
      /\ run[t].phase = "add" /\ run[t].top = NoItem
  BY RunIsGood DEF NoPath, GoodRuns
<1>2. r \in GoodRuns /\ r.phase = "walk"
  BY <1>1, OneLess
<1> HIDE DEF r
<1>3. ~Leads(t)
  BY <1>1 DEF Leads
<1> QED
  BY <1>1, <1>2, <1>3, RunStep

\* The run has found the end of the table.
LEMMA FindEndStep ==
    ASSUME IInv, NEW t \in Tids, FindEnd(t)
    PROVE  IInv'
<1> DEFINE r == [run[t] EXCEPT !.phase = "link"]
<1>1. /\ run \in [Tids -> GoodRuns] /\ run[t] \in GoodRuns /\ run[t] \in Runs
      /\ run' = [run EXCEPT ![t] = r]
      /\ UNCHANGED <<topology, nid, routing_table, boot, direct, changed, torn>> /\ FoundEnd(t)
      /\ run[t].phase = "add" /\ run[t].top # NoItem /\ run[t].left > 0
  BY RunIsGood DEF FindEnd, GoodRuns
<1>2. r \in GoodRuns /\ r.phase = "link" /\ r.left = run[t].left /\ r.top = run[t].top
  <2>1. /\ r \in Runs /\ r.phase = "link" /\ r.left = run[t].left /\ r.heap = run[t].heap
        /\ r.top = run[t].top
    BY <1>1 DEF Runs
  <2> HIDE DEF r
  <2> QED
    BY <1>1, <2>1 DEF GoodRuns
<1>3. run'[t] = r
  BY <1>1
<1> HIDE DEF r
<1>4. Prompt => FromEnd(r.left).net \notin Own
  BY <1>1, <1>2 DEF IInv, PromptInv, Elsewhere, Target, FromEnd
<1>5. ASSUME Leads(t) PROVE Leads(t)'
  <2>1. ASSUME NEW j \in r.left + 1 .. Len(topology) PROVE HasRoute(FromEnd(j).net)'
    BY <1>1, <1>2, <1>5, <2>1 DEF Leads, HasRoute, FromEnd
  <2>2. end'[t] # Gone
    <3>1. Len(routing_table) \in Nat /\ t \in Writers /\ end \in [Writers -> Gone .. Len(routing_table)]
      BY RunIsGood DEF Writers
    <3>2. end'[t] = Len(routing_table)
      BY <1>1, <3>1 DEF FoundEnd
    <3> QED
      BY <3>1, <3>2 DEF Gone
  <2> QED
    BY <1>1, <1>2, <1>3, <2>1, <2>2 DEF Leads
<1> QED
  BY <1>1, <1>2, <1>4, <1>5, RunStep

LEMMA AddStep ==
    ASSUME IInv, NEW t \in Tids, Add(t)
    PROVE  IInv'
<1>0. PICK r, m, via : /\ r = [run[t] EXCEPT !.phase = "walk", !.left = @ - 1]
                       /\ m = FromEnd(run[t].left).net /\ via = run[t].top.first
  OBVIOUS
<1>1. /\ run \in [Tids -> GoodRuns] /\ run[t] \in GoodRuns /\ run[t] \in Runs
      /\ run' = [run EXCEPT ![t] = r] /\ UNCHANGED <<topology, nid, boot, direct, changed>>
      /\ run[t].phase = "link" /\ run[t].top # NoItem
      /\ routing_table \in Seq(Route) /\ topology \in Seq(Entry) /\ torn \in BOOLEAN
      /\ end \in [Writers -> Gone .. Len(routing_table)]
      /\ Linked(t, m, via, TRUE)
  BY <1>0, RunIsGood DEF Add, GoodRuns, Target, FromEnd, IInv, TypeOK
<1>2. PICK n \in Nat : n = Len(topology)
  BY RunIsGood
<1>3. /\ r \in GoodRuns /\ r.phase = "walk" /\ r.left = run[t].left - 1
      /\ run[t].left \in 1 .. n /\ run[t].left - 1 \in 0 .. n
  BY <1>0, <1>1, <1>2, OneLess
<1>4. m \in Nets /\ via \in Nets
  <2>1. n + 1 - run[t].left \in 1 .. n
    BY <1>3
  <2>2. topology[n + 1 - run[t].left] \in Entry
    BY <1>1, <1>2, <2>1
  <2>3. run[t].top \in Item
    BY <1>1 DEF Runs
  <2> QED
    BY <1>0, <1>2, <2>2, <2>3 DEF FromEnd, Entry, Item
<1>5. /\ routing_table' \in Seq(Route) /\ torn' \in BOOLEAN
      /\ end' \in [Writers -> Gone .. Len(routing_table')]
      /\ end[t] = Gone => /\ UNCHANGED <<routing_table, torn>>
                          /\ \A v \in Writers \ {t} : end'[v] = end[v]
      /\ end[t] # Gone => Grown(t, m, via, TRUE) /\ HasRoute(m)'
      /\ ~torn' => /\ ~torn
                   /\ \A k : HasRoute(k) => HasRoute(k)'
                   /\ \A v \in Writers \ {t} : end'[v] = end[v]
  <2>1. t \in Writers /\ TRUE \in BOOLEAN
    BY DEF Writers
  <2> QED
    BY <1>1, <1>4, <2>1, LinkedRoute
<1>6. /\ TypeOK' /\ Searching' /\ Booting' /\ (NothingYet => NothingYet')
      /\ run'[t] = r /\ \A u \in Tids \ {t} : run'[u] = run[u]
  BY <1>1, <1>3, <1>5, RunTypes
<1>7. ASSUME Prompt
      PROVE  /\ boot = Len(Ifaces) /\ boot \in Nat /\ direct = "check"
             /\ \A k \in 1 .. Len(Ifaces) : m # Ifaces[k]
             /\ end[t] # Gone => \A i \in DOMAIN routing_table :
                                    ~routing_table[i].dynamic => i <= end[t]
  <2>1. OwnAsRoutes /\ Elsewhere /\ Behind /\ t # Main
    BY <1>7 DEF IInv, PromptInv
  <2>2. boot \in 0 .. Len(Ifaces) /\ Len(Ifaces) \in Nat
    BY OwnNetworks DEF IInv, TypeOK
  <2>3. ~(boot < Len(Ifaces))
    BY <1>1, <1>7, AloneAtBoot
  <2>4. m \notin Own
    BY <1>0, <1>1, <2>1 DEF Elsewhere, Target, FromEnd
  <2>5. Writing(t) /\ t \in Writers
    BY <1>1, <2>1 DEF Writing, Writers
  <2> QED
    BY <2>1, <2>2, <2>3, <2>4, <2>5, OwnNetworks DEF IInv, Booting, Behind
<1>8. OwnRoutesKept'
  <2> SUFFICES ASSUME Prompt, NEW k \in 1 .. boot PROVE KeptFor(routing_table', k)
    BY <1>1, KeptForAll
  <2>1. KeptFor(routing_table, k)
    BY KeptForAll DEF IInv
  <2>2. CASE end[t] = Gone
    BY <1>5, <2>1, <2>2
  <2>3. CASE end[t] # Gone
    <3>1. Grown(t, m, via, TRUE) /\ Ifaces[k] # m
      BY <1>5, <1>7, <2>3
    <3> QED
      BY <1>1, <1>7, <2>1, <2>3, <3>1, LinkKeeps
  <2> QED
    BY <2>2, <2>3
<1>9. PromptInv'
  <2> SUFFICES ASSUME Prompt
               PROVE  /\ OwnAsRoutes' /\ NothingYet' /\ AllDirect' /\ Elsewhere'
                      /\ Behind' /\ DirectEnd'
    BY DEF PromptInv
  <2>1. OwnAsRoutes /\ NothingYet /\ Elsewhere /\ Behind
    BY DEF IInv, PromptInv
  <2>2. AllDirect' /\ DirectEnd'
    BY <1>1, <1>7 DEF AllDirect, DirectEnd
  <2>3. OwnAsRoutes'
    BY <1>1, <1>7 DEF OwnAsRoutes
  <2>4. ASSUME NEW u \in Tids, run'[u].phase \in {"search", "add", "link"}
        PROVE  Target(u)'.net \notin Own
    <3>1. u # t
      BY <1>3, <1>6, <2>4
    <3> QED
      BY <1>1, <1>6, <2>1, <2>4, <3>1 DEF Elsewhere, Target
  <2>5. Behind'
    <3> SUFFICES ASSUME NEW w \in Writers, Writing(w)', end'[w] # Gone,
                        NEW i \in DOMAIN routing_table', ~routing_table'[i].dynamic
                 PROVE  i <= end'[w]
      BY DEF Behind
    <3>1. Writing(w) /\ w # t
      BY <1>1, <1>3, <1>6 DEF Writing, Writers
    <3>2. CASE end[t] = Gone
      BY <1>5, <2>1, <3>1, <3>2 DEF Behind
    <3>3. CASE end[t] # Gone
      <4>1. PICK e \in 0 .. Len(routing_table) :
                /\ DOMAIN routing_table' = 1 .. e + 1
                /\ \A k \in 1 .. e :
                        k \in DOMAIN routing_table /\ routing_table'[k] = routing_table[k]
                /\ routing_table'[e + 1] = [dest |-> m, via |-> via, dynamic |-> TRUE]
                /\ end'[w] # Gone => end'[w] = end[w]
        BY <1>5, <3>1, <3>3 DEF Grown
      <4>4. routing_table'[e + 1].dynamic = TRUE /\ end'[w] = end[w]
        BY <4>1
      <4>2. i \in 1 .. e
        BY <4>1, <4>4
      <4>3. i \in DOMAIN routing_table /\ ~routing_table[i].dynamic
        BY <4>1, <4>2
      <4> QED
        BY <2>1, <3>1, <4>3, <4>4 DEF Behind
    <3> QED
      BY <3>2, <3>3
  <2> QED
    BY <1>6, <2>1, <2>2, <2>3, <2>4, <2>5 DEF Elsewhere
<1>10. ASSUME ~torn', Leads(t) PROVE Leads(t)'
  <2>1. \A j \in run[t].left + 1 .. n : HasRoute(FromEnd(j).net)
    BY <1>2, <1>10 DEF Leads
  <2>2. HasRoute(m)'
    BY <1>1, <1>5, <1>10 DEF Leads
  <2>3. ASSUME NEW j \in r.left + 1 .. n PROVE HasRoute(FromEnd(j).net)'
    <3>1. j = run[t].left \/ j \in run[t].left + 1 .. n
      BY <1>3
    <3>2. PICK k : k = FromEnd(j).net
      OBVIOUS
    <3>3. FromEnd(j).net' = k
      BY <1>1, <3>2 DEF FromEnd
    <3>4. HasRoute(k) \/ k = m
      BY <1>0, <2>1, <3>1, <3>2
    <3>5. HasRoute(k)'
      BY <1>5, <1>10, <2>2, <3>4
    <3> QED
      BY <3>3, <3>5 DEF HasRoute
  <2> QED
    BY <1>1, <1>2, <1>3, <1>6, <2>3 DEF Leads
<1>11. Led'
  <2> SUFFICES ASSUME ~torn' PROVE Led'
    BY DEF Led
  <2>1. Led /\ torn' = torn /\ run[t].phase # "clear"
    BY <1>1, <1>5 DEF IInv
  <2>2. \A u \in Tids \ {t} : run'[u] = run[u] /\ end'[u] = end[u]
    BY <1>5, <1>6 DEF Writers
  <2> QED
    BY <1>1, <1>5, <1>10, <2>1, <2>2, LedKept
<1> QED
  BY <1>6, <1>8, <1>9, <1>11 DEF IInv

LEMMA NextInv == IInv /\ [Next]_vars => IInv'
<1> SUFFICES ASSUME IInv, [Next]_vars PROVE IInv'
  OBVIOUS
<1>1. CASE CheckDirect \/ FindDirect \/ LinkDirect
  BY <1>1, SeekDirectStep, LinkDirectStep
<1>2. CASE (\E n \in Nets : Discover(n)) \/ (\E r \in Routers : Learn(r))
  BY <1>2, ChangeStep
<1>3. ASSUME NEW t \in Tids, Start(t) PROVE IInv'
  BY <1>3, StartStep
<1>4. ASSUME NEW t \in Tids, Step(t) PROVE IInv'
  BY <1>4, ClearStep, SkipStep, SearchStep, PopStep, ExhaustedStep, NoPathStep, FindEndStep,
     AddStep, FinishStep DEF Step
<1>5. CASE UNCHANGED vars
  <2>1. UNCHANGED <<topology, nid, routing_table, boot, direct, run, end, changed, torn>>
    BY <1>5 DEF vars
  <2>2. TypeOK'
    BY <2>1 DEF IInv, TypeOK
  <2>3. Searching' /\ Booting' /\ OwnRoutesKept'
    BY <2>1 DEF IInv, Searching, Booting, OwnRoutesKept
  <2>4. PromptInv'
    BY <2>1 DEF IInv, PromptInv, OwnAsRoutes, NothingYet, AllDirect, Elsewhere, Target,
                Behind, DirectEnd, Writing
  <2>5. Led'
    <3>1. Hop' <=> Hop
      BY <2>1 DEF Hop, IsFirstHop, InTopology
    <3>2. Routed => Routed'
      BY <2>1 DEF Routed, FromEnd, HasRoute
    <3>3. ASSUME NEW t \in Tids, Leads(t) PROVE Leads(t)'
      BY <2>1, <3>3 DEF Leads, FromEnd, HasRoute
    <3> QED
      BY <2>1, <3>1, <3>2, <3>3 DEF IInv, Led
  <2> QED
    BY <2>2, <2>3, <2>4, <2>5 DEF IInv
<1> QED
  BY <1>1, <1>2, <1>3, <1>4, <1>5 DEF Next

-----------------------------------------------------------------------------
(* What a calm run relies on, and what it has done.                        *)

\* The routes that are not dynamic are for the router's own networks, and the
\* first route, which no run can remove, is one of them.
DirectFirst ==
    /\ \A i \in DOMAIN routing_table :
            ~routing_table[i].dynamic => routing_table[i].dest \in Own
    /\ Own # {} /\ routing_table # <<>> => ~routing_table[1].dynamic

\* One route at most to a network that can be reached, over a shortest path.
CalmRoutes ==
    \A n \in Nets \ Own : Reachable(n) =>
        \A i \in DOMAIN routing_table : routing_table[i].dest = n =>
            /\ Shortest(n, routing_table[i].via)
            /\ \A j \in DOMAIN routing_table : routing_table[j].dest = n => i = j

\* The networks that can be reached and that the run has passed have one.
Passed(left) ==
    \A j \in left + 1 .. Len(topology) :
        Reachable(FromEnd(j).net) /\ FromEnd(j).net \notin Own => HasRoute(FromEnd(j).net)

\* The heap holds paths.
OnPaths(heap) == \A x \in Range(heap) : \E m \in Nat \ {0} : \E q \in Chains(m) : q[m] = x

\* Every path to the network n continues one that is still in the heap.
Seeks(n, heap) ==
    \A m \in Nat \ {0} : \A q \in Chains(m) :
        q[m].net = n => \E i \in 1 .. m : q[i] \in Range(heap)

\* The top of the stack is a shortest path to n, if there is any.
FoundFor(n, top) == Reachable(n) => top # NoItem /\ Shortest(n, top.first)

CalmRun(r) ==
    /\ OnPaths(r.heap)
    /\ r.phase # "clear" => CalmRoutes /\ Passed(r.left)
    /\ r.phase \in {"search", "add", "link"} => ~HasRoute(FromEnd(r.left).net)
    /\ r.phase = "search" => Seeks(FromEnd(r.left).net, r.heap)
    /\ r.phase \in {"add", "link"} => FoundFor(FromEnd(r.left).net, r.top)

CalmInv ==
    \A t \in Tids : run[t].calm =>
        /\ (\A u \in Tids \ {t} : run[u] = Idle) /\ run[t] # Idle /\ CalmRun(run[t])
        /\ run[t].phase = "link" => end[t] = Len(routing_table)

FullInv == IInv /\ Learnt /\ (Prompt => DirectFirst /\ CalmInv)

\* All this is about the tables only.
LEMMA SamePaths ==
    ASSUME UNCHANGED <<topology, nid>>
    PROVE  /\ Learnt => Learnt'
           /\ \A n : Reachable(n)' <=> Reachable(n)
           /\ \A n, f : Shortest(n, f)' <=> Shortest(n, f)
           /\ \A j : FromEnd(j)' = FromEnd(j)
           /\ \A heap : OnPaths(heap)' <=> OnPaths(heap)
           /\ \A n, heap : Seeks(n, heap)' <=> Seeks(n, heap)
           /\ \A n, top : FoundFor(n, top)' <=> FoundFor(n, top)
<1>1. Near' = Near
  BY DEF Near, IsFirstHop, InTopology
<1>2. \A n, f, k : Reached(n, f, k)' <=> Reached(n, f, k)
  BY <1>1 DEF Reached
<1>3. \A n : Reachable(n)' <=> Reachable(n)
  BY <1>2 DEF Reachable
<1>4. \A n, f : Shortest(n, f)' <=> Shortest(n, f)
  BY <1>1, <1>2 DEF Shortest
<1>5. Starts' = Starts
  BY DEF Starts, FirstHop, IsFirstHop, InTopology
<1>6. \A x : Follow(x)' = Follow(x)
  BY DEF Follow
<1>7. \A m : Chains(m)' = Chains(m)
  BY <1>5, <1>6 DEF Chains
<1>8. \A heap : OnPaths(heap)' <=> OnPaths(heap)
  BY <1>7 DEF OnPaths
<1>9. \A n, heap : Seeks(n, heap)' <=> Seeks(n, heap)
  BY <1>7 DEF Seeks
<1>10. \A n, top : FoundFor(n, top)' <=> FoundFor(n, top)
  BY <1>3, <1>4 DEF FoundFor
<1>11. Learnt => Learnt'
  BY DEF Learnt
<1>12. \A j : FromEnd(j)' = FromEnd(j)
  BY DEF FromEnd
<1> QED
  BY <1>3, <1>4, <1>8, <1>9, <1>10, <1>11, <1>12

\* A step of a calm run that leaves the routes alone.
LEMMA CalmStep ==
    ASSUME FullInv, NEW t \in Tids, NEW r, run' = [run EXCEPT ![t] = r], IInv',
           UNCHANGED <<topology, nid, routing_table, boot>>,
           run[t] # Idle, r.calm => run[t].calm /\ r # Idle,
           Prompt /\ run[t].calm /\ r.calm =>
             /\ OnPaths(r.heap)
             /\ run[t].phase # "clear" /\ Passed(r.left)
             /\ r.phase \in {"search", "add", "link"} => ~HasRoute(FromEnd(r.left).net)
             /\ r.phase = "search" => Seeks(FromEnd(r.left).net, r.heap)
             /\ r.phase \in {"add", "link"} => FoundFor(FromEnd(r.left).net, r.top),
           r.phase = "link" => end'[t] = Len(routing_table)
    PROVE  FullInv'
<1>1. Learnt'
  BY SamePaths DEF FullInv
<1>2. SUFFICES ASSUME Prompt PROVE DirectFirst' /\ CalmInv'
  BY <1>1 DEF FullInv
<1>3. DirectFirst'
  BY <1>2 DEF FullInv, DirectFirst
<1>4. run'[t] = r /\ \A u \in Tids \ {t} : run'[u] = run[u]
  BY RunIsGood DEF FullInv
<1>5. ASSUME NEW s \in Tids, run'[s].calm
      PROVE  (\A u \in Tids \ {s} : run'[u] = Idle) /\ run'[s] # Idle /\ CalmRun(run[s])'
             /\ (run'[s].phase = "link" => end'[s] = Len(routing_table'))
  <2>1. CASE s = t
    <3>1. run[t].calm /\ r # Idle /\ r.calm
      BY <1>4, <1>5, <2>1
    <3>2. (\A u \in Tids \ {t} : run[u] = Idle) /\ CalmRun(run[t])
      BY <1>2, <3>1 DEF FullInv, CalmInv
    <3>3. CalmRoutes /\ Passed(r.left)
      BY <1>2, <3>1, <3>2 DEF CalmRun
    <3>4. CalmRoutes'
      BY <3>3, SamePaths DEF CalmRoutes
    <3>5. \A n : HasRoute(n)' <=> HasRoute(n)
      BY DEF HasRoute
    <3>6. Passed(r.left)'
      <4> SUFFICES ASSUME NEW j \in r.left + 1 .. Len(topology)',
                          (Reachable(FromEnd(j).net) /\ FromEnd(j).net \notin Own)'
                   PROVE  HasRoute(FromEnd(j).net)'
        BY DEF Passed
      <4>1. PICK e : e = FromEnd(j)
        OBVIOUS
      <4>2. FromEnd(j)' = e
        BY <4>1, SamePaths
      <4>3. Reachable(e.net) /\ e.net \notin Own
        BY <4>2, SamePaths
      <4>4. HasRoute(e.net)
        BY <3>3, <4>1, <4>3 DEF Passed
      <4> QED
        BY <3>5, <4>2, <4>4
    <3>7. CalmRun(r)'
      BY <1>2, <3>1, <3>4, <3>5, <3>6, SamePaths DEF CalmRun
    <3> QED
      BY <1>4, <2>1, <3>1, <3>2, <3>7
  <2>2. CASE s # t
    <3>1. run[s].calm /\ run[t] = Idle
      BY <1>2, <1>4, <1>5, <2>2 DEF FullInv, CalmInv
    <3> QED
      BY <1>4, <1>5, <2>2, <3>1
  <2> QED
    BY <2>1, <2>2
<1> QED
  BY <1>3, <1>5 DEF CalmInv

LEMMA NothingReached ==
    ASSUME topology = <<>>, NEW n
    PROVE  ~Reachable(n)
<1>1. Range(topology) = {}
  BY DEF Range
<1> QED
  BY <1>1 DEF Reachable, Reached

LEMMA DirectCalm ==
    ASSUME FullInv, CheckDirect \/ FindDirect \/ LinkDirect
    PROVE  FullInv'
<1>1. IInv'
  BY SeekDirectStep, LinkDirectStep DEF FullInv
<1>0. PICK n : n = Ifaces[boot + 1]
  OBVIOUS
<1>2. /\ boot \in 0 .. Len(Ifaces) /\ boot < Len(Ifaces)
      /\ UNCHANGED <<topology, nid, run, changed>> /\ routing_table \in Seq(Route)
      /\ routing_table' = routing_table \/ (direct = "link" /\ Linked(Main, n, n, FALSE))
      /\ end \in [Writers -> Gone .. Len(routing_table)] /\ torn \in BOOLEAN
  BY <1>0 DEF FullInv, IInv, TypeOK, Booting, CheckDirect, FindDirect, LinkDirect
<1>3. n \in Own /\ n \in Nets
  <2>1. boot + 1 \in 1 .. Len(Ifaces)
    BY <1>2, OwnNetworks
  <2> QED
    BY <1>0, <2>1, OwnNetworks
<1>4. Learnt'
  BY <1>2, SamePaths DEF FullInv
<1> SUFFICES ASSUME Prompt PROVE DirectFirst' /\ CalmInv'
  BY <1>1, <1>4 DEF FullInv
<1>5. topology = <<>> /\ DirectFirst /\ CalmInv
  BY <1>2 DEF FullInv, IInv, PromptInv, NothingYet
<1>6. DirectFirst'
  <2>1. CASE routing_table' = routing_table
    BY <1>5, <2>1 DEF DirectFirst
  <2>2. CASE direct = "link" /\ Linked(Main, n, n, FALSE)
    <3>0. end[Main] # Gone /\ Main \in Writers /\ FALSE \in BOOLEAN
      BY <2>2 DEF FullInv, IInv, PromptInv, DirectEnd, Writers
    <3>5. Grown(Main, n, n, FALSE)
      BY <1>2, <1>3, <2>2, <3>0, LinkedRoute
    <3>1. PICK L \in 0 .. Len(routing_table) :
            /\ DOMAIN routing_table' = 1 .. L + 1
            /\ \A i \in 1 .. L : i \in DOMAIN routing_table /\ routing_table'[i] = routing_table[i]
            /\ routing_table'[L + 1] = [dest |-> n, via |-> n, dynamic |-> FALSE]
      BY <3>5 DEF Grown
    <3>6. L \in Nat
      BY <1>2
    <3>2. ASSUME NEW i \in 1 .. L + 1, ~routing_table'[i].dynamic
          PROVE  routing_table'[i].dest \in Own
      <4>1. i \in 1 .. L \/ i = L + 1
        BY <3>6
      <4> QED
        BY <1>3, <1>5, <3>1, <3>2, <4>1 DEF DirectFirst
    <3>3. ASSUME Own # {} PROVE ~routing_table'[1].dynamic
      <4>1. CASE L = 0
        BY <3>1, <4>1
      <4>2. CASE L # 0
        <5>1. 1 \in 1 .. L
          BY <3>6, <4>2
        <5>2. routing_table # <<>>
          BY <3>1, <5>1
        <5> QED
          BY <1>5, <3>1, <3>3, <5>1, <5>2 DEF DirectFirst
      <4> QED
        BY <4>1, <4>2
    <3> QED
      BY <3>1, <3>2, <3>3 DEF DirectFirst
  <2> QED
    BY <1>2, <2>1, <2>2
<1>7. ASSUME NEW t \in Tids, run[t].calm
      PROVE  CalmRun(run[t])' /\ run[t].phase # "link"
  <2>1. CalmRun(run[t])
    BY <1>5, <1>7 DEF CalmInv
  <2>2. OnPaths(run[t].heap)'
    BY <1>2, <2>1, SamePaths DEF CalmRun, OnPaths
  <2>3. run[t].left = 0 /\ run[t].phase \notin {"search", "add", "link"} /\ Len(topology) = 0
    <3>1. run[t].left \in 0 .. Len(topology) /\ Len(topology) = 0
      BY <1>5 DEF FullInv, IInv, TypeOK
    <3>2. run[t].phase \notin {"search", "add", "link"}
      BY <1>2, AloneAtBoot DEF FullInv
    <3> QED
      BY <3>1, <3>2
  <2>4. \A m : ~Reachable(m)'
    BY <1>2, <1>5, NothingReached, SamePaths
  <2>5. CalmRoutes'
    BY <2>4 DEF CalmRoutes
  <2>6. Passed(run[t].left)'
    <3>1. \A j \in 0 + 1 .. 0 : FALSE
      OBVIOUS
    <3> QED
      BY <1>2, <2>3, <3>1 DEF Passed
  <2> QED
    BY <1>2, <2>2, <2>3, <2>5, <2>6 DEF CalmRun
<1>8. CalmInv'
  BY <1>2, <1>5, <1>7 DEF CalmInv
<1> QED
  BY <1>6, <1>8

LEMMA ChangeCalm ==
    ASSUME FullInv, (\E n \in Nets : Discover(n)) \/ (\E r \in Routers : Learn(r))
    PROVE  FullInv'
<1>1. IInv'
  BY ChangeStep DEF FullInv
<1>2. UNCHANGED routing_table /\ run' = Disturbed
  BY DEF Discover, Learn
<1>3. run \in [Tids -> GoodRuns] /\ topology \in Seq(Entry)
      /\ nid \in [Nets -> Routers \cup {None}]
  BY RunIsGood DEF FullInv
<1>4. \A t \in Tids : ~run'[t].calm
  <2> SUFFICES ASSUME NEW t \in Tids PROVE run'[t].calm = FALSE
    OBVIOUS
  <2>1. run'[t] = [run[t] EXCEPT !.calm = FALSE] /\ run[t] \in Runs
    BY <1>2, <1>3 DEF Disturbed, GoodRuns
  <2> QED
    BY <2>1 DEF Runs
<1>5. Learnt'
  <2>1. CASE \E n \in Nets : Discover(n)
    <3>1. PICK n \in Nets : topology' = topology /\ nid' = [nid EXCEPT ![n] = Peer[n]]
      BY <2>1 DEF Discover
    <3>2. \A m \in Nets : nid'[m] \in {None, Peer[m]}
      BY <1>3, <3>1 DEF FullInv, Learnt
    <3> QED
      BY <3>1, <3>2 DEF FullInv, Learnt
  <2>2. ASSUME NEW r \in Routers, Learn(r) PROVE Learnt'
    <3> DEFINE lsa == Lsas[r][Known(r) + 1]
               e   == [router |-> r, net |-> lsa.net, nbr |-> lsa.nbr]
    <3>1. topology' = <<e>> \o topology /\ Known(r) < Len(Lsas[r]) /\ nid' = nid
      BY <2>2 DEF Learn
    <3>2. Known(r) \in Nat
      <4>1. IsFiniteSet(1 .. Len(topology))
        BY <1>3, FS_Interval
      <4>2. IsFiniteSet({i \in DOMAIN topology : topology[i].router = r})
        BY <1>3, <4>1, FS_Subset
      <4> QED
        BY <4>2, FS_CardinalityType DEF Known
    <3>3. lsa \in Range(Lsas[r]) /\ lsa \in [net : Nets, nbr : Routers \cup {Self, None}]
      <4>1. PICK k \in Nat : k = Len(Lsas[r])
        OBVIOUS
      <4>2. Known(r) + 1 \in 1 .. k
        BY <3>1, <3>2, <4>1
      <4>3. \A S, q : q \in Seq(S) => DOMAIN q = 1 .. Len(q) /\ \A i \in 1 .. Len(q) : q[i] \in S
        OBVIOUS
      <4>4. Lsas[r] \in Seq([net : Nets, nbr : Routers \cup {Self, None}])
        OBVIOUS
      <4>5. Known(r) + 1 \in DOMAIN Lsas[r]
        BY <4>1, <4>2, <4>3, <4>4
      <4> QED
        BY <4>1, <4>2, <4>3, <4>4, <4>5 DEF Range
    <3>4. e \in Entry /\ e.router = r /\ e.net = lsa.net /\ e.nbr = lsa.nbr
      <4> HIDE DEF lsa
      <4> QED
        BY <3>3 DEF Entry
    <3> HIDE DEF e, lsa
    <3>5. Range(topology') = {e} \cup Range(topology)
      BY <1>3, <3>1, <3>4, RangeFront
    <3>6. \A d \in Range(topology') :
            \E a \in Range(Lsas[d.router]) : d.net = a.net /\ d.nbr = a.nbr
      BY <3>3, <3>4, <3>5 DEF FullInv, Learnt
    <3> QED
      BY <3>1, <3>6 DEF FullInv, Learnt
  <2> QED
    BY <2>1, <2>2
<1>6. DirectFirst => DirectFirst'
  BY <1>2 DEF DirectFirst
<1>7. CalmInv'
  BY <1>4 DEF CalmInv
<1> QED
  BY <1>1, <1>5, <1>6, <1>7 DEF FullInv

LEMMA StartCalm ==
    ASSUME FullInv, NEW t \in Tids, Start(t)
    PROVE  FullInv'
<1>1. IInv'
  BY StartStep DEF FullInv
<1> DEFINE calm == \A u \in Tids : run[u] = Idle
           r    == [Idle EXCEPT !.phase = "clear", !.calm = calm]
<1>2. /\ run \in [Tids -> GoodRuns] /\ UNCHANGED <<topology, nid, routing_table, boot>>
      /\ run' = [Disturbed EXCEPT ![t] = r]
  BY RunIsGood DEF FullInv, Start
<1>3. r.phase = "clear" /\ r.heap = <<>> /\ r.calm = calm /\ r # Idle
  <2> HIDE DEF calm
  <2>1. r.phase = "clear" /\ r.heap = <<>> /\ r.calm = calm /\ Idle.phase = "idle"
    BY DEF Idle
  <2> QED
    BY <2>1
<1> HIDE DEF r
<1>4. run'[t] = r /\ \A u \in Tids \ {t} : run'[u] = [run[u] EXCEPT !.calm = FALSE]
  BY <1>2 DEF Disturbed
<1>5. Learnt' /\ (DirectFirst => DirectFirst')
  BY <1>2, SamePaths DEF FullInv, DirectFirst
<1>6. ASSUME NEW s \in Tids, run'[s].calm
      PROVE  (\A u \in Tids \ {s} : run'[u] = Idle) /\ run'[s] # Idle /\ CalmRun(run[s])'
             /\ run'[s].phase # "link"
  <2>1. s = t
    <3> SUFFICES ASSUME s # t PROVE FALSE
      OBVIOUS
    <3>1. run'[s] = [run[s] EXCEPT !.calm = FALSE] /\ run[s] \in Runs
      BY <1>2, <1>4 DEF GoodRuns
    <3>2. run'[s].calm = FALSE
      BY <3>1 DEF Runs
    <3> QED
      BY <1>6, <3>2
  <2>2. \A u \in Tids \ {s} : run'[u] = Idle
    <3>1. \A u \in Tids : run[u] = Idle
      BY <1>3, <1>4, <1>6, <2>1
    <3>2. [Idle EXCEPT !.calm = FALSE] = Idle
      <4>1. \A x \in DOMAIN Idle : [Idle EXCEPT !.calm = FALSE][x] = Idle[x]
        <5>1. Idle.calm = FALSE
          BY DEF Idle
        <5> QED
          BY <5>1
      <4>2. Idle = [x \in DOMAIN Idle |-> Idle[x]]
        BY DEF Idle
      <4> QED
        BY <4>1, <4>2
    <3> QED
      BY <1>4, <2>1, <3>1, <3>2
  <2>3. CalmRun(run[s])'
    <3>1. Range(<<>>) = {}
      BY DEF Range
    <3>2. OnPaths(run[s].heap)'
      BY <1>3, <1>4, <2>1, <3>1 DEF OnPaths
    <3> QED
      BY <1>3, <1>4, <2>1, <3>2 DEF CalmRun
  <2> QED
    BY <1>3, <1>4, <2>1, <2>2, <2>3
<1>7. CalmInv'
  BY <1>6 DEF CalmInv
<1> QED
  BY <1>1, <1>5, <1>7 DEF FullInv

\* What the steps of a run are about.
LEMMA RunFacts ==
    ASSUME FullInv, NEW t \in Tids
    PROVE  /\ run \in [Tids -> GoodRuns] /\ run[t] \in Runs /\ run[t].heap \in Heaps
           /\ Tables /\ Len(topology) \in Nat /\ routing_table \in Seq(Route)
           /\ run[t].left \in 0 .. Len(topology)
           /\ run[t].phase \in {"search", "add", "link"} => run[t].left > 0
           /\ Target(t) = FromEnd(run[t].left)
           /\ run[t].phase # "idle" => run[t] # Idle
           /\ Prompt /\ run[t].calm => CalmRun(run[t])
<1>1. run \in [Tids -> GoodRuns] /\ run[t] \in GoodRuns /\ run[t] \in Runs
      /\ Tables /\ Len(topology) \in Nat /\ routing_table \in Seq(Route)
  BY RunIsGood DEF FullInv, Tables, GoodRuns
<1>2. run[t].heap \in Heaps /\ run[t].left \in 0 .. Len(topology)
      /\ (run[t].phase \in {"search", "add", "link"} => run[t].left > 0)
  BY <1>1 DEF GoodRuns, Runs
<1>3. run[t].phase # "idle" => run[t] # Idle
  BY DEF Idle
<1>4. Prompt /\ run[t].calm => CalmRun(run[t])
  BY DEF FullInv, CalmInv
<1>5. Target(t) = FromEnd(run[t].left)
  BY DEF Target, FromEnd
<1> QED
  BY <1>1, <1>2, <1>3, <1>4, <1>5

LEMMA SkipCalm ==
    ASSUME FullInv, NEW t \in Tids, Skip(t)
    PROVE  FullInv'
<1> DEFINE r == [run[t] EXCEPT !.left = @ - 1]
<1>1. IInv'
  BY SkipStep DEF FullInv
<1>2. /\ run' = [run EXCEPT ![t] = r] /\ UNCHANGED <<topology, nid, routing_table, boot>>
      /\ run[t].phase = "walk" /\ run[t].left > 0 /\ HasRoute(FromEnd(run[t].left).net)
  BY RunFacts DEF Skip
<1>3. PICK n \in Nat : n = Len(topology)
  BY RunFacts
<1>4. run[t].left \in 1 .. n
  BY <1>2, <1>3, RunFacts
<1>5. /\ r.phase = "walk" /\ r.left = run[t].left - 1 /\ r.heap = run[t].heap
      /\ r.calm = run[t].calm /\ r # Idle
  <2>1. /\ r.phase = "walk" /\ r.left = run[t].left - 1 /\ r.heap = run[t].heap
        /\ r.calm = run[t].calm
    BY <1>2, RunFacts DEF Runs
  <2> HIDE DEF r
  <2> QED
    BY <2>1 DEF Idle
<1> HIDE DEF r
<1>6. ASSUME Prompt, run[t].calm PROVE OnPaths(r.heap) /\ Passed(r.left)
  <2>1. CalmRun(run[t])
    BY <1>6, RunFacts
  <2>2. Passed(run[t].left) /\ OnPaths(r.heap)
    BY <1>2, <1>5, <2>1 DEF CalmRun
  <2>3. Passed(r.left)
    <3> SUFFICES ASSUME NEW j \in r.left + 1 .. n,
                        Reachable(FromEnd(j).net), FromEnd(j).net \notin Own
                 PROVE  HasRoute(FromEnd(j).net)
      BY <1>3 DEF Passed
    <3>1. j = run[t].left \/ j \in run[t].left + 1 .. n
      BY <1>4, <1>5
    <3> QED
      BY <1>2, <1>3, <2>2, <3>1 DEF Passed
  <2> QED
    BY <2>2, <2>3
<1>7. run[t] # Idle
  BY <1>2, RunFacts
<1> QED
  BY <1>1, <1>2, <1>5, <1>6, <1>7, CalmStep

LEMMA SearchCalm ==
    ASSUME FullInv, NEW t \in Tids, Search(t)
    PROVE  FullInv'
<1> DEFINE h == WithFirstHops(run[t].heap)
           r == [run[t] EXCEPT !.phase = "search", !.top = NoItem, !.heap = h]
<1>1. IInv'
  BY SearchStep DEF FullInv
<1>2. /\ run' = [run EXCEPT ![t] = r] /\ UNCHANGED <<topology, nid, routing_table, boot>>
      /\ run[t].phase = "walk" /\ ~HasRoute(FromEnd(run[t].left).net)
  BY RunFacts DEF Search
<1>3. Range(h) = Range(run[t].heap) \cup Starts
  BY RunFacts, FirstHopsHeap DEF Tables
<1> HIDE DEF h
<1>4. /\ r.phase = "search" /\ r.left = run[t].left /\ r.heap = h
      /\ r.calm = run[t].calm /\ r # Idle
  <2>1. r.phase = "search" /\ r.left = run[t].left /\ r.heap = h /\ r.calm = run[t].calm
    BY RunFacts DEF Runs
  <2> HIDE DEF r
  <2> QED
    BY <2>1 DEF Idle
<1> HIDE DEF r
<1>5. ASSUME Prompt, run[t].calm
      PROVE  OnPaths(h) /\ Passed(r.left) /\ Seeks(FromEnd(r.left).net, h)
  <2>1. CalmRun(run[t])
    BY <1>5, RunFacts
  <2>2. Passed(r.left) /\ OnPaths(run[t].heap)
    BY <1>2, <1>4, <2>1 DEF CalmRun
  <2>3. ASSUME NEW x \in Starts PROVE \E m \in Nat \ {0} : \E q \in Chains(m) : q[m] = x
    <3> DEFINE q == [i \in 1 .. 1 |-> x]
    <3>1. x \in Item
      BY RunFacts, StartPath
    <3>2. q \in [1 .. 1 -> Item] /\ q[1] = x /\ 1 .. 1 - 1 = {}
      BY <3>1
    <3> HIDE DEF q
    <3>3. q \in Chains(1)
      BY <3>2 DEF Chains
    <3> QED
      BY <3>2, <3>3
  <2>4. OnPaths(h)
    BY <1>3, <2>2, <2>3 DEF OnPaths
  <2>5. Seeks(FromEnd(r.left).net, h)
    <3> SUFFICES ASSUME NEW m \in Nat \ {0}, NEW q \in Chains(m)
                 PROVE  \E i \in 1 .. m : q[i] \in Range(h)
      BY DEF Seeks
    <3>1. q[1] \in Starts /\ 1 \in 1 .. m
      BY DEF Chains
    <3> QED
      BY <1>3, <3>1
  <2> QED
    BY <2>2, <2>4, <2>5
<1>6. run[t] # Idle
  BY <1>2, RunFacts
<1> QED
  BY <1>1, <1>2, <1>4, <1>5, <1>6, CalmStep

\* A search that ends without finding its network has looked at every path.
LEMMA ExhaustedCalm ==
    ASSUME PointToPoint, FullInv, NEW t \in Tids, Exhausted(t)
    PROVE  FullInv'
<1> DEFINE r == [run[t] EXCEPT !.phase = "add"]
<1>1. IInv'
  BY ExhaustedStep DEF FullInv
<1>2. /\ run' = [run EXCEPT ![t] = r] /\ UNCHANGED <<topology, nid, routing_table, boot>>
      /\ run[t].phase = "search" /\ run[t].heap = <<>>
  BY DEF Exhausted
<1>3. /\ r.phase = "add" /\ r.left = run[t].left /\ r.heap = run[t].heap /\ r.top = run[t].top
      /\ r.calm = run[t].calm /\ r # Idle
  <2>1. /\ r.phase = "add" /\ r.left = run[t].left /\ r.heap = run[t].heap
        /\ r.top = run[t].top /\ r.calm = run[t].calm
    BY RunFacts DEF Runs
  <2> HIDE DEF r
  <2> QED
    BY <2>1 DEF Idle
<1> HIDE DEF r
<1>4. PICK n : n = FromEnd(r.left).net
  OBVIOUS
<1>5. ASSUME Prompt, run[t].calm
      PROVE  OnPaths(r.heap) /\ Passed(r.left) /\ ~HasRoute(n) /\ FoundFor(n, r.top)
  <2>1. CalmRun(run[t])
    BY <1>5, RunFacts
  <2>2. /\ Passed(r.left) /\ OnPaths(r.heap) /\ ~HasRoute(n)
        /\ Seeks(n, <<>>)
    BY <1>2, <1>3, <1>4, <2>1 DEF CalmRun
  <2>3. ~Reachable(n)
    <3> SUFFICES ASSUME NEW f \in Own, Reached(n, f, Cardinality(Routers)) PROVE FALSE
      BY DEF Reachable
    <3>1. Cardinality(Routers) \in Nat /\ Tables
      BY RunFacts, NearSteps DEF Tables
    <3>2. PICK m \in 1 .. Cardinality(Routers) + 2 : \E q \in Chains(m) : q[m].net = n
      <4>1. Cardinality(Routers) \in 0 .. Cardinality(Routers)
        BY <3>1
      <4> QED
        BY <3>1, <4>1, ReachedChain DEF FullInv
    <3>3. m \in Nat \ {0}
      BY <3>1
    <3>4. \E q \in Chains(m) : \E i \in 1 .. m : q[i] \in Range(<<>>)
      BY <2>2, <3>2, <3>3 DEF Seeks
    <3>5. Range(<<>>) = {}
      BY DEF Range
    <3> QED
      BY <3>4, <3>5
  <2> QED
    BY <2>2, <2>3 DEF FoundFor
<1>6. run[t] # Idle
  BY <1>2, RunFacts
<1> QED
  BY <1>1, <1>2, <1>3, <1>4, <1>5, <1>6, CalmStep

LEMMA FinishCalm ==
    ASSUME FullInv, NEW t \in Tids, Finish(t)
    PROVE  FullInv'
<1>1. IInv'
  BY FinishStep DEF FullInv
<1>2. /\ run' = [run EXCEPT ![t] = Idle] /\ UNCHANGED <<topology, nid, routing_table, boot>>
      /\ run[t].phase = "walk"
  BY DEF Finish
<1>3. run[t] # Idle /\ ~Idle.calm /\ Idle.phase # "link"
  BY <1>2, RunFacts DEF Idle
<1> QED
  BY <1>1, <1>2, <1>3, CalmStep

LEMMA TailRange ==
    ASSUME NEW h \in Heaps, h # <<>>
    PROVE  /\ Range(h) = {Head(h)} \cup Range(Tail(h))
           /\ \A x \in Range(h) : x \in Item /\ Head(h).cost <= x.cost
<1>1. PICK n \in Nat : n = Len(h)
  BY HeapType
<1>2. /\ h \in Seq(Item) /\ DOMAIN h = 1 .. n
      /\ \A i \in 1 .. n : h[i] \in Item /\ h[i].cost \in Nat
      /\ \A i, j \in 1 .. n : i < j => h[i].cost <= h[j].cost
  BY <1>1, HeapType
<1>3. n # 0 /\ 1 \in 1 .. n /\ Head(h) = h[1]
  BY <1>1, <1>2
<1> DEFINE r == Tail(h)
<1>4. DOMAIN r = 1 .. n - 1 /\ \A i \in 1 .. n - 1 : i + 1 \in 1 .. n /\ r[i] = h[i + 1]
  BY <1>1, <1>2, <1>3
<1> HIDE DEF r
<1>5. ASSUME NEW i \in 1 .. n PROVE h[i] \in {Head(h)} \cup Range(r)
  <2>1. i = 1 \/ (i - 1 \in 1 .. n - 1 /\ (i - 1) + 1 = i)
    OBVIOUS
  <2>2. i - 1 \in 1 .. n - 1 => r[i - 1] = h[i] /\ i - 1 \in DOMAIN r
    BY <1>4
  <2> QED
    BY <1>3, <2>1, <2>2 DEF Range
<1>6. ASSUME NEW i \in 1 .. n - 1 PROVE r[i] \in Range(h)
  BY <1>2, <1>4 DEF Range
<1>7. Range(h) = {Head(h)} \cup Range(r)
  <2>1. Range(h) \subseteq {Head(h)} \cup Range(r)
    BY <1>2, <1>5 DEF Range
  <2>2. Range(r) \subseteq Range(h)
    BY <1>4, <1>6 DEF Range
  <2>3. Head(h) \in Range(h)
    BY <1>2, <1>3 DEF Range
  <2> QED
    BY <2>1, <2>2, <2>3
<1>8. \A x \in Range(h) : x \in Item /\ Head(h).cost <= x.cost
  <2> SUFFICES ASSUME NEW i \in 1 .. n PROVE h[i] \in Item /\ Head(h).cost <= h[i].cost
    BY <1>2 DEF Range
  <2>1. i = 1 \/ 1 < i
    OBVIOUS
  <2>2. Head(h) = h[1] /\ h[1].cost \in Nat /\ h[i] \in Item
    BY <1>2, <1>3
  <2>3. 1 < i => h[1].cost <= h[i].cost
    BY <1>2, <1>3
  <2> QED
    BY <2>1, <2>2, <2>3
<1> QED
  BY <1>7, <1>8 DEF r

\* The first item of a sorted heap that leads to n is a shortest path to n.
LEMMA FirstFound ==
    ASSUME PointToPoint, Learnt, Tables, NEW h \in Heaps, h # <<>>, OnPaths(h),
           NEW n, n \notin Own, Seeks(n, h), Head(h).net = n
    PROVE  FoundFor(n, Head(h))
<1> SUFFICES ASSUME Reachable(n)
             PROVE  Head(h) # NoItem /\ Shortest(n, Head(h).first)
  BY DEF FoundFor
<1>1. PICK c \in Nat : c = Cardinality(Routers)
  BY NearSteps DEF Tables
<1>2. Head(h) \in Range(h) /\ \A x \in Range(h) : x \in Item /\ Head(h).cost <= x.cost
  BY TailRange
<1>3. PICK m \in Nat \ {0} : \E q \in Chains(m) : q[m] = Head(h)
  BY <1>2 DEF OnPaths
<1>4. PICK q \in Chains(m) : q[m] = Head(h)
  BY <1>3
<1>12. \A l \in Nat \ {0} : \A p \in Chains(l) : \A i \in 1 .. l : p[i].cost = i
  BY ChainFacts
<1>5. q[m].cost = m
  <2>1. m \in 1 .. m
    OBVIOUS
  <2> QED
    BY <1>12, <2>1
<1>6. ASSUME NEW k \in 0 .. c, NEW f, Reached(n, f, k) PROVE m <= k + 2
  <2>1. PICK l \in 1 .. k + 2 : \E p \in Chains(l) : p[l].net = n
    BY <1>1, <1>6, ReachedChain
  <2>2. PICK p \in Chains(l) : p[l].net = n
    BY <2>1
  <2>3. l \in Nat \ {0} /\ l <= k + 2
    OBVIOUS
  <2>4. PICK i \in 1 .. l : p[i] \in Range(h)
    BY <2>2, <2>3 DEF Seeks
  <2>5. p[i].cost = i
    <3>1. l \in Nat \ {0}
      BY <2>3
    <3>2. \A j \in 1 .. l : p[j].cost = j
      BY <1>12, <3>1
    <3> QED
      BY <3>2
  <2>6. m <= i
    BY <1>2, <1>4, <1>5, <2>4, <2>5
  <2> QED
    BY <2>3, <2>6
<1>7. m - 2 <= c
  <2>1. PICK f \in Own : Reached(n, f, c)
    BY <1>1 DEF Reachable
  <2>2. m <= c + 2
    <3>1. c \in 0 .. c
      OBVIOUS
    <3> QED
      BY <1>6, <2>1, <3>1
  <2> QED
    BY <2>2
<1>8. m - 2 \in 0 .. c /\ Reached(n, Head(h).first, m - 2)
  BY <1>1, <1>4, <1>7, ChainReaches
<1>9. \A f \in Own, j \in 0 .. (m - 2) - 1 : ~Reached(n, f, j)
  <2> SUFFICES ASSUME NEW f \in Own, NEW j \in 0 .. (m - 2) - 1, Reached(n, f, j)
               PROVE  FALSE
    OBVIOUS
  <2>1. j \in 0 .. c /\ ~(m <= j + 2)
    BY <1>8
  <2> QED
    BY <1>6, <2>1
<1>10. Shortest(n, Head(h).first)
  <2>1. m - 2 \in DOMAIN Near
    BY <1>1, <1>8, NearSteps DEF Tables
  <2> QED
    BY <1>8, <1>9, <2>1 DEF Shortest
<1>11. Head(h) # NoItem
  BY <1>4, <1>5 DEF NoItem
<1> QED
  BY <1>10, <1>11

\* An item that is not what the search is for is replaced by what continues it.
LEMMA GoesOn ==
    ASSUME Learnt, Tables, NEW h \in Heaps, h # <<>>, OnPaths(h),
           NEW n, Seeks(n, h), Head(h).net # n,
           NEW g, g = IF Head(h).nbr = None THEN Tail(h) ELSE Expanded(Tail(h), Head(h))
    PROVE  OnPaths(g) /\ Seeks(n, g)
<1>1. PICK item : item = Head(h)
  OBVIOUS
<1>2. Range(h) = {item} \cup Range(Tail(h)) /\ item \in Range(h) /\ item \in Item
  BY <1>1, TailRange
<1>3. Tail(h) \in Heaps
  BY TailHeap
<1>4. Range(g) = Range(Tail(h)) \cup Follow(item)
  <2>1. CASE item.nbr = None
    <3>1. Follow(item) = {}
      <4> SUFFICES ASSUME NEW y \in Follow(item) PROVE FALSE
        OBVIOUS
      <4> QED
        BY <1>2, <2>1, FollowPath
    <3> QED
      BY <1>1, <2>1, <3>1
  <2>2. CASE item.nbr # None
    BY <1>1, <1>2, <1>3, <2>2, ExpandedHeap DEF Tables
  <2> QED
    BY <2>1, <2>2
<1>5. OnPaths(g)
  <2>1. PICK m \in Nat \ {0} : \E q \in Chains(m) : q[m] = item
    BY <1>2 DEF OnPaths
  <2>2. PICK q \in Chains(m) : q[m] = item
    BY <2>1
  <2>3. ASSUME NEW y \in Follow(item)
        PROVE  \E l \in Nat \ {0} : \E p \in Chains(l) : p[l] = y
    <3>1. \E p \in Chains(m + 1) : p[m + 1] = y
      BY <2>2, ChainGrows
    <3>2. m + 1 \in Nat \ {0}
      OBVIOUS
    <3> QED
      BY <3>1, <3>2
  <2> QED
    BY <1>2, <1>4, <2>3 DEF OnPaths
<1>6. Seeks(n, g)
  <2> SUFFICES ASSUME NEW m \in Nat \ {0}, NEW q \in Chains(m), q[m].net = n
               PROVE  \E i \in 1 .. m : q[i] \in Range(g)
    BY DEF Seeks
  <2>1. PICK i \in 1 .. m : q[i] \in Range(h)
    BY DEF Seeks
  <2>2. CASE q[i] = item
    <3>1. i # m
      BY <1>1, <2>2
    <3>2. i \in 1 .. m - 1 /\ i + 1 \in 1 .. m
      BY <3>1
    <3>3. q[i + 1] \in Follow(item)
      BY <2>2, <3>2 DEF Chains
    <3> QED
      BY <1>4, <3>2, <3>3
  <2>3. CASE q[i] # item
    BY <1>2, <1>4, <2>1, <2>3
  <2> QED
    BY <2>2, <2>3
<1> QED
  BY <1>5, <1>6

LEMMA PopCalm ==
    ASSUME PointToPoint, FullInv, NEW t \in Tids, Pop(t)
    PROVE  FullInv'
<1> DEFINE item  == Head(run[t].heap)
           rest  == Tail(run[t].heap)
           found == item.net = Target(t).net
           h     == IF found \/ item.nbr = None THEN rest ELSE Expanded(rest, item)
           top   == IF found \/ item.nbr # None THEN item ELSE run[t].top
           phase == IF found THEN "add" ELSE "search"
           r     == [run[t] EXCEPT !.heap = h, !.top = top, !.phase = phase]
<1>1. IInv'
  BY PopStep DEF FullInv
<1>2. /\ run' = [run EXCEPT ![t] = r] /\ UNCHANGED <<topology, nid, routing_table, boot>>
      /\ run[t].phase = "search" /\ run[t].heap # <<>>
  BY DEF Pop
<1>3. /\ r.phase = phase /\ r.left = run[t].left /\ r.heap = h /\ r.top = top
      /\ r.calm = run[t].calm /\ r # Idle /\ r.phase # "link"
  <2>1. phase \notin {"idle", "link"}
    OBVIOUS
  <2> HIDE DEF h, top, phase
  <2>2. /\ r.phase = phase /\ r.left = run[t].left /\ r.heap = h /\ r.top = top
        /\ r.calm = run[t].calm
    BY RunFacts DEF Runs
  <2> HIDE DEF r
  <2> QED
    BY <2>1, <2>2 DEF Idle
<1>4. PICK n : n = FromEnd(r.left).net
  OBVIOUS
<1>5. found <=> item.net = n
  <2>1. r.left = run[t].left
    BY <1>3
  <2> HIDE DEF r
  <2> QED
    BY <1>4, <2>1, RunFacts
<1>6. /\ found  => h = rest /\ top = item /\ phase = "add"
      /\ ~found => /\ h = IF item.nbr = None THEN rest ELSE Expanded(rest, item)
                   /\ phase = "search"
  OBVIOUS
<1> HIDE DEF r, h, top, phase, found
<1>7. ASSUME Prompt, run[t].calm
      PROVE  /\ OnPaths(r.heap) /\ Passed(r.left) /\ ~HasRoute(n)
             /\ r.phase = "search" => Seeks(n, r.heap)
             /\ r.phase = "add" => FoundFor(n, r.top)
  <2>1. CalmRun(run[t])
    BY <1>7, RunFacts
  <2>2. /\ Passed(r.left) /\ OnPaths(run[t].heap) /\ ~HasRoute(n)
        /\ Seeks(n, run[t].heap)
    BY <1>2, <1>3, <1>4, <2>1 DEF CalmRun
  <2>3. run[t].heap \in Heaps /\ Tables /\ Learnt
    BY RunFacts DEF FullInv
  <2>4. n \notin Own
    BY <1>2, <1>3, <1>4, <1>7, RunFacts DEF FullInv, IInv, PromptInv, Elsewhere
  <2>5. CASE found
    <3>1. FoundFor(n, r.top)
      BY <1>2, <1>3, <1>5, <1>6, <2>2, <2>3, <2>4, <2>5, FirstFound
    <3>2. OnPaths(r.heap)
      BY <1>2, <1>3, <1>6, <2>2, <2>3, <2>5, TailRange DEF OnPaths
    <3> QED
      BY <1>3, <1>6, <2>2, <2>5, <3>1, <3>2
  <2>6. CASE ~found
    <3>1. OnPaths(r.heap) /\ Seeks(n, r.heap)
      BY <1>2, <1>3, <1>5, <1>6, <2>2, <2>3, <2>6, GoesOn
    <3> QED
      BY <1>3, <1>6, <2>2, <2>6, <3>1
  <2> QED
    BY <2>5, <2>6
<1>8. run[t] # Idle
  BY <1>2, RunFacts
<1> QED
  BY <1>1, <1>2, <1>3, <1>4, <1>7, <1>8, CalmStep

\* After the table was cleared, no route is left but the router's own.
LEMMA ClearCalm ==
    ASSUME FullInv, NEW t \in Tids, Clear(t)
    PROVE  FullInv'
<1> DEFINE after == [run[t] EXCEPT !.phase = "walk", !.left = ToWalk]
<1>1. IInv'
  BY ClearStep DEF FullInv
<1>15. PICK r : r = after
  OBVIOUS
<1>2. /\ run' = [run EXCEPT ![t] = r] /\ UNCHANGED <<topology, nid, boot, direct, changed>>
      /\ run[t].phase = "clear"
  BY <1>15 DEF Clear
<1>3. PICK n \in Nat : n = Len(topology)
  BY RunFacts
<1>4. /\ r.phase = "walk" /\ r.left = n /\ r.heap = run[t].heap /\ r.calm = run[t].calm
      /\ r # Idle
  <2>1. r.phase = "walk" /\ r.left = n /\ r.heap = run[t].heap /\ r.calm = run[t].calm
    BY <1>3, <1>15, RunFacts DEF Runs, ToWalk
  <2> HIDE DEF after
  <2> QED
    BY <2>1 DEF Idle
<1> HIDE DEF after
<1>5. run'[t] = r /\ \A u \in Tids \ {t} : run'[u] = run[u]
  BY <1>2, RunFacts
<1>6. PICK L \in Nat : L = Len(routing_table)
  BY RunFacts
<1>7. DOMAIN routing_table = 1 .. L
  BY <1>6, RunFacts
<1>8. PICK kept : /\ kept = Listing(Kept)
                 /\ routing_table' = [i \in DOMAIN kept |-> routing_table[kept[i]]]
  BY DEF Clear, ClearRoutes
<1>9. \A i \in DOMAIN kept : kept[i] \in Kept
  <2>1. Kept \in SUBSET (1 .. L)
    BY <1>7 DEF Kept
  <2> QED
    BY <1>8, <2>1, ListingProperties
<1>10. Learnt'
  BY <1>2, SamePaths DEF FullInv
<1> SUFFICES ASSUME Prompt PROVE DirectFirst' /\ CalmInv'
  BY <1>1, <1>10 DEF FullInv
<1>11. ASSUME NEW i \in DOMAIN routing_table'
       PROVE  /\ routing_table'[i].dest \in Own \/ Own = {}
              /\ ~routing_table'[i].dynamic => routing_table'[i].dest \in Own
              /\ Own # {} => ~routing_table'[i].dynamic
  <2>1. i \in DOMAIN kept /\ kept[i] \in Kept /\ routing_table'[i] = routing_table[kept[i]]
    BY <1>8, <1>9
  <2>2. kept[i] \in DOMAIN routing_table /\ (kept[i] = 1 \/ ~routing_table[kept[i]].dynamic)
    BY <2>1 DEF Kept
  <2>3. DirectFirst
    BY DEF FullInv
  <2>4. routing_table # <<>>
    BY <1>7, <2>2
  <2>5. Own # {} => ~routing_table[kept[i]].dynamic
    BY <2>2, <2>3, <2>4 DEF DirectFirst
  <2>6. ~routing_table[kept[i]].dynamic => routing_table[kept[i]].dest \in Own
    BY <2>2, <2>3 DEF DirectFirst
  <2> QED
    BY <2>1, <2>5, <2>6
<1>12. DirectFirst'
  <2>1. Own # {} /\ routing_table' # <<>> => ~routing_table'[1].dynamic
    <3> SUFFICES ASSUME Own # {}, routing_table' # <<>> PROVE ~routing_table'[1].dynamic
      OBVIOUS
    <3>1. 1 \in DOMAIN routing_table'
      <4>1. routing_table' \in Seq(Route)
        BY <1>1 DEF IInv, TypeOK
      <4> QED
        BY <4>1
    <3> QED
      BY <1>11, <3>1
  <2> QED
    BY <1>11, <2>1 DEF DirectFirst
<1>13. ASSUME NEW s \in Tids, run'[s].calm
       PROVE  (\A u \in Tids \ {s} : run'[u] = Idle) /\ run'[s] # Idle /\ CalmRun(run[s])'
              /\ run'[s].phase # "link"
  <2>0. run[t] # Idle
    BY <1>2, RunFacts
  <2>1. s = t
    BY <1>5, <1>13, <2>0 DEF FullInv, CalmInv
  <2>2. run[t].calm
    BY <1>4, <1>5, <1>13, <2>1
  <2>3. (\A u \in Tids \ {t} : run[u] = Idle) /\ OnPaths(r.heap)
    BY <1>4, <2>2 DEF FullInv, CalmInv, CalmRun
  <2>4. CalmRoutes'
    <3> SUFFICES ASSUME NEW m \in Nets \ Own, Reachable(m)',
                        NEW i \in DOMAIN routing_table', routing_table'[i].dest = m
                 PROVE  FALSE
      BY DEF CalmRoutes
    <3>1. Own # {}
      BY <1>2, SamePaths DEF Reachable
    <3> QED
      BY <1>11, <3>1
  <2>5. Passed(r.left)'
    <3>1. \A j \in n + 1 .. n : FALSE
      OBVIOUS
    <3> QED
      BY <1>2, <1>3, <1>4, <3>1 DEF Passed
  <2>6. OnPaths(r.heap)'
    BY <1>2, <2>3, SamePaths
  <2>7. CalmRun(r)'
    BY <1>4, <2>4, <2>5, <2>6 DEF CalmRun
  <2> QED
    BY <1>4, <1>5, <2>1, <2>3, <2>7
<1> QED
  BY <1>12, <1>13 DEF CalmInv

\* A search that found nothing gives up a network that cannot be reached.
LEMMA NoPathCalm ==
    ASSUME FullInv, NEW t \in Tids, NoPath(t)
    PROVE  FullInv'
<1>0. PICK r : r = [run[t] EXCEPT !.phase = "walk", !.left = @ - 1]
  OBVIOUS
<1>1. IInv'
  BY NoPathStep DEF FullInv
<1>2. /\ run' = [run EXCEPT ![t] = r] /\ UNCHANGED <<topology, nid, routing_table, boot>>
      /\ run[t].phase = "add" /\ run[t].top = NoItem
  BY <1>0 DEF NoPath
<1>3. PICK n \in Nat : n = Len(topology)
  BY RunFacts
<1>4. /\ r.phase = "walk" /\ r.left = run[t].left - 1 /\ r.heap = run[t].heap
      /\ r.calm = run[t].calm /\ run[t].left \in 1 .. n
  BY <1>0, <1>2, <1>3, OneLess DEF FullInv
<1>5. r # Idle /\ run[t] # Idle
  BY <1>2, <1>4, RunFacts DEF Idle
<1>6. ASSUME Prompt, run[t].calm PROVE OnPaths(r.heap) /\ Passed(r.left)
  <2>1. CalmRun(run[t])
    BY <1>6, RunFacts
  <2>2. /\ Passed(run[t].left) /\ OnPaths(r.heap)
        /\ ~Reachable(FromEnd(run[t].left).net)
    BY <1>2, <1>4, <2>1 DEF CalmRun, FoundFor
  <2>3. Passed(r.left)
    <3> SUFFICES ASSUME NEW j \in r.left + 1 .. n,
                        Reachable(FromEnd(j).net), FromEnd(j).net \notin Own
                 PROVE  HasRoute(FromEnd(j).net)
      BY <1>3 DEF Passed
    <3>1. j = run[t].left \/ j \in run[t].left + 1 .. n
      BY <1>4
    <3> QED
      BY <1>3, <2>2, <3>1 DEF Passed
  <2> QED
    BY <2>2, <2>3
<1> QED
  BY <1>1, <1>2, <1>4, <1>5, <1>6, CalmStep

\* Nobody else is at the table of a calm run.
LEMMA FindEndCalm ==
    ASSUME FullInv, NEW t \in Tids, FindEnd(t)
    PROVE  FullInv'
<1>0. PICK r : r = [run[t] EXCEPT !.phase = "link"]
  OBVIOUS
<1>1. IInv'
  BY FindEndStep DEF FullInv
<1>2. /\ run' = [run EXCEPT ![t] = r] /\ UNCHANGED <<topology, nid, routing_table, boot>>
      /\ run[t].phase = "add" /\ FoundEnd(t)
  BY <1>0 DEF FindEnd
<1>3. /\ r.phase = "link" /\ r.left = run[t].left /\ r.heap = run[t].heap /\ r.top = run[t].top
      /\ r.calm = run[t].calm
  BY <1>0, RunFacts DEF Runs
<1>4. r # Idle /\ run[t] # Idle
  BY <1>2, <1>3, RunFacts DEF Idle
<1>5. end'[t] = Len(routing_table)
  <2>1. t \in Writers /\ end \in [Writers -> Gone .. Len(routing_table)]
    BY DEF Writers, FullInv, IInv, TypeOK
  <2> QED
    BY <1>2, <2>1 DEF FoundEnd
<1>6. ASSUME Prompt, run[t].calm
      PROVE  /\ OnPaths(r.heap) /\ Passed(r.left) /\ ~HasRoute(FromEnd(r.left).net)
             /\ FoundFor(FromEnd(r.left).net, r.top)
  <2>1. CalmRun(run[t])
    BY <1>6, RunFacts
  <2> QED
    BY <1>2, <1>3, <2>1 DEF CalmRun
<1> QED
  BY <1>1, <1>2, <1>3, <1>4, <1>5, <1>6, CalmStep

\* The route that is added is the only one to its network, and a shortest.
LEMMA AddCalm ==
    ASSUME FullInv, NEW t \in Tids, Add(t)
    PROVE  FullInv'
<1>0. PICK n, top : n = FromEnd(run[t].left).net /\ top = run[t].top
  OBVIOUS
<1>1. IInv'
  BY AddStep DEF FullInv
<1>15. PICK r : r = [run[t] EXCEPT !.phase = "walk", !.left = @ - 1]
  OBVIOUS
<1>2. /\ run' = [run EXCEPT ![t] = r] /\ UNCHANGED <<topology, nid, boot, direct, changed>>
      /\ run[t].phase = "link" /\ top # NoItem /\ Linked(t, n, top.first, TRUE)
      /\ end \in [Writers -> Gone .. Len(routing_table)] /\ torn \in BOOLEAN
      /\ routing_table \in Seq(Route)
  BY <1>0, <1>15, RunFacts DEF Add, FullInv, IInv, TypeOK, Searching
<1>3. PICK N \in Nat : N = Len(topology)
  BY RunFacts
<1>4. run[t].left \in 1 .. N
  BY <1>2, <1>3, RunFacts
<1>5. /\ r.phase = "walk" /\ r.left = run[t].left - 1 /\ r.heap = run[t].heap
      /\ r.calm = run[t].calm /\ r # Idle
  <2>1. /\ r.phase = "walk" /\ r.left = run[t].left - 1 /\ r.heap = run[t].heap
        /\ r.calm = run[t].calm
    BY <1>2, <1>15, OneLess DEF FullInv
  <2> QED
    BY <2>1 DEF Idle
<1>6. run'[t] = r /\ \A u \in Tids \ {t} : run'[u] = run[u]
  BY <1>2, RunFacts
<1>7. run[t] # Idle /\ Learnt'
  BY <1>2, RunFacts, SamePaths DEF FullInv
<1>8. \E e \in Entry : FromEnd(run[t].left) = e
  <2>1. N + 1 - run[t].left \in 1 .. N
    BY <1>4
  <2>2. topology[N + 1 - run[t].left] \in Entry
    BY <1>3, <2>1, RunFacts DEF Tables
  <2> QED
    BY <1>3, <2>2 DEF FromEnd
<1>9. n \in Nets /\ top.first \in Nets
  <2>1. top \in Item \cup {NoItem}
    BY <1>0, RunFacts DEF Runs
  <2> QED
    BY <1>0, <1>2, <1>8, <2>1 DEF Entry, Item
<1> SUFFICES ASSUME Prompt PROVE DirectFirst' /\ CalmInv'
  BY <1>1, <1>7 DEF FullInv
<1>10. DirectFirst /\ n \notin Own
  BY <1>0, <1>2, RunFacts DEF FullInv, IInv, PromptInv, Elsewhere
<1>11. /\ end[t] = Gone => UNCHANGED routing_table
       /\ end[t] # Gone => Grown(t, n, top.first, TRUE)
       /\ end[t] # Gone /\ end[t] = Len(routing_table) => \A m : HasRoute(m) => HasRoute(m)'
  <2>1. t \in Writers /\ TRUE \in BOOLEAN
    BY DEF Writers
  <2> QED
    BY <1>2, <1>9, <2>1, LinkedRoute
<1>16. Own # {} /\ end[t] # Gone => end[t] >= 1
  <2> SUFFICES ASSUME Own # {}, end[t] # Gone PROVE end[t] >= 1
    OBVIOUS
  <2>1. 1 \in 1 .. Len(Ifaces)
    BY OwnNetworks
  <2>2. boot = Len(Ifaces)
    <3>1. topology # <<>>
      BY <1>3, <1>4, RunFacts
    <3>2. ~(boot < Len(Ifaces)) /\ boot \in 0 .. Len(Ifaces)
      BY <3>1 DEF FullInv, IInv, PromptInv, NothingYet, TypeOK
    <3> QED
      BY <3>2, OwnNetworks
  <2>3. KeptFor(routing_table, 1)
    BY <2>1, <2>2, KeptForAll DEF FullInv, IInv
  <2>4. PICK i \in DOMAIN routing_table : ~routing_table[i].dynamic
    BY <2>3 DEF KeptFor
  <2>5. Writing(t) /\ t \in Writers /\ Behind
    BY <1>2 DEF Writing, Writers, FullInv, IInv, PromptInv
  <2>6. i <= end[t]
    BY <2>4, <2>5 DEF Behind
  <2>7. i \in Nat /\ i >= 1 /\ end[t] \in Gone .. Len(routing_table) /\ Len(routing_table) \in Nat
    BY <1>2, <2>4, <2>5
  <2> QED
    BY <2>6, <2>7 DEF Gone
<1>13. DirectFirst'
  <2>1. CASE end[t] = Gone
    BY <1>10, <1>11, <2>1 DEF DirectFirst
  <2>2. CASE end[t] # Gone
    <3>1. PICK L \in 0 .. Len(routing_table) :
            /\ L = end[t] /\ DOMAIN routing_table' = 1 .. L + 1
            /\ \A i \in 1 .. L : i \in DOMAIN routing_table /\ routing_table'[i] = routing_table[i]
            /\ routing_table'[L + 1].dynamic = TRUE
      BY <1>11, <2>2 DEF Grown
    <3>2. L \in Nat
      BY <1>2
    <3>3. ASSUME NEW i \in 1 .. L + 1, ~routing_table'[i].dynamic
          PROVE  routing_table'[i].dest \in Own
      <4>1. i \in 1 .. L
        BY <3>1, <3>2, <3>3
      <4> QED
        BY <1>10, <3>1, <3>3, <4>1 DEF DirectFirst
    <3>4. ASSUME Own # {} PROVE ~routing_table'[1].dynamic
      <4>1. 1 \in 1 .. L
        BY <1>16, <2>2, <3>1, <3>2, <3>4
      <4>2. routing_table # <<>>
        BY <3>1, <4>1
      <4> QED
        BY <1>10, <3>1, <3>4, <4>1, <4>2 DEF DirectFirst
    <3> QED
      BY <3>1, <3>3, <3>4 DEF DirectFirst
  <2> QED
    BY <2>1, <2>2
<1> DEFINE grown(L) ==
        /\ DOMAIN routing_table = 1 .. L /\ DOMAIN routing_table' = 1 .. L + 1
        /\ \A i \in 1 .. L : routing_table'[i] = routing_table[i]
        /\ routing_table'[L + 1] = [dest |-> n, via |-> top.first, dynamic |-> TRUE]
<1>17. ASSUME run[t].calm PROVE (\E L \in Nat : grown(L)) /\ \A m : HasRoute(m) => HasRoute(m)'
  <2>1. end[t] = Len(routing_table) /\ Len(routing_table) \in Nat /\ end[t] # Gone
    BY <1>2, <1>17 DEF FullInv, CalmInv, Gone
  <2>2. PICK L \in 0 .. Len(routing_table) :
            /\ L = end[t] /\ DOMAIN routing_table' = 1 .. L + 1
            /\ \A i \in 1 .. L : i \in DOMAIN routing_table /\ routing_table'[i] = routing_table[i]
            /\ routing_table'[L + 1] = [dest |-> n, via |-> top.first, dynamic |-> TRUE]
    BY <1>11, <2>1 DEF Grown
  <2>3. L \in Nat /\ DOMAIN routing_table = 1 .. L
    BY <1>2, <2>1, <2>2
  <2> QED
    BY <1>11, <2>1, <2>2, <2>3
<1> HIDE DEF grown
<1>14. ASSUME NEW s \in Tids, run'[s].calm
       PROVE  (\A u \in Tids \ {s} : run'[u] = Idle) /\ run'[s] # Idle /\ CalmRun(run[s])'
              /\ run'[s].phase # "link"
  <2>1. s = t
    BY <1>6, <1>7, <1>14 DEF FullInv, CalmInv
  <2>2. run[t].calm
    BY <1>5, <1>6, <1>14, <2>1
  <2>3. (\A u \in Tids \ {t} : run[u] = Idle) /\ CalmRun(run[t])
    BY <2>2 DEF FullInv, CalmInv
  <2>4. /\ OnPaths(r.heap) /\ CalmRoutes /\ Passed(run[t].left)
        /\ ~HasRoute(n) /\ FoundFor(n, top)
    BY <1>0, <1>2, <1>5, <2>3 DEF CalmRun
  <2>9. PICK L \in Nat : grown(L)
    BY <1>17, <2>2
  <2>5. CalmRoutes'
    <3> SUFFICES ASSUME NEW m \in Nets \ Own, Reachable(m),
                        NEW i \in DOMAIN routing_table', routing_table'[i].dest = m
                 PROVE  /\ Shortest(m, routing_table'[i].via)
                        /\ \A j \in DOMAIN routing_table' :
                                routing_table'[j].dest = m => i = j
      <4>1. \A m : Reachable(m)' <=> Reachable(m)
        BY <1>2, SamePaths
      <4>2. \A m, f : Shortest(m, f)' <=> Shortest(m, f)
        BY <1>2, SamePaths
      <4>3. ASSUME NEW m \in Nets \ Own, Reachable(m)',
                   NEW i \in DOMAIN routing_table', routing_table'[i].dest = m
            PROVE  /\ Shortest(m, routing_table[i].via)'
                   /\ \A j \in DOMAIN routing_table' :
                           routing_table'[j].dest = m => i = j
        <5>1. PICK v : v = routing_table'[i].via
          OBVIOUS
        <5>2. Shortest(m, v)' <=> Shortest(m, v)
          BY <4>2
        <5> QED
          BY <4>1, <4>3, <5>1, <5>2
      <4> QED
        BY <4>3 DEF CalmRoutes
    <3>2. /\ DOMAIN routing_table = 1 .. L /\ DOMAIN routing_table' = 1 .. L + 1
          /\ \A j \in 1 .. L : routing_table'[j] = routing_table[j]
          /\ routing_table'[L + 1].dest = n /\ routing_table'[L + 1].via = top.first
      BY <2>9 DEF grown
    <3>3. CASE m = n
      <4>1. \A j \in 1 .. L : routing_table'[j].dest # n
        BY <2>4, <3>2 DEF HasRoute
      <4>2. \A j \in 1 .. L + 1 : j \in 1 .. L \/ j = L + 1
        OBVIOUS
      <4>3. i = L + 1 /\ \A j \in 1 .. L + 1 : routing_table'[j].dest = m => j = L + 1
        BY <3>2, <3>3, <4>1, <4>2
      <4>4. Shortest(m, top.first)
        BY <2>4, <3>3 DEF FoundFor
      <4> QED
        BY <3>2, <4>3, <4>4
    <3>4. CASE m # n
      <4>1. \A j \in 1 .. L + 1 : routing_table'[j].dest = m => j \in 1 .. L
        BY <3>2, <3>4
      <4>2. i \in 1 .. L /\ routing_table[i].dest = m
        BY <3>2, <4>1
      <4>3. /\ Shortest(m, routing_table[i].via)
            /\ \A j \in 1 .. L : routing_table[j].dest = m => i = j
        BY <2>4, <3>2, <4>2 DEF CalmRoutes
      <4> QED
        BY <3>2, <4>1, <4>2, <4>3
    <3> QED
      BY <3>3, <3>4
  <2>6. Passed(r.left)'
    <3> SUFFICES ASSUME NEW j \in r.left + 1 .. N, NEW e, e = FromEnd(j),
                        Reachable(e.net), e.net \notin Own
                 PROVE  HasRoute(e.net)'
      <4>1. \A j : FromEnd(j)' = FromEnd(j)
        BY <1>2, SamePaths
      <4>2. \A m : Reachable(m)' <=> Reachable(m)
        BY <1>2, SamePaths
      <4>3. ASSUME NEW j \in r.left + 1 .. Len(topology)',
                   (Reachable(FromEnd(j).net) /\ FromEnd(j).net \notin Own)'
            PROVE  HasRoute(FromEnd(j).net)'
        <5>1. PICK e : e = FromEnd(j)
          OBVIOUS
        <5>2. FromEnd(j)' = e
          BY <4>1, <5>1
        <5>3. Reachable(e.net) /\ e.net \notin Own
          BY <4>2, <4>3, <5>2
        <5>4. j \in r.left + 1 .. N
          BY <1>2, <1>3
        <5>5. HasRoute(e.net)'
          BY <5>1, <5>3, <5>4
        <5> QED
          BY <5>2, <5>5
      <4> QED
        BY <4>3 DEF Passed
    <3>1. CASE j = run[t].left
      <4>1. top # NoItem /\ e.net = n
        BY <1>0, <2>4, <3>1 DEF FoundFor
      <4>3. L + 1 \in DOMAIN routing_table' /\ routing_table'[L + 1].dest = n
        BY <2>9 DEF grown
      <4> QED
        BY <4>1, <4>3 DEF HasRoute
    <3>2. CASE j # run[t].left
      <4>1. j \in run[t].left + 1 .. N
        BY <1>4, <1>5, <3>2
      <4>2. HasRoute(e.net)
        BY <1>3, <2>4, <4>1 DEF Passed
      <4> QED
        BY <1>17, <2>2, <4>2
    <3> QED
      BY <3>1, <3>2
  <2>7. OnPaths(r.heap)'
    BY <1>2, <2>4, SamePaths
  <2>8. CalmRun(r)'
    BY <1>5, <2>5, <2>6, <2>7 DEF CalmRun
  <2> QED
    BY <1>5, <1>6, <2>1, <2>3, <2>8
<1> QED
  BY <1>13, <1>14 DEF CalmInv

LEMMA NextFull == PointToPoint /\ FullInv /\ [Next]_vars => FullInv'
<1> SUFFICES ASSUME PointToPoint, FullInv, [Next]_vars PROVE FullInv'
  OBVIOUS
<1>1. CASE CheckDirect \/ FindDirect \/ LinkDirect
  BY <1>1, DirectCalm
<1>2. CASE (\E n \in Nets : Discover(n)) \/ (\E r \in Routers : Learn(r))
  BY <1>2, ChangeCalm
<1>3. ASSUME NEW t \in Tids, Start(t) PROVE FullInv'
  BY <1>3, StartCalm
<1>4. ASSUME NEW t \in Tids, Step(t) PROVE FullInv'
  BY <1>4, ClearCalm, SkipCalm, SearchCalm, PopCalm, ExhaustedCalm, NoPathCalm, FindEndCalm,
     AddCalm, FinishCalm DEF Step
<1>5. CASE UNCHANGED vars
  <2>1. UNCHANGED <<topology, nid, routing_table, boot, direct, run, end, changed, torn>>
    BY <1>5 DEF vars
  <2>2. IInv'
    BY NextInv DEF FullInv
  <2>3. Learnt' /\ (DirectFirst => DirectFirst')
    BY <2>1, SamePaths DEF FullInv, DirectFirst
  <2>4. CalmInv => CalmInv'
    <3> SUFFICES ASSUME NEW s \in Tids, CalmRun(run[s]) PROVE CalmRun(run[s])'
      BY <2>1 DEF CalmInv
    <3>1. CalmRoutes => CalmRoutes'
      BY <2>1, SamePaths DEF CalmRoutes
    <3>2. \A n : HasRoute(n)' <=> HasRoute(n)
      BY <2>1 DEF HasRoute
    <3>3. ASSUME NEW l, Passed(l) PROVE Passed(l)'
      BY <2>1, <3>2, <3>3, SamePaths DEF Passed
    <3>4. PICK r : r = run[s]
      OBVIOUS
    <3>5. CalmRun(r)'
      BY <2>1, <3>1, <3>2, <3>3, <3>4, SamePaths DEF CalmRun
    <3> QED
      BY <2>1, <3>4, <3>5
  <2> QED
    BY <2>2, <2>3, <2>4 DEF FullInv
<1> QED
  BY <1>1, <1>2, <1>3, <1>4, <1>5 DEF Next

-----------------------------------------------------------------------------
(* The theorems.                                                           *)

\* The inductive invariant holds, however many runs overlap and however they
\* cut each other's routes off: a cut never reaches a direct route, and as long
\* as there was none one run leads (sr_rt.c:93-134, 214-234, dijkstra.c:19-135).
THEOREM Invariant == Spec => []IInv
<1>1. Init => IInv
  BY InitInv
<1>2. IInv /\ [Next]_vars => IInv'
  BY NextInv
<1> QED
  BY <1>1, <1>2, PTL DEF Spec

\* Every variable has its type.
THEOREM TypeCorrect == Spec => []TypeOK
<1>1. IInv => TypeOK
  BY DEF IInv
<1> QED
  BY <1>1, Invariant, PTL

\* The one pass of dijkstra_stack_reorder after each insertion is enough: the
\* heap of every run is sorted at every step, although it is never emptied
\* between two searches (dijkstra.c:156-177).
THEOREM AlwaysSorted == Spec => []HeapSorted
<1>1. IInv => HeapSorted
  BY DEF IInv, Searching, Heaps, Sorted, HeapSorted
<1> QED
  BY <1>1, Invariant, PTL

\* Clearing and filling the table by any number of runs at once never removes,
\* and never adds to, the direct route of an interface, provided that they were
\* there before the first LSU (sr_rt.c:214-234, dijkstra.c:37).
THEOREM DirectRoutesSafe == Spec => []OwnRoutesKept
<1>1. IInv => OwnRoutesKept
  BY DEF IInv
<1> QED
  BY <1>1, Invariant, PTL

\* Overlapping runs clear what others have added, but when all are over and one
\* was started after the last change, no network that can be reached has been
\* left without a route (dijkstra.c:19-31, sr_pwospf.c:229), unless two writers
\* linked their routes to the same entry since the table was last cleared
\* (sr_rt.c:116-125).
THEOREM NothingUncovered == Spec => []Covered
<1>1. IInv => Covered
  <2> SUFFICES ASSUME IInv, ~torn, ~changed, \A t \in Tids : run[t] = Idle,
                      NEW m \in Nets, Reachable(m)
               PROVE  HasRoute(m)
    BY DEF Covered
  <2>1. Hop
    BY RunIsGood, ReachableHop
  <2>2. Routed
    <3>1. \A t \in Tids : run[t].phase = "idle"
      BY DEF Idle
    <3> QED
      BY <2>1, <3>1 DEF IInv, Led, Leads
  <2>3. PICK e \in Range(topology) : e.net = m
    BY DEF Reachable, Reached
  <2>4. PICK n \in Nat : n = Len(topology)
    BY RunIsGood
  <2>5. PICK i \in 1 .. n : e = topology[i]
    <3>1. DOMAIN topology = 1 .. n
      BY <2>4, RunIsGood
    <3> QED
      BY <3>1 DEF Range
  <2>6. n + 1 - i \in 1 .. n /\ n + 1 - (n + 1 - i) = i
    OBVIOUS
  <2>7. FromEnd(n + 1 - i) = e
    BY <2>4, <2>5, <2>6 DEF FromEnd
  <2> QED
    BY <2>2, <2>3, <2>4, <2>6, <2>7 DEF Routed
<1> QED
  BY <1>1, Invariant, PTL

\* Dijkstra's algorithm is correct here: when every network connects two
\* routers at most, a run that nothing disturbed leaves exactly one route to
\* every network that can be reached, over a shortest path, although entries
\* that lead back are skipped, the heap holds what earlier searches left, and
\* nothing is marked as visited (dijkstra.c:35-135).
THEOREM CalmRunsCorrect ==
    ASSUME PointToPoint
    PROVE  Spec => []CalmRunCorrect
<1>1. Init => FullInv
  <2> SUFFICES ASSUME Init PROVE FullInv
    OBVIOUS
  <2>1. Range(<<>>) = {}
    BY DEF Range
  <2>2. Learnt
    BY <2>1 DEF Init, Learnt
  <2>3. DirectFirst
    BY DEF Init, DirectFirst
  <2>4. CalmInv
    BY DEF Init, CalmInv, Idle
  <2> QED
    BY <2>2, <2>3, <2>4, InitInv DEF FullInv
<1>2. FullInv /\ [Next]_vars => FullInv'
  BY NextFull
<1>3. FullInv => CalmRunCorrect
  <2> SUFFICES ASSUME FullInv, NEW t \in Tids, run[t].phase = "walk", run[t].left = 0,
                      run[t].calm, Prompt, NEW m \in Nets \ Own, Reachable(m)
               PROVE  \E i \in DOMAIN routing_table :
                        /\ Shortest(m, routing_table[i].via)
                        /\ \A j \in DOMAIN routing_table :
                                routing_table[j].dest = m <=> i = j
    BY DEF CalmRunCorrect
  <2>1. CalmRoutes /\ Passed(0)
    BY RunFacts DEF CalmRun
  <2>2. PICK e \in Range(topology) : e.net = m
    BY DEF Reachable, Reached
  <2>3. PICK n \in Nat : n = Len(topology)
    BY RunFacts
  <2>4. PICK i \in 1 .. n : e = topology[i]
    <3>1. DOMAIN topology = 1 .. n
      BY <2>3, RunFacts DEF Tables
    <3> QED
      BY <3>1 DEF Range
  <2>5. n + 1 - i \in 0 + 1 .. n /\ n + 1 - (n + 1 - i) = i
    OBVIOUS
  <2>6. FromEnd(n + 1 - i) = e
    BY <2>3, <2>4, <2>5 DEF FromEnd
  <2>7. HasRoute(m)
    BY <2>1, <2>2, <2>3, <2>5, <2>6 DEF Passed
  <2> QED
    BY <2>1, <2>7 DEF HasRoute, CalmRoutes
<1> QED
  BY <1>1, <1>2, <1>3, PTL DEF Spec
=============================================================================
