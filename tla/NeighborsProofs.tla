-------------------------- MODULE NeighborsProofs --------------------------
(***************************************************************************)
(* A neighbour that runs is never declared dead, for any number of         *)
(* neighbours and any intervals that satisfy TimesAssumption; one that is  *)
(* silent leaves the table in a bounded time, if the neighbours are few    *)
(* enough for the timeout.                                                 *)
(***************************************************************************)
EXTENDS Neighbors, ListsProofs, FiniteSetTheorems, TLAPS

USE PortAssumption, NoneAssumption, RoutersAssumption, TimesAssumption

IInv == TypeOK /\ NoDuplicates /\ Supplied

-----------------------------------------------------------------------------
(* Lemmas about lists.                                                     *)

\* check_neighbors_alive keeps the entries that are not dead, each once.
LEMMA Removal ==
    ASSUME TypeOK, NoDuplicates,
           NEW f, f = Listing({i \in 1 .. Len(table) : table[i] \notin Dead}),
           table' = [i \in DOMAIN f |-> table[f[i]]]
    PROVE  /\ table' \in Seq(Routers)
           /\ Range(table') = Known \ Dead
           /\ NoDuplicates'
<1> DEFINE S == {i \in 1 .. Len(table) : table[i] \notin Dead}
<1>1. /\ Len(table) \in Nat /\ \A i \in 1 .. Len(table) : table[i] \in Routers
  BY DEF TypeOK
<1>2. /\ Cardinality(S) \in Nat /\ DOMAIN f = 1 .. Cardinality(S)
      /\ \A i \in DOMAIN f : f[i] \in S
      /\ \A i, j \in DOMAIN f : f[i] = f[j] => i = j
      /\ \A k \in S : \E i \in DOMAIN f : f[i] = k
  <2>1. S \in SUBSET (1 .. Len(table))
    OBVIOUS
  <2>2. f = Listing(S)
    OBVIOUS
  <2> HIDE DEF S
  <2> QED
    BY <1>1, <2>1, <2>2, ListingProperties
<1>3. /\ table' \in Seq(Routers) /\ Len(table') = Cardinality(S)
      /\ \A i \in 1 .. Cardinality(S) : table'[i] = table[f[i]]
  <2> HIDE DEF S
  <2>1. \A i \in 1 .. Cardinality(S) : table[f[i]] \in Routers
    BY <1>1, <1>2 DEF S
  <2> QED
    BY <1>2, <2>1
<1>4. DOMAIN table = 1 .. Len(table) /\ DOMAIN table' = 1 .. Cardinality(S)
  BY <1>3 DEF TypeOK
<1>5. /\ \A k \in S : k \in 1 .. Len(table) /\ table[k] \notin Dead
      /\ \A k \in 1 .. Len(table) : table[k] \notin Dead => k \in S
  OBVIOUS
<1> HIDE DEF S
<1>6. Range(table') \subseteq Known \ Dead
  <2> SUFFICES ASSUME NEW i \in 1 .. Cardinality(S) PROVE table'[i] \in Known \ Dead
    BY <1>4 DEF Range
  <2>1. f[i] \in S /\ table'[i] = table[f[i]]
    BY <1>2, <1>3
  <2> QED
    BY <1>4, <1>5, <2>1 DEF Range, Known
<1>7. Known \ Dead \subseteq Range(table')
  <2> SUFFICES ASSUME NEW k \in 1 .. Len(table), table[k] \notin Dead
               PROVE  table[k] \in Range(table')
    BY <1>4 DEF Range, Known
  <2>1. k \in S
    BY <1>5
  <2>2. PICK i \in 1 .. Cardinality(S) : f[i] = k
    BY <1>2, <2>1
  <2>3. table'[i] = table[k]
    BY <1>3, <2>2
  <2> QED
    BY <1>4, <2>3 DEF Range
<1>8. NoDuplicates'
  <2> SUFFICES ASSUME NEW i \in 1 .. Len(table'), NEW j \in 1 .. Len(table'),
                      table'[i] = table'[j]
               PROVE  i = j
    BY DEF NoDuplicates
  <2>1. /\ f[i] \in 1 .. Len(table) /\ f[j] \in 1 .. Len(table)
        /\ table[f[i]] = table[f[j]]
    BY <1>2, <1>3, <1>5
  <2>2. f[i] = f[j]
    BY <2>1 DEF NoDuplicates
  <2>3. i \in DOMAIN f /\ j \in DOMAIN f
    BY <1>2, <1>3
  <2> QED
    BY <1>2, <2>2, <2>3
<1> QED
  BY <1>3, <1>6, <1>7, <1>8

\* refresh_neighbors_alive: the router is in the table once, the others stay.
LEMMA RefreshShape ==
    ASSUME TypeOK, NoDuplicates, NEW r \in Routers, Refresh(r)
    PROVE  /\ table' \in Seq(Routers)
           /\ Range(table') = Known \cup {r}
           /\ NoDuplicates'
           /\ alive' = [alive EXCEPT ![r] = Timeout]
<1>1. CASE r \in Known
  BY <1>1 DEF Refresh, Range, Known, TypeOK, NoDuplicates
<1>2. CASE r \notin Known
  <2>1. /\ table' = <<r>> \o table /\ table' \in Seq(Routers)
        /\ Len(table) \in Nat /\ Len(table') = Len(table) + 1
        /\ table'[1] = r
        /\ \A i \in 2 .. Len(table') : table'[i] = table[i - 1]
    BY <1>2 DEF Refresh, TypeOK
  <2>2. \A i \in 1 .. Len(table) : table'[i + 1] = table[i]
    BY <2>1
  <2>3. Range(table') = Known \cup {r}
    <3>1. Range(table') \subseteq Known \cup {r}
      <4> SUFFICES ASSUME NEW i \in 1 .. Len(table') PROVE table'[i] \in Known \cup {r}
        BY DEF Range
      <4>1. i = 1 \/ (i \in 2 .. Len(table') /\ i - 1 \in 1 .. Len(table))
        BY <2>1
      <4> QED
        BY <2>1, <4>1 DEF Range, Known
    <3>2. r \in Range(table')
      BY <2>1 DEF Range
    <3>3. Known \subseteq Range(table')
      <4> SUFFICES ASSUME NEW i \in 1 .. Len(table) PROVE table[i] \in Range(table')
        BY DEF Range, Known
      <4>1. i + 1 \in 1 .. Len(table')
        BY <2>1
      <4> QED
        BY <2>2, <4>1 DEF Range
    <3> QED
      BY <3>1, <3>2, <3>3
  <2>4. NoDuplicates'
    <3> SUFFICES ASSUME NEW i \in 1 .. Len(table'), NEW j \in 1 .. Len(table'),
                        table'[i] = table'[j], i # j
                 PROVE  FALSE
      BY DEF NoDuplicates
    <3>1. \A k \in 2 .. Len(table') : k - 1 \in 1 .. Len(table) /\ table'[k] = table[k - 1]
      BY <2>1
    <3>2. \A k \in 2 .. Len(table') : table'[k] # r
      BY <1>2, <3>1 DEF Known, Range
    <3>3. i \in 2 .. Len(table') /\ j \in 2 .. Len(table')
      BY <2>1, <3>2
    <3>4. i - 1 = j - 1
      BY <3>1, <3>3 DEF NoDuplicates
    <3> QED
      BY <3>3, <3>4
  <2> QED
    BY <2>1, <2>3, <2>4 DEF Refresh
<1> QED
  BY <1>1, <1>2

-----------------------------------------------------------------------------
(* The steps.                                                              *)

LEMMA MaxSilenceType == MaxSilence \in Nat
<1>1. Cardinality(Routers) \in Nat
  BY FS_CardinalityType
<1> QED
  BY <1>1 DEF MaxSilence

LEMMA InitIInv == Init => IInv
<1> SUFFICES ASSUME Init PROVE IInv
  OBVIOUS
<1> USE DEF Init
<1>1. TypeOK
  BY MaxSilenceType DEF TypeOK
<1>2. Known = {}
  BY DEF Known, Range
<1> QED
  BY <1>1, <1>2 DEF IInv, NoDuplicates, Supplied

LEMMA KnownRouters == TypeOK => Known \subseteq Routers
  BY DEF TypeOK, Known, Range

\* The turns that HELLOs lost in a row account for.
LossTurns(k) == (HelloInt + 1) * (MaxLoss - k)

LEMMA LossTurnsProperties ==
    ASSUME NEW k \in 0 .. MaxLoss
    PROVE  /\ LossTurns(k) \in Int
           /\ LossTurns(k + 1) = LossTurns(k) - HelloInt - 1
  BY DEF LossTurns

LEMMA TurnsLeftProperties ==
    ASSUME TypeOK, NEW r \in Routers
    PROVE  /\ LossTurns(lost[r]) \in Int
           /\ helloint[r] \in Int /\ lost[r] \in 0 .. MaxLoss
           /\ TurnsLeft(r) = LossTurns(lost[r]) + helloint[r]
                + (IF "check" \in due THEN 1 ELSE 0) + (IF r \in due THEN 0 ELSE 1)
           /\ TurnsLeft(r) \in Int
<1>1. helloint[r] \in 0 .. HelloInt /\ lost[r] \in 0 .. MaxLoss
  BY DEF TypeOK
<1>2. LossTurns(lost[r]) \in Int
  BY <1>1, LossTurnsProperties
<1>3. TurnsLeft(r) = LossTurns(lost[r]) + helloint[r]
                + (IF "check" \in due THEN 1 ELSE 0) + (IF r \in due THEN 0 ELSE 1)
  BY DEF TurnsLeft, LossTurns
<1> QED
  BY <1>1, <1>2, <1>3

\* A turn of a neighbour's send_hellos that reaches nobody.
LEMMA SilentStep ==
    ASSUME IInv, NEW r \in Routers, Quiet(r) \/ HelloLost(r) \/ Down(r)
    PROVE  IInv'
<1> USE DEF IInv
<1>1. /\ table' = table /\ alive' = alive /\ up' = up /\ crashed' = crashed
      /\ r \in due /\ due' = due \ {r} /\ Known' = Known
  BY DEF Quiet, HelloLost, Down, Known
<1>2. TypeOK'
  <2>1. CASE Quiet(r)
    BY <2>1 DEF TypeOK, Quiet, Countdown
  <2>2. CASE HelloLost(r)
    BY <2>2 DEF TypeOK, HelloLost, Countdown
  <2>3. CASE Down(r)
    BY <2>3 DEF TypeOK, Down
  <2> QED
    BY <2>1, <2>2, <2>3
<1>3. ASSUME NEW s \in Known \ crashed
      PROVE  TurnsLeft(s)' = TurnsLeft(s)
  <2>1. s \in Routers /\ s # "check" /\ ("check" \in due' <=> "check" \in due)
    BY <1>1, KnownRouters
  <2>2. CASE s # r
    <3>1. helloint'[s] = helloint[s] /\ lost'[s] = lost[s] /\ (s \in due' <=> s \in due)
      BY <1>1, <2>1, <2>2 DEF Quiet, HelloLost, Down, Countdown, TypeOK
    <3> QED
      BY <2>1, <3>1 DEF TurnsLeft
  <2>3. CASE s = r
    <3>1. r \in up
      BY <2>3 DEF Supplied
    <3>4. TurnsLeft(r)' = LossTurns(lost'[r]) + helloint'[r]
                            + (IF "check" \in due THEN 1 ELSE 0) + 1
      BY <1>1, <2>1 DEF TurnsLeft, LossTurns
    <3>5. /\ TurnsLeft(r) = LossTurns(lost[r]) + helloint[r]
                            + (IF "check" \in due THEN 1 ELSE 0)
          /\ helloint[r] \in Int /\ lost[r] \in 0 .. MaxLoss /\ LossTurns(lost[r]) \in Int
      BY <1>1, TurnsLeftProperties
    <3>2. CASE Quiet(r)
      <4>1. helloint'[r] = helloint[r] - 1 /\ lost'[r] = lost[r]
        BY <3>2 DEF Quiet, Countdown, TypeOK
      <4> QED
        BY <2>3, <3>4, <3>5, <4>1
    <3>3. CASE HelloLost(r)
      <4>1. helloint[r] = 0 /\ helloint'[r] = HelloInt /\ lost'[r] = lost[r] + 1
        BY <3>3 DEF HelloLost, Countdown, TypeOK
      <4> QED
        BY <2>3, <3>4, <3>5, <4>1, LossTurnsProperties
    <3> QED
      BY <3>1, <3>2, <3>3 DEF Down
  <2> QED
    BY <2>2, <2>3
<1>4. Supplied'
  BY <1>1, <1>3 DEF Supplied
<1> QED
  BY <1>1, <1>2, <1>4 DEF NoDuplicates

\* A HELLO that arrives gives its sender more seconds than it can need.
LEMMA HelloStep ==
    ASSUME IInv, NEW r \in Routers, HelloArrives(r)
    PROVE  IInv' /\ Known \subseteq Known'
<1> USE DEF IInv
<1>1. /\ r \in due /\ r \in up /\ due' = due \ {r} /\ up' = up
      /\ helloint' = [helloint EXCEPT ![r] = HelloInt] /\ lost' = [lost EXCEPT ![r] = 0]
      /\ NewNeighbor(Port[r], r) /\ Refresh(r)
      /\ silence' = [silence EXCEPT ![r] = 0] /\ crashed' = crashed \ {r}
  BY DEF HelloArrives, HandleHello, Countdown, TypeOK
<1>2. /\ table' \in Seq(Routers) /\ Known' = Known \cup {r} /\ NoDuplicates'
      /\ alive' = [alive EXCEPT ![r] = Timeout]
  BY <1>1, RefreshShape DEF Known
<1>3. TypeOK'
  <2>1. nid' \in [Ifaces -> Routers \cup {None}]
    BY <1>1 DEF TypeOK, NewNeighbor
  <2>2. spawned' \subseteq {Lsu(i) : i \in Ifaces} \cup {Spf}
    BY <1>1 DEF TypeOK, NewNeighbor, FloodOn
  <2> QED
    BY <1>1, <1>2, <2>1, <2>2, MaxSilenceType DEF TypeOK
<1>4. ASSUME NEW s \in Known' \ crashed'
      PROVE  s \in up' /\ alive'[s] >= TurnsLeft(s)'
  <2>1. s \in Routers /\ (s \in Known \/ s = r)
    BY <1>2, KnownRouters
  <2>2. CASE s = r
    <3>1. TurnsLeft(r)' = LossTurns(0) + HelloInt
                            + (IF "check" \in due' THEN 1 ELSE 0) + 1
      BY <1>1 DEF TurnsLeft, LossTurns, TypeOK
    <3>2. LossTurns(0) + HelloInt + 2 <= Timeout /\ LossTurns(0) \in Int
      BY DEF LossTurns
    <3>3. alive'[r] = Timeout
      BY <1>2 DEF TypeOK
    <3> QED
      BY <1>1, <2>2, <3>1, <3>2, <3>3
  <2>3. CASE s # r
    <3>1. /\ helloint'[s] = helloint[s] /\ lost'[s] = lost[s] /\ alive'[s] = alive[s]
          /\ (s \in due' <=> s \in due) /\ ("check" \in due' <=> "check" \in due)
      BY <1>1, <1>2, <2>1, <2>3 DEF TypeOK
    <3>2. TurnsLeft(s)' = TurnsLeft(s)
      BY <3>1 DEF TurnsLeft
    <3>3. s \in Known \ crashed
      BY <1>1, <2>1, <2>3
    <3> QED
      BY <1>1, <3>1, <3>2, <3>3 DEF Supplied
  <2> QED
    BY <2>2, <2>3
<1>5. Supplied'
  BY <1>4 DEF Supplied
<1> QED
  BY <1>2, <1>3, <1>5

\* A router that stops is counted as crashed; one that starts was.
LEMMA CrashRestartStep ==
    ASSUME IInv, NEW r \in Routers, Crash(r) \/ Restart(r)
    PROVE  IInv' /\ Known' = Known
<1> USE DEF IInv
<1>1. table' = table /\ alive' = alive /\ due' = due /\ Known' = Known
  BY DEF Crash, Restart, Known
<1>2. TypeOK'
  <2>1. CASE Crash(r)
    BY <2>1 DEF TypeOK, Crash
  <2>2. CASE Restart(r)
    BY <2>2 DEF TypeOK, Restart
  <2> QED
    BY <2>1, <2>2
<1>3. ASSUME NEW s \in Known' \ crashed'
      PROVE  s \in up' /\ alive'[s] >= TurnsLeft(s)'
  <2>1. s \in Known \ crashed /\ s \in Routers /\ s \in up /\ s # r
    BY <1>1, KnownRouters DEF Crash, Restart, Supplied
  <2>2. helloint'[s] = helloint[s] /\ lost'[s] = lost[s] /\ s \in up'
    BY <2>1 DEF Crash, Restart, TypeOK
  <2>3. TurnsLeft(s)' = TurnsLeft(s)
    BY <1>1, <2>2 DEF TurnsLeft
  <2> QED
    BY <1>1, <2>1, <2>2, <2>3 DEF Supplied
<1> QED
  BY <1>1, <1>2, <1>3 DEF NoDuplicates, Supplied

\* check_neighbors_life takes one second from an entry, which has one.
LEMMA CheckStep ==
    ASSUME IInv, CheckNeighborsLife
    PROVE  /\ IInv'
           /\ \A r \in Known \ Known' : r \in crashed
<1> USE DEF IInv
<1>1. /\ "check" \in due /\ due' = due \ {"check"} /\ up' = up /\ crashed' = crashed
      /\ nid' = nid /\ helloint' = helloint /\ lost' = lost /\ silence' = silence
      /\ alive' = [r \in Routers |-> IF r \in Counted /\ alive[r] > 0
                                   THEN alive[r] - 1 ELSE alive[r]]
  BY DEF CheckNeighborsLife
<1>2. /\ table' \in Seq(Routers) /\ Known' = Known \ Dead /\ NoDuplicates'
  <2>1. PICK f : /\ f = Listing({i \in 1 .. Len(table) : table[i] \notin Dead})
                 /\ table' = [i \in DOMAIN f |-> table[f[i]]]
    BY DEF CheckNeighborsLife
  <2> QED
    BY <2>1, Removal DEF Known
<1>3. TypeOK'
  <2>1. spawned' \subseteq {Lsu(i) : i \in Ifaces} \cup {Spf}
    BY DEF CheckNeighborsLife, TypeOK, FloodOn
  <2>2. alive' \in [Routers -> 0 .. Timeout]
    BY <1>1 DEF TypeOK
  <2> QED
    BY <1>1, <1>2, <2>1, <2>2 DEF TypeOK
<1>4. ASSUME NEW s \in Known \ crashed
      PROVE  /\ s \in Routers /\ s \in up /\ alive[s] >= 1
             /\ alive'[s] >= TurnsLeft(s)'
  <2>1. s \in Routers /\ s # "check"
    BY KnownRouters
  <2>2. /\ LossTurns(lost[s]) \in Int /\ helloint[s] \in 0 .. HelloInt
        /\ lost[s] \in 0 .. MaxLoss /\ LossTurns(lost[s]) >= 0
        /\ TurnsLeft(s) = LossTurns(lost[s]) + helloint[s] + 1
                            + (IF s \in due THEN 0 ELSE 1)
    <3>1. helloint[s] \in 0 .. HelloInt /\ lost[s] \in 0 .. MaxLoss
      BY <2>1 DEF TypeOK
    <3>2. LossTurns(lost[s]) >= 0
      BY <3>1 DEF LossTurns
    <3> QED
      BY <1>1, <2>1, <3>1, <3>2, TurnsLeftProperties
  <2>3. TurnsLeft(s)' = LossTurns(lost[s]) + helloint[s]
                            + (IF s \in due THEN 0 ELSE 1)
    <3>1. s \in due' <=> s \in due
      BY <1>1, <2>1
    <3> QED
      BY <1>1, <2>1, <2>2, <3>1 DEF TurnsLeft, LossTurns
  <2>4. alive[s] \in 0 .. Timeout /\ alive[s] >= TurnsLeft(s) /\ s \in up
    BY <2>1 DEF Supplied, TypeOK
  <2>5. alive'[s] \in Int /\ alive'[s] >= alive[s] - 1
    BY <1>1, <2>1, <2>4
  <2> QED
    BY <2>1, <2>2, <2>3, <2>4, <2>5
<1>5. Supplied'
  BY <1>1, <1>2, <1>4 DEF Supplied
<1>6. \A r \in Known \ Known' : r \in crashed
  BY <1>2, <1>4 DEF Dead
<1> QED
  BY <1>2, <1>3, <1>5, <1>6

\* A thread that starts, and the beginning of a second: one turn becomes due
\* on either side.
LEMMA TickStep ==
    ASSUME IInv, Tick \/ \E x \in spawned : RunThread(x)
    PROVE  IInv' /\ Known' = Known
<1> USE DEF IInv
<1>1. /\ table' = table /\ alive' = alive /\ up' = up /\ crashed' = crashed
      /\ helloint' = helloint /\ lost' = lost /\ Known' = Known
  BY DEF Tick, RunThread, Known
<1>2. TypeOK'
  <2>1. CASE Tick
    <3>1. silence' \in [Routers -> 0 .. MaxSilence]
      BY <2>1, MaxSilenceType DEF Tick, TypeOK
    <3> QED
      BY <2>1, <3>1 DEF Tick, TypeOK
  <2>2. CASE \E x \in spawned : RunThread(x)
    BY <2>2 DEF RunThread, TypeOK
  <2> QED
    BY <2>1, <2>2
<1>3. ASSUME NEW s \in Known \ crashed
      PROVE  TurnsLeft(s)' = TurnsLeft(s)
  <2>1. s \in Routers /\ s # "check"
    BY KnownRouters
  <2>2. CASE Tick
    <3>1. /\ "check" \notin due /\ s \notin due /\ "check" \in due' /\ s \in due'
      BY <2>1, <2>2 DEF Tick
    <3>2. TurnsLeft(s)' = LossTurns(lost[s]) + helloint[s] + 1 + 0
      BY <1>1, <3>1 DEF TurnsLeft, LossTurns
    <3>3. /\ LossTurns(lost[s]) \in Int /\ helloint[s] \in Int
          /\ TurnsLeft(s) = LossTurns(lost[s]) + helloint[s] + 0 + 1
      BY <2>1, <3>1, TurnsLeftProperties
    <3> QED
      BY <3>2, <3>3
  <2>3. CASE \E x \in spawned : RunThread(x)
    BY <1>1, <2>3 DEF RunThread, TurnsLeft
  <2> QED
    BY <2>2, <2>3
<1>4. Supplied'
  BY <1>1, <1>3 DEF Supplied
<1> QED
  BY <1>1, <1>2, <1>4 DEF NoDuplicates

\* Every step keeps the invariant and removes crashed neighbours only.
LEMMA NextStep ==
    ASSUME IInv, [Next]_vars
    PROVE  IInv' /\ \A r \in Routers : r \in Known /\ r \notin Known' => r \in crashed
<1>1. ASSUME NEW r \in Routers, Hello(r) \/ Crash(r) \/ Restart(r)
      PROVE  IInv' /\ Known \subseteq Known'
  <2>1. CASE Quiet(r) \/ HelloLost(r) \/ Down(r)
    <3>1. Known' = Known
      BY <2>1 DEF Quiet, HelloLost, Down, Known
    <3> QED
      BY <2>1, <3>1, SilentStep
  <2>2. CASE HelloArrives(r)
    BY <2>2, HelloStep
  <2>3. CASE Crash(r) \/ Restart(r)
    BY <2>3, CrashRestartStep
  <2> QED
    BY <1>1, <2>1, <2>2, <2>3 DEF Hello
<1>2. CASE CheckNeighborsLife
  BY <1>2, CheckStep
<1>3. CASE Tick \/ \E x \in spawned : RunThread(x)
  BY <1>3, TickStep
<1>4. CASE UNCHANGED vars
  BY <1>4 DEF vars, IInv, TypeOK, NoDuplicates, Supplied, TurnsLeft, Known
<1> QED
  BY <1>1, <1>2, <1>3, <1>4 DEF Next

\* Only a HELLO of another router changes the neighbour of an interface, and
\* the flood that follows covers that interface.
LEMMA NeighborStep ==
    ASSUME TypeOK, [Next]_vars, NEW i \in Ifaces, nid'[i] # nid[i]
    PROVE  Lsu(i) \in spawned'
<1>1. PICK r \in Routers : HelloArrives(r)
  BY DEF Next, vars, Hello, Quiet, HelloLost, Down, Crash, Restart,
         CheckNeighborsLife, RunThread, Tick
<1>2. NewNeighbor(Port[r], r)
  BY <1>1 DEF HelloArrives, HandleHello
<1>3. nid' = [nid EXCEPT ![Port[r]] = r] /\ spawned' = spawned \cup FloodOn(nid')
  BY <1>2 DEF NewNeighbor
<1>4. nid'[i] = r /\ r # None
  BY <1>3 DEF TypeOK
<1> QED
  BY <1>3, <1>4 DEF FloodOn

-----------------------------------------------------------------------------
(* How long a silent neighbour stays in the table.                         *)

\* Each other neighbour is removed in front of an entry twice at most before
\* that entry goes, if they are few enough for the timeout.
Few == 2 * (Cardinality(Routers) - 1) < Timeout

\* Turns of check_neighbors_life since the last HELLO of r, and how many of
\* them there may be.
Checks(r) == silence[r] - (IF "check" \in due THEN 1 ELSE 0)
MaxChecks == Timeout + 2 * (Cardinality(Routers) - 1) + 1

Ahead(s, r) == \E i, j \in 1 .. Len(table) : i < j /\ table[i] = s /\ table[j] = r

\* The neighbours that may still be removed in front of r: at the end of their
\* time to live, or after a HELLO puts them there;
Once(r) == {s \in Routers \ {r} :
    \/ Checks(r) + Timeout + 1 <= MaxChecks
    \/ Ahead(s, r) /\ Checks(r) + alive[s] + 1 <= MaxChecks}

\* and those that may come back and be removed there again.
Twice(r) == {s \in Routers \ {r} :
    Ahead(s, r) /\ Checks(r) + alive[s] + Timeout + 2 <= MaxChecks}

\* The turns that r has been given, those it has left and those in which it
\* may still be skipped.
SkipsLeft == \A r \in Known :
    Checks(r) + alive[r] + Cardinality(Once(r)) + Cardinality(Twice(r)) + 1 <= MaxChecks

LEMMA VisitedEquation ==
    ASSUME TypeOK
    PROVE  \A i \in 1 .. Len(table) :
             Visited[i] <=> (i = 1 \/ ~(Visited[i - 1] /\ alive[table[i - 1]] = 0))
<1> DEFINE n == Len(table)
           step == [x \in BOOLEAN \X (1 .. n) |->
                     x[2] = 1 \/ ~(x[1] /\ alive[table[x[2] - 1]] = 0)]
           eqn(v) == v = [i \in 1 .. n |-> i = 1 \/ ~(v[i - 1] /\ alive[table[i - 1]] = 0)]
<1>1. n \in Nat
  BY DEF TypeOK
<1>2. PICK w : IsWalk(w, BOOLEAN, TRUE, n, step)
  <2>1. step \in [BOOLEAN \X (1 .. n) -> BOOLEAN]
    OBVIOUS
  <2>2. TRUE \in BOOLEAN
    OBVIOUS
  <2> HIDE DEF step, n
  <2> QED
    BY <1>1, <2>1, <2>2, WalkExists
<1>3. eqn([i \in 1 .. n |-> w[i]])
  <2> DEFINE v == [i \in 1 .. n |-> w[i]]
  <2>1. ASSUME NEW i \in 1 .. n
        PROVE  v[i] = (i = 1 \/ ~(v[i - 1] /\ alive[table[i - 1]] = 0))
    <3>1. w[i - 1] \in BOOLEAN /\ w[i] = step[<<w[i - 1], i>>]
      <4>1. i - 1 \in 0 .. n
        <5> HIDE DEF n
        <5> QED
          BY <1>1
      <4> HIDE DEF n, step
      <4> QED
        BY <1>2, <4>1 DEF IsWalk
    <3>2. w[i] = (i = 1 \/ ~(w[i - 1] /\ alive[table[i - 1]] = 0))
      <4>1. <<w[i - 1], i>> \in BOOLEAN \X (1 .. n)
        BY <3>1
      <4>2. step[<<w[i - 1], i>>] = (i = 1 \/ ~(w[i - 1] /\ alive[table[i - 1]] = 0))
        BY <4>1
      <4> HIDE DEF n, step
      <4> QED
        BY <3>1, <4>2
    <3>3. i # 1 => i - 1 \in 1 .. n /\ v[i - 1] = w[i - 1]
      BY <1>1
    <3> QED
      BY <3>2, <3>3
  <2> QED
    BY <2>1
<1>4. Visited = CHOOSE v : eqn(v)
  BY DEF Visited
<1>5. eqn(Visited)
  <2> HIDE DEF eqn
  <2> QED
    BY <1>3, <1>4
<1> QED
  BY <1>5

\* The entry that the walk skips is right behind one that it removes.
LEMMA Skipped ==
    ASSUME TypeOK, NoDuplicates, NEW r \in Known, r \notin Counted
    PROVE  \E s \in Dead : s \in Routers /\ s # r /\ Ahead(s, r)
<1>1. PICK i \in 1 .. Len(table) : table[i] = r
  BY DEF Known, Range, TypeOK
<1>2. ~Visited[i]
  BY <1>1 DEF Counted
<1>3. i # 1 /\ Visited[i - 1] /\ alive[table[i - 1]] = 0
  BY <1>2, VisitedEquation
<1>4. i - 1 \in 1 .. Len(table) /\ i - 1 < i
  <2>1. PICK n \in Nat : n = Len(table)
    BY DEF TypeOK
  <2> QED
    BY <1>3, <2>1
<1>5. table[i - 1] \in Dead /\ table[i - 1] \in Routers
  <2>1. table[i - 1] \in Counted
    BY <1>3, <1>4 DEF Counted
  <2>2. table[i - 1] \in Routers
    BY <1>4 DEF TypeOK
  <2> QED
    BY <1>3, <2>1, <2>2 DEF Dead
<1>6. table[i - 1] # r
  BY <1>1, <1>4 DEF NoDuplicates
<1> QED
  BY <1>1, <1>4, <1>5, <1>6 DEF Ahead

\* Removing entries leaves the others in their order.
LEMMA OrderKept ==
    ASSUME TypeOK, NoDuplicates, CheckNeighborsLife, NEW s, NEW r, Ahead(s, r)'
    PROVE  Ahead(s, r)
<1> DEFINE S == {i \in 1 .. Len(table) : table[i] \notin Dead}
<1>1. PICK f : f = Listing(S) /\ table' = [i \in DOMAIN f |-> table[f[i]]]
  BY DEF CheckNeighborsLife
<1>2. Len(table) \in Nat /\ S \in SUBSET (1 .. Len(table))
  BY DEF TypeOK
<1>3. /\ DOMAIN f = 1 .. Cardinality(S) /\ Cardinality(S) \in Nat
      /\ \A i \in DOMAIN f : f[i] \in S
      /\ \A i, j \in DOMAIN f : i < j => f[i] < f[j]
  <2> HIDE DEF S
  <2> QED
    BY <1>1, <1>2, ListingProperties
<1>4. Len(table') = Cardinality(S)
  <2> HIDE DEF S
  <2> QED
    BY <1>1, <1>3
<1>5. PICK i \in 1 .. Len(table'), j \in 1 .. Len(table') :
        i < j /\ table'[i] = s /\ table'[j] = r
  BY DEF Ahead
<1> HIDE DEF S
<1>6. i \in DOMAIN f /\ j \in DOMAIN f
  BY <1>3, <1>4, <1>5
<1>7. table[f[i]] = s /\ table[f[j]] = r /\ f[i] < f[j]
  BY <1>1, <1>3, <1>5, <1>6
<1>8. f[i] \in 1 .. Len(table) /\ f[j] \in 1 .. Len(table)
  BY <1>2, <1>3, <1>6
<1> QED
  BY <1>7, <1>8 DEF Ahead

\* A router added at the front is the only one that gets in front of others.
LEMMA OrderRefreshed ==
    ASSUME TypeOK, NEW q \in Routers, Refresh(q), NEW s, s # q, NEW r, Ahead(s, r)'
    PROVE  Ahead(s, r)
<1>1. CASE q \in Known
  BY <1>1 DEF Refresh, Ahead
<1>2. CASE q \notin Known
  <2>1. /\ table' = <<q>> \o table /\ Len(table) \in Nat
        /\ Len(table') = Len(table) + 1 /\ table'[1] = q
        /\ \A i \in 2 .. Len(table') : table'[i] = table[i - 1]
    BY <1>2 DEF Refresh, TypeOK
  <2>2. PICK i \in 1 .. Len(table'), j \in 1 .. Len(table') :
          i < j /\ table'[i] = s /\ table'[j] = r
    BY DEF Ahead
  <2>3. PICK n \in Nat : n = Len(table) /\ Len(table') = n + 1
    BY <2>1
  <2>4. i # 1
    BY <2>1, <2>2
  <2>5. i \in 2 .. n + 1 /\ j \in 2 .. n + 1 /\ i < j
    BY <2>2, <2>3, <2>4
  <2>6. table[i - 1] = s /\ table[j - 1] = r
    BY <2>1, <2>2, <2>3, <2>5
  <2>7. i - 1 \in 1 .. n /\ j - 1 \in 1 .. n /\ i - 1 < j - 1
    BY <2>5
  <2> QED
    BY <2>3, <2>6, <2>7 DEF Ahead
<1> QED
  BY <1>1, <1>2

\* The numbers that the argument is about.
LEMMA Turns ==
    ASSUME TypeOK, NEW r \in Routers
    PROVE  /\ Checks(r) \in Int /\ Checks(r) >= -1 /\ alive[r] \in 0 .. Timeout
           /\ silence[r] = Checks(r) + (IF "check" \in due THEN 1 ELSE 0)
           /\ Cardinality(Routers) \in Nat /\ Cardinality(Routers) >= 1
           /\ MaxChecks \in Int /\ MaxSilence = MaxChecks + 1
           /\ IsFiniteSet(Once(r)) /\ Cardinality(Once(r)) \in Nat
           /\ Cardinality(Once(r)) <= Cardinality(Routers) - 1
           /\ IsFiniteSet(Twice(r)) /\ Cardinality(Twice(r)) \in Nat
           /\ Cardinality(Twice(r)) <= Cardinality(Routers) - 1
<1>1. Cardinality(Routers) \in Nat /\ Cardinality(Routers) # 0
  BY FS_CardinalityType, FS_EmptySet
<1>2. IsFiniteSet(Routers \ {r}) /\ Cardinality(Routers \ {r}) = Cardinality(Routers) - 1
  BY FS_RemoveElement
<1>3. Once(r) \in SUBSET (Routers \ {r}) /\ Twice(r) \in SUBSET (Routers \ {r})
  BY DEF Once, Twice
<1>4. /\ IsFiniteSet(Once(r)) /\ Cardinality(Once(r)) \in Nat
      /\ Cardinality(Once(r)) <= Cardinality(Routers) - 1
  BY <1>2, <1>3, FS_Subset, FS_CardinalityType
<1>5. /\ IsFiniteSet(Twice(r)) /\ Cardinality(Twice(r)) \in Nat
      /\ Cardinality(Twice(r)) <= Cardinality(Routers) - 1
  BY <1>2, <1>3, FS_Subset, FS_CardinalityType
<1>6. silence[r] \in Nat /\ alive[r] \in 0 .. Timeout
  BY MaxSilenceType DEF TypeOK
<1>7. /\ Checks(r) \in Int /\ Checks(r) >= -1
      /\ silence[r] = Checks(r) + (IF "check" \in due THEN 1 ELSE 0)
  BY <1>6 DEF Checks
<1>8. MaxChecks \in Int /\ MaxSilence = MaxChecks + 1
  BY <1>1 DEF MaxChecks, MaxSilence
<1> QED
  BY <1>1, <1>4, <1>5, <1>6, <1>7, <1>8

\* A turn of the walk costs r a second, or a removal in front of it.
LEMMA CheckDetect ==
    ASSUME TypeOK, NoDuplicates, TypeOK', SkipsLeft, CheckNeighborsLife
    PROVE  SkipsLeft'
<1> SUFFICES ASSUME NEW r \in Known'
             PROVE  Checks(r)' + alive'[r] + Cardinality(Once(r)') + Cardinality(Twice(r)') + 1
                      <= MaxChecks
  BY DEF SkipsLeft, MaxChecks
<1>1. Known' = Known \ Dead
  <2>1. PICK f : /\ f = Listing({i \in 1 .. Len(table) : table[i] \notin Dead})
                 /\ table' = [i \in DOMAIN f |-> table[f[i]]]
    BY DEF CheckNeighborsLife
  <2> QED
    BY <2>1, Removal DEF Known
<1>2. r \in Known /\ r \notin Dead /\ r \in Routers
  BY <1>1, KnownRouters
<1>3. /\ alive' = [q \in Routers |-> IF q \in Counted /\ alive[q] > 0
                                     THEN alive[q] - 1 ELSE alive[q]]
      /\ silence' = silence /\ "check" \in due /\ "check" \notin due'
  BY DEF CheckNeighborsLife
<1>4. PICK a \in Int : a = Checks(r)
  BY <1>2, Turns
<1>5. Checks(r)' = a + 1
  <2>1. silence[r] \in Int
    BY <1>2, MaxSilenceType DEF TypeOK
  <2> QED
    BY <1>3, <1>4, <2>1 DEF Checks
<1>6. \A s \in Routers : alive[s] \in 0 .. Timeout /\ alive'[s] \in Int /\ alive'[s] >= alive[s] - 1
  BY <1>3 DEF TypeOK
<1>7. MaxChecks \in Int
  BY <1>2, Turns
<1>8. Once(r)' \subseteq Once(r)
  <2> SUFFICES ASSUME NEW s \in Routers \ {r},
                      \/ a + 1 + Timeout + 1 <= MaxChecks
                      \/ Ahead(s, r)' /\ a + 1 + alive'[s] + 1 <= MaxChecks
               PROVE  \/ a + Timeout + 1 <= MaxChecks
                      \/ Ahead(s, r) /\ a + alive[s] + 1 <= MaxChecks
    BY <1>4, <1>5 DEF Once, MaxChecks
  <2>1. Ahead(s, r)' => Ahead(s, r)
    BY OrderKept
  <2> QED
    BY <1>6, <1>7, <2>1
<1>9. Twice(r)' \subseteq Twice(r)
  <2> SUFFICES ASSUME NEW s \in Routers \ {r},
                      Ahead(s, r)', a + 1 + alive'[s] + Timeout + 2 <= MaxChecks
               PROVE  Ahead(s, r) /\ a + alive[s] + Timeout + 2 <= MaxChecks
    BY <1>4, <1>5 DEF Twice, MaxChecks
  <2>1. Ahead(s, r)
    BY OrderKept
  <2> QED
    BY <1>6, <1>7, <2>1
<1>10. PICK o \in Nat, t \in Nat, o1 \in Nat, t1 \in Nat :
         /\ o = Cardinality(Once(r)) /\ t = Cardinality(Twice(r))
         /\ o1 = Cardinality(Once(r)') /\ t1 = Cardinality(Twice(r)')
  <2>1. /\ IsFiniteSet(Once(r)) /\ Cardinality(Once(r)) \in Nat
        /\ IsFiniteSet(Twice(r)) /\ Cardinality(Twice(r)) \in Nat
    BY <1>2, Turns
  <2>2. Cardinality(Once(r)') \in Nat /\ Cardinality(Twice(r)') \in Nat
    BY <1>8, <1>9, <2>1, FS_Subset, FS_CardinalityType
  <2> QED
    BY <2>1, <2>2
<1>11. o1 <= o /\ t1 <= t
  <2>1. IsFiniteSet(Once(r)) /\ IsFiniteSet(Twice(r))
    BY <1>2, Turns
  <2> QED
    BY <1>8, <1>9, <1>10, <2>1, FS_Subset
<1>12. a + alive[r] + o + t + 1 <= MaxChecks
  BY <1>2, <1>4, <1>10 DEF SkipsLeft
<1>13. CASE r \in Counted
  <2>1. alive[r] > 0 /\ alive'[r] = alive[r] - 1
    BY <1>2, <1>3, <1>6, <1>13 DEF Dead
  <2> QED
    BY <1>2, <1>5, <1>6, <1>7, <1>10, <1>11, <1>12, <2>1
<1>14. CASE r \notin Counted
  <2>1. PICK s \in Dead : s \in Routers /\ s # r /\ Ahead(s, r)
    BY <1>2, <1>14, Skipped
  <2>2. alive[s] = 0 /\ alive'[r] = alive[r]
    BY <1>2, <1>3, <1>14, <2>1 DEF Dead
  <2>3. ~Ahead(s, r)'
    <3>1. s \notin Known'
      BY <1>1, <2>1
    <3>2. Ahead(s, r)' => s \in Known'
      <4>1. DOMAIN table' = 1 .. Len(table')
        BY DEF TypeOK
      <4> QED
        BY <4>1 DEF Ahead, Known, Range
    <3> QED
      BY <3>1, <3>2
  <2>4. s \in Once(r)
    <3>1. a + alive[s] + 1 <= MaxChecks
      BY <1>2, <1>6, <1>7, <1>12, <2>1, <2>2
    <3> QED
      BY <1>4, <2>1, <3>1 DEF Once
  <2>5. IsFiniteSet(Once(r)) /\ IsFiniteSet(Twice(r))
    BY <1>2, Turns
  <2>6. o1 + t1 + 1 <= o + t
    <3>1. CASE s \in Twice(r)
      <4>1. s \notin Twice(r)'
        BY <2>3 DEF Twice
      <4>2. Twice(r)' \subseteq Twice(r) \ {s}
        BY <1>9, <4>1
      <4>3. IsFiniteSet(Twice(r) \ {s}) /\ Cardinality(Twice(r) \ {s}) = t - 1
        BY <1>10, <2>5, <3>1, FS_RemoveElement
      <4>4. t1 <= t - 1
        BY <1>10, <4>2, <4>3, FS_Subset
      <4> QED
        BY <1>10, <1>11, <4>4
    <3>2. CASE s \notin Twice(r)
      <4>1. ~(a + 0 + Timeout + 2 <= MaxChecks)
        BY <1>4, <2>1, <2>2, <3>2 DEF Twice
      <4>2. s \notin Once(r)'
        <5>1. ~(a + 1 + Timeout + 1 <= MaxChecks)
          BY <1>7, <4>1
        <5> QED
          BY <1>5, <2>3, <5>1 DEF Once, MaxChecks
      <4>3. Once(r)' \subseteq Once(r) \ {s}
        BY <1>8, <4>2
      <4>4. IsFiniteSet(Once(r) \ {s}) /\ Cardinality(Once(r) \ {s}) = o - 1
        BY <1>10, <2>4, <2>5, FS_RemoveElement
      <4>5. o1 <= o - 1
        BY <1>10, <4>3, <4>4, FS_Subset
      <4> QED
        BY <1>10, <1>11, <4>5
    <3> QED
      BY <3>1, <3>2
  <2> QED
    BY <1>2, <1>5, <1>6, <1>7, <1>10, <1>12, <2>2, <2>6
<1> QED
  BY <1>13, <1>14

\* A HELLO gives its sender all the seconds again; for another router it
\* adds no removal that was not counted.
LEMMA HelloDetect ==
    ASSUME Few, TypeOK, NoDuplicates, TypeOK', SkipsLeft,
           NEW q \in Routers, HelloArrives(q)
    PROVE  SkipsLeft'
<1> SUFFICES ASSUME NEW r \in Known'
             PROVE  Checks(r)' + alive'[r] + Cardinality(Once(r)') + Cardinality(Twice(r)') + 1
                      <= MaxChecks
  BY DEF SkipsLeft, MaxChecks
<1>1. /\ Refresh(q) /\ silence' = [silence EXCEPT ![q] = 0]
      /\ due' = due \ {q} /\ q # "check"
  BY DEF HelloArrives, HandleHello
<1>2. Known' = Known \cup {q} /\ alive' = [alive EXCEPT ![q] = Timeout]
  BY <1>1, RefreshShape DEF Known
<1>3. r \in Routers /\ (r = q \/ r \in Known)
  BY <1>2, KnownRouters
<1>4. "check" \in due' <=> "check" \in due
  BY <1>1
<1>5. MaxChecks \in Int /\ Cardinality(Routers) \in Nat
  BY <1>3, Turns
<1>6. CASE r = q
  <2>1. silence'[r] = 0 /\ alive'[r] = Timeout
    BY <1>1, <1>2, <1>3, <1>6 DEF TypeOK
  <2>2. Checks(r)' \in Int /\ Checks(r)' <= 0
    BY <2>1 DEF Checks
  <2>3. IsFiniteSet(Routers \ {r}) /\ Cardinality(Routers \ {r}) = Cardinality(Routers) - 1
    BY <1>3, FS_RemoveElement
  <2>4. Once(r)' \in SUBSET (Routers \ {r}) /\ Twice(r)' \in SUBSET (Routers \ {r})
    BY DEF Once, Twice
  <2>5. /\ Cardinality(Once(r)') \in Nat /\ Cardinality(Twice(r)') \in Nat
        /\ Cardinality(Once(r)') <= Cardinality(Routers) - 1
        /\ Cardinality(Twice(r)') <= Cardinality(Routers) - 1
    BY <2>3, <2>4, FS_Subset, FS_CardinalityType
  <2> QED
    BY <1>5, <2>1, <2>2, <2>5 DEF MaxChecks
<1>7. CASE r # q
  <2>1. silence'[r] = silence[r] /\ alive'[r] = alive[r] /\ r \in Known
    BY <1>1, <1>2, <1>3, <1>7 DEF TypeOK
  <2>2. PICK a \in Int : a = Checks(r) /\ a >= -1
    BY <1>3, Turns
  <2>3. Checks(r)' = a
    BY <1>4, <2>1, <2>2 DEF Checks
  <2>4. \A s \in Routers \ {q} : alive'[s] = alive[s] /\ (Ahead(s, r)' => Ahead(s, r))
    BY <1>1, <1>2, OrderRefreshed DEF TypeOK
  <2>5. alive'[q] = Timeout /\ alive[q] \in 0 .. Timeout
    BY <1>2 DEF TypeOK
  <2>6. Once(r)' \subseteq Once(r)
    <3> SUFFICES ASSUME NEW s \in Routers \ {r},
                        \/ a + Timeout + 1 <= MaxChecks
                        \/ Ahead(s, r)' /\ a + alive'[s] + 1 <= MaxChecks
                 PROVE  \/ a + Timeout + 1 <= MaxChecks
                        \/ Ahead(s, r) /\ a + alive[s] + 1 <= MaxChecks
      BY <2>2, <2>3 DEF Once, MaxChecks
    <3>1. CASE s = q
      BY <2>5, <3>1
    <3>2. CASE s # q
      BY <2>4, <3>2
    <3> QED
      BY <3>1, <3>2
  <2>7. Twice(r)' \subseteq Twice(r)
    <3> SUFFICES ASSUME NEW s \in Routers \ {r},
                        Ahead(s, r)', a + alive'[s] + Timeout + 2 <= MaxChecks
                 PROVE  Ahead(s, r) /\ a + alive[s] + Timeout + 2 <= MaxChecks
      BY <2>2, <2>3 DEF Twice, MaxChecks
    <3>1. CASE s = q
      <4>1. a + Timeout + Timeout + 2 <= Timeout + 2 * (Cardinality(Routers) - 1) + 1
        BY <2>5, <3>1 DEF MaxChecks
      <4> QED
        BY <1>5, <2>2, <4>1 DEF Few
    <3>2. CASE s # q
      BY <2>4, <3>2
    <3> QED
      BY <3>1, <3>2
  <2>8. /\ IsFiniteSet(Once(r)) /\ Cardinality(Once(r)) \in Nat
        /\ IsFiniteSet(Twice(r)) /\ Cardinality(Twice(r)) \in Nat
    BY <1>3, Turns
  <2>9. /\ Cardinality(Once(r)') \in Nat /\ Cardinality(Twice(r)') \in Nat
        /\ Cardinality(Once(r)') <= Cardinality(Once(r))
        /\ Cardinality(Twice(r)') <= Cardinality(Twice(r))
    BY <2>6, <2>7, <2>8, FS_Subset, FS_CardinalityType
  <2>10. a + alive[r] + Cardinality(Once(r)) + Cardinality(Twice(r)) + 1 <= MaxChecks
    BY <2>1, <2>2 DEF SkipsLeft
  <2>11. alive[r] \in Int
    BY <1>3, Turns
  <2> QED
    BY <1>5, <2>1, <2>2, <2>3, <2>8, <2>9, <2>10, <2>11
<1> QED
  BY <1>6, <1>7

\* Nothing else changes the turns a router has had and has left.
LEMMA OtherDetect ==
    ASSUME SkipsLeft, UNCHANGED <<table, alive>>,
           \A r \in Known : Checks(r)' = Checks(r)
    PROVE  SkipsLeft'
<1>1. Known' = Known
  BY DEF Known
<1> SUFFICES ASSUME NEW r \in Known
             PROVE  Checks(r)' + alive'[r] + Cardinality(Once(r)') + Cardinality(Twice(r)') + 1
                      <= MaxChecks
  BY <1>1 DEF SkipsLeft, MaxChecks
<1>2. \A s : Ahead(s, r)' <=> Ahead(s, r)
  BY DEF Ahead
<1>3. Once(r)' = Once(r) /\ Twice(r)' = Twice(r)
  BY <1>2 DEF Once, Twice, MaxChecks
<1> QED
  BY <1>3 DEF SkipsLeft

LEMMA TickDetect ==
    ASSUME TypeOK, SkipsLeft, Tick
    PROVE  SkipsLeft'
<1>1. /\ UNCHANGED <<table, alive>> /\ due = {} /\ "check" \in due'
      /\ silence' = [r \in Routers |-> IF silence[r] < MaxSilence THEN silence[r] + 1
                                                                  ELSE silence[r]]
  BY DEF Tick
<1>2. ASSUME NEW r \in Known
      PROVE  Checks(r)' = Checks(r)
  <2>1. r \in Routers
    BY <1>2, KnownRouters
  <2>2. PICK a \in Int : a = Checks(r) /\ silence[r] = a
    <3>1. Checks(r) \in Int /\ silence[r] = Checks(r) + (IF "check" \in due THEN 1 ELSE 0)
      BY <2>1, Turns
    <3> QED
      BY <1>1, <3>1
  <2>3. /\ alive[r] \in 0 .. Timeout /\ MaxChecks \in Int /\ MaxSilence = MaxChecks + 1
        /\ Cardinality(Once(r)) \in Nat /\ Cardinality(Twice(r)) \in Nat
    BY <2>1, Turns
  <2>4. a + alive[r] + Cardinality(Once(r)) + Cardinality(Twice(r)) + 1 <= MaxChecks
    BY <1>2, <2>2 DEF SkipsLeft
  <2>5. a < MaxSilence
    BY <2>3, <2>4
  <2>6. silence'[r] = a + 1
    BY <1>1, <2>1, <2>2, <2>5
  <2>7. Checks(r)' = (a + 1) - 1
    BY <1>1, <2>6 DEF Checks
  <2> QED
    BY <2>2, <2>7
<1> QED
  BY <1>1, <1>2, OtherDetect

LEMMA SkipsLeftStep ==
    ASSUME Few, IInv, SkipsLeft, [Next]_vars
    PROVE  SkipsLeft'
<1>1. TypeOK /\ NoDuplicates /\ TypeOK'
  BY NextStep DEF IInv
<1>2. ASSUME UNCHANGED <<table, alive, silence>>, "check" \in due' <=> "check" \in due
      PROVE  SkipsLeft'
  BY <1>2, OtherDetect DEF Checks
<1>3. ASSUME NEW r \in Routers, Quiet(r) \/ HelloLost(r) \/ Down(r) \/ Crash(r) \/ Restart(r)
      PROVE  SkipsLeft'
  <2>1. r # "check"
    OBVIOUS
  <2> QED
    BY <1>2, <1>3, <2>1 DEF Quiet, HelloLost, Down, Crash, Restart
<1>4. ASSUME NEW r \in Routers, HelloArrives(r)
      PROVE  SkipsLeft'
  BY <1>1, <1>4, HelloDetect
<1>5. CASE CheckNeighborsLife
  BY <1>1, <1>5, CheckDetect
<1>6. CASE Tick
  BY <1>1, <1>6, TickDetect
<1>7. CASE \E x \in spawned : RunThread(x)
  BY <1>2, <1>7 DEF RunThread
<1>8. CASE UNCHANGED vars
  BY <1>2, <1>8 DEF vars
<1> QED
  BY <1>3, <1>4, <1>5, <1>6, <1>7, <1>8 DEF Next, Hello

-----------------------------------------------------------------------------
(* The theorems.                                                           *)

\* The inductive invariant holds in every reachable state.
THEOREM Invariant == Spec => []IInv
<1>1. IInv /\ [Next]_vars => IInv'
  BY NextStep
<1> QED
  BY InitIInv, <1>1, PTL DEF Spec

\* Every variable keeps its type: seconds to live never become negative, nor
\* does a countdown.
THEOREM TypeCorrect == Spec => []TypeOK
<1>1. IInv => TypeOK
  BY DEF IInv
<1> QED
  BY <1>1, Invariant, PTL

\* refresh_neighbors_alive never adds a router that is in the table
\* (pwospf_neighbors.c:63-80).
THEOREM UniqueNeighbors == Spec => []NoDuplicates
<1>1. IInv => NoDuplicates
  BY DEF IInv
<1> QED
  BY <1>1, Invariant, PTL

\* A neighbour that runs has a second to live for each turn of the counting
\* thread before its next HELLO.
THEOREM SecondsSuffice == Spec => []Supplied
<1>1. IInv => Supplied
  BY DEF IInv
<1> QED
  BY <1>1, Invariant, PTL

\* A neighbour that runs is never declared dead, whatever the order of the
\* threads in each second, if (HelloInt + 1) * (MaxLoss + 1) < Timeout
\* (sr_pwospf.c:346-360, pwospf_neighbors.c:33-61): 6 * 3 < 20 in the code.
THEOREM NeverFalselyDead == Spec => NoFalseDeath
<1>1. IInv /\ [Next]_vars
        => [\A r \in Routers : r \in Known /\ r \notin Range(table') => r \in crashed]_vars
  BY NextStep DEF Known
<1> QED
  BY <1>1, Invariant, PTL DEF Spec, NoFalseDeath

\* The interface on which a neighbour is found is flooded
\* (sr_pwospf.c:690-703).
THEOREM NeighborTold == Spec => NewNeighborTold
<1>1. TypeOK /\ [Next]_vars
        => [\A i \in Ifaces : nid'[i] # nid[i] => Lsu(i) \in spawned']_vars
  BY NeighborStep
<1> QED
  BY <1>1, TypeCorrect, PTL DEF Spec, NewNeighborTold

\* A silent neighbour leaves the table within Timeout + 1 seconds, and two
\* more for each of the others, however the loops interleave and whatever the
\* walk skips (pwospf_neighbors.c:45-58), if twice as many others are fewer
\* than the seconds of the timeout: 10 neighbours with the 20 s of the code.
THEOREM DetectedInTime == ASSUME Few PROVE Spec => []DetectionBound
<1>1. Init => SkipsLeft
  BY DEF Init, SkipsLeft, Known, Range
<1>2. IInv /\ SkipsLeft /\ [Next]_vars => SkipsLeft'
  BY SkipsLeftStep
<1>3. IInv /\ SkipsLeft => DetectionBound
  <2> SUFFICES ASSUME IInv, SkipsLeft, NEW r \in Known
               PROVE  silence[r] < MaxSilence
    BY DEF DetectionBound
  <2>1. TypeOK /\ r \in Routers
    BY KnownRouters DEF IInv
  <2>2. /\ alive[r] \in 0 .. Timeout /\ MaxChecks \in Int /\ MaxSilence = MaxChecks + 1
        /\ Cardinality(Once(r)) \in Nat /\ Cardinality(Twice(r)) \in Nat
        /\ Checks(r) \in Int
        /\ silence[r] = Checks(r) + (IF "check" \in due THEN 1 ELSE 0)
    BY <2>1, Turns
  <2>3. Checks(r) + alive[r] + Cardinality(Once(r)) + Cardinality(Twice(r)) + 1 <= MaxChecks
    BY DEF SkipsLeft
  <2> QED
    BY <2>2, <2>3
<1> QED
  BY <1>1, <1>2, <1>3, Invariant, PTL DEF Spec
=============================================================================
