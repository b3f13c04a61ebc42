--------------------------- MODULE SessionProofs ---------------------------
(***************************************************************************)
(* Why a router that learnt its interfaces in time starts with the right   *)
(* id and routes, and why only a frame that overtook the hardware message  *)
(* can fail the assertion, for any number of hosts, interfaces and         *)
(* processes.                                                              *)
(***************************************************************************)
EXTENDS Session, FiniteSetTheorems, TLAPS

(* Lists of messages and of entries.                                       *)

LEMMA TailProperties ==
    ASSUME NEW S, NEW q \in Seq(S), q # <<>>
    PROVE  /\ Head(q) \in S /\ Head(q) = q[1]
           /\ Tail(q) \in Seq(S) /\ Len(q) \in Nat \ {0} /\ Len(Tail(q)) = Len(q) - 1
           /\ \A k \in 1 .. Len(q) - 1 : Tail(q)[k] = q[k + 1]
  OBVIOUS

LEMMA AppendProperties ==
    ASSUME NEW S, NEW q \in Seq(S), NEW m \in S
    PROVE  /\ Append(q, m) \in Seq(S) /\ Len(q) \in Nat /\ Len(Append(q, m)) = Len(q) + 1
           /\ Append(q, m) # <<>> /\ Append(q, m)[Len(q) + 1] = m
           /\ \A k \in 1 .. Len(q) : Append(q, m)[k] = q[k]
  OBVIOUS

LEMMA EmptyProperties ==
    ASSUME NEW S, NEW q \in Seq(S)
    PROVE  Len(q) \in Nat /\ (q = <<>> <=> Len(q) = 0) /\ <<>> \in Seq(S)
  OBVIOUS

LEMMA ThirdProperties ==
    ASSUME NEW m \in Nat, NEW r \in 0 .. 2
    PROVE  (3 * m + r) % 3 = r /\ (3 * m + r) \div 3 = m
  OBVIOUS

\* One entry more is handled, and one fewer left.
LEMMA NextPlace ==
    ASSUME NEW m \in Nat, NEW r \in Nat, NEW left \in Nat, NEW n \in Nat,
           3 * m + r + left = 3 * n
    PROVE  (3 * m + r + 1) + (left - 1) = 3 * n
  OBVIOUS

LEMMA ThirdRange ==
    ASSUME NEW n \in Nat, NEW k \in 1 .. 3 * n
    PROVE  1 + ((k - 1) % 3) \in 1 .. 3 /\ 1 + ((k - 1) \div 3) \in 1 .. n
  OBVIOUS

-----------------------------------------------------------------------------
(* The order in which the controller lists the interfaces.                 *)

\* Every interface is in the list, once.
LEMMA OrderProperties ==
    ASSUME NEW s \in Orders
    PROVE  /\ s \in [Ifs -> Ifs] /\ s \in Seq(Ifs) /\ Len(s) = NIfs /\ s # <<>>
           /\ \A i \in Ifs : \E k \in Ifs : s[k] = i
<1>1. /\ s \in [Ifs -> Ifs] /\ \A i, j \in Ifs : i # j => s[i] # s[j]
  BY DEF Orders
<1>2. s \in Injection(Ifs, Ifs)
  BY <1>1 DEF Injection, IsInjective
<1>3. IsFiniteSet(Ifs)
  BY SizesAssumption, FS_Interval DEF Ifs
<1>4. s \in Surjection(Ifs, Ifs)
  BY <1>2, <1>3, FS_Injection
<1>5. \A i \in Ifs : \E k \in Ifs : s[k] = i
  BY <1>4 DEF Surjection
<1>6. s \in Seq(Ifs) /\ Len(s) = NIfs /\ s # <<>>
  BY <1>1, SizesAssumption DEF Ifs
<1> QED
  BY <1>1, <1>5, <1>6

\* What the hardware message about s says, entry by entry.
LEMMA EntryAt ==
    ASSUME NEW s \in Orders, NEW m \in 0 .. NIfs - 1, NEW r \in 0 .. 2
    PROVE  HwEntries(s)[3 * m + r + 1] = [key |-> HwKeys[r + 1], intf |-> s[m + 1]]
<1>1. NIfs \in Nat /\ m \in Nat /\ 3 * m + r + 1 \in 1 .. 3 * NIfs
  BY SizesAssumption
<1>2. Len(s) = NIfs
  BY OrderProperties
<1>3. (3 * m + r + 1) - 1 = 3 * m + r
  BY <1>1
<1>4. /\ HwEntries(s)[3 * m + r + 1].key = HwKeys[1 + ((3 * m + r) % 3)]
      /\ HwEntries(s)[3 * m + r + 1] =
            [key |-> HwKeys[1 + ((3 * m + r) % 3)], intf |-> s[1 + ((3 * m + r) \div 3)]]
  BY <1>1, <1>2, <1>3 DEF HwEntries
<1>5. (3 * m + r) % 3 = r /\ (3 * m + r) \div 3 = m
  BY <1>1, ThirdProperties
<1>6. 1 + r = r + 1 /\ 1 + m = m + 1
  BY <1>1
<1> QED
  BY <1>4, <1>5, <1>6

LEMMA EntriesType ==
    ASSUME NEW s \in Orders
    PROVE  HwEntries(s) \in Seq(Entry) /\ Len(HwEntries(s)) = 3 * NIfs
<1>1. NIfs \in Nat /\ 3 * NIfs \in Nat
  BY SizesAssumption
<1>2. Len(s) = NIfs /\ s \in [1 .. NIfs -> Ifs]
  BY OrderProperties DEF Ifs
<1>3. ASSUME NEW k \in 1 .. 3 * NIfs
      PROVE  [key |-> HwKeys[1 + ((k - 1) % 3)], intf |-> s[1 + ((k - 1) \div 3)]] \in Entry
  <2>1. 1 + ((k - 1) % 3) \in 1 .. 3 /\ 1 + ((k - 1) \div 3) \in 1 .. NIfs
    BY <1>1, ThirdRange
  <2>2. HwKeys[1 + ((k - 1) % 3)] \in {"INTERFACE", "ETHIP", "MASK"}
    BY <2>1 DEF HwKeys
  <2>3. s[1 + ((k - 1) \div 3)] \in Ifs
    BY <1>2, <2>1
  <2> QED
    BY <2>2, <2>3 DEF Entry
<1>4. HwEntries(s) \in [1 .. 3 * NIfs -> Entry]
  BY <1>2, <1>3 DEF HwEntries
<1> QED
  BY <1>1, <1>4

-----------------------------------------------------------------------------
(* A step of one connection leaves the others as they are.                 *)

\* Nothing of connection c has changed that its invariant depends on.
Untouched(c) ==
    /\ host'[c] = host[c] /\ prog'[c] = prog[c] /\ pc'[c] = pc[c]
    /\ tpc'[c] = tpc[c] /\ pos'[c] = pos[c] /\ rid'[c] = rid[c] /\ early'[c] = early[c]
    /\ ifs'[c] = ifs[c] /\ todo'[c] = todo[c] /\ routes'[c] = routes[c]
    /\ srv'[c] = srv[c] /\ down'[c] = down[c] /\ up'[c] = up[c]
    /\ c \in overtaken => c \in overtaken'
    /\ \A v \in Vhosts : clients'[v] = c => clients[v] = c

\* The same of what the hardware message has built.
SameHardware(c) ==
    /\ prog'[c] = prog[c] /\ pc'[c] = pc[c]
    /\ ifs'[c] = ifs[c] /\ todo'[c] = todo[c]

LEMMA HardwareKept ==
    ASSUME NEW c \in Conns, Hardware(c), SameHardware(c)
    PROVE  Hardware(c)'
<1>1. \A s \in Orders, m \in 0 .. NIfs, r \in 0 .. 2 : Handled(c, s, m, r) => Handled(c, s, m, r)'
  BY DEF SameHardware, Handled, IsStatic
<1> QED
  BY <1>1 DEF SameHardware, Hardware, Blank

LEMMA UntouchedKept ==
    ASSUME NEW c \in Conns, ConnInv(c), Untouched(c)
    PROVE  ConnInv(c)'
<1>1. Hardware(c)'
  BY HardwareKept DEF ConnInv, Untouched, SameHardware
<1>2. Outside(c)'
  BY DEF ConnInv, Untouched, Outside, Blank, Told, IsStatic
<1>3. Once(c)'
  BY DEF ConnInv, Untouched, Once, OneOpen, OneHardware, Asked, Blank, Told, Served, Alive, Complete
<1>4. FramesBehind(c)'
  BY DEF ConnInv, Untouched, FramesBehind, Complete
<1>5. Settling(c)'
  BY DEF ConnInv, Untouched, Settling, Complete
<1>6. /\ pc'[c] = "aborted" => c \in overtaken'
      /\ pc'[c] = "run" /\ IsStatic(c)' /\ Complete(c)' => routes'[c] \subseteq Names(ifs[c])'
  BY DEF ConnInv, Untouched, IsStatic, Complete, Names
<1> QED
  BY <1>1, <1>2, <1>3, <1>4, <1>5, <1>6 DEF ConnInv

\* It is enough to look at the connection that takes the step.
LEMMA OneConnection ==
    ASSUME IInv, NEW c \in Conns, TypeOK', Shapes', ConnInv(c)',
           \A d \in Conns \ {c} : Untouched(d)
    PROVE  IInv'
<1>1. \A d \in Conns : ConnInv(d)'
  BY UntouchedKept DEF IInv
<1> QED
  BY <1>1 DEF IInv

-----------------------------------------------------------------------------
(* The two ends of a connection.                                           *)

LEMMA Tags ==
    /\ \A m \in ToRouter : m.type \in {"AUTH_REQUEST", "AUTH_STATUS", "HWINFO", "PACKET"}
    /\ \A m \in ToRouter : m.type = "HWINFO" => m.ifs \in Orders
    /\ \A m \in ToRouter : m.type = "PACKET" => m.intf \in Ifs
    /\ AuthReply.type = "AUTH_REPLY" /\ Open.type = "OPEN"
    /\ OpenTemplate.type = "OPEN_TEMPLATE" /\ PacketOut.type = "PACKET"
    /\ AuthRequest.type = "AUTH_REQUEST" /\ AuthStatus.type = "AUTH_STATUS"
    /\ \A s : HardwareInfo(s).type = "HWINFO"
    /\ \A i : Packet(i).type = "PACKET"
  BY DEF ToRouter, AuthReply, Open, OpenTemplate, PacketOut, AuthRequest, AuthStatus,
         HardwareInfo, Packet

\* The router takes the first message.
LEMMA RouterReads ==
    ASSUME IInv, NEW c \in Conns, NEW t, Next1(down[c], t), Read(c)
    PROVE  /\ down' \in [Conns -> Seq(ToRouter)]
           /\ \A d \in Conns \ {c} : down'[d] = down[d]
           /\ Head(down[c]) \in ToRouter /\ Head(down[c]).type = t
           /\ down[c] # <<>> /\ Alive(c)
           /\ Len(down[c]) \in Nat \ {0} /\ Len(down'[c]) = Len(down[c]) - 1
           /\ \A k \in 1 .. Len(down'[c]) : down'[c][k] = down[c][k + 1]
           /\ down[c][1].type = t
           /\ Told(c)' => Told(c)
           /\ OneHardware(c)' /\ (t = "HWINFO" => Told(c) /\ ~Told(c)')
<1>1. down \in [Conns -> Seq(ToRouter)] /\ down[c] # <<>> /\ Head(down[c]).type = t
  BY DEF IInv, Shapes, Next1
<1>2. down'[c] = Tail(down[c]) /\ down' = [down EXCEPT ![c] = Tail(down[c])]
  BY <1>1 DEF Read
<1>3. /\ Head(down[c]) \in ToRouter /\ Head(down[c]) = down[c][1]
      /\ Tail(down[c]) \in Seq(ToRouter)
      /\ Len(down[c]) \in Nat \ {0} /\ Len(down'[c]) = Len(down[c]) - 1
      /\ \A k \in 1 .. Len(down[c]) - 1 : down'[c][k] = down[c][k + 1]
  BY <1>1, <1>2, TailProperties
<1>4. Alive(c)
  BY <1>1 DEF IInv, TypeOK
<1>5. down' \in [Conns -> Seq(ToRouter)] /\ \A d \in Conns \ {c} : down'[d] = down[d]
  BY <1>1, <1>2, <1>3
<1>6. Told(c)' => Told(c)
  BY <1>3 DEF Told
<1>7. OneHardware(c)' /\ (t = "HWINFO" => Told(c) /\ ~Told(c)')
  <2>1. OneHardware(c)
    BY DEF IInv, ConnInv, Once
  <2>2. \A k \in 1 .. Len(down'[c]) : k \in 1 .. Len(down[c]) /\ k + 1 \in 1 .. Len(down[c]) /\ k + 1 # 1
    BY <1>3
  <2>3. OneHardware(c)'
    <3> SUFFICES ASSUME NEW j \in 1 .. Len(down'[c]), NEW k \in 1 .. Len(down'[c]),
                        down'[c][j].type = "HWINFO", down'[c][k].type = "HWINFO"
                 PROVE  j = k
      BY DEF OneHardware
    <3>1. down[c][j + 1].type = "HWINFO" /\ down[c][k + 1].type = "HWINFO"
      BY <1>3
    <3>2. j + 1 = k + 1
      BY <2>1, <2>2, <3>1 DEF OneHardware
    <3> QED
      BY <3>2
  <2>4. t = "HWINFO" => Told(c)
    BY <1>1, <1>3 DEF Told
  <2>5. t = "HWINFO" => ~Told(c)'
    BY <1>1, <1>3, <2>1, <2>2 DEF OneHardware, Told
  <2> QED
    BY <2>3, <2>4, <2>5
<1> QED
  BY <1>1, <1>3, <1>4, <1>5, <1>6, <1>7

\* Reading a message that is not the hardware message leaves every frame
\* behind it, or behind the message that was handled.
LEMMA FramesAfterRead ==
    ASSUME IInv, NEW c \in Conns, NEW t, Next1(down[c], t), Read(c), t # "HWINFO",
           pc[c] # "hw", Complete(c) => Complete(c)', overtaken' = overtaken
    PROVE  FramesBehind(c)'
<1> SUFFICES ASSUME NEW k \in 1 .. Len(down'[c]), down'[c][k].type = "PACKET",
                    c \notin overtaken, ~Complete(c)
             PROVE  \E j \in 1 .. k - 1 : down'[c][j].type = "HWINFO"
  BY DEF FramesBehind
<1>1. /\ Len(down[c]) \in Nat \ {0} /\ Len(down'[c]) = Len(down[c]) - 1
      /\ \A j \in 1 .. Len(down'[c]) : down'[c][j] = down[c][j + 1]
      /\ down[c][1].type = t
  BY RouterReads
<1>2. k + 1 \in 1 .. Len(down[c]) /\ down[c][k + 1].type = "PACKET"
  BY <1>1
<1>3. FramesBehind(c)
  BY DEF IInv, ConnInv
<1>4. PICK j \in 1 .. k : down[c][j].type = "HWINFO"
  BY <1>2, <1>3 DEF FramesBehind
<1>5. j - 1 \in 1 .. k - 1 /\ down'[c][j - 1] = down[c][(j - 1) + 1] /\ (j - 1) + 1 = j
  BY <1>1, <1>4
<1> QED
  BY <1>4, <1>5

\* The router says m.
LEMMA RouterWrites ==
    ASSUME IInv, NEW c \in Conns, NEW m \in FromRouter, Write(c, m)
    PROVE  /\ up' \in [Conns -> Seq(FromRouter)]
           /\ \A d \in Conns \ {c} : up'[d] = up[d]
           /\ Len(up[c]) \in Nat /\ Len(up'[c]) = Len(up[c]) + 1
           /\ up'[c][Len(up[c]) + 1] = m /\ up'[c] # <<>>
           /\ \A k \in 1 .. Len(up[c]) : up'[c][k] = up[c][k]
           /\ Asked(c)' <=> Asked(c) \/ m.type = "OPEN"
           /\ m.type # "OPEN" \/ ~Asked(c) => OneOpen(c)'
<1>1. up \in [Conns -> Seq(FromRouter)] /\ up' = [up EXCEPT ![c] = Append(up[c], m)]
  BY DEF IInv, Shapes, Write
<1>2. up'[c] = Append(up[c], m)
  BY <1>1
<1>3. /\ up'[c] \in Seq(FromRouter) /\ Len(up[c]) \in Nat /\ Len(up'[c]) = Len(up[c]) + 1
      /\ up'[c] # <<>> /\ up'[c][Len(up[c]) + 1] = m
      /\ \A k \in 1 .. Len(up[c]) : up'[c][k] = up[c][k]
  BY <1>1, <1>2, AppendProperties
<1>4. Asked(c)' <=> Asked(c) \/ m.type = "OPEN"
  <2>1. 1 .. Len(up'[c]) = 1 .. Len(up[c]) \cup {Len(up[c]) + 1}
    BY <1>3
  <2> QED
    BY <1>3, <2>1 DEF Asked
<1>5. m.type # "OPEN" \/ ~Asked(c) => OneOpen(c)'
  <2>1. OneOpen(c)
    BY DEF IInv, ConnInv, Once
  <2>2. 1 .. Len(up'[c]) = 1 .. Len(up[c]) \cup {Len(up[c]) + 1}
    BY <1>3
  <2> QED
    BY <1>3, <2>1, <2>2 DEF OneOpen, Asked
<1> QED
  BY <1>1, <1>2, <1>3, <1>4, <1>5

\* The controller takes the first message.
LEMMA ControllerTakes ==
    ASSUME IInv, NEW c \in Conns, NEW t, Next1(up[c], t), Take(c)
    PROVE  /\ up' \in [Conns -> Seq(FromRouter)]
           /\ \A d \in Conns \ {c} : up'[d] = up[d]
           /\ Len(up[c]) \in Nat \ {0} /\ Len(up'[c]) = Len(up[c]) - 1
           /\ \A k \in 1 .. Len(up'[c]) : up'[c][k] = up[c][k + 1]
           /\ up[c][1].type = t /\ up[c] # <<>>
           /\ Asked(c)' => Asked(c)
           /\ OneOpen(c)' /\ (t = "OPEN" => Asked(c) /\ ~Asked(c)')
<1>1. up \in [Conns -> Seq(FromRouter)] /\ up[c] # <<>> /\ Head(up[c]).type = t
  BY DEF IInv, Shapes, Next1
<1>2. up'[c] = Tail(up[c]) /\ up' = [up EXCEPT ![c] = Tail(up[c])]
  BY <1>1 DEF Take
<1>3. /\ Head(up[c]) = up[c][1] /\ Tail(up[c]) \in Seq(FromRouter)
      /\ Len(up[c]) \in Nat \ {0} /\ Len(up'[c]) = Len(up[c]) - 1
      /\ \A k \in 1 .. Len(up[c]) - 1 : up'[c][k] = up[c][k + 1]
  BY <1>1, <1>2, TailProperties
<1>4. up' \in [Conns -> Seq(FromRouter)] /\ \A d \in Conns \ {c} : up'[d] = up[d]
  BY <1>1, <1>2, <1>3
<1>5. (Asked(c)' => Asked(c)) /\ (t = "OPEN" => Asked(c))
  BY <1>1, <1>3 DEF Asked
<1>6. OneOpen(c)' /\ (t = "OPEN" => ~Asked(c)')
  <2>1. OneOpen(c)
    BY DEF IInv, ConnInv, Once
  <2>2. \A k \in 1 .. Len(up'[c]) : k \in 1 .. Len(up[c]) /\ k + 1 \in 1 .. Len(up[c]) /\ k + 1 # 1
    BY <1>2, <1>3
  <2>3. OneOpen(c)'
    BY <1>2, <1>3, <2>1, <2>2 DEF OneOpen
  <2>4. t = "OPEN" => ~Asked(c)'
    BY <1>1, <1>2, <1>3, <2>1, <2>2 DEF OneOpen, Asked
  <2> QED
    BY <2>3, <2>4
<1> QED
  BY <1>1, <1>2, <1>3, <1>4, <1>5, <1>6

\* The controller says m; a process that has ended gets nothing.
LEMMA ControllerTells ==
    ASSUME IInv, NEW c \in Conns, NEW m \in ToRouter, Tell(c, m)
    PROVE  /\ down' \in [Conns -> Seq(ToRouter)]
           /\ \A d \in Conns \ {c} : down'[d] = down[d]
           /\ ~Alive(c) => down'[c] = down[c] /\ down[c] = <<>>
           /\ Len(down[c]) \in Nat
           /\ Alive(c) => /\ Len(down'[c]) = Len(down[c]) + 1
                          /\ down'[c][Len(down[c]) + 1] = m
           /\ \A k \in 1 .. Len(down[c]) : down'[c][k] = down[c][k]
           /\ Told(c)' <=> Told(c) \/ (Alive(c) /\ m.type = "HWINFO")
           /\ m.type # "HWINFO" \/ ~Told(c) => OneHardware(c)'
<1>1. down \in [Conns -> Seq(ToRouter)] /\ (~Alive(c) => down[c] = <<>>)
  BY DEF IInv, Shapes, TypeOK
<1>2. Len(down[c]) \in Nat
  BY <1>1, EmptyProperties
<1>5. OneHardware(c)
  BY DEF IInv, ConnInv, Once
<1>3. CASE ~Alive(c)
  <2>1. down' = down
    BY <1>3 DEF Tell
  <2> QED
    BY <1>1, <1>2, <1>3, <2>1, <1>5 DEF Told, OneHardware
<1>4. CASE Alive(c)
  <2>1. down' = [down EXCEPT ![c] = Append(down[c], m)] /\ down'[c] = Append(down[c], m)
    BY <1>1, <1>4 DEF Tell
  <2>2. /\ down'[c] \in Seq(ToRouter) /\ Len(down'[c]) = Len(down[c]) + 1
        /\ down'[c][Len(down[c]) + 1] = m
        /\ \A k \in 1 .. Len(down[c]) : down'[c][k] = down[c][k]
    BY <1>1, <2>1, AppendProperties
  <2>3. 1 .. Len(down'[c]) = 1 .. Len(down[c]) \cup {Len(down[c]) + 1}
    BY <1>2, <2>2
  <2>4. Told(c)' <=> Told(c) \/ m.type = "HWINFO"
    BY <1>2, <2>2, <2>3 DEF Told
  <2>5. m.type # "HWINFO" \/ ~Told(c) => OneHardware(c)'
    BY <1>2, <1>5, <2>2, <2>3 DEF OneHardware, Told
  <2> QED
    BY <1>1, <1>2, <1>4, <2>1, <2>2, <2>4, <2>5
<1> QED
  BY <1>3, <1>4

-----------------------------------------------------------------------------
(* The process: from connecting to the main loop.                          *)

LEMMA AuthenticateKeeps ==
    ASSUME IInv, NEW c \in Conns, Authenticate(c)
    PROVE  IInv'
<1> USE DEF id, thread, ctrl, Goto
<1>1. AuthReply \in FromRouter /\ AuthReply.type # "OPEN"
  BY Tags DEF FromRouter
<1>2. Read(c) /\ Write(c, AuthReply) /\ Next1(down[c], "AUTH_REQUEST") /\ pc[c] = "auth"
  BY DEF Authenticate
<1>3. pc'[c] = "status" /\ pc \in [Conns -> {"unused", "auth", "status", "rtable", "run", "hw",
                         "over", "aborted"}] /\ \A d \in Conns \ {c} : pc'[d] = pc[d]
  BY DEF Authenticate, IInv, TypeOK
<1>8. /\ \A d \in Conns \ {c} : down'[d] = down[d]
      /\ Alive(c) /\ (Told(c)' => Told(c)) /\ OneHardware(c)'
  BY <1>2, RouterReads
<1>9. /\ \A d \in Conns \ {c} : up'[d] = up[d]
      /\ (Asked(c)' => Asked(c)) /\ OneOpen(c)'
  BY <1>1, <1>2, RouterWrites
<1>4. Shapes'
  BY <1>1, <1>2, RouterReads, RouterWrites DEF Authenticate, IInv, Shapes
<1>5. TypeOK'
  BY <1>1, <1>2, <1>3, RouterReads DEF Authenticate, IInv, TypeOK, Alive
<1>6. \A d \in Conns \ {c} : Untouched(d)
  BY <1>1, <1>3, <1>8, <1>9 DEF Authenticate, Untouched
<1>7. ConnInv(c)'
  <2>0. ConnInv(c)
    BY DEF IInv
  <2>1. Hardware(c)'
    BY <2>0, <1>2, <1>3 DEF Authenticate, ConnInv, Hardware, Blank, Outside
  <2>2. Outside(c)'
    BY <2>0, <1>2, <1>3, RouterReads DEF Authenticate, ConnInv, Outside, Blank, IsStatic
  <2>3. Once(c)'
    BY <2>0, <1>3, <1>8, <1>9
    DEF Authenticate, ConnInv, Outside, Once, Blank, Alive
  <2>4. FramesBehind(c)'
    BY <1>2, <1>3, FramesAfterRead DEF Authenticate, Complete
  <2>5. Settling(c)'
    BY <2>0, <1>2, <1>3 DEF Authenticate, ConnInv, Outside, Settling
  <2> QED
    BY <2>1, <2>2, <2>3, <2>4, <2>5, <1>3 DEF ConnInv
<1> QED
  BY <1>4, <1>5, <1>6, <1>7, OneConnection

LEMMA OpenByTemplateKeeps ==
    ASSUME IInv, NEW c \in Conns, OpenByTemplate(c)
    PROVE  IInv'
<1> USE DEF id, thread, ctrl, Goto
<1>1. OpenTemplate \in FromRouter /\ OpenTemplate.type # "OPEN"
  BY Tags DEF FromRouter
<1>2. Read(c) /\ Write(c, OpenTemplate) /\ Next1(down[c], "AUTH_STATUS") /\ pc[c] = "status"
  BY DEF OpenByTemplate
<1>3. pc'[c] = "rtable" /\ \A d \in Conns \ {c} : pc'[d] = pc[d]
  BY DEF OpenByTemplate, IInv, TypeOK
<1>4. /\ \A d \in Conns \ {c} : down'[d] = down[d]
      /\ Alive(c) /\ (Told(c)' => Told(c)) /\ OneHardware(c)'
  BY <1>2, RouterReads
<1>5. /\ \A d \in Conns \ {c} : up'[d] = up[d]
      /\ (Asked(c)' => Asked(c)) /\ OneOpen(c)'
  BY <1>1, <1>2, RouterWrites
<1>6. Shapes'
  BY <1>1, <1>2, RouterReads, RouterWrites DEF OpenByTemplate, IInv, Shapes
<1>7. TypeOK'
  BY <1>2, <1>3, <1>4 DEF OpenByTemplate, IInv, TypeOK, Alive
<1>8. \A d \in Conns \ {c} : Untouched(d)
  BY <1>3, <1>4, <1>5 DEF OpenByTemplate, Untouched
<1>9. ConnInv(c)'
  <2>0. ConnInv(c)
    BY DEF IInv
  <2>1. Hardware(c)'
    BY <2>0, <1>2, <1>3 DEF OpenByTemplate, ConnInv, Hardware, Blank, Outside
  <2>2. Outside(c)'
    BY <2>0, <1>2, <1>3, <1>4 DEF OpenByTemplate, ConnInv, Outside, Blank, IsStatic
  <2>3. Once(c)'
    BY <2>0, <1>2, <1>3, <1>4, <1>5
    DEF OpenByTemplate, ConnInv, Outside, Once, Blank, Alive
  <2>4. FramesBehind(c)'
    BY <1>2, <1>3, FramesAfterRead DEF OpenByTemplate, Complete
  <2>5. Settling(c)'
    BY <2>0, <1>2 DEF OpenByTemplate, ConnInv, Outside, Settling
  <2> QED
    BY <2>1, <2>2, <2>3, <2>4, <2>5, <1>3 DEF ConnInv
<1> QED
  BY <1>6, <1>7, <1>8, <1>9, OneConnection

LEMMA OpenSessionKeeps ==
    ASSUME IInv, NEW c \in Conns, OpenSession(c)
    PROVE  IInv'
<1> USE DEF id, ctrl, Goto
<1>1. Open \in FromRouter /\ Open.type = "OPEN"
  BY Tags DEF FromRouter
<1>2. Read(c) /\ Write(c, Open) /\ Next1(down[c], "AUTH_STATUS") /\ pc[c] = "status"
  BY DEF OpenSession
<1>3. /\ pc'[c] = "run" /\ tpc'[c] = (IF IsStatic(c) THEN "off" ELSE "sleep")
      /\ \A d \in Conns \ {c} : pc'[d] = pc[d] /\ tpc'[d] = tpc[d]
  BY DEF OpenSession, SrInit, IInv, TypeOK
<1>0. /\ ConnInv(c) /\ ~Told(c) /\ Blank(c) /\ tpc[c] = "off" /\ srv[c] # "opening" /\ ~Asked(c)
      /\ ~Complete(c) /\ pos[c] = 1 /\ rid[c] = 0
      /\ \A v \in Vhosts : clients[v] # c
  <2>1. ConnInv(c)
    BY DEF IInv
  <2>2. Blank(c) => ~Complete(c)
    BY SizesAssumption DEF Blank, Complete
  <2> QED
    BY <2>1, <2>2, <1>2 DEF ConnInv, Outside, Once
<1>4. /\ \A d \in Conns \ {c} : down'[d] = down[d]
      /\ Alive(c) /\ (Told(c)' => Told(c)) /\ OneHardware(c)'
  BY <1>2, RouterReads
<1>5. /\ \A d \in Conns \ {c} : up'[d] = up[d]
      /\ OneOpen(c)'
  BY <1>0, <1>1, <1>2, RouterWrites
<1>6. Shapes'
  BY <1>1, <1>2, RouterReads, RouterWrites DEF OpenSession, IInv, Shapes
<1>7. TypeOK'
  BY <1>2, <1>3, <1>4 DEF OpenSession, SrInit, IInv, TypeOK, Alive
<1>8. \A d \in Conns \ {c} : Untouched(d)
  BY <1>3, <1>4, <1>5 DEF OpenSession, Untouched
<1>9. ConnInv(c)'
  <2>1. Hardware(c)'
    BY <1>0, <1>3 DEF OpenSession, Hardware, Blank
  <2>2. Outside(c)'
    BY <1>0, <1>2, <1>3 DEF OpenSession, ConnInv, Outside, IsStatic
  <2>3. Once(c)'
    BY <1>0, <1>3, <1>4, <1>5 DEF OpenSession, Once, Blank
  <2>4. FramesBehind(c)'
    BY <1>2, FramesAfterRead DEF OpenSession, Complete
  <2>5. Settling(c)'
    BY <1>3 DEF Settling
  <2>6. ~Complete(c)'
    BY <1>0 DEF OpenSession, Complete
  <2> QED
    BY <2>1, <2>2, <2>3, <2>4, <2>5, <2>6, <1>3 DEF ConnInv
<1> QED
  BY <1>6, <1>7, <1>8, <1>9, OneConnection

\* A process that ends, for whatever reason.
LEMMA EndsKeeps ==
    ASSUME IInv, NEW c \in Conns, NEW why \in {"over", "aborted"}, Alive(c),
           why = "aborted" => c \in overtaken, Ends(c, why), UNCHANGED <<id, up, ctrl>>
    PROVE  IInv'
<1> USE DEF id, ctrl, Goto, Ends
<1>1. /\ pc'[c] = why /\ tpc'[c] = "off" /\ pos'[c] = 1 /\ ifs'[c] = <<>> /\ todo'[c] = <<>>
      /\ rid'[c] = 0 /\ routes'[c] = {} /\ early'[c] = FALSE /\ down'[c] = <<>>
      /\ \A d \in Conns \ {c} :
            /\ pc'[d] = pc[d] /\ tpc'[d] = tpc[d] /\ pos'[d] = pos[d] /\ ifs'[d] = ifs[d]
            /\ todo'[d] = todo[d] /\ rid'[d] = rid[d] /\ routes'[d] = routes[d]
            /\ early'[d] = early[d] /\ down'[d] = down[d]
  BY DEF IInv, TypeOK, Shapes
<1>2. Shapes'
  <2>1. <<>> \in Seq(Records) /\ <<>> \in Seq(Entry) /\ <<>> \in Seq(ToRouter)
    OBVIOUS
  <2> QED
    BY <2>1 DEF IInv, Shapes
<1>3. TypeOK'
  <2>1. /\ pc' \in [Conns -> {"unused", "auth", "status", "rtable", "run", "hw",
                              "over", "aborted"}]
        /\ tpc' \in [Conns -> {"off", "sleep", "scan", "routes", "run"}]
        /\ rid' \in [Conns -> 0 .. NIfs + 1] /\ early' \in [Conns -> BOOLEAN]
    BY SizesAssumption DEF IInv, TypeOK
  <2>2. \A d \in Conns :
            /\ \A k \in 1 .. Len(ifs'[d]) : ifs'[d][k] \in Records
            /\ Len(ifs'[d]) <= NIfs
            /\ pos'[d] \in 1 .. Len(ifs'[d]) + 1
            /\ down'[d] # <<>> => Alive(d)'
    BY <1>1, SizesAssumption DEF IInv, TypeOK, Alive
  <2> QED
    BY <2>1, <2>2 DEF IInv, TypeOK
<1>4. \A d \in Conns \ {c} : Untouched(d)
  BY <1>1 DEF Untouched
<1>5. ConnInv(c)'
  <2>1. ~Told(c)' /\ OneHardware(c)' /\ Blank(c)' /\ ~Alive(c)' /\ FramesBehind(c)'
    BY <1>1 DEF Told, OneHardware, Blank, Alive, FramesBehind
  <2>2. Outside(c)' /\ Once(c)'
    BY <1>1, <2>1 DEF IInv, ConnInv, Outside, Once, OneOpen, Asked, Alive, IsStatic
  <2>3. Hardware(c)' /\ Settling(c)'
    BY <1>1, <2>1 DEF Hardware, Settling
  <2> QED
    BY <1>1, <2>1, <2>2, <2>3 DEF ConnInv
<1> QED
  BY <1>2, <1>3, <1>4, <1>5, OneConnection

LEMMA StartKeeps ==
    ASSUME IInv, NEW c \in Conns, NEW v \in Vhosts, NEW p \in Programs, Start(c, v, p)
    PROVE  IInv'
<1> USE DEF Goto, thread
<1>1. /\ pc[c] = "unused" /\ pc'[c] = "auth" /\ host'[c] = v /\ prog'[c] = p
      /\ srv'[c] = "accepting"
      /\ \A d \in Conns \ {c} : /\ pc'[d] = pc[d] /\ host'[d] = host[d] /\ prog'[d] = prog[d]
                                /\ srv'[d] = srv[d]
  BY DEF Start, IInv, TypeOK
<1>2. ConnInv(c)
  BY DEF IInv
<1>3. /\ routes' \in [Conns -> SUBSET Nat]
      /\ \A d \in Conns \ {c} : routes'[d] = routes[d]
  <2>1. PICK t \in Tables[<<v, p>>] : routes' = [routes EXCEPT ![c] = t]
    BY DEF Start, LoadTable
  <2>2. Tables[<<v, p>>] \in SUBSET SUBSET Nat
    BY HostsAssumption DEF Programs
  <2>3. t \in SUBSET Nat
    BY <2>1, <2>2
  <2> QED
    BY <2>1, <2>3 DEF IInv, Shapes
<1>4. Shapes'
  BY <1>3 DEF Start, IInv, Shapes
<1>5. TypeOK'
  BY <1>1 DEF Start, IInv, TypeOK, Alive
<1>6. \A d \in Conns \ {c} : Untouched(d)
  BY <1>1, <1>3 DEF Start, Untouched
<1>7. ConnInv(c)'
  <2>1. tpc'[c] = "off" /\ Blank(c)' /\ ~Told(c)' /\ up'[c] = <<>> /\ ~Asked(c)'
    BY <1>1, <1>2 DEF Start, ConnInv, Outside, Blank, Told, Asked
  <2>2. Outside(c)'
    BY <1>1, <1>2, <2>1 DEF Start, ConnInv, Outside
  <2>3. Once(c)'
    BY <1>1, <1>2, <2>1 DEF Start, ConnInv, Once, OneOpen, OneHardware
  <2>4. Hardware(c)' /\ Settling(c)' /\ FramesBehind(c)'
    BY <1>1, <1>2, <2>1 DEF Start, ConnInv, Hardware, Settling, FramesBehind, Complete
  <2> QED
    BY <1>1, <2>2, <2>3, <2>4 DEF ConnInv
<1> QED
  BY <1>4, <1>5, <1>6, <1>7, OneConnection

-----------------------------------------------------------------------------
(* The hardware message.                                                   *)

LEMMA HwInfoKeeps ==
    ASSUME IInv, NEW c \in Conns, HwInfo(c)
    PROVE  IInv'
<1> USE DEF id, thread, ctrl, Goto
<1>1. Read(c) /\ Next1(down[c], "HWINFO") /\ pc[c] = "run" /\ up' = up
  BY DEF HwInfo
<1>2. /\ \A d \in Conns \ {c} : down'[d] = down[d]
      /\ Head(down[c]) \in ToRouter /\ Head(down[c]).type = "HWINFO"
      /\ Alive(c) /\ Told(c) /\ ~Told(c)' /\ OneHardware(c)'
      /\ down' \in [Conns -> Seq(ToRouter)]
  BY <1>1, RouterReads
<1>3. PICK s \in Orders : s = Head(down[c]).ifs
  BY <1>2, Tags
<1>4. HwEntries(s) \in Seq(Entry) /\ Len(HwEntries(s)) = 3 * NIfs
  BY <1>3, EntriesType
<1>5. /\ todo' = [todo EXCEPT ![c] = HwEntries(s)] /\ todo'[c] = HwEntries(s)
      /\ pc'[c] = "hw"
      /\ \A d \in Conns \ {c} : todo'[d] = todo[d] /\ pc'[d] = pc[d]
  BY <1>3 DEF HwInfo, IInv, TypeOK, Shapes
<1>0. /\ ConnInv(c) /\ Blank(c) /\ srv[c] # "opening" /\ ~Asked(c) /\ ~Complete(c)
  <2>1. ConnInv(c)
    BY DEF IInv
  <2>2. Blank(c) => ~Complete(c)
    BY SizesAssumption DEF Blank, Complete
  <2> QED
    BY <2>1, <2>2, <1>2 DEF ConnInv, Once
<1>6. Shapes'
  BY <1>1, <1>2, <1>4, <1>5 DEF HwInfo, IInv, Shapes
<1>7. TypeOK'
  BY <1>1, <1>2, <1>5 DEF HwInfo, IInv, TypeOK, Alive
<1>8. \A d \in Conns \ {c} : Untouched(d)
  BY <1>2, <1>5 DEF HwInfo, Untouched
<1>9. ConnInv(c)'
  <2>1. Hardware(c)'
    <3>1. NIfs \in Nat /\ 0 \in 0 .. NIfs /\ ifs'[c] = <<>> /\ 3 * 0 + 0 = 0
      BY <1>0, SizesAssumption DEF HwInfo, Blank
    <3>2. 3 * 0 + 0 + Len(HwEntries(s)) = 3 * NIfs
      BY <1>4, <3>1
    <3>3. \A k \in 1 .. Len(HwEntries(s)) : 3 * 0 + 0 + k = k
      BY <1>4, <3>1
    <3>4. Len(ifs'[c]) = 0
      BY <3>1
    <3>5. Handled(c, s, 0, 0)'
      BY <1>5, <3>2, <3>3, <3>4 DEF Handled
    <3>6. 0 \in 0 .. 2
      OBVIOUS
    <3>7. \E t \in Orders, m \in 0 .. NIfs, r \in 0 .. 2 : Handled(c, t, m, r)'
      BY <1>3, <3>1, <3>5, <3>6
    <3> QED
      BY <1>5, <3>7 DEF Hardware
  <2>2. Outside(c)'
    BY <1>0, <1>1, <1>5 DEF HwInfo, ConnInv, Outside, IsStatic
  <2>3. Once(c)'
    BY <1>0, <1>1, <1>2, <1>5 DEF HwInfo, ConnInv, Once, OneOpen, Asked, Served
  <2>4. FramesBehind(c)'
    BY <1>5 DEF FramesBehind
  <2>5. Settling(c)'
    BY <1>0 DEF HwInfo, ConnInv, Settling
  <2> QED
    BY <2>1, <2>2, <2>3, <2>4, <2>5, <1>5 DEF ConnInv
<1> QED
  BY <1>6, <1>7, <1>8, <1>9, OneConnection

\* The order a list is built in, and how far it is; what is next.
LEMMA NextEntry ==
    ASSUME IInv, NEW c \in Conns, pc[c] = "hw", todo[c] # <<>>
    PROVE  \E s \in Orders, m \in 0 .. NIfs - 1, r \in 0 .. 2 :
            /\ Handled(c, s, m, r)
            /\ Head(todo[c]) = [key |-> HwKeys[r + 1], intf |-> s[m + 1]]
<1>1. PICK s \in Orders, m \in 0 .. NIfs, r \in 0 .. 2 : Handled(c, s, m, r)
  BY DEF IInv, ConnInv, Hardware
<1>2. todo[c] \in Seq(Entry) /\ NIfs \in Nat
  BY SizesAssumption DEF IInv, Shapes
<1>3. Len(todo[c]) \in Nat \ {0} /\ Head(todo[c]) = todo[c][1]
  BY <1>2, TailProperties
<1>4. todo[c][1] = HwEntries(s)[3 * m + r + 1]
  <2>1. 1 \in 1 .. Len(todo[c])
    BY <1>3
  <2> QED
    BY <1>1, <2>1, Zenon DEF Handled
<1>5. m \in 0 .. NIfs - 1
  <2>1. PICK left \in Nat \ {0} : left = Len(todo[c])
    BY <1>3
  <2>2. 3 * m + r + left = 3 * NIfs
    BY <1>1, <2>1, Zenon DEF Handled
  <2> QED
    BY <1>2, <2>2
<1>6. Head(todo[c]) = [key |-> HwKeys[r + 1], intf |-> s[m + 1]]
  BY <1>3, <1>4, <1>5, EntryAt
<1> QED
  BY <1>1, <1>5, <1>6

\* What the list is when nothing is left to do.
LEMMA Finished ==
    ASSUME IInv, NEW c \in Conns, todo[c] = <<>>, pc[c] = "hw" \/ ifs[c] # <<>>
    PROVE  /\ Complete(c) /\ Names(ifs[c]) = Ifs
           /\ \A i \in Ifs : \E k \in 1 .. Len(ifs[c]) : ifs[c][k].name = i
           /\ \A k \in 1 .. Len(ifs[c]) :
                /\ ifs[c][k].name \in Ifs /\ ifs[c][k].ip = ifs[c][k].name
                /\ ifs[c][k].mask \/ IsStatic(c)
<1>1. PICK s \in Orders, m \in 0 .. NIfs, r \in 0 .. 2 : Handled(c, s, m, r)
  BY DEF IInv, ConnInv, Hardware, Blank
<1>2. NIfs \in Nat /\ Len(todo[c]) = 0
  BY SizesAssumption
<1>3. 3 * m + r + Len(todo[c]) = 3 * NIfs
  BY <1>1 DEF Handled
<1>4. m = NIfs /\ r = 0
  BY <1>2, <1>3
<1>5. /\ Len(ifs[c]) = NIfs
      /\ \A k \in 1 .. NIfs : /\ ifs[c][k].name = s[k] /\ ifs[c][k].ip = s[k]
                              /\ ifs[c][k].mask \/ IsStatic(c)
  BY <1>1, <1>2, <1>4 DEF Handled
<1>6. s \in [Ifs -> Ifs] /\ \A i \in Ifs : \E k \in Ifs : s[k] = i
  BY OrderProperties
<1>7. /\ \A i \in Ifs : \E k \in 1 .. Len(ifs[c]) : ifs[c][k].name = i
      /\ \A k \in 1 .. Len(ifs[c]) : ifs[c][k].name \in Ifs
  <2>1. 1 .. Len(ifs[c]) = Ifs /\ \A k \in Ifs : ifs[c][k].name = s[k]
    BY <1>5 DEF Ifs
  <2>2. \A k \in Ifs : ifs[c][k].name \in Ifs
    BY <1>6, <2>1
  <2>3. ASSUME NEW i \in Ifs PROVE \E k \in Ifs : ifs[c][k].name = i
    <3>1. PICK k \in Ifs : s[k] = i
      BY <1>6
    <3>2. ifs[c][k].name = i
      BY <2>1, <3>1
    <3> QED
      BY <3>2
  <2> QED
    BY <2>1, <2>2, <2>3, Zenon
<1>8. Names(ifs[c]) = Ifs
  BY <1>7 DEF Names
<1> QED
  BY <1>5, <1>7, <1>8 DEF Complete

\* One entry changes the list only.
LEMMA EntryHandled ==
    ASSUME IInv, NEW c \in Conns, HwEntry(c),
           NEW s \in Orders, NEW m \in 0 .. NIfs, NEW r \in 0 .. 2, Handled(c, s, m, r)',
           ifs'[c] \in Seq(Records), Len(ifs[c]) <= Len(ifs'[c]), Len(ifs'[c]) <= NIfs
    PROVE  IInv'
<1> USE DEF id, thread, ctrl
<1>1. /\ pc[c] = "hw" /\ pc' = pc /\ todo[c] # <<>> /\ down' = down
      /\ \A d \in Conns \ {c} : ifs'[d] = ifs[d] /\ todo'[d] = todo[d]
      /\ \E l : ifs' = [ifs EXCEPT ![c] = l]
  BY DEF HwEntry, IInv, TypeOK, Shapes
<1>2. ConnInv(c) /\ ~Complete(c) /\ ~Told(c) /\ Alive(c)
  BY <1>1 DEF IInv, ConnInv, Once, Complete, Alive
<1>3. todo[c] \in Seq(Entry) /\ todo' = [todo EXCEPT ![c] = Tail(todo[c])]
  BY DEF HwEntry, IInv, Shapes
<1>4. Tail(todo[c]) \in Seq(Entry)
  BY <1>1, <1>3, TailProperties
<1>5. Shapes'
  BY <1>1, <1>3, <1>4 DEF HwEntry, IInv, Shapes
<1>6. TypeOK'
  <2>1. \A k \in 1 .. Len(ifs'[c]) : ifs'[c][k] \in Records
    OBVIOUS
  <2>2. Len(ifs[c]) \in Nat /\ Len(ifs'[c]) \in Nat /\ pos[c] \in 1 .. Len(ifs[c]) + 1
    BY EmptyProperties DEF IInv, TypeOK, Shapes
  <2>3. pos[c] \in 1 .. Len(ifs'[c]) + 1
    BY <2>2
  <2> QED
    BY <1>1, <1>2, <2>1, <2>3 DEF HwEntry, IInv, TypeOK, Alive
<1>7. \A d \in Conns \ {c} : Untouched(d)
  BY <1>1 DEF HwEntry, Untouched
<1>8. ConnInv(c)'
  <2>1. Hardware(c)'
    BY <1>1 DEF Hardware
  <2>2. Outside(c)' /\ FramesBehind(c)'
    BY <1>1, <1>2 DEF HwEntry, ConnInv, Outside, FramesBehind, IsStatic
  <2>3. Once(c)'
    BY <1>1, <1>2 DEF HwEntry, ConnInv, Once, OneOpen, OneHardware, Asked, Told, Served
  <2>4. Settling(c)'
    BY <1>2 DEF HwEntry, ConnInv, Settling
  <2> QED
    BY <1>1, <2>1, <2>2, <2>3, <2>4 DEF ConnInv
<1> QED
  BY <1>5, <1>6, <1>7, <1>8, OneConnection

LEMMA HwEntryKeeps ==
    ASSUME IInv, NEW c \in Conns, HwEntry(c)
    PROVE  IInv'
<1>1. pc[c] = "hw" /\ todo[c] # <<>> /\ IsStatic(c)' = IsStatic(c)
  BY DEF HwEntry, id, IsStatic
<1>2. PICK s \in Orders, m \in 0 .. NIfs - 1, r \in 0 .. 2 :
        /\ Handled(c, s, m, r)
        /\ Head(todo[c]) = [key |-> HwKeys[r + 1], intf |-> s[m + 1]]
  BY <1>1, NextEntry
<1>3. NIfs \in Nat /\ m \in Nat /\ r \in Nat /\ m \in 0 .. NIfs /\ m + 1 \in 0 .. NIfs /\ m + 1 \in Ifs
  BY SizesAssumption DEF Ifs
<1>4. s[m + 1] \in Ifs
  BY <1>3, OrderProperties
<1>5. ifs[c] \in Seq(Records) /\ todo[c] \in Seq(Entry) /\ Len(ifs[c]) \in Nat
  BY EmptyProperties DEF IInv, Shapes
<1>6. /\ Len(todo[c]) \in Nat \ {0} /\ Len(todo'[c]) = Len(todo[c]) - 1
      /\ \A k \in 1 .. Len(todo'[c]) : todo'[c][k] = todo[c][k + 1]
  <2>1. todo'[c] = Tail(todo[c])
    BY <1>5 DEF HwEntry, IInv, Shapes
  <2> QED
    BY <1>1, <1>5, <2>1, TailProperties
<1>7. ifs'[c] \in IF IsStatic(c) THEN AppliedStatic(ifs[c], Head(todo[c]))
                                 ELSE Applied(ifs[c], Head(todo[c]))
  BY DEF HwEntry, IInv, Shapes
<1>8. Len(ifs[c]) = IF r = 0 THEN m ELSE m + 1
  BY <1>2 DEF Handled
<1>9. \A k \in 1 .. Len(ifs[c]) : ifs[c][k].name = s[k]
  BY <1>2 DEF Handled
<1>10. \A k \in 1 .. m : ifs[c][k].ip = s[k] /\ (ifs[c][k].mask \/ IsStatic(c))
  BY <1>2 DEF Handled
<1>11. r = 2 => ifs[c][m + 1].ip = s[m + 1]
  BY <1>2 DEF Handled
<1>12. \A k \in 1 .. Len(todo'[c]) : todo'[c][k] = HwEntries(s)[(3 * m + r + 1) + k]
  <2> TAKE k \in 1 .. Len(todo'[c])
  <2>1. k + 1 \in 1 .. Len(todo[c]) /\ 3 * m + r + (k + 1) = (3 * m + r + 1) + k
    BY <1>3, <1>6
  <2>2. todo[c][k + 1] = HwEntries(s)[3 * m + r + (k + 1)]
    BY <1>2, <2>1 DEF Handled
  <2> QED
    BY <1>6, <2>1, <2>2
<1>13. (3 * m + r + 1) + Len(todo'[c]) = 3 * NIfs
  <2>1. Len(todo[c]) \in Nat /\ Len(todo'[c]) = Len(todo[c]) - 1
    BY <1>6
  <2>2. 3 * m + r + Len(todo[c]) = 3 * NIfs
    BY <1>2 DEF Handled
  <2>3. PICK left \in Nat : left = Len(todo[c])
    BY <2>1
  <2>4. 3 * m + r + left = 3 * NIfs
    BY <2>2, <2>3, Zenon
  <2>5. (3 * m + r + 1) + (left - 1) = 3 * NIfs
    BY <1>3, <2>4, NextPlace
  <2> QED
    BY <2>1, <2>3, <2>5, Zenon
\* The interface is linked in, with whatever was in the memory.
<1>14. CASE r = 0
  <2>1. Head(todo[c]).key = "INTERFACE" /\ Head(todo[c]).intf = s[m + 1]
    BY <1>2, <1>14 DEF HwKeys
  <2>2. PICK j \in Junk : ifs'[c] = Append(ifs[c], [name |-> s[m + 1], ip |-> j, mask |-> FALSE])
    BY <1>7, <2>1 DEF Applied, AppliedStatic, AddInterface
  <2>3. [name |-> s[m + 1], ip |-> j, mask |-> FALSE] \in Records
    BY <1>3, <1>4 DEF Records, Junk
  <2>4. PICK f \in Records : f = [name |-> s[m + 1], ip |-> j, mask |-> FALSE]
    BY <2>3
  <2>5. Len(ifs[c]) = m
    BY <1>8, <1>14
  <2>6. ifs'[c] = Append(ifs[c], f)
    BY <2>2, <2>4
  <2>7. /\ ifs'[c] \in Seq(Records) /\ Len(ifs'[c]) = m + 1 /\ ifs'[c][m + 1] = f
        /\ \A k \in 1 .. m : ifs'[c][k] = ifs[c][k]
    BY <1>5, <2>5, <2>6, AppendProperties
  <2>8. \A k \in 1 .. Len(ifs'[c]) : ifs'[c][k].name = s[k]
    <3> TAKE k \in 1 .. Len(ifs'[c])
    <3>0. f.name = s[m + 1]
      BY <2>4
    <3>1. CASE k = m + 1
      BY <2>7, <3>0, <3>1
    <3>2. CASE k # m + 1
      <4>1. k \in 1 .. m
        BY <1>3, <2>7, <3>2
      <4>2. k \in 1 .. Len(ifs[c])
        BY <2>5, <4>1, Zenon
      <4> QED
        BY <1>9, <2>7, <4>1, <4>2, Zenon
    <3> QED
      BY <3>1, <3>2
  <2>9. \A k \in 1 .. m : ifs'[c][k].ip = s[k] /\ (ifs'[c][k].mask \/ IsStatic(c)')
    BY <1>1, <1>10, <2>7
  <2>10. Handled(c, s, m, 1)'
    <3>1. 3 * m + r + 1 = 3 * m + 1
      BY <1>3, <1>14
    <3>2. /\ (3 * m + 1) + Len(todo'[c]) = 3 * NIfs
          /\ \A k \in 1 .. Len(todo'[c]) : todo'[c][k] = HwEntries(s)[(3 * m + 1) + k]
      BY <1>12, <1>13, <3>1, Zenon
    <3>3. Len(ifs'[c]) = (IF 1 = 0 THEN m ELSE m + 1) /\ 1 # 2
      BY <2>7
    <3> QED
      BY <2>8, <2>9, <3>2, <3>3, Zenon DEF Handled
  <2> QED
    BY <1>3, <2>5, <2>7, <2>10, EntryHandled
\* Its address is set.
<1>15. CASE r = 1
  <2>1. Head(todo[c]).key = "ETHIP" /\ Head(todo[c]).intf = s[m + 1]
    BY <1>2, <1>15 DEF HwKeys
  <2>2. Len(ifs[c]) = m + 1
    BY <1>8, <1>15
  <2>3. ifs'[c] = SetIp(ifs[c], s[m + 1])
    BY <1>7, <2>1 DEF Applied, AppliedStatic
  <2>4. ifs[c][m + 1] \in Records
    BY <1>3, <1>5, <2>2
  <2>5. PICK f \in Records : f = [ifs[c][m + 1] EXCEPT !.ip = s[m + 1]]
    <3>1. s[m + 1] \in 0 .. NIfs + 1
      BY <1>3, <1>4 DEF Ifs
    <3> QED
      BY <2>4, <3>1 DEF Records
  <2>6. ifs'[c] = [ifs[c] EXCEPT ![m + 1] = f]
    BY <2>2, <2>3, <2>5 DEF SetIp
  <2>7. /\ ifs'[c] \in Seq(Records) /\ Len(ifs'[c]) = m + 1 /\ ifs'[c][m + 1] = f
        /\ \A k \in 1 .. m : ifs'[c][k] = ifs[c][k]
    BY <1>3, <1>5, <2>2, <2>6
  <2>8. f.ip = s[m + 1] /\ f.name = s[m + 1]
    <3>1. ifs[c][m + 1].name = s[m + 1]
      BY <1>3, <1>9, <2>2
    <3> QED
      BY <2>4, <2>5, <3>1 DEF Records
  <2>9. \A k \in 1 .. Len(ifs'[c]) : ifs'[c][k].name = s[k]
    <3> TAKE k \in 1 .. Len(ifs'[c])
    <3>1. CASE k = m + 1
      BY <2>7, <2>8, <3>1
    <3>2. CASE k # m + 1
      BY <1>3, <1>9, <2>2, <2>7, <3>2
    <3> QED
      BY <3>1, <3>2
  <2>10. \A k \in 1 .. m : ifs'[c][k].ip = s[k] /\ (ifs'[c][k].mask \/ IsStatic(c)')
    BY <1>1, <1>10, <2>7
  <2>11. Handled(c, s, m, 2)'
    <3>1. 3 * m + r + 1 = 3 * m + 2
      BY <1>3, <1>15
    <3>2. /\ (3 * m + 2) + Len(todo'[c]) = 3 * NIfs
          /\ \A k \in 1 .. Len(todo'[c]) : todo'[c][k] = HwEntries(s)[(3 * m + 2) + k]
      BY <1>12, <1>13, <3>1, Zenon
    <3>3. Len(ifs'[c]) = (IF 2 = 0 THEN m ELSE m + 1) /\ ifs'[c][m + 1].ip = s[m + 1]
      BY <2>7, <2>8
    <3> QED
      BY <2>9, <2>10, <3>2, <3>3, Zenon DEF Handled
  <2> QED
    BY <1>3, <2>2, <2>7, <2>11, EntryHandled
\* Its mask is set, or passed over by reenvio/.
<1>16. CASE r = 2
  <2>1. Head(todo[c]).key = "MASK"
    BY <1>2, <1>16 DEF HwKeys
  <2>2. Len(ifs[c]) = m + 1
    BY <1>8, <1>16
  <2>3. ifs[c][m + 1] \in Records
    BY <1>3, <1>5, <2>2
  <2>4. ifs[c][m + 1].name = s[m + 1] /\ ifs[c][m + 1].ip = s[m + 1]
    BY <1>3, <1>9, <1>11, <1>16, <2>2
  <2>5. ifs'[c] = IF IsStatic(c) THEN ifs[c] ELSE SetMask(ifs[c])
    BY <1>7, <2>1 DEF Applied, AppliedStatic
  <2>6. PICK f \in Records :
            f = IF IsStatic(c) THEN ifs[c][m + 1] ELSE [ifs[c][m + 1] EXCEPT !.mask = TRUE]
    BY <2>3 DEF Records
  <2>7. /\ ifs'[c] \in Seq(Records) /\ Len(ifs'[c]) = m + 1 /\ ifs'[c][m + 1] = f
        /\ \A k \in 1 .. m : ifs'[c][k] = ifs[c][k]
    <3>1. CASE IsStatic(c)
      BY <1>3, <1>5, <2>2, <2>5, <2>6, <3>1
    <3>2. CASE ~IsStatic(c)
      <4>1. ifs'[c] = [ifs[c] EXCEPT ![m + 1] = f]
        BY <2>2, <2>5, <2>6, <3>2 DEF SetMask
      <4> QED
        BY <1>3, <1>5, <2>2, <4>1
    <3> QED
      BY <3>1, <3>2
  <2>8. f.ip = s[m + 1] /\ f.name = s[m + 1] /\ (f.mask \/ IsStatic(c))
    BY <2>3, <2>4, <2>6 DEF Records
  <2>9. \A k \in 1 .. Len(ifs'[c]) : ifs'[c][k].name = s[k]
    <3> TAKE k \in 1 .. Len(ifs'[c])
    <3>1. CASE k = m + 1
      BY <2>7, <2>8, <3>1
    <3>2. CASE k # m + 1
      BY <1>3, <1>9, <2>2, <2>7, <3>2
    <3> QED
      BY <3>1, <3>2
  <2>10. \A k \in 1 .. m + 1 : ifs'[c][k].ip = s[k] /\ (ifs'[c][k].mask \/ IsStatic(c)')
    <3> TAKE k \in 1 .. m + 1
    <3>1. CASE k = m + 1
      BY <1>1, <2>7, <2>8, <3>1
    <3>2. CASE k # m + 1
      BY <1>1, <1>3, <1>10, <2>7, <3>2
    <3> QED
      BY <3>1, <3>2
  <2>11. Handled(c, s, m + 1, 0)'
    <3>1. 3 * m + r + 1 = 3 * (m + 1) + 0
      BY <1>3, <1>16
    <3>2. /\ (3 * (m + 1) + 0) + Len(todo'[c]) = 3 * NIfs
          /\ \A k \in 1 .. Len(todo'[c]) : todo'[c][k] = HwEntries(s)[(3 * (m + 1) + 0) + k]
      BY <1>12, <1>13, <3>1, Zenon
    <3>3. Len(ifs'[c]) = (IF 0 = 0 THEN m + 1 ELSE (m + 1) + 1) /\ 0 # 2
      BY <2>7
    <3> QED
      BY <2>9, <2>10, <3>2, <3>3, Zenon DEF Handled
  <2> QED
    BY <1>3, <2>2, <2>7, <2>11, EntryHandled
<1> QED
  BY <1>14, <1>15, <1>16

\* The message is handled and the process goes on.
LEMMA HandledKeeps ==
    ASSUME IInv, NEW c \in Conns, pc[c] = "hw", todo[c] = <<>>, Goto(c, "run"),
           UNCHANGED <<id, thread, ifs, todo, routes, down, up, ctrl>>,
           IsStatic(c) => routes[c] \subseteq Names(ifs[c])
    PROVE  IInv'
<1> USE DEF id, thread, ctrl, Goto
<1>1. Complete(c) /\ ConnInv(c)
  BY Finished DEF IInv
<1>2. pc'[c] = "run" /\ \A d \in Conns \ {c} : pc'[d] = pc[d]
  BY DEF IInv, TypeOK
<1>3. Shapes'
  BY DEF IInv, Shapes
<1>4. TypeOK'
  BY <1>2 DEF IInv, TypeOK, Alive
<1>5. \A d \in Conns \ {c} : Untouched(d)
  BY <1>2 DEF Untouched
<1>6. ConnInv(c)'
  <2>1. Hardware(c)'
    <3>1. \A s \in Orders, m \in 0 .. NIfs, r \in 0 .. 2 :
            Handled(c, s, m, r) => Handled(c, s, m, r)'
      BY DEF Handled, IsStatic
    <3>2. \E s \in Orders, m \in 0 .. NIfs, r \in 0 .. 2 : Handled(c, s, m, r)
      BY <1>1 DEF ConnInv, Hardware
    <3> QED
      BY <1>2, <3>1, <3>2 DEF Hardware
  <2>2. Outside(c)'
    BY <1>1, <1>2 DEF ConnInv, Outside, IsStatic
  <2>3. Once(c)'
    BY <1>1, <1>2 DEF ConnInv, Once, OneOpen, OneHardware, Asked, Told, Served, Complete
  <2>4. FramesBehind(c)' /\ Settling(c)'
    BY <1>1, <1>2 DEF ConnInv, FramesBehind, Settling, Complete
  <2>5. IsStatic(c)' => routes'[c] \subseteq Names(ifs[c])'
    BY DEF IsStatic, Names
  <2> QED
    BY <1>2, <2>1, <2>2, <2>3, <2>4, <2>5 DEF ConnInv
<1> QED
  BY <1>3, <1>4, <1>5, <1>6, OneConnection

-----------------------------------------------------------------------------
(* Frames.                                                                 *)

LEMMA HandleFrameKeeps ==
    ASSUME IInv, NEW c \in Conns, HandleFrame(c)
    PROVE  IInv'
<1> USE DEF id, thread, ctrl
<1>1. Read(c) /\ Next1(down[c], "PACKET") /\ pc[c] = "run" /\ pc' = pc
  BY DEF HandleFrame
<1>2. /\ \A d \in Conns \ {c} : down'[d] = down[d]
      /\ Alive(c) /\ OneHardware(c)' /\ (Told(c)' => Told(c))
      /\ down' \in [Conns -> Seq(ToRouter)]
  BY <1>1, RouterReads
<1>3. Shapes'
  BY <1>2 DEF HandleFrame, IInv, Shapes
<1>4. TypeOK'
  BY <1>2 DEF HandleFrame, IInv, TypeOK, Alive
<1>5. \A d \in Conns \ {c} : Untouched(d)
  BY <1>2 DEF HandleFrame, Untouched
<1>6. ConnInv(c)'
  <2>0. ConnInv(c)
    BY DEF IInv
  <2>1. Told(c)' = Told(c)
    <3>1. ASSUME Told(c) PROVE Told(c)'
      <4>1. PICK k \in 1 .. Len(down[c]) : down[c][k].type = "HWINFO"
        BY <3>1 DEF Told
      <4>2. /\ Len(down[c]) \in Nat \ {0} /\ Len(down'[c]) = Len(down[c]) - 1
            /\ \A j \in 1 .. Len(down'[c]) : down'[c][j] = down[c][j + 1]
            /\ down[c][1].type = "PACKET"
        BY <1>1, RouterReads
      <4>3. k - 1 \in 1 .. Len(down'[c]) /\ (k - 1) + 1 = k
        BY <4>1, <4>2
      <4> QED
        BY <4>1, <4>2, <4>3 DEF Told
    <3> QED
      BY <1>2, <3>1 DEF Told
  <2>2. Hardware(c)'
    BY <2>0, HardwareKept DEF HandleFrame, ConnInv, SameHardware
  <2>3. Outside(c)'
    BY <2>0, <1>1 DEF HandleFrame, ConnInv, Outside, IsStatic
  <2>4. Once(c)'
    BY <2>0, <2>1, <1>1, <1>2
    DEF HandleFrame, ConnInv, Once, OneOpen, Asked, Blank, Served, Alive, Complete
  <2>5. FramesBehind(c)'
    BY <1>1, FramesAfterRead DEF HandleFrame, Complete
  <2>6. Settling(c)'
    BY <2>0 DEF HandleFrame, ConnInv, Settling, Complete
  <2>7. IsStatic(c)' /\ Complete(c)' => routes'[c] \subseteq Names(ifs[c])'
    BY <2>0, <1>1 DEF HandleFrame, ConnInv, IsStatic, Complete, Names
  <2> QED
    BY <1>1, <2>2, <2>3, <2>4, <2>5, <2>6, <2>7 DEF ConnInv
<1> QED
  BY <1>3, <1>4, <1>5, <1>6, OneConnection

\* Only a frame that overtook the hardware message is on an unknown interface.
LEMMA FrameAbortsKeeps ==
    ASSUME IInv, NEW c \in Conns, FrameAborts(c)
    PROVE  IInv'
<1>1. /\ Next1(down[c], "PACKET") /\ pc[c] = "run" /\ ~Knows(c, Head(down[c]).intf)
      /\ Ends(c, "aborted") /\ UNCHANGED <<id, up, ctrl>>
  BY DEF FrameAborts
<1>2. /\ down[c] \in Seq(ToRouter) /\ down[c] # <<>> /\ Head(down[c]).type = "PACKET" /\ Alive(c)
  BY <1>1 DEF IInv, Shapes, Next1, TypeOK
<1>3. /\ Head(down[c]) \in ToRouter /\ Head(down[c]) = down[c][1] /\ Len(down[c]) \in Nat \ {0}
  BY <1>2, TailProperties
<1>4. Head(down[c]).intf \in Ifs
  BY <1>2, <1>3, Tags
<1>5. ~Complete(c)
  <2> SUFFICES ASSUME Complete(c) PROVE FALSE
    OBVIOUS
  <2>1. ifs[c] # <<>> /\ todo[c] = <<>>
    BY SizesAssumption DEF Complete
  <2>2. Names(ifs[c]) = Ifs
    BY <2>1, Finished
  <2> QED
    BY <1>1, <1>4, <2>2 DEF Knows
<1>6. c \in overtaken
  <2>1. FramesBehind(c) /\ 1 \in 1 .. Len(down[c]) /\ down[c][1].type = "PACKET"
    BY <1>2, <1>3 DEF IInv, ConnInv
  <2> QED
    BY <1>1, <1>5, <2>1 DEF FramesBehind
<1> QED
  BY <1>1, <1>2, <1>6, EndsKeeps

LEMMA SendFrameKeeps ==
    ASSUME IInv, NEW c \in Conns, NEW i \in Ifs, SendFrame(c, i)
    PROVE  IInv'
<1> USE DEF id, thread, ctrl
<1>1. Write(c, PacketOut) /\ pc[c] \in {"run", "hw"} /\ pc' = pc
  BY DEF SendFrame
<1>2. PacketOut \in FromRouter /\ PacketOut.type # "OPEN"
  BY Tags DEF FromRouter
<1>3. /\ up' \in [Conns -> Seq(FromRouter)] /\ \A d \in Conns \ {c} : up'[d] = up[d]
      /\ Asked(c)' = Asked(c) /\ OneOpen(c)'
  BY <1>1, <1>2, RouterWrites DEF Asked
<1>4. Shapes' /\ TypeOK'
  BY <1>3 DEF SendFrame, IInv, Shapes, TypeOK, Alive
<1>5. \A d \in Conns \ {c} : Untouched(d)
  BY <1>3 DEF SendFrame, Untouched
<1>6. ConnInv(c)'
  <2>0. ConnInv(c)
    BY DEF IInv
  <2>1. Hardware(c)'
    BY <2>0, HardwareKept DEF SendFrame, ConnInv, SameHardware
  <2>2. Outside(c)'
    BY <2>0, <1>1 DEF SendFrame, ConnInv, Outside, IsStatic
  <2>3. Once(c)'
    BY <2>0, <1>3
    DEF SendFrame, ConnInv, Once, OneHardware, Blank, Told, Served, Alive, Complete
  <2>4. FramesBehind(c)' /\ Settling(c)'
    BY <2>0 DEF SendFrame, ConnInv, FramesBehind, Settling, Complete
  <2>5. /\ pc'[c] # "aborted"
        /\ pc'[c] = "run" /\ IsStatic(c)' /\ Complete(c)' => routes'[c] \subseteq Names(ifs[c])'
    BY <2>0, <1>1 DEF SendFrame, ConnInv, IsStatic, Complete, Names
  <2> QED
    BY <2>1, <2>2, <2>3, <2>4, <2>5 DEF ConnInv
<1> QED
  BY <1>4, <1>5, <1>6, OneConnection

-----------------------------------------------------------------------------
(* The thread that starts PWOSPF.                                          *)

\* A step of the thread writes where it is, the id and the routes.
LEMMA ThreadKeeps ==
    ASSUME IInv, NEW c \in Conns, tpc[c] # "off",
           \A d \in Conns \ {c} : /\ tpc'[d] = tpc[d] /\ pos'[d] = pos[d] /\ rid'[d] = rid[d]
                                  /\ early'[d] = early[d] /\ routes'[d] = routes[d],
           tpc' \in [Conns -> {"off", "sleep", "scan", "routes", "run"}],
           tpc'[c] \notin {"off", "sleep"},
           pos' \in [Conns -> Nat \ {0}], pos'[c] <= Len(ifs[c]) + 1,
           rid' \in [Conns -> 0 .. NIfs + 1], early' \in [Conns -> BOOLEAN],
           routes' \in [Conns -> SUBSET Nat],
           UNCHANGED <<id, pc, ifs, todo, down, up, ctrl>>, Settling(c)'
    PROVE  IInv'
<1> USE DEF id, ctrl
<1>1. ConnInv(c)
  BY DEF IInv
<1>2. pc[c] \in {"run", "hw"} /\ ~IsStatic(c)
  BY <1>1 DEF ConnInv, Outside
<1>3. Shapes'
  BY DEF IInv, Shapes
<1>4. TypeOK'
  <2>1. Len(ifs[c]) \in Nat
    BY EmptyProperties DEF IInv, Shapes
  <2>2. ASSUME NEW d \in Conns PROVE pos'[d] \in 1 .. Len(ifs[d]) + 1
    <3>1. CASE d = c
      <4>1. PICK n \in Nat : n = Len(ifs[c])
        BY <2>1
      <4>2. pos'[c] \in Nat \ {0} /\ pos'[c] <= n + 1
        BY <4>1
      <4>3. pos'[c] \in 1 .. n + 1
        BY <4>2
      <4> QED
        BY <3>1, <4>1, <4>3, Zenon
    <3>2. CASE d # c
      BY <3>2 DEF IInv, TypeOK
    <3> QED
      BY <3>1, <3>2
  <2> QED
    BY <2>2 DEF IInv, TypeOK, Alive
<1>5. \A d \in Conns \ {c} : Untouched(d)
  BY DEF Untouched
<1>6. ConnInv(c)'
  <2>1. Hardware(c)'
    BY <1>1, HardwareKept DEF ConnInv, SameHardware
  <2>2. Outside(c)'
    BY <1>1, <1>2 DEF ConnInv, Outside, IsStatic
  <2>3. Once(c)'
    BY <1>1 DEF ConnInv, Once, OneOpen, OneHardware, Asked, Blank, Told, Served, Alive, Complete
  <2>4. FramesBehind(c)'
    BY <1>1 DEF ConnInv, FramesBehind, Complete
  <2>5. ~IsStatic(c)' /\ pc'[c] # "aborted"
    BY <1>2 DEF IsStatic
  <2> QED
    BY <2>1, <2>2, <2>3, <2>4, <2>5 DEF ConnInv
<1> QED
  BY <1>3, <1>4, <1>5, <1>6, OneConnection

LEMMA RunThreadKeeps ==
    ASSUME IInv, NEW c \in Conns, RunThread(c)
    PROVE  IInv'
<1> USE DEF id, ctrl
<1>1. /\ tpc \in [Conns -> {"off", "sleep", "scan", "routes", "run"}]
      /\ pos \in [Conns -> Nat \ {0}] /\ rid \in [Conns -> 0 .. NIfs + 1]
      /\ early \in [Conns -> BOOLEAN] /\ routes \in [Conns -> SUBSET Nat]
      /\ Len(ifs[c]) \in Nat /\ ifs[c] \in Seq(Records) /\ pos[c] \in 1 .. Len(ifs[c]) + 1
      /\ NIfs \in Nat \ {0} /\ pos[c] \in Nat \ {0}
  BY EmptyProperties, SizesAssumption DEF IInv, TypeOK, Shapes
<1>2. Settling(c) /\ Outside(c)
  BY DEF IInv, ConnInv
<1>3. ASSUME Complete(c)
      PROVE  /\ Len(ifs[c]) = NIfs
             /\ \A i \in Ifs : \E k \in 1 .. Len(ifs[c]) : ifs[c][k].name = i
             /\ \A k \in 1 .. Len(ifs[c]) :
                    /\ ifs[c][k].name \in Ifs /\ ifs[c][k].ip = ifs[c][k].name
                    /\ ifs[c][k].mask \/ IsStatic(c)
  <2>1. ifs[c] # <<>> /\ todo[c] = <<>> /\ Len(ifs[c]) = NIfs
    BY <1>1, <1>3 DEF Complete
  <2> QED
    BY <2>1, Finished
<1>4. CASE Wake(c)
  <2>1. /\ tpc'[c] = "scan" /\ early'[c] = ~Complete(c) /\ tpc[c] = "sleep"
        /\ pos'[c] = 1 /\ rid'[c] = 0 /\ Complete(c)' = Complete(c)
    BY <1>1, <1>2, <1>4 DEF Wake, Outside, Complete
  <2>2. Settling(c)'
    <3>1. \A k \in 1 .. pos'[c] - 1 : FALSE
      BY <2>1
    <3>2. 0 <= NIfs
      BY <1>1
    <3> QED
      BY <2>1, <3>1, <3>2 DEF Settling
  <2>3. early' \in [Conns -> BOOLEAN]
    BY <1>1, <1>4 DEF Wake, Complete
  <2> QED
    BY <1>1, <1>4, <2>1, <2>2, <2>3, ThreadKeeps DEF Wake
<1>5. CASE Scan(c)
  <2> DEFINE f == ifs[c][pos[c]]
  <2>0. pos[c] \in 1 .. Len(ifs[c])
    BY <1>1, <1>5 DEF Scan
  <2>1. pos[c] \in 1 .. Len(ifs[c]) /\ f \in Records /\ f.ip \in 0 .. NIfs + 1
    <3>1. f \in Records
      BY <1>1, <2>0
    <3> QED
      BY <2>0, <3>1 DEF Records
  <2>2. /\ tpc[c] = "scan" /\ tpc' = tpc /\ early' = early /\ routes' = routes
        /\ pos'[c] = pos[c] + 1 /\ rid'[c] = Higher(rid[c], f.ip) /\ Complete(c)' = Complete(c)
        /\ pos' \in [Conns -> Nat \ {0}]
    BY <1>1, <1>5 DEF Scan, Complete
  <2>3. rid'[c] \in 0 .. NIfs + 1 /\ rid'[c] >= rid[c] /\ rid'[c] >= f.ip /\ rid'[c] \in {rid[c], f.ip}
    BY <1>1, <2>1, <2>2 DEF Higher
  <2>4. rid' \in [Conns -> 0 .. NIfs + 1] /\ \A d \in Conns \ {c} : rid'[d] = rid[d] /\ pos'[d] = pos[d]
    BY <1>1, <1>5, <2>2, <2>3 DEF Scan
  <2>5. Settling(c)'
    <3> SUFFICES ASSUME ~early[c]
                 PROVE  /\ Complete(c) /\ rid'[c] <= NIfs
                        /\ \A k \in 1 .. pos'[c] - 1 : ifs[c][k].ip <= rid'[c]
      BY <1>5, <2>2 DEF Settling, Scan
    <3>1. /\ Complete(c) /\ rid[c] <= NIfs
          /\ \A k \in 1 .. pos[c] - 1 : ifs[c][k].ip <= rid[c]
      BY <1>2, <2>2 DEF Settling
    <3>2. f.ip \in Ifs
      BY <1>3, <2>1, <3>1
    <3>3. rid'[c] <= NIfs
      BY <2>3, <3>1, <3>2 DEF Ifs
    <3>4. \A k \in 1 .. pos'[c] - 1 : ifs[c][k].ip <= rid'[c]
      <4> TAKE k \in 1 .. pos'[c] - 1
      <4>1. k \in 1 .. pos[c] - 1 \/ k = pos[c]
        BY <1>1, <2>2
      <4>2. CASE k = pos[c]
        BY <2>3, <4>2
      <4>3. CASE k \in 1 .. pos[c] - 1
        <5>1. ifs[c][k].ip <= rid[c] /\ ifs[c][k].ip \in Ifs
          <6>1. k \in 1 .. Len(ifs[c])
            BY <1>1, <4>3
          <6>2. ifs[c][k].ip \in Ifs
            BY <1>3, <3>1, <6>1
          <6> QED
            BY <3>1, <4>3, <6>2
        <5>2. ifs[c][k].ip \in Int /\ rid[c] \in Int /\ rid'[c] \in Int
          BY <1>1, <2>3, <5>1 DEF Ifs
        <5> QED
          BY <2>3, <5>1, <5>2
      <4> QED
        BY <4>1, <4>2, <4>3
    <3> QED
      BY <3>1, <3>3, <3>4
  <2>6. pos'[c] <= Len(ifs[c]) + 1
    BY <1>1, <2>1, <2>2
  <2> QED
    BY <1>1, <1>5, <2>2, <2>4, <2>5, <2>6, ThreadKeeps DEF Scan
<1>6. CASE ScanEnd(c)
  <2>1. /\ tpc[c] = "scan" /\ pos[c] > Len(ifs[c]) /\ rid' = rid /\ early' = early /\ routes' = routes
        /\ tpc'[c] = (IF rid[c] = 0 THEN "scan" ELSE "routes") /\ pos'[c] = 1
        /\ Complete(c)' = Complete(c)
    BY <1>1, <1>6 DEF ScanEnd, Complete
  <2>2. Settling(c)'
    <3> SUFFICES ASSUME ~early[c] PROVE Complete(c) /\ rid[c] = NIfs
      BY <1>1, <2>1 DEF Settling
    <3>1. /\ Complete(c) /\ rid[c] <= NIfs
          /\ \A k \in 1 .. pos[c] - 1 : ifs[c][k].ip <= rid[c]
      BY <1>2, <2>1 DEF Settling
    <3>2. NIfs \in Ifs
      BY <1>1 DEF Ifs
    <3>3. PICK k \in 1 .. Len(ifs[c]) : ifs[c][k].name = NIfs
      BY <1>3, <3>1, <3>2
    <3>4. ifs[c][k].ip = NIfs
      BY <1>3, <3>1, <3>3
    <3>5. k \in 1 .. pos[c] - 1
      BY <1>1, <2>1
    <3>6. NIfs <= rid[c]
      BY <3>1, <3>4, <3>5
    <3> QED
      BY <1>1, <3>1, <3>6
  <2>3. /\ pos' \in [Conns -> Nat \ {0}] /\ pos'[c] <= Len(ifs[c]) + 1 /\ tpc'[c] \notin {"off", "sleep"}
        /\ tpc' \in [Conns -> {"off", "sleep", "scan", "routes", "run"}]
        /\ \A d \in Conns \ {c} : tpc'[d] = tpc[d] /\ pos'[d] = pos[d]
    BY <1>1, <1>6, <2>1 DEF ScanEnd
  <2>4. tpc[c] # "off" /\ UNCHANGED <<id, pc, ifs, todo, down, up, ctrl>>
    BY <1>6, <2>1 DEF ScanEnd
  <2> QED
    BY <1>1, <2>1, <2>2, <2>3, <2>4, ThreadKeeps
<1>7. CASE AddDirect(c)
  <2> DEFINE f == ifs[c][pos[c]]
  <2>0. pos[c] \in 1 .. Len(ifs[c])
    BY <1>1, <1>7 DEF AddDirect
  <2>1. pos[c] \in 1 .. Len(ifs[c]) /\ f \in Records /\ f.name \in Ifs /\ f.name \in Nat
    <3>1. f \in Records
      BY <1>1, <2>0
    <3>2. Ifs \subseteq Nat
      BY <1>1 DEF Ifs
    <3> QED
      BY <2>0, <3>1, <3>2 DEF Records
  <2>2. /\ tpc[c] = "routes" /\ tpc' = tpc /\ early' = early /\ rid' = rid
        /\ pos'[c] = pos[c] + 1 /\ Complete(c)' = Complete(c)
        /\ routes'[c] = (IF f.ip = f.name /\ f.mask THEN routes[c] \cup {f.name} ELSE routes[c])
        /\ pos' \in [Conns -> Nat \ {0}]
    BY <1>1, <1>7 DEF AddDirect, Complete
  <2>3. /\ routes' \in [Conns -> SUBSET Nat]
        /\ \A d \in Conns \ {c} : routes'[d] = routes[d] /\ pos'[d] = pos[d]
    BY <1>1, <1>7, <2>1, <2>2 DEF AddDirect
  <2>4. Settling(c)'
    <3> SUFFICES ASSUME ~early[c]
                 PROVE  /\ Complete(c) /\ rid[c] <= NIfs /\ rid[c] = NIfs
                        /\ \A k \in 1 .. pos'[c] - 1 : ifs[c][k].name \in routes'[c]
      BY <1>7, <2>2 DEF Settling, AddDirect
    <3>1. /\ Complete(c) /\ rid[c] <= NIfs /\ rid[c] = NIfs
          /\ \A k \in 1 .. pos[c] - 1 : ifs[c][k].name \in routes[c]
      BY <1>2, <2>2 DEF Settling
    <3>2. f.name \in routes'[c] /\ routes[c] \subseteq routes'[c]
      <4>1. f.ip = f.name /\ (f.mask \/ IsStatic(c))
        BY <1>3, <2>1, <3>1
      <4>2. ~IsStatic(c)
        BY <1>2, <2>2 DEF Outside
      <4> QED
        BY <2>2, <4>1, <4>2
    <3>3. \A k \in 1 .. pos'[c] - 1 : k \in 1 .. pos[c] - 1 \/ k = pos[c]
      BY <1>1, <2>2
    <3> QED
      BY <3>1, <3>2, <3>3
  <2>5. pos'[c] <= Len(ifs[c]) + 1
    BY <1>1, <2>1, <2>2
  <2> QED
    BY <1>1, <1>7, <2>2, <2>3, <2>4, <2>5, ThreadKeeps DEF AddDirect
<1>8. CASE StartThreads(c)
  <2>1. /\ tpc[c] = "routes" /\ pos[c] > Len(ifs[c]) /\ rid' = rid /\ early' = early /\ routes' = routes
        /\ tpc'[c] = "run" /\ pos'[c] = 1 /\ Complete(c)' = Complete(c)
    BY <1>1, <1>8 DEF StartThreads, Complete
  <2>2. Settling(c)'
    <3> SUFFICES ASSUME ~early[c]
                 PROVE  Complete(c) /\ rid[c] <= NIfs /\ rid[c] = NIfs /\ Ifs \subseteq routes[c]
      BY <2>1 DEF Settling
    <3>1. /\ Complete(c) /\ rid[c] <= NIfs /\ rid[c] = NIfs
          /\ \A k \in 1 .. pos[c] - 1 : ifs[c][k].name \in routes[c]
      BY <1>2, <2>1 DEF Settling
    <3>2. ASSUME NEW i \in Ifs PROVE i \in routes[c]
      <4>1. PICK k \in 1 .. Len(ifs[c]) : ifs[c][k].name = i
        BY <1>3, <3>1
      <4>2. k \in 1 .. pos[c] - 1
        BY <1>1, <2>1
      <4> QED
        BY <3>1, <4>1, <4>2
    <3> QED
      BY <3>1, <3>2
  <2>3. /\ pos' \in [Conns -> Nat \ {0}] /\ pos'[c] <= Len(ifs[c]) + 1 /\ tpc'[c] \notin {"off", "sleep"}
        /\ tpc' \in [Conns -> {"off", "sleep", "scan", "routes", "run"}]
        /\ \A d \in Conns \ {c} : tpc'[d] = tpc[d] /\ pos'[d] = pos[d]
    BY <1>1, <1>8, <2>1 DEF StartThreads
  <2>4. tpc[c] # "off" /\ UNCHANGED <<id, pc, ifs, todo, down, up, ctrl>>
    BY <1>8, <2>1 DEF StartThreads
  <2> QED
    BY <1>1, <2>1, <2>2, <2>3, <2>4, ThreadKeeps
<1> QED
  BY <1>4, <1>5, <1>6, <1>7, <1>8 DEF RunThread

-----------------------------------------------------------------------------
(* The controller.                                                         *)

\* A message that is no frame comes behind those under way.
LEMMA FramesAfterTell ==
    ASSUME IInv, NEW c \in Conns, NEW m \in ToRouter, Tell(c, m),
           m.type = "PACKET" /\ Alive(c) => c \in overtaken' \/ Served(c),
           overtaken \subseteq overtaken', pc' = pc, ifs' = ifs, todo' = todo
    PROVE  FramesBehind(c)'
<1> SUFFICES ASSUME NEW k \in 1 .. Len(down'[c]), down'[c][k].type = "PACKET",
                    c \notin overtaken', pc[c] # "hw", ~Complete(c)
             PROVE  \E j \in 1 .. k - 1 : down'[c][j].type = "HWINFO"
  BY DEF FramesBehind, Complete
<1>1. /\ ~Alive(c) => down'[c] = down[c] /\ down[c] = <<>>
      /\ Len(down[c]) \in Nat
      /\ Alive(c) => /\ Len(down'[c]) = Len(down[c]) + 1
                     /\ down'[c][Len(down[c]) + 1] = m
      /\ \A j \in 1 .. Len(down[c]) : down'[c][j] = down[c][j]
  BY ControllerTells
<1>2. Alive(c)
  BY <1>1
<1>3. PICK n \in Nat : n = Len(down[c])
  BY <1>1
<1>4. k \in 1 .. n \/ k = n + 1
  BY <1>1, <1>2, <1>3
<1>5. CASE k \in 1 .. n
  <2>1. FramesBehind(c) /\ down[c][k].type = "PACKET"
    BY <1>1, <1>3, <1>5 DEF IInv, ConnInv
  <2>2. PICK j \in 1 .. k - 1 : down[c][j].type = "HWINFO"
    BY <1>3, <1>5, <2>1 DEF FramesBehind
  <2>3. j \in 1 .. n
    BY <1>5, <2>2
  <2> QED
    BY <1>1, <1>3, <2>2, <2>3
<1>6. CASE k = n + 1
  <2>1. Told(c)
    BY <1>1, <1>2, <1>3, <1>6 DEF Served
  <2>2. PICK j \in 1 .. n : down[c][j].type = "HWINFO"
    BY <1>3, <2>1 DEF Told
  <2>3. j \in 1 .. k - 1
    BY <1>6, <2>2
  <2> QED
    BY <1>1, <1>3, <2>2, <2>3
<1> QED
  BY <1>4, <1>5, <1>6

\* The controller answers with one of the messages of the authentication.
LEMMA AnswerKeeps ==
    ASSUME IInv, NEW c \in Conns, NEW m \in {AuthRequest, AuthStatus}, Tell(c, m),
           srv[c] \in {"accepting", "open"}, Srv(c, "open"), UNCHANGED rest,
           up' \in [Conns -> Seq(FromRouter)], \A d \in Conns \ {c} : up'[d] = up[d],
           Asked(c)' => Asked(c), OneOpen(c)', up[c] = <<>> => up'[c] = <<>>,
           UNCHANGED <<clients, interfaces, overtaken>>
    PROVE  IInv'
<1> USE DEF rest, id, thread, Srv
<1>1. m \in ToRouter /\ m.type \notin {"HWINFO", "PACKET"}
  BY Tags DEF ToRouter
<1>2. /\ down' \in [Conns -> Seq(ToRouter)] /\ \A d \in Conns \ {c} : down'[d] = down[d]
      /\ ~Alive(c) => down'[c] = <<>>
      /\ Told(c)' = Told(c) /\ OneHardware(c)'
  BY <1>1, ControllerTells DEF Told
<1>3. srv'[c] = "open" /\ \A d \in Conns \ {c} : srv'[d] = srv[d]
  BY DEF IInv, TypeOK
<1>4. Shapes' /\ TypeOK'
  BY <1>2 DEF IInv, Shapes, TypeOK, Alive
<1>5. \A d \in Conns \ {c} : Untouched(d)
  BY <1>2, <1>3 DEF Untouched
<1>6. ConnInv(c)'
  <2>0. ConnInv(c)
    BY DEF IInv
  <2>1. Hardware(c)'
    BY <2>0, HardwareKept DEF ConnInv, SameHardware
  <2>2. Outside(c)'
    BY <2>0, <1>2 DEF ConnInv, Outside, IsStatic, Blank
  <2>3. Once(c)'
    BY <2>0, <1>2, <1>3 DEF ConnInv, Once, Blank, Served, Alive, Complete
  <2>4. FramesBehind(c)'
    BY <1>1, FramesAfterTell
  <2>5. Settling(c)'
    BY <2>0 DEF ConnInv, Settling, Complete
  <2>6. /\ pc'[c] = "aborted" => c \in overtaken'
        /\ pc'[c] = "run" /\ IsStatic(c)' /\ Complete(c)' => routes'[c] \subseteq Names(ifs[c])'
    BY <2>0 DEF ConnInv, IsStatic, Complete, Names
  <2> QED
    BY <2>1, <2>2, <2>3, <2>4, <2>5, <2>6 DEF ConnInv
<1> QED
  BY <1>4, <1>5, <1>6, OneConnection

\* Only the controller's end and what the router has said change: the
\* session is not opened by it.
LEMMA ControllerKeeps ==
    ASSUME IInv, NEW c \in Conns, UNCHANGED <<rest, down, interfaces, overtaken>>,
           up' \in [Conns -> Seq(FromRouter)], \A d \in Conns \ {c} : up'[d] = up[d],
           OneOpen(c)', up[c] = <<>> => up'[c] = <<>>,
           srv' \in [Conns -> {"none", "accepting", "open", "opening", "closed"}],
           \A d \in Conns \ {c} : srv'[d] = srv[d],
           clients' \in [Vhosts -> Conns \cup {NoConn}],
           \A d \in Conns \ {c}, v \in Vhosts : clients'[v] = d => clients[v] = d,
           \/ /\ Asked(c)' => Asked(c)
              /\ srv'[c] = srv[c] \/ (srv'[c] = "closed" /\ pc[c] # "unused")
              /\ clients' = clients
           \/ srv'[c] = "opening" /\ Asked(c) /\ ~Asked(c)'
    PROVE  IInv'
<1> USE DEF rest, id, thread
<1>1. Shapes' /\ TypeOK'
  BY DEF IInv, Shapes, TypeOK, Alive
<1>2. \A d \in Conns \ {c} : Untouched(d)
  BY DEF Untouched
<1>3. ConnInv(c)'
  <2>0. ConnInv(c)
    BY DEF IInv
  <2>1. Hardware(c)'
    BY <2>0, HardwareKept DEF ConnInv, SameHardware
  <2>2. Outside(c)'
    BY <2>0 DEF ConnInv, Outside, IsStatic, Blank, Told, Once
  <2>3. Once(c)'
    BY <2>0 DEF ConnInv, Once, OneHardware, Blank, Told, Served, Alive, Complete
  <2>4. FramesBehind(c)'
    BY <2>0 DEF ConnInv, FramesBehind, Complete
  <2>5. Settling(c)'
    BY <2>0 DEF ConnInv, Settling, Complete
  <2>6. /\ pc'[c] = "aborted" => c \in overtaken'
        /\ pc'[c] = "run" /\ IsStatic(c)' /\ Complete(c)' => routes'[c] \subseteq Names(ifs[c])'
    BY <2>0 DEF ConnInv, IsStatic, Complete, Names
  <2> QED
    BY <2>1, <2>2, <2>3, <2>4, <2>5, <2>6 DEF ConnInv
<1> QED
  BY <1>1, <1>2, <1>3, OneConnection

\* The controller drops what the router has said.
LEMMA Dropped ==
    ASSUME IInv, NEW c \in Conns, up' = [up EXCEPT ![c] = <<>>]
    PROVE  /\ up' \in [Conns -> Seq(FromRouter)] /\ up'[c] = <<>>
           /\ \A d \in Conns \ {c} : up'[d] = up[d]
           /\ OneOpen(c)' /\ ~Asked(c)'
<1>1. up \in [Conns -> Seq(FromRouter)] /\ <<>> \in Seq(FromRouter)
  BY DEF IInv, Shapes
<1>2. up'[c] = <<>>
  BY <1>1
<1> QED
  BY <1>1, <1>2 DEF OneOpen, Asked

LEMMA SendHardwareKeeps ==
    ASSUME IInv, NEW c \in Conns, SendHardware(c)
    PROVE  IInv'
<1> USE DEF rest, id, thread, Srv
<1>1. ConnInv(c) /\ srv[c] = "opening" /\ srv \in [Conns -> {"none", "accepting", "open", "opening", "closed"}]
  BY DEF SendHardware, IInv, TypeOK
<1>2. /\ pc[c] \in {"run", "over", "aborted"} /\ Blank(c) /\ ~Told(c) /\ ~Asked(c)
      /\ host[c] \in Vhosts
  BY <1>1 DEF ConnInv, Once, Outside
<1>3. CASE interfaces[host[c]] = <<>>
  <2>1. srv'[c] = "closed" /\ up' = [up EXCEPT ![c] = <<>>] /\ srv' = [srv EXCEPT ![c] = "closed"]
        /\ UNCHANGED <<rest, down, interfaces, overtaken>> /\ clients' = clients
    BY <1>1, <1>3 DEF SendHardware
  <2>2. /\ up' \in [Conns -> Seq(FromRouter)] /\ up'[c] = <<>>
        /\ \A d \in Conns \ {c} : up'[d] = up[d]
        /\ OneOpen(c)' /\ ~Asked(c)'
    BY <2>1, Dropped
  <2>3. srv' \in [Conns -> {"none", "accepting", "open", "opening", "closed"}]
    BY <1>1, <2>1
  <2>4. clients' \in [Vhosts -> Conns \cup {NoConn}]
    BY <2>1 DEF IInv, TypeOK
  <2> QED
    BY <1>2, <2>1, <2>2, <2>3, <2>4, ControllerKeeps
<1>4. CASE interfaces[host[c]] # <<>>
  <2>1. PICK m \in ToRouter : m = HardwareInfo(interfaces[host[c]])
    BY <1>2, <1>4 DEF IInv, TypeOK, ToRouter
  <2>2. /\ Tell(c, m) /\ srv'[c] = "open" /\ up' = up /\ m.type = "HWINFO"
        /\ \A d \in Conns \ {c} : srv'[d] = srv[d]
    BY <1>1, <1>4, <2>1, Tags DEF SendHardware
  <2>3. /\ down' \in [Conns -> Seq(ToRouter)] /\ \A d \in Conns \ {c} : down'[d] = down[d]
        /\ ~Alive(c) => down'[c] = <<>>
    BY <1>2, <2>2, ControllerTells
  <2>4. OneHardware(c)' /\ (Told(c)' <=> Alive(c))
    BY <1>2, <2>2, ControllerTells
  <2>5. Shapes' /\ TypeOK'
    <3>1. /\ srv' \in [Conns -> {"none", "accepting", "open", "opening", "closed"}]
          /\ UNCHANGED <<rest, clients, interfaces, overtaken>>
      BY <1>1, <1>4 DEF SendHardware
    <3>2. \A d \in Conns : down'[d] # <<>> => Alive(d)'
      BY <2>3, <3>1 DEF IInv, TypeOK, Alive
    <3> QED
      BY <2>2, <2>3, <3>1, <3>2 DEF IInv, Shapes, TypeOK
  <2>6. \A d \in Conns \ {c} : Untouched(d)
    BY <2>2, <2>3 DEF SendHardware, Untouched
  <2>7. ConnInv(c)'
    <3>1. Hardware(c)'
      BY <1>1, HardwareKept DEF SendHardware, ConnInv, SameHardware
    <3>2. Outside(c)'
      BY <1>1, <1>2, <2>2, <2>4 DEF SendHardware, ConnInv, Outside, IsStatic, Blank, Alive
    <3>3. Once(c)'
      BY <1>1, <1>2, <2>2, <2>4
      DEF SendHardware, ConnInv, Once, OneOpen, Asked, Blank, Served, Alive
    <3>4. FramesBehind(c)'
      <4>1. m.type # "PACKET" /\ overtaken' = overtaken /\ pc' = pc /\ ifs' = ifs /\ todo' = todo
        BY <2>2 DEF SendHardware
      <4> QED
        BY <2>2, <4>1, FramesAfterTell
    <3>5. Settling(c)'
      BY <1>1 DEF SendHardware, ConnInv, Settling, Complete
    <3>6. /\ pc'[c] = "aborted" => c \in overtaken'
          /\ pc'[c] = "run" /\ IsStatic(c)' /\ Complete(c)' => routes'[c] \subseteq Names(ifs[c])'
      BY <1>1 DEF SendHardware, ConnInv, IsStatic, Complete, Names
    <3> QED
      BY <3>1, <3>2, <3>3, <3>4, <3>5, <3>6 DEF ConnInv
  <2> QED
    BY <2>5, <2>6, <2>7, OneConnection
<1> QED
  BY <1>3, <1>4

LEMMA ReactorKeeps ==
    ASSUME IInv, NEW c \in Conns, Reactor(c)
    PROVE  IInv'
<1> USE DEF Srv
<1>1. /\ srv \in [Conns -> {"none", "accepting", "open", "opening", "closed"}]
      /\ clients \in [Vhosts -> Conns \cup {NoConn}] /\ up \in [Conns -> Seq(FromRouter)]
      /\ OneOpen(c)
  BY DEF IInv, TypeOK, Shapes, ConnInv, Once
<1>2. srv[c] # "none" => pc[c] # "unused" /\ host[c] \in Vhosts
  BY DEF IInv, ConnInv, Outside
<1>3. CASE NewClient(c)
  <2>1. Asked(c)' = Asked(c) /\ OneOpen(c)'
    BY <1>1, <1>3 DEF NewClient, Asked, OneOpen
  <2> QED
    BY <1>1, <1>3, <2>1, AnswerKeeps DEF NewClient
<1>4. CASE HandleAuthReply(c)
  <2>1. /\ up' \in [Conns -> Seq(FromRouter)] /\ \A d \in Conns \ {c} : up'[d] = up[d]
        /\ OneOpen(c)' /\ (Asked(c)' => Asked(c)) /\ up[c] # <<>>
    BY <1>4, ControllerTakes DEF HandleAuthReply
  <2>2. srv' = [srv EXCEPT ![c] = "open"]
    BY <1>1, <1>4 DEF HandleAuthReply
  <2> QED
    BY <1>4, <2>1, <2>2, AnswerKeeps DEF HandleAuthReply
<1>5. CASE HandleOpen(c)
  <2>1. /\ up' \in [Conns -> Seq(FromRouter)] /\ \A d \in Conns \ {c} : up'[d] = up[d]
        /\ OneOpen(c)' /\ Asked(c) /\ ~Asked(c)' /\ up[c] # <<>>
    BY <1>5, ControllerTakes DEF HandleOpen
  <2>2. /\ srv'[c] = "opening"
        /\ srv' \in [Conns -> {"none", "accepting", "open", "opening", "closed"}]
        /\ \A d \in Conns \ {c} : srv'[d] = srv[d]
    BY <1>1, <1>5 DEF HandleOpen
  <2>3. /\ clients' \in [Vhosts -> Conns \cup {NoConn}]
        /\ \A d \in Conns \ {c}, v \in Vhosts : clients'[v] = d => clients[v] = d
    BY <1>1, <1>5 DEF HandleOpen
  <2>4. UNCHANGED <<rest, down, interfaces, overtaken>>
    BY <1>5 DEF HandleOpen
  <2> QED
    BY <2>1, <2>2, <2>3, <2>4, ControllerKeeps
<1>6. CASE SendHardware(c)
  BY <1>6, SendHardwareKeeps
<1>7. CASE HandleOpenTemplate(c)
  <2>1. up' = [up EXCEPT ![c] = <<>>] /\ srv' = [srv EXCEPT ![c] = "closed"] /\ clients' = clients
        /\ pc[c] # "unused" /\ UNCHANGED <<rest, down, interfaces, overtaken>>
    BY <1>2, <1>7 DEF HandleOpenTemplate
  <2>2. /\ up' \in [Conns -> Seq(FromRouter)] /\ up'[c] = <<>>
        /\ \A d \in Conns \ {c} : up'[d] = up[d]
        /\ OneOpen(c)' /\ ~Asked(c)'
    BY <2>1, Dropped
  <2>3. /\ srv'[c] = "closed" /\ \A d \in Conns \ {c} : srv'[d] = srv[d]
        /\ srv' \in [Conns -> {"none", "accepting", "open", "opening", "closed"}]
    BY <1>1, <2>1
  <2> QED
    BY <1>1, <2>1, <2>2, <2>3, ControllerKeeps
<1>8. CASE HandlePacket(c)
  <2>1. /\ up' \in [Conns -> Seq(FromRouter)] /\ \A d \in Conns \ {c} : up'[d] = up[d]
        /\ OneOpen(c)' /\ (Asked(c)' => Asked(c)) /\ up[c] # <<>>
    BY <1>8, ControllerTakes DEF HandlePacket
  <2>2. srv' = srv /\ clients' = clients /\ UNCHANGED <<rest, down, interfaces, overtaken>>
    BY <1>8 DEF HandlePacket, ctrl
  <2> QED
    BY <1>1, <2>1, <2>2, ControllerKeeps
<1>9. CASE Disconnected(c)
  <2>1. srv' = [srv EXCEPT ![c] = "closed"] /\ clients' = clients /\ up' = up
        /\ pc[c] # "unused" /\ UNCHANGED <<rest, down, interfaces, overtaken>>
    BY <1>2, <1>9 DEF Disconnected
  <2>2. Asked(c)' = Asked(c) /\ OneOpen(c)'
    BY <1>1, <2>1 DEF Asked, OneOpen
  <2>3. /\ srv'[c] = "closed" /\ \A d \in Conns \ {c} : srv'[d] = srv[d]
        /\ srv' \in [Conns -> {"none", "accepting", "open", "opening", "closed"}]
    BY <1>1, <2>1
  <2> QED
    BY <1>1, <2>1, <2>2, <2>3, ControllerKeeps
<1> QED
  BY <1>3, <1>4, <1>5, <1>6, <1>7, <1>8, <1>9 DEF Reactor

LEMMA RouterInfoKeeps ==
    ASSUME IInv, NEW v \in Vhosts, RouterInfo(v)
    PROVE  IInv'
<1> USE DEF rest, id, thread
<1>1. interfaces' \in [Vhosts -> Orders \cup {<<>>}]
  BY DEF RouterInfo, IInv, TypeOK
<1>2. Shapes' /\ TypeOK'
  BY <1>1 DEF RouterInfo, IInv, Shapes, TypeOK, Alive
<1>3. \A d \in Conns : Untouched(d)
  BY DEF RouterInfo, Untouched
<1> QED
  BY <1>2, <1>3, UntouchedKept DEF IInv

LEMMA PacketInKeeps ==
    ASSUME IInv, NEW v \in Vhosts, NEW i \in Ifs, PacketIn(v, i)
    PROVE  IInv'
<1> USE DEF rest, id, thread
<1>1. PICK c \in Conns : c = clients[v]
  BY DEF PacketIn, IInv, TypeOK
<1>2. /\ Tell(c, Packet(i)) /\ srv[c] \in {"open", "opening"}
      /\ overtaken' = IF srv[c] = "opening" THEN overtaken \cup {c} ELSE overtaken
      /\ pc' = pc /\ ifs' = ifs /\ todo' = todo
  BY <1>1 DEF PacketIn
<1>3. PICK m \in ToRouter : m = Packet(i)
  BY DEF ToRouter
<1>4. m.type = "PACKET"
  BY <1>3, Tags
<1>5. /\ down' \in [Conns -> Seq(ToRouter)] /\ \A d \in Conns \ {c} : down'[d] = down[d]
      /\ ~Alive(c) => down'[c] = <<>>
      /\ Told(c)' = Told(c) /\ OneHardware(c)'
  BY <1>2, <1>3, <1>4, ControllerTells DEF Told
<1>6. ConnInv(c)
  BY DEF IInv
<1>7. Shapes' /\ TypeOK'
  BY <1>2, <1>5 DEF PacketIn, IInv, Shapes, TypeOK, Alive
<1>8. \A d \in Conns \ {c} : Untouched(d)
  BY <1>2, <1>5 DEF PacketIn, Untouched
<1>9. ConnInv(c)'
  <2>1. Hardware(c)'
    BY <1>6, HardwareKept DEF PacketIn, ConnInv, SameHardware
  <2>2. Outside(c)'
    BY <1>2, <1>5, <1>6 DEF PacketIn, ConnInv, Outside, IsStatic, Blank
  <2>3. Once(c)'
    BY <1>5, <1>6
    DEF PacketIn, ConnInv, Once, OneOpen, Asked, Blank, Served, Alive, Complete
  <2>4. FramesBehind(c)'
    <3>1. Alive(c) => c \in overtaken' \/ Served(c)
      BY <1>1, <1>2, <1>6 DEF ConnInv, Once
    <3> QED
      BY <1>2, <1>3, <3>1, FramesAfterTell
  <2>5. Settling(c)'
    BY <1>6 DEF PacketIn, ConnInv, Settling, Complete
  <2>6. /\ pc'[c] = "aborted" => c \in overtaken'
        /\ pc'[c] = "run" /\ IsStatic(c)' /\ Complete(c)' => routes'[c] \subseteq Names(ifs[c])'
    BY <1>2, <1>6 DEF PacketIn, ConnInv, IsStatic, Complete, Names
  <2> QED
    BY <2>1, <2>2, <2>3, <2>4, <2>5, <2>6 DEF ConnInv
<1> QED
  BY <1>7, <1>8, <1>9, OneConnection

-----------------------------------------------------------------------------
(* The theorems.                                                           *)

LEMMA InitInv == Init => IInv
<1> SUFFICES ASSUME Init PROVE IInv
  OBVIOUS
<1>1. /\ <<>> \in Seq(Records) /\ <<>> \in Seq(Entry) /\ <<>> \in Seq(ToRouter)
      /\ <<>> \in Seq(FromRouter) /\ Len(<<>>) = 0 /\ NIfs \in Nat \ {0}
  BY SizesAssumption
<1>2. Shapes
  BY <1>1 DEF Init, Shapes
<1>3. TypeOK
  <2>1. "enrutamiento" \in Programs /\ 0 \in 0 .. NIfs + 1
    BY <1>1 DEF Programs
  <2>2. ASSUME NEW c \in Conns
        PROVE  /\ \A k \in 1 .. Len(ifs[c]) : ifs[c][k] \in Records
               /\ Len(ifs[c]) <= NIfs /\ pos[c] \in 1 .. Len(ifs[c]) + 1
               /\ down[c] = <<>>
    <3>1. ifs[c] = <<>> /\ pos[c] = 1 /\ down[c] = <<>>
      BY DEF Init
    <3> QED
      BY <1>1, <3>1
  <2> QED
    BY <2>1, <2>2 DEF Init, TypeOK
<1>4. ASSUME NEW c \in Conns PROVE ConnInv(c)
  <2>1. /\ pc[c] = "unused" /\ tpc[c] = "off" /\ pos[c] = 1 /\ rid[c] = 0 /\ srv[c] = "none"
        /\ ifs[c] = <<>> /\ todo[c] = <<>> /\ down[c] = <<>> /\ up[c] = <<>>
        /\ \A v \in Vhosts : clients[v] # c
    BY DEF Init, Conns, NoConn
  <2>2. ~Told(c) /\ ~Asked(c) /\ OneOpen(c) /\ OneHardware(c) /\ Blank(c) /\ FramesBehind(c)
    BY <2>1 DEF Told, Asked, OneOpen, OneHardware, Blank, FramesBehind
  <2> QED
    BY <2>1, <2>2 DEF ConnInv, Outside, Once, Hardware, Settling
<1> QED
  BY <1>2, <1>3, <1>4 DEF IInv

LEMMA StepInv == IInv /\ [Next]_vars => IInv'
<1> SUFFICES ASSUME IInv, [Next]_vars PROVE IInv'
  OBVIOUS
<1>1. CASE UNCHANGED vars
  <2>1. Shapes' /\ TypeOK' /\ \A d \in Conns : Untouched(d)
    BY <1>1 DEF vars, IInv, Shapes, TypeOK, Alive, Untouched
  <2> QED
    BY <2>1, UntouchedKept DEF IInv
<1>2. ASSUME NEW c \in Conns, Main(c) PROVE IInv'
  <2>1. CASE NoCredentials(c)
    BY <2>1, EndsKeeps DEF NoCredentials, Alive
  <2>2. CASE HwDone(c)
    BY <2>2, HandledKeeps DEF HwDone
  <2>3. CASE HwDoneStatic(c)
    <3>1. CASE Verified(c)
      BY <2>3, <3>1, HandledKeeps DEF HwDoneStatic, Verified
    <3>2. CASE ~Verified(c)
      BY <2>3, <3>2, EndsKeeps DEF HwDoneStatic, Alive
    <3> QED
      BY <3>1, <3>2
  <2> QED
    BY <1>2, <2>1, <2>2, <2>3, AuthenticateKeeps, OpenSessionKeeps, OpenByTemplateKeeps,
       HwInfoKeeps, HwEntryKeeps, HandleFrameKeeps, FrameAbortsKeeps DEF Main
<1>3. ASSUME NEW c \in Conns, Kill(c) PROVE IInv'
  BY <1>3, EndsKeeps DEF Kill
<1>4. ASSUME NEW c \in Conns, NEW v \in Vhosts, NEW p \in Programs, Start(c, v, p) PROVE IInv'
  BY <1>4, StartKeeps
<1>5. ASSUME NEW c \in Conns, NEW i \in Ifs, SendFrame(c, i) PROVE IInv'
  BY <1>5, SendFrameKeeps
<1>6. ASSUME NEW v \in Vhosts, NEW i \in Ifs, PacketIn(v, i) PROVE IInv'
  BY <1>6, PacketInKeeps
<1> QED
  BY <1>1, <1>2, <1>3, <1>4, <1>5, <1>6, RunThreadKeeps, ReactorKeeps, RouterInfoKeeps DEF Next

\* In every reachable state the lists, the messages under way and the threads
\* of each connection fit together (main, sr_handle_hwinfo, pwospf_run_thread,
\* _handle_open_msg, _handle_SRPacketIn).
THEOREM Invariant == Spec => []IInv
<1>1. Init => IInv
  BY InitInv
<1>2. IInv /\ [Next]_vars => IInv'
  BY StepInv
<1> QED
  BY <1>1, <1>2, PTL DEF Spec

\* The walk of pwospf_run_thread never leaves the interface list, no interface
\* is listed twice, and nothing is under way to a process that has ended.
THEOREM TypeCorrect == Spec => []TypeOK
<1>1. IInv => TypeOK
  BY DEF IInv
<1> QED
  BY <1>1, Invariant, PTL

\* Where the hardware message was handled before the PWOSPF thread woke, the
\* thread leaves pwospf_run_thread's two walks with the highest address as
\* router id and every connected network in the table.
THEOREM SettledInTime == Spec => []SettledId
<1>1. IInv => SettledId
  BY DEF IInv, ConnInv, Settling, SettledId
<1> QED
  BY <1>1, Invariant, PTL

\* The assertion of sr_arp_req_not_for_us fails only on a frame that was sent
\* between the registration of the client and its hardware message.
THEOREM AbortsExplained == Spec => []AbortOnlyOvertaken
<1>1. IInv => AbortOnlyOvertaken
  BY DEF IInv, ConnInv, AbortOnlyOvertaken
<1> QED
  BY <1>1, Invariant, PTL

\* Past the hardware message the static router has routes over interfaces that
\* exist only (sr_verify_routing_table).
THEOREM TableVerified == Spec => []StaticRoutesKnown
<1>1. IInv => StaticRoutesKnown
  BY DEF IInv, ConnInv, StaticRoutesKnown
<1> QED
  BY <1>1, Invariant, PTL
=============================================================================
