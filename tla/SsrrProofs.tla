------------------------------ MODULE SsrrProofs ------------------------------
(***************************************************************************)
(* Theorems about Ssrr: the list is walked in order, whatever is lost and  *)
(* whatever the buffers held before, and it is the second slot of the last *)
(* stop's buffer that tells which process crashes.                         *)
(***************************************************************************)
EXTENDS Ssrr, ListLemmas

\* Buffers hold a list and at least the two slots that are read of any, and a
\* packet goes to the first stop of its list.
Buffers ==
  /\ TypeOK
  /\ \A n \in Host : Len(rt_rmsg[n]) >= 2 /\ rt_len[n] <= Len(rt_rmsg[n])
  /\ \A p \in net : p.list # <<>> => p.to = Head(p.list)

\* A process in select(), or before its start, has nothing to send.
NothingPending == \A n \in Host : me_flag[n] => pc[n] \in {"loop", "crashed"}

\* There is no list before the first node has started.
NotBegun ==
  (\A n \in Host : First(n) => pc[n] = "delay") => net = {} /\ \A n \in Host : ~Holds(n)

SInv == Buffers /\ NothingPending /\ NotBegun /\ RouteIntact

\* A list that overwrites a buffer: what is sent on of it is its tail.
LEMMA OverwrittenIs ==
  ASSUME NEW old \in Seq(Addr), Len(old) >= 2, NEW list \in Seq(Addr)
  PROVE  /\ Overwritten(old, list) \in Seq(Addr)
         /\ Len(Overwritten(old, list)) >= 2
         /\ Len(list) <= Len(Overwritten(old, list))
         /\ SubSeq(Overwritten(old, list), 2, Len(list)) =
              IF list = <<>> THEN <<>> ELSE Tail(list)
<1> DEFINE kept == SubSeq(old, Len(list) + 1, Len(old))
<1>1. Len(old) \in Nat /\ Len(list) \in Nat
  BY LenProperties
<1>2. kept \in Seq(Addr) /\ Len(kept) = IF Len(list) + 1 <= Len(old)
                                          THEN Len(old) - (Len(list) + 1) + 1 ELSE 0
  <2>1. Len(list) + 1 \in Int /\ Len(old) \in Int
    BY <1>1
  <2>2. \A i \in (Len(list) + 1)..Len(old) : old[i] \in Addr
    BY <1>1, ElementOfSeq
  <2> QED BY <2>1, <2>2, SubSeqProperties
<1> HIDE DEF kept
<1>3. list \o kept \in Seq(Addr) /\ Len(list \o kept) = Len(list) + Len(kept)
  BY <1>2, ConcatProperties
<1>4. SubSeq(list \o kept, 2, Len(list)) = IF list = <<>> THEN <<>> ELSE Tail(list)
  <2>1. CASE list = <<>>
    <3>1. Len(list) = 0
      BY <2>1
    <3> QED BY <3>1, <2>1, SubSeqEmpty
  <2>2. CASE list # <<>>
    <3>1. Len(list) \in Nat \ {0} /\ Tail(list) = SubSeq(list, 2, Len(list))
      BY <2>2, EmptySeq, TailIsSubSeq
    <3>2. CASE Len(list) = 1
      <4>1. SubSeq(list \o kept, 2, 1) = <<>> /\ SubSeq(list, 2, 1) = <<>>
        BY SubSeqEmpty
      <4> QED BY <4>1, <3>1, <3>2, <2>2
    <3>3. CASE Len(list) >= 2
      <4>1. 2 \in 1..Len(list) /\ Len(list) \in 1..Len(list)
        BY <3>1, <3>3
      <4>2. SubSeq(list \o kept, 2, Len(list)) = SubSeq(list, 2, Len(list))
        BY <4>1, <1>2, SubSeqOfConcat1
      <4> QED BY <4>2, <3>1, <2>2
    <3> QED BY <3>1, <3>2, <3>3
  <2> QED BY <2>1, <2>2
<1>5. Len(list \o kept) >= 2 /\ Len(list) <= Len(list \o kept)
  BY <1>1, <1>2, <1>3
<1> QED BY <1>3, <1>4, <1>5 DEF Overwritten, kept

\* Striking the first stop off what is left adds it to what has been visited.
LEMMA StrikeOff ==
  ASSUME NEW S, NEW v \in Seq(S), NEW l \in Seq(S), l # <<>>
  PROVE  v \o l = Append(v, Head(l)) \o Tail(l)
<1>1. Len(l) \in Nat \ {0} /\ Head(l) = l[1] /\ Head(l) \in S /\ Tail(l) \in Seq(S)
  BY EmptySeq, HeadTailProperties
<1>2. l = <<Head(l)>> \o Tail(l)
  <2>1. 1 \in 1..Len(l) /\ Len(l) \in 1..Len(l)
    BY <1>1
  <2>2. SubSeq(l, 1, Len(l)) = <<l[1]>> \o SubSeq(l, 1 + 1, Len(l))
    BY <2>1, SubSeqRecursiveFirst
  <2> QED BY <2>2, <1>1, SubSeqFull, TailIsSubSeq
<1>3. <<Head(l)>> \in Seq(S)
  BY <1>1
<1>4. v \o (<<Head(l)>> \o Tail(l)) = (v \o <<Head(l)>>) \o Tail(l)
  BY <1>1, <1>3, ConcatAssociative
<1> QED BY <1>1, <1>2, <1>4, AppendIsConcat

\* Arguments that all name a VM are a list of addresses.
LEMMA ArgsAreAddrs ==
  ASSUME args \in Seq(Host \cup {BadName}), \A i \in DOMAIN args : args[i] # BadName
  PROVE  args \in Seq(Addr) /\ Len(args) \in Nat
<1>1. /\ Len(args) \in Nat /\ DOMAIN args = 1..Len(args)
      /\ args \in [1..Len(args) -> Host \cup {BadName}]
  BY LenProperties
<1>2. \A i \in 1..Len(args) : args[i] \in Addr
  BY <1>1 DEF Addr
<1>3. args = [i \in 1..Len(args) |-> args[i]]
  BY <1>1
<1> QED BY <1>1, <1>2, <1>3, IsASeq

LEMMA SInvInit == Init => SInv
<1> SUFFICES ASSUME Init PROVE SInv
  OBVIOUS
<1>1. \A n \in Host : /\ <<stack[n], stack[n]>> \in Seq(Addr)
                      /\ Len(<<stack[n], stack[n]>>) = 2
  <2>1. \A n \in Host : stack[n] \in Addr
    BY ListsAssumption DEF Init
  <2>2. \A a \in Addr : <<a, a>> \in Seq(Addr) /\ Len(<<a, a>>) = 2
    OBVIOUS
  <2> QED BY <2>1, <2>2
<1>2. TypeOK
  BY <1>1, PingAssumption DEF Init, TypeOK
<1> QED BY <1>1, <1>2 DEF Init, SInv, Buffers, NothingPending, NotBegun, RouteIntact, Holds

\* Steps that touch no list, and bring no process to the loop that has one.
LEMMA QuietStep ==
  ASSUME SInv, TypeOK', UNCHANGED <<args, buffer, me_flag, net, visited>>,
         \A m \in Host : pc'[m] = "delay" => pc[m] = "delay",
         \A m \in Host : me_flag[m] => \/ pc'[m] = pc[m]
                                       \/ pc'[m] = "crashed" /\ pc[m] = "loop"
  PROVE  SInv'
<1>1. \A m \in Host : Holds(m)' => Holds(m)
  BY DEF Holds, SInv, NothingPending
<1>2. \A m \in Host : Rest(m)' = Rest(m) /\ (First(m)' <=> First(m))
  BY DEF Rest, First, Usage, buffer
<1>3. Buffers'
  BY DEF SInv, Buffers, buffer
<1>4. NothingPending'
  BY DEF SInv, NothingPending
<1>5. NotBegun'
  BY <1>1, <1>2 DEF SInv, NotBegun
<1>6. RouteIntact'
  BY <1>1, <1>2 DEF SInv, RouteIntact
<1> QED BY <1>3, <1>4, <1>5, <1>6 DEF SInv

LEMMA TypeStep == SInv /\ [Next]_vars => TypeOK'
<1> SUFFICES ASSUME SInv, [Next]_vars PROVE TypeOK'
  OBVIOUS
<1> USE DEF TypeOK, SInv, Buffers, pings, buffer, Goto
<1>1. ASSUME NEW n \in Host, StartRefused(n) PROVE TypeOK'
  BY <1>1 DEF StartRefused
<1>2. ASSUME NEW n \in Host, StartIdle(n) PROVE TypeOK'
  BY <1>2 DEF StartIdle
<1>3. ASSUME NEW n \in Host, StartTour(n) PROVE TypeOK'
  <2>1. args \in Seq(Host \cup {BadName}) /\ \A i \in DOMAIN args : args[i] # BadName
    BY <1>3, ListsAssumption DEF StartTour
  <2>2. args \in Seq(Addr) /\ Len(args) \in Nat
    BY <2>1, ArgsAreAddrs
  <2>3. Overwritten(rt_rmsg[n], args) \in Seq(Addr)
    BY <2>2, OverwrittenIs
  <2> QED BY <1>3, <2>2, <2>3 DEF StartTour
<1>4. ASSUME NEW n \in Host, Sent(n), net' \subseteq Packet,
             pc' \in [Host -> {"delay", "loop", "select", "exited", "crashed"}]
      PROVE  TypeOK'
  BY <1>4 DEF Sent
<1>5. ASSUME NEW n \in Host, Send(n) PROVE TypeOK'
  <2>1. Rest(n) \in Seq(Addr)
    <3>1. \A i \in 2..rt_len[n] : rt_rmsg[n][i] \in Addr
      <4>1. rt_rmsg[n] \in Seq(Addr) /\ Len(rt_rmsg[n]) \in Nat
            /\ rt_len[n] \in Nat /\ rt_len[n] <= Len(rt_rmsg[n])
        BY LenProperties
      <4> QED BY <4>1, ElementOfSeq
    <3>2. 2 \in Int /\ rt_len[n] \in Int
      OBVIOUS
    <3> QED BY <3>1, <3>2, SubSeqProperties DEF Rest
  <2>2. Sent(n) /\ pc' = pc /\ rt_rmsg[n][2] \in Host
        /\ net' = net \cup {[to |-> rt_rmsg[n][2], list |-> Rest(n)]}
    BY <1>5 DEF Send
  <2>3. net' \subseteq Packet
    BY <2>1, <2>2 DEF Packet
  <2>4. pc' \in [Host -> {"delay", "loop", "select", "exited", "crashed"}]
    BY <2>2
  <2> HIDE DEF TypeOK, SInv, Buffers
  <2> QED BY <1>4, <2>2, <2>3, <2>4
<1>6. ASSUME NEW n \in Host, SendNowhere(n) PROVE TypeOK'
  <2>1. Sent(n) /\ net' = net
        /\ \E l \in {"loop", "exited"} : pc' = [pc EXCEPT ![n] = l]
    BY <1>6 DEF SendNowhere
  <2>2. net' \subseteq Packet
    BY <2>1
  <2>3. pc' \in [Host -> {"delay", "loop", "select", "exited", "crashed"}]
    BY <2>1
  <2> HIDE DEF TypeOK, SInv, Buffers
  <2> QED BY <1>4, <2>1, <2>2, <2>3
<1>7. ASSUME NEW n \in Host, Crash(n) PROVE TypeOK'
  BY <1>7 DEF Crash
<1>8. ASSUME NEW n \in Host, Ping(n) PROVE TypeOK'
  BY <1>8 DEF Ping
<1>9. ASSUME NEW n \in Host, Wait(n) PROVE TypeOK'
  BY <1>9 DEF Wait
<1>10. ASSUME NEW n \in Host, Alarm(n) PROVE TypeOK'
  BY <1>10 DEF Alarm, PingsDue
<1>11. ASSUME NEW n \in Host, AlarmUnseen(n) PROVE TypeOK'
  BY <1>11 DEF AlarmUnseen
<1>12. ASSUME NEW n \in Host, Timeout(n) PROVE TypeOK'
  BY <1>12 DEF Timeout
<1>13. ASSUME NEW n \in Host, NEW p \in net, Receive(n, p) PROVE TypeOK'
  <2>1. p.list \in Seq(Addr) /\ Len(p.list) \in Nat
    BY LenProperties DEF Packet
  <2>2. Overwritten(rt_rmsg[n], p.list) \in Seq(Addr)
    BY <2>1, OverwrittenIs
  <2>3. ping_stop' \in [Host -> Nat]
    BY <1>13, PingAssumption DEF Receive
  <2>4. visited' \in Seq(Host)
    BY <1>13 DEF Receive
  <2> HIDE DEF Buffers, SInv
  <2> QED BY <1>13, <2>1, <2>2, <2>3, <2>4 DEF Receive, SInv, Buffers
<1>14. ASSUME NEW p \in net, Lose(p) PROVE TypeOK'
  BY <1>14 DEF Lose
<1>15. CASE UNCHANGED vars
  BY <1>15 DEF vars
<1> HIDE DEF TypeOK, SInv, Buffers
<1> QED BY <1>1, <1>2, <1>3, <1>5, <1>6, <1>7, <1>8, <1>9, <1>10, <1>11, <1>12, <1>13,
           <1>14, <1>15 DEF Next, Process

LEMMA RouteOfStart ==
  ASSUME SInv, TypeOK', NEW n \in Host, StartTour(n) PROVE SInv'
<1>1. /\ pc[n] = "delay" /\ First(n) /\ args' = args /\ net' = net
      /\ \A i \in DOMAIN args : args[i] # BadName
      /\ pc' = [pc EXCEPT ![n] = "loop"]
      /\ rt_rmsg' = [rt_rmsg EXCEPT ![n] = Overwritten(rt_rmsg[n], args)]
      /\ rt_len' = [rt_len EXCEPT ![n] = Len(args)]
      /\ me_flag' = [me_flag EXCEPT ![n] = TRUE]
      /\ visited' = <<n>>
  BY DEF StartTour, Goto
<1>2. net = {} /\ \A m \in Host : ~Holds(m)
  <2>1. \A m \in Host : First(m) => m = n
    BY <1>1 DEF First
  <2> QED BY <2>1, <1>1 DEF SInv, NotBegun
<1>3. args \in Seq(Addr) /\ args # <<>> /\ Len(args) \in Nat /\ Head(args) = n
  <2>1. args \in Seq(Host \cup {BadName}) /\ args # <<>> /\ args[1] = n
    BY <1>1, ListsAssumption DEF SInv, Buffers, TypeOK, First, Usage
  <2>2. args \in Seq(Addr) /\ Len(args) \in Nat
    BY <2>1, <1>1, ArgsAreAddrs
  <2> QED BY <2>1, <2>2
<1>4. /\ pc \in [Host -> {"delay", "loop", "select", "exited", "crashed"}]
      /\ rt_rmsg \in [Host -> Seq(Addr)] /\ rt_len \in [Host -> Nat]
      /\ me_flag \in [Host -> BOOLEAN]
      /\ \A m \in Host : Len(rt_rmsg[m]) >= 2 /\ rt_len[m] <= Len(rt_rmsg[m])
  BY DEF SInv, Buffers, TypeOK
<1>5. /\ Len(Overwritten(rt_rmsg[n], args)) >= 2
      /\ Len(args) <= Len(Overwritten(rt_rmsg[n], args))
      /\ SubSeq(Overwritten(rt_rmsg[n], args), 2, Len(args)) = Tail(args)
  BY <1>3, <1>4, OverwrittenIs
<1>6. Buffers'
  BY <1>1, <1>2, <1>4, <1>5 DEF Buffers
<1>7. NothingPending'
  BY <1>1, <1>4 DEF SInv, NothingPending
<1>8. NotBegun'
  BY <1>1, <1>4 DEF NotBegun, First, Usage
<1>9. RouteIntact'
  <2>1. \A m \in Host : Holds(m)' => m = n
    BY <1>1, <1>2, <1>4 DEF Holds
  <2>2. visited' \o Rest(n)' = args'
    <3>1. Rest(n)' = Tail(args)
      BY <1>1, <1>4, <1>5 DEF Rest
    <3>2. args = Append(<<>>, Head(args)) \o Tail(args)
      BY <1>3, StrikeOff, ConcatEmptySeq, EmptySeq
    <3>3. Append(<<>>, n) = <<n>>
      OBVIOUS
    <3> QED BY <3>1, <3>2, <3>3, <1>1, <1>3
  <2> QED BY <2>1, <2>2, <1>1, <1>2 DEF RouteIntact
<1> QED BY <1>6, <1>7, <1>8, <1>9 DEF SInv

LEMMA RouteOfSend ==
  ASSUME SInv, TypeOK', NEW n \in Host, Send(n) \/ SendNowhere(n) PROVE SInv'
<1>1. /\ pc[n] = "loop" /\ me_flag[n] /\ rt_len[n] > 0
      /\ rt_len' = [rt_len EXCEPT ![n] = rt_len[n] - 1]
      /\ me_flag' = [me_flag EXCEPT ![n] = FALSE]
      /\ args' = args /\ rt_rmsg' = rt_rmsg /\ visited' = visited
      /\ \/ pc' = pc \/ pc' = [pc EXCEPT ![n] = "loop"] \/ pc' = [pc EXCEPT ![n] = "exited"]
      /\ \/ net' = net
         \/ net' = net \cup {[to |-> rt_rmsg[n][2], list |-> Rest(n)]}
  BY DEF Send, SendNowhere, Sent, Goto
<1>2. /\ pc \in [Host -> {"delay", "loop", "select", "exited", "crashed"}]
      /\ rt_rmsg \in [Host -> Seq(Addr)] /\ rt_len \in [Host -> Nat]
      /\ me_flag \in [Host -> BOOLEAN]
      /\ \A m \in Host : Len(rt_rmsg[m]) >= 2 /\ rt_len[m] <= Len(rt_rmsg[m])
  BY DEF SInv, Buffers, TypeOK
<1>3. Holds(n)
  BY <1>1 DEF Holds
<1>4. net = {} /\ visited \o Rest(n) = args /\ \A m \in Host : Holds(m) => m = n
  BY <1>3 DEF SInv, RouteIntact
<1>5. \A m \in Host : ~Holds(m)'
  BY <1>1, <1>2, <1>4 DEF Holds
<1>6. Rest(n) # <<>> => rt_rmsg[n][2] = Head(Rest(n))
  <2>1. CASE rt_len[n] < 2
    BY <2>1, <1>2, SubSeqEmpty DEF Rest
  <2>2. CASE rt_len[n] >= 2
    <3>1. Len(rt_rmsg[n]) \in Nat
      BY <1>2, LenProperties
    <3>2. 2 \in 1..Len(rt_rmsg[n]) /\ rt_len[n] \in 2..Len(rt_rmsg[n])
      BY <3>1, <2>2, <1>2
    <3> QED BY <3>2, <1>2, HeadTailOfSubSeq DEF Rest
  <2> QED BY <2>1, <2>2, <1>2
<1>7. Buffers'
  <2>1. \A m \in Host : rt_len'[m] <= Len(rt_rmsg[m])
    <3> SUFFICES ASSUME NEW m \in Host PROVE rt_len'[m] <= Len(rt_rmsg[m])
      OBVIOUS
    <3>1. Len(rt_rmsg[m]) \in Nat
      BY <1>2, LenProperties
    <3> QED BY <3>1, <1>1, <1>2
  <2>2. \A p \in net' : p.list # <<>> => p.to = Head(p.list)
    BY <1>1, <1>4, <1>6
  <2> QED BY <2>1, <2>2, <1>1, <1>2 DEF Buffers
<1>8. NothingPending'
  BY <1>1, <1>2 DEF SInv, NothingPending
<1>9. NotBegun'
  <2>1. \E m \in Host : First(m) /\ pc[m] # "delay"
    BY <1>3 DEF SInv, NotBegun
  <2>2. PICK m \in Host : First(m) /\ pc[m] # "delay"
    BY <2>1
  <2>3. pc'[m] # "delay" /\ First(m)'
    BY <2>2, <1>1, <1>2 DEF First, Usage
  <2> QED BY <2>3 DEF NotBegun
<1>10. RouteIntact'
  <2>1. \A p \in net' : p.list = Rest(n) /\ p.to = rt_rmsg[n][2]
                       /\ net' = {[to |-> rt_rmsg[n][2], list |-> Rest(n)]}
    BY <1>1, <1>4
  <2>2. \A p \in net' : visited' \o p.list = args'
    BY <2>1, <1>1, <1>4
  <2>3. \A p, q \in net' : p = q
    BY <2>1
  <2> QED BY <2>2, <2>3, <1>5 DEF RouteIntact
<1> QED BY <1>7, <1>8, <1>9, <1>10 DEF SInv

LEMMA RouteOfReceive ==
  ASSUME SInv, TypeOK', NEW n \in Host, NEW p \in net, Receive(n, p) PROVE SInv'
<1>1. /\ pc[n] = "select" /\ p.to = n /\ net' = net \ {p} /\ args' = args
      /\ rt_rmsg' = [rt_rmsg EXCEPT ![n] = Overwritten(rt_rmsg[n], p.list)]
      /\ rt_len' = [rt_len EXCEPT ![n] = Len(p.list)]
      /\ me_flag' = [me_flag EXCEPT ![n] = TRUE]
      /\ visited' = IF p.list = <<>> THEN visited ELSE Append(visited, n)
      /\ pc' = [pc EXCEPT ![n] = "loop"]
  BY DEF Receive, Goto
<1>2. /\ pc \in [Host -> {"delay", "loop", "select", "exited", "crashed"}]
      /\ rt_rmsg \in [Host -> Seq(Addr)] /\ rt_len \in [Host -> Nat]
      /\ me_flag \in [Host -> BOOLEAN] /\ visited \in Seq(Addr)
      /\ \A m \in Host : Len(rt_rmsg[m]) >= 2 /\ rt_len[m] <= Len(rt_rmsg[m])
      /\ p.list \in Seq(Addr) /\ Len(p.list) \in Nat
      /\ p.list # <<>> => Head(p.list) = n
  <2>1. visited \in Seq(Addr)
    BY SeqMonotonic DEF SInv, Buffers, TypeOK, Addr
  <2>2. p.list \in Seq(Addr)
    BY DEF SInv, Buffers, TypeOK, Packet
  <2> QED BY <2>1, <2>2, <1>1, LenProperties DEF SInv, Buffers, TypeOK
<1>3. /\ visited \o p.list = args /\ net' = {}
      /\ \A m \in Host : ~Holds(m)
  BY <1>1 DEF SInv, RouteIntact
<1>4. /\ Len(Overwritten(rt_rmsg[n], p.list)) >= 2
      /\ Len(p.list) <= Len(Overwritten(rt_rmsg[n], p.list))
      /\ SubSeq(Overwritten(rt_rmsg[n], p.list), 2, Len(p.list)) =
           IF p.list = <<>> THEN <<>> ELSE Tail(p.list)
  BY <1>2, OverwrittenIs
<1>5. Buffers'
  BY <1>1, <1>2, <1>3, <1>4 DEF Buffers
<1>6. NothingPending'
  BY <1>1, <1>2 DEF SInv, NothingPending
<1>7. NotBegun'
  <2>1. \E m \in Host : First(m) /\ pc[m] # "delay"
    BY DEF SInv, NotBegun
  <2>2. PICK m \in Host : First(m) /\ pc[m] # "delay"
    BY <2>1
  <2>3. pc'[m] # "delay" /\ First(m)'
    BY <2>2, <1>1, <1>2 DEF First, Usage
  <2> QED BY <2>3 DEF NotBegun
<1>8. RouteIntact'
  <2>1. \A m \in Host : Holds(m)' => m = n
    BY <1>1, <1>2, <1>3 DEF Holds
  <2>2. Rest(n)' = IF p.list = <<>> THEN <<>> ELSE Tail(p.list)
    BY <1>1, <1>2, <1>4 DEF Rest
  <2>3. visited' \o Rest(n)' = args
    <3>1. CASE p.list = <<>>
      BY <3>1, <2>2, <1>1, <1>3
    <3>2. CASE p.list # <<>>
      <4>1. visited \o p.list = Append(visited, Head(p.list)) \o Tail(p.list)
        BY <3>2, <1>2, StrikeOff
      <4> QED BY <4>1, <3>2, <2>2, <1>1, <1>2, <1>3
    <3> QED BY <3>1, <3>2
  <2> QED BY <2>1, <2>3, <1>1, <1>3 DEF RouteIntact
<1> QED BY <1>5, <1>6, <1>7, <1>8 DEF SInv

LEMMA RouteOfLose ==
  ASSUME SInv, TypeOK', NEW p \in net, Lose(p) PROVE SInv'
<1>1. net' \subseteq net /\ UNCHANGED <<args, pc, buffer, me_flag, visited>>
  BY DEF Lose
<1>2. \A m \in Host : /\ Holds(m)' <=> Holds(m)
                      /\ Rest(m)' = Rest(m) /\ (First(m)' <=> First(m))
  BY <1>1 DEF Holds, Rest, First, Usage, buffer
<1>3. Buffers'
  BY <1>1 DEF SInv, Buffers, buffer
<1>4. NothingPending' /\ NotBegun'
  BY <1>1, <1>2 DEF SInv, NothingPending, NotBegun
<1>5. RouteIntact'
  BY <1>1, <1>2 DEF SInv, RouteIntact
<1> QED BY <1>3, <1>4, <1>5 DEF SInv

LEMMA SInvStep == SInv /\ [Next]_vars => SInv'
<1> SUFFICES ASSUME SInv, [Next]_vars PROVE SInv'
  OBVIOUS
<1>1. TypeOK'
  BY TypeStep
<1>2. pc \in [Host -> {"delay", "loop", "select", "exited", "crashed"}]
  BY DEF SInv, Buffers, TypeOK
<1>3. \A n \in Host : pc[n] \in {"delay", "select"} => ~me_flag[n]
  BY DEF SInv, NothingPending
<1>4. ASSUME NEW n \in Host, StartRefused(n) \/ StartIdle(n) \/ Ping(n) \/ Wait(n)
                               \/ Alarm(n) \/ Timeout(n)
      PROVE  SInv'
  <2>1. ~me_flag[n] /\ UNCHANGED <<args, buffer, me_flag, net, visited>>
    BY <1>3, <1>4 DEF StartRefused, StartIdle, Ping, Wait, Alarm, Timeout
  <2>2. \E l \in {"loop", "select", "exited"} : pc' = [pc EXCEPT ![n] = l]
    BY <1>4 DEF StartRefused, StartIdle, Ping, Wait, Alarm, Timeout, Goto
  <2>3. \A m \in Host : pc'[m] = "delay" => pc[m] = "delay"
    BY <1>2, <2>2
  <2>4. \A m \in Host : me_flag[m] => pc'[m] = pc[m]
    BY <1>2, <2>1, <2>2
  <2> QED BY <1>1, <2>1, <2>3, <2>4, QuietStep
<1>5. ASSUME NEW n \in Host, Crash(n) PROVE SInv'
  <2>1. /\ UNCHANGED <<args, buffer, me_flag, net, visited>>
        /\ pc[n] = "loop" /\ pc' = [pc EXCEPT ![n] = "crashed"]
    BY <1>5 DEF Crash, Goto
  <2>2. \A m \in Host : pc'[m] = "delay" => pc[m] = "delay"
    BY <1>2, <2>1
  <2>3. \A m \in Host : \/ pc'[m] = pc[m]
                        \/ pc'[m] = "crashed" /\ pc[m] = "loop"
    BY <1>2, <2>1
  <2> QED BY <1>1, <2>1, <2>2, <2>3, QuietStep
<1>6. ASSUME NEW n \in Host, AlarmUnseen(n) PROVE SInv'
  BY <1>1, <1>6, QuietStep DEF AlarmUnseen
<1>7. ASSUME NEW n \in Host, StartTour(n) PROVE SInv'
  BY <1>1, <1>7, RouteOfStart
<1>8. ASSUME NEW n \in Host, Send(n) \/ SendNowhere(n) PROVE SInv'
  BY <1>1, <1>8, RouteOfSend
<1>9. ASSUME NEW n \in Host, NEW p \in net, Receive(n, p) PROVE SInv'
  BY <1>1, <1>9, RouteOfReceive
<1>10. ASSUME NEW p \in net, Lose(p) PROVE SInv'
  BY <1>1, <1>10, RouteOfLose
<1>11. CASE UNCHANGED vars
  BY <1>1, <1>11, QuietStep DEF vars
<1> QED BY <1>4, <1>5, <1>6, <1>7, <1>8, <1>9, <1>10, <1>11 DEF Next, Process

\* On any tour the nodes that have had the list and what is left of it make up
\* the arguments, and the list is in one place (ssrr_test.c 125-143, 180-204).
THEOREM RouteStaysIntact == Spec => []RouteIntact
<1>1. Spec => []SInv
  BY SInvInit, SInvStep, PTL DEF Spec
<1> QED BY <1>1, PTL DEF SInv

(***************************************************************************)
(* Who crashes.                                                            *)
(***************************************************************************)
\* The visits of a node at which it was sent a list of two stops at least.
Had(m) == {i \in 1..Len(visited) : i < Len(args) /\ args[i] = m}

\* The second slot holds what the last of those lists had there.
SecondSlot ==
  \A m \in Host :
    /\ Had(m) = {} => rt_rmsg[m][2] = stack[m]
    /\ \A i \in Had(m) : (\A j \in Had(m) : j <= i) => rt_rmsg[m][2] = args[i + 1]

Walked ==
  /\ Len(visited) <= Len(args)
  /\ \A i \in 1..Len(visited) : visited[i] = args[i]
  /\ (\A n \in Host : First(n) => pc[n] = "delay") => visited = <<>>

\* The second slot of the last stop.
Stale == rt_rmsg[args[Len(args)]][2]

\* It is the address that the empty list goes to.
Emptied ==
  /\ \A n \in Host : Holds(n) => IF rt_len[n] = 0 THEN n = Stale
                                ELSE visited # <<>> /\ n = visited[Len(visited)]
  /\ \A p \in net : p.list = <<>> => p.to = Stale
  /\ \A n \in Host : pc[n] = "crashed" => visited = args /\ args # <<>> /\ n = Stale

StaleInv == Walked /\ SecondSlot /\ Emptied

LEMMA StaleInit == Init => StaleInv
<1> SUFFICES ASSUME Init PROVE StaleInv
  OBVIOUS
<1>1. /\ visited = <<>> /\ Len(visited) = 0 /\ net = {} /\ Len(args) \in Nat
      /\ \A n \in Host : pc[n] = "delay" /\ rt_rmsg[n] = <<stack[n], stack[n]>>
  BY ListsAssumption DEF Init
<1>2. ASSUME NEW n \in Host PROVE rt_rmsg[n][2] = stack[n]
  <2>1. rt_rmsg[n] = <<stack[n], stack[n]>>
    BY <1>1
  <2>2. <<stack[n], stack[n]>>[2] = stack[n]
    OBVIOUS
  <2> QED BY <2>1, <2>2
<1> QED BY <1>1, <1>2 DEF StaleInv, Walked, SecondSlot, Emptied, Had, Holds

\* The second slot of a buffer that a list overwrites.
LEMMA SecondSlotIs ==
  ASSUME NEW old \in Seq(Addr), Len(old) >= 2, NEW list \in Seq(Addr)
  PROVE  /\ Len(list) >= 2 => Overwritten(old, list)[2] = list[2]
         /\ Len(list) < 2 => Overwritten(old, list)[2] = old[2]
         /\ list = <<>> => Overwritten(old, list) = old
<1>1. Len(old) \in Nat /\ Len(list) \in Nat
  OBVIOUS
<1>2. CASE list = <<>>
  <2>1. SubSeq(old, Len(list) + 1, Len(old)) = old /\ Len(list) = 0
    BY <1>2, SubSeqFull
  <2> QED BY <1>2, <2>1 DEF Overwritten
<1>3. CASE Len(list) >= 1
  <2> DEFINE n == Len(list)
             kept == SubSeq(old, n + 1, Len(old))
  <2>1. CASE Len(list) >= 2
    <3>1. kept \in Seq(Addr)
      <4>1. n + 1 \in Int /\ Len(old) \in Int /\ \A i \in (n + 1)..Len(old) : old[i] \in Addr
        BY <1>1, ElementOfSeq
      <4> QED BY <4>1, SubSeqProperties
    <3> HIDE DEF kept
    <3>2. \A k \in 1..Len(list) : (list \o kept)[k] = list[k]
      BY <3>1, ConcatElements
    <3>3. (list \o kept)[2] = list[2]
      BY <1>1, <2>1, <3>2
    <3>4. Overwritten(old, list)[2] = list[2]
      BY <3>3 DEF Overwritten, kept
    <3> QED BY <1>1, <1>3, <2>1, <3>4
  <2>2. CASE Len(list) = 1
    <3>1. kept \in Seq(Addr) /\ Len(kept) = Len(old) - 1
          /\ \A k \in 1..(Len(old) - 1) : kept[k] = old[1 + k]
      <4>1. 1 \in 0..Len(old)
        BY <1>1
      <4> QED BY <2>2, <4>1, RestElements
    <3> HIDE DEF kept
    <3>2. \A k \in 1..Len(kept) : (list \o kept)[Len(list) + k] = kept[k]
      BY <3>1, ConcatElements
    <3>3. (list \o kept)[1 + 1] = kept[1] /\ kept[1] = old[1 + 1]
      BY <1>1, <2>2, <3>1, <3>2
    <3>4. 1 + 1 = 2 /\ Overwritten(old, list) = list \o kept
      BY DEF Overwritten, kept
    <3>5. Overwritten(old, list)[2] = old[2]
      BY <3>3, <3>4
    <3>6. ~(1 >= 2)
      OBVIOUS
    <3>7. ~(Len(list) >= 2)
      BY ONLY <2>2, <3>6, Zenon
    <3>8. list # <<>>
      BY <1>3
    <3> QED BY <3>5, <3>7, <3>8
  <2>3. list # <<>>
    BY <1>3
  <2>4. Len(list) >= 2 \/ Len(list) = 1
    <3>1. PICK k \in Nat : k = Len(list)
      BY <1>1
    <3> QED BY <1>3, <3>1
  <2> QED BY <2>1, <2>2, <2>3, <2>4
<1>4. list = <<>> \/ Len(list) >= 1
  <2>1. Len(list) = 0 => list = <<>>
    BY EmptySeq
  <2> QED BY <1>1, <2>1
<1> QED BY <1>2, <1>3, <1>4

\* Steps that touch no list.
LEMMA StaleOfQuiet ==
  ASSUME SInv, StaleInv, UNCHANGED <<args, stack, buffer, me_flag, visited>>, net' \subseteq net,
         \A m \in Host : pc'[m] = "delay" => pc[m] = "delay",
         \A m \in Host : Holds(m)' => Holds(m),
         \A m \in Host : pc'[m] = "crashed" => pc[m] = "crashed" \/ (Holds(m) /\ rt_len[m] = 0)
  PROVE  StaleInv'
<1>1. UNCHANGED <<Stale, rt_len>> /\ \A m \in Host : Had(m)' = Had(m) /\ (First(m)' <=> First(m))
  BY DEF Stale, Had, First, Usage, buffer
<1>2. Walked'
  BY <1>1 DEF StaleInv, Walked
<1>3. SecondSlot'
  BY <1>1 DEF StaleInv, SecondSlot, buffer
<1>4. Emptied'
  <2>1. ASSUME NEW n \in Host, Holds(n), rt_len[n] = 0 PROVE visited = args /\ args # <<>>
    <3>1. visited \o Rest(n) = args
      BY <2>1 DEF SInv, RouteIntact
    <3>2. Rest(n) = <<>>
      BY <2>1, SubSeqEmpty DEF Rest
    <3>3. visited \in Seq(Host)
      BY DEF SInv, Buffers, TypeOK
    <3>4. \E m \in Host : First(m)
      BY <2>1 DEF SInv, NotBegun
    <3> QED BY <3>1, <3>2, <3>3, <3>4, ConcatEmptySeq DEF First, Usage
  <2> QED BY <1>1, <2>1 DEF StaleInv, Emptied
<1> QED BY <1>2, <1>3, <1>4 DEF StaleInv

LEMMA StaleOfStart ==
  ASSUME SInv, StaleInv, SInv', NEW n \in Host, StartTour(n)
  PROVE  StaleInv'
<1>1. /\ pc[n] = "delay" /\ First(n) /\ args' = args /\ net' = net /\ stack' = stack
      /\ \A i \in DOMAIN args : args[i] # BadName
      /\ pc' = [pc EXCEPT ![n] = "loop"]
      /\ rt_rmsg' = [rt_rmsg EXCEPT ![n] = Overwritten(rt_rmsg[n], args)]
      /\ rt_len' = [rt_len EXCEPT ![n] = Len(args)]
      /\ me_flag' = [me_flag EXCEPT ![n] = TRUE]
      /\ visited' = <<n>>
  BY DEF StartTour, Goto
<1>2. /\ pc \in [Host -> {"delay", "loop", "select", "exited", "crashed"}]
      /\ rt_rmsg \in [Host -> Seq(Addr)] /\ rt_len \in [Host -> Nat]
      /\ me_flag \in [Host -> BOOLEAN]
      /\ \A m \in Host : Len(rt_rmsg[m]) >= 2
  BY DEF SInv, Buffers, TypeOK
<1>3. net = {} /\ visited = <<>> /\ \A m \in Host : ~Holds(m)
  <2>1. \A m \in Host : First(m) => m = n
    BY <1>1 DEF First
  <2>2. \A m \in Host : First(m) => pc[m] = "delay"
    BY <1>1, <2>1
  <2>3. net = {} /\ \A m \in Host : ~Holds(m)
    BY <2>2 DEF SInv, NotBegun
  <2>4. visited = <<>>
    BY <2>2 DEF StaleInv, Walked
  <2> QED BY <2>3, <2>4
<1>4. args \in Seq(Addr) /\ args # <<>> /\ Len(args) \in Nat /\ Len(args) >= 1 /\ args[1] = n
  <2>1. args \in Seq(Host \cup {BadName}) /\ args # <<>> /\ args[1] = n
    BY <1>1, ListsAssumption DEF SInv, Buffers, TypeOK, First, Usage
  <2>2. args \in Seq(Addr) /\ Len(args) \in Nat
    BY <2>1, <1>1, ArgsAreAddrs
  <2>3. Len(args) # 0
    BY <2>1, EmptySeq
  <2> QED BY <2>1, <2>2, <2>3
<1>5. Len(visited') = 1 /\ visited'[1] = n /\ visited' # <<>> /\ 1..1 = {1} /\ 1..Len(visited) = {}
  BY <1>1, <1>3
<1>6. Walked'
  <2>1. First(n)' /\ pc'[n] # "delay"
    BY <1>1, <1>2 DEF First, Usage
  <2> QED BY <1>1, <1>4, <1>5, <2>1 DEF Walked
<1>7. SecondSlot'
  <2>1. \A m \in Host : rt_rmsg[m][2] = stack[m]
    BY <1>5 DEF StaleInv, SecondSlot, Had
  <2>2. /\ Len(args) >= 2 => Overwritten(rt_rmsg[n], args)[2] = args[2]
        /\ Len(args) < 2 => Overwritten(rt_rmsg[n], args)[2] = rt_rmsg[n][2]
    BY <1>2, <1>4, SecondSlotIs
  <2>3. \A m \in Host : Had(m)' = IF m = n /\ Len(args) >= 2 THEN {1} ELSE {}
    BY <1>1, <1>4, <1>5 DEF Had
  <2>4. /\ rt_rmsg'[n][2] = IF Len(args) >= 2 THEN args[2] ELSE stack[n]
        /\ \A m \in Host \ {n} : rt_rmsg'[m][2] = stack[m]
    BY <1>1, <1>2, <2>1, <2>2
  <2> SUFFICES ASSUME NEW m \in Host
               PROVE  /\ Had(m)' = {} => rt_rmsg'[m][2] = stack'[m]
                      /\ \A i \in Had(m)' : rt_rmsg'[m][2] = args'[i + 1]
    BY DEF SecondSlot
  <2>5. CASE m = n
    <3>1. CASE Len(args) >= 2
      BY <1>1, <2>3, <2>4, <2>5, <3>1
    <3>2. CASE ~(Len(args) >= 2)
      BY <1>1, <2>3, <2>4, <2>5, <3>2
    <3> QED BY <3>1, <3>2
  <2>6. CASE m # n
    BY <1>1, <2>3, <2>4, <2>6
  <2> QED BY <2>5, <2>6
<1>8. Emptied'
  <2>1. \A m \in Host : Holds(m)' => m = n
    BY <1>1, <1>2, <1>3 DEF Holds
  <2>2. rt_len'[n] # 0
    BY <1>1, <1>2, <1>4
  <2>3. \A m \in Host : pc'[m] # "crashed"
    BY <1>1, <1>2, <1>3 DEF StaleInv, Emptied
  <2> QED BY <1>1, <1>3, <1>5, <2>1, <2>2, <2>3 DEF Emptied
<1> QED BY <1>6, <1>7, <1>8 DEF StaleInv

LEMMA StaleOfSend ==
  ASSUME SInv, StaleInv, SInv', NEW n \in Host, Send(n) \/ SendNowhere(n)
  PROVE  StaleInv'
<1>1. /\ pc[n] = "loop" /\ me_flag[n] /\ rt_len[n] > 0 /\ Holds(n)
      /\ rt_len' = [rt_len EXCEPT ![n] = rt_len[n] - 1]
      /\ me_flag' = [me_flag EXCEPT ![n] = FALSE]
      /\ args' = args /\ stack' = stack /\ rt_rmsg' = rt_rmsg /\ visited' = visited
      /\ \/ pc' = pc \/ pc' = [pc EXCEPT ![n] = "loop"] \/ pc' = [pc EXCEPT ![n] = "exited"]
      /\ \/ net' = net
         \/ net' = net \cup {[to |-> rt_rmsg[n][2], list |-> Rest(n)]}
  BY DEF Send, SendNowhere, Sent, Goto, Holds
<1>2. /\ pc \in [Host -> {"delay", "loop", "select", "exited", "crashed"}]
      /\ rt_len \in [Host -> Nat] /\ me_flag \in [Host -> BOOLEAN] /\ visited \in Seq(Host)
  BY DEF SInv, Buffers, TypeOK
<1>3. net = {} /\ visited \o Rest(n) = args /\ \A m \in Host : Holds(m) => m = n
  BY <1>1 DEF SInv, RouteIntact
<1>4. visited # <<>> /\ n = visited[Len(visited)]
  BY <1>1, <1>2 DEF StaleInv, Emptied
<1>5. \A m \in Host : ~Holds(m)' /\ (pc'[m] = "crashed" => pc[m] = "crashed")
                      /\ Had(m)' = Had(m) /\ (First(m)' <=> First(m))
                      /\ (pc'[m] = "delay" => pc[m] = "delay")
  BY <1>1, <1>2, <1>3 DEF Holds, Had, First, Usage
<1>6. Stale' = Stale
  BY <1>1 DEF Stale
<1>7. Walked'
  BY <1>1, <1>5 DEF StaleInv, Walked
<1>8. SecondSlot'
  BY <1>1, <1>5 DEF StaleInv, SecondSlot
<1>9. Emptied'
  <2>1. ASSUME NEW p \in net', p.list = <<>> PROVE p.to = Stale
    <3>1. p.to = rt_rmsg[n][2] /\ p.list = Rest(n)
      BY <1>1, <1>3, <2>1
    <3>2. visited = args
      BY <1>2, <1>3, <2>1, <3>1, ConcatEmptySeq
    <3> QED BY <1>4, <3>1, <3>2 DEF Stale
  <2> QED BY <1>1, <1>5, <1>6, <2>1 DEF StaleInv, Emptied
<1> QED BY <1>7, <1>8, <1>9 DEF StaleInv

\* The next stop of the arguments has the list.
LEMMA NextVisit ==
  ASSUME NEW S, NEW done \in Seq(S), NEW list \in Seq(S), list # <<>>
  PROVE  LET a == done \o list
             k == Len(done) + 1
         IN  /\ k \in 1..Len(a) /\ a[k] = list[1] /\ Len(a) = Len(done) + Len(list)
             /\ Len(list) >= 2 => k < Len(a) /\ a[k + 1] = list[2]
             /\ Len(list) < 2 => ~(k < Len(a))
             /\ \A i \in 1..Len(done) : a[i] = done[i]
<1> DEFINE a == done \o list
<1>1. /\ Len(a) = Len(done) + Len(list)
      /\ \A i \in 1..Len(done) : a[i] = done[i]
      /\ \A i \in 1..Len(list) : a[Len(done) + i] = list[i]
  BY ConcatElements
<1> HIDE DEF a
<1>2. PICK d \in Nat : d = Len(done)
  OBVIOUS
<1>3. PICK l \in Nat : l = Len(list)
  OBVIOUS
<1>4. l # 0
  <2>1. Len(list) = 0 => list = <<>>
    BY EmptySeq
  <2> QED BY <1>3, <2>1
<1>5. Len(a) = d + l /\ 1 \in 1..l /\ a[d + 1] = list[1]
  BY <1>1, <1>2, <1>3, <1>4
<1>6. l >= 2 => a[(d + 1) + 1] = list[2]
  <2>1. d + 2 = (d + 1) + 1
    OBVIOUS
  <2>2. l >= 2 => a[d + 2] = list[2]
    BY <1>1, <1>2, <1>3
  <2> QED BY <2>1, <2>2
<1>7. d + 1 \in 1..(d + l) /\ (l >= 2 => d + 1 < d + l) /\ (l < 2 => ~(d + 1 < d + l))
  BY <1>4
<1> QED BY <1>1, <1>2, <1>3, <1>5, <1>6, <1>7 DEF a

LEMMA StaleOfReceive ==
  ASSUME SInv, StaleInv, SInv', NEW n \in Host, NEW p \in net, Receive(n, p)
  PROVE  StaleInv'
<1>1. /\ pc[n] = "select" /\ p.to = n /\ net' = net \ {p} /\ args' = args /\ stack' = stack
      /\ rt_rmsg' = [rt_rmsg EXCEPT ![n] = Overwritten(rt_rmsg[n], p.list)]
      /\ rt_len' = [rt_len EXCEPT ![n] = Len(p.list)]
      /\ me_flag' = [me_flag EXCEPT ![n] = TRUE]
      /\ visited' = IF p.list = <<>> THEN visited ELSE Append(visited, n)
      /\ pc' = [pc EXCEPT ![n] = "loop"]
  BY DEF Receive, Goto
<1>2. /\ pc \in [Host -> {"delay", "loop", "select", "exited", "crashed"}]
      /\ rt_rmsg \in [Host -> Seq(Addr)] /\ rt_len \in [Host -> Nat]
      /\ me_flag \in [Host -> BOOLEAN] /\ visited \in Seq(Host) /\ visited \in Seq(Addr)
      /\ Len(visited) \in Nat
      /\ \A m \in Host : Len(rt_rmsg[m]) >= 2
      /\ p.list \in Seq(Addr) /\ Len(p.list) \in Nat
      /\ p.list # <<>> => Head(p.list) = n
  <2>1. visited \in Seq(Addr)
    BY SeqMonotonic DEF SInv, Buffers, TypeOK, Addr
  <2>2. p.list \in Seq(Addr)
    BY DEF SInv, Buffers, TypeOK, Packet
  <2> QED BY <2>1, <2>2, <1>1, LenProperties DEF SInv, Buffers, TypeOK
<1>3. /\ visited \o p.list = args /\ net' = {}
      /\ \A m \in Host : ~Holds(m)
  BY <1>1 DEF SInv, RouteIntact
<1>4. \A m \in Host : (Holds(m)' => m = n) /\ (First(m)' <=> First(m))
  BY <1>1, <1>2, <1>3 DEF Holds, First, Usage
<1>5. \E m \in Host : First(m) /\ pc[m] # "delay" /\ pc'[m] # "delay"
  <2>1. \E m \in Host : First(m) /\ pc[m] # "delay"
    BY DEF SInv, NotBegun
  <2> QED BY <2>1, <1>1, <1>2
<1>6. CASE p.list = <<>>
  <2>1. visited = args /\ visited' = visited
    BY <1>1, <1>2, <1>3, <1>6, ConcatEmptySeq
  <2>2. rt_rmsg' = rt_rmsg
    <3>1. Overwritten(rt_rmsg[n], p.list) = rt_rmsg[n]
      BY <1>2, <1>6, SecondSlotIs
    <3> QED BY <3>1, <1>1, <1>2
  <2>3. Stale' = Stale /\ \A m \in Host : Had(m)' = Had(m)
    BY <1>1, <2>1, <2>2 DEF Stale, Had
  <2>4. n = Stale
    BY <1>1, <1>6 DEF StaleInv, Emptied
  <2>5. Walked'
    BY <1>1, <1>4, <1>5, <2>1 DEF StaleInv, Walked
  <2>6. SecondSlot'
    BY <1>1, <2>2, <2>3 DEF StaleInv, SecondSlot
  <2>7. rt_len'[n] = 0
    <3>1. Len(p.list) = 0
      BY <1>6
    <3> QED BY <3>1, <1>1, <1>2
  <2>8. \A m \in Host : pc'[m] = "crashed" => pc[m] = "crashed"
    BY <1>1, <1>2
  <2>9. Emptied'
    BY <1>1, <1>3, <1>4, <2>1, <2>3, <2>4, <2>7, <2>8 DEF StaleInv, Emptied
  <2> QED BY <2>5, <2>6, <2>9 DEF StaleInv
<1>7. CASE p.list # <<>>
  <2> DEFINE k == Len(visited) + 1
  <2>1. /\ k \in 1..Len(args) /\ args[k] = p.list[1] /\ Len(args) = Len(visited) + Len(p.list)
        /\ Len(p.list) >= 2 => k < Len(args) /\ args[k + 1] = p.list[2]
        /\ Len(p.list) < 2 => ~(k < Len(args))
        /\ \A i \in 1..Len(visited) : args[i] = visited[i]
    <3>1. visited \in Seq(Addr) /\ p.list \in Seq(Addr) /\ args = visited \o p.list
      BY <1>2, <1>3
    <3> QED BY <1>7, <3>1, NextVisit
  <2>2. args[k] = n
    <3>1. Head(p.list) = p.list[1]
      BY <1>2, <1>7
    <3> HIDE DEF k
    <3> QED BY <1>2, <1>7, <2>1, <3>1
  <2>3. /\ visited' = Append(visited, n) /\ Len(visited') = k /\ visited'[k] = n
        /\ visited' # <<>>
        /\ \A i \in 1..Len(visited) : visited'[i] = visited[i]
    <3>1. visited' = Append(visited, n)
      BY <1>1, <1>7
    <3>2. /\ Len(Append(visited, n)) = Len(visited) + 1 /\ Append(visited, n) # <<>>
          /\ \A i \in 1..Len(visited) : Append(visited, n)[i] = visited[i]
          /\ Append(visited, n)[Len(visited) + 1] = n
      <4>1. visited \in Seq(Host) /\ n \in Host
        BY <1>2
      <4> QED BY <4>1, AppendProperties
    <3> QED BY <3>1, <3>2
  <2>4. k \in Nat /\ 1..k = (1..Len(visited)) \cup {k} /\ k \notin 1..Len(visited)
        /\ \A i \in 1..Len(visited) : i <= k
    <3>1. PICK d \in Nat : d = Len(visited)
      BY <1>2
    <3>2. 1..(d + 1) = (1..d) \cup {d + 1} /\ d + 1 \notin 1..d /\ \A i \in 1..d : i <= d + 1
      OBVIOUS
    <3> QED BY <3>1, <3>2
  <2> HIDE DEF k
  <2>5. /\ Len(p.list) >= 2 => Overwritten(rt_rmsg[n], p.list)[2] = p.list[2]
        /\ Len(p.list) < 2 => Overwritten(rt_rmsg[n], p.list)[2] = rt_rmsg[n][2]
    BY <1>2, SecondSlotIs
  <2>6. Walked'
    <3>1. \A i \in 1..k : visited'[i] = args[i]
      BY <2>1, <2>2, <2>3, <2>4
    <3>2. k <= Len(args)
      BY <2>1
    <3> QED BY <1>1, <1>4, <1>5, <2>3, <3>1, <3>2 DEF Walked
  <2>7. SecondSlot'
    <3>1. ASSUME NEW m \in Host PROVE Had(m)' = Had(m) \cup {i \in {k} : k < Len(args) /\ m = n}
      BY <1>1, <2>2, <2>3, <2>4 DEF Had
    <3>2. ASSUME NEW m \in Host
          PROVE  /\ Had(m)' = {} => rt_rmsg'[m][2] = stack[m]
                 /\ \A i \in Had(m)' : (\A j \in Had(m)' : j <= i) => rt_rmsg'[m][2] = args[i + 1]
      <4>1. /\ Had(m) = {} => rt_rmsg[m][2] = stack[m]
            /\ \A i \in Had(m) : (\A j \in Had(m) : j <= i) => rt_rmsg[m][2] = args[i + 1]
        BY DEF StaleInv, SecondSlot
      <4>2. CASE m = n /\ Len(p.list) >= 2
        <5>1. Had(m)' = Had(m) \cup {k} /\ k \in Had(m)'
          BY <2>1, <3>1, <4>2
        <5>2. rt_rmsg'[m][2] = args[k + 1]
          BY <1>1, <1>2, <2>1, <2>5, <4>2
        <5>3. \A i \in Had(m) : i \in 1..Len(visited)
          BY DEF Had
        <5>4. ASSUME NEW i \in Had(m)', \A j \in Had(m)' : j <= i PROVE i = k
          <6>1. k <= i
            BY <5>1, <5>4
          <6>2. i \in 1..Len(visited) \/ i = k
            BY <5>1, <5>3
          <6> QED BY <1>2, <2>4, <6>1, <6>2
        <5> QED BY <5>1, <5>2, <5>4
      <4>3. CASE m = n /\ Len(p.list) < 2
        <5>1. Had(m)' = Had(m)
          BY <2>1, <3>1, <4>3
        <5>2. rt_rmsg'[m][2] = rt_rmsg[m][2]
          BY <1>1, <1>2, <2>5, <4>3
        <5> QED BY <4>1, <5>1, <5>2
      <4>4. CASE m # n
        <5>1. Had(m)' = Had(m)
          BY <3>1, <4>4
        <5>2. rt_rmsg'[m] = rt_rmsg[m]
          BY <1>1, <1>2, <4>4
        <5> QED BY <4>1, <5>1, <5>2
      <4>5. Len(p.list) >= 2 \/ Len(p.list) < 2
        BY <1>2
      <4> QED BY <4>2, <4>3, <4>4, <4>5
    <3> QED BY <1>1, <3>2 DEF SecondSlot
  <2>8. Emptied'
    <3>1. visited # args
      <4>1. PICK l \in Nat : l = Len(p.list)
        BY <1>2
      <4>2. l # 0
        <5>1. Len(p.list) = 0 => p.list = <<>>
          BY <1>2, EmptySeq
        <5> QED BY <1>7, <4>1, <5>1
      <4>3. Len(args) # Len(visited)
        BY <1>2, <2>1, <4>1, <4>2
      <4> QED BY <4>3
    <3>2. \A m \in Host : pc'[m] # "crashed"
      BY <1>1, <1>2, <3>1 DEF StaleInv, Emptied
    <3>3. rt_len'[n] # 0
      <4>1. Len(p.list) # 0
        BY <1>2, <1>7, EmptySeq
      <4> QED BY <4>1, <1>1, <1>2
    <3> QED BY <1>3, <1>4, <2>3, <3>2, <3>3 DEF Emptied
  <2> QED BY <2>6, <2>7, <2>8 DEF StaleInv
<1> QED BY <1>6, <1>7

LEMMA StaleStep == SInv /\ StaleInv /\ SInv' /\ [Next]_vars => StaleInv'
<1> SUFFICES ASSUME SInv, StaleInv, SInv', [Next]_vars PROVE StaleInv'
  OBVIOUS
<1>1. pc \in [Host -> {"delay", "loop", "select", "exited", "crashed"}]
      /\ \A n \in Host : pc[n] \in {"delay", "select"} => ~me_flag[n]
  BY DEF SInv, Buffers, TypeOK, NothingPending
<1>2. ASSUME NEW n \in Host, StartRefused(n) \/ StartIdle(n) \/ Ping(n) \/ Wait(n)
                               \/ Alarm(n) \/ Timeout(n)
      PROVE  StaleInv'
  <2>1. ~me_flag[n] /\ UNCHANGED <<args, stack, buffer, me_flag, net, visited>>
    BY <1>1, <1>2 DEF StartRefused, StartIdle, Ping, Wait, Alarm, Timeout
  <2>2. PICK l \in {"loop", "select", "exited"} : pc' = [pc EXCEPT ![n] = l]
    BY <1>2 DEF StartRefused, StartIdle, Ping, Wait, Alarm, Timeout, Goto
  <2>3. \A m \in Host : /\ pc'[m] = "delay" => pc[m] = "delay"
                        /\ pc'[m] = "crashed" => pc[m] = "crashed"
                        /\ me_flag[m] => pc'[m] = pc[m]
    BY <1>1, <2>1, <2>2
  <2>4. \A m \in Host : Holds(m)' => Holds(m)
    BY <2>1, <2>3 DEF Holds
  <2> QED BY <2>1, <2>3, <2>4, StaleOfQuiet
<1>3. ASSUME NEW n \in Host, Crash(n) PROVE StaleInv'
  <2>1. /\ UNCHANGED <<args, stack, buffer, me_flag, net, visited>>
        /\ pc[n] = "loop" /\ pc' = [pc EXCEPT ![n] = "crashed"]
        /\ Holds(n) /\ rt_len[n] = 0
    BY <1>3 DEF Crash, Goto, Holds
  <2>2. \A m \in Host : /\ pc'[m] = "delay" => pc[m] = "delay"
                        /\ pc'[m] = "crashed" => pc[m] = "crashed" \/ (Holds(m) /\ rt_len[m] = 0)
                        /\ pc'[m] = "loop" => pc[m] = "loop"
    BY <1>1, <2>1
  <2>3. \A m \in Host : Holds(m)' => Holds(m)
    BY <2>1, <2>2 DEF Holds
  <2> QED BY <2>1, <2>2, <2>3, StaleOfQuiet
<1>4. ASSUME UNCHANGED <<args, stack, pc, buffer, me_flag, visited>>, net' \subseteq net
      PROVE  StaleInv'
  <2>1. \A m \in Host : Holds(m)' => Holds(m)
    BY <1>4 DEF Holds
  <2> QED BY <1>4, <2>1, StaleOfQuiet
<1>5. ASSUME NEW n \in Host, AlarmUnseen(n) PROVE StaleInv'
  BY <1>4, <1>5 DEF AlarmUnseen
<1>6. ASSUME NEW n \in Host, StartTour(n) PROVE StaleInv'
  BY <1>6, StaleOfStart
<1>7. ASSUME NEW n \in Host, Send(n) \/ SendNowhere(n) PROVE StaleInv'
  BY <1>7, StaleOfSend
<1>8. ASSUME NEW n \in Host, NEW p \in net, Receive(n, p) PROVE StaleInv'
  BY <1>8, StaleOfReceive
<1>9. ASSUME NEW p \in net, Lose(p) PROVE StaleInv'
  BY <1>4, <1>9 DEF Lose
<1>10. CASE UNCHANGED vars
  BY <1>4, <1>10 DEF vars
<1> QED BY <1>2, <1>3, <1>5, <1>6, <1>7, <1>8, <1>9, <1>10 DEF Next, Process

LEMMA CrashOfStale == SInv /\ StaleInv => CrashIsStale
<1> SUFFICES ASSUME SInv, StaleInv, NEW n \in Host, pc[n] = "crashed"
             PROVE  /\ visited = args
                    /\ LET last == args[Len(args)]
                           earlier == {i \in 1..(Len(args) - 1) : args[i] = last}
                       IN  n = IF earlier = {} THEN stack[last]
                               ELSE args[1 + CHOOSE i \in earlier : \A j \in earlier : j <= i]
  BY DEF CrashIsStale
<1> DEFINE last == args[Len(args)]
           earlier == {i \in 1..(Len(args) - 1) : args[i] = last}
           greatest == CHOOSE i \in earlier : \A j \in earlier : j <= i
<1>1. visited = args /\ args # <<>> /\ n = rt_rmsg[last][2] /\ visited \in Seq(Host)
  BY DEF StaleInv, Emptied, Stale, SInv, Buffers, TypeOK
<1>2. Len(args) \in Nat /\ last \in Host
  <2>1. args \in Seq(Host) /\ args # <<>>
    BY <1>1
  <2>2. Len(args) \in Nat /\ (Len(args) = 0 => args = <<>>)
    BY <2>1, EmptySeq, LenProperties
  <2>3. PICK k \in Nat : k = Len(args)
    BY <2>2
  <2>4. Len(args) \in 1..Len(args)
    BY <2>1, <2>2, <2>3
  <2> QED BY <2>1, <2>2, <2>4, ElementOfSeq
<1>3. earlier = Had(last)
  <2>1. PICK k \in Nat : k = Len(args)
    BY <1>2
  <2>2. \A i : i \in 1..(k - 1) <=> i \in 1..k /\ i < k
    OBVIOUS
  <2> QED BY <1>1, <2>1, <2>2 DEF Had
<1> HIDE DEF last
<1>4. CASE earlier = {}
  BY <1>1, <1>2, <1>3, <1>4 DEF StaleInv, SecondSlot, last
<1>5. CASE earlier # {}
  <2>1. \E i \in earlier : \A j \in earlier : j <= i
    <3>1. earlier \subseteq 0..Len(args)
      BY <1>2
    <3> HIDE DEF earlier
    <3> QED BY <1>2, <1>5, <3>1, GreatestNumber
  <2>2. greatest \in earlier /\ \A j \in earlier : j <= greatest
    BY <2>1
  <2> HIDE DEF greatest, earlier
  <2>3. rt_rmsg[last][2] = args[greatest + 1]
    BY <1>2, <1>3, <2>2 DEF StaleInv, SecondSlot
  <2>4. greatest + 1 = 1 + greatest
    <3>1. greatest \in Nat
      BY <2>2 DEF earlier
    <3> QED BY <3>1
  <2>5. n = args[1 + greatest]
    BY <1>1, <2>3, <2>4
  <2> QED BY <1>1, <1>5, <2>5 DEF last, greatest, earlier
<1> QED BY <1>4, <1>5

\* On any tour, whatever is lost and whatever the stacks hold, one process
\* crashes at most: that whose address the last stop had in its second slot,
\* from the list it was sent when it was visited before, or else from its stack
\* (ssrr_test.c 125-143, 180-204).
THEOREM CrashIsOfStale == Spec => []CrashIsStale
<1>1. Spec => []SInv
  BY SInvInit, SInvStep, PTL DEF Spec
<1>2. Init => StaleInv
  BY StaleInit
<1>3. SInv /\ StaleInv /\ SInv' /\ [Next]_vars => StaleInv'
  BY StaleStep
<1>4. SInv /\ StaleInv => CrashIsStale
  BY CrashOfStale
<1> QED BY <1>1, <1>2, <1>3, <1>4, PTL DEF Spec
===============================================================================
