------------------------------ MODULE TourProofs ------------------------------
(***************************************************************************)
(* Theorems about Tour, for every set of VMs, every command line and every *)
(* value of the limits: where the lists are, who announces the end of a    *)
(* tour, that the program implements TourService, which answers a node     *)
(* reads, whom it pings, and that an end is the last thing it says.  Then  *)
(* about TimedTour, which is Tour with clocks: that in a Calm run no       *)
(* member leaves before it has heard the end of a tour, and that every     *)
(* member identifies itself.                                               *)
(***************************************************************************)
EXTENDS TimedTour, ListLemmas

USE DEF local, network, history

\* What a command line that names VMs only makes of the list.
LEMMA StartList ==
  ASSUME NEW n \in Node, TypeOK, Starter(n),
         \A i \in DOMAIN argv[n] : argv[n][i] # BadName, NEW junk \in Addr
  PROVE  LET l == Compose(<<n>> \o argv[n], junk)
         IN  l \in Seq(Addr) /\ Len(l) >= 2 /\ l[1] = n
<1>1. argv[n] \in Seq(Node \cup {BadName})
  BY LaunchAssumption DEF TypeOK, Argv
<1>2. argv[n] \in Seq(Addr) /\ Len(argv[n]) >= 2
  BY <1>1 DEF Starter, Addr
<1>3. /\ <<n>> \o argv[n] \in Seq(Addr)
      /\ Len(<<n>> \o argv[n]) >= 3
      /\ (<<n>> \o argv[n])[1] = n
  BY <1>2 DEF Addr
<1> QED BY <1>3, ComposeProperties

LEMMA TypeStep ==
  ASSUME TypeOK, RouteIntact, [Next]_vars
  PROVE  TypeOK'
<1> USE DEF Goto
<1>1. ASSUME NEW n \in Node, Launch(n) PROVE TypeOK'
  BY <1>1 DEF TypeOK, Launch
<1>2. ASSUME NEW n \in Node, StartIdle(n) PROVE TypeOK'
  <2>1. InitialMaxFd \in Nat
    BY FdAssumption DEF InitialMaxFd, Raised
  <2> QED BY <1>2, <2>1 DEF TypeOK, StartIdle, AfterDelay
<1>3. ASSUME NEW n \in Node, StartTour(n) PROVE TypeOK'
  <2>1. InitialMaxFd \in Nat
    BY FdAssumption DEF InitialMaxFd, Raised
  <2>2. PICK junk \in Addr :
          LET l == Compose(<<n>> \o argv[n], junk)
          IN  /\ rt_rmsg' = [rt_rmsg EXCEPT ![n] = [tour |-> n, list |-> l]]
              /\ plan' = [plan EXCEPT ![n] = l]
    BY <1>3 DEF StartTour
  <2>3. Compose(<<n>> \o argv[n], junk) \in Seq(Addr)
    BY <1>3, StartList DEF StartTour
  <2>4. rt_rmsg' \in [Node -> List] /\ plan' \in [Node -> Seq(Addr)]
    BY <2>2, <2>3 DEF TypeOK, List
  <2>5. visited' \in [Node -> Seq(Addr)]
    BY <1>3 DEF StartTour, TypeOK, Addr
  <2> QED BY <1>3, <2>1, <2>4, <2>5 DEF TypeOK, StartTour, AfterDelay
<1>4. ASSUME NEW n \in Node, StartRefused(n) PROVE TypeOK'
  BY <1>4 DEF TypeOK, StartRefused, AfterDelay
<1>5. ASSUME NEW n \in Node, Forward(n) PROVE TypeOK'
  <2> DEFINE l == rt_rmsg[n].list
             p == [src |-> Head(l), tour |-> rt_rmsg[n].tour, list |-> Rest(l)]
  <2>1. l \in Seq(Addr) /\ Len(l) >= 2
    BY <1>5 DEF Forward, RouteIntact, HolderIntact, TypeOK, List
  <2>2. Head(l) \in Addr /\ Tail(l) \in Seq(Addr)
    BY <2>1
  <2>3. p \in Packet
    BY <2>2 DEF TypeOK, Rest, Packet, List
  <2>4. route' \in SUBSET Packet
    BY <1>5, <2>3, SMTT(20) DEF Forward, TypeOK
  <2>5. pc' \in [Node -> {"down", "delay", "loop", "select", "exited"}]
    <3>1. \/ pc' = pc
          \/ \E to \in {"loop", "exited"} : pc' = [pc EXCEPT ![n] = to]
      BY <1>5, Zenon DEF Forward
    <3> QED BY <3>1 DEF TypeOK
  <2>6. /\ UNCHANGED <<argv, rt_rmsg, join_mcast_triflag, recv_flag, ping_flag, ping_cnt,
                       ping_stop, ping_list, alarm, max_fd, mcastq, mishaps, history>>
        /\ me_flag' = [me_flag EXCEPT ![n] = FALSE]
    BY <1>5 DEF Forward, Sent
  <2>7. me_flag' \in [Node -> BOOLEAN]
    BY <2>6 DEF TypeOK
  <2>8. /\ argv' \in Launches /\ rt_rmsg' \in [Node -> List]
        /\ join_mcast_triflag' \in [Node -> {0, 1, 255}]
        /\ recv_flag' \in [Node -> BOOLEAN] /\ ping_flag' \in [Node -> BOOLEAN]
        /\ ping_cnt' \in [Node -> Nat] /\ ping_stop' \in [Node -> Nat]
        /\ ping_list' \in [Node -> Seq(Addr)] /\ alarm' \in [Node -> BOOLEAN]
        /\ max_fd' \in [Node -> Nat] /\ mcastq' \in [Node -> Seq(McastMsg)]
        /\ mishaps' \in Nat
    BY <2>6 DEF TypeOK
  <2>9. /\ plan' \in [Node -> Seq(Addr)] /\ visited' \in [Node -> Seq(Addr)]
        /\ final' \in [Node -> BOOLEAN] /\ ended' \in [Node -> Nat]
        /\ heard' \in [Node -> SUBSET Node]
    BY <2>6 DEF TypeOK
  <2> QED BY <2>4, <2>5, <2>7, <2>8, <2>9, Zenon DEF TypeOK
<1>6. ASSUME NEW n \in Node, JoinGroup(n) PROVE TypeOK'
  BY <1>6, FdAssumption, SMTT(20) DEF TypeOK, JoinGroup, Raised
<1>7. ASSUME NEW n \in Node, Ping(n) PROVE TypeOK'
  BY <1>7 DEF TypeOK, Ping, SetAlarm
<1>8. ASSUME NEW n \in Node, Wait(n) PROVE TypeOK'
  BY <1>8 DEF TypeOK, Wait
<1>9. ASSUME NEW n \in Node, NEW p \in route, ReceiveRoute(n, p) PROVE TypeOK'
  <2>1. p \in Packet
    BY DEF TypeOK
  <2>2. PingInsert(ping_list[n], p.src) \in Seq(Addr)
    <3>1. ping_list[n] \in Seq(Addr) /\ p.src \in Addr
      BY <2>1 DEF TypeOK, Packet
    <3> QED BY ONLY <3>1 DEF PingInsert
  <2>3. ping_list' \in [Node -> Seq(Addr)]
    BY <1>9, <2>2 DEF ReceiveRoute, TypeOK
  <2>4. visited' \in [Node -> Seq(Addr)]
    <3>1. Append(visited[p.tour], n) \in Seq(Addr)
      BY <2>1, SMTT(20) DEF TypeOK, Packet, Addr
    <3>2. visited' = [visited EXCEPT ![p.tour] = Append(@, n)] /\ visited \in [Node -> Seq(Addr)]
      BY <1>9 DEF ReceiveRoute, TypeOK
    <3> QED BY ONLY <3>1, <3>2
  <2>5. rt_rmsg' \in [Node -> List] /\ route' \in SUBSET Packet
    BY <1>9, <2>1 DEF ReceiveRoute, TypeOK, List, Packet
  <2>6. /\ ping_stop' \in [Node -> Nat]
        /\ final' \in [Node -> BOOLEAN]
        /\ me_flag' \in [Node -> BOOLEAN]
    <3>0. /\ ping_stop \in [Node -> Nat] /\ final \in [Node -> BOOLEAN]
          /\ me_flag \in [Node -> BOOLEAN]
      BY DEF TypeOK
    <3>1. CASE LastStop(p.list)
      <4>1. StopAt(n) \in Nat
        BY NumberAssumption DEF TypeOK, StopAt
      <4>2. /\ ping_stop' = [ping_stop EXCEPT ![n] = StopAt(n)]
            /\ final' = [final EXCEPT ![n] = TRUE]
            /\ me_flag' = me_flag
        BY <1>9, <3>1, Zenon DEF ReceiveRoute
      <4> QED BY ONLY <3>0, <4>1, <4>2
    <3>2. CASE ~LastStop(p.list)
      <4>1. /\ me_flag' = [me_flag EXCEPT ![n] = TRUE]
            /\ ping_stop' = ping_stop /\ final' = final
        BY <1>9, <3>2, Zenon DEF ReceiveRoute
      <4> QED BY ONLY <3>0, <4>1
    <3> QED BY <3>1, <3>2
  <2>7. /\ UNCHANGED <<argv, recv_flag, ping_cnt, alarm, max_fd, mcastq, mishaps, plan,
                       ended, heard>>
        /\ pc' = [pc EXCEPT ![n] = "loop"] /\ ping_flag' = [ping_flag EXCEPT ![n] = TRUE]
    BY <1>9 DEF ReceiveRoute, StartPinging, Goto
  <2>8. join_mcast_triflag' \in [Node -> {0, 1, 255}]
    <3>1. join_mcast_triflag \in [Node -> {0, 1, 255}]
      BY DEF TypeOK
    <3>2. join_mcast_triflag' =
            [join_mcast_triflag EXCEPT ![n] = IF @ # 255 THEN 1 ELSE @]
      BY <1>9 DEF ReceiveRoute
    <3> QED BY ONLY <3>1, <3>2
  <2>9. pc' \in [Node -> {"down", "delay", "loop", "select", "exited"}]
        /\ ping_flag' \in [Node -> BOOLEAN]
    <3>1. pc \in [Node -> {"down", "delay", "loop", "select", "exited"}]
          /\ ping_flag \in [Node -> BOOLEAN]
      BY DEF TypeOK
    <3> QED BY ONLY <2>7, <3>1
  <2>10. /\ argv' \in Launches /\ recv_flag' \in [Node -> BOOLEAN]
         /\ ping_cnt' \in [Node -> Nat] /\ alarm' \in [Node -> BOOLEAN]
         /\ max_fd' \in [Node -> Nat] /\ mcastq' \in [Node -> Seq(McastMsg)]
         /\ mishaps' \in Nat /\ plan' \in [Node -> Seq(Addr)]
         /\ ended' \in [Node -> Nat] /\ heard' \in [Node -> SUBSET Node]
    BY <2>7 DEF TypeOK
  <2> QED BY <2>3, <2>4, <2>5, <2>6, <2>8, <2>9, <2>10, Zenon DEF TypeOK
<1>10. ASSUME NEW n \in Node, ForeignPacket(n) PROVE TypeOK'
  BY <1>10 DEF TypeOK, ForeignPacket
<1>11. ASSUME NEW n \in Node, ReadPing(n) PROVE TypeOK'
  BY <1>11 DEF TypeOK, ReadPing
<1>12. ASSUME NEW n \in Node, NEW m \in McastMsg, NEW q \in [Node -> Seq(McastMsg)]
       PROVE  Multicast(n, m, q) \in [Node -> Seq(McastMsg)]
  BY DEF Multicast
<1>13. ASSUME NEW n \in Node, ReceiveMcast(n) PROVE TypeOK'
  <2> DEFINE m == Head(mcastq[n])
             rest == [mcastq EXCEPT ![n] = Tail(@)]
  <2>1. m \in McastMsg /\ rest \in [Node -> Seq(McastMsg)]
    BY <1>13 DEF ReceiveMcast, TypeOK
  <2>2. Answer(n, m, rest) \in [Node -> Seq(McastMsg)]
    <3>1. [type |-> "identify", from |-> n] \in McastMsg
      BY DEF McastMsg
    <3> QED BY <2>1, <3>1, <1>12 DEF Answer
  <2>3. mcastq' \in [Node -> Seq(McastMsg)]
    BY <1>13, <2>2 DEF ReceiveMcast
  <2>4. heard' \in [Node -> SUBSET Node]
    <3>1. m.from \in Node
      BY <2>1 DEF McastMsg
    <3>2. \E h \in SUBSET Node : heard' = [heard EXCEPT ![n] = h]
      BY <1>13, <3>1, ZenonT(30) DEF ReceiveMcast, TypeOK
    <3> QED BY <3>2, SMTT(20) DEF TypeOK
  <2> QED BY <1>13, <2>3, <2>4 DEF TypeOK, ReceiveMcast
<1>14. ASSUME NEW n \in Node, AlarmOnTime(n) PROVE TypeOK'
  <2>1. [type |-> "end", from |-> n] \in McastMsg
    BY DEF McastMsg
  <2>2. mcastq' \in [Node -> Seq(McastMsg)] /\ ended' \in [Node -> Nat]
    <3>1. CASE EndDue(n)
      <4>1. /\ mcastq' = Multicast(n, [type |-> "end", from |-> n], mcastq)
            /\ ended' = [ended EXCEPT ![n] = @ + 1]
        BY <1>14, <3>1, Zenon DEF AlarmOnTime
      <4>2. mcastq' \in [Node -> Seq(McastMsg)]
        BY <4>1, <2>1, <1>12 DEF TypeOK
      <4> QED BY <4>1, <4>2 DEF TypeOK
    <3>2. CASE ~EndDue(n)
      BY <1>14, <3>2 DEF AlarmOnTime, TypeOK
    <3> QED BY <3>1, <3>2
  <2>3. ping_flag' \in [Node -> BOOLEAN]
    BY <1>14 DEF AlarmOnTime, FlagAfterAlarm, EndDue, TypeOK
  <2> QED BY <1>14, <2>2, <2>3 DEF TypeOK, AlarmOnTime
<1>15. ASSUME NEW n \in Node, AlarmInLoop(n) PROVE TypeOK'
  BY <1>15 DEF TypeOK, AlarmInLoop
<1>16. ASSUME NEW n \in Node, AlarmTooEarly(n) PROVE TypeOK'
  BY <1>16 DEF TypeOK, AlarmTooEarly
<1>17. ASSUME NEW n \in Node, Timeout(n) PROVE TypeOK'
  <2>1. mcastq' \in [Node -> Seq(McastMsg)] 
    BY <1>17 DEF TypeOK, Timeout
  <2> QED BY <2>1, <1>17 DEF TypeOK, Timeout
<1>18. ASSUME Network PROVE TypeOK'
  <2>1. ASSUME NEW p \in route, LoseRoute(p) PROVE TypeOK'
    BY <2>1 DEF TypeOK, LoseRoute
  <2>2. ASSUME NEW p \in route, RouteUnclaimed(p) PROVE TypeOK'
    BY <2>2 DEF TypeOK, RouteUnclaimed
  <2>3. ASSUME NEW n \in Node, LoseMcast(n) PROVE TypeOK'
    <3>1. mcastq' \in [Node -> Seq(McastMsg)]
      <4>1. mcastq[n] # <<>> /\ mcastq[n] \in Seq(McastMsg)
        BY <2>3 DEF TypeOK, LoseMcast
      <4>2. Tail(mcastq[n]) \in Seq(McastMsg)
        BY <4>1
      <4> QED BY <2>3, <4>2 DEF TypeOK, LoseMcast
    <3>2. UNCHANGED <<argv, pc, local, route, history>> /\ mishaps' = mishaps + 1
      BY <2>3 DEF LoseMcast
    <3> QED BY <3>1, <3>2 DEF TypeOK
  <2> QED BY <1>18, <2>1, <2>2, <2>3, Zenon DEF Network
<1>19. CASE UNCHANGED vars
  BY <1>19 DEF TypeOK, vars
<1> QED
  BY <1>1, <1>2, <1>3, <1>4, <1>5, <1>6, <1>7, <1>8, <1>9, <1>10, <1>11,
     <1>13, <1>14, <1>15, <1>16, <1>17, <1>18, <1>19 DEF Next, Process, Finished

(***************************************************************************)
(* The lists.  Only StartTour, Forward, ReceiveRoute and the two ways a    *)
(* packet vanishes touch what the invariants are about.                    *)
(***************************************************************************)
lists == <<me_flag, rt_rmsg, route, plan, visited>>

LEMMA OthersKeepLists ==
  ASSUME NEW n \in Node,
         \/ Launch(n) \/ StartIdle(n) \/ StartRefused(n) \/ JoinGroup(n)
         \/ Ping(n) \/ Wait(n) \/ ForeignPacket(n) \/ ReadPing(n)
         \/ ReceiveMcast(n) \/ AlarmOnTime(n) \/ AlarmInLoop(n)
         \/ AlarmTooEarly(n) \/ Timeout(n) \/ LoseMcast(n)
  PROVE  UNCHANGED lists
BY DEF lists, Launch, StartIdle, StartRefused, JoinGroup, Ping, Wait,
       ForeignPacket, ReadPing, ReceiveMcast, AlarmOnTime, AlarmInLoop,
       AlarmTooEarly, Timeout, LoseMcast

LEMMA PendingStep ==
  ASSUME TypeOK, NothingPending, RouteIntact, [Next]_vars
  PROVE  NothingPending'
<1> USE DEF Goto
<1>1. ASSUME NEW n \in Node, Launch(n) \/ StartIdle(n) \/ StartRefused(n)
      PROVE  NothingPending'
  <2>1. UNCHANGED lists
    BY <1>1, OthersKeepLists
  <2>2. \E to \in {"delay", "loop", "exited"} : pc' = [pc EXCEPT ![n] = to]
    BY <1>1 DEF Launch, StartIdle, StartRefused, AfterDelay
  <2>3. pc[n] \in {"down", "delay"}
    BY <1>1 DEF Launch, StartIdle, StartRefused, AfterDelay
  <2> QED BY <2>1, <2>2, <2>3 DEF TypeOK, NothingPending, lists
<1>2. ASSUME NEW n \in Node, StartTour(n) PROVE NothingPending'
  <2>1. /\ pc' = [pc EXCEPT ![n] = "loop"]
        /\ \A m \in Node \ {n} : /\ plan'[m] = plan[m] /\ visited'[m] = visited[m]
                                 /\ me_flag'[m] = me_flag[m]
    BY <1>2 DEF TypeOK, StartTour, AfterDelay
  <2> QED BY <2>1 DEF TypeOK, NothingPending
<1>3. ASSUME NEW n \in Node, Forward(n) PROVE NothingPending'
  <2>1. /\ me_flag' = [me_flag EXCEPT ![n] = FALSE]
        /\ UNCHANGED <<plan, visited>>
    BY <1>3 DEF Forward, Sent
  <2>2. /\ pc[n] = "loop"
        /\ \/ pc' = pc
           \/ \E to \in {"loop", "exited"} : pc' = [pc EXCEPT ![n] = to]
    BY <1>3, Zenon DEF Forward
  <2>3. /\ \A m \in Node \ {n} : pc'[m] = pc[m] /\ me_flag'[m] = me_flag[m]
        /\ pc'[n] \in {"loop", "exited"} /\ ~me_flag'[n]
    BY <2>1, <2>2 DEF TypeOK
  <2> QED BY <2>1, <2>3 DEF NothingPending
<1>4. ASSUME NEW n \in Node, Ping(n) \/ Wait(n) PROVE NothingPending'
  <2>1. ~me_flag[n] /\ pc' = [pc EXCEPT ![n] = "select"] /\ UNCHANGED lists
    BY <1>4, OthersKeepLists DEF Ping, Wait, ReadyToPing
  <2> QED BY <2>1 DEF TypeOK, NothingPending, lists
<1>5. ASSUME NEW n \in Node, NEW p \in route, ReceiveRoute(n, p)
      PROVE  NothingPending'
  <2>1. p.tour \in Node /\ visited[p.tour] # <<>>
    BY DEF TypeOK, RouteIntact, PacketIntact, Packet
  <2>2. /\ pc' = [pc EXCEPT ![n] = "loop"] /\ UNCHANGED plan
        /\ visited' = [visited EXCEPT ![p.tour] = Append(@, n)]
    BY <1>5 DEF ReceiveRoute
  <2>3. \A m \in Node \ {n} : me_flag'[m] = me_flag[m]
    BY <1>5, SMTT(20) DEF ReceiveRoute, TypeOK
  <2>4. pc[n] = "select"
    BY <1>5 DEF ReceiveRoute
  <2> QED BY <2>1, <2>2, <2>3, <2>4 DEF TypeOK, NothingPending
<1>6. ASSUME NEW n \in Node,
             \/ ForeignPacket(n) \/ ReadPing(n) \/ ReceiveMcast(n)
             \/ AlarmOnTime(n) \/ Timeout(n)
      PROVE  NothingPending'
  <2>1. UNCHANGED lists
    BY <1>6, OthersKeepLists
  <2>2. \E to \in {"loop", "exited"} : pc' = [pc EXCEPT ![n] = to]
    BY <1>6 DEF ForeignPacket, ReadPing, ReceiveMcast, AlarmOnTime, Timeout
  <2> QED BY <2>1, <2>2 DEF TypeOK, NothingPending, lists
<1>7. ASSUME NEW n \in Node,
             JoinGroup(n) \/ AlarmInLoop(n) \/ AlarmTooEarly(n) \/ LoseMcast(n)
      PROVE  NothingPending'
  <2>1. UNCHANGED lists
    BY <1>7, OthersKeepLists
  <2>2. UNCHANGED pc
    BY <1>7 DEF JoinGroup, AlarmInLoop, AlarmTooEarly, LoseMcast
  <2> QED BY <2>1, <2>2 DEF NothingPending, lists
<1>8. ASSUME NEW p \in route, LoseRoute(p) \/ RouteUnclaimed(p)
      PROVE  NothingPending'
  BY <1>8 DEF NothingPending, LoseRoute, RouteUnclaimed
<1>9. CASE UNCHANGED vars
  BY <1>9 DEF NothingPending, vars
<1> QED
  BY <1>1, <1>2, <1>3, <1>4, <1>5, <1>6, <1>7, <1>8, <1>9
     DEF Next, Process, Network, Finished

\* Striking the first stop off what is left adds it to what has been walked.
LEMMA StrikeOff ==
  ASSUME NEW S, NEW v \in Seq(S), NEW l \in Seq(S), l # <<>>
  PROVE  /\ v \o l = Append(v, Head(l)) \o Tail(l)
         /\ Append(v, Head(l)) # <<>>
         /\ Append(v, Head(l))[Len(Append(v, Head(l)))] = Head(l)
<1>1. Head(l) = l[1] /\ Tail(l) \in Seq(S) /\ Len(Tail(l)) = Len(l) - 1
      /\ \A i \in 1..Len(Tail(l)) : Tail(l)[i] = l[i + 1]
  BY HeadTailProperties
<1>2. /\ Append(v, Head(l)) \in Seq(S) /\ Len(Append(v, Head(l))) = Len(v) + 1
      /\ \A i \in 1..(Len(v) + 1) :
            Append(v, Head(l))[i] = IF i = Len(v) + 1 THEN Head(l) ELSE v[i]
  BY <1>1
<1>3. Len(v) \in Nat /\ Len(l) \in Nat \ {0}
  BY EmptySeq, LenProperties
<1> DEFINE a == Append(v, Head(l))
           t == Tail(l)
<1>4. /\ v \o l \in Seq(S) /\ Len(v \o l) = Len(v) + Len(l)
      /\ \A i \in 1..(Len(v) + Len(l)) :
            (v \o l)[i] = IF i <= Len(v) THEN v[i] ELSE l[i - Len(v)]
  BY ConcatProperties
<1>5. /\ a \o t \in Seq(S) /\ Len(a \o t) = Len(a) + Len(t)
      /\ \A i \in 1..(Len(a) + Len(t)) :
            (a \o t)[i] = IF i <= Len(a) THEN a[i] ELSE t[i - Len(a)]
  BY <1>1, <1>2, ConcatProperties
<1>6. /\ Len(a) = Len(v) + 1 /\ a[Len(v) + 1] = l[1]
      /\ \A i \in 1..Len(v) : a[i] = v[i]
      /\ Len(t) = Len(l) - 1 /\ \A i \in 1..(Len(l) - 1) : t[i] = l[i + 1]
  BY <1>1, <1>2, <1>3
<1> HIDE DEF a, t
<1>7. ASSUME NEW i \in 1..(Len(v) + Len(l)) PROVE (v \o l)[i] = (a \o t)[i]
  <2>1. i \in Nat
    BY <1>3
  <2>2. CASE i <= Len(v)
    BY <1>3, <1>4, <1>5, <1>6, <2>2
  <2>3. CASE i = Len(v) + 1
    BY <1>3, <1>4, <1>5, <1>6, <2>3
  <2>4. CASE i > Len(v) + 1
    <3>1. (a \o t)[i] = t[i - (Len(v) + 1)]
      BY <1>3, <1>5, <1>6, <2>4
    <3>2. i - (Len(v) + 1) \in 1..(Len(l) - 1)
      BY <1>3, <2>1, <2>4
    <3>3. t[i - (Len(v) + 1)] = l[(i - (Len(v) + 1)) + 1]
      BY <3>2, <1>6
    <3>4. (i - (Len(v) + 1)) + 1 = i - Len(v)
      BY <1>3, <2>1
    <3>5. (v \o l)[i] = l[i - Len(v)]
      BY <1>3, <1>4, <2>1, <2>4
    <3> QED BY <3>1, <3>3, <3>4, <3>5
  <2>5. i <= Len(v) \/ i = Len(v) + 1 \/ i > Len(v) + 1
    BY ONLY <1>3, <2>1
  <2> QED BY <2>2, <2>3, <2>4, <2>5
<1>8. Len(v \o l) = Len(a \o t)
  BY <1>3, <1>4, <1>5, <1>6
<1>9. v \o l = a \o t
  BY <1>4, <1>5, <1>8, <1>7, SeqEqual
<1>10. a # <<>> /\ a[Len(a)] = Head(l)
  <2>1. a[Len(a)] = Head(l)
    BY <1>1, <1>6
  <2>2. Len(a) # 0
    BY <1>3, <1>6
  <2> QED BY <2>1, <2>2, EmptySeq
<1> QED BY <1>9, <1>10 DEF a, t

\* A list of two stops or more has a first stop and some to go.
LEMMA TwoStops ==
  ASSUME NEW S, NEW l \in Seq(S), Len(l) >= 2
  PROVE  Head(l) = l[1] /\ Head(l) \in S /\ Tail(l) \in Seq(S) /\ Tail(l) # <<>>
<1>1. l # <<>> /\ Len(l) \in Nat
  BY EmptySeq, LenProperties
<1>2. Head(l) = l[1] /\ Head(l) \in S /\ Tail(l) \in Seq(S) /\ Len(Tail(l)) = Len(l) - 1
  BY <1>1, HeadTailProperties
<1>3. Tail(l) # <<>>
  <2> DEFINE t == Tail(l)
  <2>1. Len(t) = Len(l) - 1
    BY <1>2
  <2> HIDE DEF t
  <2>2. Len(t) # 0
    BY <1>1, <2>1
  <2>3. t # <<>>
    BY <2>2, EmptySeq
  <2> QED BY <2>3 DEF t
<1> QED BY <1>2, <1>3

LEMMA CustodyOfStart ==
  ASSUME CustodyInv, NEW n \in Node, StartTour(n)
  PROVE  RouteIntact' /\ OneCustodian'
<1>1. PICK junk \in Addr :
        LET l == Compose(<<n>> \o argv[n], junk)
        IN  /\ rt_rmsg' = [rt_rmsg EXCEPT ![n] = [tour |-> n, list |-> l]]
            /\ plan' = [plan EXCEPT ![n] = l]
  BY DEF StartTour
<1> DEFINE l == Compose(<<n>> \o argv[n], junk)
<1>2. l \in Seq(Addr) /\ Len(l) >= 2 /\ l[1] = n
  BY StartList DEF StartTour, CustodyInv
<1>3. /\ rt_rmsg' = [rt_rmsg EXCEPT ![n] = [tour |-> n, list |-> l]]
      /\ plan' = [plan EXCEPT ![n] = l]
      /\ visited' = [visited EXCEPT ![n] = <<n>>]
      /\ me_flag' = [me_flag EXCEPT ![n] = TRUE]
      /\ route' = route
  BY <1>1 DEF StartTour
<1> HIDE DEF l
<1>4. visited[n] = <<>> /\ ~me_flag[n]
  BY DEF CustodyInv, NothingPending, StartTour, AfterDelay, Goto
<1>5. ASSUME NEW p \in route PROVE p.tour \in Node \ {n}
  BY <1>4 DEF CustodyInv, RouteIntact, PacketIntact, TypeOK, Packet
<1>6. ASSUME NEW m \in Node, me_flag[m] PROVE m # n /\ rt_rmsg[m].tour \in Node \ {n}
  <2>1. visited[rt_rmsg[m].tour] # <<>>
    BY <1>6 DEF CustodyInv, RouteIntact, HolderIntact
  <2>2. rt_rmsg[m].tour \in Node
    BY DEF CustodyInv, TypeOK, List
  <2> QED BY <1>4, <1>6, <2>1, <2>2
<1>7. rt_rmsg'[n].tour = n /\ rt_rmsg'[n].list = l /\ me_flag'[n]
  BY <1>3 DEF CustodyInv, TypeOK
<1>8. \A m \in Node \ {n} : rt_rmsg'[m] = rt_rmsg[m] /\ me_flag'[m] = me_flag[m]
                            /\ plan'[m] = plan[m] /\ visited'[m] = visited[m]
  BY <1>3 DEF CustodyInv, TypeOK
<1>9. plan'[n] = l /\ visited'[n] = <<n>>
  BY <1>3 DEF CustodyInv, TypeOK
<1>10. l = <<n>> \o Tail(l)
  <2>1. l # <<>> /\ Head(l) = n
    BY <1>2
  <2>2. l = Append(<<>>, n) \o Tail(l)
    BY <1>2, <2>1, StrikeOff, ConcatEmptySeq, EmptySeq
  <2> QED BY <2>2
<1>11. RouteIntact'
  <2>1. ASSUME NEW p \in route' PROVE PacketIntact(p)'
    <3>1. p \in route /\ p.tour \in Node \ {n}
      BY <1>3, <1>5
    <3>2. PacketIntact(p)
      BY <3>1 DEF CustodyInv, RouteIntact
    <3> QED BY <3>1, <3>2, <1>8 DEF PacketIntact
  <2>2. ASSUME NEW m \in Node, me_flag'[m] PROVE HolderIntact(m)'
    <3>1. CASE m = n
      BY <3>1, <1>2, <1>7, <1>9, <1>10 DEF HolderIntact
    <3>2. CASE m # n
      <4>1. me_flag[m] /\ rt_rmsg[m].tour \in Node \ {n} /\ rt_rmsg'[m] = rt_rmsg[m]
        BY <2>2, <3>2, <1>6, <1>8
      <4>2. HolderIntact(m)
        BY <4>1 DEF CustodyInv, RouteIntact
      <4> QED BY <4>1, <4>2, <1>8, ZenonT(30) DEF HolderIntact
    <3> QED BY <3>1, <3>2
  <2> QED BY <2>1, <2>2 DEF RouteIntact
<1>12. OneCustodian'
  BY <1>3, <1>5, <1>6, <1>7, <1>8 DEF CustodyInv, OneCustodian, Holder
<1> QED BY <1>11, <1>12

LEMMA CustodyOfForward ==
  ASSUME CustodyInv, NEW n \in Node, Forward(n)
  PROVE  RouteIntact' /\ OneCustodian'
<1> DEFINE l == rt_rmsg[n].list
           t == rt_rmsg[n].tour
           p == [src |-> Head(l), tour |-> t, list |-> Tail(l)]
<1>1. /\ route' \in {route, route \cup {p}}
      /\ me_flag' = [me_flag EXCEPT ![n] = FALSE]
      /\ UNCHANGED <<rt_rmsg, plan, visited>>
  BY DEF Forward, Rest, Sent
<1>2. /\ me_flag[n] /\ t \in Node /\ l \in Seq(Addr) /\ Len(l) >= 2 /\ l[1] = n
      /\ visited[t] # <<>> /\ visited[t][Len(visited[t])] = n
      /\ plan[t] = visited[t] \o Tail(l)
  BY DEF Forward, CustodyInv, RouteIntact, HolderIntact, TypeOK, List
<1>3. Tail(l) # <<>> /\ Head(l) = n
  BY <1>2, TwoStops
<1>4. p.tour = t /\ p.list = Tail(l) /\ p.src = n
  BY <1>3
<1> HIDE DEF l, t, p
<1>5. \A m \in Node : me_flag'[m] => m # n /\ me_flag[m]
  BY <1>1 DEF CustodyInv, TypeOK
<1>6. RouteIntact'
  <2>1. ASSUME NEW q \in route' PROVE PacketIntact(q)'
    <3>1. CASE q \in route
      BY <3>1, <1>1 DEF CustodyInv, RouteIntact, PacketIntact
    <3>2. CASE q = p
      BY <3>2, <1>1, <1>2, <1>3, <1>4 DEF PacketIntact
    <3> QED BY <1>1, <3>1, <3>2
  <2>2. ASSUME NEW m \in Node, me_flag'[m] PROVE HolderIntact(m)'
    BY <2>2, <1>1, <1>5 DEF CustodyInv, RouteIntact, HolderIntact
  <2> QED BY <2>1, <2>2 DEF RouteIntact
<1>7. OneCustodian'
  <2>1. Holder(n, t)
    BY <1>2 DEF Holder, t
  <2>2. ASSUME NEW m \in Node, NEW u \in Node, Holder(m, u)'
        PROVE  m # n /\ u # t /\ Holder(m, u)
    <3>1. m # n /\ Holder(m, u)
      BY <2>2, <1>1, <1>5 DEF Holder
    <3> QED BY <3>1, <2>1, <1>2 DEF CustodyInv, OneCustodian
  <2>3. ASSUME NEW q \in route PROVE q.tour # t
    BY <2>1, <1>2 DEF CustodyInv, OneCustodian
  <2>4. ASSUME NEW u \in Node, NEW q1 \in route', NEW q2 \in route',
               q1.tour = u, q2.tour = u
        PROVE  q1 = q2
    BY <2>3, <2>4, <1>1, <1>4 DEF CustodyInv, OneCustodian
  <2>5. ASSUME NEW u \in Node, NEW m1 \in Node, NEW m2 \in Node,
               Holder(m1, u)', Holder(m2, u)'
        PROVE  m1 = m2
    BY <2>2, <2>5 DEF CustodyInv, OneCustodian
  <2>6. ASSUME NEW u \in Node, NEW q \in route', NEW m \in Node, q.tour = u
        PROVE  ~Holder(m, u)'
    BY <2>2, <2>6, <1>1, <1>4 DEF CustodyInv, OneCustodian
  <2> QED BY <2>4, <2>5, <2>6 DEF OneCustodian
<1> QED BY <1>6, <1>7

LEMMA CustodyOfReceive ==
  ASSUME CustodyInv, NEW n \in Node, NEW p \in route, ReceiveRoute(n, p)
  PROVE  RouteIntact' /\ OneCustodian'
<1> DEFINE l == p.list
           t == p.tour
           v == visited[t]
<1>1. /\ t \in Node /\ l \in Seq(Addr) /\ v \in Seq(Addr) /\ l # <<>>
      /\ plan[t] = v \o l /\ Head(l) = n
  BY DEF ReceiveRoute, CustodyInv, RouteIntact, PacketIntact, TypeOK, Packet
<1>2. /\ route' = route \ {p}
      /\ rt_rmsg' = [rt_rmsg EXCEPT ![n] = [tour |-> t, list |-> l]]
      /\ visited' = [visited EXCEPT ![t] = Append(@, n)]
      /\ UNCHANGED plan
  BY DEF ReceiveRoute
<1>3. me_flag' = IF LastStop(l) THEN me_flag ELSE [me_flag EXCEPT ![n] = TRUE]
  BY Zenon DEF ReceiveRoute
<1>4. ~me_flag[n]
  BY DEF ReceiveRoute, Goto, CustodyInv, NothingPending
<1>5. me_flag'[n] => Len(l) >= 2
  <2>1. Len(l) \in Nat
    BY <1>1
  <2> QED BY <1>3, <1>4, <2>1 DEF LastStop
<1>6. /\ visited'[t] = Append(v, n)
      /\ \A u \in Node \ {t} : visited'[u] = visited[u]
  BY <1>1, <1>2, SMTT(20) DEF CustodyInv, TypeOK
<1>7. /\ rt_rmsg'[n].tour = t /\ rt_rmsg'[n].list = l
      /\ \A m \in Node \ {n} : rt_rmsg'[m] = rt_rmsg[m] /\ me_flag'[m] = me_flag[m]
  BY <1>2, <1>3 DEF CustodyInv, TypeOK
<1>8. \A q \in route' : q \in route /\ q.tour # t /\ q.tour \in Node
  BY <1>1, <1>2 DEF CustodyInv, OneCustodian, TypeOK, Packet
<1>9. \A m \in Node : me_flag[m] => rt_rmsg[m].tour \in Node \ {t}
  BY <1>1 DEF CustodyInv, OneCustodian, Holder, TypeOK, List
<1>10. /\ plan[t] = Append(v, n) \o Tail(l)
       /\ Append(v, n) # <<>>
       /\ Append(v, n)[Len(Append(v, n))] = n
  BY <1>1, StrikeOff
<1> HIDE DEF l, t, v
<1>11. RouteIntact'
  <2>1. ASSUME NEW q \in route' PROVE PacketIntact(q)'
    <3>1. PacketIntact(q)
      BY <1>8 DEF CustodyInv, RouteIntact
    <3> QED BY <3>1, <1>2, <1>6, <1>8 DEF PacketIntact
  <2>2. ASSUME NEW m \in Node, me_flag'[m] PROVE HolderIntact(m)'
    <3>1. CASE m = n
      <4>1. l[1] = n
        BY <1>1
      <4>2. Len(l) >= 2
        BY <2>2, <3>1, <1>5
      <4>3. plan'[t] = Append(v, n) \o Tail(l)
        BY <1>2, <1>10
      <4>4. HolderIntact(n)'
        BY <4>1, <4>2, <4>3, <1>6, <1>7, <1>10 DEF HolderIntact
      <4> QED BY <3>1, <4>4
    <3>2. CASE m # n
      <4>1. /\ me_flag[m] /\ rt_rmsg'[m] = rt_rmsg[m]
            /\ rt_rmsg[m].tour \in Node \ {t}
        BY <2>2, <3>2, <1>7, <1>9
      <4>2. HolderIntact(m)
        BY <4>1 DEF CustodyInv, RouteIntact
      <4> QED BY <4>1, <4>2, <1>2, <1>6 DEF HolderIntact
    <3> QED BY <3>1, <3>2
  <2> QED BY <2>1, <2>2 DEF RouteIntact
<1>12. OneCustodian'
  <2>1. ASSUME NEW m \in Node, NEW u \in Node, Holder(m, u)'
        PROVE  \/ m = n /\ u = t
               \/ m # n /\ u # t /\ Holder(m, u)
    <3>1. CASE m = n
      BY <3>1, <2>1, <1>7 DEF Holder
    <3>2. CASE m # n
      <4>1. rt_rmsg'[m] = rt_rmsg[m] /\ me_flag'[m] = me_flag[m]
        BY <3>2, <1>7
      <4> QED BY <2>1, <3>2, <4>1, <1>9 DEF Holder
    <3> QED BY <3>1, <3>2
  <2> QED BY <2>1, <1>8 DEF CustodyInv, OneCustodian
<1> QED BY <1>11, <1>12

LEMMA CustodyStep ==
  ASSUME CustodyInv, [Next]_vars
  PROVE  RouteIntact' /\ OneCustodian'
<1>1. ASSUME UNCHANGED lists PROVE RouteIntact' /\ OneCustodian'
  <2>1. RouteIntact'
    BY <1>1 DEF lists, CustodyInv, RouteIntact, PacketIntact, HolderIntact
  <2>2. OneCustodian'
    BY <1>1 DEF lists, CustodyInv, OneCustodian, Holder
  <2> QED BY <2>1, <2>2
<1>2. ASSUME NEW p \in route, LoseRoute(p) \/ RouteUnclaimed(p)
      PROVE  RouteIntact' /\ OneCustodian'
  <2>1. route' \subseteq route /\ UNCHANGED <<me_flag, rt_rmsg, plan, visited>>
    BY <1>2 DEF LoseRoute, RouteUnclaimed
  <2>2. RouteIntact'
    BY <2>1 DEF CustodyInv, RouteIntact, PacketIntact, HolderIntact
  <2>3. OneCustodian'
    BY <2>1 DEF CustodyInv, OneCustodian, Holder
  <2> QED BY <2>2, <2>3
<1>3. CASE UNCHANGED vars
  BY <1>1, <1>3 DEF vars, lists
<1> QED
  BY <1>1, <1>2, <1>3, OthersKeepLists, CustodyOfStart, CustodyOfForward,
     CustodyOfReceive DEF Next, Process, Network, Finished

LEMMA CustodyInit == Init => CustodyInv
BY NumberAssumption DEF Init, CustodyInv, TypeOK, NothingPending, RouteIntact,
   OneCustodian, Holder, List, Addr

\* The lists are intact in every reachable state: what is on its way is what
\* is left of the composed list, and it is in one place.
THEOREM ListsAreIntact == Spec => []CustodyInv
<1>1. CustodyInv /\ [Next]_vars => CustodyInv'
  BY TypeStep, PendingStep, CustodyStep DEF CustodyInv
<1> QED BY <1>1, CustodyInit, PTL DEF Spec

\* Every variable keeps its type.
THEOREM TypeCorrect == Spec => []TypeOK
BY ListsAreIntact, PTL DEF CustodyInv

\* No stop of a tour is skipped, repeated or reordered.
THEOREM StopsInOrder == Spec => []RouteIntact
BY ListsAreIntact, PTL DEF CustodyInv

\* A tour is in one place at most.
THEOREM OnePlace == Spec => []OneCustodian
BY ListsAreIntact, PTL DEF CustodyInv

(***************************************************************************)
(* Who announces the end of a tour.                                        *)
(***************************************************************************)
\* One stop more of a walk is the next prefix of the plan.
LEMMA NextPrefix ==
  ASSUME NEW S, NEW v \in Seq(S), NEW l \in Seq(S), l # <<>>
  PROVE  /\ Append(v, Head(l)) = SubSeq(v \o l, 1, Len(v) + 1)
         /\ Len(v) + 1 <= Len(v \o l)
         /\ (v \o l)[Len(v) + 1] = Head(l)
<1> DEFINE a == Append(v, Head(l))
           t == Tail(l)
<1>1. v \o l = a \o t
  BY StrikeOff
<1>2. Head(l) \in S /\ t \in Seq(S)
  BY HeadTailProperties
<1>3. a \in Seq(S) /\ Len(a) = Len(v) + 1 /\ a[Len(v) + 1] = Head(l)
  BY <1>2
<1>4. Len(v) \in Nat /\ Len(t) \in Nat
  BY <1>2, LenProperties
<1> HIDE DEF a, t
<1>5. /\ Len(a \o t) = Len(a) + Len(t)
      /\ \A i \in 1..(Len(a) + Len(t)) :
            (a \o t)[i] = IF i <= Len(a) THEN a[i] ELSE t[i - Len(a)]
  BY <1>2, <1>3, ConcatProperties
<1>6. SubSeq(a \o t, 1, Len(a)) = a
  <2>1. 1 \in 1..Len(a) /\ Len(a) \in 1..Len(a)
    BY <1>3, <1>4
  <2>2. SubSeq(a \o t, 1, Len(a)) = SubSeq(a, 1, Len(a))
    BY <2>1, <1>2, <1>3, SubSeqOfConcat1
  <2> QED BY <2>2, <1>3, SubSeqFull
<1>7. (a \o t)[Len(v) + 1] = Head(l)
  BY <1>3, <1>4, <1>5
<1> QED BY <1>1, <1>3, <1>4, <1>5, <1>6, <1>7 DEF a

LEMMA LongerThanPrefix ==
  ASSUME NEW S, NEW v \in Seq(S), NEW l \in Seq(S), l # <<>>
  PROVE  v \o l # v
<1>1. Len(v) \in Nat
  BY LenProperties
<1>2. Len(v) + 1 <= Len(v \o l)
  BY NextPrefix
<1>3. ASSUME v \o l = v PROVE FALSE
  <2>1. Len(v) + 1 <= Len(v)
    BY <1>2, <1>3
  <2> QED BY <2>1, <1>1
<1> QED BY <1>3

\* The steps that leave the abstract lists, or the pings, or the ends alone.
LEMMA OthersKeepPlans ==
  ASSUME NEW n \in Node,
         \/ Launch(n) \/ StartIdle(n) \/ StartRefused(n) \/ Forward(n)
         \/ JoinGroup(n) \/ Ping(n) \/ Wait(n) \/ ForeignPacket(n)
         \/ ReadPing(n) \/ ReceiveMcast(n) \/ AlarmOnTime(n) \/ AlarmInLoop(n)
         \/ AlarmTooEarly(n) \/ Timeout(n) \/ LoseMcast(n)
  PROVE  UNCHANGED <<plan, visited>>
<1>1. CASE Forward(n)
  BY <1>1 DEF Forward
<1>2. CASE ~Forward(n)
  BY <1>2, OthersKeepLists DEF lists
<1> QED BY <1>1, <1>2

ends == <<ping_cnt, ping_stop, final, ended>>

LEMMA OthersKeepEnds ==
  ASSUME NEW n \in Node,
         \/ Launch(n) \/ StartIdle(n) \/ StartTour(n) \/ StartRefused(n)
         \/ Forward(n) \/ JoinGroup(n) \/ Wait(n) \/ ForeignPacket(n)
         \/ ReadPing(n) \/ ReceiveMcast(n) \/ AlarmInLoop(n)
         \/ AlarmTooEarly(n) \/ Timeout(n) \/ LoseMcast(n)
  PROVE  UNCHANGED ends
BY DEF ends, Launch, StartIdle, StartTour, StartRefused, Forward, JoinGroup,
       Wait, ForeignPacket, ReadPing, ReceiveMcast, AlarmInLoop, AlarmTooEarly,
       Timeout, LoseMcast

\* A packet that is received takes its tour one stop on.
LEMMA ReceiveAdvances ==
  ASSUME CustodyInv, NEW n \in Node, NEW p \in route, ReceiveRoute(n, p)
  PROVE  LET t == p.tour
             v == visited[t]
         IN  /\ t \in Node /\ v \in Seq(Addr) /\ v # <<>> /\ p.list \in Seq(Addr)
             /\ p.list # <<>> /\ plan[t] = v \o p.list /\ Head(p.list) = n
             /\ visited' = [visited EXCEPT ![t] = Append(v, n)]
             /\ plan' = plan
<1>1. PacketIntact(p) /\ p \in Packet /\ visited \in [Node -> Seq(Addr)]
  BY DEF CustodyInv, RouteIntact, TypeOK
<1> QED BY <1>1 DEF ReceiveRoute, PacketIntact, Packet

LEMMA CompletedStays ==
  ASSUME CustodyInv, [Next]_vars, NEW t \in Node, Completed(t)
  PROVE  plan'[t] = plan[t] /\ visited'[t] = visited[t]
<1>1. ASSUME NEW n \in Node, StartTour(n)
      PROVE  plan'[t] = plan[t] /\ visited'[t] = visited[t]
  <2>1. plan[n] = <<>>
    BY <1>1 DEF CustodyInv, NothingPending, StartTour, AfterDelay, Goto
  <2>2. t # n
    BY <2>1 DEF Completed
  <2> QED BY <1>1, <2>2 DEF StartTour, CustodyInv, TypeOK
<1>2. ASSUME NEW n \in Node, NEW p \in route, ReceiveRoute(n, p)
      PROVE  plan'[t] = plan[t] /\ visited'[t] = visited[t]
  <2>1. t # p.tour
    <3>1. /\ visited[p.tour] \in Seq(Addr) /\ p.list \in Seq(Addr)
          /\ p.list # <<>> /\ plan[p.tour] = visited[p.tour] \o p.list
      BY <1>2, ReceiveAdvances
    <3>2. visited[p.tour] \o p.list # visited[p.tour]
      BY <3>1, LongerThanPrefix
    <3> QED BY <3>1, <3>2 DEF Completed
  <2>2. /\ p.tour \in Node /\ plan' = plan
        /\ visited' = [visited EXCEPT ![p.tour] = Append(visited[p.tour], n)]
    BY <1>2, ReceiveAdvances
  <2> QED BY <2>1, <2>2 DEF CustodyInv, TypeOK
<1>3. ASSUME NEW p \in route, LoseRoute(p) \/ RouteUnclaimed(p)
      PROVE  plan'[t] = plan[t] /\ visited'[t] = visited[t]
  BY <1>3 DEF LoseRoute, RouteUnclaimed
<1>4. CASE UNCHANGED vars
  BY <1>4 DEF vars
<1> QED
  BY <1>1, <1>2, <1>3, <1>4, OthersKeepPlans
     DEF Next, Process, Network, Finished

LEMMA EndOfStays ==
  ASSUME CustodyInv, [Next]_vars, NEW n \in Node, EndOf(n)
  PROVE  EndOf(n)'
<1>1. PICK t \in Node : Completed(t) /\ plan[t][Len(plan[t])] = n
  BY DEF EndOf
<1>2. plan'[t] = plan[t] /\ visited'[t] = visited[t]
  BY <1>1, CompletedStays
<1> QED BY <1>1, <1>2 DEF EndOf, Completed

\* The node that finds one address in the list ends that tour.
LEMMA LastStopCompletes ==
  ASSUME CustodyInv, NEW n \in Node, NEW p \in route, ReceiveRoute(n, p),
         LastStop(p.list)
  PROVE  p.tour \in Node /\ Completed(p.tour)' /\ plan'[p.tour][Len(plan'[p.tour])] = n
<1> DEFINE t == p.tour
           v == visited[t]
<1>1. /\ t \in Node /\ v \in Seq(Addr) /\ p.list \in Seq(Addr) /\ p.list # <<>>
      /\ plan[t] = v \o p.list /\ Head(p.list) = n /\ plan' = plan
      /\ visited' = [visited EXCEPT ![t] = Append(v, n)]
  BY ReceiveAdvances
<1>2. Len(p.list) = 1
  <2> DEFINE k == Len(p.list)
  <2>1. k \in Nat \ {0} /\ k < 2
    BY <1>1, EmptySeq DEF LastStop
  <2> HIDE DEF k
  <2>2. k = 1
    BY <2>1
  <2> QED BY <2>2 DEF k
<1>3. /\ v \o p.list = Append(v, n) \o Tail(p.list)
      /\ Append(v, n) # <<>> /\ Append(v, n)[Len(Append(v, n))] = n
  BY <1>1, StrikeOff
<1>4. Tail(p.list) = <<>>
  <2>1. Tail(p.list) \in Seq(Addr) /\ Len(Tail(p.list)) = Len(p.list) - 1
    BY <1>1, HeadTailProperties
  <2>2. Len(Tail(p.list)) = 0
    BY <1>2, <2>1
  <2> QED BY <2>1, <2>2, EmptySeq
<1>5. Append(v, n) \in Seq(Addr)
  BY <1>1 DEF Addr
<1>6. plan[t] = Append(v, n)
  BY <1>1, <1>3, <1>4, <1>5, ConcatEmptySeq
<1>7. visited'[t] = Append(v, n)
  BY <1>1 DEF CustodyInv, TypeOK
<1>8. Completed(t)' /\ plan'[t][Len(plan'[t])] = n
  BY <1>1, <1>3, <1>6, <1>7 DEF Completed
<1> QED BY <1>1, <1>8

LEMMA LastStopEnds ==
  ASSUME CustodyInv, NEW n \in Node, NEW p \in route, ReceiveRoute(n, p),
         LastStop(p.list)
  PROVE  EndOf(n)'
BY LastStopCompletes DEF EndOf

LEMMA EndStep ==
  ASSUME CustodyInv, EndInv, [Next]_vars
  PROVE  EndInv'
<1>1. \A n \in Node : EndOf(n) => EndOf(n)'
  BY EndOfStays
<1>2. ASSUME UNCHANGED ends PROVE EndInv'
  BY <1>1, <1>2 DEF EndInv, EndIsEarned, Announced, GaveUp, ends
<1>3. ASSUME NEW n \in Node, Ping(n) PROVE EndInv'
  <2>1. /\ ping_cnt' = [ping_cnt EXCEPT ![n] = @ + 1]
        /\ UNCHANGED <<ping_stop, final, ended>>
    BY <1>3 DEF Ping
  <2>2. \A m \in Node : m \in GaveUp => m \in GaveUp'
    BY <2>1, NumberAssumption DEF GaveUp, CustodyInv, TypeOK
  <2> QED BY <1>1, <2>1, <2>2 DEF EndInv, EndIsEarned, Announced
<1>4. ASSUME NEW n \in Node, NEW p \in route, ReceiveRoute(n, p) PROVE EndInv'
  <2>1. UNCHANGED <<ping_cnt, ended>>
    BY <1>4 DEF ReceiveRoute
  <2>2. EndIsEarned'
    BY <1>1, <2>1 DEF EndInv, EndIsEarned, Announced, GaveUp
  <2>3. CASE LastStop(p.list)
    <3>1. final' = [final EXCEPT ![n] = TRUE]
          /\ ping_stop' = [ping_stop EXCEPT ![n] = StopAt(n)]
      BY <1>4, <2>3, Zenon DEF ReceiveRoute
    <3>2. EndOf(n)'
      BY <1>4, <2>3, LastStopEnds
    <3> QED BY <1>1, <2>2, <3>1, <3>2, SMTT(20) DEF EndInv, CustodyInv, TypeOK
  <2>4. CASE ~LastStop(p.list)
    <3>1. UNCHANGED <<ping_stop, final>>
      BY <1>4, <2>4, Zenon DEF ReceiveRoute
    <3> QED BY <1>1, <2>2, <3>1 DEF EndInv
  <2> QED BY <2>3, <2>4
<1>5. ASSUME NEW n \in Node, AlarmOnTime(n) PROVE EndInv'
  <2>1. UNCHANGED <<ping_cnt, ping_stop, final>>
    BY <1>5 DEF AlarmOnTime
  <2>2. CASE EndDue(n)
    <3>1. ended' = [ended EXCEPT ![n] = @ + 1]
      BY <1>5, <2>2, Zenon DEF AlarmOnTime
    <3>2. n \in GaveUp \/ EndOf(n)
      BY <2>2 DEF EndDue, EndInv, GaveUp
    <3>3. \A m \in Node \ {n} : ended'[m] = ended[m]
      BY <3>1 DEF CustodyInv, TypeOK
    <3> QED BY <1>1, <2>1, <3>2, <3>3 DEF EndInv, EndIsEarned, Announced, GaveUp
  <2>3. CASE ~EndDue(n)
    <3>1. UNCHANGED ended
      BY <1>5, <2>3, Zenon DEF AlarmOnTime
    <3> QED BY <1>2, <2>1, <3>1 DEF ends
  <2> QED BY <2>2, <2>3
<1>6. ASSUME NEW p \in route, LoseRoute(p) \/ RouteUnclaimed(p) PROVE EndInv'
  BY <1>2, <1>6 DEF LoseRoute, RouteUnclaimed, ends
<1>7. CASE UNCHANGED vars
  BY <1>2, <1>7 DEF vars, ends
<1> QED
  BY <1>2, <1>3, <1>4, <1>5, <1>6, <1>7, OthersKeepEnds
     DEF Next, Process, Network, Finished

LEMMA EndInit == Init => EndInv
BY DEF Init, EndInv, EndIsEarned, Announced

\* The end is announced by the last stop of a completed tour, or by a node
\* that pinged more than TO_EXIT times.
THEOREM EndsAreEarned == Spec => []EndIsEarned
<1>1. CustodyInv /\ EndInv /\ [Next]_vars => EndInv'
  BY EndStep
<1>2. EndInv => EndIsEarned
  BY DEF EndInv
<1> QED BY <1>1, <1>2, EndInit, ListsAreIntact, PTL DEF Spec

(***************************************************************************)
(* The refinement, step by step.                                           *)
(***************************************************************************)
LEMMA InitImplements == Init => Service!Init
BY NumberAssumption DEF Init, Service!Init, Announced, GaveUp

LEMMA StutterUnlessEnds ==
  ASSUME UNCHANGED <<plan, visited>>, UNCHANGED ends
  PROVE  UNCHANGED Service!vars
BY DEF ends, Service!vars, Announced, GaveUp

LEMMA StepImplements ==
  ASSUME CustodyInv, EndInv, [Next]_vars
  PROVE  [Service!Next]_(Service!vars)
<1>1. ASSUME NEW n \in Node, StartTour(n) PROVE Service!Start(n)
  <2>1. PICK junk \in Addr :
          plan' = [plan EXCEPT ![n] = Compose(<<n>> \o argv[n], junk)]
    BY <1>1 DEF StartTour
  <2> DEFINE l == Compose(<<n>> \o argv[n], junk)
  <2>2. l \in Seq(Addr) /\ Len(l) >= 2 /\ l[1] = n
    BY <1>1, StartList DEF StartTour, CustodyInv
  <2>3. plan[n] = <<>>
    BY <1>1 DEF CustodyInv, NothingPending, StartTour, AfterDelay, Goto
  <2> HIDE DEF l
  <2>4. plan' = [plan EXCEPT ![n] = l]
    BY <2>1 DEF l
  <2>5. plan'[n] = l
    BY <2>4 DEF CustodyInv, TypeOK
  <2>6. visited' = [visited EXCEPT ![n] = <<n>>]
    BY <1>1 DEF StartTour
  <2>7. Announced' = Announced /\ GaveUp' = GaveUp
    BY <1>1, OthersKeepEnds DEF ends, Announced, GaveUp
  <2> QED BY <2>2, <2>3, <2>4, <2>5, <2>6, <2>7 DEF Service!Start
<1>2. ASSUME NEW n \in Node, NEW p \in route, ReceiveRoute(n, p)
      PROVE  p.tour \in Node /\ Service!Reach(p.tour)
  <2> DEFINE t == p.tour
             v == visited[t]
  <2>1. /\ t \in Node /\ v \in Seq(Addr) /\ v # <<>> /\ p.list \in Seq(Addr)
        /\ p.list # <<>> /\ plan[t] = v \o p.list /\ Head(p.list) = n
        /\ visited' = [visited EXCEPT ![t] = Append(v, n)] /\ plan' = plan
    BY <1>2, ReceiveAdvances
  <2>2. /\ Append(v, n) = SubSeq(plan[t], 1, Len(v) + 1)
        /\ Len(v) + 1 <= Len(plan[t])
        /\ plan[t][Len(v) + 1] = n
    BY <2>1, NextPrefix, ZenonT(30)
  <2>3. Len(v) \in Nat \ {0} /\ Len(plan[t]) \in Nat
    BY <2>1, EmptySeq, LenProperties DEF CustodyInv, TypeOK
  <2> HIDE DEF t, v
  <2>4. Len(v) \in 1..(Len(plan[t]) - 1)
    BY <2>2, <2>3
  <2>5. Announced' = Announced /\ GaveUp' = GaveUp
    BY <1>2 DEF ReceiveRoute, Announced, GaveUp
  <2>6. visited' = [visited EXCEPT ![t] = SubSeq(plan[t], 1, Len(visited[t]) + 1)]
    BY <2>1, <2>2 DEF v
  <2>7. Service!Reach(t)
    BY <2>1, <2>2, <2>4, <2>5, <2>6 DEF Service!Reach, v
  <2> QED BY <2>1, <2>7 DEF t
<1>3. ASSUME NEW n \in Node, Ping(n) PROVE Service!GiveUp(n) \/ UNCHANGED Service!vars
  <2>1. /\ ping_cnt' = [ping_cnt EXCEPT ![n] = @ + 1]
        /\ UNCHANGED <<plan, visited, ended>>
    BY <1>3 DEF Ping
  <2>2. GaveUp' = GaveUp \/ GaveUp' = GaveUp \cup {n}
    BY <2>1, NumberAssumption, SMTT(20) DEF GaveUp, CustodyInv, TypeOK
  <2> QED BY <2>1, <2>2 DEF Service!GiveUp, Service!vars, Announced
<1>4. ASSUME NEW n \in Node, AlarmOnTime(n)
      PROVE  Service!Announce(n) \/ UNCHANGED Service!vars
  <2>1. UNCHANGED <<plan, visited, ping_cnt, ping_stop, final>>
    BY <1>4 DEF AlarmOnTime
  <2>2. CASE EndDue(n)
    <3>1. ended' = [ended EXCEPT ![n] = @ + 1]
      BY <1>4, <2>2, Zenon DEF AlarmOnTime
    <3>2. n \in GaveUp \/ EndOf(n)
      BY <2>2 DEF EndDue, EndInv, GaveUp
    <3>3. n \in GaveUp \/ \E t \in Node : Service!Completed(t) /\ Service!LastStop(t) = n
      BY <3>2 DEF EndOf, Completed, Service!Completed, Service!LastStop
    <3>4. Announced' = Announced \cup {n}
      BY <3>1, SMTT(20) DEF Announced, CustodyInv, TypeOK
    <3> QED BY <2>1, <3>3, <3>4 DEF Service!Announce, GaveUp
  <2>3. CASE ~EndDue(n)
    <3>1. UNCHANGED ended
      BY <1>4, <2>3, Zenon DEF AlarmOnTime
    <3> QED BY <2>1, <3>1, StutterUnlessEnds DEF ends
  <2> QED BY <2>2, <2>3
<1>5. ASSUME NEW p \in route, LoseRoute(p) \/ RouteUnclaimed(p)
      PROVE  UNCHANGED Service!vars
  BY <1>5, StutterUnlessEnds DEF LoseRoute, RouteUnclaimed, ends
<1>6. CASE UNCHANGED vars
  BY <1>6, StutterUnlessEnds DEF vars, ends
<1>7. ASSUME NEW n \in Node,
             \/ Launch(n) \/ StartIdle(n) \/ StartRefused(n) \/ Forward(n)
             \/ JoinGroup(n) \/ Wait(n) \/ ForeignPacket(n) \/ ReadPing(n)
             \/ ReceiveMcast(n) \/ AlarmInLoop(n) \/ AlarmTooEarly(n)
             \/ Timeout(n) \/ LoseMcast(n)
      PROVE  UNCHANGED Service!vars
  BY <1>7, OthersKeepPlans, OthersKeepEnds, StutterUnlessEnds
<1> QED
  BY <1>1, <1>2, <1>3, <1>4, <1>5, <1>6, <1>7
     DEF Next, Process, Network, Finished, Service!Next

\* The program implements the abstract tour.
THEOREM TourImplementsService == Spec => Implements
<1>1. CustodyInv /\ EndInv /\ [Next]_vars => EndInv'
  BY EndStep
<1>2. CustodyInv /\ EndInv /\ [Next]_vars => [Service!Next]_(Service!vars)
  BY StepImplements
<1> QED
  BY <1>1, <1>2, InitImplements, EndInit, ListsAreIntact, PTL
     DEF Spec, Implements, Service!Spec

(***************************************************************************)
(* The descriptors that select() looks at.                                 *)
(***************************************************************************)
\* Only the group's socket raises max_fd for good, and a node that pings, or
\* has an alarm to come, has been told to join.
WatchOf(n) ==
  /\ IF join_mcast_triflag[n] = 255 THEN max_fd[n] = McastFd + 1
                                    ELSE max_fd[n] <= PingFd + 1
  /\ pc[n] \in {"down", "delay"} => join_mcast_triflag[n] = 0
  /\ ping_flag[n] \/ alarm[n] => join_mcast_triflag[n] # 0
  /\ ping_cnt[n] > 0 => join_mcast_triflag[n] = 255

WatchInv == \A n \in Node : WatchOf(n)

\* The two tests of tour.c 131-132 leave one or both of the sockets out.
LEMMA InitialWatch == InitialMaxFd \in Nat /\ InitialMaxFd <= PingFd + 1
BY FdAssumption DEF InitialMaxFd, Raised

watched == <<join_mcast_triflag, max_fd, ping_cnt>>

LEMMA WatchStep ==
  ASSUME TypeOK, WatchInv, [Next]_vars
  PROVE  WatchInv'
<1> USE DEF Goto
<1>1. ASSUME UNCHANGED watched,
             \A m \in Node : pc'[m] \in {"down", "delay"} => pc[m] \in {"down", "delay"},
             \A m \in Node : ping_flag'[m] \/ alarm'[m] =>
                               ping_flag[m] \/ alarm[m] \/ join_mcast_triflag[m] # 0
      PROVE  WatchInv'
  BY <1>1 DEF WatchInv, WatchOf, watched
<1>2. ASSUME UNCHANGED <<pc, local>> PROVE WatchInv'
  BY <1>2 DEF WatchInv, WatchOf
<1>0. ASSUME NEW m \in Node, pc'[m] = pc[m], join_mcast_triflag'[m] = join_mcast_triflag[m],
             max_fd'[m] = max_fd[m], ping_cnt'[m] = ping_cnt[m],
             ping_flag'[m] = ping_flag[m], alarm'[m] = alarm[m]
      PROVE  WatchOf(m)'
  BY <1>0 DEF WatchInv, WatchOf
<1>3. ASSUME NEW n \in Node, Launch(n) \/ StartRefused(n) \/ Wait(n) \/ ForeignPacket(n)
                               \/ ReadPing(n) \/ Timeout(n)
      PROVE  WatchInv'
  <2>1. UNCHANGED local
    BY <1>3 DEF Launch, StartRefused, Wait, ForeignPacket, ReadPing, Timeout
  <2>2. \E to \in {"delay", "loop", "select", "exited"} :
          pc' = [pc EXCEPT ![n] = to] /\ (to = "delay" => pc[n] = "down")
    BY <1>3 DEF Launch, StartRefused, Wait, ForeignPacket, ReadPing, Timeout, AfterDelay
  <2> QED BY <2>1, <2>2, <1>1, SMTT(20) DEF watched, TypeOK
<1>4. ASSUME NEW n \in Node, StartIdle(n) \/ StartTour(n) PROVE WatchInv'
  <2>1. /\ pc[n] = "delay" /\ pc' = [pc EXCEPT ![n] = "loop"]
        /\ max_fd' = [max_fd EXCEPT ![n] = InitialMaxFd]
        /\ \/ join_mcast_triflag' = join_mcast_triflag
           \/ join_mcast_triflag' = [join_mcast_triflag EXCEPT ![n] = 1]
        /\ UNCHANGED <<ping_flag, ping_cnt, alarm>>
    BY <1>4 DEF StartIdle, StartTour, AfterDelay
  <2>2. join_mcast_triflag[n] = 0 /\ ~(ping_cnt[n] > 0) /\ ~ping_flag[n] /\ ~alarm[n]
    BY <2>1 DEF WatchInv, WatchOf
  <2>3. WatchOf(n)'
    <3>1. /\ pc'[n] = "loop" /\ max_fd'[n] = InitialMaxFd
          /\ join_mcast_triflag'[n] \in {0, 1}
          /\ ping_flag'[n] = ping_flag[n] /\ alarm'[n] = alarm[n] /\ ping_cnt'[n] = ping_cnt[n]
      BY <2>1, <2>2 DEF TypeOK
    <3>2. ~ping_flag'[n] /\ ~alarm'[n] /\ ~(ping_cnt'[n] > 0)
      BY <2>2, <3>1
    <3> QED BY <3>1, <3>2, InitialWatch DEF WatchOf
  <2>4. ASSUME NEW m \in Node \ {n} PROVE WatchOf(m)'
    BY <2>1, <1>0, SMTT(20) DEF TypeOK
  <2> QED BY <2>3, <2>4 DEF WatchInv
<1>5. ASSUME NEW n \in Node, Forward(n) PROVE WatchInv'
  <2>1. UNCHANGED <<watched, ping_flag, alarm>>
    BY <1>5 DEF Forward, watched
  <2>2. \/ pc' = pc
        \/ \E to \in {"loop", "exited"} : pc' = [pc EXCEPT ![n] = to]
    BY <1>5, Zenon DEF Forward
  <2> QED BY <2>1, <2>2, <1>1 DEF TypeOK
<1>6. ASSUME NEW n \in Node, JoinGroup(n) PROVE WatchInv'
  <2>1. /\ pc' = pc /\ UNCHANGED <<ping_flag, ping_cnt, alarm>>
        /\ join_mcast_triflag[n] = 1 /\ pc[n] = "loop"
        /\ join_mcast_triflag' = [join_mcast_triflag EXCEPT ![n] = 255]
        /\ max_fd' = [max_fd EXCEPT ![n] = Raised(max_fd[n], McastFd)]
    BY <1>6 DEF JoinGroup
  <2>2. max_fd[n] <= PingFd + 1 /\ max_fd[n] \in Nat
    BY <2>1 DEF WatchInv, WatchOf, TypeOK
  <2>3. Raised(max_fd[n], McastFd) = McastFd + 1
    BY <2>2, FdAssumption DEF Raised
  <2>4. ASSUME NEW m \in Node \ {n} PROVE WatchOf(m)'
    BY <2>1, <1>0 DEF TypeOK
  <2>5. WatchOf(n)'
    <3>1. pc'[n] = "loop" /\ max_fd'[n] = McastFd + 1 /\ join_mcast_triflag'[n] = 255
      BY <2>1, <2>3 DEF TypeOK
    <3> QED BY <3>1 DEF WatchOf
  <2> QED BY <2>4, <2>5 DEF WatchInv
<1>7. ASSUME NEW n \in Node, Ping(n) PROVE WatchInv'
  <2>1. /\ pc[n] = "loop" /\ pc' = [pc EXCEPT ![n] = "select"]
        /\ join_mcast_triflag[n] # 1 /\ ping_flag[n]
        /\ ping_flag' = [ping_flag EXCEPT ![n] = FALSE]
        /\ ping_cnt' = [ping_cnt EXCEPT ![n] = ping_cnt[n] + 1]
        /\ alarm' = [alarm EXCEPT ![n] = TRUE]
        /\ UNCHANGED <<join_mcast_triflag, max_fd>>
    BY <1>7 DEF Ping, SetAlarm, ReadyToPing
  <2>2. join_mcast_triflag[n] = 255
    BY <2>1 DEF WatchInv, WatchOf, TypeOK
  <2>3. WatchOf(n)'
    <3>1. pc'[n] = "select" /\ join_mcast_triflag'[n] = 255 /\ max_fd'[n] = max_fd[n]
      BY <2>1, <2>2 DEF TypeOK
    <3>2. max_fd[n] = McastFd + 1
      BY <2>2 DEF WatchInv, WatchOf
    <3> QED BY <3>1, <3>2 DEF WatchOf
  <2>4. ASSUME NEW m \in Node \ {n} PROVE WatchOf(m)'
    BY <2>1, <1>0 DEF TypeOK
  <2> QED BY <2>3, <2>4 DEF WatchInv
<1>8. ASSUME NEW n \in Node, NEW p \in route, ReceiveRoute(n, p) PROVE WatchInv'
  <2>1. /\ pc[n] = "select" /\ pc' = [pc EXCEPT ![n] = "loop"]
        /\ ping_flag' = [ping_flag EXCEPT ![n] = TRUE]
        /\ join_mcast_triflag' = [join_mcast_triflag EXCEPT ![n] =
                                    IF join_mcast_triflag[n] # 255 THEN 1
                                    ELSE join_mcast_triflag[n]]
        /\ UNCHANGED <<ping_cnt, alarm, max_fd>>
    BY <1>8 DEF ReceiveRoute, StartPinging
  <2>2. ASSUME NEW m \in Node \ {n} PROVE WatchOf(m)'
    <3>1. /\ pc'[m] = pc[m] /\ ping_flag'[m] = ping_flag[m]
          /\ ping_cnt'[m] = ping_cnt[m] /\ alarm'[m] = alarm[m] /\ max_fd'[m] = max_fd[m]
      BY <2>1 DEF TypeOK
    <3>2. join_mcast_triflag'[m] = join_mcast_triflag[m]
      BY <2>1 DEF TypeOK
    <3> QED BY <3>1, <3>2, <1>0
  <2>3. WatchOf(n)'
    <3>1. /\ pc'[n] = "loop" /\ max_fd'[n] = max_fd[n] /\ ping_cnt'[n] = ping_cnt[n]
          /\ join_mcast_triflag'[n] = IF join_mcast_triflag[n] # 255 THEN 1 ELSE 255
      BY <2>1 DEF TypeOK
    <3>2. WatchOf(n)
      BY DEF WatchInv
    <3> QED BY <3>1, <3>2 DEF WatchOf
  <2> QED BY <2>2, <2>3 DEF WatchInv
<1>9. ASSUME NEW n \in Node, ReceiveMcast(n) PROVE WatchInv'
  <2>1. /\ pc[n] = "select" /\ pc' = [pc EXCEPT ![n] = "loop"]
        /\ ping_flag' = [ping_flag EXCEPT ![n] = FALSE]
        /\ UNCHANGED <<watched, alarm>>
    BY <1>9 DEF ReceiveMcast, watched
  <2> QED BY <2>1, <1>1 DEF TypeOK
<1>10. ASSUME NEW n \in Node, AlarmOnTime(n) \/ AlarmInLoop(n) \/ AlarmTooEarly(n)
       PROVE  WatchInv'
  <2>1. /\ alarm[n] /\ alarm' = [alarm EXCEPT ![n] = FALSE]
        /\ \E b \in BOOLEAN : ping_flag' = [ping_flag EXCEPT ![n] = b]
        /\ UNCHANGED watched
        /\ pc' = pc \/ pc' = [pc EXCEPT ![n] = "loop"]
    <3>1. FlagAfterAlarm(n) \in BOOLEAN
      BY DEF FlagAfterAlarm
    <3> QED BY <1>10, <3>1 DEF AlarmOnTime, AlarmInLoop, AlarmTooEarly, watched
  <2>2. join_mcast_triflag[n] # 0
    BY <2>1 DEF WatchInv, WatchOf
  <2> QED BY <2>1, <2>2, <1>1, SMTT(20) DEF TypeOK
<1>11. ASSUME NEW p \in route, LoseRoute(p) \/ RouteUnclaimed(p) PROVE WatchInv'
  BY <1>2, <1>11 DEF LoseRoute, RouteUnclaimed
<1>12. ASSUME NEW n \in Node, LoseMcast(n) PROVE WatchInv'
  BY <1>2, <1>12 DEF LoseMcast
<1>13. CASE UNCHANGED vars
  BY <1>2, <1>13 DEF vars
<1> QED
  BY <1>3, <1>4, <1>5, <1>6, <1>7, <1>8, <1>9, <1>10, <1>11, <1>12, <1>13
     DEF Next, Process, Network, Finished

LEMMA WatchHolds == Spec => []WatchInv
<1>1. Init => WatchInv
  BY FdAssumption DEF Init, WatchInv, WatchOf
<1>2. TypeOK /\ WatchInv /\ [Next]_vars => WatchInv'
  BY WatchStep
<1> QED BY <1>1, <1>2, TypeCorrect, PTL DEF Spec

\* Every node that has pinged reads the answers and the multicasts, whatever
\* descriptors its sockets were given (tour.c 131-132, 158, 165).
THEOREM AnswersReachTheirReader == Spec => []AnswersAreRead
<1>1. WatchInv => AnswersAreRead
  BY FdAssumption DEF WatchInv, WatchOf, AnswersAreRead, Watched
<1> QED BY <1>1, WatchHolds, PTL

(***************************************************************************)
(* Whom a node pings.                                                      *)
(***************************************************************************)
\* Address x is that of the stop before one of n's in tour t.
Precedes(x, n, t) ==
  \E i \in 2..Len(visited[t]) : visited[t][i] = n /\ visited[t][i-1] = x

Holds(list, x) == \E i \in DOMAIN list : list[i] = x

LEMMA PingsArePredecessors ==
  ASSUME NEW n \in Node
  PROVE  {ping_list[n][i] : i \in DOMAIN ping_list[n]} =
           UNION {{visited[t][i-1] :
                    i \in {j \in 2..Len(visited[t]) : visited[t][j] = n}} : t \in Node}
         <=> \A x : Holds(ping_list[n], x) <=> \E t \in Node : Precedes(x, n, t)
<1> DEFINE pinged == {ping_list[n][i] : i \in DOMAIN ping_list[n]}
           before == UNION {{visited[t][i-1] :
                       i \in {j \in 2..Len(visited[t]) : visited[t][j] = n}} : t \in Node}
<1>1. \A x : x \in pinged <=> Holds(ping_list[n], x)
  BY DEF Holds
<1>2. \A x : x \in before <=> \E t \in Node : Precedes(x, n, t)
  BY DEF Precedes
<1> HIDE DEF pinged, before
<1>3. pinged = before <=> \A x : x \in pinged <=> x \in before
  OBVIOUS
<1>4. pinged = before <=> \A x : Holds(ping_list[n], x) <=> \E t \in Node : Precedes(x, n, t)
  BY <1>1, <1>2, <1>3
<1> QED BY <1>4 DEF pinged, before

\* Elements that are the same stand side by side.
SideBySide(list) == \A i, j \in DOMAIN list : i < j /\ list[i] = list[j] => j = i + 1

LEMMA PingInserted ==
  ASSUME NEW S, NEW list \in Seq(S), NEW ip \in S, SideBySide(list)
  PROVE  /\ \A x : Holds(PingInsert(list, ip), x) <=> Holds(list, x) \/ x = ip
         /\ SideBySide(PingInsert(list, ip))
<1>1. PICK k \in Nat : k = Len(list)
  OBVIOUS
<1>2. DOMAIN list = 1..k
  BY <1>1
<1>3. CASE \E i \in 1..(k - 1) : list[i] = ip
  <2>1. PingInsert(list, ip) = list
    BY <1>1, <1>3 DEF PingInsert
  <2>2. Holds(list, ip)
    BY <1>2, <1>3 DEF Holds
  <2> QED BY <2>1, <2>2 DEF Holds
<1>4. CASE ~\E i \in 1..(k - 1) : list[i] = ip
  <2> DEFINE new == Append(list, ip)
  <2>1. PingInsert(list, ip) = new
    BY <1>1, <1>4 DEF PingInsert
  <2>2. DOMAIN new = 1..(k + 1) /\ new[k + 1] = ip /\ \A i \in 1..k : new[i] = list[i]
    <3>1. /\ Len(new) = Len(list) + 1 /\ DOMAIN new = 1..Len(new)
          /\ \A i \in 1..Len(list) : new[i] = list[i]
          /\ new[Len(list) + 1] = ip
      BY AppendProperties
    <3> HIDE DEF new
    <3> QED BY <1>1, <3>1
  <2> HIDE DEF new
  <2>3. \A x : Holds(new, x) <=> Holds(list, x) \/ x = ip
    <3>1. \A i \in 1..(k + 1) : i \in 1..k \/ i = k + 1
      OBVIOUS
    <3>2. \A i \in 1..k : i \in 1..(k + 1)
      OBVIOUS
    <3>3. k + 1 \in 1..(k + 1)
      OBVIOUS
    <3> QED BY <1>2, <2>2, <3>1, <3>2, <3>3 DEF Holds
  <2>4. SideBySide(new)
    <3>1. ASSUME NEW i \in 1..(k + 1), NEW j \in 1..(k + 1), i < j, new[i] = new[j]
          PROVE  j = i + 1
      <4>1. CASE j = k + 1
        <5>1. i \in 1..k /\ list[i] = ip
          BY <2>2, <3>1, <4>1
        <5>2. i \notin 1..(k - 1)
          BY <1>4, <5>1
        <5> QED BY <4>1, <5>1, <5>2
      <4>2. CASE j # k + 1
        <5>1. i \in 1..k /\ j \in 1..k
          BY <3>1, <4>2
        <5> QED BY <1>2, <2>2, <3>1, <5>1 DEF SideBySide
      <4> QED BY <4>1, <4>2
    <3> QED BY <2>2, <3>1 DEF SideBySide
  <2> QED BY <2>1, <2>3, <2>4
<1> QED BY <1>3, <1>4

PingInv ==
  \A n \in Node :
    /\ \A x : Holds(ping_list[n], x) <=> \E t \in Node : Precedes(x, n, t)
    /\ SideBySide(ping_list[n])

\* One stop more in a tour: it has a predecessor more.
LEMMA OneMorePredecessor ==
  ASSUME NEW S, NEW v \in Seq(S), v # <<>>, NEW n \in S, NEW m, NEW x
  PROVE  LET w == Append(v, n)
         IN  (\E i \in 2..Len(w) : w[i] = m /\ w[i-1] = x) <=>
             \/ \E i \in 2..Len(v) : v[i] = m /\ v[i-1] = x
             \/ m = n /\ x = v[Len(v)]
<1> DEFINE w == Append(v, n)
<1>1. /\ Len(w) = Len(v) + 1 /\ w[Len(v) + 1] = n
      /\ \A i \in 1..Len(v) : w[i] = v[i]
  BY AppendProperties
<1>2. PICK k \in Nat : k = Len(v)
  OBVIOUS
<1>3. k # 0
  <2>1. Len(v) = 0 => v = <<>>
    BY EmptySeq
  <2> QED BY <1>2, <2>1
<1> HIDE DEF w
<1>4. w[k + 1] = n /\ w[(k + 1) - 1] = v[k] /\ k + 1 \in 2..(k + 1)
  BY <1>1, <1>2, <1>3
<1>5. \A i \in 2..k : w[i] = v[i] /\ w[i-1] = v[i-1] /\ i \in 2..(k + 1)
  BY <1>1, <1>2
<1>6. \A i \in 2..(k + 1) : i \in 2..k \/ i = k + 1
  OBVIOUS
<1>7. (\E i \in 2..(k + 1) : w[i] = m /\ w[i-1] = x) <=>
             \/ \E i \in 2..k : v[i] = m /\ v[i-1] = x
             \/ m = n /\ x = v[k]
  BY <1>4, <1>5, <1>6
<1> QED BY <1>1, <1>2, <1>7 DEF w

LEMMA OthersKeepPings ==
  ASSUME NEW n \in Node,
         \/ Launch(n) \/ StartIdle(n) \/ StartRefused(n) \/ Forward(n)
         \/ JoinGroup(n) \/ Ping(n) \/ Wait(n) \/ ForeignPacket(n)
         \/ ReadPing(n) \/ ReceiveMcast(n) \/ AlarmOnTime(n) \/ AlarmInLoop(n)
         \/ AlarmTooEarly(n) \/ Timeout(n) \/ LoseMcast(n)
  PROVE  UNCHANGED ping_list
BY DEF Launch, StartIdle, StartRefused, Forward, JoinGroup, Ping, Wait,
       ForeignPacket, ReadPing, ReceiveMcast, AlarmOnTime, AlarmInLoop,
       AlarmTooEarly, Timeout, LoseMcast

LEMMA PingStep ==
  ASSUME CustodyInv, PingInv, [Next]_vars
  PROVE  PingInv'
<1>1. ASSUME UNCHANGED <<ping_list, visited>> PROVE PingInv'
  <2>1. \A x, n, t : Precedes(x, n, t)' <=> Precedes(x, n, t)
    BY <1>1 DEF Precedes
  <2>2. ASSUME NEW n \in Node
        PROVE  /\ \A x : Holds(ping_list'[n], x) <=> \E t \in Node : Precedes(x, n, t)'
               /\ SideBySide(ping_list'[n])
    BY <1>1, <2>1 DEF PingInv
  <2> QED BY <2>2 DEF PingInv
<1>2. ASSUME NEW n \in Node, StartTour(n) PROVE PingInv'
  <2>1. /\ visited[n] = <<>> /\ visited' = [visited EXCEPT ![n] = <<n>>]
        /\ ping_list' = ping_list
    BY <1>2 DEF CustodyInv, NothingPending, StartTour, AfterDelay, Goto
  <2>2. ASSUME NEW t \in Node, NEW m \in Node, NEW x
        PROVE  Precedes(x, m, t)' <=> Precedes(x, m, t)
    <3>1. CASE t = n
      <4>1. visited'[t] = <<n>> /\ visited[t] = <<>>
        BY <2>1, <3>1 DEF CustodyInv, TypeOK
      <4>2. Len(<<n>>) = 1 /\ 2..1 = {} /\ 2..0 = {} /\ Len(<<>>) = 0
        OBVIOUS
      <4> QED BY <4>1, <4>2 DEF Precedes
    <3>2. CASE t # n
      <4>1. visited'[t] = visited[t]
        BY <2>1, <3>2 DEF CustodyInv, TypeOK
      <4> QED BY <4>1 DEF Precedes
    <3> QED BY <3>1, <3>2
  <2>3. ASSUME NEW m \in Node
        PROVE  /\ \A x : Holds(ping_list[m], x) <=> \E t \in Node : Precedes(x, m, t)'
               /\ SideBySide(ping_list[m])
    BY <2>2 DEF PingInv
  <2> QED BY <2>1, <2>3 DEF PingInv
<1>3. ASSUME NEW n \in Node, NEW p \in route, ReceiveRoute(n, p) PROVE PingInv'
  <2> DEFINE t == p.tour
             v == visited[t]
  <2>1. /\ t \in Node /\ v \in Seq(Addr) /\ v # <<>>
        /\ visited' = [visited EXCEPT ![t] = Append(v, n)]
    BY <1>3, ReceiveAdvances
  <2>2. p.src = v[Len(v)] /\ p.src \in Addr /\ n \in Addr
    BY DEF CustodyInv, RouteIntact, PacketIntact, TypeOK, Packet, Addr
  <2>3. ping_list' = [ping_list EXCEPT ![n] = PingInsert(ping_list[n], p.src)]
    BY <1>3 DEF ReceiveRoute
  <2> HIDE DEF t
  <2>4. ASSUME NEW m \in Node, NEW x
        PROVE  (\E u \in Node : Precedes(x, m, u)') <=>
               (\E u \in Node : Precedes(x, m, u)) \/ (m = n /\ x = p.src)
    <3>1. Precedes(x, m, t)' <=> Precedes(x, m, t) \/ (m = n /\ x = p.src)
      <4>1. visited'[t] = Append(visited[t], n)
        BY <2>1 DEF CustodyInv, TypeOK
      <4> QED BY <2>1, <2>2, <4>1, OneMorePredecessor DEF Precedes
    <3>2. \A u \in Node \ {t} : Precedes(x, m, u)' <=> Precedes(x, m, u)
      <4>1. \A u \in Node \ {t} : visited'[u] = visited[u]
        BY <2>1 DEF CustodyInv, TypeOK
      <4> QED BY <4>1 DEF Precedes
    <3> QED BY <2>1, <3>1, <3>2
  <2>5. ASSUME NEW m \in Node
        PROVE  /\ \A x : Holds(ping_list'[m], x) <=> \E u \in Node : Precedes(x, m, u)'
               /\ SideBySide(ping_list'[m])
    <3>1. CASE m = n
      <4>1. ping_list[n] \in Seq(Addr) /\ SideBySide(ping_list[n])
        BY DEF CustodyInv, TypeOK, PingInv
      <4>2. ping_list'[n] = PingInsert(ping_list[n], p.src)
        BY <2>3 DEF CustodyInv, TypeOK
      <4>3. /\ \A x : Holds(ping_list'[n], x) <=> Holds(ping_list[n], x) \/ x = p.src
            /\ SideBySide(ping_list'[n])
        BY <2>2, <4>1, <4>2, PingInserted
      <4> QED BY <2>4, <3>1, <4>3 DEF PingInv
    <3>2. CASE m # n
      <4>1. ping_list'[m] = ping_list[m]
        BY <2>3, <3>2 DEF CustodyInv, TypeOK
      <4> QED BY <2>4, <3>2, <4>1 DEF PingInv
    <3> QED BY <3>1, <3>2
  <2> QED BY <2>5 DEF PingInv
<1>4. ASSUME NEW p \in route, LoseRoute(p) \/ RouteUnclaimed(p) PROVE PingInv'
  BY <1>1, <1>4 DEF LoseRoute, RouteUnclaimed
<1>5. CASE UNCHANGED vars
  BY <1>1, <1>5 DEF vars
<1> QED
  BY <1>1, <1>2, <1>3, <1>4, <1>5, OthersKeepPlans, OthersKeepPings
     DEF Next, Process, Network, Finished

\* On any tours a node pings its predecessors, all of them and nobody else, and
\* those that its list holds twice are side by side in it (tour.c 254-271).
THEOREM PredecessorsArePinged == Spec => []PingsPredecessors
<1>1. Init => PingInv
  <2> SUFFICES ASSUME Init, NEW n \in Node
               PROVE  /\ \A x : ~Holds(ping_list[n], x)
                      /\ \A t \in Node : \A x : ~Precedes(x, n, t)
                      /\ SideBySide(ping_list[n])
    BY DEF PingInv
  <2>1. ping_list[n] = <<>> /\ \A t \in Node : visited[t] = <<>>
    BY DEF Init
  <2>2. Len(<<>>) = 0 /\ 2..0 = {} /\ DOMAIN <<>> = {}
    OBVIOUS
  <2> QED BY <2>1, <2>2 DEF Holds, Precedes, SideBySide
<1>2. CustodyInv /\ PingInv /\ [Next]_vars => PingInv'
  BY PingStep
<1>3. PingInv => PingsPredecessors
  BY PingsArePredecessors DEF PingInv, PingsPredecessors, SideBySide
<1> QED BY <1>1, <1>2, <1>3, ListsAreIntact, PTL DEF Spec

(***************************************************************************)
(* The end of a tour is final.                                             *)
(***************************************************************************)
\* Only a starting node composes a list; with one, a node that announced the
\* end without having given up has no alarm to come and no reason to ping.
FinalInv ==
  /\ \A t \in Node : plan[t] # <<>> => argv[t] # <<>>
  /\ OneStarter =>
       \A n \in Node \ GaveUp : ended[n] > 0 => ~ping_flag[n] /\ ~alarm[n]

\* Where one tour has ended there is none on its way.
LEMMA NoneOnItsWay ==
  ASSUME CustodyInv, FinalInv, OneStarter, NEW n \in Node, EndOf(n)
  PROVE  route = {}
<1> SUFFICES ASSUME NEW p \in route PROVE FALSE
  OBVIOUS
<1>1. /\ p.tour \in Node /\ visited[p.tour] \in Seq(Addr) /\ p.list \in Seq(Addr)
      /\ plan[p.tour] = visited[p.tour] \o p.list /\ p.list # <<>>
      /\ visited[p.tour] # <<>>
  BY DEF CustodyInv, RouteIntact, PacketIntact, TypeOK, Packet
<1>2. plan[p.tour] # visited[p.tour]
  BY <1>1, LongerThanPrefix
<1>3. plan[p.tour] # <<>>
  <2>1. Len(visited[p.tour]) # 0 /\ Len(visited[p.tour]) \in Nat
    BY <1>1, EmptySeq, LenProperties
  <2>2. Len(visited[p.tour]) + 1 <= Len(plan[p.tour])
    BY <1>1, NextPrefix
  <2>3. Len(plan[p.tour]) # 0
    BY <2>1, <2>2
  <2> QED BY <2>3
<1>4. PICK t \in Node : plan[t] # <<>> /\ visited[t] = plan[t]
  BY DEF EndOf, Completed
<1> DEFINE starters == {m \in Node : argv[m] # <<>>}
<1>5. t \in starters /\ p.tour \in starters
  BY <1>1, <1>3, <1>4 DEF FinalInv
<1>6. IsFiniteSet(starters) /\ Cardinality(starters) = 1
  BY NodeAssumption, FS_Subset DEF OneStarter
<1> HIDE DEF starters
<1>7. t = p.tour
  BY <1>5, <1>6, FS_Singleton
<1> QED BY <1>2, <1>4, <1>7

LEMMA FinalStep ==
  ASSUME CustodyInv, EndInv, FinalInv, [Next]_vars
  PROVE  FinalInv'
<1> USE DEF Goto
<1>1. argv' = argv
  <2>1. ASSUME NEW n \in Node, Process(n) \/ LoseMcast(n) PROVE argv' = argv
    BY <2>1 DEF Process, Launch, StartIdle, StartTour, StartRefused, Forward,
       JoinGroup, Ping, Wait, ReceiveRoute, ForeignPacket, ReadPing, ReceiveMcast,
       AlarmOnTime, AlarmInLoop, AlarmTooEarly, Timeout, LoseMcast
  <2>2. ASSUME NEW p \in route, LoseRoute(p) \/ RouteUnclaimed(p) PROVE argv' = argv
    BY <2>2 DEF LoseRoute, RouteUnclaimed
  <2>3. CASE UNCHANGED vars
    BY <2>3 DEF vars
  <2> QED BY <2>1, <2>2, <2>3 DEF Next, Network, Finished
<1>2. OneStarter' <=> OneStarter
  BY <1>1 DEF OneStarter
<1>3. \A t \in Node : plan'[t] # <<>> => argv'[t] # <<>>
  <2>1. ASSUME NEW n \in Node, StartTour(n)
        PROVE  \A t \in Node : plan'[t] # <<>> => argv[t] # <<>>
    <3>1. argv[n] # <<>>
      <4>1. Len(argv[n]) >= 2
        BY <2>1 DEF StartTour, Starter
      <4>2. Len(<<>>) = 0 /\ ~(0 >= 2)
        OBVIOUS
      <4> QED BY <4>1, <4>2
    <3>2. \A t \in Node \ {n} : plan'[t] = plan[t]
      BY <2>1 DEF StartTour, CustodyInv, TypeOK
    <3> QED BY <3>1, <3>2 DEF FinalInv
  <2>2. ASSUME UNCHANGED plan PROVE \A t \in Node : plan'[t] # <<>> => argv[t] # <<>>
    BY <2>2 DEF FinalInv
  <2>3. ASSUME NEW n \in Node, NEW p \in route, ReceiveRoute(n, p) PROVE UNCHANGED plan
    BY <2>3 DEF ReceiveRoute
  <2>4. ASSUME NEW p \in route, LoseRoute(p) \/ RouteUnclaimed(p) PROVE UNCHANGED plan
    BY <2>4 DEF LoseRoute, RouteUnclaimed
  <2>5. CASE UNCHANGED vars
    BY <2>2, <2>5, <1>1 DEF vars
  <2> QED
    BY <1>1, <2>1, <2>2, <2>3, <2>4, <2>5, OthersKeepPlans
       DEF Next, Process, Network, Finished
<1>4. ASSUME OneStarter, NEW m \in Node \ GaveUp', ended'[m] > 0
      PROVE  ~ping_flag'[m] /\ ~alarm'[m]
  <2>1. ASSUME NEW n \in Node, AlarmOnTime(n), EndDue(n), m = n
        PROVE  ~ping_flag'[m] /\ ~alarm'[m]
    BY <2>1, ZenonT(30) DEF AlarmOnTime, FlagAfterAlarm, CustodyInv, TypeOK
  <2>2. ASSUME m \notin GaveUp, ended[m] > 0
        PROVE  ~ping_flag[m] /\ ~alarm[m] /\ route = {}
    <3>1. EndOf(m)
      BY <2>2 DEF EndInv, EndIsEarned, Announced
    <3> QED BY <1>4, <2>2, <3>1, NoneOnItsWay DEF FinalInv
  <2>3. ASSUME UNCHANGED <<ping_cnt, ended>> PROVE m \notin GaveUp /\ ended[m] > 0
    BY <2>3, <1>4 DEF GaveUp
  <2>4. ASSUME NEW n \in Node,
               \/ Launch(n) \/ StartIdle(n) \/ StartTour(n) \/ StartRefused(n)
               \/ Forward(n) \/ JoinGroup(n) \/ Wait(n) \/ ForeignPacket(n)
               \/ ReadPing(n) \/ Timeout(n) \/ LoseMcast(n)
        PROVE  ~ping_flag'[m] /\ ~alarm'[m]
    <3>1. UNCHANGED <<ping_cnt, ended, ping_flag, alarm>>
      BY <2>4 DEF Launch, StartIdle, StartTour, StartRefused, Forward, JoinGroup, Wait,
                  ForeignPacket, ReadPing, Timeout, LoseMcast
    <3> QED BY <2>2, <2>3, <3>1
  <2>5. ASSUME NEW n \in Node, Ping(n) PROVE ~ping_flag'[m] /\ ~alarm'[m]
    <3>1. /\ ping_flag[n] /\ UNCHANGED ended
          /\ ping_cnt' = [ping_cnt EXCEPT ![n] = @ + 1]
          /\ ping_flag' = [ping_flag EXCEPT ![n] = FALSE]
          /\ alarm' = [alarm EXCEPT ![n] = TRUE]
      BY <2>5 DEF Ping, SetAlarm
    <3>2. m \notin GaveUp /\ ended[m] > 0
      BY <3>1, <1>4, NumberAssumption DEF GaveUp, CustodyInv, TypeOK
    <3> QED BY <2>2, <3>1, <3>2 DEF CustodyInv, TypeOK
  <2>6. ASSUME NEW n \in Node, NEW p \in route, ReceiveRoute(n, p)
        PROVE  ~ping_flag'[m] /\ ~alarm'[m]
    BY <2>2, <2>3, <2>6 DEF ReceiveRoute
  <2>7. ASSUME NEW n \in Node, ReceiveMcast(n) PROVE ~ping_flag'[m] /\ ~alarm'[m]
    <3>1. UNCHANGED <<ping_cnt, ended, alarm>> /\ ping_flag' = [ping_flag EXCEPT ![n] = FALSE]
      BY <2>7 DEF ReceiveMcast
    <3> QED BY <2>2, <2>3, <3>1 DEF CustodyInv, TypeOK
  <2>8. ASSUME NEW n \in Node, AlarmOnTime(n) PROVE ~ping_flag'[m] /\ ~alarm'[m]
    <3>1. /\ UNCHANGED ping_cnt /\ alarm[n] /\ alarm' = [alarm EXCEPT ![n] = FALSE]
          /\ ping_flag' = [ping_flag EXCEPT ![n] = FlagAfterAlarm(n)]
      BY <2>8 DEF AlarmOnTime
    <3>2. CASE EndDue(n)
      <4>1. ended' = [ended EXCEPT ![n] = @ + 1]
        BY <2>8, <3>2, Zenon DEF AlarmOnTime
      <4>2. CASE m # n
        <5>1. m \notin GaveUp /\ ended[m] > 0
          BY <1>4, <3>1, <4>1, <4>2 DEF GaveUp, CustodyInv, TypeOK
        <5> QED BY <2>2, <3>1, <4>2, <5>1 DEF CustodyInv, TypeOK
      <4> QED BY <2>1, <2>8, <3>2, <4>2
    <3>3. CASE ~EndDue(n)
      <4>1. UNCHANGED ended
        BY <2>8, <3>3, Zenon DEF AlarmOnTime
      <4>2. ~ping_flag[m] /\ ~alarm[m]
        BY <2>2, <2>3, <3>1, <4>1
      <4> QED BY <3>1, <4>2 DEF CustodyInv, TypeOK
    <3> QED BY <3>2, <3>3
  <2>9. ASSUME NEW n \in Node, AlarmInLoop(n) \/ AlarmTooEarly(n)
        PROVE  ~ping_flag'[m] /\ ~alarm'[m]
    <3>1. /\ UNCHANGED <<ping_cnt, ended>> /\ alarm[n]
          /\ alarm' = [alarm EXCEPT ![n] = FALSE]
          /\ ping_flag' = [ping_flag EXCEPT ![n] = TRUE]
      BY <2>9 DEF AlarmInLoop, AlarmTooEarly
    <3>2. ~ping_flag[m] /\ ~alarm[m]
      BY <2>2, <2>3, <3>1
    <3> QED BY <3>1, <3>2 DEF CustodyInv, TypeOK
  <2>10. ASSUME NEW p \in route, LoseRoute(p) \/ RouteUnclaimed(p)
         PROVE  ~ping_flag'[m] /\ ~alarm'[m]
    BY <2>2, <2>3, <2>10 DEF LoseRoute, RouteUnclaimed
  <2>11. CASE UNCHANGED vars
    BY <2>2, <2>3, <2>11 DEF vars
  <2> QED
    BY <2>4, <2>5, <2>6, <2>7, <2>8, <2>9, <2>10, <2>11
       DEF Next, Process, Network, Finished
<1> QED BY <1>2, <1>3, <1>4 DEF FinalInv

\* What the invariant says of a step.
LEMMA EndsAreFinal ==
  ASSUME CustodyInv, EndInv, FinalInv, [Next]_vars, OneStarter,
         NEW m \in Node \ GaveUp, ended[m] > 0
  PROVE  ping_cnt'[m] = ping_cnt[m] /\ ended'[m] = ended[m]
<1>1. ~ping_flag[m] /\ ~alarm[m]
  BY DEF FinalInv
<1>2. ASSUME NEW n \in Node, Ping(n) PROVE ping_cnt'[m] = ping_cnt[m] /\ ended'[m] = ended[m]
  BY <1>1, <1>2 DEF Ping, CustodyInv, TypeOK
<1>3. ASSUME NEW n \in Node, NEW p \in route, ReceiveRoute(n, p)
      PROVE  ping_cnt'[m] = ping_cnt[m] /\ ended'[m] = ended[m]
  BY <1>3 DEF ReceiveRoute
<1>4. ASSUME NEW n \in Node, AlarmOnTime(n)
      PROVE  ping_cnt'[m] = ping_cnt[m] /\ ended'[m] = ended[m]
  <2>1. m # n /\ UNCHANGED ping_cnt
    BY <1>1, <1>4 DEF AlarmOnTime
  <2>2. ended' = ended \/ ended' = [ended EXCEPT ![n] = @ + 1]
    BY <1>4, Zenon DEF AlarmOnTime
  <2> QED BY <2>1, <2>2, SMTT(20) DEF CustodyInv, TypeOK
<1>5. ASSUME NEW p \in route, LoseRoute(p) \/ RouteUnclaimed(p)
      PROVE  ping_cnt'[m] = ping_cnt[m] /\ ended'[m] = ended[m]
  BY <1>5 DEF LoseRoute, RouteUnclaimed
<1>6. ASSUME UNCHANGED ends PROVE ping_cnt'[m] = ping_cnt[m] /\ ended'[m] = ended[m]
  BY <1>6 DEF ends
<1>7. CASE UNCHANGED vars
  BY <1>7 DEF vars
<1> QED
  BY <1>2, <1>3, <1>4, <1>5, <1>6, <1>7, OthersKeepEnds
     DEF Next, Process, Network, Finished

\* With one tour, a node that announced its end, and had not given up, pings no
\* more and announces no more (tour.c 197-208).
THEOREM TheEndIsFinal == Spec => EndIsFinal
<1>1. Init => FinalInv
  BY DEF Init, FinalInv
<1>2. CustodyInv /\ EndInv /\ FinalInv /\ [Next]_vars => FinalInv'
  BY FinalStep
<1>3. CustodyInv /\ EndInv /\ [Next]_vars => EndInv'
  BY EndStep
<1>4. CustodyInv /\ EndInv /\ FinalInv /\ [Next]_vars =>
        [OneStarter =>
           \A n \in Node \ GaveUp : ended[n] > 0 => /\ ping_cnt'[n] = ping_cnt[n]
                                                    /\ ended'[n] = ended[n]]_vars
  BY EndsAreFinal
<1> QED BY <1>1, <1>2, <1>3, <1>4, EndInit, ListsAreIntact, PTL DEF Spec, EndIsFinal

(***************************************************************************)
(* The clocks.  Every step of TimedTour is one of Tour, or a tick: what    *)
(* holds of Tour holds of TimedTour.                                       *)
(***************************************************************************)
LEMMA TimedStep == [TNext]_tvars => [Next]_vars
<1> SUFFICES ASSUME [TNext]_tvars PROVE [Next]_vars
  OBVIOUS
<1>1. ASSUME NEW n \in Node, TProcess(n) PROVE Process(n)
  <2>1. CASE TPing(n) \/ TWait(n) \/ TReadPing(n) \/ TTimeout(n)
    BY <2>1 DEF TPing, TWait, TReadPing, TTimeout, Process
  <2>2. CASE TAlarm(n)
    BY <2>2 DEF TAlarm, Process
  <2>3. CASE ~(TPing(n) \/ TWait(n) \/ TReadPing(n) \/ TTimeout(n) \/ TAlarm(n))
    BY <1>1, <2>3 DEF TProcess, Process
  <2> QED BY <2>1, <2>2, <2>3
<1>2. CASE Tick \/ UNCHANGED tvars
  BY <1>2 DEF Tick, tvars
<1>3. CASE \E n \in Node : TProcess(n)
  BY <1>1, <1>3 DEF Next
<1>4. CASE Network \/ Finished
  BY <1>4 DEF Next
<1> QED BY <1>2, <1>3, <1>4 DEF TNext

\* The tour program with its clocks does what it does without.
THEOREM TimedTourIsTour == TSpec => Spec
<1>1. TInit => Init
  BY DEF TInit
<1> QED BY <1>1, TimedStep, PTL DEF TSpec, Spec

\* What is known of Tour, from the theorems above.
Known == CustodyInv /\ WatchInv /\ PingsPredecessors

LEMMA KnownHolds == TSpec => []Known
<1>1. CustodyInv /\ WatchInv /\ PingsPredecessors => Known
  BY DEF Known
<1> QED BY <1>1, TimedTourIsTour, ListsAreIntact, WatchHolds, PredecessorsArePinged, PTL

(***************************************************************************)
(* Until the lists have reached their last stops and the members have      *)
(* joined, no time passes: the clocks, the ends and the answers to them    *)
(* come into play when everything is settled.                              *)
(***************************************************************************)
Started(n) == pc[n] \notin {"down", "delay"}

Settled ==
  /\ route = {}
  /\ \A n \in Node : Started(n) /\ ~me_flag[n] /\ join_mcast_triflag[n] # 1

Early ==
  \A n \in Node :
    /\ ~due[n] /\ idle[n] = 0 /\ ended[n] = 0
    /\ ~recv_flag[n] /\ mcastq[n] = <<>> /\ heard[n] = {} /\ pc[n] # "exited"

\* Before and after: every list holds VMs only, and has a second stop.
PlanWhole(t) ==
  plan[t] # <<>> => /\ plan[t] \in Seq(Node) /\ Len(plan[t]) >= 2
                    /\ plan[t][2] # plan[t][1]

\* No list is lost.
Conserved(t) ==
  \/ visited[t] = plan[t]
  \/ \E p \in route : p.tour = t
  \/ \E n \in Node : Holder(n, t)

Visits(v, n) == \E i \in 1..Len(v) : v[i] = n
Received(v, n) == \E i \in 2..Len(v) : v[i] = n

\* What a node that a list has reached has to do, unless it is done.
Duty(n) == \/ recv_flag[n] \/ ended[n] > 0 \/ alarm[n]
           \/ pc[n] = "loop" /\ ping_flag[n]

OnTour(n) ==
  /\ join_mcast_triflag[n] # 0 <=> \E t \in Node : Visits(visited[t], n)
  /\ (\E t \in Node : Received(visited[t], n)) => Duty(n)
  /\ pc[n] = "select" => join_mcast_triflag[n] # 1
  /\ pc[n] \in {"loop", "select"} => Watched(n, RtFd)

\* All are launched before one starts.
Launched == \A n, m \in Node : Started(n) => pc[m] # "down"

RoundInv ==
  /\ Launched
  /\ \A t \in Node : PlanWhole(t) /\ Conserved(t)
  /\ \A n \in Node : OnTour(n)
  /\ Early \/ Settled

TimedType ==
  idle \in [Node -> Nat] /\ due \in [Node -> BOOLEAN] /\ icmp \in [Node -> BOOLEAN]

LEMMA TimedTypeStep ==
  ASSUME TypeOK, TimedType, [TNext]_tvars
  PROVE  TimedType'
<1>1. ASSUME NEW n \in Node, TPing(n) PROVE TimedType'
  <2>1. icmp' \in [Node -> BOOLEAN]
    BY <1>1 DEF TPing, TimedType
  <2>2. idle' = [idle EXCEPT ![n] = 0] /\ due' = [due EXCEPT ![n] = FALSE]
    BY <1>1 DEF TPing
  <2> QED BY <2>1, <2>2 DEF TimedType
<1>2. ASSUME NEW n \in Node, TWait(n) \/ TReadPing(n) \/ TAlarm(n) \/ TTimeout(n)
      PROVE  TimedType'
  <2>1. /\ idle' = idle \/ idle' = [idle EXCEPT ![n] = 0]
        /\ due' = due \/ due' = [due EXCEPT ![n] = FALSE]
        /\ icmp' = icmp \/ icmp' = [icmp EXCEPT ![n] = FALSE]
    BY <1>2, Zenon DEF TWait, TReadPing, TAlarm, TTimeout, Drained
  <2>2. idle' \in [Node -> Nat]
    BY <2>1 DEF TimedType
  <2>3. due' \in [Node -> BOOLEAN]
    BY <2>1 DEF TimedType
  <2>4. icmp' \in [Node -> BOOLEAN]
    BY <2>1 DEF TimedType
  <2> QED BY <2>2, <2>3, <2>4 DEF TimedType
<1>3. CASE Tick
  <2>1. /\ idle' = [n \in Node |-> IF pc[n] = "select" THEN idle[n] + 1 ELSE idle[n]]
        /\ due' = alarm /\ icmp' = icmp /\ alarm \in [Node -> BOOLEAN]
    BY <1>3 DEF Tick, TypeOK
  <2> QED BY <2>1 DEF TimedType
<1>4. CASE UNCHANGED timing
  BY <1>4 DEF timing, TimedType
<1> QED BY <1>1, <1>2, <1>3, <1>4 DEF TNext, TProcess, tvars

(***************************************************************************)
(* The lists.                                                              *)
(***************************************************************************)
\* The first stop of what is left of a list of VMs is a VM.
LEMMA NextIsNode ==
  ASSUME NEW v \in Seq(Addr), NEW l \in Seq(Addr), l # <<>>, v \o l \in Seq(Node)
  PROVE  Head(l) \in Node
<1>1. Len(l) >= 1 /\ Head(l) = l[1] /\ Len(l) \in Nat /\ Len(v) \in Nat
  BY EmptySeq, LenProperties, HeadTailProperties
<1>2. (v \o l)[Len(v) + 1] = l[1] /\ Len(v \o l) = Len(v) + Len(l)
  BY <1>1, ConcatElements
<1>3. Len(v) + 1 \in 1..Len(v \o l)
  BY <1>1, <1>2
<1> QED BY <1>1, <1>2, <1>3

\* A list that is on its way goes to a VM that has opened its sockets.
LEMMA PacketArrives ==
  ASSUME Known, RoundInv, NEW p \in route
  PROVE  Open(Head(p.list)) /\ Head(p.list) \in Node /\ ~Settled /\ Early
<1>1. /\ p.tour \in Node /\ visited[p.tour] \in Seq(Addr) /\ p.list \in Seq(Addr)
      /\ plan[p.tour] = visited[p.tour] \o p.list /\ visited[p.tour] # <<>> /\ p.list # <<>>
  BY DEF Known, CustodyInv, TypeOK, Packet, RouteIntact, PacketIntact
<1>2. plan[p.tour] # <<>>
  BY <1>1, ConcatProperties, EmptySeq
<1>3. Head(p.list) \in Node
  <2>1. plan[p.tour] \in Seq(Node)
    BY <1>1, <1>2 DEF RoundInv, PlanWhole
  <2> QED BY <2>1, <1>1, NextIsNode
<1>4. ~Settled /\ Early
  BY DEF Settled, RoundInv
<1>5. pc[Head(p.list)] # "exited"
  BY <1>3, <1>4 DEF Early
<1>6. Started(p.tour)
  BY <1>1 DEF Known, CustodyInv, NothingPending, Started
<1>7. pc[Head(p.list)] # "down"
  BY <1>1, <1>3, <1>6 DEF RoundInv, Launched
<1>8. pc[Head(p.list)] \in {"down", "delay", "loop", "select", "exited"}
  BY <1>3 DEF Known, CustodyInv, TypeOK
<1> QED BY <1>3, <1>4, <1>5, <1>7, <1>8 DEF Open

\* What a calm run rules out.
LEMMA CalmSteps ==
  ASSUME Calm, Known, RoundInv
  PROVE  /\ \A n \in Node : ~StartRefused(n) /\ ~ForeignPacket(n) /\ ~AlarmTooEarly(n)
         /\ ~Network
<1>1. mishaps \in Nat /\ MaxMishaps = 0 /\ ~AlarmWindow
  BY DEF Known, CustodyInv, TypeOK, Calm
<1>2. ASSUME NEW n \in Node PROVE ~StartRefused(n) /\ ~ForeignPacket(n) /\ ~AlarmTooEarly(n)
  <2>1. ~ForeignPacket(n) /\ ~AlarmTooEarly(n)
    BY <1>1 DEF ForeignPacket, AlarmTooEarly
  <2>2. ~StartRefused(n)
    BY DEF Known, CustodyInv, TypeOK, Calm, StartRefused
  <2> QED BY <2>1, <2>2
<1>3. ASSUME NEW p \in route PROVE ~LoseRoute(p) /\ ~RouteUnclaimed(p)
  BY <1>1, PacketArrives DEF LoseRoute, RouteUnclaimed
<1>4. ASSUME NEW n \in Node PROVE ~LoseMcast(n)
  BY <1>1 DEF LoseMcast
<1> QED BY <1>2, <1>3, <1>4 DEF Network

\* The whole list that a calm command line makes.
LEMMA WholeStart ==
  ASSUME Calm, Known, NEW n \in Node, StartTour(n)
  PROVE  /\ PlanWhole(n)'
         /\ \A t \in Node \ {n} : plan'[t] = plan[t] /\ visited'[t] = visited[t]
         /\ Holder(n, n)'
         /\ visited'[n] = <<n>>
         /\ \A m \in Node \ {n} : me_flag'[m] = me_flag[m] /\ rt_rmsg'[m] = rt_rmsg[m]
<1>1. PICK junk \in Addr :
        LET l == Compose(<<n>> \o argv[n], junk)
        IN  /\ rt_rmsg' = [rt_rmsg EXCEPT ![n] = [tour |-> n, list |-> l]]
            /\ plan' = [plan EXCEPT ![n] = l]
  BY DEF StartTour
<1> DEFINE stops == <<n>> \o argv[n]
           l == Compose(stops, junk)
<1>2. /\ argv[n] \in Seq(Node \cup {BadName}) /\ Len(argv[n]) >= 2
      /\ \A i \in DOMAIN argv[n] : argv[n][i] # BadName
      /\ Len(argv[n]) + 1 \notin Repeats(stops)
  BY LaunchAssumption DEF Known, CustodyInv, TypeOK, Calm, StartTour, Starter, Argv
<1>3. argv[n] \in Seq(Node)
  BY <1>2
<1>4. stops \in Seq(Node) /\ Len(stops) = Len(argv[n]) + 1 /\ Len(stops) >= 3
  BY <1>2, <1>3
<1>5. l \in Seq(Node) /\ Len(l) >= 2 /\ l[2] # l[1]
  <2> HIDE DEF stops
  <2> QED BY <1>2, <1>4, ComposeWhole
<1> HIDE DEF l
<1>6. /\ rt_rmsg' = [rt_rmsg EXCEPT ![n] = [tour |-> n, list |-> l]]
      /\ plan' = [plan EXCEPT ![n] = l]
      /\ visited' = [visited EXCEPT ![n] = <<n>>]
      /\ me_flag' = [me_flag EXCEPT ![n] = TRUE]
  BY <1>1 DEF l, StartTour
<1>7. /\ rt_rmsg \in [Node -> List] /\ plan \in [Node -> Seq(Addr)]
      /\ visited \in [Node -> Seq(Addr)] /\ me_flag \in [Node -> BOOLEAN]
  BY DEF Known, CustodyInv, TypeOK
<1>8. plan'[n] = l /\ me_flag'[n] /\ rt_rmsg'[n].tour = n /\ visited'[n] = <<n>>
  BY <1>6, <1>7
<1>9. PlanWhole(n)' /\ Holder(n, n)'
  BY <1>5, <1>8 DEF PlanWhole, Holder
<1> QED BY <1>6, <1>7, <1>8, <1>9

\* What a node sends on goes to a VM, which it reaches.
LEMMA ForwardSends ==
  ASSUME Known, RoundInv, NEW n \in Node, Forward(n)
  PROVE  LET p == [src |-> Head(rt_rmsg[n].list), tour |-> rt_rmsg[n].tour,
                   list |-> Rest(rt_rmsg[n].list)]
         IN  route' = route \cup {p} /\ UNCHANGED pc
<1> DEFINE l == rt_rmsg[n].list
           t == rt_rmsg[n].tour
           p == [src |-> Head(l), tour |-> t, list |-> Rest(l)]
<1>1. /\ l \in Seq(Addr) /\ t \in Node /\ visited[t] \in Seq(Addr)
      /\ plan[t] = visited[t] \o Tail(l) /\ visited[t] # <<>> /\ Len(l) >= 2
  BY DEF Known, CustodyInv, TypeOK, List, RouteIntact, HolderIntact, Forward
<1>2. Tail(l) \in Seq(Addr) /\ Tail(l) # <<>>
  BY <1>1, TwoStops
<1>3. plan[t] # <<>>
  BY <1>1, <1>2, ConcatProperties, EmptySeq
<1>4. plan[t] \in Seq(Node)
  BY <1>1, <1>3 DEF RoundInv, PlanWhole
<1>5. Head(Tail(l)) \in Node
  BY <1>1, <1>2, <1>4, NextIsNode
<1>6. Head(p.list) \in Node
  BY <1>5 DEF Rest
<1>7. IF Head(p.list) \in Node
        THEN route' = route \cup {p} /\ UNCHANGED pc
        ELSE /\ UNCHANGED route
             /\ \E to \in {"loop", "exited"} : pc' = [pc EXCEPT ![n] = to]
  BY Zenon DEF Forward
<1> HIDE DEF p
<1>8. route' = route \cup {p} /\ UNCHANGED pc
  BY <1>6, <1>7
<1> QED BY <1>8 DEF p

\* No list is lost, and every list keeps to the VMs.
LEMMA PlansStep ==
  ASSUME Calm, Known, RoundInv, [Next]_vars
  PROVE  \A t \in Node : PlanWhole(t)' /\ Conserved(t)'
<1>0. \A t \in Node : PlanWhole(t) /\ Conserved(t)
  BY DEF RoundInv
<1>1. ASSUME UNCHANGED lists PROVE \A t \in Node : PlanWhole(t)' /\ Conserved(t)'
  BY <1>0, <1>1 DEF lists, PlanWhole, Conserved, Holder
<1>2. ASSUME NEW n \in Node, StartTour(n), NEW t \in Node
      PROVE  PlanWhole(t)' /\ Conserved(t)'
  <2>1. /\ PlanWhole(n)' /\ Holder(n, n)'
        /\ \A u \in Node \ {n} : plan'[u] = plan[u] /\ visited'[u] = visited[u]
        /\ \A m \in Node \ {n} : me_flag'[m] = me_flag[m] /\ rt_rmsg'[m] = rt_rmsg[m]
    BY <1>2, WholeStart
  <2>2. route' = route /\ ~me_flag[n]
    BY <1>2 DEF StartTour, AfterDelay, Goto, Known, CustodyInv, NothingPending
  <2>3. CASE t = n
    BY <2>1, <2>3 DEF Conserved
  <2>4. CASE t # n
    <3>1. \A m \in Node : Holder(m, t) => Holder(m, t)'
      BY <2>1, <2>2 DEF Holder
    <3> QED BY <3>1, <2>1, <2>2, <2>4, <1>0 DEF PlanWhole, Conserved
  <2> QED BY <2>3, <2>4
<1>3. ASSUME NEW n \in Node, Forward(n), NEW t \in Node
      PROVE  PlanWhole(t)' /\ Conserved(t)'
  <2> DEFINE p == [src |-> Head(rt_rmsg[n].list), tour |-> rt_rmsg[n].tour,
                   list |-> Rest(rt_rmsg[n].list)]
  <2>1. route' = route \cup {p} /\ p.tour = rt_rmsg[n].tour
    BY <1>3, ForwardSends
  <2> HIDE DEF p
  <2>2. /\ UNCHANGED <<plan, visited, rt_rmsg>>
        /\ me_flag' = [me_flag EXCEPT ![n] = FALSE]
    BY <1>3 DEF Forward, Sent
  <2>3. \A m \in Node \ {n} : Holder(m, t) => Holder(m, t)'
    BY <2>2 DEF Holder, Known, CustodyInv, TypeOK
  <2>4. Holder(n, t) => p \in route' /\ p.tour = t
    BY <2>1 DEF Holder
  <2> QED BY <2>1, <2>2, <2>3, <2>4, <1>0 DEF PlanWhole, Conserved
<1>4. ASSUME NEW n \in Node, NEW p \in route, ReceiveRoute(n, p), NEW t \in Node
      PROVE  PlanWhole(t)' /\ Conserved(t)'
  <2>1. /\ pc[n] = "select" /\ route' = route \ {p} /\ UNCHANGED plan
        /\ rt_rmsg' = [rt_rmsg EXCEPT ![n] = [tour |-> p.tour, list |-> p.list]]
        /\ visited' = [visited EXCEPT ![p.tour] = Append(@, n)]
    BY <1>4 DEF ReceiveRoute, Goto
  <2>2. ~me_flag[n]
    BY <2>1 DEF Known, CustodyInv, NothingPending
  <2>3. PlanWhole(t)'
    BY <2>1, <1>0 DEF PlanWhole
  <2>4. ASSUME t # p.tour PROVE Conserved(t)'
    <3>1. visited'[t] = visited[t]
      BY <2>1, <2>4 DEF Known, CustodyInv, TypeOK
    <3>2. \A q \in route : q.tour = t => q \in route'
      BY <2>1, <2>4
    <3>3. \A m \in Node \ {n} : me_flag'[m] = me_flag[m] /\ rt_rmsg'[m] = rt_rmsg[m]
      <4>1. me_flag' = me_flag \/ me_flag' = [me_flag EXCEPT ![n] = TRUE]
        BY <1>4, Zenon DEF ReceiveRoute
      <4>2. rt_rmsg \in [Node -> List] /\ me_flag \in [Node -> BOOLEAN]
        BY DEF Known, CustodyInv, TypeOK
      <4> QED BY <4>1, <4>2, <2>1
    <3>4. \A m \in Node : Holder(m, t) => Holder(m, t)'
      BY <2>2, <3>3 DEF Holder
    <3> QED BY <3>1, <3>2, <3>4, <2>1, <1>0 DEF Conserved
  <2>5. ASSUME t = p.tour PROVE Conserved(t)'
    <3>1. CASE LastStop(p.list)
      BY <2>5, <3>1, <1>4, LastStopCompletes DEF Conserved, Completed, Known
    <3>2. CASE ~LastStop(p.list)
      <4>1. me_flag' = [me_flag EXCEPT ![n] = TRUE]
        BY <1>4, <3>2, Zenon DEF ReceiveRoute
      <4>2. Holder(n, t)'
        BY <4>1, <2>1, <2>5 DEF Holder, Known, CustodyInv, TypeOK
      <4> QED BY <4>2 DEF Conserved
    <3> QED BY <3>1, <3>2
  <2> QED BY <2>3, <2>4, <2>5
<1>5. CASE UNCHANGED vars
  BY <1>1, <1>5 DEF vars, lists
<1>6. ~Network
  BY CalmSteps
<1> QED
  BY <1>1, <1>2, <1>3, <1>4, <1>5, <1>6, OthersKeepLists DEF Next, Process, Finished

(***************************************************************************)
(* The nodes on a tour.                                                    *)
(***************************************************************************)
LEMMA LaunchedStep ==
  ASSUME Calm, Known, RoundInv, [Next]_vars
  PROVE  Launched'
<1> USE DEF Goto
<1>1. pc \in [Node -> {"down", "delay", "loop", "select", "exited"}] /\ Launched
  BY DEF Known, CustodyInv, TypeOK, RoundInv
<1>2. ASSUME NEW n \in Node, Launch(n) PROVE Launched'
  <2>1. pc[n] = "down" /\ \E to \in {"delay", "exited"} : pc' = [pc EXCEPT ![n] = to]
    BY <1>2 DEF Launch
  <2>2. pc' = [pc EXCEPT ![n] = "delay"]
    <3>1. argv \in Launches /\ Len(argv[n]) \in Nat /\ MAX_ARGS \in Nat
      BY LaunchAssumption, NumberAssumption DEF Argv, Known, CustodyInv, TypeOK
    <3>2. ~(Len(argv[n]) + 1 > MAX_ARGS)
      <4>1. \A line \in Launches : Len(line[n]) + 1 <= MAX_ARGS
        BY DEF Calm
      <4>2. Len(argv[n]) + 1 <= MAX_ARGS
        BY <3>1, <4>1
      <4> QED BY <3>1, <4>2
    <3> QED BY <3>2, <1>2, Zenon DEF Launch
  <2> QED BY <1>1, <2>1, <2>2 DEF Launched, Started
<1>3. ASSUME NEW n \in Node, StartIdle(n) \/ StartTour(n) PROVE Launched'
  <2>1. /\ pc' = [pc EXCEPT ![n] = "loop"]
        /\ \A m \in Node : pc[m] # "down"
    BY <1>3 DEF StartIdle, StartTour, AfterDelay, Calm
  <2> QED BY <1>1, <2>1 DEF Launched, Started
<1>4. ASSUME NEW n \in Node, Started(n), NEW to \in {"loop", "select", "exited"},
             pc' = [pc EXCEPT ![n] = to]
      PROVE  Launched'
  BY <1>1, <1>4 DEF Launched, Started
<1>5. CASE UNCHANGED pc
  BY <1>1, <1>5 DEF Launched, Started
<1>6. ASSUME NEW n \in Node, Ping(n) \/ Wait(n) \/ ReadPing(n) \/ ReceiveMcast(n)
                             \/ AlarmOnTime(n) \/ Timeout(n)
                             \/ \E p \in route : ReceiveRoute(n, p)
      PROVE  Launched'
  <2>1. Started(n) /\ \E to \in {"loop", "select", "exited"} : pc' = [pc EXCEPT ![n] = to]
    BY <1>6 DEF Ping, Wait, ReadPing, ReceiveMcast, AlarmOnTime, Timeout, ReceiveRoute,
                Started
  <2> QED BY <2>1, <1>4
<1>7. ASSUME NEW n \in Node, Forward(n) \/ JoinGroup(n) \/ AlarmInLoop(n)
      PROVE  UNCHANGED pc
  BY <1>7, ForwardSends DEF JoinGroup, AlarmInLoop
<1>8. CASE UNCHANGED vars
  BY <1>5, <1>8 DEF vars
<1> QED
  BY <1>2, <1>3, <1>5, <1>6, <1>7, <1>8, CalmSteps DEF Next, Process, Finished

\* A stop more.
LEMMA OneMoreVisit ==
  ASSUME NEW S, NEW v \in Seq(S), v # <<>>, NEW n \in S, NEW m
  PROVE  /\ Visits(Append(v, n), m) <=> Visits(v, m) \/ m = n
         /\ Received(Append(v, n), m) <=> Received(v, m) \/ m = n
<1>1. PICK k \in Nat : k = Len(v)
  OBVIOUS
<1>2. /\ Len(Append(v, n)) = k + 1 /\ Append(v, n)[k + 1] = n
      /\ \A i \in 1..k : Append(v, n)[i] = v[i]
  BY <1>1, AppendProperties
<1>3. k # 0
  BY <1>1, EmptySeq
<1> QED BY <1>1, <1>2, <1>3 DEF Visits, Received

LEMMA RtIsWatched == RtFd < InitialMaxFd
BY FdAssumption DEF InitialMaxFd, Raised

LEMMA OnTourStep ==
  ASSUME Calm, Known, RoundInv, [Next]_vars
  PROVE  \A m \in Node : OnTour(m)'
<1> USE DEF Goto
<1>1. /\ pc \in [Node -> {"down", "delay", "loop", "select", "exited"}]
      /\ join_mcast_triflag \in [Node -> {0, 1, 255}] /\ max_fd \in [Node -> Nat]
      /\ recv_flag \in [Node -> BOOLEAN] /\ ping_flag \in [Node -> BOOLEAN]
      /\ alarm \in [Node -> BOOLEAN] /\ ended \in [Node -> Nat]
      /\ visited \in [Node -> Seq(Addr)]
  BY DEF Known, CustodyInv, TypeOK
<1>2. \A m \in Node : OnTour(m)
  BY DEF RoundInv
\* A step of n that keeps the lists and the group as they are.
<1> DEFINE Kept(m) == /\ pc'[m] = pc[m] /\ recv_flag'[m] = recv_flag[m]
                      /\ ping_flag'[m] = ping_flag[m] /\ alarm'[m] = alarm[m]
                      /\ ended'[m] = ended[m]
<1>3. ASSUME NEW m \in Node, UNCHANGED visited, Kept(m),
             join_mcast_triflag'[m] = join_mcast_triflag[m], max_fd'[m] = max_fd[m]
      PROVE  OnTour(m)'
  BY <1>2, <1>3 DEF OnTour, Duty, Watched
<1>4. ASSUME NEW m \in Node, UNCHANGED visited, Duty(m) => Duty(m)',
             join_mcast_triflag'[m] = join_mcast_triflag[m],
             pc'[m] = "select" => join_mcast_triflag[m] # 1,
             pc'[m] \in {"loop", "select"} => Watched(m, RtFd)'
      PROVE  OnTour(m)'
  BY <1>2, <1>4 DEF OnTour
<1> HIDE DEF Kept
<1>5. ASSUME NEW n \in Node, UNCHANGED <<visited, join_mcast_triflag, max_fd>>,
             \A m \in Node \ {n} : Kept(m),
             Duty(n) => Duty(n)',
             pc'[n] = "select" => join_mcast_triflag[n] # 1,
             pc'[n] \in {"loop", "select"} => pc[n] \in {"loop", "select"}
      PROVE  \A m \in Node : OnTour(m)'
  <2>1. OnTour(n)'
    BY <1>2, <1>4, <1>5 DEF OnTour, Watched
  <2> QED BY <2>1, <1>3, <1>5
<1>6. ASSUME NEW n \in Node, Launch(n) PROVE \A m \in Node : OnTour(m)'
  <2>1. /\ pc[n] = "down" /\ UNCHANGED <<local, history>>
        /\ \E to \in {"delay", "exited"} : pc' = [pc EXCEPT ![n] = to]
    BY <1>6 DEF Launch
  <2>2. \A m \in Node \ {n} : Kept(m)
    BY <1>1, <2>1 DEF Kept
  <2>3. Duty(n) => Duty(n)'
    BY <2>1 DEF Duty
  <2> QED BY <2>1, <2>2, <2>3, <1>1, <1>5
<1>7. ASSUME NEW n \in Node, StartIdle(n) PROVE \A m \in Node : OnTour(m)'
  <2>1. /\ pc[n] = "delay" /\ pc' = [pc EXCEPT ![n] = "loop"]
        /\ max_fd' = [max_fd EXCEPT ![n] = InitialMaxFd]
        /\ UNCHANGED <<visited, join_mcast_triflag, recv_flag, ping_flag, alarm, ended>>
    BY <1>7 DEF StartIdle, AfterDelay
  <2>2. Duty(n) => Duty(n)'
    BY <1>1, <2>1 DEF Duty
  <2>3. Watched(n, RtFd)' /\ pc'[n] = "loop"
    BY <1>1, <2>1, RtIsWatched DEF Watched
  <2>4. OnTour(n)'
    BY <2>1, <2>2, <2>3, <1>4
  <2>5. ASSUME NEW m \in Node \ {n} PROVE Kept(m) /\ max_fd'[m] = max_fd[m]
    BY <1>1, <2>1 DEF Kept
  <2> QED BY <2>1, <2>4, <2>5, <1>3
<1>8. ASSUME NEW n \in Node, StartTour(n) PROVE \A m \in Node : OnTour(m)'
  <2>1. /\ pc[n] = "delay" /\ pc' = [pc EXCEPT ![n] = "loop"]
        /\ max_fd' = [max_fd EXCEPT ![n] = InitialMaxFd]
        /\ join_mcast_triflag' = [join_mcast_triflag EXCEPT ![n] = 1]
        /\ visited' = [visited EXCEPT ![n] = <<n>>]
        /\ UNCHANGED <<recv_flag, ping_flag, alarm, ended>>
    BY <1>8 DEF StartTour, AfterDelay
  <2>2. visited[n] = <<>>
    BY <2>1 DEF Known, CustodyInv, NothingPending
  <2>3. /\ \A m \in Node \ {n} : ~Visits(<<n>>, m) /\ ~Visits(<<>>, m)
        /\ \A m \in Node : ~Received(<<n>>, m) /\ ~Received(<<>>, m)
        /\ Visits(<<n>>, n)
    BY DEF Visits, Received
  <2>4. visited'[n] = <<n>> /\ \A t \in Node \ {n} : visited'[t] = visited[t]
    BY <1>1, <2>1
  <2>5. ASSUME NEW m \in Node
        PROVE  /\ (\E t \in Node : Received(visited'[t], m))
                    <=> \E t \in Node : Received(visited[t], m)
               /\ m # n => ((\E t \in Node : Visits(visited'[t], m))
                              <=> \E t \in Node : Visits(visited[t], m))
    BY <2>2, <2>3, <2>4
  <2>6. ASSUME NEW m \in Node \ {n} PROVE OnTour(m)'
    <3>1. Kept(m) /\ max_fd'[m] = max_fd[m] /\ join_mcast_triflag'[m] = join_mcast_triflag[m]
      BY <1>1, <2>1 DEF Kept
    <3> QED BY <3>1, <2>5, <1>2 DEF OnTour, Kept, Duty, Watched
  <2>7. OnTour(n)'
    <3>1. /\ join_mcast_triflag'[n] = 1 /\ pc'[n] = "loop" /\ max_fd'[n] = InitialMaxFd
          /\ ping_flag'[n] = ping_flag[n]
      BY <1>1, <2>1
    <3>2. Duty(n) => Duty(n)'
      BY <2>1, <3>1 DEF Duty
    <3>3. \E t \in Node : Visits(visited'[t], n)
      BY <2>3, <2>4
    <3>4. Watched(n, RtFd)'
      BY <3>1, RtIsWatched DEF Watched
    <3> QED BY <3>1, <3>2, <3>3, <3>4, <2>5, <1>2 DEF OnTour
  <2> QED BY <2>6, <2>7
<1>9. ASSUME NEW n \in Node, Forward(n) PROVE \A m \in Node : OnTour(m)'
  <2>1. /\ UNCHANGED pc
        /\ UNCHANGED <<visited, join_mcast_triflag, max_fd, recv_flag, ping_flag, alarm, ended>>
    BY <1>9, ForwardSends DEF Forward
  <2> QED BY <2>1, <1>3 DEF Kept
<1>10. ASSUME NEW n \in Node, JoinGroup(n) PROVE \A m \in Node : OnTour(m)'
  <2>1. /\ pc[n] = "loop" /\ join_mcast_triflag[n] = 1
        /\ join_mcast_triflag' = [join_mcast_triflag EXCEPT ![n] = 255]
        /\ max_fd' = [max_fd EXCEPT ![n] = Raised(@, McastFd)]
        /\ UNCHANGED <<pc, visited, recv_flag, ping_flag, alarm, ended>>
    BY <1>10 DEF JoinGroup
  <2>2. ASSUME NEW m \in Node \ {n} PROVE OnTour(m)'
    <3>1. Kept(m) /\ max_fd'[m] = max_fd[m] /\ join_mcast_triflag'[m] = join_mcast_triflag[m]
      BY <1>1, <2>1 DEF Kept
    <3> QED BY <3>1, <2>1, <1>3
  <2>3. OnTour(n)'
    <3>1. join_mcast_triflag'[n] = 255 /\ max_fd'[n] = Raised(max_fd[n], McastFd)
      BY <1>1, <2>1
    <3>2. max_fd[n] \in Nat /\ Raised(max_fd[n], McastFd) >= max_fd[n]
      BY <1>1, FdAssumption DEF Raised
    <3>3. Watched(n, RtFd)'
      <4>1. RtFd < max_fd[n]
        BY <2>1, <1>2 DEF OnTour, Watched
      <4>2. Raised(max_fd[n], McastFd) \in Nat
        BY <3>2, FdAssumption DEF Raised
      <4> QED BY <4>1, <4>2, <3>1, <3>2, FdAssumption DEF Watched
    <3>4. Duty(n) => Duty(n)'
      BY <2>1 DEF Duty
    <3>5. \E t \in Node : Visits(visited[t], n)
      BY <2>1, <1>2 DEF OnTour
    <3> QED BY <3>1, <3>3, <3>4, <3>5, <2>1, <1>2 DEF OnTour
  <2> QED BY <2>2, <2>3
<1>11. ASSUME NEW n \in Node, Ping(n) \/ Wait(n) PROVE \A m \in Node : OnTour(m)'
  <2>1. /\ pc[n] = "loop" /\ pc' = [pc EXCEPT ![n] = "select"] /\ join_mcast_triflag[n] # 1
        /\ \/ alarm' = [alarm EXCEPT ![n] = TRUE] /\ ping_flag' = [ping_flag EXCEPT ![n] = FALSE]
           \/ UNCHANGED <<alarm, ping_flag>> /\ (~ping_flag[n] \/ recv_flag[n])
        /\ UNCHANGED <<visited, join_mcast_triflag, max_fd, recv_flag, ended>>
    BY <1>11 DEF Ping, Wait, ReadyToPing, SetAlarm
  <2>2. \A m \in Node \ {n} : Kept(m)
    BY <1>1, <2>1 DEF Kept
  <2>3. Duty(n) => Duty(n)'
    BY <1>1, <2>1 DEF Duty
  <2> QED BY <2>1, <2>2, <2>3, <1>5
<1>12. ASSUME NEW n \in Node, NEW p \in route, ReceiveRoute(n, p)
       PROVE  \A m \in Node : OnTour(m)'
  <2>1. /\ pc[n] = "select" /\ pc' = [pc EXCEPT ![n] = "loop"]
        /\ ping_flag' = [ping_flag EXCEPT ![n] = TRUE]
        /\ join_mcast_triflag' = [join_mcast_triflag EXCEPT ![n] = IF @ # 255 THEN 1 ELSE @]
        /\ UNCHANGED <<recv_flag, alarm, max_fd, ended>>
    BY <1>12 DEF ReceiveRoute, StartPinging
  <2> DEFINE u == p.tour
             v == visited[u]
  <2>2. /\ u \in Node /\ v \in Seq(Addr) /\ v # <<>>
        /\ visited' = [visited EXCEPT ![u] = Append(v, n)]
    BY <1>12, ReceiveAdvances DEF Known
  <2> HIDE DEF u
  <2>3. visited'[u] = Append(v, n) /\ \A t \in Node \ {u} : visited'[t] = visited[t]
    BY <1>1, <2>2
  <2>4. ASSUME NEW m \in Node
        PROVE  /\ Visits(Append(v, n), m) <=> Visits(v, m) \/ m = n
               /\ Received(Append(v, n), m) <=> Received(v, m) \/ m = n
    <3>1. n \in Addr
      BY DEF Addr
    <3> QED BY <3>1, <2>2, OneMoreVisit
  <2>5. ASSUME NEW m \in Node
        PROVE  /\ (\E t \in Node : Visits(visited'[t], m))
                    <=> (m = n \/ \E t \in Node : Visits(visited[t], m))
               /\ (\E t \in Node : Received(visited'[t], m))
                    <=> (m = n \/ \E t \in Node : Received(visited[t], m))
    BY <2>2, <2>3, <2>4
  <2>6. ASSUME NEW m \in Node \ {n} PROVE OnTour(m)'
    <3>1. /\ Kept(m) /\ max_fd'[m] = max_fd[m]
          /\ join_mcast_triflag'[m] = join_mcast_triflag[m]
      BY <1>1, <2>1 DEF Kept
    <3> QED BY <3>1, <2>5, <1>2 DEF OnTour, Kept, Duty, Watched
  <2>7. OnTour(n)'
    <3>1. join_mcast_triflag'[n] # 0 /\ pc'[n] = "loop" /\ ping_flag'[n] /\ max_fd'[n] = max_fd[n]
      BY <1>1, <2>1
    <3>2. Duty(n)'
      BY <3>1 DEF Duty
    <3>3. Watched(n, RtFd)'
      BY <3>1, <2>1, <1>2 DEF OnTour, Watched
    <3> QED BY <3>1, <3>2, <3>3, <2>5 DEF OnTour
  <2> QED BY <2>6, <2>7
<1>13. ASSUME NEW n \in Node, ReadPing(n) PROVE \A m \in Node : OnTour(m)'
  <2>1. /\ pc[n] = "select" /\ pc' = [pc EXCEPT ![n] = "loop"] /\ UNCHANGED <<local, history>>
    BY <1>13 DEF ReadPing
  <2>2. \A m \in Node \ {n} : Kept(m)
    BY <1>1, <2>1 DEF Kept
  <2>3. Duty(n) => Duty(n)'
    BY <1>1, <2>1 DEF Duty
  <2> QED BY <2>1, <2>2, <2>3, <1>1, <1>5
<1>14. ASSUME NEW n \in Node, ReceiveMcast(n) PROVE \A m \in Node : OnTour(m)'
  <2>1. /\ pc[n] = "select" /\ pc' = [pc EXCEPT ![n] = "loop"]
        /\ recv_flag' = [recv_flag EXCEPT ![n] = TRUE]
        /\ ping_flag' = [ping_flag EXCEPT ![n] = FALSE]
        /\ UNCHANGED <<visited, join_mcast_triflag, max_fd, alarm, ended>>
    BY <1>14 DEF ReceiveMcast
  <2>2. \A m \in Node \ {n} : Kept(m)
    BY <1>1, <2>1 DEF Kept
  <2>3. Duty(n)'
    BY <1>1, <2>1 DEF Duty
  <2> QED BY <2>1, <2>2, <2>3, <1>1, <1>5
<1>15. ASSUME NEW n \in Node, AlarmOnTime(n) PROVE \A m \in Node : OnTour(m)'
  <2>1. /\ pc[n] = "select" /\ pc' = [pc EXCEPT ![n] = "loop"]
        /\ alarm' = [alarm EXCEPT ![n] = FALSE]
        /\ ping_flag' = [ping_flag EXCEPT ![n] = ~EndDue(n)]
        /\ IF EndDue(n) THEN ended' = [ended EXCEPT ![n] = @ + 1] ELSE UNCHANGED ended
        /\ UNCHANGED <<visited, join_mcast_triflag, max_fd, recv_flag>>
    BY <1>15 DEF AlarmOnTime, FlagAfterAlarm
  <2>2. \A m \in Node \ {n} : Kept(m)
    BY <1>1, <2>1 DEF Kept
  <2>3. Duty(n)'
    <3>1. CASE EndDue(n)
      <4>1. ended[n] \in Nat /\ ended' = [ended EXCEPT ![n] = @ + 1]
        BY <1>1, <2>1, <3>1
      <4>2. ended'[n] = ended[n] + 1
        BY <1>1, <4>1
      <4> QED BY <4>1, <4>2 DEF Duty
    <3>2. CASE ~EndDue(n)
      <4>1. ping_flag'[n] = ~EndDue(n) /\ pc'[n] = "loop"
        BY <1>1, <2>1
      <4> QED BY <3>2, <4>1 DEF Duty
    <3> QED BY <3>1, <3>2
  <2> QED BY <2>1, <2>2, <2>3, <1>1, <1>5
<1>16. ASSUME NEW n \in Node, AlarmInLoop(n) PROVE \A m \in Node : OnTour(m)'
  <2>1. /\ pc[n] = "loop" /\ ping_flag' = [ping_flag EXCEPT ![n] = TRUE]
        /\ alarm' = [alarm EXCEPT ![n] = FALSE]
        /\ UNCHANGED <<pc, visited, join_mcast_triflag, max_fd, recv_flag, ended>>
    BY <1>16 DEF AlarmInLoop
  <2>2. \A m \in Node \ {n} : Kept(m)
    BY <1>1, <2>1 DEF Kept
  <2>3. Duty(n)'
    BY <1>1, <2>1 DEF Duty
  <2> QED BY <2>1, <2>2, <2>3, <1>1, <1>5
<1>17. ASSUME NEW n \in Node, Timeout(n) PROVE \A m \in Node : OnTour(m)'
  <2>1. /\ pc[n] = "select" /\ pc' = [pc EXCEPT ![n] = "exited"] /\ ~alarm[n]
        /\ UNCHANGED <<local, history>>
    BY <1>17 DEF Timeout
  <2>2. \A m \in Node \ {n} : Kept(m)
    BY <1>1, <2>1 DEF Kept
  <2>3. Duty(n) => Duty(n)'
    BY <1>1, <2>1 DEF Duty
  <2> QED BY <2>1, <2>2, <2>3, <1>1, <1>5
<1>18. CASE UNCHANGED vars
  BY <1>18, <1>3 DEF vars, Kept
<1> QED
  BY <1>6, <1>7, <1>8, <1>9, <1>10, <1>11, <1>12, <1>13, <1>14, <1>15, <1>16, <1>17, <1>18,
     CalmSteps DEF Next, Process, Finished

(***************************************************************************)
(* The steps that are left when everything is settled, in what they do to  *)
(* the process that takes them, to the others and to the queues.           *)
(***************************************************************************)
AsBefore(m) ==
  /\ pc'[m] = pc[m] /\ alarm'[m] = alarm[m] /\ due'[m] = due[m] /\ idle'[m] = idle[m]
  /\ ping_flag'[m] = ping_flag[m] /\ recv_flag'[m] = recv_flag[m]
  /\ ended'[m] = ended[m] /\ heard'[m] = heard[m]

Fixed == UNCHANGED <<route, me_flag, join_mcast_triflag, max_fd, ping_list, visited, plan>>

Alone(n) == Fixed /\ \A m \in Node \ {n} : AsBefore(m)

Hears(q, m) == \E i \in 1..Len(q) : q[i] = m
End(k) == [type |-> "end", from |-> k]
Identify(k) == [type |-> "identify", from |-> k]

\* Nothing is taken from the queue of another process.
QueuesGrow(n) ==
  \A x \in Node \ {n} :
    /\ \A m : Hears(mcastq[x], m) => Hears(mcastq'[x], m)
    /\ mcastq[x] # <<>> => mcastq'[x] # <<>>
    /\ mcastq'[x] # <<>> => mcastq[x] # <<>> \/ Member(x)

Pinging(n) ==
  /\ Alone(n) /\ UNCHANGED mcastq
  /\ pc[n] = "loop" /\ ping_flag[n] /\ ~recv_flag[n]
  /\ pc'[n] = "select" /\ idle'[n] = 0 /\ ~due'[n] /\ alarm'[n] /\ ~ping_flag'[n]
  /\ recv_flag'[n] = recv_flag[n] /\ ended'[n] = ended[n] /\ heard'[n] = heard[n]
  /\ \A m \in Node : icmp[m] => icmp'[m]
  /\ \A m \in Node : Holds(ping_list[n], m) /\ Open(m) => icmp'[m]

Waiting(n) ==
  /\ Alone(n) /\ UNCHANGED <<mcastq, icmp>>
  /\ pc[n] = "loop" /\ (~ping_flag[n] \/ recv_flag[n])
  /\ pc'[n] = "select" /\ idle'[n] = 0 /\ due'[n] = due[n] /\ alarm'[n] = alarm[n]
  /\ ping_flag'[n] = ping_flag[n] /\ recv_flag'[n] = recv_flag[n]
  /\ ended'[n] = ended[n] /\ heard'[n] = heard[n]

Reading(n) ==
  /\ Alone(n) /\ UNCHANGED mcastq
  /\ pc[n] = "select" /\ pc'[n] = "loop"
  /\ due'[n] = due[n] /\ alarm'[n] = alarm[n] /\ idle'[n] = idle[n]
  /\ ping_flag'[n] = ping_flag[n] /\ recv_flag'[n] = recv_flag[n]
  /\ ended'[n] = ended[n] /\ heard'[n] = heard[n]
  /\ \A m \in Node \ {n} : icmp'[m] = icmp[m]

Ringing(n) ==
  /\ Alone(n) /\ UNCHANGED <<mcastq, icmp>>
  /\ due[n] /\ alarm[n] /\ pc'[n] = "loop" /\ ~due'[n] /\ ~alarm'[n] /\ ping_flag'[n]
  /\ recv_flag'[n] = recv_flag[n] /\ ended'[n] = ended[n] /\ heard'[n] = heard[n]

Ending(n) ==
  /\ Alone(n) /\ UNCHANGED icmp
  /\ due[n] /\ alarm[n] /\ pc[n] = "select"
  /\ pc'[n] = "loop" /\ ~due'[n] /\ ~alarm'[n] /\ ~ping_flag'[n]
  /\ recv_flag'[n] = recv_flag[n] /\ ended'[n] > 0 /\ heard'[n] = heard[n]
  /\ QueuesGrow(n) /\ mcastq'[n] = mcastq[n]
  /\ \A x \in Node \ {n} :
       Member(x) => Hears(mcastq'[x], End(n)) /\ mcastq'[x] # <<>>

Leaving(n) ==
  /\ Alone(n)
  /\ pc[n] = "select" /\ ~alarm[n] /\ idle[n] > 1
  /\ Watched(n, McastFd) => mcastq[n] = <<>>
  /\ pc'[n] = "exited" /\ due'[n] = due[n] /\ alarm'[n] = alarm[n] /\ idle'[n] = idle[n]
  /\ ping_flag'[n] = ping_flag[n] /\ recv_flag'[n] = recv_flag[n]
  /\ ended'[n] = ended[n] /\ heard'[n] = heard[n] /\ mcastq'[n] = <<>>
  /\ \A m \in Node \ {n} : icmp'[m] = icmp[m] /\ mcastq'[m] = mcastq[m]

Hearing(n) ==
  /\ Alone(n) /\ UNCHANGED icmp
  /\ pc[n] = "select" /\ mcastq[n] # <<>> /\ Member(n)
  /\ pc'[n] = "loop" /\ due'[n] = due[n] /\ alarm'[n] = alarm[n] /\ idle'[n] = idle[n]
  /\ ~ping_flag'[n] /\ recv_flag'[n] /\ ended'[n] = ended[n] /\ heard[n] \subseteq heard'[n]
  /\ QueuesGrow(n) /\ mcastq'[n] = Tail(mcastq[n])
  /\ \A x \in Node :
       /\ Head(mcastq[n]) = Identify(x) => x \in heard'[n]
       /\ Head(mcastq[n]) = End(x) /\ Member(x) /\ x # n
            => Hears(mcastq'[x], Identify(n))

\* A list of messages with one more, and without its first.
LEMMA QueueHears ==
  ASSUME NEW S, NEW q \in Seq(S), NEW e \in S
  PROVE  /\ \A m : Hears(Append(q, e), m) <=> Hears(q, m) \/ m = e
         /\ Append(q, e) # <<>>
         /\ q # <<>> => \A m : Hears(q, m) => m = Head(q) \/ Hears(Tail(q), m)
         /\ \A m : Hears(q, m) => q # <<>>
<1>1. PICK k \in Nat : k = Len(q)
  OBVIOUS
<1>2. /\ Append(q, e) \in Seq(S) /\ Len(Append(q, e)) = k + 1 /\ Append(q, e)[k + 1] = e
      /\ \A i \in 1..k : Append(q, e)[i] = q[i]
  BY <1>1, AppendProperties
<1>3. Append(q, e) # <<>>
  <2> DEFINE r == Append(q, e)
  <2>1. Len(r) = k + 1
    BY <1>2
  <2> HIDE DEF r
  <2>2. Len(r) # 0
    BY <2>1
  <2>3. r # <<>>
    BY <2>2
  <2> QED BY <2>3 DEF r
<1>4. \A m : Hears(Append(q, e), m) <=> Hears(q, m) \/ m = e
  <2> DEFINE r == Append(q, e)
  <2>1. Len(r) = k + 1 /\ r[k + 1] = e /\ \A i \in 1..k : r[i] = q[i]
    BY <1>2
  <2> HIDE DEF r
  <2>2. \A m : Hears(r, m) <=> Hears(q, m) \/ m = e
    <3> TAKE m
    <3>1. ASSUME NEW i \in 1..(k + 1), r[i] = m PROVE Hears(q, m) \/ m = e
      BY <1>1, <2>1, <3>1 DEF Hears
    <3>2. ASSUME NEW i \in 1..k, q[i] = m PROVE Hears(r, m)
      BY <2>1, <3>2 DEF Hears
    <3>3. m = e => Hears(r, m)
      BY <2>1 DEF Hears
    <3>4. Hears(r, m) => Hears(q, m) \/ m = e
      BY <3>1, <2>1 DEF Hears
    <3>5. Hears(q, m) => Hears(r, m)
      BY <3>2, <1>1 DEF Hears
    <3> QED BY <3>3, <3>4, <3>5
  <2> QED BY <2>2 DEF r
<1>5. ASSUME q # <<>>, NEW m, Hears(q, m) PROVE m = Head(q) \/ Hears(Tail(q), m)
  <2>1. /\ Head(q) = q[1] /\ Len(Tail(q)) = k - 1
        /\ \A i \in 1..(k - 1) : Tail(q)[i] = q[i + 1]
    BY <1>1, <1>5, HeadTailProperties
  <2>2. PICK i \in 1..k : q[i] = m
    BY <1>1, <1>5 DEF Hears
  <2>3. CASE i = 1
    BY <2>1, <2>2, <2>3
  <2>4. CASE i # 1
    <3>1. i - 1 \in 1..(k - 1) /\ (i - 1) + 1 = i
      BY <2>4
    <3>2. Tail(q)[i - 1] = m
      BY <3>1, <2>1, <2>2
    <3>3. i - 1 \in 1..Len(Tail(q))
      BY <3>1, <2>1
    <3> QED BY <3>2, <3>3 DEF Hears
  <2> QED BY <2>3, <2>4
<1>6. \A m : Hears(q, m) => q # <<>>
  BY <1>1, EmptySeq DEF Hears
<1> QED BY <1>3, <1>4, <1>5, <1>6

\* Queues r are queues q with m from n in those of the other members.
Carries(q, r, m, n) ==
  /\ r[n] = q[n]
  /\ \A x \in Node \ {n} :
       /\ \A w : Hears(q[x], w) => Hears(r[x], w)
       /\ q[x] # <<>> => r[x] # <<>>
       /\ r[x] # <<>> => q[x] # <<>> \/ Member(x)
       /\ Member(x) => Hears(r[x], m) /\ r[x] # <<>>

LEMMA MulticastCarries ==
  ASSUME NEW n \in Node, NEW m \in McastMsg, NEW q \in [Node -> Seq(McastMsg)]
  PROVE  Carries(q, Multicast(n, m, q), m, n)
<1> DEFINE r == Multicast(n, m, q)
<1>1. r[n] = q[n]
  BY DEF Multicast
<1>2. ASSUME NEW x \in Node \ {n}
      PROVE  /\ \A w : Hears(q[x], w) => Hears(r[x], w)
             /\ q[x] # <<>> => r[x] # <<>>
             /\ r[x] # <<>> => q[x] # <<>> \/ Member(x)
             /\ Member(x) => Hears(r[x], m) /\ r[x] # <<>>
  <2>1. r[x] = IF Member(x) THEN Append(q[x], m) ELSE q[x]
    BY DEF Multicast
  <2>2. /\ \A w : Hears(Append(q[x], m), w) <=> Hears(q[x], w) \/ w = m
        /\ Append(q[x], m) # <<>>
    <3>1. q[x] \in Seq(McastMsg)
      OBVIOUS
    <3> QED BY <3>1, QueueHears
  <2> HIDE DEF r
  <2>3. CASE Member(x)
    BY <2>1, <2>2, <2>3
  <2>4. CASE ~Member(x)
    BY <2>1, <2>4
  <2> QED BY <2>3, <2>4
<1> HIDE DEF r
<1>3. Carries(q, r, m, n)
  BY <1>1, <1>2 DEF Carries
<1> QED BY <1>3 DEF r

\* Each late step does what is said of it above.
LEMMA PingDoes ==
  ASSUME TypeOK, TimedType, NEW n \in Node, TPing(n) PROVE Pinging(n)
<1>1. /\ pc[n] = "loop" /\ pc' = [pc EXCEPT ![n] = "select"]
      /\ ping_flag[n] /\ ~recv_flag[n]
      /\ ping_flag' = [ping_flag EXCEPT ![n] = FALSE]
      /\ alarm' = [alarm EXCEPT ![n] = TRUE]
      /\ UNCHANGED <<me_flag, join_mcast_triflag, recv_flag, ping_list, max_fd, network, history>>
      /\ idle' = [idle EXCEPT ![n] = 0]
      /\ due' = [due EXCEPT ![n] = FALSE]
  BY DEF TPing, Ping, Goto, SetAlarm
<1>2. Fixed
  BY <1>1 DEF Fixed
<1>3. ASSUME NEW m \in Node \ {n} PROVE AsBefore(m)
  BY <1>1 DEF AsBefore, TypeOK, TimedType
<1>4. /\ pc'[n] = "select" /\ idle'[n] = 0 /\ ~due'[n] /\ alarm'[n] /\ ~ping_flag'[n]
  BY <1>1 DEF TypeOK, TimedType
<1>5. ASSUME NEW m \in Node
      PROVE  /\ icmp[m] => icmp'[m]
             /\ Holds(ping_list[n], m) /\ Open(m) => icmp'[m]
  <2> DEFINE targets == {ping_list[n][i] : i \in DOMAIN ping_list[n]} \cap Node
             reached == {x \in targets : Open(x)} \cup {x \in {n} : targets # {}}
  <2>1. icmp' = [x \in Node |-> icmp[x] \/ x \in reached]
    BY DEF TPing
  <2>2. Holds(ping_list[n], m) /\ Open(m) => m \in reached
    BY DEF Holds
  <2> HIDE DEF reached
  <2>3. icmp'[m] = (icmp[m] \/ m \in reached)
    BY <2>1
  <2> QED BY <2>2, <2>3
<1> QED BY <1>1, <1>2, <1>3, <1>4, <1>5 DEF Pinging, Alone

LEMMA WaitDoes ==
  ASSUME TypeOK, TimedType, NEW n \in Node, TWait(n) PROVE Waiting(n)
<1>1. /\ pc[n] = "loop" /\ pc' = [pc EXCEPT ![n] = "select"]
      /\ ~ping_flag[n] \/ recv_flag[n]
      /\ UNCHANGED <<local, network, history, due, icmp>>
      /\ idle' = [idle EXCEPT ![n] = 0]
  BY DEF TWait, Wait, Goto
<1>2. Fixed
  BY <1>1 DEF Fixed
<1>3. ASSUME NEW m \in Node \ {n} PROVE AsBefore(m)
  BY <1>1 DEF AsBefore, TypeOK, TimedType
<1>4. pc'[n] = "select" /\ idle'[n] = 0
  BY <1>1 DEF TypeOK, TimedType
<1> QED BY <1>1, <1>2, <1>3, <1>4 DEF Waiting, Alone

LEMMA ReadDoes ==
  ASSUME TypeOK, TimedType, NEW n \in Node, TReadPing(n) PROVE Reading(n)
<1>1. /\ pc[n] = "select" /\ pc' = [pc EXCEPT ![n] = "loop"]
      /\ UNCHANGED <<local, network, history, due, idle>>
      /\ icmp' = [icmp EXCEPT ![n] = FALSE]
  BY DEF TReadPing, ReadPing, Goto, Drained
<1>2. Fixed
  BY <1>1 DEF Fixed
<1>3. ASSUME NEW m \in Node \ {n} PROVE AsBefore(m) /\ icmp'[m] = icmp[m]
  BY <1>1 DEF AsBefore, TypeOK, TimedType
<1>4. pc'[n] = "loop"
  BY <1>1 DEF TypeOK
<1> QED BY <1>1, <1>2, <1>3, <1>4 DEF Reading, Alone

LEMMA AlarmDoes ==
  ASSUME TypeOK, TimedType, NEW n \in Node, TAlarm(n), ~AlarmTooEarly(n)
  PROVE  Ringing(n) \/ Ending(n)
<1>1. /\ due[n] /\ due' = [due EXCEPT ![n] = FALSE] /\ UNCHANGED <<idle, icmp>>
      /\ AlarmOnTime(n) \/ AlarmInLoop(n)
  BY DEF TAlarm
<1>2. CASE AlarmInLoop(n)
  <2>1. /\ pc[n] = "loop" /\ alarm[n] /\ alarm' = [alarm EXCEPT ![n] = FALSE]
        /\ ping_flag' = [ping_flag EXCEPT ![n] = TRUE]
        /\ UNCHANGED <<pc, me_flag, join_mcast_triflag, recv_flag, ping_list, max_fd,
                       network, history>>
    BY <1>2 DEF AlarmInLoop
  <2>2. Fixed
    BY <2>1 DEF Fixed
  <2>3. ASSUME NEW m \in Node \ {n} PROVE AsBefore(m)
    BY <1>1, <2>1 DEF AsBefore, TypeOK, TimedType
  <2>4. ~due'[n] /\ ~alarm'[n] /\ ping_flag'[n]
    BY <1>1, <2>1 DEF TypeOK, TimedType
  <2> QED BY <1>1, <2>1, <2>2, <2>3, <2>4 DEF Ringing, Alone
<1>3. CASE AlarmOnTime(n)
  <2>1. /\ pc[n] = "select" /\ pc' = [pc EXCEPT ![n] = "loop"]
        /\ alarm[n] /\ alarm' = [alarm EXCEPT ![n] = FALSE]
        /\ ping_flag' = [ping_flag EXCEPT ![n] = FlagAfterAlarm(n)]
        /\ UNCHANGED <<me_flag, join_mcast_triflag, recv_flag, ping_list, max_fd, route,
                       plan, visited, heard>>
    BY <1>3 DEF AlarmOnTime, Goto
  <2>2. Fixed
    BY <2>1 DEF Fixed
  <2>3. pc'[n] = "loop" /\ ~due'[n] /\ ~alarm'[n] /\ ping_flag'[n] = FlagAfterAlarm(n)
    BY <1>1, <2>1 DEF TypeOK, TimedType
  <2>4. ASSUME NEW m \in Node \ {n}
        PROVE  /\ pc'[m] = pc[m] /\ alarm'[m] = alarm[m] /\ due'[m] = due[m]
               /\ ping_flag'[m] = ping_flag[m]
    BY <1>1, <2>1 DEF TypeOK, TimedType
  <2>5. CASE EndDue(n)
    <3>1. /\ mcastq' = Multicast(n, End(n), mcastq)
          /\ ended' = [ended EXCEPT ![n] = @ + 1]
      BY <1>3, <2>5, Zenon DEF AlarmOnTime, End
    <3>2. ended \in [Node -> Nat] /\ mcastq \in [Node -> Seq(McastMsg)] /\ End(n) \in McastMsg
      BY DEF TypeOK, McastMsg, End
    <3>3. ended'[n] > 0 /\ \A m \in Node \ {n} : ended'[m] = ended[m]
      BY <3>1, <3>2
    <3>4. QueuesGrow(n) /\ mcastq'[n] = mcastq[n]
          /\ \A x \in Node \ {n} :
               Member(x) => Hears(mcastq'[x], End(n)) /\ mcastq'[x] # <<>>
      <4>1. Carries(mcastq, mcastq', End(n), n)
        BY <3>1, <3>2, MulticastCarries
      <4> QED BY <4>1 DEF Carries, QueuesGrow
    <3>5. ASSUME NEW m \in Node \ {n} PROVE AsBefore(m)
      BY <1>1, <2>1, <2>4, <3>3 DEF AsBefore
    <3>6. ~ping_flag'[n]
      BY <2>3, <2>5 DEF FlagAfterAlarm
    <3> QED BY <1>1, <2>1, <2>2, <2>3, <3>3, <3>4, <3>5, <3>6 DEF Ending, Alone
  <2>6. CASE ~EndDue(n)
    <3>1. UNCHANGED <<mcastq, ended>>
      BY <1>3, <2>6, Zenon DEF AlarmOnTime
    <3>2. ASSUME NEW m \in Node \ {n} PROVE AsBefore(m)
      BY <1>1, <2>1, <2>4, <3>1 DEF AsBefore
    <3>3. ping_flag'[n]
      BY <2>3, <2>6 DEF FlagAfterAlarm
    <3> QED BY <1>1, <2>1, <2>2, <2>3, <3>1, <3>2, <3>3 DEF Ringing, Alone
  <2> QED BY <2>5, <2>6
<1> QED BY <1>1, <1>2, <1>3

LEMMA TimeoutDoes ==
  ASSUME TypeOK, TimedType, NEW n \in Node, TTimeout(n) PROVE Leaving(n)
<1>1. /\ pc[n] = "select" /\ pc' = [pc EXCEPT ![n] = "exited"] /\ ~alarm[n]
      /\ mcastq' = [mcastq EXCEPT ![n] = <<>>]
      /\ UNCHANGED <<local, route, history, idle, due>>
      /\ icmp' = [icmp EXCEPT ![n] = FALSE]
      /\ idle[n] = Limit(n) /\ ~Readable(n)
  BY DEF TTimeout, Timeout, Goto
<1>2. idle[n] > 1 /\ (Watched(n, McastFd) => mcastq[n] = <<>>)
  BY <1>1, TimeoutAssumption DEF Limit, Readable
<1>3. Fixed
  BY <1>1 DEF Fixed
<1>4. ASSUME NEW m \in Node \ {n}
      PROVE  AsBefore(m) /\ icmp'[m] = icmp[m] /\ mcastq'[m] = mcastq[m]
  BY <1>1 DEF AsBefore, TypeOK, TimedType
<1>5. pc'[n] = "exited" /\ mcastq'[n] = <<>>
  BY <1>1 DEF TypeOK
<1> QED BY <1>1, <1>2, <1>3, <1>4, <1>5 DEF Leaving, Alone

LEMMA ReceiveDoes ==
  ASSUME TypeOK, TimedType, NEW n \in Node, ReceiveMcast(n), UNCHANGED timing
  PROVE  Hearing(n)
<1> DEFINE m == Head(mcastq[n])
           rest == [mcastq EXCEPT ![n] = Tail(@)]
<1>1. /\ pc[n] = "select" /\ pc' = [pc EXCEPT ![n] = "loop"]
      /\ Member(n) /\ mcastq[n] # <<>>
      /\ recv_flag' = [recv_flag EXCEPT ![n] = TRUE]
      /\ ping_flag' = [ping_flag EXCEPT ![n] = FALSE]
      /\ mcastq' = Answer(n, m, rest)
      /\ heard' = [heard EXCEPT ![n] = IF m.type = "identify" THEN @ \cup {m.from} ELSE @]
      /\ UNCHANGED <<me_flag, join_mcast_triflag, ping_list, max_fd, alarm, route,
                     plan, visited, ended, idle, due, icmp>>
  BY DEF ReceiveMcast, Goto, timing
<1>2. /\ mcastq[n] \in Seq(McastMsg) /\ m \in McastMsg
      /\ rest \in [Node -> Seq(McastMsg)] /\ rest[n] = Tail(mcastq[n])
      /\ \A x \in Node \ {n} : rest[x] = mcastq[x]
      /\ Identify(n) \in McastMsg
  <2>1. mcastq \in [Node -> Seq(McastMsg)]
    BY DEF TypeOK
  <2>2. mcastq[n] \in Seq(McastMsg) /\ mcastq[n] # <<>>
    BY <1>1, <2>1
  <2>3. m \in McastMsg /\ Tail(mcastq[n]) \in Seq(McastMsg)
    BY <2>2
  <2>4. Identify(n) \in McastMsg
    BY DEF McastMsg, Identify
  <2> QED BY <2>1, <2>2, <2>3, <2>4
<1> HIDE DEF rest
<1>3. Fixed
  BY <1>1 DEF Fixed
<1>4. ASSUME NEW x \in Node \ {n} PROVE AsBefore(x)
  <2>1. pc'[x] = pc[x] /\ recv_flag'[x] = recv_flag[x] /\ ping_flag'[x] = ping_flag[x]
    BY <1>1 DEF TypeOK
  <2>2. heard'[x] = heard[x]
    BY <1>1 DEF TypeOK
  <2> QED BY <1>1, <2>1, <2>2 DEF AsBefore
<1>5. pc'[n] = "loop" /\ recv_flag'[n] /\ ~ping_flag'[n]
  BY <1>1 DEF TypeOK
<1>6. /\ heard[n] \subseteq heard'[n]
      /\ \A x \in Node : m = Identify(x) => x \in heard'[n]
  <2>1. heard'[n] = IF m.type = "identify" THEN heard[n] \cup {m.from} ELSE heard[n]
    BY <1>1 DEF TypeOK
  <2> HIDE DEF m
  <2> QED BY <2>1 DEF Identify
<1>7. \/ m.type = "end" /\ mcastq' = Multicast(n, Identify(n), rest)
      \/ m.type # "end" /\ mcastq' = rest
  BY <1>1, Zenon DEF Answer, Identify
<1> HIDE DEF m
<1>8. /\ QueuesGrow(n) /\ mcastq'[n] = Tail(mcastq[n])
      /\ \A x \in Node \ {n} : m = End(x) /\ Member(x) => Hears(mcastq'[x], Identify(n))
  <2>1. CASE m.type = "end" /\ mcastq' = Multicast(n, Identify(n), rest)
    <3>1. Carries(rest, mcastq', Identify(n), n)
      BY <2>1, <1>2, MulticastCarries
    <3> QED BY <3>1, <1>2 DEF Carries, QueuesGrow
  <2>2. CASE m.type # "end" /\ mcastq' = rest
    <3>1. \A x : m # End(x)
      BY <2>2 DEF End
    <3> QED BY <2>2, <3>1, <1>2 DEF QueuesGrow
  <2> QED BY <2>1, <2>2, <1>7
<1> QED BY <1>1, <1>3, <1>4, <1>5, <1>6, <1>8 DEF Hearing, Alone, m

LateStep(n) ==
  Pinging(n) \/ Waiting(n) \/ Reading(n) \/ Ringing(n) \/ Ending(n) \/ Leaving(n) \/ Hearing(n)

Ticking ==
  /\ Fixed
  /\ UNCHANGED <<pc, alarm, ping_flag, recv_flag, ended, heard, mcastq, icmp>>
  /\ \A n \in Node :
       \/ pc[n] = "exited"
       \/ /\ pc[n] = "select" /\ ~due[n]
          /\ Watched(n, McastFd) => mcastq[n] = <<>>
          /\ Watched(n, PingFd) => ~icmp[n]
  /\ \A n \in Node : /\ due'[n] = alarm[n]
                     /\ idle'[n] = IF pc[n] = "select" THEN idle[n] + 1 ELSE idle[n]

LEMMA TickDoes ==
  ASSUME Calm, TypeOK, TimedType, Tick PROVE Ticking
<1>1. /\ UNCHANGED <<vars, icmp>> /\ due' = alarm
      /\ idle' = [n \in Node |-> IF pc[n] = "select" THEN idle[n] + 1 ELSE idle[n]]
  BY DEF Tick
<1>2. /\ Fixed
      /\ UNCHANGED <<pc, alarm, ping_flag, recv_flag, ended, heard, mcastq, icmp>>
  BY <1>1 DEF Fixed, vars
<1>3. ASSUME NEW n \in Node
      PROVE  \/ pc[n] = "exited"
             \/ /\ pc[n] = "select" /\ ~due[n]
                /\ Watched(n, McastFd) => mcastq[n] = <<>>
                /\ Watched(n, PingFd) => ~icmp[n]
  BY DEF Tick, Late, Calm, Readable
<1>4. ASSUME NEW n \in Node
      PROVE  due'[n] = alarm[n] /\ idle'[n] = IF pc[n] = "select" THEN idle[n] + 1 ELSE idle[n]
  BY <1>1
<1> QED BY <1>2, <1>3, <1>4 DEF Ticking

\* Time passes only when everything is settled.
LEMMA TickSettles ==
  ASSUME Calm, Known, RoundInv, Tick PROVE Settled
<1> SUFFICES ASSUME ~Settled PROVE FALSE
  OBVIOUS
<1>1. Early
  BY DEF RoundInv
<1>2. ASSUME NEW n \in Node PROVE pc[n] = "select" /\ ~Readable(n)
  BY <1>1 DEF Tick, Late, Calm, Early
<1>3. ASSUME NEW n \in Node PROVE Started(n) /\ ~me_flag[n] /\ join_mcast_triflag[n] # 1
  BY <1>2 DEF Started, Known, CustodyInv, NothingPending, RoundInv, OnTour
<1>4. route = {}
  <2> SUFFICES ASSUME NEW p \in route PROVE FALSE
    OBVIOUS
  <2>1. Head(p.list) \in Node
    BY PacketArrives
  <2>2. Watched(Head(p.list), RtFd)
    BY <2>1, <1>2 DEF RoundInv, OnTour
  <2> QED BY <2>1, <2>2, <1>2 DEF Readable
<1> QED BY <1>3, <1>4 DEF Settled

\* A step is early, or it is late.
LEMMA PhaseStep ==
  ASSUME Calm, Known, TimedType, RoundInv, [TNext]_tvars
  PROVE  \/ Early'
         \/ Settled /\ Settled' /\ (Ticking \/ \E n \in Node : LateStep(n))
         \/ UNCHANGED tvars
<1>1. TypeOK
  BY DEF Known, CustodyInv
<1>2. CASE Tick
  <2>1. Settled /\ Ticking
    BY <1>1, <1>2, TickDoes, TickSettles
  <2>2. Settled'
    BY <2>1 DEF Ticking, Fixed, Settled, Started
  <2> QED BY <2>1, <2>2
<1>3. ASSUME NEW n \in Node, UNCHANGED timing,
             \/ Launch(n) \/ StartIdle(n) \/ StartTour(n) \/ Forward(n) \/ JoinGroup(n)
             \/ \E p \in route : ReceiveRoute(n, p)
      PROVE  Early'
  <2>1. ~Settled
    BY <1>3 DEF Settled, Started, Launch, StartIdle, StartTour, Forward, JoinGroup, Goto, AfterDelay
  <2>2. Early
    BY <2>1 DEF RoundInv
  <2>3. UNCHANGED <<recv_flag, ended, mcastq, heard, timing>>
    BY <1>3 DEF Launch, StartIdle, StartTour, Forward, JoinGroup, ReceiveRoute
  <2>4. pc' = pc \/ \E to \in {"delay", "loop"} : pc' = [pc EXCEPT ![n] = to]
    <3>1. CASE Launch(n)
      <4>1. argv \in Launches /\ Len(argv[n]) \in Nat /\ MAX_ARGS \in Nat
        BY <1>1, LaunchAssumption, NumberAssumption DEF Argv, TypeOK
      <4>2. \A line \in Launches : Len(line[n]) + 1 <= MAX_ARGS
        BY DEF Calm
      <4>3. ~(Len(argv[n]) + 1 > MAX_ARGS)
        BY <4>1, <4>2
      <4> QED BY <3>1, <4>3, Zenon DEF Launch, Goto
    <3>2. CASE Forward(n)
      BY <3>2, ForwardSends
    <3>3. CASE ~Launch(n) /\ ~Forward(n)
      BY <3>3, <1>3 DEF StartIdle, StartTour, JoinGroup, ReceiveRoute, AfterDelay, Goto
    <3> QED BY <3>1, <3>2, <3>3
  <2>5. \A m \in Node : pc[m] # "exited" => pc'[m] # "exited"
    BY <2>4, <1>1 DEF TypeOK
  <2> QED BY <2>2, <2>3, <2>5 DEF Early, timing
<1>4. ASSUME NEW n \in Node, LateStep(n), Settled PROVE Settled'
  <2>1. /\ UNCHANGED <<route, me_flag, join_mcast_triflag>>
        /\ \A m \in Node \ {n} : pc'[m] = pc[m]
    BY <1>4 DEF LateStep, Pinging, Waiting, Reading, Ringing, Ending, Leaving, Hearing,
                Alone, Fixed, AsBefore
  <2>2. Started(n)'
    BY <1>4 DEF LateStep, Pinging, Waiting, Reading, Ringing, Ending, Leaving, Hearing, Started
  <2> QED BY <2>1, <2>2, <1>4 DEF Settled, Started
<1>5. ASSUME NEW n \in Node, Early, Pinging(n) \/ Waiting(n) \/ Reading(n)
      PROVE  Early'
  <2>1. UNCHANGED mcastq /\ \A m \in Node \ {n} : AsBefore(m)
    BY <1>5 DEF Pinging, Waiting, Reading, Alone
  <2>2. /\ ~due'[n] /\ idle'[n] = 0 /\ ended'[n] = ended[n] /\ recv_flag'[n] = recv_flag[n]
        /\ heard'[n] = heard[n] /\ pc'[n] # "exited"
    BY <1>5 DEF Pinging, Waiting, Reading, Early
  <2> QED BY <2>1, <2>2, <1>5 DEF Early, AsBefore
<1>6. ASSUME NEW n \in Node, Ringing(n) \/ Ending(n) \/ Leaving(n) \/ Hearing(n)
      PROVE  ~Early
  <2>1. due[n] \/ mcastq[n] # <<>> \/ idle[n] > 1
    BY <1>6 DEF Ringing, Ending, Leaving, Hearing
  <2> QED BY <2>1 DEF Early
<1>7. ASSUME NEW n \in Node, LateStep(n)
      PROVE  Early' \/ (Settled /\ Settled' /\ \E m \in Node : LateStep(m))
  BY <1>4, <1>5, <1>6, <1>7 DEF LateStep, RoundInv
<1>8. ASSUME NEW n \in Node,
             \/ TPing(n) \/ TWait(n) \/ TReadPing(n) \/ TAlarm(n) \/ TTimeout(n)
             \/ ReceiveMcast(n) /\ UNCHANGED timing
      PROVE  LateStep(n)
  <2>1. ~AlarmTooEarly(n)
    BY CalmSteps
  <2> QED BY <2>1, <1>1, <1>8, PingDoes, WaitDoes, ReadDoes, AlarmDoes, TimeoutDoes, ReceiveDoes
        DEF LateStep
<1>9. ~Network /\ \A n \in Node : ~StartRefused(n) /\ ~ForeignPacket(n)
  BY CalmSteps
<1>10. ASSUME NEW n \in Node, TProcess(n)
       PROVE  Early' \/ (Settled /\ Settled' /\ \E m \in Node : LateStep(m))
  BY <1>3, <1>7, <1>8, <1>9, <1>10 DEF TProcess
<1>11. CASE Finished /\ UNCHANGED timing
  BY <1>11 DEF Finished, tvars
<1> QED BY <1>2, <1>9, <1>10, <1>11 DEF TNext

LEMMA RoundStep ==
  ASSUME Calm, Known, TimedType, RoundInv, [TNext]_tvars
  PROVE  RoundInv'
<1>1. [Next]_vars
  BY TimedStep
<1>2. Launched' /\ \A t \in Node : PlanWhole(t)' /\ Conserved(t)' /\ OnTour(t)'
  BY <1>1, LaunchedStep, PlansStep, OnTourStep
<1>3. Early' \/ Settled'
  <2>1. UNCHANGED tvars => (Early => Early') /\ (Settled => Settled')
    BY DEF tvars, vars, timing, Early, Settled, Started
  <2> QED BY <2>1, PhaseStep DEF RoundInv
<1> QED BY <1>2, <1>3 DEF RoundInv

(***************************************************************************)
(* When everything is settled.                                             *)
(***************************************************************************)
Joined == {n \in Node : join_mcast_triflag[n] = 255}

\* A member reads the answers and the multicasts, and who pings or waits for
\* an alarm is one.
Attentive ==
  /\ \A n \in Joined : Watched(n, PingFd) /\ Watched(n, McastFd)
  /\ \A n \in Joined : pc[n] # "exited" => Member(n)
  /\ \A n \in Node : ping_flag[n] \/ alarm[n] => n \in Joined

\* A member has something to do, or is pinged by a node that has; and it is
\* never the only one.
Company ==
  /\ \A x \in Joined : \/ Duty(x)
                       \/ \E y \in Node : Duty(y) /\ Holds(ping_list[y], x)
  /\ \A x \in Joined : \E y \in Joined : y # x

LEMMA SettledAttentive ==
  ASSUME Known, Settled PROVE Attentive
<1>1. /\ \A n \in Node : WatchOf(n)
      /\ join_mcast_triflag \in [Node -> {0, 1, 255}]
      /\ pc \in [Node -> {"down", "delay", "loop", "select", "exited"}]
  BY DEF Known, WatchInv, CustodyInv, TypeOK
<1>2. ASSUME NEW n \in Joined PROVE Watched(n, PingFd) /\ Watched(n, McastFd)
  BY <1>1, FdAssumption DEF WatchOf, Watched, Joined
<1>3. ASSUME NEW n \in Joined, pc[n] # "exited" PROVE Member(n)
  <2>1. n \in Node /\ Started(n) /\ join_mcast_triflag[n] = 255
    BY DEF Settled, Joined
  <2> QED BY <2>1, <1>1, <1>3 DEF Started, Member, Open
<1>4. ASSUME NEW n \in Node, ping_flag[n] \/ alarm[n] PROVE n \in Joined
  <2>1. join_mcast_triflag[n] # 0
    BY <1>1, <1>4 DEF WatchOf
  <2>2. join_mcast_triflag[n] # 1
    BY DEF Settled
  <2> QED BY <2>1, <2>2, <1>1 DEF Joined
<1> QED BY <1>2, <1>3, <1>4 DEF Attentive

\* A tour that reaches a member has reached two, and all its stops.
LEMMA TourOfMember ==
  ASSUME Known, RoundInv, Settled, NEW x \in Joined
  PROVE  \E t \in Node :
           /\ visited[t] \in Seq(Node) /\ Len(visited[t]) >= 2 /\ visited[t][2] # visited[t][1]
           /\ Visits(visited[t], x)
<1>1. PICK t \in Node : Visits(visited[t], x)
  BY DEF Joined, RoundInv, OnTour
<1>2. visited[t] = plan[t]
  BY DEF RoundInv, Conserved, Settled, Holder
<1>3. visited[t] # <<>>
  BY <1>1 DEF Visits
<1> QED BY <1>1, <1>2, <1>3 DEF RoundInv, PlanWhole

LEMMA VisitedJoin ==
  ASSUME Known, RoundInv, Settled, NEW t \in Node, NEW n \in Node, Visits(visited[t], n)
  PROVE  n \in Joined
<1>1. join_mcast_triflag[n] # 0 /\ join_mcast_triflag[n] # 1
  BY DEF RoundInv, OnTour, Settled
<1>2. join_mcast_triflag[n] \in {0, 1, 255}
  BY DEF Known, CustodyInv, TypeOK
<1> QED BY <1>1, <1>2 DEF Joined

LEMMA SettledCompany ==
  ASSUME Known, RoundInv, Settled PROVE Company
<1>1. ASSUME NEW x \in Joined
      PROVE  /\ Duty(x) \/ \E y \in Node : Duty(y) /\ Holds(ping_list[y], x)
             /\ \E y \in Joined : y # x
  <2>1. PICK t \in Node :
           /\ visited[t] \in Seq(Node) /\ Len(visited[t]) >= 2 /\ visited[t][2] # visited[t][1]
           /\ Visits(visited[t], x)
    BY TourOfMember
  <2> DEFINE v == visited[t]
  <2>2. PICK k \in Nat : k = Len(v)
    BY <2>1
  <2>3. /\ k >= 2 /\ v[1] \in Node /\ v[2] \in Node /\ v[2] # v[1]
        /\ x \in Node
    BY <2>1, <2>2 DEF Joined
  <2>4. Visits(v, v[1]) /\ Visits(v, v[2]) /\ Received(v, v[2])
    BY <2>2, <2>3 DEF Visits, Received
  <2>5. v[1] \in Joined /\ v[2] \in Joined
    BY <2>3, <2>4, VisitedJoin
  <2>6. \E y \in Joined : y # x
    BY <2>3, <2>5
  <2>7. CASE Received(v, x)
    BY <2>3, <2>6, <2>7 DEF RoundInv, OnTour
  <2>8. CASE ~Received(v, x)
    <3>1. x = v[1]
      BY <2>1, <2>2, <2>8 DEF Visits, Received
    <3>2. Duty(v[2])
      BY <2>3, <2>4 DEF RoundInv, OnTour
    <3>3. Precedes(x, v[2], t)
      BY <3>1, <2>2, <2>3 DEF Precedes
    <3>4. Holds(ping_list[v[2]], x)
      <4>1. \A z : Holds(ping_list[v[2]], z) <=> \E u \in Node : Precedes(z, v[2], u)
        BY <2>3, PingsArePredecessors DEF Known, PingsPredecessors
      <4> QED BY <4>1, <3>3
    <3> QED BY <2>3, <2>6, <3>2, <3>4
  <2> QED BY <2>7, <2>8
<1> QED BY <1>1 DEF Company

(***************************************************************************)
(* The clocks, the end and the answers to it.                              *)
(***************************************************************************)
Told(n) == recv_flag[n] \/ mcastq[n] # <<>>

Clock(n) ==
  /\ due[n] => alarm[n]
  /\ pc[n] = "select" /\ alarm[n] /\ idle[n] > 0 => due[n]
  /\ pc[n] = "exited" => ~alarm[n]
  /\ ended[n] > 0 => ~ping_flag[n] /\ ~alarm[n] /\ n \in Joined
  /\ Told(n) => Announced # {}
  /\ heard[n] # {} => recv_flag[n]
  /\ mcastq[n] # <<>> => Member(n)

\* A member has answered an end, or its answer is on its way, or the end is;
\* and as long as that is, its node has not begun to wait.
Fresh(k) == pc[k] # "exited" /\ (pc[k] = "select" => idle[k] = 0)

Answered(k, x) ==
  /\ Told(x)
  /\ \/ x \in heard[k]
     \/ Hears(mcastq[k], Identify(x))
     \/ Hears(mcastq[x], End(k)) /\ Fresh(k)

Answers == \A k \in Announced : \A x \in Joined \ {k} : Answered(k, x)

Idles(x) == pc[x] = "select" /\ idle[x] > 0

\* Until an end is announced no member waits for more than a second: it pings
\* or is pinged.
Woken(x) ==
  \/ due[x] \/ icmp[x]
  \/ \E y \in Node : /\ Holds(ping_list[y], x)
                     /\ due[y] \/ (pc[y] = "loop" /\ ping_flag[y])

Pings == Announced = {} => \A x \in Joined : Idles(x) => idle[x] = 1 /\ Woken(x)

\* Then, as long as a member has not heard of it or has an alarm to come, who
\* waits has a message to read.
Busy(k) == ~recv_flag[k] \/ (alarm[k] /\ ~due[k])

Calls ==
  Announced # {} /\ (\E k \in Joined : Busy(k)) =>
    \A x \in Joined : Idles(x) => mcastq[x] # <<>>

\* When an alarm comes, no member has waited for longer than its second.
Rings == (\E k \in Node : due[k]) => \A x \in Joined : pc[x] = "select" => idle[x] <= 1

\* The first member that leaves has let all of them hear of an end.
Leaves ==
  (\E k \in Joined : pc[k] = "exited") => \A k \in Joined : recv_flag[k] /\ ~alarm[k]

LateInv == (\A n \in Node : Clock(n)) /\ Answers /\ Pings /\ Calls /\ Rings /\ Leaves

LEMMA EarlyIsQuiet == Early => LateInv
<1> SUFFICES ASSUME Early PROVE LateInv
  OBVIOUS
<1>1. Announced = {}
  BY DEF Announced, Early
<1>2. ASSUME NEW n \in Node PROVE Clock(n)
  BY DEF Early, Clock, Told
<1>3. \A x \in Joined : x \in Node /\ ~Idles(x) /\ pc[x] # "exited" /\ idle[x] <= 1
  BY DEF Early, Idles, Joined
<1> QED BY <1>1, <1>2, <1>3 DEF LateInv, Answers, Pings, Calls, Rings, Leaves

\* What no late step changes, and who has announced an end after it.
LEMMA LateFrame ==
  ASSUME NEW n \in Node, LateStep(n)
  PROVE  /\ Joined' = Joined /\ ping_list' = ping_list
         /\ \A m \in Node \ {n} : AsBefore(m)
         /\ \A m \in Node : m \in Announced => m \in Announced'
         /\ Ending(n) \/ Announced' = Announced
<1>1. Alone(n)
  BY DEF LateStep, Pinging, Waiting, Reading, Ringing, Ending, Leaving, Hearing
<1>2. Joined' = Joined /\ ping_list' = ping_list /\ \A m \in Node \ {n} : AsBefore(m)
  BY <1>1 DEF Alone, Fixed, Joined
<1>3. Ending(n) \/ ended'[n] = ended[n]
  BY DEF LateStep, Pinging, Waiting, Reading, Ringing, Leaving, Hearing
<1>4. ended'[n] = ended[n] => Announced' = Announced
  BY <1>2 DEF Announced, AsBefore
<1>5. Ending(n) => \A m \in Node : m \in Announced => m \in Announced'
  BY <1>2 DEF Announced, AsBefore, Ending
<1> QED BY <1>2, <1>3, <1>4, <1>5

LEMMA TickFrame ==
  ASSUME Ticking
  PROVE  Joined' = Joined /\ ping_list' = ping_list /\ Announced' = Announced
BY DEF Ticking, Fixed, Joined, Announced

\* Only a multicast makes a queue longer, and only that of a member.
LEMMA QueuesFilled ==
  ASSUME NEW n \in Node, LateStep(n), NEW m \in Node, mcastq'[m] # <<>>
  PROVE  mcastq[m] # <<>> \/ (m # n /\ Member(m) /\ (Ending(n) \/ Hearing(n)))
<1>1. CASE Pinging(n) \/ Waiting(n) \/ Reading(n) \/ Ringing(n)
  BY <1>1 DEF Pinging, Waiting, Reading, Ringing
<1>2. CASE Leaving(n)
  BY <1>2 DEF Leaving
<1>3. CASE Ending(n)
  BY <1>3 DEF Ending, QueuesGrow
<1>4. CASE Hearing(n)
  BY <1>4 DEF Hearing, QueuesGrow
<1> QED BY <1>1, <1>2, <1>3, <1>4 DEF LateStep

LEMMA ClockStep ==
  ASSUME TypeOK, Attentive, LateInv, NEW n \in Node, LateStep(n)
  PROVE  \A m \in Node : Clock(m)'
<1>1. /\ Joined' = Joined /\ \A m \in Node \ {n} : AsBefore(m)
      /\ \A m \in Node : m \in Announced => m \in Announced'
      /\ Ending(n) => Announced' # {}
  <2>1. Ending(n) => n \in Announced'
    BY DEF Ending, Announced
  <2> QED BY <2>1, LateFrame
<1>2. Announced # {} => Announced' # {}
  BY <1>1 DEF Announced
<1>3. \A m \in Node : Clock(m)
  BY DEF LateInv
<1>4. Hearing(n) => Announced # {}
  BY <1>3 DEF Hearing, Clock, Told
<1>5. ASSUME NEW m \in Node \ {n} PROVE Clock(m)'
  <2>1. AsBefore(m) /\ Clock(m)
    BY <1>1, <1>3
  <2>2. mcastq'[m] # <<>> => mcastq[m] # <<>> \/ (Member(m) /\ (Ending(n) \/ Hearing(n)))
    BY QueuesFilled
  <2>3. join_mcast_triflag'[m] = join_mcast_triflag[m]
    BY DEF LateStep, Pinging, Waiting, Reading, Ringing, Ending, Leaving, Hearing, Alone, Fixed
  <2>4. Member(m) => Member(m)'
    BY <2>1, <2>3 DEF AsBefore, Member, Open
  <2>5. Told(m)' => Announced' # {}
    BY <2>1, <2>2, <1>1, <1>2, <1>4 DEF AsBefore, Clock, Told
  <2>6. mcastq'[m] # <<>> => Member(m)'
    BY <2>1, <2>2, <2>4 DEF Clock
  <2> QED BY <2>1, <2>5, <2>6, <1>1 DEF AsBefore, Clock
<1>6. Clock(n)'
  <2>1. Clock(n) /\ ended[n] \in Nat /\ (alarm[n] \/ ping_flag[n] => n \in Joined)
    BY <1>3 DEF TypeOK, Attentive
  <2>2. join_mcast_triflag'[n] = join_mcast_triflag[n]
    BY DEF LateStep, Pinging, Waiting, Reading, Ringing, Ending, Leaving, Hearing, Alone, Fixed
  <2>3. CASE Pinging(n)
    <3>1. mcastq' = mcastq
      BY <2>3 DEF Pinging
    <3>2. ended'[n] = ended[n] /\ ~(ended[n] > 0)
      BY <2>1, <2>3 DEF Pinging, Clock
    <3>3. Member(n) => Member(n)'
      BY <2>2, <2>3 DEF Pinging, Member, Open
    <3> QED BY <3>1, <3>2, <3>3, <2>1, <2>3, <1>1, <1>2 DEF Pinging, Clock, Told
  <2>4. CASE Waiting(n) \/ Reading(n)
    <3>1. /\ mcastq' = mcastq /\ ended'[n] = ended[n] /\ recv_flag'[n] = recv_flag[n]
          /\ heard'[n] = heard[n] /\ due'[n] = due[n] /\ alarm'[n] = alarm[n]
          /\ ping_flag'[n] = ping_flag[n] /\ pc'[n] # "exited"
          /\ pc'[n] = "select" => idle'[n] = 0
      BY <2>4 DEF Waiting, Reading
    <3>2. Member(n) => Member(n)'
      BY <2>2, <2>4 DEF Waiting, Reading, Member, Open
    <3> QED BY <3>1, <3>2, <2>1, <1>1, <1>2 DEF Clock, Told
  <2>5. CASE Ringing(n)
    <3>1. mcastq' = mcastq /\ ended'[n] = ended[n] /\ ~(ended[n] > 0)
      BY <2>1, <2>5 DEF Ringing, Clock
    <3>2. Member(n) => Member(n)'
      BY <2>2, <2>5 DEF Ringing, Member, Open
    <3> QED BY <3>1, <3>2, <2>1, <2>5, <1>1, <1>2 DEF Ringing, Clock, Told
  <2>6. CASE Ending(n)
    <3>1. Member(n) => Member(n)'
      BY <2>2, <2>6 DEF Ending, Member, Open
    <3> QED BY <3>1, <2>1, <2>6, <1>1 DEF Ending, Clock, Told
  <2>7. CASE Leaving(n)
    BY <2>1, <2>7, <1>1, <1>2 DEF Leaving, Clock, Told
  <2>8. CASE Hearing(n)
    <3>1. Member(n)'
      BY <2>2, <2>8 DEF Hearing, Member, Open
    <3> QED BY <3>1, <2>1, <2>8, <1>1, <1>2, <1>4 DEF Hearing, Clock, Told
  <2> QED BY <2>3, <2>4, <2>5, <2>6, <2>7, <2>8 DEF LateStep
<1> QED BY <1>5, <1>6

LEMMA ClockTick ==
  ASSUME LateInv, Ticking PROVE \A m \in Node : Clock(m)'
<1>1. \A m \in Node : Clock(m)
  BY DEF LateInv
<1>2. Joined' = Joined /\ Announced' = Announced
  BY TickFrame
<1>3. ASSUME NEW m \in Node PROVE Clock(m)'
  <2>1. Member(m)' = Member(m)
    BY DEF Ticking, Fixed, Member, Open
  <2> QED BY <2>1, <1>1, <1>2 DEF Clock, Ticking, Told
<1> QED BY <1>3

\* Messages wait until their reader has read them, and who is fresh is so until
\* it has waited.
LEMMA QueuesKept ==
  ASSUME TypeOK, Attentive, NEW n \in Node, LateStep(n)
  PROVE  /\ \A x \in Node \ {n} :
              /\ \A m : Hears(mcastq[x], m) => Hears(mcastq'[x], m)
              /\ mcastq[x] # <<>> => mcastq'[x] # <<>>
         /\ \A m : n \in Joined /\ Hears(mcastq[n], m) =>
              \/ Hears(mcastq'[n], m)
              \/ Hearing(n) /\ Head(mcastq[n]) = m
         /\ n \in Joined /\ mcastq[n] # <<>> => mcastq'[n] # <<>> \/ Hearing(n)
<1> DEFINE q == mcastq[n]
<1>1. q \in Seq(McastMsg) /\ Identify(n) \in McastMsg
  BY DEF TypeOK, McastMsg, Identify
<1>2. /\ q # <<>> => \A m : Hears(q, m) => m = Head(q) \/ Hears(Tail(q), m)
      /\ \A m : Hears(q, m) => q # <<>>
  <2> HIDE DEF q
  <2> QED BY <1>1, QueueHears
<1>3. CASE Pinging(n) \/ Waiting(n) \/ Reading(n) \/ Ringing(n)
  <2>1. mcastq' = mcastq
    BY <1>3 DEF Pinging, Waiting, Reading, Ringing
  <2> QED BY <2>1
<1>4. CASE Ending(n)
  <2>1. QueuesGrow(n) /\ mcastq'[n] = mcastq[n]
    BY <1>4 DEF Ending
  <2> QED BY <2>1 DEF QueuesGrow
<1>5. CASE Leaving(n)
  <2>1. n \in Joined => mcastq[n] = <<>>
    BY <1>5 DEF Leaving, Attentive
  <2>2. \A x \in Node \ {n} : mcastq'[x] = mcastq[x]
    BY <1>5 DEF Leaving
  <2> QED BY <2>1, <2>2, <1>2
<1>6. CASE Hearing(n)
  <2>1. QueuesGrow(n) /\ mcastq'[n] = Tail(q) /\ q # <<>>
    BY <1>6 DEF Hearing
  <2>2. \A m : Hears(q, m) => m = Head(q) \/ Hears(mcastq'[n], m)
    BY <2>1, <1>2
  <2> QED BY <2>1, <2>2, <1>6 DEF QueuesGrow
<1> QED BY <1>3, <1>4, <1>5, <1>6 DEF LateStep

LEMMA FreshStep ==
  ASSUME NEW n \in Node, LateStep(n), NEW k \in Node, Fresh(k)
  PROVE  Fresh(k)'
<1>1. CASE k # n
  BY <1>1, LateFrame DEF AsBefore, Fresh
<1>2. CASE k = n
  <2>1. ~Leaving(n)
    BY <1>2 DEF Leaving, Fresh
  <2>2. /\ Pinging(n) \/ Waiting(n) => pc'[n] = "select" /\ idle'[n] = 0
        /\ Reading(n) \/ Ringing(n) \/ Ending(n) \/ Hearing(n) => pc'[n] = "loop"
    BY DEF Pinging, Waiting, Reading, Ringing, Ending, Hearing
  <2> QED BY <1>2, <2>1, <2>2 DEF LateStep, Fresh
<1> QED BY <1>1, <1>2

LEMMA ToldStep ==
  ASSUME TypeOK, Attentive, NEW n \in Node, LateStep(n), NEW x \in Joined, Told(x)
  PROVE  Told(x)'
<1>1. x \in Node
  BY DEF Joined
<1>2. CASE x # n
  BY <1>1, <1>2, LateFrame, QueuesKept DEF Told, AsBefore
<1>3. CASE x = n /\ Hearing(n)
  BY <1>3 DEF Told, Hearing
<1>4. CASE x = n /\ ~Hearing(n)
  <2>1. recv_flag'[n] = recv_flag[n]
    BY <1>4 DEF LateStep, Pinging, Waiting, Reading, Ringing, Ending, Leaving
  <2> QED BY <1>4, <2>1, QueuesKept DEF Told
<1> QED BY <1>2, <1>3, <1>4

LEMMA AnswersStep ==
  ASSUME TypeOK, Attentive, LateInv, NEW n \in Node, LateStep(n)
  PROVE  Answers'
<1>1. /\ Joined' = Joined /\ \A m \in Node \ {n} : AsBefore(m)
      /\ Ending(n) \/ Announced' = Announced
      /\ Joined \subseteq Node
  BY LateFrame DEF Joined
<1>2. \A k \in Node : Clock(k)
  BY DEF LateInv
<1>3. \A x \in Joined : Told(x) => Told(x)'
  BY ToldStep
<1>4. \A k \in Node : Fresh(k) => Fresh(k)'
  BY FreshStep
<1>5. \A k \in Node : heard[k] \subseteq heard'[k]
  <2>1. heard[n] \subseteq heard'[n]
    BY DEF LateStep, Pinging, Waiting, Reading, Ringing, Ending, Leaving, Hearing
  <2> QED BY <2>1, <1>1 DEF AsBefore
<1>6. ASSUME NEW k \in Announced, NEW x \in Joined \ {k} PROVE Answered(k, x)'
  <2>1. k \in Node /\ x \in Node /\ k \in Joined /\ Answered(k, x) /\ x # k
    BY <1>1, <1>2 DEF Announced, Clock, LateInv, Answers
  <2>2. CASE x \in heard[k]
    BY <2>1, <2>2, <1>3, <1>5 DEF Answered
  <2>3. CASE Hears(mcastq[k], Identify(x))
    <3>1. Hears(mcastq'[k], Identify(x)) \/ x \in heard'[k]
      <4>1. CASE k = n
        <5>1. Hears(mcastq'[n], Identify(x)) \/ (Hearing(n) /\ Head(mcastq[n]) = Identify(x))
          BY <4>1, <2>1, <2>3, QueuesKept
        <5>2. Hearing(n) /\ Head(mcastq[n]) = Identify(x) => x \in heard'[n]
          BY <2>1 DEF Hearing
        <5> QED BY <4>1, <5>1, <5>2
      <4>2. CASE k # n
        BY <4>2, <2>1, <2>3, QueuesKept
      <4> QED BY <4>1, <4>2
    <3> QED BY <3>1, <2>1, <1>3 DEF Answered
  <2>4. CASE Hears(mcastq[x], End(k)) /\ Fresh(k)
    <3>1. Hears(mcastq'[x], End(k)) \/ Hears(mcastq'[k], Identify(x))
      <4>1. CASE x = n
        <5>1. Hears(mcastq'[n], End(k)) \/ (Hearing(n) /\ Head(mcastq[n]) = End(k))
          BY <4>1, <2>1, <2>4, QueuesKept
        <5>2. Member(k)
          BY <2>1, <2>4 DEF Attentive, Fresh
        <5>3. Hearing(n) /\ Head(mcastq[n]) = End(k) => Hears(mcastq'[k], Identify(n))
          BY <4>1, <5>2, <2>1 DEF Hearing
        <5> QED BY <4>1, <5>1, <5>3
      <4>2. CASE x # n
        BY <4>2, <2>1, <2>4, QueuesKept
      <4> QED BY <4>1, <4>2
    <3> QED BY <3>1, <2>1, <2>4, <1>3, <1>4 DEF Answered
  <2> QED BY <2>1, <2>2, <2>3, <2>4 DEF Answered
<1>7. ASSUME Ending(n), NEW x \in Joined \ {n} PROVE Answered(n, x)'
  <2>1. alarm[n] /\ n \in Joined /\ pc'[n] = "loop" /\ x \in Node /\ x # n
    BY <1>1, <1>7 DEF Ending, Attentive
  <2>2. Member(x)
    BY <2>1 DEF LateInv, Leaves, Attentive
  <2>3. Hears(mcastq'[x], End(n)) /\ mcastq'[x] # <<>>
    BY <2>1, <2>2, <1>7 DEF Ending
  <2> QED BY <2>1, <2>3 DEF Answered, Told, Fresh
<1>8. \A k \in Announced' : k \in Announced \/ (k = n /\ Ending(n))
  BY <1>1 DEF Announced, AsBefore
<1> QED BY <1>1, <1>6, <1>7, <1>8 DEF Answers

LEMMA AnswersTick ==
  ASSUME TypeOK, Attentive, LateInv, Ticking PROVE Answers'
<1>1. /\ Joined' = Joined /\ Announced' = Announced
      /\ UNCHANGED <<pc, recv_flag, heard, mcastq>>
  BY TickFrame DEF Ticking
<1>2. ASSUME NEW k \in Announced, NEW x \in Joined \ {k} PROVE Answered(k, x)'
  <2>1. Answered(k, x) /\ x \in Node /\ x \in Joined
    BY DEF LateInv, Answers, Joined
  <2>2. ~Hears(mcastq[x], End(k))
    <3>1. CASE pc[x] = "exited"
      <4>1. ~Member(x)
        BY <3>1 DEF Member, Open
      <4>2. mcastq[x] = <<>>
        BY <2>1, <4>1 DEF LateInv, Clock
      <4> QED BY <4>2 DEF Hears
    <3>2. CASE pc[x] # "exited"
      <4>1. mcastq[x] = <<>>
        BY <2>1, <3>2 DEF Ticking, Attentive
      <4> QED BY <4>1 DEF Hears
    <3> QED BY <3>1, <3>2
  <2> QED BY <1>1, <2>1, <2>2 DEF Answered, Told
<1> QED BY <1>1, <1>2 DEF Answers

\* Before the first end nobody has heard of one.
LEMMA NotTold ==
  ASSUME LateInv, Announced = {}, NEW m \in Node
  PROVE  ~recv_flag[m] /\ mcastq[m] = <<>> /\ ~(ended[m] > 0)
BY DEF LateInv, Clock, Told, Announced

LEMMA PingsStep ==
  ASSUME LateInv, NEW n \in Node, LateStep(n)
  PROVE  Pings'
<1> SUFFICES ASSUME Announced' = {}, NEW x \in Joined, Idles(x)'
             PROVE  (idle[x] = 1)' /\ Woken(x)'
  BY LateFrame DEF Pings
<1>1. /\ \A m \in Node \ {n} : AsBefore(m)
      /\ ping_list' = ping_list /\ Announced = {} /\ ~Ending(n)
  <2>1. ~Ending(n)
    BY DEF Ending, Announced
  <2> QED BY <2>1, LateFrame
<1>2. ~Hearing(n) /\ ~recv_flag[n] /\ Clock(n)
  BY <1>1, NotTold DEF Hearing, LateInv
<1>3. Pinging(n) \/ Waiting(n) \/ Reading(n) \/ Ringing(n) \/ Leaving(n)
  BY <1>1, <1>2 DEF LateStep
<1>4. x # n /\ x \in Node
  <2>1. ~Idles(n)'
    BY <1>3 DEF Idles, Pinging, Waiting, Reading, Ringing, Leaving
  <2> QED BY <2>1 DEF Joined
<1>5. Idles(x) /\ idle'[x] = idle[x]
  BY <1>1, <1>4 DEF AsBefore, Idles
<1>6. idle[x] = 1 /\ Woken(x)
  BY <1>1, <1>5 DEF LateInv, Pings
<1>7. (due[x] => due'[x]) /\ (icmp[x] => icmp'[x])
  <2>1. icmp[x] => icmp'[x]
    BY <1>3, <1>4 DEF Pinging, Waiting, Reading, Ringing, Leaving
  <2> QED BY <2>1, <1>1, <1>4 DEF AsBefore
<1>8. ASSUME NEW y \in Node, Holds(ping_list[y], x),
             due[y] \/ (pc[y] = "loop" /\ ping_flag[y])
      PROVE  icmp'[x] \/ due'[y] \/ (pc'[y] = "loop" /\ ping_flag'[y])
  <2>1. CASE y # n
    BY <2>1, <1>1, <1>8 DEF AsBefore
  <2>2. CASE y = n /\ Pinging(n)
    <3>1. Open(x)
      BY <1>5 DEF Idles, Open
    <3> QED BY <3>1, <2>2, <1>4, <1>8 DEF Pinging
  <2>3. CASE y = n /\ (Waiting(n) \/ Reading(n) \/ Ringing(n) \/ Leaving(n))
    BY <2>3, <1>2, <1>8 DEF Waiting, Reading, Ringing, Leaving, Clock
  <2> QED BY <2>1, <2>2, <2>3, <1>3
<1> QED BY <1>1, <1>5, <1>6, <1>7, <1>8 DEF Woken

\* When a tick comes, no alarm and no message is waiting to be handled.
LEMMA TickIdle ==
  ASSUME Attentive, LateInv, Ticking
  PROVE  /\ \A y \in Node : ~due[y] /\ mcastq[y] = <<>>
         /\ \A y \in Node : pc[y] # "exited" => pc[y] = "select"
         /\ \A x \in Joined : pc[x] = "select" => ~icmp[x]
<1>1. ASSUME NEW y \in Node PROVE ~due[y] /\ mcastq[y] = <<>>
  <2>1. Clock(y)
    BY DEF LateInv
  <2>2. CASE pc[y] = "exited"
    <3>1. ~Member(y)
      BY <2>2 DEF Member, Open
    <3> QED BY <2>1, <2>2, <3>1 DEF Clock
  <2>3. CASE pc[y] # "exited"
    <3>1. mcastq[y] # <<>> => y \in Joined
      BY <2>1 DEF Clock, Member, Joined
    <3> QED BY <2>3, <3>1 DEF Ticking, Attentive
  <2> QED BY <2>2, <2>3
<1>2. \A x \in Joined : pc[x] = "select" => ~icmp[x]
  BY DEF Ticking, Attentive, Joined
<1> QED BY <1>1, <1>2 DEF Ticking

LEMMA PingsTick ==
  ASSUME TimedType, Attentive, Company, LateInv, Ticking PROVE Pings'
<1>1. Joined' = Joined /\ ping_list' = ping_list /\ Announced' = Announced
  BY TickFrame
<1>2. ASSUME Announced = {}, NEW x \in Joined, Idles(x)'
      PROVE  (idle[x] = 1)' /\ Woken(x)'
  <2>1. x \in Node /\ idle[x] \in Nat
    BY DEF Joined, TimedType
  <2>2. pc[x] = "select" /\ idle'[x] = idle[x] + 1
    BY <1>2, <2>1 DEF Idles, Ticking
  <2>3. ~Woken(x)
    BY <2>1, <2>2, TickIdle DEF Woken
  <2>4. ~(idle[x] > 0)
    BY <1>2, <2>2, <2>3 DEF LateInv, Pings, Idles
  <2>5. idle'[x] = 1
    BY <2>1, <2>2, <2>4
  <2>6. ASSUME NEW z \in Node, Duty(z) PROVE due'[z]
    <3>1. ~recv_flag[z] /\ ~(ended[z] > 0)
      BY <1>2, NotTold
    <3>2. pc[z] # "loop"
      BY TickIdle
    <3> QED BY <2>6, <3>1, <3>2 DEF Duty, Ticking
  <2>7. Duty(x) \/ \E y \in Node : Duty(y) /\ Holds(ping_list[y], x)
    BY DEF Company
  <2> QED BY <2>1, <2>5, <2>6, <2>7, <1>1 DEF Woken
<1> QED BY <1>1, <1>2 DEF Pings

\* Who is in select() after a step and has waited was so before it.
LEMMA IdlesBefore ==
  ASSUME NEW n \in Node, LateStep(n), NEW x \in Node, Idles(x)'
  PROVE  x # n /\ Idles(x) /\ idle'[x] = idle[x]
<1>1. x # n
  <2>1. ~Idles(n)'
    BY DEF Idles, LateStep, Pinging, Waiting, Reading, Ringing, Ending, Leaving, Hearing
  <2> QED BY <2>1
<1> QED BY <1>1, LateFrame DEF AsBefore, Idles

LEMMA CallsStep ==
  ASSUME TypeOK, Attentive, LateInv, NEW n \in Node, LateStep(n)
  PROVE  Calls'
<1> SUFFICES ASSUME Announced' # {}, NEW k \in Joined, Busy(k)', NEW x \in Joined, Idles(x)'
             PROVE  mcastq'[x] # <<>>
  BY LateFrame DEF Calls
<1>1. x \in Node /\ x # n /\ Idles(x)
  BY IdlesBefore DEF Joined
<1>2. CASE Ending(n)
  <2>1. alarm[n] /\ n \in Joined
    BY <1>2 DEF Ending, Attentive
  <2>2. Member(x)
    BY <2>1 DEF LateInv, Leaves, Attentive
  <2> QED BY <1>1, <1>2, <2>2 DEF Ending
<1>3. CASE ~Ending(n)
  <2>1. Announced # {}
    BY <1>3, LateFrame
  <2>2. Busy(k)
    <3>1. CASE k # n
      BY <3>1, LateFrame DEF AsBefore, Busy, Joined
    <3>2. CASE k = n
      BY <3>2, <1>3 DEF Busy, LateStep, Pinging, Waiting, Reading, Ringing, Leaving, Hearing
    <3> QED BY <3>1, <3>2
  <2>3. mcastq[x] # <<>>
    BY <2>1, <2>2, <1>1 DEF LateInv, Calls
  <2> QED BY <2>3, <1>1, QueuesKept
<1> QED BY <1>2, <1>3

LEMMA CallsTick ==
  ASSUME Attentive, Company, LateInv, Ticking
  PROVE  Calls'
<1> SUFFICES ASSUME Announced # {}, NEW k \in Joined, Busy(k)' PROVE FALSE
  BY TickFrame DEF Calls
<1>1. k \in Node /\ ~recv_flag[k]
  BY DEF Joined, Ticking, Busy
<1>2. \A y \in Node : mcastq[y] = <<>>
  BY TickIdle
<1>3. ~Told(k)
  BY <1>1, <1>2 DEF Told
<1>4. k \in Announced
  BY <1>3 DEF LateInv, Answers, Answered
<1>5. PICK y \in Joined : y # k
  BY DEF Company
<1>6. Answered(k, y) /\ y \in Node
  BY <1>4, <1>5 DEF LateInv, Answers, Joined
<1>7. heard[k] = {}
  BY <1>1 DEF LateInv, Clock
<1>8. ~Hears(<<>>, Identify(y)) /\ ~Hears(<<>>, End(k))
  BY DEF Hears
<1> QED BY <1>1, <1>2, <1>6, <1>7, <1>8 DEF Answered

LEMMA RingsStep ==
  ASSUME LateInv, NEW n \in Node, LateStep(n)
  PROVE  Rings'
<1> SUFFICES ASSUME NEW k \in Node, due'[k], NEW x \in Joined, pc'[x] = "select"
             PROVE  idle'[x] <= 1
  BY LateFrame DEF Rings
<1>1. due[k]
  <2>1. CASE k # n
    BY <2>1, LateFrame DEF AsBefore
  <2>2. CASE k = n
    BY <2>2 DEF LateStep, Pinging, Waiting, Reading, Ringing, Ending, Leaving, Hearing
  <2> QED BY <2>1, <2>2
<1>2. x \in Node
  BY DEF Joined
<1>3. CASE x # n
  BY <1>1, <1>2, <1>3, LateFrame DEF AsBefore, LateInv, Rings
<1>4. CASE x = n
  <2>1. idle'[n] = 0
    BY <1>4 DEF LateStep, Pinging, Waiting, Reading, Ringing, Ending, Leaving, Hearing
  <2> QED BY <2>1, <1>4
<1> QED BY <1>3, <1>4

LEMMA RingsTick ==
  ASSUME TimedType, Attentive, LateInv, Ticking
  PROVE  Rings'
<1> SUFFICES ASSUME NEW k \in Node, due'[k], NEW x \in Joined, pc'[x] = "select"
             PROVE  idle'[x] <= 1
  BY TickFrame DEF Rings
<1>1. x \in Node /\ idle[x] \in Nat /\ pc[x] = "select" /\ idle'[x] = idle[x] + 1
  BY DEF Joined, TimedType, Ticking
<1>2. alarm[k] /\ k \in Joined /\ ~due[k] /\ mcastq[x] = <<>>
  BY <1>1, TickIdle DEF Ticking, Attentive
<1>3. CASE Announced = {}
  <2>1. ~Woken(x)
    BY <1>1, TickIdle DEF Woken
  <2>2. ~(idle[x] > 0)
    BY <1>1, <1>3, <2>1 DEF LateInv, Pings, Idles
  <2> QED BY <1>1, <2>2
<1>4. CASE Announced # {}
  <2>1. Busy(k)
    BY <1>2 DEF Busy
  <2>2. ~(idle[x] > 0)
    BY <1>1, <1>2, <1>4, <2>1 DEF LateInv, Calls, Idles
  <2> QED BY <1>1, <2>2
<1> QED BY <1>3, <1>4

LEMMA LeavesStep ==
  ASSUME TimedType, Attentive, LateInv, NEW n \in Node, LateStep(n)
  PROVE  Leaves'
<1> SUFFICES ASSUME NEW k \in Joined, pc'[k] = "exited", NEW m \in Joined
             PROVE  recv_flag'[m] /\ ~alarm'[m]
  BY LateFrame DEF Leaves
<1>1. k \in Node /\ m \in Node
  BY DEF Joined
<1>2. recv_flag[m] /\ ~alarm[m]
  <2>1. CASE k # n
    <3>1. pc[k] = "exited"
      BY <1>1, <2>1, LateFrame DEF AsBefore
    <3> QED BY <3>1 DEF LateInv, Leaves
  <2>2. CASE k = n
    <3>1. Leaving(n)
      BY <2>2 DEF LateStep, Pinging, Waiting, Reading, Ringing, Ending, Hearing
    <3>2. idle[n] > 1 /\ Idles(n) /\ mcastq[n] = <<>> /\ idle[n] \in Nat
      BY <2>2, <3>1 DEF Leaving, Attentive, Idles, TimedType
    <3>3. Announced # {}
      BY <2>2, <3>2 DEF LateInv, Pings
    <3>4. ~Busy(m)
      BY <2>2, <3>2, <3>3 DEF LateInv, Calls
    <3>5. ~due[m]
      BY <2>2, <3>2, <1>1 DEF LateInv, Rings, Idles
    <3> QED BY <3>4, <3>5 DEF Busy
  <2> QED BY <2>1, <2>2
<1>3. CASE m # n
  BY <1>1, <1>2, <1>3, LateFrame DEF AsBefore
<1>4. CASE m = n
  BY <1>2, <1>4 DEF LateStep, Pinging, Waiting, Reading, Ringing, Ending, Leaving, Hearing
<1> QED BY <1>3, <1>4

LEMMA LeavesTick ==
  ASSUME LateInv, Ticking PROVE Leaves'
BY TickFrame DEF LateInv, Leaves, Ticking

LEMMA LateInvStep ==
  ASSUME Calm, Known, TimedType, RoundInv, LateInv, [TNext]_tvars
  PROVE  LateInv' \/ Early'
<1>1. CASE Settled /\ (Ticking \/ \E n \in Node : LateStep(n))
  <2>1. TypeOK /\ Attentive /\ Company
    BY <1>1, SettledAttentive, SettledCompany DEF Known, CustodyInv
  <2>2. CASE Ticking
    BY <2>1, <2>2, ClockTick, AnswersTick, PingsTick, CallsTick, RingsTick, LeavesTick
       DEF LateInv
  <2>3. ASSUME NEW n \in Node, LateStep(n) PROVE LateInv'
    BY <2>1, <2>3, ClockStep, AnswersStep, PingsStep, CallsStep, RingsStep, LeavesStep
       DEF LateInv
  <2> QED BY <1>1, <2>2, <2>3
<1>2. CASE UNCHANGED tvars
  <2>1. UNCHANGED <<pc, join_mcast_triflag, recv_flag, ping_flag, ping_list, alarm, mcastq,
                    ended, heard, idle, due, icmp>>
    BY <1>2 DEF tvars, vars, timing
  <2>2. Joined' = Joined /\ Announced' = Announced
    BY <2>1 DEF Joined, Announced
  <2>3. (\A n \in Node : Clock(n))'
    BY <2>1, <2>2 DEF LateInv, Clock, Told, Member, Open
  <2>4. Answers'
    BY <2>1, <2>2 DEF LateInv, Answers, Answered, Told, Fresh
  <2>5. Pings'
    BY <2>1, <2>2 DEF LateInv, Pings, Idles, Woken
  <2>6. Calls' /\ Rings' /\ Leaves'
    BY <2>1, <2>2 DEF LateInv, Calls, Rings, Leaves, Idles, Busy
  <2> QED BY <2>3, <2>4, <2>5, <2>6 DEF LateInv
<1> QED BY <1>1, <1>2, PhaseStep

(***************************************************************************)
(* The theorems.                                                           *)
(***************************************************************************)
LEMMA TimedInit == TInit => TimedType /\ RoundInv /\ Early
<1> SUFFICES ASSUME TInit PROVE TimedType /\ RoundInv /\ Early
  OBVIOUS
<1>1. TimedType
  BY DEF TInit, TimedType
<1>2. Early
  BY DEF TInit, Init, Early
<1>3. ASSUME NEW n \in Node PROVE PlanWhole(n) /\ Conserved(n) /\ OnTour(n)
  <2>1. /\ plan[n] = <<>> /\ pc[n] = "down" /\ join_mcast_triflag[n] = 0
        /\ \A t \in Node : visited[t] = <<>>
    BY DEF TInit, Init
  <2>2. ~Visits(<<>>, n) /\ ~Received(<<>>, n)
    BY DEF Visits, Received
  <2> QED BY <2>1, <2>2 DEF PlanWhole, Conserved, OnTour
<1>4. Launched
  BY DEF TInit, Init, Launched, Started
<1> QED BY <1>1, <1>2, <1>3, <1>4 DEF RoundInv

TourInv == Known /\ TimedType /\ RoundInv /\ LateInv

LEMMA TourInvHolds == ASSUME Calm PROVE TSpec => []TourInv
<1>1. TInit => TimedType /\ RoundInv /\ LateInv
  BY TimedInit, EarlyIsQuiet
<1>2. Known /\ TimedType /\ RoundInv /\ LateInv /\ [TNext]_tvars
        => TimedType' /\ RoundInv' /\ (LateInv' \/ Early')
  <2> SUFFICES ASSUME Known, TimedType, RoundInv, LateInv, [TNext]_tvars
               PROVE  TimedType' /\ RoundInv' /\ (LateInv' \/ Early')
    OBVIOUS
  <2>1. TypeOK
    BY DEF Known, CustodyInv
  <2> QED BY <2>1, TimedTypeStep, RoundStep, LateInvStep
<1>3. TourInv <=> Known /\ TimedType /\ RoundInv /\ LateInv
  BY DEF TourInv
<1> QED BY <1>1, <1>2, <1>3, EarlyIsQuiet, KnownHolds, PTL DEF TSpec

\* The nodes a tour has reached are VMs.
LEMMA TouredVisits ==
  ASSUME Known, RoundInv, NEW n \in Toured
  PROVE  n \in Node /\ \E t \in Node : Visits(visited[t], n)
<1>1. PICK t \in Node : \E i \in DOMAIN visited[t] : visited[t][i] = n
  BY DEF Toured
<1> DEFINE v == visited[t]
<1>2. v \in Seq(Addr)
  BY DEF Known, CustodyInv, TypeOK
<1>3. PICK i \in 1..Len(v) : v[i] = n
  BY <1>1, <1>2
<1>4. \E l \in Seq(Addr) : plan[t] = v \o l
  <2>1. CASE visited[t] = plan[t]
    <3>1. v \o <<>> = v /\ <<>> \in Seq(Addr)
      BY <1>2, ConcatEmptySeq
    <3> QED BY <2>1, <3>1
  <2>2. ASSUME NEW p \in route, p.tour = t PROVE \E l \in Seq(Addr) : plan[t] = v \o l
    BY <2>2 DEF Known, CustodyInv, TypeOK, Packet, RouteIntact, PacketIntact
  <2>3. ASSUME NEW m \in Node, Holder(m, t) PROVE \E l \in Seq(Addr) : plan[t] = v \o l
    <3>1. /\ plan[t] = v \o Tail(rt_rmsg[m].list) /\ Len(rt_rmsg[m].list) >= 2
          /\ rt_rmsg[m].list \in Seq(Addr)
      BY <2>3 DEF Holder, Known, CustodyInv, TypeOK, List, RouteIntact, HolderIntact
    <3>2. Tail(rt_rmsg[m].list) \in Seq(Addr)
      BY <3>1, TwoStops
    <3> QED BY <3>1, <3>2
  <2> QED BY <2>1, <2>2, <2>3 DEF RoundInv, Conserved
<1>5. PICK l \in Seq(Addr) : plan[t] = v \o l
  BY <1>4
<1>6. /\ Len(v) \in Nat /\ Len(l) \in Nat /\ Len(v \o l) = Len(v) + Len(l)
      /\ (v \o l)[i] = v[i]
  BY <1>2, <1>3, <1>5, ConcatElements
<1>7. i \in 1..Len(v \o l) /\ v \o l # <<>>
  <2>1. i \in 1..Len(v \o l)
    BY <1>3, <1>6
  <2>2. Len(v \o l) # 0
    BY <2>1, <1>6
  <2> QED BY <2>1, <2>2, EmptySeq
<1>8. v \o l \in Seq(Node)
  BY <1>5, <1>7 DEF RoundInv, PlanWhole
<1>9. n \in Node
  BY <1>3, <1>6, <1>7, <1>8
<1> QED BY <1>3, <1>9 DEF Visits

\* No timeout of select() (tour.c 217-226) takes a node out of a tour that goes
\* on: who pings is woken by its alarm (tour.c 189, 207), who is pinged by the
\* requests, and who waits while another has not heard the end by a multicast.
\* So it is however many VMs and tours there are, if all VMs start in time and
\* nothing is lost (Calm).
THEOREM MembersLeaveByHearing == ASSUME Calm PROVE TSpec => []LeaveByHearing
<1>1. TourInv => LeaveByHearing
  <2> SUFFICES ASSUME TourInv, NEW n \in Toured, pc[n] = "exited"
               PROVE  recv_flag[n] /\ Announced # {}
    BY DEF LeaveByHearing
  <2>1. n \in Node /\ \E t \in Node : Visits(visited[t], n)
    BY TouredVisits DEF TourInv
  <2>2. Settled
    BY <2>1 DEF TourInv, RoundInv, Early
  <2>3. n \in Joined
    BY <2>1, <2>2, VisitedJoin DEF TourInv
  <2>4. recv_flag[n]
    BY <2>3 DEF TourInv, LateInv, Leaves
  <2> QED BY <2>1, <2>4 DEF TourInv, LateInv, Clock, Told
<1> QED BY <1>1, TourInvHolds, PTL

\* Everybody on a tour identifies itself to every node that ended one ("Group
\* members please identify yourselves", tour.c 20): in a Calm run every end is
\* answered (tour.c 287-292), and no answer is left unread by a node that its
\* timeout takes out (tour.c 217).
THEOREM AllAreIdentified == ASSUME Calm PROVE TSpec => []AllIdentified
<1>1. TourInv => AllIdentified
  <2> SUFFICES ASSUME TourInv, \A m \in Node : pc[m] = "exited",
                      NEW k \in Announced, NEW x \in Toured, x # k
               PROVE  x \in heard[k]
    BY DEF AllIdentified
  <2>1. k \in Node /\ x \in Node /\ \E t \in Node : Visits(visited[t], x)
    BY TouredVisits DEF TourInv, Announced
  <2>2. Settled
    BY <2>1 DEF TourInv, RoundInv, Early
  <2>3. x \in Joined
    BY <2>1, <2>2, VisitedJoin DEF TourInv
  <2>4. Answered(k, x) /\ ~Fresh(k)
    BY <2>1, <2>3 DEF TourInv, LateInv, Answers, Fresh
  <2>5. mcastq[k] = <<>>
    BY <2>1 DEF TourInv, LateInv, Clock, Member, Open
  <2>6. ~Hears(<<>>, Identify(x))
    BY DEF Hears
  <2> QED BY <2>4, <2>5, <2>6 DEF Answered
<1> QED BY <1>1, TourInvHolds, PTL
=============================================================================
