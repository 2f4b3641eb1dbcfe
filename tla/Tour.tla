-------------------------------- MODULE Tour --------------------------------
(***************************************************************************)
(* The tour program (tour.c with rt.c, mcast.c and myping.c): one process  *)
(* per VM.  A starting node composes a list of stops and sends it by       *)
(* strict source routing; every node that receives it strikes itself off,  *)
(* sends the rest to the next stop, joins the multicast group and pings    *)
(* its predecessors once a second.  Some pings after the last stop         *)
(* received the list it multicasts the end of the tour, on which the       *)
(* members identify themselves, stop pinging and, after a quiet while,     *)
(* leave.                                                                  *)
(*                                                                         *)
(* A process is single-threaded: one pass of its loop sends, joins and     *)
(* pings (pc "loop"), waits in select() (pc "select") and handles one      *)
(* event.  SIGALRM can arrive anywhere.  Messages that are in flight and   *)
(* messages in a socket's buffer are not told apart, so the order in       *)
(* which the loop tests the descriptors of one select() leaves every       *)
(* order of handling possible.  Time is abstract here: see TimedTour.      *)
(*                                                                         *)
(* An operator X_slip is X with a slip of the pen; nothing uses it, but    *)
(* put in the place of X it must break the property PROJECT.json names.    *)
(***************************************************************************)
EXTENDS TourMessage

CONSTANTS
  Node,         \* the VMs
  Nowhere,      \* an address of no VM
  BadName,      \* a command-line argument that names no VM
  Launches,     \* command lines considered: a set of functions on Node
  MAX_ARGS,     \* largest argc accepted
  NUM_PINGS,    \* pings before the end is multicast
  TO_EXIT,      \* initial value of ping_stop (and a timeout, in TimedTour)
  RtFd,         \* descriptors handed out by the operating system:
  PingFd,       \*   lowest free one first, so they grow in the order
  McastFd,      \*   in which the program opens its sockets
  Latecomers,   \* nodes that may be launched after START_DELAY of the others
  AlarmWindow,  \* TRUE: SIGALRM may hit between the flag's test and select()
  MaxPings,     \* bound: no alarm outside select() past this many pings
  MaxMishaps    \* bound: packets lost or foreign

Argv == Seq(Node \cup {BadName})

ASSUME NodeAssumption ==
  IsFiniteSet(Node) /\ Nowhere \notin Node /\ BadName \notin Node
ASSUME LaunchAssumption == \A l \in Launches :
         DOMAIN l = Node /\ \A n \in Node : l[n] \in Argv
ASSUME NumberAssumption ==
  /\ MAX_ARGS \in Nat /\ NUM_PINGS \in Nat /\ TO_EXIT \in Nat
  /\ MaxPings \in Nat /\ MaxMishaps \in Nat
ASSUME FdAssumption == \* the sending multicast socket is opened between the two
  /\ RtFd \in Nat /\ PingFd \in Nat /\ McastFd \in Nat
  /\ RtFd < PingFd /\ PingFd + 1 < McastFd
ASSUME SwitchAssumption == Latecomers \subseteq Node /\ AlarmWindow \in BOOLEAN

VARIABLES
  argv,                \* command line of each node, without the program name
  pc,                  \* where each process is
  me_flag,             \* has it a list to send on?
  rt_rmsg,             \* the list last composed or received
  join_mcast_triflag,  \* 0: not in the group, 1: to join, 255: member
  recv_flag,           \* has it heard a multicast?
  ping_flag,           \* is it to ping on the next pass?
  ping_cnt,            \* rounds of pings sent
  ping_stop,           \* rounds after which the end is multicast
  ping_list,           \* the addresses to ping
  alarm,               \* is a SIGALRM due?
  max_fd,              \* select() looks at the descriptors below max_fd
  route,               \* source-routing packets on their way
  mcastq,              \* multicast messages readable, per node
  mishaps,             \* packets lost or foreign so far
  plan,                \* history: the list each starting node composed
  visited,             \* history: the nodes each tour has reached
  final,               \* history: was it the last stop of a list?
  ended,               \* history: ends of tour each node multicast
  heard                \* history: members whose identification it received

local   == <<me_flag, rt_rmsg, join_mcast_triflag, recv_flag, ping_flag,
             ping_cnt, ping_stop, ping_list, alarm, max_fd>>
network == <<route, mcastq>>
history == <<plan, visited, final, ended, heard>>
vars    == <<argv, pc, local, network, mishaps, history>>

Addr == Node \cup {Nowhere}
List == [tour : Node, list : Seq(Addr)]       \* tour: history, who started it
Packet == [src : Addr, tour : Node, list : Seq(Addr)]
McastMsg == [type : {"end", "identify"}, from : Node]

\* Every variable of main() (tour.c 31-61) and of the network has its type.
TypeOK ==
  /\ argv \in Launches
  /\ pc \in [Node -> {"down", "delay", "loop", "select", "exited"}]
  /\ me_flag \in [Node -> BOOLEAN]
  /\ rt_rmsg \in [Node -> List]
  /\ join_mcast_triflag \in [Node -> {0, 1, 255}]
  /\ recv_flag \in [Node -> BOOLEAN]
  /\ ping_flag \in [Node -> BOOLEAN]
  /\ ping_cnt \in [Node -> Nat]
  /\ ping_stop \in [Node -> Nat]
  /\ ping_list \in [Node -> Seq(Addr)]
  /\ alarm \in [Node -> BOOLEAN]
  /\ max_fd \in [Node -> Nat]
  /\ route \in SUBSET Packet
  /\ mcastq \in [Node -> Seq(McastMsg)]
  /\ mishaps \in Nat
  /\ plan \in [Node -> Seq(Addr)]
  /\ visited \in [Node -> Seq(Addr)]
  /\ final \in [Node -> BOOLEAN]
  /\ ended \in [Node -> Nat]
  /\ heard \in [Node -> SUBSET Node]

Init ==
  /\ argv \in Launches
  /\ pc = [n \in Node |-> "down"]
  /\ me_flag = [n \in Node |-> FALSE]
  /\ rt_rmsg = [n \in Node |-> [tour |-> n, list |-> <<>>]]
  /\ join_mcast_triflag = [n \in Node |-> 0]
  /\ recv_flag = [n \in Node |-> FALSE]
  /\ ping_flag = [n \in Node |-> FALSE]
  /\ ping_cnt = [n \in Node |-> 0]
  /\ ping_stop = [n \in Node |-> TO_EXIT]
  /\ ping_list = [n \in Node |-> <<>>]
  /\ alarm = [n \in Node |-> FALSE]
  /\ max_fd = [n \in Node |-> 0]
  /\ route = {}
  /\ mcastq = [n \in Node |-> <<>>]
  /\ mishaps = 0
  /\ plan = [n \in Node |-> <<>>]
  /\ visited = [n \in Node |-> <<>>]
  /\ final = [n \in Node |-> FALSE]
  /\ ended = [n \in Node |-> 0]
  /\ heard = [n \in Node |-> {}]

Open(n) == pc[n] \in {"delay", "loop", "select"}
Member(n) == Open(n) /\ join_mcast_triflag[n] = 255
Goto(n, from, to) == pc[n] = from /\ pc' = [pc EXCEPT ![n] = to]

\* max_fd = (fd > max_fd) ? (fd + 1) : max_fd, and what select() makes of it
Raised_slip(max, fd) == IF fd > max THEN fd ELSE max
Raised(max, fd) == IF fd > max THEN fd + 1 ELSE max
Watched(n, fd) == fd < max_fd[n]

(***************************************************************************)
(* Start of a process.                                                     *)
(***************************************************************************)
Starter(n) == Len(argv[n]) >= 2     \* argc > 2

\* The sockets are opened before the delay, so that packets queue up in it.
Launch(n) ==
  /\ Goto(n, "down", IF Len(argv[n]) + 1 > MAX_ARGS THEN "exited" ELSE "delay")
  /\ UNCHANGED <<argv, local, network, mishaps, history>>

AfterDelay_slip(n, to) == Goto(n, "delay", to)

AfterDelay(n, to) ==
  /\ \A m \in Node \ Latecomers : pc[m] # "down"
  /\ Goto(n, "delay", to)

\* max_fd after the two sockets that every node opens
InitialMaxFd == Raised(Raised(0, RtFd), PingFd)

StartIdle(n) ==
  /\ ~Starter(n)
  /\ AfterDelay(n, "loop")
  /\ max_fd' = [max_fd EXCEPT ![n] = InitialMaxFd]
  /\ UNCHANGED <<argv, me_flag, rt_rmsg, join_mcast_triflag, recv_flag,
                 ping_flag, ping_cnt, ping_stop, ping_list, alarm,
                 network, mishaps, history>>

\* junk is what the stack held where no stop was written.
StartTour(n) ==
  /\ Starter(n)
  /\ \A i \in DOMAIN argv[n] : argv[n][i] # BadName
  /\ AfterDelay(n, "loop")
  /\ \E junk \in Addr :
       LET l == Compose(<<n>> \o argv[n], junk)
       IN  /\ rt_rmsg' = [rt_rmsg EXCEPT ![n] = [tour |-> n, list |-> l]]
           /\ plan' = [plan EXCEPT ![n] = l]
  /\ visited' = [visited EXCEPT ![n] = <<n>>]
  /\ me_flag' = [me_flag EXCEPT ![n] = TRUE]
  /\ join_mcast_triflag' = [join_mcast_triflag EXCEPT ![n] = 1]
  /\ max_fd' = [max_fd EXCEPT ![n] = InitialMaxFd]
  /\ UNCHANGED <<argv, recv_flag, ping_flag, ping_cnt, ping_stop, ping_list,
                 alarm, network, mishaps, final, ended, heard>>

\* An argument that names no VM: the process exits before it sends.
StartRefused(n) ==
  /\ Starter(n)
  /\ \E i \in DOMAIN argv[n] : argv[n][i] = BadName
  /\ AfterDelay(n, "exited")
  /\ UNCHANGED <<argv, local, network, mishaps, history>>

(***************************************************************************)
(* One pass of the loop, up to select().                                   *)
(***************************************************************************)
\* The list without this stop: copied from slot 1 on, rt_len less one stop.
Rest_slip(list) == SubSeq(list, 1, Len(list) - 1)
Rest(list) == Tail(list)

Sent_slip(n) == UNCHANGED me_flag
Sent(n) == me_flag' = [me_flag EXCEPT ![n] = FALSE]

\* The rest of the list goes to its first stop; the packet's source is the
\* stop struck off.
Forward(n) ==
  /\ pc[n] = "loop" /\ me_flag[n]
  /\ LET l == rt_rmsg[n].list
         p == [src |-> Head(l), tour |-> rt_rmsg[n].tour, list |-> Rest(l)]
     IN  IF Head(p.list) \in Node
           THEN route' = route \cup {p} /\ UNCHANGED pc
           ELSE /\ UNCHANGED route   \* lost, or Sendto() fails and exits
                /\ \E to \in {"loop", "exited"} : pc' = [pc EXCEPT ![n] = to]
  /\ Sent(n)
  /\ UNCHANGED <<argv, rt_rmsg, join_mcast_triflag, recv_flag, ping_flag,
                 ping_cnt, ping_stop, ping_list, alarm, max_fd, mcastq,
                 mishaps, history>>

JoinGroup(n) ==
  /\ pc[n] = "loop" /\ ~me_flag[n] /\ join_mcast_triflag[n] = 1
  /\ join_mcast_triflag' = [join_mcast_triflag EXCEPT ![n] = 255]
  /\ max_fd' = [max_fd EXCEPT ![n] = Raised(@, McastFd)]
  /\ UNCHANGED <<argv, pc, me_flag, rt_rmsg, recv_flag, ping_flag, ping_cnt,
                 ping_stop, ping_list, alarm, network, mishaps, history>>

ReadyToPing(n) == ~me_flag[n] /\ join_mcast_triflag[n] # 1

\* alarm(ALARM_RATE) replaces an alarm that has not come yet.
SetAlarm_slip(n) == UNCHANGED alarm
SetAlarm(n) == alarm' = [alarm EXCEPT ![n] = TRUE]

\* A round of pings.
Ping(n) ==
  /\ Goto(n, "loop", "select") /\ ReadyToPing(n)
  /\ ping_flag[n] /\ ~recv_flag[n]
  /\ ping_flag' = [ping_flag EXCEPT ![n] = FALSE]
  /\ ping_cnt' = [ping_cnt EXCEPT ![n] = @ + 1]
  /\ SetAlarm(n)
  /\ UNCHANGED <<argv, me_flag, rt_rmsg, join_mcast_triflag, recv_flag,
                 ping_stop, ping_list, max_fd, network, mishaps, history>>

\* No ping on this pass.
Wait(n) ==
  /\ Goto(n, "loop", "select") /\ ReadyToPing(n)
  /\ ~ping_flag[n] \/ recv_flag[n]
  /\ UNCHANGED <<argv, local, network, mishaps, history>>

(***************************************************************************)
(* The event that ends select(), and its handling.                         *)
(***************************************************************************)
Multicast(n, m, queue) ==
  [x \in Node |-> IF Member(x) /\ x # n THEN Append(queue[x], m) ELSE queue[x]]

\* rt_len < MSGARG_LEN * 2: one address is left.
LastStop_slip(list) == Len(list) <= 2
LastStop(list) == Len(list) < 2

StartPinging(n) == ping_flag' = [ping_flag EXCEPT ![n] = TRUE]

StopAt_slip(n) == ping_cnt[n] - NUM_PINGS
StopAt(n) == ping_cnt[n] + NUM_PINGS

\* recv_rt() accepts the packet.
ReceiveRoute(n, p) ==
  /\ p \in route /\ Head(p.list) = n /\ Watched(n, RtFd)
  /\ Goto(n, "select", "loop")
  /\ route' = route \ {p}
  /\ rt_rmsg' = [rt_rmsg EXCEPT ![n] = [tour |-> p.tour, list |-> p.list]]
  /\ IF LastStop(p.list)
       THEN /\ ping_stop' = [ping_stop EXCEPT ![n] = StopAt(n)]
            /\ final' = [final EXCEPT ![n] = TRUE]
            /\ UNCHANGED me_flag
       ELSE /\ me_flag' = [me_flag EXCEPT ![n] = TRUE]
            /\ UNCHANGED <<ping_stop, final>>
  /\ ping_list' = [ping_list EXCEPT ![n] = PingInsert(@, p.src)]
  /\ StartPinging(n)
  /\ join_mcast_triflag' = [join_mcast_triflag EXCEPT ![n] =
                              IF @ # 255 THEN 1 ELSE @]
  /\ visited' = [visited EXCEPT ![p.tour] = Append(@, n)]
  /\ UNCHANGED <<argv, recv_flag, ping_cnt, alarm, max_fd, mcastq,
                 mishaps, plan, ended, heard>>

\* recv_rt() returns NULL for an IP identification that is not the program's.
ForeignPacket(n) ==
  /\ Watched(n, RtFd)
  /\ Goto(n, "select", "loop")
  /\ mishaps < MaxMishaps /\ mishaps' = mishaps + 1
  /\ UNCHANGED <<argv, local, network, history>>

\* An ICMP message, of this program or of any host, only ends select().
ReadPing(n) ==
  /\ Watched(n, PingFd)
  /\ Goto(n, "select", "loop")
  /\ UNCHANGED <<argv, local, network, mishaps, history>>

\* A member answers the end of the tour, and only that, with its name.
Answer_slip(n, m, queue) == queue
Answer(n, m, queue) ==
  IF m.type = "end" THEN Multicast(n, [type |-> "identify", from |-> n], queue)
                    ELSE queue

ReceiveMcast(n) ==
  /\ Member(n) /\ mcastq[n] # <<>> /\ Watched(n, McastFd)
  /\ Goto(n, "select", "loop")
  /\ LET m == Head(mcastq[n])
     IN  /\ mcastq' = Answer(n, m, [mcastq EXCEPT ![n] = Tail(@)])
         /\ heard' = [heard EXCEPT ![n] =
                       IF m.type = "identify" THEN @ \cup {m.from} ELSE @]
  /\ recv_flag' = [recv_flag EXCEPT ![n] = TRUE]
  /\ ping_flag' = [ping_flag EXCEPT ![n] = FALSE]
  /\ UNCHANGED <<argv, me_flag, rt_rmsg, join_mcast_triflag, ping_cnt,
                 ping_stop, ping_list, alarm, max_fd, route, mishaps,
                 plan, visited, final, ended>>

(***************************************************************************)
(* SIGALRM.  In select() it makes the call fail with EINTR.                *)
(***************************************************************************)
EndDue_slip(n) == ping_cnt[n] > NUM_PINGS
EndDue(n) == ping_cnt[n] > ping_stop[n]

\* The handler sets the flag; the node that ends the tour resets it.
FlagAfterAlarm_slip(n) == TRUE
FlagAfterAlarm(n) == ~EndDue(n)

AlarmOnTime(n) ==
  /\ Goto(n, "select", "loop")
  /\ alarm[n] /\ alarm' = [alarm EXCEPT ![n] = FALSE]
  /\ ping_flag' = [ping_flag EXCEPT ![n] = FlagAfterAlarm(n)]
  /\ IF EndDue(n)
       THEN /\ mcastq' = Multicast(n, [type |-> "end", from |-> n], mcastq)
            /\ ended' = [ended EXCEPT ![n] = @ + 1]
       ELSE UNCHANGED <<mcastq, ended>>
  /\ UNCHANGED <<argv, me_flag, rt_rmsg, join_mcast_triflag, recv_flag,
                 ping_cnt, ping_stop, ping_list, max_fd, route,
                 mishaps, plan, visited, final, heard>>

\* Elsewhere ping_alarm() only sets the flag: before the flag's test ...
AlarmInLoop(n) ==
  /\ pc[n] = "loop" /\ alarm[n] /\ ping_cnt[n] < MaxPings
  /\ alarm' = [alarm EXCEPT ![n] = FALSE]
  /\ ping_flag' = [ping_flag EXCEPT ![n] = TRUE]
  /\ UNCHANGED <<argv, pc, me_flag, rt_rmsg, join_mcast_triflag, recv_flag,
                 ping_cnt, ping_stop, ping_list, max_fd, network, mishaps,
                 history>>

\* ... or after it, and select() is then entered with nothing to wake it.
AlarmTooEarly(n) ==
  /\ AlarmWindow
  /\ pc[n] = "select" /\ alarm[n] /\ ping_cnt[n] < MaxPings
  /\ alarm' = [alarm EXCEPT ![n] = FALSE]
  /\ ping_flag' = [ping_flag EXCEPT ![n] = TRUE]
  /\ UNCHANGED <<argv, pc, me_flag, rt_rmsg, join_mcast_triflag, recv_flag,
                 ping_cnt, ping_stop, ping_list, max_fd, network, mishaps,
                 history>>

(***************************************************************************)
(* select() times out: the process leaves.  Both timeouts are longer than  *)
(* the second of an alarm.  A message may be on its way to the node.       *)
(***************************************************************************)
Timeout(n) ==
  /\ ~alarm[n]
  /\ Goto(n, "select", "exited")
  /\ mcastq' = [mcastq EXCEPT ![n] = <<>>]
  /\ UNCHANGED <<argv, local, route, mishaps, history>>

(***************************************************************************)
(* The network: both transports are unreliable.                            *)
(***************************************************************************)
LoseRoute(p) ==
  /\ p \in route /\ route' = route \ {p}
  /\ mishaps < MaxMishaps /\ mishaps' = mishaps + 1
  /\ UNCHANGED <<argv, pc, local, mcastq, history>>

\* No raw socket for the protocol at the destination.
RouteUnclaimed(p) ==
  /\ p \in route /\ ~Open(Head(p.list))
  /\ route' = route \ {p}
  /\ UNCHANGED <<argv, pc, local, mcastq, mishaps, history>>

LoseMcast(n) ==
  /\ mcastq[n] # <<>> /\ mcastq' = [mcastq EXCEPT ![n] = Tail(@)]
  /\ mishaps < MaxMishaps /\ mishaps' = mishaps + 1
  /\ UNCHANGED <<argv, pc, local, route, history>>

Finished == /\ \A n \in Node : pc[n] = "exited"
            /\ UNCHANGED vars

Process(n) ==
  \/ Launch(n) \/ StartIdle(n) \/ StartTour(n) \/ StartRefused(n)
  \/ Forward(n) \/ JoinGroup(n) \/ Ping(n) \/ Wait(n)
  \/ \E p \in route : ReceiveRoute(n, p)
  \/ ForeignPacket(n) \/ ReadPing(n) \/ ReceiveMcast(n)
  \/ AlarmOnTime(n) \/ AlarmInLoop(n) \/ AlarmTooEarly(n) \/ Timeout(n)

Network ==
  \/ \E p \in route : LoseRoute(p) \/ RouteUnclaimed(p)
  \/ \E n \in Node : LoseMcast(n)

Next == (\E n \in Node : Process(n)) \/ Network \/ Finished

Spec == Init /\ [][Next]_vars

(***************************************************************************)
(* What the nodes together keep true.                                      *)
(***************************************************************************)
Holder(n, t) == me_flag[n] /\ rt_rmsg[n].tour = t

\* The list on its way is exactly what is left of the composed one: no stop
\* is skipped, repeated or reordered (send_rt() gets rt_rmsg shifted by one
\* address and rt_len less one), and its source is the stop struck off.
PacketIntact(p) ==
  /\ plan[p.tour] = visited[p.tour] \o p.list
  /\ visited[p.tour] # <<>> /\ p.list # <<>>
  /\ p.src = visited[p.tour][Len(visited[p.tour])]

HolderIntact(n) ==
  LET t == rt_rmsg[n].tour
      l == rt_rmsg[n].list
  IN  /\ plan[t] = visited[t] \o Tail(l)
      /\ visited[t] # <<>> /\ visited[t][Len(visited[t])] = n
      /\ l[1] = n /\ Len(l) >= 2

RouteIntact ==
  /\ \A p \in route : PacketIntact(p)
  /\ \A n \in Node : me_flag[n] => HolderIntact(n)

\* The rest of a list is in one place at most: a packet, or a node that has
\* not sent it on.  Two would send the tour through its stops twice.
OneCustodian ==
  \A t \in Node :
    /\ \A p, q \in route : p.tour = t /\ q.tour = t => p = q
    /\ \A m, n \in Node : Holder(m, t) /\ Holder(n, t) => m = n
    /\ \A p \in route, n \in Node : ~(p.tour = t /\ Holder(n, t))

\* Before a node has composed its list there is none, and a process that
\* waits in select() has nothing left to send: so ReceiveRoute() overwrites
\* no list that is still to be sent on.
NothingPending ==
  \A n \in Node :
    /\ pc[n] \in {"down", "delay"} =>
         plan[n] = <<>> /\ visited[n] = <<>> /\ ~me_flag[n]
    /\ pc[n] = "select" => ~me_flag[n]

\* The inductive invariant of the lists.
CustodyInv == TypeOK /\ NothingPending /\ RouteIntact /\ OneCustodian

\* A node pings its predecessors in the tours and nobody else; one of them
\* may be in the list twice, then side by side: the search of the list
\* (tour.c 260) leaves out the last element.
PingsPredecessors ==
  \A n \in Node :
    /\ {ping_list[n][i] : i \in DOMAIN ping_list[n]} =
         UNION {{visited[t][i-1] :
                  i \in {j \in 2..Len(visited[t]) : visited[t][j] = n}} :
                t \in Node}
    /\ \A i, j \in DOMAIN ping_list[n] :
         i < j /\ ping_list[n][i] = ping_list[n][j] => j = i + 1

\* A node that has pinged looks at the descriptor the answers come in on,
\* although the two tests of tour.c 131-132 leave it out of max_fd.
AnswersAreRead ==
  \A n \in Node : ping_cnt[n] > 0 =>
    join_mcast_triflag[n] = 255 /\ Watched(n, PingFd) /\ Watched(n, McastFd)

Completed(t) == plan[t] # <<>> /\ visited[t] = plan[t]
EndOf(n) == \E t \in Node : Completed(t) /\ plan[t][Len(plan[t])] = n
GaveUp == {n \in Node : ping_cnt[n] > TO_EXIT}
Announced == {n \in Node : ended[n] > 0}

\* The end is multicast by the last stop of a tour that went all the way,
\* or by a node that pinged its predecessors more than TO_EXIT times.
EndIsEarned == \A n \in Announced : n \in GaveUp \/ EndOf(n)

\* Why: only a last stop lowers ping_stop.
EndInv ==
  /\ EndIsEarned
  /\ \A n \in Node : IF final[n] THEN EndOf(n) ELSE ping_stop[n] = TO_EXIT

OneStarter == Cardinality({n \in Node : argv[n] # <<>>}) = 1

\* With one tour, the last stop announces the end once and pings no more
\* after it ("no more pinging", tour.c 205), unless it had given up before.
EndIsFinal ==
  [][OneStarter =>
       \A n \in Node \ GaveUp : ended[n] > 0 => /\ ping_cnt'[n] = ping_cnt[n]
                                                /\ ended'[n] = ended[n]]_vars

\* Tour implements TourService: the packets, loops and alarms of the program
\* walk each list one stop at a time, in order, and announce only its end.
Service == INSTANCE TourService WITH announced <- Announced, gaveUp <- GaveUp
Implements == Service!Spec
=============================================================================
