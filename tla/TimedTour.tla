------------------------------ MODULE TimedTour ------------------------------
(***************************************************************************)
(* The tour program with its clocks: SIGALRM a second after a round of     *)
(* pings, and the two timeouts of select().  Time passes in seconds, and   *)
(* only when every process is blocked: messages are delivered, and handled *)
(* by a process that is ready, in much less than a second.  Within a       *)
(* second every interleaving of Tour is left.                              *)
(***************************************************************************)
EXTENDS Tour

CONSTANT TO_MCAST     \* timeout after a multicast, in seconds

ASSUME TimeoutAssumption == TO_MCAST \in Nat /\ TO_MCAST > 1 /\ TO_EXIT > 1

VARIABLES
  idle,   \* seconds each process has been in its call of select()
  due,    \* has the second of its alarm gone by?
  icmp    \* has it ICMP messages to read?

timing == <<idle, due, icmp>>
tvars == <<vars, timing>>

TInit ==
  /\ Init
  /\ idle = [n \in Node |-> 0]
  /\ due = [n \in Node |-> FALSE]
  /\ icmp = [n \in Node |-> FALSE]

\* A request reaches the raw socket of each target that has one, and the
\* target's kernel answers it.
TPing(n) ==
  /\ Ping(n)
  /\ idle' = [idle EXCEPT ![n] = 0]
  /\ due' = [due EXCEPT ![n] = FALSE]
  /\ LET targets == {ping_list[n][i] : i \in DOMAIN ping_list[n]} \cap Node
         reached == {m \in targets : Open(m)} \cup {m \in {n} : targets # {}}
     IN  icmp' = [m \in Node |-> icmp[m] \/ m \in reached]

\* tv is set anew on every pass.
TWait(n) ==
  /\ Wait(n)
  /\ idle' = [idle EXCEPT ![n] = 0]
  /\ UNCHANGED <<due, icmp>>

Drained_slip(n) == UNCHANGED icmp
Drained(n) == icmp' = [icmp EXCEPT ![n] = FALSE]

\* Stands for the passes that read all the messages there are.
TReadPing(n) ==
  /\ icmp[n] /\ ReadPing(n)
  /\ Drained(n)
  /\ UNCHANGED <<idle, due>>

\* Too early is between the flag's test and select(), so in the second in
\* which the process went back to select().
TAlarm(n) ==
  /\ due[n] /\ due' = [due EXCEPT ![n] = FALSE]
  /\ AlarmOnTime(n) \/ AlarmInLoop(n) \/ (idle[n] = 0 /\ AlarmTooEarly(n))
  /\ UNCHANGED <<idle, icmp>>

Limit(n) == IF recv_flag[n] THEN TO_MCAST ELSE TO_EXIT

Readable(n) ==
  \/ Watched(n, RtFd) /\ \E p \in route : Head(p.list) = n
  \/ Watched(n, McastFd) /\ mcastq[n] # <<>>
  \/ Watched(n, PingFd) /\ icmp[n]

TTimeout(n) ==
  /\ idle[n] = Limit(n) /\ ~Readable(n)
  /\ Timeout(n)
  /\ icmp' = [icmp EXCEPT ![n] = FALSE]
  /\ UNCHANGED <<idle, due>>

\* A latecomer that has yet to start.
Late(n) == n \in Latecomers /\ pc[n] \in {"down", "delay"}

\* A second goes by: every process is blocked, and every list has arrived.
Tick ==
  /\ \E n \in Node : pc[n] = "select"
  /\ \A n \in Node : \/ pc[n] = "exited" \/ Late(n)
                     \/ /\ pc[n] = "select" /\ idle[n] < Limit(n)
                        /\ ~Readable(n) /\ ~due[n]
  /\ \A p \in route : Open(Head(p.list))
  /\ idle' = [n \in Node |-> IF pc[n] = "select" THEN idle[n] + 1 ELSE idle[n]]
  /\ due' = alarm
  /\ UNCHANGED <<vars, icmp>>

TProcess(n) ==
  \/ /\ \/ Launch(n) \/ StartIdle(n) \/ StartTour(n) \/ StartRefused(n)
        \/ Forward(n) \/ JoinGroup(n) \/ ForeignPacket(n) \/ ReceiveMcast(n)
        \/ \E p \in route : ReceiveRoute(n, p)
     /\ UNCHANGED timing
  \/ TPing(n) \/ TWait(n) \/ TReadPing(n) \/ TAlarm(n) \/ TTimeout(n)

TNext ==
  \/ \E n \in Node : TProcess(n)
  \/ (Network \/ Finished) /\ UNCHANGED timing
  \/ Tick

\* The operating system runs every process that is ready and delivers every
\* message that is not lost, and time does not stop.
TSpec == TInit /\ [][TNext]_tvars /\ WF_tvars(TNext)

(***************************************************************************)
(* Toured: the nodes that a tour has reached, and so are in the group.     *)
(***************************************************************************)
Toured == UNION {{visited[t][i] : i \in DOMAIN visited[t]} : t \in Node}

\* Every VM is launched in time with arguments that it accepts, and nothing is
\* lost.  A last argument that repeats the one before it leaves a stop unwritten
\* (see Compose), and the tour may be lost there.
Calm ==
  /\ Latecomers = {} /\ ~AlarmWindow /\ MaxMishaps = 0
  /\ \A line \in Launches : \A n \in Node :
       LET args == line[n]
       IN  /\ Len(args) + 1 <= MAX_ARGS
           /\ \A i \in DOMAIN args : args[i] # BadName
           /\ Len(args) >= 2 => Len(args) + 1 \notin Repeats(<<n>> \o args)

\* A node in the group does not leave before it has heard that the tour is
\* over: no timeout takes it out of a tour that goes on.
LeaveByHearing ==
  \A n \in Toured : pc[n] = "exited" => recv_flag[n] /\ Announced # {}

\* "Group members please identify yourselves" (tour.c 20): when all is over
\* the node that announced the end has heard from every other member.
AllIdentified ==
  (\A n \in Node : pc[n] = "exited") =>
    \A n \in Announced : Toured \ {n} \subseteq heard[n]

\* Every process leaves, whatever is lost.
EveryoneLeaves == <>(\A n \in Node : pc[n] = "exited")

\* A tour that is started reaches its last stop: no socket is opened too late
\* ("make sure socket is open on all nodes before starting", tour.c 91).
TourCompletes ==
  \A t \in Node : (plan[t] # <<>>) ~> Completed(t)

\* tour.c 24: a "mcast" is sent out some pings "after final message" (or the
\* last stop hears one that another tour's end has brought about).
EndFollows ==
  \A n \in Node : final[n] ~> (ended[n] > 0 \/ recv_flag[n])
=============================================================================
