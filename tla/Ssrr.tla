--------------------------------- MODULE Ssrr ---------------------------------
(***************************************************************************)
(* The test bench of source routing (ssrr_test.c) on all VMs.  Each is     *)
(* started with the same arguments, and the one they name first starts.  A *)
(* node that receives a list sends on what follows its first address, also *)
(* when nothing does: the last stop sends an empty list to the address     *)
(* that its buffer holds from before, and whoever receives that takes off  *)
(* one address more and copies -4 bytes.                                   *)
(*                                                                         *)
(* A process is cut where an event from outside matters: "loop" is the top *)
(* of while (line 122), "select" the call of line 157.  Left out: packets  *)
(* with a foreign identification, which change nothing that is read later. *)
(*                                                                         *)
(* An operator X_slip is X with a slip of the pen (see Tour).              *)
(***************************************************************************)
EXTENDS Integers, Sequences

CONSTANTS
  Host,       \* the VMs
  Nowhere,    \* the addresses of no VM
  BadName,    \* an argument that names no VM
  Lists,      \* the arguments that are tried
  Stacks,     \* what is tried as content of rt_rmsg before it is written
  MAX_ARGS,   \* the largest argc accepted
  NUM_PINGS, TO_EXIT

Addr == Host \cup {Nowhere}

ASSUME NameAssumption == Nowhere \notin Host /\ BadName \notin Addr
ASSUME ListsAssumption == /\ Lists \subseteq Seq(Host \cup {BadName})
                          /\ Stacks \subseteq [Host -> Addr]
ASSUME PingAssumption == NUM_PINGS \in Nat /\ TO_EXIT \in Nat

VARIABLES
  args,       \* the arguments, the same everywhere
  stack,      \* the address that rt_rmsg of each node starts with
  pc,         \* "delay", "loop", "select", "exited" or "crashed"
  rt_rmsg,    \* its slots, from the first
  rt_len,     \* addresses in it
  me_flag, ping_flag, ping_cnt, ping_stop,
  alarm,      \* is a SIGALRM on its way?
  net,        \* the packets on their way
  visited     \* history: the nodes that had the list

pings == <<ping_flag, ping_cnt, ping_stop, alarm>>
buffer == <<rt_rmsg, rt_len>>
vars == <<args, stack, pc, buffer, me_flag, pings, net, visited>>

Packet == [to : Host, list : Seq(Addr)]

TypeOK ==
  /\ args \in Lists /\ stack \in Stacks
  /\ pc \in [Host -> {"delay", "loop", "select", "exited", "crashed"}]
  /\ rt_rmsg \in [Host -> Seq(Addr)] /\ rt_len \in [Host -> Nat]
  /\ me_flag \in [Host -> BOOLEAN] /\ ping_flag \in [Host -> BOOLEAN]
  /\ alarm \in [Host -> BOOLEAN]
  /\ ping_cnt \in [Host -> Nat] /\ ping_stop \in [Host -> Nat]
  /\ net \subseteq Packet /\ visited \in Seq(Host)

Init ==
  /\ args \in Lists /\ stack \in Stacks
  /\ pc = [n \in Host |-> "delay"]
  /\ rt_rmsg = [n \in Host |-> <<stack[n], stack[n]>>]
  /\ rt_len = [n \in Host |-> 0]
  /\ me_flag = [n \in Host |-> FALSE]
  /\ ping_flag = [n \in Host |-> FALSE]
  /\ ping_cnt = [n \in Host |-> 0]
  /\ ping_stop = [n \in Host |-> TO_EXIT]
  /\ alarm = [n \in Host |-> FALSE]
  /\ net = {} /\ visited = <<>>

Goto(n, label) == pc' = [pc EXCEPT ![n] = label]

\* What memcpy() makes of a buffer: the slots after the list stay.
Overwritten_slip(old, list) == list \o old
Overwritten(old, list) == list \o SubSeq(old, Len(list) + 1, Len(old))

(***************************************************************************)
(* After sleep(START_DELAY): the raw socket and, at the first node of the  *)
(* arguments, the first list.                                              *)
(***************************************************************************)
Usage == args = <<>> \/ Len(args) + 1 > MAX_ARGS
First(n) == ~Usage /\ n = args[1]

StartRefused(n) ==
  /\ pc[n] = "delay"
  /\ Usage \/ (First(n) /\ \E i \in DOMAIN args : args[i] = BadName)
  /\ Goto(n, "exited")
  /\ UNCHANGED <<args, stack, buffer, me_flag, pings, net, visited>>

StartIdle(n) ==
  /\ pc[n] = "delay" /\ ~Usage /\ ~First(n)
  /\ Goto(n, "loop")
  /\ UNCHANGED <<args, stack, buffer, me_flag, pings, net, visited>>

StartTour(n) ==
  /\ pc[n] = "delay" /\ First(n)
  /\ \A i \in DOMAIN args : args[i] # BadName
  /\ Goto(n, "loop")
  /\ rt_rmsg' = [rt_rmsg EXCEPT ![n] = Overwritten(@, args)]
  /\ rt_len' = [rt_len EXCEPT ![n] = Len(args)]
  /\ me_flag' = [me_flag EXCEPT ![n] = TRUE]
  /\ visited' = <<n>>
  /\ UNCHANGED <<args, stack, pings, net>>

(***************************************************************************)
(* A pass of the loop up to select().                                      *)
(***************************************************************************)
Rest_slip(n) == SubSeq(rt_rmsg[n], 2, rt_len[n] - 1)
Rest(n) == SubSeq(rt_rmsg[n], 2, rt_len[n])

Sent(n) ==
  /\ pc[n] = "loop" /\ me_flag[n] /\ rt_len[n] > 0
  /\ rt_len' = [rt_len EXCEPT ![n] = @ - 1]
  /\ me_flag' = [me_flag EXCEPT ![n] = FALSE]
  /\ UNCHANGED <<args, stack, rt_rmsg, pings, visited>>

Send(n) ==
  /\ Sent(n) /\ rt_rmsg[n][2] \in Host
  /\ net' = net \cup {[to |-> rt_rmsg[n][2], list |-> Rest(n)]}
  /\ UNCHANGED pc

\* There is no such address: the list is lost, or Sendto() fails and exits.
SendNowhere(n) ==
  /\ Sent(n) /\ rt_rmsg[n][2] = Nowhere
  /\ Goto(n, "loop") \/ Goto(n, "exited")
  /\ UNCHANGED net

\* rt_len becomes -MSGARG_LEN, the size of a memcpy() in send_rt().
Crash(n) ==
  /\ pc[n] = "loop" /\ me_flag[n] /\ rt_len[n] = 0
  /\ Goto(n, "crashed")
  /\ UNCHANGED <<args, stack, buffer, me_flag, pings, net, visited>>

\* Does not count the round.
Ping_slip(n) ==
  /\ pc[n] = "loop" /\ ~me_flag[n] /\ ping_flag[n]
  /\ ping_flag' = [ping_flag EXCEPT ![n] = FALSE]
  /\ alarm' = [alarm EXCEPT ![n] = TRUE]
  /\ Goto(n, "select")
  /\ UNCHANGED <<args, stack, buffer, me_flag, ping_cnt, ping_stop, net, visited>>

Ping(n) ==
  /\ pc[n] = "loop" /\ ~me_flag[n] /\ ping_flag[n]
  /\ ping_flag' = [ping_flag EXCEPT ![n] = FALSE]
  /\ ping_cnt' = [ping_cnt EXCEPT ![n] = @ + 1]
  /\ alarm' = [alarm EXCEPT ![n] = TRUE]
  /\ Goto(n, "select")
  /\ UNCHANGED <<args, stack, buffer, me_flag, ping_stop, net, visited>>

Wait(n) ==
  /\ pc[n] = "loop" /\ ~me_flag[n] /\ ~ping_flag[n]
  /\ Goto(n, "select")
  /\ UNCHANGED <<args, stack, buffer, me_flag, pings, net, visited>>

(***************************************************************************)
(* The events.                                                             *)
(***************************************************************************)
Receive(n, p) ==
  /\ pc[n] = "select" /\ p \in net /\ p.to = n
  /\ net' = net \ {p}
  /\ rt_rmsg' = [rt_rmsg EXCEPT ![n] = Overwritten(@, p.list)]
  /\ rt_len' = [rt_len EXCEPT ![n] = Len(p.list)]
  /\ ping_stop' = IF Len(p.list) < 2
                    THEN [ping_stop EXCEPT ![n] = ping_cnt[n] + NUM_PINGS]
                    ELSE ping_stop
  /\ ping_flag' = [ping_flag EXCEPT ![n] = TRUE]
  /\ me_flag' = [me_flag EXCEPT ![n] = TRUE]
  /\ visited' = IF p.list = <<>> THEN visited ELSE Append(visited, n)
  /\ Goto(n, "loop")
  /\ UNCHANGED <<args, stack, ping_cnt, alarm>>

Lose(p) ==
  /\ p \in net /\ net' = net \ {p}
  /\ UNCHANGED <<args, stack, pc, buffer, me_flag, pings, visited>>

PingsDue(n) == ping_cnt[n] <= ping_stop[n]

\* EINTR.
Alarm(n) ==
  /\ pc[n] = "select" /\ alarm[n]
  /\ alarm' = [alarm EXCEPT ![n] = FALSE]
  /\ ping_flag' = [ping_flag EXCEPT ![n] = PingsDue(n)]
  /\ Goto(n, "loop")
  /\ UNCHANGED <<args, stack, buffer, me_flag, ping_cnt, ping_stop, net, visited>>

\* The handler runs elsewhere in the loop, or just before select() blocks.
AlarmUnseen(n) ==
  /\ pc[n] \in {"loop", "select"} /\ alarm[n]
  /\ alarm' = [alarm EXCEPT ![n] = FALSE]
  /\ ping_flag' = [ping_flag EXCEPT ![n] = TRUE]
  /\ UNCHANGED <<args, stack, pc, buffer, me_flag, ping_cnt, ping_stop, net, visited>>

\* An alarm comes long before TO_EXIT.
Timeout(n) ==
  /\ pc[n] = "select" /\ ~alarm[n] /\ \A p \in net : p.to # n
  /\ Goto(n, "exited")
  /\ UNCHANGED <<args, stack, buffer, me_flag, pings, net, visited>>

Process(n) == \/ StartRefused(n) \/ StartIdle(n) \/ StartTour(n)
              \/ Send(n) \/ SendNowhere(n) \/ Crash(n) \/ Ping(n) \/ Wait(n)
              \/ Alarm(n) \/ AlarmUnseen(n) \/ Timeout(n)
              \/ \E p \in net : Receive(n, p)

Next == (\E n \in Host : Process(n)) \/ (\E p \in net : Lose(p))

Spec == Init /\ [][Next]_vars

\* Processes that are not blocked run, and packets arrive or are lost.
FairSpec == Spec /\ WF_vars(Next)

(***************************************************************************)
(* Properties.                                                             *)
(***************************************************************************)
Holds(n) == pc[n] = "loop" /\ me_flag[n]

\* The list is in one place, and with the nodes that had it makes up the
\* arguments: no stop is skipped, repeated or left out before the list is
\* empty.  (An empty list is thus one that all stops had.)
RouteIntact ==
  /\ \A p \in net : visited \o p.list = args
  /\ \A n \in Host : Holds(n) => visited \o Rest(n) = args
  /\ \A p, q \in net : p = q
  /\ \A m, n \in Host : Holds(m) /\ Holds(n) => m = n
  /\ \A n \in Host : Holds(n) => net = {}

\* Only one process crashes, and only that whose address the last stop had in
\* its second slot: from the list it was sent when it was visited before, or
\* else from the stack.
CrashIsStale ==
  \A n \in Host : pc[n] = "crashed" =>
    /\ visited = args
    /\ LET last == args[Len(args)]
           earlier == {i \in 1..(Len(args) - 1) : args[i] = last}
       IN  n = IF earlier = {} THEN stack[last]
               ELSE args[1 + CHOOSE i \in earlier : \A j \in earlier : j <= i]

\* Every process leaves by itself, also without a message that says so: its
\* count ends the pings, and then select() times out.  README_ssrr_test says
\* the contrary ("No Stop [...] will need to kill app").
AllLeave == <>(\A n \in Host : pc[n] \in {"exited", "crashed"})
===============================================================================
