------------------------------ MODULE PacketTour ------------------------------
(***************************************************************************)
(* The first version of the tour program (arp_test/tour.c with its         *)
(* functions in common_defines.h) on all VMs.  The packet of a tour holds  *)
(* the whole list of stops and the index of the next one; a node passes it *)
(* on in the same step that receives it.  A node takes a packet for a      *)
(* duplicate if it has had one from the same sender before.                *)
(*                                                                         *)
(* Left out: send_ping_request(), an empty function, and with it the timer *)
(* that calls it; the multicast sockets, which are opened and never used;  *)
(* packets with a foreign identification, which change nothing.            *)
(*                                                                         *)
(* An operator X_slip is X with a slip of the pen (see Tour).              *)
(***************************************************************************)
EXTENDS VmList, Bags

CONSTANTS
  Host,        \* the VMs
  Plans,       \* command lines: a set of functions from Host to lists of VMs
  MaxMishaps   \* bound: packets lost and duplicated

ASSUME PlansAssumption == \A p \in Plans : p \in [Host -> Seq(Host)]
ASSUME ConstantsAssumption == MaxMishaps \in Nat

VARIABLES
  plan,      \* the arguments of each node
  pc,        \* "down", "loop" or "crashed"
  pg_head,   \* the senders each node has had a packet from
  is_dest,   \* has it been the last stop of a tour?
  net,       \* the packets on their way: a bag, as IP may duplicate them
  mishaps,   \* packets lost and duplicated so far
  visited,   \* history: for each tour, the stops that took the packet
  skipped,   \* history: the packets taken for duplicates
  lost,      \* history: the packets lost, or sent to a node that does not run
  arrivals   \* history: <<node, tour>> when "Destination reached" is printed

vars == <<plan, pc, pg_head, is_dest, net, mishaps, visited, skipped, lost, arrivals>>

\* A tour has the name of the node that starts it.  end_index is Len(addrs).
Packet == [tour : Host, addrs : Seq(Host), index : Nat,
           ip_src : Host, ip_dst : Host]

TypeOK ==
  /\ plan \in Plans
  /\ pc \in [Host -> {"down", "loop", "crashed"}]
  /\ pg_head \in [Host -> SUBSET Host]
  /\ is_dest \in [Host -> BOOLEAN]
  /\ IsABag(net) /\ BagToSet(net) \subseteq Packet
  /\ mishaps \in 0..MaxMishaps
  /\ visited \in [Host -> Seq(Host)]
  /\ skipped \subseteq Packet /\ lost \subseteq Packet
  /\ arrivals \subseteq Host \X Host

Init ==
  /\ plan \in Plans
  /\ pc = [n \in Host |-> "down"]
  /\ pg_head = [n \in Host |-> {}]
  /\ is_dest = [n \in Host |-> FALSE]
  /\ net = EmptyBag
  /\ mishaps = 0
  /\ visited = [n \in Host |-> <<>>]
  /\ skipped = {}
  /\ lost = {}
  /\ arrivals = {}

Stops(t) == VmList(<<t>> \o plan[t])

(***************************************************************************)
(* construct_tour_pkthdr(): the addresses of the packet that n sends on.   *)
(* addrs is counted from 0 in the code.                                    *)
(***************************************************************************)
AtEnd_slip(p) == p.index + 1 >= Len(p.addrs)
AtEnd(p) == p.index = Len(p.addrs)

Header(n, p) ==
  [p EXCEPT !.ip_src = n, !.ip_dst = p.addrs[p.index + 1], !.index = @ + 1]

FirstPacket(n) ==
  [tour |-> n, addrs |-> Stops(n), index |-> 1, ip_src |-> n, ip_dst |-> n]

(***************************************************************************)
(* The start of a node.                                                    *)
(***************************************************************************)
StartIdle(n) ==
  /\ pc[n] = "down" /\ plan[n] = <<>>
  /\ pc' = [pc EXCEPT ![n] = "loop"]
  /\ UNCHANGED <<plan, pg_head, is_dest, net, mishaps, visited, skipped, lost, arrivals>>

\* A list of one stop has no header to construct: the null pointer that
\* construct_tour_packet() returns then is dereferenced.
StartTour(n) ==
  /\ pc[n] = "down" /\ plan[n] # <<>>
  /\ IF AtEnd(FirstPacket(n))
       THEN /\ pc' = [pc EXCEPT ![n] = "crashed"]
            /\ UNCHANGED net
       ELSE /\ pc' = [pc EXCEPT ![n] = "loop"]
            /\ net' = net (+) SetToBag({Header(n, FirstPacket(n))})
  /\ UNCHANGED <<plan, pg_head, is_dest, mishaps, visited, skipped, lost, arrivals>>

(***************************************************************************)
(* A packet arrives.                                                       *)
(***************************************************************************)
Known_slip(n, p) == FALSE
Known(n, p) == p.ip_src \in pg_head[n]

Skip(n, p) ==
  /\ pc[n] = "loop" /\ p.ip_dst = n /\ Known(n, p)
  /\ net' = net (-) SetToBag({p})
  /\ skipped' = skipped \cup {p}
  /\ UNCHANGED <<plan, pc, pg_head, is_dest, mishaps, visited, lost, arrivals>>

\* What both ways to take a packet have in common.
Take(n, p) ==
  /\ pc[n] = "loop" /\ p.ip_dst = n /\ ~Known(n, p)
  /\ pg_head' = [pg_head EXCEPT ![n] = @ \cup {p.ip_src}]
  /\ visited' = [visited EXCEPT ![p.tour] = Append(@, n)]
  /\ UNCHANGED <<plan, pc, mishaps, skipped, lost>>

\* is_dest is never reset: once it has been the last stop of a tour, a node
\* sends no packet on.
Reach(n, p) ==
  /\ Take(n, p) /\ (AtEnd(p) \/ is_dest[n])
  /\ is_dest' = [is_dest EXCEPT ![n] = TRUE]
  /\ net' = net (-) SetToBag({p})
  /\ arrivals' = arrivals \cup {<<n, p.tour>>}

Forward_slip(n, p) ==
  /\ Take(n, p) /\ ~AtEnd(p) /\ ~is_dest[n]
  /\ net' = (net (-) SetToBag({p})) (+) SetToBag({[Header(n, p) EXCEPT !.index = @ - 1]})
  /\ UNCHANGED <<is_dest, arrivals>>

Forward(n, p) ==
  /\ Take(n, p) /\ ~AtEnd(p) /\ ~is_dest[n]
  /\ net' = (net (-) SetToBag({p})) (+) SetToBag({Header(n, p)})
  /\ UNCHANGED <<is_dest, arrivals>>

\* The host has no raw socket for the protocol: the packet is gone.
Unclaimed(n, p) ==
  /\ pc[n] # "loop" /\ p.ip_dst = n
  /\ net' = net (-) SetToBag({p})
  /\ lost' = lost \cup {p}
  /\ UNCHANGED <<plan, pc, pg_head, is_dest, mishaps, visited, skipped, arrivals>>

Lose(p) ==
  /\ mishaps < MaxMishaps /\ mishaps' = mishaps + 1
  /\ net' = net (-) SetToBag({p})
  /\ lost' = lost \cup {p}
  /\ UNCHANGED <<plan, pc, pg_head, is_dest, visited, skipped, arrivals>>

Duplicate(p) ==
  /\ mishaps < MaxMishaps /\ mishaps' = mishaps + 1
  /\ net' = net (+) SetToBag({p})
  /\ UNCHANGED <<plan, pc, pg_head, is_dest, visited, skipped, lost, arrivals>>

Arrive(p) ==
  \E n \in Host : Skip(n, p) \/ Reach(n, p) \/ Forward(n, p) \/ Unclaimed(n, p)

Next == \/ \E n \in Host : StartIdle(n) \/ StartTour(n)
        \/ \E p \in BagToSet(net) : Arrive(p) \/ Lose(p) \/ Duplicate(p)

Spec == Init /\ [][Next]_vars

\* A packet that is not lost arrives, and the node that has it readable runs.
FairSpec == Spec /\ WF_vars(\E p \in BagToSet(net) : Arrive(p))

(***************************************************************************)
(* What the nodes keep true.                                               *)
(***************************************************************************)
Launched(t) == pc[t] = "loop" /\ plan[t] # <<>>

\* The next packet of a tour: sent by the last of its stops that took one.
Due(t) ==
  LET k == Len(visited[t])
  IN  [tour |-> t, addrs |-> Stops(t), index |-> k + 2,
       ip_src |-> IF k = 0 THEN t ELSE visited[t][k], ip_dst |-> Stops(t)[k + 2]]

\* The stops take the packet in the order of the list and each once, for
\* every visit of a node that is to be visited several times: whatever tours
\* cross and whichever packets IP duplicates, delays or loses.
StopsInOrder ==
  \A t \in Host : visited[t] # <<>> => IsPrefix(visited[t], Tail(Stops(t)))

\* A tour never vanishes: its list is done, the packet is under way, it was
\* lost or taken for a duplicate, or the last node to take it is or was the
\* last stop of some tour and said "Destination reached".
EndsForAReason ==
  \A t \in Host :
    Launched(t) =>
      \/ visited[t] = Tail(Stops(t))
      \/ Due(t) \in BagToSet(net) \cup skipped \cup lost
      \/ visited[t] # <<>> /\ <<Last(visited[t]), t>> \in arrivals

\* A tour completes if it is alone, never goes twice from one node to the
\* same next one, and no packet of it is lost; copies of its packets do it
\* no harm.
Alone(t) == \A m \in Host \ {t} : plan[m] = <<>>

StepsDiffer(t) ==
  LET step == [k \in 2..Len(Stops(t)) |->
                 <<IF k = 2 THEN t ELSE Stops(t)[k-1], Stops(t)[k]>>]
  IN  IsInjective(step)

Completes ==
  \A t \in Host :
    Launched(t) /\ Alone(t) /\ StepsDiffer(t) ~>
      \/ visited[t] = Tail(Stops(t)) /\ <<Last(Stops(t)), t>> \in arrivals
      \/ lost # {}
===============================================================================
