----------------------------- MODULE TourService -----------------------------
(***************************************************************************)
(* What the tour program promises, without sockets, loops or timers: a     *)
(* tour has a list of stops, reaches them one at a time in the order of    *)
(* the list, and its end is announced to the group by the last stop only,  *)
(* once the whole list has been walked.  A node that has given up (it      *)
(* pinged TO_EXIT times, tour.c 57) may announce the end as well.          *)
(***************************************************************************)
EXTENDS Integers, Sequences

CONSTANTS
  Node,   \* the VMs
  Addr    \* what a stop can be: a VM, or an address that is none

VARIABLES
  plan,       \* the stops of the tour each node has started, or <<>>
  visited,    \* the stops it has reached
  announced,  \* the nodes that have announced an end
  gaveUp      \* the nodes that may announce it without having toured

vars == <<plan, visited, announced, gaveUp>>

Completed(t) == plan[t] # <<>> /\ visited[t] = plan[t]
LastStop(t) == plan[t][Len(plan[t])]

Init ==
  /\ plan = [t \in Node |-> <<>>]
  /\ visited = [t \in Node |-> <<>>]
  /\ announced = {}
  /\ gaveUp = {}

Start(t) ==
  /\ plan[t] = <<>>
  /\ plan' = [plan EXCEPT ![t] = plan'[t]]
  /\ plan'[t] \in Seq(Addr) /\ Len(plan'[t]) >= 2 /\ plan'[t][1] = t
  /\ visited' = [visited EXCEPT ![t] = <<t>>]
  /\ UNCHANGED <<announced, gaveUp>>

Reach(t) ==
  /\ Len(visited[t]) \in 1..(Len(plan[t]) - 1)
  /\ plan[t][Len(visited[t]) + 1] \in Node
  /\ visited' = [visited EXCEPT ![t] = SubSeq(plan[t], 1, Len(@) + 1)]
  /\ UNCHANGED <<plan, announced, gaveUp>>

GiveUp(n) ==
  /\ gaveUp' = gaveUp \cup {n}
  /\ UNCHANGED <<plan, visited, announced>>

Announce(n) ==
  /\ n \in gaveUp \/ \E t \in Node : Completed(t) /\ LastStop(t) = n
  /\ announced' = announced \cup {n}
  /\ UNCHANGED <<plan, visited, gaveUp>>

Next == \E n \in Node : Start(n) \/ Reach(n) \/ GiveUp(n) \/ Announce(n)

Spec == Init /\ [][Next]_vars
=============================================================================
