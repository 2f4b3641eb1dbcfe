----------------------------- MODULE TourMessage -----------------------------
(***************************************************************************)
(* The data a tour node keeps, as operators: the list of stops the         *)
(* starting node composes from its command line (tour.c, 93-128) and the   *)
(* list of predecessors a node pings (tour.c, 254-271).                    *)
(*                                                                         *)
(* An address is an element of a set; the byte-order conversions of the    *)
(* code cancel out (htonl when a stop is stored, ntohl when it is sent)    *)
(* and are left out.                                                       *)
(*                                                                         *)
(* An operator X_slip is X with a slip of the pen (see Tour).              *)
(***************************************************************************)
EXTENDS Integers, Sequences, FiniteSets

(***************************************************************************)
(* stops is the command line with the node's own address in front:         *)
(* stops[1] is the host, stops[i+1] is argv[i].  A stop equal to the one   *)
(* before it is a repeat, which the loop reports and skips.                *)
(***************************************************************************)
Repeats(stops) == {i \in 2..Len(stops) : stops[i] = stops[i-1]}

(* msgarg_ind + 1 after the iteration for stop i: the variable repeats     *)
(* counts the repeats before i, not i itself.                              *)
Slot(stops, i) == i - Cardinality({j \in Repeats(stops) : j < i})

(***************************************************************************)
(* The composed message has rt_len / MSGARG_LEN entries, where rt_len is   *)
(* computed from the msgarg_ind of the last iteration.  A slot that no     *)
(* iteration wrote holds what was on the stack, junk.                      *)
(***************************************************************************)
Compose(stops, junk) ==
  [k \in 1..Slot(stops, Len(stops)) |->
     LET writers == {i \in DOMAIN stops \ Repeats(stops) : Slot(stops, i) = k}
     IN  IF writers = {} THEN junk ELSE stops[CHOOSE i \in writers : TRUE]]

(***************************************************************************)
(* Insertion in the ping list.  The search stops before the last element   *)
(* (its condition is ping_index->next != NULL), so a second copy of the    *)
(* last element is appended.                                               *)
(***************************************************************************)
PingInsert_slip(list, ip) == IF list = <<>> THEN <<ip>> ELSE list

PingInsert(list, ip) ==
  IF \E i \in 1..(Len(list) - 1) : list[i] = ip
    THEN list
    ELSE Append(list, ip)
=============================================================================
