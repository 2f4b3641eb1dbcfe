------------------------------ MODULE GetVmInfo ------------------------------
(***************************************************************************)
(* get_vm_info() (common_defines.h, 399-434) step by step.  It walks down  *)
(* a linked list with the pointer node while it deletes entries of it by   *)
(* their value, so the model keeps the entries apart from what they hold:  *)
(* entry e was made for stops[e], and list holds entries.                  *)
(*                                                                         *)
(* An operator X_slip is X with a slip of the pen (see Tour).              *)
(***************************************************************************)
EXTENDS VmList

CONSTANTS
  Name,      \* the VMs
  BadName    \* an argument that names no VM

VARIABLES
  stops,  \* this node and its arguments
  state,  \* "start", "loop", "done" or "aborted" (by assert)
  list,   \* the entries of vm_head
  node,   \* an entry, or 0 for vm_head itself
  i       \* the loop's counter

vars == <<stops, state, list, node, i>>

Init ==
  /\ stops \in Seq(Name \cup {BadName}) /\ Len(stops) > 1 /\ stops[1] \in Name
  /\ state = "start"
  /\ list = <<>>
  /\ node = 0
  /\ i = 0

Collect_slip ==
  /\ state = "start" /\ \A e \in DOMAIN stops : stops[e] # BadName
  /\ state' = "loop"
  /\ list' = Append([e \in 1..(Len(stops) - 1) |-> e + 1], 1)
  /\ node' = 2
  /\ i' = 1
  /\ UNCHANGED stops

\* The arguments are added at the tail of the list, the node at its head.
Collect ==
  /\ state = "start" /\ \A e \in DOMAIN stops : stops[e] # BadName
  /\ state' = "loop"
  /\ list' = [e \in DOMAIN stops |-> e]
  /\ node' = 1
  /\ i' = 1
  /\ UNCHANGED stops

\* get_canonical_ip() asserts that it is given the name of a VM.
BadArgument ==
  /\ state = "start" /\ \E e \in DOMAIN stops : stops[e] = BadName
  /\ state' = "aborted"
  /\ UNCHANGED <<stops, list, node, i>>

\* The entry after an entry of the list; the last one is followed by the head.
Following(entries, e) ==
  LET k == SelectInSeq(entries, LAMBDA d : d = e)
  IN  IF k < Len(entries) THEN entries[k+1] ELSE 0

Differ ==
  /\ state = "loop" /\ i < Len(stops)
  /\ stops[node] # stops[Following(list, node)]
  /\ node' = Following(list, node)
  /\ i' = i + 1
  /\ UNCHANGED <<stops, state, list>>

\* gen_ll_del() finds its entry by value, from the head of the list on.
DeleteByValue(entries, a) == RemoveFirstMatch(entries, LAMBDA e : stops[e] = a)

Equal_slip ==
  /\ state = "loop" /\ i < Len(stops)
  /\ stops[node] = stops[Following(list, node)]
  /\ list' = DeleteByValue(list, stops[node])
  /\ i' = i + 1
  /\ UNCHANGED <<stops, state, node>>

\* node moves on before the entry may be freed.
Equal ==
  /\ state = "loop" /\ i < Len(stops)
  /\ stops[node] = stops[Following(list, node)]
  /\ node' = Following(list, node)
  /\ list' = DeleteByValue(list, stops[node])
  /\ i' = i + 1
  /\ UNCHANGED <<stops, state>>

EndLoop_slip ==
  /\ state = "loop" /\ i >= Len(stops) - 1
  /\ state' = "done"
  /\ UNCHANGED <<stops, list, node, i>>

EndLoop ==
  /\ state = "loop" /\ i >= Len(stops)
  /\ state' = "done"
  /\ UNCHANGED <<stops, list, node, i>>

Stop == state \in {"done", "aborted"} /\ UNCHANGED vars

Next == Collect \/ BadArgument \/ Differ \/ Equal \/ EndLoop \/ Stop

Spec == Init /\ [][Next]_vars

Addresses == [k \in DOMAIN list |-> stops[list[k]]]

\* The pointer never hangs: whatever was deleted, node is an entry of the
\* list, and while the loop goes on another entry follows it.
NodeAlive ==
  state \in {"loop", "done"} =>
    /\ \E k \in DOMAIN list : list[k] = node
    /\ i < Len(stops) => Following(list, node) # 0

\* The loop computes VmList, for every command line.
ComputesVmList == state = "done" => Addresses = VmList(stops)
=============================================================================
