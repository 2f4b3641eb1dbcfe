-------------------------------- MODULE MCLists --------------------------------
(***************************************************************************)
(* The two loops that make the list of stops, that of tour.c and that of   *)
(* its first version, one after the other on every command line of two to  *)
(* five arguments over three VMs and a name that is none: repeats          *)
(* anywhere, alone and in runs.                                            *)
(***************************************************************************)
EXTENDS ComposeTour, SequencesExt

VARIABLES vmstate, list, node, vmi

VmInfo == INSTANCE GetVmInfo WITH stops <- Stops, state <- vmstate, i <- vmi

BothInit == Init /\ VmInfo!Init

BothNext ==
  \/ Next /\ UNCHANGED <<vmstate, list, node, vmi>>
  \/ state \in {"done", "aborted"} /\ UNCHANGED vars /\ VmInfo!Next

BothSpec == BothInit /\ [][BothNext]_<<vars, vmstate, list, node, vmi>>

\* A second definition of the list without repeats, to compare with: the
\* stops from left to right, each kept if it differs from the one kept last.
Kept ==
  LET kept[k \in 1..Len(Stops)] ==
        IF k = 1 THEN <<Stops[1]>>
        ELSE IF Last(kept[k-1]) = Stops[k] THEN kept[k-1]
        ELSE Append(kept[k-1], Stops[k])
  IN  kept[Len(Stops)]

\* If the last argument is no repeat, the message of tour.c is the list of
\* the stops that differ from the one before, in order.
KeepsTheStops ==
  state = "done" /\ Len(Stops) \notin Repeats(Stops) => Message = Kept

\* tour.c 118: "Tour has repeated nodes in sequence: ... Ignoring 2nd ...".
SecondIgnored == state = "done" => Message = Kept

\* The stops of a VM that are no repeat: its visits.
Visits(a) == {e \in DOMAIN Stops : Stops[e] = a /\ (e = 1 \/ Stops[e-1] # a)}

\* A VM that is named twice in a row, and visited at another time as well:
\* only then can get_vm_info() delete the wrong entry.
Ambiguous ==
  \E e \in 2..Len(Stops) : Stops[e] = Stops[e-1] /\ Cardinality(Visits(Stops[e])) > 1

\* If each VM that is named twice in a row is visited once, the list of
\* get_vm_info() is the command line without its repeats as well.
RepeatsGone == vmstate = "done" /\ ~Ambiguous => VmInfo!Addresses = Kept

\* Whatever the command line: each VM stays in the list as often as it is to
\* be visited, so no visit is dropped, though it may move.
VisitsCounted ==
  vmstate = "done" =>
    \A a \in Name : Cardinality({k \in DOMAIN list : VmInfo!Addresses[k] = a})
                      = Cardinality(Visits(a))

\* get_vm_info()'s pointer never hangs (GetVmInfo).
NodeAlive == VmInfo!NodeAlive

\* get_vm_info() computes VmList, for every command line (GetVmInfo).
ComputesVmList == VmInfo!ComputesVmList
===============================================================================
