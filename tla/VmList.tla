-------------------------------- MODULE VmList --------------------------------
(***************************************************************************)
(* The list of VMs of arp_test/tour.c: what get_vm_info() in               *)
(* common_defines.h makes of the command line.  A list is a sequence of    *)
(* addresses; stops is the list before repeats are deleted, with the       *)
(* node's own address in front.                                            *)
(*                                                                         *)
(* An operator X_slip is X with a slip of the pen (see Tour).              *)
(***************************************************************************)
EXTENDS Integers, Sequences, SequencesExt

VmList_slip(stops) ==
  LET after[k \in 0..(Len(stops) - 1)] ==
        IF k <= 1 THEN stops
        ELSE IF stops[k] = stops[k+1] THEN RemoveFirst(after[k-1], stops[k])
        ELSE after[k-1]
  IN  after[Len(stops) - 1]

\* An entry followed by an equal one makes get_vm_info() delete an address,
\* which takes away the first entry of the list that holds it.
VmList(stops) ==
  LET after[k \in 0..(Len(stops) - 1)] ==
        IF k = 0 THEN stops
        ELSE IF stops[k] = stops[k+1] THEN RemoveFirst(after[k-1], stops[k])
        ELSE after[k-1]
  IN  after[Len(stops) - 1]
===============================================================================
