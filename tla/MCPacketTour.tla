---------------------------- MODULE MCPacketTour ----------------------------
(***************************************************************************)
(* Instances of PacketTour for TLC: three VMs, one tour or two.            *)
(***************************************************************************)
EXTENDS PacketTour

CONSTANTS vm1, vm2, vm3

Three == {vm1, vm2, vm3}

Lines(len) == UNION {[1..k -> Three] : k \in 1..len}

\* One tour on every command line of up to four arguments.
OneTour == {[n \in Three |-> IF n = vm1 THEN line ELSE <<>>] : line \in Lines(4)}

\* Two tours on every command line of up to two arguments: they share steps,
\* cross, end in each other's stops, or consist of repeats only.
TwoTours ==
  {[n \in Three |-> IF n = vm1 THEN line1 ELSE IF n = vm2 THEN line2 ELSE <<>>] :
     line1, line2 \in Lines(2)}

Tours == OneTour \cup TwoTours
=============================================================================
