----------------------------- MODULE MCTimedTour -----------------------------
(***************************************************************************)
(* Instances of TimedTour for TLC: three VMs, one tour or two, with the    *)
(* program's own NUM_PINGS, TO_EXIT and TO_MCAST (shorter, in the same     *)
(* order, where messages are lost and a VM starts late).                   *)
(***************************************************************************)
EXTENDS TimedTour, TLC

CONSTANTS a, b, c

Three == {a, b, c}
Nobody == [n \in Three |-> <<>>]

\* One tour: it leaves a VM out, visits all, or comes back.
OneTour == {[Nobody EXCEPT ![a] = l] : l \in {<<b, a>>, <<b, c>>, <<b, a, c>>}}

\* Two tours that cross in b.
TwoTours == {[Nobody EXCEPT ![a] = <<b, c>>, ![c] = <<b, a>>]}

Tours == OneTour \cup TwoTours

\* The theorems about Calm runs are about these.
ASSUME CalmTours == Launches = Tours => Calm

\* A latecomer c: in no tour, on the way of one, or with a tour of its own
\* before the other has begun, while it goes on or after it has ended.
LateTours ==
  {[Nobody EXCEPT ![a] = l] : l \in {<<b, a>>, <<b, c>>}}
    \cup {[Nobody EXCEPT ![a] = <<b, a>>, ![c] = <<b, a>>]}

OneLine == {[Nobody EXCEPT ![a] = <<b, c>>]}
=============================================================================
