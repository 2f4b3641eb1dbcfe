------------------------------- MODULE MCTour -------------------------------
(***************************************************************************)
(* Instances of Tour for TLC: two VMs, the command lines below and small   *)
(* limits, so that the list is refused, the tour returns to a VM it has    *)
(* been to, the end is multicast and the fallback of ping_stop is reached. *)
(***************************************************************************)
EXTENDS Tour, TLC

CONSTANTS a, b

Pair == {a, b}

\* One tour: it comes back to its first VM, has a repeat inside or at the end
\* of the command line, or is refused for a name or for its length.
OneTour == {a :> l @@ b :> <<>> :
              l \in {<<b, b, a, b>>, <<b, a, b, a>>, <<b, b>>, <<b, BadName>>,
                     <<b, a, b, a, b>>}}

\* Two tours that cross, and one that the other node starts.
TwoTours == {a :> <<b, a>> @@ b :> l : l \in {<<a, b>>, <<a>>, <<a, b, a>>}}

Tours == OneTour \cup TwoTours
=============================================================================
