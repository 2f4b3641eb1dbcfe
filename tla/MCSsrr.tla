-------------------------------- MODULE MCSsrr --------------------------------
(***************************************************************************)
(* Ssrr on three nodes for TLC.                                            *)
(***************************************************************************)
EXTENDS Ssrr

CONSTANTS vm1, vm2, vm3

\* Every tour of up to four stops that vm1 starts, a name that is none, no
\* arguments and too many.
Arguments ==
  {<<vm1>> \o s : s \in UNION {[1..k -> Host] : k \in 0..3}}
    \cup {<<>>, <<vm1, BadName>>, <<vm2, vm1, vm2, vm1, vm2>>}

\* The buffers start with the same address everywhere.
Alike == {[n \in Host |-> a] : a \in Addr}
===============================================================================
