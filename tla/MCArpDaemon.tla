----------------------------- MODULE MCArpDaemon -----------------------------
(***************************************************************************)
(* Instances of ArpDaemon for TLC: four VMs and three runs of the client.  *)
(***************************************************************************)
EXTENDS ArpDaemon, TLC

CONSTANTS vm1, vm2, vm3, vm4, c1, c2, c3

Hosts == {vm1, vm2, vm3, vm4}
Clients == {c1, c2, c3}

\* All the clients run on one VM and ask for two or three others.
OneAsker == {c1 :> [at |-> vm1, for |-> vm2] @@ c2 :> [at |-> vm1, for |-> vm3]
               @@ c3 :> [at |-> vm1, for |-> x] : x \in {vm2, vm4}}

\* Daemons that ask at the same time: each other, in a ring, for one VM that
\* asks as well, for themselves.
ManyAskers ==
  {c1 :> [at |-> vm1, for |-> x] @@ c2 :> [at |-> y, for |-> z]
     @@ c3 :> [at |-> vm1, for |-> vm2] :
     x \in {vm1, vm2}, y \in {vm2, vm3}, z \in {vm1, vm3}}

Asked == OneAsker \cup ManyAskers

\* Two VMs that ask, and nobody for itself.
TwoAskers ==
  {c1 :> [at |-> vm1, for |-> vm2] @@ c2 :> [at |-> vm2, for |-> vm3]
     @@ c3 :> [at |-> vm1, for |-> vm2]}
=============================================================================
