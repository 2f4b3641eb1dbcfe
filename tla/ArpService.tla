------------------------------ MODULE ArpService ------------------------------
(***************************************************************************)
(* What the ARP daemons promise their clients, without caches, frames or   *)
(* sockets: a client that was accepted is answered once, with the hardware *)
(* address of another VM, and with that of the VM it asked for unless      *)
(* daemons of several VMs have sent requests.                              *)
(***************************************************************************)
CONSTANTS
  Host,     \* the VMs
  Client,   \* runs of the client program
  None      \* no VM

VARIABLES
  ask,      \* on which VM and for which VM each client asks
  client,   \* where each client is
  answer,   \* the hardware address it was given
  asked     \* the VMs whose daemons have sent a request

vars == <<ask, client, answer, asked>>

Init ==
  /\ ask \in [Client -> [at : Host, for : Host]]
  /\ client = [c \in Client |-> "new"]
  /\ answer = [c \in Client |-> None]
  /\ asked = {}

Arrive(c) ==
  /\ client[c] = "new"
  /\ \E to \in {"waiting", "refused"} : client' = [client EXCEPT ![c] = to]
  /\ UNCHANGED <<ask, answer, asked>>

\* Daemons send requests for their clients only.
SendRequest(c) ==
  /\ client[c] = "waiting"
  /\ asked' = asked \cup {ask[c].at}
  /\ UNCHANGED <<ask, client, answer>>

Reply(c) ==
  /\ client[c] = "waiting" /\ client' = [client EXCEPT ![c] = "done"]
  /\ \E m \in Host \ {ask[c].at} :
       /\ asked \subseteq {ask[c].at} => m = ask[c].for
       /\ answer' = [answer EXCEPT ![c] = m]
  /\ UNCHANGED <<ask, asked>>

Next == \E c \in Client : Arrive(c) \/ SendRequest(c) \/ Reply(c)

Spec == Init /\ [][Next]_vars
===============================================================================
