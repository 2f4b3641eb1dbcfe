------------------------------- MODULE ArpCache -------------------------------
(***************************************************************************)
(* The hash table of arpcache.c: an array of linked lists, each with the   *)
(* entries of one remainder.  A list is the sequence of what its nodes     *)
(* hold; a call is one step.                                               *)
(*                                                                         *)
(* An operator X_slip is X with a slip of the pen (see Tour).              *)
(***************************************************************************)
EXTENDS Integers, Sequences, SequencesExt

CONSTANTS Address, Hwa, Fd,   \* as in ArpTable
          ARP_HASH            \* number of lists

ASSUME AddressAssumption == Address \subseteq Nat /\ Fd \subseteq Nat
ASSUME HashAssumption == ARP_HASH \in Nat \ {0}

VARIABLES chain, ret, found

vars == <<chain, ret, found>>

Bucket == 0..(ARP_HASH - 1)
Entry == [ip4 : Address, hwa : Hwa, fd : Fd \cup {-1}]

\* arpInit()
Init == chain = [b \in Bucket |-> <<>>] /\ ret = 0 /\ found = {}

arp_hash(ip) == ip % ARP_HASH

\* The walk down a list stops at the first node that fits.
FirstOf(S) == CHOOSE i \in S : \A j \in S : i <= j

Matches(ip) ==
  LET list == chain[arp_hash(ip)] IN {i \in DOMAIN list : list[i].ip4 = ip}

Waiting_slip(ip) == Matches(ip)
Waiting(ip) == {i \in Matches(ip) : chain[arp_hash(ip)][i].fd # -1}

Unlink_slip(ip, i) ==
  chain' = [chain EXCEPT ![arp_hash(ip)] = SubSeq(@, i + 1, Len(@))]

Unlink(ip, i) == chain' = [chain EXCEPT ![arp_hash(ip)] = RemoveAt(@, i)]

lookup_cache_entry(ip) ==
  /\ found' = IF Matches(ip) = {} THEN {}
               ELSE {chain[arp_hash(ip)][FirstOf(Matches(ip))]}
  /\ ret' = 0 /\ UNCHANGED chain

Accepted_slip(e) == e.ip4 # 0
\* No address, or one that is there: an error.
Accepted(e) == e.ip4 # 0 /\ Matches(e.ip4) = {}

create_cache_entry(e) ==
  /\ IF Accepted(e)
       THEN /\ chain' = [chain EXCEPT ![arp_hash(e.ip4)] = <<e>> \o @]
            /\ ret' = 1
       ELSE ret' = -1 /\ UNCHANGED chain
  /\ found' = {}

delete_cache_entry(ip) ==
  /\ IF Matches(ip) = {} THEN UNCHANGED chain ELSE Unlink(ip, FirstOf(Matches(ip)))
  /\ ret' = 0 /\ found' = {}

delete_empty_cache_entry(ip) ==
  /\ IF Waiting(ip) = {}
       THEN ret' = -1 /\ UNCHANGED chain
       ELSE LET i == FirstOf(Waiting(ip))
            IN  Unlink(ip, i) /\ ret' = chain[arp_hash(ip)][i].fd
  /\ found' = {}

Next == \/ \E e \in Entry : create_cache_entry(e)
        \/ \E ip \in Address : \/ lookup_cache_entry(ip)
                               \/ delete_cache_entry(ip)
                               \/ delete_empty_cache_entry(ip)

Spec == Init /\ [][Next]_vars

\* Every entry is in the list in which it is looked for, and no address has
\* two, wherever in its list an entry was linked or unlinked: so a look-up
\* finds it and a deletion leaves nothing of it behind.
ChainsSound ==
  \A b \in Bucket : \A i, j \in DOMAIN chain[b] :
    /\ chain[b][i].ip4 # 0 /\ arp_hash(chain[b][i].ip4) = b
    /\ chain[b][i].ip4 = chain[b][j].ip4 => i = j

\* The cache implements the table that its callers see.
Entries == UNION {{chain[b][i] : i \in DOMAIN chain[b]} : b \in Bucket}
Table == INSTANCE ArpTable WITH entries <- Entries
ImplementsTable == Table!Spec
===============================================================================
