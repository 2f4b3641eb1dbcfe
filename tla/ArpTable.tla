------------------------------- MODULE ArpTable -------------------------------
(***************************************************************************)
(* What the ARP cache of arpcache.c promises, without buckets and chains:  *)
(* a set of entries, one for an address at most, in which an entry is      *)
(* never replaced.  An entry with a file descriptor waits for its answer   *)
(* and is the only kind that delete_empty_cache_entry() takes out.         *)
(***************************************************************************)
EXTENDS Integers

CONSTANTS
  Address,   \* IP addresses, as numbers; 0 is none
  Hwa,       \* hardware addresses
  Fd         \* descriptors of connections that wait for an entry

Entry == [ip4 : Address, hwa : Hwa, fd : Fd \cup {-1}]

VARIABLES
  entries,   \* the entries
  ret,       \* what the last call returned: a number ...
  found      \* ... or an entry

vars == <<entries, ret, found>>

Init == entries = {} /\ ret = 0 /\ found = {}

Of(ip) == {e \in entries : e.ip4 = ip}

Lookup(ip) == found' = Of(ip) /\ ret' = 0 /\ UNCHANGED entries

Create(e) ==
  /\ found' = {}
  /\ \/ e.ip4 # 0 /\ Of(e.ip4) = {} /\ entries' = entries \cup {e} /\ ret' = 1
     \/ (e.ip4 = 0 \/ Of(e.ip4) # {}) /\ ret' = -1 /\ UNCHANGED entries

Delete(ip) == entries' = entries \ Of(ip) /\ ret' = 0 /\ found' = {}

DeleteEmpty(ip) ==
  /\ found' = {}
  /\ \/ \E e \in Of(ip) : e.fd # -1 /\ entries' = entries \ {e} /\ ret' = e.fd
     \/ (\A e \in Of(ip) : e.fd = -1) /\ ret' = -1 /\ UNCHANGED entries

Next == \/ \E e \in Entry : Create(e)
        \/ \E ip \in Address : Lookup(ip) \/ Delete(ip) \/ DeleteEmpty(ip)

Spec == Init /\ [][Next]_vars
===============================================================================
