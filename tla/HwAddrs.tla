-------------------------------- MODULE HwAddrs --------------------------------
(***************************************************************************)
(* What the ARP daemon and the first version of the tour do before their   *)
(* loops: get_hw_addrs() lists the interfaces (hw_addrs.c, repeated in     *)
(* arp_test/common_defines.h), get_vm_iface_info() keeps those named eth0, *)
(* bind_link_socket() opens a packet socket.  A system call is one step;   *)
(* between two of them the interfaces of the machine may change.           *)
(*                                                                         *)
(* An operator X_slip is X with a slip of the pen (see Tour).              *)
(***************************************************************************)
EXTENDS Integers, Sequences, SequencesExt

CONSTANTS
  Device,       \* names of devices
  eth0,         \* the one that the programs use
  Guess,        \* entries that the first buffer holds (100)
  Increment,    \* entries by which it grows (10)
  Listings,     \* what may be listed at first: sequences of Listed
  HwNumber,     \* of each device, the first four bytes of the struct sockaddr
                \* of its hardware address as a number: the type (1 for
                \* Ethernet, 772 for a loopback) and two bytes of the address
  MaxListed,    \* bound: entries the kernel lists
  MaxChanges    \* bound: changes of the interfaces

\* An address of a device.  With a label its name is that of the device, a
\* colon and a number.
Listed == [dev : Device, labelled : BOOLEAN]

\* The addresses of one device stand in a row.
InRows(s) ==
  \A i, j \in DOMAIN s : s[i].dev = s[j].dev => \A k \in i..j : s[k].dev = s[i].dev

ASSUME DeviceAssumption == eth0 \in Device /\ Listings \subseteq Seq(Listed)
ASSUME RowsAssumption == \A s \in Listings : InRows(s)
ASSUME NumberAssumption == HwNumber \in [Device -> Int \ {0}]
ASSUME SizeAssumption == Guess \in Nat \ {0} /\ Increment \in Nat \ {0}

VARIABLES
  strict,    \* does the kernel refuse a buffer that is too small (EINVAL)?
  owner,     \* by interface index, the device that got it: an index is not
             \* used twice, and stands for the hardware address as well
  index,     \* the index of each device, 0 when it is not there
  listed,    \* the addresses, those of one device in a row
  changes,   \* changes so far
  removed,   \* history: the devices that have been removed
  pc,        \* where the program is
  len,       \* entries that the buffer holds
  lastlen,   \* entries that the last call returned
  ifr,       \* the entries accepted
  hwa,       \* the list of get_hw_addrs(), as far as it is built
  todo,      \* the interfaces to open a packet socket for
  link       \* interface index of the socket that is kept, 0 for none

kernel == <<strict, owner, index, listed, changes, removed>>
lists == <<ifr, hwa, todo, link>>
vars == <<kernel, pc, len, lastlen, lists>>

Init ==
  /\ strict \in BOOLEAN
  /\ owner \in {s \in [1..2 -> Device] : s[1] # s[2]}
  /\ index = [d \in Device |-> IF \E i \in 1..2 : owner[i] = d
                                 THEN CHOOSE i \in 1..2 : owner[i] = d ELSE 0]
  /\ listed \in {s \in Listings : \A i \in DOMAIN s : index[s[i].dev] # 0}
  /\ changes = 0 /\ removed = {}
  /\ pc = "list" /\ len = Guess /\ lastlen = 0
  /\ ifr = <<>> /\ hwa = <<>> /\ todo = <<>> /\ link = 0

(***************************************************************************)
(* The kernel.                                                             *)
(***************************************************************************)
Change ==
  /\ changes < MaxChanges /\ changes' = changes + 1
  /\ UNCHANGED <<strict, pc, len, lastlen, lists>>

Of(d) == {i \in DOMAIN listed : listed[i].dev = d}

AddAddress(e) ==
  /\ Change /\ Len(listed) < MaxListed /\ index[e.dev] # 0
  /\ \/ Of(e.dev) = {} /\ listed' = Append(listed, e)
     \/ \E i \in Of(e.dev) : i + 1 \notin Of(e.dev) /\ listed' = InsertAt(listed, i + 1, e)
  /\ UNCHANGED <<owner, index, removed>>

RemoveAddress(i) ==
  /\ Change /\ listed' = RemoveAt(listed, i)
  /\ UNCHANGED <<owner, index, removed>>

Unplug(d) ==
  /\ Change /\ index[d] # 0
  /\ index' = [index EXCEPT ![d] = 0]
  /\ \E j \in 0..Len(listed) : \E i \in 1..(j + 1) :
       /\ Of(d) = i..j
       /\ listed' = SubSeq(listed, 1, i - 1) \o SubSeq(listed, j + 1, Len(listed))
  /\ removed' = removed \cup {d}
  /\ UNCHANGED owner

Plug(d) ==
  /\ Change /\ index[d] = 0
  /\ owner' = Append(owner, d) /\ index' = [index EXCEPT ![d] = Len(owner) + 1]
  /\ UNCHANGED <<listed, removed>>

Kernel == \/ \E e \in Listed : AddAddress(e)
          \/ \E i \in DOMAIN listed : RemoveAddress(i)
          \/ \E d \in Device : Unplug(d) \/ Plug(d)

(***************************************************************************)
(* SIOCGIFCONF until it returns the same length twice.  A kernel that is   *)
(* not strict returns the entries that fit.                                *)
(***************************************************************************)
Returned == SubSeq(listed, 1, IF Len(listed) < len THEN Len(listed) ELSE len)
Refused == strict /\ Len(listed) > len

Longer_slip == len
Longer == len + Increment

\* At first a refusal only says that the guess was too low.
IsError_slip == TRUE
IsError == lastlen # 0

ListRefused ==
  /\ pc = "list" /\ Refused
  /\ IF IsError THEN pc' = "exit" /\ UNCHANGED len
                ELSE len' = Longer /\ UNCHANGED pc
  /\ UNCHANGED <<kernel, lastlen, lists>>

ListAgain ==
  /\ pc = "list" /\ ~Refused /\ Len(Returned) # lastlen
  /\ lastlen' = Len(Returned) /\ len' = Longer
  /\ UNCHANGED <<kernel, pc, lists>>

\* No interface at all is an error of Get_hw_addrs().
ListSettled ==
  /\ pc = "list" /\ ~Refused /\ Len(Returned) = lastlen
  /\ ifr' = Returned
  /\ pc' = IF Returned = <<>> THEN "exit" ELSE "hwaddr"
  /\ UNCHANGED <<kernel, len, lastlen, hwa, todo, link>>

(***************************************************************************)
(* The entries, one after the other.  A call that fails, because the       *)
(* device has gone, is reported, and what the union of the ifreq held      *)
(* before is copied to the list: for the first call the IP address, a      *)
(* sockaddr_in; for the second that or the hardware address of the first.  *)
(* (if_index is 0 from Calloc() until the second call.)                    *)
(***************************************************************************)
\* The data of a sockaddr_in, port 0 and the IP address, as a hardware
\* address: that of no device.
IpBytes == -1
\* A sockaddr_in as a number, on a little-endian machine: its family, port 0.
AF_INET == 2

SIOCGIFHWADDR(d) == IF index[d] # 0 THEN index[d] ELSE IpBytes

SIOCGIFINDEX(d, if_haddr) ==
  IF index[d] # 0 THEN index[d]
  ELSE IF if_haddr = IpBytes THEN AF_INET ELSE HwNumber[d]

SameName_slip(e, f) == e = f
\* Without the labels.
SameName(e, f) == e.dev = f.dev

IsAlias(k) == k > 1 /\ SameName(ifr[k - 1], ifr[k])

ifrcopy_slip(k) == ifr[1]
ifrcopy(k) == ifr[k]

GetHwAddr ==
  LET k == Len(hwa) + 1
  IN  /\ pc = "hwaddr" /\ pc' = "index"
      /\ hwa' = Append(hwa, [dev |-> ifr[k].dev, labelled |-> ifr[k].labelled,
                             ip_alias |-> IsAlias(k),
                             if_haddr |-> SIOCGIFHWADDR(ifrcopy(k).dev), if_index |-> 0])
      /\ UNCHANGED <<kernel, len, lastlen, ifr, todo, link>>

Kept_slip(h) == TRUE
\* The name is compared with its label.
Kept(h) == h.dev = eth0 /\ ~h.labelled

get_vm_iface_info(s) ==
  LET vms[n \in 0..Len(s)] ==
        IF n = 0 THEN <<>>
        ELSE IF Kept(s[n]) THEN Append(vms[n-1], s[n]) ELSE vms[n-1]
  IN  vms[Len(s)]

GetIndex ==
  LET k == Len(hwa)
  IN  /\ pc = "index"
      /\ hwa' = [hwa EXCEPT ![k].if_index = SIOCGIFINDEX(ifrcopy(k).dev, hwa[k].if_haddr)]
      /\ IF k < Len(ifr) THEN pc' = "hwaddr" /\ UNCHANGED todo
                          ELSE pc' = "bind" /\ todo' = get_vm_iface_info(hwa')
      /\ UNCHANGED <<kernel, len, lastlen, ifr, link>>

(***************************************************************************)
(* bind_link_socket() opens a socket for every interface it is given and   *)
(* keeps the last.  If there is none it returns descriptor 0.  Whatever    *)
(* device has the index now is the one that bind() takes.                  *)
(***************************************************************************)
Rest_slip(s) == s
Rest(s) == Tail(s)

Indexes == {index[d] : d \in Device} \ {0}

BindLink ==
  /\ pc = "bind" /\ todo # <<>> /\ Head(todo).if_index \in Indexes
  /\ link' = Head(todo).if_index
  /\ todo' = Rest(todo)
  /\ UNCHANGED <<kernel, pc, len, lastlen, ifr, hwa>>

BindFails ==
  /\ pc = "bind" /\ todo # <<>> /\ Head(todo).if_index \notin Indexes
  /\ pc' = "exit"
  /\ UNCHANGED <<kernel, len, lastlen, lists>>

Bound ==
  /\ pc = "bind" /\ todo = <<>> /\ pc' = "done"
  /\ UNCHANGED <<kernel, len, lastlen, lists>>

Program == \/ ListRefused \/ ListAgain \/ ListSettled \/ GetHwAddr \/ GetIndex
           \/ BindLink \/ BindFails \/ Bound

Next == Kernel \/ Program

Spec == Init /\ [][Next]_vars

\* The system calls return.
FairSpec == Spec /\ WF_vars(Program)

(***************************************************************************)
(* Properties.                                                             *)
(***************************************************************************)
\* The list that is accepted is the whole list at that moment, however the
\* interfaces changed while the program was guessing its length: nothing was
\* cut off at the end of the buffer.
AcceptsWholeList ==
  [][pc = "list" /\ pc' = "hwaddr" => ifr' = listed]_vars

\* An entry is an alias if an earlier one is of the same device.
AliasRight ==
  \A k \in DOMAIN hwa :
    hwa[k].ip_alias <=> \E j \in 1..(k - 1) : hwa[j].dev = hwa[k].dev

Looked(k) == IF pc = "index" /\ k = Len(hwa) THEN {hwa[k].if_haddr}
             ELSE {hwa[k].if_haddr, hwa[k].if_index}

Had(d, i) == i \in DOMAIN owner /\ owner[i] = d

\* As long as its device has not been removed, the hardware address and the
\* index of an entry are those that the device has.  If it has been, the
\* hardware address is one that the device had or that of no device; the index
\* is one that it had or what a failed call left: AF_INET, as a rule the index
\* of another device, or the first bytes of the device's hardware address.
InfoRight ==
  \A k \in DOMAIN hwa :
    LET h == hwa[k]
    IN  /\ h.dev \notin removed => Looked(k) = {index[h.dev]}
        /\ Had(h.dev, h.if_haddr) \/ h.if_haddr = IpBytes
        /\ \A i \in Looked(k) \ {h.if_haddr} :
             Had(h.dev, i) \/ i \in {AF_INET, HwNumber[h.dev]}

\* The program gives up only if there is no interface, or one was changed
\* while it looked.
ExitsForAReason == pc = "exit" => listed = <<>> \/ changes > 0

\* The packet socket is that of eth0, or there is none because no entry has
\* that name; unless eth0 was removed meanwhile (it may then be that of the
\* device with the index AF_INET).
LinkIsEth0 ==
  pc = "done" /\ eth0 \notin removed =>
    IF \E k \in DOMAIN ifr : Kept(ifr[k]) THEN link = index[eth0] ELSE link = 0

\* Once the interfaces stop changing the lengths agree and the program goes on.
Ends == <>(pc \in {"done", "exit"})
===============================================================================
