# Models of the tour program

TLA+ models of a token-like "tour" of virtual machines (`tour.c`), of the ARP
daemon and the first version of the tour beside it (`arp_test/`), and of the
parts they rest on or were to rest on. TLC checks them on small instances;
TLAPS proves the central results for every value of the constants. This page
says what the system is, which module stands for which code, what each run and
each theorem shows, and what is left.

## 1. The system

| Part | State | Operations | Interacts with | Hard about it | Correct when |
|---|---|---|---|---|---|
| **tour**, main loop (`tour.c`) | `me_flag`, `rt_rmsg`/`rt_len`, `join_mcast_triflag`, `recv_flag`, `ping_flag`, `ping_cnt`, `ping_stop`, the ping list, `max_fd`, a pending SIGALRM | forward a list, join the group, ping, wait in `select()`, handle a list, an ICMP message, a multicast, an alarm, a timeout | other nodes by three transports; SIGALRM of its own | signal against `select()`, losses, two tours at once, timeouts | lists are walked in order, once; the end is announced once, by the right node, and everybody leaves |
| **composition** of the list (`tour.c` 93-128) | loop variables, message buffer | one iteration per argument | gives the main loop its first list | off-by-one at repeats and at the buffer's end | the list is the command line without adjacent repeats |
| **rt** (`rt.c`) | raw socket | `send_rt`, `recv_rt` | carries lists between main loops | loss, foreign packets, socket not open yet | - |
| **mcast** (`mcast.c`) | group membership | create, send, receive | carries "tour has ended" and the answers | loss, a member that has left | every member answers |
| **myping** (`myping.c`) | ICMP raw socket | `ping`, `read_ping` | kernels of other VMs | `pingfd` missing from `max_fd`; replies restart `select()`'s timeout | answers are read |
| **minix** (`minix.c`) | table of ten VMs | name to address and back | composition, output | names and addresses that are in no table | - |
| **ARP daemon** (`arp_test/arp_mod.c`, `common_defines.h`) and its client (`sample_tour.c`) | ten-slot cache; the client it serves | serve a client, answer a request, wait for a reply | clients over a domain socket, other daemons by broadcast | blocks for a reply inside a client's request, takes any frame for it | the client gets the address it asked for |
| **arp_test/tour.c** | list of senders, `is_dest`; in the packet the list and an index | start, skip, take and forward a packet | other nodes by raw IP | "duplicates" of one sender, `is_dest` never reset | lists are walked in order to the end, duplicates or not |
| **get_vm_info()** (`common_defines.h` 399-434) | a linked list and a pointer into it | delete adjacent repeats | gives `arp_test/tour.c` its list | entries deleted by value under a moving pointer | the list is the command line without adjacent repeats |
| **interfaces** (`hw_addrs.c`, the same function in `common_defines.h`) | the buffer of SIOCGIFCONF, the list of interfaces, the packet socket | list the interfaces, ask for address and index of each, open a packet socket for eth0 | the kernel, whose interfaces come and go meanwhile | the length of the list is guessed; a later call asks by name, and its failure is only reported | the list is whole, and what is in it belongs together unless a device was removed |
| **ssrr_test.c** (built, as `params.h` defines SSRR_TEST) | the buffer and length of the list, `me_flag`, ping counters | start, send on, ping, receive, alarm, timeout | other nodes by raw IP | the last stop sends on too | the list is walked in order, and everybody leaves (against README_ssrr_test) |
| **arpcache.c** | an array of linked lists | create, look up, delete, delete if waiting | the daemon that was not integrated | linking and unlinking anywhere in a chain | it is a table with one entry for an address |
| `in_cksum.h` | - | checksum | rt, myping | borrowed | - |
| `arp.c`, `arp_mod.c`, `domainsock.c`, `mcast_test.c` | - | sockets, an empty shell, a test bench that cannot be linked | - | - | - |

A tour goes like this. Every VM runs the program; the one started with
arguments composes the list of stops with itself in front, strikes itself off
and sends the rest to the next stop by a raw IP packet. A node that receives a
list (1) becomes the last stop if only its own address is left, or else will
send the list on, (2) adds the sender to the addresses it pings, (3) joins the
multicast group on the next pass, (4) pings once a second, driven by SIGALRM.
Some pings after it became the last stop a node multicasts the end. A member
that hears any multicast stops pinging, answers the end with its name, and
leaves after TO_MCAST quiet seconds; a node that hears nothing leaves after
TO_EXIT.

An ARP daemon runs on every VM. A client of the same VM asks it for the address
of a VM; if its cache does not know, the daemon broadcasts a request and blocks
until a frame arrives, which it takes for the reply. Idle daemons answer
requests for their own address.

The hazards of this code are listed one by one, at their lines, in
`PROJECT.json`.

## 2. Modules

| Module | Stands for |
|---|---|
| `TourMessage` | the list as a function of the command line (`Compose`), the ping list's insertion (`PingInsert`) |
| `ComposeTour` | the loop of `tour.c` 93-128, one iteration at a time; shows that it computes `Compose` |
| `Tour`, `MCTour` | all nodes and the network, without clocks |
| `TimedTour`, `MCTimedTour` | `Tour` with seconds: SIGALRM after ALARM_RATE, timeouts TO_MCAST and TO_EXIT |
| `TourService` | the abstract specification: lists walked in order, their end announced by the last stop |
| `ArpDaemon`, `MCArpDaemon` | the ARP daemons of all VMs, their clients and the network |
| `ArpService` | the abstract specification of the daemons: a client is answered once, and rightly while one daemon asks |
| `VmList` | the list that `get_vm_info()` makes, as a function of the command line |
| `GetVmInfo` | the loop of `get_vm_info()`, one iteration at a time; shows that it computes `VmList` |
| `MCLists` | both loops on the same command line, compared with a third definition of the list |
| `PacketTour`, `MCPacketTour` | all nodes that run `arp_test/tour.c`, and the network |
| `HwAddrs`, `MCHwAddrs` | `get_hw_addrs()`, `get_vm_iface_info()` and `bind_link_socket()` beside a kernel whose interfaces change |
| `Ssrr`, `MCSsrr` | all nodes that run `ssrr_test.c`, and the network |
| `ArpCache`, `MCArpCache` | the hash table of `arpcache.c` |
| `ArpTable` | the abstract specification of `ArpCache`: a set of entries, one for an address |
| `ListLemmas` | what the operators of `TourMessage` and `VmList` return, for every command line; induction; functions defined by recursion |
| `TourProofs` | theorems about `Tour` and `TimedTour` |
| `ListsProofs` | theorems about `ComposeTour`, `GetVmInfo` and `MCLists` |
| `PacketTourProofs` | theorems about `PacketTour` |
| `ArpProofs`, `ArpCacheProofs`, `HwAddrsProofs`, `SsrrProofs` | theorems about `ArpDaemon`, `ArpCache`, `HwAddrs`, `Ssrr` |

### Tour and the code

A process is single-threaded, so a pass of the loop is cut at the points where
something outside can matter. `pc[n]` is "down" (not launched), "delay" (in
`sleep(START_DELAY)`, sockets open), "loop" (before `select()`), "select" and
"exited". The actions of "loop" are in the order of the code: `Forward` if
`me_flag`, then `JoinGroup` if the tristate is 1, then `Ping` or `Wait`, which
enter `select()`. One event leaves "select": `ReceiveRoute` (with everything
lines 228-275 do), `ForeignPacket` (`recv_rt` returns NULL), `ReadPing`,
`ReceiveMcast` (with the answer), `AlarmOnTime` (EINTR, including the multicast
of the end) or `Timeout`. The handler itself can run anywhere: `AlarmInLoop`
before the test of `ping_flag`, `AlarmTooEarly` after it and before `select()`
blocks.

* `route` is the set of lists on their way, in flight or in a receiver's
  socket; `mcastq[n]` the multicasts `n` can read, in their order of arrival.
  Lists may overtake each other; both kinds may be lost, but IP duplicates none
  (nor in `Ssrr`; it does in `PacketTour`, whose program has a test for it). As in-flight and
  readable are not told apart, the order in which the loop tests the
  descriptors of one `select()` restricts nothing.
* Descriptors are numbers because lines 131, 132 and 171 compare them:
  `Raised` is that conditional, and an event is seen only if its descriptor is
  below `max_fd` (`Watched`).
* A slot of the message no iteration wrote is any address (`junk`): it is an
  uninitialized part of the stack. An address of no VM (`Nowhere`) makes
  `Sendto()` fail (its wrapper exits) or lose the packet.
* ICMP carries no state of the tour. In `Tour` a message for `pingfd` may
  always arrive, which covers traffic of other programs; `TimedTour` has the
  requests and answers themselves, because they restart the timeout.
* `plan`, `visited`, `final`, `ended`, `heard` and the field `tour` of a list
  are history: written, never read by a guard.

`TimedTour` reuses the actions of `Tour` and adds, per process, the seconds
spent in the current call of `select()` and whether its alarm is due. A second
goes by (`Tick`) only when every process is blocked and all lists have arrived:
this is the assumption that the network and the machines are much faster than
one second. The timeout is `TO_MCAST` or `TO_EXIT` according to `recv_flag`
(`Limit`), and starts again on every pass, as `tv` is set anew.
`Latecomers` are the nodes that START_DELAY does not wait for (a VM whose
program is started by hand later): time goes by while they are down, so they may
start before, in or after the tour of another, and lists sent to them before
that are lost.

### ArpDaemon and the code

A VM stands for its IP address and its hardware address; a client asks on one
VM (`at`) for another (`for`), once. A daemon is "down", in "select" or in
"recvfrom", the blocking read of `handle_arp_request()`, where it holds the
client it accepted (`serving`). A pass of the loop that does not block is one
step: `ServeFromCache` and `HandleFrame`. A miss is two: `Request` up to the
blocking read and `TakeReply` after it. A read that ends returns to the client
in the same step, whatever frame it was. `backlog` are the clients that have
connected; as the code tests the domain socket first, `HandleFrame` needs it
empty. `frames[n]` is the queue of the packet socket of `n`. It does not hold
the daemon's own broadcasts, since a packet socket bound to one protocol is not
given outgoing frames. `asked` is history. The refinement of `ArpService` is by
the variables of the same names: `Connect` is its `Arrive`, `Request` its
`SendRequest`, `ServeFromCache` and `TakeReply` its `Reply`, the rest stutters.

### GetVmInfo, PacketTour and the code

`GetVmInfo` tells an entry of the linked list (a number) from its value, because
the loop holds a pointer to an entry while `gen_ll_del()` searches by value.

`PacketTour` has a step for each way a received packet is handled: `Skip`
(`gen_ll_lookup()` finds the sender), `Reach` (the list is done, or `is_dest` is
set from an earlier tour), `Forward`. `net` is a bag, as a packet may be
duplicated. `visited`, `skipped`, `lost` and `arrivals` are history. A list of
one stop dereferences a null pointer ("crashed").

### HwAddrs and the code

The function is in `hw_addrs.c` and, word for word, in `common_defines.h`; the
latter is what the programs that use it include, and `PROJECT.json` points at
either. A system call is one step of the program (`ListRefused`, `ListAgain`,
`ListSettled` for SIOCGIFCONF; `GetHwAddr`, `GetIndex`; `BindLink` and
`BindFails` for socket and bind). Between two steps the kernel (external) may
add or remove an address, remove a device or add one (`Kernel`). `strict` is
the kind of kernel, as the code allows for both: one that refuses a buffer that
is too small, with EINVAL, or one that fills it. An interface index
is never used twice, so that it names an incarnation of a device; it stands for
the hardware address as well. A call that fails is only reported, and what the
union of the `ifreq` held before is copied. For the hardware address that is the
`sockaddr_in` of SIOCGIFCONF, whose port 0 and IP address are no device's
(`IpBytes`). For the index it is the same `sockaddr_in`, read as a number: 2, the
family `AF_INET` and port 0 on a little-endian machine; or, if the device went
between the two calls, the hardware type and two bytes of the address
(`HwNumber`). `bind()` takes any number that is the index of a device at that
moment (`Indexes`). `get_vm_iface_info` is the list of the entries that are named eth0.
`RowsAssumption` says that the kernel lists the addresses of one device in a
row, as it goes through the devices one by one.

### Ssrr and the code

The labels are those of `Tour`: "delay", "loop", "select", and "crashed" for the
process that copies -4 bytes. `rt_rmsg` is the buffer with the slots that
`memcpy()` left from earlier lists, and with what the stack held before any
(`stack`): the last stop sends its empty list to the address in the second
slot. `visited` is history.

### ArpCache and the code

A linked list is the sequence of its nodes' contents, and a call is a step, as
there is one thread. `ret` and `found` are what the call returned. Addresses
are numbers, as the hash is a remainder.

### Slips

An operator called `X_slip` is `X` with one plausible programming error. No
specification uses it; put in the place of `X` it makes TLC find the property
that `PROJECT.json` pairs it with (section "mutants") violated. This is how we
know that the property can fail.

## 3. What the runs show

| Run | Instance | Shows |
|---|---|---|
| `lists` | 3 names and a bad one, every command line of 2 to 5 arguments | of `tour.c`: `ComputesCompose`, `KeepsTheStops` (without a trailing repeat the list is the command line without repeats), `FitsBuffer`; of `get_vm_info()`: `NodeAlive` (the pointer never hangs), `ComputesVmList`, `VisitsCounted` (no visit is dropped), `RepeatsGone` (unless the VM is visited at another time, only the repeat goes) |
| `tour` | 2 nodes; one tour that returns to both, with repeats inside and at the end (junk), a refused name, too many arguments; or two tours that cross; launched at any time (START_DELAY covers nothing), alarms anywhere, 2 mishaps | `TypeOK`, `RouteIntact`, `OneCustodian`, `EndIsEarned`, `AnswersAreRead` (whoever pings watches `pingfd`), `PingsPredecessors`, `EndIsFinal`, `Implements` |
| `timed_tours` | 3 nodes, 1 tour or 2 that cross, no loss, the program's constants | `LeaveByHearing`, `AllIdentified`, `TourCompletes` (which needs that START_DELAY lets every socket be opened first) |
| `timed_lossy` | 3 nodes of which one starts late, in no tour, on the way of one or with its own; 1 mishap; NUM_PINGS = 1, TO_EXIT = 5, TO_MCAST = 2 | `EveryoneLeaves`, `EndFollows` (whoever became the last stop announces the end or has heard a multicast) |
| `arp` | 4 VMs, 3 clients of one daemon, or of daemons that ask each other, in a ring or for themselves; late starts, 2 losses, 2 slots | `TypeOK`, `CacheSound`, `NoClientForgotten`, `RightIfAlone`, `ServedIfAlone` (a daemon that asks alone, with no frame lost, never blocks for ever), `ServesClients` (the daemons implement `ArpService`) |
| `packet` | 3 nodes, 1 tour on every command line of up to 4 arguments or 2 on every command line of up to 2, started in any order, 2 packets lost or duplicated | `StopsInOrder` (each stop takes the packet once, in order, though packets are duplicated), `EndsForAReason` (a tour that stops short was lost, skipped, or stopped by a former last stop), `Completes` (if it is alone, loses no packet and takes no step twice) |
| `arp_cache` | 5 addresses in 2 chains, 2 hardware addresses, descriptors with 0 among them | `ChainsSound` (each entry in its chain, no address twice), `ImplementsTable` |
| `interfaces` | 3 devices, up to 4 addresses, a buffer of one that grows by one, 3 changes at any moment, both kinds of kernel | `AcceptsWholeList` (no list that was cut off is taken for the whole), `AliasRight`, `InfoRight` (address and index are those of the device while that is not removed, after that those or a leftover), `LinkIsEth0`, `ExitsForAReason` (a low guess is no reason), `Ends` |
| `ssrr` | 3 nodes, every tour of 1 to 4 stops, refused command lines, the stacks that hold one address everywhere, losses anywhere | `RouteIntact`, `CrashIsStale` (only the node whose address the last stop still had in its buffer is hit, and only when the tour is done), `AllLeave` (every process that does not crash stops pinging and exits) |

Three runs show a disagreement between the code and what it says about itself:

* `timed_alarm`: a SIGALRM between lines 179 and 196 does not wake `select()`;
  the last stop sleeps TO_EXIT seconds and leaves without announcing the end.
  "is pselect better?" (line 196): yes.
* `lists_repeat`: "Ignoring 2nd" (line 118) is not what happens to a repeat at
  the end of the command line: the message gets one more stop, never written.
* `arp_right`: a daemon that waits for a reply takes another daemon's request
  for it, and the client prints the wrong "MAC addr for" a VM.

A fourth disagreement is shown by a property that holds:

* `ssrr`: README_ssrr_test says (line 3) "No Stop to fake "Pinging" - will need to
  kill app." `AllLeave` says the contrary, and it is what `ssrr_test.c` does: the
  pings end when `ping_cnt > ping_stop` (line 161), and TO_EXIT seconds later the
  process exits (line 178). The slip of `Ping` that is paired with it, which does
  not count the rounds, is the program that the README describes.

More that the models have, without a run of their own:

* if eth0 is removed before its index is asked for, its entry gets the number 2
  (`hw_addrs.c` 67-69), and the daemon's packet socket is bound to the device that
  has this index. `InfoRight` and `LinkIsEth0` state what is right while the
  device is not removed, `InfoRight` also what an entry can hold after that;

* the last stop pings NUM_PINGS + 1 times, not NUM_PINGS (`tour.c` 24, 200);
* the request that an ARP daemon took for a reply is never answered: the daemon
  that sent it waits on, with its clients, although no frame was lost. This is
  why `ServedIfAlone` speaks of one daemon that asks;
* `get_vm_info()` is "to make sure that 2 adjacent vm addr are not the same"
  (line 417), but when the VM is visited earlier too that visit is deleted (it
  may be the source at the head) and the repeat stays: vm1, vm2, vm1, vm1 becomes
  vm2, vm1, vm1. This is why `RepeatsGone` has a condition;
* "skip duplicates here" (`arp_test/tour.c` 58) skips a packet that is no
  duplicate, the second one from the same sender: this is a reason of
  `EndsForAReason`;
* a node of `arp_test/tour.c` that was the last stop of one tour says
  "Destination reached" to any other and drops it (`is_dest` is never reset);
* a message for `pg_socket` is never read there (line 90), so that `select()`
  returns at once from then on; the pings that its timeout would send are an
  empty function;
* a last stop of `tour.c` that has heard a multicast (of another tour, or the
  answers to it) does not ping and announces nothing: nobody announces its
  tour's end. `EndFollows` allows it, as the node has heard an end;
* the last stop of `ssrr_test.c` sends an empty list to the second slot of its
  buffer. If it was visited before, that is the stop after the earlier visit,
  which takes an address off an empty list and copies -4 bytes.

### Bounds

* Command lines of `lists`: two to five arguments are enough for a repeat at
  either end, twice in a row, and of a VM visited before or after.
* Nodes: two nodes give every order of two lists and of two members; three are
  needed for a multicast with more than one receiver, and for a node that no
  tour visits.
* `MaxMishaps` counts lost packets, lost multicasts and foreign packets
  together. One or two are enough to lose any single message of the tours, or
  two, at any point.
* `MaxPings` bounds alarms that do not hit `select()`; without it such an alarm
  could recur for ever. An alarm in `select()` is bounded by the code itself:
  pinging ends when `ping_cnt > ping_stop`. The bound is at least the round in
  which the end is due in the runs where that matters (`tour`,
  `timed_tours`, `timed_alarm`).
* `NUM_PINGS` and `TO_EXIT` are small in the untimed runs, so that the fallback
  of `ping_stop = TO_EXIT` is reached (`GaveUp`), and the program's own in the
  timed ones. In `timed_lossy` they are short, in the same order (a second of
  pings < TO_MCAST < TO_EXIT): the node that starts late can then be launched in
  each second up to after the end.
* `MAX_ARGS` is small so that a command line can exceed it. The descriptors 3,
  4 and 6 are those a process gets that has only its standard streams open.
* ARP: three VMs, so that a daemon can be sent a request of one VM while it
  waits for the reply of another, and a fourth, so that three addresses compete
  for two slots of a cache. Three clients at one daemon give a hit, a miss and a
  miss with a full cache. A client that asks for its own VM, which no daemon
  answers, blocks its daemon for ever, by design or not; `ServedIfAlone` excludes
  it.
* `arp_test/tour.c`: four arguments are enough for a step taken twice (1 2 1 2).
  All lists are shorter than MAX_TOUR_LEN, and the names on them valid, except
  for the bad one of `GetVmInfo`.
* `arpcache.c`: an even and an odd chain; the even one holds up to three entries,
  so that one between others, and each end, is unlinked.
* `interfaces`: three changes undo and redo one (a device that is removed and
  comes back has another index), or change the list while each of two guesses is
  being made. Two devices have the indexes 1 and 2 at first, so that the number 2
  of a failed call is the index of the device itself, of another, or of none. The
  other leftovers are 772, of a loopback, and that of a hardware address beginning
  with 00:0c.
* `ssrr`: four stops on three nodes make a VM, also the last one, come twice.
* `CHECK_DEADLOCK FALSE` is given where the system really stops: clients that
  are all answered, a daemon that waits for ever, tours that have ended, a program
  that has its interfaces.

### Fairness

`Tour` has none: its properties are safety. `TimedTour` has one condition,
`WF(TNext)`: as long as something can happen, something does. It is justified
by the operating system (a runnable process runs, a packet that is not lost
arrives) and by the clock; no action is favoured, and that is enough because
within a second only finitely many steps are possible (every message is read
once, `TReadPing` stands for all the passes that empty the ICMP socket) and
seconds are counted by timeouts. `ArpDaemon` has `WF(Daemon(n))` for each daemon:
the operating system runs a process that is not blocked. Clients and losses have
none. `PacketTour` has weak fairness of arrivals: a packet that is not lost is
delivered and read by a node that is in `select()`. `HwAddrs` has `WF(Program)`:
system calls return; the kernel's changes have none, and are finitely many.
`Ssrr` has `WF(Next)`, for the reasons given for `TimedTour`: only finitely many
steps are possible, as each ping is counted.

## 4. What is proved

For any finite set of nodes, any command lines, any constants within the named
assumptions of `Tour` (the addresses are told apart; the sockets get growing
descriptors), with any number of tours, losses and alarms:

* `ListsAreIntact`: `Spec => []CustodyInv`, the inductive invariant. It joins
  - `RouteIntact`: for a list on its way, what the tour's nodes have visited
    followed by what is left is the list composed at the start;
  - `OneCustodian`: a list is in one packet or held by one node;
  - `NothingPending`: a process in `select()` holds nothing to send, and one
    that has not started has composed nothing;
  - `TypeOK`.
  None is inductive alone. `RouteIntact` needs `OneCustodian`: if a list were
  in two places, an advance of one would falsify the other. `OneCustodian`
  needs `NothingPending`, or a received list could overwrite one not sent on.
  `TypeCorrect`, `StopsInOrder` and `OnePlace` are its parts.
  The proof has one lemma for each action that moves a list
  (`CustodyOfStart`, `CustodyOfForward`, `CustodyOfReceive`); `OthersKeepLists`
  says that the others move none. What it needs of the composition is
  `ComposeProperties` (in `ListLemmas`): the list starts with the host
  and has a second element.
* `EndsAreEarned`: `Spec => []EndIsEarned`. The strengthening is `EndInv`: only
  a node that was the last stop of a completed tour has a `ping_stop` other
  than TO_EXIT. A tour once completed stays so, as `RouteIntact` leaves no list
  to advance it.
* `TourImplementsService`: `Spec => Implements`, by `InitImplements` and
  `StepImplements`: `StartTour` is `Start`, `ReceiveRoute` is `Reach`, an end
  that is multicast is `Announce`, a round past TO_EXIT is `GiveUp`, and every
  other step stutters. The refinement maps `announced` to the nodes that
  multicast an end, `gaveUp` to those that pinged more than TO_EXIT times.
* `AnswersReachTheirReader`: `Spec => []AnswersAreRead`. The invariant `WatchInv`
  ties `max_fd` to the tristate: a node has pinged, or is about to, only after
  it was told to join, and joining raises `max_fd` over both sockets.
* `PredecessorsArePinged`: `Spec => []PingsPredecessors`. `PingInv` says the same
  of the elements of the ping list, one at a time. `InsertHolds` and
  `OneMorePredecessor` are what one reception adds on either side; that a
  received list is not for its sender (`RouteIntact`) makes the two agree.
* `TheEndIsFinal`: `Spec => EndIsFinal`. `FinalInv`: with one starter, a node
  that announced the end without having given up has no alarm to come.
  `NoneOnItsWay` is the argument: where the only tour has ended, no list is left
  to set a node pinging again (from `RouteIntact`: what was visited and what is
  left would be longer than the plan). This needs the set of nodes to be finite,
  for "one starter" is a cardinality.

For any set of VMs, any tours, however they cross, any NUM_PINGS and any timeouts
above a second (`TimedTour`):

* `TimedTourIsTour`: `TSpec => Spec`. Each step of `TimedTour` is one of `Tour`, or a
  tick, which leaves the variables of `Tour` alone. So all of the above holds of
  `TimedTour`.
* `MembersLeaveByHearing` and `AllAreIdentified`: `TSpec => []LeaveByHearing` and
  `TSpec => []AllIdentified`, if runs are `Calm`: all VMs are launched in time with
  arguments they accept, no alarm hits the gap before `select()`, nothing is lost,
  and no last argument repeats the one before it (or the list ends in a stop that
  was never written, and a process may abort on sending to it). The instance of
  `timed_tours` is calm (`CalmTours`, which TLC evaluates). With losses neither
  holds: a lost end can leave a member to its timeout, and a lost answer is never
  repeated.

  Both are about instants: what may be in flight within one second, in every
  order. The inductive invariant `TourInv` splits a run in two. `RoundInv` says
  that no clock and no queue is touched before every list has arrived at its last
  stop and every member has joined (`Early` until `Settled`), as a list never waits
  for a second (`TickSettles`). It rests on `Conserved` (a list not at its end is on
  its way or in the hands of a node), `PlanWhole` (a list has VMs only, and its
  second stop is not its first) and `OnTour` (who has been visited pings, will be
  woken by an alarm, or has heard or announced the end). `PhaseStep` is the split:
  after it only seven kinds of step are left, each described by what it does to the
  clocks and the queues (`Pinging`, `Waiting`, `Reading`, `Ringing`, `Ending`,
  `Leaving`, `Hearing`), and the tick (`Ticking`). `LateInv` is then
  - `Clock`: per process, how alarm, timeout, queue and end relate;
  - `Answers`: between an announcer and each other member, the end, the answer to
    it or the record of the answer exists, and an announcer whose end is still
    unread has not begun to wait;
  - `Pings`: before the first end, a member that has waited for a second is about
    to be woken, by its own alarm, an answer or the next round of a node that
    pings it;
  - `Calls`: after it, while a member has not heard of it or has an alarm to come,
    who has waited for a second has a message to read;
  - `Rings`: when an alarm comes nobody has waited for longer than its second;
  - `Leaves`: when the first member leaves, all have heard and no alarm is to come.

  None of the last four is inductive alone. `Leaves` follows from the other three
  at the moment of a timeout, as timeouts are longer than a second; `Calls` needs
  `Answers`, because where all others have heard, the one that has not is the
  announcer, and its answers are what wakes it; `Pings` needs `SettledCompany`: a
  member that does not ping is the first stop, which the second one pings
  (`PingsPredecessors`). There is one lemma for each of them and a step of a
  process (`PingsStep`, ...), and one for each and the tick (`PingsTick`, ...).

For any set of VMs and clients, whatever they ask, any number of cache slots and
losses (`ArpDaemon`'s assumption that an empty string is no address is used for
the empty slots):

* `TypesHold` and `CachesAreSound`: `Spec => []TypeOK` and `Spec => []CacheSound`.
  The inductive invariant `CacheInv` adds `FramesGenuine`: frames, mistaken or
  not, tell the truth about their senders. That empty slots come last keeps an
  address out of two slots.
* `AloneIsRight`: `Spec => []RightIfAlone`. The inductive invariant `RightInv`
  adds to `CacheInv`
  - `OwnClients`: a daemon queues and serves the clients of its VM, one at a
    time, and one that waits for a reply has asked;
  - `OneExchange`: while only one daemon asks, a frame for it is the reply to
    the request it waits on, and none is there while that request is on its
    way. Without it a late reply could be taken for that of the next client.
* `NobodyIsForgotten`: `Spec => []NoClientForgotten`, inductive beside `RightInv`.
  `PlaceStep` goes through the actions; `HeadLeaves` and `AtAppend` say what
  accepting and connecting do to the places of a client in a queue.
* `DaemonsServeClients`: `Spec => ServesClients`, by `ServiceInit` and
  `ServiceStep`. A reply is a step of `ArpService` because its client waits
  (`NoClientForgotten`), a frame or a cache never has the daemon's own address
  (`FramesGenuine`, `CacheSound`), and it is right while one daemon asks
  (`RightIfAlone` after the step).

For any addresses, any number of chains (`arpcache.c`):

* `ChainsStaySound`: `Spec => []ChainsSound`, inductive with the type of the
  chains. `LinkStep` is for the insertion at the head, `UnlinkStep` for a removal
  at any place.
* `CacheImplementsTable`: `Spec => ImplementsTable`. Each call is the call of the
  table of the same name, on the set of all entries of all chains. It needs
  `ChainsSound`: the first entry that fits is then the only one (`OneMatch`).

For any devices, any first guess and growth, any number of changes of the
interfaces, at any point between the calls (`HwAddrs`):

* `InfoIsRight`: `Spec => []InfoRight`, which says what each entry holds, also when
  its device has been removed and a call failed (`CallsGive`). The inductive invariant `HInv` says that
  an index of the kernel belongs to its device (`Owned`), that a device in the
  list of addresses, or in that accepted, is there or has been removed
  (`Present`), and how far the program is (`Progress`).
* `WholeListAccepted`: `Spec => AcceptsWholeList`. `SettledIsWhole` is the
  argument: a list as long as the one before is shorter than the buffer, as that
  has grown in between, and so was not cut off.
* `AliasesAreRight`, `NoExitWithoutReason`, `SocketIsOfEth0`: `Spec => []AliasRight`,
  `[]ExitsForAReason`, `[]LinkIsEth0`, from the invariant `BInv` beside `HInv`.
  It adds that the addresses of a device stay in a row, whatever changes
  (`InRows`; with an address of another device in between, comparing with the
  name of the entry before would not tell an alias), that the entries are built
  in the order of the listing (`Built`), that sockets are opened for those of
  eth0 only (`Chosen`, `Linked`), and that a strict kernel without changes
  refuses no buffer after it has accepted a shorter one (`Reasons`).

For any command line, any names and any MAX_ARGS (`ComposeTour`, `GetVmInfo`,
`MCLists`):

* `LoopComputesCompose`: `Spec => []ComputesCompose`, so that `Tour` may take the
  list for composed in one step, and `MessageFits`: `Spec => []FitsBuffer`. The
  inductive invariant `CInv` joins `LoopInv` (the next slot is that of the next
  argument, and each slot written holds its last argument) with `Unwritten` (the
  other slots still hold the stack, which `Compose` calls junk) and the test of
  `argc`. `SlotsGrow` is the arithmetic: a slot is written twice only for a
  repeat, by the argument that it repeats.
* `MessageKeepsStops`: `BothSpec => []KeepsTheStops`. `KeptInSlots` compares the
  slots, which are counted, with `Kept`, which is a recursion.
* `NodeNeverHangs` and `GetsVmList`: `BothSpec => []NodeAlive` and
  `BothSpec => []ComputesVmList`. The invariant `Walking` says where the pointer
  is: the entries from it on are the last ones of the list and have never been
  touched, those before it are older, and what all of them hold is `VmList` of
  the arguments so far. A deletion by value hits an entry before the pointer
  or, if there is none, the one it is at, whose repeat then takes its place
  (`DeletedEntry`); this is why the pointer never hangs.
* `NoVisitIsDropped`: `BothSpec => []VisitsCounted`. `IterationCuts`: each
  iteration takes away one entry of the repeated name or nothing, so that only
  the number of its occurrences has to be followed (`CutCount`, `AfterCounts`).
* `RepeatsAreGone`: `BothSpec => []RepeatsGone`, by `VmListIsKept`. Unless a
  repeated VM is visited at another time, its first occurrence is the repeat
  itself (`AlignedStep`).

`ListLemmas` states induction with a set in the place of a predicate (`Induction`,
`InductionTo`, from `LeastNumber`) and the existence of a function defined by
recursion on a sequence (`RecursiveFunction`); with these no operator has to be
passed to a lemma, and `AfterProperties` and `VmListProperties` say what the
recursive functions return for every list of stops.

For any set of nodes, any command lines, any number of packets lost or
duplicated (`PacketTour`):

* `StopsTakeInOrder` and `ToursEndForAReason`: `Spec => []StopsInOrder` and
  `Spec => []EndsForAReason`, with the type invariant (`TypeCorrect`). The
  inductive invariant `IInv` joins
  - `Genuine`: a packet is that of a step the tour has made, or of the next one;
  - `Walked`: the stops that took it are the first ones of the list;
  - `Passed`: each of them has its sender in `pg_head`;
  - `Accounted`: `EndsForAReason` of one tour.
  None is inductive alone. A duplicate is harmless because its receiver knows
  the sender (`Passed`), so a packet that is taken is the next one (`TakenIsDue`),
  and this is true only of packets that are `Genuine`. `QuietStep` and `TakeStep`
  are for the steps that take no packet and for those that take one; `Added` and
  `Removed` say what a bag holds after the two operations on it.

For any arguments, any contents of the stack and any losses (`Ssrr`):

* `RouteStaysIntact`: `Spec => []RouteIntact`. The inductive invariant `SInv` adds
  `NothingPending` as in `Tour`, `NotBegun` (before the node that is named first
  has started there is no list) and `Buffers` (a packet goes to the first stop of
  its list; a buffer always has the two slots that are read of it).
  `OverwrittenIs` says what is sent on of a buffer that held another list before.
* `CrashIsOfStale`: `Spec => []CrashIsStale`. `StaleInv` adds to `SInv` what a
  node's second slot holds: what the last list of two stops or more had there
  that it received, and else the stack (`SecondSlot`). `Emptied` says that an
  empty list is only held by, or on its way to, the address in that slot of the
  last stop.

Only model-checked:

* liveness, as fairness and ENABLED are beyond the prover: `TourCompletes`,
  `EveryoneLeaves`, `EndFollows`, `ServedIfAlone`, `Completes`, `Ends`,
  `AllLeave`.

All invariants and action properties that the runs check are theorems. The
`TypeOK` of `Ssrr` documents its variables and is proved as a part of `SInv`.

## 5. Not modelled, and why

* Byte order, header fields, `ttl`, the IP checksum (the kernel overwrites it
  for raw sockets; the receiver's test is `if(1)`), port numbers.
* `malloc` failure (the code retries for ever), failing system calls other than
  `Sendto()` to an address of no VM and the calls of `HwAddrs`: their wrappers
  exit.
* The build with `TEST` defined, in which the first argument names the starting
  node.
* What is printed, including the round-trip times; so `get_vm_iface_info()` of
  `hw_addrs.c` and the functions that print interfaces, which nothing else uses.
* `in_cksum.h`: a borrowed function without state. The kernel overwrites one of
  its results and remote kernels test the other.
* `arp_mod.c`, `arp.c`, `domainsock.c`: the body of `main()` is compiled out
  ("an empty shell"); what is left opens sockets and copies frames for it.
* `mcast_test.c`: calls `bind_mcast_socket()`, which does not exist.

## 6. Plan

Done: everything of section 2 and the proofs of section 4, which state every
invariant and every action property of the passing runs. What could still be
proved are versions of `MembersLeaveByHearing` with less calm: with a latecomer
that is in no tour, and with a last argument that repeats, where the stop that
was not written happens to hold the address of a VM.
