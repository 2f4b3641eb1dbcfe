------------------------------ MODULE ArpDaemon ------------------------------
(***************************************************************************)
(* The ARP daemon (arp_test/arp_mod.c, its functions in common_defines.h)  *)
(* and its clients (sample_tour.c).  A client asks the daemon of its own   *)
(* VM for the hardware address of a VM.  The daemon looks in its cache; on *)
(* a miss it broadcasts a request and, still inside the client's request,  *)
(* blocks in Recvfrom() for what it takes to be the reply.  In between it  *)
(* waits in select() and answers the requests for its own address.         *)
(*                                                                         *)
(* A VM stands for its IP address and for its hardware address as well.    *)
(*                                                                         *)
(* An operator X_slip is X with a slip of the pen (see Tour).              *)
(***************************************************************************)
EXTENDS Integers, Sequences

CONSTANTS
  Host,                \* the VMs
  Client,              \* runs of the client program
  None,                \* no VM: an empty string, an empty slot
  Asks,                \* what clients do: a set of functions on Client
  NUM_CACHE_ENTRIES,   \* slots of the cache
  MaxLost              \* bound: frames lost on the network

Ask == [at : Host, for : Host]     \* on which VM, for which VM's address

ASSUME HostAssumption == None \notin Host
ASSUME AsksAssumption == Asks \subseteq [Client -> Ask]
ASSUME SlotsAssumption == NUM_CACHE_ENTRIES \in Nat /\ MaxLost \in Nat

VARIABLES
  ask,      \* what each client asks
  client,   \* where each client is
  answer,   \* the hardware address it was given
  pc,       \* where each daemon is
  cache,    \* its cache, by slot
  backlog,  \* clients connected to its domain socket, not yet accepted
  serving,  \* the clients of its open connection: one at most
  frames,   \* frames for its packet socket, in the order of arrival
  lost,     \* frames lost so far
  asked     \* history: the daemons that have broadcast a request

vars == <<ask, client, answer, pc, cache, backlog, serving, frames, lost, asked>>

Slot == 1..NUM_CACHE_ENTRIES
Entry == [ip : Host \cup {None}, mac : Host \cup {None}]
\* A reply leaves target_ip empty.
Frame == [src_ip : Host, src_mac : Host, target_ip : Host \cup {None}]

\* Every variable of the daemons and the clients has its type.
TypeOK ==
  /\ ask \in Asks
  /\ client \in [Client -> {"new", "waiting", "refused", "done"}]
  /\ answer \in [Client -> Host \cup {None}]
  /\ pc \in [Host -> {"down", "select", "recvfrom"}]
  /\ cache \in [Host -> [Slot -> Entry]]
  /\ backlog \in [Host -> Seq(Client)]
  /\ serving \in [Host -> SUBSET Client]
  /\ frames \in [Host -> Seq(Frame)]
  /\ lost \in Nat
  /\ asked \in SUBSET Host

Init ==
  /\ ask \in Asks
  /\ client = [c \in Client |-> "new"]
  /\ answer = [c \in Client |-> None]
  /\ pc = [n \in Host |-> "down"]
  /\ cache = [n \in Host |-> [i \in Slot |-> [ip |-> None, mac |-> None]]]
  /\ backlog = [n \in Host |-> <<>>]
  /\ serving = [n \in Host |-> {}]
  /\ frames = [n \in Host |-> <<>>]
  /\ lost = 0
  /\ asked = {}

(***************************************************************************)
(* The cache.                                                              *)
(***************************************************************************)
\* strcmp() taken for a test of equality.
Lookup_slip(slots, ip) == {i \in Slot : slots[i].ip # ip}
Lookup(slots, ip) == {i \in Slot : slots[i].ip = ip}

AddToCache_slip(slots, f) ==
  LET free == Lookup(slots, None)
  IN  IF free # {}
        THEN [slots EXCEPT ![CHOOSE i \in free : \A j \in free : i <= j] =
                [ip |-> f.src_ip, mac |-> f.src_mac]]
        ELSE slots

\* An address that is there is left as it is; a full cache takes no more.
AddToCache(slots, f) ==
  LET free == Lookup(slots, None)
  IN  IF Lookup(slots, f.src_ip) = {} /\ free # {}
        THEN [slots EXCEPT ![CHOOSE i \in free : \A j \in free : i <= j] =
                [ip |-> f.src_ip, mac |-> f.src_mac]]
        ELSE slots

(***************************************************************************)
(* Frames reach the daemons that have opened their packet socket, but not  *)
(* the one that sent them.                                                 *)
(***************************************************************************)
Broadcast(n, f) ==
  [m \in Host |-> IF m # n /\ pc[m] # "down" THEN Append(frames[m], f)
                                             ELSE frames[m]]

Unicast_slip(to, f, queue) == queue

Unicast(to, f, queue) ==
  IF pc[to] # "down" THEN [queue EXCEPT ![to] = Append(@, f)] ELSE queue

(***************************************************************************)
(* Clients and the start of a daemon.                                      *)
(***************************************************************************)
Connect(c) ==
  /\ client[c] = "new"
  /\ LET n == ask[c].at
     IN  IF pc[n] = "down"
           THEN /\ client' = [client EXCEPT ![c] = "refused"]
                /\ UNCHANGED backlog
           ELSE /\ client' = [client EXCEPT ![c] = "waiting"]
                /\ backlog' = [backlog EXCEPT ![n] = Append(@, c)]
  /\ UNCHANGED <<ask, answer, pc, cache, serving, frames, lost, asked>>

Start(n) ==
  /\ pc[n] = "down"
  /\ pc' = [pc EXCEPT ![n] = "select"]
  /\ UNCHANGED <<ask, client, answer, cache, backlog, serving, frames, lost, asked>>

Answer_slip(c, mac) ==
  /\ answer' = [answer EXCEPT ![c] = mac]
  /\ UNCHANGED client

Answer(c, mac) ==
  /\ client' = [client EXCEPT ![c] = "done"]
  /\ answer' = [answer EXCEPT ![c] = mac]

(***************************************************************************)
(* The daemon.  The domain socket goes first.                              *)
(***************************************************************************)
ServeFromCache(n) ==
  /\ pc[n] = "select" /\ backlog[n] # <<>>
  /\ LET c == Head(backlog[n])
         hits == Lookup(cache[n], ask[c].for)
     IN  /\ hits # {}
         /\ Answer(c, cache[n][CHOOSE i \in hits : \A j \in hits : i <= j].mac)
  /\ backlog' = [backlog EXCEPT ![n] = Tail(@)]
  /\ UNCHANGED <<ask, pc, cache, serving, frames, lost, asked>>

Request(n) ==
  /\ pc[n] = "select" /\ backlog[n] # <<>>
  /\ LET c == Head(backlog[n])
     IN  /\ Lookup(cache[n], ask[c].for) = {}
         /\ frames' = Broadcast(n, [src_ip |-> n, src_mac |-> n,
                                    target_ip |-> ask[c].for])
         /\ serving' = [serving EXCEPT ![n] = {c}]
  /\ pc' = [pc EXCEPT ![n] = "recvfrom"]
  /\ backlog' = [backlog EXCEPT ![n] = Tail(@)]
  /\ asked' = asked \cup {n}
  /\ UNCHANGED <<ask, client, answer, cache, lost>>

\* The next frame, whatever it is, ends the wait: its sender goes into the
\* cache and its hardware address to the client.
TakeReply(n) ==
  /\ pc[n] = "recvfrom" /\ frames[n] # <<>>
  /\ LET f == Head(frames[n])
     IN  /\ cache' = [cache EXCEPT ![n] = AddToCache(@, f)]
         /\ \E c \in serving[n] : Answer(c, f.src_mac)
  /\ serving' = [serving EXCEPT ![n] = {}]
  /\ frames' = [frames EXCEPT ![n] = Tail(@)]
  /\ pc' = [pc EXCEPT ![n] = "select"]
  /\ UNCHANGED <<ask, backlog, lost, asked>>

\* Is a frame a request that this daemon has to answer?
ForMe_slip(n, f) == TRUE
ForMe(n, f) == f.target_ip = n

Reply_slip(n) == [src_ip |-> n, src_mac |-> None, target_ip |-> None]
Reply(n) == [src_ip |-> n, src_mac |-> n, target_ip |-> None]

\* A request for this VM is answered; any other frame is dropped, a reply
\* that comes too late included.
HandleFrame(n) ==
  /\ pc[n] = "select" /\ backlog[n] = <<>> /\ frames[n] # <<>>
  /\ LET f == Head(frames[n])
         rest == [frames EXCEPT ![n] = Tail(@)]
     IN  frames' = IF ForMe(n, f) THEN Unicast(f.src_mac, Reply(n), rest)
                                  ELSE rest
  /\ UNCHANGED <<ask, client, answer, pc, cache, backlog, serving, lost, asked>>

LoseFrame(n) ==
  /\ frames[n] # <<>> /\ frames' = [frames EXCEPT ![n] = Tail(@)]
  /\ lost < MaxLost /\ lost' = lost + 1
  /\ UNCHANGED <<ask, client, answer, pc, cache, backlog, serving, asked>>

Daemon(n) ==
  Start(n) \/ ServeFromCache(n) \/ Request(n) \/ TakeReply(n) \/ HandleFrame(n)

Next == \/ \E c \in Client : Connect(c)
        \/ \E n \in Host : Daemon(n) \/ LoseFrame(n)

Spec == Init /\ [][Next]_vars

\* The operating system runs every daemon that is not blocked.
FairSpec == Spec /\ \A n \in Host : WF_vars(Daemon(n))

(***************************************************************************)
(* What the daemons keep true.                                             *)
(***************************************************************************)
\* Every frame tells the truth about its sender, who is another VM.
FramesGenuine ==
  \A n \in Host : \A i \in DOMAIN frames[n] :
    frames[n][i].src_mac = frames[n][i].src_ip /\ frames[n][i].src_ip # n

\* The cache maps other VMs' addresses to their hardware addresses, each
\* address in one slot, and its slots are used from the first on: even when
\* a frame was taken for the reply to another request, lookup_arp_cache()
\* finds nothing wrong in it later.
CacheSound ==
  \A n \in Host : \A i \in Slot :
    /\ cache[n][i].mac = cache[n][i].ip
    /\ cache[n][i].ip # n
    /\ \A j \in Slot : i < j /\ cache[n][j].ip # None =>
         cache[n][i].ip \notin {None, cache[n][j].ip}

\* The inductive invariant of the caches.
CacheInv == TypeOK /\ FramesGenuine /\ CacheSound

\* A client that waits is in one place: queued once at the daemon of its VM,
\* or on the one connection that daemon has open.
At(queue, c) == {i \in DOMAIN queue : queue[i] = c}

InOnePlace(n, c) ==
  IF client[c] = "waiting" /\ ask[c].at = n
    THEN \/ c \in serving[n] /\ At(backlog[n], c) = {}
         \/ c \notin serving[n] /\ \E i \in DOMAIN backlog[n] : At(backlog[n], c) = {i}
    ELSE c \notin serving[n] /\ At(backlog[n], c) = {}

NoClientForgotten ==
  \A n \in Host : /\ pc[n] = "recvfrom" <=> serving[n] # {}
                  /\ \A c \in Client : InOnePlace(n, c)

\* A wrong answer takes a request of another VM's daemon that arrives before
\* the reply: while only one daemon asks, its clients get the right address,
\* whatever is lost and in whichever order the daemons run.
RightIfAlone ==
  \A c \in Client : client[c] = "done" /\ asked \subseteq {ask[c].at} =>
    answer[c] = ask[c].for

\* Why: then a frame for that daemon is the reply to its last request, and
\* as long as the request is still on its way there is none.
Serves(n, m) == \E c \in Client : serving[n] = {c} /\ ask[c].for = m

OwnClients ==
  \A n \in Host :
    /\ \A i \in DOMAIN backlog[n] : ask[backlog[n][i]].at = n
    /\ \A c \in serving[n] : ask[c].at = n /\ serving[n] = {c}
    /\ pc[n] = "recvfrom" => n \in asked
    /\ pc[n] # "recvfrom" => serving[n] = {}

OneExchange ==
  \A n \in Host : asked \subseteq {n} =>
    /\ Len(frames[n]) <= 1
    /\ \A i \in DOMAIN frames[n] : Serves(n, frames[n][i].src_ip)
    /\ \A m \in Host \ {n} : \A i \in DOMAIN frames[m] :
         /\ frames[m][i].src_ip = n
         /\ frames[m][i].target_ip = m =>
              /\ Serves(n, m) /\ frames[n] = <<>>
              /\ \A j \in DOMAIN frames[m] : frames[m][j].target_ip = m => j = i

RightInv == CacheInv /\ OwnClients /\ OneExchange /\ RightIfAlone

\* While only one daemon asks, for its clients' sake and not for its own VM
\* (which nobody answers), all run before it does, and no frame is lost ...
Undisturbed(n) ==
  /\ lost = 0 /\ asked \subseteq {n}
  /\ asked # {} => \A m \in Host : pc[m] # "down"
  /\ \A c \in Client : ask[c] # [at |-> n, for |-> n]

\* ... it does not block for ever in Recvfrom(): each of its clients is
\* answered, and rightly, also when the cache is full.
ServedIfAlone ==
  \A c \in Client :
    []Undisturbed(ask[c].at) =>
      (client[c] = "waiting" ~> client[c] = "done" /\ answer[c] = ask[c].for)

\* The daemons implement ArpService: whatever is lost, late or taken for
\* something else, a client is answered once at most, never with the address
\* of its own VM, and rightly while one daemon asks.
Service == INSTANCE ArpService
ServesClients == Service!Spec

\* sample_tour.c 27 prints what it is given as the "MAC addr for" the VM it
\* asked for.
AnswerIsRight ==
  \A c \in Client : client[c] = "done" => answer[c] = ask[c].for
=============================================================================
