------------------------------ MODULE ArpProofs ------------------------------
(***************************************************************************)
(* Theorems about ArpDaemon, for any VMs, clients and size of the cache.   *)
(***************************************************************************)
EXTENDS ArpDaemon, TLAPS, WellFoundedInduction

\* A set of natural numbers that is not empty has a least element.
LEMMA Least ==
  ASSUME NEW S, S \subseteq Nat, S # {}
  PROVE  \E i \in S : \A j \in S : i <= j
<1>1. PICK i \in S : \A j \in S : ~ (<<j, i>> \in OpToRel(<, Nat))
  BY NatLessThanWellFounded, WFMin, Zenon
<1>2. \A j \in S : ~ (j < i)
  BY <1>1 DEF OpToRel
<1> QED BY <1>2

LEMMA LeastSlot ==
  ASSUME NEW S, S \subseteq Slot, S # {}
  PROVE  LET i == CHOOSE i \in S : \A j \in S : i <= j
         IN  i \in S /\ i \in Slot /\ \A j \in S : i <= j
<1>1. S \subseteq Nat
  BY SlotsAssumption DEF Slot
<1>2. \E i \in S : \A j \in S : i <= j
  BY <1>1, Least, Zenon
<1> QED BY <1>2

\* What add_to_arp_cache() makes of a sound cache and a genuine frame.
SoundSlots(n, slots) ==
  \A i \in Slot :
    /\ slots[i].mac = slots[i].ip
    /\ slots[i].ip # n
    /\ \A j \in Slot : i < j /\ slots[j].ip # None =>
         slots[i].ip \notin {None, slots[j].ip}

LEMMA AddKeepsSound ==
  ASSUME NEW n \in Host, NEW slots \in [Slot -> Entry], SoundSlots(n, slots),
         NEW f \in Frame, f.src_mac = f.src_ip, f.src_ip # n
  PROVE  AddToCache(slots, f) \in [Slot -> Entry] /\ SoundSlots(n, AddToCache(slots, f))
<1> DEFINE free == Lookup(slots, None)
<1>1. CASE ~(Lookup(slots, f.src_ip) = {} /\ free # {})
  BY <1>1 DEF AddToCache
<1>2. CASE Lookup(slots, f.src_ip) = {} /\ free # {}
  <2> DEFINE k == CHOOSE i \in free : \A j \in free : i <= j
             e == [ip |-> f.src_ip, mac |-> f.src_mac]
  <2>1. free \subseteq Slot
    BY DEF Lookup
  <2>2. k \in free /\ k \in Slot /\ \A j \in free : k <= j
    <3> HIDE DEF free
    <3> QED BY <1>2, <2>1, LeastSlot
  <2>3. AddToCache(slots, f) = [slots EXCEPT ![k] = e]
    BY <1>2 DEF AddToCache
  <2>4. e \in Entry
    BY DEF Entry, Frame
  <2>5. f.src_ip \in Host /\ f.src_ip # None
    BY HostAssumption DEF Frame
  <2>6. \A i \in Slot : slots[i].ip # f.src_ip
    BY <1>2 DEF Lookup
  <2>7. \A i \in Slot : i < k => slots[i].ip # None
    <3> SUFFICES ASSUME NEW i \in Slot, i < k, slots[i].ip = None PROVE FALSE
      OBVIOUS
    <3>1. i \in free
      BY DEF Lookup
    <3>2. k <= i
      BY <2>2, <3>1
    <3>3. i \in Int /\ k \in Int
      BY <2>2, SlotsAssumption DEF Slot
    <3> HIDE DEF free, k
    <3> QED BY <3>2, <3>3
  <2>8. slots[k].ip = None
    BY <2>2 DEF Lookup
  <2> DEFINE new == [slots EXCEPT ![k] = e]
  <2> HIDE DEF k
  <2>9. new \in [Slot -> Entry]
    BY <2>2, <2>4
  <2>10. \A i \in Slot : new[i] = IF i = k THEN e ELSE slots[i]
    BY <2>2
  <2>11. e.ip = f.src_ip /\ e.mac = f.src_ip
    OBVIOUS
  <2> HIDE DEF new, e
  <2>12. SoundSlots(n, new)
    <3> SUFFICES ASSUME NEW i \in Slot, NEW j \in Slot
                 PROVE  /\ new[i].mac = new[i].ip
                        /\ new[i].ip # n
                        /\ i < j /\ new[j].ip # None =>
                             new[i].ip \notin {None, new[j].ip}
      BY DEF SoundSlots
    <3>0. i \in Int /\ j \in Int /\ k \in Int
      BY <2>2, SlotsAssumption DEF Slot
    <3>1. CASE i = k
      BY <3>0, <3>1, <2>2, <2>5, <2>6, <2>8, <2>10, <2>11 DEF SoundSlots
    <3>2. CASE i # k /\ j = k
      BY <3>0, <3>2, <2>5, <2>6, <2>7, <2>10, <2>11 DEF SoundSlots
    <3>3. CASE i # k /\ j # k
      BY <3>3, <2>10 DEF SoundSlots
    <3> QED BY <3>1, <3>2, <3>3
  <2> QED BY <2>3, <2>9, <2>12 DEF new
<1> QED BY <1>1, <1>2

\* A queue of frames, each genuine and from another VM than n.
Good(n, q) ==
  q \in Seq(Frame) /\ \A i \in DOMAIN q : q[i].src_mac = q[i].src_ip /\ q[i].src_ip # n

LEMMA GoodTail ==
  ASSUME NEW n, NEW q, Good(n, q), q # <<>>
  PROVE  /\ Good(n, Tail(q))
         /\ Head(q) \in Frame /\ Head(q).src_mac = Head(q).src_ip /\ Head(q).src_ip # n
<1>1. q \in Seq(Frame)
  BY DEF Good
<1>2. /\ Tail(q) \in Seq(Frame) /\ Head(q) = q[1] /\ 1 \in DOMAIN q
      /\ \A i \in DOMAIN Tail(q) : Tail(q)[i] = q[i+1] /\ i + 1 \in DOMAIN q
  BY <1>1
<1>3. q[1] \in Frame
  BY <1>1, <1>2
<1> QED BY <1>2, <1>3 DEF Good

LEMMA GoodAppend ==
  ASSUME NEW n, NEW q, Good(n, q), NEW f \in Frame, f.src_mac = f.src_ip, f.src_ip # n
  PROVE  Good(n, Append(q, f))
<1>1. q \in Seq(Frame)
  BY DEF Good
<1>2. /\ Append(q, f) \in Seq(Frame)
      /\ \A i \in DOMAIN Append(q, f) :
           \/ i \in DOMAIN q /\ Append(q, f)[i] = q[i]
           \/ Append(q, f)[i] = f
  BY <1>1
<1> QED BY <1>2 DEF Good

\* The frames in every queue stay genuine.
LEMMA FramesStep ==
  ASSUME TypeOK, FramesGenuine, [Next]_vars
  PROVE  frames' \in [Host -> Seq(Frame)] /\ FramesGenuine'
<1>1. frames \in [Host -> Seq(Frame)] /\ \A n \in Host : Good(n, frames[n])
  BY DEF TypeOK, FramesGenuine, Good
<1> SUFFICES frames' \in [Host -> Seq(Frame)] /\ \A n \in Host : Good(n, frames'[n])
  BY DEF FramesGenuine, Good
<1>2. ASSUME NEW n \in Host, frames[n] # <<>>, frames' = [frames EXCEPT ![n] = Tail(@)]
      PROVE  frames' \in [Host -> Seq(Frame)] /\ \A m \in Host : Good(m, frames'[m])
  <2>1. Tail(frames[n]) \in Seq(Frame) /\ Good(n, Tail(frames[n]))
    BY <1>1, <1>2, GoodTail DEF Good
  <2> QED BY <1>1, <1>2, <2>1
<1>3. ASSUME NEW n \in Host, Request(n)
      PROVE  frames' \in [Host -> Seq(Frame)] /\ \A m \in Host : Good(m, frames'[m])
  <2> DEFINE c == Head(backlog[n])
             f == [src_ip |-> n, src_mac |-> n, target_ip |-> ask[c].for]
  <2>1. c \in Client
    BY <1>3 DEF Request, TypeOK
  <2>2. ask[c].for \in Host
    BY <2>1, AsksAssumption DEF TypeOK, Ask
  <2>3. f \in Frame /\ f.src_mac = f.src_ip /\ f.src_ip = n
    BY <2>2 DEF Frame
  <2>4. frames' = [m \in Host |-> IF m # n /\ pc[m] # "down"
                                    THEN Append(frames[m], f) ELSE frames[m]]
    BY <1>3 DEF Request, Broadcast
  <2> HIDE DEF f
  <2>5. \A m \in Host : m # n => Append(frames[m], f) \in Seq(Frame) /\ Good(m, Append(frames[m], f))
    BY <1>1, <2>3, GoodAppend DEF Good
  <2> QED BY <1>1, <2>4, <2>5
<1>4. ASSUME NEW n \in Host, HandleFrame(n)
      PROVE  frames' \in [Host -> Seq(Frame)] /\ \A m \in Host : Good(m, frames'[m])
  <2> DEFINE f == Head(frames[n])
             rest == [frames EXCEPT ![n] = Tail(@)]
  <2>1. /\ Tail(frames[n]) \in Seq(Frame) /\ Good(n, Tail(frames[n]))
        /\ f \in Frame /\ f.src_mac = f.src_ip /\ f.src_ip # n
    BY <1>1, <1>4, GoodTail DEF Good, HandleFrame
  <2>2. rest \in [Host -> Seq(Frame)] /\ \A m \in Host : Good(m, rest[m])
    BY <1>1, <2>1
  <2>3. frames' = rest \/ frames' = Unicast(f.src_mac, Reply(n), rest)
    BY <1>4 DEF HandleFrame
  <2>4. f.src_mac \in Host /\ f.src_mac # n
    BY <2>1 DEF Frame
  <2>5. Reply(n) \in Frame /\ Reply(n).src_mac = n /\ Reply(n).src_ip = n
    BY DEF Reply, Frame
  <2>6. /\ Append(rest[f.src_mac], Reply(n)) \in Seq(Frame)
        /\ Good(f.src_mac, Append(rest[f.src_mac], Reply(n)))
    <3> HIDE DEF rest, f
    <3> QED BY <2>2, <2>4, <2>5, GoodAppend DEF Good
  <2> HIDE DEF rest, f
  <2> QED BY <2>2, <2>3, <2>4, <2>6 DEF Unicast
<1>5. ASSUME NEW n \in Host, TakeReply(n)
      PROVE  frames' \in [Host -> Seq(Frame)] /\ \A m \in Host : Good(m, frames'[m])
  BY <1>2, <1>5 DEF TakeReply
<1>6. ASSUME NEW n \in Host, LoseFrame(n)
      PROVE  frames' \in [Host -> Seq(Frame)] /\ \A m \in Host : Good(m, frames'[m])
  BY <1>2, <1>6 DEF LoseFrame
<1>7. CASE frames' = frames
  BY <1>1, <1>7
<1>8. ASSUME NEW c \in Client, Connect(c) PROVE frames' = frames
  BY <1>8 DEF Connect
<1>9. ASSUME NEW n \in Host, Start(n) \/ ServeFromCache(n) PROVE frames' = frames
  BY <1>9 DEF Start, ServeFromCache
<1>10. CASE UNCHANGED vars
  BY <1>7, <1>10 DEF vars
<1> QED BY <1>3, <1>4, <1>5, <1>6, <1>7, <1>8, <1>9, <1>10 DEF Next, Daemon

\* The other variables keep their types.
LEMMA TypeStep ==
  ASSUME TypeOK, FramesGenuine, CacheSound, [Next]_vars
  PROVE  TypeOK' /\ CacheSound'
<1>0. frames' \in [Host -> Seq(Frame)]
  BY FramesStep
<1>1. ASSUME NEW c \in Client, Connect(c) PROVE TypeOK' /\ CacheSound'
  <2>1. ask[c].at \in Host
    BY AsksAssumption DEF TypeOK, Ask
  <2>2. backlog' \in [Host -> Seq(Client)]
    <3>1. Append(backlog[ask[c].at], c) \in Seq(Client)
      BY <2>1 DEF TypeOK
    <3> QED BY <1>1, <2>1, <3>1 DEF Connect, TypeOK
  <2>3. client' \in [Client -> {"new", "waiting", "refused", "done"}]
    BY <1>1 DEF Connect, TypeOK
  <2> QED BY <1>0, <1>1, <2>2, <2>3 DEF Connect, TypeOK, CacheSound
<1>2. ASSUME NEW n \in Host, Start(n) PROVE TypeOK' /\ CacheSound'
  BY <1>0, <1>2 DEF Start, TypeOK, CacheSound
<1>3. ASSUME NEW n \in Host, ServeFromCache(n) PROVE TypeOK' /\ CacheSound'
  <2> DEFINE c == Head(backlog[n])
             hits == Lookup(cache[n], ask[c].for)
             k == CHOOSE i \in hits : \A j \in hits : i <= j
  <2>0. backlog[n] # <<>> /\ backlog' = [backlog EXCEPT ![n] = Tail(@)]
    BY <1>3 DEF ServeFromCache
  <2>1. c \in Client /\ backlog' \in [Host -> Seq(Client)]
    BY <2>0 DEF TypeOK
  <2>2. hits # {} /\ hits \subseteq Slot
    BY <1>3 DEF ServeFromCache, Lookup
  <2>3. k \in Slot
    <3> HIDE DEF hits
    <3> QED BY <2>2, LeastSlot
  <2>4. cache[n][k].mac \in Host \cup {None}
    <3> HIDE DEF k
    <3> QED BY <2>3 DEF TypeOK, Entry
  <2>5. client' = [client EXCEPT ![c] = "done"] /\ answer' = [answer EXCEPT ![c] = cache[n][k].mac]
    BY <1>3 DEF ServeFromCache, Answer
  <2> HIDE DEF c, k
  <2> QED BY <1>0, <1>3, <2>1, <2>4, <2>5 DEF ServeFromCache, TypeOK, CacheSound
<1>4. ASSUME NEW n \in Host, Request(n) PROVE TypeOK' /\ CacheSound'
  <2>1. Head(backlog[n]) \in Client /\ backlog' \in [Host -> Seq(Client)]
    BY <1>4 DEF Request, TypeOK
  <2> QED BY <1>0, <1>4, <2>1 DEF Request, TypeOK, CacheSound
<1>5. ASSUME NEW n \in Host, TakeReply(n) PROVE TypeOK' /\ CacheSound'
  <2> DEFINE f == Head(frames[n])
  <2>1. f \in Frame /\ f.src_mac = f.src_ip /\ f.src_ip # n
    BY <1>5, GoodTail DEF TakeReply, TypeOK, FramesGenuine, Good
  <2>2. cache[n] \in [Slot -> Entry] /\ SoundSlots(n, cache[n])
    BY DEF TypeOK, CacheSound, SoundSlots
  <2>3. AddToCache(cache[n], f) \in [Slot -> Entry] /\ SoundSlots(n, AddToCache(cache[n], f))
    BY <2>1, <2>2, AddKeepsSound
  <2>4. cache' = [cache EXCEPT ![n] = AddToCache(cache[n], f)]
    BY <1>5 DEF TakeReply
  <2>5. PICK c \in Client : /\ client' = [client EXCEPT ![c] = "done"]
                            /\ answer' = [answer EXCEPT ![c] = f.src_mac]
    BY <1>5 DEF TakeReply, Answer, TypeOK
  <2>6. f.src_mac \in Host
    BY <2>1 DEF Frame
  <2> HIDE DEF f
  <2>7. cache' \in [Host -> [Slot -> Entry]]
    BY <2>3, <2>4 DEF TypeOK
  <2>8. CacheSound'
    <3>1. \A m \in Host : SoundSlots(m, cache'[m])
      BY <2>3, <2>4 DEF TypeOK, CacheSound, SoundSlots
    <3> QED BY <3>1 DEF CacheSound, SoundSlots
  <2>9. client' \in [Client -> {"new", "waiting", "refused", "done"}]
    BY <2>5 DEF TypeOK
  <2>10. answer' \in [Client -> Host \cup {None}]
    BY <2>5, <2>6 DEF TypeOK
  <2>11. /\ pc' = [pc EXCEPT ![n] = "select"] /\ serving' = [serving EXCEPT ![n] = {}]
         /\ UNCHANGED <<ask, backlog, lost, asked>>
    BY <1>5 DEF TakeReply
  <2>12. /\ pc' \in [Host -> {"down", "select", "recvfrom"}]
         /\ serving' \in [Host -> SUBSET Client]
    BY <2>11 DEF TypeOK
  <2>13. frames' \in [Host -> Seq(Frame)]
    BY <1>0
  <2> QED BY <2>7, <2>8, <2>9, <2>10, <2>11, <2>12, <2>13 DEF TypeOK
<1>6. ASSUME NEW n \in Host, HandleFrame(n) PROVE TypeOK' /\ CacheSound'
  <2>1. UNCHANGED <<ask, client, answer, pc, cache, backlog, serving, lost, asked>>
    BY <1>6 DEF HandleFrame
  <2> QED BY <1>0, <2>1 DEF TypeOK, CacheSound
<1>7. ASSUME NEW n \in Host, LoseFrame(n) PROVE TypeOK' /\ CacheSound'
  BY <1>0, <1>7 DEF LoseFrame, TypeOK, CacheSound
<1>8. CASE UNCHANGED vars
  BY <1>8 DEF vars, TypeOK, CacheSound
<1> QED BY <1>1, <1>2, <1>3, <1>4, <1>5, <1>6, <1>7, <1>8 DEF Next, Daemon

LEMMA CacheInit == Init => CacheInv
<1> SUFFICES ASSUME Init PROVE CacheInv
  OBVIOUS
<1>1. TypeOK
  BY DEF Init, TypeOK, Entry
<1>2. FramesGenuine
  BY DEF Init, FramesGenuine
<1>3. CacheSound
  BY HostAssumption DEF Init, CacheSound
<1> QED BY <1>1, <1>2, <1>3 DEF CacheInv

\* The inductive invariant of the caches (frames are genuine, so entries are)
\* holds in every run of the daemons.
THEOREM CachesStaySound == Spec => []CacheInv
<1>1. CacheInv /\ [Next]_vars => CacheInv'
  BY FramesStep, TypeStep DEF CacheInv
<1> QED BY <1>1, CacheInit, PTL DEF Spec

\* Every variable of the daemons, the clients and the network has its type.
THEOREM TypesHold == Spec => []TypeOK
BY CachesStaySound, PTL DEF CacheInv

\* No reply taken for another's spoils a cache: every entry is right, no
\* address has two, and a cache is filled from its first slot on.
THEOREM CachesAreSound == Spec => []CacheSound
<1>1. CacheInv => CacheSound
  BY DEF CacheInv
<1> QED BY <1>1, CachesStaySound, PTL

(***************************************************************************)
(* While one daemon asks.                                                  *)
(***************************************************************************)
LEMMA OwnClientsStep ==
  ASSUME TypeOK, OwnClients, [Next]_vars
  PROVE  OwnClients'
<1>1. ASSUME NEW c \in Client, Connect(c) PROVE OwnClients'
  <2>1. backlog' = backlog \/ backlog' = [backlog EXCEPT ![ask[c].at] = Append(@, c)]
    BY <1>1 DEF Connect
  <2>2. ask[c].at \in Host
    BY AsksAssumption DEF TypeOK, Ask
  <2>3. \A n \in Host : \A i \in DOMAIN backlog'[n] : ask[backlog'[n][i]].at = n
    <3> SUFFICES ASSUME NEW n \in Host, NEW i \in DOMAIN backlog'[n]
                 PROVE  ask[backlog'[n][i]].at = n
      OBVIOUS
    <3>1. CASE backlog'[n] = backlog[n]
      BY <3>1 DEF OwnClients
    <3>2. CASE n = ask[c].at /\ backlog'[n] = Append(backlog[n], c)
      <4>1. backlog[n] \in Seq(Client)
        BY DEF TypeOK
      <4>2. \/ i \in DOMAIN backlog[n] /\ backlog'[n][i] = backlog[n][i]
            \/ backlog'[n][i] = c
        BY <3>2, <4>1
      <4> QED BY <3>2, <4>2 DEF OwnClients
    <3> QED BY <2>1, <2>2, <3>1, <3>2 DEF TypeOK
  <2> QED BY <1>1, <2>3 DEF Connect, OwnClients
<1>2. ASSUME NEW n \in Host, backlog[n] # <<>>, backlog' = [backlog EXCEPT ![n] = Tail(@)]
      PROVE  /\ \A m \in Host : \A i \in DOMAIN backlog'[m] : ask[backlog'[m][i]].at = m
             /\ ask[Head(backlog[n])].at = n
  <2>1. backlog[n] \in Seq(Client)
    BY DEF TypeOK
  <2>2. /\ \A i \in DOMAIN Tail(backlog[n]) :
             i + 1 \in DOMAIN backlog[n] /\ Tail(backlog[n])[i] = backlog[n][i+1]
        /\ 1 \in DOMAIN backlog[n] /\ Head(backlog[n]) = backlog[n][1]
    BY <1>2, <2>1
  <2>3. \A m \in Host : backlog'[m] = IF m = n THEN Tail(backlog[n]) ELSE backlog[m]
    BY <1>2 DEF TypeOK
  <2>4. ask[Head(backlog[n])].at = n
    BY <2>2 DEF OwnClients
  <2>5. ASSUME NEW m \in Host, NEW i \in DOMAIN backlog'[m]
        PROVE  ask[backlog'[m][i]].at = m
    <3>1. CASE m = n
      <4>1. backlog'[m] = Tail(backlog[n])
        BY <2>3, <3>1
      <4>2. i + 1 \in DOMAIN backlog[n] /\ backlog'[m][i] = backlog[n][i+1]
        BY <2>2, <2>5, <4>1
      <4> QED BY <3>1, <4>2 DEF OwnClients
    <3>2. CASE m # n
      BY <2>3, <2>5, <3>2 DEF OwnClients
    <3> QED BY <3>1, <3>2
  <2> QED BY <2>4, <2>5
<1>3. ASSUME NEW n \in Host, ServeFromCache(n) PROVE OwnClients'
  <2>1. backlog[n] # <<>> /\ backlog' = [backlog EXCEPT ![n] = Tail(@)]
    BY <1>3 DEF ServeFromCache
  <2> QED BY <1>2, <1>3, <2>1 DEF ServeFromCache, OwnClients
<1>4. ASSUME NEW n \in Host, Request(n) PROVE OwnClients'
  <2>1. backlog[n] # <<>> /\ backlog' = [backlog EXCEPT ![n] = Tail(@)]
    BY <1>4 DEF Request
  <2> QED BY <1>2, <1>4, <2>1 DEF Request, OwnClients, TypeOK
<1>5. ASSUME NEW n \in Host, TakeReply(n) PROVE OwnClients'
  BY <1>5 DEF TakeReply, OwnClients, TypeOK
<1>6. ASSUME NEW n \in Host, Start(n) PROVE OwnClients'
  BY <1>6 DEF Start, OwnClients, TypeOK
<1>7. ASSUME NEW n \in Host, HandleFrame(n) \/ LoseFrame(n) PROVE OwnClients'
  BY <1>7 DEF HandleFrame, LoseFrame, OwnClients
<1>8. CASE UNCHANGED vars
  BY <1>8 DEF vars, OwnClients
<1> QED BY <1>1, <1>3, <1>4, <1>5, <1>6, <1>7, <1>8 DEF Next, Daemon

\* One daemon's exchange, as OneExchange says it of each.
Exchange(n) ==
  /\ Len(frames[n]) <= 1
  /\ \A i \in DOMAIN frames[n] : Serves(n, frames[n][i].src_ip)
  /\ \A m \in Host \ {n} : \A i \in DOMAIN frames[m] :
       /\ frames[m][i].src_ip = n
       /\ frames[m][i].target_ip = m =>
            /\ Serves(n, m) /\ frames[n] = <<>>
            /\ \A j \in DOMAIN frames[m] : frames[m][j].target_ip = m => j = i

LEMMA ExchangeOfRequest ==
  ASSUME TypeOK, OwnClients, NEW n \in Host, Exchange(n), Request(n)
  PROVE  Exchange(n)'
<1> DEFINE c == Head(backlog[n])
           f == [src_ip |-> n, src_mac |-> n, target_ip |-> ask[c].for]
<1>1. c \in Client
  BY DEF Request, TypeOK
<1>2. /\ serving' = [serving EXCEPT ![n] = {c}] /\ ask' = ask
      /\ frames' = Broadcast(n, f) /\ serving[n] = {}
  BY DEF Request, OwnClients
<1>3. \A m \in Host : ~ Serves(n, m)
  BY <1>2 DEF Serves
<1>4. frames \in [Host -> Seq(Frame)]
  BY DEF TypeOK
<1>5. frames[n] = <<>>
  <2>1. frames[n] \in Seq(Frame)
    BY <1>4
  <2>2. CASE frames[n] # <<>>
    <3>1. 1 \in DOMAIN frames[n] /\ frames[n][1] \in Frame
      BY <2>1, <2>2
    <3> QED BY <1>3, <3>1 DEF Exchange, Frame
  <2> QED BY <2>2
<1> HIDE DEF c
<1>6. frames'[n] = <<>>
  BY <1>2, <1>5 DEF Broadcast
<1>7. \A m \in Host : ask[c].for = m => Serves(n, m)'
  BY <1>1, <1>2 DEF Serves, TypeOK
<1>8. ASSUME NEW m \in Host \ {n}, NEW i \in DOMAIN frames'[m]
      PROVE  /\ frames'[m][i].src_ip = n
             /\ frames'[m][i].target_ip = m =>
                  ask[c].for = m /\ \A j \in DOMAIN frames'[m] : frames'[m][j].target_ip = m => j = i
  <2>1. \A j \in DOMAIN frames[m] : frames[m][j].src_ip = n /\ frames[m][j].target_ip # m
    BY <1>3 DEF Exchange
  <2>2. CASE frames'[m] = frames[m]
    BY <2>1, <2>2, <1>8
  <2>3. CASE frames'[m] = Append(frames[m], f)
    <3>1. frames[m] \in Seq(Frame)
      BY <1>4
    <3> HIDE DEF f
    <3>2. \A j \in DOMAIN frames'[m] :
            \/ j \in DOMAIN frames[m] /\ frames'[m][j] = frames[m][j]
            \/ j = Len(frames[m]) + 1 /\ frames'[m][j] = f
      BY <2>3, <3>1
    <3>3. f.src_ip = n /\ f.target_ip = ask[c].for
      BY DEF f
    <3> QED BY <2>1, <3>2, <3>3, <1>8
  <2>4. frames'[m] = frames[m] \/ frames'[m] = Append(frames[m], f)
    BY <1>2, <1>8 DEF Broadcast
  <2> QED BY <2>2, <2>3, <2>4
<1> QED BY <1>6, <1>7, <1>8 DEF Exchange

LEMMA ExchangeOfDrop ==
  ASSUME TypeOK, NEW n \in Host, Exchange(n), NEW m \in Host, frames[m] # <<>>,
         frames' = [frames EXCEPT ![m] = Tail(@)], UNCHANGED <<ask, serving>>
  PROVE  Exchange(n)'
<1>1. frames[m] \in Seq(Frame)
  BY DEF TypeOK
<1>2. /\ \A i \in DOMAIN Tail(frames[m]) :
           i \in Nat /\ i + 1 \in DOMAIN frames[m] /\ Tail(frames[m])[i] = frames[m][i+1]
      /\ Len(Tail(frames[m])) <= Len(frames[m])
  BY <1>1
<1>3. \A k \in Host : frames'[k] = IF k = m THEN Tail(frames[m]) ELSE frames[k]
  BY DEF TypeOK
<1>4. \A x : Serves(n, x)' <=> Serves(n, x)
  BY DEF Serves
<1>5. Len(frames'[n]) <= 1
  <2>1. CASE m = n
    <3>1. Len(Tail(frames[m])) \in Nat /\ Len(frames[m]) \in Nat /\ Len(frames[m]) <= 1
      BY <1>1, <2>1 DEF Exchange
    <3> QED BY <1>2, <1>3, <2>1, <3>1
  <2>2. CASE m # n
    BY <1>3, <2>2 DEF Exchange
  <2> QED BY <2>1, <2>2
<1>6. ASSUME NEW i \in DOMAIN frames'[n]
      PROVE  Serves(n, frames'[n][i].src_ip)
  <2>1. CASE m = n
    BY <1>2, <1>3, <1>6, <2>1 DEF Exchange
  <2>2. CASE m # n
    BY <1>3, <1>6, <2>2 DEF Exchange
  <2> QED BY <2>1, <2>2
<1>7. ASSUME NEW k \in Host \ {n}, NEW i \in DOMAIN frames'[k]
      PROVE  /\ frames'[k][i].src_ip = n
             /\ frames'[k][i].target_ip = k =>
                  /\ Serves(n, k)' /\ frames'[n] = <<>>
                  /\ \A j \in DOMAIN frames'[k] : frames'[k][j].target_ip = k => j = i
  <2>1. CASE k # m
    <3>1. frames'[k] = frames[k] /\ (frames[n] = <<>> => frames'[n] = <<>>)
      BY <1>3, <2>1
    <3>2. i \in DOMAIN frames[k]
      BY <1>7, <3>1
    <3>3. /\ frames[k][i].src_ip = n
          /\ frames[k][i].target_ip = k =>
               /\ Serves(n, k) /\ frames[n] = <<>>
               /\ \A j \in DOMAIN frames[k] : frames[k][j].target_ip = k => j = i
      BY <3>2 DEF Exchange
    <3> QED BY <1>4, <3>1, <3>3
  <2>2. CASE k = m
    <3>1. frames'[n] = frames[n]
      BY <1>3, <2>2, <1>7
    <3>2. \A j \in DOMAIN frames'[k] : j \in Nat /\ j + 1 \in DOMAIN frames[k] /\ frames'[k][j] = frames[k][j+1]
      BY <1>2, <1>3, <2>2
    <3>3. frames'[k][i].src_ip = n
      BY <3>2, <1>7 DEF Exchange
    <3>4. ASSUME frames'[k][i].target_ip = k
          PROVE  /\ Serves(n, k)' /\ frames'[n] = <<>>
                 /\ \A j \in DOMAIN frames'[k] : frames'[k][j].target_ip = k => j + 1 = i + 1
      BY <1>4, <1>7, <3>1, <3>2, <3>4 DEF Exchange
    <3>5. \A j \in DOMAIN frames'[k] : j + 1 = i + 1 => j = i
      BY <3>2, <1>7
    <3> QED BY <3>3, <3>4, <3>5
  <2> QED BY <2>1, <2>2
<1> QED BY <1>4, <1>5, <1>6, <1>7 DEF Exchange

LEMMA ExchangeOfTakeReply ==
  ASSUME TypeOK, OwnClients, NEW n \in Host, Exchange(n), TakeReply(n)
  PROVE  Exchange(n)'
<1>1. frames[n] \in Seq(Frame) /\ frames[n] # <<>> /\ Len(frames[n]) <= 1
  BY DEF TypeOK, TakeReply, Exchange
<1>2. Tail(frames[n]) = <<>>
  BY <1>1
<1>3. \A m \in Host : frames'[m] = IF m = n THEN <<>> ELSE frames[m]
  BY <1>2 DEF TakeReply, TypeOK
<1>4. \A m \in Host \ {n} : \A i \in DOMAIN frames[m] :
        frames[m][i].src_ip = n /\ frames[m][i].target_ip # m
  BY <1>1 DEF Exchange
<1> QED BY <1>3, <1>4 DEF Exchange

LEMMA ExchangeOfHandleFrame ==
  ASSUME TypeOK, FramesGenuine, OwnClients, NEW n \in Host, Exchange(n),
         NEW m \in Host, HandleFrame(m)
  PROVE  Exchange(n)'
<1> DEFINE f == Head(frames[m])
           rest == [frames EXCEPT ![m] = Tail(@)]
<1>1. /\ frames[m] \in Seq(Frame) /\ frames[m] # <<>> /\ serving[m] = {}
      /\ UNCHANGED <<ask, serving, pc>>
  BY DEF TypeOK, HandleFrame, OwnClients
<1>2. 1 \in DOMAIN frames[m] /\ f = frames[m][1] /\ f \in Frame
  BY <1>1
<1>3. m # n
  BY <1>1, <1>2 DEF Exchange, Serves
<1>4. f.src_ip = n /\ f.src_mac = n
  BY <1>2, <1>3 DEF Exchange, FramesGenuine
<1>5. CASE frames' = rest
  BY <1>1, <1>5, ExchangeOfDrop
<1>6. CASE f.target_ip = m /\ frames' = [rest EXCEPT ![n] = Append(@, Reply(m))]
  <2>1. Serves(n, m) /\ frames[n] = <<>>
        /\ \A j \in DOMAIN frames[m] : frames[m][j].target_ip = m => j = 1
    BY <1>2, <1>3, <1>6 DEF Exchange
  <2>2. \A k \in Host : frames'[k] = IF k = n THEN <<Reply(m)>>
                                     ELSE IF k = m THEN Tail(frames[m]) ELSE frames[k]
    <3>1. \A k \in Host : rest[k] = IF k = m THEN Tail(frames[m]) ELSE frames[k]
      BY DEF TypeOK
    <3>2. rest \in [Host -> Seq(Frame)]
      BY <1>1 DEF TypeOK
    <3>3. rest[n] = <<>>
      BY <1>3, <2>1, <3>1
    <3> DEFINE r == Reply(m)
    <3> HIDE DEF rest, r
    <3>4. Append(rest[n], r) = <<r>>
      BY <3>3
    <3>5. frames' = [rest EXCEPT ![n] = Append(@, r)]
      BY <1>6 DEF r
    <3>6. \A k \in Host : frames'[k] = IF k = n THEN <<r>> ELSE rest[k]
      BY <3>2, <3>4, <3>5
    <3> QED BY <3>1, <3>6 DEF r
  <2>3. \A x : Serves(n, x)' <=> Serves(n, x)
    BY <1>1 DEF Serves
  <2>4. \A x : Serves(n, x) => x = m
    BY <2>1 DEF Serves
  <2>5. Reply(m).src_ip = m
    BY DEF Reply
  <2>6. Len(frames'[n]) <= 1 /\ \A i \in DOMAIN frames'[n] : frames'[n][i].src_ip = m
    <3>1. frames'[n] = <<Reply(m)>>
      BY <2>2
    <3> HIDE DEF f, rest
    <3> DEFINE r == Reply(m)
    <3>2. r.src_ip = m
      BY <2>5
    <3>3. frames'[n] = <<r>>
      BY <3>1
    <3> HIDE DEF r
    <3> QED BY <3>2, <3>3
  <2>7. \A j \in DOMAIN Tail(frames[m]) :
          j \in Nat /\ j # 0 /\ j + 1 \in DOMAIN frames[m] /\ Tail(frames[m])[j] = frames[m][j+1]
    BY <1>1
  <2>8. ASSUME NEW k \in Host \ {n}, NEW i \in DOMAIN frames'[k]
        PROVE  frames'[k][i].src_ip = n /\ frames'[k][i].target_ip # k
    <3>1. CASE k = m
      <4>1. i \in Nat /\ i # 0 /\ i + 1 \in DOMAIN frames[m] /\ frames'[k][i] = frames[m][i+1]
        BY <1>3, <2>2, <2>7, <2>8, <3>1
      <4>2. i + 1 # 1
        BY <4>1
      <4> QED BY <1>3, <2>1, <3>1, <4>1, <4>2 DEF Exchange
    <3>2. CASE k # m
      <4>1. frames'[k] = frames[k]
        BY <2>2, <2>8, <3>2
      <4> QED BY <2>4, <2>8, <3>2, <4>1 DEF Exchange
    <3> QED BY <3>1, <3>2
  <2> QED BY <2>1, <2>3, <2>6, <2>8 DEF Exchange
<1>7. frames' = rest \/ (f.target_ip = m /\ frames' = [rest EXCEPT ![n] = Append(@, Reply(m))])
  BY <1>4 DEF HandleFrame, ForMe, Unicast
<1> QED BY <1>5, <1>6, <1>7

LEMMA ExchangeStep ==
  ASSUME TypeOK, FramesGenuine, OwnClients, OneExchange, [Next]_vars
  PROVE  OneExchange'
<1> SUFFICES ASSUME NEW n \in Host, asked' \subseteq {n} PROVE Exchange(n)'
  BY DEF OneExchange, Exchange
<1>1. asked \subseteq asked'
  BY DEF Next, Daemon, Connect, Start, ServeFromCache, Request, TakeReply,
         HandleFrame, LoseFrame, vars
<1>2. Exchange(n)
  BY <1>1 DEF OneExchange, Exchange
<1>3. CASE UNCHANGED <<ask, serving, frames>>
  BY <1>2, <1>3 DEF Exchange, Serves
<1>4. ASSUME NEW m \in Host, Request(m) PROVE Exchange(n)'
  <2>1. m = n
    BY <1>4 DEF Request
  <2> QED BY <1>2, <1>4, <2>1, ExchangeOfRequest
<1>5. ASSUME NEW m \in Host, TakeReply(m) PROVE Exchange(n)'
  <2>1. m = n
    BY <1>1, <1>5 DEF TakeReply, OwnClients
  <2> QED BY <1>2, <1>5, <2>1, ExchangeOfTakeReply
<1>6. ASSUME NEW m \in Host, HandleFrame(m) PROVE Exchange(n)'
  BY <1>2, <1>6, ExchangeOfHandleFrame
<1>7. ASSUME NEW m \in Host, LoseFrame(m) PROVE Exchange(n)'
  BY <1>2, <1>7, ExchangeOfDrop DEF LoseFrame
<1>8. ASSUME NEW c \in Client, Connect(c) PROVE Exchange(n)'
  BY <1>3, <1>8 DEF Connect
<1>9. ASSUME NEW m \in Host, Start(m) \/ ServeFromCache(m) PROVE Exchange(n)'
  BY <1>3, <1>9 DEF Start, ServeFromCache
<1>10. CASE UNCHANGED vars
  BY <1>3, <1>10 DEF vars
<1> QED BY <1>4, <1>5, <1>6, <1>7, <1>8, <1>9, <1>10 DEF Next, Daemon

LEMMA RightStep ==
  ASSUME RightInv, [Next]_vars
  PROVE  RightIfAlone'
<1> USE DEF RightInv, CacheInv
<1> SUFFICES ASSUME NEW c \in Client, client'[c] = "done", asked' \subseteq {ask'[c].at}
             PROVE  answer'[c] = ask'[c].for
  BY DEF RightIfAlone
<1>1. ask' = ask /\ asked \subseteq asked'
  BY DEF Next, Daemon, Connect, Start, ServeFromCache, Request, TakeReply,
         HandleFrame, LoseFrame, vars
<1>2. CASE client[c] = "done" /\ answer'[c] = answer[c]
  BY <1>1, <1>2 DEF RightIfAlone
<1>3. ASSUME NEW d \in Client, NEW mac, Answer(d, mac), mac = ask[c].for \/ d # c
      PROVE  answer'[c] = ask'[c].for
  BY <1>1, <1>2, <1>3 DEF Answer, TypeOK
<1>4. ASSUME NEW n \in Host, ServeFromCache(n) PROVE answer'[c] = ask'[c].for
  <2> DEFINE d == Head(backlog[n])
             hits == Lookup(cache[n], ask[d].for)
             k == CHOOSE i \in hits : \A j \in hits : i <= j
  <2>1. hits # {} /\ Answer(d, cache[n][k].mac) /\ backlog[n] # <<>>
    BY <1>4 DEF ServeFromCache
  <2>2. d \in Client
    <3>1. backlog[n] # <<>>
      BY <2>1
    <3>2. backlog[n] \in Seq(Client)
      <4> HIDE DEF d, hits, k
      <4> QED BY DEF TypeOK
    <3> QED BY ONLY <3>1, <3>2
  <2>3. hits \subseteq Slot
    BY DEF Lookup
  <2>4. k \in hits /\ k \in Slot
    <3> HIDE DEF hits
    <3> QED BY <2>1, <2>3, LeastSlot
  <2>5. cache[n][k].mac = ask[d].for
    <3>1. cache[n][k].ip = ask[d].for
      <4> HIDE DEF k
      <4> QED BY <2>4 DEF Lookup
    <3> HIDE DEF k
    <3> QED BY <3>1, <2>4 DEF CacheSound
  <2> HIDE DEF d, k
  <2> QED BY <1>3, <2>1, <2>2, <2>5
<1>5. ASSUME NEW n \in Host, TakeReply(n) PROVE answer'[c] = ask'[c].for
  <2> DEFINE f == Head(frames[n])
  <2>1. PICK d \in serving[n] : Answer(d, f.src_mac)
    BY <1>5 DEF TakeReply
  <2>2. d \in Client /\ ask[d].at = n /\ serving[n] = {d} /\ n \in asked
    BY <1>5, <2>1 DEF TakeReply, TypeOK, OwnClients
  <2>3. CASE d # c
    BY <1>3, <2>1, <2>2, <2>3
  <2>4. CASE d = c
    <3>1. Exchange(n)
      BY <1>1, <2>2, <2>4 DEF OneExchange, Exchange
    <3>2. frames[n] \in Seq(Frame) /\ frames[n] # <<>>
      BY <1>5 DEF TakeReply, TypeOK
    <3>3. 1 \in DOMAIN frames[n] /\ f = frames[n][1]
      BY <3>2
    <3>4. Serves(n, f.src_ip)
      BY <3>1, <3>3 DEF Exchange
    <3>5. f.src_mac = ask[c].for
      BY <2>2, <2>4, <3>3, <3>4 DEF Serves, FramesGenuine
    <3> QED BY <1>3, <2>1, <2>2, <3>5
  <2> QED BY <2>3, <2>4
<1>6. ASSUME NEW d \in Client, Connect(d) PROVE answer'[c] = ask'[c].for
  BY <1>2, <1>6 DEF Connect, TypeOK
<1>7. ASSUME NEW n \in Host,
             Start(n) \/ Request(n) \/ HandleFrame(n) \/ LoseFrame(n)
      PROVE  answer'[c] = ask'[c].for
  BY <1>2, <1>7 DEF Start, Request, HandleFrame, LoseFrame
<1>8. CASE UNCHANGED vars
  BY <1>2, <1>8 DEF vars
<1> QED BY <1>4, <1>5, <1>6, <1>7, <1>8 DEF Next, Daemon

LEMMA RightInit == Init => RightInv
<1> SUFFICES ASSUME Init PROVE RightInv
  OBVIOUS
<1>1. OwnClients /\ OneExchange /\ RightIfAlone
  BY DEF Init, OwnClients, OneExchange, RightIfAlone
<1> QED BY <1>1, CacheInit DEF RightInv

LEMMA RightInvStep == RightInv /\ [Next]_vars => RightInv'
BY FramesStep, TypeStep, OwnClientsStep, ExchangeStep, RightStep
   DEF RightInv, CacheInv

\* As long as a single daemon sends requests, it gives its clients the right
\* addresses.
THEOREM AloneIsRight == Spec => []RightIfAlone
<1>1. RightInv => RightIfAlone
  BY DEF RightInv
<1> QED BY <1>1, RightInit, RightInvStep, PTL DEF Spec

(***************************************************************************)
(* Where the clients are.                                                  *)
(***************************************************************************)
LEMMA AtTail ==
  ASSUME NEW q \in Seq(Client), q # <<>>, NEW c
  PROVE  /\ At(Tail(q), c) = {i - 1 : i \in At(q, c) \ {1}}
         /\ 1 \in DOMAIN q /\ Head(q) = q[1]
         /\ \A i \in DOMAIN q : i \in Int /\ (i # 1 => i - 1 \in DOMAIN Tail(q))
<1>1. /\ DOMAIN Tail(q) = 1..(Len(q) - 1) /\ DOMAIN q = 1..Len(q)
      /\ Len(q) \in Nat /\ Len(q) > 0 /\ Head(q) = q[1]
      /\ \A i \in 1..(Len(q) - 1) : Tail(q)[i] = q[i + 1]
  OBVIOUS
<1>2. ASSUME NEW i \in At(Tail(q), c) PROVE i \in {j - 1 : j \in At(q, c) \ {1}}
  <2>1. i + 1 \in At(q, c) \ {1} /\ i = (i + 1) - 1
    BY <1>1 DEF At
  <2> QED BY <2>1
<1>3. ASSUME NEW i \in At(q, c) \ {1} PROVE i - 1 \in At(Tail(q), c)
  BY <1>1 DEF At
<1>4. \A i \in DOMAIN q : i \in Int /\ (i # 1 => i - 1 \in DOMAIN Tail(q))
  BY <1>1
<1>5. 1 \in DOMAIN q
  BY <1>1
<1> QED BY <1>1, <1>2, <1>3, <1>4, <1>5

LEMMA AtAppend ==
  ASSUME NEW q \in Seq(Client), NEW d \in Client, NEW c
  PROVE  /\ At(Append(q, d), c) = At(q, c) \cup (IF c = d THEN {Len(q) + 1} ELSE {})
         /\ Len(q) + 1 \in DOMAIN Append(q, d)
         /\ \A i \in DOMAIN q : i \in DOMAIN Append(q, d)
<1>1. /\ DOMAIN Append(q, d) = 1..(Len(q) + 1) /\ DOMAIN q = 1..Len(q)
      /\ Len(q) \in Nat /\ Append(q, d)[Len(q) + 1] = d
      /\ \A i \in 1..Len(q) : Append(q, d)[i] = q[i]
  OBVIOUS
<1>2. \A i \in 1..(Len(q) + 1) : i \in 1..Len(q) \/ i = Len(q) + 1
  BY <1>1
<1>3. Len(q) + 1 \in 1..(Len(q) + 1) /\ Len(q) + 1 \notin 1..Len(q)
  BY <1>1
<1>4. \A i \in 1..Len(q) : i \in 1..(Len(q) + 1)
  BY <1>1
<1> DEFINE a == Append(q, d)
<1> HIDE DEF a
<1>5. \A i : i \in At(a, c) <=> i \in At(q, c) \/ (c = d /\ i = Len(q) + 1)
  BY <1>1, <1>2, <1>3, <1>4 DEF At, a
<1> QED BY <1>1, <1>3, <1>4, <1>5 DEF a

\* A step that takes a client from no place and puts it in none.
LEMMA StaysInPlace ==
  ASSUME NEW m \in Host, NEW d \in Client, InOnePlace(m, d),
         client'[d] = client[d], ask' = ask, d \in serving'[m] <=> d \in serving[m],
         At(backlog[m], d) = {} => At(backlog'[m], d) = {},
         (\E i \in DOMAIN backlog[m] : At(backlog[m], d) = {i}) =>
           \E i \in DOMAIN backlog'[m] : At(backlog'[m], d) = {i}
  PROVE  InOnePlace(m, d)'
<1> DEFINE one == \E i \in DOMAIN backlog[m] : At(backlog[m], d) = {i}
<1> DEFINE oneNext == \E i \in DOMAIN backlog'[m] : At(backlog'[m], d) = {i}
<1>1. InOnePlace(m, d) <=>
        IF client[d] = "waiting" /\ ask[d].at = m
          THEN \/ d \in serving[m] /\ At(backlog[m], d) = {}
               \/ d \notin serving[m] /\ one
          ELSE d \notin serving[m] /\ At(backlog[m], d) = {}
  BY DEF InOnePlace
<1>2. InOnePlace(m, d)' <=>
        IF client'[d] = "waiting" /\ ask'[d].at = m
          THEN \/ d \in serving'[m] /\ At(backlog'[m], d) = {}
               \/ d \notin serving'[m] /\ oneNext
          ELSE d \notin serving'[m] /\ At(backlog'[m], d) = {}
  BY DEF InOnePlace
<1>3. one => oneNext
  OBVIOUS
<1> HIDE DEF one, oneNext
<1> QED BY <1>1, <1>2, <1>3

\* The client at the head of a backlog leaves it.
LEMMA HeadLeaves ==
  ASSUME TypeOK, OwnClients, NoClientForgotten,
         NEW n \in Host, backlog[n] # <<>>, backlog' = [backlog EXCEPT ![n] = Tail(@)]
  PROVE  LET c == Head(backlog[n])
         IN  /\ c \in Client /\ client[c] = "waiting" /\ ask[c].at = n
             /\ c \notin serving[n]
             /\ At(backlog'[n], c) = {}
             /\ \A m \in Host, d \in Client : m # n \/ d # c =>
                  /\ At(backlog[m], d) = {} => At(backlog'[m], d) = {}
                  /\ (\E i \in DOMAIN backlog[m] : At(backlog[m], d) = {i}) =>
                       \E i \in DOMAIN backlog'[m] : At(backlog'[m], d) = {i}
<1> DEFINE q == backlog[n]
           c == Head(q)
<1>1. q \in Seq(Client) /\ q # <<>>
  BY DEF TypeOK
<1>2. \A m \in Host : backlog'[m] = IF m = n THEN Tail(q) ELSE backlog[m]
  BY DEF TypeOK
<1> HIDE DEF q
<1>3. 1 \in DOMAIN q /\ c = q[1] /\ \A i \in DOMAIN q : i \in Int /\ (i # 1 => i - 1 \in DOMAIN Tail(q))
  BY <1>1, AtTail
<1>4. c \in Client
  BY <1>1
<1> HIDE DEF c
<1>5. 1 \in At(q, c)
  BY <1>3 DEF At
<1>6. client[c] = "waiting" /\ ask[c].at = n /\ c \notin serving[n] /\ At(q, c) = {1}
  <2>1. InOnePlace(n, c) /\ At(q, c) # {}
    BY <1>4, <1>5 DEF NoClientForgotten
  <2>2. /\ client[c] = "waiting" /\ ask[c].at = n /\ c \notin serving[n]
        /\ \E i : At(q, c) = {i}
    BY <2>1 DEF InOnePlace, q
  <2> QED BY <1>5, <2>2
<1>7. \A d : At(Tail(q), d) = {i - 1 : i \in At(q, d) \ {1}}
  BY <1>1, AtTail
<1>8. At(Tail(q), c) = {}
  BY <1>6, <1>7
<1>9. ASSUME NEW d \in Client, d # c, NEW i \in DOMAIN q, At(q, d) = {i}
      PROVE  \E j \in DOMAIN Tail(q) : At(Tail(q), d) = {j}
  <2>1. i # 1
    BY <1>3, <1>9 DEF At
  <2>2. {j - 1 : j \in {i} \ {1}} = {i - 1}
    BY <2>1
  <2>3. i - 1 \in DOMAIN Tail(q) /\ At(Tail(q), d) = {i - 1}
    BY <1>3, <1>7, <1>9, <2>1, <2>2
  <2> QED BY <2>3
<1>10. \A d : At(q, d) = {} => At(Tail(q), d) = {}
  BY <1>7
<1>11. At(backlog'[n], c) = {}
  BY <1>2, <1>8
<1>12. ASSUME NEW m \in Host, NEW d \in Client, m # n \/ d # c
       PROVE  /\ At(backlog[m], d) = {} => At(backlog'[m], d) = {}
              /\ (\E i \in DOMAIN backlog[m] : At(backlog[m], d) = {i}) =>
                   \E i \in DOMAIN backlog'[m] : At(backlog'[m], d) = {i}
  <2>1. CASE m = n
    <3>1. d # c /\ backlog[m] = q /\ backlog'[m] = Tail(q)
      BY <1>2, <1>12, <2>1 DEF q
    <3> QED BY <3>1, <1>9, <1>10
  <2>2. CASE m # n
    <3>1. backlog'[m] = backlog[m]
      BY <1>2, <2>2
    <3> QED BY <3>1
  <2> QED BY <2>1, <2>2
<1> QED BY <1>4, <1>6, <1>11, <1>12 DEF q, c

LEMMA PlaceStep ==
  ASSUME TypeOK, OwnClients, NoClientForgotten, [Next]_vars
  PROVE  NoClientForgotten'
<1>1. ASSUME NEW c \in Client, Connect(c) PROVE NoClientForgotten'
  <2> DEFINE n == ask[c].at
  <2>1. n \in Host /\ backlog[n] \in Seq(Client) /\ client[c] = "new"
    BY <1>1, AsksAssumption DEF TypeOK, Ask, Connect
  <2>2. \A m \in Host : c \notin serving[m] /\ At(backlog[m], c) = {}
    BY <2>1 DEF NoClientForgotten, InOnePlace
  <2>3. UNCHANGED <<ask, pc, serving>>
    BY <1>1 DEF Connect
  <2>4. CASE pc[n] = "down"
    <3>1. client' = [client EXCEPT ![c] = "refused"] /\ UNCHANGED backlog
      BY <1>1, <2>4 DEF Connect
    <3> QED BY <2>2, <2>3, <3>1 DEF NoClientForgotten, InOnePlace, TypeOK
  <2>5. CASE pc[n] # "down"
    <3>1. /\ client' = [client EXCEPT ![c] = "waiting"]
          /\ backlog' = [backlog EXCEPT ![n] = Append(@, c)]
      BY <1>1, <2>5 DEF Connect
    <3> HIDE DEF n
    <3>2. \A m \in Host : backlog'[m] = IF m = n THEN Append(backlog[n], c) ELSE backlog[m]
      BY <2>1, <3>1 DEF TypeOK
    <3>3. \A d : At(Append(backlog[n], c), d) =
                 At(backlog[n], d) \cup (IF d = c THEN {Len(backlog[n]) + 1} ELSE {})
      BY <2>1, AtAppend
    <3>4. Len(backlog[n]) + 1 \in DOMAIN Append(backlog[n], c)
      BY <2>1, AtAppend
    <3>5. At(backlog'[n], c) = {Len(backlog[n]) + 1}
      BY <2>1, <2>2, <3>2, <3>3
    <3>6. \A m \in Host, d \in Client : m # n \/ d # c =>
            At(backlog'[m], d) = At(backlog[m], d)
      BY <3>2, <3>3
    <3>7. \A m \in Host : \A i \in DOMAIN backlog[m] : i \in DOMAIN backlog'[m]
      <4>1. \A i \in DOMAIN backlog[n] : i \in DOMAIN Append(backlog[n], c)
        BY <2>1, AtAppend
      <4> QED BY <3>2, <4>1
    <3>8. \A d \in Client : client'[d] = IF d = c THEN "waiting" ELSE client[d]
      BY <3>1 DEF TypeOK
    <3>9. ASSUME NEW m \in Host, NEW d \in Client PROVE InOnePlace(m, d)'
      <4>1. CASE d = c /\ m = n
        BY <4>1, <2>1, <2>2, <2>3, <3>2, <3>4, <3>5, <3>8 DEF InOnePlace, n
      <4>2. CASE d = c /\ m # n
        BY <4>2, <2>2, <2>3, <3>6 DEF InOnePlace, n
      <4>3. CASE d # c
        <5>1. InOnePlace(m, d) /\ client'[d] = client[d] /\ serving'[m] = serving[m]
              /\ At(backlog'[m], d) = At(backlog[m], d)
          BY <4>3, <2>3, <3>6, <3>8 DEF NoClientForgotten
        <5> QED BY <2>3, <3>7, <5>1, StaysInPlace
      <4> QED BY <4>1, <4>2, <4>3
    <3> QED BY <2>3, <3>9 DEF NoClientForgotten
  <2> QED BY <2>4, <2>5
<1>2. ASSUME NEW n \in Host, ServeFromCache(n) PROVE NoClientForgotten'
  <2> DEFINE c == Head(backlog[n])
  <2>1. /\ backlog[n] # <<>> /\ backlog' = [backlog EXCEPT ![n] = Tail(@)]
        /\ client' = [client EXCEPT ![c] = "done"] /\ UNCHANGED <<ask, pc, serving>>
    BY <1>2 DEF ServeFromCache, Answer
  <2>2. /\ c \in Client /\ client[c] = "waiting" /\ ask[c].at = n /\ c \notin serving[n]
        /\ At(backlog'[n], c) = {}
        /\ \A m \in Host, d \in Client : m # n \/ d # c =>
             /\ At(backlog[m], d) = {} => At(backlog'[m], d) = {}
             /\ (\E i \in DOMAIN backlog[m] : At(backlog[m], d) = {i}) =>
                  \E i \in DOMAIN backlog'[m] : At(backlog'[m], d) = {i}
    BY <2>1, HeadLeaves
  <2> HIDE DEF c
  <2>3. \A d \in Client : client'[d] = IF d = c THEN "done" ELSE client[d]
    BY <2>1, <2>2 DEF TypeOK
  <2>4. ASSUME NEW m \in Host, NEW d \in Client PROVE InOnePlace(m, d)'
    <3>1. CASE d = c
      BY <3>1, <2>1, <2>2, <2>3 DEF NoClientForgotten, InOnePlace
    <3>2. CASE d # c
      <4>1. InOnePlace(m, d) /\ client'[d] = client[d] /\ serving'[m] = serving[m] /\ ask' = ask
        BY <3>2, <2>1, <2>3 DEF NoClientForgotten
      <4> QED BY <3>2, <2>2, <4>1, StaysInPlace
    <3> QED BY <3>1, <3>2
  <2> QED BY <2>1, <2>4 DEF NoClientForgotten
<1>3. ASSUME NEW n \in Host, Request(n) PROVE NoClientForgotten'
  <2> DEFINE c == Head(backlog[n])
  <2>1. /\ backlog[n] # <<>> /\ backlog' = [backlog EXCEPT ![n] = Tail(@)]
        /\ serving' = [serving EXCEPT ![n] = {c}] /\ pc' = [pc EXCEPT ![n] = "recvfrom"]
        /\ UNCHANGED <<ask, client>> /\ serving[n] = {}
    BY <1>3 DEF Request, OwnClients
  <2>2. /\ c \in Client /\ client[c] = "waiting" /\ ask[c].at = n
        /\ At(backlog'[n], c) = {}
        /\ \A m \in Host, d \in Client : m # n \/ d # c =>
             /\ At(backlog[m], d) = {} => At(backlog'[m], d) = {}
             /\ (\E i \in DOMAIN backlog[m] : At(backlog[m], d) = {i}) =>
                  \E i \in DOMAIN backlog'[m] : At(backlog'[m], d) = {i}
    BY <2>1, HeadLeaves
  <2> HIDE DEF c
  <2>3. \A m \in Host : /\ serving'[m] = IF m = n THEN {c} ELSE serving[m]
                        /\ pc'[m] = IF m = n THEN "recvfrom" ELSE pc[m]
    BY <2>1 DEF TypeOK
  <2>4. ASSUME NEW m \in Host, NEW d \in Client PROVE InOnePlace(m, d)'
    <3>1. CASE m = n /\ d = c
      BY <3>1, <2>1, <2>2, <2>3 DEF InOnePlace
    <3>2. CASE ~(m = n /\ d = c)
      <4>1. InOnePlace(m, d) /\ client'[d] = client[d] /\ ask' = ask
        BY <2>1 DEF NoClientForgotten
      <4>2. d \in serving'[m] <=> d \in serving[m]
        <5>1. CASE m = n
          BY <3>2, <5>1, <2>1, <2>3
        <5>2. CASE m # n
          BY <5>2, <2>3
        <5> QED BY <5>1, <5>2
      <4> QED BY <3>2, <2>2, <4>1, <4>2, StaysInPlace
    <3> QED BY <3>1, <3>2
  <2> QED BY <2>3, <2>4 DEF NoClientForgotten
<1>4. ASSUME NEW n \in Host, TakeReply(n) PROVE NoClientForgotten'
  <2>1. PICK c \in serving[n] : client' = [client EXCEPT ![c] = "done"]
    BY <1>4 DEF TakeReply, Answer
  <2>2. /\ c \in Client /\ serving[n] = {c} /\ ask[c].at = n
        /\ serving' = [serving EXCEPT ![n] = {}] /\ pc' = [pc EXCEPT ![n] = "select"]
        /\ UNCHANGED <<ask, backlog>>
    BY <1>4, <2>1 DEF TakeReply, OwnClients, TypeOK
  <2>3. \A m \in Host : /\ serving'[m] = IF m = n THEN {} ELSE serving[m]
                        /\ pc'[m] = IF m = n THEN "select" ELSE pc[m]
    BY <2>2 DEF TypeOK
  <2>4. \A d \in Client : client'[d] = IF d = c THEN "done" ELSE client[d]
    BY <2>1, <2>2 DEF TypeOK
  <2>5. ASSUME NEW m \in Host, NEW d \in Client PROVE InOnePlace(m, d)'
    <3>1. CASE d = c
      BY <3>1, <2>2, <2>3, <2>4 DEF NoClientForgotten, InOnePlace
    <3>2. CASE d # c
      BY <3>2, <2>2, <2>3, <2>4 DEF NoClientForgotten, InOnePlace
    <3> QED BY <3>1, <3>2
  <2> QED BY <2>3, <2>5 DEF NoClientForgotten
<1>5. ASSUME NEW n \in Host, Start(n) PROVE NoClientForgotten'
  BY <1>5 DEF Start, NoClientForgotten, InOnePlace, TypeOK
<1>6. ASSUME NEW n \in Host, HandleFrame(n) \/ LoseFrame(n) PROVE NoClientForgotten'
  <2>1. UNCHANGED <<ask, client, pc, backlog, serving>>
    BY <1>6 DEF HandleFrame, LoseFrame
  <2> QED BY <2>1 DEF NoClientForgotten, InOnePlace
<1>7. CASE UNCHANGED vars
  BY <1>7 DEF vars, NoClientForgotten, InOnePlace
<1> QED BY <1>1, <1>2, <1>3, <1>4, <1>5, <1>6, <1>7 DEF Next, Daemon

LEMMA PlaceInit == Init => NoClientForgotten
<1> SUFFICES ASSUME Init PROVE NoClientForgotten
  OBVIOUS
<1>1. \A n \in Host : pc[n] # "recvfrom" /\ serving[n] = {} /\ backlog[n] = <<>>
  BY DEF Init
<1>2. \A c \in Client : client[c] # "waiting"
  BY DEF Init
<1>3. \A c : At(<<>>, c) = {}
  BY DEF At
<1> QED BY <1>1, <1>2, <1>3 DEF NoClientForgotten, InOnePlace

LEMMA RightInvHolds == Spec => [](RightInv /\ NoClientForgotten)
<1> DEFINE Inv == RightInv /\ NoClientForgotten
<1>1. Init => Inv
  BY RightInit, PlaceInit
<1>2. Inv /\ [Next]_vars => Inv'
  BY RightInvStep, PlaceStep DEF RightInv, CacheInv
<1> HIDE DEF Inv
<1>3. Spec => []Inv
  BY <1>1, <1>2, PTL DEF Spec
<1> QED BY <1>3 DEF Inv

\* A client that was accepted is queued once or being served, until it is
\* answered: no order of requests, replies and other clients loses it.
THEOREM NobodyIsForgotten == Spec => []NoClientForgotten
BY RightInvHolds, PTL

(***************************************************************************)
(* The daemons implement ArpService.                                       *)
(***************************************************************************)
LEMMA ServiceInit == Init => Service!Init
<1> SUFFICES ASSUME Init PROVE Service!Init
  OBVIOUS
<1>1. ask \in [Client -> [at : Host, for : Host]]
  BY AsksAssumption DEF Init, Ask
<1> QED BY <1>1 DEF Init, Service!Init

LEMMA ServiceStep ==
  ASSUME RightInv, NoClientForgotten, [Next]_vars
  PROVE  [Service!Next]_(Service!vars)
<1> USE DEF RightInv, CacheInv
<1>1. ASSUME NEW c \in Client, Connect(c) PROVE Service!Arrive(c)
  BY <1>1 DEF Connect, Service!Arrive
<1>2. ASSUME NEW n \in Host, ServeFromCache(n) PROVE \E c \in Client : Service!Reply(c)
  <2> DEFINE c == Head(backlog[n])
             hits == Lookup(cache[n], ask[c].for)
             k == CHOOSE i \in hits : \A j \in hits : i <= j
             m == cache[n][k].mac
  <2>1. /\ backlog[n] # <<>> /\ backlog' = [backlog EXCEPT ![n] = Tail(@)]
        /\ client' = [client EXCEPT ![c] = "done"] /\ answer' = [answer EXCEPT ![c] = m]
        /\ UNCHANGED <<ask, asked>> /\ hits # {}
    BY <1>2 DEF ServeFromCache, Answer
  <2>2. c \in Client /\ client[c] = "waiting" /\ ask[c].at = n
    BY <2>1, HeadLeaves
  <2>3. ask[c].for \in Host
    BY <2>2, AsksAssumption DEF TypeOK, Ask
  <2>4. k \in hits /\ k \in Slot
    <3>1. hits \subseteq Slot
      BY DEF Lookup
    <3> HIDE DEF hits
    <3> QED BY <2>1, <3>1, LeastSlot
  <2>5. m = ask[c].for /\ m # n
    <3>1. cache[n][k].ip = ask[c].for
      BY <2>4 DEF Lookup
    <3> HIDE DEF k
    <3> QED BY <2>4, <3>1 DEF CacheSound
  <2> HIDE DEF c, m
  <2>6. Service!Reply(c)
    BY <2>1, <2>2, <2>3, <2>5 DEF Service!Reply
  <2> QED BY <2>2, <2>6
<1>3. ASSUME NEW n \in Host, Request(n) PROVE \E c \in Client : Service!SendRequest(c)
  <2> DEFINE c == Head(backlog[n])
  <2>1. /\ backlog[n] # <<>> /\ backlog' = [backlog EXCEPT ![n] = Tail(@)]
        /\ asked' = asked \cup {n} /\ UNCHANGED <<ask, client, answer>>
    BY <1>3 DEF Request
  <2>2. c \in Client /\ client[c] = "waiting" /\ ask[c].at = n
    BY <2>1, HeadLeaves
  <2> HIDE DEF c
  <2>3. Service!SendRequest(c)
    BY <2>1, <2>2 DEF Service!SendRequest
  <2> QED BY <2>2, <2>3
<1>4. ASSUME NEW n \in Host, TakeReply(n) PROVE \E c \in Client : Service!Reply(c)
  <2> DEFINE f == Head(frames[n])
  <2>1. PICK c \in serving[n] : /\ client' = [client EXCEPT ![c] = "done"]
                                /\ answer' = [answer EXCEPT ![c] = f.src_mac]
    BY <1>4 DEF TakeReply, Answer
  <2>2. /\ c \in Client /\ serving[n] = {c} /\ ask[c].at = n /\ n \in asked
        /\ UNCHANGED <<ask, asked>>
    BY <1>4, <2>1 DEF TakeReply, OwnClients, TypeOK
  <2>3. client[c] = "waiting"
    BY <2>2 DEF NoClientForgotten, InOnePlace
  <2>4. f \in Frame /\ f.src_mac = f.src_ip /\ f.src_ip # n
    BY <1>4, GoodTail DEF TakeReply, TypeOK, FramesGenuine, Good
  <2>5. f.src_mac \in Host \ {n}
    BY <2>4 DEF Frame
  <2>6. ASSUME asked \subseteq {n} PROVE f.src_mac = ask[c].for
    <3>1. frames[n] \in Seq(Frame) /\ frames[n] # <<>>
      BY <1>4 DEF TakeReply, TypeOK
    <3>2. 1 \in DOMAIN frames[n] /\ f = frames[n][1]
      BY <3>1
    <3>3. Serves(n, f.src_ip)
      BY <2>6, <3>2 DEF OneExchange
    <3> HIDE DEF f
    <3> QED BY <2>2, <2>4, <3>3 DEF Serves
  <2> HIDE DEF f
  <2>7. Service!Reply(c)
    BY <2>1, <2>2, <2>3, <2>5, <2>6 DEF Service!Reply
  <2> QED BY <2>2, <2>7
<1>5. ASSUME NEW n \in Host, Start(n) \/ HandleFrame(n) \/ LoseFrame(n)
      PROVE  UNCHANGED Service!vars
  BY <1>5 DEF Start, HandleFrame, LoseFrame, Service!vars
<1>6. CASE UNCHANGED vars
  BY <1>6 DEF vars, Service!vars
<1> QED BY <1>1, <1>2, <1>3, <1>4, <1>5, <1>6 DEF Next, Daemon, Service!Next

\* Caches, frames and queues do for the clients what ArpService promises.
THEOREM DaemonsServeClients == Spec => ServesClients
<1>1. RightInv /\ NoClientForgotten /\ [Next]_vars => [Service!Next]_(Service!vars)
  BY ServiceStep
<1> QED BY <1>1, ServiceInit, RightInvHolds, PTL DEF Spec, ServesClients, Service!Spec
=============================================================================
