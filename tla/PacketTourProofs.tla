--------------------------- MODULE PacketTourProofs ---------------------------
(***************************************************************************)
(* Theorems about PacketTour, for every set of VMs, every choice of their  *)
(* command lines and any number of packets lost and duplicated: the stops  *)
(* take the packet of a tour in the order of its list, and a tour that     *)
(* does not get to the end of its list ends for one of four reasons.       *)
(***************************************************************************)
EXTENDS PacketTour, ListLemmas

(***************************************************************************)
(* The bag of packets, as far as it matters which packets are in it.       *)
(***************************************************************************)
LEMMA EmptyNet == IsABag(EmptyBag) /\ BagToSet(EmptyBag) = {}
BY DEF EmptyBag, SetToBag, IsABag, BagToSet

LEMMA Added ==
  ASSUME NEW B, IsABag(B), NEW p
  PROVE  IsABag(B (+) SetToBag({p})) /\ BagToSet(B (+) SetToBag({p})) = BagToSet(B) \cup {p}
<1>1. B \in [DOMAIN B -> {k \in Nat : k > 0}]
  BY DEF IsABag
<1>2. B (+) SetToBag({p}) =
        [e \in (DOMAIN B) \cup {p} |->
           (IF e \in DOMAIN B THEN B[e] ELSE 0) + (IF e \in {p} THEN 1 ELSE 0)]
  BY DEF SetToBag, (+)
<1>3. ASSUME NEW e \in (DOMAIN B) \cup {p}
      PROVE  (IF e \in DOMAIN B THEN B[e] ELSE 0) + (IF e \in {p} THEN 1 ELSE 0) \in {k \in Nat : k > 0}
  BY <1>1
<1> QED BY <1>2, <1>3 DEF IsABag, BagToSet

LEMMA Removed ==
  ASSUME NEW B, IsABag(B), NEW p
  PROVE  /\ IsABag(B (-) SetToBag({p}))
         /\ BagToSet(B (-) SetToBag({p})) \subseteq BagToSet(B)
         /\ BagToSet(B) \ {p} \subseteq BagToSet(B (-) SetToBag({p}))
<1>1. B \in [DOMAIN B -> {k \in Nat : k > 0}]
  BY DEF IsABag
<1> DEFINE C == [e \in DOMAIN B |-> IF e \in {p} THEN B[e] - 1 ELSE B[e]]
           D == {d \in DOMAIN B : C[d] > 0}
<1>2. B (-) SetToBag({p}) = [e \in D |-> C[e]]
  BY DEF SetToBag, (-)
<1>3. ASSUME NEW e \in D
      PROVE  C[e] \in {k \in Nat : k > 0}
  BY <1>1
<1>4. \A e \in (DOMAIN B) \ {p} : e \in D
  BY <1>1
<1> QED BY <1>2, <1>3, <1>4 DEF IsABag, BagToSet

(***************************************************************************)
(* The inductive invariant.  Every packet on its way is that of a hop: of  *)
(* a hop made before, which the node it goes to then takes for a           *)
(* duplicate, or of the next one.                                          *)
(***************************************************************************)
\* Hop i of a tour leads from the stop before to stop i.
Source(t, i) == IF i = 2 THEN t ELSE Stops(t)[i-1]

HopPacket(t, i) ==
  [tour |-> t, addrs |-> Stops(t), index |-> i,
   ip_src |-> Source(t, i), ip_dst |-> Stops(t)[i]]

IsHop(p) ==
  /\ pc[p.tour] # "down"
  /\ p.index \in 2..Len(Stops(p.tour)) /\ p.index <= Len(visited[p.tour]) + 2
  /\ p = HopPacket(p.tour, p.index)

Genuine == \A p \in BagToSet(net) : IsHop(p)

\* The stops that took the packet are the first ones of the list.
Walked(t) ==
  /\ pc[t] = "down" => visited[t] = <<>>
  /\ Len(visited[t]) + 1 <= Len(Stops(t))
  /\ \A k \in 1..Len(visited[t]) : visited[t][k] = Stops(t)[k+1]

\* Each of them knows the sender it had the packet from.
Passed(t) ==
  \A i \in 2..(Len(visited[t]) + 1) : Source(t, i) \in pg_head[Stops(t)[i]]

Accounted(t) ==
  Launched(t) =>
    \/ visited[t] = Tail(Stops(t))
    \/ Due(t) \in BagToSet(net) \cup skipped \cup lost
    \/ visited[t] # <<>> /\ <<Last(visited[t]), t>> \in arrivals

IInv ==
  /\ TypeOK /\ Genuine
  /\ \A t \in Host : Walked(t)
  /\ \A t \in Host : Passed(t)
  /\ \A t \in Host : Accounted(t)

LEMMA StopsType ==
  ASSUME TypeOK, NEW t \in Host
  PROVE  Stops(t) \in Seq(Host) /\ Len(Stops(t)) \in Nat /\ Len(Stops(t)) >= 1
<1>1. plan[t] \in Seq(Host)
  BY PlansAssumption DEF TypeOK
<1>2. <<t>> \o plan[t] \in Seq(Host) /\ <<t>> \o plan[t] # <<>>
  <2>1. <<t>> \in Seq(Host) /\ Len(<<t>>) = 1 /\ Len(plan[t]) \in Nat
    BY <1>1
  <2>2. <<t>> \o plan[t] \in Seq(Host) /\ Len(<<t>> \o plan[t]) = 1 + Len(plan[t])
    BY <1>1, <2>1, ConcatProperties
  <2> QED BY <2>1, <2>2
<1> QED BY <1>2, VmListProperties DEF Stops

LEMMA SamePlan ==
  ASSUME plan' = plan
  PROVE  /\ \A t : Stops(t)' = Stops(t)
         /\ \A t, i : Source(t, i)' = Source(t, i)
         /\ \A t, i : HopPacket(t, i)' = HopPacket(t, i)
BY DEF Stops, Source, HopPacket

LEMMA HopType ==
  ASSUME TypeOK, NEW t \in Host, NEW i \in 2..Len(Stops(t))
  PROVE  /\ Source(t, i) \in Host /\ Stops(t)[i] \in Host /\ HopPacket(t, i) \in Packet
<1>1. Stops(t) \in Seq(Host) /\ Len(Stops(t)) \in Nat
  BY StopsType
<1>2. i \in 1..Len(Stops(t)) /\ i - 1 \in 1..Len(Stops(t)) /\ i \in Nat
  BY <1>1
<1>3. Stops(t)[i] \in Host /\ Stops(t)[i-1] \in Host
  BY <1>1, <1>2, ElementOfSeq
<1>4. Source(t, i) \in Host
  BY <1>3 DEF Source
<1> QED BY <1>1, <1>2, <1>3, <1>4 DEF HopPacket, Packet

LEMMA HopFields ==
  ASSUME NEW t, NEW i
  PROVE  /\ HopPacket(t, i).tour = t /\ HopPacket(t, i).addrs = Stops(t)
         /\ HopPacket(t, i).index = i /\ HopPacket(t, i).ip_src = Source(t, i)
         /\ HopPacket(t, i).ip_dst = Stops(t)[i]
BY DEF HopPacket

LEMMA DueIsHop ==
  ASSUME TypeOK, NEW t \in Host, Walked(t)
  PROVE  Due(t) = HopPacket(t, Len(visited[t]) + 2)
<1>1. visited[t] \in Seq(Host) /\ Len(visited[t]) \in Nat
  BY DEF TypeOK
<1>2. ASSUME Len(visited[t]) # 0
      PROVE  visited[t][Len(visited[t])] = Stops(t)[(Len(visited[t]) + 2) - 1]
             /\ Len(visited[t]) + 2 # 2
  <2>1. Len(visited[t]) \in 1..Len(visited[t]) /\ Len(visited[t]) + 1 = (Len(visited[t]) + 2) - 1
    BY <1>1, <1>2
  <2> QED BY <1>1, <1>2, <2>1 DEF Walked
<1>3. (IF Len(visited[t]) = 0 THEN t ELSE visited[t][Len(visited[t])])
        = Source(t, Len(visited[t]) + 2)
  BY <1>1, <1>2 DEF Source
<1> QED BY <1>3 DEF Due, HopPacket

\* What Header writes into a packet.
LEMMA HeaderFields ==
  ASSUME NEW t, NEW addrs, NEW i, NEW src, NEW dst, NEW n
  PROVE  Header(n, [tour |-> t, addrs |-> addrs, index |-> i, ip_src |-> src, ip_dst |-> dst])
           = [tour |-> t, addrs |-> addrs, index |-> i + 1,
              ip_src |-> n, ip_dst |-> addrs[i + 1]]
<1> DEFINE r0 == [tour |-> t, addrs |-> addrs, index |-> i, ip_src |-> src, ip_dst |-> dst]
           r1 == [tour |-> t, addrs |-> addrs, index |-> i, ip_src |-> n, ip_dst |-> dst]
           r2 == [tour |-> t, addrs |-> addrs, index |-> i, ip_src |-> n, ip_dst |-> addrs[i + 1]]
           r3 == [tour |-> t, addrs |-> addrs, index |-> i + 1, ip_src |-> n, ip_dst |-> addrs[i + 1]]
<1>1. r0.addrs = addrs /\ r0.index = i
  OBVIOUS
<1>2. [r0 EXCEPT !.ip_src = n] = r1
  OBVIOUS
<1>3. ASSUME NEW d PROVE [r1 EXCEPT !.ip_dst = d] =
        [tour |-> t, addrs |-> addrs, index |-> i, ip_src |-> n, ip_dst |-> d]
  OBVIOUS
<1>4. ASSUME NEW d PROVE [r2 EXCEPT !.index = d] =
        [tour |-> t, addrs |-> addrs, index |-> d, ip_src |-> n, ip_dst |-> addrs[i + 1]]
  OBVIOUS
<1>5. Header(n, r0) = [[[r0 EXCEPT !.ip_src = n] EXCEPT !.ip_dst = r0.addrs[r0.index + 1]]
                         EXCEPT !.index = r0.index + 1]
  BY DEF Header
<1>6. [r1 EXCEPT !.ip_dst = addrs[i + 1]] = r2
  BY <1>3
<1>7. [r2 EXCEPT !.index = i + 1] = r3
  BY <1>4
<1> HIDE DEF r0, r1, r2, r3
<1>8. Header(n, r0) = r3
  BY <1>1, <1>2, <1>5, <1>6, <1>7
<1> QED BY <1>8 DEF r0, r3

LEMMA NextHop ==
  ASSUME NEW t, NEW i \in Nat, i >= 2
  PROVE  Header(Stops(t)[i], HopPacket(t, i)) = HopPacket(t, i + 1)
<1>1. (i + 1) - 1 = i /\ i + 1 # 2
  OBVIOUS
<1>2. Source(t, i + 1) = Stops(t)[i]
  BY <1>1 DEF Source
<1> QED BY <1>2, HeaderFields DEF HopPacket

LEMMA FirstHop ==
  ASSUME NEW t
  PROVE  Header(t, FirstPacket(t)) = HopPacket(t, 2)
<1>1. 1 + 1 = 2
  OBVIOUS
<1>2. Source(t, 2) = t
  BY DEF Source
<1>3. Header(t, FirstPacket(t)) =
        [tour |-> t, addrs |-> Stops(t), index |-> 1 + 1, ip_src |-> t, ip_dst |-> Stops(t)[1 + 1]]
  BY HeaderFields DEF FirstPacket
<1> QED BY <1>1, <1>2, <1>3 DEF HopPacket

\* A packet that a node takes is the next one of its tour: a node knows the
\* sender of those before.
LEMMA TakenIsDue ==
  ASSUME IInv, NEW p \in BagToSet(net), NEW n \in Host, Take(n, p)
  PROVE  /\ p.tour \in Host /\ p.index = Len(visited[p.tour]) + 2
         /\ p.index \in 2..Len(Stops(p.tour)) /\ n = Stops(p.tour)[p.index]
         /\ p = HopPacket(p.tour, p.index)
<1>1. /\ p.tour \in Host /\ p.index \in 2..Len(Stops(p.tour))
      /\ p.index <= Len(visited[p.tour]) + 2 /\ p = HopPacket(p.tour, p.index)
  BY DEF IInv, TypeOK, Packet, Genuine, IsHop
<1>2. p.ip_dst = n /\ p.ip_src \notin pg_head[n]
  BY DEF Take, Known
<1>3. n = Stops(p.tour)[p.index] /\ p.ip_src = Source(p.tour, p.index)
  BY <1>1, <1>2, HopFields
<1>4. visited[p.tour] \in Seq(Host) /\ Len(visited[p.tour]) \in Nat /\ Len(Stops(p.tour)) \in Nat
  <2>1. TypeOK
    BY DEF IInv
  <2>2. visited \in [Host -> Seq(Host)]
    BY <2>1 DEF TypeOK
  <2>3. Len(Stops(p.tour)) \in Nat
    BY <1>1, <2>1, StopsType
  <2>4. visited[p.tour] \in Seq(Host)
    BY <1>1, <2>2
  <2> QED BY <2>3, <2>4
<1>5. p.index \notin 2..(Len(visited[p.tour]) + 1)
  <2>1. Passed(p.tour)
    BY <1>1 DEF IInv
  <2>2. p.index \in 2..(Len(visited[p.tour]) + 1) => p.ip_src \in pg_head[n]
    BY <2>1, <1>3 DEF Passed
  <2> QED BY <2>2, <1>2
<1>6. ASSUME NEW k \in Nat, NEW m \in Nat, NEW i \in 2..m, i <= k + 2, i \notin 2..(k + 1)
      PROVE  i = k + 2
  BY <1>6
<1>7. p.index = Len(visited[p.tour]) + 2
  BY <1>1, <1>4, <1>5, <1>6
<1> QED BY <1>1, <1>3, <1>7

(***************************************************************************)
(* The steps.                                                              *)
(***************************************************************************)
LEMMA TypeInit == Init => TypeOK
<1> SUFFICES ASSUME Init PROVE TypeOK
  OBVIOUS
<1>1. IsABag(net) /\ BagToSet(net) \subseteq Packet
  BY EmptyNet DEF Init
<1>2. mishaps \in 0..MaxMishaps
  BY ConstantsAssumption DEF Init
<1>3. /\ pc \in [Host -> {"down", "loop", "crashed"}] /\ pg_head \in [Host -> SUBSET Host]
      /\ is_dest \in [Host -> BOOLEAN] /\ visited \in [Host -> Seq(Host)]
  BY DEF Init
<1> QED BY <1>1, <1>2, <1>3 DEF Init, TypeOK

LEMMA InitHolds == Init => IInv
<1> SUFFICES ASSUME Init PROVE IInv
  OBVIOUS
<1>1. TypeOK
  BY TypeInit
<1>2. Genuine
  BY EmptyNet DEF Init, Genuine
<1>3. ASSUME NEW t \in Host PROVE Walked(t) /\ Passed(t) /\ Accounted(t)
  <2>1. visited[t] = <<>> /\ Len(visited[t]) = 0 /\ pc[t] = "down"
    BY DEF Init
  <2>2. Len(Stops(t)) \in Nat /\ Len(Stops(t)) >= 1
    BY <1>1, StopsType
  <2>3. Walked(t)
    BY <2>1, <2>2 DEF Walked
  <2>4. Passed(t)
    BY <2>1 DEF Passed
  <2>5. Accounted(t)
    BY <2>1 DEF Accounted, Launched
  <2> QED BY <2>3, <2>4, <2>5
<1> QED BY <1>1, <1>2, <1>3 DEF IInv

\* What a step does to the packets: one may leave, one may come.
Changes(out, new) ==
  /\ IsABag(net')
  /\ BagToSet(net') \subseteq BagToSet(net) \cup new
  /\ (BagToSet(net) \ out) \cup new \subseteq BagToSet(net')

LEMMA RemovedFromNet ==
  ASSUME TypeOK, NEW p, net' = net (-) SetToBag({p})
  PROVE  Changes({p}, {})
BY Removed DEF TypeOK, Changes

LEMMA AddedToNet ==
  ASSUME TypeOK, NEW p, net' = net (+) SetToBag({p})
  PROVE  Changes({}, {p})
<1>1. IsABag(net)
  BY DEF TypeOK
<1>2. IsABag(net (+) SetToBag({p})) /\ BagToSet(net (+) SetToBag({p})) = BagToSet(net) \cup {p}
  BY <1>1, Added
<1>3. IsABag(net') /\ BagToSet(net') = BagToSet(net) \cup {p}
  BY <1>2
<1> QED BY <1>3 DEF Changes

LEMMA PassedOn ==
  ASSUME TypeOK, NEW p, NEW q, net' = (net (-) SetToBag({p})) (+) SetToBag({q})
  PROVE  Changes({p}, {q})
<1> DEFINE B == net (-) SetToBag({p})
<1>1. IsABag(B) /\ BagToSet(B) \subseteq BagToSet(net) /\ BagToSet(net) \ {p} \subseteq BagToSet(B)
  BY Removed DEF TypeOK
<1> HIDE DEF B
<1>2. IsABag(B (+) SetToBag({q})) /\ BagToSet(B (+) SetToBag({q})) = BagToSet(B) \cup {q}
  BY <1>1, Added
<1>3. net' = B (+) SetToBag({q})
  BY DEF B
<1> QED BY <1>1, <1>2, <1>3 DEF Changes

LEMMA TypeKept ==
  ASSUME TypeOK, Genuine, [Next]_vars
  PROVE  TypeOK'
<1> USE ConstantsAssumption
<1>1. CASE UNCHANGED vars
  BY <1>1 DEF TypeOK, vars
<1>2. ASSUME NEW n \in Host, StartIdle(n) PROVE TypeOK'
  BY <1>2 DEF StartIdle, TypeOK
<1>3. ASSUME NEW n \in Host, StartTour(n) PROVE TypeOK'
  <2>1. pc' \in [Host -> {"down", "loop", "crashed"}]
    BY <1>3 DEF StartTour, TypeOK
  <2>2. IsABag(net') /\ BagToSet(net') \subseteq Packet
    <3>1. CASE AtEnd(FirstPacket(n))
      BY <1>3, <3>1 DEF StartTour, TypeOK
    <3>2. CASE ~AtEnd(FirstPacket(n))
      <4>1. net' = net (+) SetToBag({HopPacket(n, 2)})
        BY <1>3, <3>2, FirstHop DEF StartTour
      <4>2. Changes({}, {HopPacket(n, 2)})
        BY <4>1, AddedToNet
      <4>3. Len(Stops(n)) # 1
        BY <3>2 DEF AtEnd, FirstPacket
      <4>4. Len(Stops(n)) \in Nat /\ Len(Stops(n)) >= 1
        BY StopsType
      <4>5. 2 \in 2..Len(Stops(n))
        <5>1. PICK k \in Nat : k = Len(Stops(n))
          BY <4>4
        <5> QED BY <4>3, <4>4, <5>1
      <4>6. HopPacket(n, 2) \in Packet
        BY <4>5, HopType
      <4> QED BY <4>2, <4>6 DEF Changes, TypeOK
    <3> QED BY <3>1, <3>2
  <2> QED BY <1>3, <2>1, <2>2 DEF StartTour, TypeOK
<1>4. ASSUME NEW p \in BagToSet(net), NEW n \in Host, Skip(n, p) PROVE TypeOK'
  <2>1. Changes({p}, {}) /\ p \in Packet
    BY <1>4, RemovedFromNet DEF Skip, TypeOK
  <2> QED BY <1>4, <2>1 DEF Skip, TypeOK, Changes
<1>5. ASSUME NEW p \in BagToSet(net), NEW n \in Host, Take(n, p)
      PROVE  /\ plan' \in Plans /\ pc' \in [Host -> {"down", "loop", "crashed"}]
             /\ pg_head' \in [Host -> SUBSET Host] /\ visited' \in [Host -> Seq(Host)]
             /\ mishaps' \in 0..MaxMishaps /\ skipped' \subseteq Packet /\ lost' \subseteq Packet
             /\ p \in Packet /\ p.tour \in Host
  <2>1. p \in Packet /\ p.tour \in Host /\ p.ip_src \in Host
    BY DEF TypeOK, Packet
  <2>2. pg_head' \in [Host -> SUBSET Host]
    BY <1>5, <2>1 DEF Take, TypeOK
  <2>3. visited' \in [Host -> Seq(Host)]
    <3>1. ASSUME NEW t \in Host PROVE Append(visited[t], n) \in Seq(Host)
      BY AppendProperties DEF TypeOK
    <3> QED BY <1>5, <2>1, <3>1 DEF Take, TypeOK
  <2> QED BY <1>5, <2>1, <2>2, <2>3 DEF Take, TypeOK
<1>6. ASSUME NEW p \in BagToSet(net), NEW n \in Host, Reach(n, p) PROVE TypeOK'
  <2>1. Changes({p}, {}) /\ Take(n, p)
    BY <1>6, RemovedFromNet DEF Reach
  <2>2. is_dest' \in [Host -> BOOLEAN] /\ arrivals' \subseteq Host \X Host
    BY <1>5, <1>6, <2>1 DEF Reach, TypeOK
  <2>3. IsABag(net') /\ BagToSet(net') \subseteq Packet
    BY <2>1 DEF Changes, TypeOK
  <2> QED BY <1>5, <2>1, <2>2, <2>3 DEF TypeOK
<1>7. ASSUME NEW p \in BagToSet(net), NEW n \in Host, Forward(n, p) PROVE TypeOK'
  <2>1. Changes({p}, {Header(n, p)}) /\ Take(n, p) /\ UNCHANGED <<is_dest, arrivals>>
    BY <1>7, PassedOn DEF Forward
  <2>2. Header(n, p) \in Packet
    <3>1. p \in Packet /\ p.tour \in Host
      BY DEF TypeOK, Packet
    <3>2. p.index \in 2..Len(Stops(p.tour)) /\ p = HopPacket(p.tour, p.index)
      BY DEF Genuine, IsHop
    <3>3. p.index # Len(Stops(p.tour)) /\ n = Stops(p.tour)[p.index]
      BY <1>7, <3>2, HopFields DEF Forward, Take, AtEnd
    <3>4. Len(Stops(p.tour)) \in Nat
      BY <3>1, StopsType
    <3>5. p.index \in Nat /\ p.index >= 2 /\ p.index + 1 \in 2..Len(Stops(p.tour))
      BY <3>2, <3>3, <3>4
    <3>6. Header(n, p) = HopPacket(p.tour, p.index + 1)
      BY <3>2, <3>3, <3>5, NextHop
    <3> QED BY <3>1, <3>5, <3>6, HopType
  <2>3. IsABag(net') /\ BagToSet(net') \subseteq Packet
    BY <2>1, <2>2 DEF Changes, TypeOK
  <2> QED BY <1>5, <2>1, <2>3 DEF TypeOK
<1>8. ASSUME NEW p \in BagToSet(net), NEW n \in Host, Unclaimed(n, p) PROVE TypeOK'
  <2>1. Changes({p}, {}) /\ p \in Packet
    BY <1>8, RemovedFromNet DEF Unclaimed, TypeOK
  <2> QED BY <1>8, <2>1 DEF Unclaimed, TypeOK, Changes
<1>9. ASSUME NEW p \in BagToSet(net), Lose(p) PROVE TypeOK'
  <2>1. Changes({p}, {}) /\ p \in Packet
    BY <1>9, RemovedFromNet DEF Lose, TypeOK
  <2>2. mishaps' \in 0..MaxMishaps
    BY <1>9 DEF Lose, TypeOK
  <2> QED BY <1>9, <2>1, <2>2 DEF Lose, TypeOK, Changes
<1>10. ASSUME NEW p \in BagToSet(net), Duplicate(p) PROVE TypeOK'
  <2>1. Changes({}, {p}) /\ p \in Packet
    BY <1>10, AddedToNet DEF Duplicate, TypeOK
  <2>2. mishaps' \in 0..MaxMishaps
    BY <1>10 DEF Duplicate, TypeOK
  <2> QED BY <1>10, <2>1, <2>2 DEF Duplicate, TypeOK, Changes
<1> QED BY <1>1, <1>2, <1>3, <1>4, <1>6, <1>7, <1>8, <1>9, <1>10 DEF Next, Arrive

\* A step that does to the nodes nothing but that tour t starts at most.
Quiet(out, new) ==
  /\ plan' = plan /\ pg_head' = pg_head /\ visited' = visited /\ arrivals' = arrivals
  /\ Changes(out, new)
  /\ out \cup skipped \cup lost \subseteq skipped' \cup lost' \cup new
  /\ \A t \in Host : pc'[t] = "down" => pc[t] = "down"
  /\ \A t \in Host : pc'[t] = "loop" =>
       pc[t] = "loop" \/ plan[t] = <<>> \/ (HopPacket(t, 2) \in new /\ visited[t] = <<>>)
  /\ \A p \in new : IsHop(p)'

LEMMA QuietStep ==
  ASSUME IInv, TypeOK', NEW out, NEW new, Quiet(out, new)
  PROVE  IInv'
<1>1. /\ \A t : Stops(t)' = Stops(t)
      /\ \A t, i : Source(t, i)' = Source(t, i)
      /\ \A t, i : HopPacket(t, i)' = HopPacket(t, i)
  BY SamePlan DEF Quiet
<1>2. Genuine'
  <2>1. ASSUME NEW p \in BagToSet(net), p \notin new PROVE IsHop(p)'
    <3>1. IsHop(p) /\ p.tour \in Host
      BY DEF IInv, Genuine, TypeOK, Packet
    <3> QED BY <1>1, <3>1 DEF IsHop, Quiet
  <2>2. BagToSet(net)' \subseteq BagToSet(net) \cup new
    BY DEF Quiet, Changes
  <2> QED BY <2>1, <2>2 DEF Genuine, Quiet
<1>3. ASSUME NEW t \in Host PROVE Walked(t)'
  BY <1>1 DEF IInv, Walked, Quiet
<1>4. ASSUME NEW t \in Host PROVE Passed(t)'
  BY <1>1 DEF IInv, Passed, Quiet
<1>5. ASSUME NEW t \in Host, Launched(t)'
      PROVE \/ visited[t] = Tail(Stops(t))
            \/ Due(t) \in BagToSet(net) \cup skipped \cup lost \cup new
            \/ visited[t] # <<>> /\ <<Last(visited[t]), t>> \in arrivals
  <2>1. CASE pc[t] = "loop"
    BY <1>5, <2>1 DEF IInv, Accounted, Launched, Quiet
  <2>2. CASE HopPacket(t, 2) \in new /\ visited[t] = <<>>
    <3>1. Due(t) = HopPacket(t, Len(visited[t]) + 2)
      BY DueIsHop DEF IInv
    <3>2. Len(visited[t]) + 2 = 2
      BY <2>2
    <3> QED BY <2>2, <3>1, <3>2
  <2> QED BY <1>5, <2>1, <2>2 DEF Launched, Quiet
<1>6. ASSUME NEW t \in Host PROVE Accounted(t)'
  <2>1. Due(t)' = Due(t)
    BY <1>1 DEF Due, Quiet
  <2>2. BagToSet(net) \cup skipped \cup lost \cup new \subseteq BagToSet(net)' \cup skipped' \cup lost'
    BY DEF Quiet, Changes
  <2> QED BY <1>1, <1>5, <2>1, <2>2 DEF Accounted, Quiet
<1> QED BY <1>2, <1>3, <1>4, <1>6 DEF IInv

\* A step in which a node takes a packet of its tour.
PassesOn(n, p, new) ==
  /\ Changes({p}, new) /\ arrivals \subseteq arrivals'
  /\ \A q \in new : q = HopPacket(p.tour, p.index + 1) /\ p.index # Len(Stops(p.tour))
  /\ HopPacket(p.tour, p.index + 1) \in new \/ <<n, p.tour>> \in arrivals'

LEMMA TakeStep ==
  ASSUME IInv, TypeOK', NEW n \in Host, NEW p \in BagToSet(net), Take(n, p),
         NEW new, PassesOn(n, p, new)
  PROVE  IInv'
<1>0. /\ Changes({p}, new) /\ arrivals \subseteq arrivals'
      /\ \A q \in new : q = HopPacket(p.tour, p.index + 1) /\ p.index # Len(Stops(p.tour))
      /\ HopPacket(p.tour, p.index + 1) \in new \/ <<n, p.tour>> \in arrivals'
  BY DEF PassesOn
<1> DEFINE v == p.tour
           k == Len(visited[v])
<1>1. /\ v \in Host /\ p.index = k + 2 /\ p.index \in 2..Len(Stops(v))
      /\ n = Stops(v)[p.index] /\ p = HopPacket(v, p.index)
  BY TakenIsDue
<1>2. /\ TypeOK /\ visited \in [Host -> Seq(Host)] /\ pg_head \in [Host -> SUBSET Host]
      /\ visited[v] \in Seq(Host) /\ k \in Nat
  <2>1. TypeOK
    BY DEF IInv
  <2>2. visited \in [Host -> Seq(Host)] /\ pg_head \in [Host -> SUBSET Host]
    BY <2>1 DEF TypeOK
  <2>3. visited[v] \in Seq(Host)
    BY <1>1, <2>2
  <2> QED BY <2>1, <2>2, <2>3
<1>3. Len(Stops(v)) \in Nat
  BY <1>1, <1>2, StopsType
<1>4. k + 2 <= Len(Stops(v)) /\ n = Stops(v)[k + 2] /\ p = HopPacket(v, k + 2)
  BY <1>1
<1>5. /\ \A t : Stops(t)' = Stops(t)
      /\ \A t, i : Source(t, i)' = Source(t, i)
      /\ \A t, i : HopPacket(t, i)' = HopPacket(t, i)
  BY SamePlan DEF Take
<1>6. /\ visited'[v] = Append(visited[v], n)
      /\ \A t \in Host \ {v} : visited'[t] = visited[t]
  BY <1>1, <1>2 DEF Take
<1>7. /\ Len(visited'[v]) = k + 1 /\ visited'[v][k + 1] = n
      /\ \A i \in 1..k : visited'[v][i] = visited[v][i]
  BY <1>2, <1>6, AppendProperties
<1>8. /\ \A m \in Host : pg_head[m] \subseteq pg_head'[m]
      /\ Source(v, k + 2) \in pg_head'[n]
  <2>1. p.ip_src = Source(v, k + 2)
    BY <1>4, HopFields
  <2> QED BY <1>2, <2>1 DEF Take
<1>9. pc' = pc /\ plan' = plan /\ skipped' = skipped /\ lost' = lost
  BY DEF Take
<1>10. Walked(v)'
  <2>1. Walked(v) /\ pc[v] # "down"
    BY <1>1 DEF IInv, Genuine, IsHop
  <2>2. ASSUME NEW i \in 1..(k + 1) PROVE visited'[v][i] = Stops(v)[i + 1]
    <3>0. i \in 1..k \/ i = k + 1
      <4>1. PICK m \in Nat : m = k
        BY <1>2
      <4> QED BY <4>1
    <3>1. CASE i \in 1..k
      BY <1>7, <2>1, <3>1 DEF Walked
    <3>2. CASE i = k + 1
      <4>1. i + 1 = k + 2
        BY <1>2, <3>2
      <4> QED BY <1>4, <1>7, <3>2, <4>1
    <3> QED BY <3>0, <3>1, <3>2
  <2>3. (k + 1) + 1 <= Len(Stops(v))
    BY <1>2, <1>3, <1>4
  <2> QED BY <1>5, <1>7, <1>9, <2>1, <2>2, <2>3 DEF Walked
<1>11. ASSUME NEW t \in Host PROVE Walked(t)'
  <2>1. CASE t # v
    BY <1>5, <1>6, <1>9, <2>1 DEF IInv, Walked
  <2> QED BY <1>10, <2>1
<1>12. ASSUME NEW t \in Host PROVE Passed(t)'
  <2>1. ASSUME NEW i \in 2..(Len(visited[t]) + 1) PROVE Source(t, i) \in pg_head'[Stops(t)[i]]
    <3>1. i \in 2..Len(Stops(t))
      <4>1. Walked(t) /\ Len(visited[t]) \in Nat /\ Len(Stops(t)) \in Nat
        BY <1>2, StopsType DEF IInv
      <4>2. Len(visited[t]) + 1 <= Len(Stops(t))
        BY <4>1 DEF Walked
      <4> QED BY <4>1, <4>2
    <3>2. Stops(t)[i] \in Host
      BY <1>2, <3>1, HopType
    <3> QED BY <1>8, <3>2 DEF IInv, Passed
  <2>2. CASE t # v
    BY <1>5, <1>6, <2>1, <2>2 DEF Passed
  <2>3. CASE t = v
    <3>1. ASSUME NEW i \in 2..((k + 1) + 1) PROVE Source(v, i) \in pg_head'[Stops(v)[i]]
      <4>1. i \in 2..(k + 1) \/ i = k + 2
        BY <1>2
      <4> QED BY <1>4, <1>8, <2>1, <2>3, <4>1
    <3> QED BY <1>5, <1>7, <2>3, <3>1 DEF Passed
  <2> QED BY <2>2, <2>3
<1>13. Genuine'
  <2>1. ASSUME NEW q \in BagToSet(net) PROVE IsHop(q)'
    <3>1. IsHop(q) /\ q.tour \in Host
      BY DEF IInv, Genuine, TypeOK, Packet
    <3>2. q.index <= Len(visited'[q.tour]) + 2
      <4>1. CASE q.tour # v
        BY <1>6, <3>1, <4>1 DEF IsHop
      <4>2. CASE q.tour = v
        <5>1. q.index \in 2..Len(Stops(v)) /\ q.index <= k + 2
          BY <3>1, <4>2 DEF IsHop
        <5>2. q.index <= (k + 1) + 2
          BY <1>2, <1>3, <5>1
        <5> QED BY <1>7, <4>2, <5>2
      <4> QED BY <4>1, <4>2
    <3> QED BY <1>5, <1>9, <3>1, <3>2 DEF IsHop
  <2>2. ASSUME NEW q \in new PROVE IsHop(q)'
    <3>1. q = HopPacket(v, k + 3) /\ p.index # Len(Stops(v)) /\ p.index + 1 = k + 3
      BY <1>0, <1>1, <1>2
    <3>2. q.tour = v /\ q.index = k + 3
      BY <3>1, HopFields
    <3>3. k + 3 \in 2..Len(Stops(v)) /\ k + 3 <= (k + 1) + 2
      BY <1>1, <1>2, <1>3, <3>1
    <3>4. pc[v] # "down"
      BY DEF IInv, Genuine, IsHop
    <3> QED BY <1>5, <1>7, <1>9, <3>1, <3>2, <3>3, <3>4 DEF IsHop
  <2>3. BagToSet(net)' \subseteq BagToSet(net) \cup new
    BY <1>0 DEF Changes
  <2> QED BY <2>1, <2>2, <2>3 DEF Genuine
<1>14. ASSUME NEW t \in Host PROVE Accounted(t)'
  <2>1. CASE t # v
    <3>1. visited'[t] = visited[t] /\ Due(t)' = Due(t)
      BY <1>5, <1>6, <2>1 DEF Due
    <3>2. Due(t) # p
      BY <2>1 DEF Due
    <3>3. BagToSet(net) \ {p} \subseteq BagToSet(net)'
      BY <1>0 DEF Changes
    <3> QED BY <1>0, <1>5, <1>9, <3>1, <3>2, <3>3 DEF IInv, Accounted, Launched
  <2>2. CASE t = v /\ HopPacket(v, p.index + 1) \in new
    <3>1. Due(v)' = [tour |-> v, addrs |-> Stops(v), index |-> (k + 1) + 2,
                     ip_src |-> n, ip_dst |-> Stops(v)[(k + 1) + 2]]
      <4>1. k + 1 # 0
        BY <1>2
      <4> QED BY <1>5, <1>7, <4>1 DEF Due
    <3>2. (k + 1) + 2 = p.index + 1
      BY <1>1, <1>2
    <3>3. Source(v, p.index + 1) = n
      <4>1. p.index + 1 # 2 /\ (p.index + 1) - 1 = p.index
        BY <1>1, <1>2
      <4> QED BY <1>1, <4>1 DEF Source
    <3>4. Due(v)' = HopPacket(v, p.index + 1)
      BY <3>1, <3>2, <3>3 DEF HopPacket
    <3>5. Due(v)' \in BagToSet(net)'
      BY <1>0, <2>2, <3>4 DEF Changes
    <3> QED BY <2>2, <3>5 DEF Accounted
  <2>3. CASE t = v /\ <<n, v>> \in arrivals'
    <3>1. Last(visited'[v]) = n /\ visited'[v] # <<>>
      BY <1>2, <1>7 DEF Last
    <3> QED BY <2>3, <3>1 DEF Accounted
  <2> QED BY <1>0, <1>1, <2>1, <2>2, <2>3
<1> QED BY <1>11, <1>12, <1>13, <1>14 DEF IInv

LEMMA StepHolds ==
  ASSUME IInv, [Next]_vars
  PROVE  IInv'
<1>1. TypeOK /\ Genuine
  BY DEF IInv
<1>2. TypeOK'
  BY <1>1, TypeKept
<1>3. net \in {net} /\ IsABag(net)
  BY <1>1 DEF TypeOK
<1>4. CASE UNCHANGED vars
  <2>1. Changes({}, {})
    BY <1>3, <1>4 DEF Changes, vars
  <2>2. Quiet({}, {})
    BY <1>4, <2>1 DEF Quiet, vars
  <2> QED BY <1>2, <2>2, QuietStep
<1>5. ASSUME NEW n \in Host, StartIdle(n) PROVE IInv'
  <2>1. Changes({}, {})
    BY <1>3, <1>5 DEF Changes, StartIdle
  <2>2. \A t \in Host : (pc'[t] = "down" => pc[t] = "down")
                        /\ (pc'[t] = "loop" => pc[t] = "loop" \/ plan[t] = <<>>)
    BY <1>1, <1>5 DEF StartIdle, TypeOK
  <2>3. Quiet({}, {})
    BY <1>5, <2>1, <2>2 DEF Quiet, StartIdle
  <2> QED BY <1>2, <2>3, QuietStep
<1>6. ASSUME NEW n \in Host, StartTour(n) PROVE IInv'
  <2>1. pc \in [Host -> {"down", "loop", "crashed"}] /\ pc[n] = "down"
    BY <1>1, <1>6 DEF TypeOK, StartTour
  <2>2. CASE AtEnd(FirstPacket(n))
    <3>1. net' = net /\ pc' = [pc EXCEPT ![n] = "crashed"]
      BY <1>6, <2>2 DEF StartTour
    <3>2. Changes({}, {})
      BY <1>3, <3>1 DEF Changes
    <3>3. \A t \in Host : (pc'[t] = "down" => pc[t] = "down")
                          /\ (pc'[t] = "loop" => pc[t] = "loop")
      BY <2>1, <3>1
    <3>4. Quiet({}, {})
      BY <1>6, <3>2, <3>3 DEF Quiet, StartTour
    <3> QED BY <1>2, <3>4, QuietStep
  <2>3. CASE ~AtEnd(FirstPacket(n))
    <3>1. net' = net (+) SetToBag({HopPacket(n, 2)}) /\ pc' = [pc EXCEPT ![n] = "loop"]
      BY <1>6, <2>3, FirstHop DEF StartTour
    <3>2. Changes({}, {HopPacket(n, 2)})
      BY <1>1, <3>1, AddedToNet
    <3>3. visited[n] = <<>>
      BY <2>1 DEF IInv, Walked
    <3>4. /\ \A t \in Host : pc'[t] = "down" => pc[t] = "down"
          /\ \A t \in Host : pc'[t] = "loop" =>
               pc[t] = "loop" \/ (HopPacket(t, 2) \in {HopPacket(n, 2)} /\ visited[t] = <<>>)
      BY <2>1, <3>1, <3>3
    <3>5. IsHop(HopPacket(n, 2))'
      <4>1. Len(Stops(n)) # 1
        BY <2>3 DEF AtEnd, FirstPacket
      <4>2. Len(Stops(n)) \in Nat /\ Len(Stops(n)) >= 1
        BY <1>1, StopsType
      <4>3. 2 \in 2..Len(Stops(n))
        <5>1. PICK k \in Nat : k = Len(Stops(n))
          BY <4>2
        <5> QED BY <4>1, <4>2, <5>1
      <4>4. visited'[n] = <<>> /\ Len(visited'[n]) = 0 /\ pc'[n] # "down"
        BY <1>6, <2>1, <3>1, <3>3 DEF StartTour
      <4>5. /\ \A t : Stops(t)' = Stops(t)
            /\ \A t, i : HopPacket(t, i)' = HopPacket(t, i)
        BY <1>6, SamePlan DEF StartTour
      <4>6. HopPacket(n, 2).tour = n /\ HopPacket(n, 2).index = 2
        BY HopFields
      <4> QED BY <4>3, <4>4, <4>5, <4>6 DEF IsHop
    <3>6. UNCHANGED <<plan, pg_head, visited, arrivals, skipped, lost>>
      BY <1>6 DEF StartTour
    <3> DEFINE new == {HopPacket(n, 2)}
    <3>7. \A p \in new : IsHop(p)'
      <4>1. HopPacket(n, 2)' = HopPacket(n, 2)
        BY <3>6, SamePlan
      <4> QED BY <3>5, <4>1 DEF IsHop
    <3> HIDE DEF new
    <3>8. /\ Changes({}, new)
          /\ \A t \in Host : pc'[t] = "loop" =>
               pc[t] = "loop" \/ (HopPacket(t, 2) \in new /\ visited[t] = <<>>)
      BY <3>2, <3>4 DEF new
    <3>9. Quiet({}, new)
      BY <3>4, <3>6, <3>7, <3>8 DEF Quiet
    <3> QED BY <1>2, <3>9, QuietStep
  <2> QED BY <2>2, <2>3
<1>7. ASSUME NEW p \in BagToSet(net), NEW n \in Host, Skip(n, p) PROVE IInv'
  <2>1. Changes({p}, {})
    BY <1>1, <1>7, RemovedFromNet DEF Skip
  <2>2. Quiet({p}, {})
    BY <1>7, <2>1 DEF Quiet, Skip
  <2> QED BY <1>2, <2>2, QuietStep
<1>8. ASSUME NEW p \in BagToSet(net), NEW n \in Host, Reach(n, p) PROVE IInv'
  <2>1. Changes({p}, {})
    BY <1>1, <1>8, RemovedFromNet DEF Reach
  <2>2. Take(n, p) /\ PassesOn(n, p, {})
    BY <1>8, <2>1 DEF Reach, PassesOn
  <2> QED BY <1>2, <2>2, TakeStep
<1>9. ASSUME NEW p \in BagToSet(net), NEW n \in Host, Forward(n, p) PROVE IInv'
  <2>1. Take(n, p) /\ ~AtEnd(p) /\ arrivals' = arrivals
        /\ net' = (net (-) SetToBag({p})) (+) SetToBag({Header(n, p)})
    BY <1>9 DEF Forward
  <2>2. /\ p.index \in 2..Len(Stops(p.tour)) /\ n = Stops(p.tour)[p.index]
        /\ p = HopPacket(p.tour, p.index)
    BY <2>1, TakenIsDue
  <2>3. p.index \in Nat /\ p.index >= 2
    BY <2>2
  <2>4. Header(n, p) = HopPacket(p.tour, p.index + 1)
    BY <2>2, <2>3, NextHop
  <2>5. p.index # Len(Stops(p.tour))
    BY <2>1, <2>2, HopFields DEF AtEnd
  <2> DEFINE new == {HopPacket(p.tour, p.index + 1)}
  <2>6. Changes({p}, new)
    BY <1>1, <2>1, <2>4, PassedOn
  <2>7. /\ \A q \in new : q = HopPacket(p.tour, p.index + 1) /\ p.index # Len(Stops(p.tour))
        /\ HopPacket(p.tour, p.index + 1) \in new
    BY <2>5
  <2> HIDE DEF new
  <2>8. PassesOn(n, p, new)
    BY <2>1, <2>6, <2>7 DEF PassesOn
  <2> QED BY <1>2, <2>1, <2>8, TakeStep
<1>10. ASSUME NEW p \in BagToSet(net), NEW n \in Host, Unclaimed(n, p) PROVE IInv'
  <2>1. Changes({p}, {})
    BY <1>1, <1>10, RemovedFromNet DEF Unclaimed
  <2>2. Quiet({p}, {})
    BY <1>10, <2>1 DEF Quiet, Unclaimed
  <2> QED BY <1>2, <2>2, QuietStep
<1>11. ASSUME NEW p \in BagToSet(net), Lose(p) PROVE IInv'
  <2>1. Changes({p}, {})
    BY <1>1, <1>11, RemovedFromNet DEF Lose
  <2>2. Quiet({p}, {})
    BY <1>11, <2>1 DEF Quiet, Lose
  <2> QED BY <1>2, <2>2, QuietStep
<1>12. ASSUME NEW p \in BagToSet(net), Duplicate(p) PROVE IInv'
  <2>1. Changes({}, {p})
    BY <1>1, <1>12, AddedToNet DEF Duplicate
  <2>2. Changes({}, {})
    BY <2>1 DEF Changes
  <2>3. Quiet({}, {})
    BY <1>12, <2>2 DEF Quiet, Duplicate
  <2> QED BY <1>2, <2>3, QuietStep
<1> QED BY <1>4, <1>5, <1>6, <1>7, <1>8, <1>9, <1>10, <1>11, <1>12 DEF Next, Arrive

LEMMA IInvHolds == Spec => []IInv
BY InitHolds, StepHolds, PTL DEF Spec

(***************************************************************************)
(* The theorems.                                                           *)
(***************************************************************************)
\* Every variable of the nodes and of the network keeps its type.
THEOREM TypeCorrect == Spec => []TypeOK
<1>1. IInv => TypeOK
  BY DEF IInv
<1> QED BY <1>1, IInvHolds, PTL

\* The stops of a tour take its packet in the order of the list and each once
\* for every visit it is due (arp_test/tour.c 180-210), whatever tours cross
\* and whichever packets IP duplicates, delays or loses.
THEOREM StopsTakeInOrder == Spec => []StopsInOrder
<1>1. ASSUME IInv, NEW t \in Host PROVE IsPrefix(visited[t], Tail(Stops(t)))
  <2>1. TypeOK /\ Walked(t)
    BY <1>1 DEF IInv
  <2>2. /\ visited[t] \in Seq(Host) /\ Len(visited[t]) \in Nat
        /\ Stops(t) \in Seq(Host) /\ Len(Stops(t)) \in Nat /\ Len(Stops(t)) >= 1
    BY <2>1, StopsType DEF TypeOK
  <2> DEFINE k == Len(visited[t])
             rest == Tail(Stops(t))
  <2>3. k + 1 <= Len(Stops(t)) /\ \A i \in 1..k : visited[t][i] = Stops(t)[i+1]
    BY <2>1 DEF Walked
  <2>4. /\ rest \in Seq(Host) /\ Len(rest) = Len(Stops(t)) - 1
        /\ \A i \in 1..(Len(Stops(t)) - 1) : rest[i] = Stops(t)[i+1]
    <3>1. Stops(t) # <<>>
      BY <2>2, EmptySeq
    <3> QED BY <2>2, <3>1, HeadTailProperties
  <2>5. k <= Len(rest) /\ \A i \in 1..k : visited[t][i] = rest[i]
    BY <2>2, <2>3, <2>4
  <2>6. /\ SubSeq(visited[t], 1, k) = [i \in 1..k |-> visited[t][i]]
        /\ SubSeq(rest, 1, k) = [i \in 1..k |-> rest[i]]
    BY <2>2, <2>4, <2>5
  <2> QED BY <2>5, <2>6 DEF IsPrefix
<1>2. IInv => StopsInOrder
  BY <1>1 DEF StopsInOrder
<1> QED BY <1>2, IInvHolds, PTL

\* A tour never vanishes: the list is done, its packet is under way, it was
\* lost or taken for a duplicate, or the last node to take it said
\* "Destination reached" (is_dest is never reset).
THEOREM ToursEndForAReason == Spec => []EndsForAReason
<1>1. IInv => EndsForAReason
  BY DEF IInv, Accounted, EndsForAReason
<1> QED BY <1>1, IInvHolds, PTL
===============================================================================
