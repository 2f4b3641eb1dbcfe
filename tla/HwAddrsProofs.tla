----------------------------- MODULE HwAddrsProofs -----------------------------
(***************************************************************************)
(* Theorems about HwAddrs, for any devices, any guess and increment of the *)
(* buffer's length, and any changes of the interfaces.                     *)
(***************************************************************************)
EXTENDS HwAddrs, ListLemmas

\* What is listed, and the entries accepted, are of devices that are there.
Present(s) == \A e \in Range(s) : e.dev \notin removed => index[e.dev] # 0

Hwa == [dev : Device, labelled : BOOLEAN, ip_alias : BOOLEAN,
        if_haddr : Int, if_index : Int]

HTypes ==
  /\ strict \in BOOLEAN
  /\ owner \in Seq(Device) /\ index \in [Device -> Nat]
  /\ listed \in Seq(Listed) /\ ifr \in Seq(Listed) /\ hwa \in Seq(Hwa)
  /\ len \in Nat /\ lastlen \in Nat

\* An index leads back to the device that has it.
Owned == \A d \in Device : index[d] # 0 => index[d] \in DOMAIN owner /\ owner[index[d]] = d

Progress ==
  /\ pc = "list" => lastlen < len /\ hwa = <<>>
  /\ pc = "hwaddr" => Len(hwa) < Len(ifr)
  /\ pc = "index" => Len(hwa) \in 1..Len(ifr)
  /\ \A k \in DOMAIN hwa : k \in DOMAIN ifr /\ hwa[k].dev = ifr[k].dev

HInv == HTypes /\ Owned /\ Present(listed) /\ Present(ifr) /\ Progress

\* InfoRight of an entry, as long as its device is there and after that.
Shown(k) == hwa[k].dev \notin removed => Looked(k) = {index[hwa[k].dev]}
Held(k) ==
  /\ Had(hwa[k].dev, hwa[k].if_haddr) \/ hwa[k].if_haddr = IpBytes
  /\ \A i \in Looked(k) \ {hwa[k].if_haddr} :
       Had(hwa[k].dev, i) \/ i \in {AF_INET, HwNumber[hwa[k].dev]}

LEMMA InfoIs == InfoRight <=> \A k \in DOMAIN hwa : Shown(k) /\ Held(k)
BY Zenon DEF InfoRight, Shown, Held

LEMMA InitHInv == Init => HInv
<1> SUFFICES ASSUME Init PROVE HInv
  OBVIOUS
<1>1. owner \in Seq(Device) /\ DOMAIN owner = 1..2
  <2>1. owner \in [1..2 -> Device]
    BY DEF Init
  <2> QED BY <2>1, SeqDef
<1>2. \A d \in Device : index[d] # 0 => index[d] \in 1..2 /\ owner[index[d]] = d
  <2> SUFFICES ASSUME NEW d \in Device, index[d] # 0
               PROVE  index[d] \in 1..2 /\ owner[index[d]] = d
    OBVIOUS
  <2>1. index[d] = IF \E i \in 1..2 : owner[i] = d
                     THEN CHOOSE i \in 1..2 : owner[i] = d ELSE 0
    BY DEF Init
  <2>2. \E i \in 1..2 : owner[i] = d
    BY <2>1
  <2> QED BY <2>1, <2>2
<1>3. index \in [Device -> Nat]
  <2>1. index = [d \in Device |-> index[d]]
    BY DEF Init
  <2>2. \A d \in Device : index[d] \in Nat
    BY <1>2
  <2> QED BY <2>1, <2>2
<1>4. listed \in Seq(Listed) /\ Present(listed)
  BY DeviceAssumption DEF Init, Present, Range
<1>5. ifr = <<>> /\ hwa = <<>> /\ len \in Nat /\ lastlen \in Nat /\ lastlen < len /\ strict \in BOOLEAN
  BY SizeAssumption DEF Init
<1>6. Progress
  BY <1>5 DEF Progress, Init
<1>7. Present(ifr)
  BY <1>5 DEF Present, Range
<1> QED BY <1>1, <1>2, <1>3, <1>4, <1>5, <1>6, <1>7 DEF HInv, HTypes, Owned

(***************************************************************************)
(* The kernel's steps.                                                     *)
(***************************************************************************)
LEMMA RangeType == ASSUME NEW S, NEW s \in Seq(S), NEW e \in Range(s) PROVE e \in S
BY DEF Range

LEMMA SubSeqRange ==
  ASSUME NEW S, NEW s \in Seq(S), NEW m \in Nat, NEW n \in Nat, m >= 1, n <= Len(s)
  PROVE  SubSeq(s, m, n) \in Seq(S) /\ Range(SubSeq(s, m, n)) \subseteq Range(s)
<1>1. Len(s) \in Nat /\ DOMAIN s = 1..Len(s) /\ \A i \in 1..Len(s) : s[i] \in S
  OBVIOUS
<1>2. \A i \in m..n : i \in 1..Len(s)
  BY <1>1
<1> DEFINE t == SubSeq(s, m, n)
<1>3. /\ t \in Seq(S) /\ Len(t) = IF m <= n THEN n - m + 1 ELSE 0
      /\ \A i \in 1..(n - m + 1) : t[i] = s[m + i - 1]
  BY <1>1, <1>2, SubSeqProperties
<1> HIDE DEF t
<1>4. ASSUME NEW i \in DOMAIN t PROVE t[i] \in Range(s)
  <2>1. i \in 1..Len(t)
    BY <1>3, <1>4
  <2>2. i \in 1..(n - m + 1) /\ m + i - 1 \in 1..Len(s)
    BY <1>1, <1>3, <2>1
  <2> QED BY <1>1, <1>3, <2>2 DEF Range
<1> QED BY <1>3, <1>4 DEF Range, t

LEMMA ConcatRange ==
  ASSUME NEW S, NEW s \in Seq(S), NEW t \in Seq(S)
  PROVE  s \o t \in Seq(S) /\ Range(s \o t) \subseteq Range(s) \cup Range(t)
<1>1. /\ s \o t \in Seq(S) /\ Len(s \o t) = Len(s) + Len(t)
      /\ \A k \in 1..(Len(s) + Len(t)) : (s \o t)[k] = IF k <= Len(s) THEN s[k] ELSE t[k - Len(s)]
  BY ConcatProperties
<1>2. Len(s) \in Nat /\ Len(t) \in Nat /\ DOMAIN s = 1..Len(s) /\ DOMAIN t = 1..Len(t)
  OBVIOUS
<1> DEFINE u == s \o t
<1>3. DOMAIN u = 1..(Len(s) + Len(t))
  BY <1>1
<1> HIDE DEF u
<1>4. ASSUME NEW k \in DOMAIN u PROVE u[k] \in Range(s) \cup Range(t)
  <2>1. CASE k <= Len(s)
    <3>1. k \in DOMAIN s /\ u[k] = s[k]
      BY <1>1, <1>2, <1>3, <1>4, <2>1 DEF u
    <3> QED BY <3>1 DEF Range
  <2>2. CASE ~(k <= Len(s))
    <3>1. k - Len(s) \in DOMAIN t /\ u[k] = t[k - Len(s)]
      BY <1>1, <1>2, <1>3, <1>4, <2>2 DEF u
    <3> QED BY <3>1 DEF Range
  <2> QED BY <2>1, <2>2
<1> QED BY <1>1, <1>4 DEF Range, u

LEMMA AppendRange ==
  ASSUME NEW S, NEW s \in Seq(S), NEW e \in S
  PROVE  Append(s, e) \in Seq(S) /\ Range(Append(s, e)) \subseteq Range(s) \cup {e}
<1>1. /\ Append(s, e) \in Seq(S) /\ DOMAIN s = 1..Len(s) /\ Len(s) \in Nat
      /\ DOMAIN Append(s, e) = 1..(Len(s) + 1)
      /\ \A k \in 1..(Len(s) + 1) :
           Append(s, e)[k] = e \/ (k \in 1..Len(s) /\ Append(s, e)[k] = s[k])
  OBVIOUS
<1> QED BY <1>1 DEF Range

\* Cutting out a part.
LEMMA CutRange ==
  ASSUME NEW S, NEW s \in Seq(S), NEW i \in Nat, NEW j \in Nat, i <= Len(s), j <= Len(s)
  PROVE  LET t == SubSeq(s, 1, i) \o SubSeq(s, j + 1, Len(s))
         IN  t \in Seq(S) /\ Range(t) \subseteq Range(s)
<1> DEFINE a == SubSeq(s, 1, i)
           b == SubSeq(s, j + 1, Len(s))
<1>1. a \in Seq(S) /\ Range(a) \subseteq Range(s)
  BY SubSeqRange
<1>2. b \in Seq(S) /\ Range(b) \subseteq Range(s)
  <2>1. j + 1 \in Nat /\ j + 1 >= 1 /\ Len(s) \in Nat /\ Len(s) <= Len(s)
    OBVIOUS
  <2> QED BY <2>1, SubSeqRange
<1> HIDE DEF a, b
<1>3. a \o b \in Seq(S) /\ Range(a \o b) \subseteq Range(a) \cup Range(b)
  BY <1>1, <1>2, ConcatRange
<1> QED BY <1>1, <1>2, <1>3 DEF a, b

\* What is listed after a step of the kernel was listed before, or is an
\* address of a device that is there.
LEMMA ListedStep ==
  ASSUME HInv, Kernel
  PROVE  /\ listed' \in Seq(Listed)
         /\ \A e \in Range(listed') : e \in Range(listed) \/ (index[e.dev] # 0 /\ index' = index)
<1> USE DEF HInv, HTypes
<1>1. ASSUME NEW e \in Listed, AddAddress(e)
      PROVE  /\ listed' \in Seq(Listed) /\ Range(listed') \subseteq Range(listed) \cup {e}
             /\ index[e.dev] # 0 /\ index' = index
  <2>1. index[e.dev] # 0 /\ index' = index
    BY <1>1 DEF AddAddress
  <2>2. CASE listed' = Append(listed, e)
    BY <2>1, <2>2, AppendRange
  <2>3. ASSUME NEW i \in Of(e.dev), listed' = InsertAt(listed, i + 1, e)
        PROVE  listed' \in Seq(Listed) /\ Range(listed') \subseteq Range(listed) \cup {e}
    <3> DEFINE a == SubSeq(listed, 1, i)
               b == SubSeq(listed, i + 1, Len(listed))
               c == <<e>>
    <3>1. i \in Nat /\ i >= 1 /\ i <= Len(listed) /\ Len(listed) \in Nat /\ i + 1 \in Nat
          /\ i + 1 >= 1 /\ (i + 1) - 1 = i
      <4>1. i \in 1..Len(listed) /\ Len(listed) \in Nat
        BY <2>3 DEF Of
      <4> QED BY <4>1
    <3>2. a \in Seq(Listed) /\ Range(a) \subseteq Range(listed)
      BY <3>1, SubSeqRange
    <3>3. b \in Seq(Listed) /\ Range(b) \subseteq Range(listed)
      BY <3>1, SubSeqRange
    <3>4. listed' = (a \o c) \o b
      BY <2>3, <3>1 DEF InsertAt
    <3>5. c \in Seq(Listed) /\ Range(c) = {e}
      BY DEF Range
    <3> HIDE DEF a, b, c
    <3>6. a \o c \in Seq(Listed) /\ Range(a \o c) \subseteq Range(a) \cup Range(c)
      BY <3>2, <3>5, ConcatRange
    <3>7. (a \o c) \o b \in Seq(Listed) /\ Range((a \o c) \o b) \subseteq Range(a \o c) \cup Range(b)
      BY <3>3, <3>6, ConcatRange
    <3> QED BY <3>2, <3>3, <3>4, <3>5, <3>6, <3>7
  <2> QED BY <1>1, <2>1, <2>2, <2>3 DEF AddAddress
<1>2. ASSUME NEW i \in DOMAIN listed, RemoveAddress(i)
      PROVE  listed' \in Seq(Listed) /\ Range(listed') \subseteq Range(listed)
  <2>1. i \in Nat /\ i - 1 \in Nat /\ i - 1 <= Len(listed) /\ i <= Len(listed)
    BY <1>2
  <2>2. listed' = SubSeq(listed, 1, i - 1) \o SubSeq(listed, i + 1, Len(listed))
    BY <1>2 DEF RemoveAddress, RemoveAt
  <2> QED BY <2>1, <2>2, CutRange
<1>3. ASSUME NEW d \in Device, Unplug(d)
      PROVE  listed' \in Seq(Listed) /\ Range(listed') \subseteq Range(listed)
  <2>1. PICK j \in 0..Len(listed) : \E i \in 1..(j + 1) :
          listed' = SubSeq(listed, 1, i - 1) \o SubSeq(listed, j + 1, Len(listed))
    BY <1>3 DEF Unplug
  <2>2. PICK i \in 1..(j + 1) :
          listed' = SubSeq(listed, 1, i - 1) \o SubSeq(listed, j + 1, Len(listed))
    BY <2>1
  <2>3. i - 1 \in Nat /\ j \in Nat /\ i - 1 <= Len(listed) /\ j <= Len(listed)
    <3>1. Len(listed) \in Nat
      OBVIOUS
    <3> QED BY <2>1, <2>2, <3>1
  <2> QED BY <2>2, <2>3, CutRange
<1>4. ASSUME NEW d \in Device, Plug(d) PROVE listed' = listed
  BY <1>4 DEF Plug
<1> QED BY <1>1, <1>2, <1>3, <1>4 DEF Kernel

\* The kernel leaves the program's state alone, and the index of a device
\* that is not removed.
LEMMA KernelKeeps ==
  ASSUME HInv, Kernel
  PROVE  /\ UNCHANGED <<strict, pc, len, lastlen, lists>>
         /\ removed \subseteq removed'
         /\ \A d \in Device : d \notin removed' /\ index[d] # 0 => index'[d] = index[d]
<1> USE DEF HInv, HTypes
<1>0. UNCHANGED <<strict, pc, len, lastlen, lists>>
  BY DEF Kernel, AddAddress, RemoveAddress, Unplug, Plug, Change
<1>1. ASSUME NEW d \in Device, Plug(d)
      PROVE  removed' = removed /\ index[d] = 0 /\ index' = [index EXCEPT ![d] = Len(owner) + 1]
  BY <1>1 DEF Plug
<1>2. ASSUME NEW d \in Device, Unplug(d)
      PROVE  removed' = removed \cup {d} /\ index' = [index EXCEPT ![d] = 0]
  BY <1>2 DEF Unplug
<1>3. ASSUME NEW e, AddAddress(e) PROVE removed' = removed /\ index' = index
  BY <1>3 DEF AddAddress
<1>4. ASSUME NEW i, RemoveAddress(i) PROVE removed' = removed /\ index' = index
  BY <1>4 DEF RemoveAddress
<1> QED BY <1>0, <1>1, <1>2, <1>3, <1>4 DEF Kernel

LEMMA KernelStep ==
  ASSUME HInv, InfoRight, Kernel
  PROVE  HInv' /\ InfoRight'
<1> USE DEF HInv, HTypes
<1>1. UNCHANGED <<strict, pc, len, lastlen, lists>>
  BY KernelKeeps
<1>2. /\ owner' \in Seq(Device) /\ \A i \in DOMAIN owner : i \in DOMAIN owner' /\ owner'[i] = owner[i]
      /\ index' \in [Device -> Nat] /\ Owned'
  <2>1. ASSUME NEW d \in Device, Plug(d)
        PROVE  /\ owner' \in Seq(Device)
               /\ \A i \in DOMAIN owner : i \in DOMAIN owner' /\ owner'[i] = owner[i]
               /\ index' \in [Device -> Nat] /\ Owned'
    <3> DEFINE n == Len(owner) + 1
    <3>1. /\ owner' = Append(owner, d) /\ index' = [index EXCEPT ![d] = n] /\ n \in Nat
      BY <2>1 DEF Plug
    <3>2. /\ owner' \in Seq(Device) /\ n \in DOMAIN owner' /\ owner'[n] = d
          /\ \A i \in DOMAIN owner : i \in DOMAIN owner' /\ owner'[i] = owner[i]
      BY <3>1
    <3> HIDE DEF n
    <3> QED BY <3>1, <3>2 DEF Owned
  <2>2. ASSUME NEW d \in Device, Unplug(d)
        PROVE  owner' = owner /\ index' \in [Device -> Nat] /\ Owned'
    <3>1. owner' = owner /\ index' = [index EXCEPT ![d] = 0]
      BY <2>2 DEF Unplug
    <3> QED BY <3>1 DEF Owned
  <2>3. ASSUME NEW e, AddAddress(e) PROVE owner' = owner /\ index' = index
    BY <2>3 DEF AddAddress
  <2>4. ASSUME NEW i, RemoveAddress(i) PROVE owner' = owner /\ index' = index
    BY <2>4 DEF RemoveAddress
  <2>5. CASE owner' = owner /\ index' = index
    BY <2>5 DEF Owned
  <2> QED BY <2>1, <2>2, <2>3, <2>4, <2>5 DEF Kernel
<1>3. /\ removed \subseteq removed'
      /\ \A d \in Device : d \notin removed' /\ index[d] # 0 => index'[d] = index[d]
  BY KernelKeeps
<1>4. listed' \in Seq(Listed) /\ Present(listed)'
  <2>1. listed' \in Seq(Listed)
    BY ListedStep
  <2>2. ASSUME NEW e \in Range(listed'), e.dev \notin removed' PROVE index'[e.dev] # 0
    <3>1. e.dev \in Device
      <4>1. e \in Listed
        BY <2>1, <2>2, RangeType
      <4> QED BY <4>1 DEF Listed
    <3>2. CASE e \in Range(listed)
      BY <1>3, <2>2, <3>1, <3>2 DEF Present
    <3>3. CASE index[e.dev] # 0 /\ index' = index
      BY <3>3
    <3> QED BY <2>2, <3>2, <3>3, ListedStep
  <2> QED BY <2>1, <2>2 DEF Present
<1>5. Present(ifr)'
  <2>1. \A e \in Range(ifr) : e.dev \in Device
    <3>1. \A e \in Range(ifr) : e \in Listed
      BY RangeType
    <3> QED BY <3>1 DEF Listed
  <2> QED BY <1>1, <1>3, <2>1 DEF Present, lists
<1>6. Progress'
  BY <1>1 DEF Progress, lists
<1>7. InfoRight'
  <2>1. hwa' = hwa /\ \A k \in DOMAIN hwa : Looked(k)' = Looked(k)
    BY <1>1 DEF Looked, lists
  <2>2. ASSUME NEW k \in DOMAIN hwa
        PROVE  hwa[k].dev \in Device /\ (hwa[k].dev \notin removed => index[hwa[k].dev] # 0)
    <3>1. k \in DOMAIN ifr /\ hwa[k].dev = ifr[k].dev
      BY DEF Progress
    <3>2. ifr[k] \in Range(ifr) /\ ifr[k] \in Listed
      BY <3>1 DEF Range
    <3> QED BY <3>1, <3>2 DEF Present, Listed
  <2>3. ASSUME NEW k \in DOMAIN hwa
        PROVE  hwa[k].dev \notin removed' => Looked(k) = {index'[hwa[k].dev]}
    <3> SUFFICES ASSUME hwa[k].dev \notin removed' PROVE Looked(k) = {index'[hwa[k].dev]}
      OBVIOUS
    <3>1. hwa[k].dev \notin removed
      BY <1>3
    <3>2. index'[hwa[k].dev] = index[hwa[k].dev]
      BY <1>3, <2>2, <3>1
    <3> QED BY <3>1, <3>2, InfoIs DEF Shown
  <2>4. \A d, i : Had(d, i) => Had(d, i)'
    BY <1>2 DEF Had
  <2>5. ASSUME NEW k \in DOMAIN hwa PROVE Held(k)'
    <3>1. Held(k) /\ Looked(k)' = Looked(k)
      BY <2>1, InfoIs
    <3> QED BY <2>1, <2>4, <3>1 DEF Held
  <2>6. \A k \in DOMAIN hwa : Shown(k)'
    BY <2>1, <2>3 DEF Shown
  <2> QED BY <2>1, <2>5, <2>6 DEF InfoRight, Shown, Held
<1> QED BY <1>1, <1>2, <1>4, <1>5, <1>6, <1>7 DEF lists

(***************************************************************************)
(* The program's steps.                                                    *)
(***************************************************************************)
\* The lengths of the last two calls agree only if nothing was cut off.
LEMMA SettledIsWhole ==
  ASSUME HInv, ListSettled PROVE Returned = listed
<1> USE DEF HInv, HTypes
<1>1. Len(listed) \in Nat /\ len \in Nat /\ lastlen \in Nat /\ lastlen < len
  BY DEF ListSettled, Progress
<1>2. CASE Len(listed) < len
  <2>1. SubSeq(listed, 1, Len(listed)) = listed
    BY SubSeqFull
  <2> QED BY <1>2, <2>1 DEF Returned
<1>3. CASE ~(Len(listed) < len)
  <2>1. Returned = SubSeq(listed, 1, len) /\ len <= Len(listed) /\ 1 <= len
    BY <1>1, <1>3 DEF Returned
  <2>2. Len(Returned) = len
    BY <1>1, <2>1
  <2> QED BY <1>1, <2>2 DEF ListSettled
<1> QED BY <1>2, <1>3

\* What the two calls leave in an entry.
LEMMA CallsGive ==
  ASSUME HInv, NEW d \in Device, d \notin removed => index[d] # 0, NEW a \in Int
  PROVE  /\ SIOCGIFHWADDR(d) \in Int /\ SIOCGIFINDEX(d, a) \in Int
         /\ d \notin removed => SIOCGIFHWADDR(d) = index[d] /\ SIOCGIFINDEX(d, a) = index[d]
         /\ Had(d, SIOCGIFHWADDR(d)) \/ SIOCGIFHWADDR(d) = IpBytes
         /\ Had(d, SIOCGIFINDEX(d, a)) \/ SIOCGIFINDEX(d, a) \in {AF_INET, HwNumber[d]}
<1>1. index[d] \in Nat /\ (index[d] # 0 => Had(d, index[d]))
  BY DEF HInv, HTypes, Owned, Had
<1>2. HwNumber[d] \in Int
  BY NumberAssumption
<1>3. CASE index[d] # 0
  BY <1>1, <1>3 DEF SIOCGIFHWADDR, SIOCGIFINDEX
<1>4. CASE index[d] = 0
  BY <1>2, <1>4 DEF SIOCGIFHWADDR, SIOCGIFINDEX, IpBytes, AF_INET
<1> QED BY <1>3, <1>4

\* The device of an accepted entry is there, or was removed.
LEMMA EntryPresent ==
  ASSUME HInv, NEW k \in DOMAIN ifr
  PROVE  ifr[k].dev \in Device /\ (ifr[k].dev \notin removed => index[ifr[k].dev] # 0)
<1>1. ifr[k] \in Range(ifr) /\ ifr[k] \in Listed
  BY DEF HInv, HTypes, Range
<1> QED BY <1>1 DEF HInv, Present, Listed

LEMMA ProgramStep ==
  ASSUME HInv, InfoRight, Program
  PROVE  HInv' /\ InfoRight'
<1> USE DEF HInv, HTypes
<1>1. UNCHANGED kernel
  BY DEF Program, ListRefused, ListAgain, ListSettled, GetHwAddr, GetIndex,
         BindLink, BindFails, Bound
<1>2. Owned' /\ Present(listed)'
  BY <1>1 DEF Owned, Present, kernel
<1>3. CASE ListRefused \/ ListAgain
  <2>1. UNCHANGED <<ifr, hwa>> /\ pc = "list" /\ pc' \in {"list", "exit"}
    BY <1>3 DEF ListRefused, ListAgain, lists
  <2>2. len' \in Nat /\ lastlen' \in Nat /\ (pc' = "list" => lastlen' < len')
    <3>1. lastlen < len /\ Increment \in Nat /\ Increment > 0
      BY <2>1, SizeAssumption DEF Progress
    <3>2. CASE ListRefused
      BY <3>1, <3>2 DEF ListRefused, Longer
    <3>3. CASE ListAgain
      <4>1. Len(Returned) \in Nat /\ Len(Returned) <= len
        <5> DEFINE n == IF Len(listed) < len THEN Len(listed) ELSE len
        <5>1. n \in Nat /\ n <= len /\ n <= Len(listed)
          OBVIOUS
        <5> HIDE DEF n
        <5>2. Len(SubSeq(listed, 1, n)) = n
          BY <5>1
        <5> QED BY <5>1, <5>2 DEF Returned, n
      <4> QED BY <3>1, <3>3, <4>1 DEF ListAgain, Longer
    <3> QED BY <1>3, <3>2, <3>3
  <2>3. HTypes'
    BY <1>1, <2>1, <2>2 DEF kernel
  <2>4. Present(ifr)' /\ Progress'
    BY <1>1, <2>1, <2>2 DEF kernel, Present, Progress
  <2>5. InfoRight'
    BY <1>1, <2>1 DEF InfoRight, Progress
  <2> QED BY <1>2, <2>3, <2>4, <2>5
<1>4. CASE ListSettled
  <2>1. ifr' = listed /\ pc' \in {"exit", "hwaddr"} /\ (pc' = "hwaddr" => listed # <<>>)
        /\ hwa = <<>> /\ UNCHANGED <<hwa, len, lastlen>>
    BY <1>4, SettledIsWhole DEF ListSettled, Progress
  <2>2. listed # <<>> => Len(listed) > 0
    BY EmptySeq, LenProperties
  <2>3. Progress' /\ Present(ifr)'
    BY <1>1, <2>1, <2>2 DEF Progress, Present, kernel
  <2>4. InfoRight'
    BY <2>1 DEF InfoRight
  <2> QED BY <1>1, <1>2, <2>1, <2>3, <2>4 DEF kernel
<1>5. CASE GetHwAddr
  <2> DEFINE k == Len(hwa) + 1
             h == [dev |-> ifr[k].dev, labelled |-> ifr[k].labelled,
                   ip_alias |-> IsAlias(k), if_haddr |-> SIOCGIFHWADDR(ifr[k].dev), if_index |-> 0]
  <2>1. /\ pc = "hwaddr" /\ pc' = "index" /\ hwa' = Append(hwa, h)
        /\ UNCHANGED <<len, lastlen, ifr>>
    BY <1>5 DEF GetHwAddr, ifrcopy
  <2>2. k \in DOMAIN ifr /\ k \in 1..Len(ifr)
    BY <2>1 DEF Progress
  <2>3. ifr[k] \in Listed /\ ifr[k].dev \in Device
        /\ (ifr[k].dev \notin removed => index[ifr[k].dev] # 0)
    BY <2>2, EntryPresent
  <2>4. /\ SIOCGIFHWADDR(ifr[k].dev) \in Int
        /\ ifr[k].dev \notin removed => SIOCGIFHWADDR(ifr[k].dev) = index[ifr[k].dev]
        /\ Had(ifr[k].dev, SIOCGIFHWADDR(ifr[k].dev)) \/ SIOCGIFHWADDR(ifr[k].dev) = IpBytes
    <3> DEFINE d == ifr[k].dev
    <3>1. 0 \in Int /\ d \in Device /\ (d \notin removed => index[d] # 0)
      BY <2>3
    <3> HIDE DEF d
    <3>2. /\ SIOCGIFHWADDR(d) \in Int /\ (d \notin removed => SIOCGIFHWADDR(d) = index[d])
          /\ Had(d, SIOCGIFHWADDR(d)) \/ SIOCGIFHWADDR(d) = IpBytes
      BY <3>1, CallsGive
    <3> QED BY <3>2 DEF d
  <2>5. /\ h \in Hwa /\ h.dev = ifr[k].dev
        /\ h.dev \notin removed => h.if_haddr = index[h.dev]
        /\ Had(h.dev, h.if_haddr) \/ h.if_haddr = IpBytes
    <3>1. IsAlias(k) \in BOOLEAN
      BY DEF IsAlias
    <3> QED BY <2>3, <2>4, <3>1 DEF Hwa, Listed
  <2>6. hwa \in Seq(Hwa)
    OBVIOUS
  <2> HIDE DEF h
  <2>7. /\ hwa' \in Seq(Hwa) /\ Len(hwa') = k /\ hwa'[k] = h /\ DOMAIN hwa' = 1..k
        /\ \A j \in 1..k : j = k \/ (j \in DOMAIN hwa /\ j # k /\ hwa'[j] = hwa[j])
    BY <2>1, <2>5, <2>6
  <2> HIDE DEF k
  <2>8. Progress'
    BY <2>1, <2>2, <2>5, <2>7 DEF Progress
  <2>9. Present(ifr)'
    BY <1>1, <2>1 DEF Present, kernel
  <2>10. \A d, i : Had(d, i)' <=> Had(d, i)
    BY <1>1 DEF Had, kernel
  <2>11. UNCHANGED <<removed, index>>
    BY <1>1 DEF kernel
  <2>12. ASSUME NEW j \in DOMAIN hwa' PROVE Shown(j)' /\ Held(j)'
    <3>1. CASE j = k
      <4>1. hwa'[j] = h /\ Looked(j)' = {h.if_haddr}
        BY <2>1, <2>7, <3>1 DEF Looked
      <4> QED BY <2>5, <2>10, <2>11, <4>1 DEF Shown, Held
    <3>2. CASE j # k
      <4>1. j \in DOMAIN hwa /\ hwa'[j] = hwa[j]
        BY <2>7, <2>12, <3>2
      <4>2. Looked(j)' = Looked(j)
        BY <2>1, <2>7, <3>2, <4>1 DEF Looked
      <4>3. Shown(j) /\ Held(j)
        BY <4>1, InfoIs
      <4> QED BY <2>10, <2>11, <4>1, <4>2, <4>3 DEF Shown, Held
    <3> QED BY <3>1, <3>2
  <2>13. InfoRight'
    BY <2>12 DEF InfoRight, Shown, Held
  <2> QED BY <1>1, <1>2, <2>1, <2>7, <2>8, <2>9, <2>13 DEF kernel
<1>6. CASE GetIndex
  <2> DEFINE k == Len(hwa)
             i == SIOCGIFINDEX(ifr[k].dev, hwa[k].if_haddr)
             h == [hwa[k] EXCEPT !.if_index = i]
  <2>1. /\ pc = "index" /\ pc' \in {"hwaddr", "bind"} /\ (pc' = "hwaddr" => k < Len(ifr))
        /\ hwa' = [hwa EXCEPT ![k] = h]
        /\ UNCHANGED <<len, lastlen, ifr>>
    BY <1>6 DEF GetIndex, ifrcopy
  <2>2. k \in DOMAIN ifr /\ k \in DOMAIN hwa /\ hwa[k].dev = ifr[k].dev
    BY <2>1 DEF Progress
  <2>3. hwa[k] \in Hwa /\ hwa[k].if_haddr \in Int /\ hwa \in Seq(Hwa)
    <3>1. hwa[k] \in Hwa /\ hwa \in Seq(Hwa)
      BY <2>2
    <3> QED BY <3>1 DEF Hwa
  <2>4. ifr[k].dev \in Device /\ (ifr[k].dev \notin removed => index[ifr[k].dev] # 0)
    BY <2>2, EntryPresent
  <2>5. /\ i \in Int
        /\ ifr[k].dev \notin removed => i = index[ifr[k].dev]
        /\ Had(ifr[k].dev, i) \/ i \in {AF_INET, HwNumber[ifr[k].dev]}
    BY <2>3, <2>4, CallsGive
  <2> HIDE DEF i
  <2>6. h \in Hwa /\ h.dev = hwa[k].dev /\ h.if_haddr = hwa[k].if_haddr /\ h.if_index = i
    BY <2>3, <2>5 DEF Hwa
  <2> HIDE DEF h
  <2>7. /\ hwa' \in Seq(Hwa) /\ Len(hwa') = k /\ DOMAIN hwa' = DOMAIN hwa /\ hwa'[k] = h
        /\ \A j \in DOMAIN hwa : j # k => hwa'[j] = hwa[j]
    BY <2>1, <2>2, <2>3, <2>6
  <2>8. Progress'
    BY <2>1, <2>2, <2>6, <2>7 DEF Progress
  <2>9. Present(ifr)'
    BY <1>1, <2>1 DEF Present, kernel
  <2>10. \A d, n : Had(d, n)' <=> Had(d, n)
    BY <1>1 DEF Had, kernel
  <2>11. UNCHANGED <<removed, index>>
    BY <1>1 DEF kernel
  <2>12. ASSUME NEW j \in DOMAIN hwa' PROVE Shown(j)' /\ Held(j)'
    <3>1. Shown(j) /\ Held(j) /\ j \in DOMAIN hwa
      BY <2>7, <2>12, InfoIs
    <3>2. CASE j = k
      <4>1. hwa'[j] = h /\ Looked(j)' = {h.if_haddr, i}
        BY <2>1, <2>6, <2>7, <3>2 DEF Looked
      <4>2. Looked(j) = {h.if_haddr} /\ hwa[j].dev = h.dev /\ hwa[j].if_haddr = h.if_haddr
            /\ h.dev = ifr[k].dev
        BY <2>1, <2>2, <2>6, <3>2 DEF Looked
      <4>3. h.dev \notin removed => {h.if_haddr, i} = {index[h.dev]}
        BY <2>5, <3>1, <4>2 DEF Shown
      <4>4. Had(h.dev, h.if_haddr) \/ h.if_haddr = IpBytes
        BY <3>1, <4>2 DEF Held
      <4>5. Shown(j)'
        BY <2>11, <4>1, <4>3 DEF Shown
      <4>6. Held(j)'
        BY <2>5, <2>10, <4>1, <4>2, <4>4 DEF Held
      <4> QED BY <4>5, <4>6
    <3>3. CASE j # k
      <4>1. hwa'[j] = hwa[j] /\ Looked(j)' = Looked(j)
        BY <2>1, <2>7, <3>1, <3>3 DEF Looked
      <4> QED BY <2>10, <2>11, <3>1, <4>1 DEF Shown, Held
    <3> QED BY <3>2, <3>3
  <2>13. InfoRight'
    BY <2>12 DEF InfoRight, Shown, Held
  <2> QED BY <1>1, <1>2, <2>1, <2>7, <2>8, <2>9, <2>13 DEF kernel
<1>7. CASE BindLink \/ BindFails \/ Bound
  <2>1. UNCHANGED <<len, lastlen, ifr, hwa>> /\ pc = "bind" /\ pc' \in {"bind", "exit", "done"}
    BY <1>7 DEF BindLink, BindFails, Bound, lists
  <2>2. Progress' /\ Present(ifr)'
    BY <1>1, <2>1 DEF Progress, Present, kernel
  <2>3. InfoRight'
    BY <1>1, <2>1 DEF InfoRight, Looked, Had, kernel
  <2> QED BY <1>1, <1>2, <2>1, <2>2, <2>3 DEF kernel
<1> QED BY <1>3, <1>4, <1>5, <1>6, <1>7 DEF Program

LEMMA StepHInv == HInv /\ InfoRight /\ [Next]_vars => HInv' /\ InfoRight'
<1>1. ASSUME HInv, InfoRight, UNCHANGED vars PROVE HInv' /\ InfoRight'
  <2>1. UNCHANGED kernel /\ UNCHANGED <<pc, len, lastlen, ifr, hwa>>
    BY <1>1 DEF vars, lists
  <2>2. HInv'
    BY <1>1, <2>1 DEF kernel, HInv, HTypes, Owned, Present, Progress
  <2>3. InfoRight'
    BY <1>1, <2>1 DEF kernel, InfoRight, Looked, Had
  <2> QED BY <2>2, <2>3
<1> QED BY <1>1, KernelStep, ProgramStep DEF Next

LEMMA InitInfo == Init => InfoRight
BY DEF Init, InfoRight

\* Whatever changes while the program looks, the address and the index of an
\* entry are those of its device as long as that is not removed; after that
\* they are of the device or what a failed call leaves.
THEOREM InfoIsRight == Spec => []InfoRight
BY InitHInv, InitInfo, StepHInv, PTL DEF Spec

\* The list accepted is the whole list, for any guess of its length and any
\* changes between the calls.
THEOREM WholeListAccepted == Spec => AcceptsWholeList
<1>1. HInv /\ InfoRight /\ [Next]_vars =>
        [pc = "list" /\ pc' = "hwaddr" => ifr' = listed]_vars
  <2> SUFFICES ASSUME HInv, Next, pc = "list", pc' = "hwaddr" PROVE ifr' = listed
    OBVIOUS
  <2>1. CASE ListSettled
    BY <2>1, SettledIsWhole DEF ListSettled
  <2>2. CASE ~ListSettled
    BY <2>2 DEF Next, Program, Kernel, AddAddress, RemoveAddress, Unplug, Plug,
                Change, ListRefused, ListAgain, GetHwAddr, GetIndex, BindLink,
                BindFails, Bound
  <2> QED BY <2>1, <2>2
<1> QED BY <1>1, InitHInv, InitInfo, StepHInv, PTL DEF Spec, AcceptsWholeList

(***************************************************************************)
(* The addresses of one device stay in a row.                              *)
(***************************************************************************)
\* Whatever keeps the order of the entries, and no device but theirs.
LEMMA RowsFollow ==
  ASSUME NEW s \in Seq(Listed), NEW t \in Seq(Listed), InRows(s),
         NEW m \in [DOMAIN t -> DOMAIN s],
         \A a, b \in DOMAIN t : a <= b => m[a] <= m[b],
         \A a \in DOMAIN t : t[a].dev = s[m[a]].dev
  PROVE  InRows(t)
<1> SUFFICES ASSUME NEW a \in DOMAIN t, NEW b \in DOMAIN t, t[a].dev = t[b].dev,
                    NEW c \in a..b
             PROVE  t[c].dev = t[a].dev
  BY DEF InRows
<1>1. /\ DOMAIN t = 1..Len(t) /\ Len(t) \in Nat
      /\ DOMAIN s = 1..Len(s) /\ Len(s) \in Nat
  OBVIOUS
<1>2. c \in DOMAIN t /\ a <= c /\ c <= b
  BY <1>1
<1>3. m[c] \in m[a]..m[b]
  BY <1>1, <1>2
<1>4. s[m[a]].dev = s[m[b]].dev
  OBVIOUS
<1> QED BY <1>2, <1>3, <1>4 DEF InRows

LEMMA RowsOfCut ==
  ASSUME NEW s \in Seq(Listed), InRows(s), NEW i \in 0..Len(s), NEW j \in i..Len(s)
  PROVE  InRows(SubSeq(s, 1, i) \o SubSeq(s, j + 1, Len(s)))
<1> DEFINE t == SubSeq(s, 1, i) \o SubSeq(s, j + 1, Len(s))
           m == [k \in DOMAIN t |-> IF k <= i THEN k ELSE k + (j - i)]
<1>1. Len(s) \in Nat /\ i \in Nat /\ j \in Nat /\ i <= j /\ j <= Len(s) /\ DOMAIN s = 1..Len(s)
  OBVIOUS
<1>2. /\ t \in Seq(Listed) /\ Len(t) = Len(s) - (j - i) /\ DOMAIN t = 1..(Len(s) - (j - i))
      /\ \A k \in 1..i : t[k] = s[k]
      /\ \A k \in (i + 1)..(Len(s) - (j - i)) : t[k] = s[k + (j - i)]
  <2>1. t \in Seq(Listed) /\ CutTo(s, t, i, j)
    BY CutElements
  <2> QED BY <2>1 DEF CutTo
<1> HIDE DEF t
<1>3. m \in [DOMAIN t -> DOMAIN s] /\ \A x, y \in DOMAIN t : x <= y => m[x] <= m[y]
  BY <1>1, <1>2
<1>4. \A x \in DOMAIN t : t[x].dev = s[m[x]].dev
  BY <1>1, <1>2
<1> HIDE DEF m
<1>5. InRows(t)
  BY <1>2, <1>3, <1>4, RowsFollow
<1> QED BY <1>5 DEF t

LEMMA RowsOfInsert ==
  ASSUME NEW s \in Seq(Listed), InRows(s), NEW e \in Listed,
         NEW i \in DOMAIN s, s[i].dev = e.dev
  PROVE  InRows(InsertAt(s, i + 1, e))
<1> DEFINE t == InsertAt(s, i + 1, e)
           m == [k \in DOMAIN t |-> IF k <= i THEN k ELSE k - 1]
<1>1. Len(s) \in Nat /\ i \in Nat \ {0} /\ i <= Len(s) /\ DOMAIN s = 1..Len(s) /\ i \in 0..Len(s)
  OBVIOUS
<1>2. /\ t \in Seq(Listed) /\ Len(t) = Len(s) + 1 /\ DOMAIN t = 1..(Len(s) + 1)
      /\ \A k \in 1..i : t[k] = s[k]
      /\ t[i + 1] = e
      /\ \A k \in (i + 1)..Len(s) : t[k + 1] = s[k]
  <2>1. t \in Seq(Listed) /\ PutIn(s, t, i, e)
    BY <1>1, InsertElements
  <2> QED BY <2>1 DEF PutIn
<1> HIDE DEF t
<1>3. m \in [DOMAIN t -> DOMAIN s] /\ \A x, y \in DOMAIN t : x <= y => m[x] <= m[y]
  BY <1>1, <1>2
<1>4. ASSUME NEW x \in DOMAIN t PROVE t[x].dev = s[m[x]].dev
  <2>1. CASE x <= i
    BY <1>1, <1>2, <2>1
  <2>2. CASE x = i + 1
    <3>1. m[x] = i
      BY <1>1, <2>2
    <3> QED BY <1>2, <2>2, <3>1
  <2>3. CASE x > i + 1
    <3>1. x - 1 \in (i + 1)..Len(s) /\ m[x] = x - 1 /\ (x - 1) + 1 = x
      BY <1>1, <1>2, <2>3
    <3> QED BY <1>2, <3>1
  <2> QED BY <1>1, <1>2, <2>1, <2>2, <2>3
<1> HIDE DEF m
<1> QED BY <1>2, <1>3, <1>4, RowsFollow DEF t

LEMMA RowsStep == ASSUME HInv, InRows(listed), Kernel PROVE InRows(listed')
<1> USE DEF HInv, HTypes
<1>1. ASSUME NEW e \in Listed, AddAddress(e) PROVE InRows(listed')
  <2>1. CASE Of(e.dev) = {} /\ listed' = Append(listed, e)
    <3>1. \A k \in DOMAIN listed : listed[k].dev # e.dev
      BY <2>1 DEF Of
    <3>2. /\ DOMAIN listed = 1..Len(listed) /\ Len(listed) \in Nat
          /\ DOMAIN listed' = 1..(Len(listed) + 1) /\ listed'[Len(listed) + 1] = e
          /\ \A k \in 1..Len(listed) : listed'[k] = listed[k]
      BY <2>1
    <3>3. ASSUME NEW a \in DOMAIN listed', NEW b \in DOMAIN listed',
                 listed'[a].dev = listed'[b].dev, NEW c \in a..b
          PROVE  listed'[c].dev = listed'[a].dev
      <4>1. CASE b = Len(listed) + 1
        BY <3>1, <3>2, <3>3, <4>1
      <4>2. CASE b # Len(listed) + 1
        <5>1. CASE a = Len(listed) + 1
          BY <3>2, <3>3, <5>1
        <5>2. CASE a # Len(listed) + 1
          <6>1. a \in DOMAIN listed /\ b \in DOMAIN listed /\ c \in DOMAIN listed
            BY <3>2, <4>2, <5>2
          <6> QED BY <3>2, <3>3, <6>1 DEF InRows
        <5> QED BY <5>1, <5>2
      <4> QED BY <4>1, <4>2
    <3> QED BY <3>3 DEF InRows
  <2>2. ASSUME NEW i \in Of(e.dev), listed' = InsertAt(listed, i + 1, e)
        PROVE  InRows(listed')
    BY <2>2, RowsOfInsert DEF Of
  <2> QED BY <1>1, <2>1, <2>2 DEF AddAddress
<1>2. ASSUME NEW i \in DOMAIN listed, RemoveAddress(i) PROVE InRows(listed')
  <2>1. i - 1 \in 0..Len(listed) /\ i \in (i - 1)..Len(listed)
    <3>1. i \in 1..Len(listed) /\ Len(listed) \in Nat
      OBVIOUS
    <3> QED BY <3>1
  <2>2. listed' = SubSeq(listed, 1, i - 1) \o SubSeq(listed, i + 1, Len(listed))
    BY <1>2 DEF RemoveAddress, RemoveAt
  <2> QED BY <2>1, <2>2, RowsOfCut
<1>3. ASSUME NEW d \in Device, Unplug(d) PROVE InRows(listed')
  <2>1. PICK j \in 0..Len(listed) : \E i \in 1..(j + 1) :
          listed' = SubSeq(listed, 1, i - 1) \o SubSeq(listed, j + 1, Len(listed))
    BY <1>3 DEF Unplug
  <2>2. PICK i \in 1..(j + 1) :
          listed' = SubSeq(listed, 1, i - 1) \o SubSeq(listed, j + 1, Len(listed))
    BY <2>1
  <2>3. i - 1 \in 0..Len(listed) /\ j \in (i - 1)..Len(listed)
    <3>1. Len(listed) \in Nat
      OBVIOUS
    <3> QED BY <3>1
  <2> QED BY <2>2, <2>3, RowsOfCut
<1>4. ASSUME NEW d \in Device, Plug(d) PROVE InRows(listed')
  BY <1>4 DEF Plug
<1> QED BY <1>1, <1>2, <1>3, <1>4 DEF Kernel

(***************************************************************************)
(* get_vm_iface_info() keeps some of the list, and nothing only if there   *)
(* is nothing to keep.                                                     *)
(***************************************************************************)
LEMMA KeepsInterfaces ==
  ASSUME NEW s \in Seq(Hwa)
  PROVE  LET t == get_vm_iface_info(s)
         IN  /\ t \in Seq(Hwa)
             /\ \A h \in Range(t) : h \in Range(s) /\ Kept(h)
             /\ t = <<>> => \A k \in DOMAIN s : ~Kept(s[k])
<1> DEFINE N == Len(s)
           none == <<>>
           Ifaces == Seq(Hwa)
           Added(n, v) == IF Kept(s[n]) THEN Append(v, s[n]) ELSE v
           step == [x \in (1..N) \X Ifaces |-> Added(x[1], x[2])]
           IsList(g) == g = [n \in 0..N |-> IF n = 0 THEN none ELSE Added(n, g[n-1])]
           vms == CHOOSE g : IsList(g)
<1>1. N \in Nat /\ DOMAIN s = 1..N /\ \A n \in 1..N : s[n] \in Hwa /\ s[n] \in Range(s)
  BY DEF Range
<1>2. none \in Ifaces /\ Range(none) = {}
  BY DEF Range
<1>3. get_vm_iface_info(s) = vms[N]
  BY DEF get_vm_iface_info
<1> HIDE DEF N, vms
<1>4. ASSUME NEW n \in 1..N, NEW v \in Ifaces
      PROVE  /\ Added(n, v) \in Ifaces
             /\ Kept(s[n]) => /\ Added(n, v) # none
                              /\ Range(Added(n, v)) \subseteq Range(v) \cup {s[n]}
             /\ ~Kept(s[n]) => Added(n, v) = v
  <2>1. CASE Kept(s[n])
    <3>1. /\ Append(v, s[n]) \in Ifaces /\ Append(v, s[n]) # none
      BY <1>1, AppendProperties
    <3>2. Range(Append(v, s[n])) \subseteq Range(v) \cup {s[n]}
      BY <1>1, AppendRange
    <3> QED BY <2>1, <3>1, <3>2
  <2>2. CASE ~Kept(s[n])
    BY <2>2
  <2> QED BY <2>1, <2>2
<1> HIDE DEF none, Ifaces, Added
<1>5. step \in [(1..N) \X Ifaces -> Ifaces]
  BY <1>4
<1> HIDE DEF step
<1>6. PICK f \in [0..N -> Ifaces] : Recurs(f, N, none, step)
  BY <1>1, <1>2, <1>5, RecursiveFunction
<1>7. \A n \in 1..N : n - 1 \in 0..N /\ n \in 0..N /\ n # 0
  BY <1>1
<1>8. f[0] = none /\ \A n \in 1..N : f[n] = Added(n, f[n-1])
  BY <1>6, <1>7 DEF step, Recurs
<1>9. \A n \in 0..N : n = 0 \/ n \in 1..N
  BY <1>1
<1>10. IsList(f)
  BY <1>8, <1>9
<1>11. IsList(vms)
  BY <1>10 DEF vms
<1>12. vms[0] = none /\ \A n \in 1..N : vms[n] = Added(n, vms[n-1])
  BY <1>1, <1>7, <1>11
<1> HIDE DEF IsList
<1> DEFINE Right(n) == /\ vms[n] \in Ifaces
                       /\ \A h \in Range(vms[n]) : h \in Range(s) /\ Kept(h)
                       /\ vms[n] = none => \A k \in 1..n : ~Kept(s[k])
           T == {n \in 0..N : Right(n)}
<1>13. 0 \in T
  BY <1>1, <1>2, <1>12
<1>14. ASSUME NEW n \in 0..(N - 1), n \in T PROVE n + 1 \in T
  <2>1. n \in Nat /\ n + 1 \in 1..N /\ n + 1 \in 0..N /\ (n + 1) - 1 = n
        /\ \A k \in 1..(n+1) : k = n + 1 \/ k \in 1..n
    BY <1>1
  <2>2. vms[n+1] = Added(n + 1, vms[n]) /\ Right(n)
    BY <1>12, <1>14, <2>1
  <2>3. CASE Kept(s[n+1])
    BY <1>1, <1>4, <2>1, <2>2, <2>3
  <2>4. CASE ~Kept(s[n+1])
    BY <1>4, <2>1, <2>2, <2>4
  <2> QED BY <2>3, <2>4
<1> HIDE DEF T
<1>15. N \in T
  <2>1. 0..N \subseteq T
    BY <1>1, <1>13, <1>14, InductionTo
  <2> QED BY <1>1, <2>1
<1>16. Right(N)
  BY <1>15 DEF T
<1> QED BY <1>1, <1>3, <1>16 DEF none, Ifaces

(***************************************************************************)
(* What the program makes of the list: the invariant of the other          *)
(* properties.                                                             *)
(***************************************************************************)
\* The entries carry the names that were listed, and in the end all of them.
Built ==
  /\ \A k \in DOMAIN hwa : hwa[k].labelled = ifr[k].labelled
  /\ pc \in {"bind", "done"} => Len(hwa) = Len(ifr)

\* Sockets are opened for entries that are kept.
Chosen ==
  /\ todo \in Seq(Hwa)
  /\ \A h \in Range(todo) : h \in Range(hwa) /\ Kept(h)
  /\ todo # <<>> => pc \in {"bind", "exit"}

\* If nothing has changed a strict kernel refuses no buffer after it has
\* accepted a shorter one.
Reasons ==
  /\ ExitsForAReason
  /\ changes \in Nat /\ (changes = 0 => removed = {})
  /\ pc = "list" /\ strict /\ lastlen # 0 /\ changes = 0 => Len(listed) <= len

EthListed == \E k \in DOMAIN ifr : Kept(ifr[k])

Linked ==
  /\ pc \in {"list", "hwaddr", "index"} => link = 0
  /\ pc \in {"bind", "done"} /\ eth0 \notin removed =>
       IF EthListed THEN todo # <<>> \/ link = index[eth0] ELSE todo = <<>> /\ link = 0

BInv == InRows(listed) /\ InRows(ifr) /\ AliasRight /\ Built /\ Chosen /\ Reasons /\ Linked

LEMMA InitBInv == Init => BInv
<1> SUFFICES ASSUME Init PROVE BInv
  OBVIOUS
<1>1. /\ ifr = <<>> /\ hwa = <<>> /\ todo = <<>> /\ link = 0 /\ pc = "list" /\ lastlen = 0
      /\ changes = 0 /\ removed = {}
  BY DEF Init
<1>2. InRows(listed)
  BY RowsAssumption DEF Init
<1>3. InRows(ifr) /\ AliasRight /\ Built
  BY <1>1 DEF InRows, AliasRight, Built
<1>4. Chosen
  BY <1>1 DEF Chosen, Range
<1>5. Reasons /\ Linked
  BY <1>1 DEF Reasons, ExitsForAReason, Linked
<1> QED BY <1>2, <1>3, <1>4, <1>5 DEF BInv

\* While eth0 is there it has an index, and every entry of it has that one.
LEMMA EthIndex ==
  ASSUME HInv, EthListed, eth0 \notin removed
  PROVE  index[eth0] # 0
<1>1. PICK k \in DOMAIN ifr : Kept(ifr[k])
  BY DEF EthListed
<1>2. ifr[k] \in Range(ifr) /\ ifr[k].dev = eth0
  BY <1>1 DEF Range, Kept
<1> QED BY <1>2 DEF HInv, Present

LEMMA ToBind ==
  ASSUME HInv, InfoRight, BInv, pc = "bind", todo # <<>>
  PROVE  /\ Head(todo) \in Hwa /\ EthListed
         /\ eth0 \notin removed => Head(todo).if_index = index[eth0] /\ index[eth0] \in Indexes
<1>1. Head(todo) \in Hwa /\ Head(todo) \in Range(hwa) /\ Kept(Head(todo))
  <2>1. todo \in Seq(Hwa) /\ 1 \in DOMAIN todo /\ Head(todo) = todo[1]
    BY EmptySeq, HeadTailProperties DEF BInv, Chosen
  <2>2. Head(todo) \in Range(todo)
    BY <2>1 DEF Range
  <2> QED BY <2>1, <2>2 DEF BInv, Chosen
<1>2. PICK k \in DOMAIN hwa : hwa[k] = Head(todo)
  BY <1>1 DEF Range
<1>3. k \in DOMAIN ifr /\ hwa[k].dev = ifr[k].dev /\ hwa[k].labelled = ifr[k].labelled
  BY DEF HInv, Progress, BInv, Built
<1>4. EthListed
  BY <1>1, <1>2, <1>3 DEF EthListed, Kept
<1>5. ASSUME eth0 \notin removed
      PROVE  Head(todo).if_index = index[eth0] /\ index[eth0] \in Indexes
  <2>1. index[eth0] # 0
    BY <1>4, <1>5, EthIndex
  <2>2. hwa[k].dev = eth0
    BY <1>1, <1>2 DEF Kept
  <2>3. hwa[k].if_index = index[eth0]
    BY <1>5, <2>2 DEF InfoRight, Looked
  <2>4. index[eth0] \in Indexes
    BY <2>1, DeviceAssumption DEF Indexes
  <2> QED BY <1>2, <2>3, <2>4
<1> QED BY <1>1, <1>4, <1>5

LEMMA BInvOfKernel == ASSUME HInv, BInv, Kernel PROVE BInv'
<1>1. /\ UNCHANGED <<strict, pc, len, lastlen, lists>>
      /\ removed \subseteq removed'
      /\ \A d \in Device : d \notin removed' /\ index[d] # 0 => index'[d] = index[d]
  BY KernelKeeps
<1>2. InRows(listed')
  BY RowsStep DEF BInv
<1>3. changes' = changes + 1
  BY DEF Kernel, AddAddress, RemoveAddress, Unplug, Plug, Change
<1>4. InRows(ifr)' /\ AliasRight' /\ Built' /\ Chosen'
  BY <1>1 DEF BInv, InRows, AliasRight, Built, Chosen, Kept, lists
<1>5. Reasons'
  BY <1>1, <1>3 DEF BInv, Reasons, ExitsForAReason
<1>6. Linked'
  <2>1. EthListed' <=> EthListed
    BY <1>1 DEF EthListed, Kept, lists
  <2>2. ASSUME eth0 \notin removed', EthListed PROVE eth0 \notin removed /\ index'[eth0] = index[eth0]
    <3>1. eth0 \notin removed
      BY <1>1, <2>2
    <3> QED BY <1>1, <2>2, <3>1, EthIndex, DeviceAssumption
  <2>3. eth0 \notin removed' => eth0 \notin removed
    BY <1>1
  <2> QED BY <1>1, <2>1, <2>2, <2>3 DEF BInv, Linked, lists
<1> QED BY <1>2, <1>4, <1>5, <1>6 DEF BInv

\* The calls that ask for the list.
LEMMA BInvOfListing ==
  ASSUME HInv, InfoRight, BInv, ListRefused \/ ListAgain \/ ListSettled
  PROVE  BInv'
<1> USE DEF HInv, HTypes, BInv
<1>1. /\ pc = "list" /\ UNCHANGED kernel /\ UNCHANGED <<hwa, todo, link>>
      /\ hwa = <<>> /\ todo = <<>> /\ pc' \in {"list", "exit", "hwaddr"}
  BY DEF ListRefused, ListAgain, ListSettled, lists, Progress, Chosen
<1>2. InRows(listed') /\ InRows(ifr')
  <2>1. CASE ListRefused \/ ListAgain
    <3>1. listed' = listed /\ ifr' = ifr
      BY <2>1 DEF ListRefused, ListAgain, lists, kernel
    <3> QED BY <3>1
  <2>2. CASE ListSettled
    <3>1. listed' = listed /\ ifr' = listed
      BY <1>1, <2>2, SettledIsWhole DEF ListSettled, kernel
    <3> QED BY <3>1
  <2> QED BY <2>1, <2>2
<1>3. AliasRight' /\ Built' /\ Chosen' /\ Linked'
  BY <1>1 DEF AliasRight, Built, Chosen, Linked
<1>4. Len(listed) \in Nat /\ len \in Nat /\ lastlen \in Nat /\ Increment \in Nat
  BY SizeAssumption
<1>5. Reasons'
  <2>1. CASE ListRefused
    BY <1>1, <1>4, <2>1 DEF ListRefused, Reasons, ExitsForAReason, Refused, IsError, kernel
  <2>2. CASE ListAgain
    BY <1>1, <1>4, <2>2 DEF ListAgain, Reasons, ExitsForAReason, Refused, Longer, kernel, lists
  <2>3. CASE ListSettled
    BY <1>1, <2>3, SettledIsWhole DEF ListSettled, Reasons, ExitsForAReason, kernel
  <2> QED BY <2>1, <2>2, <2>3
<1> QED BY <1>2, <1>3, <1>5

\* The loop over the entries.
LEMMA BInvOfGetHwAddr ==
  ASSUME HInv, InfoRight, BInv, GetHwAddr
  PROVE  BInv'
<1> USE DEF HInv, HTypes, BInv
<1> DEFINE k == Len(hwa) + 1
           h == [dev |-> ifr[k].dev, labelled |-> ifr[k].labelled,
                 ip_alias |-> IsAlias(k), if_haddr |-> SIOCGIFHWADDR(ifr[k].dev), if_index |-> 0]
<1>1. /\ pc = "hwaddr" /\ pc' = "index" /\ hwa' = Append(hwa, h) /\ todo = <<>>
      /\ UNCHANGED kernel /\ UNCHANGED <<len, lastlen, ifr, todo, link>>
  BY DEF GetHwAddr, ifrcopy, Chosen
<1>2. k \in DOMAIN ifr /\ DOMAIN hwa = 1..(k - 1) /\ k \in Nat /\ k \in 1..Len(ifr)
  BY <1>1 DEF Progress
<1>3. h.dev = ifr[k].dev /\ h.labelled = ifr[k].labelled /\ h.ip_alias = IsAlias(k)
  OBVIOUS
<1>4. hwa \in Seq(Hwa)
  OBVIOUS
<1> HIDE DEF h
<1>5. /\ DOMAIN hwa' = 1..k /\ hwa'[k] = h
      /\ \A j \in 1..(k - 1) : hwa'[j] = hwa[j]
  BY <1>1, <1>4
<1> HIDE DEF k
<1>6. \A j \in 1..k : hwa'[j].dev = ifr[j].dev /\ j \in DOMAIN ifr
  BY <1>2, <1>3, <1>5 DEF Progress
<1>7. AliasRight'
  <2> SUFFICES ASSUME NEW j \in 1..k
               PROVE  hwa'[j].ip_alias <=> \E m \in 1..(j - 1) : hwa'[m].dev = hwa'[j].dev
    BY <1>5 DEF AliasRight
  <2>1. CASE j = k
    <3>1. hwa'[j].ip_alias = IsAlias(k)
      BY <1>3, <1>5, <2>1
    <3>2. IsAlias(k) => \E m \in 1..(k - 1) : ifr[m].dev = ifr[k].dev
      <4>1. ASSUME IsAlias(k) PROVE k - 1 \in 1..(k - 1) /\ ifr[k - 1].dev = ifr[k].dev
        BY <1>2, <4>1 DEF IsAlias, SameName
      <4> QED BY <4>1
    <3>3. ASSUME NEW m \in 1..(k - 1), ifr[m].dev = ifr[k].dev PROVE IsAlias(k)
      <4>1. m \in DOMAIN ifr /\ k - 1 \in m..k /\ k > 1
        BY <1>2, <1>6
      <4>2. ifr[k - 1].dev = ifr[m].dev
        BY <1>2, <3>3, <4>1 DEF InRows
      <4> QED BY <3>3, <4>1, <4>2 DEF IsAlias, SameName
    <3>4. \A m \in 1..(k - 1) : m \in 1..k
      BY <1>2
    <3> QED BY <1>2, <1>6, <2>1, <3>1, <3>2, <3>3, <3>4
  <2>2. CASE j # k
    <3>1. j \in 1..(k - 1) /\ \A m \in 1..(j - 1) : m \in 1..(k - 1)
      BY <1>2, <2>2
    <3> QED BY <1>2, <1>5, <3>1 DEF AliasRight
  <2> QED BY <2>1, <2>2
<1>8. Built'
  <2>1. \A j \in 1..k : j = k \/ j \in 1..(k - 1)
    BY <1>2
  <2> QED BY <1>1, <1>2, <1>3, <1>5, <2>1 DEF Built
<1>9. InRows(listed') /\ InRows(ifr') /\ Chosen' /\ Linked'
  <2>1. listed' = listed /\ ifr' = ifr
    BY <1>1 DEF kernel
  <2>2. InRows(listed') /\ InRows(ifr')
    BY <2>1
  <2>3. Chosen'
    BY <1>1 DEF Chosen, Range
  <2>4. Linked'
    BY <1>1 DEF Linked
  <2> QED BY <2>2, <2>3, <2>4
<1>10. Reasons'
  BY <1>1 DEF Reasons, ExitsForAReason, kernel
<1> QED BY <1>7, <1>8, <1>9, <1>10

LEMMA BInvOfGetIndex ==
  ASSUME HInv, InfoRight, BInv, HInv', GetIndex
  PROVE  BInv'
<1> USE DEF HInv, HTypes, BInv
<1> DEFINE k == Len(hwa)
           i == SIOCGIFINDEX(ifr[k].dev, hwa[k].if_haddr)
<1>1. /\ pc = "index" /\ hwa' = [hwa EXCEPT ![k].if_index = i] /\ todo = <<>>
      /\ UNCHANGED kernel /\ UNCHANGED <<len, lastlen, ifr, link>>
      /\ link = 0
      /\ IF k < Len(ifr) THEN pc' = "hwaddr" /\ UNCHANGED todo
                         ELSE pc' = "bind" /\ todo' = get_vm_iface_info(hwa')
  BY DEF GetIndex, ifrcopy, Chosen, Linked
<1>2. k \in 1..Len(ifr) /\ Len(ifr) \in Nat /\ DOMAIN ifr = 1..Len(ifr) /\ DOMAIN hwa = 1..k
      /\ hwa[k] \in Hwa /\ hwa \in Seq(Hwa) /\ k \in Nat
  BY <1>1 DEF Progress
<1> HIDE DEF k, i
<1>3. /\ DOMAIN hwa' = DOMAIN hwa /\ Len(hwa') = k
      /\ \A j \in DOMAIN hwa : /\ hwa'[j].dev = hwa[j].dev /\ hwa'[j].labelled = hwa[j].labelled
                               /\ hwa'[j].ip_alias = hwa[j].ip_alias
  <2> DEFINE h == [hwa[k] EXCEPT !.if_index = i]
  <2>1. h.dev = hwa[k].dev /\ h.labelled = hwa[k].labelled /\ h.ip_alias = hwa[k].ip_alias
    BY <1>2 DEF Hwa
  <2>2. hwa' = [hwa EXCEPT ![k] = h]
    BY <1>1
  <2> HIDE DEF h
  <2>3. DOMAIN hwa' = 1..k /\ \A j \in 1..k : hwa'[j] = IF j = k THEN h ELSE hwa[j]
    BY <1>2, <2>2
  <2>4. Len(hwa') = k
    BY <1>2, <2>3
  <2> QED BY <1>2, <2>1, <2>3, <2>4
<1>4. AliasRight'
  <2> SUFFICES ASSUME NEW j \in 1..k
               PROVE  hwa'[j].ip_alias <=> \E m \in 1..(j - 1) : hwa'[m].dev = hwa'[j].dev
    BY <1>2, <1>3 DEF AliasRight
  <2>1. ASSUME NEW m \in 1..(j - 1) PROVE hwa'[m].dev = hwa[m].dev
    <3>1. m \in 1..k
      BY <1>2
    <3>2. m \in DOMAIN hwa
      BY <1>2, <3>1
    <3> QED BY <1>3, <3>2
  <2>2. hwa[j].ip_alias <=> \E m \in 1..(j - 1) : hwa[m].dev = hwa[j].dev
    <3>1. j \in DOMAIN hwa /\ AliasRight
      BY <1>2
    <3> QED BY <3>1 DEF AliasRight
  <2>3. hwa'[j].dev = hwa[j].dev /\ hwa'[j].ip_alias = hwa[j].ip_alias
    BY <1>2, <1>3
  <2> QED BY <2>1, <2>2, <2>3
<1>5. Built'
  BY <1>1, <1>2, <1>3 DEF Built
<1>6. InRows(listed') /\ InRows(ifr')
  <2>1. listed' = listed /\ ifr' = ifr
    BY <1>1 DEF kernel
  <2> QED BY <2>1
<1>7. Reasons'
  BY <1>1 DEF Reasons, ExitsForAReason, kernel
<1>8. CASE k < Len(ifr)
  BY <1>1, <1>4, <1>5, <1>6, <1>7, <1>8 DEF Chosen, Linked, Range
<1>9. CASE ~(k < Len(ifr))
  <2>1. pc' = "bind" /\ todo' = get_vm_iface_info(hwa') /\ k = Len(ifr) /\ hwa' \in Seq(Hwa)
    BY <1>1, <1>2, <1>9
  <2>2. /\ todo' \in Seq(Hwa)
        /\ \A h \in Range(todo') : h \in Range(hwa') /\ Kept(h)
        /\ todo' = <<>> => \A j \in DOMAIN hwa' : ~Kept(hwa'[j])
    BY <2>1, KeepsInterfaces
  <2>3. Chosen'
    BY <2>1, <2>2 DEF Chosen, Kept
  <2>4. \A j \in DOMAIN ifr : j \in DOMAIN hwa' /\ (Kept(hwa'[j]) <=> Kept(ifr[j]))
    BY <1>2, <1>3, <2>1 DEF Progress, Built, Kept
  <2>5. EthListed => todo' # <<>>
    BY <2>2, <2>4 DEF EthListed
  <2>6. ~EthListed => todo' = <<>>
    <3> SUFFICES ASSUME todo' # <<>> PROVE EthListed
      OBVIOUS
    <3>1. todo'[1] \in Range(todo')
      <4>1. 1 \in DOMAIN todo'
        BY <2>2, EmptySeq
      <4> QED BY <4>1 DEF Range
    <3>2. PICK j \in DOMAIN hwa' : hwa'[j] = todo'[1] /\ Kept(todo'[1])
      BY <2>2, <3>1 DEF Range
    <3>3. j \in DOMAIN ifr
      BY <1>2, <1>3, <2>1
    <3> QED BY <2>4, <3>2, <3>3 DEF EthListed
  <2>7. EthListed' <=> EthListed
    BY <1>1 DEF EthListed, Kept
  <2>8. Linked'
    BY <1>1, <2>1, <2>5, <2>6, <2>7 DEF Linked, kernel
  <2> QED BY <1>4, <1>5, <1>6, <1>7, <2>3, <2>8
<1> QED BY <1>8, <1>9

\* The sockets.
LEMMA BInvOfBinding ==
  ASSUME HInv, InfoRight, BInv, BindLink \/ BindFails \/ Bound
  PROVE  BInv'
<1> USE DEF HInv, HTypes, BInv
<1>1. /\ pc = "bind" /\ pc' \in {"bind", "exit", "done"} /\ UNCHANGED kernel
      /\ UNCHANGED <<len, lastlen, ifr, hwa>>
  BY DEF BindLink, BindFails, Bound, lists
<1>2. InRows(listed') /\ InRows(ifr') /\ AliasRight' /\ Built'
  <2>1. listed' = listed /\ ifr' = ifr /\ hwa' = hwa
    BY <1>1 DEF kernel
  <2>2. InRows(listed') /\ InRows(ifr')
    BY <2>1
  <2>3. AliasRight' /\ Built'
    BY <1>1, <2>1 DEF AliasRight, Built
  <2> QED BY <2>2, <2>3
<1>3. EthListed' <=> EthListed
  BY <1>1 DEF EthListed, Kept
<1>4. CASE BindLink
  <2>1. todo # <<>> /\ link' = Head(todo).if_index /\ todo' = Tail(todo) /\ pc' = "bind"
    BY <1>1, <1>4 DEF BindLink, Rest
  <2>2. EthListed /\ (eth0 \notin removed => link' = index[eth0])
    BY <1>1, <2>1, ToBind
  <2>3. Chosen'
    <3>1. todo \in Seq(Hwa) /\ todo # <<>>
      BY <2>1 DEF Chosen
    <3>2. Tail(todo) = SubSeq(todo, 2, Len(todo)) /\ Len(todo) \in Nat
      BY <3>1, TailIsSubSeq
    <3>3. todo' \in Seq(Hwa) /\ Range(todo') \subseteq Range(todo)
      <4> DEFINE n == Len(todo)
      <4>1. 2 \in Nat /\ n \in Nat /\ 2 >= 1 /\ n <= Len(todo)
        BY <3>2
      <4>2. SubSeq(todo, 2, n) \in Seq(Hwa) /\ Range(SubSeq(todo, 2, n)) \subseteq Range(todo)
        BY <3>1, <4>1, SubSeqRange
      <4> QED BY <2>1, <3>2, <4>2
    <3> QED BY <1>1, <2>1, <3>3 DEF Chosen, Kept
  <2>4. Reasons'
    BY <1>1, <2>1 DEF Reasons, ExitsForAReason, kernel
  <2>5. Linked'
    BY <1>1, <1>3, <2>1, <2>2 DEF Linked, kernel
  <2> QED BY <1>2, <2>3, <2>4, <2>5
<1>5. CASE BindFails
  <2>1. todo # <<>> /\ Head(todo).if_index \notin Indexes
        /\ UNCHANGED <<todo, link>> /\ pc' = "exit"
    BY <1>5 DEF BindFails, lists
  <2>2. changes # 0
    <3> SUFFICES ASSUME changes = 0 PROVE FALSE
      OBVIOUS
    <3>1. removed = {}
      BY DEF Reasons
    <3> QED BY <1>1, <2>1, <3>1, ToBind
  <2>3. Reasons'
    BY <1>1, <2>1, <2>2 DEF Reasons, ExitsForAReason, kernel
  <2>4. Chosen' /\ Linked'
    BY <1>1, <2>1 DEF Chosen, Linked, Kept
  <2> QED BY <1>2, <2>3, <2>4
<1>6. CASE Bound
  <2>1. todo = <<>> /\ UNCHANGED <<todo, link>> /\ pc' = "done"
    BY <1>6 DEF Bound, lists
  <2>2. Chosen' /\ Reasons'
    BY <1>1, <2>1 DEF Chosen, Reasons, ExitsForAReason, kernel, Kept
  <2>3. Linked'
    BY <1>1, <1>3, <2>1 DEF Linked, kernel
  <2> QED BY <1>2, <2>2, <2>3
<1> QED BY <1>4, <1>5, <1>6

LEMMA StepBInv == HInv /\ InfoRight /\ BInv /\ [Next]_vars => BInv'
<1>1. ASSUME HInv, BInv, UNCHANGED vars PROVE BInv'
  BY <1>1 DEF vars, kernel, lists, BInv, InRows, AliasRight, Built, Chosen, Reasons,
              ExitsForAReason, Linked, EthListed, Kept
<1> QED BY <1>1, StepHInv, BInvOfKernel, BInvOfListing, BInvOfGetHwAddr, BInvOfGetIndex,
           BInvOfBinding DEF Next, Program

LEMMA BInvHolds == Spec => [](HInv /\ InfoRight /\ BInv)
BY InitHInv, InitInfo, InitBInv, StepHInv, StepBInv, PTL DEF Spec

\* An entry is marked as an alias exactly if an earlier one is of the same
\* device, however the addresses changed before the list was accepted.
THEOREM AliasesAreRight == Spec => []AliasRight
BY BInvHolds, PTL DEF BInv

\* Without a change of the interfaces the program gives up only if there is
\* none.
THEOREM NoExitWithoutReason == Spec => []ExitsForAReason
BY BInvHolds, PTL DEF BInv, Reasons

\* The packet socket that is kept is that of eth0.
THEOREM SocketIsOfEth0 == Spec => []LinkIsEth0
<1>1. HInv /\ BInv => LinkIsEth0
  <2> SUFFICES ASSUME HInv, BInv, pc = "done", eth0 \notin removed
               PROVE  IF EthListed THEN link = index[eth0] ELSE link = 0
    BY DEF LinkIsEth0, EthListed
  <2>1. todo = <<>>
    BY DEF BInv, Chosen
  <2> QED BY <2>1 DEF BInv, Linked
<1> QED BY <1>1, BInvHolds, PTL
===============================================================================
