---------------------------- MODULE ArpCacheProofs ----------------------------
(***************************************************************************)
(* Theorems about ArpCache, for any addresses, entries and number of       *)
(* lists: the lists stay sound, and the cache implements ArpTable.         *)
(***************************************************************************)
EXTENDS ArpCache, SequenceTheorems, TLAPS

ChainsInv == chain \in [Bucket -> Seq(Entry)] /\ ChainsSound

LEMMA HashIsBucket == ASSUME NEW ip \in Address PROVE arp_hash(ip) \in Bucket
<1>1. ip \in Nat /\ ARP_HASH \in Nat /\ ARP_HASH > 0
  BY AddressAssumption, HashAssumption
<1>2. ip % ARP_HASH \in 0..(ARP_HASH - 1)
  BY <1>1
<1> QED BY <1>2 DEF arp_hash, Bucket

LEMMA EntryFields == ASSUME NEW e \in Entry PROVE e.ip4 \in Address
BY DEF Entry

\* The positions that fit an address are one at most.
LEMMA OneMatch ==
  ASSUME ChainsInv, NEW ip \in Address
  PROVE  /\ \A i \in Matches(ip) :
              /\ i \in DOMAIN chain[arp_hash(ip)] /\ chain[arp_hash(ip)][i].ip4 = ip
              /\ Matches(ip) = {i} /\ FirstOf(Matches(ip)) = i
         /\ \A i \in Waiting(ip) : Waiting(ip) = {i} /\ FirstOf(Waiting(ip)) = i
<1> DEFINE b == arp_hash(ip)
<1>1. b \in Bucket
  BY HashIsBucket
<1>2. chain[b] \in Seq(Entry)
  BY <1>1 DEF ChainsInv
<1>3. \A i, j \in Matches(ip) : i = j
  BY <1>1 DEF Matches, ChainsInv, ChainsSound
<1>4. \A i \in Matches(ip) : i \in Nat /\ i \in DOMAIN chain[b] /\ chain[b][i].ip4 = ip
  BY <1>2 DEF Matches
<1>5. ASSUME NEW S, S \subseteq Matches(ip), NEW i \in S PROVE S = {i} /\ FirstOf(S) = i
  <2>1. S = {i}
    BY <1>3, <1>5
  <2>2. i <= i
    BY <1>4, <1>5
  <2>3. FirstOf({i}) = i
    BY <2>2 DEF FirstOf
  <2> QED BY <2>1, <2>3
<1>6. Waiting(ip) \subseteq Matches(ip)
  BY DEF Waiting
<1> QED BY <1>4, <1>5, <1>6

\* What the table sees of an address is what the walk finds.
LEMMA OfIsMatches ==
  ASSUME ChainsInv, NEW ip \in Address
  PROVE  Table!Of(ip) = {chain[arp_hash(ip)][i] : i \in Matches(ip)}
<1>1. arp_hash(ip) \in Bucket
  BY HashIsBucket
<1> QED BY <1>1 DEF Table!Of, Entries, Matches, ChainsInv, ChainsSound

LEMMA RemoveAtElements ==
  ASSUME NEW S, NEW l \in Seq(S), NEW k \in DOMAIN l
  PROVE  /\ RemoveAt(l, k) \in Seq(S)
         /\ DOMAIN RemoveAt(l, k) = 1..(Len(l) - 1)
         /\ \A i \in 1..(Len(l) - 1) :
              RemoveAt(l, k)[i] = IF i < k THEN l[i] ELSE l[i + 1]
<1> DEFINE a == SubSeq(l, 1, k - 1)
           c == SubSeq(l, k + 1, Len(l))
<1>0. k \in 1..Len(l) /\ Len(l) \in Nat
  OBVIOUS
<1>1. a \in Seq(S) /\ Len(a) = k - 1 /\ \A i \in 1..(k - 1) : a[i] = l[i]
  BY <1>0
<1>2. c \in Seq(S) /\ Len(c) = Len(l) - k /\ \A i \in 1..(Len(l) - k) : c[i] = l[k + i]
  BY <1>0
<1>3. RemoveAt(l, k) = a \o c
  BY DEF RemoveAt
<1> HIDE DEF a, c
<1>4. /\ a \o c \in Seq(S) /\ DOMAIN (a \o c) = 1..(Len(a) + Len(c))
      /\ \A i \in 1..(Len(a) + Len(c)) :
           (a \o c)[i] = IF i <= Len(a) THEN a[i] ELSE c[i - Len(a)]
  <2>1. /\ a \o c \in Seq(S) /\ Len(a \o c) = Len(a) + Len(c)
        /\ \A i \in 1..(Len(a) + Len(c)) :
             (a \o c)[i] = IF i <= Len(a) THEN a[i] ELSE c[i - Len(a)]
    BY <1>1, <1>2, ConcatProperties
  <2>2. DOMAIN (a \o c) = 1..Len(a \o c)
    BY <2>1
  <2> QED BY <2>1, <2>2
<1>5. Len(a) + Len(c) = Len(l) - 1
  BY <1>0, <1>1, <1>2
<1>6. \A i \in 1..(Len(l) - 1) : (a \o c)[i] = IF i < k THEN l[i] ELSE l[i + 1]
  <2> SUFFICES ASSUME NEW i \in 1..(Len(l) - 1)
               PROVE  (a \o c)[i] = IF i < k THEN l[i] ELSE l[i + 1]
    OBVIOUS
  <2>1. CASE i < k
    <3>1. i \in 1..(k - 1) /\ i <= k - 1
      BY <2>1, <1>0
    <3>2. (a \o c)[i] = a[i]
      BY <3>1, <1>1, <1>4, <1>5
    <3> QED BY <3>1, <3>2, <2>1, <1>1
  <2>2. CASE ~(i < k)
    <3>1. i - (k - 1) \in 1..(Len(l) - k) /\ k + (i - (k - 1)) = i + 1 /\ ~(i <= k - 1)
      BY <2>2, <1>0
    <3>2. c[i - (k - 1)] = l[i + 1]
      BY <3>1, <1>2
    <3>3. (a \o c)[i] = c[i - (k - 1)]
      BY <3>1, <1>1, <1>4, <1>5
    <3> QED BY <3>2, <3>3, <2>2
  <2> QED BY <2>1, <2>2
<1> QED BY <1>3, <1>4, <1>5, <1>6

\* Linking an entry in front of its list.
LEMMA LinkStep ==
  ASSUME ChainsInv, NEW e \in Entry, Accepted(e),
         chain' = [chain EXCEPT ![arp_hash(e.ip4)] = <<e>> \o @]
  PROVE  ChainsInv' /\ Entries' = Entries \cup {e}
<1> DEFINE b == arp_hash(e.ip4)
           l == chain[b]
           m == <<e>> \o l
<1>1. e.ip4 \in Address /\ b \in Bucket /\ l \in Seq(Entry)
  BY EntryFields, HashIsBucket DEF ChainsInv
<1>2. e.ip4 # 0 /\ \A i \in DOMAIN l : l[i].ip4 # e.ip4
  BY DEF Accepted, Matches
<1>3. /\ m \in Seq(Entry) /\ DOMAIN m = 1..(Len(l) + 1) /\ Len(l) \in Nat
      /\ DOMAIN l = 1..Len(l)
      /\ m[1] = e /\ \A i \in 2..(Len(l) + 1) : m[i] = l[i - 1]
  BY <1>1
<1>4. chain' \in [Bucket -> Seq(Entry)]
      /\ \A d \in Bucket : chain'[d] = IF d = b THEN m ELSE chain[d]
  BY <1>1, <1>3 DEF ChainsInv
<1>5. ASSUME NEW i \in DOMAIN m
      PROVE  \/ i = 1 /\ m[i] = e
             \/ i > 1 /\ i - 1 \in DOMAIN l /\ m[i] = l[i - 1]
  BY <1>3
<1>6. \A i \in DOMAIN l : i + 1 \in DOMAIN m /\ m[i + 1] = l[i]
  BY <1>3
<1>7. \A i \in DOMAIN m : i \in Int
  BY <1>3
<1>8. 1 \in DOMAIN m /\ m[1] = e
  BY <1>3
<1> HIDE DEF m
<1>9. ChainsSound'
  <2> SUFFICES ASSUME NEW d \in Bucket, NEW i \in DOMAIN chain'[d], NEW j \in DOMAIN chain'[d]
               PROVE  /\ chain'[d][i].ip4 # 0 /\ arp_hash(chain'[d][i].ip4) = d
                      /\ chain'[d][i].ip4 = chain'[d][j].ip4 => i = j
    BY DEF ChainsSound
  <2>1. CASE d # b
    BY <2>1, <1>4 DEF ChainsInv, ChainsSound
  <2>2. CASE d = b
    <3>1. chain'[d] = m
      BY <2>2, <1>4
    <3>2. m[i].ip4 # 0 /\ arp_hash(m[i].ip4) = b
      <4>1. \A n \in DOMAIN l : l[n].ip4 # 0 /\ arp_hash(l[n].ip4) = b
        BY <1>1 DEF ChainsInv, ChainsSound
      <4>2. i \in DOMAIN m
        BY <3>1
      <4> HIDE DEF l
      <4>3. CASE m[i] = e
        BY <4>3, <1>2
      <4>4. CASE i - 1 \in DOMAIN l /\ m[i] = l[i - 1]
        BY <4>1, <4>4
      <4> QED BY <4>2, <4>3, <4>4, <1>5
    <3>3. ASSUME m[i].ip4 = m[j].ip4 PROVE i = j
      <4>1. CASE i = 1 \/ j = 1
        <5>1. \A n \in DOMAIN m : n = 1 <=> m[n].ip4 = e.ip4
          BY <1>2, <1>5
        <5> QED BY <4>1, <5>1, <3>1, <3>3
      <4>2. CASE i # 1 /\ j # 1
        <5>1. i - 1 \in DOMAIN l /\ j - 1 \in DOMAIN l /\ l[i-1].ip4 = l[j-1].ip4
          BY <4>2, <3>1, <3>3, <1>5
        <5>2. i - 1 = j - 1
          BY <5>1, <1>1 DEF ChainsInv, ChainsSound
        <5> QED BY <5>2, <3>1, <1>7
      <4> QED BY <4>1, <4>2
    <3> QED BY <2>2, <3>1, <3>2, <3>3
  <2> QED BY <2>1, <2>2
<1>10. {m[i] : i \in DOMAIN m} = {l[i] : i \in DOMAIN l} \cup {e}
  BY <1>5, <1>6, <1>8
<1>11. Entries' = Entries \cup {e}
  <2> SUFFICES ASSUME NEW x PROVE x \in Entries' <=> x \in Entries \/ x = e
    OBVIOUS
  <2>1. x \in Entries' <=> \/ \E d \in Bucket : d # b /\ \E i \in DOMAIN chain[d] : x = chain[d][i]
                           \/ x \in {m[i] : i \in DOMAIN m}
    <3>1. b \in Bucket /\ chain'[b] = m /\ \A d \in Bucket : d # b => chain'[d] = chain[d]
      BY <1>1, <1>4
    <3>2. x \in Entries' <=> \E d \in Bucket : \E i \in DOMAIN chain'[d] : x = chain'[d][i]
      BY DEF Entries
    <3> HIDE DEF b, l
    <3> QED BY <3>1, <3>2
  <2>2. x \in Entries <=> \/ \E d \in Bucket : d # b /\ \E i \in DOMAIN chain[d] : x = chain[d][i]
                          \/ x \in {l[i] : i \in DOMAIN l}
    BY <1>1 DEF Entries
  <2> QED BY <2>1, <2>2, <1>10
<1> QED BY <1>4, <1>9, <1>11 DEF ChainsInv

\* Unlinking an entry, wherever it is.
LEMMA UnlinkStep ==
  ASSUME ChainsInv, NEW ip \in Address, NEW k \in Matches(ip), Unlink(ip, k)
  PROVE  ChainsInv' /\ Entries' = Entries \ {chain[arp_hash(ip)][k]}
<1> DEFINE b == arp_hash(ip)
           l == chain[b]
           m == RemoveAt(l, k)
<1>1. b \in Bucket /\ l \in Seq(Entry) /\ k \in DOMAIN l
  BY HashIsBucket DEF ChainsInv, Matches
<1>2. /\ m \in Seq(Entry) /\ DOMAIN m = 1..(Len(l) - 1)
      /\ \A i \in 1..(Len(l) - 1) : m[i] = IF i < k THEN l[i] ELSE l[i + 1]
  <2> HIDE DEF l
  <2> QED BY <1>1, RemoveAtElements
<1>3. k \in 1..Len(l) /\ Len(l) \in Nat /\ DOMAIN l = 1..Len(l)
  BY <1>1
<1>4. chain' \in [Bucket -> Seq(Entry)]
      /\ \A d \in Bucket : chain'[d] = IF d = b THEN m ELSE chain[d]
  BY <1>1, <1>2 DEF ChainsInv, Unlink
<1> DEFINE old(i) == IF i < k THEN i ELSE i + 1
<1> HIDE DEF m, l
<1>5. \A i \in DOMAIN m : old(i) \in DOMAIN l /\ old(i) # k /\ m[i] = l[old(i)]
  BY <1>2, <1>3
<1>6. \A i, j \in DOMAIN m : old(i) = old(j) => i = j
  BY <1>2, <1>3
<1>7. \A j \in DOMAIN l : j # k => \E i \in DOMAIN m : old(i) = j
  <2> SUFFICES ASSUME NEW j \in DOMAIN l, j # k PROVE \E i \in DOMAIN m : old(i) = j
    OBVIOUS
  <2>1. CASE j < k
    <3>1. j \in DOMAIN m /\ old(j) = j
      BY <2>1, <1>2, <1>3
    <3> QED BY <3>1
  <2>2. CASE j > k
    <3>1. j - 1 \in DOMAIN m /\ old(j - 1) = j
      BY <2>2, <1>2, <1>3
    <3> QED BY <3>1
  <2> QED BY <2>1, <2>2, <1>3
<1> HIDE DEF old
<1>8. \A i, j \in DOMAIN l : /\ l[i].ip4 # 0 /\ arp_hash(l[i].ip4) = b
                             /\ l[i].ip4 = l[j].ip4 => i = j
  BY <1>1 DEF ChainsInv, ChainsSound, l
<1>9. \A i, j \in DOMAIN m : /\ m[i].ip4 # 0 /\ arp_hash(m[i].ip4) = b
                             /\ m[i].ip4 = m[j].ip4 => i = j
  BY <1>5, <1>6, <1>8
<1>10. ChainsSound'
  <2> SUFFICES ASSUME NEW d \in Bucket, NEW i \in DOMAIN chain'[d], NEW j \in DOMAIN chain'[d]
               PROVE  /\ chain'[d][i].ip4 # 0 /\ arp_hash(chain'[d][i].ip4) = d
                      /\ chain'[d][i].ip4 = chain'[d][j].ip4 => i = j
    BY DEF ChainsSound
  <2>1. CASE d # b
    BY <2>1, <1>4 DEF ChainsInv, ChainsSound
  <2>2. CASE d = b
    BY <2>2, <1>4, <1>9
  <2> QED BY <2>1, <2>2
<1>11. {m[i] : i \in DOMAIN m} = {l[i] : i \in DOMAIN l} \ {l[k]}
  <2>1. \A i \in DOMAIN m : m[i] \in {l[j] : j \in DOMAIN l} \ {l[k]}
    BY <1>1, <1>3, <1>5, <1>8
  <2>2. \A j \in DOMAIN l : l[j] # l[k] => \E i \in DOMAIN m : m[i] = l[j]
    BY <1>5, <1>7
  <2> QED BY <2>1, <2>2
<1>12. \A d \in Bucket : d # b => \A i \in DOMAIN chain[d] : chain[d][i] # l[k]
  BY <1>1, <1>3, <1>8 DEF ChainsInv, ChainsSound
<1>13. Entries' = Entries \ {l[k]}
  <2>1. \A x : x \in Entries' <=> x \in Entries /\ x # l[k]
    <3> SUFFICES ASSUME NEW x PROVE x \in Entries' <=> x \in Entries /\ x # l[k]
      OBVIOUS
    <3>1. x \in Entries' <=> \/ \E d \in Bucket : d # b /\ \E i \in DOMAIN chain[d] : x = chain[d][i]
                             \/ x \in {m[i] : i \in DOMAIN m}
      BY <1>1, <1>4 DEF Entries
    <3>2. x \in Entries <=> \/ \E d \in Bucket : d # b /\ \E i \in DOMAIN chain[d] : x = chain[d][i]
                            \/ x \in {l[i] : i \in DOMAIN l}
      BY <1>1 DEF Entries, l
    <3> QED BY <3>1, <3>2, <1>11, <1>12
  <2> QED BY <2>1
<1> QED BY <1>4, <1>10, <1>13 DEF ChainsInv, l

\* Every call keeps the lists sound and does to the table what it promises.
LEMMA CallImplements ==
  ASSUME ChainsInv, Next
  PROVE  ChainsInv' /\ Table!Next
<1>1. ASSUME NEW e \in Entry, create_cache_entry(e) PROVE ChainsInv' /\ Table!Create(e)
  <2>0. e.ip4 \in Address
    BY EntryFields
  <2>1. Matches(e.ip4) = {} <=> Table!Of(e.ip4) = {}
    <3>1. \A ip \in Address : Matches(ip) = {} <=> Table!Of(ip) = {}
      BY OfIsMatches
    <3> QED BY <2>0, <3>1
  <2>2. CASE Accepted(e)
    <3>1. ChainsInv' /\ Entries' = Entries \cup {e}
      BY <1>1, <2>2, LinkStep DEF create_cache_entry
    <3> QED BY <1>1, <2>1, <2>2, <3>1 DEF create_cache_entry, Accepted, Table!Create
  <2>3. CASE ~Accepted(e)
    <3>1. chain' = chain /\ ret' = -1 /\ found' = {}
      BY <1>1, <2>3 DEF create_cache_entry
    <3>2. ChainsInv' /\ Entries' = Entries
      BY <3>1 DEF ChainsInv, ChainsSound, Entries
    <3> QED BY <2>1, <2>3, <3>1, <3>2 DEF Accepted, Table!Create
  <2> QED BY <2>2, <2>3
<1>2. ASSUME NEW ip \in Address, lookup_cache_entry(ip) PROVE ChainsInv' /\ Table!Lookup(ip)
  <2>1. chain' = chain /\ ret' = 0
    BY <1>2 DEF lookup_cache_entry
  <2>2. ChainsInv' /\ Entries' = Entries
    BY <2>1 DEF ChainsInv, ChainsSound, Entries
  <2>3. found' = Table!Of(ip)
    <3>1. CASE Matches(ip) = {}
      BY <1>2, <3>1, OfIsMatches DEF lookup_cache_entry
    <3>2. ASSUME NEW k \in Matches(ip) PROVE found' = Table!Of(ip)
      <4>1. Matches(ip) = {k} /\ FirstOf(Matches(ip)) = k
        BY OneMatch
      <4>2. found' = {chain[arp_hash(ip)][k]}
        BY <1>2, <4>1 DEF lookup_cache_entry
      <4>3. Table!Of(ip) = {chain[arp_hash(ip)][i] : i \in {k}}
        BY <4>1, OfIsMatches
      <4> QED BY <4>2, <4>3
    <3> QED BY <3>1, <3>2
  <2> QED BY <2>1, <2>2, <2>3 DEF Table!Lookup
<1>3. ASSUME NEW ip \in Address, delete_cache_entry(ip) PROVE ChainsInv' /\ Table!Delete(ip)
  <2>1. CASE Matches(ip) = {}
    <3>1. chain' = chain /\ ret' = 0 /\ found' = {}
      BY <1>3, <2>1 DEF delete_cache_entry
    <3>2. ChainsInv' /\ Entries' = Entries
      BY <3>1 DEF ChainsInv, ChainsSound, Entries
    <3>3. Table!Of(ip) = {}
      BY <2>1, OfIsMatches
    <3> QED BY <3>1, <3>2, <3>3 DEF Table!Delete
  <2>2. ASSUME NEW k \in Matches(ip) PROVE ChainsInv' /\ Table!Delete(ip)
    <3>1. Matches(ip) = {k} /\ FirstOf(Matches(ip)) = k
      BY OneMatch
    <3>2. Unlink(ip, k) /\ ret' = 0 /\ found' = {}
      BY <1>3, <3>1 DEF delete_cache_entry
    <3>3. ChainsInv' /\ Entries' = Entries \ {chain[arp_hash(ip)][k]}
      BY <3>2, UnlinkStep
    <3>4. Table!Of(ip) = {chain[arp_hash(ip)][i] : i \in {k}}
      BY <3>1, OfIsMatches
    <3> QED BY <3>2, <3>3, <3>4 DEF Table!Delete
  <2> QED BY <2>1, <2>2
<1>4. ASSUME NEW ip \in Address, delete_empty_cache_entry(ip)
      PROVE  ChainsInv' /\ Table!DeleteEmpty(ip)
  <2>1. CASE Waiting(ip) = {}
    <3>1. chain' = chain /\ ret' = -1 /\ found' = {}
      BY <1>4, <2>1 DEF delete_empty_cache_entry
    <3>2. ChainsInv' /\ Entries' = Entries
      BY <3>1 DEF ChainsInv, ChainsSound, Entries
    <3>3. \A e \in Table!Of(ip) : e.fd = -1
      BY <2>1, OfIsMatches DEF Waiting
    <3> QED BY <3>1, <3>2, <3>3 DEF Table!DeleteEmpty
  <2>2. ASSUME NEW k \in Waiting(ip) PROVE ChainsInv' /\ Table!DeleteEmpty(ip)
    <3> DEFINE e == chain[arp_hash(ip)][k]
    <3>1. Waiting(ip) = {k} /\ FirstOf(Waiting(ip)) = k
      BY OneMatch
    <3>2. Unlink(ip, k) /\ ret' = e.fd /\ found' = {}
      BY <1>4, <3>1 DEF delete_empty_cache_entry
    <3>3. k \in Matches(ip) /\ e.fd # -1
      BY DEF Waiting
    <3>4. ChainsInv' /\ Entries' = Entries \ {e}
      BY <3>2, <3>3, UnlinkStep
    <3>5. e \in Table!Of(ip)
      BY <3>3, OfIsMatches
    <3> HIDE DEF e
    <3> QED BY <3>2, <3>3, <3>4, <3>5 DEF Table!DeleteEmpty
  <2> QED BY <2>1, <2>2
<1>5. Entry = Table!Entry
  BY DEF Entry, Table!Entry
<1> QED BY <1>1, <1>2, <1>3, <1>4, <1>5 DEF Next, Table!Next

LEMMA ChainsInit == Init => ChainsInv /\ Table!Init
BY DEF Init, ChainsInv, ChainsSound, Table!Init, Entries

LEMMA Stutters ==
  ASSUME ChainsInv, UNCHANGED vars PROVE ChainsInv' /\ UNCHANGED Table!vars
BY DEF vars, ChainsInv, ChainsSound, Table!vars, Entries

\* Every entry stays in the list where it is looked for, and no address gets
\* two, whatever is created and deleted.
THEOREM ChainsStaySound == Spec => []ChainsSound
<1>1. ChainsInv /\ [Next]_vars => ChainsInv'
  BY CallImplements, Stutters
<1>2. ChainsInv => ChainsSound
  BY DEF ChainsInv
<1> QED BY <1>1, <1>2, ChainsInit, PTL DEF Spec

\* The cache of arpcache.c implements the table its callers see.
THEOREM CacheImplementsTable == Spec => ImplementsTable
<1>1. ChainsInv /\ [Next]_vars => ChainsInv'
  BY CallImplements, Stutters
<1>2. ChainsInv /\ [Next]_vars => [Table!Next]_(Table!vars)
  BY CallImplements, Stutters
<1> QED BY <1>1, <1>2, ChainsInit, PTL DEF Spec, ImplementsTable, Table!Spec
===============================================================================
