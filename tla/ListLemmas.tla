------------------------------ MODULE ListLemmas ------------------------------
(***************************************************************************)
(* The facts about numbers, sequences and the lists of stops that the      *)
(* proofs of several modules rest on: induction and functions defined by   *)
(* recursion, and what the operators of TourMessage and VmList return, for *)
(* every command line.                                                     *)
(***************************************************************************)
EXTENDS TourMessage, VmList, FiniteSetTheorems, SequenceTheorems,
        WellFoundedInduction, TLAPS

(***************************************************************************)
(* Induction, stated with a set in the place of a predicate.               *)
(***************************************************************************)
LEMMA LeastNumber ==
  ASSUME NEW T, T \subseteq Nat, T # {}
  PROVE  \E x \in T : \A y \in T : x <= y
<1>1. PICK x \in T : \A y \in T : ~(<<y, x>> \in OpToRel(<, Nat))
  BY NatLessThanWellFounded, WFMin
<1>2. ASSUME NEW y \in T PROVE x <= y
  <2>1. x \in Nat /\ y \in Nat
    OBVIOUS
  <2>2. y < x => <<y, x>> \in OpToRel(<, Nat)
    BY <2>1 DEF OpToRel
  <2>3. ~(y < x)
    BY <1>1, <2>2
  <2> QED BY <2>1, <2>3
<1> QED BY <1>2

LEMMA GreatestNumber ==
  ASSUME NEW N \in Nat, NEW T, T \subseteq 0..N, T # {}
  PROVE  \E x \in T : \A y \in T : y <= x
<1> DEFINE U == {N - x : x \in T}
<1>1. U \subseteq Nat /\ U # {}
  <2>1. ASSUME NEW x \in T PROVE N - x \in Nat
    OBVIOUS
  <2>2. PICK x \in T : TRUE
    OBVIOUS
  <2>3. N - x \in U
    OBVIOUS
  <2> QED BY <2>1, <2>3
<1>2. PICK u \in U : \A v \in U : u <= v
  <2> HIDE DEF U
  <2> QED BY <1>1, LeastNumber
<1>3. PICK x \in T : u = N - x
  OBVIOUS
<1>4. ASSUME NEW y \in T PROVE y <= x
  <2>1. u <= N - y
    BY <1>2
  <2> QED BY <1>3, <2>1
<1> QED BY <1>4

LEMMA Induction ==
  ASSUME NEW T, T \subseteq Nat, 0 \in T, \A n \in T : n + 1 \in T
  PROVE  T = Nat
<1> SUFFICES ASSUME Nat \ T # {} PROVE FALSE
  OBVIOUS
<1>1. PICK x \in Nat \ T : \A y \in Nat \ T : x <= y
  BY LeastNumber
<1>2. x # 0 /\ x - 1 \in Nat /\ x - 1 \in T
  BY <1>1
<1> QED BY <1>1, <1>2

\* Up to a bound.
LEMMA InductionTo ==
  ASSUME NEW N \in Nat, NEW T, 0 \in T, \A n \in 0..(N - 1) : n \in T => n + 1 \in T
  PROVE  0..N \subseteq T
<1> DEFINE U == {n \in Nat : n <= N => n \in T}
<1>1. 0 \in U
  OBVIOUS
<1>2. ASSUME NEW n \in U PROVE n + 1 \in U
  OBVIOUS
<1> HIDE DEF U
<1>3. U = Nat
  <2>1. U \subseteq Nat
    BY DEF U
  <2> QED BY <2>1, <1>1, <1>2, Induction
<1> QED BY <1>3 DEF U

\* f begins with b and goes on with step.
Recurs(f, N, b, step) == f[0] = b /\ \A n \in 1..N : f[n] = step[<<n, f[n-1]>>]

LEMMA RecursiveFunction ==
  ASSUME NEW N \in Nat, NEW S, NEW b \in S, NEW step \in [(1..N) \X S -> S]
  PROVE  \E f \in [0..N -> S] : Recurs(f, N, b, step)
<1> DEFINE Upto(m, f) == f[0] = b /\ \A n \in 1..m : f[n] = step[<<n, f[n-1]>>]
           T == {m \in 0..N : \E f \in [0..m -> S] : Upto(m, f)}
<1>1. 0 \in T
  <2> DEFINE g == [n \in 0..0 |-> b]
  <2>1. g \in [0..0 -> S] /\ Upto(0, g)
    OBVIOUS
  <2> HIDE DEF g, Upto
  <2> QED BY <2>1
<1>2. ASSUME NEW m \in 0..(N - 1), m \in T PROVE m + 1 \in T
  <2>1. PICK f \in [0..m -> S] : Upto(m, f)
    BY <1>2
  <2> DEFINE g == [n \in 0..(m + 1) |-> IF n <= m THEN f[n] ELSE step[<<n, f[n-1]>>]]
  <2>2. g \in [0..(m + 1) -> S]
    <3>1. ASSUME NEW n \in 0..(m + 1), ~(n <= m) PROVE step[<<n, f[n-1]>>] \in S
      <4>1. n \in 1..N /\ n - 1 \in 0..m
        BY <3>1
      <4> QED BY <4>1
    <3> QED BY <3>1
  <2>3. Upto(m + 1, g)
    <3>1. g[0] = b
      BY <2>1
    <3>2. ASSUME NEW n \in 1..(m + 1) PROVE g[n] = step[<<n, g[n-1]>>]
      <4>1. n \in 0..(m + 1) /\ n - 1 \in 0..(m + 1) /\ n - 1 <= m /\ (n <= m => n \in 1..m)
        OBVIOUS
      <4>2. g[n-1] = f[n-1]
        BY <4>1
      <4>3. g[n] = IF n <= m THEN f[n] ELSE step[<<n, f[n-1]>>]
        BY <4>1
      <4> HIDE DEF g
      <4> QED BY <2>1, <4>1, <4>2, <4>3
    <3> QED BY <3>1, <3>2
  <2> HIDE DEF g, Upto
  <2>4. m + 1 \in 0..N
    OBVIOUS
  <2> QED BY <2>2, <2>3, <2>4
<1> HIDE DEF T
<1>3. 0..N \subseteq T
  BY <1>1, <1>2, InductionTo
<1>4. N \in T
  BY <1>3
<1> QED BY <1>4 DEF T, Recurs

(***************************************************************************)
(* Parts of sequences.                                                     *)
(***************************************************************************)
LEMMA ConcatElements ==
  ASSUME NEW S, NEW s \in Seq(S), NEW t \in Seq(S)
  PROVE  /\ s \o t \in Seq(S) /\ Len(s \o t) = Len(s) + Len(t)
         /\ DOMAIN (s \o t) = 1..(Len(s) + Len(t))
         /\ \A k \in 1..Len(s) : (s \o t)[k] = s[k]
         /\ \A k \in 1..Len(t) : (s \o t)[Len(s) + k] = t[k]
<1>1. /\ s \o t \in Seq(S) /\ Len(s \o t) = Len(s) + Len(t)
      /\ \A k \in 1..(Len(s) + Len(t)) :
           (s \o t)[k] = IF k <= Len(s) THEN s[k] ELSE t[k - Len(s)]
  BY ConcatProperties
<1>2. Len(s) \in Nat /\ Len(t) \in Nat
  OBVIOUS
<1>3. \A k \in 1..Len(t) : /\ Len(s) + k \in 1..(Len(s) + Len(t)) /\ ~(Len(s) + k <= Len(s))
                          /\ (Len(s) + k) - Len(s) = k
  BY <1>2
<1>4. \A k \in 1..Len(s) : k \in 1..(Len(s) + Len(t)) /\ k <= Len(s)
  BY <1>2
<1> QED BY <1>1, <1>3, <1>4

LEMMA RestElements ==
  ASSUME NEW S, NEW s \in Seq(S), NEW n \in 0..Len(s)
  PROVE  LET t == SubSeq(s, n + 1, Len(s))
         IN  /\ t \in Seq(S) /\ Len(t) = Len(s) - n
             /\ \A k \in 1..(Len(s) - n) : t[k] = s[n + k]
<1>1. Len(s) \in Nat /\ n \in Nat /\ n <= Len(s)
  OBVIOUS
<1>2. n + 1 \in Int /\ Len(s) \in Int /\ \A i \in (n + 1)..Len(s) : s[i] \in S
  BY <1>1
<1> DEFINE t == SubSeq(s, n + 1, Len(s))
<1>3. /\ t \in Seq(S)
      /\ Len(t) = IF n + 1 <= Len(s) THEN Len(s) - (n + 1) + 1 ELSE 0
      /\ \A i \in 1..(Len(s) - (n + 1) + 1) : t[i] = s[(n + 1) + i - 1]
  BY <1>2, SubSeqProperties
<1> HIDE DEF t
<1>4. Len(s) - (n + 1) + 1 = Len(s) - n /\ \A i \in 1..(Len(s) - n) : (n + 1) + i - 1 = n + i
  BY <1>1
<1>5. Len(t) = Len(s) - n
  BY <1>1, <1>3
<1>6. \A k \in 1..(Len(s) - n) : t[k] = s[n + k]
  BY <1>3, <1>4
<1> QED BY <1>3, <1>5, <1>6 DEF t

\* Cutting out a part.
\* t is s without its places from i + 1 to j.
CutTo(s, t, i, j) ==
  /\ Len(t) = Len(s) - (j - i) /\ DOMAIN t = 1..(Len(s) - (j - i))
  /\ \A k \in 1..i : t[k] = s[k]
  /\ \A k \in (i + 1)..(Len(s) - (j - i)) : t[k] = s[k + (j - i)]

LEMMA CutElements ==
  ASSUME NEW S, NEW s \in Seq(S), NEW i \in 0..Len(s), NEW j \in i..Len(s)
  PROVE  LET t == SubSeq(s, 1, i) \o SubSeq(s, j + 1, Len(s))
         IN  t \in Seq(S) /\ CutTo(s, t, i, j)
<1> DEFINE a == SubSeq(s, 1, i)
           b == SubSeq(s, j + 1, Len(s))
<1>1. Len(s) \in Nat /\ i \in Nat /\ j \in Nat /\ i <= j /\ j <= Len(s) /\ j \in 0..Len(s)
      /\ Len(s) - j \in Nat
  OBVIOUS
<1>2. a \in Seq(S) /\ Len(a) = i /\ \A k \in 1..i : a[k] = s[k]
  BY <1>1
<1>3. b \in Seq(S) /\ Len(b) = Len(s) - j /\ \A k \in 1..(Len(s) - j) : b[k] = s[j + k]
  BY <1>1, RestElements
<1> HIDE DEF a, b
<1>4. /\ a \o b \in Seq(S) /\ Len(a \o b) = i + (Len(s) - j)
      /\ DOMAIN (a \o b) = 1..(i + (Len(s) - j))
      /\ \A k \in 1..i : (a \o b)[k] = a[k]
      /\ \A k \in 1..(Len(s) - j) : (a \o b)[i + k] = b[k]
  <2>1. /\ a \o b \in Seq(S) /\ Len(a \o b) = Len(a) + Len(b)
        /\ DOMAIN (a \o b) = 1..(Len(a) + Len(b))
        /\ \A k \in 1..Len(a) : (a \o b)[k] = a[k]
        /\ \A k \in 1..Len(b) : (a \o b)[Len(a) + k] = b[k]
    <3>1. a \in Seq(S) /\ b \in Seq(S)
      BY <1>2, <1>3
    <3> QED BY <3>1, ConcatElements
  <2> QED BY <1>2, <1>3, <2>1
<1>5. i + (Len(s) - j) = Len(s) - (j - i)
  BY <1>1
<1>6. ASSUME NEW k \in (i + 1)..(Len(s) - (j - i)) PROVE (a \o b)[k] = s[k + (j - i)]
  <2>1. k - i \in 1..(Len(s) - j) /\ i + (k - i) = k /\ j + (k - i) = k + (j - i)
    BY <1>1
  <2> QED BY <1>3, <1>4, <2>1
<1>7. \A k \in 1..i : (a \o b)[k] = s[k]
  BY <1>2, <1>4
<1>8. CutTo(s, a \o b, i, j)
  BY <1>4, <1>5, <1>6, <1>7 DEF CutTo
<1> QED BY <1>4, <1>8 DEF a, b

\* t is s with e after its place i.
PutIn(s, t, i, e) ==
  /\ Len(t) = Len(s) + 1 /\ DOMAIN t = 1..(Len(s) + 1)
  /\ \A k \in 1..i : t[k] = s[k]
  /\ t[i + 1] = e
  /\ \A k \in (i + 1)..Len(s) : t[k + 1] = s[k]

LEMMA InsertElements ==
  ASSUME NEW S, NEW s \in Seq(S), NEW e \in S, NEW i \in 0..Len(s)
  PROVE  InsertAt(s, i + 1, e) \in Seq(S) /\ PutIn(s, InsertAt(s, i + 1, e), i, e)
<1> DEFINE a == SubSeq(s, 1, i)
           b == SubSeq(s, i + 1, Len(s))
           c == <<e>>
<1>1. Len(s) \in Nat /\ i \in Nat /\ i <= Len(s) /\ Len(s) - i \in Nat
  OBVIOUS
<1>2. a \in Seq(S) /\ Len(a) = i /\ \A k \in 1..i : a[k] = s[k]
  BY <1>1
<1>3. b \in Seq(S) /\ Len(b) = Len(s) - i /\ \A k \in 1..(Len(s) - i) : b[k] = s[i + k]
  BY <1>1, RestElements
<1>4. c \in Seq(S) /\ Len(c) = 1 /\ c[1] = e
  OBVIOUS
<1>5. InsertAt(s, i + 1, e) = (a \o c) \o b
  <2>1. (i + 1) - 1 = i
    BY <1>1
  <2> QED BY <2>1 DEF InsertAt
<1> HIDE DEF a, b, c
<1> DEFINE d == a \o c
<1>6. /\ d \in Seq(S) /\ Len(d) = i + 1 /\ \A k \in 1..i : d[k] = s[k]
      /\ d[i + 1] = e
  <2>1. /\ d \in Seq(S) /\ Len(d) = Len(a) + Len(c)
        /\ \A k \in 1..Len(a) : d[k] = a[k]
        /\ \A k \in 1..Len(c) : d[Len(a) + k] = c[k]
    <3>1. a \in Seq(S) /\ c \in Seq(S)
      BY <1>2, <1>4
    <3> QED BY <3>1, ConcatElements
  <2> HIDE DEF d
  <2> QED BY <1>2, <1>4, <2>1
<1> HIDE DEF d
<1>7. /\ d \o b \in Seq(S) /\ Len(d \o b) = (i + 1) + (Len(s) - i)
      /\ DOMAIN (d \o b) = 1..((i + 1) + (Len(s) - i))
      /\ \A k \in 1..(i + 1) : (d \o b)[k] = d[k]
      /\ \A k \in 1..(Len(s) - i) : (d \o b)[(i + 1) + k] = b[k]
  <2>1. /\ d \o b \in Seq(S) /\ Len(d \o b) = Len(d) + Len(b)
        /\ DOMAIN (d \o b) = 1..(Len(d) + Len(b))
        /\ \A k \in 1..Len(d) : (d \o b)[k] = d[k]
        /\ \A k \in 1..Len(b) : (d \o b)[Len(d) + k] = b[k]
    <3>1. d \in Seq(S) /\ b \in Seq(S)
      BY <1>3, <1>6
    <3> QED BY <3>1, ConcatElements
  <2> QED BY <1>3, <1>6, <2>1
<1>8. (i + 1) + (Len(s) - i) = Len(s) + 1
  BY <1>1
<1>9. ASSUME NEW k \in (i + 1)..Len(s) PROVE (d \o b)[k + 1] = s[k]
  <2> DEFINE m == k - i
  <2>1. m \in 1..(Len(s) - i) /\ (i + 1) + m = k + 1 /\ i + m = k
    BY <1>1
  <2> HIDE DEF m
  <2>2. (d \o b)[(i + 1) + m] = b[m] /\ b[m] = s[i + m]
    BY <1>3, <1>7, <2>1
  <2> QED BY <2>1, <2>2
<1>10. (\A k \in 1..i : (d \o b)[k] = s[k]) /\ (d \o b)[i + 1] = e
  BY <1>1, <1>6, <1>7
<1> DEFINE t == d \o b
<1>11. /\ t \in Seq(S) /\ Len(t) = Len(s) + 1 /\ DOMAIN t = 1..(Len(s) + 1)
       /\ \A k \in 1..i : t[k] = s[k]
       /\ t[i + 1] = e
  BY <1>7, <1>8, <1>10
<1>12. \A k \in (i + 1)..Len(s) : t[k + 1] = s[k]
  BY <1>9
<1>13. InsertAt(s, i + 1, e) = t
  BY <1>5 DEF d
<1> HIDE DEF t
<1>14. PutIn(s, t, i, e)
  BY <1>11, <1>12 DEF PutIn
<1> QED BY <1>11, <1>13, <1>14

(***************************************************************************)
(* TourMessage.                                                            *)
(***************************************************************************)
\* The repeats before stop i are among the stops 2..i-1: they are counted.
LEMMA RepeatsBefore ==
  ASSUME NEW S, NEW stops \in Seq(S), NEW i \in 1..Len(stops)
  PROVE  LET before == {j \in Repeats(stops) : j < i}
         IN  /\ IsFiniteSet(before)
             /\ Cardinality(before) \in Nat
             /\ Cardinality(before) <= IF i = 1 THEN 0 ELSE i - 2
<1> DEFINE before == {j \in Repeats(stops) : j < i}
<1>1. Len(stops) \in Nat
  BY LenProperties
<1>2. before \in SUBSET (2..(i-1))
  BY <1>1 DEF Repeats
<1>3. /\ IsFiniteSet(2..(i-1))
      /\ Cardinality(2..(i-1)) = IF 2 > i - 1 THEN 0 ELSE i - 1 - 2 + 1
  <2>1. 2 \in Int /\ i - 1 \in Int
    BY <1>1
  <2> QED BY ONLY <2>1, FS_Interval
<1>4. IsFiniteSet(before) /\ Cardinality(before) <= Cardinality(2..(i-1))
  BY <1>2, <1>3, FS_Subset
<1>5. Cardinality(before) \in Nat
  BY <1>4, FS_CardinalityType
<1>6. Cardinality(before) <= IF i = 1 THEN 0 ELSE i - 2
  BY <1>1, <1>3, <1>4, <1>5
<1> QED BY <1>4, <1>5, <1>6

\* The host has the first slot, every other stop a later one.
LEMMA SlotBounds ==
  ASSUME NEW S, NEW stops \in Seq(S), NEW i \in 1..Len(stops)
  PROVE  /\ Slot(stops, i) \in 1..i
         /\ i > 1 => Slot(stops, i) >= 2
         /\ i = 1 => Slot(stops, i) = 1
<1> DEFINE before == {j \in Repeats(stops) : j < i}
<1>1. Len(stops) \in Nat
  BY LenProperties
<1>2. Cardinality(before) \in Nat /\ Cardinality(before) <= IF i = 1 THEN 0 ELSE i - 2
  BY RepeatsBefore
<1>3. Slot(stops, i) = i - Cardinality(before)
  BY DEF Slot
<1> HIDE DEF before
<1> QED BY <1>1, <1>2, <1>3

\* A list that is composed of at least three stops is a list of their
\* addresses and perhaps one that was never written; it begins with the host
\* and has a stop to go to.
LEMMA ComposeProperties ==
  ASSUME NEW S, NEW stops \in Seq(S), Len(stops) >= 3, NEW junk \in S
  PROVE  /\ Compose(stops, junk) \in Seq(S)
         /\ Len(Compose(stops, junk)) >= 2
         /\ Compose(stops, junk)[1] = stops[1]
<1> DEFINE writers(k) == {i \in DOMAIN stops \ Repeats(stops) : Slot(stops, i) = k}
           entry(k) == IF writers(k) = {} THEN junk
                                          ELSE stops[CHOOSE i \in writers(k) : TRUE]
           len == Slot(stops, Len(stops))
<1>1. /\ Len(stops) \in Nat /\ DOMAIN stops = 1..Len(stops)
      /\ \A i \in 1..Len(stops) : stops[i] \in S
  BY LenProperties
<1>2. len \in Nat /\ len >= 2
  BY <1>1, SlotBounds
<1>3. \A k : entry(k) \in S
  <2> TAKE k
  <2>1. CASE writers(k) = {}
    BY <2>1
  <2>2. CASE writers(k) # {}
    <3>1. (CHOOSE i \in writers(k) : TRUE) \in DOMAIN stops
      BY <2>2
    <3> QED BY <3>1, <2>2, <1>1
  <2> QED BY <2>1, <2>2
<1>4. Compose(stops, junk) = [k \in 1..len |-> entry(k)]
  BY DEF Compose
<1>5. writers(1) = {1}
  <2>1. 1 \in DOMAIN stops \ Repeats(stops) /\ Slot(stops, 1) = 1
    BY <1>1, SlotBounds DEF Repeats
  <2>2. \A i \in DOMAIN stops : Slot(stops, i) = 1 => i = 1
    BY <1>1, SlotBounds
  <2> QED BY <2>1, <2>2
<1>6. entry(1) = stops[1]
  <2>1. (CHOOSE i \in {1} : TRUE) = 1
    OBVIOUS
  <2> QED BY <1>5, <2>1
<1> HIDE DEF entry, len
<1>7. [k \in 1..len |-> entry(k)] \in Seq(S) /\ Len([k \in 1..len |-> entry(k)]) = len
  BY <1>2, <1>3
<1> QED BY <1>2, <1>4, <1>6, <1>7

\* A stop that is no repeat takes the next slot.
LEMMA SlotSteps ==
  ASSUME NEW S, NEW stops \in Seq(S), NEW i \in 1..(Len(stops) - 1)
  PROVE  Slot(stops, i + 1) = Slot(stops, i) + IF i \in Repeats(stops) THEN 0 ELSE 1
<1> DEFINE before(n) == {j \in Repeats(stops) : j < n}
<1>1. Len(stops) \in Nat /\ i \in 1..Len(stops) /\ i \in Nat
  BY LenProperties
<1>2. IsFiniteSet(before(i)) /\ Cardinality(before(i)) \in Nat
  BY <1>1, RepeatsBefore
<1>3. Slot(stops, i) = i - Cardinality(before(i))
      /\ Slot(stops, i + 1) = (i + 1) - Cardinality(before(i + 1))
  BY DEF Slot
<1>4. CASE i \in Repeats(stops)
  <2>1. before(i + 1) = before(i) \cup {i} /\ i \notin before(i)
    BY <1>1, <1>4 DEF Repeats
  <2>2. Cardinality(before(i) \cup {i}) = Cardinality(before(i)) + 1
    BY <2>1, <1>2, FS_AddElement
  <2>3. Cardinality(before(i + 1)) = Cardinality(before(i)) + 1
    BY <2>1, <2>2
  <2> HIDE DEF before
  <2> QED BY <2>3, <1>1, <1>2, <1>3, <1>4
<1>5. CASE i \notin Repeats(stops)
  <2>1. before(i + 1) = before(i)
    BY <1>1, <1>5 DEF Repeats
  <2> HIDE DEF before
  <2> QED BY <2>1, <1>1, <1>2, <1>3, <1>5
<1> QED BY <1>4, <1>5

\* If the last stop is no repeat, every slot is written.
LEMMA EverySlotWritten ==
  ASSUME NEW S, NEW stops \in Seq(S), stops # <<>>, Len(stops) \notin Repeats(stops),
         NEW k \in 1..Slot(stops, Len(stops))
  PROVE  \E i \in (1..Len(stops)) \ Repeats(stops) : Slot(stops, i) = k
<1>1. PICK N \in Nat : Len(stops) = N + 1
  <2>1. Len(stops) \in Nat /\ Len(stops) # 0
    BY EmptySeq
  <2> QED BY <2>1
<1> DEFINE Written(m, e) == \E i \in (1..m) \ Repeats(stops) : Slot(stops, i) = e
           T == {n \in 0..N : \A e \in 1..Slot(stops, n + 1) :
                                e = Slot(stops, n + 1) \/ Written(n, e)}
<1>2. 0 \in T
  BY <1>1, SlotBounds
<1>3. ASSUME NEW n \in 0..(N - 1), n \in T PROVE n + 1 \in T
  <2>1. n + 1 \in 1..(Len(stops) - 1) /\ n \in Nat /\ n + 1 \in 0..N
    BY <1>1
  <2>2. /\ Slot(stops, (n + 1) + 1)
             = Slot(stops, n + 1) + IF n + 1 \in Repeats(stops) THEN 0 ELSE 1
        /\ Slot(stops, n + 1) \in Nat
    BY <2>1, <1>1, SlotSteps, SlotBounds
  <2>3. \A e \in 1..Slot(stops, n + 1) : e = Slot(stops, n + 1) \/ Written(n, e)
    BY <1>3
  <2>4. ASSUME NEW e \in 1..Slot(stops, (n + 1) + 1), e # Slot(stops, (n + 1) + 1)
        PROVE  Written(n + 1, e)
    <3>1. e \in 1..Slot(stops, n + 1)
      BY <2>2, <2>4
    <3>2. CASE Written(n, e)
      BY <3>2, <2>1
    <3>3. CASE ~Written(n, e)
      <4>1. e = Slot(stops, n + 1)
        BY <3>1, <3>3, <2>3
      <4>2. n + 1 \notin Repeats(stops)
        BY <4>1, <2>2, <2>4
      <4> QED BY <4>1, <4>2, <2>1
    <3> QED BY <3>2, <3>3
  <2> HIDE DEF Written
  <2> QED BY <2>1, <2>4
<1>4. N \in T
  <2> HIDE DEF T
  <2>1. 0..N \subseteq T
    BY <1>2, <1>3, InductionTo
  <2> QED BY <2>1
<1>5. k = Slot(stops, N + 1) \/ Written(N, k)
  BY <1>1, <1>4
<1>6. CASE Written(N, k)
  BY <1>1, <1>6
<1>7. CASE k = Slot(stops, N + 1)
  BY <1>1, <1>7
<1> QED BY <1>5, <1>6, <1>7

\* The stop in the second slot is not the host.
LEMMA SecondStopWritten ==
  ASSUME NEW S, NEW stops \in Seq(S), NEW i \in (1..Len(stops)) \ Repeats(stops),
         Slot(stops, i) = 2
  PROVE  stops[i] # stops[1]
<1>1. Len(stops) \in Nat /\ i \in Nat
  BY LenProperties
<1>2. i # 1
  BY SlotBounds
<1> DEFINE N == Len(stops) - 1
           T == {n \in 0..N : n >= 1 /\ Slot(stops, n + 1) = 2 => stops[n] = stops[1]}
<1>3. 0 \in T /\ N \in Nat
  BY <1>1, <1>2
<1>4. ASSUME NEW n \in 0..(N - 1), n \in T PROVE n + 1 \in T
  <2>1. n + 1 \in 1..(Len(stops) - 1) /\ n \in Nat /\ n + 1 \in 0..N /\ n + 1 \in 1..Len(stops)
    BY <1>1
  <2>2. CASE n = 0
    BY <2>1, <2>2
  <2>3. CASE n >= 1
    <3>1. /\ Slot(stops, (n + 1) + 1)
               = Slot(stops, n + 1) + IF n + 1 \in Repeats(stops) THEN 0 ELSE 1
          /\ Slot(stops, n + 1) \in Nat /\ Slot(stops, n + 1) >= 2
      BY <2>1, <2>3, SlotSteps, SlotBounds
    <3>2. ASSUME Slot(stops, (n + 1) + 1) = 2 PROVE stops[n + 1] = stops[1]
      <4>1. n + 1 \in Repeats(stops) /\ Slot(stops, n + 1) = 2
        BY <3>1, <3>2
      <4>2. stops[n] = stops[1]
        BY <4>1, <1>4, <2>3
      <4>3. stops[n + 1] = stops[n]
        BY <4>1, <2>1 DEF Repeats
      <4> QED BY <4>2, <4>3
    <3> QED BY <3>2, <2>1
  <2> QED BY <2>1, <2>2, <2>3
<1>5. i - 1 \in T
  <2> HIDE DEF T
  <2>1. 0..N \subseteq T
    BY <1>3, <1>4, InductionTo
  <2> QED BY <2>1, <1>1, <1>2
<1>6. stops[i-1] = stops[1]
  BY <1>1, <1>2, <1>5
<1> QED BY <1>1, <1>2, <1>6 DEF Repeats

\* If the last stop is no repeat, the list that is composed holds nothing but
\* stops, and the second differs from the first.
LEMMA ComposeWhole ==
  ASSUME NEW S, NEW stops \in Seq(S), Len(stops) >= 3, Len(stops) \notin Repeats(stops),
         NEW junk
  PROVE  LET l == Compose(stops, junk)
         IN  l \in Seq(S) /\ Len(l) >= 2 /\ l[1] = stops[1] /\ l[2] # l[1]
<1> DEFINE writers(k) == {i \in DOMAIN stops \ Repeats(stops) : Slot(stops, i) = k}
           entry(k) == IF writers(k) = {} THEN junk
                                          ELSE stops[CHOOSE i \in writers(k) : TRUE]
           len == Slot(stops, Len(stops))
           l == Compose(stops, junk)
<1>1. /\ Len(stops) \in Nat /\ DOMAIN stops = 1..Len(stops) /\ stops # <<>>
      /\ \A i \in 1..Len(stops) : stops[i] \in S
  BY LenProperties, EmptySeq
<1>2. len \in Nat /\ len >= 2
  BY <1>1, SlotBounds
<1>3. ASSUME NEW k \in 1..len
      PROVE  \E i \in writers(k) : entry(k) = stops[i]
  <2>1. writers(k) # {}
    BY <1>1, EverySlotWritten
  <2> HIDE DEF writers
  <2> QED BY <2>1
<1>4. l = [k \in 1..len |-> entry(k)]
  BY DEF Compose
<1>5. \A k \in 1..len : entry(k) \in S
  BY <1>1, <1>3
<1>6. entry(2) # stops[1]
  <2>1. PICK i \in writers(2) : entry(2) = stops[i]
    <3>1. 2 \in 1..len
      BY <1>2
    <3> HIDE DEF entry, writers, len
    <3> QED BY <3>1, <1>3
  <2>2. i \in (1..Len(stops)) \ Repeats(stops) /\ Slot(stops, i) = 2
    BY <2>1, <1>1
  <2> HIDE DEF entry
  <2> QED BY <2>1, <2>2, SecondStopWritten
<1>7. l[1] = stops[1]
  <2>1. stops \in Seq(S \cup {junk}) /\ junk \in S \cup {junk}
    OBVIOUS
  <2> QED BY <2>1, ComposeProperties
<1> HIDE DEF entry, len, writers
<1>8. [k \in 1..len |-> entry(k)] \in Seq(S) /\ Len([k \in 1..len |-> entry(k)]) = len
  BY <1>2, <1>5
<1>9. l[2] = entry(2)
  BY <1>2, <1>4
<1> QED BY <1>2, <1>4, <1>6, <1>7, <1>8, <1>9

(***************************************************************************)
(* VmList.                                                                 *)
(***************************************************************************)
\* The first place of e in s.
FirstAt(s, e, k) == k \in 1..Len(s) /\ s[k] = e /\ \A i \in 1..(k - 1) : s[i] # e

LEMMA FirstAtExists ==
  ASSUME NEW S, NEW s \in Seq(S), NEW e, NEW n \in 1..Len(s), s[n] = e
  PROVE  \E k \in 1..n : FirstAt(s, e, k)
<1> DEFINE I == {i \in 1..Len(s) : s[i] = e}
<1>1. Len(s) \in Nat /\ I \subseteq Nat /\ n \in I
  OBVIOUS
<1> HIDE DEF I
<1>2. PICK k \in I : \A i \in I : k <= i
  BY <1>1, LeastNumber
<1>3. k \in 1..Len(s) /\ s[k] = e /\ k <= n
  BY <1>1, <1>2 DEF I
<1>4. ASSUME NEW i \in 1..(k - 1) PROVE s[i] # e
  <2>1. i \in 1..Len(s) /\ ~(k <= i)
    BY <1>1, <1>3
  <2> QED BY <1>2, <2>1 DEF I
<1> QED BY <1>3, <1>4 DEF FirstAt

LEMMA FirstIsMin ==
  ASSUME NEW S, NEW s \in Seq(S), NEW e, NEW k, FirstAt(s, e, k)
  PROVE  LET I == {i \in 1..Len(s) : s[i] = e} IN I # {} /\ Min(I) = k
<1> DEFINE I == {i \in 1..Len(s) : s[i] = e}
<1>1. Len(s) \in Nat /\ I \subseteq Nat /\ k \in I /\ k \in Nat
  BY DEF FirstAt
<1>2. ASSUME NEW i \in I PROVE k <= i
  <2>1. i \notin 1..(k - 1)
    BY DEF FirstAt
  <2> QED BY <1>1, <2>1
<1> HIDE DEF I
<1>3. Min(I) = k
  <2>1. ASSUME NEW m \in I, \A y \in I : m <= y PROVE m = k
    BY <1>1, <1>2, <2>1
  <2> QED BY <1>1, <1>2, <2>1 DEF Min
<1> QED BY <1>1, <1>3 DEF I

\* Deleting an address cuts out the first entry that holds it.
LEMMA RemoveFirstElements ==
  ASSUME NEW S, NEW s \in Seq(S), NEW e, NEW k, FirstAt(s, e, k)
  PROVE  LET t == RemoveFirst(s, e)
         IN  /\ t \in Seq(S) /\ Len(t) = Len(s) - 1 /\ DOMAIN t = 1..(Len(s) - 1)
             /\ \A i \in 1..(k - 1) : t[i] = s[i]
             /\ \A i \in k..(Len(s) - 1) : t[i] = s[i + 1]
<1>1. Len(s) \in Nat /\ k \in 1..Len(s) /\ s[k] = e
  BY DEF FirstAt
<1>2. RemoveFirst(s, e) = RemoveAt(s, k)
  <2> DEFINE I == {i \in 1..Len(s) : s[i] = e}
  <2>1. I # {} /\ Min(I) = k
    BY FirstIsMin
  <2>2. RemoveFirst(s, e) = IF \E i \in 1..Len(s) : s[i] = e
                              THEN RemoveAt(s, IF I # {} THEN Min(I) ELSE 0)
                              ELSE s
    BY DEF RemoveFirst, SelectInSeq
  <2> HIDE DEF I
  <2> QED BY <1>1, <2>1, <2>2
<1>3. RemoveAt(s, k) = SubSeq(s, 1, k - 1) \o SubSeq(s, k + 1, Len(s))
  BY DEF RemoveAt
<1> DEFINE t == SubSeq(s, 1, k - 1) \o SubSeq(s, k + 1, Len(s))
<1>4. t \in Seq(S) /\ CutTo(s, t, k - 1, k)
  <2>1. k - 1 \in 0..Len(s) /\ k \in (k - 1)..Len(s)
    BY <1>1
  <2> QED BY <2>1, CutElements
<1>5. k - (k - 1) = 1 /\ (k - 1) + 1 = k
  BY <1>1
<1> HIDE DEF t
<1>6. /\ t \in Seq(S) /\ Len(t) = Len(s) - 1 /\ DOMAIN t = 1..(Len(s) - 1)
      /\ \A i \in 1..(k - 1) : t[i] = s[i]
      /\ \A i \in k..(Len(s) - 1) : t[i] = s[i + 1]
  BY <1>4, <1>5 DEF CutTo
<1>7. RemoveFirst(s, e) = t
  BY <1>2, <1>3 DEF t
<1> QED BY <1>6, <1>7

\* The list after the iterations up to k, as VmList defines it.
IsAfter(g, stops) ==
  g = [k \in 0..(Len(stops) - 1) |->
         IF k = 0 THEN stops
         ELSE IF stops[k] = stops[k+1] THEN RemoveFirst(g[k-1], stops[k]) ELSE g[k-1]]

After(stops) == CHOOSE g : IsAfter(g, stops)

\* It holds what has not been deleted: of the stops from k+1 on, all.
LEMMA AfterProperties ==
  ASSUME NEW S, NEW stops \in Seq(S), stops # <<>>
  PROVE  /\ VmList(stops) = After(stops)[Len(stops) - 1]
         /\ After(stops)[0] = stops
         /\ \A k \in 1..(Len(stops) - 1) :
              After(stops)[k] = IF stops[k] = stops[k+1]
                                  THEN RemoveFirst(After(stops)[k-1], stops[k])
                                  ELSE After(stops)[k-1]
         /\ \A k \in 0..(Len(stops) - 1) :
              After(stops)[k] \in Seq(S) /\ Len(After(stops)[k]) >= Len(stops) - k
<1> DEFINE N == Len(stops) - 1
           Lists == Seq(S)
           Deleted(k, v) == IF stops[k] = stops[k+1] THEN RemoveFirst(v, stops[k]) ELSE v
           step == [x \in (1..N) \X Lists |-> Deleted(x[1], x[2])]
           IsList(g) == g = [k \in 0..N |-> IF k = 0 THEN stops ELSE Deleted(k, g[k-1])]
           list == CHOOSE g : IsList(g)
<1>1. N \in Nat /\ Len(stops) = N + 1 /\ stops \in Lists
  <2>1. Len(stops) \in Nat /\ (Len(stops) = 0 => stops = <<>>)
    BY EmptySeq
  <2> QED BY <2>1
<1>2. After(stops) = list
  BY DEF After, IsAfter
<1>3. VmList(stops) = list[N]
  BY DEF VmList
<1> HIDE DEF N, list
<1>4. ASSUME NEW k, NEW v \in Lists
      PROVE  Deleted(k, v) \in Lists /\ Len(v) \in Nat /\ Len(Deleted(k, v)) \in {Len(v), Len(v) - 1}
  <2>1. CASE stops[k] = stops[k+1] /\ \E n \in 1..Len(v) : v[n] = stops[k]
    <3>1. PICK n \in 1..Len(v) : v[n] = stops[k]
      BY <2>1
    <3>2. PICK m \in 1..n : FirstAt(v, stops[k], m)
      BY <3>1, FirstAtExists
    <3> QED BY <2>1, <3>2, RemoveFirstElements
  <2>2. CASE ~(\E n \in 1..Len(v) : v[n] = stops[k])
    BY <2>2 DEF RemoveFirst
  <2>3. CASE stops[k] # stops[k+1]
    BY <2>3
  <2> QED BY <2>1, <2>2, <2>3
<1> HIDE DEF Lists, Deleted
<1>5. step \in [(1..N) \X Lists -> Lists]
  BY <1>4
<1> HIDE DEF step
<1>6. PICK f \in [0..N -> Lists] : Recurs(f, N, stops, step)
  BY <1>1, <1>5, RecursiveFunction
<1>7. \A k \in 1..N : k - 1 \in 0..N /\ k \in 0..N /\ k # 0
  BY <1>1
<1>8. f[0] = stops /\ \A k \in 1..N : f[k] = Deleted(k, f[k-1])
  BY <1>6, <1>7 DEF step, Recurs
<1>9. \A k \in 0..N : k = 0 \/ k \in 1..N
  BY <1>1
<1>10. IsList(f)
  BY <1>8, <1>9
<1>11. IsList(list)
  BY <1>10 DEF list
<1>12. list[0] = stops /\ \A k \in 1..N : list[k] = Deleted(k, list[k-1])
  BY <1>1, <1>7, <1>11
<1> HIDE DEF IsList
<1> DEFINE Right(k) == list[k] \in Lists /\ Len(list[k]) >= (N + 1) - k
           T == {k \in 0..N : Right(k)}
<1>13. 0 \in T
  <2>1. list[0] \in Lists /\ Len(list[0]) = N + 1
    BY <1>1, <1>12
  <2> QED BY <1>1, <2>1
<1>14. ASSUME NEW k \in 0..(N - 1), k \in T PROVE k + 1 \in T
  <2>1. k \in Nat /\ k + 1 \in 1..N /\ k + 1 \in 0..N /\ (k + 1) - 1 = k
    BY <1>1
  <2>2. list[k+1] = Deleted(k + 1, list[k]) /\ Right(k)
    BY <1>12, <1>14, <2>1
  <2>3. list[k+1] \in Lists /\ Len(list[k]) \in Nat
        /\ Len(list[k+1]) \in {Len(list[k]), Len(list[k]) - 1}
    BY <1>4, <2>2
  <2>4. Len(list[k+1]) >= (N + 1) - (k + 1)
    BY <1>1, <2>1, <2>2, <2>3
  <2> QED BY <2>1, <2>3, <2>4
<1> HIDE DEF T
<1>15. 0..N \subseteq T
  BY <1>1, <1>13, <1>14, InductionTo
<1>16. \A k \in 0..N : Right(k)
  BY <1>15 DEF T
<1>17. /\ After(stops)[0] = stops
       /\ \A k \in 1..N : After(stops)[k] = Deleted(k, After(stops)[k-1])
       /\ \A k \in 0..N : After(stops)[k] \in Lists /\ Len(After(stops)[k]) >= (N + 1) - k
  BY <1>2, <1>12, <1>16
<1>18. VmList(stops) = After(stops)[N]
  BY <1>2, <1>3
<1> QED BY <1>1, <1>17, <1>18 DEF N, Lists, Deleted

\* The list keeps a stop at least, and no other is in it.
LEMMA VmListProperties ==
  ASSUME NEW S, NEW stops \in Seq(S), stops # <<>>
  PROVE  VmList(stops) \in Seq(S) /\ Len(VmList(stops)) \in Nat /\ Len(VmList(stops)) >= 1
<1>1. PICK n \in Nat : Len(stops) = n + 1
  <2>1. Len(stops) \in Nat /\ (Len(stops) = 0 => stops = <<>>)
    BY EmptySeq
  <2>2. Len(stops) - 1 \in Nat /\ Len(stops) = (Len(stops) - 1) + 1
    BY <2>1
  <2> QED BY <2>2
<1>2. n \in 0..n /\ Len(stops) - 1 = n /\ Len(stops) - n = 1
  BY <1>1
<1>3. After(stops)[n] \in Seq(S) /\ Len(After(stops)[n]) >= Len(stops) - n /\ VmList(stops) = After(stops)[n]
  BY <1>2, AfterProperties
<1> QED BY <1>2, <1>3
=============================================================================
