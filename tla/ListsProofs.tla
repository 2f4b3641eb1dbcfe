------------------------------ MODULE ListsProofs ------------------------------
(***************************************************************************)
(* Theorems about the two loops that make the list of stops, for every     *)
(* command line: the loop of tour.c computes Compose and stays inside its  *)
(* buffer (ComposeTour), the one of its first version computes VmList and  *)
(* never loses its place in the list (GetVmInfo), and what the two lists   *)
(* have in common (MCLists).                                               *)
(***************************************************************************)
EXTENDS MCLists, ListLemmas

Argument == Name \cup {BadName}

\* What LoopInv rests on: the types, the test of argc, and that a slot that no
\* iteration has written still holds what was on the stack.
Composing ==
  /\ host \in Name
  /\ args \in Seq(Argument)
  /\ state \in {"start", "loop", "done", "aborted"}
  /\ rt_rmsg \in [0..(MAX_ARGS - 1) -> Name \cup {Junk}]
  /\ state = "start" => i = 1
  /\ state # "aborted" => msgarg_ind \in Int
  /\ state \in {"loop", "done"} => Len(args) + 1 <= MAX_ARGS
  /\ state = "done" => i = Len(args) + 1

Unwritten ==
  state # "aborted" =>
    \A k \in 1..MAX_ARGS :
      (\A j \in (1..i) \ Repeats(Stops) : Slot(Stops, j) # k) => rt_rmsg[k - 1] = Junk

CInv == Composing /\ LoopInv /\ Unwritten

\* The stops are the host and the arguments after it.
LEMMA StopsAre ==
  ASSUME Composing
  PROVE  /\ Stops \in Seq(Argument) /\ Len(Stops) = Len(args) + 1 /\ Len(args) \in Nat
         /\ Stops[1] = host
         /\ \A k \in 1..Len(args) : Stops[k + 1] = args[k] /\ args[k] \in Argument
<1>1. host \in Argument /\ args \in Seq(Argument)
  BY DEF Composing, Argument
<1> QED BY <1>1 DEF Stops

\* The slots of stops that are no repeat differ from those of all later stops.
LEMMA SlotsGrow ==
  ASSUME NEW S, NEW stops \in Seq(S), NEW j \in 1..Len(stops), NEW k \in 1..Len(stops),
         j < k, j \notin Repeats(stops)
  PROVE  Slot(stops, j) < Slot(stops, k)
<1> DEFINE before(n) == {m \in Repeats(stops) : m < n}
<1>1. Len(stops) \in Nat
  BY LenProperties
<1>2. /\ IsFiniteSet(before(j)) /\ Cardinality(before(j)) \in Nat
      /\ IsFiniteSet(before(k)) /\ Cardinality(before(k)) \in Nat
  BY RepeatsBefore
<1>3. before(k) \subseteq before(j) \cup ((j + 1)..(k - 1))
  BY <1>1 DEF Repeats
<1>4. /\ IsFiniteSet((j + 1)..(k - 1))
      /\ Cardinality((j + 1)..(k - 1)) = k - 1 - j
  <2>1. j + 1 \in Int /\ k - 1 \in Int
    BY <1>1
  <2>2. /\ IsFiniteSet((j + 1)..(k - 1))
        /\ Cardinality((j + 1)..(k - 1))
             = IF j + 1 > k - 1 THEN 0 ELSE (k - 1) - (j + 1) + 1
    BY ONLY <2>1, FS_Interval
  <2> QED BY <2>2, <1>1
<1>5. /\ IsFiniteSet(before(j) \cup ((j + 1)..(k - 1)))
      /\ Cardinality(before(j) \cup ((j + 1)..(k - 1)))
           <= Cardinality(before(j)) + (k - 1 - j)
  <2>1. /\ IsFiniteSet(before(j) \cup ((j + 1)..(k - 1)))
        /\ Cardinality(before(j) \cup ((j + 1)..(k - 1)))
             = Cardinality(before(j)) + Cardinality((j + 1)..(k - 1))
                 - Cardinality(before(j) \cap ((j + 1)..(k - 1)))
    BY <1>2, <1>4, FS_Union
  <2>2. Cardinality(before(j) \cap ((j + 1)..(k - 1))) \in Nat
    BY <1>2, FS_Intersection, FS_CardinalityType
  <2> HIDE DEF before
  <2> QED BY <2>1, <2>2, <1>1, <1>2, <1>4
<1>6. Cardinality(before(k)) <= Cardinality(before(j) \cup ((j + 1)..(k - 1)))
  BY <1>3, <1>5, FS_Subset
<1>7. Slot(stops, j) = j - Cardinality(before(j)) /\ Slot(stops, k) = k - Cardinality(before(k))
  BY DEF Slot
<1>8. Cardinality(before(j) \cup ((j + 1)..(k - 1))) \in Nat
  BY <1>5, FS_CardinalityType
<1> HIDE DEF before
<1> QED BY <1>1, <1>2, <1>5, <1>6, <1>7, <1>8

\* The repeats before the next stop are those that the loop has counted.
LEMMA CountedRepeats ==
  ASSUME NEW S, NEW stops \in Seq(S), NEW n \in 1..(Len(stops) - 1)
  PROVE  LET counted(k) == {j \in Repeats(stops) : j <= k}
         IN  /\ Cardinality(counted(n)) \in Nat
             /\ Slot(stops, n + 1) = (n + 1) - Cardinality(counted(n))
             /\ Cardinality(counted(n + 1)) =
                  IF n + 1 \in Repeats(stops) THEN Cardinality(counted(n)) + 1
                                              ELSE Cardinality(counted(n))
<1> DEFINE counted(k) == {j \in Repeats(stops) : j <= k}
<1>1. Len(stops) \in Nat
  BY LenProperties
<1>2. n + 1 \in 1..Len(stops)
  BY <1>1
<1>3. {j \in Repeats(stops) : j < n + 1} = counted(n)
  BY <1>1 DEF Repeats
<1>4. IsFiniteSet(counted(n)) /\ Cardinality(counted(n)) \in Nat
  <2>1. LET before == {j \in Repeats(stops) : j < n + 1}
        IN  IsFiniteSet(before) /\ Cardinality(before) \in Nat
    BY <1>2, RepeatsBefore
  <2> QED BY <2>1, <1>3
<1>5. Slot(stops, n + 1) = (n + 1) - Cardinality(counted(n))
  <2>1. Slot(stops, n + 1) = (n + 1) - Cardinality({j \in Repeats(stops) : j < n + 1})
    BY DEF Slot
  <2> QED BY ONLY <2>1, <1>3
<1>6. CASE n + 1 \in Repeats(stops)
  <2>1. counted(n + 1) = counted(n) \cup {n + 1} /\ n + 1 \notin counted(n)
    BY <1>1, <1>6 DEF Repeats
  <2>2. Cardinality(counted(n) \cup {n + 1}) = Cardinality(counted(n)) + 1
    BY <2>1, <1>4, FS_AddElement
  <2> QED BY <2>1, <2>2, <1>4, <1>5, <1>6
<1>7. CASE n + 1 \notin Repeats(stops)
  <2>1. counted(n + 1) = counted(n)
    BY <1>1, <1>7 DEF Repeats
  <2> QED BY <2>1, <1>4, <1>5, <1>7
<1> QED BY <1>6, <1>7

LEMMA ComposingInit == Init => CInv
<1> SUFFICES ASSUME Init PROVE CInv
  OBVIOUS
<1>1. Composing
  <2>1. args \in Seq(Argument)
    BY ArgsAssumption DEF Init, Argument
  <2>2. rt_rmsg \in [0..(MAX_ARGS - 1) -> Name \cup {Junk}]
    BY ArgsAssumption DEF Init
  <2> QED BY <2>1, <2>2 DEF Init, Composing
<1>2. /\ Len(args) \in Nat /\ Len(Stops) = Len(args) + 1 /\ Stops \in Seq(Argument)
      /\ Stops[1] = host
  BY <1>1, StopsAre
<1>3. {j \in Repeats(Stops) : j <= 1} = {}
  BY <1>2 DEF Repeats
<1>4. Slot(Stops, 1) = 1
  BY <1>2, SlotBounds
<1>5. 1..1 = {1} /\ 1 \notin Repeats(Stops)
  BY <1>2 DEF Repeats
<1>6. rt_rmsg[0] = host /\ \A k \in 1..(MAX_ARGS - 1) : rt_rmsg[k] = Junk
  BY ArgsAssumption DEF Init
<1>7. i = 1 /\ repeats = 0 /\ msgarg_ind = 0 /\ prev = host
  BY DEF Init
<1>8. LoopInv
  <2>1. repeats = Cardinality({j \in Repeats(Stops) : j <= i})
    BY <1>3, <1>7, FS_EmptySet
  <2>2. \A j \in (1..i) \ Repeats(Stops) : rt_rmsg[Slot(Stops, j) - 1] = Stops[j]
    BY <1>2, <1>4, <1>5, <1>6, <1>7
  <2> QED BY <2>1, <2>2, <1>2, <1>4, <1>7 DEF LoopInv
<1>9. Unwritten
  BY <1>4, <1>5, <1>6, <1>7, ArgsAssumption DEF Unwritten
<1> QED BY <1>1, <1>8, <1>9 DEF CInv

\* An iteration that does not abort: the loop knows as much about one stop more.
LEMMA IterationStep ==
  ASSUME CInv, Repeat \/ Write PROVE CInv'
<1> DEFINE counted(k) == {j \in Repeats(Stops) : j <= k}
<1>1. /\ state = "loop" /\ state' = "loop" /\ i <= Len(args) /\ host' = host /\ args' = args
      /\ msgarg_ind' = i - repeats /\ i' = i + 1
  BY DEF Repeat, Write, Iterate
<1>2. Stops' = Stops
  BY <1>1 DEF Stops
<1>3. /\ Len(args) \in Nat /\ Len(Stops) = Len(args) + 1 /\ Stops \in Seq(Argument)
      /\ \A k \in 1..Len(args) : Stops[k + 1] = args[k] /\ args[k] \in Argument
      /\ Len(args) + 1 <= MAX_ARGS
  BY <1>1, StopsAre DEF CInv, Composing
<1>4. /\ i \in 1..Len(args) /\ repeats = Cardinality(counted(i)) /\ prev = Stops[i]
      /\ \A j \in (1..i) \ Repeats(Stops) : rt_rmsg[Slot(Stops, j) - 1] = Stops[j]
  BY <1>1, <1>3 DEF CInv, LoopInv
<1>5. /\ repeats \in Nat /\ Slot(Stops, i + 1) = (i + 1) - repeats
      /\ Cardinality(counted(i + 1)) =
           IF i + 1 \in Repeats(Stops) THEN repeats + 1 ELSE repeats
  <2>1. i \in 1..(Len(Stops) - 1)
    BY <1>3, <1>4
  <2> QED BY <2>1, <1>3, <1>4, CountedRepeats
<1>6. msgarg_ind' + 1 = Slot(Stops, i + 1) /\ i' \in 1..(Len(args) + 1)
  BY <1>1, <1>3, <1>4, <1>5
<1>7. i + 1 \in Repeats(Stops) <=> args[i] = prev
  BY <1>3, <1>4 DEF Repeats
<1>8. CASE Repeat
  <2>1. args[i] = prev /\ repeats' = repeats + 1 /\ prev' = prev /\ rt_rmsg' = rt_rmsg
    BY <1>8 DEF Repeat
  <2>2. (1..i') \ Repeats(Stops) = (1..i) \ Repeats(Stops)
    BY <2>1, <1>1, <1>4, <1>7
  <2>3. Composing'
    BY <2>1, <1>1, <1>4, <1>5 DEF CInv, Composing
  <2>4. LoopInv'
    <3>1. repeats' = Cardinality({j \in Repeats(Stops) : j <= i'})
      BY <2>1, <1>1, <1>5, <1>7
    <3>2. prev' = Stops[i']
      BY <2>1, <1>1, <1>3, <1>4
    <3> HIDE DEF counted
    <3> QED BY <3>1, <3>2, <2>1, <2>2, <1>1, <1>2, <1>4, <1>6 DEF LoopInv
  <2>5. Unwritten'
    BY <2>1, <2>2, <1>1, <1>2 DEF CInv, Unwritten
  <2> QED BY <2>3, <2>4, <2>5 DEF CInv
<1>9. CASE Write
  <2> DEFINE slot == Slot(Stops, i + 1)
  <2>1. /\ args[i] # prev /\ args[i] # BadName /\ repeats' = repeats /\ prev' = args[i]
        /\ rt_rmsg' = [rt_rmsg EXCEPT ![msgarg_ind'] = args[i]]
    BY <1>9 DEF Write
  <2>2. slot \in 1..MAX_ARGS /\ msgarg_ind' = slot - 1 /\ slot - 1 \in 0..(MAX_ARGS - 1)
    <3>1. slot \in 1..(i + 1)
      BY <1>3, <1>4, SlotBounds
    <3>2. /\ i \in Nat /\ i \in 1..Len(args) /\ Len(args) \in Nat
          /\ Len(args) + 1 <= MAX_ARGS
      BY <1>3, <1>4
    <3>3. repeats \in Nat /\ slot = (i + 1) - repeats /\ msgarg_ind' = i - repeats
      BY <1>1, <1>5
    <3>4. MAX_ARGS \in Nat
      BY ArgsAssumption
    <3> QED BY ONLY <3>1, <3>2, <3>3, <3>4
  <2>3. args[i] \in Name
    BY <2>1, <1>3, <1>4 DEF Argument
  <2>4. Composing'
    <3>1. msgarg_ind' \in Int
      BY <2>2
    <3>2. rt_rmsg' \in [0..(MAX_ARGS - 1) -> Name \cup {Junk}]
      BY <2>1, <2>2, <2>3 DEF CInv, Composing
    <3> QED BY <3>1, <3>2, <1>1 DEF CInv, Composing
  <2>5. /\ rt_rmsg'[slot - 1] = Stops[i + 1]
        /\ \A k \in 0..(MAX_ARGS - 1) : k # slot - 1 => rt_rmsg'[k] = rt_rmsg[k]
    <3> HIDE DEF slot
    <3> QED BY <2>1, <2>2, <1>3, <1>4 DEF CInv, Composing
  <2>6. (1..i') \ Repeats(Stops) = ((1..i) \ Repeats(Stops)) \cup {i + 1}
    BY <2>1, <1>1, <1>4, <1>7
  <2>7. \A j \in (1..i) \ Repeats(Stops) :
          Slot(Stops, j) \in 1..MAX_ARGS /\ Slot(Stops, j) < slot
    <3> SUFFICES ASSUME NEW j \in (1..i) \ Repeats(Stops)
                 PROVE  Slot(Stops, j) \in 1..MAX_ARGS /\ Slot(Stops, j) < slot
      OBVIOUS
    <3>1. j \in 1..Len(Stops) /\ i + 1 \in 1..Len(Stops) /\ j < i + 1
      BY <1>3, <1>4
    <3>2. Slot(Stops, j) < slot
      BY <3>1, <1>3, SlotsGrow
    <3>3. Slot(Stops, j) \in 1..j
      BY <3>1, <1>3, SlotBounds
    <3> QED BY <3>1, <3>2, <3>3, <1>3, ArgsAssumption
  <2>8. LoopInv'
    <3>1. repeats' = Cardinality({j \in Repeats(Stops) : j <= i'})
      BY <2>1, <1>1, <1>5, <1>7
    <3>2. prev' = Stops[i']
      BY <2>1, <1>1, <1>3, <1>4
    <3>3. \A j \in (1..i') \ Repeats(Stops) : rt_rmsg'[Slot(Stops, j) - 1] = Stops[j]
      <4> HIDE DEF slot, counted
      <4>1. ASSUME NEW j \in (1..i) \ Repeats(Stops)
            PROVE  rt_rmsg'[Slot(Stops, j) - 1] = Stops[j]
        BY <4>1, <2>2, <2>5, <2>7, <1>4, ArgsAssumption
      <4>2. rt_rmsg'[Slot(Stops, i + 1) - 1] = Stops[i + 1]
        BY <2>5 DEF slot
      <4> QED BY <4>1, <4>2, <2>6
    <3> HIDE DEF counted
    <3> QED BY <3>1, <3>2, <3>3, <1>1, <1>2, <1>6 DEF LoopInv
  <2>9. Unwritten'
    <3> SUFFICES ASSUME NEW k \in 1..MAX_ARGS,
                        \A j \in (1..i') \ Repeats(Stops) : Slot(Stops, j) # k
                 PROVE  rt_rmsg'[k - 1] = Junk
      BY <1>2 DEF Unwritten
    <3>1. k # slot /\ \A j \in (1..i) \ Repeats(Stops) : Slot(Stops, j) # k
      BY <2>6
    <3>2. rt_rmsg[k - 1] = Junk
      BY <3>1, <1>1 DEF CInv, Unwritten
    <3> HIDE DEF slot
    <3> QED BY <3>1, <3>2, <2>2, <2>5, ArgsAssumption
  <2> QED BY <2>4, <2>8, <2>9 DEF CInv
<1> QED BY <1>8, <1>9

LEMMA ComposingStep == CInv /\ [Next]_vars => CInv'
<1> SUFFICES ASSUME CInv, [Next]_vars PROVE CInv'
  OBVIOUS
<1>1. ASSUME UNCHANGED <<host, args, i, repeats, msgarg_ind, prev, rt_rmsg>>,
             state' \in {"loop", "done"} => state # "aborted",
             state' = "loop" => Len(args) + 1 <= MAX_ARGS,
             state' = "done" => i = Len(args) + 1 /\ Len(args) + 1 <= MAX_ARGS,
             state' \in {"loop", "done", "aborted"}
      PROVE  CInv'
  <2>1. Stops' = Stops
    BY <1>1 DEF Stops
  <2>2. Composing'
    BY <1>1 DEF CInv, Composing
  <2>3. LoopInv'
    BY <2>1, <1>1 DEF CInv, LoopInv
  <2>4. Unwritten'
    BY <2>1, <1>1 DEF CInv, Unwritten
  <2> QED BY <2>2, <2>3, <2>4 DEF CInv
<1>2. Len(args) \in Nat
  BY StopsAre DEF CInv
<1>3. CASE CheckArgc
  BY <1>1, <1>2, <1>3, ArgsAssumption DEF CheckArgc
<1>4. CASE InvalidName
  BY <1>4 DEF InvalidName, Iterate, CInv, Composing, LoopInv, Unwritten
<1>5. CASE Repeat \/ Write
  BY <1>5, IterationStep
<1>6. CASE EndLoop
  <2>1. i = Len(args) + 1
    BY <1>2, <1>6 DEF EndLoop, CInv, LoopInv
  <2> QED BY <2>1, <1>1, <1>6 DEF EndLoop, CInv, Composing
<1>7. CASE UNCHANGED vars
  <2>1. Stops' = Stops
    BY <1>7 DEF Stops, vars
  <2> QED BY <2>1, <1>7 DEF vars, CInv, Composing, LoopInv, Unwritten
<1> QED BY <1>3, <1>4, <1>5, <1>6, <1>7 DEF Next, Stop

THEOREM LoopKnows == Spec => []CInv
BY ComposingInit, ComposingStep, PTL DEF Spec

\* Every command line is composed as Compose says, which Tour takes for the
\* loop (tour.c 93-128).
THEOREM LoopComputesCompose == Spec => []ComputesCompose
<1>1. CInv => ComputesCompose
  <2> SUFFICES ASSUME CInv, state = "done" PROVE Message = Compose(Stops, Junk)
    BY DEF ComputesCompose
  <2> DEFINE len == Slot(Stops, Len(Stops))
             writers(k) == {j \in DOMAIN Stops \ Repeats(Stops) : Slot(Stops, j) = k}
  <2>1. /\ Len(args) \in Nat /\ Len(Stops) = Len(args) + 1 /\ Stops \in Seq(Argument)
        /\ DOMAIN Stops = 1..Len(Stops) /\ i = Len(Stops) /\ Len(Stops) <= MAX_ARGS
    BY StopsAre DEF CInv, Composing
  <2>2. /\ msgarg_ind + 1 = len
        /\ \A j \in DOMAIN Stops \ Repeats(Stops) : rt_rmsg[Slot(Stops, j) - 1] = Stops[j]
    BY <2>1 DEF CInv, LoopInv
  <2>3. len \in 1..MAX_ARGS
    <3>1. len \in 1..Len(Stops)
      BY <2>1, SlotBounds
    <3> QED BY <3>1, <2>1, ArgsAssumption
  <2>4. ASSUME NEW k \in 1..len
        PROVE  rt_rmsg[k - 1] = IF writers(k) = {} THEN Junk
                                ELSE Stops[CHOOSE j \in writers(k) : TRUE]
    <3>1. CASE writers(k) = {}
      <4>1. k \in 1..MAX_ARGS
        BY <2>3, ArgsAssumption
      <4> QED BY <4>1, <3>1, <2>1 DEF CInv, Unwritten
    <3>2. CASE writers(k) # {}
      <4>1. PICK w : w = CHOOSE j \in writers(k) : TRUE
        OBVIOUS
      <4>2. w \in writers(k)
        BY <4>1, <3>2
      <4> QED BY <4>1, <4>2, <3>2, <2>2
    <3> QED BY <3>1, <3>2
  <2> QED BY <2>2, <2>4 DEF Message, Compose
<1> QED BY <1>1, LoopKnows, PTL

\* No slot past the last one of the buffer is written or sent (tour.c 74).
THEOREM MessageFits == Spec => []FitsBuffer
<1>1. CInv => FitsBuffer
  <2> SUFFICES ASSUME CInv, state # "aborted" PROVE msgarg_ind < MAX_ARGS
    BY DEF FitsBuffer
  <2>1. /\ Len(args) \in Nat /\ Len(Stops) = Len(args) + 1 /\ Stops \in Seq(Argument)
        /\ i \in 1..Len(Stops) /\ msgarg_ind + 1 = Slot(Stops, i) /\ msgarg_ind \in Int
        /\ state = "start" => i = 1
        /\ state # "start" => Len(Stops) <= MAX_ARGS
    BY StopsAre DEF CInv, Composing, LoopInv
  <2>2. Slot(Stops, i) \in 1..i
    BY <2>1, SlotBounds
  <2> QED BY <2>1, <2>2, ArgsAssumption
<1> QED BY <1>1, LoopKnows, PTL

(***************************************************************************)
(* Lists with an entry cut out.                                            *)
(***************************************************************************)
IsCut(s, t, k) ==
  /\ k \in 1..Len(s) /\ Len(t) = Len(s) - 1
  /\ \A q \in 1..(k - 1) : t[q] = s[q]
  /\ \A q \in k..(Len(s) - 1) : t[q] = s[q + 1]

\* The places of an address in a list.
Places(s, a) == {q \in 1..Len(s) : s[q] = a}

LEMMA PlacesFinite ==
  ASSUME NEW s, Len(s) \in Nat, NEW a
  PROVE  IsFiniteSet(Places(s, a)) /\ Cardinality(Places(s, a)) \in Nat
<1>1. IsFiniteSet(1..Len(s))
  <2>1. 1 \in Int /\ Len(s) \in Int
    OBVIOUS
  <2> QED BY ONLY <2>1, FS_Interval
<1>2. Places(s, a) \in SUBSET (1..Len(s))
  BY DEF Places
<1>3. IsFiniteSet(Places(s, a))
  BY <1>1, <1>2, FS_Subset
<1> QED BY <1>3, FS_CardinalityType

LEMMA CutCount ==
  ASSUME NEW s, NEW t, Len(s) \in Nat, NEW k, IsCut(s, t, k), NEW a
  PROVE  Cardinality(Places(t, a)) =
           IF s[k] = a THEN Cardinality(Places(s, a)) - 1 ELSE Cardinality(Places(s, a))
<1>1. PICK n \in Nat : n = Len(s)
  OBVIOUS
<1>2. /\ k \in 1..n /\ Len(t) = n - 1 /\ n - 1 \in Nat
      /\ \A q \in 1..(k - 1) : t[q] = s[q]
      /\ \A q \in k..(n - 1) : t[q] = s[q + 1]
  BY <1>1 DEF IsCut
<1> DEFINE A == {q \in 1..n : s[q] = a}
           B == {q \in 1..(n - 1) : t[q] = a}
           up(q) == IF q < k THEN q ELSE q + 1
           f == [q \in B |-> up(q)]
<1>3. A = Places(s, a) /\ B = Places(t, a)
  BY <1>1, <1>2 DEF Places
<1>4. ASSUME NEW q \in B PROVE up(q) \in A \ {k}
  BY <1>2
<1>5. ASSUME NEW p \in A \ {k} PROVE \E q \in B : up(q) = p
  <2>1. CASE p < k
    <3>1. p \in B /\ up(p) = p
      BY <1>2, <2>1
    <3> QED BY <3>1
  <2>2. CASE ~(p < k)
    <3>1. p - 1 \in B /\ up(p - 1) = p
      BY <1>2, <2>2
    <3> QED BY <3>1
  <2> QED BY <2>1, <2>2
<1>6. ASSUME NEW p \in B, NEW q \in B, up(p) = up(q) PROVE p = q
  BY <1>2, <1>6
<1>7. IsFiniteSet(A) /\ IsFiniteSet(B) /\ Cardinality(A) \in Nat
  <2>1. Len(t) \in Nat
    BY <1>2
  <2> QED BY <1>3, <2>1, PlacesFinite
<1>8. Cardinality(A \ {k}) = Cardinality(B)
  <2> HIDE DEF A, B, up
  <2>1. f \in Bijection(B, A \ {k})
    BY <1>4, <1>5, <1>6 DEF Bijection, Injection, Surjection, IsInjective
  <2>2. ExistsBijection(B, A \ {k})
    BY <2>1 DEF ExistsBijection
  <2> QED BY <1>7, <2>2, FS_Bijection
<1>9. Cardinality(A \ {k}) = IF k \in A THEN Cardinality(A) - 1 ELSE Cardinality(A)
  BY <1>7, FS_RemoveElement
<1>10. k \in A <=> s[k] = a
  BY <1>2
<1> QED BY <1>3, <1>8, <1>9, <1>10

LEMMA CutOut ==
  ASSUME NEW S, NEW s \in Seq(S), NEW k \in 1..Len(s)
  PROVE  RemoveAt(s, k) \in Seq(S) /\ IsCut(s, RemoveAt(s, k), k)
<1> DEFINE t == SubSeq(s, 1, k - 1) \o SubSeq(s, k + 1, Len(s))
<1>1. t \in Seq(S) /\ CutTo(s, t, k - 1, k)
  <2>1. k - 1 \in 0..Len(s) /\ k \in (k - 1)..Len(s)
    OBVIOUS
  <2> QED BY <2>1, CutElements
<1>2. k - (k - 1) = 1 /\ (k - 1) + 1 = k
  OBVIOUS
<1>3. RemoveAt(s, k) = t
  BY DEF RemoveAt
<1> HIDE DEF t
<1>4. IsCut(s, t, k)
  BY <1>1, <1>2 DEF IsCut, CutTo
<1> QED BY <1>1, <1>3, <1>4

LEMMA RemovedIsCut ==
  ASSUME NEW S, NEW s \in Seq(S), NEW e, NEW n \in 1..Len(s), s[n] = e
  PROVE  \E k \in 1..n : FirstAt(s, e, k) /\ IsCut(s, RemoveFirst(s, e), k)
<1>1. PICK k \in 1..n : FirstAt(s, e, k)
  BY FirstAtExists
<1> DEFINE t == RemoveFirst(s, e)
<1>2. /\ Len(t) = Len(s) - 1
      /\ \A q \in 1..(k - 1) : t[q] = s[q]
      /\ \A q \in k..(Len(s) - 1) : t[q] = s[q + 1]
  BY <1>1, RemoveFirstElements
<1> HIDE DEF t
<1>3. IsCut(s, t, k)
  BY <1>1, <1>2 DEF IsCut, FirstAt
<1> QED BY <1>1, <1>3 DEF t

(***************************************************************************)
(* What get_vm_info() leaves of the list, iteration by iteration.          *)
(***************************************************************************)
\* The entries from stop k + 1 on are the last ones of the list.
EndsWith(s, stops, k) ==
  /\ Len(s) >= Len(stops) - k
  /\ \A d \in 0..(Len(stops) - (k + 1)) : s[Len(s) - d] = stops[Len(stops) - d]

\* Iteration k changes nothing or cuts out the first entry that holds stop k.
Iterates(stops, k) ==
  /\ stops[k] # stops[k+1] => After(stops)[k] = After(stops)[k-1]
  /\ stops[k] = stops[k+1] =>
       \E p \in 1..(Len(After(stops)[k-1]) - (Len(stops) - k)) :
         /\ FirstAt(After(stops)[k-1], stops[k], p)
         /\ IsCut(After(stops)[k-1], After(stops)[k], p)

LEMMA IterationCuts ==
  ASSUME NEW S, NEW stops \in Seq(S), NEW k \in 1..(Len(stops) - 1),
         EndsWith(After(stops)[k-1], stops, k - 1)
  PROVE  Iterates(stops, k)
<1>1. PICK n \in Nat : n = Len(stops)
  OBVIOUS
<1>2. k \in 1..(n - 1) /\ k - 1 \in 0..(n - 1) /\ stops # <<>> /\ k \in Nat
  <2>1. n # 0
    BY <1>1
  <2> QED BY <1>1, <2>1
<1> DEFINE s == After(stops)[k-1]
           t == After(stops)[k]
<1>3. s \in Seq(S) /\ t = IF stops[k] = stops[k+1] THEN RemoveFirst(s, stops[k]) ELSE s
  BY <1>1, <1>2, AfterProperties
<1> HIDE DEF s, t
<1>4. PICK m \in Nat : m = Len(s)
  BY <1>3
<1>5. m >= n - (k - 1) /\ \A d \in 0..(n - k) : s[m - d] = stops[n - d]
  <2>1. n - ((k - 1) + 1) = n - k
    BY <1>2
  <2> QED BY <1>1, <1>4, <2>1 DEF EndsWith, s
<1>6. n - k \in 0..(n - k) /\ n - (n - k) = k /\ m - (n - k) \in 1..m
  BY <1>2, <1>5
<1>7. s[m - (n - k)] = stops[k]
  BY <1>5, <1>6
<1>8. ASSUME stops[k] = stops[k+1]
      PROVE  \E p \in 1..(m - (n - k)) : FirstAt(s, stops[k], p) /\ IsCut(s, t, p)
  <2>1. t = RemoveFirst(s, stops[k])
    BY <1>3, <1>8
  <2>2. m - (n - k) \in 1..Len(s)
    BY <1>4, <1>6
  <2> QED BY <1>3, <1>7, <2>1, <2>2, RemovedIsCut
<1> QED BY <1>1, <1>3, <1>4, <1>8 DEF Iterates, s, t

LEMMA IterationEnds ==
  ASSUME NEW S, NEW stops \in Seq(S), NEW k \in 1..(Len(stops) - 1),
         EndsWith(After(stops)[k-1], stops, k - 1)
  PROVE  EndsWith(After(stops)[k], stops, k)
<1>1. PICK n \in Nat : n = Len(stops)
  OBVIOUS
<1>2. k \in 1..(n - 1) /\ k - 1 \in 0..(n - 1) /\ stops # <<>>
  <2>1. n # 0
    BY <1>1
  <2> QED BY <1>1, <2>1
<1> DEFINE s == After(stops)[k-1]
           t == After(stops)[k]
<1>3. s \in Seq(S)
  BY <1>1, <1>2, AfterProperties
<1>4. PICK m \in Nat : m = Len(s)
  BY <1>3
<1>5. m >= n - (k - 1) /\ \A d \in 0..(n - k) : s[m - d] = stops[n - d]
  <2>1. n - ((k - 1) + 1) = n - k
    BY <1>2
  <2> QED BY <1>1, <1>4, <2>1 DEF EndsWith
<1>6. Iterates(stops, k)
  BY IterationCuts
<1> HIDE DEF s, t
<1>7. CASE stops[k] # stops[k+1]
  <2>1. t = s
    BY <1>6, <1>7 DEF Iterates, s, t
  <2>2. m >= n - k /\ \A d \in 0..(n - (k + 1)) : t[m - d] = stops[n - d]
    BY <1>2, <1>5, <2>1
  <2> QED BY <1>1, <1>4, <2>1, <2>2 DEF EndsWith, t
<1>8. CASE stops[k] = stops[k+1]
  <2>1. PICK p \in 1..(m - (n - k)) : IsCut(s, t, p)
    BY <1>1, <1>4, <1>6, <1>8 DEF Iterates, s, t
  <2>2. Len(t) = m - 1 /\ \A q \in p..(m - 1) : t[q] = s[q + 1]
    BY <1>4, <2>1 DEF IsCut
  <2>3. ASSUME NEW d \in 0..(n - (k + 1)) PROVE t[(m - 1) - d] = stops[n - d]
    <3>1. d \in 0..(n - k) /\ (m - 1) - d \in p..(m - 1) /\ ((m - 1) - d) + 1 = m - d
      BY <1>2, <1>5, <2>1
    <3> QED BY <1>5, <2>2, <3>1
  <2>4. m - 1 >= n - k
    BY <1>2, <1>5
  <2> QED BY <1>1, <2>2, <2>3, <2>4 DEF EndsWith, t
<1> QED BY <1>7, <1>8

LEMMA AfterEnds ==
  ASSUME NEW S, NEW stops \in Seq(S), stops # <<>>
  PROVE  \A k \in 0..(Len(stops) - 1) : EndsWith(After(stops)[k], stops, k)
<1>1. PICK N \in Nat : Len(stops) = N + 1
  <2>1. Len(stops) \in Nat /\ (Len(stops) = 0 => stops = <<>>)
    BY EmptySeq
  <2>2. Len(stops) - 1 \in Nat /\ Len(stops) = (Len(stops) - 1) + 1
    BY <2>1
  <2> QED BY <2>2
<1> DEFINE T == {k \in 0..N : EndsWith(After(stops)[k], stops, k)}
<1>2. 0 \in T
  <2>1. After(stops)[0] = stops
    BY AfterProperties
  <2>2. Len(stops) >= Len(stops) - 0
    BY <1>1
  <2>3. EndsWith(After(stops)[0], stops, 0)
    BY <2>1, <2>2 DEF EndsWith
  <2> QED BY <2>3
<1>3. ASSUME NEW k \in 0..(N - 1), k \in T PROVE k + 1 \in T
  <2>1. k + 1 \in 1..(Len(stops) - 1) /\ (k + 1) - 1 = k /\ k + 1 \in 0..N
    BY <1>1
  <2>2. EndsWith(After(stops)[k + 1], stops, k + 1)
    BY <1>3, <2>1, IterationEnds
  <2> QED BY <2>1, <2>2
<1> HIDE DEF T
<1>4. 0..N \subseteq T
  BY <1>2, <1>3, InductionTo
<1>5. Len(stops) - 1 = N
  BY <1>1
<1> QED BY <1>4, <1>5 DEF T

LEMMA AfterIterates ==
  ASSUME NEW S, NEW stops \in Seq(S), NEW k \in 1..(Len(stops) - 1)
  PROVE  Iterates(stops, k)
<1>1. stops # <<>> /\ k - 1 \in 0..(Len(stops) - 1)
  <2>1. Len(stops) # 0 /\ Len(stops) \in Nat
    OBVIOUS
  <2> QED BY <2>1
<1>2. EndsWith(After(stops)[k-1], stops, k - 1)
  BY <1>1, AfterEnds
<1> QED BY <1>2, IterationCuts

\* How often an address is to be visited, once the stops up to k + 1 are seen.
Left(stops, a, k) ==
  {e \in 1..Len(stops) : stops[e] = a /\ ~(e \in 2..(k + 1) /\ stops[e-1] = a)}

LEMMA AfterCounts ==
  ASSUME NEW S, NEW stops \in Seq(S), stops # <<>>, NEW a
  PROVE  \A k \in 0..(Len(stops) - 1) :
           Cardinality(Places(After(stops)[k], a)) = Cardinality(Left(stops, a, k))
<1>1. PICK N \in Nat : Len(stops) = N + 1
  <2>1. Len(stops) \in Nat /\ (Len(stops) = 0 => stops = <<>>)
    BY EmptySeq
  <2>2. Len(stops) - 1 \in Nat /\ Len(stops) = (Len(stops) - 1) + 1
    BY <2>1
  <2> QED BY <2>2
<1> DEFINE Same(k) == Cardinality(Places(After(stops)[k], a)) = Cardinality(Left(stops, a, k))
           T == {k \in 0..N : Same(k)}
<1>2. 0 \in T
  <2>1. After(stops)[0] = stops
    BY AfterProperties
  <2>2. Left(stops, a, 0) = Places(stops, a)
    BY DEF Left, Places
  <2> QED BY <2>1, <2>2
<1>3. ASSUME NEW k \in 0..(N - 1), k \in T PROVE k + 1 \in T
  <2>1. /\ k + 1 \in 1..(Len(stops) - 1) /\ (k + 1) - 1 = k /\ k + 1 \in 0..N /\ k \in 0..N
        /\ (k + 1) + 1 = k + 2 /\ k \in 0..(Len(stops) - 1)
    BY <1>1
  <2> DEFINE s == After(stops)[k]
             t == After(stops)[k + 1]
             before == Left(stops, a, k)
             after == Left(stops, a, k + 1)
  <2>2. /\ stops[k + 1] # stops[k + 2] => t = s
        /\ stops[k + 1] = stops[k + 2] => \E p : FirstAt(s, stops[k + 1], p) /\ IsCut(s, t, p)
    <3>1. Iterates(stops, k + 1)
      BY <2>1, AfterIterates
    <3> QED BY <2>1, <3>1 DEF Iterates
  <2>3. s \in Seq(S) /\ Len(s) \in Nat
    BY <2>1, AfterProperties
  <2>4. IsFiniteSet(before) /\ Cardinality(before) \in Nat
    <3>1. IsFiniteSet(Places(stops, a))
      <4>1. Len(stops) \in Nat
        OBVIOUS
      <4> QED BY <4>1, PlacesFinite
    <3>2. before \in SUBSET Places(stops, a)
      BY DEF Left, Places
    <3>3. IsFiniteSet(before)
      BY <3>1, <3>2, FS_Subset
    <3> QED BY <3>3, FS_CardinalityType
  <2>5. Cardinality(Places(s, a)) = Cardinality(before)
    BY <1>3
  <2> DEFINE again == stops[k + 1] = a /\ stops[k + 2] = a
  <2>6. /\ again => after = before \ {k + 2} /\ k + 2 \in before
        /\ ~again => after = before
    BY <1>1 DEF Left
  <2> HIDE DEF T, before, after, s, t
  <2>7. CASE again
    <3>1. PICK p : FirstAt(s, stops[k + 1], p) /\ IsCut(s, t, p)
      BY <2>2, <2>7
    <3>2. s[p] = a
      BY <2>7, <3>1 DEF FirstAt
    <3>3. Cardinality(Places(t, a)) = Cardinality(Places(s, a)) - 1
      BY <2>3, <3>1, <3>2, CutCount
    <3>4. Cardinality(after) = Cardinality(before) - 1
      BY <2>4, <2>6, <2>7, FS_RemoveElement
    <3>5. Same(k + 1)
      BY <2>5, <3>3, <3>4 DEF after, t
    <3> QED BY <2>1, <3>5 DEF T
  <2>8. CASE ~again
    <3>1. Cardinality(Places(t, a)) = Cardinality(Places(s, a))
      <4>1. CASE stops[k + 1] = stops[k + 2]
        <5>1. PICK p : FirstAt(s, stops[k + 1], p) /\ IsCut(s, t, p)
          BY <2>2, <4>1
        <5>2. s[p] # a
          BY <2>8, <4>1, <5>1 DEF FirstAt
        <5> QED BY <2>3, <5>1, <5>2, CutCount
      <4>2. CASE stops[k + 1] # stops[k + 2]
        BY <2>2, <4>2
      <4> QED BY <4>1, <4>2
    <3>2. Same(k + 1)
      BY <2>5, <2>6, <2>8, <3>1 DEF after, before, t
    <3> QED BY <2>1, <3>2 DEF T
  <2> QED BY <2>7, <2>8
<1> HIDE DEF T
<1>4. 0..N \subseteq T
  BY <1>2, <1>3, InductionTo
<1>5. Len(stops) - 1 = N
  BY <1>1
<1> QED BY <1>4, <1>5 DEF T

(***************************************************************************)
(* The list without repeats.                                               *)
(***************************************************************************)
\* The list after the first k stops, as Kept defines it.
KeptUpto ==
  CHOOSE g :
    g = [k \in 1..Len(Stops) |->
           IF k = 1 THEN <<Stops[1]>>
           ELSE IF Last(g[k-1]) = Stops[k] THEN g[k-1]
           ELSE Append(g[k-1], Stops[k])]

LEMMA KeptRecursion ==
  ASSUME NEW S, Stops \in Seq(S), Stops # <<>>
  PROVE  /\ Kept = KeptUpto[Len(Stops)]
         /\ KeptUpto[1] = <<Stops[1]>>
         /\ \A k \in 1..(Len(Stops) - 1) :
              KeptUpto[k+1] = IF Last(KeptUpto[k]) = Stops[k+1] THEN KeptUpto[k]
                              ELSE Append(KeptUpto[k], Stops[k+1])
<1>1. PICK N \in Nat : Len(Stops) = N + 1
  <2>1. Len(Stops) \in Nat /\ (Len(Stops) = 0 => Stops = <<>>)
    BY EmptySeq
  <2>2. Len(Stops) - 1 \in Nat /\ Len(Stops) = (Len(Stops) - 1) + 1
    BY <2>1
  <2> QED BY <2>2
<1> DEFINE Lists == Seq(S)
           Taken(k, v) == IF Last(v) = Stops[k] THEN v ELSE Append(v, Stops[k])
           step == [x \in (1..N) \X Lists |-> Taken(x[1] + 1, x[2])]
           IsKept(g) == g = [k \in 1..(N + 1) |-> IF k = 1 THEN <<Stops[1]>> ELSE Taken(k, g[k-1])]
           kept == CHOOSE g : IsKept(g)
<1>2. KeptUpto = kept /\ Kept = kept[N + 1]
  BY <1>1 DEF KeptUpto, Kept
<1> HIDE DEF kept
<1>3. \A k \in 1..(N + 1) : Stops[k] \in S
  BY <1>1, ElementOfSeq
<1>4. ASSUME NEW k \in 1..(N + 1), NEW v \in Lists PROVE Taken(k, v) \in Lists
  BY <1>3, AppendProperties
<1>5. <<Stops[1]>> \in Lists
  <2>1. Stops[1] \in S
    BY <1>3
  <2> QED BY <2>1
<1> HIDE DEF Lists, Taken
<1>6. step \in [(1..N) \X Lists -> Lists]
  <2>1. ASSUME NEW k \in 1..N PROVE k + 1 \in 1..(N + 1)
    OBVIOUS
  <2> QED BY <1>4, <2>1
<1> HIDE DEF step
<1>7. PICK f \in [0..N -> Lists] : Recurs(f, N, <<Stops[1]>>, step)
  BY <1>5, <1>6, RecursiveFunction
<1>8. f[0] = <<Stops[1]>> /\ \A k \in 1..N : f[k] = Taken(k + 1, f[k-1])
  <2>1. \A k \in 1..N : k - 1 \in 0..N
    OBVIOUS
  <2> QED BY <1>7, <2>1 DEF step, Recurs
<1> DEFINE g == [k \in 1..(N + 1) |-> f[k-1]]
<1>9. IsKept(g)
  <2>1. ASSUME NEW k \in 1..(N + 1)
        PROVE  f[k-1] = IF k = 1 THEN <<Stops[1]>> ELSE Taken(k, g[k-1])
    <3>1. CASE k = 1
      <4>1. k - 1 = 0
        BY <3>1
      <4> QED BY <1>8, <3>1, <4>1
    <3>2. CASE k # 1
      <4>1. k - 1 \in 1..N /\ k - 1 \in 1..(N + 1) /\ (k - 1) + 1 = k
        BY <3>2
      <4>2. g[k-1] = f[(k-1)-1]
        BY <4>1
      <4>3. f[k-1] = Taken((k - 1) + 1, f[(k-1)-1])
        BY <1>8, <4>1
      <4> QED BY <3>2, <4>1, <4>2, <4>3
    <3> QED BY <3>1, <3>2
  <2> QED BY <2>1
<1> HIDE DEF g
<1>10. IsKept(kept)
  BY <1>9 DEF kept
<1>11. 1 \in 1..(N + 1) /\ \A k \in 1..N : k + 1 \in 1..(N + 1) /\ k + 1 # 1 /\ (k + 1) - 1 = k
  OBVIOUS
<1>12. kept[1] = <<Stops[1]>> /\ \A k \in 1..N : kept[k+1] = Taken(k + 1, kept[k])
  BY <1>10, <1>11
<1>13. Len(Stops) - 1 = N
  BY <1>1
<1> QED BY <1>1, <1>2, <1>12, <1>13 DEF Taken

\* Every stop that is no repeat is in it, in its slot.
InSlots(k) ==
  LET kept == KeptUpto[k]
  IN  /\ Len(kept) = k - Cardinality({j \in Repeats(Stops) : j <= k})
      /\ Len(kept) >= 1 /\ kept[Len(kept)] = Stops[k]
      /\ \A q \in 1..Len(kept) :
           \E j \in (1..k) \ Repeats(Stops) : Slot(Stops, j) = q /\ kept[q] = Stops[j]

LEMMA KeptInSlots ==
  ASSUME NEW S, Stops \in Seq(S), Stops # <<>>
  PROVE  /\ Kept = KeptUpto[Len(Stops)]
         /\ \A k \in 1..Len(Stops) : KeptUpto[k] \in Seq(S) /\ InSlots(k)
<1>1. PICK N \in Nat : Len(Stops) = N + 1
  <2>1. Len(Stops) \in Nat /\ (Len(Stops) = 0 => Stops = <<>>)
    BY EmptySeq
  <2>2. Len(Stops) - 1 \in Nat /\ Len(Stops) = (Len(Stops) - 1) + 1
    BY <2>1
  <2> QED BY <2>2
<1>2. /\ Kept = KeptUpto[N + 1]
      /\ KeptUpto[1] = <<Stops[1]>>
      /\ \A k \in 1..N :
           KeptUpto[k+1] = IF Last(KeptUpto[k]) = Stops[k+1] THEN KeptUpto[k]
                           ELSE Append(KeptUpto[k], Stops[k+1])
  <2>1. Len(Stops) - 1 = N
    BY <1>1
  <2> QED BY <1>1, <2>1, KeptRecursion
<1> DEFINE Right(k) == KeptUpto[k] \in Seq(S) /\ InSlots(k)
           T == {k \in 0..N : Right(k + 1)}
<1>3. Right(1)
  <2>1. Stops[1] \in S /\ 1 \in 1..Len(Stops)
    BY <1>1, ElementOfSeq
  <2>2. KeptUpto[1] \in Seq(S) /\ Len(KeptUpto[1]) = 1 /\ KeptUpto[1][1] = Stops[1]
    BY <1>2, <2>1
  <2>3. {j \in Repeats(Stops) : j <= 1} = {} /\ 1 \notin Repeats(Stops)
    BY <1>1 DEF Repeats
  <2>4. Cardinality({j \in Repeats(Stops) : j <= 1}) = 0
    BY <2>3, FS_EmptySet
  <2>5. Slot(Stops, 1) = 1
    BY <2>1, SlotBounds
  <2>6. 1 \in (1..1) \ Repeats(Stops) /\ \A q \in 1..1 : q = 1
    BY <2>3
  <2> QED BY <2>2, <2>4, <2>5, <2>6 DEF InSlots
<1>4. ASSUME NEW k \in 1..N, Right(k) PROVE Right(k + 1)
  <2> DEFINE v == KeptUpto[k]
             w == KeptUpto[k + 1]
             c == Cardinality({j \in Repeats(Stops) : j <= k})
  <2>1. /\ v \in Seq(S) /\ Len(v) = k - c /\ Len(v) >= 1 /\ v[Len(v)] = Stops[k]
        /\ \A q \in 1..Len(v) :
             \E j \in (1..k) \ Repeats(Stops) : Slot(Stops, j) = q /\ v[q] = Stops[j]
    BY <1>4 DEF InSlots
  <2>2. /\ k \in 1..(Len(Stops) - 1) /\ k + 1 \in 1..Len(Stops) /\ k \in Nat
    BY <1>1
  <2>3. /\ c \in Nat /\ Slot(Stops, k + 1) = (k + 1) - c
        /\ Cardinality({j \in Repeats(Stops) : j <= k + 1})
             = IF k + 1 \in Repeats(Stops) THEN c + 1 ELSE c
    BY <2>2, CountedRepeats
  <2>4. k + 1 \in Repeats(Stops) <=> Stops[k+1] = Stops[k]
    BY <1>1 DEF Repeats
  <2>5. w = IF Stops[k] = Stops[k+1] THEN v ELSE Append(v, Stops[k+1])
    BY <1>2, <2>1 DEF Last
  <2>6. Stops[k+1] \in S
    BY <2>2, ElementOfSeq
  <2>7. PICK m \in Nat : m = Len(v)
    <3>1. v \in Seq(S)
      BY <2>1
    <3> QED BY <3>1
  <2> HIDE DEF v, w, c
  <2>8. CASE Stops[k] = Stops[k+1]
    <3>1. w = v /\ Len(w) = (k + 1) - (c + 1)
      BY <2>1, <2>2, <2>3, <2>5, <2>8
    <3>2. (1..k) \subseteq 1..(k + 1)
      BY <2>2
    <3>3. InSlots(k + 1)
      <4>1. /\ Len(w) = (k + 1) - Cardinality({j \in Repeats(Stops) : j <= k + 1})
            /\ Len(w) >= 1 /\ w[Len(w)] = Stops[k + 1]
        BY <2>1, <2>3, <2>4, <2>8, <3>1
      <4>2. \A q \in 1..Len(w) :
              \E j \in (1..(k + 1)) \ Repeats(Stops) : Slot(Stops, j) = q /\ w[q] = Stops[j]
        BY <2>1, <3>1, <3>2
      <4> QED BY <4>1, <4>2 DEF InSlots, w
    <3> QED BY <2>1, <3>1, <3>3 DEF w
  <2>9. CASE Stops[k] # Stops[k+1]
    <3>1. /\ w \in Seq(S) /\ Len(w) = m + 1 /\ w[m + 1] = Stops[k+1]
          /\ \A q \in 1..m : w[q] = v[q]
      BY <2>1, <2>5, <2>6, <2>7, <2>9, AppendProperties
    <3>2. m = k - c /\ m + 1 = (k + 1) - c /\ m + 1 >= 1
      BY <2>1, <2>2, <2>3, <2>7
    <3>3. ASSUME NEW q \in 1..(m + 1)
          PROVE  \E j \in (1..(k + 1)) \ Repeats(Stops) : Slot(Stops, j) = q /\ w[q] = Stops[j]
      <4>1. CASE q \in 1..m
        <5>1. PICK j \in (1..k) \ Repeats(Stops) : Slot(Stops, j) = q /\ v[q] = Stops[j]
          BY <2>1, <2>7, <4>1
        <5>2. j \in (1..(k + 1)) \ Repeats(Stops) /\ w[q] = v[q]
          BY <2>2, <3>1, <4>1
        <5> QED BY <5>1, <5>2
      <4>2. CASE q = m + 1
        <5>1. k + 1 \in (1..(k + 1)) \ Repeats(Stops)
          BY <2>2, <2>4, <2>9
        <5> QED BY <2>3, <3>1, <3>2, <4>2, <5>1
      <4>3. q \in 1..m \/ q = m + 1
        OBVIOUS
      <4> QED BY <4>1, <4>2, <4>3
    <3>4. Len(w) = (k + 1) - Cardinality({j \in Repeats(Stops) : j <= k + 1})
      BY <2>3, <2>4, <2>9, <3>1, <3>2
    <3>5. InSlots(k + 1)
      BY <3>1, <3>2, <3>3, <3>4 DEF InSlots, w
    <3> QED BY <3>1, <3>5 DEF w
  <2> QED BY <2>8, <2>9
<1>5. 0 \in T
  <2>1. 0 + 1 = 1 /\ 0 \in 0..N
    OBVIOUS
  <2> QED BY <1>3, <2>1
<1>6. ASSUME NEW k \in 0..(N - 1), k \in T PROVE k + 1 \in T
  <2>1. k + 1 \in 1..N /\ k + 1 \in 0..N
    OBVIOUS
  <2> QED BY <1>4, <1>6, <2>1
<1> HIDE DEF T
<1>7. 0..N \subseteq T
  BY <1>5, <1>6, InductionTo
<1>8. ASSUME NEW k \in 1..Len(Stops) PROVE Right(k)
  <2>1. k - 1 \in 0..N /\ (k - 1) + 1 = k
    BY <1>1
  <2>2. k - 1 \in T
    BY <1>7, <2>1
  <2> QED BY <2>1, <2>2 DEF T
<1> QED BY <1>1, <1>2, <1>8

\* The visits of an address are not counted twice.
LEMMA TwoVisits ==
  ASSUME NEW S, Stops \in Seq(S), NEW a, NEW j \in Visits(a), NEW m \in Visits(a), j # m
  PROVE  Cardinality(Visits(a)) > 1
<1>1. Len(Stops) \in Nat
  OBVIOUS
<1>2. IsFiniteSet(Visits(a))
  <2>1. IsFiniteSet(Places(Stops, a))
    BY <1>1, PlacesFinite
  <2>2. Visits(a) \in SUBSET Places(Stops, a)
    BY DEF Visits, Places
  <2> QED BY <2>1, <2>2, FS_Subset
<1>3. IsFiniteSet({j}) /\ Cardinality({j}) = 1
  BY FS_Singleton
<1>4. IsFiniteSet({j} \cup {m}) /\ Cardinality({j} \cup {m}) = Cardinality({j}) + 1
  BY <1>3, FS_AddElement
<1>5. Cardinality({j} \cup {m}) <= Cardinality(Visits(a))
  <2>1. ({j} \cup {m}) \in SUBSET Visits(a)
    OBVIOUS
  <2> QED BY <1>2, <2>1, FS_Subset
<1>6. Cardinality(Visits(a)) \in Nat
  BY <1>2, FS_CardinalityType
<1> QED BY <1>3, <1>4, <1>5, <1>6

\* The list is the stops kept so far, and behind them the ones to come.
Aligned(k) ==
  LET a    == After(Stops)[k-1]
      kept == KeptUpto[k]
  IN  /\ Len(a) = Len(kept) + (Len(Stops) - k)
      /\ \A q \in 1..Len(kept) : a[q] = kept[q]
      /\ \A d \in 1..(Len(Stops) - k) : a[Len(kept) + d] = Stops[k + d]

LEMMA AlignedStep ==
  ASSUME NEW S, Stops \in Seq(S), Stops # <<>>, ~Ambiguous,
         NEW k \in 1..(Len(Stops) - 1), Aligned(k)
  PROVE  Aligned(k + 1)
<1>1. PICK n \in Nat : n = Len(Stops)
  OBVIOUS
<1>2. /\ k \in 1..Len(Stops) /\ k + 1 \in 1..Len(Stops) /\ k - 1 \in 0..(Len(Stops) - 1)
      /\ k \in 1..(n - 1) /\ (k + 1) - 1 = k /\ k \in Nat /\ k \in 0..(Len(Stops) - 1)
  BY <1>1
<1> DEFINE a == After(Stops)[k-1]
           b == After(Stops)[k]
           v == KeptUpto[k]
           w == KeptUpto[k + 1]
<1>3. v \in Seq(S) /\ InSlots(k)
  BY <1>2, KeptInSlots
<1>4. PICK m \in Nat : m = Len(v)
  BY <1>3
<1>5. m >= 1 /\ v[m] = Stops[k]
      /\ \A q \in 1..m : \E j \in (1..k) \ Repeats(Stops) : Slot(Stops, j) = q /\ v[q] = Stops[j]
  BY <1>3, <1>4 DEF InSlots
<1>6. w = IF Stops[k] = Stops[k+1] THEN v ELSE Append(v, Stops[k+1])
  <2>1. w = IF Last(v) = Stops[k+1] THEN v ELSE Append(v, Stops[k+1])
    BY KeptRecursion
  <2> QED BY <1>4, <1>5, <2>1 DEF Last
<1>7. /\ Len(a) = m + (n - k)
      /\ \A q \in 1..m : a[q] = v[q]
      /\ \A d \in 1..(n - k) : a[m + d] = Stops[k + d]
  BY <1>1, <1>4 DEF Aligned
<1>8. Iterates(Stops, k)
  BY AfterIterates
<1>9. Stops[k + 1] \in S
  BY <1>2, ElementOfSeq
<1> HIDE DEF a, b, v, w
<1>10. ASSUME NEW l \in Nat, Len(w) = l, Len(b) = l + (n - (k + 1)),
              \A q \in 1..l : b[q] = w[q],
              \A d \in 1..(n - (k + 1)) : b[l + d] = Stops[(k + 1) + d]
       PROVE  Aligned(k + 1)
  BY <1>1, <1>2, <1>10 DEF Aligned, b, w
<1>11. CASE Stops[k] # Stops[k+1]
  <2>1. b = a
    BY <1>8, <1>11 DEF Iterates, a, b
  <2>2. /\ Len(w) = m + 1 /\ w[m + 1] = Stops[k+1]
        /\ \A q \in 1..m : w[q] = v[q]
    BY <1>3, <1>4, <1>6, <1>9, <1>11, AppendProperties DEF v
  <2>3. ASSUME NEW q \in 1..(m + 1) PROVE b[q] = w[q]
    <3>1. CASE q \in 1..m
      BY <1>7, <2>1, <2>2, <3>1
    <3>2. CASE q = m + 1
      <4>1. 1 \in 1..(n - k)
        BY <1>2
      <4> QED BY <1>7, <2>1, <2>2, <3>2, <4>1
    <3> QED BY <3>1, <3>2
  <2>4. ASSUME NEW d \in 1..(n - (k + 1)) PROVE b[(m + 1) + d] = Stops[(k + 1) + d]
    <3>1. d + 1 \in 1..(n - k) /\ m + (d + 1) = (m + 1) + d /\ k + (d + 1) = (k + 1) + d
      BY <1>2
    <3>2. a[m + (d + 1)] = Stops[k + (d + 1)]
      BY <1>7, <3>1
    <3> QED BY <2>1, <3>1, <3>2
  <2>5. Len(b) = (m + 1) + (n - (k + 1)) /\ m + 1 \in Nat
    BY <1>2, <1>7, <2>1
  <2> QED BY <1>10, <2>2, <2>3, <2>4, <2>5
<1>12. CASE Stops[k] = Stops[k+1]
  <2>1. PICK p : FirstAt(a, Stops[k], p) /\ IsCut(a, b, p)
    BY <1>8, <1>12 DEF Iterates, a, b
  <2>2. p \in 1..(m + (n - k)) /\ a[p] = Stops[k] /\ \A q \in 1..(p - 1) : a[q] # Stops[k]
    BY <1>7, <2>1 DEF FirstAt
  <2>3. p <= m
    <3>1. m \in 1..m /\ a[m] = Stops[k]
      BY <1>5, <1>7
    <3>2. m \notin 1..(p - 1)
      BY <2>2, <3>1
    <3> QED BY <1>5, <2>2, <3>2
  <2>4. p = m
    <3> SUFFICES ASSUME p # m PROVE FALSE
      OBVIOUS
    <3>1. p \in 1..m /\ m \in 1..m
      BY <1>5, <2>2, <2>3
    <3>2. v[p] = Stops[k]
      BY <1>7, <2>2, <3>1
    <3>3. PICK j \in (1..k) \ Repeats(Stops) : Slot(Stops, j) = p /\ v[p] = Stops[j]
      BY <1>5, <3>1
    <3>4. PICK l \in (1..k) \ Repeats(Stops) : Slot(Stops, l) = m /\ v[m] = Stops[l]
      BY <1>5, <3>1
    <3>5. j # l
      BY <3>3, <3>4
    <3>6. \A e \in (1..k) \ Repeats(Stops) : Stops[e] = Stops[k] => e \in Visits(Stops[k])
      BY <1>1, <1>2 DEF Visits, Repeats
    <3>7. j \in Visits(Stops[k]) /\ l \in Visits(Stops[k])
      BY <1>5, <3>2, <3>3, <3>4, <3>6
    <3>8. Cardinality(Visits(Stops[k])) > 1
      BY <3>5, <3>7, TwoVisits
    <3>9. Ambiguous
      <4>1. k + 1 \in 2..Len(Stops)
        BY <1>1, <1>2
      <4> QED BY <1>2, <1>12, <3>8, <4>1 DEF Ambiguous
    <3> QED BY <3>9
  <2>5. /\ Len(b) = (m + (n - k)) - 1
        /\ \A q \in 1..(m - 1) : b[q] = a[q]
        /\ \A q \in m..((m + (n - k)) - 1) : b[q] = a[q + 1]
    BY <1>7, <2>1, <2>4 DEF IsCut
  <2>6. w = v
    BY <1>6, <1>12
  <2>7. ASSUME NEW d \in 0..(n - (k + 1)) PROVE b[m + d] = Stops[(k + 1) + d]
    <3>1. /\ d + 1 \in 1..(n - k) /\ m + d \in m..((m + (n - k)) - 1)
          /\ (m + d) + 1 = m + (d + 1) /\ k + (d + 1) = (k + 1) + d
      BY <1>2
    <3>2. b[m + d] = a[(m + d) + 1]
      BY <2>5, <3>1
    <3>3. a[m + (d + 1)] = Stops[k + (d + 1)]
      BY <1>7, <3>1
    <3> QED BY <3>1, <3>2, <3>3
  <2>8. ASSUME NEW q \in 1..m PROVE b[q] = w[q]
    <3>1. CASE q \in 1..(m - 1)
      BY <1>7, <2>5, <2>6, <3>1
    <3>2. CASE q = m
      <4>1. 0 \in 0..(n - (k + 1)) /\ m + 0 = m /\ (k + 1) + 0 = k + 1
        BY <1>2
      <4>2. b[m + 0] = Stops[(k + 1) + 0]
        BY <2>7, <4>1
      <4> QED BY <1>5, <1>12, <2>6, <3>2, <4>1, <4>2
    <3>3. q \in 1..(m - 1) \/ q = m
      OBVIOUS
    <3> QED BY <3>1, <3>2, <3>3
  <2>9. Len(b) = m + (n - (k + 1)) /\ Len(w) = m
    <3>1. (m + (n - k)) - 1 = m + (n - (k + 1))
      BY <1>2
    <3>2. Len(b) = (m + (n - k)) - 1
      BY <2>5
    <3> QED BY <1>4, <2>6, <3>1, <3>2
  <2>10. ASSUME NEW d \in 1..(n - (k + 1)) PROVE b[m + d] = Stops[(k + 1) + d]
    <3>1. d \in 0..(n - (k + 1))
      BY <1>2
    <3> QED BY <2>7, <3>1
  <2> QED BY <1>10, <2>8, <2>9, <2>10
<1> QED BY <1>11, <1>12

LEMMA VmListIsKept ==
  ASSUME NEW S, Stops \in Seq(S), Stops # <<>>, ~Ambiguous
  PROVE  VmList(Stops) = Kept
<1>1. PICK N \in Nat : Len(Stops) = N + 1
  <2>1. Len(Stops) \in Nat /\ (Len(Stops) = 0 => Stops = <<>>)
    BY EmptySeq
  <2>2. Len(Stops) - 1 \in Nat /\ Len(Stops) = (Len(Stops) - 1) + 1
    BY <2>1
  <2> QED BY <2>2
<1> DEFINE T == {k \in 0..N : Aligned(k + 1)}
<1>2. 0 \in T
  <2>1. 0 + 1 = 1 /\ 1 - 1 = 0 /\ 0 \in 0..N
    OBVIOUS
  <2>2. After(Stops)[0] = Stops
    BY AfterProperties
  <2>3. KeptUpto[1] = <<Stops[1]>> /\ Len(KeptUpto[1]) = 1 /\ KeptUpto[1][1] = Stops[1]
    <3>1. KeptUpto[1] = <<Stops[1]>>
      BY KeptRecursion
    <3> QED BY <3>1
  <2>4. Len(Stops) = 1 + (Len(Stops) - 1)
    BY <1>1
  <2>5. Aligned(1)
    BY <2>1, <2>2, <2>3, <2>4 DEF Aligned
  <2> QED BY <2>1, <2>5
<1>3. ASSUME NEW k \in 0..(N - 1), k \in T PROVE k + 1 \in T
  <2>1. k + 1 \in 1..(Len(Stops) - 1) /\ k + 1 \in 0..N
    BY <1>1
  <2>2. Aligned(k + 1)
    BY <1>3
  <2>3. Aligned((k + 1) + 1)
    BY <2>1, <2>2, AlignedStep
  <2> QED BY <2>1, <2>3
<1> HIDE DEF T
<1>4. 0..N \subseteq T
  BY <1>2, <1>3, InductionTo
<1>5. Aligned(N + 1)
  BY <1>4 DEF T
<1>6. /\ VmList(Stops) = After(Stops)[N] /\ After(Stops)[N] \in Seq(S)
      /\ Kept = KeptUpto[N + 1] /\ KeptUpto[N + 1] \in Seq(S)
  <2>1. N \in 0..(Len(Stops) - 1) /\ Len(Stops) - 1 = N /\ N + 1 \in 1..Len(Stops)
    BY <1>1
  <2> QED BY <1>1, <2>1, AfterProperties, KeptInSlots
<1>7. Len(VmList(Stops)) = Len(Kept) + 0 /\ \A q \in 1..Len(Kept) : VmList(Stops)[q] = Kept[q]
  <2>1. (N + 1) - 1 = N /\ (N + 1) - (N + 1) = 0
    OBVIOUS
  <2> QED BY <1>1, <1>5, <1>6, <2>1 DEF Aligned
<1>8. Len(VmList(Stops)) = Len(Kept)
  BY <1>6, <1>7
<1> QED BY <1>6, <1>7, <1>8, SeqEqual

(***************************************************************************)
(* The loop of get_vm_info().                                              *)
(***************************************************************************)
\* The entries from the one that node points to on are the last ones of the
\* list, those before it are older, and what they hold is the list of VmList.
Walking ==
  LET n == Len(Stops)
      m == Len(list)
      a == After(Stops)[vmi-1]
  IN  /\ list \in Seq(1..n) /\ vmi \in 1..n /\ node = vmi /\ m >= n - (vmi - 1)
      /\ \A d \in 0..(n - vmi) : list[m - d] = n - d
      /\ \A k \in 1..((m - (n - vmi)) - 1) : list[k] < vmi
      /\ Len(a) = m /\ \A k \in 1..m : Stops[list[k]] = a[k]

VInv ==
  /\ vmstate \in {"start", "loop", "done", "aborted"}
  /\ vmstate \in {"loop", "done"} => Walking
  /\ vmstate = "done" => vmi = Len(Stops)

\* The library's operators mean the same in the instance.
LEMMA SameOperators ==
  /\ \A s : VmInfo!VmList(s) = VmList(s)
  /\ \A s, k : VmInfo!RemoveAt(s, k) = RemoveAt(s, k)
  /\ \A I : VmInfo!Min(I) = Min(I)
BY DEF VmInfo!VmList, VmList, VmInfo!RemoveFirst, RemoveFirst, VmInfo!RemoveAt, RemoveAt,
       VmInfo!SelectInSeq, SelectInSeq, VmInfo!Min, Min

\* The first iteration.
LEMMA Collected ==
  ASSUME NEW S, Stops \in Seq(S), Stops # <<>>, VmInfo!Collect, Stops' = Stops
  PROVE  Walking'
<1>1. PICK n \in Nat : n = Len(Stops)
  OBVIOUS
<1>2. n >= 1 /\ DOMAIN Stops = 1..n
  <2>1. n # 0
    BY <1>1, EmptySeq
  <2> QED BY <1>1, <2>1
<1>3. list' = [e \in 1..n |-> e] /\ node' = 1 /\ vmi' = 1
  BY <1>2 DEF VmInfo!Collect
<1>4. list' \in Seq(1..n) /\ Len(list') = n
  <2>1. list' \in [1..n -> 1..n]
    BY <1>3
  <2> QED BY <1>3, <2>1
<1>5. After(Stops)[1 - 1] = Stops
  <2>1. 1 - 1 = 0
    OBVIOUS
  <2> QED BY <2>1, AfterProperties
<1>6. \A d \in 0..(n - 1) : list'[n - d] = n - d
  <2>1. \A d \in 0..(n - 1) : n - d \in 1..n
    OBVIOUS
  <2> QED BY <1>3, <2>1
<1>7. \A k \in 1..n : Stops[list'[k]] = Stops[k]
  BY <1>3
<1>8. 1 \in 1..n /\ n >= n - (1 - 1) /\ (n - (n - 1)) - 1 = 0 /\ 1..0 = {}
  BY <1>2
<1>9. \A k \in 1..((n - (n - 1)) - 1) : list'[k] < 1
  BY <1>8
<1> QED BY <1>1, <1>3, <1>4, <1>5, <1>6, <1>7, <1>8, <1>9 DEF Walking

\* The entry after that of node is that of the next stop.
LEMMA NodeFollowed ==
  ASSUME Walking
  PROVE  /\ \E k \in 1..Len(list) : list[k] = node
         /\ vmi < Len(Stops) => VmInfo!Following(list, node) = vmi + 1
<1> DEFINE n == Len(Stops)
           m == Len(list)
<1>1. /\ list \in Seq(1..n) /\ vmi \in 1..n /\ node = vmi /\ m >= n - (vmi - 1)
      /\ \A d \in 0..(n - vmi) : list[m - d] = n - d
      /\ \A k \in 1..((m - (n - vmi)) - 1) : list[k] < vmi
  BY DEF Walking
<1>2. m \in Nat
  BY <1>1
<1>3. n \in Nat
  <2>1. Stops \in Seq(Argument) \/ n \in Nat
    BY <1>1
  <2> QED BY <2>1
<1>4. vmi \in 1..n /\ vmi \in Nat
  BY <1>1, <1>3
<1> HIDE DEF n, m
<1>5. PICK x \in 1..m : x = m - (n - vmi)
  BY <1>1, <1>2, <1>3, <1>4
<1>6. list[x] = vmi /\ \A k \in 1..(x - 1) : list[k] # vmi
  <2>1. n - vmi \in 0..(n - vmi) /\ n - (n - vmi) = vmi
    BY <1>3, <1>4
  <2>2. list[x] = vmi
    BY <1>1, <1>5, <2>1
  <2>3. ASSUME NEW k \in 1..(x - 1) PROVE list[k] # vmi
    <3>1. list[k] < vmi
      BY <1>1, <1>5
    <3>2. ~(vmi < vmi)
      BY <1>4
    <3> QED BY <3>1, <3>2
  <2> QED BY <2>2, <2>3
<1>7. ASSUME vmi < n PROVE VmInfo!Following(list, node) = vmi + 1
  <2> DEFINE I == {k \in 1..Len(list) : list[k] = vmi}
  <2>1. FirstAt(list, vmi, x)
    BY <1>5, <1>6 DEF FirstAt, m
  <2>2. I # {} /\ Min(I) = x
    BY <1>1, <2>1, FirstIsMin
  <2>3. VmInfo!Min(I) = x
    BY <2>2, SameOperators
  <2>4. VmInfo!Following(list, node) =
          LET k == IF I # {} THEN VmInfo!Min(I) ELSE 0
          IN  IF k < Len(list) THEN list[k+1] ELSE 0
    BY <1>1 DEF VmInfo!Following, VmInfo!SelectInSeq
  <2> HIDE DEF I
  <2>5. x < m /\ (n - (vmi + 1)) \in 0..(n - vmi) /\ m - (n - (vmi + 1)) = x + 1
        /\ n - (n - (vmi + 1)) = vmi + 1
    BY <1>2, <1>3, <1>4, <1>5, <1>7
  <2>6. list[x + 1] = vmi + 1
    BY <1>1, <2>5
  <2>7. VmInfo!Following(list, node) = IF x < m THEN list[x+1] ELSE 0
    BY <2>2, <2>3, <2>4 DEF m
  <2> QED BY <2>5, <2>6, <2>7
<1> QED BY <1>1, <1>5, <1>6, <1>7 DEF n, m

\* gen_ll_del() cuts the entry out that VmList cuts out.
LEMMA DeletedEntry ==
  ASSUME NEW n \in Nat, list \in Seq(1..n), NEW S, NEW a \in Seq(S), NEW b,
         Len(a) = Len(list), \A k \in 1..Len(list) : Stops[list[k]] = a[k],
         NEW p, FirstAt(a, b, p)
  PROVE  VmInfo!DeleteByValue(list, b) \in Seq(1..n) /\ IsCut(list, VmInfo!DeleteByValue(list, b), p)
<1> DEFINE I == {k \in 1..Len(list) : Stops[list[k]] = b}
           J == {k \in 1..Len(a) : a[k] = b}
<1>1. I = J
  OBVIOUS
<1>2. J # {} /\ Min(J) = p
  BY FirstIsMin
<1>3. VmInfo!DeleteByValue(list, b) =
        IF \E k \in 1..Len(list) : Stops[list[k]] = b
          THEN VmInfo!RemoveAt(list, IF I # {} THEN VmInfo!Min(I) ELSE 0)
          ELSE list
  BY DEF VmInfo!DeleteByValue, VmInfo!RemoveFirstMatch, VmInfo!SelectInSeq
<1>4. \E k \in 1..Len(list) : Stops[list[k]] = b
  BY <1>1, <1>2
<1> HIDE DEF I, J
<1>5. VmInfo!DeleteByValue(list, b) = RemoveAt(list, p)
  BY <1>1, <1>2, <1>3, <1>4, SameOperators
<1>6. p \in 1..Len(list)
  BY DEF FirstAt
<1>7. RemoveAt(list, p) \in Seq(1..n) /\ IsCut(list, RemoveAt(list, p), p)
  BY <1>6, CutOut
<1> QED BY <1>5, <1>7

\* An iteration takes node on by one stop, whether it deletes an entry or not.
LEMMA WalkingStep ==
  ASSUME NEW S, Stops \in Seq(S), Stops' = Stops, Walking,
         VmInfo!Differ \/ VmInfo!Equal
  PROVE  Walking' /\ vmi' = vmi + 1
<1>1. PICK n \in Nat : n = Len(Stops)
  OBVIOUS
<1> DEFINE a == After(Stops)[vmi-1]
           b == After(Stops)[vmi]
<1>2. /\ list \in Seq(1..n) /\ vmi \in 1..n /\ node = vmi /\ Len(list) >= n - (vmi - 1)
      /\ \A d \in 0..(n - vmi) : list[Len(list) - d] = n - d
      /\ \A k \in 1..((Len(list) - (n - vmi)) - 1) : list[k] < vmi
      /\ Len(a) = Len(list) /\ \A k \in 1..Len(list) : Stops[list[k]] = a[k]
  BY <1>1 DEF Walking
<1>3. PICK m \in Nat : m = Len(list)
  BY <1>2
<1>4. vmi' = vmi + 1 /\ vmi < n /\ node' = VmInfo!Following(list, node)
  BY <1>1 DEF VmInfo!Differ, VmInfo!Equal
<1>5. VmInfo!Following(list, node) = vmi + 1
  BY <1>1, <1>4, NodeFollowed
<1>6. /\ vmi \in Nat /\ vmi \in 1..(Len(Stops) - 1) /\ vmi + 1 \in 1..n
      /\ (vmi + 1) - 1 = vmi /\ vmi - 1 \in 0..(Len(Stops) - 1)
  BY <1>1, <1>2, <1>4
<1>7. Iterates(Stops, vmi)
  BY <1>6, AfterIterates
<1>8. a \in Seq(S)
  <2>1. Stops # <<>>
    BY <1>1, <1>4, <1>6
  <2> QED BY <1>6, <2>1, AfterProperties
<1>9. After(Stops)'[vmi' - 1] = b
  <2>1. After(Stops)' = After(Stops)
    BY DEF After, IsAfter
  <2> QED BY <1>4, <1>6, <2>1
<1> HIDE DEF a, b
<1>10. ASSUME NEW l \in Nat, list' \in Seq(1..n), Len(list') = l, l >= n - vmi,
              \A d \in 0..(n - (vmi + 1)) : list'[l - d] = n - d,
              \A k \in 1..((l - (n - (vmi + 1))) - 1) : list'[k] < vmi + 1,
              Len(b) = l, \A k \in 1..l : Stops[list'[k]] = b[k]
       PROVE  Walking'
  <2>1. l >= n - ((vmi + 1) - 1)
    BY <1>6, <1>10
  <2> QED BY <1>1, <1>4, <1>5, <1>6, <1>9, <1>10, <2>1 DEF Walking
<1>11. CASE VmInfo!Differ
  <2>1. list' = list /\ Stops[vmi] # Stops[vmi + 1]
    BY <1>2, <1>5, <1>11 DEF VmInfo!Differ
  <2>2. b = a
    BY <1>7, <2>1 DEF Iterates, a, b
  <2>3. \A d \in 0..(n - (vmi + 1)) : list'[m - d] = n - d
    BY <1>2, <1>3, <1>6, <2>1
  <2>4. ASSUME NEW k \in 1..((m - (n - (vmi + 1))) - 1) PROVE list'[k] < vmi + 1
    <3>1. k \in 1..((m - (n - vmi)) - 1) \/ k = m - (n - vmi)
      BY <1>3, <1>6
    <3>2. CASE k \in 1..((m - (n - vmi)) - 1)
      <4>1. list[k] < vmi /\ k \in 1..m
        BY <1>2, <1>3, <1>6, <3>2
      <4>2. list[k] \in 1..n
        BY <1>2, <1>3, <4>1, ElementOfSeq
      <4> QED BY <1>6, <2>1, <4>1, <4>2
    <3>3. CASE k = m - (n - vmi)
      <4>1. n - vmi \in 0..(n - vmi) /\ n - (n - vmi) = vmi
        BY <1>6
      <4>2. list[k] = vmi
        BY <1>2, <1>3, <3>3, <4>1
      <4> QED BY <1>6, <2>1, <4>2
    <3> QED BY <3>1, <3>2, <3>3
  <2>5. m >= n - vmi /\ \A k \in 1..m : Stops[list'[k]] = b[k]
    BY <1>2, <1>3, <1>6, <2>1, <2>2
  <2>6. list' \in Seq(1..n) /\ Len(list') = m /\ Len(b) = m
    BY <1>2, <1>3, <2>1, <2>2
  <2>7. Walking'
    BY <1>10, <2>3, <2>4, <2>5, <2>6
  <2> QED BY <1>4, <2>7
<1>12. CASE VmInfo!Equal
  <2>1. list' = VmInfo!DeleteByValue(list, Stops[vmi]) /\ Stops[vmi] = Stops[vmi + 1]
    BY <1>2, <1>5, <1>12 DEF VmInfo!Equal
  <2>2. PICK p \in 1..(m - (n - vmi)) : FirstAt(a, Stops[vmi], p) /\ IsCut(a, b, p)
    BY <1>1, <1>2, <1>3, <1>7, <2>1 DEF Iterates, a, b
  <2>3. list' \in Seq(1..n) /\ IsCut(list, list', p)
    BY <1>2, <1>8, <2>1, <2>2, DeletedEntry
  <2>4. /\ p \in 1..m /\ Len(list') = m - 1 /\ m - 1 \in Nat
        /\ \A q \in 1..(p - 1) : list'[q] = list[q]
        /\ \A q \in p..(m - 1) : list'[q] = list[q + 1]
    BY <1>3, <2>3 DEF IsCut
  <2>5. /\ Len(b) = m - 1
        /\ \A q \in 1..(p - 1) : b[q] = a[q]
        /\ \A q \in p..(m - 1) : b[q] = a[q + 1]
    BY <1>2, <1>3, <2>2 DEF IsCut
  <2>6. ASSUME NEW d \in 0..(n - (vmi + 1)) PROVE list'[(m - 1) - d] = n - d
    <3>1. d \in 0..(n - vmi) /\ (m - 1) - d \in p..(m - 1) /\ ((m - 1) - d) + 1 = m - d
      BY <1>2, <1>3, <1>6, <2>2
    <3> QED BY <1>2, <1>3, <2>4, <3>1
  <2>7. ASSUME NEW k \in 1..(((m - 1) - (n - (vmi + 1))) - 1) PROVE list'[k] < vmi + 1
    <3>1. k \in 1..((m - (n - vmi)) - 1) /\ k \in 1..(m - 1)
      BY <1>3, <1>6
    <3>2. CASE k < p
      <4>1. list'[k] = list[k] /\ list[k] < vmi /\ k \in 1..m
        BY <1>2, <1>3, <2>4, <3>1, <3>2
      <4>2. list[k] \in 1..n
        BY <1>2, <1>3, <4>1, ElementOfSeq
      <4> QED BY <1>6, <4>1, <4>2
    <3>3. CASE ~(k < p)
      <4>1. list'[k] = list[k + 1] /\ k + 1 \in 1..m
        BY <2>4, <3>1, <3>3
      <4>2. list[k + 1] \in 1..n
        BY <1>2, <1>3, <4>1, ElementOfSeq
      <4>3. k + 1 \in 1..((m - (n - vmi)) - 1) \/ k + 1 = m - (n - vmi)
        BY <1>3, <1>6, <3>1
      <4>4. n - vmi \in 0..(n - vmi) /\ n - (n - vmi) = vmi
        BY <1>6
      <4>5. list[k + 1] < vmi \/ list[k + 1] = vmi
        BY <1>2, <1>3, <4>3, <4>4
      <4> QED BY <1>6, <4>1, <4>2, <4>5
    <3> QED BY <3>2, <3>3
  <2>8. ASSUME NEW k \in 1..(m - 1) PROVE Stops[list'[k]] = b[k]
    <3>1. CASE k < p
      <4>1. k \in 1..(p - 1) /\ k \in 1..m
        BY <2>4, <3>1
      <4>2. Stops[list[k]] = a[k]
        BY <1>2, <1>3, <4>1
      <4> QED BY <2>4, <2>5, <4>1, <4>2
    <3>2. CASE ~(k < p)
      <4>1. k \in p..(m - 1) /\ k + 1 \in 1..m
        BY <2>4, <3>2
      <4>2. list'[k] = list[k + 1] /\ b[k] = a[k + 1]
        BY <2>4, <2>5, <4>1
      <4>3. Stops[list[k + 1]] = a[k + 1]
        BY <1>2, <1>3, <4>1
      <4> QED BY <4>2, <4>3
    <3> QED BY <3>1, <3>2
  <2>9. m - 1 >= n - vmi
    BY <1>2, <1>3, <1>6
  <2>10. Walking'
    BY <1>10, <2>3, <2>4, <2>5, <2>6, <2>7, <2>8, <2>9
  <2> QED BY <1>4, <2>10
<1> QED BY <1>11, <1>12

(***************************************************************************)
(* Both loops, one after the other.                                        *)
(***************************************************************************)
bothVars == <<vars, vmstate, list, node, vmi>>

LEMMA WalkingKept ==
  ASSUME Walking, Stops' = Stops, UNCHANGED <<list, node, vmi>>
  PROVE  Walking'
<1>1. After(Stops)' = After(Stops)
  BY DEF After, IsAfter
<1> QED BY <1>1 DEF Walking

LEMMA BothInitHolds == BothInit => CInv /\ VInv
BY ComposingInit DEF BothInit, VmInfo!Init, VInv

LEMMA BothStepHolds ==
  ASSUME CInv, VInv, [BothNext]_bothVars
  PROVE  CInv' /\ VInv'
<1>1. [Next]_vars
  BY DEF BothNext, bothVars
<1>2. CInv'
  BY <1>1, ComposingStep
<1>3. Stops \in Seq(Argument) /\ Stops # <<>>
  <2>1. Stops \in Seq(Argument) /\ Len(Stops) = Len(args) + 1 /\ Len(args) \in Nat
    BY StopsAre DEF CInv
  <2>2. Len(Stops) # 0
    BY <2>1
  <2> QED BY <2>1, <2>2
<1>4. Stops' = Stops
  <2>1. host' = host /\ args' = args
    BY <1>1 DEF Next, vars, CheckArgc, InvalidName, Repeat, Write, Iterate, EndLoop, Stop
  <2> QED BY <2>1 DEF Stops
<1>5. ASSUME UNCHANGED <<vmstate, list, node, vmi>> PROVE VInv'
  <2>1. vmstate \in {"loop", "done"} => Walking'
    BY <1>4, <1>5, WalkingKept DEF VInv
  <2> QED BY <1>4, <1>5, <2>1 DEF VInv
<1>6. ASSUME VmInfo!Collect PROVE VInv'
  <2>1. Walking' /\ vmstate' = "loop"
    BY <1>3, <1>4, <1>6, Collected DEF VmInfo!Collect
  <2> QED BY <2>1 DEF VInv
<1>7. ASSUME VmInfo!BadArgument PROVE VInv'
  BY <1>7 DEF VmInfo!BadArgument, VInv
<1>8. ASSUME VmInfo!Differ \/ VmInfo!Equal PROVE VInv'
  <2>1. vmstate = "loop" /\ vmstate' = vmstate
    BY <1>8 DEF VmInfo!Differ, VmInfo!Equal
  <2>2. Walking'
    BY <1>3, <1>4, <1>8, <2>1, WalkingStep DEF VInv
  <2> QED BY <2>1, <2>2 DEF VInv
<1>9. ASSUME VmInfo!EndLoop PROVE VInv'
  <2>1. vmstate = "loop" /\ vmstate' = "done" /\ UNCHANGED <<list, node, vmi>> /\ vmi >= Len(Stops)
    BY <1>9 DEF VmInfo!EndLoop
  <2>2. Walking
    BY <2>1 DEF VInv
  <2>3. Walking'
    BY <1>4, <2>1, <2>2, WalkingKept
  <2>4. vmi = Len(Stops)
    <3>1. vmi \in 1..Len(Stops)
      BY <2>2 DEF Walking
    <3>2. Len(Stops) \in Nat
      BY <1>3
    <3> QED BY <2>1, <3>1, <3>2
  <2> QED BY <1>4, <2>1, <2>3, <2>4 DEF VInv
<1>10. VInv'
  BY <1>5, <1>6, <1>7, <1>8, <1>9 DEF BothNext, bothVars, VmInfo!Next, VmInfo!Stop, VmInfo!vars
<1> QED BY <1>2, <1>10

THEOREM BothKnow == BothSpec => [](CInv /\ VInv)
<1>1. CInv /\ VInv /\ [BothNext]_bothVars => (CInv /\ VInv)'
  BY BothStepHolds
<1> QED BY <1>1, BothInitHolds, PTL DEF BothSpec, bothVars

LEMMA WalkedOver ==
  ASSUME CInv, VInv, vmstate = "done"
  PROVE  /\ Stops \in Seq(Argument) /\ Stops # <<>>
         /\ VmInfo!Addresses = VmList(Stops) /\ DOMAIN list = 1..Len(list)
         /\ Len(list) = Len(VmList(Stops))
<1>1. Stops \in Seq(Argument) /\ Stops # <<>>
  <2>1. Stops \in Seq(Argument) /\ Len(Stops) = Len(args) + 1 /\ Len(args) \in Nat
    BY StopsAre DEF CInv
  <2>2. Len(Stops) # 0
    BY <2>1
  <2> QED BY <2>1, <2>2
<1>2. Walking /\ vmi = Len(Stops)
  BY DEF VInv
<1>3. /\ list \in Seq(1..Len(Stops)) /\ DOMAIN list = 1..Len(list)
      /\ Len(After(Stops)[Len(Stops) - 1]) = Len(list)
      /\ \A k \in 1..Len(list) : Stops[list[k]] = After(Stops)[Len(Stops) - 1][k]
  BY <1>2 DEF Walking
<1>4. VmList(Stops) = After(Stops)[Len(Stops) - 1] /\ VmList(Stops) \in Seq(Argument)
  BY <1>1, AfterProperties, VmListProperties
<1>5. VmList(Stops) = [k \in 1..Len(list) |-> VmList(Stops)[k]]
  <2> DEFINE l == VmList(Stops)
  <2>1. l \in Seq(Argument) /\ Len(l) = Len(list)
    BY <1>3, <1>4
  <2> HIDE DEF l
  <2>2. l = [k \in 1..Len(list) |-> l[k]]
    BY <2>1
  <2> QED BY <2>2 DEF l
<1>6. VmInfo!Addresses = [k \in 1..Len(list) |-> Stops[list[k]]]
  BY <1>3 DEF VmInfo!Addresses
<1>7. VmInfo!Addresses = VmList(Stops)
  BY <1>3, <1>4, <1>5, <1>6
<1> QED BY <1>1, <1>3, <1>4, <1>7

\* get_vm_info() computes VmList, which PacketTour takes for it
\* (common_defines.h 399-434).
THEOREM GetsVmList == BothSpec => []ComputesVmList
<1>1. CInv /\ VInv => ComputesVmList
  BY WalkedOver, SameOperators DEF ComputesVmList, VmInfo!ComputesVmList
<1> QED BY <1>1, BothKnow, PTL

\* The pointer with which get_vm_info() walks down the list is an entry of it,
\* whatever was deleted by its value (common_defines.h 412-429).
THEOREM NodeNeverHangs == BothSpec => []NodeAlive
<1>1. CInv /\ VInv => NodeAlive
  <2> SUFFICES ASSUME VInv, vmstate \in {"loop", "done"}
               PROVE  /\ \E k \in DOMAIN list : list[k] = node
                      /\ vmi < Len(Stops) => VmInfo!Following(list, node) # 0
    BY DEF NodeAlive, VmInfo!NodeAlive
  <2>1. Walking
    BY DEF VInv
  <2>2. DOMAIN list = 1..Len(list) /\ vmi \in 1..Len(Stops)
    BY <2>1 DEF Walking
  <2>3. vmi + 1 # 0
    BY <2>2
  <2> QED BY <2>1, <2>2, <2>3, NodeFollowed
<1> QED BY <1>1, BothKnow, PTL

\* get_vm_info() drops no visit: each VM stays in the list as often as it is
\* to be visited, though deleting by value may move it.
THEOREM NoVisitIsDropped == BothSpec => []VisitsCounted
<1>1. CInv /\ VInv => VisitsCounted
  <2> SUFFICES ASSUME CInv, VInv, vmstate = "done", NEW a \in Name
               PROVE  Cardinality({k \in DOMAIN list : VmInfo!Addresses[k] = a})
                        = Cardinality(Visits(a))
    BY DEF VisitsCounted
  <2>1. /\ Stops \in Seq(Argument) /\ Stops # <<>>
        /\ {k \in DOMAIN list : VmInfo!Addresses[k] = a} = Places(VmList(Stops), a)
    BY WalkedOver DEF Places
  <2>2. PICK N \in Nat : Len(Stops) = N + 1
    <3>1. Len(Stops) \in Nat /\ (Len(Stops) = 0 => Stops = <<>>)
      BY <2>1, EmptySeq
    <3>2. Len(Stops) - 1 \in Nat /\ Len(Stops) = (Len(Stops) - 1) + 1
      BY <2>1, <3>1
    <3> QED BY <3>2
  <2>3. N \in 0..(Len(Stops) - 1) /\ Len(Stops) - 1 = N
    BY <2>2
  <2>4. Cardinality(Places(After(Stops)[N], a)) = Cardinality(Left(Stops, a, N))
    BY <2>1, <2>3, AfterCounts
  <2>5. VmList(Stops) = After(Stops)[N]
    BY <2>1, <2>3, AfterProperties
  <2>6. Left(Stops, a, N) = Visits(a)
    <3>1. DOMAIN Stops = 1..(N + 1)
      BY <2>1, <2>2
    <3> QED BY <2>2, <3>1 DEF Left, Visits
  <2> QED BY <2>1, <2>4, <2>5, <2>6
<1> QED BY <1>1, BothKnow, PTL

\* If each VM that is named twice in a row is visited once, get_vm_info()
\* leaves the command line without its repeats.
THEOREM RepeatsAreGone == BothSpec => []RepeatsGone
<1>1. CInv /\ VInv => RepeatsGone
  BY WalkedOver, VmListIsKept DEF RepeatsGone
<1> QED BY <1>1, BothKnow, PTL

\* If the last argument is no repeat, tour.c sends the stops that differ from
\* the one before, in order (tour.c 93-128).
THEOREM MessageKeepsStops == BothSpec => []KeepsTheStops
<1>1. CInv => KeepsTheStops
  <2> SUFFICES ASSUME CInv, state = "done", Len(Stops) \notin Repeats(Stops)
               PROVE  Message = Kept
    BY DEF KeepsTheStops
  <2>1. /\ Len(args) \in Nat /\ Len(Stops) = Len(args) + 1 /\ Stops \in Seq(Argument)
        /\ i = Len(Stops)
    BY StopsAre DEF CInv, Composing
  <2>2. Stops # <<>> /\ Len(Stops) \in 1..Len(Stops) /\ Len(Stops) \in Nat
    <3>1. Len(Stops) # 0 /\ Len(Stops) \in 1..Len(Stops) /\ Len(Stops) \in Nat
      BY <2>1
    <3> QED BY <2>1, <3>1
  <2>3. /\ msgarg_ind + 1 = Slot(Stops, Len(Stops))
        /\ \A j \in (1..Len(Stops)) \ Repeats(Stops) : rt_rmsg[Slot(Stops, j) - 1] = Stops[j]
    BY <2>1 DEF CInv, LoopInv
  <2>4. Kept \in Seq(Argument) /\ Kept = KeptUpto[Len(Stops)] /\ InSlots(Len(Stops))
    BY <2>1, <2>2, KeptInSlots
  <2>5. Len(Kept) = msgarg_ind + 1
    <3>1. {j \in Repeats(Stops) : j <= Len(Stops)} = {j \in Repeats(Stops) : j < Len(Stops)}
      BY <2>2 DEF Repeats
    <3>2. Len(Kept) = Slot(Stops, Len(Stops))
      BY <2>4, <3>1 DEF InSlots, Slot
    <3> QED BY <2>3, <3>2
  <2>6. ASSUME NEW q \in 1..Len(Kept) PROVE rt_rmsg[q - 1] = Kept[q]
    <3>1. PICK j \in (1..Len(Stops)) \ Repeats(Stops) : Slot(Stops, j) = q /\ Kept[q] = Stops[j]
      BY <2>4 DEF InSlots
    <3> QED BY <2>3, <3>1
  <2>7. Kept = [q \in 1..Len(Kept) |-> Kept[q]]
    BY <2>4
  <2> QED BY <2>5, <2>6, <2>7 DEF Message
<1> QED BY <1>1, BothKnow, PTL
===============================================================================
