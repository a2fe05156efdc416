---------------------------- MODULE RefineProofs -----------------------------
(***************************************************************************)
(* Proofs about RefineLoop, for every number of children, depth, batch     *)
(* size, input array and callback.                                         *)
(*                                                                         *)
(* The argument is a count.  Refining r list elements leaves the list with *)
(* r * (CHILDREN - 1) elements more than the hole between current and      *)
(* restpos has room for.  r is positive after the first pass, so the list  *)
(* cannot run empty while current <= restpos, and a write at restpos is    *)
(* always preceded by a read.                                              *)
(***************************************************************************)
EXTENDS RefineLoop, QuadrantsProofs

Slots == Quadrants \union {NoQuadrant}
Entry == [quad : Quadrants, pad8 : BOOLEAN]

\* In the scan nothing has been moved or written.
ScanInv ==
  pc = "scan" => /\ quadrants = call.input
                 /\ restpos = 0 /\ list = << >> /\ firsttime = FALSE

\* The first list element is the one that stopped the scan.
FirstInv ==
  firsttime => /\ pc = "list"
               /\ Len(list) = 1 /\ Wanted(list[1].quad) /\ list[1].pad8 = FALSE
               /\ restpos = current + 1 /\ Len(quadrants) = incount

\* The list always holds more than the hole between current and restpos.
RoomInv ==
  pc = "list" =>
    /\ Len(quadrants) - current = Len(list) + (incount - restpos)
    /\ firsttime \/ Len(list) + current >= restpos + (CHILDREN - 1)
    /\ current <= restpos \/ restpos = incount

IInv == TypeOK /\ UnreadIntact /\ ScanInv /\ FirstInv /\ RoomInv

USE ChildrenAssumption, LevelAssumption, NumberToReadAssumption

\* The input array is a non-empty sequence of quadrants.
LEMMA InputType ==
  ASSUME TypeOK
  PROVE  /\ call.input \in Seq(Quadrants) /\ call.input # << >>
         /\ incount \in Nat \ {0}
<1>1. call.input \in Inputs
  BY DEF TypeOK
<1>2. call.input \in Seq(Quadrants) /\ call.input # << >>
  BY <1>1, InputsAssumption
<1>3. Len(call.input) \in Nat \ {0}
  BY <1>2
<1>. QED BY <1>2, <1>3 DEF incount

\* The highest level of a non-empty array of quadrants is a level.
LEMMA InputSlots ==
  ASSUME NEW s \in Seq(Quadrants)
  PROVE  s \in Seq(Slots)
BY SeqMonotonic DEF Slots

(* The inductive invariant holds at the start. *)
LEMMA InitInv == Init => IInv
<1>. SUFFICES ASSUME Init PROVE IInv
  OBVIOUS
<1>1. call.input \in Inputs
  BY DEF Init
<1>2. call.input \in Seq(Quadrants) /\ call.input # << >>
  BY <1>1, InputsAssumption
<1>3. call.input \in Seq(Slots) /\ Len(call.input) \in Nat
  BY <1>2, InputSlots
<1>4. tree_maxlevel \in 0 .. QMAXLEVEL
  BY <1>2, HighestLevelType DEF Init
<1>5. TypeOK
  <2>1. quadrants \in Seq(Slots) /\ current \in 0 .. Len(quadrants) /\ restpos \in 0 .. incount
    BY <1>3 DEF Init, incount
  <2>2. list \in Seq(Entry)
    BY DEF Init
  <2>3. maxlevel \in 0 .. QMAXLEVEL /\ quadrants_per_level \in [0 .. QMAXLEVEL -> Nat]
    BY DEF Init
  <2>. QED BY <1>4, <2>1, <2>2, <2>3 DEF Init, TypeOK, Slots, Entry
<1>6. UnreadIntact
  BY DEF Init, UnreadIntact
<1>7. ScanInv /\ FirstInv /\ RoomInv
  BY DEF Init, ScanInv, FirstInv, RoomInv
<1>. QED BY <1>5, <1>6, <1>7 DEF IInv

\* Counting a quadrant keeps the statistics in their types.
LEMMA CountType ==
  ASSUME TypeOK, NEW q \in Quadrants, Count(q)
  PROVE  /\ maxlevel' \in 0 .. QMAXLEVEL
         /\ quadrants_per_level' \in [0 .. QMAXLEVEL -> Nat]
<1>1. Level(q) \in 0 .. QMAXLEVEL
  BY LevelType
<1>2. maxlevel' \in 0 .. QMAXLEVEL
  BY <1>1 DEF Count, TypeOK
<1>3. quadrants_per_level' \in [0 .. QMAXLEVEL -> Nat]
  <2>1. quadrants_per_level \in [0 .. QMAXLEVEL -> Nat]
    BY DEF TypeOK
  <2>2. quadrants_per_level[Level(q)] + 1 \in Nat
    BY <1>1, <2>1
  <2>3. quadrants_per_level' = [quadrants_per_level EXCEPT ![Level(q)] = @ + 1]
    BY DEF Count
  <2>. QED BY <2>1, <2>2, <2>3
<1>. QED BY <1>2, <1>3

\* In the scan the array is the input, so each element read is a quadrant.
LEMMA ScanElement ==
  ASSUME IInv, pc = "scan", current < incount
  PROVE  Element(current) \in Quadrants
<1>1. quadrants = call.input /\ call.input \in Seq(Quadrants)
  BY InputType DEF IInv, ScanInv
<1>2. current + 1 \in 1 .. Len(call.input)
  BY <1>1, InputType DEF IInv, TypeOK, incount
<1>. QED BY <1>1, <1>2 DEF Element

(* The inductive invariant is preserved by passing over a quadrant that stays. *)
LEMMA ScanKeepInv == IInv /\ ScanKeep => IInv'
<1>. SUFFICES ASSUME IInv, ScanKeep PROVE IInv'
  OBVIOUS
<1>. USE DEF IInv
<1>1. TypeOK'
  <2>1. current' \in 0 .. Len(quadrants')
    BY InputType DEF ScanKeep, ScanInv, TypeOK, incount
  <2>2. /\ maxlevel' \in 0 .. QMAXLEVEL
        /\ quadrants_per_level' \in [0 .. QMAXLEVEL -> Nat]
    BY ScanElement, CountType DEF ScanKeep
  <2>. QED BY <2>1, <2>2 DEF ScanKeep, TypeOK, incount
<1>2. UnreadIntact'
  BY DEF ScanKeep, UnreadIntact, incount
<1>3. ScanInv' /\ FirstInv' /\ RoomInv'
  BY DEF ScanKeep, ScanInv, FirstInv, RoomInv
<1>. QED BY <1>1, <1>2, <1>3

(* The inductive invariant is preserved by finding the first quadrant to split. *)
LEMMA ScanFoundInv == IInv /\ ScanFound => IInv'
<1>. SUFFICES ASSUME IInv, ScanFound PROVE IInv'
  OBVIOUS
<1>. USE DEF IInv
<1>. DEFINE e == [quad |-> Element(current), pad8 |-> FALSE]
<1>1. e \in Entry /\ list' = << e >>
  BY ScanElement DEF ScanFound, Entry
<1>2. list' \in Seq(Entry) /\ Len(list') = 1 /\ list'[1] = e
  BY <1>1
<1>3. restpos' \in 0 .. incount /\ incount' = incount
  BY InputType DEF ScanFound, TypeOK, incount
<1>4. TypeOK'
  BY <1>2, <1>3 DEF ScanFound, TypeOK, Entry, incount
<1>5. UnreadIntact'
  BY InputType DEF ScanFound, UnreadIntact, ScanInv, incount, TypeOK
<1>6. FirstInv'
  BY <1>2 DEF ScanFound, FirstInv, ScanInv, Wanted, incount
<1>7. RoomInv'
  <2>1. Len(quadrants) = incount /\ incount \in Nat /\ current \in Nat
    BY InputType DEF ScanFound, ScanInv, TypeOK, incount
  <2>. QED BY <1>2, <1>3, <2>1 DEF ScanFound, RoomInv
<1>8. ScanInv'
  BY DEF ScanFound, ScanInv
<1>. QED BY <1>4, <1>5, <1>6, <1>7, <1>8

(* The inductive invariant is preserved by a scan that finds nothing to split. *)
LEMMA ScanEndInv == IInv /\ ScanEnd => IInv'
BY DEF IInv, ScanEnd, TypeOK, UnreadIntact, ScanInv, FirstInv, RoomInv, incount

(* The inductive invariant is preserved by the end of the list. *)
LEMMA ListEndInv == IInv /\ ListEnd => IInv'
<1>. SUFFICES ASSUME IInv, ListEnd PROVE IInv'
  OBVIOUS
<1>1. firsttime = FALSE
  BY DEF IInv, FirstInv, ListEnd, TypeOK
<1>. QED
  BY <1>1 DEF IInv, ListEnd, TypeOK, UnreadIntact, ScanInv, FirstInv, RoomInv, incount

\* The element at the head of the list may be refined: it is not at the
\* deepest level.
LEMMA HeadRefinable ==
  ASSUME IInv, pc = "list", list # << >>, Refines(Head(list))
  PROVE  /\ Head(list) \in Entry /\ Head(list).quad \in Quadrants
         /\ Level(Head(list).quad) < QMAXLEVEL
<1>1. list \in Seq(Entry)
  BY DEF IInv, TypeOK, Entry
<1>2. Head(list) \in Entry /\ Head(list) = list[1]
  BY <1>1
<1>3. Wanted(Head(list).quad)
  BY <1>2 DEF Refines, IInv, FirstInv
<1>4. call.allowed_level \in 0 .. QMAXLEVEL
  BY DEF IInv, TypeOK
<1>5. Head(list).quad \in Quadrants
  BY <1>2 DEF Entry
<1>6. Level(Head(list).quad) \in 0 .. QMAXLEVEL
  BY <1>5, LevelType
<1>. QED BY <1>2, <1>3, <1>4, <1>5, <1>6 DEF Wanted

\* The children of a refinable quadrant are CHILDREN list elements.
LEMMA NewEntriesType ==
  ASSUME NEW q \in Quadrants, Level(q) < QMAXLEVEL
  PROVE  NewEntries(q) \in Seq(Entry) /\ Len(NewEntries(q)) = CHILDREN
<1>1. ASSUME NEW i \in 1 .. CHILDREN
      PROVE  [quad |-> Child(q, i - 1), pad8 |-> TRUE] \in Entry
  <2>1. i - 1 \in ChildIds
    BY DEF ChildIds
  <2>2. Child(q, i - 1) \in Quadrants
    BY <2>1, ChildType
  <2>. QED BY <2>2 DEF Entry
<1>2. NewEntries(q) \in [1 .. CHILDREN -> Entry]
  BY <1>1 DEF NewEntries
<1>. QED BY <1>2

\* Growing the array adds unwritten slots behind its elements.
LEMMA GrownProperties ==
  ASSUME NEW s \in Seq(Slots)
  PROVE  /\ Grown(s) \in Seq(Slots)
         /\ Len(Grown(s)) = Len(s) + (CHILDREN - 1)
         /\ \A k \in 1 .. Len(s) : Grown(s)[k] = s[k]
<1>. DEFINE t == [i \in 1 .. CHILDREN - 1 |-> NoQuadrant]
<1>1. t \in Seq(Slots) /\ Len(t) = CHILDREN - 1
  <2>1. t \in [1 .. CHILDREN - 1 -> Slots] /\ CHILDREN - 1 \in Nat
    BY DEF Slots
  <2>. QED BY <2>1
<1>. HIDE DEF t
<1>2. /\ s \o t \in Seq(Slots) /\ Len(s \o t) = Len(s) + Len(t)
      /\ \A k \in 1 .. Len(s) : (s \o t)[k] = s[k]
  BY <1>1
<1>3. Grown(s) = s \o t
  BY DEF Grown, t
<1>. QED BY <1>1, <1>2, <1>3

(* The inductive invariant is preserved by splitting the head of the list. *)
LEMMA SplitHeadInv == IInv /\ SplitHead => IInv'
<1>. SUFFICES ASSUME IInv, SplitHead PROVE IInv'
  OBVIOUS
<1>. DEFINE q == Head(list).quad
            new == NewEntries(q)
            rest == Tail(list)
<1>1. list \in Seq(Entry) /\ list # << >> /\ pc = "list"
  BY DEF IInv, TypeOK, Entry, SplitHead
<1>2. q \in Quadrants /\ Level(q) < QMAXLEVEL
  BY HeadRefinable DEF SplitHead
<1>3. new \in Seq(Entry) /\ Len(new) = CHILDREN
  BY <1>2, NewEntriesType
<1>4. rest \in Seq(Entry) /\ Len(rest) = Len(list) - 1 /\ Len(list) \in Nat \ {0}
  BY <1>1
<1>5. list' \in Seq(Entry) /\ Len(list') = Len(list) + (CHILDREN - 1)
  <2>1. list' = new \o rest
    BY DEF SplitHead
  <2>2. new \o rest \in Seq(Entry) /\ Len(new \o rest) = Len(new) + Len(rest)
    <3>. HIDE DEF new, rest
    <3>. QED BY <1>3, <1>4
  <2>3. list' \in Seq(Entry) /\ Len(list') = Len(new) + Len(rest)
    BY <2>1, <2>2
  <2>. HIDE DEF new, rest
  <2>. QED BY <1>3, <1>4, <2>3
<1>6. quadrants \in Seq(Slots) /\ Len(quadrants) \in Nat
  BY DEF IInv, TypeOK, Slots
<1>7. /\ quadrants' \in Seq(Slots) /\ Len(quadrants') = Len(quadrants) + (CHILDREN - 1)
      /\ \A k \in 1 .. Len(quadrants) : quadrants'[k] = quadrants[k]
  BY <1>6, GrownProperties DEF SplitHead
<1>8. /\ UNCHANGED << call, pc, current, restpos, maxlevel, quadrants_per_level, tree_maxlevel >>
      /\ firsttime' = FALSE /\ incount' = incount /\ incount \in Nat
  BY InputType DEF SplitHead, incount, IInv
<1>9. current \in 0 .. Len(quadrants) /\ restpos \in 0 .. incount
  BY DEF IInv, TypeOK
<1>10. Len(quadrants) >= incount
  <2>1. Len(quadrants) - current = Len(list) + (incount - restpos)
    BY <1>1 DEF IInv, RoomInv
  <2>2. firsttime => Len(quadrants) = incount
    BY DEF IInv, FirstInv
  <2>3. ~ firsttime => Len(list) + current >= restpos + (CHILDREN - 1)
    BY <1>1 DEF IInv, RoomInv
  <2>. QED BY <2>1, <2>2, <2>3, <1>4, <1>6, <1>8, <1>9 DEF IInv, TypeOK
<1>11. TypeOK'
  <2>1. current' \in 0 .. Len(quadrants')
    BY <1>6, <1>7, <1>8, <1>9
  <2>. QED BY <2>1, <1>5, <1>7, <1>8 DEF IInv, TypeOK, Slots, Entry
<1>12. UnreadIntact'
  <2>1. \A k \in restpos + 1 .. incount : k \in 1 .. Len(quadrants)
    BY <1>6, <1>8, <1>9, <1>10
  <2>. QED BY <2>1, <1>7, <1>8 DEF IInv, UnreadIntact
<1>13. ScanInv' /\ FirstInv'
  BY <1>1, <1>8 DEF ScanInv, FirstInv
<1>14. RoomInv'
  <2>1. Len(quadrants') - current' = Len(list') + (incount' - restpos')
    <3>1. Len(quadrants) - current = Len(list) + (incount - restpos)
      BY <1>1 DEF IInv, RoomInv
    <3>2. CHILDREN \in Nat
      BY ChildrenAssumption
    <3>3. current' = current /\ restpos' = restpos /\ incount' = incount
      BY <1>8
    <3>4. /\ Len(quadrants') = Len(quadrants) + (CHILDREN - 1)
          /\ Len(list') = Len(list) + (CHILDREN - 1)
      BY <1>5, <1>7
    <3>5. /\ Len(quadrants) \in Nat /\ Len(list) \in Nat
          /\ current \in Nat /\ restpos \in Nat /\ incount \in Nat
      BY <1>4, <1>6, <1>8, <1>9
    <3>. QED BY <3>1, <3>2, <3>3, <3>4, <3>5
  <2>2. Len(list') + current' >= restpos' + (CHILDREN - 1)
    <3>1. firsttime => Len(list) = 1 /\ restpos = current + 1
      BY DEF IInv, FirstInv
    <3>2. ~ firsttime => Len(list) + current >= restpos + (CHILDREN - 1)
      BY <1>1 DEF IInv, RoomInv
    <3>. QED BY <3>1, <3>2, <1>4, <1>5, <1>8, <1>9 DEF IInv, TypeOK
  <2>3. current' <= restpos' \/ restpos' = incount'
    BY <1>1, <1>8 DEF IInv, RoomInv
  <2>. QED BY <2>1, <2>2, <2>3 DEF RoomInv
<1>. QED BY <1>11, <1>12, <1>13, <1>14 DEF IInv

\* What is read is unread input, that is, quadrants.
LEMMA ReadEntriesType ==
  ASSUME IInv, NEW n \in Nat, restpos + n <= incount
  PROVE  /\ ReadEntries(n) \in Seq(Entry) /\ Len(ReadEntries(n)) = n
         /\ \A i \in 1 .. n : ReadEntries(n)[i] = [quad |-> call.input[restpos + i], pad8 |-> FALSE]
<1>1. call.input \in Seq(Quadrants) /\ incount = Len(call.input) /\ restpos \in Nat
  BY InputType DEF IInv, TypeOK, incount
<1>2. ASSUME NEW i \in 1 .. n
      PROVE  /\ quadrants[restpos + i] = call.input[restpos + i]
             /\ call.input[restpos + i] \in Quadrants
  <2>1. restpos + i \in restpos + 1 .. incount /\ restpos + i \in 1 .. Len(call.input)
    BY <1>1
  <2>. QED BY <2>1, <1>1 DEF IInv, UnreadIntact
<1>3. ReadEntries(n) \in [1 .. n -> Entry]
  BY <1>2 DEF ReadEntries, Entry
<1>4. ReadEntries(n) \in Seq(Entry) /\ Len(ReadEntries(n)) = n
  BY <1>3
<1>5. \A i \in 1 .. n : ReadEntries(n)[i] = [quad |-> call.input[restpos + i], pad8 |-> FALSE]
  BY <1>2 DEF ReadEntries
<1>. QED BY <1>4, <1>5

\* A batch stays inside the input, and it is not empty when room is needed.
LEMMA MoveCountType ==
  ASSUME IInv
  PROVE  /\ MoveCount \in Nat /\ restpos + MoveCount <= incount
         /\ (restpos < incount /\ current = restpos) => MoveCount > 0
BY InputType DEF IInv, TypeOK, MoveCount, incount

(* The inductive invariant is preserved by storing the head of the list, after making room if there is none. *)
LEMMA StoreHeadInv == IInv /\ StoreHead => IInv'
<1>. SUFFICES ASSUME IInv, StoreHead PROVE IInv'
  OBVIOUS
<1>. DEFINE q    == Head(list).quad
            rest == Tail(list)
            new  == ReadEntries(MoveCount)
<1>1. list \in Seq(Entry) /\ list # << >> /\ pc = "list" /\ ~ firsttime
  <2>1. list \in Seq(Entry)
    BY DEF IInv, TypeOK, Entry
  <2>2. ~ firsttime
    BY DEF StoreHead, Refines
  <2>. QED BY <2>1, <2>2 DEF StoreHead
<1>2. Head(list) \in Entry /\ q \in Quadrants
  <2>1. Head(list) \in Entry
    BY <1>1
  <2>. QED BY <2>1 DEF Entry
<1>3. rest \in Seq(Entry) /\ Len(rest) = Len(list) - 1 /\ Len(list) \in Nat \ {0}
  BY <1>1
<1>4. /\ MoveCount \in Nat /\ restpos + MoveCount <= incount
      /\ (restpos < incount /\ current = restpos) => MoveCount > 0
  BY MoveCountType
<1>5. new \in Seq(Entry) /\ Len(new) = MoveCount
  BY <1>4, ReadEntriesType
<1>6. list' \in Seq(Entry) /\ Len(list') = Len(list) - 1 + MoveCount
  <2>1. list' = rest \o new
    BY DEF StoreHead
  <2>2. rest \o new \in Seq(Entry) /\ Len(rest \o new) = Len(rest) + Len(new)
    <3>. HIDE DEF new, rest
    <3>. QED BY <1>3, <1>5
  <2>3. list' \in Seq(Entry) /\ Len(list') = Len(rest) + Len(new)
    BY <2>1, <2>2
  <2>. HIDE DEF new, rest
  <2>. QED BY <1>3, <1>4, <1>5, <2>3
<1>7. /\ quadrants \in Seq(Slots) /\ Len(quadrants) \in Nat /\ incount \in Nat
      /\ current \in 0 .. Len(quadrants) /\ restpos \in 0 .. incount
  BY InputType DEF IInv, TypeOK, Slots
<1>8. /\ Len(quadrants) - current = Len(list) + (incount - restpos)
      /\ Len(list) + current >= restpos + (CHILDREN - 1)
      /\ current <= restpos \/ restpos = incount
  BY <1>1 DEF IInv, RoomInv
<1>9. current + 1 \in 1 .. Len(quadrants)
  BY <1>3, <1>7, <1>8
<1>10. /\ quadrants' \in Seq(Slots) /\ Len(quadrants') = Len(quadrants)
       /\ \A k \in 1 .. Len(quadrants) : k # current + 1 => quadrants'[k] = quadrants[k]
  <2>1. q \in Slots
    BY <1>2 DEF Slots
  <2>2. quadrants' = [quadrants EXCEPT ![current + 1] = q]
    BY DEF StoreHead
  <2>. HIDE DEF q
  <2>. QED BY <1>7, <1>9, <2>1, <2>2
<1>11. /\ UNCHANGED << call, pc, firsttime, tree_maxlevel >> /\ incount' = incount
       /\ restpos' = restpos + MoveCount /\ current' = current + 1
  BY DEF StoreHead, incount
<1>12. TypeOK'
  <2>1. current' \in 0 .. Len(quadrants') /\ restpos' \in 0 .. incount'
    BY <1>4, <1>7, <1>9, <1>10, <1>11
  <2>2. /\ maxlevel' \in 0 .. QMAXLEVEL
        /\ quadrants_per_level' \in [0 .. QMAXLEVEL -> Nat]
    BY <1>2, CountType DEF StoreHead, IInv
  <2>. QED BY <2>1, <2>2, <1>6, <1>10, <1>11 DEF IInv, TypeOK, Slots, Entry
<1>13. UnreadIntact'
  <2>. SUFFICES ASSUME NEW k \in restpos' + 1 .. incount
                PROVE  quadrants'[k] = call.input[k]
    BY <1>11 DEF UnreadIntact
  <2>1. k \in restpos + 1 .. incount /\ k # current + 1 /\ k \in 1 .. Len(quadrants)
    BY <1>3, <1>4, <1>7, <1>8, <1>11
  <2>. QED BY <2>1, <1>10 DEF IInv, UnreadIntact
<1>14. ScanInv' /\ FirstInv'
  BY <1>1, <1>11 DEF ScanInv, FirstInv
<1>15. RoomInv'
  <2>. HIDE DEF q, rest, new
  <2>1. Len(quadrants') - current' = Len(list') + (incount' - restpos')
    <3>1. Len(list) - 1 + MoveCount + (incount - (restpos + MoveCount)) = Len(list) + (incount - restpos) - 1
      BY <1>3, <1>4, <1>7
    <3>2. Len(quadrants) - (current + 1) = Len(quadrants) - current - 1
      BY <1>7
    <3>3. Len(quadrants') - current' = Len(quadrants) - (current + 1)
      BY <1>10, <1>11
    <3>4. Len(list') + (incount' - restpos')
            = Len(list) - 1 + MoveCount + (incount - (restpos + MoveCount))
      BY <1>6, <1>11
    <3>5. Len(quadrants) - current - 1 = Len(list) + (incount - restpos) - 1
      <4>1. Len(quadrants) - current = Len(list) + (incount - restpos)
        BY <1>8
      <4>2. /\ Len(quadrants) \in Nat /\ current \in Nat /\ Len(list) \in Nat
            /\ incount \in Nat /\ restpos \in Nat
        BY <1>3, <1>7
      <4>. QED BY <4>1, <4>2
    <3>. QED BY <3>1, <3>2, <3>3, <3>4, <3>5
  <2>2. Len(list') + current' >= restpos' + (CHILDREN - 1)
    BY <1>3, <1>4, <1>6, <1>7, <1>8, <1>11
  <2>3. current' <= restpos' \/ restpos' = incount'
    BY <1>4, <1>7, <1>8, <1>11
  <2>. QED BY <2>1, <2>2, <2>3 DEF RoomInv
<1>. QED BY <1>12, <1>13, <1>14, <1>15 DEF IInv

(* The inductive invariant is preserved by every step. *)
LEMMA NextInv == IInv /\ [Next]_vars => IInv'
<1>. SUFFICES ASSUME IInv, [Next]_vars PROVE IInv'
  OBVIOUS
<1>1. CASE ScanKeep  BY <1>1, ScanKeepInv
<1>2. CASE ScanFound BY <1>2, ScanFoundInv
<1>3. CASE ScanEnd   BY <1>3, ScanEndInv
<1>4. CASE SplitHead BY <1>4, SplitHeadInv
<1>5. CASE StoreHead BY <1>5, StoreHeadInv
<1>6. CASE ListEnd   BY <1>6, ListEndInv
<1>7. CASE UNCHANGED vars
  BY <1>7 DEF vars, IInv, TypeOK, UnreadIntact, ScanInv, FirstInv, RoomInv,
             incount, Wanted
<1>. QED BY <1>1, <1>2, <1>3, <1>4, <1>5, <1>6, <1>7 DEF Next

\* The inductive invariant of the loop in p4est_refine_ext holds throughout.
THEOREM Invariance == Spec => []IInv
BY InitInv, NextInv, PTL DEF Spec

\* The loop variables keep their types: positions inside the array, only
\* quadrants on the list, never an unwritten slot of the resized array.
THEOREM TypeCorrect == Spec => []TypeOK
<1>1. IInv => TypeOK
  BY DEF IInv
<1>. QED BY <1>1, Invariance, PTL

\* The writes at current never overtake the reads at restpos.
THEOREM NoOverwrite == Spec => []UnreadIntact
<1>1. IInv => UnreadIntact
  BY DEF IInv
<1>. QED BY <1>1, Invariance, PTL

\* When the list runs empty, all was read and the last slot was written.
LEMMA ListEmpty ==
  ASSUME IInv, pc = "list", list = << >>
  PROVE  restpos = incount /\ current = Len(quadrants) /\ current > 0
<1>1. Len(list) = 0
  OBVIOUS
<1>2. ~ firsttime
  BY <1>1 DEF IInv, FirstInv
<1>3. /\ Len(quadrants) - current = Len(list) + (incount - restpos)
      /\ Len(list) + current >= restpos + (CHILDREN - 1)
      /\ current <= restpos \/ restpos = incount
  BY <1>2 DEF IInv, RoomInv
<1>4. /\ incount \in Nat /\ restpos \in 0 .. incount
      /\ Len(quadrants) \in Nat /\ current \in 0 .. Len(quadrants)
  BY InputType DEF IInv, TypeOK
<1>. QED BY <1>1, <1>3, <1>4

\* The assertions after the loop hold: all input was read, and the grown array
\* is filled exactly.
THEOREM LoopEnd == Spec => []LoopEndAssertions
<1>1. IInv => LoopEndAssertions
  BY ListEmpty DEF LoopEndAssertions
<1>. QED BY <1>1, Invariance, PTL

(***************************************************************************)
(* RefineLoop implements RefineAbs: the in-place loop of p4est_refine_ext  *)
(* replaces or keeps the pending quadrants strictly in their order.        *)
(***************************************************************************)
\* the part of the input that starts at position n, as list entries
InputFrom(s, n) ==
  [i \in 1 .. Len(s) - n |-> [quad |-> s[n + i], pad8 |-> FALSE]]

\* A suffix of the input is a sequence of entries.
LEMMA InputFromType ==
  ASSUME TypeOK, NEW n \in 0 .. incount
  PROVE  /\ InputFrom(call.input, n) \in Seq(Entry) /\ Len(InputFrom(call.input, n)) = incount - n
         /\ \A i \in 1 .. incount - n :
              InputFrom(call.input, n)[i] = [quad |-> call.input[n + i], pad8 |-> FALSE]
<1>1. call.input \in Seq(Quadrants) /\ incount = Len(call.input) /\ incount \in Nat
  BY InputType DEF incount
<1>2. ASSUME NEW i \in 1 .. incount - n
      PROVE  call.input[n + i] \in Quadrants
  BY <1>1
<1>3. InputFrom(call.input, n) \in [1 .. incount - n -> Entry] /\ incount - n \in Nat
  BY <1>1, <1>2 DEF InputFrom, incount, Entry
<1>4. InputFrom(call.input, n) \in Seq(Entry) /\ Len(InputFrom(call.input, n)) = incount - n
  BY <1>3
<1>5. \A i \in 1 .. incount - n :
        InputFrom(call.input, n)[i] = [quad |-> call.input[n + i], pad8 |-> FALSE]
  BY DEF InputFrom, incount
<1>. QED BY <1>4, <1>5

\* A suffix starts with what is read from it.
LEMMA InputFromSplit ==
  ASSUME IInv, NEW m \in Nat, restpos + m <= incount
  PROVE  InputFrom(call.input, restpos) = ReadEntries(m) \o InputFrom(call.input, restpos + m)
<1>1. incount \in Nat /\ restpos \in 0 .. incount /\ restpos + m \in 0 .. incount
  BY InputType DEF IInv, TypeOK
<1>2. /\ InputFrom(call.input, restpos) \in Seq(Entry) /\ Len(InputFrom(call.input, restpos)) = incount - restpos
      /\ \A i \in 1 .. incount - restpos :
           InputFrom(call.input, restpos)[i] = [quad |-> call.input[restpos + i], pad8 |-> FALSE]
  BY <1>1, InputFromType DEF IInv
<1>3. /\ InputFrom(call.input, restpos + m) \in Seq(Entry)
      /\ Len(InputFrom(call.input, restpos + m)) = incount - (restpos + m)
      /\ \A i \in 1 .. incount - (restpos + m) :
           InputFrom(call.input, restpos + m)[i] = [quad |-> call.input[restpos + m + i], pad8 |-> FALSE]
  BY <1>1, InputFromType DEF IInv
<1>4. /\ ReadEntries(m) \in Seq(Entry) /\ Len(ReadEntries(m)) = m
      /\ \A i \in 1 .. m : ReadEntries(m)[i] = [quad |-> call.input[restpos + i], pad8 |-> FALSE]
  BY ReadEntriesType
<1>. DEFINE l == InputFrom(call.input, restpos)
            a == ReadEntries(m)
            b == InputFrom(call.input, restpos + m)
<1>5. Len(l) = Len(a) + Len(b)
  BY <1>1, <1>2, <1>3, <1>4
<1>6. ASSUME NEW i \in 1 .. Len(a) PROVE l[i] = a[i]
  <2>1. i \in 1 .. m /\ i \in 1 .. incount - restpos
    BY <1>1, <1>4
  <2>. QED BY <2>1, <1>2, <1>4
<1>7. ASSUME NEW i \in 1 .. Len(b) PROVE l[Len(a) + i] = b[i]
  <2>1. i \in 1 .. incount - (restpos + m) /\ m + i \in 1 .. incount - restpos
        /\ restpos + m + i = restpos + (m + i) /\ Len(a) + i = m + i
    BY <1>1, <1>3, <1>4
  <2>2. l[m + i] = [quad |-> call.input[restpos + (m + i)], pad8 |-> FALSE]
    BY <2>1, <1>2
  <2>3. b[i] = [quad |-> call.input[restpos + m + i], pad8 |-> FALSE]
    BY <2>1, <1>3
  <2>. QED BY <2>1, <2>2, <2>3
<1>. HIDE DEF l, a, b
<1>8. l = a \o b
  <2>1. l \in Seq(Entry) /\ a \in Seq(Entry) /\ b \in Seq(Entry)
    BY <1>2, <1>3, <1>4 DEF l, a, b
  <2>. QED BY <2>1, <1>5, <1>6, <1>7, ConcatEqual
<1>. QED BY <1>8 DEF l, a, b

\* What is pending, by phase of the loop.
LEMMA TodoForm ==
  IInv => /\ pc = "scan" => Todo = InputFrom(call.input, current) /\ current \in 0 .. incount
          /\ pc = "list" => Todo = list \o InputFrom(call.input, restpos)
          /\ restpos \in 0 .. incount /\ list \in Seq(Entry)
<1>. SUFFICES ASSUME IInv
              PROVE  /\ pc = "scan" => Todo = InputFrom(call.input, current) /\ current \in 0 .. incount
                     /\ pc = "list" => Todo = list \o InputFrom(call.input, restpos)
                     /\ restpos \in 0 .. incount /\ list \in Seq(Entry)
  OBVIOUS
<1>1. incount \in Nat /\ restpos \in 0 .. incount /\ current \in 0 .. Len(quadrants)
      /\ list \in Seq(Entry) /\ Len(quadrants) \in Nat
  BY InputType DEF IInv, TypeOK, Entry
<1>2. Unread = InputFrom(call.input, ReadFrom)
  BY DEF Unread, InputFrom, incount
<1>3. ASSUME pc = "scan" PROVE Todo = InputFrom(call.input, current) /\ current \in 0 .. incount
  <2>1. ReadFrom = current /\ list = << >> /\ current \in 0 .. incount
    BY <1>1, <1>3 DEF ReadFrom, IInv, ScanInv, incount
  <2>2. InputFrom(call.input, current) \in Seq(Entry)
    BY <2>1, InputFromType DEF IInv
  <2>3. << >> \o InputFrom(call.input, current) = InputFrom(call.input, current)
    <3>. DEFINE t == InputFrom(call.input, current)
    <3>. HIDE DEF t
    <3>1. t \in Seq(Entry)
      BY <2>2 DEF t
    <3>2. << >> \o t = t
      BY <3>1, ConcatEmptySeq
    <3>. QED BY <3>2 DEF t
  <2>. QED BY <2>1, <2>3, <1>2 DEF Todo
<1>4. ASSUME pc = "list" PROVE Todo = list \o InputFrom(call.input, restpos)
  <2>1. CASE current <= restpos
    <3>1. ReadFrom = restpos
      BY <1>1, <2>1 DEF ReadFrom
    <3>. QED BY <3>1, <1>2 DEF Todo
  <2>2. CASE ~ (current <= restpos)
    <3>1. restpos = incount /\ ReadFrom = current
      BY <1>1, <1>4, <2>2 DEF IInv, RoomInv, ReadFrom
    <3>2. 1 .. incount - current = {} /\ 1 .. incount - restpos = {}
      BY <1>1, <2>2, <3>1
    <3>3. InputFrom(call.input, current) = InputFrom(call.input, restpos)
      <4>. DEFINE f(n) == [quad |-> call.input[current + n], pad8 |-> FALSE]
                  g(n) == [quad |-> call.input[restpos + n], pad8 |-> FALSE]
      <4>. HIDE DEF f, g
      <4>1. [i \in {} |-> f(i)] = [i \in {} |-> g(i)]
        OBVIOUS
      <4>2. /\ InputFrom(call.input, current) = [i \in 1 .. incount - current |-> f(i)]
            /\ InputFrom(call.input, restpos) = [i \in 1 .. incount - restpos |-> g(i)]
        BY DEF InputFrom, incount, f, g
      <4>. QED BY <4>1, <4>2, <3>2
    <3>. QED BY <3>1, <3>3, <1>2 DEF Todo
  <2>. QED BY <2>1, <2>2
<1>. QED BY <1>1, <1>3, <1>4

PhaseTodo ==
  /\ pc = "scan" => Todo = InputFrom(call.input, current)
  /\ pc = "list" => Todo = list \o InputFrom(call.input, restpos)

(* After a step, too, the work left is what is in hand, in the list and not read. *)
LEMMA TodoFormNext ==
  IInv' => /\ pc' = "scan" => Todo' = InputFrom(call'.input, current')
           /\ pc' = "list" => Todo' = list' \o InputFrom(call'.input, restpos')
<1>1. IInv => PhaseTodo
  BY TodoForm DEF PhaseTodo
<1>2. IInv' => PhaseTodo'
  BY <1>1, PTL
<1>. QED BY <1>2 DEF PhaseTodo

\* Both levels ask the callback the same question.
LEMMA WantedSame == \A q : Abs!Wanted(q) <=> Wanted(q)
BY DEF Abs!Wanted, Wanted, Abs!Level, Level

\* The abstract loop starts with the whole input pending.
LEMMA InitImpl == Init => Abs!Init
<1>. SUFFICES ASSUME Init PROVE Abs!Init
  OBVIOUS
<1>1. IInv
  BY InitInv
<1>2. Todo = InputFrom(call.input, 0)
  BY <1>1, TodoForm DEF Init
<1>3. InputFrom(call.input, 0) = Abs!Entries(call.input, FALSE)
  BY <1>1, InputType DEF InputFrom, Abs!Entries, incount, IInv
<1>4. Out = << >>
  BY <1>1, SubSeqEmpty DEF Out, Init, IInv, TypeOK
<1>. QED BY <1>2, <1>3, <1>4 DEF Abs!Init

\* The input from position n starts with the element at n.
LEMMA InputFromHead ==
  ASSUME TypeOK, NEW n \in Nat, n < incount
  PROVE  /\ InputFrom(call.input, n) # << >>
         /\ Head(InputFrom(call.input, n)) = [quad |-> call.input[n + 1], pad8 |-> FALSE]
         /\ Tail(InputFrom(call.input, n)) = InputFrom(call.input, n + 1)
<1>. DEFINE l == InputFrom(call.input, n)
            r == InputFrom(call.input, n + 1)
<1>1. incount \in Nat /\ n \in 0 .. incount /\ n + 1 \in 0 .. incount
  BY InputType
<1>2. /\ l \in Seq(Entry) /\ Len(l) = incount - n
      /\ \A i \in 1 .. incount - n : l[i] = [quad |-> call.input[n + i], pad8 |-> FALSE]
  BY <1>1, InputFromType
<1>3. /\ r \in Seq(Entry) /\ Len(r) = incount - (n + 1)
      /\ \A i \in 1 .. incount - (n + 1) : r[i] = [quad |-> call.input[n + 1 + i], pad8 |-> FALSE]
  BY <1>1, InputFromType
<1>. HIDE DEF l, r
<1>4. l # << >> /\ Len(l) \in Nat \ {0} /\ Head(l) = l[1]
  BY <1>1, <1>2
<1>5. l[1] = [quad |-> call.input[n + 1], pad8 |-> FALSE]
  <2>1. 1 \in 1 .. incount - n
    BY <1>1
  <2>. QED BY <2>1, <1>2
<1>6. /\ Tail(l) \in Seq(Entry) /\ Len(Tail(l)) = Len(l) - 1
      /\ \A i \in 1 .. Len(l) - 1 : Tail(l)[i] = l[i + 1]
  BY <1>2, <1>4
<1>7. ASSUME NEW i \in 1 .. Len(r) PROVE Tail(l)[i] = r[i]
  <2>1. i \in 1 .. Len(l) - 1 /\ i + 1 \in 1 .. incount - n /\ i \in 1 .. incount - (n + 1)
        /\ n + 1 + i = n + (i + 1)
    BY <1>1, <1>2, <1>3
  <2>. QED BY <2>1, <1>2, <1>3, <1>6
<1>8. Tail(l) = r
  BY <1>1, <1>2, <1>3, <1>6, <1>7, SeqEqual
<1>. QED BY <1>4, <1>5, <1>8 DEF l, r

(* Passing a quadrant that stays as it is keeps it in the specification. *)
LEMMA ScanKeepImpl == IInv /\ ScanKeep => Abs!Keep
<1>. SUFFICES ASSUME IInv, ScanKeep PROVE Abs!Keep
  OBVIOUS
<1>. DEFINE q == call.input[current + 1]
<1>1. IInv'
  BY ScanKeepInv
<1>2. /\ pc = "scan" /\ pc' = "scan" /\ call' = call /\ quadrants' = quadrants
      /\ current' = current + 1 /\ current < incount /\ quadrants = call.input
  BY DEF ScanKeep, IInv, ScanInv
<1>3. Todo = InputFrom(call.input, current) /\ current \in Nat
  BY <1>2, TodoForm
<1>4. Todo' = InputFrom(call.input, current + 1)
  <2>1. pc' = "scan" => Todo' = InputFrom(call'.input, current')
    BY <1>1, TodoFormNext
  <2>. QED BY <2>1, <1>2 DEF InputFrom, incount
<1>5. /\ Todo # << >> /\ Tail(Todo) = Todo'
      /\ Head(Todo) = [quad |-> q, pad8 |-> FALSE]
  BY <1>2, <1>3, <1>4, InputFromHead DEF IInv
<1>6. ~ Abs!Refines(Head(Todo))
  BY <1>2, <1>5, WantedSame DEF ScanKeep, Element, Abs!Refines
<1>7. Out' = Append(Out, q)
  <2>1. quadrants \in Seq(Slots) /\ current < Len(quadrants) /\ current \in Nat
    BY <1>2, <1>3 DEF IInv, TypeOK, Slots, incount
  <2>2. SubSeq(quadrants, 1, current + 1) = Append(SubSeq(quadrants, 1, current), quadrants[current + 1])
    BY <2>1, PrefixAppend
  <2>. QED BY <2>2, <1>2 DEF Out
<1>. QED BY <1>2, <1>5, <1>6, <1>7 DEF Abs!Keep

(* Finding the first quadrant to split only changes the representation. *)
LEMMA ScanFoundImpl == IInv /\ ScanFound => UNCHANGED Abs!vars
<1>. SUFFICES ASSUME IInv, ScanFound PROVE UNCHANGED Abs!vars
  OBVIOUS
<1>. DEFINE e == [quad |-> Element(current), pad8 |-> FALSE]
<1>1. IInv'
  BY ScanFoundInv
<1>2. /\ pc = "scan" /\ pc' = "list" /\ call' = call /\ quadrants' = quadrants
      /\ current' = current /\ current < incount /\ quadrants = call.input
      /\ list' = << e >> /\ restpos' = current + 1
  BY DEF ScanFound, IInv, ScanInv
<1>3. Todo = InputFrom(call.input, current) /\ current \in Nat
  BY <1>2, TodoForm
<1>4. Todo' = << e >> \o InputFrom(call.input, current + 1)
  <2>1. pc' = "list" => Todo' = list' \o InputFrom(call'.input, restpos')
    BY <1>1, TodoFormNext
  <2>2. InputFrom(call.input, restpos)' = InputFrom(call.input, current + 1)
    BY <1>2 DEF InputFrom, incount
  <2>. QED BY <2>1, <2>2, <1>2
<1>5. Todo = << e >> \o InputFrom(call.input, current + 1)
  <2>. DEFINE l == InputFrom(call.input, current)
              b == InputFrom(call.input, current + 1)
  <2>1. /\ l # << >> /\ Head(l) = e /\ Tail(l) = b
    BY <1>2, <1>3, InputFromHead DEF IInv, Element
  <2>2. l \in Seq(Entry)
    <3>1. current \in 0 .. incount
      BY <1>2, TodoForm
    <3>. QED BY <3>1, InputFromType DEF IInv
  <2>. HIDE DEF l, b
  <2>3. l = << Head(l) >> \o Tail(l)
    BY <2>1, <2>2, HeadTailProperties
  <2>. QED BY <2>1, <2>3, <1>3 DEF l, b
<1>. QED BY <1>2, <1>4, <1>5 DEF Abs!vars, Out

(* Reaching the end of the array or of the list changes neither work nor result. *)
LEMMA EndImpl == (ScanEnd \/ ListEnd \/ UNCHANGED vars) => UNCHANGED Abs!vars
BY DEF ScanEnd, ListEnd, vars, Abs!vars, Todo, Out, Unread, ReadFrom, incount

\* Both levels make the same list elements of a split quadrant.
LEMMA NewEntriesSame ==
  ASSUME NEW q
  PROVE  NewEntries(q) = Abs!Entries(Abs!Children(q), TRUE)
<1>. DEFINE c == [i \in 1 .. CHILDREN |-> Child(q, i - 1)]
<1>1. Abs!Children(q) = c
  BY DEF Abs!Children, Abs!Child, Child
<1>2. CHILDREN \in Nat /\ Len(c) = CHILDREN /\ \A i \in 1 .. CHILDREN : c[i] = Child(q, i - 1)
  <2>1. \A i \in 1 .. CHILDREN : c[i] = Child(q, i - 1)
    OBVIOUS
  <2>. DEFINE C == { Child(q, i - 1) : i \in 1 .. CHILDREN }
  <2>2. c \in [1 .. CHILDREN -> C]
    OBVIOUS
  <2>. HIDE DEF c, C
  <2>3. c \in Seq(C) /\ Len(c) = CHILDREN
    BY <2>2
  <2>. QED BY <2>1, <2>3
<1>. HIDE DEF c
<1>3. Abs!Entries(c, TRUE) = [i \in 1 .. CHILDREN |-> [quad |-> Child(q, i - 1), pad8 |-> TRUE]]
  BY <1>2 DEF Abs!Entries
<1>. QED BY <1>1, <1>3 DEF NewEntries

(* Splitting the head of the list splits the next quadrant of the specification. *)
LEMMA SplitHeadImpl == IInv /\ SplitHead => Abs!Split
<1>. SUFFICES ASSUME IInv, SplitHead PROVE Abs!Split
  OBVIOUS
<1>. DEFINE rem == InputFrom(call.input, restpos)
            new == NewEntries(Head(list).quad)
            rest == Tail(list)
<1>1. IInv'
  BY SplitHeadInv
<1>2. /\ pc = "list" /\ pc' = "list" /\ call' = call /\ current' = current /\ restpos' = restpos
      /\ list # << >> /\ list' = new \o rest /\ quadrants' = Grown(quadrants)
      /\ Refines(Head(list))
  BY DEF SplitHead
<1>3. Todo = list \o rem /\ list \in Seq(Entry)
  BY <1>2, TodoForm
<1>4. rem \in Seq(Entry)
  BY TodoForm, InputFromType DEF IInv
<1>5. Todo' = (new \o rest) \o rem
  BY <1>1, <1>2, TodoFormNext
<1>6. new \in Seq(Entry) /\ rest \in Seq(Entry)
  <2>1. new \in Seq(Entry)
    BY <1>2, HeadRefinable, NewEntriesType
  <2>2. rest \in Seq(Entry)
    BY <1>2, <1>3
  <2>. QED BY <2>1, <2>2
<1>7. Todo # << >> /\ Head(Todo) = Head(list) /\ Tail(Todo) = rest \o rem
  <2>. HIDE DEF rem
  <2>. QED BY <1>2, <1>3, <1>4, HeadTailConcat
<1>8. Todo' = new \o Tail(Todo)
  <2>. HIDE DEF new, rest, rem
  <2>1. (new \o rest) \o rem = new \o (rest \o rem)
    BY <1>4, <1>6, ConcatAssociative
  <2>. QED BY <2>1, <1>5, <1>7
<1>9. Abs!Refines(Head(Todo))
  <2>1. Head(list) = list[1] /\ Head(list) \in Entry
    BY <1>2, <1>3
  <2>2. CASE firsttime
    <3>1. list[1].pad8 = FALSE /\ Wanted(list[1].quad)
      BY <2>2 DEF IInv, FirstInv
    <3>. QED BY <3>1, <2>1, <1>7, WantedSame DEF Abs!Refines
  <2>3. CASE ~ firsttime
    BY <2>3, <1>2, <1>7, WantedSame DEF Abs!Refines, Refines
  <2>. QED BY <2>2, <2>3
<1>10. new = Abs!Entries(Abs!Children(Head(Todo).quad), TRUE)
  BY <1>7, NewEntriesSame
<1>11. Out' = Out
  <2>1. /\ quadrants \in Seq(Slots) /\ current \in Nat /\ current <= Len(quadrants)
        /\ Len(quadrants) \in Nat
    BY DEF IInv, TypeOK, Slots
  <2>2. /\ Grown(quadrants) \in Seq(Slots) /\ Len(Grown(quadrants)) = Len(quadrants) + (CHILDREN - 1)
        /\ \A k \in 1 .. Len(quadrants) : Grown(quadrants)[k] = quadrants[k]
    BY <2>1, GrownProperties
  <2>3. current <= Len(Grown(quadrants)) /\ \A i \in 1 .. current : quadrants[i] = Grown(quadrants)[i]
    <3>1. Len(Grown(quadrants)) >= Len(quadrants)
      BY <2>1, <2>2
    <3>2. \A i \in 1 .. current : i \in 1 .. Len(quadrants)
      BY <2>1
    <3>. QED BY <3>1, <3>2, <2>1, <2>2
  <2>4. SubSeq(quadrants, 1, current) = SubSeq(Grown(quadrants), 1, current)
    BY <2>1, <2>2, <2>3, PrefixSame
  <2>. QED BY <2>4, <1>2 DEF Out
<1>. QED BY <1>2, <1>7, <1>8, <1>9, <1>10, <1>11 DEF Abs!Split

(* Storing the head of the list keeps the next quadrant of the specification. *)
LEMMA StoreHeadImpl == IInv /\ StoreHead => Abs!Keep
<1>. SUFFICES ASSUME IInv, StoreHead PROVE Abs!Keep
  OBVIOUS
<1>. DEFINE rem  == InputFrom(call.input, restpos)
            rem2 == InputFrom(call.input, restpos + MoveCount)
            read == ReadEntries(MoveCount)
            rest == Tail(list)
            q    == Head(list).quad
<1>1. IInv'
  BY StoreHeadInv
<1>2. /\ pc = "list" /\ pc' = "list" /\ call' = call /\ current' = current + 1
      /\ restpos' = restpos + MoveCount
      /\ list # << >> /\ list' = rest \o read /\ ~ Refines(Head(list))
      /\ quadrants' = [quadrants EXCEPT ![current + 1] = q]
  BY DEF StoreHead
<1>3. Todo = list \o rem /\ list \in Seq(Entry)
  BY <1>2, TodoForm
<1>4. MoveCount \in Nat /\ restpos + MoveCount <= incount /\ restpos \in 0 .. incount
  BY MoveCountType DEF IInv, TypeOK
<1>5. rem \in Seq(Entry) /\ rem2 \in Seq(Entry) /\ read \in Seq(Entry) /\ rest \in Seq(Entry)
  <2>1. restpos + MoveCount \in 0 .. incount
    BY <1>4, InputType DEF IInv
  <2>2. rem \in Seq(Entry) /\ rem2 \in Seq(Entry)
    BY <2>1, <1>4, InputFromType DEF IInv
  <2>3. read \in Seq(Entry)
    BY <1>4, ReadEntriesType
  <2>4. rest \in Seq(Entry)
    BY <1>2, <1>3
  <2>. QED BY <2>2, <2>3, <2>4
<1>6. rem = read \o rem2
  BY <1>4, InputFromSplit
<1>7. Todo' = (rest \o read) \o rem2
  BY <1>1, <1>2, TodoFormNext
<1>8. Todo # << >> /\ Head(Todo) = Head(list) /\ Tail(Todo) = rest \o rem
  <2>. HIDE DEF rem
  <2>. QED BY <1>2, <1>3, <1>5, HeadTailConcat
<1>9. Todo' = Tail(Todo)
  <2>. HIDE DEF rem, rem2, read, rest
  <2>1. (rest \o read) \o rem2 = rest \o (read \o rem2)
    <3>1. rest \in Seq(Entry) /\ read \in Seq(Entry) /\ rem2 \in Seq(Entry)
      BY <1>5
    <3>. QED BY <3>1, ConcatAssociative
  <2>. QED BY <2>1, <1>6, <1>7, <1>8
<1>10. ~ Abs!Refines(Head(Todo))
  BY <1>2, <1>8, WantedSame DEF Abs!Refines, Refines
<1>11. Out' = Append(Out, q)
  <2>1. /\ quadrants \in Seq(Slots) /\ Len(quadrants) \in Nat /\ current \in Nat
    BY DEF IInv, TypeOK, Slots
  <2>2. quadrants' \in Seq(Slots) /\ current + 1 <= Len(quadrants')
    <3>1. quadrants' \in Seq(Slots) /\ current' <= Len(quadrants')
      BY <1>1 DEF IInv, TypeOK, Slots
    <3>. QED BY <3>1, <1>2
  <2>3. q \in Slots
    <3>1. Head(list) \in Entry
      BY <1>2, <1>3
    <3>. QED BY <3>1 DEF Entry, Slots
  <2>. HIDE DEF q
  <2>4. /\ Len(quadrants') = Len(quadrants)
        /\ \A i \in 1 .. current : quadrants[i] = quadrants'[i]
    BY <1>2, <2>1, <2>3
  <2>5. quadrants'[current + 1] = q
    BY <1>2, <2>1, <2>2, <2>3, <2>4
  <2>6. SubSeq(quadrants', 1, current + 1)
          = Append(SubSeq(quadrants', 1, current), quadrants'[current + 1])
    BY <2>1, <2>2, PrefixAppend
  <2>7. SubSeq(quadrants', 1, current) = SubSeq(quadrants, 1, current)
    BY <2>1, <2>2, <2>4, PrefixSame
  <2>. QED BY <1>2, <2>5, <2>6, <2>7 DEF Out
<1>. QED BY <1>2, <1>8, <1>9, <1>10, <1>11 DEF Abs!Keep

\* The in-place refinement loop implements the abstract one: whatever the
\* array, the callback and the batch size, quadrants are split and kept in
\* exactly the order of the specification.
THEOREM Refinement == Spec => ImplementsAbs
<1>1. IInv /\ [Next]_vars => [Abs!Next]_(Abs!vars)
  BY ScanKeepImpl, ScanFoundImpl, SplitHeadImpl, StoreHeadImpl, EndImpl
     DEF Next, Abs!Next
<1>. QED BY <1>1, InitImpl, Invariance, PTL DEF Spec, ImplementsAbs, Abs!Spec

(***************************************************************************)
(* The result.                                                             *)
(*                                                                         *)
(* What is finished followed by what is pending is, at every moment, a     *)
(* sequence of quadrants in order, and what will become of it is the       *)
(* result.  An entry that is split is replaced by CHILDREN entries of      *)
(* which together becomes the same, one that is kept becomes itself.       *)
(***************************************************************************)
\* Wanted in a call with the arguments p.
Wants(p, q) == q \in p.refine_fn /\ Level(q) < p.allowed_level

\* The quadrants that an entry of the list will become.
ResultOf(p, e) ==
  { q \in Quadrants :
      /\ Below(e.quad, q)
      /\ \A l \in Level(e.quad) .. Level(q) - 1 : Wants(p, Ancestor(q, l))
      /\ IF p.refine_recursive THEN ~ Wants(p, q)
         ELSE Level(q) = Level(e.quad) + IF ~ e.pad8 /\ Wants(p, e.quad) THEN 1 ELSE 0 }

\* an entry is split (the first one found by the scan, too)
Splits(p, e) == (p.refine_recursive \/ ~ e.pad8) /\ Wants(p, e.quad)

\* A quadrant strictly below another one is below one of its children.
LEMMA BelowChild ==
  ASSUME NEW q \in Quadrants, NEW r \in Quadrants, Level(q) < QMAXLEVEL
  PROVE  /\ IsAncestor(q, r) <=> \E i \in ChildIds : Below(Child(q, i), r)
         /\ IsAncestor(q, r) => Ancestor(r, Level(q)) = q /\ Level(q) < Level(r)
<1>1. /\ q \in Seq(Int) /\ r \in Seq(Int) /\ Len(q) \in Nat /\ Len(r) \in Nat
      /\ r \in Seq(ChildIds)
  BY QuadrantElements, QuadrantDef
<1>2. ASSUME NEW s \in Quadrants
      PROVE  Below(s, r) <=> Len(s) <= Len(r) /\ \A j \in 1 .. Len(s) : r[j] = s[j]
  <2>1. s \in Seq(Int) /\ Len(s) \in Nat
    BY QuadrantElements
  <2>2. ASSUME Len(s) <= Len(r), \A j \in 1 .. Len(s) : r[j] = s[j] PROVE Below(s, r)
    <3>1. Ancestor(r, Len(s)) = Ancestor(s, Len(s))
      <4>. DEFINE n == Len(s)
      <4>1. n \in Nat /\ n <= Len(r) /\ n <= Len(s) /\ \A j \in 1 .. n : r[j] = s[j]
        BY <2>1, <2>2
      <4>. HIDE DEF n
      <4>2. Ancestor(r, n) = Ancestor(s, n)
        BY <4>1, <1>1, <2>1, SameAncestor
      <4>. QED BY <4>2 DEF n
    <3>2. Ancestor(s, Len(s)) = s
      BY <2>1 DEF Ancestor
    <3>3. CASE Len(s) < Len(r)
      BY <3>1, <3>2, <3>3 DEF Below, IsAncestor, Level
    <3>4. CASE Len(s) = Len(r)
      <4>1. r = s
        BY <1>1, <2>1, <2>2, <3>4, SeqEqual
      <4>. QED BY <4>1 DEF Below
    <3>. QED BY <1>1, <2>1, <2>2, <3>3, <3>4
  <2>3. ASSUME Below(s, r) PROVE Len(s) <= Len(r) /\ \A j \in 1 .. Len(s) : r[j] = s[j]
    <3>1. CASE r = s
      BY <3>1, <2>1
    <3>2. CASE IsAncestor(s, r)
      <4>1. Len(s) <= Len(r) /\ SubSeq(r, 1, Len(s)) = s
        BY <1>1, <2>1, <3>2 DEF IsAncestor, Ancestor, Level
      <4>2. \A j \in 1 .. Len(s) : SubSeq(r, 1, Len(s))[j] = r[j]
        BY <1>1, <2>1, <4>1, SubSeqProperties
      <4>. QED BY <4>1, <4>2
    <3>. QED BY <2>3, <3>1, <3>2 DEF Below
  <2>. QED BY <2>2, <2>3
<1>3. ASSUME NEW i \in ChildIds
      PROVE  Below(Child(q, i), r) <=>
               /\ Len(q) + 1 <= Len(r) /\ r[Len(q) + 1] = i
               /\ \A j \in 1 .. Len(q) : r[j] = q[j]
  <2>. DEFINE c == Child(q, i)
  <2>1. /\ c \in Quadrants /\ Len(c) = Len(q) + 1 /\ c[Len(q) + 1] = i
        /\ \A j \in 1 .. Len(q) : c[j] = q[j]
    BY ChildElements
  <2>. HIDE DEF c
  <2>2. Below(c, r) <=> Len(c) <= Len(r) /\ \A j \in 1 .. Len(c) : r[j] = c[j]
    BY <1>2, <2>1
  <2>3. Below(c, r) <=> /\ Len(q) + 1 <= Len(r) /\ r[Len(q) + 1] = i
                        /\ \A j \in 1 .. Len(q) : r[j] = q[j]
    <3>. DEFINE n == Len(q)
    <3>1. n \in Nat /\ 1 .. n + 1 = (1 .. n) \union {n + 1}
      BY <1>1
    <3>. HIDE DEF n
    <3>2. (\A j \in 1 .. n + 1 : r[j] = c[j]) <=> r[n + 1] = i /\ \A j \in 1 .. n : r[j] = q[j]
      BY <2>1, <3>1 DEF n
    <3>. QED BY <2>1, <2>2, <3>2 DEF n
  <2>. QED BY <2>3 DEF c
<1>4. IsAncestor(q, r) <=> Len(q) + 1 <= Len(r) /\ \A j \in 1 .. Len(q) : r[j] = q[j]
  <2>1. IsAncestor(q, r) <=> Below(q, r) /\ Len(q) < Len(r)
    BY <1>1 DEF Below, IsAncestor, Level
  <2>. QED BY <1>1, <1>2, <2>1
<1>5. Len(q) + 1 <= Len(r) => r[Len(q) + 1] \in ChildIds
  BY <1>1
<1>6. IsAncestor(q, r) => Ancestor(r, Level(q)) = q /\ Level(q) < Level(r)
  BY DEF IsAncestor
<1>. QED BY <1>3, <1>4, <1>5, <1>6

\* An entry that is kept becomes itself.
LEMMA KeptBecomes ==
  ASSUME NEW p, NEW e \in Entry, ~ Splits(p, e)
  PROVE  ResultOf(p, e) = { e.quad }
<1>. DEFINE q == e.quad
<1>1. q \in Quadrants /\ e.pad8 \in BOOLEAN
  BY DEF Entry
<1>2. \A r \in Quadrants : Level(r) \in Nat
  BY LevelType
<1>3. Level(q) .. Level(q) - 1 = {}
  BY <1>1, <1>2
<1>4. q \in ResultOf(p, e)
  BY <1>1, <1>2, <1>3 DEF ResultOf, Below, Splits
<1>5. ASSUME NEW r \in ResultOf(p, e), r # q PROVE FALSE
  <2>1. /\ r \in Quadrants /\ Level(q) < Level(r) /\ Ancestor(r, Level(q)) = q
        /\ \A l \in Level(q) .. Level(r) - 1 : Wants(p, Ancestor(r, l))
        /\ IF p.refine_recursive THEN ~ Wants(p, r)
           ELSE Level(r) = Level(q) + IF ~ e.pad8 /\ Wants(p, q) THEN 1 ELSE 0
    BY <1>5 DEF ResultOf, Below, IsAncestor
  <2>2. Level(q) \in Level(q) .. Level(r) - 1
    BY <1>1, <1>2, <2>1
  <2>3. Wants(p, q)
    BY <2>1, <2>2
  <2>4. ~ p.refine_recursive /\ e.pad8
    BY <1>1, <2>3 DEF Splits
  <2>. HIDE DEF q
  <2>. QED BY <1>1, <1>2, <2>1, <2>4
<1>. QED BY <1>4, <1>5

\* Of the children of a split quadrant becomes what was to become of it.
LEMMA SplitBecomes ==
  ASSUME NEW p, NEW e \in Entry, Splits(p, e), Level(e.quad) < QMAXLEVEL
  PROVE  ResultOf(p, e) = UNION { ResultOf(p, [quad |-> Child(e.quad, i), pad8 |-> TRUE]) : i \in ChildIds }
<1>. DEFINE q == e.quad
            c(i) == Child(q, i)
            d(i) == [quad |-> c(i), pad8 |-> TRUE]
<1>1. q \in Quadrants /\ Wants(p, q) /\ Level(q) \in Nat /\ (~ p.refine_recursive => ~ e.pad8)
  BY LevelType DEF Entry, Splits
<1>2. \A i \in ChildIds : c(i) \in Quadrants /\ Level(c(i)) = Level(q) + 1
  BY <1>1, ChildType
<1>3. \A r \in Quadrants : Level(r) \in Nat
  BY LevelType
<1>4. ASSUME NEW r \in ResultOf(p, e) PROVE \E i \in ChildIds : r \in ResultOf(p, d(i))
  <2>1. /\ r \in Quadrants /\ Below(q, r)
        /\ \A l \in Level(q) .. Level(r) - 1 : Wants(p, Ancestor(r, l))
        /\ IF p.refine_recursive THEN ~ Wants(p, r) ELSE Level(r) = Level(q) + 1
    BY <1>1, <1>4 DEF ResultOf
  <2>2. r # q
    BY <1>1, <2>1
  <2>3. IsAncestor(q, r)
    BY <2>1, <2>2 DEF Below
  <2>4. PICK i \in ChildIds : Below(c(i), r)
    BY <1>1, <2>1, <2>3, BelowChild
  <2>5. \A l \in Level(c(i)) .. Level(r) - 1 : Wants(p, Ancestor(r, l))
    <3>1. \A l \in Level(q) + 1 .. Level(r) - 1 : l \in Level(q) .. Level(r) - 1
      BY <1>1, <1>3, <2>1
    <3>. QED BY <1>2, <2>1, <3>1
  <2>6. d(i).quad = c(i) /\ d(i).pad8 = TRUE
    OBVIOUS
  <2>7. IF p.refine_recursive THEN ~ Wants(p, r) ELSE Level(r) = Level(c(i)) + 0
    BY <1>1, <1>2, <2>1
  <2>. HIDE DEF c, d
  <2>. QED BY <2>1, <2>4, <2>5, <2>6, <2>7 DEF ResultOf
<1>5. ASSUME NEW i \in ChildIds, NEW r \in ResultOf(p, d(i)) PROVE r \in ResultOf(p, e)
  <2>1. /\ r \in Quadrants /\ Below(c(i), r)
        /\ \A l \in Level(c(i)) .. Level(r) - 1 : Wants(p, Ancestor(r, l))
        /\ IF p.refine_recursive THEN ~ Wants(p, r) ELSE Level(r) = Level(c(i)) + 0
    <3>1. d(i).quad = c(i) /\ d(i).pad8 = TRUE
      OBVIOUS
    <3>. HIDE DEF c, d
    <3>. QED BY <1>5, <3>1 DEF ResultOf
  <2>2. IsAncestor(q, r) /\ Ancestor(r, Level(q)) = q
    BY <1>1, <2>1, BelowChild
  <2>3. ASSUME NEW l \in Level(q) .. Level(r) - 1 PROVE Wants(p, Ancestor(r, l))
    <3>1. CASE l = Level(q)
      BY <3>1, <1>1, <2>2
    <3>2. CASE l # Level(q)
      <4>1. l \in Level(c(i)) .. Level(r) - 1
        BY <1>1, <1>2, <1>3, <2>1, <3>2
      <4>. QED BY <2>1, <4>1
    <3>. QED BY <3>1, <3>2
  <2>4. IF p.refine_recursive THEN ~ Wants(p, r)
        ELSE Level(r) = Level(q) + IF ~ e.pad8 /\ Wants(p, q) THEN 1 ELSE 0
    BY <1>1, <1>2, <2>1
  <2>. QED BY <2>1, <2>2, <2>3, <2>4 DEF ResultOf, Below
<1>. QED BY <1>4, <1>5

\* the quadrants of the list entries; what is finished and pending; what it will be
Quads(todo)        == [i \in 1 .. Len(todo) |-> todo[i].quad]
Joined(out, todo)  == out \o Quads(todo)
Becomes(p, out, todo) == { out[i] : i \in 1 .. Len(out) }
                        \union UNION { ResultOf(p, todo[i]) : i \in 1 .. Len(todo) }

\* What is finished and pending, position by position.
LEMMA JoinedElements ==
  ASSUME NEW out \in Seq(Quadrants), NEW todo \in Seq(Entry)
  PROVE  /\ Joined(out, todo) \in Seq(Quadrants)
         /\ Len(Joined(out, todo)) = Len(out) + Len(todo)
         /\ \A i \in 1 .. Len(out) : Joined(out, todo)[i] = out[i]
         /\ \A i \in 1 .. Len(todo) : Joined(out, todo)[Len(out) + i] = todo[i].quad
<1>. DEFINE b == Quads(todo)
<1>1. b \in Seq(Quadrants) /\ Len(b) = Len(todo) /\ \A i \in 1 .. Len(todo) : b[i] = todo[i].quad
  <2>1. ASSUME NEW i \in 1 .. Len(todo) PROVE todo[i].quad \in Quadrants
    <3>1. todo[i] \in Entry
      OBVIOUS
    <3>. QED BY <3>1 DEF Entry
  <2>2. Len(todo) \in Nat
    OBVIOUS
  <2>. QED BY <2>1, <2>2 DEF Quads
<1>. HIDE DEF b
<1>2. /\ out \o b \in Seq(Quadrants) /\ Len(out \o b) = Len(out) + Len(b)
      /\ \A i \in 1 .. Len(out) : (out \o b)[i] = out[i]
      /\ \A i \in 1 .. Len(b) : (out \o b)[Len(out) + i] = b[i]
  <2>1. b \in Seq(Quadrants)
    BY <1>1
  <2>2. out \o b \in Seq(Quadrants)
    BY <2>1, ConcatElements
  <2>3. Len(out \o b) = Len(out) + Len(b)
    BY <2>1, ConcatElements
  <2>4. \A i \in 1 .. Len(out) : (out \o b)[i] = out[i]
    BY <2>1, ConcatElements
  <2>5. \A i \in 1 .. Len(b) : (out \o b)[Len(out) + i] = b[i]
    BY <2>1, ConcatElements
  <2>. QED BY <2>2, <2>3, <2>4, <2>5
<1>3. Joined(out, todo) = out \o b
  BY DEF Joined, b
<1>. QED BY <1>1, <1>2, <1>3

\* Keeping the first entry moves it from what is pending to what is finished.
LEMMA KeepStep ==
  ASSUME NEW p, NEW out \in Seq(Quadrants), NEW todo \in Seq(Entry), todo # << >>,
         ~ Splits(p, Head(todo))
  PROVE  LET q == Head(todo).quad
             o == Append(out, q)
             t == Tail(todo)
         IN  /\ q \in Quadrants /\ o \in Seq(Quadrants) /\ t \in Seq(Entry)
             /\ Joined(o, t) = Joined(out, todo) /\ Becomes(p, o, t) = Becomes(p, out, todo)
<1>. DEFINE e == Head(todo)
            q == e.quad
            o == Append(out, q)
            t == Tail(todo)
            n == Len(out)
            m == Len(todo)
<1>1. /\ e = todo[1] /\ e \in Entry /\ q \in Quadrants /\ m \in Nat \ {0} /\ n \in Nat
      /\ t \in Seq(Entry) /\ Len(t) = m - 1 /\ \A i \in 1 .. m - 1 : t[i] = todo[i + 1]
  <2>1. m \in Nat \ {0} /\ e = todo[1] /\ e \in Entry /\ n \in Nat
    OBVIOUS
  <2>2. t \in Seq(Entry) /\ Len(t) = m - 1 /\ \A i \in 1 .. m - 1 : t[i] = todo[i + 1]
    OBVIOUS
  <2>. QED BY <2>1, <2>2 DEF Entry
<1>2. /\ o \in Seq(Quadrants) /\ Len(o) = n + 1 /\ o[n + 1] = q
      /\ \A i \in 1 .. n : o[i] = out[i]
  BY <1>1
<1>. HIDE DEF e, q, o, t
<1>3. Joined(o, t) = Joined(out, todo)
  <2>. DEFINE a == Joined(o, t)
              b == Joined(out, todo)
  <2>1. /\ a \in Seq(Quadrants) /\ Len(a) = (n + 1) + (m - 1)
        /\ \A i \in 1 .. n + 1 : a[i] = o[i]
        /\ \A i \in 1 .. m - 1 : a[(n + 1) + i] = t[i].quad
    <3>1. Len(o) = n + 1 /\ Len(t) = m - 1
      BY <1>1, <1>2
    <3>2. /\ a \in Seq(Quadrants) /\ Len(a) = Len(o) + Len(t)
          /\ \A i \in 1 .. Len(o) : a[i] = o[i]
          /\ \A i \in 1 .. Len(t) : a[Len(o) + i] = t[i].quad
      BY <1>1, <1>2, JoinedElements
    <3>. HIDE DEF a
    <3>. QED BY <3>1, <3>2
  <2>2. /\ b \in Seq(Quadrants) /\ Len(b) = n + m
        /\ \A i \in 1 .. n : b[i] = out[i]
        /\ \A i \in 1 .. m : b[n + i] = todo[i].quad
    BY JoinedElements
  <2>. HIDE DEF a, b, n, m
  <2>3. ASSUME NEW i \in 1 .. n + m PROVE a[i] = b[i]
    <3>1. CASE i <= n
      BY <3>1, <1>1, <1>2, <2>1, <2>2
    <3>2. CASE i = n + 1
      <4>1. 1 \in 1 .. m /\ n + 1 \in 1 .. n + 1
        BY <1>1
      <4>2. b[n + 1] = todo[1].quad /\ a[n + 1] = q
        BY <1>2, <2>1, <2>2, <4>1
      <4>. QED BY <3>2, <4>2, <1>1 DEF q
    <3>3. CASE i > n + 1
      <4>. DEFINE k == i - n - 1
      <4>1. k \in 1 .. m - 1 /\ k + 1 \in 1 .. m /\ (n + 1) + k = i /\ n + (k + 1) = i
        BY <3>3, <1>1
      <4>. HIDE DEF k
      <4>2. a[i] = t[k].quad /\ b[i] = todo[k + 1].quad
        BY <4>1, <2>1, <2>2
      <4>. QED BY <4>1, <4>2, <1>1
    <3>. QED BY <3>1, <3>2, <3>3, <1>1
  <2>4. Len(a) = n + m
    BY <2>1, <1>1
  <2>. QED BY <2>1, <2>2, <2>3, <2>4, SeqEqual DEF a, b
<1>4. { o[i] : i \in 1 .. Len(o) } = { out[i] : i \in 1 .. n } \union {q}
  <2>1. 1 .. n + 1 = (1 .. n) \union {n + 1}
    BY <1>1
  <2>. HIDE DEF n
  <2>. QED BY <1>2, <2>1
<1>5. UNION { ResultOf(p, todo[i]) : i \in 1 .. m }
        = ResultOf(p, e) \union UNION { ResultOf(p, t[i]) : i \in 1 .. Len(t) }
  <2>. HIDE DEF m
  <2>1. ASSUME NEW i \in 1 .. m PROVE i = 1 \/ \E k \in 1 .. Len(t) : todo[i] = t[k]
    <3>1. CASE i # 1
      <4>1. i - 1 \in 1 .. m - 1 /\ (i - 1) + 1 = i
        BY <1>1, <3>1
      <4>2. todo[i] = t[i - 1]
        BY <1>1, <4>1
      <4>. QED BY <1>1, <4>1, <4>2
    <3>. QED BY <3>1
  <2>2. ASSUME NEW k \in 1 .. Len(t) PROVE \E i \in 1 .. m : t[k] = todo[i]
    <3>1. k + 1 \in 1 .. m /\ k \in 1 .. m - 1
      BY <1>1
    <3>. QED BY <3>1, <1>1
  <2>3. 1 \in 1 .. m
    BY <1>1
  <2>4. UNION { ResultOf(p, todo[i]) : i \in 1 .. m }
          \subseteq ResultOf(p, e) \union UNION { ResultOf(p, t[i]) : i \in 1 .. Len(t) }
    <3>1. ASSUME NEW i \in 1 .. m, NEW x \in ResultOf(p, todo[i])
          PROVE  x \in ResultOf(p, e) \union UNION { ResultOf(p, t[k]) : k \in 1 .. Len(t) }
      BY <1>1, <2>1
    <3>. QED BY <3>1
  <2>5. ResultOf(p, e) \union UNION { ResultOf(p, t[i]) : i \in 1 .. Len(t) }
          \subseteq UNION { ResultOf(p, todo[i]) : i \in 1 .. m }
    <3>1. ASSUME NEW k \in 1 .. Len(t), NEW x \in ResultOf(p, t[k])
          PROVE  x \in UNION { ResultOf(p, todo[i]) : i \in 1 .. m }
      BY <2>2
    <3>2. ASSUME NEW x \in ResultOf(p, e) PROVE x \in UNION { ResultOf(p, todo[i]) : i \in 1 .. m }
      BY <1>1, <2>3
    <3>. QED BY <3>1, <3>2
  <2>. QED BY <2>4, <2>5
<1>6. ResultOf(p, e) = {q}
  BY <1>1, KeptBecomes DEF e, q
<1>7. Becomes(p, o, t) = Becomes(p, out, todo)
  BY <1>4, <1>5, <1>6 DEF Becomes
<1>. QED BY <1>1, <1>2, <1>3, <1>7 DEF e, q, o, t

\* Splitting the first entry puts its children in its place.
LEMMA SplitStep ==
  ASSUME NEW p, NEW out \in Seq(Quadrants), NEW todo \in Seq(Entry), todo # << >>,
         Splits(p, Head(todo)), Level(Head(todo).quad) < QMAXLEVEL
  PROVE  LET t == NewEntries(Head(todo).quad) \o Tail(todo)
         IN  /\ t \in Seq(Entry)
             /\ SplitAt(Joined(out, todo), Joined(out, t), Len(out))
             /\ Becomes(p, out, t) = Becomes(p, out, todo)
<1>. DEFINE e == Head(todo)
            q == e.quad
            c == NewEntries(q)
            r == Tail(todo)
            t == c \o r
            n == Len(out)
            m == Len(todo)
<1>1. /\ e = todo[1] /\ e \in Entry /\ q \in Quadrants /\ m \in Nat \ {0} /\ n \in Nat
      /\ r \in Seq(Entry) /\ Len(r) = m - 1 /\ \A i \in 1 .. m - 1 : r[i] = todo[i + 1]
  <2>1. m \in Nat \ {0} /\ e = todo[1] /\ e \in Entry /\ n \in Nat
    OBVIOUS
  <2>2. r \in Seq(Entry) /\ Len(r) = m - 1 /\ \A i \in 1 .. m - 1 : r[i] = todo[i + 1]
    OBVIOUS
  <2>. QED BY <2>1, <2>2 DEF Entry
<1>2. /\ c \in Seq(Entry) /\ Len(c) = CHILDREN /\ CHILDREN \in Nat /\ CHILDREN > 1
      /\ \A i \in 1 .. CHILDREN : c[i] = [quad |-> Child(q, i - 1), pad8 |-> TRUE]
  <2>1. c \in Seq(Entry) /\ Len(c) = CHILDREN
    BY <1>1, NewEntriesType
  <2>. QED BY <2>1, ChildrenAssumption DEF NewEntries
<1>. HIDE DEF e, q, c, r
<1>3. /\ t \in Seq(Entry) /\ Len(t) = CHILDREN + (m - 1)
      /\ \A i \in 1 .. CHILDREN : t[i] = c[i]
      /\ \A i \in 1 .. m - 1 : t[CHILDREN + i] = r[i]
  <2>1. /\ t \in Seq(Entry) /\ Len(t) = Len(c) + Len(r)
        /\ \A i \in 1 .. Len(c) : t[i] = c[i]
        /\ \A i \in 1 .. Len(r) : t[Len(c) + i] = r[i]
    <3>1. c \in Seq(Entry) /\ r \in Seq(Entry)
      BY <1>1, <1>2
    <3>2. t \in Seq(Entry)
      BY <3>1, ConcatElements
    <3>3. Len(t) = Len(c) + Len(r)
      BY <3>1, ConcatElements
    <3>4. \A i \in 1 .. Len(c) : t[i] = c[i]
      BY <3>1, ConcatElements
    <3>5. \A i \in 1 .. Len(r) : t[Len(c) + i] = r[i]
      BY <3>1, ConcatElements
    <3>. QED BY <3>2, <3>3, <3>4, <3>5
  <2>. HIDE DEF t, m
  <2>. QED BY <1>1, <1>2, <2>1
<1>. HIDE DEF t
<1>4. SplitAt(Joined(out, todo), Joined(out, t), n)
  <2>. DEFINE a == Joined(out, t)
              b == Joined(out, todo)
  <2>1. /\ a \in Seq(Quadrants) /\ Len(a) = n + (CHILDREN + (m - 1))
        /\ \A i \in 1 .. n : a[i] = out[i]
        /\ \A i \in 1 .. CHILDREN + (m - 1) : a[n + i] = t[i].quad
    <3>1. Len(t) = CHILDREN + (m - 1)
      BY <1>3
    <3>2. /\ a \in Seq(Quadrants) /\ Len(a) = n + Len(t)
          /\ \A i \in 1 .. n : a[i] = out[i]
          /\ \A i \in 1 .. Len(t) : a[n + i] = t[i].quad
      BY <1>3, JoinedElements
    <3>. HIDE DEF a, n
    <3>. QED BY <3>1, <3>2
  <2>2. /\ b \in Seq(Quadrants) /\ Len(b) = n + m
        /\ \A i \in 1 .. n : b[i] = out[i]
        /\ \A i \in 1 .. m : b[n + i] = todo[i].quad
    BY JoinedElements
  <2>. HIDE DEF a, b, n, m
  <2>3. b[n + 1] = q /\ Level(b[n + 1]) < QMAXLEVEL
    <3>1. 1 \in 1 .. m
      BY <1>1
    <3>2. b[n + 1] = todo[1].quad
      BY <2>2, <3>1
    <3>. QED BY <3>2, <1>1 DEF q, e
  <2>4. \A i \in 1 .. n : a[i] = b[i]
    BY <2>1, <2>2
  <2>5. ASSUME NEW z \in ChildIds PROVE a[n + z + 1] = Child(b[n + 1], z)
    <3>1. z + 1 \in 1 .. CHILDREN /\ z + 1 \in 1 .. CHILDREN + (m - 1) /\ (z + 1) - 1 = z
          /\ n + (z + 1) = n + z + 1
      BY <1>1, <1>2 DEF ChildIds
    <3>2. a[n + (z + 1)] = t[z + 1].quad /\ t[z + 1] = c[z + 1]
      BY <3>1, <1>3, <2>1
    <3>3. c[z + 1].quad = Child(q, z)
      BY <3>1, <1>2
    <3>. QED BY <3>1, <3>2, <3>3, <2>3
  <2>6. ASSUME NEW i \in n + 2 .. Len(b) PROVE a[i + CHILDREN - 1] = b[i]
    <3>. DEFINE k == i - n - 1
    <3>1. /\ k \in 1 .. m - 1 /\ k + 1 \in 1 .. m /\ n + (k + 1) = i
          /\ CHILDREN + k \in 1 .. CHILDREN + (m - 1) /\ n + (CHILDREN + k) = i + CHILDREN - 1
      BY <1>1, <1>2, <2>2
    <3>. HIDE DEF k
    <3>2. a[n + (CHILDREN + k)] = t[CHILDREN + k].quad /\ t[CHILDREN + k] = r[k]
      BY <3>1, <1>3, <2>1
    <3>3. b[n + (k + 1)] = todo[k + 1].quad /\ r[k] = todo[k + 1]
      BY <3>1, <1>1, <2>2
    <3>. QED BY <3>1, <3>2, <3>3
  <2>7. Len(a) = Len(b) + CHILDREN - 1 /\ n < Len(b)
    BY <1>1, <1>2, <2>1, <2>2
  <2>. QED BY <1>1, <2>1, <2>2, <2>3, <2>4, <2>5, <2>6, <2>7 DEF SplitAt, a, b
<1>5. ResultOf(p, e) = UNION { ResultOf(p, c[i]) : i \in 1 .. CHILDREN }
  <2>1. ResultOf(p, e) = UNION { ResultOf(p, [quad |-> Child(q, i), pad8 |-> TRUE]) : i \in ChildIds }
    BY <1>1, SplitBecomes DEF e, q
  <2>2. ASSUME NEW i \in ChildIds
        PROVE  \E k \in 1 .. CHILDREN : c[k] = [quad |-> Child(q, i), pad8 |-> TRUE]
    <3>1. i + 1 \in 1 .. CHILDREN /\ (i + 1) - 1 = i
      BY <1>2 DEF ChildIds
    <3>. QED BY <3>1, <1>2
  <2>3. ASSUME NEW k \in 1 .. CHILDREN
        PROVE  \E i \in ChildIds : c[k] = [quad |-> Child(q, i), pad8 |-> TRUE]
    <3>1. k - 1 \in ChildIds
      BY <1>2 DEF ChildIds
    <3>. QED BY <3>1, <1>2
  <2>. HIDE DEF c
  <2>4. UNION { ResultOf(p, c[i]) : i \in 1 .. CHILDREN } \subseteq ResultOf(p, e)
    BY <2>1, <2>3
  <2>5. ResultOf(p, e) \subseteq UNION { ResultOf(p, c[i]) : i \in 1 .. CHILDREN }
    BY <2>1, <2>2
  <2>. QED BY <2>4, <2>5
<1>6. UNION { ResultOf(p, t[i]) : i \in 1 .. Len(t) } = UNION { ResultOf(p, todo[i]) : i \in 1 .. m }
  <2>. HIDE DEF m
  <2>1. ASSUME NEW i \in 1 .. Len(t)
        PROVE  (\E k \in 1 .. CHILDREN : t[i] = c[k]) \/ \E k \in 1 .. m : t[i] = todo[k]
    <3>1. CASE i <= CHILDREN
      BY <1>2, <1>3, <3>1
    <3>2. CASE ~ (i <= CHILDREN)
      <4>. DEFINE k == i - CHILDREN
      <4>1. k \in 1 .. m - 1 /\ CHILDREN + k = i /\ k + 1 \in 1 .. m
        BY <1>1, <1>2, <1>3, <3>2
      <4>. HIDE DEF k
      <4>2. t[i] = todo[k + 1]
        BY <4>1, <1>1, <1>3
      <4>. QED BY <4>1, <4>2
    <3>. QED BY <3>1, <3>2
  <2>2. ASSUME NEW k \in 1 .. CHILDREN PROVE \E i \in 1 .. Len(t) : t[i] = c[k]
    <3>1. k \in 1 .. Len(t)
      BY <1>1, <1>2, <1>3
    <3>. QED BY <3>1, <1>3
  <2>3. ASSUME NEW k \in 1 .. m, k # 1 PROVE \E i \in 1 .. Len(t) : t[i] = todo[k]
    <3>. DEFINE j == k - 1
    <3>1. j \in 1 .. m - 1 /\ j + 1 = k /\ CHILDREN + j \in 1 .. Len(t)
      BY <1>1, <1>2, <1>3, <2>3
    <3>. HIDE DEF j
    <3>2. t[CHILDREN + j] = todo[k]
      BY <3>1, <1>1, <1>3
    <3>. QED BY <3>1, <3>2
  <2>4. ASSUME NEW x, NEW i \in 1 .. Len(t), x \in ResultOf(p, t[i])
        PROVE  \E k \in 1 .. m : x \in ResultOf(p, todo[k])
    <3>1. CASE \E k \in 1 .. CHILDREN : t[i] = c[k]
      <4>1. x \in ResultOf(p, e) /\ 1 \in 1 .. m
        BY <1>1, <1>5, <2>4, <3>1
      <4>. QED BY <1>1, <4>1
    <3>2. CASE \E k \in 1 .. m : t[i] = todo[k]
      BY <2>4, <3>2
    <3>. QED BY <2>1, <3>1, <3>2
  <2>5. ASSUME NEW x, NEW k \in 1 .. m, x \in ResultOf(p, todo[k])
        PROVE  \E i \in 1 .. Len(t) : x \in ResultOf(p, t[i])
    <3>1. CASE k = 1
      <4>1. x \in ResultOf(p, e)
        BY <1>1, <2>5, <3>1
      <4>2. PICK j \in 1 .. CHILDREN : x \in ResultOf(p, c[j])
        BY <1>5, <4>1
      <4>3. PICK i \in 1 .. Len(t) : t[i] = c[j]
        BY <2>2
      <4>. QED BY <4>2, <4>3
    <3>2. CASE k # 1
      BY <2>3, <2>5, <3>2
    <3>. QED BY <3>1, <3>2
  <2>. QED BY <2>4, <2>5
<1>7. Becomes(p, out, t) = Becomes(p, out, todo)
  BY <1>6 DEF Becomes
<1>. QED BY <1>3, <1>4, <1>7 DEF e, q, c, r, t

\* The leaves that a call with the arguments p must leave.
LeavesFor(p) ==
  UNION { ResultOf(p, [quad |-> p.input[i], pad8 |-> FALSE]) : i \in 1 .. Len(p.input) }

\* Of the input becomes what IsResult describes.
LEMMA LeavesForCall == LeavesFor(call) = ResultLeaves
<1>1. ASSUME NEW i \in 1 .. incount, NEW r
      PROVE  r \in ResultOf(call, [quad |-> call.input[i], pad8 |-> FALSE])
               <=> r \in Quadrants /\ IsResult(call.input[i], r)
  <2>. DEFINE o == call.input[i]
              e == [quad |-> o, pad8 |-> FALSE]
  <2>1. e.quad = o /\ e.pad8 = FALSE
    OBVIOUS
  <2>2. \A q : Wants(call, q) <=> Wanted(q)
    BY DEF Wants, Wanted
  <2>. HIDE DEF o, e
  <2>3. r \in ResultOf(call, e) <=> r \in Quadrants /\ IsResult(o, r)
    BY <2>1, <2>2 DEF ResultOf, IsResult
  <2>. QED BY <2>3 DEF o, e
<1>2. ASSUME NEW r PROVE r \in LeavesFor(call) <=> r \in ResultLeaves
  <2>1. r \in LeavesFor(call) <=>
          \E i \in 1 .. incount : r \in ResultOf(call, [quad |-> call.input[i], pad8 |-> FALSE])
    BY DEF LeavesFor, incount
  <2>2. r \in ResultLeaves <=> \E i \in 1 .. incount : r \in Quadrants /\ IsResult(call.input[i], r)
    BY DEF ResultLeaves
  <2>. QED BY <1>1, <2>1, <2>2
<1>. QED BY <1>2

\* Appending a quadrant adds one to the count of its level, and its level.
LEMMA CountAppend ==
  ASSUME NEW s \in Seq(Quadrants), NEW q \in Quadrants
  PROVE  /\ \A l : CountOf(Append(s, q), l) = CountOf(s, l) + IF l = Level(q) THEN 1 ELSE 0
         /\ Levels(Append(s, q)) = Levels(s) \union {Level(q)}
<1>. DEFINE b == << q >>
            t == Append(s, q)
            n == Len(s)
<1>1. b \in Seq(Quadrants) /\ Len(b) = 1 /\ \A i \in 1 .. Len(b) : Level(b[i]) = Level(q)
  OBVIOUS
<1>2. t = s \o b
  OBVIOUS
<1>3. n \in Nat /\ Len(t) = n + 1 /\ t[n + 1] = q /\ \A i \in 1 .. n : t[i] = s[i]
  OBVIOUS
<1>. HIDE DEF b
<1>4. ASSUME NEW l PROVE CountOf(s \o b, l) = CountOf(s, l) + IF l = Level(q) THEN 1 ELSE 0
  <2>1. CountOf(b, l) = IF l = Level(q) THEN 1 ELSE 0
    BY <1>1, CountUniform
  <2>2. CountOf(s \o b, l) = CountOf(s, l) + CountOf(b, l)
    BY <1>1, CountConcat
  <2>. QED BY <2>1, <2>2
<1>. HIDE DEF t
<1>5. Levels(t) = Levels(s) \union {Level(q)}
  <2>1. 1 .. n + 1 = (1 .. n) \union {n + 1}
    BY <1>3
  <2>2. Levels(t) = { Level(t[i]) : i \in 1 .. n + 1 } /\ Levels(s) = { Level(s[i]) : i \in 1 .. n }
    BY <1>3 DEF Levels
  <2>. HIDE DEF n
  <2>. QED BY <1>3, <2>1, <2>2
<1>. QED BY <1>2, <1>4, <1>5 DEF t

\* A level that is met and never exceeded is the highest one.
LEMMA HighestIs ==
  ASSUME NEW s \in Seq(Quadrants), NEW m \in Levels(s), \A l \in Levels(s) : l <= m
  PROVE  HighestLevel(s) = m
<1>1. \A l \in Levels(s) : l \in Nat
  BY LevelType DEF Levels
<1>2. \A x \in Levels(s) : (\A l \in Levels(s) : l <= x) => x = m
  BY <1>1
<1>. QED BY <1>2 DEF HighestLevel

\* What is finished and pending is in order and will be the result ...
WorkInv ==
  /\ Out \in Seq(Quadrants) /\ Todo \in Seq(Entry)
  /\ AllParted(Joined(Out, Todo))
  /\ Becomes(call, Out, Todo) = LeavesFor(call)

\* ... the statistics are those of what is finished ...
CountInv ==
  /\ \A l \in 0 .. QMAXLEVEL : quadrants_per_level[l] = CountOf(Out, l)
  /\ \A l \in Levels(Out) : l <= maxlevel
  /\ maxlevel \in Levels(Out) \/ (Out = << >> /\ maxlevel = 0)

\* ... and in the end nothing is pending.
EndInv ==
  /\ pc = "scan" => tree_maxlevel = HighestLevel(call.input)
  /\ pc = "done" => /\ Todo = << >> /\ quadrants = Out
                    /\ tree_maxlevel = HighestLevel(quadrants)

(* The array the call is given is the work to be done. *)
LEMMA InitWork ==
  ASSUME Init, TreeIsLinear(call.input)
  PROVE  WorkInv /\ CountInv /\ EndInv
<1>. DEFINE s == call.input
            j == Joined(Out, Todo)
<1>1. IInv
  BY InitInv
<1>2. /\ s \in Seq(Quadrants) /\ incount = Len(s) /\ Len(s) \in Nat
      /\ quadrants = s /\ current = 0 /\ pc = "scan"
  BY <1>1, InputType DEF IInv, Init, incount
<1>3. Out = << >> /\ Len(Out) = 0 /\ Out \in Seq(Quadrants)
  BY <1>2, SubSeqEmpty DEF Out
<1>4. /\ Todo \in Seq(Entry) /\ Len(Todo) = Len(s)
      /\ \A i \in 1 .. Len(s) : Todo[i] = [quad |-> s[i], pad8 |-> FALSE]
  <2>1. Todo = InputFrom(s, 0) /\ 0 \in 0 .. incount
    BY <1>1, <1>2, TodoForm
  <2>2. /\ InputFrom(s, 0) \in Seq(Entry) /\ Len(InputFrom(s, 0)) = incount - 0
        /\ \A i \in 1 .. incount - 0 : InputFrom(s, 0)[i] = [quad |-> s[0 + i], pad8 |-> FALSE]
    BY <1>1, <2>1, InputFromType DEF IInv
  <2>. QED BY <1>2, <2>1, <2>2
<1>5. AllParted(j)
  <2>1. AllParted(s)
    BY <1>2, LinearParted
  <2>2. Len(j) = Len(s) /\ \A i \in 1 .. Len(s) : j[i] = s[i]
    <3>1. /\ Len(j) = Len(Out) + Len(Todo)
          /\ \A i \in 1 .. Len(Todo) : j[Len(Out) + i] = Todo[i].quad
      BY <1>3, <1>4, JoinedElements
    <3>. HIDE DEF j, s
    <3>2. Len(j) = Len(s)
      BY <1>2, <1>3, <1>4, <3>1
    <3>3. ASSUME NEW i \in 1 .. Len(s) PROVE j[i] = s[i]
      <4>1. i \in 1 .. Len(Todo) /\ Len(Out) + i = i
        BY <1>2, <1>3, <1>4
      <4>2. j[i] = Todo[i].quad
        BY <3>1, <4>1
      <4>3. Todo[i] = [quad |-> s[i], pad8 |-> FALSE]
        BY <1>4
      <4>. QED BY <4>2, <4>3
    <3>. QED BY <3>2, <3>3
  <2>. HIDE DEF j, s
  <2>. QED BY <2>1, <2>2 DEF AllParted
<1>6. Becomes(call, Out, Todo) = LeavesFor(call)
  <2>1. { Out[i] : i \in 1 .. Len(Out) } = {}
    BY <1>3
  <2>2. UNION { ResultOf(call, Todo[i]) : i \in 1 .. Len(Todo) } = LeavesFor(call)
    BY <1>4 DEF LeavesFor
  <2>. QED BY <2>1, <2>2 DEF Becomes
<1>7. CountInv
  <2>1. Levels(Out) = {}
    BY <1>3 DEF Levels
  <2>2. ASSUME NEW l \in 0 .. QMAXLEVEL PROVE CountOf(Out, l) = 0
    <3>1. OnLevel(Out, l) = {}
      BY <1>3 DEF OnLevel
    <3>. QED BY <3>1, FS_EmptySet DEF CountOf
  <2>. QED BY <1>3, <2>1, <2>2 DEF CountInv, Init
<1>8. EndInv
  BY <1>2 DEF EndInv, Init
<1>. QED BY <1>3, <1>4, <1>5, <1>6, <1>7, <1>8 DEF WorkInv

\* The specification splits what the lemmas above split.
LEMMA SplitsSame == ASSUME NEW e PROVE Abs!Refines(e) <=> Splits(call, e)
BY WantedSame DEF Abs!Refines, Splits, Wants, Wanted

(* Keeping and counting the next quadrant preserves the work and the statistics. *)
LEMMA KeepWork ==
  ASSUME IInv, WorkInv, CountInv, Abs!Keep, Count(Head(Todo).quad)
  PROVE  WorkInv' /\ CountInv'
<1>. DEFINE q == Head(Todo).quad
<1>1. /\ Todo # << >> /\ ~ Splits(call, Head(Todo)) /\ call' = call
      /\ Out' = Append(Out, q) /\ Todo' = Tail(Todo)
  BY SplitsSame DEF Abs!Keep
<1>2. Out \in Seq(Quadrants) /\ Todo \in Seq(Entry)
  BY DEF WorkInv
<1>3. /\ q \in Quadrants /\ Append(Out, q) \in Seq(Quadrants) /\ Tail(Todo) \in Seq(Entry)
      /\ Joined(Append(Out, q), Tail(Todo)) = Joined(Out, Todo)
      /\ Becomes(call, Append(Out, q), Tail(Todo)) = Becomes(call, Out, Todo)
  BY <1>1, <1>2, KeepStep
<1>. HIDE DEF q
<1>4. WorkInv'
  BY <1>1, <1>3 DEF WorkInv
<1>5. CountInv'
  <2>1. /\ \A l : CountOf(Out', l) = CountOf(Out, l) + IF l = Level(q) THEN 1 ELSE 0
        /\ Levels(Out') = Levels(Out) \union {Level(q)}
    BY <1>1, <1>2, <1>3, CountAppend
  <2>2. Level(q) \in 0 .. QMAXLEVEL /\ maxlevel \in Nat
    BY <1>3, LevelType DEF IInv, TypeOK
  <2>3. /\ maxlevel' = IF Level(q) > maxlevel THEN Level(q) ELSE maxlevel
        /\ quadrants_per_level' = [quadrants_per_level EXCEPT ![Level(q)] = @ + 1]
        /\ quadrants_per_level \in [0 .. QMAXLEVEL -> Nat]
    BY DEF Count, IInv, TypeOK, q
  <2>4. ASSUME NEW l \in 0 .. QMAXLEVEL PROVE quadrants_per_level'[l] = CountOf(Out', l)
    <3>1. quadrants_per_level[l] = CountOf(Out, l) /\ quadrants_per_level[l] \in Nat
      BY <2>3 DEF CountInv
    <3>2. quadrants_per_level'[l] = quadrants_per_level[l] + IF l = Level(q) THEN 1 ELSE 0
      BY <2>2, <2>3
    <3>. QED BY <2>1, <3>1, <3>2
  <2>5. \A l \in Levels(Out) : l \in Nat /\ l <= maxlevel
    BY <1>2, LevelType DEF CountInv, Levels
  <2>6. \A l \in Levels(Out') : l <= maxlevel'
    BY <2>1, <2>2, <2>3, <2>5
  <2>7. maxlevel' \in Levels(Out')
    <3>1. CASE Level(q) > maxlevel
      BY <2>1, <2>3, <3>1
    <3>2. CASE ~ (Level(q) > maxlevel)
      BY <2>1, <2>2, <2>3, <3>2 DEF CountInv
    <3>. QED BY <3>1, <3>2
  <2>. QED BY <2>4, <2>6, <2>7 DEF CountInv
<1>. QED BY <1>4, <1>5

(* Splitting the next quadrant preserves the work. *)
LEMMA SplitWork ==
  ASSUME IInv, WorkInv, Abs!Split
  PROVE  WorkInv'
<1>. DEFINE q == Head(Todo).quad
            t == NewEntries(q) \o Tail(Todo)
<1>1. /\ Todo # << >> /\ Splits(call, Head(Todo)) /\ call' = call
      /\ Out' = Out /\ Todo' = t
  BY SplitsSame, NewEntriesSame DEF Abs!Split
<1>2. Out \in Seq(Quadrants) /\ Todo \in Seq(Entry)
  BY DEF WorkInv
<1>3. Level(q) < QMAXLEVEL
  <2>1. Head(Todo) \in Entry
    BY <1>1, <1>2
  <2>2. q \in Quadrants
    BY <2>1 DEF Entry
  <2>3. Level(q) \in Nat /\ call.allowed_level \in 0 .. QMAXLEVEL
    BY <2>2, LevelType DEF IInv, TypeOK
  <2>. HIDE DEF q
  <2>. QED BY <1>1, <2>3 DEF Splits, Wants, q
<1>4. /\ t \in Seq(Entry)
      /\ SplitAt(Joined(Out, Todo), Joined(Out, t), Len(Out))
      /\ Becomes(call, Out, t) = Becomes(call, Out, Todo)
  BY <1>1, <1>2, <1>3, SplitStep
<1>. HIDE DEF t
<1>5. AllParted(Joined(Out, t))
  BY <1>4, SplitKeepsParted DEF WorkInv
<1>. QED BY <1>1, <1>2, <1>4, <1>5 DEF WorkInv

\* A prefix as long as the sequence is the sequence.
LEMMA WholePrefix ==
  ASSUME NEW S, NEW s \in Seq(S)
  PROVE  SubSeq(s, 1, Len(s)) = s
OBVIOUS

(* When the scan reaches the end of the array, the array is the result. *)
LEMMA ScanEndDone ==
  ASSUME IInv, ScanEnd, EndInv
  PROVE  EndInv'
<1>1. /\ pc = "scan" /\ pc' = "done" /\ current = incount
      /\ quadrants' = quadrants /\ tree_maxlevel' = tree_maxlevel /\ quadrants = call.input
  BY DEF ScanEnd, IInv, ScanInv
<1>2. Out' = Out /\ Todo' = Todo
  BY EndImpl DEF Abs!vars
<1>3. Todo = << >>
  <2>1. Todo = InputFrom(call.input, current)
    BY <1>1, TodoForm
  <2>2. incount \in Nat /\ incount = Len(call.input)
    BY InputType DEF IInv, incount
  <2>3. current \in 0 .. incount /\ incount - current = 0
    BY <1>1, <2>2
  <2>4. Todo \in Seq(Entry) /\ Len(Todo) = 0
    BY <2>1, <2>3, InputFromType DEF IInv
  <2>. QED BY <2>4
<1>4. Out = quadrants
  BY <1>1, InputType, WholePrefix DEF Out, IInv, incount
<1>. QED BY <1>1, <1>2, <1>3, <1>4 DEF EndInv

(* When the list runs empty, the array is the result. *)
LEMMA ListEndDone ==
  ASSUME IInv, ListEnd, WorkInv, CountInv
  PROVE  EndInv'
<1>1. /\ pc = "list" /\ pc' = "done" /\ list = << >>
      /\ quadrants' = quadrants /\ tree_maxlevel' = maxlevel
  BY DEF ListEnd
<1>2. restpos = incount /\ current = Len(quadrants) /\ current > 0
  BY <1>1, ListEmpty
<1>3. Out' = Out /\ Todo' = Todo
  BY EndImpl DEF Abs!vars
<1>4. Todo = << >>
  <2>1. Todo = << >> \o InputFrom(call.input, restpos) /\ restpos \in 0 .. incount
    BY <1>1, TodoForm
  <2>2. incount \in Nat /\ incount - restpos = 0
    BY <1>2, InputType DEF IInv
  <2>3. InputFrom(call.input, restpos) \in Seq(Entry) /\ Len(InputFrom(call.input, restpos)) = 0
    BY <2>1, <2>2, InputFromType DEF IInv
  <2>4. InputFrom(call.input, restpos) = << >>
    BY <2>3
  <2>. QED BY <2>1, <2>4
<1>5. Out = quadrants /\ Out # << >>
  <2>1. quadrants \in Seq(Slots)
    BY DEF IInv, TypeOK, Slots
  <2>2. Out = quadrants
    BY <1>2, <2>1, WholePrefix DEF Out
  <2>. QED BY <1>2, <2>1, <2>2
<1>6. HighestLevel(Out) = maxlevel
  BY <1>5, HighestIs DEF CountInv, WorkInv
<1>. QED BY <1>1, <1>3, <1>4, <1>5, <1>6 DEF EndInv

(* The result invariant is preserved by every step. *)
LEMMA NextResult ==
  IInv /\ WorkInv /\ CountInv /\ EndInv /\ [Next]_vars => WorkInv' /\ CountInv' /\ EndInv'
<1>. SUFFICES ASSUME IInv, WorkInv, CountInv, EndInv, [Next]_vars
              PROVE  WorkInv' /\ CountInv' /\ EndInv'
  OBVIOUS
<1>1. ASSUME UNCHANGED Abs!vars, UNCHANGED << call, maxlevel, quadrants_per_level >>
      PROVE  WorkInv' /\ CountInv'
  <2>1. Out' = Out /\ Todo' = Todo
    BY <1>1 DEF Abs!vars
  <2>. QED BY <1>1, <2>1 DEF WorkInv, CountInv
<1>2. CASE ScanKeep
  <2>1. Abs!Keep
    BY <1>2, ScanKeepImpl
  <2>2. Head(Todo).quad = Element(current)
    <3>1. current \in Nat /\ current < incount /\ quadrants = call.input /\ Todo = InputFrom(call.input, current)
      BY <1>2, TodoForm DEF ScanKeep, IInv, ScanInv
    <3>2. Head(Todo) = [quad |-> call.input[current + 1], pad8 |-> FALSE]
      BY <3>1, InputFromHead DEF IInv
    <3>. QED BY <3>1, <3>2 DEF Element
  <2>3. WorkInv' /\ CountInv'
    BY <1>2, <2>1, <2>2, KeepWork DEF ScanKeep
  <2>. QED BY <1>2, <2>3 DEF ScanKeep, EndInv
<1>3. CASE ScanFound
  <2>1. WorkInv' /\ CountInv'
    BY <1>1, <1>3, ScanFoundImpl DEF ScanFound
  <2>. QED BY <1>3, <2>1 DEF ScanFound, EndInv
<1>4. CASE ScanEnd
  <2>1. WorkInv' /\ CountInv'
    BY <1>1, <1>4, EndImpl DEF ScanEnd
  <2>. QED BY <1>4, <2>1, ScanEndDone
<1>5. CASE SplitHead
  <2>1. Abs!Split /\ Out' = Out
    BY <1>5, SplitHeadImpl DEF Abs!Split
  <2>2. WorkInv'
    BY <2>1, SplitWork
  <2>. QED BY <1>5, <2>1, <2>2 DEF SplitHead, CountInv, EndInv
<1>6. CASE StoreHead
  <2>1. Abs!Keep
    BY <1>6, StoreHeadImpl
  <2>2. Head(Todo) = Head(list)
    <3>1. /\ Todo = list \o InputFrom(call.input, restpos) /\ list \in Seq(Entry) /\ list # << >>
          /\ restpos \in 0 .. incount
      BY <1>6, TodoForm DEF StoreHead
    <3>2. InputFrom(call.input, restpos) \in Seq(Entry)
      BY <3>1, InputFromType DEF IInv
    <3>. DEFINE rem == InputFrom(call.input, restpos)
    <3>. HIDE DEF rem
    <3>3. Todo = list \o rem /\ rem \in Seq(Entry)
      BY <3>1, <3>2 DEF rem
    <3>. QED BY <3>1, <3>3, HeadTailConcat
  <2>3. WorkInv' /\ CountInv'
    BY <1>6, <2>1, <2>2, KeepWork DEF StoreHead
  <2>. QED BY <1>6, <2>3 DEF StoreHead, EndInv
<1>7. CASE ListEnd
  <2>1. WorkInv' /\ CountInv'
    BY <1>1, <1>7, EndImpl DEF ListEnd
  <2>. QED BY <1>7, <2>1, ListEndDone
<1>8. CASE UNCHANGED vars
  <2>1. WorkInv' /\ CountInv' /\ Out' = Out /\ Todo' = Todo
    BY <1>1, <1>8, EndImpl DEF vars, Abs!vars
  <2>. QED BY <1>8, <2>1 DEF vars, EndInv
<1>. QED BY <1>2, <1>3, <1>4, <1>5, <1>6, <1>7, <1>8 DEF Next

(* At the end the result is what the callback asked for. *)
LEMMA ResultAtEnd ==
  IInv /\ WorkInv /\ CountInv /\ EndInv => ResultCorrect
<1>. SUFFICES ASSUME IInv, WorkInv, CountInv, EndInv, pc = "done"
              PROVE  /\ quadrants = InMortonOrder(ResultLeaves)
                     /\ \A l \in 0 .. QMAXLEVEL :
                          quadrants_per_level[l]
                            = Cardinality({ i \in DOMAIN quadrants : Level(quadrants[i]) = l })
                     /\ tree_maxlevel = HighestLevel(quadrants)
  BY DEF ResultCorrect
<1>1. /\ Todo = << >> /\ Len(Todo) = 0 /\ quadrants = Out
      /\ tree_maxlevel = HighestLevel(quadrants) /\ Out \in Seq(Quadrants)
  BY DEF EndInv, WorkInv
<1>2. AllParted(Out)
  <2>. DEFINE j == Joined(Out, Todo)
  <2>1. Len(j) = Len(Out) + Len(Todo) /\ \A i \in 1 .. Len(Out) : j[i] = Out[i]
    BY JoinedElements DEF WorkInv
  <2>2. AllParted(j) /\ Len(Out) \in Nat
    BY <1>1 DEF WorkInv
  <2>. HIDE DEF j
  <2>. QED BY <1>1, <2>1, <2>2 DEF AllParted
<1>3. { Out[i] : i \in 1 .. Len(Out) } = ResultLeaves
  <2>1. 1 .. Len(Todo) = {}
    BY <1>1
  <2>2. Becomes(call, Out, Todo) = { Out[i] : i \in 1 .. Len(Out) }
    BY <2>1 DEF Becomes
  <2>. QED BY <2>2, LeavesForCall DEF WorkInv
<1>4. Out = InMortonOrder(ResultLeaves)
  BY <1>1, <1>2, <1>3, PartedIsMortonOrder
<1>5. DOMAIN quadrants = 1 .. Len(quadrants)
  BY <1>1
<1>. QED BY <1>1, <1>4, <1>5 DEF CountInv, CountOf, OnLevel

\* Whatever the tree, the callback and the batch size: when p4est_refine_ext is
\* done with a linear tree, the array holds exactly the quadrants the callback
\* asked for, in Morton order, each once and none lost, and the level counts
\* and the highest level are those of the array.
THEOREM ResultRight ==
  ASSUME \A s \in Inputs : TreeIsLinear(s)
  PROVE  Spec => []ResultCorrect
<1>1. Init => WorkInv /\ CountInv /\ EndInv
  <2>1. Init => TreeIsLinear(call.input)
    BY DEF Init
  <2>. QED BY <2>1, InitWork
<1>. QED BY <1>1, NextResult, ResultAtEnd, Invariance, PTL DEF Spec
==============================================================================
