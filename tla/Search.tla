-------------------------------- MODULE Search -------------------------------
(***************************************************************************)
(* The binary searches of src/p4est_search.c, one loop iteration per step: *)
(* p4est_find_lower_bound and p4est_find_higher_bound in a sorted quadrant *)
(* array, p4est_find_quadrant_cumulative over the local trees.             *)
(*                                                                         *)
(* The bounds compare quadrants only, so a quadrant is its position in the *)
(* Morton order.  All positions are counted from 0 as in the code; they    *)
(* are unsigned there, so none may ever become negative.  The names of the *)
(* specification say Search, so that a module can extend it beside another.*)
(***************************************************************************)
EXTENDS Integers, Sequences, TLAPS

CONSTANTS Calls   \* the calls: array is a sorted array of quadrants, or
                  \* quadrants_offset of the local trees, which end at
                  \* local_num_quadrants; guess is the start

CallsAssumption ==
  \A c \in Calls :
    /\ c.fn \in { "lower", "higher", "cumulative" }
    /\ c.array \in Seq(Nat) /\ c.target \in Nat
    /\ \A i, j \in 1 .. Len(c.array) : i <= j => c.array[i] <= c.array[j]
    /\ c.guess \in 0 .. Len(c.array) - 1
    /\ c.fn = "cumulative" => c.array[1] = 0 /\ c.target < c.local_num_quadrants
    /\ c.local_num_quadrants \in Nat

VARIABLES
  call,                 \* the arguments
  quad_low, quad_high,  \* the range still searched (low_tree, high_tree)
  guess,
  found                \* what is returned; None while the loop runs

searchvars == << call, quad_low, quad_high, guess, found >>

None     == -2
count    == Len(call.array)
Entry(i) == call.array[i + 1]

\* quadrants_offset + quadrants.elem_count of a local tree: where the next begins
TreeEnd(t) == IF t = count - 1 THEN call.local_num_quadrants ELSE Entry(t + 1)

SearchInit ==
  /\ call \in Calls
  /\ quad_low = 0 /\ quad_high = Len(call.array) - 1
  /\ guess = call.guess
  /\ found = None

Return(value) ==
  found' = value /\ UNCHANGED << call, quad_low, quad_high, guess >>
Narrow(low, high, mid) ==
  quad_low' = low /\ quad_high' = high /\ guess' = mid /\ UNCHANGED << call, found >>

(***************************************************************************)
(* p4est_find_lower_bound: the first entry not below the target.           *)
(***************************************************************************)
\* guess is not below the target, and neither is the entry before it
RoomBelow == guess > 0 /\ call.target <= Entry(guess - 1)

\* mutant: the loop does not notice that nothing is left
Exhausted_Late(low) == low > quad_high + 1
Exhausted(low)      == low > quad_high

LowerDown ==
  /\ call.fn = "lower" /\ found = None
  /\ call.target <= Entry(guess) /\ RoomBelow
  /\ Narrow(quad_low, guess - 1, (quad_low + (guess - 1) + 1) \div 2)

LowerUp ==
  /\ call.fn = "lower" /\ found = None
  /\ call.target > Entry(guess)
  /\ IF Exhausted(guess + 1)
     THEN /\ found' = -1 /\ quad_low' = guess + 1
          /\ UNCHANGED << call, quad_high, guess >>
     ELSE Narrow(guess + 1, quad_high, (guess + 1 + quad_high) \div 2)

LowerFound ==
  /\ call.fn = "lower" /\ found = None
  /\ call.target <= Entry(guess) /\ ~ RoomBelow
  /\ Return(guess)

(***************************************************************************)
(* p4est_find_higher_bound: the last entry not above the target.           *)
(***************************************************************************)
RoomAbove == guess < count - 1 /\ Entry(guess + 1) <= call.target

HigherUp ==
  /\ call.fn = "higher" /\ found = None
  /\ Entry(guess) <= call.target /\ RoomAbove
  /\ Narrow(guess + 1, quad_high, (guess + 1 + quad_high) \div 2)

HigherDown ==
  /\ call.fn = "higher" /\ found = None
  /\ Entry(guess) > call.target
  /\ IF guess = 0 THEN Return(-1)
     ELSE IF guess - 1 < quad_low
     THEN /\ found' = -1 /\ quad_high' = guess - 1
          /\ UNCHANGED << call, quad_low, guess >>
     ELSE Narrow(quad_low, guess - 1, (quad_low + (guess - 1) + 1) \div 2)

HigherFound ==
  /\ call.fn = "higher" /\ found = None
  /\ Entry(guess) <= call.target /\ ~ RoomAbove
  /\ Return(guess)

(***************************************************************************)
(* p4est_find_quadrant_cumulative: the tree of a quadrant.                 *)
(***************************************************************************)
AfterTree(t) == t + 1

TreeStep ==
  /\ call.fn = "cumulative" /\ found = None
  /\ IF call.target < Entry(guess)
     THEN Narrow(quad_low, guess - 1, (quad_low + guess - 1) \div 2)
     ELSE IF call.target >= TreeEnd(guess)
     THEN Narrow(AfterTree(guess), quad_high, (AfterTree(guess) + quad_high) \div 2)
     ELSE Return(guess)

SearchNext == LowerDown \/ LowerUp \/ LowerFound \/ HigherUp \/ HigherDown \/ HigherFound
          \/ TreeStep

SearchSpec == SearchInit /\ [][SearchNext]_searchvars
\* a loop of one process
SearchFairSpec == SearchSpec /\ WF_searchvars(SearchNext)

(***************************************************************************)
(* Properties                                                              *)
(***************************************************************************)
\* The assertions at the head of every loop: the guess stays in the range, the
\* range in the array.  In particular no unsigned position wraps around.
RangeHolds ==
  found = None =>
    0 <= quad_low /\ quad_low <= guess /\ guess <= quad_high /\ quad_high < count

\* From every start the searches find the first (last) of equal entries, the
\* tree that contains the quadrant, and -1 exactly when nothing qualifies.
FoundLower ==
  (found # None /\ call.fn = "lower") =>
    IF \A i \in 0 .. count - 1 : Entry(i) < call.target THEN found = -1
    ELSE /\ found \in 0 .. count - 1 /\ Entry(found) >= call.target
         /\ \A i \in 0 .. found - 1 : Entry(i) < call.target
FoundHigher ==
  (found # None /\ call.fn = "higher") =>
    IF \A i \in 0 .. count - 1 : Entry(i) > call.target THEN found = -1
    ELSE /\ found \in 0 .. count - 1 /\ Entry(found) <= call.target
         /\ \A i \in found + 1 .. count - 1 : Entry(i) > call.target
FoundTree ==
  (found # None /\ call.fn = "cumulative") =>
    /\ found \in 0 .. count - 1
    /\ Entry(found) <= call.target /\ call.target < TreeEnd(found)

SearchCorrect == FoundLower /\ FoundHigher /\ FoundTree

\* The loop ends, for every iteration makes the range smaller or is the last
\* one, and with that result.
SearchEnded == found # None /\ SearchCorrect
SearchEnds  == <>SearchEnded

(***************************************************************************)
(* Proofs.  The entries outside the range are on the right side of the     *)
(* target, and the range still contains an answer if there is one: an end  *)
(* that has moved is itself one, or its tree begins before the target.     *)
(***************************************************************************)
TypeOK ==
  /\ call \in Calls
  /\ quad_low \in Int /\ quad_high \in Int /\ guess \in Int /\ found \in Int

LowerRange(low, high) ==
  call.fn = "lower" =>
    /\ \A i \in 0 .. low - 1 : Entry(i) < call.target
    /\ high = count - 1 \/ Entry(high) >= call.target
HigherRange(low, high) ==
  call.fn = "higher" =>
    /\ \A i \in high + 1 .. count - 1 : Entry(i) > call.target
    /\ low = 0 \/ Entry(low) <= call.target
TreeRange(low, high) ==
  call.fn = "cumulative" => Entry(low) <= call.target /\ call.target < TreeEnd(high)

KeepsAnswer(low, high) ==
  LowerRange(low, high) /\ HigherRange(low, high) /\ TreeRange(low, high)

IInv ==
  /\ TypeOK /\ RangeHolds /\ SearchCorrect
  /\ found = None => KeepsAnswer(quad_low, quad_high)

\* What a call brings: the entries are numbers, in ascending order.
LEMMA CallSorted ==
  ASSUME CallsAssumption, call \in Calls
  PROVE  /\ count \in Nat /\ count > 0
         /\ call.fn \in { "lower", "higher", "cumulative" }
         /\ call.target \in Nat
         /\ call.local_num_quadrants \in Nat
         /\ call.guess \in 0 .. count - 1
         /\ \A i \in 0 .. count - 1 : Entry(i) \in Nat
         /\ \A i, j \in 0 .. count - 1 : i <= j => Entry(i) <= Entry(j)
         /\ call.fn = "cumulative" => Entry(0) = 0 /\ call.target < call.local_num_quadrants
<1>1. /\ call.fn \in { "lower", "higher", "cumulative" }
      /\ call.array \in Seq(Nat) /\ call.target \in Nat
      /\ \A i, j \in 1 .. Len(call.array) : i <= j => call.array[i] <= call.array[j]
      /\ call.guess \in 0 .. Len(call.array) - 1
      /\ call.fn = "cumulative" => call.array[1] = 0 /\ call.target < call.local_num_quadrants
      /\ call.local_num_quadrants \in Nat
  BY DEF CallsAssumption
<1>2. count \in Nat /\ count > 0
  BY <1>1 DEF count
<1>3. ASSUME NEW i \in 0 .. count - 1
      PROVE  i + 1 \in 1 .. Len(call.array) /\ Entry(i) \in Nat
  BY <1>1, <1>2 DEF count, Entry
<1>4. ASSUME NEW i \in 0 .. count - 1, NEW j \in 0 .. count - 1, i <= j
      PROVE  Entry(i) <= Entry(j)
  <2>1. i + 1 \in 1 .. Len(call.array) /\ j + 1 \in 1 .. Len(call.array) /\ i + 1 <= j + 1
    BY <1>2, <1>3, <1>4
  <2> QED BY <2>1, <1>1 DEF Entry
<1>5. Entry(0) = call.array[1]
  BY DEF Entry
<1> QED BY <1>1, <1>2, <1>3, <1>4, <1>5 DEF count

\* The first range is the whole array, and a guess is in it.
LEMMA SearchStarts == ASSUME CallsAssumption, SearchInit PROVE IInv
<1>1. call \in Calls BY DEF SearchInit
<1>2. /\ quad_low = 0 /\ quad_high = count - 1 /\ guess = call.guess /\ found = None
  BY DEF SearchInit, count
<1> HIDE DEF count, Entry
<1>3. TypeOK BY <1>1, <1>2, CallSorted DEF TypeOK, None
<1>4. RangeHolds BY <1>1, <1>2, CallSorted DEF RangeHolds
<1>5. LowerRange(quad_low, quad_high) BY <1>1, <1>2, CallSorted DEF LowerRange
<1>6. HigherRange(quad_low, quad_high) BY <1>1, <1>2, CallSorted DEF HigherRange
<1>7. TreeRange(quad_low, quad_high) BY <1>1, <1>2, CallSorted DEF TreeRange, TreeEnd
<1>8. SearchCorrect BY <1>2 DEF SearchCorrect, FoundLower, FoundHigher, FoundTree
<1> QED BY <1>3, <1>4, <1>5, <1>6, <1>7, <1>8 DEF IInv, KeepsAnswer

\* The middle of a range, rounded down or up, is in the range.
LEMMA MiddleInRange ==
  ASSUME NEW low \in Int, NEW high \in Int, low <= high
  PROVE  /\ (low + high) \div 2 \in low .. high
         /\ (low + high + 1) \div 2 \in low .. high
OBVIOUS

\* A smaller range that still keeps the answer, with a guess in it, is as good.
LEMMA SearchNarrows ==
  ASSUME CallsAssumption, IInv, found = None,
         NEW low \in Int, NEW high \in Int, NEW mid \in low .. high,
         0 <= low, high < count, KeepsAnswer(low, high), Narrow(low, high, mid)
  PROVE  IInv'
<1>1. /\ quad_low' = low /\ quad_high' = high /\ guess' = mid
      /\ call' = call /\ found' = None
  BY DEF Narrow
<1>2. TypeOK' BY <1>1 DEF IInv, TypeOK, None
<1>3. count' = count /\ \A i : Entry(i)' = Entry(i) BY <1>1 DEF count, Entry
<1>4. RangeHolds' BY <1>1, <1>3 DEF RangeHolds
<1>5. SearchCorrect' BY <1>1 DEF SearchCorrect, FoundLower, FoundHigher, FoundTree
<1>6. KeepsAnswer(quad_low, quad_high)'
  BY <1>1 DEF KeepsAnswer, LowerRange, HigherRange, TreeRange, TreeEnd, count, Entry
<1> QED BY <1>2, <1>4, <1>5, <1>6 DEF IInv

\* A right answer ends the search, whatever becomes of the range.
LEMMA SearchReturns ==
  ASSUME CallsAssumption, IInv, found = None, NEW value \in Int, value # None,
         found' = value, call' = call,
         quad_low' \in Int, quad_high' \in Int, guess' = guess,
         (FoundLower /\ FoundHigher /\ FoundTree)'
  PROVE  IInv'
<1>1. TypeOK' BY DEF IInv, TypeOK
<1> QED BY <1>1 DEF IInv, RangeHolds, SearchCorrect

\* What is known while the loop runs.
LEMMA SearchRuns ==
  ASSUME CallsAssumption, IInv, found = None
  PROVE  /\ call \in Calls /\ quad_low \in Int /\ quad_high \in Int /\ guess \in Int
         /\ 0 <= quad_low /\ quad_low <= guess /\ guess <= quad_high /\ quad_high < count
         /\ LowerRange(quad_low, quad_high)
         /\ HigherRange(quad_low, quad_high)
         /\ TreeRange(quad_low, quad_high)
BY DEF IInv, TypeOK, RangeHolds, KeepsAnswer

LEMMA LowerSteps ==
  ASSUME CallsAssumption, IInv, LowerDown \/ LowerUp \/ LowerFound
  PROVE  IInv'
<1>1. found = None /\ call.fn = "lower" BY DEF LowerDown, LowerUp, LowerFound
<1>2. /\ quad_low \in Int /\ quad_high \in Int /\ guess \in Int
      /\ 0 <= quad_low /\ quad_low <= guess /\ guess <= quad_high /\ quad_high < count
      /\ \A i \in 0 .. quad_low - 1 : Entry(i) < call.target
      /\ quad_high = count - 1 \/ Entry(quad_high) >= call.target
  BY <1>1, SearchRuns DEF LowerRange
<1>3. /\ count \in Nat /\ call.target \in Nat
      /\ \A i \in 0 .. count - 1 : Entry(i) \in Nat
      /\ \A i, j \in 0 .. count - 1 : i <= j => Entry(i) <= Entry(j)
  BY <1>1, CallSorted DEF IInv, TypeOK
<1>4. guess \in 0 .. count - 1 BY <1>2, <1>3
<1> HIDE DEF count, Entry
<1>5. CASE LowerDown
  <2>1. /\ guess > 0 /\ call.target <= Entry(guess - 1)
        /\ Narrow(quad_low, guess - 1, (quad_low + (guess - 1) + 1) \div 2)
    BY <1>5 DEF LowerDown, RoomBelow
  <2>2. guess - 1 \in 0 .. count - 1 BY <2>1, <1>4, <1>3
  <2>3. quad_low <= guess - 1
    <3>1. guess - 1 \notin 0 .. quad_low - 1
      BY <2>1, <2>2, <1>2, <1>3
    <3> QED BY <3>1, <2>2, <1>2, <1>3
  <2>4. (quad_low + (guess - 1) + 1) \div 2 \in quad_low .. guess - 1
    BY <2>3, <1>2, MiddleInRange
  <2>5. KeepsAnswer(quad_low, guess - 1)
    BY <1>1, <1>2, <2>1, <2>2, <1>3 DEF KeepsAnswer, LowerRange, HigherRange, TreeRange
  <2> QED BY <1>1, <1>2, <1>3, <2>1, <2>2, <2>4, <2>5, SearchNarrows
<1>6. CASE LowerUp
  <2>1. Entry(guess) < call.target
    BY <1>6, <1>3, <1>4 DEF LowerUp
  <2>2. \A i \in 0 .. guess : Entry(i) < call.target
    <3>1. ASSUME NEW i \in 0 .. guess PROVE Entry(i) < call.target
      <4>1. i \in 0 .. count - 1 /\ i <= guess BY <1>4, <1>3
      <4> QED BY <4>1, <2>1, <1>3, <1>4
    <3> QED BY <3>1
  <2>3. CASE guess + 1 > quad_high
    <3>1. /\ found' = -1 /\ quad_low' = guess + 1 /\ call' = call
          /\ quad_high' = quad_high /\ guess' = guess
      BY <1>6, <2>3 DEF LowerUp, Exhausted
    <3>2. quad_high = guess BY <2>3, <1>2
    <3>3. guess = count - 1
      BY <3>2, <2>1, <1>2, <1>3, <1>4
    <3>4. (FoundLower /\ FoundHigher /\ FoundTree)'
      BY <3>1, <3>3, <2>2, <1>1 DEF FoundLower, FoundHigher, FoundTree, count, Entry
    <3> QED BY <3>1, <3>4, <1>1, <1>2, SearchReturns DEF None
  <2>4. CASE ~ (guess + 1 > quad_high)
    <3>1. Narrow(guess + 1, quad_high, (guess + 1 + quad_high) \div 2)
      BY <1>6, <2>4 DEF LowerUp, Exhausted
    <3>2. (guess + 1 + quad_high) \div 2 \in guess + 1 .. quad_high
      BY <2>4, <1>2, MiddleInRange
    <3>3. KeepsAnswer(guess + 1, quad_high)
      BY <1>1, <1>2, <2>2 DEF KeepsAnswer, LowerRange, HigherRange, TreeRange
    <3> QED BY <1>1, <1>2, <3>1, <3>2, <3>3, SearchNarrows
  <2> QED BY <2>3, <2>4
<1>7. CASE LowerFound
  <2>1. /\ call.target <= Entry(guess) /\ ~ RoomBelow
        /\ found' = guess /\ UNCHANGED << call, quad_low, quad_high, guess >>
    BY <1>7 DEF LowerFound, Return
  <2>2. ASSUME NEW i \in 0 .. guess - 1 PROVE Entry(i) < call.target
    <3>1. /\ i \in 0 .. count - 1 /\ guess - 1 \in 0 .. count - 1 /\ i <= guess - 1
          /\ guess > 0
      BY <1>4, <1>3
    <3>2. Entry(guess - 1) < call.target
      BY <3>1, <2>1, <1>3 DEF RoomBelow
    <3> QED BY <3>1, <3>2, <1>3
  <2>3. (FoundLower /\ FoundHigher /\ FoundTree)'
    <3>1. FoundHigher' /\ FoundTree' BY <1>1, <2>1 DEF FoundHigher, FoundTree
    <3>2. /\ guess \in 0 .. count - 1 /\ Entry(guess) >= call.target
          /\ ~ \A i \in 0 .. count - 1 : Entry(i) < call.target
      BY <1>3, <1>4, <2>1
    <3>3. FoundLower' BY <3>2, <2>1, <2>2 DEF FoundLower, count, Entry
    <3> QED BY <3>1, <3>3
  <2> QED BY <2>1, <2>3, <1>1, <1>2, SearchReturns DEF None
<1> QED BY <1>5, <1>6, <1>7

LEMMA HigherSteps ==
  ASSUME CallsAssumption, IInv, HigherUp \/ HigherDown \/ HigherFound
  PROVE  IInv'
<1>1. found = None /\ call.fn = "higher" BY DEF HigherUp, HigherDown, HigherFound
<1>2. /\ quad_low \in Int /\ quad_high \in Int /\ guess \in Int
      /\ 0 <= quad_low /\ quad_low <= guess /\ guess <= quad_high /\ quad_high < count
      /\ \A i \in quad_high + 1 .. count - 1 : Entry(i) > call.target
      /\ quad_low = 0 \/ Entry(quad_low) <= call.target
  BY <1>1, SearchRuns DEF HigherRange
<1>3. /\ count \in Nat /\ call.target \in Nat
      /\ \A i \in 0 .. count - 1 : Entry(i) \in Nat
      /\ \A i, j \in 0 .. count - 1 : i <= j => Entry(i) <= Entry(j)
  BY <1>1, CallSorted DEF IInv, TypeOK
<1>4. guess \in 0 .. count - 1 BY <1>2, <1>3
<1> HIDE DEF count, Entry
<1>5. CASE HigherUp
  <2>1. /\ guess < count - 1 /\ Entry(guess + 1) <= call.target
        /\ Narrow(guess + 1, quad_high, (guess + 1 + quad_high) \div 2)
    BY <1>5 DEF HigherUp, RoomAbove
  <2>2. guess + 1 \in 0 .. count - 1 BY <2>1, <1>4, <1>3
  <2>3. guess + 1 <= quad_high
    <3>1. guess + 1 \notin quad_high + 1 .. count - 1
      BY <2>1, <2>2, <1>2, <1>3
    <3> QED BY <3>1, <2>2, <1>2, <1>3
  <2>4. (guess + 1 + quad_high) \div 2 \in guess + 1 .. quad_high
    BY <2>3, <1>2, MiddleInRange
  <2>5. KeepsAnswer(guess + 1, quad_high)
    BY <1>1, <1>2, <2>1, <2>2, <1>3 DEF KeepsAnswer, LowerRange, HigherRange, TreeRange
  <2> QED BY <1>1, <1>2, <1>3, <2>1, <2>2, <2>4, <2>5, SearchNarrows
<1>6. CASE HigherDown
  <2>1. Entry(guess) > call.target
    BY <1>6, <1>3, <1>4 DEF HigherDown
  <2>2. \A i \in guess .. count - 1 : Entry(i) > call.target
    <3>1. ASSUME NEW i \in guess .. count - 1 PROVE Entry(i) > call.target
      <4>1. i \in 0 .. count - 1 /\ guess <= i BY <1>4, <1>3
      <4> QED BY <4>1, <2>1, <1>3, <1>4
    <3> QED BY <3>1
  <2>3. CASE guess = 0
    <3>1. /\ found' = -1 /\ UNCHANGED << call, quad_low, quad_high, guess >>
      BY <1>6, <2>3 DEF HigherDown, Return
    <3>2. (FoundLower /\ FoundHigher /\ FoundTree)'
      BY <3>1, <2>3, <2>2, <1>1 DEF FoundLower, FoundHigher, FoundTree, count, Entry
    <3> QED BY <3>1, <3>2, <1>1, <1>2, SearchReturns DEF None
  <2>4. CASE guess # 0
    \* the second return of -1 is never taken
    <3>1. quad_low <= guess - 1
      BY <2>1, <2>4, <1>2, <1>3, <1>4
    <3>2. Narrow(quad_low, guess - 1, (quad_low + (guess - 1) + 1) \div 2)
      BY <1>6, <2>4, <3>1, <1>2 DEF HigherDown
    <3>3. (quad_low + (guess - 1) + 1) \div 2 \in quad_low .. guess - 1
      BY <3>1, <1>2, MiddleInRange
    <3>4. KeepsAnswer(quad_low, guess - 1)
      BY <1>1, <1>2, <2>2 DEF KeepsAnswer, LowerRange, HigherRange, TreeRange
    <3> QED BY <1>1, <1>2, <1>3, <1>4, <3>2, <3>3, <3>4, SearchNarrows
  <2> QED BY <2>3, <2>4
<1>7. CASE HigherFound
  <2>1. /\ Entry(guess) <= call.target /\ ~ RoomAbove
        /\ found' = guess /\ UNCHANGED << call, quad_low, quad_high, guess >>
    BY <1>7 DEF HigherFound, Return
  <2>2. ASSUME NEW i \in guess + 1 .. count - 1 PROVE Entry(i) > call.target
    <3>1. /\ i \in 0 .. count - 1 /\ guess + 1 \in 0 .. count - 1 /\ guess + 1 <= i
          /\ guess < count - 1
      BY <1>4, <1>3
    <3>2. Entry(guess + 1) > call.target
      BY <3>1, <2>1, <1>3 DEF RoomAbove
    <3> QED BY <3>1, <3>2, <1>3
  <2>3. (FoundLower /\ FoundHigher /\ FoundTree)'
    <3>1. FoundLower' /\ FoundTree' BY <1>1, <2>1 DEF FoundLower, FoundTree
    <3>2. /\ guess \in 0 .. count - 1 /\ Entry(guess) <= call.target
          /\ ~ \A i \in 0 .. count - 1 : Entry(i) > call.target
      BY <1>3, <1>4, <2>1
    <3>3. FoundHigher' BY <3>2, <2>1, <2>2 DEF FoundHigher, count, Entry
    <3> QED BY <3>1, <3>3
  <2> QED BY <2>1, <2>3, <1>1, <1>2, SearchReturns DEF None
<1> QED BY <1>5, <1>6, <1>7

LEMMA TreeSteps == ASSUME CallsAssumption, IInv, TreeStep PROVE IInv'
<1>1. found = None /\ call.fn = "cumulative" BY DEF TreeStep
<1>2. /\ quad_low \in Int /\ quad_high \in Int /\ guess \in Int
      /\ 0 <= quad_low /\ quad_low <= guess /\ guess <= quad_high /\ quad_high < count
      /\ Entry(quad_low) <= call.target /\ call.target < TreeEnd(quad_high)
  BY <1>1, SearchRuns DEF TreeRange
<1>3. /\ count \in Nat /\ call.target \in Nat /\ call.local_num_quadrants \in Nat
      /\ \A i \in 0 .. count - 1 : Entry(i) \in Nat
  BY <1>1, CallSorted DEF IInv, TypeOK
<1>4. guess \in 0 .. count - 1 BY <1>2, <1>3
<1> HIDE DEF count, Entry
<1>5. CASE call.target < Entry(guess)
  <2>1. Narrow(quad_low, guess - 1, (quad_low + guess - 1) \div 2)
    BY <1>5 DEF TreeStep
  <2>2. quad_low <= guess - 1 BY <1>5, <1>2, <1>3, <1>4
  <2>3. (quad_low + guess - 1) \div 2 \in quad_low .. guess - 1
    BY <2>2, <1>2, MiddleInRange
  <2>4. call.target < TreeEnd(guess - 1)
    BY <1>5, <2>2, <1>2, <1>3, <1>4 DEF TreeEnd
  <2>5. KeepsAnswer(quad_low, guess - 1)
    BY <2>4, <1>1, <1>2 DEF KeepsAnswer, LowerRange, HigherRange, TreeRange
  <2> QED BY <1>1, <1>2, <1>3, <1>4, <2>1, <2>3, <2>5, SearchNarrows
<1>6. CASE ~ (call.target < Entry(guess)) /\ call.target >= TreeEnd(guess)
  <2>1. Narrow(guess + 1, quad_high, (guess + 1 + quad_high) \div 2)
    BY <1>6 DEF TreeStep, AfterTree
  <2>2. guess + 1 <= quad_high
    <3>1. TreeEnd(guess) \in Nat
      BY <1>2, <1>3, <1>4 DEF TreeEnd
    <3>2. guess # quad_high BY <3>1, <1>6, <1>2, <1>3
    <3> QED BY <3>2, <1>2
  <2>3. (guess + 1 + quad_high) \div 2 \in guess + 1 .. quad_high
    BY <2>2, <1>2, MiddleInRange
  <2>4. Entry(guess + 1) <= call.target
    BY <1>6, <2>2, <1>2, <1>3, <1>4 DEF TreeEnd
  <2>5. KeepsAnswer(guess + 1, quad_high)
    BY <2>4, <1>1, <1>2 DEF KeepsAnswer, LowerRange, HigherRange, TreeRange
  <2> QED BY <1>1, <1>2, <1>3, <2>1, <2>3, <2>5, SearchNarrows
<1>7. CASE ~ (call.target < Entry(guess)) /\ ~ (call.target >= TreeEnd(guess))
  <2>1. /\ found' = guess /\ UNCHANGED << call, quad_low, quad_high, guess >>
    BY <1>7 DEF TreeStep, Return
  <2>2. Entry(guess) <= call.target /\ call.target < TreeEnd(guess)
    <3>1. TreeEnd(guess) \in Nat
      BY <1>2, <1>3, <1>4 DEF TreeEnd
    <3> QED BY <3>1, <1>7, <1>3, <1>4
  <2>3. (FoundLower /\ FoundHigher /\ FoundTree)'
    <3>1. FoundLower' /\ FoundHigher' BY <1>1, <2>1 DEF FoundLower, FoundHigher
    <3>2. FoundTree' BY <2>1, <2>2, <1>4 DEF FoundTree, TreeEnd, count, Entry
    <3> QED BY <3>1, <3>2
  <2> QED BY <2>1, <2>3, <1>1, <1>2, SearchReturns DEF None
<1> QED BY <1>5, <1>6, <1>7

\* The range keeps the answer, and an answer is right, in every state.
LEMMA SearchInvariance == ASSUME CallsAssumption PROVE SearchSpec => []IInv
<1>1. SearchInit => IInv BY SearchStarts
<1>2. IInv /\ [SearchNext]_searchvars => IInv'
  <2>1. ASSUME IInv, SearchNext PROVE IInv'
    BY <2>1, LowerSteps, HigherSteps, TreeSteps DEF SearchNext
  <2>2. ASSUME IInv, UNCHANGED searchvars PROVE IInv'
    BY <2>2 DEF searchvars, IInv, TypeOK, RangeHolds, SearchCorrect, FoundLower, FoundHigher, FoundTree,
       KeepsAnswer, LowerRange, HigherRange, TreeRange, TreeEnd, count, Entry
  <2> QED BY <2>1, <2>2
<1> QED BY <1>1, <1>2, PTL DEF SearchSpec

\* For arrays of every length and every first guess: the guess stays in the
\* range and the range in the array, so no unsigned position ever wraps.
THEOREM RangeStays == ASSUME CallsAssumption PROVE SearchSpec => []RangeHolds
<1>1. IInv => RangeHolds BY DEF IInv
<1> QED BY <1>1, SearchInvariance, PTL

\* When a search has ended it has found the first (last) of equal entries, the
\* tree that contains the quadrant, and -1 exactly when nothing qualifies.
THEOREM SearchesAreRight == ASSUME CallsAssumption PROVE SearchSpec => []SearchCorrect
<1>1. IInv => SearchCorrect BY DEF IInv
<1> QED BY <1>1, SearchInvariance, PTL
==============================================================================
