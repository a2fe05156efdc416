---------------------------- MODULE PartitionSearch --------------------------
(***************************************************************************)
(* Searches in the sorted arrays that describe a partition.  Arrays are    *)
(* functions on 0 .. n - 1, or 0 .. n when they include the end.           *)
(***************************************************************************)
EXTENDS Integers, FiniteSets, FiniteSetsExt, WellFoundedInduction, TLAPS

\* sc_array_split: the first of n positions whose type is k or higher, n if
\* there is none
SplitOffset(n, type, k) == Min({ i \in 0 .. n - 1 : type[i] >= k } \union {n})

\* type_fn_global_quad_index
WindowType(value, my_begin, my_end) ==
  IF my_end <= value /\ my_begin <= value THEN 2 ELSE IF my_begin <= value THEN 1 ELSE 0

\* p4est_find_partition: where the window begins and where it is left
FindPartition(n, search_in, my_begin, my_end) ==
  LET type == [i \in 0 .. n - 1 |-> WindowType(search_in[i], my_begin, my_end)]
  IN  [ begin |-> SplitOffset(n, type, 1), end |-> SplitOffset(n, type, 2) ]

\* p4est_next_nonempty_process: the first process from rank on that has
\* quadrants, num_procs if there is none
NextNonemptyProcess(rank, num_procs, counts) ==
  Min({ p \in rank .. num_procs - 1 : counts[p] # 0 } \union {num_procs})

(***************************************************************************)
(* Induction on the natural numbers, stated for sets of numbers rather     *)
(* than for predicates, which is the form the provers can instantiate.     *)
(***************************************************************************)
\* A set of natural numbers that is not empty has a least element.
LEMMA LeastElement ==
  ASSUME NEW T \in SUBSET Nat, T # {}
  PROVE  \E x \in T : \A y \in T : x <= y
<1> DEFINE R == { ss \in Nat \X Nat : ss[1] < ss[2] }
<1>1. R = OpToRel(<, Nat)
  BY Zenon DEF OpToRel
<1>2. IsWellFoundedOn(R, Nat)
  BY <1>1, NatLessThanWellFounded
<1> HIDE DEF R
<1>3. PICK x \in T : \A y \in T : ~ (<< y, x >> \in R)
  BY <1>2, WFMin, Zenon
<1>4. \A y \in T : ~ (y < x)
  BY <1>3 DEF R
<1> QED
  BY <1>4

\* A set with 0 and with the successor of each of its members is all of Nat.
LEMMA NatSetInduction ==
  ASSUME NEW S, 0 \in S, \A n \in Nat : n \in S => n + 1 \in S
  PROVE  \A n \in Nat : n \in S
<1> DEFINE T == { n \in Nat : n \notin S }
<1>1. SUFFICES ASSUME T # {} PROVE FALSE
  OBVIOUS
<1>2. PICK x \in T : \A y \in T : x <= y
  BY <1>1, LeastElement
<1>3. x # 0 /\ x - 1 \in Nat
  OBVIOUS
<1>4. x - 1 \in S
  BY <1>2, <1>3
<1> QED
  BY <1>3, <1>4

(***************************************************************************)
(* The windows of p4est_find_partition.                                    *)
(***************************************************************************)
\* What p4est_find_partition promises about the ends of the window.
LEMMA WindowEnds ==
  ASSUME NEW n \in Nat, NEW last \in [0 .. n - 1 -> Int],
         NEW my_begin \in Int, NEW my_end \in Int, my_begin <= my_end
  PROVE  LET found == FindPartition(n, last, my_begin, my_end)
         IN  /\ found.begin \in 0 .. n /\ found.end \in 0 .. n
             /\ \A i \in 0 .. n - 1 : i < found.begin => last[i] < my_begin
             /\ \A i \in 0 .. n - 1 : i < found.end => last[i] < my_end
             /\ found.begin < n => last[found.begin] >= my_begin
             /\ found.end < n => last[found.end] >= my_end
<1> DEFINE found == FindPartition(n, last, my_begin, my_end)
           A == { i \in 0 .. n - 1 : WindowType(last[i], my_begin, my_end) >= 1 } \union {n}
           B == { i \in 0 .. n - 1 : WindowType(last[i], my_begin, my_end) >= 2 } \union {n}
<1>1. found.begin = Min(A) /\ found.end = Min(B)
  BY DEF FindPartition, SplitOffset
<1>2. Min(A) \in A /\ \A y \in A : Min(A) <= y
  <2>1. A \in SUBSET Nat /\ A # {}
    OBVIOUS
  <2> HIDE DEF A
  <2>2. \E x \in A : \A y \in A : x <= y
    BY <2>1, LeastElement
  <2> QED
    BY <2>2 DEF Min
<1>3. Min(B) \in B /\ \A y \in B : Min(B) <= y
  <2>1. B \in SUBSET Nat /\ B # {}
    OBVIOUS
  <2> HIDE DEF B
  <2>2. \E x \in B : \A y \in B : x <= y
    BY <2>1, LeastElement
  <2> QED
    BY <2>2 DEF Min
<1>4. ASSUME NEW i \in 0 .. n - 1
      PROVE  (i \notin A => last[i] < my_begin) /\ (i \notin B => last[i] < my_end)
               /\ (i \in A => my_begin <= last[i]) /\ (i \in B => my_end <= last[i])
  <2>1. last[i] \in Int
    OBVIOUS
  <2> QED
    BY <2>1 DEF WindowType
<1>5. A \subseteq 0 .. n /\ B \subseteq 0 .. n
  OBVIOUS
<1> HIDE DEF A, B, found
<1>6. found.begin \in A /\ found.end \in B
  BY <1>1, <1>2, <1>3
<1>7. found.begin \in 0 .. n /\ found.end \in 0 .. n
  BY <1>5, <1>6
<1>8. ASSUME NEW i \in 0 .. n - 1
      PROVE  (i < found.begin => last[i] < my_begin) /\ (i < found.end => last[i] < my_end)
  <2>1. last[i] \in Int
    OBVIOUS
  <2>2. (i \in A => found.begin <= i) /\ (i \in B => found.end <= i)
    BY <1>1, <1>2, <1>3
  <2>3. (i < found.begin => i \notin A) /\ (i < found.end => i \notin B)
    BY <1>7, <2>2
  <2> QED
    BY <1>4, <2>1, <2>3
<1>9. found.begin < n => last[found.begin] >= my_begin
  <2> SUFFICES ASSUME found.begin < n PROVE last[found.begin] >= my_begin
    OBVIOUS
  <2>1. found.begin \in 0 .. n - 1
    BY <1>7
  <2>2. my_begin <= last[found.begin]
    BY <1>4, <1>6, <2>1
  <2>3. last[found.begin] \in Int
    BY <2>1
  <2> QED
    BY <2>2, <2>3
<1>10. found.end < n => last[found.end] >= my_end
  <2> SUFFICES ASSUME found.end < n PROVE last[found.end] >= my_end
    OBVIOUS
  <2>1. found.end \in 0 .. n - 1
    BY <1>7
  <2>2. my_end <= last[found.end]
    BY <1>4, <1>6, <2>1
  <2>3. last[found.end] \in Int
    BY <2>1
  <2> QED
    BY <2>2, <2>3
<1> QED
  BY <1>7, <1>8, <1>9, <1>10 DEF found

\* In a sorted array the window is what lies between the two ends.
LEMMA WindowOfSorted ==
  ASSUME NEW n \in Nat, NEW array \in [0 .. n - 1 -> Int],
         \A i, j \in 0 .. n - 1 : i <= j => array[i] <= array[j],
         NEW my_begin \in Int, NEW my_end \in Int, my_begin <= my_end
  PROVE  LET found == FindPartition(n, array, my_begin, my_end)
         IN  /\ found.begin \in 0 .. n /\ found.end \in 0 .. n
             /\ \A i \in 0 .. n - 1 : found.begin <= i <=> my_begin <= array[i]
             /\ \A i \in 0 .. n - 1 : found.end <= i <=> my_end <= array[i]
<1> DEFINE found == FindPartition(n, array, my_begin, my_end)
<1>1. /\ found.begin \in 0 .. n /\ found.end \in 0 .. n
      /\ \A i \in 0 .. n - 1 : i < found.begin => array[i] < my_begin
      /\ \A i \in 0 .. n - 1 : i < found.end => array[i] < my_end
      /\ found.begin < n => array[found.begin] >= my_begin
      /\ found.end < n => array[found.end] >= my_end
  BY WindowEnds
<1> HIDE DEF found
<1>2. ASSUME NEW i \in 0 .. n - 1
      PROVE  (found.begin <= i <=> my_begin <= array[i]) /\ (found.end <= i <=> my_end <= array[i])
  <2>1. array[i] \in Int
    OBVIOUS
  <2>2. found.begin <= i => my_begin <= array[i]
    <3> SUFFICES ASSUME found.begin <= i PROVE my_begin <= array[i]
      OBVIOUS
    <3>1. found.begin \in 0 .. n - 1
      BY <1>1
    <3>2. array[found.begin] \in Int /\ array[found.begin] <= array[i]
      BY <3>1
    <3> QED
      BY <1>1, <2>1, <3>1, <3>2
  <2>3. found.end <= i => my_end <= array[i]
    <3> SUFFICES ASSUME found.end <= i PROVE my_end <= array[i]
      OBVIOUS
    <3>1. found.end \in 0 .. n - 1
      BY <1>1
    <3>2. array[found.end] \in Int /\ array[found.end] <= array[i]
      BY <3>1
    <3> QED
      BY <1>1, <2>1, <3>1, <3>2
  <2> QED
    BY <1>1, <2>1, <2>2, <2>3
<1> QED
  BY <1>1, <1>2 DEF found
==============================================================================
