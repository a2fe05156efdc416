---------------------------- MODULE CoarsenProofs ----------------------------
(***************************************************************************)
(* Proofs about CoarsenLoop, for every number of children, depth, complete *)
(* input array, callback and mode.                                         *)
(*                                                                         *)
(* The argument: the array without its hole stays gapless, for a parent    *)
(* takes exactly the place of its family.  In a gapless array two          *)
(* neighbours with consecutive child numbers are siblings, so that a       *)
(* window with the numbers 0, 1, ... is a family wherever it looks across  *)
(* the hole.  The windows behind the sliding one hold no family that is    *)
(* still to be merged.  Hence the result: every leaf is input or a parent  *)
(* that must be formed, and below such a parent no leaf can be left, for   *)
(* the deepest ones would be a family that is accepted.                    *)
(*                                                                         *)
(* The last part is about Wrap, which coarsens and refines on many         *)
(* processes: neither pass of an adaptation can change the forest without  *)
(* changing the number of quadrants, by which the wrapper decides whether  *)
(* its ghost layer is still good.                                          *)
(***************************************************************************)
EXTENDS CoarsenLoop, QuadrantsProofs

CONSTANTS NumProcs, NumTrees, Params, MaxAdapts, MaxMarks, MaxLateMarks
VARIABLES params, forest, flags, num_refine_flags, layer, layer_aux, match_aux, old_gfq,
          newly, unchanged, adapts

Wr == INSTANCE Wrap

\* Where the window and the hole can be.
PositionsOf(arr, win, st, hole) ==
  /\ arr \in Seq(Quadrants) /\ Len(arr) = incount
  /\ win \in Nat /\ hole \in Nat /\ st \in Nat \ {0}
  /\ st + hole <= incount
  /\ win <= st /\ st <= win + CHILDREN
  /\ win = st => st + hole = incount

Positions == PositionsOf(quadrants, window, start, length)

ClosedOf(arr, st, hole) == SubSeq(arr, 1, st) \o SubSeq(arr, st + hole + 1, incount)

IInv ==
  /\ call \in Calls
  /\ pc \in { "window", "done" }
  /\ pc = "window" => Positions /\ Gapless(Closed)

(***************************************************************************)
(* Families in a hole-free array.                                          *)
(***************************************************************************)
\* What PartOn says at the last level of either quadrant.
LEMMA ChildIdElement ==
  ASSUME NEW q \in Quadrants, Len(q) > 0
  PROVE  ChildId(q) = q[Len(q)] /\ ChildId(q) \in Int
<1>1. Len(q) \in 1 .. Len(q) /\ q[Len(q)] \in Int
  BY QuadrantElements
<1>. QED BY <1>1 DEF ChildId, AncestorId, Level

\* The child number of a quadrant, the root's included.
LEMMA ChildIdType ==
  ASSUME NEW q \in Quadrants
  PROVE  ChildId(q) \in 0 .. CHILDREN - 1
<1>1. Len(q) \in Nat /\ CHILDREN \in Nat /\ CHILDREN > 1
  BY QuadrantElements, ChildrenAssumption
<1>2. CASE Len(q) = 0
  BY <1>1, <1>2 DEF ChildId, AncestorId, Level
<1>3. CASE Len(q) > 0
  <2>1. Len(q) \in 1 .. Len(q)
    BY <1>1, <1>3
  <2>2. q[Len(q)] \in Int /\ 0 <= q[Len(q)] /\ q[Len(q)] <= CHILDREN - 1
    BY <2>1, QuadrantElements
  <2>. QED BY <1>1, <1>3, <2>2 DEF ChildId, AncestorId, Level
<1>. QED BY <1>1, <1>2, <1>3

\* The parent, step by step.
LEMMA ParentElements ==
  ASSUME NEW q \in Quadrants, Len(q) > 0
  PROVE  /\ Parent(q) \in Quadrants /\ Len(Parent(q)) = Len(q) - 1
         /\ \A j \in 1 .. Len(q) - 1 : Parent(q)[j] = q[j]
<1>1. q \in Seq(ChildIds) /\ Len(q) <= QMAXLEVEL /\ Len(q) \in Nat
  BY QuadrantDef
<1>2. /\ SubSeq(q, 1, Len(q) - 1) \in Seq(ChildIds) /\ Len(SubSeq(q, 1, Len(q) - 1)) = Len(q) - 1
      /\ \A j \in 1 .. Len(q) - 1 : SubSeq(q, 1, Len(q) - 1)[j] = q[j]
  <2>. DEFINE n == Len(q) - 1
  <2>1. n \in Nat /\ n <= Len(q)
    BY <1>1
  <2>. HIDE DEF n
  <2>2. /\ SubSeq(q, 1, n) \in Seq(ChildIds) /\ Len(SubSeq(q, 1, n)) = n
        /\ \A j \in 1 .. n : SubSeq(q, 1, n)[j] = q[j]
    BY <1>1, <2>1, SubSeqProperties
  <2>. QED BY <2>2 DEF n
<1>3. Len(q) - 1 <= QMAXLEVEL
  BY <1>1, LevelAssumption
<1>. QED BY <1>2, <1>3, QuadrantDef DEF Parent, Ancestor, Level

\* p4est_quadrant_sibling from the elements.
LEMMA SiblingByElements ==
  ASSUME NEW q \in Quadrants, NEW r \in Quadrants, NEW i \in ChildIds,
         Len(q) > 0, Len(r) = Len(q), r[Len(r)] = i,
         \A j \in 1 .. Len(q) - 1 : r[j] = q[j]
  PROVE  r = Sibling(q, i)
<1>1. /\ Parent(q) \in Seq(ChildIds) /\ Len(Parent(q)) = Len(q) - 1
      /\ \A j \in 1 .. Len(q) - 1 : Parent(q)[j] = q[j]
  BY ParentElements, QuadrantDef
<1>. DEFINE p == Parent(q)
            s == Append(p, i)
<1>2. /\ s \in Seq(ChildIds) /\ Len(s) = Len(p) + 1 /\ s[Len(p) + 1] = i
      /\ \A j \in 1 .. Len(p) : s[j] = p[j]
  BY <1>1
<1>3. r \in Seq(ChildIds) /\ Len(q) \in Nat
  BY QuadrantDef
<1>. HIDE DEF p
<1>4. \A j \in 1 .. Len(r) : r[j] = s[j]
  <2>1. Len(p) = Len(q) - 1 /\ \A j \in 1 .. Len(q) - 1 : p[j] = q[j]
    BY <1>1 DEF p
  <2>. HIDE DEF s
  <2>. QED BY <1>2, <1>3, <2>1
<1>5. Len(s) = Len(r)
  BY <1>1, <1>2, <1>3 DEF p
<1>6. r = s
  <2>. HIDE DEF s
  <2>. QED BY <1>2, <1>3, <1>4, <1>5, SeqEqual
<1>. QED BY <1>6 DEF Sibling, p

\* Two neighbours with consecutive child numbers are siblings.
LEMMA AdjacentSiblings ==
  ASSUME NEW q \in Quadrants, NEW r \in Quadrants, NEW i \in Nat, i + 1 < CHILDREN,
         Adjacent(q, r), ChildId(q) = i, ChildId(r) = i + 1
  PROVE  /\ Len(q) > 0 /\ Len(r) = Len(q) /\ q[Len(q)] = i /\ r[Len(r)] = i + 1
         /\ \A j \in 1 .. Len(q) - 1 : r[j] = q[j]
<1>0. CHILDREN \in Nat /\ QMAXLEVEL \in Nat
  BY ChildrenAssumption, LevelAssumption
<1>1. PICK k \in 1 .. QMAXLEVEL : PartOn(q, r, k)
  BY AdjacentParts
<1>2. /\ k <= Len(q) /\ k <= Len(r)
      /\ \A j \in 1 .. k - 1 : q[j] = r[j]
      /\ r[k] = q[k] + 1
      /\ \A j \in k + 1 .. Len(q) : q[j] = CHILDREN - 1
      /\ \A j \in k + 1 .. Len(r) : r[j] = 0
  BY <1>1 DEF PartOn
<1>3. Len(q) \in Nat /\ Len(r) \in Nat /\ Len(q) > 0 /\ Len(r) > 0
  BY <1>2, QuadrantElements
<1>4. q[Len(q)] = i /\ r[Len(r)] = i + 1
  BY <1>3, ChildIdElement
<1>5. k = Len(q)
  <2>1. ~ (Len(q) \in k + 1 .. Len(q))
    BY <1>0, <1>2, <1>4
  <2>. QED BY <2>1, <1>2, <1>3
<1>6. k = Len(r)
  <2>1. ~ (Len(r) \in k + 1 .. Len(r))
    BY <1>2, <1>4
  <2>. QED BY <2>1, <1>2, <1>3
<1>. QED BY <1>2, <1>3, <1>4, <1>5, <1>6

\* The quadrant before a first child is the one before its parent.
LEMMA AdjacentToParent ==
  ASSUME NEW x \in Quadrants, NEW c \in Quadrants, Len(c) > 0, ChildId(c) = 0,
         Adjacent(x, c)
  PROVE  Adjacent(x, Parent(c))
<1>. DEFINE p == Parent(c)
<1>1. p \in Quadrants /\ Len(p) = Len(c) - 1 /\ \A j \in 1 .. Len(c) - 1 : p[j] = c[j]
  BY ParentElements
<1>. HIDE DEF p
<1>2. PICK k \in 1 .. QMAXLEVEL : PartOn(x, c, k)
  BY AdjacentParts
<1>3. /\ x \in Seq(Int) /\ Len(x) \in Nat /\ Len(c) \in Nat
      /\ \A j \in 1 .. Len(x) : x[j] >= 0 /\ x[j] \in Int
  BY QuadrantElements
<1>4. c[Len(c)] = 0
  BY ChildIdElement
<1>5. k <= Len(c) - 1
  BY <1>2, <1>3, <1>4 DEF PartOn
<1>6. PartOn(x, p, k)
  <2>1. /\ k <= Len(x) /\ c[k] = x[k] + 1
        /\ \A j \in 1 .. k - 1 : x[j] = c[j]
        /\ \A j \in k + 1 .. Len(x) : x[j] = CHILDREN - 1
        /\ \A j \in k + 1 .. Len(c) : c[j] = 0
    BY <1>2 DEF PartOn
  <2>2. k \in 1 .. Len(c) - 1 /\ p[k] = c[k]
    BY <1>1, <1>3, <1>5
  <2>3. \A j \in 1 .. k - 1 : x[j] = p[j]
    BY <2>1, <1>1, <1>3, <1>5
  <2>4. \A j \in k + 1 .. Len(p) : p[j] = 0
    BY <2>1, <1>1, <1>3
  <2>. QED BY <2>1, <2>2, <2>3, <2>4, <1>1 DEF PartOn
<1>7. Adjacent(x, p)
  BY <1>1, <1>6, AdjacentParts
<1>. QED BY <1>7 DEF p

\* The quadrant after a last child is the one after its parent.
LEMMA AdjacentFromParent ==
  ASSUME NEW c \in Quadrants, NEW y \in Quadrants, Len(c) > 0, c[Len(c)] = CHILDREN - 1,
         Adjacent(c, y)
  PROVE  Adjacent(Parent(c), y)
<1>. DEFINE p == Parent(c)
<1>0. CHILDREN \in Nat
  BY ChildrenAssumption
<1>1. p \in Quadrants /\ Len(p) = Len(c) - 1 /\ \A j \in 1 .. Len(c) - 1 : p[j] = c[j]
  BY ParentElements
<1>. HIDE DEF p
<1>2. PICK k \in 1 .. QMAXLEVEL : PartOn(c, y, k)
  BY AdjacentParts
<1>3. /\ Len(y) \in Nat /\ Len(c) \in Nat
      /\ \A j \in 1 .. Len(y) : y[j] <= CHILDREN - 1 /\ y[j] \in Int
  BY QuadrantElements
<1>5. k <= Len(c) - 1
  BY <1>0, <1>2, <1>3 DEF PartOn
<1>6. PartOn(p, y, k)
  BY <1>1, <1>2, <1>3, <1>5 DEF PartOn
<1>7. Adjacent(p, y)
  BY <1>1, <1>6, AdjacentParts
<1>. QED BY <1>7 DEF p

\* r is the sibling of q with the number z, or q itself.
IsSiblingAt(q, r, z) ==
  /\ Len(q) > 0 /\ Len(r) = Len(q) /\ r[Len(r)] = z
  /\ \A j \in 1 .. Len(q) - 1 : r[j] = q[j]

\* From position w on there are quadrants with the child numbers 0, 1, ...
NumbersAt(s, w) == /\ w \in Nat /\ w + CHILDREN <= Len(s)
                   /\ \A z \in 0 .. CHILDREN - 1 : ChildId(s[w + z + 1]) = z

\* In a hole-free array quadrants with the numbers 0, 1, ... are siblings.
LEMMA NumbersAreSiblings ==
  ASSUME NEW s \in Seq(Quadrants), NEW w, Gapless(s), NumbersAt(s, w)
  PROVE  \A z \in 0 .. CHILDREN - 1 : IsSiblingAt(s[w + 1], s[w + z + 1], z)
<1>. DEFINE S == { n \in Nat : n < CHILDREN => IsSiblingAt(s[w + 1], s[w + n + 1], n) }
<1>0. /\ CHILDREN \in Nat /\ CHILDREN > 1 /\ w \in Nat /\ Len(s) \in Nat /\ w + CHILDREN <= Len(s)
      /\ \A z \in 0 .. CHILDREN - 1 : ChildId(s[w + z + 1]) = z
  BY ChildrenAssumption DEF NumbersAt
<1>1. ASSUME NEW n \in Nat, n + 1 < CHILDREN
      PROVE  LET q == s[w + n + 1]
                 r == s[w + (n + 1) + 1]
             IN  /\ q \in Quadrants /\ r \in Quadrants
                 /\ Len(q) > 0 /\ Len(r) = Len(q) /\ q[Len(q)] = n /\ r[Len(r)] = n + 1
                 /\ \A j \in 1 .. Len(q) - 1 : r[j] = q[j]
  <2>. DEFINE q == s[w + n + 1]
              r == s[w + (n + 1) + 1]
  <2>1. /\ w + n + 1 \in 1 .. Len(s) - 1 /\ w + n + 1 \in 1 .. Len(s)
        /\ w + (n + 1) + 1 \in 1 .. Len(s)
        /\ (w + n + 1) + 1 = w + (n + 1) + 1
    BY <1>0, <1>1
  <2>2. q \in Quadrants /\ r \in Quadrants
    BY <2>1
  <2>3. Adjacent(q, r)
    BY <2>1 DEF Gapless
  <2>4. ChildId(q) = n /\ ChildId(r) = n + 1
    <3>1. n \in 0 .. CHILDREN - 1 /\ n + 1 \in 0 .. CHILDREN - 1
      BY <1>0, <1>1
    <3>. QED BY <3>1, <1>0
  <2>. HIDE DEF q, r
  <2>5. /\ Len(q) > 0 /\ Len(r) = Len(q) /\ q[Len(q)] = n /\ r[Len(r)] = n + 1
        /\ \A j \in 1 .. Len(q) - 1 : r[j] = q[j]
    BY <1>1, <2>2, <2>3, <2>4, AdjacentSiblings
  <2>. QED BY <2>2, <2>5 DEF q, r
<1>2. 0 \in S
  <2>1. 0 + 1 < CHILDREN /\ w + 0 + 1 = w + 1
    BY <1>0
  <2>2. Len(s[w + 0 + 1]) > 0 /\ s[w + 0 + 1][Len(s[w + 0 + 1])] = 0
    BY <1>1, <2>1
  <2>3. IsSiblingAt(s[w + 1], s[w + 0 + 1], 0)
    BY <2>1, <2>2 DEF IsSiblingAt
  <2>. QED BY <2>3
<1>3. ASSUME NEW n \in Nat, n \in S
      PROVE  n + 1 \in S
  <2>1. SUFFICES ASSUME n + 1 < CHILDREN
                 PROVE  IsSiblingAt(s[w + 1], s[w + (n + 1) + 1], n + 1)
    BY <1>0
  <2>2. IsSiblingAt(s[w + 1], s[w + n + 1], n)
    BY <1>0, <1>3, <2>1
  <2>. DEFINE q == s[w + n + 1]
              r == s[w + (n + 1) + 1]
              f == s[w + 1]
  <2>3. /\ Len(q) > 0 /\ Len(r) = Len(q) /\ r[Len(r)] = n + 1
        /\ \A j \in 1 .. Len(q) - 1 : r[j] = q[j]
    BY <1>1, <2>1
  <2>. HIDE DEF q, r, f, S
  <2>4. Len(f) > 0 /\ Len(q) = Len(f) /\ \A j \in 1 .. Len(f) - 1 : q[j] = f[j]
    BY <2>2 DEF IsSiblingAt, q, f
  <2>5. IsSiblingAt(f, r, n + 1)
    BY <2>3, <2>4 DEF IsSiblingAt
  <2>. QED BY <2>5 DEF f, r
<1>. HIDE DEF S
<1>4. \A n \in Nat : n \in S
  BY <1>2, <1>3, NatSetInduction, Zenon
<1>5. ASSUME NEW z \in 0 .. CHILDREN - 1
      PROVE  IsSiblingAt(s[w + 1], s[w + z + 1], z)
  <2>1. z \in Nat /\ z < CHILDREN
    BY <1>0
  <2>. QED BY <2>1, <1>4 DEF S
<1>. QED BY <1>5

\* They are the family of the first one (p4est_quadrant_is_familypv).
LEMMA NumbersAreFamily ==
  ASSUME NEW s \in Seq(Quadrants), NEW w, Gapless(s), NumbersAt(s, w)
  PROVE  /\ Len(s[w + 1]) > 0
         /\ \A z \in 0 .. CHILDREN - 1 : s[w + z + 1] = Sibling(s[w + 1], z)
<1>0. CHILDREN \in Nat /\ CHILDREN > 1 /\ w \in Nat /\ Len(s) \in Nat /\ w + CHILDREN <= Len(s)
  BY ChildrenAssumption DEF NumbersAt
<1>1. \A z \in 0 .. CHILDREN - 1 : IsSiblingAt(s[w + 1], s[w + z + 1], z)
  BY NumbersAreSiblings
<1>2. ASSUME NEW z \in 0 .. CHILDREN - 1
      PROVE  Len(s[w + 1]) > 0 /\ s[w + z + 1] = Sibling(s[w + 1], z)
  <2>. DEFINE q == s[w + 1]
              r == s[w + z + 1]
  <2>1. w + 1 \in 1 .. Len(s) /\ w + z + 1 \in 1 .. Len(s) /\ z \in ChildIds
    BY <1>0 DEF ChildIds
  <2>2. q \in Quadrants /\ r \in Quadrants
    BY <2>1
  <2>3. IsSiblingAt(q, r, z)
    BY <1>1
  <2>. HIDE DEF q, r
  <2>4. Len(q) > 0 /\ r = Sibling(q, z)
    BY <2>1, <2>2, <2>3, SiblingByElements DEF IsSiblingAt
  <2>. QED BY <2>4 DEF q, r
<1>3. 0 \in 0 .. CHILDREN - 1
  BY <1>0
<1>. QED BY <1>2, <1>3

\* t is s with the CHILDREN quadrants behind position w replaced by their parent.
MergedAt(s, t, w) ==
  /\ t \in Seq(Quadrants) /\ Len(t) = Len(s) - CHILDREN + 1
  /\ \A i \in 1 .. w : t[i] = s[i]
  /\ t[w + 1] = Parent(s[w + 1])
  /\ \A i \in w + 2 .. Len(t) : t[i] = s[i + CHILDREN - 1]

\* A parent leaves no hole where its family left none.
LEMMA MergeKeepsGapless ==
  ASSUME NEW s \in Seq(Quadrants), NEW t, NEW w, Gapless(s), NumbersAt(s, w),
         MergedAt(s, t, w)
  PROVE  Gapless(t)
<1>0. /\ CHILDREN \in Nat /\ CHILDREN > 1 /\ w \in Nat /\ Len(s) \in Nat /\ w + CHILDREN <= Len(s)
  BY ChildrenAssumption DEF NumbersAt
<1>1. /\ t \in Seq(Quadrants) /\ Len(t) = Len(s) - CHILDREN + 1
      /\ \A i \in 1 .. w : t[i] = s[i]
      /\ t[w + 1] = Parent(s[w + 1])
      /\ \A i \in w + 2 .. Len(t) : t[i] = s[i + CHILDREN - 1]
  BY DEF MergedAt
<1>2. \A i \in 1 .. Len(s) : s[i] \in Quadrants
  OBVIOUS
<1>3. \A i \in 1 .. Len(s) - 1 : Adjacent(s[i], s[i + 1])
  BY DEF Gapless
<1>. DEFINE f == s[w + 1]
            l == s[w + CHILDREN]
<1>4. f \in Quadrants /\ l \in Quadrants
  BY <1>0, <1>2
<1>5. Len(f) > 0 /\ ChildId(f) = 0
  <2>1. 0 \in 0 .. CHILDREN - 1 /\ w + 0 + 1 = w + 1
    BY <1>0
  <2>2. ChildId(s[w + 0 + 1]) = 0
    BY <2>1 DEF NumbersAt
  <2>. QED BY <2>1, <2>2, NumbersAreFamily
<1>6. Len(l) > 0 /\ l[Len(l)] = CHILDREN - 1 /\ Parent(l) = Parent(f)
  <2>. DEFINE z == CHILDREN - 1
  <2>1. z \in 0 .. CHILDREN - 1 /\ w + z + 1 = w + CHILDREN
    BY <1>0
  <2>2. IsSiblingAt(f, l, z)
    BY <2>1, NumbersAreSiblings
  <2>. HIDE DEF z, f, l
  <2>3. Len(l) > 0 /\ l[Len(l)] = z /\ Len(l) = Len(f) /\ \A j \in 1 .. Len(f) - 1 : l[j] = f[j]
    BY <2>2 DEF IsSiblingAt
  <2>4. /\ Parent(l) \in Quadrants /\ Len(Parent(l)) = Len(l) - 1
        /\ \A j \in 1 .. Len(l) - 1 : Parent(l)[j] = l[j]
    BY <1>4, <2>3, ParentElements
  <2>5. /\ Parent(f) \in Quadrants /\ Len(Parent(f)) = Len(f) - 1
        /\ \A j \in 1 .. Len(f) - 1 : Parent(f)[j] = f[j]
    BY <1>4, <1>5, ParentElements
  <2>6. Parent(l) \in Seq(Int) /\ Parent(f) \in Seq(Int)
    BY <2>4, <2>5, QuadrantElements
  <2>7. Parent(l) = Parent(f)
    <3>. DEFINE a == Parent(l)
                b == Parent(f)
    <3>1. Len(a) = Len(b) /\ \A j \in 1 .. Len(a) : a[j] = b[j]
      BY <2>3, <2>4, <2>5
    <3>. HIDE DEF a, b
    <3>2. a \in Seq(Int) /\ b \in Seq(Int)
      BY <2>6 DEF a, b
    <3>3. a = b
      BY <3>1, <3>2, SeqEqual
    <3>. QED BY <3>3 DEF a, b
  <2>. QED BY <2>3, <2>7 DEF z
<1>. HIDE DEF f, l
<1>7. ASSUME NEW i \in 1 .. Len(t) - 1
      PROVE  Adjacent(t[i], t[i + 1])
  <2>1. CASE i + 1 <= w
    <3>1. i \in 1 .. w /\ i + 1 \in 1 .. w /\ i \in 1 .. Len(s) - 1
      BY <1>0, <2>1
    <3>. QED BY <3>1, <1>1, <1>3
  <2>2. CASE i = w
    <3>1. w \in 1 .. Len(s) - 1 /\ w \in 1 .. w /\ w \in 1 .. Len(s)
      BY <1>0, <2>2
    <3>2. t[w] = s[w] /\ Adjacent(s[w], f) /\ s[w] \in Quadrants
      BY <3>1, <1>1, <1>2, <1>3 DEF f
    <3>3. Adjacent(s[w], Parent(f))
      BY <3>2, <1>4, <1>5, AdjacentToParent
    <3>. QED BY <2>2, <3>2, <3>3, <1>1 DEF f
  <2>3. CASE i = w + 1
    <3>1. w + CHILDREN \in 1 .. Len(s) - 1 /\ w + 2 \in w + 2 .. Len(t)
      BY <1>0, <1>1, <2>3
    <3>2. t[w + 2] = s[w + CHILDREN + 1] /\ s[w + CHILDREN + 1] \in Quadrants
      <4>1. (w + 2) + CHILDREN - 1 = w + CHILDREN + 1 /\ w + CHILDREN + 1 \in 1 .. Len(s)
        BY <3>1, <1>0
      <4>. QED BY <4>1, <3>1, <1>1, <1>2
    <3>3. Adjacent(l, s[w + CHILDREN + 1])
      BY <3>1, <1>3 DEF l
    <3>4. Adjacent(Parent(l), s[w + CHILDREN + 1])
      BY <3>2, <3>3, <1>4, <1>6, AdjacentFromParent
    <3>5. t[i] = Parent(l) /\ t[i + 1] = s[w + CHILDREN + 1]
      BY <2>3, <3>2, <1>0, <1>1, <1>6 DEF f
    <3>. QED BY <3>4, <3>5
  <2>4. CASE i > w + 1
    <3>1. i \in w + 2 .. Len(t) /\ i + 1 \in w + 2 .. Len(t)
      BY <1>0, <1>1, <2>4
    <3>. DEFINE k == i + CHILDREN - 1
    <3>2. k \in 1 .. Len(s) - 1 /\ (i + 1) + CHILDREN - 1 = k + 1
      BY <1>0, <1>1
    <3>3. t[i] = s[k] /\ t[i + 1] = s[k + 1]
      BY <3>1, <3>2, <1>1
    <3>. HIDE DEF k
    <3>. QED BY <3>2, <3>3, <1>3
  <2>. QED BY <2>1, <2>2, <2>3, <2>4, <1>0
<1>. QED BY <1>7 DEF Gapless

(***************************************************************************)
(* The array with a hole.                                                  *)
(***************************************************************************)
\* The array without its hole, element by element.
LEMMA ClosedElements ==
  ASSUME NEW arr, NEW win, NEW st, NEW hole, PositionsOf(arr, win, st, hole)
  PROVE  LET s == ClosedOf(arr, st, hole)
         IN  /\ s \in Seq(Quadrants) /\ Len(s) = incount - hole
             /\ \A i \in 1 .. incount - hole :
                  s[i] = IF i <= st THEN arr[i] ELSE arr[i + hole]
<1>. DEFINE n == Len(arr)
            a == SubSeq(arr, 1, st)
            b == SubSeq(arr, st + hole + 1, n)
            s == a \o b
<1>1. /\ arr \in Seq(Quadrants) /\ n = incount /\ n \in Nat
      /\ hole \in Nat /\ st \in Nat /\ st > 0 /\ st + hole <= n
  BY DEF PositionsOf
<1>2. a \in Seq(Quadrants) /\ Len(a) = st /\ \A i \in 1 .. st : a[i] = arr[i]
  <2>1. st <= n
    BY <1>1
  <2>. QED BY <1>1, <2>1, SubSeqProperties
<1>3. /\ b \in Seq(Quadrants) /\ Len(b) = n - (st + hole)
      /\ \A i \in 1 .. n - (st + hole) : b[i] = arr[st + hole + i]
  <2>. DEFINE m == st + hole
  <2>1. m \in Nat /\ m <= Len(arr)
    BY <1>1
  <2>. HIDE DEF m, n
  <2>2. LET c == SubSeq(arr, m + 1, Len(arr))
        IN  /\ c \in Seq(Quadrants) /\ Len(c) = Len(arr) - m
            /\ \A j \in 1 .. Len(arr) - m : c[j] = arr[m + j]
    BY <2>1, <1>1, SuffixElements
  <2>. QED BY <2>2 DEF m, n
<1>. HIDE DEF a, b
<1>4. /\ s \in Seq(Quadrants) /\ Len(s) = Len(a) + Len(b)
      /\ \A i \in 1 .. Len(s) : s[i] = IF i <= Len(a) THEN a[i] ELSE b[i - Len(a)]
  BY <1>2, <1>3
<1>. HIDE DEF s, n
<1>5. Len(s) = n - hole
  BY <1>1, <1>2, <1>3, <1>4
<1>6. ASSUME NEW i \in 1 .. n - hole
      PROVE  s[i] = IF i <= st THEN arr[i] ELSE arr[i + hole]
  <2>1. i \in 1 .. Len(s)
    BY <1>5
  <2>2. CASE i <= st
    BY <2>1, <2>2, <1>1, <1>2, <1>4
  <2>3. CASE ~ (i <= st)
    <3>1. i - st \in 1 .. n - (st + hole) /\ st + hole + (i - st) = i + hole
      BY <1>1, <2>3
    <3>2. s[i] = b[i - st]
      BY <2>1, <2>3, <1>2, <1>4
    <3>. QED BY <2>3, <3>1, <3>2, <1>3
  <2>. QED BY <2>2, <2>3
<1>7. ClosedOf(arr, st, hole) = s
  BY <1>1 DEF ClosedOf, s, a, b, n
<1>. QED BY <1>1, <1>4, <1>5, <1>6, <1>7

\* Closing the hole by one element changes only where the hole is.
LEMMA CloseHoleKeeps ==
  ASSUME NEW arr, NEW st, NEW hole, PositionsOf(arr, window, st, hole), window < st,
         CloseHole(arr, st, hole), length' = hole, call' = call
  PROVE  /\ Positions'
         /\ ClosedOf(quadrants', start', length') = ClosedOf(arr, st, hole)
<1>0. /\ CHILDREN \in Nat /\ CHILDREN > 1
      /\ arr \in Seq(Quadrants) /\ Len(arr) = incount /\ incount \in Nat
      /\ window \in Nat /\ hole \in Nat /\ st \in Nat /\ st > 0 /\ st + hole <= incount
      /\ st <= window + CHILDREN
      /\ incount' = incount /\ window' = window + 1
  BY ChildrenAssumption DEF PositionsOf, CloseHole, incount
<1>1. CASE ~ (window + 1 = st /\ st + hole < incount)
  <2>1. start' = st /\ quadrants' = arr
    BY <1>1 DEF CloseHole
  <2>2. PositionsOf(quadrants', window', start', length')
    BY <2>1, <1>0, <1>1 DEF PositionsOf
  <2>3. Positions'
    BY <2>1, <1>0, <1>1 DEF Positions, PositionsOf
  <2>. QED BY <2>1, <2>3, <1>0
<1>2. CASE window + 1 = st /\ st + hole < incount
  <2>1. /\ start' = st + 1
        /\ quadrants' = IF hole > 0 THEN [arr EXCEPT ![st + 1] = arr[st + hole + 1]] ELSE arr
    BY <1>0, <1>2 DEF CloseHole
  <2>2. st + 1 \in 1 .. incount /\ st + hole + 1 \in 1 .. incount
    BY <1>0, <1>2
  <2>3. /\ quadrants' \in Seq(Quadrants) /\ Len(quadrants') = incount
        /\ quadrants'[st + 1] = arr[st + hole + 1]
        /\ \A i \in 1 .. incount : i # st + 1 => quadrants'[i] = arr[i]
    <3>1. CASE hole > 0
      BY <3>1, <2>1, <2>2, <1>0
    <3>2. CASE ~ (hole > 0)
      BY <3>2, <2>1, <1>0
    <3>. QED BY <3>1, <3>2
  <2>4. PositionsOf(quadrants', window', start', length')
    BY <2>1, <2>3, <1>0, <1>2 DEF PositionsOf
  <2>5. Positions'
    BY <2>1, <2>3, <1>0, <1>2 DEF Positions, PositionsOf
  <2>. DEFINE s == ClosedOf(arr, st, hole)
              t == ClosedOf(quadrants', st + 1, hole)
  <2>6. /\ s \in Seq(Quadrants) /\ Len(s) = incount - hole
        /\ \A i \in 1 .. incount - hole : s[i] = IF i <= st THEN arr[i] ELSE arr[i + hole]
    BY ClosedElements
  <2>7. /\ t \in Seq(Quadrants) /\ Len(t) = incount - hole
        /\ \A i \in 1 .. incount - hole :
             t[i] = IF i <= st + 1 THEN quadrants'[i] ELSE quadrants'[i + hole]
    <3>1. PositionsOf(quadrants', window', st + 1, hole)
      BY <2>1, <2>4, <1>0
    <3>. QED BY <3>1, ClosedElements
  <2>. HIDE DEF s, t
  <2>8. ASSUME NEW i \in 1 .. incount - hole PROVE t[i] = s[i]
    <3>1. CASE i <= st
      <4>1. i \in 1 .. incount /\ i # st + 1
        BY <3>1, <1>0
      <4>. QED BY <3>1, <4>1, <2>3, <2>6, <2>7, <1>0
    <3>2. CASE i = st + 1
      BY <3>2, <2>3, <2>6, <2>7, <1>0
    <3>3. CASE i > st + 1
      <4>1. i + hole \in 1 .. incount /\ i + hole # st + 1
        BY <3>3, <1>0
      <4>2. s[i] = arr[i + hole]
        BY <3>3, <2>6, <1>0
      <4>3. t[i] = quadrants'[i + hole]
        BY <3>3, <2>7, <1>0
      <4>. QED BY <4>1, <4>2, <4>3, <2>3
    <3>. QED BY <3>1, <3>2, <3>3, <1>0
  <2>9. t = s
    BY <2>6, <2>7, <2>8, <1>0, SeqEqual
  <2>. QED BY <2>1, <2>5, <2>9, <1>0 DEF s, t
<1>. QED BY <1>1, <1>2

\* What the window shows is the closed array from position window on.
LEMMA MembersClosed ==
  ASSUME Positions, WindowFits
  PROVE  /\ \A zz \in 0 .. CHILDREN - 1 : Member(zz) = Closed[window + zz + 1]
         /\ HaveFamily => NumbersAt(Closed, window)
         /\ Closed \in Seq(Quadrants) /\ Len(Closed) = incount - length
         /\ window < start
<1>0. /\ CHILDREN \in Nat /\ CHILDREN > 1
      /\ quadrants \in Seq(Quadrants) /\ Len(quadrants) = incount /\ incount \in Nat
      /\ window \in Nat /\ length \in Nat /\ start \in Nat /\ start + length <= incount
      /\ window <= start /\ (window = start => start + length = incount)
      /\ window + CHILDREN + length <= incount
  BY ChildrenAssumption DEF Positions, PositionsOf, WindowFits
<1>1. /\ Closed \in Seq(Quadrants) /\ Len(Closed) = incount - length
      /\ \A i \in 1 .. incount - length :
           Closed[i] = IF i <= start THEN quadrants[i] ELSE quadrants[i + length]
  <2>1. PositionsOf(quadrants, window, start, length) /\ Closed = ClosedOf(quadrants, start, length)
    BY DEF Positions, Closed, ClosedOf
  <2>. QED BY <2>1, ClosedElements
<1>2. ASSUME NEW zz \in 0 .. CHILDREN - 1
      PROVE  Member(zz) = Closed[window + zz + 1]
  <2>1. window + zz + 1 \in 1 .. incount - length /\ zz \in Nat
    BY <1>0
  <2>2. CASE window + zz < start
    BY <2>1, <2>2, <1>0, <1>1 DEF Member, Element
  <2>3. CASE ~ (window + zz < start)
    <3>1. ~ (window + zz + 1 <= start) /\ window + length + zz + 1 = window + zz + 1 + length
      BY <2>1, <2>3, <1>0
    <3>. QED BY <3>1, <2>1, <2>3, <1>0, <1>1 DEF Member, Element
  <2>. QED BY <2>2, <2>3
<1>3. window < start
  BY <1>0
<1>4. window + CHILDREN <= Len(Closed)
  BY <1>0, <1>1
<1>5. HaveFamily => NumbersAt(Closed, window)
  BY <1>0, <1>2, <1>4 DEF HaveFamily, NumbersAt
<1>. QED BY <1>1, <1>2, <1>3, <1>5

\* A merge replaces the family in the window by its parent, in its place, and the
\* hole grows by the rest of the family.
LEMMA CoarsenMerges ==
  ASSUME IInv, Coarsen
  PROVE  /\ Positions'
         /\ MergedAt(Closed, Closed', window) /\ NumbersAt(Closed, window)
         /\ Parent(Closed[window + 1]) \in call.coarsen_fn
<1>. DEFINE cfirst == Parent(Member(0))
            arr    == [quadrants EXCEPT ![window + 1] = cfirst]
            hole   == length + (CHILDREN - 1)
            s      == Closed
<1>0. /\ pc = "window" /\ WindowFits /\ HaveFamily /\ cfirst \in call.coarsen_fn
      /\ length' = hole /\ call' = call
      /\ IF BackTo(ChildId(cfirst))
         THEN window' = window - ChildId(cfirst) /\ start' = window + 1 /\ quadrants' = arr
         ELSE CloseHole(arr, window + 1, length')
  BY DEF Coarsen, HoleGrowth
<1>1. Positions /\ Gapless(s)
  BY <1>0 DEF IInv
<1>2. /\ \A zz \in 0 .. CHILDREN - 1 : Member(zz) = s[window + zz + 1]
      /\ NumbersAt(s, window)
      /\ s \in Seq(Quadrants) /\ Len(s) = incount - length
      /\ window < start
  BY <1>0, <1>1, MembersClosed
<1>3. /\ CHILDREN \in Nat /\ CHILDREN > 1
      /\ quadrants \in Seq(Quadrants) /\ Len(quadrants) = incount /\ incount \in Nat
      /\ window \in Nat /\ length \in Nat /\ start \in Nat /\ start + length <= incount
      /\ start <= window + CHILDREN
      /\ window + CHILDREN + length <= incount
      /\ incount' = incount
  BY <1>0, <1>1, ChildrenAssumption DEF Positions, PositionsOf, WindowFits, incount
<1>4. cfirst = Parent(s[window + 1]) /\ cfirst \in Quadrants
  <2>1. 0 \in 0 .. CHILDREN - 1 /\ window + 0 + 1 = window + 1 /\ window + 1 \in 1 .. Len(s)
    BY <1>2, <1>3
  <2>2. cfirst = Parent(s[window + 1])
    BY <2>1, <1>2
  <2>3. s[window + 1] \in Quadrants
    BY <2>1, <1>2
  <2>4. Len(s[window + 1]) > 0
    BY <1>1, <1>2, NumbersAreFamily
  <2>. HIDE DEF s, cfirst
  <2>. QED BY <2>2, <2>3, <2>4, ParentElements
<1>. HIDE DEF cfirst, hole, s
<1>5. /\ arr \in Seq(Quadrants) /\ Len(arr) = incount /\ arr[window + 1] = cfirst
      /\ \A i \in 1 .. incount : i # window + 1 => arr[i] = quadrants[i]
  BY <1>3, <1>4
<1>6. ChildId(cfirst) \in 0 .. CHILDREN - 1
  BY <1>4, ChildIdType
<1>. HIDE DEF arr
<1>7. hole \in Nat /\ window + 1 + hole <= incount /\ hole = length + CHILDREN - 1
  BY <1>3 DEF hole
<1>8. PositionsOf(arr, window, window + 1, hole)
  BY <1>3, <1>5, <1>7 DEF PositionsOf
<1>. DEFINE t == ClosedOf(arr, window + 1, hole)
<1>9. /\ t \in Seq(Quadrants) /\ Len(t) = incount - hole
      /\ \A i \in 1 .. incount - hole : t[i] = IF i <= window + 1 THEN arr[i] ELSE arr[i + hole]
  BY <1>8, ClosedElements
<1>10. \A i \in 1 .. incount - length :
         s[i] = IF i <= start THEN quadrants[i] ELSE quadrants[i + length]
  <2>1. PositionsOf(quadrants, window, start, length) /\ s = ClosedOf(quadrants, start, length)
    BY <1>1 DEF Positions, Closed, ClosedOf, s
  <2>. QED BY <2>1, ClosedElements
<1>. HIDE DEF t
<1>11. MergedAt(s, t, window)
  <2>1. Len(t) = Len(s) - CHILDREN + 1
    <3>1. Len(t) = incount - hole /\ Len(s) = incount - length
      BY <1>2, <1>9
    <3>2. /\ hole = length + CHILDREN - 1 /\ CHILDREN \in Nat /\ length \in Nat
          /\ incount \in Nat
      BY <1>3, <1>7
    <3>. QED BY <3>1, <3>2
  <2>2. ASSUME NEW i \in 1 .. window PROVE t[i] = s[i]
    <3>1. /\ i \in 1 .. incount /\ i # window + 1 /\ i <= window + 1 /\ i <= start
          /\ i \in 1 .. incount - hole /\ i \in 1 .. incount - length
      BY <1>2, <1>3, <1>7
    <3>2. t[i] = arr[i]
      BY <3>1, <1>9
    <3>3. arr[i] = quadrants[i]
      BY <3>1, <1>5
    <3>4. s[i] = quadrants[i]
      BY <3>1, <1>10
    <3>. QED BY <3>2, <3>3, <3>4
  <2>3. t[window + 1] = Parent(s[window + 1])
    <3>1. window + 1 \in 1 .. incount - hole
      BY <1>3, <1>7
    <3>. QED BY <3>1, <1>4, <1>5, <1>9
  <2>4. ASSUME NEW i \in window + 2 .. Len(t) PROVE t[i] = s[i + CHILDREN - 1]
    <3>1. /\ i \in 1 .. incount - hole /\ ~ (i <= window + 1)
          /\ i + hole \in 1 .. incount /\ i + hole # window + 1
      BY <1>3, <1>7, <1>9
    <3>2. t[i] = quadrants[i + hole]
      BY <3>1, <1>5, <1>9
    <3>. DEFINE j == i + CHILDREN - 1
    <3>3. j \in 1 .. incount - length /\ ~ (j <= start) /\ j + length = i + hole
      BY <3>1, <1>3, <1>7
    <3>. HIDE DEF j
    <3>4. s[j] = quadrants[i + hole]
      BY <3>3, <1>10
    <3>. QED BY <3>2, <3>4 DEF j
  <2>. QED BY <2>1, <2>2, <2>3, <2>4, <1>9 DEF MergedAt
<1>12. Positions' /\ Closed' = t
  <2>1. CASE BackTo(ChildId(cfirst))
    <3>1. /\ window' = window - ChildId(cfirst) /\ start' = window + 1 /\ quadrants' = arr
          /\ ChildId(cfirst) <= window
      BY <1>0, <2>1 DEF BackTo
    <3>2. Positions'
      BY <3>1, <1>0, <1>3, <1>5, <1>6, <1>7 DEF Positions, PositionsOf
    <3>3. Closed' = t
      BY <3>1, <1>0, <1>3 DEF Closed, ClosedOf, t
    <3>. QED BY <3>2, <3>3
  <2>2. CASE ~ BackTo(ChildId(cfirst))
    <3>1. CloseHole(arr, window + 1, hole)
      BY <1>0, <2>2
    <3>2. window < window + 1
      BY <1>3
    <3>3. Positions' /\ ClosedOf(quadrants', start', length') = t
      BY <3>1, <3>2, <1>0, <1>8, CloseHoleKeeps DEF t
    <3>4. Closed' = ClosedOf(quadrants', start', length')
      BY <1>3 DEF Closed, ClosedOf
    <3>. QED BY <3>3, <3>4
  <2>. QED BY <2>1, <2>2
<1>. QED BY <1>0, <1>2, <1>4, <1>11, <1>12 DEF s

\* When nothing is merged, the window moves on over the same leaves.
LEMMA MovesOn ==
  ASSUME IInv, Orphan \/ Decline
  PROVE  Positions' /\ Closed' = Closed /\ pc' = pc /\ call' = call
<1>1. /\ pc = "window" /\ WindowFits /\ CloseHole(quadrants, start, length)
      /\ length' = length /\ call' = call /\ pc' = pc
  BY DEF Orphan, Decline
<1>2. Positions
  BY <1>1 DEF IInv
<1>3. window < start
  BY <1>1, <1>2, MembersClosed
<1>4. Positions' /\ ClosedOf(quadrants', start', length') = ClosedOf(quadrants, start, length)
  BY <1>1, <1>2, <1>3, CloseHoleKeeps DEF Positions
<1>5. Closed' = ClosedOf(quadrants', start', length') /\ Closed = ClosedOf(quadrants, start, length)
  BY <1>1 DEF Closed, ClosedOf, incount
<1>. QED BY <1>1, <1>4, <1>5

\* The hole is closed at the end.
LEMMA FinishKeeps ==
  ASSUME IInv, Finish
  PROVE  pc' = "done" /\ call' = call /\ Leaves' = Leaves
BY DEF Finish, Leaves

(***************************************************************************)
(* The invariant.                                                          *)
(***************************************************************************)
\* The window starts in front of an empty hole.
LEMMA InitIInv ==
  ASSUME CallsAssumption, Init
  PROVE  IInv /\ Closed = call.input
<1>1. /\ call \in Calls /\ pc = "window" /\ quadrants = call.input
      /\ window = 0 /\ start = 1 /\ length = 0
      /\ call.input \in Seq(Quadrants) /\ call.input # << >> /\ Gapless(call.input)
  BY DEF Init, CallsAssumption
<1>. DEFINE s == call.input
<1>2. s \in Seq(Quadrants) /\ Len(s) \in Nat /\ Len(s) > 0
  <2>1. Len(s) # 0
    BY <1>1
  <2>. QED BY <1>1, <2>1
<1>3. Positions
  BY <1>1, <1>2, ChildrenAssumption DEF Positions, PositionsOf, incount
<1>4. Closed = ClosedOf(s, 1, 0)
  BY <1>1 DEF Closed, ClosedOf
<1>5. PositionsOf(s, 0, 1, 0)
  BY <1>1, <1>3 DEF Positions
<1>. DEFINE c == ClosedOf(s, 1, 0)
<1>6. /\ c \in Seq(Quadrants) /\ Len(c) = incount - 0
      /\ \A i \in 1 .. incount - 0 : c[i] = IF i <= 1 THEN s[i] ELSE s[i + 0]
  BY <1>5, ClosedElements
<1>7. incount = Len(s)
  BY DEF incount
<1>. HIDE DEF c, s
<1>8. c = s
  <2>1. Len(c) = Len(s) /\ \A i \in 1 .. Len(c) : c[i] = s[i]
    BY <1>2, <1>6, <1>7
  <2>. QED BY <1>2, <1>6, <2>1, SeqEqual
<1>. QED BY <1>1, <1>3, <1>4, <1>8 DEF IInv, c, s

\* Every step keeps the leaves gapless and the window in place.
LEMMA NextIInv ==
  ASSUME IInv, [Next]_vars
  PROVE  IInv'
<1>1. CASE Orphan \/ Decline
  <2>1. Positions' /\ Closed' = Closed /\ pc' = pc /\ call' = call
    BY <1>1, MovesOn
  <2>2. pc = "window" /\ Gapless(Closed)
    BY <1>1 DEF IInv, Orphan, Decline
  <2>. QED BY <2>1, <2>2 DEF IInv
<1>2. CASE Coarsen
  <2>1. Positions' /\ MergedAt(Closed, Closed', window) /\ NumbersAt(Closed, window)
    BY <1>2, CoarsenMerges
  <2>2. pc = "window" /\ pc' = pc /\ call' = call /\ WindowFits
    BY <1>2 DEF Coarsen
  <2>3. Gapless(Closed) /\ Positions
    BY <2>2 DEF IInv
  <2>4. Closed \in Seq(Quadrants)
    BY <2>2, <2>3, MembersClosed
  <2>5. Gapless(Closed)'
    <3>. DEFINE s == Closed
                t == Closed'
    <3>1. /\ s \in Seq(Quadrants) /\ Gapless(s) /\ NumbersAt(s, window)
          /\ MergedAt(s, t, window)
      BY <2>1, <2>3, <2>4
    <3>. HIDE DEF s, t
    <3>2. Gapless(t)
      BY <3>1, MergeKeepsGapless
    <3>. QED BY <3>2 DEF t, Gapless
  <2>. QED BY <2>1, <2>2, <2>5 DEF IInv
<1>3. CASE Finish
  BY <1>3, FinishKeeps DEF IInv
<1>4. CASE UNCHANGED vars
  BY <1>4 DEF IInv, vars, Positions, PositionsOf, incount, Closed, Gapless
<1>. QED BY <1>1, <1>2, <1>3, <1>4 DEF Next

\* The hole never reaches past the end nor overtakes the window, and the leaves
\* around it stay gapless.
THEOREM Invariance ==
  ASSUME CallsAssumption
  PROVE  Spec => []IInv
<1>1. Init => IInv
  BY InitIInv
<1>2. IInv /\ [Next]_vars => IInv'
  BY NextIInv
<1>. QED BY <1>1, <1>2, PTL DEF Spec

\* The assertion in the loop of p4est_coarsen_ext: a window of consecutive
\* child numbers is a family, also when it looks across the hole or starts at
\* a parent that this call has made.
THEOREM WindowsAreFamilies ==
  ASSUME CallsAssumption
  PROVE  Spec => []ConsecutiveIdsAreFamily
<1>1. IInv => ConsecutiveIdsAreFamily
  <2>1. SUFFICES ASSUME IInv, pc = "window", WindowFits, HaveFamily
                 PROVE  IsFamily(Members)
    BY DEF ConsecutiveIdsAreFamily
  <2>. DEFINE s == Closed
  <2>2. /\ \A zz \in 0 .. CHILDREN - 1 : Member(zz) = s[window + zz + 1]
        /\ NumbersAt(s, window) /\ s \in Seq(Quadrants) /\ Gapless(s)
    BY <2>1, MembersClosed DEF IInv
  <2>. HIDE DEF s
  <2>3. /\ Len(s[window + 1]) > 0
        /\ \A z \in 0 .. CHILDREN - 1 : s[window + z + 1] = Sibling(s[window + 1], z)
    BY <2>2, NumbersAreFamily
  <2>4. window \in Nat /\ CHILDREN \in Nat /\ CHILDREN > 1
    BY <2>1, ChildrenAssumption DEF IInv, Positions, PositionsOf
  <2>5. ASSUME NEW i \in 1 .. CHILDREN
        PROVE  Members[i] = Sibling(s[window + 1], i - 1)
    <3>1. i - 1 \in 0 .. CHILDREN - 1 /\ Members[i] = Member(i - 1)
      BY <2>4 DEF Members
    <3>. QED BY <3>1, <2>2, <2>3
  <2>6. Members[1] = s[window + 1]
    <3>1. 0 \in 0 .. CHILDREN - 1 /\ 1 \in 1 .. CHILDREN /\ window + 0 + 1 = window + 1
      BY <2>4
    <3>2. Members[1] = Member(0)
      BY <3>1 DEF Members
    <3>. QED BY <3>1, <3>2, <2>2
  <2>. QED BY <2>3, <2>5, <2>6 DEF IsFamily, Level
<1>. QED BY <1>1, Invariance, PTL

(***************************************************************************)
(* The abstract specification.                                             *)
(***************************************************************************)
\* A merge in the array is a merge of the leaves.
LEMMA CoarsenImpl ==
  ASSUME IInv, Coarsen
  PROVE  Abs!Merge
<1>. DEFINE s == Closed
            t == Closed'
            w == window
<1>1. /\ pc = "window" /\ pc' = pc /\ call' = call /\ WindowFits
  BY DEF Coarsen
<1>2. Leaves = s /\ Leaves' = t
  BY <1>1 DEF Leaves
<1>3. /\ MergedAt(s, t, w) /\ NumbersAt(s, w) /\ Parent(s[w + 1]) \in call.coarsen_fn
  BY CoarsenMerges
<1>4. s \in Seq(Quadrants) /\ Gapless(s)
  BY <1>1, MembersClosed DEF IInv
<1>. HIDE DEF s, t, w
<1>5. /\ CHILDREN \in Nat /\ CHILDREN > 1 /\ w \in Nat /\ Len(s) \in Nat /\ w + CHILDREN <= Len(s)
  BY <1>3, <1>4, ChildrenAssumption DEF NumbersAt
<1>6. /\ Len(s[w + 1]) > 0
      /\ \A z \in 0 .. CHILDREN - 1 : s[w + z + 1] = Sibling(s[w + 1], z)
  BY <1>3, <1>4, NumbersAreFamily
<1>. DEFINE i == w + 1
            last == i + CHILDREN - 1
            f == SubSeq(s, i, last)
<1>7. i \in 1 .. Len(s) - CHILDREN + 1 /\ i \in 1 .. Len(s)
  BY <1>5
<1>8. IsFamily(f)
  <2>1. \A z \in 1 .. CHILDREN : f[z] = s[w + z]
    <3>1. f = [z \in 1 .. last - i + 1 |-> s[i + z - 1]]
      BY <1>4, <1>5
    <3>2. last - i + 1 = CHILDREN /\ \A z \in 1 .. CHILDREN : i + z - 1 = w + z
      BY <1>5
    <3>. HIDE DEF f, i, last
    <3>. QED BY <3>1, <3>2
  <2>2. f[1] = s[w + 1]
    BY <2>1, <1>5
  <2>3. \A z \in 1 .. CHILDREN : f[z] = Sibling(s[w + 1], z - 1)
    <3>1. ASSUME NEW z \in 1 .. CHILDREN PROVE f[z] = Sibling(s[w + 1], z - 1)
      <4>1. z - 1 \in 0 .. CHILDREN - 1 /\ w + (z - 1) + 1 = w + z
        BY <1>5
      <4>2. s[w + (z - 1) + 1] = Sibling(s[w + 1], z - 1)
        BY <4>1, <1>6
      <4>. HIDE DEF f
      <4>. QED BY <4>1, <4>2, <2>1
    <3>. QED BY <3>1
  <2>. HIDE DEF f
  <2>. QED BY <2>2, <2>3, <1>6 DEF IsFamily, Level
<1>. DEFINE p == Parent(s[i])
            a == SubSeq(s, 1, i - 1)
            m == i + CHILDREN
            b == SubSeq(s, m, Len(s))
<1>9. /\ t \in Seq(Quadrants) /\ Len(t) = Len(s) - CHILDREN + 1
      /\ \A j \in 1 .. w : t[j] = s[j]
      /\ t[w + 1] = p
      /\ \A j \in w + 2 .. Len(t) : t[j] = s[j + CHILDREN - 1]
  BY <1>3 DEF MergedAt
<1>10. p \in Quadrants
  BY <1>5, <1>9
<1>11. a \in Seq(Quadrants) /\ Len(a) = w /\ \A j \in 1 .. w : a[j] = s[j]
  <2>1. a = SubSeq(s, 1, w) /\ w <= Len(s)
    BY <1>5
  <2>. HIDE DEF a
  <2>. QED BY <2>1, <1>4, <1>5, SubSeqProperties
<1>12. /\ b \in Seq(Quadrants) /\ Len(b) = Len(s) - CHILDREN - w
       /\ \A j \in 1 .. Len(b) : b[j] = s[w + CHILDREN + j]
  <2>. DEFINE k == w + CHILDREN
  <2>1. k \in Nat /\ k <= Len(s) /\ m = k + 1 /\ Len(s) - k = Len(s) - CHILDREN - w
    BY <1>5
  <2>2. b = SubSeq(s, k + 1, Len(s))
    BY <2>1
  <2>. HIDE DEF k, m, b, i
  <2>3. /\ b \in Seq(Quadrants) /\ Len(b) = Len(s) - k
        /\ \A j \in 1 .. Len(s) - k : b[j] = s[k + j]
    BY <2>1, <2>2, <1>4, SuffixElements
  <2>. QED BY <2>1, <2>3 DEF k
<1>. HIDE DEF p, a, b, f
<1>13. t = a \o << p >> \o b
  <2>. DEFINE ap == a \o << p >>
  <2>1. /\ ap \in Seq(Quadrants) /\ Len(ap) = w + 1 /\ ap[w + 1] = p
        /\ \A j \in 1 .. w : ap[j] = a[j]
    BY <1>5, <1>10, <1>11
  <2>. HIDE DEF ap
  <2>2. Len(t) = Len(ap) + Len(b)
    BY <2>1, <1>5, <1>9, <1>12
  <2>3. \A j \in 1 .. Len(ap) : t[j] = ap[j]
    BY <2>1, <1>5, <1>9, <1>11
  <2>4. ASSUME NEW j \in 1 .. Len(b) PROVE t[Len(ap) + j] = b[j]
    <3>1. w + 1 + j \in w + 2 .. Len(t) /\ (w + 1 + j) + CHILDREN - 1 = w + CHILDREN + j
      BY <2>1, <1>5, <1>9, <1>12
    <3>. QED BY <3>1, <2>1, <1>9, <1>12
  <2>5. t = ap \o b
    BY <2>1, <2>2, <2>3, <2>4, <1>9, <1>12, ConcatEqual
  <2>. QED BY <2>5 DEF ap
<1>14. /\ i \in 1 .. Len(Leaves) - CHILDREN + 1
       /\ Abs!IsFamily(Abs!FamilyAt(i))
       /\ Abs!Parent(Leaves[i]) \in call.coarsen_fn
       /\ Leaves' = SubSeq(Leaves, 1, i - 1) \o << Abs!Parent(Leaves[i]) >>
                      \o SubSeq(Leaves, i + CHILDREN, Len(Leaves))
  <2>1. Abs!FamilyAt(i) = f
    BY <1>2 DEF Abs!FamilyAt, f
  <2>2. Abs!IsFamily(f)
    BY <1>8 DEF Abs!IsFamily, IsFamily, Abs!Sibling, Sibling, Abs!Parent, Parent,
                Abs!Ancestor, Ancestor, Abs!Level, Level
  <2>3. Abs!Parent(Leaves[i]) = p
    BY <1>2 DEF Abs!Parent, Parent, Abs!Ancestor, Ancestor, Abs!Level, Level, p
  <2>4. p \in call.coarsen_fn
    BY <1>3 DEF p
  <2>5. Leaves' = SubSeq(Leaves, 1, i - 1) \o << p >> \o SubSeq(Leaves, i + CHILDREN, Len(Leaves))
    BY <1>2, <1>13 DEF a, b
  <2>. QED BY <1>2, <1>7, <2>1, <2>2, <2>3, <2>4, <2>5
<1>. QED BY <1>1, <1>14 DEF Abs!Merge

\* The sliding window with its hole implements the abstract coarsening:
\* whatever it does to the array, the leaves only ever change by replacing one
\* accepted family, in its place, by its parent.
THEOREM Coarsening ==
  ASSUME CallsAssumption
  PROVE  Spec => ImplementsAbs
<1>1. Init => Abs!Init
  <2>1. ASSUME Init PROVE Leaves = call.input
    BY <2>1, InitIInv DEF Leaves, Init
  <2>. QED BY <2>1 DEF Abs!Init
<1>2. IInv /\ [Next]_vars => [Abs!Merge]_(<< call, Leaves >>)
  <2>1. SUFFICES ASSUME IInv, [Next]_vars
                 PROVE  Abs!Merge \/ (call' = call /\ Leaves' = Leaves)
    OBVIOUS
  <2>2. CASE Coarsen
    BY <2>1, <2>2, CoarsenImpl
  <2>3. CASE Orphan \/ Decline
    BY <2>1, <2>3, MovesOn DEF Leaves, Orphan, Decline
  <2>4. CASE Finish
    BY <2>1, <2>4, FinishKeeps
  <2>5. CASE UNCHANGED vars
    BY <2>5 DEF vars, Leaves, Closed, incount
  <2>. QED BY <2>1, <2>2, <2>3, <2>4, <2>5 DEF Next
<1>. QED BY <1>1, <1>2, Invariance, PTL DEF Spec, ImplementsAbs, Abs!Spec

(***************************************************************************)
(* What is left at the end.                                                *)
(***************************************************************************)
\* Wherever the hole is, what is around it is an array of quadrants.
LEMMA ClosedType == Positions => Closed \in Seq(Quadrants)
  BY ClosedElements DEF Positions, Closed, ClosedOf

\* The leaves are without a hole, before and after the hole is closed.
LEMMA LeavesGapless ==
  ASSUME CallsAssumption
  PROVE  Spec => [](Leaves \in Seq(Quadrants) /\ Gapless(Leaves))
<1>1. ASSUME Init PROVE Leaves \in Seq(Quadrants) /\ Gapless(Leaves)
  BY <1>1, InitIInv DEF CallsAssumption, Init, Leaves
<1>2. ASSUME IInv, Leaves \in Seq(Quadrants), Gapless(Leaves), [Next]_vars, IInv'
      PROVE  (Leaves \in Seq(Quadrants) /\ Gapless(Leaves))'
  <2>1. CASE pc' = "window"
    <3>1. Leaves' = Closed' /\ Gapless(Closed)' /\ Positions'
      BY <1>2, <2>1 DEF IInv, Leaves
    <3>2. Positions' => (Closed \in Seq(Quadrants))'
      BY ClosedType, PTL
    <3>. QED BY <3>1, <3>2 DEF Gapless
  <2>2. CASE Finish \/ UNCHANGED vars
    <3>1. Leaves' = Leaves
      BY <2>2, FinishKeeps, <1>2 DEF vars, Leaves, Closed, incount
    <3>. QED BY <3>1, <1>2 DEF Gapless
  <2>. QED BY <1>2, <2>1, <2>2 DEF IInv, Next, Orphan, Decline, Coarsen
<1>. QED BY <1>1, <1>2, Invariance, PTL DEF Spec

\* p4est_tree_is_linear and p4est_tree_is_complete hold for the part of the
\* tree that a process has, at every stage and for what the call leaves.
THEOREM StaysTree ==
  ASSUME CallsAssumption
  PROVE  Spec => [](TreeIsLinear(Leaves) /\ TreeIsComplete(Leaves))
<1>1. Leaves \in Seq(Quadrants) /\ Gapless(Leaves) => TreeIsLinear(Leaves) /\ TreeIsComplete(Leaves)
  <2>. DEFINE s == Leaves
  <2>. HIDE DEF s
  <2>1. s \in Seq(Quadrants) /\ Gapless(s) => TreeIsLinear(s) /\ TreeIsComplete(s)
    BY GaplessTree
  <2>. QED BY <2>1 DEF s
<1>. QED BY <1>1, LeavesGapless, PTL

\* The window from position w on is done with: its quadrants are no family, or
\* one that is not accepted, or the call does not look at its own parents again
\* and one of them is such a parent.
Old == { call.input[i] : i \in 1 .. incount }
Settled(s, w) ==
  (NumbersAt(s, w) /\ Parent(s[w + 1]) \in call.coarsen_fn) =>
     /\ ~ call.coarsen_recursive
     /\ \E z \in 0 .. CHILDREN - 1 : s[w + z + 1] \notin Old

\* No family is passed over: every window the loop has left behind is settled,
\* and without recursion it has only input before it.
Swept ==
  /\ pc = "window" => /\ \A w \in Nat : w < window => Settled(Closed, w)
                      /\ ~ call.coarsen_recursive =>
                           \A i \in window + 1 .. Len(Closed) : Closed[i] \in Old
  /\ pc = "done" => \A w \in Nat : Settled(quadrants, w)

\* Nothing is left behind at the start.
LEMMA InitSwept ==
  ASSUME CallsAssumption, Init
  PROVE  Swept
<1>1. Closed = call.input /\ window = 0 /\ pc = "window" /\ call \in Calls
  BY InitIInv DEF Init
<1>2. \A i \in window + 1 .. Len(Closed) : Closed[i] \in Old
  BY <1>1 DEF Old, incount
<1>. QED BY <1>1, <1>2 DEF Swept

\* A merge settles the windows it jumps over and unsettles none that stays behind.
LEMMA MergeSettles ==
  ASSUME NEW s \in Seq(Quadrants), NEW t, NEW win, NEW new \in Nat,
         Gapless(s), NumbersAt(s, win), MergedAt(s, t, win),
         \A w \in Nat : w < win => Settled(s, w),
         call.coarsen_recursive =>
           new = IF ChildId(t[win + 1]) <= win THEN win - ChildId(t[win + 1]) ELSE win + 1,
         ~ call.coarsen_recursive => new = win + 1 /\ t[win + 1] \notin Old
  PROVE  \A w \in Nat : w < new => Settled(t, w)
<1>. SUFFICES ASSUME NEW w \in Nat, w < new, NumbersAt(t, w), Parent(t[w + 1]) \in call.coarsen_fn
              PROVE  /\ ~ call.coarsen_recursive
                     /\ \E z \in 0 .. CHILDREN - 1 : t[w + z + 1] \notin Old
  BY DEF Settled
<1>0. /\ CHILDREN \in Nat /\ CHILDREN > 1 /\ win \in Nat /\ Len(s) \in Nat
      /\ win + CHILDREN <= Len(s) /\ Len(t) = Len(s) - CHILDREN + 1
      /\ t \in Seq(Quadrants)
      /\ \A i \in 1 .. win : t[i] = s[i]
  BY ChildrenAssumption DEF NumbersAt, MergedAt
<1>1. ChildId(t[win + 1]) \in 0 .. CHILDREN - 1
  <2>. DEFINE p == t[win + 1]
  <2>1. p \in Quadrants
    <3>1. win + 1 \in 1 .. Len(t)
      BY <1>0
    <3>. QED BY <3>1, <1>0
  <2>. HIDE DEF p
  <2>2. ChildId(p) \in 0 .. CHILDREN - 1
    BY <2>1, ChildIdType
  <2>. QED BY <2>2 DEF p
<1>2. w <= win
  BY <1>0, <1>1
<1>3. CASE w + CHILDREN <= win
  <2>1. ASSUME NEW z \in 0 .. CHILDREN - 1
        PROVE  w + z + 1 \in 1 .. win /\ t[w + z + 1] = s[w + z + 1]
    <3>1. w + z + 1 \in 1 .. win
      BY <1>0, <1>3
    <3>. QED BY <3>1, <1>0
  <2>2. w + 1 \in 1 .. win /\ t[w + 1] = s[w + 1]
    BY <1>0, <1>3
  <2>3. NumbersAt(s, w)
    BY <1>0, <1>3, <2>1 DEF NumbersAt
  <2>4. Settled(s, w)
    BY <1>0, <1>3
  <2>. QED BY <2>1, <2>2, <2>3, <2>4 DEF Settled
<1>4. CASE win < w + CHILDREN
  <2>. DEFINE z == win - w
  <2>1. z \in 0 .. CHILDREN - 1 /\ w + z + 1 = win + 1
    BY <1>0, <1>2, <1>4
  <2>2. ChildId(t[win + 1]) = z
    BY <2>1 DEF NumbersAt
  <2>3. ~ call.coarsen_recursive
    BY <2>1, <2>2, <1>0
  <2>. QED BY <2>1, <2>3
<1>. QED BY <1>0, <1>3, <1>4

\* Every step leaves only settled windows behind.
LEMMA NextSwept ==
  ASSUME CallsAssumption, IInv, Swept, [Next]_vars
  PROVE  Swept'
<1>1. CASE Orphan \/ Decline
  <2>1. Positions' /\ Closed' = Closed /\ pc' = pc /\ call' = call
    BY <1>1, MovesOn
  <2>2. pc = "window" /\ WindowFits /\ Positions /\ window' = window + 1
    BY <1>1 DEF Orphan, Decline, IInv, CloseHole
  <2>. DEFINE s == Closed
  <2>3. /\ \A zz \in 0 .. CHILDREN - 1 : Member(zz) = s[window + zz + 1]
        /\ window \in Nat /\ CHILDREN \in Nat /\ CHILDREN > 1 /\ Len(s) \in Nat
    BY <2>2, MembersClosed, ChildrenAssumption DEF Positions, PositionsOf
  <2>4. Settled(s, window)
    <3>1. NumbersAt(s, window) => HaveFamily
      BY <2>3 DEF NumbersAt, HaveFamily
    <3>2. Member(0) = s[window + 1]
      <4>1. 0 \in 0 .. CHILDREN - 1 /\ window + 0 + 1 = window + 1
        BY <2>3
      <4>. QED BY <4>1, <2>3
    <3>3. ~ HaveFamily \/ Parent(Member(0)) \notin call.coarsen_fn
      BY <1>1 DEF Orphan, Decline
    <3>. HIDE DEF s
    <3>. QED BY <3>1, <3>2, <3>3 DEF Settled
  <2>5. /\ \A w \in Nat : w < window => Settled(s, w)
        /\ ~ call.coarsen_recursive => \A i \in window + 1 .. Len(s) : s[i] \in Old
    BY <2>2 DEF Swept
  <2>6. /\ \A w \in Nat : w < window' => Settled(s, w)
        /\ ~ call.coarsen_recursive => \A i \in window' + 1 .. Len(s) : s[i] \in Old
    <3>. HIDE DEF s
    <3>. QED BY <2>2, <2>3, <2>4, <2>5
  <2>. QED BY <2>1, <2>2, <2>6 DEF Swept, Settled, Old, incount
<1>2. CASE Coarsen
  <2>. DEFINE s == Closed
              t == Closed'
              p == t[window + 1]
  <2>1. /\ Positions' /\ MergedAt(s, t, window) /\ NumbersAt(s, window)
    BY <1>2, CoarsenMerges
  <2>2. pc = "window" /\ pc' = pc /\ call' = call /\ WindowFits
    BY <1>2 DEF Coarsen
  <2>3. Gapless(s) /\ Positions
    BY <2>2 DEF IInv
  <2>4. s \in Seq(Quadrants) /\ window \in Nat /\ Member(0) = s[window + 1]
    <3>1. /\ \A zz \in 0 .. CHILDREN - 1 : Member(zz) = s[window + zz + 1]
          /\ window \in Nat /\ CHILDREN \in Nat /\ CHILDREN > 1 /\ s \in Seq(Quadrants)
      BY <2>2, <2>3, MembersClosed, ChildrenAssumption DEF Positions, PositionsOf
    <3>2. 0 \in 0 .. CHILDREN - 1 /\ window + 0 + 1 = window + 1
      BY <3>1
    <3>. QED BY <3>1, <3>2
  <2>5. p = Parent(s[window + 1])
    BY <2>1 DEF MergedAt
  <2>6. window' = IF ChildId(p) <= window /\ call.coarsen_recursive
                  THEN window - ChildId(p) ELSE window + 1
    BY <1>2, <2>4, <2>5 DEF Coarsen, BackTo, CloseHole
  <2>7. /\ \A w \in Nat : w < window => Settled(s, w)
        /\ ~ call.coarsen_recursive => \A i \in window + 1 .. Len(s) : s[i] \in Old
    BY <2>2 DEF Swept
  <2>8. window' \in Nat
    BY <2>1 DEF Positions, PositionsOf
  <2>. HIDE DEF s, t
  <2>9. /\ CHILDREN \in Nat /\ CHILDREN > 1 /\ Len(s) \in Nat /\ window + CHILDREN <= Len(s)
        /\ Len(t) = Len(s) - CHILDREN + 1
        /\ \A i \in window + 2 .. Len(t) : t[i] = s[i + CHILDREN - 1]
    BY <2>1, <2>4, ChildrenAssumption DEF NumbersAt, MergedAt
  <2>10. ASSUME ~ call.coarsen_recursive PROVE p \notin Old
    <3>. DEFINE input == call.input
    <3>1. /\ input \in Seq(Quadrants) /\ Gapless(input)
      BY DEF IInv, CallsAssumption
    <3>2. window + 1 \in window + 1 .. Len(s)
      BY <2>4, <2>9
    <3>3. PICK i \in 1 .. incount : s[window + 1] = input[i]
      BY <2>7, <2>10, <3>2 DEF Old
    <3>4. Len(s[window + 1]) > 0
      BY <2>1, <2>3, <2>4, NumbersAreFamily
    <3>. HIDE DEF input
    <3>5. \A k \in 1 .. Len(input) : input[k] # Parent(input[i])
      <4>1. i \in 1 .. Len(input) /\ Len(input[i]) > 0
        BY <3>3, <3>4 DEF incount, input
      <4>. QED BY <4>1, <3>1, ParentIsNew
    <3>. QED BY <3>3, <3>5, <2>5 DEF Old, incount, input
  <2>11. \A w \in Nat : w < window' => Settled(t, w)
    <3>. DEFINE new == window'
    <3>1. new \in Nat
      BY <2>8
    <3>2. /\ call.coarsen_recursive =>
               new = IF ChildId(t[window + 1]) <= window
                     THEN window - ChildId(t[window + 1]) ELSE window + 1
          /\ ~ call.coarsen_recursive => new = window + 1 /\ t[window + 1] \notin Old
      BY <2>6, <2>10
    <3>. HIDE DEF new, p
    <3>3. \A w \in Nat : w < new => Settled(t, w)
      BY <3>1, <3>2, <2>1, <2>3, <2>4, <2>7, MergeSettles
    <3>. QED BY <3>3 DEF new
  <2>12. ~ call.coarsen_recursive => \A i \in window' + 1 .. Len(t) : t[i] \in Old
    <3>1. SUFFICES ASSUME ~ call.coarsen_recursive, NEW i \in window + 2 .. Len(t)
                   PROVE  t[i] \in Old
      BY <2>4, <2>6
    <3>2. i + CHILDREN - 1 \in window + 1 .. Len(s) /\ t[i] = s[i + CHILDREN - 1]
      BY <2>4, <2>9
    <3>. QED BY <3>1, <3>2, <2>7
  <2>. QED BY <2>2, <2>11, <2>12 DEF Swept, Settled, Old, incount, t
<1>3. CASE Finish
  <2>1. /\ pc = "window" /\ ~ WindowFits /\ pc' = "done" /\ quadrants' = Closed /\ call' = call
        /\ Positions
    BY <1>3 DEF Finish, IInv
  <2>. DEFINE s == Closed
  <2>2. Len(s) = incount - length /\ incount \in Nat /\ length \in Nat /\ window \in Nat
    BY <2>1, ClosedElements DEF Positions, Closed, ClosedOf, PositionsOf
  <2>3. \A w \in Nat : NumbersAt(s, w) => w < window
    BY <2>1, <2>2, ChildrenAssumption DEF WindowFits, NumbersAt
  <2>4. \A w \in Nat : w < window => Settled(s, w)
    BY <2>1 DEF Swept
  <2>5. \A w \in Nat : Settled(s, w)
    <3>. HIDE DEF s
    <3>. QED BY <2>3, <2>4 DEF Settled
  <2>. QED BY <2>1, <2>5 DEF Swept, Settled, Old, incount
<1>4. CASE UNCHANGED vars
  <2>1. /\ Closed' = Closed /\ pc' = pc /\ call' = call
        /\ window' = window /\ quadrants' = quadrants
    BY <1>4 DEF vars, Closed, incount
  <2>. QED BY <2>1 DEF Swept, Settled, Old, incount
<1>. QED BY <1>1, <1>2, <1>3, <1>4 DEF Next

\* A recursive call reaches its fixed point: no family that the callback accepts
\* is left, wherever it came from.  A call without recursion leaves only
\* families that hold a parent it has made itself.
THEOREM NoFamilyMissed ==
  ASSUME CallsAssumption
  PROVE  Spec => [](pc = "done" => \A w \in Nat : Settled(quadrants, w))
<1>1. Init => Swept
  BY InitSwept
<1>2. IInv /\ Swept /\ [Next]_vars => Swept'
  BY NextSwept
<1>3. Swept => (pc = "done" => \A w \in Nat : Settled(quadrants, w))
  BY DEF Swept
<1>. QED BY <1>1, <1>2, <1>3, Invariance, PTL DEF Spec

(***************************************************************************)
(* The callback.                                                           *)
(***************************************************************************)
\* What has not been shown is still to come, in the window or behind it.
ToCome(q) == \E j \in window + 1 .. Len(Closed) : Closed[j] = q
Showing ==
  call.callback_orphans =>
    \A q \in Old : q \in shown \/ (pc = "window" /\ ToCome(q))

\* No step takes away a quadrant that was not shown.
LEMMA NextShowing ==
  ASSUME CallsAssumption, IInv, Showing, [Next]_vars
  PROVE  Showing'
<1>1. CASE UNCHANGED vars
  <2>1. /\ Closed' = Closed /\ pc' = pc /\ call' = call
        /\ window' = window /\ shown' = shown
    BY <1>1 DEF vars, Closed, incount
  <2>. QED BY <2>1 DEF Showing, ToCome, Old, incount
<1>2. SUFFICES ASSUME Next, call.callback_orphans PROVE Showing'
  BY <1>1 DEF Next, Orphan, Decline, Coarsen, Finish, Showing
<1>3. pc = "window" /\ call' = call /\ Positions
  BY <1>2 DEF Next, Orphan, Decline, Coarsen, Finish, IInv
<1>4. Old' = Old /\ \A q \in Old : q \in shown \/ ToCome(q)
  BY <1>2, <1>3 DEF Old, incount, Showing
<1>5. window \in Nat /\ CHILDREN \in Nat /\ CHILDREN > 1 /\ Closed \in Seq(Quadrants)
  BY <1>3, ClosedType, ChildrenAssumption DEF Positions, PositionsOf
<1>6. CASE Orphan \/ Decline
  <2>1. Closed' = Closed /\ pc' = pc /\ WindowFits /\ window' = window + 1
    BY <1>6, MovesOn DEF Orphan, Decline, CloseHole
  <2>2. Member(0) = Closed[window + 1]
    <3>1. \A zz \in 0 .. CHILDREN - 1 : Member(zz) = Closed[window + zz + 1]
      BY <1>3, <2>1, MembersClosed
    <3>2. 0 \in 0 .. CHILDREN - 1 /\ window + 0 + 1 = window + 1
      BY <1>5
    <3>. QED BY <3>1, <3>2
  <2>3. shown \subseteq shown' /\ Closed[window + 1] \in shown'
    <3>1. 0 \in 0 .. CHILDREN - 1
      BY <1>5
    <3>. QED BY <1>2, <1>6, <2>2, <3>1 DEF Orphan, Decline, ShowFamily
  <2>4. ASSUME NEW q \in Old PROVE q \in shown' \/ ToCome(q)'
    <3>1. SUFFICES ASSUME NEW j \in window + 1 .. Len(Closed), Closed[j] = q, j # window + 1
                   PROVE  ToCome(q)'
      BY <1>4, <2>3 DEF ToCome
    <3>2. j \in (window + 1) + 1 .. Len(Closed)
      BY <1>5, <3>1
    <3>. QED BY <2>1, <3>1, <3>2 DEF ToCome
  <2>. QED BY <1>3, <1>4, <2>1, <2>4 DEF Showing
<1>7. CASE Coarsen
  <2>. DEFINE s == Closed
              t == Closed'
  <2>1. MergedAt(s, t, window) /\ NumbersAt(s, window) /\ Positions'
    BY <1>7, CoarsenMerges
  <2>2. /\ pc' = pc /\ WindowFits /\ shown' = shown \union { Member(zz) : zz \in 0 .. CHILDREN - 1 }
        /\ window' \in Nat /\ window' <= window + 1
    <3>1. ChildId(Parent(Member(0))) \in 0 .. CHILDREN - 1
      <4>1. Parent(Member(0)) = t[window + 1]
        <5>1. \A zz \in 0 .. CHILDREN - 1 : Member(zz) = s[window + zz + 1]
          BY <1>3, <1>7, MembersClosed DEF Coarsen
        <5>2. 0 \in 0 .. CHILDREN - 1 /\ window + 0 + 1 = window + 1
          BY <1>5
        <5>. QED BY <5>1, <5>2, <2>1 DEF MergedAt
      <4>2. t[window + 1] \in Quadrants
        <5>. HIDE DEF s, t
        <5>1. window + 1 \in 1 .. Len(t) /\ t \in Seq(Quadrants)
          BY <2>1, <1>5 DEF MergedAt, NumbersAt
        <5>. QED BY <5>1
      <4>. QED BY <4>1, <4>2, ChildIdType
    <3>2. window' \in { window - ChildId(Parent(Member(0))), window + 1 }
      BY <1>7 DEF Coarsen, CloseHole
    <3>3. window' \in Nat
      BY <2>1 DEF Positions, PositionsOf
    <3>4. pc' = pc /\ WindowFits /\ shown' = shown \union { Member(zz) : zz \in 0 .. CHILDREN - 1 }
      BY <1>3, <1>7 DEF Coarsen, ShowFamily
    <3>. QED BY <1>5, <3>1, <3>2, <3>3, <3>4
  <2>3. \A zz \in 0 .. CHILDREN - 1 : s[window + zz + 1] \in shown'
    <3>1. \A zz \in 0 .. CHILDREN - 1 : Member(zz) = s[window + zz + 1]
      BY <1>3, <2>2, MembersClosed
    <3>. HIDE DEF s
    <3>. QED BY <3>1, <2>2
  <2>4. ASSUME NEW q \in Old PROVE q \in shown' \/ \E k \in window' + 1 .. Len(t) : t[k] = q
    <3>1. SUFFICES ASSUME NEW j \in window + 1 .. Len(s), s[j] = q, q \notin shown'
                   PROVE  \E k \in window' + 1 .. Len(t) : t[k] = q
      BY <1>4, <2>2 DEF ToCome
    <3>. HIDE DEF s, t
    <3>2. /\ Len(s) \in Nat /\ Len(t) = Len(s) - CHILDREN + 1
          /\ \A k \in window + 2 .. Len(t) : t[k] = s[k + CHILDREN - 1]
      BY <1>5, <2>1 DEF MergedAt, NumbersAt, s
    <3>3. j > window + CHILDREN
      <4>1. SUFFICES ASSUME j <= window + CHILDREN PROVE FALSE
        BY <1>5, <3>2
      <4>2. j - window - 1 \in 0 .. CHILDREN - 1 /\ window + (j - window - 1) + 1 = j
        BY <1>5, <3>1, <3>2, <4>1
      <4>3. s[window + (j - window - 1) + 1] \in shown'
        BY <2>3, <4>2
      <4>. QED BY <3>1, <4>2, <4>3
    <3>. DEFINE k == j - CHILDREN + 1
    <3>4. k \in window + 2 .. Len(t) /\ k + CHILDREN - 1 = j
      BY <1>5, <3>1, <3>2, <3>3
    <3>5. k \in window' + 1 .. Len(t)
      <4>. DEFINE new == window'
      <4>1. new \in Nat /\ new <= window + 1
        BY <2>2
      <4>. HIDE DEF new, k
      <4>2. k \in new + 1 .. Len(t)
        BY <1>5, <3>2, <3>4, <4>1
      <4>. QED BY <4>2 DEF new
    <3>. HIDE DEF k
    <3>. QED BY <3>1, <3>2, <3>4, <3>5
  <2>. QED BY <1>3, <1>4, <2>2, <2>4 DEF Showing, ToCome
<1>8. CASE Finish
  <2>1. shown' = shown \union Remaining
    BY <1>2, <1>8 DEF Finish
  <2>2. Len(Closed) = incount - length
    BY <1>3, ClosedElements DEF Positions, Closed, ClosedOf
  <2>3. ASSUME NEW q \in Old PROVE q \in shown'
    BY <1>4, <2>1, <2>2 DEF ToCome, Remaining
  <2>. QED BY <1>3, <1>4, <2>3 DEF Showing
<1>. QED BY <1>2, <1>6, <1>7, <1>8 DEF Next

\* With callback_orphans the callback has been called with every quadrant of the
\* input when the call returns: also with those that the window skipped when it
\* stepped back or that are left over when it no longer fits.
THEOREM NobodySkipped ==
  ASSUME CallsAssumption
  PROVE  Spec => []EveryQuadrantShown
<1>1. Init => Showing
  <2>1. SUFFICES ASSUME Init PROVE Showing
    OBVIOUS
  <2>2. Closed = call.input /\ window = 0 /\ pc = "window" /\ call \in Calls
    BY <2>1, InitIInv DEF Init
  <2>3. \A q \in Old : ToCome(q)
    BY <2>2 DEF Old, ToCome, incount
  <2>. QED BY <2>2, <2>3 DEF Showing
<1>2. IInv /\ Showing /\ [Next]_vars => Showing'
  BY NextShowing
<1>3. Showing => EveryQuadrantShown
  BY DEF Showing, EveryQuadrantShown, Old
<1>. QED BY <1>1, <1>2, <1>3, Invariance, PTL DEF Spec

(***************************************************************************)
(* The result.                                                             *)
(***************************************************************************)
\* A quadrant contains those whose path begins with its own.
LEMMA WithinElements ==
  ASSUME NEW a \in Quadrants, NEW q \in Quadrants
  PROVE  /\ Within(a, q) <=> Len(a) <= Len(q) /\ \A j \in 1 .. Len(a) : q[j] = a[j]
         /\ IsAncestor(a, q) <=> Len(a) < Len(q) /\ \A j \in 1 .. Len(a) : q[j] = a[j]
<1>1. /\ a \in Seq(Int) /\ q \in Seq(Int) /\ Len(a) \in Nat /\ Len(q) \in Nat
  BY QuadrantElements
<1>2. ASSUME Len(a) <= Len(q)
      PROVE  Ancestor(q, Len(a)) = a <=> \A j \in 1 .. Len(a) : q[j] = a[j]
  <2>. DEFINE n == Len(a)
  <2>1. n \in Nat /\ n <= Len(q) /\ n <= Len(a)
    BY <1>1, <1>2
  <2>2. Ancestor(a, n) = a
    BY <1>1 DEF Ancestor
  <2>. HIDE DEF n
  <2>3. Ancestor(q, n) = Ancestor(a, n) <=> \A i \in 1 .. n : q[i] = a[i]
    BY <1>1, <2>1, SameAncestor
  <2>4. Ancestor(q, n) = a <=> \A i \in 1 .. n : q[i] = a[i]
    BY <2>2, <2>3
  <2>. QED BY <2>4 DEF n
<1>3. IsAncestor(a, q) <=> Len(a) < Len(q) /\ \A j \in 1 .. Len(a) : q[j] = a[j]
  <2>1. Len(a) < Len(q) => Len(a) <= Len(q)
    BY <1>1
  <2>. QED BY <1>2, <2>1 DEF IsAncestor, Level
<1>4. ASSUME Len(a) = Len(q), \A j \in 1 .. Len(a) : q[j] = a[j] PROVE a = q
  BY <1>1, <1>4
<1>5. Len(a) <= Len(q) <=> Len(a) < Len(q) \/ Len(a) = Len(q)
  BY <1>1
<1>. QED BY <1>3, <1>4, <1>5 DEF Within

\* What contains an ancestor is an ancestor.
LEMMA WithinAncestor ==
  ASSUME NEW a \in Quadrants, NEW b \in Quadrants, NEW c \in Quadrants,
         Within(a, b), IsAncestor(b, c)
  PROVE  IsAncestor(a, c)
<1>1. /\ Len(a) <= Len(b) /\ \A j \in 1 .. Len(a) : b[j] = a[j]
  BY WithinElements
<1>2. /\ Len(b) < Len(c) /\ \A j \in 1 .. Len(b) : c[j] = b[j]
  BY WithinElements
<1>3. Len(a) \in Nat /\ Len(b) \in Nat /\ Len(c) \in Nat
  BY QuadrantElements
<1>4. ASSUME NEW j \in 1 .. Len(a) PROVE c[j] = a[j]
  <2>1. j \in 1 .. Len(b)
    BY <1>1, <1>3
  <2>. QED BY <2>1, <1>1, <1>2
<1>5. Len(a) < Len(c)
  BY <1>1, <1>2, <1>3
<1>. QED BY <1>4, <1>5, WithinElements

\* Of two quadrants that contain a third, one contains the other.
LEMMA Nested ==
  ASSUME NEW a \in Quadrants, NEW b \in Quadrants, NEW c \in Quadrants,
         Within(a, c), Within(b, c)
  PROVE  Within(a, b) \/ IsAncestor(b, a)
<1>1. /\ Len(a) <= Len(c) /\ \A j \in 1 .. Len(a) : c[j] = a[j]
  BY WithinElements
<1>2. /\ Len(b) <= Len(c) /\ \A j \in 1 .. Len(b) : c[j] = b[j]
  BY WithinElements
<1>3. Len(a) \in Nat /\ Len(b) \in Nat /\ Len(c) \in Nat
  BY QuadrantElements
<1>4. CASE Len(a) <= Len(b)
  <2>1. ASSUME NEW j \in 1 .. Len(a) PROVE b[j] = a[j]
    <3>1. j \in 1 .. Len(b)
      BY <1>3, <1>4
    <3>. QED BY <3>1, <1>1, <1>2
  <2>. QED BY <2>1, <1>4, WithinElements
<1>5. CASE Len(b) < Len(a)
  <2>1. ASSUME NEW j \in 1 .. Len(b) PROVE a[j] = b[j]
    <3>1. j \in 1 .. Len(a)
      BY <1>3, <1>5
    <3>. QED BY <3>1, <1>1, <1>2
  <2>. QED BY <2>1, <1>5, WithinElements
<1>. QED BY <1>3, <1>4, <1>5

\* q lies in a, and goes on there to the same side on every level.
AtEdge(a, q, v) ==
  /\ Len(a) <= Len(q)
  /\ \A j \in 1 .. Len(a) : q[j] = a[j]
  /\ \A j \in Len(a) + 1 .. Len(q) : q[j] = v

\* This is so exactly if they have the same first or last descendant.
LEMMA EdgeDescendant ==
  ASSUME NEW a \in Quadrants, NEW q \in Quadrants, NEW v \in Int, Within(a, q)
  PROVE  AtEdge(a, q, v) <=> q \o [i \in 1 .. QMAXLEVEL - Level(q) |-> v]
                               = a \o [i \in 1 .. QMAXLEVEL - Level(a) |-> v]
<1>. DEFINE d == q \o [i \in 1 .. QMAXLEVEL - Level(q) |-> v]
            e == a \o [i \in 1 .. QMAXLEVEL - Level(a) |-> v]
<1>1. /\ d \in Seq(Int) /\ Len(d) = QMAXLEVEL
      /\ \A j \in 1 .. QMAXLEVEL : d[j] = IF j <= Len(q) THEN q[j] ELSE v
  BY DescendantElements
<1>2. /\ e \in Seq(Int) /\ Len(e) = QMAXLEVEL
      /\ \A j \in 1 .. QMAXLEVEL : e[j] = IF j <= Len(a) THEN a[j] ELSE v
  BY DescendantElements
<1>3. /\ Len(a) \in Nat /\ Len(q) \in Nat /\ Len(q) <= QMAXLEVEL /\ QMAXLEVEL \in Nat
      /\ Len(a) <= Len(q) /\ \A j \in 1 .. Len(a) : q[j] = a[j]
  BY QuadrantElements, LevelAssumption, WithinElements
<1>. HIDE DEF d, e
<1>4. ASSUME AtEdge(a, q, v), NEW j \in 1 .. QMAXLEVEL PROVE d[j] = e[j]
  <2>1. CASE j <= Len(a)
    <3>1. j \in 1 .. Len(a) /\ j <= Len(q)
      BY <2>1, <1>3
    <3>2. d[j] = q[j]
      BY <3>1, <1>1
    <3>3. e[j] = a[j]
      BY <2>1, <1>2
    <3>4. q[j] = a[j]
      BY <3>1, <1>3
    <3>. QED BY <3>2, <3>3, <3>4
  <2>2. CASE ~ (j <= Len(a)) /\ j <= Len(q)
    <3>1. j \in Len(a) + 1 .. Len(q)
      BY <2>2, <1>3
    <3>2. q[j] = v
      BY <3>1, <1>4 DEF AtEdge
    <3>. QED BY <3>2, <2>2, <1>1, <1>2
  <2>3. CASE ~ (j <= Len(a)) /\ ~ (j <= Len(q))
    BY <2>3, <1>1, <1>2
  <2>. QED BY <2>1, <2>2, <2>3
<1>5. ASSUME d = e, NEW j \in Len(a) + 1 .. Len(q) PROVE q[j] = v
  <2>1. j \in 1 .. QMAXLEVEL /\ j <= Len(q) /\ ~ (j <= Len(a))
    BY <1>3
  <2>2. d[j] = q[j] /\ e[j] = v
    BY <2>1, <1>1, <1>2
  <2>. QED BY <2>2, <1>5
<1>6. AtEdge(a, q, v) => d = e
  <2>1. ASSUME AtEdge(a, q, v) PROVE \A j \in 1 .. QMAXLEVEL : d[j] = e[j]
    BY <2>1, <1>4
  <2>. QED BY <2>1, <1>1, <1>2
<1>7. d = e => AtEdge(a, q, v)
  BY <1>3, <1>5 DEF AtEdge
<1>. QED BY <1>6, <1>7 DEF d, e

\* The input of a call.
LEMMA CallInput ==
  ASSUME CallsAssumption, call \in Calls
  PROVE  /\ call.input \in Seq(Quadrants) /\ incount \in Nat /\ incount = Len(call.input)
         /\ \A k \in 1 .. incount : call.input[k] \in Quadrants
         /\ AllParted(call.input)
         /\ call.input # << >>
<1>1. call.input \in Seq(Quadrants) /\ Gapless(call.input) /\ call.input # << >>
  BY DEF CallsAssumption
<1>2. incount \in Nat /\ incount = Len(call.input)
  BY <1>1 DEF incount
<1>3. AllParted(call.input)
  BY <1>1, GaplessParted
<1>. QED BY <1>1, <1>2, <1>3

\* An inner node of the input has an input quadrant below it.
LEMMA NodeElements ==
  ASSUME CallsAssumption, call \in Calls, NEW b
  PROVE  b \in InputNodes <=>
           b \in Quadrants /\ \E k \in 1 .. incount : IsAncestor(b, call.input[k])
<1>1. \A k \in 1 .. incount : call.input[k] \in Quadrants
  BY CallInput
<1>2. ASSUME NEW k \in 1 .. incount, NEW l \in 0 .. Level(call.input[k]) - 1,
             b = Ancestor(call.input[k], l)
      PROVE  b \in Quadrants /\ IsAncestor(b, call.input[k])
  <2>. DEFINE q == call.input[k]
  <2>1. q \in Quadrants
    BY <1>1
  <2>. HIDE DEF q
  <2>2. q \in Seq(ChildIds) /\ Len(q) \in Nat /\ Len(q) <= QMAXLEVEL /\ l \in 0 .. Len(q) - 1
    BY <2>1, <1>2, QuadrantDef, QuadrantElements DEF q, Level
  <2>3. b \in Seq(ChildIds) /\ Len(b) = l
    BY <2>2, <1>2 DEF q, Ancestor
  <2>4. b \in Quadrants
    BY <2>2, <2>3, QuadrantDef, LevelAssumption
  <2>. QED BY <2>2, <2>3, <2>4, <1>2 DEF q, IsAncestor, Level
<1>3. ASSUME b \in Quadrants, NEW k \in 1 .. incount, IsAncestor(b, call.input[k])
      PROVE  b \in InputNodes
  <2>1. Level(b) \in 0 .. Level(call.input[k]) - 1
    BY <1>1, <1>3, QuadrantElements DEF IsAncestor, Level
  <2>2. b = Ancestor(call.input[k], Level(b))
    BY <1>3 DEF IsAncestor
  <2>. QED BY <2>1, <2>2 DEF InputNodes
<1>4. b \in InputNodes <=> \E k \in 1 .. incount : \E l \in 0 .. Level(call.input[k]) - 1 :
                             b = Ancestor(call.input[k], l)
  BY DEF InputNodes
<1>. QED BY <1>2, <1>3, <1>4

\* The input fills a quadrant if it reaches both of its ends.
LEMMA FullyLocalEdges ==
  ASSUME CallsAssumption, call \in Calls, NEW a \in Quadrants
  PROVE  FullyLocal(a) <=> /\ \E k \in 1 .. incount : AtEdge(a, call.input[k], 0)
                           /\ \E k \in 1 .. incount : AtEdge(a, call.input[k], CHILDREN - 1)
<1>. DEFINE First(k) == FirstDescendant(call.input[k], QMAXLEVEL) = FirstDescendant(a, QMAXLEVEL)
            Last(k)  == LastDescendant(call.input[k], QMAXLEVEL) = LastDescendant(a, QMAXLEVEL)
            inside   == { k \in 1 .. incount : Within(a, call.input[k]) }
<1>1. ASSUME NEW k \in 1 .. incount
      PROVE  /\ AtEdge(a, call.input[k], 0) <=> k \in inside /\ First(k)
             /\ AtEdge(a, call.input[k], CHILDREN - 1) <=> k \in inside /\ Last(k)
  <2>. DEFINE q == call.input[k]
              v == CHILDREN - 1
  <2>1. q \in Quadrants /\ v \in Int /\ 0 \in Int
    BY CallInput, ChildrenAssumption
  <2>2. k \in inside <=> Within(a, q)
    OBVIOUS
  <2>3. /\ First(k) <=> q \o [i \in 1 .. QMAXLEVEL - Level(q) |-> 0]
                          = a \o [i \in 1 .. QMAXLEVEL - Level(a) |-> 0]
        /\ Last(k) <=> q \o [i \in 1 .. QMAXLEVEL - Level(q) |-> v]
                         = a \o [i \in 1 .. QMAXLEVEL - Level(a) |-> v]
    BY DEF FirstDescendant, LastDescendant
  <2>. HIDE DEF q, v, First, Last, inside
  <2>4. Within(a, q) => /\ AtEdge(a, q, 0) <=> First(k)
                        /\ AtEdge(a, q, v) <=> Last(k)
    BY <2>1, <2>3, EdgeDescendant
  <2>5. ~ Within(a, q) => ~ AtEdge(a, q, 0) /\ ~ AtEdge(a, q, v)
    BY <2>1, WithinElements DEF AtEdge
  <2>6. /\ AtEdge(a, q, 0) <=> Within(a, q) /\ First(k)
        /\ AtEdge(a, q, v) <=> Within(a, q) /\ Last(k)
    BY <2>4, <2>5
  <2>. QED BY <2>2, <2>6 DEF q, v
<1>2. FullyLocal(a) <=> inside # {} /\ \E i, j \in inside : First(i) /\ Last(j)
  BY DEF FullyLocal
<1>3. inside \subseteq 1 .. incount
  OBVIOUS
<1>. HIDE DEF First, Last, inside
<1>. QED BY <1>1, <1>2, <1>3

\* No quadrant of the input has another one below it.
LEMMA OldHasNoNodes ==
  ASSUME CallsAssumption, call \in Calls, NEW q \in Old
  PROVE  /\ q \in Quadrants
         /\ \A k \in 1 .. incount : ~ IsAncestor(q, call.input[k])
         /\ InnerNodes(q) = {}
<1>. DEFINE s == call.input
<1>1. /\ s \in Seq(Quadrants) /\ incount = Len(s) /\ AllParted(s)
      /\ \A k \in 1 .. incount : s[k] \in Quadrants
  BY CallInput
<1>2. PICK i \in 1 .. incount : q = s[i]
  BY DEF Old
<1>3. q \in Quadrants
  BY <1>1, <1>2
<1>4. ASSUME NEW k \in 1 .. incount, IsAncestor(q, s[k]) PROVE FALSE
  <2>. HIDE DEF s
  <2>1. s[k] \in Quadrants /\ s[i] \in Quadrants
    BY <1>1
  <2>2. CASE k = i
    <3>1. Len(q) < Len(q) /\ Len(q) \in Nat
      BY <2>2, <1>2, <1>3, <1>4, QuadrantElements DEF IsAncestor, Level
    <3>. QED BY <3>1
  <2>3. CASE k # i
    <3>1. i < k \/ k < i
      BY <2>3, <1>1
    <3>2. Parted(s[i], s[k]) \/ Parted(s[k], s[i])
      BY <3>1, <1>1 DEF AllParted
    <3>3. ~ IsAncestor(s[i], s[k])
      BY <3>2, <2>1, PartedApart
    <3>. QED BY <3>3, <1>2, <1>4
  <2>. QED BY <2>2, <2>3
<1>5. ASSUME NEW b \in InnerNodes(q) PROVE FALSE
  <2>1. b \in InputNodes /\ Within(q, b)
    BY <1>5 DEF InnerNodes
  <2>2. b \in Quadrants
    BY <2>1, NodeElements
  <2>3. PICK k \in 1 .. incount : IsAncestor(b, s[k])
    BY <2>1, NodeElements
  <2>4. s[k] \in Quadrants
    BY <1>1
  <2>5. IsAncestor(q, s[k])
    BY <2>1, <2>2, <2>3, <2>4, <1>3, WithinAncestor
  <2>. QED BY <2>5, <1>4
<1>. QED BY <1>3, <1>4, <1>5

\* What the leaves may be: input, or parents that must be formed.
Known(q) == q \in Old \/ Formed(q)

\* A formed parent is an inner node of the input.
LEMMA FormedNode ==
  ASSUME CallsAssumption, call \in Calls, NEW a \in Quadrants, Formed(a)
  PROVE  a \in InputNodes
<1>1. PICK b \in InputNodes : Within(a, b)
  BY DEF Formed, InnerNodes
<1>2. b \in Quadrants
  BY NodeElements
<1>3. PICK k \in 1 .. incount : IsAncestor(b, call.input[k])
  BY NodeElements
<1>4. call.input[k] \in Quadrants
  BY CallInput
<1>5. IsAncestor(a, call.input[k])
  BY <1>1, <1>2, <1>3, <1>4, WithinAncestor
<1>. QED BY <1>5, NodeElements

\* The input reaches both ends of such a quadrant.
LEMMA KnownEdges ==
  ASSUME CallsAssumption, call \in Calls, NEW q \in Quadrants, Known(q)
  PROVE  /\ \E k \in 1 .. incount : AtEdge(q, call.input[k], 0)
         /\ \E k \in 1 .. incount : AtEdge(q, call.input[k], CHILDREN - 1)
<1>1. CASE q \in Old
  <2>1. PICK k \in 1 .. incount : q = call.input[k]
    BY <1>1 DEF Old
  <2>2. Len(q) \in Nat
    BY QuadrantElements
  <2>3. AtEdge(q, q, 0) /\ AtEdge(q, q, CHILDREN - 1)
    BY <2>2 DEF AtEdge
  <2>. QED BY <2>1, <2>3
<1>2. CASE Formed(q)
  <2>1. FullyLocal(q)
    BY <1>2 DEF Formed
  <2>. QED BY <2>1, FullyLocalEdges
<1>. QED BY <1>1, <1>2 DEF Known

\* An outer child reaches one end of its parent.
LEMMA EdgeOfChild ==
  ASSUME NEW p \in Quadrants, Level(p) < QMAXLEVEL, NEW v \in ChildIds,
         NEW q \in Quadrants, AtEdge(Child(p, v), q, v)
  PROVE  AtEdge(p, q, v) /\ IsAncestor(p, q)
<1>. DEFINE c == Child(p, v)
<1>1. /\ c \in Quadrants /\ Len(c) = Len(p) + 1 /\ c[Len(p) + 1] = v
      /\ \A j \in 1 .. Len(p) : c[j] = p[j]
  BY ChildElements
<1>2. Len(p) \in Nat /\ Len(q) \in Nat
  BY QuadrantElements
<1>. HIDE DEF c
<1>3. /\ Len(c) <= Len(q)
      /\ \A j \in 1 .. Len(c) : q[j] = c[j]
      /\ \A j \in Len(c) + 1 .. Len(q) : q[j] = v
  BY DEF AtEdge, c
<1>4. ASSUME NEW j \in 1 .. Len(p) PROVE q[j] = p[j]
  <2>1. j \in 1 .. Len(c)
    BY <1>1, <1>2
  <2>. QED BY <2>1, <1>1, <1>3
<1>5. ASSUME NEW j \in Len(p) + 1 .. Len(q) PROVE q[j] = v
  <2>1. CASE j = Len(p) + 1
    <3>1. j \in 1 .. Len(c)
      BY <2>1, <1>1, <1>2
    <3>. QED BY <3>1, <2>1, <1>1, <1>3
  <2>2. CASE j # Len(p) + 1
    <3>1. j \in Len(c) + 1 .. Len(q)
      BY <2>2, <1>1, <1>2
    <3>. QED BY <3>1, <1>3
  <2>. QED BY <2>1, <2>2
<1>6. Len(p) < Len(q)
  BY <1>1, <1>2, <1>3
<1>7. AtEdge(p, q, v)
  BY <1>2, <1>4, <1>5, <1>6 DEF AtEdge
<1>8. IsAncestor(p, q)
  BY <1>4, <1>6, WithinElements
<1>. QED BY <1>7, <1>8

\* Whatever lies strictly in a quadrant lies in one of its children.
LEMMA InChild ==
  ASSUME NEW p \in Quadrants, NEW q \in Quadrants, Level(p) < QMAXLEVEL, IsAncestor(p, q)
  PROVE  \E z \in ChildIds : Within(Child(p, z), q)
<1>1. Len(p) \in Nat /\ Len(q) \in Nat /\ q \in Seq(ChildIds)
  BY QuadrantElements, QuadrantDef
<1>2. Len(p) < Len(q) /\ \A j \in 1 .. Len(p) : q[j] = p[j]
  BY WithinElements
<1>. DEFINE z == q[Len(p) + 1]
            c == Child(p, z)
<1>3. z \in ChildIds
  BY <1>1, <1>2
<1>. HIDE DEF z
<1>4. /\ c \in Quadrants /\ Len(c) = Len(p) + 1 /\ c[Len(p) + 1] = z
      /\ \A j \in 1 .. Len(p) : c[j] = p[j]
  BY <1>3, ChildElements
<1>. HIDE DEF c
<1>5. ASSUME NEW j \in 1 .. Len(c) PROVE q[j] = c[j]
  <2>1. CASE j = Len(p) + 1
    BY <2>1, <1>4 DEF z
  <2>2. CASE j # Len(p) + 1
    <3>1. j \in 1 .. Len(p)
      BY <2>2, <1>1, <1>4
    <3>. QED BY <3>1, <1>2, <1>4
  <2>. QED BY <2>1, <2>2
<1>6. Len(c) <= Len(q)
  BY <1>1, <1>2, <1>4
<1>7. Within(c, q)
  BY <1>4, <1>5, <1>6, WithinElements
<1>. QED BY <1>3, <1>7 DEF c

\* An accepted family of such quadrants has a parent that must be formed: in a
\* call without recursion only if all of them are input.
LEMMA FamilyForms ==
  ASSUME CallsAssumption, call \in Calls, NEW p \in call.coarsen_fn, p \in Quadrants,
         Level(p) < QMAXLEVEL, \A z \in ChildIds : Known(Child(p, z)),
         call.coarsen_recursive \/ \A z \in ChildIds : Child(p, z) \in Old
  PROVE  Formed(p)
<1>0. /\ 0 \in ChildIds /\ CHILDREN - 1 \in ChildIds
      /\ \A k \in 1 .. incount : call.input[k] \in Quadrants
      /\ \A z \in ChildIds : Child(p, z) \in Quadrants
  BY ChildrenAssumption, CallInput, ChildElements DEF ChildIds
<1>1. PICK k \in 1 .. incount : AtEdge(Child(p, 0), call.input[k], 0)
  BY <1>0, KnownEdges
<1>2. AtEdge(p, call.input[k], 0) /\ IsAncestor(p, call.input[k])
  BY <1>0, <1>1, EdgeOfChild
<1>3. PICK n \in 1 .. incount : AtEdge(Child(p, CHILDREN - 1), call.input[n], CHILDREN - 1)
  <2>. DEFINE c == Child(p, CHILDREN - 1)
  <2>1. c \in Quadrants /\ Known(c)
    BY <1>0
  <2>. HIDE DEF c
  <2>2. \E i \in 1 .. incount : AtEdge(c, call.input[i], CHILDREN - 1)
    BY <2>1, KnownEdges
  <2>. QED BY <2>2 DEF c
<1>4. AtEdge(p, call.input[n], CHILDREN - 1)
  BY <1>0, <1>3, EdgeOfChild
<1>5. FullyLocal(p)
  BY <1>2, <1>4, FullyLocalEdges
<1>6. p \in InputNodes
  BY <1>2, NodeElements
<1>7. p \in InnerNodes(p)
  BY <1>6 DEF InnerNodes, Within
<1>8. ASSUME NEW b \in InnerNodes(p), b # p
      PROVE  b \in call.coarsen_fn /\ \E z \in ChildIds : Child(p, z) \notin Old
  <2>1. b \in InputNodes /\ IsAncestor(p, b)
    BY <1>8 DEF InnerNodes, Within
  <2>2. b \in Quadrants
    BY <2>1, NodeElements
  <2>3. PICK z \in ChildIds : Within(Child(p, z), b)
    BY <2>1, <2>2, InChild
  <2>4. b \in InnerNodes(Child(p, z))
    BY <2>1, <2>3 DEF InnerNodes
  <2>5. Child(p, z) \notin Old
    BY <2>4, OldHasNoNodes
  <2>6. Formed(Child(p, z))
    BY <2>5 DEF Known
  <2>. QED BY <2>4, <2>5, <2>6 DEF Formed
<1>9. InnerNodes(p) \subseteq call.coarsen_fn
  BY <1>8
<1>10. call.coarsen_recursive \/ InnerNodes(p) = { p }
  BY <1>7, <1>8
<1>. QED BY <1>5, <1>7, <1>9, <1>10 DEF Formed

\* Every leaf is what it may be, and every quadrant of the input lies in a leaf.
LeavesKnown(s) ==
  /\ \A i \in 1 .. Len(s) : Known(s[i])
  /\ \A k \in 1 .. incount : \E i \in 1 .. Len(s) : Within(s[i], call.input[k])

\* A family in a hole-free array: the children of the parent of its first one.
LEMMA FamilyChildren ==
  ASSUME NEW s \in Seq(Quadrants), NEW w, Gapless(s), NumbersAt(s, w)
  PROVE  LET p == Parent(s[w + 1])
         IN  /\ p \in Quadrants /\ Level(p) < QMAXLEVEL
             /\ \A z \in ChildIds : w + z + 1 \in 1 .. Len(s) /\ s[w + z + 1] = Child(p, z)
<1>. DEFINE q == s[w + 1]
            p == Parent(q)
<1>1. /\ w \in Nat /\ CHILDREN \in Nat /\ CHILDREN > 1 /\ Len(s) \in Nat /\ w + CHILDREN <= Len(s)
  BY ChildrenAssumption DEF NumbersAt
<1>2. q \in Quadrants
  <2>1. w + 1 \in 1 .. Len(s)
    BY <1>1
  <2>. QED BY <2>1
<1>3. Len(q) > 0 /\ \A z \in 0 .. CHILDREN - 1 : s[w + z + 1] = Sibling(q, z)
  BY NumbersAreFamily
<1>. HIDE DEF q
<1>4. p \in Quadrants /\ Len(p) = Len(q) - 1 /\ Len(q) \in Nat /\ Len(q) <= QMAXLEVEL
  BY <1>2, <1>3, ParentElements, QuadrantElements
<1>5. Level(p) < QMAXLEVEL
  BY <1>4, LevelAssumption DEF Level
<1>6. \A z \in ChildIds : s[w + z + 1] = Child(p, z)
  BY <1>3 DEF Sibling, Child, ChildIds
<1>7. \A z \in ChildIds : w + z + 1 \in 1 .. Len(s)
  BY <1>1 DEF ChildIds
<1>. HIDE DEF p
<1>. QED BY <1>4, <1>5, <1>6, <1>7 DEF p, q

\* A merge of an accepted family keeps all this.
LEMMA MergeKnown ==
  ASSUME CallsAssumption, call \in Calls,
         NEW s \in Seq(Quadrants), NEW t, NEW w, Gapless(s), NumbersAt(s, w), MergedAt(s, t, w),
         LeavesKnown(s), Parent(s[w + 1]) \in call.coarsen_fn,
         call.coarsen_recursive \/ \A z \in 0 .. CHILDREN - 1 : s[w + z + 1] \in Old
  PROVE  LeavesKnown(t)
<1>. DEFINE p == Parent(s[w + 1])
<1>1. /\ p \in Quadrants /\ Level(p) < QMAXLEVEL
      /\ \A z \in ChildIds : w + z + 1 \in 1 .. Len(s) /\ s[w + z + 1] = Child(p, z)
  BY FamilyChildren
<1>2. t[w + 1] = p
  BY DEF MergedAt
<1>3. /\ w \in Nat /\ CHILDREN \in Nat /\ CHILDREN > 1 /\ Len(s) \in Nat /\ w + CHILDREN <= Len(s)
      /\ Len(t) = Len(s) - CHILDREN + 1
      /\ \A i \in 1 .. w : t[i] = s[i]
      /\ \A i \in w + 2 .. Len(t) : t[i] = s[i + CHILDREN - 1]
  BY ChildrenAssumption DEF NumbersAt, MergedAt
<1>4. p \in call.coarsen_fn
  OBVIOUS
<1>. HIDE DEF p
<1>5. Formed(p)
  <2>1. \A z \in ChildIds : Known(Child(p, z))
    BY <1>1 DEF LeavesKnown
  <2>2. call.coarsen_recursive \/ \A z \in ChildIds : Child(p, z) \in Old
    BY <1>1 DEF ChildIds
  <2>. QED BY <2>1, <2>2, <1>1, <1>4, FamilyForms
<1>6. ASSUME NEW i \in 1 .. Len(t) PROVE Known(t[i])
  <2>1. CASE i \in 1 .. w
    <3>1. i \in 1 .. Len(s)
      BY <2>1, <1>3
    <3>. QED BY <2>1, <3>1, <1>3 DEF LeavesKnown
  <2>2. CASE i = w + 1
    BY <2>2, <1>2, <1>5 DEF Known
  <2>3. CASE i \in w + 2 .. Len(t)
    <3>1. i + CHILDREN - 1 \in 1 .. Len(s)
      BY <2>3, <1>3
    <3>2. t[i] = s[i + CHILDREN - 1]
      BY <2>3, <1>3
    <3>. QED BY <3>1, <3>2 DEF LeavesKnown
  <2>. QED BY <2>1, <2>2, <2>3, <1>3
<1>7. ASSUME NEW k \in 1 .. incount PROVE \E i \in 1 .. Len(t) : Within(t[i], call.input[k])
  <2>1. PICK i \in 1 .. Len(s) : Within(s[i], call.input[k])
    BY DEF LeavesKnown
  <2>2. CASE i <= w
    <3>1. i \in 1 .. w /\ i \in 1 .. Len(t)
      BY <2>2, <1>3
    <3>. QED BY <3>1, <2>1, <1>3
  <2>3. CASE i > w + CHILDREN
    <3>. DEFINE n == i - CHILDREN + 1
    <3>1. n \in w + 2 .. Len(t) /\ n \in 1 .. Len(t) /\ n + CHILDREN - 1 = i
      BY <2>3, <1>3
    <3>. HIDE DEF n
    <3>2. t[n] = s[n + CHILDREN - 1]
      BY <3>1, <1>3
    <3>3. t[n] = s[i]
      BY <3>1, <3>2
    <3>. QED BY <3>1, <3>3, <2>1
  <2>4. CASE w < i /\ i <= w + CHILDREN
    <3>. DEFINE z == i - w - 1
    <3>1. z \in ChildIds /\ w + z + 1 = i
      BY <2>4, <1>3 DEF ChildIds
    <3>. HIDE DEF z
    <3>2. s[i] = Child(p, z)
      BY <3>1, <1>1
    <3>. DEFINE x == call.input[k]
                c == Child(p, z)
    <3>3. /\ x \in Quadrants
          /\ c \in Quadrants /\ Len(c) = Len(p) + 1
          /\ \A j \in 1 .. Len(p) : c[j] = p[j]
      BY <3>1, <1>1, CallInput, ChildElements
    <3>4. Within(c, x)
      BY <2>1, <3>2
    <3>. HIDE DEF x, c
    <3>5. IsAncestor(p, c)
      <4>1. Len(p) \in Nat
        BY <1>1, QuadrantElements
      <4>. QED BY <4>1, <3>3, <1>1, WithinElements
    <3>6. Within(p, x)
      <4>1. IsAncestor(c, x) \/ c = x
        BY <3>4 DEF Within
      <4>2. CASE c = x
        BY <4>2, <3>5 DEF Within
      <4>3. CASE IsAncestor(c, x)
        <5>1. Within(p, c)
          BY <3>5 DEF Within
        <5>2. IsAncestor(p, x)
          BY <4>3, <5>1, <3>3, <1>1, WithinAncestor
        <5>. QED BY <5>2 DEF Within
      <4>. QED BY <4>1, <4>2, <4>3
    <3>7. w + 1 \in 1 .. Len(t)
      BY <1>3
    <3>. QED BY <3>6, <3>7, <1>2 DEF x
  <2>. QED BY <2>2, <2>3, <2>4, <1>3
<1>. QED BY <1>6, <1>7 DEF LeavesKnown

\* The leaves in a formed parent reach both of its ends.
LEMMA LeafAtEdge ==
  ASSUME CallsAssumption, call \in Calls, NEW s \in Seq(Quadrants), LeavesKnown(s),
         NEW a \in Quadrants, Formed(a), NEW v \in { 0, CHILDREN - 1 },
         \A i \in 1 .. Len(s) : ~ Within(s[i], a)
  PROVE  \E e \in 1 .. Len(s) : IsAncestor(a, s[e]) /\ AtEdge(a, s[e], v)
<1>1. PICK k \in 1 .. incount : AtEdge(a, call.input[k], v)
  <2>1. Known(a)
    BY DEF Known
  <2>. QED BY <2>1, KnownEdges
<1>2. PICK e \in 1 .. Len(s) : Within(s[e], call.input[k])
  BY DEF LeavesKnown
<1>. DEFINE x == call.input[k]
            q == s[e]
<1>3. x \in Quadrants /\ q \in Quadrants /\ AtEdge(a, x, v) /\ Within(q, x) /\ ~ Within(q, a)
  BY <1>1, <1>2, CallInput
<1>. HIDE DEF x, q
<1>4. Len(a) \in Nat /\ Len(q) \in Nat /\ Len(x) \in Nat
  BY <1>3, QuadrantElements
<1>5. Within(a, x)
  BY <1>3, WithinElements DEF AtEdge
<1>6. IsAncestor(a, q)
  <2>1. Within(q, a) \/ IsAncestor(a, q)
    BY <1>3, <1>5, Nested
  <2>. QED BY <2>1, <1>3
<1>7. /\ Len(a) < Len(q) /\ \A j \in 1 .. Len(a) : q[j] = a[j]
  BY <1>3, <1>6, WithinElements
<1>8. /\ Len(q) <= Len(x) /\ \A j \in 1 .. Len(q) : x[j] = q[j]
  BY <1>3, WithinElements
<1>9. ASSUME NEW j \in Len(a) + 1 .. Len(q) PROVE q[j] = v
  <2>1. j \in 1 .. Len(q) /\ j \in Len(a) + 1 .. Len(x)
    BY <1>4, <1>8
  <2>. QED BY <2>1, <1>3, <1>8 DEF AtEdge
<1>10. AtEdge(a, q, v)
  BY <1>4, <1>7, <1>9 DEF AtEdge
<1>. QED BY <1>6, <1>10 DEF q

\* The leaf at position m is the child z of p.
ChildAt(s, p, m, z) ==
  /\ m \in 1 .. Len(s) /\ Len(s[m]) = Len(p) + 1 /\ s[m][Len(p) + 1] = z
  /\ \A j \in 1 .. Len(p) : s[m][j] = p[j]

\* Behind a leaf in a which is not the last of its family comes another leaf, its
\* next sibling if no leaf in a is deeper.
LEMMA NextChild ==
  ASSUME NEW s \in Seq(Quadrants), Gapless(s), NEW a \in Quadrants, NEW p \in Quadrants,
         Within(a, p), NEW e \in 1 .. Len(s), IsAncestor(a, s[e]), AtEdge(a, s[e], CHILDREN - 1),
         \A i \in 1 .. Len(s) : IsAncestor(a, s[i]) => Len(s[i]) <= Len(p) + 1,
         NEW m, NEW z \in ChildIds, z < CHILDREN - 1, ChildAt(s, p, m, z)
  PROVE  ChildAt(s, p, m + 1, z + 1)
<1>0. /\ CHILDREN \in Nat /\ CHILDREN > 1 /\ Len(s) \in Nat /\ z \in Nat
      /\ Len(a) \in Nat /\ Len(p) \in Nat /\ m \in 1 .. Len(s)
  BY ChildrenAssumption, QuadrantElements DEF ChildIds, ChildAt
<1>. DEFINE q == s[m]
            n == Len(p) + 1
<1>1. q \in Quadrants /\ Len(q) = n /\ q[n] = z /\ \A j \in 1 .. Len(p) : q[j] = p[j]
  BY DEF ChildAt
<1>2. Len(a) <= Len(p) /\ \A j \in 1 .. Len(a) : p[j] = a[j]
  BY WithinElements
<1>. HIDE DEF q
<1>3. ASSUME NEW j \in 1 .. Len(a) PROVE q[j] = a[j]
  <2>1. j \in 1 .. Len(p)
    BY <1>0, <1>2
  <2>. QED BY <2>1, <1>1, <1>2
<1>4. m < Len(s)
  <2>. SUFFICES ASSUME m = Len(s) PROVE FALSE
    BY <1>0
  <2>. DEFINE r == s[e]
  <2>1. r \in Quadrants /\ AtEdge(a, r, CHILDREN - 1)
    OBVIOUS
  <2>2. e = m \/ Parted(r, q)
    <3>1. AllParted(s)
      BY GaplessParted
    <3>2. e = m \/ e < m
      BY <1>0
    <3>. QED BY <3>1, <3>2, <1>0 DEF AllParted, q
  <2>3. CASE e = m
    <3>1. r = q
      BY <2>3 DEF q
    <3>2. n \in Len(a) + 1 .. Len(q)
      BY <1>0, <1>1, <1>2
    <3>3. q[n] = CHILDREN - 1
      BY <2>1, <3>1, <3>2 DEF AtEdge
    <3>. QED BY <3>3, <1>0, <1>1
  <2>. HIDE DEF r
  <2>4. CASE Parted(r, q)
    <3>1. PICK l \in 1 .. QMAXLEVEL : PartBelow(r, q, l)
      BY <2>4 DEF Parted
    <3>2. /\ l \in 1 .. Len(r) /\ l \in 1 .. Len(q) /\ r[l] < q[l] /\ l \in Nat
          /\ Len(r) \in Nat
      BY <2>1, <3>1, LevelAssumption, <1>0, <1>1, QuadrantElements DEF PartBelow
    <3>3. q[l] \in Int /\ q[l] <= CHILDREN - 1
      BY <3>2, <1>1, QuadrantElements
    <3>4. CASE l <= Len(a)
      <4>1. l \in 1 .. Len(a)
        BY <3>2, <3>4, <1>0
      <4>2. r[l] = a[l] /\ q[l] = a[l]
        BY <4>1, <2>1, <1>3 DEF AtEdge
      <4>. QED BY <4>2, <3>2, <3>3
    <3>5. CASE ~ (l <= Len(a))
      <4>1. l \in Len(a) + 1 .. Len(r)
        BY <3>2, <3>5, <1>0
      <4>2. r[l] = CHILDREN - 1
        BY <4>1, <2>1 DEF AtEdge
      <4>. QED BY <4>2, <3>2, <3>3, <1>0
    <3>. QED BY <3>4, <3>5
  <2>. QED BY <2>2, <2>3, <2>4
<1>. DEFINE r == s[m + 1]
<1>5. r \in Quadrants /\ m + 1 \in 1 .. Len(s) /\ Adjacent(q, r)
  <2>1. m \in 1 .. Len(s) - 1 /\ m + 1 \in 1 .. Len(s)
    BY <1>0, <1>4
  <2>. QED BY <2>1 DEF Gapless, q
<1>6. IsAncestor(a, r) => Len(r) <= n
  BY <1>5
<1>. HIDE DEF r
<1>7. PICK k \in 1 .. QMAXLEVEL : PartOn(q, r, k)
  BY <1>1, <1>5, AdjacentParts
<1>8. k \in Nat /\ k <= n /\ k <= Len(r) /\ Len(r) \in Nat
  BY <1>1, <1>5, <1>7, LevelAssumption, QuadrantElements DEF PartOn
<1>9. k = n
  <2>. SUFFICES ASSUME k < n PROVE FALSE
    BY <1>0, <1>8
  <2>1. n \in k + 1 .. Len(q)
    BY <1>0, <1>1, <1>8
  <2>2. q[n] = CHILDREN - 1
    BY <2>1, <1>7 DEF PartOn
  <2>. QED BY <2>2, <1>0, <1>1
<1>10. \A j \in 1 .. Len(p) : r[j] = p[j]
  <2>1. ASSUME NEW j \in 1 .. Len(p) PROVE r[j] = p[j]
    <3>1. j \in 1 .. k - 1
      BY <1>0, <1>9
    <3>2. q[j] = r[j]
      BY <3>1, <1>7 DEF PartOn
    <3>. QED BY <3>2, <1>1
  <2>. QED BY <2>1
<1>11. r[n] = z + 1
  BY <1>1, <1>7, <1>9 DEF PartOn
<1>12. Len(r) = n
  <2>1. Len(a) < Len(r)
    BY <1>0, <1>2, <1>8, <1>9
  <2>2. ASSUME NEW j \in 1 .. Len(a) PROVE r[j] = a[j]
    <3>1. j \in 1 .. Len(p)
      BY <1>0, <1>2
    <3>. QED BY <3>1, <1>2, <1>10
  <2>3. IsAncestor(a, r)
    BY <2>1, <2>2, <1>5, WithinElements
  <2>. QED BY <2>3, <1>0, <1>6, <1>8, <1>9
<1>. QED BY <1>5, <1>10, <1>11, <1>12 DEF ChildAt, r

\* So does the previous sibling in front of a leaf which is not the first.
LEMMA PreviousChild ==
  ASSUME NEW s \in Seq(Quadrants), Gapless(s), NEW a \in Quadrants, NEW p \in Quadrants,
         Within(a, p), NEW e \in 1 .. Len(s), IsAncestor(a, s[e]), AtEdge(a, s[e], 0),
         \A i \in 1 .. Len(s) : IsAncestor(a, s[i]) => Len(s[i]) <= Len(p) + 1,
         NEW m, NEW z \in ChildIds, z > 0, ChildAt(s, p, m, z)
  PROVE  ChildAt(s, p, m - 1, z - 1)
<1>0. /\ CHILDREN \in Nat /\ CHILDREN > 1 /\ Len(s) \in Nat /\ z \in Nat
      /\ Len(a) \in Nat /\ Len(p) \in Nat /\ m \in 1 .. Len(s)
  BY ChildrenAssumption, QuadrantElements DEF ChildIds, ChildAt
<1>. DEFINE q == s[m]
            n == Len(p) + 1
<1>1. q \in Quadrants /\ Len(q) = n /\ q[n] = z /\ \A j \in 1 .. Len(p) : q[j] = p[j]
  BY DEF ChildAt
<1>2. Len(a) <= Len(p) /\ \A j \in 1 .. Len(a) : p[j] = a[j]
  BY WithinElements
<1>. HIDE DEF q
<1>3. ASSUME NEW j \in 1 .. Len(a) PROVE q[j] = a[j]
  <2>1. j \in 1 .. Len(p)
    BY <1>0, <1>2
  <2>. QED BY <2>1, <1>1, <1>2
<1>4. m > 1
  <2>. SUFFICES ASSUME m = 1 PROVE FALSE
    BY <1>0
  <2>. DEFINE r == s[e]
  <2>1. r \in Quadrants /\ AtEdge(a, r, 0)
    OBVIOUS
  <2>2. e = m \/ Parted(q, r)
    <3>1. AllParted(s)
      BY GaplessParted
    <3>2. e = m \/ m < e
      BY <1>0
    <3>. QED BY <3>1, <3>2, <1>0 DEF AllParted, q
  <2>3. CASE e = m
    <3>1. r = q
      BY <2>3 DEF q
    <3>2. n \in Len(a) + 1 .. Len(q)
      BY <1>0, <1>1, <1>2
    <3>3. q[n] = 0
      BY <2>1, <3>1, <3>2 DEF AtEdge
    <3>. QED BY <3>3, <1>0, <1>1
  <2>. HIDE DEF r
  <2>4. CASE Parted(q, r)
    <3>1. PICK l \in 1 .. QMAXLEVEL : PartBelow(q, r, l)
      BY <2>4 DEF Parted
    <3>2. /\ l \in 1 .. Len(r) /\ l \in 1 .. Len(q) /\ q[l] < r[l] /\ l \in Nat
          /\ Len(r) \in Nat
      BY <2>1, <3>1, LevelAssumption, <1>0, <1>1, QuadrantElements DEF PartBelow
    <3>3. q[l] \in Int /\ 0 <= q[l]
      BY <3>2, <1>1, QuadrantElements
    <3>4. CASE l <= Len(a)
      <4>1. l \in 1 .. Len(a)
        BY <3>2, <3>4, <1>0
      <4>2. r[l] = a[l] /\ q[l] = a[l]
        BY <4>1, <2>1, <1>3 DEF AtEdge
      <4>. QED BY <4>2, <3>2, <3>3
    <3>5. CASE ~ (l <= Len(a))
      <4>1. l \in Len(a) + 1 .. Len(r)
        BY <3>2, <3>5, <1>0
      <4>2. r[l] = 0
        BY <4>1, <2>1 DEF AtEdge
      <4>. QED BY <4>2, <3>2, <3>3, <1>0
    <3>. QED BY <3>4, <3>5
  <2>. QED BY <2>2, <2>3, <2>4
<1>. DEFINE r == s[m - 1]
<1>5. r \in Quadrants /\ m - 1 \in 1 .. Len(s) /\ Adjacent(r, q)
  <2>1. m - 1 \in 1 .. Len(s) - 1 /\ m - 1 \in 1 .. Len(s) /\ (m - 1) + 1 = m
    BY <1>0, <1>4
  <2>2. Adjacent(s[m - 1], s[(m - 1) + 1])
    BY <2>1 DEF Gapless
  <2>. QED BY <2>1, <2>2 DEF q
<1>6. IsAncestor(a, r) => Len(r) <= n
  BY <1>5
<1>. HIDE DEF r
<1>7. PICK k \in 1 .. QMAXLEVEL : PartOn(r, q, k)
  BY <1>1, <1>5, AdjacentParts
<1>8. k \in Nat /\ k <= n /\ k <= Len(r) /\ Len(r) \in Nat
  BY <1>1, <1>5, <1>7, LevelAssumption, QuadrantElements DEF PartOn
<1>9. k = n
  <2>. SUFFICES ASSUME k < n PROVE FALSE
    BY <1>0, <1>8
  <2>1. n \in k + 1 .. Len(q)
    BY <1>0, <1>1, <1>8
  <2>2. q[n] = 0
    BY <2>1, <1>7 DEF PartOn
  <2>. QED BY <2>2, <1>0, <1>1
<1>10. \A j \in 1 .. Len(p) : r[j] = p[j]
  <2>1. ASSUME NEW j \in 1 .. Len(p) PROVE r[j] = p[j]
    <3>1. j \in 1 .. k - 1
      BY <1>0, <1>9
    <3>2. r[j] = q[j]
      BY <3>1, <1>7 DEF PartOn
    <3>. QED BY <3>2, <1>1
  <2>. QED BY <2>1
<1>11. r[n] = z - 1
  <2>1. q[n] = r[n] + 1
    BY <1>7, <1>9 DEF PartOn
  <2>2. n \in 1 .. Len(r)
    BY <1>0, <1>8, <1>9
  <2>3. r[n] \in Int
    BY <2>2, <1>5, QuadrantElements
  <2>4. z = r[n] + 1
    BY <2>1, <1>1
  <2>5. z \in Int
    BY <1>0
  <2>. HIDE DEF n
  <2>. QED BY <2>3, <2>4, <2>5
<1>12. Len(r) = n
  <2>1. Len(a) < Len(r)
    BY <1>0, <1>2, <1>8, <1>9
  <2>2. ASSUME NEW j \in 1 .. Len(a) PROVE r[j] = a[j]
    <3>1. j \in 1 .. Len(p)
      BY <1>0, <1>2
    <3>. QED BY <3>1, <1>2, <1>10
  <2>3. IsAncestor(a, r)
    BY <2>1, <2>2, <1>5, WithinElements
  <2>. QED BY <2>3, <1>0, <1>6, <1>8, <1>9
<1>. QED BY <1>5, <1>10, <1>11, <1>12 DEF ChildAt, r

\* Where every window is settled no leaf is left below a formed parent: the
\* deepest one there would be in a family that is accepted.
LEMMA NoneBelowFormed ==
  ASSUME CallsAssumption, call \in Calls, NEW s \in Seq(Quadrants), Gapless(s),
         LeavesKnown(s), \A w \in Nat : Settled(s, w),
         NEW a \in Quadrants, Formed(a), NEW i \in 1 .. Len(s), IsAncestor(a, s[i])
  PROVE  FALSE
<1>0. /\ CHILDREN \in Nat /\ CHILDREN > 1 /\ Len(s) \in Nat /\ Len(a) \in Nat
      /\ 0 \in ChildIds /\ CHILDREN - 1 \in ChildIds
      /\ \A j \in 1 .. Len(s) : s[j] \in Quadrants
  BY ChildrenAssumption, QuadrantElements DEF ChildIds
<1>1. ASSUME NEW j \in 1 .. Len(s), Within(s[j], a) PROVE FALSE
  <2>1. IsAncestor(s[j], s[i])
    BY <1>0, <1>1, WithinAncestor
  <2>2. j # i
    <3>1. Len(s[j]) < Len(s[i]) /\ Len(s[j]) \in Nat
      BY <2>1, <1>0, QuadrantElements DEF IsAncestor, Level
    <3>. QED BY <3>1
  <2>3. Parted(s[i], s[j]) \/ Parted(s[j], s[i])
    <3>1. AllParted(s)
      BY GaplessParted
    <3>2. i < j \/ j < i
      BY <2>2, <1>0
    <3>. QED BY <3>1, <3>2 DEF AllParted
  <2>4. ~ IsAncestor(s[j], s[i])
    BY <2>3, <1>0, PartedApart
  <2>. QED BY <2>1, <2>4
<1>. DEFINE T == { Len(s[j]) : j \in { k \in 1 .. Len(s) : IsAncestor(a, s[k]) } }
<1>2. PICK m \in 1 .. Len(s) :
             /\ IsAncestor(a, s[m])
             /\ \A j \in 1 .. Len(s) : IsAncestor(a, s[j]) => Len(s[j]) <= Len(s[m])
  <2>1. T \in SUBSET (0 .. QMAXLEVEL) /\ T # {}
    BY <1>0, LevelType DEF Level
  <2>. HIDE DEF T
  <2>2. PICK x \in T : \A y \in T : y <= x
    BY <2>1, GreatestLevel
  <2>. QED BY <2>2 DEF T
<1>. DEFINE q == s[m]
            p == Parent(q)
<1>3. q \in Quadrants /\ IsAncestor(a, q) /\ Len(a) < Len(q) /\ \A j \in 1 .. Len(a) : q[j] = a[j]
  BY <1>0, <1>2, WithinElements
<1>. HIDE DEF q
<1>4. /\ p \in Quadrants /\ Len(q) \in Nat /\ Len(p) = Len(q) - 1 /\ Len(q) = Len(p) + 1
      /\ Len(p) \in Nat
      /\ \A j \in 1 .. Len(p) : q[j] = p[j]
  <2>1. Len(q) \in Nat /\ Len(q) > 0
    BY <1>0, <1>3, QuadrantElements
  <2>2. p \in Quadrants /\ Len(p) = Len(q) - 1 /\ \A j \in 1 .. Len(q) - 1 : p[j] = q[j]
    BY <2>1, <1>3, ParentElements
  <2>3. \A j \in 1 .. Len(p) : q[j] = p[j]
    BY <2>2
  <2>. HIDE DEF p
  <2>. QED BY <2>1, <2>2, <2>3
<1>. HIDE DEF p
<1>5. IsAncestor(p, q)
  <2>1. Len(p) < Len(q)
    BY <1>4
  <2>2. IsAncestor(p, q) <=> Len(p) < Len(q) /\ \A j \in 1 .. Len(p) : q[j] = p[j]
    BY <1>3, <1>4, WithinElements
  <2>. QED BY <2>1, <2>2, <1>4
<1>6. Within(a, p)
  <2>1. Len(a) <= Len(p)
    BY <1>0, <1>3, <1>4
  <2>2. ASSUME NEW j \in 1 .. Len(a) PROVE p[j] = a[j]
    <3>1. j \in 1 .. Len(p)
      BY <1>0, <1>4, <2>1
    <3>. QED BY <3>1, <1>3, <1>4
  <2>. QED BY <2>1, <2>2, <1>4, WithinElements
\* its parent is an inner node of a and so accepted
<1>7. p \in InputNodes
  <2>1. Known(q)
    BY <1>2 DEF LeavesKnown, q
  <2>2. PICK k \in 1 .. incount : AtEdge(q, call.input[k], 0)
    BY <1>3, <2>1, KnownEdges
  <2>3. call.input[k] \in Quadrants
    BY CallInput
  <2>4. Within(q, call.input[k])
    BY <2>2, <2>3, <1>3, WithinElements DEF AtEdge
  <2>5. IsAncestor(p, call.input[k])
    <3>1. q = call.input[k] \/ IsAncestor(q, call.input[k])
      BY <2>4 DEF Within
    <3>2. Within(p, q)
      BY <1>5 DEF Within
    <3>3. IsAncestor(q, call.input[k]) => IsAncestor(p, call.input[k])
      BY <3>2, <2>3, <1>3, <1>4, WithinAncestor
    <3>. QED BY <3>1, <3>3, <1>5
  <2>. QED BY <2>3, <2>5, <1>4, NodeElements
<1>8. p \in InnerNodes(a) /\ p \in call.coarsen_fn
  BY <1>6, <1>7 DEF InnerNodes, Formed
\* and all of its children are leaves
<1>9. PICK e \in 1 .. Len(s) : IsAncestor(a, s[e]) /\ AtEdge(a, s[e], 0)
  BY <1>1, LeafAtEdge
<1>10. PICK f \in 1 .. Len(s) : IsAncestor(a, s[f]) /\ AtEdge(a, s[f], CHILDREN - 1)
  BY <1>1, LeafAtEdge
<1>11. \A j \in 1 .. Len(s) : IsAncestor(a, s[j]) => Len(s[j]) <= Len(p) + 1
  BY <1>2, <1>4 DEF q
<1>. DEFINE z == q[Len(p) + 1]
<1>12. z \in Nat /\ z < CHILDREN /\ z \in ChildIds /\ ChildAt(s, p, m, z)
  <2>1. Len(p) + 1 \in 1 .. Len(q)
    BY <1>4
  <2>2. z \in Int /\ 0 <= z /\ z <= CHILDREN - 1
    BY <2>1, <1>3, QuadrantElements
  <2>3. ChildAt(s, p, m, z)
    BY <1>2, <1>4 DEF ChildAt, q
  <2>. HIDE DEF z
  <2>. QED BY <2>2, <2>3, <1>0 DEF ChildIds
<1>. HIDE DEF z
<1>13. \A d \in Nat : d <= z => ChildAt(s, p, m - d, z - d)
  <2>. DEFINE S == { d \in Nat : d <= z => ChildAt(s, p, m - d, z - d) }
  <2>1. 0 \in S
    BY <1>12
  <2>2. ASSUME NEW d \in Nat, d \in S PROVE d + 1 \in S
    <3>. SUFFICES ASSUME d + 1 <= z PROVE ChildAt(s, p, m - (d + 1), z - (d + 1))
      OBVIOUS
    <3>. DEFINE mm == m - d
                zz == z - d
    <3>0. d <= z /\ zz \in Nat /\ zz > 0 /\ zz < CHILDREN
      BY <1>0, <1>12
    <3>1. zz \in ChildIds /\ ChildAt(s, p, mm, zz)
      <4>1. ChildAt(s, p, mm, zz)
        BY <2>2, <3>0
      <4>. HIDE DEF mm, zz
      <4>2. zz \in ChildIds
        BY <1>0, <3>0 DEF ChildIds
      <4>. QED BY <4>1, <4>2
    <3>2. mm - 1 = m - (d + 1) /\ zz - 1 = z - (d + 1)
      BY <1>12
    <3>. HIDE DEF mm, zz
    <3>3. ChildAt(s, p, mm - 1, zz - 1)
      BY <3>0, <3>1, <1>4, <1>6, <1>9, <1>11, PreviousChild
    <3>. QED BY <3>2, <3>3
  <2>. HIDE DEF S
  <2>3. \A d \in Nat : d \in S
    BY <2>1, <2>2, NatSetInduction
  <2>. QED BY <2>3 DEF S
<1>. DEFINE w == m - z - 1
<1>14. ChildAt(s, p, w + 1, 0)
  <2>1. ChildAt(s, p, m - z, z - z)
    BY <1>12, <1>13
  <2>2. m - z = w + 1 /\ z - z = 0
    BY <1>12
  <2>. HIDE DEF w
  <2>. QED BY <2>1, <2>2
<1>15. w \in Nat
  BY <1>12, <1>14 DEF ChildAt
<1>. HIDE DEF w
<1>16. \A d \in Nat : d < CHILDREN => ChildAt(s, p, w + d + 1, d)
  <2>. DEFINE S == { d \in Nat : d < CHILDREN => ChildAt(s, p, w + d + 1, d) }
  <2>1. 0 \in S
    <3>1. w + 0 + 1 = w + 1
      BY <1>15
    <3>. QED BY <3>1, <1>14
  <2>2. ASSUME NEW d \in Nat, d \in S PROVE d + 1 \in S
    <3>. SUFFICES ASSUME d + 1 < CHILDREN PROVE ChildAt(s, p, w + (d + 1) + 1, d + 1)
      OBVIOUS
    <3>. DEFINE mm == w + d + 1
    <3>1. d \in ChildIds /\ d < CHILDREN - 1 /\ ChildAt(s, p, mm, d)
      BY <1>0, <2>2 DEF ChildIds
    <3>2. mm + 1 = w + (d + 1) + 1
      BY <1>15
    <3>. HIDE DEF mm
    <3>3. ChildAt(s, p, mm + 1, d + 1)
      BY <3>1, <1>4, <1>6, <1>10, <1>11, NextChild
    <3>. QED BY <3>2, <3>3
  <2>. HIDE DEF S
  <2>3. \A d \in Nat : d \in S
    BY <2>1, <2>2, NatSetInduction
  <2>. QED BY <2>3 DEF S
<1>17. ASSUME NEW d \in ChildIds
       PROVE  /\ w + d + 1 \in 1 .. Len(s) /\ Len(s[w + d + 1]) = Len(p) + 1
              /\ ChildId(s[w + d + 1]) = d
  <2>1. ChildAt(s, p, w + d + 1, d)
    BY <1>0, <1>16 DEF ChildIds
  <2>. DEFINE c == s[w + d + 1]
  <2>2. c \in Quadrants /\ Len(c) = Len(p) + 1 /\ c[Len(p) + 1] = d
    BY <2>1, <1>0 DEF ChildAt
  <2>. HIDE DEF c
  <2>3. ChildId(c) = d
    BY <2>2, <1>4, ChildIdElement
  <2>. QED BY <2>1, <2>2, <2>3 DEF c, ChildAt
<1>18. NumbersAt(s, w)
  <2>1. w + CHILDREN <= Len(s)
    <3>1. w + (CHILDREN - 1) + 1 \in 1 .. Len(s)
      BY <1>0, <1>17
    <3>. QED BY <3>1, <1>0, <1>15
  <2>. QED BY <2>1, <1>15, <1>17 DEF NumbersAt, ChildIds
<1>19. Parent(s[w + 1]) = p
  <2>. DEFINE c == s[w + 1]
  <2>1. c \in Quadrants /\ Len(c) = Len(p) + 1 /\ \A j \in 1 .. Len(p) : c[j] = p[j]
    BY <1>0, <1>14 DEF ChildAt
  <2>. HIDE DEF c
  <2>. DEFINE t == Parent(c)
  <2>2. Len(c) > 0 /\ Len(c) - 1 = Len(p)
    BY <2>1, <1>4
  <2>3. t \in Quadrants /\ Len(t) = Len(p) /\ \A j \in 1 .. Len(p) : t[j] = c[j]
    BY <2>1, <2>2, ParentElements
  <2>. HIDE DEF t
  <2>5. t \in Seq(Int) /\ p \in Seq(Int)
    BY <2>3, <1>4, QuadrantElements
  <2>6. \A j \in 1 .. Len(p) : t[j] = p[j]
    BY <2>1, <2>3
  <2>4. t = p
    <3>1. \A j \in 1 .. Len(t) : t[j] = p[j]
      BY <2>3, <2>6
    <3>. QED BY <3>1, <2>3, <2>5, SeqEqual
  <2>. QED BY <2>4 DEF t, c
\* that family is accepted, so one of it is a parent of a call without recursion
<1>20. ~ call.coarsen_recursive /\ \E d \in ChildIds : s[w + d + 1] \notin Old
  BY <1>8, <1>15, <1>18, <1>19 DEF Settled, ChildIds
<1>21. PICK d \in ChildIds : s[w + d + 1] \notin Old
  BY <1>20
<1>. DEFINE c == s[w + d + 1]
<1>22. c \in Quadrants /\ Len(c) = Len(p) + 1 /\ Known(c) /\ c \notin Old
  BY <1>0, <1>17, <1>21 DEF LeavesKnown
<1>23. \A j \in 1 .. Len(p) : c[j] = p[j]
  <2>1. ChildAt(s, p, w + d + 1, d)
    BY <1>0, <1>16 DEF ChildIds
  <2>. QED BY <2>1 DEF ChildAt
<1>. HIDE DEF c
<1>24. c \in InputNodes
  BY <1>22, FormedNode DEF Known
<1>25. IsAncestor(p, c)
  <2>1. Len(p) < Len(c)
    BY <1>4, <1>22
  <2>2. IsAncestor(p, c) <=> Len(p) < Len(c) /\ \A j \in 1 .. Len(p) : c[j] = p[j]
    BY <1>4, <1>22, WithinElements
  <2>. QED BY <2>1, <2>2, <1>23
<1>26. c \in InnerNodes(a) /\ c # a
  <2>1. IsAncestor(a, c)
    BY <1>4, <1>6, <1>22, <1>25, WithinAncestor
  <2>2. Len(a) < Len(c)
    BY <2>1 DEF IsAncestor, Level
  <2>. QED BY <2>1, <2>2, <1>0, <1>24 DEF InnerNodes, Within
<1>27. InnerNodes(a) = { a }
  BY <1>20 DEF Formed
<1>. QED BY <1>26, <1>27

\* A known quadrant that is not input is an inner node of it.
LEMMA KnownFormed ==
  ASSUME CallsAssumption, call \in Calls, NEW q \in Quadrants, Known(q)
  PROVE  q \in Old \/ (q \in InputNodes /\ Formed(q))
BY FormedNode DEF Known

\* The leaves that are left when every window is settled are those that the
\* input and the callback's answers describe.
LEMMA SettledLeaves ==
  ASSUME CallsAssumption, call \in Calls, NEW s \in Seq(Quadrants), Gapless(s),
         LeavesKnown(s), \A w \in Nat : Settled(s, w)
  PROVE  { s[i] : i \in 1 .. Len(s) } = ResultLeaves
<1>. DEFINE formed == { a \in InputNodes : Formed(a) }
<1>0. \A i \in 1 .. Len(s) : s[i] \in Quadrants
  OBVIOUS
<1>1. ASSUME NEW a \in formed PROVE a \in Quadrants /\ Formed(a)
  BY <1>1, NodeElements
<1>2. ResultLeaves = { q \in formed \union Old : ~ \E a \in formed : IsAncestor(a, q) }
  BY DEF ResultLeaves, Old
<1>3. ASSUME NEW i \in 1 .. Len(s) PROVE s[i] \in formed \union Old
  <2>1. s[i] \in Quadrants /\ Known(s[i])
    BY <1>0 DEF LeavesKnown
  <2>. QED BY <2>1, KnownFormed
<1>4. ASSUME NEW i \in 1 .. Len(s), NEW a \in formed, IsAncestor(a, s[i]) PROVE FALSE
  BY <1>1, <1>4, NoneBelowFormed
<1>5. ASSUME NEW q \in formed \union Old, \A a \in formed : ~ IsAncestor(a, q)
      PROVE  \E i \in 1 .. Len(s) : q = s[i]
  <2>1. q \in Quadrants /\ Known(q)
    BY <1>1, OldHasNoNodes DEF Known
  <2>2. PICK k \in 1 .. incount : AtEdge(q, call.input[k], 0)
    BY <2>1, KnownEdges
  <2>. DEFINE x == call.input[k]
  <2>3. x \in Quadrants
    BY CallInput
  <2>4. PICK i \in 1 .. Len(s) : Within(s[i], x)
    BY DEF LeavesKnown
  <2>5. AtEdge(q, x, 0)
    BY <2>2
  <2>. DEFINE r == s[i]
  <2>6. r \in Quadrants /\ Known(r) /\ Within(r, x)
    BY <1>0, <2>4 DEF LeavesKnown
  <2>7. ~ IsAncestor(q, x) \/ q \notin Old
    BY OldHasNoNodes
  <2>8. ~ IsAncestor(r, x) \/ r \notin Old
    BY OldHasNoNodes
  <2>9. ~ IsAncestor(q, r) \/ q \notin formed
    BY <1>4
  <2>10. r \in formed => ~ IsAncestor(r, q)
    BY <1>5
  <2>11. r \in formed \union Old
    BY <1>3
  <2>. HIDE DEF x, r, formed
  <2>12. Within(q, x)
    BY <2>1, <2>3, <2>5, WithinElements DEF AtEdge
  <2>13. Within(q, r) \/ IsAncestor(r, q)
    BY <2>1, <2>3, <2>6, <2>12, Nested
  <2>14. ASSUME IsAncestor(r, q) PROVE FALSE
    <3>1. Within(r, q)
      BY <2>14 DEF Within
    <3>2. IsAncestor(q, x) => IsAncestor(r, x)
      BY <3>1, <2>1, <2>3, <2>6, WithinAncestor
    <3>3. IsAncestor(r, x)
      BY <3>2, <2>12, <2>14 DEF Within
    <3>. QED BY <3>3, <2>8, <2>10, <2>11, <2>14
  <2>15. ASSUME IsAncestor(q, r) PROVE FALSE
    <3>1. Within(q, r)
      BY <2>15 DEF Within
    <3>2. IsAncestor(r, x) => IsAncestor(q, x)
      BY <3>1, <2>1, <2>3, <2>6, WithinAncestor
    <3>3. IsAncestor(q, x)
      BY <3>2, <2>6, <2>15 DEF Within
    <3>. QED BY <3>3, <2>7, <2>9, <2>15, <1>5
  <2>16. q = r
    BY <2>13, <2>14, <2>15 DEF Within
  <2>. QED BY <2>16 DEF r
<1>. HIDE DEF formed
<1>. QED BY <1>2, <1>3, <1>4, <1>5

\* A merge takes a family out of the counts and puts its parent in.
LEMMA MergeCounts ==
  ASSUME NEW s \in Seq(Quadrants), NEW t, NEW w, Gapless(s), NumbersAt(s, w), MergedAt(s, t, w),
         NEW l
  PROVE  LET c == Level(s[w + 1])
         IN  /\ CountOf(t, l) + (IF l = c THEN CHILDREN ELSE 0)
                  = CountOf(s, l) + (IF l = c - 1 THEN 1 ELSE 0)
             /\ c \in 1 .. QMAXLEVEL
<1>. DEFINE p == Parent(s[w + 1])
            c == Level(s[w + 1])
            k == w + CHILDREN
            a == SubSeq(s, 1, w)
            f == SubSeq(s, w + 1, k)
            b == SubSeq(s, k + 1, Len(s))
<1>1. /\ CHILDREN \in Nat /\ CHILDREN > 1 /\ w \in Nat /\ Len(s) \in Nat /\ k \in Nat
      /\ k <= Len(s) /\ w + 1 \in 1 .. Len(s) /\ w <= Len(s)
  BY ChildrenAssumption DEF NumbersAt
<1>2. /\ Len(s[w + 1]) > 0 /\ s[w + 1] \in Quadrants
      /\ \A z \in 0 .. CHILDREN - 1 : s[w + z + 1] = Sibling(s[w + 1], z)
  BY <1>1, NumbersAreFamily
<1>3. /\ p \in Quadrants /\ Level(p) = c - 1 /\ c \in 1 .. QMAXLEVEL
      /\ \A z \in ChildIds : Level(Child(p, z)) = c
  <2>. DEFINE q == s[w + 1]
  <2>0. q \in Quadrants /\ Len(q) > 0
    BY <1>2
  <2>. HIDE DEF q
  <2>1. Parent(q) \in Quadrants /\ Len(Parent(q)) = Len(q) - 1
    BY <2>0, ParentElements
  <2>2. Len(q) \in Nat /\ Len(q) <= QMAXLEVEL /\ QMAXLEVEL \in Nat
    BY <2>0, QuadrantElements, LevelAssumption
  <2>. DEFINE pp == Parent(q)
  <2>3. pp \in Quadrants /\ Level(pp) = Len(q) - 1
    BY <2>1 DEF Level
  <2>. HIDE DEF pp
  <2>4. ASSUME NEW z \in ChildIds PROVE Level(Child(pp, z)) = Len(q)
    <3>1. Level(pp) < QMAXLEVEL
      BY <2>2, <2>3
    <3>2. Len(Child(pp, z)) = Len(pp) + 1
      BY <2>3, <3>1, ChildElements
    <3>. QED BY <3>2, <2>2, <2>3 DEF Level
  <2>5. Len(q) \in 1 .. QMAXLEVEL
    BY <2>0, <2>2
  <2>. QED BY <2>3, <2>4, <2>5 DEF pp, q, Level
<1>4. \A z \in ChildIds : s[w + z + 1] = Child(p, z)
  BY <1>2 DEF Sibling, Child, ChildIds
<1>. HIDE DEF p, c
<1>5. a \in Seq(Quadrants) /\ Len(a) = w /\ \A j \in 1 .. w : a[j] = s[j]
  BY <1>1, SubSeqProperties
<1>6. /\ f \in Seq(Quadrants) /\ Len(f) = CHILDREN
      /\ \A j \in 1 .. CHILDREN : f[j] = s[w + j]
  <2>1. f = [j \in 1 .. k - (w + 1) + 1 |-> s[(w + 1) + j - 1]]
    BY <1>1
  <2>2. k - (w + 1) + 1 = CHILDREN /\ \A j \in 1 .. CHILDREN : (w + 1) + j - 1 = w + j
    BY <1>1
  <2>3. \A j \in 1 .. CHILDREN : w + j \in 1 .. Len(s)
    BY <1>1
  <2>. HIDE DEF f, k
  <2>4. f = [j \in 1 .. CHILDREN |-> s[w + j]]
    BY <2>1, <2>2
  <2>5. \A j \in 1 .. CHILDREN : s[w + j] \in Quadrants
    BY <2>3
  <2>. QED BY <2>4, <2>5, <1>1
<1>7. /\ b \in Seq(Quadrants) /\ Len(b) = Len(s) - k
      /\ \A j \in 1 .. Len(s) - k : b[j] = s[k + j]
  <2>. HIDE DEF k
  <2>. QED BY <1>1, SuffixElements
<1>8. /\ t \in Seq(Quadrants) /\ Len(t) = Len(s) - CHILDREN + 1
      /\ \A i \in 1 .. w : t[i] = s[i]
      /\ t[w + 1] = p
      /\ \A i \in w + 2 .. Len(t) : t[i] = s[i + CHILDREN - 1]
  BY DEF MergedAt, p
<1>. HIDE DEF a, f, b
<1>9. s = (a \o f) \o b
  <2>. DEFINE af == a \o f
  <2>6. a \in Seq(Quadrants) /\ f \in Seq(Quadrants)
    BY <1>5, <1>6
  <2>7. /\ af \in Seq(Quadrants) /\ Len(af) = Len(a) + Len(f)
        /\ \A i \in 1 .. Len(af) : af[i] = IF i <= Len(a) THEN a[i] ELSE f[i - Len(a)]
    BY <2>6
  <2>. HIDE DEF af
  <2>1. /\ af \in Seq(Quadrants) /\ Len(af) = k
        /\ \A i \in 1 .. k : af[i] = IF i <= w THEN a[i] ELSE f[i - w]
    <3>1. Len(a) = w /\ Len(a) + Len(f) = k
      BY <1>5, <1>6
    <3>. HIDE DEF k
    <3>. QED BY <2>7, <3>1
  <2>2. ASSUME NEW i \in 1 .. k PROVE s[i] = af[i]
    <3>1. CASE i <= w
      BY <3>1, <2>1, <1>5
    <3>2. CASE ~ (i <= w)
      <4>. DEFINE j == i - w
      <4>1. j \in 1 .. CHILDREN /\ w + j = i
        BY <3>2, <1>1
      <4>2. af[i] = f[j]
        BY <3>2, <2>1
      <4>. HIDE DEF j
      <4>3. f[j] = s[w + j]
        BY <4>1, <1>6
      <4>. QED BY <4>1, <4>2, <4>3
    <3>. QED BY <3>1, <3>2
  <2>. HIDE DEF af, k
  <2>3. Len(s) = Len(af) + Len(b)
    BY <2>1, <1>1, <1>7
  <2>4. \A i \in 1 .. Len(b) : s[Len(af) + i] = b[i]
    BY <2>1, <1>7
  <2>5. s = af \o b
    BY <2>1, <2>2, <2>3, <2>4, <1>7, ConcatEqual
  <2>. QED BY <2>5 DEF af
<1>10. t = (a \o << p >>) \o b
  <2>. DEFINE ap == a \o << p >>
  <2>1. /\ ap \in Seq(Quadrants) /\ Len(ap) = w + 1 /\ ap[w + 1] = p
        /\ \A j \in 1 .. w : ap[j] = a[j]
    BY <1>1, <1>3, <1>5
  <2>. HIDE DEF ap
  <2>2. Len(t) = Len(ap) + Len(b)
    <3>1. /\ Len(t) = Len(s) - CHILDREN + 1 /\ Len(ap) = w + 1
          /\ Len(b) = Len(s) - (w + CHILDREN)
      BY <2>1, <1>7, <1>8
    <3>. QED BY <3>1, <1>1
  <2>3. ASSUME NEW j \in 1 .. Len(ap) PROVE t[j] = ap[j]
    <3>1. CASE j = w + 1
      BY <3>1, <2>1, <1>8
    <3>2. CASE j # w + 1
      <4>1. j \in 1 .. w
        BY <3>2, <2>1, <1>1
      <4>. QED BY <4>1, <2>1, <1>5, <1>8
    <3>. QED BY <3>1, <3>2
  <2>4. ASSUME NEW j \in 1 .. Len(b) PROVE t[Len(ap) + j] = b[j]
    <3>1. w + 1 + j \in w + 2 .. Len(t) /\ (w + 1 + j) + CHILDREN - 1 = k + j
      BY <1>1, <1>7, <1>8
    <3>2. b[j] = s[k + j]
      BY <1>7
    <3>. QED BY <3>1, <3>2, <2>1, <1>8
  <2>5. t = ap \o b
    BY <2>1, <2>2, <2>3, <2>4, <1>7, <1>8, ConcatEqual
  <2>. QED BY <2>5 DEF ap
<1>11. \A j \in 1 .. Len(f) : Level(f[j]) = c
  <2>1. ASSUME NEW j \in 1 .. CHILDREN PROVE Level(f[j]) = c
    <3>1. j - 1 \in ChildIds /\ w + (j - 1) + 1 = w + j
      BY <1>1 DEF ChildIds
    <3>2. f[j] = s[w + (j - 1) + 1]
      BY <3>1, <1>6
    <3>. QED BY <3>1, <3>2, <1>3, <1>4
  <2>. QED BY <2>1, <1>6
<1>. DEFINE pp == << p >>
            af == a \o f
            ap == a \o pp
<1>12. pp \in Seq(Quadrants) /\ Len(pp) = 1 /\ \A j \in 1 .. Len(pp) : Level(pp[j]) = c - 1
  BY <1>3
<1>13. af \in Seq(Quadrants) /\ ap \in Seq(Quadrants)
  BY <1>5, <1>6, <1>12
<1>. HIDE DEF pp
<1>14. CountOf(af, l) = CountOf(a, l) + CountOf(f, l)
  BY <1>5, <1>6, CountConcat
<1>15. CountOf(ap, l) = CountOf(a, l) + CountOf(pp, l)
  BY <1>5, <1>12, CountConcat
<1>. HIDE DEF af, ap
<1>16. CountOf(af \o b, l) = CountOf(af, l) + CountOf(b, l)
  BY <1>7, <1>13, CountConcat
<1>17. CountOf(ap \o b, l) = CountOf(ap, l) + CountOf(b, l)
  BY <1>7, <1>13, CountConcat
<1>18. CountOf(f, l) = IF l = c THEN CHILDREN ELSE 0
  BY <1>6, <1>11, CountUniform
<1>19. CountOf(pp, l) = IF l = c - 1 THEN 1 ELSE 0
  BY <1>12, CountUniform
<1>20. CountOf(a, l) \in Nat /\ CountOf(b, l) \in Nat
  BY <1>5, <1>7, OnLevelFinite
<1>21. s = af \o b /\ t = ap \o b
  BY <1>9, <1>10 DEF af, ap, pp
<1>22. /\ CountOf(s, l) = CountOf(a, l) + (IF l = c THEN CHILDREN ELSE 0) + CountOf(b, l)
       /\ CountOf(t, l) = CountOf(a, l) + (IF l = c - 1 THEN 1 ELSE 0) + CountOf(b, l)
  BY <1>14, <1>15, <1>16, <1>17, <1>18, <1>19, <1>21
<1>23. CountOf(t, l) + (IF l = c THEN CHILDREN ELSE 0)
         = CountOf(s, l) + (IF l = c - 1 THEN 1 ELSE 0)
  BY <1>1, <1>20, <1>22
<1>. QED BY <1>3, <1>23 DEF c

\* The levels with a positive count are those of the array.
LEMMA UsedLevels ==
  ASSUME NEW s \in Seq(Quadrants), s # << >>, NEW counts, counts = CountLevels(s)
  PROVE  LET used == { l \in 0 .. QMAXLEVEL : counts[l] > 0 }
         IN  used = Levels(s) /\ used # {}
<1>. DEFINE used == { l \in 0 .. QMAXLEVEL : counts[l] > 0 }
<1>1. ASSUME NEW l \in 0 .. QMAXLEVEL PROVE counts[l] = CountOf(s, l) /\ CountOf(s, l) \in Nat
  BY OnLevelFinite DEF CountLevels, CountOf, OnLevel
<1>2. ASSUME NEW l \in 0 .. QMAXLEVEL PROVE l \in used <=> OnLevel(s, l) # {}
  <2>1. IsFiniteSet(OnLevel(s, l))
    BY OnLevelFinite
  <2>2. CountOf(s, l) = 0 <=> OnLevel(s, l) = {}
    BY <2>1, FS_EmptySet DEF CountOf
  <2>. QED BY <1>1, <2>2
<1>3. \A i \in 1 .. Len(s) : Level(s[i]) \in 0 .. QMAXLEVEL
  BY LevelType
<1>4. used = Levels(s)
  <2>1. ASSUME NEW l \in used PROVE l \in Levels(s)
    <3>1. PICK i \in 1 .. Len(s) : Level(s[i]) = l
      BY <1>2, <2>1 DEF OnLevel
    <3>. QED BY <3>1 DEF Levels
  <2>2. ASSUME NEW l \in Levels(s) PROVE l \in used
    <3>1. PICK i \in 1 .. Len(s) : Level(s[i]) = l
      BY <2>2 DEF Levels
    <3>2. l \in 0 .. QMAXLEVEL /\ OnLevel(s, l) # {}
      BY <1>3, <3>1 DEF OnLevel
    <3>. QED BY <1>2, <3>2
  <2>. QED BY <2>1, <2>2
<1>5. Levels(s) # {}
  <2>1. 1 \in 1 .. Len(s)
    OBVIOUS
  <2>. QED BY <2>1 DEF Levels
<1>. QED BY <1>4, <1>5

\* The leaves are on the way to the result, and counted.
ResultInv ==
  /\ LeavesKnown(Leaves)
  /\ quadrants_per_level = CountLevels(Leaves)
  /\ pc = "done" => maxlevel = HighestLevel(quadrants)

\* What the leaves may be is fixed with the arguments of the call.
LEMMA KnownStays ==
  ASSUME call' = call
  PROVE  /\ incount' = incount /\ Old' = Old
         /\ \A q : Formed(q)' <=> Formed(q)
<1>1. incount' = incount
  BY DEF incount
<1>2. Old' = Old
  BY <1>1 DEF Old
<1>3. InputNodes' = InputNodes
  BY <1>1 DEF InputNodes
<1>4. ASSUME NEW q PROVE Formed(q)' <=> Formed(q)
  <2>1. InnerNodes(q)' = InnerNodes(q)
    BY <1>3 DEF InnerNodes, Within
  <2>2. FullyLocal(q)' <=> FullyLocal(q)
    BY <1>1 DEF FullyLocal, Within
  <2>. QED BY <2>1, <2>2 DEF Formed
<1>. QED BY <1>1, <1>2, <1>4

\* The same leaves are still on the way.
LEMMA LeavesKnownStay ==
  ASSUME call' = call, NEW s, LeavesKnown(s), Leaves' = s
  PROVE  LeavesKnown(Leaves)'
<1>1. incount' = incount /\ Old' = Old /\ \A q : Formed(q)' <=> Formed(q)
  BY KnownStays
<1>2. \A i \in 1 .. Len(s) : s[i] \in Old' \/ Formed(s[i])'
  BY <1>1 DEF LeavesKnown, Known
<1>3. \A k \in 1 .. incount' : \E i \in 1 .. Len(s) : Within(s[i], call'.input[k])
  BY <1>1 DEF LeavesKnown
<1>. QED BY <1>2, <1>3 DEF LeavesKnown, Known, Within

\* At the start every quadrant of the input is a leaf of its own.
LEMMA InitResult ==
  ASSUME CallsAssumption, Init
  PROVE  ResultInv
<1>1. Leaves = call.input /\ quadrants_per_level = CountLevels(Leaves) /\ pc = "window"
  BY InitIInv DEF Init, Leaves
<1>2. LeavesKnown(call.input)
  <2>1. \A i \in 1 .. Len(call.input) : call.input[i] \in Old
    BY DEF Old, incount
  <2>. QED BY <2>1 DEF LeavesKnown, Known, Within, incount
<1>. QED BY <1>1, <1>2 DEF ResultInv

\* A merge keeps the leaves on the way to the result, and counted.
LEMMA CoarsenResult ==
  ASSUME CallsAssumption, IInv, Swept, ResultInv, Coarsen
  PROVE  ResultInv'
<1>. DEFINE s == Closed
            t == Closed'
            w == window
<1>1. /\ MergedAt(s, t, w) /\ NumbersAt(s, w) /\ Parent(s[w + 1]) \in call.coarsen_fn
  BY CoarsenMerges
<1>2. /\ pc = "window" /\ pc' = pc /\ call' = call /\ WindowFits /\ call \in Calls
      /\ Leaves = s /\ Leaves' = t
  BY DEF Coarsen, Leaves, IInv
<1>3. Gapless(s) /\ Positions
  BY <1>2 DEF IInv
<1>4. s \in Seq(Quadrants) /\ w \in Nat /\ CHILDREN \in Nat /\ CHILDREN > 1
  BY <1>2, <1>3, MembersClosed, ChildrenAssumption DEF Positions, PositionsOf
<1>5. Member(0) = s[w + 1]
  <2>1. 0 \in 0 .. CHILDREN - 1 /\ w + 0 + 1 = w + 1
    BY <1>4
  <2>2. \A zz \in 0 .. CHILDREN - 1 : Member(zz) = s[w + zz + 1]
    BY <1>2, <1>3, MembersClosed
  <2>. QED BY <2>1, <2>2
<1>6. call.coarsen_recursive \/ \A z \in 0 .. CHILDREN - 1 : s[w + z + 1] \in Old
  <2>1. ASSUME ~ call.coarsen_recursive, NEW z \in 0 .. CHILDREN - 1
        PROVE  s[w + z + 1] \in Old
    <3>1. \A i \in w + 1 .. Len(s) : s[i] \in Old
      BY <1>2, <2>1 DEF Swept
    <3>. HIDE DEF s, w
    <3>2. w + z + 1 \in w + 1 .. Len(s)
      BY <1>1, <1>4 DEF NumbersAt
    <3>. QED BY <3>1, <3>2
  <2>. QED BY <2>1
<1>7. LeavesKnown(s) /\ quadrants_per_level = CountLevels(s)
  BY <1>2 DEF ResultInv
<1>8. quadrants_per_level' = LevelsAfter(s[w + 1])
  BY <1>5 DEF Coarsen
<1>. HIDE DEF s, t, w
<1>9. LeavesKnown(t)
  BY <1>1, <1>2, <1>3, <1>4, <1>6, <1>7, MergeKnown
<1>10. LeavesKnown(Leaves)'
  BY <1>2, <1>9, LeavesKnownStay
<1>11. quadrants_per_level' = CountLevels(t)
  <2>. DEFINE c == Level(s[w + 1])
  <2>1. /\ c \in 1 .. QMAXLEVEL
        /\ \A l : CountOf(t, l) + (IF l = c THEN CHILDREN ELSE 0)
                    = CountOf(s, l) + (IF l = c - 1 THEN 1 ELSE 0)
    BY <1>1, <1>3, <1>4, MergeCounts
  <2>2. quadrants_per_level' = [quadrants_per_level EXCEPT ![c] = @ - CHILDREN, ![c - 1] = @ + 1]
    BY <1>8 DEF LevelsAfter
  <2>3. quadrants_per_level = [l \in 0 .. QMAXLEVEL |-> CountOf(s, l)]
    BY <1>7 DEF CountLevels, CountOf, OnLevel
  <2>4. t \in Seq(Quadrants)
    BY <1>1 DEF MergedAt
  <2>. HIDE DEF c
  <2>5. \A l : CountOf(s, l) \in Nat /\ CountOf(t, l) \in Nat
    BY <1>4, <2>4, OnLevelFinite
  <2>6. c # c - 1 /\ c \in 0 .. QMAXLEVEL /\ c - 1 \in 0 .. QMAXLEVEL
    BY <2>1, LevelAssumption
  <2>7. ASSUME NEW l \in 0 .. QMAXLEVEL PROVE quadrants_per_level'[l] = CountOf(t, l)
    <3>1. CASE l = c
      <4>1. quadrants_per_level'[l] = CountOf(s, l) - CHILDREN
        BY <3>1, <2>2, <2>3, <2>6
      <4>2. CountOf(t, l) + CHILDREN = CountOf(s, l) + 0
        BY <3>1, <2>1, <2>6
      <4>. QED BY <4>1, <4>2, <2>5, <1>4
    <3>2. CASE l = c - 1
      <4>1. quadrants_per_level'[l] = CountOf(s, l) + 1
        BY <3>2, <2>2, <2>3, <2>6
      <4>2. CountOf(t, l) + 0 = CountOf(s, l) + 1
        BY <3>2, <2>1, <2>6
      <4>. QED BY <4>1, <4>2, <2>5, <1>4
    <3>3. CASE l # c /\ l # c - 1
      <4>1. quadrants_per_level'[l] = CountOf(s, l)
        BY <3>3, <2>2, <2>3
      <4>2. CountOf(t, l) + 0 = CountOf(s, l) + 0
        BY <3>3, <2>1
      <4>. QED BY <4>1, <4>2, <2>5, <1>4
    <3>. QED BY <3>1, <3>2, <3>3
  <2>8. quadrants_per_level' = [l \in 0 .. QMAXLEVEL |-> CountOf(t, l)]
    BY <2>2, <2>3, <2>7
  <2>. QED BY <2>8 DEF CountLevels, CountOf, OnLevel
<1>. QED BY <1>2, <1>10, <1>11 DEF ResultInv, CountLevels

\* The last step closes the hole and finds the deepest level.
LEMMA FinishResult ==
  ASSUME CallsAssumption, IInv, ResultInv, Finish
  PROVE  ResultInv'
<1>. DEFINE s == Closed
<1>1. /\ pc = "window" /\ pc' = "done" /\ call' = call /\ quadrants' = s
      /\ quadrants_per_level' = quadrants_per_level /\ maxlevel' = DeepestCounted
      /\ Leaves = s /\ Leaves' = s /\ call \in Calls
  BY FinishKeeps DEF Finish, IInv, Leaves
<1>2. s \in Seq(Quadrants)
  BY <1>1, ClosedType DEF IInv
<1>3. LeavesKnown(s) /\ quadrants_per_level = CountLevels(s)
  BY <1>1 DEF ResultInv
<1>. HIDE DEF s
<1>4. s # << >>
  <2>1. 1 \in 1 .. incount
    <3>. DEFINE input == call.input
    <3>1. input \in Seq(Quadrants) /\ input # << >> /\ incount = Len(input)
      BY <1>1, CallInput
    <3>. HIDE DEF input
    <3>. QED BY <3>1
  <2>. QED BY <1>3, <2>1 DEF LeavesKnown
<1>5. DeepestCounted = HighestLevel(s)
  <2>. DEFINE used == { l \in 0 .. QMAXLEVEL : quadrants_per_level[l] > 0 }
  <2>1. used = Levels(s) /\ used # {}
    BY <1>2, <1>3, <1>4, UsedLevels
  <2>2. DeepestCounted = IF used = {} THEN 0 ELSE CHOOSE l \in used : \A m \in used : m <= l
    BY DEF DeepestCounted
  <2>. HIDE DEF used
  <2>. QED BY <2>1, <2>2 DEF HighestLevel
<1>6. LeavesKnown(Leaves)'
  BY <1>1, <1>3, LeavesKnownStay
<1>. QED BY <1>1, <1>3, <1>5, <1>6 DEF ResultInv, CountLevels, HighestLevel, Levels

\* Every step keeps the leaves on the way to the result, and counted.
LEMMA NextResult ==
  ASSUME CallsAssumption, IInv, Swept, ResultInv, [Next]_vars
  PROVE  ResultInv'
<1>1. CASE Orphan \/ Decline
  <2>1. Closed' = Closed /\ pc' = pc /\ call' = call
    BY <1>1, MovesOn
  <2>2. pc = "window" /\ quadrants_per_level' = quadrants_per_level
    BY <1>1 DEF Orphan, Decline
  <2>3. Leaves' = Leaves
    BY <2>1, <2>2 DEF Leaves
  <2>4. LeavesKnown(Leaves)'
    BY <2>1, <2>3, LeavesKnownStay DEF ResultInv
  <2>. QED BY <2>1, <2>2, <2>3, <2>4 DEF ResultInv, CountLevels
<1>2. CASE Coarsen
  BY <1>2, CoarsenResult
<1>3. CASE Finish
  BY <1>3, FinishResult
<1>4. CASE UNCHANGED vars
  <2>1. /\ Leaves' = Leaves /\ pc' = pc /\ call' = call /\ quadrants' = quadrants
        /\ quadrants_per_level' = quadrants_per_level /\ maxlevel' = maxlevel
    BY <1>4 DEF vars, Leaves, Closed, incount
  <2>2. LeavesKnown(Leaves)'
    BY <2>1, LeavesKnownStay DEF ResultInv
  <2>. QED BY <2>1, <2>2 DEF ResultInv, CountLevels, HighestLevel, Levels
<1>. QED BY <1>1, <1>2, <1>3, <1>4 DEF Next

\* At the end the leaves are the result.
LEMMA ResultAtEnd ==
  ASSUME CallsAssumption, IInv, Swept, ResultInv, Leaves \in Seq(Quadrants), Gapless(Leaves)
  PROVE  ResultCorrect
<1>. SUFFICES ASSUME pc = "done"
              PROVE  /\ quadrants = InMortonOrder(ResultLeaves)
                     /\ quadrants_per_level = CountLevels(quadrants)
                     /\ maxlevel = HighestLevel(quadrants)
  BY DEF ResultCorrect
<1>. DEFINE s == quadrants
<1>1. Leaves = s /\ s \in Seq(Quadrants) /\ Gapless(s) /\ LeavesKnown(s) /\ call \in Calls
  BY DEF Leaves, ResultInv, IInv
<1>2. \A w \in Nat : Settled(s, w)
  BY DEF Swept
<1>3. { s[i] : i \in 1 .. Len(s) } = ResultLeaves
  BY <1>1, <1>2, SettledLeaves
<1>4. s = InMortonOrder({ s[i] : i \in 1 .. Len(s) })
  BY <1>1, GaplessParted, PartedIsMortonOrder
<1>. QED BY <1>1, <1>3, <1>4 DEF ResultInv

\* Whatever the tree, the callback and the mode: when p4est_coarsen_ext is done
\* with a tree, the array holds exactly the input with every accepted family
\* merged, on all levels if the call is recursive, in Morton order, and the level
\* counts and the highest level are those of the array.
THEOREM ResultRight ==
  ASSUME CallsAssumption
  PROVE  Spec => []ResultCorrect
<1>1. Init => Swept
  BY InitSwept
<1>2. Init => ResultInv
  BY InitResult
<1>3. IInv /\ Swept /\ [Next]_vars => Swept'
  BY NextSwept
<1>4. IInv /\ Swept /\ ResultInv /\ [Next]_vars => ResultInv'
  BY NextResult
<1>5. IInv /\ Swept /\ ResultInv /\ Leaves \in Seq(Quadrants) /\ Gapless(Leaves) => ResultCorrect
  BY ResultAtEnd
<1>. QED BY <1>1, <1>2, <1>3, <1>4, <1>5, Invariance, LeavesGapless, PTL DEF Spec

(***************************************************************************)
(* Wrap: sequences, whatever they are of.                                  *)
(***************************************************************************)
IsSeq(s) == Len(s) \in Nat /\ s = [i \in 1 .. Len(s) |-> s[i]]

(* Sequences in the usual sense. *)
LEMMA SeqIs ==
  ASSUME NEW S, NEW s \in Seq(S)
  PROVE  IsSeq(s)
BY DEF IsSeq

(* The elements of a sequence are a set. *)
LEMMA SeqOf ==
  ASSUME NEW s, IsSeq(s)
  PROVE  s \in Seq({ s[i] : i \in 1 .. Len(s) }) /\ DOMAIN s = 1 .. Len(s)
<1> DEFINE S == { s[i] : i \in 1 .. Len(s) }
<1>1. s \in [1 .. Len(s) -> S] /\ Len(s) \in Nat
  BY DEF IsSeq
<1> QED
  BY <1>1

(* A table over an initial part of the numbers. *)
LEMMA TableIs ==
  ASSUME NEW n \in Nat, NEW s, DOMAIN s = 1 .. n, s = [i \in 1 .. n |-> s[i]]
  PROVE  IsSeq(s) /\ Len(s) = n
<1> DEFINE S == { s[i] : i \in 1 .. n }
<1>1. s \in [1 .. n -> S]
  OBVIOUS
<1>2. s \in Seq(S)
  BY <1>1
<1>3. Len(s) = n
  BY <1>2
<1> QED
  BY <1>2, <1>3, SeqIs

(* One sequence behind another. *)
LEMMA JoinIs ==
  ASSUME NEW s, NEW t, IsSeq(s), IsSeq(t)
  PROVE  /\ IsSeq(s \o t) /\ Len(s \o t) = Len(s) + Len(t)
         /\ \A i \in 1 .. Len(s) : (s \o t)[i] = s[i]
         /\ \A i \in 1 .. Len(t) : (s \o t)[Len(s) + i] = t[i]
<1> DEFINE S == { s[i] : i \in 1 .. Len(s) }
           T == { t[i] : i \in 1 .. Len(t) }
           U == S \union T
<1>1. s \in Seq(S) /\ t \in Seq(T)
  BY SeqOf
<1>2. s \in Seq(U) /\ t \in Seq(U)
  <2>1. S \subseteq U /\ T \subseteq U
    OBVIOUS
  <2> HIDE DEF S, T, U
  <2> QED
    BY <1>1, <2>1
<1> HIDE DEF U
<1>3. s \o t \in Seq(U)
  BY <1>2
<1>4. IsSeq(s \o t)
  BY <1>3, SeqIs
<1> QED
  BY <1>2, <1>4

(* An element behind a sequence. *)
LEMMA AppendIs ==
  ASSUME NEW s, NEW x, IsSeq(s)
  PROVE  /\ IsSeq(Append(s, x)) /\ Len(Append(s, x)) = Len(s) + 1
         /\ \A i \in 1 .. Len(s) : Append(s, x)[i] = s[i]
         /\ Append(s, x)[Len(s) + 1] = x
<1> DEFINE S == { s[i] : i \in 1 .. Len(s) }
           U == S \union {x}
<1>1. s \in Seq(S)
  BY SeqOf
<1>2. s \in Seq(U) /\ x \in U
  <2>1. S \subseteq U /\ x \in U
    OBVIOUS
  <2> HIDE DEF S, U
  <2> QED
    BY <1>1, <2>1
<1> HIDE DEF U
<1>3. Append(s, x) \in Seq(U)
  BY <1>2
<1>4. IsSeq(Append(s, x))
  BY <1>3, SeqIs
<1> QED
  BY <1>2, <1>4

(* What a part of a sequence is. *)
LEMMA PartOf ==
  ASSUME NEW s, NEW m \in Int, NEW n \in Int
  PROVE  SubSeq(s, m, n) = [i \in 1 .. (1 + n - m) |-> s[i + m - 1]]
OBVIOUS

(* A part of a sequence is one. *)
LEMMA PartIs ==
  ASSUME NEW s, NEW m \in Int, NEW n \in Int
  PROVE  IsSeq(SubSeq(s, m, n))
<1>1. SubSeq(s, m, n) = [i \in 1 .. (1 + n - m) |-> s[i + m - 1]]
  OBVIOUS
<1>2. CASE n >= m
  <2>1. 1 + n - m \in Nat
    BY <1>2
  <2> QED
    BY <1>1, <2>1, TableIs
<1>3. CASE n < m
  <2>1. 1 .. (1 + n - m) = 1 .. 0
    BY <1>3
  <2> QED
    BY <1>1, <2>1, TableIs
<1> QED
  BY <1>2, <1>3

(* Nothing, or one element. *)
LEMMA SmallIs ==
  /\ IsSeq(<< >>) /\ Len(<< >>) = 0
  /\ \A x : IsSeq(<< x >>) /\ Len(<< x >>) = 1 /\ << x >>[1] = x
<1>1. << >> \in Seq({})
  OBVIOUS
<1>2. ASSUME NEW x PROVE << x >> \in Seq({x})
  OBVIOUS
<1> QED
  BY <1>1, <1>2, SeqIs

(* One element behind a sequence. *)
LEMMA OneMore ==
  ASSUME NEW s, NEW x, IsSeq(s)
  PROVE  /\ IsSeq(s \o << x >>) /\ Len(s \o << x >>) = Len(s) + 1
         /\ (s \o << x >>)[Len(s) + 1] = x
         /\ \A i \in 1 .. Len(s) : (s \o << x >>)[i] = s[i]
<1>1. s \o << x >> = Append(s, x)
  <2> DEFINE S == { s[i] : i \in 1 .. Len(s) }
             U == S \union {x}
  <2>1. s \in Seq(S)
    BY SeqOf
  <2>2. s \in Seq(U) /\ x \in U
    <3>1. S \subseteq U /\ x \in U
      OBVIOUS
    <3> HIDE DEF S, U
    <3> QED
      BY <2>1, <3>1
  <2> HIDE DEF U
  <2> QED
    BY <2>2
<1> DEFINE a == Append(s, x)
<1>2. /\ IsSeq(a) /\ Len(a) = Len(s) + 1
      /\ \A i \in 1 .. Len(s) : a[i] = s[i]
      /\ a[Len(s) + 1] = x
  BY AppendIs
<1>3. s \o << x >> = a
  BY <1>1
<1> HIDE DEF a
<1> DEFINE b == s \o << x >>
<1>4. b = a
  BY <1>3
<1> HIDE DEF b
<1>5. /\ IsSeq(b) /\ Len(b) = Len(s) + 1
      /\ \A i \in 1 .. Len(s) : b[i] = s[i]
      /\ b[Len(s) + 1] = x
  BY <1>2, <1>4
<1> QED
  BY <1>5 DEF b

(***************************************************************************)
(* Sequences of sequences, joined.                                         *)
(***************************************************************************)
\* e has the first i of them joined
Chains(e, seqs, n) == \A i \in 1 .. n : e[i] = IF i = 1 THEN seqs[i] ELSE e[i - 1] \o seqs[i]

(* There is such a table. *)
LEMMA ChainsExist ==
  ASSUME NEW seqs, NEW n \in Nat
  PROVE  \E e : Chains(e, seqs, n)
<1> DEFINE T == { m \in Nat : \E e : Chains(e, seqs, m) }
<1>1. 0 \in T
  <2>1. Chains(<< >>, seqs, 0)
    BY DEF Chains
  <2> QED
    BY <2>1
<1>2. ASSUME NEW m \in Nat, m \in T PROVE m + 1 \in T
  <2>1. PICK e : Chains(e, seqs, m)
    BY <1>2
  <2> DEFINE h == [i \in 1 .. m + 1 |->
                    IF i = m + 1 THEN (IF m = 0 THEN seqs[1] ELSE e[m] \o seqs[m + 1]) ELSE e[i]]
  <2>2. h[m + 1] = (IF m = 0 THEN seqs[1] ELSE e[m] \o seqs[m + 1]) /\ \A i \in 1 .. m : h[i] = e[i]
    <3>1. m + 1 \in 1 .. m + 1 /\ \A i \in 1 .. m : i \in 1 .. m + 1 /\ i # m + 1
      OBVIOUS
    <3> QED
      BY <3>1
  <2> HIDE DEF h
  <2>3. ASSUME NEW i \in 1 .. m + 1
        PROVE  h[i] = IF i = 1 THEN seqs[i] ELSE h[i - 1] \o seqs[i]
    <3>1. CASE i = m + 1
      <4>1. i - 1 = m /\ (i = 1 <=> m = 0) /\ (m # 0 => m \in 1 .. m)
        BY <3>1
      <4> QED
        BY <2>2, <3>1, <4>1
    <3>2. CASE i # m + 1
      <4>1. i \in 1 .. m /\ (i # 1 => i - 1 \in 1 .. m)
        BY <3>2
      <4> QED
        BY <2>1, <2>2, <4>1 DEF Chains
    <3> QED
      BY <3>1, <3>2
  <2>4. Chains(h, seqs, m + 1)
    BY <2>3 DEF Chains
  <2> QED
    BY <2>4
<1> HIDE DEF T
<1>3. \A m \in Nat : m \in T
  BY <1>1, <1>2, NatSetInduction, Zenon
<1>4. n \in T
  BY <1>3
<1> QED
  BY <1>4 DEF T

(* Two such tables are the same as far as both go. *)
LEMMA ChainsAgree ==
  ASSUME NEW e, NEW f, NEW seqs, NEW n \in Nat, Chains(e, seqs, n), Chains(f, seqs, n)
  PROVE  \A i \in 1 .. n : e[i] = f[i]
<1> DEFINE T == { m \in Nat : m + 1 \in 1 .. n => e[m + 1] = f[m + 1] }
<1>1. 0 \in T
  <2> SUFFICES ASSUME 0 + 1 \in 1 .. n PROVE e[0 + 1] = f[0 + 1]
    OBVIOUS
  <2>1. 1 \in 1 .. n /\ 0 + 1 = 1
    OBVIOUS
  <2> QED
    BY <2>1 DEF Chains
<1>2. ASSUME NEW m \in Nat, m \in T PROVE m + 1 \in T
  <2> SUFFICES ASSUME (m + 1) + 1 \in 1 .. n PROVE e[(m + 1) + 1] = f[(m + 1) + 1]
    OBVIOUS
  <2>1. m + 1 \in 1 .. n /\ (m + 1) + 1 # 1 /\ ((m + 1) + 1) - 1 = m + 1
    OBVIOUS
  <2>2. e[m + 1] = f[m + 1]
    BY <1>2, <2>1
  <2> QED
    BY <2>1, <2>2 DEF Chains
<1> HIDE DEF T
<1>3. \A m \in Nat : m \in T
  BY <1>1, <1>2, NatSetInduction, Zenon
<1> SUFFICES ASSUME NEW i \in 1 .. n PROVE e[i] = f[i]
  OBVIOUS
<1>4. i - 1 \in Nat /\ (i - 1) + 1 = i
  OBVIOUS
<1>5. i - 1 \in T
  BY <1>3, <1>4
<1> QED
  BY <1>4, <1>5 DEF T

\* the table that FlattenSeq builds
IsFlat(seqs, e) == e = [i \in 1 .. Len(seqs) |-> IF i = 1 THEN seqs[i] ELSE e[i - 1] \o seqs[i]]

(* What is joined is the last of any such table. *)
LEMMA FlatIs ==
  ASSUME NEW seqs, NEW n \in Nat \ {0}, Len(seqs) = n, NEW e, Chains(e, seqs, n)
  PROVE  Wr!FlattenSeq(seqs) = e[n]
<1> DEFINE h == [i \in 1 .. n |-> e[i]]
           f == CHOOSE g : IsFlat(seqs, g)
<1>1. ASSUME NEW i \in 1 .. n PROVE h[i] = IF i = 1 THEN seqs[i] ELSE h[i - 1] \o seqs[i]
  <2>1. i # 1 => i - 1 \in 1 .. n
    OBVIOUS
  <2> QED
    BY <2>1 DEF Chains
<1>2. h = [i \in 1 .. Len(seqs) |-> IF i = 1 THEN seqs[i] ELSE h[i - 1] \o seqs[i]]
  BY <1>1
<1> HIDE DEF h
<1>3. IsFlat(seqs, h)
  BY <1>2 DEF IsFlat
<1>4. IsFlat(seqs, f)
  BY <1>3
<1>5. Wr!FlattenSeq(seqs) = f[n]
  <2>1. Len(seqs) # 0
    OBVIOUS
  <2> QED
    BY <2>1 DEF Wr!FlattenSeq, IsFlat
<1> HIDE DEF f
<1>6. Chains(f, seqs, n)
  BY <1>4 DEF IsFlat, Chains
<1>7. n \in 1 .. n
  OBVIOUS
<1> QED
  BY <1>5, <1>6, <1>7, ChainsAgree

(* Joined sequences are a sequence. *)
LEMMA FlatIsSeq ==
  ASSUME NEW seqs, IsSeq(seqs), \A i \in 1 .. Len(seqs) : IsSeq(seqs[i])
  PROVE  IsSeq(Wr!FlattenSeq(seqs))
<1> DEFINE n == Len(seqs)
<1>1. n \in Nat
  BY DEF IsSeq
<1>2. CASE n = 0
  <2>1. Wr!FlattenSeq(seqs) = seqs
    BY <1>2 DEF Wr!FlattenSeq
  <2> QED
    BY <2>1
<1>3. CASE n # 0
  <2>1. PICK e : Chains(e, seqs, n)
    BY <1>1, ChainsExist
  <2> DEFINE T == { m \in Nat : m + 1 \in 1 .. n => IsSeq(e[m + 1]) }
  <2>2. 0 \in T
    <3>1. 0 + 1 = 1 /\ 1 \in 1 .. n
      BY <1>1, <1>3
    <3> QED
      BY <2>1, <3>1 DEF Chains
  <2>3. ASSUME NEW m \in Nat, m \in T PROVE m + 1 \in T
    <3> SUFFICES ASSUME (m + 1) + 1 \in 1 .. n PROVE IsSeq(e[(m + 1) + 1])
      OBVIOUS
    <3>1. m + 1 \in 1 .. n /\ (m + 1) + 1 # 1 /\ ((m + 1) + 1) - 1 = m + 1
      BY <1>1
    <3>2. IsSeq(e[m + 1]) /\ IsSeq(seqs[(m + 1) + 1])
      BY <2>3, <3>1
    <3>3. e[(m + 1) + 1] = e[m + 1] \o seqs[(m + 1) + 1]
      BY <2>1, <3>1 DEF Chains
    <3> QED
      BY <3>2, <3>3, JoinIs
  <2> HIDE DEF T
  <2>4. \A m \in Nat : m \in T
    BY <2>2, <2>3, NatSetInduction, Zenon
  <2>5. n - 1 \in Nat /\ (n - 1) + 1 = n /\ n \in 1 .. n
    BY <1>1, <1>3
  <2>6. n - 1 \in T
    BY <2>4, <2>5
  <2>7. IsSeq(e[n])
    BY <2>5, <2>6 DEF T
  <2>8. Wr!FlattenSeq(seqs) = e[n]
    BY <1>1, <1>3, <2>1, FlatIs
  <2> QED
    BY <2>7, <2>8
<1> QED
  BY <1>2, <1>3

(***************************************************************************)
(* The forest: per process a sequence.                                     *)
(***************************************************************************)
IsForest(f) == f = [p \in Wr!Procs |-> f[p]] /\ \A p \in Wr!Procs : IsSeq(f[p])
\* the quadrants in front of process p
Front(f, p) == Wr!FlattenSeq([i \in 1 .. p |-> f[i - 1]])
Total(f)    == Front(f, NumProcs)

(* The quadrants in front of the next process are those in front of this one and its *)
(* own. *)
LEMMA FrontSteps ==
  ASSUME NumProcs \in Nat \ {0}, NEW f, IsForest(f)
  PROVE  /\ Front(f, 0) = << >>
         /\ \A p \in Wr!Procs : Front(f, p + 1) = Front(f, p) \o f[p]
         /\ \A p \in 0 .. NumProcs : IsSeq(Front(f, p))
<1> DEFINE seqs(p) == [i \in 1 .. p |-> f[i - 1]]
<1>1. \A p \in Nat : IsSeq(seqs(p)) /\ Len(seqs(p)) = p
  <2> SUFFICES ASSUME NEW p \in Nat PROVE IsSeq(seqs(p)) /\ Len(seqs(p)) = p
    OBVIOUS
  <2> QED
    BY TableIs
<1>2. \A p \in 0 .. NumProcs : \A i \in 1 .. p : seqs(p)[i] = f[i - 1] /\ IsSeq(f[i - 1])
  <2>1. \A p \in 0 .. NumProcs : \A i \in 1 .. p : i - 1 \in Wr!Procs
    BY DEF Wr!Procs
  <2> QED
    BY <2>1 DEF IsForest
<1>3. PICK e : Chains(e, seqs(NumProcs), NumProcs)
  BY ChainsExist
<1>4. ASSUME NEW p \in 1 .. NumProcs PROVE Front(f, p) = e[p]
  <2>1. Chains(e, seqs(p), p)
    <3>1. \A i \in 1 .. p : i \in 1 .. NumProcs /\ seqs(p)[i] = seqs(NumProcs)[i]
      OBVIOUS
    <3> HIDE DEF seqs
    <3> QED
      BY <1>3, <3>1 DEF Chains
  <2>2. p \in Nat \ {0}
    OBVIOUS
  <2> HIDE DEF seqs
  <2>3. Wr!FlattenSeq(seqs(p)) = e[p]
    BY <1>1, <2>1, <2>2, FlatIs
  <2> QED
    BY <2>3 DEF Front, seqs
<1>5. Front(f, 0) = << >>
  <2>1. seqs(0) = << >>
    <3>1. 1 .. 0 = {}
      OBVIOUS
    <3> QED
      BY <3>1
  <2>2. Len(<< >>) = 0
    OBVIOUS
  <2> QED
    BY <2>1, <2>2 DEF Front, Wr!FlattenSeq
<1>6. ASSUME NEW p \in Wr!Procs PROVE Front(f, p + 1) = Front(f, p) \o f[p]
  <2>1. p \in 0 .. NumProcs - 1 /\ p + 1 \in 1 .. NumProcs /\ (p + 1) - 1 = p
    BY DEF Wr!Procs
  <2>2. seqs(NumProcs)[p + 1] = f[p]
    BY <2>1
  <2> HIDE DEF seqs
  <2>3. Front(f, p + 1) = IF p + 1 = 1 THEN f[p] ELSE e[p] \o f[p]
    BY <1>3, <1>4, <2>1, <2>2 DEF Chains
  <2>4. CASE p = 0
    <3>1. IsSeq(f[p])
      BY DEF IsForest
    <3>2. << >> \o f[p] = f[p]
      <4>1. f[p] \in Seq({ f[p][i] : i \in 1 .. Len(f[p]) })
        BY <3>1, SeqOf
      <4> QED
        BY <4>1
    <3>3. Front(f, p) = << >> /\ p + 1 = 1
      BY <1>5, <2>4
    <3> QED
      BY <2>3, <3>2, <3>3
  <2>5. CASE p # 0
    <3>1. p \in 1 .. NumProcs /\ p + 1 # 1
      BY <2>1, <2>5
    <3> QED
      BY <1>4, <2>3, <3>1
  <2> QED
    BY <2>4, <2>5
<1>7. ASSUME NEW p \in 0 .. NumProcs PROVE IsSeq(Front(f, p))
  <2>1. p \in Nat
    OBVIOUS
  <2>2. \A i \in 1 .. Len(seqs(p)) : IsSeq(seqs(p)[i])
    <3>1. Len(seqs(p)) = p
      BY <1>1, <2>1
    <3>2. \A i \in 1 .. p : seqs(p)[i] = f[i - 1] /\ IsSeq(f[i - 1])
      BY <1>2
    <3> HIDE DEF seqs
    <3> QED
      BY <3>1, <3>2
  <2>3. IsSeq(seqs(p))
    BY <1>1, <2>1
  <2> HIDE DEF seqs
  <2>4. IsSeq(Wr!FlattenSeq(seqs(p)))
    BY <2>2, <2>3, FlatIsSeq
  <2> QED
    BY <2>4 DEF Front, seqs
<1> QED
  BY <1>5, <1>6, <1>7

(* Where the quadrants of a process are among all. *)
LEMMA FrontPlaces ==
  ASSUME NumProcs \in Nat \ {0}, NEW f, IsForest(f), NEW p \in Wr!Procs
  PROVE  /\ Len(Front(f, p)) \in Nat /\ Len(f[p]) \in Nat
         /\ Len(Front(f, p + 1)) = Len(Front(f, p)) + Len(f[p])
         /\ \A i \in 1 .. Len(f[p]) : Total(f)[Len(Front(f, p)) + i] = f[p][i]
<1>1. p \in 0 .. NumProcs - 1 /\ p \in 0 .. NumProcs /\ p + 1 \in 0 .. NumProcs
  BY DEF Wr!Procs
<1>2. IsSeq(Front(f, p)) /\ IsSeq(f[p]) /\ Front(f, p + 1) = Front(f, p) \o f[p]
  BY <1>1, FrontSteps DEF IsForest
<1> DEFINE a == Len(Front(f, p))
<1>3. a \in Nat /\ Len(f[p]) \in Nat /\ Len(Front(f, p + 1)) = a + Len(f[p])
  BY <1>2, JoinIs DEF IsSeq
<1> SUFFICES ASSUME NEW i \in 1 .. Len(f[p]) PROVE Total(f)[a + i] = f[p][i]
  BY <1>3
<1> HIDE DEF a
<1> DEFINE T == { m \in Nat : (p + 1) + m <= NumProcs =>
                    /\ Front(f, (p + 1) + m)[a + i] = f[p][i]
                    /\ a + i <= Len(Front(f, (p + 1) + m)) }
<1>4. 0 \in T
  <2>1. (p + 1) + 0 = p + 1
    BY <1>1
  <2>2. Front(f, p + 1)[a + i] = f[p][i]
    BY <1>2, JoinIs DEF a
  <2>3. a + i <= Len(Front(f, p + 1))
    BY <1>3
  <2> QED
    BY <2>1, <2>2, <2>3
<1>5. ASSUME NEW m \in Nat, m \in T PROVE m + 1 \in T
  <2> DEFINE k == (p + 1) + m
  <2> SUFFICES ASSUME (p + 1) + (m + 1) <= NumProcs
               PROVE  /\ Front(f, (p + 1) + (m + 1))[a + i] = f[p][i]
                      /\ a + i <= Len(Front(f, (p + 1) + (m + 1)))
    OBVIOUS
  <2>1. k \in Wr!Procs /\ k <= NumProcs /\ k \in 0 .. NumProcs /\ (p + 1) + (m + 1) = k + 1
    BY <1>1 DEF Wr!Procs
  <2>2. Front(f, k)[a + i] = f[p][i] /\ a + i <= Len(Front(f, k))
    BY <1>5, <2>1
  <2> HIDE DEF k
  <2>3. IsSeq(Front(f, k)) /\ IsSeq(f[k]) /\ Front(f, k + 1) = Front(f, k) \o f[k]
    BY <2>1, FrontSteps DEF IsForest
  <2>4. a + i \in 1 .. Len(Front(f, k)) /\ Len(f[k]) \in Nat /\ Len(Front(f, k)) \in Nat
    BY <1>3, <2>2, <2>3 DEF IsSeq
  <2>5. Front(f, k + 1)[a + i] = Front(f, k)[a + i] /\ Len(Front(f, k + 1)) = Len(Front(f, k)) + Len(f[k])
    BY <2>3, <2>4, JoinIs
  <2>6. a + i <= Len(Front(f, k + 1))
    BY <2>4, <2>5
  <2> QED
    BY <2>1, <2>2, <2>5, <2>6
<1> HIDE DEF T
<1>6. \A m \in Nat : m \in T
  BY <1>4, <1>5, NatSetInduction, Zenon
<1>7. NumProcs - (p + 1) \in Nat /\ (p + 1) + (NumProcs - (p + 1)) = NumProcs /\ NumProcs <= NumProcs
  BY <1>1
<1>8. NumProcs - (p + 1) \in T
  BY <1>6, <1>7
<1> QED
  BY <1>7, <1>8 DEF T, Total

(* Dealing all quadrants out where the processes begin changes nothing. *)
LEMMA DealtSame ==
  ASSUME NumProcs \in Nat \ {0}, NEW f, IsForest(f)
  PROVE  Wr!Dealt(Wr!InOrder(f), Wr!gfq(f)) = f
<1>1. Wr!InOrder(f) = Total(f)
  BY DEF Wr!InOrder, Total, Front
<1>2. \A p \in 0 .. NumProcs : Wr!gfq(f)[p] = Len(Front(f, p))
  BY DEF Wr!gfq, Front
<1>3. ASSUME NEW p \in Wr!Procs PROVE SubSeq(Total(f), Wr!gfq(f)[p] + 1, Wr!gfq(f)[p + 1]) = f[p]
  <2> DEFINE a == Len(Front(f, p))
             n == Len(f[p])
  <2>1. p \in 0 .. NumProcs /\ p + 1 \in 0 .. NumProcs
    BY DEF Wr!Procs
  <2>2. a \in Nat /\ n \in Nat /\ Wr!gfq(f)[p] = a /\ Wr!gfq(f)[p + 1] = a + n
    BY <1>2, <2>1, FrontPlaces
  <2>3. \A i \in 1 .. n : Total(f)[a + i] = f[p][i]
    BY FrontPlaces
  <2>4. f[p] = [i \in 1 .. n |-> f[p][i]]
    BY DEF IsForest, IsSeq
  <2> HIDE DEF a, n
  <2>5. SubSeq(Total(f), a + 1, a + n) = [i \in 1 .. (1 + (a + n) - (a + 1)) |-> Total(f)[i + (a + 1) - 1]]
    <3>1. a + 1 \in Int /\ a + n \in Int
      BY <2>2
    <3> QED
      BY <3>1, PartOf
  <2>6. 1 + (a + n) - (a + 1) = n /\ \A i \in 1 .. n : i + (a + 1) - 1 = a + i
    BY <2>2
  <2>7. SubSeq(Total(f), a + 1, a + n) = [i \in 1 .. n |-> f[p][i]]
    BY <2>3, <2>5, <2>6
  <2> QED
    BY <2>2, <2>4, <2>7
<1>4. Wr!Dealt(Total(f), Wr!gfq(f)) = [p \in Wr!Procs |-> f[p]]
  BY <1>3 DEF Wr!Dealt
<1> QED
  BY <1>1, <1>4 DEF IsForest

(* If no process has more and all together have as many, each has as many. *)
LEMMA SameTotals ==
  ASSUME NumProcs \in Nat \ {0}, NEW f, NEW g, IsForest(f), IsForest(g),
         \A p \in Wr!Procs : Len(f[p]) <= Len(g[p]), Wr!NumGlobal(f) = Wr!NumGlobal(g)
  PROVE  \A p \in Wr!Procs : Len(f[p]) = Len(g[p])
<1> DEFINE F(p) == Len(Front(f, p))
           G(p) == Len(Front(g, p))
<1>1. F(NumProcs) = G(NumProcs)
  BY DEF Wr!NumGlobal, Wr!InOrder, Front
<1>2. F(0) = 0 /\ G(0) = 0
  BY FrontSteps
<1>3. \A p \in Wr!Procs : /\ F(p) \in Nat /\ G(p) \in Nat /\ Len(f[p]) \in Nat /\ Len(g[p]) \in Nat
                          /\ F(p + 1) = F(p) + Len(f[p]) /\ G(p + 1) = G(p) + Len(g[p])
  BY FrontPlaces
<1> HIDE DEF F, G
\* the difference does not fall
<1> DEFINE T == { m \in Nat : m <= NumProcs => /\ F(m) \in Nat /\ G(m) \in Nat /\ F(m) <= G(m)
                                /\ \A q \in Wr!Procs : q < m => G(q + 1) - F(q + 1) <= G(m) - F(m) }
<1>4. 0 \in T
  <2>1. \A q \in Wr!Procs : ~ (q < 0)
    BY DEF Wr!Procs
  <2> QED
    BY <1>2, <2>1
<1>5. ASSUME NEW m \in Nat, m \in T PROVE m + 1 \in T
  <2> SUFFICES ASSUME m + 1 <= NumProcs
               PROVE  /\ F(m + 1) \in Nat /\ G(m + 1) \in Nat /\ F(m + 1) <= G(m + 1)
                      /\ \A q \in Wr!Procs : q < m + 1 => G(q + 1) - F(q + 1) <= G(m + 1) - F(m + 1)
    OBVIOUS
  <2>1. m \in Wr!Procs /\ m <= NumProcs
    BY DEF Wr!Procs
  <2>2. /\ F(m) <= G(m) /\ \A q \in Wr!Procs : q < m => G(q + 1) - F(q + 1) <= G(m) - F(m)
    BY <1>5, <2>1
  <2>3. /\ F(m) \in Nat /\ G(m) \in Nat /\ Len(f[m]) \in Nat /\ Len(g[m]) \in Nat /\ Len(f[m]) <= Len(g[m])
        /\ F(m + 1) = F(m) + Len(f[m]) /\ G(m + 1) = G(m) + Len(g[m])
    BY <1>3, <2>1
  <2>4. F(m + 1) \in Nat /\ G(m + 1) \in Nat /\ F(m + 1) <= G(m + 1) /\ G(m) - F(m) <= G(m + 1) - F(m + 1)
    BY <2>2, <2>3
  <2>5. ASSUME NEW q \in Wr!Procs, q < m + 1 PROVE G(q + 1) - F(q + 1) <= G(m + 1) - F(m + 1)
    <3>1. CASE q = m
      BY <2>4, <3>1
    <3>2. CASE q # m
      <4>1. q < m
        BY <2>5, <3>2 DEF Wr!Procs
      <4>2. G(q + 1) - F(q + 1) <= G(m) - F(m)
        BY <2>2, <4>1
      <4>3. F(q + 1) \in Int /\ G(q + 1) \in Int
        BY <1>3
      <4> QED
        BY <2>3, <2>4, <4>2, <4>3
    <3> QED
      BY <3>1, <3>2
  <2> QED
    BY <2>4, <2>5
<1> HIDE DEF T
<1>6. \A m \in Nat : m \in T
  BY <1>4, <1>5, NatSetInduction, Zenon
<1> SUFFICES ASSUME NEW p \in Wr!Procs PROVE Len(f[p]) = Len(g[p])
  OBVIOUS
<1>7. NumProcs \in Nat /\ NumProcs <= NumProcs /\ p < NumProcs /\ p \in Nat /\ p <= NumProcs
  BY DEF Wr!Procs
<1>8. F(NumProcs) \in Nat /\ G(NumProcs) \in Nat /\ G(p + 1) - F(p + 1) <= G(NumProcs) - F(NumProcs)
  BY <1>6, <1>7 DEF T
<1>9. F(p) <= G(p)
  BY <1>6, <1>7 DEF T
<1> QED
  BY <1>1, <1>3, <1>8, <1>9

(***************************************************************************)
(* The passes of an adaptation: where nothing is refined or coarsened, the *)
(* number of quadrants stays, and only there.                              *)
(***************************************************************************)
Branching == CHILDREN \in Nat /\ CHILDREN > 1

(* New quadrants, each with its age. *)
LEMMA FreshIs ==
  ASSUME NEW s, IsSeq(s), NEW age
  PROVE  /\ IsSeq(Wr!Fresh(s, age)) /\ Len(Wr!Fresh(s, age)) = Len(s)
         /\ Wr!Quads(Wr!Fresh(s, age)) = s
<1> DEFINE f == [k \in 1 .. Len(s) |-> [ quad |-> s[k], user_int |-> age ]]
<1>1. DOMAIN s = 1 .. Len(s) /\ Len(s) \in Nat
  BY SeqOf DEF IsSeq
<1>2. Wr!Fresh(s, age) = f
  BY <1>1 DEF Wr!Fresh
<1>3. IsSeq(f) /\ Len(f) = Len(s) /\ DOMAIN f = 1 .. Len(s)
  BY <1>1, TableIs
<1>4. \A k \in 1 .. Len(s) : f[k].quad = s[k]
  OBVIOUS
<1> HIDE DEF f
<1>5. Wr!Quads(f) = [k \in 1 .. Len(s) |-> s[k]]
  BY <1>3, <1>4 DEF Wr!Quads
<1> QED
  BY <1>2, <1>3, <1>5 DEF IsSeq

(* The children of a quadrant. *)
LEMMA ChildrenAre ==
  ASSUME Branching, NEW q
  PROVE  IsSeq(Wr!Children(q)) /\ Len(Wr!Children(q)) = CHILDREN
<1> DEFINE f == [k \in 1 .. CHILDREN |-> Append(q, k - 1)]
<1>1. IsSeq(f) /\ Len(f) = CHILDREN
  BY TableIs DEF Branching
<1> QED
  BY <1>1 DEF Wr!Children

\* what a pass of p4est_refine_ext carries along
IsPass(a) == a = [ proc |-> a.proc, counter |-> a.counter, replaced |-> a.replaced, temp |-> a.temp, out |-> a.out ]
RefineStart(p) ==
  [ proc |-> p, counter |-> 0, replaced |-> 0, out |-> << >>,
    temp |-> [k \in 1 .. Len(forest[p]) + (CHILDREN - 1) * num_refine_flags[p] |-> {}] ]

(* A quadrant is kept or replaced by its children. *)
LEMMA RefineStepIs ==
  ASSUME Branching, NEW a, NEW e, IsPass(a), IsSeq(a.out), a.replaced \in Nat
  PROVE  /\ IsPass(Wr!RefineStep(a, e)) /\ IsSeq(Wr!RefineStep(a, e).out)
         /\ \/ /\ Wr!RefineStep(a, e).replaced = a.replaced
               /\ \E x : x.quad = e.quad /\ Wr!RefineStep(a, e).out = a.out \o << x >>
            \/ /\ Wr!RefineStep(a, e).replaced = a.replaced + 1
               /\ Len(Wr!RefineStep(a, e).out) = Len(a.out) + CHILDREN
<1> DEFINE b == Wr!RefineStep(a, e)
           refines == "refine" \in flags[a.proc][a.counter + 1] /\ Wr!Level(e.quad) < QMAXLEVEL
           older   == params.coarsen_delay > 0 /\ e.user_int >= 0
           x == [ quad |-> e.quad, user_int |-> IF older THEN Wr!Older(e.user_int) ELSE e.user_int ]
<1>1. /\ IsPass(b)
      /\ b.replaced = IF refines THEN a.replaced + 1 ELSE a.replaced
      /\ b.out = a.out \o (IF refines THEN Wr!Fresh(Wr!Children(e.quad), 0) ELSE << x >>)
  <2> DEFINE flag  == flags[a.proc][a.counter + 1]
             at    == a.counter + (CHILDREN - 1) * a.replaced
             reach == IF refines THEN CHILDREN - 1 ELSE 0
             temp  == SubSeq(a.temp, 1, at) \o [k \in 1 .. reach + 1 |-> flag \ {"refine"}]
                        \o SubSeq(a.temp, at + reach + 2, Len(a.temp))
             out   == a.out \o (IF refines THEN Wr!Fresh(Wr!Children(e.quad), 0) ELSE << x >>)
  <2>1. b = [ a EXCEPT !.counter = a.counter + 1, !.replaced = IF refines THEN a.replaced + 1 ELSE a.replaced,
                       !.temp = temp, !.out = out ]
    BY Zenon DEF Wr!RefineStep
  <2> HIDE DEF b, refines, temp, out
  <2>2. /\ IsPass(b) /\ b.replaced = (IF refines THEN a.replaced + 1 ELSE a.replaced) /\ b.out = out
    BY <2>1 DEF IsPass
  <2> QED
    BY <2>2 DEF out
<1> HIDE DEF b, refines
<1>2. CASE refines
  <2> DEFINE t == Wr!Fresh(Wr!Children(e.quad), 0)
  <2>1. IsSeq(t) /\ Len(t) = CHILDREN
    BY ChildrenAre, FreshIs
  <2>2. b.out = a.out \o t /\ b.replaced = a.replaced + 1
    BY <1>1, <1>2
  <2> HIDE DEF t, x
  <2>3. IsSeq(b.out) /\ Len(b.out) = Len(a.out) + CHILDREN
    BY <2>1, <2>2, JoinIs
  <2> QED
    BY <1>1, <2>2, <2>3 DEF b
<1>3. CASE ~ refines
  <2>1. x.quad = e.quad
    OBVIOUS
  <2> HIDE DEF x
  <2>2. b.out = a.out \o << x >> /\ b.replaced = a.replaced
    BY <1>1, <1>3
  <2>3. IsSeq(b.out)
    BY <2>2, SmallIs, JoinIs
  <2> QED
    BY <1>1, <2>1, <2>2, <2>3 DEF b
<1> QED
  BY <1>2, <1>3

\* h has the pass after every quadrant of s
Refines(h, begun, s, n) == \A i \in 0 .. n : h[i] = IF i = 0 THEN begun ELSE Wr!RefineStep(h[i - 1], s[i])

(* There is such a table. *)
LEMMA RefinesExist ==
  ASSUME NEW begun, NEW s, NEW n \in Nat
  PROVE  \E h : Refines(h, begun, s, n)
<1> DEFINE T == { m \in Nat : \E h : Refines(h, begun, s, m) }
<1>1. 0 \in T
  <2> DEFINE h == [i \in 0 .. 0 |-> begun]
  <2>1. \A i \in 0 .. 0 : i = 0 /\ h[i] = begun
    OBVIOUS
  <2> HIDE DEF h
  <2>2. Refines(h, begun, s, 0)
    BY <2>1 DEF Refines
  <2> QED
    BY <2>2
<1>2. ASSUME NEW m \in Nat, m \in T PROVE m + 1 \in T
  <2>1. PICK g : Refines(g, begun, s, m)
    BY <1>2
  <2> DEFINE h == [i \in 0 .. m + 1 |-> IF i = m + 1 THEN Wr!RefineStep(g[m], s[m + 1]) ELSE g[i]]
  <2>2. h[m + 1] = Wr!RefineStep(g[m], s[m + 1]) /\ \A i \in 0 .. m : h[i] = g[i]
    <3>1. m + 1 \in 0 .. m + 1 /\ \A i \in 0 .. m : i \in 0 .. m + 1 /\ i # m + 1
      OBVIOUS
    <3> QED
      BY <3>1
  <2> HIDE DEF h
  <2>3. ASSUME NEW i \in 0 .. m + 1
        PROVE  h[i] = IF i = 0 THEN begun ELSE Wr!RefineStep(h[i - 1], s[i])
    <3>1. CASE i = m + 1
      <4>1. i - 1 = m /\ m \in 0 .. m /\ i # 0
        BY <3>1
      <4> QED
        BY <2>2, <3>1, <4>1
    <3>2. CASE i # m + 1
      <4>1. i \in 0 .. m /\ (i # 0 => i - 1 \in 0 .. m)
        BY <3>2
      <4> QED
        BY <2>1, <2>2, <4>1 DEF Refines
    <3> QED
      BY <3>1, <3>2
  <2>4. Refines(h, begun, s, m + 1)
    BY <2>3 DEF Refines
  <2> QED
    BY <2>4
<1> HIDE DEF T
<1>3. \A m \in Nat : m \in T
  BY <1>1, <1>2, NatSetInduction, Zenon
<1>4. n \in T
  BY <1>3
<1> QED
  BY <1>4 DEF T

(* After the refinement a process has more quadrants, or the same. *)
LEMMA RefinedIs ==
  ASSUME Branching, NEW p, IsSeq(forest[p])
  PROVE  /\ IsSeq(Wr!Refined(p).out) /\ Len(forest[p]) <= Len(Wr!Refined(p).out)
         /\ Len(Wr!Refined(p).out) = Len(forest[p]) => Wr!Quads(Wr!Refined(p).out) = Wr!Quads(forest[p])
<1> DEFINE n == Len(forest[p])
           s == forest[p]
           begun == RefineStart(p)
           h == CHOOSE g : g = [i \in 0 .. n |-> IF i = 0 THEN begun ELSE Wr!RefineStep(g[i - 1], s[i])]
<1>1. n \in Nat /\ DOMAIN s = 1 .. n
  BY SeqOf DEF IsSeq
<1>2. PICK g : Refines(g, begun, s, n)
  BY <1>1, RefinesExist
<1>3. Wr!Refined(p) = h[n]
  BY DEF Wr!Refined, RefineStart
<1> HIDE DEF begun
<1>4. h = [i \in 0 .. n |-> IF i = 0 THEN begun ELSE Wr!RefineStep(h[i - 1], s[i])]
  <2> DEFINE k == [i \in 0 .. n |-> g[i]]
  <2>1. ASSUME NEW i \in 0 .. n PROVE k[i] = IF i = 0 THEN begun ELSE Wr!RefineStep(k[i - 1], s[i])
    <3>1. i # 0 => i - 1 \in 0 .. n
      BY <1>1
    <3> QED
      BY <1>2, <3>1 DEF Refines
  <2>2. k = [i \in 0 .. n |-> IF i = 0 THEN begun ELSE Wr!RefineStep(k[i - 1], s[i])]
    BY <2>1
  <2> HIDE DEF k, n, s
  <2> QED
    BY <2>2
<1> HIDE DEF h
<1> HIDE DEF s, n
<1>5. h[0] = begun /\ \A i \in 1 .. n : h[i] = Wr!RefineStep(h[i - 1], s[i])
  <2>1. 0 \in 0 .. n /\ \A i \in 1 .. n : i \in 0 .. n /\ i # 0
    BY <1>1
  <2>2. \A i \in 0 .. n : h[i] = IF i = 0 THEN begun ELSE Wr!RefineStep(h[i - 1], s[i])
    BY <1>4, Zenon
  <2> QED
    BY <2>1, <2>2
<1> DEFINE Right(b, m) ==
             /\ IsPass(b) /\ IsSeq(b.out) /\ b.replaced \in Nat /\ Len(b.out) \in Nat
             /\ m + b.replaced <= Len(b.out)
             /\ b.replaced = 0 => Len(b.out) = m /\ \A i \in 1 .. m : b.out[i].quad = s[i].quad
           T == { m \in Nat : m <= n => Right(h[m], m) }
<1>6. 0 \in T
  <2>1. IsPass(begun) /\ begun.out = << >> /\ begun.replaced = 0
    BY DEF begun, RefineStart, IsPass
  <2>2. IsSeq(<< >>) /\ Len(<< >>) = 0
    BY SmallIs
  <2>3. \A i \in 1 .. 0 : FALSE
    OBVIOUS
  <2> HIDE DEF begun
  <2>4. Right(begun, 0)
    BY <2>1, <2>2, <2>3
  <2> QED
    BY <1>5, <2>4
<1>7. ASSUME NEW m \in Nat, m \in T PROVE m + 1 \in T
  <2> SUFFICES ASSUME m + 1 <= n PROVE Right(h[m + 1], m + 1)
    OBVIOUS
  <2>1. m + 1 \in 1 .. n /\ (m + 1) - 1 = m /\ m <= n
    BY <1>1
  <2> DEFINE a == h[m]
             b == h[m + 1]
             e == s[m + 1]
  <2>2. Right(a, m)
    BY <1>7, <2>1
  <2>3. b = Wr!RefineStep(a, e)
    BY <1>5, <2>1
  <2> HIDE DEF a, b, e
  <2>4. /\ IsPass(b) /\ IsSeq(b.out)
        /\ \/ b.replaced = a.replaced /\ \E x : x.quad = e.quad /\ b.out = a.out \o << x >>
           \/ b.replaced = a.replaced + 1 /\ Len(b.out) = Len(a.out) + CHILDREN
    BY <2>2, <2>3, RefineStepIs
  <2>5. CASE b.replaced = a.replaced + 1 /\ Len(b.out) = Len(a.out) + CHILDREN
    <3>1. b.replaced \in Nat /\ Len(b.out) \in Nat /\ (m + 1) + b.replaced <= Len(b.out) /\ b.replaced # 0
      BY <2>2, <2>5 DEF Branching
    <3>2. Right(b, m + 1)
      BY <2>4, <3>1
    <3> QED
      BY <3>2 DEF b
  <2>6. CASE b.replaced = a.replaced /\ \E x : x.quad = e.quad /\ b.out = a.out \o << x >>
    <3>1. PICK x : x.quad = e.quad /\ b.out = a.out \o << x >>
      BY <2>6
    <3>2. IsSeq(a.out)
      BY <2>2
    <3>3. /\ Len(b.out) = Len(a.out) + 1 /\ b.out[Len(a.out) + 1] = x
          /\ \A i \in 1 .. Len(a.out) : b.out[i] = a.out[i]
      <4> DEFINE u == a.out
      <4>1. IsSeq(u) /\ b.out = u \o << x >>
        BY <3>1, <3>2
      <4> HIDE DEF u
      <4>2. /\ Len(u \o << x >>) = Len(u) + 1 /\ (u \o << x >>)[Len(u) + 1] = x
            /\ \A i \in 1 .. Len(u) : (u \o << x >>)[i] = u[i]
        BY <4>1, OneMore
      <4> QED
        BY <4>1, <4>2 DEF u
    <3>4. b.replaced \in Nat /\ Len(b.out) \in Nat /\ (m + 1) + b.replaced <= Len(b.out)
      BY <2>2, <2>6, <3>3
    <3>5. ASSUME b.replaced = 0 PROVE Len(b.out) = m + 1 /\ \A i \in 1 .. m + 1 : b.out[i].quad = s[i].quad
      <4>1. Len(a.out) = m /\ \A i \in 1 .. m : a.out[i].quad = s[i].quad
        BY <2>2, <2>6, <3>5
      <4>2. Len(b.out) = m + 1 /\ b.out[m + 1].quad = s[m + 1].quad
        BY <3>1, <3>3, <4>1 DEF e
      <4>3. \A i \in 1 .. m : b.out[i].quad = s[i].quad
        BY <3>3, <4>1
      <4>4. \A i \in 1 .. m + 1 : i \in 1 .. m \/ i = m + 1
        OBVIOUS
      <4> QED
        BY <4>2, <4>3, <4>4
    <3>6. Right(b, m + 1)
      BY <2>4, <3>4, <3>5
    <3> QED
      BY <3>6 DEF b
  <2> QED
    BY <2>4, <2>5, <2>6
<1> HIDE DEF T
<1>8. \A m \in Nat : m \in T
  BY <1>6, <1>7, NatSetInduction, Zenon
<1>9. Right(h[n], n)
  <2>1. n \in T /\ n <= n
    BY <1>1, <1>8
  <2> QED
    BY <2>1 DEF T
<1> DEFINE o == Wr!Refined(p).out
<1>10. IsSeq(o) /\ Len(o) \in Nat /\ n <= Len(o)
  BY <1>1, <1>3, <1>9
<1>11. ASSUME Len(o) = n PROVE Wr!Quads(o) = Wr!Quads(s)
  <2>1. h[n].replaced = 0
    BY <1>1, <1>3, <1>9, <1>11
  <2>2. \A i \in 1 .. n : o[i].quad = s[i].quad
    BY <1>3, <1>9, <2>1
  <2>3. DOMAIN o = 1 .. n
    BY <1>10, <1>11, SeqOf
  <2> HIDE DEF o
  <2> QED
    BY <1>1, <2>2, <2>3 DEF Wr!Quads
<1> QED
  BY <1>10, <1>11 DEF n, s

\* the pass that coarsens has its parts
IsCoarse(a) == a = [ in |-> a.in, temp |-> a.temp, counter |-> a.counter, skip |-> a.skip, out |-> a.out ]

(* No family is smaller than one. *)
LEMMA FamilyFits ==
  ASSUME Branching, NEW s, NEW i \in Nat, IsSeq(s), Wr!IsFamily(Wr!Quads(Wr!From(s, i)))
  PROVE  i + CHILDREN - 1 <= Len(s)
<1> SUFFICES ASSUME i + CHILDREN - 1 > Len(s) PROVE FALSE
  BY DEF Branching, IsSeq
<1>1. Wr!From(s, i) = << >>
  BY DEF Wr!From
<1> DEFINE q == Wr!Quads(<< >>)
<1>2. DOMAIN q = 1 .. 0 /\ q = [k \in 1 .. 0 |-> q[k]]
  <2>1. DOMAIN << >> = 1 .. 0
    BY SmallIs, SeqOf
  <2> QED
    BY <2>1 DEF Wr!Quads
<1> HIDE DEF q
<1>3. Len(q) = 0
  BY <1>2, TableIs
<1>4. Len(q) = CHILDREN
  BY <1>1 DEF Wr!IsFamily, q
<1> QED
  BY <1>3, <1>4 DEF Branching

(* A step of the pass that coarsens. *)
LEMMA CoarsenStepIs ==
  ASSUME Branching, NEW a, NEW i \in Nat, IsCoarse(a), IsSeq(a.in), IsSeq(a.out), a.skip \in Nat
  PROVE  /\ IsCoarse(Wr!CoarsenStep(a, i)) /\ Wr!CoarsenStep(a, i).in = a.in
         /\ \/ a.skip > 0 /\ Wr!CoarsenStep(a, i).skip = a.skip - 1 /\ Wr!CoarsenStep(a, i).out = a.out
            \/ a.skip = 0 /\ Wr!CoarsenStep(a, i).skip = 0 /\ Wr!CoarsenStep(a, i).out = Append(a.out, a.in[i])
            \/ /\ a.skip = 0 /\ Wr!CoarsenStep(a, i).skip = CHILDREN - 1 /\ i + CHILDREN - 1 <= Len(a.in)
               /\ \E x : Wr!CoarsenStep(a, i).out = Append(a.out, x)
<1> DEFINE b == Wr!CoarsenStep(a, i)
<1>1. CASE a.skip > 0
  <2>1. b = [a EXCEPT !.skip = @ - 1]
    BY <1>1 DEF Wr!CoarsenStep
  <2> HIDE DEF b
  <2>2. IsCoarse(b) /\ b.in = a.in /\ b.skip = a.skip - 1 /\ b.out = a.out
    BY <2>1 DEF IsCoarse
  <2> QED
    BY <1>1, <2>2 DEF b
<1>2. CASE ~ a.skip > 0
  <2>1. a.skip = 0
    BY <1>2
  <2> DEFINE family  == Wr!From(a.in, i)
             coarsen == /\ Wr!IsFamily(Wr!Quads(family))
                        /\ \A k \in 1 .. CHILDREN : /\ "coarsen" \in a.temp[a.counter + k]
                                                    /\ Wr!OldEnough(family[k])
             parent  == SubSeq(a.in[i].quad, 1, Wr!Level(a.in[i].quad))
             age     == IF params.coarsen_delay = 0 \/ params.coarsen_affect THEN 0 ELSE -1
             x       == [ quad |-> parent, user_int |-> age ]
             y       == IF coarsen THEN x ELSE a.in[i]
             c       == a.counter + IF coarsen THEN CHILDREN ELSE 1
             k0      == IF coarsen THEN CHILDREN - 1 ELSE 0
  <2>2. b = [ a EXCEPT !.counter = c, !.skip = k0, !.out = Append(a.out, y) ]
    BY <1>2, Zenon DEF Wr!CoarsenStep
  <2>3. coarsen => i + CHILDREN - 1 <= Len(a.in)
    BY FamilyFits
  <2> HIDE DEF b, c
  <2>4. IsCoarse(b) /\ b.in = a.in /\ b.skip = k0 /\ b.out = Append(a.out, y)
    <3> HIDE DEF k0, y
    <3> QED
      BY <2>2 DEF IsCoarse
  <2>5. CASE coarsen
    <3>1. b.skip = CHILDREN - 1 /\ b.out = Append(a.out, x)
      <4> HIDE DEF coarsen, x
      <4> QED
        BY <2>4, <2>5
    <3> HIDE DEF coarsen, x
    <3> QED
      BY <2>1, <2>3, <2>4, <2>5, <3>1 DEF b
  <2>6. CASE ~ coarsen
    <3>1. b.skip = 0 /\ b.out = Append(a.out, a.in[i])
      <4> HIDE DEF coarsen, x
      <4> QED
        BY <2>4, <2>6
    <3> HIDE DEF coarsen, x, y, k0
    <3> QED
      BY <2>1, <2>4, <3>1 DEF b
  <2> HIDE DEF coarsen
  <2> QED
    BY <2>5, <2>6
<1> QED
  BY <1>1, <1>2

\* h has the coarsening pass after every quadrant
Coarsens(h, begun, n) == \A i \in 0 .. n : h[i] = IF i = 0 THEN begun ELSE Wr!CoarsenStep(h[i - 1], i)

(* There is such a table. *)
LEMMA CoarsensExist ==
  ASSUME NEW begun, NEW n \in Nat
  PROVE  \E h : Coarsens(h, begun, n)
<1> DEFINE T == { m \in Nat : \E h : Coarsens(h, begun, m) }
<1>1. 0 \in T
  <2> DEFINE h == [i \in 0 .. 0 |-> begun]
  <2>1. \A i \in 0 .. 0 : i = 0 /\ h[i] = begun
    OBVIOUS
  <2> HIDE DEF h
  <2>2. Coarsens(h, begun, 0)
    BY <2>1 DEF Coarsens
  <2> QED
    BY <2>2
<1>2. ASSUME NEW m \in Nat, m \in T PROVE m + 1 \in T
  <2>1. PICK g : Coarsens(g, begun, m)
    BY <1>2
  <2> DEFINE h == [i \in 0 .. m + 1 |-> IF i = m + 1 THEN Wr!CoarsenStep(g[m], m + 1) ELSE g[i]]
  <2>2. h[m + 1] = Wr!CoarsenStep(g[m], m + 1) /\ \A i \in 0 .. m : h[i] = g[i]
    <3>1. m + 1 \in 0 .. m + 1 /\ \A i \in 0 .. m : i \in 0 .. m + 1 /\ i # m + 1
      OBVIOUS
    <3> QED
      BY <3>1
  <2> HIDE DEF h
  <2>3. ASSUME NEW i \in 0 .. m + 1
        PROVE  h[i] = IF i = 0 THEN begun ELSE Wr!CoarsenStep(h[i - 1], i)
    <3>1. CASE i = m + 1
      <4>1. i - 1 = m /\ m \in 0 .. m /\ i # 0
        BY <3>1
      <4> QED
        BY <2>2, <3>1, <4>1
    <3>2. CASE i # m + 1
      <4>1. i \in 0 .. m /\ (i # 0 => i - 1 \in 0 .. m)
        BY <3>2
      <4> QED
        BY <2>1, <2>2, <4>1 DEF Coarsens
    <3> QED
      BY <3>1, <3>2
  <2>4. Coarsens(h, begun, m + 1)
    BY <2>3 DEF Coarsens
  <2> QED
    BY <2>4
<1> HIDE DEF T
<1>3. \A m \in Nat : m \in T
  BY <1>1, <1>2, NatSetInduction, Zenon
<1>4. n \in T
  BY <1>3
<1> QED
  BY <1>4 DEF T

\* Where a coarsening pass stands after m quadrants.
CoarsensRight(b, s, m) ==
  /\ IsCoarse(b) /\ b.in = s /\ IsSeq(b.out) /\ b.skip \in Nat
  /\ m + b.skip <= Len(s) /\ Len(b.out) <= m + b.skip
  /\ b.skip > 0 => Len(b.out) < m + b.skip
  /\ Len(b.out) = m + b.skip => \A i \in 1 .. m : b.out[i] = s[i]

(* It gets there. *)
LEMMA CoarsensStay ==
  ASSUME Branching, NEW s, IsSeq(s), NEW m \in Nat, m + 1 <= Len(s), NEW a, CoarsensRight(a, s, m)
  PROVE  CoarsensRight(Wr!CoarsenStep(a, m + 1), s, m + 1)
<1> DEFINE b == Wr!CoarsenStep(a, m + 1)
<1>1. /\ IsCoarse(a) /\ a.in = s /\ IsSeq(a.out) /\ a.skip \in Nat
      /\ m + a.skip <= Len(s) /\ Len(a.out) <= m + a.skip
      /\ a.skip > 0 => Len(a.out) < m + a.skip
      /\ Len(a.out) = m + a.skip => \A i \in 1 .. m : a.out[i] = s[i]
      /\ Len(s) \in Nat /\ Len(a.out) \in Nat
  BY DEF CoarsensRight, IsSeq
<1>2. /\ IsCoarse(b) /\ b.in = a.in
      /\ \/ a.skip > 0 /\ b.skip = a.skip - 1 /\ b.out = a.out
         \/ a.skip = 0 /\ b.skip = 0 /\ b.out = Append(a.out, a.in[m + 1])
         \/ /\ a.skip = 0 /\ b.skip = CHILDREN - 1 /\ m + 1 + CHILDREN - 1 <= Len(a.in)
            /\ \E x : b.out = Append(a.out, x)
  <2>1. m + 1 \in Nat
    OBVIOUS
  <2> HIDE DEF b
  <2> QED
    BY <1>1, <2>1, CoarsenStepIs DEF b
<1> HIDE DEF b
<1>3. CASE a.skip > 0 /\ b.skip = a.skip - 1 /\ b.out = a.out
  <2>1. /\ b.skip \in Nat /\ (m + 1) + b.skip = m + a.skip
    BY <1>1, <1>3
  <2>2. Len(b.out) < (m + 1) + b.skip
    BY <1>1, <1>3, <2>1
  <2>3. CoarsensRight(b, s, m + 1)
    BY <1>1, <1>2, <1>3, <2>1, <2>2 DEF CoarsensRight
  <2> QED
    BY <2>3 DEF b
<1>4. CASE a.skip = 0 /\ b.skip = 0 /\ b.out = Append(a.out, a.in[m + 1])
  <2> DEFINE u == a.out
             x == a.in[m + 1]
  <2>1. IsSeq(u) /\ b.out = Append(u, x)
    BY <1>1, <1>4
  <2> HIDE DEF u, x
  <2>2. /\ IsSeq(b.out) /\ Len(b.out) = Len(u) + 1
        /\ \A i \in 1 .. Len(u) : b.out[i] = u[i]
        /\ b.out[Len(u) + 1] = x
    BY <2>1, AppendIs
  <2>3. Len(u) <= m /\ Len(u) \in Nat
    BY <1>1, <1>4 DEF u
  <2>4. ASSUME Len(b.out) = m + 1 PROVE \A i \in 1 .. m + 1 : b.out[i] = s[i]
    <3>1. Len(u) = m
      BY <2>2, <2>3, <2>4
    <3>2. \A i \in 1 .. m : u[i] = s[i]
      BY <1>1, <1>4, <3>1 DEF u
    <3>3. \A i \in 1 .. m : b.out[i] = s[i]
      BY <2>2, <3>1, <3>2
    <3>4. b.out[m + 1] = s[m + 1]
      BY <1>1, <2>2, <3>1 DEF x
    <3>5. \A i \in 1 .. m + 1 : i \in 1 .. m \/ i = m + 1
      OBVIOUS
    <3> QED
      BY <3>3, <3>4, <3>5
  <2>5. b.skip = 0 /\ (m + 1) + b.skip = m + 1 /\ Len(b.out) <= m + 1 /\ m + 1 <= Len(s)
    BY <1>4, <2>2, <2>3
  <2>6. CoarsensRight(b, s, m + 1)
    BY <1>1, <1>2, <2>2, <2>4, <2>5 DEF CoarsensRight
  <2> QED
    BY <2>6 DEF b
<1>5. CASE /\ a.skip = 0 /\ b.skip = CHILDREN - 1 /\ m + 1 + CHILDREN - 1 <= Len(a.in)
           /\ \E x : b.out = Append(a.out, x)
  <2>1. PICK x : b.out = Append(a.out, x)
    BY <1>5
  <2> DEFINE u == a.out
  <2>2. IsSeq(u) /\ b.out = Append(u, x)
    BY <1>1, <2>1
  <2> HIDE DEF u
  <2>3. IsSeq(b.out) /\ Len(b.out) = Len(u) + 1
    BY <2>2, AppendIs
  <2>4. Len(u) <= m /\ Len(u) \in Nat
    BY <1>1, <1>5 DEF u
  <2>5. b.skip \in Nat /\ b.skip > 0 /\ (m + 1) + b.skip <= Len(s)
    BY <1>1, <1>5 DEF Branching
  <2>6. Len(b.out) < (m + 1) + b.skip
    BY <2>3, <2>4, <2>5
  <2>7. CoarsensRight(b, s, m + 1)
    BY <1>1, <1>2, <2>3, <2>5, <2>6 DEF CoarsensRight
  <2> QED
    BY <2>7 DEF b
<1> QED
  BY <1>2, <1>3, <1>4, <1>5

(* After the coarsening a process has fewer quadrants, or the same. *)
LEMMA CoarsenedIs ==
  ASSUME Branching, NEW r, IsSeq(r.out)
  PROVE  /\ IsSeq(Wr!Coarsened(r)) /\ Len(Wr!Coarsened(r)) <= Len(r.out)
         /\ Len(Wr!Coarsened(r)) = Len(r.out) => Wr!Coarsened(r) = r.out
<1> DEFINE s == r.out
           n == Len(s)
           begun == [ in |-> s, temp |-> r.temp, counter |-> 0, skip |-> 0, out |-> << >> ]
           h == CHOOSE g : g = [i \in 0 .. n |-> IF i = 0 THEN begun ELSE Wr!CoarsenStep(g[i - 1], i)]
<1>1. n \in Nat /\ DOMAIN s = 1 .. n
  BY SeqOf DEF IsSeq
<1>2. PICK g : Coarsens(g, begun, n)
  BY <1>1, CoarsensExist
<1>3. Wr!Coarsened(r) = h[n].out
  BY DEF Wr!Coarsened
<1>4. CoarsensRight(begun, s, 0)
  <2>1. IsSeq(<< >>) /\ Len(<< >>) = 0
    BY SmallIs
  <2>2. begun.in = s /\ begun.out = << >> /\ begun.skip = 0 /\ IsCoarse(begun)
    BY DEF IsCoarse
  <2>3. \A i \in 1 .. 0 : FALSE
    OBVIOUS
  <2> HIDE DEF begun
  <2> QED
    BY <1>1, <2>1, <2>2, <2>3 DEF CoarsensRight
<1> HIDE DEF begun
<1>5. h = [i \in 0 .. n |-> IF i = 0 THEN begun ELSE Wr!CoarsenStep(h[i - 1], i)]
  <2> DEFINE k == [i \in 0 .. n |-> g[i]]
  <2>1. ASSUME NEW i \in 0 .. n PROVE k[i] = IF i = 0 THEN begun ELSE Wr!CoarsenStep(k[i - 1], i)
    <3>1. i # 0 => i - 1 \in 0 .. n
      BY <1>1
    <3> QED
      BY <1>2, <3>1 DEF Coarsens
  <2>2. k = [i \in 0 .. n |-> IF i = 0 THEN begun ELSE Wr!CoarsenStep(k[i - 1], i)]
    BY <2>1
  <2> HIDE DEF k, n, s
  <2> QED
    BY <2>2
<1> HIDE DEF h
<1>6. IsSeq(s)
  OBVIOUS
<1> HIDE DEF s, n
<1>7. h[0] = begun /\ \A i \in 1 .. n : h[i] = Wr!CoarsenStep(h[i - 1], i)
  <2>1. 0 \in 0 .. n /\ \A i \in 1 .. n : i \in 0 .. n /\ i # 0
    BY <1>1
  <2>2. \A i \in 0 .. n : h[i] = IF i = 0 THEN begun ELSE Wr!CoarsenStep(h[i - 1], i)
    BY <1>5, Zenon
  <2> QED
    BY <2>1, <2>2
<1> DEFINE T == { m \in Nat : m <= n => CoarsensRight(h[m], s, m) }
<1>8. 0 \in T
  BY <1>4, <1>7
<1>9. ASSUME NEW m \in Nat, m \in T PROVE m + 1 \in T
  <2> SUFFICES ASSUME m + 1 <= n PROVE CoarsensRight(h[m + 1], s, m + 1)
    OBVIOUS
  <2>1. m + 1 \in 1 .. n /\ (m + 1) - 1 = m /\ m <= n
    BY <1>1
  <2>2. CoarsensRight(h[m], s, m)
    BY <1>9, <2>1
  <2>3. h[m + 1] = Wr!CoarsenStep(h[m], m + 1)
    BY <1>7, <2>1
  <2>4. m + 1 <= Len(s)
    BY <2>1 DEF n
  <2>5. CoarsensRight(Wr!CoarsenStep(h[m], m + 1), s, m + 1)
    BY <1>6, <2>2, <2>4, CoarsensStay
  <2> QED
    BY <2>3, <2>5
<1> HIDE DEF T
<1>10. \A m \in Nat : m \in T
  BY <1>8, <1>9, NatSetInduction, Zenon
<1>11. CoarsensRight(h[n], s, n)
  <2>1. n \in T /\ n <= n
    BY <1>1, <1>10
  <2> QED
    BY <2>1 DEF T
<1> DEFINE o == Wr!Coarsened(r)
<1>12. IsSeq(o) /\ Len(o) <= n /\ (Len(o) = n => \A i \in 1 .. n : o[i] = s[i])
  <2> DEFINE b == h[n]
  <2>1. CoarsensRight(b, s, n) /\ o = b.out
    BY <1>3, <1>11
  <2> HIDE DEF b, o
  <2>2. /\ IsSeq(b.out) /\ b.skip \in Nat /\ n + b.skip <= n /\ Len(b.out) <= n + b.skip
        /\ (Len(b.out) = n + b.skip => \A i \in 1 .. n : b.out[i] = s[i])
    BY <2>1 DEF CoarsensRight, n
  <2>3. b.skip = 0 /\ n + b.skip = n
    BY <1>1, <2>2
  <2> QED
    BY <2>1, <2>2, <2>3
<1> HIDE DEF o
<1>13. ASSUME Len(o) = n PROVE o = s
  <2>1. o = [i \in 1 .. n |-> o[i]] /\ s = [i \in 1 .. n |-> s[i]]
    BY <1>6, <1>12, <1>13 DEF IsSeq, n
  <2> QED
    BY <1>12, <1>13, <2>1
<1> QED
  BY <1>12, <1>13 DEF o, n, s

(* The quadrants of a process. *)
LEMMA QuadsAre ==
  ASSUME NEW s, IsSeq(s)
  PROVE  IsSeq(Wr!Quads(s)) /\ Len(Wr!Quads(s)) = Len(s) /\ DOMAIN s = 1 .. Len(s)
<1> DEFINE f == [k \in 1 .. Len(s) |-> s[k].quad]
<1>1. DOMAIN s = 1 .. Len(s) /\ Len(s) \in Nat
  BY SeqOf DEF IsSeq
<1>2. Wr!Quads(s) = f
  BY <1>1 DEF Wr!Quads
<1>3. IsSeq(f) /\ Len(f) = Len(s)
  BY <1>1, TableIs
<1> QED
  BY <1>1, <1>2, <1>3

(* A round of the balance leaves a sequence on every process. *)
LEMMA BalanceOnceIs ==
  ASSUME Branching, NEW f, IsForest(f)
  PROVE  IsForest(Wr!BalanceOnce(f))
<1> DEFINE all == Wr!InOrder(f)
           coarse(g) == \E h \in {g - 1, g + 1} \cap DOMAIN all : Wr!Level(all[h].quad) > Wr!Level(all[g].quad) + 1
           age == IF params.coarsen_delay > 0 THEN -1 ELSE 0
           part(s, first) == [i \in DOMAIN s |-> IF coarse(first + i) THEN Wr!Fresh(Wr!Children(s[i].quad), age) ELSE << s[i] >>]
<1>1. Wr!BalanceOnce(f) = [p \in Wr!Procs |-> Wr!FlattenSeq(part(f[p], Wr!gfq(f)[p]))]
  BY Zenon DEF Wr!BalanceOnce
<1>2. ASSUME NEW s, NEW first, IsSeq(s) PROVE IsSeq(Wr!FlattenSeq(part(s, first)))
  <2> DEFINE seqs == part(s, first)
  <2>1. DOMAIN s = 1 .. Len(s) /\ Len(s) \in Nat
    BY <1>2, SeqOf DEF IsSeq
  <2> HIDE DEF all, coarse, age
  <2>2. DOMAIN seqs = 1 .. Len(s) /\ seqs = [i \in 1 .. Len(s) |-> seqs[i]]
    BY <2>1
  <2>3. IsSeq(seqs) /\ Len(seqs) = Len(s)
    <3> HIDE DEF seqs
    <3> QED
      BY <2>1, <2>2, TableIs
  <2>4. ASSUME NEW i \in 1 .. Len(s) PROVE IsSeq(seqs[i])
    <3>1. seqs[i] = IF coarse(first + i) THEN Wr!Fresh(Wr!Children(s[i].quad), age) ELSE << s[i] >>
      BY <2>1
    <3>2. IsSeq(Wr!Fresh(Wr!Children(s[i].quad), age))
      BY ChildrenAre, FreshIs
    <3>3. IsSeq(<< s[i] >>)
      BY SmallIs
    <3> HIDE DEF seqs
    <3> QED
      BY <3>1, <3>2, <3>3
  <2> HIDE DEF seqs
  <2>5. IsSeq(Wr!FlattenSeq(seqs))
    BY <2>3, <2>4, FlatIsSeq
  <2> QED
    BY <2>5 DEF seqs
<1> DEFINE new(p) == Wr!FlattenSeq(part(f[p], Wr!gfq(f)[p]))
<1>3. \A p \in Wr!Procs : IsSeq(new(p))
  BY <1>2 DEF IsForest
<1> HIDE DEF new
<1>4. Wr!BalanceOnce(f) = [p \in Wr!Procs |-> new(p)]
  BY <1>1, Zenon DEF new
<1> QED
  BY <1>3, <1>4 DEF IsForest

\* h has the forest after every round
Rounds(h, f, n) == \A i \in 0 .. n : h[i] = IF i = 0 THEN f ELSE Wr!BalanceOnce(h[i - 1])

(* There is such a table. *)
LEMMA RoundsExist ==
  ASSUME NEW f, NEW n \in Nat
  PROVE  \E h : Rounds(h, f, n)
<1> DEFINE T == { m \in Nat : \E h : Rounds(h, f, m) }
<1>1. 0 \in T
  <2> DEFINE h == [i \in 0 .. 0 |-> f]
  <2>1. \A i \in 0 .. 0 : i = 0 /\ h[i] = f
    OBVIOUS
  <2> HIDE DEF h
  <2>2. Rounds(h, f, 0)
    BY <2>1 DEF Rounds
  <2> QED
    BY <2>2
<1>2. ASSUME NEW m \in Nat, m \in T PROVE m + 1 \in T
  <2>1. PICK g : Rounds(g, f, m)
    BY <1>2
  <2> DEFINE h == [i \in 0 .. m + 1 |-> IF i = m + 1 THEN Wr!BalanceOnce(g[m]) ELSE g[i]]
  <2>2. h[m + 1] = Wr!BalanceOnce(g[m]) /\ \A i \in 0 .. m : h[i] = g[i]
    <3>1. m + 1 \in 0 .. m + 1 /\ \A i \in 0 .. m : i \in 0 .. m + 1 /\ i # m + 1
      OBVIOUS
    <3> QED
      BY <3>1
  <2> HIDE DEF h
  <2>3. ASSUME NEW i \in 0 .. m + 1
        PROVE  h[i] = IF i = 0 THEN f ELSE Wr!BalanceOnce(h[i - 1])
    <3>1. CASE i = m + 1
      <4>1. i - 1 = m /\ m \in 0 .. m /\ i # 0
        BY <3>1
      <4> QED
        BY <2>2, <3>1, <4>1
    <3>2. CASE i # m + 1
      <4>1. i \in 0 .. m /\ (i # 0 => i - 1 \in 0 .. m)
        BY <3>2
      <4> QED
        BY <2>1, <2>2, <4>1 DEF Rounds
    <3> QED
      BY <3>1, <3>2
  <2>4. Rounds(h, f, m + 1)
    BY <2>3 DEF Rounds
  <2> QED
    BY <2>4
<1> HIDE DEF T
<1>3. \A m \in Nat : m \in T
  BY <1>1, <1>2, NatSetInduction, Zenon
<1>4. n \in T
  BY <1>3
<1> QED
  BY <1>4 DEF T

(* So does the balance. *)
LEMMA BalancedIs ==
  ASSUME Branching, QMAXLEVEL \in Nat, NEW f, IsForest(f)
  PROVE  IsForest(Wr!Balanced(f))
<1> DEFINE n == QMAXLEVEL
           h == CHOOSE g : g = [i \in 0 .. n |-> IF i = 0 THEN f ELSE Wr!BalanceOnce(g[i - 1])]
<1>1. PICK g : Rounds(g, f, n)
  BY RoundsExist
<1>2. Wr!Balanced(f) = h[n]
  BY DEF Wr!Balanced
<1>3. h = [i \in 0 .. n |-> IF i = 0 THEN f ELSE Wr!BalanceOnce(h[i - 1])]
  <2> DEFINE k == [i \in 0 .. n |-> g[i]]
  <2>1. ASSUME NEW i \in 0 .. n PROVE k[i] = IF i = 0 THEN f ELSE Wr!BalanceOnce(k[i - 1])
    <3>1. i # 0 => i - 1 \in 0 .. n
      OBVIOUS
    <3> QED
      BY <1>1, <3>1 DEF Rounds
  <2>2. k = [i \in 0 .. n |-> IF i = 0 THEN f ELSE Wr!BalanceOnce(k[i - 1])]
    BY <2>1
  <2> HIDE DEF k, n
  <2> QED
    BY <2>2
<1> HIDE DEF h
<1>4. \A i \in 0 .. n : h[i] = IF i = 0 THEN f ELSE Wr!BalanceOnce(h[i - 1])
  BY <1>3, Zenon
<1> DEFINE T == { m \in Nat : m <= n => IsForest(h[m]) }
<1>5. 0 \in T
  <2>1. 0 \in 0 .. n
    OBVIOUS
  <2> QED
    BY <1>4, <2>1
<1>6. ASSUME NEW m \in Nat, m \in T PROVE m + 1 \in T
  <2> SUFFICES ASSUME m + 1 <= n PROVE IsForest(h[m + 1])
    OBVIOUS
  <2>1. m + 1 \in 0 .. n /\ m + 1 # 0 /\ (m + 1) - 1 = m /\ m <= n
    OBVIOUS
  <2>2. h[m + 1] = Wr!BalanceOnce(h[m])
    BY <1>4, <2>1
  <2>3. IsForest(h[m])
    BY <1>6, <2>1
  <2> QED
    BY <2>2, <2>3, BalanceOnceIs
<1> HIDE DEF T
<1>7. \A m \in Nat : m \in T
  BY <1>5, <1>6, NatSetInduction, Zenon
<1>8. n \in T
  BY <1>7
<1>9. IsForest(h[n])
  BY <1>8 DEF T
<1> QED
  BY <1>2, <1>9

\* The forest after the refinement, and after the coarsening.
Finer   == [p \in Wr!Procs |-> Wr!Refined(p).out]
Thinner == [p \in Wr!Procs |-> Wr!Coarsened(Wr!Refined(p))]

(* Both have a sequence on every process.  Where they have as many quadrants as there *)
(* were, they have those. *)
LEMMA PassesAre ==
  ASSUME Branching, NumProcs \in Nat \ {0}, IsForest(forest)
  PROVE  /\ IsForest(Finer) /\ IsForest(Thinner)
         /\ Wr!NumGlobal(Finer) = Wr!NumGlobal(forest) /\ Wr!NumGlobal(Thinner) = Wr!NumGlobal(Finer)
              => Wr!Leaves(Thinner) = Wr!Leaves(forest)
<1>1. ASSUME NEW p \in Wr!Procs
      PROVE  /\ Finer[p] = Wr!Refined(p).out /\ Thinner[p] = Wr!Coarsened(Wr!Refined(p))
             /\ IsSeq(Finer[p]) /\ Len(forest[p]) <= Len(Finer[p])
             /\ Len(Finer[p]) = Len(forest[p]) => Wr!Quads(Finer[p]) = Wr!Quads(forest[p])
             /\ IsSeq(Thinner[p]) /\ Len(Thinner[p]) <= Len(Finer[p])
             /\ Len(Thinner[p]) = Len(Finer[p]) => Thinner[p] = Finer[p]
  <2>1. Finer[p] = Wr!Refined(p).out /\ Thinner[p] = Wr!Coarsened(Wr!Refined(p))
    BY DEF Finer, Thinner
  <2>2. IsSeq(forest[p])
    BY DEF IsForest
  <2> DEFINE r == Wr!Refined(p)
  <2>3. /\ IsSeq(r.out) /\ Len(forest[p]) <= Len(r.out)
        /\ Len(r.out) = Len(forest[p]) => Wr!Quads(r.out) = Wr!Quads(forest[p])
    BY <2>2, RefinedIs
  <2> HIDE DEF r
  <2>4. /\ IsSeq(Wr!Coarsened(r)) /\ Len(Wr!Coarsened(r)) <= Len(r.out)
        /\ Len(Wr!Coarsened(r)) = Len(r.out) => Wr!Coarsened(r) = r.out
    BY <2>3, CoarsenedIs
  <2>5. Finer[p] = r.out /\ Thinner[p] = Wr!Coarsened(r)
    BY <2>1 DEF r
  <2> QED
    BY <2>1, <2>3, <2>4, <2>5
<1>2. Finer = [p \in Wr!Procs |-> Finer[p]] /\ Thinner = [p \in Wr!Procs |-> Thinner[p]]
  BY DEF Finer, Thinner
<1>3. IsForest(Finer) /\ IsForest(Thinner)
  BY <1>1, <1>2 DEF IsForest
<1>4. ASSUME Wr!NumGlobal(Finer) = Wr!NumGlobal(forest), Wr!NumGlobal(Thinner) = Wr!NumGlobal(Finer)
      PROVE  Wr!Leaves(Thinner) = Wr!Leaves(forest)
  <2>1. \A p \in Wr!Procs : Len(forest[p]) = Len(Finer[p])
    BY <1>1, <1>3, <1>4, SameTotals
  <2>2. \A p \in Wr!Procs : Len(Thinner[p]) = Len(Finer[p])
    BY <1>1, <1>3, <1>4, SameTotals
  <2>3. \A p \in Wr!Procs : Wr!Quads(Thinner[p]) = Wr!Quads(forest[p])
    BY <1>1, <2>1, <2>2
  <2> QED
    BY <2>3 DEF Wr!Leaves
<1> QED
  BY <1>3, <1>4

(***************************************************************************)
(* The invariant.                                                          *)
(***************************************************************************)
\* There is a flag for every quadrant of f, and no more than num of them say to refine,
\* or just as many.
Marks(fl, p) == { i \in DOMAIN fl[p] : "refine" \in fl[p][i] }
FlagsFit(f, fl, num) ==
  /\ fl = [p \in Wr!Procs |-> fl[p]] /\ num \in [Wr!Procs -> Nat]
  /\ \A p \in Wr!Procs : /\ fl[p] = [i \in DOMAIN f[p] |-> fl[p][i]]
                         /\ num[p] >= Cardinality(Marks(fl, p))
CountsAll(fl, num) == \A p \in Wr!Procs : num[p] = Cardinality(Marks(fl, p))

WrapInv ==
  /\ "hollow" \in DOMAIN params /\ params.hollow \in BOOLEAN /\ match_aux \in BOOLEAN
  /\ IsForest(forest)
  /\ IF params.hollow THEN flags = Wr!Null /\ layer = Wr!Null
     ELSE /\ FlagsFit(forest, flags, num_refine_flags) /\ Wr!InUse = Wr!Leaves(forest)
          /\ match_aux => CountsAll(flags, num_refine_flags)

(* New flags fit any count, and nothing counted is all there is. *)
LEMMA NoFlagsFit ==
  ASSUME NEW f, NEW num \in [Wr!Procs -> Nat]
  PROVE  /\ FlagsFit(f, Wr!NoFlags(f), num)
         /\ num = Wr!NoRefine => CountsAll(Wr!NoFlags(f), num)
<1> DEFINE fl == Wr!NoFlags(f)
<1>1. fl = [p \in Wr!Procs |-> [i \in DOMAIN f[p] |-> {}]]
  BY DEF Wr!NoFlags
<1> HIDE DEF fl
<1>2. fl = [p \in Wr!Procs |-> fl[p]]
  BY <1>1
<1>3. ASSUME NEW p \in Wr!Procs
      PROVE  fl[p] = [i \in DOMAIN f[p] |-> fl[p][i]] /\ num[p] >= 0 /\ Cardinality(Marks(fl, p)) = 0
  <2>1. fl[p] = [i \in DOMAIN f[p] |-> {}] /\ num[p] \in Nat
    BY <1>1
  <2>2. fl[p] = [i \in DOMAIN f[p] |-> fl[p][i]]
    BY <2>1
  <2>3. Marks(fl, p) = {}
    BY <2>1 DEF Marks
  <2>4. Cardinality({}) = 0
    BY FS_EmptySet
  <2> QED
    BY <2>1, <2>2, <2>3, <2>4
<1>4. FlagsFit(f, fl, num)
  BY <1>2, <1>3 DEF FlagsFit
<1>5. ASSUME num = Wr!NoRefine PROVE CountsAll(fl, num)
  <2>1. \A p \in Wr!Procs : num[p] = 0
    BY <1>5 DEF Wr!NoRefine
  <2> QED
    BY <1>3, <2>1 DEF CountsAll
<1> QED
  BY <1>4, <1>5 DEF fl

(* A wrapper that counts nothing. *)
LEMMA NoneCounted ==
  Wr!NoRefine \in [Wr!Procs -> Nat]
BY DEF Wr!NoRefine

(* The number of quadrants is one. *)
LEMMA CountIs ==
  ASSUME NumProcs \in Nat \ {0}, NEW f, IsForest(f)
  PROVE  Wr!NumGlobal(f) \in Nat
<1>1. IsSeq(Front(f, NumProcs))
  <2>1. NumProcs \in 0 .. NumProcs
    OBVIOUS
  <2> QED
    BY <2>1, FrontSteps
<1> QED
  BY <1>1 DEF Wr!NumGlobal, Wr!InOrder, Front, IsSeq

(* Wherever the cuts are, every process gets a sequence. *)
LEMMA DealtIs ==
  ASSUME NumProcs \in Nat \ {0}, NEW s, NEW c, \A p \in 0 .. NumProcs : c[p] \in Int
  PROVE  IsForest(Wr!Dealt(s, c))
<1> DEFINE f == Wr!Dealt(s, c)
<1>1. f = [p \in Wr!Procs |-> SubSeq(s, c[p] + 1, c[p + 1])]
  BY DEF Wr!Dealt
<1> HIDE DEF f
<1>2. ASSUME NEW p \in Wr!Procs PROVE IsSeq(f[p])
  <2>1. p \in 0 .. NumProcs /\ p + 1 \in 0 .. NumProcs
    BY DEF Wr!Procs
  <2>2. c[p] + 1 \in Int /\ c[p + 1] \in Int
    BY <2>1
  <2>3. f[p] = SubSeq(s, c[p] + 1, c[p + 1])
    BY <1>1
  <2> QED
    BY <2>2, <2>3, PartIs
<1>3. f = [p \in Wr!Procs |-> f[p]]
  BY <1>1
<1> QED
  BY <1>2, <1>3 DEF IsForest, f

(* It holds in the beginning. *)
LEMMA WrapInits ==
  ASSUME Wr!WrapAssumption, Wr!Init
  PROVE  WrapInv
<1>1. PICK s \in Params :
        params = [ hollow |-> FALSE, coarsen_delay |-> s.coarsen_delay, coarsen_affect |-> s.coarsen_affect,
                   store_adapted |-> s.store_adapted, have_zlib |-> s.have_zlib ]
  BY DEF Wr!Init
<1>2. "hollow" \in DOMAIN params /\ params.hollow = FALSE
  BY <1>1
<1>3. IsForest(forest)
  <2> DEFINE n == Len(Wr!Uniform)
             c == [p \in 0 .. NumProcs |-> (n * p) \div NumProcs]
  <2>1. forest = Wr!Dealt(Wr!Fresh(Wr!Uniform, 0), c)
    BY DEF Wr!Init
  <2>2. n \in Nat
    <3> DEFINE u == [t \in 1 .. NumTrees |-> Wr!Children(<< t - 1 >>)]
    <3>1. DOMAIN u = 1 .. NumTrees /\ u = [t \in 1 .. NumTrees |-> u[t]] /\ NumTrees \in Nat
      BY DEF Wr!WrapAssumption
    <3>2. \A t \in 1 .. NumTrees : IsSeq(u[t])
      BY ChildrenAre DEF Wr!WrapAssumption, Branching
    <3>3. Wr!Uniform = Wr!FlattenSeq(u)
      BY DEF Wr!Uniform
    <3> HIDE DEF u
    <3>4. IsSeq(u) /\ Len(u) = NumTrees
      BY <3>1, TableIs
    <3>5. IsSeq(Wr!FlattenSeq(u))
      BY <3>2, <3>4, FlatIsSeq
    <3> QED
      BY <3>3, <3>5 DEF IsSeq
  <2> HIDE DEF n
  <2>3. ASSUME NEW p \in 0 .. NumProcs PROVE c[p] \in Int
    <3>1. c[p] = (n * p) \div NumProcs
      OBVIOUS
    <3>2. n * p \in Int
      BY <2>2 DEF Wr!WrapAssumption
    <3> QED
      BY <3>1, <3>2 DEF Wr!WrapAssumption
  <2> HIDE DEF c
  <2> QED
    BY <2>1, <2>3, DealtIs DEF Wr!WrapAssumption
<1>4. match_aux = FALSE /\ FlagsFit(forest, flags, num_refine_flags)
  BY NoFlagsFit, NoneCounted DEF Wr!Init
<1>5. Wr!InUse = Wr!Leaves(forest)
  BY DEF Wr!Init, Wr!InUse
<1> QED
  BY <1>2, <1>3, <1>4, <1>5 DEF WrapInv

\* A flag changes to what a mark makes of it, and the count of those that say to refine with it.
MarkedWith(fl, num, p, i, flag, fl2, num2) ==
  /\ fl2 = [fl EXCEPT ![p][i] = flag]
  /\ \/ /\ "refine" \in flag
        /\ num2 = [num EXCEPT ![p] = IF "refine" \in fl[p][i] THEN num[p] ELSE num[p] + 1]
     \/ /\ "refine" \notin flag
        /\ num2 = [num EXCEPT ![p] = num[p] - (IF "refine" \in fl[p][i] THEN 1 ELSE 0)]

(* A flag that changes, and the count of them. *)
LEMMA MarkedFits ==
  ASSUME NEW f, NEW fl, NEW num, IsForest(f), FlagsFit(f, fl, num), NEW p \in Wr!Procs, NEW i \in DOMAIN f[p],
         NEW fl2, NEW num2, NEW flag, MarkedWith(fl, num, p, i, flag, fl2, num2)
  PROVE  FlagsFit(f, fl2, num2) /\ (CountsAll(fl, num) => CountsAll(fl2, num2))
<1>0. /\ fl2 = [fl EXCEPT ![p][i] = flag]
      /\ \/ /\ "refine" \in flag
            /\ num2 = [num EXCEPT ![p] = IF "refine" \in fl[p][i] THEN num[p] ELSE num[p] + 1]
         \/ /\ "refine" \notin flag
            /\ num2 = [num EXCEPT ![p] = num[p] - (IF "refine" \in fl[p][i] THEN 1 ELSE 0)]
  BY DEF MarkedWith
<1>1. /\ fl = [q \in Wr!Procs |-> fl[q]] /\ num \in [Wr!Procs -> Nat]
      /\ \A q \in Wr!Procs : /\ fl[q] = [j \in DOMAIN f[q] |-> fl[q][j]]
                             /\ num[q] >= Cardinality(Marks(fl, q))
  BY DEF FlagsFit
<1>2. /\ DOMAIN fl = Wr!Procs
      /\ \A q \in Wr!Procs : DOMAIN fl[q] = DOMAIN f[q]
  <2>1. DOMAIN fl = Wr!Procs
    BY <1>1
  <2>2. ASSUME NEW q \in Wr!Procs PROVE DOMAIN fl[q] = DOMAIN f[q]
    <3>1. fl[q] = [j \in DOMAIN f[q] |-> fl[q][j]]
      BY <1>1
    <3> QED
      BY <3>1
  <2> QED
    BY <2>1, <2>2
<1>3. /\ fl2 = [q \in Wr!Procs |-> fl2[q]]
      /\ fl2[p] = [fl[p] EXCEPT ![i] = flag]
      /\ \A q \in Wr!Procs : q # p => fl2[q] = fl[q]
  BY <1>0, <1>2
<1>4. fl2[p] = [j \in DOMAIN f[p] |-> fl2[p][j]] /\ fl2[p][i] = flag
      /\ \A j \in DOMAIN f[p] : j # i => fl2[p][j] = fl[p][j]
  <2> DEFINE g == fl[p]
             h == fl2[p]
  <2>1. h = [g EXCEPT ![i] = flag] /\ DOMAIN g = DOMAIN f[p]
    BY <1>2, <1>3
  <2> HIDE DEF g, h
  <2>2. h = [j \in DOMAIN f[p] |-> h[j]] /\ h[i] = flag /\ \A j \in DOMAIN f[p] : j # i => h[j] = g[j]
    BY <2>1
  <2> QED
    BY <2>2 DEF g, h
<1>5. DOMAIN fl2[p] = DOMAIN f[p]
  <2>1. fl2[p] = [j \in DOMAIN f[p] |-> fl2[p][j]]
    BY <1>4
  <2> QED
    BY <2>1
<1> DEFINE R == Marks(fl, p)
           R2 == Marks(fl2, p)
<1>6. R = { j \in DOMAIN f[p] : "refine" \in fl[p][j] } /\ R2 = { j \in DOMAIN f[p] : "refine" \in fl2[p][j] }
  BY <1>2, <1>5 DEF Marks
<1>7. IsFiniteSet(R) /\ Cardinality(R) \in Nat /\ num[p] >= Cardinality(R) /\ num[p] \in Nat
  <2>1. IsSeq(f[p])
    BY DEF IsForest
  <2>2. DOMAIN f[p] = 1 .. Len(f[p]) /\ Len(f[p]) \in Nat
    BY <2>1, SeqOf DEF IsSeq
  <2>3. IsFiniteSet(1 .. Len(f[p]))
    BY <2>2, FS_Interval
  <2>4. R \subseteq 1 .. Len(f[p])
    BY <1>6, <2>2
  <2>5. IsFiniteSet(R)
    BY <2>3, <2>4, FS_Subset
  <2> QED
    BY <1>1, <2>5, FS_CardinalityType
<1> HIDE DEF R, R2
<1>8. /\ num2 \in [Wr!Procs -> Nat] /\ num2[p] >= Cardinality(R2)
      /\ num[p] = Cardinality(R) => num2[p] = Cardinality(R2)
      /\ \A q \in Wr!Procs : q # p => num2[q] = num[q]
  <2>1. CASE "refine" \in flag /\ num2 = [num EXCEPT ![p] = IF "refine" \in fl[p][i] THEN num[p] ELSE num[p] + 1]
    <3>1. R2 = R \union {i}
      <4>1. ASSUME NEW j PROVE j \in R2 <=> j \in R \union {i}
        BY <1>4, <1>6, <2>1
      <4> QED
        BY <4>1
    <3>2. Cardinality(R2) = IF i \in R THEN Cardinality(R) ELSE Cardinality(R) + 1
      BY <1>7, <3>1, FS_AddElement
    <3>3. i \in R <=> "refine" \in fl[p][i]
      BY <1>6
    <3>4. num2[p] = IF i \in R THEN num[p] ELSE num[p] + 1
      BY <1>1, <2>1, <3>3
    <3>5. /\ num2[p] >= Cardinality(R2) /\ num2[p] \in Nat
          /\ num[p] = Cardinality(R) => num2[p] = Cardinality(R2)
      BY <1>7, <3>2, <3>4
    <3> QED
      BY <1>1, <2>1, <3>5
  <2>2. CASE "refine" \notin flag /\ num2 = [num EXCEPT ![p] = num[p] - (IF "refine" \in fl[p][i] THEN 1 ELSE 0)]
    <3>1. R2 = R \ {i}
      <4>1. ASSUME NEW j PROVE j \in R2 <=> j \in R \ {i}
        BY <1>4, <1>6, <2>2
      <4> QED
        BY <4>1
    <3>2. IsFiniteSet(R2) /\ Cardinality(R2) = IF i \in R THEN Cardinality(R) - 1 ELSE Cardinality(R)
      BY <1>7, <3>1, FS_RemoveElement
    <3>3. i \in R <=> "refine" \in fl[p][i]
      BY <1>6
    <3>4. num2[p] = IF i \in R THEN num[p] - 1 ELSE num[p]
      BY <1>1, <1>7, <2>2, <3>3
    <3>5. Cardinality(R2) \in Nat
      BY <3>2, FS_CardinalityType
    <3>6. /\ num2[p] >= Cardinality(R2) /\ num2[p] \in Nat
          /\ num[p] = Cardinality(R) => num2[p] = Cardinality(R2)
      BY <1>7, <3>2, <3>4, <3>5
    <3> QED
      BY <1>1, <2>2, <3>6
  <2> QED
    BY <1>0, <2>1, <2>2
<1>9. ASSUME NEW q \in Wr!Procs
      PROVE  /\ fl2[q] = [j \in DOMAIN f[q] |-> fl2[q][j]] /\ num2[q] >= Cardinality(Marks(fl2, q))
             /\ num[q] = Cardinality(Marks(fl, q)) => num2[q] = Cardinality(Marks(fl2, q))
  <2>1. CASE q = p
    BY <1>4, <1>8, <2>1 DEF R, R2
  <2>2. CASE q # p
    <3>1. fl2[q] = fl[q] /\ num2[q] = num[q]
      BY <1>3, <1>8, <2>2
    <3>2. Marks(fl2, q) = Marks(fl, q)
      BY <3>1 DEF Marks
    <3> QED
      BY <1>1, <3>1, <3>2
  <2> QED
    BY <2>1, <2>2
<1> QED
  BY <1>3, <1>8, <1>9 DEF FlagsFit, CountsAll

(* A quadrant is marked. *)
LEMMA MarkKeeps ==
  ASSUME WrapInv, NEW p \in Wr!Procs, NEW i \in DOMAIN forest[p], Wr!MarkRefine(p, i) \/ Wr!MarkCoarsen(p, i)
  PROVE  WrapInv'
<1>1. /\ ~ params.hollow
      /\ params' = params /\ forest' = forest /\ layer' = layer /\ layer_aux' = layer_aux /\ match_aux' = match_aux
  BY DEF Wr!MarkRefine, Wr!MarkCoarsen, Wr!MayMark
<1>2. /\ IsForest(forest) /\ FlagsFit(forest, flags, num_refine_flags)
      /\ match_aux => CountsAll(flags, num_refine_flags)
  BY <1>1 DEF WrapInv
<1>3. /\ FlagsFit(forest, flags', num_refine_flags')
      /\ CountsAll(flags, num_refine_flags) => CountsAll(flags', num_refine_flags')
  <2>0. ASSUME NEW flag, NEW fl2, NEW num2, MarkedWith(flags, num_refine_flags, p, i, flag, fl2, num2)
        PROVE  FlagsFit(forest, fl2, num2) /\ (CountsAll(flags, num_refine_flags) => CountsAll(fl2, num2))
    BY <1>2, <2>0, MarkedFits
  <2>1. CASE Wr!MarkRefine(p, i)
    <3>1. MarkedWith(flags, num_refine_flags, p, i, {"refine"}, flags', num_refine_flags')
      BY <2>1 DEF MarkedWith, Wr!MarkRefine
    <3> QED
      BY <2>0, <3>1
  <2>2. CASE Wr!MarkCoarsen(p, i)
    <3>1. MarkedWith(flags, num_refine_flags, p, i, {"coarsen"}, flags', num_refine_flags')
      BY <2>2 DEF MarkedWith, Wr!MarkCoarsen, Wr!Unmarked
    <3> QED
      BY <2>0, <3>1
  <2> QED
    BY <2>1, <2>2
<1>4. FlagsFit(forest, flags, num_refine_flags)' /\ (match_aux' => CountsAll(flags, num_refine_flags)')
  BY <1>1, <1>2, <1>3
<1>5. (Wr!InUse = Wr!Leaves(forest))'
  BY <1>1 DEF WrapInv, Wr!InUse, Wr!Leaves
<1>6. IsForest(forest)'
  BY <1>1, <1>2
<1> QED
  BY <1>1, <1>2, <1>4, <1>5, <1>6 DEF WrapInv

(* The forest is adapted. *)
LEMMA AdaptKeeps ==
  ASSUME Wr!WrapAssumption, WrapInv, Wr!Adapt
  PROVE  WrapInv'
<1> DEFINE refined   == [p \in Wr!Procs |-> Wr!Refined(p)]
           coarsened == [p \in Wr!Procs |-> Wr!Coarsened(refined[p])]
           outs      == [p \in Wr!Procs |-> refined[p].out]
           changes   == \/ Wr!NumGlobal(outs) # Wr!NumGlobal(forest)
                        \/ Wr!NumGlobal(coarsened) # Wr!NumGlobal(outs)
           after     == IF changes THEN Wr!Balanced(coarsened) ELSE coarsened
           cancels   == params.have_zlib /\ Wr!Leaves(after) = Wr!Leaves(forest)
           changed   == changes /\ ~ cancels
<1>1. /\ ~ params.hollow /\ layer_aux = Wr!Null /\ ~ match_aux
      /\ forest' = after /\ flags' = Wr!NoFlags(after) /\ match_aux' = changed
      /\ layer_aux' = (IF changed THEN Wr!Leaves(after) ELSE Wr!Null)
      /\ num_refine_flags' = Wr!NoRefine /\ params' = params /\ layer' = layer
  BY Zenon DEF Wr!Adapt
<1>2. coarsened = Thinner /\ outs = Finer
  <2>1. \A p \in Wr!Procs : refined[p] = Wr!Refined(p)
    OBVIOUS
  <2> QED
    BY <2>1 DEF Thinner, Finer
<1>3. IsForest(forest) /\ Wr!InUse = Wr!Leaves(forest)
  BY <1>1 DEF WrapInv
<1>4. layer = Wr!Leaves(forest)
  BY <1>1, <1>3 DEF Wr!InUse
<1>5. IsForest(coarsened) /\ (~ changes => Wr!Leaves(coarsened) = Wr!Leaves(forest))
  <2>1. /\ IsForest(Finer) /\ IsForest(Thinner)
        /\ Wr!NumGlobal(Finer) = Wr!NumGlobal(forest) /\ Wr!NumGlobal(Thinner) = Wr!NumGlobal(Finer)
             => Wr!Leaves(Thinner) = Wr!Leaves(forest)
    BY <1>3, PassesAre DEF Wr!WrapAssumption, Branching
  <2> HIDE DEF refined, coarsened, outs
  <2> QED
    BY <1>2, <2>1
<1> HIDE DEF refined, coarsened, outs, changes
<1>6. IsForest(Wr!Balanced(coarsened))
  BY <1>5, BalancedIs DEF Wr!WrapAssumption, Branching
<1>7. IsForest(after) /\ (~ changes => Wr!Leaves(after) = Wr!Leaves(forest))
  BY <1>5, <1>6
<1> HIDE DEF after
<1>8. IF changed THEN layer_aux' = Wr!Leaves(after) ELSE Wr!Leaves(after) = layer
  BY <1>1, <1>4, <1>7
<1>9. changed \in BOOLEAN
  OBVIOUS
<1> HIDE DEF changed
<1>10. PICK f : f = after
  OBVIOUS
<1>11. forest' = f /\ flags' = Wr!NoFlags(f) /\ IsForest(f)
  BY <1>1, <1>7, <1>10
<1>12. FlagsFit(forest, flags, num_refine_flags)' /\ CountsAll(flags, num_refine_flags)'
  <2>1. FlagsFit(f, Wr!NoFlags(f), Wr!NoRefine) /\ CountsAll(Wr!NoFlags(f), Wr!NoRefine)
    BY NoFlagsFit, NoneCounted
  <2> QED
    BY <1>1, <1>11, <2>1
<1>13. (Wr!InUse = Wr!Leaves(forest))'
  <2>1. Wr!InUse' = IF changed THEN layer_aux' ELSE layer
    BY <1>1 DEF Wr!InUse
  <2>2. Wr!Leaves(forest)' = Wr!Leaves(f)
    BY <1>11 DEF Wr!Leaves
  <2> QED
    BY <1>8, <1>10, <2>1, <2>2
<1>14. IsForest(forest)'
  BY <1>11
<1>15. match_aux' \in BOOLEAN
  BY <1>1, <1>9
<1>16. "hollow" \in DOMAIN params' /\ params'.hollow \in BOOLEAN /\ ~ params'.hollow
  BY <1>1 DEF WrapInv
<1> QED
  BY <1>12, <1>13, <1>14, <1>15, <1>16 DEF WrapInv

(* It is partitioned. *)
LEMMA PartitionKeeps ==
  ASSUME Wr!WrapAssumption, WrapInv, Wr!Partition
  PROVE  WrapInv'
<1>1. /\ ~ params.hollow /\ match_aux /\ match_aux' = FALSE /\ params' = params
      /\ num_refine_flags' = num_refine_flags
  BY DEF Wr!Partition
<1>2. PICK c \in Wr!Cuts(Wr!NumGlobal(forest)) :
        /\ forest' = Wr!Dealt(Wr!InOrder(forest), c)
        /\ flags' = Wr!NoFlags(Wr!Dealt(Wr!InOrder(forest), c))
        /\ layer' = IF c # Wr!gfq(forest) THEN Wr!Leaves(Wr!Dealt(Wr!InOrder(forest), c)) ELSE layer_aux
  BY Zenon DEF Wr!Partition, Wr!Kept
<1>3. IsForest(forest) /\ num_refine_flags \in [Wr!Procs -> Nat] /\ Wr!Leaves(forest) = layer_aux
  BY <1>1 DEF WrapInv, FlagsFit, Wr!InUse
<1>4. PICK f : f = Wr!Dealt(Wr!InOrder(forest), c)
  OBVIOUS
<1>5. IsForest(f)
  <2>1. Wr!NumGlobal(forest) \in Nat
    BY <1>3, CountIs DEF Wr!WrapAssumption
  <2>2. c \in [0 .. NumProcs -> 0 .. Wr!NumGlobal(forest)]
    BY DEF Wr!Cuts
  <2>3. \A p \in 0 .. NumProcs : c[p] \in Int
    BY <2>1, <2>2
  <2> QED
    BY <1>4, <2>3, DealtIs DEF Wr!WrapAssumption
<1>6. c = Wr!gfq(forest) => f = forest
  BY <1>3, <1>4, DealtSame DEF Wr!WrapAssumption
<1>7. layer' = Wr!Leaves(f)
  BY <1>2, <1>3, <1>4, <1>6
<1>8. forest' = f /\ flags' = Wr!NoFlags(f)
  BY <1>2, <1>4
<1>9. FlagsFit(forest, flags, num_refine_flags)'
  <2>1. FlagsFit(f, Wr!NoFlags(f), num_refine_flags)
    BY <1>3, NoFlagsFit
  <2> QED
    BY <1>1, <1>3, <1>8, <2>1
<1>10. (Wr!InUse = Wr!Leaves(forest))'
  <2>1. Wr!InUse' = layer'
    BY <1>1 DEF Wr!InUse
  <2>2. Wr!Leaves(forest)' = Wr!Leaves(f)
    BY <1>8 DEF Wr!Leaves
  <2> QED
    BY <1>7, <2>1, <2>2
<1>11. IsForest(forest)'
  BY <1>5, <1>8
<1>12. "hollow" \in DOMAIN params' /\ params'.hollow \in BOOLEAN /\ ~ params'.hollow /\ match_aux' = FALSE
  BY <1>1 DEF WrapInv
<1> QED
  BY <1>9, <1>10, <1>11, <1>12 DEF WrapInv

(* Ghost and mesh of before are freed. *)
LEMMA CompleteKeeps ==
  ASSUME WrapInv, Wr!Complete
  PROVE  WrapInv'
<1>1. /\ ~ match_aux /\ match_aux' = match_aux /\ params' = params /\ forest' = forest
      /\ flags' = flags /\ num_refine_flags' = num_refine_flags /\ layer' = layer
  BY DEF Wr!Complete
<1>2. (Wr!InUse = Wr!Leaves(forest))' <=> Wr!InUse = Wr!Leaves(forest)
  BY <1>1 DEF Wr!InUse, Wr!Leaves
<1>3. /\ FlagsFit(forest, flags, num_refine_flags)' <=> FlagsFit(forest, flags, num_refine_flags)
      /\ IsForest(forest)' <=> IsForest(forest)
  BY <1>1
<1>4. Wr!Null' = Wr!Null
  BY DEF Wr!Null
<1> QED
  BY <1>1, <1>2, <1>3, <1>4 DEF WrapInv

(* The wrapper is made hollow, or whole again. *)
LEMMA HollowKeeps ==
  ASSUME WrapInv, NEW hollow \in BOOLEAN, Wr!SetHollow(hollow)
  PROVE  WrapInv'
<1>1. /\ ~ match_aux /\ match_aux' = match_aux /\ forest' = forest
      /\ params' = [params EXCEPT !.hollow = hollow]
      /\ flags' = (IF hollow THEN Wr!Null ELSE Wr!NoFlags(forest))
      /\ layer' = (IF hollow THEN Wr!Null ELSE Wr!Leaves(forest))
      /\ num_refine_flags' = Wr!NoRefine
  BY DEF Wr!SetHollow
<1>2. "hollow" \in DOMAIN params' /\ params'.hollow = hollow
  <2>1. "hollow" \in DOMAIN params
    BY DEF WrapInv
  <2> QED
    BY <1>1, <2>1
<1>3. match_aux' = FALSE /\ IsForest(forest)
  BY <1>1 DEF WrapInv
<1>4. IsForest(forest)'
  BY <1>1, <1>3
<1>5. Wr!Null' = Wr!Null
  BY DEF Wr!Null
<1>6. CASE hollow
  <2>1. flags' = Wr!Null /\ layer' = Wr!Null
    BY <1>1, <1>6
  <2> QED
    BY <1>2, <1>3, <1>4, <1>5, <1>6, <2>1 DEF WrapInv
<1>7. CASE ~ hollow
  <2>1. FlagsFit(forest, flags, num_refine_flags)'
    <3>1. FlagsFit(forest, Wr!NoFlags(forest), Wr!NoRefine)
      BY NoFlagsFit, NoneCounted
    <3> QED
      BY <1>1, <1>7, <3>1
  <2>2. (Wr!InUse = Wr!Leaves(forest))'
    BY <1>1, <1>7 DEF Wr!InUse, Wr!Leaves
  <2> QED
    BY <1>2, <1>3, <1>4, <1>7, <2>1, <2>2 DEF WrapInv
<1> QED
  BY <1>6, <1>7

(* The delay is set. *)
LEMMA DelayKeeps ==
  ASSUME WrapInv, NEW delay, NEW affect, Wr!SetCoarsenDelay(delay, affect)
  PROVE  WrapInv'
<1> DEFINE f == [p \in Wr!Procs |-> Wr!Fresh(Wr!Quads(forest[p]), 0)]
<1>1. /\ params' = [params EXCEPT !.coarsen_delay = delay, !.coarsen_affect = affect]
      /\ forest' = f /\ match_aux' = match_aux /\ layer' = layer /\ layer_aux' = layer_aux
      /\ flags' = flags /\ num_refine_flags' = num_refine_flags
  BY DEF Wr!SetCoarsenDelay
<1>2. "hollow" \in DOMAIN params' /\ params'.hollow = params.hollow
  <2>1. "hollow" \in DOMAIN params
    BY DEF WrapInv
  <2> QED
    BY <1>1, <2>1
<1>3. ASSUME NEW p \in Wr!Procs
      PROVE  IsSeq(f[p]) /\ DOMAIN f[p] = DOMAIN forest[p] /\ Wr!Quads(f[p]) = Wr!Quads(forest[p])
  <2>1. IsSeq(forest[p])
    BY DEF WrapInv, IsForest
  <2> DEFINE s == Wr!Quads(forest[p])
  <2>2. IsSeq(s) /\ Len(s) = Len(forest[p]) /\ DOMAIN forest[p] = 1 .. Len(forest[p])
    BY <2>1, QuadsAre
  <2>3. f[p] = Wr!Fresh(s, 0)
    OBVIOUS
  <2> HIDE DEF s, f
  <2>4. IsSeq(f[p]) /\ Len(f[p]) = Len(s) /\ Wr!Quads(f[p]) = s
    BY <2>2, <2>3, FreshIs
  <2>5. DOMAIN f[p] = 1 .. Len(f[p])
    BY <2>4, QuadsAre
  <2> QED
    BY <2>2, <2>4, <2>5 DEF s
<1>4. f = [p \in Wr!Procs |-> f[p]]
  OBVIOUS
<1> HIDE DEF f
<1>5. IsForest(f) /\ Wr!Leaves(f) = Wr!Leaves(forest)
  BY <1>3, <1>4 DEF IsForest, Wr!Leaves
<1>6. FlagsFit(forest, flags, num_refine_flags) => FlagsFit(f, flags, num_refine_flags)
  BY <1>3 DEF FlagsFit
<1>7. PICK g : g = f
  OBVIOUS
<1>8. IsForest(forest)' /\ (FlagsFit(forest, flags, num_refine_flags) => FlagsFit(forest, flags, num_refine_flags)')
  BY <1>1, <1>5, <1>6, <1>7
<1>9. Wr!Leaves(forest)' = Wr!Leaves(g)
  BY <1>1, <1>7 DEF Wr!Leaves
<1>10. Wr!InUse' = Wr!InUse /\ Wr!Null' = Wr!Null
       /\ (CountsAll(flags, num_refine_flags) => CountsAll(flags, num_refine_flags)')
  BY <1>1 DEF Wr!InUse, Wr!Null
<1>11. Wr!Leaves(forest)' = Wr!Leaves(forest)
  BY <1>5, <1>7, <1>9
<1> HIDE DEF f
<1> QED
  BY <1>1, <1>2, <1>8, <1>10, <1>11 DEF WrapInv

(* It says what the property says. *)
LEMMA WrapInvSays ==
  ASSUME WrapInv
  PROVE  Wr!WrapCurrent
<1>1. CASE params.hollow
  BY <1>1 DEF WrapInv, Wr!WrapCurrent
<1>2. CASE ~ params.hollow
  <2>1. /\ FlagsFit(forest, flags, num_refine_flags) /\ Wr!InUse = Wr!Leaves(forest)
        /\ match_aux => CountsAll(flags, num_refine_flags)
    BY <1>2 DEF WrapInv
  <2>2. ASSUME NEW p \in Wr!Procs
        PROVE  /\ DOMAIN flags[p] = DOMAIN forest[p]
               /\ num_refine_flags[p] >= Cardinality(Wr!ToRefine(p))
               /\ match_aux => num_refine_flags[p] = Cardinality(Wr!ToRefine(p))
    <3>1. flags[p] = [i \in DOMAIN forest[p] |-> flags[p][i]]
      BY <2>1 DEF FlagsFit
    <3>2. DOMAIN flags[p] = DOMAIN forest[p]
      BY <3>1
    <3> QED
      BY <2>1, <3>2 DEF FlagsFit, CountsAll, Marks, Wr!ToRefine
  <2>3. \A S : Wr!Cardinality(S) = Cardinality(S)
    BY DEF Wr!Cardinality, Cardinality
  <2> QED
    BY <1>2, <2>1, <2>2, <2>3 DEF Wr!WrapCurrent
<1> QED
  BY <1>1, <1>2

(* Whatever was called, and whenever quadrants were marked: there is a flag for every *)
(* quadrant, and the counted refinement marks are no less than there are, and just as *)
(* many between an adaptation and its partition; ghost layer and mesh are those of    *)
(* the forest as it is: for any number of trees and processes, any marks, partitions  *)
(* and parameters.                                                                    *)
THEOREM WrapStays ==
  ASSUME Wr!WrapAssumption
  PROVE  Wr!Spec => []Wr!WrapCurrent
<1>1. Wr!Init => WrapInv
  BY WrapInits
<1>2. WrapInv /\ [Wr!Next]_(Wr!vars) => WrapInv'
  <2> SUFFICES ASSUME WrapInv, [Wr!Next]_(Wr!vars) PROVE WrapInv'
    OBVIOUS
  <2>1. CASE \E p \in Wr!Procs : \E i \in DOMAIN forest[p] : Wr!MarkRefine(p, i) \/ Wr!MarkCoarsen(p, i)
    BY <2>1, MarkKeeps
  <2>2. CASE Wr!Adapt
    BY <2>2, AdaptKeeps
  <2>3. CASE Wr!Partition
    BY <2>3, PartitionKeeps
  <2>4. CASE Wr!Complete
    BY <2>4, CompleteKeeps
  <2>5. CASE \E hollow \in BOOLEAN : Wr!SetHollow(hollow)
    BY <2>5, HollowKeeps
  <2>6. CASE \E s \in Params : Wr!SetCoarsenDelay(s.coarsen_delay, s.coarsen_affect)
    BY <2>6, DelayKeeps
  <2>7. CASE UNCHANGED Wr!vars
    <3>1. /\ params' = params /\ forest' = forest /\ flags' = flags /\ num_refine_flags' = num_refine_flags
          /\ layer' = layer /\ layer_aux' = layer_aux /\ match_aux' = match_aux
      BY <2>7 DEF Wr!vars
    <3>2. Wr!InUse' = Wr!InUse /\ Wr!Leaves(forest)' = Wr!Leaves(forest) /\ Wr!Null' = Wr!Null
      BY <3>1 DEF Wr!InUse, Wr!Leaves, Wr!Null
    <3>3. /\ FlagsFit(forest, flags, num_refine_flags)' <=> FlagsFit(forest, flags, num_refine_flags)
          /\ CountsAll(flags, num_refine_flags)' <=> CountsAll(flags, num_refine_flags)
          /\ IsForest(forest)' <=> IsForest(forest)
      BY <3>1
    <3> QED
      BY <3>1, <3>2, <3>3 DEF WrapInv
  <2> QED
    BY <2>1, <2>2, <2>3, <2>4, <2>5, <2>6, <2>7 DEF Wr!Next
<1>3. WrapInv => Wr!WrapCurrent
  BY WrapInvSays
<1> QED
  BY <1>1, <1>2, <1>3, PTL DEF Wr!Spec
==============================================================================
