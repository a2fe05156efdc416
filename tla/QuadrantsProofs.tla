--------------------------- MODULE QuadrantsProofs ---------------------------
(***************************************************************************)
(* Lemmas on the quadrant algebra, used by the proofs about the algorithms *)
(* that run on it.                                                         *)
(***************************************************************************)
EXTENDS Quadrants, SequenceTheorems, FiniteSetTheorems, WellFoundedInduction, TLAPS

\* A quadrant is the sequence of the child numbers on its path from the root,
\* of at most QMAXLEVEL levels (the level and coordinates of p4est_quadrant_t).
LEMMA QuadrantDef ==
  ASSUME NEW q
  PROVE  q \in Quadrants <=> q \in Seq(ChildIds) /\ Len(q) <= QMAXLEVEL
<1>1. ASSUME q \in Quadrants
      PROVE  q \in Seq(ChildIds) /\ Len(q) <= QMAXLEVEL
  <2>1. PICK l \in 0 .. QMAXLEVEL : q \in [1 .. l -> ChildIds]
    BY <1>1 DEF Quadrants
  <2>2. l \in Nat
    BY <2>1, LevelAssumption
  <2>3. q \in Seq(ChildIds)
    BY <2>1, <2>2
  <2>4. Len(q) = l
    BY <2>1, <2>2, <2>3
  <2>. QED BY <2>1, <2>3, <2>4, LevelAssumption
<1>2. ASSUME q \in Seq(ChildIds), Len(q) <= QMAXLEVEL
      PROVE  q \in Quadrants
  <2>1. q \in [1 .. Len(q) -> ChildIds] /\ Len(q) \in Nat
    BY <1>2
  <2>2. Len(q) \in 0 .. QMAXLEVEL
    BY <1>2, <2>1, LevelAssumption
  <2>. QED BY <2>1, <2>2 DEF Quadrants
<1>. QED BY <1>1, <1>2

\* The level of a quadrant is a number from 0 to QMAXLEVEL.
LEMMA LevelType ==
  ASSUME NEW q \in Quadrants
  PROVE  Level(q) \in 0 .. QMAXLEVEL
BY QuadrantDef, LevelAssumption DEF Level

\* p4est_quadrant_child yields a quadrant one level deeper, as long as the
\* deepest level is not exceeded.
LEMMA ChildType ==
  ASSUME NEW q \in Quadrants, NEW i \in ChildIds, Level(q) < QMAXLEVEL
  PROVE  /\ Child(q, i) \in Quadrants
         /\ Level(Child(q, i)) = Level(q) + 1
<1>1. q \in Seq(ChildIds)
  BY QuadrantDef
<1>2. Append(q, i) \in Seq(ChildIds) /\ Len(Append(q, i)) = Len(q) + 1
  BY <1>1
<1>3. Len(q) + 1 <= QMAXLEVEL
  BY LevelType, LevelAssumption DEF Level
<1>. QED BY <1>2, <1>3, QuadrantDef DEF Child, Level

\* A set with 0 and with the successor of each of its members is all of Nat.
LEMMA NatSetInduction ==
  ASSUME NEW S, 0 \in S, \A n \in Nat : n \in S => n + 1 \in S
  PROVE  \A n \in Nat : n \in S
<1>. DEFINE T == { n \in Nat : n \notin S }
<1>1. SUFFICES ASSUME T # {} PROVE FALSE
  OBVIOUS
<1>2. PICK x \in T : \A y \in T : ~ (<< y, x >> \in OpToRel(<, Nat))
  <2>1. T \subseteq Nat
    OBVIOUS
  <2>. HIDE DEF T
  <2>. QED BY <1>1, <2>1, NatLessThanWellFounded, WFMin
<1>3. x \in Nat /\ x # 0 /\ x - 1 \in Nat /\ x - 1 < x /\ (x - 1) + 1 = x
  OBVIOUS
<1>4. x - 1 \notin T
  BY <1>2, <1>3 DEF OpToRel
<1>. QED BY <1>3, <1>4

\* A non-empty set of levels has a greatest element.
LEMMA GreatestLevel ==
  ASSUME NEW T \in SUBSET (0 .. QMAXLEVEL), T # {}
  PROVE  \E x \in T : \A y \in T : y <= x
<1>. DEFINE U == { n \in Nat : n <= QMAXLEVEL /\ QMAXLEVEL - n \in T }
<1>1. U \subseteq Nat /\ U # {}
  <2>1. PICK t \in T : t \in 0 .. QMAXLEVEL
    OBVIOUS
  <2>2. QMAXLEVEL - t \in Nat /\ QMAXLEVEL - (QMAXLEVEL - t) = t /\ QMAXLEVEL - t <= QMAXLEVEL
    BY <2>1, LevelAssumption
  <2>3. QMAXLEVEL - t \in U
    BY <2>1, <2>2
  <2>. QED BY <2>3
<1>2. PICK x \in U : \A y \in U : ~ (<< y, x >> \in OpToRel(<, Nat))
  <2>. HIDE DEF U
  <2>. QED BY <1>1, NatLessThanWellFounded, WFMin
<1>3. \A y \in U : ~ (y < x)
  BY <1>2, <1>1 DEF OpToRel
<1>4. QMAXLEVEL - x \in T
  BY <1>2
<1>5. ASSUME NEW y \in T
      PROVE  y <= QMAXLEVEL - x
  <2>1. y \in 0 .. QMAXLEVEL
    OBVIOUS
  <2>2. QMAXLEVEL - y \in Nat /\ QMAXLEVEL - (QMAXLEVEL - y) = y /\ QMAXLEVEL - y <= QMAXLEVEL
    BY <2>1, LevelAssumption
  <2>3. QMAXLEVEL - y \in U
    BY <2>2
  <2>4. ~ (QMAXLEVEL - y < x)
    BY <2>3, <1>3
  <2>5. x \in Nat
    BY <1>2
  <2>. QED BY <2>1, <2>4, <2>5, LevelAssumption
<1>. QED BY <1>4, <1>5

\* The maximum over an array of quadrants is a level.
LEMMA HighestLevelType ==
  ASSUME NEW s \in Seq(Quadrants), s # << >>
  PROVE  HighestLevel(s) \in 0 .. QMAXLEVEL
<1>1. Levels(s) \in SUBSET (0 .. QMAXLEVEL)
  BY LevelType DEF Levels
<1>2. Levels(s) # {}
  <2>1. 1 \in 1 .. Len(s)
    OBVIOUS
  <2>. QED BY <2>1 DEF Levels
<1>3. \E x \in Levels(s) : \A y \in Levels(s) : y <= x
  BY <1>1, <1>2, GreatestLevel
<1>. QED BY <1>1, <1>3 DEF HighestLevel

(***************************************************************************)
(* Facts about sequences: the arrays and lists of the algorithms.          *)
(***************************************************************************)
\* A sequence that agrees with a and then with b is their concatenation.
LEMMA ConcatEqual ==
  ASSUME NEW S, NEW l \in Seq(S), NEW a \in Seq(S), NEW b \in Seq(S),
         Len(l) = Len(a) + Len(b),
         \A i \in 1 .. Len(a) : l[i] = a[i],
         \A i \in 1 .. Len(b) : l[Len(a) + i] = b[i]
  PROVE  l = a \o b
<1>1. Len(a) \in Nat /\ Len(b) \in Nat
  OBVIOUS
<1>2. a \o b \in Seq(S) /\ Len(a \o b) = Len(a) + Len(b)
  OBVIOUS
<1>3. ASSUME NEW i \in 1 .. Len(l)
      PROVE  l[i] = (a \o b)[i]
  <2>1. CASE i <= Len(a)
    <3>1. i \in 1 .. Len(a)
      BY <1>1, <2>1
    <3>2. (a \o b)[i] = a[i]
      BY <3>1
    <3>. QED BY <3>1, <3>2
  <2>2. CASE ~ (i <= Len(a))
    <3>1. i - Len(a) \in 1 .. Len(b) /\ Len(a) + (i - Len(a)) = i
      BY <1>1, <2>2
    <3>2. (a \o b)[i] = b[i - Len(a)]
      BY <1>1, <2>2
    <3>. QED BY <3>1, <3>2
  <2>. QED BY <2>1, <2>2
<1>. QED BY <1>2, <1>3, SeqEqual

\* Head and tail of a concatenation come from its first part.
LEMMA HeadTailConcat ==
  ASSUME NEW S, NEW s \in Seq(S), NEW t \in Seq(S), s # << >>
  PROVE  /\ s \o t \in Seq(S) /\ s \o t # << >>
         /\ Head(s \o t) = Head(s) /\ Tail(s \o t) = Tail(s) \o t
<1>. DEFINE u == s \o t
            v == Tail(s)
<1>1. /\ u \in Seq(S) /\ Len(u) = Len(s) + Len(t) /\ Len(s) \in Nat \ {0} /\ Len(t) \in Nat
      /\ \A i \in 1 .. Len(s) : u[i] = s[i]
      /\ \A i \in 1 .. Len(t) : u[Len(s) + i] = t[i]
  OBVIOUS
<1>2. v \in Seq(S) /\ Len(v) = Len(s) - 1 /\ \A i \in 1 .. Len(s) - 1 : v[i] = s[i + 1]
  OBVIOUS
<1>3. u # << >> /\ Head(u) = Head(s)
  <2>1. 1 \in 1 .. Len(s) /\ Len(u) # 0
    BY <1>1
  <2>. HIDE DEF u
  <2>. QED BY <1>1, <2>1
<1>4. /\ Tail(u) \in Seq(S) /\ Len(Tail(u)) = Len(u) - 1
      /\ \A i \in 1 .. Len(u) - 1 : Tail(u)[i] = u[i + 1]
  <2>. HIDE DEF u
  <2>. QED BY <1>1, <1>3
<1>5. Tail(u) = v \o t
  <2>1. Len(Tail(u)) = Len(v) + Len(t)
    BY <1>1, <1>2, <1>4
  <2>2. ASSUME NEW i \in 1 .. Len(v) PROVE Tail(u)[i] = v[i]
    <3>1. i \in 1 .. Len(u) - 1 /\ i + 1 \in 1 .. Len(s) /\ i \in 1 .. Len(s) - 1
      BY <1>1, <1>2
    <3>. HIDE DEF u, v
    <3>. QED BY <3>1, <1>1, <1>2, <1>4
  <2>3. ASSUME NEW i \in 1 .. Len(t) PROVE Tail(u)[Len(v) + i] = t[i]
    <3>1. Len(v) + i \in 1 .. Len(u) - 1 /\ Len(v) + i + 1 = Len(s) + i
      BY <1>1, <1>2
    <3>. HIDE DEF u, v
    <3>. QED BY <3>1, <1>1, <1>4
  <2>. HIDE DEF u, v
  <2>. QED BY <1>1, <1>2, <1>4, <2>1, <2>2, <2>3, ConcatEqual
<1>. QED BY <1>1, <1>3, <1>5

\* Overwriting or adding slots at or after position n keeps the first n.
LEMMA PrefixSame ==
  ASSUME NEW S, NEW s \in Seq(S), NEW t \in Seq(S), NEW n \in Nat,
         n <= Len(s), n <= Len(t), \A i \in 1 .. n : s[i] = t[i]
  PROVE  SubSeq(s, 1, n) = SubSeq(t, 1, n)
<1>1. /\ SubSeq(s, 1, n) \in Seq(S) /\ Len(SubSeq(s, 1, n)) = n
      /\ \A i \in 1 .. n : SubSeq(s, 1, n)[i] = s[i]
  BY SubSeqProperties
<1>2. /\ SubSeq(t, 1, n) \in Seq(S) /\ Len(SubSeq(t, 1, n)) = n
      /\ \A i \in 1 .. n : SubSeq(t, 1, n)[i] = t[i]
  BY SubSeqProperties
<1>. QED BY <1>1, <1>2, SeqEqual

\* What is left of a sequence after its first m elements.
LEMMA SuffixElements ==
  ASSUME NEW S, NEW s \in Seq(S), NEW m \in Nat, m <= Len(s)
  PROVE  LET b == SubSeq(s, m + 1, Len(s))
         IN  /\ b \in Seq(S) /\ Len(b) = Len(s) - m
             /\ \A j \in 1 .. Len(s) - m : b[j] = s[m + j]
<1>. DEFINE n == Len(s)
            b == SubSeq(s, m + 1, n)
<1>1. n \in Nat /\ m + 1 \in 1 .. n + 1 /\ n - (m + 1) + 1 = n - m
  OBVIOUS
<1>2. b = [j \in 1 .. n - (m + 1) + 1 |-> s[(m + 1) + j - 1]]
  BY <1>1
<1>3. \A j \in 1 .. n - m : m + j \in 1 .. n /\ (m + 1) + j - 1 = m + j /\ s[m + j] \in S
  BY <1>1
<1>4. b = [j \in 1 .. n - m |-> s[m + j]]
  BY <1>1, <1>2, <1>3
<1>. HIDE DEF b, n
<1>5. b \in Seq(S) /\ Len(b) = n - m /\ \A j \in 1 .. n - m : b[j] = s[m + j]
  <2>1. n - m \in Nat
    BY <1>1 DEF n
  <2>. QED BY <2>1, <1>3, <1>4
<1>. QED BY <1>5 DEF b, n

\* A prefix one longer is the prefix with one more element.
LEMMA PrefixAppend ==
  ASSUME NEW S, NEW s \in Seq(S), NEW n \in Nat, n < Len(s)
  PROVE  SubSeq(s, 1, n + 1) = Append(SubSeq(s, 1, n), s[n + 1])
<1>. DEFINE p == SubSeq(s, 1, n)
            r == SubSeq(s, 1, n + 1)
<1>1. n + 1 \in 1 .. Len(s) /\ s[n + 1] \in S
  OBVIOUS
<1>2. p \in Seq(S) /\ Len(p) = n /\ \A i \in 1 .. n : p[i] = s[i]
  BY SubSeqProperties
<1>3. r \in Seq(S) /\ Len(r) = n + 1 /\ \A i \in 1 .. n + 1 : r[i] = s[i]
  BY <1>1, SubSeqProperties
<1>. HIDE DEF p, r
<1>. DEFINE e == s[n + 1]
<1>4. /\ Append(p, e) \in Seq(S) /\ Len(Append(p, e)) = n + 1
      /\ \A i \in 1 .. n : Append(p, e)[i] = p[i]
      /\ Append(p, e)[n + 1] = e
  BY <1>1, <1>2
<1>5. \A i \in 1 .. n + 1 : r[i] = Append(p, e)[i]
  BY <1>2, <1>3, <1>4
<1>6. r = Append(p, e)
  BY <1>3, <1>4, <1>5, SeqEqual
<1>. QED BY <1>6 DEF p, r

(***************************************************************************)
(* Neighbours in a hole-free array.                                        *)
(***************************************************************************)
\* q and r part on level k: there r is one child further, below that q is
\* always the last child and r always the first.
PartOn(q, r, k) ==
  /\ k <= Len(q) /\ k <= Len(r)
  /\ \A j \in 1 .. k - 1 : q[j] = r[j]
  /\ r[k] = q[k] + 1
  /\ \A j \in k + 1 .. Len(q) : q[j] = CHILDREN - 1
  /\ \A j \in k + 1 .. Len(r) : r[j] = 0

\* What a quadrant is, element by element.
LEMMA QuadrantElements ==
  ASSUME NEW q \in Quadrants
  PROVE  /\ q \in Seq(Int) /\ Len(q) \in Nat /\ Len(q) <= QMAXLEVEL
         /\ \A j \in 1 .. Len(q) : q[j] \in Int /\ 0 <= q[j] /\ q[j] <= CHILDREN - 1
<1>1. q \in Seq(ChildIds) /\ Len(q) <= QMAXLEVEL
  BY QuadrantDef
<1>2. \A j \in 1 .. Len(q) : q[j] \in ChildIds
  BY <1>1
<1>3. \A j \in 1 .. Len(q) : q[j] \in Int /\ 0 <= q[j] /\ q[j] <= CHILDREN - 1
  BY <1>2, ChildrenAssumption DEF ChildIds
<1>4. Len(q) \in Nat /\ q = [j \in 1 .. Len(q) |-> q[j]]
  BY <1>1
<1>5. q \in Seq(Int)
  BY <1>3, <1>4
<1>. QED BY <1>1, <1>3, <1>4, <1>5

\* Two paths have the same first n steps exactly if their ancestors on level n
\* are the same.
LEMMA SameAncestor ==
  ASSUME NEW s \in Seq(Int), NEW t \in Seq(Int), NEW n \in Nat, n <= Len(s), n <= Len(t)
  PROVE  Ancestor(s, n) = Ancestor(t, n) <=> \A i \in 1 .. n : s[i] = t[i]
<1>1. /\ SubSeq(s, 1, n) \in Seq(Int) /\ Len(SubSeq(s, 1, n)) = n
      /\ \A i \in 1 .. n : SubSeq(s, 1, n)[i] = s[i]
  BY SubSeqProperties
<1>2. /\ SubSeq(t, 1, n) \in Seq(Int) /\ Len(SubSeq(t, 1, n)) = n
      /\ \A i \in 1 .. n : SubSeq(t, 1, n)[i] = t[i]
  BY SubSeqProperties
<1>3. (\A i \in 1 .. n : s[i] = t[i]) => SubSeq(s, 1, n) = SubSeq(t, 1, n)
  BY PrefixSame
<1>4. SubSeq(s, 1, n) = SubSeq(t, 1, n) => \A i \in 1 .. n : s[i] = t[i]
  BY <1>1, <1>2
<1>. QED BY <1>3, <1>4 DEF Ancestor

\* The first and the last descendant on the deepest level, step by step.
LEMMA DescendantElements ==
  ASSUME NEW q \in Quadrants, NEW v \in Int
  PROVE  LET d == q \o [i \in 1 .. QMAXLEVEL - Level(q) |-> v]
         IN  /\ d \in Seq(Int) /\ Len(d) = QMAXLEVEL
             /\ \A j \in 1 .. QMAXLEVEL : d[j] = IF j <= Len(q) THEN q[j] ELSE v
<1>. DEFINE m == QMAXLEVEL - Level(q)
            e == [i \in 1 .. m |-> v]
            d == q \o e
<1>1. q \in Seq(Int) /\ Len(q) \in Nat /\ m \in Nat /\ Len(q) + m = QMAXLEVEL
  BY QuadrantElements, LevelAssumption DEF Level
<1>. HIDE DEF m
<1>2. e \in Seq(Int) /\ Len(e) = m /\ \A j \in 1 .. m : e[j] = v
  BY <1>1
<1>. HIDE DEF e
<1>3. /\ d \in Seq(Int) /\ Len(d) = Len(q) + Len(e)
      /\ \A j \in 1 .. Len(d) : d[j] = IF j <= Len(q) THEN q[j] ELSE e[j - Len(q)]
  BY <1>1, <1>2
<1>. HIDE DEF d
<1>4. ASSUME NEW j \in 1 .. QMAXLEVEL
      PROVE  d[j] = IF j <= Len(q) THEN q[j] ELSE v
  <2>1. j \in 1 .. Len(d)
    BY <1>1, <1>2, <1>3
  <2>2. CASE j <= Len(q)
    BY <2>1, <2>2, <1>3
  <2>3. CASE ~ (j <= Len(q))
    <3>1. j - Len(q) \in 1 .. m
      BY <1>1, <2>3
    <3>. QED BY <2>1, <2>3, <3>1, <1>2, <1>3
  <2>. QED BY <2>2, <2>3
<1>5. Len(d) = QMAXLEVEL
  BY <1>1, <1>2, <1>3
<1>. QED BY <1>3, <1>4, <1>5 DEF d, e, m

\* The last descendant of q is directly followed by the first descendant of r:
\* read on the paths of q and r themselves.
LEMMA AdjacentParts ==
  ASSUME NEW q \in Quadrants, NEW r \in Quadrants
  PROVE  Adjacent(q, r) <=> \E k \in 1 .. QMAXLEVEL : PartOn(q, r, k)
<1>. DEFINE a == LastDescendant(q, QMAXLEVEL)
            b == FirstDescendant(r, QMAXLEVEL)
<1>0. CHILDREN \in Nat /\ CHILDREN > 1 /\ QMAXLEVEL \in Nat
  BY ChildrenAssumption, LevelAssumption
<1>1. /\ a \in Seq(Int) /\ Len(a) = QMAXLEVEL
      /\ \A j \in 1 .. QMAXLEVEL : a[j] = IF j <= Len(q) THEN q[j] ELSE CHILDREN - 1
  <2>. DEFINE v == CHILDREN - 1
  <2>1. v \in Int
    BY <1>0
  <2>. HIDE DEF v
  <2>2. a = q \o [i \in 1 .. QMAXLEVEL - Level(q) |-> v]
    BY DEF LastDescendant, v
  <2>. HIDE DEF a
  <2>3. /\ a \in Seq(Int) /\ Len(a) = QMAXLEVEL
        /\ \A j \in 1 .. QMAXLEVEL : a[j] = IF j <= Len(q) THEN q[j] ELSE v
    BY <2>1, <2>2, DescendantElements
  <2>. QED BY <2>3 DEF v
<1>2. /\ b \in Seq(Int) /\ Len(b) = QMAXLEVEL
      /\ \A j \in 1 .. QMAXLEVEL : b[j] = IF j <= Len(r) THEN r[j] ELSE 0
  <2>. DEFINE v == 0
  <2>1. v \in Int
    OBVIOUS
  <2>. HIDE DEF v
  <2>2. b = r \o [i \in 1 .. QMAXLEVEL - Level(r) |-> v]
    BY DEF FirstDescendant, v
  <2>. HIDE DEF b
  <2>3. /\ b \in Seq(Int) /\ Len(b) = QMAXLEVEL
        /\ \A j \in 1 .. QMAXLEVEL : b[j] = IF j <= Len(r) THEN r[j] ELSE v
    BY <2>1, <2>2, DescendantElements
  <2>. QED BY <2>3 DEF v
<1>. HIDE DEF a, b
<1>3. /\ Len(q) \in Nat /\ Len(q) <= QMAXLEVEL /\ q \in Seq(Int)
      /\ \A j \in 1 .. Len(q) : q[j] \in Int /\ 0 <= q[j] /\ q[j] <= CHILDREN - 1
  BY QuadrantElements
<1>4. /\ Len(r) \in Nat /\ Len(r) <= QMAXLEVEL /\ r \in Seq(Int)
      /\ \A j \in 1 .. Len(r) : r[j] \in Int /\ 0 <= r[j] /\ r[j] <= CHILDREN - 1
  BY QuadrantElements
<1>5. ASSUME Adjacent(q, r)
      PROVE  \E k \in 1 .. QMAXLEVEL : PartOn(q, r, k)
  <2>1. PICK k \in 1 .. QMAXLEVEL :
              /\ Ancestor(a, k - 1) = Ancestor(b, k - 1)
              /\ b[k] = a[k] + 1
              /\ \A j \in k + 1 .. QMAXLEVEL : a[j] = CHILDREN - 1 /\ b[j] = 0
    BY <1>5 DEF Adjacent, ConsecutiveOnLevel, a, b
  <2>2. \A j \in 1 .. k - 1 : a[j] = b[j]
    <3>1. k - 1 \in Nat /\ k - 1 <= Len(a) /\ k - 1 <= Len(b)
      BY <1>0, <1>1, <1>2
    <3>. QED BY <2>1, <3>1, <1>1, <1>2, SameAncestor
  <2>3. k <= Len(q) /\ k <= Len(r)
    <3>1. ASSUME ~ (k <= Len(r)) PROVE FALSE
      <4>1. b[k] = 0
        BY <3>1, <1>2
      <4>2. a[k] \in Int /\ a[k] >= 0
        <5>1. CASE k <= Len(q)
          <6>1. a[k] = q[k]
            BY <5>1, <1>1
          <6>2. q[k] \in Int /\ 0 <= q[k]
            BY <5>1, <1>3
          <6>. QED BY <6>1, <6>2
        <5>2. CASE ~ (k <= Len(q))
          BY <5>2, <1>0, <1>1
        <5>. QED BY <5>1, <5>2
      <4>. QED BY <4>1, <4>2, <2>1
    <3>2. ASSUME k <= Len(r), ~ (k <= Len(q)) PROVE FALSE
      <4>1. a[k] = CHILDREN - 1 /\ b[k] = r[k]
        BY <3>2, <1>1, <1>2
      <4>2. r[k] \in Int /\ r[k] <= CHILDREN - 1
        BY <3>2, <1>0, <1>4
      <4>3. r[k] = CHILDREN - 1 + 1
        BY <4>1, <2>1
      <4>. QED BY <4>2, <4>3, <1>0
    <3>. QED BY <3>1, <3>2
  <2>4. r[k] = q[k] + 1
    BY <2>1, <2>3, <1>1, <1>2
  <2>5. ASSUME NEW j \in 1 .. k - 1 PROVE q[j] = r[j]
    <3>1. j \in 1 .. QMAXLEVEL /\ j <= Len(q) /\ j <= Len(r)
      BY <2>3, <1>0, <1>3, <1>4
    <3>2. a[j] = q[j] /\ b[j] = r[j]
      BY <3>1, <1>1, <1>2
    <3>. QED BY <3>2, <2>2
  <2>6. \A j \in k + 1 .. Len(q) : q[j] = CHILDREN - 1
    BY <2>1, <1>0, <1>1, <1>3
  <2>7. \A j \in k + 1 .. Len(r) : r[j] = 0
    BY <2>1, <1>0, <1>2, <1>4
  <2>. QED BY <2>3, <2>4, <2>5, <2>6, <2>7 DEF PartOn
<1>6. ASSUME NEW k \in 1 .. QMAXLEVEL, PartOn(q, r, k)
      PROVE  Adjacent(q, r)
  <2>0. /\ k <= Len(q) /\ k <= Len(r) /\ r[k] = q[k] + 1
        /\ \A j \in 1 .. k - 1 : q[j] = r[j]
        /\ \A j \in k + 1 .. Len(q) : q[j] = CHILDREN - 1
        /\ \A j \in k + 1 .. Len(r) : r[j] = 0
    BY <1>6 DEF PartOn
  <2>1. k - 1 \in Nat /\ k - 1 <= Len(q) /\ k - 1 <= Len(r) /\ k \in 1 .. Len(q)
    BY <2>0, <1>3, <1>4
  <2>2. Before(q, r)
    <3>1. Ancestor(q, k - 1) = Ancestor(r, k - 1)
      BY <2>0, <2>1, <1>3, <1>4, SameAncestor
    <3>2. q[k] < r[k]
      BY <2>0, <2>1, <1>3
    <3>. QED BY <2>0, <2>1, <3>1, <3>2 DEF Before, Level
  <2>3. ~ IsAncestor(q, r)
    <3>1. SUFFICES ASSUME Len(q) < Len(r), SubSeq(r, 1, Len(q)) = q
                   PROVE  FALSE
      BY DEF IsAncestor, Ancestor, Level
    <3>2. SubSeq(r, 1, Len(q))[k] = r[k]
      BY <3>1, <2>1, <1>3, <1>4, SubSeqProperties
    <3>3. q[k] \in Int /\ q[k] = q[k] + 1
      BY <3>1, <3>2, <2>0, <2>1, <1>3
    <3>. QED BY <3>3
  <2>4. ConsecutiveOnLevel(a, b, QMAXLEVEL)
    <3>1. ASSUME NEW j \in 1 .. k - 1 PROVE a[j] = b[j]
      <4>1. j \in 1 .. QMAXLEVEL /\ j <= Len(q) /\ j <= Len(r)
        BY <2>0, <1>0, <1>3, <1>4
      <4>. QED BY <4>1, <2>0, <1>1, <1>2
    <3>2. Ancestor(a, k - 1) = Ancestor(b, k - 1)
      <4>. DEFINE n == k - 1
      <4>1. n \in Nat /\ n <= Len(a) /\ n <= Len(b) /\ \A j \in 1 .. n : a[j] = b[j]
        BY <3>1, <1>0, <1>1, <1>2
      <4>2. a \in Seq(Int) /\ b \in Seq(Int)
        BY <1>1, <1>2
      <4>. HIDE DEF n
      <4>3. Ancestor(a, n) = Ancestor(b, n)
        BY <4>1, <4>2, SameAncestor
      <4>. QED BY <4>3 DEF n
    <3>3. b[k] = a[k] + 1
      BY <2>0, <1>1, <1>2
    <3>4. ASSUME NEW j \in k + 1 .. QMAXLEVEL PROVE a[j] = CHILDREN - 1
      <4>1. j \in 1 .. QMAXLEVEL /\ (j <= Len(q) => j \in k + 1 .. Len(q))
        BY <1>0, <1>3
      <4>. QED BY <4>1, <2>0, <1>1
    <3>5. ASSUME NEW j \in k + 1 .. QMAXLEVEL PROVE b[j] = 0
      <4>1. j \in 1 .. QMAXLEVEL /\ (j <= Len(r) => j \in k + 1 .. Len(r))
        BY <1>0, <1>4
      <4>. QED BY <4>1, <2>0, <1>2
    <3>. QED BY <3>2, <3>3, <3>4, <3>5 DEF ConsecutiveOnLevel
  <2>. QED BY <2>2, <2>3, <2>4 DEF Adjacent, Precedes, a, b
<1>. QED BY <1>5, <1>6

(***************************************************************************)
(* A hole-free array is linear and complete.                               *)
(***************************************************************************)
\* q and r part on level k, where q has the lower number.
PartBelow(q, r, k) ==
  /\ k <= Len(q) /\ k <= Len(r)
  /\ \A j \in 1 .. k - 1 : q[j] = r[j]
  /\ q[k] < r[k]

Parted(q, r) == \E k \in 1 .. QMAXLEVEL : PartBelow(q, r, k)

\* Of three paths that part one after the other the first and last part, too.
LEMMA PartedTransitive ==
  ASSUME NEW q \in Quadrants, NEW r \in Quadrants, NEW t \in Quadrants,
         Parted(q, r), Parted(r, t)
  PROVE  Parted(q, t)
<1>1. PICK k \in 1 .. QMAXLEVEL : PartBelow(q, r, k)
  BY DEF Parted
<1>2. PICK l \in 1 .. QMAXLEVEL : PartBelow(r, t, l)
  BY DEF Parted
<1>3. /\ QMAXLEVEL \in Nat /\ Len(q) \in Nat /\ Len(r) \in Nat /\ Len(t) \in Nat
      /\ \A j \in 1 .. Len(q) : q[j] \in Int
      /\ \A j \in 1 .. Len(r) : r[j] \in Int
      /\ \A j \in 1 .. Len(t) : t[j] \in Int
  BY QuadrantElements, LevelAssumption
<1>4. CASE k <= l
  <2>1. PartBelow(q, t, k)
    <3>1. k <= Len(q) /\ k <= Len(t) /\ \A j \in 1 .. k - 1 : q[j] = t[j]
      BY <1>1, <1>2, <1>3, <1>4 DEF PartBelow
    <3>2. q[k] < r[k] /\ r[k] <= t[k]
      BY <1>1, <1>2, <1>3, <1>4 DEF PartBelow
    <3>3. q[k] \in Int /\ r[k] \in Int /\ t[k] \in Int
      BY <1>1, <1>3, <3>1 DEF PartBelow
    <3>. QED BY <3>1, <3>2, <3>3 DEF PartBelow
  <2>. QED BY <2>1 DEF Parted
<1>5. CASE l < k
  <2>1. PartBelow(q, t, l)
    <3>1. l <= Len(q) /\ l <= Len(t) /\ \A j \in 1 .. l - 1 : q[j] = t[j]
      BY <1>1, <1>2, <1>3, <1>5 DEF PartBelow
    <3>2. q[l] = r[l] /\ r[l] < t[l]
      BY <1>1, <1>2, <1>3, <1>5 DEF PartBelow
    <3>. QED BY <3>1, <3>2 DEF PartBelow
  <2>. QED BY <2>1 DEF Parted
<1>. QED BY <1>4, <1>5

\* Paths that part are in order, and neither quadrant contains the other.
LEMMA PartedApart ==
  ASSUME NEW q \in Quadrants, NEW r \in Quadrants, Parted(q, r)
  PROVE  Precedes(q, r) /\ ~ IsAncestor(q, r) /\ ~ IsAncestor(r, q) /\ q # r
<1>1. PICK k \in 1 .. QMAXLEVEL : PartBelow(q, r, k)
  BY DEF Parted
<1>2. /\ QMAXLEVEL \in Nat /\ q \in Seq(Int) /\ r \in Seq(Int)
      /\ Len(q) \in Nat /\ Len(r) \in Nat /\ k \in 1 .. Len(q) /\ k \in 1 .. Len(r)
      /\ q[k] \in Int /\ r[k] \in Int /\ q[k] < r[k]
  BY <1>1, QuadrantElements, LevelAssumption DEF PartBelow
<1>3. q # r
  BY <1>2
<1>4. ~ IsAncestor(q, r)
  <2>1. SUFFICES ASSUME Len(q) < Len(r), Ancestor(r, Len(q)) = q PROVE FALSE
    BY DEF IsAncestor, Level
  <2>2. Ancestor(r, Len(q))[k] = r[k]
    BY <1>2, <2>1, SubSeqProperties DEF Ancestor
  <2>. QED BY <1>2, <2>1, <2>2
<1>5. ~ IsAncestor(r, q)
  <2>1. SUFFICES ASSUME Len(r) < Len(q), Ancestor(q, Len(r)) = r PROVE FALSE
    BY DEF IsAncestor, Level
  <2>2. Ancestor(q, Len(r))[k] = q[k]
    BY <1>2, <2>1, SubSeqProperties DEF Ancestor
  <2>. QED BY <1>2, <2>1, <2>2
<1>6. Before(q, r)
  <2>1. k - 1 \in Nat /\ k - 1 <= Len(q) /\ k - 1 <= Len(r)
    BY <1>2
  <2>2. Ancestor(q, k - 1) = Ancestor(r, k - 1)
    BY <1>1, <1>2, <2>1, SameAncestor DEF PartBelow
  <2>. QED BY <1>2, <2>2 DEF Before, Level
<1>. QED BY <1>3, <1>4, <1>5, <1>6 DEF Precedes

AllParted(s) == \A i, j \in 1 .. Len(s) : i < j => Parted(s[i], s[j])

\* Where neighbours part, any two quadrants do.
LEMMA NeighboursParted ==
  ASSUME NEW s \in Seq(Quadrants), \A i \in 1 .. Len(s) - 1 : Parted(s[i], s[i + 1])
  PROVE  AllParted(s)
<1>. DEFINE S == { n \in Nat : \A i \in 1 .. Len(s) :
                                 i + n + 1 <= Len(s) => Parted(s[i], s[i + n + 1]) }
<1>0. Len(s) \in Nat /\ \A i \in 1 .. Len(s) : s[i] \in Quadrants
  OBVIOUS
<1>1. \A i \in 1 .. Len(s) : i + 1 <= Len(s) => Parted(s[i], s[i + 1])
  BY <1>0
<1>2. 0 \in S
  BY <1>0, <1>1
<1>3. ASSUME NEW n \in Nat, n \in S PROVE n + 1 \in S
  <2>1. SUFFICES ASSUME NEW i \in 1 .. Len(s), i + (n + 1) + 1 <= Len(s)
                 PROVE  Parted(s[i], s[i + (n + 1) + 1])
    OBVIOUS
  <2>. DEFINE m == i + n + 1
  <2>2. m \in 1 .. Len(s) /\ m + 1 \in 1 .. Len(s) /\ m + 1 = i + (n + 1) + 1
    BY <1>0, <2>1
  <2>3. Parted(s[i], s[m])
    BY <1>3, <2>2
  <2>. HIDE DEF m, S
  <2>4. Parted(s[m], s[m + 1])
    BY <1>0, <1>1, <2>2
  <2>5. Parted(s[i], s[m + 1])
    BY <1>0, <2>2, <2>3, <2>4, PartedTransitive
  <2>. QED BY <2>2, <2>5
<1>. HIDE DEF S
<1>4. \A n \in Nat : n \in S
  BY <1>2, <1>3, NatSetInduction, Zenon
<1>5. ASSUME NEW i \in 1 .. Len(s), NEW j \in 1 .. Len(s), i < j PROVE Parted(s[i], s[j])
  <2>1. j - i - 1 \in Nat /\ i + (j - i - 1) + 1 = j
    BY <1>5
  <2>2. j - i - 1 \in S
    BY <2>1, <1>4
  <2>. QED BY <2>1, <2>2 DEF S
<1>. QED BY <1>5 DEF AllParted

\* In a hole-free array any two quadrants part.
LEMMA GaplessParted ==
  ASSUME NEW s \in Seq(Quadrants), Gapless(s)
  PROVE  AllParted(s)
<1>1. ASSUME NEW i \in 1 .. Len(s) - 1 PROVE Parted(s[i], s[i + 1])
  <2>1. s[i] \in Quadrants /\ s[i + 1] \in Quadrants
    OBVIOUS
  <2>2. PICK k \in 1 .. QMAXLEVEL : PartOn(s[i], s[i + 1], k)
    BY <2>1, AdjacentParts DEF Gapless
  <2>3. s[i][k] \in Int
    <3>1. k \in 1 .. Len(s[i])
      BY <2>2, LevelAssumption DEF PartOn
    <3>. QED BY <3>1, <2>1, QuadrantElements
  <2>4. PartBelow(s[i], s[i + 1], k)
    BY <2>2, <2>3 DEF PartOn, PartBelow
  <2>. QED BY <2>4 DEF Parted
<1>. QED BY <1>1, NeighboursParted

\* So do any two in an array that is linear (p4est_tree_is_linear).
LEMMA LinearParted ==
  ASSUME NEW s \in Seq(Quadrants), TreeIsLinear(s)
  PROVE  AllParted(s)
<1>1. ASSUME NEW i \in 1 .. Len(s) - 1 PROVE Parted(s[i], s[i + 1])
  <2>. DEFINE q == s[i]
              r == s[i + 1]
  <2>1. q \in Quadrants /\ r \in Quadrants /\ Before(q, r)
    BY DEF TreeIsLinear, Precedes
  <2>. HIDE DEF q, r
  <2>2. /\ q \in Seq(Int) /\ r \in Seq(Int) /\ Len(q) \in Nat /\ Len(r) \in Nat
        /\ Len(q) <= QMAXLEVEL
    BY <2>1, QuadrantElements
  <2>3. PICK l \in 1 .. Len(q) : /\ l <= Len(r) /\ q[l] < r[l]
                                 /\ Ancestor(q, l - 1) = Ancestor(r, l - 1)
    BY <2>1 DEF Before, Level
  <2>4. l - 1 \in Nat /\ l - 1 <= Len(q) /\ l - 1 <= Len(r) /\ l \in 1 .. QMAXLEVEL
    BY <2>2, <2>3, LevelAssumption
  <2>5. \A j \in 1 .. l - 1 : q[j] = r[j]
    BY <2>2, <2>3, <2>4, SameAncestor
  <2>6. PartBelow(q, r, l)
    BY <2>3, <2>5 DEF PartBelow
  <2>. QED BY <2>4, <2>6 DEF Parted, q, r
<1>. QED BY <1>1, NeighboursParted

\* The predicates of p4est_algorithms.c hold for a hole-free array.
LEMMA GaplessTree ==
  ASSUME NEW s \in Seq(Quadrants), Gapless(s)
  PROVE  TreeIsLinear(s) /\ TreeIsComplete(s)
<1>0. Len(s) \in Nat /\ \A i \in 1 .. Len(s) : s[i] \in Quadrants
  OBVIOUS
<1>1. ASSUME NEW i \in 1 .. Len(s) - 1
      PROVE  /\ Precedes(s[i], s[i + 1]) /\ ~ IsAncestor(s[i], s[i + 1])
             /\ IsNext(s[i], s[i + 1])
  <2>. DEFINE q == s[i]
              r == s[i + 1]
  <2>1. q \in Quadrants /\ r \in Quadrants /\ Adjacent(q, r)
    BY <1>0 DEF Gapless
  <2>. HIDE DEF q, r
  <2>2. PICK k \in 1 .. QMAXLEVEL : PartOn(q, r, k)
    BY <2>1, AdjacentParts
  <2>3. /\ QMAXLEVEL \in Nat /\ q \in Seq(Int) /\ r \in Seq(Int)
        /\ Len(q) \in Nat /\ Len(r) \in Nat /\ k \in 1 .. Len(q) /\ k \in 1 .. Len(r)
    BY <2>1, <2>2, QuadrantElements, LevelAssumption DEF PartOn
  <2>4. \A j \in Level(r) + 1 .. Level(q) : q[j] = CHILDREN - 1
    BY <2>2, <2>3 DEF PartOn, Level
  <2>. DEFINE l == LowerLevel(q, r)
  <2>5. l \in Nat /\ l <= Len(q) /\ l <= Len(r) /\ k \in 1 .. l
    BY <2>3 DEF LowerLevel, Level
  <2>. HIDE DEF l
  <2>6. Ancestor(q, k - 1) = Ancestor(r, k - 1)
    <3>. DEFINE n == k - 1
    <3>1. n \in Nat /\ n <= Len(q) /\ n <= Len(r)
      BY <2>3
    <3>2. \A j \in 1 .. n : q[j] = r[j]
      BY <2>2 DEF PartOn
    <3>. HIDE DEF n
    <3>3. Ancestor(q, n) = Ancestor(r, n)
      BY <3>1, <3>2, <2>3, SameAncestor
    <3>. QED BY <3>3 DEF n
  <2>7. ConsecutiveOnLevel(q, r, l)
    <3>1. ASSUME NEW j \in k + 1 .. l PROVE q[j] = CHILDREN - 1 /\ r[j] = 0
      <4>1. j \in k + 1 .. Len(q) /\ j \in k + 1 .. Len(r)
        BY <2>3, <2>5
      <4>. QED BY <4>1, <2>2 DEF PartOn
    <3>2. r[k] = q[k] + 1
      BY <2>2 DEF PartOn
    <3>. QED BY <2>5, <2>6, <3>1, <3>2 DEF ConsecutiveOnLevel
  <2>. QED BY <2>1, <2>4, <2>7 DEF Adjacent, IsNext, l, q, r
<1>. QED BY <1>1 DEF TreeIsLinear, TreeIsComplete

\* A hole-free array does not hold the parent of one of its quadrants.
LEMMA ParentIsNew ==
  ASSUME NEW s \in Seq(Quadrants), Gapless(s), NEW i \in 1 .. Len(s), Len(s[i]) > 0,
         NEW k \in 1 .. Len(s)
  PROVE  s[k] # Parent(s[i])
<1>1. /\ Len(s) \in Nat /\ s[i] \in Quadrants /\ s[k] \in Quadrants
      /\ s[i] \in Seq(Int) /\ Len(s[i]) \in Nat
  BY QuadrantElements
<1>2. SUFFICES ASSUME s[k] = Parent(s[i]) PROVE FALSE
  OBVIOUS
<1>. DEFINE q == s[i]
            p == SubSeq(q, 1, Len(q) - 1)
<1>3. Len(p) = Len(q) - 1
  <2>. DEFINE n == Len(q) - 1
  <2>1. q \in Seq(Int) /\ n \in Nat /\ n <= Len(q)
    BY <1>1
  <2>. HIDE DEF q, n
  <2>2. Len(SubSeq(q, 1, n)) = n
    BY <2>1, SubSeqProperties
  <2>. QED BY <2>2 DEF n
<1>4. s[k] = p /\ IsAncestor(s[k], s[i])
  BY <1>1, <1>2, <1>3 DEF Parent, Ancestor, IsAncestor, Level
<1>5. k # i
  BY <1>1, <1>3, <1>4
<1>6. Parted(s[i], s[k]) \/ Parted(s[k], s[i])
  BY <1>1, <1>5, GaplessParted DEF AllParted
<1>. QED BY <1>1, <1>4, <1>6, PartedApart

(***************************************************************************)
(* Counting the quadrants of a level (quadrants_per_level).                *)
(***************************************************************************)
OnLevel(s, l) == { i \in 1 .. Len(s) : Level(s[i]) = l }
CountOf(s, l) == Cardinality(OnLevel(s, l))

\* The positions on a level are finitely many.
LEMMA OnLevelFinite ==
  ASSUME NEW S, NEW s \in Seq(S), NEW l
  PROVE  IsFiniteSet(OnLevel(s, l)) /\ CountOf(s, l) \in Nat
<1>1. Len(s) \in Nat
  OBVIOUS
<1>2. IsFiniteSet(1 .. Len(s))
  BY <1>1, FS_Interval
<1>3. OnLevel(s, l) \subseteq 1 .. Len(s)
  BY DEF OnLevel
<1>4. IsFiniteSet(OnLevel(s, l))
  BY <1>2, <1>3, FS_Subset
<1>. QED BY <1>4, FS_CardinalityType DEF CountOf

\* In one array behind another every level is counted in both.
LEMMA CountConcat ==
  ASSUME NEW S, NEW a \in Seq(S), NEW b \in Seq(S), NEW l
  PROVE  CountOf(a \o b, l) = CountOf(a, l) + CountOf(b, l)
<1>. DEFINE n == Len(a)
            m == Len(b)
            A == OnLevel(a, l)
            B == OnLevel(b, l)
            T == { n + i : i \in B }
            c == a \o b
<1>1. /\ n \in Nat /\ m \in Nat /\ Len(c) = n + m
      /\ \A i \in 1 .. n + m : c[i] = IF i <= n THEN a[i] ELSE b[i - n]
  OBVIOUS
<1>. HIDE DEF c, n, m
<1>2. OnLevel(c, l) = A \union T
  <2>1. ASSUME NEW i \in OnLevel(c, l) PROVE i \in A \union T
    <3>1. i \in 1 .. n + m /\ Level(c[i]) = l
      BY <1>1 DEF OnLevel
    <3>2. CASE i <= n
      <4>1. i \in 1 .. n /\ c[i] = a[i]
        BY <1>1, <3>1, <3>2
      <4>. QED BY <3>1, <4>1 DEF OnLevel, n
    <3>3. CASE ~ (i <= n)
      <4>1. i - n \in 1 .. m /\ c[i] = b[i - n] /\ n + (i - n) = i
        BY <1>1, <3>1, <3>3
      <4>2. i - n \in B
        BY <3>1, <4>1 DEF OnLevel, m
      <4>. QED BY <4>1, <4>2
    <3>. QED BY <3>2, <3>3
  <2>2. ASSUME NEW i \in A PROVE i \in OnLevel(c, l)
    <3>1. i \in 1 .. n /\ Level(a[i]) = l
      BY DEF OnLevel, n
    <3>2. i \in 1 .. n + m /\ c[i] = a[i]
      BY <1>1, <3>1
    <3>. QED BY <1>1, <3>1, <3>2 DEF OnLevel
  <2>3. ASSUME NEW i \in B PROVE n + i \in OnLevel(c, l)
    <3>1. i \in 1 .. m /\ Level(b[i]) = l
      BY DEF OnLevel, m
    <3>2. n + i \in 1 .. n + m /\ ~ (n + i <= n) /\ (n + i) - n = i
      BY <1>1, <3>1
    <3>3. c[n + i] = b[i]
      BY <1>1, <3>2
    <3>. QED BY <1>1, <3>1, <3>2, <3>3 DEF OnLevel
  <2>. QED BY <2>1, <2>2, <2>3
<1>3. /\ A \subseteq 1 .. n /\ B \subseteq 1 .. m
      /\ IsFiniteSet(A) /\ IsFiniteSet(B)
      /\ Cardinality(A) \in Nat /\ Cardinality(B) \in Nat
  BY OnLevelFinite DEF OnLevel, CountOf, n, m
<1>4. IsFiniteSet(T) /\ Cardinality(T) = Cardinality(B)
  <2>. DEFINE f == [i \in B |-> n + i]
  <2>. HIDE DEF A, B
  <2>1. f \in Bijection(B, T)
    <3>1. \A i \in B : i \in Int
      BY <1>3
    <3>2. f \in [B -> T] /\ \A i, j \in B : f[i] = f[j] => i = j
      BY <1>1, <3>1
    <3>3. \A t \in T : \E i \in B : f[i] = t
      OBVIOUS
    <3>. QED BY <3>2, <3>3 DEF Bijection, Injection, Surjection, IsInjective
  <2>2. ExistsBijection(B, T)
    BY <2>1 DEF ExistsBijection
  <2>. QED BY <1>3, <2>2, FS_Bijection
<1>5. A \intersect T = {}
  BY <1>1, <1>3
<1>. HIDE DEF A, B, T
<1>6. Cardinality(A \union T) = Cardinality(A) + Cardinality(T) - Cardinality({})
  BY <1>3, <1>4, <1>5, FS_Union
<1>7. Cardinality(A \union T) = Cardinality(A) + Cardinality(B)
  BY <1>3, <1>4, <1>6, FS_EmptySet
<1>. QED BY <1>2, <1>7 DEF CountOf, A, B, c

\* An array of quadrants of one level.
LEMMA CountUniform ==
  ASSUME NEW S, NEW s \in Seq(S), NEW k, NEW l, \A i \in 1 .. Len(s) : Level(s[i]) = k
  PROVE  CountOf(s, l) = IF l = k THEN Len(s) ELSE 0
<1>1. Len(s) \in Nat
  OBVIOUS
<1>2. CASE l = k
  <2>1. OnLevel(s, l) = 1 .. Len(s)
    BY <1>2 DEF OnLevel
  <2>2. Cardinality(1 .. Len(s)) = Len(s)
    <3>. DEFINE n == Len(s)
    <3>1. n \in Nat
      BY <1>1
    <3>. HIDE DEF n
    <3>2. Cardinality(1 .. n) = IF 1 > n THEN 0 ELSE n - 1 + 1
      BY <3>1, FS_Interval
    <3>3. Cardinality(1 .. n) = n
      BY <3>1, <3>2
    <3>. QED BY <3>3 DEF n
  <2>. QED BY <1>2, <2>1, <2>2 DEF CountOf
<1>3. CASE l # k
  <2>1. OnLevel(s, l) = {}
    BY <1>3 DEF OnLevel
  <2>. QED BY <1>3, <2>1, FS_EmptySet DEF CountOf
<1>. QED BY <1>2, <1>3

(***************************************************************************)
(* Children.                                                               *)
(***************************************************************************)
\* The path of a child is that of its parent and one step more.
LEMMA ChildElements ==
  ASSUME NEW q \in Quadrants, NEW i \in ChildIds, Level(q) < QMAXLEVEL
  PROVE  LET c == Child(q, i)
         IN  /\ c \in Quadrants /\ Len(c) = Len(q) + 1 /\ c[Len(q) + 1] = i
             /\ \A j \in 1 .. Len(q) : c[j] = q[j]
<1>1. q \in Seq(ChildIds)
  BY QuadrantDef
<1>2. Child(q, i) \in Quadrants
  BY ChildType
<1>. QED BY <1>1, <1>2 DEF Child

\* What parts from a quadrant parts from its children.
LEMMA PartedFromChild ==
  ASSUME NEW q \in Quadrants, NEW i \in ChildIds, Level(q) < QMAXLEVEL, NEW r \in Quadrants
  PROVE  /\ Parted(r, q) => Parted(r, Child(q, i))
         /\ Parted(q, r) => Parted(Child(q, i), r)
<1>. DEFINE c == Child(q, i)
<1>1. Len(c) = Len(q) + 1 /\ \A j \in 1 .. Len(q) : c[j] = q[j]
  BY ChildElements
<1>. HIDE DEF c
<1>2. Len(q) \in Nat /\ Len(r) \in Nat
  BY QuadrantElements
<1>3. \A k \in 1 .. QMAXLEVEL : PartBelow(r, q, k) => PartBelow(r, c, k)
  BY <1>1, <1>2 DEF PartBelow
<1>4. \A k \in 1 .. QMAXLEVEL : PartBelow(q, r, k) => PartBelow(c, r, k)
  BY <1>1, <1>2 DEF PartBelow
<1>. QED BY <1>3, <1>4 DEF Parted, c

\* Siblings part by their numbers.
LEMMA ChildrenParted ==
  ASSUME NEW q \in Quadrants, Level(q) < QMAXLEVEL,
         NEW i \in ChildIds, NEW k \in ChildIds, i < k
  PROVE  Parted(Child(q, i), Child(q, k))
<1>. DEFINE c == Child(q, i)
            d == Child(q, k)
            n == Len(q) + 1
<1>1. /\ Len(c) = n /\ c[n] = i /\ \A j \in 1 .. Len(q) : c[j] = q[j]
      /\ Len(d) = n /\ d[n] = k /\ \A j \in 1 .. Len(q) : d[j] = q[j]
  BY ChildElements
<1>2. n \in 1 .. QMAXLEVEL /\ n - 1 = Len(q)
  BY QuadrantElements, LevelAssumption DEF Level
<1>. HIDE DEF c, d
<1>3. PartBelow(c, d, n)
  BY <1>1, <1>2 DEF PartBelow
<1>. QED BY <1>2, <1>3 DEF Parted, c, d

\* t is s with the quadrant behind position w replaced by its children.
SplitAt(s, t, w) ==
  /\ s \in Seq(Quadrants) /\ t \in Seq(Quadrants)
  /\ w \in Nat /\ w < Len(s) /\ Level(s[w + 1]) < QMAXLEVEL
  /\ Len(t) = Len(s) + CHILDREN - 1
  /\ \A i \in 1 .. w : t[i] = s[i]
  /\ \A z \in ChildIds : t[w + z + 1] = Child(s[w + 1], z)
  /\ \A i \in w + 2 .. Len(s) : t[i + CHILDREN - 1] = s[i]

\* Every position behind a split is one of three kinds.
LEMMA SplitPositions ==
  ASSUME NEW s, NEW t, NEW w, SplitAt(s, t, w), NEW i \in 1 .. Len(t)
  PROVE  \/ i \in 1 .. w /\ i \in 1 .. Len(s) /\ t[i] = s[i]
         \/ /\ i - w - 1 \in ChildIds /\ i \in w + 1 .. w + CHILDREN
            /\ t[i] = Child(s[w + 1], i - w - 1)
         \/ /\ i - CHILDREN + 1 \in w + 2 .. Len(s) /\ t[i] = s[i - CHILDREN + 1]
            /\ i > w + CHILDREN
<1>1. /\ CHILDREN \in Nat /\ CHILDREN > 1 /\ w \in Nat /\ Len(s) \in Nat /\ w < Len(s)
      /\ Len(t) = Len(s) + CHILDREN - 1
  BY ChildrenAssumption DEF SplitAt
<1>2. CASE i <= w
  BY <1>1, <1>2 DEF SplitAt
<1>3. CASE w < i /\ i <= w + CHILDREN
  <2>. DEFINE z == i - w - 1
  <2>1. z \in ChildIds /\ w + z + 1 = i
    BY <1>1, <1>3 DEF ChildIds
  <2>2. t[w + z + 1] = Child(s[w + 1], z)
    BY <2>1 DEF SplitAt
  <2>3. i \in w + 1 .. w + CHILDREN
    BY <1>1, <1>3
  <2>. QED BY <2>1, <2>2, <2>3
<1>4. CASE i > w + CHILDREN
  <2>. DEFINE k == i - CHILDREN + 1
  <2>1. k \in w + 2 .. Len(s) /\ k + CHILDREN - 1 = i
    BY <1>1, <1>4
  <2>2. t[k + CHILDREN - 1] = s[k]
    BY <2>1 DEF SplitAt
  <2>. QED BY <1>4, <2>1, <2>2
<1>. QED BY <1>1, <1>2, <1>3, <1>4

\* A split leaves no two quadrants that overlap where there were none.
LEMMA SplitKeepsParted ==
  ASSUME NEW s, NEW t, NEW w, SplitAt(s, t, w), AllParted(s)
  PROVE  AllParted(t)
<1>1. /\ CHILDREN \in Nat /\ CHILDREN > 1 /\ w \in Nat /\ Len(s) \in Nat /\ w < Len(s)
      /\ w + 1 \in 1 .. Len(s) /\ Level(s[w + 1]) < QMAXLEVEL /\ s[w + 1] \in Quadrants
      /\ \A i \in 1 .. Len(s) : s[i] \in Quadrants
      /\ ChildIds = 0 .. CHILDREN - 1
  BY ChildrenAssumption DEF SplitAt, ChildIds
<1>2. SUFFICES ASSUME NEW i \in 1 .. Len(t), NEW j \in 1 .. Len(t), i < j
               PROVE  Parted(t[i], t[j])
  BY DEF AllParted
<1>3. i \in Int /\ j \in Int
  BY DEF SplitAt
<1>4. CASE i \in 1 .. w /\ i \in 1 .. Len(s) /\ t[i] = s[i]
  <2>1. CASE j \in 1 .. w /\ j \in 1 .. Len(s) /\ t[j] = s[j]
    BY <1>2, <1>4, <2>1 DEF AllParted
  <2>2. CASE j - w - 1 \in ChildIds /\ t[j] = Child(s[w + 1], j - w - 1)
    <3>1. Parted(s[i], s[w + 1])
      BY <1>1, <1>4 DEF AllParted
    <3>. QED BY <3>1, <1>1, <1>4, <2>2, PartedFromChild
  <2>3. CASE j - CHILDREN + 1 \in w + 2 .. Len(s) /\ t[j] = s[j - CHILDREN + 1]
    <3>1. j - CHILDREN + 1 \in 1 .. Len(s) /\ i < j - CHILDREN + 1
      BY <1>1, <1>4, <2>3
    <3>. QED BY <3>1, <1>4, <2>3 DEF AllParted
  <2>. QED BY <2>1, <2>2, <2>3, SplitPositions
<1>5. CASE /\ i - w - 1 \in ChildIds /\ i \in w + 1 .. w + CHILDREN
           /\ t[i] = Child(s[w + 1], i - w - 1)
  <2>1. CASE j \in 1 .. w
    BY <1>1, <1>2, <1>5, <2>1
  <2>2. CASE j - w - 1 \in ChildIds /\ t[j] = Child(s[w + 1], j - w - 1)
    <3>1. i - w - 1 < j - w - 1
      BY <1>1, <1>2, <1>3
    <3>. QED BY <3>1, <1>1, <1>5, <2>2, ChildrenParted
  <2>3. CASE j - CHILDREN + 1 \in w + 2 .. Len(s) /\ t[j] = s[j - CHILDREN + 1]
    <3>. DEFINE k == j - CHILDREN + 1
    <3>1. k \in 1 .. Len(s) /\ w + 1 < k
      BY <1>1, <2>3
    <3>2. Parted(s[w + 1], s[k])
      BY <1>1, <3>1 DEF AllParted
    <3>3. s[k] \in Quadrants /\ t[j] = s[k]
      BY <1>1, <2>3, <3>1
    <3>. HIDE DEF k
    <3>. QED BY <3>2, <3>3, <1>1, <1>5, PartedFromChild
  <2>. QED BY <2>1, <2>2, <2>3, SplitPositions
<1>6. CASE i - CHILDREN + 1 \in w + 2 .. Len(s) /\ t[i] = s[i - CHILDREN + 1] /\ i > w + CHILDREN
  <2>1. j - CHILDREN + 1 \in w + 2 .. Len(s) /\ t[j] = s[j - CHILDREN + 1]
    <3>1. j > w + CHILDREN
      BY <1>1, <1>2, <1>3, <1>6
    <3>2. j \notin 1 .. w /\ j \notin w + 1 .. w + CHILDREN
      BY <3>1, <1>1, <1>3
    <3>. QED BY <3>2, SplitPositions
  <2>2. /\ i - CHILDREN + 1 \in 1 .. Len(s) /\ j - CHILDREN + 1 \in 1 .. Len(s)
        /\ i - CHILDREN + 1 < j - CHILDREN + 1
    BY <1>1, <1>2, <1>3, <1>6, <2>1
  <2>. QED BY <1>6, <2>1, <2>2 DEF AllParted
<1>. QED BY <1>4, <1>5, <1>6, SplitPositions

(***************************************************************************)
(* An array of quadrants that part in order is in Morton order.            *)
(***************************************************************************)
\* Of two paths that part only one precedes the other.
LEMMA PartedOneWay ==
  ASSUME NEW q \in Quadrants, NEW r \in Quadrants, Parted(q, r)
  PROVE  ~ Precedes(r, q)
<1>1. PICK k \in 1 .. QMAXLEVEL : PartBelow(q, r, k)
  BY DEF Parted
<1>2. /\ QMAXLEVEL \in Nat /\ q \in Seq(Int) /\ r \in Seq(Int)
      /\ Len(q) \in Nat /\ Len(r) \in Nat /\ k \in 1 .. Len(q) /\ k \in 1 .. Len(r)
      /\ q[k] \in Int /\ r[k] \in Int /\ q[k] < r[k]
      /\ \A j \in 1 .. k - 1 : q[j] = r[j]
      /\ \A j \in 1 .. Len(q) : q[j] \in Int
  BY <1>1, QuadrantElements, LevelAssumption DEF PartBelow
<1>3. ASSUME NEW l \in 1 .. Len(r), l <= Len(q), Ancestor(r, l - 1) = Ancestor(q, l - 1),
             r[l] < q[l]
      PROVE  FALSE
  <2>1. l - 1 \in Nat /\ l - 1 <= Len(q) /\ l - 1 <= Len(r)
    BY <1>2, <1>3
  <2>2. \A j \in 1 .. l - 1 : r[j] = q[j]
    BY <1>2, <1>3, <2>1, SameAncestor
  <2>3. CASE l < k
    BY <1>2, <1>3, <2>3
  <2>4. CASE l = k
    BY <1>2, <1>3, <2>4
  <2>5. CASE l > k
    <3>1. k \in 1 .. l - 1
      BY <1>2, <1>3, <2>5
    <3>. QED BY <3>1, <2>2, <1>2
  <2>. QED BY <1>2, <2>3, <2>4, <2>5
<1>4. ~ Before(r, q)
  BY <1>3 DEF Before, Level
<1>5. ~ IsAncestor(r, q)
  BY PartedApart
<1>. QED BY <1>4, <1>5 DEF Precedes

\* No quadrant precedes itself.
LEMMA NotBeforeItself ==
  ASSUME NEW q \in Quadrants
  PROVE  ~ Precedes(q, q)
<1>1. Len(q) \in Nat /\ \A j \in 1 .. Len(q) : q[j] \in Int
  BY QuadrantElements
<1>. QED BY <1>1 DEF Precedes, Before, IsAncestor, Level

\* A one-to-one numbering counts its values.
LEMMA CountImages ==
  ASSUME NEW s, NEW n \in Nat, \A i, j \in 1 .. n : s[i] = s[j] => i = j
  PROVE  Cardinality({ s[i] : i \in 1 .. n }) = n
<1>. DEFINE T == { s[i] : i \in 1 .. n }
            f == [i \in 1 .. n |-> s[i]]
<1>1. f \in Bijection(1 .. n, T)
  <2>1. f \in [1 .. n -> T] /\ \A i, j \in 1 .. n : f[i] = f[j] => i = j
    OBVIOUS
  <2>2. \A t \in T : \E i \in 1 .. n : f[i] = t
    OBVIOUS
  <2>. QED BY <2>1, <2>2 DEF Bijection, Injection, Surjection, IsInjective
<1>2. ExistsBijection(1 .. n, T)
  BY <1>1 DEF ExistsBijection
<1>. HIDE DEF T
<1>. QED BY <1>2, FS_CountingElements DEF T

\* Such an array is what InMortonOrder makes of the set of its quadrants.
LEMMA PartedIsMortonOrder ==
  ASSUME NEW s \in Seq(Quadrants), AllParted(s)
  PROVE  s = InMortonOrder({ s[i] : i \in 1 .. Len(s) })
<1>. DEFINE n == Len(s)
            S == { s[i] : i \in 1 .. n }
<1>1. n \in Nat /\ \A i \in 1 .. n : s[i] \in Quadrants
  OBVIOUS
<1>2. \A i, j \in 1 .. n : Precedes(s[i], s[j]) <=> i < j
  <2>1. ASSUME NEW i \in 1 .. n, NEW j \in 1 .. n PROVE Precedes(s[i], s[j]) <=> i < j
    <3>1. CASE i < j
      BY <1>1, <3>1, PartedApart DEF AllParted
    <3>2. CASE i = j
      BY <1>1, <3>2, NotBeforeItself
    <3>3. CASE j < i
      <4>1. Parted(s[j], s[i])
        BY <3>3 DEF AllParted
      <4>. QED BY <1>1, <3>3, <4>1, PartedOneWay
    <3>. QED BY <3>1, <3>2, <3>3
  <2>. QED BY <2>1
<1>3. \A i, j \in 1 .. n : s[i] = s[j] => i = j
  BY <1>1, <1>2
<1>. HIDE DEF n
<1>4. Cardinality(S) = n
  BY <1>1, <1>3, CountImages
<1>5. ASSUME NEW i \in 1 .. n PROVE MortonRank(s[i], S) = i - 1
  <2>. DEFINE m == i - 1
  <2>1. { r \in S : Precedes(r, s[i]) } = { s[j] : j \in 1 .. m }
    <3>1. ASSUME NEW r \in S, Precedes(r, s[i]) PROVE r \in { s[j] : j \in 1 .. m }
      <4>1. PICK j \in 1 .. n : r = s[j]
        OBVIOUS
      <4>2. j \in 1 .. m
        BY <1>1, <1>2, <3>1, <4>1
      <4>. QED BY <4>1, <4>2
    <3>2. ASSUME NEW j \in 1 .. m PROVE s[j] \in S /\ Precedes(s[j], s[i])
      <4>1. j \in 1 .. n /\ j < i
        BY <1>1
      <4>. QED BY <1>2, <4>1
    <3>. QED BY <3>1, <3>2
  <2>2. m \in Nat /\ \A j, k \in 1 .. m : s[j] = s[k] => j = k
    BY <1>1, <1>3
  <2>. HIDE DEF m
  <2>3. Cardinality({ s[j] : j \in 1 .. m }) = m
    BY <2>2, CountImages
  <2>. QED BY <2>1, <2>3 DEF MortonRank, m
<1>6. ASSUME NEW i \in 1 .. n PROVE (CHOOSE q \in S : MortonRank(q, S) = i - 1) = s[i]
  <2>1. s[i] \in S /\ MortonRank(s[i], S) = i - 1
    BY <1>5
  <2>2. ASSUME NEW q \in S, MortonRank(q, S) = i - 1 PROVE q = s[i]
    <3>1. PICK j \in 1 .. n : q = s[j]
      OBVIOUS
    <3>2. j - 1 = i - 1
      BY <1>5, <2>2, <3>1
    <3>. QED BY <1>1, <3>1, <3>2
  <2>. HIDE DEF S
  <2>. QED BY <2>1, <2>2
<1>7. InMortonOrder(S) = [i \in 1 .. n |-> s[i]]
  <2>. HIDE DEF S
  <2>. QED BY <1>4, <1>6 DEF InMortonOrder
<1>8. s = [i \in 1 .. n |-> s[i]]
  BY DEF n
<1>. QED BY <1>7, <1>8 DEF n

\* The elements of two sequences joined.
LEMMA ConcatElements ==
  ASSUME NEW S, NEW a \in Seq(S), NEW b \in Seq(S)
  PROVE  /\ a \o b \in Seq(S)
         /\ Len(a \o b) = Len(a) + Len(b)
         /\ \A i \in 1 .. Len(a) : (a \o b)[i] = a[i]
         /\ \A i \in 1 .. Len(b) : (a \o b)[Len(a) + i] = b[i]
OBVIOUS
==============================================================================
