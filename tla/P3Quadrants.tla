----------------------------- MODULE P3Quadrants -----------------------------
(***************************************************************************)
(* The two quadrant representations of p4est3 against the quadrant         *)
(* functions of p4est: one word of level and interleaved bits              *)
(* (src/p4est3_quadrant_mort2d.c, in three dimensions compiled from the    *)
(* same file), and a register of four signed lanes                         *)
(* (src/p4est3_quadrant_yx.c).  Callers reach them through the virtual     *)
(* table (src/p4est3_quadrant_vtable.c).                                   *)
(*                                                                         *)
(* The reference is QuadrantBits with MAXLEVEL levels, as many as the      *)
(* lanes have (30); the word has less (28 or 18).  Coordinates that are    *)
(* exchanged between representations have one bit more than the lanes      *)
(* (31), and a lane is a word of MAXLEVEL + 2 bits (32).                   *)
(***************************************************************************)
EXTENDS QuadrantBits

MORT_MAXLEVEL == MAXLEVEL - 1              \* P4EST3_MORT_MAXLEVEL
CRD_BITS      == DIM * MORT_MAXLEVEL       \* the level lies above the coordinates
LaneBits      == MAXLEVEL + 2
MortShift     == 2                         \* P4EST3_REF_MAXLEVEL - P4EST3_MORT_MAXLEVEL
YxShift       == 1                         \* P4EST3_REF_MAXLEVEL - P4EST3_YX_MAXLEVEL

Ids == 0 .. P4EST_CHILDREN - 1
Axis(face) == face \div 2 + 1
IsUpper(face) == face % 2 = 1

(***************************************************************************)
(* The word.                                                               *)
(***************************************************************************)
MortLen(n, l)    == n * 2 ^ (DIM * (MORT_MAXLEVEL - l))       \* P4EST3_QUADRANT_MORT_LEN
MortWord(m, l)   == l * 2 ^ CRD_BITS + m
MortLevel(w)     == w \div 2 ^ CRD_BITS
MortCoordBits(w) == w % 2 ^ CRD_BITS
MortBits(w)      == { i \in 0 .. CRD_BITS + 7 : Bit(w, i) }
\* the bits of one coordinate down to level l
MortMask(l, a)   == { DIM * k + a - 1 : k \in MORT_MAXLEVEL - l .. MORT_MAXLEVEL - 1 }

MortIsValid(w) == MortLevel(w) <= MORT_MAXLEVEL /\ w % MortLen(1, MortLevel(w)) = 0

\* the loop also reads the bits of one level below, which are zero
MortCoords(w) ==
  [a \in Axes |-> 2 ^ MortShift *
     SumSet({ 2 ^ k : k \in { k \in 0 .. MORT_MAXLEVEL - 1 : Bit(w, DIM * k + a - 1) } })]

\* the bits are moved in a signed word of 32 bits: what is moved into its sign or
\* beyond is lost or spread, in the compiler's choice; here it is lost
MortQuadrant(c, l) ==
  LET x(a)   == c[a] \div 2 ^ (MortShift + MORT_MAXLEVEL - l)
      places == { << a, i >> \in Axes \X (0 .. l - 1) :
                    Bit(x(a), i) /\ DIM * i + a - 1 < LaneBits - 1 }
  IN  MortWord(MortLen(SumSet({ 2 ^ (DIM * p[2] + p[1] - 1) : p \in places }), l), l)

MortAncestorId(w, l) == IF l = 0 THEN 0 ELSE (w \div MortLen(1, l)) % P4EST_CHILDREN
MortChildId(w)       == MortAncestorId(w, MortLevel(w))
MortUnit             == 2 ^ CRD_BITS                          \* one level

MortIsParent(v, w) ==
  /\ MortLevel(v) + 1 = MortLevel(w)
  /\ v + MortUnit = w - MortLen(MortChildId(w), MortLevel(w))

\* the exclusive or is stored in a word of 32 bits
MortIsAncestor(v, w) ==
  /\ MortLevel(v) < MortLevel(w)
  /\ (Unsigned(Xor(MortBits(MortCoordBits(v)), MortBits(MortCoordBits(w))))
        \div MortLen(1, MortLevel(v))) % 2 ^ LaneBits = 0

\* equal coordinates: the difference of the unsigned words is not negative
MortCompare(v, w) ==
  IF v = w THEN 0
  ELSE IF MortCoordBits(v) = MortCoordBits(w)
  THEN (v - w) % 2 ^ (CRD_BITS + 8) \div 2 ^ CRD_BITS
  ELSE IF MortCoordBits(v) > MortCoordBits(w) THEN 1 ELSE -1

MortOnBoundary(w, face) ==                                    \* get_tree_boundary
  LET mask == MortMask(MortLevel(w), Axis(face))
  IN  MortBits(w) \intersect mask = IF IsUpper(face) THEN mask ELSE {}

MortBoundaries(w) ==
  [a \in Axes |->
     LET mask == MortMask(MortLevel(w), a)
         mine == MortBits(w) \intersect mask
     IN  IF MortLevel(w) = 0 THEN -2
         ELSE IF mine = {} THEN 2 * (a - 1) ELSE IF mine = mask THEN 2 * (a - 1) + 1 ELSE -1]

MortChild(w, id)   == w + MortLen(id, MortLevel(w) + 1) + MortUnit
MortParent(w)      == w - MortLen(MortChildId(w), MortLevel(w)) - MortUnit
MortSibling(w, id) == w + MortLen(id - MortChildId(w), MortLevel(w))
MortAncestor(w, l) == MortWord(ClearBelow(MortCoordBits(w), MortLen(1, l)), l)
MortFirstDescendant(w, l) == MortWord(MortCoordBits(w), l)
\* mutant: the descendant lacks its own length
MortLastDescendant_Long(w, l) ==
  MortWord(MortCoordBits(w) + MortLen(1, MortLevel(w)) - 1, l)

MortLastDescendant(w, l) ==
  MortWord(MortCoordBits(w) + MortLen(1, MortLevel(w)) - MortLen(1, l), l)
MortSuccessor(w)   == w + MortLen(1, MortLevel(w))
MortPredecessor(w) == w - MortLen(1, MortLevel(w))
MortLinearId(w, l) == MortCoordBits(w) \div MortLen(1, l)
MortMorton(l, id)  == MortWord(MortLen(id, l), l)

\* the carry runs through the bits of the other coordinates
MortFaceNeighbor(w, face) ==
  LET dir  == MortMask(MortLevel(w), Axis(face))
      all  == 0 .. CRD_BITS + 7
      next == IF IsUpper(face) THEN Unsigned(MortBits(w) \union (all \ dir)) + 1
              ELSE Unsigned(MortBits(w) \intersect dir) - 1
  IN  Unsigned((MortBits(next % 2 ^ (CRD_BITS + 8)) \intersect dir) \union (MortBits(w) \ dir))

\* bits above the coordinates are reversed for the deepest level
MortTreeFaceNeighbor(w, t) ==
  LET l   == MortLevel(w)
      Rmh == MortBits(MortLen(1, 0) - IF l = MORT_MAXLEVEL THEN 0 ELSE MortLen(1, l))
      moved(a) ==
        { b - t.my[a] + t.target[a] :
            b \in MortMask(l, t.my[a])
                    \intersect (IF t.reverse[a] THEN Xor(Rmh, MortBits(w)) ELSE MortBits(w)) }
  IN  MortWord(Unsigned(UNION { moved(a) : a \in 1 .. DIM - 1 }
                          \union IF t.upper THEN Rmh \intersect MortMask(l, t.target[DIM]) ELSE {}),
               l)

\* SC_LOG2_64 (0) is -1, and -1 / P4EST_DIM is 0; the level of v is not cleared, and
\* the bits of the new level are added to it
MortNearestCommonAncestor(v, w) ==
  LET x     == Xor(MortBits(MortCoordBits(v)), MortBits(MortCoordBits(w)))
      maxl  == (IF x = {} THEN 0 ELSE Max(x) \div DIM) + 1
      level == Min({ MORT_MAXLEVEL - maxl, MortLevel(v), MortLevel(w) })
  IN  MortWord(ClearBelow(MortCoordBits(v), 2 ^ (maxl * DIM)),
               Unsigned(BitsOf(MortLevel(v)) \union BitsOf(level)))

(***************************************************************************)
(* The lanes: x, y, z (also in two dimensions) and the level.              *)
(***************************************************************************)
Lanes      == 1 .. 3
Yx(x, l)   == [ x |-> x, l |-> l ]
YxOf(id)   == [a \in Lanes |-> IF IdHasAxis(id, a) THEN 1 ELSE 0]
NoZ(x)     == [x EXCEPT ![3] = IF DIM = 2 THEN 0 ELSE @]

YxIsValid(q) == q.l \in 0 .. MAXLEVEL /\ \A a \in Lanes : q.x[a] % QuadrantLen(q.l) = 0

\* _mm_testc_si128 (rhs, lhs): no bit of lhs is outside of rhs
YxIsParent(q, r) ==
  /\ q.l + 1 = r.l
  /\ \A a \in Lanes :
       BitsOf(q.x[a]) \subseteq
         IF a = 3 /\ DIM = 2 THEN {} ELSE BitsOf(r.x[a]) \ { MAXLEVEL - r.l }

YxIsAncestor(q, r) ==
  q.l < r.l /\ \A a \in Lanes : q.x[a] \div QuadrantLen(q.l) = r.x[a] \div QuadrantLen(q.l)

YxOnBoundary(q, face) ==
  q.x[Axis(face)] = IF IsUpper(face) THEN ROOT_LEN - QuadrantLen(q.l) ELSE 0

YxBoundaries(q) ==
  [a \in Axes |->
     IF q.l = 0 THEN -2
     ELSE IF q.x[a] = 0 THEN 2 * (a - 1)
     ELSE IF q.x[a] = ROOT_LEN - QuadrantLen(q.l) THEN 2 * (a - 1) + 1 ELSE -1]

YxChild(q, id) ==
  Yx(NoZ([a \in Lanes |-> q.x[a] + QuadrantLen(q.l + 1) * YxOf(id)[a]]), q.l + 1)
YxParent(q) == Yx([a \in Lanes |-> WithBit(q.x[a], q.l, FALSE)], q.l - 1)
YxSibling(q, id) ==
  Yx(NoZ([a \in Lanes |-> WithBit(q.x[a], q.l, YxOf(id)[a] = 1)]), q.l)
YxAncestor(q, l) == Yx([a \in Lanes |-> ClearBelow(q.x[a], QuadrantLen(l))], l)
YxFirstDescendant(q, l) == Yx(q.x, l)
\* the shift is added to the lane z in two dimensions, too
YxLastDescendant(q, l) ==
  Yx([a \in Lanes |-> q.x[a] + QuadrantLen(q.l) - QuadrantLen(l)], l)

YxFaceNeighbor(q, face) ==
  Yx([q.x EXCEPT ![Axis(face)] = @ + QuadrantLen(q.l) * (IF IsUpper(face) THEN 1 ELSE -1)], q.l)

YxTreeFaceNeighbor(q, t) ==
  LET Rmh == ROOT_LEN - IF q.l = MAXLEVEL THEN 0 ELSE QuadrantLen(q.l)
      along(b) == \E a \in 1 .. DIM - 1 : t.target[a] = b
      from(b)  == CHOOSE a \in 1 .. DIM - 1 : t.target[a] = b
      mine(a)  == q.x[t.my[a]]
  IN  Yx([b \in Lanes |->
            IF along(b) THEN IF t.reverse[from(b)] THEN Rmh - mine(from(b)) ELSE mine(from(b))
            ELSE IF b = t.target[DIM] /\ t.upper THEN Rmh ELSE 0], q.l)

Sign(d) == IF d = 0 THEN 0 ELSE IF d < 0 THEN -1 ELSE 1
\* p4est_coordinates_compare on the lanes
YxCompare(q, r) ==
  IF \A a \in Axes : q.x[a] = r.x[a] THEN q.l - r.l
  ELSE Sign(CoordinatesCompare([a \in Axes |-> q.x[a]], [a \in Axes |-> r.x[a]]))

YxAncestorId(q, l) ==
  IF l = 0 THEN 0 ELSE SumSet({ 2 ^ (a - 1) : a \in { b \in Axes : HasBit(q.x[b], l) } })
YxCoordinates(q)   == [a \in Axes |-> q.x[a] * 2 ^ YxShift]
YxQuadrant(c, l)   ==
  Yx([a \in Lanes |-> IF a \in Axes THEN c[a] \div 2 ^ YxShift ELSE 0], l)

\* the highest level at which the id can be changed
YxCarry(q, stop) == Max({ l \in 1 .. q.l : YxAncestorId(q, l) # stop })
YxMovedTo(q, l, id) ==
  IF l = q.l THEN YxSibling(q, id)
  ELSE Yx([a \in Lanes |-> ClearBelow(q.x[a], QuadrantLen(l - 1)) + QuadrantLen(l) * YxOf(id)[a]],
          q.l)
YxSuccessorAt(q, l)   == YxMovedTo(q, l, YxAncestorId(q, l) + 1)
YxPredecessorAt(q, l) == YxMovedTo(q, l, YxAncestorId(q, l) - 1)
YxSuccessor(q)   == YxSuccessorAt(q, YxCarry(q, P4EST_CHILDREN - 1))
YxPredecessor(q) == YxPredecessorAt(q, YxCarry(q, 0))

\* the lane z takes part in two dimensions, too
YxLinearId(q, l) ==
  LET at(a, i) == IF Bit(q.x[a], i + MAXLEVEL - l) THEN { DIM * i + a - 1 } ELSE {}
  IN  Unsigned(UNION { at(a, i) : a \in Lanes, i \in 0 .. l - 1 })
YxMorton(l, id) ==
  Yx([a \in Lanes |-> IF a \notin Axes THEN 0 ELSE QuadrantLen(l) *
        SumSet({ 2 ^ i : i \in { i \in 0 .. l - 1 : Bit(id, DIM * i + a - 1) } })], l)

YxNearestCommonAncestor(q, r) ==
  LET x    == UNION { Xor(BitsOf(q.x[a]), BitsOf(r.x[a])) : a \in Axes }
      maxl == (IF x = {} THEN -1 ELSE Max(x)) + 1
  IN  Yx([a \in Lanes |-> ClearBelow(q.x[a], 2 ^ maxl)], Min({ MAXLEVEL - maxl, q.l, r.l }))

(***************************************************************************)
(* p4est3_quadrant_translate                                               *)
(***************************************************************************)
YxToMort(q) == MortQuadrant(YxCoordinates(q), q.l)
MortToYx(w) == YxQuadrant(MortCoords(w), MortLevel(w))

(***************************************************************************)
(* The instance: two quadrants, chosen one after the other.  In three      *)
(* dimensions the second one touches one of three places per axis.         *)
(***************************************************************************)
VARIABLE pair

InRoot  == UNION { { Quad([a \in Axes |-> k[a] * QuadrantLen(l)], l) :
                       k \in [Axes -> 0 .. 2 ^ l - 1] } : l \in 0 .. MAXLEVEL }
Places  == { 0, ROOT_LEN \div 2 - 1, ROOT_LEN \div 2 }
Seconds == IF DIM = 2 THEN InRoot
           ELSE { Ancestor(Quad(c, MAXLEVEL), l) : c \in [Axes -> Places], l \in 0 .. MAXLEVEL }

Init == pair \in { [ q |-> q ] : q \in InRoot }
Ask  == /\ "r" \notin DOMAIN pair
        /\ \E r \in Seconds : pair' = [ q |-> pair.q, r |-> r ]
Spec == Init /\ [][Ask]_pair

Fits(q) == q.level <= MORT_MAXLEVEL
Mort(q) == MortWord(LinearId(q, MORT_MAXLEVEL), q.level)
Lane(q) == Yx([a \in Lanes |-> IF a \in Axes THEN q.c[a] ELSE 0], q.level)

(***************************************************************************)
(* Properties.                                                             *)
(***************************************************************************)
\* What two quadrants are to each other does not depend on the representation,
\* except for a word and its ancestor in the same corner (compare), words deeper than
\* the exclusive or is wide (is_ancestor), and lanes that only look like a parent
\* (YxParentsAreParents).  The common ancestor that the words give lies where it should,
\* but for the deepest words with themselves; it is not on the right level if the level
\* of the first word has a bit that the right one lacks, as for most pairs.
QueriesAgreeFor(q, r) ==
  /\ Sign(YxCompare(Lane(q), Lane(r))) = Sign(Compare(q, r))
  /\ YxIsAncestor(Lane(q), Lane(r)) = IsAncestor(q, r)
  /\ IsParent(q, r) => YxIsParent(Lane(q), Lane(r))
  /\ YxNearestCommonAncestor(Lane(q), Lane(r)) = Lane(NearestCommonAncestor(q, r))
  /\ (Fits(q) /\ Fits(r)) =>
       /\ (q.c # r.c \/ q.level >= r.level) =>
            Sign(MortCompare(Mort(q), Mort(r))) = Sign(Compare(q, r))
       /\ DIM * q.level <= LaneBits => MortIsAncestor(Mort(q), Mort(r)) = IsAncestor(q, r)
       /\ MortIsParent(Mort(q), Mort(r)) = IsParent(q, r)
       /\ (q.c # r.c \/ MinLevel(q, r) < MORT_MAXLEVEL) =>
            LET found == MortNearestCommonAncestor(Mort(q), Mort(r))
                right == NearestCommonAncestor(q, r)
            IN  /\ MortCoordBits(found) = MortCoordBits(Mort(right))
                /\ found = Mort(right) <=> BitsOf(q.level) \subseteq BitsOf(right.level)
QueriesAgree == "r" \in DOMAIN pair => QueriesAgreeFor(pair.q, pair.r)

\* A quadrant is called a parent only if it is one.
YxParentsAreParents ==
  "r" \in DOMAIN pair =>
    (YxIsParent(Lane(pair.q), Lane(pair.r)) => IsParent(pair.q, pair.r))

SameLanes(x, y) == x.l = y.l /\ \A a \in Axes : x.x[a] = y.x[a]
NotFirst(q) == \E a \in Axes : q.c[a] # 0
NotLast(q)  == \E a \in Axes : q.c[a] # ROOT_LEN - QuadrantLen(q.level)
AtFace(q, f) == q.c[Axis(f)] = IF IsUpper(f) THEN ROOT_LEN - QuadrantLen(q.level) ELSE 0
Boundaries(q) ==
  [a \in Axes |-> IF q.level = 0 THEN -2
                  ELSE IF AtFace(q, 2 * (a - 1)) THEN 2 * (a - 1)
                  ELSE IF AtFace(q, 2 * (a - 1) + 1) THEN 2 * (a - 1) + 1 ELSE -1]
Beyond(q, f) ==
  Quad([q.c EXCEPT ![Axis(f)] = @ + QuadrantLen(q.level) * (IF IsUpper(f) THEN 1 ELSE -1)],
       q.level)
Faces == 0 .. 2 * DIM - 1

YxDerivesRight(q) ==
  LET y == Lane(q)
  IN  /\ YxIsValid(y)
      /\ \A l \in 0 .. q.level :
           /\ YxAncestorId(y, l) = AncestorId(q, l)
           /\ l < q.level => YxAncestor(y, l) = Lane(Ancestor(q, l))
      /\ \A l \in q.level .. MAXLEVEL :
           /\ YxFirstDescendant(y, l) = Lane(FirstDescendant(q, l))
           /\ SameLanes(YxLastDescendant(y, l), Lane(LastDescendant(q, l)))
           /\ YxLinearId(y, l) = LinearId(q, l) /\ YxMorton(q.level, LinearId(q, q.level)) = y
      /\ q.level > 0 => /\ YxParent(y) = Lane(Parent(q))
                        /\ \A id \in Ids : YxSibling(y, id) = Lane(Sibling(q, id))
      /\ q.level < MAXLEVEL => \A id \in Ids : YxChild(y, id) = Lane(Child(q, id))
      /\ NotLast(q) => YxSuccessor(y) = Lane(Successor(q))
      /\ (NotFirst(q) /\ ChildId(q) # 0) => YxPredecessor(y) = Lane(Predecessor(q))
      /\ YxBoundaries(y) = Boundaries(q)
      /\ \A f \in Faces : /\ YxOnBoundary(y, f) = AtFace(q, f)
                          /\ ~ AtFace(q, f) => YxFaceNeighbor(y, f) = Lane(Beyond(q, f))

MortDerivesRight(q) ==
  LET w == Mort(q)
  IN  /\ MortIsValid(w)
      /\ \A l \in 0 .. q.level :
           /\ MortAncestorId(w, l) = AncestorId(q, l)
           /\ l < q.level => MortAncestor(w, l) = Mort(Ancestor(q, l))
      /\ \A l \in q.level .. MORT_MAXLEVEL :
           /\ MortFirstDescendant(w, l) = Mort(FirstDescendant(q, l))
           /\ MortLastDescendant(w, l) = Mort(LastDescendant(q, l))
           /\ MortLinearId(w, l) = LinearId(q, l) /\ MortMorton(q.level, LinearId(q, q.level)) = w
      /\ q.level > 0 => /\ MortParent(w) = Mort(Parent(q))
                        /\ \A id \in Ids : MortSibling(w, id) = Mort(Sibling(q, id))
      /\ q.level < MORT_MAXLEVEL => \A id \in Ids : MortChild(w, id) = Mort(Child(q, id))
      /\ NotLast(q) => MortSuccessor(w) = Mort(Successor(q))
      /\ NotFirst(q) => MortPredecessor(w) = Mort(Predecessor(q))
      /\ MortBoundaries(w) = Boundaries(q)
      /\ \A f \in Faces : /\ MortOnBoundary(w, f) = AtFace(q, f)
                          /\ ~ AtFace(q, f) => MortFaceNeighbor(w, f) = Mort(Beyond(q, f))

\* from one representation to the other, where the words keep all bits, and back
TranslatesRight(q) ==
  /\ MortToYx(Mort(q)) = Lane(q)
  /\ DIM * q.level <= LaneBits - 1 => YxToMort(Lane(q)) = Mort(q)

\* across a face into the next tree, for quadrants above the deepest level
Transforms ==
  LET permuted == { p \in [Axes -> Axes] : \A a, b \in Axes : p[a] = p[b] => a = b }
  IN  [ my : permuted, target : permuted, reverse : [1 .. DIM - 1 -> BOOLEAN], upper : BOOLEAN ]
AcrossRight(q) ==
  LET mirror(x) == ROOT_LEN - QuadrantLen(q.level) - x
      there(t)  == [b \in Axes |->
                      LET a == CHOOSE a \in Axes : t.target[a] = b
                      IN  IF a = DIM THEN IF t.upper THEN mirror(0) ELSE 0
                          ELSE IF t.reverse[a] THEN mirror(q.c[t.my[a]]) ELSE q.c[t.my[a]]]
  IN  \A t \in Transforms :
        /\ q.level < MAXLEVEL =>
             YxTreeFaceNeighbor(Lane(q), t) = Lane(Quad(there(t), q.level))
        /\ q.level < MORT_MAXLEVEL =>
             MortTreeFaceNeighbor(Mort(q), t) = Mort(Quad(there(t), q.level))
DerivationsAgreeFor(q) ==
  /\ YxDerivesRight(q) /\ AcrossRight(q)
  /\ Fits(q) => MortDerivesRight(q) /\ TranslatesRight(q)
\* What is derived from one quadrant, word by word and lane by lane, represents what
\* QuadrantBits derives, up to the lane z in two dimensions, with the exception of the
\* lanes' predecessor across a family, and of neighbours across trees at the deepest level.
DerivationsAgree == DOMAIN pair = {"q"} => DerivationsAgreeFor(pair.q)
==============================================================================
