------------------------------- MODULE Neighbors -------------------------------
(***************************************************************************)
(* Who owns what lies around a quadrant, in two dimensions: the neighbour  *)
(* quadrants of src/p4est_bits.c, the owner searches of                    *)
(* src/p4est_communication.c and src/p4est_ghost.c, the boundary test of   *)
(* src/p4est_search.c.                                                     *)
(*                                                                         *)
(* A forest F is a record: the connectivity F.conn, the sequence F.leaves  *)
(* of [tree, quad] in Morton order, F.first[p] the number of leaves below  *)
(* process p (global_first_quadrant) and F.position, the place on the      *)
(* space filling curve where each process begins (global_first_position).  *)
(***************************************************************************)
EXTENDS TreeTransforms

CONSTANTS QMAXLEVEL,   \* P4EST_QMAXLEVEL
          NumProcs     \* p4est->mpisize

Procs == 0 .. NumProcs - 1

\* a function that is needed as a whole: << >> adds nothing, but TLC makes a
\* table of it, where it would evaluate each application anew
Eager(f) == f @@ << >>

\* the place of a quadrant on the curve through all trees
Key(t, c) == t * 4 ^ MAXLEVEL + Morton(c)
\* the quadrant of level QMAXLEVEL at a place of the curve
PlaceQuad(k) ==
  Quad([a \in Axes |-> SumSet({ 2 ^ b * ((k \div (4 ^ b * 2 ^ a)) % 2) : b \in 0 .. MAXLEVEL - 1 })],
       QMAXLEVEL)
PositionOf(conn, leaves, i) ==
  IF i = Len(leaves) THEN Key(Cardinality(Trees(conn)), [a \in Axes |-> 0])
  ELSE Key(leaves[i + 1].tree, leaves[i + 1].quad.c)
Forest(conn, leaves, first) ==
  [ conn |-> conn, leaves |-> leaves, first |-> first,
    position |-> [p \in 0 .. NumProcs |-> PositionOf(conn, leaves, first[p])] ]

\* the leaves of process p, as numbers in F.leaves
Local(F, p) == [k \in 1 .. F.first[p + 1] - F.first[p] |-> F.first[p] + k]

(***************************************************************************)
(* Neighbour quadrants                                                     *)
(***************************************************************************)
InsideRoot(q)     == \A a \in Axes : 0 <= q.c[a] /\ q.c[a] < ROOT_LEN
OutsideCorner(q)  == \A a \in Axes : q.c[a] < 0 \/ q.c[a] >= ROOT_LEN
QuadContact(q, f) == IF f % 2 = 0 THEN q.c[f \div 2] < 0 ELSE q.c[f \div 2] >= ROOT_LEN

FaceNeighbor(q, f) ==
  Quad([a \in Axes |-> q.c[a] + IF a # f \div 2 THEN 0
                                ELSE (2 * (f % 2) - 1) * QuadrantLen(q.level)], q.level)
\* p4est_quadrant_half_face_neighbors
HalfFaceNeighbor(q, f, i) ==
  LET half == QuadrantLen(q.level + 1)
  IN  Quad([a \in Axes |-> q.c[a] + IF a # f \div 2 THEN i * half
                                    ELSE IF f % 2 = 0 THEN - half ELSE 2 * half], q.level + 1)
CornerNeighbor(q, c) ==
  Quad([a \in Axes |-> q.c[a] + (2 * Side(c, a) - 1) * QuadrantLen(q.level)], q.level)
HalfCornerNeighbor(q, c) ==
  LET half == QuadrantLen(q.level + 1)
  IN  Quad([a \in Axes |-> q.c[a] + IF Side(c, a) = 0 THEN - half ELSE 2 * half], q.level + 1)
\* the smallest quadrant in the upper right corner, p4est_quadrant_last_descendant
UpperRight(q) ==
  Quad([a \in Axes |-> q.c[a] + QuadrantLen(q.level) - QuadrantLen(QMAXLEVEL)], QMAXLEVEL)
CornerDescendant(q, c) ==
  Quad([a \in Axes |-> q.c[a] + Side(c, a) * (QuadrantLen(q.level) - QuadrantLen(QMAXLEVEL))],
       QMAXLEVEL)
\* p4est_quadrant_transform_corner with inside = 1
IntoCorner(q, c) ==
  Quad([a \in Axes |-> Side(c, a) * (ROOT_LEN - QuadrantLen(q.level))], q.level)

\* the points on the boundary of a quadrant, no finer than half of the smallest
\* faces: the corners of smallest quadrants, and the middles of their faces
OnFace(q, f) ==
  { [a \in Axes |-> q.c[a] + IF a # f \div 2 THEN x ELSE (f % 2) * QuadrantLen(q.level)] :
      x \in 0 .. QuadrantLen(q.level) }
Frame(q)     == UNION { OnFace(q, f) : f \in Faces }
Grid(S)      == { c \in S : \A a \in Axes : c[a] % QuadrantLen(QMAXLEVEL) = 0 }
Mids(S)      == S \ Grid(S)
Points(q, corners) == IF corners THEN Grid(Frame(q)) ELSE Mids(Frame(q))

Bit(v, l)        == (v \div QuadrantLen(l)) % 2
AncestorId(q, l) == Bit(q.c[0], l) + 2 * Bit(q.c[1], l)

(***************************************************************************)
(* Owners                                                                  *)
(***************************************************************************)
\* p4est_comm_find_owner
RECURSIVE OwnerLoop(_, _, _, _, _)
OwnerLoop(position, key, low, high, guess) ==
  IF key < position[guess]
  THEN OwnerLoop(position, key, low, guess - 1, (low + guess) \div 2)
  ELSE IF key >= position[guess + 1]
  THEN OwnerLoop(position, key, guess + 1, high, (guess + 1 + high) \div 2)
  ELSE guess
FindOwner(F, t, q, guess) == OwnerLoop(F.position, Key(t, q.c), 0, NumProcs - 1, guess)

\* p4est_quadrant_find_owner, for a quadrant that is outside of one face at
\* most; -1 across a face without neighbour
QuadrantFindOwner(F, t, q, p) ==
  IF InsideRoot(q) THEN FindOwner(F, t, q, p)
  ELSE LET f == CHOOSE f \in Faces : QuadContact(q, f)
       IN  IF IsBoundary(F.conn, t, f) THEN -1
           ELSE FindOwner(F, F.conn.tree[t][f], TransformFace(F.conn, t, f, q), p)

\* p4est_comm_tree_info for full_tree: the process owns all of tree t
FullTree(F, p, t) ==
  F.position[p] <= t * 4 ^ MAXLEVEL /\ (t + 1) * 4 ^ MAXLEVEL <= F.position[p + 1]

\* p4est_comm_neighborhood_owned: in a tree that a process owns, only what
\* touches a face with another tree behind it has other neighbours
NeighborhoodOwned(F, p, t, q) ==
  LET n0 == CornerNeighbor(q, 0)
      n1 == CornerNeighbor(q, 3)
  IN  IF FullTree(F, p, t)
      THEN \A f \in Faces : ~ IsBoundary(F.conn, t, f) => InsideRoot(FaceNeighbor(q, f))
      ELSE /\ InsideRoot(n0) /\ InsideRoot(n1)
           /\ FindOwner(F, t, n0, p) = p /\ FindOwner(F, t, UpperRight(n1), p) = p

(***************************************************************************)
(* p4est_find_range_boundaries: which faces and corners of a quadrant on a *)
(* level are touched by its smallest descendants from lq to uq, None being *)
(* the quadrant's own first or last one.  Corner c has number 4 + c.       *)
(***************************************************************************)
None == [ none |-> TRUE ]
CornerBoundaries(c) == CornerFaces(c) \union { 4 + c }
AllBoundaries == 0 .. 7

\* below this level q is in the same corner of its ancestor on every level
LastLevel(q) ==
  LET id     == AncestorId(q, QMAXLEVEL)
      x      == [a \in Axes |-> q.c[a] + IF Side(id, a) = 1 THEN QuadrantLen(QMAXLEVEL) ELSE 0]
      zero   == { n \in 0 .. MAXLEVEL : \A a \in Axes : x[a] % (2 ^ (n + 1)) = 0 }
  IN  MAXLEVEL - Cardinality(zero) + 1

RECURSIVE LimitBoundaries(_, _, _, _, _, _)
LimitBoundaries(q, up, last_level, level, touch, mask) ==
  LET cid    == AncestorId(q, level)
      beyond == IF up THEN cid + 1 .. 3 ELSE 0 .. cid - 1
      next   == CornerBoundaries(cid) \intersect mask
      more   == touch \union (mask \intersect UNION { CornerBoundaries(c) : c \in beyond })
  IN  IF mask \subseteq touch THEN touch
      ELSE IF level = last_level THEN more \union next
      ELSE LimitBoundaries(q, up, last_level, level + 1, more, next)

RECURSIVE RangeBoundaries(_, _, _, _)
RangeBoundaries(lq, uq, level, mask) ==
  LET lcid  == AncestorId(lq, level)
      ucid  == AncestorId(uq, level)
      lnext == CornerBoundaries(lcid) \intersect mask
      unext == CornerBoundaries(ucid) \intersect mask
      inner == mask \intersect UNION { CornerBoundaries(c) : c \in lcid + 1 .. ucid - 1 }
      low   == inner \union IF LastLevel(lq) <= level THEN lnext
                 ELSE LimitBoundaries(lq, TRUE, LastLevel(lq), level + 1, inner, lnext)
  IN  IF mask = {} THEN {}
      ELSE IF lcid = ucid /\ level <= QMAXLEVEL THEN RangeBoundaries(lq, uq, level + 1, lnext)
      ELSE IF LastLevel(uq) <= level THEN low \union unext
      ELSE low \union LimitBoundaries(uq, FALSE, LastLevel(uq), level + 1, low, unext)

FindRangeBoundaries(lq, uq, level) ==
  LET from(q) == IF LastLevel(q) <= level THEN level + 1 ELSE LastLevel(q)
  IN  IF (lq = None /\ uq = None) \/ level = QMAXLEVEL THEN AllBoundaries
      ELSE IF lq = None
      THEN LimitBoundaries(uq, FALSE, from(uq), level + 1, {}, AllBoundaries)
      ELSE IF uq = None
      THEN LimitBoundaries(lq, TRUE, from(lq), level + 1, {}, AllBoundaries)
      ELSE RangeBoundaries(lq, uq, level + 1, AllBoundaries)
==============================================================================
