---------------------------- MODULE TreeTransforms ----------------------------
(***************************************************************************)
(* How a point or a quadrant of one tree is seen from another: the face    *)
(* and corner transforms of src/p4est_bits.c, the neighbour transforms and *)
(* the canonical form of points of src/p4est_connectivity.c, in two        *)
(* dimensions.  Axes are numbered from 0 as in the code.                   *)
(***************************************************************************)
EXTENDS Connectivity

CONSTANT MAXLEVEL     \* P4EST_MAXLEVEL
MaxlevelAssumption == MAXLEVEL \in Nat \ {0}

ROOT_LEN       == 2 ^ MAXLEVEL
QuadrantLen(l) == 2 ^ (MAXLEVEL - l)
Axes           == 0 .. 1
Quad(c, l)     == [ c |-> c, level |-> l ]

(***************************************************************************)
(* Across a face                                                           *)
(***************************************************************************)
\* p4est_expand_face_transform_internal: the tangential and the normal axis
\* on both sides, whether the tangential one is reversed, and which of the
\* four cases the normal one is
FaceTransform(f, code) ==
  LET nf == code % 4
  IN  [ my      |-> << 1 - (f \div 2), f \div 2 >>,
        target  |-> << 1 - (nf \div 2), nf \div 2 >>,
        reverse |-> code \div 4,
        normal  |-> 2 * (f % 2) + (nf % 2) ]

\* p4est_quadrant_transform_face for a quadrant of length -mh, and with mh = 0
\* p4est_coordinates_transform_face
Across(ft, c, mh) ==
  LET x == c[ft.my[1]]
      z == c[ft.my[2]]
  IN  [a \in Axes |->
        IF a = ft.target[1] THEN IF ft.reverse = 0 THEN x ELSE ROOT_LEN + mh - x
        ELSE IF ft.normal = 0 THEN mh - z
        ELSE IF ft.normal = 1 THEN z + ROOT_LEN
        ELSE IF ft.normal = 2 THEN z - ROOT_LEN
        ELSE 2 * ROOT_LEN + mh - z]

\* a quadrant on level MAXLEVEL stands for a point
MinusLen(q) == IF q.level = MAXLEVEL THEN 0 ELSE - QuadrantLen(q.level)

TransformFace(conn, t, f, q) ==
  Quad(Across(FaceTransform(f, conn.face[t][f]), q.c, MinusLen(q)), q.level)

(***************************************************************************)
(* Across a corner                                                         *)
(***************************************************************************)
Side(c, a) == IF a = 0 THEN c % 2 ELSE c \div 2

\* p4est_coordinates_transform_corner
CornerPoint(c) == [a \in Axes |-> Side(c, a) * ROOT_LEN]

\* p4est_quadrant_transform_corner with inside = 0
TransformCorner(q, c) ==
  Quad([a \in Axes |-> IF Side(c, a) = 0 THEN MinusLen(q) ELSE ROOT_LEN], q.level)

\* p4est_quadrant_touches_corner
TouchesCorner(q, c, inside) ==
  LET lower == IF inside THEN 0 ELSE MinusLen(q)
      upper == IF ~ inside THEN ROOT_LEN
               ELSE IF q.level = MAXLEVEL THEN ROOT_LEN - 1 ELSE ROOT_LEN + MinusLen(q)
  IN  \A a \in Axes : q.c[a] = IF Side(c, a) = 0 THEN lower ELSE upper

(***************************************************************************)
(* Neighbour transforms: an axis permutation, signs and two origins        *)
(***************************************************************************)
SelfTransform(t) ==
  [ tree |-> t, perm |-> [a \in Axes |-> a], sign |-> [a \in Axes |-> 1],
    self |-> [a \in Axes |-> 0], other |-> [a \in Axes |-> 0] ]

\* mutant: the origins of both sides are swapped
OfFace_Swapped(t, ft) ==
  [ tree  |-> t,
    perm  |-> [a \in Axes |-> IF a = ft.target[1] THEN ft.my[1] ELSE ft.my[2]],
    sign  |-> [a \in Axes |->
       IF a = ft.target[1] THEN IF ft.reverse = 1 THEN -1 ELSE 1
       ELSE IF ft.normal \in { 0, 3 } THEN -1 ELSE 1],
    self  |-> [a \in Axes |->
       IF a = ft.my[1] THEN ROOT_LEN \div 2
       ELSE IF ft.normal \in { 1, 3 } THEN ROOT_LEN ELSE 0],
    other |-> [a \in Axes |->
       IF a = ft.target[1] THEN ROOT_LEN \div 2
       ELSE IF ft.normal \in { 2, 3 } THEN ROOT_LEN ELSE 0] ]

\* p4est_face_transform_to_neighbor_transform
OfFace(t, ft) ==
  [ tree  |-> t,
    perm  |-> [a \in Axes |-> IF a = ft.target[1] THEN ft.my[1] ELSE ft.my[2]],
    sign  |-> [a \in Axes |->
       IF a = ft.target[1] THEN IF ft.reverse = 1 THEN -1 ELSE 1
       ELSE IF ft.normal \in { 0, 3 } THEN -1 ELSE 1],
    self  |-> [a \in Axes |->
       IF a = ft.my[1] THEN ROOT_LEN \div 2
       ELSE IF ft.normal \in { 2, 3 } THEN ROOT_LEN ELSE 0],
    other |-> [a \in Axes |->
       IF a = ft.target[1] THEN ROOT_LEN \div 2
       ELSE IF ft.normal \in { 1, 3 } THEN ROOT_LEN ELSE 0] ]

\* p4est_corner_transform_to_neighbor_transform; d is << tree, corner >>
OfCorner(c, d) ==
  [ tree  |-> d[1], perm |-> [a \in Axes |-> a],
    sign  |-> [a \in Axes |-> IF Side(c, a) # Side(d[2], a) THEN 1 ELSE -1],
    self  |-> [a \in Axes |-> Side(c, a) * ROOT_LEN],
    other |-> [a \in Axes |-> Side(d[2], a) * ROOT_LEN] ]

\* p4est_connectivity_get_neighbor_transforms: at a face and at a corner
FaceTransforms(conn, t, f) ==
  { SelfTransform(t) } \union
  { OfFace(conn.tree[t][g], FaceTransform(g, conn.face[t][g])) :
      g \in { h \in {f} : ~ IsBoundary(conn, t, h) } }
CornerTransforms(conn, t, c) ==
  UNION { FaceTransforms(conn, t, f) : f \in CornerFaces(c) } \union
  { OfCorner(c, d) : d \in ToSet(FindCornerTransform(conn, t, c)) }

\* p4est_neighbor_transform_coordinates, _reverse
Forth(nt, c) == [a \in Axes |-> nt.sign[a] * (c[nt.perm[a]] - nt.self[nt.perm[a]]) + nt.other[a]]
Back(nt, c) ==
  [b \in Axes |-> LET a == CHOOSE a \in Axes : nt.perm[a] = b
                  IN  nt.sign[a] * (c[a] - nt.other[a]) + nt.self[b]]

\* p4est_neighbor_transform_quadrant, _reverse: the lower corner of the image
Upper(q)       == [a \in Axes |-> q.c[a] + QuadrantLen(q.level)]
Lower(c, d)    == [a \in Axes |-> IF c[a] < d[a] THEN c[a] ELSE d[a]]
ForthQuad(nt, q) == Quad(Lower(Forth(nt, q.c), Forth(nt, Upper(q))), q.level)
BackQuad(nt, q)  == Quad(Lower(Back(nt, q.c), Back(nt, Upper(q))), q.level)

(***************************************************************************)
(* p4est_connectivity_coordinates_canonicalize                             *)
(***************************************************************************)
\* p4est_coordinates_compare: the Morton number of a point of a tree
Morton(c) == SumSet({ 4 ^ b * ((c[0] \div 2 ^ b) % 2) : b \in 0 .. MAXLEVEL })
           + SumSet({ 2 * 4 ^ b * ((c[1] \div 2 ^ b) % 2) : b \in 0 .. MAXLEVEL })
Lowest(S) == CHOOSE x \in S : \A y \in S :
               x[1] < y[1] \/ (x[1] = y[1] /\ Morton(x[2]) <= Morton(y[2]))

Contact(c, f)  == c[f \div 2] = (f % 2) * ROOT_LEN
Contacts(c)    == { f \in Faces : Contact(c, f) }

\* the images of a point in the trees that touch it, the tree itself included
SeenFrom(conn, t, c) ==
  { << t, c >> } \union
  { << conn.tree[t][f], Across(FaceTransform(f, conn.face[t][f]), c, 0) >> :
      f \in { g \in Contacts(c) : ~ IsBoundary(conn, t, g) } } \union
  { << d[1], CornerPoint(d[2]) >> : d \in UNION { ToSet(FindCornerTransform(conn, t, k)) :
      k \in { j \in Corners : CornerFaces(j) \subseteq Contacts(c) } } }

\* the lowest tree and in it the lowest coordinates
Canonicalize(conn, t, c) == Lowest(SeenFrom(conn, t, c))
==============================================================================
