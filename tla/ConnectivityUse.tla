--------------------------- MODULE ConnectivityUse ---------------------------
(***************************************************************************)
(* A connectivity is built, or put together again from single trees by     *)
(* joining its faces one pair after the other, and then changed by joining *)
(* boundary faces, as a program does with p4est_connectivity_join_faces.   *)
(***************************************************************************)
EXTENDS Connectivities

CONSTANTS Starts,    \* what is built: [conn, ttv, joins], joins being how
                     \* many pairs of boundary faces are joined afterwards
          PointLevel      \* of the quadrants that are transformed

VARIABLES built,     \* the start that was chosen
          conn,      \* the connectivity now
          todo,      \* the pairs of faces of built.conn still to be joined
          joined     \* the pairs of boundary faces joined since

vars == << built, conn, todo, joined >>

Across1(c, x) == << c.tree[x[1]][x[2]], NeighborFace(c, x[1], x[2]) >>

\* every pair of joined faces once
Pairs(c) == SelectSeq(AllCorners(c), LAMBDA x :       \* faces have the numbers of corners
              LET y == Across1(c, x) IN  x[1] < y[1] \/ (x[1] = y[1] /\ x[2] < y[2]))

Init ==
  /\ built \in Starts
  /\ joined = 0
  /\ \/ conn = built.conn /\ todo = << >>
     \/ /\ conn = Isolated(Cardinality(Trees(built.conn)))
        /\ todo = Pairs(built.conn)
        /\ todo # << >>

\* the next pair of faces of what is put together
Reassemble ==
  /\ todo # << >>
  /\ LET x == Head(todo)
     IN  conn' = JoinFaces(conn, x, Across1(built.conn, x), Orientation(built.conn, x[1], x[2]))
  /\ todo' = Tail(todo)
  /\ UNCHANGED << built, joined >>

OpenFaces == { x \in Trees(conn) \X Faces : IsBoundary(conn, x[1], x[2]) }

\* any two boundary faces
JoinTwo ==
  /\ todo = << >>
  /\ joined < built.joins
  /\ \E l, r \in OpenFaces, o \in 0 .. 1 :
       /\ l # r
       /\ conn' = JoinFaces(conn, l, r, o)
  /\ joined' = joined + 1
  /\ UNCHANGED << built, todo >>

Next == Reassemble \/ JoinTwo
Spec == Init /\ [][Next]_vars

(***************************************************************************)
(* Reference: a corner touches what a chain of faces and groups leads to   *)
(***************************************************************************)
AllPoints == Trees(conn) \X Corners
JoinedFaces == { x \in Trees(conn) \X Faces : ~ IsBoundary(conn, x[1], x[2]) }
Near(x) ==
  {x} \union FaceTouch(conn, x[1], x[2]) \union
  (IF conn.corner[x[1]][x[2]] = 0 THEN {} ELSE ToSet(conn.touch[conn.corner[x[1]][x[2]]]))

\* the permutations that are tried: a rotation and a swap
Perms == { [t \in Trees(conn) |-> (t + 1) % Cardinality(Trees(conn))],
           [t \in Trees(conn) |-> IF t = 0 THEN 1 % Cardinality(Trees(conn))
                                  ELSE IF t = 1 THEN 0 ELSE t] }

(***************************************************************************)
(* Properties                                                              *)
(***************************************************************************)
\* The hand-written and computed tables of p4est_connectivity_new_* say the
\* same as their vertices (p4est_connectivity_complete) and as their faces
\* joined one by one (p4est_connectivity_join_faces); reducing and completing
\* again, or permuting the trees, loses nothing.
BuiltRight ==
  joined = 0 /\ todo = << >> =>
    /\ IsEquivalent(conn, built.conn)
    /\ built.ttv # NoVertices =>
         LET n == Cardinality(Trees(conn))
         IN  /\ IsEquivalent(conn, Complete(Isolated(n), built.ttv))
             /\ IsEquivalent(conn, Complete(Reduce(conn), built.ttv))
             /\ \A p \in Perms :
                  IsEquivalent(Permute(conn, p),
                    Complete(Isolated(n),
                      [t \in Trees(conn) |-> built.ttv[CHOOSE u \in Trees(conn) : p[u] = t]]))

\* "The orientation is 0 for faces that are mutually direction-aligned and 1
\* for faces that are running in opposite directions" (p4est_connectivity.h):
\* where both trees of a face have the same vertices, these show the direction.
DirectionsMatch ==
  joined = 0 /\ todo = << >> /\ built.ttv # NoVertices =>
    \A x \in JoinedFaces :
      LET y == Across1(conn, x)
      IN  FaceKey(built.ttv, x[1], x[2]) = FaceKey(built.ttv, y[1], y[2]) =>
            Orientation(conn, x[1], x[2]) = VertexOrientation(built.ttv, x, y)

\* However faces are joined, every tree finds at each of its corners exactly
\* the corners that touch it there: itself, those across its faces and those
\* p4est_find_corner_transform returns, each once.
CornersExact ==
  /\ IsValid(conn)
  /\ \A x \in AllPoints :
       LET diag == FindCornerTransform(conn, x[1], x[2])
           sees == {x} \union FaceTouch(conn, x[1], x[2]) \union ToSet(diag)
       IN  /\ Cardinality(ToSet(diag)) = Len(diag)
           /\ conn.corner[x[1]][x[2]] # 0 =>
                Len(conn.touch[conn.corner[x[1]][x[2]]])
                  = Len(diag) + Cardinality({x} \union FaceTouch(conn, x[1], x[2]))
           /\ UNION { Near(y) : y \in sees } \subseteq sees

\* the points and quadrants of the closed root that are transformed
Points == [Axes -> { i * QuadrantLen(PointLevel) : i \in 0 .. 2 ^ PointLevel }]
Outside(f, a) == IF a # f \div 2 THEN { i * QuadrantLen(PointLevel) : i \in 0 .. 2 ^ PointLevel - 1 }
                 ELSE IF f % 2 = 0 THEN { - QuadrantLen(PointLevel) } ELSE { ROOT_LEN }
OutsideQuads(f) == { Quad(c, PointLevel) : c \in { d \in [Axes -> -ROOT_LEN .. ROOT_LEN] :
                                                \A a \in Axes : d[a] \in Outside(f, a) } }

\* A quadrant outside of a face is inside of the neighbour and comes back; the
\* three ways to transform it, or a point, agree; every tree that touches a
\* point gives it the same canonical form.
FaceTransformsAgree ==
  \A x \in JoinedFaces :
    LET t  == x[1]
        f  == x[2]
        nf == NeighborFace(conn, t, f)
        nt == OfFace(conn.tree[t][f], FaceTransform(f, conn.face[t][f]))
        bt == FaceTransform(nf, conn.face[conn.tree[t][f]][nf])
    IN  /\ \A q \in OutsideQuads(f) :
             LET r == TransformFace(conn, t, f, q)
             IN  /\ \A a \in Axes : r.c[a] >= 0 /\ r.c[a] < ROOT_LEN
                 /\ TransformFace(conn, conn.tree[t][f], nf, r) = q
                 /\ ForthQuad(nt, q) = r /\ BackQuad(nt, r) = q
        /\ \A p \in Points :
             LET r == Across(FaceTransform(f, conn.face[t][f]), p, 0)
             IN  Across(bt, r, 0) = p /\ Forth(nt, p) = r /\ Back(nt, r) = p
CornerTransformsAgree ==
  \A x \in AllPoints : \A d \in ToSet(FindCornerTransform(conn, x[1], x[2])) :
    LET out  == TransformCorner(Quad(CornerPoint(0), PointLevel), d[2])
        mine == BackQuad(OfCorner(x[2], d), out)
    IN  /\ TouchesCorner(out, d[2], FALSE) /\ TouchesCorner(mine, x[2], TRUE)
        /\ ForthQuad(OfCorner(x[2], d), mine) = out
        /\ Forth(OfCorner(x[2], d), CornerPoint(x[2])) = CornerPoint(d[2])
PointsAgree ==
  /\ \A t \in Trees(conn), p \in Points :
       \A y \in SeenFrom(conn, t, p) : Canonicalize(conn, y[1], y[2]) = Canonicalize(conn, t, p)
  /\ \A x \in AllPoints :
       { << nt.tree, Forth(nt, CornerPoint(x[2])) >> : nt \in CornerTransforms(conn, x[1], x[2]) }
         = SeenFrom(conn, x[1], CornerPoint(x[2]))
TransformsAgree == FaceTransformsAgree /\ CornerTransformsAgree /\ PointsAgree
==============================================================================
