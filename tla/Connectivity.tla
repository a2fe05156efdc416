----------------------------- MODULE Connectivity -----------------------------
(***************************************************************************)
(* src/p4est_connectivity.c in two dimensions: how the trees of a forest   *)
(* are glued together at faces and corners, and what builds and changes    *)
(* these tables.                                                           *)
(*                                                                         *)
(* A connectivity is a record.  tree and face are tree_to_tree and         *)
(* tree_to_face.  corner is tree_to_corner, with 0 for the code's -1 and   *)
(* numbers from 1 on.  touch is corner_to_tree with corner_to_corner, cut  *)
(* at ctt_offset: per numbered corner a sequence of << tree, corner >>.    *)
(***************************************************************************)
EXTENDS Integers, Sequences, FiniteSets, FiniteSetsExt, SequencesExt

Faces   == 0 .. 3
Corners == 0 .. 3

Trees(conn) == DOMAIN conn.tree

(***************************************************************************)
(* Faces and corners of one tree                                           *)
(***************************************************************************)
\* p4est_face_corners, p4est_corner_faces, p4est_corner_face_corners
FaceCorner(f, i) == IF f < 2 THEN f + 2 * i ELSE 2 * (f - 2) + i
CornerFaces(c)   == { c % 2, 2 + (c \div 2) }
FaceIndex(c, f)  == IF f < 2 THEN c \div 2 ELSE c % 2

IsBoundary(conn, t, f)   == conn.tree[t][f] = t /\ conn.face[t][f] = f
NeighborFace(conn, t, f) == conn.face[t][f] % 4
Orientation(conn, t, f)  == conn.face[t][f] \div 4

\* p4est_connectivity_face_neighbor_corner: corner c of tree t seen across face f
AcrossFace(conn, t, c, f) ==
  << conn.tree[t][f],
     FaceCorner(NeighborFace(conn, t, f), (FaceIndex(c, f) + Orientation(conn, t, f)) % 2) >>

\* the corners that the face neighbours have at corner c of tree t
FaceTouch(conn, t, c) ==
  { AcrossFace(conn, t, c, f) : f \in { g \in CornerFaces(c) : ~ IsBoundary(conn, t, g) } }

\* p4est_find_corner_transform_internal: the members of a group that are
\* neither the corner itself nor known from a face
Diagonals(conn, t, c, group) ==
  LET distinct == { << t, c >> } \union FaceTouch(conn, t, c)
  IN  SelectSeq(group, LAMBDA x : x \notin distinct)

FindCornerTransform(conn, t, c) ==
  IF conn.corner[t][c] = 0 THEN << >>
  ELSE Diagonals(conn, t, c, conn.touch[conn.corner[t][c]])

(***************************************************************************)
(* p4est_connectivity_is_valid                                             *)
(***************************************************************************)
FacesValid(conn) ==
  \A t \in Trees(conn), f \in Faces :
    LET nt == conn.tree[t][f]
        nf == NeighborFace(conn, t, f)
    IN  /\ nt \in Trees(conn) /\ conn.face[t][f] \in 0 .. 7
        /\ nt = t /\ nf = f => Orientation(conn, t, f) = 0
        /\ conn.tree[nt][nf] = t
        /\ conn.face[nt][nf] = f + 4 * Orientation(conn, t, f)

\* a group refers back to its number and names each of its members once
CornersValid(conn) ==
  Len(conn.touch) > 0 =>
    \A t \in Trees(conn), c \in Corners :
      LET k == conn.corner[t][c]
      IN  k # 0 =>
            /\ k \in 1 .. Len(conn.touch)
            /\ \A i \in 1 .. Len(conn.touch[k]) :
                 conn.corner[conn.touch[k][i][1]][conn.touch[k][i][2]] = k
            /\ Cardinality({ i \in 1 .. Len(conn.touch[k]) : conn.touch[k][i] = << t, c >> }) = 1

IsValid(conn) == FacesValid(conn) /\ CornersValid(conn)

(***************************************************************************)
(* p4est_connectivity_complete: faces and corners from shared vertices.    *)
(* ttv is tree_to_vertex.                                                  *)
(***************************************************************************)
\* all << tree, corner >> in the order in which the code meets them
AllCorners(conn) ==
  [i \in 1 .. 4 * Cardinality(Trees(conn)) |-> << (i - 1) \div 4, (i - 1) % 4 >>]
InOrder(conn, S) == SelectSeq(AllCorners(conn), LAMBDA x : x \in S)

\* p4est_conn_face_key
FaceKey(ttv, t, f) == { ttv[t][FaceCorner(f, 0)], ttv[t][FaceCorner(f, 1)] }

\* the other face with the same vertices
Partners(conn, ttv, t, f) ==
  { p \in Trees(conn) \X Faces : p # << t, f >> /\ FaceKey(ttv, p[1], p[2]) = FaceKey(ttv, t, f) }

\* mutant: each side measures the orientation from its own first corner
VertexOrientation_Own(ttv, a, b) ==
  IF a[1] < b[1] \/ (a[1] = b[1] /\ a[2] < b[2])
  THEN IF ttv[a[1]][FaceCorner(a[2], 0)] = ttv[b[1]][FaceCorner(b[2], 0)] THEN 0 ELSE 1
  ELSE 0

\* where the first corner of the face with the lower number is in the other
VertexOrientation(ttv, a, b) ==
  LET primary   == IF a[2] <= b[2] THEN a ELSE b
      secondary == IF a[2] <= b[2] THEN b ELSE a
      node      == ttv[primary[1]][FaceCorner(primary[2], 0)]
  IN  CHOOSE r \in 0 .. 1 : ttv[secondary[1]][FaceCorner(secondary[2], r)] = node

\* single faces keep what they have
WithFaces(conn, ttv) ==
  [conn EXCEPT
    !.tree = [t \in Trees(conn) |-> [f \in Faces |->
       IF Partners(conn, ttv, t, f) = {} THEN conn.tree[t][f]
       ELSE (CHOOSE p \in Partners(conn, ttv, t, f) : TRUE)[1]]],
    !.face = [t \in Trees(conn) |-> [f \in Faces |->
       IF Partners(conn, ttv, t, f) = {} THEN conn.face[t][f]
       ELSE LET p == CHOOSE p \in Partners(conn, ttv, t, f) : TRUE
            IN  p[2] + 4 * VertexOrientation(ttv, << t, f >>, p)]]]

AtVertex(conn, ttv, node) == InOrder(conn, { x \in ToSet(AllCorners(conn)) : ttv[x[1]][x[2]] = node })

\* every member knows all others from its faces
Redundant(conn, group) ==
  \A i \in 1 .. Len(group) : Diagonals(conn, group[i][1], group[i][2], group) = << >>

\* corners shared by two trees or more are numbered unless they are redundant
WithCorners(conn, ttv) ==
  LET nodes  == { ttv[t][c] : t \in Trees(conn), c \in Corners }
      real   == { n \in nodes : LET g == AtVertex(conn, ttv, n)
                                IN  Len(g) > 1 /\ ~ Redundant(conn, g) }
      number == [n \in nodes |-> IF n \in real THEN Cardinality({ m \in real : m <= n }) ELSE 0]
  IN  [conn EXCEPT
        !.corner = [t \in Trees(conn) |-> [c \in Corners |-> number[ttv[t][c]]]],
        !.touch  = [k \in 1 .. Cardinality(real) |->
                      AtVertex(conn, ttv, CHOOSE n \in real : number[n] = k)]]

Complete(conn, ttv) == WithCorners(WithFaces(conn, ttv), ttv)

\* p4est_connectivity_reduce
Reduce(conn) ==
  [conn EXCEPT !.corner = [t \in Trees(conn) |-> [c \in Corners |-> 0]], !.touch = << >>]

(***************************************************************************)
(* p4est_connectivity_join_faces                                           *)
(***************************************************************************)
\* mutant: the corner is stored without its face neighbours
StoreCorner_Alone(conn, t, c) ==
  [conn EXCEPT !.corner[t][c] = Len(conn.touch) + 1,
               !.touch = Append(@, << << t, c >> >>)]

\* p4est_connectivity_store_corner: what was implied by faces gets a number
StoreCorner(conn, t, c) ==
  LET group == { << t, c >> } \union FaceTouch(conn, t, c)
  IN  [conn EXCEPT
        !.corner = [u \in Trees(conn) |-> [d \in Corners |->
           IF << u, d >> \in group THEN Len(conn.touch) + 1 ELSE conn.corner[u][d]]],
        !.touch = Append(@, InOrder(conn, group))]

Stored(conn, t, c) == IF conn.corner[t][c] = 0 THEN StoreCorner(conn, t, c) ELSE conn

\* p4est_connectivity_join_corners: the higher number is left without members
Unite(s, gone, c0, c1) ==
  [s EXCEPT
    !.corner = [t \in Trees(s) |-> [c \in Corners |->
                  IF << t, c >> \in gone THEN c0 ELSE s.corner[t][c]]],
    !.touch  = [k \in DOMAIN s.touch |->
                  IF k = c0 THEN s.touch[c0] \o s.touch[c1]
                  ELSE IF k = c1 THEN << >> ELSE s.touch[k]]]
UniteNumbers(s, a, b) ==
  IF a = b THEN s
  ELSE IF a < b THEN Unite(s, ToSet(s.touch[b]), a, b) ELSE Unite(s, ToSet(s.touch[a]), b, a)
UniteStored(s, x, y) == UniteNumbers(s, s.corner[x[1]][x[2]], s.corner[y[1]][y[2]])
JoinCorners(conn, x, y) ==
  UniteStored(Stored(Stored(conn, x[1], x[2]), y[1], y[2]), x, y)

\* left and right are << tree, face >>
JoinSide(conn, left, right, o, i) ==
  JoinCorners(conn, << left[1], FaceCorner(left[2], i) >>,
                    << right[1], FaceCorner(right[2], (i + o) % 2) >>)
JoinFaces(conn, left, right, o) ==
  [JoinSide(JoinSide(conn, left, right, o, 0), left, right, o, 1) EXCEPT
     !.tree[left[1]][left[2]]   = right[1],
     !.tree[right[1]][right[2]] = left[1],
     !.face[left[1]][left[2]]   = right[2] + 4 * o,
     !.face[right[1]][right[2]] = left[2] + 4 * o]

(***************************************************************************)
(* Comparison and permutation                                              *)
(***************************************************************************)
\* p4est_connectivity_is_equivalent: the numbering of corners does not matter
IsEquivalent(c1, c2) ==
  /\ c1.tree = c2.tree /\ c1.face = c2.face
  /\ \A t \in Trees(c1), c \in Corners :
       LET x == FindCornerTransform(c1, t, c)
           y == FindCornerTransform(c2, t, c)
       IN  Len(x) = Len(y) /\ ToSet(x) = ToSet(y)

\* p4est_connectivity_permute with the map from current to new numbers
Permute(conn, perm) ==
  LET old == [t \in Trees(conn) |-> CHOOSE u \in Trees(conn) : perm[u] = t]
  IN  [ tree   |-> [t \in Trees(conn) |-> [f \in Faces |-> perm[conn.tree[old[t]][f]]]],
        face   |-> [t \in Trees(conn) |-> conn.face[old[t]]],
        corner |-> [t \in Trees(conn) |-> conn.corner[old[t]]],
        touch  |-> [k \in DOMAIN conn.touch |-> [i \in DOMAIN conn.touch[k] |->
                      << perm[conn.touch[k][i][1]], conn.touch[k][i][2] >>]] ]
==============================================================================
