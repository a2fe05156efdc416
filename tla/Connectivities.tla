---------------------------- MODULE Connectivities ----------------------------
(***************************************************************************)
(* The connectivities that src/p4est_connectivity.c builds in two          *)
(* dimensions: tables written by hand, two trees joined at any faces, the  *)
(* disk with periodic sides, and the brick in Morton order.  A result is   *)
(* the connectivity and, where its vertices tell which trees touch, the    *)
(* table tree_to_vertex.                                                   *)
(***************************************************************************)
EXTENDS TreeTransforms

\* rows of four, as they are written in the code, counted from 0
Table(rows) == [t \in 0 .. Len(rows) - 1 |-> [i \in 0 .. 3 |-> rows[t + 1][i + 1]]]
Same(n, v)  == [i \in 1 .. n |-> << v, v, v, v >>]

\* p4est_connectivity_new_copy with rows for the faces, the corners counted
\* from 1, and the groups of the corners
Copy(ttt, ttf, ttc, touch) ==
  [ tree |-> Table(ttt), face |-> Table(ttf), corner |-> Table(ttc), touch |-> touch ]

\* n trees that do not touch
Isolated(n) == Copy([t \in 1 .. n |-> << t - 1, t - 1, t - 1, t - 1 >>],
                    [t \in 1 .. n |-> << 0, 1, 2, 3 >>], Same(n, 0), << >>)

Built(conn, ttv) == [ conn |-> conn, ttv |-> ttv ]
NoVertices       == << >>

Periodic == Built(Copy(<< << 0, 0, 0, 0 >> >>, << << 1, 0, 3, 2 >> >>, Same(1, 1),
                       << [i \in 1 .. 4 |-> << 0, i - 1 >>] >>), NoVertices)
Rotwrap  == Built(Copy(<< << 0, 0, 0, 0 >> >>, << << 1, 0, 7, 6 >> >>, Same(1, 1),
                       << [i \in 1 .. 4 |-> << 0, i - 1 >>] >>), NoVertices)
Drop == Built(
  Copy(<< << 0,1,0,4 >>, << 0,2,1,1 >>, << 2,2,1,3 >>, << 4,2,3,3 >>, << 4,4,0,3 >> >>,
       << << 0,0,2,2 >>, << 1,2,2,3 >>, << 0,1,1,1 >>, << 3,3,2,3 >>, << 0,1,3,0 >> >>,
       << << 0,0,0,1 >>, << 0,0,1,0 >>, << 0,0,0,0 >>, << 0,0,0,0 >>, << 0,1,0,0 >> >>,
       << << << 0, 3 >>, << 1, 2 >>, << 4, 1 >> >> >>),
  Table(<< << 0,1,3,4 >>, << 1,2,4,5 >>, << 5,2,7,9 >>, << 6,7,8,9 >>, << 3,4,8,6 >> >>))
Corner == Built(
  Copy(<< << 1,0,0,2 >>, << 1,2,0,1 >>, << 1,2,0,2 >> >>,
       << << 2,1,2,2 >>, << 0,0,0,3 >>, << 1,1,3,3 >> >>,
       << << 0,0,1,0 >>, << 0,1,0,0 >>, << 1,0,0,0 >> >>,
       << << << 0, 2 >>, << 1, 1 >>, << 2, 0 >> >> >>),
  Table(<< << 0,1,2,3 >>, << 0,2,6,5 >>, << 2,3,5,4 >> >>))
Pillow == Built(Copy(<< << 1,1,1,1 >>, << 0,0,0,0 >> >>, << << 0,1,2,3 >>, << 0,1,2,3 >> >>,
                     Same(2, 0), << >>),
                Table(<< << 0,1,2,3 >>, << 0,1,2,3 >> >>))
Moebius == Built(
  Copy(<< << 4,1,0,0 >>, << 0,2,1,1 >>, << 1,3,2,2 >>, << 3,3,2,4 >>, << 4,4,3,0 >> >>,
       << << 7,4,2,3 >>, << 5,4,2,3 >>, << 5,2,2,3 >>, << 0,1,1,2 >>, << 0,1,3,4 >> >>,
       Same(5, 0), << >>),
  Table(<< << 0,2,1,3 >>, << 3,5,2,4 >>, << 4,6,5,7 >>, << 6,7,9,8 >>, << 9,8,1,0 >> >>))
Star == Built(
  Copy(<< << 1,0,5,0 >>, << 2,1,0,1 >>, << 1,2,2,3 >>, << 3,2,3,4 >>, << 4,5,3,4 >>, << 5,0,5,4 >> >>,
       << << 2,1,5,3 >>, << 4,1,0,3 >>, << 4,1,2,5 >>, << 0,7,2,2 >>, << 0,7,3,3 >>, << 0,6,2,5 >> >>,
       << << 1,0,0,0 >>, << 1,0,0,0 >>, << 0,0,1,0 >>, << 0,0,0,1 >>, << 0,1,0,0 >>, << 0,0,0,1 >> >>,
       << << << 0, 0 >>, << 1, 0 >>, << 2, 2 >>, << 3, 3 >>, << 4, 1 >>, << 5, 3 >> >> >>),
  Table(<< << 0,1,3,2 >>, << 0,3,5,4 >>, << 5,6,0,7 >>, << 8,7,9,0 >>, << 9,0,10,11 >>,
           << 12,1,11,0 >> >>))
Cubed == Built(
  Copy(<< << 4,1,2,5 >>, << 0,3,2,5 >>, << 0,3,4,1 >>, << 2,5,4,1 >>, << 2,5,0,3 >>, << 4,1,0,3 >> >>,
       << << 2,0,0,2 >>, << 1,3,3,1 >>, << 2,0,0,2 >>, << 1,3,3,1 >>, << 2,0,0,2 >>, << 1,3,3,1 >> >>,
       Same(6, 0), << >>),
  Table(<< << 0,2,1,3 >>, << 2,6,3,7 >>, << 0,4,2,6 >>, << 4,5,6,7 >>, << 0,1,4,5 >>,
           << 1,3,5,7 >> >>))
\* the vertices are those of the flat net, which does not close
Icosahedron == Built(
  Copy([t \in 1 .. 10 |-> IF t % 2 = 1
          THEN << (t + 7) % 10, t, (t + 8) % 10, (t + 1) % 10 >>
          ELSE << t - 2, (t + 1) % 10, (t + 7) % 10, t % 10 >>],
       [t \in 1 .. 10 |-> IF t % 2 = 1 THEN << 7, 0, 3, 4 >> ELSE << 1, 6, 5, 2 >>],
       [t \in 1 .. 10 |-> IF t % 2 = 1 THEN << 0, 0, 1, 0 >> ELSE << 0, 2, 0, 0 >>],
       << [i \in 1 .. 5 |-> << 2 * i - 2, 2 >>], [i \in 1 .. 5 |-> << 2 * i - 1, 1 >>] >>),
  NoVertices)
Bowtie == Built(
  Copy(<< << 0,0,0,0 >>, << 1,1,1,1 >> >>, << << 0,1,2,3 >>, << 0,1,2,3 >> >>,
       << << 0,0,0,1 >>, << 0,0,1,0 >> >>, << << << 0, 3 >>, << 1, 2 >> >> >>),
  Table(<< << 2,5,0,3 >>, << 6,4,3,1 >> >>))

(***************************************************************************)
(* The disk                                                                *)
(***************************************************************************)
DiskNonperiodic == Built(
  Copy(<< << 1,3,0,2 >>, << 1,2,0,4 >>, << 1,3,0,4 >>, << 2,3,0,4 >>, << 1,3,2,4 >> >>,
       << << 2,6,2,2 >>, << 0,0,0,4 >>, << 1,0,3,2 >>, << 1,1,5,1 >>, << 7,3,3,3 >> >>,
       Same(5, 0), << >>),
  Table(<< << 4,5,0,1 >>, << 4,0,6,2 >>, << 0,1,2,3 >>, << 1,5,3,7 >>, << 2,3,6,7 >> >>))

\* where entry i of the list of corners is taken from
DiskOrder(i, a) == IF i < 2 \/ i >= 6 \/ a THEN i ELSE IF i < 4 THEN i + 2 ELSE i - 2

\* p4est_connectivity_new_disk with one or two periodic pairs of sides
Disk(a, b) ==
  LET d    == DiskNonperiodic.conn
      in   == << << 0, 0 >>, << 1, 0 >>, << 0, 1 >>, << 3, 1 >>,
                 << 1, 2 >>, << 4, 2 >>, << 3, 3 >>, << 4, 3 >> >>
      list == [i \in 1 .. 8 |-> in[DiskOrder(i - 1, a) + 1]]
      two  == a # b
      Number(t, c) == CASE << t, c >> \in { << 0, 0 >>, << 1, 0 >> } -> 1
                        [] << t, c >> \in { << 0, 1 >>, << 3, 1 >> } -> IF a THEN 1 ELSE 2
                        [] << t, c >> \in { << 1, 2 >>, << 4, 2 >> } -> IF b THEN 1 ELSE 2
                        [] << t, c >> \in { << 3, 3 >>, << 4, 3 >> } -> IF a /\ b THEN 1 ELSE 2
                        [] OTHER -> 0
      Side2(tab, t, f, u, g, x, y) == [tab EXCEPT ![t][f] = x, ![u][g] = y]
      A(tab, x, y) == IF a THEN Side2(tab, 1, 0, 3, 1, x, y) ELSE tab
      B(tab, x, y) == IF b THEN Side2(tab, 0, 2, 4, 3, x, y) ELSE tab
  IN  Built([ tree   |-> B(A(d.tree, 3, 1), 4, 0),
              face   |-> B(A(d.face, 1, 0), 3, 2),
              corner |-> [t \in 0 .. 4 |-> [c \in 0 .. 3 |-> Number(t, c)]],
              touch  |-> IF two THEN << SubSeq(list, 1, 4), SubSeq(list, 5, 8) >> ELSE << list >> ],
            NoVertices)

(***************************************************************************)
(* Two trees                                                               *)
(***************************************************************************)
LeftTree  == Table(<< << 1,0,4,3 >>, << 0,1,3,4 >>, << 1,4,0,3 >>, << 0,3,1,4 >> >>)
RightTree == Table(<< << 1,2,4,5 >>, << 2,1,5,4 >>, << 1,4,2,5 >>, << 2,5,1,4 >> >>)
Flip(v)   == IF v >= 4 THEN v - 3 ELSE v + 3

\* p4est_connectivity_new_twotrees
Twotrees(l, r, o) ==
  Built([Isolated(2) EXCEPT !.tree[0][l] = 1, !.tree[1][r] = 0,
                            !.face[0][l] = 4 * o + r, !.face[1][r] = 4 * o + l],
        [t \in 0 .. 1 |-> IF t = 0 THEN LeftTree[l]
                          ELSE [i \in 0 .. 3 |-> IF o = 1 THEN Flip(RightTree[r][i])
                                                 ELSE RightTree[r][i]]])

(***************************************************************************)
(* The brick                                                               *)
(***************************************************************************)
\* SC_LOG2_32 (m - 1) + 1
Log(m)   == CHOOSE l \in 0 .. m : 2 ^ l >= m /\ \A k \in 0 .. l - 1 : 2 ^ k < m
Short(m, n) == IF Log(m) <= Log(n) THEN Log(m) ELSE Log(n)

\* brick_xyz_to_linear: interleave the bits both axes have, the rest of the
\* longer one on top
XYToLinear(x, y, m, n) ==
  LET s == Short(m, n)
      Spread(v) == SumSet({ 4 ^ b * ((v \div 2 ^ b) % 2) : b \in 0 .. s - 1 })
      long == IF Log(m) <= Log(n) THEN y ELSE x
  IN  Spread(x) + 2 * Spread(y) + 4 ^ s * (long \div 2 ^ s)

\* brick_linear_to_xyz
LinearToXY(ti, m, n) ==
  LET s == Short(m, n)
      Gather(v) == SumSet({ 2 ^ b * ((v \div 4 ^ b) % 2) : b \in 0 .. s - 1 })
      rest == 2 ^ s * (ti \div 4 ^ s)
      low  == ti % (4 ^ s)
  IN  IF Log(m) <= Log(n) THEN << Gather(low), Gather(low \div 2) + rest >>
      ELSE << Gather(low) + rest, Gather(low \div 2) >>

\* the tree whose upper right corner is corner i of the tree at (x, y)
CornerHolder(x, y, i) ==
  << IF i \in { 0, 2 } THEN x - 1 ELSE x, IF i \in { 0, 1 } THEN y - 1 ELSE y >>

\* p4est_connectivity_new_brick
Brick(m, n, pa, pb) ==
  LET all  == 0 .. 2 ^ (Log(m) + Log(n)) - 1
      At   == [ti \in all |-> LinearToXY(ti, m, n)]
      grid == SelectSeq([i \in 1 .. Cardinality(all) |-> i - 1],
                        LAMBDA ti : At[ti][1] < m /\ At[ti][2] < n)
      pos  == [t \in 0 .. m * n - 1 |-> At[grid[t + 1]]]
      Tree(p)   == LET ti == XYToLinear((p[1] + m) % m, (p[2] + n) % n, m, n)
                   IN  Cardinality({ i \in DOMAIN grid : grid[i] < ti })
      Far(a)    == IF a = 0 THEN m - 1 ELSE n - 1
      periodic  == [a \in Axes |-> IF a = 0 THEN pa ELSE pb]
      Outside(t, a, j) == ~ periodic[a] /\ pos[t][a + 1] = IF j = 0 THEN 0 ELSE Far(a)
      Step(t, f) == [pos[t] EXCEPT ![(f \div 2) + 1] = @ + 2 * (f % 2) - 1]
      holders   == { t \in DOMAIN pos : ~ Outside(t, 0, 1) /\ ~ Outside(t, 1, 1) }
      Number(t) == Cardinality({ u \in holders : u <= t })
      corner == [t \in DOMAIN pos |-> [i \in Corners |->
                   IF \E a \in Axes : Outside(t, a, Side(i, a)) THEN 0
                   ELSE Number(Tree(CornerHolder(pos[t][1], pos[t][2], i)))]]
  IN  Built([ tree |-> [t \in DOMAIN pos |-> [f \in Faces |->
                          IF Outside(t, f \div 2, f % 2) THEN t ELSE Tree(Step(t, f))]],
              face |-> [t \in DOMAIN pos |-> [f \in Faces |->
                          IF Outside(t, f \div 2, f % 2) THEN f ELSE f + 1 - 2 * (f % 2)]],
              corner |-> corner,
              touch  |-> [k \in 1 .. Cardinality(holders) |-> [i \in 1 .. 4 |->
                            << CHOOSE t \in DOMAIN pos : corner[t][4 - i] = k, 4 - i >>]] ],
            IF pa \/ pb THEN NoVertices
            ELSE [t \in DOMAIN pos |-> [i \in Corners |->
                    pos[t][1] + Side(i, 0) + (m + 1) * (pos[t][2] + Side(i, 1))]])
==============================================================================
