------------------------------- MODULE MCForests -------------------------------
(* Small forests for TLC. *)
EXTENDS Neighbors

Built == INSTANCE Connectivities

\* the leaves of quadrant q, which is child id: path[1] are the children that
\* are refined on this level, the tree itself being child 0
RECURSIVE Refined(_, _, _)
Refined(q, id, path) ==
  IF path = << >> \/ id \notin path[1] THEN << q >>
  ELSE FlattenSeq([c \in 1 .. 4 |->
         Refined(Quad([a \in Axes |-> q.c[a] + Side(c - 1, a) * QuadrantLen(q.level + 1)],
                      q.level + 1), c - 1, Tail(path))])
Root       == << >>
Once       == << {0} >>
Twice(c)   == << {0}, {c} >>
Deep(c, d) == << {0}, {c}, {d} >>
Leaves(conn, paths) ==
  FlattenSeq([t \in 1 .. Cardinality(Trees(conn)) |->
    LET s == Refined(Quad([a \in Axes |-> 0], 0), 0, paths[t])
    IN  [k \in DOMAIN s |-> [ tree |-> t - 1, quad |-> s[k] ]]])

Cuts(n) == { c \in [0 .. NumProcs -> 0 .. n] :
               c[0] = 0 /\ c[NumProcs] = n /\ \A p \in Procs : c[p] <= c[p + 1] }

Pair(r, o)       == Built!Twotrees(1, r, o).conn
Only(n, t, path) == [i \in 1 .. n |-> IF i = t THEN path ELSE Root]

\* p4est_find_range_boundaries does not expect that a process has nothing but
\* one smallest quadrant
Smallest(f, p) ==
  f.first[p + 1] = f.first[p] + 1 /\ f.leaves[f.first[p + 1]].quad.level = QMAXLEVEL

\* bound: process 1 has any part of the forest, and its ghost layer is exact or
\* there is none
Touch(conn, leaves) ==
  LET points == Eager([i \in DOMAIN leaves |->
        { Canonicalize(conn, leaves[i].tree, c) : c \in Points(leaves[i].quad, TRUE) }])
  IN  { e \in (DOMAIN leaves) \X (DOMAIN leaves) : points[e[1]] \intersect points[e[2]] # {} }
Layer(touch, n, first) ==
  SelectSeq([i \in 1 .. n |-> i],
    LAMBDA i : (i <= first[1] \/ i > first[2]) /\ \E j \in first[1] + 1 .. first[2] : << i, j >> \in touch)
\* who: [fns, remote, layer]
Iterations(conn, paths, who) ==
  LET leaves == Leaves(conn, paths)
      n      == Len(leaves)
  IN  UNION { { [ forest |-> Forest(conn, leaves, cut), rank |-> 1, fns |-> w.fns, remote |-> w.remote,
                  ghosts |-> IF w.layer THEN Layer(touch, n, cut) ELSE << >> ] :
                cut \in Cuts(n), w \in who } : touch \in { Touch(conn, leaves) } }
==============================================================================
