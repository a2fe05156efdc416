------------------------------ MODULE BalanceSeeds ----------------------------
(***************************************************************************)
(* src/p4est_balance.c: what a small quadrant q demands of a large leaf p  *)
(* nearby, without building anything in between.  The kernels compute from *)
(* the distance of the two how large a descendant of p may be at its point *)
(* closest to q; the seeds are the few descendants from which balancing p  *)
(* alone gives back all that q demands within p.                           *)
(*                                                                         *)
(* A side is a direction from p towards q: -1, 0 or 1 along every axis.  It*)
(* stands for the code's numbers of faces, edges and corners.  balance is  *)
(* p4est_connect_type_int: how many axes a neighbour may be moved along.   *)
(***************************************************************************)
EXTENDS QuadrantBits

(***************************************************************************)
(* What balance means: the refined quadrants of a domain are closed.       *)
(***************************************************************************)
Sides    == [Axes -> {-1, 0, 1}]
Moved(s) == { a \in Axes : s[a] # 0 }
Shifted(q, s) == Quad([a \in Axes |-> q.c[a] + s[a] * QuadrantLen(q.level)], q.level)
AncestorsWithin(d, q) == { Ancestor(q, l) : l \in d.level .. q.level - 1 }

\* if q is refined, so is the parent of every neighbour of its size in the domain
Demanded(d, q, balance) ==
  LET ns == { Shifted(q, s) : s \in { t \in Sides : Cardinality(Moved(t)) \in 1 .. balance } }
  IN  { Parent(n) : n \in { m \in ns : IsAncestor(d, m) } }
        \union (IF q = d THEN {} ELSE { Parent(q) })

RECURSIVE Closure(_, _, _, _)
Closure(d, R, fresh, balance) ==
  LET more == UNION { Demanded(d, q, balance) : q \in fresh } \ R
  IN  IF more = {} THEN R ELSE Closure(d, R \union more, more, balance)

\* what is refined in the coarsest balanced refinement of d in which the quadrants S are leaves
\* or refined
Fixpoint(d, R, balance) == Closure(d, R, R, balance)
Refined(d, S, balance)  == Fixpoint(d, UNION { AncestorsWithin(d, s) : s \in S }, balance)

\* the leaves of the coarsest balanced refinement of d in which R is refined
ChildrenBeyond(C) == { Child(q, i) : q \in C, i \in 0 .. P4EST_CHILDREN - 1 } \ C
LeastLeaves(d, R, balance) == ChildrenBeyond(Fixpoint(d, R, balance))

(***************************************************************************)
(* The kernels: the level at a distance from a quadrant of level l.        *)
(***************************************************************************)
Log2(n)  == IF n = 0 THEN -1 ELSE Max({ k \in WordBits : 2 ^ k <= n })    \* SC_LOG2_32
Clip(l)  == IF l < 0 THEN 0 ELSE l
Even(d, l) == LET n == d \div QuadrantLen(l) IN n + (n % 2)

Kernel1D(d, l)    == Clip(l - Log2(d \div QuadrantLen(l) + 1))
Kernel2D(dx, dy, l) == Clip(l - Log2(Even(dx, l) + Even(dy, l) + 1))

\* "we want to carry a 1 when there are three 1 bits"
Carried(x, y, z) ==
  Max({ Log2(x), Log2(y), Log2(z),
        Log2(x + y + z - Unsigned(BitsOf(x) \union BitsOf(y) \union BitsOf(z))) })

Kernel3DEdge(d, l) ==
  LET x == Even(d[1], l)  y == Even(d[2], l)  z == Even(d[3], l)
  IN  IF x + y + z = 0 THEN l ELSE Clip(l - Carried(x, y, z))

Kernel3DFace(d, l) ==
  LET x == Even(d[1], l)  y == Even(d[2], l)  z == Even(d[3], l)
  IN  IF x + y + z = 0 THEN l ELSE Clip(l - Carried(y + z, z + x, x + y))

(***************************************************************************)
(* Seeds.                                                                  *)
(***************************************************************************)
\* how far q is shifted along the axis a to end up in p
Distance(q, p, s, a) ==
  IF s[a] = 1 THEN q.c[a] + QuadrantLen(q.level) - p.c[a] - QuadrantLen(p.level)
  ELSE IF s[a] = -1 THEN p.c[a] - q.c[a] ELSE 0

\* blevel, by the number of axes and the balance type
BalanceLevel(q, p, s, balance) ==
  LET d == [a \in Axes |-> Distance(q, p, s, a)]
      m == Cardinality(Moved(s))
      far == Max({ d[a] : a \in Axes })
  IN  CASE m <= balance        -> Kernel1D(far, q.level)
        [] m = 2 /\ balance = 1 -> LET a == Max(Moved(s))  b == Min(Moved(s))
                                   IN  Kernel2D(d[b], d[a], q.level)
        [] m = 3 /\ balance = 2 -> Kernel3DEdge(d, q.level)
        [] m = 3 /\ balance = 1 -> Kernel3DFace(d, q.level)

\* {}: the two are consistent
ConSeed(q, p, s, balance) ==
  { Quad([a \in Axes |-> ClearBelow(q.c[a] - s[a] * Distance(q, p, s, a), QuadrantLen(l))], l) :
      l \in { m \in {BalanceLevel(q, p, s, balance)} : q.level > p.level /\ m > p.level } }

\* the families next to the seed's parent, along the axes in which p and q overlap
Beside(s) == { t \in Sides : Moved(t) # {} /\ Moved(t) \intersect Moved(s) = {} }

\* for face only balance in 3D, a larger neighbour is checked in one instance
Enlarged(n, parent, s, t, balance) ==
  LET corner == { a \in Axes : s[a] + t[a] = 1 }
  IN  IF DIM = 3 /\ balance = 1 /\ Moved(s) \union Moved(t) = Axes /\ Cardinality(Moved(s)) = 1
           /\ ChildId(parent) = SumSet({ 2 ^ (a - 1) : a \in corner })
      THEN Ancestor(n, n.level - 1) ELSE n

\* what q demands of one of these families, seen from there
SeedBeside(q, p, first, s, t, balance) ==
  LET parent == Parent(first)
      n      == Shifted(parent, t)
      side   == [a \in Axes |-> s[a] - t[a]]
  IN  IF Ancestor(n, p.level) # p THEN {}
      ELSE ConSeed(q, Enlarged(n, parent, s, t, balance), side, balance)

\* mutant: a quadrant two families away is not looked for
ExtraSeeds_None(q, p, first, s, balance) == {}

\* with face only balance, a larger seed at a corner goes if one beside it is there
ExtraSeeds(q, p, first, s, balance) ==
  LET found(t) == SeedBeside(q, p, first, s, t, balance)
      only(t, a) == [b \in Axes |-> IF b = a THEN t[b] ELSE 0]
      dropped(t) == /\ DIM = 3 /\ balance = 1 /\ Cardinality(Moved(t)) = 2
                    /\ \A x \in found(t) : x.level < first.level
                    /\ \E a \in Moved(t) : found(only(t, a)) # {}
  IN  UNION { found(t) : t \in { u \in Beside(s) : ~ dropped(u) } }

SideSeeds(q, p, s, balance) ==
  UNION { {m} \union ExtraSeeds(q, p, m, s, balance) : m \in ConSeed(q, p, s, balance) }

\* where q is as seen from p, "far" beyond its insulation layer
SideOf(q, p, a) ==
  LET below == p.c[a] - q.c[a]
      above == q.c[a] + QuadrantLen(q.level) - p.c[a] - QuadrantLen(p.level)
  IN  IF (IF below > 0 THEN below ELSE above) > QuadrantLen(p.level) THEN 2
      ELSE IF below > 0 THEN -1 ELSE IF above > 0 THEN 1 ELSE 0

\* p4est_balance_seeds
Seeds(q, p, balance) ==
  LET s == [a \in Axes |-> SideOf(q, p, a)]
  IN  IF q.level <= p.level + 1 \/ s \notin Sides THEN {}
      ELSE IF Moved(s) = {} THEN {q} ELSE SideSeeds(q, p, s, balance)

\* The seeds of q in p are all that balancing needs to know of q within p: p is
\* split if and only if the coarsest balanced tree with q refines it, and balancing
\* p alone from the seeds refines the same descendants of p.
SeedsSufficient(seeds, q, p, balance) ==
  /\ \A s \in seeds : IsAncestor(p, s)
  /\ { r \in Refined(Ancestor(q, 0), {q}, balance) : r = p \/ IsAncestor(p, r) } = Refined(p, seeds, balance)
SeedsExact(q, p, balance) == SeedsSufficient(Seeds(q, p, balance), q, p, balance)
===============================================================================
