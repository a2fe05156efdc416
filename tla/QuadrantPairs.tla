----------------------------- MODULE QuadrantPairs ----------------------------
(***************************************************************************)
(* The functions of QuadrantBits against the tree of child numbers of      *)
(* Quadrants: two quadrants, chosen one after the other.                   *)
(***************************************************************************)
EXTENDS QuadrantBits

VARIABLES q, r

Extended == UNION { { Quad([a \in Axes |-> k[a] * QuadrantLen(l)], l) :
                        k \in [Axes -> -(2 ^ l) .. 2 ^ (l + 1) - 1] }
                    : l \in 0 .. P4EST_QMAXLEVEL }


Init == q \in Extended /\ r = q
Pick == r = q /\ r' \in Extended /\ UNCHANGED q
Spec == Init /\ [][Pick]_<< q, r >>

Tree    == INSTANCE Quadrants WITH CHILDREN <- P4EST_CHILDREN, QMAXLEVEL <- P4EST_QMAXLEVEL
Path(s) == [l \in 1 .. s.level |-> AncestorId(s, l)]
SameRoot == \A a \in Axes : q.c[a] \div ROOT_LEN = r.c[a] \div ROOT_LEN
Sign(x) == IF x > 0 THEN 1 ELSE IF x < 0 THEN -1 ELSE 0

\* Inside the root the bit relations are the relations of the tree: the ones
\* written for speed (one exclusive or, one shift) lose nothing, also where the
\* common ancestor is computed from one exclusive or and clipped to the coarser level.
RelationsAgree ==
  /\ (IsValid(q) /\ IsValid(r)) =>
       /\ Tree!IsAncestor(Path(q), Path(r)) = IsAncestor(q, r)
       /\ Tree!IsParent(Path(q), Path(r)) = IsParent(q, r)
       /\ Tree!IsSibling(Path(q), Path(r)) = IsSibling(q, r)
       /\ Tree!Overlaps(Path(q), Path(r)) = Overlaps(q, r)
       /\ Tree!IsNext(Path(q), Path(r)) = IsNext(q, r)
       /\ (Disjoint(q, r) = 0) = Tree!Overlaps(Path(q), Path(r))
       /\ IsAncestor(q, r) => IsFirstLast(FirstDescendant(q, P4EST_QMAXLEVEL),
                                          LastDescendant(q, P4EST_QMAXLEVEL), q)
  /\ SameRoot =>
       Path(NearestCommonAncestor(q, r)) = Tree!NearestCommonAncestor(Path(q), Path(r))

\* p4est_quadrant_compare is the Morton order with ancestors first. Outside the
\* root, negative coordinates included, the comparison by the most significant
\* differing bit orders as the linear ids do, which set_morton takes apart again:
\* a search that mixes them (p4est_search.c) sees one order.
ComparesAsLinearId ==
  LET d == LinearId(q, P4EST_QMAXLEVEL) - LinearId(r, P4EST_QMAXLEVEL)
  IN  /\ Sign(Compare(q, r)) = Sign(IF d # 0 THEN d ELSE q.level - r.level)
      /\ SetMorton(r.level, LinearId(r, r.level)) = r
      /\ (IsValid(q) /\ IsValid(r)) => (Compare(q, r) < 0) = Tree!Precedes(Path(q), Path(r))

NeighboursInOrder ==
  (IsValid(q) /\ q.level > 0) =>
    /\ (\E l \in 1 .. q.level : AncestorId(q, l) # P4EST_CHILDREN - 1) =>
         /\ Path(Successor(q)) = Tree!Successor(Path(q))
         /\ LinearId(Successor(q), q.level) = LinearId(q, q.level) + 1
         /\ Predecessor(Successor(q)) = q
    /\ (\E l \in 1 .. q.level : AncestorId(q, l) # 0) =>
         Path(Predecessor(q)) = Tree!Predecessor(Path(q))

FamilyAgrees ==
  /\ q.level > 0 => /\ Path(Parent(q)) = Tree!Parent(Path(q)) /\ IsParent(Parent(q), q)
                    /\ \A i \in 0 .. P4EST_CHILDREN - 1 :
                         /\ Path(Sibling(q, i)) = Tree!Sibling(Path(q), i)
                         /\ Child(Parent(q), i) = Sibling(q, i)
  /\ \A l \in 0 .. q.level - 1 : Path(Ancestor(q, l)) = Tree!Ancestor(Path(q), l)
  /\ \A l \in q.level .. P4EST_QMAXLEVEL :
       /\ Path(FirstDescendant(q, l)) = Tree!FirstDescendant(Path(q), l)
       /\ Path(LastDescendant(q, l)) = Tree!LastDescendant(Path(q), l)

\* Enlarging within the ancestor q keeps the first (last) corner of r and goes
\* as far as possible.
CornerKept ==
  (q = r \/ IsAncestor(q, r)) =>
    LET f == EnlargeFirst(q, r)
        l == EnlargeLast(q, r)
        best(e, d(_, _)) ==
          /\ e = q \/ IsAncestor(q, e)
          /\ d(e, r.level) = r
          /\ e # q => d(Parent(e), r.level) # r
    IN  best(f, FirstDescendant) /\ best(l, LastDescendant)
\* What is built from one quadrant follows the path: parent, siblings and first
\* and last descendants inside and outside the root; successor and predecessor,
\* which carry through several levels and undo each other; and what enlarges a
\* quadrant within an ancestor goes as far as its first (last) corner allows.
ConstructionsAgree == (q = r => FamilyAgrees /\ NeighboursInOrder) /\ CornerKept
==============================================================================
