------------------------------ MODULE Quadrants ------------------------------
(***************************************************************************)
(* The quadrant algebra of src/p4est_bits.c, for quadrants inside the root *)
(* of one tree.                                                            *)
(*                                                                         *)
(* The code stores a quadrant as the integer coordinates of its lower left *)
(* corner and a level.  Reading one bit of every coordinate per level      *)
(* (p4est_quadrant_ancestor_id) turns this into the sequence of child      *)
(* numbers met on the way from the root to the quadrant; that sequence is  *)
(* the quadrant here.  Its length is the level, and the order of           *)
(* p4est_quadrant_compare (interleaved coordinates first, then the level)  *)
(* is the lexicographic order in which a prefix comes first.               *)
(* QuadrantBits relates this form to the coordinates the code computes on. *)
(***************************************************************************)
EXTENDS Integers, Sequences, FiniteSets

CONSTANTS CHILDREN,     \* P4EST_CHILDREN: 4 for p4est, 8 for p8est
          QMAXLEVEL     \* P4EST_QMAXLEVEL: the deepest level of a quadrant

ASSUME ChildrenAssumption == CHILDREN \in Nat /\ CHILDREN > 1
ASSUME LevelAssumption    == QMAXLEVEL \in Nat

ChildIds  == 0 .. CHILDREN - 1
Quadrants == UNION { [1 .. l -> ChildIds] : l \in 0 .. QMAXLEVEL }

Root     == << >>
Level(q) == Len(q)

(***************************************************************************)
(* Family relations.                                                       *)
(***************************************************************************)
AncestorId(q, l) == IF l = 0 THEN 0 ELSE q[l]
ChildId(q)       == AncestorId(q, Level(q))
Ancestor(q, l)   == SubSeq(q, 1, l)
Parent(q)        == Ancestor(q, Level(q) - 1)
Child(q, i)      == Append(q, i)
Children(q)      == [i \in 1 .. CHILDREN |-> Child(q, i - 1)]
Sibling(q, i)    == Append(Parent(q), i)

IsAncestor(q, r) == Level(q) < Level(r) /\ Ancestor(r, Level(q)) = q
IsParent(q, r)   == Level(q) + 1 = Level(r) /\ IsAncestor(q, r)
IsSibling(q, r)  == /\ Level(q) > 0 /\ Level(q) = Level(r) /\ q # r
                    /\ Parent(q) = Parent(r)

\* CHILDREN quadrants that are, in order, the children of one parent
IsFamily(c) == /\ Level(c[1]) > 0
               /\ \A i \in 1 .. CHILDREN : c[i] = Sibling(c[1], i - 1)

Overlaps(q, r) == q = r \/ IsAncestor(q, r) \/ IsAncestor(r, q)

\* nearest common ancestor: the longest common prefix
CommonLevels(q, r) ==
  { l \in 0 .. Level(q) : l <= Level(r) /\ Ancestor(q, l) = Ancestor(r, l) }
NearestCommonAncestor(q, r) ==
  Ancestor(q, CHOOSE l \in CommonLevels(q, r) : \A m \in CommonLevels(q, r) : m <= l)

(***************************************************************************)
(* The Morton order.                                                       *)
(***************************************************************************)
\* r is numbered below s at the first level where they differ
Before(q, r) ==
  \E l \in 1 .. Level(q) :
     /\ l <= Level(r)
     /\ Ancestor(q, l - 1) = Ancestor(r, l - 1)
     /\ q[l] < r[l]

\* p4est_quadrant_compare (q, r) < 0
Precedes(q, r) == IsAncestor(q, r) \/ Before(q, r)

FirstDescendant(q, l) == q \o [i \in 1 .. l - Level(q) |-> 0]
LastDescendant(q, l)  == q \o [i \in 1 .. l - Level(q) |-> CHILDREN - 1]

LowerLevel(q, r) == IF Level(q) < Level(r) THEN Level(q) ELSE Level(r)

\* the linear ids of q and r on level l are consecutive
ConsecutiveOnLevel(q, r, l) ==
  \E k \in 1 .. l : /\ Ancestor(q, k - 1) = Ancestor(r, k - 1)
                    /\ r[k] = q[k] + 1
                    /\ \A j \in k + 1 .. l : q[j] = CHILDREN - 1 /\ r[j] = 0

\* p4est_quadrant_is_next compares the linear ids on the coarser of the two
\* levels.  Below that level it inspects q only.
IsNext(q, r) ==
  /\ \A j \in Level(r) + 1 .. Level(q) : q[j] = CHILDREN - 1
  /\ ConsecutiveOnLevel(q, r, LowerLevel(q, r))

\* the last level on which the child number of q can still grow (or shrink)
CarryLevel(q, stop) ==
  CHOOSE l \in 1 .. Level(q) : /\ q[l] # stop
                               /\ \A j \in l + 1 .. Level(q) : q[j] = stop
Successor(q) ==
  LET l == CarryLevel(q, CHILDREN - 1)
  IN  [j \in 1 .. Level(q) |->
         IF j < l THEN q[j] ELSE IF j = l THEN q[l] + 1 ELSE 0]
Predecessor(q) ==
  LET l == CarryLevel(q, 0)
  IN  [j \in 1 .. Level(q) |->
         IF j < l THEN q[j] ELSE IF j = l THEN q[l] - 1 ELSE CHILDREN - 1]

(***************************************************************************)
(* The predicates of src/p4est_algorithms.c on the quadrant array of a     *)
(* tree.                                                                   *)
(***************************************************************************)
TreeIsSorted(s)   == \A i \in 1 .. Len(s) - 1 : Precedes(s[i], s[i + 1])
TreeIsLinear(s)   == \A i \in 1 .. Len(s) - 1 :
                       Precedes(s[i], s[i + 1]) /\ ~ IsAncestor(s[i], s[i + 1])
TreeIsComplete(s) == \A i \in 1 .. Len(s) - 1 : IsNext(s[i], s[i + 1])

Levels(s)       == { Level(s[i]) : i \in 1 .. Len(s) }
HighestLevel(s) == CHOOSE l \in Levels(s) : \A m \in Levels(s) : m <= l

(***************************************************************************)
(* The reference notion of a hole-free array: the last descendant of every *)
(* quadrant is directly followed by the first descendant of the next one.  *)
(***************************************************************************)
Adjacent(q, r) ==
  /\ Precedes(q, r) /\ ~ IsAncestor(q, r)
  /\ ConsecutiveOnLevel(LastDescendant(q, QMAXLEVEL),
                        FirstDescendant(r, QMAXLEVEL), QMAXLEVEL)
Gapless(s) == \A i \in 1 .. Len(s) - 1 : Adjacent(s[i], s[i + 1])

(***************************************************************************)
(* Arrays in Morton order.  Rank counts the predecessors of q in S.        *)
(***************************************************************************)
MortonRank(q, S) == Cardinality({ r \in S : Precedes(r, q) })
InMortonOrder(S) ==
  [i \in 1 .. Cardinality(S) |-> CHOOSE q \in S : MortonRank(q, S) = i - 1]

\* the trees that can be built by refining the root: refined is a set of
\* quadrants closed under Parent, and the leaves are their other children
RefinedSets  ==
  { R \in SUBSET { q \in Quadrants : Level(q) < QMAXLEVEL } :
      \A q \in R : q = Root \/ Parent(q) \in R }
LeavesOf(R)  == { q \in Quadrants : (q = Root \/ Parent(q) \in R) /\ q \notin R }
\* what one process may hold of a tree: a contiguous part of its leaves
LocalArrays  ==
  UNION { LET s == InMortonOrder(LeavesOf(R))
          IN  { SubSeq(s, i, j) : i \in 1 .. Len(s), j \in 1 .. Len(s) }
          : R \in RefinedSets } \ { << >> }
==============================================================================
