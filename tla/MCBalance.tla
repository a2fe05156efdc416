------------------------------ MODULE MCBalance ------------------------------
(* Trees for TLC to complete and balance: TreeBalance's inputs. *)
EXTENDS TreeBalance

CONSTANTS Stride    \* bound: of the finest quadrants, every Stride-th is asked for

Finest(c) == Quad([a \in Axes |-> c[a] * QuadrantLen(P4EST_QMAXLEVEL)], P4EST_QMAXLEVEL)
Edge      == 2 ^ P4EST_QMAXLEVEL - 1
\* which ones: coprime steps along the axes
Chosen == { Finest(c) : c \in { d \in [Axes -> 0 .. Edge] :
              (d[1] + 6 * d[2] + IF DIM = 3 THEN 9 * d[3] ELSE 0) % Stride = 0 } }

\* bound: the part of a process is the tree, or begins and ends in its middle
Whole == << Finest([a \in Axes |-> 0]), Finest([a \in Axes |-> Edge]) >>
Mid   == << Finest([a \in Axes |-> IF a = 1 THEN 3 ELSE 1]),
            Finest([a \in Axes |-> Edge - IF a = 1 THEN 1 ELSE 2]) >>
Within(w, q) ==
  /\ Compare(FirstDescendant(q, P4EST_QMAXLEVEL), w[1]) >= 0
  /\ Compare(LastDescendant(q, P4EST_QMAXLEVEL), w[2]) <= 0

RECURSIVE LeavesBelow(_, _)
LeavesBelow(q, R) ==
  IF q \notin R THEN << q >>
  ELSE FlattenSeq([i \in 1 .. P4EST_CHILDREN |-> LeavesBelow(Child(q, i - 1), R)])

\* the coarsest leaves of the part w that include the quadrants S
CompleteLeaves(w, S) ==
  LET d == NearestCommonAncestor(w[1], w[2])
      R == {d} \union UNION { AncestorsWithin(d, q) : q \in S }
             \union { a \in AncestorsWithin(d, w[1]) : FirstDescendant(a, P4EST_QMAXLEVEL) # w[1] }
             \union { a \in AncestorsWithin(d, w[2]) : LastDescendant(a, P4EST_QMAXLEVEL) # w[2] }
  IN  SelectSeq(LeavesBelow(d, R), LAMBDA q : Within(w, q))

Subtree(btype, w, leaves) ==
  [fn |-> "subtree", btype |-> btype, first |-> w[1], last |-> w[2], tree |-> leaves, border |-> << >>]

Balances ==
  UNION { { Subtree(b, w, CompleteLeaves(w, {q})) : b \in 1 .. DIM } :
            << w, q >> \in { x \in {Whole, Mid} \X Chosen : Within(x[1], x[2]) } }

\* one or two leaves with holes around them, or none
Pairs == { << q, Ancestor(r, l) >> : q \in Chosen, r \in Chosen, l \in P4EST_QMAXLEVEL - 1 .. P4EST_QMAXLEVEL }
Completions ==
  UNION { { Subtree(0, w, s) : s \in { << >>, << NearestCommonAncestor(w[1], w[2]) >> } \union
              { t \in { x \in Pairs : Before(x[1], x[2]) /\ ~ Overlaps(x[1], x[2]) }
                       \union { << q >> : q \in Chosen } :
                  \A i \in DOMAIN t : Within(w, t[i]) } } : w \in {Whole, Mid} }

\* the leaves that a first round made, and seeds within them, first children: two,
\* a fine and a coarser one, the latter twice; one lies outside of the part
Seed(x, l) == Sibling(Ancestor(x, l), 0)
Borders ==
  UNION { LET leaves == CompleteLeaves(Mid, {q})
              seeds(l) == { Seed(x, l) : x \in { y \in Chosen : \E i \in DOMAIN leaves :
                                leaves[i].level < l /\ IsAncestor(leaves[i], y) } }
          IN  { [fn |-> "border", btype |-> b, first |-> Mid[1], last |-> Mid[2], tree |-> leaves,
                 border |-> leaves \o << r, s, s, Whole[1] >>] :
                  b \in 1 .. DIM, r \in seeds(P4EST_QMAXLEVEL), s \in seeds(P4EST_QMAXLEVEL - 1) }
          : q \in { x \in Chosen : Within(Mid, x) } }

MCInputs == Balances \union Completions \union Borders
==============================================================================
