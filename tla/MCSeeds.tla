------------------------------- MODULE MCSeeds -------------------------------
(* Pairs of quadrants for TLC to find seeds for.  *)
EXTENDS BalanceSeeds

CONSTANT Starts    \* [p, balance, levels, stride]

VARIABLE pair      \* [p, balance, levels, stride], then q instead of the last two

InTree(l, every) ==
  { Quad([a \in Axes |-> c[a] * QuadrantLen(l)], l) :
      c \in { d \in [Axes -> 0 .. 2 ^ l - 1] :
                (d[1] + 6 * d[2] + IF DIM = 3 THEN 9 * d[3] ELSE 0) % every = 0 } }

\* p4est_balance_seeds is asked for quadrants in the insulation layer of p or inside
\* of p, there for those that are too small for it
Near(q, p) ==
  /\ ~ Overlaps(p, q) \/ (IsAncestor(p, q) /\ q.level > p.level + 1)
  /\ \A a \in Axes : SideOf(q, p, a) \in {-1, 0, 1}

Init == pair \in Starts
Ask  ==
  /\ "levels" \in DOMAIN pair
  /\ \E q \in UNION { InTree(l, pair.stride) : l \in pair.levels } :
       /\ Near(q, pair.p)
       /\ pair' = [p |-> pair.p, balance |-> pair.balance, q |-> q]
Spec == Init /\ [][Ask]_pair

\* The seeds give all that q demands of p.
SeedsSuffice == "q" \in DOMAIN pair => SeedsExact(pair.q, pair.p, pair.balance)

Start(c, l, balance, levels, stride) ==
  [p |-> Quad([a \in Axes |-> c[a] * QuadrantLen(l)], l),
   balance |-> balance, levels |-> levels, stride |-> stride]
Places(l) == [Axes -> 0 .. 2 ^ l - 1]

\* DIM = 2: every pair up to four levels apart, and most of what is possible at five
FlatStarts ==
  { Start(c, 1, b, 2 .. P4EST_QMAXLEVEL, 1) : c \in Places(1), b \in 1 .. 2 }
    \union { Start(c, 2, b, 3 .. P4EST_QMAXLEVEL, 1) : c \in Places(2), b \in 1 .. 2 }

\* DIM = 3: edge balance up to three levels apart
SolidStarts ==
  { Start(c, 1, b, 2 .. 4, 5) : c \in Places(1), b \in 1 .. 3 }
    \union { Start([a \in Axes |-> 0], 1, b, {5}, 61) : b \in {1, 3} }
\* DIM = 3: edge balance, four levels apart
DeepStarts == { Start([a \in Axes |-> 0], 1, 2, {5}, 22) }
==============================================================================
