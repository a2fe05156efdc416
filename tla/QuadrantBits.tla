----------------------------- MODULE QuadrantBits ----------------------------
(***************************************************************************)
(* The quadrant functions of src/p4est_bits.c as the code computes them:   *)
(* on the integer coordinates of the lower left corner and the level.      *)
(* A coordinate is a signed word of MAXLEVEL + 2 bits.  Extended quadrants *)
(* lie in the 3 x 3 (x 3) block of roots around the tree and may have      *)
(* negative coordinates.                                                   *)
(*                                                                         *)
(* A word's bits are a set, so that |, & and ^ are union, intersection and *)
(* symmetric difference.  \div rounds down, so x \div 2^k is the arithmetic*)
(* shift x >> k, also of a negative x.                                     *)
(***************************************************************************)
EXTENDS Integers, Sequences, FiniteSets, FiniteSetsExt

CONSTANTS DIM,        \* P4EST_DIM
          MAXLEVEL    \* P4EST_MAXLEVEL: coordinates have MAXLEVEL bits inside the root

DimAssumption   == DIM \in Nat \ {0}
LevelAssumption == MAXLEVEL \in Nat \ {0}

P4EST_CHILDREN  == 2 ^ DIM
P4EST_QMAXLEVEL == MAXLEVEL - 1
Axes      == 1 .. DIM
ROOT_LEN  == 2 ^ MAXLEVEL
QuadrantLen(l) == 2 ^ (MAXLEVEL - l)

WordBits     == 0 .. MAXLEVEL + 1
Bit(v, i)    == (v \div 2 ^ i) % 2 = 1
BitsOf(v)    == { i \in WordBits : Bit(v, i) }
Unsigned(S)  == SumSet({ 2 ^ i : i \in S })
Xor(S, T)    == (S \ T) \union (T \ S)
HasBit(v, l) == Bit(v, MAXLEVEL - l)               \* v & P4EST_QUADRANT_LEN (l)
ClearBelow(v, len) == (v \div len) * len           \* v & ~(len - 1)
\* mutant: the bit is only ever set
WithBit_Or(v, l, on) == v + IF on /\ ~ HasBit(v, l) THEN QuadrantLen(l) ELSE 0

WithBit(v, l, on)  ==                              \* v | len, or v & ~len
  v + QuadrantLen(l) * ((IF on THEN 1 ELSE 0) - (IF HasBit(v, l) THEN 1 ELSE 0))

Quad(c, l) == [ c |-> c, level |-> l ]
IsValid(q) == \A a \in Axes : q.c[a] \in 0 .. ROOT_LEN - 1

MinLevel(q, r) == IF q.level < r.level THEN q.level ELSE r.level
IdHasAxis(id, a) == (id \div 2 ^ (a - 1)) % 2 = 1

(***************************************************************************)
(* Relations.                                                              *)
(***************************************************************************)
AncestorId(q, l) ==
  IF l = 0 THEN 0 ELSE SumSet({ 2 ^ (a - 1) : a \in { b \in Axes : HasBit(q.c[b], l) } })
ChildId(q) == AncestorId(q, q.level)

Overlaps(q, r) ==
  \A a \in Axes : LET len == QuadrantLen(MinLevel(q, r))
                  IN  q.c[a] \div len = r.c[a] \div len

\* mutant: the last axis is preferred even when another one differs higher up
CompareAxis_Last(diff) == DIM

\* the axis that differs in the most significant bit, the last of several:
\* exclory > (exclorxy ^ exclory), with z before y before x
CompareAxis(diff) ==
  LET wins(a) == LET upto == UNION { diff[b] : b \in 1 .. a }
                 IN  Unsigned(diff[a]) > Unsigned(Xor(upto, diff[a]))
      winners == { a \in 2 .. DIM : wins(a) }
  IN  IF winners = {} THEN 1 ELSE Max(winners)

CoordinatesCompare(v, w) ==
  LET p(x) == x + IF x >= 0 THEN 0 ELSE 2 ^ (MAXLEVEL + 2)
  IN  [a \in Axes |-> p(v[a]) - p(w[a])]
        [CompareAxis([a \in Axes |-> Xor(BitsOf(v[a]), BitsOf(w[a]))])]

Compare(q, r) ==
  IF q.c = r.c THEN q.level - r.level ELSE CoordinatesCompare(q.c, r.c)

Disjoint(q, r) == IF Overlaps(q, r) THEN 0 ELSE Compare(q, r)

IsSibling(q, r) ==
  LET excl(a) == Xor(BitsOf(q.c[a]), BitsOf(r.c[a]))
  IN  /\ q.level > 0 /\ q.c # r.c
      /\ q.level = r.level
      /\ \A a \in Axes : excl(a) \ { MAXLEVEL - q.level } = {}

IsParent(q, r) ==
  q.level + 1 = r.level /\ \A a \in Axes : q.c[a] = WithBit(r.c[a], r.level, FALSE)

IsAncestor(q, r) ==
  q.level < r.level /\
  \A a \in Axes : q.c[a] \div QuadrantLen(q.level) = r.c[a] \div QuadrantLen(q.level)

\* linear ids interleave the level + 2 bits of every shifted coordinate
LinearId(q, l) ==
  SumSet({ 2 ^ (DIM * i + a - 1) :
             << a, i >> \in { p \in Axes \X (0 .. l + 1) :
                                Bit(q.c[p[1]] \div QuadrantLen(l), p[2]) } })

IsNext(q, r) ==
  /\ q.level > r.level =>
       \A a \in Axes : \A l \in r.level + 1 .. q.level : HasBit(q.c[a], l)
  /\ LinearId(q, MinLevel(q, r)) + 1 = LinearId(r, MinLevel(q, r))

(***************************************************************************)
(* Constructions.                                                          *)
(***************************************************************************)
Ancestor(q, l) == Quad([a \in Axes |-> ClearBelow(q.c[a], QuadrantLen(l))], l)
Parent(q)      == Quad([a \in Axes |-> WithBit(q.c[a], q.level, FALSE)], q.level - 1)
Sibling(q, id) == Quad([a \in Axes |-> WithBit(q.c[a], q.level, IdHasAxis(id, a))], q.level)
Child(q, id)   ==
  Quad([a \in Axes |-> IF IdHasAxis(id, a) THEN WithBit(q.c[a], q.level + 1, TRUE)
                                           ELSE q.c[a]], q.level + 1)

FirstDescendant(q, l) == Quad(q.c, l)
LastDescendant(q, l)  ==
  Quad([a \in Axes |-> q.c[a] + QuadrantLen(q.level) - QuadrantLen(l)], l)

\* mutant: the level is not clipped to the coarser quadrant
NearestCommonAncestor_Deep(q, r) ==
  LET maxclor  == UNION { Xor(BitsOf(q.c[a]), BitsOf(r.c[a])) : a \in Axes }
      maxlevel == IF maxclor = {} THEN 0 ELSE Max(maxclor) + 1
      level    == MAXLEVEL - maxlevel
  IN  Quad([a \in Axes |-> ClearBelow(q.c[a], 2 ^ maxlevel)], level)

\* the shift is 1 << (SC_LOG2_32 (maxclor) + 1); SC_LOG2_32 (0) is -1
NearestCommonAncestor(q, r) ==
  LET maxclor  == UNION { Xor(BitsOf(q.c[a]), BitsOf(r.c[a])) : a \in Axes }
      maxlevel == IF maxclor = {} THEN 0 ELSE Max(maxclor) + 1
      level    == MAXLEVEL - maxlevel
  IN  Quad([a \in Axes |-> ClearBelow(q.c[a], 2 ^ maxlevel)],
           IF level < MinLevel(q, r) THEN level ELSE MinLevel(q, r))

IsFirstLast(f, l, a) ==
  /\ a.c = f.c
  /\ \A x \in Axes : a.c[x] + QuadrantLen(a.level) - QuadrantLen(l.level) = l.c[x]

\* the levels above q down to a on which q is the first (last) child
EnlargedLevel(q, low, stops) ==
  Max({ low } \union (stops \intersect (low + 1 .. q.level)))

EnlargeFirst(a, q) ==
  LET stops == { l \in 1 .. q.level : \E x \in Axes : HasBit(q.c[x], l) }
  IN  Quad(q.c, EnlargedLevel(q, a.level, stops))

EnlargeLast(a, q) ==
  LET stops   == { l \in 1 .. q.level : \E x \in Axes : ~ HasBit(q.c[x], l) }
      level   == EnlargedLevel(q, a.level, stops)
      cleared == QuadrantLen(level) - QuadrantLen(q.level)
  IN  Quad([x \in Axes |-> Unsigned(BitsOf(q.c[x]) \ BitsOf(cleared))
                             - IF q.c[x] < 0 THEN 2 ^ (MAXLEVEL + 2) ELSE 0], level)

\* the deepest level on which the child number can move away from stop
CarryLevel(q, stop) == Max({ l \in 1 .. q.level : AncestorId(q, l) # stop })

Successor(q) ==
  LET l  == CarryLevel(q, P4EST_CHILDREN - 1)
      id == AncestorId(q, l) + 1
  IN  IF l = q.level THEN Sibling(q, id)
      ELSE Quad([a \in Axes |-> ClearBelow(q.c[a], QuadrantLen(l - 1))
                   + IF IdHasAxis(id, a) THEN QuadrantLen(l) ELSE 0], q.level)

Predecessor(q) ==
  LET l     == CarryLevel(q, 0)
      id    == AncestorId(q, l) - 1
      shift == QuadrantLen(l) - QuadrantLen(q.level)
  IN  IF l = q.level THEN Sibling(q, id)
      ELSE Quad([a \in Axes |-> ClearBelow(q.c[a], QuadrantLen(l - 1)) + shift
                   + IF IdHasAxis(id, a) THEN QuadrantLen(l) ELSE 0], q.level)

\* bit MAXLEVEL + 1 of the shifted word is the sign
SetMorton(l, id) ==
  Quad([a \in Axes |->
          LET word == QuadrantLen(l) *
                SumSet({ 2 ^ i : i \in { j \in 0 .. l + 1 : Bit(id, DIM * j + a - 1) } })
          IN  IF word >= 2 ^ (MAXLEVEL + 1) THEN word - 2 ^ (MAXLEVEL + 2) ELSE word], l)
==============================================================================
