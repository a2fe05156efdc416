------------------------------ MODULE TreeBalance -----------------------------
(***************************************************************************)
(* Completing and 2:1 balancing what one process has of one tree           *)
(* (src/p4est_algorithms.c).  p4est_complete_or_balance works within the   *)
(* process's part of the tree, p4est_balance_border within every leaf that *)
(* contains seeds of its neighbours.  Both reduce their quadrants to first *)
(* siblings and call p4est_complete_or_balance_kernel, which walks up from *)
(* the finest level, spawns what each family demands of its neighbours,    *)
(* and fills the gaps; then the result replaces the leaves of the tree.    *)
(*                                                                         *)
(* Duplicates are the quadrants of the list that no longer spawn, precluded*)
(* ones those that are dropped before the gaps are filled.  A step is one  *)
(* quadrant of a loop.  User data is left out but for the replace callback.*)
(***************************************************************************)
EXTENDS BalanceSeeds, SequencesExt

CONSTANT Inputs    \* [fn, btype, first, last, tree, border]

VARIABLES input, pc,
          tree, per_level, maxlevel,           \* p4est_tree_t
          border, iz, jz,
          dom, todo, list, spawned, duplicate, precluded, unneeded, level, at, tempq,
          out, from,                           \* the kernel appends behind from
          replaced                             \* the calls of replace_fn so far

kernelvars == << dom, todo, list, spawned, duplicate, precluded, unneeded, level, at, tempq >>
treevars   == << tree, per_level, maxlevel, replaced >>
vars == << input, pc, border, iz, jz, out, from, treevars, kernelvars >>

Before(q, r) == Compare(q, r) < 0
Sorted(s)    == SortSeq(s, Before)
\* without duplicates
Merged(s) ==
  FoldLeft(LAMBDA t, q : IF t # << >> /\ Last(t) = q THEN t ELSE Append(t, q), << >>, Sorted(s))

(***************************************************************************)
(* The reduced representation: families by their first sibling, a coarser  *)
(* one dropped next to a finer one.                                        *)
(***************************************************************************)
\* mutant: a finer quadrant does not displace the coarser one next to it
Represented_Coarse(s, q) ==
  IF s # << >> /\ NearestCommonAncestor(q, Last(s)).level >= MinLevel(q, Last(s)) - 1
  THEN s ELSE Append(s, Sibling(q, 0))

Represented(s, q) ==
  LET r == Last(s)
  IN  IF s = << >> THEN << Sibling(q, 0) >>
      ELSE IF NearestCommonAncestor(q, r).level < MinLevel(q, r) - 1 THEN Append(s, Sibling(q, 0))
      ELSE IF q.level > r.level THEN Append(Front(s), Sibling(q, 0)) ELSE s

\* the largest quadrants that begin with first, end with last below the domain
FirstLargest(d, first) ==
  Ancestor(first, EnlargedLevel(first, d.level + 1,
                                { l \in 1 .. first.level : AncestorId(first, l) # 0 }))
LastLargest(d, last) ==
  Ancestor(last, EnlargedLevel(last, d.level + 1,
                               { l \in 1 .. last.level : AncestorId(last, l) # P4EST_CHILDREN - 1 }))

\* in a sorted list: the first position not before q, the last one not behind it
LowerBound(s, q)  == 1 + Len(SelectSeq(s, LAMBDA r : Before(r, q)))
HigherBound(s, q) == Len(SelectSeq(s, LAMBDA r : ~ Before(q, r)))

FarFrom(p, s, i, l) == i \notin DOMAIN s \/ NearestCommonAncestor(p, s[i]).level < l - 1
FirstAt(s, i, q) == IF FarFrom(q, s, i, q.level) THEN InsertAt(s, i, q) ELSE s
LastAt(s, i, q)  == IF FarFrom(input.last, s, i, q.level) THEN InsertAt(s, i + 1, q) ELSE s

WithFirst(s, q) == FirstAt(s, LowerBound(s, q), q)
WithLast(s, q)  == LastAt(s, HigherBound(s, input.last), q)

(***************************************************************************)
(* The kernel: who is spawned.                                             *)
(***************************************************************************)
Anchored == input.fn = "subtree"        \* first_desc and last_desc are given
Bound ==
  CASE input.btype = 0 -> 1
    [] input.btype = 1 -> DIM + 1
    [] input.btype = DIM -> 2 ^ DIM
    [] OTHER -> 2 ^ DIM - 1

\* the axes along which the neighbour number sid of a family differs
Direction == CASE DIM = 2 -> << {}, {1}, {2}, {1, 2} >>
               [] DIM = 3 -> << {}, {1}, {2}, {3}, {2, 3}, {1, 3}, {1, 2}, {1, 2, 3} >>

Neighbour(par, pid, axes) ==
  LET ph == QuadrantLen(par.level - 1)
  IN  Quad([a \in Axes |-> par.c[a] + IF a \notin axes THEN 0
                                     ELSE IF IdHasAxis(pid, a) THEN ph ELSE -ph],
           par.level)

\* the first sibling of the parent (sid 0) and its neighbours inside of the domain
Demands(q) ==
  LET par == Sibling(Parent(q), 0)
      pid == ChildId(Parent(q))
  IN  SelectSeq([sid \in 1 .. Bound |-> Neighbour(par, pid, Direction[sid])],
                LAMBDA n : n = par \/ IsAncestor(dom, n))

\* p4est_quadrant_disjoint_parent
ParentsMeet(q, r) ==
  LET len == QuadrantLen(MinLevel(q, r) - 1)
  IN  \A a \in Axes : q.c[a] \div len = r.c[a] \div len

Work == SelectSeq(list, LAMBDA q : q.level = level /\ q \notin duplicate)
          \o SelectSeq(spawned, LAMBDA q : q.level = level)

\* hand the quadrants s over to be balanced below d, reduced one after the other
Call(d, s) ==
  /\ dom' = d /\ todo' = s /\ list' = << >>
  /\ spawned' = << >> /\ duplicate' = {} /\ precluded' = {} /\ unneeded' = {}
  /\ level' = 0 /\ at' = 1 /\ tempq' = d
  /\ pc' = "reduce"

Reduce ==
  /\ pc = "reduce" /\ todo # << >>
  /\ list' = Represented(list, Head(todo)) /\ todo' = Tail(todo)
  /\ UNCHANGED << input, pc, border, iz, jz, out, from, treevars,
                  dom, spawned, duplicate, precluded, unneeded, level, at, tempq >>

\* p4est_complete_or_balance_kernel up to its walk; the levels are those of the
\* list without the two it adds
Anchor ==
  /\ pc = "reduce" /\ todo = << >>
  /\ \/ /\ Anchored
        /\ \E q \in { Sibling(FirstLargest(dom, input.first), 0) },
              r \in { Sibling(LastLargest(dom, input.last), 0) } :
             \E s \in { WithFirst(list, q) } : list' = WithLast(s, r)
     \/ ~ Anchored /\ UNCHANGED list
  /\ level' = IF Bound = 1 THEN 0
              ELSE Max({ dom.level + 1 } \union { list[i].level : i \in DOMAIN list })
  /\ pc' = "spawn"
  /\ UNCHANGED << input, border, iz, jz, out, from, treevars,
                  dom, todo, spawned, duplicate, precluded, unneeded, at, tempq >>

\* we do not need to run for minlevel + 1
Spawning == pc = "spawn" /\ level > dom.level + 2

\* those of q's demands that are new, and where one of them meets a family of the list
News(q)    == SelectSeq(Demands(q), LAMBDA n : ~ Contains(spawned, n))
Met(q, ns) ==
  { << n, r >> \in (ToSet(ns) \ { Sibling(Parent(q), 0) }) \X ToSet(list) : ParentsMeet(n, r) }

Spawn ==
  /\ Spawning /\ at <= Len(Work)
  /\ \E q \in { Work[at] } : \E news \in { News(q) } : \E met \in { Met(q, news) } :
       /\ spawned' = spawned \o news
       /\ unneeded' = unneeded \union { Sibling(Parent(q), 0) }
                        \union { m[1] : m \in { x \in met : x[2].level >= level - 1 } }
       /\ duplicate' = duplicate \union { m[2] : m \in { x \in met : x[2].level <= level - 1 } }
       /\ precluded' = precluded \union { m[2] : m \in { x \in met : x[2].level < level - 1 } }
  /\ at' = at + 1
  /\ UNCHANGED << input, pc, border, iz, jz, out, from, treevars,
                  dom, todo, list, level, tempq >>

Ascend ==
  /\ Spawning /\ at > Len(Work)
  /\ level' = level - 1 /\ at' = 1
  /\ UNCHANGED << input, pc, border, iz, jz, out, from, treevars,
                  dom, todo, list, spawned, duplicate, precluded, unneeded, tempq >>

\* what was spawned inside of the part and nothing finer stands for
Wanted(q) ==
  /\ Anchored => ~ Before(q, FirstLargest(dom, input.first)) /\ ~ Before(input.last, q)
  /\ q \notin unneeded

\* prune, merge, sort, and find the place to fill from
Merge ==
  /\ pc = "spawn" /\ ~ Spawning
  /\ \E fd \in { IF Anchored THEN FirstLargest(dom, input.first)
                 ELSE FirstDescendant(dom, dom.level + 1) },
        s  \in { Sorted(SelectSeq(list, LAMBDA q : q \notin precluded)
                         \o SelectSeq(spawned, Wanted)) } :
        /\ list' = s
        /\ tempq' = fd
        /\ at' = IF Anchored THEN LowerBound(s, fd) ELSE 1
  /\ pc' = "fill"
  /\ UNCHANGED << input, border, iz, jz, out, from, treevars,
                  dom, todo, spawned, duplicate, precluded, unneeded, level >>

(***************************************************************************)
(* The kernel: the gaps.                                                   *)
(***************************************************************************)
HasTarget == at <= Len(list) \/ (Anchored /\ input.last # LastDescendant(dom, P4EST_QMAXLEVEL))
Target    == IF at <= Len(list) THEN list[at] ELSE Successor(input.last)
Reached   == HasTarget /\ (tempq = Target \/ IsAncestor(tempq, Target))
Filled    == tempq.level <= dom.level \/ (Anchored /\ Before(input.last, tempq))

\* up as long as it is a last sibling, then to the next one; the domain: none is left
Following(q) ==
  LET open == { l \in dom.level + 1 .. q.level : AncestorId(q, l) # P4EST_CHILDREN - 1 }
  IN  IF open = {} THEN dom
      ELSE LET l == Max(open) IN Sibling(Ancestor(q, l), AncestorId(q, l) + 1)

FillGap ==
  /\ pc = "fill" /\ ~ Filled /\ ~ Reached
  /\ out' = Append(out, tempq)
  /\ tempq' = Following(tempq)
  /\ UNCHANGED << input, pc, border, iz, jz, from, treevars,
                  dom, todo, list, spawned, duplicate, precluded, unneeded, level, at >>

FillMeet ==
  /\ pc = "fill" /\ ~ Filled /\ Reached
  /\ \/ /\ tempq.c = Target.c
        /\ tempq' = Quad(tempq.c, Target.level) /\ at' = at + 1
     \/ /\ tempq.c # Target.c
        /\ LET n == NearestCommonAncestor(FirstDescendant(tempq, P4EST_QMAXLEVEL), Target)
           IN  tempq' = Quad(n.c, n.level + 1)
        /\ UNCHANGED at
  /\ UNCHANGED << input, pc, border, iz, jz, out, from, treevars,
                  dom, todo, list, spawned, duplicate, precluded, unneeded, level >>

(***************************************************************************)
(* p4est_balance_replace_recursive.                                        *)
(***************************************************************************)
RECURSIVE Replacements(_, _)
Replacements(parent, leaves) ==
  LET part(i) == SelectSeq(leaves, LAMBDA q : Overlaps(Child(parent, i), q))
      split   == SelectSeq([i \in 1 .. P4EST_CHILDREN |-> i - 1], LAMBDA i : Len(part(i)) > 1)
  IN  IF Len(leaves) = P4EST_CHILDREN THEN << << parent, leaves >> >>
      ELSE << << parent, [i \in 1 .. P4EST_CHILDREN |-> Child(parent, i - 1)] >> >>
             \o FlattenSeq([i \in DOMAIN split |-> Replacements(Child(parent, split[i]), part(split[i]))])

Count(s, l)  == Len(SelectSeq(s, LAMBDA q : q.level = l))
Deepest(s)   == Max({ maxlevel } \union { s[i].level : i \in DOMAIN s })
\* mutant: the leaf that is split stays counted
Counted_Kept(gone, new) == [l \in 0 .. P4EST_QMAXLEVEL |-> per_level[l] + Count(new, l)]

\* the counters of the tree after the leaf gone has become the leaves new
Counted(gone, new) ==
  [l \in 0 .. P4EST_QMAXLEVEL |-> per_level[l] + Count(new, l) - Count(gone, l)]

(***************************************************************************)
(* p4est_complete_or_balance.                                              *)
(***************************************************************************)
Root == NearestCommonAncestor(input.first, input.last)

CompleteOrBalance ==
  /\ pc = "call"
  /\ \/ /\ tree = << >> \/ tree = << Root >>
        /\ pc' = "done" /\ UNCHANGED kernelvars
     \/ /\ tree # << >> /\ tree # << Root >>
        /\ Call(Root, tree)
  /\ UNCHANGED << input, border, iz, jz, out, from, treevars >>

FillEnd ==
  /\ pc = "fill" /\ Filled /\ Anchored
  /\ pc' = "copy" /\ iz' = 1 /\ jz' = 1
  /\ UNCHANGED << input, border, out, from, treevars, kernelvars >>

Copying == pc = "copy" /\ iz <= Len(tree) /\ jz <= Len(out)

\* a new leaf in front of the next old one
CopyGap ==
  /\ Copying /\ Before(out[jz], tree[iz])
  /\ per_level' = Counted(<< >>, << out[jz] >>) /\ maxlevel' = Deepest(<< out[jz] >>)
  /\ jz' = jz + 1
  /\ UNCHANGED << input, pc, tree, border, iz, out, from, replaced, kernelvars >>

CopySplit ==
  /\ Copying /\ ~ Before(out[jz], tree[iz]) /\ tree[iz].level < out[jz].level
  /\ LET parts == SelectSeq(SubSeq(out, jz, Len(out)), LAMBDA p : IsAncestor(tree[iz], p))
     IN  /\ per_level' = Counted(<< tree[iz] >>, parts) /\ maxlevel' = Deepest(parts)
         /\ replaced' = replaced \o Replacements(tree[iz], parts)
         /\ jz' = jz + Len(parts)
  /\ iz' = iz + 1
  /\ UNCHANGED << input, pc, tree, border, out, from, kernelvars >>

CopySame ==
  /\ Copying /\ ~ Before(out[jz], tree[iz]) /\ tree[iz].level >= out[jz].level
  /\ iz' = iz + 1 /\ jz' = jz + 1
  /\ UNCHANGED << input, pc, border, out, from, treevars, kernelvars >>

CopyRest ==
  /\ pc = "copy" /\ ~ Copying
  /\ LET rest == SubSeq(out, jz, Len(out))
     IN  per_level' = Counted(<< >>, rest) /\ maxlevel' = Deepest(rest)
  /\ tree' = out
  /\ pc' = "done"
  /\ UNCHANGED << input, border, iz, jz, out, from, replaced, kernelvars >>

(***************************************************************************)
(* p4est_balance_border: iz walks the border, jz the leaves of the tree.   *)
(***************************************************************************)
Outside(p) ==
  \/ Before(p, input.first) /\ ~ IsAncestor(p, input.first)
  \/ Before(input.last, p)
\* the quadrants behind border[iz] that descend from it
Seeded == SelectSeq(SubSeq(border, iz + 1, Len(border)), LAMBDA q : IsAncestor(border[iz], q))
Bordering == pc = "border" /\ iz <= Len(border)

BorderSkip ==
  /\ Bordering /\ (Outside(border[iz]) \/ Seeded = << >>)
  /\ iz' = iz + 1
  /\ UNCHANGED << input, pc, border, jz, out, from, treevars, kernelvars >>

BorderSplit ==
  /\ Bordering /\ ~ Outside(border[iz]) /\ Seeded # << >>
  /\ \E tq \in jz .. Len(tree) :
       /\ tree[tq] = border[iz]
       /\ out' = out \o SubSeq(tree, jz, tq - 1) /\ from' = Len(out')
       /\ jz' = tq + 1
  /\ iz' = iz + 1 + Len(Seeded)
  /\ per_level' = Counted(<< border[iz] >>, << >>)
  /\ Call(border[iz], Seeded)
  /\ UNCHANGED << input, tree, maxlevel, replaced, border >>

BorderFilled ==
  /\ pc = "fill" /\ Filled /\ ~ Anchored
  /\ LET parts == SubSeq(out, from + 1, Len(out))
     IN  /\ per_level' = Counted(<< >>, parts) /\ maxlevel' = Deepest(parts)
         /\ replaced' = replaced \o Replacements(dom, parts)
  /\ pc' = "border"
  /\ UNCHANGED << input, tree, border, iz, jz, out, from, kernelvars >>

BorderEnd ==
  /\ pc = "border" /\ iz > Len(border)
  /\ tree' = out \o SubSeq(tree, jz, Len(tree))
  /\ pc' = "done"
  /\ UNCHANGED << input, per_level, maxlevel, replaced, border, iz, jz, out, from, kernelvars >>

Init ==
  /\ input \in Inputs
  /\ pc = IF input.fn = "subtree" THEN "call" ELSE "border"
  /\ tree = input.tree /\ replaced = << >>
  /\ per_level = [l \in 0 .. P4EST_QMAXLEVEL |-> Count(tree, l)]
  /\ maxlevel = Max({ 0 } \union { tree[i].level : i \in DOMAIN tree })
  /\ border = Merged(input.border) /\ iz = 1 /\ jz = 1 /\ out = << >> /\ from = 0
  /\ dom = << >> /\ todo = << >> /\ list = << >> /\ spawned = << >> /\ duplicate = {} /\ precluded = {}
  /\ unneeded = {} /\ level = 0 /\ at = 1 /\ tempq = << >>

Next ==
  \/ CompleteOrBalance \/ Reduce \/ Anchor \/ Spawn \/ Ascend \/ Merge \/ FillGap \/ FillMeet \/ FillEnd
  \/ CopyGap \/ CopySplit \/ CopySame \/ CopyRest
  \/ BorderSkip \/ BorderSplit \/ BorderFilled \/ BorderEnd

Spec == Init /\ [][Next]_vars

(***************************************************************************)
(* Properties.                                                             *)
(***************************************************************************)
\* those that reach beyond the part of the process
Straddling(d) ==
  { a \in AncestorsWithin(d, input.first) : FirstDescendant(a, P4EST_QMAXLEVEL) # input.first }
    \union { a \in AncestorsWithin(d, input.last) : LastDescendant(a, P4EST_QMAXLEVEL) # input.last }
Mine(q) ==
  /\ ~ Before(FirstDescendant(q, P4EST_QMAXLEVEL), input.first)
  /\ ~ Before(input.last, LastDescendant(q, P4EST_QMAXLEVEL))

Expected ==
  IF input.fn = "border"
  THEN LET seeds(q) == UNION { AncestorsWithin(q, s) : s \in { b \in ToSet(input.border) : IsAncestor(q, b) } }
       IN  UNION { IF seeds(q) = {} THEN {q} ELSE LeastLeaves(q, seeds(q), input.btype) :
                   q \in ToSet(input.tree) }
  ELSE IF input.tree \in { << >>, << Root >> } THEN ToSet(input.tree)
  ELSE { q \in LeastLeaves(Root, {Root} \union Straddling(Root)
                 \union UNION { AncestorsWithin(Root, t) : t \in ToSet(input.tree) },
               input.btype) : Mine(q) }

\* The leaves in the end are, in order and without a hole, the coarsest ones that
\* refine the old leaves, stay in the part of the process and are 2:1 balanced: the
\* reduction to first siblings, the quadrants dropped as duplicates or precluded and
\* the walk that stops early lose no demand and make none up.
BalancedLeast ==
  pc = "done" =>
    /\ ToSet(tree) = Expected
    /\ \A i \in 1 .. Len(tree) - 1 : Before(tree[i], tree[i + 1])

\* The tree's counters are those of its leaves, and the replace callbacks, in their
\* order, turn the old leaves into the new ones: each replaces one quadrant that
\* is there by its family (holes filled aside).
TreeFollows ==
  pc = "done" =>
    /\ \A l \in 0 .. P4EST_QMAXLEVEL : per_level[l] = Count(tree, l)
    /\ maxlevel = Max({ 0 } \union { tree[i].level : i \in DOMAIN tree })
    /\ LET olds     == ToSet(input.tree)
           gone(n)  == { replaced[i][1] : i \in 1 .. n }
           come(n)  == UNION { ToSet(replaced[i][2]) : i \in 1 .. n }
           all      == Len(replaced)
       IN  /\ \A i \in 1 .. all :
                /\ replaced[i][1] \in (olds \union come(i - 1)) \ gone(i - 1)
                /\ replaced[i][2] = [c \in 1 .. P4EST_CHILDREN |-> Child(replaced[i][1], c - 1)]
           /\ (olds \union come(all)) \ gone(all)
                = { q \in ToSet(tree) : \E t \in olds : t = q \/ IsAncestor(t, q) }

Ended == pc = "done"
===============================================================================
