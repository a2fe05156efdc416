----------------------------- MODULE TopDownSearch -----------------------------
(***************************************************************************)
(* The top-down searches of src/p4est_search.c: p4est_search_local,        *)
(* p4est_search_reorder, p4est_search_partition with its variants gfx and  *)
(* gfp, and p4est_search_all.                                              *)
(*                                                                         *)
(* A search descends from the roots and asks the user's callbacks at every *)
(* quadrant whether to go on, and for every point whether it may be in     *)
(* there.  The recursion is a stack of the calls still to be made.  A      *)
(* quadrant is the sequence of its tree and the child numbers down to it.  *)
(* A point is a smallest quadrant, as a place on the curve through all     *)
(* trees; its callback may also return true where it is not.               *)
(***************************************************************************)
EXTENDS Integers, Sequences, FiniteSets, FiniteSetsExt, SequencesExt

CONSTANTS CHILDREN, QMAXLEVEL, NumProcs, NumTrees,
          Inputs,      \* fn: the search; rank; leaves, gfq: the forest; pre: a
                       \* quadrant callback is given; call_post; skip; with_points, points
          MaxRefused   \* bound: how often a quadrant callback returns false

VARIABLES input,
          stack,     \* the calls to be made: [quad, lo, hi, pfirst, plast, actives],
                     \* lo and hi bound the window of leaves; or a post callback
          entered,   \* the quadrants shown to the callbacks: [quad, num, pfirst, plast]
          tested,    \* the points shown there: << quad, point >>
          open,      \* the quadrants whose post callback is due
          refused    \* the quadrants below which the user stopped the search

vars == << input, stack, entered, tested, open, refused >>

Level(q) == Len(q) - 1
Id(q, l) == q[l + 1]                    \* p4est_quadrant_ancestor_id
Tree(q)  == q[1]
Child(q, i)   == Append(q, i)
Below(q, r)   == IsPrefix(q, r)         \* r is q or a descendant

\* places on the curve
Span(l)       == CHILDREN ^ (QMAXLEVEL - l)
Start(q)      == Span(Level(q)) * FoldLeft(LAMBDA k, d : k * CHILDREN + d, 0, q)
Holds(q, k)   == Start(q) <= k /\ k < Start(q) + Span(Level(q))
PlaceTree(k)  == k \div Span(0)
PlaceId(k, l) == (k \div Span(l)) % CHILDREN

Procs     == 0 .. NumProcs - 1
Leaf(k)   == input.leaves[k]
\* global_first_position
Position(p) == IF input.gfq[p] = Len(input.leaves) THEN NumTrees * Span(0)
               ELSE Start(Leaf(input.gfq[p] + 1))
\* the leaves of the process in a tree lie between these
TreeWindow(t) ==
  LET mine(u) == { k \in input.gfq[input.rank] + 1 .. input.gfq[input.rank + 1] : Tree(Leaf(k)) < u }
  IN  << input.gfq[input.rank] + Cardinality(mine(t)), input.gfq[input.rank] + Cardinality(mine(t + 1)) >>
IsLocalTree(t) == TreeWindow(t)[1] < TreeWindow(t)[2]

(***************************************************************************)
(* The callbacks                                                           *)
(***************************************************************************)
Answers(given) == IF given /\ Cardinality(refused) < MaxRefused THEN BOOLEAN ELSE {TRUE}
Matches(q, actives) ==
  IF actives = {} THEN {{}}
  ELSE { S \in SUBSET actives : { k \in actives : Holds(q, k) } \subseteq S }

(***************************************************************************)
(* The processes in a quadrant                                             *)
(***************************************************************************)
\* P4EST_COMM_IS_EMPTY_GFQ_GFP
IsEmpty(p) == IF input.fn = "gfp" THEN Position(p) = Position(p + 1)
              ELSE input.gfq[p] = input.gfq[p + 1]

\* mutant: who begins at the start of the quadrant is taken to own something
FirstOwner_Empty(low, start) == IF Position(low) = start THEN low ELSE low - 1

\* the first owner, if the processes from low on begin in the quadrant
FirstOwner(low, start) ==
  IF Position(low) = start THEN Min({ p \in Procs : p >= low /\ ~ IsEmpty(p) }) ELSE low - 1

\* pfirst and plast, if the processes from low to next - 1 begin in the quadrant
Owners(low, next, q) ==
  IF low = next THEN << next - 1, next - 1 >> ELSE << FirstOwner(low, Start(q)), next - 1 >>

\* sc_array_split by p4est_traverse_type_tree and _childid
TreeOwners(t) ==
  LET from(u) == Cardinality({ p \in 0 .. NumProcs : PlaceTree(Position(p)) < u })
  IN  Owners(from(t), from(t + 1), << t >>)
ChildOwners(w, i) ==
  LET from(j) == w.pfirst + 1 +
        Cardinality({ p \in w.pfirst + 1 .. w.plast : PlaceId(Position(p), Level(w.quad) + 1) < j })
  IN  Owners(from(i), from(i + 1), Child(w.quad, i))

(***************************************************************************)
(* Quadrant arrays                                                         *)
(***************************************************************************)
\* p4est_split_array
SplitArray(w, i) ==
  w.lo + Cardinality({ k \in w.lo + 1 .. w.hi : Id(Leaf(k), Level(w.quad) + 1) < i })
Window(w, i) == [ w EXCEPT !.quad = Child(@, i), !.lo = SplitArray(w, i), !.hi = SplitArray(w, i + 1) ]
\* mutant: the loop stops before the last child
Nonempty_Last(w) == { i \in 0 .. CHILDREN - 2 : SplitArray(w, i) < SplitArray(w, i + 1) }

Nonempty(w) == { i \in 0 .. CHILDREN - 1 : SplitArray(w, i) < SplitArray(w, i + 1) }

\* intermediate levels are skipped if possible
Shrunk(w) ==
  LET first == Leaf(w.lo + 1)
      last  == Leaf(w.hi)
  IN  IF w.hi = w.lo + 1 THEN first
      ELSE IF Id(first, Level(w.quad) + 1) = Id(last, Level(w.quad) + 1)
      THEN LongestCommonPrefix({first, last})
      ELSE w.quad

IsLeaf(w)   == w.hi = w.lo + 1 /\ Leaf(w.hi) = w.quad
LocalNum(w) == IF IsLeaf(w) THEN w.lo - input.gfq[input.rank] ELSE -1

(***************************************************************************)
(* One call of a recursion                                                 *)
(***************************************************************************)
Pending(post) == stack # << >> /\ Head(stack).post = post
Idle(w)       == input.with_points /\ w.actives = {}

WithPoints(calls, S) == [j \in DOMAIN calls |-> [calls[j] EXCEPT !.actives = S]]

\* The callbacks at w: the one for the quadrant, those for the points, and with
\* call_post the first again.  Then the children, unless it ends here.
Visit(w, ends, children) ==
  \E pre \in Answers(input.pre), S \in Matches(w.quad, w.actives),
     again \in Answers(input.pre /\ input.call_post /\ input.with_points) :
    LET points == IF pre THEN w.actives ELSE {}
        goes   == pre /\ again /\ ~ ends /\ (input.with_points => S # {})
    IN  /\ entered' = Append(entered, [ quad |-> w.quad, num |-> LocalNum(w),
                                        pfirst |-> w.pfirst, plast |-> w.plast ])
        /\ tested'  = tested \union { << w.quad, k >> : k \in points }
        /\ refused' = IF pre /\ again THEN refused ELSE refused \union {w.quad}
        /\ stack'   = (IF goes THEN WithPoints(children, S) ELSE << >>) \o Tail(stack)
        /\ UNCHANGED << input, open >>

Skip ==
  /\ Pending(FALSE) /\ Idle(Head(stack))
  /\ stack' = Tail(stack)
  /\ UNCHANGED << input, entered, tested, open, refused >>

InOrder(S) == SelectSeq([i \in 1 .. CHILDREN |-> i - 1], LAMBDA i : i \in S)

\* p4est_local_recursion
EnterLocal ==
  /\ input.fn = "local" /\ Pending(FALSE) /\ ~ Idle(Head(stack))
  /\ LET w == [Head(stack) EXCEPT !.quad = Shrunk(Head(stack))]
         ids == InOrder(Nonempty(w))
     IN  Visit(w, IsLeaf(w), [j \in DOMAIN ids |-> Window(w, ids[j])])

ChildFrame(w, i) ==
  LET o == ChildOwners(w, i) IN [Window(w, i) EXCEPT !.pfirst = o[1], !.plast = o[2]]

\* p4est_partition_recursion and p4est_all_recursion, which also follows the
\* quadrants of the process
EnterPartition ==
  /\ input.fn \in { "partition", "gfp", "all" } /\ Pending(FALSE) /\ ~ Idle(Head(stack))
  /\ LET w       == Head(stack)
         proceed == \/ w.pfirst < w.plast
                    \/ input.fn = "all" /\ w.pfirst = input.rank /\ ~ IsLeaf(w)
     IN  Visit(w, ~ proceed, [j \in 1 .. CHILDREN |-> ChildFrame(w, j - 1)])

\* p4est_reorder_recursion.  With several leaves in the window, the callback for
\* the order may permute the children and leave some away.
Orders(w) ==
  IF w.hi = w.lo + 1 THEN { InOrder(Nonempty(w)) }
  ELSE UNION { SetToSeqs(S) : S \in SUBSET Nonempty(w) }

EnterReorder ==
  /\ input.fn = "reorder" /\ Pending(FALSE) /\ ~ Idle(Head(stack))
  /\ LET w == IF input.skip THEN [Head(stack) EXCEPT !.quad = Shrunk(Head(stack))]
              ELSE Head(stack)
     IN  \E pre \in Answers(input.pre), S \in Matches(w.quad, w.actives) :
           LET goes == pre /\ ~ IsLeaf(w) /\ (input.with_points => S # {})
               post == [w EXCEPT !.post = TRUE]
           IN  \E order \in IF goes THEN Orders(w) ELSE { << >> } :
                 /\ entered' = Append(entered, [ quad |-> w.quad, num |-> LocalNum(w),
                                                 pfirst |-> w.pfirst, plast |-> w.plast ])
                 /\ tested'  = tested \union { << w.quad, k >> : k \in IF pre THEN w.actives ELSE {} }
                 /\ refused' = refused \union
                      IF ~ pre THEN {w.quad}
                      ELSE IF ~ goes THEN {}
                      ELSE { Child(w.quad, i) : i \in Nonempty(w) \ ToSet(order) }
                 /\ open' = IF pre THEN Append(open, w.quad) ELSE open
                 /\ stack' = WithPoints([j \in DOMAIN order |-> Window(w, order[j])], S)
                               \o (IF pre THEN << post >> ELSE << >>) \o Tail(stack)
                 /\ UNCHANGED input

\* the post callback after the recursion, whose answer is ignored
Leave ==
  /\ Pending(TRUE)
  /\ open' = SelectSeq(open, LAMBDA q : q # Head(stack).quad)
  /\ stack' = Tail(stack)
  /\ UNCHANGED << input, entered, tested, refused >>

Next == Skip \/ EnterLocal \/ EnterPartition \/ EnterReorder \/ Leave

Call(t) ==
  LET win == IF input.fn \in { "partition", "gfp" } THEN << 0, 0 >> ELSE TreeWindow(t)
      own == IF input.fn \in { "local", "reorder" } THEN << -1, -1 >> ELSE TreeOwners(t)
  IN  [ quad |-> << t >>, lo |-> win[1], hi |-> win[2], pfirst |-> own[1], plast |-> own[2],
        actives |-> input.points, post |-> FALSE ]

Trees      == 0 .. NumTrees - 1
LocalTrees == { t \in Trees : IsLocalTree(t) }
TreeOrders ==
  CASE input.fn = "reorder" -> SetToSeqs(LocalTrees)
    [] input.fn = "local"   -> { SelectSeq([i \in 1 .. NumTrees |-> i - 1], LAMBDA t : t \in LocalTrees) }
    [] OTHER                -> { [i \in 1 .. NumTrees |-> i - 1] }

Init ==
  /\ input \in Inputs
  /\ \E order \in TreeOrders :
       stack = IF input.pre \/ input.with_points THEN [j \in DOMAIN order |-> Call(order[j])]
               ELSE << >>
  /\ entered = << >> /\ tested = {} /\ open = << >> /\ refused = {}

Spec == Init /\ [][Next]_vars
FairSpec == Spec /\ WF_vars(Next)

(***************************************************************************)
(* Properties                                                              *)
(***************************************************************************)
Owner(k) == CHOOSE p \in Procs : Position(p) <= k /\ k < Position(p + 1)
Mine     == input.gfq[input.rank] + 1 .. input.gfq[input.rank + 1]
IsGlobal == input.fn \in { "partition", "gfp", "all" }

\* What the callbacks are shown is right: with the processes, the owners of the
\* first and the last place of the quadrant; without them, a local leaf or a
\* quadrant above one, with the leaf's number.  Nothing is shown twice.
ShownRight ==
  /\ IsInjective([i \in DOMAIN entered |-> entered[i].quad])
  /\ \A i \in DOMAIN entered :
       LET e == entered[i]
       IN  /\ IF IsGlobal
              THEN /\ e.pfirst = Owner(Start(e.quad))
                   /\ e.plast = Owner(Start(e.quad) + Span(Level(e.quad)) - 1)
              ELSE \E k \in Mine : Below(e.quad, Leaf(k))
           /\ e.num # -1 => Leaf(input.gfq[input.rank] + 1 + e.num) = e.quad
           /\ (input.fn \in { "local", "reorder", "all" } /\ e.num = -1) =>
                \A k \in Mine : Leaf(k) # e.quad

\* A post callback is due for a quadrant and those around it only.
PostsNested ==
  /\ \A i \in 1 .. Len(open) - 1 : Below(open[i], open[i + 1]) /\ open[i] # open[i + 1]
  /\ stack = << >> => open = << >>

SearchSound == ShownRight /\ PostsNested

\* the searched places: all, or those of the points
Places == { k \in IF input.with_points THEN input.points ELSE 0 .. NumTrees * Span(0) - 1 :
              IsGlobal \/ Owner(k) = input.rank }
\* where a search ends by itself
Terminal(e) ==
  CASE input.fn \in { "local", "reorder" }  -> e.num # -1
    [] input.fn \in { "partition", "gfp" } -> e.pfirst = e.plast
    [] OTHER -> e.num # -1 \/ (e.pfirst = e.plast /\ e.pfirst # input.rank)

\* At the end every place has been followed to the one leaf or the one process
\* that has it, and a point there has been shown, unless the user stopped above.
EveryPlaceReached ==
  (input.pre \/ input.with_points) =>
  \A k \in Places :
    \/ \E q \in refused : Holds(q, k)
    \/ /\ Cardinality({ i \in DOMAIN entered :
                          Terminal(entered[i]) /\ Holds(entered[i].quad, k) }) = 1
       /\ input.with_points => \A i \in DOMAIN entered :
            (Terminal(entered[i]) /\ Holds(entered[i].quad, k)) => << entered[i].quad, k >> \in tested

\* Every search ends, and with all places reached.
Ended      == stack = << >> /\ EveryPlaceReached
SearchEnds == <>Ended
================================================================================
