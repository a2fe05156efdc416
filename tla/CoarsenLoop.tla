----------------------------- MODULE CoarsenLoop -----------------------------
(***************************************************************************)
(* The coarsening of one local tree, the body of the tree loop in          *)
(* p4est_coarsen_ext (src/p4est.c).                                        *)
(*                                                                         *)
(* A window of CHILDREN quadrants slides over the array.  Replacing a      *)
(* family by its parent leaves a hole of length elements behind position   *)
(* start; the window looks across the hole.  A recursive call moves the    *)
(* window back to where the new parent could complete a family.            *)
(***************************************************************************)
EXTENDS Quadrants

CONSTANTS Calls   \* [input, coarsen_fn: the parents whose family the callback accepts,
                  \*  coarsen_recursive, callback_orphans]

\* the input is the complete part of a tree that a process has
CallsAssumption ==
  \A c \in Calls : /\ c.input \in Seq(Quadrants) /\ c.input # << >> /\ Gapless(c.input)
                   /\ c.coarsen_fn \subseteq Quadrants

VARIABLES
  call,                    \* the arguments: input array, callback and its modes
  pc,                      \* "window" or "done"
  quadrants,               \* tree->quadrants
  window, start, length,   \* positions counted from 0 as in the code
  quadrants_per_level, maxlevel,
  shown                    \* the quadrants the callback was called with

vars == << call, pc, quadrants, window, start, length, quadrants_per_level, maxlevel,
           shown >>

incount == Len(call.input)
Element(pos) == quadrants[pos + 1]

\* c[zz]: the window skips the hole
Member(zz)   == Element(IF window + zz < start THEN window + zz ELSE window + length + zz)
Members      == [i \in 1 .. CHILDREN |-> Member(i - 1)]
HaveFamily   == \A zz \in 0 .. CHILDREN - 1 : ChildId(Member(zz)) = zz
WindowFits   == window + CHILDREN + length <= incount

CountLevels(s) ==
  [l \in 0 .. QMAXLEVEL |-> Cardinality({ i \in 1 .. Len(s) : Level(s[i]) = l })]

Init ==
  /\ call \in Calls
  /\ pc = "window"
  /\ quadrants = call.input
  /\ window = 0 /\ start = 1 /\ length = 0
  /\ quadrants_per_level = CountLevels(call.input)
  /\ maxlevel = HighestLevel(call.input)
  /\ shown = {}

\* mutant: the element behind the hole is not moved
CloseHole_NoMove(arr, st, hole) ==
  /\ window' = window + 1
  /\ start' = IF window + 1 = st /\ st + hole < incount THEN window + 2 ELSE st
  /\ quadrants' = arr

\* the window moves on; when it reaches the hole, the element behind the hole
\* is moved in front of it
CloseHole(arr, st, hole) ==
  /\ window' = window + 1
  /\ IF window + 1 = st /\ st + hole < incount
     THEN /\ start' = window + 2
          /\ quadrants' = IF hole > 0 THEN [arr EXCEPT ![st + 1] = arr[st + hole + 1]] ELSE arr
     ELSE start' = st /\ quadrants' = arr

Orphan ==
  /\ pc = "window" /\ WindowFits
  /\ ~ HaveFamily
  /\ shown' = IF call.callback_orphans THEN shown \union { Member(0) } ELSE shown
  /\ CloseHole(quadrants, start, length)
  /\ UNCHANGED << call, pc, length, quadrants_per_level, maxlevel >>

ShowFamily == shown' = shown \union { Member(zz) : zz \in 0 .. CHILDREN - 1 }

Decline ==
  /\ pc = "window" /\ WindowFits
  /\ HaveFamily /\ Parent(Member(0)) \notin call.coarsen_fn
  /\ ShowFamily
  /\ CloseHole(quadrants, start, length)
  /\ UNCHANGED << call, pc, length, quadrants_per_level, maxlevel >>

\* mutant: a parent that could complete the first family of the array is left
BackTo_Strict(cidz) == cidz < window /\ call.coarsen_recursive

\* the new parent may be a later member of a family further left
BackTo(cidz) == cidz <= window /\ call.coarsen_recursive

\* mutant: the hole is taken one element too short
HoleGrowth_Short == CHILDREN - 2

HoleGrowth == CHILDREN - 1

LevelsAfter(child) ==
  [quadrants_per_level EXCEPT ![Level(child)]     = @ - CHILDREN,
                              ![Level(child) - 1] = @ + 1]

Coarsen ==
  /\ pc = "window" /\ WindowFits
  /\ HaveFamily /\ Parent(Member(0)) \in call.coarsen_fn
  /\ ShowFamily
  /\ quadrants_per_level' = LevelsAfter(Member(0))
  /\ length' = length + HoleGrowth
  /\ LET cfirst == Parent(Member(0))
         arr    == [quadrants EXCEPT ![window + 1] = cfirst]
     IN  IF BackTo(ChildId(cfirst))
         THEN /\ window' = window - ChildId(cfirst)
              /\ start' = window + 1
              /\ quadrants' = arr
         ELSE CloseHole(arr, window + 1, length')
  /\ UNCHANGED << call, pc, maxlevel >>

\* the array without the hole
Closed == SubSeq(quadrants, 1, start) \o SubSeq(quadrants, start + length + 1, incount)

\* mutant: the loop for the orphans at the end starts behind the next window
Remaining_Next == { Closed[i] : i \in window + 2 .. incount - length }

Remaining == { Closed[i] : i \in window + 1 .. incount - length }

\* maxlevel is recomputed: the deepest level may be gone
DeepestCounted ==
  LET used == { l \in 0 .. QMAXLEVEL : quadrants_per_level[l] > 0 }
  IN  IF used = {} THEN 0 ELSE CHOOSE l \in used : \A m \in used : m <= l

Finish ==
  /\ pc = "window" /\ ~ WindowFits
  /\ pc' = "done"
  /\ quadrants' = Closed
  /\ shown' = IF call.callback_orphans THEN shown \union Remaining ELSE shown
  /\ maxlevel' = DeepestCounted
  /\ UNCHANGED << call, window, start, length, quadrants_per_level >>

Next == Orphan \/ Decline \/ Coarsen \/ Finish

Spec     == Init /\ [][Next]_vars
\* straight-line code of one process: it runs until it returns
FairSpec == Spec /\ WF_vars(Next)

(***************************************************************************)
(* Properties                                                              *)
(***************************************************************************)
\* P4EST_ASSERT (!isfamily || p4est_quadrant_is_familypv (c)): consecutive
\* child ids in the window are a family, although one side of the window may
\* hold parents made by this call and the other side old leaves.
ConsecutiveIdsAreFamily ==
  (pc = "window" /\ WindowFits /\ HaveFamily) => IsFamily(Members)

\* The leaves the call must leave: a parent is formed when its whole family is
\* there, accepted, and made of input leaves or (recursively) of such parents.
Within(a, q)   == a = q \/ IsAncestor(a, q)
InputNodes     == UNION { { Ancestor(call.input[i], l) : l \in 0 .. Level(call.input[i]) - 1 }
                          : i \in 1 .. incount }
InnerNodes(a)  == { b \in InputNodes : Within(a, b) }
FullyLocal(a)  ==
  LET inside == { i \in 1 .. incount : Within(a, call.input[i]) }
  IN  inside # {} /\ \E i, j \in inside :
        /\ FirstDescendant(call.input[i], QMAXLEVEL) = FirstDescendant(a, QMAXLEVEL)
        /\ LastDescendant(call.input[j], QMAXLEVEL) = LastDescendant(a, QMAXLEVEL)
Formed(a) ==
  /\ InnerNodes(a) # {} /\ FullyLocal(a)
  /\ InnerNodes(a) \subseteq call.coarsen_fn
  /\ call.coarsen_recursive \/ InnerNodes(a) = { a }
ResultLeaves ==
  LET formed == { a \in InputNodes : Formed(a) }
      old    == { call.input[i] : i \in 1 .. incount }
  IN  { q \in formed \union old : ~ \E a \in formed : IsAncestor(a, q) }

\* Exactly the accepted families are merged: none is missed by the sliding
\* window, none is merged twice, and a recursive call reaches the fixed point.
ResultCorrect ==
  pc = "done" =>
    /\ quadrants = InMortonOrder(ResultLeaves)
    /\ quadrants_per_level = CountLevels(quadrants)
    /\ maxlevel = HighestLevel(quadrants)

\* With callback_orphans the callback sees every quadrant of the input, in a
\* family or alone, also those behind the last position of the window.
EveryQuadrantShown ==
  (pc = "done" /\ call.callback_orphans) =>
    { call.input[i] : i \in 1 .. incount } \subseteq shown

\* The call returns, with that result and after it has shown every quadrant.
Ended == pc = "done" /\ ResultCorrect /\ EveryQuadrantShown

\* The array with its hole taken out is the leaves of CoarsenAbs: every step
\* merges one accepted family or changes nothing.
Leaves == IF pc = "window" THEN Closed ELSE quadrants
Abs == INSTANCE CoarsenAbs WITH leaves <- Leaves
ImplementsAbs == Abs!Spec
==============================================================================
