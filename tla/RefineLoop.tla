----------------------------- MODULE RefineLoop ------------------------------
(***************************************************************************)
(* The refinement of one local tree, the body of the tree loop in          *)
(* p4est_refine_ext (src/p4est.c).                                         *)
(*                                                                         *)
(* The tree's quadrant array is rewritten in place.  Elements are read at  *)
(* restpos and written at current; a list holds what was read or created   *)
(* and is not yet written.  The array grows by CHILDREN - 1 each time a    *)
(* list element is refined, but the unread input stays where it was, so    *)
(* the loop must move input to the list before it writes over it.          *)
(*                                                                         *)
(* The refine callback is a pure predicate: the set call.refine_fn.        *)
(***************************************************************************)
EXTENDS Quadrants

CONSTANTS NumberToRead,   \* number_toread_quadrants: input moved at a time
          Inputs,         \* the arrays the tree may hold before the call
          Callbacks,      \* the sets of quadrants a refine callback may accept
          NoQuadrant      \* an array element that was never written

ASSUME NumberToReadAssumption == NumberToRead \in Nat \ {0}
ASSUME InputsAssumption ==
  Inputs \subseteq Seq(Quadrants) /\ \A s \in Inputs : s # << >>
ASSUME CallbacksAssumption == Callbacks \subseteq SUBSET Quadrants
ASSUME NoQuadrantAssumption == NoQuadrant \notin Quadrants

VARIABLES
  call,                 \* the arguments: input array, callback, recursion, level
  pc,                   \* "scan", "list" or "done"
  quadrants,            \* tree->quadrants
  current, restpos,     \* array positions, counted from 0 as in the code
  list, firsttime,
  maxlevel, quadrants_per_level,
  tree_maxlevel         \* tree->maxlevel

vars == << call, pc, quadrants, current, restpos, list, firsttime,
           maxlevel, quadrants_per_level, tree_maxlevel >>

Wanted(q) == q \in call.refine_fn /\ Level(q) < call.allowed_level

incount == Len(call.input)

Element(pos) == quadrants[pos + 1]

\* maxlevel = SC_MAX (maxlevel, q->level); ++quadrants_per_level[q->level]
Count(q) ==
  /\ maxlevel' = IF Level(q) > maxlevel THEN Level(q) ELSE maxlevel
  /\ quadrants_per_level' = [quadrants_per_level EXCEPT ![Level(q)] = @ + 1]

Init ==
  /\ call \in [ input : Inputs, refine_fn : Callbacks,
                refine_recursive : BOOLEAN, allowed_level : 0 .. QMAXLEVEL ]
  /\ pc = "scan"
  /\ quadrants = call.input
  /\ current = 0
  /\ restpos = 0
  /\ list = << >>
  /\ firsttime = FALSE
  /\ maxlevel = 0
  /\ quadrants_per_level = [l \in 0 .. QMAXLEVEL |-> 0]
  /\ tree_maxlevel = HighestLevel(call.input)

\* run through the array to find the first quadrant to be refined
ScanKeep ==
  /\ pc = "scan" /\ current < incount
  /\ ~ Wanted(Element(current))
  /\ Count(Element(current))
  /\ current' = current + 1
  /\ UNCHANGED << call, pc, quadrants, restpos, list, firsttime, tree_maxlevel >>

ScanFound ==
  /\ pc = "scan" /\ current < incount
  /\ Wanted(Element(current))
  /\ pc' = "list"
  /\ list' = << [quad |-> Element(current), pad8 |-> FALSE] >>
  /\ restpos' = current + 1
  /\ firsttime' = TRUE
  /\ UNCHANGED << call, quadrants, current, maxlevel, quadrants_per_level,
                  tree_maxlevel >>

\* no refinement occurs in this tree
ScanEnd ==
  /\ pc = "scan" /\ current = incount
  /\ pc' = "done"
  /\ UNCHANGED << call, quadrants, current, restpos, list, firsttime, maxlevel,
                  quadrants_per_level, tree_maxlevel >>

\* mutant: children made by this call are refined again
Refines_Again(e) == firsttime \/ Wanted(e.quad)

Refines(e) ==
  firsttime \/ ((call.refine_recursive \/ ~ e.pad8) /\ Wanted(e.quad))

\* sc_array_resize by CHILDREN - 1
Grown(s) == s \o [i \in 1 .. CHILDREN - 1 |-> NoQuadrant]

\* mutant: the children are prepended in the wrong order
NewEntries_Reversed(q) ==
  [i \in 1 .. CHILDREN |-> [quad |-> Child(q, CHILDREN - i), pad8 |-> TRUE]]

NewEntries(q) == [i \in 1 .. CHILDREN |-> [quad |-> Child(q, i - 1), pad8 |-> TRUE]]

SplitHead ==
  /\ pc = "list" /\ list # << >>
  /\ Refines(Head(list))
  /\ firsttime' = FALSE
  /\ quadrants' = Grown(quadrants)
  /\ list' = NewEntries(Head(list).quad) \o Tail(list)
  /\ UNCHANGED << call, pc, current, restpos, maxlevel, quadrants_per_level,
                  tree_maxlevel >>

\* mutants: the last element of a short batch is left behind; no room is made
MoveCount_OneShort ==
  IF restpos < incount /\ current = restpos
  THEN IF incount - restpos <= NumberToRead THEN incount - restpos - 1 ELSE NumberToRead
  ELSE 0
MoveCount_Never == 0

\* how much input must be read before position current may be written
MoveCount ==
  IF restpos < incount /\ current = restpos
  THEN IF incount - restpos < NumberToRead THEN incount - restpos ELSE NumberToRead
  ELSE 0

\* mutant: input that is moved keeps the mark of the children made by this call
ReadEntries_Marked(n) ==
  [i \in 1 .. n |-> [quad |-> quadrants[restpos + i], pad8 |-> TRUE]]

ReadEntries(n) ==
  [i \in 1 .. n |-> [quad |-> quadrants[restpos + i], pad8 |-> FALSE]]

StoreHead ==
  /\ pc = "list" /\ list # << >>
  /\ ~ Refines(Head(list))
  /\ list' = Tail(list) \o ReadEntries(MoveCount)
  /\ restpos' = restpos + MoveCount
  /\ quadrants' = [quadrants EXCEPT ![current + 1] = Head(list).quad]
  /\ Count(Head(list).quad)
  /\ current' = current + 1
  /\ UNCHANGED << call, pc, firsttime, tree_maxlevel >>

ListEnd ==
  /\ pc = "list" /\ list = << >>
  /\ pc' = "done"
  /\ tree_maxlevel' = maxlevel
  /\ UNCHANGED << call, quadrants, current, restpos, list, firsttime, maxlevel,
                  quadrants_per_level >>

Next == ScanKeep \/ ScanFound \/ ScanEnd \/ SplitHead \/ StoreHead \/ ListEnd

Spec     == Init /\ [][Next]_vars
\* straight-line code of one process: it runs until it returns
FairSpec == Spec /\ WF_vars(Next)

(***************************************************************************)
(* Properties                                                              *)
(***************************************************************************)
\* Every variable stays in its type: positions inside the array, list
\* elements real quadrants (never an unwritten array slot).
TypeOK ==
  /\ call \in [ input : Inputs, refine_fn : Callbacks,
                refine_recursive : BOOLEAN, allowed_level : 0 .. QMAXLEVEL ]
  /\ pc \in {"scan", "list", "done"}
  /\ quadrants \in Seq(Quadrants \union {NoQuadrant})
  /\ current \in 0 .. Len(quadrants)
  /\ restpos \in 0 .. incount
  /\ list \in Seq([quad : Quadrants, pad8 : BOOLEAN])
  /\ firsttime \in BOOLEAN
  /\ maxlevel \in 0 .. QMAXLEVEL
  /\ quadrants_per_level \in [0 .. QMAXLEVEL -> Nat]
  /\ tree_maxlevel \in 0 .. QMAXLEVEL

\* Input that has not been read is still in the array where it was: writing
\* at current never overtakes reading at restpos.
UnreadIntact == \A k \in restpos + 1 .. incount : quadrants[k] = call.input[k]

\* The two assertions after the loop: the list only runs empty when all of
\* the input was read, and then the last slot of the grown array was written.
LoopEndAssertions ==
  (pc = "list" /\ list = << >>) => restpos = incount /\ current = Len(quadrants)

\* The quadrants the call must leave: below each input quadrant, what is
\* reached by refining wanted quadrants only and is itself not to be refined.
Below(o, q) == q = o \/ IsAncestor(o, q)
IsResult(o, q) ==
  /\ Below(o, q)
  /\ \A l \in Level(o) .. Level(q) - 1 : Wanted(Ancestor(q, l))
  /\ IF call.refine_recursive THEN ~ Wanted(q)
     ELSE Level(q) = Level(o) + IF Wanted(o) THEN 1 ELSE 0
ResultLeaves ==
  { q \in Quadrants : \E i \in 1 .. incount : IsResult(call.input[i], q) }

\* The array ends as exactly the quadrants the callback asked for, in Morton
\* order, each once and none lost, as the final assertions of the code want.
ResultCorrect ==
  pc = "done" =>
    /\ quadrants = InMortonOrder(ResultLeaves)
    /\ \A l \in 0 .. QMAXLEVEL :
         quadrants_per_level[l] = Cardinality({ i \in DOMAIN quadrants : Level(quadrants[i]) = l })
    /\ tree_maxlevel = HighestLevel(quadrants)

\* Whatever the callback asks for, the call returns, and with that result.
RefineEnds == <>(pc = "done" /\ ResultCorrect)

(***************************************************************************)
(* The in-place loop implements RefineAbs: what is to be done is the list  *)
(* followed by the unread input, the result is the array before current.   *)
(***************************************************************************)
ReadFrom == IF restpos < current THEN current ELSE restpos
Unread   == [i \in 1 .. incount - ReadFrom |->
               [quad |-> call.input[ReadFrom + i], pad8 |-> FALSE]]
Todo     == list \o Unread
Out      == SubSeq(quadrants, 1, current)

Abs == INSTANCE RefineAbs WITH todo <- Todo, out <- Out

\* Every step of the loop splits or keeps the first pending quadrant, or only
\* moves input from the array to the list.
ImplementsAbs == Abs!Spec
==============================================================================
