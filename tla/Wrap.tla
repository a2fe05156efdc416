---------------------------------- MODULE Wrap ---------------------------------
(***************************************************************************)
(* The adaptation wrapper of src/p4est_wrap.c: a program marks quadrants,  *)
(* adapts, and where that says so partitions and completes.                *)
(*                                                                         *)
(* The calls on the forest are collective, a mark is local.  A quadrant is *)
(* the sequence of its tree and the child numbers down to it.  The wrapper *)
(* does not look at geometry; to have a balance to work with, the trees    *)
(* form a line, where neighbours in the Morton order touch each other.     *)
(* A ghost layer and its mesh are represented by the leaves, per process,  *)
(* that they were made of.                                                 *)
(***************************************************************************)
EXTENDS Integers, Sequences, FiniteSets, FiniteSetsExt, SequencesExt

CONSTANTS CHILDREN, QMAXLEVEL, NumProcs, NumTrees,
          Params,       \* coarsen_delay, coarsen_affect, store_adapted, have_zlib
          MaxAdapts,    \* bound: calls of p4est_wrap_adapt
          MaxMarks,     \* bound: quadrants that are marked at a time
          MaxLateMarks  \* bound: the same between an adaptation and its partition

VARIABLES
  params,            \* with hollow
  forest,            \* per process: the quadrants with their user_int
  flags,             \* per process and quadrant: a subset of { "refine", "coarsen" }
  num_refine_flags,  \* per process
  layer,             \* ghost and mesh
  layer_aux,         \* ghost_aux and mesh_aux
  match_aux,
  old_gfq,           \* old_global_first_quadrant is allocated
  newly,             \* per process: newly_refined and newly_coarsened
  unchanged,         \* per process: what p4est_wrap_partition returns
  adapts             \* the number of adaptations, for the bound

WrapAssumption ==
  /\ CHILDREN \in Nat /\ CHILDREN > 1 /\ QMAXLEVEL \in Nat
  /\ NumProcs \in Nat \ {0} /\ NumTrees \in Nat

vars == << params, forest, flags, num_refine_flags, layer, layer_aux, match_aux,
           old_gfq, newly, unchanged, adapts >>

Null  == << >>
Procs == 0 .. NumProcs - 1

Level(q)    == Len(q) - 1
Children(q) == [k \in 1 .. CHILDREN |-> Append(q, k - 1)]
IsFamily(s) == /\ Len(s) = CHILDREN /\ Level(s[1]) > 0
               /\ s = Children(SubSeq(s[1], 1, Level(s[1])))

\* the quadrants that a family would be
From(s, i)  == IF i + CHILDREN - 1 > Len(s) THEN << >> ELSE SubSeq(s, i, i + CHILDREN - 1)

Quads(s)     == [i \in DOMAIN s |-> s[i].quad]
Leaves(f)    == [p \in Procs |-> Quads(f[p])]
InOrder(f)   == FlattenSeq([i \in 1 .. NumProcs |-> f[i - 1]])
NumGlobal(f) == Len(InOrder(f))
gfq(f) == [p \in 0 .. NumProcs |-> Len(FlattenSeq([i \in 1 .. p |-> f[i - 1]]))]
NoFlags(f)   == [p \in Procs |-> [i \in DOMAIN f[p] |-> {}]]
NoRefine     == [p \in Procs |-> 0]
\* abstraction: a counter past the delay stays where it is
Older(age)   == Min({ age + 1, params.coarsen_delay + 1 })
Fresh(quads, age) == [k \in DOMAIN quads |-> [ quad |-> quads[k], user_int |-> age ]]

(***************************************************************************)
(* The passes over the local quadrants inside of p4est_wrap_adapt.         *)
(***************************************************************************)
\* refine_callback, and replace_on_refine where p4est_refine_ext refines
RefineStep(acc, e) ==
  LET flag    == flags[acc.proc][acc.counter + 1]
      at      == acc.counter + (CHILDREN - 1) * acc.replaced
      keeps   == flag \ {"refine"}
      refines == "refine" \in flag /\ Level(e.quad) < QMAXLEVEL
      older   == params.coarsen_delay > 0 /\ e.user_int >= 0
      reach   == IF refines THEN CHILDREN - 1 ELSE 0
  IN  [ acc EXCEPT !.counter = @ + 1,
                   !.replaced = IF refines THEN @ + 1 ELSE @,
                   !.temp = SubSeq(@, 1, at) \o [k \in 1 .. reach + 1 |-> keeps] \o SubSeq(@, at + reach + 2, Len(@)),
                   !.out = @ \o IF refines THEN Fresh(Children(e.quad), 0)
                                ELSE << [ quad |-> e.quad, user_int |-> IF older THEN Older(e.user_int) ELSE e.user_int ] >> ]

Refined(p) ==
  LET start == [ proc |-> p, counter |-> 0, replaced |-> 0, out |-> << >>,
                 temp |-> [k \in 1 .. Len(forest[p]) + (CHILDREN - 1) * num_refine_flags[p] |-> {}] ]
      pass[i \in 0 .. Len(forest[p])] == IF i = 0 THEN start ELSE RefineStep(pass[i - 1], forest[p][i])
  IN  pass[Len(forest[p])]

\* mutant: one adaptation too early
OldEnough_Early(e) ==
  params.coarsen_delay = 0 \/ e.user_int < 0 \/ e.user_int >= params.coarsen_delay

OldEnough(e) == params.coarsen_delay = 0 \/ e.user_int < 0 \/ e.user_int > params.coarsen_delay

\* p4est_coarsen_ext at its next quadrant and coarsen_callback, which is called
\* for families and for single quadrants too, to count them
CoarsenStep(acc, i) ==
  LET family  == From(acc.in, i)
      coarsen == /\ IsFamily(Quads(family))
                 /\ \A k \in 1 .. CHILDREN : /\ "coarsen" \in acc.temp[acc.counter + k]
                                             /\ OldEnough(family[k])
      parent  == SubSeq(acc.in[i].quad, 1, Level(acc.in[i].quad))
      age     == IF params.coarsen_delay = 0 \/ params.coarsen_affect THEN 0 ELSE -1
  IN  IF acc.skip > 0 THEN [acc EXCEPT !.skip = @ - 1]
      ELSE [ acc EXCEPT !.counter = @ + IF coarsen THEN CHILDREN ELSE 1,
                        !.skip = IF coarsen THEN CHILDREN - 1 ELSE 0,
                        !.out = Append(@, IF coarsen THEN [ quad |-> parent, user_int |-> age ]
                                          ELSE acc.in[i]) ]

Coarsened(refined) ==
  LET start == [ in |-> refined.out, temp |-> refined.temp, counter |-> 0, skip |-> 0, out |-> << >> ]
      pass[i \in 0 .. Len(refined.out)] == IF i = 0 THEN start ELSE CoarsenStep(pass[i - 1], i)
  IN  pass[Len(refined.out)].out

\* p4est_balance_ext and replace_on_balance: a quadrant next to one that is finer
\* by two levels is split
BalanceOnce(f) ==
  LET all == InOrder(f)
      coarse(g) == \E h \in {g - 1, g + 1} \cap DOMAIN all : Level(all[h].quad) > Level(all[g].quad) + 1
      age == IF params.coarsen_delay > 0 THEN -1 ELSE 0
      balanced(s, first) == FlattenSeq([i \in DOMAIN s |->
        IF coarse(first + i) THEN Fresh(Children(s[i].quad), age) ELSE << s[i] >>])
  IN  [p \in Procs |-> balanced(f[p], gfq(f)[p])]
Balanced(f) ==
  LET round[i \in 0 .. QMAXLEVEL] == IF i = 0 THEN f ELSE BalanceOnce(round[i - 1])
  IN  round[QMAXLEVEL]

\* mutant: the other children of a refined quadrant are compared too
NewlyAdapted_Each(old, new) ==
  LET walk[zz \in Nat, qz \in Nat] ==
        IF zz > Len(new) \/ qz > Len(old) THEN [ refined |-> {}, coarsened |-> {} ]
        ELSE IF Level(new[zz]) > Level(old[qz])
        THEN [ walk[zz + 1, qz + 1] EXCEPT !.refined = @ \union {zz} ]
        ELSE IF Level(new[zz]) < Level(old[qz])
        THEN [ walk[zz + 1, qz + CHILDREN] EXCEPT !.coarsened = @ \union {zz} ]
        ELSE walk[zz + 1, qz + 1]
  IN  walk[1, 1]

\* the loop that compares the levels before and after
NewlyAdapted(old, new) ==
  LET walk[zz \in Nat, qz \in Nat] ==
        IF zz > Len(new) THEN [ refined |-> {}, coarsened |-> {} ]
        ELSE IF Level(new[zz]) > Level(old[qz])
        THEN [ walk[zz + CHILDREN, qz + 1] EXCEPT !.refined = @ \union {zz} ]
        ELSE IF Level(new[zz]) < Level(old[qz])
        THEN [ walk[zz + 1, qz + CHILDREN] EXCEPT !.coarsened = @ \union {zz} ]
        ELSE walk[zz + 1, qz + 1]
  IN  walk[1, 1]

(***************************************************************************)
(* The calls.                                                              *)
(***************************************************************************)
\* initial_level = 1
Uniform == FlattenSeq([t \in 1 .. NumTrees |-> Children(<< t - 1 >>)])
Cuts(n) == { c \in [0 .. NumProcs -> 0 .. n] :
               c[0] = 0 /\ c[NumProcs] = n /\ \A p \in Procs : c[p] <= c[p + 1] }
Dealt(s, c) == [p \in Procs |-> SubSeq(s, c[p] + 1, c[p + 1])]

\* p4est_wrap_new_params: a uniform forest, divided evenly
Init ==
  /\ \E s \in Params :
       params = [ hollow |-> FALSE, coarsen_delay |-> s.coarsen_delay, coarsen_affect |-> s.coarsen_affect,
                  store_adapted |-> s.store_adapted, have_zlib |-> s.have_zlib ]
  /\ forest = Dealt(Fresh(Uniform, 0), [p \in 0 .. NumProcs |-> (Len(Uniform) * p) \div NumProcs])
  /\ flags = NoFlags(forest) /\ num_refine_flags = NoRefine
  /\ layer = Leaves(forest) /\ layer_aux = Null /\ match_aux = FALSE /\ old_gfq = FALSE
  /\ newly = Null /\ unchanged = Null /\ adapts = 0

Marked == IF params.hollow THEN {}
          ELSE UNION { { << p, i >> : i \in { j \in DOMAIN flags[p] : flags[p][j] # {} } } : p \in Procs }
\* a mark may come at any time, also between adapt and partition or complete; bounds:
\* the number of marks, none after the last adaptation
MayMark(p, i) ==
  /\ ~ params.hollow /\ adapts < MaxAdapts
  /\ Cardinality(Marked \union { << p, i >> }) <= IF match_aux THEN MaxLateMarks ELSE MaxMarks

MarkRefine(p, i) ==
  /\ MayMark(p, i)
  /\ flags' = [flags EXCEPT ![p][i] = {"refine"}]
  /\ num_refine_flags' = [num_refine_flags EXCEPT ![p] = IF "refine" \in flags[p][i] THEN @ ELSE @ + 1]
  /\ UNCHANGED << params, forest, layer, layer_aux, match_aux, old_gfq, newly, unchanged, adapts >>

Unmarked(p, i) == IF "refine" \in flags[p][i] THEN 1 ELSE 0

MarkCoarsen(p, i) ==
  /\ MayMark(p, i)
  /\ flags' = [flags EXCEPT ![p][i] = {"coarsen"}]
  /\ num_refine_flags' = [num_refine_flags EXCEPT ![p] = @ - Unmarked(p, i)]
  /\ UNCHANGED << params, forest, layer, layer_aux, match_aux, old_gfq, newly, unchanged, adapts >>

Adapt ==
  /\ ~ params.hollow /\ layer_aux = Null /\ ~ match_aux /\ adapts < MaxAdapts
  /\ LET refined   == [p \in Procs |-> Refined(p)]
         coarsened == [p \in Procs |-> Coarsened(refined[p])]
         changes   == \/ NumGlobal([p \in Procs |-> refined[p].out]) # NumGlobal(forest)
                      \/ NumGlobal(coarsened) # NumGlobal([p \in Procs |-> refined[p].out])
         after     == IF changes THEN Balanced(coarsened) ELSE coarsened
         cancels   == params.have_zlib /\ Leaves(after) = Leaves(forest)
         changed   == changes /\ ~ cancels
     IN  /\ forest' = after
         /\ flags' = NoFlags(after)
         /\ match_aux' = changed
         /\ layer_aux' = IF changed THEN Leaves(after) ELSE Null
         /\ newly' = IF ~ params.store_adapted THEN Null
                     ELSE [p \in Procs |-> NewlyAdapted(Leaves(forest)[p], Leaves(after)[p])]
  /\ num_refine_flags' = NoRefine
  /\ adapts' = adapts + 1
  /\ unchanged' = Null
  /\ UNCHANGED << params, layer, old_gfq >>

\* mutant: the window begins where it did before
Window_OldFirst(pre_me, pre_next, post_me, post_next) ==
  IF pre_me < post_next /\ post_me < pre_next
  THEN [ first |-> 0, old_first |-> Max({ 0, post_me - pre_me }),
         length |-> Min({ pre_next, post_next }) - Max({ pre_me, post_me }) ]
  ELSE [ first |-> 0, old_first |-> 0, length |-> 0 ]

\* p4est_wrap_partition_unchanged
Window(pre_me, pre_next, post_me, post_next) ==
  IF pre_me < post_next /\ post_me < pre_next
  THEN [ first |-> Max({ 0, pre_me - post_me }), old_first |-> Max({ 0, post_me - pre_me }),
         length |-> Min({ pre_next, post_next }) - Max({ pre_me, post_me }) ]
  ELSE [ first |-> 0, old_first |-> 0, length |-> 0 ]

\* the layer that stands after a partition that changes nothing
Kept_Old == layer
Kept     == layer_aux

\* Partition may choose any cuts: PartitionWeighted and PartitionCoarsening say
\* which.  Marks made since the adaptation are dropped, but stay counted.
Partition ==
  /\ ~ params.hollow /\ match_aux
  /\ \E c \in Cuts(NumGlobal(forest)) :
       LET pre     == gfq(forest)
           changed == c # pre
           after   == Dealt(InOrder(forest), c)
       IN  /\ forest' = after
           /\ flags' = NoFlags(after)
           /\ num_refine_flags' = num_refine_flags
           /\ old_gfq' = changed
           /\ unchanged' = [p \in Procs |->
                IF changed THEN Window(pre[p], pre[p + 1], c[p], c[p + 1])
                ELSE [ first |-> 0, old_first |-> 0, length |-> Len(forest[p]) ]]
           /\ layer' = IF changed THEN Leaves(after) ELSE Kept
           /\ layer_aux' = IF changed THEN layer_aux ELSE Null
  /\ match_aux' = FALSE
  /\ UNCHANGED << params, newly, adapts >>

Complete ==
  /\ ~ params.hollow /\ layer_aux # Null /\ ~ match_aux /\ old_gfq
  /\ layer_aux' = Null /\ old_gfq' = FALSE /\ unchanged' = Null
  /\ UNCHANGED << params, forest, flags, num_refine_flags, layer, match_aux, newly, adapts >>

SetHollow(hollow) ==
  /\ ~ match_aux /\ layer_aux = Null /\ hollow # params.hollow
  /\ params' = [params EXCEPT !.hollow = hollow]
  /\ flags' = IF hollow THEN Null ELSE NoFlags(forest)
  /\ layer' = IF hollow THEN Null ELSE Leaves(forest)
  /\ num_refine_flags' = NoRefine
  /\ UNCHANGED << forest, layer_aux, match_aux, old_gfq, newly, unchanged, adapts >>

\* bound: not after the last adaptation
SetCoarsenDelay(delay, affect) ==
  /\ adapts < MaxAdapts
  /\ params' = [params EXCEPT !.coarsen_delay = delay, !.coarsen_affect = affect]
  /\ forest' = [p \in Procs |-> Fresh(Quads(forest[p]), 0)]
  /\ UNCHANGED << flags, num_refine_flags, layer, layer_aux, match_aux, old_gfq, newly,
                  unchanged, adapts >>

Next ==
  \/ \E p \in Procs : \E i \in DOMAIN forest[p] : MarkRefine(p, i) \/ MarkCoarsen(p, i)
  \/ Adapt \/ Partition \/ Complete
  \/ \E hollow \in BOOLEAN : SetHollow(hollow)
  \/ \E s \in Params : SetCoarsenDelay(s.coarsen_delay, s.coarsen_affect)

Spec == Init /\ [][Next]_vars

(***************************************************************************)
(* Properties.                                                             *)
(***************************************************************************)
\* Whatever was called: there is a flag for every quadrant, and no less refinement
\* marks are counted than there are, so that the temporary flags, which are allocated
\* by the count, suffice.  The count is exact until a partition drops marks made
\* after the adaptation.  The ghost layer and mesh that a program gets are those of
\* the forest as it is.
InUse       == IF match_aux THEN layer_aux ELSE layer
ToRefine(p) == { i \in DOMAIN flags[p] : "refine" \in flags[p][i] }
WrapCurrent ==
  IF params.hollow THEN flags = Null /\ layer = Null
  ELSE /\ InUse = Leaves(forest)
       /\ \A p \in Procs :
            /\ DOMAIN flags[p] = DOMAIN forest[p]
            /\ num_refine_flags[p] >= Cardinality(ToRefine(p))
            /\ match_aux => num_refine_flags[p] = Cardinality(ToRefine(p))

\* After an adaptation the new indices of the families that replace a quadrant
\* and of the quadrants that replace a family are known, and all others were
\* there before.
NewlyRight ==
  match_aux /\ newly # Null =>
    \A p \in Procs :
      LET old == ToSet(layer[p])
          new == layer_aux[p]
          family(i) == From(new, i)
      IN  /\ newly[p].refined = { i \in DOMAIN new : /\ IsFamily(family(i))
                                    /\ SubSeq(new[i], 1, Level(new[i])) \in old }
          /\ newly[p].coarsened = { i \in DOMAIN new : ToSet(Children(new[i])) \subseteq old }
          /\ \A i \in DOMAIN new :
               \/ new[i] \in old \/ i \in newly[p].coarsened
               \/ \E k \in newly[p].refined : i \in k .. k + CHILDREN - 1

\* Between partition and complete the window is what a process has kept: the same
\* quadrants in the old and in the new layer, and none outside of it.
WindowKept ==
  unchanged # Null /\ old_gfq =>
    \A p \in Procs :
      LET w   == unchanged[p]
          was == layer_aux[p]
          is  == layer[p]
      IN  /\ SubSeq(is, w.first + 1, w.first + w.length)
               = SubSeq(was, w.old_first + 1, w.old_first + w.length)
          /\ ToSet(is) \cap ToSet(was) = ToSet(SubSeq(is, w.first + 1, w.first + w.length))

\* a quadrant that lives through the refinement has grown older
Age(p, i) == forest[p][i].user_int + IF forest[p][i].user_int < 0 THEN 0 ELSE 1

\* An adaptation refines what is marked, down to the deepest level, and coarsens
\* no family unless all of it is marked and older than the delay.
AdaptsAsMarked ==
  [][ adapts' # adapts =>
        \A p \in Procs : \A i \in DOMAIN forest[p] :
          LET q      == forest[p][i].quad
              there  == ToSet(Leaves(forest')[p])
              parent == SubSeq(q, 1, Level(q))
          IN  /\ "refine" \in flags[p][i] /\ Level(q) < QMAXLEVEL => q \notin there
              /\ parent \in there =>
                   /\ "coarsen" \in flags[p][i]
                   /\ params.coarsen_delay = 0 \/ Age(p, i) \notin 0 .. params.coarsen_delay
    ]_vars
==============================================================================
