------------------------------- MODULE MCLocal -------------------------------
(* Instances of CoarsenLoop, QuadrantPairs, Wrap and TopDownSearch for TLC.   *)
(* A behaviour is one call, or for the wrapper several (its job); the        *)
(* variables of the others stay idle.                                        *)
EXTENDS CoarsenLoop

VARIABLES job,
          q, r,
          params, forest, flags, num_refine_flags, layer, layer_aux, match_aux,
          old_gfq, newly, unchanged, adapts,
          input, stack, entered, tested, open, refused

\* every part of every tree, and every answer to what the callback may be asked
Above(s) == { Ancestor(s[x[1]], x[2]) :
                x \in { y \in (DOMAIN s) \X (0 .. QMAXLEVEL) : y[2] < Level(s[y[1]]) } }
MCCoarsenings ==
  UNION { [ input : {s}, coarsen_fn : SUBSET Above(s),
            coarsen_recursive : BOOLEAN, callback_orphans : BOOLEAN ] : s \in LocalArrays }
ASSUME CallsAssumption

\* bound: the first quadrant of a pair lies in the tree or below it on one axis
Paired == INSTANCE QuadrantPairs WITH DIM <- 3, MAXLEVEL <- 3
ASSUME Paired!DimAssumption /\ Paired!LevelAssumption
Lower  == { e \in Paired!Extended :
              /\ \A a \in Paired!Axes : e.c[a] < Paired!ROOT_LEN
              /\ Cardinality({ a \in Paired!Axes : e.c[a] < 0 }) <= 1 }

\* bound: two trees in a line, one level below and one above the one at the start;
\* coarsen_affect would tell apart what a third adaptation does
MCParams == { [ coarsen_delay |-> x[1], coarsen_affect |-> x[2], store_adapted |-> TRUE,
                have_zlib |-> x[3] ] :
              x \in { << 0, FALSE, TRUE >>, << 1, TRUE, FALSE >> } }
Wrapped == INSTANCE Wrap WITH CHILDREN <- 2, QMAXLEVEL <- 2, NumProcs <- 2, NumTrees <- 2,
                              Params <- MCParams, MaxAdapts <- 2, MaxMarks <- 2,
                              MaxLateMarks <- 1
ASSUME Wrapped!WrapAssumption

\* bound: two trees of one leaf up to two levels, five leaves together, on three
\* processes; the search of the second one
TreeLeaves == { << << >> >>, << << 0 >>, << 1 >> >>, << << 0, 0 >>, << 0, 1 >>, << 1 >> >>,
                << << 0 >>, << 1, 0 >>, << 1, 1 >> >>,
                << << 0, 0 >>, << 0, 1 >>, << 1, 0 >>, << 1, 1 >> >> }
InTree(t, s) == [i \in DOMAIN s |-> << t >> \o s[i]]
TwoTrees   == { s \in { InTree(0, a) \o InTree(1, b) : a \in TreeLeaves,
                          b \in { x \in TreeLeaves : Len(x) < 3 } } : Len(s) <= 5 }
Cuts(n)  == { << c, d >> \in (0 .. n) \X (0 .. n) : c <= d }
\* who answers: the quadrant callback, the one for points, both
Callbacks  == { << TRUE, FALSE, FALSE, {} >>, << FALSE, FALSE, TRUE, {2, 4} >>,
                << TRUE, TRUE, TRUE, {3} >> }
MCSearches ==
  UNION { { [ fn |-> x[1], skip |-> x[2], rank |-> 1, leaves |-> s,
              gfq |-> [p \in 0 .. 3 |-> << 0, cut[1], cut[2], Len(s) >>[p + 1]],
              pre |-> cb[1], call_post |-> cb[2], with_points |-> cb[3], points |-> cb[4] ] :
              x \in { << "local", TRUE >>, << "reorder", TRUE >>, << "reorder", FALSE >>,
                      << "partition", TRUE >>, << "gfp", TRUE >>, << "all", TRUE >> },
              cut \in Cuts(Len(s)), cb \in Callbacks }
          : s \in TwoTrees }
Searching == INSTANCE TopDownSearch WITH CHILDREN <- 2, QMAXLEVEL <- 2, NumProcs <- 3,
                                         NumTrees <- 2, MaxRefused <- 1, Inputs <- MCSearches

wrapping  == << params, forest, flags, num_refine_flags, layer, layer_aux, match_aux,
                old_gfq, newly, unchanged, adapts >>
pairing   == << q, r >>
searching == << input, stack, entered, tested, open, refused >>
NotCoarsening ==
  /\ call = [ input |-> << >>, coarsen_fn |-> {} ] /\ pc = "idle" /\ quadrants = << >>
  /\ window = 0 /\ start = 0 /\ length = 0 /\ quadrants_per_level = << >> /\ maxlevel = 0
  /\ shown = {}
NotWrapping ==
  /\ params = << >> /\ forest = << >> /\ flags = << >> /\ num_refine_flags = << >>
  /\ layer = << >> /\ layer_aux = << >> /\ match_aux = << >> /\ old_gfq = << >>
  /\ newly = << >> /\ unchanged = << >> /\ adapts = 0
NoPair == q = << >> /\ r = << >>
NotSearching ==
  /\ input = << >> /\ stack = << >> /\ entered = << >> /\ tested = {} /\ open = << >>
  /\ refused = {}

MCInit ==
  \/ job = "coarsen" /\ Init /\ NoPair /\ NotWrapping /\ NotSearching
  \/ job = "pair" /\ Paired!Init /\ q \in Lower /\ NotCoarsening /\ NotWrapping /\ NotSearching
  \/ job = "wrap" /\ Wrapped!Init /\ NotCoarsening /\ NoPair /\ NotSearching
  \/ job = "search" /\ Searching!Init /\ NotCoarsening /\ NoPair /\ NotWrapping

MCNext ==
  \/ job = "coarsen" /\ Next /\ UNCHANGED << job, pairing, wrapping, searching >>
  \/ job = "pair" /\ Paired!Pick /\ UNCHANGED << job, vars, wrapping, searching >>
  \/ job = "wrap" /\ Wrapped!Next /\ UNCHANGED << job, vars, pairing, searching >>
  \/ job = "search" /\ Searching!Next /\ UNCHANGED << job, vars, pairing, wrapping >>

mcvars == << job, vars, pairing, wrapping, searching >>
\* loops and recursions of one process; the wrapper is used when a program likes to
MCSpec == MCInit /\ [][MCNext]_mcvars /\ WF_mcvars(job \in { "coarsen", "search" } /\ MCNext)

\* Pairs of quadrants: the bit tricks are the relations of the tree, the order is
\* that of the linear ids, and what is built follows the path.
PairRelated  == job = "pair" => Paired!RelationsAgree
PairCompared == job = "pair" => Paired!ComparesAsLinearId
PairBuilt    == job = "pair" => Paired!ConstructionsAgree

\* The wrapper: its flags, ghost layer and mesh are those of the forest as it is,
\* its lists of new quadrants are exact, and so is the window of those that stay.
WrapCurrent == job = "wrap" => Wrapped!WrapCurrent
NewlyRight  == job = "wrap" => Wrapped!NewlyRight
WindowKept  == job = "wrap" => Wrapped!WindowKept

\* A top-down search shows the callbacks the right owners and leaf numbers, no
\* quadrant twice, and post callbacks nested.
SearchSound == job = "search" => Searching!SearchSound

\* A search ends, and then every place that was not refused has been followed to
\* its leaf or its owner, every point there was shown.  Coarsening ends, leaves
\* what the callback asked for and has shown every quadrant to it.
LocalEnds == <>(CASE job = "search"  -> Searching!Ended
                  [] job = "coarsen" -> Ended
                  [] OTHER -> TRUE)

\* An adaptation of the wrapper does what is marked and no more than that and the
\* balance demand.
AdaptsAsMarked == Wrapped!AdaptsAsMarked
==============================================================================
