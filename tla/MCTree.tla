-------------------------------- MODULE MCTree --------------------------------
(* Instances of RefineLoop, TreeBalance, MCSeeds, P3Quadrants and Iterate for *)
(* TLC: what one process does alone.  A behaviour is one call (its job); the variables*)
(* of the others stay idle, those of RefineLoop as a call that does not begin.*)
EXTENDS RefineLoop

CONSTANTS FlatStride, SolidStride    \* bounds: Stride of MCBalance for DIM = 2 and 3

VARIABLES job,
          dim, input, at_pc, tree, per_level, deepest,      \* TreeBalance
          border, iz, jz, out, from, replaced,
          dom, todo, inlist, spawned, duplicate, precluded, unneeded, level, at, tempq,
          pair,                                             \* MCSeeds and P3Quadrants
          given, phase, quads, areas, tier_rings, called    \* Iterate

\* binary trees of three levels: every part of the trees with up to 4 leaves,
\* and the whole of the larger ones
StartsAtZero(s) == \A l \in 1 .. Level(s[1]) : s[1][l] = 0
MCInputs == { s \in LocalArrays : Len(s) <= 3 \/ (Len(s) >= 5 /\ StartsAtZero(s)) }
MCCallbacks == SUBSET { q \in Quadrants : Level(q) \in 1 .. QMAXLEVEL - 1 }

FlatTrees  == INSTANCE MCBalance WITH
  DIM <- 2, MAXLEVEL <- 5, Stride <- FlatStride, Inputs <- {},
  maxlevel <- deepest, pc <- at_pc, list <- inlist
SolidTrees == INSTANCE MCBalance WITH
  DIM <- 3, MAXLEVEL <- 4, Stride <- SolidStride, Inputs <- {},
  maxlevel <- deepest, pc <- at_pc, list <- inlist
Flat  == INSTANCE TreeBalance WITH
  DIM <- 2, MAXLEVEL <- 5, Inputs <- FlatTrees!MCInputs,
  maxlevel <- deepest, pc <- at_pc, list <- inlist
Solid == INSTANCE TreeBalance WITH
  DIM <- 3, MAXLEVEL <- 4, Inputs <- SolidTrees!MCInputs,
  maxlevel <- deepest, pc <- at_pc, list <- inlist

FlatPairs  == INSTANCE MCSeeds WITH DIM <- 2, MAXLEVEL <- 6, Starts <- {}
SolidPairs == INSTANCE MCSeeds WITH DIM <- 3, MAXLEVEL <- 6, Starts <- {}
FlatSeeds  == INSTANCE MCSeeds WITH DIM <- 2, MAXLEVEL <- 6, Starts <- FlatPairs!FlatStarts
SolidSeeds == INSTANCE MCSeeds WITH DIM <- 3, MAXLEVEL <- 6, Starts <- SolidPairs!SolidStarts

FlatWords  == INSTANCE P3Quadrants WITH DIM <- 2, MAXLEVEL <- 4
SolidWords == INSTANCE P3Quadrants WITH DIM <- 3, MAXLEVEL <- 3

Shapes == INSTANCE MCForests WITH MAXLEVEL <- 4, NumProcs <- 3
Forests(conn, paths, who) ==
  { x \in Shapes!Iterations(conn, paths, who) : ~ Shapes!Smallest(x.forest, 1) }
Who(fns, remote, layer) == [ fns |-> fns, remote |-> remote, layer |-> layer ]
All    == { "volume", "face", "corner" }
Most   == { Who(All, FALSE, TRUE), Who({ "face", "corner" }, TRUE, TRUE) }
Others == { Who(All, FALSE, FALSE), Who({ "face" }, FALSE, TRUE), Who({ "corner" }, FALSE, TRUE),
            Who({ "volume" }, FALSE, FALSE) }
\* bound: forests of up to six trees and 20 leaves, three levels deep, with any
\* part of them for one process
Around == << Shapes!Once, Shapes!Root, Shapes!Root >>
Walks ==
  UNION { Forests(Shapes!Pair(1, 1), << Shapes!Twice(1), Shapes!Once >>, Most \union Others),
          Forests(Shapes!Pair(0, 0), << << {0}, {0, 1, 2}, {0} >>, Shapes!Once >>, Most),
          Forests(Shapes!Built!Periodic.conn, << Shapes!Twice(0) >>, Most),
          Forests(Shapes!Built!Star.conn, Around \o Around, Most),
          Forests(Shapes!Built!Corner.conn, << Shapes!Once, Shapes!Twice(1), Shapes!Once >>, Most),
          Forests(Shapes!Reduce(Shapes!Built!Corner.conn), Around, Most),
          Forests(Shapes!Built!Moebius.conn, Around \o << Shapes!Once, Shapes!Root >>, Most),
          Forests(Shapes!Built!Brick(2, 2, FALSE, TRUE).conn, Around \o << Shapes!Once >>, Most) }
Walk == INSTANCE Iterate WITH
  MAXLEVEL <- 4, NumProcs <- 3, Inputs <- Walks, input <- given, pc <- phase, todo <- areas

refining   == vars
balancing  == << input, at_pc, tree, per_level, deepest, border, iz, jz, out, from, replaced,
                 dom, todo, inlist, spawned, duplicate, precluded, unneeded, level, at, tempq >>

NotRefining ==
  /\ call = [ input |-> << << >> >>, refine_fn |-> {}, refine_recursive |-> FALSE,
              allowed_level |-> 0 ]
  /\ Init
NotBalancing  ==
  /\ input = << >> /\ at_pc = << >> /\ tree = << >> /\ per_level = << >> /\ deepest = 0
  /\ border = << >> /\ iz = 0 /\ jz = 0 /\ out = << >> /\ from = 0 /\ replaced = << >>
  /\ dom = << >> /\ todo = << >> /\ inlist = << >> /\ spawned = << >>
  /\ duplicate = {} /\ precluded = {} /\ unneeded = {} /\ level = 0 /\ at = 0 /\ tempq = << >>
NoPair == pair = << >>
walking    == << given, phase, quads, areas, tier_rings, called >>
NotWalking == /\ given = << >> /\ phase = << >> /\ quads = << >>
              /\ areas = << >> /\ tier_rings = << >> /\ called = << >>

MCInit ==
  \/ job = "refine" /\ dim = 0 /\ Init /\ NotBalancing /\ NoPair /\ NotWalking
  \/ /\ job = "balance" /\ NotRefining /\ NoPair /\ NotWalking
     /\ \/ dim = 2 /\ Flat!Init
        \/ dim = 3 /\ Solid!Init
  \/ /\ job = "seeds" /\ NotRefining /\ NotBalancing /\ NotWalking
     /\ \/ dim = 2 /\ FlatSeeds!Init
        \/ dim = 3 /\ SolidSeeds!Init
  \/ /\ job = "represent" /\ NotRefining /\ NotBalancing /\ NotWalking
     /\ \/ dim = 2 /\ FlatWords!Init
        \/ dim = 3 /\ SolidWords!Init
  \/ job = "iterate" /\ dim = 2 /\ NotRefining /\ NotBalancing /\ NoPair /\ Walk!Init

\* what has returned stays as it is: a deadlock is a call that cannot go on
Returned ==
  CASE job = "refine"  -> pc = "done"
    [] job = "balance" -> at_pc = "done"
    [] job = "seeds"   -> "q" \in DOMAIN pair
    [] job = "represent" -> "r" \in DOMAIN pair
    [] job = "iterate" -> phase = "done"

MCNext ==
  \/ job = "refine" /\ Next /\ UNCHANGED << job, dim, balancing, pair, walking >>
  \/ /\ job = "balance" /\ UNCHANGED << job, dim, refining, pair, walking >>
     /\ \/ dim = 2 /\ Flat!Next
        \/ dim = 3 /\ Solid!Next
  \/ /\ job = "seeds" /\ UNCHANGED << job, dim, refining, balancing, walking >>
     /\ \/ dim = 2 /\ FlatSeeds!Ask
        \/ dim = 3 /\ SolidSeeds!Ask
  \/ /\ job = "represent" /\ UNCHANGED << job, dim, refining, balancing, walking >>
     /\ \/ dim = 2 /\ FlatWords!Ask
        \/ dim = 3 /\ SolidWords!Ask
  \/ job = "iterate" /\ Walk!Next /\ UNCHANGED << job, dim, refining, balancing, pair >>
  \/ Returned /\ UNCHANGED << job, dim, refining, balancing, pair, walking >>

mcvars == << job, dim, refining, balancing, pair, walking >>
\* straight-line code of one process: it runs until it returns
MCSpec == MCInit /\ [][MCNext]_mcvars /\ WF_mcvars(job = "refine" /\ MCNext)

\* Balance leaves the coarsest balanced leaves, and the tree and the replace
\* callbacks follow.
BalancedLeast ==
  job = "balance" => IF dim = 2 THEN Flat!BalancedLeast ELSE Solid!BalancedLeast
TreeFollows ==
  job = "balance" => IF dim = 2 THEN Flat!TreeFollows ELSE Solid!TreeFollows

\* The seeds give all that a quadrant demands of another one.
SeedsSuffice ==
  job = "seeds" => IF dim = 2 THEN FlatSeeds!SeedsSuffice ELSE SolidSeeds!SeedsSuffice

\* The two representations of p4est3 answer and derive what p4est's quadrants do.
WordsAgree ==
  job = "represent" =>
    IF dim = 2 THEN FlatWords!QueriesAgree /\ FlatWords!DerivationsAgree
    ELSE SolidWords!QueriesAgree /\ SolidWords!DerivationsAgree

\* The iterator shows every quadrant, face and corner once, with all around it.
IterationRight == job = "iterate" => Walk!IterationRight

\* Refinement returns, with the leaves the callback asked for.
RefineReturns == <>(job = "refine" => pc = "done" /\ ResultCorrect)
==============================================================================
