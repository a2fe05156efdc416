------------------------------ MODULE MCParallel ------------------------------
(* Instances of BalanceExchange, Ghost, P3Partition, Transfer, CountPertree  *)
(* and ParallelEnv for TLC.                                                  *)
(* A behaviour is one call (its job); the variables of the others stay idle. *)
EXTENDS BalanceExchange, Sequences

VARIABLES job, input, step, wire,   \* step and wire: pc and net of the others
          around, failed, send_bufs, mirrors, ghosts, ghost_data, result,
          relatives, goffset, gftree, loc_offsets, copied, quads, trees,
          requests, data, mypertree, pertree, comm, forests

Pairs == { << p, r >> \in Procs \X Procs : p # r }
Amount(S, n) == [p \in Procs |-> [r \in Procs |-> IF << p, r >> \in S THEN n ELSE 0]]

\* bound: every set of processes may be asked, or process 0 asks itself across
\* a tree boundary too; 2 quadrants each way there, 1 back; w: sc_ranges has
\* found a process too many
MCPatterns ==
  { [ ask |-> Amount(a, 2), answer |-> Amount({ e \in b : << e[2], e[1] >> \in a }, 1),
      receivers |-> [p \in Procs |->
         { r \in Procs \ {p} : << p, r >> \in a \/ (w /\ r = (p + 1) % NumProcs) }],
      grows |-> [p \in Procs |-> p = 0] ] :
    a \in SUBSET Pairs \union { { << 0, 0 >>, << 0, 1 >> } },
    b \in { {}, { << 0, 0 >>, << 0, 1 >>, << 1, 0 >>, << 2, 1 >> }, Pairs },
    w \in BOOLEAN }
ASSUME PatternsAssumption

Shapes   == INSTANCE MCGhost WITH MAXLEVEL <- 4, QMAXLEVEL <- 3, Forests <- "sound", Inputs <- {}
Layering == INSTANCE Ghost WITH MAXLEVEL <- 4, QMAXLEVEL <- 3, Inputs <- Shapes!MCInputs,
                                  pc <- step, net <- wire

Requested   == INSTANCE MCP3Partition WITH CHILDREN <- 4, QMAXLEVEL <- 2, Cases <- {},
                                           Requests <- "sound"
Partition3  == INSTANCE P3Partition WITH CHILDREN <- 4, QMAXLEVEL <- 2, Cases <- Requested!MCCases,
                                           pc <- step
ASSUME Partition3!ProcsAssumption /\ Partition3!SoundRequests /\ Partition3!SoundTrees
       /\ Partition3!SoundFamilies

\* bound: 3 quadrants from any partition to any other; a transfer beside that of
\* the sizes only where one of the partitions is even
Even == [p \in 0 .. NumProcs |-> p]
MCTransfers ==
  { [ src |-> s, dest |-> d, sizes |-> [g \in 0 .. 2 |-> IF g = 1 THEN 0 ELSE 2], fixed |-> 0 ] :
      s \in Shapes!Cuts(3), d \in Shapes!Cuts(3) }
  \union { [ src |-> x[1], dest |-> x[2], sizes |-> [g \in 0 .. 2 |-> IF g = 1 THEN 1 ELSE 0], fixed |-> 1 ] :
      x \in { y \in Shapes!Cuts(3) \X Shapes!Cuts(3) : Even \in { y[1], y[2] } } }
Transferred == INSTANCE Transfer WITH Inputs <- MCTransfers, pc <- step, net <- wire
ASSUME Transferred!PartitionsAssumption

\* bound: up to 5 quadrants in up to 3 trees on 4 processes
Wide(n) == { c \in [0 .. 4 -> 0 .. n] : c[0] = 0 /\ c[4] = n /\ \A p \in 0 .. 3 : c[p] <= c[p + 1] }
MCTrees == { << 0 >>, << 0, 0, 1 >>, << 0, 1, 1, 1 >>, << 0, 0, 1, 2, 2 >>, << 0, 1, 1, 2 >>, << 0, 1, 2 >> }
Counting == INSTANCE CountPertree WITH NumProcs <- 4, pc <- step, net <- wire,
  Inputs <- UNION { { [ gfq |-> c, tree |-> t ] : c \in Wide(Len(t)) } : t \in MCTrees }
ASSUME Counting!ForestsAssumption

\* bound: 2 or 4 quadrants on 4 processes; a group that is kept at the beginning has
\* none, or no group is given
Idle(c) == { p \in 0 .. 3 : c[p] = c[p + 1] }
Reducing == INSTANCE ParallelEnv WITH NumProcs <- 4,
  Inputs <- UNION { { [ gfq |-> c, add |-> a, null |-> a = {}, add_to_beginning |-> b ] :
                        a \in IF b THEN SUBSET Idle(c) ELSE SUBSET (0 .. 3) } :
                      c \in Wide(2) \union Wide(4), b \in BOOLEAN }
ASSUME Reducing!GroupsAssumption

layering == << around, failed, send_bufs, mirrors, ghosts, ghost_data, result >>
cutting  == << relatives, goffset, gftree, loc_offsets, copied, quads, trees >>
moving   == << requests, data >>
counting == << mypertree, pertree >>
reducing == << comm, forests >>
others   == << layering, cutting, moving, counting, reducing >>

NotExchanging ==
  /\ pattern = << >> /\ pc = [p \in Procs |-> "idle"] /\ net = {}
  /\ requests_first = << >> /\ requests_second = << >> /\ peers = << >>
  /\ totals = << >> /\ merged = << >> /\ revision = << >>
NotLayering ==
  /\ around = << >> /\ failed = << >> /\ send_bufs = << >> /\ mirrors = << >>
  /\ ghosts = << >> /\ ghost_data = << >> /\ result = << >>
NotCutting ==
  /\ relatives = << >> /\ goffset = << >> /\ gftree = << >> /\ loc_offsets = << >>
  /\ copied = << >> /\ quads = << >> /\ trees = << >>
NotMoving   == requests = << >> /\ data = << >>
NotCounting == mypertree = << >> /\ pertree = << >>
NotReducing == comm = << >> /\ forests = << >>

MCInit ==
  \/ job = "balance"   /\ Init /\ input = << >> /\ step = << >> /\ wire = {} /\ NotLayering
                       /\ NotCutting /\ NotMoving /\ NotCounting /\ NotReducing
  \/ job = "ghost"     /\ Layering!Init /\ NotExchanging
                       /\ NotCutting /\ NotMoving /\ NotCounting /\ NotReducing
  \/ job = "partition" /\ Partition3!Init /\ NotExchanging /\ wire = {}
                       /\ NotLayering /\ NotMoving /\ NotCounting /\ NotReducing
  \/ job = "transfer"  /\ Transferred!Init /\ NotExchanging
                       /\ NotLayering /\ NotCutting /\ NotCounting /\ NotReducing
  \/ job = "pertree"   /\ Counting!Init /\ NotExchanging
                       /\ NotLayering /\ NotCutting /\ NotMoving /\ NotReducing
  \/ job = "reduce"    /\ Reducing!Init /\ NotExchanging /\ wire = {} /\ step = << >>
                       /\ NotLayering /\ NotCutting /\ NotMoving /\ NotCounting

MCNext ==
  \/ job = "balance"   /\ Next /\ UNCHANGED << job, input, step, wire, others >>
  \/ job = "ghost"     /\ Layering!Next
                       /\ UNCHANGED << job, vars, cutting, moving, counting, reducing >>
  \/ job = "partition" /\ Partition3!Next
                       /\ UNCHANGED << job, vars, wire, layering, moving, counting, reducing >>
  \/ job = "transfer"  /\ Transferred!Next
                       /\ UNCHANGED << job, vars, layering, cutting, counting, reducing >>
  \/ job = "pertree"   /\ Counting!Next
                       /\ UNCHANGED << job, vars, layering, cutting, moving, reducing >>
  \/ job = "reduce"    /\ Reducing!Reduce
                       /\ UNCHANGED << job, vars, step, wire, layering, cutting, moving, counting >>

mcvars == << job, vars, input, step, wire, others >>
MCSpec == MCInit /\ [][MCNext]_mcvars /\ WF_mcvars(MCNext)

\* A ghost layer is exactly what touches, and is_balanced is right.
LayersRight == job = "ghost" => Layering!GhostRight

\* The offsets of a p4est3 partition cut the forest as the processes took it.
RangesAgree == job = "partition" => Partition3!RangesAgree

\* Data follows its quadrants to the place where they are now.
TransferRight == job = "transfer" => Transferred!TransferRight

\* The trees are counted right, whoever counts them.
PertreeRight == job = "pertree" => Counting!PertreeRight

\* Processes that leave have nothing, and the others keep what they have.
ReducedRight == job = "reduce" => Reducing!ReducedRight

\* Every call ends on every process, and as it should: a process that waits is
\* sent what it waits for.
ParallelEnds == <>(CASE job = "ghost"     -> Layering!AllDone
                     [] job = "balance"   -> Complete
                     [] job = "partition" -> Partition3!Correct
                     [] job = "transfer"  -> Transferred!AllDone
                     [] job = "pertree"   -> Counting!AllDone
                     [] job = "reduce"    -> Reducing!Ended)
==============================================================================
