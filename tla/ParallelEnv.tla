------------------------------ MODULE ParallelEnv ------------------------------
(***************************************************************************)
(* p4est_comm_parallel_env_reduce_ext of src/p4est_communication.c: the    *)
(* processes without quadrants leave the communicator, others may be kept. *)
(*                                                                         *)
(* Everybody works on a copy of the same arrays.  A process is its rank in *)
(* the communicator before; a new communicator is the sequence of those    *)
(* that are in it.  A place in the forest is the number of the quadrant    *)
(* that begins there.                                                      *)
(***************************************************************************)
EXTENDS Integers, Sequences, FiniteSetsExt, SequencesExt

CONSTANTS NumProcs,
          Inputs    \* gfq: global_first_quadrant; add: group_add, a set of
                    \* processes; null: no group is given; add_to_beginning

\* A forest has quadrants.  Processes with quadrants that are added to the beginning
\* would come in front of others, and the forest be out of order.
GroupsAssumption ==
  /\ NumProcs \in Nat \ {0}
  /\ \A c \in Inputs :
       /\ c.gfq \in [0 .. NumProcs -> Nat] /\ c.gfq[0] = 0 /\ c.gfq[NumProcs] > 0
       /\ \A p \in 0 .. NumProcs - 1 : c.gfq[p] <= c.gfq[p + 1]
       /\ c.add \subseteq 0 .. NumProcs - 1 /\ c.null \in BOOLEAN /\ c.add_to_beginning \in BOOLEAN
       /\ c.add_to_beginning => \A p \in c.add : c.gfq[p] = c.gfq[p + 1]

VARIABLES input,
          comm,     \* the processes of the communicator, in order
          forests   \* per process: [exists, gfq, position, ranks_subcomm]

vars == << input, comm, forests >>

Procs == 0 .. NumProcs - 1
global_num_quadrants == input.gfq[NumProcs]
n_quadrants(p) == input.gfq[p + 1] - input.gfq[p]
InOrder(S) ==
  LET include[p \in 0 .. NumProcs] ==
        IF p = 0 THEN << >>
        ELSE IF p - 1 \in S THEN Append(include[p - 1], p - 1) ELSE include[p - 1]
  IN  include[NumProcs]

\* p4est_comm_global_partition: a process without quadrants begins where the
\* next one does
GlobalPartition(size, first, has) ==
  [p \in 0 .. size |->
     IF p = size THEN global_num_quadrants
     ELSE LET next == Min({ r \in p .. size - 1 : has[r] } \union {size})
          IN  IF next = size THEN global_num_quadrants ELSE first[next]]

Nonempty == { p \in Procs : input.gfq[p] < input.gfq[p + 1] }
SubGroup ==
  IF input.null THEN InOrder(Nonempty)
  ELSE IF input.add_to_beginning
  THEN InOrder(input.add) \o InOrder(Nonempty \ input.add)
  ELSE InOrder(Nonempty) \o InOrder(input.add \ Nonempty)

\* mutant: the quadrants of the process with the same number as the new rank
SubFirstQuadrant_Rank(ranks) ==
  LET first[s \in 0 .. Len(ranks)] == IF s = 0 THEN 0 ELSE first[s - 1] + n_quadrants(s - 1)
  IN  first

SubFirstQuadrant(ranks) ==
  LET first[s \in 0 .. Len(ranks)] == IF s = 0 THEN 0 ELSE first[s - 1] + n_quadrants(ranks[s])
  IN  first
\* without a group nothing has to be communicated
SubPosition(ranks) ==
  LET size == Len(ranks)
      at(s) == ranks[s + 1]
  IN  IF input.null
      THEN [s \in 0 .. size |-> IF s = size THEN forests[0].position[NumProcs]
                                ELSE forests[0].position[at(s)]]
      ELSE GlobalPartition(size, [s \in 0 .. size - 1 |-> input.gfq[at(s)]],
                                 [s \in 0 .. size - 1 |-> n_quadrants(at(s)) > 0])

NoForest == [ exists |-> FALSE, gfq |-> << >>, position |-> << >>, ranks_subcomm |-> << >> ]

Init ==
  /\ input \in Inputs
  /\ comm = InOrder(Procs)
  /\ forests = [p \in Procs |->
       [ exists |-> TRUE, gfq |-> input.gfq, ranks_subcomm |-> << >>,
         position |-> GlobalPartition(NumProcs, [r \in Procs |-> input.gfq[r]],
                                                [r \in Procs |-> n_quadrants(r) > 0]) ]]

Reduced == \E p \in Procs : forests[p].ranks_subcomm # << >>

\* nothing changes if there is one process, or if all have quadrants
Reduce ==
  /\ ~ Reduced /\ NumProcs > 1 /\ Nonempty # Procs
  /\ LET ranks == SubGroup
     IN  /\ comm' = ranks
         /\ forests' = [p \in Procs |->
              IF p \notin ToSet(ranks) THEN NoForest
              ELSE [ exists |-> TRUE, gfq |-> SubFirstQuadrant(ranks),
                     position |-> SubPosition(ranks), ranks_subcomm |-> ranks ]]
  /\ UNCHANGED input

Spec == Init /\ [][Reduce]_vars
FairSpec == Spec /\ WF_vars(Reduce)

\* Nobody who has quadrants, or is to be kept, loses its forest.  Those that stay
\* agree on the partition, and it gives each of them the quadrants that it had;
\* whoever has none begins where the next one does.
ReducedRight ==
  \A p \in Procs :
    LET f == forests[p]
    IN  IF p \notin ToSet(comm)
        THEN ~ f.exists /\ p \notin Nonempty /\ (input.null \/ p \notin input.add)
        ELSE /\ f.exists /\ \A r \in ToSet(comm) : forests[r] = f
             /\ \A s \in DOMAIN comm :
                  IF comm[s] \in Nonempty
                  THEN /\ f.gfq[s - 1] = input.gfq[comm[s]] /\ f.gfq[s] = input.gfq[comm[s] + 1]
                       /\ f.position[s - 1] = input.gfq[comm[s]]
                  ELSE f.gfq[s - 1] = f.gfq[s] /\ f.position[s - 1] = f.position[s]
             /\ f.gfq[Len(comm)] = global_num_quadrants

\* The communicator is reduced if it can be.
Ended == Reduced \/ Nonempty = Procs \/ NumProcs = 1
==============================================================================
