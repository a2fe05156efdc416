-------------------------- MODULE MCPartitionGiven ---------------------------
(* Instances of PartitionGiven for TLC. *)
EXTENDS PartitionGiven

CONSTANTS Quadrants   \* bound: quadrants of the forest

\* every tree has at least one quadrant
ForestsOf(n) == { f \in [1 .. n -> Trees] :
                    /\ f[1] = 0 /\ f[n] = NumTrees - 1
                    /\ \A i \in 1 .. n - 1 : f[i + 1] \in { f[i], f[i] + 1 } }
Cuts(n)  == { c \in [0 .. NumProcs -> 0 .. n] : IsPartition(c, n) }
MCForests ==
  { [ which_tree |-> f, now |-> c, new |-> d ] :
      f \in ForestsOf(Quadrants), c \in Cuts(Quadrants), d \in Cuts(Quadrants) }
==============================================================================
