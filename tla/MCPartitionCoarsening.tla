------------------------ MODULE MCPartitionCoarsening ------------------------
(* Instances of PartitionCoarsening for TLC. *)
EXTENDS PartitionCoarsening, SequencesExt

CONSTANTS Forests   \* "small" or "large": which forests are partitioned

OnTree(t, s)   == [i \in 1 .. Len(s) |-> [ tree |-> t, quad |-> s[i] ]]
Refined(R)     == InMortonOrder(LeavesOf(R))
Once           == Refined({ Root })
Twice(i)       == Refined({ Root, << i >> })

\* a family between trees of one quadrant, a family in a family, at either end
SmallForests ==
  { OnTree(0, << Root >>) \o OnTree(1, Once) \o OnTree(2, << Root >>),
    OnTree(0, Twice(0)), OnTree(0, Twice(2)) }
LargeForests ==
  { OnTree(0, Once) \o OnTree(1, Once), OnTree(0, Twice(1)) \o OnTree(1, << Root >>) }

Cuts(n)  == { c \in [0 .. NumProcs -> 0 .. n] :
                c[0] = 0 /\ c[NumProcs] = n /\ \A p \in Procs : c[p] <= c[p + 1] }
MCCases ==
  UNION { { [ leaves |-> f, now |-> c, counts |-> [p \in Procs |-> d[p + 1] - d[p]] ] :
              c \in Cuts(Len(f)), d \in Cuts(Len(f)) }
          : f \in IF Forests = "small" THEN SmallForests ELSE LargeForests }
==============================================================================
