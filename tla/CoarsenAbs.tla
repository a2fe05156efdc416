------------------------------ MODULE CoarsenAbs -----------------------------
(***************************************************************************)
(* What coarsening one tree promises, without the in-place array: the only *)
(* thing that ever happens to the leaves is that a family of siblings the  *)
(* callback accepts is replaced by its parent.                             *)
(***************************************************************************)
EXTENDS Quadrants

VARIABLES call,    \* the arguments of the call
          leaves   \* the leaves of the tree, in Morton order

FamilyAt(i)  == SubSeq(leaves, i, i + CHILDREN - 1)

Init == leaves = call.input

Merge ==
  \E i \in 1 .. Len(leaves) - CHILDREN + 1 :
    /\ IsFamily(FamilyAt(i))
    /\ Parent(leaves[i]) \in call.coarsen_fn
    /\ leaves' = SubSeq(leaves, 1, i - 1) \o << Parent(leaves[i]) >>
                   \o SubSeq(leaves, i + CHILDREN, Len(leaves))
    /\ UNCHANGED call

Spec == Init /\ [][Merge]_<< call, leaves >>
==============================================================================
