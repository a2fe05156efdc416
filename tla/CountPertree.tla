------------------------------ MODULE CountPertree -----------------------------
(***************************************************************************)
(* p4est_comm_count_pertree of src/p4est_communication.c: the number of    *)
(* quadrants in every tree, cumulated, on every process.                   *)
(*                                                                         *)
(* A tree is counted by the process that starts on its first quadrant.     *)
(* Only the last tree a process counts may go on beyond it; the processes  *)
(* in between are all in that tree, and the next process that counts a     *)
(* tree sends what it has of it.                                           *)
(***************************************************************************)
EXTENDS Integers, Sequences, FiniteSets, FiniteSetsExt

CONSTANTS NumProcs,
          Inputs    \* gfq: global_first_quadrant; tree: the tree of each quadrant

\* a forest: no tree is without quadrants
ForestsAssumption ==
  /\ NumProcs \in Nat \ {0}
  /\ \A c \in Inputs :
       LET n == Len(c.tree)
       IN  /\ c.tree \in Seq(Nat) /\ n > 0 /\ c.tree[1] = 0
           /\ \A i \in 1 .. n - 1 : c.tree[i + 1] \in { c.tree[i], c.tree[i] + 1 }
           /\ c.gfq \in [0 .. NumProcs -> 0 .. n] /\ c.gfq[0] = 0 /\ c.gfq[NumProcs] = n
           /\ \A p, q \in 0 .. NumProcs : p <= q => c.gfq[p] <= c.gfq[q]

VARIABLES
  input,
  pc,         \* per process: "count", "wait", "gather", "done"
  mypertree,  \* per process: the quadrants of the trees it counts
  net,        \* messages: from, to, n
  pertree     \* per process: the result

vars == << input, pc, mypertree, net, pertree >>

Procs     == 0 .. NumProcs - 1
num_trees == input.tree[Len(input.tree)] + 1
gfq(p)    == input.gfq[p]
TreeAt(i) == IF i = Len(input.tree) THEN num_trees ELSE input.tree[i + 1]

\* global_first_position: the tree where a process begins, and whether it does so
\* at the beginning of that tree
FirstTree(p) == TreeAt(gfq(p))
AtOrigin(p)  == gfq(p) = 0 \/ TreeAt(gfq(p) - 1) # FirstTree(p)
Local(p, t)  == Cardinality({ i \in gfq(p) .. gfq(p + 1) - 1 : TreeAt(i) = t })

\* mutant: a tree belongs to the process that mentions it first
Counts_Mention(p, t) == p = Min({ q \in Procs : FirstTree(q) >= t } \union {NumProcs})

\* The loop assigns the trees in order: a tree that no process begins in goes to
\* the process in front of the first that begins beyond it; otherwise the first
\* process that begins in the tree takes it, if it begins at its origin, else the
\* one in front.
Counts(p, t) ==
  LET first == Min({ q \in 0 .. NumProcs : FirstTree(q) >= t })
  IN  p = IF FirstTree(first) = t /\ AtOrigin(first) THEN first ELSE first - 1

Counted(p)   == { t \in 0 .. num_trees - 1 : Counts(p, t) }
\* the next process that counts a tree, the end if there is none
NextCounting(p) == Min({ q \in p + 1 .. NumProcs - 1 : Counted(q) # {} } \union {NumProcs})
PrevCounting(p) == Max({ q \in 0 .. p - 1 : Counted(q) # {} })

\* does the next counting process own a part of my last tree?
Expects(p) == Counted(p) # {} /\ FirstTree(NextCounting(p)) = Max(Counted(p))
\* is my first tree counted by somebody before me?
Tells(p)   == Counted(p) # {} /\ FirstTree(p) < Min(Counted(p))

\* mutant: the quadrants of the processes in between are left out
Own_Local(p, t) == Local(p, t)

\* what p adds up by itself for tree t
Own(p, t) ==
  Local(p, t) + IF t = Max(Counted(p)) THEN gfq(NextCounting(p)) - gfq(p + 1) ELSE 0

Init ==
  /\ input \in Inputs
  /\ pc = [p \in Procs |-> "count"]
  /\ mypertree = [p \in Procs |-> << >>]
  /\ net = {}
  /\ pertree = [p \in Procs |-> << >>]

Count(p) ==
  /\ pc[p] = "count"
  /\ mypertree' = [mypertree EXCEPT ![p] = [t \in Counted(p) |-> Own(p, t)]]
  /\ net' = IF Tells(p)
            THEN net \union { [ from |-> p, to |-> PrevCounting(p), n |-> Local(p, FirstTree(p)) ] }
            ELSE net
  /\ pc' = [pc EXCEPT ![p] = IF Expects(p) THEN "wait" ELSE "gather"]
  /\ UNCHANGED << input, pertree >>

AddToMyTree(p) ==
  \E m \in net :
    /\ pc[p] = "wait" /\ m.to = p /\ m.from = NextCounting(p)
    /\ mypertree' = [mypertree EXCEPT ![p][Max(Counted(p))] = @ + m.n]
    /\ net' = net \ {m}
    /\ pc' = [pc EXCEPT ![p] = "gather"]
    /\ UNCHANGED << input, pertree >>

\* MPI_Allgatherv and the sums
Gather ==
  /\ \A p \in Procs : pc[p] = "gather"
  /\ LET of(t) == mypertree[CHOOSE p \in Procs : Counts(p, t)][t]
         sum[k \in 0 .. num_trees] == IF k = 0 THEN 0 ELSE sum[k - 1] + of(k - 1)
     IN  pertree' = [p \in Procs |-> sum]
  /\ pc' = [p \in Procs |-> "done"]
  /\ UNCHANGED << input, mypertree, net >>

Next == Gather \/ \E p \in Procs : Count(p) \/ AddToMyTree(p)

Spec == Init /\ [][Next]_vars
FairSpec == Spec /\ WF_vars(Next)

\* Each process sends at most one count, to the one that waits for it.  All
\* processes get the number of quadrants in front of every tree.
PertreeRight ==
  /\ \A m \in net : Expects(m.to) /\ NextCounting(m.to) = m.from /\ pc[m.to] # "gather"
  /\ \A p \in Procs : pc[p] = "done" => /\ net = {}
       /\ pertree[p] = [k \in 0 .. num_trees |-> Cardinality({ i \in DOMAIN input.tree : input.tree[i] < k })]

AllDone == \A p \in Procs : pc[p] = "done"
==============================================================================
