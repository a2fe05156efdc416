------------------------------ MODULE P3Partition -----------------------------
(***************************************************************************)
(* p4est3_partition (src/p4est3_partition.c): a forest on the memory the   *)
(* processes of one node share is cut anew.                                *)
(*                                                                         *)
(* The offsets of the quadrants and the first trees live in shared         *)
(* windows; the source forest is read in place.  Every process works out   *)
(* all cuts by itself, corrects all of them if families must stay          *)
(* together, and publishes its own.  With weights, each cut is found by    *)
(* the process that holds its quadrant and goes through the shared window. *)
(* A quadrant is its number in the global order of the source forest.      *)
(***************************************************************************)
EXTENDS Quadrants, PartitionSearch, Folds, Functions, SequencesExt

CONSTANTS NumProcs,
          Cases   \* leaves: tree and quadrant of each quadrant of the source;
                  \* now and gtroffset: its arrays; weights: the weight in
                  \* front of each quadrant and of the end, or << >> without
                  \* cweight;
                  \* family, contiguous; behind: the quadrant read at a cut
                  \* behind the last quadrant

ProcsAssumption == NumProcs \in Nat \ {0}

\* The requests for which the cuts are agreed on: weights do not fall, process 0
\* has some, and they do not come with families.
SoundRequests ==
  \A c \in Cases :
    LET n == Len(c.leaves)
    IN  /\ n \in Nat \ {0} /\ c.family \in BOOLEAN /\ c.contiguous \in BOOLEAN
        /\ c.now \in [0 .. NumProcs -> 0 .. n]
        /\ c.now[0] = 0 /\ c.now[NumProcs] = n
        /\ \A p, q \in 0 .. NumProcs : p <= q => c.now[p] <= c.now[q]
        /\ c.weights # << >> =>
             /\ c.weights \in [0 .. n -> Nat] /\ c.weights[0] = 0
             /\ \A i, j \in 0 .. n : i <= j => c.weights[i] <= c.weights[j]
             /\ c.weights[c.now[1]] > 0 /\ ~ c.family

\* The trees ascend from 0 on, and each begins where the source says, with at
\* least one quadrant.
SoundTrees ==
  \A c \in Cases :
    LET n == Len(c.leaves)
        T == c.leaves[n].tree + 1
    IN  /\ n \in Nat \ {0} /\ T \in Nat \ {0}
        /\ c.gtroffset \in [0 .. T -> 0 .. n]
        /\ c.gtroffset[0] = 0 /\ c.gtroffset[T] = n
        /\ \A s, t \in 0 .. T : s < t => c.gtroffset[s] < c.gtroffset[t]
        /\ \A i \in 1 .. n : /\ c.leaves[i].tree \in 0 .. T - 1
                            /\ c.gtroffset[c.leaves[i].tree] < i
                            /\ i <= c.gtroffset[c.leaves[i].tree + 1]

\* What looks like the children of one quadrant are at most CHILDREN quadrants side
\* by side.  The scan around a cut does not ask for the tree, so that two trees
\* with quadrants of the same parent next to each other break this.
SoundFamilies ==
  \A c \in Cases : c.family =>
    LET places      == 1 .. Len(c.leaves)
        quad(i)     == c.leaves[i].quad
        alike(i, j) == Level(quad(i)) > 0 /\ IsParent(Parent(quad(i)), quad(j))
    IN  /\ \A i \in places : quad(i) \in Seq(ChildIds)
        /\ \A i, j \in places : i <= j /\ alike(i, j) =>
             /\ j - i < CHILDREN
             /\ j - i = CHILDREN - 1 => \A k \in i .. j : alike(i, k)

VARIABLES
  input,        \* the source forest and the request
  relatives,    \* what a scan of the source around a quadrant finds, see there
  pc,           \* per process: "start", "weigh", "copy", "correct",
                \* "publish", "trees", "take", "wait", "barrier", "done"
  goffset,      \* shared: the first quadrant of each process
  gftree,       \* shared: the first tree of each process, -1 if it is empty,
                \* and the number of trees
  loc_offsets,  \* per process: its copy of all cuts
  copied,       \* per process: how many cuts it has copied
  quads,        \* per process: the quadrants taken from the source
  trees         \* per process: the array of its trees
vars == << input, relatives, pc, goffset, gftree, loc_offsets, copied, quads, trees >>

Procs == 0 .. NumProcs - 1
Low(a, b)  == IF a < b THEN a ELSE b
High(a, b) == IF a < b THEN b ELSE a

global_num_quads == Len(input.leaves)
Trees            == 0 .. input.leaves[global_num_quads].tree
LeafAt(id) == IF id < global_num_quads THEN input.leaves[id + 1]
              ELSE input.behind
gtroffset(t)     == input.gtroffset[t]
last_goffsets    == [p \in Procs |-> input.now[p + 1] - 1]
last_gtree_offsets == [t \in Trees |-> gtroffset(t + 1) - 1]

Weighted      == input.weights # << >>
WeightTo(id)  == input.weights[id]
Glocut(n, p)  == (n * p) \div NumProcs

\* the quadrants around id with the parent of id, in the window in which
\* p4est3_partition_correction looks for them
Relatives(id) ==
  { i \in High(id - (CHILDREN - 1), 0) .. Low(id + (CHILDREN - 1), global_num_quads - 1) :
      IsParent(Parent(LeafAt(id).quad), LeafAt(i).quad) }

Init ==
  /\ input \in Cases
  /\ relatives = [id \in 0 .. global_num_quads |-> Relatives(id)]
  /\ pc = [p \in Procs |-> "start"]
  /\ goffset = input.now    \* a reused window holds another forest's cuts
  /\ gftree = [p \in 0 .. NumProcs |-> 0]
  /\ loc_offsets = [p \in Procs |-> [i \in 0 .. NumProcs |-> 0]]
  /\ copied = [p \in Procs |-> 0]
  /\ quads = [p \in Procs |-> << >>]
  /\ trees = [p \in Procs |-> << >>]

Goto(p, to) == pc' = [pc EXCEPT ![p] = to]
Past(p, places) == pc[p] \notin places

(***************************************************************************)
(* The new cuts.                                                           *)
(***************************************************************************)
EvenCuts(p) ==
  /\ pc[p] = "start" /\ ~ Weighted
  /\ loc_offsets' = [loc_offsets EXCEPT ![p] =
                       [i \in 0 .. NumProcs |-> Glocut(global_num_quads, i)]]
  /\ Goto(p, "correct")
  /\ UNCHANGED << input, relatives, goffset, gftree, copied, quads, trees >>

\* mutant: a process without quadrants has no weights to gather
EnterGather_Nonempty(p) ==
  /\ pc[p] = "start" /\ Weighted /\ input.now[p] < input.now[p + 1]
  /\ Goto(p, "weigh")
  /\ UNCHANGED << input, relatives, goffset, gftree, loc_offsets, copied, quads, trees >>

\* local weights are summed up and gathered
EnterGather(p) ==
  /\ pc[p] = "start" /\ Weighted
  /\ Goto(p, "weigh")
  /\ UNCHANGED << input, relatives, goffset, gftree, loc_offsets, copied, quads, trees >>

\* the cuts whose weight lies on process p
OwnCuts(p) ==
  { i \in Procs : LET cut == Glocut(WeightTo(global_num_quads), i)
                  IN  WeightTo(input.now[p]) <= cut /\ cut < WeightTo(input.now[p + 1]) }
\* p4est3_search_lower_bound64 in local_weights
NewLeftBorder(p, i) ==
  Min({ id \in input.now[p] .. input.now[p + 1] :
          WeightTo(id) >= Glocut(WeightTo(global_num_quads), i) })
WriteCuts(p) ==
  /\ pc[p] = "weigh"
  /\ \A q \in Procs : Past(q, {"start"})
  /\ goffset' = [i \in 0 .. NumProcs |->
                   IF i \in OwnCuts(p) THEN NewLeftBorder(p, i) ELSE goffset[i]]
  /\ Goto(p, "copy")
  /\ UNCHANGED << input, relatives, gftree, loc_offsets, copied, quads, trees >>

\* a barrier, then one shared offset after the other is copied
CutsWritten == \A q \in Procs : Past(q, {"start", "weigh"})
CopyCut(p) ==
  /\ pc[p] = "copy" /\ CutsWritten
  /\ LET i == copied[p]
     IN  /\ loc_offsets' = [loc_offsets EXCEPT
                              ![p][i] = goffset[i], ![p][NumProcs] = global_num_quads]
         /\ copied' = [copied EXCEPT ![p] = i + 1]
         /\ IF i + 1 < NumProcs THEN UNCHANGED pc ELSE Goto(p, "correct")
  /\ UNCHANGED << input, relatives, goffset, gftree, quads, trees >>

(***************************************************************************)
(* p4est3_partition_correction, for the cuts off as one process sees them. *)
(***************************************************************************)
\* how much of the family low .. high process i has: going down from r the
\* family may begin inside of i, going up it begins in front of i
DownShare(off, low, i) == off[i + 1] - High(low, off[i])
UpShare(off, high, i)  == Low(high, off[i + 1] - 1) - off[i] + 1
DownFrom(off, low, r)  == { i \in 0 .. r - 1 : \A j \in i .. r - 1 : low < off[j + 1] }
UpFrom(off, high, b)   == { i \in b + 1 .. NumProcs - 1 : \A j \in b + 1 .. i : off[j] <= high }

\* the lowest of those with the most
Largest(share, S) ==
  CHOOSE i \in S : \A j \in S : share[j] < share[i] \/ (share[j] = share[i] /\ i <= j)

\* down from r a process takes over if it has no less than those behind it,
\* up from the one found only if it has more
RankWithMaxQuads(off, low, high, r) ==
  LET up    == [i \in Procs |-> UpShare(off, high, i)]
      found == [i \in Procs |-> IF i < r THEN DownShare(off, low, i) ELSE up[i]]
      down  == Largest(found, DownFrom(off, low, r) \union {r})
  IN  Largest([up EXCEPT ![down] = found[down]], UpFrom(off, high, down) \union {down})

\* no correction at a tree of one quadrant or if the family is incomplete
CorrectedCut(off, r) ==
  LET near == relatives[off[r]]
  IN  IF \/ r = NumProcs
         \/ Level(LeafAt(off[r]).quad) = 0
         \/ near = {}
         \/ Max(near) - Min(near) + 1 # CHILDREN
      THEN off[r]
      ELSE IF RankWithMaxQuads(off, Min(near), Max(near), r) < r THEN Max(near) + 1
      ELSE Min(near)

\* mutant: a process corrects its own cut only
CorrectFamilies_Own(p) ==
  /\ pc[p] = "correct"
  /\ loc_offsets' = [loc_offsets EXCEPT ![p][p] =
       IF input.family THEN CorrectedCut(loc_offsets[p], p) ELSE @]
  /\ Goto(p, "publish")
  /\ UNCHANGED << input, relatives, goffset, gftree, copied, quads, trees >>

CorrectFamilies(p) ==
  /\ pc[p] = "correct"
  /\ loc_offsets' = [loc_offsets EXCEPT ![p] =
       IF input.family THEN [r \in 0 .. NumProcs |-> CorrectedCut(loc_offsets[p], r)] ELSE @]
  /\ Goto(p, "publish")
  /\ UNCHANGED << input, relatives, goffset, gftree, copied, quads, trees >>

(***************************************************************************)
(* The new forest.                                                         *)
(***************************************************************************)
FirstQuad(p) == loc_offsets[p][p]
LastQuad(p)  == loc_offsets[p][p + 1] - 1
Empty(p)     == FirstQuad(p) > LastQuad(p)

PublishCut(p) ==
  /\ pc[p] = "publish"
  /\ goffset' = [goffset EXCEPT ![p] = FirstQuad(p),
                   ![NumProcs] = IF p = 0 THEN global_num_quads ELSE @]
  /\ Goto(p, "trees")
  /\ UNCHANGED << input, relatives, gftree, loc_offsets, copied, quads, trees >>

\* fltree and lltree
LocalTrees(p) ==
  LET found == FindPartition(Cardinality(Trees), last_gtree_offsets, FirstQuad(p), LastQuad(p))
  IN  IF Empty(p) THEN {} ELSE found.begin .. found.end

PublishTree(p) ==
  /\ pc[p] = "trees"
  /\ gftree' = [gftree EXCEPT ![p] = IF Empty(p) THEN -1 ELSE Min(LocalTrees(p)),
                   ![NumProcs] = IF p = 0 THEN Cardinality(Trees) ELSE @]
  /\ Goto(p, "take")
  /\ UNCHANGED << input, relatives, goffset, loc_offsets, copied, quads, trees >>

\* num_recv_from, the quadrants of the source on each process of the window
ReceiveWindow(p) ==
  LET found == FindPartition(NumProcs, last_goffsets, FirstQuad(p), LastQuad(p))
  IN  IF Empty(p) THEN {} ELSE found.begin .. found.end
NumRecvFrom(p, from) ==
  IF input.now[from] > LastQuad(p) \/ last_goffsets[from] < FirstQuad(p) THEN 0
  ELSE Low(LastQuad(p), last_goffsets[from]) - High(FirstQuad(p), input.now[from]) + 1
CopyFrom(p, from) ==
  [i \in 1 .. NumRecvFrom(p, from) |-> High(FirstQuad(p), input.now[from]) + i - 1]

\* the same memory if it is contiguous, or a copy; the trees are laid over it
TreeRecord(p, t) ==
  LET first == High(FirstQuad(p), gtroffset(t))
      last  == Low(LastQuad(p), gtroffset(t + 1) - 1)
  IN  [ first_tquad |-> first - gtroffset(t), num_quads |-> last - first + 1,
        quad_offset |-> first - FirstQuad(p) ]
TakeQuadrants(p) ==
  /\ pc[p] = "take"
  /\ quads' = [quads EXCEPT ![p] =
       IF input.contiguous THEN [i \in 1 .. LastQuad(p) - FirstQuad(p) + 1 |-> FirstQuad(p) + i - 1]
       ELSE FlattenSeq([i \in 1 .. NumProcs |->
              IF i - 1 \in ReceiveWindow(p) THEN CopyFrom(p, i - 1) ELSE << >>])]
  /\ trees' = [trees EXCEPT ![p] = [t \in LocalTrees(p) |-> TreeRecord(p, t)]]
  /\ Goto(p, "wait")
  /\ UNCHANGED << input, relatives, goffset, gftree, loc_offsets, copied >>

\* both requests are complete; process 0 gives empty processes the first tree
\* of the one in front
AllPublished == \A q \in Procs : pc[q] \in {"take", "wait", "barrier", "done"}
NonemptyUpTo(p) == { q \in 0 .. p : gftree[q] >= 0 }
Complete(p) ==
  /\ pc[p] = "wait" /\ AllPublished
  /\ gftree' = IF p > 0 THEN gftree
                ELSE [q \in 0 .. NumProcs |-> IF NonemptyUpTo(q) = {} THEN 0
                                             ELSE gftree[Max(NonemptyUpTo(q))]]
  /\ Goto(p, "barrier")
  /\ UNCHANGED << input, relatives, goffset, loc_offsets, copied, quads, trees >>

Leave(p) ==
  /\ pc[p] = "barrier"
  /\ \A q \in Procs : pc[q] \in {"barrier", "done"}
  /\ Goto(p, "done")
  /\ UNCHANGED << input, relatives, goffset, gftree, loc_offsets, copied, quads, trees >>

Finished == \A p \in Procs : pc[p] = "done"
Step(p) == \/ EvenCuts(p) \/ EnterGather(p) \/ WriteCuts(p) \/ CopyCut(p)
           \/ CorrectFamilies(p) \/ PublishCut(p) \/ PublishTree(p)
           \/ TakeQuadrants(p) \/ Complete(p) \/ Leave(p)
Next == \E p \in Procs : Step(p)
\* as long as some process can go on, one does
Spec     == Init /\ [][Next]_vars
FairSpec == Spec /\ WF_vars(Next)

(***************************************************************************)
(* Properties.                                                             *)
(***************************************************************************)
\* When the partition is done, the offsets cut the whole forest, from its first
\* quadrant to its last and without going back, and each process took exactly the
\* quadrants between its own cut and the next: none is lost, none is on two
\* processes, although every process computed all cuts by itself.
RangesAgree ==
  Finished =>
    /\ goffset[0] = 0 /\ goffset[NumProcs] = global_num_quads
    /\ \A p \in Procs :
         /\ goffset[p] <= goffset[p + 1]
         /\ quads[p] = [i \in 1 .. goffset[p + 1] - goffset[p] |-> goffset[p] + i - 1]

\* The trees a process lists are those of its quadrants, and each record finds the
\* quadrants of its tree and their place in it.
RecordsRight ==
  \A p \in Procs : pc[p] \in {"wait", "barrier", "done"} =>
    LET tree(i) == LeafAt(quads[p][i]).tree
    IN  /\ DOMAIN trees[p] = { tree(i) : i \in DOMAIN quads[p] }
        /\ \A t \in DOMAIN trees[p] :
             LET r == trees[p][t]
             IN  /\ { i \in DOMAIN quads[p] : tree(i) = t } =
                      r.quad_offset + 1 .. r.quad_offset + r.num_quads
                 /\ quads[p][r.quad_offset + 1] = gtroffset(t) + r.first_tquad

\* That, and in the end the first trees ascend over all processes, empty ones
\* included.
TreesCorrect ==
  /\ RecordsRight
  /\ Finished => \A p \in Procs :
       /\ DOMAIN trees[p] # {} => gftree[p] = Min(DOMAIN trees[p])
       /\ \A q \in 0 .. p : gftree[q] <= gftree[p]

IsFamilyAt(i) ==
  /\ i + CHILDREN <= global_num_quads
  /\ \A j \in 1 .. CHILDREN : LeafAt(i + j - 1).tree = LeafAt(i).tree
  /\ IsFamily([j \in 1 .. CHILDREN |-> LeafAt(i + j - 1).quad])

\* "True value indicates not splitting quadrant family between ranks"
\* (p4est3_set_family): with the flag no cut lies inside of a family.
FamiliesTogether ==
  Finished /\ input.family =>
    \A i \in 0 .. global_num_quads - 1 : IsFamilyAt(i) =>
      \A p \in Procs : goffset[p] \notin i + 1 .. i + CHILDREN - 1

\* Every process gets through the gather, the barriers and the requests, and
\* then lists its trees right and has its families together.
Correct       == Finished /\ TreesCorrect /\ FamiliesTogether
PartitionEnds == <>Correct
==============================================================================
