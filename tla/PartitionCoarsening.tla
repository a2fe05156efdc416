------------------------- MODULE PartitionCoarsening -------------------------
(***************************************************************************)
(* p4est_partition_for_coarsening (src/p4est.c): a new partition is        *)
(* corrected so that no family of quadrants is divided between processes.  *)
(*                                                                         *)
(* Every process still owns its quadrants of the old partition now and     *)
(* knows the cuts of both partitions.  Whoever owns quadrants close enough *)
(* to a new cut sends the parent at the cut and how many of its children   *)
(* it sees.  The process behind the cut puts this together and decides how *)
(* far its cut moves; an allgather spreads the corrections.                *)
(***************************************************************************)
EXTENDS Quadrants, FiniteSetsExt, Functions, PartitionSearch, TLAPS

CONSTANTS NumProcs,
          WordBefore,  \* what the code reads as global_first_quadrant[-1]
          Cases   \* leaves: the quadrants of the forest in order, with their
                  \* tree; now and counts: the old partition and the requested
                  \* quadrant counts

ASSUME ProcsAssumption == NumProcs \in Nat /\ NumProcs > 1
ASSUME FourAssumption  == CHILDREN >= 4
ASSUME WordAssumption  == WordBefore \in Int

Procs == 0 .. NumProcs - 1

VARIABLES
  input,       \* the arguments, which no process changes until the end
  partition_new,  \* the first quadrants of the requested partition, which
                  \* every process sums up for itself
  pc,          \* per process: "send", "receive", "gather", "done"
  peers,       \* per process: the candidates found to send to and receive from
  net,         \* the messages with tag P4EST_COMM_PARTITION_CORRECTION
  range,       \* per process: << min_quad_id, max_quad_id >>
  correction,  \* per process: correction_local
  result       \* num_quadrants_in_proc as corrected by every process

vars == << input, partition_new, pc, peers, net, range, correction, result >>

PrefixSum(counts, p) == FoldFunctionOnSet(+, 0, counts, 0 .. p - 1)

\* cut holds the first quadrants of a partition of total quadrants
IsPartition(cut, total) ==
  /\ cut \in [0 .. NumProcs -> Nat]
  /\ cut[0] = 0 /\ cut[NumProcs] = total
  /\ \A p \in Procs : cut[p] <= cut[p + 1]
NewCuts(c) == [p \in 0 .. NumProcs |-> PrefixSum(c.counts, p)]

\* The forest is partitioned, and the requested counts are a partition of it: the
\* code ends partition_new with the global count, whatever the counts sum up to.
ASSUME CasesAssumption ==
  \A c \in Cases : IsPartition(c.now, Len(c.leaves)) /\ IsPartition(NewCuts(c), Len(c.leaves))

NumQuadrants  == Len(input.leaves)
now(p)        == IF p = -1 THEN WordBefore ELSE input.now[p]
new(p)        == partition_new[p]
Leaf(i)       == input.leaves[i + 1]
HasNow(p)     == now(p) < now(p + 1)
HasNew(p)     == new(p) < new(p + 1)
Abs(x)        == IF x < 0 THEN -x ELSE x

\* the quadrants of process from reach to the cut in front of process to
Relevant(from, to) ==
  /\ HasNow(from) /\ HasNew(to)
  /\ now(from) <= new(to) + CHILDREN - 2
  /\ new(to) - CHILDREN + 1 < now(from + 1)

(***************************************************************************)
(* Sending.                                                                *)
(***************************************************************************)
\* mutant: the window starts one quadrant late
SendWindow_Late(p) ==
  LET my_begin == now(p) - CHILDREN + 3
      my_end   == now(p + 1) - 1 + CHILDREN
      found    == FindPartition(NumProcs - 1, [i \in 0 .. NumProcs - 2 |-> new(i + 1)],
                                my_begin, my_end)
  IN  IF my_begin < 0 /\ my_end >= NumQuadrants THEN 1 .. NumProcs - 1
      ELSE found.begin + 1 .. found.end

\* the processes that may need something of process p
SendWindow(p) ==
  LET my_begin == now(p) - CHILDREN + 2
      my_end   == now(p + 1) - 1 + CHILDREN
      found    == FindPartition(NumProcs - 1, [i \in 0 .. NumProcs - 2 |-> new(i + 1)],
                                my_begin, my_end)
  IN  IF my_begin < 0 /\ my_end >= NumQuadrants THEN 1 .. NumProcs - 1
      ELSE found.begin + 1 .. found.end
SendCandidates(p) == IF HasNow(p) THEN { i \in SendWindow(p) : HasNew(i) } ELSE {}
\* messages go to those between the lowest and the highest candidate
Between(c) == IF c = {} THEN {} ELSE Min(c) .. Max(c)

OwnsCut(p, to) == now(p) <= new(to) /\ new(to) < now(p + 1)
QuadNearCut(p, to) ==
  IF OwnsCut(p, to) THEN new(to)
  ELSE IF Abs(new(to) - now(p)) < Abs(new(to) - now(p + 1) + 1) THEN now(p)
  ELSE now(p + 1) - 1

\* quadrants of process p around near with the same parent and level, at most
\* as far from the cut as a family reaches
SameParent(i, j) ==
  /\ Leaf(i).tree = Leaf(j).tree
  /\ Level(Leaf(i).quad) = Level(Leaf(j).quad)
  /\ Parent(Leaf(i).quad) = Parent(Leaf(j).quad)
MinQuadId(p, to, near) ==
  Min({ m \in now(p) .. near : /\ m = near \/ m >= new(to) - CHILDREN + 1
                               /\ \A i \in m .. near : SameParent(i, near) })
MaxQuadId(p, to, near) ==
  Max({ m \in near .. now(p + 1) - 1 : /\ m = near \/ m <= new(to) + CHILDREN - 2
                                       /\ \A i \in near .. m : SameParent(i, near) })

\* parent_send; a tree root is sent in place of its parent
LocalNum(p, to) ==
  LET near == QuadNearCut(p, to)
      low  == MinQuadId(p, to, near)
      high == MaxQuadId(p, to, near)
  IN  IF Level(Leaf(near).quad) = 0 THEN 1
      ELSE IF near = new(to) THEN (new(to) - low) * CHILDREN + (high - new(to))
      ELSE high - low + 1
ParentMessage(p, to) ==
  LET leaf == Leaf(QuadNearCut(p, to))
  IN  [ from |-> p, to |-> to, which_tree |-> leaf.tree,
        quad |-> IF Level(leaf.quad) = 0 THEN leaf.quad ELSE Parent(leaf.quad),
        local_num |-> LocalNum(p, to) ]

(***************************************************************************)
(* Receiving.                                                              *)
(***************************************************************************)
\* the loop moves its end on across empty processes
ExtendedEnd(end) ==
  IF end \in Procs THEN Min({ i \in end .. NumProcs : i = NumProcs \/ HasNow(i) }) ELSE end
ReceiveSearch(p) ==
  FindPartition(NumProcs, [i \in Procs |-> now(i)],
                new(p) - CHILDREN + 1, new(p) + CHILDREN - 2)
\* If fewer than CHILDREN - 1 quadrants lie in front of the cut, my_begin is
\* negative, the window begins at -1, and the loop reads in front of the array.
ReceiveWindow(p) ==
  LET my_begin == new(p) - CHILDREN + 1
      my_end   == new(p) + CHILDREN - 2
      found    == ReceiveSearch(p)
      begin    == IF my_begin = now(found.begin) THEN found.begin ELSE found.begin - 1
      end      == IF my_end # now(found.end) THEN found.end - 1 ELSE found.end
  IN  IF my_begin < 0 /\ my_end >= NumQuadrants THEN Procs
      ELSE { i \in begin .. ExtendedEnd(end) : i < NumProcs }
ReceiveCandidates(p) ==
  IF p # 0 /\ HasNew(p) THEN { i \in ReceiveWindow(p) : HasNow(i) } ELSE {}
\* process_with_cut
ProcessWithCut(p) == CHOOSE i \in peers[p].from : OwnsCut(i, p)

(***************************************************************************)
(* p4est_partition_correction: the process with the largest part of the    *)
(* family, the lowest of several, gets it.                                 *)
(***************************************************************************)
Share(p, low, high) ==
  Cardinality({ q \in low .. high : new(p) <= q /\ q < new(p + 1) })
RankWithMaxQuads(low, high) ==
  CHOOSE p \in Procs : /\ \A r \in Procs : Share(r, low, high) <= Share(p, low, high)
                       /\ \A r \in 0 .. p - 1 : Share(r, low, high) < Share(p, low, high)
PartitionCorrection(p, low, high) ==
  IF high - low + 1 # CHILDREN THEN 0
  ELSE IF RankWithMaxQuads(low, high) < p THEN new(p) - high - 1
  ELSE new(p) - low

\* min_quad_id and max_quad_id: what the messages tell of the family at the cut
FamilyRange(p, msgs) ==
  LET own    == CHOOSE m \in msgs : m.from = ProcessWithCut(p)
      same   == { m \in msgs : m.which_tree = own.which_tree /\ m.quad = own.quad }
      num(S) == MapThenSumSet(LAMBDA m : m.local_num, S)
  IN  << new(p) - num({ m \in same : m.from < own.from }) - own.local_num \div CHILDREN,
         new(p) + num({ m \in same : m.from > own.from }) + (own.local_num % CHILDREN) >>

(***************************************************************************)
(* The processes.                                                          *)
(***************************************************************************)
Init ==
  /\ input \in Cases
  /\ partition_new = NewCuts(input)
  /\ pc = [p \in Procs |-> "send"]
  /\ peers = [p \in Procs |-> [ to |-> {}, from |-> {} ]]
  /\ net = {}
  /\ range = [p \in Procs |-> << 0, 0 >>]
  /\ correction = [p \in Procs |-> 0]
  /\ result = [p \in Procs |-> << >>]

SendParents(p) ==
  /\ pc[p] = "send"
  /\ peers' = [peers EXCEPT ![p] = [ to |-> SendCandidates(p), from |-> ReceiveCandidates(p) ]]
  /\ net' = net \union { ParentMessage(p, i) :
                          i \in { j \in Between(peers'[p].to) : Relevant(p, j) } }
  /\ pc' = [pc EXCEPT ![p] = "receive"]
  /\ UNCHANGED << input, partition_new, range, correction, result >>

Posted(p)   == { i \in Between(peers[p].from) : Relevant(i, p) }
Expected(p) == { m \in net : m.to = p /\ m.from \in Posted(p) }

\* all receives are complete: compute the correction and enter the allgather
ReceiveParents(p) ==
  /\ pc[p] = "receive"
  /\ \A i \in Posted(p) : \E m \in net : m.from = i /\ m.to = p
  /\ IF Expected(p) = {} THEN UNCHANGED << range, correction >>
     ELSE /\ range' = [range EXCEPT ![p] = FamilyRange(p, Expected(p))]
          /\ correction' = [correction EXCEPT ![p] =
                              PartitionCorrection(p, range'[p][1], range'[p][2])]
  /\ net' = net \ Expected(p)
  /\ pc' = [pc EXCEPT ![p] = "gather"]
  /\ UNCHANGED << input, partition_new, peers, result >>

NextProcess(p) == NextNonemptyProcess(p + 1, NumProcs, input.counts)
\* what process p takes at its cut, less what the next nonempty process takes
CorrectedCount(p) ==
  IF input.counts[p] = 0 THEN 0
  ELSE input.counts[p] + (IF p > 0 THEN correction[p] ELSE 0)
         - (IF NextProcess(p) < NumProcs THEN correction[NextProcess(p)] ELSE 0)

\* the allgather is through, the sends are complete
Correct(p) ==
  /\ pc[p] = "gather"
  /\ \A r \in Procs : pc[r] \in { "gather", "done" }
  /\ \A m \in net : m.from # p
  /\ result' = [result EXCEPT ![p] = [r \in Procs |-> CorrectedCount(r)]]
  /\ pc' = [pc EXCEPT ![p] = "done"]
  /\ UNCHANGED << input, partition_new, peers, net, range, correction >>

Next == \E p \in Procs : SendParents(p) \/ ReceiveParents(p) \/ Correct(p)

Spec     == Init /\ [][Next]_vars
\* every process runs on while it is not waiting
FairSpec == Spec /\ WF_vars(Next)

(***************************************************************************)
(* Properties                                                              *)
(***************************************************************************)
\* The windows found by binary search hold exactly the processes the plain
\* double inequality selects: the assertions that compare the "old calculation
\* method" with the new one, for empty processes and both ends of the forest.
WindowsExact ==
  \A p \in Procs : pc[p] = "receive" =>
    /\ peers[p].to = { i \in 1 .. NumProcs - 1 : Relevant(p, i) }
    /\ peers[p].from = IF p = 0 THEN {} ELSE { i \in Procs : Relevant(i, p) }

FamilyStarts ==
  { i \in 0 .. NumQuadrants - CHILDREN :
      /\ \A j \in i .. i + CHILDREN - 1 : Leaf(j).tree = Leaf(i).tree
      /\ IsFamily([j \in 1 .. CHILDREN |-> Leaf(i + j - 1).quad]) }

\* partition_now is global_first_quadrant, which has one entry per process and
\* one beyond: the receive loop reads it at these positions only.
ReadsInBounds ==
  \A p \in Procs : (p # 0 /\ HasNew(p) /\ pc[p] = "send") => ReceiveWindow(p) \subseteq Procs

\* The corrected counts are a partition of the forest, in which empty processes
\* have stayed empty.
AllDone     == \A p \in Procs : pc[p] = "done"
CountsValid ==
  AllDone => \A p \in Procs :
    /\ \A r \in Procs : result[p][r] >= 0
    /\ PrefixSum(result[p], NumProcs) = NumQuadrants
    /\ \A r \in Procs : input.counts[r] = 0 => result[p][r] = 0

\* "The process with the highest number of quadrants of a family gets all
\* quadrants belonging to this family.  If this applies to several processes,
\* then the process with the lowest id gets the quadrants" (p4est_algorithms.h),
\* also when a family was divided between three or more processes; and the
\* quadrants of no family stay where the requested partition put them.
FamiliesTogether ==
  AllDone => \A p \in Procs :
    LET members == UNION { i .. i + CHILDREN - 1 : i \in FamilyStarts }
        cut     == [r \in 0 .. NumProcs |-> PrefixSum(result[p], r)]
        owner(j) == CHOOSE r \in Procs : cut[r] <= j /\ j < cut[r + 1]
    IN  /\ \A i \in FamilyStarts :
             LET share(r) == Share(r, i, i + CHILDREN - 1)
                 best     == CHOOSE r \in Procs : \A t \in Procs :
                               share(t) < share(r) \/ (share(t) = share(r) /\ t >= r)
             IN  \A j \in i .. i + CHILDREN - 1 : owner(j) = best
        /\ \A j \in 0 .. NumQuadrants - 1 : j \notin members => Share(owner(j), j, j) = 1

\* Every process has returned, with counts that leave all families together.
Ended == AllDone /\ CountsValid /\ FamiliesTogether

(***************************************************************************)
(* Proofs: the windows are exact, for every number of processes, children, *)
(* forest and pair of partitions.                                          *)
(***************************************************************************)
\* Both partitions stay what they are.
Inputs ==
  /\ input \in Cases /\ partition_new = NewCuts(input)
  /\ DOMAIN peers = Procs /\ DOMAIN pc = Procs
WindowsInv == Inputs /\ WindowsExact

USE ProcsAssumption, FourAssumption DEF Procs

\* The cuts are ordered, also those of processes that are not neighbours.
LEMMA CutsOrdered ==
  ASSUME NEW total, NEW cut, IsPartition(cut, total)
  PROVE  \A i, j \in 0 .. NumProcs : i <= j => cut[i] <= cut[j]
<1> DEFINE S == { k \in Nat : \A i \in 0 .. NumProcs :
                                i + k <= NumProcs => cut[i] <= cut[i + k] }
<1>1. cut \in [0 .. NumProcs -> Nat] /\ \A p \in Procs : cut[p] <= cut[p + 1]
  BY DEF IsPartition
<1>2. 0 \in S
  BY <1>1
<1>3. ASSUME NEW k \in Nat, k \in S PROVE k + 1 \in S
  <2> SUFFICES ASSUME NEW i \in 0 .. NumProcs, i + (k + 1) <= NumProcs
               PROVE  cut[i] <= cut[i + (k + 1)]
    OBVIOUS
  <2>1. cut[i] <= cut[i + k]
    BY <1>3
  <2>2. i + k \in Procs /\ i + (k + 1) \in 0 .. NumProcs /\ i + (k + 1) = (i + k) + 1
    OBVIOUS
  <2>3. cut[i + k] <= cut[i + (k + 1)]
    BY <1>1, <2>2
  <2>4. cut[i] \in Nat /\ cut[i + k] \in Nat /\ cut[i + (k + 1)] \in Nat
    BY <1>1, <2>2
  <2> QED
    BY <2>1, <2>3, <2>4
<1> HIDE DEF S
<1>4. \A k \in Nat : k \in S
  BY <1>2, <1>3, NatSetInduction, Zenon
<1>5. ASSUME NEW i \in 0 .. NumProcs, NEW j \in 0 .. NumProcs, i <= j
      PROVE  cut[i] <= cut[j]
  <2>1. j - i \in Nat /\ i + (j - i) = j
    BY <1>5
  <2>2. j - i \in S
    BY <1>4, <2>1
  <2> QED
    BY <2>1, <2>2 DEF S
<1> QED
  BY <1>5

\* What the two partitions are to the functions that read them.
LEMMA TwoPartitions ==
  ASSUME Inputs
  PROVE  /\ NumQuadrants \in Nat
         /\ \A p \in 0 .. NumProcs : now(p) \in Nat /\ now(p) <= NumQuadrants
                                     /\ new(p) \in Nat /\ new(p) <= NumQuadrants
         /\ \A i, j \in 0 .. NumProcs : i <= j => now(i) <= now(j) /\ new(i) <= new(j)
         /\ now(0) = 0 /\ now(NumProcs) = NumQuadrants
<1>1. IsPartition(input.now, NumQuadrants) /\ IsPartition(partition_new, NumQuadrants)
  BY CasesAssumption DEF Inputs, NumQuadrants
<1>2. \A p \in 0 .. NumProcs : now(p) = input.now[p] /\ new(p) = partition_new[p]
  BY DEF now, new
<1>3. /\ input.now \in [0 .. NumProcs -> Nat] /\ partition_new \in [0 .. NumProcs -> Nat]
      /\ input.now[0] = 0 /\ input.now[NumProcs] = NumQuadrants
      /\ partition_new[NumProcs] = NumQuadrants
  BY <1>1 DEF IsPartition
<1>4. NumProcs \in 0 .. NumProcs /\ 0 \in 0 .. NumProcs
  OBVIOUS
<1>5. \A i, j \in 0 .. NumProcs : i <= j => /\ input.now[i] <= input.now[j]
                                            /\ partition_new[i] <= partition_new[j]
  BY <1>1, CutsOrdered
<1> HIDE DEF NumQuadrants
<1>6. NumQuadrants \in Nat
  BY <1>3, <1>4
<1>7. ASSUME NEW i \in 0 .. NumProcs
      PROVE  /\ now(i) \in Nat /\ now(i) <= NumQuadrants
             /\ new(i) \in Nat /\ new(i) <= NumQuadrants
  <2>1. input.now[i] \in Nat /\ partition_new[i] \in Nat
    BY <1>3
  <2>2. i <= NumProcs
    OBVIOUS
  <2>3. input.now[i] <= NumQuadrants /\ partition_new[i] <= NumQuadrants
    BY <1>3, <1>4, <1>5, <2>2
  <2> QED
    BY <1>2, <2>1, <2>3
<1>8. now(0) = 0 /\ now(NumProcs) = NumQuadrants
  BY <1>2, <1>3, <1>4
<1>9. \A i, j \in 0 .. NumProcs : i <= j => now(i) <= now(j) /\ new(i) <= new(j)
  BY <1>2, <1>5
<1> QED
  BY <1>6, <1>7, <1>8, <1>9

\* The processes that process p may have to send to.
LEMMA SendsExact ==
  ASSUME Inputs, NEW p \in Procs
  PROVE  SendCandidates(p) = { i \in 1 .. NumProcs - 1 : Relevant(p, i) }
<1> DEFINE array    == [i \in 0 .. NumProcs - 2 |-> new(i + 1)]
           my_begin == now(p) - CHILDREN + 2
           my_end   == now(p + 1) - 1 + CHILDREN
           found    == FindPartition(NumProcs - 1, array, my_begin, my_end)
<1>1. /\ NumQuadrants \in Nat
      /\ \A r \in 0 .. NumProcs : now(r) \in Nat /\ now(r) <= NumQuadrants
                                  /\ new(r) \in Nat /\ new(r) <= NumQuadrants
      /\ \A i, j \in 0 .. NumProcs : i <= j => now(i) <= now(j) /\ new(i) <= new(j)
  BY TwoPartitions
<1>2. /\ p \in 0 .. NumProcs /\ p + 1 \in 0 .. NumProcs /\ NumProcs \in Nat /\ CHILDREN \in Nat
      /\ now(p) <= now(p + 1) /\ NumProcs - 1 \in Nat
  BY <1>1, ChildrenAssumption
<1>3. ASSUME NEW i \in 1 .. NumProcs - 1
      PROVE  /\ i \in Procs /\ i \in 0 .. NumProcs /\ i + 1 \in 0 .. NumProcs
             /\ i - 1 \in 0 .. NumProcs - 2 /\ array[i - 1] = new(i)
  OBVIOUS
<1> HIDE DEF NumQuadrants, now, new
<1>4. my_begin \in Int /\ my_end \in Int /\ my_begin <= my_end
  BY <1>1, <1>2
<1>5. array \in [0 .. NumProcs - 1 - 1 -> Int]
  BY <1>1
<1>6. \A i, j \in 0 .. NumProcs - 1 - 1 : i <= j => array[i] <= array[j]
  BY <1>1
<1>7. /\ found.begin \in 0 .. NumProcs - 1 /\ found.end \in 0 .. NumProcs - 1
      /\ \A i \in 0 .. NumProcs - 1 - 1 : found.begin <= i <=> my_begin <= array[i]
      /\ \A i \in 0 .. NumProcs - 1 - 1 : found.end <= i <=> my_end <= array[i]
  <2> HIDE DEF array, my_begin, my_end
  <2> QED
    BY <1>2, <1>4, <1>5, <1>6, WindowOfSorted DEF found
<1>8. SendWindow(p) = IF my_begin < 0 /\ my_end >= NumQuadrants THEN 1 .. NumProcs - 1
                      ELSE found.begin + 1 .. found.end
  BY DEF SendWindow
<1> HIDE DEF array, found
<1>9. ASSUME NEW i \in 1 .. NumProcs - 1, HasNow(p), HasNew(i)
      PROVE  i \in SendWindow(p) <=> my_begin <= new(i) /\ new(i) < my_end
  <2>1. /\ new(i) \in Nat /\ new(i) < NumQuadrants
    <3>1. new(i) < new(i + 1) /\ new(i + 1) <= NumQuadrants
      BY <1>1, <1>3, <1>9 DEF HasNew
    <3>2. new(i) \in Nat /\ new(i + 1) \in Nat
      BY <1>1, <1>3
    <3> QED
      BY <1>1, <3>1, <3>2
  <2>2. CASE my_begin < 0 /\ my_end >= NumQuadrants
    <3> HIDE DEF my_begin, my_end
    <3>1. my_begin <= new(i) /\ new(i) < my_end
      BY <1>1, <1>4, <2>1, <2>2
    <3>2. i \in SendWindow(p)
      BY <1>8, <2>2
    <3> QED
      BY <3>1, <3>2
  <2>3. CASE ~ (my_begin < 0 /\ my_end >= NumQuadrants)
    <3>1. i \in SendWindow(p) <=> found.begin + 1 <= i /\ i <= found.end
      BY <1>7, <1>8, <2>3
    <3>2. /\ found.begin <= i - 1 <=> my_begin <= new(i)
          /\ found.end <= i - 1 <=> my_end <= new(i)
      BY <1>3, <1>7
    <3>3. /\ found.begin + 1 <= i <=> found.begin <= i - 1
          /\ i <= found.end <=> ~ (found.end <= i - 1)
      BY <1>7
    <3> QED
      BY <1>4, <2>1, <3>1, <3>2, <3>3
  <2> QED
    BY <2>2, <2>3
<1>10. ASSUME NEW i \in 1 .. NumProcs - 1, HasNow(p), HasNew(i)
       PROVE  Relevant(p, i) <=> my_begin <= new(i) /\ new(i) < my_end
  <2>1. new(i) \in Nat /\ now(p) \in Nat /\ now(p + 1) \in Nat
    BY <1>1, <1>2, <1>3
  <2> QED
    BY <1>2, <1>10, <2>1 DEF Relevant
<1>11. SendWindow(p) \subseteq 1 .. NumProcs - 1
  BY <1>7, <1>8
<1> HIDE DEF my_begin, my_end
<1>12. CASE HasNow(p)
  <2>1. SendCandidates(p) = { i \in SendWindow(p) : HasNew(i) }
    BY <1>12 DEF SendCandidates
  <2>2. \A i : Relevant(p, i) => HasNew(i)
    BY DEF Relevant
  <2> QED
    BY <1>9, <1>10, <1>11, <1>12, <2>1, <2>2
<1>13. CASE ~ HasNow(p)
  BY <1>13 DEF SendCandidates, Relevant
<1> QED
  BY <1>12, <1>13

\* The loop that moves the end of the window on passes over empty processes
\* only, and stops in front of the first one with quadrants.
LEMMA EmptyPassed ==
  ASSUME Inputs, NEW e \in Procs
  PROVE  /\ ExtendedEnd(e) \in e .. NumProcs
         /\ ExtendedEnd(e) = NumProcs \/ HasNow(ExtendedEnd(e))
         /\ HasNow(e) => ExtendedEnd(e) = e
         /\ \A i \in e .. ExtendedEnd(e) : now(i) = now(e)
<1> DEFINE A == { i \in e .. NumProcs : i = NumProcs \/ HasNow(i) }
           x == ExtendedEnd(e)
           S == { k \in Nat : e + k <= x => now(e + k) = now(e) }
<1>1. /\ \A r \in 0 .. NumProcs : now(r) \in Nat
      /\ \A i, j \in 0 .. NumProcs : i <= j => now(i) <= now(j)
  BY TwoPartitions
<1>2. x \in A /\ \A y \in A : x <= y
  <2>1. A \in SUBSET Nat /\ A # {}
    OBVIOUS
  <2>2. x = Min(A)
    BY DEF ExtendedEnd
  <2> HIDE DEF A, x
  <2>3. \E y \in A : \A z \in A : y <= z
    BY <2>1, LeastElement
  <2> QED
    BY <2>2, <2>3 DEF Min
<1> HIDE DEF x
<1>3. x \in e .. NumProcs /\ (x = NumProcs \/ HasNow(x))
  BY <1>2
<1>4. HasNow(e) => x = e
  <2> SUFFICES ASSUME HasNow(e) PROVE x = e
    OBVIOUS
  <2>1. e \in A
    OBVIOUS
  <2> QED
    BY <1>2, <1>3, <2>1
<1>5. ASSUME NEW i \in e .. NumProcs, i < x PROVE now(i + 1) = now(i)
  <2>1. i \in 0 .. NumProcs /\ i + 1 \in 0 .. NumProcs /\ i <= i + 1
    BY <1>3, <1>5
  <2>2. i \notin A
    BY <1>2, <1>3, <1>5
  <2>3. ~ HasNow(i)
    BY <2>2
  <2>4. now(i) <= now(i + 1) /\ now(i) \in Nat /\ now(i + 1) \in Nat
    BY <1>1, <2>1
  <2> QED
    BY <2>3, <2>4 DEF HasNow
<1> HIDE DEF A, now
<1>6. 0 \in S
  OBVIOUS
<1>7. ASSUME NEW k \in Nat, k \in S PROVE k + 1 \in S
  <2> SUFFICES ASSUME e + (k + 1) <= x PROVE now(e + (k + 1)) = now(e)
    OBVIOUS
  <2>1. e + k \in e .. NumProcs /\ e + k < x /\ e + (k + 1) = (e + k) + 1 /\ e + k <= x
    BY <1>3
  <2>2. now(e + k) = now(e)
    BY <1>7, <2>1
  <2>3. now((e + k) + 1) = now(e + k)
    BY <1>5, <2>1
  <2> QED
    BY <2>1, <2>2, <2>3
<1> HIDE DEF S
<1>8. \A k \in Nat : k \in S
  BY <1>6, <1>7, NatSetInduction, Zenon
<1>9. ASSUME NEW i \in e .. x PROVE now(i) = now(e)
  <2>1. i - e \in Nat /\ e + (i - e) = i /\ i <= x
    BY <1>3
  <2>2. i - e \in S
    BY <1>8, <2>1
  <2>3. e + (i - e) <= x => now(e + (i - e)) = now(e)
    BY <2>2 DEF S
  <2> QED
    BY <2>1, <2>3
<1> QED
  BY <1>3, <1>4, <1>9 DEF x

\* The processes that process p may have to hear of, where the word the loop
\* reads in front of the array is no negative number.
LEMMA ReceivesExact ==
  ASSUME Inputs, WordBefore >= 0, NEW p \in Procs
  PROVE  ReceiveCandidates(p) = IF p = 0 THEN {} ELSE { i \in Procs : Relevant(i, p) }
<1> DEFINE array    == [i \in Procs |-> now(i)]
           my_begin == new(p) - CHILDREN + 1
           my_end   == new(p) + CHILDREN - 2
           found    == ReceiveSearch(p)
           b        == found.begin
           e        == found.end
           begin    == IF my_begin = now(b) THEN b ELSE b - 1
           end      == IF my_end # now(e) THEN e - 1 ELSE e
<1>1. /\ NumQuadrants \in Nat
      /\ \A r \in 0 .. NumProcs : now(r) \in Nat /\ now(r) <= NumQuadrants
                                  /\ new(r) \in Nat /\ new(r) <= NumQuadrants
      /\ \A i, j \in 0 .. NumProcs : i <= j => now(i) <= now(j)
      /\ now(0) = 0 /\ now(NumProcs) = NumQuadrants
  BY TwoPartitions
<1>2. ~ HasNow(-1)
  <2>1. now(-1) >= 0 /\ now(-1) \in Int /\ now(0) = 0
    BY <1>1, WordAssumption DEF now
  <2> QED
    BY <2>1 DEF HasNow
<1> HIDE DEF NumQuadrants, now, new
<1>3. /\ p \in 0 .. NumProcs /\ NumProcs \in Nat /\ NumProcs \in 0 .. NumProcs
      /\ CHILDREN \in Nat /\ new(p) \in Nat /\ new(p) <= NumQuadrants
      /\ Procs = 0 .. NumProcs - 1
  BY <1>1, ChildrenAssumption
<1>4. /\ my_begin \in Int /\ my_end \in Int /\ my_begin <= my_end
      /\ my_begin < NumQuadrants /\ my_end > 0
  BY <1>1, <1>3
<1>5. array \in [0 .. NumProcs - 1 -> Int]
  BY <1>1
<1>6. \A i, j \in 0 .. NumProcs - 1 : i <= j => array[i] <= array[j]
  BY <1>1
<1>7. found = FindPartition(NumProcs, array, my_begin, my_end)
  BY DEF ReceiveSearch
<1>8. /\ b \in 0 .. NumProcs /\ e \in 0 .. NumProcs
      /\ \A i \in 0 .. NumProcs - 1 : b <= i <=> my_begin <= array[i]
      /\ \A i \in 0 .. NumProcs - 1 : e <= i <=> my_end <= array[i]
  <2> HIDE DEF array, my_begin, my_end, found
  <2> QED
    BY <1>3, <1>4, <1>5, <1>6, <1>7, WindowOfSorted
<1>9. \A i \in 0 .. NumProcs - 1 : /\ b <= i <=> my_begin <= now(i)
                                   /\ e <= i <=> my_end <= now(i)
  BY <1>8
<1>10. ReceiveWindow(p) = IF my_begin < 0 /\ my_end >= NumQuadrants THEN Procs
                          ELSE { i \in begin .. ExtendedEnd(end) : i < NumProcs }
  BY DEF ReceiveWindow
<1> HIDE DEF array, my_begin, my_end, found, b, e
<1>11. begin \in -1 .. NumProcs
  BY <1>3, <1>8
<1>12. ASSUME NEW i \in Procs PROVE HasNow(i) => (begin <= i <=> my_begin < now(i + 1))
  <2>1. /\ i \in 0 .. NumProcs /\ i + 1 \in 0 .. NumProcs /\ i \in 0 .. NumProcs - 1
        /\ now(i) \in Nat /\ now(i + 1) \in Nat /\ now(b) \in Nat
    BY <1>1, <1>8
  <2>2. my_begin <= now(b)
    <3>1. CASE b = NumProcs
      BY <1>1, <1>4, <3>1
    <3>2. CASE b # NumProcs
      <4>1. b \in 0 .. NumProcs - 1 /\ b <= b
        BY <1>8, <3>2
      <4> QED
        BY <1>9, <4>1
    <3> QED
      BY <3>1, <3>2
  <2>3. (i < b => now(i + 1) <= now(b)) /\ (b <= i + 1 => now(b) <= now(i + 1))
    BY <1>1, <1>8, <2>1
  <2>4. CASE my_begin = now(b)
    <3>1. begin = b
      BY <2>4
    <3>2. b <= i <=> my_begin <= now(i)
      BY <1>9, <2>1
    <3> HIDE DEF begin
    <3>3. CASE b <= i
      BY <1>4, <2>1, <3>1, <3>2, <3>3 DEF HasNow
    <3>4. CASE ~ (b <= i)
      BY <1>4, <1>8, <2>1, <2>3, <2>4, <3>1, <3>4
    <3> QED
      BY <3>3, <3>4
  <2>5. CASE my_begin # now(b)
    <3>1. begin = b - 1 /\ my_begin < now(b)
      BY <1>4, <2>1, <2>2, <2>5
    <3> HIDE DEF begin
    <3>2. CASE b - 1 <= i
      BY <1>4, <1>8, <2>1, <2>3, <3>1, <3>2
    <3>3. CASE ~ (b - 1 <= i)
      <4>1. i + 1 \in 0 .. NumProcs - 1 /\ ~ (b <= i + 1)
        BY <1>8, <2>1, <3>3
      <4>2. ~ (my_begin <= now(i + 1))
        BY <1>9, <4>1
      <4> QED
        BY <1>4, <2>1, <3>1, <3>3, <4>2
    <3> QED
      BY <3>2, <3>3
  <2> QED
    BY <2>4, <2>5
<1>13. end \in Int /\ ExtendedEnd(end) \in Int
       /\ \A i \in Procs : i <= ExtendedEnd(end) <=> now(i) <= my_end
  <2>1. CASE e = NumProcs
    <3>1. \A i \in Procs : now(i) <= my_end
      BY <1>1, <1>3, <1>4, <1>9, <2>1
    <3>2. ExtendedEnd(NumProcs) = NumProcs
      BY DEF ExtendedEnd
    <3>3. NumProcs - 1 \in Procs
      OBVIOUS
    <3>4. ExtendedEnd(NumProcs - 1) \in NumProcs - 1 .. NumProcs
      BY <3>3, EmptyPassed
    <3>5. end \in { NumProcs - 1, NumProcs }
      BY <2>1
    <3> HIDE DEF end
    <3>6. end \in Int /\ ExtendedEnd(end) \in NumProcs - 1 .. NumProcs
      BY <3>2, <3>4, <3>5
    <3> QED
      BY <3>1, <3>6
  <2>2. CASE e # NumProcs /\ my_end = now(e)
    <3>1. end = e /\ e \in Procs
      BY <1>8, <2>2
    <3> DEFINE x == ExtendedEnd(e)
    <3>2. /\ x \in e .. NumProcs /\ (x = NumProcs \/ HasNow(x))
          /\ \A i \in e .. x : now(i) = now(e)
      BY <3>1, EmptyPassed
    <3> HIDE DEF end, x
    <3>3. ASSUME NEW i \in Procs PROVE i <= x <=> now(i) <= my_end
      <4>1. i \in 0 .. NumProcs - 1 /\ i \in 0 .. NumProcs /\ now(i) \in Nat
        BY <1>1
      <4>2. CASE i < e
        <5>1. ~ (my_end <= now(i))
          BY <1>8, <1>9, <4>1, <4>2
        <5> QED
          BY <1>4, <3>1, <3>2, <4>1, <4>2, <5>1
      <4>3. CASE e <= i /\ i <= x
        <5>1. now(i) = now(e)
          BY <3>1, <3>2, <4>3
        <5> QED
          BY <1>4, <2>2, <4>1, <4>3, <5>1
      <4>4. CASE x < i
        <5>1. x \in Procs /\ x + 1 \in 0 .. NumProcs /\ x \in 0 .. NumProcs /\ x + 1 <= i
          BY <3>1, <3>2, <4>1, <4>4
        <5>2. now(x) < now(x + 1)
          BY <3>2, <5>1 DEF HasNow
        <5>3. now(x + 1) <= now(i) /\ now(x) \in Nat /\ now(x + 1) \in Nat
          BY <1>1, <4>1, <5>1
        <5>4. now(x) = my_end
          BY <2>2, <3>2
        <5> QED
          BY <3>2, <4>1, <4>4, <5>1, <5>2, <5>3, <5>4
      <4> QED
        BY <3>1, <3>2, <4>1, <4>2, <4>3, <4>4
    <3>4. x \in Int /\ e \in Int
      BY <3>1, <3>2
    <3> QED
      BY <3>1, <3>3, <3>4 DEF x
  <2>3. CASE e # NumProcs /\ my_end # now(e)
    <3>1. e \in 0 .. NumProcs - 1 /\ end = e - 1 /\ e \in 0 .. NumProcs
      BY <1>8, <2>3
    <3>2. my_end < now(e) /\ now(e) \in Nat
      BY <1>1, <1>4, <1>9, <2>3, <3>1
    <3>3. e # 0
      BY <1>1, <1>4, <3>2
    <3>4. e - 1 \in Procs /\ e - 1 \in 0 .. NumProcs - 1 /\ e - 1 \in 0 .. NumProcs
      BY <3>1, <3>3
    <3>5. ~ (my_end <= now(e - 1)) /\ now(e - 1) \in Nat
      <4>1. ~ (e <= e - 1)
        BY <3>1
      <4> QED
        BY <1>1, <1>9, <3>4, <4>1
    <3>6. HasNow(e - 1)
      <4>1. e - 1 + 1 = e
        BY <3>1
      <4>2. now(e - 1) < now(e)
        BY <1>4, <3>2, <3>5
      <4> QED
        BY <4>1, <4>2 DEF HasNow
    <3>7. ExtendedEnd(e - 1) = e - 1
      BY <3>4, <3>6, EmptyPassed
    <3> HIDE DEF end
    <3>8. ASSUME NEW i \in Procs PROVE i <= e - 1 <=> now(i) <= my_end
      <4>1. i \in 0 .. NumProcs - 1 /\ i \in 0 .. NumProcs /\ now(i) \in Nat
        BY <1>1
      <4>2. CASE i <= e - 1
        <5>1. ~ (my_end <= now(i))
          BY <1>9, <3>1, <4>1, <4>2
        <5> QED
          BY <1>4, <4>1, <4>2, <5>1
      <4>3. CASE ~ (i <= e - 1)
        <5>1. now(e) <= now(i)
          BY <1>1, <3>1, <4>1, <4>3
        <5> QED
          BY <1>4, <3>2, <4>1, <4>3, <5>1
      <4> QED
        BY <4>2, <4>3
    <3>9. e - 1 \in Int
      BY <3>1
    <3> QED
      BY <3>1, <3>7, <3>8, <3>9
  <2> QED
    BY <2>1, <2>2, <2>3
<1> HIDE DEF begin, end
<1>14. ASSUME HasNew(p), NEW i \in Procs, HasNow(i)
       PROVE  Relevant(i, p) <=> my_begin < now(i + 1) /\ now(i) <= my_end
  BY <1>14 DEF Relevant, my_begin, my_end
<1>15. ASSUME HasNew(p), NEW i, HasNow(i)
       PROVE  i \in ReceiveWindow(p) <=> i \in Procs /\ Relevant(i, p)
  <2>1. CASE my_begin < 0 /\ my_end >= NumQuadrants
    <3>1. ASSUME i \in Procs PROVE my_begin < now(i + 1) /\ now(i) <= my_end
      <4>1. i \in 0 .. NumProcs /\ i + 1 \in 0 .. NumProcs
        BY <3>1
      <4>2. now(i) \in Nat /\ now(i + 1) \in Nat /\ now(i) <= NumQuadrants
        BY <1>1, <4>1
      <4> QED
        BY <1>1, <1>4, <2>1, <4>2
    <3> QED
      BY <1>10, <1>14, <1>15, <2>1, <3>1
  <2>2. CASE ~ (my_begin < 0 /\ my_end >= NumQuadrants)
    <3>1. i \in ReceiveWindow(p) <=> i \in begin .. ExtendedEnd(end) /\ i < NumProcs
      BY <1>10, <2>2
    <3>2. ASSUME i \in begin .. ExtendedEnd(end), i < NumProcs PROVE i \in Procs
      <4>1. i \in -1 .. NumProcs - 1
        BY <1>11, <1>13, <3>2
      <4>2. i # -1
        BY <1>2, <1>15
      <4> QED
        BY <4>1, <4>2
    <3>3. ASSUME i \in Procs
          PROVE  i \in begin .. ExtendedEnd(end) /\ i < NumProcs <=> Relevant(i, p)
      <4>1. i \in Int /\ i < NumProcs
        BY <3>3
      <4>2. i \in begin .. ExtendedEnd(end) <=> begin <= i /\ i <= ExtendedEnd(end)
        BY <1>11, <1>13, <4>1
      <4>3. (begin <= i <=> my_begin < now(i + 1)) /\ (i <= ExtendedEnd(end) <=> now(i) <= my_end)
        BY <1>12, <1>13, <1>15, <3>3
      <4>4. Relevant(i, p) <=> my_begin < now(i + 1) /\ now(i) <= my_end
        BY <1>14, <1>15, <3>3
      <4> QED
        BY <4>1, <4>2, <4>3, <4>4
    <3> QED
      BY <3>1, <3>2, <3>3
  <2> QED
    BY <2>1, <2>2
<1>16. \A i : Relevant(i, p) => HasNow(i) /\ HasNew(p)
  BY DEF Relevant
<1>17. CASE p # 0 /\ HasNew(p)
  <2>1. ReceiveCandidates(p) = { i \in ReceiveWindow(p) : HasNow(i) }
    BY <1>17 DEF ReceiveCandidates
  <2> QED
    BY <1>15, <1>16, <1>17, <2>1
<1>18. CASE ~ (p # 0 /\ HasNew(p))
  <2>1. ReceiveCandidates(p) = {}
    BY <1>18 DEF ReceiveCandidates
  <2> QED
    BY <1>16, <1>18, <2>1
<1> QED
  BY <1>17, <1>18

\* Windows that were found stay exact.
LEMMA WindowsStay ==
  ASSUME WordBefore >= 0
  PROVE  Spec => []WindowsInv
<1>1. Init => WindowsInv
  <2> SUFFICES ASSUME Init PROVE WindowsInv
    OBVIOUS
  <2>1. Inputs
    BY DEF Init, Inputs, NewCuts
  <2>2. \A p \in Procs : pc[p] = "send"
    BY DEF Init
  <2>3. WindowsExact
    BY <2>2 DEF WindowsExact
  <2> QED
    BY <2>1, <2>3 DEF WindowsInv
<1>2. WindowsInv /\ [Next]_vars => WindowsInv'
  <2> SUFFICES ASSUME WindowsInv, [Next]_vars PROVE WindowsInv'
    OBVIOUS
  <2>1. Inputs /\ WindowsExact
    BY DEF WindowsInv
  <2> DEFINE To(p)   == { i \in 1 .. NumProcs - 1 : Relevant(p, i) }
             From(p) == IF p = 0 THEN {} ELSE { i \in Procs : Relevant(i, p) }
  <2>2. ASSUME UNCHANGED << input, partition_new >>, DOMAIN peers' = Procs, DOMAIN pc' = Procs,
               \A r \in Procs : pc'[r] = "receive" =>
                 peers'[r].to = To(r) /\ peers'[r].from = From(r)
        PROVE  WindowsInv'
    <3>1. Inputs'
      BY <2>1, <2>2 DEF Inputs
    <3>2. \A i, p \in Int : Relevant(i, p)' = Relevant(i, p)
      BY <2>2 DEF Relevant, HasNow, HasNew, now, new
    <3>3. ASSUME NEW r \in Procs PROVE To(r)' = To(r) /\ From(r)' = From(r)
      BY <3>2
    <3>4. WindowsExact'
      BY <2>2, <3>3 DEF WindowsExact
    <3> QED
      BY <3>1, <3>4 DEF WindowsInv
  <2>3. \A r \in Procs : pc[r] = "receive" => peers[r].to = To(r) /\ peers[r].from = From(r)
    BY <2>1 DEF WindowsExact
  <2>4. DOMAIN peers = Procs /\ DOMAIN pc = Procs
    BY <2>1 DEF Inputs
  <2> HIDE DEF To, From
  <2>5. ASSUME NEW p \in Procs, SendParents(p) PROVE WindowsInv'
    <3>1. /\ UNCHANGED << input, partition_new >>
          /\ peers' = [peers EXCEPT ![p] = [ to |-> SendCandidates(p),
                                              from |-> ReceiveCandidates(p) ]]
          /\ pc' = [pc EXCEPT ![p] = "receive"]
      BY <2>5 DEF SendParents
    <3>2. SendCandidates(p) = To(p) /\ ReceiveCandidates(p) = From(p)
      BY <2>1, SendsExact, ReceivesExact DEF To, From
    <3>3. ASSUME NEW r \in Procs, pc'[r] = "receive"
          PROVE  peers'[r].to = To(r) /\ peers'[r].from = From(r)
      <4>1. CASE r = p
        BY <2>4, <3>1, <3>2, <4>1
      <4>2. CASE r # p
        <5>1. peers'[r] = peers[r] /\ pc'[r] = pc[r]
          BY <2>4, <3>1, <4>2
        <5> QED
          BY <2>3, <3>3, <5>1
      <4> QED
        BY <4>1, <4>2
    <3>4. DOMAIN peers' = Procs /\ DOMAIN pc' = Procs
      BY <2>4, <3>1
    <3> QED
      BY <2>2, <3>1, <3>3, <3>4
  <2>6. ASSUME NEW p \in Procs, NEW s, s # "receive", pc' = [pc EXCEPT ![p] = s],
               UNCHANGED << input, partition_new, peers >>
        PROVE  WindowsInv'
    <3>1. \A r \in Procs : pc'[r] = "receive" => pc[r] = "receive"
      BY <2>4, <2>6
    <3>2. DOMAIN peers' = Procs /\ DOMAIN pc' = Procs
      BY <2>4, <2>6
    <3> QED
      BY <2>2, <2>3, <2>6, <3>1, <3>2
  <2>7. ASSUME NEW p \in Procs, ReceiveParents(p) PROVE WindowsInv'
    <3>1. pc' = [pc EXCEPT ![p] = "gather"] /\ UNCHANGED << input, partition_new, peers >>
      BY <2>7 DEF ReceiveParents
    <3> QED
      BY <2>6, <3>1
  <2>8. ASSUME NEW p \in Procs, Correct(p) PROVE WindowsInv'
    <3>1. pc' = [pc EXCEPT ![p] = "done"] /\ UNCHANGED << input, partition_new, peers >>
      BY <2>8 DEF Correct
    <3> QED
      BY <2>6, <3>1
  <2>9. CASE UNCHANGED vars
    <3>1. UNCHANGED << input, partition_new, peers, pc >>
      BY <2>9 DEF vars
    <3> QED
      BY <2>2, <2>3, <2>4, <3>1
  <2> QED
    BY <2>5, <2>7, <2>8, <2>9 DEF Next
<1> QED
  BY <1>1, <1>2, PTL DEF Spec

\* The windows are exact after every sequence of steps, whatever the number of
\* processes and children, the forest and the two partitions of it: every pair of
\* processes agrees on whether it exchanges a message, without having talked.
THEOREM WindowsFound ==
  ASSUME WordBefore >= 0
  PROVE  Spec => []WindowsExact
<1>1. WindowsInv => WindowsExact
  BY DEF WindowsInv
<1> QED
  BY <1>1, WindowsStay, PTL

(***************************************************************************)
(* Nobody waits for ever: the messages in transit are those of everyone    *)
(* who has sent to everyone who has not received.                          *)
(***************************************************************************)
\* from has something to tell to, which is not the first process
Tells(from, to) == to # 0 /\ Relevant(from, to)

Mail ==
  /\ \A p \in Procs : pc[p] \in { "send", "receive", "gather", "done" }
  /\ \A m \in net : /\ m.from \in Procs /\ m.to \in Procs /\ Tells(m.from, m.to)
                      /\ pc[m.from] # "send" /\ pc[m.to] \in { "send", "receive" }
  /\ \A p, r \in Procs : Tells(p, r) =>
       /\ pc[p] # "send" /\ pc[r] \in { "send", "receive" } =>
            \E m \in net : m.from = p /\ m.to = r
       /\ pc[r] \in { "gather", "done" } => pc[p] # "send"

\* What lies between processes is a range that contains them.
LEMMA BetweenContains ==
  ASSUME NEW low \in Nat, NEW high \in Nat, NEW c \in SUBSET (low .. high)
  PROVE  c \subseteq Between(c) /\ Between(c) \subseteq low .. high
<1>1. CASE c = {}
  BY <1>1 DEF Between
<1>2. CASE c # {}
  <2>1. PICK x \in c : \A y \in c : x <= y
    BY <1>2, LeastElement
  <2>2. Min(c) \in c /\ \A y \in c : Min(c) <= y
    BY <2>1 DEF Min
  <2> DEFINE T == { t \in Nat : high - t \in c }
  <2>3. \A y \in c : high - y \in T
    OBVIOUS
  <2>4. T # {}
    BY <1>2, <2>3
  <2>5. PICK t \in T : \A u \in T : t <= u
    BY <2>4, LeastElement
  <2>6. high - t \in c /\ t \in Nat
    BY <2>5
  <2> HIDE DEF T
  <2>7. \A y \in c : high - t >= y
    BY <2>3, <2>5, <2>6
  <2>8. Max(c) \in c /\ \A y \in c : Max(c) >= y
    BY <2>6, <2>7 DEF Max
  <2>9. Between(c) = Min(c) .. Max(c)
    BY <1>2 DEF Between
  <2>10. Min(c) \in low .. high /\ Max(c) \in low .. high
    BY <2>2, <2>8
  <2>11. ASSUME NEW y \in c PROVE y \in Min(c) .. Max(c)
    <3>1. y \in low .. high /\ Min(c) <= y /\ Max(c) >= y
      BY <2>2, <2>8
    <3> QED
      BY <2>10, <3>1
  <2>12. ASSUME NEW y \in Min(c) .. Max(c) PROVE y \in low .. high
    BY <2>10
  <2> QED
    BY <2>9, <2>11, <2>12
<1> QED
  BY <1>1, <1>2

\* Who receives waits for exactly those that tell it something.
LEMMA PostedTell ==
  ASSUME WindowsInv, NEW p \in Procs, pc[p] = "receive"
  PROVE  Posted(p) = { i \in Procs : Tells(i, p) }
<1>1. peers[p].from = IF p = 0 THEN {} ELSE { i \in Procs : Relevant(i, p) }
  BY DEF WindowsInv, WindowsExact
<1>2. peers[p].from = { i \in Procs : Tells(i, p) }
  BY <1>1 DEF Tells
<1> DEFINE c == { i \in Procs : Tells(i, p) }
<1>3. Posted(p) = { i \in Between(c) : Relevant(i, p) }
  BY <1>2 DEF Posted
<1>4. c \subseteq Between(c) /\ Between(c) \subseteq 0 .. NumProcs - 1
  <2>1. c \in SUBSET (0 .. NumProcs - 1) /\ 0 \in Nat /\ NumProcs - 1 \in Nat
    OBVIOUS
  <2> HIDE DEF c
  <2> QED
    BY <2>1, BetweenContains
<1>5. CASE p = 0
  <2>1. c = {}
    BY <1>5 DEF Tells
  <2> QED
    BY <1>3, <2>1 DEF Between
<1>6. CASE p # 0
  BY <1>3, <1>4, <1>6 DEF Tells
<1> QED
  BY <1>5, <1>6

\* Nobody tells anything to a process that is not told.
LEMMA SentTell ==
  ASSUME Inputs, NEW p \in Procs
  PROVE  { j \in Between(SendCandidates(p)) : Relevant(p, j) } = { i \in Procs : Tells(p, i) }
<1> DEFINE c == { i \in Procs : Tells(p, i) }
<1>1. SendCandidates(p) = c
  BY SendsExact DEF Tells
<1>2. c \subseteq Between(c) /\ Between(c) \subseteq 1 .. NumProcs - 1
  <2>1. c \in SUBSET (1 .. NumProcs - 1) /\ 1 \in Nat /\ NumProcs - 1 \in Nat
    BY DEF Tells
  <2> HIDE DEF c
  <2> QED
    BY <2>1, BetweenContains
<1> QED
  BY <1>1, <1>2 DEF Tells

\* The guards of the three steps: process p does not wait.
CanMove(p) ==
  \/ pc[p] = "send"
  \/ pc[p] = "receive" /\ \A i \in Posted(p) : \E m \in net : m.from = i /\ m.to = p
  \/ pc[p] = "gather" /\ (\A r \in Procs : pc[r] \in { "gather", "done" })
                       /\ \A m \in net : m.from # p

LEMMA NextMail == ASSUME WindowsInv, Mail, [Next]_vars PROVE Mail'
<1>1. Inputs /\ DOMAIN peers = Procs /\ DOMAIN pc = Procs
  BY DEF WindowsInv, Inputs
<1> USE DEF Mail
<1>2. ASSUME UNCHANGED << input, partition_new >>
      PROVE  \A i, r \in Procs : Tells(i, r)' = Tells(i, r)
  BY <1>2 DEF Tells, Relevant, HasNow, HasNew, now, new
<1>3. ASSUME NEW p \in Procs, SendParents(p) PROVE Mail'
  <2> DEFINE M == { ParentMessage(p, i) :
                      i \in { j \in Between(SendCandidates(p)) : Relevant(p, j) } }
  <2>1. /\ pc[p] = "send" /\ net' = net \union M /\ pc' = [pc EXCEPT ![p] = "receive"]
        /\ UNCHANGED << input, partition_new >>
    <3>1. /\ pc[p] = "send" /\ pc' = [pc EXCEPT ![p] = "receive"]
          /\ UNCHANGED << input, partition_new >>
          /\ peers' = [peers EXCEPT ![p] = [ to |-> SendCandidates(p),
                                              from |-> ReceiveCandidates(p) ]]
          /\ net' = net \union { ParentMessage(p, i) :
                          i \in { j \in Between(peers'[p].to) : Relevant(p, j) } }
      BY <1>3 DEF SendParents
    <3>2. peers'[p].to = SendCandidates(p)
      BY <1>1, <3>1
    <3> QED
      BY <3>1, <3>2
  <2>2. M = { ParentMessage(p, i) : i \in { j \in Procs : Tells(p, j) } }
    BY <1>1, SentTell
  <2>3. \A i : ParentMessage(p, i).from = p /\ ParentMessage(p, i).to = i
    BY DEF ParentMessage
  <2>4. /\ \A m \in M : m.from = p /\ m.to \in Procs /\ Tells(p, m.to)
        /\ \A i \in Procs : Tells(p, i) => \E m \in M : m.from = p /\ m.to = i
    <3> HIDE DEF M
    <3> QED
      BY <2>2, <2>3
  <2> HIDE DEF M
  <2>5. /\ \A r \in Procs : r # p => pc'[r] = pc[r]
        /\ pc'[p] = "receive"
    BY <1>1, <2>1
  <2>6. ASSUME NEW m \in net'
        PROVE  /\ m.from \in Procs /\ m.to \in Procs /\ Tells(m.from, m.to)
               /\ pc'[m.from] # "send" /\ pc'[m.to] \in { "send", "receive" }
    <3>1. CASE m \in net
      BY <2>5, <3>1
    <3>2. CASE m \in M
      <4>1. pc[m.to] \in { "send", "receive" }
        BY <2>1, <2>4, <3>2
      <4> QED
        BY <2>4, <2>5, <3>2, <4>1
    <3> QED
      BY <2>1, <3>1, <3>2
  <2>7. ASSUME NEW i \in Procs, NEW r \in Procs, Tells(i, r)
        PROVE  /\ pc'[i] # "send" /\ pc'[r] \in { "send", "receive" } =>
                     \E m \in net' : m.from = i /\ m.to = r
               /\ pc'[r] \in { "gather", "done" } => pc'[i] # "send"
    <3>1. CASE i = p
      BY <2>1, <2>4, <2>5, <2>7, <3>1
    <3>2. CASE i # p
      BY <2>1, <2>5, <2>7, <3>2
    <3> QED
      BY <3>1, <3>2
  <2>8. \A r \in Procs : pc'[r] \in { "send", "receive", "gather", "done" }
    BY <2>5
  <2> QED
    BY <1>2, <2>1, <2>6, <2>7, <2>8
<1>4. ASSUME NEW p \in Procs, ReceiveParents(p) PROVE Mail'
  <2>1. /\ pc[p] = "receive" /\ pc' = [pc EXCEPT ![p] = "gather"] /\ net' = net \ Expected(p)
        /\ \A i \in Posted(p) : \E m \in net : m.from = i /\ m.to = p
        /\ UNCHANGED << input, partition_new >>
    BY <1>4 DEF ReceiveParents
  <2>2. Posted(p) = { i \in Procs : Tells(i, p) }
    BY <2>1, PostedTell
  <2>3. /\ \A r \in Procs : r # p => pc'[r] = pc[r]
        /\ pc'[p] = "gather"
    BY <1>1, <2>1
  <2>4. \A m \in net : m \in net' <=> m.to # p
    BY <2>1, <2>2 DEF Expected
  <2>5. net' \subseteq net
    BY <2>1
  <2>6. ASSUME NEW m \in net'
        PROVE  /\ m.from \in Procs /\ m.to \in Procs /\ Tells(m.from, m.to)
               /\ pc'[m.from] # "send" /\ pc'[m.to] \in { "send", "receive" }
    <3>1. m \in net /\ m.to # p
      BY <2>4, <2>5
    <3> QED
      BY <2>3, <3>1
  <2>7. ASSUME NEW i \in Procs, NEW r \in Procs, Tells(i, r)
        PROVE  /\ pc'[i] # "send" /\ pc'[r] \in { "send", "receive" } =>
                     \E m \in net' : m.from = i /\ m.to = r
               /\ pc'[r] \in { "gather", "done" } => pc'[i] # "send"
    <3>1. pc'[i] # "send" <=> pc[i] # "send"
      BY <2>1, <2>3
    <3>2. CASE r = p
      <4>1. \E m \in net : m.from = i /\ m.to = p
        BY <2>1, <2>2, <2>7, <3>2
      <4>2. pc[i] # "send"
        BY <4>1
      <4> QED
        BY <2>3, <3>1, <3>2, <4>2
    <3>3. CASE r # p
      BY <2>3, <2>4, <2>7, <3>1, <3>3
    <3> QED
      BY <3>2, <3>3
  <2>8. \A r \in Procs : pc'[r] \in { "send", "receive", "gather", "done" }
    BY <2>3
  <2> QED
    BY <1>2, <2>1, <2>6, <2>7, <2>8
<1>5. ASSUME NEW p \in Procs, Correct(p) PROVE Mail'
  <2>1. /\ pc[p] = "gather" /\ pc' = [pc EXCEPT ![p] = "done"] /\ net' = net
        /\ UNCHANGED << input, partition_new >>
    BY <1>5 DEF Correct
  <2>2. /\ \A r \in Procs : r # p => pc'[r] = pc[r]
        /\ pc'[p] = "done"
    BY <1>1, <2>1
  <2>3. /\ \A r \in Procs : pc'[r] # "send" <=> pc[r] # "send"
        /\ \A r \in Procs : pc'[r] \in { "send", "receive" } <=> pc[r] \in { "send", "receive" }
        /\ \A r \in Procs : pc'[r] \in { "gather", "done" } <=> pc[r] \in { "gather", "done" }
        /\ \A r \in Procs : pc'[r] \in { "send", "receive", "gather", "done" }
    BY <2>1, <2>2
  <2> QED
    BY <1>2, <2>1, <2>3
<1>6. CASE UNCHANGED vars
  <2>1. UNCHANGED << input, partition_new, net, pc >>
    BY <1>6 DEF vars
  <2> QED
    BY <1>2, <2>1
<1> QED
  BY <1>3, <1>4, <1>5, <1>6 DEF Next

\* While one process has not returned, some process can go on: every receive
\* that was posted is served by a process that does not wait for it in turn, and
\* before anyone returns no message is left behind.
THEOREM NobodyIsStuck ==
  ASSUME WordBefore >= 0
  PROVE  Spec => []((\E p \in Procs : pc[p] # "done") => \E p \in Procs : CanMove(p))
<1>1. ASSUME WindowsInv, Mail, NEW w \in Procs, pc[w] # "done", \A p \in Procs : ~ CanMove(p)
      PROVE  FALSE
  <2>1. \A p \in Procs : pc[p] \in { "receive", "gather", "done" }
    BY <1>1 DEF Mail, CanMove
  <2>2. ASSUME NEW p \in Procs PROVE pc[p] # "receive"
    <3> SUFFICES ASSUME pc[p] = "receive" PROVE FALSE
      OBVIOUS
    <3>1. Posted(p) = { i \in Procs : Tells(i, p) }
      BY <1>1, PostedTell
    <3>2. \A i \in Posted(p) : \E m \in net : m.from = i /\ m.to = p
      BY <1>1, <2>1, <3>1 DEF Mail
    <3> QED
      BY <1>1, <3>2 DEF CanMove
  <2>3. \A p \in Procs : pc[p] \in { "gather", "done" }
    BY <2>1, <2>2
  <2>4. \A m \in net : FALSE
    BY <1>1, <2>3 DEF Mail
  <2>5. pc[w] = "gather"
    BY <1>1, <2>3
  <2> QED
    BY <1>1, <2>3, <2>4, <2>5 DEF CanMove
<1>2. WindowsInv /\ Mail => ((\E p \in Procs : pc[p] # "done") => \E p \in Procs : CanMove(p))
  BY <1>1
<1>3. Init => Mail
  BY DEF Init, Mail
<1>4. WindowsInv /\ Mail /\ [Next]_vars => Mail'
  BY NextMail
<1> QED
  BY <1>2, <1>3, <1>4, WindowsStay, PTL DEF Spec
==============================================================================
