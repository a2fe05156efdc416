-------------------------- MODULE PartitionWeighted --------------------------
(***************************************************************************)
(* The weighted cuts of p4est_partition_ext (src/p4est.c): how many        *)
(* quadrants every process shall own so that the weights are balanced.     *)
(*                                                                         *)
(* Every process knows the weights of its own quadrants only.  One         *)
(* allgather tells everybody who owns which stretch of the total weight;   *)
(* the owner of the stretch that contains a cut finds its quadrant and     *)
(* sends it to the two processes on both sides of the cut.                 *)
(*                                                                         *)
(* MPI is modelled by what the standard guarantees: an allgather returns   *)
(* after every process has called it; a nonblocking send may be kept       *)
(* waiting until its receiver has posted the receive.                      *)
(***************************************************************************)
EXTENDS Integers, Sequences, FiniteSets, SequencesExt, Functions

CONSTANTS NumProcs,     \* p4est->mpisize
          WeightInputs  \* what weight_fn returns: for every process the
                        \* sequence of the weights of its quadrants

InputsAssumption ==
  /\ NumProcs \in Nat /\ NumProcs > 1
  /\ WeightInputs \subseteq [0 .. NumProcs - 1 -> Seq(Nat)]

Procs == 0 .. NumProcs - 1
Low   == "low"     \* P4EST_COMM_PARTITION_WEIGHTED_LOW
High  == "high"    \* P4EST_COMM_PARTITION_WEIGHTED_HIGH
None  == -1

VARIABLES
  weights,     \* the weights of the quadrants of every process
  pc,          \* per process: where it is in the function
  weight_sum,  \* per process: its contribution to the first allgather
  net,         \* messages sent and not yet received
  recv,        \* per process: recv_low and recv_high
  qlocal       \* per process: its contribution to the second allgather

vars == << weights, pc, weight_sum, net, recv, qlocal >>

SumSeq(s) == FoldFunction(+, 0, s)

\* p4est_partition_cut_uint64: long double arithmetic, exact below 2^64
PartitionCut(num, p) == (num * p) \div NumProcs

GlobalFirstQuadrant(p) ==
  SumSeq([i \in 1 .. p |-> Len(weights[i - 1])])
GlobalNumQuadrants == GlobalFirstQuadrant(NumProcs)

\* prefix sums of what the allgather delivered
GlobalWeightSums(p) == SumSeq([i \in 1 .. p |-> weight_sum[i - 1]])
TotalWeight         == GlobalWeightSums(NumProcs)
\* local_weights[kl], shifted by the weights of the processes before
LocalWeights(p, kl) == GlobalWeightSums(p) + SumSeq(SubSeq(weights[p], 1, kl))

OwnsCut(p, cut) ==
  GlobalWeightSums(p) < cut /\ cut <= GlobalWeightSums(p + 1)

\* sc_search_lower_bound64: the first position not below the cut
SearchLowerBound(p, cut) ==
  CHOOSE k \in 0 .. Len(weights[p]) :
    /\ LocalWeights(p, k) >= cut
    /\ \A j \in 0 .. k - 1 : LocalWeights(p, j) < cut

\* the cut in front of process NumProcs is the end of the forest
CutIndex(p, i) ==
  IF i < NumProcs
  THEN SearchLowerBound(p, PartitionCut(TotalWeight, i)) + GlobalFirstQuadrant(p)
  ELSE GlobalNumQuadrants

Message(tag, from, to, val) == [ tag |-> tag, from |-> from, to |-> to, val |-> val ]

\* mutant: the process below the cut is not told
Sends_LowOnly(p) ==
  UNION { IF i < NumProcs THEN { Message(Low, p, i, CutIndex(p, i)) } ELSE {}
          : i \in { j \in 1 .. NumProcs : OwnsCut(p, PartitionCut(TotalWeight, j)) } }

Sends(p) ==
  UNION { { Message(High, p, i - 1, CutIndex(p, i)) }
            \union IF i < NumProcs THEN { Message(Low, p, i, CutIndex(p, i)) } ELSE {}
          : i \in { j \in 1 .. NumProcs : OwnsCut(p, PartitionCut(TotalWeight, j)) } }

\* the process a receive is posted for; nothing is received of a cut at zero
CutOf(p, tag)  == PartitionCut(TotalWeight, IF tag = Low THEN p ELSE p + 1)
Source(p, tag) ==
  LET cut == CutOf(p, tag)
  IN  IF cut = 0 THEN None ELSE CHOOSE i \in Procs : OwnsCut(i, cut)

Init ==
  /\ weights \in WeightInputs
  /\ pc = [p \in Procs |-> "weigh"]
  /\ weight_sum = [p \in Procs |-> None]
  /\ net = {}
  /\ recv = [p \in Procs |-> [t \in {Low, High} |-> None]]
  /\ qlocal = [p \in Procs |-> None]

\* sum the weights of all local trees and enter the allgather
Weigh(p) ==
  /\ pc[p] = "weigh"
  /\ weight_sum' = [weight_sum EXCEPT ![p] = SumSeq(weights[p])]
  /\ pc' = [pc EXCEPT ![p] = "sums"]
  /\ UNCHANGED << weights, net, recv, qlocal >>

SumsGathered == \A p \in Procs : weight_sum[p] # None

\* all quadrants have zero weight: the partition stays as it is
NoWeight(p) ==
  /\ pc[p] = "sums" /\ SumsGathered /\ TotalWeight = 0
  /\ pc' = [pc EXCEPT ![p] = "unchanged"]
  /\ UNCHANGED << weights, weight_sum, net, recv, qlocal >>

\* start the sends and the receives
Exchange(p) ==
  /\ pc[p] = "sums" /\ SumsGathered /\ TotalWeight > 0
  /\ net' = net \union Sends(p)
  /\ recv' = [recv EXCEPT ![p] = [t \in {Low, High} |->
                                    IF CutOf(p, t) = 0 THEN 0 ELSE None]]
  /\ pc' = [pc EXCEPT ![p] = "sends"]
  /\ UNCHANGED << weights, weight_sum, qlocal >>

Posted(p) == pc[p] \in { "sends", "receives" }

\* MPI matches a message with the receive posted for its source and tag
Deliver(m) ==
  /\ Posted(m.to) /\ Source(m.to, m.tag) = m.from /\ recv[m.to][m.tag] = None
  /\ recv' = [recv EXCEPT ![m.to][m.tag] = m.val]
  /\ net' = net \ {m}
  /\ UNCHANGED << weights, pc, weight_sum, qlocal >>

QuadrantCount(p) == recv[p][High] - recv[p][Low]

\* the first Waitall: all sends are complete
WaitSends(p) ==
  /\ pc[p] = "sends"
  /\ \A m \in net : m.from # p
  /\ pc' = [pc EXCEPT ![p] = "receives"]
  /\ UNCHANGED << weights, weight_sum, net, recv, qlocal >>

\* the second Waitall, and the allgather of the counts
WaitReceives(p) ==
  /\ pc[p] = "receives"
  /\ \A t \in {Low, High} : recv[p][t] # None
  /\ qlocal' = [qlocal EXCEPT ![p] = QuadrantCount(p)]
  /\ pc' = [pc EXCEPT ![p] = "counts"]
  /\ UNCHANGED << weights, weight_sum, net, recv >>

\* num_quadrants_in_proc is known everywhere
Finish(p) ==
  /\ pc[p] = "counts"
  /\ \A r \in Procs : qlocal[r] # None
  /\ pc' = [pc EXCEPT ![p] = "done"]
  /\ UNCHANGED << weights, weight_sum, net, recv, qlocal >>

Step(p) == \/ Weigh(p) \/ NoWeight(p) \/ Exchange(p)
           \/ WaitSends(p) \/ WaitReceives(p) \/ Finish(p)
Next == (\E p \in Procs : Step(p)) \/ (\E m \in net : Deliver(m))

Spec     == Init /\ [][Next]_vars
\* every process runs, and MPI delivers what has a matching receive
FairSpec == Spec /\ WF_vars(Next)

(***************************************************************************)
(* Properties                                                              *)
(***************************************************************************)
Stopped(p) == pc[p] \in { "done", "unchanged" }
AllDone    == \A p \in Procs : pc[p] = "done"

AllWeights    == FoldLeft(\o, << >>, [i \in 1 .. NumProcs |-> weights[i - 1]])
WeightBelow(k) == SumSeq(SubSeq(AllWeights, 1, k))
\* the reference: the first quadrant index whose weights below reach the cut
ReferenceCut(i) ==
  IF i = NumProcs THEN Len(AllWeights)
  ELSE CHOOSE k \in 0 .. Len(AllWeights) :
         /\ WeightBelow(k) >= PartitionCut(WeightBelow(Len(AllWeights)), i)
         /\ \A j \in 0 .. k - 1 :
              WeightBelow(j) < PartitionCut(WeightBelow(Len(AllWeights)), i)

\* Put together from the processes' partial knowledge, the ranges are those of
\* one process that knows all weights: they cover the forest, in order, without
\* gap or overlap, also with processes that own nothing or no weight.
RangesCorrect ==
  \A p \in Procs : pc[p] \in { "counts", "done" } =>
    recv[p][Low] = ReferenceCut(p) /\ recv[p][High] = ReferenceCut(p + 1)

\* No process gets as much as its share of the weight and one quadrant on top.
Balanced ==
  AllDone =>
    \A p \in Procs :
      LET mine    == WeightBelow(recv[p][High]) - WeightBelow(recv[p][Low])
          heavy   == { AllWeights[k] : k \in 1 .. Len(AllWeights) }
      IN  \E w \in heavy : NumProcs * (mine - w) < TotalWeight

\* Every process has returned, with the right and balanced ranges.
Ended == (\A p \in Procs : Stopped(p)) /\ RangesCorrect /\ Balanced
==============================================================================
