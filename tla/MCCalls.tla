------------------------------- MODULE MCCalls -------------------------------
(* Instances of PartitionWeighted, PartitionCoarsening, Search and            *)
(* ConnectivityUse for TLC.  A behaviour is one call, or for connectivities   *)
(* several (its job); the variables of the others stay idle.                  *)
EXTENDS MCPartitionCoarsening, Search

CONSTANTS MaxLocal,    \* bound: quadrants per process
          MaxWeight,   \* bound: weight of a quadrant
          MaxCount,    \* bound: entries of an array, trees of a process
          MaxKey       \* bound: positions in the Morton order, quadrants of a tree

VARIABLES job,
          weights, stage, weight_sum, recv, qlocal,
          built, conn, todo, joined

MCWeights == { w \in [Procs -> UNION { [1 .. n -> 0 .. MaxWeight] : n \in 0 .. MaxLocal }] :
                 \E p, r \in Procs : w[p] # << >> /\ Len(w[r]) < MaxLocal }    \* not all are full
Weighted == INSTANCE PartitionWeighted WITH WeightInputs <- MCWeights, pc <- stage
ASSUME Weighted!InputsAssumption

Arrays  == UNION { [1 .. n -> 0 .. MaxKey] : n \in 1 .. MaxCount }
Sorted  == { a \in Arrays : \A i \in 1 .. Len(a) - 1 : a[i] <= a[i + 1] }
\* every local tree has quadrants
Counts  == { a \in Arrays : \A i \in 1 .. Len(a) : a[i] > 0 }
UpTo(a, t) == FoldLeft(+, 0, SubSeq(a, 1, t))
MCSearches ==
  UNION { { [ fn |-> f, array |-> a, local_num_quadrants |-> 0, target |-> t, guess |-> g ] :
              f \in { "lower", "higher" }, t \in 0 .. MaxKey + 1, g \in 0 .. Len(a) - 1 }
          : a \in Sorted }
  \union
  UNION { { [ fn |-> "cumulative", array |-> [i \in DOMAIN a |-> UpTo(a, i - 1)],
              local_num_quadrants |-> UpTo(a, Len(a)), target |-> t, guess |-> g ] :
              t \in 0 .. UpTo(a, Len(a)) - 1, g \in 0 .. Len(a) - 1 }
          : a \in Counts }
ASSUME CallsAssumption

Building   == INSTANCE MCConnectivity WITH MAXLEVEL <- 2, PointLevel <- 1, Starts <- {}
Connecting == INSTANCE ConnectivityUse WITH MAXLEVEL <- 2, PointLevel <- 1,
                                            Starts <- Building!MCStarts
ASSUME Connecting!MaxlevelAssumption

weighing   == << weights, stage, weight_sum, recv, qlocal >>
correcting == << input, partition_new, pc, peers, range, correction, result >>
connecting == << built, conn, todo, joined >>

NotWeighing   == /\ weights = << >> /\ stage = << >> /\ weight_sum = << >>
                 /\ recv = << >> /\ qlocal = << >>
NotCorrecting == /\ input = << >> /\ partition_new = << >> /\ pc = [p \in Procs |-> "idle"]
                 /\ peers = << >> /\ range = << >> /\ correction = << >> /\ result = << >>
NotSearching  == call = << >> /\ quad_low = 0 /\ quad_high = 0 /\ guess = 0 /\ found = 0
NotConnecting == built = << >> /\ conn = << >> /\ todo = << >> /\ joined = << >>
OneProcess    == net = {} /\ NotWeighing /\ NotCorrecting

MCInit ==
  \/ job = "weigh"   /\ Weighted!Init /\ NotCorrecting /\ NotSearching /\ NotConnecting
  \/ job = "correct" /\ Init /\ NotWeighing /\ NotSearching /\ NotConnecting
  \/ job = "search"  /\ SearchInit /\ OneProcess /\ NotConnecting
  \/ job = "connect" /\ Connecting!Init /\ OneProcess /\ NotSearching

MCNext ==
  \/ job = "weigh"   /\ Weighted!Next /\ UNCHANGED << job, correcting, searchvars, connecting >>
  \/ job = "correct" /\ Next /\ UNCHANGED << job, weighing, searchvars, connecting >>
  \/ job = "search"  /\ SearchNext
                     /\ UNCHANGED << job, net, weighing, correcting, connecting >>
  \/ job = "connect" /\ Connecting!Next
                     /\ UNCHANGED << job, net, weighing, correcting, searchvars >>

mcvars == << job, net, weighing, correcting, searchvars, connecting >>
\* connectivities are changed when a program likes to
MCSpec == MCInit /\ [][MCNext]_mcvars /\ WF_mcvars(job # "connect" /\ MCNext)

\* Connectivities: the same built in different ways, the touching corners of
\* every tree, and the transforms between trees.
BuiltRight      == job = "connect" => Connecting!BuiltRight
CornersExact    == job = "connect" => Connecting!CornersExact
TransformsAgree == job = "connect" => Connecting!TransformsAgree

\* Every call ends, and with the right result.  No receive waits for a message
\* that nobody sends; the weighted ranges are those of one process that knows
\* all weights; the corrected ones leave every family on one process; a search
\* finds the first or last of equal entries.
CallsEnd == <>(CASE job = "weigh"   -> Weighted!Ended
                 [] job = "correct" -> Ended
                 [] job = "search"  -> SearchEnded
                 [] OTHER -> TRUE)
==============================================================================
