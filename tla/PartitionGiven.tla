---------------------------- MODULE PartitionGiven ---------------------------
(***************************************************************************)
(* p4est_partition_given (src/p4est_algorithms.c): the forest is shipped   *)
(* to a new partition, and the caller's bookkeeping of it in               *)
(* p4est_partition_ext.                                                    *)
(*                                                                         *)
(* Every process works out from the cuts of both partitions which          *)
(* quadrants come and go, posts its receives, packs and sends.  When its   *)
(* receives are complete it rearranges its arrays in place: the part it    *)
(* keeps moves within each tree, the received parts go in around it.  What *)
(* a quadrant holds does not matter here; it is its number in the global   *)
(* order of the forest.  The tree is not part of a quadrant: the messages  *)
(* only count quadrants per tree, from the first tree of the sender on.    *)
(***************************************************************************)
EXTENDS Integers, Sequences, FiniteSets, FiniteSetsExt, Functions, SequencesExt,
        PartitionSearch

CONSTANTS NumProcs, NumTrees,
          Forests   \* which_tree: the tree of each quadrant; now and new: the
                    \* first quadrants of the partition and of the requested
                    \* one, summed up from new_num_quadrants_in_proc

Procs == 0 .. NumProcs - 1
Trees == 0 .. NumTrees - 1

\* cut is a partition of total quadrants
IsPartition(cut, total) ==
  /\ cut \in [0 .. NumProcs -> Nat]
  /\ cut[0] = 0 /\ cut[NumProcs] = total
  /\ \A p \in Procs : cut[p] <= cut[p + 1]

ASSUME SizesAssumption == NumProcs \in Nat \ {0} /\ NumTrees \in Nat \ {0}
\* the trees follow each other in the global order; "Check for a valid
\* requested partition"
ASSUME ForestsAssumption ==
  \A f \in Forests : /\ f.which_tree \in Seq(Trees)
                     /\ \A i \in 2 .. Len(f.which_tree) : f.which_tree[i - 1] <= f.which_tree[i]
                     /\ IsPartition(f.now, Len(f.which_tree))
                     /\ IsPartition(f.new, Len(f.which_tree))

VARIABLES
  input,       \* the forest before and the request
  pc,          \* per process: "post", "wait", "send", "gather", "done"
  plan,        \* per process: num_recv_from and num_send_to
  arriving,    \* per process: quadrants by process they come from and tree
  net,         \* the messages with tag P4EST_COMM_PARTITION_GIVEN
  trees,       \* per process and tree: the array of quadrants
  user_data,   \* per process: the quadrants whose user data is allocated
  local_trees, \* per process: first_local_tree and last_local_tree
  quadrants_offset,       \* per process and tree
  global_first_quadrant,  \* per process: its copy, 0 .. NumProcs
  global_first_position,  \* per process: its copy, tree and first quadrant
  shipped,     \* per process: total_quadrants_shipped
  revision     \* per process

vars == << input, pc, plan, arriving, net, trees, user_data, local_trees, quadrants_offset,
           global_first_quadrant, global_first_position, shipped, revision >>
forest == << trees, user_data, local_trees, quadrants_offset, global_first_quadrant >>

Garbage == "garbage"
\* f[first] + ... + f[last]
Sum(f, first, last) ==
  LET s[n \in Nat] == IF n = 0 THEN 0 ELSE s[n - 1] + f[first + n - 1]
  IN  s[IF first <= last THEN last - first + 1 ELSE 0]
Low(a, b)  == IF a < b THEN a ELSE b
High(a, b) == IF a < b THEN b ELSE a
NumQuadrants == Len(input.which_tree)

(***************************************************************************)
(* The exchange as every process calculates it.                            *)
(***************************************************************************)
now(p) == input.now[p]
new(p) == input.new[p]
\* new_num_quadrants_in_proc
counts(p) == new(p + 1) - new(p)
\* global_last_quad_index and new_global_last_quad_index
LastNow == [p \in Procs |-> now(p + 1) - 1]
LastNew == [p \in Procs |-> new(p + 1) - 1]

FirstOf(last, p) == IF p = 0 THEN 0 ELSE last[p - 1] + 1
\* mutant: the last process of the window is left out
Window_Short(p, last, my_begin, my_end) ==
  LET found == FindPartition(NumProcs, last, my_begin, my_end)
  IN  IF my_begin > my_end THEN {p} ELSE found.begin .. found.end - 1

\* the processes found by binary search that hold a part of my_begin .. my_end
Window(p, last, my_begin, my_end) ==
  LET found == FindPartition(NumProcs, last, my_begin, my_end)
  IN  IF my_begin > my_end THEN {p} ELSE found.begin .. found.end
\* mutant: a process whose last quadrant is the first one of p is overlooked
Overlap_Strict(p, mine, other) ==
  LET my_begin == FirstOf(mine, p)
      my_end   == mine[p]
      window   == Window(p, other, my_begin, my_end)
      begin(r) == FirstOf(other, r)
  IN  [r \in Procs |->
         IF r \in window /\ my_begin <= my_end /\ begin(r) <= my_end /\ other[r] > my_begin
         THEN Low(my_end, other[r]) - High(my_begin, begin(r)) + 1 ELSE 0]

\* how many quadrants of process p under partition mine are those of each
\* process under partition other
Overlap(p, mine, other) ==
  LET my_begin == FirstOf(mine, p)
      my_end   == mine[p]
      window   == Window(p, other, my_begin, my_end)
      begin(r) == FirstOf(other, r)
  IN  [r \in Procs |->
         IF r \in window /\ my_begin <= my_end /\ begin(r) <= my_end /\ other[r] >= my_begin
         THEN Low(my_end, other[r]) - High(my_begin, begin(r)) + 1 ELSE 0]

\* quadrants shipped to process p from below, or to p - 1 from above
ShippedAcross(p) ==
  LET diff64 == LastNow[p - 1] - LastNew[p - 1]
  IN  IF diff64 >= 0 THEN Low(diff64, counts(p))
      ELSE Low(- diff64, counts(p - 1))
TotalShipped == Sum([p \in 1 .. NumProcs - 1 |-> ShippedAcross(p)], 1, NumProcs - 1)

(***************************************************************************)
(* Packing.                                                                *)
(***************************************************************************)
Span(p)     == local_trees[p][1] .. local_trees[p][2]
Elements(p) == [t \in Trees |-> Len(trees[p][t])]
\* where a tree begins and ends among the local quadrants
TreeBegin(p, t) == Sum(Elements(p), local_trees[p][1], t - 1)
TreeEnd(p, t)   == TreeBegin(p, t) + Len(trees[p][t]) - 1
\* local quadrant i
LocalQuad(p, i) ==
  LET t == CHOOSE s \in Span(p) : TreeBegin(p, s) <= i /\ i <= TreeEnd(p, s)
  IN  trees[p][t][i - TreeBegin(p, t) + 1]
\* positions in tree t of those of the local quadrants first .. last
InTree(p, t, first, last) ==
  High(first, TreeBegin(p, t)) - TreeBegin(p, t) .. Low(last, TreeEnd(p, t)) - TreeBegin(p, t)

SendBegin(p, to) == High(now(p), FirstOf(LastNew, to)) - now(p)

NumSendTrees(p)  == global_first_position[p][p + 1].which_tree
                      - global_first_position[p][p].which_tree + 1
\* num_per_tree_send_buf, num_per_tree_local
PerTree(p, first, last) ==
  [it \in 0 .. NumSendTrees(p) - 1 |->
     IF local_trees[p][1] + it \in Span(p)
     THEN Cardinality(InTree(p, local_trees[p][1] + it, first, last)) ELSE 0]

Message(p, to, num) ==
  LET first == SendBegin(p, to)
      \* what is copied of the trees goes behind each other, and my_begin moves on with it
  IN  [ from |-> p, to |-> to, per_tree |-> PerTree(p, first, first + num - 1),
        quads |-> [k \in 1 .. num |-> LocalQuad(p, first + k - 1)] ]

\* the quadrants first .. last that are of tree t, in order
PartOfTree(first, last, t) ==
  LET part == { i \in first .. last : input.which_tree[i + 1] = t }
  IN  [k \in 1 .. Cardinality(part) |-> Min(part) + k - 1]

Init ==
  /\ input \in Forests
  /\ pc = [p \in Procs |-> "post"]
  /\ arriving = [p \in Procs |-> << >>]
  /\ plan = [p \in Procs |-> [ num_recv_from |-> << >>, num_send_to |-> << >> ]]
  /\ net = {}
  /\ trees = [p \in Procs |-> [t \in Trees |->
               PartOfTree(now(p), now(p + 1) - 1, t)]]
  /\ user_data = [p \in Procs |-> now(p) .. now(p + 1) - 1]
  /\ local_trees = [p \in Procs |->
       IF now(p) = now(p + 1) THEN << -1, -2 >>
       ELSE << input.which_tree[now(p) + 1], input.which_tree[now(p + 1)] >>]
  /\ quadrants_offset = [p \in Procs |-> [t \in Trees |->
       Cardinality({ i \in now(p) .. now(p + 1) - 1 : input.which_tree[i + 1] < t })]]
  /\ global_first_quadrant = [p \in Procs |-> input.now]
  /\ global_first_position = [p \in Procs |-> [r \in 0 .. NumProcs |->
       IF now(r) = NumQuadrants THEN [ which_tree |-> NumTrees, quad |-> NumQuadrants ]
       ELSE [ which_tree |-> input.which_tree[now(r) + 1], quad |-> now(r) ]]]
  /\ shipped = [p \in Procs |-> 0]
  /\ revision = [p \in Procs |-> 0]

\* post the receives, pack and send
Post(p) ==
  /\ pc[p] = "post"
  /\ plan' = [plan EXCEPT ![p] = [ num_recv_from |-> Overlap(p, LastNew, LastNow),
                                   num_send_to   |-> Overlap(p, LastNow, LastNew) ]]
  /\ net' = net \union { Message(p, to, plan'[p].num_send_to[to]) :
                          to \in { r \in Procs \ {p} : plan'[p].num_send_to[r] > 0 } }
  /\ shipped' = [shipped EXCEPT ![p] = TotalShipped]
  /\ pc' = [pc EXCEPT ![p] = "wait"]
  /\ UNCHANGED << input, arriving, forest, global_first_position, revision >>

(***************************************************************************)
(* Filling in the forest.                                                  *)
(***************************************************************************)
Received(p, from) == CHOOSE m \in net : m.from = from /\ m.to = p
\* what stays with process p, as local quadrants
KeepBegin(p) == SendBegin(p, p)
KeepEnd(p)   == SendBegin(p, p) + plan[p].num_send_to[p] - 1
Kept(p, t) ==
  IF plan[p].num_send_to[p] > 0 /\ t \in Span(p)
  THEN InTree(p, t, KeepBegin(p), KeepEnd(p)) ELSE {}

\* num_per_tree_recv_buf: what arrives from process from, with the trees
\* counted from the first tree of that process
CountsFrom(p, from) ==
  IF plan[p].num_recv_from[from] = 0 THEN << >>
  ELSE IF from = p THEN PerTree(p, KeepBegin(p), KeepEnd(p))
  ELSE Received(p, from).per_tree
Arriving(p) ==
  [from \in Procs |-> [t \in Trees |->
     LET it == t - global_first_position[p][from].which_tree
     IN  IF it \in DOMAIN CountsFrom(p, from) THEN CountsFrom(p, from)[it] ELSE 0]]
\* quadrants of tree t from the processes below from
Before(table, from, t) == Sum([r \in Procs |-> table[r][t]], 0, from - 1)
NewCount(table, t)     == Before(table, NumProcs, t)

\* mutant: the kept part is left where it was
MovedTo_Stays(p, t, before, k) ==
  IF k <= Len(trees[p][t]) THEN trees[p][t][k] ELSE Garbage

\* entry k of the array after the kept part was moved to where it now belongs
MovedTo(p, t, before, k) ==
  IF Kept(p, t) # {} /\ before < k /\ k <= before + Cardinality(Kept(p, t))
  THEN trees[p][t][Min(Kept(p, t)) + k - before]
  ELSE IF k <= Len(trees[p][t]) THEN trees[p][t][k] ELSE Garbage

\* the array of tree t with the kept part moved and the received parts copied in
Filled(p, t, table) ==
  LET before    == [from \in Procs |-> Before(table, from, t)]
      source(k) == { from \in Procs \ {p} : before[from] < k /\ k <= before[from] + table[from][t] }
      copied(k, from) == Received(p, from).quads[Sum(table[from], 0, t - 1) + k - before[from]]
  IN  [k \in 1 .. NewCount(table, t) |->
         IF source(k) = {} THEN MovedTo(p, t, before[p], k)
         ELSE copied(k, CHOOSE from \in source(k) : TRUE)]

\* the quadrants of tree t that no longer belong to this process
Freed(p, t, table) ==
  { trees[p][t][k + 1] : k \in (0 .. Len(trees[p][t]) - 1) \ Kept(p, t) }

LocalTreesOf(elements) ==
  LET used == { t \in Trees : elements[t] > 0 }
  IN  IF used = {} THEN << -1, -2 >> ELSE << Min(used), Max(used) >>
OffsetsOf(elements) ==
  LET local == LocalTreesOf(elements)
  IN  [t \in Trees |-> IF t < local[1] THEN 0 ELSE Sum(elements, local[1], Low(t - 1, local[2]))]

\* all receives are complete
Fill(p) ==
  /\ pc[p] = "wait"
  /\ \A r \in Procs \ {p} : plan[p].num_recv_from[r] > 0 =>
       \E m \in net : m.from = r /\ m.to = p
  /\ arriving' = [arriving EXCEPT ![p] = Arriving(p)]
  /\ trees' = [trees EXCEPT ![p] = [t \in Trees |-> Filled(p, t, arriving'[p])]]
  /\ user_data' = [user_data EXCEPT ![p] =
       (@ \ UNION { Freed(p, t, arriving'[p]) : t \in Span(p) })
          \union UNION { ToSet(m.quads) : m \in { n \in net : n.to = p } }]
  /\ LET elements == [t \in Trees |-> NewCount(arriving'[p], t)]
     IN  /\ local_trees' = [local_trees EXCEPT ![p] = LocalTreesOf(elements)]
         /\ quadrants_offset' = [quadrants_offset EXCEPT ![p] = OffsetsOf(elements)]
  /\ global_first_quadrant' = [global_first_quadrant EXCEPT ![p] =
       [r \in 0 .. NumProcs |-> IF r = 0 THEN @[0] ELSE LastNew[r - 1] + 1]]
  /\ net' = { m \in net : m.to # p }
  /\ pc' = [pc EXCEPT ![p] = "send"]
  /\ UNCHANGED << input, plan, global_first_position, shipped, revision >>

(***************************************************************************)
(* p4est_comm_global_partition and the end of p4est_partition_ext.         *)
(***************************************************************************)
\* the sends are complete; the process enters the allgather
Enter(p) ==
  /\ pc[p] = "send"
  /\ \A m \in net : m.from # p
  /\ pc' = [pc EXCEPT ![p] = "gather"]
  /\ UNCHANGED << input, plan, arriving, net, forest, global_first_position,
                  shipped, revision >>

\* the first process from r on that has sent a position and not negative values
WithQuadrants(r) == Min({ i \in r .. NumProcs - 1 : local_trees[i][1] >= 0 } \union {NumProcs})

\* mutant: an empty process gets the position behind the last process
PositionOf_Last(r) ==
  IF r = NumProcs \/ local_trees[r][1] < 0
  THEN [ which_tree |-> NumTrees, quad |-> NumQuadrants ]
  ELSE [ which_tree |-> local_trees[r][1], quad |-> trees[r][local_trees[r][1]][1] ]

\* the position of an empty process is that of the process behind it
PositionOf(r) ==
  LET i == WithQuadrants(r)
  IN  IF i = NumProcs THEN [ which_tree |-> NumTrees, quad |-> NumQuadrants ]
      ELSE [ which_tree |-> local_trees[i][1], quad |-> trees[i][local_trees[i][1]][1] ]

Gather(p) ==
  /\ pc[p] = "gather"
  /\ \A r \in Procs : pc[r] \in { "gather", "done" }
  /\ global_first_position' = [global_first_position EXCEPT ![p] =
       [r \in 0 .. NumProcs |-> PositionOf(r)]]
  /\ revision' = [revision EXCEPT ![p] = IF shipped[p] > 0 THEN @ + 1 ELSE @]
  /\ pc' = [pc EXCEPT ![p] = "done"]
  /\ UNCHANGED << input, plan, arriving, net, forest, shipped >>

Next == \E p \in Procs : Post(p) \/ Fill(p) \/ Enter(p) \/ Gather(p)

Spec     == Init /\ [][Next]_vars
\* every process runs on while it is not waiting
FairSpec == Spec /\ \A p \in Procs : WF_vars(Post(p) \/ Fill(p) \/ Enter(p) \/ Gather(p))

(***************************************************************************)
(* Properties                                                              *)
(***************************************************************************)
\* What one process counts on receiving is what the other one sends, though
\* each finds its window on its own; and it is the plain intersection of the
\* ranges (the "old calculation method" of the debug code).
SendsMatchReceives ==
  \A p, r \in Procs :
    /\ (pc[p] # "post" /\ pc[r] # "post") =>
          plan[p].num_send_to[r] = plan[r].num_recv_from[p]
    /\ pc[p] # "post" =>
          plan[p].num_send_to[r] = Cardinality((now(p) .. now(p + 1) - 1)
                                                 \intersect (new(r) .. new(r + 1) - 1))

\* No process waits for a message that was not sent: what it expects of a
\* process that has sent is there.
EveryReceiveServed ==
  \A p, r \in Procs :
    (p # r /\ pc[p] = "wait" /\ pc[r] # "post" /\ plan[p].num_recv_from[r] > 0) =>
      \E m \in net : m.from = r /\ m.to = p

Stored(p) == UNION { ToSet(trees[p][t]) : t \in Trees }

\* A process that has filled in its part holds exactly its range of the new
\* partition, every quadrant in its tree and in order: no entry is garbage or
\* overwritten, none is counted to another tree than the sender took it from.
\* Exactly the quadrants of a process have user data at any time: none is
\* leaked, freed twice or left pointing to what was freed.
PartsCorrect ==
  \A p \in Procs :
    /\ pc[p] \in { "send", "gather", "done" } =>
         \A t \in Trees : trees[p][t] = PartOfTree(new(p), new(p + 1) - 1, t)
    /\ user_data[p] = Stored(p)


\* In the end the processes agree on where the new partition is cut, and the
\* counts that go with the arrays fit them.
BoundariesAgree ==
  \A p \in Procs :
    /\ pc[p] \in { "send", "gather", "done" } =>
         /\ global_first_quadrant[p] = [r \in 0 .. NumProcs |-> new(r)]
         /\ Span(p) = { t \in Trees : \E s, u \in Trees :
                          s <= t /\ t <= u /\ trees[p][s] # << >> /\ trees[p][u] # << >> }
         /\ \A t \in Span(p) : quadrants_offset[p][t] = TreeBegin(p, t)
    /\ pc[p] = "done" => \A r \in 0 .. NumProcs :
         global_first_position[p][r] =
           IF new(r) = NumQuadrants THEN [ which_tree |-> NumTrees, quad |-> NumQuadrants ]
           ELSE [ which_tree |-> input.which_tree[new(r) + 1], quad |-> new(r) ]

\* The returned number is that of the quadrants whose owner has changed, on
\* every process; the revision counts a change if there was one.
ShippedCorrect ==
  \A p \in Procs :
    LET owner(cut, i) == CHOOSE r \in Procs : cut[r] <= i /\ i < cut[r + 1]
        moved == { i \in 0 .. NumQuadrants - 1 : owner(input.now, i) # owner(input.new, i) }
    IN  /\ pc[p] # "post" => shipped[p] = Cardinality(moved)
        /\ pc[p] = "done" => (revision[p] = 1 <=> moved # {})

\* Every process returns, for each receive has its send, and all agree then.
EndsAgreed == <>((\A p \in Procs : pc[p] = "done") /\ BoundariesAgree /\ ShippedCorrect)
==============================================================================
