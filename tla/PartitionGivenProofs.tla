------------------------- MODULE PartitionGivenProofs ------------------------
(***************************************************************************)
(* Proofs about PartitionGiven, for every number of processes, every       *)
(* forest and every request: the processes agree on what is exchanged      *)
(* without having talked about it, none waits for what is not sent, every  *)
(* process ends with exactly its part in order, and all agree on the new   *)
(* partition and on how much of the forest has changed hands.              *)
(*                                                                         *)
(* And about Transfer, for every two partitions and all sizes: data        *)
(* arrives where its quadrants are, and none waits for it in vain.         *)
(***************************************************************************)
EXTENDS PartitionGiven, SequenceTheorems, FiniteSetTheorems, TLAPS

CONSTANT Inputs
VARIABLES step, requests, data, wire

Tr == INSTANCE Transfer WITH pc <- step, net <- wire

USE SizesAssumption DEF Procs

(***************************************************************************)
(* Sums.  A recursive function is a choice to the prover: that there is    *)
(* one comes first, its two equations follow from it.                      *)
(***************************************************************************)
\* g has the sums of the first m values of f and of fewer
AddsUp(f, first, g, m) ==
  \A n \in 0 .. m : g[n] = IF n = 0 THEN 0 ELSE g[n - 1] + f[first + n - 1]

(* There is a table of the sums up to any length. *)
LEMMA SumsUpTo ==
  ASSUME NEW f, NEW first
  PROVE  \A m \in Nat : \E g : AddsUp(f, first, g, m)
<1> DEFINE S == { m \in Nat : \E g : AddsUp(f, first, g, m) }
<1>1. 0 \in S
  <2>1. AddsUp(f, first, [n \in 0 .. 0 |-> 0], 0)
    BY DEF AddsUp
  <2> QED
    BY <2>1
<1>2. ASSUME NEW m \in Nat, m \in S PROVE m + 1 \in S
  <2>1. PICK g : AddsUp(f, first, g, m)
    BY <1>2
  <2> DEFINE h == [n \in 0 .. m + 1 |-> IF n <= m THEN g[n] ELSE g[m] + f[first + (m + 1) - 1]]
  <2>2. ASSUME NEW n \in 0 .. m + 1
        PROVE  h[n] = IF n = 0 THEN 0 ELSE h[n - 1] + f[first + n - 1]
    <3>1. CASE n = m + 1
      <4>1. h[n] = g[m] + f[first + (m + 1) - 1] /\ h[n - 1] = g[m]
        BY <3>1
      <4> QED
        BY <3>1, <4>1
    <3>2. CASE n # m + 1
      <4>1. n \in 0 .. m /\ h[n] = g[n] /\ (n # 0 => h[n - 1] = g[n - 1])
        BY <3>2
      <4>2. g[n] = IF n = 0 THEN 0 ELSE g[n - 1] + f[first + n - 1]
        BY <2>1, <4>1 DEF AddsUp
      <4> QED
        BY <4>1, <4>2
    <3> QED
      BY <3>1, <3>2
  <2> HIDE DEF h
  <2>3. AddsUp(f, first, h, m + 1)
    BY <2>2 DEF AddsUp
  <2> QED
    BY <2>3
<1> HIDE DEF S
<1>3. \A m \in Nat : m \in S
  BY <1>1, <1>2, NatSetInduction, Zenon
<1> QED
  BY <1>3 DEF S

(* Two such tables agree as far as both reach. *)
LEMMA SumsUnique ==
  ASSUME NEW f, NEW first, NEW m \in Nat, NEW g, NEW h, NEW l \in Nat, m <= l,
         AddsUp(f, first, g, m), AddsUp(f, first, h, l)
  PROVE  g[m] = h[m]
<1> DEFINE S == { n \in Nat : n <= m => g[n] = h[n] }
<1>1. 0 \in S
  BY DEF AddsUp
<1>2. ASSUME NEW n \in Nat, n \in S PROVE n + 1 \in S
  <2> SUFFICES ASSUME n + 1 <= m PROVE g[n + 1] = h[n + 1]
    OBVIOUS
  <2>1. g[n + 1] = g[n] + f[first + (n + 1) - 1] /\ h[n + 1] = h[n] + f[first + (n + 1) - 1]
    <3>1. n + 1 \in 0 .. m /\ n + 1 \in 0 .. l /\ n + 1 # 0 /\ (n + 1) - 1 = n
      OBVIOUS
    <3> QED
      BY <3>1 DEF AddsUp
  <2>2. g[n] = h[n]
    BY <1>2
  <2> QED
    BY <2>1, <2>2
<1> HIDE DEF S
<1>3. m \in S
  BY <1>1, <1>2, NatSetInduction
<1> QED
  BY <1>3 DEF S

\* s has them all
AllSums(f, first, s) ==
  s = [n \in Nat |-> IF n = 0 THEN 0 ELSE s[n - 1] + f[first + n - 1]]

(* So there is the function of all sums. *)
LEMMA SumsExist ==
  ASSUME NEW f, NEW first
  PROVE  \E s : AllSums(f, first, s)
<1> DEFINE G(m) == CHOOSE g : AddsUp(f, first, g, m)
           s == [n \in Nat |-> G(n)[n]]
<1>1. ASSUME NEW m \in Nat PROVE AddsUp(f, first, G(m), m)
  BY SumsUpTo
<1> HIDE DEF G
<1>2. ASSUME NEW n \in Nat
      PROVE  G(n)[n] = IF n = 0 THEN 0 ELSE s[n - 1] + f[first + n - 1]
  <2>1. G(n)[n] = IF n = 0 THEN 0 ELSE G(n)[n - 1] + f[first + n - 1]
    <3>1. n \in 0 .. n
      OBVIOUS
    <3> QED
      BY <1>1, <3>1 DEF AddsUp
  <2>2. CASE n # 0
    <3>1. n - 1 \in Nat /\ n - 1 <= n
      BY <2>2
    <3>2. G(n - 1)[n - 1] = G(n)[n - 1]
      BY <1>1, <3>1, SumsUnique
    <3>3. s[n - 1] = G(n - 1)[n - 1]
      BY <3>1
    <3> QED
      BY <2>1, <2>2, <3>2, <3>3
  <2> QED
    BY <2>1, <2>2
<1>3. s = [n \in Nat |-> IF n = 0 THEN 0 ELSE s[n - 1] + f[first + n - 1]]
  BY <1>2
<1> QED
  BY <1>3 DEF AllSums

(* An empty sum is 0, and a longer one adds one value to a shorter one. *)
LEMMA SumSteps ==
  ASSUME NEW f, NEW first \in Int
  PROVE  /\ \A last \in Int : last < first => Sum(f, first, last) = 0
         /\ \A last \in Int : first <= last =>
              Sum(f, first, last) = Sum(f, first, last - 1) + f[last]
<1> DEFINE e == CHOOSE s : AllSums(f, first, s)
<1>1. AllSums(f, first, e)
  BY SumsExist
<1>2. \A last : Sum(f, first, last) = e[IF first <= last THEN last - first + 1 ELSE 0]
  BY DEF Sum, AllSums
<1> HIDE DEF e
<1>3. e[0] = 0 /\ \A n \in Nat : n # 0 => e[n] = e[n - 1] + f[first + n - 1]
  BY <1>1 DEF AllSums
<1>4. ASSUME NEW last \in Int, last < first PROVE Sum(f, first, last) = 0
  <2>1. ~ (first <= last)
    BY <1>4
  <2> QED
    BY <1>2, <1>3, <2>1
<1>5. ASSUME NEW last \in Int, first <= last
      PROVE  Sum(f, first, last) = Sum(f, first, last - 1) + f[last]
  <2>1. last - first + 1 \in Nat /\ last - first + 1 # 0 /\ first + (last - first + 1) - 1 = last
    BY <1>5
  <2>2. e[last - first + 1] = e[(last - first + 1) - 1] + f[last]
    BY <1>3, <2>1
  <2>3. (IF first <= last - 1 THEN (last - 1) - first + 1 ELSE 0) = (last - first + 1) - 1
    BY <1>5
  <2>4. Sum(f, first, last - 1) = e[(last - first + 1) - 1]
    BY <1>2, <2>3
  <2>5. Sum(f, first, last) = e[last - first + 1]
    BY <1>2, <1>5
  <2> QED
    BY <2>2, <2>4, <2>5
<1> QED
  BY <1>4, <1>5

\* Sums of differences telescope.
LEMMA Telescope ==
  ASSUME NEW f, NEW h, NEW first \in Int, NEW last \in Int, first <= last + 1,
         \A i \in first .. last + 1 : h[i] \in Int,
         \A i \in first .. last : f[i] = h[i + 1] - h[i]
  PROVE  Sum(f, first, last) = h[last + 1] - h[first]
<1> DEFINE S == { n \in Nat : first + n <= last + 1 =>
                    Sum(f, first, first + n - 1) = h[first + n] - h[first] }
<1>1. 0 \in S
  <2>1. Sum(f, first, first - 1) = 0
    <3>1. first - 1 \in Int /\ first - 1 < first
      OBVIOUS
    <3> QED
      BY <3>1, SumSteps
  <2>2. first + 0 - 1 = first - 1 /\ first + 0 = first /\ h[first] \in Int
    OBVIOUS
  <2> QED
    BY <2>1, <2>2
<1>2. ASSUME NEW n \in Nat, n \in S PROVE n + 1 \in S
  <2> SUFFICES ASSUME first + (n + 1) <= last + 1
               PROVE  Sum(f, first, first + (n + 1) - 1) = h[first + (n + 1)] - h[first]
    OBVIOUS
  <2> DEFINE i == first + n
  <2>1. i \in first .. last /\ i + 1 \in first .. last + 1 /\ first <= i
        /\ first + (n + 1) - 1 = i /\ first + n - 1 = i - 1 /\ first + (n + 1) = i + 1
        /\ first \in first .. last + 1 /\ i \in Int /\ i \in first .. last + 1
    OBVIOUS
  <2>2. Sum(f, first, i - 1) = h[i] - h[first]
    BY <1>2, <2>1
  <2> HIDE DEF i
  <2>3. Sum(f, first, i) = Sum(f, first, i - 1) + f[i]
    BY <2>1, SumSteps
  <2>4. f[i] = h[i + 1] - h[i] /\ h[i] \in Int /\ h[i + 1] \in Int /\ h[first] \in Int
    BY <2>1
  <2> QED
    BY <2>1, <2>2, <2>3, <2>4
<1> HIDE DEF S
<1>3. last + 1 - first \in Nat
  OBVIOUS
<1>4. last + 1 - first \in S
  BY <1>1, <1>2, <1>3, NatSetInduction
<1>5. first + (last + 1 - first) = last + 1 /\ first + (last + 1 - first) - 1 = last
  OBVIOUS
<1> QED
  BY <1>4, <1>5 DEF S

(***************************************************************************)
(* Partitions.                                                             *)
(***************************************************************************)
\* global_last_quad_index of a partition
LastOf(cut) == [p \in Procs |-> cut[p + 1] - 1]

\* The cuts are ordered, also those of processes that are not neighbours.
LEMMA CutsOrdered ==
  ASSUME NEW total, NEW cut, IsPartition(cut, total)
  PROVE  \A i, j \in 0 .. NumProcs : i <= j => cut[i] <= cut[j]
<1> DEFINE S == { k \in Nat : \A i \in 0 .. NumProcs :
                                i + k <= NumProcs => cut[i] <= cut[i + k] }
<1>1. cut \in [0 .. NumProcs -> Nat] /\ \A p \in Procs : cut[p] <= cut[p + 1]
  BY DEF IsPartition
<1>2. 0 \in S
  BY <1>1
<1>3. ASSUME NEW k \in Nat, k \in S PROVE k + 1 \in S
  <2> SUFFICES ASSUME NEW i \in 0 .. NumProcs, i + (k + 1) <= NumProcs
               PROVE  cut[i] <= cut[i + (k + 1)]
    OBVIOUS
  <2>1. cut[i] <= cut[i + k]
    BY <1>3
  <2>2. i + k \in Procs /\ i + (k + 1) \in 0 .. NumProcs /\ i + (k + 1) = (i + k) + 1
    OBVIOUS
  <2>3. cut[i + k] <= cut[i + (k + 1)]
    BY <1>1, <2>2
  <2>4. cut[i] \in Nat /\ cut[i + k] \in Nat /\ cut[i + (k + 1)] \in Nat
    BY <1>1, <2>2
  <2> QED
    BY <2>1, <2>3, <2>4
<1> HIDE DEF S
<1>4. \A k \in Nat : k \in S
  BY <1>2, <1>3, NatSetInduction, Zenon
<1>5. ASSUME NEW i \in 0 .. NumProcs, NEW j \in 0 .. NumProcs, i <= j
      PROVE  cut[i] <= cut[j]
  <2>1. j - i \in Nat /\ i + (j - i) = j
    BY <1>5
  <2>2. j - i \in S
    BY <1>4, <2>1
  <2> QED
    BY <2>1, <2>2 DEF S
<1> QED
  BY <1>5

(***************************************************************************)
(* The exchange.                                                           *)
(***************************************************************************)
\* How many quadrants of process p under partition a are those of process r
\* under partition b.
Common(a, p, b, r) ==
  LET from == High(a[p], b[r])
      to   == Low(a[p + 1], b[r + 1])
  IN  IF from < to THEN to - from ELSE 0

(* The first quadrant of a process, computed from the last of its predecessor, is its cut. *)
LEMMA FirstIsCut ==
  ASSUME NEW total, NEW cut, IsPartition(cut, total), NEW p \in Procs
  PROVE  FirstOf(LastOf(cut), p) = cut[p]
<1>1. CASE p = 0
  BY <1>1 DEF FirstOf, IsPartition
<1>2. CASE p # 0
  <2>1. p - 1 \in Procs /\ (p - 1) + 1 = p
    BY <1>2
  <2>2. LastOf(cut)[p - 1] = cut[p] - 1 /\ cut[p] \in Nat
    BY <2>1 DEF LastOf, IsPartition
  <2> QED
    BY <1>2, <2>2 DEF FirstOf
<1> QED
  BY <1>1, <1>2

\* Beyond the window there is nothing in common, within it the count is right.
LEMMA OverlapIsCommon ==
  ASSUME NEW total, NEW a, IsPartition(a, total), NEW b, IsPartition(b, total),
         NEW p \in Procs, NEW r \in Procs
  PROVE  Overlap(p, LastOf(a), LastOf(b))[r] = Common(a, p, b, r)
<1> DEFINE my_begin == a[p]
           my_end   == a[p + 1] - 1
           last     == LastOf(b)
           found    == FindPartition(NumProcs, last, my_begin, my_end)
<1>1. /\ p + 1 \in 0 .. NumProcs /\ r + 1 \in 0 .. NumProcs
      /\ a[p] \in Nat /\ a[p + 1] \in Nat /\ b[r] \in Nat /\ b[r + 1] \in Nat
      /\ a[p] <= a[p + 1] /\ b[r] <= b[r + 1]
  BY DEF IsPartition
<1>2. FirstOf(LastOf(a), p) = my_begin /\ FirstOf(LastOf(b), r) = b[r]
  BY FirstIsCut
<1>3. LastOf(a)[p] = my_end /\ last[r] = b[r + 1] - 1
  BY DEF LastOf
<1>4. Overlap(p, LastOf(a), LastOf(b))[r] =
        IF /\ r \in Window(p, last, my_begin, my_end) /\ my_begin <= my_end
           /\ b[r] <= my_end /\ b[r + 1] - 1 >= my_begin
        THEN Low(my_end, b[r + 1] - 1) - High(my_begin, b[r]) + 1 ELSE 0
  BY <1>2, <1>3 DEF Overlap
<1>5. CASE my_begin > my_end
  BY <1>1, <1>4, <1>5 DEF Common, High, Low
<1>6. CASE my_begin <= my_end
  <2>1. last \in [0 .. NumProcs - 1 -> Int]
    BY DEF LastOf, IsPartition
  <2>2. /\ found.begin \in 0 .. NumProcs /\ found.end \in 0 .. NumProcs
        /\ \A i \in 0 .. NumProcs - 1 : i < found.begin => last[i] < my_begin
        /\ found.end < NumProcs => last[found.end] >= my_end
    <3> HIDE DEF my_begin, my_end, last
    <3>1. my_begin \in Int /\ my_end \in Int
      BY <1>1 DEF my_begin, my_end
    <3> QED
      BY <1>6, <2>1, <3>1, WindowEnds DEF found
  <2>3. Window(p, last, my_begin, my_end) = found.begin .. found.end
    <3> HIDE DEF my_begin, my_end, last
    <3>1. my_begin \in Int /\ my_end \in Int
      BY <1>1 DEF my_begin, my_end
    <3>2. ~ (my_begin > my_end)
      BY <1>6, <3>1
    <3> QED
      BY <3>2, Zenon DEF Window, found
  <2>4. CASE r \in found.begin .. found.end
    <3>1. Overlap(p, LastOf(a), LastOf(b))[r] =
            IF b[r] <= my_end /\ b[r + 1] - 1 >= my_begin
            THEN Low(my_end, b[r + 1] - 1) - High(my_begin, b[r]) + 1 ELSE 0
      BY <1>4, <1>6, <2>3, <2>4
    <3> QED
      BY <1>1, <1>6, <3>1 DEF Common, High, Low
  <2>5. CASE r \notin found.begin .. found.end
    <3>1. Overlap(p, LastOf(a), LastOf(b))[r] = 0
      BY <1>4, <2>3, <2>5
    <3>2. CASE r < found.begin
      <4>1. b[r + 1] - 1 < my_begin
        BY <1>3, <2>2, <3>2
      <4> QED
        BY <1>1, <3>1, <4>1 DEF Common, High, Low
    <3>3. CASE r > found.end
      <4>1. found.end \in Procs /\ found.end + 1 \in 0 .. NumProcs /\ found.end + 1 <= r
        BY <2>2, <3>3
      <4>2. last[found.end] = b[found.end + 1] - 1 /\ b[found.end + 1] \in Nat
        BY <4>1 DEF LastOf, IsPartition
      <4>3. b[found.end + 1] <= b[r]
        BY <4>1, CutsOrdered
      <4>4. last[found.end] >= my_end
        BY <2>2, <4>1
      <4>5. b[r] > my_end
        BY <1>1, <4>2, <4>3, <4>4
      <4> QED
        BY <1>1, <3>1, <4>5 DEF Common, High, Low
    <3> QED
      BY <2>2, <2>5, <3>2, <3>3
  <2> QED
    BY <2>4, <2>5
<1> QED
  BY <1>1, <1>5, <1>6

\* The two sides of an exchange agree.
LEMMA CommonIsSymmetric ==
  ASSUME NEW total, NEW a, IsPartition(a, total), NEW b, IsPartition(b, total),
         NEW p \in Procs, NEW r \in Procs
  PROVE  Common(a, p, b, r) = Common(b, r, a, p)
<1>1. /\ a[p] \in Nat /\ a[p + 1] \in Nat /\ b[r] \in Nat /\ b[r + 1] \in Nat
  BY DEF IsPartition
<1> QED
  BY <1>1 DEF Common, High, Low

\* They count the quadrants in both ranges.
LEMMA CommonIsIntersection ==
  ASSUME NEW total, NEW a, IsPartition(a, total), NEW b, IsPartition(b, total),
         NEW p \in Procs, NEW r \in Procs
  PROVE  Common(a, p, b, r) =
           Cardinality((a[p] .. a[p + 1] - 1) \intersect (b[r] .. b[r + 1] - 1))
<1> DEFINE from == High(a[p], b[r])
           to   == Low(a[p + 1], b[r + 1]) - 1
<1>1. /\ a[p] \in Nat /\ a[p + 1] \in Nat /\ b[r] \in Nat /\ b[r + 1] \in Nat
  BY DEF IsPartition
<1>2. from \in Int /\ to \in Int
  BY <1>1 DEF High, Low
<1>3. (a[p] .. a[p + 1] - 1) \intersect (b[r] .. b[r + 1] - 1) = from .. to
  BY <1>1 DEF High, Low
<1>4. Cardinality(from .. to) = IF from > to THEN 0 ELSE to - from + 1
  <2> HIDE DEF from, to
  <2> QED
    BY <1>2, FS_Interval
<1>5. Common(a, p, b, r) = IF from > to THEN 0 ELSE to - from + 1
  BY <1>1 DEF Common, High, Low
<1> QED
  BY <1>3, <1>4, <1>5

(***************************************************************************)
(* The invariant: every process that has posted its receives has planned   *)
(* from the common input, and a message is on its way between two          *)
(* processes exactly from the one's sending to the other's filling in.     *)
(***************************************************************************)
PcType == pc \in [Procs -> { "post", "wait", "send", "gather", "done" }]

PlanOf(f, p) == [ num_recv_from |-> Overlap(p, LastOf(f.new), LastOf(f.now)),
                  num_send_to   |-> Overlap(p, LastOf(f.now), LastOf(f.new)) ]
Planned ==
  /\ input \in Forests
  /\ plan = [p \in Procs |-> plan[p]]
  /\ \A p \in Procs : pc[p] # "post" => plan[p] = PlanOf(input, p)

InTransit ==
  \A p, r \in Procs :
    (p # r /\ pc[p] # "post" /\ pc[r] \in { "post", "wait" } /\ plan[p].num_send_to[r] > 0)
      => \E m \in net : m.from = p /\ m.to = r

IInv == PcType /\ Planned /\ InTransit

(* Before anything is posted the invariant holds. *)
LEMMA InitIInv == Init => IInv
  BY DEF Init, IInv, PcType, Planned, InTransit

(* The two arrays of last quadrants are functions of the input. *)
LEMMA LastsOfInput == LastNow = LastOf(input.now) /\ LastNew = LastOf(input.new)
  BY DEF LastNow, LastNew, LastOf, now, new

(* No step leaves the five places a process can be at. *)
LEMMA NextPcType == ASSUME PcType, [Next]_vars PROVE PcType'
  BY DEF PcType, Next, vars, Post, Fill, Enter, Gather

(* A step plans only what the searches find, and keeps what is planned. *)
LEMMA NextPlanned == ASSUME IInv, [Next]_vars PROVE Planned'
<1> USE DEF IInv, PcType, Planned
<1>1. CASE UNCHANGED vars
  BY <1>1 DEF vars
<1>2. ASSUME NEW p \in Procs, Post(p) PROVE Planned'
  <2>1. plan' = [plan EXCEPT ![p] = PlanOf(input, p)]
    BY <1>2, LastsOfInput, Zenon DEF Post, PlanOf
  <2>2. input' = input /\ pc' = [pc EXCEPT ![p] = "wait"]
    BY <1>2 DEF Post
  <2> HIDE DEF IInv
  <2> QED
    BY <2>1, <2>2 DEF IInv
<1>3. ASSUME NEW p \in Procs, Fill(p) \/ Enter(p) \/ Gather(p) PROVE Planned'
  <2>1. UNCHANGED << input, plan >> /\ pc[p] # "post"
    BY <1>3 DEF Fill, Enter, Gather
  <2>2. \A r \in Procs : pc'[r] # "post" => pc[r] # "post"
    BY <1>3 DEF Fill, Enter, Gather
  <2> QED
    BY <2>1, <2>2
<1> QED
  BY <1>1, <1>2, <1>3 DEF Next

(* A step puts into the network what was planned and takes out what was received. *)
LEMMA NextInTransit == ASSUME IInv, [Next]_vars PROVE InTransit'
<1> USE DEF IInv, PcType
<1> SUFFICES ASSUME NEW p \in Procs, NEW r \in Procs, p # r, pc'[p] # "post",
                    pc'[r] \in { "post", "wait" }, plan'[p].num_send_to[r] > 0
             PROVE  \E m \in net' : m.from = p /\ m.to = r
  BY DEF InTransit
<1>1. CASE UNCHANGED vars
  BY <1>1 DEF vars, InTransit
<1>2. ASSUME Post(p) PROVE \E m \in net' : m.from = p /\ m.to = r
  <2>1. Message(p, r, plan'[p].num_send_to[r]) \in net'
    BY <1>2 DEF Post
  <2>2. /\ Message(p, r, plan'[p].num_send_to[r]).from = p
        /\ Message(p, r, plan'[p].num_send_to[r]).to = r
    BY DEF Message
  <2> QED
    BY <2>1, <2>2
<1>3. ASSUME NEW q \in Procs, q # p, Post(q) PROVE \E m \in net' : m.from = p /\ m.to = r
  <2>1. pc[p] # "post" /\ pc[r] \in { "post", "wait" } /\ plan'[p] = plan[p]
    BY <1>3 DEF Post, Planned
  <2>2. net \subseteq net'
    BY <1>3 DEF Post
  <2> QED
    BY <2>1, <2>2 DEF InTransit
<1>4. ASSUME NEW q \in Procs, Fill(q) PROVE \E m \in net' : m.from = p /\ m.to = r
  <2>1. q # r /\ plan' = plan /\ pc[p] # "post" /\ pc[r] \in { "post", "wait" }
    BY <1>4 DEF Fill
  <2>2. PICK m \in net : m.from = p /\ m.to = r
    BY <2>1 DEF InTransit
  <2>3. m \in net'
    BY <1>4, <2>1, <2>2 DEF Fill
  <2> QED
    BY <2>2, <2>3
<1>5. ASSUME NEW q \in Procs, Enter(q) \/ Gather(q)
      PROVE  \E m \in net' : m.from = p /\ m.to = r
  <2>1. plan' = plan /\ net' = net /\ pc[p] # "post" /\ pc[r] \in { "post", "wait" }
    BY <1>5 DEF Enter, Gather
  <2> QED
    BY <2>1 DEF InTransit
<1> QED
  BY <1>1, <1>2, <1>3, <1>4, <1>5 DEF Next

\* The invariant holds throughout.
THEOREM Invariance == Spec => []IInv
<1>1. IInv /\ [Next]_vars => IInv'
  BY NextPcType, NextPlanned, NextInTransit DEF IInv
<1> QED
  BY InitIInv, <1>1, PTL DEF Spec

(* Both sides plan the plain intersection of their ranges. *)
LEMMA PlansAgree == IInv => SendsMatchReceives
<1> SUFFICES ASSUME IInv PROVE SendsMatchReceives
  OBVIOUS
<1> DEFINE total == Len(input.which_tree)
<1>1. IsPartition(input.now, total) /\ IsPartition(input.new, total)
  BY ForestsAssumption DEF IInv, Planned
<1> HIDE DEF total
<1>2. ASSUME NEW p \in Procs, NEW r \in Procs, pc[p] # "post"
      PROVE  plan[p].num_send_to[r] = Common(input.now, p, input.new, r)
  BY <1>1, <1>2, OverlapIsCommon DEF IInv, Planned, PlanOf
<1>3. ASSUME NEW p \in Procs, NEW r \in Procs, pc[r] # "post"
      PROVE  plan[r].num_recv_from[p] = Common(input.new, r, input.now, p)
  BY <1>1, <1>3, OverlapIsCommon DEF IInv, Planned, PlanOf
<1>4. ASSUME NEW p \in Procs, NEW r \in Procs, pc[p] # "post", pc[r] # "post"
      PROVE  plan[p].num_send_to[r] = plan[r].num_recv_from[p]
  BY <1>1, <1>2, <1>3, <1>4, CommonIsSymmetric
<1>5. ASSUME NEW p \in Procs, NEW r \in Procs, pc[p] # "post"
      PROVE  plan[p].num_send_to[r] =
               Cardinality((now(p) .. now(p + 1) - 1) \intersect (new(r) .. new(r + 1) - 1))
  BY <1>1, <1>2, <1>5, CommonIsIntersection DEF now, new
<1> QED
  BY <1>4, <1>5 DEF SendsMatchReceives

\* For any number of processes and any two partitions: what one process sends
\* is what the other one expects, and it is what the two ranges have in common.
THEOREM PlansMatch == Spec => []SendsMatchReceives
  BY Invariance, PlansAgree, PTL

(* What a process waits for is in the network once the sender is past its sending. *)
LEMMA ServedByPlan == IInv => EveryReceiveServed
<1> SUFFICES ASSUME IInv, NEW p \in Procs, NEW r \in Procs, p # r, pc[p] = "wait",
                    pc[r] # "post", plan[p].num_recv_from[r] > 0
             PROVE  \E m \in net : m.from = r /\ m.to = p
  BY DEF EveryReceiveServed
<1>1. plan[r].num_send_to[p] = plan[p].num_recv_from[r]
  BY PlansAgree DEF SendsMatchReceives
<1> QED
  BY <1>1 DEF IInv, InTransit

\* For any number of processes: what a process waits for has been sent, as soon
\* as the sender has come that far.
THEOREM NobodyWaitsInVain == Spec => []EveryReceiveServed
  BY Invariance, ServedByPlan, PTL

(***************************************************************************)
(* Nothing is left over and nobody is stuck.  A message that nobody takes  *)
(* would keep its sender waiting for the completion of its send: none goes *)
(* to a process that has filled in its part, since that process has waited *)
(* for everyone who sends to it.                                           *)
(***************************************************************************)
Taken ==
  \A m \in net : /\ m.from \in Procs /\ m.to \in Procs /\ pc[m.from] # "post"
                 /\ pc[m.to] \in { "post", "wait" }
Heard ==
  \A p, r \in Procs :
    (p # r /\ pc[p] \notin { "post", "wait" } /\ plan[p].num_recv_from[r] > 0) => pc[r] # "post"
Delivery == IInv /\ Taken /\ Heard

\* the process is not waiting for another one
CanMove(p) ==
  \/ pc[p] = "post"
  \/ /\ pc[p] = "wait"
     /\ \A r \in Procs \ {p} : plan[p].num_recv_from[r] > 0 =>
          \E m \in net : m.from = r /\ m.to = p
  \/ pc[p] = "send" /\ \A m \in net : m.from # p
  \/ pc[p] = "gather" /\ \A r \in Procs : pc[r] \in { "gather", "done" }

(* A process that posts sends to nobody who has gone on without it. *)
LEMMA PostDelivers ==
  ASSUME Delivery, IInv', SendsMatchReceives', NEW p \in Procs, Post(p)
  PROVE  Taken' /\ Heard'
<1> USE DEF Delivery, IInv, PcType
<1>1. /\ pc[p] = "post" /\ pc' = [pc EXCEPT ![p] = "wait"]
      /\ \A r \in Procs \ {p} : plan'[r] = plan[r]
  BY DEF Post, Planned
<1>2. ASSUME NEW m \in net' PROVE /\ m.from \in Procs /\ m.to \in Procs /\ pc'[m.from] # "post"
                                  /\ pc'[m.to] \in { "post", "wait" }
  <2>1. CASE m \in net
    BY <1>1, <2>1 DEF Taken
  <2>2. CASE m \notin net
    <3>1. PICK r \in Procs \ {p} : /\ plan'[p].num_send_to[r] > 0
                                   /\ m = Message(p, r, plan'[p].num_send_to[r])
      BY <2>2 DEF Post
    <3>2. m.from = p /\ m.to = r
      BY <3>1 DEF Message
    <3>3. pc[r] \in { "post", "wait" }
      <4> SUFFICES ASSUME pc[r] \notin { "post", "wait" } PROVE FALSE
        OBVIOUS
      <4>1. plan'[p].num_send_to[r] = plan'[r].num_recv_from[p]
        BY <1>1, <3>1 DEF SendsMatchReceives
      <4> QED
        BY <1>1, <3>1, <4>1 DEF Heard
    <3> QED
      BY <1>1, <3>1, <3>2, <3>3
  <2> QED
    BY <2>1, <2>2
<1>3. Heard'
  BY <1>1 DEF Heard
<1> QED
  BY <1>2, <1>3 DEF Taken

(* A process that fills in its part has heard of everyone and takes all that is for it. *)
LEMMA FillDelivers ==
  ASSUME Delivery, NEW p \in Procs, Fill(p)
  PROVE  Taken' /\ Heard'
<1> USE DEF Delivery, IInv, PcType
<1>1. /\ pc[p] = "wait" /\ pc' = [pc EXCEPT ![p] = "send"] /\ plan' = plan
      /\ net' = { m \in net : m.to # p }
      /\ \A r \in Procs \ {p} : plan[p].num_recv_from[r] > 0 =>
           \E m \in net : m.from = r /\ m.to = p
  BY DEF Fill
<1>2. Taken'
  BY <1>1 DEF Taken
<1>3. Heard'
  BY <1>1 DEF Heard, Taken
<1> QED
  BY <1>2, <1>3

(* Messages go to processes that take them, throughout. *)
LEMMA NextDelivery == Delivery /\ [Next]_vars => Delivery'
<1> SUFFICES ASSUME Delivery, [Next]_vars PROVE Delivery'
  OBVIOUS
<1>1. IInv'
  BY NextPcType, NextPlanned, NextInTransit DEF IInv, Delivery
<1>2. IInv' => SendsMatchReceives'
  BY PlansAgree, PTL
<1>3. CASE UNCHANGED vars
  BY <1>1, <1>3 DEF vars, Delivery, Taken, Heard
<1>4. ASSUME NEW p \in Procs, Post(p) PROVE Delivery'
  BY <1>1, <1>2, <1>4, PostDelivers DEF Delivery
<1>5. ASSUME NEW p \in Procs, Fill(p) PROVE Delivery'
  BY <1>1, <1>5, FillDelivers DEF Delivery
<1>6. ASSUME NEW p \in Procs, Enter(p) \/ Gather(p) PROVE Delivery'
  <2>1. /\ pc[p] \in { "send", "gather" } /\ plan' = plan /\ net' = net
        /\ pc' \in { [pc EXCEPT ![p] = "gather"], [pc EXCEPT ![p] = "done"] }
    BY <1>6 DEF Enter, Gather
  <2> QED
    BY <1>1, <2>1 DEF Delivery, IInv, PcType, Taken, Heard
<1> QED
  BY <1>3, <1>4, <1>5, <1>6 DEF Next

\* For any number of processes and any two partitions: as long as not all
\* processes have returned one of them can go on.  No receive is without its
\* send, no send is left over that would keep its sender from the allgather,
\* and nobody is in the allgather without the others.
THEOREM NobodyIsStuck ==
  Spec => []((\E p \in Procs : pc[p] # "done") => \E p \in Procs : CanMove(p))
<1>1. ASSUME Delivery, NEW w \in Procs, pc[w] # "done", \A p \in Procs : ~ CanMove(p)
      PROVE  FALSE
  <2>1. \A p \in Procs : pc[p] \in { "wait", "send", "gather", "done" }
    BY <1>1 DEF Delivery, IInv, PcType, CanMove
  <2>2. \A p \in Procs : pc[p] # "wait"
    BY <1>1, <2>1, ServedByPlan DEF Delivery, EveryReceiveServed, CanMove
  <2>3. \A m \in net : FALSE
    BY <1>1, <2>1, <2>2 DEF Delivery, Taken
  <2>4. \A p \in Procs : pc[p] \in { "gather", "done" }
    BY <1>1, <2>1, <2>2, <2>3 DEF CanMove
  <2> QED
    BY <1>1, <2>4 DEF CanMove
<1>2. Delivery => ((\E p \in Procs : pc[p] # "done") => \E p \in Procs : CanMove(p))
  BY <1>1
<1>3. Init => Delivery
  BY InitIInv DEF Init, Delivery, Taken, Heard
<1> QED
  BY <1>2, <1>3, NextDelivery, PTL DEF Spec

(***************************************************************************)
(* The global order.  Since the trees follow each other in it, a tree is a *)
(* range of quadrants, and so is what a process has of one.                *)
(***************************************************************************)
(***************************************************************************)
(* Trees in the global order.                                              *)
(***************************************************************************)
(* Like a tree, a slice is a run of consecutive quadrants: a up to b, b excluded. *)
Count(a, b) == IF a < b THEN b - a ELSE 0
Slice(a, b) == [k \in 1 .. Count(a, b) |-> a + k - 1]
Clamp(x, lo, hi) == IF x < lo THEN lo ELSE IF x > hi THEN hi ELSE x

(* G: where each tree begins in the global order, and where the last one ends *)
Begins(f, G) ==
  /\ f \in Forests
  /\ G \in [0 .. NumTrees -> 0 .. Len(f.which_tree)]
  /\ G[0] = 0 /\ G[NumTrees] = Len(f.which_tree)
  /\ \A s, t \in 0 .. NumTrees : s <= t => G[s] <= G[t]
  /\ \A i \in 0 .. Len(f.which_tree) - 1 : \A t \in Trees :
       f.which_tree[i + 1] = t <=> G[t] <= i /\ i < G[t + 1]

(* The least element of a set of numbers is its minimum, *)
LEMMA MinIs ==
  ASSUME NEW S \in SUBSET Int, NEW x \in S, \A y \in S : x <= y
  PROVE  Min(S) = x
<1>1. \A z \in S : (\A y \in S : z <= y) => z = x
  OBVIOUS
<1> QED
  BY <1>1 DEF Min

(* and the greatest its maximum. *)
LEMMA MaxIs ==
  ASSUME NEW S \in SUBSET Int, NEW x \in S, \A y \in S : y <= x
  PROVE  Max(S) = x
<1>1. \A z \in S : (\A y \in S : y <= z) => z = x
  OBVIOUS
<1> QED
  BY <1>1 DEF Max

(* The trees ascend, also from one quadrant to one further behind. *)
LEMMA TreesOrdered ==
  ASSUME NEW f \in Forests
  PROVE  \A i, j \in 1 .. Len(f.which_tree) : i <= j => f.which_tree[i] <= f.which_tree[j]
<1> DEFINE w == f.which_tree
           S == { k \in Nat : \A i \in 1 .. Len(w) : i + k <= Len(w) => w[i] <= w[i + k] }
<1>1. w \in Seq(Trees) /\ \A i \in 2 .. Len(w) : w[i - 1] <= w[i]
  BY ForestsAssumption
<1>2. Len(w) \in Nat /\ \A i \in 1 .. Len(w) : w[i] \in Nat
  BY <1>1 DEF Trees
<1> HIDE DEF w
<1>3. 0 \in S
  BY <1>2
<1>4. ASSUME NEW k \in Nat, k \in S PROVE k + 1 \in S
  <2> SUFFICES ASSUME NEW i \in 1 .. Len(w), i + (k + 1) <= Len(w)
               PROVE  w[i] <= w[i + (k + 1)]
    OBVIOUS
  <2>1. w[i] <= w[i + k]
    BY <1>2, <1>4
  <2>2. i + (k + 1) \in 2 .. Len(w) /\ (i + (k + 1)) - 1 = i + k
    BY <1>2
  <2>3. w[i + k] <= w[i + (k + 1)]
    BY <1>1, <2>2
  <2>4. w[i] \in Nat /\ w[i + k] \in Nat /\ w[i + (k + 1)] \in Nat
    BY <1>2
  <2> QED
    BY <2>1, <2>3, <2>4
<1> HIDE DEF S
<1>5. \A k \in Nat : k \in S
  BY <1>3, <1>4, NatSetInduction, Zenon
<1>6. ASSUME NEW i \in 1 .. Len(w), NEW j \in 1 .. Len(w), i <= j PROVE w[i] <= w[j]
  <2>1. j - i \in Nat /\ i + (j - i) = j
    BY <1>2, <1>6
  <2>2. j - i \in S
    BY <1>5, <2>1
  <2> QED
    BY <2>1, <2>2 DEF S
<1> QED
  BY <1>6 DEF w

(* Every forest has the places where its trees begin. *)
LEMMA TreesBegin ==
  ASSUME NEW f \in Forests
  PROVE  \E G : Begins(f, G)
<1> DEFINE w == f.which_tree
           n == Len(w)
           From(t) == { i \in 0 .. n : \A j \in i + 1 .. n : t <= w[j] }
           G == [t \in 0 .. NumTrees |-> Min(From(t))]
<1>1. w \in Seq(Trees) /\ \A i, j \in 1 .. n : i <= j => w[i] <= w[j]
  BY ForestsAssumption, TreesOrdered
<1>2. n \in Nat /\ \A i \in 1 .. n : w[i] \in Trees /\ w[i] \in Nat
  BY <1>1 DEF Trees
<1> HIDE DEF w, n
<1>3. ASSUME NEW t \in 0 .. NumTrees
      PROVE  /\ G[t] \in 0 .. n
             /\ \A j \in 1 .. n : G[t] < j => t <= w[j]
             /\ \A i \in 0 .. n : (\A j \in i + 1 .. n : t <= w[j]) => G[t] <= i
  <2>1. From(t) \in SUBSET Nat /\ n \in From(t)
    BY <1>2
  <2>2. G[t] = Min(From(t))
    OBVIOUS
  <2>3. Min(From(t)) \in From(t) /\ \A i \in From(t) : Min(From(t)) <= i
    <3> HIDE DEF From
    <3>1. PICK x \in From(t) : \A y \in From(t) : x <= y
      BY <2>1, LeastElement
    <3>2. Min(From(t)) = x
      BY <2>1, <3>1, MinIs
    <3> QED
      BY <3>1, <3>2
  <2> HIDE DEF G
  <2>4. G[t] \in From(t) /\ \A i \in From(t) : G[t] <= i
    BY <2>2, <2>3
  <2>5. G[t] \in 0 .. n /\ \A j \in G[t] + 1 .. n : t <= w[j]
    BY <2>4
  <2>6. \A j \in 1 .. n : G[t] < j => j \in G[t] + 1 .. n
    BY <1>2, <2>5
  <2> QED
    BY <2>4, <2>5, <2>6
<1>4. G \in [0 .. NumTrees -> 0 .. n]
  <2>1. \A t \in 0 .. NumTrees : G[t] \in 0 .. n
    BY <1>3
  <2> QED
    BY <2>1
<1> HIDE DEF G
<1>5. G[0] = 0
  <2>1. 0 \in 0 .. NumTrees /\ 0 \in 0 .. n /\ \A j \in 0 + 1 .. n : 0 <= w[j]
    BY <1>2
  <2>2. G[0] <= 0 /\ G[0] \in 0 .. n
    BY <1>3, <2>1
  <2> QED
    BY <1>2, <2>2
<1>6. G[NumTrees] = n
  <2>1. NumTrees \in 0 .. NumTrees
    OBVIOUS
  <2>2. G[NumTrees] \in 0 .. n /\ \A j \in 1 .. n : G[NumTrees] < j => NumTrees <= w[j]
    BY <1>3, <2>1
  <2>3. \A j \in 1 .. n : w[j] < NumTrees
    BY <1>2 DEF Trees
  <2>4. ~ (G[NumTrees] < n)
    <3> SUFFICES ASSUME G[NumTrees] < n PROVE FALSE
      OBVIOUS
    <3>1. n \in 1 .. n
      BY <1>2, <2>2
    <3>2. NumTrees <= w[n] /\ w[n] < NumTrees /\ w[n] \in Nat
      BY <1>2, <2>2, <2>3, <3>1
    <3> QED
      BY <3>2
  <2> QED
    BY <1>2, <2>2, <2>4
<1>7. ASSUME NEW s \in 0 .. NumTrees, NEW t \in 0 .. NumTrees, s <= t PROVE G[s] <= G[t]
  <2>1. G[t] \in 0 .. n /\ \A j \in 1 .. n : G[t] < j => t <= w[j]
    BY <1>3
  <2>2. \A j \in G[t] + 1 .. n : s <= w[j]
    BY <1>2, <1>7, <2>1
  <2> QED
    BY <1>3, <2>1, <2>2
<1>8. ASSUME NEW i \in 0 .. n - 1, NEW t \in Trees
      PROVE  w[i + 1] = t <=> G[t] <= i /\ i < G[t + 1]
  <2>1. /\ i + 1 \in 1 .. n /\ w[i + 1] \in Nat /\ t \in Nat /\ i \in 0 .. n
        /\ t \in 0 .. NumTrees /\ t + 1 \in 0 .. NumTrees
    BY <1>2 DEF Trees
  <2>2. G[t] \in 0 .. n /\ G[t + 1] \in 0 .. n
    BY <1>3, <2>1
  <2>3. t <= w[i + 1] => G[t] <= i
    <3> SUFFICES ASSUME t <= w[i + 1] PROVE G[t] <= i
      OBVIOUS
    <3>1. \A j \in i + 1 .. n : t <= w[j]
      BY <1>1, <1>2, <2>1
    <3> QED
      BY <1>3, <2>1, <3>1
  <2>4. G[t] <= i => t <= w[i + 1]
    <3>1. G[t] <= i => G[t] < i + 1
      BY <2>1, <2>2
    <3> QED
      BY <1>3, <2>1, <3>1
  <2>5. t + 1 <= w[i + 1] => G[t + 1] <= i
    <3> SUFFICES ASSUME t + 1 <= w[i + 1] PROVE G[t + 1] <= i
      OBVIOUS
    <3>1. \A j \in i + 1 .. n : t + 1 <= w[j]
      BY <1>1, <1>2, <2>1
    <3> QED
      BY <1>3, <2>1, <3>1
  <2>6. G[t + 1] <= i => t + 1 <= w[i + 1]
    <3>1. G[t + 1] <= i => G[t + 1] < i + 1
      BY <2>1, <2>2
    <3> QED
      BY <1>3, <2>1, <3>1
  <2> QED
    BY <2>1, <2>2, <2>3, <2>4, <2>5, <2>6
<1>9. Begins(f, G)
  BY <1>4, <1>5, <1>6, <1>7, <1>8 DEF Begins, w, n
<1> QED
  BY <1>9

(* What a slice is. *)
LEMMA Slices ==
  ASSUME NEW a \in Int, NEW b \in Int
  PROVE  /\ Count(a, b) \in Nat /\ Slice(a, b) \in Seq(Int)
         /\ Len(Slice(a, b)) = Count(a, b) /\ DOMAIN Slice(a, b) = 1 .. Count(a, b)
         /\ \A k \in 1 .. Count(a, b) : Slice(a, b)[k] = a + k - 1
<1>1. Count(a, b) \in Nat
  BY DEF Count
<1> QED
  BY <1>1 DEF Slice

(* The part of a tree between two quadrants is a slice. *)
LEMMA PartIsSlice ==
  ASSUME NEW G, Begins(input, G), NEW first \in Nat, NEW last \in Int, last < NumQuadrants,
         NEW t \in Trees
  PROVE  PartOfTree(first, last, t) = Slice(High(first, G[t]), Low(last + 1, G[t + 1]))
<1> DEFINE a == High(first, G[t])
           b == Low(last + 1, G[t + 1])
           part == { i \in first .. last : input.which_tree[i + 1] = t }
<1>1. /\ t \in 0 .. NumTrees /\ t + 1 \in 0 .. NumTrees /\ NumQuadrants \in Nat
      /\ G[t] \in 0 .. NumQuadrants /\ G[t + 1] \in 0 .. NumQuadrants
  <2>1. input.which_tree \in Seq(Trees)
    BY ForestsAssumption DEF Begins
  <2> QED
    BY <2>1 DEF Trees, Begins, NumQuadrants
<1>2. a \in Int /\ b \in Int
  BY <1>1 DEF High, Low
<1>3. ASSUME NEW i \in first .. last
      PROVE  input.which_tree[i + 1] = t <=> G[t] <= i /\ i < G[t + 1]
  <2>1. i \in 0 .. NumQuadrants - 1
    BY <1>1
  <2> QED
    BY <2>1 DEF Begins, NumQuadrants
<1>4. part = a .. b - 1
  <2>1. \A i \in Int : i \in a .. b - 1 <=> i \in first .. last /\ G[t] <= i /\ i < G[t + 1]
    BY <1>1 DEF High, Low
  <2>2. a .. b - 1 \subseteq Int /\ part \subseteq Int
    OBVIOUS
  <2> QED
    BY <1>3, <2>1, <2>2
<1> SUFFICES PartOfTree(first, last, t) = Slice(a, b)
  OBVIOUS
<1> HIDE DEF a, b
<1>5. Cardinality(part) = Count(a, b)
  <2> HIDE DEF part
  <2> DEFINE c == b - 1
  <2>1. c \in Int /\ part = a .. c
    BY <1>2, <1>4
  <2>2. Count(a, b) = IF a > c THEN 0 ELSE c - a + 1
    BY <1>2 DEF Count
  <2> HIDE DEF c
  <2>3. Cardinality(a .. c) = IF a > c THEN 0 ELSE c - a + 1
    BY <1>2, <2>1, FS_Interval
  <2> QED
    BY <2>1, <2>2, <2>3
<1>6. PartOfTree(first, last, t) = [k \in 1 .. Cardinality(part) |-> Min(part) + k - 1]
  BY DEF PartOfTree
<1>7. CASE Count(a, b) = 0
  <2> HIDE DEF part
  <2> QED
    BY <1>5, <1>6, <1>7 DEF Slice
<1>8. CASE Count(a, b) # 0
  <2>1. Min(part) = a
    <3> HIDE DEF part
    <3>1. a \in part /\ part \in SUBSET Int /\ \A y \in part : a <= y
      BY <1>2, <1>4, <1>8 DEF Count
    <3> QED
      BY <3>1, MinIs
  <2> HIDE DEF part
  <2> QED
    BY <1>5, <1>6, <2>1 DEF Slice
<1> QED
  BY <1>7, <1>8

(***************************************************************************)
(* A process that holds its range of a partition.                          *)
(***************************************************************************)
(***************************************************************************)
(* What a process holds.                                                   *)
(***************************************************************************)
\* the arrays and the first and last tree of process p under a partition
PartsOf(cut, p) == [t \in Trees |-> PartOfTree(cut[p], cut[p + 1] - 1, t)]
EndsOf(cut, p) ==
  IF cut[p] = cut[p + 1] THEN << -1, -2 >>
  ELSE << input.which_tree[cut[p] + 1], input.which_tree[cut[p + 1]] >>
Holds(p, cut) == trees[p] = PartsOf(cut, p) /\ local_trees[p] = EndsOf(cut, p)

\* x moved into the range of process p
Within(cut, p, x) == Clamp(x, cut[p], cut[p + 1])

(* The numbers that occur below are numbers, and in this order. *)
LEMMA CutTypes ==
  ASSUME NEW total \in Nat, NEW cut, IsPartition(cut, total), NEW p \in Procs
  PROVE  /\ p \in 0 .. NumProcs /\ p + 1 \in 0 .. NumProcs
         /\ cut[p] \in Nat /\ cut[p + 1] \in Nat /\ cut[p] <= cut[p + 1] /\ cut[p + 1] <= total
<1>1. p \in 0 .. NumProcs /\ p + 1 \in 0 .. NumProcs /\ p + 1 <= NumProcs
  OBVIOUS
<1>2. cut[p + 1] <= cut[NumProcs]
  BY <1>1, CutsOrdered
<1> QED
  BY <1>1, <1>2 DEF IsPartition

(* So are the places where trees begin. *)
LEMMA BeginTypes ==
  ASSUME NEW G, Begins(input, G)
  PROVE  /\ NumQuadrants \in Nat
         /\ \A t \in 0 .. NumTrees : G[t] \in Nat /\ G[t] <= NumQuadrants
         /\ \A t \in Trees : /\ t \in 0 .. NumTrees /\ t + 1 \in 0 .. NumTrees
                             /\ G[t] \in Nat /\ G[t + 1] \in Nat
                             /\ G[t] <= G[t + 1] /\ G[t + 1] <= NumQuadrants
<1>1. NumQuadrants \in Nat
  <2>1. input.which_tree \in Seq(Trees)
    BY ForestsAssumption DEF Begins
  <2> QED
    BY <2>1 DEF NumQuadrants
<1>2. \A t \in 0 .. NumTrees : G[t] \in Nat /\ G[t] <= NumQuadrants
  BY <1>1 DEF Begins, NumQuadrants
<1>3. \A t \in Trees : t \in 0 .. NumTrees /\ t + 1 \in 0 .. NumTrees /\ t <= t + 1
  BY DEF Trees
<1> QED
  BY <1>1, <1>2, <1>3 DEF Begins

(* The part of a tree that is in the range of a process. *)
LEMMA PartWithin ==
  ASSUME NEW G, Begins(input, G), NEW cut, IsPartition(cut, NumQuadrants), NEW p \in Procs,
         NEW t \in Trees
  PROVE  LET from == Within(cut, p, G[t])
             to   == Within(cut, p, G[t + 1])
         IN  /\ from \in Nat /\ to \in Nat
             /\ cut[p] <= from /\ from <= to /\ to <= cut[p + 1]
             /\ PartOfTree(cut[p], cut[p + 1] - 1, t) = [k \in 1 .. to - from |-> from + k - 1]
<1> DEFINE from == Within(cut, p, G[t])
           to   == Within(cut, p, G[t + 1])
           a    == High(cut[p], G[t])
           b    == Low(cut[p + 1], G[t + 1])
<1>1. /\ NumQuadrants \in Nat /\ G[t] \in Nat /\ G[t + 1] \in Nat /\ G[t] <= G[t + 1]
      /\ G[t + 1] <= NumQuadrants
  BY BeginTypes
<1>2. /\ cut[p] \in Nat /\ cut[p + 1] \in Nat /\ cut[p] <= cut[p + 1]
      /\ cut[p + 1] <= NumQuadrants
  BY <1>1, CutTypes
<1>3. PartOfTree(cut[p], cut[p + 1] - 1, t) = Slice(a, b)
  <2>1. /\ cut[p] \in Nat /\ cut[p + 1] - 1 \in Int /\ cut[p + 1] - 1 < NumQuadrants
        /\ (cut[p + 1] - 1) + 1 = cut[p + 1]
    BY <1>1, <1>2
  <2>2. PartOfTree(cut[p], cut[p + 1] - 1, t) = Slice(a, Low((cut[p + 1] - 1) + 1, G[t + 1]))
    BY <2>1, PartIsSlice
  <2> QED
    BY <2>1, <2>2
<1>4. a \in Int /\ b \in Int /\ Count(a, b) = to - from /\ (to # from => a = from)
      /\ from \in Nat /\ to \in Nat /\ cut[p] <= from /\ from <= to /\ to <= cut[p + 1]
  <2>1. a = (IF cut[p] < G[t] THEN G[t] ELSE cut[p])
    BY DEF High
  <2>2. b = (IF cut[p + 1] < G[t + 1] THEN cut[p + 1] ELSE G[t + 1])
    BY DEF Low
  <2>3. from = (IF G[t] < cut[p] THEN cut[p] ELSE IF G[t] > cut[p + 1] THEN cut[p + 1] ELSE G[t])
    BY DEF Within, Clamp
  <2>4. to = (IF G[t + 1] < cut[p] THEN cut[p]
              ELSE IF G[t + 1] > cut[p + 1] THEN cut[p + 1] ELSE G[t + 1])
    BY DEF Within, Clamp
  <2>5. Count(a, b) = IF a < b THEN b - a ELSE 0
    BY DEF Count
  <2> HIDE DEF a, b, from, to
  <2>6. a \in Int /\ b \in Int /\ from \in Nat /\ to \in Nat
    BY <1>1, <1>2, <2>1, <2>2, <2>3, <2>4
  <2>7. cut[p] <= from /\ from <= to /\ to <= cut[p + 1]
    BY <1>1, <1>2, <2>3, <2>4
  <2>8. Count(a, b) = to - from /\ (to # from => a = from)
    BY <1>1, <1>2, <2>1, <2>2, <2>3, <2>4, <2>5
  <2> QED
    BY <2>6, <2>7, <2>8
<1> HIDE DEF a, b, from, to
<1>5. Slice(a, b) = [k \in 1 .. to - from |-> from + k - 1]
  <2>1. Slice(a, b) = [k \in 1 .. to - from |-> a + k - 1]
    BY <1>4 DEF Slice
  <2>2. CASE to = from
    BY <1>4, <2>1, <2>2
  <2>3. CASE to # from
    BY <1>4, <2>1, <2>3
  <2> QED
    BY <2>2, <2>3
<1> QED
  BY <1>3, <1>4, <1>5 DEF from, to

(* So many quadrants of a tree a process has. *)
LEMMA PartLength ==
  ASSUME NEW G, Begins(input, G), NEW cut, IsPartition(cut, NumQuadrants), NEW p \in Procs,
         NEW t \in Trees
  PROVE  Len(PartOfTree(cut[p], cut[p + 1] - 1, t)) = Within(cut, p, G[t + 1]) - Within(cut, p, G[t])
<1> DEFINE from == Within(cut, p, G[t])
           to   == Within(cut, p, G[t + 1])
           part == PartOfTree(cut[p], cut[p + 1] - 1, t)
<1>1. /\ from \in Nat /\ to \in Nat /\ from <= to
      /\ part = [k \in 1 .. to - from |-> from + k - 1]
  BY PartWithin
<1> HIDE DEF from, to, part
<1>2. Len([k \in 1 .. to - from |-> from + k - 1]) = to - from
  BY <1>1
<1>3. Len(part) = to - from
  BY <1>1, <1>2
<1> QED
  BY <1>3 DEF from, to, part

(* The array of a tree is the part of the range that is of this tree. *)
LEMMA TreeHeld ==
  ASSUME NEW G, Begins(input, G), NEW cut, IsPartition(cut, NumQuadrants), NEW p \in Procs,
         trees[p] = PartsOf(cut, p), NEW t \in Trees
  PROVE  LET from == Within(cut, p, G[t])
             to   == Within(cut, p, G[t + 1])
         IN  /\ from \in Nat /\ to \in Nat
             /\ cut[p] <= from /\ from <= to /\ to <= cut[p + 1]
             /\ Len(trees[p][t]) = to - from /\ DOMAIN trees[p][t] = 1 .. to - from
             /\ \A k \in 1 .. to - from : trees[p][t][k] = from + k - 1
<1> DEFINE from == Within(cut, p, G[t])
           to   == Within(cut, p, G[t + 1])
<1>1. /\ from \in Nat /\ to \in Nat
      /\ cut[p] <= from /\ from <= to /\ to <= cut[p + 1]
      /\ PartOfTree(cut[p], cut[p + 1] - 1, t) = [k \in 1 .. to - from |-> from + k - 1]
  BY PartWithin
<1> HIDE DEF from, to
<1>2. trees[p][t] = [k \in 1 .. to - from |-> from + k - 1]
  BY <1>1 DEF PartsOf
<1>3. to - from \in Nat
  BY <1>1
<1>4. Len(trees[p][t]) = to - from
  BY <1>2, <1>3
<1>5. DOMAIN trees[p][t] = 1 .. to - from /\ \A k \in 1 .. to - from : trees[p][t][k] = from + k - 1
  BY <1>2
<1> QED
  BY <1>1, <1>4, <1>5 DEF from, to

(* A process that has quadrants has those of the trees from its first to its last one. *)
LEMMA SpanHeld ==
  ASSUME NEW G, Begins(input, G), NEW cut, IsPartition(cut, NumQuadrants), NEW p \in Procs,
         local_trees[p] = EndsOf(cut, p), cut[p] # cut[p + 1]
  PROVE  LET a == local_trees[p][1]
             z == local_trees[p][2]
         IN  /\ a = input.which_tree[cut[p] + 1] /\ z = input.which_tree[cut[p + 1]]
             /\ a \in Trees /\ z \in Trees /\ a <= z /\ Span(p) = a .. z
             /\ G[a] <= cut[p] /\ cut[p] < G[a + 1]
             /\ G[z] < cut[p + 1] /\ cut[p + 1] <= G[z + 1]
<1> DEFINE a == input.which_tree[cut[p] + 1]
           z == input.which_tree[cut[p + 1]]
<1>1. NumQuadrants \in Nat
  BY BeginTypes
<1>2. /\ cut[p] \in Nat /\ cut[p + 1] \in Nat /\ cut[p] < cut[p + 1]
      /\ cut[p + 1] <= NumQuadrants
  <2>1. /\ cut[p] \in Nat /\ cut[p + 1] \in Nat /\ cut[p] <= cut[p + 1]
        /\ cut[p + 1] <= NumQuadrants
    BY <1>1, CutTypes
  <2> QED
    BY <2>1
<1>3. local_trees[p][1] = a /\ local_trees[p][2] = z
  BY DEF EndsOf
<1>4. a \in Trees /\ z \in Trees /\ a <= z
  <2>1. input \in Forests /\ input.which_tree \in Seq(Trees)
    BY ForestsAssumption DEF Begins
  <2>2. cut[p] + 1 \in 1 .. Len(input.which_tree) /\ cut[p + 1] \in 1 .. Len(input.which_tree)
        /\ cut[p] + 1 <= cut[p + 1]
    BY <1>1, <1>2 DEF NumQuadrants
  <2> QED
    BY <2>1, <2>2, TreesOrdered
<1>5. G[a] <= cut[p] /\ cut[p] < G[a + 1]
  <2>1. cut[p] \in 0 .. Len(input.which_tree) - 1
    BY <1>1, <1>2 DEF NumQuadrants
  <2> QED
    BY <1>4, <2>1 DEF Begins
<1>6. G[z] < cut[p + 1] /\ cut[p + 1] <= G[z + 1]
  <2>1. cut[p + 1] - 1 \in 0 .. Len(input.which_tree) - 1 /\ (cut[p + 1] - 1) + 1 = cut[p + 1]
    BY <1>1, <1>2 DEF NumQuadrants
  <2>2. G[z] <= cut[p + 1] - 1 /\ cut[p + 1] - 1 < G[z + 1]
    BY <1>4, <2>1 DEF Begins
  <2>3. G[z] \in Nat /\ G[z + 1] \in Nat
    BY <1>4, BeginTypes
  <2> QED
    BY <1>2, <2>2, <2>3
<1> HIDE DEF a, z
<1> QED
  BY <1>3, <1>4, <1>5, <1>6 DEF Span, a, z

(* A tree that it has a part of is among them. *)
LEMMA SpanHasParts ==
  ASSUME NEW G, Begins(input, G), NEW cut, IsPartition(cut, NumQuadrants), NEW p \in Procs,
         local_trees[p] = EndsOf(cut, p), NEW t \in Trees,
         Within(cut, p, G[t]) # Within(cut, p, G[t + 1])
  PROVE  t \in Span(p) /\ cut[p] # cut[p + 1]
<1>1. /\ NumQuadrants \in Nat /\ G[t] \in Nat /\ G[t + 1] \in Nat /\ G[t] <= G[t + 1]
      /\ t \in 0 .. NumTrees /\ t + 1 \in 0 .. NumTrees
  BY BeginTypes
<1>2. cut[p] \in Nat /\ cut[p + 1] \in Nat /\ cut[p] <= cut[p + 1]
  BY <1>1, CutTypes
<1>3. G[t] < cut[p + 1] /\ cut[p] < G[t + 1] /\ cut[p] # cut[p + 1]
  BY <1>1, <1>2 DEF Within, Clamp
<1> DEFINE a == local_trees[p][1]
           z == local_trees[p][2]
<1>4. /\ a \in Trees /\ z \in Trees /\ a <= z /\ Span(p) = a .. z
      /\ G[a] <= cut[p] /\ cut[p + 1] <= G[z + 1]
  BY <1>3, SpanHeld
<1> HIDE DEF a, z
<1>5. /\ a \in 0 .. NumTrees /\ z + 1 \in 0 .. NumTrees /\ G[a] \in Nat /\ G[z + 1] \in Nat
      /\ a \in Nat /\ z \in Nat /\ t \in Nat
  BY <1>4, BeginTypes DEF Trees
<1>6. a <= t
  <2> SUFFICES ASSUME t + 1 <= a PROVE FALSE
    BY <1>5
  <2>1. G[t + 1] <= G[a]
    BY <1>1, <1>5 DEF Begins
  <2> QED
    BY <1>1, <1>2, <1>3, <1>4, <1>5, <2>1
<1>7. t <= z
  <2> SUFFICES ASSUME z + 1 <= t PROVE FALSE
    BY <1>5
  <2>1. G[z + 1] <= G[t]
    BY <1>1, <1>5 DEF Begins
  <2> QED
    BY <1>1, <1>2, <1>3, <1>4, <1>5, <2>1
<1> QED
  BY <1>3, <1>4, <1>5, <1>6, <1>7

(* Trees begin and end among the local quadrants as far as they do in the global order. *)
LEMMA BeginHeld ==
  ASSUME NEW G, Begins(input, G), NEW cut, IsPartition(cut, NumQuadrants), NEW p \in Procs,
         Holds(p, cut), cut[p] # cut[p + 1], NEW t \in Span(p)
  PROVE  /\ t \in Trees
         /\ TreeBegin(p, t) = Within(cut, p, G[t]) - cut[p]
         /\ TreeEnd(p, t) = Within(cut, p, G[t + 1]) - cut[p] - 1
<1> USE DEF Holds
<1> DEFINE a == local_trees[p][1]
           z == local_trees[p][2]
           h == [s \in 0 .. NumTrees |-> Within(cut, p, G[s])]
<1>1. /\ a \in Trees /\ z \in Trees /\ a <= z /\ Span(p) = a .. z
      /\ G[a] <= cut[p]
  BY SpanHeld
<1>2. NumQuadrants \in Nat /\ \A s \in 0 .. NumTrees : G[s] \in Nat
  BY BeginTypes
<1>3. cut[p] \in Nat /\ cut[p + 1] \in Nat /\ cut[p] <= cut[p + 1]
  BY <1>2, CutTypes
<1>4. \A s \in 0 .. NumTrees : h[s] \in Int
  BY <1>2, <1>3 DEF Within, Clamp
<1>5. \A s \in Trees : Elements(p)[s] = h[s + 1] - h[s]
  <2> SUFFICES ASSUME NEW s \in Trees PROVE Elements(p)[s] = h[s + 1] - h[s]
    OBVIOUS
  <2>1. s \in 0 .. NumTrees /\ s + 1 \in 0 .. NumTrees
    BY DEF Trees
  <2>2. Len(trees[p][s]) = Within(cut, p, G[s + 1]) - Within(cut, p, G[s])
    BY TreeHeld
  <2> QED
    BY <2>1, <2>2 DEF Elements
<1>6. h[a] = cut[p]
  <2>1. a \in 0 .. NumTrees
    BY <1>1 DEF Trees
  <2>2. h[a] = Within(cut, p, G[a]) /\ G[a] \in Nat
    BY <1>2, <2>1
  <2>3. G[a] <= cut[p]
    BY <1>1
  <2> HIDE DEF h, a
  <2> QED
    BY <1>3, <2>2, <2>3 DEF Within, Clamp
<1> HIDE DEF a, z, h
<1>7. t \in Trees /\ a \in Int /\ t - 1 \in Int /\ a <= (t - 1) + 1 /\ (t - 1) + 1 = t
      /\ t \in 0 .. NumTrees /\ t + 1 \in 0 .. NumTrees
      /\ (\A s \in a .. t : s \in 0 .. NumTrees) /\ (\A s \in a .. t - 1 : s \in Trees)
  BY <1>1 DEF Trees
<1>8. Sum(Elements(p), a, t - 1) = h[t] - h[a]
  <2> DEFINE last == t - 1
             f    == Elements(p)
  <2>1. a \in Int /\ last \in Int /\ a <= last + 1
    BY <1>7
  <2>2. \A s \in a .. last + 1 : h[s] \in Int
    BY <1>4, <1>7
  <2>3. \A s \in a .. last : f[s] = h[s + 1] - h[s]
    BY <1>5, <1>7
  <2> HIDE DEF last, f
  <2>4. Sum(f, a, last) = h[last + 1] - h[a]
    BY <2>1, <2>2, <2>3, Telescope
  <2> QED
    BY <1>7, <2>4 DEF last, f
<1>9. TreeBegin(p, t) = h[t] - cut[p]
  BY <1>6, <1>8 DEF TreeBegin, a
<1>10. Len(trees[p][t]) = h[t + 1] - h[t] /\ h[t] \in Int /\ h[t + 1] \in Int
  BY <1>4, <1>5, <1>7 DEF Elements
<1>11. TreeEnd(p, t) = h[t + 1] - cut[p] - 1
  BY <1>3, <1>9, <1>10 DEF TreeEnd
<1>12. h[t] = Within(cut, p, G[t]) /\ h[t + 1] = Within(cut, p, G[t + 1])
  BY <1>7 DEF h
<1> QED
  BY <1>7, <1>9, <1>11, <1>12

(* The local quadrants are the range, in order. *)
LEMMA LocalQuadHeld ==
  ASSUME NEW G, Begins(input, G), NEW cut, IsPartition(cut, NumQuadrants), NEW p \in Procs,
         Holds(p, cut), NEW i \in Nat, i < cut[p + 1] - cut[p]
  PROVE  LocalQuad(p, i) = cut[p] + i
<1> DEFINE x  == cut[p] + i
           t0 == input.which_tree[x + 1]
           Has(s) == TreeBegin(p, s) <= i /\ i <= TreeEnd(p, s)
           t  == CHOOSE s \in Span(p) : Has(s)
<1>1. NumQuadrants \in Nat
  BY BeginTypes
<1>2. /\ cut[p] \in Nat /\ cut[p + 1] \in Nat /\ cut[p] <= cut[p + 1]
      /\ cut[p + 1] <= NumQuadrants
  BY <1>1, CutTypes
<1>3. x \in Nat /\ cut[p] <= x /\ x < cut[p + 1] /\ cut[p] # cut[p + 1]
  BY <1>2
<1>4. t0 \in Trees /\ G[t0] <= x /\ x < G[t0 + 1]
  <2>1. x \in 0 .. Len(input.which_tree) - 1 /\ x + 1 \in 1 .. Len(input.which_tree)
    BY <1>1, <1>2, <1>3 DEF NumQuadrants
  <2>2. input.which_tree \in Seq(Trees)
    BY ForestsAssumption DEF Begins
  <2>3. t0 \in Trees
    BY <2>1, <2>2
  <2> HIDE DEF x
  <2> QED
    BY <2>1, <2>3 DEF Begins
<1> HIDE DEF x, t0
<1>5. t0 \in Span(p) /\ Has(t0)
  <2>1. G[t0] \in Nat /\ G[t0 + 1] \in Nat
    BY <1>4, BeginTypes
  <2>2. Within(cut, p, G[t0]) <= x /\ x < Within(cut, p, G[t0 + 1])
        /\ Within(cut, p, G[t0]) \in Nat /\ Within(cut, p, G[t0 + 1]) \in Nat
    BY <1>2, <1>3, <1>4, <2>1 DEF Within, Clamp
  <2>3. Within(cut, p, G[t0]) # Within(cut, p, G[t0 + 1])
    BY <1>3, <2>2
  <2>4. t0 \in Span(p)
    BY <1>4, <2>3, SpanHasParts DEF Holds
  <2>5. /\ TreeBegin(p, t0) = Within(cut, p, G[t0]) - cut[p]
        /\ TreeEnd(p, t0) = Within(cut, p, G[t0 + 1]) - cut[p] - 1
    BY <1>3, <2>4, BeginHeld
  <2>6. i = x - cut[p]
    BY <1>2 DEF x
  <2> QED
    BY <1>2, <1>3, <2>2, <2>4, <2>5, <2>6
<1>6. t \in Span(p) /\ Has(t)
  <2> HIDE DEF Has
  <2> QED
    BY <1>5
<1>7. LocalQuad(p, i) = trees[p][t][i - TreeBegin(p, t) + 1]
  BY DEF LocalQuad
<1> HIDE DEF t
<1>8. /\ t \in Trees /\ TreeBegin(p, t) = Within(cut, p, G[t]) - cut[p]
      /\ TreeEnd(p, t) = Within(cut, p, G[t + 1]) - cut[p] - 1
  BY <1>3, <1>6, BeginHeld
<1> DEFINE from == Within(cut, p, G[t])
           to   == Within(cut, p, G[t + 1])
<1>9. /\ from \in Nat /\ to \in Nat
      /\ \A k \in 1 .. to - from : trees[p][t][k] = from + k - 1
  BY <1>8, TreeHeld DEF Holds
<1> HIDE DEF from, to
<1>10. i - TreeBegin(p, t) + 1 = i - from + cut[p] + 1 /\ from - cut[p] <= i /\ i <= to - cut[p] - 1
  BY <1>2, <1>6, <1>8, <1>9 DEF from, to
<1>11. i - from + cut[p] + 1 \in 1 .. to - from
  BY <1>2, <1>9, <1>10
<1>12. trees[p][t][i - from + cut[p] + 1] = from + (i - from + cut[p] + 1) - 1
  BY <1>9, <1>11
<1> QED
  BY <1>2, <1>7, <1>9, <1>10, <1>12

(* The positions in a tree of some of the local quadrants. *)
LEMMA InTreeHeld ==
  ASSUME NEW G, Begins(input, G), NEW cut, IsPartition(cut, NumQuadrants), NEW p \in Procs,
         Holds(p, cut), cut[p] # cut[p + 1], NEW t \in Span(p), NEW first \in Int, NEW last \in Int
  PROVE  LET from == Within(cut, p, G[t])
             to   == Within(cut, p, G[t + 1])
             a    == High(first + cut[p], from)
             b    == Low(last + cut[p] + 1, to)
         IN  /\ a \in Int /\ b \in Int /\ from \in Nat /\ to \in Nat
             /\ InTree(p, t, first, last) = a - from .. b - from - 1
             /\ Cardinality(InTree(p, t, first, last)) = Count(a, b)
<1> DEFINE from == Within(cut, p, G[t])
           to   == Within(cut, p, G[t + 1])
           a    == High(first + cut[p], from)
           b    == Low(last + cut[p] + 1, to)
<1>1. NumQuadrants \in Nat
  BY BeginTypes
<1>2. cut[p] \in Nat
  BY <1>1, CutTypes
<1>3. t \in Trees /\ TreeBegin(p, t) = from - cut[p] /\ TreeEnd(p, t) = to - cut[p] - 1
  BY BeginHeld
<1>4. from \in Nat /\ to \in Nat
  BY <1>3, TreeHeld DEF Holds
<1> HIDE DEF from, to
<1>5. a \in Int /\ b \in Int
  BY <1>2, <1>4 DEF High, Low
<1>6. InTree(p, t, first, last) = a - from .. b - from - 1
  <2>1. High(first, from - cut[p]) - (from - cut[p]) = a - from
    BY <1>2, <1>4 DEF High
  <2>2. Low(last, to - cut[p] - 1) - (from - cut[p]) = b - from - 1
    BY <1>2, <1>4 DEF Low
  <2> QED
    BY <1>3, <2>1, <2>2 DEF InTree
<1> HIDE DEF a, b
<1>7. Cardinality(a - from .. b - from - 1) = Count(a, b)
  <2> DEFINE l == a - from
             h == b - from - 1
  <2>1. l \in Int /\ h \in Int
    BY <1>4, <1>5
  <2>2. Count(a, b) = IF l > h THEN 0 ELSE h - l + 1
    BY <1>4, <1>5 DEF Count
  <2> HIDE DEF l, h
  <2>3. Cardinality(l .. h) = IF l > h THEN 0 ELSE h - l + 1
    BY <2>1, FS_Interval
  <2>4. Cardinality(l .. h) = Count(a, b)
    BY <2>2, <2>3
  <2> QED
    BY <2>4 DEF l, h
<1>8. Cardinality(InTree(p, t, first, last)) = Count(a, b)
  BY <1>6, <1>7
<1> QED
  BY <1>4, <1>5, <1>6, <1>8 DEF from, to, a, b

(***************************************************************************)
(* What a message says.                                                    *)
(***************************************************************************)
PositionsOf(cut) ==
  [r \in 0 .. NumProcs |->
     IF cut[r] = NumQuadrants THEN [ which_tree |-> NumTrees, quad |-> NumQuadrants ]
     ELSE [ which_tree |-> input.which_tree[cut[r] + 1], quad |-> cut[r] ]]

\* entry number t of the counts of process r, which begin with its first tree
Counted(per_tree, r, t) ==
  LET it == t - PositionsOf(input.now)[r].which_tree
  IN  IF it \in DOMAIN per_tree THEN per_tree[it] ELSE 0

(* Ranges that do not meet have nothing in common. *)
LEMMA Apart ==
  ASSUME NEW x \in Int, NEW y \in Int, NEW g \in Int, NEW h \in Int,
         h <= x \/ y <= g \/ y <= x
  PROVE  Count(High(x, g), Low(y, h)) = 0
BY DEF Count, High, Low

(* The counts of a process are those of the trees, whether it has quadrants of them or not. *)
LEMMA PerTreeHeld ==
  ASSUME NEW G, Begins(input, G), IsPartition(input.now, NumQuadrants), NEW p \in Procs,
         Holds(p, input.now), global_first_position[p] = PositionsOf(input.now),
         now(p) # now(p + 1), NEW t \in Trees,
         NEW first \in Nat, NEW last \in Int, last < now(p + 1) - now(p)
  PROVE  Counted(PerTree(p, first, last), p, t) =
           Count(High(first + now(p), G[t]), Low(last + now(p) + 1, G[t + 1]))
<1> DEFINE c  == now(p)
           e  == now(p + 1)
           a  == local_trees[p][1]
           z  == local_trees[p][2]
           n  == NumSendTrees(p)
           it == t - a
           per_tree == PerTree(p, first, last)
<1>1. /\ NumQuadrants \in Nat /\ G[t] \in Nat /\ G[t + 1] \in Nat /\ G[t] <= G[t + 1]
  BY BeginTypes
<1>2. /\ c \in Nat /\ e \in Nat /\ c < e /\ e <= NumQuadrants
      /\ p \in 0 .. NumProcs /\ p + 1 \in 0 .. NumProcs
  <2>1. /\ input.now[p] \in Nat /\ input.now[p + 1] \in Nat
        /\ input.now[p] <= input.now[p + 1] /\ input.now[p + 1] <= NumQuadrants
        /\ p \in 0 .. NumProcs /\ p + 1 \in 0 .. NumProcs
    BY <1>1, CutTypes
  <2> QED
    BY <2>1 DEF now
<1>3. /\ a = input.which_tree[c + 1] /\ z = input.which_tree[e]
      /\ a \in Trees /\ z \in Trees /\ a <= z /\ Span(p) = a .. z
      /\ G[a] <= c /\ c < G[a + 1] /\ G[z] < e /\ e <= G[z + 1]
  BY SpanHeld DEF Holds, now
<1>4. PositionsOf(input.now)[p].which_tree = a
  BY <1>1, <1>2, <1>3 DEF PositionsOf, now
<1>5. n \in Int /\ z - a < n
  <2>1. CASE e = NumQuadrants
    <3>1. PositionsOf(input.now)[p + 1].which_tree = NumTrees
      BY <1>2, <2>1 DEF PositionsOf, now
    <3> QED
      BY <1>3, <1>4, <3>1 DEF NumSendTrees, Trees
  <2>2. CASE e # NumQuadrants
    <3>1. PositionsOf(input.now)[p + 1].which_tree = input.which_tree[e + 1]
      BY <1>2, <2>2 DEF PositionsOf, now
    <3>2. input.which_tree \in Seq(Trees) /\ input \in Forests
      BY ForestsAssumption DEF Begins
    <3>3. e \in 1 .. Len(input.which_tree) /\ e + 1 \in 1 .. Len(input.which_tree)
      BY <1>1, <1>2, <2>2 DEF NumQuadrants
    <3>4. input.which_tree[e] <= input.which_tree[e + 1] /\ input.which_tree[e + 1] \in Trees
      BY <1>2, <3>2, <3>3, TreesOrdered
    <3> QED
      BY <1>3, <1>4, <3>1, <3>4, SMTT(30) DEF NumSendTrees, Trees
  <2> QED
    BY <2>1, <2>2
<1>6. per_tree = [i \in 0 .. n - 1 |->
                  IF a + i \in Span(p) THEN Cardinality(InTree(p, a + i, first, last)) ELSE 0]
  BY DEF PerTree
<1>7. Counted(per_tree, p, t) = IF it \in DOMAIN per_tree THEN per_tree[it] ELSE 0
  BY <1>4 DEF Counted
<1> HIDE DEF a, z, n, per_tree, c, e
<1>8. /\ a \in Nat /\ z \in Nat /\ t \in Nat /\ a \in 0 .. NumTrees /\ z \in 0 .. NumTrees
      /\ a + 1 \in 0 .. NumTrees /\ z + 1 \in 0 .. NumTrees
      /\ t \in 0 .. NumTrees /\ t + 1 \in 0 .. NumTrees
      /\ G[a] \in Nat /\ G[z + 1] \in Nat
  <2>1. a \in Trees /\ z \in Trees
    BY <1>3
  <2> QED
    BY <2>1, BeginTypes DEF Trees
<1>9. CASE t \in Span(p)
  <2>1. it \in 0 .. n - 1 /\ a + it = t
    <3>1. t \in a .. z
      BY <1>3, <1>9
    <3> QED
      BY <1>5, <1>8, <3>1
  <2>2. Counted(per_tree, p, t) = Cardinality(InTree(p, t, first, last))
    BY <1>6, <1>7, <1>9, <2>1
  <2> DEFINE from == Within(input.now, p, G[t])
             to   == Within(input.now, p, G[t + 1])
  <2>3. Cardinality(InTree(p, t, first, last)) =
          Count(High(first + c, from), Low(last + c + 1, to))
    BY <1>9, InTreeHeld DEF c, now
  <2>4. from = Clamp(G[t], c, e) /\ to = Clamp(G[t + 1], c, e)
    BY DEF Within, c, e, now
  <2> HIDE DEF from, to
  <2>5. c <= first + c /\ last + c + 1 <= e /\ first + c \in Int /\ last + c + 1 \in Int
    BY <1>2 DEF c, e
  <2>6. Count(High(first + c, from), Low(last + c + 1, to)) =
          Count(High(first + c, G[t]), Low(last + c + 1, G[t + 1]))
    BY <1>1, <1>2, <2>4, <2>5 DEF Count, High, Low, Clamp
  <2> QED
    BY <2>2, <2>3, <2>6 DEF c, per_tree
<1>10. CASE t \notin Span(p)
  <2>1. Counted(per_tree, p, t) = 0
    <3>1. it \in 0 .. n - 1 => a + it = t
      BY <1>8
    <3> QED
      BY <1>6, <1>7, <1>10, <3>1
  <2>2. c <= first + c /\ last + c + 1 <= e /\ first + c \in Int /\ last + c + 1 \in Int
    BY <1>2 DEF c, e
  <2>3. CASE t < a
    <3>1. G[t + 1] <= G[a]
      BY <1>8, <2>3 DEF Begins
    <3>2. G[t + 1] <= first + c
      <4>1. G[a] <= c /\ c \in Int
        BY <1>2, <1>3
      <4> QED
        BY <1>1, <1>8, <2>2, <3>1, <4>1
    <3>3. Count(High(first + c, G[t]), Low(last + c + 1, G[t + 1])) = 0
      BY <1>1, <2>2, <3>2, Apart
    <3> QED
      BY <2>1, <3>3 DEF c, per_tree
  <2>4. CASE z < t
    <3>1. G[z + 1] <= G[t]
      <4>1. z + 1 <= t
        BY <1>8, <2>4
      <4> QED
        BY <1>8, <4>1 DEF Begins
    <3>2. last + c + 1 <= G[t]
      <4>1. e <= G[z + 1] /\ e \in Int
        BY <1>2, <1>3
      <4> QED
        BY <1>1, <1>8, <2>2, <3>1, <4>1
    <3>3. Count(High(first + c, G[t]), Low(last + c + 1, G[t + 1])) = 0
      BY <1>1, <2>2, <3>2, Apart
    <3> QED
      BY <2>1, <3>3 DEF c, per_tree
  <2>5. t < a \/ z < t
    <3>1. Span(p) = a .. z /\ a \in Int /\ z \in Int /\ t \in Int
      BY <1>3, <1>8 DEF Trees
    <3> HIDE DEF a, z
    <3> QED
      BY <1>10, <3>1
  <2> QED
    BY <2>3, <2>4, <2>5
<1> QED
  BY <1>9, <1>10

(***************************************************************************)
(* What goes from one process to another: the message, and the table that  *)
(* the receiver makes of all of them.                                      *)
(***************************************************************************)
\* where the range that process r had and the one that process p gets meet
MeetFrom(r, p) == High(now(r), new(p))
MeetTo(r, p)   == Low(now(r + 1), new(p + 1))
\* how many quadrants of tree t go from process r to process p
Share(G, r, p, t) == Count(High(MeetFrom(r, p), G[t]), Low(MeetTo(r, p), G[t + 1]))

\* A message holds what goes from its sender to its receiver, and its counts say
\* to which trees.
Says(G, m) ==
  /\ m.quads = Slice(MeetFrom(m.from, m.to), MeetTo(m.from, m.to))
  /\ \A t \in Trees : Counted(m.per_tree, m.from, t) = Share(G, m.from, m.to, t)

(* The cuts of both partitions, as numbers. *)
LEMMA MeetTypes ==
  ASSUME NEW G, Begins(input, G), NEW r \in Procs, NEW p \in Procs
  PROVE  /\ IsPartition(input.now, NumQuadrants) /\ IsPartition(input.new, NumQuadrants)
         /\ now(r) \in Nat /\ now(r + 1) \in Nat /\ now(r) <= now(r + 1)
         /\ new(p) \in Nat /\ new(p + 1) \in Nat /\ new(p) <= new(p + 1)
         /\ now(r + 1) <= NumQuadrants /\ new(p + 1) <= NumQuadrants
         /\ MeetFrom(r, p) \in Nat /\ MeetTo(r, p) \in Nat
         /\ Common(input.now, r, input.new, p) = Count(MeetFrom(r, p), MeetTo(r, p))
<1>1. /\ IsPartition(input.now, NumQuadrants) /\ IsPartition(input.new, NumQuadrants)
      /\ NumQuadrants \in Nat
  BY BeginTypes, ForestsAssumption DEF Begins, NumQuadrants
<1>2. /\ now(r) \in Nat /\ now(r + 1) \in Nat /\ now(r) <= now(r + 1)
      /\ now(r + 1) <= NumQuadrants
  BY <1>1, CutTypes DEF now
<1>3. /\ new(p) \in Nat /\ new(p + 1) \in Nat /\ new(p) <= new(p + 1)
      /\ new(p + 1) <= NumQuadrants
  BY <1>1, CutTypes DEF new
<1>4. MeetFrom(r, p) \in Nat /\ MeetTo(r, p) \in Nat
  BY <1>2, <1>3 DEF MeetFrom, MeetTo, High, Low
<1>5. Common(input.now, r, input.new, p) = Count(MeetFrom(r, p), MeetTo(r, p))
  BY DEF Common, Count, MeetFrom, MeetTo, now, new
<1> QED
  BY <1>1, <1>2, <1>3, <1>4, <1>5

\* Where the part for another process begins among the local quadrants.
LEMMA SendBeginIs ==
  ASSUME NEW G, Begins(input, G), NEW p \in Procs, NEW to \in Procs
  PROVE  SendBegin(p, to) = MeetFrom(p, to) - now(p)
<1>1. FirstOf(LastNew, to) = new(to)
  <2>1. IsPartition(input.new, NumQuadrants)
    BY MeetTypes
  <2> QED
    BY <2>1, FirstIsCut, LastsOfInput DEF new
<1> QED
  BY <1>1 DEF SendBegin, MeetFrom

(* A process counts what goes to another one in the right trees. *)
LEMMA PerTreeIsShare ==
  ASSUME NEW G, Begins(input, G), NEW p \in Procs, NEW to \in Procs,
         Holds(p, input.now), global_first_position[p] = PositionsOf(input.now),
         NEW num, num = Common(input.now, p, input.new, to), num > 0, NEW t \in Trees
  PROVE  LET first == SendBegin(p, to)
         IN  /\ first \in Nat /\ first + num - 1 \in Int
             /\ first + now(p) = MeetFrom(p, to) /\ first + num + now(p) = MeetTo(p, to)
             /\ first + num - 1 < now(p + 1) - now(p)
             /\ Counted(PerTree(p, first, first + num - 1), p, t) = Share(G, p, to, t)
<1> DEFINE first == SendBegin(p, to)
           last  == first + num - 1
           a     == MeetFrom(p, to)
           b     == MeetTo(p, to)
<1>1. /\ IsPartition(input.now, NumQuadrants)
      /\ now(p) \in Nat /\ now(p + 1) \in Nat /\ new(to) \in Nat /\ new(to + 1) \in Nat
      /\ a \in Nat /\ b \in Nat /\ num = Count(a, b)
  BY MeetTypes
<1>2. first = a - now(p)
  BY SendBeginIs
<1>3. now(p) <= a /\ b <= now(p + 1)
  BY <1>1 DEF MeetFrom, MeetTo, High, Low
<1> HIDE DEF first, a, b
<1>4. a < b /\ num = b - a
  BY <1>1 DEF Count
<1>5. /\ first \in Nat /\ last \in Int /\ first + now(p) = a /\ last + now(p) + 1 = b
      /\ last < now(p + 1) - now(p) /\ first + num + now(p) = b /\ now(p) # now(p + 1)
  BY <1>1, <1>2, <1>3, <1>4
<1> HIDE DEF last
<1>6. Counted(PerTree(p, first, last), p, t) =
        Count(High(first + now(p), G[t]), Low(last + now(p) + 1, G[t + 1]))
  BY <1>1, <1>5, PerTreeHeld
<1>7. Counted(PerTree(p, first, last), p, t) = Share(G, p, to, t)
  BY <1>5, <1>6 DEF Share, a, b
<1> QED
  BY <1>5, <1>7 DEF first, last, a, b

(* So a message says what it should. *)
LEMMA MessageSays ==
  ASSUME NEW G, Begins(input, G), NEW p \in Procs, NEW to \in Procs,
         Holds(p, input.now), global_first_position[p] = PositionsOf(input.now),
         NEW num, num = Common(input.now, p, input.new, to), num > 0
  PROVE  Says(G, Message(p, to, num))
<1> DEFINE first == SendBegin(p, to)
           a     == MeetFrom(p, to)
           b     == MeetTo(p, to)
           m     == Message(p, to, num)
<1>1. m.from = p /\ m.to = to /\ m.per_tree = PerTree(p, first, first + num - 1)
      /\ m.quads = [k \in 1 .. num |-> LocalQuad(p, first + k - 1)]
  BY DEF Message
<1>2. ASSUME NEW t \in Trees PROVE Counted(m.per_tree, m.from, t) = Share(G, m.from, m.to, t)
  <2>1. Counted(PerTree(p, first, first + num - 1), p, t) = Share(G, p, to, t)
    BY PerTreeIsShare
  <2> HIDE DEF m, first
  <2> QED
    BY <1>1, <2>1
<1>3. m.quads = Slice(a, b)
  <2>1. /\ IsPartition(input.now, NumQuadrants)
        /\ now(p) \in Nat /\ now(p + 1) \in Nat /\ a \in Nat /\ b \in Nat /\ num = Count(a, b)
    BY MeetTypes
  <2>2. 0 \in Trees
    BY DEF Trees
  <2>3. /\ first \in Nat /\ first + now(p) = a /\ first + num - 1 < now(p + 1) - now(p)
    BY <2>2, PerTreeIsShare
  <2> HIDE DEF m, first, a, b
  <2>4. num \in Nat
    BY <2>1 DEF Count
  <2>5. ASSUME NEW k \in 1 .. num PROVE LocalQuad(p, first + k - 1) = a + k - 1
    <3> DEFINE i == first + k - 1
    <3>1. i \in Nat /\ i < input.now[p + 1] - input.now[p] /\ input.now[p] + i = a + k - 1
      BY <2>1, <2>3, <2>4 DEF now
    <3> HIDE DEF i
    <3>2. LocalQuad(p, i) = input.now[p] + i
      BY <2>1, <3>1, LocalQuadHeld
    <3> QED
      BY <3>1, <3>2 DEF i
  <2> QED
    BY <1>1, <2>1, <2>5 DEF Slice
<1> HIDE DEF m
<1> QED
  BY <1>1, <1>2, <1>3 DEF Says, m

(***************************************************************************)
(* What arrives.                                                           *)
(***************************************************************************)
\* process p can fill in its part: what is for it is there, and says what it should
Ready(G, p) ==
  /\ Begins(input, G) /\ p \in Procs
  /\ Holds(p, input.now) /\ global_first_position[p] = PositionsOf(input.now)
  /\ plan[p] = PlanOf(input, p)
  /\ \A m \in net : m.to = p => Says(G, m)
  /\ \A r \in Procs \ {p} : plan[p].num_recv_from[r] > 0 => \E m \in net : m.from = r /\ m.to = p

(* What the process has planned. *)
LEMMA PlanHeld ==
  ASSUME NEW G, NEW p, Ready(G, p), NEW r \in Procs
  PROVE  /\ plan[p].num_recv_from[r] = Count(MeetFrom(r, p), MeetTo(r, p))
         /\ plan[p].num_send_to[r] = Count(MeetFrom(p, r), MeetTo(p, r))
<1> USE DEF Ready
<1>1. IsPartition(input.now, NumQuadrants) /\ IsPartition(input.new, NumQuadrants)
  BY MeetTypes
<1>2. plan[p].num_recv_from[r] = Common(input.now, r, input.new, p)
  <2>1. plan[p].num_recv_from = Overlap(p, LastOf(input.new), LastOf(input.now))
    BY DEF PlanOf
  <2>2. Overlap(p, LastOf(input.new), LastOf(input.now))[r] = Common(input.new, p, input.now, r)
    BY <1>1, OverlapIsCommon
  <2>3. Common(input.new, p, input.now, r) = Common(input.now, r, input.new, p)
    BY <1>1, CommonIsSymmetric
  <2> QED
    BY <2>1, <2>2, <2>3
<1>3. plan[p].num_send_to[r] = Common(input.now, p, input.new, r)
  <2>1. plan[p].num_send_to = Overlap(p, LastOf(input.now), LastOf(input.new))
    BY DEF PlanOf
  <2>2. Overlap(p, LastOf(input.now), LastOf(input.new))[r] = Common(input.now, p, input.new, r)
    BY <1>1, OverlapIsCommon
  <2> QED
    BY <2>1, <2>2
<1> QED
  BY <1>2, <1>3, MeetTypes

(* The message that is found says what it should. *)
LEMMA ReceivedSays ==
  ASSUME NEW G, NEW p, Ready(G, p), NEW r \in Procs \ {p}, plan[p].num_recv_from[r] > 0
  PROVE  /\ Received(p, r) \in net /\ Received(p, r).from = r /\ Received(p, r).to = p
         /\ Says(G, Received(p, r))
<1>1. \E m \in net : m.from = r /\ m.to = p
  BY DEF Ready
<1>2. Received(p, r) \in net /\ Received(p, r).from = r /\ Received(p, r).to = p
  BY <1>1 DEF Received
<1> QED
  BY <1>2 DEF Ready

(* The table of what arrives is right. *)
LEMMA ArrivingIsShare ==
  ASSUME NEW G, NEW p, Ready(G, p), NEW r \in Procs, NEW t \in Trees
  PROVE  Arriving(p)[r][t] = Share(G, r, p, t)
<1>0. /\ Begins(input, G) /\ p \in Procs /\ Holds(p, input.now)
      /\ global_first_position[p] = PositionsOf(input.now)
  BY DEF Ready
<1>1. Arriving(p)[r][t] = Counted(CountsFrom(p, r), r, t)
  BY <1>0 DEF Arriving, Counted
<1>2. plan[p].num_recv_from[r] = Count(MeetFrom(r, p), MeetTo(r, p))
  BY PlanHeld
<1>3. MeetFrom(r, p) \in Nat /\ MeetTo(r, p) \in Nat
  BY <1>0, MeetTypes
<1>4. Count(MeetFrom(r, p), MeetTo(r, p)) \in Nat
  BY <1>3 DEF Count
<1>5. CASE plan[p].num_recv_from[r] = 0
  <2>1. CountsFrom(p, r) = << >>
    BY <1>5 DEF CountsFrom
  <2>2. Counted(CountsFrom(p, r), r, t) = 0
    BY <2>1 DEF Counted
  <2>3. Share(G, r, p, t) = 0
    <3>1. G[t] \in Nat /\ G[t + 1] \in Nat
      BY <1>0, BeginTypes
    <3>2. MeetTo(r, p) <= MeetFrom(r, p)
      BY <1>2, <1>3, <1>5 DEF Count
    <3>3. /\ MeetFrom(r, p) \in Int /\ MeetTo(r, p) \in Int
          /\ G[t] \in Int /\ G[t + 1] \in Int
      BY <1>3, <3>1
    <3>4. Count(High(MeetFrom(r, p), G[t]), Low(MeetTo(r, p), G[t + 1])) = 0
      BY <3>2, <3>3, Apart
    <3> QED
      BY <3>4 DEF Share
  <2> QED
    BY <1>1, <2>2, <2>3
<1>6. CASE plan[p].num_recv_from[r] # 0 /\ r = p
  <2> DEFINE num == plan[p].num_send_to[p]
  <2>1. num = Common(input.now, p, input.new, p) /\ num > 0
    BY <1>0, <1>2, <1>4, <1>6, PlanHeld, MeetTypes
  <2>2. CountsFrom(p, r) = PerTree(p, SendBegin(p, p), SendBegin(p, p) + num - 1)
    BY <1>6 DEF CountsFrom, KeepBegin, KeepEnd
  <2> HIDE DEF num
  <2>3. Counted(PerTree(p, SendBegin(p, p), SendBegin(p, p) + num - 1), p, t) = Share(G, p, p, t)
    BY <1>0, <2>1, PerTreeIsShare
  <2> QED
    BY <1>1, <1>6, <2>2, <2>3
<1>7. CASE plan[p].num_recv_from[r] # 0 /\ r # p
  <2>1. plan[p].num_recv_from[r] > 0
    BY <1>2, <1>4, <1>7
  <2>2. /\ Says(G, Received(p, r)) /\ Received(p, r).from = r /\ Received(p, r).to = p
    BY <1>7, <2>1, ReceivedSays
  <2>3. CountsFrom(p, r) = Received(p, r).per_tree
    BY <1>7 DEF CountsFrom
  <2> QED
    BY <1>1, <2>2, <2>3 DEF Says
<1> QED
  BY <1>5, <1>6, <1>7

(***************************************************************************)
(* Where what arrives belongs.  The counts in front of it telescope, since *)
(* the ranges of the processes are contiguous.                             *)
(***************************************************************************)
(* How much of x up to y lies in u up to v and in g up to k, as a difference. *)
LEMMA Telescoped ==
  ASSUME NEW x \in Int, NEW y \in Int, NEW u \in Int, NEW v \in Int, NEW g \in Int, NEW k \in Int,
         x <= y, u <= v, g <= k
  PROVE  Count(High(High(x, u), g), Low(Low(y, v), k)) =
           Clamp(y, Clamp(g, u, v), Clamp(k, u, v)) - Clamp(x, Clamp(g, u, v), Clamp(k, u, v))
<1> DEFINE lo == Clamp(g, u, v)
           hi == Clamp(k, u, v)
           a  == High(High(x, u), g)
           b  == Low(Low(y, v), k)
           c  == Clamp(x, lo, hi)
           d  == Clamp(y, lo, hi)
<1>1. /\ lo \in Int /\ hi \in Int /\ lo <= hi
      /\ lo < hi => lo = High(u, g) /\ hi = Low(v, k)
      /\ lo = hi => Low(v, k) <= High(u, g)
  BY DEF Clamp, High, Low
<1>2. a \in Int /\ b \in Int /\ a = High(x, High(u, g)) /\ b = Low(y, Low(v, k))
  BY DEF High, Low
<1>3. High(u, g) \in Int /\ Low(v, k) \in Int
  BY DEF High, Low
<1> HIDE DEF lo, hi, a, b
<1>4. CASE lo < hi
  <2>1. a = High(x, lo) /\ b = Low(y, hi)
    BY <1>1, <1>2, <1>4
  <2> QED
    <3>1. Count(a, b) = d - c
      <4>1. Count(High(x, lo), Low(y, hi)) = d - c
        BY <1>1, <1>4 DEF Count, Clamp, High, Low
      <4> QED
        BY <2>1, <4>1
    <3> QED
      BY <3>1 DEF a, b, lo, hi
<1>5. CASE lo = hi
  <2>1. c = lo /\ d = lo
    BY <1>1, <1>5 DEF Clamp
  <2>2. b <= a
    BY <1>1, <1>2, <1>3, <1>5 DEF High, Low
  <2>3. Count(a, b) = 0
    BY <1>2, <2>2 DEF Count
  <2>4. Count(a, b) = d - c
    BY <1>1, <2>1, <2>3
  <2> QED
    BY <2>4 DEF a, b, lo, hi
<1> QED
  BY <1>1, <1>4, <1>5

(* Every quadrant is in the range of a process. *)
LEMMA Owned ==
  ASSUME NEW total, NEW cut, IsPartition(cut, total), NEW x \in Nat, x < total
  PROVE  \E r \in Procs : cut[r] <= x /\ x < cut[r + 1]
<1> DEFINE S == { r \in 0 .. NumProcs : x < cut[r] }
<1>1. /\ \A r \in 0 .. NumProcs : cut[r] \in Nat
      /\ cut[0] = 0 /\ cut[NumProcs] = total
  BY DEF IsPartition
<1>2. S \in SUBSET Nat /\ NumProcs \in S
  BY <1>1
<1>3. PICK q \in S : \A y \in S : q <= y
  BY <1>2, LeastElement
<1>4. q # 0 /\ q - 1 \in Procs /\ (q - 1) + 1 = q /\ q - 1 \in 0 .. NumProcs /\ x < cut[q]
  BY <1>1, <1>3
<1>5. q - 1 \notin S
  BY <1>2, <1>3
<1>6. cut[q - 1] <= x
  BY <1>1, <1>4, <1>5
<1> QED
  BY <1>4, <1>6

(* It goes to only one. *)
LEMMA OwnedOnce ==
  ASSUME NEW total, NEW cut, IsPartition(cut, total), NEW x \in Nat,
         NEW r \in Procs, cut[r] <= x, x < cut[r + 1],
         NEW q \in Procs, cut[q] <= x, x < cut[q + 1]
  PROVE  q = r
<1>1. /\ cut[q] \in Nat /\ cut[r] \in Nat /\ cut[q + 1] \in Nat /\ cut[r + 1] \in Nat
      /\ q \in 0 .. NumProcs /\ q + 1 \in 0 .. NumProcs
      /\ r \in 0 .. NumProcs /\ r + 1 \in 0 .. NumProcs
  BY DEF IsPartition
<1>2. ~ (q + 1 <= r)
  <2>1. q + 1 <= r => cut[q + 1] <= cut[r]
    BY <1>1, CutsOrdered
  <2> QED
    BY <1>1, <2>1
<1>3. ~ (r + 1 <= q)
  <2>1. r + 1 <= q => cut[r + 1] <= cut[q]
    BY <1>1, CutsOrdered
  <2> QED
    BY <1>1, <2>1
<1> QED
  BY <1>2, <1>3

\* table says what goes from every process to process p, tree by tree
IsTable(G, p, table) == \A r \in Procs : \A t \in Trees : table[r][t] = Share(G, r, p, t)

(* What goes from one process to another is as much of the part as is in the range of the one. *)
LEMMA ShareWithin ==
  ASSUME NEW G, Begins(input, G), NEW r \in Procs, NEW p \in Procs, NEW t \in Trees
  PROVE  LET lo == Within(input.new, p, G[t])
             hi == Within(input.new, p, G[t + 1])
         IN  Share(G, r, p, t) = Clamp(now(r + 1), lo, hi) - Clamp(now(r), lo, hi)
<1> DEFINE x == now(r)
           y == now(r + 1)
           u == new(p)
           v == new(p + 1)
           g == G[t]
           k == G[t + 1]
<1>1. x \in Int /\ y \in Int /\ u \in Int /\ v \in Int /\ g \in Int /\ k \in Int
      /\ x <= y /\ u <= v /\ g <= k
  <2>1. G[t] \in Nat /\ G[t + 1] \in Nat /\ G[t] <= G[t + 1]
    BY BeginTypes
  <2>2. /\ now(r) \in Nat /\ now(r + 1) \in Nat /\ now(r) <= now(r + 1)
        /\ new(p) \in Nat /\ new(p + 1) \in Nat /\ new(p) <= new(p + 1)
    BY MeetTypes
  <2> QED
    BY <2>1, <2>2
<1>2. Share(G, r, p, t) = Count(High(High(x, u), g), Low(Low(y, v), k))
  BY DEF Share, MeetFrom, MeetTo
<1>3. Within(input.new, p, g) = Clamp(g, u, v) /\ Within(input.new, p, k) = Clamp(k, u, v)
  BY DEF Within, new
<1> HIDE DEF x, y, u, v, g, k
<1>4. Count(High(High(x, u), g), Low(Low(y, v), k)) =
        Clamp(y, Clamp(g, u, v), Clamp(k, u, v)) - Clamp(x, Clamp(g, u, v), Clamp(k, u, v))
  BY <1>1, Telescoped
<1> QED
  BY <1>2, <1>3, <1>4 DEF x, y, g, k

(* What the processes below one bring of a tree is what is in front of the range of that one. *)
LEMMA BeforeIs ==
  ASSUME NEW G, Begins(input, G), NEW p \in Procs, NEW table, IsTable(G, p, table),
         NEW t \in Trees, NEW from \in 0 .. NumProcs
  PROVE  LET lo == Within(input.new, p, G[t])
             hi == Within(input.new, p, G[t + 1])
         IN  Before(table, from, t) = Clamp(now(from), lo, hi) - lo
<1> DEFINE lo == Within(input.new, p, G[t])
           hi == Within(input.new, p, G[t + 1])
           f  == [r \in Procs |-> table[r][t]]
           h  == [r \in 0 .. NumProcs |-> Clamp(now(r), lo, hi)]
           last == from - 1
<1>1. G[t] \in Nat /\ G[t + 1] \in Nat /\ G[t] <= G[t + 1] /\ NumQuadrants \in Nat
  BY BeginTypes
<1>2. new(p) \in Nat /\ new(p + 1) \in Nat /\ new(p) <= new(p + 1)
      /\ IsPartition(input.now, NumQuadrants)
  BY MeetTypes
<1>3. /\ lo = Clamp(G[t], new(p), new(p + 1)) /\ hi = Clamp(G[t + 1], new(p), new(p + 1))
  BY DEF Within, new
<1> HIDE DEF lo, hi
<1>4. lo \in Nat /\ hi \in Nat /\ lo <= hi
  BY <1>1, <1>2, <1>3 DEF Clamp
<1>5. \A r \in 0 .. NumProcs : now(r) \in Nat /\ h[r] \in Int
  BY <1>2, <1>4 DEF IsPartition, now, Clamp
<1>6. ASSUME NEW r \in Procs PROVE f[r] = h[r + 1] - h[r]
  <2>1. r \in 0 .. NumProcs /\ r + 1 \in 0 .. NumProcs
    OBVIOUS
  <2>2. f[r] = Share(G, r, p, t) /\ h[r] = Clamp(now(r), lo, hi)
        /\ h[r + 1] = Clamp(now(r + 1), lo, hi)
    BY <2>1 DEF IsTable
  <2>3. Share(G, r, p, t) = Clamp(now(r + 1), lo, hi) - Clamp(now(r), lo, hi)
    BY ShareWithin DEF lo, hi
  <2> HIDE DEF f, h
  <2> QED
    BY <2>2, <2>3
<1>7. last \in Int /\ 0 <= last + 1 /\ last + 1 = from
  OBVIOUS
<1>8. Sum(f, 0, last) = h[last + 1] - h[0]
  <2>1. \A i \in 0 .. last + 1 : h[i] \in Int
    BY <1>5, <1>7
  <2>2. \A i \in 0 .. last : f[i] = h[i + 1] - h[i]
    <3>1. \A i \in 0 .. last : i \in Procs
      BY <1>7
    <3> HIDE DEF f, h, last
    <3> QED
      BY <1>6, <3>1
  <2>3. 0 \in Int /\ last \in Int /\ 0 <= last + 1
    BY <1>7
  <2> HIDE DEF f, h, last
  <2> QED
    BY <2>1, <2>2, <2>3, Telescope
<1>9. h[0] = lo
  <2>1. now(0) = 0 /\ h[0] = Clamp(now(0), lo, hi)
    BY <1>2 DEF IsPartition, now
  <2> HIDE DEF h
  <2> QED
    BY <1>4, <2>1 DEF Clamp
<1>10. h[from] = Clamp(now(from), lo, hi)
  OBVIOUS
<1>11. Before(table, from, t) = Sum(f, 0, last)
  BY DEF Before
<1> HIDE DEF f, h, last
<1> QED
  BY <1>7, <1>8, <1>9, <1>10, <1>11 DEF lo, hi

(* All that arrives of a tree is the part of it that the process gets. *)
LEMMA NewCountIs ==
  ASSUME NEW G, Begins(input, G), NEW p \in Procs, NEW table, IsTable(G, p, table),
         NEW t \in Trees
  PROVE  NewCount(table, t) = Within(input.new, p, G[t + 1]) - Within(input.new, p, G[t])
<1> DEFINE lo == Within(input.new, p, G[t])
           hi == Within(input.new, p, G[t + 1])
<1>1. G[t] \in Nat /\ G[t + 1] \in Nat /\ G[t] <= G[t + 1] /\ NumQuadrants \in Nat
  BY BeginTypes
<1>2. new(p) \in Nat /\ new(p + 1) \in Nat /\ new(p) <= new(p + 1)
      /\ new(p + 1) <= NumQuadrants /\ IsPartition(input.now, NumQuadrants)
  BY MeetTypes
<1>3. Before(table, NumProcs, t) = Clamp(now(NumProcs), lo, hi) - lo
  <2>1. NumProcs \in 0 .. NumProcs
    OBVIOUS
  <2> QED
    BY <2>1, BeforeIs
<1>4. now(NumProcs) = NumQuadrants
  BY <1>2 DEF IsPartition, now
<1>5. /\ lo = Clamp(G[t], new(p), new(p + 1)) /\ hi = Clamp(G[t + 1], new(p), new(p + 1))
  BY DEF Within, new
<1> HIDE DEF lo, hi
<1>6. lo <= hi /\ hi <= NumQuadrants /\ lo \in Nat /\ hi \in Nat
  BY <1>1, <1>2, <1>5 DEF Clamp
<1>7. Clamp(NumQuadrants, lo, hi) = hi
  BY <1>1, <1>6 DEF Clamp
<1> QED
  BY <1>3, <1>4, <1>7 DEF NewCount, lo, hi

(* What a message brings of the trees below one is what is in front of that tree. *)
LEMMA TreesBefore ==
  ASSUME NEW G, Begins(input, G), NEW p \in Procs, NEW table, IsTable(G, p, table),
         NEW r \in Procs, NEW t \in Trees
  PROVE  LET a == MeetFrom(r, p)
             b == High(a, MeetTo(r, p))
         IN  Sum(table[r], 0, t - 1) = Clamp(G[t], a, b) - a
<1> DEFINE a == MeetFrom(r, p)
           m == MeetTo(r, p)
           b == High(a, m)
           f == table[r]
           h == [s \in 0 .. NumTrees |-> Clamp(G[s], a, b)]
           last == t - 1
<1>1. a \in Nat /\ m \in Nat
  BY MeetTypes
<1> HIDE DEF a, m
<1>2. b \in Nat /\ a <= b
  BY <1>1 DEF High
<1>3. \A s \in 0 .. NumTrees : G[s] \in Nat /\ h[s] \in Int
  <2>1. \A s \in 0 .. NumTrees : G[s] \in Nat
    BY BeginTypes
  <2> HIDE DEF b
  <2> QED
    BY <1>1, <1>2, <2>1 DEF Clamp
<1>4. ASSUME NEW s \in Trees PROVE f[s] = h[s + 1] - h[s]
  <2>1. /\ s \in 0 .. NumTrees /\ s + 1 \in 0 .. NumTrees
        /\ G[s] \in Nat /\ G[s + 1] \in Nat /\ G[s] <= G[s + 1]
    BY BeginTypes
  <2>2. f[s] = Count(High(a, G[s]), Low(m, G[s + 1])) /\ h[s] = Clamp(G[s], a, b)
        /\ h[s + 1] = Clamp(G[s + 1], a, b)
    BY <2>1 DEF IsTable, Share, a, m
  <2> DEFINE g == G[s]
             k == G[s + 1]
  <2>3. g \in Int /\ k \in Int /\ g <= k /\ a \in Int /\ m \in Int
    BY <1>1, <2>1
  <2> HIDE DEF g, k, f, h
  <2>4. Count(High(a, g), Low(m, k)) = Clamp(k, a, High(a, m)) - Clamp(g, a, High(a, m))
    BY <2>3 DEF Count, High, Low, Clamp
  <2> QED
    BY <2>2, <2>4 DEF g, k
<1>5. last \in Int /\ 0 <= last + 1 /\ last + 1 = t /\ t \in 0 .. NumTrees
  BY DEF Trees
<1>6. Sum(f, 0, last) = h[last + 1] - h[0]
  <2>1. \A i \in 0 .. last + 1 : h[i] \in Int
    BY <1>3, <1>5
  <2>2. \A i \in 0 .. last : f[i] = h[i + 1] - h[i]
    BY <1>4, <1>5 DEF Trees
  <2>3. 0 \in Int /\ last \in Int /\ 0 <= last + 1
    BY <1>5
  <2> HIDE DEF f, h, last
  <2> QED
    BY <2>1, <2>2, <2>3, Telescope
<1>7. h[0] = a
  <2>1. G[0] = 0 /\ h[0] = Clamp(G[0], a, b)
    BY DEF Begins
  <2> HIDE DEF h, b
  <2> QED
    BY <1>1, <1>2, <2>1 DEF Clamp
<1>8. h[t] = Clamp(G[t], a, b)
  BY <1>5
<1> HIDE DEF f, h, b
<1>9. Sum(f, 0, last) = Clamp(G[t], a, b) - a
  BY <1>5, <1>6, <1>7, <1>8
<1> QED
  BY <1>9 DEF f, last, a, b, m

(***************************************************************************)
(* Filling in.                                                             *)
(***************************************************************************)
(* What stays of a tree is what the process has of it in both partitions. *)
LEMMA KeptHeld ==
  ASSUME NEW G, NEW p, Ready(G, p), NEW t \in Trees
  PROVE  LET from == Within(input.now, p, G[t])
             a    == High(MeetFrom(p, p), from)
             b    == Low(MeetTo(p, p), Within(input.now, p, G[t + 1]))
         IN  /\ a \in Nat /\ b \in Nat
             /\ Kept(p, t) = a - from .. b - from - 1
             /\ Cardinality(Kept(p, t)) = Count(a, b)
<1> DEFINE from == Within(input.now, p, G[t])
           to   == Within(input.now, p, G[t + 1])
           first == MeetFrom(p, p)
           last  == MeetTo(p, p)
           a    == High(first, from)
           b    == Low(last, to)
           num  == plan[p].num_send_to[p]
<1>0. Begins(input, G) /\ p \in Procs /\ Holds(p, input.now)
  BY DEF Ready
<1>1. first \in Nat /\ last \in Nat /\ now(p) \in Nat /\ now(p + 1) \in Nat
      /\ now(p) <= first /\ last <= now(p + 1) /\ IsPartition(input.now, NumQuadrants)
  <2>1. first \in Nat /\ last \in Nat /\ now(p) \in Nat /\ now(p + 1) \in Nat
        /\ IsPartition(input.now, NumQuadrants)
    BY <1>0, MeetTypes
  <2>2. new(p) \in Nat /\ new(p + 1) \in Nat
    BY <1>0, MeetTypes
  <2> QED
    BY <2>1, <2>2 DEF MeetFrom, MeetTo, High, Low
<1>2. num = Count(first, last)
  BY <1>0, PlanHeld
<1>3. from \in Nat /\ to \in Nat /\ from <= to
  BY <1>0, <1>1, PartWithin
<1>4. KeepBegin(p) = first - now(p) /\ KeepEnd(p) = first - now(p) + num - 1
  BY <1>0, SendBeginIs DEF KeepBegin, KeepEnd
<1>5. input.now[p] = now(p) /\ input.now[p + 1] = now(p + 1)
  BY DEF now
<1>6. Kept(p, t) = IF num > 0 /\ t \in Span(p) THEN InTree(p, t, KeepBegin(p), KeepEnd(p)) ELSE {}
  BY DEF Kept
<1> SUFFICES /\ a \in Nat /\ b \in Nat
             /\ Kept(p, t) = a - from .. b - from - 1
             /\ Cardinality(Kept(p, t)) = Count(a, b)
  BY DEF from, to, first, last
<1> HIDE DEF from, to, first, last, num
<1>7. a \in Nat /\ b \in Nat
  BY <1>1, <1>3 DEF High, Low
<1>8. CASE num > 0 /\ t \in Span(p)
  <2>1. num = last - first /\ first < last
    BY <1>1, <1>2, <1>8 DEF Count
  <2>2. now(p) # now(p + 1)
    BY <1>1, <2>1
  <2>3. KeepBegin(p) + now(p) = first /\ KeepEnd(p) + now(p) + 1 = last
        /\ KeepBegin(p) \in Int /\ KeepEnd(p) \in Int
    BY <1>1, <1>4, <2>1
  <2>4. LET c == High(KeepBegin(p) + now(p), from)
            d == Low(KeepEnd(p) + now(p) + 1, to)
        IN  /\ InTree(p, t, KeepBegin(p), KeepEnd(p)) = c - from .. d - from - 1
            /\ Cardinality(InTree(p, t, KeepBegin(p), KeepEnd(p))) = Count(c, d)
    BY <1>0, <1>1, <1>5, <1>8, <2>2, <2>3, InTreeHeld DEF from, to
  <2> QED
    BY <1>6, <1>7, <1>8, <2>3, <2>4
<1>9. CASE ~ (num > 0 /\ t \in Span(p))
  <2>1. Kept(p, t) = {}
    BY <1>6, <1>9
  <2>2. b <= a
    <3>1. CASE ~ (num > 0)
      <4>1. last <= first
        BY <1>1, <1>2, <3>1 DEF Count
      <4> QED
        BY <1>1, <1>3, <4>1 DEF High, Low
    <3>2. CASE t \notin Span(p)
      <4>1. local_trees[p] = EndsOf(input.now, p)
        BY <1>0 DEF Holds
      <4>2. from = to
        BY <1>0, <1>1, <3>2, <4>1, SpanHasParts DEF from, to
      <4> QED
        BY <1>1, <1>3, <4>2 DEF High, Low
    <3> QED
      BY <1>9, <3>1, <3>2
  <2> HIDE DEF a, b
  <2>3. a - from .. b - from - 1 = {}
    BY <1>3, <1>7, <2>2
  <2>4. Count(a, b) = 0
    BY <1>7, <2>2 DEF Count
  <2> QED
    BY <1>7, <2>1, <2>3, <2>4, FS_EmptySet
<1> QED
  BY <1>8, <1>9

\* z is in the range of r before and of p afterwards, and in tree t
Goes(G, z, r, p, t) ==
  /\ z \in Int /\ now(r) <= z /\ z < now(r + 1) /\ new(p) <= z /\ z < new(p + 1)
  /\ G[t] <= z /\ z < G[t + 1]

(* What goes from one process to another and has its place in the message and in the array. *)
LEMMA GoesTo ==
  ASSUME NEW G, Begins(input, G), NEW r \in Procs, NEW p \in Procs, NEW t \in Trees, NEW z,
         Goes(G, z, r, p, t)
  PROVE  LET lo == Within(input.new, p, G[t])
             hi == Within(input.new, p, G[t + 1])
             a  == MeetFrom(r, p)
             c  == Clamp(G[t], a, High(a, MeetTo(r, p)))
         IN  /\ z \in Nat /\ lo \in Nat /\ a \in Nat /\ c \in Nat
             /\ lo <= z /\ z < hi /\ a <= z /\ z < MeetTo(r, p) /\ c <= z
             /\ Clamp(now(r), lo, hi) = c
             /\ c = High(a, Within(input.now, r, G[t]))
             /\ z < Low(MeetTo(r, p), Within(input.now, r, G[t + 1]))
<1> DEFINE x == now(r)
           y == now(r + 1)
           u == new(p)
           v == new(p + 1)
           g == G[t]
           k == G[t + 1]
<1>1. /\ x \in Nat /\ y \in Nat /\ u \in Nat /\ v \in Nat /\ g \in Nat /\ k \in Nat
  <2>1. g \in Nat /\ k \in Nat
    BY BeginTypes
  <2> QED
    BY <2>1, MeetTypes
<1>2. z \in Int /\ x <= z /\ z < y /\ u <= z /\ z < v /\ g <= z /\ z < k
  BY DEF Goes
<1>3. /\ Within(input.new, p, g) = Clamp(g, u, v) /\ Within(input.new, p, k) = Clamp(k, u, v)
      /\ Within(input.now, r, g) = Clamp(g, x, y) /\ Within(input.now, r, k) = Clamp(k, x, y)
      /\ MeetFrom(r, p) = High(x, u) /\ MeetTo(r, p) = Low(y, v)
  BY DEF Within, new, now, MeetFrom, MeetTo
<1>4. now(r) = x
  OBVIOUS
<1> DEFINE a  == High(x, u)
           m  == Low(y, v)
           lo == Clamp(g, u, v)
           hi == Clamp(k, u, v)
           c  == Clamp(g, a, High(a, m))
<1> SUFFICES /\ z \in Nat /\ lo \in Nat /\ a \in Nat /\ c \in Nat
             /\ lo <= z /\ z < hi /\ a <= z /\ z < m /\ c <= z
             /\ Clamp(x, lo, hi) = c /\ c = High(a, Clamp(g, x, y))
             /\ z < Low(m, Clamp(k, x, y))
  BY <1>3, <1>4
<1> HIDE DEF x, y, u, v, g, k
<1>5. /\ x \in Int /\ y \in Int /\ u \in Int /\ v \in Int /\ g \in Int /\ k \in Int /\ z \in Int
      /\ z \in Nat
  BY <1>1, <1>2
<1>6. lo = High(g, u) /\ hi = Low(k, v)
  BY <1>2, <1>5 DEF Clamp, High, Low
<1>7. a \in Nat /\ a <= z /\ m \in Int /\ z < m
  BY <1>1, <1>2, <1>5 DEF High, Low
<1>8. lo \in Nat /\ hi \in Int /\ lo <= z /\ z < hi
  <2> HIDE DEF lo, hi
  <2> QED
    BY <1>1, <1>2, <1>5, <1>6 DEF High, Low
<1>9. High(a, m) = m
  <2> HIDE DEF a, m
  <2> QED
    BY <1>5, <1>7 DEF High
<1>10. Clamp(x, lo, hi) = High(x, lo)
  <2> HIDE DEF lo, hi
  <2> QED
    BY <1>2, <1>5, <1>8 DEF Clamp, High
<1>11. c = High(g, a)
  <2>1. c = Clamp(g, a, m)
    BY <1>9
  <2> HIDE DEF a, m, c
  <2> QED
    BY <1>2, <1>5, <1>7, <2>1 DEF Clamp, High
<1>12. High(x, lo) = High(g, a) /\ High(g, a) = High(a, High(g, x))
  <2>1. /\ High(x, High(g, u)) = High(g, High(x, u))
        /\ High(g, High(x, u)) = High(High(x, u), High(g, x))
    BY <1>5 DEF High
  <2> QED
    BY <1>6, <2>1
<1>13. Clamp(g, x, y) = High(g, x) /\ Clamp(k, x, y) = Low(k, y)
  BY <1>2, <1>5 DEF Clamp, High, Low
<1>14. z < Low(m, Low(k, y))
  BY <1>2, <1>5 DEF Low
<1>15. High(g, a) \in Nat /\ High(g, a) <= z
  <2> HIDE DEF a
  <2> QED
    BY <1>1, <1>2, <1>5, <1>7 DEF High
<1> HIDE DEF a, m, lo, hi, c
<1> QED
  BY <1>5, <1>7, <1>8, <1>10, <1>11, <1>12, <1>13, <1>14, <1>15

(* What the process keeps is moved to its place. *)
LEMMA MovedIs ==
  ASSUME NEW G, NEW p, Ready(G, p), NEW t \in Trees, NEW z, Goes(G, z, p, p, t)
  PROVE  LET lo == Within(input.new, p, G[t])
             hi == Within(input.new, p, G[t + 1])
         IN  MovedTo(p, t, Clamp(now(p), lo, hi) - lo, z - lo + 1) = z
<1> DEFINE lo   == Within(input.new, p, G[t])
           hi   == Within(input.new, p, G[t + 1])
           first == MeetFrom(p, p)
           from == Within(input.now, p, G[t])
           to   == Within(input.now, p, G[t + 1])
           c    == Clamp(G[t], first, High(first, MeetTo(p, p)))
           b    == Low(MeetTo(p, p), to)
           k    == z - lo + 1
           before == c - lo
<1>0. Begins(input, G) /\ p \in Procs /\ Holds(p, input.now)
      /\ IsPartition(input.now, NumQuadrants)
  BY MeetTypes DEF Ready
<1>1. /\ z \in Nat /\ lo \in Nat /\ c \in Nat /\ lo <= z /\ c <= z
      /\ Clamp(now(p), lo, hi) = c /\ c = High(first, from) /\ z < b
  BY <1>0, GoesTo
<1>2. /\ b \in Nat /\ Kept(p, t) = High(first, from) - from .. b - from - 1
      /\ Cardinality(Kept(p, t)) = Count(High(first, from), b)
  BY KeptHeld
<1>3. /\ from \in Nat /\ to \in Nat
      /\ \A i \in 1 .. to - from : trees[p][t][i] = from + i - 1
  BY <1>0, TreeHeld DEF Holds
<1>4. b <= to /\ from <= c
  <2>1. MeetTo(p, p) \in Nat /\ first \in Nat
    BY <1>0, MeetTypes
  <2> HIDE DEF from, to, first, c
  <2> QED
    BY <1>1, <1>3, <2>1 DEF High, Low
<1>5. MovedTo(p, t, before, k) =
        IF Kept(p, t) # {} /\ before < k /\ k <= before + Cardinality(Kept(p, t))
        THEN trees[p][t][Min(Kept(p, t)) + k - before]
        ELSE IF k <= Len(trees[p][t]) THEN trees[p][t][k] ELSE Garbage
  BY DEF MovedTo
<1> SUFFICES MovedTo(p, t, before, k) = z
  BY <1>1
<1> HIDE DEF lo, hi, first, from, to, c, b
<1>6. Kept(p, t) = c - from .. b - from - 1 /\ Cardinality(Kept(p, t)) = b - c
  BY <1>1, <1>2 DEF Count
<1>7. Min(Kept(p, t)) = c - from /\ Kept(p, t) # {}
  <2>1. c - from \in Kept(p, t) /\ Kept(p, t) \in SUBSET Int
        /\ \A y \in Kept(p, t) : c - from <= y
    BY <1>1, <1>2, <1>3, <1>6
  <2> QED
    BY <2>1, MinIs
<1>8. before < k /\ k <= before + (b - c)
  BY <1>1, <1>2
<1>9. MovedTo(p, t, before, k) = trees[p][t][(c - from) + k - before]
  <2> HIDE DEF k, before
  <2> QED
    BY <1>5, <1>6, <1>7, <1>8
<1>10. (c - from) + k - before = z - from + 1
  BY <1>1, <1>3
<1>11. z - from + 1 \in 1 .. to - from /\ from + (z - from + 1) - 1 = z
  <2>1. to \in Nat /\ from \in Nat
    BY <1>3
  <2>2. z < b /\ z \in Nat /\ c \in Nat /\ c <= z /\ b \in Nat /\ b <= to /\ from <= c
    BY <1>1, <1>2, <1>4
  <2> QED
    BY <2>1, <2>2
<1> QED
  BY <1>3, <1>9, <1>10, <1>11

(* What another process sends is found in its message. *)
LEMMA CopiedIs ==
  ASSUME NEW G, NEW p, Ready(G, p), NEW table, IsTable(G, p, table), NEW t \in Trees,
         NEW r \in Procs \ {p}, NEW z, Goes(G, z, r, p, t)
  PROVE  LET lo == Within(input.new, p, G[t])
             hi == Within(input.new, p, G[t + 1])
         IN  Received(p, r).quads[Sum(table[r], 0, t - 1) + (z - lo + 1)
                                    - (Clamp(now(r), lo, hi) - lo)] = z
<1> DEFINE lo == Within(input.new, p, G[t])
           hi == Within(input.new, p, G[t + 1])
           a  == MeetFrom(r, p)
           m  == MeetTo(r, p)
           c  == Clamp(G[t], a, High(a, m))
<1>0. Begins(input, G) /\ p \in Procs
  BY DEF Ready
<1>1. /\ z \in Nat /\ lo \in Nat /\ a \in Nat /\ c \in Nat /\ a <= z /\ z < m /\ c <= z
      /\ Clamp(now(r), lo, hi) = c
  BY <1>0, GoesTo
<1>2. m \in Nat
  BY <1>0, MeetTypes
<1>3. Sum(table[r], 0, t - 1) = c - a
  BY <1>0, TreesBefore
<1>4. plan[p].num_recv_from[r] = Count(a, m)
  BY PlanHeld
<1>5. Received(p, r).quads = Slice(a, m)
  <2>1. plan[p].num_recv_from[r] > 0
    <3> HIDE DEF a, m
    <3> QED
      BY <1>1, <1>2, <1>4 DEF Count
  <2>2. /\ Received(p, r).from = r /\ Received(p, r).to = p /\ Says(G, Received(p, r))
    BY <2>1, ReceivedSays
  <2> QED
    BY <2>2 DEF Says
<1> SUFFICES Received(p, r).quads[Sum(table[r], 0, t - 1) + (z - lo + 1)
                                    - (Clamp(now(r), lo, hi) - lo)] = z
  OBVIOUS
<1> HIDE DEF lo, hi, a, m, c
<1>6. (c - a) + (z - lo + 1) - (c - lo) = z - a + 1
  BY <1>1
<1>7. z - a + 1 \in 1 .. Count(a, m) /\ a + (z - a + 1) - 1 = z
  BY <1>1, <1>2 DEF Count
<1>8. Slice(a, m)[z - a + 1] = z
  BY <1>7 DEF Slice
<1> QED
  BY <1>1, <1>3, <1>5, <1>6, <1>8

(* Every entry of the array is filled with the quadrant that belongs there. *)
LEMMA FilledIs ==
  ASSUME NEW G, NEW p, Ready(G, p), NEW t \in Trees
  PROVE  Filled(p, t, Arriving(p)) = PartOfTree(new(p), new(p + 1) - 1, t)
<1> DEFINE table == Arriving(p)
           lo == Within(input.new, p, G[t])
           hi == Within(input.new, p, G[t + 1])
           before == [r \in Procs |-> Before(table, r, t)]
           source(k) == { r \in Procs \ {p} :
                            before[r] < k /\ k <= before[r] + table[r][t] }
           copied(k, r) == Received(p, r).quads[Sum(table[r], 0, t - 1) + k - before[r]]
           entry(k) == IF source(k) = {} THEN MovedTo(p, t, before[p], k)
                       ELSE copied(k, CHOOSE r \in source(k) : TRUE)
<1>0. Begins(input, G) /\ p \in Procs
      /\ IsPartition(input.now, NumQuadrants) /\ IsPartition(input.new, NumQuadrants)
  BY MeetTypes DEF Ready
<1>1. IsTable(G, p, table)
  BY ArrivingIsShare DEF IsTable
<1>2. /\ lo \in Nat /\ hi \in Nat /\ lo <= hi
      /\ PartOfTree(new(p), new(p + 1) - 1, t) = [k \in 1 .. hi - lo |-> lo + k - 1]
  BY <1>0, PartWithin DEF new
<1>3. Filled(p, t, table) = [k \in 1 .. NewCount(table, t) |-> entry(k)]
  BY DEF Filled
<1>4. NewCount(table, t) = hi - lo
  BY <1>0, <1>1, NewCountIs
<1>5. \A r \in Procs : /\ before[r] = Clamp(now(r), lo, hi) - lo
                       /\ table[r][t] = Clamp(now(r + 1), lo, hi) - Clamp(now(r), lo, hi)
                       /\ now(r) \in Nat /\ now(r + 1) \in Nat /\ now(r) <= now(r + 1)
  <2> SUFFICES ASSUME NEW r \in Procs
               PROVE  /\ Before(table, r, t) = Clamp(now(r), lo, hi) - lo
                      /\ table[r][t] = Clamp(now(r + 1), lo, hi) - Clamp(now(r), lo, hi)
                      /\ now(r) \in Nat /\ now(r + 1) \in Nat /\ now(r) <= now(r + 1)
    OBVIOUS
  <2> HIDE DEF table
  <2>1. Before(table, r, t) = Clamp(now(r), lo, hi) - lo
    <3>1. r \in 0 .. NumProcs
      OBVIOUS
    <3> QED
      BY <1>0, <1>1, <3>1, BeforeIs
  <2>2. table[r][t] = Clamp(now(r + 1), lo, hi) - Clamp(now(r), lo, hi)
    <3>1. table[r][t] = Share(G, r, p, t)
      BY <1>1 DEF IsTable
    <3> QED
      BY <1>0, <3>1, ShareWithin
  <2> QED
    BY <1>0, <2>1, <2>2, MeetTypes
<1>6. ASSUME NEW k \in 1 .. hi - lo PROVE entry(k) = lo + k - 1
  <2> DEFINE z == lo + k - 1
  <2>1. z \in Nat /\ lo <= z /\ z < hi /\ k = z - lo + 1
    BY <1>2
  <2>2. new(p) <= z /\ z < new(p + 1) /\ G[t] <= z /\ z < G[t + 1] /\ z < NumQuadrants
    <3>1. G[t] \in Nat /\ G[t + 1] \in Nat /\ G[t] <= G[t + 1] /\ G[t + 1] <= NumQuadrants
          /\ NumQuadrants \in Nat
      BY <1>0, BeginTypes
    <3>2. new(p) \in Nat /\ new(p + 1) \in Nat /\ new(p) <= new(p + 1)
      BY <1>0, MeetTypes
    <3>3. lo = Clamp(G[t], new(p), new(p + 1)) /\ hi = Clamp(G[t + 1], new(p), new(p + 1))
      BY DEF Within, new
    <3> HIDE DEF lo, hi, z
    <3> QED
      BY <2>1, <3>1, <3>2, <3>3 DEF Clamp
  <2>3. PICK q \in Procs : now(q) <= z /\ z < now(q + 1)
    <3> HIDE DEF z
    <3> QED
      BY <1>0, <2>1, <2>2, Owned DEF now
  <2>4. Goes(G, z, q, p, t)
    BY <2>1, <2>2, <2>3 DEF Goes
  <2>5. ASSUME NEW r \in Procs
        PROVE  (before[r] < k /\ k <= before[r] + table[r][t]) <=> r = q
    <3>1. /\ before[r] = Clamp(now(r), lo, hi) - lo
          /\ table[r][t] = Clamp(now(r + 1), lo, hi) - Clamp(now(r), lo, hi)
          /\ now(r) \in Nat /\ now(r + 1) \in Nat /\ now(r) <= now(r + 1)
      BY <1>5
    <3>2. (now(r) <= z /\ z < now(r + 1)) <=> r = q
      <4>1. (now(r) <= z /\ z < now(r + 1)) => r = q
        <5> HIDE DEF z
        <5> QED
          BY <1>0, <2>1, <2>3, OwnedOnce DEF now
      <4> QED
        BY <2>3, <4>1
    <3> DEFINE x == now(r)
               y == now(r + 1)
    <3>3. (Clamp(x, lo, hi) - lo < k
              /\ k <= (Clamp(x, lo, hi) - lo) + (Clamp(y, lo, hi) - Clamp(x, lo, hi)))
             <=> (x <= z /\ z < y)
      <4>1. x \in Nat /\ y \in Nat /\ x <= y
        BY <3>1
      <4> HIDE DEF x, y, lo, hi, z
      <4> QED
        BY <1>2, <2>1, <4>1 DEF Clamp
    <3> HIDE DEF before, table, lo, hi, z
    <3> QED
      BY <3>1, <3>2, <3>3 DEF x, y
  <2>6. before[q] = Clamp(now(q), lo, hi) - lo
    BY <1>5
  <2>7. CASE q = p
    <3>1. source(k) = {}
      <4> HIDE DEF before, table
      <4> QED
        BY <2>5, <2>7
    <3>2. entry(k) = MovedTo(p, t, before[p], k)
      BY <3>1
    <3> HIDE DEF before, table, entry, source
    <3>3. MovedTo(p, t, Clamp(now(p), lo, hi) - lo, z - lo + 1) = z
      <4> HIDE DEF z
      <4> QED
        BY <2>4, <2>7, MovedIs
    <3> QED
      BY <2>1, <2>6, <2>7, <3>2, <3>3
  <2>8. CASE q # p
    <3>1. source(k) = {q}
      <4> HIDE DEF before, table
      <4> QED
        BY <2>5, <2>8
    <3>2. entry(k) = copied(k, q)
      <4> HIDE DEF copied
      <4> QED
        BY <3>1
    <3>3. Received(p, q).quads[Sum(table[q], 0, t - 1) + (z - lo + 1)
                                 - (Clamp(now(q), lo, hi) - lo)] = z
      <4> HIDE DEF z, table
      <4> QED
        BY <1>1, <2>4, <2>8, CopiedIs
    <3>4. copied(k, q) = Received(p, q).quads[Sum(table[q], 0, t - 1) + k - before[q]]
      OBVIOUS
    <3> HIDE DEF before, table, entry, copied
    <3> QED
      BY <2>1, <2>6, <3>2, <3>3, <3>4
  <2> QED
    BY <2>7, <2>8
<1> HIDE DEF table, entry, lo, hi
<1>7. [k \in 1 .. NewCount(table, t) |-> entry(k)] = [k \in 1 .. hi - lo |-> lo + k - 1]
  BY <1>4, <1>6
<1> QED
  BY <1>2, <1>3, <1>7 DEF table

(* Every quadrant is in a tree. *)
LEMMA InATree ==
  ASSUME NEW G, Begins(input, G), NEW x \in Nat, x < NumQuadrants
  PROVE  \E t \in Trees : G[t] <= x /\ x < G[t + 1]
<1>1. input.which_tree[x + 1] \in Trees
  <2>1. input.which_tree \in Seq(Trees)
    BY ForestsAssumption DEF Begins
  <2>2. x + 1 \in 1 .. Len(input.which_tree)
    <3>1. Len(input.which_tree) \in Nat
      BY <2>1
    <3> QED
      BY <3>1 DEF NumQuadrants
  <2> QED
    BY <2>1, <2>2
<1>2. x \in 0 .. Len(input.which_tree) - 1
  <2>1. NumQuadrants \in Nat
    BY BeginTypes
  <2> QED
    BY <2>1 DEF NumQuadrants
<1> QED
  BY <1>1, <1>2 DEF Begins

(* The arrays hold the range of the process. *)
LEMMA StoredIs ==
  ASSUME NEW G, Begins(input, G), NEW cut, IsPartition(cut, NumQuadrants), NEW p \in Procs,
         trees[p] = PartsOf(cut, p)
  PROVE  Stored(p) = cut[p] .. cut[p + 1] - 1
<1>1. /\ NumQuadrants \in Nat /\ cut[p] \in Nat /\ cut[p + 1] \in Nat
      /\ cut[p] <= cut[p + 1] /\ cut[p + 1] <= NumQuadrants
  BY BeginTypes, CutTypes
<1>2. ASSUME NEW x \in Stored(p) PROVE x \in cut[p] .. cut[p + 1] - 1
  <2>1. PICK t \in Trees : x \in ToSet(trees[p][t])
    BY DEF Stored
  <2>2. PICK i \in DOMAIN trees[p][t] : x = trees[p][t][i]
    BY <2>1 DEF ToSet
  <2> DEFINE from == Within(cut, p, G[t])
             to   == Within(cut, p, G[t + 1])
  <2>3. /\ from \in Nat /\ to \in Nat /\ cut[p] <= from /\ to <= cut[p + 1]
        /\ DOMAIN trees[p][t] = 1 .. to - from
        /\ \A k \in 1 .. to - from : trees[p][t][k] = from + k - 1
    BY TreeHeld
  <2> HIDE DEF from, to
  <2>4. i \in 1 .. to - from /\ x = from + i - 1
    BY <2>2, <2>3
  <2> QED
    BY <1>1, <2>3, <2>4
<1>3. ASSUME NEW x \in cut[p] .. cut[p + 1] - 1 PROVE x \in Stored(p)
  <2>1. x \in Nat /\ x < NumQuadrants /\ cut[p] <= x /\ x < cut[p + 1]
    BY <1>1
  <2>2. PICK t \in Trees : G[t] <= x /\ x < G[t + 1]
    BY <2>1, InATree
  <2> DEFINE from == Within(cut, p, G[t])
             to   == Within(cut, p, G[t + 1])
  <2>3. /\ from \in Nat /\ to \in Nat
        /\ DOMAIN trees[p][t] = 1 .. to - from
        /\ \A k \in 1 .. to - from : trees[p][t][k] = from + k - 1
    BY TreeHeld
  <2>4. from <= x /\ x < to
    <3>1. G[t] \in Nat /\ G[t + 1] \in Nat
      BY BeginTypes
    <3> QED
      BY <1>1, <2>1, <2>2, <3>1 DEF Within, Clamp
  <2> HIDE DEF from, to
  <2>5. x - from + 1 \in DOMAIN trees[p][t] /\ trees[p][t][x - from + 1] = x
    BY <2>1, <2>3, <2>4
  <2>6. x \in ToSet(trees[p][t])
    BY <2>5 DEF ToSet
  <2> QED
    BY <2>6 DEF Stored
<1> QED
  BY <1>2, <1>3

(* What is freed of a tree is what the process loses of it. *)
LEMMA FreedIs ==
  ASSUME NEW G, NEW p, Ready(G, p), NEW t \in Trees, NEW table, NEW x
  PROVE  x \in Freed(p, t, table) <=>
           /\ x \in now(p) .. now(p + 1) - 1 /\ x \notin new(p) .. new(p + 1) - 1
           /\ G[t] <= x /\ x < G[t + 1]
<1> DEFINE from == Within(input.now, p, G[t])
           to   == Within(input.now, p, G[t + 1])
           a    == High(MeetFrom(p, p), from)
           b    == Low(MeetTo(p, p), to)
<1>0. Begins(input, G) /\ p \in Procs /\ trees[p] = PartsOf(input.now, p)
  BY DEF Ready, Holds
<1>1. /\ now(p) \in Nat /\ now(p + 1) \in Nat /\ now(p) <= now(p + 1)
      /\ new(p) \in Nat /\ new(p + 1) \in Nat /\ IsPartition(input.now, NumQuadrants)
  BY <1>0, MeetTypes
<1>2. G[t] \in Nat /\ G[t + 1] \in Nat /\ G[t] <= G[t + 1]
  BY <1>0, BeginTypes
<1>3. /\ from \in Nat /\ to \in Nat /\ from <= to
      /\ Len(trees[p][t]) = to - from
      /\ \A k \in 1 .. to - from : trees[p][t][k] = from + k - 1
  BY <1>0, <1>1, TreeHeld
<1>4. a \in Nat /\ b \in Nat /\ Kept(p, t) = a - from .. b - from - 1
  BY KeptHeld
<1>5. ASSUME NEW y \in Int
      PROVE  /\ (from <= y /\ y < to)
                   <=> (now(p) <= y /\ y < now(p + 1) /\ G[t] <= y /\ y < G[t + 1])
             /\ (from <= y /\ y < to) =>
                  ((a <= y /\ y < b) <=> (new(p) <= y /\ y < new(p + 1)))
  <2>1. (from <= y /\ y < to)
          <=> (now(p) <= y /\ y < now(p + 1) /\ G[t] <= y /\ y < G[t + 1])
    BY <1>1, <1>2 DEF Within, Clamp, now
  <2>2. (a <= y /\ y < b) <=> /\ now(p) <= y /\ new(p) <= y /\ from <= y
                              /\ y < now(p + 1) /\ y < new(p + 1) /\ y < to
    <3> HIDE DEF from, to
    <3> QED
      BY <1>1, <1>3 DEF High, Low, MeetFrom, MeetTo
  <2> HIDE DEF from, to, a, b
  <2> QED
    BY <2>1, <2>2
<1> HIDE DEF from, to, a, b
<1>6. x \in Freed(p, t, table) <=>
        \E k \in (0 .. (to - from) - 1) \ (a - from .. b - from - 1) : x = trees[p][t][k + 1]
  BY <1>3, <1>4 DEF Freed
<1>7. ASSUME NEW k \in 0 .. (to - from) - 1 PROVE trees[p][t][k + 1] = from + k
  <2>1. k + 1 \in 1 .. to - from /\ from + (k + 1) - 1 = from + k
    BY <1>3
  <2> QED
    BY <1>3, <2>1
<1>8. x \in Freed(p, t, table) <=> x \in Int /\ from <= x /\ x < to /\ ~ (a <= x /\ x < b)
  <2>1. ASSUME NEW k \in (0 .. (to - from) - 1) \ (a - from .. b - from - 1),
               x = trees[p][t][k + 1]
        PROVE  x \in Int /\ from <= x /\ x < to /\ ~ (a <= x /\ x < b)
    <3>1. x = from + k
      BY <1>7, <2>1
    <3> QED
      BY <1>3, <1>4, <2>1, <3>1
  <2>2. ASSUME x \in Int, from <= x, x < to, ~ (a <= x /\ x < b)
        PROVE  /\ x - from \in (0 .. (to - from) - 1) \ (a - from .. b - from - 1)
               /\ x = trees[p][t][(x - from) + 1]
    <3>1. x - from \in 0 .. (to - from) - 1 /\ from + (x - from) = x
      BY <1>3, <2>2
    <3>2. x - from \notin a - from .. b - from - 1
      BY <1>3, <1>4, <2>2
    <3> QED
      BY <1>7, <3>1, <3>2
  <2> QED
    BY <1>6, <2>1, <2>2
<1> QED
  <2>1. x \in Freed(p, t, table) =>
          /\ x \in Int /\ now(p) <= x /\ x < now(p + 1) /\ G[t] <= x /\ x < G[t + 1]
          /\ ~ (new(p) <= x /\ x < new(p + 1))
    BY <1>5, <1>8
  <2>2. (/\ x \in Int /\ now(p) <= x /\ x < now(p + 1) /\ G[t] <= x /\ x < G[t + 1]
         /\ ~ (new(p) <= x /\ x < new(p + 1))) => x \in Freed(p, t, table)
    BY <1>5, <1>8
  <2> QED
    BY <1>1, <2>1, <2>2

(* What is freed and what arrives turn the old range into the new one. *)
LEMMA UserDataIs ==
  ASSUME NEW G, NEW p, Ready(G, p), \A m \in net : m.from \in Procs, NEW table
  PROVE  ((now(p) .. now(p + 1) - 1) \ UNION { Freed(p, t, table) : t \in Span(p) })
            \union UNION { ToSet(m.quads) : m \in { n \in net : n.to = p } }
           = new(p) .. new(p + 1) - 1
<1> DEFINE freed == UNION { Freed(p, t, table) : t \in Span(p) }
           come  == UNION { ToSet(m.quads) : m \in { n \in net : n.to = p } }
<1>0. Begins(input, G) /\ p \in Procs /\ Holds(p, input.now)
  BY DEF Ready
<1>1. /\ now(p) \in Nat /\ now(p + 1) \in Nat /\ now(p) <= now(p + 1)
      /\ new(p) \in Nat /\ new(p + 1) \in Nat
      /\ now(p + 1) <= NumQuadrants /\ new(p + 1) <= NumQuadrants /\ NumQuadrants \in Nat
      /\ IsPartition(input.now, NumQuadrants) /\ IsPartition(input.new, NumQuadrants)
  BY <1>0, MeetTypes, BeginTypes
<1>2. ASSUME NEW x \in now(p) .. now(p + 1) - 1
      PROVE  x \in freed <=> x \notin new(p) .. new(p + 1) - 1
  <2>1. x \in Nat /\ x < NumQuadrants /\ now(p) <= x /\ x < now(p + 1)
    BY <1>1
  <2>2. PICK t \in Trees : G[t] <= x /\ x < G[t + 1]
    BY <1>0, <2>1, InATree
  <2>3. t \in Span(p)
    <3>1. Within(input.now, p, G[t]) # Within(input.now, p, G[t + 1])
      <4>1. G[t] \in Nat /\ G[t + 1] \in Nat
        BY <1>0, BeginTypes
      <4> QED
        BY <1>1, <2>1, <2>2, <4>1 DEF Within, Clamp, now
    <3>2. local_trees[p] = EndsOf(input.now, p)
      BY <1>0 DEF Holds
    <3> QED
      BY <1>0, <1>1, <3>1, <3>2, SpanHasParts
  <2>4. ASSUME NEW s \in Span(p), x \in Freed(p, s, table) PROVE x \notin new(p) .. new(p + 1) - 1
    <3>1. s \in Trees
      <4>1. local_trees[p] = EndsOf(input.now, p) /\ input.now[p] # input.now[p + 1]
        BY <1>0, <2>1, <1>1 DEF Holds, now
      <4>2. /\ local_trees[p][1] \in Trees /\ local_trees[p][2] \in Trees
            /\ Span(p) = local_trees[p][1] .. local_trees[p][2]
        BY <1>0, <1>1, <4>1, SpanHeld
      <4> QED
        BY <4>2 DEF Trees
    <3> QED
      BY <2>4, <3>1, FreedIs
  <2>5. x \notin new(p) .. new(p + 1) - 1 => x \in Freed(p, t, table)
    BY <2>2, FreedIs
  <2> QED
    BY <2>3, <2>4, <2>5
<1>3. ASSUME NEW x \in come PROVE x \in new(p) .. new(p + 1) - 1
  <2>1. PICK m \in net : m.to = p /\ x \in ToSet(m.quads)
    OBVIOUS
  <2>2. m.quads = Slice(MeetFrom(m.from, p), MeetTo(m.from, p)) /\ m.from \in Procs
    BY <2>1 DEF Ready, Says
  <2> DEFINE r == m.from
             a == MeetFrom(r, p)
             b == MeetTo(r, p)
  <2>3. a \in Nat /\ b \in Nat /\ new(p) <= a /\ b <= new(p + 1)
    <3>1. now(r) \in Nat /\ now(r + 1) \in Nat
      BY <1>0, <2>2, MeetTypes
    <3> HIDE DEF r
    <3> QED
      BY <1>1, <3>1 DEF MeetFrom, MeetTo, High, Low
  <2>4. PICK k \in 1 .. Count(a, b) : x = a + k - 1
    BY <2>1, <2>2 DEF ToSet, Slice
  <2> HIDE DEF a, b
  <2> QED
    BY <1>1, <2>3, <2>4 DEF Count
<1>4. ASSUME NEW x \in new(p) .. new(p + 1) - 1, x \notin now(p) .. now(p + 1) - 1
      PROVE  x \in come
  <2>1. x \in Nat /\ x < NumQuadrants /\ new(p) <= x /\ x < new(p + 1)
    BY <1>1
  <2>2. PICK r \in Procs : now(r) <= x /\ x < now(r + 1)
    BY <1>1, <2>1, Owned DEF now
  <2>3. r # p
    BY <1>1, <1>4, <2>1, <2>2
  <2> DEFINE a == MeetFrom(r, p)
             b == MeetTo(r, p)
  <2>4. a \in Nat /\ b \in Nat /\ a <= x /\ x < b
    <3>1. now(r) \in Nat /\ now(r + 1) \in Nat
      BY <1>0, MeetTypes
    <3> QED
      BY <1>1, <2>1, <2>2, <3>1 DEF MeetFrom, MeetTo, High, Low
  <2>5. plan[p].num_recv_from[r] > 0
    <3>1. plan[p].num_recv_from[r] = Count(a, b)
      BY PlanHeld
    <3> HIDE DEF a, b
    <3> QED
      BY <2>4, <3>1 DEF Count
  <2>6. /\ Received(p, r) \in net /\ Received(p, r).from = r /\ Received(p, r).to = p
        /\ Received(p, r).quads = Slice(a, b)
    BY <2>3, <2>5, ReceivedSays DEF Says
  <2>7. x \in ToSet(Slice(a, b))
    <3> HIDE DEF a, b
    <3>1. x - a + 1 \in 1 .. Count(a, b) /\ a + (x - a + 1) - 1 = x
      BY <2>1, <2>4 DEF Count
    <3> QED
      BY <3>1 DEF ToSet, Slice
  <2> QED
    BY <2>6, <2>7
<1> HIDE DEF freed, come
<1>5. ((now(p) .. now(p + 1) - 1) \ freed) \union come = new(p) .. new(p + 1) - 1
  <2>1. ASSUME NEW x \in ((now(p) .. now(p + 1) - 1) \ freed) \union come
        PROVE  x \in new(p) .. new(p + 1) - 1
    BY <1>2, <1>3
  <2>2. ASSUME NEW x \in new(p) .. new(p + 1) - 1
        PROVE  x \in ((now(p) .. now(p + 1) - 1) \ freed) \union come
    BY <1>2, <1>4
  <2> QED
    BY <2>1, <2>2
<1> QED
  BY <1>5 DEF freed, come

(***************************************************************************)
(* The counts and the positions that go with the arrays.                   *)
(***************************************************************************)
\* what a process counts for itself in every tree
CountsOf(G, p, elements) ==
  elements = [t \in Trees |-> Within(input.new, p, G[t + 1]) - Within(input.new, p, G[t])]

(* The first and last local tree are counted right. *)
LEMMA EndsCounted ==
  ASSUME NEW G, Begins(input, G), NEW p \in Procs, NEW elements, CountsOf(G, p, elements)
  PROVE  LocalTreesOf(elements) = EndsOf(input.new, p)
<1> DEFINE used == { t \in Trees : elements[t] > 0 }
           u == new(p)
           v == new(p + 1)
<1>1. /\ u \in Nat /\ v \in Nat /\ u <= v /\ v <= NumQuadrants /\ NumQuadrants \in Nat
  BY MeetTypes, BeginTypes
<1>2. \A t \in Trees : /\ elements[t] = Clamp(G[t + 1], u, v) - Clamp(G[t], u, v)
                       /\ G[t] \in Nat /\ G[t + 1] \in Nat /\ G[t] <= G[t + 1]
                       /\ t \in 0 .. NumTrees /\ t + 1 \in 0 .. NumTrees
  BY BeginTypes DEF CountsOf, Within, new
<1>3. EndsOf(input.new, p) = IF u = v THEN << -1, -2 >>
                             ELSE << input.which_tree[u + 1], input.which_tree[v] >>
  BY DEF EndsOf, new
<1>4. LocalTreesOf(elements) = IF used = {} THEN << -1, -2 >> ELSE << Min(used), Max(used) >>
  BY DEF LocalTreesOf
<1>5. ASSUME NEW s \in Trees, NEW t \in Trees, s < t PROVE G[s + 1] <= G[t]
  <2>1. s + 1 \in 0 .. NumTrees /\ t \in 0 .. NumTrees /\ s + 1 <= t
    BY <1>2, <1>5 DEF Trees
  <2> QED
    BY <2>1 DEF Begins
<1> HIDE DEF u, v
<1>6. CASE u = v
  <2>1. \A t \in Trees : elements[t] = 0
    BY <1>1, <1>2, <1>6 DEF Clamp
  <2>2. used = {}
    BY <2>1
  <2> QED
    BY <1>3, <1>4, <1>6, <2>2
<1>7. CASE u # v
  <2>1. u < v /\ u < NumQuadrants /\ v - 1 \in Nat /\ v - 1 < NumQuadrants
    BY <1>1, <1>7
  <2> DEFINE a == input.which_tree[u + 1]
             z == input.which_tree[v]
  <2>2. /\ a \in Trees /\ G[a] <= u /\ u < G[a + 1]
        /\ z \in Trees /\ G[z] <= v - 1 /\ v - 1 < G[z + 1]
    <3>1. input.which_tree \in Seq(Trees) /\ NumQuadrants = Len(input.which_tree)
      BY ForestsAssumption DEF Begins, NumQuadrants
    <3>2. a \in Trees /\ z \in Trees
      <4>1. u + 1 \in 1 .. Len(input.which_tree) /\ v \in 1 .. Len(input.which_tree)
        BY <1>1, <2>1, <3>1
      <4> QED
        BY <3>1, <4>1
    <3>3. u \in 0 .. Len(input.which_tree) - 1 /\ v - 1 \in 0 .. Len(input.which_tree) - 1
          /\ (v - 1) + 1 = v
      BY <1>1, <2>1, <3>1
    <3>4. \A i \in 0 .. Len(input.which_tree) - 1 : \A t \in Trees :
            input.which_tree[i + 1] = t <=> G[t] <= i /\ i < G[t + 1]
      BY DEF Begins
    <3> QED
      BY <3>2, <3>3, <3>4
  <2> HIDE DEF a, z
  <2>3. a \in used /\ z \in used
    BY <1>1, <1>2, <2>1, <2>2 DEF Clamp
  <2>4. ASSUME NEW t \in Trees, elements[t] > 0 PROVE a <= t /\ t <= z
    <3>1. G[t + 1] > u /\ G[t] < v
      BY <1>1, <1>2, <2>1, <2>4 DEF Clamp
    <3>2. ~ (t < a)
      <4>1. t < a => G[t + 1] <= G[a]
        BY <1>5, <2>2
      <4> QED
        BY <1>1, <1>2, <2>2, <3>1, <4>1
    <3>3. ~ (z < t)
      <4>1. z < t => G[z + 1] <= G[t]
        BY <1>5, <2>2
      <4> QED
        BY <1>1, <1>2, <2>2, <3>1, <4>1
    <3> QED
      BY <2>2, <3>2, <3>3 DEF Trees
  <2>5. used \in SUBSET Int /\ \A t \in used : a <= t /\ t <= z
    BY <2>4 DEF Trees
  <2> HIDE DEF used
  <2>6. Min(used) = a /\ Max(used) = z
    BY <2>3, <2>5, MinIs, MaxIs
  <2> QED
    BY <1>3, <1>4, <1>7, <2>3, <2>6 DEF a, z
<1> QED
  BY <1>6, <1>7

(* The local trees are those between the first and the last one with a quadrant. *)
LEMMA SpanIsLocal ==
  ASSUME NEW G, Begins(input, G), NEW cut, IsPartition(cut, NumQuadrants), NEW p \in Procs,
         Holds(p, cut)
  PROVE  Span(p) = { t \in Trees : \E s, u \in Trees :
                       s <= t /\ t <= u /\ trees[p][s] # << >> /\ trees[p][u] # << >> }
<1>0. local_trees[p] = EndsOf(cut, p) /\ trees[p] = PartsOf(cut, p)
  BY DEF Holds
<1>1. cut[p] \in Nat /\ cut[p + 1] \in Nat /\ cut[p] <= cut[p + 1] /\ NumQuadrants \in Nat
  BY BeginTypes, CutTypes
<1>2. ASSUME NEW t \in Trees
      PROVE  /\ trees[p][t] # << >> <=> Within(cut, p, G[t]) # Within(cut, p, G[t + 1])
             /\ trees[p][t] # << >> => t \in Span(p) /\ cut[p] # cut[p + 1]
  <2> DEFINE from == Within(cut, p, G[t])
             to   == Within(cut, p, G[t + 1])
  <2>1. /\ from \in Nat /\ to \in Nat /\ from <= to /\ DOMAIN trees[p][t] = 1 .. to - from
        /\ trees[p][t] = [k \in 1 .. to - from |-> from + k - 1]
    BY <1>0, PartWithin, TreeHeld DEF PartsOf
  <2> HIDE DEF from, to
  <2>2. from = to => trees[p][t] = << >>
    <3>1. from = to => 1 .. to - from = {}
      BY <2>1
    <3> QED
      BY <2>1, <3>1
  <2>3. from # to => trees[p][t] # << >>
    <3>1. from # to => 1 \in 1 .. to - from
      BY <2>1
    <3> QED
      BY <2>1, <3>1
  <2>4. from # to => t \in Span(p) /\ cut[p] # cut[p + 1]
    BY <1>0, SpanHasParts DEF from, to
  <2> QED
    BY <2>2, <2>3, <2>4 DEF from, to
<1>3. CASE cut[p] = cut[p + 1]
  <2>1. Span(p) = {}
    BY <1>0, <1>3 DEF EndsOf, Span
  <2> QED
    BY <1>2, <1>3, <2>1
<1>4. CASE cut[p] # cut[p + 1]
  <2> DEFINE a == local_trees[p][1]
             z == local_trees[p][2]
  <2>1. /\ a \in Trees /\ z \in Trees /\ a <= z /\ Span(p) = a .. z
        /\ G[a] <= cut[p] /\ cut[p] < G[a + 1]
        /\ G[z] < cut[p + 1] /\ cut[p + 1] <= G[z + 1]
    BY <1>0, <1>4, SpanHeld
  <2>2. trees[p][a] # << >> /\ trees[p][z] # << >>
    <3>1. /\ G[a] \in Nat /\ G[a + 1] \in Nat /\ G[z] \in Nat /\ G[z + 1] \in Nat
      BY <2>1, BeginTypes
    <3>2. /\ Within(cut, p, G[a]) # Within(cut, p, G[a + 1])
          /\ Within(cut, p, G[z]) # Within(cut, p, G[z + 1])
      <4> HIDE DEF a, z
      <4> QED
        BY <1>1, <1>4, <2>1, <3>1 DEF Within, Clamp
    <3> HIDE DEF a, z
    <3> QED
      BY <1>2, <2>1, <3>2
  <2> HIDE DEF a, z
  <2>3. a \in Int /\ z \in Int /\ \A t \in a .. z : t \in Trees
    BY <2>1 DEF Trees
  <2>4. ASSUME NEW t \in Trees, NEW s \in Trees, NEW u \in Trees, s <= t, t <= u,
               trees[p][s] # << >>, trees[p][u] # << >>
        PROVE  t \in a .. z
    <3>1. s \in a .. z /\ u \in a .. z
      BY <1>2, <2>1, <2>4
    <3> QED
      BY <2>3, <2>4, <3>1 DEF Trees
  <2> QED
    <3>1. ASSUME NEW t \in a .. z
          PROVE  t \in { x \in Trees : \E s, u \in Trees :
                           s <= x /\ x <= u /\ trees[p][s] # << >> /\ trees[p][u] # << >> }
      <4>1. a <= t /\ t <= z /\ t \in Trees /\ a \in Trees /\ z \in Trees
        BY <2>1, <2>3
      <4> QED
        BY <2>2, <4>1
    <3>2. ASSUME NEW t \in { x \in Trees : \E s, u \in Trees :
                           s <= x /\ x <= u /\ trees[p][s] # << >> /\ trees[p][u] # << >> }
          PROVE  t \in a .. z
      BY <2>4
    <3> QED
      BY <2>1, <3>1, <3>2
<1> QED
  BY <1>3, <1>4

(* The counts that go with the arrays are right when the arrays are. *)
LEMMA ElementsCounted ==
  ASSUME NEW G, Begins(input, G), NEW p \in Procs, trees[p] = PartsOf(input.new, p)
  PROVE  CountsOf(G, p, Elements(p))
<1>1. IsPartition(input.new, NumQuadrants)
  BY MeetTypes
<1>2. ASSUME NEW t \in Trees
      PROVE  Len(trees[p][t]) = Within(input.new, p, G[t + 1]) - Within(input.new, p, G[t])
  BY <1>1, TreeHeld
<1> QED
  BY <1>2 DEF CountsOf, Elements

(* An offset is the number of local quadrants in front of the tree. *)
LEMMA OffsetIsBegin ==
  ASSUME NEW p \in Procs, NEW t \in Span(p), t \in Trees, local_trees[p][1] \in Int,
         local_trees[p][2] \in Int, LocalTreesOf(Elements(p)) = local_trees[p]
  PROVE  OffsetsOf(Elements(p))[t] = TreeBegin(p, t)
<1>1. local_trees[p][1] <= t /\ t <= local_trees[p][2] /\ t \in Int
  BY DEF Span
<1>2. ~ (t < local_trees[p][1]) /\ Low(t - 1, local_trees[p][2]) = t - 1
  BY <1>1 DEF Low
<1>3. OffsetsOf(Elements(p))[t] =
        IF t < local_trees[p][1] THEN 0
        ELSE Sum(Elements(p), local_trees[p][1], Low(t - 1, local_trees[p][2]))
  BY DEF OffsetsOf
<1> QED
  BY <1>2, <1>3 DEF TreeBegin

(* Everybody finds the first quadrant of every process. *)
LEMMA PositionIs ==
  ASSUME NEW G, Begins(input, G), NEW cut, IsPartition(cut, NumQuadrants),
         \A q \in Procs : Holds(q, cut), NEW r \in 0 .. NumProcs
  PROVE  PositionOf(r) = PositionsOf(cut)[r]
<1> DEFINE T == { i \in r .. NumProcs - 1 : local_trees[i][1] >= 0 }
<1>1. /\ \A q \in 0 .. NumProcs : cut[q] \in Nat /\ cut[q] <= NumQuadrants
      /\ cut[NumProcs] = NumQuadrants /\ NumQuadrants \in Nat
  <2>1. NumProcs \in 0 .. NumProcs
    OBVIOUS
  <2>2. \A q \in 0 .. NumProcs : cut[q] <= cut[NumProcs]
    BY <2>1, CutsOrdered
  <2> QED
    BY <2>2, BeginTypes DEF IsPartition
<1>2. ASSUME NEW i \in Procs
      PROVE  /\ cut[i] = cut[i + 1] => ~ (local_trees[i][1] >= 0)
             /\ cut[i] # cut[i + 1] =>
                  /\ local_trees[i][1] >= 0
                  /\ local_trees[i][1] = input.which_tree[cut[i] + 1]
                  /\ trees[i][local_trees[i][1]][1] = cut[i]
  <2>0. local_trees[i] = EndsOf(cut, i) /\ trees[i] = PartsOf(cut, i)
    BY DEF Holds
  <2>1. cut[i] = cut[i + 1] => ~ (local_trees[i][1] >= 0)
    <3>1. cut[i] = cut[i + 1] => local_trees[i][1] = -1
      BY <2>0 DEF EndsOf
    <3> QED
      BY <3>1
  <2>2. ASSUME cut[i] # cut[i + 1]
        PROVE  /\ local_trees[i][1] >= 0
               /\ local_trees[i][1] = input.which_tree[cut[i] + 1]
               /\ trees[i][local_trees[i][1]][1] = cut[i]
    <3> DEFINE a == local_trees[i][1]
    <3>1. a = input.which_tree[cut[i] + 1] /\ a \in Trees /\ G[a] <= cut[i] /\ cut[i] < G[a + 1]
      BY <2>0, <2>2, SpanHeld
    <3>2. a >= 0
      BY <3>1 DEF Trees
    <3> DEFINE from == Within(cut, i, G[a])
               to   == Within(cut, i, G[a + 1])
    <3> HIDE DEF a
    <3>3. /\ from \in Nat /\ to \in Nat
          /\ \A k \in 1 .. to - from : trees[i][a][k] = from + k - 1
      <4>1. a \in Trees /\ trees[i] = PartsOf(cut, i)
        BY <2>0, <3>1
      <4> QED
        BY <4>1, TreeHeld, SMTT(30)
    <3>4. from = cut[i] /\ from < to
      <4>1. /\ cut[i] \in Nat /\ cut[i + 1] \in Nat /\ cut[i] <= cut[i + 1]
            /\ G[a] \in Nat /\ G[a + 1] \in Nat
        BY <1>1, <3>1, CutTypes, BeginTypes
      <4> QED
        BY <2>2, <3>1, <4>1 DEF Within, Clamp
    <3> HIDE DEF from, to
    <3>5. 1 \in 1 .. to - from /\ from + 1 - 1 = from
      BY <3>3, <3>4
    <3>6. trees[i][a][1] = cut[i]
      BY <3>3, <3>4, <3>5
    <3> QED
      BY <3>1, <3>2, <3>6 DEF a
  <2> QED
    BY <2>1, <2>2
<1>3. WithQuadrants(r) = Min(T \union {NumProcs})
  BY DEF WithQuadrants
<1>4. CASE cut[r] = NumQuadrants
  <2>1. ASSUME NEW i \in r .. NumProcs - 1 PROVE cut[i] = cut[i + 1]
    <3>1. i \in 0 .. NumProcs /\ i + 1 \in 0 .. NumProcs /\ r <= i /\ r <= i + 1
      OBVIOUS
    <3>2. cut[r] <= cut[i] /\ cut[r] <= cut[i + 1]
      BY <3>1, CutsOrdered
    <3> QED
      BY <1>1, <1>4, <3>1, <3>2
  <2>2. T = {}
    <3>1. \A i \in r .. NumProcs - 1 : i \in Procs
      OBVIOUS
    <3> QED
      BY <1>2, <2>1, <3>1
  <2>3. Min(T \union {NumProcs}) = NumProcs
    <3>1. T \union {NumProcs} \in SUBSET Int /\ NumProcs \in T \union {NumProcs}
          /\ \A y \in T \union {NumProcs} : NumProcs <= y
      BY <2>2
    <3> HIDE DEF T
    <3> QED
      BY <3>1, MinIs
  <2>4. PositionOf(r) = [ which_tree |-> NumTrees, quad |-> NumQuadrants ]
    BY <1>3, <2>3, Zenon DEF PositionOf
  <2> QED
    BY <1>4, <2>4 DEF PositionsOf
<1>5. CASE cut[r] # NumQuadrants
  <2>1. cut[r] \in Nat /\ cut[r] < NumQuadrants
    BY <1>1, <1>5
  <2>2. PICK i \in Procs : cut[i] <= cut[r] /\ cut[r] < cut[i + 1]
    BY <2>1, Owned
  <2>3. i \in 0 .. NumProcs /\ i + 1 \in 0 .. NumProcs /\ cut[i] \in Nat /\ cut[i + 1] \in Nat
    BY <1>1, <2>2
  <2>4. r <= i
    <3>1. i + 1 <= r => cut[i + 1] <= cut[r]
      BY <2>3, CutsOrdered
    <3> QED
      BY <2>1, <2>2, <2>3, <3>1
  <2>5. cut[i] = cut[r]
    <3>1. cut[r] <= cut[i]
      BY <2>3, <2>4, CutsOrdered
    <3> QED
      BY <2>1, <2>2, <2>3, <3>1
  <2>6. cut[i] # cut[i + 1]
    BY <2>2, <2>3, <2>5
  <2>7. i \in T
    BY <1>2, <2>4, <2>6
  <2>8. ASSUME NEW j \in T PROVE i <= j
    <3> SUFFICES ASSUME j < i PROVE FALSE
      BY <2>2
    <3>1. j \in Procs /\ local_trees[j][1] >= 0 /\ j \in 0 .. NumProcs /\ j + 1 \in 0 .. NumProcs
          /\ r <= j /\ j + 1 <= i
      BY <2>2
    <3>2. cut[r] <= cut[j] /\ cut[j] <= cut[j + 1] /\ cut[j + 1] <= cut[i]
      BY <2>3, <3>1, CutsOrdered
    <3>3. cut[j] = cut[j + 1]
      BY <1>1, <2>5, <3>1, <3>2
    <3> QED
      BY <1>2, <3>1, <3>3
  <2>9. Min(T \union {NumProcs}) = i
    <3>1. T \union {NumProcs} \in SUBSET Int /\ i \in T \union {NumProcs}
          /\ \A y \in T \union {NumProcs} : i <= y
      BY <2>2, <2>7, <2>8
    <3> HIDE DEF T
    <3> QED
      BY <3>1, MinIs
  <2>10. i # NumProcs
    BY <2>2
  <2>11. PositionOf(r) = [ which_tree |-> local_trees[i][1],
                           quad |-> trees[i][local_trees[i][1]][1] ]
    BY <1>3, <2>9, <2>10, Zenon DEF PositionOf
  <2>12. local_trees[i][1] = input.which_tree[cut[r] + 1]
         /\ trees[i][local_trees[i][1]][1] = cut[r]
    BY <1>2, <2>5, <2>6
  <2> QED
    BY <1>5, <2>11, <2>12 DEF PositionsOf
<1> QED
  BY <1>4, <1>5

(***************************************************************************)
(* The invariant: the process holds its range of the old partition until   *)
(* it fills in its part and that of the new one from then on, and every    *)
(* message says what the two ranges have in common.                        *)
(***************************************************************************)
Early == { "post", "wait" }
Shapes ==
  /\ trees = [p \in Procs |-> trees[p]] /\ user_data = [p \in Procs |-> user_data[p]]
  /\ local_trees = [p \in Procs |-> local_trees[p]] /\ arriving = [p \in Procs |-> arriving[p]]
  /\ quadrants_offset = [p \in Procs |-> quadrants_offset[p]]
  /\ global_first_quadrant = [p \in Procs |-> global_first_quadrant[p]]
  /\ global_first_position = [p \in Procs |-> global_first_position[p]]
Held(p, cut) == Holds(p, cut) /\ user_data[p] = cut[p] .. cut[p + 1] - 1
PartsHeld ==
  \A p \in Procs : /\ pc[p] \in Early => Held(p, input.now)
                   /\ pc[p] \notin Early => Held(p, input.new)
FirstsHeld ==
  \A p \in Procs :
    /\ pc[p] \in Early => global_first_quadrant[p] = input.now
    /\ pc[p] \notin Early => /\ global_first_quadrant[p] = input.new
                             /\ quadrants_offset[p] = OffsetsOf(Elements(p))
PositionsHeld ==
  \A p \in Procs : /\ pc[p] # "done" => global_first_position[p] = PositionsOf(input.now)
                   /\ pc[p] = "done" => global_first_position[p] = PositionsOf(input.new)
MessagesHeld == \A m \in net : \A G : Begins(input, G) => Says(G, m)
PartsInv ==
  /\ Delivery /\ Shapes /\ PartsHeld /\ FirstsHeld /\ PositionsHeld /\ MessagesHeld

(* What a process should hold depends on the input alone. *)
LEMMA InputDecides ==
  ASSUME input' = input
  PROVE  /\ \A cut, q : PartsOf(cut, q)' = PartsOf(cut, q) /\ EndsOf(cut, q)' = EndsOf(cut, q)
         /\ \A cut : PositionsOf(cut)' = PositionsOf(cut)
         /\ \A G, m : Says(G, m)' <=> Says(G, m)
<1>1. \A cut, q : PartsOf(cut, q)' = PartsOf(cut, q)
  BY DEF PartsOf, PartOfTree
<1>2. \A cut, q : EndsOf(cut, q)' = EndsOf(cut, q)
  BY DEF EndsOf
<1>3. \A cut : PositionsOf(cut)' = PositionsOf(cut)
  BY DEF PositionsOf, NumQuadrants
<1>4. \A G, m : Says(G, m)' <=> Says(G, m)
  <2>1. \A r, q : MeetFrom(r, q)' = MeetFrom(r, q) /\ MeetTo(r, q)' = MeetTo(r, q)
    BY DEF MeetFrom, MeetTo, now, new
  <2>2. \A G, r, q, t : Share(G, r, q, t)' = Share(G, r, q, t)
    BY <2>1 DEF Share
  <2>3. \A per_tree, r, t : Counted(per_tree, r, t)' = Counted(per_tree, r, t)
    BY <1>3 DEF Counted
  <2> QED
    BY <2>1, <2>2, <2>3 DEF Says
<1> QED
  BY <1>1, <1>2, <1>3, <1>4

(* What a process holds stays right as long as nobody touches it. *)
LEMMA HeldStays ==
  ASSUME input' = input, NEW q, NEW cut, Held(q, cut),
         trees'[q] = trees[q], local_trees'[q] = local_trees[q], user_data'[q] = user_data[q]
  PROVE  Held(q, cut)'
  BY InputDecides DEF Held, Holds

(* The forest is right at the beginning. *)
LEMMA InitPartsInv == Init => PartsInv
<1> SUFFICES ASSUME Init PROVE PartsInv
  OBVIOUS
<1>1. Delivery
  BY InitIInv DEF Init, Delivery, Taken, Heard
<1>2. Shapes
  BY DEF Init, Shapes
<1>3. \A p \in Procs : pc[p] = "post"
  BY DEF Init
<1>4. PartsHeld
  <2> SUFFICES ASSUME NEW p \in Procs PROVE Held(p, input.now)
    BY <1>3 DEF PartsHeld, Early
  <2>1. trees[p] = PartsOf(input.now, p)
    BY DEF Init, PartsOf, now
  <2>2. local_trees[p] = EndsOf(input.now, p)
    BY DEF Init, EndsOf, now
  <2>3. user_data[p] = input.now[p] .. input.now[p + 1] - 1
    BY DEF Init, now
  <2> QED
    BY <2>1, <2>2, <2>3 DEF Held, Holds
<1>5. FirstsHeld
  BY <1>3 DEF FirstsHeld, Early, Init
<1>6. PositionsHeld
  <2>1. \A p \in Procs : global_first_position[p] = PositionsOf(input.now)
    BY DEF Init, PositionsOf, now
  <2> QED
    BY <1>3, <2>1 DEF PositionsHeld
<1>7. MessagesHeld
  BY DEF Init, MessagesHeld
<1> QED
  BY <1>1, <1>2, <1>4, <1>5, <1>6, <1>7 DEF PartsInv

(* What is posted is right. *)
LEMMA PostHolds ==
  ASSUME PartsInv, Delivery', NEW p \in Procs, Post(p)
  PROVE  PartsInv'
<1>0. PartsHeld /\ FirstsHeld /\ PositionsHeld /\ MessagesHeld /\ Shapes /\ Delivery
  BY DEF PartsInv
<1>1. /\ pc[p] = "post" /\ pc' = [pc EXCEPT ![p] = "wait"]
      /\ UNCHANGED << input, arriving, forest, global_first_position >>
  BY DEF Post
<1>2. UNCHANGED << trees, user_data, local_trees, quadrants_offset, global_first_quadrant >>
  BY <1>1 DEF forest
<1>3. \A q \in Procs : /\ (pc'[q] \in Early <=> pc[q] \in Early)
                       /\ (pc'[q] = "done" <=> pc[q] = "done")
  BY <1>0, <1>1 DEF Delivery, IInv, PcType, Early
<1>4. Shapes'
  BY <1>0, <1>1, <1>2 DEF Shapes
<1>5. PartsHeld'
  BY <1>0, <1>1, <1>2, <1>3, HeldStays DEF PartsHeld
<1>6. FirstsHeld'
  <2>1. \A q : Elements(q)' = Elements(q)
    BY <1>2 DEF Elements
  <2> QED
    BY <1>0, <1>1, <1>2, <1>3, <2>1 DEF FirstsHeld
<1>7. PositionsHeld'
  BY <1>0, <1>1, <1>3, InputDecides DEF PositionsHeld
<1>8. MessagesHeld'
  <2> SUFFICES ASSUME NEW m \in net', NEW G, Begins(input, G) PROVE Says(G, m)
    BY <1>1, InputDecides DEF MessagesHeld
  <2>1. CASE m \in net
    BY <1>0, <2>1 DEF MessagesHeld
  <2>2. CASE m \notin net
    <3>1. PICK to \in Procs \ {p} : /\ plan'[p].num_send_to[to] > 0
                                    /\ m = Message(p, to, plan'[p].num_send_to[to])
      BY <2>2 DEF Post
    <3> DEFINE num == plan'[p].num_send_to[to]
    <3>2. plan'[p] = PlanOf(input, p)
      <4>1. plan'[p] = PlanOf(input', p)
        BY <1>1 DEF Delivery, IInv, Planned, PcType
      <4> QED
        BY <1>1, <4>1
    <3>3. num = Common(input.now, p, input.new, to)
      <4>1. num = Overlap(p, LastOf(input.now), LastOf(input.new))[to]
        BY <3>2 DEF PlanOf
      <4>2. IsPartition(input.now, NumQuadrants) /\ IsPartition(input.new, NumQuadrants)
        BY MeetTypes
      <4> QED
        BY <4>1, <4>2, OverlapIsCommon
    <3>4. Holds(p, input.now) /\ global_first_position[p] = PositionsOf(input.now)
      BY <1>0, <1>1 DEF PartsHeld, PositionsHeld, Held, Early
    <3>5. num > 0
      BY <3>1
    <3> HIDE DEF num
    <3>6. Says(G, Message(p, to, num))
      BY <3>3, <3>4, <3>5, MessageSays
    <3> QED
      BY <3>1, <3>6 DEF num
  <2> QED
    BY <2>1, <2>2
<1> QED
  BY <1>4, <1>5, <1>6, <1>7, <1>8 DEF PartsInv

(* What is filled in is right. *)
LEMMA FillHolds ==
  ASSUME PartsInv, Delivery', NEW p \in Procs, Fill(p)
  PROVE  PartsInv'
<1>0. PartsHeld /\ FirstsHeld /\ PositionsHeld /\ MessagesHeld /\ Shapes /\ Delivery
  BY DEF PartsInv
<1>1. /\ pc[p] = "wait" /\ pc' = [pc EXCEPT ![p] = "send"]
      /\ input' = input /\ global_first_position' = global_first_position
      /\ net' \subseteq net
  BY DEF Fill
<1>2. PICK G : Begins(input, G)
  <2>1. input \in Forests
    BY <1>0 DEF Delivery, IInv, Planned
  <2> QED
    BY <2>1, TreesBegin
<1>3. /\ Held(p, input.now) /\ global_first_quadrant[p] = input.now
      /\ global_first_position[p] = PositionsOf(input.now)
  BY <1>0, <1>1 DEF PartsHeld, FirstsHeld, PositionsHeld, Early
<1>4. Ready(G, p)
  <2>1. plan[p] = PlanOf(input, p)
    BY <1>0, <1>1 DEF Delivery, IInv, Planned
  <2>2. \A m \in net : m.to = p => Says(G, m)
    BY <1>0, <1>2 DEF MessagesHeld
  <2>3. \A r \in Procs \ {p} : plan[p].num_recv_from[r] > 0 =>
          \E m \in net : m.from = r /\ m.to = p
    BY DEF Fill
  <2> QED
    BY <1>2, <1>3, <2>1, <2>2, <2>3 DEF Ready, Held
<1>5. \A q \in Procs : pc'[q] = IF q = p THEN "send" ELSE pc[q]
  BY <1>0, <1>1 DEF Delivery, IInv, PcType
<1> DEFINE table == Arriving(p)
           elements == [t \in Trees |-> NewCount(table, t)]
<1>6. arriving'[p] = table
  <2>1. arriving' = [arriving EXCEPT ![p] = table]
    BY DEF Fill
  <2> HIDE DEF table
  <2> QED
    BY <1>0, <2>1 DEF Shapes
<1>7. /\ trees' = [trees EXCEPT ![p] = [t \in Trees |-> Filled(p, t, table)]]
      /\ user_data' = [user_data EXCEPT ![p] =
           (@ \ UNION { Freed(p, t, table) : t \in Span(p) })
              \union UNION { ToSet(m.quads) : m \in { n \in net : n.to = p } }]
      /\ local_trees' = [local_trees EXCEPT ![p] = LocalTreesOf(elements)]
      /\ quadrants_offset' = [quadrants_offset EXCEPT ![p] = OffsetsOf(elements)]
      /\ global_first_quadrant' = [global_first_quadrant EXCEPT ![p] =
           [r \in 0 .. NumProcs |-> IF r = 0 THEN @[0] ELSE LastNew[r - 1] + 1]]
      /\ arriving' = [arriving EXCEPT ![p] = table]
  <2> HIDE DEF table, elements
  <2>1. /\ trees' = [trees EXCEPT ![p] = [t \in Trees |-> Filled(p, t, arriving'[p])]]
        /\ user_data' = [user_data EXCEPT ![p] =
             (@ \ UNION { Freed(p, t, arriving'[p]) : t \in Span(p) })
                \union UNION { ToSet(m.quads) : m \in { n \in net : n.to = p } }]
        /\ arriving' = [arriving EXCEPT ![p] = Arriving(p)]
        /\ global_first_quadrant' = [global_first_quadrant EXCEPT ![p] =
             [r \in 0 .. NumProcs |-> IF r = 0 THEN @[0] ELSE LastNew[r - 1] + 1]]
    BY DEF Fill
  <2>2. LET counted == [t \in Trees |-> NewCount(arriving'[p], t)]
        IN  /\ local_trees' = [local_trees EXCEPT ![p] = LocalTreesOf(counted)]
            /\ quadrants_offset' = [quadrants_offset EXCEPT ![p] = OffsetsOf(counted)]
    BY DEF Fill
  <2>3. [t \in Trees |-> NewCount(arriving'[p], t)] = elements
    BY <1>6 DEF elements
  <2>4. [t \in Trees |-> Filled(p, t, arriving'[p])] = [t \in Trees |-> Filled(p, t, table)]
    BY <1>6
  <2>5. { Freed(p, t, arriving'[p]) : t \in Span(p) } = { Freed(p, t, table) : t \in Span(p) }
    BY <1>6
  <2>6. arriving' = [arriving EXCEPT ![p] = table]
    BY <2>1 DEF table
  <2> QED
    BY <2>1, <2>2, <2>3, <2>4, <2>5, <2>6
<1> HIDE DEF table, elements
<1>8. \A q \in Procs \ {p} :
        /\ trees'[q] = trees[q] /\ local_trees'[q] = local_trees[q]
        /\ user_data'[q] = user_data[q] /\ quadrants_offset'[q] = quadrants_offset[q]
        /\ global_first_quadrant'[q] = global_first_quadrant[q]
  BY <1>0, <1>7 DEF Shapes
<1>9. trees'[p] = PartsOf(input.new, p)
  <2>1. trees'[p] = [t \in Trees |-> Filled(p, t, table)]
    BY <1>0, <1>7 DEF Shapes
  <2>2. \A t \in Trees : Filled(p, t, table) = PartOfTree(new(p), new(p + 1) - 1, t)
    BY <1>4, FilledIs DEF table
  <2> QED
    BY <2>1, <2>2 DEF PartsOf, new
<1>10. CountsOf(G, p, elements)
  <2>1. IsTable(G, p, table)
    BY <1>4, ArrivingIsShare DEF IsTable, table
  <2>2. \A t \in Trees :
          NewCount(table, t) = Within(input.new, p, G[t + 1]) - Within(input.new, p, G[t])
    BY <1>2, <2>1, NewCountIs
  <2> QED
    BY <2>2 DEF CountsOf, elements
<1>11. local_trees'[p] = EndsOf(input.new, p)
  <2>1. local_trees'[p] = LocalTreesOf(elements)
    BY <1>0, <1>7 DEF Shapes
  <2> QED
    BY <1>2, <1>10, <2>1, EndsCounted
<1>12. user_data'[p] = input.new[p] .. input.new[p + 1] - 1
  <2>1. user_data'[p] = (user_data[p] \ UNION { Freed(p, t, table) : t \in Span(p) })
              \union UNION { ToSet(m.quads) : m \in { n \in net : n.to = p } }
    BY <1>0, <1>7 DEF Shapes
  <2>2. user_data[p] = now(p) .. now(p + 1) - 1
    BY <1>3 DEF Held, now
  <2>3. \A m \in net : m.from \in Procs
    BY <1>0 DEF Delivery, Taken
  <2>4. ((now(p) .. now(p + 1) - 1) \ UNION { Freed(p, t, table) : t \in Span(p) })
            \union UNION { ToSet(m.quads) : m \in { n \in net : n.to = p } }
           = new(p) .. new(p + 1) - 1
    BY <1>4, <2>3, UserDataIs
  <2> QED
    BY <2>1, <2>2, <2>4, Zenon DEF new
<1>13. Held(p, input.new)'
  BY <1>1, <1>9, <1>11, <1>12, InputDecides DEF Held, Holds
<1>14. Elements(p)' = elements
  <2>1. IsPartition(input.new, NumQuadrants)
    BY <1>2, MeetTypes
  <2>2. ASSUME NEW t \in Trees PROVE Len(trees'[p][t]) = elements[t]
    <3>1. trees'[p][t] = PartOfTree(input.new[p], input.new[p + 1] - 1, t)
      BY <1>9 DEF PartsOf
    <3>2. elements[t] = Within(input.new, p, G[t + 1]) - Within(input.new, p, G[t])
      BY <1>10 DEF CountsOf
    <3>3. Len(PartOfTree(input.new[p], input.new[p + 1] - 1, t))
            = Within(input.new, p, G[t + 1]) - Within(input.new, p, G[t])
      BY <1>2, <2>1, PartLength, Zenon
    <3> QED
      BY <3>1, <3>2, <3>3, Zenon
  <2>3. elements = [t \in Trees |-> elements[t]]
    BY DEF elements
  <2> QED
    BY <2>2, <2>3 DEF Elements
<1>15. quadrants_offset'[p] = OffsetsOf(Elements(p)')
  BY <1>0, <1>7, <1>14 DEF Shapes
<1>16. global_first_quadrant'[p] = input.new
  <2>1. global_first_quadrant'[p] =
          [r \in 0 .. NumProcs |-> IF r = 0 THEN global_first_quadrant[p][0]
                                   ELSE LastNew[r - 1] + 1]
    BY <1>0, <1>7 DEF Shapes
  <2>2. IsPartition(input.now, NumQuadrants) /\ IsPartition(input.new, NumQuadrants)
    BY <1>2, MeetTypes
  <2>3. global_first_quadrant[p][0] = input.new[0]
    BY <1>3, <2>2 DEF IsPartition
  <2>4. \A r \in 0 .. NumProcs : r # 0 => LastNew[r - 1] + 1 = input.new[r]
    <3> SUFFICES ASSUME NEW r \in 0 .. NumProcs, r # 0 PROVE LastNew[r - 1] + 1 = input.new[r]
      OBVIOUS
    <3>1. r - 1 \in Procs /\ (r - 1) + 1 = r
      BY SizesAssumption DEF Procs
    <3>2. input.new[r] \in Nat
      BY <2>2 DEF IsPartition
    <3>3. LastNew[r - 1] = input.new[r] - 1
      BY <3>1 DEF LastNew, new
    <3> QED
      BY <3>2, <3>3
  <2>5. input.new = [r \in 0 .. NumProcs |-> input.new[r]]
    BY <2>2 DEF IsPartition
  <2> QED
    BY <2>1, <2>3, <2>4, <2>5
<1>17. Shapes'
  BY <1>0, <1>1, <1>7 DEF Shapes
<1>18. PartsHeld'
  <2>1. ASSUME NEW q \in Procs, q # p
        PROVE  /\ pc'[q] \in Early => Held(q, input.now)'
               /\ pc'[q] \notin Early => Held(q, input.new)'
    <3>1. /\ pc[q] \in Early => Held(q, input.now)
          /\ pc[q] \notin Early => Held(q, input.new)
      BY <1>0 DEF PartsHeld
    <3> QED
      BY <1>1, <1>5, <1>8, <2>1, <3>1, HeldStays
  <2> QED
    BY <1>5, <1>13, <2>1 DEF PartsHeld, Early
<1>19. FirstsHeld'
  <2>1. ASSUME NEW q \in Procs, q # p PROVE Elements(q)' = Elements(q)
    BY <1>8, <2>1 DEF Elements
  <2> QED
    BY <1>0, <1>1, <1>5, <1>8, <1>15, <1>16, <2>1 DEF FirstsHeld, Early
<1>20. PositionsHeld'
  BY <1>0, <1>1, <1>5, InputDecides DEF PositionsHeld
<1>21. MessagesHeld'
  BY <1>0, <1>1, InputDecides DEF MessagesHeld
<1> QED
  BY <1>17, <1>18, <1>19, <1>20, <1>21 DEF PartsInv

(* In the allgather the arrays stay as they are, and everybody finds the same positions. *)
LEMMA GatherHolds ==
  ASSUME PartsInv, Delivery', NEW p \in Procs, Enter(p) \/ Gather(p)
  PROVE  PartsInv'
<1>0. PartsHeld /\ FirstsHeld /\ PositionsHeld /\ MessagesHeld /\ Shapes /\ Delivery
  BY DEF PartsInv
<1>1. /\ pc[p] \in { "send", "gather" }
      /\ pc' \in { [pc EXCEPT ![p] = "gather"], [pc EXCEPT ![p] = "done"] }
      /\ UNCHANGED << input, arriving, net, forest >>
  BY DEF Enter, Gather
<1>2. UNCHANGED << trees, user_data, local_trees, quadrants_offset, global_first_quadrant >>
  BY <1>1 DEF forest
<1>3. \A q \in Procs : pc'[q] \in Early <=> pc[q] \in Early
  BY <1>0, <1>1 DEF Delivery, IInv, PcType, Early
<1>5. PartsHeld'
  BY <1>0, <1>1, <1>2, <1>3, HeldStays DEF PartsHeld
<1>6. FirstsHeld'
  <2>1. \A q : Elements(q)' = Elements(q)
    BY <1>2 DEF Elements
  <2> QED
    BY <1>0, <1>1, <1>2, <1>3, <2>1 DEF FirstsHeld
<1>7. PositionsHeld' /\ Shapes'
  <2>1. CASE Enter(p)
    <3>1. global_first_position' = global_first_position
          /\ \A q \in Procs : pc'[q] = "done" <=> pc[q] = "done"
      BY <1>0, <2>1 DEF Enter, Delivery, IInv, PcType
    <3>2. PositionsHeld'
      BY <1>0, <1>1, <3>1, InputDecides DEF PositionsHeld
    <3> QED
      BY <1>0, <1>1, <1>2, <3>1, <3>2 DEF Shapes
  <2>2. CASE Gather(p)
    <3>1. /\ \A r \in Procs : pc[r] \in { "gather", "done" }
          /\ global_first_position' = [global_first_position EXCEPT ![p] =
               [r \in 0 .. NumProcs |-> PositionOf(r)]]
          /\ pc' = [pc EXCEPT ![p] = "done"]
      BY <2>2 DEF Gather
    <3>2. \A q \in Procs : Holds(q, input.new)
      BY <1>0, <3>1 DEF PartsHeld, Held, Early
    <3>3. PICK G : Begins(input, G)
      <4>1. input \in Forests
        BY <1>0 DEF Delivery, IInv, Planned
      <4> QED
        BY <4>1, TreesBegin
    <3>4. IsPartition(input.new, NumQuadrants)
      BY <3>3, MeetTypes
    <3>5. \A r \in 0 .. NumProcs : PositionOf(r) = PositionsOf(input.new)[r]
      BY <3>2, <3>3, <3>4, PositionIs
    <3>6. [r \in 0 .. NumProcs |-> PositionOf(r)] = PositionsOf(input.new)
      BY <3>5 DEF PositionsOf
    <3>7. global_first_position' = [global_first_position EXCEPT ![p] = PositionsOf(input.new)]
      BY <3>1, <3>6
    <3>8. /\ \A q \in Procs : pc'[q] = IF q = p THEN "done" ELSE pc[q]
          /\ \A q \in Procs : global_first_position'[q] =
               IF q = p THEN PositionsOf(input.new) ELSE global_first_position[q]
      BY <1>0, <3>1, <3>7 DEF Delivery, IInv, PcType, Shapes
    <3>9. PositionsHeld'
      BY <1>0, <1>1, <3>8, InputDecides DEF PositionsHeld
    <3> QED
      BY <1>0, <1>1, <1>2, <3>7, <3>9 DEF Shapes
  <2> QED
    BY <2>1, <2>2
<1>8. MessagesHeld'
  BY <1>0, <1>1, InputDecides DEF MessagesHeld
<1> QED
  BY <1>5, <1>6, <1>7, <1>8 DEF PartsInv

(* Every step keeps the forest right. *)
LEMMA NextPartsInv == PartsInv /\ [Next]_vars => PartsInv'
<1> SUFFICES ASSUME PartsInv, [Next]_vars PROVE PartsInv'
  OBVIOUS
<1>1. Delivery'
  BY NextDelivery DEF PartsInv
<1>2. CASE UNCHANGED vars
  <2>0. /\ PartsHeld /\ FirstsHeld /\ PositionsHeld /\ MessagesHeld /\ Shapes
    BY DEF PartsInv
  <2>1. UNCHANGED << input, pc, arriving, net, trees, user_data, local_trees, quadrants_offset,
                     global_first_quadrant, global_first_position >>
    BY <1>2 DEF vars
  <2>2. Shapes'
    BY <2>0, <2>1 DEF Shapes
  <2>3. PartsHeld'
    BY <2>0, <2>1, HeldStays DEF PartsHeld
  <2>4. FirstsHeld'
    BY <2>0, <2>1 DEF FirstsHeld, Elements
  <2>5. PositionsHeld' /\ MessagesHeld'
    BY <2>0, <2>1, InputDecides DEF PositionsHeld, MessagesHeld
  <2> QED
    BY <1>1, <2>2, <2>3, <2>4, <2>5 DEF PartsInv
<1>3. ASSUME NEW p \in Procs, Post(p) PROVE PartsInv'
  BY <1>1, <1>3, PostHolds
<1>4. ASSUME NEW p \in Procs, Fill(p) PROVE PartsInv'
  BY <1>1, <1>4, FillHolds
<1>5. ASSUME NEW p \in Procs, Enter(p) \/ Gather(p) PROVE PartsInv'
  BY <1>1, <1>5, GatherHolds
<1> QED
  BY <1>2, <1>3, <1>4, <1>5 DEF Next

(* The forest and the messages are right throughout. *)
LEMMA PartsInvariance == Spec => []PartsInv
  BY InitPartsInv, NextPartsInv, PTL DEF Spec

\* For any number of processes, any forest and any two partitions: a process
\* that has filled in its part holds exactly its range of the new partition,
\* every quadrant in its tree and in order, and exactly the quadrants of a
\* process have user data at any time.
THEOREM PartsShipped == Spec => []PartsCorrect
<1>1. ASSUME PartsInv, NEW p \in Procs
      PROVE  /\ pc[p] \in { "send", "gather", "done" } =>
                  \A t \in Trees : trees[p][t] = PartOfTree(new(p), new(p + 1) - 1, t)
             /\ user_data[p] = Stored(p)
  <2>1. /\ pc[p] \in Early => Held(p, input.now)
        /\ pc[p] \notin Early => Held(p, input.new)
    BY <1>1 DEF PartsInv, PartsHeld
  <2>2. PICK G : Begins(input, G)
    BY <1>1, TreesBegin DEF PartsInv, Delivery, IInv, Planned
  <2>3. IsPartition(input.now, NumQuadrants) /\ IsPartition(input.new, NumQuadrants)
    BY <2>2, MeetTypes
  <2>4. user_data[p] = Stored(p)
    <3>1. Held(p, input.now) => user_data[p] = Stored(p)
      BY <2>2, <2>3, StoredIs DEF Held, Holds
    <3>2. Held(p, input.new) => user_data[p] = Stored(p)
      BY <2>2, <2>3, StoredIs DEF Held, Holds
    <3> QED
      BY <2>1, <3>1, <3>2
  <2>5. ASSUME pc[p] \in { "send", "gather", "done" }, NEW t \in Trees
        PROVE  trees[p][t] = PartOfTree(new(p), new(p + 1) - 1, t)
    BY <2>1, <2>5 DEF Early, Held, Holds, PartsOf, new
  <2> QED
    BY <2>4, <2>5
<1>2. PartsInv => PartsCorrect
  BY <1>1 DEF PartsCorrect
<1> QED
  BY <1>2, PartsInvariance, PTL

\* For any number of processes, any forest and any two partitions: the processes
\* that have filled in their parts have the new cuts, and the offsets of their
\* trees fit the arrays; those that have returned agree on the positions, also
\* on those of empty processes.
THEOREM BoundariesFound == Spec => []BoundariesAgree
<1>1. ASSUME PartsInv, NEW p \in Procs, pc[p] \in { "send", "gather", "done" }
      PROVE  /\ global_first_quadrant[p] = [r \in 0 .. NumProcs |-> new(r)]
             /\ Span(p) = { t \in Trees : \E s, u \in Trees :
                              s <= t /\ t <= u /\ trees[p][s] # << >> /\ trees[p][u] # << >> }
             /\ \A t \in Span(p) : quadrants_offset[p][t] = TreeBegin(p, t)
  <2>1. /\ Holds(p, input.new) /\ global_first_quadrant[p] = input.new
        /\ quadrants_offset[p] = OffsetsOf(Elements(p))
    BY <1>1 DEF PartsInv, PartsHeld, FirstsHeld, Held, Early
  <2>2. PICK G : Begins(input, G)
    BY <1>1, TreesBegin DEF PartsInv, Delivery, IInv, Planned
  <2>3. IsPartition(input.new, NumQuadrants)
    BY <2>2, MeetTypes
  <2>4. global_first_quadrant[p] = [r \in 0 .. NumProcs |-> new(r)]
    BY <2>1, <2>3 DEF IsPartition, new
  <2>5. Span(p) = { t \in Trees : \E s, u \in Trees :
                      s <= t /\ t <= u /\ trees[p][s] # << >> /\ trees[p][u] # << >> }
    BY <2>1, <2>2, <2>3, SpanIsLocal
  <2>6. ASSUME NEW t \in Span(p) PROVE quadrants_offset[p][t] = TreeBegin(p, t)
    <3>1. t \in Trees
      BY <2>5, <2>6
    <3>2. LocalTreesOf(Elements(p)) = local_trees[p]
      <4>1. trees[p] = PartsOf(input.new, p) /\ local_trees[p] = EndsOf(input.new, p)
        BY <2>1 DEF Holds
      <4>2. CountsOf(G, p, Elements(p))
        BY <2>2, <4>1, ElementsCounted
      <4> QED
        BY <2>2, <4>1, <4>2, EndsCounted
    <3>3. local_trees[p][1] \in Int /\ local_trees[p][2] \in Int
      <4>1. local_trees[p] = EndsOf(input.new, p)
        BY <2>1 DEF Holds
      <4>2. CASE input.new[p] = input.new[p + 1]
        BY <4>1, <4>2 DEF EndsOf
      <4>3. CASE input.new[p] # input.new[p + 1]
        <5>1. local_trees[p][1] \in Trees /\ local_trees[p][2] \in Trees
          BY <2>2, <2>3, <4>1, <4>3, SpanHeld
        <5> QED
          BY <5>1 DEF Trees
      <4> QED
        BY <4>2, <4>3
    <3> QED
      BY <2>1, <2>6, <3>1, <3>2, <3>3, OffsetIsBegin
  <2> QED
    BY <2>4, <2>5, <2>6
<1>2. ASSUME PartsInv, NEW p \in Procs, pc[p] = "done", NEW r \in 0 .. NumProcs
      PROVE  global_first_position[p][r] =
               IF new(r) = NumQuadrants
               THEN [ which_tree |-> NumTrees, quad |-> NumQuadrants ]
               ELSE [ which_tree |-> input.which_tree[new(r) + 1], quad |-> new(r) ]
  <2>1. global_first_position[p] = PositionsOf(input.new)
    BY <1>2 DEF PartsInv, PositionsHeld
  <2> QED
    BY <2>1 DEF PositionsOf, new
<1>3. PartsInv => BoundariesAgree
  BY <1>1, <1>2 DEF BoundariesAgree
<1> QED
  BY <1>3, PartsInvariance, PTL

(***************************************************************************)
(* The number of quadrants shipped.                                        *)
(***************************************************************************)
Owner(cut, i) == CHOOSE r \in Procs : cut[r] <= i /\ i < cut[r + 1]
Moved == { i \in 0 .. NumQuadrants - 1 : Owner(input.now, i) # Owner(input.new, i) }
\* those counted at the boundaries below p
MovedBelow(p) == { i \in Moved : i < new(p) /\ (i < new(p - 1) \/ i < now(p - 1)) }
\* those counted at the boundary between p - 1 and p
MovedAt(p) ==
  IF now(p) >= new(p) THEN new(p) .. Low(new(p + 1), now(p)) - 1
  ELSE High(new(p - 1), now(p)) .. new(p) - 1

(* A quadrant has moved if it is not in the range of its new owner before. *)
LEMMA MovedIff ==
  ASSUME NEW G, Begins(input, G), NEW q \in Procs, NEW x \in Nat, new(q) <= x, x < new(q + 1)
  PROVE  x \in Moved <=> ~ (now(q) <= x /\ x < now(q + 1))
<1>1. IsPartition(input.now, NumQuadrants) /\ IsPartition(input.new, NumQuadrants)
      /\ new(q + 1) \in Nat /\ new(q + 1) <= NumQuadrants
  BY MeetTypes
<1>2. x \in 0 .. NumQuadrants - 1 /\ x < NumQuadrants /\ NumQuadrants \in Nat
  BY <1>1, BeginTypes
<1>3. PICK r \in Procs : now(r) <= x /\ x < now(r + 1)
  BY <1>1, <1>2, Owned DEF now
<1>4. ASSUME NEW cut, IsPartition(cut, NumQuadrants), NEW s \in Procs, cut[s] <= x, x < cut[s + 1]
      PROVE  Owner(cut, x) = s
  <2>1. /\ Owner(cut, x) \in Procs /\ cut[Owner(cut, x)] <= x /\ x < cut[Owner(cut, x) + 1]
    BY <1>4 DEF Owner
  <2> QED
    BY <1>4, <2>1, OwnedOnce
<1>5. Owner(input.new, x) = q /\ Owner(input.now, x) = r
  BY <1>1, <1>3, <1>4 DEF now, new
<1>6. (now(q) <= x /\ x < now(q + 1)) <=> r = q
  <2>1. now(q) <= x /\ x < now(q + 1) => r = q
    BY <1>1, <1>3, OwnedOnce DEF now
  <2> QED
    BY <1>3, <2>1
<1> QED
  BY <1>2, <1>5, <1>6 DEF Moved

(* At every boundary those are counted that have moved across it. *)
LEMMA MovedSteps ==
  ASSUME NEW G, Begins(input, G), NEW p \in 1 .. NumProcs - 1
  PROVE  /\ MovedBelow(p + 1) = MovedBelow(p) \union MovedAt(p)
         /\ MovedBelow(p) \intersect MovedAt(p) = {}
         /\ IsFiniteSet(MovedAt(p)) /\ Cardinality(MovedAt(p)) = ShippedAcross(p)
<1>1. p - 1 \in Procs /\ p \in Procs /\ (p - 1) + 1 = p /\ (p + 1) - 1 = p
  OBVIOUS
<1> DEFINE a == now(p - 1)
           b == now(p)
           c == now(p + 1)
           u == new(p - 1)
           v == new(p)
           w == new(p + 1)
<1>2. /\ a \in Nat /\ b \in Nat /\ c \in Nat /\ u \in Nat /\ v \in Nat /\ w \in Nat
      /\ a <= b /\ b <= c /\ u <= v /\ v <= w /\ w <= NumQuadrants /\ NumQuadrants \in Nat
  BY <1>1, MeetTypes, BeginTypes
<1>3. /\ MovedBelow(p) = { i \in Moved : i < v /\ (i < u \/ i < a) }
      /\ MovedBelow(p + 1) = { i \in Moved : i < w /\ (i < v \/ i < b) }
      /\ MovedAt(p) = IF b >= v THEN v .. Low(w, b) - 1 ELSE High(u, b) .. v - 1
  BY <1>1 DEF MovedBelow, MovedAt
<1>4. Moved \subseteq Nat /\ \A x \in Moved : x < NumQuadrants
  BY <1>2 DEF Moved
<1>5. \A x \in Nat : /\ u <= x /\ x < v => (x \in Moved <=> ~ (a <= x /\ x < b))
                     /\ v <= x /\ x < w => (x \in Moved <=> ~ (b <= x /\ x < c))
  BY <1>1, MovedIff
<1>6. ShippedAcross(p) = IF b - v >= 0 THEN Low(b - v, w - v) ELSE Low(- (b - v), v - u)
  <2>1. LastNow[p - 1] = b - 1 /\ LastNew[p - 1] = v - 1
    BY <1>1 DEF LastNow, LastNew
  <2>2. LastNow[p - 1] - LastNew[p - 1] = b - v
    BY <1>2, <2>1
  <2>3. counts(p) = w - v /\ counts(p - 1) = v - u
    BY <1>1 DEF counts
  <2> QED
    BY <2>2, <2>3 DEF ShippedAcross
<1> HIDE DEF a, b, c, u, v, w
<1>7. \A x \in MovedAt(p) : x \in Nat
  BY <1>2, <1>3 DEF High
<1>8. ASSUME NEW x \in Nat
      PROVE  /\ x \in MovedAt(p) <=> IF b >= v THEN v <= x /\ x < w /\ x < b
                                     ELSE u <= x /\ b <= x /\ x < v
             /\ x \in MovedBelow(p) <=> x \in Moved /\ x < v /\ (x < u \/ x < a)
             /\ x \in MovedBelow(p + 1) <=> x \in Moved /\ x < w /\ (x < v \/ x < b)
  BY <1>2, <1>3 DEF High, Low
<1>9. ASSUME NEW x \in Nat
      PROVE  /\ x \in MovedBelow(p + 1) <=> x \in MovedBelow(p) \/ x \in MovedAt(p)
             /\ ~ (x \in MovedBelow(p) /\ x \in MovedAt(p))
  <2>1. /\ u <= x /\ x < v => (x \in Moved <=> ~ (a <= x /\ x < b))
        /\ v <= x /\ x < w => (x \in Moved <=> ~ (b <= x /\ x < c))
    BY <1>5
  <2> QED
    BY <1>2, <1>8, <2>1
<1>10. MovedBelow(p) \subseteq Nat /\ MovedBelow(p + 1) \subseteq Nat
  BY <1>3, <1>4
<1>11. /\ MovedBelow(p + 1) = MovedBelow(p) \union MovedAt(p)
       /\ MovedBelow(p) \intersect MovedAt(p) = {}
  BY <1>7, <1>9, <1>10
<1>12. IsFiniteSet(MovedAt(p)) /\ Cardinality(MovedAt(p)) = ShippedAcross(p)
  <2>1. CASE b >= v
    <3> DEFINE e == Low(w, b) - 1
    <3>1. e \in Int /\ v \in Int /\ MovedAt(p) = v .. e
      BY <1>2, <1>3, <2>1 DEF Low
    <3>2. (IF v > e THEN 0 ELSE e - v + 1) = ShippedAcross(p)
      BY <1>2, <1>6, <2>1 DEF Low
    <3> HIDE DEF e
    <3> QED
      BY <3>1, <3>2, FS_Interval
  <2>2. CASE ~ (b >= v)
    <3> DEFINE e == High(u, b)
    <3>1. e \in Int /\ v - 1 \in Int /\ MovedAt(p) = e .. v - 1
      BY <1>2, <1>3, <2>2 DEF High
    <3>2. (IF e > v - 1 THEN 0 ELSE (v - 1) - e + 1) = ShippedAcross(p)
      BY <1>2, <1>6, <2>2 DEF Low, High
    <3> HIDE DEF e
    <3> QED
      BY <3>1, <3>2, FS_Interval
  <2> QED
    BY <2>1, <2>2
<1> QED
  BY <1>11, <1>12

(* All boundaries together count every quadrant that has moved, once. *)
LEMMA ShippedIs ==
  ASSUME NEW G, Begins(input, G)
  PROVE  TotalShipped = Cardinality(Moved) /\ IsFiniteSet(Moved)
<1> DEFINE f == [p \in 1 .. NumProcs - 1 |-> ShippedAcross(p)]
           h == [p \in 1 .. NumProcs |-> Cardinality(MovedBelow(p))]
           last == NumProcs - 1
<1>0. /\ \A q \in 0 .. NumProcs : now(q) \in Nat /\ new(q) \in Nat
      /\ now(0) = 0 /\ new(0) = 0 /\ now(NumProcs) = NumQuadrants /\ new(NumProcs) = NumQuadrants
      /\ NumQuadrants \in Nat
  <2>1. 0 \in Procs
    OBVIOUS
  <2>2. IsPartition(input.now, NumQuadrants) /\ IsPartition(input.new, NumQuadrants)
    BY <2>1, MeetTypes
  <2> QED
    BY <2>2, BeginTypes DEF IsPartition, now, new
<1>1. IsFiniteSet(Moved)
  <2>1. IsFiniteSet(0 .. NumQuadrants - 1)
    BY <1>0, FS_Interval
  <2> QED
    BY <2>1, FS_Subset DEF Moved
<1>2. \A p : IsFiniteSet(MovedBelow(p))
  <2>1. \A p : MovedBelow(p) \subseteq Moved
    BY DEF MovedBelow
  <2> QED
    BY <1>1, <2>1, FS_Subset
<1>3. \A p \in 1 .. NumProcs : h[p] \in Int
  BY <1>2, FS_CardinalityType
<1>4. ASSUME NEW p \in 1 .. NumProcs - 1 PROVE f[p] = h[p + 1] - h[p]
  <2>1. /\ MovedBelow(p + 1) = MovedBelow(p) \union MovedAt(p)
        /\ MovedBelow(p) \intersect MovedAt(p) = {}
        /\ IsFiniteSet(MovedAt(p)) /\ Cardinality(MovedAt(p)) = ShippedAcross(p)
    BY MovedSteps
  <2>2. Cardinality(MovedBelow(p + 1))
          = Cardinality(MovedBelow(p)) + Cardinality(MovedAt(p)) - Cardinality({})
    BY <1>2, <2>1, FS_Union
  <2>3. Cardinality({}) = 0 /\ Cardinality(MovedBelow(p)) \in Nat /\ Cardinality(MovedAt(p)) \in Nat
    BY <1>2, <2>1, FS_EmptySet, FS_CardinalityType
  <2>4. h[p + 1] = Cardinality(MovedBelow(p + 1)) /\ h[p] = Cardinality(MovedBelow(p))
        /\ f[p] = ShippedAcross(p)
    OBVIOUS
  <2> HIDE DEF f, h
  <2> QED
    BY <2>1, <2>2, <2>3, <2>4
<1>5. Sum(f, 1, last) = h[last + 1] - h[1]
  <2>1. 1 \in Int /\ last \in Int /\ 1 <= last + 1 /\ last + 1 = NumProcs
    OBVIOUS
  <2>2. /\ \A i \in 1 .. last + 1 : h[i] \in Int
        /\ \A i \in 1 .. last : f[i] = h[i + 1] - h[i]
    <3>1. \A i \in 1 .. last : i \in 1 .. NumProcs - 1
      OBVIOUS
    <3>2. last + 1 = NumProcs
      OBVIOUS
    <3> HIDE DEF f, h, last
    <3> QED
      BY <1>3, <1>4, <3>1, <3>2
  <2> HIDE DEF f, h, last
  <2> QED
    BY <2>1, <2>2, Telescope
<1>6. h[1] = 0
  <2>1. MovedBelow(1) = {}
    <3>1. 1 - 1 = 0 /\ \A x \in Moved : x \in Nat
      BY <1>0 DEF Moved
    <3>2. \A x \in Moved : ~ (x < new(0) \/ x < now(0))
      BY <1>0, <3>1
    <3> QED
      BY <3>1, <3>2 DEF MovedBelow
  <2>2. h[1] = Cardinality(MovedBelow(1))
    OBVIOUS
  <2>3. Cardinality({}) = 0
    BY FS_EmptySet
  <2> QED
    BY <2>1, <2>2, <2>3
<1>7. h[NumProcs] = Cardinality(Moved)
  <2>1. ASSUME NEW x \in Moved
        PROVE  x < new(NumProcs) /\ (x < new(NumProcs - 1) \/ x < now(NumProcs - 1))
    <3>1. x \in Nat /\ x < NumQuadrants
      BY <1>0 DEF Moved
    <3>2. NumProcs - 1 \in Procs /\ (NumProcs - 1) + 1 = NumProcs /\ NumProcs - 1 \in 0 .. NumProcs
      OBVIOUS
    <3>3. ~ (new(NumProcs - 1) <= x /\ now(NumProcs - 1) <= x)
      <4> SUFFICES ASSUME new(NumProcs - 1) <= x, now(NumProcs - 1) <= x PROVE FALSE
        OBVIOUS
      <4>1. x < new((NumProcs - 1) + 1) /\ x < now((NumProcs - 1) + 1)
        BY <1>0, <3>1, <3>2
      <4> QED
        BY <3>1, <3>2, <4>1, MovedIff
    <3> QED
      BY <1>0, <3>1, <3>2, <3>3
  <2>2. MovedBelow(NumProcs) = Moved
    BY <2>1 DEF MovedBelow
  <2> QED
    BY <2>2
<1>8. Cardinality(Moved) \in Nat
  BY <1>1, FS_CardinalityType
<1>9. TotalShipped = Sum(f, 1, last) /\ last + 1 = NumProcs
  BY DEF TotalShipped
<1> HIDE DEF f, h, last
<1> QED
  BY <1>1, <1>5, <1>6, <1>7, <1>8, <1>9

\* the number is that of the input, and the revision goes with it
Counting ==
  /\ shipped = [p \in Procs |-> shipped[p]] /\ revision = [p \in Procs |-> revision[p]]
  /\ \A p \in Procs :
       /\ pc[p] # "post" => shipped[p] = TotalShipped
       /\ revision[p] = IF pc[p] = "done" /\ TotalShipped > 0 THEN 1 ELSE 0

(* It is counted as it should be throughout. *)
LEMMA NextCounting == IInv /\ Counting /\ [Next]_vars => Counting'
<1> SUFFICES ASSUME IInv, Counting, [Next]_vars PROVE Counting'
  OBVIOUS
<1>0. PcType
  BY DEF IInv
<1>1. input' = input => TotalShipped' = TotalShipped
  BY DEF TotalShipped, ShippedAcross, LastNow, LastNew, counts, now, new
<1>2. CASE UNCHANGED vars
  BY <1>1, <1>2 DEF vars, Counting
<1>3. ASSUME NEW p \in Procs, Post(p) PROVE Counting'
  <2>1. /\ pc[p] = "post" /\ pc' = [pc EXCEPT ![p] = "wait"] /\ input' = input
        /\ shipped' = [shipped EXCEPT ![p] = TotalShipped] /\ revision' = revision
    BY <1>3 DEF Post
  <2>2. TotalShipped' = TotalShipped
    BY <1>1, <2>1
  <2> QED
    BY <1>0, <2>1, <2>2 DEF PcType, Counting
<1>4. ASSUME NEW p \in Procs, Fill(p) \/ Enter(p) PROVE Counting'
  <2>1. /\ pc[p] \in { "wait", "send" } /\ input' = input
        /\ pc' \in { [pc EXCEPT ![p] = "send"], [pc EXCEPT ![p] = "gather"] }
        /\ shipped' = shipped /\ revision' = revision
    BY <1>4 DEF Fill, Enter
  <2>2. TotalShipped' = TotalShipped
    BY <1>1, <2>1
  <2> QED
    BY <1>0, <2>1, <2>2 DEF PcType, Counting
<1>5. ASSUME NEW p \in Procs, Gather(p) PROVE Counting'
  <2>1. /\ pc[p] = "gather" /\ pc' = [pc EXCEPT ![p] = "done"] /\ input' = input
        /\ shipped' = shipped
        /\ revision' = [revision EXCEPT ![p] = IF shipped[p] > 0 THEN @ + 1 ELSE @]
    BY <1>5 DEF Gather
  <2>2. TotalShipped' = TotalShipped
    BY <1>1, <2>1
  <2>3. shipped[p] = TotalShipped /\ revision[p] = 0
    BY <2>1 DEF Counting
  <2>4. revision' = [revision EXCEPT ![p] = IF TotalShipped > 0 THEN 1 ELSE 0]
    BY <2>1, <2>3
  <2> QED
    BY <1>0, <2>1, <2>2, <2>4 DEF PcType, Counting
<1> QED
  BY <1>2, <1>3, <1>4, <1>5 DEF Next

\* For any number of processes and any two partitions: every process returns the
\* number of quadrants whose owner changes, though it looks at the cuts only and
\* no process counts on its own quadrants; the revision counts a change if there
\* was one.
THEOREM ShippedCounted == Spec => []ShippedCorrect
<1>1. Init => Counting
  BY DEF Init, Counting
<1>2. ASSUME IInv, Counting PROVE ShippedCorrect
  <2>1. PICK G : Begins(input, G)
    BY <1>2, TreesBegin DEF IInv, Planned
  <2>2. TotalShipped = Cardinality(Moved) /\ IsFiniteSet(Moved)
    BY <2>1, ShippedIs
  <2>3. Cardinality(Moved) \in Nat /\ (Cardinality(Moved) = 0 <=> Moved = {})
    BY <2>2, FS_CardinalityType, FS_EmptySet
  <2>4. \A p \in Procs : /\ pc[p] # "post" => shipped[p] = Cardinality(Moved)
                         /\ pc[p] = "done" => (revision[p] = 1 <=> Moved # {})
    BY <1>2, <2>2, <2>3 DEF Counting
  <2> QED
    BY <2>4, Zenon DEF ShippedCorrect, Moved, Owner
<1>3. IInv /\ Counting => ShippedCorrect
  BY <1>2
<1> QED
  BY <1>1, <1>3, NextCounting, Invariance, PTL DEF Spec

(***************************************************************************)
(* Transfer: the partitions, and what they have in common.                 *)
(***************************************************************************)
Total == input.src[NumProcs]
CutOf(cut) ==
  /\ cut \in [0 .. NumProcs -> 0 .. Total] /\ cut[0] = 0 /\ cut[NumProcs] = Total
  /\ \A p, q \in 0 .. NumProcs : p <= q => cut[p] <= cut[q]
Transferable ==
  /\ NumProcs \in Nat \ {0} /\ Total \in Nat
  /\ CutOf(input.src) /\ CutOf(input.dest)
  /\ input.sizes \in [0 .. Total - 1 -> Nat] /\ input.fixed \in Nat

(* Cuts that do not fall from one process to the next do not fall at all. *)
LEMMA CutsAscend ==
  ASSUME NumProcs \in Nat \ {0}, NEW cut \in [0 .. NumProcs -> Nat],
         \A p \in 0 .. NumProcs - 1 : cut[p] <= cut[p + 1]
  PROVE  \A p, q \in 0 .. NumProcs : p <= q => cut[p] <= cut[q]
<1> SUFFICES ASSUME NEW p \in 0 .. NumProcs
             PROVE  \A q \in 0 .. NumProcs : p <= q => cut[p] <= cut[q]
  OBVIOUS
<1> DEFINE S == { m \in Nat : p + m <= NumProcs => cut[p] <= cut[p + m] }
<1>1. 0 \in S
  OBVIOUS
<1>2. ASSUME NEW m \in Nat, m \in S PROVE m + 1 \in S
  <2> SUFFICES ASSUME p + (m + 1) <= NumProcs PROVE cut[p] <= cut[p + (m + 1)]
    OBVIOUS
  <2> DEFINE k == p + m
  <2>1. k \in 0 .. NumProcs /\ k \in 0 .. NumProcs - 1 /\ k + 1 \in 0 .. NumProcs /\ p + (m + 1) = k + 1
    OBVIOUS
  <2>2. cut[p] <= cut[k]
    BY <1>2, <2>1
  <2> HIDE DEF k
  <2>3. cut[k] <= cut[k + 1] /\ cut[p] \in Nat /\ cut[k] \in Nat /\ cut[k + 1] \in Nat
    BY <2>1
  <2>4. cut[p] <= cut[k + 1]
    BY <2>2, <2>3
  <2> QED
    BY <2>1, <2>4
<1> HIDE DEF S
<1>3. \A m \in Nat : m \in S
  BY <1>1, <1>2, NatSetInduction, Zenon
<1> SUFFICES ASSUME NEW q \in 0 .. NumProcs, p <= q PROVE cut[p] <= cut[q]
  OBVIOUS
<1>4. q - p \in Nat /\ p + (q - p) = q /\ q <= NumProcs
  OBVIOUS
<1>5. q - p \in S
  BY <1>3, <1>4
<1> QED
  BY <1>4, <1>5 DEF S

(* What the inputs are. *)
LEMMA InputsTransfer ==
  ASSUME Tr!PartitionsAssumption, input \in Inputs
  PROVE  Transferable
<1>1. /\ NumProcs \in Nat \ {0}
      /\ input.src \in [0 .. NumProcs -> Nat] /\ input.dest \in [0 .. NumProcs -> Nat]
      /\ input.src[0] = 0 /\ input.dest[0] = 0 /\ input.dest[NumProcs] = Total
      /\ \A p \in 0 .. NumProcs - 1 : input.src[p] <= input.src[p + 1]
      /\ \A p \in 0 .. NumProcs - 1 : input.dest[p] <= input.dest[p + 1]
      /\ input.sizes \in [0 .. Total - 1 -> Nat] /\ input.fixed \in Nat
  BY DEF Tr!PartitionsAssumption, Total
<1>2. 0 \in 0 .. NumProcs /\ NumProcs \in 0 .. NumProcs /\ Total \in Nat
  BY <1>1 DEF Total
<1>3. ASSUME NEW cut \in [0 .. NumProcs -> Nat], cut[0] = 0, cut[NumProcs] = Total,
             \A p \in 0 .. NumProcs - 1 : cut[p] <= cut[p + 1]
      PROVE  CutOf(cut)
  <2>1. \A p, q \in 0 .. NumProcs : p <= q => cut[p] <= cut[q]
    BY <1>1, <1>3, CutsAscend
  <2>2. \A p \in 0 .. NumProcs : cut[p] \in 0 .. Total
    <3> SUFFICES ASSUME NEW p \in 0 .. NumProcs PROVE cut[p] \in 0 .. Total
      OBVIOUS
    <3>1. p <= NumProcs
      BY <1>1
    <3>2. cut[p] <= cut[NumProcs] /\ cut[p] \in Nat
      BY <1>2, <2>1, <3>1
    <3> QED
      BY <1>2, <1>3, <3>2
  <2>3. cut \in [0 .. NumProcs -> 0 .. Total]
    BY <2>2
  <2> QED
    BY <1>3, <2>1, <2>3 DEF CutOf
<1>4. CutOf(input.src) /\ CutOf(input.dest)
  BY <1>1, <1>3 DEF Total
<1> QED
  BY <1>1, <1>2, <1>4 DEF Transferable

(* The process that has a quadrant. *)
LEMMA ProcHas ==
  ASSUME NumProcs \in Nat \ {0}, Total \in Nat, NEW cut, CutOf(cut), NEW g \in 0 .. Total - 1
  PROVE  /\ Tr!ProcOf(g, cut) \in 0 .. NumProcs - 1
         /\ cut[Tr!ProcOf(g, cut)] <= g /\ g < cut[Tr!ProcOf(g, cut) + 1]
<1> DEFINE T == { q \in 0 .. NumProcs : cut[q] > g }
<1>1. /\ cut[0] = 0 /\ cut[NumProcs] = Total /\ \A q \in 0 .. NumProcs : cut[q] \in 0 .. Total
  BY DEF CutOf
<1>2. T \in SUBSET Nat /\ NumProcs \in T
  BY <1>1
<1>3. PICK m \in T : \A y \in T : m <= y
  BY <1>2, LeastElement
<1>4. m \in 0 .. NumProcs /\ m # 0 /\ cut[m] > g
  BY <1>1, <1>3
<1> DEFINE l == m - 1
<1>5. l \in 0 .. NumProcs - 1 /\ l \in 0 .. NumProcs /\ l + 1 = m /\ ~ (m <= l)
  BY <1>4
<1> HIDE DEF l
<1>6. ~ (cut[l] > g) /\ cut[l] \in 0 .. Total
  BY <1>1, <1>3, <1>5
<1>7. cut[l] <= g /\ g < cut[l + 1]
  BY <1>4, <1>5, <1>6
<1>8. \E q \in 0 .. NumProcs - 1 : cut[q] <= g /\ g < cut[q + 1]
  BY <1>5, <1>7
<1> QED
  BY <1>8 DEF Tr!ProcOf, Tr!Procs

\* the part of the range from b to e that process q has in a partition
PartLow(b, a)  == IF a < b THEN b ELSE a
PartHigh(e, a) == IF a > e THEN e ELSE a

(* The partners of a range are the processes that share it. *)
LEMMA PartnersShare ==
  ASSUME NumProcs \in Nat \ {0}, Total \in Nat, NEW cut, CutOf(cut),
         NEW b \in 0 .. Total, NEW e \in 0 .. Total, b <= e, NEW q \in Tr!Procs
  PROVE  LET r == [begin |-> b, end |-> e]
             lo == PartLow(b, cut[q])
             hi == PartHigh(e, cut[q + 1])
         IN  /\ q \in Tr!Partners(r, cut) =>
                  /\ Tr!Share(q, r, cut) = [begin |-> lo, end |-> hi]
                  /\ lo <= hi
             /\ lo < hi => q \in Tr!Partners(r, cut)
<1> DEFINE r == [begin |-> b, end |-> e]
           lo == PartLow(b, cut[q])
           hi == PartHigh(e, cut[q + 1])
           f == Tr!ProcOf(b, cut)
           l == Tr!ProcOf(e - 1, cut)
<1>1. /\ q \in 0 .. NumProcs /\ q + 1 \in 0 .. NumProcs /\ q \in 0 .. NumProcs - 1
      /\ \A x \in 0 .. NumProcs : cut[x] \in 0 .. Total
      /\ \A x, y \in 0 .. NumProcs : x <= y => cut[x] <= cut[y]
  BY DEF CutOf, Tr!Procs
<1>2. cut[q] \in Nat /\ cut[q + 1] \in Nat /\ cut[q] <= cut[q + 1]
  BY <1>1
<1>3. ASSUME b < e
      PROVE  /\ f \in 0 .. NumProcs /\ f + 1 \in 0 .. NumProcs /\ l \in 0 .. NumProcs /\ l + 1 \in 0 .. NumProcs
             /\ cut[f] <= b /\ b < cut[f + 1] /\ cut[l] <= e - 1 /\ e - 1 < cut[l + 1]
  <2>1. b \in 0 .. Total - 1 /\ e - 1 \in 0 .. Total - 1
    BY <1>3
  <2>2. f \in 0 .. NumProcs - 1 /\ cut[f] <= b /\ b < cut[f + 1]
    BY <2>1, ProcHas
  <2>3. l \in 0 .. NumProcs - 1 /\ cut[l] <= e - 1 /\ e - 1 < cut[l + 1]
    BY <2>1, ProcHas
  <2> HIDE DEF f, l
  <2> QED
    BY <2>2, <2>3
<1>4. Tr!Partners(r, cut) = IF b < e THEN f .. l ELSE {}
  BY DEF Tr!Partners
<1>5. Tr!Share(q, r, cut) = [begin |-> IF q = f THEN b ELSE cut[q], end |-> hi]
  BY DEF Tr!Share, PartHigh
<1> HIDE DEF f, l
<1>6. ASSUME q \in Tr!Partners(r, cut)
      PROVE  Tr!Share(q, r, cut) = [begin |-> lo, end |-> hi] /\ lo <= hi
  <2>1. b < e /\ f <= q /\ q <= l
    BY <1>1, <1>3, <1>4, <1>6
  <2>2. cut[f + 1] <= cut[q + 1] /\ cut[q] <= cut[l]
    <3>1. f + 1 <= q + 1
      BY <1>1, <1>3, <2>1
    <3> QED
      BY <1>1, <1>3, <2>1, <3>1
  <2>3. cut[f] \in Nat /\ cut[f + 1] \in Nat /\ cut[l] \in Nat
    BY <1>1, <1>3, <2>1
  <2>4. b < cut[q + 1] /\ cut[q] < e
    BY <1>2, <1>3, <2>1, <2>2, <2>3
  <2>5. lo <= hi
    BY <1>2, <2>1, <2>4 DEF PartLow, PartHigh
  <2>6. lo = IF q = f THEN b ELSE cut[q]
    <3>1. CASE q = f
      BY <1>2, <1>3, <2>1, <3>1 DEF PartLow
    <3>2. CASE q # f
      <4>1. f + 1 <= q
        BY <1>1, <1>3, <2>1, <3>2
      <4>2. cut[f + 1] <= cut[q]
        BY <1>1, <1>3, <2>1, <4>1
      <4> QED
        BY <1>2, <1>3, <2>1, <2>3, <3>2, <4>2 DEF PartLow
    <3> QED
      BY <3>1, <3>2
  <2> QED
    BY <1>5, <2>5, <2>6
<1>7. ASSUME lo < hi PROVE q \in Tr!Partners(r, cut)
  <2>1. b < e /\ b < cut[q + 1] /\ cut[q] < e
    BY <1>2, <1>7 DEF PartLow, PartHigh
  <2>2. f <= q
    <3> SUFFICES ASSUME q < f PROVE FALSE
      BY <1>1, <1>3, <2>1
    <3>1. q + 1 <= f
      BY <1>1, <1>3, <2>1
    <3>2. cut[q + 1] <= cut[f] /\ cut[f] \in Nat
      BY <1>1, <1>3, <2>1, <3>1
    <3> QED
      BY <1>2, <1>3, <2>1, <3>2
  <2>3. q <= l
    <3> SUFFICES ASSUME l < q PROVE FALSE
      BY <1>1, <1>3, <2>1
    <3>1. l + 1 <= q
      BY <1>1, <1>3, <2>1
    <3>2. cut[l + 1] <= cut[q] /\ cut[l + 1] \in Nat
      BY <1>1, <1>3, <2>1, <3>1
    <3> QED
      BY <1>2, <1>3, <2>1, <3>2
  <2> QED
    BY <1>1, <1>3, <1>4, <2>1, <2>2, <2>3
<1> QED
  BY <1>6, <1>7

(***************************************************************************)
(* What comes in front of a quadrant.                                      *)
(***************************************************************************)
\* f has the sums of the sizes of the quadrants from b on
AllOffsets(sizes, b, e, f) ==
  f = [g \in b .. e |-> IF g = b THEN 0 ELSE f[g - 1] + sizes[g - 1]]

(* There is a function of the sums. *)
LEMMA OffsetsExist ==
  ASSUME NEW sizes, NEW b \in Int, NEW e \in Int, b <= e
  PROVE  AllOffsets(sizes, b, e, Tr!Offsets(sizes, [begin |-> b, end |-> e]))
<1> DEFINE S == { m \in Nat : \E f : AllOffsets(sizes, b, b + m, f) }
<1>1. 0 \in S
  <2> DEFINE f == [g \in b .. b + 0 |-> 0]
  <2>1. f = [g \in b .. b + 0 |-> IF g = b THEN 0 ELSE f[g - 1] + sizes[g - 1]]
    <3>1. \A g \in b .. b + 0 : g = b
      OBVIOUS
    <3> QED
      BY <3>1
  <2>2. AllOffsets(sizes, b, b + 0, f)
    BY <2>1 DEF AllOffsets
  <2> QED
    BY <2>2
<1>2. ASSUME NEW m \in Nat, m \in S PROVE m + 1 \in S
  <2>1. PICK f : AllOffsets(sizes, b, b + m, f)
    BY <1>2
  <2> DEFINE x == b + m
             h == [g \in b .. b + (m + 1) |-> IF g = x + 1 THEN f[x] + sizes[x] ELSE f[g]]
  <2>2. x \in Int /\ b <= x /\ b + (m + 1) = x + 1
    OBVIOUS
  <2>3. \A g \in b .. x : f[g] = IF g = b THEN 0 ELSE f[g - 1] + sizes[g - 1]
    BY <2>1 DEF AllOffsets
  <2> HIDE DEF x
  <2>4. /\ h[x + 1] = f[x] + sizes[x]
        /\ \A g \in b .. x : h[g] = f[g]
    BY <2>2
  <2>5. ASSUME NEW g \in b .. b + (m + 1)
        PROVE  h[g] = IF g = b THEN 0 ELSE h[g - 1] + sizes[g - 1]
    <3>1. CASE g = x + 1
      <4>1. g - 1 = x /\ x \in b .. x /\ g # b
        BY <2>2, <3>1
      <4> HIDE DEF h
      <4> QED
        BY <2>4, <3>1, <4>1
    <3>2. CASE g # x + 1
      <4>1. g \in b .. x /\ (g # b => g - 1 \in b .. x)
        BY <2>2, <3>2
      <4> HIDE DEF h
      <4> QED
        BY <2>3, <2>4, <4>1
    <3> QED
      BY <3>1, <3>2
  <2>6. h = [g \in b .. b + (m + 1) |-> IF g = b THEN 0 ELSE h[g - 1] + sizes[g - 1]]
    BY <2>5
  <2>7. AllOffsets(sizes, b, b + (m + 1), h)
    BY <2>6 DEF AllOffsets
  <2> QED
    BY <2>7
<1> HIDE DEF S
<1>3. \A m \in Nat : m \in S
  BY <1>1, <1>2, NatSetInduction, Zenon
<1>4. e - b \in S /\ b + (e - b) = e
  BY <1>3
<1>5. \E f : AllOffsets(sizes, b, e, f)
  BY <1>4 DEF S
<1> DEFINE c == CHOOSE f : AllOffsets(sizes, b, e, f)
<1>6. AllOffsets(sizes, b, e, c)
  BY <1>5
<1>7. Tr!Offsets(sizes, [begin |-> b, end |-> e]) = c
  BY DEF Tr!Offsets, AllOffsets
<1> QED
  BY <1>6, <1>7

(* Sums of differences telescope. *)
LEMMA OffsetsAre ==
  ASSUME NEW sizes, NEW b \in Int, NEW e \in Int, b <= e, NEW c,
         \A g \in b .. e : c[g] \in Int,
         \A g \in b .. e - 1 : c[g + 1] = c[g] + sizes[g] /\ sizes[g] \in Int
  PROVE  Tr!Offsets(sizes, [begin |-> b, end |-> e]) = [g \in b .. e |-> c[g] - c[b]]
<1> DEFINE f == Tr!Offsets(sizes, [begin |-> b, end |-> e])
<1>1. f = [g \in b .. e |-> IF g = b THEN 0 ELSE f[g - 1] + sizes[g - 1]]
  BY OffsetsExist DEF AllOffsets
<1> HIDE DEF f
<1> DEFINE S == { m \in Nat : b + m <= e => f[b + m] = c[b + m] - c[b] }
<1>2. \A g \in b .. e : f[g] = IF g = b THEN 0 ELSE f[g - 1] + sizes[g - 1]
  BY <1>1
<1>3. 0 \in S
  <2>1. b \in b .. e /\ b + 0 = b
    OBVIOUS
  <2> QED
    BY <1>2, <2>1
<1>4. ASSUME NEW m \in Nat, m \in S PROVE m + 1 \in S
  <2> SUFFICES ASSUME b + (m + 1) <= e PROVE f[b + (m + 1)] = c[b + (m + 1)] - c[b]
    OBVIOUS
  <2> DEFINE x == b + m
  <2>1. /\ x \in b .. e /\ x \in b .. e - 1 /\ x + 1 \in b .. e /\ b \in b .. e
        /\ b + (m + 1) = x + 1 /\ x + 1 # b /\ (x + 1) - 1 = x
    OBVIOUS
  <2>2. f[x] = c[x] - c[b]
    BY <1>4, <2>1
  <2> HIDE DEF x
  <2>3. f[x + 1] = f[x] + sizes[x]
    BY <1>2, <2>1
  <2>4. c[x + 1] = c[x] + sizes[x] /\ sizes[x] \in Int /\ c[x] \in Int /\ c[b] \in Int
    BY <2>1
  <2>5. f[x + 1] = c[x + 1] - c[b]
    BY <2>2, <2>3, <2>4
  <2> QED
    BY <2>1, <2>5
<1> HIDE DEF S
<1>5. \A m \in Nat : m \in S
  BY <1>3, <1>4, NatSetInduction, Zenon
<1>6. ASSUME NEW g \in b .. e PROVE f[g] = c[g] - c[b]
  <2>1. g - b \in Nat /\ b + (g - b) = g /\ g <= e
    OBVIOUS
  <2>2. g - b \in S
    BY <1>5, <2>1
  <2> QED
    BY <2>1, <2>2 DEF S
<1>7. f = [g \in b .. e |-> f[g]]
  BY <1>1
<1> QED
  BY <1>6, <1>7 DEF f

(***************************************************************************)
(* What a transfer carries.                                                *)
(***************************************************************************)
Long(x, g) ==
  CASE x = "fixed"  -> input.fixed
    [] x = "sizes"  -> 1
    [] x = "custom" -> input.sizes[g]
\* how much comes in front of quadrant g of the forest
InFront(x) == Tr!Offsets([g \in 0 .. Total - 1 |-> Long(x, g)], [begin |-> 0, end |-> Total])

(* The length of what is carried for a quadrant. *)
LEMMA ItemsLong ==
  ASSUME Transferable, NEW x \in Tr!Transfers, NEW g \in 0 .. Total - 1
  PROVE  Len(Tr!Items(x, g)) = Long(x, g) /\ Long(x, g) \in Nat
<1>1. x \in { "fixed", "sizes", "custom" } /\ input.fixed \in Nat /\ input.sizes[g] \in Nat
  BY DEF Tr!Transfers, Transferable
<1>2. CASE x = "fixed"
  <2>1. Tr!Items(x, g) = [i \in 1 .. input.fixed |-> << g >>] /\ Long(x, g) = input.fixed
    BY <1>2 DEF Tr!Items, Long
  <2> QED
    BY <1>1, <2>1
<1>3. CASE x = "sizes"
  <2>1. Tr!Items(x, g) = << << input.sizes[g] >> >> /\ Long(x, g) = 1
    BY <1>3 DEF Tr!Items, Long
  <2> QED
    BY <2>1
<1>4. CASE x = "custom"
  <2>1. Tr!Items(x, g) = [i \in 1 .. input.sizes[g] |-> << g, i >>] /\ Long(x, g) = input.sizes[g]
    BY <1>4 DEF Tr!Items, Long
  <2> QED
    BY <1>1, <2>1
<1> QED
  BY <1>1, <1>2, <1>3, <1>4

(* Each quadrant is behind the one in front of it. *)
LEMMA InFrontGrows ==
  ASSUME Transferable, NEW x \in Tr!Transfers
  PROVE  /\ InFront(x)[0] = 0
         /\ \A g \in 0 .. Total : InFront(x)[g] \in Int
         /\ \A g \in 0 .. Total - 1 : InFront(x)[g + 1] = InFront(x)[g] + Long(x, g)
         /\ \A g, h \in 0 .. Total : g <= h => InFront(x)[g] <= InFront(x)[h]
<1> DEFINE c == InFront(x)
           s == [g \in 0 .. Total - 1 |-> Long(x, g)]
<1>1. Total \in Nat /\ \A g \in 0 .. Total - 1 : s[g] = Long(x, g) /\ Long(x, g) \in Nat
  BY ItemsLong DEF Transferable
<1>2. c = [g \in 0 .. Total |-> IF g = 0 THEN 0 ELSE c[g - 1] + s[g - 1]]
  BY <1>1, OffsetsExist DEF InFront, AllOffsets
<1> HIDE DEF c, s
<1>3. \A g \in 0 .. Total : c[g] = IF g = 0 THEN 0 ELSE c[g - 1] + s[g - 1]
  BY <1>2
<1>4. \A g \in 0 .. Total - 1 : c[g + 1] = c[g] + Long(x, g)
  <2> SUFFICES ASSUME NEW g \in 0 .. Total - 1 PROVE c[g + 1] = c[g] + Long(x, g)
    OBVIOUS
  <2>1. g + 1 \in 0 .. Total /\ g + 1 # 0 /\ (g + 1) - 1 = g
    BY <1>1
  <2> QED
    BY <1>1, <1>3, <2>1
<1>5. c[0] = 0
  BY <1>1, <1>3
<1> DEFINE S == { m \in Nat : m <= Total => c[m] \in Int }
<1>6. 0 \in S
  BY <1>5
<1>7. ASSUME NEW m \in Nat, m \in S PROVE m + 1 \in S
  <2> SUFFICES ASSUME m + 1 <= Total PROVE c[m + 1] \in Int
    OBVIOUS
  <2>1. m \in 0 .. Total - 1 /\ c[m] \in Int
    BY <1>1, <1>7
  <2> QED
    BY <1>1, <1>4, <2>1
<1> HIDE DEF S
<1>8. \A m \in Nat : m \in S
  BY <1>6, <1>7, NatSetInduction, Zenon
<1>9. \A g \in 0 .. Total : c[g] \in Int
  <2> SUFFICES ASSUME NEW g \in 0 .. Total PROVE c[g] \in Int
    OBVIOUS
  <2>1. g \in S /\ g <= Total
    BY <1>1, <1>8
  <2> QED
    BY <2>1 DEF S
<1>10. ASSUME NEW g \in 0 .. Total PROVE \A h \in 0 .. Total : g <= h => c[g] <= c[h]
  <2> DEFINE U == { m \in Nat : g + m <= Total => c[g] <= c[g + m] }
  <2>1. 0 \in U
    <3>1. c[g] \in Int /\ g + 0 = g
      BY <1>9
    <3> QED
      BY <3>1
  <2>2. ASSUME NEW m \in Nat, m \in U PROVE m + 1 \in U
    <3> SUFFICES ASSUME g + (m + 1) <= Total PROVE c[g] <= c[g + (m + 1)]
      OBVIOUS
    <3> DEFINE k == g + m
    <3>1. k \in 0 .. Total - 1 /\ k \in 0 .. Total /\ g + (m + 1) = k + 1
      BY <1>1
    <3>2. c[g] <= c[k]
      BY <1>1, <2>2, <3>1
    <3> HIDE DEF k
    <3>3. c[k + 1] = c[k] + Long(x, k) /\ Long(x, k) \in Nat /\ c[k] \in Int /\ c[g] \in Int
      BY <1>1, <1>4, <1>9, <3>1
    <3>4. c[g] <= c[k + 1]
      BY <3>2, <3>3
    <3> QED
      BY <3>1, <3>4
  <2> HIDE DEF U
  <2>3. \A m \in Nat : m \in U
    BY <2>1, <2>2, NatSetInduction, Zenon
  <2> SUFFICES ASSUME NEW h \in 0 .. Total, g <= h PROVE c[g] <= c[h]
    OBVIOUS
  <2>4. h - g \in Nat /\ g + (h - g) = h /\ h <= Total
    BY <1>1
  <2>5. h - g \in U
    BY <2>3, <2>4
  <2> QED
    BY <2>4, <2>5 DEF U
<1> QED
  BY <1>4, <1>5, <1>9, <1>10 DEF c

\* item m is one of quadrant g
IsOf(x, m, g) == InFront(x)[g] < m /\ m <= InFront(x)[g + 1]
\* item m of all that is carried
Item(x, m) == LET g == CHOOSE g \in 0 .. Total - 1 : IsOf(x, m, g)
              IN  Tr!Items(x, g)[m - InFront(x)[g]]

(* Each item is one of a single quadrant. *)
LEMMA WhoseItem ==
  ASSUME Transferable, NEW x \in Tr!Transfers, NEW m \in Int,
         NEW b \in 0 .. Total, NEW e \in 0 .. Total, InFront(x)[b] < m, m <= InFront(x)[e]
  PROVE  \E g \in b .. e - 1 : /\ g \in 0 .. Total - 1 /\ IsOf(x, m, g)
                               /\ \A h \in 0 .. Total - 1 : IsOf(x, m, h) => h = g
<1> DEFINE c == InFront(x)
           T == { h \in b .. e : m <= c[h] }
<1>1. /\ Total \in Nat /\ \A g \in 0 .. Total : c[g] \in Int
      /\ \A g, h \in 0 .. Total : g <= h => c[g] <= c[h]
  BY InFrontGrows DEF Transferable
<1> HIDE DEF c
<1>2. b < e
  <2> SUFFICES ASSUME e <= b PROVE FALSE
    BY <1>1
  <2>1. c[e] <= c[b] /\ c[e] \in Int /\ c[b] \in Int
    BY <1>1
  <2>2. c[b] < m /\ m <= c[e]
    BY DEF c
  <2> QED
    BY <2>1, <2>2
<1>3. c[b] < m /\ m <= c[e]
  BY DEF c
<1>4. T \in SUBSET Nat /\ e \in T
  BY <1>1, <1>2, <1>3
<1>5. PICK h \in T : \A y \in T : h <= y
  BY <1>4, LeastElement
<1> DEFINE g == h - 1
<1>6. h # b /\ h \in b .. e /\ m <= c[h]
  <2>1. ~ (m <= c[b])
    BY <1>1, <1>3
  <2> QED
    BY <1>5, <2>1
<1>7. g \in b .. e - 1 /\ g \in b .. e /\ g + 1 = h /\ g \in 0 .. Total - 1 /\ g \in 0 .. Total /\ ~ (h <= g)
  BY <1>1, <1>6
<1> HIDE DEF g
<1>8. c[g] < m
  <2>1. ~ (m <= c[g]) /\ c[g] \in Int
    BY <1>1, <1>5, <1>7
  <2> QED
    BY <2>1
<1>9. c[g] < m /\ m <= c[g + 1]
  BY <1>6, <1>7, <1>8
<1>10. ASSUME NEW k \in 0 .. Total - 1, c[k] < m, m <= c[k + 1] PROVE k = g
  <2>1. k \in 0 .. Total /\ k + 1 \in 0 .. Total /\ g + 1 \in 0 .. Total
    BY <1>1, <1>7
  <2>2. ~ (k < g)
    <3> SUFFICES ASSUME k + 1 <= g PROVE FALSE
      BY <1>7
    <3>1. c[k + 1] <= c[g] /\ c[k + 1] \in Int /\ c[g] \in Int
      BY <1>1, <1>7, <2>1
    <3> QED
      BY <1>9, <1>10, <3>1
  <2>3. ~ (g < k)
    <3> SUFFICES ASSUME g + 1 <= k PROVE FALSE
      BY <1>7
    <3>1. c[g + 1] <= c[k] /\ c[g + 1] \in Int /\ c[k] \in Int
      BY <1>1, <2>1
    <3> QED
      BY <1>9, <1>10, <3>1
  <2> QED
    BY <1>7, <2>2, <2>3
<1> QED
  BY <1>7, <1>9, <1>10 DEF IsOf, c

(* The data of a range is a part of all that is carried. *)
LEMMA DataIs ==
  ASSUME Transferable, NEW x \in Tr!Transfers, NEW b \in 0 .. Total, NEW e \in 0 .. Total, b <= e
  PROVE  Tr!SrcData(x, [begin |-> b, end |-> e])
           = [k \in 1 .. InFront(x)[e] - InFront(x)[b] |-> Item(x, InFront(x)[b] + k)]
<1> DEFINE c == InFront(x)
           s == [g \in b .. e - 1 |-> Len(Tr!Items(x, g))]
           at == Tr!Offsets(s, [begin |-> b, end |-> e])
           of(k) == CHOOSE g \in b .. e - 1 : at[g] < k /\ k <= at[g + 1]
<1>1. /\ Total \in Nat /\ \A g \in 0 .. Total : c[g] \in Int
      /\ \A g \in 0 .. Total - 1 : c[g + 1] = c[g] + Long(x, g)
  BY InFrontGrows DEF Transferable
<1>2. at = [g \in b .. e |-> c[g] - c[b]]
  <2> HIDE DEF c
  <2>1. b \in Int /\ e \in Int /\ \A g \in b .. e : c[g] \in Int
    BY <1>1
  <2>2. \A g \in b .. e - 1 : c[g + 1] = c[g] + s[g] /\ s[g] \in Int
    <3> SUFFICES ASSUME NEW g \in b .. e - 1 PROVE c[g + 1] = c[g] + s[g] /\ s[g] \in Int
      OBVIOUS
    <3>1. g \in 0 .. Total - 1
      BY <1>1
    <3>2. s[g] = Long(x, g) /\ Long(x, g) \in Nat
      BY <3>1, ItemsLong
    <3> QED
      BY <1>1, <3>1, <3>2
  <2> HIDE DEF s
  <2> QED
    BY <2>1, <2>2, OffsetsAre
<1>3. Tr!SrcData(x, [begin |-> b, end |-> e])
        = [k \in 1 .. at[e] |-> Tr!Items(x, of(k))[k - at[of(k)]]]
  BY DEF Tr!SrcData
<1> HIDE DEF at
<1>4. at[e] = c[e] - c[b] /\ \A g \in b .. e : at[g] = c[g] - c[b]
  BY <1>1, <1>2
<1>5. ASSUME NEW k \in 1 .. c[e] - c[b]
      PROVE  Tr!Items(x, of(k))[k - at[of(k)]] = Item(x, c[b] + k)
  <2> DEFINE m == c[b] + k
  <2>1. m \in Int /\ c[b] < m /\ m <= c[e] /\ c[b] \in Int
    BY <1>1
  <2>2. PICK g \in b .. e - 1 : /\ g \in 0 .. Total - 1 /\ IsOf(x, m, g)
                                /\ \A h \in 0 .. Total - 1 : IsOf(x, m, h) => h = g
    <3> HIDE DEF m
    <3> QED
      BY <2>1, WhoseItem DEF c
  <2>3. (CHOOSE h \in 0 .. Total - 1 : IsOf(x, m, h)) = g
    BY <2>2
  <2>4. Item(x, m) = Tr!Items(x, g)[m - c[g]]
    BY <2>3 DEF Item, c
  <2>5. \A h \in b .. e - 1 : IsOf(x, m, h) <=> at[h] < k /\ k <= at[h + 1]
    <3> SUFFICES ASSUME NEW h \in b .. e - 1
                 PROVE  IsOf(x, m, h) <=> at[h] < k /\ k <= at[h + 1]
      OBVIOUS
    <3>1. h \in b .. e /\ h + 1 \in b .. e /\ h \in 0 .. Total /\ h + 1 \in 0 .. Total
      BY <1>1
    <3>2. at[h] = c[h] - c[b] /\ at[h + 1] = c[h + 1] - c[b] /\ c[h] \in Int /\ c[h + 1] \in Int
      BY <1>1, <1>4, <3>1
    <3>3. IsOf(x, m, h) <=> c[h] < m /\ m <= c[h + 1]
      BY DEF IsOf, c
    <3> HIDE DEF c
    <3> QED
      BY <2>1, <3>2, <3>3
  <2>6. \A h \in b .. e - 1 : h \in 0 .. Total - 1
    BY <1>1
  <2>7. of(k) = g
    <3> HIDE DEF m
    <3> QED
      BY <2>2, <2>5, <2>6
  <2>8. k - at[g] = m - c[g]
    <3>1. g \in b .. e /\ g \in 0 .. Total
      BY <1>1, <2>2
    <3>2. at[g] = c[g] - c[b] /\ c[g] \in Int
      BY <1>1, <1>4, <3>1
    <3> HIDE DEF c
    <3> QED
      BY <2>1, <3>2
  <2> HIDE DEF of
  <2> QED
    BY <2>4, <2>7, <2>8
<1> HIDE DEF of
<1> QED
  BY <1>3, <1>4, <1>5 DEF c

\* what q has of what p is to get, and where that lies in the data of p
CommonFrom(q, p)  == PartLow(input.dest[p], input.src[q])
CommonTo(q, p) == PartHigh(input.dest[p + 1], input.src[q + 1])
Sends(x, q, p)   == InFront(x)[CommonFrom(q, p)] < InFront(x)[CommonTo(q, p)]
AreaFrom(x, q, p)  == InFront(x)[CommonFrom(q, p)] - InFront(x)[input.dest[p]]
Area(x, q, p, k) == AreaFrom(x, q, p) < k /\ k <= InFront(x)[CommonTo(q, p)] - InFront(x)[input.dest[p]]
AllOf(x, p)      == InFront(x)[input.dest[p + 1]] - InFront(x)[input.dest[p]]

(* Where the ranges of the processes lie. *)
LEMMA WhereThings ==
  ASSUME Transferable, NEW p \in Tr!Procs, NEW q \in Tr!Procs
  PROVE  /\ input.src[q] \in 0 .. Total /\ input.src[q + 1] \in 0 .. Total
         /\ input.dest[p] \in 0 .. Total /\ input.dest[p + 1] \in 0 .. Total
         /\ input.src[q] <= input.src[q + 1] /\ input.dest[p] <= input.dest[p + 1]
         /\ CommonFrom(q, p) \in 0 .. Total /\ CommonTo(q, p) \in 0 .. Total
         /\ CommonFrom(q, p) = PartLow(input.src[q], input.dest[p])
         /\ CommonTo(q, p) = PartHigh(input.src[q + 1], input.dest[p + 1])
         /\ input.dest[p] <= CommonFrom(q, p) /\ CommonTo(q, p) <= input.dest[p + 1]
         /\ input.src[q] <= CommonFrom(q, p) /\ CommonTo(q, p) <= input.src[q + 1]
<1>1. /\ p \in 0 .. NumProcs /\ p + 1 \in 0 .. NumProcs /\ q \in 0 .. NumProcs /\ q + 1 \in 0 .. NumProcs
      /\ p <= p + 1 /\ q <= q + 1 /\ Total \in Nat
  BY DEF Tr!Procs, Transferable
<1>2. /\ input.src[q] \in 0 .. Total /\ input.src[q + 1] \in 0 .. Total
      /\ input.src[q] <= input.src[q + 1]
  BY <1>1 DEF Transferable, CutOf
<1>3. /\ input.dest[p] \in 0 .. Total /\ input.dest[p + 1] \in 0 .. Total
      /\ input.dest[p] <= input.dest[p + 1]
  BY <1>1 DEF Transferable, CutOf
<1> QED
  BY <1>1, <1>2, <1>3 DEF CommonFrom, CommonTo, PartLow, PartHigh

(* Where nothing but what is common is longer than nothing. *)
LEMMA SendsSome ==
  ASSUME Transferable, NEW x \in Tr!Transfers, NEW p \in Tr!Procs, NEW q \in Tr!Procs, Sends(x, q, p)
  PROVE  CommonFrom(q, p) < CommonTo(q, p)
<1>1. CommonFrom(q, p) \in 0 .. Total /\ CommonTo(q, p) \in 0 .. Total /\ Total \in Nat
  BY WhereThings DEF Transferable
<1> DEFINE l == CommonFrom(q, p)
           h == CommonTo(q, p)
<1>2. InFront(x)[l] < InFront(x)[h]
  BY DEF Sends
<1> HIDE DEF l, h
<1>3. l \in 0 .. Total /\ h \in 0 .. Total
  BY <1>1 DEF l, h
<1>4. ~ (h <= l)
  <2> SUFFICES ASSUME h <= l PROVE FALSE
    OBVIOUS
  <2>1. InFront(x)[h] <= InFront(x)[l] /\ InFront(x)[h] \in Int /\ InFront(x)[l] \in Int
    BY <1>3, InFrontGrows
  <2> QED
    BY <1>2, <2>1
<1> QED
  BY <1>1, <1>3, <1>4 DEF l, h

\* the quadrants of a range are as long as sizes says
LongOn(x, sizes, b, e) == \A g \in b .. e - 1 : sizes[g] = Long(x, g)

(* A part of a range begins and ends where it does in all that is carried. *)
LEMMA PlaceIs ==
  ASSUME Transferable, NEW x \in Tr!Transfers, NEW sizes,
         NEW b \in 0 .. Total, NEW e \in 0 .. Total,
         LongOn(x, sizes, b, e), NEW lo \in b .. e, NEW hi \in b .. e
  PROVE  /\ Tr!Place(sizes, [begin |-> b, end |-> e], [begin |-> lo, end |-> hi])
              = [at  |-> InFront(x)[lo] - InFront(x)[b],
                 len |-> InFront(x)[hi] - InFront(x)[lo]]
         /\ Tr!Offsets(sizes, [begin |-> b, end |-> e])[e] = InFront(x)[e] - InFront(x)[b]
<1> DEFINE c == InFront(x)
           at == Tr!Offsets(sizes, [begin |-> b, end |-> e])
<1>1. /\ Total \in Nat /\ \A g \in 0 .. Total : c[g] \in Int
      /\ \A g \in 0 .. Total - 1 : c[g + 1] = c[g] + Long(x, g)
  BY InFrontGrows DEF Transferable
<1> HIDE DEF c
<1>2. b <= e /\ b \in Int /\ e \in Int /\ e \in b .. e
  BY <1>1
<1>3. at = [g \in b .. e |-> c[g] - c[b]]
  <2>1. \A g \in b .. e : c[g] \in Int
    BY <1>1
  <2>2. \A g \in b .. e - 1 : c[g + 1] = c[g] + sizes[g] /\ sizes[g] \in Int
    <3> SUFFICES ASSUME NEW g \in b .. e - 1 PROVE c[g + 1] = c[g] + sizes[g] /\ sizes[g] \in Int
      OBVIOUS
    <3>1. g \in 0 .. Total - 1
      BY <1>1
    <3>2. sizes[g] = Long(x, g) /\ Long(x, g) \in Nat
      BY <3>1, ItemsLong DEF LongOn
    <3> QED
      BY <1>1, <3>1, <3>2
  <2> QED
    BY <1>2, <2>1, <2>2, OffsetsAre
<1>4. Tr!Place(sizes, [begin |-> b, end |-> e], [begin |-> lo, end |-> hi])
        = [at |-> at[lo], len |-> at[hi] - at[lo]]
  BY DEF Tr!Place
<1> HIDE DEF at
<1>5. at[lo] = c[lo] - c[b] /\ at[hi] = c[hi] - c[b] /\ at[e] = c[e] - c[b]
  BY <1>2, <1>3
<1>6. c[lo] \in Int /\ c[hi] \in Int /\ c[b] \in Int
  BY <1>1
<1>7. at[hi] - at[lo] = c[hi] - c[lo]
  BY <1>5, <1>6
<1> QED
  BY <1>4, <1>5, <1>7 DEF at, c

(* A process sends where there is something in common, and what is. *)
LEMMA DestinationsAre ==
  ASSUME Transferable, NEW x \in Tr!Transfers, NEW q \in Tr!Procs, NEW p \in Tr!Procs
  PROVE  /\ p \in Tr!Destinations(x, q) <=> p # q /\ Sends(x, q, p)
         /\ Sends(x, q, p) => Tr!SentTo(q, p) = [begin |-> CommonFrom(q, p), end |-> CommonTo(q, p)]
<1> DEFINE b == input.src[q]
           e == input.src[q + 1]
           sizes == Tr!SrcSizes(x, q)
           cut == input.dest
           lo == CommonFrom(q, p)
           hi == CommonTo(q, p)
<1>1. /\ b \in 0 .. Total /\ e \in 0 .. Total /\ b <= e /\ lo \in 0 .. Total /\ hi \in 0 .. Total
      /\ lo = PartLow(b, cut[p]) /\ hi = PartHigh(e, cut[p + 1])
      /\ b <= lo /\ hi <= e
  BY WhereThings
<1>2. Tr!Held(q) = [begin |-> b, end |-> e] /\ Total \in Nat /\ NumProcs \in Nat \ {0} /\ CutOf(cut)
  BY DEF Tr!Held, Transferable
<1>3. Tr!SentTo(q, p) = Tr!Share(p, [begin |-> b, end |-> e], cut)
  BY <1>2 DEF Tr!SentTo
<1>4. p \in Tr!Destinations(x, q) <=>
        /\ p \in Tr!Partners([begin |-> b, end |-> e], cut) /\ p # q
        /\ Tr!Place(sizes, [begin |-> b, end |-> e], Tr!SentTo(q, p)).len > 0
  BY <1>2 DEF Tr!Destinations
<1>5. LongOn(x, sizes, b, e)
  <2>1. \A g \in b .. e - 1 : sizes[g] = Len(Tr!Items(x, g))
    BY <1>2 DEF Tr!SrcSizes
  <2>2. \A g \in b .. e - 1 : g \in 0 .. Total - 1
    BY <1>1, <1>2
  <2> QED
    BY <2>1, <2>2, ItemsLong DEF LongOn
<1> HIDE DEF b, e, cut, sizes, lo, hi
<1>6. /\ p \in Tr!Partners([begin |-> b, end |-> e], cut) =>
           /\ Tr!Share(p, [begin |-> b, end |-> e], cut) = [begin |-> lo, end |-> hi]
           /\ lo <= hi
      /\ lo < hi => p \in Tr!Partners([begin |-> b, end |-> e], cut)
  BY <1>1, <1>2, PartnersShare
<1>7. ASSUME p \in Tr!Partners([begin |-> b, end |-> e], cut)
      PROVE  /\ Tr!SentTo(q, p) = [begin |-> lo, end |-> hi]
             /\ Tr!Place(sizes, [begin |-> b, end |-> e], Tr!SentTo(q, p)).len > 0 <=> Sends(x, q, p)
  <2>1. Tr!SentTo(q, p) = [begin |-> lo, end |-> hi] /\ lo <= hi
    BY <1>3, <1>6, <1>7
  <2>2. lo \in b .. e /\ hi \in b .. e
    BY <1>1, <1>2, <2>1
  <2>3. Tr!Place(sizes, [begin |-> b, end |-> e], [begin |-> lo, end |-> hi])
          = [at |-> InFront(x)[lo] - InFront(x)[b], len |-> InFront(x)[hi] - InFront(x)[lo]]
    BY <1>1, <1>5, <2>2, PlaceIs
  <2>4. InFront(x)[hi] \in Int /\ InFront(x)[lo] \in Int
    BY <1>1, InFrontGrows
  <2> QED
    BY <2>1, <2>3, <2>4 DEF Sends, lo, hi
<1>8. Sends(x, q, p) => p \in Tr!Partners([begin |-> b, end |-> e], cut)
  BY <1>6, SendsSome DEF lo, hi
<1> QED
  BY <1>4, <1>7, <1>8 DEF lo, hi

(* A process that knows the sizes receives from those that send to it, and *)
(* where their data belongs.                                               *)
LEMMA SourcesAre ==
  ASSUME Transferable, NEW x \in Tr!Transfers, NEW q \in Tr!Procs, NEW p \in Tr!Procs,
         LongOn(x, Tr!DestSizes(x, p), input.dest[p], input.dest[p + 1])
  PROVE  /\ q \in Tr!Sources(x, p) <=> Sends(x, q, p)
         /\ Sends(x, q, p) =>
              /\ Tr!ReceivedFrom(p, q) = [begin |-> CommonFrom(q, p), end |-> CommonTo(q, p)]
              /\ Tr!Place(Tr!DestSizes(x, p), Tr!Received(p), Tr!ReceivedFrom(p, q))
                   = [at  |-> AreaFrom(x, q, p),
                      len |-> InFront(x)[CommonTo(q, p)] - InFront(x)[CommonFrom(q, p)]]
         /\ Tr!Offsets(Tr!DestSizes(x, p), Tr!Received(p))[Tr!Received(p).end] = AllOf(x, p)
<1> DEFINE b == input.dest[p]
           e == input.dest[p + 1]
           sizes == Tr!DestSizes(x, p)
           cut == input.src
           lo == CommonFrom(q, p)
           hi == CommonTo(q, p)
<1>1. /\ b \in 0 .. Total /\ e \in 0 .. Total /\ b <= e /\ lo \in 0 .. Total /\ hi \in 0 .. Total
      /\ lo = PartLow(b, cut[q]) /\ hi = PartHigh(e, cut[q + 1])
      /\ b <= lo /\ hi <= e
  BY WhereThings DEF CommonFrom, CommonTo
<1>2. Tr!Received(p) = [begin |-> b, end |-> e] /\ Total \in Nat /\ NumProcs \in Nat \ {0} /\ CutOf(cut)
  BY DEF Tr!Received, Transferable
<1>3. Tr!ReceivedFrom(p, q) = Tr!Share(q, [begin |-> b, end |-> e], cut)
  BY <1>2 DEF Tr!ReceivedFrom
<1>4. q \in Tr!Sources(x, p) <=>
        /\ q \in Tr!Partners([begin |-> b, end |-> e], cut)
        /\ Tr!Place(sizes, [begin |-> b, end |-> e], Tr!ReceivedFrom(p, q)).len > 0
  BY <1>2 DEF Tr!Sources
<1>5. LongOn(x, sizes, b, e)
  OBVIOUS
<1> HIDE DEF b, e, cut, sizes, lo, hi
<1>6. /\ q \in Tr!Partners([begin |-> b, end |-> e], cut) =>
           /\ Tr!Share(q, [begin |-> b, end |-> e], cut) = [begin |-> lo, end |-> hi]
           /\ lo <= hi
      /\ lo < hi => q \in Tr!Partners([begin |-> b, end |-> e], cut)
  BY <1>1, <1>2, PartnersShare
<1>7. ASSUME q \in Tr!Partners([begin |-> b, end |-> e], cut)
      PROVE  /\ Tr!ReceivedFrom(p, q) = [begin |-> lo, end |-> hi]
             /\ Tr!Place(sizes, [begin |-> b, end |-> e], Tr!ReceivedFrom(p, q))
                  = [at |-> InFront(x)[lo] - InFront(x)[b], len |-> InFront(x)[hi] - InFront(x)[lo]]
  <2>1. Tr!ReceivedFrom(p, q) = [begin |-> lo, end |-> hi] /\ lo <= hi
    BY <1>3, <1>6, <1>7
  <2>2. lo \in b .. e /\ hi \in b .. e
    BY <1>1, <1>2, <2>1
  <2>3. Tr!Place(sizes, [begin |-> b, end |-> e], [begin |-> lo, end |-> hi])
          = [at |-> InFront(x)[lo] - InFront(x)[b], len |-> InFront(x)[hi] - InFront(x)[lo]]
    BY <1>1, <1>5, <2>2, PlaceIs
  <2> QED
    BY <2>1, <2>3
<1>8. Sends(x, q, p) => q \in Tr!Partners([begin |-> b, end |-> e], cut)
  BY <1>6, SendsSome DEF lo, hi
<1>9. Tr!Offsets(sizes, [begin |-> b, end |-> e])[e] = InFront(x)[e] - InFront(x)[b]
  <2>1. b \in b .. e /\ e \in b .. e
    BY <1>1, <1>2
  <2> QED
    BY <1>1, <1>5, <2>1, PlaceIs
<1>10. InFront(x)[lo] \in Int /\ InFront(x)[hi] \in Int
  BY <1>1, InFrontGrows
<1>11. q \in Tr!Sources(x, p) <=> Sends(x, q, p)
  <2>1. q \in Tr!Partners([begin |-> b, end |-> e], cut) =>
          (Tr!Place(sizes, [begin |-> b, end |-> e], Tr!ReceivedFrom(p, q)).len > 0 <=> Sends(x, q, p))
    BY <1>7, <1>10 DEF Sends, lo, hi
  <2> QED
    BY <1>4, <1>8, <2>1
<1>12. Tr!Received(p).end = e /\ AllOf(x, p) = InFront(x)[e] - InFront(x)[b]
  BY <1>2 DEF AllOf, b, e
<1>13. AreaFrom(x, q, p) = InFront(x)[lo] - InFront(x)[b]
  BY DEF AreaFrom, lo, b
<1> QED
  BY <1>2, <1>7, <1>8, <1>9, <1>11, <1>12, <1>13 DEF lo, hi, sizes

(* Every place of what a process gets belongs to one that sends to it. *)
LEMMA AreasCover ==
  ASSUME Transferable, NEW x \in Tr!Transfers, NEW p \in Tr!Procs, NEW k \in 1 .. AllOf(x, p)
  PROVE  /\ \E q \in Tr!Procs : Sends(x, q, p) /\ Area(x, q, p, k)
         /\ \A q, r \in Tr!Procs : Area(x, q, p, k) /\ Area(x, r, p, k) => q = r
<1> DEFINE c == InFront(x)
           b == input.dest[p]
           e == input.dest[p + 1]
           m == c[b] + k
<1>1. /\ Total \in Nat /\ NumProcs \in Nat \ {0} /\ CutOf(input.src)
      /\ \A g \in 0 .. Total : c[g] \in Int
      /\ \A g, h \in 0 .. Total : g <= h => c[g] <= c[h]
  BY InFrontGrows DEF Transferable
<1>2. b \in 0 .. Total /\ e \in 0 .. Total /\ b <= e
  BY WhereThings
<1>3. k \in 1 .. c[e] - c[b]
  BY DEF AllOf
<1>4. \A q \in Tr!Procs : /\ CommonFrom(q, p) \in 0 .. Total /\ CommonTo(q, p) \in 0 .. Total
                          /\ b <= CommonFrom(q, p) /\ CommonTo(q, p) <= e
                          /\ input.src[q] <= CommonFrom(q, p) /\ CommonTo(q, p) <= input.src[q + 1]
                          /\ CommonFrom(q, p) = PartLow(b, input.src[q])
                          /\ CommonTo(q, p) = PartHigh(e, input.src[q + 1])
  BY WhereThings DEF CommonFrom, CommonTo
<1>5. \A q \in Tr!Procs : Area(x, q, p, k) <=> c[CommonFrom(q, p)] - c[b] < k /\ k <= c[CommonTo(q, p)] - c[b]
  BY DEF Area, AreaFrom
<1>6. \A q \in Tr!Procs : Sends(x, q, p) <=> c[CommonFrom(q, p)] < c[CommonTo(q, p)]
  BY DEF Sends
<1> HIDE DEF c, b, e
<1>7. m \in Int /\ c[b] < m /\ m <= c[e] /\ c[b] \in Int
  BY <1>1, <1>2, <1>3
<1>8. \A q \in Tr!Procs : Area(x, q, p, k) <=> c[CommonFrom(q, p)] < m /\ m <= c[CommonTo(q, p)]
  <2> SUFFICES ASSUME NEW q \in Tr!Procs
               PROVE  Area(x, q, p, k) <=> c[CommonFrom(q, p)] < m /\ m <= c[CommonTo(q, p)]
    OBVIOUS
  <2> DEFINE l == c[CommonFrom(q, p)]
             h == c[CommonTo(q, p)]
  <2>1. l \in Int /\ h \in Int
    BY <1>1, <1>4
  <2>2. Area(x, q, p, k) <=> l - c[b] < k /\ k <= h - c[b]
    BY <1>5
  <2> HIDE DEF l, h
  <2>3. Area(x, q, p, k) <=> l < m /\ m <= h
    BY <1>3, <1>7, <2>1, <2>2
  <2> QED
    BY <2>3 DEF l, h
<1>9. \E q \in Tr!Procs : Sends(x, q, p) /\ Area(x, q, p, k)
  <2>1. PICK g \in b .. e - 1 : g \in 0 .. Total - 1 /\ IsOf(x, m, g)
    <3> HIDE DEF m
    <3> QED
      BY <1>2, <1>7, WhoseItem DEF c
  <2> DEFINE q == Tr!ProcOf(g, input.src)
  <2>2. q \in 0 .. NumProcs - 1 /\ input.src[q] <= g /\ g < input.src[q + 1]
    BY <1>1, <2>1, ProcHas
  <2> HIDE DEF q
  <2>3. q \in Tr!Procs
    BY <2>2 DEF Tr!Procs
  <2>4. CommonFrom(q, p) <= g /\ g + 1 <= CommonTo(q, p) /\ g \in 0 .. Total /\ g + 1 \in 0 .. Total
    <3>1. input.src[q] \in 0 .. Total /\ input.src[q + 1] \in 0 .. Total
      BY <2>3, WhereThings
    <3>2. CommonFrom(q, p) = PartLow(b, input.src[q]) /\ CommonTo(q, p) = PartHigh(e, input.src[q + 1])
      BY <1>4, <2>3
    <3> QED
      BY <1>1, <1>2, <2>1, <2>2, <3>1, <3>2 DEF PartLow, PartHigh
  <2>5. c[CommonFrom(q, p)] <= c[g] /\ c[g + 1] <= c[CommonTo(q, p)] /\ c[g] < m /\ m <= c[g + 1]
    BY <1>1, <1>4, <2>1, <2>3, <2>4 DEF IsOf, c
  <2>6. c[CommonFrom(q, p)] \in Int /\ c[g] \in Int /\ c[g + 1] \in Int /\ c[CommonTo(q, p)] \in Int
    BY <1>1, <1>4, <2>3, <2>4
  <2>7. c[CommonFrom(q, p)] < m /\ m <= c[CommonTo(q, p)] /\ c[CommonFrom(q, p)] < c[CommonTo(q, p)]
    BY <1>7, <2>5, <2>6
  <2> QED
    BY <1>6, <1>8, <2>3, <2>7
<1>10. ASSUME NEW q \in Tr!Procs, NEW r \in Tr!Procs, Area(x, q, p, k), Area(x, r, p, k)
       PROVE  ~ (q < r)
  <2> SUFFICES ASSUME q < r PROVE FALSE
    OBVIOUS
  <2>1. q + 1 <= r /\ q + 1 \in 0 .. NumProcs /\ r \in 0 .. NumProcs
    BY <1>1 DEF Tr!Procs
  <2>2. input.src[q + 1] <= input.src[r]
    BY <2>1, <1>1 DEF CutOf
  <2>3. CommonTo(q, p) <= CommonFrom(r, p)
    <3>1. input.src[q + 1] \in 0 .. Total /\ input.src[r] \in 0 .. Total
      BY WhereThings
    <3>2. CommonTo(q, p) <= input.src[q + 1] /\ input.src[r] <= CommonFrom(r, p)
      BY <1>4
    <3>3. CommonTo(q, p) \in Int /\ CommonFrom(r, p) \in Int
      BY <1>4
    <3> QED
      BY <2>2, <3>1, <3>2, <3>3
  <2>4. c[CommonTo(q, p)] <= c[CommonFrom(r, p)] /\ c[CommonTo(q, p)] \in Int /\ c[CommonFrom(r, p)] \in Int
    BY <1>1, <1>4, <2>3
  <2>5. m <= c[CommonTo(q, p)] /\ c[CommonFrom(r, p)] < m
    BY <1>8, <1>10
  <2> QED
    BY <1>7, <2>4, <2>5
<1>11. \A q, r \in Tr!Procs : Area(x, q, p, k) /\ Area(x, r, p, k) => q = r
  <2>1. \A q, r \in Tr!Procs : q < r \/ r < q \/ q = r
    BY <1>1 DEF Tr!Procs
  <2> QED
    BY <1>10, <2>1
<1> QED
  BY <1>9, <1>11

\* a table f, and the table h with an entry changed to v
IsDataTable(f) == f = [r \in Tr!Procs |-> [y \in Tr!Transfers |-> f[r][y]]]
ChangedTo(f, h, p, x, v) ==
  /\ IsDataTable(h)
  /\ h[p][x] = v
  /\ \A r \in Tr!Procs, y \in Tr!Transfers : r # p \/ y # x => h[r][y] = f[r][y]

(* A table with one entry changed. *)
LEMMA TableKeeps ==
  ASSUME NEW f, IsDataTable(f), NEW p \in Tr!Procs, NEW x \in Tr!Transfers, NEW v
  PROVE  ChangedTo(f, [f EXCEPT ![p][x] = v], p, x, v)
<1> DEFINE h == [f EXCEPT ![p][x] = v]
<1>1. h = [f EXCEPT ![p] = [f[p] EXCEPT ![x] = v]]
  OBVIOUS
<1> HIDE DEF h
<1>2. DOMAIN f = Tr!Procs /\ \A r \in Tr!Procs : f[r] = [y \in Tr!Transfers |-> f[r][y]]
  BY DEF IsDataTable
<1>3. h = [r \in Tr!Procs |-> IF r = p THEN [f[p] EXCEPT ![x] = v] ELSE f[r]]
  BY <1>1, <1>2
<1>4. \A r \in Tr!Procs : h[r] = IF r = p THEN [f[p] EXCEPT ![x] = v] ELSE f[r]
  BY <1>3
<1>5. h[p] = [y \in Tr!Transfers |-> IF y = x THEN v ELSE f[p][y]]
  BY <1>2, <1>4
<1>6. \A r \in Tr!Procs : h[r] = [y \in Tr!Transfers |-> h[r][y]]
  BY <1>2, <1>4, <1>5
<1>7. h = [r \in Tr!Procs |-> [y \in Tr!Transfers |-> h[r][y]]]
  <2>1. h = [r \in Tr!Procs |-> h[r]]
    BY <1>3
  <2> QED
    BY <1>6, <2>1
<1>8. h[p][x] = v
  BY <1>5
<1>9. ASSUME NEW r \in Tr!Procs, NEW y \in Tr!Transfers, r # p \/ y # x PROVE h[r][y] = f[r][y]
  BY <1>4, <1>5, <1>9
<1> QED
  BY <1>7, <1>8, <1>9 DEF ChangedTo, IsDataTable, h

(***************************************************************************)
(* The invariant.                                                          *)
(***************************************************************************)
Beginning(x) == CASE x = "fixed" -> 1 [] x = "sizes" -> 2 [] x = "custom" -> 5
Waiting(x)   == CASE x = "fixed" -> 4 [] x = "sizes" -> 3 [] x = "custom" -> 6
Begun(p, x)  == step[p] > Beginning(x)
Awaited(p, x) == DOMAIN requests[p][x]

CommonItems(x, q, p) ==
  [k \in 1 .. InFront(x)[CommonTo(q, p)] - InFront(x)[CommonFrom(q, p)] |-> Item(x, InFront(x)[CommonFrom(q, p)] + k)]
Parcel(x, q, p) == [ tag |-> Tr!Tag(x), items |-> CommonItems(x, q, p) ]
Underway(x, q, p) == /\ Begun(q, x) /\ q # p /\ Sends(x, q, p)
                     /\ Begun(p, x) => q \in Awaited(p, x)
Carried(x, q, p)  == IF Underway(x, q, p) THEN << Parcel(x, q, p) >> ELSE << >>

TransferType ==
  /\ input \in Inputs /\ Transferable
  /\ step \in [Tr!Procs -> 1 .. 7]
  /\ IsDataTable(requests) /\ IsDataTable(data)
  /\ wire = [e \in Tr!Procs \X Tr!Procs |-> wire[e]]
\* what p has posted for transfer x
RequestsOf(p, x) ==
  /\ ~ Begun(p, x) => requests[p][x] = << >> /\ data[p][x] = << >>
  /\ Begun(p, x) =>
       /\ requests[p][x] = [q \in Awaited(p, x) |->
            [ at |-> AreaFrom(x, q, p), len |-> InFront(x)[CommonTo(q, p)] - InFront(x)[CommonFrom(q, p)] ]]
       /\ \A q \in Awaited(p, x) : q \in Tr!Procs /\ q # p /\ Sends(x, q, p)
       /\ \A q \in Tr!Procs : q # p /\ Sends(x, q, p) /\ ~ Begun(q, x) => q \in Awaited(p, x)
  /\ step[p] > Waiting(x) => Awaited(p, x) = {}
\* what is awaited has not come, all else has
AllBut(x, p, awaited) ==
  [k \in 1 .. AllOf(x, p) |->
     IF \E q \in awaited : Area(x, q, p, k) THEN Tr!Nothing
     ELSE Item(x, InFront(x)[input.dest[p]] + k)]
DataOf(p, x) == Begun(p, x) => data[p][x] = AllBut(x, p, Awaited(p, x))
\* the messages from q to p, in the order they were sent
WireOf(q, p) ==
  wire[<< q, p >>] = Carried("fixed", q, p) \o Carried("sizes", q, p) \o Carried("custom", q, p)
TransferInv ==
  /\ TransferType
  /\ \A p \in Tr!Procs, x \in Tr!Transfers : RequestsOf(p, x) /\ DataOf(p, x)
  /\ \A q, p \in Tr!Procs : WireOf(q, p)

(* The input is not changed. *)
LEMMA TransferInputStays ==
  ASSUME UNCHANGED input
  PROVE  /\ Total' = Total /\ (Transferable <=> Transferable')
         /\ \A x : InFront(x)' = InFront(x)
         /\ \A x, p : AllOf(x, p)' = AllOf(x, p)
         /\ \A q, p : CommonFrom(q, p)' = CommonFrom(q, p) /\ CommonTo(q, p)' = CommonTo(q, p)
         /\ \A x, q, p : /\ Sends(x, q, p) <=> Sends(x, q, p)'
                         /\ AreaFrom(x, q, p)' = AreaFrom(x, q, p)
                         /\ Parcel(x, q, p)' = Parcel(x, q, p)
                         /\ \A k : Area(x, q, p, k) <=> Area(x, q, p, k)'
         /\ \A x, m : Item(x, m)' = Item(x, m)
         /\ \A x, p, awaited : AllBut(x, p, awaited)' = AllBut(x, p, awaited)
<1>1. Total' = Total
  BY DEF Total
<1>2. Transferable <=> Transferable'
  BY <1>1 DEF Transferable, CutOf
<1>3. \A x, g : Long(x, g)' = Long(x, g) /\ Tr!Items(x, g)' = Tr!Items(x, g)
  BY DEF Long, Tr!Items
<1>4. \A x : InFront(x)' = InFront(x)
  <2>1. \A sizes, r : Tr!Offsets(sizes, r)' = Tr!Offsets(sizes, r)
    OBVIOUS
  <2> QED
    BY <1>1, <1>3, <2>1 DEF InFront
<1>5. \A q, p : CommonFrom(q, p)' = CommonFrom(q, p) /\ CommonTo(q, p)' = CommonTo(q, p)
  BY DEF CommonFrom, CommonTo
<1>6. \A x, p : AllOf(x, p)' = AllOf(x, p)
  BY <1>4 DEF AllOf
<1>7. \A x, q, p : /\ Sends(x, q, p) <=> Sends(x, q, p)'
                   /\ AreaFrom(x, q, p)' = AreaFrom(x, q, p)
  BY <1>4, <1>5 DEF Sends, AreaFrom
<1>8. \A x, q, p, k : Area(x, q, p, k) <=> Area(x, q, p, k)'
  BY <1>4, <1>5, <1>7 DEF Area
<1>9. \A x, m, g : IsOf(x, m, g) <=> IsOf(x, m, g)'
  BY <1>4 DEF IsOf
<1>10. ASSUME NEW x, NEW m PROVE Item(x, m)' = Item(x, m)
  <2>1. PICK g : g = CHOOSE h \in 0 .. Total - 1 : IsOf(x, m, h)
    OBVIOUS
  <2>2. Item(x, m)' = Tr!Items(x, g)'[m - InFront(x)'[g]]
    <3>1. (CHOOSE h \in 0 .. Total - 1 : IsOf(x, m, h))' = g
      BY <1>1, <1>9, <2>1
    <3> QED
      BY <3>1 DEF Item
  <2>3. Item(x, m) = Tr!Items(x, g)[m - InFront(x)[g]]
    BY <2>1 DEF Item
  <2> QED
    BY <1>3, <1>4, <2>2, <2>3
<1>11. ASSUME NEW x, NEW q, NEW p PROVE CommonItems(x, q, p)' = CommonItems(x, q, p)
  <2>1. /\ CommonFrom(q, p)' = CommonFrom(q, p) /\ CommonTo(q, p)' = CommonTo(q, p) /\ InFront(x)' = InFront(x)
        /\ \A m : Item(x, m)' = Item(x, m)
    BY <1>4, <1>5, <1>10
  <2> QED
    BY <2>1 DEF CommonItems
<1>12. \A x, q, p : Parcel(x, q, p)' = Parcel(x, q, p)
  BY <1>11 DEF Parcel
<1>13. ASSUME NEW x, NEW p, NEW awaited PROVE AllBut(x, p, awaited)' = AllBut(x, p, awaited)
  <2>1. /\ AllOf(x, p)' = AllOf(x, p) /\ InFront(x)' = InFront(x) /\ input.dest' = input.dest
        /\ \A m : Item(x, m)' = Item(x, m)
        /\ \A q, k : Area(x, q, p, k) <=> Area(x, q, p, k)'
    BY <1>4, <1>6, <1>8, <1>10
  <2> QED
    BY <2>1 DEF AllBut
<1> QED
  BY <1>1, <1>2, <1>4, <1>5, <1>6, <1>7, <1>8, <1>10, <1>12, <1>13

(* The place in the program where a transfer is begun and where it is awaited. *)
LEMMA ProgramIs ==
  ASSUME NEW n \in 1 .. 7, NEW x \in Tr!Transfers
  PROVE  /\ Tr!Program[n] = << "begin", x >> <=> n = Beginning(x)
         /\ Tr!Program[n] = << "wait", x >> <=> n = Waiting(x)
         /\ Tr!Program[n] = << "done" >> <=> n = 7
         /\ Beginning(x) \in 1 .. 5 /\ Waiting(x) \in 3 .. 6 /\ Beginning(x) < Waiting(x)
<1>1. x \in { "fixed", "sizes", "custom" }
  BY DEF Tr!Transfers
<1>2. /\ Beginning("fixed") = 1 /\ Beginning("sizes") = 2 /\ Beginning("custom") = 5
      /\ Waiting("fixed") = 4 /\ Waiting("sizes") = 3 /\ Waiting("custom") = 6
  BY DEF Beginning, Waiting
<1>3. /\ Tr!Program[1] = << "begin", "fixed" >> /\ Tr!Program[2] = << "begin", "sizes" >>
      /\ Tr!Program[3] = << "wait", "sizes" >> /\ Tr!Program[4] = << "wait", "fixed" >>
      /\ Tr!Program[5] = << "begin", "custom" >> /\ Tr!Program[6] = << "wait", "custom" >>
      /\ Tr!Program[7] = << "done" >>
  BY DEF Tr!Program
<1>4. n = 1 \/ n = 2 \/ n = 3 \/ n = 4 \/ n = 5 \/ n = 6 \/ n = 7
  OBVIOUS
<1>5. << "done" >> # << "begin", x >> /\ << "done" >> # << "wait", x >>
  <2>1. Len(<< "done" >>) = 1 /\ Len(<< "begin", x >>) = 2 /\ Len(<< "wait", x >>) = 2
    OBVIOUS
  <2> QED
    BY <2>1
<1>6. Tr!Program[n] = << "begin", x >> <=> n = Beginning(x)
  BY <1>1, <1>2, <1>3, <1>4, <1>5
<1>7. Tr!Program[n] = << "wait", x >> <=> n = Waiting(x)
  BY <1>1, <1>2, <1>3, <1>4, <1>5
<1>8. Tr!Program[n] = << "done" >> <=> n = 7
  <2>1. \A a, b : Len(<< a, b >>) = 2
    OBVIOUS
  <2>2. Len(<< "done" >>) = 1
    OBVIOUS
  <2>3. \A a, b : << a, b >> # << "done" >>
    BY <2>1, <2>2
  <2> QED
    BY <1>3, <1>4, <2>3
<1> QED
  BY <1>1, <1>2, <1>6, <1>7, <1>8

\* the first message with a tag, and the messages without it
FirstWith(msgs, t)    == CHOOSE k \in { k \in DOMAIN msgs : msgs[k].tag = t } :
                        \A j \in { j \in DOMAIN msgs : msgs[j].tag = t } : k <= j
NextIs(msgs, t, m, rest) == msgs[FirstWith(msgs, t)] = m /\ Tr!RemoveAt(msgs, FirstWith(msgs, t)) = rest

(* A message is the first with its tag when none in front of it has that tag. *)
LEMMA FirstTagged ==
  ASSUME NEW S, NEW A \in Seq(S), NEW m \in S, NEW B \in Seq(S), NEW t, m.tag = t,
         \A i \in 1 .. Len(A) : A[i].tag # t
  PROVE  NextIs(A \o << m >> \o B, t, m, A \o B)
<1> DEFINE msgs == A \o << m >> \o B
           ks == { k \in DOMAIN msgs : msgs[k].tag = t }
           n == Len(A) + 1
<1>1. /\ msgs \in Seq(S) /\ Len(A) \in Nat /\ Len(msgs) = Len(A) + 1 + Len(B) /\ msgs[n] = m
      /\ \A i \in 1 .. Len(A) : msgs[i] = A[i]
      /\ \A i \in 1 .. Len(B) : msgs[n + i] = B[i]
  OBVIOUS
<1>2. n \in ks /\ \A j \in ks : n <= j
  <2>1. n \in ks
    BY <1>1
  <2>2. ASSUME NEW j \in ks PROVE n <= j
    <3>1. j \in 1 .. Len(msgs) /\ msgs[j].tag = t
      BY <1>1
    <3> HIDE DEF msgs
    <3> QED
      BY <1>1, <3>1
  <2> QED
    BY <2>1, <2>2
<1>3. FirstWith(msgs, t) = n
  <2>1. \A k \in ks : k \in Int
    BY <1>1
  <2> HIDE DEF ks
  <2>2. \A k \in ks : (\A j \in ks : k <= j) => k = n
    BY <1>1, <1>2, <2>1
  <2>3. (CHOOSE k \in ks : \A j \in ks : k <= j) = n
    BY <1>2, <2>2
  <2>4. FirstWith(msgs, t) = CHOOSE k \in ks : \A j \in ks : k <= j
    BY DEF FirstWith, ks
  <2> QED
    BY <2>3, <2>4
<1>4. SubSeq(msgs, 1, n - 1) = A
  OBVIOUS
<1>5. SubSeq(msgs, n + 1, Len(msgs)) = B
  OBVIOUS
<1>6. Tr!RemoveAt(msgs, n) = A \o B
  BY <1>4, <1>5 DEF Tr!RemoveAt
<1> HIDE DEF msgs, n
<1> QED
  BY <1>1, <1>3, <1>6 DEF NextIs, msgs

(* There is one size in front of quadrant 1, two in front of 2, and so on. *)
LEMMA SizesCount ==
  ASSUME Transferable
  PROVE  /\ \A g \in 0 .. Total : InFront("sizes")[g] = g
         /\ \A g \in 0 .. Total - 1 : Item("sizes", g + 1) = << input.sizes[g] >>
<1>1. Total \in Nat /\ "sizes" \in Tr!Transfers
  BY DEF Transferable, Tr!Transfers
<1>2. \A g : Long("sizes", g) = 1
  BY DEF Long
<1>3. \A g \in 0 .. Total : InFront("sizes")[g] = g
  <2> DEFINE s == [g \in 0 .. Total - 1 |-> Long("sizes", g)]
             c == [g \in 0 .. Total |-> g]
  <2>1. /\ \A g \in 0 .. Total : c[g] = g /\ c[g] \in Int
        /\ \A g \in 0 .. Total - 1 : s[g] = 1
    BY <1>1, <1>2
  <2> HIDE DEF c, s
  <2>2. \A g \in 0 .. Total - 1 : c[g + 1] = c[g] + s[g] /\ s[g] \in Int
    <3> SUFFICES ASSUME NEW g \in 0 .. Total - 1 PROVE c[g + 1] = c[g] + s[g] /\ s[g] \in Int
      OBVIOUS
    <3>1. g \in 0 .. Total /\ g + 1 \in 0 .. Total
      BY <1>1
    <3> QED
      BY <2>1, <3>1
  <2>3. Tr!Offsets(s, [begin |-> 0, end |-> Total]) = [g \in 0 .. Total |-> c[g] - c[0]]
    <3>1. 0 \in Int /\ Total \in Int /\ 0 <= Total
      BY <1>1
    <3> QED
      BY <2>1, <2>2, <3>1, OffsetsAre
  <2>4. InFront("sizes") = [g \in 0 .. Total |-> c[g] - c[0]]
    BY <2>3 DEF InFront, s
  <2> QED
    BY <1>1, <2>1, <2>4
<1>4. ASSUME NEW g \in 0 .. Total - 1 PROVE Item("sizes", g + 1) = << input.sizes[g] >>
  <2>1. \A h \in 0 .. Total - 1 : IsOf("sizes", g + 1, h) <=> h = g
    <3> SUFFICES ASSUME NEW h \in 0 .. Total - 1 PROVE IsOf("sizes", g + 1, h) <=> h = g
      OBVIOUS
    <3>1. InFront("sizes")[h] = h /\ InFront("sizes")[h + 1] = h + 1
      BY <1>1, <1>3
    <3> QED
      BY <1>1, <3>1 DEF IsOf
  <2>2. (CHOOSE h \in 0 .. Total - 1 : IsOf("sizes", g + 1, h)) = g
    BY <2>1
  <2>3. Item("sizes", g + 1) = Tr!Items("sizes", g)[(g + 1) - InFront("sizes")[g]]
    BY <2>2 DEF Item
  <2>4. (g + 1) - InFront("sizes")[g] = 1
    BY <1>1, <1>3
  <2>5. Tr!Items("sizes", g) = << << input.sizes[g] >> >>
    BY DEF Tr!Items
  <2> QED
    BY <2>3, <2>4, <2>5
<1> QED
  BY <1>3, <1>4

(* Who begins a transfer knows how long the data of its quadrants is. *)
LEMMA SizesKnown ==
  ASSUME Transferable, NEW x \in Tr!Transfers, NEW p \in Tr!Procs, DataOf(p, "sizes"),
         x = "custom" => Begun(p, "sizes") /\ Awaited(p, "sizes") = {}
  PROVE  LongOn(x, Tr!DestSizes(x, p), input.dest[p], input.dest[p + 1])
<1> SUFFICES ASSUME NEW g \in input.dest[p] .. input.dest[p + 1] - 1
             PROVE  Tr!DestSizes(x, p)[g] = Long(x, g)
  BY DEF LongOn
<1>1. Tr!Received(p) = [begin |-> input.dest[p], end |-> input.dest[p + 1]]
  BY DEF Tr!Received
<1>2. /\ x = "fixed"  => Tr!DestSizes(x, p)[g] = input.fixed
      /\ x = "sizes"  => Tr!DestSizes(x, p)[g] = 1
      /\ x = "custom" => Tr!DestSizes(x, p)[g] = data[p]["sizes"][g - input.dest[p] + 1][1]
  <2>1. Tr!DestSizes("fixed", p)[g] = input.fixed
    BY <1>1 DEF Tr!DestSizes
  <2>2. Tr!DestSizes("sizes", p)[g] = 1
    BY <1>1 DEF Tr!DestSizes
  <2>3. Tr!DestSizes("custom", p)[g] = data[p]["sizes"][g - input.dest[p] + 1][1]
    BY <1>1 DEF Tr!DestSizes
  <2> QED
    BY <2>1, <2>2, <2>3
<1>3. CASE x # "custom"
  <2>1. x = "fixed" \/ x = "sizes"
    BY <1>3 DEF Tr!Transfers
  <2> QED
    BY <1>2, <2>1 DEF Long
<1>4. CASE x = "custom"
  <2>1. Tr!DestSizes(x, p)[g] = data[p]["sizes"][g - input.dest[p] + 1][1] /\ Long(x, g) = input.sizes[g]
    BY <1>2, <1>4 DEF Long
  <2>2. data[p]["sizes"] = [k \in 1 .. AllOf("sizes", p) |-> Item("sizes", InFront("sizes")[input.dest[p]] + k)]
    BY <1>4 DEF DataOf, AllBut
  <2> DEFINE b == input.dest[p]
             e == input.dest[p + 1]
  <2>3. /\ b \in 0 .. Total /\ e \in 0 .. Total /\ Total \in Nat
        /\ InFront("sizes")[b] = b /\ InFront("sizes")[e] = e
    BY WhereThings, SizesCount DEF Transferable
  <2>4. AllOf("sizes", p) = e - b
    BY <2>3 DEF AllOf
  <2> HIDE DEF b, e
  <2>5. g \in b .. e - 1
    BY DEF b, e
  <2>6. g - b + 1 \in 1 .. e - b /\ b + (g - b + 1) = g + 1 /\ g \in 0 .. Total - 1
    BY <2>3, <2>5
  <2>7. data[p]["sizes"][g - b + 1] = Item("sizes", g + 1)
    BY <2>2, <2>3, <2>4, <2>6 DEF b
  <2>8. data[p]["sizes"][g - b + 1] = << input.sizes[g] >>
    BY <2>6, <2>7, SizesCount
  <2> QED
    BY <2>1, <2>8 DEF b
<1> QED
  BY <1>3, <1>4

(* The beginning. *)
LEMMA TransferStart ==
  ASSUME Tr!PartitionsAssumption, Tr!Init
  PROVE  TransferInv
<1>1. Transferable /\ input \in Inputs
  BY InputsTransfer DEF Tr!Init
<1>2. TransferType
  BY <1>1 DEF Tr!Init, TransferType, IsDataTable
<1>3. ASSUME NEW p \in Tr!Procs, NEW x \in Tr!Transfers PROVE ~ Begun(p, x)
  <2>1. step[p] = 1
    BY DEF Tr!Init
  <2>2. 1 \in 1 .. 7
    OBVIOUS
  <2>3. Beginning(x) \in 1 .. 5
    BY <2>2, ProgramIs
  <2> QED
    BY <2>1, <2>3 DEF Begun
<1>4. ASSUME NEW p \in Tr!Procs, NEW x \in Tr!Transfers PROVE RequestsOf(p, x) /\ DataOf(p, x)
  <2>1. requests[p][x] = << >> /\ data[p][x] = << >> /\ step[p] = 1 /\ 1 \in 1 .. 7
    BY DEF Tr!Init
  <2>2. ~ (step[p] > Waiting(x))
    <3>1. Waiting(x) \in 3 .. 6
      BY <2>1, ProgramIs
    <3> QED
      BY <2>1, <3>1
  <2> QED
    BY <1>3, <2>1, <2>2 DEF RequestsOf, DataOf
<1>5. ASSUME NEW q \in Tr!Procs, NEW p \in Tr!Procs PROVE WireOf(q, p)
  <2>1. \A x \in Tr!Transfers : Carried(x, q, p) = << >>
    BY <1>3 DEF Carried, Underway
  <2>2. Carried("fixed", q, p) = << >> /\ Carried("sizes", q, p) = << >> /\ Carried("custom", q, p) = << >>
    BY <2>1 DEF Tr!Transfers
  <2>3. wire[<< q, p >>] = << >>
    BY DEF Tr!Init
  <2> QED
    BY <2>2, <2>3 DEF WireOf
<1> QED
  BY <1>2, <1>4, <1>5 DEF TransferInv

\* data in which what q has for p is in its place
FilledIn(seq, x, q, p) ==
  [k \in 1 .. AllOf(x, p) |->
     IF Area(x, q, p, k) THEN Item(x, InFront(x)[input.dest[p]] + k) ELSE seq[k]]

(* What is sent is what is common, and it has its place. *)
LEMMA PutIs ==
  ASSUME Transferable, NEW x \in Tr!Transfers, NEW q \in Tr!Procs, NEW p \in Tr!Procs, Sends(x, q, p),
         NEW seq, DOMAIN seq = 1 .. AllOf(x, p)
  PROVE  Tr!Put(seq, AreaFrom(x, q, p), CommonItems(x, q, p)) = FilledIn(seq, x, q, p)
<1> DEFINE c == InFront(x)
           b == c[input.dest[p]]
           l == c[CommonFrom(q, p)]
           h == c[CommonTo(q, p)]
           items == CommonItems(x, q, p)
<1>1. b \in Int /\ l \in Int /\ h \in Int /\ l < h
  <2>1. input.dest[p] \in 0 .. Total /\ CommonFrom(q, p) \in 0 .. Total /\ CommonTo(q, p) \in 0 .. Total
    BY WhereThings
  <2> QED
    BY <2>1, InFrontGrows DEF Sends
<1>2. /\ AreaFrom(x, q, p) = l - b
      /\ \A k : Area(x, q, p, k) <=> l - b < k /\ k <= h - b
      /\ items = [k \in 1 .. h - l |-> Item(x, l + k)]
  BY DEF AreaFrom, Area, CommonItems
<1> HIDE DEF b, l, h, items
<1>3. Len(items) = h - l
  BY <1>1, <1>2
<1>4. Tr!Put(seq, AreaFrom(x, q, p), items) =
        [k \in 1 .. AllOf(x, p) |->
           IF l - b < k /\ k <= (l - b) + (h - l) THEN items[k - (l - b)] ELSE seq[k]]
  <2>1. \A at : Tr!Put(seq, at, items) =
          [k \in DOMAIN seq |-> IF at < k /\ k <= at + Len(items) THEN items[k - at] ELSE seq[k]]
    BY DEF Tr!Put
  <2>2. Tr!Put(seq, l - b, items) =
          [k \in 1 .. AllOf(x, p) |->
             IF l - b < k /\ k <= (l - b) + (h - l) THEN items[k - (l - b)] ELSE seq[k]]
    BY <1>3, <2>1
  <2> QED
    BY <1>2, <2>2
<1>5. AllOf(x, p) \in Int
  <2>1. input.dest[p] \in 0 .. Total /\ input.dest[p + 1] \in 0 .. Total
    BY WhereThings
  <2> QED
    BY <2>1, InFrontGrows DEF AllOf
<1>6. ASSUME NEW k \in 1 .. AllOf(x, p)
      PROVE  (IF l - b < k /\ k <= (l - b) + (h - l) THEN items[k - (l - b)] ELSE seq[k])
               = IF Area(x, q, p, k) THEN Item(x, b + k) ELSE seq[k]
  <2>1. k \in Int /\ (Area(x, q, p, k) <=> l - b < k /\ k <= (l - b) + (h - l))
    BY <1>1, <1>2, <1>5
  <2>2. ASSUME Area(x, q, p, k) PROVE items[k - (l - b)] = Item(x, b + k)
    <3>1. k - (l - b) \in 1 .. h - l /\ l + (k - (l - b)) = b + k
      BY <1>1, <2>1, <2>2
    <3> QED
      BY <1>2, <3>1
  <2> QED
    BY <2>1, <2>2
<1> QED
  BY <1>4, <1>6 DEF b, items, FilledIn

(* What a process sends to another. *)
LEMMA SentIs ==
  ASSUME Transferable, NEW x \in Tr!Transfers, NEW q \in Tr!Procs, NEW p \in Tr!Procs, Sends(x, q, p)
  PROVE  Tr!SrcData(x, Tr!SentTo(q, p)) = CommonItems(x, q, p)
<1>1. CommonFrom(q, p) \in 0 .. Total /\ CommonTo(q, p) \in 0 .. Total /\ CommonFrom(q, p) <= CommonTo(q, p)
  <2>1. CommonFrom(q, p) \in 0 .. Total /\ CommonTo(q, p) \in 0 .. Total /\ CommonFrom(q, p) < CommonTo(q, p) /\ Total \in Nat
    BY WhereThings, SendsSome DEF Transferable
  <2> QED
    BY <2>1
<1>2. Tr!SentTo(q, p) = [begin |-> CommonFrom(q, p), end |-> CommonTo(q, p)]
  BY DestinationsAre
<1> QED
  BY <1>1, <1>2, DataIs DEF CommonItems

(* Partners are processes. *)
LEMMA PartnersAmong ==
  ASSUME NumProcs \in Nat \ {0}, Total \in Nat, NEW cut, CutOf(cut),
         NEW b \in 0 .. Total, NEW e \in 0 .. Total
  PROVE  Tr!Partners([begin |-> b, end |-> e], cut) \subseteq Tr!Procs
<1>1. CASE b < e
  <2>1. b \in 0 .. Total - 1 /\ e - 1 \in 0 .. Total - 1
    BY <1>1
  <2>2. Tr!ProcOf(b, cut) \in 0 .. NumProcs - 1 /\ Tr!ProcOf(e - 1, cut) \in 0 .. NumProcs - 1
    BY <2>1, ProcHas
  <2>3. Tr!Partners([begin |-> b, end |-> e], cut) = Tr!ProcOf(b, cut) .. Tr!ProcOf(e - 1, cut)
    BY <1>1 DEF Tr!Partners
  <2>4. \A u, v \in 0 .. NumProcs - 1 : u .. v \subseteq 0 .. NumProcs - 1
    OBVIOUS
  <2> QED
    BY <2>2, <2>3, <2>4 DEF Tr!Procs
<1>2. CASE ~ (b < e)
  BY <1>2 DEF Tr!Partners
<1> QED
  BY <1>1, <1>2

(* A process receives from those, and only those, that send to it. *)
LEMMA SourcesSend ==
  ASSUME Transferable, NEW x \in Tr!Transfers, NEW p \in Tr!Procs,
         LongOn(x, Tr!DestSizes(x, p), input.dest[p], input.dest[p + 1])
  PROVE  Tr!Sources(x, p) = { q \in Tr!Procs : Sends(x, q, p) }
<1>1. Tr!Received(p) = [begin |-> input.dest[p], end |-> input.dest[p + 1]]
  BY DEF Tr!Received
<1>2. input.dest[p] \in 0 .. Total /\ input.dest[p + 1] \in 0 .. Total
  BY WhereThings
<1>3. Tr!Partners(Tr!Received(p), input.src) \subseteq Tr!Procs
  BY <1>1, <1>2, PartnersAmong DEF Transferable
<1>4. Tr!Sources(x, p) \subseteq Tr!Procs
  BY <1>3 DEF Tr!Sources
<1> QED
  BY <1>4, SourcesAre

(* What is carried changes only with who has begun and who is awaited. *)
LEMMA CarriedSame ==
  ASSUME UNCHANGED input, NEW x, NEW q, NEW p,
         Begun(q, x) <=> Begun(q, x)',
         q # p /\ Sends(x, q, p) =>
           ((Begun(p, x) => q \in Awaited(p, x)) <=> (Begun(p, x) => q \in Awaited(p, x))')
  PROVE  Carried(x, q, p)' = Carried(x, q, p)
<1>1. Parcel(x, q, p)' = Parcel(x, q, p) /\ (Sends(x, q, p) <=> Sends(x, q, p)')
  BY TransferInputStays
<1>2. Underway(x, q, p) <=> Underway(x, q, p)'
  <2>1. Underway(x, q, p) <=>
          Begun(q, x) /\ q # p /\ Sends(x, q, p) /\ (Begun(p, x) => q \in Awaited(p, x))
    BY DEF Underway
  <2>2. Underway(x, q, p)' <=>
          Begun(q, x)' /\ q # p /\ Sends(x, q, p)' /\ (Begun(p, x) => q \in Awaited(p, x))'
    BY DEF Underway
  <2> QED
    BY <1>1, <2>1, <2>2
<1> QED
  BY <1>1, <1>2 DEF Carried

(* One step of a process's program. *)
LEMMA StepBegins ==
  ASSUME TransferType, NEW p \in Tr!Procs, Tr!Advance(p), step[p] # 7
  PROVE  /\ step' \in [Tr!Procs -> 1 .. 7]
         /\ \A r \in Tr!Procs : step'[r] = IF r = p THEN step[r] + 1 ELSE step[r]
         /\ \A r \in Tr!Procs, y \in Tr!Transfers :
              Begun(r, y)' <=> Begun(r, y) \/ (r = p /\ step[p] = Beginning(y))
<1>1. step \in [Tr!Procs -> 1 .. 7] /\ step' = [step EXCEPT ![p] = step[p] + 1]
  BY DEF TransferType, Tr!Advance
<1>2. step[p] + 1 \in 1 .. 7
  BY <1>1
<1>3. step' \in [Tr!Procs -> 1 .. 7]
  BY <1>1, <1>2
<1>4. \A r \in Tr!Procs : step'[r] = IF r = p THEN step[r] + 1 ELSE step[r]
  BY <1>1
<1>5. ASSUME NEW r \in Tr!Procs, NEW y \in Tr!Transfers
      PROVE  Begun(r, y)' <=> Begun(r, y) \/ (r = p /\ step[p] = Beginning(y))
  <2>1. Beginning(y) \in 1 .. 5 /\ step[r] \in 1 .. 7
    BY <1>1, ProgramIs
  <2>2. Begun(r, y)' <=> step'[r] > Beginning(y)
    BY DEF Begun
  <2> QED
    BY <1>4, <2>1, <2>2 DEF Begun
<1> QED
  BY <1>3, <1>4, <1>5

(* The transfers do not begin, nor end, at the same time. *)
LEMMA OwnTime ==
  /\ \A x, y \in Tr!Transfers : Beginning(x) # Waiting(y) /\ (Beginning(x) = Beginning(y) => x = y)
  /\ \A x, y \in Tr!Transfers : Waiting(x) = Waiting(y) => x = y
  /\ \A x \in Tr!Transfers : Beginning(x) < Waiting(x) /\ Beginning(x) \in 1 .. 5 /\ Waiting(x) \in 3 .. 6
<1>1. /\ Beginning("fixed") = 1 /\ Beginning("sizes") = 2 /\ Beginning("custom") = 5
      /\ Waiting("fixed") = 4 /\ Waiting("sizes") = 3 /\ Waiting("custom") = 6
  BY DEF Beginning, Waiting
<1>2. \A x \in Tr!Transfers : x = "fixed" \/ x = "sizes" \/ x = "custom"
  BY DEF Tr!Transfers
<1> QED
  BY <1>1, <1>2

(* What one process has of one transfer, when no step concerns it. *)
LEMMA EntryKeeps ==
  ASSUME TransferInv, UNCHANGED input, NEW r \in Tr!Procs, NEW y \in Tr!Transfers,
         requests'[r][y] = requests[r][y], data'[r][y] = data[r][y],
         Begun(r, y) <=> Begun(r, y)', \A q \in Tr!Procs : Begun(q, y) => Begun(q, y)',
         step'[r] > Waiting(y) => Awaited(r, y) = {}
  PROVE  RequestsOf(r, y)' /\ DataOf(r, y)'
<1>1. RequestsOf(r, y) /\ DataOf(r, y)
  BY DEF TransferInv
<1>2. Awaited(r, y)' = Awaited(r, y)
  BY DEF Awaited
<1>3. RequestsOf(r, y)'
  <2>1. /\ \A a, q, s : /\ Sends(a, q, s) <=> Sends(a, q, s)'
                        /\ AreaFrom(a, q, s)' = AreaFrom(a, q, s)
        /\ \A a : InFront(a)' = InFront(a)
        /\ \A q, s : CommonFrom(q, s)' = CommonFrom(q, s) /\ CommonTo(q, s)' = CommonTo(q, s)
    BY TransferInputStays
  <2>2. ~ Begun(r, y)' => requests'[r][y] = << >> /\ data'[r][y] = << >>
    BY <1>1 DEF RequestsOf
  <2>3. Begun(r, y)' =>
          /\ \A q \in Awaited(r, y)' : q \in Tr!Procs /\ q # r /\ Sends(y, q, r)'
          /\ \A q \in Tr!Procs : q # r /\ Sends(y, q, r)' /\ ~ Begun(q, y)' => q \in Awaited(r, y)'
    BY <1>1, <1>2, <2>1 DEF RequestsOf
  <2>4. Begun(r, y)' =>
          requests'[r][y] = [q \in Awaited(r, y)' |->
            [ at |-> AreaFrom(y, q, r)', len |-> InFront(y)'[CommonTo(q, r)'] - InFront(y)'[CommonFrom(q, r)'] ]]
    BY <1>1, <1>2, <2>1 DEF RequestsOf
  <2>5. step'[r] > Waiting(y) => Awaited(r, y)' = {}
    BY <1>2
  <2> QED
    BY <2>2, <2>3, <2>4, <2>5 DEF RequestsOf
<1>4. DataOf(r, y)'
  <2>1. PICK awaited : awaited = Awaited(r, y)
    OBVIOUS
  <2>2. AllBut(y, r, awaited)' = AllBut(y, r, awaited)
    BY TransferInputStays
  <2>3. AllBut(y, r, Awaited(r, y))' = AllBut(y, r, Awaited(r, y))
    BY <1>2, <2>1, <2>2
  <2> QED
    BY <1>1, <2>3 DEF DataOf
<1> QED
  BY <1>3, <1>4

(* The end of a transfer. *)
LEMMA EndKeeps ==
  ASSUME TransferInv, NEW p \in Tr!Procs, NEW x \in Tr!Transfers, Tr!End(p, x)
  PROVE  TransferInv'
<1>1. TransferType /\ UNCHANGED << input, requests, data, wire >> /\ Tr!Advance(p)
  BY DEF TransferInv, Tr!End
<1>2. step[p] = Waiting(x) /\ step[p] \in 3 .. 6
  <2>1. step[p] \in 1 .. 7 /\ Tr!Program[step[p]] = << "wait", x >>
    BY <1>1 DEF TransferType, Tr!End
  <2>2. step[p] = Waiting(x)
    BY <2>1, ProgramIs
  <2> QED
    BY <2>2, OwnTime
<1>3. /\ step' \in [Tr!Procs -> 1 .. 7]
      /\ \A r \in Tr!Procs : step'[r] = IF r = p THEN step[r] + 1 ELSE step[r]
      /\ \A r \in Tr!Procs, y \in Tr!Transfers :
           Begun(r, y)' <=> Begun(r, y) \/ (r = p /\ step[p] = Beginning(y))
  BY <1>1, <1>2, StepBegins
<1>4. \A r \in Tr!Procs, y \in Tr!Transfers : Begun(r, y) <=> Begun(r, y)'
  BY <1>2, <1>3, OwnTime
<1>5. \A r, y : Awaited(r, y)' = Awaited(r, y)
  BY <1>1 DEF Awaited
<1>6. TransferType'
  <2>1. Transferable'
    BY <1>1, TransferInputStays DEF TransferType
  <2> QED
    BY <1>1, <1>3, <2>1 DEF TransferType
<1>7. ASSUME NEW r \in Tr!Procs, NEW y \in Tr!Transfers PROVE RequestsOf(r, y)' /\ DataOf(r, y)'
  <2>1. RequestsOf(r, y)
    BY DEF TransferInv
  <2>2. step'[r] > Waiting(y) => Awaited(r, y) = {}
    <3>1. CASE r = p /\ y = x
      <4>1. requests[p][x] = << >>
        BY DEF Tr!End
      <4> QED
        BY <3>1, <4>1 DEF Awaited
    <3>2. CASE r = p /\ y # x
      <4>1. step'[r] > Waiting(y) => step[r] > Waiting(y)
        <5>1. Waiting(y) # Waiting(x) /\ Waiting(y) \in 3 .. 6
          BY <3>2, OwnTime
        <5>2. step'[r] = step[r] + 1
          BY <1>3, <3>2
        <5> QED
          BY <1>2, <3>2, <5>1, <5>2
      <4> QED
        BY <2>1, <4>1 DEF RequestsOf
    <3>3. CASE r # p
      BY <1>3, <2>1, <3>3 DEF RequestsOf
    <3> QED
      BY <3>1, <3>2, <3>3
  <2> QED
    BY <1>1, <1>4, <2>2, EntryKeeps
<1>8. ASSUME NEW q \in Tr!Procs, NEW r \in Tr!Procs PROVE WireOf(q, r)'
  <2>1. \A y \in Tr!Transfers : Carried(y, q, r)' = Carried(y, q, r)
    BY <1>1, <1>4, <1>5, CarriedSame
  <2>2. WireOf(q, r)
    BY DEF TransferInv
  <2> QED
    BY <1>1, <2>1, <2>2 DEF WireOf, Tr!Transfers
<1> QED
  BY <1>6, <1>7, <1>8 DEF TransferInv

(* The beginning of a transfer: the receives are posted, what stays is in its *)
(* place.                                                                     *)
LEMMA BeginPosts ==
  ASSUME TransferInv, NEW p \in Tr!Procs, NEW x \in Tr!Transfers, Tr!Begin(p, x)
  PROVE  /\ requests' = [requests EXCEPT ![p][x] =
              [q \in { q \in Tr!Procs : q # p /\ Sends(x, q, p) } |->
                 [ at |-> AreaFrom(x, q, p), len |-> InFront(x)[CommonTo(q, p)] - InFront(x)[CommonFrom(q, p)] ]]]
         /\ data' = [data EXCEPT ![p][x] = AllBut(x, p, { q \in Tr!Procs : q # p /\ Sends(x, q, p) })]
<1>1. TransferType /\ Transferable /\ DataOf(p, "sizes") /\ RequestsOf(p, "sizes")
  BY DEF TransferInv, TransferType, Tr!Transfers
<1>2. step[p] = Beginning(x)
  <2>1. step[p] \in 1 .. 7 /\ Tr!Program[step[p]] = << "begin", x >>
    BY <1>1 DEF TransferType, Tr!Begin
  <2> QED
    BY <2>1, ProgramIs
<1>3. LongOn(x, Tr!DestSizes(x, p), input.dest[p], input.dest[p + 1])
  <2>1. x = "custom" => Begun(p, "sizes") /\ Awaited(p, "sizes") = {}
    BY <1>1, <1>2 DEF Begun, RequestsOf, Beginning, Waiting
  <2> QED
    BY <1>1, <2>1, SizesKnown
<1> DEFINE from == Tr!Sources(x, p)
           sizes == Tr!DestSizes(x, p)
           empty == [k \in 1 .. Tr!Offsets(sizes, Tr!Received(p))[Tr!Received(p).end] |-> Tr!Nothing]
           others == { q \in Tr!Procs : q # p /\ Sends(x, q, p) }
<1>4. from = { q \in Tr!Procs : Sends(x, q, p) } /\ from \ {p} = others
  BY <1>1, <1>3, SourcesSend
<1>5. \A q \in from : Tr!Place(sizes, Tr!Received(p), Tr!ReceivedFrom(p, q))
                        = [ at |-> AreaFrom(x, q, p), len |-> InFront(x)[CommonTo(q, p)] - InFront(x)[CommonFrom(q, p)] ]
  BY <1>1, <1>3, <1>4, SourcesAre
<1>6. empty = [k \in 1 .. AllOf(x, p) |-> Tr!Nothing]
  BY <1>1, <1>3, SourcesAre
<1>7. /\ requests' = [requests EXCEPT ![p][x] =
            [q \in from \ {p} |-> Tr!Place(sizes, Tr!Received(p), Tr!ReceivedFrom(p, q))]]
      /\ data' = [data EXCEPT ![p][x] =
            IF p \notin from THEN empty
            ELSE Tr!Put(empty, Tr!Place(sizes, Tr!Received(p), Tr!ReceivedFrom(p, p)).at,
                        Tr!SrcData(x, Tr!SentTo(p, p)))]
  BY DEF Tr!Begin
<1> HIDE DEF from, sizes, empty
<1>8. ASSUME NEW k \in 1 .. AllOf(x, p)
      PROVE  /\ (\E q \in others : Area(x, q, p, k)) <=> ~ (p \in from /\ Area(x, p, p, k))
  <2>1. /\ \E q \in Tr!Procs : Sends(x, q, p) /\ Area(x, q, p, k)
        /\ \A q, r \in Tr!Procs : Area(x, q, p, k) /\ Area(x, r, p, k) => q = r
    BY <1>1, AreasCover
  <2> QED
    BY <1>4, <2>1
<1>9. CASE p \notin from
  <2>1. AllBut(x, p, others) = empty
    BY <1>6, <1>8, <1>9 DEF AllBut
  <2> QED
    BY <1>4, <1>5, <1>7, <1>9, <2>1
<1>10. CASE p \in from
  <2>1. Tr!Put(empty, AreaFrom(x, p, p), CommonItems(x, p, p)) = FilledIn(empty, x, p, p)
    <3>1. DOMAIN empty = 1 .. AllOf(x, p) /\ Sends(x, p, p)
      BY <1>4, <1>6, <1>10
    <3> QED
      BY <1>1, <3>1, PutIs
  <2>2. AllBut(x, p, others) = Tr!Put(empty, AreaFrom(x, p, p), CommonItems(x, p, p))
    BY <1>6, <1>8, <1>10, <2>1 DEF AllBut, FilledIn
  <2>3. /\ Tr!SrcData(x, Tr!SentTo(p, p)) = CommonItems(x, p, p)
        /\ Tr!Place(sizes, Tr!Received(p), Tr!ReceivedFrom(p, p)).at = AreaFrom(x, p, p)
    BY <1>1, <1>4, <1>5, <1>10, SentIs
  <2> QED
    BY <1>4, <1>5, <1>7, <1>10, <2>2, <2>3
<1> QED
  BY <1>9, <1>10

(* The beginning of a transfer: a message to each that awaits one. *)
LEMMA BeginSends ==
  ASSUME TransferInv, NEW p \in Tr!Procs, NEW x \in Tr!Transfers, Tr!Begin(p, x)
  PROVE  /\ wire' = [e \in Tr!Procs \X Tr!Procs |-> wire'[e]]
         /\ \A q, r \in Tr!Procs :
              wire'[<< q, r >>] = IF q = p /\ r # p /\ Sends(x, p, r)
                                  THEN Append(wire[<< q, r >>], Parcel(x, p, r))
                                  ELSE wire[<< q, r >>]
<1>1. Transferable
  BY DEF TransferInv, TransferType
<1>2. wire' = [e \in Tr!Procs \X Tr!Procs |->
         IF e[1] # p \/ e[2] \notin Tr!Destinations(x, p) THEN wire[e]
         ELSE Append(wire[e], [ tag |-> Tr!Tag(x), items |-> Tr!SrcData(x, Tr!SentTo(p, e[2])) ])]
  BY DEF Tr!Begin
<1>3. wire' = [e \in Tr!Procs \X Tr!Procs |-> wire'[e]]
  BY <1>2
<1>4. ASSUME NEW q \in Tr!Procs, NEW r \in Tr!Procs
      PROVE  wire'[<< q, r >>] = IF q = p /\ r # p /\ Sends(x, p, r)
                                 THEN Append(wire[<< q, r >>], Parcel(x, p, r))
                                 ELSE wire[<< q, r >>]
  <2>1. wire'[<< q, r >>] =
          IF q # p \/ r \notin Tr!Destinations(x, p) THEN wire[<< q, r >>]
          ELSE Append(wire[<< q, r >>], [ tag |-> Tr!Tag(x), items |-> Tr!SrcData(x, Tr!SentTo(p, r)) ])
    BY <1>2
  <2>2. r \in Tr!Destinations(x, p) <=> r # p /\ Sends(x, p, r)
    BY <1>1, DestinationsAre
  <2>3. Sends(x, p, r) => Tr!SrcData(x, Tr!SentTo(p, r)) = CommonItems(x, p, r)
    BY <1>1, SentIs
  <2> QED
    BY <2>1, <2>2, <2>3 DEF Parcel
<1> QED
  BY <1>3, <1>4

\* all that is carried; nothing is yet of x and what comes after it; all, with m for x
AllCarried(q, r) == Carried("fixed", q, r) \o Carried("sizes", q, r) \o Carried("custom", q, r)
NotYet(x, q, r) ==
  /\ Carried(x, q, r) = << >>
  /\ \A y \in Tr!Transfers : Beginning(y) > Beginning(x) => Carried(y, q, r) = << >>
CarriedWith(x, q, r, m) ==
  (IF x = "fixed" THEN << m >> ELSE Carried("fixed", q, r))
    \o (IF x = "sizes" THEN << m >> ELSE Carried("sizes", q, r))
    \o (IF x = "custom" THEN << m >> ELSE Carried("custom", q, r))

(* What is carried last is sent last. *)
LEMMA SentLast ==
  ASSUME NEW x \in Tr!Transfers, NEW q, NEW r, NEW m, NotYet(x, q, r)
  PROVE  Append(AllCarried(q, r), m) = CarriedWith(x, q, r, m)
<1> DEFINE S == { Parcel(y, q, r) : y \in Tr!Transfers } \cup {m}
<1>1. Beginning("fixed") = 1 /\ Beginning("sizes") = 2 /\ Beginning("custom") = 5
  BY DEF Beginning
<1>2. "fixed" \in Tr!Transfers /\ "sizes" \in Tr!Transfers /\ "custom" \in Tr!Transfers
  BY DEF Tr!Transfers
<1>3. m \in S /\ \A y \in Tr!Transfers : Carried(y, q, r) \in Seq(S)
  <2>1. \A y \in Tr!Transfers : Parcel(y, q, r) \in S
    OBVIOUS
  <2>2. m \in S
    OBVIOUS
  <2> HIDE DEF S
  <2>3. << >> \in Seq(S) /\ \A s \in S : << s >> \in Seq(S)
    OBVIOUS
  <2> QED
    BY <2>1, <2>2, <2>3 DEF Carried
<1> HIDE DEF S
<1>4. ASSUME NEW A \in Seq(S), NEW B \in Seq(S)
      PROVE  /\ Append(<< >> \o << >> \o << >>, m) = << m >> \o << >> \o << >>
             /\ Append(A \o << >> \o << >>, m) = A \o << m >> \o << >>
             /\ Append(A \o B \o << >>, m) = A \o B \o << m >>
  <2>1. m \in S
    BY <1>3
  <2>2. Append(<< >> \o << >> \o << >>, m) = << m >> \o << >> \o << >>
    BY <2>1
  <2>3. Append(A \o << >> \o << >>, m) = A \o << m >> \o << >>
    BY <2>1
  <2>4. Append(A \o B \o << >>, m) = A \o B \o << m >>
    BY <2>1
  <2> QED
    BY <2>2, <2>3, <2>4
<1> DEFINE F == Carried("fixed", q, r)
           G == Carried("sizes", q, r)
           H == Carried("custom", q, r)
<1>5. F \in Seq(S) /\ G \in Seq(S)
  BY <1>2, <1>3
<1>6. CASE x = "fixed"
  <2>1. F = << >> /\ G = << >> /\ H = << >>
    BY <1>1, <1>2, <1>6 DEF NotYet
  <2> HIDE DEF F, G, H
  <2> QED
    BY <1>4, <1>5, <1>6, <2>1 DEF F, G, H, AllCarried, CarriedWith
<1>7. CASE x = "sizes"
  <2>1. G = << >> /\ H = << >>
    BY <1>1, <1>2, <1>7 DEF NotYet
  <2> HIDE DEF F, G, H
  <2> QED
    BY <1>4, <1>5, <1>7, <2>1 DEF F, G, H, AllCarried, CarriedWith
<1>8. CASE x = "custom"
  <2>1. H = << >>
    BY <1>8 DEF NotYet
  <2> HIDE DEF F, G, H
  <2> QED
    BY <1>4, <1>5, <1>8, <2>1 DEF F, G, H, AllCarried, CarriedWith
<1> QED
  BY <1>6, <1>7, <1>8 DEF Tr!Transfers

(* The beginning of a transfer. *)
LEMMA BeginKeeps ==
  ASSUME TransferInv, NEW p \in Tr!Procs, NEW x \in Tr!Transfers, Tr!Begin(p, x)
  PROVE  TransferInv'
<1>1. TransferType /\ UNCHANGED input /\ Tr!Advance(p)
  BY DEF TransferInv, Tr!Begin
<1>2. step[p] = Beginning(x) /\ step[p] \in 1 .. 5
  <2>1. step[p] \in 1 .. 7 /\ Tr!Program[step[p]] = << "begin", x >>
    BY <1>1 DEF TransferType, Tr!Begin
  <2>2. step[p] = Beginning(x)
    BY <2>1, ProgramIs
  <2> QED
    BY <2>2, OwnTime
<1>3. /\ step' \in [Tr!Procs -> 1 .. 7]
      /\ \A r \in Tr!Procs : step'[r] = IF r = p THEN step[r] + 1 ELSE step[r]
      /\ \A r \in Tr!Procs, y \in Tr!Transfers :
           Begun(r, y)' <=> Begun(r, y) \/ (r = p /\ step[p] = Beginning(y))
  BY <1>1, <1>2, StepBegins
<1>4. \A r \in Tr!Procs, y \in Tr!Transfers : Begun(r, y)' <=> Begun(r, y) \/ (r = p /\ y = x)
  BY <1>2, <1>3, OwnTime
<1>5. ~ Begun(p, x) /\ \A y \in Tr!Transfers : Beginning(y) > Beginning(x) => ~ Begun(p, y)
  <2>1. \A y \in Tr!Transfers : Beginning(y) \in 1 .. 5
    BY OwnTime
  <2> QED
    BY <1>2, <2>1 DEF Begun
<1> DEFINE others == { q \in Tr!Procs : q # p /\ Sends(x, q, p) }
           posted == [q \in others |->
                        [ at |-> AreaFrom(x, q, p), len |-> InFront(x)[CommonTo(q, p)] - InFront(x)[CommonFrom(q, p)] ]]
<1>6. /\ requests' = [requests EXCEPT ![p][x] = posted]
      /\ data' = [data EXCEPT ![p][x] = AllBut(x, p, others)]
  BY BeginPosts
<1>7. IsDataTable(requests) /\ IsDataTable(data)
  BY <1>1 DEF TransferType
<1>8. /\ IsDataTable(requests')
      /\ requests'[p][x] = posted
      /\ \A r \in Tr!Procs, y \in Tr!Transfers : r # p \/ y # x => requests'[r][y] = requests[r][y]
  <2> HIDE DEF posted
  <2>1. ChangedTo(requests, requests', p, x, posted)
    BY <1>6, <1>7, TableKeeps
  <2> QED
    BY <2>1 DEF ChangedTo
<1>9. /\ IsDataTable(data')
      /\ data'[p][x] = AllBut(x, p, others)
      /\ \A r \in Tr!Procs, y \in Tr!Transfers : r # p \/ y # x => data'[r][y] = data[r][y]
  <2> HIDE DEF others
  <2>1. ChangedTo(data, data', p, x, AllBut(x, p, others))
    BY <1>6, <1>7, TableKeeps
  <2> QED
    BY <2>1 DEF ChangedTo
<1>10. /\ wire' = [e \in Tr!Procs \X Tr!Procs |-> wire'[e]]
       /\ \A q, r \in Tr!Procs :
            wire'[<< q, r >>] = IF q = p /\ r # p /\ Sends(x, p, r)
                                THEN Append(wire[<< q, r >>], Parcel(x, p, r))
                                ELSE wire[<< q, r >>]
  BY BeginSends
<1>11. TransferType'
  <2>1. Transferable'
    BY <1>1, TransferInputStays DEF TransferType
  <2> QED
    BY <1>1, <1>3, <1>8, <1>9, <1>10, <2>1 DEF TransferType, IsDataTable
<1>12. Awaited(p, x)' = others
  BY <1>8 DEF Awaited
<1>13. \A r \in Tr!Procs, y \in Tr!Transfers : r # p \/ y # x => Awaited(r, y)' = Awaited(r, y)
  BY <1>8 DEF Awaited
<1>14. ASSUME NEW r \in Tr!Procs, NEW y \in Tr!Transfers, r # p \/ y # x
       PROVE  RequestsOf(r, y)' /\ DataOf(r, y)'
  <2>1. RequestsOf(r, y)
    BY DEF TransferInv
  <2>2. step'[r] > Waiting(y) => step[r] > Waiting(y)
    <3>1. CASE r = p
      <4>1. Waiting(y) # step[r] /\ Waiting(y) \in 3 .. 6 /\ step'[r] = step[r] + 1
        BY <1>2, <1>3, <3>1, OwnTime
      <4> QED
        BY <1>2, <3>1, <4>1
    <3>2. CASE r # p
      BY <1>3, <3>2
    <3> QED
      BY <3>1, <3>2
  <2>3. step'[r] > Waiting(y) => Awaited(r, y) = {}
    BY <2>1, <2>2 DEF RequestsOf
  <2>4. requests'[r][y] = requests[r][y] /\ data'[r][y] = data[r][y]
    BY <1>8, <1>9, <1>14
  <2>5. (Begun(r, y) <=> Begun(r, y)') /\ \A q \in Tr!Procs : Begun(q, y) => Begun(q, y)'
    BY <1>4, <1>14
  <2> QED
    BY <1>1, <2>3, <2>4, <2>5, EntryKeeps
<1>15. RequestsOf(p, x)' /\ DataOf(p, x)'
  <2>1. Begun(p, x)'
    BY <1>4
  <2>2. ~ (step'[p] > Waiting(x))
    <3>1. Waiting(x) \in 3 .. 6 /\ Beginning(x) < Waiting(x) /\ step'[p] = step[p] + 1
      BY <1>3, OwnTime
    <3> QED
      BY <1>2, <3>1
  <2>3. /\ \A a, q, s : /\ Sends(a, q, s) <=> Sends(a, q, s)'
                        /\ AreaFrom(a, q, s)' = AreaFrom(a, q, s)
        /\ \A a : InFront(a)' = InFront(a)
        /\ \A q, s : CommonFrom(q, s)' = CommonFrom(q, s) /\ CommonTo(q, s)' = CommonTo(q, s)
    BY <1>1, TransferInputStays
  <2>4. \A q \in Awaited(p, x)' : q \in Tr!Procs /\ q # p /\ Sends(x, q, p)'
    BY <1>12, <2>3
  <2>5. \A q \in Tr!Procs : q # p /\ Sends(x, q, p)' => q \in Awaited(p, x)'
    BY <1>12, <2>3
  <2>6. requests'[p][x] = [q \in Awaited(p, x)' |->
          [ at |-> AreaFrom(x, q, p)', len |-> InFront(x)'[CommonTo(q, p)'] - InFront(x)'[CommonFrom(q, p)'] ]]
    BY <1>8, <1>12, <2>3
  <2>7. RequestsOf(p, x)'
    BY <2>1, <2>2, <2>4, <2>5, <2>6 DEF RequestsOf
  <2>8. DataOf(p, x)'
    <3>1. PICK awaited : awaited = others
      OBVIOUS
    <3>2. AllBut(x, p, awaited)' = AllBut(x, p, awaited)
      BY <1>1, TransferInputStays
    <3>3. AllBut(x, p, Awaited(p, x))' = AllBut(x, p, others)
      BY <1>12, <3>1, <3>2
    <3> QED
      BY <1>9, <3>3 DEF DataOf
  <2> QED
    BY <2>7, <2>8
<1>16. ASSUME NEW q \in Tr!Procs, NEW r \in Tr!Procs PROVE WireOf(q, r)'
  <2>1. WireOf(q, r)
    BY DEF TransferInv
  <2>2. ASSUME NEW y \in Tr!Transfers, q # p \/ y # x PROVE Carried(y, q, r)' = Carried(y, q, r)
    <3>1. Begun(q, y) <=> Begun(q, y)'
      BY <1>4, <2>2
    <3>2. q # r /\ Sends(y, q, r) =>
            ((Begun(r, y) => q \in Awaited(r, y)) <=> (Begun(r, y) => q \in Awaited(r, y))')
      <4>1. CASE r # p \/ y # x
        BY <1>4, <1>13, <4>1
      <4>2. CASE r = p /\ y = x
        BY <1>4, <1>5, <1>12, <4>2
      <4> QED
        BY <4>1, <4>2
    <3> QED
      BY <1>1, <3>1, <3>2, CarriedSame
  <2>3. CASE q # p
    BY <1>10, <2>1, <2>2, <2>3 DEF WireOf, Tr!Transfers
  <2>4. CASE q = p
    <3>1. ~ Begun(p, x) /\ Carried(x, p, r) = << >>
      BY <1>5 DEF Carried, Underway
    <3>2. /\ Parcel(x, p, r)' = Parcel(x, p, r) /\ (Sends(x, p, r) <=> Sends(x, p, r)')
      BY <1>1, TransferInputStays
    <3>3. Underway(x, p, r)' <=> r # p /\ Sends(x, p, r)
      <4>1. Underway(x, p, r)' <=>
              Begun(p, x)' /\ p # r /\ Sends(x, p, r)' /\ (Begun(r, x)' => p \in Awaited(r, x)')
        BY DEF Underway
      <4>2. Begun(p, x)'
        BY <1>4
      <4>3. r # p /\ Sends(x, p, r) /\ Begun(r, x)' => p \in Awaited(r, x)'
        <5>1. RequestsOf(r, x)
          BY DEF TransferInv
        <5>2. r # p => Awaited(r, x)' = Awaited(r, x) /\ (Begun(r, x)' <=> Begun(r, x))
          BY <1>4, <1>13
        <5> QED
          BY <3>1, <5>1, <5>2 DEF RequestsOf
      <4> QED
        BY <3>2, <4>1, <4>2, <4>3
    <3>4. CASE r # p /\ Sends(x, p, r)
      <4>1. Carried(x, p, r)' = << Parcel(x, p, r) >>
        BY <3>2, <3>3, <3>4 DEF Carried
      <4>2. \A y \in Tr!Transfers : Beginning(y) > Beginning(x) => Carried(y, p, r) = << >>
        BY <1>5 DEF Carried, Underway
      <4>3. wire'[<< p, r >>] = Append(wire[<< p, r >>], Parcel(x, p, r))
        BY <1>10, <3>4
      <4>4. wire'[<< p, r >>] =
              (IF x = "fixed" THEN << Parcel(x, p, r) >> ELSE Carried("fixed", p, r))
                \o (IF x = "sizes" THEN << Parcel(x, p, r) >> ELSE Carried("sizes", p, r))
                \o (IF x = "custom" THEN << Parcel(x, p, r) >> ELSE Carried("custom", p, r))
        <5>1. wire'[<< p, r >>] = Append(AllCarried(p, r), Parcel(x, p, r))
          BY <2>1, <2>4, <4>3 DEF WireOf, AllCarried
        <5>2. NotYet(x, p, r)
          BY <3>1, <4>2 DEF NotYet
        <5>3. Append(AllCarried(p, r), Parcel(x, p, r)) = CarriedWith(x, p, r, Parcel(x, p, r))
          BY <5>2, SentLast
        <5> QED
          BY <5>1, <5>3 DEF CarriedWith
      <4>5. \A y \in Tr!Transfers :
              Carried(y, p, r)' = IF x = y THEN << Parcel(x, p, r) >> ELSE Carried(y, p, r)
        BY <2>2, <2>4, <4>1
      <4>6. /\ Carried("fixed", p, r)' = IF x = "fixed" THEN << Parcel(x, p, r) >> ELSE Carried("fixed", p, r)
            /\ Carried("sizes", p, r)' = IF x = "sizes" THEN << Parcel(x, p, r) >> ELSE Carried("sizes", p, r)
            /\ Carried("custom", p, r)' = IF x = "custom" THEN << Parcel(x, p, r) >> ELSE Carried("custom", p, r)
        BY <4>5 DEF Tr!Transfers
      <4> QED
        BY <2>4, <4>4, <4>6 DEF WireOf
    <3>5. CASE ~ (r # p /\ Sends(x, p, r))
      <4>1. Carried(x, p, r)' = << >>
        BY <3>3, <3>5 DEF Carried
      <4>2. \A y \in Tr!Transfers : Carried(y, p, r)' = Carried(y, p, r)
        BY <2>2, <2>4, <3>1, <4>1
      <4>3. wire'[<< p, r >>] = wire[<< p, r >>]
        BY <1>10, <3>5
      <4> QED
        BY <2>1, <2>4, <4>2, <4>3 DEF WireOf, Tr!Transfers
    <3> QED
      BY <3>4, <3>5
  <2> QED
    BY <2>3, <2>4
<1>17. \A r \in Tr!Procs, y \in Tr!Transfers : RequestsOf(r, y)' /\ DataOf(r, y)'
  BY <1>14, <1>15
<1> QED
  BY <1>11, <1>16, <1>17 DEF TransferInv

\* all that is carried, without x
CarriedWithout(x, q, r) ==
  (IF x = "fixed" THEN << >> ELSE Carried("fixed", q, r))
    \o (IF x = "sizes" THEN << >> ELSE Carried("sizes", q, r))
    \o (IF x = "custom" THEN << >> ELSE Carried("custom", q, r))

(* What is carried has the tags of its transfers. *)
LEMMA CarriedTags ==
  ASSUME NEW q, NEW r, NEW k \in DOMAIN AllCarried(q, r)
  PROVE  \E y \in Tr!Transfers : Underway(y, q, r) /\ AllCarried(q, r)[k].tag = Tr!Tag(y)
<1> DEFINE F == Carried("fixed", q, r)
           G == Carried("sizes", q, r)
           H == Carried("custom", q, r)
           S == { Parcel(y, q, r) : y \in Tr!Transfers }
<1>1. "fixed" \in Tr!Transfers /\ "sizes" \in Tr!Transfers /\ "custom" \in Tr!Transfers
  BY DEF Tr!Transfers
<1>2. \A y \in Tr!Transfers : Parcel(y, q, r) \in S /\ Parcel(y, q, r).tag = Tr!Tag(y)
  BY DEF Parcel
<1> HIDE DEF S
<1>3. \A y \in Tr!Transfers : /\ Carried(y, q, r) \in Seq(S)
                              /\ \A i \in 1 .. Len(Carried(y, q, r)) :
                                   Underway(y, q, r) /\ Carried(y, q, r)[i].tag = Tr!Tag(y)
  <2>1. << >> \in Seq(S) /\ Len(<< >>) = 0 /\ \A s \in S : << s >> \in Seq(S) /\ Len(<< s >>) = 1 /\ << s >>[1] = s
    OBVIOUS
  <2> SUFFICES ASSUME NEW y \in Tr!Transfers
               PROVE  /\ Carried(y, q, r) \in Seq(S)
                      /\ \A i \in 1 .. Len(Carried(y, q, r)) :
                           Underway(y, q, r) /\ Carried(y, q, r)[i].tag = Tr!Tag(y)
    OBVIOUS
  <2>2. CASE Underway(y, q, r)
    <3>1. Carried(y, q, r) = << Parcel(y, q, r) >>
      BY <2>2 DEF Carried
    <3> QED
      BY <1>2, <2>1, <2>2, <3>1
  <2>3. CASE ~ Underway(y, q, r)
    <3>1. Carried(y, q, r) = << >>
      BY <2>3 DEF Carried
    <3> QED
      BY <2>1, <3>1
  <2> QED
    BY <2>2, <2>3
<1>4. F \in Seq(S) /\ G \in Seq(S) /\ H \in Seq(S)
  BY <1>1, <1>3
<1>5. AllCarried(q, r) = F \o G \o H
  BY DEF AllCarried
<1>6. /\ \A i \in 1 .. Len(F) : Underway("fixed", q, r) /\ F[i].tag = Tr!Tag("fixed")
      /\ \A i \in 1 .. Len(G) : Underway("sizes", q, r) /\ G[i].tag = Tr!Tag("sizes")
      /\ \A i \in 1 .. Len(H) : Underway("custom", q, r) /\ H[i].tag = Tr!Tag("custom")
  BY <1>1, <1>3
<1> HIDE DEF F, G, H
<1>7. \/ k \in 1 .. Len(F) /\ AllCarried(q, r)[k] = F[k]
      \/ k - Len(F) \in 1 .. Len(G) /\ AllCarried(q, r)[k] = G[k - Len(F)]
      \/ k - Len(F) - Len(G) \in 1 .. Len(H) /\ AllCarried(q, r)[k] = H[k - Len(F) - Len(G)]
  <2>1. DOMAIN AllCarried(q, r) = 1 .. Len(F) + Len(G) + Len(H)
    BY <1>4, <1>5
  <2>2. k \in 1 .. Len(F) + Len(G) + Len(H)
    BY <2>1
  <2>3. Len(F) \in Nat /\ Len(G) \in Nat /\ Len(H) \in Nat
    BY <1>4
  <2>4. CASE k <= Len(F)
    BY <1>4, <1>5, <2>2, <2>3, <2>4
  <2>5. CASE k > Len(F) /\ k <= Len(F) + Len(G)
    BY <1>4, <1>5, <2>2, <2>3, <2>5
  <2>6. CASE k > Len(F) + Len(G)
    BY <1>4, <1>5, <2>2, <2>3, <2>6
  <2> QED
    BY <2>2, <2>3, <2>4, <2>5, <2>6
<1> QED
  BY <1>1, <1>6, <1>7

(* What is underway is there. *)
LEMMA CarriedThere ==
  ASSUME NEW x \in Tr!Transfers, NEW q, NEW r, Underway(x, q, r)
  PROVE  \E k \in DOMAIN AllCarried(q, r) : AllCarried(q, r)[k].tag = Tr!Tag(x)
<1> DEFINE F == Carried("fixed", q, r)
           G == Carried("sizes", q, r)
           H == Carried("custom", q, r)
           m == Parcel(x, q, r)
           S == { Parcel(y, q, r) : y \in Tr!Transfers }
<1>1. "fixed" \in Tr!Transfers /\ "sizes" \in Tr!Transfers /\ "custom" \in Tr!Transfers
  BY DEF Tr!Transfers
<1>2. m.tag = Tr!Tag(x) /\ Carried(x, q, r) = << m >> /\ \A y \in Tr!Transfers : Parcel(y, q, r) \in S
  BY DEF Parcel, Carried
<1> HIDE DEF S, m
<1>3. << >> \in Seq(S) /\ \A s \in S : << s >> \in Seq(S)
  OBVIOUS
<1>4. F \in Seq(S) /\ G \in Seq(S) /\ H \in Seq(S)
  BY <1>1, <1>2, <1>3 DEF Carried
<1>5. AllCarried(q, r) = F \o G \o H
  BY DEF AllCarried
<1>6. F = << m >> \/ G = << m >> \/ H = << m >>
  BY <1>2 DEF Tr!Transfers
<1> HIDE DEF F, G, H
<1>7. \E k \in DOMAIN (F \o G \o H) : (F \o G \o H)[k] = m
  <2>1. Len(F) \in Nat /\ Len(G) \in Nat /\ Len(H) \in Nat /\ DOMAIN (F \o G \o H) = 1 .. Len(F) + Len(G) + Len(H)
    BY <1>4
  <2>2. CASE F = << m >>
    <3>1. Len(F) = 1 /\ 1 \in 1 .. Len(F) + Len(G) + Len(H) /\ (F \o G \o H)[1] = m
      BY <1>4, <2>1, <2>2
    <3> QED
      BY <2>1, <3>1
  <2>3. CASE G = << m >>
    <3>1. Len(G) = 1 /\ Len(F) + 1 \in 1 .. Len(F) + Len(G) + Len(H) /\ (F \o G \o H)[Len(F) + 1] = m
      BY <1>4, <2>1, <2>3
    <3> QED
      BY <2>1, <3>1
  <2>4. CASE H = << m >>
    <3>1. /\ Len(H) = 1 /\ Len(F) + Len(G) + 1 \in 1 .. Len(F) + Len(G) + Len(H)
          /\ (F \o G \o H)[Len(F) + Len(G) + 1] = m
      BY <1>4, <2>1, <2>4
    <3> QED
      BY <2>1, <3>1
  <2> QED
    BY <1>6, <2>2, <2>3, <2>4
<1> QED
  BY <1>2, <1>5, <1>7

(* What a receive takes. *)
LEMMA TakesFirst ==
  ASSUME NEW x \in Tr!Transfers, NEW q, NEW r, Underway(x, q, r),
         x = "custom" => ~ Underway("sizes", q, r)
  PROVE  NextIs(AllCarried(q, r), Tr!Tag(x), Parcel(x, q, r), CarriedWithout(x, q, r))
<1> DEFINE F == Carried("fixed", q, r)
           G == Carried("sizes", q, r)
           H == Carried("custom", q, r)
           m == Parcel(x, q, r)
           S == { Parcel(y, q, r) : y \in Tr!Transfers }
<1>1. "fixed" \in Tr!Transfers /\ "sizes" \in Tr!Transfers /\ "custom" \in Tr!Transfers
  BY DEF Tr!Transfers
<1>2. \A y \in Tr!Transfers : Parcel(y, q, r) \in S /\ Parcel(y, q, r).tag = Tr!Tag(y)
  BY DEF Parcel
<1>3. m \in S /\ m.tag = Tr!Tag(x)
  BY <1>2
<1>4. Carried(x, q, r) = << m >>
  BY DEF Carried
<1> HIDE DEF S, m
<1>5. << >> \in Seq(S) /\ \A s \in S : << s >> \in Seq(S)
  OBVIOUS
<1>6. \A y \in Tr!Transfers : Carried(y, q, r) \in Seq(S)
  BY <1>2, <1>5 DEF Carried
<1>7. F \in Seq(S) /\ G \in Seq(S) /\ H \in Seq(S)
  BY <1>1, <1>6
<1>8. \A i \in 1 .. Len(F) : F[i].tag = 0
  <2>1. Parcel("fixed", q, r).tag = 0
    BY <1>1, <1>2 DEF Tr!Tag
  <2>2. F = << >> \/ F = << Parcel("fixed", q, r) >>
    BY DEF Carried
  <2> HIDE DEF F
  <2> QED
    BY <2>1, <2>2
<1>9. AllCarried(q, r) = F \o G \o H
  BY DEF AllCarried
<1>10. CASE x = "fixed"
  <2>1. F = << m >> /\ CarriedWithout(x, q, r) = << >> \o G \o H
    BY <1>4, <1>10 DEF CarriedWithout
  <2> HIDE DEF F, G, H
  <2>2. G \o H \in Seq(S) /\ F \o G \o H = << >> \o << m >> \o (G \o H) /\ << >> \o G \o H = << >> \o (G \o H)
    BY <1>3, <1>7, <2>1
  <2>3. NextIs(<< >> \o << m >> \o (G \o H), Tr!Tag(x), m, << >> \o (G \o H))
    <3>1. \A i \in 1 .. Len(<< >>) : << >>[i].tag # Tr!Tag(x)
      OBVIOUS
    <3> QED
      BY <1>3, <1>5, <2>2, <3>1, FirstTagged
  <2> QED
    BY <1>9, <2>1, <2>2, <2>3 DEF m
<1>11. CASE x = "sizes"
  <2>1. G = << m >> /\ CarriedWithout(x, q, r) = F \o << >> \o H /\ Tr!Tag(x) = 1
    BY <1>4, <1>11 DEF CarriedWithout, Tr!Tag
  <2> HIDE DEF F, G, H
  <2>2. F \o << >> \o H = F \o H
    BY <1>7
  <2>3. NextIs(F \o << m >> \o H, Tr!Tag(x), m, F \o H)
    <3>1. \A i \in 1 .. Len(F) : F[i].tag # Tr!Tag(x)
      BY <1>8, <2>1
    <3> QED
      BY <1>3, <1>7, <3>1, FirstTagged
  <2> QED
    BY <1>9, <2>1, <2>2, <2>3 DEF m
<1>12. CASE x = "custom"
  <2>1. H = << m >> /\ CarriedWithout(x, q, r) = F \o G \o << >> /\ Tr!Tag(x) = 1
    BY <1>4, <1>12 DEF CarriedWithout, Tr!Tag
  <2>2. G = << >>
    BY <1>12 DEF Carried
  <2> HIDE DEF F, G, H
  <2>3. F \o G \o H = F \o << m >> \o << >> /\ F \o G \o << >> = F \o << >>
    BY <1>3, <1>7, <2>1, <2>2
  <2>4. NextIs(F \o << m >> \o << >>, Tr!Tag(x), m, F \o << >>)
    <3>1. \A i \in 1 .. Len(F) : F[i].tag # Tr!Tag(x)
      BY <1>8, <2>1
    <3> QED
      BY <1>3, <1>5, <1>7, <3>1, FirstTagged
  <2> QED
    BY <1>9, <2>1, <2>3, <2>4 DEF m
<1> QED
  BY <1>10, <1>11, <1>12 DEF Tr!Transfers

(* The end of a receive: what there is of the receive, and that its message *)
(* is the one sent for it.                                                  *)
LEMMA CompleteTakes ==
  ASSUME TransferInv, NEW p \in Tr!Procs, NEW x \in Tr!Transfers, NEW q \in Tr!Procs, Tr!Complete(p, x, q)
  PROVE  /\ Begun(p, x) /\ q \in Awaited(p, x) /\ Underway(x, q, p)
         /\ data' = [data EXCEPT ![p][x] = AllBut(x, p, Awaited(p, x) \ {q})]
         /\ requests' = [requests EXCEPT ![p][x] = [r \in Awaited(p, x) \ {q} |-> requests[p][x][r]]]
         /\ wire' = [wire EXCEPT ![<< q, p >>] = CarriedWithout(x, q, p)]
<1> DEFINE e == << q, p >>
<1>1. Transferable /\ RequestsOf(p, x) /\ DataOf(p, x) /\ WireOf(q, p)
  BY DEF TransferInv, TransferType
<1>2. wire[e] = AllCarried(q, p)
  BY <1>1 DEF WireOf, AllCarried
<1>3. /\ q \in Awaited(p, x) /\ { k \in DOMAIN wire[e] : wire[e][k].tag = Tr!Tag(x) } # {}
      /\ data' = [data EXCEPT ![p][x] =
           Tr!Put(data[p][x], requests[p][x][q].at, wire[e][FirstWith(wire[e], Tr!Tag(x))].items)]
      /\ wire' = [wire EXCEPT ![e] = Tr!RemoveAt(wire[e], FirstWith(wire[e], Tr!Tag(x)))]
      /\ requests' = [requests EXCEPT ![p][x] =
           Tr!Restrict(requests[p][x], DOMAIN requests[p][x] \ {q})]
  BY DEF Tr!Complete, FirstWith, Awaited
<1> HIDE DEF e
<1>4. Begun(p, x)
  <2>1. requests[p][x] = << >> => Awaited(p, x) = {}
    BY DEF Awaited
  <2> QED
    BY <1>1, <1>3, <2>1 DEF RequestsOf
<1>5. /\ q # p /\ Sends(x, q, p) /\ requests[p][x][q].at = AreaFrom(x, q, p)
      /\ ~ (step[p] > Waiting(x))
  BY <1>1, <1>3, <1>4 DEF RequestsOf
<1>6. x = "custom" => ~ Underway("sizes", q, p)
  <2> SUFFICES ASSUME x = "custom" PROVE ~ Underway("sizes", q, p)
    OBVIOUS
  <2>1. step[p] \in 1 .. 7 /\ RequestsOf(p, "sizes")
    BY DEF TransferInv, TransferType, Tr!Transfers
  <2>2. Begun(p, "sizes") /\ step[p] > Waiting("sizes")
    BY <1>4, <2>1 DEF Begun, Beginning, Waiting
  <2> QED
    BY <2>1, <2>2 DEF RequestsOf, Underway
<1>7. Begun(q, x)
  <2>1. PICK k \in DOMAIN AllCarried(q, p) : AllCarried(q, p)[k].tag = Tr!Tag(x)
    BY <1>2, <1>3
  <2>2. PICK y \in Tr!Transfers : Underway(y, q, p) /\ Tr!Tag(x) = Tr!Tag(y)
    BY <2>1, CarriedTags
  <2>3. Begun(q, y) /\ step[q] \in 1 .. 7
    BY <2>2 DEF Underway, TransferInv, TransferType
  <2>4. \/ x = y
        \/ x = "sizes" /\ y = "custom"
        \/ x = "custom" /\ y = "sizes"
    BY <2>2 DEF Tr!Tag, Tr!Transfers
  <2>5. Begun(q, "custom") => Begun(q, "sizes")
    BY <2>3 DEF Begun, Beginning
  <2> QED
    BY <1>6, <2>2, <2>3, <2>4, <2>5
<1>8. Underway(x, q, p)
  BY <1>3, <1>5, <1>7 DEF Underway
<1>9. NextIs(wire[e], Tr!Tag(x), Parcel(x, q, p), CarriedWithout(x, q, p))
  BY <1>2, <1>6, <1>8, TakesFirst
<1>10. wire' = [wire EXCEPT ![e] = CarriedWithout(x, q, p)]
  BY <1>3, <1>9 DEF NextIs
<1>11. Tr!Restrict(requests[p][x], DOMAIN requests[p][x] \ {q})
         = [r \in Awaited(p, x) \ {q} |-> requests[p][x][r]]
  BY DEF Tr!Restrict, Awaited
<1>12. data' = [data EXCEPT ![p][x] = Tr!Put(data[p][x], AreaFrom(x, q, p), CommonItems(x, q, p))]
  BY <1>3, <1>5, <1>9 DEF NextIs, Parcel
<1>13. Tr!Put(data[p][x], AreaFrom(x, q, p), CommonItems(x, q, p)) = AllBut(x, p, Awaited(p, x) \ {q})
  <2> DEFINE seq == data[p][x]
             aw == Awaited(p, x)
  <2>1. seq = AllBut(x, p, aw)
    BY <1>1, <1>4 DEF DataOf
  <2>2. \A r \in aw : r \in Tr!Procs
    BY <1>1, <1>4 DEF RequestsOf
  <2>3. q \in aw
    BY <1>3
  <2> HIDE DEF seq, aw
  <2>4. /\ DOMAIN seq = 1 .. AllOf(x, p)
        /\ \A k \in 1 .. AllOf(x, p) :
             seq[k] = IF \E r \in aw : Area(x, r, p, k) THEN Tr!Nothing
                      ELSE Item(x, InFront(x)[input.dest[p]] + k)
    BY <2>1 DEF AllBut
  <2>5. Tr!Put(seq, AreaFrom(x, q, p), CommonItems(x, q, p)) = FilledIn(seq, x, q, p)
    BY <1>1, <1>5, <2>4, PutIs
  <2>6. ASSUME NEW k \in 1 .. AllOf(x, p)
        PROVE  (IF Area(x, q, p, k) THEN Item(x, InFront(x)[input.dest[p]] + k) ELSE seq[k])
                 = IF \E r \in aw \ {q} : Area(x, r, p, k) THEN Tr!Nothing
                   ELSE Item(x, InFront(x)[input.dest[p]] + k)
    <3>1. \A r, s \in Tr!Procs : Area(x, r, p, k) /\ Area(x, s, p, k) => r = s
      BY <1>1, AreasCover
    <3>2. Area(x, q, p, k) => ~ \E r \in aw \ {q} : Area(x, r, p, k)
      BY <2>2, <3>1
    <3>3. ~ Area(x, q, p, k) =>
            ((\E r \in aw : Area(x, r, p, k)) <=> \E r \in aw \ {q} : Area(x, r, p, k))
      BY <2>3
    <3> QED
      BY <2>4, <3>2, <3>3
  <2>7. FilledIn(seq, x, q, p) = AllBut(x, p, aw \ {q})
    BY <2>6 DEF FilledIn, AllBut
  <2> QED
    BY <2>5, <2>7 DEF seq, aw
<1> QED
  BY <1>3, <1>4, <1>8, <1>10, <1>11, <1>12, <1>13 DEF e

(* The end of a receive. *)
LEMMA CompleteKeeps ==
  ASSUME TransferInv, NEW p \in Tr!Procs, NEW x \in Tr!Transfers, NEW q \in Tr!Procs, Tr!Complete(p, x, q)
  PROVE  TransferInv'
<1>1. TransferType /\ UNCHANGED << input, step >>
  BY DEF TransferInv, Tr!Complete
<1>2. \A r, y : Begun(r, y) <=> Begun(r, y)'
  BY <1>1 DEF Begun
<1>3. /\ Begun(p, x) /\ q \in Awaited(p, x) /\ Underway(x, q, p)
      /\ data' = [data EXCEPT ![p][x] = AllBut(x, p, Awaited(p, x) \ {q})]
      /\ requests' = [requests EXCEPT ![p][x] = [r \in Awaited(p, x) \ {q} |-> requests[p][x][r]]]
      /\ wire' = [wire EXCEPT ![<< q, p >>] = CarriedWithout(x, q, p)]
  BY CompleteTakes
<1> DEFINE others == Awaited(p, x) \ {q}
           posted == [r \in others |-> requests[p][x][r]]
<1>4. IsDataTable(requests) /\ IsDataTable(data)
  BY <1>1 DEF TransferType
<1>5. /\ IsDataTable(requests')
      /\ requests'[p][x] = posted
      /\ \A r \in Tr!Procs, y \in Tr!Transfers : r # p \/ y # x => requests'[r][y] = requests[r][y]
  <2>1. requests' = [requests EXCEPT ![p][x] = posted]
    BY <1>3
  <2> HIDE DEF posted
  <2>2. ChangedTo(requests, requests', p, x, posted)
    BY <1>4, <2>1, TableKeeps
  <2> QED
    BY <2>2 DEF ChangedTo
<1>6. /\ IsDataTable(data')
      /\ data'[p][x] = AllBut(x, p, others)
      /\ \A r \in Tr!Procs, y \in Tr!Transfers : r # p \/ y # x => data'[r][y] = data[r][y]
  <2>1. data' = [data EXCEPT ![p][x] = AllBut(x, p, others)]
    BY <1>3
  <2> HIDE DEF others
  <2>2. ChangedTo(data, data', p, x, AllBut(x, p, others))
    BY <1>4, <2>1, TableKeeps
  <2> QED
    BY <2>2 DEF ChangedTo
<1>7. wire = [e \in Tr!Procs \X Tr!Procs |-> wire[e]] /\ << q, p >> \in Tr!Procs \X Tr!Procs
  BY <1>1 DEF TransferType
<1>8. /\ wire' = [e \in Tr!Procs \X Tr!Procs |-> wire'[e]]
      /\ wire'[<< q, p >>] = CarriedWithout(x, q, p)
      /\ \A r, s \in Tr!Procs : r # q \/ s # p => wire'[<< r, s >>] = wire[<< r, s >>]
  BY <1>3, <1>7
<1>9. TransferType'
  <2>1. Transferable'
    BY <1>1, TransferInputStays DEF TransferType
  <2> QED
    BY <1>1, <1>5, <1>6, <1>8, <2>1 DEF TransferType, IsDataTable
<1>10. Awaited(p, x)' = others
  BY <1>5 DEF Awaited
<1>11. \A r \in Tr!Procs, y \in Tr!Transfers : r # p \/ y # x => Awaited(r, y)' = Awaited(r, y)
  BY <1>5 DEF Awaited
<1>12. ASSUME NEW r \in Tr!Procs, NEW y \in Tr!Transfers, r # p \/ y # x
       PROVE  RequestsOf(r, y)' /\ DataOf(r, y)'
  <2>1. RequestsOf(r, y)
    BY DEF TransferInv
  <2>2. step'[r] > Waiting(y) => Awaited(r, y) = {}
    BY <1>1, <2>1 DEF RequestsOf
  <2>3. requests'[r][y] = requests[r][y] /\ data'[r][y] = data[r][y]
    BY <1>5, <1>6, <1>12
  <2> QED
    BY <1>1, <1>2, <2>2, <2>3, EntryKeeps
<1>13. RequestsOf(p, x)' /\ DataOf(p, x)'
  <2>1. RequestsOf(p, x)
    BY DEF TransferInv
  <2>2. Begun(p, x)' /\ Begun(q, x)
    BY <1>2, <1>3 DEF Underway
  <2>3. /\ \A a, b, s : /\ Sends(a, b, s) <=> Sends(a, b, s)'
                        /\ AreaFrom(a, b, s)' = AreaFrom(a, b, s)
        /\ \A a : InFront(a)' = InFront(a)
        /\ \A b, s : CommonFrom(b, s)' = CommonFrom(b, s) /\ CommonTo(b, s)' = CommonTo(b, s)
    BY <1>1, TransferInputStays
  <2>4. \A r \in Awaited(p, x)' : r \in Tr!Procs /\ r # p /\ Sends(x, r, p)'
    BY <1>3, <1>10, <2>1, <2>3 DEF RequestsOf
  <2>5. \A r \in Tr!Procs : r # p /\ Sends(x, r, p)' /\ ~ Begun(r, x)' => r \in Awaited(p, x)'
    BY <1>2, <1>3, <1>10, <2>1, <2>2, <2>3 DEF RequestsOf
  <2>6. requests'[p][x] = [r \in Awaited(p, x)' |->
          [ at |-> AreaFrom(x, r, p)', len |-> InFront(x)'[CommonTo(r, p)'] - InFront(x)'[CommonFrom(r, p)'] ]]
    <3>1. \A r \in Awaited(p, x) : requests[p][x][r] =
            [ at |-> AreaFrom(x, r, p), len |-> InFront(x)[CommonTo(r, p)] - InFront(x)[CommonFrom(r, p)] ]
      BY <1>3, <2>1 DEF RequestsOf
    <3> QED
      BY <1>5, <1>10, <2>3, <3>1
  <2>7. step'[p] > Waiting(x) => Awaited(p, x)' = {}
    BY <1>1, <1>3, <2>1 DEF RequestsOf
  <2>8. RequestsOf(p, x)'
    BY <2>2, <2>4, <2>5, <2>6, <2>7 DEF RequestsOf
  <2>9. DataOf(p, x)'
    <3>1. PICK awaited : awaited = others
      OBVIOUS
    <3>2. AllBut(x, p, awaited)' = AllBut(x, p, awaited)
      BY <1>1, TransferInputStays
    <3>3. AllBut(x, p, Awaited(p, x))' = AllBut(x, p, others)
      BY <1>10, <3>1, <3>2
    <3> QED
      BY <1>6, <3>3 DEF DataOf
  <2> QED
    BY <2>8, <2>9
<1>14. ASSUME NEW r \in Tr!Procs, NEW s \in Tr!Procs PROVE WireOf(r, s)'
  <2>1. WireOf(r, s)
    BY DEF TransferInv
  <2>2. ASSUME NEW y \in Tr!Transfers, r # q \/ s # p \/ y # x PROVE Carried(y, r, s)' = Carried(y, r, s)
    <3>1. r \in Awaited(s, y) <=> r \in Awaited(s, y)'
      BY <1>10, <1>11, <2>2
    <3> QED
      BY <1>1, <1>2, <3>1, CarriedSame
  <2>3. CASE r # q \/ s # p
    BY <1>8, <2>1, <2>2, <2>3 DEF WireOf, Tr!Transfers
  <2>4. CASE r = q /\ s = p
    <3>1. Carried(x, q, p)' = << >>
      <4>1. ~ Underway(x, q, p)'
        BY <1>2, <1>3, <1>10 DEF Underway
      <4> QED
        BY <4>1 DEF Carried
    <3>2. \A y \in Tr!Transfers : Carried(y, q, p)' = IF x = y THEN << >> ELSE Carried(y, q, p)
      BY <2>2, <2>4, <3>1
    <3>3. /\ Carried("fixed", q, p)' = IF x = "fixed" THEN << >> ELSE Carried("fixed", q, p)
          /\ Carried("sizes", q, p)' = IF x = "sizes" THEN << >> ELSE Carried("sizes", q, p)
          /\ Carried("custom", q, p)' = IF x = "custom" THEN << >> ELSE Carried("custom", q, p)
      BY <3>2 DEF Tr!Transfers
    <3> QED
      BY <1>8, <2>4, <3>3 DEF WireOf, CarriedWithout
  <2> QED
    BY <2>3, <2>4
<1>15. \A r \in Tr!Procs, y \in Tr!Transfers : RequestsOf(r, y)' /\ DataOf(r, y)'
  BY <1>12, <1>13
<1> QED
  BY <1>9, <1>14, <1>15 DEF TransferInv

(* The invariant holds. *)
LEMMA TransferHolds ==
  ASSUME Tr!PartitionsAssumption
  PROVE  Tr!Spec => []TransferInv
<1>1. Tr!Init => TransferInv
  BY TransferStart
<1>2. TransferInv /\ [Tr!Next]_(Tr!vars) => TransferInv'
  <2> SUFFICES ASSUME TransferInv, [Tr!Next]_(Tr!vars) PROVE TransferInv'
    OBVIOUS
  <2>1. CASE UNCHANGED Tr!vars
    <3>1. UNCHANGED << input, step, requests, data, wire >>
      BY <2>1 DEF Tr!vars
    <3>2. \A p, x : (Begun(p, x) <=> Begun(p, x)') /\ Awaited(p, x)' = Awaited(p, x)
      BY <3>1 DEF Begun, Awaited
    <3>3. TransferType'
      <4>1. TransferType /\ Transferable'
        BY <3>1, TransferInputStays DEF TransferInv, TransferType
      <4> QED
        BY <3>1, <4>1 DEF TransferType, IsDataTable
    <3>4. ASSUME NEW p \in Tr!Procs, NEW x \in Tr!Transfers PROVE RequestsOf(p, x)' /\ DataOf(p, x)'
      <4>1. step'[p] > Waiting(x) => Awaited(p, x) = {}
        BY <3>1 DEF TransferInv, RequestsOf
      <4> QED
        BY <3>1, <3>2, <4>1, EntryKeeps
    <3>5. ASSUME NEW q \in Tr!Procs, NEW p \in Tr!Procs PROVE WireOf(q, p)'
      <4>1. \A x \in Tr!Transfers : Carried(x, q, p)' = Carried(x, q, p)
        BY <3>1, <3>2, CarriedSame
      <4>2. WireOf(q, p)
        BY DEF TransferInv
      <4> QED
        BY <3>1, <4>1, <4>2 DEF WireOf, Tr!Transfers
    <3> QED
      BY <3>3, <3>4, <3>5 DEF TransferInv
  <2>2. CASE Tr!Next
    BY <2>2, BeginKeeps, EndKeeps, CompleteKeeps DEF Tr!Next
  <2> QED
    BY <2>1, <2>2
<1> QED
  BY <1>1, <1>2, PTL DEF Tr!Spec

(* All data of p is what it is to get. *)
LEMMA ReceivedIs ==
  ASSUME Transferable, NEW p \in Tr!Procs, NEW x \in Tr!Transfers
  PROVE  Tr!SrcData(x, Tr!Received(p)) = AllBut(x, p, {})
<1>1. Tr!Received(p) = [begin |-> input.dest[p], end |-> input.dest[p + 1]]
  BY DEF Tr!Received
<1>2. input.dest[p] \in 0 .. Total /\ input.dest[p + 1] \in 0 .. Total /\ input.dest[p] <= input.dest[p + 1]
  BY WhereThings
<1>3. Tr!SrcData(x, Tr!Received(p)) =
        [k \in 1 .. AllOf(x, p) |-> Item(x, InFront(x)[input.dest[p]] + k)]
  BY <1>1, <1>2, DataIs DEF AllOf
<1> QED
  BY <1>3 DEF AllBut

(* Whatever has come is in its place, whatever the order in which the      *)
(* messages of the three transfers are sent and taken, and in the end all  *)
(* data is there and nothing is left on the way.                           *)
THEOREM DataArrives ==
  ASSUME Tr!PartitionsAssumption
  PROVE  Tr!Spec => []Tr!TransferRight
<1>1. TransferInv => Tr!TransferRight
  <2> SUFFICES ASSUME TransferInv PROVE Tr!TransferRight
    OBVIOUS
  <2>1. TransferType /\ Transferable
    BY DEF TransferInv, TransferType
  <2>2. ASSUME NEW p \in Tr!Procs, NEW x \in Tr!Transfers, NEW k \in DOMAIN data[p][x]
        PROVE  data[p][x][k] \in { Tr!Nothing, Tr!SrcData(x, Tr!Received(p))[k] }
    <3>1. RequestsOf(p, x) /\ DataOf(p, x)
      BY DEF TransferInv
    <3>2. Begun(p, x)
      <4>1. DOMAIN << >> = {}
        OBVIOUS
      <4> QED
        BY <3>1, <4>1 DEF RequestsOf
    <3>3. data[p][x] = AllBut(x, p, Awaited(p, x))
      BY <3>1, <3>2 DEF DataOf
    <3>4. k \in 1 .. AllOf(x, p)
      BY <3>3 DEF AllBut
    <3>5. /\ AllBut(x, p, Awaited(p, x))[k] = Tr!Nothing
             \/ AllBut(x, p, Awaited(p, x))[k] = Item(x, InFront(x)[input.dest[p]] + k)
          /\ AllBut(x, p, {})[k] = Item(x, InFront(x)[input.dest[p]] + k)
      BY <3>4 DEF AllBut
    <3>6. Tr!SrcData(x, Tr!Received(p)) = AllBut(x, p, {})
      BY <2>1, ReceivedIs
    <3> QED
      BY <3>3, <3>5, <3>6
  <2>3. ASSUME Tr!AllDone
        PROVE  /\ \A e \in Tr!Procs \X Tr!Procs : wire[e] = << >>
               /\ \A p \in Tr!Procs : \A x \in Tr!Transfers : data[p][x] = Tr!SrcData(x, Tr!Received(p))
    <3>1. ASSUME NEW p \in Tr!Procs, NEW x \in Tr!Transfers PROVE Begun(p, x) /\ Awaited(p, x) = {}
      <4>1. step[p] \in 1 .. 7 /\ Tr!Program[step[p]] = << "done" >>
        BY <2>1, <2>3 DEF TransferType, Tr!AllDone
      <4>2. step[p] = 7
        BY <4>1, ProgramIs
      <4>3. Beginning(x) \in 1 .. 5 /\ Waiting(x) \in 3 .. 6 /\ RequestsOf(p, x)
        BY OwnTime DEF TransferInv
      <4> QED
        BY <4>2, <4>3 DEF Begun, RequestsOf
    <3>2. ASSUME NEW p \in Tr!Procs, NEW x \in Tr!Transfers
          PROVE  data[p][x] = Tr!SrcData(x, Tr!Received(p))
      <4>1. DataOf(p, x)
        BY DEF TransferInv
      <4> QED
        BY <2>1, <3>1, <4>1, ReceivedIs DEF DataOf
    <3>3. ASSUME NEW q \in Tr!Procs, NEW p \in Tr!Procs PROVE wire[<< q, p >>] = << >>
      <4>1. \A x \in Tr!Transfers : Carried(x, q, p) = << >>
        BY <3>1 DEF Carried, Underway
      <4>2. Carried("fixed", q, p) = << >> /\ Carried("sizes", q, p) = << >> /\ Carried("custom", q, p) = << >>
        BY <4>1 DEF Tr!Transfers
      <4>3. WireOf(q, p)
        BY DEF TransferInv
      <4> QED
        BY <4>2, <4>3 DEF WireOf
    <3> QED
      BY <3>2, <3>3
  <2> QED
    BY <2>2, <2>3 DEF Tr!TransferRight
<1> QED
  BY <1>1, TransferHolds, PTL

\* a process may begin a transfer, end one, or take what has come for it
TransferMay ==
  \E p \in Tr!Procs, x \in Tr!Transfers :
    \/ Tr!Program[step[p]] = << "begin", x >>
    \/ Tr!Program[step[p]] = << "wait", x >> /\ requests[p][x] = << >>
    \/ \E q \in DOMAIN requests[p][x] : \E k \in DOMAIN wire[<< q, p >>] : wire[<< q, p >>][k].tag = Tr!Tag(x)

(* The processes never wait for each other in vain: until all are done, one *)
(* can go on.  A process that has come least far waits for nothing, or for  *)
(* a message that was sent when its sender began the transfer.              *)
THEOREM TransferGoesOn ==
  ASSUME Tr!PartitionsAssumption
  PROVE  Tr!Spec => [](Tr!AllDone \/ TransferMay)
<1>1. TransferInv => Tr!AllDone \/ TransferMay
  <2> SUFFICES ASSUME TransferInv, ~ Tr!AllDone PROVE TransferMay
    OBVIOUS
  <2>1. TransferType /\ Tr!Procs = 0 .. NumProcs - 1 /\ NumProcs \in Nat \ {0}
    BY DEF TransferInv, TransferType, Transferable, Tr!Procs
  <2> DEFINE steps == { step[p] : p \in Tr!Procs }
  <2>2. PICK p \in Tr!Procs : step[p] \in 1 .. 6 /\ \A q \in Tr!Procs : step[p] <= step[q]
    <3>1. \A q \in Tr!Procs : step[q] \in 1 .. 7
      BY <2>1 DEF TransferType
    <3>2. steps \in SUBSET Nat /\ \A q \in Tr!Procs : step[q] \in steps
      BY <3>1
    <3>3. PICK q \in Tr!Procs : Tr!Program[step[q]] # << "done" >>
      BY DEF Tr!AllDone
    <3>4. step[q] \in 1 .. 6
      BY <3>1, <3>3, ProgramIs DEF Tr!Program
    <3>5. PICK n \in steps : \A y \in steps : n <= y
      BY <3>2, LeastElement
    <3>6. PICK p \in Tr!Procs : step[p] = n
      BY <3>5
    <3>7. \A r \in Tr!Procs : step[p] <= step[r]
      BY <3>2, <3>5, <3>6
    <3> QED
      BY <3>1, <3>4, <3>6, <3>7
  <2>3. (\E x \in Tr!Transfers : step[p] = Beginning(x)) \/ (\E x \in Tr!Transfers : step[p] = Waiting(x))
    <3>1. step[p] = 1 \/ step[p] = 2 \/ step[p] = 3 \/ step[p] = 4 \/ step[p] = 5 \/ step[p] = 6
      BY <2>2
    <3>2. /\ Beginning("fixed") = 1 /\ Beginning("sizes") = 2 /\ Beginning("custom") = 5
          /\ Waiting("fixed") = 4 /\ Waiting("sizes") = 3 /\ Waiting("custom") = 6
      BY DEF Beginning, Waiting
    <3>3. "fixed" \in Tr!Transfers /\ "sizes" \in Tr!Transfers /\ "custom" \in Tr!Transfers
      BY DEF Tr!Transfers
    <3> QED
      BY <3>1, <3>2, <3>3
  <2>4. step[p] \in 1 .. 7
    BY <2>2
  <2>5. ASSUME NEW x \in Tr!Transfers, step[p] = Beginning(x) PROVE TransferMay
    BY <2>4, <2>5, ProgramIs DEF TransferMay
  <2>6. ASSUME NEW x \in Tr!Transfers, step[p] = Waiting(x) PROVE TransferMay
    <3>1. Tr!Program[step[p]] = << "wait", x >>
      BY <2>4, <2>6, ProgramIs
    <3>2. CASE Awaited(p, x) = {}
      <4>1. requests[p][x] = << >>
        <5>1. RequestsOf(p, x)
          BY DEF TransferInv
        <5>2. requests[p][x] = << >> \/ requests[p][x] = [q \in Awaited(p, x) |->
                [ at |-> AreaFrom(x, q, p), len |-> InFront(x)[CommonTo(q, p)] - InFront(x)[CommonFrom(q, p)] ]]
          BY <5>1 DEF RequestsOf
        <5>3. requests[p][x] = << >> \/ requests[p][x] = [q \in {} |->
                [ at |-> AreaFrom(x, q, p), len |-> InFront(x)[CommonTo(q, p)] - InFront(x)[CommonFrom(q, p)] ]]
          BY <3>2, <5>2
        <5>4. [q \in {} |->
                [ at |-> AreaFrom(x, q, p), len |-> InFront(x)[CommonTo(q, p)] - InFront(x)[CommonFrom(q, p)] ]] = << >>
          OBVIOUS
        <5> QED
          BY <5>3, <5>4
      <4> QED
        BY <3>1, <4>1 DEF TransferMay
    <3>3. CASE Awaited(p, x) # {}
      <4>1. PICK q \in Awaited(p, x) : TRUE
        BY <3>3
      <4>2. RequestsOf(p, x) /\ Beginning(x) < Waiting(x)
        BY OwnTime DEF TransferInv
      <4>3. Begun(p, x)
        <5>1. requests[p][x] = << >> => Awaited(p, x) = {}
          BY DEF Awaited
        <5> QED
          BY <3>3, <4>2, <5>1 DEF RequestsOf
      <4>4. q \in Tr!Procs /\ q # p /\ Sends(x, q, p)
        BY <4>1, <4>2, <4>3 DEF RequestsOf
      <4>5. Begun(q, x)
        <5>1. step[p] <= step[q] /\ step[q] \in 1 .. 7 /\ Beginning(x) \in 1 .. 5
          BY <2>1, <2>2, <4>4, OwnTime DEF TransferType
        <5> QED
          BY <2>4, <4>3, <5>1 DEF Begun
      <4>6. Underway(x, q, p)
        BY <4>1, <4>4, <4>5 DEF Underway
      <4>7. \E k \in DOMAIN wire[<< q, p >>] : wire[<< q, p >>][k].tag = Tr!Tag(x)
        <5>1. wire[<< q, p >>] = AllCarried(q, p)
          BY <4>4 DEF TransferInv, WireOf, AllCarried
        <5> QED
          BY <4>6, <5>1, CarriedThere
      <4> QED
        BY <4>1, <4>7 DEF TransferMay, Awaited
    <3> QED
      BY <3>2, <3>3
  <2> QED
    BY <2>3, <2>5, <2>6
<1> QED
  BY <1>1, TransferHolds, PTL
==============================================================================
