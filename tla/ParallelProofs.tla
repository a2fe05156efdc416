---------------------------- MODULE ParallelProofs ----------------------------
(***************************************************************************)
(* Proofs about four components of MCParallel, for every number of         *)
(* processes.                                                              *)
(*                                                                         *)
(* BalanceExchange, for every pattern of who asks whom: a process that     *)
(* merges has exactly what the others had for it, nothing is left over,    *)
(* and all agree on the revision.                                          *)
(*                                                                         *)
(* P3Partition, for every source forest and request of SoundRequests: the  *)
(* cuts in the shared window are those everybody has cut by, a process     *)
(* lists the trees of its quadrants, and none waits for another in vain.   *)
(*                                                                         *)
(* CountPertree, for every forest: all processes get the number of         *)
(* quadrants in front of every tree, and none waits for a count in vain.   *)
(*                                                                         *)
(* ParallelEnv, for every group: those that stay agree on a partition in   *)
(* which each has the quadrants that it had.                               *)
(***************************************************************************)
EXTENDS BalanceExchange, Sequences, PartitionSearch, SequenceTheorems, FiniteSetTheorems, TLAPS

CONSTANTS CHILDREN, QMAXLEVEL, Cases, Inputs
VARIABLES input, step, relatives, goffset, gftree, loc_offsets, copied, quads, trees,
          mypertree, wire, pertree, comm, forests

P3  == INSTANCE P3Partition WITH pc <- step
Per == INSTANCE CountPertree WITH pc <- step, net <- wire
Env == INSTANCE ParallelEnv

(***************************************************************************)
(* The invariant.  Each ordered pair of processes has two channels, one    *)
(* for the question and one for the answer; where a channel is can be read *)
(* off the receive that is posted for it, and that determines what is on   *)
(* its way and what has been stored.                                       *)
(***************************************************************************)
Phases   == { "schedule", "notify", "first", "second", "merge", "count", "done" }
Posted(p) == pc[p] \notin { "schedule", "notify" }
PeerType == [ recv_first_count : Nat, recv_second_count : Nat,
              have_first_load : BOOLEAN, have_second_load : BOOLEAN ]
TypeOK ==
  /\ pattern \in Patterns
  /\ pc \in [Procs -> Phases]
  /\ requests_first  \in [Procs -> [Procs -> { None, "FIRST_COUNT", "FIRST_LOAD" }]]
  /\ requests_second \in [Procs -> [Procs -> { None, "SECOND_COUNT", "SECOND_LOAD" }]]
  /\ peers \in [Procs -> [Procs -> PeerType]]
  /\ merged = [p \in Procs |-> merged[p]]
  /\ revision \in [Procs -> Nat]

\* the quadrants that a message from p to r is about
Amount(p, r, tag) == IF tag \in { "FIRST_COUNT", "FIRST_LOAD" } THEN Ask(p, r) ELSE Answer(p, r)
OnItsWay(p, r, tag) == Msg(p, r, tag, Amount(p, r, tag)) \in net
Addressed ==
  \A m \in net : /\ m.from \in Procs /\ m.to \in Procs /\ m.from # m.to /\ m.tag \in Tags
                 /\ m = Msg(m.from, m.to, m.tag, Amount(m.from, m.to, m.tag))

\* r has the count, or all, of what p asks it
Counted(p, r) == Posted(r) /\ r \in Receivers(p) /\ requests_first[r][p] # "FIRST_COUNT"
Loaded(p, r)  == Posted(r) /\ r \in Asked(p) /\ requests_first[r][p] = None
FirstRound(p, r) ==
  /\ requests_first[r][p] # None => pc[r] = "first" /\ r \in Receivers(p)
  /\ requests_first[r][p] = "FIRST_LOAD" => Ask(p, r) > 0
  /\ Counted(p, r) => Posted(p)
  /\ OnItsWay(p, r, "FIRST_COUNT") <=> Posted(p) /\ r \in Receivers(p) /\ ~ Counted(p, r)
  /\ OnItsWay(p, r, "FIRST_LOAD") <=> Posted(p) /\ r \in Asked(p) /\ ~ Loaded(p, r)
  /\ peers[r][p].recv_first_count = IF Counted(p, r) THEN Ask(p, r) ELSE 0
  /\ peers[r][p].have_first_load <=> Loaded(p, r)

\* p has the count of the answer of r, or all of it
Noted(p, r) == Posted(p) /\ r \in Asked(p) /\ requests_second[p][r] # "SECOND_COUNT"
SecondRound(p, r) ==
  /\ requests_second[p][r] # None => pc[p] \in { "first", "second" } /\ r \in Asked(p)
  /\ requests_second[p][r] = "SECOND_LOAD" => Answer(r, p) > 0
  /\ Noted(p, r) => Loaded(p, r)
  /\ OnItsWay(r, p, "SECOND_COUNT") <=> Loaded(p, r) /\ ~ Noted(p, r)
  /\ OnItsWay(r, p, "SECOND_LOAD") <=>
       Loaded(p, r) /\ Answer(r, p) > 0 /\ requests_second[p][r] # None
  /\ peers[p][r].recv_second_count = IF Noted(p, r) THEN Answer(r, p) ELSE 0
  /\ peers[p][r].have_second_load <=>
       Noted(p, r) /\ Answer(r, p) > 0 /\ requests_second[p][r] = None

Channels == \A p, r \in Procs : p # r => FirstRound(p, r) /\ SecondRound(p, r)

\* a process and itself
Alone(p) ==
  /\ requests_first[p][p] = None /\ requests_second[p][p] = None
  /\ pc[p] \in { "second", "merge", "count", "done" } =>
       peers[p][p] = [ recv_first_count |-> Ask(p, p), recv_second_count |-> Answer(p, p),
                       have_first_load |-> TRUE, have_second_load |-> TRUE ]
\* what a process has behind it
Behind(p) ==
  /\ pc[p] \in { "merge", "count", "done" } =>
       \A r \in Procs : requests_second[p][r] = None
  /\ pc[p] \in { "count", "done" } => \A m \in net : m.from # p
Everybody == \A p \in Procs : Alone(p) /\ Behind(p)

IInv == TypeOK /\ Addressed /\ Channels /\ Everybody /\ MergeComplete

(***************************************************************************)
(* Messages.                                                               *)
(***************************************************************************)
\* A message is what it says.
LEMMA MsgEqual ==
  \A a, b, t, n, c, d, u, k :
    Msg(a, b, t, n) = Msg(c, d, u, k) <=> a = c /\ b = d /\ t = u /\ n = k
<1> SUFFICES ASSUME NEW a, NEW b, NEW t, NEW n, NEW c, NEW d, NEW u, NEW k,
                    Msg(a, b, t, n) = Msg(c, d, u, k)
             PROVE  a = c /\ b = d /\ t = u /\ n = k
  OBVIOUS
<1>1. /\ Msg(a, b, t, n).from = Msg(c, d, u, k).from /\ Msg(a, b, t, n).to = Msg(c, d, u, k).to
      /\ Msg(a, b, t, n).tag = Msg(c, d, u, k).tag /\ Msg(a, b, t, n).n = Msg(c, d, u, k).n
  OBVIOUS
<1> QED
  BY <1>1 DEF Msg

\* To receive a message takes this one out of the network and no other.
LEMMA Received ==
  ASSUME Addressed, pattern' = pattern, NEW m \in net, net' = net \ {m}
  PROVE  \A a, b \in Procs, t \in Tags :
           OnItsWay(a, b, t)' <=> OnItsWay(a, b, t) /\ ~ (m.from = a /\ m.to = b /\ m.tag = t)
<1> SUFFICES ASSUME NEW a \in Procs, NEW b \in Procs, NEW t \in Tags
             PROVE  OnItsWay(a, b, t)' <=>
                      OnItsWay(a, b, t) /\ ~ (m.from = a /\ m.to = b /\ m.tag = t)
  OBVIOUS
<1>1. m = Msg(m.from, m.to, m.tag, Amount(m.from, m.to, m.tag))
  BY DEF Addressed
<1>2. Amount(a, b, t)' = Amount(a, b, t)
  BY DEF Amount, Ask, Answer
<1>3. OnItsWay(a, b, t)' <=> OnItsWay(a, b, t) /\ Msg(a, b, t, Amount(a, b, t)) # m
  BY <1>2 DEF OnItsWay
<1>4. Msg(a, b, t, Amount(a, b, t)) = m <=> m.from = a /\ m.to = b /\ m.tag = t
  BY <1>1, MsgEqual
<1> QED
  BY <1>3, <1>4

\* What the pattern says is known to be of the right kind.
LEMMA PatternType ==
  ASSUME PatternsAssumption, TypeOK
  PROVE  /\ \A p, r \in Procs : /\ Ask(p, r) \in Nat /\ Answer(p, r) \in Nat
                                /\ Answer(p, r) > 0 => Ask(r, p) > 0
         /\ \A p, r \in Procs : p # r /\ Ask(p, r) > 0 => r \in Receivers(p)
         /\ \A p \in Procs : p \notin Receivers(p) /\ Receivers(p) \subseteq Procs
         /\ \A p, r \in Procs : r \in Asked(p) <=> p # r /\ Ask(p, r) > 0
<1>1. pattern \in Patterns
  BY DEF TypeOK
<1>2. /\ pattern.ask \in [Procs -> [Procs -> Nat]] /\ pattern.answer \in [Procs -> [Procs -> Nat]]
      /\ pattern.receivers \in [Procs -> SUBSET Procs]
      /\ \A p, r \in Procs : pattern.answer[p][r] > 0 => pattern.ask[r][p] > 0
      /\ \A p \in Procs : /\ p \notin pattern.receivers[p]
                          /\ \A r \in Procs \ {p} : pattern.ask[p][r] > 0 => r \in pattern.receivers[p]
  BY <1>1 DEF PatternsAssumption
<1> QED
  BY <1>2 DEF Ask, Answer, Receivers, Asked

(***************************************************************************)
(* Every step preserves the type, and leaves alone what it does not own.   *)
(***************************************************************************)
LEMMA InitIInv == ASSUME PatternsAssumption, Init PROVE IInv
<1>1. TypeOK
  BY DEF Init, TypeOK, Phases, PeerType
<1>2. Addressed
  BY DEF Init, Addressed
<1>3. ASSUME NEW p \in Procs, NEW r \in Procs, p # r PROVE FirstRound(p, r) /\ SecondRound(p, r)
  BY <1>3 DEF Init, FirstRound, SecondRound, Posted, Counted, Loaded, Noted, OnItsWay, None
<1>4. Everybody /\ MergeComplete
  BY DEF Init, Everybody, Alone, Behind, MergeComplete
<1> QED
  BY <1>1, <1>2, <1>3, <1>4 DEF IInv, Channels

LEMMA NextTypeOK == ASSUME PatternsAssumption, TypeOK, Addressed, [Next]_vars PROVE TypeOK'
<1> USE DEF TypeOK, Phases
<1>1. CASE UNCHANGED vars
  BY <1>1 DEF vars
<1>2. ASSUME NEW p \in Procs, Schedule(p) PROVE TypeOK'
  BY <1>2 DEF Schedule
<1>3. ASSUME NEW p \in Procs, SendFirst(p) PROVE TypeOK'
  BY <1>3 DEF SendFirst
<1>4. ASSUME NEW p \in Procs, FirstCount(p) \/ FirstLoad(p) \/ SecondCount(p) \/ SecondLoad(p)
      PROVE  TypeOK'
  <2>1. \A m \in net : m.from \in Procs /\ (m.to = p => m.n \in Nat)
    <3> SUFFICES ASSUME NEW m \in net PROVE m.from \in Procs /\ m.n \in Nat
      OBVIOUS
    <3>1. m.from \in Procs /\ m.to \in Procs /\ m.n = Amount(m.from, m.to, m.tag)
      BY DEF Addressed, Msg
    <3> QED
      BY <3>1, PatternType DEF Amount
  <2>2. CASE FirstCount(p)
    <3>1. PICK m \in net : FirstCount(p)!(m)
      BY <2>2 DEF FirstCount
    <3>2. m.from \in Procs /\ m.n \in Nat
      BY <2>1, <3>1
    <3>3. peers' \in [Procs -> [Procs -> PeerType]]
      <4> DEFINE e == [peers[p][m.from] EXCEPT !.recv_first_count = m.n]
      <4> peers[p][m.from] \in PeerType
        BY <3>2
      <4> HIDE DEF TypeOK
      <4>1. e \in PeerType
        BY <3>2 DEF PeerType
      <4> USE DEF TypeOK
      <4>2. peers' = [peers EXCEPT ![p] = [peers[p] EXCEPT ![m.from] = e]]
        BY <3>1
      <4> HIDE DEF e
      <4> QED
        BY <3>2, <4>1, <4>2
    <3> QED
      BY <3>1, <3>2, <3>3 DEF AfterCount
  <2>3. CASE FirstLoad(p)
    <3>1. PICK m \in net : FirstLoad(p)!(m)
      BY <2>3 DEF FirstLoad
    <3>2. m.from \in Procs /\ m.n \in Nat
      BY <2>1, <3>1
    <3>3. peers' \in [Procs -> [Procs -> PeerType]]
      <4> DEFINE e == [peers[p][m.from] EXCEPT !.have_first_load = TRUE]
      <4> peers[p][m.from] \in PeerType
        BY <3>2
      <4> HIDE DEF TypeOK
      <4>1. e \in PeerType
        BY <3>2 DEF PeerType
      <4> USE DEF TypeOK
      <4>2. peers' = [peers EXCEPT ![p] = [peers[p] EXCEPT ![m.from] = e]]
        BY <3>1
      <4> HIDE DEF e
      <4> QED
        BY <3>2, <4>1, <4>2
    <3> QED
      BY <3>1, <3>2, <3>3 DEF AfterCount
  <2>4. CASE SecondCount(p)
    <3>1. PICK m \in net : SecondCount(p)!(m)
      BY <2>4 DEF SecondCount
    <3>2. m.from \in Procs /\ m.n \in Nat
      BY <2>1, <3>1
    <3>3. peers' \in [Procs -> [Procs -> PeerType]]
      <4> DEFINE e == [peers[p][m.from] EXCEPT !.recv_second_count = m.n]
      <4> peers[p][m.from] \in PeerType
        BY <3>2
      <4> HIDE DEF TypeOK
      <4>1. e \in PeerType
        BY <3>2 DEF PeerType
      <4> USE DEF TypeOK
      <4>2. peers' = [peers EXCEPT ![p] = [peers[p] EXCEPT ![m.from] = e]]
        BY <3>1
      <4> HIDE DEF e
      <4> QED
        BY <3>2, <4>1, <4>2
    <3> QED
      BY <3>1, <3>2, <3>3 DEF AfterCount
  <2>5. CASE SecondLoad(p)
    <3>1. PICK m \in net : SecondLoad(p)!(m)
      BY <2>5 DEF SecondLoad
    <3>2. m.from \in Procs /\ m.n \in Nat
      BY <2>1, <3>1
    <3>3. peers' \in [Procs -> [Procs -> PeerType]]
      <4> DEFINE e == [peers[p][m.from] EXCEPT !.have_second_load = TRUE]
      <4> peers[p][m.from] \in PeerType
        BY <3>2
      <4> HIDE DEF TypeOK
      <4>1. e \in PeerType
        BY <3>2 DEF PeerType
      <4> USE DEF TypeOK
      <4>2. peers' = [peers EXCEPT ![p] = [peers[p] EXCEPT ![m.from] = e]]
        BY <3>1
      <4> HIDE DEF e
      <4> QED
        BY <3>2, <4>1, <4>2
    <3> QED
      BY <3>1, <3>2, <3>3 DEF AfterCount
  <2> QED
    BY <1>4, <2>2, <2>3, <2>4, <2>5
<1>5. ASSUME NEW p \in Procs, Self(p) PROVE TypeOK'
  BY <1>5, PatternType DEF Self, PeerType
<1>6. ASSUME NEW p \in Procs, Merge(p) \/ CountQuadrants(p) PROVE TypeOK'
  BY <1>6 DEF Merge, CountQuadrants
<1>7. ASSUME NEW p \in Procs, Finish(p) PROVE TypeOK'
  <2>1. revision' \in [Procs -> Nat]
    BY <1>7 DEF Finish
  <2> QED
    BY <1>7, <2>1 DEF Finish
<1> QED
  BY <1>1, <1>2, <1>3, <1>4, <1>5, <1>6, <1>7 DEF Next, Step

\* A message goes to where it is addressed, about what its pattern says.
LEMMA NextAddressed ==
  ASSUME PatternsAssumption, TypeOK, Addressed, [Next]_vars PROVE Addressed'
<1> USE DEF Addressed
<1>1. pattern' = pattern
  BY DEF Next, Step, vars, Schedule, SendFirst, FirstCount, FirstLoad, Self, SecondCount,
         SecondLoad, Merge, CountQuadrants, Finish
<1>2. \A a, b, t : Amount(a, b, t)' = Amount(a, b, t)
  BY <1>1 DEF Amount, Ask, Answer
<1>3. CASE net' \subseteq net
  BY <1>2, <1>3
<1>4. ASSUME NEW p \in Procs, SendFirst(p) PROVE Addressed'
  <2> SUFFICES ASSUME NEW m \in net', m \notin net
               PROVE  /\ m.from \in Procs /\ m.to \in Procs /\ m.from # m.to /\ m.tag \in Tags
                      /\ m = Msg(m.from, m.to, m.tag, Amount(m.from, m.to, m.tag))
    BY <1>2
  <2>1. PICK r \in Receivers(p), t \in { "FIRST_COUNT", "FIRST_LOAD" } : m = Msg(p, r, t, Ask(p, r))
    BY <1>4 DEF SendFirst
  <2>2. m.from = p /\ m.to = r /\ m.tag = t
    BY <2>1 DEF Msg
  <2> QED
    BY <2>1, <2>2, PatternType DEF Amount, Tags
<1>5. ASSUME NEW p \in Procs, FirstLoad(p) PROVE Addressed'
  <2> SUFFICES ASSUME NEW m \in net', m \notin net
               PROVE  /\ m.from \in Procs /\ m.to \in Procs /\ m.from # m.to /\ m.tag \in Tags
                      /\ m = Msg(m.from, m.to, m.tag, Amount(m.from, m.to, m.tag))
    BY <1>2
  <2>1. PICK k \in net : FirstLoad(p)!(k)
    BY <1>5 DEF FirstLoad
  <2>2. PICK t \in { "SECOND_COUNT", "SECOND_LOAD" } : m = Msg(p, k.from, t, Answer(p, k.from))
    BY <2>1 DEF Reply
  <2>3. m.from = p /\ m.to = k.from /\ m.tag = t
    BY <2>2 DEF Msg
  <2>4. k.from \in Procs /\ k.from # p
    BY <2>1
  <2> QED
    BY <2>2, <2>3, <2>4 DEF Amount, Tags
<1>6. ASSUME NEW p \in Procs,
             \/ Schedule(p) \/ FirstCount(p) \/ Self(p) \/ SecondCount(p) \/ SecondLoad(p)
             \/ Merge(p) \/ CountQuadrants(p) \/ Finish(p)
      PROVE  net' \subseteq net
  BY <1>6 DEF Schedule, FirstCount, Self, SecondCount, SecondLoad, Merge, CountQuadrants, Finish
<1> QED
  BY <1>3, <1>4, <1>5, <1>6 DEF Next, Step, vars

(***************************************************************************)
(* The channels of one pair of processes.                                  *)
(***************************************************************************)
LEMMA NextChannels ==
  ASSUME PatternsAssumption, TypeOK, Addressed, Channels, [Next]_vars,
         NEW p \in Procs, NEW r \in Procs, p # r
  PROVE  FirstRound(p, r)' /\ SecondRound(p, r)'
<1>1. FirstRound(p, r) /\ SecondRound(p, r)
  BY DEF Channels
<1>2. pattern' = pattern
  BY DEF Next, Step, vars, Schedule, SendFirst, FirstCount, FirstLoad, Self, SecondCount,
         SecondLoad, Merge, CountQuadrants, Finish
<1>3. /\ \A a, b, t : Amount(a, b, t)' = Amount(a, b, t)
      /\ \A a, b : Ask(a, b)' = Ask(a, b) /\ Answer(a, b)' = Answer(a, b)
      /\ \A a : Receivers(a)' = Receivers(a) /\ Asked(a)' = Asked(a)
  BY <1>2 DEF Amount, Ask, Answer, Receivers, Asked
<1>4. /\ Ask(p, r) \in Nat /\ Answer(r, p) \in Nat /\ Answer(r, p) > 0 => Ask(p, r) > 0
      /\ r \in Asked(p) <=> Ask(p, r) > 0
      /\ r \in Asked(p) => r \in Receivers(p)
  BY PatternType
<1>5. /\ requests_first[r][p] \in { None, "FIRST_COUNT", "FIRST_LOAD" }
      /\ requests_second[p][r] \in { None, "SECOND_COUNT", "SECOND_LOAD" }
  BY DEF TypeOK
<1> DEFINE Still ==
      /\ requests_first'[r][p] = requests_first[r][p]
      /\ requests_second'[p][r] = requests_second[p][r]
      /\ peers'[r][p] = peers[r][p] /\ peers'[p][r] = peers[p][r]
<1>6. ASSUME Still, pc' = pc,
             \A t \in Tags : (OnItsWay(p, r, t)' <=> OnItsWay(p, r, t)) /\ (OnItsWay(r, p, t)' <=> OnItsWay(r, p, t))
      PROVE  FirstRound(p, r)' /\ SecondRound(p, r)'
  BY <1>1, <1>2, <1>3, <1>6 DEF FirstRound, SecondRound, Posted, Counted, Loaded, Noted, Tags
<1>7. ASSUME net' = net, NEW a, NEW b, NEW t PROVE OnItsWay(a, b, t)' <=> OnItsWay(a, b, t)
  BY <1>3, <1>7 DEF OnItsWay
<1>8. CASE UNCHANGED vars
  BY <1>6, <1>7, <1>8 DEF vars
<1>9. ASSUME NEW q \in Procs,
             Schedule(q) \/ Self(q) \/ Merge(q) \/ CountQuadrants(q) \/ Finish(q)
      PROVE  FirstRound(p, r)' /\ SecondRound(p, r)'
  <2>1. Still /\ net' = net
    <3>1. CASE Self(q)
      BY <3>1 DEF Self, TypeOK
    <3>2. CASE ~ Self(q)
      BY <1>9, <3>2 DEF Schedule, Merge, CountQuadrants, Finish
    <3> QED
      BY <3>1, <3>2
  <2>2. /\ Posted(p)' <=> Posted(p)
        /\ Posted(r)' <=> Posted(r)
    BY <1>9 DEF Schedule, Self, Merge, CountQuadrants, Finish, TypeOK, Posted
  <2>3. requests_first[r][p] # None /\ pc[r] = "first" => pc'[r] = "first"
    BY <1>9 DEF Schedule, Self, Merge, CountQuadrants, Finish, TypeOK
  <2>4. requests_second[p][r] # None /\ pc[p] \in { "first", "second" } => pc'[p] \in { "first", "second" }
    BY <1>9 DEF Schedule, Self, Merge, CountQuadrants, Finish, TypeOK
  <2>5. FirstRound(p, r)'
    BY <1>1, <1>3, <1>7, <2>1, <2>2, <2>3 DEF FirstRound, Counted, Loaded
  <2>6. SecondRound(p, r)'
    BY <1>1, <1>3, <1>7, <2>1, <2>2, <2>4 DEF SecondRound, Noted, Loaded
  <2> QED
    BY <2>5, <2>6
<1>10. ASSUME NEW q \in Procs, SendFirst(q) PROVE FirstRound(p, r)' /\ SecondRound(p, r)'
  <2>1. ASSUME NEW a, NEW b, NEW t
        PROVE  OnItsWay(a, b, t)' <=>
                 \/ OnItsWay(a, b, t)
                 \/ a = q /\ b \in Receivers(q) /\ t = "FIRST_COUNT"
                 \/ a = q /\ b \in Asked(q) /\ t = "FIRST_LOAD"
    <3>1. OnItsWay(a, b, t)' <=> Msg(a, b, t, Amount(a, b, t)) \in net'
      BY <1>3 DEF OnItsWay
    <3>2. Msg(a, b, t, Amount(a, b, t)) \in { Msg(q, x, "FIRST_COUNT", Ask(q, x)) : x \in Receivers(q) }
            <=> a = q /\ b \in Receivers(q) /\ t = "FIRST_COUNT"
      BY MsgEqual DEF Amount
    <3>3. Msg(a, b, t, Amount(a, b, t)) \in { Msg(q, x, "FIRST_LOAD", Ask(q, x)) : x \in Asked(q) }
            <=> a = q /\ b \in Asked(q) /\ t = "FIRST_LOAD"
      BY MsgEqual DEF Amount
    <3> QED
      BY <1>10, <3>1, <3>2, <3>3 DEF SendFirst, Asked, OnItsWay
  <2>2. /\ requests_second'[p][r] = IF p # q THEN requests_second[p][r]
                                    ELSE IF r \in Asked(p) THEN "SECOND_COUNT" ELSE None
        /\ requests_first'[r][p] = IF r # q THEN requests_first[r][p]
                                   ELSE IF r \in Receivers(p) THEN "FIRST_COUNT" ELSE None
        /\ peers' = peers
    BY <1>10 DEF SendFirst, TypeOK, Senders
  <2>3. \A x \in Procs : /\ pc'[x] = IF x = q THEN "first" ELSE pc[x]
                         /\ Posted(x)' <=> Posted(x) \/ x = q
    BY <1>10 DEF SendFirst, TypeOK, Posted
  <2>4. ~ Posted(q)
    BY <1>10 DEF SendFirst, Posted
  <2>5. FirstRound(p, r)'
    BY <1>1, <1>3, <1>4, <1>5, <2>1, <2>2, <2>3, <2>4 DEF FirstRound, Counted, Loaded, None
  <2>6. SecondRound(p, r)'
    BY <1>1, <1>3, <1>4, <1>5, <2>1, <2>2, <2>3, <2>4
       DEF SecondRound, FirstRound, Noted, Counted, Loaded, None
  <2> QED
    BY <2>5, <2>6
<1>11. ASSUME NEW q \in Procs, FirstCount(q) PROVE FirstRound(p, r)' /\ SecondRound(p, r)'
  <2>1. PICK m \in net : FirstCount(q)!(m)
    BY <1>11 DEF FirstCount
  <2>2. /\ m.from \in Procs /\ m.to = q /\ m.tag = "FIRST_COUNT" /\ m.n = Ask(m.from, q)
    BY <2>1 DEF Addressed, Msg, Amount
  <2>3. /\ requests_second' = requests_second /\ pc' = pc /\ peers'[p][r].recv_second_count = peers[p][r].recv_second_count
        /\ peers'[p][r].have_second_load = peers[p][r].have_second_load
        /\ peers'[r][p].have_first_load = peers[r][p].have_first_load
    BY <2>1, <2>2 DEF TypeOK, PeerType
  <2>4. /\ requests_first'[r][p] =
             IF r = q /\ p = m.from THEN IF Ask(p, r) > 0 THEN "FIRST_LOAD" ELSE None
             ELSE requests_first[r][p]
        /\ peers'[r][p].recv_first_count =
             IF r = q /\ p = m.from THEN Ask(p, r) ELSE peers[r][p].recv_first_count
        /\ r = q /\ p = m.from => /\ requests_first[r][p] = "FIRST_COUNT"
                                  /\ OnItsWay(p, r, "FIRST_COUNT")
    BY <2>1, <2>2 DEF TypeOK, PeerType, AfterCount, OnItsWay, Addressed
  <2>5. \A a, b \in Procs, t \in Tags :
          OnItsWay(a, b, t)' <=> OnItsWay(a, b, t) /\ ~ (m.from = a /\ q = b /\ t = "FIRST_COUNT")
    BY <1>2, <2>1, <2>2, Received
  <2>6. FirstRound(p, r)'
    BY <1>1, <1>3, <1>4, <1>5, <2>3, <2>4, <2>5 DEF FirstRound, Posted, Counted, Loaded, None, Tags
  <2>7. SecondRound(p, r)'
    BY <1>1, <1>3, <1>4, <1>5, <2>3, <2>4, <2>5
       DEF SecondRound, FirstRound, Posted, Noted, Counted, Loaded, None, Tags
  <2> QED
    BY <2>6, <2>7
<1>12. ASSUME NEW q \in Procs, FirstLoad(q) PROVE FirstRound(p, r)' /\ SecondRound(p, r)'
  <2>1. PICK m \in net : FirstLoad(q)!(m)
    BY <1>12 DEF FirstLoad
  <2>2. m.from \in Procs /\ m.to = q /\ m.tag = "FIRST_LOAD"
    BY <2>1 DEF Addressed
  <2>3. /\ requests_second' = requests_second /\ pc' = pc
        /\ peers'[p][r].recv_second_count = peers[p][r].recv_second_count
        /\ peers'[p][r].have_second_load = peers[p][r].have_second_load
        /\ peers'[r][p].recv_first_count = peers[r][p].recv_first_count
    BY <2>1, <2>2 DEF TypeOK, PeerType
  <2>4. /\ requests_first'[r][p] = IF r = q /\ p = m.from THEN None ELSE requests_first[r][p]
        /\ peers'[r][p].have_first_load =
             IF r = q /\ p = m.from THEN TRUE ELSE peers[r][p].have_first_load
        /\ r = q /\ p = m.from => requests_first[r][p] = "FIRST_LOAD"
    <3>1. CASE r = q /\ p = m.from
      <4>1. peers'[r][p] = [peers[r][p] EXCEPT !.have_first_load = TRUE]
        BY <2>1, <2>2, <3>1 DEF TypeOK
      <4>2. peers[r][p] \in PeerType
        BY DEF TypeOK
      <4>3. peers'[r][p].have_first_load = TRUE
        BY <4>1, <4>2 DEF PeerType
      <4> QED
        BY <2>1, <3>1, <4>3 DEF TypeOK
    <3>2. CASE ~ (r = q /\ p = m.from)
      <4>1. peers'[r][p] = peers[r][p]
        BY <2>1, <2>2, <3>2 DEF TypeOK
      <4>2. requests_first'[r][p] = requests_first[r][p]
        BY <2>1, <2>2, <3>2 DEF TypeOK
      <4> QED
        BY <3>2, <4>1, <4>2
    <3> QED
      BY <3>1, <3>2
  <2>5. ASSUME NEW a \in Procs, NEW b \in Procs, NEW t \in Tags
        PROVE  OnItsWay(a, b, t)' <=>
                 \/ OnItsWay(a, b, t) /\ ~ (m.from = a /\ q = b /\ t = "FIRST_LOAD")
                 \/ a = q /\ b = m.from /\ t = "SECOND_COUNT"
                 \/ a = q /\ b = m.from /\ t = "SECOND_LOAD" /\ Answer(q, b) > 0
    <3>1. m = Msg(m.from, q, "FIRST_LOAD", Amount(m.from, q, "FIRST_LOAD"))
      BY <2>2 DEF Addressed
    <3>2. OnItsWay(a, b, t)' <=> Msg(a, b, t, Amount(a, b, t)) \in net'
      BY <1>3 DEF OnItsWay
    <3>3. Msg(a, b, t, Amount(a, b, t)) = m <=> a = m.from /\ b = q /\ t = "FIRST_LOAD"
      BY <3>1, MsgEqual
    <3>4. Msg(a, b, t, Amount(a, b, t)) \in Reply(q, m.from) <=>
            \/ a = q /\ b = m.from /\ t = "SECOND_COUNT"
            \/ a = q /\ b = m.from /\ t = "SECOND_LOAD" /\ Answer(q, b) > 0
      BY MsgEqual DEF Reply, Amount
    <3> QED
      BY <2>1, <3>2, <3>3, <3>4 DEF OnItsWay
  <2>6. FirstRound(p, r)'
    BY <1>1, <1>3, <1>4, <1>5, <2>3, <2>4, <2>5 DEF FirstRound, Posted, Counted, Loaded, None, Tags
  <2>7. SecondRound(p, r)'
    BY <1>1, <1>3, <1>4, <1>5, <2>3, <2>4, <2>5
       DEF SecondRound, FirstRound, Posted, Noted, Counted, Loaded, None, Tags
  <2> QED
    BY <2>6, <2>7
<1>13. ASSUME NEW q \in Procs, SecondCount(q) PROVE FirstRound(p, r)' /\ SecondRound(p, r)'
  <2>1. PICK m \in net : SecondCount(q)!(m)
    BY <1>13 DEF SecondCount
  <2>2. m.from \in Procs /\ m.to = q /\ m.tag = "SECOND_COUNT" /\ m.n = Answer(m.from, q)
    BY <2>1 DEF Addressed, Msg, Amount
  <2>3. /\ requests_first' = requests_first /\ pc' = pc
        /\ peers'[r][p].recv_first_count = peers[r][p].recv_first_count
        /\ peers'[r][p].have_first_load = peers[r][p].have_first_load
        /\ peers'[p][r].have_second_load = peers[p][r].have_second_load
    BY <2>1, <2>2 DEF TypeOK, PeerType
  <2>4. /\ requests_second'[p][r] =
             IF p = q /\ r = m.from THEN IF Answer(r, p) > 0 THEN "SECOND_LOAD" ELSE None
             ELSE requests_second[p][r]
        /\ peers'[p][r].recv_second_count =
             IF p = q /\ r = m.from THEN Answer(r, p) ELSE peers[p][r].recv_second_count
        /\ p = q /\ r = m.from => /\ requests_second[p][r] = "SECOND_COUNT"
                                  /\ OnItsWay(r, p, "SECOND_COUNT")
    BY <2>1, <2>2 DEF TypeOK, PeerType, AfterCount, OnItsWay, Addressed
  <2>5. \A a, b \in Procs, t \in Tags :
          OnItsWay(a, b, t)' <=> OnItsWay(a, b, t) /\ ~ (m.from = a /\ q = b /\ t = "SECOND_COUNT")
    BY <1>2, <2>1, <2>2, Received
  <2>6. FirstRound(p, r)'
    BY <1>1, <1>3, <2>3, <2>5 DEF FirstRound, Posted, Counted, Loaded, Tags
  <2>7. SecondRound(p, r)'
    BY <1>1, <1>3, <1>4, <1>5, <2>3, <2>4, <2>5
       DEF SecondRound, Posted, Noted, Loaded, None, Tags
  <2> QED
    BY <2>6, <2>7
<1>14. ASSUME NEW q \in Procs, SecondLoad(q) PROVE FirstRound(p, r)' /\ SecondRound(p, r)'
  <2>1. PICK m \in net : SecondLoad(q)!(m)
    BY <1>14 DEF SecondLoad
  <2>2. m.from \in Procs /\ m.to = q /\ m.tag = "SECOND_LOAD"
    BY <2>1 DEF Addressed
  <2>3. /\ requests_first' = requests_first /\ pc' = pc
        /\ peers'[r][p].recv_first_count = peers[r][p].recv_first_count
        /\ peers'[r][p].have_first_load = peers[r][p].have_first_load
        /\ peers'[p][r].recv_second_count = peers[p][r].recv_second_count
    BY <2>1, <2>2 DEF TypeOK, PeerType
  <2>4. /\ requests_second'[p][r] = IF p = q /\ r = m.from THEN None ELSE requests_second[p][r]
        /\ peers'[p][r].have_second_load =
             IF p = q /\ r = m.from THEN TRUE ELSE peers[p][r].have_second_load
        /\ p = q /\ r = m.from => requests_second[p][r] = "SECOND_LOAD"
    <3>1. CASE p = q /\ r = m.from
      <4>1. peers'[p][r] = [peers[p][r] EXCEPT !.have_second_load = TRUE]
        BY <2>1, <2>2, <3>1 DEF TypeOK
      <4>2. peers[p][r] \in PeerType
        BY DEF TypeOK
      <4>3. peers'[p][r].have_second_load = TRUE
        BY <4>1, <4>2 DEF PeerType
      <4> QED
        BY <2>1, <3>1, <4>3 DEF TypeOK
    <3>2. CASE ~ (p = q /\ r = m.from)
      <4>1. peers'[p][r] = peers[p][r]
        BY <2>1, <2>2, <3>2 DEF TypeOK
      <4>2. requests_second'[p][r] = requests_second[p][r]
        BY <2>1, <2>2, <3>2 DEF TypeOK
      <4> QED
        BY <3>2, <4>1, <4>2
    <3> QED
      BY <3>1, <3>2
  <2>5. \A a, b \in Procs, t \in Tags :
          OnItsWay(a, b, t)' <=> OnItsWay(a, b, t) /\ ~ (m.from = a /\ q = b /\ t = "SECOND_LOAD")
    BY <1>2, <2>1, <2>2, Received
  <2>6. FirstRound(p, r)'
    BY <1>1, <1>3, <2>3, <2>5 DEF FirstRound, Posted, Counted, Loaded, Tags
  <2>7. SecondRound(p, r)'
    BY <1>1, <1>3, <1>4, <1>5, <2>3, <2>4, <2>5
       DEF SecondRound, Posted, Noted, Loaded, None, Tags
  <2> QED
    BY <2>6, <2>7
<1> QED
  BY <1>8, <1>9, <1>10, <1>11, <1>12, <1>13, <1>14 DEF Next, Step

(***************************************************************************)
(* A process for itself.                                                   *)
(***************************************************************************)
LEMMA NextEverybody ==
  ASSUME PatternsAssumption, TypeOK, Addressed, Everybody, [Next]_vars, NEW p \in Procs
  PROVE  Alone(p)' /\ Behind(p)'
<1>1. Alone(p) /\ Behind(p)
  BY DEF Everybody
<1>2. CASE UNCHANGED vars
  BY <1>1, <1>2 DEF vars, Alone, Behind, Ask, Answer
<1>3. ASSUME NEW q \in Procs, Schedule(q) \/ Merge(q) \/ CountQuadrants(q) \/ Finish(q)
      PROVE  Alone(p)' /\ Behind(p)'
  <2>1. /\ UNCHANGED << requests_first, requests_second, peers, net >>
        /\ \A x, y \in Procs : Ask(x, y)' = Ask(x, y) /\ Answer(x, y)' = Answer(x, y)
    BY <1>3 DEF Schedule, Merge, CountQuadrants, Finish, Ask, Answer
  <2>2. pc'[p] \in { "second", "merge", "count", "done" } =>
          pc[p] \in { "second", "merge", "count", "done" }
    BY <1>3 DEF Schedule, Merge, CountQuadrants, Finish, TypeOK
  <2>3. pc'[p] \in { "merge", "count", "done" } => \A r \in Procs : requests_second[p][r] = None
    BY <1>1, <1>3 DEF Schedule, Merge, CountQuadrants, Finish, TypeOK, Behind
  <2>4. pc'[p] \in { "count", "done" } => \A m \in net : m.from # p
    BY <1>1, <1>3 DEF Schedule, Merge, CountQuadrants, Finish, TypeOK, Behind
  <2> QED
    BY <1>1, <2>1, <2>2, <2>3, <2>4 DEF Alone, Behind
<1>4. ASSUME NEW q \in Procs, SendFirst(q) PROVE Alone(p)' /\ Behind(p)'
  <2>1. /\ pc[q] = "notify" /\ pc' = [pc EXCEPT ![q] = "first"] /\ peers' = peers /\ pattern' = pattern
        /\ \A m \in net' : m \in net \/ m.from = q
    BY <1>4 DEF SendFirst, Msg
  <2>2. requests_first'[p][p] = None /\ requests_second'[p][p] = None
    <3>1. p \notin Senders(p) /\ p \notin Asked(p)
      BY PatternType DEF Senders, Asked
    <3> QED
      BY <1>1, <1>4, <3>1 DEF SendFirst, Alone, TypeOK
  <2>3. p # q => requests_second'[p] = requests_second[p]
    BY <1>4 DEF SendFirst, TypeOK
  <2> QED
    BY <1>1, <2>1, <2>2, <2>3 DEF Alone, Behind, TypeOK, Ask, Answer
<1>5. ASSUME NEW q \in Procs, Self(q) PROVE Alone(p)' /\ Behind(p)'
  <2>1. /\ UNCHANGED << pattern, requests_first, requests_second, net >>
        /\ pc' = [pc EXCEPT ![q] = "second"] /\ pc[q] = "first"
    BY <1>5 DEF Self
  <2>2. p # q => peers'[p] = peers[p]
    BY <1>5 DEF Self, TypeOK
  <2>3. p = q => peers'[p][p] = [ recv_first_count |-> Ask(p, p), recv_second_count |-> Answer(p, p),
                                  have_first_load |-> TRUE, have_second_load |-> TRUE ]
    BY <1>5 DEF Self, TypeOK
  <2> QED
    BY <1>1, <2>1, <2>2, <2>3 DEF Alone, Behind, TypeOK, Ask, Answer
<1>6. ASSUME NEW q \in Procs, FirstCount(q) \/ FirstLoad(q) \/ SecondCount(q) \/ SecondLoad(q)
      PROVE  Alone(p)' /\ Behind(p)'
  <2>1. pattern' = pattern /\ pc' = pc
    BY <1>6 DEF FirstCount, FirstLoad, SecondCount, SecondLoad
  <2>2. /\ peers'[p][p] = peers[p][p]
        /\ requests_first'[p][p] = requests_first[p][p]
        /\ requests_second'[p][p] = requests_second[p][p]
    <3>1. CASE FirstCount(q)
      <4>1. PICK m \in net : FirstCount(q)!(m)
        BY <3>1 DEF FirstCount
      <4>2. m.from # q
        BY <4>1 DEF Addressed
      <4> QED
        BY <4>1, <4>2 DEF TypeOK
    <3>2. CASE FirstLoad(q)
      <4>1. PICK m \in net : FirstLoad(q)!(m)
        BY <3>2 DEF FirstLoad
      <4>2. m.from # q
        BY <4>1 DEF Addressed
      <4> QED
        BY <4>1, <4>2 DEF TypeOK
    <3>3. CASE SecondCount(q)
      <4>1. PICK m \in net : SecondCount(q)!(m)
        BY <3>3 DEF SecondCount
      <4>2. m.from # q
        BY <4>1 DEF Addressed
      <4> QED
        BY <4>1, <4>2 DEF TypeOK
    <3>4. CASE SecondLoad(q)
      <4>1. PICK m \in net : SecondLoad(q)!(m)
        BY <3>4 DEF SecondLoad
      <4>2. m.from # q
        BY <4>1 DEF Addressed
      <4> QED
        BY <4>1, <4>2 DEF TypeOK
    <3> QED
      BY <1>6, <3>1, <3>2, <3>3, <3>4
  <2>3. Alone(p)'
    BY <1>1, <2>1, <2>2 DEF Alone, Ask, Answer
  <2>4. pc[p] # "second" => requests_second'[p] = requests_second[p]
    <3>1. CASE FirstCount(q) \/ FirstLoad(q)
      BY <3>1 DEF FirstCount, FirstLoad
    <3>2. CASE SecondCount(q) \/ SecondLoad(q)
      BY <3>2 DEF SecondCount, SecondLoad, TypeOK
    <3> QED
      BY <1>6, <3>1, <3>2
  <2>5. \A m \in net' : m \in net \/ (m.from = q /\ pc[q] = "first")
    <3>1. CASE FirstLoad(q)
      BY <3>1 DEF FirstLoad, Reply, Msg
    <3>2. CASE FirstCount(q) \/ SecondCount(q) \/ SecondLoad(q)
      BY <3>2 DEF FirstCount, SecondCount, SecondLoad
    <3> QED
      BY <1>6, <3>1, <3>2
  <2>6. Behind(p)'
    BY <1>1, <2>1, <2>4, <2>5 DEF Behind
  <2> QED
    BY <2>3, <2>6
<1> QED
  BY <1>2, <1>3, <1>4, <1>5, <1>6 DEF Next, Step

\* When no request is left, a process has all that is meant for it.
LEMMA NextMergeComplete ==
  ASSUME PatternsAssumption, IInv, [Next]_vars PROVE MergeComplete'
<1> USE DEF IInv
<1>1. pattern' = pattern
  BY DEF Next, Step, vars, Schedule, SendFirst, FirstCount, FirstLoad, Self, SecondCount,
         SecondLoad, Merge, CountQuadrants, Finish
<1>2. /\ \A a, b : Ask(a, b)' = Ask(a, b) /\ Answer(a, b)' = Answer(a, b)
  BY <1>1 DEF Ask, Answer
<1> SUFFICES ASSUME NEW p \in Procs, pc'[p] \in { "merge", "count", "done" }
             PROVE  merged'[p] =
      { << r, "first", Ask(r, p) >> : r \in { x \in Procs : x = p \/ Ask(x, p) > 0 } }
      \union
      { << r, "second", Answer(r, p) >> :
          r \in { x \in Procs : x = p \/ (Ask(p, x) > 0 /\ Answer(x, p) > 0) } }
  BY <1>2 DEF MergeComplete
<1>3. ASSUME Merge(p) PROVE merged'[p] =
      { << r, "first", Ask(r, p) >> : r \in { x \in Procs : x = p \/ Ask(x, p) > 0 } }
      \union
      { << r, "second", Answer(r, p) >> :
          r \in { x \in Procs : x = p \/ (Ask(p, x) > 0 /\ Answer(x, p) > 0) } }
  <2>1. /\ merged'[p] = Arrived(p) /\ pc[p] = "second"
        /\ \A x \in Procs : requests_second[p][x] = None
    BY <1>3 DEF Merge, TypeOK
  <2>2. ASSUME NEW x \in Procs
        PROVE  /\ peers[p][x].have_first_load <=> x = p \/ Ask(x, p) > 0
               /\ peers[p][x].have_first_load => peers[p][x].recv_first_count = Ask(x, p)
               /\ peers[p][x].have_second_load <=> x = p \/ (Ask(p, x) > 0 /\ Answer(x, p) > 0)
               /\ peers[p][x].have_second_load => peers[p][x].recv_second_count = Answer(x, p)
    <3>1. CASE x = p
      <4>1. peers[p][p] = [ recv_first_count |-> Ask(p, p), recv_second_count |-> Answer(p, p),
                            have_first_load |-> TRUE, have_second_load |-> TRUE ]
        BY <2>1 DEF Everybody, Alone
      <4>2. /\ peers[p][p].have_first_load = TRUE /\ peers[p][p].have_second_load = TRUE
            /\ peers[p][p].recv_first_count = Ask(p, p)
            /\ peers[p][p].recv_second_count = Answer(p, p)
        BY <4>1
      <4> QED
        BY <3>1, <4>2
    <3>2. CASE x # p
      <4>1. FirstRound(x, p) /\ SecondRound(p, x)
        BY <3>2 DEF Channels
      <4>2. requests_first[p][x] = None /\ Posted(p)
        BY <2>1, <4>1 DEF FirstRound, Posted
      <4>3. /\ p \in Asked(x) <=> Ask(x, p) > 0
            /\ x \in Asked(p) <=> Ask(p, x) > 0
            /\ p \in Asked(x) => p \in Receivers(x)
        BY <3>2, PatternType
      <4>4. Loaded(x, p) => Counted(x, p)
        BY <4>3 DEF Loaded, Counted, None
      <4> QED
        BY <2>1, <3>2, <4>1, <4>2, <4>3, <4>4 DEF FirstRound, SecondRound, Loaded, Noted, None
    <3> QED
      BY <3>1, <3>2
  <2> QED
    BY <2>1, <2>2 DEF Arrived
<1>4. ASSUME ~ Merge(p) PROVE pc[p] \in { "merge", "count", "done" } /\ merged'[p] = merged[p]
  <2>1. CASE UNCHANGED vars
    BY <2>1 DEF vars
  <2>2. ASSUME NEW q \in Procs, Merge(q) PROVE pc[p] \in { "merge", "count", "done" } /\ merged'[p] = merged[p]
    BY <1>4, <2>2 DEF Merge, TypeOK
  <2>3. ASSUME NEW q \in Procs, \/ Schedule(q) \/ SendFirst(q) \/ FirstCount(q) \/ FirstLoad(q) \/ Self(q)
                                \/ SecondCount(q) \/ SecondLoad(q) \/ CountQuadrants(q) \/ Finish(q)
        PROVE  pc[p] \in { "merge", "count", "done" } /\ merged'[p] = merged[p]
    BY <2>3 DEF Schedule, SendFirst, FirstCount, FirstLoad, Self, SecondCount,
         SecondLoad, CountQuadrants, Finish, TypeOK
  <2> QED
    BY <2>1, <2>2, <2>3 DEF Next, Step
<1> QED
  BY <1>3, <1>4 DEF MergeComplete

\* The invariant holds throughout.
THEOREM Invariance == ASSUME PatternsAssumption PROVE Spec => []IInv
<1>1. IInv /\ [Next]_vars => IInv'
  BY NextTypeOK, NextAddressed, NextChannels, NextEverybody, NextMergeComplete
     DEF IInv, Channels, Everybody
<1> QED
  BY InitIInv, <1>1, PTL DEF Spec

(***************************************************************************)
(* What follows.                                                           *)
(***************************************************************************)
\* For any number of processes and whoever asks whom: a process merges when and
\* only when it has every load scheduled for it and every answer to its own.
THEOREM MergesComplete == ASSUME PatternsAssumption PROVE Spec => []MergeComplete
<1>1. IInv => MergeComplete
  BY DEF IInv
<1> QED
  BY <1>1, Invariance, PTL

\* For any number of processes and whoever asks whom: a process that is through
\* leaves no message and no request behind, and counts agree with their loads.
THEOREM NothingIsLeft == ASSUME PatternsAssumption PROVE Spec => []NothingLeft
<1>1. ASSUME IInv PROVE NothingLeft
  <2> USE <1>1 DEF IInv
  <2>1. ASSUME NEW p \in Procs, NEW r \in Procs, p # r
        PROVE  FirstRound(p, r) /\ SecondRound(p, r) /\ FirstRound(r, p) /\ SecondRound(r, p)
    BY <2>1 DEF Channels
  <2>2. ASSUME NEW p \in Procs, pc[p] = "done", NEW r \in Procs
        PROVE  requests_first[p][r] = None /\ requests_second[p][r] = None
    <3>1. CASE r = p
      BY <3>1 DEF Everybody, Alone
    <3>2. CASE r # p
      BY <2>1, <2>2, <3>2 DEF FirstRound, SecondRound
    <3> QED
      BY <3>1, <3>2
  <2>3. ASSUME NEW p \in Procs, pc[p] = "done", NEW m \in net PROVE m.from # p /\ m.to # p
    <3>1. m.from # p
      BY <2>3 DEF Everybody, Behind
    <3>2. SUFFICES ASSUME m.to = p PROVE FALSE
      BY <3>1
    <3>3. m.from \in Procs /\ m.from # p /\ m.tag \in Tags /\ OnItsWay(m.from, p, m.tag)
      BY <3>2 DEF Addressed, OnItsWay
    <3>4. requests_first[p][m.from] = None /\ requests_second[p][m.from] = None /\ Posted(p)
      BY <2>2, <2>3, <3>3 DEF Posted
    <3>5. \A x \in Procs : x # p => (p \in Asked(x) => p \in Receivers(x))
      BY PatternType
    <3> QED
      BY <2>1, <3>3, <3>4, <3>5
         DEF FirstRound, SecondRound, Counted, Loaded, Noted, Tags, None
  <2>4. ASSUME NEW m \in net,
               \/ m.tag = "FIRST_LOAD" /\ requests_first[m.to][m.from] = m.tag
               \/ m.tag = "SECOND_LOAD" /\ requests_second[m.to][m.from] = m.tag
        PROVE  /\ m.tag = "FIRST_LOAD" => m.n = peers[m.to][m.from].recv_first_count
               /\ m.tag = "SECOND_LOAD" => m.n = peers[m.to][m.from].recv_second_count
    <3>1. /\ m.from \in Procs /\ m.to \in Procs /\ m.from # m.to
          /\ m.n = Amount(m.from, m.to, m.tag)
      BY DEF Addressed, Msg
    <3>2. FirstRound(m.from, m.to) /\ SecondRound(m.to, m.from)
      BY <2>1, <3>1
    <3> QED
      BY <2>4, <3>1, <3>2 DEF FirstRound, SecondRound, Counted, Noted, Posted, Amount, None
  <2> QED
    BY <2>2, <2>3, <2>4 DEF NothingLeft
<1> QED
  BY <1>1, Invariance, PTL

\* The guards of Step(p): the process p does not wait.
CanMove(p) ==
  \/ pc[p] = "schedule"
  \/ pc[p] = "notify" /\ \A r \in Procs : pc[r] # "schedule"
  \/ pc[p] = "first" /\ \/ \A r \in Procs : requests_first[p][r] = None
                        \/ \E m \in net : m.to = p /\ requests_first[p][m.from] = m.tag
  \/ pc[p] = "second" /\ \/ \A r \in Procs : requests_second[p][r] = None
                         \/ \E m \in net : m.to = p /\ requests_second[p][m.from] = m.tag
  \/ pc[p] = "merge" /\ \A m \in net : m.from # p
  \/ pc[p] = "count" /\ \A r \in Procs : pc[r] \in { "count", "done" }

\* For any number of processes and whoever asks whom: as long as one is not
\* through, some process has what it waits for, in whatever order messages arrive.
THEOREM NobodyIsStuck ==
  ASSUME PatternsAssumption
  PROVE  Spec => []((\E p \in Procs : pc[p] # "done") => \E p \in Procs : CanMove(p))
<1>1. ASSUME IInv, NEW w \in Procs, pc[w] # "done", \A p \in Procs : ~ CanMove(p)
      PROVE  FALSE
  <2> USE <1>1 DEF IInv
  <2>1. \A p \in Procs : pc[p] \in Phases
    BY DEF TypeOK
  <2>2. \A p \in Procs : Posted(p)
    BY <1>1, <2>1 DEF CanMove, Posted
  <2>3. ASSUME NEW p \in Procs, NEW r \in Procs
        PROVE  /\ requests_first[p][r] \in { None, "FIRST_COUNT", "FIRST_LOAD" }
               /\ requests_second[p][r] \in { None, "SECOND_COUNT", "SECOND_LOAD" }
               /\ requests_first[p][r] # None \/ requests_second[p][r] # None => r # p
    BY DEF TypeOK, Everybody, Alone
  <2>4. ASSUME NEW p \in Procs, NEW r \in Procs PROVE requests_first[p][r] = None
    <3> SUFFICES ASSUME requests_first[p][r] # None PROVE FALSE
      OBVIOUS
    <3>1. r # p /\ FirstRound(r, p)
      BY <2>3 DEF Channels
    <3>2. pc[p] = "first"
      BY <3>1 DEF FirstRound
    <3>3. p \in Asked(r) <=> Ask(r, p) > 0
      BY <3>1, PatternType
    <3>4. OnItsWay(r, p, requests_first[p][r])
      BY <2>2, <2>3, <3>1, <3>3 DEF FirstRound, Counted, Loaded, None
    <3>5. \E m \in net : m.to = p /\ requests_first[p][m.from] = m.tag
      BY <3>4 DEF OnItsWay, Msg
    <3> QED
      BY <1>1, <3>2, <3>5 DEF CanMove
  <2>5. \A p \in Procs : pc[p] \in { "second", "merge", "count", "done" }
    BY <1>1, <2>1, <2>2, <2>4 DEF CanMove, Posted, Phases
  <2>6. ASSUME NEW p \in Procs, NEW r \in Procs PROVE requests_second[p][r] = None
    <3> SUFFICES ASSUME requests_second[p][r] # None PROVE FALSE
      OBVIOUS
    <3>1. r # p /\ SecondRound(p, r)
      BY <2>3 DEF Channels
    <3>2. pc[p] = "second" /\ r \in Asked(p)
      BY <2>5, <3>1 DEF SecondRound
    <3>3. Loaded(p, r)
      BY <2>2, <2>4, <3>2 DEF Loaded
    <3>4. OnItsWay(r, p, requests_second[p][r])
      BY <2>3, <3>1, <3>2, <3>3 DEF SecondRound, Noted
    <3>5. \E m \in net : m.to = p /\ requests_second[p][m.from] = m.tag
      BY <3>4 DEF OnItsWay, Msg
    <3> QED
      BY <1>1, <3>2, <3>5 DEF CanMove
  <2>7. net = {}
    <3> SUFFICES ASSUME NEW m \in net PROVE FALSE
      OBVIOUS
    <3>1. /\ m.from \in Procs /\ m.to \in Procs /\ m.from # m.to /\ m.tag \in Tags
          /\ OnItsWay(m.from, m.to, m.tag)
      BY DEF Addressed, OnItsWay
    <3>2. FirstRound(m.from, m.to) /\ SecondRound(m.to, m.from)
      BY <3>1 DEF Channels
    <3>3. m.to \in Asked(m.from) => m.to \in Receivers(m.from)
      BY DEF Asked
    <3>4. Posted(m.from) /\ Posted(m.to)
      BY <2>2, <3>1
    <3>5. requests_first[m.to][m.from] = None /\ requests_second[m.to][m.from] = None
      BY <2>4, <2>6, <3>1
    <3> QED
      BY <3>1, <3>2, <3>3, <3>4, <3>5
         DEF FirstRound, SecondRound, Counted, Loaded, Noted, Tags, None
  <2>8. \A p \in Procs : pc[p] \in { "count", "done" }
    BY <1>1, <2>5, <2>6, <2>7 DEF CanMove
  <2> QED
    BY <1>1, <2>8 DEF CanMove
<1>2. IInv => ((\E p \in Procs : pc[p] # "done") => \E p \in Procs : CanMove(p))
  BY <1>1
<1> QED
  BY <1>2, Invariance, PTL

(***************************************************************************)
(* Runs of consecutive quadrants.                                          *)
(***************************************************************************)
Run(x, y) == [k \in 1 .. y - x |-> x + k - 1]

(* Two runs of which one begins where the other ends are one run. *)
LEMMA RunsJoin ==
  ASSUME NEW x \in Int, NEW y \in Int, NEW z \in Int, x <= y, y <= z
  PROVE  Run(x, y) \o Run(y, z) = Run(x, z)
<1> DEFINE s == Run(x, y)
           t == Run(y, z)
<1>1. s \in Seq(Int) /\ Len(s) = y - x /\ \A k \in 1 .. y - x : s[k] = x + k - 1
  <2>1. y - x \in Nat
    OBVIOUS
  <2>2. s \in [1 .. y - x -> Int]
    BY DEF Run
  <2> QED
    BY <2>1, <2>2 DEF Run
<1>2. t \in Seq(Int) /\ Len(t) = z - y /\ \A k \in 1 .. z - y : t[k] = y + k - 1
  <2>1. z - y \in Nat
    OBVIOUS
  <2>2. t \in [1 .. z - y -> Int]
    BY DEF Run
  <2> QED
    BY <2>1, <2>2 DEF Run
<1>3. Run(x, z) \in Seq(Int) /\ Len(Run(x, z)) = z - x
        /\ \A k \in 1 .. z - x : Run(x, z)[k] = x + k - 1
  <2>1. z - x \in Nat
    OBVIOUS
  <2>2. Run(x, z) \in [1 .. z - x -> Int]
    BY DEF Run
  <2> QED
    BY <2>1, <2>2 DEF Run
<1> HIDE DEF s, t
<1>4. /\ s \o t \in Seq(Int) /\ Len(s \o t) = z - x
      /\ \A k \in 1 .. z - x : (s \o t)[k] = IF k <= y - x THEN s[k] ELSE t[k - (y - x)]
  <2>1. Len(s) + Len(t) = z - x
    BY <1>1, <1>2
  <2>2. /\ s \o t \in Seq(Int) /\ Len(s \o t) = Len(s) + Len(t)
        /\ \A k \in 1 .. Len(s) + Len(t) :
             (s \o t)[k] = IF k <= Len(s) THEN s[k] ELSE t[k - Len(s)]
    BY <1>1, <1>2, ConcatProperties
  <2> QED
    BY <1>1, <2>1, <2>2
<1>5. \A k \in 1 .. z - x : (s \o t)[k] = x + k - 1
  <2> SUFFICES ASSUME NEW k \in 1 .. z - x PROVE (s \o t)[k] = x + k - 1
    OBVIOUS
  <2>1. CASE k <= y - x
    <3>1. k \in 1 .. y - x
      BY <2>1
    <3> QED
      BY <1>1, <1>4, <2>1, <3>1
  <2>2. CASE ~ (k <= y - x)
    <3>1. k - (y - x) \in 1 .. z - y
      BY <2>2
    <3>2. t[k - (y - x)] = y + (k - (y - x)) - 1
      BY <1>2, <3>1
    <3> QED
      BY <1>4, <2>2, <3>2
  <2> QED
    BY <2>1, <2>2
<1>6. Len(s \o t) = Len(Run(x, z)) /\ \A k \in 1 .. Len(s \o t) : (s \o t)[k] = Run(x, z)[k]
  BY <1>3, <1>4, <1>5
<1>7. s \o t = Run(x, z)
  BY <1>3, <1>4, <1>6, SeqEqual
<1> QED
  BY <1>7 DEF s, t

(* A run that ends where it begins, or before, is empty. *)
LEMMA RunEmpty ==
  ASSUME NEW x \in Int, NEW y \in Int, y <= x
  PROVE  Run(x, y) = << >>
<1>1. 1 .. y - x = {}
  OBVIOUS
<1> QED
  BY <1>1 DEF Run

\* what is put behind a run up to y is what goes from there up to z
GrowsBy(a, b, y, z) ==
  Run(a, P3!Low(b, y)) \o Run(P3!High(a, y), P3!Low(b, z)) = Run(a, P3!Low(b, z))

(* A run within a cut grows to the next cut by what lies between them. *)
LEMMA RunGrows ==
  ASSUME NEW a \in Int, NEW b \in Int, NEW y \in Int, NEW z \in Int, y <= z
  PROVE  GrowsBy(a, b, y, z)
<1> DEFINE l == P3!Low(b, y)
           h == P3!High(a, y)
           e == P3!Low(b, z)
<1>1. l = (IF b < y THEN b ELSE y) /\ h = (IF a < y THEN y ELSE a) /\ e = (IF b < z THEN b ELSE z)
  BY DEF P3!Low, P3!High
<1> HIDE DEF l, h, e
<1>2. l \in Int /\ h \in Int /\ e \in Int /\ a <= h /\ l <= e
  BY <1>1
<1>3. CASE y <= a
  <2>1. h = a /\ l <= a
    BY <1>1, <1>3
  <2>2. Run(a, l) = << >>
    BY <1>2, <2>1, RunEmpty
  <2>3. Run(a, e) \in Seq(Int)
    <3>1. CASE e <= a
      <4>1. Run(a, e) = << >>
        BY <1>2, <3>1, RunEmpty
      <4> QED
        BY <4>1
    <3>2. CASE a < e
      <4>1. e - a \in Nat
        BY <1>2, <3>2
      <4> QED
        BY <1>2, <4>1 DEF Run
    <3> QED
      BY <1>2, <3>1, <3>2
  <2>4. << >> \o Run(a, e) = Run(a, e)
    BY <2>3
  <2> QED
    BY <2>1, <2>2, <2>4 DEF GrowsBy, l, h, e
<1>4. CASE a < y /\ b <= y
  <2>1. h = y /\ l = b /\ e = b
    BY <1>1, <1>4
  <2>2. Run(h, e) = << >>
    BY <1>2, <1>4, <2>1, RunEmpty
  <2>3. Run(a, b) \in Seq(Int)
    <3>1. CASE b <= a
      <4>1. Run(a, b) = << >>
        BY <3>1, RunEmpty
      <4> QED
        BY <4>1
    <3>2. CASE a < b
      <4>1. b - a \in Nat
        BY <3>2
      <4> QED
        BY <4>1 DEF Run
    <3> QED
      BY <3>1, <3>2
  <2>4. Run(a, b) \o << >> = Run(a, b)
    BY <2>3
  <2>5. Run(a, l) \o Run(h, e) = Run(a, e)
    BY <2>1, <2>2, <2>4
  <2> QED
    BY <2>5 DEF GrowsBy, l, h, e
<1>5. CASE a < y /\ y < b
  <2>1. h = y /\ l = y /\ a <= y /\ y <= e
    BY <1>1, <1>5
  <2>2. Run(a, y) \o Run(y, e) = Run(a, e)
    BY <1>2, <2>1, RunsJoin
  <2> QED
    BY <2>1, <2>2 DEF GrowsBy, l, h, e
<1> QED
  BY <1>3, <1>4, <1>5 DEF GrowsBy

(* A flattened sequence is built up from the front. *)
AllFlat(seqs, g) ==
  g = [i \in 1 .. Len(seqs) |-> IF i = 1 THEN seqs[i] ELSE g[i - 1] \o seqs[i]]

(* The cuts c of n parts do not fall and enclose the run from a to b. *)
Enclose(c, n, a, b) ==
  /\ \A i \in 0 .. n : c[i] \in Int
  /\ \A i \in 1 .. n : c[i - 1] <= c[i]
  /\ c[0] <= a /\ b <= c[n]
PartsOf(c, n, a, b) == [i \in 1 .. n |-> Run(P3!High(a, c[i - 1]), P3!Low(b, c[i]))]

(* The parts that the ranges between the cuts have of a run are, behind each *)
(* other, that run.                                                          *)
LEMMA RunsFlatten ==
  ASSUME NEW c, NEW n \in Nat \ {0}, NEW a \in Int, NEW b \in Int, Enclose(c, n, a, b)
  PROVE  P3!FlattenSeq(PartsOf(c, n, a, b)) = Run(a, b)
<1> DEFINE seqs == [i \in 1 .. n |-> Run(P3!High(a, c[i - 1]), P3!Low(b, c[i]))]
           f == [i \in 1 .. n |-> Run(a, P3!Low(b, c[i]))]
           e == CHOOSE g : AllFlat(seqs, g)
<1> USE DEF Enclose
<1>1. seqs \in Seq(UNION { {seqs[i]} : i \in 1 .. n }) /\ Len(seqs) = n
  OBVIOUS
<1>2. \A i \in 1 .. n : f[i] = IF i = 1 THEN seqs[i] ELSE f[i - 1] \o seqs[i]
  <2> SUFFICES ASSUME NEW i \in 1 .. n
               PROVE  f[i] = IF i = 1 THEN seqs[i] ELSE f[i - 1] \o seqs[i]
    OBVIOUS
  <2>1. f[i] = Run(a, P3!Low(b, c[i])) /\ seqs[i] = Run(P3!High(a, c[i - 1]), P3!Low(b, c[i]))
    OBVIOUS
  <2>2. CASE i = 1
    <3>1. P3!High(a, c[0]) = a
      <4>1. c[0] \in Int
        OBVIOUS
      <4> QED
        BY <4>1 DEF P3!High
    <3>2. i - 1 = 0
      BY <2>2
    <3> QED
      BY <2>1, <2>2, <3>1, <3>2
  <2>3. CASE i # 1
    <3>1. i - 1 \in 1 .. n /\ i \in 0 .. n
      BY <2>3
    <3>2. f[i - 1] = Run(a, P3!Low(b, c[i - 1]))
      BY <3>1
    <3>3. c[i - 1] \in Int /\ c[i] \in Int /\ c[i - 1] <= c[i]
      BY <3>1
    <3>4. Run(a, P3!Low(b, c[i - 1])) \o Run(P3!High(a, c[i - 1]), P3!Low(b, c[i]))
            = Run(a, P3!Low(b, c[i]))
      <4> DEFINE x == c[i - 1]
                 y == c[i]
      <4>1. x \in Int /\ y \in Int /\ x <= y
        BY <3>3
      <4> HIDE DEF x, y, Enclose
      <4>2. GrowsBy(a, b, x, y)
        BY <4>1, RunGrows
      <4> QED
        BY <4>2 DEF x, y, GrowsBy
    <3>5. f[i - 1] \o seqs[i] = Run(a, P3!Low(b, c[i]))
      BY <2>1, <3>2, <3>4
    <3> QED
      BY <2>1, <2>3, <3>5
  <2> QED
    BY <2>2, <2>3
<1>3. f = [i \in 1 .. Len(seqs) |-> IF i = 1 THEN seqs[i] ELSE f[i - 1] \o seqs[i]]
  BY <1>1, <1>2
<1>4. AllFlat(seqs, f)
  BY <1>3 DEF AllFlat
<1>5. AllFlat(seqs, e)
  BY <1>4
<1> HIDE DEF e
<1>6. \A i \in 1 .. n : e[i] = IF i = 1 THEN seqs[i] ELSE e[i - 1] \o seqs[i]
  BY <1>1, <1>5 DEF AllFlat
<1> HIDE DEF f
<1>7. \A i \in 1 .. n : e[i] = f[i]
  <2> DEFINE S == { m \in Nat : m + 1 \in 1 .. n => e[m + 1] = f[m + 1] }
  <2>1. 0 \in S
    <3>1. e[1] = f[1]
      BY <1>2, <1>6
    <3> QED
      BY <3>1
  <2>2. ASSUME NEW m \in Nat, m \in S PROVE m + 1 \in S
    <3> SUFFICES ASSUME (m + 1) + 1 \in 1 .. n PROVE e[(m + 1) + 1] = f[(m + 1) + 1]
      OBVIOUS
    <3>1. m + 1 \in 1 .. n /\ (m + 1) + 1 # 1 /\ ((m + 1) + 1) - 1 = m + 1
      OBVIOUS
    <3>2. e[m + 1] = f[m + 1]
      BY <2>2, <3>1
    <3> QED
      BY <1>2, <1>6, <3>1, <3>2
  <2> HIDE DEF S
  <2>3. \A m \in Nat : m \in S
    BY <2>1, <2>2, NatSetInduction, Zenon
  <2> SUFFICES ASSUME NEW i \in 1 .. n PROVE e[i] = f[i]
    OBVIOUS
  <2>4. i - 1 \in Nat /\ (i - 1) + 1 = i
    OBVIOUS
  <2>5. i - 1 \in S
    BY <2>3, <2>4
  <2> QED
    BY <2>4, <2>5 DEF S
<1>8. P3!FlattenSeq(seqs) = e[Len(seqs)]
  <2>1. Len(seqs) # 0
    BY <1>1
  <2> QED
    BY <2>1 DEF P3!FlattenSeq, AllFlat, e
<1>9. f[n] = Run(a, b)
  <2>1. n \in 1 .. n /\ c[n] \in Int
    OBVIOUS
  <2>2. P3!Low(b, c[n]) = b
    BY <2>1 DEF P3!Low
  <2> QED
    BY <2>1, <2>2 DEF f
<1>10. n \in 1 .. n
  OBVIOUS
<1>11. PartsOf(c, n, a, b) = seqs
  BY DEF PartsOf
<1> QED
  BY <1>1, <1>7, <1>8, <1>9, <1>10, <1>11

(***************************************************************************)
(* The cuts.                                                               *)
(***************************************************************************)
(* A set of quadrants that is not empty has a first and a last one. *)
LEMMA FirstAndLast ==
  ASSUME NEW m \in Int, NEW S \in SUBSET (0 .. m), S # {}
  PROVE  /\ P3!Min(S) \in S /\ \A x \in S : P3!Min(S) <= x
         /\ P3!Max(S) \in S /\ \A x \in S : x <= P3!Max(S)
<1> DEFINE T == { m - x : x \in S }
<1>1. \E x \in S : \A y \in S : x <= y
  <2>1. S \in SUBSET Nat
    OBVIOUS
  <2> QED
    BY <2>1, LeastElement
<1>2. \E x \in S : \A y \in S : y <= x
  <2>1. T \in SUBSET Nat /\ T # {}
    <3>1. \A x \in S : m - x \in Nat
      OBVIOUS
    <3> QED
      BY <3>1
  <2>2. PICK t \in T : \A y \in T : t <= y
    BY <2>1, LeastElement
  <2>3. PICK x \in S : t = m - x
    OBVIOUS
  <2>4. \A y \in S : t <= m - y
    BY <2>2
  <2>5. x \in Int /\ \A y \in S : y \in Int
    OBVIOUS
  <2> QED
    BY <2>3, <2>4, <2>5
<1>3. P3!Min(S) \in S /\ \A x \in S : P3!Min(S) <= x
  BY <1>1 DEF P3!Min
<1>4. P3!Max(S) \in S /\ \A x \in S : x <= P3!Max(S)
  <2>1. \A x, y \in S : x <= y <=> y >= x
    OBVIOUS
  <2>2. \E x \in S : \A y \in S : x >= y
    BY <1>2, <2>1
  <2>3. P3!Max(S) \in S /\ \A x \in S : P3!Max(S) >= x
    BY <2>2 DEF P3!Max
  <2> QED
    BY <2>1, <2>3
<1> QED
  BY <1>3, <1>4

(* The even cuts begin with the first quadrant and end behind the last. *)
LEMMA EvenBounds ==
  ASSUME NumProcs \in Nat \ {0}, NEW n \in Nat
  PROVE  /\ P3!Glocut(n, 0) = 0 /\ P3!Glocut(n, NumProcs) = n
         /\ \A p \in 0 .. NumProcs : P3!Glocut(n, p) \in 0 .. n
<1>1. \A x \in Nat : x \div NumProcs \in Nat /\ NumProcs * (x \div NumProcs) <= x
        /\ x < NumProcs * (x \div NumProcs) + NumProcs
  OBVIOUS
<1>2. n * 0 = 0 /\ n * NumProcs \in Nat
  OBVIOUS
<1>3. P3!Glocut(n, 0) = 0
  BY <1>2 DEF P3!Glocut
<1>4. P3!Glocut(n, NumProcs) = n
  <2> DEFINE d == (n * NumProcs) \div NumProcs
  <2>1. d \in Nat /\ NumProcs * d <= n * NumProcs /\ n * NumProcs < NumProcs * d + NumProcs
    BY <1>1, <1>2
  <2> HIDE DEF d
  <2>2. d <= n
    <3> SUFFICES ASSUME d >= n + 1 PROVE FALSE
      BY <2>1
    <3>1. NumProcs * d >= NumProcs * (n + 1)
      BY <2>1
    <3> QED
      BY <2>1, <3>1
  <2>3. n <= d
    <3> SUFFICES ASSUME n >= d + 1 PROVE FALSE
      BY <2>1
    <3>1. NumProcs * n >= NumProcs * (d + 1)
      BY <2>1
    <3> QED
      BY <2>1, <3>1
  <2>4. d = n
    BY <2>1, <2>2, <2>3
  <2> QED
    BY <2>4 DEF d, P3!Glocut
<1>5. ASSUME NEW p \in 0 .. NumProcs PROVE P3!Glocut(n, p) \in 0 .. n
  <2> DEFINE d == (n * p) \div NumProcs
  <2>1. n * p \in Nat /\ n * p <= n * NumProcs
    OBVIOUS
  <2>2. d \in Nat /\ NumProcs * d <= n * p
    BY <1>1, <2>1
  <2> HIDE DEF d
  <2>3. d <= n
    <3> SUFFICES ASSUME d >= n + 1 PROVE FALSE
      BY <2>2
    <3>1. NumProcs * d >= NumProcs * (n + 1)
      BY <2>2
    <3> QED
      BY <2>1, <2>2, <3>1
  <2>4. d \in 0 .. n
    BY <2>2, <2>3
  <2> QED
    BY <2>4 DEF d, P3!Glocut
<1> QED
  BY <1>3, <1>4, <1>5

(* Among processes whose shares are bounded there is one with the most. *)
LEMMA LargestExists ==
  ASSUME NumProcs \in Nat \ {0}, NEW share, NEW S \in SUBSET P3!Procs, S # {}, NEW m \in Int,
         \A i \in S : share[i] \in Int /\ share[i] <= m
  PROVE  LET i == P3!Largest(share, S)
         IN  i \in S /\ \A j \in S : share[j] < share[i] \/ (share[j] = share[i] /\ i <= j)
<1> DEFINE T == { m - share[i] : i \in S }
<1>1. T \in SUBSET Nat /\ T # {}
  OBVIOUS
<1>2. PICK t \in T : \A y \in T : t <= y
  BY <1>1, LeastElement
<1>3. PICK k \in S : t = m - share[k]
  OBVIOUS
<1>4. \A j \in S : share[j] <= share[k]
  <2> SUFFICES ASSUME NEW j \in S PROVE share[j] <= share[k]
    OBVIOUS
  <2>1. t <= m - share[j]
    BY <1>2
  <2> QED
    BY <1>3, <2>1
<1> DEFINE U == { i \in S : share[i] = share[k] }
<1>5. U \in SUBSET Nat /\ U # {}
  <2>1. k \in U /\ S \subseteq Nat
    BY DEF P3!Procs
  <2> QED
    BY <2>1
<1>6. PICK i \in U : \A j \in U : i <= j
  BY <1>5, LeastElement
<1>7. i \in S /\ share[i] = share[k]
  OBVIOUS
<1>8. \A j \in S : share[j] < share[i] \/ (share[j] = share[i] /\ i <= j)
  <2> SUFFICES ASSUME NEW j \in S PROVE share[j] < share[i] \/ (share[j] = share[i] /\ i <= j)
    OBVIOUS
  <2>1. CASE share[j] = share[k]
    <3>1. j \in U
      BY <2>1
    <3> QED
      BY <1>6, <1>7, <2>1, <3>1
  <2>2. CASE share[j] # share[k]
    <3>1. share[j] < share[k]
      BY <1>4, <2>2
    <3> QED
      BY <1>7, <3>1
  <2> QED
    BY <2>1, <2>2
<1> QED
  BY <1>7, <1>8 DEF P3!Largest

\* What the processes know of the source.
SourceKnown ==
  /\ P3!global_num_quads \in Nat
  /\ relatives = [id \in 0 .. P3!global_num_quads |-> P3!Relatives(id)]
CutsType == [0 .. NumProcs -> 0 .. P3!global_num_quads]

(* At the first cut there is nobody in front who could take over. *)
LEMMA RankAtStart ==
  ASSUME NumProcs \in Nat \ {0}, SourceKnown, NEW off \in CutsType,
         NEW low \in Int, NEW high \in Int
  PROVE  P3!RankWithMaxQuads(off, low, high, 0) \in P3!Procs
<1> DEFINE up    == [i \in P3!Procs |-> P3!UpShare(off, high, i)]
           found == [i \in P3!Procs |-> IF i < 0 THEN P3!DownShare(off, low, i) ELSE up[i]]
           down  == P3!Largest(found, P3!DownFrom(off, low, 0) \union {0})
           T     == P3!UpFrom(off, high, down) \union {down}
           best  == [up EXCEPT ![down] = found[down]]
<1>1. P3!RankWithMaxQuads(off, low, high, 0) = P3!Largest(best, T)
  BY DEF P3!RankWithMaxQuads
<1>2. 0 \in P3!Procs /\ P3!Procs \subseteq Nat
  BY DEF P3!Procs
<1>3. \A i \in P3!Procs : up[i] \in Int /\ up[i] <= high + 1
  <2> SUFFICES ASSUME NEW i \in P3!Procs PROVE up[i] \in Int /\ up[i] <= high + 1
    OBVIOUS
  <2>1. i \in 0 .. NumProcs /\ i + 1 \in 0 .. NumProcs
    BY DEF P3!Procs
  <2>2. off[i] \in Nat /\ off[i + 1] \in Nat
    BY <2>1 DEF CutsType, SourceKnown
  <2>3. up[i] = P3!Low(high, off[i + 1] - 1) - off[i] + 1
    BY DEF P3!UpShare
  <2> QED
    BY <2>2, <2>3 DEF P3!Low
<1>4. found = up
  BY <1>2
<1>5. P3!DownFrom(off, low, 0) = {}
  BY DEF P3!DownFrom
<1> HIDE DEF up, found
<1>6. down = 0
  <2>1. P3!DownFrom(off, low, 0) \union {0} = {0}
    BY <1>5
  <2>2. P3!Largest(found, {0}) \in {0}
    <3>1. {0} \in SUBSET P3!Procs /\ {0} # {}
      BY <1>2
    <3>2. \A i \in {0} : found[i] \in Int /\ found[i] <= high + 1
      BY <1>2, <1>3, <1>4
    <3>3. high + 1 \in Int
      OBVIOUS
    <3> QED
      BY <3>1, <3>2, <3>3, LargestExists
  <2> QED
    BY <2>1, <2>2
<1> HIDE DEF down
<1>7. T \in SUBSET P3!Procs /\ T # {}
  BY <1>2, <1>6 DEF P3!UpFrom, P3!Procs
<1>8. \A i \in T : best[i] \in Int /\ best[i] <= high + 1
  <2>1. \A i \in P3!Procs : best[i] = up[i]
    BY <1>2, <1>4, <1>6 DEF up
  <2> QED
    BY <1>3, <1>7, <2>1
<1>9. high + 1 \in Int
  OBVIOUS
<1> HIDE DEF best, T
<1>10. P3!Largest(best, T) \in T
  BY <1>7, <1>8, <1>9, LargestExists
<1> QED
  BY <1>1, <1>7, <1>10

(* The quadrants with the same parent lie in the forest. *)
LEMMA RelativesInside ==
  ASSUME SourceKnown, NEW id \in 0 .. P3!global_num_quads, CHILDREN \in Nat \ {0}
  PROVE  /\ relatives[id] \in SUBSET (0 .. P3!global_num_quads - 1)
         /\ \A i \in relatives[id] : i <= id + (CHILDREN - 1)
<1>1. relatives[id] = P3!Relatives(id)
  BY DEF SourceKnown
<1>2. \A i \in P3!Relatives(id) :
        i \in P3!High(id - (CHILDREN - 1), 0)
              .. P3!Low(id + (CHILDREN - 1), P3!global_num_quads - 1)
  BY DEF P3!Relatives
<1> DEFINE h == P3!High(id - (CHILDREN - 1), 0)
           l == P3!Low(id + (CHILDREN - 1), P3!global_num_quads - 1)
<1>3. h \in Int /\ 0 <= h /\ l \in Int /\ l <= P3!global_num_quads - 1 /\ l <= id + (CHILDREN - 1)
  BY DEF P3!High, P3!Low, SourceKnown
<1> HIDE DEF h, l
<1>4. \A i \in P3!Relatives(id) : i \in h .. l
  BY <1>2 DEF h, l
<1>5. \A i \in P3!Relatives(id) :
        i \in 0 .. P3!global_num_quads - 1 /\ i <= id + (CHILDREN - 1)
  BY <1>3, <1>4 DEF SourceKnown
<1> QED
  BY <1>1, <1>5

(* A corrected cut lies in the forest; the first and the last one do not move. *)
LEMMA CorrectedCuts ==
  ASSUME NumProcs \in Nat \ {0}, CHILDREN \in Nat \ {0}, SourceKnown, NEW off \in CutsType
  PROVE  /\ \A r \in 0 .. NumProcs : P3!CorrectedCut(off, r) \in 0 .. P3!global_num_quads
         /\ P3!CorrectedCut(off, NumProcs) = off[NumProcs]
         /\ off[0] = 0 => P3!CorrectedCut(off, 0) = 0
<1>1. P3!CorrectedCut(off, NumProcs) = off[NumProcs]
  BY DEF P3!CorrectedCut
<1>2. ASSUME NEW r \in 0 .. NumProcs
      PROVE  P3!CorrectedCut(off, r) \in 0 .. P3!global_num_quads
  <2> DEFINE near == relatives[off[r]]
  <2>1. off[r] \in 0 .. P3!global_num_quads
    BY DEF CutsType
  <2>2. near \in SUBSET (0 .. P3!global_num_quads - 1)
    BY <2>1, RelativesInside
  <2>3. \/ P3!CorrectedCut(off, r) = off[r]
        \/ near # {} /\ P3!CorrectedCut(off, r) \in { P3!Max(near) + 1, P3!Min(near) }
    BY DEF P3!CorrectedCut
  <2> HIDE DEF near
  <2>4. CASE P3!CorrectedCut(off, r) = off[r]
    BY <2>1, <2>4
  <2>5. CASE near # {} /\ P3!CorrectedCut(off, r) \in { P3!Max(near) + 1, P3!Min(near) }
    <3>1. P3!global_num_quads - 1 \in Int
      BY DEF SourceKnown
    <3>2. P3!Max(near) \in near /\ P3!Min(near) \in near
      BY <2>2, <2>5, <3>1, FirstAndLast
    <3>3. \A x \in near : x \in 0 .. P3!global_num_quads /\ x + 1 \in 0 .. P3!global_num_quads
      BY <2>2 DEF SourceKnown
    <3> QED
      BY <2>5, <3>2, <3>3
  <2> QED
    BY <2>3, <2>4, <2>5
<1>3. ASSUME off[0] = 0 PROVE P3!CorrectedCut(off, 0) = 0
  <2> DEFINE near == relatives[off[0]]
  <2>1. CASE near = {} \/ P3!Max(near) - P3!Min(near) + 1 # CHILDREN
    BY <1>3, <2>1 DEF P3!CorrectedCut
  <2>2. CASE near # {} /\ P3!Max(near) - P3!Min(near) + 1 = CHILDREN
    <3> DEFINE rank == P3!RankWithMaxQuads(off, P3!Min(near), P3!Max(near), 0)
    <3>1. 0 \in 0 .. P3!global_num_quads /\ P3!global_num_quads - 1 \in Int
      BY DEF SourceKnown
    <3>2. /\ near \in SUBSET (0 .. P3!global_num_quads - 1)
          /\ \A i \in near : i <= 0 + (CHILDREN - 1)
      BY <1>3, <3>1, RelativesInside
    <3>3. P3!CorrectedCut(off, 0) \in { off[0], IF rank < 0 THEN P3!Max(near) + 1 ELSE P3!Min(near) }
      BY DEF P3!CorrectedCut
    <3> HIDE DEF near
    <3>4. P3!Max(near) \in near /\ P3!Min(near) \in near
      BY <2>2, <3>1, <3>2, FirstAndLast
    <3>5. P3!Max(near) \in Int /\ P3!Min(near) \in Int /\ 0 <= P3!Min(near)
            /\ P3!Max(near) <= CHILDREN - 1
      <4>1. \A x \in near : x \in Int /\ 0 <= x /\ x <= CHILDREN - 1
        BY <3>2
      <4> QED
        BY <3>4, <4>1
    <3>6. P3!Min(near) = 0
      BY <2>2, <3>5
    <3>7. rank \in P3!Procs
      BY <3>5, RankAtStart
    <3>8. ~ (rank < 0)
      BY <3>7 DEF P3!Procs
    <3> QED
      BY <1>3, <3>3, <3>6, <3>8
  <2> QED
    BY <2>1, <2>2
<1> QED
  BY <1>1, <1>2, <1>3

(***************************************************************************)
(* The invariant: without weights every process has the same cuts, with    *)
(* weights it has those that are in the shared window.                     *)
(***************************************************************************)
EvenOffsets == [i \in 0 .. NumProcs |-> P3!Glocut(P3!global_num_quads, i)]
NewOffsets  == IF input.family THEN [r \in 0 .. NumProcs |-> P3!CorrectedCut(EvenOffsets, r)]
               ELSE EvenOffsets

Taken      == { "wait", "barrier", "done" }
Published  == { "trees", "take" } \union Taken
Corrected  == { "publish" } \union Published
Weighed    == { "correct" } \union Corrected
CutPlaces  == { "start", "weigh", "copy" } \union Weighed

CutsTypeOK ==
  /\ input \in Cases
  /\ SourceKnown
  /\ step \in [P3!Procs -> CutPlaces]
  /\ goffset \in CutsType
  /\ loc_offsets \in [P3!Procs -> CutsType]
  /\ copied \in [P3!Procs -> Nat]
  /\ quads = [p \in P3!Procs |-> quads[p]]
EvenCutsInv ==
  ~ P3!Weighted => \A p \in P3!Procs :
    /\ step[p] \notin { "weigh", "copy" }
    /\ step[p] = "correct" => loc_offsets[p] = EvenOffsets
    /\ step[p] \in Corrected => loc_offsets[p] = NewOffsets
WeighedCutsInv ==
  P3!Weighted =>
    /\ \A p \in P3!Procs :
         /\ copied[p] > 0 \/ step[p] \in Weighed => P3!CutsWritten
         /\ \A i \in P3!Procs : i < copied[p] => loc_offsets[p][i] = goffset[i]
         /\ copied[p] > 0 => loc_offsets[p][NumProcs] = P3!global_num_quads
         /\ step[p] = "copy" => copied[p] < NumProcs
         /\ step[p] \in Weighed => copied[p] = NumProcs
    /\ step[0] \notin { "start", "weigh" } => goffset[0] = 0
PublishedInv ==
  /\ \A p \in P3!Procs :
       /\ step[p] \in Published => goffset[p] = loc_offsets[p][p]
       /\ step[p] \in Taken => quads[p] = Run(loc_offsets[p][p], loc_offsets[p][p + 1])
  /\ step[0] \in Published => goffset[NumProcs] = P3!global_num_quads
CutsInv == CutsTypeOK /\ EvenCutsInv /\ WeighedCutsInv /\ PublishedInv

(* What is asked for does not change. *)
LEMMA RequestStays ==
  ASSUME UNCHANGED << input, relatives >>
  PROVE  /\ P3!global_num_quads' = P3!global_num_quads /\ CutsType' = CutsType
         /\ SourceKnown <=> SourceKnown'
         /\ EvenOffsets' = EvenOffsets /\ NewOffsets' = NewOffsets
         /\ P3!Weighted <=> P3!Weighted'
<1>1. P3!global_num_quads' = P3!global_num_quads
  BY DEF P3!global_num_quads
<1>2. CutsType' = CutsType /\ EvenOffsets' = EvenOffsets /\ (P3!Weighted <=> P3!Weighted')
  BY <1>1 DEF CutsType, EvenOffsets, P3!Weighted
<1>3. \A id : P3!LeafAt(id)' = P3!LeafAt(id)
  BY <1>1 DEF P3!LeafAt
<1>4. \A id : P3!Relatives(id)' = P3!Relatives(id)
  BY <1>1, <1>3 DEF P3!Relatives
<1>5. SourceKnown <=> SourceKnown'
  BY <1>1, <1>4 DEF SourceKnown
<1>6. \A off, r : P3!CorrectedCut(off, r)' = P3!CorrectedCut(off, r)
  BY <1>3 DEF P3!CorrectedCut
<1>7. NewOffsets' = NewOffsets
  BY <1>2, <1>6 DEF NewOffsets
<1> QED
  BY <1>1, <1>2, <1>5, <1>7

(* The cuts that all processes work out. *)
LEMMA NewCuts ==
  ASSUME NumProcs \in Nat \ {0}, CHILDREN \in Nat \ {0}, SourceKnown, input.family \in BOOLEAN
  PROVE  /\ EvenOffsets \in CutsType /\ NewOffsets \in CutsType
         /\ NewOffsets[0] = 0 /\ NewOffsets[NumProcs] = P3!global_num_quads
<1>1. P3!global_num_quads \in Nat
  BY DEF SourceKnown
<1>2. /\ \A p \in 0 .. NumProcs : P3!Glocut(P3!global_num_quads, p) \in 0 .. P3!global_num_quads
      /\ P3!Glocut(P3!global_num_quads, 0) = 0
      /\ P3!Glocut(P3!global_num_quads, NumProcs) = P3!global_num_quads
  BY <1>1, EvenBounds
<1>3. 0 \in 0 .. NumProcs /\ NumProcs \in 0 .. NumProcs
  OBVIOUS
<1>4. /\ EvenOffsets \in CutsType /\ EvenOffsets[0] = 0
      /\ EvenOffsets[NumProcs] = P3!global_num_quads
  BY <1>2, <1>3 DEF EvenOffsets, CutsType
<1>5. CASE ~ input.family
  BY <1>4, <1>5 DEF NewOffsets
<1>6. CASE input.family
  <2>1. /\ \A r \in 0 .. NumProcs : P3!CorrectedCut(EvenOffsets, r) \in 0 .. P3!global_num_quads
        /\ P3!CorrectedCut(EvenOffsets, NumProcs) = P3!global_num_quads
        /\ P3!CorrectedCut(EvenOffsets, 0) = 0
    BY <1>4, CorrectedCuts
  <2>2. NewOffsets = [r \in 0 .. NumProcs |-> P3!CorrectedCut(EvenOffsets, r)]
    BY <1>6 DEF NewOffsets
  <2> QED
    BY <1>3, <1>4, <2>1, <2>2 DEF CutsType
<1> QED
  BY <1>5, <1>6

(* A forest as it is given to the partition. *)
LEMMA RequestIsSound ==
  ASSUME P3!SoundRequests, input \in Cases
  PROVE  LET n == P3!global_num_quads
         IN  /\ n \in Nat /\ input.family \in BOOLEAN /\ input.contiguous \in BOOLEAN
             /\ input.now \in [0 .. NumProcs -> 0 .. n]
             /\ input.now[0] = 0 /\ input.now[NumProcs] = n
             /\ \A p, q \in 0 .. NumProcs : p <= q => input.now[p] <= input.now[q]
             /\ P3!Weighted =>
                  /\ input.weights \in [0 .. n -> Nat] /\ input.weights[0] = 0
                  /\ \A i, j \in 0 .. n : i <= j => input.weights[i] <= input.weights[j]
                  /\ input.weights[input.now[1]] > 0 /\ ~ input.family
BY DEF P3!SoundRequests, P3!global_num_quads, P3!Weighted

(* A partition begins with cuts of which nothing is asked. *)
LEMMA CutsStart ==
  ASSUME P3!ProcsAssumption, P3!SoundRequests, P3!Init
  PROVE  CutsInv
<1>1. NumProcs \in Nat \ {0}
  BY DEF P3!ProcsAssumption
<1>2. input \in Cases /\ step = [p \in P3!Procs |-> "start"] /\ goffset = input.now
        /\ loc_offsets = [p \in P3!Procs |-> [i \in 0 .. NumProcs |-> 0]]
        /\ copied = [p \in P3!Procs |-> 0] /\ quads = [p \in P3!Procs |-> << >>]
        /\ relatives = [id \in 0 .. P3!global_num_quads |-> P3!Relatives(id)]
  BY DEF P3!Init
<1>3. P3!global_num_quads \in Nat /\ goffset \in [0 .. NumProcs -> 0 .. P3!global_num_quads]
  BY <1>2, RequestIsSound
<1>4. SourceKnown
  BY <1>2, <1>3 DEF SourceKnown
<1>5. CutsTypeOK
  <2>1. goffset \in CutsType
    BY <1>3 DEF CutsType
  <2>2. [i \in 0 .. NumProcs |-> 0] \in CutsType
    BY <1>3 DEF CutsType
  <2>3. loc_offsets \in [P3!Procs -> CutsType]
    BY <1>2, <2>2
  <2>4. step \in [P3!Procs -> CutPlaces] /\ copied \in [P3!Procs -> Nat]
          /\ quads = [p \in P3!Procs |-> quads[p]]
    BY <1>2 DEF CutPlaces
  <2> QED
    BY <1>2, <1>4, <2>1, <2>3, <2>4 DEF CutsTypeOK
<1>6. 0 \in P3!Procs
  BY <1>1 DEF P3!Procs
<1>7. \A p \in P3!Procs : step[p] = "start" /\ copied[p] = 0
  BY <1>2
<1>8. P3!Procs \subseteq Nat
  BY DEF P3!Procs
<1>9. EvenCutsInv
  BY <1>7 DEF EvenCutsInv, Corrected, Published, Taken
<1>10. WeighedCutsInv
  BY <1>1, <1>6, <1>7, <1>8 DEF WeighedCutsInv, Weighed, Corrected, Published, Taken
<1>11. PublishedInv
  BY <1>6, <1>7 DEF PublishedInv, Published, Taken
<1> QED
  BY <1>5, <1>9, <1>10, <1>11 DEF CutsInv

(***************************************************************************)
(* The steps.                                                              *)
(***************************************************************************)
(* Behind its publication a process changes only its quadrants and trees. *)
PlaceMove(p) ==
  /\ << step[p], step'[p] >> \in { << "trees", "take" >>, << "take", "wait" >>,
                                   << "wait", "barrier" >>, << "barrier", "done" >> }
  /\ step' = [step EXCEPT ![p] = step'[p]]
  /\ UNCHANGED << input, relatives, goffset, loc_offsets, copied >>
  /\ quads' = [q \in P3!Procs |-> quads'[q]]
  /\ \A q \in P3!Procs : q # p \/ step[p] # "take" => quads'[q] = quads[q]
  /\ step[p] = "take" => quads'[p] = Run(loc_offsets[p][p], loc_offsets[p][p + 1])

(* What a process does behind its publication keeps the cuts. *)
LEMMA PlaceMoves ==
  ASSUME P3!ProcsAssumption, CutsInv, NEW p \in P3!Procs, PlaceMove(p)
  PROVE  CutsInv'
<1> DEFINE to == step'[p]
<1>0. /\ << step[p], to >> \in { << "trees", "take" >>, << "take", "wait" >>,
                                 << "wait", "barrier" >>, << "barrier", "done" >> }
      /\ step' = [step EXCEPT ![p] = to]
      /\ UNCHANGED << input, relatives, goffset, loc_offsets, copied >>
      /\ quads' = [q \in P3!Procs |-> quads'[q]]
      /\ \A q \in P3!Procs : q # p \/ step[p] # "take" => quads'[q] = quads[q]
      /\ step[p] = "take" => quads'[p] = Run(loc_offsets[p][p], loc_offsets[p][p + 1])
  BY DEF PlaceMove
<1> HIDE DEF to
<1> USE <1>0
<1>1. CutsTypeOK /\ EvenCutsInv /\ WeighedCutsInv /\ PublishedInv
  BY DEF CutsInv
<1>2. /\ P3!global_num_quads' = P3!global_num_quads /\ CutsType' = CutsType
      /\ (SourceKnown <=> SourceKnown') /\ EvenOffsets' = EvenOffsets /\ NewOffsets' = NewOffsets
      /\ P3!Weighted <=> P3!Weighted'
  BY RequestStays
<1>3. step \in [P3!Procs -> CutPlaces]
  BY <1>1 DEF CutsTypeOK
<1>4. /\ step'[p] = to /\ \A q \in P3!Procs : q # p => step'[q] = step[q]
      /\ to \in CutPlaces
  BY <1>3 DEF CutPlaces, Weighed, Corrected, Published, Taken
<1>5. /\ step[p] \in Published /\ to \in Published /\ to \notin { "trees" }
      /\ to \in Taken <=> to # "take"
      /\ step[p] \in Taken <=> step[p] \notin { "trees", "take" }
  BY DEF Published, Taken
<1>6. /\ to = "take" <=> step[p] = "trees"
      /\ step[p] \in Weighed /\ step[p] \in Corrected /\ to \in Weighed /\ to \in Corrected
      /\ to \notin { "start", "weigh", "copy", "correct" }
      /\ step[p] \notin { "start", "weigh", "copy", "correct" }
  BY DEF Published, Taken, Corrected, Weighed
<1>7. CutsTypeOK'
  <2>1. step' \in [P3!Procs -> CutPlaces]
    BY <1>3, <1>4
  <2> QED
    BY <1>1, <1>2, <2>1 DEF CutsTypeOK
<1>8. EvenCutsInv'
  <2> SUFFICES ASSUME ~ P3!Weighted, NEW q \in P3!Procs
               PROVE  /\ step'[q] \notin { "weigh", "copy" }
                      /\ step'[q] = "correct" => loc_offsets'[q] = EvenOffsets
                      /\ step'[q] \in Corrected => loc_offsets'[q] = NewOffsets
    BY <1>2 DEF EvenCutsInv
  <2>1. /\ step[q] \notin { "weigh", "copy" }
        /\ step[q] = "correct" => loc_offsets[q] = EvenOffsets
        /\ step[q] \in Corrected => loc_offsets[q] = NewOffsets
    BY <1>1 DEF EvenCutsInv
  <2>2. CASE q # p
    BY <1>4, <2>1, <2>2
  <2>3. CASE q = p
    BY <1>4, <1>6, <2>1, <2>3
  <2> QED
    BY <2>2, <2>3
<1>9. WeighedCutsInv'
  <2>1. P3!CutsWritten => P3!CutsWritten'
    BY <1>4, <1>6 DEF P3!CutsWritten, P3!Past
  <2>2. \A q \in P3!Procs : /\ step'[q] \in Weighed <=> step[q] \in Weighed
                            /\ step'[q] = "copy" <=> step[q] = "copy"
    BY <1>4, <1>6
  <2>3. 0 \in P3!Procs
    BY DEF P3!Procs, P3!ProcsAssumption
  <2>4. step'[0] \in { "start", "weigh" } <=> step[0] \in { "start", "weigh" }
    BY <1>4, <1>6, <2>3
  <2> QED
    BY <1>1, <1>2, <2>1, <2>2, <2>4 DEF WeighedCutsInv
<1>10. PublishedInv'
  <2>1. \A q \in P3!Procs : step'[q] \in Published <=> step[q] \in Published
    BY <1>4, <1>5
  <2>2. 0 \in P3!Procs
    BY DEF P3!Procs, P3!ProcsAssumption
  <2>3. ASSUME NEW q \in P3!Procs, step'[q] \in Taken
        PROVE  quads'[q] = Run(loc_offsets[q][q], loc_offsets[q][q + 1])
    <3>1. CASE q = p /\ step[p] = "take"
      BY <3>1
    <3>2. CASE q = p /\ step[p] # "take"
      <4>1. step[p] \in Taken
        BY <1>4, <1>5, <1>6, <2>3, <3>2
      <4> QED
        BY <1>1, <3>2, <4>1 DEF PublishedInv
    <3>3. CASE q # p
      <4>1. step[q] \in Taken
        BY <1>4, <2>3, <3>3
      <4> QED
        BY <1>1, <3>3, <4>1 DEF PublishedInv
    <3> QED
      BY <3>1, <3>2, <3>3
  <2> QED
    BY <1>1, <1>2, <2>1, <2>2, <2>3 DEF PublishedInv
<1> QED
  BY <1>7, <1>8, <1>9, <1>10 DEF CutsInv

(* Without weights a process works out all cuts by itself. *)
LEMMA EvenCutsKeep ==
  ASSUME P3!ProcsAssumption, P3!SoundRequests, CHILDREN \in Nat \ {0}, CutsInv,
         NEW p \in P3!Procs, P3!EvenCuts(p)
  PROVE  CutsInv'
<1>1. CutsTypeOK /\ EvenCutsInv /\ WeighedCutsInv /\ PublishedInv
  BY DEF CutsInv
<1>2. /\ step[p] = "start" /\ ~ P3!Weighted
      /\ loc_offsets' = [loc_offsets EXCEPT ![p] = EvenOffsets]
      /\ step' = [step EXCEPT ![p] = "correct"]
      /\ UNCHANGED << input, relatives, goffset, gftree, copied, quads, trees >>
  BY DEF P3!EvenCuts, P3!Goto, EvenOffsets
<1>3. /\ P3!global_num_quads' = P3!global_num_quads /\ CutsType' = CutsType
      /\ (SourceKnown <=> SourceKnown') /\ EvenOffsets' = EvenOffsets /\ NewOffsets' = NewOffsets
      /\ P3!Weighted <=> P3!Weighted'
  BY <1>2, RequestStays
<1>4. EvenOffsets \in CutsType
  <2>1. input.family \in BOOLEAN
    BY <1>1, RequestIsSound DEF CutsTypeOK
  <2> QED
    BY <1>1, <2>1, NewCuts DEF CutsTypeOK, P3!ProcsAssumption
<1>5. /\ step \in [P3!Procs -> CutPlaces] /\ loc_offsets \in [P3!Procs -> CutsType]
      /\ "correct" \in CutPlaces
  BY <1>1 DEF CutsTypeOK, CutPlaces, Weighed
<1>6. /\ step'[p] = "correct" /\ loc_offsets'[p] = EvenOffsets
      /\ \A q \in P3!Procs : q # p => step'[q] = step[q] /\ loc_offsets'[q] = loc_offsets[q]
  BY <1>2, <1>5
<1>7. CutsTypeOK'
  <2>1. step' \in [P3!Procs -> CutPlaces] /\ loc_offsets' \in [P3!Procs -> CutsType]
    BY <1>2, <1>4, <1>5
  <2> QED
    BY <1>1, <1>2, <1>3, <2>1 DEF CutsTypeOK
<1>8. "correct" \notin Published /\ "correct" \notin Corrected /\ "correct" \notin Taken
  BY DEF Published, Corrected, Taken
<1>9. EvenCutsInv'
  <2> SUFFICES ASSUME ~ P3!Weighted, NEW q \in P3!Procs
               PROVE  /\ step'[q] \notin { "weigh", "copy" }
                      /\ step'[q] = "correct" => loc_offsets'[q] = EvenOffsets
                      /\ step'[q] \in Corrected => loc_offsets'[q] = NewOffsets
    BY <1>3 DEF EvenCutsInv
  <2>1. /\ step[q] \notin { "weigh", "copy" }
        /\ step[q] = "correct" => loc_offsets[q] = EvenOffsets
        /\ step[q] \in Corrected => loc_offsets[q] = NewOffsets
    BY <1>1 DEF EvenCutsInv
  <2>2. CASE q # p
    BY <1>6, <2>1, <2>2
  <2>3. CASE q = p
    BY <1>6, <1>8, <2>3
  <2> QED
    BY <2>2, <2>3
<1>10. WeighedCutsInv'
  BY <1>2, <1>3 DEF WeighedCutsInv
<1>11. PublishedInv'
  <2>1. 0 \in P3!Procs
    BY DEF P3!Procs, P3!ProcsAssumption
  <2> QED
    BY <1>1, <1>2, <1>3, <1>6, <1>8, <2>1 DEF PublishedInv
<1> QED
  BY <1>7, <1>9, <1>10, <1>11 DEF CutsInv

(* A process that enters the gather has written nothing. *)
LEMMA EnterGatherKeeps ==
  ASSUME P3!ProcsAssumption, CutsInv, NEW p \in P3!Procs, P3!EnterGather(p)
  PROVE  CutsInv'
<1>1. CutsTypeOK /\ EvenCutsInv /\ WeighedCutsInv /\ PublishedInv
  BY DEF CutsInv
<1>2. /\ step[p] = "start" /\ P3!Weighted /\ step' = [step EXCEPT ![p] = "weigh"]
      /\ UNCHANGED << input, relatives, goffset, gftree, loc_offsets, copied, quads, trees >>
  BY DEF P3!EnterGather, P3!Goto
<1>3. /\ P3!global_num_quads' = P3!global_num_quads /\ CutsType' = CutsType
      /\ (SourceKnown <=> SourceKnown') /\ EvenOffsets' = EvenOffsets /\ NewOffsets' = NewOffsets
      /\ P3!Weighted <=> P3!Weighted'
  BY <1>2, RequestStays
<1>4. /\ step \in [P3!Procs -> CutPlaces] /\ "weigh" \in CutPlaces
      /\ "weigh" \notin Weighed /\ "weigh" \notin Published /\ "weigh" \notin Taken
  BY <1>1 DEF CutsTypeOK, CutPlaces, Weighed, Corrected, Published, Taken
<1>5. step'[p] = "weigh" /\ \A q \in P3!Procs : q # p => step'[q] = step[q]
  BY <1>2, <1>4
<1>6. CutsTypeOK'
  <2>1. step' \in [P3!Procs -> CutPlaces]
    BY <1>2, <1>4
  <2> QED
    BY <1>1, <1>2, <1>3, <2>1 DEF CutsTypeOK
<1>7. EvenCutsInv'
  BY <1>2, <1>3 DEF EvenCutsInv
<1>8. 0 \in P3!Procs
  BY DEF P3!Procs, P3!ProcsAssumption
<1>9. WeighedCutsInv'
  <2>1. ~ P3!CutsWritten
    BY <1>2 DEF P3!CutsWritten, P3!Past
  <2>2. \A q \in P3!Procs : ~ (copied[q] > 0 \/ step[q] \in Weighed)
    BY <1>1, <1>2, <2>1 DEF WeighedCutsInv
  <2>3. \A q \in P3!Procs : ~ (copied'[q] > 0 \/ step'[q] \in Weighed)
    BY <1>2, <1>4, <1>5, <2>2
  <2>4. \A q \in P3!Procs : copied[q] = 0
    BY <1>1, <2>2 DEF CutsTypeOK
  <2>5. \A q \in P3!Procs : step'[q] = "copy" => step[q] = "copy"
    BY <1>5
  <2>6. step'[0] \notin { "start", "weigh" } => step[0] \notin { "start", "weigh" }
    BY <1>5, <1>8
  <2> QED
    BY <1>1, <1>2, <1>3, <2>3, <2>5, <2>6 DEF WeighedCutsInv
<1>10. PublishedInv'
  BY <1>1, <1>2, <1>3, <1>4, <1>5, <1>8 DEF PublishedInv
<1> QED
  BY <1>6, <1>7, <1>9, <1>10 DEF CutsInv

(* A process finds its cuts among its own quadrants, and the first cut is found *)
(* by process 0, at the first quadrant.                                         *)
LEMMA BordersFound ==
  ASSUME P3!ProcsAssumption, P3!SoundRequests, input \in Cases, P3!Weighted,
         NEW p \in P3!Procs
  PROVE  /\ \A i \in P3!OwnCuts(p) : P3!NewLeftBorder(p, i) \in 0 .. P3!global_num_quads
         /\ 0 \in P3!OwnCuts(p) => p = 0
         /\ 0 \in P3!OwnCuts(0) /\ P3!NewLeftBorder(0, 0) = 0
<1> DEFINE n == P3!global_num_quads
           w == input.weights
           now == input.now
<1>1. /\ n \in Nat /\ now \in [0 .. NumProcs -> 0 .. n] /\ now[0] = 0 /\ now[NumProcs] = n
      /\ \A q, r \in 0 .. NumProcs : q <= r => now[q] <= now[r]
      /\ w \in [0 .. n -> Nat] /\ w[0] = 0
      /\ \A i, j \in 0 .. n : i <= j => w[i] <= w[j]
      /\ w[now[1]] > 0
  BY RequestIsSound
<1>2. \A id : P3!WeightTo(id) = w[id]
  BY DEF P3!WeightTo
<1>3. /\ NumProcs \in Nat \ {0} /\ p \in 0 .. NumProcs /\ p + 1 \in 0 .. NumProcs
      /\ 0 \in P3!Procs /\ 0 \in 0 .. NumProcs /\ 1 \in 0 .. NumProcs
      /\ p # 0 => 1 <= p
  BY DEF P3!ProcsAssumption, P3!Procs
<1>4. n \in 0 .. n /\ 0 \in 0 .. n
  BY <1>1
<1>5. w[n] \in Nat
  BY <1>1, <1>4
<1>6. /\ P3!Glocut(w[n], 0) = 0
      /\ \A i \in 0 .. NumProcs : P3!Glocut(w[n], i) \in 0 .. w[n]
  BY <1>3, <1>5, EvenBounds
<1>7. \A r \in P3!Procs : P3!OwnCuts(r) =
        { i \in P3!Procs : w[now[r]] <= P3!Glocut(w[n], i) /\ P3!Glocut(w[n], i) < w[now[r + 1]] }
  BY <1>2 DEF P3!OwnCuts
<1>8. \A r \in P3!Procs, i \in P3!Procs : P3!NewLeftBorder(r, i) =
        P3!Min({ id \in now[r] .. now[r + 1] : w[id] >= P3!Glocut(w[n], i) })
  BY <1>2 DEF P3!NewLeftBorder
<1> HIDE DEF n, w, now
<1>9. ASSUME NEW r \in P3!Procs, NEW i \in P3!OwnCuts(r)
      PROVE  /\ P3!NewLeftBorder(r, i) \in now[r] .. now[r + 1]
             /\ \A id \in now[r] .. now[r + 1] :
                  w[id] >= P3!Glocut(w[n], i) => P3!NewLeftBorder(r, i) <= id
             /\ now[r] \in 0 .. n /\ now[r + 1] \in 0 .. n
  <2> DEFINE S == { id \in now[r] .. now[r + 1] : w[id] >= P3!Glocut(w[n], i) }
  <2>1. r \in 0 .. NumProcs /\ r + 1 \in 0 .. NumProcs /\ r <= r + 1
    BY <1>3 DEF P3!Procs
  <2>2. now[r] \in 0 .. n /\ now[r + 1] \in 0 .. n /\ now[r] <= now[r + 1]
    BY <1>1, <2>1
  <2>3. i \in P3!Procs /\ P3!Glocut(w[n], i) < w[now[r + 1]]
    BY <1>7
  <2>4. P3!Glocut(w[n], i) \in Nat /\ w[now[r + 1]] \in Nat
    BY <1>1, <1>3, <1>5, <1>6, <2>2, <2>3 DEF P3!Procs
  <2>5. now[r + 1] \in S
    BY <2>2, <2>3, <2>4
  <2>6. S \in SUBSET (0 .. n)
    <3>1. \A x \in now[r] .. now[r + 1] : x \in 0 .. n
      BY <1>1, <2>2
    <3> QED
      BY <3>1
  <2>7. P3!NewLeftBorder(r, i) = P3!Min(S)
    BY <1>8, <2>3
  <2> HIDE DEF S
  <2>8. P3!Min(S) \in S /\ \A x \in S : P3!Min(S) <= x
    <3>1. n \in Int /\ S # {}
      BY <1>1, <2>5
    <3> QED
      BY <2>6, <3>1, FirstAndLast
  <2> QED
    BY <2>2, <2>7, <2>8 DEF S
<1>10. \A i \in P3!OwnCuts(p) : P3!NewLeftBorder(p, i) \in 0 .. n
  <2> SUFFICES ASSUME NEW i \in P3!OwnCuts(p) PROVE P3!NewLeftBorder(p, i) \in 0 .. n
    OBVIOUS
  <2>1. P3!NewLeftBorder(p, i) \in now[p] .. now[p + 1] /\ now[p] \in 0 .. n /\ now[p + 1] \in 0 .. n
    BY <1>9
  <2> QED
    BY <1>1, <2>1
<1>11. ASSUME 0 \in P3!OwnCuts(p), p # 0 PROVE FALSE
  <2>1. now[1] \in 0 .. n /\ now[p] \in 0 .. n /\ now[1] <= now[p]
    BY <1>1, <1>3, <1>11
  <2>2. w[now[1]] \in Nat /\ w[now[p]] \in Nat /\ w[now[1]] <= w[now[p]]
    BY <1>1, <2>1
  <2>3. w[now[p]] <= 0
    BY <1>6, <1>7, <1>11
  <2> QED
    BY <1>1, <2>2, <2>3
<1>12. 0 \in P3!OwnCuts(0)
  <2>1. w[now[0]] <= 0 /\ 0 < w[now[0 + 1]]
    BY <1>1
  <2> QED
    BY <1>3, <1>6, <1>7, <2>1
<1>13. P3!NewLeftBorder(0, 0) = 0
  <2>1. /\ P3!NewLeftBorder(0, 0) \in now[0] .. now[0 + 1]
        /\ \A id \in now[0] .. now[0 + 1] : w[id] >= 0 => P3!NewLeftBorder(0, 0) <= id
        /\ now[0] \in 0 .. n /\ now[0 + 1] \in 0 .. n
    BY <1>3, <1>6, <1>9, <1>12
  <2>2. 0 \in now[0] .. now[0 + 1] /\ w[0] >= 0
    BY <1>1, <2>1
  <2>3. P3!NewLeftBorder(0, 0) <= 0 /\ P3!NewLeftBorder(0, 0) \in Nat
    BY <1>1, <2>1, <2>2
  <2> QED
    BY <2>3
<1> QED
  BY <1>10, <1>11, <1>12, <1>13 DEF n

(* A process writes its cuts before anybody copies one. *)
LEMMA WriteCutsKeep ==
  ASSUME P3!ProcsAssumption, P3!SoundRequests, CutsInv, NEW p \in P3!Procs, P3!WriteCuts(p)
  PROVE  CutsInv'
<1>1. CutsTypeOK /\ EvenCutsInv /\ WeighedCutsInv /\ PublishedInv
  BY DEF CutsInv
<1>2. /\ step[p] = "weigh" /\ step' = [step EXCEPT ![p] = "copy"]
      /\ \A q \in P3!Procs : step[q] # "start"
      /\ goffset' = [i \in 0 .. NumProcs |->
                       IF i \in P3!OwnCuts(p) THEN P3!NewLeftBorder(p, i) ELSE goffset[i]]
      /\ UNCHANGED << input, relatives, gftree, loc_offsets, copied, quads, trees >>
  BY DEF P3!WriteCuts, P3!Goto, P3!Past
<1>3. /\ P3!global_num_quads' = P3!global_num_quads /\ CutsType' = CutsType
      /\ (SourceKnown <=> SourceKnown') /\ EvenOffsets' = EvenOffsets /\ NewOffsets' = NewOffsets
      /\ P3!Weighted <=> P3!Weighted'
  BY <1>2, RequestStays
<1>4. P3!Weighted
  BY <1>1, <1>2 DEF EvenCutsInv
<1>5. /\ \A i \in P3!OwnCuts(p) : P3!NewLeftBorder(p, i) \in 0 .. P3!global_num_quads
      /\ 0 \in P3!OwnCuts(p) => p = 0
      /\ 0 \in P3!OwnCuts(0) /\ P3!NewLeftBorder(0, 0) = 0
  BY <1>1, <1>4, BordersFound DEF CutsTypeOK
<1>6. /\ step \in [P3!Procs -> CutPlaces] /\ "copy" \in CutPlaces
      /\ "copy" \notin Weighed /\ "copy" \notin Published /\ "copy" \notin Taken
  BY <1>1 DEF CutsTypeOK, CutPlaces, Weighed, Corrected, Published, Taken
<1>7. step'[p] = "copy" /\ \A q \in P3!Procs : q # p => step'[q] = step[q]
  BY <1>2, <1>6
<1>8. CutsTypeOK'
  <2>1. step' \in [P3!Procs -> CutPlaces]
    BY <1>2, <1>6
  <2>2. goffset \in CutsType
    BY <1>1 DEF CutsTypeOK
  <2>3. goffset' \in CutsType
    BY <1>2, <1>5, <2>2 DEF CutsType
  <2> QED
    BY <1>1, <1>2, <1>3, <2>1, <2>3 DEF CutsTypeOK
<1>9. EvenCutsInv'
  BY <1>3, <1>4 DEF EvenCutsInv
<1>10. 0 \in P3!Procs /\ 0 \in 0 .. NumProcs /\ NumProcs > 0
  BY DEF P3!Procs, P3!ProcsAssumption
<1>11. ~ P3!CutsWritten
  BY <1>2 DEF P3!CutsWritten, P3!Past
<1>12. \A q \in P3!Procs : ~ (copied[q] > 0 \/ step[q] \in Weighed)
  BY <1>1, <1>4, <1>11 DEF WeighedCutsInv
<1>13. \A q \in P3!Procs : copied[q] = 0 /\ step[q] \notin Weighed
  BY <1>1, <1>12 DEF CutsTypeOK
<1>14. \A q \in P3!Procs : copied'[q] = 0 /\ step'[q] \notin Weighed
  BY <1>2, <1>6, <1>7, <1>13
<1>15. WeighedCutsInv'
  <2>1. \A q, i \in P3!Procs : ~ (i < copied'[q])
    BY <1>14 DEF P3!Procs
  <2>2. \A q \in P3!Procs : copied'[q] < NumProcs /\ ~ (copied'[q] > 0)
    BY <1>10, <1>14
  <2>3. step'[0] \notin { "start", "weigh" } => goffset'[0] = 0
    <3>1. CASE p = 0
      BY <1>2, <1>5, <1>10, <3>1
    <3>2. CASE p # 0
      <4>1. goffset'[0] = goffset[0] /\ step'[0] = step[0]
        BY <1>2, <1>5, <1>7, <1>10, <3>2
      <4> QED
        BY <1>1, <1>4, <4>1 DEF WeighedCutsInv
    <3> QED
      BY <3>1, <3>2
  <2> QED
    BY <1>14, <2>1, <2>2, <2>3 DEF WeighedCutsInv
<1>16. PublishedInv'
  <2>1. \A q \in P3!Procs : step'[q] \notin Published /\ step'[q] \notin Taken
    BY <1>14 DEF Weighed, Corrected, Published
  <2> QED
    BY <1>10, <2>1 DEF PublishedInv
<1> QED
  BY <1>8, <1>9, <1>15, <1>16 DEF CutsInv

(* A process copies one cut of the shared window after the other. *)
LEMMA CopyCutKeeps ==
  ASSUME P3!ProcsAssumption, CutsInv, NEW p \in P3!Procs, P3!CopyCut(p)
  PROVE  CutsInv'
<1> DEFINE i  == copied[p]
           N  == P3!global_num_quads
           to == IF i + 1 < NumProcs THEN "copy" ELSE "correct"
<1>1. CutsTypeOK /\ EvenCutsInv /\ WeighedCutsInv /\ PublishedInv
  BY DEF CutsInv
<1>2. /\ step[p] = "copy" /\ P3!CutsWritten
      /\ loc_offsets' = [loc_offsets EXCEPT ![p][i] = goffset[i], ![p][NumProcs] = N]
      /\ copied' = [copied EXCEPT ![p] = i + 1]
      /\ UNCHANGED << input, relatives, goffset, gftree, quads, trees >>
      /\ IF i + 1 < NumProcs THEN step' = step ELSE step' = [step EXCEPT ![p] = "correct"]
  BY DEF P3!CopyCut, P3!Goto
<1>3. /\ P3!global_num_quads' = N /\ CutsType' = CutsType
      /\ (SourceKnown <=> SourceKnown') /\ EvenOffsets' = EvenOffsets /\ NewOffsets' = NewOffsets
      /\ P3!Weighted <=> P3!Weighted'
  BY <1>2, RequestStays
<1>4. P3!Weighted
  BY <1>1, <1>2 DEF EvenCutsInv
<1>5. /\ step \in [P3!Procs -> CutPlaces] /\ goffset \in CutsType
      /\ loc_offsets \in [P3!Procs -> CutsType] /\ copied \in [P3!Procs -> Nat]
  BY <1>1 DEF CutsTypeOK
<1>6. NumProcs \in Nat \ {0} /\ 0 \in P3!Procs /\ P3!Procs \subseteq 0 .. NumProcs
        /\ NumProcs \in 0 .. NumProcs /\ N \in Nat /\ NumProcs \notin P3!Procs
  BY <1>1 DEF P3!Procs, P3!ProcsAssumption, CutsTypeOK, SourceKnown
<1>7. i \in Nat /\ i < NumProcs /\ i \in P3!Procs
  <2>1. i < NumProcs
    BY <1>1, <1>2, <1>4 DEF WeighedCutsInv
  <2> QED
    BY <1>5, <1>6, <2>1 DEF P3!Procs
<1>8. /\ \A q \in P3!Procs : q # p =>
           step'[q] = step[q] /\ loc_offsets'[q] = loc_offsets[q] /\ copied'[q] = copied[q]
      /\ step'[p] = to /\ copied'[p] = i + 1
      /\ loc_offsets'[p] = [loc_offsets[p] EXCEPT ![i] = goffset[i], ![NumProcs] = N]
  BY <1>2, <1>5
<1>9. /\ to \in CutPlaces /\ to \notin Corrected /\ to \notin Published /\ to \notin Taken
      /\ to \notin { "start", "weigh" }
      /\ "copy" \notin Weighed
  BY DEF CutPlaces, Weighed, Corrected, Published, Taken
<1> HIDE DEF to
<1>10. goffset[i] \in 0 .. N /\ N \in 0 .. N
  BY <1>5, <1>6, <1>7 DEF CutsType
<1>11. /\ loc_offsets'[p] \in CutsType
       /\ loc_offsets'[p][NumProcs] = N
       /\ \A k \in P3!Procs : loc_offsets'[p][k] = IF k = i THEN goffset[i] ELSE loc_offsets[p][k]
  <2>1. loc_offsets[p] \in [0 .. NumProcs -> 0 .. N]
    BY <1>5 DEF CutsType
  <2> QED
    BY <1>6, <1>7, <1>8, <1>10, <2>1 DEF CutsType
<1>12. CutsTypeOK'
  <2>1. step' \in [P3!Procs -> CutPlaces]
    BY <1>2, <1>5, <1>9 DEF to
  <2>2. loc_offsets' \in [P3!Procs -> CutsType]
    <3>1. loc_offsets' = [q \in P3!Procs |-> IF q = p THEN loc_offsets'[p] ELSE loc_offsets[q]]
      BY <1>2, <1>5
    <3> QED
      BY <1>5, <1>11, <3>1
  <2>3. copied' \in [P3!Procs -> Nat]
    BY <1>2, <1>5, <1>7
  <2> QED
    BY <1>1, <1>2, <1>3, <2>1, <2>2, <2>3 DEF CutsTypeOK
<1>13. EvenCutsInv'
  BY <1>3, <1>4 DEF EvenCutsInv
<1>14. WeighedCutsInv'
  <2>1. P3!CutsWritten'
    <3>1. \A q \in P3!Procs : step[q] \notin { "start", "weigh" }
      BY <1>2 DEF P3!CutsWritten, P3!Past
    <3>2. \A q \in P3!Procs : step'[q] \notin { "start", "weigh" }
      BY <1>8, <1>9, <3>1
    <3> QED
      BY <3>2 DEF P3!CutsWritten, P3!Past
  <2>2. step'[0] \notin { "start", "weigh" } => goffset'[0] = 0
    <3>1. step[0] \notin { "start", "weigh" }
      BY <1>2, <1>6 DEF P3!CutsWritten, P3!Past
    <3> QED
      BY <1>1, <1>2, <1>4, <3>1 DEF WeighedCutsInv
  <2>3. ASSUME NEW q \in P3!Procs
        PROVE  /\ \A k \in P3!Procs : k < copied'[q] => loc_offsets'[q][k] = goffset[k]
               /\ copied'[q] > 0 => loc_offsets'[q][NumProcs] = N
               /\ step'[q] = "copy" => copied'[q] < NumProcs
               /\ step'[q] \in Weighed => copied'[q] = NumProcs
    <3>1. /\ \A k \in P3!Procs : k < copied[q] => loc_offsets[q][k] = goffset[k]
          /\ copied[q] > 0 => loc_offsets[q][NumProcs] = N
          /\ step[q] = "copy" => copied[q] < NumProcs
          /\ step[q] \in Weighed => copied[q] = NumProcs
      BY <1>1, <1>4 DEF WeighedCutsInv
    <3>2. CASE q # p
      BY <1>8, <3>1, <3>2
    <3>3. CASE q = p
      <4>1. \A k \in P3!Procs : k < copied'[q] => loc_offsets'[q][k] = goffset[k]
        <5> SUFFICES ASSUME NEW k \in P3!Procs, k < i + 1
                     PROVE  loc_offsets'[p][k] = goffset[k]
          BY <1>8, <3>3
        <5>1. k = i \/ k < i
          BY <1>7 DEF P3!Procs
        <5> QED
          BY <1>11, <3>1, <3>3, <5>1
      <4>2. step'[q] = "copy" => copied'[q] < NumProcs
        BY <1>8, <3>3 DEF to
      <4>3. step'[q] \in Weighed => copied'[q] = NumProcs
        <5>1. to # "copy" => i + 1 = NumProcs
          BY <1>6, <1>7 DEF to
        <5> QED
          BY <1>8, <1>9, <3>3, <5>1
      <4> QED
        BY <1>11, <3>3, <4>1, <4>2, <4>3
    <3> QED
      BY <3>2, <3>3
  <2>4. goffset' = goffset /\ P3!global_num_quads' = N
    BY <1>2, <1>3
  <2>5. \A q \in P3!Procs :
          /\ \A k \in P3!Procs : k < copied'[q] => loc_offsets'[q][k] = goffset'[k]
          /\ copied'[q] > 0 => loc_offsets'[q][NumProcs] = P3!global_num_quads'
          /\ step'[q] = "copy" => copied'[q] < NumProcs
          /\ step'[q] \in Weighed => copied'[q] = NumProcs
    BY <2>3, <2>4
  <2> QED
    BY <2>1, <2>2, <2>5 DEF WeighedCutsInv
<1>15. PublishedInv'
  <2>1. ASSUME NEW q \in P3!Procs
        PROVE  /\ step'[q] \in Published => goffset[q] = loc_offsets'[q][q]
               /\ step'[q] \in Taken => quads[q] = Run(loc_offsets'[q][q], loc_offsets'[q][q + 1])
    <3>1. CASE q = p
      BY <1>8, <1>9, <3>1
    <3>2. CASE q # p
      BY <1>1, <1>8, <3>2 DEF PublishedInv
    <3> QED
      BY <3>1, <3>2
  <2>2. step'[0] \in Published => goffset[NumProcs] = N
    <3>1. step'[0] \in Published => step[0] \in Published
      BY <1>6, <1>8, <1>9
    <3> QED
      BY <1>1, <3>1 DEF PublishedInv
  <2> QED
    BY <1>2, <1>3, <2>1, <2>2 DEF PublishedInv
<1> QED
  BY <1>12, <1>13, <1>14, <1>15 DEF CutsInv

(* Without weights all processes correct the same cuts in the same way, and *)
(* with weights they correct none.                                          *)
LEMMA CorrectFamiliesKeeps ==
  ASSUME P3!ProcsAssumption, P3!SoundRequests, CHILDREN \in Nat \ {0}, CutsInv,
         NEW p \in P3!Procs, P3!CorrectFamilies(p)
  PROVE  CutsInv'
<1> DEFINE new == IF input.family
                  THEN [r \in 0 .. NumProcs |-> P3!CorrectedCut(loc_offsets[p], r)]
                  ELSE loc_offsets[p]
<1>1. CutsTypeOK /\ EvenCutsInv /\ WeighedCutsInv /\ PublishedInv
  BY DEF CutsInv
<1>2. loc_offsets \in [P3!Procs -> CutsType] /\ step \in [P3!Procs -> CutPlaces] /\ SourceKnown
  BY <1>1 DEF CutsTypeOK
<1>3. /\ step[p] = "correct" /\ step' = [step EXCEPT ![p] = "publish"]
      /\ loc_offsets' = [loc_offsets EXCEPT ![p] = new]
      /\ UNCHANGED << input, relatives, goffset, gftree, copied, quads, trees >>
  BY <1>2 DEF P3!CorrectFamilies, P3!Goto
<1>4. /\ P3!global_num_quads' = P3!global_num_quads /\ CutsType' = CutsType
      /\ (SourceKnown <=> SourceKnown') /\ EvenOffsets' = EvenOffsets /\ NewOffsets' = NewOffsets
      /\ P3!Weighted <=> P3!Weighted'
  BY <1>3, RequestStays
<1>5. NumProcs \in Nat \ {0} /\ 0 \in P3!Procs
  BY DEF P3!Procs, P3!ProcsAssumption
<1>6. new \in CutsType
  <2>1. \A r \in 0 .. NumProcs :
          P3!CorrectedCut(loc_offsets[p], r) \in 0 .. P3!global_num_quads
    BY <1>2, <1>5, CorrectedCuts
  <2> QED
    BY <1>2, <2>1 DEF CutsType
<1>7. P3!Weighted => new = loc_offsets[p]
  BY <1>1, RequestIsSound DEF CutsTypeOK
<1>8. ~ P3!Weighted => new = NewOffsets
  <2> SUFFICES ASSUME ~ P3!Weighted PROVE new = NewOffsets
    OBVIOUS
  <2>1. loc_offsets[p] = EvenOffsets
    BY <1>1, <1>3 DEF EvenCutsInv
  <2> QED
    BY <2>1 DEF NewOffsets
<1> HIDE DEF new
<1>9. /\ step'[p] = "publish" /\ loc_offsets'[p] = new
      /\ \A q \in P3!Procs : q # p => step'[q] = step[q] /\ loc_offsets'[q] = loc_offsets[q]
  BY <1>2, <1>3
<1>10. /\ "publish" \in CutPlaces /\ "publish" \in Weighed /\ "publish" \in Corrected
       /\ "correct" \in Weighed
       /\ "publish" \notin Published /\ "publish" \notin Taken
  BY DEF CutPlaces, Weighed, Corrected, Published, Taken
<1>11. CutsTypeOK'
  <2>1. step' \in [P3!Procs -> CutPlaces] /\ loc_offsets' \in [P3!Procs -> CutsType]
    BY <1>2, <1>3, <1>6, <1>10
  <2> QED
    BY <1>1, <1>3, <1>4, <2>1 DEF CutsTypeOK
<1>12. EvenCutsInv'
  <2> SUFFICES ASSUME ~ P3!Weighted, NEW q \in P3!Procs
               PROVE  /\ step'[q] \notin { "weigh", "copy" }
                      /\ step'[q] = "correct" => loc_offsets'[q] = EvenOffsets
                      /\ step'[q] \in Corrected => loc_offsets'[q] = NewOffsets
    BY <1>4 DEF EvenCutsInv
  <2>1. /\ step[q] \notin { "weigh", "copy" }
        /\ step[q] = "correct" => loc_offsets[q] = EvenOffsets
        /\ step[q] \in Corrected => loc_offsets[q] = NewOffsets
    BY <1>1 DEF EvenCutsInv
  <2>2. CASE q # p
    BY <1>9, <2>1, <2>2
  <2>3. CASE q = p
    BY <1>8, <1>9, <2>3
  <2> QED
    BY <2>2, <2>3
<1>13. WeighedCutsInv'
  <2> SUFFICES ASSUME P3!Weighted PROVE WeighedCutsInv'
    BY <1>4 DEF WeighedCutsInv
  <2>1. loc_offsets' = loc_offsets
    BY <1>2, <1>3, <1>7
  <2>2. P3!CutsWritten => P3!CutsWritten'
    BY <1>3, <1>9 DEF P3!CutsWritten, P3!Past
  <2>3. \A q \in P3!Procs : /\ step'[q] \in Weighed <=> step[q] \in Weighed
                            /\ step'[q] = "copy" <=> step[q] = "copy"
    BY <1>3, <1>9, <1>10
  <2>4. step'[0] \in { "start", "weigh" } <=> step[0] \in { "start", "weigh" }
    BY <1>3, <1>5, <1>9
  <2> QED
    BY <1>1, <1>3, <1>4, <2>1, <2>2, <2>3, <2>4 DEF WeighedCutsInv
<1>14. PublishedInv'
  <2>1. ASSUME NEW q \in P3!Procs
        PROVE  /\ step'[q] \in Published => goffset[q] = loc_offsets'[q][q]
               /\ step'[q] \in Taken => quads[q] = Run(loc_offsets'[q][q], loc_offsets'[q][q + 1])
    <3>1. CASE q = p
      BY <1>9, <1>10, <3>1
    <3>2. CASE q # p
      BY <1>1, <1>9, <3>2 DEF PublishedInv
    <3> QED
      BY <3>1, <3>2
  <2>2. step'[0] \in Published => goffset[NumProcs] = P3!global_num_quads
    <3>1. step'[0] \in Published => step[0] \in Published
      BY <1>5, <1>9, <1>10
    <3> QED
      BY <1>1, <3>1 DEF PublishedInv
  <2> QED
    BY <1>3, <1>4, <2>1, <2>2 DEF PublishedInv
<1> QED
  BY <1>11, <1>12, <1>13, <1>14 DEF CutsInv

(* What a process publishes is there already, or everybody else has it. *)
LEMMA PublishCutKeeps ==
  ASSUME P3!ProcsAssumption, P3!SoundRequests, CHILDREN \in Nat \ {0}, CutsInv,
         NEW p \in P3!Procs, P3!PublishCut(p)
  PROVE  CutsInv'
<1>1. CutsTypeOK /\ EvenCutsInv /\ WeighedCutsInv /\ PublishedInv
  BY DEF CutsInv
<1>2. /\ step[p] = "publish" /\ step' = [step EXCEPT ![p] = "trees"]
      /\ goffset' = [goffset EXCEPT ![p] = loc_offsets[p][p],
                       ![NumProcs] = IF p = 0 THEN P3!global_num_quads ELSE @]
      /\ UNCHANGED << input, relatives, gftree, loc_offsets, copied, quads, trees >>
  BY DEF P3!PublishCut, P3!Goto, P3!FirstQuad
<1>3. /\ P3!global_num_quads' = P3!global_num_quads /\ CutsType' = CutsType
      /\ (SourceKnown <=> SourceKnown') /\ EvenOffsets' = EvenOffsets /\ NewOffsets' = NewOffsets
      /\ P3!Weighted <=> P3!Weighted'
  BY <1>2, RequestStays
<1>4. /\ loc_offsets \in [P3!Procs -> CutsType] /\ step \in [P3!Procs -> CutPlaces]
      /\ goffset \in [0 .. NumProcs -> 0 .. P3!global_num_quads] /\ P3!global_num_quads \in Nat
  BY <1>1 DEF CutsTypeOK, CutsType, SourceKnown
<1>5. NumProcs \in Nat \ {0} /\ 0 \in P3!Procs /\ P3!Procs \subseteq 0 .. NumProcs
        /\ NumProcs \in 0 .. NumProcs /\ NumProcs \notin P3!Procs
  BY DEF P3!Procs, P3!ProcsAssumption
<1>6. step'[p] = "trees" /\ \A q \in P3!Procs : q # p => step'[q] = step[q]
  BY <1>2, <1>4
<1>7. /\ goffset'[p] = loc_offsets[p][p]
      /\ \A q \in P3!Procs : q # p => goffset'[q] = goffset[q]
      /\ goffset'[NumProcs] = IF p = 0 THEN P3!global_num_quads ELSE goffset[NumProcs]
  BY <1>2, <1>4, <1>5
<1>8. /\ "trees" \in CutPlaces /\ "trees" \in Weighed /\ "trees" \in Corrected
      /\ "publish" \in Corrected /\ "publish" \in Weighed /\ "trees" \notin Taken
  BY DEF CutPlaces, Weighed, Corrected, Published, Taken
<1>9. CutsTypeOK'
  <2>1. step' \in [P3!Procs -> CutPlaces]
    BY <1>2, <1>4, <1>8
  <2>2. loc_offsets[p][p] \in 0 .. P3!global_num_quads
    BY <1>4, <1>5 DEF CutsType
  <2>3. P3!global_num_quads \in 0 .. P3!global_num_quads
    BY <1>4
  <2>4. goffset' \in [0 .. NumProcs -> 0 .. P3!global_num_quads]
    BY <1>2, <1>4, <1>5, <2>2, <2>3
  <2>5. goffset' \in CutsType
    BY <2>4 DEF CutsType
  <2> QED
    BY <1>1, <1>2, <1>3, <2>1, <2>5 DEF CutsTypeOK
<1>10. EvenCutsInv'
  <2> SUFFICES ASSUME ~ P3!Weighted, NEW q \in P3!Procs
               PROVE  /\ step'[q] \notin { "weigh", "copy" }
                      /\ step'[q] = "correct" => loc_offsets[q] = EvenOffsets
                      /\ step'[q] \in Corrected => loc_offsets[q] = NewOffsets
    BY <1>2, <1>3 DEF EvenCutsInv
  <2>1. /\ step[q] \notin { "weigh", "copy" }
        /\ step[q] = "correct" => loc_offsets[q] = EvenOffsets
        /\ step[q] \in Corrected => loc_offsets[q] = NewOffsets
    BY <1>1 DEF EvenCutsInv
  <2>2. CASE q # p
    BY <1>6, <2>1, <2>2
  <2>3. CASE q = p
    BY <1>2, <1>6, <1>8, <2>1, <2>3
  <2> QED
    BY <2>2, <2>3
<1>11. WeighedCutsInv'
  <2> SUFFICES ASSUME P3!Weighted PROVE WeighedCutsInv'
    BY <1>3 DEF WeighedCutsInv
  <2>1. copied[p] = NumProcs /\ \A i \in P3!Procs : i < copied[p] => loc_offsets[p][i] = goffset[i]
    BY <1>1, <1>2, <1>8 DEF WeighedCutsInv
  <2>2. loc_offsets[p][p] = goffset[p]
    <3>1. p < copied[p]
      BY <1>5, <2>1 DEF P3!Procs
    <3> QED
      BY <2>1, <3>1
  <2>3. \A q \in P3!Procs : goffset'[q] = goffset[q]
    BY <1>7, <2>2
  <2>4. P3!CutsWritten => P3!CutsWritten'
    BY <1>6 DEF P3!CutsWritten, P3!Past
  <2>5. \A q \in P3!Procs : /\ step'[q] \in Weighed <=> step[q] \in Weighed
                            /\ step'[q] = "copy" <=> step[q] = "copy"
    BY <1>2, <1>6, <1>8
  <2>6. step'[0] \in { "start", "weigh" } <=> step[0] \in { "start", "weigh" }
    BY <1>2, <1>5, <1>6
  <2>7. UNCHANGED << loc_offsets, copied >>
    BY <1>2
  <2> QED
    BY <1>1, <1>3, <1>5, <2>3, <2>4, <2>5, <2>6, <2>7 DEF WeighedCutsInv
<1>12. PublishedInv'
  <2>1. ASSUME NEW q \in P3!Procs
        PROVE  /\ step'[q] \in Published => goffset'[q] = loc_offsets[q][q]
               /\ step'[q] \in Taken => quads[q] = Run(loc_offsets[q][q], loc_offsets[q][q + 1])
    <3>1. CASE q = p
      BY <1>6, <1>7, <1>8, <3>1
    <3>2. CASE q # p
      BY <1>1, <1>6, <1>7, <3>2 DEF PublishedInv
    <3> QED
      BY <3>1, <3>2
  <2>2. step'[0] \in Published => goffset'[NumProcs] = P3!global_num_quads
    <3>1. CASE p = 0
      BY <1>7, <3>1
    <3>2. CASE p # 0
      BY <1>1, <1>5, <1>6, <1>7, <3>2 DEF PublishedInv
    <3> QED
      BY <3>1, <3>2
  <2>3. UNCHANGED << loc_offsets, quads >>
    BY <1>2
  <2> QED
    BY <1>3, <2>1, <2>2, <2>3 DEF PublishedInv
<1> QED
  BY <1>9, <1>10, <1>11, <1>12 DEF CutsInv

(* The window of processes that is searched for has all quadrants between two *)
(* cuts, so what is copied from them is what lies between the cuts.           *)
LEMMA CopiesJoin ==
  ASSUME P3!ProcsAssumption, P3!SoundRequests, CutsTypeOK, NEW p \in P3!Procs
  PROVE  P3!FlattenSeq([i \in 1 .. NumProcs |->
           IF i - 1 \in P3!ReceiveWindow(p) THEN P3!CopyFrom(p, i - 1) ELSE << >>])
             = Run(loc_offsets[p][p], loc_offsets[p][p + 1])
<1> DEFINE a == loc_offsets[p][p]
           b == loc_offsets[p][p + 1]
           n == P3!global_num_quads
           now == input.now
           last == [q \in 0 .. NumProcs - 1 |-> now[q + 1] - 1]
           Part(i) == Run(P3!High(a, now[i - 1]), P3!Low(b, now[i]))
           seqs == [i \in 1 .. NumProcs |->
                      IF i - 1 \in P3!ReceiveWindow(p) THEN P3!CopyFrom(p, i - 1) ELSE << >>]
<1>1. NumProcs \in Nat \ {0} /\ p \in 0 .. NumProcs /\ p + 1 \in 0 .. NumProcs
  BY DEF P3!ProcsAssumption, P3!Procs
<1>2. /\ n \in Nat /\ now \in [0 .. NumProcs -> 0 .. n] /\ now[0] = 0 /\ now[NumProcs] = n
      /\ \A q, r \in 0 .. NumProcs : q <= r => now[q] <= now[r]
  BY RequestIsSound DEF CutsTypeOK
<1>3. a \in 0 .. n /\ b \in 0 .. n
  BY <1>1 DEF CutsTypeOK, CutsType
<1>4. /\ P3!FirstQuad(p) = a /\ P3!LastQuad(p) = b - 1 /\ (P3!Empty(p) <=> a > b - 1)
      /\ P3!last_goffsets = last
  BY DEF P3!FirstQuad, P3!LastQuad, P3!Empty, P3!last_goffsets, P3!Procs
<1> DEFINE found == P3!FindPartition(NumProcs, last, a, b - 1)
<1>5. P3!ReceiveWindow(p) = IF a > b - 1 THEN {} ELSE found.begin .. found.end
  BY <1>4 DEF P3!ReceiveWindow
<1>6. \A q : /\ P3!NumRecvFrom(p, q) =
                  IF now[q] > b - 1 \/ P3!last_goffsets[q] < a THEN 0
                  ELSE P3!Low(b - 1, P3!last_goffsets[q]) - P3!High(a, now[q]) + 1
             /\ P3!CopyFrom(p, q) = [k \in 1 .. P3!NumRecvFrom(p, q) |-> P3!High(a, now[q]) + k - 1]
  BY <1>4 DEF P3!NumRecvFrom, P3!CopyFrom
<1> HIDE DEF a, b, n, now
<1>7. last \in [0 .. NumProcs - 1 -> Int]
      /\ \A i, j \in 0 .. NumProcs - 1 : i <= j => last[i] <= last[j]
  <2>1. ASSUME NEW i \in 0 .. NumProcs - 1
        PROVE  i + 1 \in 0 .. NumProcs /\ now[i + 1] \in 0 .. n /\ last[i] = now[i + 1] - 1
    <3>1. i + 1 \in 0 .. NumProcs
      BY <1>1
    <3> QED
      BY <1>2, <3>1
  <2>2. last \in [0 .. NumProcs - 1 -> Int]
    BY <1>2, <2>1
  <2>3. ASSUME NEW i \in 0 .. NumProcs - 1, NEW j \in 0 .. NumProcs - 1, i <= j
        PROVE  last[i] <= last[j]
    <3>1. now[i + 1] <= now[j + 1]
      BY <1>1, <1>2, <2>1, <2>3
    <3> QED
      BY <1>2, <2>1, <3>1
  <2> QED
    BY <2>2, <2>3
<1>8. \A q \in 0 .. NumProcs - 1 : last[q] = now[q + 1] - 1
  OBVIOUS
<1> HIDE DEF last
<1>9. a <= b - 1 =>
        /\ found.begin \in 0 .. NumProcs /\ found.end \in 0 .. NumProcs
        /\ \A i \in 0 .. NumProcs - 1 : found.begin <= i <=> a <= last[i]
        /\ \A i \in 0 .. NumProcs - 1 : found.end <= i <=> b - 1 <= last[i]
  <2>1. P3!FindPartition(NumProcs, last, a, b - 1) = FindPartition(NumProcs, last, a, b - 1)
    BY DEF P3!FindPartition, FindPartition, P3!SplitOffset, SplitOffset, P3!WindowType,
           WindowType, P3!Min, Min
  <2>2. NumProcs \in Nat /\ a \in Int /\ b - 1 \in Int
    BY <1>1, <1>3
  <2> QED
    BY <1>7, <2>1, <2>2, WindowOfSorted
<1> HIDE DEF found
<1>10. ASSUME NEW i \in 1 .. NumProcs
       PROVE  seqs[i] = Part(i)
  <2> DEFINE q == i - 1
             x == now[q]
             y == now[i]
  <2>1. q \in 0 .. NumProcs - 1 /\ q \in 0 .. NumProcs /\ i \in 0 .. NumProcs /\ q + 1 = i /\ q <= i
    BY <1>1
  <2>2. x \in Int /\ y \in Int /\ x <= y /\ last[q] = y - 1
    BY <1>2, <1>8, <2>1
  <2>3. a \in Int /\ b \in Int
    BY <1>3
  <2>4. P3!last_goffsets[q] = y - 1
    BY <1>4, <2>2
  <2>5. /\ seqs[i] = IF q \in P3!ReceiveWindow(p) THEN P3!CopyFrom(p, q) ELSE << >>
        /\ Part(i) = Run(P3!High(a, x), P3!Low(b, y))
    OBVIOUS
  <2> HIDE DEF seqs, Part
  <2>6. /\ P3!NumRecvFrom(p, q) = IF x > b - 1 \/ y - 1 < a THEN 0
                                  ELSE P3!Low(b - 1, y - 1) - P3!High(a, x) + 1
        /\ P3!CopyFrom(p, q) = [k \in 1 .. P3!NumRecvFrom(p, q) |-> P3!High(a, x) + k - 1]
    BY <1>6, <2>4
  <2> HIDE DEF q, x, y
  <2>7. /\ P3!Low(b, y) = (IF b < y THEN b ELSE y) /\ P3!High(a, x) = (IF a < x THEN x ELSE a)
        /\ P3!Low(b - 1, y - 1) = IF b - 1 < y - 1 THEN b - 1 ELSE y - 1
    BY DEF P3!Low, P3!High
  <2>8. P3!CopyFrom(p, q) = Run(P3!High(a, x), P3!Low(b, y))
    <3>1. CASE x > b - 1 \/ y - 1 < a
      <4>1. P3!Low(b, y) <= P3!High(a, x) /\ P3!Low(b, y) \in Int /\ P3!High(a, x) \in Int
        BY <2>2, <2>3, <2>7, <3>1
      <4>2. Run(P3!High(a, x), P3!Low(b, y)) = << >>
        BY <4>1, RunEmpty
      <4>3. 1 .. P3!NumRecvFrom(p, q) = {}
        BY <2>6, <3>1
      <4> QED
        BY <2>6, <4>2, <4>3
    <3>2. CASE ~ (x > b - 1 \/ y - 1 < a)
      <4>1. P3!NumRecvFrom(p, q) = P3!Low(b, y) - P3!High(a, x)
        BY <2>2, <2>3, <2>6, <2>7, <3>2
      <4> QED
        BY <2>6, <4>1 DEF Run
    <3> QED
      BY <3>1, <3>2
  <2>9. CASE q \in P3!ReceiveWindow(p)
    BY <2>5, <2>8, <2>9
  <2>10. CASE q \notin P3!ReceiveWindow(p)
    <3>1. P3!Low(b, y) <= P3!High(a, x) /\ P3!Low(b, y) \in Int /\ P3!High(a, x) \in Int
      <4>1. CASE a > b - 1
        BY <2>2, <2>3, <2>7, <4>1
      <4>2. CASE a <= b - 1
        <5>1. q \notin found.begin .. found.end
          BY <1>3, <1>5, <2>10, <4>2
        <5>2. q < found.begin \/ found.end < q
          BY <1>9, <2>1, <4>2, <5>1
        <5>3. CASE q < found.begin
          <6>1. ~ (a <= last[q])
            BY <1>9, <2>1, <4>2, <5>3
          <6> QED
            BY <2>2, <2>3, <2>7, <6>1
        <5>4. CASE found.end < q
          <6>1. q - 1 \in 0 .. NumProcs - 1 /\ found.end <= q - 1 /\ (q - 1) + 1 = q
            <7>1. found.end \in 0 .. NumProcs
              BY <1>9, <4>2
            <7> QED
              BY <1>1, <2>1, <5>4, <7>1
          <6>2. b - 1 <= last[q - 1] /\ last[q - 1] = now[(q - 1) + 1] - 1
            BY <1>8, <1>9, <4>2, <6>1
          <6>3. b - 1 <= x - 1
            BY <6>1, <6>2 DEF x
          <6> QED
            BY <2>2, <2>3, <2>7, <6>3
        <5> QED
          BY <5>2, <5>3, <5>4
      <4> QED
        BY <2>3, <4>1, <4>2
    <3>2. Run(P3!High(a, x), P3!Low(b, y)) = << >>
      BY <3>1, RunEmpty
    <3> QED
      BY <2>5, <2>10, <3>2
  <2> QED
    BY <2>9, <2>10
<1>11. seqs = PartsOf(now, NumProcs, a, b)
  BY <1>10 DEF PartsOf
<1>12. /\ \A i \in 0 .. NumProcs : now[i] \in Int
       /\ \A i \in 1 .. NumProcs : now[i - 1] <= now[i]
       /\ now[0] <= a /\ b <= now[NumProcs]
  <2>1. \A i \in 1 .. NumProcs : i - 1 \in 0 .. NumProcs /\ i \in 0 .. NumProcs /\ i - 1 <= i
    BY <1>1
  <2> QED
    BY <1>2, <1>3, <2>1
<1>13. a \in Int /\ b \in Int
  BY <1>3
<1> HIDE DEF seqs
<1>14. Enclose(now, NumProcs, a, b)
  BY <1>12 DEF Enclose
<1>15. P3!FlattenSeq(seqs) = Run(a, b)
  BY <1>1, <1>11, <1>13, <1>14, RunsFlatten
<1> QED
  BY <1>15 DEF seqs, a, b

(* A process takes what lies between its two cuts, by copy or in place. *)
LEMMA TakeQuadrantsKeeps ==
  ASSUME P3!ProcsAssumption, P3!SoundRequests, CutsInv, NEW p \in P3!Procs, P3!TakeQuadrants(p)
  PROVE  CutsInv'
<1> DEFINE taken == IF input.contiguous
                    THEN [i \in 1 .. P3!LastQuad(p) - P3!FirstQuad(p) + 1 |-> P3!FirstQuad(p) + i - 1]
                    ELSE P3!FlattenSeq([i \in 1 .. NumProcs |->
                           IF i - 1 \in P3!ReceiveWindow(p) THEN P3!CopyFrom(p, i - 1) ELSE << >>])
<1>1. CutsTypeOK
  BY DEF CutsInv
<1>2. /\ step[p] = "take" /\ step' = [step EXCEPT ![p] = "wait"]
      /\ quads' = [quads EXCEPT ![p] = taken]
      /\ UNCHANGED << input, relatives, goffset, gftree, loc_offsets, copied >>
  BY DEF P3!TakeQuadrants, P3!Goto
<1>3. taken = Run(loc_offsets[p][p], loc_offsets[p][p + 1])
  <2>1. CASE ~ input.contiguous
    BY <1>1, <2>1, CopiesJoin
  <2>2. CASE input.contiguous
    <3>1. p \in 0 .. NumProcs /\ p + 1 \in 0 .. NumProcs
      BY DEF P3!ProcsAssumption, P3!Procs
    <3>2. loc_offsets[p][p] \in Int /\ loc_offsets[p][p + 1] \in Int
      <4>1. loc_offsets \in [P3!Procs -> CutsType] /\ P3!global_num_quads \in Nat
        BY <1>1 DEF CutsTypeOK, SourceKnown
      <4>2. loc_offsets[p] \in [0 .. NumProcs -> 0 .. P3!global_num_quads]
        BY <4>1 DEF CutsType
      <4>3. /\ loc_offsets[p][p] \in 0 .. P3!global_num_quads
            /\ loc_offsets[p][p + 1] \in 0 .. P3!global_num_quads
        BY <3>1, <4>2
      <4> QED
        BY <4>1, <4>3
    <3>3. /\ P3!FirstQuad(p) = loc_offsets[p][p]
          /\ P3!LastQuad(p) - P3!FirstQuad(p) + 1 = loc_offsets[p][p + 1] - loc_offsets[p][p]
      BY <3>2 DEF P3!FirstQuad, P3!LastQuad
    <3> QED
      BY <2>2, <3>3 DEF Run
  <2> QED
    BY <2>1, <2>2
<1> HIDE DEF taken
<1>4. quads = [q \in P3!Procs |-> quads[q]]
  BY <1>1 DEF CutsTypeOK
<1>5. /\ quads' = [q \in P3!Procs |-> quads'[q]] /\ quads'[p] = taken
      /\ \A q \in P3!Procs : q # p => quads'[q] = quads[q]
  BY <1>2, <1>4
<1>6. step'[p] = "wait"
  BY <1>1, <1>2 DEF CutsTypeOK
<1>7. quads'[p] = Run(loc_offsets[p][p], loc_offsets[p][p + 1])
  BY <1>3, <1>5
<1>8. PlaceMove(p)
  BY <1>2, <1>5, <1>6, <1>7 DEF PlaceMove
<1> QED
  BY <1>8, PlaceMoves

(***************************************************************************)
(* RangesAgree.                                                            *)
(***************************************************************************)
LEMMA CutsHold ==
  ASSUME P3!ProcsAssumption, P3!SoundRequests, CHILDREN \in Nat \ {0}
  PROVE  P3!Spec => []CutsInv
<1>1. P3!Init => CutsInv
  BY CutsStart
<1>2. ASSUME CutsInv, [P3!Next]_P3!vars PROVE CutsInv'
  <2>1. CASE UNCHANGED P3!vars
    <3>1. UNCHANGED << input, relatives, step, goffset, loc_offsets, copied, quads >>
      BY <2>1 DEF P3!vars
    <3>2. /\ P3!global_num_quads' = P3!global_num_quads /\ CutsType' = CutsType
          /\ (SourceKnown <=> SourceKnown') /\ EvenOffsets' = EvenOffsets
          /\ NewOffsets' = NewOffsets /\ (P3!Weighted <=> P3!Weighted')
      BY <3>1, RequestStays
    <3>3. P3!CutsWritten <=> P3!CutsWritten'
      BY <3>1 DEF P3!CutsWritten, P3!Past
    <3>4. CutsTypeOK'
      BY <1>2, <3>1, <3>2 DEF CutsInv, CutsTypeOK
    <3>5. EvenCutsInv'
      BY <1>2, <3>1, <3>2 DEF CutsInv, EvenCutsInv
    <3>6. WeighedCutsInv'
      BY <1>2, <3>1, <3>2, <3>3 DEF CutsInv, WeighedCutsInv
    <3>7. PublishedInv'
      BY <1>2, <3>1, <3>2 DEF CutsInv, PublishedInv
    <3> QED
      BY <3>4, <3>5, <3>6, <3>7 DEF CutsInv
  <2>2. ASSUME NEW p \in P3!Procs, P3!Step(p) PROVE CutsInv'
    <3>1. quads = [q \in P3!Procs |-> quads[q]] /\ step \in [P3!Procs -> CutPlaces]
      BY <1>2 DEF CutsInv, CutsTypeOK
    <3>2. CASE P3!PublishTree(p)
      <4>1. /\ step[p] = "trees" /\ step' = [step EXCEPT ![p] = "take"]
            /\ UNCHANGED << input, relatives, goffset, loc_offsets, copied, quads >>
        BY <3>2 DEF P3!PublishTree, P3!Goto
      <4>2. step'[p] = "take"
        BY <3>1, <4>1
      <4>3. PlaceMove(p)
        BY <3>1, <4>1, <4>2 DEF PlaceMove
      <4> QED
        BY <1>2, <4>3, PlaceMoves
    <3>3. CASE P3!Complete(p)
      <4>1. /\ step[p] = "wait" /\ step' = [step EXCEPT ![p] = "barrier"]
            /\ UNCHANGED << input, relatives, goffset, loc_offsets, copied, quads >>
        BY <3>3 DEF P3!Complete, P3!Goto
      <4>2. step'[p] = "barrier"
        BY <3>1, <4>1
      <4>3. PlaceMove(p)
        BY <3>1, <4>1, <4>2 DEF PlaceMove
      <4> QED
        BY <1>2, <4>3, PlaceMoves
    <3>4. CASE P3!Leave(p)
      <4>1. /\ step[p] = "barrier" /\ step' = [step EXCEPT ![p] = "done"]
            /\ UNCHANGED << input, relatives, goffset, loc_offsets, copied, quads >>
        BY <3>4 DEF P3!Leave, P3!Goto
      <4>2. step'[p] = "done"
        BY <3>1, <4>1
      <4>3. PlaceMove(p)
        BY <3>1, <4>1, <4>2 DEF PlaceMove
      <4> QED
        BY <1>2, <4>3, PlaceMoves
    <3>5. CASE P3!EvenCuts(p)
      BY <1>2, <3>5, EvenCutsKeep
    <3>6. CASE P3!EnterGather(p)
      BY <1>2, <3>6, EnterGatherKeeps
    <3>7. CASE P3!WriteCuts(p)
      BY <1>2, <3>7, WriteCutsKeep
    <3>8. CASE P3!CopyCut(p)
      BY <1>2, <3>8, CopyCutKeeps
    <3>9. CASE P3!CorrectFamilies(p)
      BY <1>2, <3>9, CorrectFamiliesKeeps
    <3>10. CASE P3!PublishCut(p)
      BY <1>2, <3>10, PublishCutKeeps
    <3>11. CASE P3!TakeQuadrants(p)
      BY <1>2, <3>11, TakeQuadrantsKeeps
    <3> QED
      BY <2>2, <3>2, <3>3, <3>4, <3>5, <3>6, <3>7, <3>8, <3>9, <3>10, <3>11 DEF P3!Step
  <2> QED
    BY <1>2, <2>1, <2>2 DEF P3!Next
<1> QED
  BY <1>1, <1>2, PTL DEF P3!Spec

(***************************************************************************)
(* P3Partition: no cut goes behind a later one.                            *)
(***************************************************************************)
QuadAt(id)  == P3!LeafAt(id).quad
Alike(i, j) == P3!Level(QuadAt(i)) > 0 /\ P3!IsParent(P3!Parent(QuadAt(i)), QuadAt(j))

(* Quadrants that look like siblings have one level and one parent. *)
LEMMA AlikeIs ==
  ASSUME NEW i, NEW j, QuadAt(i) \in Seq(P3!ChildIds), QuadAt(j) \in Seq(P3!ChildIds)
  PROVE  Alike(i, j) <=> /\ Len(QuadAt(i)) > 0 /\ Len(QuadAt(j)) = Len(QuadAt(i))
                         /\ SubSeq(QuadAt(i), 1, Len(QuadAt(i)) - 1) = SubSeq(QuadAt(j), 1, Len(QuadAt(j)) - 1)
<1> DEFINE q == QuadAt(i)
           r == QuadAt(j)
           parent == SubSeq(q, 1, Len(q) - 1)
<1>1. Len(q) \in Nat /\ Len(r) \in Nat
  OBVIOUS
<1> HIDE DEF q, r
<1>2. P3!Parent(q) = parent /\ P3!Level(q) = Len(q) /\ P3!Level(r) = Len(r)
  BY DEF P3!Parent, P3!Ancestor, P3!Level
<1>3. Len(q) > 0 => Len(parent) = Len(q) - 1
  <2> SUFFICES ASSUME Len(q) > 0 PROVE Len(parent) = Len(q) - 1
    OBVIOUS
  <2>1. q \in Seq(P3!ChildIds)
    BY DEF q
  <2>2. 1 \in Int /\ Len(q) - 1 \in Int /\ \A k \in 1 .. Len(q) - 1 : q[k] \in P3!ChildIds
    BY <1>1, <2>1
  <2>3. Len(parent) = IF 1 <= Len(q) - 1 THEN (Len(q) - 1) - 1 + 1 ELSE 0
    BY <2>2, SubSeqProperties
  <2> DEFINE l == Len(q)
  <2>4. l \in Nat /\ l > 0 /\ Len(parent) = IF 1 <= l - 1 THEN (l - 1) - 1 + 1 ELSE 0
    BY <1>1, <2>3
  <2> HIDE DEF l, parent
  <2>5. Len(parent) = l - 1
    BY <2>4
  <2> QED
    BY <2>5 DEF l
<1> HIDE DEF parent
<1>4. P3!IsParent(parent, r) <=> /\ Len(parent) + 1 = Len(r) /\ Len(parent) < Len(r)
                                 /\ SubSeq(r, 1, Len(parent)) = parent
  BY DEF P3!IsParent, P3!IsAncestor, P3!Level, P3!Ancestor
<1>5. Alike(i, j) <=> Len(q) > 0 /\ P3!IsParent(parent, r)
  BY <1>2 DEF Alike, q, r
<1>6. CASE Len(q) > 0
  <2>1. Len(parent) = Len(q) - 1
    BY <1>3, <1>6
  <2>2. P3!IsParent(parent, r) <=> Len(r) = Len(q) /\ SubSeq(r, 1, Len(q) - 1) = parent
    BY <1>1, <1>4, <2>1
  <2> QED
    BY <1>5, <1>6, <2>2 DEF parent, q, r
<1>7. CASE ~ (Len(q) > 0)
  BY <1>5, <1>7 DEF q
<1> QED
  BY <1>6, <1>7

(* So this is an equivalence on the quadrants that are no trees, and has      *)
(* classes of at most CHILDREN quadrants.                                     *)
LEMMA AlikeClasses ==
  ASSUME P3!SoundFamilies, CHILDREN \in Nat \ {0}, input \in Cases, input.family, P3!global_num_quads \in Nat
  PROVE  LET ids == 0 .. P3!global_num_quads - 1
         IN  /\ \A i \in ids : QuadAt(i) \in Seq(P3!ChildIds)
             /\ \A i \in ids : P3!Level(QuadAt(i)) > 0 => Alike(i, i)
             /\ \A i, j \in ids : Alike(i, j) => P3!Level(QuadAt(j)) > 0 /\ Alike(j, i)
             /\ \A i, j, k \in ids : Alike(i, j) /\ Alike(j, k) => Alike(i, k)
             /\ \A i, j \in ids : Alike(i, j) => i - j < CHILDREN /\ j - i < CHILDREN
             /\ \A i, j \in ids : Alike(i, j) /\ j - i = CHILDREN - 1 =>
                  \A k \in ids : i <= k /\ k <= j => Alike(i, k)
<1> DEFINE n   == P3!global_num_quads
           ids == 0 .. n - 1
           quad(i) == input.leaves[i].quad
           alike(i, j) == P3!Level(quad(i)) > 0 /\ P3!IsParent(P3!Parent(quad(i)), quad(j))
<1>1. /\ \A i \in 1 .. Len(input.leaves) : quad(i) \in Seq(P3!ChildIds)
      /\ \A i, j \in 1 .. Len(input.leaves) : i <= j /\ alike(i, j) =>
           /\ j - i < CHILDREN
           /\ j - i = CHILDREN - 1 => \A k \in i .. j : alike(i, k)
  BY DEF P3!SoundFamilies
<1>2. n \in Nat /\ n = Len(input.leaves)
  BY DEF P3!global_num_quads
<1>3. \A i \in ids : QuadAt(i) = quad(i + 1)
  BY <1>2 DEF QuadAt, P3!LeafAt
<1>4. \A i, j \in ids : Alike(i, j) <=> alike(i + 1, j + 1)
  BY <1>3 DEF Alike
<1> HIDE DEF alike, quad, n
<1>5. \A i \in ids : QuadAt(i) \in Seq(P3!ChildIds)
  <2> SUFFICES ASSUME NEW i \in ids PROVE QuadAt(i) \in Seq(P3!ChildIds)
    OBVIOUS
  <2>1. i + 1 \in 1 .. Len(input.leaves)
    BY <1>2
  <2> QED
    BY <1>1, <1>3, <2>1
<1>6. \A i, j \in ids :
        Alike(i, j) <=>
          /\ Len(QuadAt(i)) > 0 /\ Len(QuadAt(j)) = Len(QuadAt(i))
          /\ SubSeq(QuadAt(i), 1, Len(QuadAt(i)) - 1) = SubSeq(QuadAt(j), 1, Len(QuadAt(j)) - 1)
  BY <1>5, AlikeIs
<1>7. \A i \in ids : P3!Level(QuadAt(i)) = Len(QuadAt(i))
  BY DEF P3!Level
<1>8. \A i \in ids : P3!Level(QuadAt(i)) > 0 => Alike(i, i)
  BY <1>6, <1>7
<1>9. \A i, j \in ids : Alike(i, j) => P3!Level(QuadAt(j)) > 0 /\ Alike(j, i)
  BY <1>6, <1>7
<1>10. \A i, j, k \in ids : Alike(i, j) /\ Alike(j, k) => Alike(i, k)
  <2> SUFFICES ASSUME NEW i \in ids, NEW j \in ids, NEW k \in ids, Alike(i, j), Alike(j, k)
               PROVE  Alike(i, k)
    OBVIOUS
  <2>1. /\ Len(QuadAt(i)) > 0 /\ Len(QuadAt(k)) = Len(QuadAt(i))
        /\ SubSeq(QuadAt(i), 1, Len(QuadAt(i)) - 1) = SubSeq(QuadAt(k), 1, Len(QuadAt(k)) - 1)
    BY <1>6
  <2> QED
    BY <1>6, <2>1
<1>11. \A i, j \in ids : i <= j /\ Alike(i, j) => j - i < CHILDREN
  <2> SUFFICES ASSUME NEW i \in ids, NEW j \in ids, i <= j, Alike(i, j) PROVE j - i < CHILDREN
    OBVIOUS
  <2>1. i + 1 \in 1 .. Len(input.leaves) /\ j + 1 \in 1 .. Len(input.leaves) /\ i + 1 <= j + 1
    BY <1>2
  <2>2. (j + 1) - (i + 1) < CHILDREN
    BY <1>1, <1>4, <2>1
  <2> QED
    BY <1>2, <2>2
<1>12. \A i, j \in ids : Alike(i, j) => i - j < CHILDREN /\ j - i < CHILDREN
  <2> SUFFICES ASSUME NEW i \in ids, NEW j \in ids, Alike(i, j)
               PROVE  i - j < CHILDREN /\ j - i < CHILDREN
    OBVIOUS
  <2>1. Alike(j, i)
    BY <1>9
  <2>2. i <= j => j - i < CHILDREN
    BY <1>11
  <2>3. j <= i => i - j < CHILDREN
    BY <1>11, <2>1
  <2> QED
    BY <1>2, <2>2, <2>3
<1>13. ASSUME NEW i \in ids, NEW j \in ids, Alike(i, j), j - i = CHILDREN - 1,
              NEW k \in ids, i <= k, k <= j
       PROVE  Alike(i, k)
  <2>1. i + 1 \in 1 .. Len(input.leaves) /\ j + 1 \in 1 .. Len(input.leaves) /\ i + 1 <= j + 1
          /\ k + 1 \in i + 1 .. j + 1 /\ (j + 1) - (i + 1) = CHILDREN - 1
    BY <1>2, <1>13
  <2>2. alike(i + 1, k + 1)
    BY <1>1, <1>4, <1>13, <2>1
  <2> QED
    BY <1>4, <2>2
<1> QED
  BY <1>5, <1>8, <1>9, <1>10, <1>12, <1>13 DEF n

(* The scan around a quadrant finds its whole class. *)
LEMMA ScanFindsAll ==
  ASSUME P3!SoundFamilies, CHILDREN \in Nat \ {0}, input \in Cases, input.family, P3!global_num_quads \in Nat,
         NEW id \in 0 .. P3!global_num_quads - 1, P3!Level(QuadAt(id)) > 0
  PROVE  P3!Relatives(id) = { i \in 0 .. P3!global_num_quads - 1 : Alike(id, i) }
<1> DEFINE n == P3!global_num_quads
           low == P3!High(id - (CHILDREN - 1), 0)
           high == P3!Low(id + (CHILDREN - 1), n - 1)
<1>1. P3!Relatives(id) = { i \in low .. high : P3!IsParent(P3!Parent(QuadAt(id)), QuadAt(i)) }
  BY DEF P3!Relatives, QuadAt
<1>2. \A i \in 0 .. n - 1 : Alike(id, i) => id - i < CHILDREN /\ i - id < CHILDREN
  BY AlikeClasses
<1>3. n \in Nat /\ id \in 0 .. n - 1
  OBVIOUS
<1>4. low = (IF id - (CHILDREN - 1) < 0 THEN 0 ELSE id - (CHILDREN - 1))
      /\ high = IF id + (CHILDREN - 1) < n - 1 THEN id + (CHILDREN - 1) ELSE n - 1
  BY DEF P3!High, P3!Low
<1> HIDE DEF n, low, high
<1>5. \A i : i \in low .. high <=> i \in 0 .. n - 1 /\ id - i < CHILDREN /\ i - id < CHILDREN
  BY <1>3, <1>4
<1>6. \A i : Alike(id, i) <=> P3!IsParent(P3!Parent(QuadAt(id)), QuadAt(i))
  BY DEF Alike
<1>7. P3!Relatives(id) = { i \in 0 .. n - 1 : Alike(id, i) }
  BY <1>1, <1>2, <1>5, <1>6
<1> QED
  BY <1>7 DEF n

\* A cut in front of the quadrant x is moved: x is of a complete family.
Moved(x) ==
  /\ x \in 0 .. P3!global_num_quads - 1 /\ P3!Level(QuadAt(x)) > 0
  /\ P3!Max(P3!Relatives(x)) - P3!Min(P3!Relatives(x)) + 1 = CHILDREN

(* Complete families are intervals, the same from each of their quadrants. *)
LEMMA FamilySeen ==
  ASSUME P3!SoundFamilies, CHILDREN \in Nat \ {0}, input \in Cases, input.family, P3!global_num_quads \in Nat,
         NEW x, Moved(x)
  PROVE  LET near == P3!Relatives(x)
             low  == P3!Min(near)
             high == P3!Max(near)
         IN  /\ low \in 0 .. P3!global_num_quads - 1 /\ high \in 0 .. P3!global_num_quads - 1
             /\ low <= x /\ x <= high /\ high - low = CHILDREN - 1
             /\ \A y \in low .. high : Moved(y) /\ P3!Relatives(y) = near
<1> DEFINE n == P3!global_num_quads
           near == P3!Relatives(x)
           low  == P3!Min(near)
           high == P3!Max(near)
<1>1. /\ n \in Nat /\ n - 1 \in Int /\ x \in 0 .. n - 1 /\ P3!Level(QuadAt(x)) > 0
      /\ high - low + 1 = CHILDREN
  BY DEF Moved
<1>2. near = { i \in 0 .. n - 1 : Alike(x, i) }
  BY <1>1, ScanFindsAll
<1>3. x \in near
  BY <1>1, <1>2, AlikeClasses
<1>4. near \in SUBSET (0 .. n - 1) /\ near # {}
  BY <1>2, <1>3
<1> HIDE DEF n, near
<1>5. low \in near /\ high \in near /\ \A i \in near : low <= i /\ i <= high
  BY <1>1, <1>4, FirstAndLast
<1> HIDE DEF low, high
<1>6. low \in 0 .. n - 1 /\ high \in 0 .. n - 1 /\ low <= x /\ x <= high /\ high - low = CHILDREN - 1
  BY <1>1, <1>3, <1>4, <1>5
<1>7. ASSUME NEW y \in low .. high PROVE Moved(y) /\ P3!Relatives(y) = near
  <2>1. y \in 0 .. n - 1 /\ low <= y /\ y <= high
    BY <1>1, <1>6
  <2>2. Alike(x, low) /\ Alike(x, high)
    BY <1>2, <1>5
  <2>3. Alike(low, x)
    BY <1>1, <1>6, <2>2, AlikeClasses DEF n
  <2>4. Alike(low, high)
    BY <1>1, <1>6, <2>2, <2>3, AlikeClasses DEF n
  <2>5. Alike(low, y)
    BY <1>6, <2>1, <2>4, AlikeClasses DEF n
  <2>6. Alike(x, y)
    BY <1>1, <1>6, <2>1, <2>2, <2>5, AlikeClasses DEF n
  <2>7. P3!Level(QuadAt(y)) > 0 /\ Alike(y, x)
    BY <1>1, <2>1, <2>6, AlikeClasses DEF n
  <2>8. P3!Relatives(y) = { i \in 0 .. n - 1 : Alike(y, i) }
    BY <2>1, <2>7, ScanFindsAll DEF n
  <2>9. \A i \in 0 .. n - 1 : Alike(y, i) <=> Alike(x, i)
    BY <1>1, <2>1, <2>6, <2>7, AlikeClasses DEF n
  <2>10. P3!Relatives(y) = near
    BY <1>2, <2>8, <2>9
  <2> QED
    BY <1>1, <2>1, <2>7, <2>10 DEF Moved, n, low, high
<1> QED
  BY <1>6, <1>7 DEF n, near, low, high

\* The uncorrected cuts off of n quadrants.
Cutting(off, n) ==
  /\ NumProcs \in Nat \ {0} /\ n \in Nat /\ off \in [0 .. NumProcs -> 0 .. n]
  /\ off[0] = 0 /\ off[NumProcs] = n
  /\ \A r, s \in 0 .. NumProcs : r <= s => off[r] <= off[s]
\* How many of low .. high process i has (below 1: none), and the lowest process
\* with the most.
Share(off, low, high, i) == P3!Low(high, off[i + 1] - 1) - P3!High(low, off[i]) + 1
IsKeeper(off, low, high, m) ==
  /\ m \in P3!Procs
  /\ \A j \in P3!Procs : \/ Share(off, low, high, j) < Share(off, low, high, m)
                         \/ Share(off, low, high, j) = Share(off, low, high, m) /\ m <= j

(* What a share is. *)
LEMMA ShareIs ==
  ASSUME NEW n, NEW off, Cutting(off, n), NEW low \in 0 .. n - 1, NEW high \in 0 .. n - 1,
         NEW i \in P3!Procs
  PROVE  /\ i \in 0 .. NumProcs /\ i + 1 \in 0 .. NumProcs
         /\ off[i] \in Nat /\ off[i + 1] \in Nat /\ off[i] <= off[i + 1] /\ off[i + 1] <= n
         /\ Share(off, low, high, i) \in Int /\ Share(off, low, high, i) <= high + 1
         /\ off[i + 1] <= low => Share(off, low, high, i) <= 0
         /\ off[i] > high => Share(off, low, high, i) <= 0
         /\ off[i + 1] <= high + 1 => Share(off, low, high, i) = P3!DownShare(off, low, i)
         /\ low <= off[i] => Share(off, low, high, i) = P3!UpShare(off, high, i)
<1> DEFINE x == off[i]
           y == off[i + 1]
<1>1. i \in 0 .. NumProcs /\ i + 1 \in 0 .. NumProcs /\ i <= i + 1
  BY DEF Cutting, P3!Procs
<1>2. x \in 0 .. n /\ y \in 0 .. n /\ x <= y /\ n \in Nat
  BY <1>1 DEF Cutting
<1>3. /\ Share(off, low, high, i) = (IF high < y - 1 THEN high ELSE y - 1) - (IF low < x THEN x ELSE low) + 1
      /\ P3!DownShare(off, low, i) = y - (IF low < x THEN x ELSE low)
      /\ P3!UpShare(off, high, i) = (IF high < y - 1 THEN high ELSE y - 1) - x + 1
  BY DEF Share, P3!DownShare, P3!UpShare, P3!Low, P3!High
<1> HIDE DEF x, y
<1>4. /\ Share(off, low, high, i) \in Int /\ Share(off, low, high, i) <= high + 1
      /\ y <= low => Share(off, low, high, i) <= 0
      /\ x > high => Share(off, low, high, i) <= 0
      /\ y <= high + 1 => Share(off, low, high, i) = P3!DownShare(off, low, i)
      /\ low <= x => Share(off, low, high, i) = P3!UpShare(off, high, i)
  BY <1>2, <1>3
<1> QED
  BY <1>1, <1>2, <1>4 DEF x, y

(* The two searches from a process that begins inside of a family find the    *)
(* lowest process with the most of it, wherever they start.                   *)
LEMMA KeeperFound ==
  ASSUME NEW n, NEW off, Cutting(off, n), NEW low \in 0 .. n - 1, NEW high \in 0 .. n - 1,
         NEW r \in P3!Procs, low <= off[r], off[r] <= high
  PROVE  IsKeeper(off, low, high, P3!RankWithMaxQuads(off, low, high, r))
<1> DEFINE sh(i) == Share(off, low, high, i)
           up    == [i \in P3!Procs |-> P3!UpShare(off, high, i)]
           found == [i \in P3!Procs |-> IF i < r THEN P3!DownShare(off, low, i) ELSE up[i]]
           D     == P3!DownFrom(off, low, r) \union {r}
           down  == P3!Largest(found, D)
           best  == [up EXCEPT ![down] = found[down]]
           U     == P3!UpFrom(off, high, down) \union {down}
           m     == P3!Largest(best, U)
<1>1. P3!RankWithMaxQuads(off, low, high, r) = m
  BY DEF P3!RankWithMaxQuads
<1>2. /\ NumProcs \in Nat \ {0} /\ n \in Nat /\ off \in [0 .. NumProcs -> 0 .. n]
      /\ off[NumProcs] = n /\ \A i, j \in 0 .. NumProcs : i <= j => off[i] <= off[j]
      /\ P3!Procs = 0 .. NumProcs - 1 /\ high + 1 \in Int
  BY DEF Cutting, P3!Procs
<1>3. \A i \in P3!Procs :
        /\ i \in 0 .. NumProcs /\ i + 1 \in 0 .. NumProcs
        /\ off[i] \in Nat /\ off[i + 1] \in Nat /\ off[i] <= off[i + 1] /\ off[i + 1] <= n
        /\ sh(i) \in Int /\ sh(i) <= high + 1
        /\ off[i + 1] <= low => sh(i) <= 0
        /\ off[i] > high => sh(i) <= 0
        /\ off[i + 1] <= high + 1 => sh(i) = P3!DownShare(off, low, i)
        /\ low <= off[i] => sh(i) = P3!UpShare(off, high, i)
  BY ShareIs
<1>4. /\ \A i \in P3!Procs : up[i] = P3!UpShare(off, high, i)
      /\ \A i \in P3!Procs : found[i] = IF i < r THEN P3!DownShare(off, low, i) ELSE up[i]
  OBVIOUS
<1>5. \A i : i \in D <=> i = r \/ (i \in 0 .. r - 1 /\ \A j \in i .. r - 1 : low < off[j + 1])
  BY DEF P3!DownFrom
<1>6. best = [up EXCEPT ![down] = found[down]] /\ DOMAIN up = P3!Procs
  OBVIOUS
<1>7. \A i : i \in U <=>
        i = down \/ (i \in down + 1 .. NumProcs - 1 /\ \A j \in down + 1 .. i : off[j] <= high)
  BY DEF P3!UpFrom
<1>8. D \in SUBSET P3!Procs /\ D # {}
  BY <1>2, <1>5
<1> HIDE DEF sh, up, found, D
<1>9. \A i \in D : found[i] = sh(i)
  <2> SUFFICES ASSUME NEW i \in D PROVE found[i] = sh(i)
    OBVIOUS
  <2>1. i \in P3!Procs /\ i <= r
    BY <1>2, <1>5
  <2>2. CASE i = r
    <3>1. ~ (r < r)
      BY <1>2
    <3>2. found[r] = P3!UpShare(off, high, r)
      BY <1>4, <3>1
    <3> QED
      BY <1>3, <2>2, <3>2
  <2>3. CASE i < r
    <3>1. i + 1 <= r /\ i + 1 \in 0 .. NumProcs /\ r \in 0 .. NumProcs
      BY <1>2, <2>1, <2>3
    <3>2. off[i + 1] <= off[r] /\ off[i + 1] \in Nat /\ off[r] \in Nat
      BY <1>2, <1>3, <2>1, <3>1
    <3>3. off[i + 1] <= high + 1
      BY <3>2
    <3> QED
      BY <1>3, <1>4, <2>1, <2>3, <3>3
  <2> QED
    BY <1>2, <2>1, <2>2, <2>3
<1>10. down \in D /\ \A j \in D : sh(j) < sh(down) \/ (sh(j) = sh(down) /\ down <= j)
  <2>1. \A i \in D : found[i] \in Int /\ found[i] <= high + 1
    BY <1>3, <1>8, <1>9
  <2>2. down \in D /\ \A j \in D : found[j] < found[down] \/ (found[j] = found[down] /\ down <= j)
    BY <1>2, <1>8, <2>1, LargestExists
  <2> HIDE DEF down
  <2> QED
    BY <1>9, <2>2
<1> HIDE DEF down
<1>11. down \in P3!Procs /\ down <= r /\ sh(down) \in Int
  <2>1. down \in P3!Procs
    BY <1>8, <1>10
  <2>2. down = r \/ down \in 0 .. r - 1
    BY <1>5, <1>10
  <2>3. down <= r
    BY <1>2, <2>2
  <2> QED
    BY <1>3, <2>1, <2>3
<1>12. \A i \in P3!Procs : down < i => low <= off[i]
  <2> SUFFICES ASSUME NEW i \in P3!Procs, down < i PROVE low <= off[i]
    OBVIOUS
  <2>1. down + 1 \in 0 .. NumProcs /\ i \in 0 .. NumProcs /\ down + 1 <= i /\ r \in 0 .. NumProcs
    BY <1>2, <1>11
  <2>2. off[down + 1] <= off[i] /\ off[down + 1] \in Nat /\ off[i] \in Nat /\ off[r] \in Nat
    BY <1>2, <2>1
  <2>3. CASE down = r
    BY <1>2, <2>1, <2>2, <2>3
  <2>4. CASE down # r
    <3>1. low < off[down + 1]
      BY <1>5, <1>10, <1>11, <2>4
    <3> QED
      BY <2>2, <3>1
  <2> QED
    BY <2>3, <2>4
<1>13. U \in SUBSET P3!Procs /\ down \in U
  BY <1>2, <1>7, <1>11
<1> HIDE DEF U
<1>14. \A i \in U : best[i] = sh(i)
  <2> SUFFICES ASSUME NEW i \in U PROVE best[i] = sh(i)
    OBVIOUS
  <2>1. CASE i = down
    BY <1>6, <1>9, <1>10, <1>11, <2>1
  <2>2. CASE i # down
    <3>1. i \in P3!Procs /\ down < i
      <4>1. i \in down + 1 .. NumProcs - 1
        BY <1>7, <2>2
      <4> QED
        BY <1>2, <1>11, <4>1
    <3>2. best[i] = up[i]
      BY <1>6, <2>2, <3>1
    <3> QED
      BY <1>3, <1>4, <1>12, <3>1, <3>2
  <2> QED
    BY <2>1, <2>2
<1> HIDE DEF best
<1>15. m \in U /\ \A j \in U : sh(j) < sh(m) \/ (sh(j) = sh(m) /\ m <= j)
  <2>1. \A i \in U : best[i] \in Int /\ best[i] <= high + 1
    BY <1>3, <1>13, <1>14
  <2>2. U # {}
    BY <1>13
  <2>3. m \in U /\ \A j \in U : best[j] < best[m] \/ (best[j] = best[m] /\ m <= j)
    BY <1>2, <1>13, <2>1, <2>2, LargestExists
  <2> HIDE DEF m
  <2> QED
    BY <1>14, <2>3
<1> HIDE DEF m
<1>16. m \in P3!Procs /\ sh(m) \in Int
  BY <1>3, <1>13, <1>15
\* somebody has the quadrant off[r]
<1>17. PICK k \in U : sh(k) >= 1
  <2> DEFINE K == { i \in 0 .. NumProcs : off[i] > off[r] }
  <2>1. K \in SUBSET Nat /\ NumProcs \in K
    <3>1. off[r] \in Nat /\ off[r] < n
      BY <1>2, <1>3
    <3> QED
      BY <1>2, <3>1
  <2>2. PICK e \in K : \A i \in K : e <= i
    BY <2>1, LeastElement
  <2>3. e \in 0 .. NumProcs /\ off[e] > off[r]
    OBVIOUS
  <2>4. r < e
    <3> SUFFICES ASSUME e <= r PROVE FALSE
      BY <1>2, <2>3
    <3>1. off[e] <= off[r]
      BY <1>2, <2>3
    <3>2. off[e] \in Nat /\ off[r] \in Nat
      BY <1>2, <2>3
    <3> QED
      BY <2>3, <3>1, <3>2
  <2> DEFINE k == e - 1
  <2>5. k \in P3!Procs /\ r <= k /\ k + 1 = e /\ k \in 0 .. NumProcs /\ r \in 0 .. NumProcs
    BY <1>2, <2>3, <2>4
  <2>6. k \notin K
    BY <2>2, <2>3, <2>5
  <2> HIDE DEF k
  <2>7. off[k] \in Nat /\ off[r] \in Nat /\ off[k + 1] \in Nat /\ off[r] <= off[k] /\ off[k] <= off[r]
    <3>1. off[k] \in 0 .. n /\ off[r] \in 0 .. n /\ off[k + 1] \in 0 .. n /\ off[r] <= off[k]
      BY <1>2, <2>3, <2>5
    <3>2. ~ (off[k] > off[r])
      BY <2>5, <2>6
    <3> QED
      BY <1>2, <3>1, <3>2
  <2>8. sh(k) = P3!UpShare(off, high, k) /\ off[k + 1] > off[k]
    BY <1>3, <2>3, <2>5, <2>7
  <2>9. P3!UpShare(off, high, k) >= 1
    <3>1. P3!UpShare(off, high, k) = (IF high < off[k + 1] - 1 THEN high ELSE off[k + 1] - 1) - off[k] + 1
      BY DEF P3!UpShare, P3!Low
    <3> DEFINE x == off[k]
               y == off[k + 1]
    <3>2. /\ P3!UpShare(off, high, k) = (IF high < y - 1 THEN high ELSE y - 1) - x + 1
          /\ x \in Nat /\ y \in Nat /\ x <= high /\ x < y /\ high \in Int
      BY <2>7, <2>8, <3>1
    <3> HIDE DEF x, y
    <3> QED
      BY <3>2
  <2>10. k \in U
    <3>1. CASE k = down
      BY <1>7, <3>1
    <3>2. CASE k # down
      <4>1. k \in down + 1 .. NumProcs - 1
        BY <1>2, <1>11, <2>5, <3>2
      <4>2. ASSUME NEW j \in down + 1 .. k PROVE off[j] <= high
        <5>1. j \in 0 .. NumProcs /\ j <= k
          BY <1>2, <1>11, <2>5
        <5>2. off[j] <= off[k] /\ off[j] \in 0 .. n
          BY <1>2, <2>5, <5>1
        <5> QED
          BY <1>2, <2>7, <5>2
      <4> QED
        BY <1>7, <4>1, <4>2
    <3> QED
      BY <3>1, <3>2
  <2> QED
    BY <2>8, <2>9, <2>10
<1>18. sh(m) >= 1
  <2>1. sh(k) \in Int /\ (sh(k) < sh(m) \/ sh(k) = sh(m))
    BY <1>3, <1>13, <1>15, <1>17
  <2> QED
    BY <1>16, <1>17, <2>1
<1>19. ASSUME NEW j \in P3!Procs PROVE sh(j) < sh(m) \/ (sh(j) = sh(m) /\ m <= j)
  <2>1. CASE j \in U
    BY <1>15, <2>1
  <2>2. CASE j \notin U /\ down < j
    <3>6. j \in down + 1 .. NumProcs - 1
      BY <1>2, <1>11, <2>2
    <3>7. ~ \A i \in down + 1 .. j : off[i] <= high
      BY <1>7, <2>2, <3>6
    <3>1. PICK i \in down + 1 .. j : ~ (off[i] <= high)
      BY <3>7
    <3>2. i \in 0 .. NumProcs /\ j \in 0 .. NumProcs /\ i <= j
      BY <1>2, <1>11
    <3>3. off[i] <= off[j] /\ off[i] \in 0 .. n /\ off[j] \in 0 .. n
      BY <1>2, <3>2
    <3>4. off[j] > high
      BY <1>2, <3>1, <3>3
    <3>5. sh(j) <= 0 /\ sh(j) \in Int
      BY <1>3, <3>4
    <3> QED
      BY <1>16, <1>18, <3>5
  <2>3. CASE j < down /\ j \in D
    <3>1. sh(j) < sh(down)
      BY <1>2, <1>10, <1>11, <2>3
    <3>2. sh(down) <= sh(m)
      BY <1>11, <1>13, <1>15, <1>16
    <3> QED
      BY <1>3, <1>11, <1>16, <3>1, <3>2
  <2>4. CASE j < down /\ j \notin D
    <3>6. j \in 0 .. r - 1
      BY <1>2, <1>11, <2>4
    <3>7. ~ \A i \in j .. r - 1 : low < off[i + 1]
      BY <1>5, <2>4, <3>6
    <3>1. PICK i \in j .. r - 1 : ~ (low < off[i + 1])
      BY <3>7
    <3>2. j + 1 \in 0 .. NumProcs /\ i + 1 \in 0 .. NumProcs /\ j + 1 <= i + 1
      BY <1>2
    <3>3. off[j + 1] <= off[i + 1] /\ off[j + 1] \in 0 .. n /\ off[i + 1] \in 0 .. n
      BY <1>2, <3>2
    <3>4. off[j + 1] <= low
      BY <1>2, <3>1, <3>3
    <3>5. sh(j) <= 0 /\ sh(j) \in Int
      BY <1>3, <3>4
    <3> QED
      BY <1>16, <1>18, <3>5
  <2>5. j = down => j \in U
    BY <1>13
  <2> QED
    BY <1>2, <1>11, <2>1, <2>2, <2>3, <2>4, <2>5
<1>20. IsKeeper(off, low, high, m)
  BY <1>16, <1>19 DEF IsKeeper, sh
<1> QED
  BY <1>1, <1>20

(* There is only one such process. *)
LEMMA OneKeeper ==
  ASSUME NEW n, NEW off, Cutting(off, n), NEW low \in 0 .. n - 1, NEW high \in 0 .. n - 1,
         NEW m, NEW k, IsKeeper(off, low, high, m), IsKeeper(off, low, high, k)
  PROVE  m = k
<1>1. m \in P3!Procs /\ k \in P3!Procs /\ m \in Int /\ k \in Int
  BY DEF IsKeeper, P3!Procs, Cutting
<1>2. Share(off, low, high, m) \in Int /\ Share(off, low, high, k) \in Int
  BY <1>1, ShareIs
<1> QED
  BY <1>1, <1>2 DEF IsKeeper

(* What becomes of one cut. *)
LEMMA CutMoves ==
  ASSUME P3!SoundFamilies, CHILDREN \in Nat \ {0}, SourceKnown, input \in Cases, input.family,
         NEW off, Cutting(off, P3!global_num_quads),
         NEW r \in P3!Procs, off[r] \in 0 .. P3!global_num_quads - 1
  PROVE  LET x    == off[r]
             low  == P3!Min(P3!Relatives(x))
             high == P3!Max(P3!Relatives(x))
             m    == P3!RankWithMaxQuads(off, low, high, r)
         IN  /\ ~ Moved(x) => P3!CorrectedCut(off, r) = x
             /\ Moved(x) => /\ P3!CorrectedCut(off, r) = (IF m < r THEN high + 1 ELSE low)
                            /\ IsKeeper(off, low, high, m)
<1> DEFINE n    == P3!global_num_quads
           x    == off[r]
           near == P3!Relatives(x)
           low  == P3!Min(near)
           high == P3!Max(near)
           m    == P3!RankWithMaxQuads(off, low, high, r)
<1>1. n \in Nat /\ relatives = [id \in 0 .. n |-> P3!Relatives(id)] /\ x \in 0 .. n - 1
  BY DEF SourceKnown
<1>2. relatives[x] = near
  <2> HIDE DEF x
  <2> QED
    BY <1>1
<1>3. r # NumProcs
  BY DEF P3!Procs, Cutting
<1>4. P3!CorrectedCut(off, r) =
        IF \/ P3!Level(QuadAt(x)) = 0 \/ near = {} \/ high - low + 1 # CHILDREN
        THEN x ELSE IF m < r THEN high + 1 ELSE low
  BY <1>2, <1>3 DEF P3!CorrectedCut, QuadAt
<1>5. P3!Level(QuadAt(x)) \in Nat
  <2>1. QuadAt(x) \in Seq(P3!ChildIds)
    BY <1>1, AlikeClasses
  <2> QED
    BY <2>1 DEF P3!Level
<1>6. CASE Moved(x)
  <2>1. low \in 0 .. n - 1 /\ high \in 0 .. n - 1 /\ low <= x /\ x <= high
    BY <1>1, <1>6, FamilySeen
  <2>2. near # {}
    <3>1. P3!Relatives(x) = { i \in 0 .. n - 1 : Alike(x, i) } /\ Alike(x, x)
      BY <1>1, <1>6, ScanFindsAll, AlikeClasses DEF Moved
    <3> QED
      BY <1>1, <3>1
  <2>3. ~ (P3!Level(QuadAt(x)) = 0) /\ high - low + 1 = CHILDREN
    BY <1>5, <1>6 DEF Moved
  <2>4. P3!CorrectedCut(off, r) = IF m < r THEN high + 1 ELSE low
    BY <1>4, <2>2, <2>3
  <2>5. IsKeeper(off, low, high, m)
    <3> HIDE DEF low, high
    <3> QED
      BY <2>1, KeeperFound
  <2> QED
    BY <1>6, <2>4, <2>5
<1>7. CASE ~ Moved(x)
  <2>1. P3!Level(QuadAt(x)) = 0 \/ high - low + 1 # CHILDREN
    BY <1>1, <1>5, <1>7 DEF Moved
  <2> QED
    BY <1>4, <1>7, <2>1
<1> QED
  BY <1>6, <1>7

(* Corrected cuts ascend as those they are made from. *)
LEMMA CorrectedAscend ==
  ASSUME P3!SoundFamilies, CHILDREN \in Nat \ {0}, SourceKnown, input \in Cases, input.family,
         NEW off, Cutting(off, P3!global_num_quads),
         \A r \in P3!Procs : off[r] \in 0 .. P3!global_num_quads - 1,
         NEW r \in 0 .. NumProcs, NEW s \in 0 .. NumProcs, r <= s
  PROVE  P3!CorrectedCut(off, r) <= P3!CorrectedCut(off, s)
<1> DEFINE n == P3!global_num_quads
           Lowest(x) == P3!Min(P3!Relatives(x))
           Highest(x) == P3!Max(P3!Relatives(x))
           Rank(t) == P3!RankWithMaxQuads(off, Lowest(off[t]), Highest(off[t]), t)
           cut(t)  == P3!CorrectedCut(off, t)
<1>1. /\ n \in Nat /\ NumProcs \in Nat \ {0} /\ P3!Procs = 0 .. NumProcs - 1
      /\ off \in [0 .. NumProcs -> 0 .. n] /\ off[NumProcs] = n
      /\ \A i, j \in 0 .. NumProcs : i <= j => off[i] <= off[j]
  BY DEF Cutting, P3!Procs
<1>2. \A t \in 0 .. NumProcs : cut(t) \in 0 .. n
  BY <1>1, CorrectedCuts DEF CutsType
<1>3. cut(NumProcs) = n
  BY <1>1, CorrectedCuts DEF CutsType
<1>4. \A t \in P3!Procs :
        /\ ~ Moved(off[t]) => cut(t) = off[t]
        /\ Moved(off[t]) => /\ cut(t) = (IF Rank(t) < t THEN Highest(off[t]) + 1 ELSE Lowest(off[t]))
                            /\ IsKeeper(off, Lowest(off[t]), Highest(off[t]), Rank(t))
  BY CutMoves
<1>5. \A x : Moved(x) =>
        /\ Lowest(x) \in 0 .. n - 1 /\ Highest(x) \in 0 .. n - 1
        /\ Lowest(x) <= x /\ x <= Highest(x)
        /\ \A y \in Lowest(x) .. Highest(x) : Moved(y) /\ P3!Relatives(y) = P3!Relatives(x)
  BY <1>1, FamilySeen
<1>6. \A x, y : Moved(x) /\ y \in Lowest(x) .. Highest(x) => Moved(y) /\ Lowest(y) = Lowest(x) /\ Highest(y) = Highest(x)
  BY <1>5
<1> HIDE DEF cut, Lowest, Highest, Rank
<1>7. CASE s = NumProcs
  BY <1>1, <1>2, <1>3, <1>7 DEF cut
<1>8. CASE r = s
  BY <1>1, <1>2, <1>8 DEF cut
<1>9. CASE r < s /\ s < NumProcs
  <2> DEFINE x == off[r]
             y == off[s]
  <2>1. r \in P3!Procs /\ s \in P3!Procs /\ r \in Nat /\ s \in Nat
    BY <1>1, <1>9
  <2>2. x <= y /\ x \in 0 .. n - 1 /\ y \in 0 .. n - 1
    BY <1>1, <2>1
  <2>3. /\ ~ Moved(x) => cut(r) = x
        /\ Moved(x) => /\ cut(r) = (IF Rank(r) < r THEN Highest(x) + 1 ELSE Lowest(x))
                       /\ IsKeeper(off, Lowest(x), Highest(x), Rank(r))
        /\ ~ Moved(y) => cut(s) = y
        /\ Moved(y) => /\ cut(s) = (IF Rank(s) < s THEN Highest(y) + 1 ELSE Lowest(y))
                       /\ IsKeeper(off, Lowest(y), Highest(y), Rank(s))
    BY <1>4, <2>1
  <2> HIDE DEF n, x, y
  <2>4. CASE Moved(x) /\ y <= Highest(x)
    <3>1. Lowest(x) \in 0 .. n - 1 /\ Highest(x) \in 0 .. n - 1 /\ Lowest(x) <= x
      BY <1>5, <2>4
    <3>2. y \in Lowest(x) .. Highest(x)
      BY <1>1, <2>2, <2>4, <3>1 DEF n
    <3>3. Moved(y) /\ Lowest(y) = Lowest(x) /\ Highest(y) = Highest(x)
      BY <1>6, <2>4, <3>2
    <3>4. IsKeeper(off, Lowest(x), Highest(x), Rank(r)) /\ IsKeeper(off, Lowest(x), Highest(x), Rank(s))
      BY <2>3, <2>4, <3>3
    <3>5. Rank(r) = Rank(s)
      BY <3>1, <3>4, OneKeeper DEF n
    <3>6. Rank(r) \in Int
      BY <1>1, <3>4 DEF IsKeeper
    <3>7. CASE Rank(r) < r
      <4>1. Rank(s) < s
        BY <1>9, <2>1, <3>5, <3>6, <3>7
      <4>2. cut(r) = Highest(x) + 1 /\ cut(s) = Highest(x) + 1
        BY <2>3, <2>4, <3>3, <3>7, <4>1
      <4> QED
        BY <3>1, <4>2 DEF cut
    <3>8. CASE ~ (Rank(r) < r)
      <4>1. cut(r) = Lowest(x) /\ (cut(s) = Lowest(x) \/ cut(s) = Highest(x) + 1)
        BY <2>3, <2>4, <3>3, <3>8
      <4>2. Lowest(x) <= Highest(x) + 1 /\ Lowest(x) <= Lowest(x)
        BY <1>1, <2>2, <3>1, <3>2
      <4> QED
        BY <4>1, <4>2 DEF cut
    <3> QED
      BY <3>7, <3>8
  <2>5. CASE Moved(x) /\ ~ (y <= Highest(x))
    <3>1. Lowest(x) \in 0 .. n - 1 /\ Highest(x) \in 0 .. n - 1 /\ Lowest(x) <= x /\ x <= Highest(x)
      BY <1>5, <2>5
    <3>2. cut(r) = Highest(x) + 1 \/ cut(r) = Lowest(x)
      BY <2>3, <2>5
    <3>3. cut(r) <= Highest(x) + 1 /\ Highest(x) + 1 <= y /\ cut(r) \in Int
      BY <2>2, <2>5, <3>1, <3>2
    <3>4. Highest(x) + 1 <= cut(s)
      <4>1. CASE ~ Moved(y)
        BY <2>3, <3>3, <4>1
      <4>2. CASE Moved(y)
        <5>1. Lowest(y) \in 0 .. n - 1 /\ Highest(y) \in 0 .. n - 1 /\ Lowest(y) <= y /\ y <= Highest(y)
          BY <1>5, <4>2
        <5>2. ~ (Lowest(y) <= Highest(x))
          <6> SUFFICES ASSUME Lowest(y) <= Highest(x) PROVE FALSE
            OBVIOUS
          <6>1. Highest(x) \in Lowest(y) .. Highest(y)
            <7>1. /\ Highest(x) \in Int /\ Lowest(y) \in Int /\ Highest(y) \in Int /\ y \in Int
                  /\ Highest(x) + 1 <= y /\ y <= Highest(y)
              BY <1>1, <2>2, <3>1, <3>3, <5>1 DEF n
            <7> QED
              BY <7>1
          <6>2. Highest(Highest(x)) = Highest(y)
            BY <1>6, <4>2, <6>1
          <6>3. Highest(x) \in Lowest(x) .. Highest(x)
            <7>1. Lowest(x) \in Int /\ Highest(x) \in Int /\ Lowest(x) <= Highest(x)
              BY <1>1, <2>2, <3>1 DEF n
            <7> QED
              BY <7>1
          <6>4. Highest(Highest(x)) = Highest(x)
            BY <1>6, <2>5, <6>3
          <6>5. Highest(x) \in Int /\ Highest(y) \in Int /\ y \in Int
                  /\ Highest(x) + 1 <= y /\ y <= Highest(y)
            BY <1>1, <2>2, <3>1, <3>3, <5>1 DEF n
          <6>6. Highest(x) = Highest(y)
            BY <6>2, <6>4
          <6> QED
            BY <6>5, <6>6
        <5>3. cut(s) = Highest(y) + 1 \/ cut(s) = Lowest(y)
          BY <2>3, <4>2
        <5> QED
          BY <2>2, <3>1, <3>3, <5>1, <5>2, <5>3
      <4> QED
        BY <4>1, <4>2
    <3>5. cut(s) \in Int
      BY <1>2
    <3> QED
      BY <3>1, <3>3, <3>4, <3>5 DEF cut
  <2>6. CASE ~ Moved(x)
    <3>1. cut(r) = x
      BY <2>3, <2>6
    <3>2. CASE ~ Moved(y)
      BY <2>2, <2>3, <3>1, <3>2 DEF cut
    <3>3. CASE Moved(y)
      <4>1. Lowest(y) \in 0 .. n - 1 /\ Highest(y) \in 0 .. n - 1 /\ Lowest(y) <= y /\ y <= Highest(y)
        BY <1>5, <3>3
      <4>2. x < Lowest(y)
        <5> SUFFICES ASSUME Lowest(y) <= x PROVE FALSE
          BY <2>2, <4>1
        <5>1. x \in Lowest(y) .. Highest(y)
          BY <2>2, <4>1
        <5> QED
          BY <1>6, <2>6, <3>3, <5>1
      <4>3. cut(s) = Highest(y) + 1 \/ cut(s) = Lowest(y)
        BY <2>3, <3>3
      <4>4. x <= cut(s)
        BY <2>2, <4>1, <4>2, <4>3
      <4> QED
        BY <3>1, <4>4 DEF cut
    <3> QED
      BY <3>2, <3>3
  <2> QED
    BY <2>4, <2>5, <2>6
<1> QED
  BY <1>1, <1>7, <1>8, <1>9

(* The even cuts ascend, and only the last is behind all quadrants. *)
LEMMA EvenAscend ==
  ASSUME NumProcs \in Nat \ {0}, NEW n \in Nat, NEW p \in 0 .. NumProcs, NEW q \in 0 .. NumProcs, p <= q
  PROVE  /\ P3!Glocut(n, p) <= P3!Glocut(n, q)
         /\ n > 0 /\ p < NumProcs => P3!Glocut(n, p) < n
<1> DEFINE d == (n * p) \div NumProcs
           e == (n * q) \div NumProcs
<1>1. \A x \in Nat : x \div NumProcs \in Nat /\ NumProcs * (x \div NumProcs) <= x
        /\ x < NumProcs * (x \div NumProcs) + NumProcs
  OBVIOUS
<1>2. n * p \in Nat /\ n * q \in Nat /\ n * p <= n * q
  OBVIOUS
<1>3. /\ d \in Nat /\ NumProcs * d <= n * p
      /\ e \in Nat /\ n * q < NumProcs * e + NumProcs
  BY <1>1, <1>2
<1> HIDE DEF d, e
<1>4. d <= e
  <2> SUFFICES ASSUME d >= e + 1 PROVE FALSE
    BY <1>3
  <2>1. NumProcs * d >= NumProcs * (e + 1)
    BY <1>3
  <2>2. NumProcs * (e + 1) = NumProcs * e + NumProcs
    BY <1>3
  <2>3. NumProcs * d \in Nat /\ NumProcs * e \in Nat
    BY <1>3
  <2> QED
    BY <1>2, <1>3, <2>1, <2>2, <2>3
<1>5. ASSUME n > 0, p < NumProcs PROVE d < n
  <2> SUFFICES ASSUME d >= n PROVE FALSE
    BY <1>3
  <2>1. NumProcs * d >= NumProcs * n
    BY <1>3
  <2>2. n * p < n * NumProcs
    BY <1>5
  <2>3. n * NumProcs = NumProcs * n /\ NumProcs * n \in Nat /\ NumProcs * d \in Nat
    BY <1>3
  <2> QED
    BY <1>2, <1>3, <2>1, <2>2, <2>3
<1> QED
  BY <1>4, <1>5 DEF d, e, P3!Glocut

(* The cuts that all processes work out ascend. *)
LEMMA NewCutsAscend ==
  ASSUME P3!ProcsAssumption, P3!SoundRequests, P3!SoundFamilies, CHILDREN \in Nat \ {0},
         SourceKnown, input \in Cases,
         NEW r \in 0 .. NumProcs, NEW s \in 0 .. NumProcs, r <= s
  PROVE  NewOffsets[r] <= NewOffsets[s]
<1> DEFINE n == P3!global_num_quads
<1>1. NumProcs \in Nat \ {0} /\ n \in Nat /\ n > 0 /\ input.family \in BOOLEAN
  BY DEF P3!ProcsAssumption, P3!SoundRequests, P3!global_num_quads
<1>2. EvenOffsets \in CutsType
  BY <1>1, NewCuts
<1>3. \A i \in 0 .. NumProcs : EvenOffsets[i] = P3!Glocut(n, i)
  BY DEF EvenOffsets
<1> HIDE DEF n
<1>4. \A i, j \in 0 .. NumProcs : i <= j => EvenOffsets[i] <= EvenOffsets[j]
  BY <1>1, <1>3, EvenAscend
<1>5. CASE ~ input.family
  BY <1>4, <1>5 DEF NewOffsets
<1>6. CASE input.family
  <2>1. \A i \in P3!Procs : EvenOffsets[i] \in 0 .. n - 1
    <3> SUFFICES ASSUME NEW i \in P3!Procs PROVE EvenOffsets[i] \in 0 .. n - 1
      OBVIOUS
    <3>1. i \in 0 .. NumProcs /\ i < NumProcs
      BY <1>1 DEF P3!Procs
    <3>2. P3!Glocut(n, i) < n /\ P3!Glocut(n, i) \in 0 .. n
      BY <1>1, <3>1, EvenAscend, EvenBounds
    <3> QED
      BY <1>1, <1>3, <3>1, <3>2
  <2>2. EvenOffsets[0] = 0 /\ EvenOffsets[NumProcs] = n
    BY <1>1, <1>3, EvenBounds
  <2>3. Cutting(EvenOffsets, n)
    BY <1>1, <1>2, <1>4, <2>2 DEF Cutting, CutsType, n
  <2>4. P3!CorrectedCut(EvenOffsets, r) <= P3!CorrectedCut(EvenOffsets, s)
    BY <1>1, <1>6, <2>1, <2>3, CorrectedAscend DEF n
  <2> QED
    BY <1>6, <2>4 DEF NewOffsets
<1> QED
  BY <1>1, <1>5, <1>6

(* Each cut by weight has an owner, and the owners' cuts follow each other. *)
LEMMA EachCutOwned ==
  ASSUME P3!ProcsAssumption, P3!SoundRequests, input \in Cases, P3!Weighted,
         NEW i \in P3!Procs
  PROVE  \E p \in P3!Procs : i \in P3!OwnCuts(p)
<1> DEFINE n == P3!global_num_quads
           w == input.weights
           now == input.now
           cut == P3!Glocut(w[n], i)
<1>1. /\ n \in Nat /\ now \in [0 .. NumProcs -> 0 .. n] /\ now[0] = 0 /\ now[NumProcs] = n
      /\ \A q, r \in 0 .. NumProcs : q <= r => now[q] <= now[r]
      /\ w \in [0 .. n -> Nat] /\ w[0] = 0
      /\ \A k, l \in 0 .. n : k <= l => w[k] <= w[l]
      /\ w[now[1]] > 0
  BY RequestIsSound
<1>2. \A id : P3!WeightTo(id) = w[id]
  BY DEF P3!WeightTo
<1>3. /\ NumProcs \in Nat \ {0} /\ i \in 0 .. NumProcs /\ i < NumProcs
      /\ 0 \in P3!Procs /\ 1 \in 0 .. NumProcs
  BY DEF P3!ProcsAssumption, P3!Procs
<1>4. \A r \in P3!Procs : i \in P3!OwnCuts(r) <=> w[now[r]] <= cut /\ cut < w[now[r + 1]]
  BY <1>2 DEF P3!OwnCuts
<1> HIDE DEF n, w, now
<1>5. n \in 0 .. n /\ w[n] \in Nat
  BY <1>1
<1>6. w[n] > 0
  <2>1. now[1] \in 0 .. n /\ now[1] <= n
    BY <1>1, <1>3
  <2>2. w[now[1]] <= w[n] /\ w[now[1]] \in Nat
    BY <1>1, <1>5, <2>1
  <2> QED
    BY <1>1, <1>5, <2>2
<1>7. cut \in Nat /\ cut < w[n]
  <2>1. cut \in 0 .. w[n]
    BY <1>3, <1>5, EvenBounds
  <2>2. cut < w[n]
    BY <1>3, <1>5, <1>6, EvenAscend
  <2> QED
    BY <1>5, <2>1, <2>2
<1> HIDE DEF cut
<1> DEFINE S == { r \in 0 .. NumProcs - 1 : w[now[r]] <= cut }
<1>8. 0 \in S
  BY <1>1, <1>3, <1>7
<1> DEFINE p == P3!Max(S)
<1>9. p \in S /\ \A x \in S : x <= p
  <2>1. S \in SUBSET (0 .. NumProcs - 1) /\ S # {} /\ NumProcs - 1 \in Int
    BY <1>3, <1>8
  <2> HIDE DEF S
  <2> QED
    BY <2>1, FirstAndLast
<1> HIDE DEF p
<1>10. p \in 0 .. NumProcs - 1 /\ w[now[p]] <= cut
  BY <1>9
<1>11. cut < w[now[p + 1]]
  <2>1. CASE p + 1 = NumProcs
    BY <1>1, <1>7, <2>1
  <2>2. CASE p + 1 # NumProcs
    <3>1. p + 1 \in 0 .. NumProcs - 1 /\ ~ (p + 1 <= p)
      BY <1>3, <1>10, <2>2
    <3>2. ~ (w[now[p + 1]] <= cut)
      BY <1>9, <3>1
    <3>3. now[p + 1] \in 0 .. n
      BY <1>1, <1>3, <3>1
    <3>4. w[now[p + 1]] \in Nat
      BY <1>1, <3>3
    <3> QED
      BY <1>7, <3>2, <3>4
  <2> QED
    BY <2>1, <2>2
<1>12. p \in P3!Procs
  BY <1>10 DEF P3!Procs
<1> QED
  BY <1>4, <1>10, <1>11, <1>12

(* The cuts by weight ascend, on one process and from one to the next. *)
LEMMA BordersAscend ==
  ASSUME P3!ProcsAssumption, P3!SoundRequests, input \in Cases, P3!Weighted,
         NEW p \in P3!Procs, NEW q \in P3!Procs,
         NEW i \in P3!OwnCuts(p), NEW j \in P3!OwnCuts(q), i <= j
  PROVE  P3!NewLeftBorder(p, i) <= P3!NewLeftBorder(q, j)
<1> DEFINE n == P3!global_num_quads
           w == input.weights
           now == input.now
           c(k) == P3!Glocut(w[n], k)
<1>1. /\ n \in Nat /\ now \in [0 .. NumProcs -> 0 .. n]
      /\ \A a, b \in 0 .. NumProcs : a <= b => now[a] <= now[b]
      /\ w \in [0 .. n -> Nat]
      /\ \A a, b \in 0 .. n : a <= b => w[a] <= w[b]
  BY RequestIsSound
<1>2. \A id : P3!WeightTo(id) = w[id]
  BY DEF P3!WeightTo
<1>3. NumProcs \in Nat \ {0} /\ P3!Procs = 0 .. NumProcs - 1
  BY DEF P3!ProcsAssumption, P3!Procs
<1>4. \A r \in P3!Procs : P3!OwnCuts(r) =
        { k \in P3!Procs : w[now[r]] <= c(k) /\ c(k) < w[now[r + 1]] }
  BY <1>2 DEF P3!OwnCuts
<1>5. \A r \in P3!Procs, k \in P3!Procs : P3!NewLeftBorder(r, k) =
        P3!Min({ id \in now[r] .. now[r + 1] : w[id] >= c(k) })
  BY <1>2 DEF P3!NewLeftBorder
<1>6. w[n] \in Nat
  <2>1. n \in 0 .. n
    BY <1>1
  <2> QED
    BY <1>1, <2>1
<1>7. \A k \in 0 .. NumProcs : c(k) \in Nat
  <2>1. \A k \in 0 .. NumProcs : c(k) \in 0 .. w[n]
    BY <1>3, <1>6, EvenBounds
  <2> QED
    BY <1>6, <2>1
<1>8. i \in P3!Procs /\ j \in P3!Procs /\ i \in 0 .. NumProcs /\ j \in 0 .. NumProcs
  <2>1. i \in P3!Procs /\ j \in P3!Procs
    BY DEF P3!OwnCuts
  <2> QED
    BY <1>3, <2>1
<1>9. c(i) <= c(j)
  BY <1>3, <1>6, <1>8, EvenAscend
<1>10. /\ w[now[p]] <= c(i) /\ c(i) < w[now[p + 1]]
       /\ w[now[q]] <= c(j) /\ c(j) < w[now[q + 1]]
  BY <1>4
<1> HIDE DEF n, w, now, c
<1>11. ASSUME NEW r \in P3!Procs, NEW k \in P3!Procs, c(k) < w[now[r + 1]]
       PROVE  /\ P3!NewLeftBorder(r, k) \in now[r] .. now[r + 1]
              /\ w[P3!NewLeftBorder(r, k)] >= c(k)
              /\ \A id \in now[r] .. now[r + 1] : w[id] >= c(k) => P3!NewLeftBorder(r, k) <= id
              /\ now[r] \in 0 .. n /\ now[r + 1] \in 0 .. n
  <2> DEFINE S == { id \in now[r] .. now[r + 1] : w[id] >= c(k) }
  <2>1. r \in 0 .. NumProcs /\ r + 1 \in 0 .. NumProcs /\ r <= r + 1 /\ k \in 0 .. NumProcs
    BY <1>3
  <2>2. now[r] \in 0 .. n /\ now[r + 1] \in 0 .. n /\ now[r] <= now[r + 1]
    BY <1>1, <2>1
  <2>3. c(k) \in Nat /\ w[now[r + 1]] \in Nat
    BY <1>1, <1>7, <2>1, <2>2
  <2>4. now[r + 1] \in S
    BY <1>11, <2>2, <2>3
  <2>5. S \in SUBSET (0 .. n)
    <3>1. \A x \in now[r] .. now[r + 1] : x \in 0 .. n
      BY <1>1, <2>2
    <3> QED
      BY <3>1
  <2>6. P3!NewLeftBorder(r, k) = P3!Min(S)
    BY <1>5
  <2> HIDE DEF S
  <2>7. P3!Min(S) \in S /\ \A x \in S : P3!Min(S) <= x
    <3>1. n \in Int /\ S # {}
      BY <1>1, <2>4
    <3> QED
      BY <2>5, <3>1, FirstAndLast
  <2> QED
    BY <2>2, <2>6, <2>7 DEF S
<1> DEFINE a == P3!NewLeftBorder(p, i)
           b == P3!NewLeftBorder(q, j)
<1>12. /\ a \in now[p] .. now[p + 1]
       /\ \A id \in now[p] .. now[p + 1] : w[id] >= c(i) => a <= id
       /\ now[p] \in 0 .. n /\ now[p + 1] \in 0 .. n
  BY <1>8, <1>10, <1>11
<1>13. /\ b \in now[q] .. now[q + 1] /\ w[b] >= c(j)
       /\ now[q] \in 0 .. n /\ now[q + 1] \in 0 .. n
  BY <1>8, <1>10, <1>11
<1> HIDE DEF a, b
<1>14. p \in 0 .. NumProcs /\ p + 1 \in 0 .. NumProcs /\ q \in 0 .. NumProcs /\ q + 1 \in 0 .. NumProcs
  BY <1>3
<1>15. c(i) \in Nat /\ c(j) \in Nat
  BY <1>7, <1>8
<1>16. CASE p = q
  <2>1. b \in 0 .. n /\ w[b] \in Nat
    BY <1>1, <1>13
  <2>2. w[b] >= c(i)
    BY <1>9, <1>13, <1>15, <2>1
  <2> QED
    BY <1>12, <1>13, <1>16, <2>2 DEF a, b
<1>17. CASE p < q
  <2>1. now[p + 1] <= now[q]
    BY <1>1, <1>3, <1>14, <1>17
  <2> QED
    BY <1>1, <1>12, <1>13, <2>1 DEF a, b
<1>18. CASE q < p
  <2>1. now[q + 1] <= now[p]
    BY <1>1, <1>3, <1>14, <1>18
  <2>2. w[now[q + 1]] <= w[now[p]] /\ w[now[q + 1]] \in Nat /\ w[now[p]] \in Nat
    BY <1>1, <1>12, <1>13, <2>1
  <2> QED
    BY <1>9, <1>10, <1>15, <2>2
<1> QED
  BY <1>3, <1>16, <1>17, <1>18

(* No cut by weight has two owners. *)
LEMMA OneOwner ==
  ASSUME P3!ProcsAssumption, P3!SoundRequests, input \in Cases, P3!Weighted,
         NEW p \in P3!Procs, NEW q \in P3!Procs, NEW i \in P3!OwnCuts(p), i \in P3!OwnCuts(q)
  PROVE  p = q
<1> DEFINE n == P3!global_num_quads
           w == input.weights
           now == input.now
           c == P3!Glocut(w[n], i)
<1>1. /\ n \in Nat /\ now \in [0 .. NumProcs -> 0 .. n]
      /\ \A a, b \in 0 .. NumProcs : a <= b => now[a] <= now[b]
      /\ w \in [0 .. n -> Nat]
      /\ \A a, b \in 0 .. n : a <= b => w[a] <= w[b]
  BY RequestIsSound
<1>2. \A id : P3!WeightTo(id) = w[id]
  BY DEF P3!WeightTo
<1>3. NumProcs \in Nat \ {0} /\ P3!Procs = 0 .. NumProcs - 1
  BY DEF P3!ProcsAssumption, P3!Procs
<1>4. /\ w[now[p]] <= c /\ c < w[now[p + 1]]
      /\ w[now[q]] <= c /\ c < w[now[q + 1]] /\ i \in P3!Procs
  BY <1>2 DEF P3!OwnCuts
<1>5. w[n] \in Nat /\ i \in 0 .. NumProcs
  <2>1. n \in 0 .. n
    BY <1>1
  <2>2. w[n] \in Nat
    BY <1>1, <2>1
  <2> QED
    BY <1>3, <1>4, <2>2
<1>6. c \in Nat
  <2>1. c \in 0 .. w[n]
    BY <1>3, <1>5, EvenBounds
  <2> QED
    BY <1>5, <2>1
<1> HIDE DEF n, w, now, c
<1>7. ASSUME NEW a \in P3!Procs, NEW b \in P3!Procs, a < b PROVE w[now[a + 1]] <= w[now[b]]
  <2>1. a + 1 \in 0 .. NumProcs /\ b \in 0 .. NumProcs /\ a + 1 <= b
    BY <1>3, <1>7
  <2>2. now[a + 1] \in 0 .. n /\ now[b] \in 0 .. n /\ now[a + 1] <= now[b]
    BY <1>1, <2>1
  <2> QED
    BY <1>1, <2>2
<1>8. \A a \in P3!Procs : w[now[a]] \in Nat /\ w[now[a + 1]] \in Nat
  <2> SUFFICES ASSUME NEW a \in P3!Procs PROVE w[now[a]] \in Nat /\ w[now[a + 1]] \in Nat
    OBVIOUS
  <2>1. a \in 0 .. NumProcs /\ a + 1 \in 0 .. NumProcs
    BY <1>3
  <2>2. now[a] \in 0 .. n /\ now[a + 1] \in 0 .. n
    BY <1>1, <2>1
  <2> QED
    BY <1>1, <2>2
<1>9. ~ (p < q)
  BY <1>4, <1>6, <1>7, <1>8
<1>10. ~ (q < p)
  BY <1>4, <1>6, <1>7, <1>8
<1> QED
  BY <1>3, <1>9, <1>10

\* With weights, the owner of a cut has written it and nobody changes it.
BordersInv ==
  P3!Weighted => \A p \in P3!Procs : step[p] \notin { "start", "weigh" } =>
    \A i \in P3!OwnCuts(p) : goffset[i] = P3!NewLeftBorder(p, i)

(* A cut that is written stays if the window does. *)
LEMMA BordersStay ==
  ASSUME BordersInv, UNCHANGED input, \A i \in P3!Procs : goffset'[i] = goffset[i],
         \A q \in P3!Procs : step'[q] \notin { "start", "weigh" } => step[q] \notin { "start", "weigh" }
  PROVE  BordersInv'
<1>1. (P3!Weighted <=> P3!Weighted') /\ P3!global_num_quads' = P3!global_num_quads
  BY DEF P3!Weighted, P3!global_num_quads
<1>2. \A id : P3!WeightTo(id)' = P3!WeightTo(id)
  BY DEF P3!WeightTo
<1>3. \A q : P3!OwnCuts(q)' = P3!OwnCuts(q)
  BY <1>1, <1>2 DEF P3!OwnCuts
<1>4. \A q, i : P3!NewLeftBorder(q, i)' = P3!NewLeftBorder(q, i)
  BY <1>1, <1>2 DEF P3!NewLeftBorder
<1>5. \A q : P3!OwnCuts(q) \in SUBSET P3!Procs
  BY DEF P3!OwnCuts
<1>6. ASSUME P3!Weighted, NEW q \in P3!Procs, step'[q] \notin { "start", "weigh" },
             NEW i \in P3!OwnCuts(q)
      PROVE  goffset'[i] = P3!NewLeftBorder(q, i)
  <2>1. goffset[i] = P3!NewLeftBorder(q, i)
    BY <1>6 DEF BordersInv
  <2>2. i \in P3!Procs
    BY <1>5
  <2> QED
    BY <2>1, <2>2
<1> QED
  BY <1>1, <1>3, <1>4, <1>6 DEF BordersInv

(* BordersInv is an invariant. *)
LEMMA BordersHold ==
  ASSUME P3!ProcsAssumption, P3!SoundRequests, CHILDREN \in Nat \ {0}
  PROVE  P3!Spec => []BordersInv
<1>1. P3!Init => BordersInv
  <2>1. ASSUME P3!Init PROVE \A p \in P3!Procs : step[p] = "start"
    BY <2>1 DEF P3!Init
  <2> QED
    BY <2>1 DEF BordersInv
<1>2. ASSUME CutsInv, BordersInv, [P3!Next]_P3!vars PROVE BordersInv'
  <2>1. CASE UNCHANGED P3!vars
    <3>1. UNCHANGED << input, goffset, step >>
      BY <2>1 DEF P3!vars
    <3> QED
      BY <1>2, <3>1, BordersStay
  <2>2. ASSUME NEW p \in P3!Procs, P3!Step(p) PROVE BordersInv'
    <3>0. /\ input \in Cases /\ NumProcs \in Nat \ {0} /\ P3!Procs = 0 .. NumProcs - 1
          /\ step \in [P3!Procs -> CutPlaces] /\ goffset \in CutsType
      BY <1>2 DEF CutsInv, CutsTypeOK, P3!ProcsAssumption, P3!Procs
    <3>1. ASSUME UNCHANGED << input, goffset >>,
                 \/ step' = step
                 \/ \E to : step' = [step EXCEPT ![p] = to]
                      /\ (step[p] \notin { "start", "weigh" } \/ to \in { "start", "weigh" })
          PROVE  BordersInv'
      <4>1. \A q \in P3!Procs :
              step'[q] \notin { "start", "weigh" } => step[q] \notin { "start", "weigh" }
        BY <3>0, <3>1
      <4> QED
        BY <1>2, <3>1, <4>1, BordersStay
    <3>2. CASE P3!EvenCuts(p)
      <4>1. ~ P3!Weighted /\ UNCHANGED input
        BY <3>2 DEF P3!EvenCuts
      <4>2. ~ P3!Weighted'
        BY <4>1 DEF P3!Weighted
      <4> QED
        BY <4>2 DEF BordersInv
    <3>3. CASE P3!EnterGather(p)
      BY <3>1, <3>3 DEF P3!EnterGather, P3!Goto
    <3>4. CASE P3!CopyCut(p)
      BY <3>1, <3>4 DEF P3!CopyCut, P3!Goto
    <3>5. CASE P3!CorrectFamilies(p)
      BY <3>1, <3>5 DEF P3!CorrectFamilies, P3!Goto
    <3>6. CASE P3!PublishTree(p)
      BY <3>1, <3>6 DEF P3!PublishTree, P3!Goto
    <3>7. CASE P3!TakeQuadrants(p)
      BY <3>1, <3>7 DEF P3!TakeQuadrants, P3!Goto
    <3>8. CASE P3!Complete(p)
      BY <3>1, <3>8 DEF P3!Complete, P3!Goto
    <3>9. CASE P3!Leave(p)
      BY <3>1, <3>9 DEF P3!Leave, P3!Goto
    <3>10. CASE P3!PublishCut(p)
      <4>1. /\ step[p] = "publish" /\ step' = [step EXCEPT ![p] = "trees"]
            /\ goffset' = [goffset EXCEPT ![p] = loc_offsets[p][p],
                             ![NumProcs] = IF p = 0 THEN P3!global_num_quads ELSE @]
            /\ UNCHANGED input
        BY <3>10 DEF P3!PublishCut, P3!Goto, P3!FirstQuad
      <4>2. CASE ~ P3!Weighted
        <5>1. ~ P3!Weighted'
          BY <4>1, <4>2 DEF P3!Weighted
        <5> QED
          BY <5>1 DEF BordersInv
      <4>3. CASE P3!Weighted
        <5>1. "publish" \in Weighed
          BY DEF Weighed, Corrected
        <5>2. copied[p] = NumProcs /\ p < NumProcs
          BY <1>2, <3>0, <4>1, <4>3, <5>1 DEF CutsInv, WeighedCutsInv
        <5>3. loc_offsets[p][p] = goffset[p]
          BY <1>2, <4>3, <5>2 DEF CutsInv, WeighedCutsInv
        <5>4. \A i \in P3!Procs : i # NumProcs /\ i \in 0 .. NumProcs
          BY <3>0
        <5>5. \A i \in P3!Procs : goffset'[i] = goffset[i]
          BY <3>0, <4>1, <5>3, <5>4 DEF CutsType
        <5>6. \A q \in P3!Procs :
                step'[q] \notin { "start", "weigh" } => step[q] \notin { "start", "weigh" }
          BY <3>0, <4>1
        <5> QED
          BY <1>2, <4>1, <5>5, <5>6, BordersStay
      <4> QED
        BY <4>2, <4>3
    <3>11. CASE P3!WriteCuts(p)
      <4>1. /\ step[p] = "weigh" /\ step' = [step EXCEPT ![p] = "copy"]
            /\ goffset' = [i \in 0 .. NumProcs |->
                             IF i \in P3!OwnCuts(p) THEN P3!NewLeftBorder(p, i) ELSE goffset[i]]
            /\ UNCHANGED input
        BY <3>11 DEF P3!WriteCuts, P3!Goto
      <4>2. (P3!Weighted <=> P3!Weighted') /\ P3!global_num_quads' = P3!global_num_quads
        BY <4>1 DEF P3!Weighted, P3!global_num_quads
      <4>3. \A id : P3!WeightTo(id)' = P3!WeightTo(id)
        BY <4>1 DEF P3!WeightTo
      <4>4. \A q : P3!OwnCuts(q)' = P3!OwnCuts(q)
        BY <4>1, <4>2, <4>3 DEF P3!OwnCuts
      <4>5. \A q, i : P3!NewLeftBorder(q, i)' = P3!NewLeftBorder(q, i)
        BY <4>1, <4>2, <4>3 DEF P3!NewLeftBorder
      <4>6. \A q : P3!OwnCuts(q) \in SUBSET (0 .. NumProcs)
        BY <3>0 DEF P3!OwnCuts
      <4>7. ASSUME P3!Weighted, NEW q \in P3!Procs, step'[q] \notin { "start", "weigh" },
                   NEW i \in P3!OwnCuts(q)
            PROVE  goffset'[i] = P3!NewLeftBorder(q, i)
        <5>1. i \in 0 .. NumProcs
          BY <4>6
        <5>2. CASE i \in P3!OwnCuts(p)
          <6>1. p = q
            BY <3>0, <4>7, <5>2, OneOwner
          <6> QED
            BY <4>1, <5>1, <5>2, <6>1
        <5>3. CASE i \notin P3!OwnCuts(p)
          <6>1. p # q
            BY <5>3
          <6>2. step[q] \notin { "start", "weigh" }
            BY <3>0, <4>1, <4>7, <6>1
          <6>3. goffset[i] = P3!NewLeftBorder(q, i)
            BY <1>2, <4>7, <6>2 DEF BordersInv
          <6> QED
            BY <4>1, <5>1, <5>3, <6>3
        <5> QED
          BY <5>2, <5>3
      <4> QED
        BY <4>2, <4>4, <4>5, <4>7 DEF BordersInv
    <3> QED
      BY <2>2, <3>2, <3>3, <3>4, <3>5, <3>6, <3>7, <3>8, <3>9, <3>10, <3>11 DEF P3!Step
  <2> QED
    BY <1>2, <2>1, <2>2 DEF P3!Next
<1> QED
  BY <1>1, <1>2, CutsHold, PTL DEF P3!Spec

(* RangesAgree, for any number of processes, source forest and request of     *)
(* SoundRequests and SoundFamilies: with all cuts worked out by each process  *)
(* alone, or found by the one that holds them, the offsets cut the forest from*)
(* its first quadrant to its last without going back and everybody has taken  *)
(* what lies between its own two.                                             *)
THEOREM CutsAgree ==
  ASSUME P3!ProcsAssumption, P3!SoundRequests, P3!SoundFamilies, CHILDREN \in Nat \ {0}
  PROVE  P3!Spec => []P3!RangesAgree
<1>1. ASSUME CutsInv, BordersInv PROVE P3!RangesAgree
  <2> SUFFICES ASSUME P3!Finished
               PROVE  /\ goffset[0] = 0 /\ goffset[NumProcs] = P3!global_num_quads
                      /\ \A p \in P3!Procs :
                           /\ goffset[p] <= goffset[p + 1]
                           /\ quads[p] =
                                [i \in 1 .. goffset[p + 1] - goffset[p] |-> goffset[p] + i - 1]
    BY DEF P3!RangesAgree
  <2>1. \A p \in P3!Procs : step[p] = "done"
    BY DEF P3!Finished
  <2>2. "done" \in Corrected /\ "done" \in Weighed /\ "done" \in Published /\ "done" \in Taken
    BY DEF Corrected, Weighed, Published, Taken
  <2>3. CutsTypeOK /\ EvenCutsInv /\ WeighedCutsInv /\ PublishedInv
    BY <1>1 DEF CutsInv
  <2>4. /\ NumProcs \in Nat \ {0} /\ 0 \in P3!Procs /\ P3!Procs = 0 .. NumProcs - 1
        /\ \A p \in P3!Procs : p + 1 \in P3!Procs \/ p + 1 = NumProcs
    BY DEF P3!ProcsAssumption, P3!Procs
  <2>5. /\ \A p \in P3!Procs : /\ goffset[p] = loc_offsets[p][p]
                               /\ quads[p] = Run(loc_offsets[p][p], loc_offsets[p][p + 1])
        /\ goffset[NumProcs] = P3!global_num_quads
    BY <2>1, <2>2, <2>3, <2>4 DEF PublishedInv
  <2>6. /\ goffset[0] = 0
        /\ \A p \in P3!Procs : loc_offsets[p][p + 1] = goffset[p + 1]
        /\ \A p \in P3!Procs : goffset[p] <= goffset[p + 1]
    <3>1. CASE ~ P3!Weighted
      <4>1. \A p \in P3!Procs : loc_offsets[p] = NewOffsets
        BY <2>1, <2>2, <2>3, <3>1 DEF EvenCutsInv
      <4>2. NewOffsets[0] = 0 /\ NewOffsets[NumProcs] = P3!global_num_quads
        <5>1. input.family \in BOOLEAN
          BY <2>3, RequestIsSound DEF CutsTypeOK
        <5> QED
          BY <2>3, <2>4, <5>1, NewCuts DEF CutsTypeOK
      <4>3. \A i \in 0 .. NumProcs : goffset[i] = NewOffsets[i]
        BY <2>4, <2>5, <4>1, <4>2
      <4>4. \A p \in P3!Procs : NewOffsets[p] <= NewOffsets[p + 1]
        <5>1. \A p \in P3!Procs : p \in 0 .. NumProcs /\ p + 1 \in 0 .. NumProcs /\ p <= p + 1
          BY <2>4
        <5> QED
          BY <2>3, <5>1, NewCutsAscend DEF CutsTypeOK
      <4> QED
        BY <2>4, <2>5, <4>1, <4>2, <4>3, <4>4
    <3>2. CASE P3!Weighted
      <4>1. \A p \in P3!Procs : copied[p] = NumProcs
        BY <2>1, <2>2, <2>3, <3>2 DEF WeighedCutsInv
      <4>2. goffset[0] = 0
        BY <2>1, <2>3, <2>4, <3>2 DEF WeighedCutsInv
      <4>3. \A p \in P3!Procs : /\ loc_offsets[p][NumProcs] = P3!global_num_quads
                                /\ \A i \in P3!Procs : loc_offsets[p][i] = goffset[i]
        <5>1. NumProcs > 0 /\ \A i \in P3!Procs : i < NumProcs
          BY <2>4 DEF P3!Procs
        <5> QED
          BY <2>3, <3>2, <4>1, <5>1 DEF WeighedCutsInv
      <4>4. ASSUME NEW p \in P3!Procs PROVE goffset[p] <= goffset[p + 1]
        <5>1. CASE p + 1 = NumProcs
          <6>1. goffset[p] \in 0 .. P3!global_num_quads
            BY <2>3, <2>4 DEF CutsTypeOK, CutsType
          <6>2. P3!global_num_quads \in Nat
            BY <2>3 DEF CutsTypeOK, SourceKnown
          <6> QED
            BY <2>5, <5>1, <6>1, <6>2
        <5>2. CASE p + 1 \in P3!Procs
          <6>1. PICK q \in P3!Procs : p \in P3!OwnCuts(q)
            BY <2>3, <3>2, EachCutOwned DEF CutsTypeOK
          <6>2. PICK r \in P3!Procs : p + 1 \in P3!OwnCuts(r)
            BY <2>3, <3>2, <5>2, EachCutOwned DEF CutsTypeOK
          <6>3. goffset[p] = P3!NewLeftBorder(q, p) /\ goffset[p + 1] = P3!NewLeftBorder(r, p + 1)
            BY <1>1, <2>1, <3>2, <6>1, <6>2 DEF BordersInv
          <6>4. p <= p + 1
            BY <2>4
          <6>5. P3!NewLeftBorder(q, p) <= P3!NewLeftBorder(r, p + 1)
            BY <2>3, <3>2, <6>1, <6>2, <6>4, BordersAscend DEF CutsTypeOK
          <6> QED
            BY <6>3, <6>5
        <5> QED
          BY <2>4, <5>1, <5>2
      <4> QED
        BY <2>4, <2>5, <4>2, <4>3, <4>4
    <3> QED
      BY <3>1, <3>2
  <2> QED
    BY <2>5, <2>6 DEF Run
<1> QED
  BY <1>1, CutsHold, BordersHold, PTL

(***************************************************************************)
(* P3Partition: the trees of a process.                                    *)
(***************************************************************************)
\* gt says where each of T trees begins among n quadrants, of which tr names the tree.
Ascending(gt, T, n, tr) ==
  /\ n \in Nat /\ T \in Nat \ {0} /\ gt \in [0 .. T -> 0 .. n] /\ gt[0] = 0 /\ gt[T] = n
  /\ \A s, t \in 0 .. T : s < t => gt[s] < gt[t]
  /\ \A id \in 0 .. n - 1 : /\ tr[id] \in 0 .. T - 1 /\ gt[tr[id]] <= id /\ id < gt[tr[id] + 1]

(* A quadrant has the tree in whose range it lies. *)
LEMMA TreeOf ==
  ASSUME NEW gt, NEW T, NEW n, NEW tr, Ascending(gt, T, n, tr), NEW id \in 0 .. n - 1, NEW t \in 0 .. T - 1
  PROVE  /\ gt[t] \in Nat /\ gt[t + 1] \in Nat /\ gt[t] < gt[t + 1] /\ gt[t + 1] <= n
         /\ tr[id] = t <=> gt[t] <= id /\ id < gt[t + 1]
<1> DEFINE s == tr[id]
<1>1. /\ n \in Nat /\ T \in Nat /\ gt \in [0 .. T -> 0 .. n]
      /\ \A x, y \in 0 .. T : x < y => gt[x] < gt[y]
      /\ s \in 0 .. T - 1 /\ gt[s] <= id /\ id < gt[s + 1]
  BY DEF Ascending
<1> HIDE DEF s
<1>2. t \in 0 .. T /\ t + 1 \in 0 .. T /\ s \in 0 .. T /\ s + 1 \in 0 .. T
  BY <1>1
<1>3. /\ gt[t] \in Nat /\ gt[t + 1] \in Nat /\ gt[s] \in Nat /\ gt[s + 1] \in Nat
      /\ gt[t] < gt[t + 1] /\ gt[t + 1] <= n
  BY <1>1, <1>2
<1>4. ASSUME gt[t] <= id, id < gt[t + 1] PROVE s = t
  <2>1. CASE s < t
    <3>1. s + 1 = t \/ s + 1 < t
      BY <1>1, <2>1
    <3>2. gt[s + 1] <= gt[t]
      BY <1>1, <1>2, <1>3, <3>1
    <3> QED
      BY <1>1, <1>3, <1>4, <3>2
  <2>2. CASE t < s
    <3>1. t + 1 = s \/ t + 1 < s
      BY <1>1, <2>2
    <3>2. gt[t + 1] <= gt[s]
      BY <1>1, <1>2, <1>3, <3>1
    <3> QED
      BY <1>1, <1>3, <1>4, <3>2
  <2> QED
    BY <1>1, <2>1, <2>2
<1>5. s = t => gt[t] <= id /\ id < gt[t + 1]
  BY <1>1
<1> QED
  BY <1>3, <1>4, <1>5 DEF s

(* The window of the trees whose ranges meet a .. b - 1. *)
LEMMA TreeWindow ==
  ASSUME NEW gt, NEW T, NEW n, NEW tr, Ascending(gt, T, n, tr), NEW a \in 0 .. n, NEW b \in 0 .. n, a < b,
         NEW last, last = [t \in 0 .. T - 1 |-> gt[t + 1] - 1]
  PROVE  LET found == FindPartition(T, last, a, b - 1)
         IN  found.begin .. found.end = { t \in 0 .. T - 1 : gt[t] <= b - 1 /\ a < gt[t + 1] }
<1> DEFINE found == FindPartition(T, last, a, b - 1)
           x == found.begin
           y == found.end
           e == b - 1
<1>1. /\ n \in Nat /\ T \in Nat \ {0} /\ gt \in [0 .. T -> 0 .. n] /\ gt[0] = 0 /\ gt[T] = n
      /\ \A s, t \in 0 .. T : s < t => gt[s] < gt[t]
  BY DEF Ascending
<1>2. /\ \A t \in 0 .. T - 1 : /\ t \in 0 .. T /\ t + 1 \in 0 .. T
                               /\ gt[t] \in 0 .. n /\ gt[t + 1] \in 0 .. n /\ last[t] = gt[t + 1] - 1
      /\ last \in [0 .. T - 1 -> Int]
  <2>1. ASSUME NEW t \in 0 .. T - 1
        PROVE  /\ t \in 0 .. T /\ t + 1 \in 0 .. T
               /\ gt[t] \in 0 .. n /\ gt[t + 1] \in 0 .. n /\ last[t] = gt[t + 1] - 1 /\ last[t] \in Int
    <3>1. t \in 0 .. T /\ t + 1 \in 0 .. T
      BY <1>1
    <3>2. gt[t] \in 0 .. n /\ gt[t + 1] \in 0 .. n
      BY <1>1, <3>1
    <3> QED
      BY <1>1, <3>1, <3>2
  <2> QED
    BY <2>1
<1>3. a \in Int /\ e \in Int /\ a <= e /\ e <= n - 1
  BY <1>1
<1>4. /\ x \in 0 .. T /\ y \in 0 .. T
      /\ \A t \in 0 .. T - 1 : x <= t <=> a <= last[t]
      /\ \A t \in 0 .. T - 1 : y <= t <=> e <= last[t]
  <2>1. T \in Nat
    BY <1>1
  <2>2. ASSUME NEW s \in 0 .. T - 1, NEW t \in 0 .. T - 1, s <= t PROVE last[s] <= last[t]
    <3>1. s = t \/ s + 1 < t + 1
      BY <2>1, <2>2
    <3>2. gt[s + 1] \in Int /\ gt[t + 1] \in Int /\ (s = t \/ gt[s + 1] < gt[t + 1])
      BY <1>1, <1>2, <3>1
    <3> QED
      BY <1>2, <3>2
  <2> QED
    BY <1>2, <1>3, <2>1, <2>2, WindowOfSorted
<1> HIDE DEF found, x, y, e
<1>5. y <= T - 1
  <2>1. T - 1 \in 0 .. T - 1 /\ (T - 1) + 1 = T
    BY <1>1
  <2>2. last[T - 1] = n - 1
    BY <1>1, <1>2, <2>1
  <2> QED
    BY <1>3, <1>4, <2>1, <2>2
<1>6. T \in Nat /\ x \in Nat /\ y \in Nat /\ n \in Nat
  BY <1>1, <1>4
<1>7. ASSUME NEW t \in 0 .. T - 1 PROVE t \in x .. y <=> gt[t] <= e /\ a < gt[t + 1]
  <2>1. t \in Nat
    BY <1>6
  <2>2. gt[t] \in 0 .. n /\ gt[t + 1] \in 0 .. n /\ last[t] = gt[t + 1] - 1
    BY <1>2
  <2>3. x <= t <=> a < gt[t + 1]
    <3>1. x <= t <=> a <= last[t]
      BY <1>4
    <3> QED
      BY <1>3, <1>6, <2>2, <3>1
  <2>4. t <= y <=> gt[t] <= e
    <3>1. CASE t = 0
      <4>1. gt[t] = 0
        BY <1>1, <3>1
      <4>2. 0 <= a
        OBVIOUS
      <4> QED
        BY <1>3, <1>6, <3>1, <4>1, <4>2
    <3>2. CASE t # 0
      <4>1. t - 1 \in 0 .. T - 1 /\ (t - 1) + 1 = t
        BY <1>6, <3>2
      <4>2. y <= t - 1 <=> e <= last[t - 1]
        BY <1>4, <4>1
      <4>3. last[t - 1] = gt[t] - 1
        BY <1>2, <4>1
      <4> QED
        BY <1>3, <1>6, <2>1, <2>2, <4>2, <4>3
    <3> QED
      BY <3>1, <3>2
  <2> QED
    BY <1>6, <2>1, <2>3, <2>4
<1>8. \A t \in x .. y : t \in 0 .. T - 1
  BY <1>5, <1>6
<1>9. x .. y = { t \in 0 .. T - 1 : gt[t] <= e /\ a < gt[t + 1] }
  BY <1>7, <1>8
<1> QED
  BY <1>9 DEF found, x, y, e

\* What the property says of one process: a .. b - 1 are its quadrants, ts its trees.
ListsRight(a, b, ts, tr, gt) ==
  /\ DOMAIN ts = { tr[a + i - 1] : i \in 1 .. b - a }
  /\ \A t \in DOMAIN ts :
       /\ { i \in 1 .. b - a : tr[a + i - 1] = t } =
            ts[t].quad_offset + 1 .. ts[t].quad_offset + ts[t].num_quads
       /\ ts[t].quad_offset + 1 \in 1 .. b - a
       /\ a + ts[t].quad_offset = gt[t] + ts[t].first_tquad

RecordOf(gt, a, b, t) ==
  LET first == P3!High(a, gt[t])
      end   == P3!Low(b - 1, gt[t + 1] - 1)
  IN  [ first_tquad |-> first - gt[t], num_quads |-> end - first + 1, quad_offset |-> first - a ]

(* The trees that meet a range, and what lies in it of each. *)
LEMMA ListIs ==
  ASSUME NEW gt, NEW T, NEW n, NEW tr, Ascending(gt, T, n, tr), NEW a \in 0 .. n, NEW b \in 0 .. n, a < b,
         NEW ts, DOMAIN ts = { t \in 0 .. T - 1 : gt[t] <= b - 1 /\ a < gt[t + 1] },
         \A t \in DOMAIN ts : ts[t] = RecordOf(gt, a, b, t)
  PROVE  ListsRight(a, b, ts, tr, gt)
<1>1. n \in Nat /\ T \in Nat /\ a \in Nat /\ b \in Nat /\ b <= n
  BY DEF Ascending
<1>2. ASSUME NEW i \in 1 .. b - a
      PROVE  /\ a + i - 1 \in 0 .. n - 1 /\ tr[a + i - 1] \in 0 .. T - 1
             /\ tr[a + i - 1] \in DOMAIN ts
  <2> DEFINE id == a + i - 1
  <2>1. id \in 0 .. n - 1 /\ a <= id /\ id <= b - 1
    BY <1>1
  <2> HIDE DEF id
  <2> DEFINE t == tr[id]
  <2>2. t \in 0 .. T - 1
    BY <2>1 DEF Ascending
  <2> HIDE DEF t
  <2>3. gt[t] \in Nat /\ gt[t + 1] \in Nat /\ gt[t] <= id /\ id < gt[t + 1]
    BY <2>1, <2>2, TreeOf DEF t
  <2>4. gt[t] <= b - 1 /\ a < gt[t + 1]
    BY <1>1, <2>1, <2>3
  <2> QED
    BY <2>1, <2>2, <2>4 DEF t, id
<1>3. ASSUME NEW t \in DOMAIN ts
      PROVE  /\ { i \in 1 .. b - a : tr[a + i - 1] = t } =
                  ts[t].quad_offset + 1 .. ts[t].quad_offset + ts[t].num_quads
             /\ ts[t].quad_offset + 1 \in 1 .. b - a
             /\ a + ts[t].quad_offset = gt[t] + ts[t].first_tquad
             /\ \E i \in 1 .. b - a : tr[a + i - 1] = t
  <2> DEFINE first == P3!High(a, gt[t])
             end   == P3!Low(b - 1, gt[t + 1] - 1)
  <2>1. /\ ts[t].first_tquad = first - gt[t] /\ ts[t].num_quads = end - first + 1
        /\ ts[t].quad_offset = first - a
    <3>1. ts[t] = RecordOf(gt, a, b, t)
      OBVIOUS
    <3>2. RecordOf(gt, a, b, t) =
            [ first_tquad |-> first - gt[t], num_quads |-> end - first + 1, quad_offset |-> first - a ]
      BY DEF RecordOf
    <3> QED
      BY <3>1, <3>2
  <2>2. t \in 0 .. T - 1 /\ gt[t] <= b - 1 /\ a < gt[t + 1]
    OBVIOUS
  <2>3. /\ gt[t] \in Nat /\ gt[t + 1] \in Nat /\ gt[t] < gt[t + 1]
        /\ \A id \in 0 .. n - 1 : tr[id] = t <=> gt[t] <= id /\ id < gt[t + 1]
    <3>1. a \in 0 .. n - 1
      BY <1>1
    <3> QED
      BY <2>2, <3>1, TreeOf
  <2>4. /\ first = IF a < gt[t] THEN gt[t] ELSE a
        /\ end = IF b - 1 < gt[t + 1] - 1 THEN b - 1 ELSE gt[t + 1] - 1
    BY DEF P3!High, P3!Low
  <2> HIDE DEF first, end
  <2> DEFINE u == gt[t]
             v == gt[t + 1]
  <2>5. /\ u \in Nat /\ v \in Nat /\ u < v /\ u <= b - 1 /\ a < v
        /\ \A id \in 0 .. n - 1 : tr[id] = t <=> u <= id /\ id < v
        /\ first = (IF a < u THEN u ELSE a) /\ end = (IF b - 1 < v - 1 THEN b - 1 ELSE v - 1)
    BY <2>2, <2>3, <2>4
  <2> HIDE DEF u, v
  <2>6. first \in Nat /\ end \in Int /\ first <= end /\ a <= first /\ end <= b - 1
    BY <1>1, <2>5
  <2>7. ASSUME NEW i \in 1 .. b - a
        PROVE  tr[a + i - 1] = t <=> i \in first - a + 1 .. end - a + 1
    <3> DEFINE id == a + i - 1
    <3>1. id \in 0 .. n - 1 /\ a <= id /\ id <= b - 1
      BY <1>1
    <3>2. i \in first - a + 1 .. end - a + 1 <=> first <= id /\ id <= end
      BY <1>1, <2>6
    <3>3. first <= id /\ id <= end <=> u <= id /\ id < v
      <4> HIDE DEF id
      <4> QED
        BY <1>1, <2>5, <3>1
    <3>4. tr[id] = t <=> u <= id /\ id < v
      BY <2>5, <3>1
    <3> QED
      BY <3>2, <3>3, <3>4
  <2>8. \A i \in first - a + 1 .. end - a + 1 : i \in 1 .. b - a
    BY <1>1, <2>6
  <2>9. { i \in 1 .. b - a : tr[a + i - 1] = t } = first - a + 1 .. end - a + 1
    BY <2>7, <2>8
  <2>10. (first - a) + (end - first + 1) = end - a + 1
    BY <1>1, <2>6
  <2>11. first - a + 1 \in first - a + 1 .. end - a + 1
    BY <1>1, <2>6
  <2>12. a + (first - a) = gt[t] + (first - gt[t])
    BY <1>1, <2>3, <2>6
  <2> QED
    BY <2>1, <2>8, <2>9, <2>10, <2>11, <2>12
<1>4. DOMAIN ts = { tr[a + i - 1] : i \in 1 .. b - a }
  <2>1. \A t \in DOMAIN ts : \E i \in 1 .. b - a : tr[a + i - 1] = t
    BY <1>3
  <2>2. \A i \in 1 .. b - a : tr[a + i - 1] \in DOMAIN ts
    BY <1>2
  <2> QED
    BY <2>1, <2>2
<1> QED
  BY <1>3, <1>4 DEF ListsRight

\* The trees of a process whose cuts are a and b, for the forest in.
ListGiven(in, a, b) ==
  LET top   == in.leaves[Len(in.leaves)].tree
      found == FindPartition(top + 1, [t \in 0 .. top |-> in.gtroffset[t + 1] - 1], a, b - 1)
  IN  [t \in IF a > b - 1 THEN {} ELSE found.begin .. found.end |-> RecordOf(in.gtroffset, a, b, t)]
TreeNames(in) == [id \in 0 .. Len(in.leaves) - 1 |-> in.leaves[id + 1].tree]

(* A forest as SoundTrees has it. *)
LEMMA ForestIsSound ==
  ASSUME P3!SoundTrees, input \in Cases
  PROVE  LET n   == Len(input.leaves)
             top == input.leaves[n].tree
         IN  /\ n \in Nat \ {0} /\ top \in Nat
             /\ Ascending(input.gtroffset, top + 1, n, TreeNames(input))
<1> DEFINE n  == Len(input.leaves)
           T  == input.leaves[n].tree + 1
           gt == input.gtroffset
           tr == TreeNames(input)
<1>1. /\ n \in Nat \ {0} /\ T \in Nat \ {0}
      /\ gt \in [0 .. T -> 0 .. n] /\ gt[0] = 0 /\ gt[T] = n
      /\ \A s, t \in 0 .. T : s < t => gt[s] < gt[t]
      /\ \A i \in 1 .. n : /\ input.leaves[i].tree \in 0 .. T - 1
                          /\ gt[input.leaves[i].tree] < i /\ i <= gt[input.leaves[i].tree + 1]
  BY DEF P3!SoundTrees
<1>2. ASSUME NEW id \in 0 .. n - 1
      PROVE  tr[id] \in 0 .. T - 1 /\ gt[tr[id]] <= id /\ id < gt[tr[id] + 1]
  <2>1. id + 1 \in 1 .. n /\ tr[id] = input.leaves[id + 1].tree
    BY <1>1 DEF TreeNames
  <2> HIDE DEF tr, T, gt
  <2>2. tr[id] \in 0 .. T - 1 /\ gt[tr[id]] < id + 1 /\ id + 1 <= gt[tr[id] + 1]
    BY <1>1, <2>1 DEF gt, T
  <2>3. gt[tr[id]] \in Nat /\ gt[tr[id] + 1] \in Nat
    <3>1. tr[id] \in 0 .. T /\ tr[id] + 1 \in 0 .. T
      BY <1>1, <2>2
    <3>2. gt \in [0 .. T -> 0 .. n]
      BY <1>1 DEF gt, T
    <3>3. gt[tr[id]] \in 0 .. n /\ gt[tr[id] + 1] \in 0 .. n
      BY <3>1, <3>2
    <3> QED
      BY <3>3
  <2> QED
    BY <2>2, <2>3
<1>3. Ascending(gt, T, n, tr)
  <2> HIDE DEF tr, T, gt, n
  <2> QED
    BY <1>1, <1>2 DEF Ascending
<1>4. input.leaves[n].tree \in Nat
  BY <1>1
<1> QED
  BY <1>1, <1>3, <1>4

(* What TakeQuadrants lists are the trees of its cuts. *)
LEMMA TakenList ==
  ASSUME P3!SoundTrees, input \in Cases, NEW p,
         loc_offsets[p][p] \in Int, loc_offsets[p][p + 1] \in Int
  PROVE  [t \in P3!LocalTrees(p) |-> P3!TreeRecord(p, t)] =
           ListGiven(input, loc_offsets[p][p], loc_offsets[p][p + 1])
<1> DEFINE a   == loc_offsets[p][p]
           b   == loc_offsets[p][p + 1]
           top == input.leaves[Len(input.leaves)].tree
           last == [t \in 0 .. top |-> input.gtroffset[t + 1] - 1]
           found == FindPartition(top + 1, last, a, b - 1)
           names == IF a > b - 1 THEN {} ELSE found.begin .. found.end
<1>1. top \in Nat
  BY ForestIsSound
<1>2. P3!FirstQuad(p) = a /\ P3!LastQuad(p) = b - 1 /\ (P3!Empty(p) <=> a > b - 1)
  BY DEF P3!FirstQuad, P3!LastQuad, P3!Empty
<1>3. P3!Trees = 0 .. top
  BY DEF P3!Trees, P3!global_num_quads
<1>4. P3!last_gtree_offsets = last
  BY <1>3 DEF P3!last_gtree_offsets, P3!gtroffset
<1>5. P3!Cardinality(P3!Trees) = top + 1
  <2>1. P3!Cardinality(P3!Trees) = Cardinality(0 .. top)
    BY <1>3 DEF P3!Cardinality, Cardinality
  <2>2. Cardinality(0 .. top) = top + 1
    <3> HIDE DEF top
    <3> QED
      BY <1>1, FS_Interval
  <2> QED
    BY <2>1, <2>2
<1>6. P3!FindPartition(top + 1, last, a, b - 1) = found
  BY DEF P3!FindPartition, FindPartition, P3!SplitOffset, SplitOffset, P3!WindowType,
         WindowType, P3!Min, Min
<1>7. P3!LocalTrees(p) = names
  <2> HIDE DEF a, b, top, last, found
  <2> QED
    BY <1>2, <1>4, <1>5, <1>6 DEF P3!LocalTrees
<1>8. \A t : P3!TreeRecord(p, t) = RecordOf(input.gtroffset, a, b, t)
  BY <1>2 DEF P3!TreeRecord, RecordOf, P3!gtroffset
<1>9. ListGiven(input, a, b) = [t \in names |-> RecordOf(input.gtroffset, a, b, t)]
  BY DEF ListGiven
<1> HIDE DEF names
<1> QED
  BY <1>7, <1>8, <1>9

(* The trees of two cuts are those of the quadrants between them. *)
LEMMA GivenIsRight ==
  ASSUME P3!SoundTrees, input \in Cases,
         NEW a \in 0 .. Len(input.leaves), NEW b \in 0 .. Len(input.leaves)
  PROVE  ListsRight(a, b, ListGiven(input, a, b), TreeNames(input), input.gtroffset)
<1> DEFINE n   == Len(input.leaves)
           top == input.leaves[n].tree
           gt  == input.gtroffset
           tr  == TreeNames(input)
           last == [t \in 0 .. top |-> gt[t + 1] - 1]
           found == FindPartition(top + 1, last, a, b - 1)
           names == IF a > b - 1 THEN {} ELSE found.begin .. found.end
           ts  == ListGiven(input, a, b)
<1>1. n \in Nat \ {0} /\ top \in Nat /\ Ascending(gt, top + 1, n, tr) /\ a \in 0 .. n /\ b \in 0 .. n
  BY ForestIsSound
<1>2. ts = [t \in names |-> RecordOf(gt, a, b, t)]
  BY DEF ListGiven
<1> HIDE DEF n, gt, tr, top, ts
<1>3. CASE b <= a
  <2>1. a > b - 1 /\ 1 .. b - a = {}
    BY <1>1, <1>3
  <2>2. DOMAIN ts = {}
    BY <1>2, <2>1
  <2> QED
    BY <2>1, <2>2 DEF ListsRight, ts, tr, gt
<1>4. CASE a < b
  <2>1. (top + 1) - 1 = top /\ ~ (a > b - 1)
    BY <1>1, <1>4
  <2>2. last = [t \in 0 .. (top + 1) - 1 |-> gt[t + 1] - 1]
    BY <2>1
  <2> HIDE DEF last
  <2>3. found.begin .. found.end = { t \in 0 .. (top + 1) - 1 : gt[t] <= b - 1 /\ a < gt[t + 1] }
    <3> DEFINE T == top + 1
               w == FindPartition(T, last, a, b - 1)
    <3>1. Ascending(gt, T, n, tr) /\ last = [t \in 0 .. T - 1 |-> gt[t + 1] - 1]
      BY <1>1, <2>2
    <3>2. found = w
      OBVIOUS
    <3> HIDE DEF T, found
    <3>3. w.begin .. w.end = { t \in 0 .. T - 1 : gt[t] <= b - 1 /\ a < gt[t + 1] }
      BY <1>1, <1>4, <3>1, TreeWindow
    <3> HIDE DEF w
    <3> QED
      BY <3>2, <3>3 DEF T
  <2>4. /\ DOMAIN ts = { t \in 0 .. (top + 1) - 1 : gt[t] <= b - 1 /\ a < gt[t + 1] }
        /\ \A t \in DOMAIN ts : ts[t] = RecordOf(gt, a, b, t)
    BY <1>2, <2>1, <2>3
  <2>5. ListsRight(a, b, ts, tr, gt)
    <3> HIDE DEF found
    <3> QED
      BY <1>1, <1>4, <2>4, ListIs
  <2> QED
    BY <2>5 DEF ts, tr, gt
<1> QED
  BY <1>1, <1>3, <1>4 DEF n

(* What a process lists it keeps. *)
TreesInv ==
  /\ trees = [p \in P3!Procs |-> trees[p]]
  /\ \A p \in P3!Procs : step[p] \in Taken =>
       trees[p] = ListGiven(input, loc_offsets[p][p], loc_offsets[p][p + 1])
TreesMove(p) ==
  /\ input' = input /\ trees' = [q \in P3!Procs |-> trees'[q]]
  /\ \A q \in P3!Procs : q # p =>
       step'[q] = step[q] /\ loc_offsets'[q] = loc_offsets[q] /\ trees'[q] = trees[q]
  /\ \/ step'[p] \notin Taken
     \/ step[p] \in Taken /\ loc_offsets'[p] = loc_offsets[p] /\ trees'[p] = trees[p]
     \/ trees'[p] = ListGiven(input', loc_offsets'[p][p], loc_offsets'[p][p + 1])

(* Every step of a process is such a move. *)
LEMMA TreesMoved ==
  ASSUME P3!ProcsAssumption, P3!SoundTrees, CutsInv, TreesInv, NEW p \in P3!Procs, P3!Step(p)
  PROVE  TreesMove(p)
<1>1. /\ trees = [q \in P3!Procs |-> trees[q]] /\ step \in [P3!Procs -> CutPlaces]
      /\ loc_offsets \in [P3!Procs -> CutsType] /\ input \in Cases
  BY DEF CutsInv, CutsTypeOK, TreesInv
<1>2. /\ "correct" \notin Taken /\ "weigh" \notin Taken /\ "copy" \notin Taken /\ "publish" \notin Taken
      /\ "trees" \notin Taken /\ "take" \notin Taken
      /\ "wait" \in Taken /\ "barrier" \in Taken /\ "done" \in Taken
  BY DEF Taken
<1>3. ASSUME NEW to, step' = [step EXCEPT ![p] = to], UNCHANGED << input, trees >>,
             \A q \in P3!Procs : q # p => loc_offsets'[q] = loc_offsets[q],
             to \notin Taken \/ (step[p] \in Taken /\ loc_offsets'[p] = loc_offsets[p])
      PROVE  TreesMove(p)
  <2>1. step'[p] = to /\ \A q \in P3!Procs : q # p => step'[q] = step[q]
    BY <1>1, <1>3
  <2>2. trees' = [q \in P3!Procs |-> trees'[q]] /\ \A q \in P3!Procs : trees'[q] = trees[q]
    BY <1>1, <1>3
  <2> QED
    BY <1>3, <2>1, <2>2 DEF TreesMove
<1>4. ASSUME NEW to, step' = [step EXCEPT ![p] = to], UNCHANGED << input, trees, loc_offsets >>,
             to \notin Taken \/ step[p] \in Taken
      PROVE  TreesMove(p)
  BY <1>3, <1>4
<1>5. CASE P3!EvenCuts(p)
  <2>1. /\ step' = [step EXCEPT ![p] = "correct"] /\ UNCHANGED << input, trees >>
        /\ loc_offsets' = [loc_offsets EXCEPT ![p] =
                             [i \in 0 .. NumProcs |-> P3!Glocut(P3!global_num_quads, i)]]
    BY <1>5 DEF P3!EvenCuts, P3!Goto
  <2>2. \A q \in P3!Procs : q # p => loc_offsets'[q] = loc_offsets[q]
    BY <1>1, <2>1
  <2> QED
    BY <1>2, <1>3, <2>1, <2>2
<1>6. CASE P3!EnterGather(p)
  BY <1>2, <1>4, <1>6 DEF P3!EnterGather, P3!Goto
<1>7. CASE P3!WriteCuts(p)
  BY <1>2, <1>4, <1>7 DEF P3!WriteCuts, P3!Goto
<1>8. CASE P3!CopyCut(p)
  <2>1. /\ UNCHANGED << input, trees >> /\ step[p] = "copy"
        /\ step' = step \/ step' = [step EXCEPT ![p] = "correct"]
        /\ loc_offsets' = [loc_offsets EXCEPT ![p][copied[p]] = goffset[copied[p]],
                                              ![p][NumProcs] = P3!global_num_quads]
    BY <1>8 DEF P3!CopyCut, P3!Goto
  <2>2. \A q \in P3!Procs : q # p => loc_offsets'[q] = loc_offsets[q]
    BY <1>1, <2>1
  <2>3. step' = [step EXCEPT ![p] = "copy"] \/ step' = [step EXCEPT ![p] = "correct"]
    BY <1>1, <2>1
  <2> QED
    BY <1>2, <1>3, <2>1, <2>2, <2>3
<1>9. CASE P3!CorrectFamilies(p)
  <2>1. /\ step' = [step EXCEPT ![p] = "publish"] /\ UNCHANGED << input, trees >>
        /\ loc_offsets' = [loc_offsets EXCEPT ![p] =
             IF input.family THEN [r \in 0 .. NumProcs |-> P3!CorrectedCut(loc_offsets[p], r)]
             ELSE loc_offsets[p]]
    BY <1>9 DEF P3!CorrectFamilies, P3!Goto
  <2>2. \A q \in P3!Procs : q # p => loc_offsets'[q] = loc_offsets[q]
    BY <1>1, <2>1
  <2> QED
    BY <1>2, <1>3, <2>1, <2>2
<1>10. CASE P3!PublishCut(p)
  BY <1>2, <1>4, <1>10 DEF P3!PublishCut, P3!Goto
<1>11. CASE P3!PublishTree(p)
  BY <1>2, <1>4, <1>11 DEF P3!PublishTree, P3!Goto
<1>12. CASE P3!TakeQuadrants(p)
  <2> DEFINE list == [t \in P3!LocalTrees(p) |-> P3!TreeRecord(p, t)]
  <2>1. /\ step' = [step EXCEPT ![p] = "wait"] /\ UNCHANGED << input, loc_offsets >>
        /\ trees' = [trees EXCEPT ![p] = list]
    BY <1>12 DEF P3!TakeQuadrants, P3!Goto
  <2>2. list = ListGiven(input, loc_offsets[p][p], loc_offsets[p][p + 1])
    <3>1. p \in 0 .. NumProcs /\ p + 1 \in 0 .. NumProcs
      BY DEF P3!ProcsAssumption, P3!Procs
    <3>2. P3!global_num_quads \in Nat /\ loc_offsets[p] \in [0 .. NumProcs -> 0 .. P3!global_num_quads]
      BY <1>1 DEF CutsInv, CutsTypeOK, SourceKnown, CutsType
    <3>3. /\ loc_offsets[p][p] \in 0 .. P3!global_num_quads
          /\ loc_offsets[p][p + 1] \in 0 .. P3!global_num_quads
      BY <3>1, <3>2
    <3>4. loc_offsets[p][p] \in Int /\ loc_offsets[p][p + 1] \in Int
      BY <3>2, <3>3
    <3> HIDE DEF list
    <3> QED
      BY <1>1, <3>4, TakenList DEF list
  <2> HIDE DEF list
  <2>3. /\ \A q \in P3!Procs : q # p => step'[q] = step[q] /\ trees'[q] = trees[q]
        /\ trees'[p] = list /\ trees' = [q \in P3!Procs |-> trees'[q]]
    BY <1>1, <2>1
  <2> QED
    BY <2>1, <2>2, <2>3 DEF TreesMove
<1>13. CASE P3!Complete(p)
  BY <1>2, <1>4, <1>13 DEF P3!Complete, P3!Goto
<1>14. CASE P3!Leave(p)
  BY <1>2, <1>4, <1>14 DEF P3!Leave, P3!Goto
<1> QED
  BY <1>5, <1>6, <1>7, <1>8, <1>9, <1>10, <1>11, <1>12, <1>13, <1>14 DEF P3!Step

(* RecordsRight, for any number of processes and any source forest and request *)
(* of SoundRequests and SoundTrees: from the time on that a process has taken   *)
(* its quadrants, its trees are the trees of these quadrants, and the record of *)
(* each finds the quadrants of its tree and their place in it.                  *)
THEOREM TreesListed ==
  ASSUME P3!ProcsAssumption, P3!SoundRequests, P3!SoundTrees, CHILDREN \in Nat \ {0}
  PROVE  P3!Spec => []P3!RecordsRight
<1>1. P3!Init => TreesInv
  <2> SUFFICES ASSUME P3!Init PROVE TreesInv
    OBVIOUS
  <2>1. trees = [p \in P3!Procs |-> << >>] /\ step = [p \in P3!Procs |-> "start"]
    BY DEF P3!Init
  <2>2. "start" \notin Taken
    BY DEF Taken
  <2> QED
    BY <2>1, <2>2 DEF TreesInv
<1>2. ASSUME CutsInv, TreesInv, [P3!Next]_P3!vars PROVE TreesInv'
  <2>1. CASE UNCHANGED P3!vars
    BY <1>2, <2>1 DEF P3!vars, TreesInv
  <2>2. ASSUME NEW p \in P3!Procs, P3!Step(p) PROVE TreesInv'
    <3>1. TreesMove(p)
      BY <1>2, <2>2, TreesMoved
    <3>2. ASSUME NEW q \in P3!Procs, step'[q] \in Taken
          PROVE  trees'[q] = ListGiven(input', loc_offsets'[q][q], loc_offsets'[q][q + 1])
      BY <1>2, <3>1, <3>2 DEF TreesInv, TreesMove
    <3>3. trees' = [q \in P3!Procs |-> trees'[q]]
      BY <3>1 DEF TreesMove
    <3> QED
      BY <3>2, <3>3 DEF TreesInv
  <2> QED
    BY <1>2, <2>1, <2>2 DEF P3!Next
<1>3. ASSUME CutsInv, TreesInv PROVE P3!RecordsRight
  <2> SUFFICES ASSUME NEW p \in P3!Procs, step[p] \in { "wait", "barrier", "done" }
               PROVE  /\ DOMAIN trees[p] = { P3!LeafAt(quads[p][i]).tree : i \in DOMAIN quads[p] }
                      /\ \A t \in DOMAIN trees[p] :
                           /\ { i \in DOMAIN quads[p] : P3!LeafAt(quads[p][i]).tree = t } =
                                trees[p][t].quad_offset + 1
                                  .. trees[p][t].quad_offset + trees[p][t].num_quads
                           /\ quads[p][trees[p][t].quad_offset + 1] =
                                P3!gtroffset(t) + trees[p][t].first_tquad
    BY DEF P3!RecordsRight
  <2> DEFINE a  == loc_offsets[p][p]
             b  == loc_offsets[p][p + 1]
             n  == Len(input.leaves)
             gt == input.gtroffset
             tr == TreeNames(input)
             ts == trees[p]
  <2>1. step[p] \in Taken
    BY DEF Taken
  <2>2. /\ quads[p] = Run(a, b) /\ ts = ListGiven(input, a, b) /\ input \in Cases
        /\ loc_offsets \in [P3!Procs -> CutsType] /\ P3!global_num_quads \in Nat
    BY <1>3, <2>1 DEF CutsInv, CutsTypeOK, PublishedInv, TreesInv, SourceKnown
  <2>3. P3!global_num_quads = n
    BY DEF P3!global_num_quads
  <2>4. n \in Nat /\ a \in 0 .. n /\ b \in 0 .. n
    <3>1. p \in 0 .. NumProcs /\ p + 1 \in 0 .. NumProcs
      BY DEF P3!ProcsAssumption, P3!Procs
    <3>2. loc_offsets[p] \in [0 .. NumProcs -> 0 .. n]
      BY <2>2, <2>3 DEF CutsType
    <3> QED
      BY <2>2, <2>3, <3>1, <3>2
  <2>5. ListsRight(a, b, ts, tr, gt)
    BY <2>2, <2>4, GivenIsRight
  <2>6. \A t : P3!gtroffset(t) = gt[t]
    BY DEF P3!gtroffset
  <2>7. \A id : id \in 0 .. n - 1 => P3!LeafAt(id).tree = tr[id]
    <3> SUFFICES ASSUME NEW id \in 0 .. n - 1 PROVE P3!LeafAt(id).tree = tr[id]
      OBVIOUS
    <3>1. id < n
      BY <2>4
    <3>2. P3!LeafAt(id) = input.leaves[id + 1]
      BY <2>3, <3>1 DEF P3!LeafAt
    <3> QED
      BY <3>2 DEF TreeNames
  <2> HIDE DEF a, b, n, gt, tr, ts
  <2>8. /\ DOMAIN quads[p] = 1 .. b - a
        /\ \A i \in 1 .. b - a : quads[p][i] = a + i - 1 /\ P3!LeafAt(quads[p][i]).tree = tr[a + i - 1]
    <3>1. quads[p] = [i \in 1 .. b - a |-> a + i - 1]
      BY <2>2 DEF Run
    <3>2. \A i \in 1 .. b - a : a + i - 1 \in 0 .. n - 1
      BY <2>4
    <3> QED
      BY <2>7, <3>1, <3>2
  <2>9. DOMAIN ts = { P3!LeafAt(quads[p][i]).tree : i \in DOMAIN quads[p] }
    <3>1. DOMAIN ts = { tr[a + i - 1] : i \in 1 .. b - a }
      BY <2>5 DEF ListsRight
    <3> QED
      BY <2>8, <3>1
  <2>10. ASSUME NEW t \in DOMAIN ts
         PROVE  /\ { i \in DOMAIN quads[p] : P3!LeafAt(quads[p][i]).tree = t } =
                     ts[t].quad_offset + 1 .. ts[t].quad_offset + ts[t].num_quads
                /\ quads[p][ts[t].quad_offset + 1] = gt[t] + ts[t].first_tquad
    <3> DEFINE at == ts[t].quad_offset
    <3>1. /\ { i \in 1 .. b - a : tr[a + i - 1] = t } = at + 1 .. at + ts[t].num_quads
          /\ at + 1 \in 1 .. b - a /\ a + at = gt[t] + ts[t].first_tquad
      BY <2>5, <2>10 DEF ListsRight
    <3>2. { i \in DOMAIN quads[p] : P3!LeafAt(quads[p][i]).tree = t } = { i \in 1 .. b - a : tr[a + i - 1] = t }
      BY <2>8
    <3>3. quads[p][at + 1] = a + (at + 1) - 1
      BY <2>8, <3>1
    <3>4. a + (at + 1) - 1 = a + at
      <4>1. ts[t] = RecordOf(gt, a, b, t)
        BY <2>2, <2>10 DEF ListGiven, gt
      <4>2. at = P3!High(a, gt[t]) - a
        BY <4>1 DEF RecordOf
      <4>3. gt[t] \in Int
        <5>1. /\ input.leaves[Len(input.leaves)].tree \in Nat
              /\ Ascending(gt, input.leaves[Len(input.leaves)].tree + 1, Len(input.leaves), tr)
          BY <2>2, ForestIsSound DEF gt, tr
        <5>2. \E i \in 1 .. b - a : tr[a + i - 1] = t
          BY <2>5 DEF ListsRight
        <5>3. \E id \in 0 .. n - 1 : tr[id] = t
          <6>1. \A i \in 1 .. b - a : a + i - 1 \in 0 .. n - 1
            BY <2>4
          <6> QED
            BY <5>2, <6>1
        <5>4. t \in 0 .. (input.leaves[Len(input.leaves)].tree + 1) - 1
          BY <5>1, <5>3 DEF Ascending, n
        <5>5. t \in 0 .. input.leaves[Len(input.leaves)].tree + 1
          BY <5>1, <5>4
        <5>6. gt[t] \in 0 .. Len(input.leaves)
          BY <5>1, <5>5 DEF Ascending
        <5> QED
          BY <5>6
      <4> HIDE DEF at
      <4> QED
        BY <2>4, <4>2, <4>3 DEF P3!High
    <3> QED
      BY <3>1, <3>2, <3>3, <3>4
  <2> QED
    BY <2>6, <2>9, <2>10 DEF ts
<1> QED
  BY <1>1, <1>2, <1>3, CutsHold, PTL DEF P3!Spec

(***************************************************************************)
(* P3Partition does not deadlock.                                          *)
(***************************************************************************)
\* Some process may go on: what it has to wait for, if anything, has happened.
CuttingMay ==
  \E p \in P3!Procs :
    \/ step[p] \in { "start", "correct", "publish", "trees", "take" }
    \/ step[p] = "weigh" /\ \A q \in P3!Procs : P3!Past(q, { "start" })
    \/ step[p] = "copy" /\ P3!CutsWritten
    \/ step[p] = "wait" /\ P3!AllPublished
    \/ step[p] = "barrier" /\ \A q \in P3!Procs : step[q] \in { "barrier", "done" }

(* The partition does not deadlock, for any number of processes and any source *)
(* forest and request of SoundRequests: until all are done, some process need  *)
(* not wait for the gather of the weights, for the barrier behind it, for the  *)
(* requests or for the last barrier.                                           *)
THEOREM CuttingGoesOn ==
  ASSUME P3!ProcsAssumption, P3!SoundRequests, CHILDREN \in Nat \ {0}
  PROVE  P3!Spec => [](P3!Finished \/ CuttingMay)
<1>1. ASSUME CutsInv PROVE P3!Finished \/ CuttingMay
  <2> SUFFICES ASSUME ~ CuttingMay PROVE \A p \in P3!Procs : step[p] = "done"
    BY DEF P3!Finished
  <2>1. \A p \in P3!Procs :
          step[p] \in { "start", "correct", "publish", "trees", "take", "weigh", "copy",
                        "wait", "barrier", "done" }
    BY <1>1 DEF CutsInv, CutsTypeOK, CutPlaces, Weighed, Corrected, Published, Taken
  <2>2. \A p \in P3!Procs : step[p] \in { "weigh", "copy", "wait", "barrier", "done" }
    BY <2>1 DEF CuttingMay
  <2>3. \A p \in P3!Procs : step[p] \in { "copy", "wait", "barrier", "done" }
    <3>1. \A q \in P3!Procs : P3!Past(q, { "start" })
      BY <2>2 DEF P3!Past
    <3> QED
      BY <2>2, <3>1 DEF CuttingMay
  <2>4. \A p \in P3!Procs : step[p] \in { "wait", "barrier", "done" }
    <3>1. P3!CutsWritten
      BY <2>3 DEF P3!CutsWritten, P3!Past
    <3> QED
      BY <2>3, <3>1 DEF CuttingMay
  <2>5. \A p \in P3!Procs : step[p] \in { "barrier", "done" }
    <3>1. P3!AllPublished
      BY <2>4 DEF P3!AllPublished
    <3> QED
      BY <2>4, <3>1 DEF CuttingMay
  <2> QED
    BY <2>5 DEF CuttingMay
<1> QED
  BY <1>1, CutsHold, PTL

(***************************************************************************)
(* The quadrants of the trees, and who counts them.                        *)
(***************************************************************************)
Size == Len(input.tree)
Forest ==
  /\ NumProcs \in Nat \ {0}
  /\ input.tree \in Seq(Nat) /\ Size > 0 /\ input.tree[1] = 0
  /\ \A i \in 1 .. Size - 1 : input.tree[i + 1] \in { input.tree[i], input.tree[i] + 1 }
  /\ input.gfq \in [0 .. NumProcs -> 0 .. Size]
  /\ input.gfq[0] = 0 /\ input.gfq[NumProcs] = Size
  /\ \A p, q \in 0 .. NumProcs : p <= q => input.gfq[p] <= input.gfq[q]

\* tree t goes from TreeBegin(t) to TreeBegin(t + 1) - 1
TreeBegin(t) == CHOOSE b \in 0 .. Size : \A i \in 0 .. Size : Per!TreeAt(i) >= t <=> b <= i

(* Trees come one after the other. *)
LEMMA TreesFollow ==
  ASSUME Forest
  PROVE  /\ Size \in Nat /\ Per!num_trees \in Nat \ {0}
         /\ Per!TreeAt(0) = 0 /\ Per!TreeAt(Size) = Per!num_trees
         /\ \A i \in 0 .. Size : Per!TreeAt(i) \in Nat
         /\ \A i \in 0 .. Size - 1 : Per!TreeAt(i + 1) \in { Per!TreeAt(i), Per!TreeAt(i) + 1 }
         /\ \A i, j \in 0 .. Size : i <= j => Per!TreeAt(i) <= Per!TreeAt(j)
<1>1. /\ Size \in Nat /\ Size > 0 /\ input.tree \in Seq(Nat)
      /\ \A i \in 1 .. Size : input.tree[i] \in Nat
  BY DEF Forest, Size
<1>2. Per!num_trees = input.tree[Size] + 1 /\ Per!num_trees \in Nat \ {0}
  <2>1. Size \in 1 .. Size
    BY <1>1
  <2> QED
    BY <1>1, <2>1 DEF Per!num_trees, Size
<1>3. /\ Per!TreeAt(Size) = Per!num_trees
      /\ \A i \in 0 .. Size - 1 : Per!TreeAt(i) = input.tree[i + 1]
  BY <1>1 DEF Per!TreeAt, Size
<1>4. Per!TreeAt(0) = 0
  <2>1. 0 \in 0 .. Size - 1 /\ 0 + 1 = 1
    BY <1>1
  <2> QED
    BY <1>3, <2>1 DEF Forest
<1>5. ASSUME NEW i \in 0 .. Size PROVE Per!TreeAt(i) \in Nat
  <2>1. CASE i = Size
    BY <1>2, <1>3, <2>1
  <2>2. CASE i # Size
    <3>1. i \in 0 .. Size - 1 /\ i + 1 \in 1 .. Size
      BY <1>1, <2>2
    <3> QED
      BY <1>1, <1>3, <3>1
  <2> QED
    BY <2>1, <2>2
<1>6. ASSUME NEW i \in 0 .. Size - 1
      PROVE  Per!TreeAt(i + 1) \in { Per!TreeAt(i), Per!TreeAt(i) + 1 }
  <2>1. CASE i + 1 = Size
    <3>1. Per!TreeAt(i) = input.tree[Size]
      BY <1>3, <2>1
    <3> QED
      BY <1>2, <1>3, <2>1, <3>1
  <2>2. CASE i + 1 # Size
    <3>1. i + 1 \in 0 .. Size - 1 /\ i + 1 \in 1 .. Size - 1
      BY <1>1, <2>2
    <3>2. input.tree[(i + 1) + 1] \in { input.tree[i + 1], input.tree[i + 1] + 1 }
      BY <3>1 DEF Forest
    <3> QED
      BY <1>3, <3>1, <3>2
  <2> QED
    BY <2>1, <2>2
<1>7. ASSUME NEW i \in 0 .. Size PROVE \A j \in 0 .. Size : i <= j => Per!TreeAt(i) <= Per!TreeAt(j)
  <2> DEFINE S == { m \in Nat : i + m <= Size => Per!TreeAt(i) <= Per!TreeAt(i + m) }
  <2>1. 0 \in S
    <3>1. i + 0 = i /\ Per!TreeAt(i) \in Nat
      BY <1>5
    <3> QED
      BY <3>1
  <2>2. ASSUME NEW m \in Nat, m \in S PROVE m + 1 \in S
    <3> SUFFICES ASSUME i + (m + 1) <= Size PROVE Per!TreeAt(i) <= Per!TreeAt(i + (m + 1))
      OBVIOUS
    <3> DEFINE k == i + m
    <3>1. k \in 0 .. Size /\ k \in 0 .. Size - 1 /\ k + 1 \in 0 .. Size /\ i + (m + 1) = k + 1
      BY <1>1
    <3>2. Per!TreeAt(i) <= Per!TreeAt(k)
      BY <1>1, <2>2, <3>1
    <3> HIDE DEF k
    <3>3. /\ Per!TreeAt(k + 1) \in { Per!TreeAt(k), Per!TreeAt(k) + 1 }
          /\ Per!TreeAt(i) \in Nat /\ Per!TreeAt(k) \in Nat
      BY <1>5, <1>6, <3>1
    <3> QED
      BY <3>1, <3>2, <3>3
  <2> HIDE DEF S
  <2>3. \A m \in Nat : m \in S
    BY <2>1, <2>2, NatSetInduction, Zenon
  <2> SUFFICES ASSUME NEW j \in 0 .. Size, i <= j PROVE Per!TreeAt(i) <= Per!TreeAt(j)
    OBVIOUS
  <2>4. j - i \in Nat /\ i + (j - i) = j /\ j <= Size
    BY <1>1
  <2>5. j - i \in S
    BY <2>3, <2>4
  <2> QED
    BY <2>4, <2>5 DEF S
<1> QED
  BY <1>1, <1>2, <1>3, <1>4, <1>5, <1>6, <1>7

(* A tree is a range of quadrants, none without any. *)
LEMMA TreesAre ==
  ASSUME Forest
  PROVE  /\ \A t \in 0 .. Per!num_trees :
              /\ TreeBegin(t) \in 0 .. Size /\ Per!TreeAt(TreeBegin(t)) = t
              /\ \A i \in 0 .. Size : Per!TreeAt(i) >= t <=> TreeBegin(t) <= i
         /\ TreeBegin(0) = 0 /\ TreeBegin(Per!num_trees) = Size
         /\ \A t, u \in 0 .. Per!num_trees : t < u => TreeBegin(t) < TreeBegin(u)
<1>1. /\ Size \in Nat /\ Per!num_trees \in Nat \ {0}
      /\ Per!TreeAt(0) = 0 /\ Per!TreeAt(Size) = Per!num_trees
      /\ \A i \in 0 .. Size : Per!TreeAt(i) \in Nat
      /\ \A i \in 0 .. Size - 1 : Per!TreeAt(i + 1) \in { Per!TreeAt(i), Per!TreeAt(i) + 1 }
      /\ \A i, j \in 0 .. Size : i <= j => Per!TreeAt(i) <= Per!TreeAt(j)
  BY TreesFollow
<1>2. ASSUME NEW t \in 0 .. Per!num_trees
      PROVE  /\ TreeBegin(t) \in 0 .. Size
             /\ \A i \in 0 .. Size : Per!TreeAt(i) >= t <=> TreeBegin(t) <= i
  <2> DEFINE T == { i \in 0 .. Size : Per!TreeAt(i) >= t }
  <2>1. T \in SUBSET Nat /\ Size \in T
    BY <1>1
  <2>2. PICK b \in T : \A y \in T : b <= y
    BY <2>1, LeastElement
  <2>3. b \in 0 .. Size /\ \A i \in 0 .. Size : Per!TreeAt(i) >= t <=> b <= i
    <3>1. ASSUME NEW i \in 0 .. Size, b <= i PROVE Per!TreeAt(i) >= t
      <4>1. Per!TreeAt(b) <= Per!TreeAt(i) /\ Per!TreeAt(b) >= t
        BY <1>1, <3>1
      <4> QED
        BY <1>1, <4>1
    <3> QED
      BY <2>2, <3>1
  <2> QED
    BY <2>3 DEF TreeBegin
<1>3. ASSUME NEW t \in 0 .. Per!num_trees PROVE Per!TreeAt(TreeBegin(t)) = t
  <2> DEFINE b == TreeBegin(t)
  <2>1. b \in 0 .. Size /\ \A i \in 0 .. Size : Per!TreeAt(i) >= t <=> b <= i
    BY <1>2
  <2> HIDE DEF b
  <2>2. Per!TreeAt(b) >= t /\ Per!TreeAt(b) \in Nat /\ t \in Nat
    BY <1>1, <2>1
  <2>3. ASSUME b = 0 PROVE Per!TreeAt(b) = t
    BY <1>1, <2>2, <2>3
  <2>4. ASSUME b # 0 PROVE Per!TreeAt(b) = t
    <3> DEFINE c == b - 1
    <3>1. c \in 0 .. Size /\ c \in 0 .. Size - 1 /\ c + 1 = b /\ ~ (b <= c)
      BY <1>1, <2>1, <2>4
    <3> HIDE DEF c
    <3>2. ~ (Per!TreeAt(c) >= t) /\ Per!TreeAt(c) \in Nat
      BY <1>1, <2>1, <3>1
    <3>3. Per!TreeAt(b) \in { Per!TreeAt(c), Per!TreeAt(c) + 1 }
      BY <1>1, <3>1
    <3> QED
      BY <2>2, <3>2, <3>3
  <2>5. Per!TreeAt(b) = t
    BY <2>3, <2>4
  <2> QED
    BY <2>5 DEF b
<1>4. 0 \in 0 .. Per!num_trees /\ Per!num_trees \in 0 .. Per!num_trees
        /\ 0 \in 0 .. Size /\ Size \in 0 .. Size
  BY <1>1
<1>5. TreeBegin(0) = 0
  <2>1. TreeBegin(0) <= 0 /\ TreeBegin(0) \in 0 .. Size
    BY <1>1, <1>2, <1>4
  <2> QED
    BY <2>1
<1>6. TreeBegin(Per!num_trees) = Size
  <2> DEFINE b == TreeBegin(Per!num_trees)
  <2>1. b \in 0 .. Size /\ Per!TreeAt(b) = Per!num_trees
    BY <1>2, <1>3, <1>4
  <2> SUFFICES ASSUME b # Size PROVE FALSE
    OBVIOUS
  <2> HIDE DEF b
  <2>2. b \in 0 .. Size - 1 /\ Size - 1 \in 0 .. Size /\ b <= Size - 1 /\ Size > 0
    BY <1>1, <2>1
  <2>3. Per!TreeAt(Size - 1) = input.tree[Size]
    BY <2>2 DEF Per!TreeAt, Size
  <2>4. Per!TreeAt(b) <= Per!TreeAt(Size - 1) /\ Per!TreeAt(Size - 1) \in Nat
    BY <1>1, <2>1, <2>2
  <2>5. Per!num_trees = input.tree[Size] + 1
    BY DEF Per!num_trees, Size
  <2> QED
    BY <1>1, <2>1, <2>3, <2>4, <2>5
<1>7. ASSUME NEW t \in 0 .. Per!num_trees, NEW u \in 0 .. Per!num_trees, t < u
      PROVE  TreeBegin(t) < TreeBegin(u)
  <2>1. /\ TreeBegin(t) \in 0 .. Size /\ TreeBegin(u) \in 0 .. Size
        /\ Per!TreeAt(TreeBegin(t)) = t
        /\ Per!TreeAt(TreeBegin(t)) >= u <=> TreeBegin(u) <= TreeBegin(t)
    BY <1>2, <1>3
  <2> QED
    BY <1>1, <1>7, <2>1
<1> QED
  BY <1>2, <1>3, <1>5, <1>6, <1>7

(* Where a process begins: in or behind a tree, and at the beginning of one. *)
LEMMA BeginsIn ==
  ASSUME Forest, NEW p \in 0 .. NumProcs, NEW t \in 0 .. Per!num_trees
  PROVE  /\ Per!FirstTree(p) \in 0 .. Per!num_trees /\ Per!gfq(p) \in 0 .. Size
         /\ Per!FirstTree(p) >= t <=> TreeBegin(t) <= Per!gfq(p)
         /\ Per!FirstTree(p) = t /\ Per!AtOrigin(p) <=> Per!gfq(p) = TreeBegin(t)
<1> DEFINE g == Per!gfq(p)
<1>1. g \in 0 .. Size
  BY DEF Forest, Per!gfq
<1>2. /\ Size \in Nat /\ Per!num_trees \in Nat \ {0}
      /\ Per!TreeAt(Size) = Per!num_trees
      /\ \A i \in 0 .. Size : Per!TreeAt(i) \in Nat
      /\ \A i, j \in 0 .. Size : i <= j => Per!TreeAt(i) <= Per!TreeAt(j)
  BY TreesFollow
<1>3. /\ TreeBegin(t) \in 0 .. Size /\ Per!TreeAt(TreeBegin(t)) = t
      /\ \A i \in 0 .. Size : Per!TreeAt(i) >= t <=> TreeBegin(t) <= i
      /\ TreeBegin(0) = 0
  BY TreesAre
<1>4. Per!FirstTree(p) = Per!TreeAt(g)
      /\ (Per!AtOrigin(p) <=> g = 0 \/ Per!TreeAt(g - 1) # Per!TreeAt(g))
  BY DEF Per!FirstTree, Per!AtOrigin
<1> HIDE DEF g
<1>5. Per!TreeAt(g) \in Nat /\ Per!TreeAt(g) <= Per!num_trees
  <2>1. Size \in 0 .. Size /\ g <= Size
    BY <1>1, <1>2
  <2> QED
    BY <1>1, <1>2, <2>1
<1>6. Per!TreeAt(g) >= t <=> TreeBegin(t) <= g
  BY <1>1, <1>3
<1>7. ASSUME g = TreeBegin(t)
      PROVE  Per!TreeAt(g) = t /\ (g = 0 \/ Per!TreeAt(g - 1) # Per!TreeAt(g))
  <2>1. Per!TreeAt(g) = t
    BY <1>3, <1>7
  <2>2. ASSUME g # 0 PROVE Per!TreeAt(g - 1) # Per!TreeAt(g)
    <3>1. g - 1 \in 0 .. Size /\ ~ (TreeBegin(t) <= g - 1)
      BY <1>1, <1>2, <1>7, <2>2
    <3>2. ~ (Per!TreeAt(g - 1) >= t) /\ t \in Nat
      BY <1>2, <1>3, <3>1
    <3> QED
      BY <2>1, <3>2
  <2> QED
    BY <2>1, <2>2
<1>8. ASSUME Per!TreeAt(g) = t, g = 0 \/ Per!TreeAt(g - 1) # Per!TreeAt(g)
      PROVE  g = TreeBegin(t)
  <2>1. TreeBegin(t) <= g /\ t \in Nat
    BY <1>2, <1>6, <1>8
  <2>2. CASE g = 0
    BY <1>3, <2>1, <2>2
  <2>3. CASE g # 0
    <3>1. g - 1 \in 0 .. Size /\ g - 1 <= g
      BY <1>1, <1>2, <2>3
    <3>2. Per!TreeAt(g - 1) <= Per!TreeAt(g) /\ Per!TreeAt(g - 1) \in Nat
      BY <1>1, <1>2, <3>1
    <3>3. ~ (Per!TreeAt(g - 1) >= t)
      BY <1>8, <2>1, <2>3, <3>2
    <3>4. ~ (TreeBegin(t) <= g - 1)
      BY <1>3, <3>1, <3>3
    <3> QED
      BY <1>1, <1>3, <2>1, <3>4
  <2> QED
    BY <2>2, <2>3
<1>9. /\ Per!FirstTree(p) \in 0 .. Per!num_trees
      /\ Per!FirstTree(p) >= t <=> TreeBegin(t) <= g
  BY <1>2, <1>4, <1>5, <1>6
<1>10. Per!FirstTree(p) = t /\ Per!AtOrigin(p) <=> g = TreeBegin(t)
  BY <1>4, <1>7, <1>8
<1> QED
  BY <1>1, <1>9, <1>10 DEF g

\* p begins with tree t and nobody before it does, or t begins inside of p
Owns(p, t) ==
  \/ Per!gfq(p) = TreeBegin(t) /\ (p > 0 => Per!gfq(p - 1) < TreeBegin(t))
  \/ Per!gfq(p) < TreeBegin(t) /\ TreeBegin(t) < Per!gfq(p + 1)

(* Each tree is counted by one process. *)
LEMMA OwnerIs ==
  ASSUME Forest, NEW t \in 0 .. Per!num_trees - 1
  PROVE  /\ \A p \in Per!Procs : Per!Counts(p, t) => Owns(p, t)
         /\ \E o \in Per!Procs : \A p : Per!Counts(p, t) <=> p = o
<1> DEFINE F == { q \in 0 .. NumProcs : Per!FirstTree(q) >= t }
           first == Per!Min(F)
<1>1. /\ NumProcs \in Nat \ {0} /\ Size \in Nat
      /\ Per!gfq(0) = 0 /\ Per!gfq(NumProcs) = Size
      /\ \A p, q \in 0 .. NumProcs : p <= q => Per!gfq(p) <= Per!gfq(q)
      /\ \A p \in 0 .. NumProcs : Per!gfq(p) \in 0 .. Size
  BY TreesFollow DEF Forest, Per!gfq
<1>2. /\ t \in 0 .. Per!num_trees /\ t < Per!num_trees /\ t \in Nat
      /\ Per!num_trees \in 0 .. Per!num_trees
  BY TreesFollow
<1>3. /\ TreeBegin(t) \in 0 .. Size /\ TreeBegin(t) < Size /\ TreeBegin(0) = 0
      /\ TreeBegin(Per!num_trees) = Size
  BY <1>2, TreesAre
<1>4. \A q \in 0 .. NumProcs :
        /\ Per!FirstTree(q) >= t <=> TreeBegin(t) <= Per!gfq(q)
        /\ Per!FirstTree(q) = t /\ Per!AtOrigin(q) <=> Per!gfq(q) = TreeBegin(t)
  BY <1>2, BeginsIn
<1>5. F \in SUBSET Nat /\ NumProcs \in F
  BY <1>1, <1>3, <1>4
<1>6. first \in F /\ \A y \in F : first <= y
  <2>1. PICK x \in F : \A y \in F : x <= y
    BY <1>5, LeastElement
  <2>2. \E z \in F : \A y \in F : z <= y
    BY <2>1
  <2> HIDE DEF F
  <2> QED
    BY <2>2 DEF Per!Min
<1>7. \A p : Per!Counts(p, t) <=>
               p = IF Per!FirstTree(first) = t /\ Per!AtOrigin(first) THEN first ELSE first - 1
  BY DEF Per!Counts
<1> HIDE DEF first
<1>8. /\ first \in 0 .. NumProcs /\ TreeBegin(t) <= Per!gfq(first)
      /\ \A q \in 0 .. NumProcs : TreeBegin(t) <= Per!gfq(q) => first <= q
  BY <1>4, <1>6
<1>9. CASE Per!gfq(first) = TreeBegin(t)
  <2>1. first # NumProcs
    BY <1>1, <1>3, <1>9
  <2>2. first \in Per!Procs
    BY <1>1, <1>8, <2>1 DEF Per!Procs
  <2>3. \A p : Per!Counts(p, t) <=> p = first
    BY <1>4, <1>7, <1>8, <1>9
  <2>4. ASSUME first > 0 PROVE Per!gfq(first - 1) < TreeBegin(t)
    <3>1. first - 1 \in 0 .. NumProcs /\ ~ (first <= first - 1)
      BY <1>1, <1>8, <2>4
    <3>2. ~ (TreeBegin(t) <= Per!gfq(first - 1)) /\ Per!gfq(first - 1) \in 0 .. Size
      BY <1>1, <1>8, <3>1
    <3> QED
      BY <1>1, <1>3, <3>2
  <2>5. Owns(first, t)
    BY <1>9, <2>4 DEF Owns
  <2> QED
    BY <2>2, <2>3, <2>5
<1>10. CASE Per!gfq(first) # TreeBegin(t)
  <2> DEFINE o == first - 1
  <2>1. first # 0
    BY <1>1, <1>3, <1>8, <1>10
  <2>2. o \in 0 .. NumProcs /\ o \in Per!Procs /\ o + 1 = first /\ ~ (first <= o)
    BY <1>1, <1>8, <2>1 DEF Per!Procs
  <2>3. \A p : Per!Counts(p, t) <=> p = o
    BY <1>4, <1>7, <1>8, <1>10
  <2> HIDE DEF o
  <2>4. ~ (TreeBegin(t) <= Per!gfq(o)) /\ Per!gfq(o) \in 0 .. Size /\ Per!gfq(first) \in 0 .. Size
    BY <1>1, <1>8, <2>2
  <2>5. Per!gfq(o) < TreeBegin(t) /\ TreeBegin(t) < Per!gfq(o + 1)
    BY <1>1, <1>3, <1>8, <1>10, <2>2, <2>4
  <2> QED
    BY <2>2, <2>3, <2>5 DEF Owns
<1> QED
  BY <1>9, <1>10

(* A process counts trees behind those that one in front of it counts. *)
LEMMA OwnersAscend ==
  ASSUME Forest, NEW t \in 0 .. Per!num_trees, NEW u \in 0 .. Per!num_trees, t < u,
         NEW p \in Per!Procs, NEW q \in Per!Procs, Owns(p, t), Owns(q, u)
  PROVE  p <= q
<1>1. NumProcs \in Nat \ {0} /\ Size \in Nat
  BY TreesFollow DEF Forest
<1>2. TreeBegin(t) < TreeBegin(u) /\ TreeBegin(t) \in 0 .. Size /\ TreeBegin(u) \in 0 .. Size
  BY TreesAre
<1>3. /\ p \in 0 .. NumProcs /\ q \in 0 .. NumProcs /\ q + 1 \in 0 .. NumProcs
  BY <1>1 DEF Per!Procs
<1>4. Per!gfq(p) \in 0 .. Size /\ Per!gfq(q) \in 0 .. Size /\ Per!gfq(q + 1) \in 0 .. Size
  BY <1>3 DEF Forest, Per!gfq
<1> SUFFICES ASSUME q < p PROVE FALSE
  BY <1>1, <1>3
<1>5. Per!gfq(q) <= Per!gfq(p) /\ Per!gfq(q + 1) <= Per!gfq(p)
  <2>1. q <= p /\ q + 1 <= p
    BY <1>1, <1>3
  <2> QED
    BY <1>3, <2>1 DEF Forest, Per!gfq
<1>6. Per!gfq(p) <= TreeBegin(t)
  BY <1>2, <1>4 DEF Owns
<1>7. TreeBegin(u) <= Per!gfq(q) \/ TreeBegin(u) <= Per!gfq(q + 1)
  BY <1>2, <1>4 DEF Owns
<1> QED
  BY <1>1, <1>2, <1>4, <1>5, <1>6, <1>7

(* What the least and the greatest element of a set of numbers are. *)
LEMMA Extremes ==
  ASSUME NEW S \in SUBSET Int, NEW x \in S
  PROVE  /\ (\A y \in S : x <= y) => Per!Min(S) = x
         /\ (\A y \in S : y <= x) => Per!Max(S) = x
<1>1. ASSUME \A y \in S : x <= y PROVE Per!Min(S) = x
  <2>1. \A z \in S : (\A y \in S : z <= y) => z = x
    <3> SUFFICES ASSUME NEW z \in S, \A y \in S : z <= y PROVE z = x
      OBVIOUS
    <3>1. z <= x /\ x <= z /\ z \in Int /\ x \in Int
      BY <1>1
    <3> QED
      BY <3>1
  <2> QED
    BY <1>1, <2>1 DEF Per!Min
<1>2. ASSUME \A y \in S : y <= x PROVE Per!Max(S) = x
  <2>1. \A z \in S : (\A y \in S : z >= y) => z = x
    <3> SUFFICES ASSUME NEW z \in S, \A y \in S : z >= y PROVE z = x
      OBVIOUS
    <3>1. z >= x /\ x >= z /\ z \in Int /\ x \in Int
      BY <1>2
    <3> QED
      BY <3>1
  <2>2. \A y \in S : x >= y
    BY <1>2
  <2> QED
    BY <2>1, <2>2 DEF Per!Max
<1> QED
  BY <1>1, <1>2

(* The trees that a process counts, of which there is a first and a last. *)
LEMMA CountedTrees ==
  ASSUME Forest, NEW p \in Per!Procs
  PROVE  /\ Per!Counted(p) \subseteq 0 .. Per!num_trees - 1
         /\ \A t \in Per!Counted(p) : Owns(p, t)
         /\ \A q \in Per!Procs : \A t \in Per!Counted(p) \cap Per!Counted(q) : q = p
         /\ Per!Counted(p) # {} =>
              /\ Per!Max(Per!Counted(p)) \in Per!Counted(p)
              /\ \A t \in Per!Counted(p) : t <= Per!Max(Per!Counted(p))
              /\ Per!Min(Per!Counted(p)) \in Per!Counted(p)
              /\ \A t \in Per!Counted(p) : Per!Min(Per!Counted(p)) <= t
<1> DEFINE C == Per!Counted(p)
<1>1. /\ C = { t \in 0 .. Per!num_trees - 1 : Per!Counts(p, t) }
      /\ \A q : Per!Counted(q) = { t \in 0 .. Per!num_trees - 1 : Per!Counts(q, t) }
  BY DEF Per!Counted
<1>2. \A t \in C : Owns(p, t)
  BY <1>1, OwnerIs
<1>3. \A q \in Per!Procs : \A t \in C \cap Per!Counted(q) : q = p
  <2> SUFFICES ASSUME NEW q \in Per!Procs, NEW t \in C, t \in Per!Counted(q) PROVE q = p
    OBVIOUS
  <2>1. t \in 0 .. Per!num_trees - 1 /\ Per!Counts(p, t) /\ Per!Counts(q, t)
    BY <1>1
  <2>2. \E o \in Per!Procs : \A x : Per!Counts(x, t) <=> x = o
    BY <2>1, OwnerIs
  <2> QED
    BY <2>1, <2>2
<1>4. Per!num_trees \in Nat /\ C \subseteq 0 .. Per!num_trees - 1
  BY <1>1, TreesFollow
<1> HIDE DEF C
<1>5. ASSUME C # {}
      PROVE  /\ \E x \in C : \A y \in C : x <= y
             /\ \E x \in C : \A y \in C : y <= x
  <2>1. \E x \in C : \A y \in C : x <= y
    BY <1>4, <1>5, LeastElement
  <2> DEFINE T == { Per!num_trees - t : t \in C }
  <2>2. T \in SUBSET Nat /\ T # {}
    BY <1>4, <1>5
  <2>3. PICK z \in T : \A y \in T : z <= y
    BY <2>2, LeastElement
  <2>4. PICK x \in C : z = Per!num_trees - x
    BY <2>3
  <2>5. \A y \in C : y <= x
    <3> SUFFICES ASSUME NEW y \in C PROVE y <= x
      OBVIOUS
    <3>1. Per!num_trees - y \in T
      OBVIOUS
    <3>2. Per!num_trees - x <= Per!num_trees - y /\ x \in Int /\ y \in Int
      BY <1>4, <2>3, <2>4, <3>1
    <3> QED
      BY <1>4, <3>2
  <2> QED
    BY <2>1, <2>5
<1>6. C # {} => /\ Per!Max(C) \in C /\ \A t \in C : t <= Per!Max(C)
                /\ Per!Min(C) \in C /\ \A t \in C : Per!Min(C) <= t
  <2> SUFFICES ASSUME C # {}
               PROVE  /\ Per!Max(C) \in C /\ \A t \in C : t <= Per!Max(C)
                      /\ Per!Min(C) \in C /\ \A t \in C : Per!Min(C) <= t
    OBVIOUS
  <2>1. PICK x \in C : \A y \in C : x <= y
    BY <1>5
  <2>2. PICK z \in C : \A y \in C : y <= z
    BY <1>5
  <2>3. C \in SUBSET Int
    BY <1>4
  <2>4. Per!Min(C) = x /\ Per!Max(C) = z
    BY <2>1, <2>2, <2>3, Extremes
  <2> QED
    BY <2>1, <2>2, <2>4
<1> QED
  BY <1>2, <1>3, <1>4, <1>6 DEF C

(* The process that counts the tree behind the last one of p is the next that *)
(* counts any.                                                                *)
LEMMA NextCounts ==
  ASSUME Forest, NEW p \in Per!Procs, NEW t \in Per!Counted(p), Per!Max(Per!Counted(p)) = t
  PROVE  /\ t + 1 = Per!num_trees => Per!NextCounting(p) = NumProcs
         /\ t + 1 # Per!num_trees =>
              /\ Per!NextCounting(p) \in Per!Procs /\ p < Per!NextCounting(p)
              /\ t + 1 \in Per!Counted(Per!NextCounting(p))
              /\ Per!Min(Per!Counted(Per!NextCounting(p))) = t + 1
              /\ Per!PrevCounting(Per!NextCounting(p)) = p
<1>1. /\ NumProcs \in Nat \ {0} /\ Per!num_trees \in Nat \ {0} /\ Per!Procs = 0 .. NumProcs - 1
      /\ t \in 0 .. Per!num_trees - 1 /\ Owns(p, t)
      /\ \A u \in Per!Counted(p) : u <= t
  BY TreesFollow, CountedTrees DEF Per!Procs, Forest
<1>2. \A q \in Per!Procs : Per!Counted(q) \subseteq 0 .. Per!num_trees - 1
  BY CountedTrees
<1>3. ASSUME NEW q \in Per!Procs, NEW v \in Per!Counted(q), NEW r \in Per!Procs,
             NEW w \in Per!Counted(r), v < w
      PROVE  q <= r
  <2>1. /\ Owns(q, v) /\ Owns(r, w) /\ v \in 0 .. Per!num_trees - 1 /\ w \in 0 .. Per!num_trees - 1
    BY CountedTrees
  <2>2. v \in 0 .. Per!num_trees /\ w \in 0 .. Per!num_trees
    BY <1>1, <2>1
  <2> QED
    BY <1>3, <2>1, <2>2, OwnersAscend
<1>4. \A q \in Per!Procs : t \in Per!Counted(q) => q = p
  BY CountedTrees
<1> DEFINE N == { q \in p + 1 .. NumProcs - 1 : Per!Counted(q) # {} }
<1>5. Per!NextCounting(p) = Per!Min(N \union {NumProcs}) /\ N \union {NumProcs} \in SUBSET Int
  BY <1>1 DEF Per!NextCounting
<1>6. ASSUME NEW q \in N, NEW u \in Per!Counted(q) PROVE u > t /\ q \in Per!Procs /\ q > p
  <2>1. q \in Per!Procs /\ q > p /\ u \in Int /\ t \in Int
    BY <1>1, <1>2
  <2>2. ~ (q <= p)
    BY <1>1, <2>1
  <2>3. ~ (u < t)
    BY <1>3, <2>1, <2>2
  <2>4. u # t
    BY <1>4, <2>1, <2>2
  <2> QED
    BY <2>1, <2>3, <2>4
<1>7. ASSUME t + 1 = Per!num_trees PROVE Per!NextCounting(p) = NumProcs
  <2>1. N = {}
    <3> SUFFICES ASSUME NEW q \in N PROVE FALSE
      OBVIOUS
    <3>1. PICK u : u \in Per!Counted(q)
      OBVIOUS
    <3>2. u > t /\ u \in 0 .. Per!num_trees - 1
      BY <1>2, <1>6, <3>1
    <3> QED
      BY <1>1, <1>7, <3>2
  <2>2. N \union {NumProcs} = {NumProcs}
    BY <2>1
  <2> HIDE DEF N
  <2>3. Per!Min({NumProcs}) = NumProcs
    <3>1. /\ {NumProcs} \in SUBSET Int /\ NumProcs \in {NumProcs}
          /\ \A y \in {NumProcs} : NumProcs <= y
      BY <1>1
    <3> QED
      BY <3>1, Extremes
  <2> QED
    BY <1>5, <2>2, <2>3
<1>8. ASSUME t + 1 # Per!num_trees
      PROVE  /\ Per!NextCounting(p) \in Per!Procs /\ p < Per!NextCounting(p)
             /\ t + 1 \in Per!Counted(Per!NextCounting(p))
             /\ Per!Min(Per!Counted(Per!NextCounting(p))) = t + 1
             /\ Per!PrevCounting(Per!NextCounting(p)) = p
  <2>1. t + 1 \in 0 .. Per!num_trees - 1 /\ t < t + 1
    BY <1>1, <1>8
  <2>2. PICK o \in Per!Procs : Per!Counts(o, t + 1)
    BY <2>1, OwnerIs
  <2>3. t + 1 \in Per!Counted(o)
    BY <2>1, <2>2 DEF Per!Counted
  <2>4. p <= o /\ o # p
    BY <1>1, <1>3, <2>1, <2>3
  <2>5. o \in N /\ o > p
    BY <1>1, <2>2, <2>3, <2>4
  <2>6. ASSUME NEW q \in N PROVE o <= q
    <3>1. PICK u : u \in Per!Counted(q)
      OBVIOUS
    <3>2. u > t /\ q \in Per!Procs /\ u \in Int
      BY <1>2, <1>6, <3>1
    <3>3. CASE u = t + 1
      <4>1. t + 1 \in Per!Counted(q) \cap Per!Counted(o)
        BY <2>3, <3>1, <3>3
      <4>2. q = o
        BY <3>2, <4>1, CountedTrees
      <4> QED
        BY <1>1, <4>2
    <3>4. CASE u # t + 1
      <4>1. t + 1 < u
        BY <1>1, <3>2, <3>4
      <4> QED
        BY <1>3, <2>3, <3>1, <3>2, <4>1
    <3> QED
      BY <3>3, <3>4
  <2>7. Per!NextCounting(p) = o
    <3>1. o \in N \union {NumProcs} /\ \A y \in N \union {NumProcs} : o <= y
      BY <1>1, <2>5, <2>6
    <3> HIDE DEF N
    <3> QED
      BY <1>5, <3>1, Extremes
  <2>8. Per!Min(Per!Counted(o)) = t + 1
    <3>1. ASSUME NEW u \in Per!Counted(o) PROVE t + 1 <= u
      <4>1. u > t /\ u \in Int
        BY <1>2, <1>6, <2>5
      <4> QED
        BY <1>1, <4>1
    <3>2. Per!Counted(o) \in SUBSET Int
      BY <1>2
    <3> QED
      BY <2>3, <3>1, <3>2, Extremes
  <2>9. Per!PrevCounting(o) = p
    <3> DEFINE B == { q \in 0 .. o - 1 : Per!Counted(q) # {} }
    <3>1. p \in B /\ B \in SUBSET Int
      BY <1>1, <2>5
    <3>2. ASSUME NEW q \in B PROVE q <= p
      <4> SUFFICES ASSUME q > p PROVE FALSE
        BY <1>1
      <4>1. q \in N /\ ~ (o <= q)
        BY <1>1
      <4> QED
        BY <2>6, <4>1
    <3>3. Per!PrevCounting(o) = Per!Max(B)
      BY DEF Per!PrevCounting
    <3> HIDE DEF B
    <3> QED
      BY <3>1, <3>2, <3>3, Extremes
  <2> QED
    BY <2>2, <2>3, <2>5, <2>7, <2>8, <2>9
<1> QED
  BY <1>7, <1>8

(* Who is sent a count waits for it, and who waits for one is sent it. *)
LEMMA TellsWhoExpects ==
  ASSUME Forest, NEW m \in Per!Procs, Per!Tells(m)
  PROVE  /\ Per!PrevCounting(m) \in Per!Procs
         /\ Per!Expects(Per!PrevCounting(m))
         /\ Per!NextCounting(Per!PrevCounting(m)) = m
<1> DEFINE u == Per!Min(Per!Counted(m))
<1>1. Per!Counted(m) # {} /\ Per!FirstTree(m) < u
  BY DEF Per!Tells
<1>2. /\ u \in Per!Counted(m) /\ \A v \in Per!Counted(m) : u <= v
      /\ Per!Counted(m) \subseteq 0 .. Per!num_trees - 1 /\ Owns(m, u)
  BY <1>1, CountedTrees
<1> HIDE DEF u
<1>3. /\ NumProcs \in Nat \ {0} /\ Per!num_trees \in Nat \ {0} /\ Size \in Nat
      /\ Per!Procs = 0 .. NumProcs - 1 /\ m \in 0 .. NumProcs /\ u \in 0 .. Per!num_trees - 1
  BY <1>2, TreesFollow DEF Per!Procs, Forest
<1>4. Per!FirstTree(m) \in 0 .. Per!num_trees
  <2>1. 0 \in 0 .. Per!num_trees
    BY <1>3
  <2> QED
    BY <1>3, <2>1, BeginsIn
<1> DEFINE t == u - 1
<1>5. t \in 0 .. Per!num_trees - 1 /\ t + 1 = u /\ t < u /\ t \in 0 .. Per!num_trees
        /\ u \in 0 .. Per!num_trees /\ t + 1 # Per!num_trees
  BY <1>1, <1>3, <1>4
<1> HIDE DEF t
<1>6. PICK p \in Per!Procs : Per!Counts(p, t)
  BY <1>5, OwnerIs
<1>7. t \in Per!Counted(p) /\ Owns(p, t)
  BY <1>5, <1>6, OwnerIs DEF Per!Counted
<1>8. p # m
  BY <1>2, <1>5, <1>7
<1>9. p <= m
  BY <1>2, <1>5, <1>7, OwnersAscend
<1>10. Per!Max(Per!Counted(p)) = t
  <2>1. Per!Counted(p) \subseteq 0 .. Per!num_trees - 1
    BY CountedTrees
  <2>2. ASSUME NEW v \in Per!Counted(p) PROVE v <= t
    <3> SUFFICES ASSUME v > t PROVE FALSE
      BY <1>5, <2>1
    <3>1. v \in 0 .. Per!num_trees /\ v # u /\ Owns(p, v)
      <4>1. v # u
        BY <1>2, <1>8, CountedTrees
      <4> QED
        BY <1>3, <2>1, <4>1, CountedTrees
    <3>2. u < v
      BY <1>3, <1>5, <3>1
    <3>3. m <= p
      BY <1>2, <1>5, <3>1, <3>2, OwnersAscend
    <3> QED
      BY <1>3, <1>8, <1>9, <3>3
  <2>3. Per!Counted(p) \in SUBSET Int
    BY <2>1
  <2> QED
    BY <1>7, <2>2, <2>3, Extremes
<1>11. /\ Per!NextCounting(p) \in Per!Procs /\ u \in Per!Counted(Per!NextCounting(p))
       /\ Per!PrevCounting(Per!NextCounting(p)) = p
  BY <1>5, <1>7, <1>10, NextCounts
<1>12. Per!NextCounting(p) = m
  BY <1>2, <1>11, CountedTrees
<1>13. Per!FirstTree(m) = t
  <2>1. p \in 0 .. NumProcs /\ p + 1 \in 0 .. NumProcs /\ p + 1 <= m /\ p <= p + 1
    BY <1>3, <1>8, <1>9
  <2>2. /\ Per!gfq(p) <= Per!gfq(p + 1) /\ Per!gfq(p + 1) <= Per!gfq(m)
        /\ Per!gfq(p) \in 0 .. Size /\ Per!gfq(p + 1) \in 0 .. Size /\ Per!gfq(m) \in 0 .. Size
    BY <1>3, <2>1 DEF Forest, Per!gfq
  <2>3. TreeBegin(t) \in 0 .. Size
    BY <1>5, TreesAre
  <2>4. TreeBegin(t) <= Per!gfq(m)
    BY <1>3, <1>7, <2>2, <2>3 DEF Owns
  <2>5. Per!FirstTree(m) >= t
    BY <1>3, <1>5, <2>4, BeginsIn
  <2> QED
    BY <1>1, <1>3, <1>4, <1>5, <2>5
<1> QED
  BY <1>6, <1>7, <1>10, <1>11, <1>12, <1>13 DEF Per!Expects

(* A process that waits is told by the one it waits for. *)
LEMMA ExpectsWhoTells ==
  ASSUME Forest, NEW p \in Per!Procs, Per!Expects(p)
  PROVE  /\ Per!NextCounting(p) \in Per!Procs
         /\ Per!Tells(Per!NextCounting(p))
         /\ Per!PrevCounting(Per!NextCounting(p)) = p
<1> DEFINE t == Per!Max(Per!Counted(p))
           m == Per!NextCounting(p)
<1>1. Per!Counted(p) # {} /\ Per!FirstTree(m) = t
  BY DEF Per!Expects
<1>2. t \in Per!Counted(p) /\ t \in 0 .. Per!num_trees - 1
  BY <1>1, CountedTrees
<1>3. NumProcs \in Nat \ {0} /\ Per!num_trees \in Nat \ {0} /\ NumProcs \in 0 .. NumProcs
        /\ Per!num_trees \in 0 .. Per!num_trees
  <2>1. NumProcs \in Nat \ {0}
    BY DEF Forest
  <2>2. Per!num_trees \in Nat \ {0}
    BY TreesFollow
  <2> QED
    BY <2>1, <2>2
<1>4. Per!FirstTree(NumProcs) = Per!num_trees
  <2>1. Per!gfq(NumProcs) = Size
    BY DEF Forest, Per!gfq
  <2>2. Per!TreeAt(Size) = Per!num_trees
    BY TreesFollow
  <2> QED
    BY <2>1, <2>2 DEF Per!FirstTree
<1>5. t + 1 # Per!num_trees
  <2> SUFFICES ASSUME t + 1 = Per!num_trees PROVE FALSE
    OBVIOUS
  <2>1. m = NumProcs
    BY <1>2, NextCounts
  <2> HIDE DEF t, m
  <2> QED
    BY <1>1, <1>2, <1>3, <1>4, <2>1
<1>6. /\ m \in Per!Procs /\ t + 1 \in Per!Counted(m) /\ Per!Min(Per!Counted(m)) = t + 1
      /\ Per!PrevCounting(m) = p
  BY <1>2, <1>5, NextCounts
<1> HIDE DEF t, m
<1>7. Per!Tells(m)
  <2>1. t < t + 1
    BY <1>2
  <2> QED
    BY <1>1, <1>6, <2>1 DEF Per!Tells
<1> QED
  BY <1>6, <1>7 DEF m

(***************************************************************************)
(* The counts.                                                             *)
(***************************************************************************)
(* The module counts as everybody does. *)
LEMMA SameCardinality == \A S : Per!Cardinality(S) = Cardinality(S)
BY DEF Per!Cardinality, Cardinality

(* The quadrants that a process has of a tree are a range. *)
LEMMA LocalIs ==
  ASSUME Forest, NEW p \in Per!Procs, NEW t \in 0 .. Per!num_trees - 1,
         NEW lo \in Nat, NEW hi \in Nat, lo <= hi,
         Per!gfq(p) <= lo, TreeBegin(t) <= lo, lo \in { Per!gfq(p), TreeBegin(t) },
         hi <= Per!gfq(p + 1), hi <= TreeBegin(t + 1), hi \in { Per!gfq(p + 1), TreeBegin(t + 1) }
  PROVE  Per!Local(p, t) = hi - lo
<1>1. /\ Per!num_trees \in Nat \ {0} /\ Size \in Nat /\ NumProcs \in Nat \ {0}
      /\ p + 1 \in 0 .. NumProcs /\ p \in 0 .. NumProcs
  <2>1. Per!num_trees \in Nat \ {0} /\ Size \in Nat
    BY TreesFollow
  <2>2. NumProcs \in Nat \ {0}
    BY DEF Forest
  <2> QED
    BY <2>1, <2>2 DEF Per!Procs
<1>2. Per!gfq(p) \in 0 .. Size /\ Per!gfq(p + 1) \in 0 .. Size
  BY <1>1 DEF Forest, Per!gfq
<1>3. t \in 0 .. Per!num_trees /\ t + 1 \in 0 .. Per!num_trees
  BY <1>1
<1>4. /\ TreeBegin(t) \in 0 .. Size /\ TreeBegin(t + 1) \in 0 .. Size
      /\ \A i \in 0 .. Size : /\ Per!TreeAt(i) >= t <=> TreeBegin(t) <= i
                              /\ Per!TreeAt(i) >= t + 1 <=> TreeBegin(t + 1) <= i
  BY <1>3, TreesAre
<1>5. \A i \in 0 .. Size : Per!TreeAt(i) \in Nat
  BY TreesFollow
<1>6. { i \in Per!gfq(p) .. Per!gfq(p + 1) - 1 : Per!TreeAt(i) = t } = lo .. hi - 1
  <2>1. ASSUME NEW i \in Per!gfq(p) .. Per!gfq(p + 1) - 1
        PROVE  Per!TreeAt(i) = t <=> TreeBegin(t) <= i /\ i < TreeBegin(t + 1)
    <3>1. i \in 0 .. Size
      BY <1>1, <1>2
    <3>2. /\ Per!TreeAt(i) \in Nat
          /\ Per!TreeAt(i) >= t <=> TreeBegin(t) <= i
          /\ Per!TreeAt(i) >= t + 1 <=> TreeBegin(t + 1) <= i
      BY <1>4, <1>5, <3>1
    <3> QED
      BY <1>1, <1>4, <3>1, <3>2
  <2>2. ASSUME NEW i \in Int
        PROVE  i \in lo .. hi - 1 <=> /\ i \in Per!gfq(p) .. Per!gfq(p + 1) - 1
                                      /\ TreeBegin(t) <= i /\ i < TreeBegin(t + 1)
    BY <1>1, <1>2, <1>4
  <2>3. \A i \in Per!gfq(p) .. Per!gfq(p + 1) - 1 : i \in Int
    BY <1>2
  <2> QED
    BY <2>1, <2>2, <2>3
<1>7. Cardinality(lo .. hi - 1) = hi - lo
  <2>1. Cardinality(lo .. hi - 1) = IF lo > hi - 1 THEN 0 ELSE (hi - 1) - lo + 1
    BY FS_Interval
  <2> QED
    BY <2>1
<1> QED
  BY <1>6, <1>7, SameCardinality DEF Per!Local

TreeSize(t) == TreeBegin(t + 1) - TreeBegin(t)

(* What a process adds up for a tree, with what it is sent, is the size of *)
(* the tree.                                                               *)
LEMMA OwnIs ==
  ASSUME Forest, NEW p \in Per!Procs, NEW t \in Per!Counted(p)
  PROVE  /\ Per!Own(p, t) \in Int /\ TreeSize(t) \in Int
         /\ ~ (t = Per!Max(Per!Counted(p)) /\ Per!Expects(p)) => Per!Own(p, t) = TreeSize(t)
         /\ t = Per!Max(Per!Counted(p)) /\ Per!Expects(p) =>
              Per!Own(p, t) + Per!Local(Per!NextCounting(p), Per!FirstTree(Per!NextCounting(p)))
                = TreeSize(t)
<1> DEFINE B(u) == TreeBegin(u)
           last == Per!Max(Per!Counted(p))
           m == Per!NextCounting(p)
<1>1. /\ Per!num_trees \in Nat \ {0} /\ Size \in Nat /\ NumProcs \in Nat \ {0}
      /\ p + 1 \in 0 .. NumProcs /\ p \in 0 .. NumProcs /\ Per!Procs = 0 .. NumProcs - 1
  <2>1. Per!num_trees \in Nat \ {0} /\ Size \in Nat
    BY TreesFollow
  <2>2. NumProcs \in Nat \ {0}
    BY DEF Forest
  <2> QED
    BY <2>1, <2>2 DEF Per!Procs
<1>2. /\ t \in 0 .. Per!num_trees - 1 /\ Owns(p, t)
      /\ last \in Per!Counted(p) /\ t <= last /\ last \in 0 .. Per!num_trees - 1
  BY CountedTrees
<1>3. /\ t \in 0 .. Per!num_trees /\ t + 1 \in 0 .. Per!num_trees /\ t < t + 1
  BY <1>1, <1>2
<1>4. /\ B(t) \in 0 .. Size /\ B(t + 1) \in 0 .. Size /\ B(t) < B(t + 1)
      /\ B(Per!num_trees) = Size
  BY <1>3, TreesAre
<1>5. /\ \A q \in 0 .. NumProcs : Per!gfq(q) \in 0 .. Size
      /\ \A q, r \in 0 .. NumProcs : q <= r => Per!gfq(q) <= Per!gfq(r)
      /\ Per!gfq(NumProcs) = Size
  BY DEF Forest, Per!gfq
<1>6. /\ Per!gfq(p) \in 0 .. Size /\ Per!gfq(p + 1) \in 0 .. Size
      /\ Per!gfq(p) <= Per!gfq(p + 1)
  BY <1>1, <1>5
<1>7. Per!gfq(p) <= B(t) /\ B(t) <= Per!gfq(p + 1)
  BY <1>1, <1>2, <1>4, <1>6 DEF Owns
<1>8. Per!Own(p, t) = Per!Local(p, t) + IF t = last THEN Per!gfq(m) - Per!gfq(p + 1) ELSE 0
  BY DEF Per!Own
<1>9. TreeSize(t) = B(t + 1) - B(t)
  BY DEF TreeSize
<1>10. CASE t # last
  <2>1. t < last /\ last \in Int /\ t + 1 <= last /\ last \in 0 .. Per!num_trees
    BY <1>1, <1>2, <1>10
  <2>2. Owns(p, last)
    BY <1>2, CountedTrees
  <2>3. B(t + 1) <= B(last) /\ B(last) \in 0 .. Size
    <3>1. CASE t + 1 = last
      BY <1>4, <3>1
    <3>2. CASE t + 1 # last
      <4>1. t + 1 < last
        BY <1>3, <2>1, <3>2
      <4> QED
        BY <1>3, <1>4, <2>1, <4>1, TreesAre
    <3> QED
      BY <3>1, <3>2
  <2>4. B(last) <= Per!gfq(p + 1)
    BY <1>1, <1>6, <2>2, <2>3 DEF Owns
  <2>5. /\ B(t) \in Nat /\ B(t + 1) \in Nat /\ B(t) <= B(t + 1) /\ B(t + 1) <= Per!gfq(p + 1)
        /\ B(t) <= B(t) /\ B(t + 1) <= B(t + 1)
    BY <1>4, <1>6, <2>3, <2>4
  <2>6. Per!Local(p, t) = B(t + 1) - B(t)
    BY <1>2, <1>7, <2>5, LocalIs
  <2> QED
    BY <1>4, <1>8, <1>9, <1>10, <2>6
<1>11. CASE t = last
  <2>1. /\ m \in 0 .. NumProcs /\ p + 1 <= m
        /\ t + 1 = Per!num_trees => m = NumProcs
        /\ t + 1 # Per!num_trees => m \in Per!Procs /\ Owns(m, t + 1)
    <3>1. CASE t + 1 = Per!num_trees
      <4>1. m = NumProcs
        BY <1>11, <3>1, NextCounts
      <4> HIDE DEF m
      <4> QED
        BY <1>1, <3>1, <4>1
    <3>2. CASE t + 1 # Per!num_trees
      <4>1. m \in Per!Procs /\ p < m /\ t + 1 \in Per!Counted(m)
        BY <1>11, <3>2, NextCounts
      <4> HIDE DEF m
      <4>2. Owns(m, t + 1)
        BY <4>1, CountedTrees
      <4> QED
        BY <1>1, <3>2, <4>1, <4>2
    <3> QED
      BY <3>1, <3>2
  <2>2. Per!Expects(p) <=> Per!FirstTree(m) = t
    BY <1>11 DEF Per!Expects
  <2> HIDE DEF m, last
  <2>3. Per!gfq(m) \in 0 .. Size /\ Per!gfq(p + 1) <= Per!gfq(m)
    BY <1>1, <1>5, <2>1
  <2>4. Per!gfq(m) <= B(t + 1)
    <3>1. CASE t + 1 = Per!num_trees
      BY <1>1, <1>4, <2>3, <3>1
    <3>2. CASE t + 1 # Per!num_trees
      BY <1>1, <1>4, <2>1, <2>3, <3>2 DEF Owns
    <3> QED
      BY <3>1, <3>2
  <2>5. /\ B(t) \in Nat /\ Per!gfq(p + 1) \in Nat /\ Per!gfq(p + 1) <= B(t + 1)
        /\ B(t) <= B(t) /\ Per!gfq(p + 1) <= Per!gfq(p + 1)
    BY <1>4, <1>6, <2>3, <2>4
  <2>6. Per!Local(p, t) = Per!gfq(p + 1) - B(t)
    BY <1>2, <1>7, <2>5, LocalIs
  <2>7. Per!Own(p, t) = Per!gfq(m) - B(t)
    BY <1>4, <1>6, <1>8, <1>11, <2>3, <2>6
  <2>8. /\ Per!FirstTree(m) \in 0 .. Per!num_trees
        /\ Per!FirstTree(m) >= t <=> B(t) <= Per!gfq(m)
        /\ Per!FirstTree(m) >= t + 1 <=> B(t + 1) <= Per!gfq(m)
    BY <1>3, <2>1, BeginsIn
  <2>9. Per!FirstTree(m) >= t
    BY <1>1, <1>4, <1>6, <1>7, <2>3, <2>8
  <2>10. CASE ~ Per!Expects(p)
    <3>1. Per!FirstTree(m) >= t + 1
      BY <1>1, <1>2, <2>2, <2>8, <2>9, <2>10
    <3>2. Per!gfq(m) = B(t + 1)
      BY <1>4, <2>3, <2>4, <2>8, <3>1
    <3> QED
      BY <1>4, <1>9, <2>7, <2>10, <3>2
  <2>11. CASE Per!Expects(p)
    <3>1. Per!FirstTree(m) = t /\ ~ (Per!FirstTree(m) >= t + 1)
      BY <1>2, <2>2, <2>11
    <3>2. Per!gfq(m) < B(t + 1) /\ m # NumProcs
      <4>1. Per!gfq(m) < B(t + 1)
        BY <1>4, <2>3, <2>8, <3>1
      <4>2. Per!gfq(NumProcs) = Size /\ B(t + 1) <= Size /\ B(t + 1) \in Int /\ Size \in Int
        BY <1>1, <1>4, <1>5
      <4> QED
        BY <4>1, <4>2
    <3>3. m \in Per!Procs /\ Owns(m, t + 1)
      BY <2>1, <3>2
    <3>4. m + 1 \in 0 .. NumProcs
      BY <1>1, <3>3
    <3>5. Per!gfq(m + 1) \in 0 .. Size /\ B(t + 1) < Per!gfq(m + 1)
      BY <1>4, <1>5, <2>3, <3>2, <3>3, <3>4 DEF Owns
    <3>6. /\ Per!gfq(m) \in Nat /\ B(t + 1) \in Nat /\ Per!gfq(m) <= B(t + 1)
          /\ B(t) <= Per!gfq(m) /\ B(t + 1) <= Per!gfq(m + 1)
          /\ Per!gfq(m) <= Per!gfq(m) /\ B(t + 1) <= B(t + 1)
      BY <1>4, <1>7, <1>6, <2>3, <2>4, <3>5
    <3>7. Per!Local(m, t) = B(t + 1) - Per!gfq(m)
      BY <1>2, <3>3, <3>6, LocalIs
    <3>8. /\ Per!Own(p, t) \in Int /\ TreeSize(t) \in Int
          /\ Per!Own(p, t) + Per!Local(m, Per!FirstTree(m)) = TreeSize(t)
      BY <1>4, <1>9, <2>3, <2>7, <3>1, <3>7
    <3> QED
      BY <1>11, <2>11, <3>8 DEF m, last
  <2> QED
    BY <2>10, <2>11
<1> QED
  BY <1>10, <1>11

(***************************************************************************)
(* The invariant.                                                          *)
(***************************************************************************)
Told(p) == [ from |-> p, to |-> Per!PrevCounting(p), n |-> Per!Local(p, Per!FirstTree(p)) ]
PertreeType ==
  /\ input \in Inputs /\ Forest
  /\ step \in [Per!Procs -> { "count", "wait", "gather", "done" }]
  /\ mypertree = [p \in Per!Procs |-> mypertree[p]]
  /\ pertree = [p \in Per!Procs |-> pertree[p]]
\* what is on its way was told, and is not yet taken
OnTheWay ==
  \A m : m \in wire <=>
    \E p \in Per!Procs : /\ m = Told(p) /\ Per!Tells(p) /\ step[p] # "count"
                         /\ step[Per!PrevCounting(p)] \in { "count", "wait" }
CountsInv ==
  \A p \in Per!Procs :
    /\ step[p] = "wait" => /\ Per!Expects(p)
                           /\ mypertree[p] = [t \in Per!Counted(p) |-> Per!Own(p, t)]
    /\ step[p] \in { "gather", "done" } =>
         /\ mypertree[p] = [t \in Per!Counted(p) |-> TreeSize(t)]
         /\ Per!Expects(p) => step[Per!NextCounting(p)] # "count"
    /\ step[p] = "done" =>
         /\ \A q \in Per!Procs : step[q] = "done"
         /\ pertree[p] = [k \in 0 .. Per!num_trees |-> TreeBegin(k)]
PertreeInv == PertreeType /\ OnTheWay /\ CountsInv

(* The forest is not changed. *)
LEMMA ForestStays ==
  ASSUME UNCHANGED input
  PROVE  /\ Forest <=> Forest'
         /\ Per!num_trees' = Per!num_trees
         /\ \A t : TreeBegin(t)' = TreeBegin(t) /\ TreeSize(t)' = TreeSize(t)
         /\ \A p : /\ Per!Counted(p)' = Per!Counted(p) /\ Told(p)' = Told(p)
                   /\ Per!Tells(p) <=> Per!Tells(p)'
                   /\ Per!Expects(p) <=> Per!Expects(p)'
                   /\ Per!PrevCounting(p)' = Per!PrevCounting(p)
                   /\ Per!NextCounting(p)' = Per!NextCounting(p)
                   /\ \A t : Per!Own(p, t)' = Per!Own(p, t)
<1>1. Per!num_trees' = Per!num_trees /\ Size' = Size
  BY DEF Per!num_trees, Size
<1>2. Forest <=> Forest'
  BY <1>1 DEF Forest
<1>3. /\ \A i : Per!TreeAt(i)' = Per!TreeAt(i)
      /\ \A p : Per!gfq(p)' = Per!gfq(p)
  BY <1>1 DEF Per!TreeAt, Per!gfq
<1>4. /\ \A p : Per!FirstTree(p)' = Per!FirstTree(p)
      /\ \A p : Per!AtOrigin(p) <=> Per!AtOrigin(p)'
      /\ \A p, t : Per!Local(p, t)' = Per!Local(p, t)
  BY <1>3 DEF Per!FirstTree, Per!AtOrigin, Per!Local
<1>5. \A p, t : Per!Counts(p, t) <=> Per!Counts(p, t)'
  BY <1>4 DEF Per!Counts
<1>6. \A p : Per!Counted(p)' = Per!Counted(p)
  BY <1>1, <1>5 DEF Per!Counted
<1>7. \A p : /\ Per!PrevCounting(p)' = Per!PrevCounting(p)
             /\ Per!NextCounting(p)' = Per!NextCounting(p)
  BY <1>6 DEF Per!PrevCounting, Per!NextCounting
<1>8. \A p : /\ Per!Tells(p) <=> Per!Tells(p)'
             /\ Per!Expects(p) <=> Per!Expects(p)'
  BY <1>4, <1>6, <1>7 DEF Per!Tells, Per!Expects
<1>9. \A p : \A t : Per!Own(p, t)' = Per!Own(p, t)
  BY <1>3, <1>4, <1>6, <1>7 DEF Per!Own
<1>10. \A t : TreeBegin(t)' = TreeBegin(t)
  BY <1>1, <1>3 DEF TreeBegin
<1>11. \A t : TreeSize(t)' = TreeSize(t)
  BY <1>10 DEF TreeSize
<1>12. \A p : Told(p)' = Told(p)
  BY <1>4, <1>7 DEF Told
<1> QED
  BY <1>1, <1>2, <1>6, <1>7, <1>8, <1>9, <1>10, <1>11, <1>12

(* At the start nothing is counted and nothing on its way. *)
LEMMA PertreeStart ==
  ASSUME Per!ForestsAssumption, Per!Init
  PROVE  PertreeInv
<1>1. /\ input \in Inputs /\ step = [p \in Per!Procs |-> "count"]
      /\ mypertree = [p \in Per!Procs |-> << >>] /\ wire = {}
      /\ pertree = [p \in Per!Procs |-> << >>]
  BY DEF Per!Init
<1>2. Forest
  BY <1>1 DEF Per!ForestsAssumption, Forest, Size
<1>3. PertreeType
  BY <1>1, <1>2 DEF PertreeType
<1>4. OnTheWay
  BY <1>1 DEF OnTheWay
<1>5. CountsInv
  BY <1>1 DEF CountsInv
<1> QED
  BY <1>3, <1>4, <1>5 DEF PertreeInv

(* A process counts its trees, and tells the one in front what it has of the *)
(* tree it begins in.                                                        *)
LEMMA CountKeeps ==
  ASSUME PertreeInv, NEW p \in Per!Procs, Per!Count(p)
  PROVE  PertreeInv'
<1>1. PertreeType /\ OnTheWay /\ CountsInv /\ Forest
  BY DEF PertreeInv, PertreeType
<1> DEFINE to == IF Per!Expects(p) THEN "wait" ELSE "gather"
<1>2. /\ step[p] = "count" /\ step' = [step EXCEPT ![p] = to]
      /\ mypertree' = [mypertree EXCEPT ![p] = [t \in Per!Counted(p) |-> Per!Own(p, t)]]
      /\ wire' = IF Per!Tells(p) THEN wire \union { Told(p) } ELSE wire
      /\ UNCHANGED << input, pertree >>
  BY DEF Per!Count, Told
<1> HIDE DEF to
<1>3. /\ step' \in [Per!Procs -> { "count", "wait", "gather", "done" }]
      /\ step'[p] = to /\ \A q \in Per!Procs : q # p => step'[q] = step[q]
  BY <1>1, <1>2 DEF PertreeType, to
<1>4. /\ mypertree' = [q \in Per!Procs |-> mypertree'[q]]
      /\ mypertree'[p] = [t \in Per!Counted(p) |-> Per!Own(p, t)]
      /\ \A q \in Per!Procs : q # p => mypertree'[q] = mypertree[q]
  BY <1>1, <1>2 DEF PertreeType
<1>5. PertreeType'
  BY <1>1, <1>2, <1>3, <1>4, ForestStays DEF PertreeType
<1>6. OnTheWay'
  <2> DEFINE Open(s, q) == /\ Per!Tells(q) /\ s[q] # "count"
                           /\ s[Per!PrevCounting(q)] \in { "count", "wait" }
  <2>1. ASSUME NEW q \in Per!Procs, q # p PROVE Open(step', q) <=> Open(step, q)
    <3> SUFFICES ASSUME Per!Tells(q) PROVE Open(step', q) <=> Open(step, q)
      OBVIOUS
    <3>1. /\ Per!PrevCounting(q) \in Per!Procs /\ Per!Expects(Per!PrevCounting(q))
      BY <1>1, TellsWhoExpects
    <3>2. CASE Per!PrevCounting(q) = p
      <4>1. step'[p] = "wait"
        BY <1>3, <3>1, <3>2 DEF to
      <4> QED
        BY <1>2, <1>3, <2>1, <3>2, <4>1
    <3>3. CASE Per!PrevCounting(q) # p
      BY <1>3, <2>1, <3>1, <3>3
    <3> QED
      BY <3>2, <3>3
  <2>2. ~ Open(step, p)
    BY <1>2
  <2>3. Open(step', p) <=> Per!Tells(p)
    <3> SUFFICES ASSUME Per!Tells(p) PROVE Open(step', p)
      OBVIOUS
    <3> DEFINE r == Per!PrevCounting(p)
    <3>1. r \in Per!Procs /\ Per!Expects(r) /\ Per!NextCounting(r) = p
      BY <1>1, TellsWhoExpects
    <3> HIDE DEF r
    <3>2. step[r] \notin { "gather", "done" }
      BY <1>1, <1>2, <3>1 DEF CountsInv
    <3>3. step[r] \in { "count", "wait" }
      BY <1>1, <3>1, <3>2 DEF PertreeType
    <3>4. step'[r] \in { "count", "wait" }
      <4>1. CASE r = p
        BY <1>3, <3>1, <4>1 DEF to
      <4>2. CASE r # p
        BY <1>3, <3>1, <3>3, <4>2
      <4> QED
        BY <4>1, <4>2
    <3>5. step'[p] # "count"
      BY <1>3 DEF to
    <3> QED
      BY <3>4, <3>5 DEF r
  <2>4. \A m : m \in wire' <=> \E q \in Per!Procs : m = Told(q) /\ Open(step', q)
    <3>1. \A m : m \in wire <=> \E q \in Per!Procs : m = Told(q) /\ Open(step, q)
      BY <1>1 DEF OnTheWay
    <3> HIDE DEF Open
    <3>2. \A m : m \in wire' <=> m \in wire \/ (Per!Tells(p) /\ m = Told(p))
      BY <1>2
    <3> QED
      BY <2>1, <2>2, <2>3, <3>1, <3>2
  <2> QED
    BY <1>2, <2>4, ForestStays DEF OnTheWay
<1>7. CountsInv'
  <2>1. ASSUME NEW q \in Per!Procs
        PROVE  /\ step'[q] = "wait" =>
                    /\ Per!Expects(q)
                    /\ mypertree'[q] = [t \in Per!Counted(q) |-> Per!Own(q, t)]
               /\ step'[q] \in { "gather", "done" } =>
                    /\ mypertree'[q] = [t \in Per!Counted(q) |-> TreeSize(t)]
                    /\ Per!Expects(q) => step'[Per!NextCounting(q)] # "count"
               /\ step'[q] = "done" =>
                    /\ \A r \in Per!Procs : step'[r] = "done"
                    /\ pertree[q] = [k \in 0 .. Per!num_trees |-> TreeBegin(k)]
    <3>1. CASE q = p
      <4>1. step'[q] = "wait" => Per!Expects(q)
        BY <1>3, <3>1 DEF to
      <4>2. ASSUME step'[q] \in { "gather", "done" }
            PROVE  ~ Per!Expects(q) /\ mypertree'[q] = [t \in Per!Counted(q) |-> TreeSize(t)]
        <5>1. ~ Per!Expects(q)
          BY <1>3, <3>1, <4>2 DEF to
        <5>2. \A t \in Per!Counted(q) : Per!Own(q, t) = TreeSize(t)
          BY <1>1, <5>1, OwnIs
        <5> QED
          BY <1>4, <3>1, <5>1, <5>2
      <4>3. step'[q] # "done"
        BY <1>3, <3>1 DEF to
      <4> QED
        BY <1>4, <3>1, <4>1, <4>2, <4>3
    <3>2. CASE q # p
      <4>1. step'[q] = step[q] /\ mypertree'[q] = mypertree[q]
        BY <1>3, <1>4, <3>2
      <4>2. step[q] # "done"
        BY <1>1, <1>2 DEF CountsInv
      <4>3. \A r \in Per!Procs : step[r] # "count" => step'[r] # "count"
        BY <1>2, <1>3
      <4>4. Per!Expects(q) => Per!NextCounting(q) \in Per!Procs
        BY <1>1, ExpectsWhoTells
      <4> QED
        BY <1>1, <4>1, <4>2, <4>3, <4>4 DEF CountsInv
    <3> QED
      BY <3>1, <3>2
  <2> QED
    BY <1>2, <2>1, ForestStays DEF CountsInv
<1> QED
  BY <1>5, <1>6, <1>7 DEF PertreeInv

(* A process adds what it is told to its last tree. *)
LEMMA AddKeeps ==
  ASSUME PertreeInv, NEW p \in Per!Procs, Per!AddToMyTree(p)
  PROVE  PertreeInv'
<1>1. PertreeType /\ OnTheWay /\ CountsInv /\ Forest
  BY DEF PertreeInv, PertreeType
<1> DEFINE last == Per!Max(Per!Counted(p))
<1>2. PICK m \in wire :
        /\ step[p] = "wait" /\ m.to = p /\ m.from = Per!NextCounting(p)
        /\ mypertree' = [mypertree EXCEPT ![p][last] = @ + m.n]
        /\ wire' = wire \ {m}
        /\ step' = [step EXCEPT ![p] = "gather"]
        /\ UNCHANGED << input, pertree >>
  BY DEF Per!AddToMyTree
<1>3. PICK s \in Per!Procs : /\ m = Told(s) /\ Per!Tells(s) /\ step[s] # "count"
                             /\ step[Per!PrevCounting(s)] \in { "count", "wait" }
  BY <1>1, <1>2 DEF OnTheWay
<1>4. /\ Per!Expects(p) /\ s = Per!NextCounting(p) /\ Per!PrevCounting(s) = p
      /\ m.n = Per!Local(s, Per!FirstTree(s)) /\ Per!Counted(p) # {}
      /\ mypertree[p] = [t \in Per!Counted(p) |-> Per!Own(p, t)]
  <2>1. m.from = s /\ m.to = Per!PrevCounting(s) /\ m.n = Per!Local(s, Per!FirstTree(s))
    BY <1>3 DEF Told
  <2> QED
    BY <1>1, <1>2, <2>1 DEF CountsInv, Per!Expects
<1>5. last \in Per!Counted(p)
  BY <1>1, <1>4, CountedTrees
<1> HIDE DEF last
<1>6. /\ step' \in [Per!Procs -> { "count", "wait", "gather", "done" }]
      /\ step'[p] = "gather" /\ \A q \in Per!Procs : q # p => step'[q] = step[q]
  BY <1>1, <1>2 DEF PertreeType
<1>7. /\ mypertree' = [q \in Per!Procs |-> mypertree'[q]]
      /\ mypertree'[p] = [mypertree[p] EXCEPT ![last] = @ + m.n]
      /\ \A q \in Per!Procs : q # p => mypertree'[q] = mypertree[q]
  BY <1>1, <1>2 DEF PertreeType
<1>8. mypertree'[p] = [t \in Per!Counted(p) |-> TreeSize(t)]
  <2>1. /\ \A t \in Per!Counted(p) : t # last => Per!Own(p, t) = TreeSize(t)
        /\ Per!Own(p, last) + Per!Local(s, Per!FirstTree(s)) = TreeSize(last)
    BY <1>1, <1>4, <1>5, OwnIs DEF last
  <2> QED
    BY <1>4, <1>5, <1>7, <2>1
<1>9. PertreeType'
  BY <1>1, <1>2, <1>6, <1>7, ForestStays DEF PertreeType
<1>10. OnTheWay'
  <2> DEFINE Open(z, q) == /\ Per!Tells(q) /\ z[q] # "count"
                           /\ z[Per!PrevCounting(q)] \in { "count", "wait" }
  <2>1. ASSUME NEW q \in Per!Procs, q # s PROVE Open(step', q) <=> Open(step, q)
    <3> SUFFICES ASSUME Per!Tells(q) PROVE Open(step', q) <=> Open(step, q)
      OBVIOUS
    <3>1. /\ Per!PrevCounting(q) \in Per!Procs /\ Per!NextCounting(Per!PrevCounting(q)) = q
      BY <1>1, TellsWhoExpects
    <3>2. Per!PrevCounting(q) # p
      BY <1>4, <2>1, <3>1
    <3>3. step'[Per!PrevCounting(q)] = step[Per!PrevCounting(q)]
      BY <1>6, <3>1, <3>2
    <3>4. step'[q] # "count" <=> step[q] # "count"
      BY <1>2, <1>6
    <3> QED
      BY <3>3, <3>4
  <2>2. Open(step, s)
    BY <1>3
  <2>3. ~ Open(step', s)
    BY <1>4, <1>6
  <2>4. \A q \in Per!Procs : Told(q) = m <=> q = s
    <3>1. \A q : Told(q).from = q
      BY DEF Told
    <3> QED
      BY <1>3, <3>1
  <2>5. \A x : x \in wire' <=> \E q \in Per!Procs : x = Told(q) /\ Open(step', q)
    <3>1. \A x : x \in wire <=> \E q \in Per!Procs : x = Told(q) /\ Open(step, q)
      BY <1>1 DEF OnTheWay
    <3> HIDE DEF Open
    <3>2. \A x : x \in wire' <=> x \in wire /\ x # m
      BY <1>2
    <3> QED
      BY <2>1, <2>2, <2>3, <2>4, <3>1, <3>2
  <2> QED
    BY <1>2, <2>5, ForestStays DEF OnTheWay
<1>11. CountsInv'
  <2>1. ASSUME NEW q \in Per!Procs
        PROVE  /\ step'[q] = "wait" =>
                    /\ Per!Expects(q)
                    /\ mypertree'[q] = [t \in Per!Counted(q) |-> Per!Own(q, t)]
               /\ step'[q] \in { "gather", "done" } =>
                    /\ mypertree'[q] = [t \in Per!Counted(q) |-> TreeSize(t)]
                    /\ Per!Expects(q) => step'[Per!NextCounting(q)] # "count"
               /\ step'[q] = "done" =>
                    /\ \A r \in Per!Procs : step'[r] = "done"
                    /\ pertree[q] = [k \in 0 .. Per!num_trees |-> TreeBegin(k)]
    <3>1. \A r \in Per!Procs : step[r] # "count" => step'[r] # "count"
      BY <1>2, <1>6
    <3>2. CASE q = p
      BY <1>3, <1>4, <1>6, <1>8, <3>1, <3>2
    <3>3. CASE q # p
      <4>1. step'[q] = step[q] /\ mypertree'[q] = mypertree[q]
        BY <1>6, <1>7, <3>3
      <4>2. step[q] # "done"
        BY <1>1, <1>2 DEF CountsInv
      <4>3. Per!Expects(q) => Per!NextCounting(q) \in Per!Procs
        BY <1>1, ExpectsWhoTells
      <4> QED
        BY <1>1, <3>1, <4>1, <4>2, <4>3 DEF CountsInv
    <3> QED
      BY <3>2, <3>3
  <2> QED
    BY <1>2, <2>1, ForestStays DEF CountsInv
<1> QED
  BY <1>9, <1>10, <1>11 DEF PertreeInv

\* g is the function of the sums of the sizes of trees
AllCumulated(of, g) ==
  g = [k \in 0 .. Per!num_trees |-> IF k = 0 THEN 0 ELSE g[k - 1] + of[k - 1]]

(* Cumulated sizes of trees are where the trees begin. *)
LEMMA SizesAddUp ==
  ASSUME Forest, NEW of, \A t \in 0 .. Per!num_trees - 1 : of[t] = TreeSize(t), NEW g,
         AllCumulated(of, g)
  PROVE  g = [k \in 0 .. Per!num_trees |-> TreeBegin(k)]
<1>1. /\ Per!num_trees \in Nat \ {0} /\ Size \in Nat /\ TreeBegin(0) = 0
      /\ \A k \in 0 .. Per!num_trees : TreeBegin(k) \in 0 .. Size
  BY TreesFollow, TreesAre
<1>2. /\ g = [k \in 0 .. Per!num_trees |-> g[k]]
      /\ \A k \in 0 .. Per!num_trees : g[k] = IF k = 0 THEN 0 ELSE g[k - 1] + of[k - 1]
  BY DEF AllCumulated
<1> DEFINE S == { k \in Nat : k <= Per!num_trees => g[k] = TreeBegin(k) }
<1>3. 0 \in S
  <2>1. 0 \in 0 .. Per!num_trees
    BY <1>1
  <2> QED
    BY <1>1, <1>2, <2>1
<1>4. ASSUME NEW k \in Nat, k \in S PROVE k + 1 \in S
  <2> SUFFICES ASSUME k + 1 <= Per!num_trees PROVE g[k + 1] = TreeBegin(k + 1)
    OBVIOUS
  <2>1. /\ k + 1 \in 0 .. Per!num_trees /\ k \in 0 .. Per!num_trees
        /\ k \in 0 .. Per!num_trees - 1 /\ k + 1 # 0 /\ (k + 1) - 1 = k
    BY <1>1
  <2>2. g[k] = TreeBegin(k) /\ g[k + 1] = g[k] + of[k]
    BY <1>2, <1>4, <2>1
  <2>3. of[k] = TreeBegin(k + 1) - TreeBegin(k)
    BY <2>1 DEF TreeSize
  <2>4. TreeBegin(k) \in Int /\ TreeBegin(k + 1) \in Int
    BY <1>1, <2>1
  <2> QED
    BY <2>2, <2>3, <2>4
<1> HIDE DEF S
<1>5. \A k \in Nat : k \in S
  BY <1>3, <1>4, NatSetInduction, Zenon
<1>6. \A k \in 0 .. Per!num_trees : g[k] = TreeBegin(k)
  <2> SUFFICES ASSUME NEW k \in 0 .. Per!num_trees PROVE g[k] = TreeBegin(k)
    OBVIOUS
  <2>1. k \in S /\ k <= Per!num_trees
    BY <1>1, <1>5
  <2> QED
    BY <2>1 DEF S
<1> QED
  BY <1>2, <1>6

(* In the end all processes have where every tree begins. *)
LEMMA GatherKeeps ==
  ASSUME PertreeInv, Per!Gather
  PROVE  PertreeInv'
<1>1. PertreeType /\ OnTheWay /\ CountsInv /\ Forest
  BY DEF PertreeInv, PertreeType
<1> DEFINE of == [t \in 0 .. Per!num_trees - 1 |->
                    mypertree[CHOOSE p \in Per!Procs : Per!Counts(p, t)][t]]
           E(g) == g = [k \in 0 .. Per!num_trees |->
                          IF k = 0 THEN 0
                          ELSE g[k - 1] + mypertree[CHOOSE p \in Per!Procs : Per!Counts(p, k - 1)][k - 1]]
           sum == CHOOSE g : E(g)
<1>2. /\ \A p \in Per!Procs : step[p] = "gather"
      /\ pertree' = [p \in Per!Procs |-> sum]
      /\ step' = [p \in Per!Procs |-> "done"]
      /\ UNCHANGED << input, mypertree, wire >>
  BY DEF Per!Gather
<1>3. Per!num_trees \in Nat \ {0}
  BY <1>1, TreesFollow
<1>4. \A t \in 0 .. Per!num_trees - 1 : of[t] = TreeSize(t)
  <2> SUFFICES ASSUME NEW t \in 0 .. Per!num_trees - 1 PROVE of[t] = TreeSize(t)
    OBVIOUS
  <2>1. PICK o \in Per!Procs : \A x : Per!Counts(x, t) <=> x = o
    BY <1>1, OwnerIs
  <2>2. (CHOOSE p \in Per!Procs : Per!Counts(p, t)) = o /\ t \in Per!Counted(o)
    BY <2>1 DEF Per!Counted
  <2>3. mypertree[o] = [u \in Per!Counted(o) |-> TreeSize(u)]
    BY <1>1, <1>2 DEF CountsInv
  <2> QED
    BY <2>2, <2>3
<1>5. \A g : E(g) <=> AllCumulated(of, g)
  <2>1. \A k \in 0 .. Per!num_trees : k # 0 =>
          of[k - 1] = mypertree[CHOOSE p \in Per!Procs : Per!Counts(p, k - 1)][k - 1]
    <3>1. \A k \in 0 .. Per!num_trees : k # 0 => k - 1 \in 0 .. Per!num_trees - 1
      BY <1>3
    <3> QED
      BY <3>1
  <2> HIDE DEF of
  <2>2. \A g : [k \in 0 .. Per!num_trees |-> IF k = 0 THEN 0 ELSE g[k - 1] + of[k - 1]]
                 = [k \in 0 .. Per!num_trees |->
                      IF k = 0 THEN 0
                      ELSE g[k - 1] + mypertree[CHOOSE p \in Per!Procs : Per!Counts(p, k - 1)][k - 1]]
    BY <2>1
  <2> QED
    BY <2>2 DEF AllCumulated
<1> HIDE DEF of, E
<1>6. AllCumulated(of, [k \in 0 .. Per!num_trees |-> TreeBegin(k)])
  <2> DEFINE h == [k \in 0 .. Per!num_trees |-> TreeBegin(k)]
  <2>1. ASSUME NEW k \in 0 .. Per!num_trees
        PROVE  h[k] = IF k = 0 THEN 0 ELSE h[k - 1] + of[k - 1]
    <3>1. CASE k = 0
      BY <1>1, <3>1, TreesAre
    <3>2. CASE k # 0
      <4> DEFINE j == k - 1
      <4>1. j \in 0 .. Per!num_trees - 1 /\ j \in 0 .. Per!num_trees /\ j + 1 = k
        BY <1>3, <3>2
      <4>2. h[j] = TreeBegin(j) /\ h[k] = TreeBegin(k)
        BY <4>1
      <4> HIDE DEF h, j
      <4>3. of[j] = TreeBegin(k) - TreeBegin(j)
        BY <1>4, <4>1 DEF TreeSize
      <4>4. TreeBegin(k) \in 0 .. Size /\ TreeBegin(j) \in 0 .. Size /\ Size \in Nat
        BY <1>1, <4>1, TreesAre, TreesFollow
      <4>5. h[k] = h[j] + of[j]
        BY <4>2, <4>3, <4>4
      <4> QED
        BY <3>2, <4>5 DEF j
    <3> QED
      BY <3>1, <3>2
  <2>2. h = [k \in 0 .. Per!num_trees |-> IF k = 0 THEN 0 ELSE h[k - 1] + of[k - 1]]
    BY <2>1
  <2> QED
    BY <2>2 DEF AllCumulated
<1>7. AllCumulated(of, sum)
  <2>1. \E g : E(g)
    BY <1>5, <1>6
  <2>2. E(sum)
    BY <2>1
  <2> QED
    BY <1>5, <2>2
<1> HIDE DEF sum
<1>8. sum = [k \in 0 .. Per!num_trees |-> TreeBegin(k)]
  BY <1>1, <1>4, <1>7, SizesAddUp
<1>9. \A p \in Per!Procs : step'[p] = "done" /\ pertree'[p] = sum
  BY <1>2
<1>10. PertreeType'
  BY <1>1, <1>2, <1>9, ForestStays DEF PertreeType
<1>11. OnTheWay'
  <2>1. ASSUME NEW m PROVE m \notin wire
    <3>1. \A q \in Per!Procs : Per!Tells(q) => Per!PrevCounting(q) \in Per!Procs
      BY <1>1, TellsWhoExpects
    <3> QED
      BY <1>1, <1>2, <3>1 DEF OnTheWay
  <2>2. \A q \in Per!Procs : Per!Tells(q) => step'[Per!PrevCounting(q)] = "done"
    BY <1>1, <1>9, TellsWhoExpects
  <2> QED
    BY <1>2, <2>1, <2>2, ForestStays DEF OnTheWay
<1>12. CountsInv'
  <2>1. ASSUME NEW q \in Per!Procs
        PROVE  /\ mypertree[q] = [t \in Per!Counted(q) |-> TreeSize(t)]
               /\ Per!Expects(q) => step'[Per!NextCounting(q)] # "count"
    <3>1. mypertree[q] = [t \in Per!Counted(q) |-> TreeSize(t)]
      BY <1>1, <1>2 DEF CountsInv
    <3>2. Per!Expects(q) => Per!NextCounting(q) \in Per!Procs
      BY <1>1, ExpectsWhoTells
    <3> QED
      BY <1>9, <3>1, <3>2
  <2> QED
    BY <1>2, <1>8, <1>9, <2>1, ForestStays DEF CountsInv
<1> QED
  BY <1>10, <1>11, <1>12 DEF PertreeInv

(* The invariant holds in every reachable state. *)
LEMMA PertreeHolds ==
  ASSUME Per!ForestsAssumption
  PROVE  Per!Spec => []PertreeInv
<1>1. Per!Init => PertreeInv
  BY PertreeStart
<1>2. PertreeInv /\ [Per!Next]_(Per!vars) => PertreeInv'
  <2> SUFFICES ASSUME PertreeInv, [Per!Next]_(Per!vars)
               PROVE  PertreeInv'
    OBVIOUS
  <2>1. CASE Per!Gather
    BY <2>1, GatherKeeps
  <2>2. ASSUME NEW p \in Per!Procs, Per!Count(p) PROVE PertreeInv'
    BY <2>2, CountKeeps
  <2>3. ASSUME NEW p \in Per!Procs, Per!AddToMyTree(p) PROVE PertreeInv'
    BY <2>3, AddKeeps
  <2>4. CASE UNCHANGED Per!vars
    <3>1. /\ input' = input /\ step' = step /\ mypertree' = mypertree
          /\ wire' = wire /\ pertree' = pertree
      BY <2>4 DEF Per!vars
    <3>2. PertreeType'
      BY <3>1, ForestStays DEF PertreeInv, PertreeType
    <3>3. OnTheWay'
      BY <3>1, ForestStays DEF PertreeInv, OnTheWay
    <3>4. CountsInv'
      BY <3>1, ForestStays DEF PertreeInv, CountsInv
    <3> QED
      BY <3>2, <3>3, <3>4 DEF PertreeInv
  <2> QED
    BY <2>1, <2>2, <2>3, <2>4 DEF Per!Next
<1> QED
  BY <1>1, <1>2, PTL DEF Per!Spec

(* The quadrants in front of a tree are as many as its beginning says. *)
LEMMA InFrontOf ==
  ASSUME Forest, NEW k \in 0 .. Per!num_trees
  PROVE  Per!Cardinality({ i \in DOMAIN input.tree : input.tree[i] < k }) = TreeBegin(k)
<1>1. /\ Size \in Nat /\ \A i \in 0 .. Size : Per!TreeAt(i) \in Nat
      /\ k \in Nat /\ DOMAIN input.tree = 1 .. Size
  <2>1. DOMAIN input.tree = 1 .. Size
    BY DEF Forest, Size
  <2> QED
    BY <2>1, TreesFollow
<1> DEFINE b == TreeBegin(k)
<1>2. b \in 0 .. Size /\ \A i \in 0 .. Size : Per!TreeAt(i) >= k <=> b <= i
  BY TreesAre
<1> HIDE DEF b
<1>3. ASSUME NEW i \in 1 .. Size PROVE input.tree[i] < k <=> i \in 1 .. b
  <2> DEFINE j == i - 1
  <2>1. j \in 0 .. Size /\ j # Size /\ j + 1 = i
    BY <1>1
  <2> HIDE DEF j
  <2>2. Per!TreeAt(j) = input.tree[i] /\ Per!TreeAt(j) \in Nat
    BY <1>1, <2>1 DEF Per!TreeAt, Size
  <2>3. Per!TreeAt(j) >= k <=> b <= j
    BY <1>2, <2>1
  <2> QED
    BY <1>1, <1>2, <2>1, <2>2, <2>3
<1>4. { i \in DOMAIN input.tree : input.tree[i] < k } = 1 .. b
  BY <1>1, <1>2, <1>3
<1>5. Cardinality(1 .. b) = b
  <2>1. Cardinality(1 .. b) = IF 1 > b THEN 0 ELSE b - 1 + 1
    BY <1>1, <1>2, FS_Interval
  <2> QED
    BY <1>1, <1>2, <2>1
<1> QED
  BY <1>4, <1>5, SameCardinality DEF b

(* What is on its way goes to the process that waits for it, and every process  *)
(* gets the number of quadrants in front of every tree                          *)
(* (p4est_comm_count_pertree).                                                  *)
THEOREM TreesCounted ==
  ASSUME Per!ForestsAssumption
  PROVE  Per!Spec => []Per!PertreeRight
<1>1. PertreeInv => Per!PertreeRight
  <2> SUFFICES ASSUME PertreeInv PROVE Per!PertreeRight
    OBVIOUS
  <2>1. PertreeType /\ OnTheWay /\ CountsInv /\ Forest
    BY DEF PertreeInv, PertreeType
  <2>2. ASSUME NEW m \in wire
        PROVE  /\ m.to \in Per!Procs /\ step[m.to] \in { "count", "wait" }
               /\ Per!Expects(m.to) /\ Per!NextCounting(m.to) = m.from
    <3>1. PICK q \in Per!Procs : /\ m = Told(q) /\ Per!Tells(q)
                                 /\ step[Per!PrevCounting(q)] \in { "count", "wait" }
      BY <2>1 DEF OnTheWay
    <3>2. m.from = q /\ m.to = Per!PrevCounting(q)
      BY <3>1 DEF Told
    <3> QED
      BY <2>1, <3>1, <3>2, TellsWhoExpects
  <2>3. ASSUME NEW p \in Per!Procs, step[p] = "done"
        PROVE  /\ wire = {}
               /\ pertree[p] = [k \in 0 .. Per!num_trees |->
                      Per!Cardinality({ i \in DOMAIN input.tree : input.tree[i] < k })]
    <3>1. /\ \A q \in Per!Procs : step[q] = "done"
          /\ pertree[p] = [k \in 0 .. Per!num_trees |-> TreeBegin(k)]
      BY <2>1, <2>3 DEF CountsInv
    <3>2. wire = {}
      BY <2>2, <3>1
    <3>3. \A k \in 0 .. Per!num_trees :
            Per!Cardinality({ i \in DOMAIN input.tree : input.tree[i] < k }) = TreeBegin(k)
      BY <2>1, InFrontOf
    <3> QED
      BY <3>1, <3>2, <3>3
  <2> QED
    BY <2>2, <2>3 DEF Per!PertreeRight
<1> QED
  BY <1>1, PertreeHolds, PTL

\* a process may count, take what it waits for, or gather with the others
SomeMay ==
  \/ \E p \in Per!Procs : step[p] = "count"
  \/ \E p \in Per!Procs, m \in wire :
       step[p] = "wait" /\ m.to = p /\ m.from = Per!NextCounting(p)
  \/ \A p \in Per!Procs : step[p] = "gather"

(* The processes never wait for each other: until all are done, one can go on. *)
(* What a process waits for is there once its sender has counted.              *)
THEOREM CountingGoesOn ==
  ASSUME Per!ForestsAssumption
  PROVE  Per!Spec => [](SomeMay \/ Per!AllDone)
<1>1. PertreeInv => SomeMay \/ Per!AllDone
  <2> SUFFICES ASSUME PertreeInv, ~ Per!AllDone, \A p \in Per!Procs : step[p] # "count"
               PROVE  SomeMay
    BY DEF SomeMay
  <2>1. PertreeType /\ OnTheWay /\ CountsInv /\ Forest
    BY DEF PertreeInv, PertreeType
  <2>2. \A p \in Per!Procs : step[p] # "done"
    BY <2>1 DEF CountsInv, Per!AllDone
  <2>3. CASE \E p \in Per!Procs : step[p] = "wait"
    <3>1. PICK p \in Per!Procs : step[p] = "wait"
      BY <2>3
    <3>2. Per!Expects(p)
      BY <2>1, <3>1 DEF CountsInv
    <3> DEFINE q == Per!NextCounting(p)
    <3>3. q \in Per!Procs /\ Per!Tells(q) /\ Per!PrevCounting(q) = p
      BY <2>1, <3>2, ExpectsWhoTells
    <3> HIDE DEF q
    <3>4. Told(q) \in wire
      BY <2>1, <3>1, <3>3 DEF OnTheWay
    <3>5. Told(q).from = q /\ Told(q).to = p
      BY <3>3 DEF Told
    <3> QED
      BY <3>1, <3>4, <3>5 DEF SomeMay, q
  <2>4. CASE ~ \E p \in Per!Procs : step[p] = "wait"
    BY <2>1, <2>2, <2>4 DEF SomeMay, PertreeType
  <2> QED
    BY <2>3, <2>4
<1> QED
  BY <1>1, PertreeHolds, PTL

(***************************************************************************)
(* ParallelEnv: the processes with quadrants and their order.              *)
(***************************************************************************)
AllQuadrants == input.gfq[NumProcs]
Reducible ==
  /\ NumProcs \in Nat \ {0}
  /\ input.gfq \in [0 .. NumProcs -> Nat] /\ input.gfq[0] = 0 /\ AllQuadrants > 0
  /\ \A p, q \in 0 .. NumProcs : p <= q => input.gfq[p] <= input.gfq[q]
  /\ input.add \subseteq 0 .. NumProcs - 1 /\ input.null \in BOOLEAN /\ input.add_to_beginning \in BOOLEAN
  /\ input.add_to_beginning => \A p \in input.add : input.gfq[p] = input.gfq[p + 1]

(* Numbers that do not fall from one to the next do not fall at all. *)
LEMMA FirstsAscend ==
  ASSUME NumProcs \in Nat \ {0}, NEW cut \in [0 .. NumProcs -> Nat],
         \A p \in 0 .. NumProcs - 1 : cut[p] <= cut[p + 1]
  PROVE  \A p, q \in 0 .. NumProcs : p <= q => cut[p] <= cut[q]
<1> SUFFICES ASSUME NEW p \in 0 .. NumProcs
             PROVE  \A q \in 0 .. NumProcs : p <= q => cut[p] <= cut[q]
  OBVIOUS
<1> DEFINE S == { m \in Nat : p + m <= NumProcs => cut[p] <= cut[p + m] }
<1>1. 0 \in S
  OBVIOUS
<1>2. ASSUME NEW m \in Nat, m \in S PROVE m + 1 \in S
  <2> SUFFICES ASSUME p + (m + 1) <= NumProcs PROVE cut[p] <= cut[p + (m + 1)]
    OBVIOUS
  <2> DEFINE k == p + m
  <2>1. k \in 0 .. NumProcs /\ k \in 0 .. NumProcs - 1 /\ k + 1 \in 0 .. NumProcs /\ p + (m + 1) = k + 1
    OBVIOUS
  <2>2. cut[p] <= cut[k]
    BY <1>2, <2>1
  <2> HIDE DEF k
  <2>3. cut[k] <= cut[k + 1] /\ cut[p] \in Nat /\ cut[k] \in Nat /\ cut[k + 1] \in Nat
    BY <2>1
  <2>4. cut[p] <= cut[k + 1]
    BY <2>2, <2>3
  <2> QED
    BY <2>1, <2>4
<1> HIDE DEF S
<1>3. \A m \in Nat : m \in S
  BY <1>1, <1>2, NatSetInduction, Zenon
<1> SUFFICES ASSUME NEW q \in 0 .. NumProcs, p <= q PROVE cut[p] <= cut[q]
  OBVIOUS
<1>4. q - p \in Nat /\ p + (q - p) = q /\ q <= NumProcs
  OBVIOUS
<1>5. q - p \in S
  BY <1>3, <1>4
<1> QED
  BY <1>4, <1>5 DEF S

(* What the inputs are. *)
LEMMA InputsReduce ==
  ASSUME Env!GroupsAssumption, input \in Inputs
  PROVE  Reducible
<1>1. /\ NumProcs \in Nat \ {0} /\ input.gfq \in [0 .. NumProcs -> Nat]
      /\ \A p \in 0 .. NumProcs - 1 : input.gfq[p] <= input.gfq[p + 1]
  BY DEF Env!GroupsAssumption
<1>2. \A p, q \in 0 .. NumProcs : p <= q => input.gfq[p] <= input.gfq[q]
  BY <1>1, FirstsAscend
<1> QED
  BY <1>1, <1>2 DEF Env!GroupsAssumption, Reducible, AllQuadrants

\* processes a .. b - 1 have no quadrants
NoneBetween(a, b) == \A r \in a .. b - 1 : r \notin Env!Nonempty

(* Where nobody has quadrants, nothing is between. *)
LEMMA EmptyBetween ==
  ASSUME Reducible, NEW a \in 0 .. NumProcs, NEW b \in 0 .. NumProcs, a <= b, NoneBetween(a, b)
  PROVE  input.gfq[a] = input.gfq[b]
<1> DEFINE S == { m \in Nat : a + m <= b => input.gfq[a + m] = input.gfq[a] }
<1>1. 0 \in S
  <2>1. a + 0 = a
    OBVIOUS
  <2> QED
    BY <2>1
<1>2. ASSUME NEW m \in Nat, m \in S PROVE m + 1 \in S
  <2> SUFFICES ASSUME a + (m + 1) <= b PROVE input.gfq[a + (m + 1)] = input.gfq[a]
    OBVIOUS
  <2> DEFINE k == a + m
  <2>1. /\ k \in a .. b - 1 /\ k \in 0 .. NumProcs - 1 /\ k \in 0 .. NumProcs /\ k + 1 \in 0 .. NumProcs
        /\ a + (m + 1) = k + 1 /\ k <= b /\ k <= k + 1
    BY DEF Reducible
  <2>2. input.gfq[k] = input.gfq[a]
    BY <1>2, <2>1
  <2> HIDE DEF k
  <2>3. ~ (input.gfq[k] < input.gfq[k + 1])
    BY <2>1 DEF NoneBetween, Env!Nonempty, Env!Procs
  <2>4. input.gfq[k] <= input.gfq[k + 1] /\ input.gfq[k] \in Nat /\ input.gfq[k + 1] \in Nat
    BY <2>1 DEF Reducible
  <2> QED
    BY <2>1, <2>2, <2>3, <2>4
<1> HIDE DEF S
<1>3. \A m \in Nat : m \in S
  BY <1>1, <1>2, NatSetInduction, Zenon
<1>4. b - a \in Nat /\ a + (b - a) = b
  OBVIOUS
<1>5. b - a \in S
  BY <1>3, <1>4
<1> QED
  BY <1>4, <1>5 DEF S

\* f collects the processes of S one after the other
Collects(S, n, f) ==
  f = [p \in 0 .. n |->
        IF p = 0 THEN << >> ELSE IF p - 1 \in S THEN Append(f[p - 1], p - 1) ELSE f[p - 1]]

(* There is such a function. *)
LEMMA CollectsExist ==
  ASSUME NEW S, NEW n \in Nat
  PROVE  \E f : Collects(S, n, f)
<1> DEFINE T == { m \in Nat : \E f : Collects(S, m, f) }
<1>1. 0 \in T
  <2> DEFINE f == [p \in 0 .. 0 |-> << >>]
  <2>1. f = [p \in 0 .. 0 |->
              IF p = 0 THEN << >> ELSE IF p - 1 \in S THEN Append(f[p - 1], p - 1) ELSE f[p - 1]]
    <3>1. \A p \in 0 .. 0 : p = 0
      OBVIOUS
    <3> QED
      BY <3>1
  <2>2. Collects(S, 0, f)
    BY <2>1 DEF Collects
  <2> QED
    BY <2>2
<1>2. ASSUME NEW m \in Nat, m \in T PROVE m + 1 \in T
  <2>1. PICK f : Collects(S, m, f)
    BY <1>2
  <2> DEFINE h == [p \in 0 .. m + 1 |->
                    IF p = m + 1 THEN (IF m \in S THEN Append(f[m], m) ELSE f[m]) ELSE f[p]]
  <2>2. \A p \in 0 .. m :
          f[p] = IF p = 0 THEN << >> ELSE IF p - 1 \in S THEN Append(f[p - 1], p - 1) ELSE f[p - 1]
    BY <2>1 DEF Collects
  <2>3. /\ h[m + 1] = IF m \in S THEN Append(f[m], m) ELSE f[m]
        /\ \A p \in 0 .. m : h[p] = f[p]
    OBVIOUS
  <2>4. ASSUME NEW p \in 0 .. m + 1
        PROVE  h[p] = IF p = 0 THEN << >> ELSE IF p - 1 \in S THEN Append(h[p - 1], p - 1) ELSE h[p - 1]
    <3> HIDE DEF h
    <3>1. CASE p = m + 1
      <4>1. p - 1 = m /\ m \in 0 .. m /\ p # 0
        BY <3>1
      <4> QED
        BY <2>3, <3>1, <4>1
    <3>2. CASE p # m + 1
      <4>1. p \in 0 .. m /\ (p # 0 => p - 1 \in 0 .. m)
        BY <3>2
      <4> QED
        BY <2>2, <2>3, <4>1
    <3> QED
      BY <3>1, <3>2
  <2>5. h = [p \in 0 .. m + 1 |->
              IF p = 0 THEN << >> ELSE IF p - 1 \in S THEN Append(h[p - 1], p - 1) ELSE h[p - 1]]
    BY <2>4
  <2>6. Collects(S, m + 1, h)
    BY <2>5 DEF Collects
  <2> QED
    BY <2>6
<1> HIDE DEF T
<1>3. \A m \in Nat : m \in T
  BY <1>1, <1>2, NatSetInduction, Zenon
<1>4. n \in T
  BY <1>3
<1> QED
  BY <1>4 DEF T

\* s has the numbers of S below n, each once and in order
Lists(s, S, n) ==
  /\ s \in Seq(0 .. n - 1)
  /\ \A i \in 1 .. Len(s) : s[i] \in S
  /\ \A i, j \in 1 .. Len(s) : i < j => s[i] < s[j]
  /\ \A p \in 0 .. n - 1 : p \in S => \E i \in 1 .. Len(s) : s[i] = p

(* The processes of a set, in order. *)
LEMMA InOrderLists ==
  ASSUME NumProcs \in Nat \ {0}, NEW S
  PROVE  /\ Lists(Env!InOrder(S), S, NumProcs)
         /\ 0 .. NumProcs - 1 \subseteq S => Env!InOrder(S) = [i \in 1 .. NumProcs |-> i - 1]
<1> DEFINE f == CHOOSE f : Collects(S, NumProcs, f)
<1>1. Collects(S, NumProcs, f)
  BY CollectsExist
<1>2. Env!InOrder(S) = f[NumProcs]
  BY DEF Env!InOrder, Collects
<1> HIDE DEF f
<1>3. \A p \in 0 .. NumProcs :
        f[p] = IF p = 0 THEN << >> ELSE IF p - 1 \in S THEN Append(f[p - 1], p - 1) ELSE f[p - 1]
  BY <1>1 DEF Collects
<1> DEFINE T == { m \in Nat : m <= NumProcs =>
                    /\ Lists(f[m], S, m)
                    /\ 0 .. NumProcs - 1 \subseteq S => f[m] = [i \in 1 .. m |-> i - 1] }
<1>4. 0 \in T
  <2>1. f[0] = << >>
    BY <1>3
  <2>2. Lists(<< >>, S, 0)
    BY DEF Lists
  <2>3. << >> = [i \in 1 .. 0 |-> i - 1]
    OBVIOUS
  <2> QED
    BY <2>1, <2>2, <2>3
<1>5. ASSUME NEW m \in Nat, m \in T PROVE m + 1 \in T
  <2> SUFFICES ASSUME m + 1 <= NumProcs
               PROVE  /\ Lists(f[m + 1], S, m + 1)
                      /\ 0 .. NumProcs - 1 \subseteq S => f[m + 1] = [i \in 1 .. m + 1 |-> i - 1]
    OBVIOUS
  <2>1. Lists(f[m], S, m) /\ (0 .. NumProcs - 1 \subseteq S => f[m] = [i \in 1 .. m |-> i - 1])
    BY <1>5
  <2>2. f[m + 1] = IF m \in S THEN Append(f[m], m) ELSE f[m]
    BY <1>3
  <2> DEFINE s == f[m]
             t == f[m + 1]
  <2> HIDE DEF s, t
  <2>3. /\ s \in Seq(0 .. m - 1) /\ Len(s) \in Nat
        /\ \A i \in 1 .. Len(s) : s[i] \in S /\ s[i] \in 0 .. m - 1
        /\ \A i, j \in 1 .. Len(s) : i < j => s[i] < s[j]
        /\ \A p \in 0 .. m - 1 : p \in S => \E i \in 1 .. Len(s) : s[i] = p
    <3>1. Lists(s, S, m)
      BY <2>1 DEF s
    <3>2. s \in Seq(0 .. m - 1)
      BY <3>1 DEF Lists
    <3>3. Len(s) \in Nat /\ \A i \in 1 .. Len(s) : s[i] \in 0 .. m - 1
      BY <3>2
    <3> QED
      BY <3>1, <3>2, <3>3 DEF Lists
  <2>4. CASE m \in S
    <3>1. t = Append(s, m)
      BY <2>2, <2>4 DEF s, t
    <3>2. s \in Seq(0 .. m) /\ m \in 0 .. m
      <4>1. 0 .. m - 1 \subseteq 0 .. m
        OBVIOUS
      <4> QED
        BY <2>3, <4>1
    <3>3. /\ t \in Seq(0 .. m) /\ Len(t) = Len(s) + 1 /\ t[Len(s) + 1] = m
          /\ \A i \in 1 .. Len(s) : t[i] = s[i]
      BY <3>1, <3>2
    <3>4. \A i \in 1 .. Len(t) : i \in 1 .. Len(s) \/ i = Len(s) + 1
      BY <2>3, <3>3
    <3>5. \A i \in 1 .. Len(t) : t[i] \in S
      BY <2>3, <2>4, <3>3, <3>4
    <3>6. ASSUME NEW i \in 1 .. Len(t), NEW j \in 1 .. Len(t), i < j PROVE t[i] < t[j]
      <4>1. i \in 1 .. Len(s)
        BY <2>3, <3>3, <3>6
      <4>2. CASE j \in 1 .. Len(s)
        BY <2>3, <3>3, <3>6, <4>1, <4>2
      <4>3. CASE j = Len(s) + 1
        <5>1. s[i] \in 0 .. m - 1 /\ t[i] = s[i] /\ t[j] = m
          BY <2>3, <3>3, <4>1, <4>3
        <5> QED
          BY <5>1
      <4> QED
        BY <3>4, <4>2, <4>3
    <3>7. ASSUME NEW p \in 0 .. m, p \in S PROVE \E i \in 1 .. Len(t) : t[i] = p
      <4>1. CASE p = m
        <5>1. Len(s) + 1 \in 1 .. Len(t)
          BY <2>3, <3>3
        <5> QED
          BY <3>3, <4>1, <5>1
      <4>2. CASE p # m
        <5>1. p \in 0 .. m - 1
          BY <4>2
        <5>2. PICK i \in 1 .. Len(s) : s[i] = p
          BY <2>3, <3>7, <5>1
        <5>3. i \in 1 .. Len(t)
          BY <2>3, <3>3
        <5> QED
          BY <3>3, <5>2, <5>3
      <4> QED
        BY <4>1, <4>2
    <3>8. Lists(t, S, m + 1)
      <4>1. (m + 1) - 1 = m
        OBVIOUS
      <4> QED
        BY <3>3, <3>5, <3>6, <3>7, <4>1 DEF Lists
    <3>9. ASSUME 0 .. NumProcs - 1 \subseteq S PROVE t = [i \in 1 .. m + 1 |-> i - 1]
      <4>1. s = [i \in 1 .. m |-> i - 1]
        BY <2>1, <3>9 DEF s
      <4>2. Len(s) = m
        BY <4>1
      <4>3. t = [i \in 1 .. m + 1 |-> t[i]]
        BY <3>3, <4>2
      <4>4. \A i \in 1 .. m + 1 : t[i] = i - 1
        BY <3>3, <3>4, <4>1, <4>2
      <4> QED
        BY <4>3, <4>4
    <3> QED
      BY <3>8, <3>9 DEF t
  <2>5. CASE m \notin S
    <3>1. t = s
      BY <2>2, <2>5 DEF s, t
    <3>2. s \in Seq(0 .. m)
      <4>1. 0 .. m - 1 \subseteq 0 .. m
        OBVIOUS
      <4> QED
        BY <2>3, <4>1
    <3>3. \A p \in 0 .. m : p \in S => p \in 0 .. m - 1
      BY <2>5
    <3>4. Lists(t, S, m + 1)
      <4>1. (m + 1) - 1 = m
        OBVIOUS
      <4> QED
        BY <2>3, <3>1, <3>2, <3>3, <4>1 DEF Lists
    <3>5. ~ (0 .. NumProcs - 1 \subseteq S)
      BY <2>5
    <3> QED
      BY <3>4, <3>5 DEF t
  <2> QED
    BY <2>4, <2>5
<1> HIDE DEF T
<1>6. \A m \in Nat : m \in T
  BY <1>4, <1>5, NatSetInduction, Zenon
<1>7. NumProcs \in T /\ NumProcs <= NumProcs
  BY <1>6
<1> QED
  BY <1>2, <1>7 DEF T


\* the processes that stay
Staying == Env!Nonempty \union (IF input.null THEN {} ELSE input.add)
\* ranks has all that stay, and those with quadrants in order
RanksOk(ranks) ==
  /\ ranks \in Seq(Env!Procs) /\ Len(ranks) \in Nat
  /\ \A i \in 1 .. Len(ranks) : ranks[i] \in Env!Procs /\ ranks[i] \in Staying
  /\ \A p \in Env!Procs : p \in Staying => \E i \in 1 .. Len(ranks) : ranks[i] = p
  /\ \A i, j \in 1 .. Len(ranks) :
       i < j /\ ranks[i] \in Env!Nonempty /\ ranks[j] \in Env!Nonempty => ranks[i] < ranks[j]

(* One list behind another, of which only one has processes with quadrants. *)
LEMMA BehindOk ==
  ASSUME Reducible, NEW S, NEW T, NEW s, NEW t, S \union T = Staying,
         Lists(s, S, NumProcs), Lists(t, T, NumProcs),
         S \intersect Env!Nonempty = {} \/ T \intersect Env!Nonempty = {}
  PROVE  RanksOk(s \o t)
<1> DEFINE u == s \o t
<1>1. /\ s \in Seq(Env!Procs) /\ Len(s) \in Nat /\ t \in Seq(Env!Procs) /\ Len(t) \in Nat
      /\ NumProcs \in Nat \ {0} /\ Env!Procs = 0 .. NumProcs - 1
  BY DEF Lists, Env!Procs, Reducible
<1>2. /\ u \in Seq(Env!Procs) /\ Len(u) = Len(s) + Len(t)
      /\ \A i \in 1 .. Len(s) : u[i] = s[i]
      /\ \A i \in 1 .. Len(t) : u[Len(s) + i] = t[i]
  BY <1>1
<1> HIDE DEF u
<1>3. \A i \in 1 .. Len(u) : i \in 1 .. Len(s) \/ (i - Len(s) \in 1 .. Len(t) /\ i = Len(s) + (i - Len(s)))
  BY <1>1, <1>2
<1>4. \A i \in 1 .. Len(s) : s[i] \in S
  BY DEF Lists
<1>5. \A i \in 1 .. Len(t) : t[i] \in T
  BY DEF Lists
<1>6. \A i \in 1 .. Len(u) : u[i] \in Env!Procs
  BY <1>2
<1>7. ASSUME NEW i \in 1 .. Len(u) PROVE u[i] \in Staying
  <2>1. CASE i \in 1 .. Len(s)
    BY <1>2, <1>4, <2>1
  <2>2. CASE i - Len(s) \in 1 .. Len(t) /\ i = Len(s) + (i - Len(s))
    <3>1. u[i] = t[i - Len(s)]
      BY <1>2, <2>2
    <3> QED
      BY <1>5, <2>2, <3>1
  <2> QED
    BY <1>3, <2>1, <2>2
<1>8. ASSUME NEW p \in Env!Procs, p \in Staying PROVE \E i \in 1 .. Len(u) : u[i] = p
  <2>1. CASE p \in S
    <3>1. PICK i \in 1 .. Len(s) : s[i] = p
      BY <1>1, <2>1 DEF Lists
    <3>2. i \in 1 .. Len(u)
      BY <1>1, <1>2
    <3> QED
      BY <1>2, <3>1, <3>2
  <2>2. CASE p \in T
    <3>1. PICK i \in 1 .. Len(t) : t[i] = p
      BY <1>1, <2>2 DEF Lists
    <3>2. Len(s) + i \in 1 .. Len(u)
      BY <1>1, <1>2
    <3> QED
      BY <1>2, <3>1, <3>2
  <2> QED
    BY <1>8, <2>1, <2>2
<1>9. ASSUME NEW i \in 1 .. Len(u), NEW j \in 1 .. Len(u), i < j,
             u[i] \in Env!Nonempty, u[j] \in Env!Nonempty
      PROVE  u[i] < u[j]
  <2>1. CASE j \in 1 .. Len(s)
    <3>1. i \in 1 .. Len(s)
      BY <1>1, <1>9, <2>1
    <3>2. s[i] < s[j]
      BY <1>9, <2>1, <3>1 DEF Lists
    <3> QED
      BY <1>2, <2>1, <3>1, <3>2
  <2>2. CASE j - Len(s) \in 1 .. Len(t) /\ j = Len(s) + (j - Len(s))
    <3>1. u[j] = t[j - Len(s)] /\ u[j] \in T
      BY <1>2, <1>5, <2>2
    <3>2. S \intersect Env!Nonempty = {}
      BY <1>9, <3>1
    <3>3. i \notin 1 .. Len(s)
      BY <1>2, <1>4, <1>9, <3>2
    <3>4. i - Len(s) \in 1 .. Len(t) /\ u[i] = t[i - Len(s)]
      BY <1>2, <1>3, <3>3
    <3>5. i - Len(s) < j - Len(s)
      BY <1>1, <1>9
    <3>6. t[i - Len(s)] < t[j - Len(s)]
      BY <2>2, <3>4, <3>5 DEF Lists
    <3> QED
      BY <3>1, <3>4, <3>6
  <2> QED
    BY <1>3, <2>1, <2>2
<1>10. Len(u) \in Nat
  BY <1>1, <1>2
<1>11. RanksOk(u)
  BY <1>2, <1>6, <1>7, <1>8, <1>9, <1>10 DEF RanksOk
<1> QED
  BY <1>11 DEF u

(* The new communicator has all that stay. *)
LEMMA SubGroupOk ==
  ASSUME Reducible
  PROVE  RanksOk(Env!SubGroup)
<1>1. NumProcs \in Nat \ {0}
  BY DEF Reducible
<1>2. /\ Lists(Env!InOrder(Env!Nonempty), Env!Nonempty, NumProcs)
      /\ Lists(Env!InOrder(input.add), input.add, NumProcs)
      /\ Lists(Env!InOrder(Env!Nonempty \ input.add), Env!Nonempty \ input.add, NumProcs)
      /\ Lists(Env!InOrder(input.add \ Env!Nonempty), input.add \ Env!Nonempty, NumProcs)
  BY <1>1, InOrderLists
<1>3. CASE input.null
  <2>1. Env!SubGroup = Env!InOrder(Env!Nonempty)
    BY <1>3 DEF Env!SubGroup
  <2>2. Lists(<< >>, {}, NumProcs)
    BY DEF Lists
  <2>3. Env!Nonempty \union {} = Staying
    BY <1>3 DEF Staying
  <2>4. RanksOk(Env!InOrder(Env!Nonempty) \o << >>)
    BY <1>2, <2>2, <2>3, BehindOk
  <2>5. Env!InOrder(Env!Nonempty) \in Seq(0 .. NumProcs - 1)
    BY <1>2 DEF Lists
  <2>6. Env!InOrder(Env!Nonempty) \o << >> = Env!InOrder(Env!Nonempty)
    BY <2>5
  <2> QED
    BY <2>1, <2>4, <2>6
<1>4. CASE ~ input.null /\ input.add_to_beginning
  <2>1. input.add \intersect Env!Nonempty = {}
    <3>1. ASSUME NEW p \in input.add PROVE p \notin Env!Nonempty
      <4>1. p \in 0 .. NumProcs - 1 /\ p \in 0 .. NumProcs /\ input.gfq[p] = input.gfq[p + 1] /\ input.gfq[p] \in Nat
        BY <1>4 DEF Reducible
      <4> QED
        BY <4>1 DEF Env!Nonempty
    <3> QED
      BY <3>1
  <2>2. input.add \union (Env!Nonempty \ input.add) = Staying
    BY <1>4 DEF Staying
  <2>3. Env!SubGroup = Env!InOrder(input.add) \o Env!InOrder(Env!Nonempty \ input.add)
    BY <1>4 DEF Env!SubGroup
  <2>4. RanksOk(Env!InOrder(input.add) \o Env!InOrder(Env!Nonempty \ input.add))
    BY <1>2, <2>1, <2>2, BehindOk
  <2> QED
    BY <2>3, <2>4
<1>5. CASE ~ input.null /\ ~ input.add_to_beginning
  <2>1. (input.add \ Env!Nonempty) \intersect Env!Nonempty = {}
    OBVIOUS
  <2>2. Env!Nonempty \union (input.add \ Env!Nonempty) = Staying
    BY <1>5 DEF Staying
  <2>3. Env!SubGroup = Env!InOrder(Env!Nonempty) \o Env!InOrder(input.add \ Env!Nonempty)
    BY <1>5 DEF Env!SubGroup
  <2>4. RanksOk(Env!InOrder(Env!Nonempty) \o Env!InOrder(input.add \ Env!Nonempty))
    BY <1>2, <2>1, <2>2, BehindOk
  <2> QED
    BY <2>3, <2>4
<1> QED
  BY <1>3, <1>4, <1>5

\* f adds the quadrants of the ranks up
AddsUp(f, ranks, n) ==
  f = [s \in 0 .. n |-> IF s = 0 THEN 0 ELSE f[s - 1] + Env!n_quadrants(ranks[s])]

(* The members are processes. *)
LEMMA MembersAre ==
  ASSUME Reducible, NEW ranks, RanksOk(ranks), NEW j \in 1 .. Len(ranks)
  PROVE  /\ NumProcs \in Nat /\ ranks[j] \in Env!Procs
         /\ ranks[j] \in 0 .. NumProcs - 1 /\ ranks[j] \in 0 .. NumProcs /\ ranks[j] + 1 \in 0 .. NumProcs
<1>1. ranks[j] \in Env!Procs
  BY DEF RanksOk
<1>2. NumProcs \in Nat /\ ranks[j] \in 0 .. NumProcs - 1
  BY <1>1 DEF Env!Procs, Reducible
<1> QED
  BY <1>1, <1>2

(* There is such a function. *)
LEMMA AddsUpExists ==
  ASSUME NEW ranks, NEW n \in Nat
  PROVE  \E f : AddsUp(f, ranks, n)
<1> DEFINE N(p) == Env!n_quadrants(p)
<1> HIDE DEF N
<1> DEFINE T == { m \in Nat : \E f : f = [s \in 0 .. m |-> IF s = 0 THEN 0 ELSE f[s - 1] + N(ranks[s])] }
<1>1. 0 \in T
  <2> DEFINE f == [s \in 0 .. 0 |-> 0]
  <2>1. f = [s \in 0 .. 0 |-> IF s = 0 THEN 0 ELSE f[s - 1] + N(ranks[s])]
    <3>1. \A s \in 0 .. 0 : s = 0
      OBVIOUS
    <3> QED
      BY <3>1
  <2> QED
    BY <2>1
<1>2. ASSUME NEW m \in Nat, m \in T PROVE m + 1 \in T
  <2>1. PICK f : f = [s \in 0 .. m |-> IF s = 0 THEN 0 ELSE f[s - 1] + N(ranks[s])]
    BY <1>2
  <2> DEFINE h == [s \in 0 .. m + 1 |-> IF s = m + 1 THEN f[m] + N(ranks[m + 1]) ELSE f[s]]
  <2>2. \A s \in 0 .. m : f[s] = IF s = 0 THEN 0 ELSE f[s - 1] + N(ranks[s])
    BY <2>1
  <2>3. h[m + 1] = f[m] + N(ranks[m + 1]) /\ \A s \in 0 .. m : h[s] = f[s]
    OBVIOUS
  <2>4. ASSUME NEW s \in 0 .. m + 1
        PROVE  h[s] = IF s = 0 THEN 0 ELSE h[s - 1] + N(ranks[s])
    <3> HIDE DEF h
    <3>1. CASE s = m + 1
      <4>1. s - 1 = m /\ m \in 0 .. m /\ s # 0
        BY <3>1
      <4> QED
        BY <2>3, <3>1, <4>1
    <3>2. CASE s # m + 1
      <4>1. s \in 0 .. m /\ (s # 0 => s - 1 \in 0 .. m)
        BY <3>2
      <4> QED
        BY <2>2, <2>3, <4>1
    <3> QED
      BY <3>1, <3>2
  <2>5. h = [s \in 0 .. m + 1 |-> IF s = 0 THEN 0 ELSE h[s - 1] + N(ranks[s])]
    BY <2>4
  <2> HIDE DEF h
  <2> QED
    BY <2>5
<1> HIDE DEF T
<1>3. \A m \in Nat : m \in T
  BY <1>1, <1>2, NatSetInduction, Zenon
<1>4. n \in T
  BY <1>3
<1> QED
  BY <1>4 DEF T, N, AddsUp

\* j has the first quadrants behind place s
NextAt(ranks, s, j) ==
  /\ j \in s + 1 .. Len(ranks) /\ ranks[j] \in Env!Nonempty
  /\ \A i \in s + 1 .. j - 1 : ranks[i] \notin Env!Nonempty
NoneFrom(ranks, s) == \A i \in s + 1 .. Len(ranks) : ranks[i] \notin Env!Nonempty
\* v is where the quadrants behind place s begin
BeginsAt(ranks, s, v) ==
  /\ \A j \in 1 .. Len(ranks) : NextAt(ranks, s, j) => v = input.gfq[ranks[j]]
  /\ NoneFrom(ranks, s) => v = AllQuadrants

(* The communicator begins where the forest does. *)
LEMMA BeginsFirst ==
  ASSUME Reducible, NEW ranks, RanksOk(ranks)
  PROVE  BeginsAt(ranks, 0, 0)
<1>1. ASSUME NEW j \in 1 .. Len(ranks), NextAt(ranks, 0, j) PROVE 0 = input.gfq[ranks[j]]
  <2>1. ranks[j] \in Env!Procs /\ ranks[j] \in 0 .. NumProcs - 1 /\ ranks[j] \in 0 .. NumProcs /\ ranks[j] \in Env!Nonempty
    <3>1. ranks[j] \in Env!Nonempty
      BY <1>1 DEF NextAt
    <3> QED
      BY <3>1, MembersAre
  <2>2. ASSUME NEW r \in 0 .. ranks[j] - 1, r \in Env!Nonempty PROVE FALSE
    <3>1. r \in Env!Procs
      BY <2>2 DEF Env!Nonempty
    <3>2. PICK i \in 1 .. Len(ranks) : ranks[i] = r
      BY <2>2, <3>1 DEF RanksOk, Staying
    <3>3. ~ (i < j)
      BY <1>1, <2>2, <3>2 DEF NextAt, RanksOk
    <3>4. i # j
      BY <2>1, <3>2
    <3>5. j < i
      BY <3>3, <3>4 DEF RanksOk
    <3>6. ranks[j] < r
      BY <2>1, <2>2, <3>2, <3>5 DEF RanksOk
    <3> QED
      BY <2>1, <3>6
  <2>3. NoneBetween(0, ranks[j])
    BY <2>2 DEF NoneBetween
  <2>4. 0 \in 0 .. NumProcs /\ 0 <= ranks[j]
    BY <2>1 DEF Reducible
  <2>5. input.gfq[0] = input.gfq[ranks[j]]
    BY <2>1, <2>3, <2>4, EmptyBetween
  <2> QED
    BY <2>5 DEF Reducible
<1>2. ASSUME NoneFrom(ranks, 0) PROVE 0 = AllQuadrants
  <2>1. ASSUME NEW r \in 0 .. NumProcs - 1, r \in Env!Nonempty PROVE FALSE
    <3>1. PICK i \in 1 .. Len(ranks) : ranks[i] = r
      BY <2>1 DEF RanksOk, Staying, Env!Procs
    <3> QED
      BY <1>2, <2>1, <3>1 DEF NoneFrom, RanksOk
  <2>2. NoneBetween(0, NumProcs)
    BY <2>1 DEF NoneBetween
  <2>3. 0 \in 0 .. NumProcs /\ NumProcs \in 0 .. NumProcs /\ 0 <= NumProcs
    BY DEF Reducible
  <2>4. input.gfq[0] = input.gfq[NumProcs]
    BY <2>2, <2>3, EmptyBetween
  <2> QED
    BY <2>4 DEF Reducible, AllQuadrants
<1> QED
  BY <1>1, <1>2 DEF BeginsAt

(* A place without quadrants begins where the next one does. *)
LEMMA BeginsSame ==
  ASSUME Reducible, NEW ranks, RanksOk(ranks), NEW s \in 0 .. Len(ranks) - 1, NEW v,
         BeginsAt(ranks, s, v), ranks[s + 1] \notin Env!Nonempty
  PROVE  BeginsAt(ranks, s + 1, v)
<1>1. Len(ranks) \in Nat
  BY DEF RanksOk
<1>2. ASSUME NEW j \in 1 .. Len(ranks), NextAt(ranks, s + 1, j) PROVE v = input.gfq[ranks[j]]
  <2>1. j \in s + 2 .. Len(ranks) /\ ranks[j] \in Env!Nonempty
    BY <1>1, <1>2 DEF NextAt
  <2>2. \A i \in s + 1 .. j - 1 : i = s + 1 \/ i \in (s + 1) + 1 .. j - 1
    BY <1>1
  <2>3. \A i \in s + 1 .. j - 1 : ranks[i] \notin Env!Nonempty
    BY <1>2, <2>2 DEF NextAt
  <2>4. j \in s + 1 .. Len(ranks)
    BY <1>1, <2>1
  <2>5. NextAt(ranks, s, j)
    BY <2>1, <2>3, <2>4 DEF NextAt
  <2> QED
    BY <2>5 DEF BeginsAt
<1>3. ASSUME NoneFrom(ranks, s + 1) PROVE v = AllQuadrants
  <2>1. \A i \in s + 1 .. Len(ranks) : i = s + 1 \/ i \in (s + 1) + 1 .. Len(ranks)
    BY <1>1
  <2>2. NoneFrom(ranks, s)
    BY <1>3, <2>1 DEF NoneFrom
  <2> QED
    BY <2>2 DEF BeginsAt
<1> QED
  BY <1>2, <1>3 DEF BeginsAt

(* Behind a place with quadrants the next ones begin where its own end. *)
LEMMA BeginsBehind ==
  ASSUME Reducible, NEW ranks, RanksOk(ranks), NEW s \in 0 .. Len(ranks) - 1,
         ranks[s + 1] \in Env!Nonempty
  PROVE  BeginsAt(ranks, s + 1, input.gfq[ranks[s + 1] + 1])
<1> DEFINE q == ranks[s + 1]
<1>1. Len(ranks) \in Nat /\ s + 1 \in 1 .. Len(ranks)
  BY DEF RanksOk
<1>2. q \in Env!Procs /\ q \in 0 .. NumProcs - 1 /\ q + 1 \in 0 .. NumProcs /\ q \in Env!Nonempty
      /\ NumProcs \in Nat
  BY <1>1, MembersAre
\* where a process behind q with quadrants is
<1>3. ASSUME NEW r \in Env!Procs, r \in Env!Nonempty, q < r
      PROVE  \E i \in (s + 1) + 1 .. Len(ranks) : ranks[i] = r
  <2>1. PICK i \in 1 .. Len(ranks) : ranks[i] = r
    BY <1>3 DEF RanksOk, Staying
  <2>2. ~ (i < s + 1)
    <3> SUFFICES ASSUME i < s + 1 PROVE FALSE
      OBVIOUS
    <3>1. r < q
      BY <1>1, <1>2, <1>3, <2>1 DEF RanksOk
    <3>2. r \in Int /\ q \in Int
      BY <1>2, <1>3 DEF Env!Procs
    <3> QED
      BY <1>3, <3>1, <3>2
  <2>3. i # s + 1
    BY <1>2, <1>3, <2>1
  <2> QED
    BY <1>1, <2>1, <2>2, <2>3
<1> HIDE DEF q
<1>4. ASSUME NEW j \in 1 .. Len(ranks), NextAt(ranks, s + 1, j) PROVE input.gfq[q + 1] = input.gfq[ranks[j]]
  <2>1. /\ j \in (s + 1) + 1 .. Len(ranks) /\ s + 1 < j /\ ranks[j] \in Env!Nonempty
        /\ ranks[j] \in Env!Procs /\ ranks[j] \in 0 .. NumProcs - 1 /\ ranks[j] \in 0 .. NumProcs
    BY <1>1, <1>2, <1>4 DEF NextAt, RanksOk, Env!Procs
  <2>2. q < ranks[j]
    BY <1>1, <1>2, <2>1 DEF RanksOk, q
  <2>3. ASSUME NEW r \in q + 1 .. ranks[j] - 1, r \in Env!Nonempty PROVE FALSE
    <3>1. r \in Env!Procs /\ q < r /\ r < ranks[j] /\ r \in Int
      BY <1>2, <2>1, <2>3 DEF Env!Procs
    <3>2. PICK i \in (s + 1) + 1 .. Len(ranks) : ranks[i] = r
      BY <1>3, <2>3, <3>1
    <3>3. i \notin (s + 1) + 1 .. j - 1
      BY <1>4, <2>3, <3>2 DEF NextAt
    <3>4. i # j
      BY <3>1, <3>2, <2>1
    <3>5. i \in 1 .. Len(ranks) /\ j < i
      BY <1>1, <2>1, <3>2, <3>3, <3>4
    <3>6. ranks[j] < r
      BY <2>1, <2>3, <3>2, <3>5 DEF RanksOk
    <3> QED
      BY <2>1, <3>1, <3>6
  <2>4. NoneBetween(q + 1, ranks[j])
    BY <2>3 DEF NoneBetween
  <2>5. q + 1 <= ranks[j]
    BY <1>2, <2>1, <2>2
  <2> QED
    BY <1>2, <2>1, <2>4, <2>5, EmptyBetween
<1>5. ASSUME NoneFrom(ranks, s + 1) PROVE input.gfq[q + 1] = AllQuadrants
  <2>1. ASSUME NEW r \in q + 1 .. NumProcs - 1, r \in Env!Nonempty PROVE FALSE
    <3>1. r \in Env!Procs /\ q < r
      BY <1>2, <2>1 DEF Env!Procs
    <3>2. PICK i \in (s + 1) + 1 .. Len(ranks) : ranks[i] = r
      BY <1>3, <2>1, <3>1
    <3> QED
      BY <1>5, <2>1, <3>2 DEF NoneFrom
  <2>2. NoneBetween(q + 1, NumProcs)
    BY <2>1 DEF NoneBetween
  <2>3. NumProcs \in 0 .. NumProcs /\ q + 1 <= NumProcs
    BY <1>2
  <2> QED
    BY <1>2, <2>2, <2>3, EmptyBetween DEF AllQuadrants
<1> QED
  BY <1>4, <1>5 DEF BeginsAt, q

(* The first quadrants of the new communicator. *)
LEMMA FirstsBegin ==
  ASSUME Reducible, NEW ranks, RanksOk(ranks)
  PROVE  /\ \A s \in 0 .. Len(ranks) : /\ Env!SubFirstQuadrant(ranks)[s] \in Nat
                                       /\ BeginsAt(ranks, s, Env!SubFirstQuadrant(ranks)[s])
         /\ \A s \in 1 .. Len(ranks) :
              Env!SubFirstQuadrant(ranks)[s] = Env!SubFirstQuadrant(ranks)[s - 1] + Env!n_quadrants(ranks[s])
<1>1. Len(ranks) \in Nat
  BY DEF RanksOk
<1> DEFINE f == CHOOSE f : AddsUp(f, ranks, Len(ranks))
<1>2. AddsUp(f, ranks, Len(ranks))
  BY <1>1, AddsUpExists
<1>3. Env!SubFirstQuadrant(ranks) = f
  BY DEF Env!SubFirstQuadrant, AddsUp
<1> HIDE DEF f
<1>4. \A s \in 0 .. Len(ranks) : f[s] = IF s = 0 THEN 0 ELSE f[s - 1] + Env!n_quadrants(ranks[s])
  BY <1>2 DEF AddsUp
<1> DEFINE T == { m \in Nat : m <= Len(ranks) => f[m] \in Nat /\ BeginsAt(ranks, m, f[m]) }
<1>5. 0 \in T
  <2>1. f[0] = 0
    BY <1>1, <1>4
  <2> QED
    BY <2>1, BeginsFirst
<1>6. ASSUME NEW m \in Nat, m \in T PROVE m + 1 \in T
  <2> SUFFICES ASSUME m + 1 <= Len(ranks) PROVE f[m + 1] \in Nat /\ BeginsAt(ranks, m + 1, f[m + 1])
    OBVIOUS
  <2>1. m \in 0 .. Len(ranks) - 1 /\ m + 1 \in 0 .. Len(ranks) /\ m + 1 \in 1 .. Len(ranks) /\ (m + 1) - 1 = m /\ m + 1 # 0
    BY <1>1
  <2>2. f[m] \in Nat /\ BeginsAt(ranks, m, f[m])
    BY <1>1, <1>6
  <2>3. f[m + 1] = f[m] + Env!n_quadrants(ranks[m + 1])
    BY <1>4, <2>1
  <2> DEFINE q == ranks[m + 1]
  <2>4. /\ q \in Env!Procs /\ q \in 0 .. NumProcs - 1 /\ q \in 0 .. NumProcs /\ q + 1 \in 0 .. NumProcs /\ q <= q + 1
        /\ input.gfq[q] \in Nat /\ input.gfq[q + 1] \in Nat /\ input.gfq[q] <= input.gfq[q + 1]
    <3>1. q \in Env!Procs
      BY <2>1 DEF RanksOk
    <3>2. NumProcs \in Nat /\ q \in 0 .. NumProcs - 1
      BY <3>1 DEF Env!Procs, Reducible
    <3>3. q \in 0 .. NumProcs /\ q + 1 \in 0 .. NumProcs /\ q <= q + 1
      BY <3>2
    <3> HIDE DEF q
    <3> QED
      BY <3>1, <3>2, <3>3 DEF Reducible
  <2>5. Env!n_quadrants(q) = input.gfq[q + 1] - input.gfq[q]
    BY DEF Env!n_quadrants
  <2>6. CASE q \in Env!Nonempty
    <3>1. NextAt(ranks, m, m + 1)
      BY <1>1, <2>1, <2>6 DEF NextAt
    <3>2. f[m] = input.gfq[q]
      BY <2>1, <2>2, <3>1 DEF BeginsAt
    <3>3. f[m + 1] = input.gfq[q + 1]
      BY <2>3, <2>4, <2>5, <3>2
    <3> QED
      BY <2>1, <2>4, <2>6, <3>3, BeginsBehind
  <2>7. CASE q \notin Env!Nonempty
    <3>1. input.gfq[q] = input.gfq[q + 1]
      BY <2>4, <2>7 DEF Env!Nonempty
    <3>3. f[m + 1] = f[m]
      BY <2>2, <2>3, <2>4, <2>5, <3>1
    <3> QED
      BY <2>1, <2>2, <2>7, <3>3, BeginsSame
  <2> QED
    BY <2>6, <2>7
<1> HIDE DEF T
<1>7. \A m \in Nat : m \in T
  BY <1>5, <1>6, NatSetInduction, Zenon
<1>8. \A s \in 0 .. Len(ranks) : s \in Nat /\ s <= Len(ranks)
  BY <1>1
<1>9. \A s \in 0 .. Len(ranks) : f[s] \in Nat /\ BeginsAt(ranks, s, f[s])
  BY <1>7, <1>8 DEF T
<1>10. \A s \in 1 .. Len(ranks) : s \in 0 .. Len(ranks) /\ s # 0
  BY <1>1
<1>11. \A s \in 1 .. Len(ranks) : f[s] = f[s - 1] + Env!n_quadrants(ranks[s])
  BY <1>4, <1>10
<1> QED
  BY <1>3, <1>9, <1>11

(* What the least element of a set of numbers is. *)
LEMMA LeastIs ==
  ASSUME NEW S \in SUBSET Int, NEW x \in S, \A y \in S : x <= y
  PROVE  Env!Min(S) = x
<1>1. \A z \in S : (\A y \in S : z <= y) => z = x
  <2> SUFFICES ASSUME NEW z \in S, \A y \in S : z <= y PROVE z = x
    OBVIOUS
  <2>1. z <= x /\ x <= z /\ z \in Int /\ x \in Int
    OBVIOUS
  <2> QED
    BY <2>1
<1> QED
  BY <1>1 DEF Env!Min

(* A process with quadrants begins at its own, another where the next does. *)
LEMMA GlobalPartitionIs ==
  ASSUME NEW size \in Nat, NEW first, NEW has, NEW p \in 0 .. size - 1
  PROVE  /\ has[p] => Env!GlobalPartition(size, first, has)[p] = first[p]
         /\ ~ has[p] => Env!GlobalPartition(size, first, has)[p] = Env!GlobalPartition(size, first, has)[p + 1]
<1> DEFINE G == Env!GlobalPartition(size, first, has)
           From(r) == { x \in r .. size - 1 : has[x] } \union {size}
           Begin(next) == IF next = size THEN AllQuadrants ELSE first[next]
<1>1. p \in 0 .. size /\ p + 1 \in 0 .. size /\ p # size /\ size \in Int
  OBVIOUS
<1>2. \A r \in 0 .. size : G[r] = IF r = size THEN AllQuadrants ELSE Begin(Env!Min(From(r)))
  BY DEF Env!GlobalPartition, Env!global_num_quadrants, AllQuadrants
<1>3. \A r \in 0 .. size : From(r) \subseteq Int
  BY <1>1
<1>4. Env!Min(From(size)) = size
  <2>1. From(size) = {size}
    OBVIOUS
  <2> QED
    BY <2>1, <1>1, LeastIs
<1> HIDE DEF G, From
<1>5. G[size] = AllQuadrants /\ Begin(size) = AllQuadrants
  <2>1. size \in 0 .. size
    OBVIOUS
  <2> HIDE DEF Begin
  <2>2. G[size] = AllQuadrants
    BY <1>2, <2>1
  <2> QED
    BY <2>2 DEF Begin
<1> USE DEF From
<1>6. \A r \in 0 .. size : G[r] = Begin(Env!Min(From(r)))
  BY <1>2, <1>4, <1>5
<1>7. ASSUME has[p] PROVE G[p] = first[p]
  <2>1. p \in From(p)
    BY <1>7
  <2>2. \A y \in From(p) : p <= y
    OBVIOUS
  <2>3. Env!Min(From(p)) = p
    <3> HIDE DEF From
    <3> QED
      BY <1>1, <1>3, <2>1, <2>2, LeastIs
  <2> QED
    BY <1>1, <1>6, <2>3
<1>8. ASSUME ~ has[p] PROVE G[p] = G[p + 1]
  <2>1. \A x \in p .. size - 1 : x = p \/ x \in p + 1 .. size - 1
    OBVIOUS
  <2>2. \A x \in p + 1 .. size - 1 : x \in p .. size - 1
    OBVIOUS
  <2>3. From(p) = From(p + 1)
    BY <1>8, <2>1, <2>2
  <2> HIDE DEF From, Begin
  <2> QED
    BY <1>1, <1>6, <2>3
<1> QED
  BY <1>7, <1>8 DEF G

\* every member begins at its quadrants, or where the next one does
PlacesOk(ranks, pos) ==
  \A s \in 1 .. Len(ranks) :
    IF ranks[s] \in Env!Nonempty THEN pos[s - 1] = input.gfq[ranks[s]] ELSE pos[s - 1] = pos[s]
FirstsOk(ranks, gfq) ==
  \A s \in 1 .. Len(ranks) :
    IF ranks[s] \in Env!Nonempty
    THEN gfq[s - 1] = input.gfq[ranks[s]] /\ gfq[s] = input.gfq[ranks[s] + 1]
    ELSE gfq[s - 1] = gfq[s]
\* the partition among the members
Describes(ranks, F) ==
  /\ F.exists /\ PlacesOk(ranks, F.position) /\ FirstsOk(ranks, F.gfq)
  /\ F.gfq[Len(ranks)] = AllQuadrants

(* Who has quadrants has more than none. *)
LEMMA HasQuadrants ==
  ASSUME Reducible, NEW p \in Env!Procs
  PROVE  /\ p \in Env!Nonempty <=> Env!n_quadrants(p) > 0
         /\ p \notin Env!Nonempty => input.gfq[p] = input.gfq[p + 1]
<1>1. p \in 0 .. NumProcs - 1 /\ p \in 0 .. NumProcs /\ p + 1 \in 0 .. NumProcs /\ p <= p + 1
  BY DEF Env!Procs, Reducible
<1>2. input.gfq[p] \in Nat /\ input.gfq[p + 1] \in Nat /\ input.gfq[p] <= input.gfq[p + 1]
  BY <1>1 DEF Reducible
<1>3. p \in Env!Nonempty <=> input.gfq[p] < input.gfq[p + 1]
  BY DEF Env!Nonempty
<1> QED
  BY <1>2, <1>3 DEF Env!n_quadrants

(* The places of the members, computed from their first quadrants. *)
LEMMA PlacesComputed ==
  ASSUME Reducible, NEW ranks, Len(ranks) \in Nat, \A s \in 1 .. Len(ranks) : ranks[s] \in Env!Procs,
         NEW first, NEW has,
         \A s \in 0 .. Len(ranks) - 1 :
           first[s] = input.gfq[ranks[s + 1]] /\ (has[s] <=> Env!n_quadrants(ranks[s + 1]) > 0)
  PROVE  PlacesOk(ranks, Env!GlobalPartition(Len(ranks), first, has))
<1> DEFINE G == Env!GlobalPartition(Len(ranks), first, has)
<1> HIDE DEF G
<1>1. ASSUME NEW s \in 1 .. Len(ranks)
      PROVE  IF ranks[s] \in Env!Nonempty THEN G[s - 1] = input.gfq[ranks[s]] ELSE G[s - 1] = G[s]
  <2>1. s - 1 \in 0 .. Len(ranks) - 1 /\ (s - 1) + 1 = s
    OBVIOUS
  <2>2. first[s - 1] = input.gfq[ranks[s]] /\ (has[s - 1] <=> Env!n_quadrants(ranks[s]) > 0)
    BY <2>1
  <2>3. /\ has[s - 1] => G[s - 1] = first[s - 1]
        /\ ~ has[s - 1] => G[s - 1] = G[s]
    <3>1. \A r \in 0 .. Len(ranks) - 1 : (has[r] => G[r] = first[r]) /\ (~ has[r] => G[r] = G[r + 1])
      BY GlobalPartitionIs DEF G
    <3> QED
      BY <2>1, <3>1
  <2>4. ranks[s] \in Env!Nonempty <=> Env!n_quadrants(ranks[s]) > 0
    BY HasQuadrants
  <2> QED
    BY <2>2, <2>3, <2>4
<1> QED
  BY <1>1 DEF PlacesOk, G

\* the quadrants and the places in a communicator of the members ranks
AllRanks == [i \in 1 .. NumProcs |-> i - 1]

(* In the beginning all processes are members. *)
LEMMA AllDescribed ==
  ASSUME Reducible
  PROVE  /\ AllRanks \in Seq(Env!Procs) /\ Len(AllRanks) = NumProcs /\ NumProcs \in Nat \ {0}
         /\ \A p \in Env!Procs : \E i \in 1 .. Len(AllRanks) : AllRanks[i] = p
         /\ \A s \in 1 .. Len(AllRanks) : AllRanks[s] = s - 1 /\ AllRanks[s] \in Env!Procs
         /\ FirstsOk(AllRanks, input.gfq)
         /\ PlacesOk(AllRanks, Env!GlobalPartition(NumProcs, [r \in Env!Procs |-> input.gfq[r]],
                                                             [r \in Env!Procs |-> Env!n_quadrants(r) > 0]))
<1> DEFINE first == [r \in Env!Procs |-> input.gfq[r]]
           has == [r \in Env!Procs |-> Env!n_quadrants(r) > 0]
<1>1. NumProcs \in Nat \ {0} /\ Env!Procs = 0 .. NumProcs - 1
  BY DEF Reducible, Env!Procs
<1>2. /\ AllRanks \in Seq(Env!Procs) /\ Len(AllRanks) = NumProcs
      /\ \A s \in 1 .. NumProcs : AllRanks[s] = s - 1 /\ s - 1 \in Env!Procs
  <2>1. \A s \in 1 .. NumProcs : s - 1 \in Env!Procs
    BY <1>1
  <2>2. AllRanks \in [1 .. NumProcs -> Env!Procs]
    BY <2>1 DEF AllRanks
  <2>3. AllRanks \in Seq(Env!Procs)
    BY <1>1, <2>2
  <2>4. Len(AllRanks) = NumProcs
    BY <1>1, <2>2, <2>3
  <2>5. \A s \in 1 .. NumProcs : AllRanks[s] = s - 1
    BY DEF AllRanks
  <2> QED
    BY <2>1, <2>3, <2>4, <2>5
<1>3. ASSUME NEW p \in Env!Procs PROVE \E i \in 1 .. Len(AllRanks) : AllRanks[i] = p
  <2>1. p + 1 \in 1 .. NumProcs /\ (p + 1) - 1 = p
    BY <1>1
  <2> QED
    BY <1>2, <2>1
<1>4. FirstsOk(AllRanks, input.gfq)
  <2> SUFFICES ASSUME NEW s \in 1 .. Len(AllRanks)
               PROVE  IF AllRanks[s] \in Env!Nonempty
                      THEN input.gfq[s - 1] = input.gfq[AllRanks[s]] /\ input.gfq[s] = input.gfq[AllRanks[s] + 1]
                      ELSE input.gfq[s - 1] = input.gfq[s]
    BY DEF FirstsOk
  <2>1. AllRanks[s] = s - 1 /\ s - 1 \in Env!Procs /\ (s - 1) + 1 = s
    BY <1>1, <1>2
  <2>2. s - 1 \notin Env!Nonempty => input.gfq[s - 1] = input.gfq[(s - 1) + 1]
    BY <2>1, HasQuadrants
  <2> QED
    BY <2>1, <2>2
<1>5. \A s \in 0 .. Len(AllRanks) - 1 :
        first[s] = input.gfq[AllRanks[s + 1]] /\ (has[s] <=> Env!n_quadrants(AllRanks[s + 1]) > 0)
  <2> SUFFICES ASSUME NEW s \in 0 .. Len(AllRanks) - 1
               PROVE  first[s] = input.gfq[AllRanks[s + 1]] /\ (has[s] <=> Env!n_quadrants(AllRanks[s + 1]) > 0)
    OBVIOUS
  <2>1. s \in Env!Procs /\ s + 1 \in 1 .. NumProcs /\ (s + 1) - 1 = s
    BY <1>1, <1>2
  <2>2. AllRanks[s + 1] = s
    BY <1>2, <2>1
  <2> QED
    BY <2>1, <2>2
<1> HIDE DEF first, has
<1>6. Len(AllRanks) \in Nat /\ \A s \in 1 .. Len(AllRanks) : AllRanks[s] = s - 1 /\ AllRanks[s] \in Env!Procs
  BY <1>1, <1>2
<1>7. PlacesOk(AllRanks, Env!GlobalPartition(Len(AllRanks), first, has))
  BY <1>5, <1>6, PlacesComputed
<1> QED
  BY <1>1, <1>2, <1>3, <1>4, <1>6, <1>7 DEF first, has

(* What is known in the beginning describes the new communicator. *)
LEMMA SubDescribed ==
  ASSUME Reducible, NEW ranks, RanksOk(ranks), PlacesOk(AllRanks, forests[0].position)
  PROVE  /\ FirstsOk(ranks, Env!SubFirstQuadrant(ranks)) /\ PlacesOk(ranks, Env!SubPosition(ranks))
         /\ Env!SubFirstQuadrant(ranks)[Len(ranks)] = AllQuadrants
<1> DEFINE G == Env!SubFirstQuadrant(ranks)
           P == Env!SubPosition(ranks)
<1>1. Len(ranks) \in Nat
  BY DEF RanksOk
<1> HIDE DEF G, P
<1>2. /\ \A s \in 0 .. Len(ranks) : G[s] \in Nat /\ BeginsAt(ranks, s, G[s])
      /\ \A s \in 1 .. Len(ranks) : G[s] = G[s - 1] + Env!n_quadrants(ranks[s])
  BY FirstsBegin DEF G
<1>3. FirstsOk(ranks, G)
  <2> SUFFICES ASSUME NEW s \in 1 .. Len(ranks)
               PROVE  IF ranks[s] \in Env!Nonempty
                      THEN G[s - 1] = input.gfq[ranks[s]] /\ G[s] = input.gfq[ranks[s] + 1]
                      ELSE G[s - 1] = G[s]
    BY DEF FirstsOk
  <2>1. s - 1 \in 0 .. Len(ranks) /\ s \in 0 .. Len(ranks)
    BY <1>1
  <2>2. BeginsAt(ranks, s - 1, G[s - 1]) /\ G[s - 1] \in Nat /\ G[s] = G[s - 1] + Env!n_quadrants(ranks[s])
    BY <1>2, <2>1
  <2>3. /\ input.gfq[ranks[s]] \in Nat /\ input.gfq[ranks[s] + 1] \in Nat
        /\ ranks[s] \in Env!Procs
    BY MembersAre DEF Reducible
  <2>4. Env!n_quadrants(ranks[s]) = input.gfq[ranks[s] + 1] - input.gfq[ranks[s]]
    BY DEF Env!n_quadrants
  <2>5. ASSUME ranks[s] \in Env!Nonempty PROVE G[s - 1] = input.gfq[ranks[s]]
    <3>1. NextAt(ranks, s - 1, s)
      BY <1>1, <2>5 DEF NextAt
    <3> QED
      BY <2>2, <3>1 DEF BeginsAt
  <2>6. ASSUME ranks[s] \notin Env!Nonempty PROVE input.gfq[ranks[s]] = input.gfq[ranks[s] + 1]
    BY <2>3, <2>6, HasQuadrants
  <2> QED
    BY <2>2, <2>3, <2>4, <2>5, <2>6
<1>4. G[Len(ranks)] = AllQuadrants
  <2>1. NoneFrom(ranks, Len(ranks))
    BY <1>1 DEF NoneFrom
  <2>2. Len(ranks) \in 0 .. Len(ranks)
    BY <1>1
  <2> QED
    BY <1>2, <2>1, <2>2 DEF BeginsAt
<1>5. CASE input.null
  <2>1. P = [s \in 0 .. Len(ranks) |->
               IF s = Len(ranks) THEN forests[0].position[NumProcs] ELSE forests[0].position[ranks[s + 1]]]
    BY <1>5 DEF P, Env!SubPosition
  <2> SUFFICES ASSUME NEW s \in 1 .. Len(ranks)
               PROVE  ranks[s] \in Env!Nonempty /\ P[s - 1] = input.gfq[ranks[s]]
    BY <1>3, <1>4 DEF PlacesOk, G, P
  <2>2. ranks[s] \in Env!Nonempty
    BY <1>5 DEF RanksOk, Staying
  <2>3. s - 1 \in 0 .. Len(ranks) /\ s - 1 # Len(ranks) /\ (s - 1) + 1 = s
    BY <1>1
  <2>4. P[s - 1] = forests[0].position[ranks[s]]
    BY <2>1, <2>3
  <2> DEFINE q == ranks[s]
  <2>5. q \in 0 .. NumProcs - 1 /\ NumProcs \in Nat
    BY MembersAre
  <2> HIDE DEF q
  <2>6. q + 1 \in 1 .. Len(AllRanks) /\ AllRanks[q + 1] = q /\ (q + 1) - 1 = q
    BY <2>5, AllDescribed
  <2>7. forests[0].position[q] = input.gfq[q]
    BY <2>2, <2>6 DEF PlacesOk, q
  <2> QED
    BY <2>2, <2>4, <2>7 DEF q
<1>6. CASE ~ input.null
  <2> DEFINE first == [s \in 0 .. Len(ranks) - 1 |-> input.gfq[ranks[s + 1]]]
             has == [s \in 0 .. Len(ranks) - 1 |-> Env!n_quadrants(ranks[s + 1]) > 0]
  <2>1. P = Env!GlobalPartition(Len(ranks), first, has)
    BY <1>6 DEF P, Env!SubPosition
  <2>2. \A s \in 0 .. Len(ranks) - 1 :
          first[s] = input.gfq[ranks[s + 1]] /\ (has[s] <=> Env!n_quadrants(ranks[s + 1]) > 0)
    OBVIOUS
  <2>3. \A s \in 1 .. Len(ranks) : ranks[s] \in Env!Procs
    BY MembersAre
  <2> HIDE DEF first, has
  <2>4. PlacesOk(ranks, P)
    BY <1>1, <2>1, <2>2, <2>3, PlacesComputed
  <2> QED
    BY <1>3, <1>4, <2>4 DEF G, P
<1> QED
  BY <1>5, <1>6

(***************************************************************************)
(* The invariant: the members have what describes them, the others have    *)
(* nothing; before the reduction all are members.                          *)
(***************************************************************************)
StateOf(ranks, F) ==
  /\ comm = ranks /\ ranks \in Seq(Env!Procs) /\ Len(ranks) \in Nat
  /\ \A p \in Env!Procs : p \in Staying => \E i \in 1 .. Len(ranks) : ranks[i] = p
  /\ forests = [p \in Env!Procs |-> IF p \in Env!ToSet(ranks) THEN F ELSE Env!NoForest]
EnvInv ==
  /\ input \in Inputs
  /\ \E ranks, F :
       /\ StateOf(ranks, F) /\ Describes(ranks, F)
       /\ F.ranks_subcomm = << >> => ranks = AllRanks

(* Members are those at some place. *)
LEMMA MembersIn ==
  ASSUME NEW ranks, NEW S, ranks \in Seq(S), Len(ranks) \in Nat
  PROVE  \A p : p \in Env!ToSet(ranks) <=> \E i \in 1 .. Len(ranks) : ranks[i] = p
<1>1. DOMAIN ranks = 1 .. Len(ranks)
  OBVIOUS
<1>2. Env!ToSet(ranks) = { ranks[i] : i \in DOMAIN ranks }
  BY DEF Env!ToSet
<1> QED
  BY <1>1, <1>2

(* The start. *)
LEMMA EnvStart ==
  ASSUME Env!GroupsAssumption, Env!Init
  PROVE  EnvInv
<1>1. input \in Inputs /\ Reducible
  BY InputsReduce DEF Env!Init
<1>2. /\ AllRanks \in Seq(Env!Procs) /\ Len(AllRanks) = NumProcs /\ NumProcs \in Nat
      /\ \A p \in Env!Procs : \E i \in 1 .. Len(AllRanks) : AllRanks[i] = p
  BY <1>1, AllDescribed
<1> DEFINE pos == Env!GlobalPartition(NumProcs, [r \in Env!Procs |-> input.gfq[r]],
                                                [r \in Env!Procs |-> Env!n_quadrants(r) > 0])
           F == [ exists |-> TRUE, gfq |-> input.gfq, ranks_subcomm |-> << >>, position |-> pos ]
<1>3. FirstsOk(AllRanks, input.gfq) /\ PlacesOk(AllRanks, pos)
  BY <1>1, AllDescribed
<1>4. comm = AllRanks
  <2>1. comm = Env!InOrder(Env!Procs)
    BY DEF Env!Init
  <2>2. 0 .. NumProcs - 1 \subseteq Env!Procs
    BY DEF Env!Procs
  <2>3. NumProcs \in Nat \ {0}
    BY <1>1 DEF Reducible
  <2> QED
    BY <2>1, <2>2, <2>3, InOrderLists DEF AllRanks
<1>5. forests = [p \in Env!Procs |-> F]
  BY DEF Env!Init
<1> HIDE DEF pos
<1>6. F.exists /\ F.gfq = input.gfq /\ F.position = pos /\ F.ranks_subcomm = << >>
  OBVIOUS
<1> HIDE DEF F
<1>7. Describes(AllRanks, F)
  BY <1>2, <1>3, <1>6 DEF Describes, AllQuadrants
<1>8. \A p \in Env!Procs : p \in Env!ToSet(AllRanks)
  BY <1>2, MembersIn
<1>9. forests = [p \in Env!Procs |-> IF p \in Env!ToSet(AllRanks) THEN F ELSE Env!NoForest]
  BY <1>5, <1>8
<1>10. StateOf(AllRanks, F)
  BY <1>2, <1>4, <1>9 DEF StateOf
<1> QED
  BY <1>1, <1>7, <1>10 DEF EnvInv

(* Somebody has quadrants, and stays. *)
LEMMA SomebodyStays ==
  ASSUME Reducible
  PROVE  \E p \in Env!Procs : p \in Env!Nonempty /\ p \in Staying
<1> SUFFICES ASSUME \A p \in Env!Procs : p \notin Env!Nonempty PROVE FALSE
  BY DEF Staying
<1>1. NumProcs \in Nat /\ 0 \in 0 .. NumProcs /\ NumProcs \in 0 .. NumProcs /\ 0 <= NumProcs
  BY DEF Reducible
<1>2. NoneBetween(0, NumProcs)
  BY DEF NoneBetween, Env!Procs
<1>3. input.gfq[0] = input.gfq[NumProcs]
  BY <1>1, <1>2, EmptyBetween
<1> QED
  BY <1>3 DEF Reducible, AllQuadrants

(* Before the reduction all are members. *)
LEMMA NotReduced ==
  ASSUME Reducible, ~ Env!Reduced, NEW ranks, NEW F, StateOf(ranks, F),
         F.ranks_subcomm = << >> => ranks = AllRanks
  PROVE  ranks = AllRanks
<1>1. PICK p \in Env!Procs : p \in Staying
  BY SomebodyStays
<1>2. p \in Env!ToSet(ranks)
  BY <1>1, MembersIn DEF StateOf
<1>3. forests[p] = F
  BY <1>2 DEF StateOf
<1> QED
  BY <1>3 DEF Env!Reduced

(* The reduction. *)
LEMMA EnvStep ==
  ASSUME Env!GroupsAssumption, EnvInv, Env!Reduce
  PROVE  EnvInv'
<1>1. input \in Inputs /\ Reducible /\ input' = input
  BY InputsReduce DEF EnvInv, Env!Reduce
<1>2. PICK old, E : StateOf(old, E) /\ Describes(old, E) /\ (E.ranks_subcomm = << >> => old = AllRanks)
  BY DEF EnvInv
<1>3. ~ Env!Reduced
  BY DEF Env!Reduce
<1>4. old = AllRanks
  BY <1>1, <1>2, <1>3, NotReduced
<1>5. PlacesOk(AllRanks, forests[0].position)
  <2>1. 0 \in Env!Procs
    BY <1>1 DEF Reducible, Env!Procs
  <2>2. 0 \in Env!ToSet(AllRanks)
    <3>1. \E i \in 1 .. Len(AllRanks) : AllRanks[i] = 0
      BY <1>1, <2>1, AllDescribed
    <3> QED
      BY <1>2, <1>4, <3>1, MembersIn DEF StateOf
  <2>3. forests[0] = E
    BY <1>2, <1>4, <2>1, <2>2 DEF StateOf
  <2> QED
    BY <1>2, <1>4, <2>3 DEF Describes
<1>6. PICK ranks : ranks = Env!SubGroup
  OBVIOUS
<1>7. RanksOk(ranks)
  BY <1>1, <1>6, SubGroupOk
<1>8. PICK F : F = [ exists |-> TRUE, gfq |-> Env!SubFirstQuadrant(ranks),
                     position |-> Env!SubPosition(ranks), ranks_subcomm |-> ranks ]
  OBVIOUS
<1>9. comm' = ranks /\ forests' = [p \in Env!Procs |-> IF p \in Env!ToSet(ranks) THEN F ELSE Env!NoForest]
  <2>1. /\ comm' = Env!SubGroup
        /\ forests' = [p \in Env!Procs |->
              IF p \notin Env!ToSet(Env!SubGroup) THEN Env!NoForest
              ELSE [ exists |-> TRUE, gfq |-> Env!SubFirstQuadrant(Env!SubGroup),
                     position |-> Env!SubPosition(Env!SubGroup), ranks_subcomm |-> Env!SubGroup ]]
    BY DEF Env!Reduce
  <2>2. forests' = [p \in Env!Procs |-> IF p \notin Env!ToSet(ranks) THEN Env!NoForest ELSE F]
    BY <1>6, <1>8, <2>1
  <2> QED
    BY <1>6, <2>1, <2>2
<1>10. Describes(ranks, F)
  <2>1. /\ FirstsOk(ranks, Env!SubFirstQuadrant(ranks)) /\ PlacesOk(ranks, Env!SubPosition(ranks))
        /\ Env!SubFirstQuadrant(ranks)[Len(ranks)] = AllQuadrants
    BY <1>1, <1>5, <1>7, SubDescribed
  <2>2. F.exists /\ F.gfq = Env!SubFirstQuadrant(ranks) /\ F.position = Env!SubPosition(ranks)
    BY <1>8
  <2> QED
    BY <2>1, <2>2 DEF Describes
<1>11. F.ranks_subcomm = ranks /\ ranks # << >>
  <2>1. F.ranks_subcomm = ranks
    BY <1>8
  <2>2. PICK p \in Env!Procs : p \in Staying
    BY <1>1, SomebodyStays
  <2>3. PICK i \in 1 .. Len(ranks) : ranks[i] = p
    BY <1>7, <2>2 DEF RanksOk
  <2> QED
    BY <2>1, <2>3
<1>12. Env!Nonempty' = Env!Nonempty /\ Staying' = Staying
  <2>1. Env!Nonempty' = Env!Nonempty
    BY <1>1 DEF Env!Nonempty, Env!Procs
  <2> QED
    BY <1>1, <2>1 DEF Staying
<1>13. StateOf(ranks, F)'
  <2>1. ranks \in Seq(Env!Procs) /\ Len(ranks) \in Nat
    BY <1>7 DEF RanksOk
  <2>2. \A p \in Env!Procs : p \in Staying => \E i \in 1 .. Len(ranks) : ranks[i] = p
    BY <1>7 DEF RanksOk
  <2> QED
    BY <1>9, <1>12, <2>1, <2>2 DEF StateOf
<1>14. Describes(ranks, F)'
  <2>1. FirstsOk(ranks, F.gfq)' /\ PlacesOk(ranks, F.position)'
    BY <1>1, <1>10, <1>12 DEF Describes, FirstsOk, PlacesOk
  <2> QED
    BY <1>1, <1>10, <2>1 DEF Describes, AllQuadrants
<1>15. input' \in Inputs
  BY <1>1
<1>16. F.ranks_subcomm = << >> => ranks = AllRanks
  BY <1>11
<1> QED
  BY <1>13, <1>14, <1>15, <1>16 DEF EnvInv

(* What the invariant says of the communicator. *)
LEMMA EnvReducedRight ==
  ASSUME Env!GroupsAssumption, EnvInv
  PROVE  Env!ReducedRight
<1>1. Reducible
  BY InputsReduce DEF EnvInv
<1>2. PICK ranks, F : StateOf(ranks, F) /\ Describes(ranks, F)
  BY DEF EnvInv
<1>3. /\ comm = ranks /\ ranks \in Seq(Env!Procs) /\ Len(ranks) \in Nat /\ DOMAIN ranks = 1 .. Len(ranks)
      /\ \A p : p \in Env!ToSet(ranks) <=> \E i \in 1 .. Len(ranks) : ranks[i] = p
      /\ \A p \in Env!Procs : forests[p] = IF p \in Env!ToSet(ranks) THEN F ELSE Env!NoForest
  BY <1>2, MembersIn DEF StateOf
<1>4. \A r \in Env!ToSet(ranks) : r \in Env!Procs
  BY <1>3
<1> SUFFICES ASSUME NEW p \in Env!Procs
             PROVE  IF p \notin Env!ToSet(ranks)
                    THEN ~ forests[p].exists /\ p \notin Env!Nonempty /\ (input.null \/ p \notin input.add)
                    ELSE /\ forests[p].exists /\ \A r \in Env!ToSet(ranks) : forests[r] = forests[p]
                         /\ \A s \in DOMAIN ranks :
                              IF ranks[s] \in Env!Nonempty
                              THEN /\ forests[p].gfq[s - 1] = input.gfq[ranks[s]]
                                   /\ forests[p].gfq[s] = input.gfq[ranks[s] + 1]
                                   /\ forests[p].position[s - 1] = input.gfq[ranks[s]]
                              ELSE forests[p].gfq[s - 1] = forests[p].gfq[s]
                                   /\ forests[p].position[s - 1] = forests[p].position[s]
                         /\ forests[p].gfq[Len(ranks)] = Env!global_num_quadrants
  BY <1>3 DEF Env!ReducedRight
<1>5. CASE p \notin Env!ToSet(ranks)
  <2>1. ~ forests[p].exists
    BY <1>3, <1>5 DEF Env!NoForest
  <2>2. p \notin Staying
    BY <1>2, <1>3, <1>5 DEF StateOf
  <2> QED
    BY <1>5, <2>1, <2>2 DEF Staying
<1>6. CASE p \in Env!ToSet(ranks)
  <2>1. forests[p] = F /\ \A r \in Env!ToSet(ranks) : forests[r] = F
    BY <1>3, <1>4, <1>6
  <2>2. F.exists /\ F.gfq[Len(ranks)] = Env!global_num_quadrants
    BY <1>2 DEF Describes, AllQuadrants, Env!global_num_quadrants
  <2>3. \A s \in 1 .. Len(ranks) :
          IF ranks[s] \in Env!Nonempty THEN F.position[s - 1] = input.gfq[ranks[s]]
          ELSE F.position[s - 1] = F.position[s]
    BY <1>2 DEF Describes, PlacesOk
  <2>4. \A s \in 1 .. Len(ranks) :
          IF ranks[s] \in Env!Nonempty
          THEN F.gfq[s - 1] = input.gfq[ranks[s]] /\ F.gfq[s] = input.gfq[ranks[s] + 1]
          ELSE F.gfq[s - 1] = F.gfq[s]
    BY <1>2 DEF Describes, FirstsOk
  <2> QED
    BY <1>3, <1>6, <2>1, <2>2, <2>3, <2>4
<1> QED
  BY <1>5, <1>6

(* Whatever group is given: nobody who has quadrants, or is to be kept, loses its *)
(* forest, and those that stay agree on a partition in which each has the quadrants *)
(* that it had (p4est_comm_parallel_env_reduce_ext). *)
THEOREM GroupReduced ==
  ASSUME Env!GroupsAssumption
  PROVE  Env!Spec => []Env!ReducedRight
<1>1. Env!Init => EnvInv
  BY EnvStart
<1>2. EnvInv /\ [Env!Reduce]_Env!vars => EnvInv'
  <2> SUFFICES ASSUME EnvInv, [Env!Reduce]_Env!vars PROVE EnvInv'
    OBVIOUS
  <2>1. CASE Env!Reduce
    BY <2>1, EnvStep
  <2>2. CASE UNCHANGED Env!vars
    <3>1. input' = input /\ comm' = comm /\ forests' = forests
      BY <2>2 DEF Env!vars
    <3>2. Env!Nonempty' = Env!Nonempty /\ Staying' = Staying /\ AllQuadrants' = AllQuadrants
      BY <3>1 DEF Env!Nonempty, Env!Procs, Staying, AllQuadrants
    <3>3. PICK ranks, F : /\ StateOf(ranks, F) /\ Describes(ranks, F)
                          /\ F.ranks_subcomm = << >> => ranks = AllRanks
      BY DEF EnvInv
    <3>4. StateOf(ranks, F)'
      BY <3>1, <3>2, <3>3 DEF StateOf
    <3>5. Describes(ranks, F)'
      <4>1. FirstsOk(ranks, F.gfq)' /\ PlacesOk(ranks, F.position)'
        BY <3>1, <3>2, <3>3 DEF Describes, FirstsOk, PlacesOk
      <4> QED
        BY <3>2, <3>3, <4>1 DEF Describes
    <3>6. input' \in Inputs
      BY <3>1 DEF EnvInv
    <3> QED
      BY <3>3, <3>4, <3>5, <3>6 DEF EnvInv
  <2> QED
    BY <2>1, <2>2
<1>3. EnvInv => Env!ReducedRight
  BY EnvReducedRight
<1> QED
  BY <1>1, <1>2, <1>3, PTL DEF Env!Spec
===============================================================================
