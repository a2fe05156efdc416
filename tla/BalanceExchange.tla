--------------------------- MODULE BalanceExchange ---------------------------
(***************************************************************************)
(* The parallel exchange of p4est_balance_ext (src/p4est.c).               *)
(*                                                                         *)
(* Every process asks the owners around its boundary quadrants: it sends   *)
(* them a count and, if it is not zero, the load of quadrants.  Whoever is *)
(* asked answers each load at once with another count and load.  Both      *)
(* rounds are received in the order in which they happen to complete, and  *)
(* no process ever waits for a particular one.  What the quadrants are     *)
(* does not matter here, only how many there are and who gets them.        *)
(***************************************************************************)
EXTENDS Integers, FiniteSets, FiniteSetsExt, Functions

CONSTANTS NumProcs,
          Patterns  \* ask: the quadrants each process schedules for each
                    \* process, itself included; answer: the quadrants it
                    \* finds for each that asks it; receivers: the processes
                    \* it sends counts to; grows: whether its number of
                    \* quadrants increases

Procs == 0 .. NumProcs - 1

\* sc_notify finds exactly the processes that are asked; the ranges of
\* sc_ranges may contain some that are not
PatternsAssumption ==
  /\ NumProcs \in Nat \ {0}
  /\ \A x \in Patterns :
       /\ x.ask \in [Procs -> [Procs -> Nat]] /\ x.answer \in [Procs -> [Procs -> Nat]]
       /\ x.grows \in [Procs -> BOOLEAN]
       /\ x.receivers \in [Procs -> SUBSET Procs]
       /\ \A p, r \in Procs : x.answer[p][r] > 0 => x.ask[r][p] > 0
       /\ \A p \in Procs : /\ p \notin x.receivers[p]
                           /\ \A r \in Procs \ {p} : x.ask[p][r] > 0 => r \in x.receivers[p]

Tags == { "FIRST_COUNT", "FIRST_LOAD", "SECOND_COUNT", "SECOND_LOAD" }

VARIABLES
  pattern,
  pc,              \* per process: "schedule", "notify", "first", "second", "merge",
                   \* "count", "done"
  net,             \* the messages: from, to, tag, and how many quadrants they
                   \* count or contain
  requests_first,  \* per process and peer: the tag of the receive that is
  requests_second, \* posted, None if there is none
  peers,           \* per process and peer: recv_first_count, recv_second_count,
                   \* have_first_load, have_second_load
  totals,          \* per process: total_send_count and total_recv_count
  merged,          \* per process: what has gone into its borders
  revision         \* per process

vars == << pattern, pc, net, requests_first, requests_second, peers, totals, merged, revision >>

None == "MPI_REQUEST_NULL"
Ask(p, r)    == pattern.ask[p][r]
Answer(p, r) == pattern.answer[p][r]
Receivers(p) == pattern.receivers[p]
\* what sc_notify or sc_ranges_decode tells a process
Senders(p)   == { r \in Procs : p \in Receivers(r) }
Sum(f, S)    == FoldFunctionOnSet(+, 0, f, S)
Msg(p, r, tag, n) == [ from |-> p, to |-> r, tag |-> tag, n |-> n ]

Init ==
  /\ pattern \in Patterns
  /\ pc = [p \in Procs |-> "schedule"]
  /\ net = {}
  /\ requests_first  = [p \in Procs |-> [r \in Procs |-> None]]
  /\ requests_second = [p \in Procs |-> [r \in Procs |-> None]]
  /\ peers = [p \in Procs |-> [r \in Procs |->
       [ recv_first_count |-> 0, recv_second_count |-> 0,
         have_first_load |-> FALSE, have_second_load |-> FALSE ]]]
  /\ totals = [p \in Procs |-> [ sent |-> 0, received |-> 0 ]]
  /\ merged = [p \in Procs |-> {}]
  /\ revision = [p \in Procs |-> 0]

\* the local balance is done, the process enters the collective notify
Schedule(p) ==
  /\ pc[p] = "schedule"
  /\ pc' = [pc EXCEPT ![p] = "notify"]
  /\ UNCHANGED << pattern, net, requests_first, requests_second, peers, totals, merged, revision >>

\* who gets a load and owes an answer
Asked(p) == { r \in Receivers(p) : Ask(p, r) > 0 }

\* send the first round; post receives for the counts and for the answers
SendFirst(p) ==
  /\ pc[p] = "notify"
  /\ \A r \in Procs : pc[r] # "schedule"
  /\ net' = net \union { Msg(p, r, "FIRST_COUNT", Ask(p, r)) : r \in Receivers(p) }
                \union { Msg(p, r, "FIRST_LOAD", Ask(p, r)) :
                           r \in { x \in Receivers(p) : Ask(p, x) > 0 } }
  /\ requests_second' = [requests_second EXCEPT ![p] =
       [r \in Procs |-> IF r \in Asked(p) THEN "SECOND_COUNT" ELSE None]]
  /\ requests_first' = [requests_first EXCEPT ![p] =
       [r \in Procs |-> IF r \in Senders(p) THEN "FIRST_COUNT" ELSE None]]
  /\ totals' = [totals EXCEPT ![p].sent = @ + Sum(pattern.ask[p], Receivers(p))]
  /\ pc' = [pc EXCEPT ![p] = "first"]
  /\ UNCHANGED << pattern, peers, merged, revision >>

\* the receive posted after a count: for the load if there is one
AfterCount(n, load) == IF n > 0 THEN load ELSE None

\* MPI_Waitsome has completed the receive of a count of the first round
FirstCount(p) ==
  \E m \in net :
    /\ pc[p] = "first"
    /\ m.to = p /\ m.tag = "FIRST_COUNT" /\ requests_first[p][m.from] = m.tag
    /\ peers' = [peers EXCEPT ![p][m.from].recv_first_count = m.n]
    /\ requests_first' = [requests_first EXCEPT ![p][m.from] = AfterCount(m.n, "FIRST_LOAD")]
    /\ totals' = [totals EXCEPT ![p].received = @ + m.n]
    /\ net' = net \ {m}
    /\ UNCHANGED << pattern, pc, requests_second, merged, revision >>

\* mutant: an answer without quadrants is not announced
Reply_NotIfEmpty(p, r) ==
  { Msg(p, r, tag, Answer(p, r)) :
      tag \in IF Answer(p, r) > 0 THEN { "SECOND_COUNT", "SECOND_LOAD" } ELSE {} }

\* mutant: the count announced is that of the quadrants received
Reply_OldCount(p, r) ==
  { Msg(p, r, "SECOND_COUNT", peers[p][r].recv_first_count) } \union
  (IF Answer(p, r) > 0 THEN { Msg(p, r, "SECOND_LOAD", Answer(p, r)) } ELSE {})

\* p4est_balance_response: the count is sent in any case
Reply(p, r) ==
  { Msg(p, r, tag, Answer(p, r)) :
      tag \in IF Answer(p, r) > 0 THEN { "SECOND_COUNT", "SECOND_LOAD" } ELSE { "SECOND_COUNT" } }

\* it has completed the receive of a load: answer it
FirstLoad(p) ==
  \E m \in net :
    /\ pc[p] = "first"
    /\ m.to = p /\ m.tag = "FIRST_LOAD" /\ requests_first[p][m.from] = m.tag
    /\ peers' = [peers EXCEPT ![p][m.from].have_first_load = TRUE]
    /\ requests_first' = [requests_first EXCEPT ![p][m.from] = None]
    /\ net' = (net \ {m}) \union Reply(p, m.from)
    /\ totals' = [totals EXCEPT ![p].sent = @ + Answer(p, m.from)]
    /\ UNCHANGED << pattern, pc, requests_second, merged, revision >>

\* no request_first is left: send and receive with itself across tree
\* boundaries, in both rounds
Self(p) ==
  /\ pc[p] = "first"
  /\ \A r \in Procs : requests_first[p][r] = None
  /\ peers' = [peers EXCEPT ![p][p] =
       [ recv_first_count |-> Ask(p, p), recv_second_count |-> Answer(p, p),
         have_first_load |-> TRUE, have_second_load |-> TRUE ]]
  /\ pc' = [pc EXCEPT ![p] = "second"]
  /\ UNCHANGED << pattern, net, requests_first, requests_second, totals, merged, revision >>

SecondCount(p) ==
  \E m \in net :
    /\ pc[p] = "second"
    /\ m.to = p /\ m.tag = "SECOND_COUNT" /\ requests_second[p][m.from] = m.tag
    /\ peers' = [peers EXCEPT ![p][m.from].recv_second_count = m.n]
    /\ requests_second' = [requests_second EXCEPT ![p][m.from] = AfterCount(m.n, "SECOND_LOAD")]
    /\ totals' = [totals EXCEPT ![p].received = @ + m.n]
    /\ net' = net \ {m}
    /\ UNCHANGED << pattern, pc, requests_first, merged, revision >>

SecondLoad(p) ==
  \E m \in net :
    /\ pc[p] = "second"
    /\ m.to = p /\ m.tag = "SECOND_LOAD" /\ requests_second[p][m.from] = m.tag
    /\ peers' = [peers EXCEPT ![p][m.from].have_second_load = TRUE]
    /\ requests_second' = [requests_second EXCEPT ![p][m.from] = None]
    /\ net' = net \ {m}
    /\ UNCHANGED << pattern, pc, requests_first, totals, merged, revision >>

\* the quadrants received of every peer, which go into the borders of their trees.
\* p4est_balance_response has replaced the first part by its seeds, so an entry stands
\* for what the answer left of it; a process's own entry needs no message.
Arrived(p) ==
  { << r, "first", peers[p][r].recv_first_count >> : r \in { x \in Procs : peers[p][x].have_first_load } }
  \union
  { << r, "second", peers[p][r].recv_second_count >> : r \in { x \in Procs : peers[p][x].have_second_load } }

\* no request_second is left: merge, rebalance
Merge(p) ==
  /\ pc[p] = "second"
  /\ \A r \in Procs : requests_second[p][r] = None
  /\ merged' = [merged EXCEPT ![p] = Arrived(p)]
  /\ pc' = [pc EXCEPT ![p] = "merge"]
  /\ UNCHANGED << pattern, net, requests_first, requests_second, peers, totals, revision >>

\* all sends are complete: enter the allgather of the counts
CountQuadrants(p) ==
  /\ pc[p] = "merge"
  /\ \A m \in net : m.from # p
  /\ pc' = [pc EXCEPT ![p] = "count"]
  /\ UNCHANGED << pattern, net, requests_first, requests_second, peers, totals, merged, revision >>

\* old_gnq differs from the new global_num_quadrants
Changed(p) == \E r \in Procs : pattern.grows[r]

Finish(p) ==
  /\ pc[p] = "count"
  /\ \A r \in Procs : pc[r] \in { "count", "done" }
  /\ revision' = [revision EXCEPT ![p] = IF Changed(p) THEN @ + 1 ELSE @]
  /\ pc' = [pc EXCEPT ![p] = "done"]
  /\ UNCHANGED << pattern, net, requests_first, requests_second, peers, totals, merged >>

Step(p) ==
  \/ Schedule(p) \/ SendFirst(p) \/ FirstCount(p) \/ FirstLoad(p) \/ Self(p)
  \/ SecondCount(p) \/ SecondLoad(p) \/ Merge(p) \/ CountQuadrants(p) \/ Finish(p)
Next == \E p \in Procs : Step(p)

Spec     == Init /\ [][Next]_vars
\* every process runs on while it is not waiting
FairSpec == Spec /\ \A p \in Procs : WF_vars(Step(p))

(***************************************************************************)
(* Properties                                                              *)
(***************************************************************************)
\* A process merges when and only when it has all that the others have for it:
\* every load scheduled for it and an answer to every load of its own.
MergeComplete ==
  \A p \in Procs : pc[p] \in { "merge", "count", "done" } =>
    merged[p] =
      { << r, "first", Ask(r, p) >> : r \in { x \in Procs : x = p \/ Ask(x, p) > 0 } }
      \union
      { << r, "second", Answer(r, p) >> :
          r \in { x \in Procs : x = p \/ (Ask(p, x) > 0 /\ Answer(x, p) > 0) } }

\* Nothing is left over when a process is through, so a second call does not
\* take a message of this one; a count and its load have the same length (the
\* "mismatch" checks).
NothingLeft ==
  /\ \A p \in Procs : pc[p] = "done" =>
       /\ \A m \in net : m.from # p /\ m.to # p
       /\ \A r \in Procs : requests_first[p][r] = None /\ requests_second[p][r] = None
  /\ \A m \in net : /\ m.tag = "FIRST_LOAD" /\ requests_first[m.to][m.from] = m.tag =>
                         m.n = peers[m.to][m.from].recv_first_count
                    /\ m.tag = "SECOND_LOAD" /\ requests_second[m.to][m.from] = m.tag =>
                         m.n = peers[m.to][m.from].recv_second_count

\* The processes agree on whether the forest has changed.
RevisionAgrees == \A p, r \in Procs : revision[p] = revision[r]

\* As many quadrants are sent as are received ("gtotal").
TotalsMatch ==
  Sum([p \in Procs |-> totals[p].sent], Procs) = Sum([p \in Procs |-> totals[p].received], Procs)

\* Every process returns, in whatever order the messages complete, each with
\* all that the others had for it, all with the same revision and nothing lost.
Complete ==
  (\A p \in Procs : pc[p] = "done") /\ MergeComplete /\ RevisionAgrees /\ TotalsMatch
EndsMerged == <>Complete
==============================================================================
