-------------------------------- MODULE Transfer -------------------------------
(***************************************************************************)
(* Data that follows its quadrants from one partition to another:          *)
(* p4est_transfer_fixed, _custom and _items of src/p4est_communication.c,  *)
(* called as the tests do.  A first transfer of fixed size is begun, the   *)
(* sizes of the variable data are transferred while it runs, it is ended,  *)
(* and then the variable data is transferred with the tag of the sizes.    *)
(*                                                                         *)
(* Both ends work out from the two partitions who sends how much to whom;  *)
(* there is no message where there is nothing to send.                     *)
(***************************************************************************)
EXTENDS Integers, Sequences, Functions, SequencesExt

CONSTANTS NumProcs,
          Inputs    \* src, dest: global_first_quadrant before and after;
                    \* sizes: the number of items of each quadrant;
                    \* fixed: data_size of the first transfer

\* two partitions of the same quadrants
PartitionsAssumption ==
  /\ NumProcs \in Nat \ {0}
  /\ \A c \in Inputs :
       /\ c.src \in [0 .. NumProcs -> Nat] /\ c.dest \in [0 .. NumProcs -> Nat]
       /\ c.src[0] = 0 /\ c.dest[0] = 0 /\ c.src[NumProcs] = c.dest[NumProcs]
       /\ \A p \in 0 .. NumProcs - 1 : c.src[p] <= c.src[p + 1] /\ c.dest[p] <= c.dest[p + 1]
       /\ c.sizes \in [0 .. c.src[NumProcs] - 1 -> Nat] /\ c.fixed \in Nat

VARIABLES
  input,
  pc,        \* per process: the next of Program
  requests,  \* per process and transfer: sender -> [at, len] of the receives
             \* that are posted and not complete
  data,      \* per process and transfer: dest_data
  net        \* per pair of processes: the messages in the order they were sent

vars == << input, pc, requests, data, net >>

Procs == 0 .. NumProcs - 1
Nothing   == << >>    \* what dest_data holds before
Transfers == { "fixed", "sizes", "custom" }
Tag(x)    == IF x = "fixed" THEN 0 ELSE 1
Program   == << << "begin", "fixed" >>, << "begin", "sizes" >>, << "wait", "sizes" >>,
                << "wait", "fixed" >>, << "begin", "custom" >>, << "wait", "custom" >>, << "done" >> >>

\* p4est_bsearch_partition: the process whose range has quadrant g
ProcOf(g, gfq) == CHOOSE q \in Procs : gfq[q] <= g /\ g < gfq[q + 1]

\* A range r is that of the quadrants r.begin .. r.end - 1.
Received(p) == [ begin |-> input.dest[p], end |-> input.dest[p + 1] ]
Held(p)     == [ begin |-> input.src[p],  end |-> input.src[p + 1] ]

\* the processes that share quadrants of a range in partition gfq
Partners(r, gfq) ==
  IF r.begin < r.end THEN ProcOf(r.begin, gfq) .. ProcOf(r.end - 1, gfq) ELSE {}

\* gbegin and gend: what is shared with partner q
Share(q, r, gfq) ==
  [ begin |-> IF q = ProcOf(r.begin, gfq) THEN r.begin ELSE gfq[q],
    end   |-> IF gfq[q + 1] > r.end THEN r.end ELSE gfq[q + 1] ]

ReceivedFrom(p, q) == Share(q, Received(p), input.src)
SentTo(p, q)       == Share(q, Held(p), input.dest)

\* what a transfer carries for quadrant g, and how the sender and the receiver
\* know how long that is
Items(x, g) ==
  CASE x = "fixed"  -> [i \in 1 .. input.fixed |-> << g >>]
    [] x = "sizes"  -> << << input.sizes[g] >> >>
    [] x = "custom" -> [i \in 1 .. input.sizes[g] |-> << g, i >>]
SrcSizes(x, p) == [g \in Held(p).begin .. Held(p).end - 1 |-> Len(Items(x, g))]
DestSizes(x, p) ==
  [g \in Received(p).begin .. Received(p).end - 1 |->
     CASE x = "fixed"  -> input.fixed
       [] x = "sizes"  -> 1
       [] x = "custom" -> data[p]["sizes"][g - input.dest[p] + 1][1]]

\* rb: how many items come in front of each quadrant of a range
Offsets(sizes, r) ==
  LET at[g \in r.begin .. r.end] == IF g = r.begin THEN 0 ELSE at[g - 1] + sizes[g - 1]
  IN  at
\* where in the data of a range a part of it begins, and how long it is
Place(sizes, r, part) ==
  LET at == Offsets(sizes, r)
  IN  [ at |-> at[part.begin], len |-> at[part.end] - at[part.begin] ]

\* the data of a range: item k is one of the quadrant in whose place it is
SrcData(x, r) ==
  LET at == Offsets([g \in r.begin .. r.end - 1 |-> Len(Items(x, g))], r)
      of(k) == CHOOSE g \in r.begin .. r.end - 1 : at[g] < k /\ k <= at[g + 1]
  IN  [k \in 1 .. at[r.end] |-> Items(x, of(k))[k - at[of(k)]]]
Put(seq, at, items) ==
  [k \in DOMAIN seq |-> IF at < k /\ k <= at + Len(items) THEN items[k - at] ELSE seq[k]]

\* mutant: an empty message is sent where there are quadrants
Destinations_EvenEmpty(x, p) ==
  { q \in Partners(Held(p), input.dest) \ {p} : SentTo(p, q).begin < SentTo(p, q).end }

\* who a process sends to in transfer x
Destinations(x, p) ==
  { q \in Partners(Held(p), input.dest) \ {p} :
      Place(SrcSizes(x, p), Held(p), SentTo(p, q)).len > 0 }
Sources(x, p) ==
  { q \in Partners(Received(p), input.src) :
      Place(DestSizes(x, p), Received(p), ReceivedFrom(p, q)).len > 0 }

Init ==
  /\ input \in Inputs
  /\ pc = [p \in Procs |-> 1]
  /\ requests = [p \in Procs |-> [x \in Transfers |-> << >>]]
  /\ data = [p \in Procs |-> [x \in Transfers |-> << >>]]
  /\ net = [e \in Procs \X Procs |-> << >>]

Advance(p) == pc' = [pc EXCEPT ![p] = @ + 1]

\* p4est_transfer_fixed_begin, p4est_transfer_begin: post the receives, send,
\* copy what stays
Begin(p, x) ==
  /\ Program[pc[p]] = << "begin", x >>
  /\ LET sizes == DestSizes(x, p)
         from  == Sources(x, p)
         empty == [k \in 1 .. Offsets(sizes, Received(p))[Received(p).end] |-> Nothing]
     IN  /\ requests' = [requests EXCEPT ![p][x] =
               [q \in from \ {p} |-> Place(sizes, Received(p), ReceivedFrom(p, q))]]
         /\ data' = [data EXCEPT ![p][x] =
               IF p \notin from THEN empty
               ELSE Put(empty, Place(sizes, Received(p), ReceivedFrom(p, p)).at, SrcData(x, SentTo(p, p)))]
  /\ net' = [e \in Procs \X Procs |->
       IF e[1] # p \/ e[2] \notin Destinations(x, p) THEN net[e]
       ELSE Append(net[e], [ tag |-> Tag(x), items |-> SrcData(x, SentTo(p, e[2])) ])]
  /\ Advance(p) /\ UNCHANGED input

\* a receive takes the first message of its sender with its tag, whenever it
\* arrives, and puts it where it was posted
Complete(p, x, q) ==
  LET e  == << q, p >>
      ks == { k \in DOMAIN net[e] : net[e][k].tag = Tag(x) }
  IN  /\ q \in DOMAIN requests[p][x] /\ ks # {}
      /\ LET k == CHOOSE k \in ks : \A j \in ks : k <= j
         IN  /\ data' = [data EXCEPT ![p][x] = Put(@, requests[p][x][q].at, net[e][k].items)]
             /\ net' = [net EXCEPT ![e] = RemoveAt(@, k)]
      /\ requests' = [requests EXCEPT ![p][x] = Restrict(@, DOMAIN @ \ {q})]
      /\ UNCHANGED << input, pc >>

\* p4est_transfer_end: all receives are complete
End(p, x) ==
  /\ Program[pc[p]] = << "wait", x >> /\ requests[p][x] = << >>
  /\ Advance(p) /\ UNCHANGED << input, requests, data, net >>

Next == \E p \in Procs, x \in Transfers :
          Begin(p, x) \/ End(p, x) \/ \E q \in Procs : Complete(p, x, q)

Spec == Init /\ [][Next]_vars
FairSpec == Spec /\ WF_vars(Next)

AllDone == \A p \in Procs : Program[pc[p]] = << "done" >>

\* Whatever has come is in its place: a message is as long as the receive that
\* takes it, and neither a later transfer with its tag nor one that runs beside
\* it gets it.  In the end all data is there and nothing is left in the net.
TransferRight ==
  /\ \A p \in Procs : \A x \in Transfers : \A k \in DOMAIN data[p][x] :
       data[p][x][k] \in { Nothing, SrcData(x, Received(p))[k] }
  /\ AllDone => /\ \A e \in Procs \X Procs : net[e] = << >>
                /\ \A p \in Procs : \A x \in Transfers : data[p][x] = SrcData(x, Received(p))
==============================================================================
