--------------------------------- MODULE Ghost ---------------------------------
(***************************************************************************)
(* The ghost layer of src/p4est_ghost.c in two dimensions, and its two     *)
(* uses: p4est_ghost_new followed by an exchange of data between mirrors   *)
(* and ghosts, and p4est_is_balanced.                                      *)
(*                                                                         *)
(* Every process decides from the positions of the partition alone who     *)
(* needs which of its quadrants.  It receives from exactly those processes *)
(* that it sends to: nobody is told who sends.                             *)
(*                                                                         *)
(* A quadrant in a message is its number in the forest, which stands for   *)
(* the tree, the coordinates, the owner and the local number.              *)
(***************************************************************************)
EXTENDS Neighbors

CONSTANT Inputs   \* the forests and what is called: [forest, btype, balance,
                  \* minlevel, maxlevel], the levels being those of the exchange

VARIABLES
  input,
  around,       \* per quadrant: [to, fails], what its owner finds around it
  failed,       \* per process: the flag of p4est_ghost_new_check or is_balanced
  pc,           \* per process: "collect", "sync", "counts", "loads", "balance",
                \* "vote", "exchange", "wait", "done"
  send_bufs,    \* per process: for every process the quadrants it is sent
  mirrors,      \* per process: [quads, to], to[r] the numbers of those sent to r
  net,          \* messages: from, to, tag, body
  ghosts,       \* per process: [quads, offset], where those of each process begin
  ghost_data,   \* per process: the data that came for each ghost
  result        \* per process: what is_balanced returns

vars == << input, around, failed, pc, send_bufs, mirrors, net, ghosts, ghost_data, result >>

F       == input.forest
Leaf(i) == F.leaves[i]
Numbers == DOMAIN F.leaves
Owner(i) == CHOOSE p \in Procs : F.first[p] < i /\ i <= F.first[p + 1]

(***************************************************************************)
(* The << tree, quadrant >> that lie across a face, across a corner        *)
(***************************************************************************)
Outside(t, q) == { g \in Faces : QuadContact(q, g) /\ ~ IsBoundary(F.conn, t, g) }
ThroughFace(t, q) ==
  IF InsideRoot(q) THEN { << t, q >> }
  ELSE { << F.conn.tree[t][g], TransformFace(F.conn, t, g, q) >> : g \in Outside(t, q) }

\* in the order in which the code meets the trees at a corner
AtCorner(t, c, q) ==
  [i \in DOMAIN FindCornerTransform(F.conn, t, c) |->
     LET d == FindCornerTransform(F.conn, t, c)[i] IN << d[1], IntoCorner(q, d[2]) >>]
ThroughCorner(t, c, q) ==
  IF OutsideCorner(q) THEN ToSet(AtCorner(t, c, q)) ELSE ThroughFace(t, q)
Owners(S, p) == { FindOwner(F, x[1], x[2], p) : x \in S }

(***************************************************************************)
(* Who is sent a quadrant q of tree t and process p by                     *)
(* p4est_ghost_new_check with P4EST_GHOST_UNBALANCED_FAIL: the owners of   *)
(* the neighbours of half the size                                         *)
(***************************************************************************)
HalfFaces(q, f) ==
  IF q.level = QMAXLEVEL THEN { FaceNeighbor(q, f) }
  ELSE { HalfFaceNeighbor(q, f, i) : i \in 0 .. 1 }
HalfCorner(q, c) ==
  IF q.level = QMAXLEVEL THEN CornerNeighbor(q, c) ELSE HalfCornerNeighbor(q, c)

HalfDests(p, t, q) ==
  UNION { Owners(UNION { ThroughFace(t, n) : n \in HalfFaces(q, f) }, p) : f \in Faces }
    \union IF input.btype = "face" THEN {}
           ELSE UNION { Owners(ThroughCorner(t, c, HalfCorner(q, c)), p) : c \in Corners }

\* the upper right corner of a half neighbour belongs to somebody else, so that
\* there is something smaller.  Across a face the code transforms the upper
\* right corner of the neighbour, which may not be that of the transformed one.
FaceSplit(p, t, q) ==
  q.level < QMAXLEVEL /\ \E f \in Faces, k \in 0 .. 1 :
    LET n == HalfFaceNeighbor(q, f, k)
    IN  QuadrantFindOwner(F, t, n, p) # QuadrantFindOwner(F, t, UpperRight(n), p)
CornerSplit(p, t, q) ==
  q.level < QMAXLEVEL /\ \E c \in Corners :
    LET n == HalfCornerNeighbor(q, c)
    IN  IF OutsideCorner(n)
        THEN \E x \in ThroughCorner(t, c, n) :
               FindOwner(F, x[1], x[2], p) # FindOwner(F, x[1], UpperRight(x[2]), p)
        ELSE QuadrantFindOwner(F, t, n, p) # QuadrantFindOwner(F, t, UpperRight(n), p)

(***************************************************************************)
(* The same with P4EST_GHOST_UNBALANCED_ALLOW, for every forest            *)
(***************************************************************************)
\* p4est_ghost_test_add: the owners of a neighbour of the same size whose part
\* touches face b of it
TestAdd(p, nt, nq, b) ==
  LET n0 == FindOwner(F, nt, nq, p)
      n1 == FindOwner(F, nt, UpperRight(nq), n0)
      at == F.position
      lq(r) == IF r = n0 THEN None ELSE PlaceQuad(at[r])
      uq(r) == IF r = n1 THEN None ELSE PlaceQuad(at[r + 1] - 4 ^ (MAXLEVEL - QMAXLEVEL))
  IN  IF n0 = n1 THEN {n0}
      ELSE { r \in n0 .. n1 : /\ at[r] # at[r + 1]
                              /\ b \in FindRangeBoundaries(lq(r), uq(r), nq.level) }

\* the face of the neighbour that touches face f
FacingFace(t, f, n) ==
  IF InsideRoot(n) THEN IF f % 2 = 0 THEN f + 1 ELSE f - 1 ELSE NeighborFace(F.conn, t, f)
\* mutant: the corner neighbour of the same size, of which only a part touches
CornerPlace_Whole(q, c) == CornerNeighbor(q, c)

\* the smallest quadrant behind corner c of q
CornerPlace(q, c) == CornerNeighbor(CornerDescendant(q, c), c)

AllowDests(p, t, q) ==
  UNION { LET n == FaceNeighbor(q, f)
          IN  UNION { TestAdd(p, x[1], x[2], FacingFace(t, f, n)) : x \in ThroughFace(t, n) }
          : f \in Faces }
    \union IF input.btype = "face" THEN {}
           ELSE UNION { Owners(ThroughCorner(t, c, CornerPlace(q, c)), p) : c \in Corners }

\* what the owner of quadrant i finds out
Search(i) ==
  LET p == Owner(i)
      t == Leaf(i).tree
      q == Leaf(i).quad
  IN  IF NeighborhoodOwned(F, p, t, q) THEN [ to |-> {}, fails |-> FALSE ]
      ELSE [ to    |-> (IF input.balance THEN HalfDests(p, t, q) ELSE AllowDests(p, t, q)) \ {p},
             fails |-> /\ input.balance
                       /\ FaceSplit(p, t, q) \/ (input.btype = "full" /\ CornerSplit(p, t, q)) ]

(***************************************************************************)
(* p4est_ghost_new_check                                                   *)
(***************************************************************************)
Mine(p)     == Local(F, p)
Peers(bufs) == { r \in Procs : bufs[r] # << >> }
Msg(p, r, tag, body) == [ from |-> p, to |-> r, tag |-> tag, body |-> body ]
Counts(p, bufs) == { Msg(p, r, "count", Len(bufs[r])) : r \in Peers(bufs) }
Arrived(p, r, tag) == { m \in net : m.from = r /\ m.to = p /\ m.tag = tag }
Ready(p, tag) == \A r \in Peers(send_bufs[p]) : Arrived(p, r, tag) # {}
Body(p, r, tag) == (CHOOSE m \in Arrived(p, r, tag) : TRUE).body

Go(p, to) == pc' = [pc EXCEPT ![p] = to]

\* a local quadrant is sent once to each process; the first of its processes
\* makes it a mirror.  If all forests are allowed the counts are sent at once.
Collect(p) ==
  /\ pc[p] = "collect"
  /\ LET to(r) == SelectSeq(Mine(p), LAMBDA i : r \in around[i].to)
         bufs  == [r \in Procs |-> to(r)]
         mir   == SelectSeq(Mine(p), LAMBDA i : around[i].to # {})
         of(r) == SelectSeq([k \in DOMAIN mir |-> k], LAMBDA k : r \in around[mir[k]].to)
     IN  /\ send_bufs' = [send_bufs EXCEPT ![p] = bufs]
         /\ mirrors' = [mirrors EXCEPT ![p] = [ quads |-> mir, to |-> [r \in Procs |-> of(r)] ]]
         /\ IF input.balance THEN net' = net /\ Go(p, "sync")
            ELSE net' = net \union Counts(p, bufs) /\ Go(p, "counts")
  /\ failed' = [failed EXCEPT ![p] = \E i \in ToSet(Mine(p)) : around[i].fails]
  /\ UNCHANGED << input, around, ghosts, ghost_data, result >>

\* p4est_comm_sync_flag with P4EST_GHOST_UNBALANCED_FAIL: if it failed
\* anywhere nobody has a ghost layer, and no forest is balanced
Sync ==
  /\ \A p \in Procs : pc[p] = "sync"
  /\ IF \E p \in Procs : failed[p]
     THEN /\ pc' = [p \in Procs |-> "done"]
          /\ result' = [p \in Procs |-> FALSE]
          /\ UNCHANGED net
     ELSE /\ pc' = [p \in Procs |-> "counts"]
          /\ net' = net \union UNION { Counts(p, send_bufs[p]) : p \in Procs }
          /\ UNCHANGED result
  /\ UNCHANGED << input, around, failed, send_bufs, mirrors, ghosts, ghost_data >>

\* the counts place the ghosts of each process; what one process receives from
\* is what it sends to
WaitCounts(p) ==
  /\ pc[p] = "counts" /\ Ready(p, "count")
  /\ LET count(r) == IF r \in Peers(send_bufs[p]) THEN Body(p, r, "count") ELSE 0
         offset   == [r \in 0 .. NumProcs |->
                        FoldFunctionOnSet(+, 0, [s \in Procs |-> count(s)], 0 .. r - 1)]
     IN  ghosts' = [ghosts EXCEPT ![p] =
           [ quads |-> [k \in 1 .. offset[NumProcs] |-> 0], offset |-> offset ]]
  /\ net' = (net \ UNION { Arrived(p, r, "count") : r \in Peers(send_bufs[p]) })
              \union { Msg(p, r, "load", send_bufs[p][r]) : r \in Peers(send_bufs[p]) }
  /\ Go(p, "loads")
  /\ UNCHANGED << input, around, failed, send_bufs, mirrors, ghost_data, result >>

\* a message is received at its place
Place(seq, at, body) ==
  [k \in DOMAIN seq |-> IF at < k /\ k <= at + Len(body) THEN body[k - at] ELSE seq[k]]

WaitLoads(p) ==
  /\ pc[p] = "loads" /\ Ready(p, "load")
  /\ LET got == FoldSet(LAMBDA r, s : Place(s, ghosts[p].offset[r], Body(p, r, "load")),
                        ghosts[p].quads, Peers(send_bufs[p]))
     IN  /\ ghosts' = [ghosts EXCEPT ![p].quads = got]
         /\ ghost_data' = [ghost_data EXCEPT ![p] = [k \in DOMAIN got |-> 0]]
  /\ net' = net \ UNION { Arrived(p, r, "load") : r \in Peers(send_bufs[p]) }
  /\ Go(p, IF input.balance THEN "balance" ELSE "exchange")
  /\ UNCHANGED << input, around, failed, send_bufs, mirrors, result >>

(***************************************************************************)
(* p4est_is_balanced                                                       *)
(***************************************************************************)
\* p4est_quadrant_exists: among the local quadrants and the ghosts
Known(p) == { << Leaf(i).tree, Leaf(i).quad >> : i \in ToSet(Mine(p)) \union ToSet(ghosts[p].quads) }
NoQuad == [ level |-> -1 ]
Parent(q) == Quad([a \in Axes |-> q.c[a] - (q.c[a] % QuadrantLen(q.level - 1))], q.level - 1)
ChildId(q) == IF q.level = 0 THEN 0 ELSE AncestorId(q, q.level)

\* p4est_quadrant_on_face_boundary
OnFaceBoundary(t, f, q) ==
  IsBoundary(F.conn, t, f) /\ ~ InsideRoot(FaceNeighbor(q, f))
\* p4est_quadrant_on_corner_boundary
OnCornerBoundary(t, c, q) ==
  LET n == CornerNeighbor(q, c)
  IN  IF TouchesCorner(q, c, TRUE) THEN FindCornerTransform(F.conn, t, c) = << >>
      ELSE ~ InsideRoot(n) /\ IsBoundary(F.conn, t, CHOOSE f \in Faces : QuadContact(n, f))

\* p4est_quadrant_all_face_neighbors: the two half ones, the equal one and, if
\* face f is one of the parent too, the double one
HasDouble(q, f) == q.level > 0 /\ f \in CornerFaces(ChildId(q))
ExistsAt(known, t, n) ==
  n # NoQuad /\ \E x \in ThroughFace(t, n) : x \in known
DoubleFace(q, f) == IF HasDouble(q, f) THEN FaceNeighbor(Parent(q), f) ELSE NoQuad
HalfFace(q, f, i) == IF q.level = QMAXLEVEL THEN NoQuad ELSE HalfFaceNeighbor(q, f, i)

FaceFails(known, t, q, f) ==
  LET half(i) == ExistsAt(known, t, HalfFace(q, f, i))
      equal   == ExistsAt(known, t, FaceNeighbor(q, f))
      double  == ExistsAt(known, t, DoubleFace(q, f))
  IN  /\ ~ OnFaceBoundary(t, f, q)
      /\ \/ half(0) # half(1)
         \/ Cardinality({ s \in { << 0, half(0) >>, << 1, equal >>, << 2, double >> } : s[2] }) # 1

BiggerFace(known, t, q, f) ==
  ~ OnFaceBoundary(t, f, q) /\ ExistsAt(known, t, DoubleFace(q, f))

\* p4est_quadrant_get_possible_corner_neighbors
CornerSizes(q, c) ==
  << IF q.level = QMAXLEVEL THEN NoQuad ELSE HalfCornerNeighbor(q, c),
     CornerNeighbor(q, c),
     IF c = ChildId(q) /\ q.level > 0 THEN CornerNeighbor(Parent(q), c) ELSE NoQuad >>

CornerFails(known, t, q, c) ==
  LET n      == CornerSizes(q, c)
      shared == CornerFaces(ChildId(q)) \intersect CornerFaces(c)
      hangs  == Cardinality(shared) = 1 /\ \E f \in shared : BiggerFace(known, t, q, f)
      \* which sizes exist in the i-th tree at the corner, in the only place else
      at(i)    == { s \in 1 .. 3 : n[s] # NoQuad /\ AtCorner(t, c, n[s])[i] \in known }
      trees    == DOMAIN AtCorner(t, c, n[2])
      sizes    == IF OutsideCorner(n[2]) THEN UNION { at(i) : i \in trees }
                  ELSE { s \in 1 .. 3 : ExistsAt(known, t, n[s]) }
  IN  /\ ~ OnCornerBoundary(t, c, q)
      /\ IF hangs THEN sizes # {}
         ELSE IF OutsideCorner(n[2]) THEN sizes = {} \/ \E i \in trees : Cardinality(at(i)) # 1
         ELSE Cardinality(sizes) # 1

Balance(p) ==
  /\ pc[p] = "balance"
  /\ LET Fails(i, known) ==
           LET t == Leaf(i).tree
               q == Leaf(i).quad
           IN  \/ \E f \in Faces : FaceFails(known, t, q, f)
               \/ input.btype = "full" /\ \E c \in Corners : CornerFails(known, t, q, c)
     IN  failed' = [failed EXCEPT ![p] =
           \E known \in { Known(p) } : \E i \in ToSet(Mine(p)) : Fails(i, known)]
  /\ Go(p, "vote")
  /\ UNCHANGED << input, around, send_bufs, mirrors, net, ghosts, ghost_data, result >>

Vote ==
  /\ \A p \in Procs : pc[p] = "vote"
  /\ pc' = [p \in Procs |-> "done"]
  /\ result' = [p \in Procs |-> \A r \in Procs : ~ failed[r]]
  /\ UNCHANGED << input, around, failed, send_bufs, mirrors, net, ghosts, ghost_data >>

(***************************************************************************)
(* p4est_ghost_exchange_custom_levels; p4est_ghost_exchange_custom and     *)
(* _data are the case of all levels                                        *)
(***************************************************************************)
Matches(i)  == input.minlevel <= Leaf(i).quad.level /\ Leaf(i).quad.level <= input.maxlevel
From(p, r)  == [k \in 1 .. ghosts[p].offset[r + 1] - ghosts[p].offset[r] |-> ghosts[p].offset[r] + k]
Slots(p, r) == SelectSeq(From(p, r), LAMBDA k : Matches(ghosts[p].quads[k]))
Sent(p, r)  == SelectSeq([k \in DOMAIN mirrors[p].to[r] |-> mirrors[p].quads[mirrors[p].to[r][k]]], Matches)

\* the data of a quadrant is its number
ExchangeBegin(p) ==
  /\ pc[p] = "exchange"
  /\ net' = net \union { Msg(p, r, "data", Sent(p, r)) : r \in { s \in Procs : Sent(p, s) # << >> } }
  /\ Go(p, "wait")
  /\ UNCHANGED << input, around, failed, send_bufs, mirrors, ghosts, ghost_data, result >>

\* sc_MPI_Waitsome: the messages that were asked for, in any order.  Those of
\* the quadrants that match lie one after the other in the message.
Receive(p, r) ==
  /\ pc[p] = "wait" /\ Slots(p, r) # << >> /\ Arrived(p, r, "data") # {}
  /\ LET body == Body(p, r, "data")
     IN  ghost_data' = [ghost_data EXCEPT ![p] =
           [k \in DOMAIN @ |-> IF k \in ToSet(Slots(p, r)) THEN body[Cardinality({ j \in ToSet(Slots(p, r)) : j <= k })] ELSE @[k]]]
  /\ net' = net \ Arrived(p, r, "data")
  /\ UNCHANGED << input, around, failed, pc, send_bufs, mirrors, ghosts, result >>

\* all that was asked for has been received
ExchangeEnd(p) ==
  /\ pc[p] = "wait"
  /\ \A r \in Procs : Slots(p, r) # << >> => \E k \in ToSet(Slots(p, r)) : ghost_data[p][k] # 0
  /\ Go(p, "done")
  /\ UNCHANGED << input, around, failed, send_bufs, mirrors, net, ghosts, ghost_data, result >>

Init ==
  /\ input \in Inputs
  /\ around = [i \in Numbers |-> Search(i)]
  /\ failed = [p \in Procs |-> FALSE]
  /\ pc = [p \in Procs |-> "collect"]
  /\ send_bufs = [p \in Procs |-> << >>]
  /\ mirrors = [p \in Procs |-> << >>]
  /\ net = {}
  /\ ghosts = [p \in Procs |-> << >>]
  /\ ghost_data = [p \in Procs |-> << >>]
  /\ result = [p \in Procs |-> TRUE]

Next ==
  \/ Sync \/ Vote
  \/ \E p \in Procs : Collect(p) \/ WaitCounts(p) \/ WaitLoads(p)
                      \/ Balance(p) \/ ExchangeBegin(p) \/ ExchangeEnd(p)
                      \/ \E r \in Procs : Receive(p, r)

Spec == Init /\ [][Next]_vars
FairSpec == Spec /\ WF_vars(Next)

(***************************************************************************)
(* What a ghost layer is                                                   *)
(***************************************************************************)
\* each point is named as it is seen from the lowest tree that has it
ContactPoints(i) == { Canonicalize(F.conn, Leaf(i).tree, c) : c \in Points(Leaf(i).quad, input.btype = "full") }
TouchTable == LET points == Eager([i \in Numbers |-> ContactPoints(i)])
              IN  { e \in Numbers \X Numbers : points[e[1]] \intersect points[e[2]] # {} }

\* The ghost layer of a process is the quadrants of others that touch one of
\* its own, in the order of their owners, where they begin, and each has the
\* data of its mirror when its level is exchanged.
LayerExact(p, touch) ==
  LET theirs == { i \in Numbers : Owner(i) # p /\ \E j \in ToSet(Mine(p)) : << j, i >> \in touch }
  IN  /\ ghosts[p].quads = SelectSeq([i \in Numbers |-> i], LAMBDA i : i \in theirs)
      /\ \A r \in Procs : \A k \in ToSet(From(p, r)) : Owner(ghosts[p].quads[k]) = r
      /\ ~ input.balance => \A k \in DOMAIN ghosts[p].quads :
           ghost_data[p][k] = IF Matches(ghosts[p].quads[k]) THEN ghosts[p].quads[k] ELSE 0

\* A forest is balanced when the levels of quadrants that touch differ by one
\* at most.
Balanced(touch) ==
  \A e \in touch : Leaf(e[1]).quad.level <= Leaf(e[2]).quad.level + 1

\* "Returns true iff this quadrant's 3x3 neighborhood is owned by this processor"
\* (p4est_communication.h): no quadrant of another process touches one that is
\* left out of the search.
OwnedIsAlone ==
  LET touch == TouchTable
  IN  \A i \in Numbers :
        NeighborhoodOwned(F, Owner(i), Leaf(i).tree, Leaf(i).quad) =>
          \A e \in touch : e[1] = i => Owner(e[2]) = Owner(i)

AllDone == \A p \in Procs : pc[p] = "done"
\* When every process is through, nothing is left in the net, the ghost layers
\* are exact and the answer of is_balanced is right and everywhere the same.
GhostRight ==
  AllDone => LET touch == TouchTable
             IN  /\ net = {}
                 /\ input.balance => \A p \in Procs : result[p] = Balanced(touch)
                 /\ \A p \in Procs : ghosts[p] # << >> => LayerExact(p, touch)

\* Every call ends: everybody that a process waits for sends to it.
GhostEnds == <>AllDone
==============================================================================
