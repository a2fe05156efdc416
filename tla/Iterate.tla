-------------------------------- MODULE Iterate --------------------------------
(***************************************************************************)
(* The iterator of src/p4est_iterate.c in two dimensions: one process      *)
(* visits the quadrants of its part of the forest, the faces between       *)
(* quadrants and the corners where they meet.                              *)
(*                                                                         *)
(* The search descends in all trees that meet at a face or a corner at     *)
(* once.  Its nested loops over levels and branches are a stack of the     *)
(* search areas still to be visited; an area without a local quadrant,     *)
(* which the code passes over, is not put there.  A quadrant is its number *)
(* in the forest; an array of quadrants has the number of its tree, that   *)
(* of the ghosts -1.                                                       *)
(***************************************************************************)
EXTENDS Neighbors

CONSTANT Inputs    \* [forest, rank, ghosts, fns, remote]: the ghost layer, none
                   \* being << >>, and which callbacks are not NULL

VARIABLES input,
          pc,           \* "start", "run", "done"
          quads,        \* the local quadrants of each tree, and the ghosts
          todo,         \* the search areas to be visited, the first one next
          tier_rings,   \* per level the splits that are remembered: << key, tier >>
          called        \* the callbacks made

vars == << input, pc, quads, todo, tier_rings, called >>

F       == input.forest
Leaf(i) == F.leaves[i]
Quad4(i) == Leaf(i).quad
Ghosts  == -1
Types   == << "local", "ghost" >>
Wants(fn) == fn \in input.fns

(***************************************************************************)
(* Search areas: of tree t, win[type] bounds a part of an array            *)
(***************************************************************************)
Array(a, type)     == IF type = "local" THEN a.tree ELSE Ghosts
Window(seq, t)     == LET below == Cardinality({ k \in DOMAIN seq : Leaf(seq[k]).tree < t })
                      IN  << below, below + Cardinality({ k \in DOMAIN seq : Leaf(seq[k]).tree = t }) >>
TreeArea(t) ==
  [ tree |-> t, win |-> [type \in ToSet(Types) |->
      IF type = "local" THEN << 0, Len(quads[t]) >> ELSE Window(quads[Ghosts], t)] ]

Count(a, type)  == a.win[type][2] - a.win[type][1]
HasLocal(areas) == \E s \in DOMAIN areas : Count(areas[s], "local") > 0
At(a, type, k)  == quads[Array(a, type)][k]
Test(a, type)   == At(a, type, a.win[type][1] + 1)
\* the area is one quadrant
Fills(a, type, level) == Count(a, type) > 0 /\ Quad4(Test(a, type)).level = level
Full(a, level) == \E type \in ToSet(Types) : Fills(a, type, level)
Empty(a)       == \A type \in ToSet(Types) : Count(a, type) = 0

\* p4est_split_array and p4est_iter_tier_update: where the children of an area begin
TierUpdate(a, type, level) ==
  [c \in 0 .. 4 |-> a.win[type][1] + Cardinality({ k \in a.win[type][1] + 1 .. a.win[type][2] :
     AncestorId(Quad4(At(a, type, k)), level + 1) < c })]

\* p4est_iter_tier_insert: a split is known by its level and its first
\* quadrant.  A full ring forgets the oldest one.
TierInsert(s, a, type, level) ==
  LET key   == << Array(a, type), a.win[type][1] >>
      ring  == s.rings[level]
      known == { e \in ToSet(ring) : e[1] = key }
      limit == IF NumProcs = 1 THEN 4 ELSE 8
  IN  IF Count(a, type) = 0
      THEN [s EXCEPT !.tiers = Append(@, [c \in 0 .. 4 |-> a.win[type][1]])]
      ELSE IF known # {} THEN [s EXCEPT !.tiers = Append(@, (CHOOSE e \in known : TRUE)[2])]
      ELSE LET tier == TierUpdate(a, type, level)
           IN  [ rings |-> [s.rings EXCEPT ![level] =
                   Append(IF Len(ring) = limit THEN Tail(ring) ELSE ring, << key, tier >>)],
                 tiers |-> Append(s.tiers, tier) ]

\* the tiers of areas one after the other, first the local, then the ghost one
Split(areas, level) ==
  FoldLeft(LAMBDA s, k : TierInsert(s, areas[(k + 1) \div 2], Types[1 + ((k + 1) % 2)], level),
           [ rings |-> tier_rings, tiers |-> << >> ], [k \in 1 .. 2 * Len(areas) |-> k])
ChildArea(a, tiers, s, c) ==
  [a EXCEPT !.win = [type \in ToSet(Types) |->
     LET tier == tiers[2 * s - IF type = "local" THEN 1 ELSE 0] IN << tier[c], tier[c + 1] >>]]

VolumeItem(level, a)   == [ fn |-> "volume", level |-> level, areas |-> << a >> ]
\* face[s] is where the face is on side s, child[s] the children at it in the
\* order of the first side, tree_boundary the face between two trees
FaceItem(level, areas, face, child) ==
  [ fn |-> "face", level |-> level, areas |-> areas, face |-> face, child |-> child ]
\* faces[s]: equal entries are a common face of two sides
CornerItem(level, areas, corner, faces) ==
  [ fn |-> "corner", level |-> level, areas |-> areas, corner |-> corner, faces |-> faces ]

Item == Head(todo)
Push(items) == todo' = SelectSeq(items, LAMBDA it : HasLocal(it.areas)) \o Tail(todo)
Ask(call)   == called' = Append(called, call)

(***************************************************************************)
(* p4est_volume_iterate                                                    *)
(***************************************************************************)
\* p4est_iter_init_face_from_volume and p4est_iter_init_corner_from_volume
FacesFromVolume(level, kid) ==
  [k \in 1 .. 4 |->
     LET dir == (k - 1) \div 2
         pos == (k - 1) % 2
     IN  FaceItem(level, << kid[FaceCorner(2 * dir, pos)], kid[FaceCorner(2 * dir + 1, pos)] >>,
                  << 2 * dir + 1, 2 * dir >>,
                  [s \in 1 .. 2 |-> [j \in 0 .. 1 |-> FaceCorner(2 * dir + 2 - s, j)]])]
CornerFromVolume(level, kid) ==
  CornerItem(level, [s \in 1 .. 4 |-> kid[s - 1]], [s \in 1 .. 4 |-> 4 - s],
             [s \in 1 .. 4 |-> [a \in Axes |-> IF a = 0 THEN (s - 1) \div 2 ELSE 2 + ((s - 1) % 2)]])

VolumeStep ==
  /\ pc = "run" /\ todo # << >> /\ Item.fn = "volume"
  /\ LET a == Item.areas[1]
     IN  IF Full(a, Item.level)
         THEN /\ IF Wants("volume") /\ Fills(a, "local", Item.level)
                 THEN Ask([ fn |-> "volume", quad |-> Test(a, "local") ])
                 ELSE UNCHANGED called
              /\ todo' = Tail(todo)
              /\ UNCHANGED tier_rings
         ELSE \E s \in { Split(<< a >>, Item.level) } :
              LET kid  == [c \in 0 .. 3 |-> ChildArea(a, s.tiers, 1, c)]
                  next == Item.level + 1
              IN  /\ Push([c \in 1 .. 4 |-> VolumeItem(next, kid[c - 1])]
                            \o FacesFromVolume(next, kid)
                            \o IF Wants("corner") THEN << CornerFromVolume(next, kid) >> ELSE << >>)
                  /\ tier_rings' = s.rings
                  /\ UNCHANGED called
  /\ UNCHANGED << input, pc, quads >>

(***************************************************************************)
(* p4est_face_iterate                                                      *)
(***************************************************************************)
\* p4est_iter_init_corner_from_face: the corner between the two halves of a face
CornerFromFace(level, kid, face, child) ==
  LET limit == Len(kid)
      side(s) == 1 + ((s - 1) % limit)
      half(s) == (s - 1) \div limit
  IN  CornerItem(level,
        [s \in 1 .. 2 * limit |-> kid[side(s)][child[side(s)][half(s)]]],
        [s \in 1 .. 2 * limit |-> child[side(s)][1 - half(s)]],
        [s \in 1 .. 2 * limit |-> [a \in Axes |->
           IF a = face[side(s)] \div 2 THEN half(s) ELSE 1 + side(s)]])

None4 == 0       \* quad = NULL
\* the only quadrant of an area, which must be local if it can
Only(a) == IF Count(a, "local") > 0 THEN Test(a, "local")
           ELSE IF Count(a, "ghost") > 0 THEN Test(a, "ghost") ELSE None4
IsLocal(i) == i # None4 /\ F.first[input.rank] < i /\ i <= F.first[input.rank + 1]

\* one side of a face: [tree, face, is_hanging, quads], the hanging ones in z-order
FaceSide(a, face, child, level, kid) ==
  IF Full(a, level) \/ Empty(a)
  THEN [ tree |-> a.tree, face |-> face, is_hanging |-> FALSE,
         quads |-> << IF Full(a, level) THEN Only(a) ELSE None4 >> ]
  ELSE [ tree |-> a.tree, face |-> face, is_hanging |-> TRUE,
         quads |-> [k \in 1 .. 2 |->
           Only(kid[CHOOSE c \in { child[j] : j \in 0 .. 1 } : FaceIndex(c, face) = k - 1])] ]

FaceStep ==
  /\ pc = "run" /\ todo # << >> /\ Item.fn = "face"
  /\ LET areas == Item.areas
         stop  == \E s \in DOMAIN areas : Full(areas[s], Item.level)
         refine == { s \in DOMAIN areas : ~ stop \/ ~ (Full(areas[s], Item.level) \/ Empty(areas[s])) }
         order == SelectSeq([s \in DOMAIN areas |-> s], LAMBDA s : s \in refine)
         place == [s \in refine |-> CHOOSE k \in DOMAIN order : order[k] = s]
     IN  IF stop /\ ~ Wants("face")
         THEN todo' = Tail(todo) /\ UNCHANGED << tier_rings, called >>
         ELSE \E t \in { Split([k \in DOMAIN order |-> areas[order[k]]], Item.level) } :
              LET kid   == [s \in DOMAIN areas |-> [c \in 0 .. 3 |->
                              IF s \in refine THEN ChildArea(areas[s], t.tiers, place[s], c)
                              ELSE areas[s]]]
                  sides == [s \in DOMAIN areas |->
                              FaceSide(areas[s], Item.face[s], Item.child[s], Item.level, kid[s])]
                  next  == Item.level + 1
                  half(j) == FaceItem(next, [s \in DOMAIN areas |-> kid[s][Item.child[s][j]]],
                                      Item.face, Item.child)
              IN  /\ tier_rings' = t.rings
                  /\ IF stop
                     THEN /\ todo' = Tail(todo)
                          /\ IF \E s \in DOMAIN sides : \E k \in DOMAIN sides[s].quads :
                                   IsLocal(sides[s].quads[k])
                             THEN Ask([ fn |-> "face", sides |-> sides ])
                             ELSE UNCHANGED called
                     ELSE /\ Push(<< half(0), half(1) >>
                                  \o IF Wants("corner")
                                     THEN << CornerFromFace(next, kid, Item.face, Item.child) >>
                                     ELSE << >>)
                          /\ UNCHANGED called
  /\ UNCHANGED << input, pc, quads >>

(***************************************************************************)
(* p4est_corner_iterate                                                    *)
(***************************************************************************)
\* the quadrant of an area that contains the smallest quadrant in corner c: the
\* first or the last one, or found by a binary search
InCorner(a, type, level, c) ==
  LET members == a.win[type][1] + 1 .. a.win[type][2]
      test    == IF c = 3 THEN a.win[type][2] ELSE a.win[type][1] + 1
      tried   == IF Count(a, type) = 1 \/ c \in { 0, 3 } THEN {test} ELSE members
      q       == Quad4(At(a, type, test))
      temp    == CornerDescendant(Quad([x \in Axes |->
                    q.c[x] - (q.c[x] % QuadrantLen(level))], level), c)
      found   == { k \in tried : Key(0, Quad4(At(a, type, k)).c) <= Key(0, temp.c)
                                 /\ Key(0, temp.c) <= Key(0, UpperRight(Quad4(At(a, type, k))).c) }
  IN  IF Count(a, type) = 0 \/ found = {} THEN None4 ELSE At(a, type, CHOOSE k \in found : TRUE)
CornerQuad(a, level, c) ==
  IF InCorner(a, "local", level, c) # None4 THEN InCorner(a, "local", level, c)
  ELSE InCorner(a, "ghost", level, c)

\* a sibling of i in corner c, or the rest of it, belongs to the process
Sibling(q, c) ==
  Quad([a \in Axes |-> q.c[a] - (q.c[a] % QuadrantLen(q.level - 1))
                              + Side(c, a) * QuadrantLen(q.level)], q.level)
EndsHere(t, q) ==
  LET last == Key(t, UpperRight(q).c)
  IN  F.position[input.rank] <= last /\ last < F.position[input.rank + 1]

\* a corner of a hanging face: on one side a coarse quadrant, on the other a
\* fine one, whose sibling at the face is local
RemotelyTouched(quad, corner, faces) ==
  LET sides == { s \in DOMAIN quad : quad[s] # None4 }
      lmax  == Max({0} \union { Quad4(quad[s]).level : s \in sides })
  IN  \E s \in sides, u \in sides, dir \in Axes, to \in Axes :
        /\ s # u /\ Quad4(quad[s]).level # lmax
        /\ faces[u][to] = faces[s][dir]
        /\ Quad4(quad[u]).level >= Quad4(quad[s]).level + 1
        /\ LET nf == IF to = 0 THEN corner[u] % 2 ELSE 2 + corner[u] \div 2
           IN  \E i \in 0 .. 1 :
                 /\ FaceCorner(nf, i) # corner[u]
                 /\ EndsHere(Leaf(quad[u]).tree, Sibling(Quad4(quad[u]), FaceCorner(nf, i)))

CornerStep ==
  /\ pc = "run" /\ todo # << >> /\ Item.fn = "corner"
  /\ \E quad \in { [s \in DOMAIN Item.areas |-> CornerQuad(Item.areas[s], Item.level, Item.corner[s])] } :
       IF \/ \E s \in DOMAIN quad : IsLocal(quad[s])
          \/ input.remote /\ RemotelyTouched(quad, Item.corner, Item.faces)
       THEN Ask([ fn |-> "corner", faces |-> Item.faces, sides |-> [s \in DOMAIN quad |->
                    [ tree |-> Item.areas[s].tree, corner |-> Item.corner[s], quad |-> quad[s] ]] ])
       ELSE UNCHANGED called
  /\ todo' = Tail(todo)
  /\ UNCHANGED << input, pc, quads, tier_rings >>

(***************************************************************************)
(* Between trees                                                           *)
(***************************************************************************)
\* << tree, face >> and << tree, corner >>, the lower one first
Below(x, y) == x[1] < y[1] \/ (x[1] = y[1] /\ x[2] < y[2])

\* p4est_iter_init_face: the lower side comes first
InitFace(t, f) ==
  LET other == << F.conn.tree[t][f], NeighborFace(F.conn, t, f) >>
      x     == IF Below(other, << t, f >>) THEN other ELSE << t, f >>
      y     == IF Below(other, << t, f >>) THEN << t, f >> ELSE other
      sides == IF x = y THEN << x >> ELSE << x, y >>
  IN  FaceItem(0, [s \in DOMAIN sides |-> TreeArea(sides[s][1])],
               [s \in DOMAIN sides |-> sides[s][2]],
               [s \in DOMAIN sides |-> [i \in 0 .. 1 |->
                  FaceCorner(sides[s][2], IF s = 1 THEN i
                                          ELSE (i + Orientation(F.conn, x[1], x[2])) % 2)]])

\* the trees that meet at a corner
CornerGroup(t, c) ==
  IF F.conn.corner[t][c] # 0 THEN ToSet(F.conn.touch[F.conn.corner[t][c]])
  ELSE { << t, c >> } \union FaceTouch(F.conn, t, c)

\* p4est_iter_init_corner: a face has the number of the first side and axis
\* that has it
InitCorner(t, c) ==
  LET sides == InOrder(F.conn, CornerGroup(t, c))
      nface(s, a) == IF a = 0 THEN sides[s][2] % 2 ELSE 2 + sides[s][2] \div 2
      same(s, a) ==
        { << s, a >> } \union
        { x \in (DOMAIN sides \ {s}) \X Axes :
            LET f == nface(x[1], x[2])
            IN  /\ ~ IsBoundary(F.conn, sides[x[1]][1], f)
                /\ AcrossFace(F.conn, sides[x[1]][1], sides[x[1]][2], f) = sides[s]
                /\ NeighborFace(F.conn, sides[x[1]][1], f) = nface(s, a) }
  IN  CornerItem(0, [s \in DOMAIN sides |-> TreeArea(sides[s][1])],
                 [s \in DOMAIN sides |-> sides[s][2]],
                 [s \in DOMAIN sides |-> [a \in Axes |-> Min({ 2 * x[1] + x[2] : x \in same(s, a) })]])

FirstTree == Leaf(F.first[input.rank] + 1).tree
LastTree  == Leaf(F.first[input.rank + 1]).tree

\* p4est_find_range_boundaries for a local tree; the iterator with remote takes
\* the whole of it
Touched(t) ==
  LET at == F.position
      uq == at[input.rank + 1] - 4 ^ (MAXLEVEL - QMAXLEVEL)
      cut == at[input.rank + 1] \div 4 ^ MAXLEVEL = LastTree
  IN  FindRangeBoundaries(
        IF ~ input.remote /\ t = FirstTree THEN PlaceQuad(at[input.rank]) ELSE None,
        IF ~ input.remote /\ t = LastTree /\ cut THEN PlaceQuad(uq) ELSE None, 0)

\* all that is at face or corner number b of tree t
Group(t, b) ==
  IF b < 4 THEN { << t, b >>, << F.conn.tree[t][b], NeighborFace(F.conn, t, b) >> }
  ELSE { << x[1], 4 + x[2] >> : x \in CornerGroup(t, b - 4) }

\* mutant: a face or corner belongs to the lowest tree at it
Owned_Lowest ==
  LET touched == { x \in (FirstTree .. LastTree) \X AllBoundaries : x[2] \in Touched(x[1]) }
  IN  { CHOOSE y \in Group(x[1], x[2]) : \A z \in Group(x[1], x[2]) : y = z \/ Below(y, z) :
          x \in touched }

\* p4est_iter_get_boundaries: what is touched belongs to the last one that is
\* there, whose turn comes after all the others'
Owned ==
  LET touched == { x \in (FirstTree .. LastTree) \X AllBoundaries : x[2] \in Touched(x[1]) }
  IN  { CHOOSE y \in Group(x[1], x[2]) : \A z \in Group(x[1], x[2]) : y = z \/ Below(z, y) :
          x \in touched }

\* the turn of tree t in p4est_iterate_ext
Turn(t, owned) ==
  LET mine == SelectSeq([k \in 1 .. 8 |-> k - 1], LAMBDA b : << t, b >> \in owned)
      volume == IF t <= LastTree THEN << VolumeItem(0, TreeArea(t)) >> ELSE << >>
      wanted == SelectSeq(mine, LAMBDA b : b < 4 \/ Wants("corner"))
  IN  volume \o [k \in DOMAIN wanted |-> IF wanted[k] < 4 THEN InitFace(t, wanted[k])
                                         ELSE InitCorner(t, wanted[k] - 4)]

(***************************************************************************)
(* p4est_iterate_ext                                                       *)
(***************************************************************************)
Mine == Local(F, input.rank)

\* p4est_volume_iterate_simple, or nothing at all
Simple ==
  /\ pc = "start" /\ (input.fns \subseteq { "volume" } \/ Mine = << >>)
  /\ called' = IF Wants("volume") THEN [k \in DOMAIN Mine |-> [ fn |-> "volume", quad |-> Mine[k] ]]
               ELSE << >>
  /\ pc' = "done"
  /\ UNCHANGED << input, quads, todo, tier_rings >>

Start ==
  /\ pc = "start" /\ ~ (input.fns \subseteq { "volume" } \/ Mine = << >>)
  /\ \E owned \in { Owned } :
       LET last_run_tree == Max({LastTree} \union { x[1] : x \in owned })
           turns == FlattenSeq([k \in 1 .. last_run_tree - FirstTree + 1 |->
                                  Turn(FirstTree + k - 1, owned)])
       IN  todo' = SelectSeq(turns, LAMBDA it : HasLocal(it.areas))
  /\ tier_rings' = [l \in 0 .. QMAXLEVEL - 1 |-> << >>]
  /\ pc' = "run"
  /\ UNCHANGED << input, quads, called >>

Return ==
  /\ pc = "run" /\ todo = << >>
  /\ pc' = "done"
  /\ UNCHANGED << input, quads, todo, tier_rings, called >>

Init ==
  /\ input \in Inputs
  /\ pc = "start"
  /\ quads = [t \in Trees(F.conn) \union {Ghosts} |->
               IF t = Ghosts THEN input.ghosts
               ELSE SelectSeq(Mine, LAMBDA i : Leaf(i).tree = t)]
  /\ todo = << >>
  /\ tier_rings = << >>
  /\ called = << >>

Next == Simple \/ Start \/ VolumeStep \/ FaceStep \/ CornerStep \/ Return

Spec == Init /\ [][Next]_vars

(***************************************************************************)
(* What the callbacks are to see: everything is taken among the quadrants  *)
(* that the process knows, which are its own ones and the ghosts           *)
(***************************************************************************)
Known == ToSet(Mine) \union ToSet(input.ghosts)
NFace(c, a) == IF a = 0 THEN c % 2 ELSE 2 + c \div 2
Seen(i, c)  == Canonicalize(F.conn, Leaf(i).tree, c)
CornerOf(i, c) == Seen(i, [a \in Axes |-> Quad4(i).c[a] + Side(c, a) * QuadrantLen(Quad4(i).level)])

\* mids[x]: the middles of the smallest faces in face x of a quadrant
MidTable == Eager([x \in Known \X Faces |-> { Seen(x[1], p) : p \in Mids(OnFace(Quad4(x[1]), x[2])) }])
\* sharing[x]: the faces of quadrants that have a part of x, x being one of them
SharingTable(mids) ==
  LET at == Eager([p \in UNION { mids[x] : x \in DOMAIN mids } |->
                     { x \in DOMAIN mids : p \in mids[x] }])
  IN  Eager([x \in DOMAIN mids |-> UNION { at[p] : p \in mids[x] }])
\* the faces of quadrants that make one face of the forest, with the largest of them
Interfaces(mids, sharing) ==
  { [ face |-> sharing[x], largest |-> x ] : x \in { z \in DOMAIN mids :
      \A y \in sharing[z] : Cardinality(mids[y]) <= Cardinality(mids[z]) } }

\* at[y]: corner y of a quadrant; hanging: the other corners of smallest
\* quadrants around a quadrant
CornerTables(sharing, interfaces) ==
  LET at == Eager([y \in Known \X Corners |-> CornerOf(y[1], y[2])])
  IN  [ at |-> at, sharing |-> sharing, interfaces |-> interfaces,
        hanging |-> UNION { { Seen(i, p) : p \in Grid(Frame(Quad4(i))) }
                              \ { at[<< i, c >>] : c \in Corners } : i \in Known } ]
LocalInterfaces(tab) == { n \in tab.interfaces : \E x \in n.face : IsLocal(x[1]) }

Calls(fn) == SelectSeq(called, LAMBDA c : c.fn = fn)
FaceSides(call) ==
  UNION { { << q, call.sides[s].face >> : q \in ToSet(call.sides[s].quads) \ {None4} } :
          s \in DOMAIN call.sides }
CornerSides(call) ==
  { << call.sides[s].quad, call.sides[s].corner >> : s \in { u \in DOMAIN call.sides :
      call.sides[u].quad # None4 } }
Exactly(calls, wanted, Value(_)) ==
  /\ { Value(calls[k]) : k \in DOMAIN calls } = wanted
  /\ Len(calls) = Cardinality(wanted)

\* every quadrant is shown once, in order
VolumesRight ==
  [k \in DOMAIN Calls("volume") |-> Calls("volume")[k].quad] = IF Wants("volume") THEN Mine ELSE << >>

\* "If the face is hanging, then the quadrants are listed in z-order"; "If a
\* quadrant should be present, but it is not included in the ghost layer, then
\* quad = NULL"; one side at the outside of the forest
FaceShape(side) ==
  \A k \in DOMAIN side.quads :
    LET q == Quad4(side.quads[k])
    IN  IF side.quads[k] = None4 THEN input.ghosts = << >>
        ELSE /\ Leaf(side.quads[k]).tree = side.tree
             /\ side.is_hanging => Bit(q.c[1 - side.face \div 2], q.level) = k - 1
Outermost(x) == LET n == FaceNeighbor(Quad4(x[1]), x[2])
                IN  ~ InsideRoot(n) /\ IsBoundary(F.conn, Leaf(x[1]).tree, x[2])
FacesRight(tab) ==
  /\ Exactly(Calls("face"), IF ~ Wants("face") THEN {} ELSE { n.face : n \in LocalInterfaces(tab) },
          FaceSides)
  /\ \A call \in ToSet(Calls("face")) :
       /\ \A s \in DOMAIN call.sides : FaceShape(call.sides[s])
       /\ Len(call.sides) = 1 <=> \E x \in FaceSides(call) : Outermost(x)

\* a corner is visited where no face hangs, if a local quadrant is there; with
\* remote also at both ends of the faces of local quadrants
CornersRight(tab) ==
  LET places == ({ tab.at[y] : y \in { z \in DOMAIN tab.at : IsLocal(z[1]) } }
                  \union IF ~ input.remote THEN {}
                         ELSE UNION { { tab.at[<< n.largest[1], FaceCorner(n.largest[2], i) >>] :
                                        i \in 0 .. 1 } : n \in LocalInterfaces(tab) }) \ tab.hanging
      common(s, u) == { x \in Axes \X Axes : << s.quad, NFace(s.corner, x[1]) >>
                          \in tab.sharing[<< u.quad, NFace(u.corner, x[2]) >>] }
      Shape(call) ==
        \A s \in DOMAIN call.sides :
          IF call.sides[s].quad = None4
          THEN input.ghosts = << >> \/ \A u \in DOMAIN call.sides : ~ IsLocal(call.sides[u].quad)
          ELSE /\ Leaf(call.sides[s].quad).tree = call.sides[s].tree
               /\ \A u \in DOMAIN call.sides : s # u /\ call.sides[u].quad # None4 =>
                    common(call.sides[s], call.sides[u])
                      = { x \in Axes \X Axes : call.faces[s][x[1]] = call.faces[u][x[2]] }
  IN  /\ Exactly(Calls("corner"),
              IF ~ Wants("corner") THEN {}
              ELSE { { y \in DOMAIN tab.at : tab.at[y] = p } : p \in places }, CornerSides)
      /\ \A call \in ToSet(Calls("corner")) : Shape(call)

\* faces come after their quadrants and corners after their faces
InOrderCalled ==
  \A m \in DOMAIN called, n \in DOMAIN called :
    m < n =>
      /\ called[m].fn = "face" /\ called[n].fn = "volume" =>
           \A x \in FaceSides(called[m]) : x[1] # called[n].quad
      /\ called[m].fn = "corner" /\ called[n].fn = "face" =>
           \A x \in FaceSides(called[n]), i \in 0 .. 1 :
             << x[1], FaceCorner(x[2], i) >> \notin CornerSides(called[m])

\* The iterator shows every quadrant, every face and every corner of the local part
\* once, with all that is known around it, in the order that is promised.
IterationRight ==
  pc = "done" =>
    /\ VolumesRight
    /\ \E mids \in { MidTable } : \E sharing \in { SharingTable(mids) } :
         \E tab \in { CornerTables(sharing, Interfaces(mids, sharing)) } :
           FacesRight(tab) /\ CornersRight(tab)
    /\ InOrderCalled
==============================================================================
