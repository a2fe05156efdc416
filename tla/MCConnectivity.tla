---------------------------- MODULE MCConnectivity ----------------------------
(* Instances of ConnectivityUse for TLC. *)
EXTENDS ConnectivityUse

\* the vertices of the drop do not fit its tables, see MCConnectivity_drop
DropTables == Built(Drop.conn, NoVertices)

Start(b, k) == [ conn |-> b.conn, ttv |-> b.ttv, joins |-> k ]

\* bound: everything that is built, and up to two joins on what has few open
\* faces; bricks of up to 3 x 2 trees
MCStarts ==
  { Start(b, 0) : b \in { Periodic, Rotwrap, DropTables, Pillow, Moebius, Star, Cubed, Icosahedron,
                          Bowtie, DiskNonperiodic } } \union
  { Start(Disk(p[1], p[2]), 0) : p \in (BOOLEAN \X BOOLEAN) \ { << FALSE, FALSE >> } } \union
  { Start(Brick(s[1], s[2], a, b), 0) :
      s \in { << 1, 1 >>, << 2, 1 >>, << 1, 3 >>, << 2, 2 >>, << 3, 2 >> },
      a \in BOOLEAN, b \in BOOLEAN } \union
  { Start(Twotrees(l, r, o), 1) : l \in Faces, r \in Faces, o \in 0 .. 1 } \union
  { Start(Built(Isolated(1), NoVertices), 2), Start(Built(Isolated(2), NoVertices), 2),
    Start(Corner, 2) }

DropStarts == { Start(Drop, 0) }
==============================================================================
