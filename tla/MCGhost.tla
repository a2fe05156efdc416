------------------------------- MODULE MCGhost -------------------------------
(* Instances of Ghost for TLC. *)
EXTENDS Ghost, MCForests

CONSTANTS Forests   \* "sound", "reversed" or "bowtie": which forests there are

Several(conn, paths, btypes, balance) ==
  { [ forest |-> Forest(conn, Leaves(conn, paths), cut), btype |-> b, balance |-> balance,
      minlevel |-> 1, maxlevel |-> 2 ] : cut \in Cuts(Len(Leaves(conn, paths))), b \in btypes }

Both       == { "face", "full" }

\* bound: up to 10 quadrants on three processes, three levels below a tree.  A
\* forest that is not balanced is asked for its balance only where trees are
\* joined without a flip, see the forests "reversed".
Layers ==
  UNION { Several(Pair(3, 1), << Deep(3, 1), Root >>, {"full"}, FALSE),
          Several(Pair(0, 1), << Deep(1, 1), Root >>, {"face"}, FALSE),
          Several(Built!Periodic.conn, << Deep(0, 1) >>, {"full"}, FALSE),
          Several(Built!Star.conn, Only(6, 1, Once), {"full"}, FALSE),
          Several(Built!Brick(2, 2, FALSE, TRUE).conn, Only(4, 4, Twice(0)), {"full"}, FALSE) }
Balances ==
  UNION { Several(Pair(0, 0), << Twice(1), Root >>, Both, TRUE),
          Several(Pair(0, 0), << Deep(0, 3) >> \o << Root >>, {"full"}, TRUE),
          Several(Pair(3, 1), << Twice(1), Once >>, {"full"}, TRUE),
          Several(Built!Corner.conn, Only(3, 2, Once), {"full"}, TRUE),
          Several(Built!Star.conn, Only(6, 1, Once), {"full"}, TRUE) }

MCInputs ==
  CASE Forests = "sound" ->
         { x \in Layers \union Balances : \A p \in Procs : ~ Smallest(x.forest, p) }
    [] Forests = "reversed" -> Several(Pair(1, 1), << Twice(1), Root >>, {"face"}, TRUE)
    [] Forests = "bowtie"   -> Several(Built!Bowtie.conn, << Once, Once >>, {"full"}, FALSE)
==============================================================================
