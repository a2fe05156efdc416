---------------------------- MODULE MCP3Partition -----------------------------
(* Instances of P3Partition for TLC. *)
EXTENDS P3Partition

CONSTANTS Requests   \* "sound" or "weighted_families"

OnTree(t, s) == [i \in 1 .. Len(s) |-> [ tree |-> t, quad |-> s[i] ]]
Family(q)    == Children(q)
Single       == << Root >>
Once         == Family(Root)
TwiceLast    == SubSeq(Once, 1, CHILDREN - 1) \o Family(<< CHILDREN - 1 >>)
TwiceFirst   == Family(<< 0 >>) \o SubSeq(Once, 2, CHILDREN)

OneTree   == { OnTree(0, Once), OnTree(0, TwiceFirst), OnTree(0, TwiceLast) }
Trees3    == OnTree(0, Single) \o OnTree(1, Once) \o OnTree(2, Single)

Cuts(n) == { c \in [0 .. NumProcs -> 0 .. n] :
               c[0] = 0 /\ c[NumProcs] = n /\ \A p \in Procs : c[p] <= c[p + 1] }
TreeOffsets(f) == [t \in 0 .. f[Len(f)].tree + 1 |->
                     Cardinality({ i \in DOMAIN f : f[i].tree < t })]
SumsOf(w) == IF w = << >> THEN w
             ELSE [i \in 0 .. Len(w) |-> FoldFunctionOnSet(+, 0, w, 1 .. i)]
Request(f, w, c, family, contiguous) ==
  [ leaves |-> f, gtroffset |-> TreeOffsets(f), weights |-> SumsOf(w), now |-> c, family |-> family,
    contiguous |-> contiguous, behind |-> [ tree |-> 0, quad |-> Root ] ]

\* weights with a first process that has some, without families
Heavy(c)  == { w \in [1 .. 6 -> {0, 1, 3}] :
                 /\ w[2] = 1 /\ w[3] = w[4] /\ w[5] = 1
                 /\ \E i \in 1 .. c[1] : w[i] > 0 }
Sound ==
  UNION { { Request(f, << >>, c, TRUE, m) : c \in Cuts(Len(f)), m \in BOOLEAN } :
          f \in OneTree }
  \union { Request(Trees3, << >>, c, b, m) : c \in Cuts(6), b \in BOOLEAN, m \in BOOLEAN }
  \union UNION { { Request(Trees3, w, c, FALSE, FALSE) : w \in Heavy(c) } :
                 c \in { d \in Cuts(6) : d[1] \in {1, 4} } }
WeightedFamilies ==
  { Request(OnTree(0, Once), [i \in 1 .. 4 |-> 1], c, TRUE, TRUE) : c \in Cuts(4) }

MCCases == IF Requests = "sound" THEN Sound ELSE WeightedFamilies
==============================================================================
