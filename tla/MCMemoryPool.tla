---------------------------- MODULE MCMemoryPool ----------------------------
(* Three buckets and a limit that some mixtures of blocks exceed. The       *)
(* constructor's table is checked against what the pool relies on, over     *)
(* growth factors above, at and below the smallest one it accepts.          *)
EXTENDS MemoryPool, BucketTable, TLC

CONSTANTS p1, p2, p3, p4, p5

MCPtr == {p1, p2, p3, p4, p5}
MCSymmetry == Permutations(MCPtr)
MCSizes == {1, 3, 7, 9}
MCBucketSizes == Table(2, 8, 2, 1)

MCGrowths == {<<1, 2>>, <<1, 1>>, <<101, 100>>, <<5, 4>>, <<3, 2>>, <<2, 1>>, <<4, 1>>}

ASSUME TableAssumption ==
  \A max \in 1 .. 24 : \A min \in 1 .. max + 2 : \A g \in MCGrowths :
    IsBucketTable(Table(min, max, g[1], g[2]), max)
=============================================================================
