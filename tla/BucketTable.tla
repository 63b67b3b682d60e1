----------------------------- MODULE BucketTable ----------------------------
(***************************************************************************)
(* The table of bucket sizes MemoryPool's constructor builds               *)
(* (src/memory/memory_pool.cc): from min_bucket_size, each size is the one *)
(* before it times the growth factor num/den, rounded up; the table ends   *)
(* with max_bucket_size.                                                   *)
(***************************************************************************)
EXTENDS Integers, Sequences

\* A growth factor below 1.01 is replaced by 2.
GrowthIsTooSmall(num, den) == 100 * num < 101 * den

\* ceil(size * growth), or twice the size when that did not grow.
Grown(size, num, den) ==
  LET product == IF GrowthIsTooSmall(num, den) THEN 2 * size
                 ELSE (size * num + den - 1) \div den
  IN IF product <= size THEN 2 * size ELSE product

\* bucket_sizes_ as the constructor leaves it, for 0 < min: the sizes the loop
\* visits, and max when the last of them is below it.
Table(min, max, num, den) ==
  LET from[size \in Nat \ {0}] ==
        IF size > max THEN << >> ELSE <<size>> \o from[Grown(size, num, den)]
      visited == from[min]
  IN IF visited = << >> \/ (visited # << >> /\ visited[Len(visited)] < max)
     THEN Append(visited, max) ELSE visited

\* The table the pool's other methods rely on: it increases strictly and its
\* largest size is max_bucket_size.
IsBucketTable(t, max) ==
  /\ t # << >> /\ t[Len(t)] = max
  /\ \A i, j \in 1 .. Len(t) : i < j => t[i] < t[j]
=============================================================================
