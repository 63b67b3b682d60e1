-------------------------- MODULE MemoryPoolProofs --------------------------
(***************************************************************************)
(* Proofs that the pool's invariants hold, and that it implements an       *)
(* allocator, for every set of addresses and sizes, every bucket table that*)
(* increases and every high-water mark, and that the table the constructor *)
(* builds is such a table whenever its smallest size is positive.          *)
(***************************************************************************)
EXTENDS MemoryPool, BucketTable, SumFacts, SequenceTheorems, TLAPS

\* A nonempty set of bucket numbers has a least element.
LEMMA LeastBucket ==
  ASSUME NEW S \in SUBSET Buckets, S # {}
  PROVE  \E b \in S : \A i \in S : b <= i
<1>1. S \subseteq Nat
  BY BucketAssumption, LenProperties DEF Buckets
<1> QED BY <1>1, LeastNumber

LEMMA BucketFacts ==
  /\ Len(BucketSizes) \in Nat \ {0} /\ Len(BucketSizes) \in Buckets
  /\ \A b \in Buckets : b \in Nat \ {0} /\ BucketSizes[b] \in Nat \ {0}
  /\ Direct \notin Buckets
<1>1. Len(BucketSizes) \in Nat \ {0}
  BY BucketAssumption, EmptySeq, LenProperties
<1>2. \A b \in Buckets : BucketSizes[b] \in Nat \ {0}
  BY BucketAssumption, ElementOfSeq DEF Buckets
<1> QED BY <1>1, <1>2 DEF Buckets, Direct

\* bucket_index() returns a bucket, and one that is large enough for any
\* request the pool does not send to the backend.
LEMMA BucketIndexFits ==
  ASSUME NEW n \in Sizes, n <= MaxBucketSize
  PROVE  BucketIndex(n) \in Buckets /\ BucketSizes[BucketIndex(n)] >= n
<1> DEFINE requested == IF n < MinBucketSize THEN MinBucketSize ELSE n
           Large == {b \in Buckets : BucketSizes[b] >= requested}
           Right(b) == IF Large = {} THEN b = Len(BucketSizes)
                       ELSE b \in Large /\ \A i \in Large : b <= i
<1>1. n \in Nat /\ requested \in Nat /\ requested >= n
  BY SizeAssumption
<1>2. \E b \in Buckets : Right(b)
  <2>1. CASE Large = {}
    BY <2>1, BucketFacts
  <2>2. CASE Large # {}
    BY <2>2, LeastBucket
  <2> QED BY <2>1, <2>2
<1>3. BucketIndex(n) \in Buckets /\ Right(BucketIndex(n))
  BY <1>2 DEF BucketIndex
<1>4. CASE Large = {}
  BY <1>1, <1>3, <1>4, BucketFacts, BucketAssumption, SizeAssumption
<1>5. CASE Large # {}
  BY <1>1, <1>3, <1>5, BucketFacts
<1> QED BY <1>3, <1>4, <1>5

-----------------------------------------------------------------------------
\* Ownership is not inductive alone: that a reused block leaves the free list
\* for good needs the recorded sizes to be positive, which is BlocksFit.
PoolInv == TypeOK /\ Ownership /\ BlocksFit /\ WithinMark

\* The blocks the pool keeps, and those in the callers' hands.
Cached == {p \in Ptr : IsFree(p)}
Active == {p \in Ptr : IsActive(p)}

\* The entries of the free lists, one at a time.
LEMMA FreeEntries ==
  ASSUME TypeOK, NEW b \in Buckets
  PROVE  /\ free_blocks[b] \in Seq(Blocks)
         /\ Len(free_blocks[b]) \in Nat
         /\ \A i \in 1 .. Len(free_blocks[b]) :
              /\ free_blocks[b][i].ptr \in Ptr
              /\ free_blocks[b][i].size \in Nat
<1>1. free_blocks[b] \in Seq(Blocks)
  BY DEF TypeOK
<1>2. \A i \in 1 .. Len(free_blocks[b]) : free_blocks[b][i] \in Blocks
  BY <1>1, ElementOfSeq
<1> QED BY <1>1, <1>2, LenProperties DEF Blocks

\* What the backend and the callers hold are numbers of bytes.
LEMMA NaturalSizes ==
  ASSUME TypeOK, NEW p \in Ptr
  PROVE  held[p] \in Nat /\ heap[p] \in Nat
<1>1. \A n \in Sizes : n \in Nat
  BY SizeAssumption
<1>2. \A n \in BackendSizes : n \in Nat
  BY <1>1, BucketFacts DEF BackendSizes
<1>3. held[p] \in Sizes \/ held[p] = 0
  BY DEF TypeOK
<1>4. heap[p] \in BackendSizes \/ heap[p] = 0
  BY DEF TypeOK
<1>5. held[p] \in Nat
  BY <1>1, <1>3
<1>6. heap[p] \in Nat
  BY <1>2, <1>4
<1> QED BY <1>5, <1>6

LEMMA InitInv == Init => PoolInv
<1> SUFFICES ASSUME Init PROVE PoolInv
  OBVIOUS
<1> USE SizeAssumption DEF Init
<1>1. \A b \in Buckets : free_blocks[b] = << >> /\ Len(free_blocks[b]) = 0
  BY EmptySeq
<1>2. TypeOK
  BY EmptySeq DEF TypeOK, NoBlock, Direct
<1>3. Ownership
  BY <1>1 DEF Ownership, FreeOnce, IsActive, IsFree, NoBlock
<1>4. BlocksFit
  BY <1>1 DEF BlocksFit, IsActive, NoBlock
<1>5. WithinMark
  BY DEF WithinMark
<1> QED BY <1>2, <1>3, <1>4, <1>5 DEF PoolInv

\* A block taken from the backend is granted at an address that is neither
\* active nor free.
LEMMA GrantInv ==
  ASSUME PoolInv,
         NEW p \in Ptr, NEW n \in Sizes, NEW size \in BackendSizes, size >= n,
         NEW b \in Buckets \cup {Direct}, b # Direct => size = BucketSizes[b],
         heap[p] = 0,
         heap' = [heap EXCEPT ![p] = size],
         active_blocks' = [active_blocks EXCEPT ![p] = [bucket |-> b, size |-> size]],
         held' = [held EXCEPT ![p] = n],
         active_bytes' = active_bytes + size,
         UNCHANGED <<free_blocks, pooled_bytes>>
  PROVE  PoolInv' /\ Cached' = Cached /\ Active' = Active \cup {p}
<1> USE DEF PoolInv
<1>1. size \in Nat \ {0} /\ n \in Nat \ {0} /\ BackendSizes \subseteq Nat
  BY BucketFacts, SizeAssumption DEF BackendSizes
<1>2. ~IsActive(p) /\ ~IsFree(p)
  BY DEF Ownership, TypeOK
<1>3. TypeOK'
  BY <1>1 DEF TypeOK, BackendSizes, Buckets
<1>4. \A q \in Ptr : IsFree(q)' <=> IsFree(q)
  BY DEF IsFree
<1>5. \A q \in Ptr : IsActive(q)' <=> IsActive(q) \/ q = p
  BY <1>1 DEF IsActive, TypeOK
<1>6. Ownership'
  <2>1. FreeOnce'
    BY DEF Ownership, FreeOnce, Buckets
  <2>2. \A q \in Ptr : heap'[q] > 0 <=> heap[q] > 0 \/ q = p
    BY <1>1 DEF TypeOK
  <2> QED BY <1>2, <1>4, <1>5, <2>1, <2>2 DEF Ownership
<1>7. BlocksFit'
  <2>1. ASSUME NEW c \in Buckets, NEW i \in 1 .. Len(free_blocks[c])
        PROVE  /\ free_blocks[c][i].ptr # p
               /\ free_blocks[c][i].ptr \in Ptr
    BY <1>2, FreeEntries DEF IsFree
  <2>2. \A c \in Buckets : \A i \in 1 .. Len(free_blocks'[c]) :
          /\ free_blocks'[c][i].size = BucketSizes[c]
          /\ heap'[free_blocks'[c][i].ptr] = BucketSizes[c]
    BY <2>1 DEF BlocksFit, TypeOK
  <2>3. ASSUME NEW q \in Ptr
        PROVE  /\ IsActive(q)' =>
                    /\ active_blocks'[q].size = heap'[q]
                    /\ active_blocks'[q].bucket # Direct =>
                         heap'[q] = BucketSizes[active_blocks'[q].bucket]
               /\ (held'[q] > 0 <=> IsActive(q)') /\ held'[q] <= heap'[q]
    <3>1. CASE q = p
      BY <1>1, <1>5, <3>1 DEF TypeOK
    <3>2. CASE q # p
      <4>1. /\ heap'[q] = heap[q] /\ held'[q] = held[q]
            /\ active_blocks'[q] = active_blocks[q] /\ IsActive(q)' = IsActive(q)
        BY <3>2 DEF TypeOK, IsActive
      <4> QED BY <4>1 DEF BlocksFit
    <3> QED BY <3>1, <3>2
  <2> QED BY <2>2, <2>3 DEF BlocksFit, Buckets
<1>8. WithinMark'
  BY DEF WithinMark
<1> QED BY <1>3, <1>4, <1>5, <1>6, <1>7, <1>8 DEF Cached, Active

LEMMA AllocateDirectInv ==
  ASSUME PoolInv, NEW n \in Sizes, NEW p \in Ptr, AllocateDirect(n, p)
  PROVE  PoolInv' /\ Cached' = Cached /\ Active' = Active \cup {p}
<1>1. n \in BackendSizes /\ n >= n
  BY SizeAssumption DEF AllocateDirect, BackendSizes
<1> QED BY <1>1, GrantInv, BucketFacts DEF AllocateDirect

LEMMA AllocateNewInv ==
  ASSUME PoolInv, NEW n \in Sizes, NEW p \in Ptr, AllocateNew(n, p)
  PROVE  PoolInv' /\ Cached' = Cached /\ Active' = Active \cup {p}
<1>1. n <= MaxBucketSize
  BY DEF AllocateNew
<1>2. BucketIndex(n) \in Buckets /\ BucketSizes[BucketIndex(n)] >= n
  BY <1>1, BucketIndexFits
<1>3. BucketSizes[BucketIndex(n)] \in BackendSizes
  BY <1>2 DEF BackendSizes
<1> QED BY <1>2, <1>3, GrantInv DEF AllocateNew

-----------------------------------------------------------------------------
\* A reused block moves from the head of its free list to its new owner.
LEMMA AllocateCachedInv ==
  ASSUME PoolInv, NEW n \in Sizes, AllocateCached(n)
  PROVE  /\ PoolInv'
         /\ LET block == Head(free_blocks[BucketIndex(n)])
                p == block.ptr
            IN /\ p \in Cached /\ block.size = heap[p]
               /\ Cached' = Cached \ {p} /\ Active' = Active \cup {p}
<1> DEFINE b == BucketIndex(n)
           block == Head(free_blocks[b])
           p == block.ptr
<1> USE DEF PoolInv
<1>1. n \in Nat \ {0} /\ b \in Buckets /\ BucketSizes[b] >= n /\ b # Direct
  BY BucketIndexFits, SizeAssumption, BucketFacts DEF AllocateCached
<1>2. /\ free_blocks[b] \in Seq(Blocks) /\ free_blocks[b] # << >>
      /\ Len(free_blocks[b]) \in Nat \ {0}
      /\ block = free_blocks[b][1]
  BY <1>1, FreeEntries, EmptySeq, HeadTailProperties DEF AllocateCached
<1>3. /\ p \in Ptr /\ IsFree(p) /\ ~IsActive(p)
      /\ block.size = BucketSizes[b] /\ heap[p] = BucketSizes[b]
  BY <1>1, <1>2, FreeEntries DEF IsFree, Ownership, BlocksFit
<1>4. /\ free_blocks'[b] \in Seq(Blocks)
      /\ Len(free_blocks'[b]) = Len(free_blocks[b]) - 1
      /\ \A i \in 1 .. Len(free_blocks'[b]) : free_blocks'[b][i] = free_blocks[b][i + 1]
      /\ \A c \in Buckets : c # b => free_blocks'[c] = free_blocks[c]
  BY <1>1, <1>2, HeadTailProperties DEF AllocateCached, TypeOK
<1> HIDE DEF b, block, p
<1>5. /\ active_blocks' = [active_blocks EXCEPT ![p] = [bucket |-> b, size |-> block.size]]
      /\ held' = [held EXCEPT ![p] = n]
      /\ active_bytes' = active_bytes + block.size
      /\ pooled_bytes' = pooled_bytes - block.size
      /\ heap' = heap
      /\ free_blocks' = [free_blocks EXCEPT ![b] = Tail(free_blocks[b])]
  BY DEF AllocateCached, b, block, p
<1>6. BucketSizes[b] \in Nat \ {0}
  BY <1>1, BucketFacts
<1>7. TypeOK'
  <2>1. free_blocks' \in [Buckets -> Seq(Blocks)]
    BY <1>1, <1>4, <1>5 DEF TypeOK
  <2>2. active_blocks' \in [Ptr -> [bucket : Buckets \cup {Direct}, size : Nat]]
    BY <1>1, <1>3, <1>5, <1>6 DEF TypeOK
  <2>3. held' \in [Ptr -> Sizes \cup {0}] /\ heap' \in [Ptr -> BackendSizes \cup {0}]
    BY <1>5 DEF TypeOK
  <2>4. pooled_bytes' \in Int /\ active_bytes' \in Int
    BY <1>3, <1>5, <1>6 DEF TypeOK
  <2> QED BY <2>1, <2>2, <2>3, <2>4 DEF TypeOK, BackendSizes, Buckets, Blocks
<1>8. \A q \in Ptr : IsActive(q)' <=> IsActive(q) \/ q = p
  BY <1>3, <1>5, <1>6 DEF IsActive, TypeOK
\* Every entry that is left was an entry before, at the same or the next
\* place of the same list.
<1>9. \A c \in Buckets : \A i \in 1 .. Len(free_blocks'[c]) :
        LET j == IF c = b THEN i + 1 ELSE i IN
        /\ j \in 1 .. Len(free_blocks[c])
        /\ free_blocks'[c][i] = free_blocks[c][j]
        /\ c = b => j # 1
  <2>1. ASSUME NEW i \in 1 .. Len(free_blocks'[b])
        PROVE  /\ i + 1 \in 1 .. Len(free_blocks[b]) /\ i + 1 # 1
               /\ free_blocks'[b][i] = free_blocks[b][i + 1]
    <3> DEFINE k == Len(free_blocks[b])
    <3>1. k \in Nat \ {0} /\ i \in 1 .. k - 1
      BY <1>2, <1>4
    <3>2. i + 1 \in 1 .. k /\ i + 1 # 1
      <4> HIDE DEF k
      <4> QED BY <3>1
    <3> QED BY <1>4, <3>2
  <2>2. ASSUME NEW c \in Buckets, c # b, NEW i \in 1 .. Len(free_blocks'[c])
        PROVE  i \in 1 .. Len(free_blocks[c]) /\ free_blocks'[c][i] = free_blocks[c][i]
    BY <1>4, <2>2
  <2> QED BY <2>1, <2>2
<1>10. FreeOnce'
  <2>1. ASSUME NEW c \in Buckets, NEW d \in Buckets,
               NEW i \in 1 .. Len(free_blocks'[c]), NEW j \in 1 .. Len(free_blocks'[d]),
               free_blocks'[c][i].ptr = free_blocks'[d][j].ptr
        PROVE  c = d /\ i = j
    <3> DEFINE k == IF c = b THEN i + 1 ELSE i
               l == IF d = b THEN j + 1 ELSE j
    <3>1. /\ k \in 1 .. Len(free_blocks[c]) /\ l \in 1 .. Len(free_blocks[d])
          /\ free_blocks[c][k].ptr = free_blocks[d][l].ptr
      BY <2>1, <1>9
    <3>2. c = d /\ k = l
      BY <3>1 DEF Ownership, FreeOnce
    <3> QED BY <3>2
  <2> QED BY <2>1 DEF FreeOnce, Buckets
<1>11. ASSUME NEW q \in Ptr PROVE IsFree(q)' <=> IsFree(q) /\ q # p
  <2>1. ASSUME IsFree(q)' PROVE IsFree(q) /\ q # p
    <3>0. PICK c \in Buckets : \E i \in 1 .. Len(free_blocks'[c]) :
            free_blocks'[c][i].ptr = q
      BY <2>1 DEF IsFree, Buckets
    <3>1. PICK i \in 1 .. Len(free_blocks'[c]) : free_blocks'[c][i].ptr = q
      BY <3>0
    <3> DEFINE j == IF c = b THEN i + 1 ELSE i
    <3>2. j \in 1 .. Len(free_blocks[c]) /\ free_blocks[c][j].ptr = q /\ (c = b => j # 1)
      BY <3>1, <1>9
    <3>3. 1 \in 1 .. Len(free_blocks[b]) /\ free_blocks[b][1].ptr = p
      BY <1>2 DEF p
    <3>4. q # p
      BY <3>2, <3>3, <1>1 DEF Ownership, FreeOnce
    <3> QED BY <3>2, <3>4 DEF IsFree
  <2>2. ASSUME IsFree(q), q # p PROVE IsFree(q)'
    <3>0. PICK c \in Buckets : \E i \in 1 .. Len(free_blocks[c]) :
            free_blocks[c][i].ptr = q
      BY <2>2 DEF IsFree
    <3>1. PICK i \in 1 .. Len(free_blocks[c]) : free_blocks[c][i].ptr = q
      BY <3>0
    <3>2. CASE c # b
      BY <3>1, <3>2, <1>4 DEF IsFree, Buckets
    <3>3. CASE c = b
      <4>1. i # 1
        BY <3>1, <3>3, <2>2, <1>2 DEF p
      <4>2. i - 1 \in 1 .. Len(free_blocks'[b]) /\ free_blocks'[b][i - 1] = free_blocks[b][i]
        BY <3>3, <4>1, <1>2, <1>4
      <4> QED BY <3>1, <3>3, <4>2 DEF IsFree, Buckets
    <3> QED BY <3>2, <3>3
  <2> QED BY <2>1, <2>2
<1>12. Ownership'
  BY <1>3, <1>5, <1>8, <1>10, <1>11 DEF Ownership
<1>13. BlocksFit'
  <2>1. \A c \in Buckets : \A i \in 1 .. Len(free_blocks'[c]) :
          /\ free_blocks'[c][i].size = BucketSizes[c]
          /\ heap'[free_blocks'[c][i].ptr] = BucketSizes[c]
    BY <1>5, <1>9 DEF BlocksFit
  <2>2. ASSUME NEW q \in Ptr
        PROVE  /\ IsActive(q)' =>
                    /\ active_blocks'[q].size = heap'[q]
                    /\ active_blocks'[q].bucket # Direct =>
                         heap'[q] = BucketSizes[active_blocks'[q].bucket]
               /\ (held'[q] > 0 <=> IsActive(q)') /\ held'[q] <= heap'[q]
    <3>1. CASE q = p
      BY <1>1, <1>3, <1>5, <1>8, <3>1 DEF TypeOK
    <3>2. CASE q # p
      <4>1. /\ heap'[q] = heap[q] /\ held'[q] = held[q]
            /\ active_blocks'[q] = active_blocks[q] /\ IsActive(q)' = IsActive(q)
        BY <1>5, <3>2 DEF TypeOK, IsActive
      <4> QED BY <4>1 DEF BlocksFit
    <3> QED BY <3>1, <3>2
  <2> QED BY <2>1, <2>2 DEF BlocksFit, Buckets
<1>14. WithinMark'
  BY <1>3, <1>5, <1>6, SizeAssumption DEF WithinMark, TypeOK
<1>15. /\ p \in Cached /\ block.size = heap[p]
       /\ Cached' = Cached \ {p} /\ Active' = Active \cup {p}
  BY <1>3, <1>8, <1>11 DEF Cached, Active
<1> QED BY <1>7, <1>12, <1>13, <1>14, <1>15 DEF b, block, p

-----------------------------------------------------------------------------
\* Both ways of giving back p leave every other caller's block alone.
LEMMA GiveBackFacts ==
  ASSUME PoolInv, NEW p \in Ptr, IsActive(p),
         active_blocks' = [active_blocks EXCEPT ![p] = NoBlock],
         held' = [held EXCEPT ![p] = 0],
         active_bytes' = active_bytes - active_blocks[p].size
  PROVE  /\ active_blocks' \in [Ptr -> [bucket : Buckets \cup {Direct}, size : Nat]]
         /\ held' \in [Ptr -> Sizes \cup {0}]
         /\ active_bytes' \in Int
         /\ \A q \in Ptr : IsActive(q)' <=> IsActive(q) /\ q # p
         /\ \A q \in Ptr \ {p} : active_blocks'[q] = active_blocks[q] /\ held'[q] = held[q]
         /\ held'[p] = 0
<1> USE DEF PoolInv, NoBlock, Direct
<1>1. active_blocks[p].size \in Nat
  BY DEF TypeOK
<1>2. active_blocks'[p].size = 0
  BY DEF TypeOK
<1> QED BY <1>1, <1>2 DEF TypeOK, IsActive

LEMMA DeallocateToBackendInv ==
  ASSUME PoolInv, NEW p \in Ptr, DeallocateToBackend(p)
  PROVE  PoolInv' /\ Cached' = Cached /\ Active' = Active \ {p}
<1> USE DEF PoolInv
<1>1. /\ IsActive(p) /\ ~IsFree(p)
      /\ heap' = [heap EXCEPT ![p] = 0]
      /\ free_blocks' = free_blocks /\ pooled_bytes' = pooled_bytes
  BY DEF DeallocateToBackend, Ownership
<1>2. /\ active_blocks' \in [Ptr -> [bucket : Buckets \cup {Direct}, size : Nat]]
      /\ held' \in [Ptr -> Sizes \cup {0}]
      /\ active_bytes' \in Int
      /\ \A q \in Ptr : IsActive(q)' <=> IsActive(q) /\ q # p
      /\ \A q \in Ptr \ {p} : active_blocks'[q] = active_blocks[q] /\ held'[q] = held[q]
      /\ held'[p] = 0
  BY <1>1, GiveBackFacts DEF DeallocateToBackend
<1>3. TypeOK'
  BY <1>1, <1>2 DEF TypeOK, BackendSizes, Buckets, Blocks
<1>4. \A q \in Ptr : IsFree(q)' <=> IsFree(q)
  BY <1>1 DEF IsFree
<1>5. Ownership'
  <2>1. FreeOnce'
    <3>1. FreeOnce' = FreeOnce
      BY <1>1 DEF FreeOnce
    <3> QED BY <3>1 DEF Ownership
  <2>2. \A q \in Ptr : heap'[q] > 0 <=> heap[q] > 0 /\ q # p
    BY <1>1 DEF TypeOK
  <2> QED BY <1>1, <1>2, <1>4, <2>1, <2>2 DEF Ownership
<1>6. BlocksFit'
  <2>1. ASSUME NEW c \in Buckets, NEW i \in 1 .. Len(free_blocks[c])
        PROVE  /\ free_blocks[c][i].ptr # p
               /\ free_blocks[c][i].ptr \in Ptr
    BY <1>1, FreeEntries DEF IsFree
  <2>2. \A c \in Buckets : \A i \in 1 .. Len(free_blocks'[c]) :
          /\ free_blocks'[c][i].size = BucketSizes[c]
          /\ heap'[free_blocks'[c][i].ptr] = BucketSizes[c]
    BY <1>1, <2>1 DEF BlocksFit, TypeOK
  <2>3. ASSUME NEW q \in Ptr
        PROVE  /\ IsActive(q)' =>
                    /\ active_blocks'[q].size = heap'[q]
                    /\ active_blocks'[q].bucket # Direct =>
                         heap'[q] = BucketSizes[active_blocks'[q].bucket]
               /\ (held'[q] > 0 <=> IsActive(q)') /\ held'[q] <= heap'[q]
    <3>1. CASE q = p
      BY <1>1, <1>2, <3>1 DEF TypeOK
    <3>2. CASE q # p
      BY <1>1, <1>2, <3>2 DEF TypeOK, BlocksFit
    <3> QED BY <3>1, <3>2
  <2> QED BY <2>2, <2>3 DEF BlocksFit, Buckets
<1>7. WithinMark'
  BY <1>1 DEF WithinMark
<1> QED BY <1>2, <1>3, <1>4, <1>5, <1>6, <1>7 DEF Cached, Active

LEMMA DeallocateToPoolInv ==
  ASSUME PoolInv, NEW p \in Ptr, DeallocateToPool(p)
  PROVE  PoolInv' /\ Cached' = Cached \cup {p} /\ Active' = Active \ {p}
<1> DEFINE b == active_blocks[p].bucket
           size == active_blocks[p].size
           block == [ptr |-> p, size |-> size]
<1> USE DEF PoolInv
<1>1. /\ IsActive(p) /\ ~IsFree(p) /\ b \in Buckets /\ b # Direct
      /\ size = heap[p] /\ heap[p] = BucketSizes[b] /\ size \in Nat
  BY DEF DeallocateToPool, Ownership, BlocksFit, TypeOK
<1>2. /\ heap' = heap
      /\ free_blocks' = [free_blocks EXCEPT ![b] = Append(free_blocks[b], block)]
      /\ pooled_bytes' = pooled_bytes + size
  BY DEF DeallocateToPool
<1>3. /\ active_blocks' \in [Ptr -> [bucket : Buckets \cup {Direct}, size : Nat]]
      /\ held' \in [Ptr -> Sizes \cup {0}]
      /\ active_bytes' \in Int
      /\ \A q \in Ptr : IsActive(q)' <=> IsActive(q) /\ q # p
      /\ \A q \in Ptr \ {p} : active_blocks'[q] = active_blocks[q] /\ held'[q] = held[q]
      /\ held'[p] = 0
  BY <1>1, GiveBackFacts DEF DeallocateToPool
<1>4. WithinMark'
  BY <1>1, <1>2, SizeAssumption DEF DeallocateToPool, OverMark, WithinMark, TypeOK
<1>5. block \in Blocks
  BY <1>1 DEF Blocks
<1> HIDE DEF b, size, block
<1>6. /\ free_blocks' \in [Buckets -> Seq(Blocks)]
      /\ Len(free_blocks[b]) \in Nat
      /\ Len(free_blocks'[b]) = Len(free_blocks[b]) + 1
      /\ free_blocks'[b][Len(free_blocks[b]) + 1] = block
      /\ \A i \in 1 .. Len(free_blocks[b]) : free_blocks'[b][i] = free_blocks[b][i]
      /\ \A c \in Buckets : c # b => free_blocks'[c] = free_blocks[c]
  <2>1. free_blocks[b] \in Seq(Blocks) /\ Len(free_blocks[b]) \in Nat
    BY <1>1, FreeEntries
  <2>2. free_blocks'[b] = Append(free_blocks[b], block)
    BY <1>1, <1>2 DEF TypeOK
  <2>3. Append(free_blocks[b], block) \in Seq(Blocks)
    BY <1>5, <2>1, AppendProperties
  <2>4. free_blocks' \in [Buckets -> Seq(Blocks)]
    BY <1>2, <2>3 DEF TypeOK
  <2>5. \A c \in Buckets : c # b => free_blocks'[c] = free_blocks[c]
    BY <1>2 DEF TypeOK
  <2> QED BY <1>5, <2>1, <2>2, <2>4, <2>5, AppendProperties
\* An entry is either the new one or was there before.
<1>7. \A c \in Buckets : \A i \in 1 .. Len(free_blocks'[c]) :
        \/ c = b /\ i = Len(free_blocks[b]) + 1 /\ free_blocks'[c][i] = block
        \/ i \in 1 .. Len(free_blocks[c]) /\ free_blocks'[c][i] = free_blocks[c][i]
  BY <1>1, <1>6, FreeEntries
<1>8. \A c \in Buckets : \A i \in 1 .. Len(free_blocks[c]) :
        /\ i \in 1 .. Len(free_blocks'[c]) /\ free_blocks'[c][i] = free_blocks[c][i]
        /\ free_blocks[c][i].ptr \in Ptr /\ free_blocks[c][i].ptr # p
  <2>1. ASSUME NEW c \in Buckets, NEW i \in 1 .. Len(free_blocks[c])
        PROVE  /\ i \in 1 .. Len(free_blocks'[c]) /\ free_blocks'[c][i] = free_blocks[c][i]
    <3>1. CASE c = b
      <4> DEFINE k == Len(free_blocks[b])
                 k2 == Len(free_blocks'[b])
      <4>1. k \in Nat /\ k2 = k + 1 /\ i \in 1 .. k
        BY <1>6, <3>1
      <4>2. i \in 1 .. k2
        <5> HIDE DEF k, k2
        <5> QED BY <4>1
      <4> QED BY <1>6, <3>1, <4>2
    <3>2. CASE c # b
      BY <1>6, <3>2
    <3> QED BY <3>1, <3>2
  <2>2. ASSUME NEW c \in Buckets, NEW i \in 1 .. Len(free_blocks[c])
        PROVE  free_blocks[c][i].ptr \in Ptr /\ free_blocks[c][i].ptr # p
    BY <1>1, FreeEntries DEF IsFree
  <2> QED BY <2>1, <2>2
<1>9. block.ptr = p /\ block.size = size
  BY DEF block
<1>10. TypeOK'
  <2>1. heap' \in [Ptr -> BackendSizes \cup {0}] /\ pooled_bytes' \in Int
    BY <1>1, <1>2 DEF TypeOK, size
  <2> QED BY <1>3, <1>6, <2>1 DEF TypeOK, BackendSizes, Buckets, Blocks
<1>11. FreeOnce'
  <2>1. ASSUME NEW c \in Buckets, NEW d \in Buckets,
               NEW i \in 1 .. Len(free_blocks'[c]), NEW j \in 1 .. Len(free_blocks'[d]),
               free_blocks'[c][i].ptr = free_blocks'[d][j].ptr
        PROVE  c = d /\ i = j
    <3>1. CASE i \in 1 .. Len(free_blocks[c]) /\ free_blocks'[c][i] = free_blocks[c][i]
               /\ j \in 1 .. Len(free_blocks[d]) /\ free_blocks'[d][j] = free_blocks[d][j]
      <4>1. free_blocks[c][i].ptr = free_blocks[d][j].ptr
        BY <2>1, <3>1
      <4>2. FreeOnce
        BY DEF Ownership
      <4> QED BY <3>1, <4>1, <4>2 DEF FreeOnce
    <3>2. CASE c = b /\ i = Len(free_blocks[b]) + 1 /\ free_blocks'[c][i] = block
      BY <1>7, <1>8, <1>9, <2>1, <3>2
    <3>3. CASE d = b /\ j = Len(free_blocks[b]) + 1 /\ free_blocks'[d][j] = block
      BY <1>7, <1>8, <1>9, <2>1, <3>3
    <3> QED BY <1>7, <3>1, <3>2, <3>3
  <2> QED BY <2>1 DEF FreeOnce, Buckets
<1>12. ASSUME NEW q \in Ptr PROVE IsFree(q)' <=> IsFree(q) \/ q = p
  <2>1. ASSUME IsFree(q)' PROVE IsFree(q) \/ q = p
    <3>1. PICK c \in Buckets : \E i \in 1 .. Len(free_blocks'[c]) :
            free_blocks'[c][i].ptr = q
      BY <2>1 DEF IsFree, Buckets
    <3>2. PICK i \in 1 .. Len(free_blocks'[c]) : free_blocks'[c][i].ptr = q
      BY <3>1
    <3> QED BY <1>7, <1>9, <3>2 DEF IsFree
  <2>2. ASSUME IsFree(q) PROVE IsFree(q)'
    <3>1. PICK c \in Buckets : \E i \in 1 .. Len(free_blocks[c]) :
            free_blocks[c][i].ptr = q
      BY <2>2 DEF IsFree
    <3> QED BY <1>8, <3>1 DEF IsFree, Buckets
  <2>3. IsFree(p)'
    <3>1. Len(free_blocks[b]) + 1 \in 1 .. Len(free_blocks'[b])
      BY <1>6
    <3> QED BY <1>1, <1>6, <1>9, <3>1 DEF IsFree, Buckets
  <2> QED BY <2>1, <2>2, <2>3
<1>13. Ownership'
  BY <1>1, <1>2, <1>3, <1>11, <1>12 DEF Ownership
<1>14. BlocksFit'
  <2>1. \A c \in Buckets : \A i \in 1 .. Len(free_blocks'[c]) :
          /\ free_blocks'[c][i].size = BucketSizes[c]
          /\ heap'[free_blocks'[c][i].ptr] = BucketSizes[c]
    BY <1>1, <1>2, <1>7, <1>9 DEF BlocksFit
  <2>2. ASSUME NEW q \in Ptr
        PROVE  /\ IsActive(q)' =>
                    /\ active_blocks'[q].size = heap'[q]
                    /\ active_blocks'[q].bucket # Direct =>
                         heap'[q] = BucketSizes[active_blocks'[q].bucket]
               /\ (held'[q] > 0 <=> IsActive(q)') /\ held'[q] <= heap'[q]
    <3>1. CASE q = p
      BY <1>1, <1>2, <1>3, <3>1
    <3>2. CASE q # p
      BY <1>2, <1>3, <3>2 DEF BlocksFit
    <3> QED BY <3>1, <3>2
  <2> QED BY <2>1, <2>2 DEF BlocksFit, Buckets
<1> QED BY <1>3, <1>4, <1>10, <1>12, <1>13, <1>14 DEF Cached, Active

LEMMA ReleaseCacheInv ==
  ASSUME PoolInv, ReleaseCache
  PROVE  PoolInv' /\ Cached' = {} /\ Active' = Active
<1> USE DEF PoolInv
<1>1. /\ heap' = [p \in Ptr |-> IF IsFree(p) THEN 0 ELSE heap[p]]
      /\ free_blocks' = [b \in Buckets |-> << >>] /\ pooled_bytes' = 0
      /\ active_blocks' = active_blocks /\ held' = held /\ active_bytes' = active_bytes
  BY DEF ReleaseCache
<1>2. \A b \in Buckets : free_blocks'[b] = << >> /\ Len(free_blocks'[b]) = 0
  BY <1>1, EmptySeq
<1>3. \A p \in Ptr : ~IsFree(p)' /\ IsActive(p)' = IsActive(p)
  BY <1>1, <1>2 DEF IsFree, IsActive, Buckets
<1>4. TypeOK'
  <2>1. heap' \in [Ptr -> BackendSizes \cup {0}]
    BY <1>1 DEF TypeOK
  <2>2. free_blocks' \in [Buckets -> Seq(Blocks)]
    BY <1>1, EmptySeq
  <2> QED BY <1>1, <2>1, <2>2 DEF TypeOK, BackendSizes, Buckets, Blocks
<1>5. Ownership'
  BY <1>1, <1>2, <1>3 DEF Ownership, FreeOnce, Buckets
<1>6. BlocksFit'
  <2>1. \A p \in Ptr : IsActive(p) => heap'[p] = heap[p]
    BY <1>1 DEF Ownership
  <2>2. ASSUME NEW p \in Ptr, ~IsActive(p) PROVE held[p] = 0 /\ heap'[p] >= 0
    <3>1. held[p] \in Nat /\ heap[p] \in Nat
      BY NaturalSizes
    <3>2. ~(held[p] > 0)
      BY <2>2 DEF BlocksFit
    <3>3. heap'[p] = 0 \/ heap'[p] = heap[p]
      BY <1>1
    <3> QED BY <3>1, <3>2, <3>3
  <2> QED BY <1>1, <1>2, <1>3, <2>1, <2>2 DEF BlocksFit, Buckets
<1>7. WithinMark'
  BY <1>1, SizeAssumption DEF WithinMark
<1> QED BY <1>3, <1>4, <1>5, <1>6, <1>7 DEF Cached, Active

-----------------------------------------------------------------------------
LEMMA StepInv == PoolInv /\ [Next]_vars => PoolInv'
<1> SUFFICES ASSUME PoolInv, [Next]_vars PROVE PoolInv'
  OBVIOUS
<1>1. ASSUME NEW n \in Sizes, NEW p \in Ptr, AllocateDirect(n, p) PROVE PoolInv'
  BY <1>1, AllocateDirectInv
<1>2. ASSUME NEW n \in Sizes, NEW p \in Ptr, AllocateNew(n, p) PROVE PoolInv'
  BY <1>2, AllocateNewInv
<1>3. ASSUME NEW n \in Sizes, AllocateCached(n) PROVE PoolInv'
  BY <1>3, AllocateCachedInv
<1>4. ASSUME NEW p \in Ptr, DeallocateToBackend(p) PROVE PoolInv'
  BY <1>4, DeallocateToBackendInv
<1>5. ASSUME NEW p \in Ptr, DeallocateToPool(p) PROVE PoolInv'
  BY <1>5, DeallocateToPoolInv
<1>6. CASE ReleaseCache
  BY <1>6, ReleaseCacheInv
<1>7. CASE UNCHANGED vars
  <2> USE <1>7 DEF vars
  <2>1. TypeOK' = TypeOK
    BY DEF TypeOK, BackendSizes, Buckets, Blocks
  <2>2. Ownership' = Ownership
    BY DEF Ownership, FreeOnce, IsActive, IsFree, Buckets
  <2>3. BlocksFit' = BlocksFit
    BY DEF BlocksFit, IsActive, Buckets
  <2>4. WithinMark' = WithinMark
    BY DEF WithinMark
  <2> QED BY <2>1, <2>2, <2>3, <2>4 DEF PoolInv
<1> QED BY <1>1, <1>2, <1>3, <1>4, <1>5, <1>6, <1>7 DEF Next

\* The pool's invariant holds in every reachable state: what the pool records
\* about its blocks stays well typed, whole and within its limit.
THEOREM PoolInvariant == Spec => []PoolInv
<1>1. Init => PoolInv
  BY InitInv
<1>2. PoolInv /\ [Next]_vars => PoolInv'
  BY StepInv
<1> QED BY <1>1, <1>2, PTL DEF Spec

\* MemoryPool's maps and counters keep their types, and the backend is asked
\* for whole buckets or oversized requests only.
THEOREM TypeCorrect == Spec => []TypeOK
<1>1. PoolInv => TypeOK
  BY DEF PoolInv
<1> QED BY <1>1, PoolInvariant, PTL

\* allocate() and deallocate() never share, lose or reuse a returned block.
THEOREM OwnershipHolds == Spec => []Ownership
<1>1. PoolInv => Ownership
  BY DEF PoolInv
<1> QED BY <1>1, PoolInvariant, PTL

\* Every block allocate() hands out is at least as large as the request, and
\* its recorded size is the size the backend allocated.
THEOREM BlocksFitHolds == Spec => []BlocksFit
<1>1. PoolInv => BlocksFit
  BY DEF PoolInv
<1> QED BY <1>1, PoolInvariant, PTL

\* deallocate() keeps no more than max_pooled_bytes.
THEOREM WithinMarkHolds == Spec => []WithinMark
<1>1. PoolInv => WithinMark
  BY DEF PoolInv
<1> QED BY <1>1, PoolInvariant, PTL

-----------------------------------------------------------------------------
\* The counters. That a sum over addresses changes by the size of one block
\* needs that there are finitely many blocks at any time.
AccountInv ==
  /\ IsFiniteSet(Cached) /\ IsFiniteSet(Active)
  /\ BytesAccounted

\* The bytes at a set of addresses.
BytesAt(h, S) == SumFunctionOnSet(h, S)

LEMMA BytesPlusOne ==
  ASSUME NEW h, NEW S, IsFiniteSet(S), NEW p, p \notin S,
         \A q \in S \cup {p} : h[q] \in Nat
  PROVE  /\ IsFiniteSet(S \cup {p})
         /\ BytesAt(h, S \cup {p}) = BytesAt(h, S) + h[p]
         /\ BytesAt(h, S) \in Int
<1>1. SumFunctionOnSet(h, S \cup {p}) = h[p] + SumFunctionOnSet(h, S)
  BY SumAdd
<1>2. SumFunctionOnSet(h, S) \in Int
  BY SumType
<1> QED BY <1>1, <1>2, FS_AddElement DEF BytesAt

LEMMA BytesMinusOne ==
  ASSUME NEW h, NEW S, IsFiniteSet(S), NEW p \in S, \A q \in S : h[q] \in Nat
  PROVE  /\ IsFiniteSet(S \ {p})
         /\ BytesAt(h, S \ {p}) = BytesAt(h, S) - h[p]
<1>1. IsFiniteSet(S \ {p})
  BY FS_RemoveElement
<1>2. SumFunctionOnSet(h, S) = h[p] + SumFunctionOnSet(h, S \ {p})
  BY SumRemove
<1>3. SumFunctionOnSet(h, S \ {p}) \in Int
  BY <1>1, SumType
<1> QED BY <1>1, <1>2, <1>3 DEF BytesAt

LEMMA BytesUnchanged ==
  ASSUME NEW h, NEW k, NEW S, IsFiniteSet(S),
         \A q \in S : h[q] \in Nat /\ k[q] = h[q]
  PROVE  BytesAt(k, S) = BytesAt(h, S)
BY SumOfSame DEF BytesAt

\* The parts of the invariant the counters depend on.
LEMMA AccountFacts ==
  ASSUME PoolInv, AccountInv
  PROVE  /\ pooled_bytes = BytesAt(heap, Cached) /\ active_bytes = BytesAt(heap, Active)
         /\ \A p \in Ptr : heap[p] \in Nat
         /\ Cached \subseteq Ptr /\ Active \subseteq Ptr /\ Cached \cap Active = {}
         /\ \A p \in Active : active_blocks[p].size = heap[p]
         /\ pooled_bytes \in Int /\ active_bytes \in Int
<1>1. \A p \in Ptr : heap[p] \in Nat
  BY NaturalSizes DEF PoolInv
<1> QED BY <1>1 DEF PoolInv, AccountInv, BytesAccounted, BytesAt, Cached, Active, TypeOK,
           Ownership, BlocksFit

LEMMA AccountIs ==
  ASSUME pooled_bytes' = BytesAt(heap', Cached'), active_bytes' = BytesAt(heap', Active'),
         IsFiniteSet(Cached'), IsFiniteSet(Active')
  PROVE  AccountInv'
BY DEF AccountInv, BytesAccounted, BytesAt, Cached, Active

\* A block taken from the backend.
LEMMA GrantAccount ==
  ASSUME PoolInv, AccountInv, NEW p \in Ptr, NEW size \in Nat, heap[p] = 0,
         heap' = [heap EXCEPT ![p] = size], pooled_bytes' = pooled_bytes,
         active_bytes' = active_bytes + size,
         Cached' = Cached, Active' = Active \cup {p}
  PROVE  AccountInv'
<1>1. p \notin Cached /\ p \notin Active
  BY DEF PoolInv, Ownership, Cached, Active
<1>2. /\ \A q \in Ptr : heap[q] \in Nat /\ heap'[q] \in Nat
      /\ \A q \in Ptr \ {p} : heap'[q] = heap[q]
      /\ heap'[p] = size
  BY AccountFacts DEF PoolInv, TypeOK
<1>3. IsFiniteSet(Cached) /\ IsFiniteSet(Active)
  BY DEF AccountInv
<1>a. /\ \A q \in Cached : heap[q] \in Nat /\ heap'[q] = heap[q]
      /\ \A q \in Active : heap[q] \in Nat /\ heap'[q] = heap[q]
      /\ \A q \in Active \cup {p} : heap'[q] \in Nat
  BY <1>1, <1>2 DEF Cached, Active
<1>4. /\ BytesAt(heap', Cached) = BytesAt(heap, Cached)
      /\ BytesAt(heap', Active) = BytesAt(heap, Active)
  <2> DEFINE h == heap'
             C == Cached
             K == Active
  <2>1. /\ IsFiniteSet(C) /\ \A q \in C : heap[q] \in Nat /\ h[q] = heap[q]
        /\ IsFiniteSet(K) /\ \A q \in K : heap[q] \in Nat /\ h[q] = heap[q]
    BY <1>3, <1>a
  <2> HIDE DEF h, C, K
  <2>2. BytesAt(h, C) = BytesAt(heap, C)
    BY <2>1, BytesUnchanged
  <2>3. BytesAt(h, K) = BytesAt(heap, K)
    BY <2>1, BytesUnchanged
  <2> QED BY <2>2, <2>3 DEF h, C, K
<1>6. /\ IsFiniteSet(Active \cup {p})
      /\ BytesAt(heap', Active \cup {p}) = BytesAt(heap', Active) + size
  <2> DEFINE h == heap'
             S == Active
  <2>1. p \notin S /\ IsFiniteSet(S) /\ \A q \in S \cup {p} : h[q] \in Nat
    BY <1>1, <1>3, <1>a
  <2> HIDE DEF h, S
  <2>2. IsFiniteSet(S \cup {p}) /\ BytesAt(h, S \cup {p}) = BytesAt(h, S) + h[p]
    BY <2>1, BytesPlusOne
  <2> QED BY <1>2, <2>2 DEF h, S
<1> QED BY <1>3, <1>4, <1>6, AccountFacts, AccountIs

\* A block the pool kept.
LEMMA ReuseAccount ==
  ASSUME PoolInv, AccountInv, NEW p \in Cached, heap' = heap,
         pooled_bytes' = pooled_bytes - heap[p], active_bytes' = active_bytes + heap[p],
         Cached' = Cached \ {p}, Active' = Active \cup {p}
  PROVE  AccountInv'
<1>1. IsFiniteSet(Cached) /\ IsFiniteSet(Active)
  BY DEF AccountInv
<1>2. p \in Ptr /\ p \notin Active
  BY AccountFacts
<1>3. (\A q \in Cached : heap[q] \in Nat) /\ (\A q \in Active \cup {p} : heap[q] \in Nat)
  BY <1>2, AccountFacts
<1>4. /\ IsFiniteSet(Cached \ {p})
      /\ BytesAt(heap, Cached \ {p}) = BytesAt(heap, Cached) - heap[p]
  BY <1>1, <1>3, BytesMinusOne
<1>5. /\ IsFiniteSet(Active \cup {p})
      /\ BytesAt(heap, Active \cup {p}) = BytesAt(heap, Active) + heap[p]
  BY <1>1, <1>2, <1>3, BytesPlusOne
<1> QED BY <1>4, <1>5, AccountFacts, AccountIs

\* A block that goes back to the backend.
LEMMA ReturnAccount ==
  ASSUME PoolInv, AccountInv, NEW p \in Active, heap' = [heap EXCEPT ![p] = 0],
         pooled_bytes' = pooled_bytes, active_bytes' = active_bytes - heap[p],
         Cached' = Cached, Active' = Active \ {p}
  PROVE  AccountInv'
<1>1. IsFiniteSet(Cached) /\ IsFiniteSet(Active)
  BY DEF AccountInv
<1>2. /\ p \in Ptr /\ p \notin Cached
      /\ \A q \in Ptr \ {p} : heap[q] \in Nat /\ heap'[q] = heap[q]
  BY AccountFacts DEF PoolInv, TypeOK
<1>3. \A q \in Active : heap[q] \in Nat
  BY AccountFacts
<1>4. /\ IsFiniteSet(Active \ {p})
      /\ BytesAt(heap, Active \ {p}) = BytesAt(heap, Active) - heap[p]
  BY <1>1, <1>3, BytesMinusOne
<1>a. /\ \A q \in Cached : heap[q] \in Nat /\ heap'[q] = heap[q]
      /\ \A q \in Active \ {p} : heap[q] \in Nat /\ heap'[q] = heap[q]
  BY <1>2 DEF Cached, Active
<1>5. /\ BytesAt(heap', Cached) = BytesAt(heap, Cached)
      /\ BytesAt(heap', Active \ {p}) = BytesAt(heap, Active \ {p})
  <2> DEFINE h == heap'
             C == Cached
             K == Active \ {p}
  <2>1. /\ IsFiniteSet(C) /\ \A q \in C : heap[q] \in Nat /\ h[q] = heap[q]
        /\ IsFiniteSet(K) /\ \A q \in K : heap[q] \in Nat /\ h[q] = heap[q]
    BY <1>1, <1>4, <1>a
  <2> HIDE DEF h, C, K
  <2>2. BytesAt(h, C) = BytesAt(heap, C)
    BY <2>1, BytesUnchanged
  <2>3. BytesAt(h, K) = BytesAt(heap, K)
    BY <2>1, BytesUnchanged
  <2> QED BY <2>2, <2>3 DEF h, C, K
<1> QED BY <1>1, <1>4, <1>5, AccountFacts, AccountIs

\* A block that the pool keeps.
LEMMA KeepAccount ==
  ASSUME PoolInv, AccountInv, NEW p \in Active, heap' = heap,
         pooled_bytes' = pooled_bytes + heap[p], active_bytes' = active_bytes - heap[p],
         Cached' = Cached \cup {p}, Active' = Active \ {p}
  PROVE  AccountInv'
<1>1. IsFiniteSet(Cached) /\ IsFiniteSet(Active)
  BY DEF AccountInv
<1>2. p \in Ptr /\ p \notin Cached
  BY AccountFacts
<1>3. (\A q \in Active : heap[q] \in Nat) /\ (\A q \in Cached \cup {p} : heap[q] \in Nat)
  BY <1>2, AccountFacts
<1>4. /\ IsFiniteSet(Active \ {p})
      /\ BytesAt(heap, Active \ {p}) = BytesAt(heap, Active) - heap[p]
  BY <1>1, <1>3, BytesMinusOne
<1>5. /\ IsFiniteSet(Cached \cup {p})
      /\ BytesAt(heap, Cached \cup {p}) = BytesAt(heap, Cached) + heap[p]
  BY <1>1, <1>2, <1>3, BytesPlusOne
<1> QED BY <1>4, <1>5, AccountFacts, AccountIs

LEMMA ReleaseAccount ==
  ASSUME PoolInv, AccountInv, ReleaseCache
  PROVE  AccountInv'
<1>1. Cached' = {} /\ Active' = Active
  BY ReleaseCacheInv
<1>2. /\ \A q \in Active : heap[q] \in Nat /\ heap'[q] = heap[q]
      /\ pooled_bytes' = 0 /\ active_bytes' = active_bytes
  BY AccountFacts DEF ReleaseCache, Active, PoolInv, Ownership
<1>3. IsFiniteSet(Active) /\ IsFiniteSet({})
  BY FS_EmptySet DEF AccountInv
<1>4. BytesAt(heap', Active) = BytesAt(heap, Active)
  BY <1>2, <1>3, BytesUnchanged
<1>5. BytesAt(heap', {}) = 0
  BY SumOfNone DEF BytesAt
<1> QED BY <1>1, <1>2, <1>3, <1>4, <1>5, AccountFacts, AccountIs

LEMMA InitAccount == Init => AccountInv
<1> SUFFICES ASSUME Init PROVE AccountInv
  OBVIOUS
<1>1. Cached = {} /\ Active = {}
  BY EmptySeq DEF Init, Cached, Active, IsFree, IsActive, NoBlock
<1> QED BY <1>1, FS_EmptySet, SumOfNone DEF Init, AccountInv, BytesAccounted, Cached, Active

LEMMA StepAccount == PoolInv /\ AccountInv /\ [Next]_vars => AccountInv'
<1> SUFFICES ASSUME PoolInv, AccountInv, [Next]_vars PROVE AccountInv'
  OBVIOUS
<1>1. ASSUME NEW n \in Sizes, NEW p \in Ptr, AllocateDirect(n, p) PROVE AccountInv'
  <2>1. Cached' = Cached /\ Active' = Active \cup {p}
    BY <1>1, AllocateDirectInv
  <2> QED BY <1>1, <2>1, GrantAccount, SizeAssumption DEF AllocateDirect
<1>2. ASSUME NEW n \in Sizes, NEW p \in Ptr, AllocateNew(n, p) PROVE AccountInv'
  <2>1. Cached' = Cached /\ Active' = Active \cup {p}
    BY <1>2, AllocateNewInv
  <2>2. BucketSizes[BucketIndex(n)] \in Nat
    BY <1>2, BucketIndexFits, BucketFacts DEF AllocateNew
  <2> QED BY <1>2, <2>1, <2>2, GrantAccount DEF AllocateNew
<1>3. ASSUME NEW n \in Sizes, AllocateCached(n) PROVE AccountInv'
  <2> DEFINE block == Head(free_blocks[BucketIndex(n)])
             p == block.ptr
  <2>1. /\ p \in Cached /\ block.size = heap[p]
        /\ Cached' = Cached \ {p} /\ Active' = Active \cup {p}
    BY <1>3, AllocateCachedInv
  <2>2. /\ heap' = heap /\ pooled_bytes' = pooled_bytes - block.size
        /\ active_bytes' = active_bytes + block.size
    BY <1>3 DEF AllocateCached
  <2> HIDE DEF block, p
  <2> QED BY <2>1, <2>2, ReuseAccount
<1>4. ASSUME NEW p \in Ptr, DeallocateToBackend(p) PROVE AccountInv'
  <2>1. Cached' = Cached /\ Active' = Active \ {p}
    BY <1>4, DeallocateToBackendInv
  <2>2. p \in Active /\ active_blocks[p].size = heap[p]
    BY <1>4, AccountFacts DEF DeallocateToBackend, Active
  <2> QED BY <1>4, <2>1, <2>2, ReturnAccount DEF DeallocateToBackend
<1>5. ASSUME NEW p \in Ptr, DeallocateToPool(p) PROVE AccountInv'
  <2>1. Cached' = Cached \cup {p} /\ Active' = Active \ {p}
    BY <1>5, DeallocateToPoolInv
  <2>2. p \in Active /\ active_blocks[p].size = heap[p]
    BY <1>5, AccountFacts DEF DeallocateToPool, Active
  <2> QED BY <1>5, <2>1, <2>2, KeepAccount DEF DeallocateToPool
<1>6. CASE ReleaseCache
  BY <1>6, ReleaseAccount
<1>7. CASE UNCHANGED vars
  <2>1. Cached' = Cached /\ Active' = Active
    BY <1>7 DEF vars, Cached, Active, IsFree, IsActive, Buckets
  <2>2. IsFiniteSet(Cached) /\ IsFiniteSet(Active)
    BY DEF AccountInv
  <2> QED BY <1>7, <2>1, <2>2, AccountFacts, AccountIs DEF vars
<1> QED BY <1>1, <1>2, <1>3, <1>4, <1>5, <1>6, <1>7 DEF Next

\* pooled_bytes_ and active_bytes_ are exactly the bytes in the free lists and
\* in the callers' hands, after any number of allocations, reuses, evictions
\* and releases; so the unsigned counters never wrap.
THEOREM BytesAreAccounted == Spec => []BytesAccounted
<1>1. Init => PoolInv /\ AccountInv
  BY InitInv, InitAccount
<1>2. PoolInv /\ AccountInv /\ [Next]_vars => (PoolInv /\ AccountInv)'
  BY StepInv, StepAccount
<1>3. AccountInv => BytesAccounted
  BY DEF AccountInv
<1> QED BY <1>1, <1>2, <1>3, PTL DEF Spec

-----------------------------------------------------------------------------
LEMMA InitImplements == Init => Promise!Init
BY DEF Init, Promise!Init

LEMMA GrantImplements ==
  ASSUME PoolInv, NEW p \in Ptr, NEW n \in Sizes, ~IsActive(p),
         held' = [held EXCEPT ![p] = n]
  PROVE  Promise!Next
<1>1. held[p] \in Nat /\ ~(held[p] > 0)
  BY NaturalSizes DEF PoolInv, BlocksFit
<1>2. held[p] = 0
  BY <1>1
<1> QED BY <1>2 DEF Promise!Next, Promise!Allocate

LEMMA GiveBackImplements ==
  ASSUME PoolInv, NEW p \in Ptr, IsActive(p), held' = [held EXCEPT ![p] = 0]
  PROVE  Promise!Next
<1>1. held[p] > 0
  BY DEF PoolInv, BlocksFit
<1> QED BY <1>1 DEF Promise!Next, Promise!Deallocate

\* Every step of the pool is an allocation of memory nobody holds, a
\* deallocation, or invisible to the callers.
LEMMA StepImplements == PoolInv /\ [Next]_vars => [Promise!Next]_held
<1> SUFFICES ASSUME PoolInv, [Next]_vars, held' # held PROVE Promise!Next
  OBVIOUS
<1>1. ASSUME NEW n \in Sizes, NEW p \in Ptr,
             AllocateDirect(n, p) \/ AllocateNew(n, p)
      PROVE  Promise!Next
  <2>1. ~IsActive(p) /\ held' = [held EXCEPT ![p] = n]
    BY <1>1 DEF AllocateDirect, AllocateNew, PoolInv, Ownership
  <2> QED BY <2>1, GrantImplements
<1>2. ASSUME NEW n \in Sizes, AllocateCached(n) PROVE Promise!Next
  <2> DEFINE b == BucketIndex(n)
             p == Head(free_blocks[b]).ptr
  <2>1. b \in Buckets
    BY <1>2, BucketIndexFits DEF AllocateCached
  <2>2. /\ Len(free_blocks[b]) \in Nat \ {0}
        /\ Head(free_blocks[b]) = free_blocks[b][1]
    BY <1>2, <2>1, FreeEntries, EmptySeq, HeadTailProperties
    DEF AllocateCached, PoolInv
  <2>3. p \in Ptr /\ IsFree(p)
    BY <2>1, <2>2, FreeEntries DEF IsFree, PoolInv
  <2>4. ~IsActive(p) /\ held' = [held EXCEPT ![p] = n]
    BY <1>2, <2>3 DEF AllocateCached, PoolInv, Ownership
  <2> QED BY <2>3, <2>4, GrantImplements
<1>3. ASSUME NEW p \in Ptr, DeallocateToBackend(p) \/ DeallocateToPool(p)
      PROVE  Promise!Next
  BY <1>3, GiveBackImplements DEF DeallocateToBackend, DeallocateToPool
<1>4. CASE ReleaseCache
  BY <1>4 DEF ReleaseCache
<1>5. CASE UNCHANGED vars
  BY <1>5 DEF vars
<1> QED BY <1>1, <1>2, <1>3, <1>4, <1>5 DEF Next

\* MemoryPool implements the interface Allocator: to its callers the caching
\* is invisible.
THEOREM PoolImplementsAllocator == Spec => ImplementsAllocator
<1>1. Init => Promise!Init
  BY InitImplements
<1>2. PoolInv /\ [Next]_vars => [Promise!Next]_held
  BY StepImplements
<1> QED BY <1>1, <1>2, PoolInvariant, PTL
        DEF Spec, ImplementsAllocator, Promise!Spec

-----------------------------------------------------------------------------
(* The constructor's table.                                                *)

LEMMA SizesGrow ==
  ASSUME NEW size \in Nat \ {0}, NEW num \in Int, NEW den \in Nat \ {0}
  PROVE  Grown(size, num, den) \in Nat \ {0} /\ Grown(size, num, den) > size
<1>1. ASSUME NEW a \in Int PROVE a \div den \in Int
  BY <1>1
<1>2. size * num + den - 1 \in Int
  OBVIOUS
<1>3. (size * num + den - 1) \div den \in Int
  BY <1>1, <1>2
<1> DEFINE product == IF GrowthIsTooSmall(num, den) THEN 2 * size
                      ELSE (size * num + den - 1) \div den
<1>4. product \in Int
  BY <1>3
<1>5. Grown(size, num, den) = IF product <= size THEN 2 * size ELSE product
  BY DEF Grown
<1> HIDE DEF product
<1> QED BY <1>4, <1>5

\* What the loop pushes from a size on, by what it pushes from the next size.
Pushed(f, size, max, num, den) ==
  IF size > max THEN << >> ELSE <<size>> \o f[Grown(size, num, den)]
\* f is what the loop pushes, from any size n steps or fewer from the end.
Pushes(f, n, max, num, den) ==
  \A s \in Nat \ {0} : s + n > max => f[s] = Pushed(f, s, max, num, den)

\* The sizes from s on: they increase from s and stay within max.
Climbs(t, s, max) ==
  /\ t \in Seq(Nat \ {0}) /\ Len(t) \in Nat
  /\ \A i \in 1 .. Len(t) : t[i] >= s /\ t[i] <= max
  /\ \A i, j \in 1 .. Len(t) : i < j => t[i] < t[j]

LEMMA ClimbOn ==
  ASSUME NEW s \in Nat \ {0}, NEW max \in Nat, s <= max, NEW next \in Nat, next > s,
         NEW t, Climbs(t, next, max)
  PROVE  Climbs(<<s>> \o t, s, max)
<1> DEFINE u == <<s>> \o t
<1>1. t \in Seq(Nat \ {0}) /\ <<s>> \in Seq(Nat \ {0}) /\ Len(<<s>>) = 1 /\ Len(t) \in Nat
  BY DEF Climbs
<1>2. u \in Seq(Nat \ {0}) /\ Len(u) = 1 + Len(t)
  BY <1>1, ConcatProperties
<1>3. u[1] = s /\ \A i \in 1 .. Len(u) : i > 1 => u[i] = t[i - 1] /\ i - 1 \in 1 .. Len(t)
  BY <1>1, <1>2, ConcatProperties
<1>4. \A i \in 1 .. Len(t) : t[i] \in Nat /\ t[i] >= next /\ t[i] <= max
  BY <1>1, ElementOfSeq DEF Climbs
<1>5. \A i \in 1 .. Len(u) : u[i] >= s /\ u[i] <= max
  <2> TAKE i \in 1 .. Len(u)
  <2>1. CASE i = 1 BY <2>1, <1>3
  <2>2. CASE i > 1 BY <2>2, <1>3, <1>4
  <2> QED BY <2>1, <2>2, <1>1, <1>2
<1>6. ASSUME NEW i \in 1 .. Len(u), NEW j \in 1 .. Len(u), i < j PROVE u[i] < u[j]
  <2>0. i \in Nat /\ j \in Nat /\ i >= 1 /\ j > 1
    BY <1>6, <1>1, <1>2
  <2>1. u[j] = t[j - 1] /\ j - 1 \in 1 .. Len(t)
    BY <1>3, <2>0
  <2>2. CASE i = 1
    BY <2>1, <2>2, <1>3, <1>4
  <2>3. CASE i > 1
    <3>1. u[i] = t[i - 1] /\ i - 1 \in 1 .. Len(t) /\ i - 1 < j - 1
      BY <1>3, <1>6, <2>0, <2>3
    <3> QED BY <3>1, <2>1 DEF Climbs
  <2> QED BY <2>0, <2>2, <2>3
<1> QED BY <1>2, <1>1, <1>5, <1>6 DEF Climbs

\* The loop can be followed n steps back from its end, for every n.
LEMMA LoopFollowed ==
  ASSUME NEW max \in Nat, NEW num \in Int, NEW den \in Nat \ {0}, NEW n \in Nat
  PROVE  \E f : f = [s \in Nat \ {0} |-> f[s]] /\ Pushes(f, n, max, num, den)
<1> DEFINE T == {k \in Nat : \E f : f = [s \in Nat \ {0} |-> f[s]] /\ Pushes(f, k, max, num, den)}
<1>1. 0 \in T
  <2> DEFINE f == [s \in Nat \ {0} |-> << >>]
  <2>1. Pushes(f, 0, max, num, den)
    BY DEF Pushes, Pushed
  <2>2. f = [s \in Nat \ {0} |-> f[s]]
    OBVIOUS
  <2> QED BY <2>1, <2>2
<1>2. ASSUME NEW k \in T PROVE k + 1 \in T
  <2>1. PICK f : f = [s \in Nat \ {0} |-> f[s]] /\ Pushes(f, k, max, num, den)
    OBVIOUS
  <2> DEFINE g == [s \in Nat \ {0} |-> Pushed(f, s, max, num, den)]
  <2>2. ASSUME NEW s \in Nat \ {0}, s + (k + 1) > max
        PROVE  g[s] = Pushed(g, s, max, num, den)
    <3>1. CASE s > max BY <3>1 DEF Pushed
    <3>2. CASE ~(s > max)
      <4> DEFINE next == Grown(s, num, den)
      <4>1. next \in Nat \ {0} /\ next > s
        BY SizesGrow
      <4> HIDE DEF next
      <4>2. next + k > max
        BY <2>2, <4>1
      <4>3. f[next] = g[next]
        BY <2>1, <4>1, <4>2 DEF Pushes
      <4> QED BY <3>2, <4>3 DEF Pushed, next
    <3> QED BY <3>1, <3>2
  <2>3. Pushes(g, k + 1, max, num, den)
    BY <2>2 DEF Pushes
  <2>4. g = [s \in Nat \ {0} |-> g[s]] /\ k + 1 \in Nat
    OBVIOUS
  <2> QED BY <2>3, <2>4
<1> HIDE DEF T
<1>3. T \in SUBSET Nat
  BY DEF T
<1>4. n \in T
  BY <1>1, <1>2, <1>3, NumberInduction
<1> QED BY <1>4 DEF T

\* The recursion has a solution, and what it pushes climbs from the size given.
LEMMA LoopEnds ==
  ASSUME NEW max \in Nat, NEW num \in Int, NEW den \in Nat \ {0}
  PROVE  \E f : f = [s \in Nat \ {0} |-> Pushed(f, s, max, num, den)]
<1>1. max + 1 \in Nat
  OBVIOUS
<1>2. PICK f : f = [s \in Nat \ {0} |-> f[s]] /\ Pushes(f, max + 1, max, num, den)
  BY <1>1, LoopFollowed
<1>3. \A s \in Nat \ {0} : s + (max + 1) > max
  OBVIOUS
<1>4. \A s \in Nat \ {0} : f[s] = Pushed(f, s, max, num, den)
  BY <1>2, <1>3 DEF Pushes
<1> QED BY <1>2, <1>4

LEMMA LoopClimbs ==
  ASSUME NEW max \in Nat, NEW num \in Int, NEW den \in Nat \ {0},
         NEW f, f = [s \in Nat \ {0} |-> Pushed(f, s, max, num, den)]
  PROVE  \A s \in Nat \ {0} : Climbs(f[s], s, max)
<1> DEFINE T == {k \in Nat : \A s \in Nat \ {0} : s + k > max => Climbs(f[s], s, max)}
<1>0. \A s \in Nat \ {0} : f[s] = Pushed(f, s, max, num, den)
  OBVIOUS
<1>1. ASSUME NEW s \in Nat \ {0}, s > max PROVE Climbs(f[s], s, max)
  <2>1. f[s] = << >>
    BY <1>0, <1>1 DEF Pushed
  <2> QED BY <2>1 DEF Climbs
<1>2. 0 \in T
  BY <1>1
<1>3. ASSUME NEW k \in T PROVE k + 1 \in T
  <2>1. ASSUME NEW s \in Nat \ {0}, s + (k + 1) > max PROVE Climbs(f[s], s, max)
    <3>1. CASE s > max BY <3>1, <1>1
    <3>2. CASE ~(s > max)
      <4> DEFINE next == Grown(s, num, den)
      <4>1. next \in Nat \ {0} /\ next > s
        BY SizesGrow
      <4>2. f[s] = <<s>> \o f[next]
        BY <1>0, <3>2 DEF Pushed
      <4> HIDE DEF next
      <4>3. next + k > max
        BY <2>1, <4>1
      <4>4. Climbs(f[next], next, max)
        BY <1>3, <4>1, <4>3
      <4>5. s <= max /\ next \in Nat
        BY <3>2, <4>1
      <4>6. Climbs(<<s>> \o f[next], s, max)
        BY <4>1, <4>4, <4>5, ClimbOn
      <4> QED BY <4>2, <4>6
    <3> QED BY <3>1, <3>2
  <2> QED BY <2>1
<1> HIDE DEF T
<1>4. T \in SUBSET Nat
  BY DEF T
<1>5. max + 1 \in T
  BY <1>2, <1>3, <1>4, NumberInduction
<1>6. \A s \in Nat \ {0} : s + (max + 1) > max
  OBVIOUS
<1> QED BY <1>5, <1>6 DEF T

\* For every minimum, maximum and growth factor, those at or below one
\* included, the constructor's loop ends with sizes that increase strictly, are
\* positive and reach max_bucket_size: what the pool's other methods rely on.
\* (memory_pool.cc:12-34)
THEOREM ConstructorTable ==
  ASSUME NEW min \in Nat \ {0}, NEW max \in Nat \ {0}, NEW num \in Int, NEW den \in Nat \ {0}
  PROVE  /\ Table(min, max, num, den) \in Seq(Nat \ {0})
         /\ IsBucketTable(Table(min, max, num, den), max)
<1> DEFINE Loop(f) == f = [s \in Nat \ {0} |-> Pushed(f, s, max, num, den)]
           from == CHOOSE f : Loop(f)
           visited == from[min]
           short == visited = << >> \/ (visited # << >> /\ visited[Len(visited)] < max)
           t == IF short THEN Append(visited, max) ELSE visited
<1>1. Table(min, max, num, den) = t
  BY DEF Table, Pushed
<1>2. \E f : Loop(f)
  <2>1. PICK f : f = [s \in Nat \ {0} |-> Pushed(f, s, max, num, den)]
    <3>1. max \in Nat
      OBVIOUS
    <3> QED BY <3>1, LoopEnds
  <2>2. Loop(f)
    BY <2>1
  <2> HIDE DEF Loop
  <2> QED BY <2>2
<1> HIDE DEF Loop
<1>3. Loop(from)
  BY <1>2
<1> HIDE DEF from
<1>4. Climbs(visited, min, max)
  BY <1>3, LoopClimbs DEF Loop
<1> HIDE DEF visited
<1>5. /\ visited \in Seq(Nat \ {0}) /\ Len(visited) \in Nat
      /\ \A i \in 1 .. Len(visited) : visited[i] \in Nat /\ visited[i] <= max
      /\ \A i, j \in 1 .. Len(visited) : i < j => visited[i] < visited[j]
  BY <1>4, ElementOfSeq DEF Climbs
<1>6. visited # << >> => Len(visited) \in 1 .. Len(visited)
  BY <1>5, EmptySeq
<1>7. CASE short
  <2>1. /\ t \in Seq(Nat \ {0}) /\ Len(t) = Len(visited) + 1 /\ t[Len(t)] = max
        /\ \A i \in 1 .. Len(visited) : t[i] = visited[i]
    BY <1>5, <1>7, AppendProperties
  <2>2. \A i \in 1 .. Len(visited) : visited[i] < max
    <3> SUFFICES ASSUME NEW i \in 1 .. Len(visited) PROVE visited[i] < max
      OBVIOUS
    <3>1. visited # << >>
      BY <1>5
    <3>2. visited[Len(visited)] < max
      BY <3>1, <1>7
    <3>3. CASE i = Len(visited) BY <3>2, <3>3
    <3>4. CASE i < Len(visited) BY <3>2, <3>4, <1>5, <1>6, <3>1
    <3> QED BY <3>3, <3>4, <1>5
  <2>3. ASSUME NEW i \in 1 .. Len(t), NEW j \in 1 .. Len(t), i < j PROVE t[i] < t[j]
    <3>1. i \in 1 .. Len(visited)
      BY <2>1, <2>3, <1>5
    <3>2. CASE j = Len(t) BY <3>1, <3>2, <2>1, <2>2
    <3>3. CASE j # Len(t)
      <4>1. j \in 1 .. Len(visited)
        BY <2>1, <3>3, <1>5
      <4> QED BY <4>1, <3>1, <2>1, <2>3, <1>5
    <3> QED BY <3>2, <3>3
  <2>4. t # << >>
    BY <2>1, <1>5
  <2> QED BY <1>1, <2>1, <2>3, <2>4 DEF IsBucketTable
<1>8. CASE ~short
  <2>1. visited # << >> /\ t = visited /\ visited[Len(visited)] = max
    BY <1>8, <1>5, <1>6
  <2> QED BY <1>1, <2>1, <1>5 DEF IsBucketTable
<1> QED BY <1>7, <1>8
=============================================================================
