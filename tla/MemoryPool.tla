----------------------------- MODULE MemoryPool -----------------------------
(***************************************************************************)
(* memory::MemoryPool (src/memory/memory_pool.{h,cc}): a caching allocator *)
(* that rounds requests up to bucket sizes and keeps freed blocks in a     *)
(* FIFO free list per bucket, up to a limit of retained bytes. Requests    *)
(* above the largest bucket bypass the lists.                              *)
(*                                                                         *)
(* Every public method that changes the pool runs under one mutex, so it   *)
(* is one step here. A method that fails (the backend has no memory, the   *)
(* pointer is unknown, the size is zero) changes nothing.                  *)
(***************************************************************************)
EXTENDS Integers, Sequences, Functions

CONSTANTS
  Ptr,              \* addresses the backend allocator may return
  Sizes,            \* sizes callers request
  BucketSizes,      \* bucket_sizes_, as the constructor computed it
  MinBucketSize,    \* options_.min_bucket_size
  MaxBucketSize,    \* options_.max_bucket_size
  MaxPooledBytes    \* options_.max_pooled_bytes; 0 is no limit

Buckets == 1 .. Len(BucketSizes)

ASSUME SizeAssumption ==
  /\ Sizes \subseteq Nat \ {0}
  /\ MinBucketSize \in Nat \ {0} /\ MaxBucketSize \in Nat \ {0}
  /\ MaxPooledBytes \in Nat

\* What the constructor's loop establishes: increasing sizes, the last one at
\* least max_bucket_size.
ASSUME BucketAssumption ==
  /\ BucketSizes \in Seq(Nat \ {0}) /\ BucketSizes # << >>
  /\ \A i, j \in Buckets : i < j => BucketSizes[i] < BucketSizes[j]
  /\ BucketSizes[Len(BucketSizes)] >= MaxBucketSize

VARIABLES
  heap,           \* heap[p]: bytes the backend has allocated at p, or 0
  free_blocks,    \* free_blocks_: per bucket, a queue of blocks
  active_blocks,  \* active_blocks_: bucket and size per pointer, or NoBlock
  held,           \* held[p]: bytes the caller holding p asked for, or 0
  pooled_bytes,
  active_bytes

vars == <<heap, free_blocks, active_blocks, held, pooled_bytes, active_bytes>>

\* Blocks outside the buckets carry the marker SIZE_MAX.
Direct == 0
NoBlock == [bucket |-> 0, size |-> 0]
IsActive(p) == active_blocks[p].size > 0

\* bucket_index: the first bucket that is large enough, or the last one.
\* Faulty variant: rounds down.
BucketBelow(n) ==
  CHOOSE b \in Buckets :
    \/ /\ \A i \in Buckets : i > b => BucketSizes[i] > n
       /\ BucketSizes[b] <= n
    \/ b = 1 /\ \A i \in Buckets : BucketSizes[i] > n
BucketIndex(n) ==
  LET requested == IF n < MinBucketSize THEN MinBucketSize ELSE n
      Large == {b \in Buckets : BucketSizes[b] >= requested}
  IN CHOOSE b \in Buckets :
       IF Large = {} THEN b = Len(BucketSizes)
       ELSE b \in Large /\ \A i \in Large : b <= i

Init ==
  /\ heap = [p \in Ptr |-> 0]
  /\ free_blocks = [b \in Buckets |-> << >>]
  /\ active_blocks = [p \in Ptr |-> NoBlock]
  /\ held = [p \in Ptr |-> 0]
  /\ pooled_bytes = 0 /\ active_bytes = 0

-----------------------------------------------------------------------------
\* The backend returns memory that is not in use. Faulty variant: small
\* requests bypass the buckets too.
AllocateUnrounded(n, p) ==
  /\ heap[p] = 0
  /\ heap' = [heap EXCEPT ![p] = n]
  /\ active_blocks' = [active_blocks EXCEPT ![p] = [bucket |-> Direct, size |-> n]]
  /\ held' = [held EXCEPT ![p] = n]
  /\ active_bytes' = active_bytes + n
  /\ UNCHANGED <<free_blocks, pooled_bytes>>
AllocateDirect(n, p) ==
  /\ n > MaxBucketSize
  /\ heap[p] = 0
  /\ heap' = [heap EXCEPT ![p] = n]
  /\ active_blocks' = [active_blocks EXCEPT ![p] = [bucket |-> Direct, size |-> n]]
  /\ held' = [held EXCEPT ![p] = n]
  /\ active_bytes' = active_bytes + n
  /\ UNCHANGED <<free_blocks, pooled_bytes>>

\* The oldest free block of the bucket is handed out. Faulty variant: it
\* stays in the free list.
PeekCached(n) ==
  LET b == BucketIndex(n)
      block == Head(free_blocks[b])
  IN /\ n <= MaxBucketSize
     /\ free_blocks[b] # << >>
     /\ active_blocks' =
          [active_blocks EXCEPT ![block.ptr] = [bucket |-> b, size |-> block.size]]
     /\ held' = [held EXCEPT ![block.ptr] = n]
     /\ active_bytes' = active_bytes + block.size
     /\ pooled_bytes' = pooled_bytes - block.size
     /\ UNCHANGED <<heap, free_blocks>>
AllocateCached(n) ==
  LET b == BucketIndex(n)
      block == Head(free_blocks[b])
  IN /\ n <= MaxBucketSize
     /\ free_blocks[b] # << >>
     /\ free_blocks' = [free_blocks EXCEPT ![b] = Tail(@)]
     /\ active_blocks' =
          [active_blocks EXCEPT ![block.ptr] = [bucket |-> b, size |-> block.size]]
     /\ held' = [held EXCEPT ![block.ptr] = n]
     /\ active_bytes' = active_bytes + block.size
     /\ pooled_bytes' = pooled_bytes - block.size
     /\ UNCHANGED heap

AllocateNew(n, p) ==
  LET b == BucketIndex(n) IN
  /\ n <= MaxBucketSize
  /\ free_blocks[b] = << >>
  /\ heap[p] = 0
  /\ heap' = [heap EXCEPT ![p] = BucketSizes[b]]
  /\ active_blocks' =
       [active_blocks EXCEPT ![p] = [bucket |-> b, size |-> BucketSizes[b]]]
  /\ held' = [held EXCEPT ![p] = n]
  /\ active_bytes' = active_bytes + BucketSizes[b]
  /\ UNCHANGED <<free_blocks, pooled_bytes>>

-----------------------------------------------------------------------------
\* Whether a freed block would put the pool over its high-water mark.
\* Faulty variant: the block itself is not counted.
AlreadyOverMark(n) == MaxPooledBytes > 0 /\ pooled_bytes > MaxPooledBytes
OverMark(n) == MaxPooledBytes > 0 /\ pooled_bytes + n > MaxPooledBytes

\* A direct block, or one the pool may not retain, goes back to the backend.
DeallocateToBackend(p) ==
  /\ IsActive(p)
  /\ active_blocks[p].bucket = Direct \/ OverMark(active_blocks[p].size)
  /\ heap' = [heap EXCEPT ![p] = 0]
  /\ active_bytes' = active_bytes - active_blocks[p].size
  /\ active_blocks' = [active_blocks EXCEPT ![p] = NoBlock]
  /\ held' = [held EXCEPT ![p] = 0]
  /\ UNCHANGED <<free_blocks, pooled_bytes>>

\* Any other block joins the free list of its bucket. Faulty variant: the
\* retained bytes are not counted.
DeallocateUncounted(p) ==
  LET block == active_blocks[p] IN
  /\ IsActive(p)
  /\ block.bucket # Direct /\ ~OverMark(block.size)
  /\ free_blocks' = [free_blocks EXCEPT
       ![block.bucket] = Append(@, [ptr |-> p, size |-> block.size])]
  /\ active_bytes' = active_bytes - block.size
  /\ active_blocks' = [active_blocks EXCEPT ![p] = NoBlock]
  /\ held' = [held EXCEPT ![p] = 0]
  /\ UNCHANGED <<heap, pooled_bytes>>
DeallocateToPool(p) ==
  LET block == active_blocks[p] IN
  /\ IsActive(p)
  /\ block.bucket # Direct /\ ~OverMark(block.size)
  /\ free_blocks' = [free_blocks EXCEPT
       ![block.bucket] = Append(@, [ptr |-> p, size |-> block.size])]
  /\ active_bytes' = active_bytes - block.size
  /\ pooled_bytes' = pooled_bytes + block.size
  /\ active_blocks' = [active_blocks EXCEPT ![p] = NoBlock]
  /\ held' = [held EXCEPT ![p] = 0]
  /\ UNCHANGED heap

\* Every free block goes back to the backend; the destructor does the same.
\* Faulty variant: the free lists are cleared without freeing the blocks.
IsFree(p) == \E b \in Buckets : \E i \in 1 .. Len(free_blocks[b]) :
               free_blocks[b][i].ptr = p
ForgetCache ==
  /\ free_blocks' = [b \in Buckets |-> << >>]
  /\ pooled_bytes' = 0
  /\ UNCHANGED <<heap, active_blocks, held, active_bytes>>
ReleaseCache ==
  /\ heap' = [p \in Ptr |-> IF IsFree(p) THEN 0 ELSE heap[p]]
  /\ free_blocks' = [b \in Buckets |-> << >>]
  /\ pooled_bytes' = 0
  /\ UNCHANGED <<active_blocks, held, active_bytes>>

Next ==
  \/ \E n \in Sizes, p \in Ptr : AllocateDirect(n, p) \/ AllocateNew(n, p)
  \/ \E n \in Sizes : AllocateCached(n)
  \/ \E p \in Ptr : DeallocateToBackend(p) \/ DeallocateToPool(p)
  \/ ReleaseCache

Spec == Init /\ [][Next]_vars

-----------------------------------------------------------------------------
Blocks == [ptr : Ptr, size : Nat]

\* What the backend is asked for: whole buckets and oversized requests.
BackendSizes ==
  {BucketSizes[b] : b \in Buckets} \cup {n \in Sizes : n > MaxBucketSize}

TypeOK ==
  /\ heap \in [Ptr -> BackendSizes \cup {0}]
  /\ held \in [Ptr -> Sizes \cup {0}]
  /\ free_blocks \in [Buckets -> Seq(Blocks)]
  /\ active_blocks \in [Ptr -> [bucket : Buckets \cup {Direct}, size : Nat]]
  /\ pooled_bytes \in Int /\ active_bytes \in Int

\* A pointer is queued once, in one free list.
FreeOnce ==
  \A b, c \in Buckets :
    \A i \in 1 .. Len(free_blocks[b]), j \in 1 .. Len(free_blocks[c]) :
      free_blocks[b][i].ptr = free_blocks[c][j].ptr => b = c /\ i = j

\* Memory the backend has given out is either in a caller's hands or in a
\* free list, never in both and never in neither: no block is handed to two
\* callers, used after it went back to the backend, or leaked.
Ownership ==
  /\ FreeOnce
  /\ \A p \in Ptr : ~(IsActive(p) /\ IsFree(p))
  /\ \A p \in Ptr : heap[p] > 0 <=> IsActive(p) \/ IsFree(p)

\* A block's recorded size is what the backend allocated, a pooled block has
\* the size of its bucket, and a caller gets at least what it asked for.
BlocksFit ==
  /\ \A b \in Buckets : \A i \in 1 .. Len(free_blocks[b]) :
       /\ free_blocks[b][i].size = BucketSizes[b]
       /\ heap[free_blocks[b][i].ptr] = BucketSizes[b]
  /\ \A p \in Ptr : IsActive(p) =>
       /\ active_blocks[p].size = heap[p]
       /\ active_blocks[p].bucket # Direct =>
            heap[p] = BucketSizes[active_blocks[p].bucket]
  /\ \A p \in Ptr : (held[p] > 0 <=> IsActive(p)) /\ held[p] <= heap[p]

\* The pool retains no more than its high-water mark.
WithinMark == MaxPooledBytes > 0 => pooled_bytes <= MaxPooledBytes

\* pooled_bytes() and active_bytes() are the bytes in the free lists and in
\* the callers' hands; in particular the unsigned counters never wrap.
BytesAccounted ==
  /\ pooled_bytes = SumFunctionOnSet(heap, {p \in Ptr : IsFree(p)})
  /\ active_bytes = SumFunctionOnSet(heap, {p \in Ptr : IsActive(p)})

\* To its callers the pool is an allocator: it never grants memory that is
\* already granted.
Promise == INSTANCE Allocator WITH live <- held
ImplementsAllocator == Promise!Spec
=============================================================================
