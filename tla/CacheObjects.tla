----------------------------- MODULE CacheObjects ----------------------------
(***************************************************************************)
(* The decoder caches as the code builds them: AttentionKVCache            *)
(* (src/ops/attention.{h,cc}) and DeltaNetCache (src/ops/delta_net.{h,cc}),*)
(* one of each per layer, over reference-counted device buffers, and the   *)
(* clone / swap helpers with which generate() keeps a scratch copy         *)
(* (src/generator.cc, lines 185-244).                                      *)
(*                                                                         *)
(* Both kinds of cache hold two buffers: keys and values, one row per      *)
(* token, or convolution state and recurrent state, which are functions of *)
(* all tokens absorbed. A buffer's content is a sequence of tokens: its    *)
(* rows, or the tokens its state is a function of.                         *)
(*                                                                         *)
(* The host does one thing at a time; every buffer copy and every layer is *)
(* a step, and any of them may fail. A failure ends the call: the scratch  *)
(* caches, which are locals of generate(), go, and the generator's own are *)
(* not read again before the next call has reset them.                     *)
(***************************************************************************)
EXTENDS Integers, Sequences, FiniteSets

CONSTANTS
  Token,
  Junk,           \* what memory holds that nobody has written
  Buf, NoBuf,     \* device buffers, by number; the null pointer
  NumLayers,
  LinearLayers,   \* the DeltaNet layers, the others are attention layers
  Capacities,     \* max_cache_len of the calls
  Inputs,         \* what forward passes read
  ConvDType       \* element type of the activations, hence of conv_state

Layers == 1 .. NumLayers
AttentionLayers == Layers \ LinearLayers
Objects == {"live", "scratch"}
Families == {"attention", "deltanet"}

ASSUME CacheAssumption ==
  /\ NumLayers \in Nat \ {0} /\ LinearLayers \subseteq Layers
  /\ Capacities \subseteq Nat \ {0}
  /\ Inputs \subseteq Seq(Token) \ {<< >>}
  /\ Junk \notin Token
  /\ Buf \subseteq Nat /\ NoBuf \in Int \ Nat

VARIABLES
  heap,    \* content of each buffer
  cache,   \* cache[o][f][l]: a cache object
  cap,     \* max_cache_len of the call; 0 between calls
  op,      \* the operation under way
  phase    \* how the scratch caches relate to the live ones

vars == <<heap, cache, cap, op, phase>>

\* first and second are key and value, or conv_state and recurrent_state;
\* capacity is unused in a DeltaNetCache. Faulty variant: -1 for no capacity.
NoCacheUnset == [first |-> NoBuf, second |-> NoBuf, length |-> 0, capacity |-> -1]
NoCache == [first |-> NoBuf, second |-> NoBuf, length |-> 0, capacity |-> 0]
NoCaches == [f \in Families |-> [l \in Layers |-> NoCache]]
initialized(c) == c.first # NoBuf /\ c.second # NoBuf

NoOp == [kind |-> "idle"]
ForwardOp(o, ids, l, stage) ==
  [kind |-> "forward", obj |-> o, ids |-> ids, layer |-> l, stage |-> stage]
CloneOp(l, f, stage, a, b) ==
  [kind |-> "clone", layer |-> l, family |-> f, stage |-> stage,
   first |-> a, second |-> b]

Init ==
  /\ heap = [b \in Buf |-> << >>]
  /\ cache = [o \in Objects |-> NoCaches]
  /\ cap = 0 /\ op = NoOp /\ phase = "none"

\* A buffer is free when no tensor and no local of clone() refers to it.
InCaches == UNION {{cache[o][f][l].first, cache[o][f][l].second} :
                     o \in Objects, f \in Families, l \in Layers}
InClone == IF op.kind = "clone" THEN {op.first, op.second} ELSE {}
Free == Buf \ (InCaches \cup InClone)

\* The buffers the next allocations return.
FreshPairs ==
  {p \in Free \X Free : p[1] < p[2] /\ \A b \in Free : b = p[1] \/ b >= p[2]}
Fresh == {p[1] : p \in FreshPairs}

\* What a buffer holds is not followed once nobody refers to it.
Kept(bufs) == [b \in Buf |-> IF b \in bufs THEN heap[b] ELSE << >>]

-----------------------------------------------------------------------------
\* generate() starts by resetting the generator's caches.
Begin(c) ==
  /\ op = NoOp
  /\ cap' = c /\ phase' = "none"
  /\ cache' = [o \in Objects |-> NoCaches]
  /\ heap' = Kept({})
  /\ UNCHANGED op

\* A step of the call failed, or the call is over.
Finish ==
  /\ cap > 0
  /\ cap' = 0 /\ op' = NoOp /\ phase' = "none"
  /\ cache' = [cache EXCEPT !["scratch"] = NoCaches]
  /\ heap' = Kept({b \in Buf : \E f \in Families, l \in Layers :
                     b \in {cache["live"][f][l].first, cache["live"][f][l].second}})

\* Only fresh copies are used for scratch work.
Forward(o, ids) ==
  /\ op = NoOp /\ cap > 0
  /\ o = "scratch" => phase = "copy"
  /\ op' = ForwardOp(o, ids, 1, "first")
  /\ UNCHANGED <<heap, cache, cap, phase>>

\* What a forward pass makes of the scratch caches' relation to the live ones.
PhaseAfter(o) ==
  IF o = "scratch" THEN "ahead"
  ELSE IF phase \in {"copy", "behind"} THEN "behind" ELSE "none"

NextLayer ==
  IF op.layer < NumLayers
  THEN op' = [op EXCEPT !.layer = @ + 1, !.stage = "first"] /\ UNCHANGED phase
  ELSE op' = NoOp /\ phase' = PhaseAfter(op.obj)

\* Rows from position n on.
Write(rows, n, ids) ==
  [i \in DOMAIN rows |-> IF i \in n + 1 .. n + Len(ids) THEN ids[i - n] ELSE rows[i]]

\* A new buffer of n rows.
Unwritten(n) == [i \in 1 .. n |-> Junk]

\* The buffers an attention layer works on: allocated by the first pass, and
\* rejected by a pass with another max_cache_len.
KvBuffers(c) ==
  IF initialized(c)
  THEN IF c.capacity = cap THEN {<<c.first, c.second>>} ELSE {}
  ELSE FreshPairs
KvRows(c, b) == IF initialized(c) THEN heap[b] ELSE Unwritten(cap)

Attend ==
  LET c == cache[op.obj]["attention"][op.layer]
      n == Len(op.ids)
  IN /\ op.kind = "forward" /\ op.layer \in AttentionLayers
     /\ c.length + n <= cap
     /\ \E p \in KvBuffers(c) :
          /\ heap' = [heap EXCEPT ![p[1]] = Write(KvRows(c, p[1]), c.length, op.ids),
                                  ![p[2]] = Write(KvRows(c, p[2]), c.length, op.ids)]
          /\ cache' = [cache EXCEPT ![op.obj]["attention"][op.layer] =
               [first |-> p[1], second |-> p[2],
                length |-> c.length + n, capacity |-> cap]]
     /\ NextLayer /\ UNCHANGED cap

\* The convolution: a missing state is allocated and zeroed first.
Convolve ==
  LET c == cache[op.obj]["deltanet"][op.layer] IN
  /\ op.kind = "forward" /\ op.layer \in LinearLayers /\ op.stage = "first"
  /\ \E b \in (IF c.first = NoBuf THEN Fresh ELSE {c.first}) :
       /\ heap' = [heap EXCEPT ![b] = (IF c.first = NoBuf THEN << >> ELSE @) \o op.ids]
       /\ cache' = [cache EXCEPT ![op.obj]["deltanet"][op.layer].first = b]
  /\ op' = [op EXCEPT !.stage = "second"]
  /\ UNCHANGED <<cap, phase>>

Recur ==
  LET c == cache[op.obj]["deltanet"][op.layer] IN
  /\ op.kind = "forward" /\ op.layer \in LinearLayers /\ op.stage = "second"
  /\ \E b \in (IF c.second = NoBuf THEN Fresh ELSE {c.second}) :
       /\ heap' = [heap EXCEPT ![b] = (IF c.second = NoBuf THEN << >> ELSE @) \o op.ids]
       /\ cache' = [cache EXCEPT ![op.obj]["deltanet"][op.layer] =
            [c EXCEPT !.second = b, !.length = @ + Len(op.ids)]]
  /\ NextLayer /\ UNCHANGED cap

-----------------------------------------------------------------------------
\* clone_decoder_caches(): layer by layer, attention before DeltaNet.
Clone ==
  /\ op = NoOp /\ cap > 0
  /\ op' = CloneOp(1, "attention", "first", NoBuf, NoBuf)
  /\ UNCHANGED <<heap, cache, cap, phase>>

NextCache ==
  IF op.family = "attention"
  THEN op' = CloneOp(op.layer, "deltanet", "first", NoBuf, NoBuf) /\ UNCHANGED phase
  ELSE IF op.layer < NumLayers
  THEN /\ op' = CloneOp(op.layer + 1, "attention", "first", NoBuf, NoBuf)
       /\ UNCHANGED phase
  ELSE op' = NoOp /\ phase' = "copy"

Source == cache["live"][op.family][op.layer]
Destination == cache["scratch"][op.family][op.layer]

\* A cache that is not complete is copied as an empty one.
CloneNothing ==
  /\ op.kind = "clone" /\ op.stage = "first"
  /\ ~initialized(Source)
  /\ cache' = [cache EXCEPT !["scratch"][op.family][op.layer] = NoCache]
  /\ NextCache /\ UNCHANGED <<heap, cap>>

\* The destination's own buffers are reused when they fit. Faulty variants:
\* never; and the source's buffers are taken instead.
CloneBuffersFresh == FreshPairs
CloneBuffersShared == {<<Source.first, Source.second>>}
CloneBuffers ==
  IF initialized(Destination) /\ Destination.capacity = Source.capacity
  THEN {<<Destination.first, Destination.second>>}
  ELSE FreshPairs

CopyFirst(f) ==
  /\ op.kind = "clone" /\ op.family = f /\ op.stage = "first"
  /\ initialized(Source)
  /\ \E p \in CloneBuffers :
       /\ heap' = [heap EXCEPT ![p[1]] = heap[Source.first], ![p[2]] =
                     IF p[2] \in Free THEN << >> ELSE @]
       /\ op' = CloneOp(op.layer, f, "second", p[1], p[2])
  /\ UNCHANGED <<cache, cap, phase>>

CopySecond(f) ==
  /\ op.kind = "clone" /\ op.family = f /\ op.stage = "second"
  /\ heap' = [heap EXCEPT ![op.second] = heap[Source.second]]
  /\ op' = [op EXCEPT !.stage = "publish"]
  /\ UNCHANGED <<cache, cap, phase>>

\* The copy is published with the source's length. Faulty variant: the
\* destination keeps its own.
PublishKeepsLength(f) ==
  /\ op.kind = "clone" /\ op.family = f /\ op.stage = "publish"
  /\ cache' = [cache EXCEPT !["scratch"][f][op.layer] =
       [Source EXCEPT !.first = op.first, !.second = op.second,
                      !.length = Destination.length]]
  /\ NextCache /\ UNCHANGED <<heap, cap>>
Publish(f) ==
  /\ op.kind = "clone" /\ op.family = f /\ op.stage = "publish"
  /\ cache' = [cache EXCEPT !["scratch"][f][op.layer] =
       [Source EXCEPT !.first = op.first, !.second = op.second]]
  /\ NextCache /\ UNCHANGED <<heap, cap>>

CloneAttention ==
  CopyFirst("attention") \/ CopySecond("attention") \/ Publish("attention")
CloneDeltaNet ==
  CopyFirst("deltanet") \/ CopySecond("deltanet") \/ Publish("deltanet")

\* swap_decoder_caches(), after the scratch caches went ahead. Faulty variant:
\* the DeltaNet caches stay where they are.
SwapAttentionOnly ==
  [o \in Objects |-> [f \in Families |->
     IF f = "deltanet" THEN cache[o][f]
     ELSE cache[IF o = "live" THEN "scratch" ELSE "live"][f]]]
Swapped ==
  [o \in Objects |-> cache[IF o = "live" THEN "scratch" ELSE "live"]]
Swap ==
  /\ op = NoOp /\ phase = "ahead"
  /\ cache' = Swapped
  /\ phase' = "none"
  /\ UNCHANGED <<heap, cap, op>>

-----------------------------------------------------------------------------
\* truncate() accepts every length up to the capacity.
CanTruncate(c, n) == 0 <= n /\ n <= c.capacity /\ (initialized(c) \/ n = 0)

\* restore() swaps in a checkpoint that is complete and compatible; within
\* one model shapes and devices agree. The recurrent state is always FP32.
RecurrentDType == "FP32"
CanRestore(c, checkpoint) ==
  /\ (c.first = NoBuf) = (c.second = NoBuf)
  /\ initialized(checkpoint)
  /\ ConvDType = RecurrentDType

\* The use the two operations are documented for (nothing in src/ does it
\* yet): the live caches went on from a checkpoint, and go back to it.
\* Faulty variant: only the logical length of a DeltaNet cache goes back.
RolledBackByLength ==
  [cache EXCEPT !["live"] =
     [f \in Families |-> [l \in Layers |->
        [cache["live"][f][l] EXCEPT !.length = cache["scratch"][f][l].length]]]]
RolledBack ==
  [o \in Objects |->
     [attention |-> [l \in Layers |-> IF o = "live"
         THEN [cache[o]["attention"][l] EXCEPT
                 !.length = cache["scratch"]["attention"][l].length]
         ELSE cache[o]["attention"][l]],
      deltanet |-> Swapped[o]["deltanet"]]]
Rollback ==
  /\ op = NoOp /\ phase = "behind"
  /\ \A l \in AttentionLayers :
       CanTruncate(cache["live"]["attention"][l],
                   cache["scratch"]["attention"][l].length)
  /\ \A l \in LinearLayers :
       CanRestore(cache["live"]["deltanet"][l], cache["scratch"]["deltanet"][l])
  /\ cache' = RolledBack
  /\ phase' = "none"
  /\ UNCHANGED <<heap, cap, op>>

-----------------------------------------------------------------------------
Call ==
  \/ \E c \in Capacities : Begin(c)
  \/ \E o \in Objects, ids \in Inputs : Forward(o, ids)
  \/ Clone \/ Swap \/ Rollback \/ Finish

Step ==
  \/ Attend \/ Convolve \/ Recur
  \/ CloneNothing \/ CloneAttention \/ CloneDeltaNet

Next == Call \/ Step

Spec == Init /\ [][Next]_vars

-----------------------------------------------------------------------------
TypeOK ==
  /\ heap \in [Buf -> Seq(Token \cup {Junk})]
  /\ cache \in [Objects -> [Families -> [Layers ->
       [first : Buf \cup {NoBuf}, second : Buf \cup {NoBuf},
        length : Nat, capacity : Capacities \cup {0}]]]]
  /\ cap \in Capacities \cup {0}
  /\ op.kind \in {"idle", "forward", "clone"}
  /\ phase \in {"none", "copy", "ahead", "behind"}

\* "The destination owns separate K/V storage" (attention.h): no buffer is
\* referred to twice, neither by two caches nor as both halves of one, so
\* that no write through one tensor shows in another. (clone, swap, restore)
Refs == Objects \X Families \X Layers \X {"first", "second"}
BufferAt(r) == cache[r[1]][r[2]][r[3]][r[4]]
IndependentStorage ==
  \A r, q \in Refs : r # q /\ BufferAt(r) = BufferAt(q) => BufferAt(r) = NoBuf

\* Scratch copies cost one further set of buffers, however many rounds a call
\* makes: clone() reuses what the last round left. (attention.cc:56-73)
StorageBound == Cardinality((InCaches \cup InClone) \ {NoBuf}) <= 4 * NumLayers

\* The slots of an object, and what each of them has absorbed; attention rows
\* beyond length do not count.
Slots == (AttentionLayers \X {"kv"}) \cup (LinearLayers \X {"conv", "recurrent"})

Rows(b, n) == SubSeq(heap[b], 1, n)
State(b) == IF b = NoBuf THEN << >> ELSE heap[b]
Content(o, s) ==
  LET c == cache[o][IF s[2] = "kv" THEN "attention" ELSE "deltanet"][s[1]] IN
  CASE s[2] = "conv" -> State(c.first)
    [] s[2] = "recurrent" -> State(c.second)
    [] s[2] = "kv" -> IF ~initialized(c) THEN << >>
                      ELSE IF Rows(c.first, c.length) = Rows(c.second, c.length)
                      THEN Rows(c.first, c.length)
                      ELSE <<Junk>>
contents == [o \in Objects |-> [s \in Slots |-> Content(o, s)]]

\* Between operations all layers of the live caches, and of a scratch copy
\* still in use, have absorbed the same text, and the lengths the caches carry
\* are its length: what target_forward assumes of the caches it is given.
\* (generator.cc:550-634)
LayersInStep ==
  op = NoOp /\ cap > 0 =>
    \A o \in IF phase = "none" THEN {"live"} ELSE Objects :
      /\ \A s, t \in Slots : Content(o, s) = Content(o, t)
      /\ \A s \in Slots :
           cache[o][IF s[2] = "kv" THEN "attention" ELSE "deltanet"][s[1]].length
             = Len(Content(o, s))

\* A scratch copy that was not used for a forward pass still is what was
\* copied, and one that was extends it: the live text is a prefix of the
\* verified one, or the checkpoint a prefix of the live one.
IsPrefixOf(s, t) == Len(s) <= Len(t) /\ SubSeq(t, 1, Len(s)) = s
ScratchFollowsPhase ==
  op = NoOp =>
    \A s \in Slots :
      LET l == Content("live", s)
          x == Content("scratch", s)
      IN /\ phase = "copy" => l = x
         /\ phase = "ahead" => l # x /\ IsPrefixOf(l, x)
         /\ phase = "behind" => l # x /\ IsPrefixOf(x, l)

\* Cloning and work on the clone, whether it succeeds or not, leave what the
\* live caches hold alone: they "can be discarded without mutating this
\* cache" (attention.h).
OnScratch == op.kind = "clone" \/ (op.kind = "forward" /\ op.obj = "scratch")
ScratchWorkIsIsolated == [][OnScratch => contents'["live"] = contents["live"]]_vars

\* The caches implement values.
Values == INSTANCE CacheValues WITH value <- contents
RefinesCacheValues == Values!Spec

\* "The checkpoint ... can be restored after speculative work" (delta_net.h):
\* restore() takes back every checkpoint of the caches it came from.
CheckpointCanBeRestored ==
  op = NoOp /\ phase \in {"copy", "behind"} =>
    \A l \in LinearLayers :
      initialized(cache["scratch"]["deltanet"][l]) =>
        CanRestore(cache["live"]["deltanet"][l], cache["scratch"]["deltanet"][l])
=============================================================================
