-------------------------- MODULE CacheObjectsProofs --------------------------
(***************************************************************************)
(* Proofs that the decoder caches behave as values although they are       *)
(* reference-counted buffers which clone(), swap() and restore() move      *)
(* about: for any number of layers of either kind, tokens, capacities and  *)
(* buffers, and whichever step of whichever operation fails.               *)
(***************************************************************************)
EXTENDS CacheObjects, SequenceTheorems, FiniteSetTheorems, TLAPS

-----------------------------------------------------------------------------
\* The inductive invariant.

Rowed == Seq(Token \cup {Junk})
CacheRecords ==
  [first : Buf \cup {NoBuf}, second : Buf \cup {NoBuf},
   length : Nat, capacity : Capacities \cup {0}]
ForwardOps ==
  [kind : {"forward"}, obj : Objects, ids : Inputs, layer : Layers,
   stage : {"first", "second"}]
CloneOps ==
  [kind : {"clone"}, layer : Layers, family : Families,
   stage : {"first", "second", "publish"},
   first : Buf \cup {NoBuf}, second : Buf \cup {NoBuf}]

\* Content(o, s) with heap h and caches k.
StateOf(h, b) == IF b = NoBuf THEN << >> ELSE h[b]
RowsOf(h, c) ==
  IF ~initialized(c) THEN << >>
  ELSE IF SubSeq(h[c.first], 1, c.length) = SubSeq(h[c.second], 1, c.length)
  THEN SubSeq(h[c.first], 1, c.length)
  ELSE <<Junk>>
ValueOf(h, c, half) ==
  IF half = "conv" THEN StateOf(h, c.first)
  ELSE IF half = "recurrent" THEN StateOf(h, c.second)
  ELSE RowsOf(h, c)
FamilyOf(s) == IF s[2] = "kv" THEN "attention" ELSE "deltanet"
CacheOf(k, o, s) == k[o][FamilyOf(s)][s[1]]
ContentOf(h, k, o, s) == ValueOf(h, CacheOf(k, o, s), s[2])

\* Slot s of object o has absorbed x, and its cache's length says so.
SlotIs(h, k, o, s, x) ==
  /\ ContentOf(h, k, o, s) = x
  /\ s[2] # "conv" => CacheOf(k, o, s).length = Len(x)

\* The slots that the operation p has dealt with.
Advanced(p, o, s) ==
  /\ p.kind = "forward" /\ p.obj = o
  /\ s[1] < p.layer \/ (s[1] = p.layer /\ s[2] = "conv" /\ p.stage = "second")
Copied(p, s) ==
  s[1] < p.layer \/ (s[1] = p.layer /\ p.family = "deltanet" /\ s[2] = "kv")

TypeInv ==
  /\ heap \in [Buf -> Rowed]
  /\ cache \in [Objects -> [Families -> [Layers -> CacheRecords]]]
  /\ cap \in Capacities \cup {0}
  /\ op \in {NoOp} \cup ForwardOps \cup CloneOps
  /\ phase \in {"none", "copy", "ahead", "behind"}

OpInv ==
  /\ op # NoOp \/ phase # "none" => cap > 0
  /\ op.kind = "forward" =>
       /\ op.stage = "second" => op.layer \in LinearLayers
       /\ op.obj = "scratch" => phase = "copy"

\* A cache is empty or complete, but for the one that a forward pass, which
\* may be one that has failed, is giving its first states.
AttentionShape(h, c, l, n) ==
  \/ c = NoCache
  \/ /\ l \in AttentionLayers /\ c.first \in Buf /\ c.second \in Buf
     /\ Len(h[c.first]) = c.capacity /\ Len(h[c.second]) = c.capacity
     /\ c.length <= c.capacity /\ (n > 0 => c.capacity = n)
DeltaNetShape(c, l, half) ==
  \/ c = NoCache
  \/ /\ l \in LinearLayers /\ c.capacity = 0 /\ c.first \in Buf
     /\ c.second \in Buf \/ half
HalfDone(p, n, o, l) ==
  n = 0 \/ (p.kind = "forward" /\ p.obj = o /\ p.layer = l /\ p.stage = "second")
ShapeInv ==
  \A o \in Objects, l \in Layers :
    /\ AttentionShape(heap, cache[o]["attention"][l], l, cap)
    /\ DeltaNetShape(cache[o]["deltanet"][l], l, HalfDone(op, cap, o, l))

Buffers(c) == {c.first, c.second}
Disjoint(c, d) == \A b \in Buf : b \in Buffers(c) => b \notin Buffers(d)
ApartInv ==
  \A o, o2 \in Objects, f, f2 \in Families, l, l2 \in Layers :
    /\ cache[o][f][l].first \in Buf => cache[o][f][l].first # cache[o][f][l].second
    /\ <<o, f, l>> # <<o2, f2, l2>> => Disjoint(cache[o][f][l], cache[o2][f2][l2])

\* The buffers that clone() fills are the destination's or nobody's, and hold
\* what has been copied.
CloneInv ==
  op.kind = "clone" =>
    \/ op.stage = "first" /\ op.first = NoBuf /\ op.second = NoBuf
    \/ /\ op.stage \in {"second", "publish"}
       /\ initialized(Source)
       /\ op.first \in Buf /\ op.second \in Buf /\ op.first # op.second
       /\ \/ op.first = Destination.first /\ op.second = Destination.second
          \/ Destination = NoCache /\ op.first \notin InCaches /\ op.second \notin InCaches
       /\ heap[op.first] = heap[Source.first]
       /\ op.stage = "publish" => heap[op.second] = heap[Source.second]

\* x and y are the texts of the live and of the scratch caches when no
\* operation is under way.
Related(ph, x, y) ==
  /\ ph = "copy" => x = y
  /\ ph = "ahead" => x # y /\ IsPrefixOf(x, y)
  /\ ph = "behind" => x # y /\ IsPrefixOf(y, x)

Expected(p, o, s, x) == IF Advanced(p, o, s) THEN x \o p.ids ELSE x
Texts(h, k, p, ph, x, y) ==
  /\ \A s \in Slots : SlotIs(h, k, "live", s, Expected(p, "live", s, x))
  /\ p.kind # "clone" /\ ph # "none" =>
       \A s \in Slots : SlotIs(h, k, "scratch", s, Expected(p, "scratch", s, y))
  /\ p.kind # "clone" => Related(ph, x, y)
  /\ p.kind = "clone" => \A s \in Slots : Copied(p, s) => SlotIs(h, k, "scratch", s, x)

TextInv ==
  cap > 0 => \E x, y \in Seq(Token) : Texts(heap, cache, op, phase, x, y)

CacheInv ==
  TypeInv /\ OpInv /\ ShapeInv /\ ApartInv /\ CloneInv /\ TextInv

-----------------------------------------------------------------------------
\* Contents.

LEMMA Constants ==
  /\ NoBuf \notin Buf /\ Buf \subseteq Nat /\ Junk \notin Token
  /\ Capacities \subseteq Nat \ {0} /\ NumLayers \in Nat \ {0}
  /\ \A ids \in Inputs : ids \in Seq(Token) /\ ids \in Rowed /\ Len(ids) \in Nat \ {0}
  /\ NoCache.first = NoBuf /\ NoCache.second = NoBuf
  /\ NoCache.length = 0 /\ NoCache.capacity = 0 /\ NoCache \in CacheRecords
  /\ ~initialized(NoCache)
<1>1. /\ NoBuf \notin Buf /\ Buf \subseteq Nat /\ Junk \notin Token
      /\ Capacities \subseteq Nat \ {0} /\ NumLayers \in Nat \ {0}
      /\ Inputs \subseteq Seq(Token) \ {<< >>}
  BY CacheAssumption
<1>2. ASSUME NEW ids \in Inputs
      PROVE  ids \in Seq(Token) /\ ids \in Rowed /\ Len(ids) \in Nat \ {0}
  <2>1. ids \in Seq(Token) /\ Len(ids) \in Nat \ {0}
    BY <1>1, EmptySeq
  <2> QED BY <2>1 DEF Rowed
<1>3. /\ NoCache.first = NoBuf /\ NoCache.second = NoBuf
      /\ NoCache.length = 0 /\ NoCache.capacity = 0 /\ NoCache \in CacheRecords
  BY DEF NoCache, CacheRecords
<1> QED BY <1>1, <1>2, <1>3 DEF initialized

LEMMA SlotFacts ==
  ASSUME NEW s \in Slots
  PROVE  /\ s = <<s[1], s[2]>> /\ s[1] \in Layers /\ s[1] \in Nat
         /\ \/ s[2] = "kv" /\ s[1] \in AttentionLayers /\ s[1] \notin LinearLayers
            \/ s[2] \in {"conv", "recurrent"} /\ s[1] \in LinearLayers
         /\ FamilyOf(s) \in Families
<1>1. LinearLayers \subseteq Layers /\ Layers \subseteq Nat
  BY CacheAssumption DEF Layers
<1>2. CASE s \in AttentionLayers \X {"kv"}
  <2>1. PICK l \in AttentionLayers : s = <<l, "kv">>
    BY <1>2
  <2>2. s[1] = l /\ s[2] = "kv" /\ l \in Layers /\ l \notin LinearLayers /\ l \in Nat
    BY <1>1, <2>1 DEF AttentionLayers
  <2> QED BY <2>1, <2>2 DEF FamilyOf, Families
<1>3. CASE s \in LinearLayers \X {"conv", "recurrent"}
  <2>1. PICK l \in LinearLayers, h \in {"conv", "recurrent"} : s = <<l, h>>
    BY <1>3
  <2>2. s[1] = l /\ s[2] = h /\ l \in Layers /\ l \in Nat
    BY <1>1, <2>1
  <2> QED BY <2>1, <2>2 DEF FamilyOf, Families
<1> QED BY <1>2, <1>3 DEF Slots

\* The text of a cache depends on its own buffers only.
LEMMA ValueKept ==
  ASSUME NEW c \in CacheRecords, NEW h, NEW h2, NEW half,
         \A b \in Buf : b \in Buffers(c) => h2[b] = h[b]
  PROVE  ValueOf(h2, c, half) = ValueOf(h, c, half)
<1>1. /\ c.first # NoBuf => h2[c.first] = h[c.first]
      /\ c.second # NoBuf => h2[c.second] = h[c.second]
  BY DEF CacheRecords, Buffers
<1> QED BY <1>1 DEF ValueOf, StateOf, RowsOf, initialized

LEMMA EmptyValue ==
  ASSUME NEW h, NEW half
  PROVE  ValueOf(h, NoCache, half) = << >>
BY Constants DEF ValueOf, StateOf, RowsOf

LEMMA JunkRow == <<Junk>> \notin Seq(Token)
<1> SUFFICES ASSUME <<Junk>> \in Seq(Token) PROVE FALSE
  OBVIOUS
<1>1. 1 \in 1 .. Len(<<Junk>>) /\ <<Junk>>[1] = Junk
  OBVIOUS
<1>2. <<Junk>>[1] \in Token
  BY <1>1, ElementOfSeq
<1> QED BY <1>1, <1>2, Constants

\* Rows of length n, and the rows that a pass writes after them.
LEMMA FirstRows ==
  ASSUME NEW rows \in Rowed, NEW n \in Nat, n <= Len(rows)
  PROVE  /\ SubSeq(rows, 1, n) \in Rowed /\ Len(SubSeq(rows, 1, n)) = n
         /\ \A i \in 1 .. n : SubSeq(rows, 1, n)[i] = rows[i]
<1>1. Len(rows) \in Nat /\ n \in Int /\ \A i \in 1 .. n : i \in 1 .. Len(rows)
  BY LenProperties DEF Rowed
<1>2. \A i \in 1 .. n : rows[i] \in Token \cup {Junk}
  BY <1>1, ElementOfSeq DEF Rowed
<1>3. /\ SubSeq(rows, 1, n) \in Rowed
      /\ Len(SubSeq(rows, 1, n)) = IF 1 <= n THEN n - 1 + 1 ELSE 0
      /\ \A i \in 1 .. n - 1 + 1 : SubSeq(rows, 1, n)[i] = rows[1 + i - 1]
  BY <1>1, <1>2, SubSeqProperties DEF Rowed
<1>4. n - 1 + 1 = n /\ \A i \in 1 .. n : 1 + i - 1 = i
  OBVIOUS
<1>5. Len(SubSeq(rows, 1, n)) = n
  BY <1>3, <1>4
<1> QED BY <1>3, <1>4, <1>5

LEMMA RowsWritten ==
  ASSUME NEW rows \in Rowed, NEW n \in Nat, NEW ids \in Inputs, n + Len(ids) <= Len(rows)
  PROVE  /\ Write(rows, n, ids) \in Rowed /\ Len(Write(rows, n, ids)) = Len(rows)
         /\ SubSeq(Write(rows, n, ids), 1, n + Len(ids)) = SubSeq(rows, 1, n) \o ids
<1> DEFINE w == Write(rows, n, ids)
           k == Len(ids)
           m == Len(rows)
<1>1. /\ ids \in Rowed /\ k \in Nat /\ m \in Nat /\ DOMAIN rows = 1 .. m
      /\ n <= m /\ n + k \in Nat /\ n + k <= m
  <2>1. ids \in Rowed /\ k \in Nat /\ m \in Nat /\ DOMAIN rows = 1 .. m
    BY Constants, LenProperties DEF Rowed
  <2> HIDE DEF k, m
  <2> QED BY <2>1 DEF k, m
<1>2. \A i \in 1 .. m : i \in n + 1 .. n + k => i - n \in 1 .. k
  BY <1>1
<1>3. w = [i \in 1 .. m |-> IF i \in n + 1 .. n + k THEN ids[i - n] ELSE rows[i]]
  BY <1>1 DEF Write
<1>4. w \in Rowed /\ Len(w) = m
  <2>1. \A i \in 1 .. m : (IF i \in n + 1 .. n + k THEN ids[i - n] ELSE rows[i])
                           \in Token \cup {Junk}
    BY <1>1, <1>2, ElementOfSeq DEF Rowed
  <2>2. w \in [1 .. m -> Token \cup {Junk}]
    BY <1>3, <2>1
  <2>3. w \in Rowed
    BY <1>1, <2>2, SeqDef DEF Rowed
  <2>4. DOMAIN w = 1 .. m /\ DOMAIN w = 1 .. Len(w) /\ Len(w) \in Nat
    BY <1>3, <2>3, LenProperties DEF Rowed
  <2> QED BY <1>1, <2>3, <2>4
<1> DEFINE a == SubSeq(w, 1, n + k)
           p == SubSeq(rows, 1, n)
<1>5. a \in Rowed /\ Len(a) = n + k /\ \A i \in 1 .. n + k : a[i] = w[i]
  <2> HIDE DEF w, k
  <2> QED BY <1>1, <1>4, FirstRows
<1>6. p \in Rowed /\ Len(p) = n /\ \A i \in 1 .. n : p[i] = rows[i]
  BY <1>1, FirstRows
<1> HIDE DEF a, p, w
<1>7. /\ p \o ids \in Rowed /\ Len(p \o ids) = n + k
      /\ \A i \in 1 .. n + k : (p \o ids)[i] = IF i <= n THEN p[i] ELSE ids[i - n]
  BY <1>1, <1>6, ConcatProperties DEF Rowed
<1>8. ASSUME NEW i \in 1 .. n + k PROVE a[i] = (p \o ids)[i]
  <2>0. i \in 1 .. m /\ w[i] = IF i \in n + 1 .. n + k THEN ids[i - n] ELSE rows[i]
    BY <1>1, <1>3
  <2>1. CASE i <= n
    <3>1. i \in 1 .. n /\ i \notin n + 1 .. n + k
      BY <1>1, <2>1
    <3> QED BY <1>5, <1>6, <1>7, <2>0, <2>1, <3>1
  <2>2. CASE ~ i <= n
    <3>1. i \in n + 1 .. n + k
      BY <1>1, <2>2
    <3> QED BY <1>5, <1>7, <2>0, <2>2, <3>1
  <2> QED BY <2>1, <2>2
<1>9. a = p \o ids
  BY <1>5, <1>7, <1>8, SeqEqual DEF Rowed
<1> QED BY <1>4, <1>9 DEF a, p, w

\* A new buffer holds no text.
LEMMA NewRows ==
  ASSUME NEW n \in Nat
  PROVE  Unwritten(n) \in Rowed /\ Len(Unwritten(n)) = n
<1>1. Unwritten(n) \in [1 .. n -> Token \cup {Junk}]
  BY DEF Unwritten
<1>2. Unwritten(n) \in Rowed
  BY <1>1, SeqDef DEF Rowed
<1>3. DOMAIN Unwritten(n) = 1 .. n
  BY DEF Unwritten
<1>4. Len(Unwritten(n)) \in Nat /\ DOMAIN Unwritten(n) = 1 .. Len(Unwritten(n))
  BY <1>2, LenProperties DEF Rowed
<1> QED BY <1>2, <1>3, <1>4

-----------------------------------------------------------------------------
\* What the steps have in common: one cache changes, and only buffers are
\* written that no other cache refers to.

Only(o, f, l, w) ==
  /\ \A b \in Buf \ w : heap'[b] = heap[b]
  /\ \A o2 \in Objects, f2 \in Families, l2 \in Layers :
       <<o2, f2, l2>> # <<o, f, l>> =>
         /\ cache'[o2][f2][l2] = cache[o2][f2][l2]
         /\ \A b \in w : b \notin Buffers(cache[o2][f2][l2])

LEMMA Elsewhere ==
  ASSUME TypeInv, NEW o \in Objects, NEW f \in Families, NEW l \in Layers, NEW w,
         Only(o, f, l, w), NEW o2 \in Objects, NEW s \in Slots,
         <<o2, FamilyOf(s), s[1]>> # <<o, f, l>>
  PROVE  /\ CacheOf(cache', o2, s) = CacheOf(cache, o2, s)
         /\ ContentOf(heap', cache', o2, s) = ContentOf(heap, cache, o2, s)
<1> DEFINE c == cache[o2][FamilyOf(s)][s[1]]
<1>1. FamilyOf(s) \in Families /\ s[1] \in Layers
  BY SlotFacts
<1>2. c \in CacheRecords
  BY <1>1 DEF TypeInv
<1>3. /\ cache'[o2][FamilyOf(s)][s[1]] = c
      /\ \A b \in Buf : b \in Buffers(c) => heap'[b] = heap[b]
  BY <1>1 DEF Only
<1> HIDE DEF c
<1>4. ValueOf(heap', c, s[2]) = ValueOf(heap, c, s[2])
  BY <1>2, <1>3, ValueKept
<1> QED BY <1>3, <1>4 DEF CacheOf, ContentOf, c

LEMMA ApartKept ==
  ASSUME TypeInv, ApartInv, NEW o \in Objects, NEW f \in Families, NEW l \in Layers,
         NEW w, Only(o, f, l, w),
         cache'[o][f][l].first \in Buf => cache'[o][f][l].first # cache'[o][f][l].second,
         Buffers(cache'[o][f][l]) \cap Buf \subseteq w \cup Buffers(cache[o][f][l])
  PROVE  ApartInv'
<1>1. ASSUME NEW o2 \in Objects, NEW f2 \in Families, NEW l2 \in Layers,
             <<o2, f2, l2>> # <<o, f, l>>
      PROVE  /\ Disjoint(cache'[o][f][l], cache'[o2][f2][l2])
             /\ Disjoint(cache'[o2][f2][l2], cache'[o][f][l])
  <2>1. Disjoint(cache[o][f][l], cache[o2][f2][l2])
    BY <1>1 DEF ApartInv
  <2>2. /\ cache'[o2][f2][l2] = cache[o2][f2][l2]
        /\ \A b \in w : b \notin Buffers(cache[o2][f2][l2])
    BY <1>1 DEF Only
  <2> QED BY <2>1, <2>2 DEF Disjoint
<1>2. ASSUME NEW o2 \in Objects, NEW f2 \in Families, NEW l2 \in Layers
      PROVE  cache'[o2][f2][l2].first \in Buf =>
               cache'[o2][f2][l2].first # cache'[o2][f2][l2].second
  <2>1. CASE <<o2, f2, l2>> = <<o, f, l>>
    BY <2>1
  <2>2. CASE <<o2, f2, l2>> # <<o, f, l>>
    BY <2>2 DEF Only, ApartInv
  <2> QED BY <2>1, <2>2
<1>3. ASSUME NEW o2 \in Objects, NEW f2 \in Families, NEW l2 \in Layers,
             NEW o3 \in Objects, NEW f3 \in Families, NEW l3 \in Layers,
             <<o2, f2, l2>> # <<o3, f3, l3>>
      PROVE  Disjoint(cache'[o2][f2][l2], cache'[o3][f3][l3])
  <2>1. CASE <<o2, f2, l2>> = <<o, f, l>>
    BY <1>1, <1>3, <2>1
  <2>2. CASE <<o3, f3, l3>> = <<o, f, l>>
    BY <1>1, <1>3, <2>2
  <2>3. CASE <<o2, f2, l2>> # <<o, f, l>> /\ <<o3, f3, l3>> # <<o, f, l>>
    <3>1. /\ cache'[o2][f2][l2] = cache[o2][f2][l2]
          /\ cache'[o3][f3][l3] = cache[o3][f3][l3]
      BY <2>3 DEF Only
    <3>2. Disjoint(cache[o2][f2][l2], cache[o3][f3][l3])
      BY <1>3 DEF ApartInv
    <3> QED BY <3>1, <3>2
  <2> QED BY <2>1, <2>2, <2>3
<1> QED BY <1>2, <1>3 DEF ApartInv, Disjoint, Buffers

LEMMA ShapeKept ==
  ASSUME TypeInv, ShapeInv, NEW o \in Objects, NEW f \in Families, NEW l \in Layers,
         NEW w, Only(o, f, l, w), cap' = cap,
         f = "attention" => AttentionShape(heap', cache'[o][f][l], l, cap),
         f = "deltanet" => DeltaNetShape(cache'[o][f][l], l, HalfDone(op', cap, o, l)),
         \A o2 \in Objects, l2 \in LinearLayers :
           <<o2, "deltanet", l2>> # <<o, f, l>> /\ HalfDone(op, cap, o2, l2) =>
             HalfDone(op', cap, o2, l2)
  PROVE  ShapeInv'
<1>1. ASSUME NEW o2 \in Objects, NEW l2 \in Layers
      PROVE  AttentionShape(heap', cache'[o2]["attention"][l2], l2, cap')
  <2>1. CASE <<o2, "attention", l2>> = <<o, f, l>>
    BY <2>1
  <2>2. CASE <<o2, "attention", l2>> # <<o, f, l>>
    <3> DEFINE c == cache[o2]["attention"][l2]
    <3>1. /\ cache'[o2]["attention"][l2] = c
          /\ \A b \in Buf : b \in Buffers(c) => heap'[b] = heap[b]
      BY <2>2 DEF Only, Families
    <3>2. AttentionShape(heap, c, l2, cap)
      BY DEF ShapeInv
    <3> HIDE DEF c
    <3> QED BY <3>1, <3>2 DEF AttentionShape, Buffers
  <2> QED BY <2>1, <2>2
<1>2. ASSUME NEW o2 \in Objects, NEW l2 \in Layers
      PROVE  DeltaNetShape(cache'[o2]["deltanet"][l2], l2, HalfDone(op', cap', o2, l2))
  <2>1. CASE <<o2, "deltanet", l2>> = <<o, f, l>>
    BY <2>1
  <2>2. CASE <<o2, "deltanet", l2>> # <<o, f, l>>
    <3> DEFINE c == cache[o2]["deltanet"][l2]
    <3>1. cache'[o2]["deltanet"][l2] = c
      BY <2>2 DEF Only, Families
    <3>2. DeltaNetShape(c, l2, HalfDone(op, cap, o2, l2))
      BY DEF ShapeInv
    <3> HIDE DEF c
    <3>3. l2 \in LinearLayers /\ HalfDone(op, cap, o2, l2) => HalfDone(op', cap', o2, l2)
      BY <2>2
    <3>4. CASE c = NoCache
      BY <3>1, <3>4 DEF DeltaNetShape
    <3>5. CASE c # NoCache
      <4>1. /\ l2 \in LinearLayers /\ c.capacity = 0 /\ c.first \in Buf
            /\ c.second \in Buf \/ HalfDone(op, cap, o2, l2)
        BY <3>2, <3>5 DEF DeltaNetShape
      <4> QED BY <3>1, <3>3, <4>1 DEF DeltaNetShape
    <3> QED BY <3>4, <3>5
  <2> QED BY <2>1, <2>2
<1> QED BY <1>1, <1>2 DEF ShapeInv, AttentionShape, DeltaNetShape, HalfDone

\* Buffers that create_buffer() returns are nobody's.
LEMMA FreshFacts ==
  ASSUME NEW b \in Free
  PROVE  /\ b \in Buf /\ b \notin InClone /\ b \notin InCaches
         /\ \A o \in Objects, f \in Families, l \in Layers : b \notin Buffers(cache[o][f][l])
<1>1. b \in Buf /\ b \notin InClone /\ b \notin InCaches
  BY DEF Free
<1>2. ASSUME NEW o \in Objects, NEW f \in Families, NEW l \in Layers
      PROVE  Buffers(cache[o][f][l]) \subseteq InCaches
  <2> DEFINE all == {{cache[o2][f2][l2].first, cache[o2][f2][l2].second} :
                       o2 \in Objects, f2 \in Families, l2 \in Layers}
  <2>1. Buffers(cache[o][f][l]) \in all
    BY DEF Buffers
  <2>2. InCaches = UNION all
    BY DEF InCaches
  <2> HIDE DEF all
  <2> QED BY <2>1, <2>2
<1> QED BY <1>1, <1>2

LEMMA FreshPairFacts ==
  ASSUME NEW p \in FreshPairs
  PROVE  p[1] \in Free /\ p[2] \in Free /\ p[1] # p[2] /\ p = <<p[1], p[2]>>
<1>1. p \in Free \X Free /\ p[1] < p[2]
  BY DEF FreshPairs
<1>2. p[1] \in Nat /\ p[2] \in Nat
  BY <1>1, Constants DEF Free
<1> QED BY <1>1, <1>2

\* The buffers of a cache of its own are no other cache's.
LEMMA OwnFacts ==
  ASSUME ApartInv, NEW o \in Objects, NEW f \in Families, NEW l \in Layers,
         NEW b \in Buf, b \in Buffers(cache[o][f][l]),
         NEW o2 \in Objects, NEW f2 \in Families, NEW l2 \in Layers,
         <<o2, f2, l2>> # <<o, f, l>>
  PROVE  b \notin Buffers(cache[o2][f2][l2])
BY DEF ApartInv, Disjoint

-----------------------------------------------------------------------------
\* Forward passes.

LEMMA LongerText ==
  ASSUME NEW x \in Seq(Token), NEW ids \in Inputs
  PROVE  /\ x \o ids \in Seq(Token) /\ Len(x \o ids) = Len(x) + Len(ids)
         /\ x # x \o ids /\ IsPrefixOf(x, x \o ids)
         /\ \A y \in Seq(Token) : IsPrefixOf(y, x) => IsPrefixOf(y, x \o ids) /\ y # x \o ids
<1> DEFINE z == x \o ids
           n == Len(x)
           k == Len(ids)
<1>1. /\ z \in Seq(Token) /\ Len(z) = n + k /\ ids \in Seq(Token)
      /\ n \in Nat /\ k \in Nat \ {0}
      /\ \A i \in 1 .. n + k : z[i] = IF i <= n THEN x[i] ELSE ids[i - n]
  BY Constants, ConcatProperties, LenProperties
<1>2. \A i \in 1 .. n : i \in 1 .. n + k /\ i <= n
  BY <1>1
<1> HIDE DEF z, k
<1>3. ASSUME NEW y \in Seq(Token), IsPrefixOf(y, x)
      PROVE  IsPrefixOf(y, z) /\ y # z
  <2> DEFINE m == Len(y)
  <2>1. m \in Nat /\ m <= n /\ SubSeq(x, 1, m) = y
    BY <1>3, LenProperties DEF IsPrefixOf
  <2> HIDE DEF m, n
  <2>2. \A i \in 1 .. m : z[i] = x[i] /\ i \in 1 .. n /\ x[i] \in Token
    BY <1>1, <1>2, <2>1, ElementOfSeq DEF n
  <2>3. /\ SubSeq(x, 1, m) \in Seq(Token) /\ SubSeq(z, 1, m) \in Seq(Token)
        /\ Len(SubSeq(x, 1, m)) = Len(SubSeq(z, 1, m))
        /\ Len(SubSeq(x, 1, m)) = m
        /\ \A i \in 1 .. m - 1 + 1 : SubSeq(x, 1, m)[i] = x[1 + i - 1]
        /\ \A i \in 1 .. m - 1 + 1 : SubSeq(z, 1, m)[i] = z[1 + i - 1]
    <3>1. 1 \in Int /\ m \in Int /\ (\A i \in 1 .. m : x[i] \in Token)
          /\ (\A i \in 1 .. m : z[i] \in Token)
      BY <2>1, <2>2
    <3>2. /\ SubSeq(x, 1, m) \in Seq(Token) /\ SubSeq(z, 1, m) \in Seq(Token)
          /\ Len(SubSeq(x, 1, m)) = IF 1 <= m THEN m - 1 + 1 ELSE 0
          /\ Len(SubSeq(z, 1, m)) = IF 1 <= m THEN m - 1 + 1 ELSE 0
          /\ \A i \in 1 .. m - 1 + 1 : SubSeq(x, 1, m)[i] = x[1 + i - 1]
          /\ \A i \in 1 .. m - 1 + 1 : SubSeq(z, 1, m)[i] = z[1 + i - 1]
      BY <3>1, SubSeqProperties
    <3>3. (IF 1 <= m THEN m - 1 + 1 ELSE 0) = m
      BY <2>1
    <3> QED BY <3>2, <3>3
  <2>4. \A i \in 1 .. m : SubSeq(x, 1, m)[i] = SubSeq(z, 1, m)[i]
    <3>1. \A i \in 1 .. m : i \in 1 .. m - 1 + 1 /\ 1 + i - 1 = i
      BY <2>1
    <3> QED BY <2>2, <2>3, <3>1
  <2>5. SubSeq(z, 1, m) = y
    BY <2>1, <2>3, <2>4, SeqEqual
  <2>6. m <= n + k /\ m # n + k
    BY <1>1, <2>1
  <2> QED BY <1>1, <2>5, <2>6 DEF IsPrefixOf, m
<1>4. IsPrefixOf(x, x)
  BY <1>1, SubSeqFull DEF IsPrefixOf
<1> QED BY <1>1, <1>3, <1>4 DEF z, k

LEMMA LongerLength ==
  ASSUME NEW x \in Seq(Token), NEW ids \in Inputs, NEW n, n = Len(x)
  PROVE  n + Len(ids) = Len(x \o ids)
BY LongerText

\* Slot s0 of object o has absorbed what the pass reads.
Absorbs(o, s0) ==
  \A o2 \in Objects, s \in Slots :
    /\ ContentOf(heap', cache', o2, s) =
         IF o2 = o /\ s = s0 THEN ContentOf(heap, cache, o2, s) \o op.ids
         ELSE ContentOf(heap, cache, o2, s)
    /\ s[2] # "conv" =>
         CacheOf(cache', o2, s).length =
           IF o2 = o /\ s = s0 THEN CacheOf(cache, o2, s).length + Len(op.ids)
           ELSE CacheOf(cache, o2, s).length

\* What a step leaves, stated of the variables after it.
LEMMA TextsPrimed ==
  (cap' > 0 => \E x, y \in Seq(Token) : Texts(heap', cache', op', phase', x, y)) => TextInv'
BY DEF TextInv, Texts, SlotIs, Expected, Advanced, Copied, Related,
       ContentOf, CacheOf, ValueOf, StateOf, RowsOf, initialized

LEMMA PassSlot ==
  ASSUME op.kind = "forward", op.ids \in Inputs, NEW s0 \in Slots,
         ~Advanced(op, op.obj, s0), Absorbs(op.obj, s0),
         NEW o \in Objects, NEW x \in Seq(Token), NEW s \in Slots,
         SlotIs(heap, cache, o, s, Expected(op, o, s, x))
  PROVE  SlotIs(heap', cache', o, s,
           IF o = op.obj /\ (Advanced(op, o, s) \/ s = s0) THEN x \o op.ids ELSE x)
<1>1. CASE o = op.obj /\ s = s0
  <2>1. /\ ContentOf(heap, cache, o, s) = x
        /\ s[2] # "conv" => CacheOf(cache, o, s).length = Len(x)
    BY <1>1 DEF SlotIs, Expected
  <2>2. /\ ContentOf(heap', cache', o, s) = x \o op.ids
        /\ s[2] # "conv" => CacheOf(cache', o, s).length = Len(x \o op.ids)
    <3>1. ContentOf(heap', cache', o, s) = ContentOf(heap, cache, o, s) \o op.ids
      BY <1>1 DEF Absorbs
    <3>2. s[2] # "conv" =>
            CacheOf(cache', o, s).length = CacheOf(cache, o, s).length + Len(op.ids)
      BY <1>1 DEF Absorbs
    <3>3. Len(x) + Len(op.ids) = Len(x \o op.ids)
      BY LongerLength
    <3> QED BY <2>1, <3>1, <3>2, <3>3
  <2> QED BY <1>1, <2>2 DEF SlotIs
<1>2. CASE ~(o = op.obj /\ s = s0)
  <2>1. Expected(op, o, s, x) =
          IF o = op.obj /\ (Advanced(op, o, s) \/ s = s0) THEN x \o op.ids ELSE x
    BY <1>2 DEF Expected, Advanced
  <2>2. /\ ContentOf(heap', cache', o, s) = ContentOf(heap, cache, o, s)
        /\ s[2] # "conv" => CacheOf(cache', o, s).length = CacheOf(cache, o, s).length
    BY <1>2 DEF Absorbs
  <2> QED BY <2>1, <2>2 DEF SlotIs
<1> QED BY <1>1, <1>2

\* The pass goes on to what it has not dealt with, or is over.
GoesOn(s0) ==
  /\ op'.kind = "forward" /\ op'.obj = op.obj /\ op'.ids = op.ids /\ phase' = phase
  /\ \A s \in Slots :
       Advanced(op', op.obj, s) <=> Advanced(op, op.obj, s) \/ s = s0
Ends(s0) ==
  /\ op' = NoOp /\ phase' = PhaseAfter(op.obj)
  /\ \A s \in Slots : Advanced(op, op.obj, s) \/ s = s0

LEMMA PassText ==
  ASSUME TypeInv, OpInv, TextInv, op.kind = "forward", cap' = cap,
         NEW s0 \in Slots, ~Advanced(op, op.obj, s0), Absorbs(op.obj, s0),
         GoesOn(s0) \/ Ends(s0)
  PROVE  TextInv'
<1>1. op \in ForwardOps /\ op.ids \in Inputs /\ op.obj \in Objects /\ cap > 0
  <2>1. op \in ForwardOps
    BY DEF TypeInv, NoOp, CloneOps
  <2>2. op # NoOp
    BY DEF NoOp
  <2> QED BY <2>1, <2>2 DEF ForwardOps, OpInv
<1>2. PICK x, y \in Seq(Token) : Texts(heap, cache, op, phase, x, y)
  BY <1>1 DEF TextInv
<1>3. /\ \A s \in Slots : SlotIs(heap, cache, "live", s, Expected(op, "live", s, x))
      /\ phase # "none" =>
           \A s \in Slots : SlotIs(heap, cache, "scratch", s, Expected(op, "scratch", s, y))
      /\ Related(phase, x, y)
      /\ op.obj = "scratch" => phase = "copy"
  BY <1>2 DEF Texts, OpInv
<1>4. /\ \A s \in Slots :
           SlotIs(heap', cache', "live", s,
             IF "live" = op.obj /\ (Advanced(op, "live", s) \/ s = s0)
             THEN x \o op.ids ELSE x)
      /\ phase # "none" => \A s \in Slots :
           SlotIs(heap', cache', "scratch", s,
             IF "scratch" = op.obj /\ (Advanced(op, "scratch", s) \/ s = s0)
             THEN y \o op.ids ELSE y)
  BY <1>1, <1>3, PassSlot DEF Objects
<1>5. CASE GoesOn(s0)
  <2>1. \A o \in Objects, s \in Slots : \A z :
          Expected(op', o, s, z) =
            IF o = op.obj /\ (Advanced(op, o, s) \/ s = s0) THEN z \o op.ids ELSE z
    BY <1>5 DEF GoesOn, Expected, Advanced
  <2>2. Texts(heap', cache', op', phase', x, y)
    <3>o. "live" \in Objects /\ "scratch" \in Objects
      BY DEF Objects
    <3>1. ASSUME NEW s \in Slots
          PROVE  SlotIs(heap', cache', "live", s, Expected(op', "live", s, x))
      <4>1. Expected(op', "live", s, x) =
              IF "live" = op.obj /\ (Advanced(op, "live", s) \/ s = s0) THEN x \o op.ids ELSE x
        BY <2>1, <3>o
      <4> QED BY <1>4, <4>1
    <3>2. ASSUME NEW s \in Slots, phase' # "none"
          PROVE  SlotIs(heap', cache', "scratch", s, Expected(op', "scratch", s, y))
      <4>1. phase # "none"
        BY <1>5, <3>2 DEF GoesOn
      <4>2. Expected(op', "scratch", s, y) =
              IF "scratch" = op.obj /\ (Advanced(op, "scratch", s) \/ s = s0)
              THEN y \o op.ids ELSE y
        BY <2>1, <3>o
      <4> QED BY <1>4, <4>1, <4>2
    <3>3. Related(phase', x, y) /\ op'.kind = "forward"
      BY <1>3, <1>5 DEF GoesOn
    <3> QED BY <3>1, <3>2, <3>3 DEF Texts
  <2> QED BY <2>2, TextsPrimed
<1>6. CASE Ends(s0)
  <2>1. op'.kind = "idle"
    BY <1>6 DEF Ends, NoOp
  <2>2. \A o \in Objects, s \in Slots : \A z : Expected(op', o, s, z) = z
    BY <2>1 DEF Expected, Advanced
  <2>3. CASE op.obj = "live"
    <3>1. /\ \A s \in Slots : SlotIs(heap', cache', "live", s, x \o op.ids)
          /\ phase # "none" => \A s \in Slots : SlotIs(heap', cache', "scratch", s, y)
      BY <1>4, <1>6, <2>3 DEF Ends
    <3>2. phase' = IF phase \in {"copy", "behind"} THEN "behind" ELSE "none"
      BY <1>6, <2>3 DEF Ends, PhaseAfter
    <3>3. Related(phase', x \o op.ids, y)
      BY <1>1, <1>3, <3>2, LongerText DEF Related
    <3>4. Texts(heap', cache', op', phase', x \o op.ids, y)
      BY <2>1, <2>2, <3>1, <3>2, <3>3 DEF Texts, Objects
    <3>5. x \o op.ids \in Seq(Token)
      BY <1>1, LongerText
    <3> QED BY <3>4, <3>5, TextsPrimed
  <2>4. CASE op.obj = "scratch"
    <3>1. /\ \A s \in Slots : SlotIs(heap', cache', "live", s, x)
          /\ \A s \in Slots : SlotIs(heap', cache', "scratch", s, y \o op.ids)
      BY <1>3, <1>4, <1>6, <2>4 DEF Ends
    <3>2. phase' = "ahead" /\ x = y
      BY <1>3, <1>6, <2>4 DEF Ends, PhaseAfter, Related
    <3>3. Related(phase', x, y \o op.ids)
      BY <1>1, <3>2, LongerText DEF Related
    <3>4. Texts(heap', cache', op', phase', x, y \o op.ids)
      BY <2>1, <2>2, <3>1, <3>2, <3>3 DEF Texts, Objects
    <3>5. y \o op.ids \in Seq(Token)
      BY <1>1, LongerText
    <3> QED BY <3>4, <3>5, TextsPrimed
  <2> QED BY <1>1, <2>3, <2>4 DEF Objects
<1> QED BY <1>5, <1>6

LEMMA NextLayerFacts ==
  ASSUME TypeInv, OpInv, op.kind = "forward", cap' = cap, NextLayer,
         NEW s0 \in Slots, s0[1] = op.layer,
         s0[2] = "kv" \/ (s0[2] = "recurrent" /\ op.stage = "second")
  PROVE  /\ GoesOn(s0) \/ Ends(s0)
         /\ ~Advanced(op, op.obj, s0)
         /\ OpInv'
         /\ op' \in {NoOp} \cup ForwardOps \cup CloneOps
         /\ phase' \in {"none", "copy", "ahead", "behind"}
         /\ op'.kind # "clone"
<1>1. /\ op \in ForwardOps /\ op.layer \in Layers /\ op.layer \in Nat /\ cap > 0
      /\ op.stage \in {"first", "second"}
  <2>1. op \in ForwardOps
    BY DEF TypeInv, NoOp, CloneOps
  <2>2. op # NoOp
    BY DEF NoOp
  <2>3. op.layer \in Layers /\ op.stage \in {"first", "second"}
    BY <2>1 DEF ForwardOps
  <2> QED BY <2>1, <2>2, <2>3 DEF OpInv, Layers
<1>2. ~Advanced(op, op.obj, s0)
  BY <1>1 DEF Advanced
<1>3. ASSUME NEW s \in Slots
      PROVE  /\ s[1] \in Nat /\ s[1] \in Layers
             /\ (s[1] = op.layer /\ ~Advanced(op, op.obj, s)) <=> s = s0
  <2>1. /\ s = <<s[1], s[2]>> /\ s[1] \in Layers /\ s[1] \in Nat
        /\ \/ s[2] = "kv" /\ s[1] \notin LinearLayers
           \/ s[2] \in {"conv", "recurrent"} /\ s[1] \in LinearLayers
    BY SlotFacts
  <2>2. /\ s0 = <<s0[1], s0[2]>>
        /\ \/ s0[2] = "kv" /\ s0[1] \notin LinearLayers
           \/ s0[2] \in {"conv", "recurrent"} /\ s0[1] \in LinearLayers
    BY SlotFacts
  <2>3. s = s0 => s[1] = op.layer /\ ~Advanced(op, op.obj, s)
    BY <1>2
  <2>4. ASSUME s[1] = op.layer, ~Advanced(op, op.obj, s) PROVE s = s0
    <3>1. s[2] = s0[2]
      BY <1>1, <2>1, <2>2, <2>4 DEF Advanced
    <3> QED BY <2>1, <2>2, <2>4, <3>1
  <2> QED BY <2>1, <2>3, <2>4
<1>4. CASE op.layer < NumLayers
  <2>1. /\ op' = [op EXCEPT !.layer = op.layer + 1, !.stage = "first"] /\ phase' = phase
    BY <1>4 DEF NextLayer
  <2>2. /\ op'.kind = "forward" /\ op'.obj = op.obj /\ op'.ids = op.ids
        /\ op'.layer = op.layer + 1 /\ op'.stage = "first"
    BY <1>1, <2>1 DEF ForwardOps
  <2>3. op.layer + 1 \in Layers
    BY <1>1, <1>4, Constants DEF Layers
  <2>4. op' \in ForwardOps
    BY <1>1, <2>1, <2>3 DEF ForwardOps
  <2>5. ASSUME NEW s \in Slots
        PROVE  Advanced(op', op.obj, s) <=> Advanced(op, op.obj, s) \/ s = s0
    <3>1. Advanced(op', op.obj, s) <=> s[1] < op.layer + 1
      BY <2>2 DEF Advanced
    <3>2. s[1] < op.layer + 1 <=> s[1] < op.layer \/ s[1] = op.layer
      BY <1>1, <1>3
    <3>3. /\ s[1] < op.layer => Advanced(op, op.obj, s)
          /\ Advanced(op, op.obj, s) => s[1] < op.layer \/ s[1] = op.layer
      BY DEF Advanced
    <3> QED BY <1>3, <3>1, <3>2, <3>3
  <2>6. GoesOn(s0)
    BY <2>1, <2>2, <2>5 DEF GoesOn
  <2>7. OpInv'
    BY <1>1, <2>1, <2>2 DEF OpInv
  <2> QED BY <1>2, <2>1, <2>2, <2>4, <2>6, <2>7 DEF TypeInv
<1>5. CASE ~ op.layer < NumLayers
  <2>1. op' = NoOp /\ phase' = PhaseAfter(op.obj)
    BY <1>5 DEF NextLayer
  <2>2. \A s \in Slots : s[1] < op.layer \/ s[1] = op.layer
    BY <1>1, <1>3, <1>5, Constants DEF Layers
  <2>3. \A s \in Slots : s[1] < op.layer => Advanced(op, op.obj, s)
    BY DEF Advanced
  <2>4. Ends(s0)
    BY <1>3, <2>1, <2>2, <2>3 DEF Ends
  <2>5. op'.kind = "idle"
    BY <2>1 DEF NoOp
  <2> QED BY <1>2, <2>1, <2>4, <2>5 DEF OpInv, PhaseAfter
<1> QED BY <1>4, <1>5

\* A pass finds a text in every slot, and leaves a longer one.
LEMMA Tracked ==
  ASSUME TypeInv, OpInv, TextInv, op.kind = "forward",
         NEW s \in Slots
  PROVE  \E x \in Seq(Token) :
           SlotIs(heap, cache, op.obj, s, Expected(op, op.obj, s, x))
<1>1. op.obj \in Objects /\ cap > 0
  <2>1. op \in ForwardOps
    BY DEF TypeInv, NoOp, CloneOps
  <2>2. op # NoOp
    BY DEF NoOp
  <2> QED BY <2>1, <2>2 DEF ForwardOps, OpInv
<1>2. PICK x, y \in Seq(Token) : Texts(heap, cache, op, phase, x, y)
  BY <1>1 DEF TextInv
<1>3. CASE op.obj = "live"
  BY <1>2, <1>3 DEF Texts
<1>4. CASE op.obj = "scratch"
  BY <1>2, <1>4 DEF Texts, OpInv
<1> QED BY <1>1, <1>3, <1>4 DEF Objects

LEMMA ForwardFacts ==
  ASSUME TypeInv, OpInv, op.kind = "forward"
  PROVE  /\ op \in ForwardOps /\ op.obj \in Objects /\ op.ids \in Inputs
         /\ op.layer \in Layers /\ op.stage \in {"first", "second"}
         /\ cap \in Capacities /\ cap \in Nat \ {0}
<1>1. op \in ForwardOps
  BY DEF TypeInv, NoOp, CloneOps
<1>2. op # NoOp
  BY DEF NoOp
<1>3. cap > 0 /\ cap \in Capacities \cup {0}
  BY <1>2 DEF OpInv, TypeInv
<1>4. cap \in Capacities
  BY <1>3
<1> QED BY <1>1, <1>4, Constants DEF ForwardOps

\* The text of the half x of a cache of family f grows, when c becomes d.
Grows(c, d, f, x) ==
  \A half \in {"kv", "conv", "recurrent"} : (half = "kv") = (f = "attention") =>
    /\ ValueOf(heap', d, half) =
         IF half = x THEN ValueOf(heap, c, half) \o op.ids ELSE ValueOf(heap, c, half)
    /\ half # "conv" => d.length = IF half = x THEN c.length + Len(op.ids) ELSE c.length

LEMMA AbsorbsOnly ==
  ASSUME TypeInv, NEW o \in Objects, NEW f \in Families, NEW l \in Layers, NEW w,
         Only(o, f, l, w), NEW s0 \in Slots, FamilyOf(s0) = f, s0[1] = l,
         NEW c, c = cache[o][f][l], NEW d, d = cache'[o][f][l], Grows(c, d, f, s0[2])
  PROVE  Absorbs(o, s0)
<1> SUFFICES ASSUME NEW o2 \in Objects, NEW s \in Slots
             PROVE  /\ ContentOf(heap', cache', o2, s) =
                         IF o2 = o /\ s = s0 THEN ContentOf(heap, cache, o2, s) \o op.ids
                         ELSE ContentOf(heap, cache, o2, s)
                    /\ s[2] # "conv" =>
                         CacheOf(cache', o2, s).length =
                           IF o2 = o /\ s = s0 THEN CacheOf(cache, o2, s).length + Len(op.ids)
                           ELSE CacheOf(cache, o2, s).length
  BY DEF Absorbs
<1>1. s = <<s[1], s[2]>> /\ s0 = <<s0[1], s0[2]>> /\ s[2] \in {"kv", "conv", "recurrent"}
  BY SlotFacts
<1>2. CASE <<o2, FamilyOf(s), s[1]>> # <<o, f, l>>
  BY <1>2, Elsewhere
<1>3. CASE <<o2, FamilyOf(s), s[1]>> = <<o, f, l>>
  <2>1. o2 = o /\ FamilyOf(s) = f /\ s[1] = l /\ (s = s0 <=> s[2] = s0[2])
    BY <1>1, <1>3
  <2>2. CacheOf(cache, o2, s) = c /\ CacheOf(cache', o2, s) = d
    BY <2>1 DEF CacheOf
  <2>3. (s[2] = "kv") = (f = "attention")
    BY <2>1 DEF FamilyOf
  <2> QED BY <1>1, <2>1, <2>2, <2>3 DEF ContentOf, Grows
<1> QED BY <1>2, <1>3

\* The rows an attention layer writes to: its own, or those of two new buffers.
LEMMA KvFacts ==
  ASSUME CacheInv, op.kind = "forward", op.layer \in AttentionLayers,
         NEW c, c = cache[op.obj]["attention"][op.layer], NEW p \in KvBuffers(c)
  PROVE  /\ p[1] \in Buf /\ p[2] \in Buf /\ p[1] # p[2]
         /\ c.length \in Nat /\ c.length <= cap
         /\ \A r \in {KvRows(c, p[1]), KvRows(c, p[2])} :
              /\ r \in Rowed /\ Len(r) = cap
              /\ SubSeq(r, 1, c.length) = RowsOf(heap, c)
         /\ RowsOf(heap, c) \in Seq(Token)
         /\ \A o2 \in Objects, f2 \in Families, l2 \in Layers :
              <<o2, f2, l2>> # <<op.obj, "attention", op.layer>> =>
                p[1] \notin Buffers(cache[o2][f2][l2]) /\ p[2] \notin Buffers(cache[o2][f2][l2])
<1> USE DEF CacheInv
<1>1. /\ op \in ForwardOps /\ op.obj \in Objects /\ op.layer \in Layers
      /\ cap \in Capacities /\ cap \in Nat \ {0} /\ "attention" \in Families
  BY ForwardFacts DEF Families
<1>2. c \in CacheRecords /\ AttentionShape(heap, c, op.layer, cap)
  BY <1>1 DEF TypeInv, ShapeInv
<1>3. RowsOf(heap, c) \in Seq(Token)
  <2> DEFINE s == <<op.layer, "kv">>
  <2>1. s \in Slots /\ s[1] = op.layer /\ s[2] = "kv"
    BY DEF Slots
  <2>2. ~Advanced(op, op.obj, s)
    BY <1>1, <2>1 DEF Advanced, Layers
  <2> HIDE DEF s
  <2>3. PICK x \in Seq(Token) : SlotIs(heap, cache, op.obj, s, Expected(op, op.obj, s, x))
    BY <2>1, Tracked
  <2>4. ContentOf(heap, cache, op.obj, s) = RowsOf(heap, c)
    BY <2>1 DEF ContentOf, CacheOf, FamilyOf, ValueOf
  <2> QED BY <2>2, <2>3, <2>4 DEF SlotIs, Expected
<1>4. CASE c = NoCache
  <2>1. ~initialized(c) /\ c.length = 0 /\ RowsOf(heap, c) = << >>
    BY <1>4, Constants DEF RowsOf
  <2>2. p \in FreshPairs /\ KvRows(c, p[1]) = Unwritten(cap) /\ KvRows(c, p[2]) = Unwritten(cap)
    BY <2>1 DEF KvBuffers, KvRows
  <2>3. Unwritten(cap) \in Rowed /\ Len(Unwritten(cap)) = cap
    BY <1>1, NewRows
  <2>4. SubSeq(Unwritten(cap), 1, 0) = << >>
    <3>1. SubSeq(Unwritten(cap), 1, 0) \in Rowed /\ Len(SubSeq(Unwritten(cap), 1, 0)) = 0
      BY <1>1, <2>3, FirstRows
    <3> QED BY <3>1, EmptySeq DEF Rowed
  <2>5. p[1] \in Free /\ p[2] \in Free /\ p[1] # p[2]
    BY <2>2, FreshPairFacts
  <2> QED BY <1>1, <1>3, <2>1, <2>2, <2>3, <2>4, <2>5, FreshFacts
<1>5. CASE c # NoCache
  <2>1. /\ c.first \in Buf /\ c.second \in Buf /\ c.capacity = cap
        /\ Len(heap[c.first]) = cap /\ Len(heap[c.second]) = cap /\ c.length <= cap
        /\ c.length \in Nat
    <3>1. /\ c.first \in Buf /\ c.second \in Buf
          /\ Len(heap[c.first]) = c.capacity /\ Len(heap[c.second]) = c.capacity
          /\ c.length <= c.capacity /\ (cap > 0 => c.capacity = cap)
      BY <1>2, <1>5 DEF AttentionShape
    <3>2. c.length \in Nat
      BY <1>2 DEF CacheRecords
    <3>3. cap > 0
      BY <1>1
    <3> QED BY <3>1, <3>2, <3>3
  <2>2. initialized(c)
    BY <2>1, Constants DEF initialized
  <2>3. p = <<c.first, c.second>> /\ KvRows(c, p[1]) = heap[p[1]] /\ KvRows(c, p[2]) = heap[p[2]]
    BY <2>1, <2>2 DEF KvBuffers, KvRows
  <2>4. heap[c.first] \in Rowed /\ heap[c.second] \in Rowed /\ c.first # c.second
    BY <1>1, <2>1 DEF TypeInv, ApartInv
  <2>5. <<Junk>> \notin Seq(Token)
    BY JunkRow
  <2>6. /\ SubSeq(heap[c.first], 1, c.length) = RowsOf(heap, c)
        /\ SubSeq(heap[c.second], 1, c.length) = RowsOf(heap, c)
    BY <1>3, <2>2, <2>5 DEF RowsOf
  <2>7. ASSUME NEW o2 \in Objects, NEW f2 \in Families, NEW l2 \in Layers,
               <<o2, f2, l2>> # <<op.obj, "attention", op.layer>>
        PROVE  /\ c.first \notin Buffers(cache[o2][f2][l2])
               /\ c.second \notin Buffers(cache[o2][f2][l2])
    <3>1. /\ c.first \in Buffers(cache[op.obj]["attention"][op.layer])
          /\ c.second \in Buffers(cache[op.obj]["attention"][op.layer])
      BY DEF Buffers
    <3>2. ASSUME NEW b \in Buf, b \in Buffers(cache[op.obj]["attention"][op.layer])
          PROVE  b \notin Buffers(cache[o2][f2][l2])
      <4>1. ApartInv
        OBVIOUS
      <4> HIDE DEF CacheInv
      <4> QED BY <1>1, <2>7, <3>2, <4>1, OwnFacts
    <3> QED BY <2>1, <3>1, <3>2
  <2>8. p[1] = c.first /\ p[2] = c.second
    BY <2>3
  <2>9. /\ KvRows(c, p[1]) = heap[c.first]
        /\ KvRows(c, p[2]) = heap[c.second]
    BY <2>3, <2>8
  <2>10. \A r \in {KvRows(c, p[1]), KvRows(c, p[2])} :
           /\ r \in Rowed /\ Len(r) = cap
           /\ SubSeq(r, 1, c.length) = RowsOf(heap, c)
    BY <2>1, <2>4, <2>6, <2>9
  <2> QED BY <1>3, <2>1, <2>4, <2>7, <2>8, <2>10
<1> QED BY <1>4, <1>5


\* What remains to be shown of a pass's step.
PassTypes ==
  /\ heap' \in [Buf -> Rowed]
  /\ cache' \in [Objects -> [Families -> [Layers -> CacheRecords]]]
  /\ op' \in {NoOp} \cup ForwardOps \cup CloneOps
  /\ phase' \in {"none", "copy", "ahead", "behind"}
  /\ op'.kind # "clone" /\ OpInv'

LEMMA PassStep ==
  ASSUME CacheInv, op.kind = "forward", cap' = cap, PassTypes, NEW s0 \in Slots,
         s0[1] = op.layer, ~Advanced(op, op.obj, s0), Absorbs(op.obj, s0),
         GoesOn(s0) \/ Ends(s0),
         NEW f, f = FamilyOf(s0), NEW w, Only(op.obj, f, op.layer, w),
         NEW d, d = cache'[op.obj][f][op.layer],
         d.first \in Buf => d.first # d.second,
         Buffers(d) \cap Buf \subseteq w \cup Buffers(cache[op.obj][f][op.layer]),
         f = "attention" => AttentionShape(heap', d, op.layer, cap),
         f = "deltanet" => DeltaNetShape(d, op.layer, HalfDone(op', cap, op.obj, op.layer))
  PROVE  CacheInv'
<1> USE DEF CacheInv
<1>1. op.obj \in Objects /\ op.layer \in Layers /\ cap # 0 /\ f \in Families
  BY ForwardFacts, SlotFacts
<1>2. TypeInv'
  <2>1. cap' \in Capacities \cup {0}
    BY DEF TypeInv
  <2> QED BY <2>1 DEF TypeInv, PassTypes
<1>3. OpInv'
  BY DEF PassTypes
<1>4. ShapeInv'
  <2>1. ASSUME NEW o2 \in Objects, NEW l2 \in LinearLayers,
               <<o2, "deltanet", l2>> # <<op.obj, f, op.layer>>, HalfDone(op, cap, o2, l2)
        PROVE  HalfDone(op', cap, o2, l2)
    <3>1. op.obj = o2 /\ op.layer = l2
      BY <1>1, <2>1 DEF HalfDone
    <3>2. f = "deltanet"
      BY <3>1, SlotFacts DEF FamilyOf
    <3> QED BY <2>1, <3>1, <3>2
  <2> QED BY <1>1, <2>1, ShapeKept
<1>5. ApartInv'
  BY <1>1, ApartKept
<1>6. CloneInv'
  BY DEF CloneInv, PassTypes
<1>7. TextInv'
  BY PassText
<1> QED BY <1>2, <1>3, <1>4, <1>5, <1>6, <1>7

\* One cache replaced by another.
LEMMA CachePut ==
  ASSUME NEW k \in [Objects -> [Families -> [Layers -> CacheRecords]]],
         NEW o \in Objects, NEW f \in Families, NEW l \in Layers,
         NEW r, NEW k2, k2 = [k EXCEPT ![o][f][l] = r]
  PROVE  /\ k2[o][f][l] = r
         /\ r \in CacheRecords => k2 \in [Objects -> [Families -> [Layers -> CacheRecords]]]
         /\ \A o2 \in Objects, f2 \in Families, l2 \in Layers :
              <<o2, f2, l2>> # <<o, f, l>> => k2[o2][f2][l2] = k[o2][f2][l2]
<1> DEFINE C == [Layers -> CacheRecords]
           D == [Families -> C]
           m == [k[o][f] EXCEPT ![l] = r]
           n == [k[o] EXCEPT ![f] = m]
<1>1. k2 = [k EXCEPT ![o] = n]
  OBVIOUS
<1>2. k \in [Objects -> D] /\ k[o] \in D /\ k[o][f] \in C
  OBVIOUS
<1>3. m[l] = r /\ \A l2 \in Layers : l2 # l => m[l2] = k[o][f][l2]
  BY <1>2
<1>4. r \in CacheRecords => m \in C
  BY <1>2
<1> HIDE DEF C, m
<1>5. n[f] = m /\ \A f2 \in Families : f2 # f => n[f2] = k[o][f2]
  BY <1>2
<1>6. m \in C => n \in D
  BY <1>2
<1> HIDE DEF D, n
<1>7. k2[o] = n /\ \A o2 \in Objects : o2 # o => k2[o2] = k[o2]
  BY <1>1, <1>2
<1>8. n \in D => k2 \in [Objects -> D]
  BY <1>1, <1>2
<1>9. r \in CacheRecords => k2 \in [Objects -> D]
  BY <1>4, <1>6, <1>8
<1>10. ASSUME NEW o2 \in Objects, NEW f2 \in Families, NEW l2 \in Layers,
              <<o2, f2, l2>> # <<o, f, l>>
       PROVE  k2[o2][f2][l2] = k[o2][f2][l2]
  <2>1. CASE o2 # o
    BY <1>7, <2>1
  <2>2. CASE o2 = o /\ f2 # f
    BY <1>5, <1>7, <2>2
  <2>3. CASE o2 = o /\ f2 = f
    BY <1>3, <1>5, <1>7, <1>10, <2>3
  <2> QED BY <2>1, <2>2, <2>3
<1> QED BY <1>3, <1>5, <1>7, <1>9, <1>10 DEF C, D

LEMMA AttendStep ==
  ASSUME CacheInv, Attend
  PROVE  /\ op.kind = "forward" /\ <<op.layer, "kv">> \in Slots
         /\ Absorbs(op.obj, <<op.layer, "kv">>)
         /\ CacheInv'
<1> USE DEF CacheInv
<1> DEFINE c == cache[op.obj]["attention"][op.layer]
           n == Len(op.ids)
           s0 == <<op.layer, "kv">>
           d == cache'[op.obj]["attention"][op.layer]
<1>1. /\ op.kind = "forward" /\ op.layer \in AttentionLayers /\ c.length + n <= cap
      /\ cap' = cap /\ NextLayer
  BY DEF Attend
<1>2. PICK p \in KvBuffers(c) :
        /\ heap' = [heap EXCEPT ![p[1]] = Write(KvRows(c, p[1]), c.length, op.ids),
                                ![p[2]] = Write(KvRows(c, p[2]), c.length, op.ids)]
        /\ cache' = [cache EXCEPT ![op.obj]["attention"][op.layer] =
               [first |-> p[1], second |-> p[2], length |-> c.length + n, capacity |-> cap]]
  BY DEF Attend
<1>3. /\ op.obj \in Objects /\ op.ids \in Inputs /\ op.layer \in Layers
      /\ cap \in Capacities /\ cap \in Nat \ {0} /\ "attention" \in Families /\ n \in Nat \ {0}
  BY <1>1, ForwardFacts, Constants DEF Families
<1>4. s0 \in Slots /\ s0[1] = op.layer /\ s0[2] = "kv" /\ FamilyOf(s0) = "attention"
  BY <1>1 DEF Slots, FamilyOf
<1> DEFINE r1 == KvRows(c, p[1])
           r2 == KvRows(c, p[2])
           w1 == Write(r1, c.length, op.ids)
           w2 == Write(r2, c.length, op.ids)
<1>5. /\ p[1] \in Buf /\ p[2] \in Buf /\ p[1] # p[2] /\ c.length \in Nat /\ c.length <= cap
      /\ r1 \in Rowed /\ Len(r1) = cap /\ SubSeq(r1, 1, c.length) = RowsOf(heap, c)
      /\ r2 \in Rowed /\ Len(r2) = cap /\ SubSeq(r2, 1, c.length) = RowsOf(heap, c)
      /\ \A o2 \in Objects, f2 \in Families, l2 \in Layers :
              <<o2, f2, l2>> # <<op.obj, "attention", op.layer>> =>
                p[1] \notin Buffers(cache[o2][f2][l2]) /\ p[2] \notin Buffers(cache[o2][f2][l2])
  BY <1>1, KvFacts
<1>6. /\ w1 \in Rowed /\ Len(w1) = cap /\ w2 \in Rowed /\ Len(w2) = cap
      /\ SubSeq(w1, 1, c.length + n) = RowsOf(heap, c) \o op.ids
      /\ SubSeq(w2, 1, c.length + n) = RowsOf(heap, c) \o op.ids
  <2>1. /\ c.length \in Nat /\ op.ids \in Inputs /\ n = Len(op.ids)
        /\ c.length + Len(op.ids) <= Len(r1) /\ c.length + Len(op.ids) <= Len(r2)
    BY <1>1, <1>3, <1>5
  <2> HIDE DEF c, r1, r2
  <2>2. /\ w1 \in Rowed /\ Len(w1) = Len(r1)
        /\ SubSeq(w1, 1, c.length + Len(op.ids)) = SubSeq(r1, 1, c.length) \o op.ids
    BY <1>5, <2>1, RowsWritten
  <2>3. /\ w2 \in Rowed /\ Len(w2) = Len(r2)
        /\ SubSeq(w2, 1, c.length + Len(op.ids)) = SubSeq(r2, 1, c.length) \o op.ids
    BY <1>5, <2>1, RowsWritten
  <2> HIDE DEF w1, w2
  <2> QED BY <1>5, <2>2, <2>3
<1>7. heap \in [Buf -> Rowed] /\ cache \in [Objects -> [Families -> [Layers -> CacheRecords]]]
  BY DEF TypeInv
<1>8. c.length + n \in Nat
  <2>1. c.length \in Nat /\ n \in Nat
    BY <1>3, <1>5
  <2> HIDE DEF c, n
  <2> QED BY <2>1
<1> HIDE DEF s0, r1, r2, n
<1> DEFINE d0 == [first |-> p[1], second |-> p[2], length |-> c.length + n, capacity |-> cap]
<1>e. cache' = [cache EXCEPT ![op.obj]["attention"][op.layer] = d0]
  BY <1>2 DEF n
<1> HIDE DEF d0
<1>p. /\ d = d0
      /\ d0 \in CacheRecords => cache' \in [Objects -> [Families -> [Layers -> CacheRecords]]]
      /\ \A o2 \in Objects, f2 \in Families, l2 \in Layers :
           <<o2, f2, l2>> # <<op.obj, "attention", op.layer>> =>
             cache'[o2][f2][l2] = cache[o2][f2][l2]
  BY <1>3, <1>7, <1>e, CachePut
<1>9. d = [first |-> p[1], second |-> p[2], length |-> c.length + n, capacity |-> cap]
  BY <1>p DEF d0
<1>10. heap' = [heap EXCEPT ![p[1]] = w1, ![p[2]] = w2]
  BY <1>2 DEF r1, r2
<1> HIDE DEF c, d, w1, w2
<1>11. heap'[p[1]] = w1 /\ heap'[p[2]] = w2 /\ heap' \in [Buf -> Rowed]
  BY <1>5, <1>6, <1>7, <1>10
<1>12. d \in CacheRecords
  BY <1>3, <1>5, <1>8, <1>9 DEF CacheRecords
<1>13. cache' \in [Objects -> [Families -> [Layers -> CacheRecords]]]
  BY <1>12, <1>p
<1>14. Only(op.obj, "attention", op.layer, {p[1], p[2]})
  <2>1. \A b \in Buf \ {p[1], p[2]} : heap'[b] = heap[b]
    BY <1>7, <1>10
  <2>2. ASSUME NEW o2 \in Objects, NEW f2 \in Families, NEW l2 \in Layers,
               <<o2, f2, l2>> # <<op.obj, "attention", op.layer>>
        PROVE  cache'[o2][f2][l2] = cache[o2][f2][l2]
    BY <1>p, <2>2
  <2> QED BY <1>5, <2>1, <2>2 DEF Only
<1>15. ValueOf(heap', d, "kv") = ValueOf(heap, c, "kv") \o op.ids
  <2>1. initialized(d) /\ d.first = p[1] /\ d.second = p[2] /\ d.length = c.length + n
    BY <1>5, <1>9, Constants DEF initialized
  <2>2. RowsOf(heap', d) = RowsOf(heap, c) \o op.ids
    BY <1>6, <1>11, <2>1 DEF RowsOf
  <2> QED BY <2>2 DEF ValueOf
<1>16. Absorbs(op.obj, s0)
  <2>1. c = cache[op.obj]["attention"][op.layer] /\ d = cache'[op.obj]["attention"][op.layer]
    BY DEF c, d
  <2>2. d.length = c.length + Len(op.ids)
    BY <1>9 DEF n
  <2>3. Grows(c, d, "attention", s0[2])
    BY <1>4, <1>15, <2>2 DEF Grows
  <2> QED BY <1>3, <1>4, <1>14, <2>1, <2>3, AbsorbsOnly
<1>17. /\ GoesOn(s0) \/ Ends(s0)
       /\ ~Advanced(op, op.obj, s0) /\ PassTypes
  BY <1>1, <1>4, <1>11, <1>13, NextLayerFacts DEF PassTypes
<1>18. AttentionShape(heap', d, op.layer, cap)
  <2>1. d.first = p[1] /\ d.second = p[2] /\ d.length = c.length + n /\ d.capacity = cap
    BY <1>9
  <2> QED BY <1>1, <1>5, <1>6, <1>11, <2>1 DEF AttentionShape, c, n
<1>19. CacheInv'
  <2>1. d.first # d.second /\ Buffers(d) \cap Buf \subseteq {p[1], p[2]}
    BY <1>5, <1>9 DEF Buffers
  <2>2. d = cache'[op.obj]["attention"][op.layer]
    BY DEF d
  <2> DEFINE f == "attention"
             own == {p[1], p[2]}
  <2>3. /\ f = FamilyOf(s0) /\ d = cache'[op.obj][f][op.layer] /\ f # "deltanet"
        /\ Only(op.obj, f, op.layer, own)
        /\ Buffers(d) \cap Buf \subseteq own \cup Buffers(cache[op.obj][f][op.layer])
    BY <1>4, <1>14, <2>1, <2>2
  <2>4. /\ op.kind = "forward" /\ cap' = cap /\ s0 \in Slots /\ s0[1] = op.layer
        /\ d.first # d.second
    BY <1>1, <1>4, <2>1
  <2> HIDE DEF CacheInv, f, own
  <2> QED BY <1>16, <1>17, <1>18, <2>3, <2>4, PassStep
<1> QED BY <1>1, <1>4, <1>16, <1>19 DEF s0


LEMMA ConvolveStep ==
  ASSUME CacheInv, Convolve
  PROVE  /\ op.kind = "forward" /\ <<op.layer, "conv">> \in Slots
         /\ Absorbs(op.obj, <<op.layer, "conv">>)
         /\ CacheInv'
<1> USE DEF CacheInv
<1> DEFINE c == cache[op.obj]["deltanet"][op.layer]
           s0 == <<op.layer, "conv">>
           d == cache'[op.obj]["deltanet"][op.layer]
<1>1. /\ op.kind = "forward" /\ op.layer \in LinearLayers /\ op.stage = "first"
      /\ cap' = cap /\ phase' = phase /\ op' = [op EXCEPT !.stage = "second"]
  BY DEF Convolve
<1>2. PICK b \in (IF c.first = NoBuf THEN Fresh ELSE {c.first}) :
        /\ heap' = [heap EXCEPT ![b] = (IF c.first = NoBuf THEN << >> ELSE @) \o op.ids]
        /\ cache' = [cache EXCEPT ![op.obj]["deltanet"][op.layer].first = b]
  BY DEF Convolve
<1>3. /\ op \in ForwardOps /\ op.obj \in Objects /\ op.ids \in Inputs /\ op.layer \in Layers
      /\ cap \in Nat \ {0} /\ "deltanet" \in Families /\ op.ids \in Rowed
  BY <1>1, ForwardFacts, Constants DEF Families
<1>4. s0 \in Slots /\ s0[1] = op.layer /\ s0[2] = "conv" /\ FamilyOf(s0) = "deltanet"
  BY <1>1 DEF Slots, FamilyOf
<1>5. heap \in [Buf -> Rowed] /\ cache \in [Objects -> [Families -> [Layers -> CacheRecords]]]
  BY DEF TypeInv
<1>6. c \in CacheRecords /\ (c = NoCache \/ (c.capacity = 0 /\ c.first \in Buf /\ c.second \in Buf))
  BY <1>1, <1>3, <1>5 DEF ShapeInv, DeltaNetShape, HalfDone
<1>7. /\ b \in Buf /\ b # c.second
      /\ \A o2 \in Objects, f2 \in Families, l2 \in Layers :
           <<o2, f2, l2>> # <<op.obj, "deltanet", op.layer>> =>
             b \notin Buffers(cache[o2][f2][l2])
  <2>1. CASE c = NoCache
    <3>1. c.first = NoBuf /\ c.second = NoBuf
      BY <2>1, Constants
    <3>2. b \in Free
      BY <1>2, <3>1, FreshPairFacts DEF Fresh
    <3> QED BY <3>1, <3>2, FreshFacts, Constants
  <2>2. CASE c # NoCache
    <3>1. c.first \in Buf /\ b = c.first /\ c.first # c.second
      BY <1>2, <1>3, <1>6, <2>2, Constants DEF ApartInv
    <3>2. ASSUME NEW o2 \in Objects, NEW f2 \in Families, NEW l2 \in Layers,
                 <<o2, f2, l2>> # <<op.obj, "deltanet", op.layer>>
          PROVE  b \notin Buffers(cache[o2][f2][l2])
      <4>1. Disjoint(c, cache[o2][f2][l2])
        BY <1>3, <3>2 DEF ApartInv
      <4>2. b \in Buffers(c)
        BY <3>1 DEF Buffers
      <4> QED BY <3>1, <4>1, <4>2 DEF Disjoint
    <3> QED BY <3>1, <3>2
  <2> QED BY <2>1, <2>2
<1> DEFINE d0 == [c EXCEPT !.first = b]
<1>e. cache' = [cache EXCEPT ![op.obj]["deltanet"][op.layer] = d0]
  BY <1>2
<1> HIDE DEF d0
<1>p. /\ d = d0
      /\ d0 \in CacheRecords => cache' \in [Objects -> [Families -> [Layers -> CacheRecords]]]
      /\ \A o2 \in Objects, f2 \in Families, l2 \in Layers :
           <<o2, f2, l2>> # <<op.obj, "deltanet", op.layer>> =>
             cache'[o2][f2][l2] = cache[o2][f2][l2]
  BY <1>3, <1>5, <1>e, CachePut
<1>8. d = [c EXCEPT !.first = b]
  BY <1>p DEF d0
<1>9. /\ d.first = b /\ d.second = c.second /\ d.length = c.length /\ d.capacity = c.capacity
      /\ d \in CacheRecords
  BY <1>6, <1>7, <1>8 DEF CacheRecords
<1>10. c.first # NoBuf => c.first = b
  BY <1>2
<1> DEFINE w == StateOf(heap, c.first) \o op.ids
<1>11. w \in Rowed
  <2>1. StateOf(heap, c.first) \in Rowed
    BY <1>5, <1>7, <1>10, EmptySeq DEF StateOf, Rowed
  <2> QED BY <1>3, <2>1, ConcatProperties DEF Rowed
<1>12. heap' = [heap EXCEPT ![b] = w]
  BY <1>2, <1>5, <1>7, <1>10 DEF StateOf
<1>13. cache' \in [Objects -> [Families -> [Layers -> CacheRecords]]]
  BY <1>9, <1>p
<1>14. Only(op.obj, "deltanet", op.layer, {b})
  <2>1. \A b2 \in Buf \ {b} : heap'[b2] = heap[b2]
    BY <1>5, <1>12
  <2>2. ASSUME NEW o2 \in Objects, NEW f2 \in Families, NEW l2 \in Layers,
               <<o2, f2, l2>> # <<op.obj, "deltanet", op.layer>>
        PROVE  cache'[o2][f2][l2] = cache[o2][f2][l2]
    BY <1>p, <2>2
  <2> QED BY <1>7, <2>1, <2>2 DEF Only
<1> HIDE DEF s0, c, d, w
<1>15. heap'[b] = w /\ heap' \in [Buf -> Rowed]
  BY <1>5, <1>7, <1>11, <1>12
<1>16. Grows(c, d, "deltanet", s0[2])
  <2>1. StateOf(heap', d.first) = StateOf(heap, c.first) \o op.ids
    BY <1>7, <1>9, <1>15, Constants DEF StateOf, w
  <2>2. StateOf(heap', d.second) = StateOf(heap, c.second)
    <3>1. c.second # NoBuf => heap'[c.second] = heap[c.second]
      BY <1>5, <1>6, <1>7, <1>12 DEF CacheRecords
    <3> QED BY <1>9, <3>1 DEF StateOf
  <2> QED BY <1>4, <1>9, <2>1, <2>2 DEF Grows, ValueOf
<1>17. c = cache[op.obj]["deltanet"][op.layer] /\ d = cache'[op.obj]["deltanet"][op.layer]
  BY DEF c, d
<1>18. Absorbs(op.obj, s0)
  BY <1>3, <1>4, <1>14, <1>16, <1>17, AbsorbsOnly
<1>19. /\ op' \in ForwardOps /\ op'.kind = "forward" /\ op'.obj = op.obj /\ op'.ids = op.ids
       /\ op'.layer = op.layer /\ op'.stage = "second"
  BY <1>1, <1>3 DEF ForwardOps
<1>20. GoesOn(s0) /\ ~Advanced(op, op.obj, s0)
  <2>1. ASSUME NEW s \in Slots
        PROVE  Advanced(op', op.obj, s) <=> Advanced(op, op.obj, s) \/ s = s0
    <3>1. s = <<s[1], s[2]>>
      BY SlotFacts
    <3>2. s = s0 <=> s[1] = op.layer /\ s[2] = "conv"
      BY <3>1 DEF s0
    <3> QED BY <1>1, <1>19, <3>2 DEF Advanced
  <2>2. ~Advanced(op, op.obj, s0)
    BY <1>1, <1>3, <1>4 DEF Advanced, Layers
  <2> QED BY <1>1, <1>19, <2>1, <2>2 DEF GoesOn
<1>21. PassTypes
  <2>1. op' # NoOp => cap' > 0
    BY <1>1, <1>3
  <2>2. OpInv'
    BY <1>1, <1>3, <1>19, <2>1 DEF OpInv
  <2> QED BY <1>1, <1>13, <1>15, <1>19, <2>2 DEF PassTypes, TypeInv
<1>22. CacheInv'
  <2>1. /\ d.first # d.second
        /\ Buffers(d) \cap Buf \subseteq {b} \cup Buffers(cache[op.obj]["deltanet"][op.layer])
    BY <1>7, <1>9 DEF Buffers, c
  <2>2. DeltaNetShape(d, op.layer, HalfDone(op', cap, op.obj, op.layer))
    <3>1. HalfDone(op', cap, op.obj, op.layer)
      BY <1>19 DEF HalfDone
    <3>2. d.capacity = 0
      BY <1>6, <1>9, Constants
    <3> QED BY <1>1, <1>7, <1>9, <3>1, <3>2 DEF DeltaNetShape
  <2>3. d = cache'[op.obj]["deltanet"][op.layer]
    BY DEF d
  <2> DEFINE f == "deltanet"
             own == {b}
  <2>4. /\ f = FamilyOf(s0) /\ d = cache'[op.obj][f][op.layer] /\ f # "attention"
        /\ Only(op.obj, f, op.layer, own)
        /\ Buffers(d) \cap Buf \subseteq own \cup Buffers(cache[op.obj][f][op.layer])
    BY <1>4, <1>14, <2>1, <2>3
  <2>5. /\ op.kind = "forward" /\ cap' = cap /\ s0 \in Slots /\ s0[1] = op.layer
        /\ d.first # d.second
    BY <1>1, <1>4, <2>1
  <2> HIDE DEF CacheInv, f, own
  <2> QED BY <1>18, <1>20, <1>21, <2>2, <2>4, <2>5, PassStep
<1> QED BY <1>1, <1>4, <1>18, <1>22 DEF s0

LEMMA RecurStep ==
  ASSUME CacheInv, Recur
  PROVE  /\ op.kind = "forward" /\ <<op.layer, "recurrent">> \in Slots
         /\ Absorbs(op.obj, <<op.layer, "recurrent">>)
         /\ CacheInv'
<1> USE DEF CacheInv
<1> DEFINE c == cache[op.obj]["deltanet"][op.layer]
           s0 == <<op.layer, "recurrent">>
           d == cache'[op.obj]["deltanet"][op.layer]
<1>1. /\ op.kind = "forward" /\ op.layer \in LinearLayers /\ op.stage = "second"
      /\ cap' = cap /\ NextLayer
  BY DEF Recur
<1>2. PICK b \in (IF c.second = NoBuf THEN Fresh ELSE {c.second}) :
        /\ heap' = [heap EXCEPT ![b] = (IF c.second = NoBuf THEN << >> ELSE @) \o op.ids]
        /\ cache' = [cache EXCEPT ![op.obj]["deltanet"][op.layer] =
             [c EXCEPT !.second = b, !.length = @ + Len(op.ids)]]
  BY DEF Recur
<1>3. /\ op \in ForwardOps /\ op.obj \in Objects /\ op.ids \in Inputs /\ op.layer \in Layers
      /\ cap \in Nat \ {0} /\ "deltanet" \in Families /\ op.ids \in Rowed
      /\ Len(op.ids) \in Nat \ {0}
  BY <1>1, ForwardFacts, Constants DEF Families
<1>4. s0 \in Slots /\ s0[1] = op.layer /\ s0[2] = "recurrent" /\ FamilyOf(s0) = "deltanet"
  BY <1>1 DEF Slots, FamilyOf
<1>5. heap \in [Buf -> Rowed] /\ cache \in [Objects -> [Families -> [Layers -> CacheRecords]]]
  BY DEF TypeInv
\* The convolution has left its state.
<1>6. c \in CacheRecords /\ c.capacity = 0 /\ c.first \in Buf
  <2> DEFINE s == <<op.layer, "conv">>
  <2>1. s \in Slots /\ s[1] = op.layer /\ s[2] = "conv" /\ FamilyOf(s) = "deltanet"
    BY <1>1 DEF Slots, FamilyOf
  <2> HIDE DEF s
  <2>2. PICK x \in Seq(Token) : SlotIs(heap, cache, op.obj, s, Expected(op, op.obj, s, x))
    BY <1>1, <2>1, Tracked
  <2>3. Expected(op, op.obj, s, x) = x \o op.ids
    BY <1>1, <2>1 DEF Expected, Advanced
  <2>4. ContentOf(heap, cache, op.obj, s) = StateOf(heap, c.first)
    BY <2>1 DEF ContentOf, CacheOf, ValueOf
  <2>5. StateOf(heap, c.first) = x \o op.ids
    BY <2>2, <2>3, <2>4 DEF SlotIs
  <2>6. Len(x \o op.ids) # 0
    BY <1>3, LongerText, LenProperties
  <2>7. c.first # NoBuf
    <3>1. Len(<< >>) = 0
      BY EmptySeq
    <3> QED BY <2>5, <2>6, <3>1 DEF StateOf
  <2>8. c \in CacheRecords /\ (c = NoCache \/ (c.capacity = 0 /\ c.first \in Buf))
    BY <1>1, <1>3, <1>5 DEF ShapeInv, DeltaNetShape
  <2> QED BY <2>7, <2>8, Constants
<1>7. /\ b \in Buf /\ b # c.first
      /\ \A o2 \in Objects, f2 \in Families, l2 \in Layers :
           <<o2, f2, l2>> # <<op.obj, "deltanet", op.layer>> =>
             b \notin Buffers(cache[o2][f2][l2])
  <2>1. CASE c.second = NoBuf
    <3>1. b \in Free
      BY <1>2, <2>1, FreshPairFacts DEF Fresh
    <3>2. b \in Buf /\ b \notin Buffers(c)
      BY <1>3, <3>1, FreshFacts
    <3> QED BY <3>1, <3>2, FreshFacts DEF Buffers
  <2>2. CASE c.second # NoBuf
    <3>1. c.second \in Buf /\ b = c.second /\ c.first # c.second
      BY <1>2, <1>3, <1>6, <2>2, Constants DEF ApartInv, CacheRecords
    <3>2. ASSUME NEW o2 \in Objects, NEW f2 \in Families, NEW l2 \in Layers,
                 <<o2, f2, l2>> # <<op.obj, "deltanet", op.layer>>
          PROVE  b \notin Buffers(cache[o2][f2][l2])
      <4>1. Disjoint(c, cache[o2][f2][l2])
        BY <1>3, <3>2 DEF ApartInv
      <4>2. b \in Buffers(c)
        BY <3>1 DEF Buffers
      <4> QED BY <3>1, <4>1, <4>2 DEF Disjoint
    <3> QED BY <3>1, <3>2
  <2> QED BY <2>1, <2>2
<1> DEFINE d0 == [c EXCEPT !.second = b, !.length = @ + Len(op.ids)]
<1>e. cache' = [cache EXCEPT ![op.obj]["deltanet"][op.layer] = d0]
  BY <1>2
<1> HIDE DEF d0
<1>p. /\ d = d0
      /\ d0 \in CacheRecords => cache' \in [Objects -> [Families -> [Layers -> CacheRecords]]]
      /\ \A o2 \in Objects, f2 \in Families, l2 \in Layers :
           <<o2, f2, l2>> # <<op.obj, "deltanet", op.layer>> =>
             cache'[o2][f2][l2] = cache[o2][f2][l2]
  BY <1>3, <1>5, <1>e, CachePut
<1>8. d = [c EXCEPT !.second = b, !.length = @ + Len(op.ids)]
  BY <1>p DEF d0
<1>9. /\ d.first = c.first /\ d.second = b /\ d.length = c.length + Len(op.ids)
      /\ d.capacity = c.capacity /\ d \in CacheRecords
  <2>1. c.length + Len(op.ids) \in Nat
    <3>1. c.length \in Nat
      BY <1>6 DEF CacheRecords
    <3> HIDE DEF c
    <3> QED BY <1>3, <3>1
  <2> QED BY <1>6, <1>7, <1>8, <2>1 DEF CacheRecords
<1>10. c.second # NoBuf => c.second = b
  BY <1>2
<1> DEFINE w == StateOf(heap, c.second) \o op.ids
<1>11. w \in Rowed
  <2>1. StateOf(heap, c.second) \in Rowed
    BY <1>5, <1>7, <1>10, EmptySeq DEF StateOf, Rowed
  <2> QED BY <1>3, <2>1, ConcatProperties DEF Rowed
<1>12. heap' = [heap EXCEPT ![b] = w]
  BY <1>2, <1>5, <1>7, <1>10 DEF StateOf
<1>13. cache' \in [Objects -> [Families -> [Layers -> CacheRecords]]]
  BY <1>9, <1>p
<1>14. Only(op.obj, "deltanet", op.layer, {b})
  <2>1. \A b2 \in Buf \ {b} : heap'[b2] = heap[b2]
    BY <1>5, <1>12
  <2>2. ASSUME NEW o2 \in Objects, NEW f2 \in Families, NEW l2 \in Layers,
               <<o2, f2, l2>> # <<op.obj, "deltanet", op.layer>>
        PROVE  cache'[o2][f2][l2] = cache[o2][f2][l2]
    BY <1>p, <2>2
  <2> QED BY <1>7, <2>1, <2>2 DEF Only
<1> HIDE DEF s0, c, d, w
<1>15. heap'[b] = w /\ heap' \in [Buf -> Rowed]
  BY <1>5, <1>7, <1>11, <1>12
<1>16. Grows(c, d, "deltanet", s0[2])
  <2>1. StateOf(heap', d.second) = StateOf(heap, c.second) \o op.ids
    BY <1>7, <1>9, <1>15, Constants DEF StateOf, w
  <2>2. StateOf(heap', d.first) = StateOf(heap, c.first)
    <3>1. c.first # NoBuf => heap'[c.first] = heap[c.first]
      BY <1>5, <1>6, <1>7, <1>12 DEF CacheRecords
    <3> QED BY <1>9, <3>1 DEF StateOf
  <2> QED BY <1>4, <1>9, <2>1, <2>2 DEF Grows, ValueOf
<1>17. c = cache[op.obj]["deltanet"][op.layer] /\ d = cache'[op.obj]["deltanet"][op.layer]
  BY DEF c, d
<1>18. Absorbs(op.obj, s0)
  BY <1>3, <1>4, <1>14, <1>16, <1>17, AbsorbsOnly
<1>19. /\ GoesOn(s0) \/ Ends(s0)
       /\ ~Advanced(op, op.obj, s0) /\ PassTypes
  BY <1>1, <1>4, <1>13, <1>15, NextLayerFacts DEF PassTypes
<1>20. CacheInv'
  <2>1. /\ d.first # d.second
        /\ Buffers(d) \cap Buf \subseteq {b} \cup Buffers(cache[op.obj]["deltanet"][op.layer])
    BY <1>7, <1>9 DEF Buffers, c
  <2>2. DeltaNetShape(d, op.layer, HalfDone(op', cap, op.obj, op.layer))
    BY <1>1, <1>6, <1>7, <1>9 DEF DeltaNetShape
  <2> DEFINE f == "deltanet"
             own == {b}
  <2>3. /\ f = FamilyOf(s0) /\ d = cache'[op.obj][f][op.layer] /\ f # "attention"
        /\ Only(op.obj, f, op.layer, own)
        /\ Buffers(d) \cap Buf \subseteq own \cup Buffers(cache[op.obj][f][op.layer])
    BY <1>4, <1>14, <1>17, <2>1
  <2>4. /\ op.kind = "forward" /\ cap' = cap /\ s0 \in Slots /\ s0[1] = op.layer
        /\ d.first # d.second
    BY <1>1, <1>4, <2>1
  <2> HIDE DEF CacheInv, f, own
  <2> QED BY <1>18, <1>19, <2>2, <2>3, <2>4, PassStep
<1> QED BY <1>1, <1>4, <1>18, <1>20 DEF s0


-----------------------------------------------------------------------------
\* The calls.

\* No operation has dealt with any slot.
Settled(h, k, ph, x, y) ==
  /\ \A s \in Slots : SlotIs(h, k, "live", s, x)
  /\ ph # "none" => \A s \in Slots : SlotIs(h, k, "scratch", s, y)
  /\ Related(ph, x, y)

LEMMA SettledTexts ==
  ASSUME NEW p, p.kind # "clone", \A o \in Objects, s \in Slots : ~Advanced(p, o, s),
         NEW h, NEW k, NEW ph, NEW x, NEW y
  PROVE  Texts(h, k, p, ph, x, y) <=> Settled(h, k, ph, x, y)
<1>1. \A o \in Objects, s \in Slots : Expected(p, o, s, x) = x /\ Expected(p, o, s, y) = y
  BY DEF Expected
<1> QED BY <1>1 DEF Texts, Settled, Objects

LEMMA IdleTexts ==
  ASSUME NEW h, NEW k, NEW ph, NEW x, NEW y
  PROVE  Texts(h, k, NoOp, ph, x, y) <=> Settled(h, k, ph, x, y)
<1>1. NoOp.kind = "idle"
  BY DEF NoOp
<1>2. \A o \in Objects, s \in Slots : ~Advanced(NoOp, o, s)
  BY <1>1 DEF Advanced
<1> QED BY <1>1, <1>2, SettledTexts

LEMMA IdleText ==
  ASSUME TextInv, op = NoOp, cap > 0
  PROVE  \E x, y \in Seq(Token) : Settled(heap, cache, phase, x, y)
BY IdleTexts DEF TextInv

AllEmpty ==
  /\ heap \in [Buf -> Rowed] /\ cache = [o \in Objects |-> NoCaches]
  /\ cap \in Capacities \cup {0} /\ op = NoOp /\ phase = "none"

LEMMA EmptyInv == AllEmpty => CacheInv
<1> SUFFICES ASSUME AllEmpty PROVE CacheInv
  OBVIOUS
<1> USE DEF AllEmpty
<1>1. \A o \in Objects, f \in Families, l \in Layers : cache[o][f][l] = NoCache
  BY DEF NoCaches
<1>2. TypeInv
  <2>1. cache \in [Objects -> [Families -> [Layers -> CacheRecords]]]
    BY Constants DEF NoCaches
  <2> QED BY <2>1 DEF TypeInv
<1>3. op.kind = "idle"
  BY DEF NoOp
<1>4. OpInv /\ CloneInv
  BY <1>3 DEF OpInv, CloneInv
<1>5. ShapeInv
  BY <1>1 DEF ShapeInv, AttentionShape, DeltaNetShape, Families
<1>6. ApartInv
  BY <1>1, Constants DEF ApartInv, Disjoint, Buffers
<1>7. TextInv
  <2>1. \A s \in Slots : SlotIs(heap, cache, "live", s, << >>)
    <3>1. ASSUME NEW s \in Slots PROVE SlotIs(heap, cache, "live", s, << >>)
      <4>1. CacheOf(cache, "live", s) = NoCache
        BY <1>1, SlotFacts DEF CacheOf, Objects
      <4>2. Len(<< >>) = 0
        OBVIOUS
      <4> QED BY <4>1, <4>2, EmptyValue, Constants DEF SlotIs, ContentOf
    <3> QED BY <3>1
  <2>2. Texts(heap, cache, op, phase, << >>, << >>)
    BY <2>1, IdleTexts DEF Settled, Related
  <2> QED BY <2>2, EmptySeq DEF TextInv
<1> QED BY <1>2, <1>4, <1>5, <1>6, <1>7 DEF CacheInv

LEMMA InitStep == Init => CacheInv
<1> SUFFICES ASSUME Init PROVE CacheInv
  OBVIOUS
<1>1. heap \in [Buf -> Rowed]
  BY EmptySeq DEF Init, Rowed
<1> QED BY <1>1, EmptyInv DEF Init, AllEmpty

LEMMA BeginStep ==
  ASSUME CacheInv, NEW c \in Capacities, Begin(c)
  PROVE  CacheInv' /\ \A o \in Objects, s \in Slots : ContentOf(heap', cache', o, s) = << >>
<1>1. heap' \in [Buf -> Rowed]
  BY EmptySeq DEF Begin, Kept, Rowed
<1>2. AllEmpty'
  BY <1>1 DEF Begin, AllEmpty
<1>3. CacheInv'
  BY <1>2, EmptyInv, PTL
<1>4. ASSUME NEW o \in Objects, NEW s \in Slots PROVE ContentOf(heap', cache', o, s) = << >>
  <2>1. CacheOf(cache', o, s) = NoCache
    BY SlotFacts DEF Begin, NoCaches, CacheOf
  <2> QED BY <2>1, EmptyValue DEF ContentOf
<1> QED BY <1>3, <1>4

LEMMA FinishStep ==
  ASSUME CacheInv, Finish
  PROVE  /\ CacheInv'
         /\ \A s \in Slots :
              /\ ContentOf(heap', cache', "live", s) = ContentOf(heap, cache, "live", s)
              /\ ContentOf(heap', cache', "scratch", s) = << >>
<1> USE DEF CacheInv
<1>1. /\ cap' = 0 /\ op' = NoOp /\ phase' = "none"
      /\ cache' = [cache EXCEPT !["scratch"] = NoCaches]
  BY DEF Finish
<1> DEFINE L == {b \in Buf : \E f \in Families, l \in Layers :
                     b \in {cache["live"][f][l].first, cache["live"][f][l].second}}
<1>2. heap' = [b \in Buf |-> IF b \in L THEN heap[b] ELSE << >>]
  BY DEF Finish, Kept
<1>3. heap \in [Buf -> Rowed] /\ cache \in [Objects -> [Families -> [Layers -> CacheRecords]]]
  BY DEF TypeInv
<1>4. ASSUME NEW f \in Families, NEW l \in Layers
      PROVE  /\ cache'["scratch"][f][l] = NoCache
             /\ cache'["live"][f][l] = cache["live"][f][l]
             /\ \A b \in Buf : b \in Buffers(cache["live"][f][l]) => heap'[b] = heap[b]
  <2>1. \A b \in Buf : b \in Buffers(cache["live"][f][l]) => b \in L
    BY DEF Buffers
  <2> HIDE DEF L
  <2> QED BY <1>1, <1>2, <1>3, <2>1 DEF NoCaches, Objects
<1>5. heap' \in [Buf -> Rowed]
  <2> HIDE DEF L
  <2>1. << >> \in Rowed
    BY EmptySeq DEF Rowed
  <2> QED BY <1>2, <1>3, <2>1
<1> HIDE DEF L
<1>6. TypeInv'
  <2>1. NoCaches \in [Families -> [Layers -> CacheRecords]]
    BY Constants DEF NoCaches
  <2>2. cache' \in [Objects -> [Families -> [Layers -> CacheRecords]]]
    BY <1>1, <1>3, <2>1 DEF Objects
  <2> QED BY <1>1, <1>5, <2>2 DEF TypeInv
<1>7. op'.kind = "idle"
  BY <1>1 DEF NoOp
<1>8. OpInv' /\ CloneInv' /\ TextInv'
  BY <1>1, <1>7 DEF OpInv, CloneInv, TextInv
<1>9. ShapeInv'
  <2>1. ASSUME NEW o \in Objects, NEW l \in Layers
        PROVE  /\ AttentionShape(heap', cache'[o]["attention"][l], l, 0)
               /\ DeltaNetShape(cache'[o]["deltanet"][l], l, TRUE)
    <3>1. CASE o = "scratch"
      BY <1>4, <3>1 DEF AttentionShape, DeltaNetShape, Families
    <3>2. CASE o = "live"
      <4> DEFINE c == cache["live"]["attention"][l]
                 d == cache["live"]["deltanet"][l]
      <4>1. /\ cache'[o]["attention"][l] = c /\ cache'[o]["deltanet"][l] = d
            /\ \A b \in Buf : b \in Buffers(c) => heap'[b] = heap[b]
        BY <1>4, <3>2 DEF Families
      <4>2. AttentionShape(heap, c, l, cap) /\ DeltaNetShape(d, l, HalfDone(op, cap, "live", l))
        BY DEF ShapeInv, Objects
      <4> HIDE DEF c, d
      <4> QED BY <4>1, <4>2 DEF AttentionShape, DeltaNetShape, Buffers
    <3> QED BY <3>1, <3>2 DEF Objects
  <2>2. \A o \in Objects, l \in Layers : HalfDone(op', cap', o, l) = TRUE
    BY <1>1 DEF HalfDone
  <2> QED BY <1>1, <2>1, <2>2 DEF ShapeInv, AttentionShape, DeltaNetShape, HalfDone
<1>10. ApartInv'
  <2>1. ASSUME NEW o \in Objects, NEW f \in Families, NEW l \in Layers
        PROVE  cache'[o][f][l] = IF o = "live" THEN cache[o][f][l] ELSE NoCache
    BY <1>4 DEF Objects
  <2>2. \A b \in Buf : b \notin Buffers(NoCache)
    BY Constants DEF Buffers
  <2>3. ASSUME NEW o \in Objects, NEW o2 \in Objects, NEW f \in Families, NEW f2 \in Families,
               NEW l \in Layers, NEW l2 \in Layers
        PROVE  /\ cache'[o][f][l].first \in Buf => cache'[o][f][l].first # cache'[o][f][l].second
               /\ <<o, f, l>> # <<o2, f2, l2>> => Disjoint(cache'[o][f][l], cache'[o2][f2][l2])
    <3>1. /\ cache[o][f][l].first \in Buf => cache[o][f][l].first # cache[o][f][l].second
          /\ <<o, f, l>> # <<o2, f2, l2>> => Disjoint(cache[o][f][l], cache[o2][f2][l2])
      BY DEF ApartInv
    <3> QED BY <2>1, <2>2, <3>1, Constants DEF Disjoint
  <2> QED BY <2>3 DEF ApartInv, Disjoint, Buffers
<1>11. ASSUME NEW s \in Slots
       PROVE  /\ ContentOf(heap', cache', "live", s) = ContentOf(heap, cache, "live", s)
              /\ ContentOf(heap', cache', "scratch", s) = << >>
  <2> DEFINE c == CacheOf(cache, "live", s)
  <2>1. /\ CacheOf(cache', "live", s) = c /\ CacheOf(cache', "scratch", s) = NoCache
        /\ \A b \in Buf : b \in Buffers(c) => heap'[b] = heap[b]
    BY <1>4, SlotFacts DEF CacheOf
  <2>2. c \in CacheRecords
    BY <1>3, SlotFacts DEF CacheOf, Objects
  <2> HIDE DEF c
  <2>3. ValueOf(heap', c, s[2]) = ValueOf(heap, c, s[2])
    BY <2>1, <2>2, ValueKept
  <2> QED BY <2>1, <2>3, EmptyValue DEF ContentOf, c
<1> QED BY <1>6, <1>8, <1>9, <1>10, <1>11

\* An operation begins.
LEMMA StartStep ==
  ASSUME CacheInv, op = NoOp, cap > 0, UNCHANGED <<heap, cache, cap, phase>>,
         \/ \E o \in Objects, ids \in Inputs :
              (o = "scratch" => phase = "copy") /\ op' = ForwardOp(o, ids, 1, "first")
         \/ op' = CloneOp(1, "attention", "first", NoBuf, NoBuf)
  PROVE  CacheInv'
<1> USE DEF CacheInv
<1>0. heap' = heap /\ cache' = cache /\ cap' = cap /\ phase' = phase
  OBVIOUS
<1>1. op.kind = "idle" /\ 1 \in Layers
  BY Constants DEF NoOp, Layers
<1>2. PICK x, y \in Seq(Token) : Settled(heap, cache, phase, x, y)
  BY IdleText
<1>3. \A s \in Slots : s[1] >= 1 /\ s[1] \in Nat
  BY SlotFacts DEF Layers
<1>4. ApartInv'
  BY DEF ApartInv, Disjoint, Buffers
<1>5. ShapeInv'
  <2>1. \A o \in Objects, l \in Layers : ~HalfDone(op, cap, o, l)
    BY <1>1, Constants DEF HalfDone, TypeInv
  <2>2. \A o \in Objects, l \in Layers :
          /\ AttentionShape(heap, cache[o]["attention"][l], l, cap)
          /\ DeltaNetShape(cache[o]["deltanet"][l], l, FALSE)
    BY <2>1 DEF ShapeInv, DeltaNetShape
  <2> QED BY <2>2 DEF ShapeInv, AttentionShape, DeltaNetShape
<1>6. ASSUME NEW o \in Objects, NEW ids \in Inputs, o = "scratch" => phase = "copy",
             op' = ForwardOp(o, ids, 1, "first")
      PROVE  CacheInv'
  <2>1. /\ op' \in ForwardOps /\ op'.kind = "forward" /\ op'.obj = o
        /\ op'.layer = 1 /\ op'.stage = "first"
    BY <1>1, <1>6 DEF ForwardOp, ForwardOps
  <2>2. TypeInv' /\ OpInv' /\ CloneInv'
    BY <1>6, <2>1 DEF TypeInv, OpInv, CloneInv
  <2>3. \A o2 \in Objects, s \in Slots : ~Advanced(op', o2, s)
    BY <1>3, <2>1 DEF Advanced
  <2>4. Texts(heap, cache, op', phase, x, y)
    BY <1>2, <2>1, <2>3, SettledTexts
  <2>5. Texts(heap', cache', op', phase', x, y)
    BY <1>0, <2>4
  <2>6. TextInv'
    BY <2>5, TextsPrimed
  <2> QED BY <1>4, <1>5, <2>2, <2>6
<1>7. ASSUME op' = CloneOp(1, "attention", "first", NoBuf, NoBuf)
      PROVE  CacheInv'
  <2>1. /\ op' \in CloneOps /\ op'.kind = "clone" /\ op'.stage = "first"
        /\ op'.layer = 1 /\ op'.family = "attention"
        /\ op'.first = NoBuf /\ op'.second = NoBuf
    BY <1>1, <1>7 DEF CloneOp, CloneOps, Families
  <2>2. TypeInv' /\ OpInv' /\ CloneInv'
    BY <2>1 DEF TypeInv, OpInv, CloneInv
  <2>3. \A s \in Slots : ~Advanced(op', "live", s) /\ ~Copied(op', s)
    BY <1>3, <2>1 DEF Advanced, Copied
  <2>4. Texts(heap, cache, op', phase, x, y)
    BY <1>2, <2>1, <2>3 DEF Settled, Texts, Expected
  <2>5. Texts(heap', cache', op', phase', x, y)
    BY <1>0, <2>4
  <2>6. TextInv'
    BY <2>5, TextsPrimed
  <2> QED BY <1>4, <1>5, <2>2, <2>6
<1> QED BY <1>6, <1>7


\* swap() and restore() move caches whole: g(o, f) is where those of object o
\* come from, and only lengths may change.
OtherObject(o) == IF o = "live" THEN "scratch" ELSE "live"

Moved(crossed) ==
  \A o \in Objects, f \in Families, l \in Layers :
    LET from == cache[IF f \in crossed THEN OtherObject(o) ELSE o][f][l]
    IN  /\ cache'[o][f][l] \in CacheRecords
        /\ cache'[o][f][l].first = from.first /\ cache'[o][f][l].second = from.second
        /\ cache'[o][f][l].capacity = from.capacity
        /\ \/ cache'[o][f][l] = from
           \/ f = "attention" /\ cache'[o][f][l].length <= from.capacity
              /\ (from = NoCache => cache'[o][f][l] = NoCache)

LEMMA MoveStep ==
  ASSUME CacheInv, op = NoOp, cap > 0, UNCHANGED <<heap, cap, op>>, phase' = "none",
         cache' \in [Objects -> [Families -> [Layers -> CacheRecords]]],
         NEW crossed, Moved(crossed)
  PROVE  TypeInv' /\ OpInv' /\ ShapeInv' /\ ApartInv' /\ CloneInv'
<1> USE DEF CacheInv
<1>1. heap' = heap /\ cap' = cap /\ op' = op /\ op'.kind = "idle" /\ phase' = "none"
  BY DEF NoOp
<1>2. TypeInv' /\ OpInv' /\ CloneInv'
  BY <1>1 DEF TypeInv, OpInv, CloneInv
<1>3. \A o \in Objects, l \in Layers : ~HalfDone(op, cap, o, l) /\ ~HalfDone(op', cap', o, l)
  BY <1>1, Constants DEF HalfDone, TypeInv
<1> DEFINE From(o, f, l) == cache[IF f \in crossed THEN OtherObject(o) ELSE o][f][l]
<1>4. ASSUME NEW o \in Objects, NEW f \in Families, NEW l \in Layers
      PROVE  /\ cache'[o][f][l].first = From(o, f, l).first
             /\ cache'[o][f][l].second = From(o, f, l).second
             /\ cache'[o][f][l].capacity = From(o, f, l).capacity
             /\ \/ cache'[o][f][l] = From(o, f, l)
                \/ f = "attention" /\ cache'[o][f][l].length <= From(o, f, l).capacity
                   /\ (From(o, f, l) = NoCache => cache'[o][f][l] = NoCache)
  BY DEF Moved
<1>5. ASSUME NEW o \in Objects, NEW l \in Layers
      PROVE  /\ AttentionShape(heap', cache'[o]["attention"][l], l, cap')
             /\ DeltaNetShape(cache'[o]["deltanet"][l], l, FALSE)
  <2> DEFINE c == From(o, "attention", l)
             d == From(o, "deltanet", l)
  <2>1. AttentionShape(heap, c, l, cap) /\ DeltaNetShape(d, l, FALSE)
    <3>1. \A o2 \in Objects :
            /\ AttentionShape(heap, cache[o2]["attention"][l], l, cap)
            /\ DeltaNetShape(cache[o2]["deltanet"][l], l, FALSE)
      BY <1>3 DEF ShapeInv, DeltaNetShape
    <3> QED BY <3>1 DEF OtherObject, Objects
  <2>2. cache'[o]["deltanet"][l] = d
    BY <1>4 DEF Families
  <2>3. /\ cache'[o]["attention"][l].first = c.first
        /\ cache'[o]["attention"][l].second = c.second
        /\ cache'[o]["attention"][l].capacity = c.capacity
        /\ \/ cache'[o]["attention"][l] = c
           \/ cache'[o]["attention"][l].length <= c.capacity
              /\ (c = NoCache => cache'[o]["attention"][l] = NoCache)
    BY <1>4 DEF Families
  <2> HIDE DEF c, d
  <2> QED BY <1>1, <2>1, <2>2, <2>3 DEF AttentionShape
<1>6. ShapeInv'
  BY <1>3, <1>5 DEF ShapeInv, AttentionShape, DeltaNetShape, HalfDone
<1>7. ASSUME NEW o \in Objects, NEW o2 \in Objects, NEW f \in Families, NEW f2 \in Families,
             NEW l \in Layers, NEW l2 \in Layers
      PROVE  /\ cache'[o][f][l].first \in Buf => cache'[o][f][l].first # cache'[o][f][l].second
             /\ <<o, f, l>> # <<o2, f2, l2>> => Disjoint(cache'[o][f][l], cache'[o2][f2][l2])
  <2> DEFINE p == IF f \in crossed THEN OtherObject(o) ELSE o
             p2 == IF f2 \in crossed THEN OtherObject(o2) ELSE o2
  <2>1. /\ p \in Objects /\ p2 \in Objects
        /\ <<o, f, l>> # <<o2, f2, l2>> => <<p, f, l>> # <<p2, f2, l2>>
    BY DEF OtherObject, Objects
  <2>2. /\ Buffers(cache'[o][f][l]) = Buffers(cache[p][f][l])
        /\ cache'[o][f][l].first = cache[p][f][l].first
        /\ cache'[o][f][l].second = cache[p][f][l].second
        /\ Buffers(cache'[o2][f2][l2]) = Buffers(cache[p2][f2][l2])
    BY <1>4 DEF Buffers
  <2> HIDE DEF p, p2
  <2>3. /\ cache[p][f][l].first \in Buf => cache[p][f][l].first # cache[p][f][l].second
        /\ <<p, f, l>> # <<p2, f2, l2>> => Disjoint(cache[p][f][l], cache[p2][f2][l2])
    BY <2>1 DEF ApartInv
  <2> QED BY <2>1, <2>2, <2>3 DEF Disjoint
<1>8. ApartInv'
  BY <1>7 DEF ApartInv, Disjoint, Buffers
<1> QED BY <1>2, <1>6, <1>8


LEMMA SwapStep ==
  ASSUME CacheInv, Swap
  PROVE  CacheInv' /\ \A o \in Objects, s \in Slots :
           ContentOf(heap', cache', o, s) = ContentOf(heap, cache, OtherObject(o), s)
<1> USE DEF CacheInv
<1>1. /\ op = NoOp /\ phase = "ahead" /\ phase' = "none" /\ heap' = heap /\ cap' = cap
      /\ op' = NoOp
  BY DEF Swap
<1>1a. cap > 0
  BY <1>1 DEF OpInv
<1>2. cache \in [Objects -> [Families -> [Layers -> CacheRecords]]]
  BY DEF TypeInv
<1>3. cache' \in [Objects -> [Families -> [Layers -> CacheRecords]]]
  BY <1>2 DEF Swap, Swapped, Objects
<1>4. \A o \in Objects : cache'[o] = cache[OtherObject(o)] /\ OtherObject(o) \in Objects
  BY DEF Swap, Swapped, OtherObject, Objects
<1>5. Moved(Families)
  BY <1>2, <1>4 DEF Moved
<1>6. TypeInv' /\ OpInv' /\ ShapeInv' /\ ApartInv' /\ CloneInv'
  BY <1>1, <1>3, <1>5, <1>1a, MoveStep
<1>7. \A o \in Objects, s \in Slots :
        /\ CacheOf(cache', o, s) = CacheOf(cache, OtherObject(o), s)
        /\ ContentOf(heap', cache', o, s) = ContentOf(heap, cache, OtherObject(o), s)
  BY <1>1, <1>4 DEF CacheOf, ContentOf
<1>8. PICK x, y \in Seq(Token) : Settled(heap, cache, phase, x, y)
  BY <1>1, <1>1a, IdleText
<1>9. \A s \in Slots : SlotIs(heap', cache', "live", s, y)
  <2>1. \A s \in Slots : SlotIs(heap, cache, "scratch", s, y)
    BY <1>1, <1>8 DEF Settled
  <2>2. OtherObject("live") = "scratch" /\ "live" \in Objects
    BY DEF OtherObject, Objects
  <2> QED BY <1>7, <2>1, <2>2 DEF SlotIs
<1>10. Texts(heap', cache', op', phase', y, y)
  BY <1>1, <1>9, IdleTexts DEF Settled, Related
<1>11. TextInv'
  BY <1>10, TextsPrimed
<1> QED BY <1>6, <1>7, <1>11


\* The first rows of rows.
LEMMA RowsOfRows ==
  ASSUME NEW rows \in Rowed, NEW n \in Nat, n <= Len(rows), NEW m \in Nat, m <= n
  PROVE  SubSeq(SubSeq(rows, 1, n), 1, m) = SubSeq(rows, 1, m)
<1> DEFINE a == SubSeq(rows, 1, n)
           k == Len(rows)
<1>1. k \in Nat /\ n <= k /\ m <= k
  <2>1. k \in Nat /\ n <= k
    BY LenProperties DEF Rowed
  <2> HIDE DEF k
  <2> QED BY <2>1
<1>2. a \in Rowed /\ Len(a) = n /\ \A i \in 1 .. n : a[i] = rows[i]
  BY FirstRows
<1> HIDE DEF a
<1>3. /\ SubSeq(a, 1, m) \in Rowed /\ Len(SubSeq(a, 1, m)) = m
      /\ \A i \in 1 .. m : SubSeq(a, 1, m)[i] = a[i]
  BY <1>2, FirstRows
<1>4. /\ SubSeq(rows, 1, m) \in Rowed /\ Len(SubSeq(rows, 1, m)) = m
      /\ \A i \in 1 .. m : SubSeq(rows, 1, m)[i] = rows[i]
  BY <1>1, FirstRows
<1>5. \A i \in 1 .. m : i \in 1 .. n
  OBVIOUS
<1>6. SubSeq(a, 1, m) = SubSeq(rows, 1, m)
  BY <1>2, <1>3, <1>4, <1>5, SeqEqual DEF Rowed
<1> QED BY <1>6 DEF a

LEMMA Truncated ==
  ASSUME NEW h \in [Buf -> Rowed], NEW c \in CacheRecords, NEW l, NEW n,
         AttentionShape(h, c, l, n), NEW d, d.first = c.first, d.second = c.second,
         NEW x \in Seq(Token), NEW y \in Seq(Token), RowsOf(h, c) = x, c.length = Len(x),
         IsPrefixOf(y, x), d.length = Len(y)
  PROVE  RowsOf(h, d) = y
<1>1. Len(x) \in Nat /\ Len(y) \in Nat /\ Len(y) <= Len(x) /\ SubSeq(x, 1, Len(y)) = y
  BY LenProperties DEF IsPrefixOf
<1>2. CASE initialized(c)
  <2>1. c.first \in Buf /\ c.second \in Buf /\ c.length <= c.capacity
        /\ Len(h[c.first]) = c.capacity /\ Len(h[c.second]) = c.capacity
    BY <1>2, Constants DEF AttentionShape
  <2>2. SubSeq(h[c.first], 1, Len(x)) = x /\ SubSeq(h[c.second], 1, Len(x)) = x
    BY <1>2, JunkRow DEF RowsOf
  <2>3. h[c.first] \in Rowed /\ h[c.second] \in Rowed
        /\ Len(x) <= Len(h[c.first]) /\ Len(x) <= Len(h[c.second])
    BY <2>1
  <2>4. SubSeq(h[c.first], 1, Len(y)) = y /\ SubSeq(h[c.second], 1, Len(y)) = y
    BY <1>1, <2>2, <2>3, RowsOfRows
  <2> QED BY <1>2, <2>4 DEF RowsOf, initialized
<1>3. CASE ~initialized(c)
  <2>1. x = << >>
    BY <1>3 DEF RowsOf
  <2>2. Len(y) = 0
    BY <1>1, <2>1
  <2>3. y = << >>
    BY <2>2, EmptySeq
  <2> QED BY <1>3, <2>3 DEF RowsOf, initialized
<1> QED BY <1>2, <1>3

LEMMA RollbackStep ==
  ASSUME CacheInv, Rollback
  PROVE  /\ CacheInv'
         /\ \A s \in Slots :
              /\ ContentOf(heap', cache', "live", s) = ContentOf(heap, cache, "scratch", s)
              /\ ContentOf(heap', cache', "scratch", s) =
                   ContentOf(heap, cache, IF s[2] = "kv" THEN "scratch" ELSE "live", s)
<1> USE DEF CacheInv
<1>1. /\ op = NoOp /\ phase = "behind" /\ phase' = "none" /\ heap' = heap /\ cap' = cap
      /\ op' = NoOp
  BY DEF Rollback
<1>2. cap > 0
  BY <1>1 DEF OpInv
<1>3. heap \in [Buf -> Rowed] /\ cache \in [Objects -> [Families -> [Layers -> CacheRecords]]]
  BY DEF TypeInv
<1>4. ASSUME NEW o \in Objects
      PROVE  /\ cache'[o]["deltanet"] = cache[OtherObject(o)]["deltanet"]
             /\ \A l \in Layers : cache'[o]["attention"][l] =
                  IF o = "live" THEN [cache["live"]["attention"][l] EXCEPT
                                        !.length = cache["scratch"]["attention"][l].length]
                  ELSE cache[o]["attention"][l]
  BY <1>3 DEF Rollback, RolledBack, Swapped, OtherObject, Objects, Families
<1>5. ASSUME NEW l \in Layers, NEW c, c = cache["live"]["attention"][l],
             NEW n, n = cache["scratch"]["attention"][l].length
      PROVE  /\ [c EXCEPT !.length = n] \in CacheRecords
             /\ n <= c.capacity /\ (c = NoCache => [c EXCEPT !.length = n] = NoCache)
  <2>1. c \in CacheRecords /\ n \in Nat /\ c.capacity \in Nat
    <3>1. c \in CacheRecords /\ cache["scratch"]["attention"][l] \in CacheRecords
      BY <1>3, <1>5 DEF Objects, Families
    <3> QED BY <1>5, <3>1, Constants DEF CacheRecords
  <2>2. n <= c.capacity
    <3>1. CASE l \in AttentionLayers
      BY <1>5, <3>1 DEF Rollback, CanTruncate
    <3>2. CASE l \notin AttentionLayers
      <4>1. cache["scratch"]["attention"][l] = NoCache
        BY <3>2 DEF ShapeInv, AttentionShape, Objects
      <4>2. n = 0
        BY <1>5, <4>1, Constants
      <4> QED BY <2>1, <4>2
    <3> QED BY <3>1, <3>2
  <2>3. ASSUME c = NoCache PROVE [c EXCEPT !.length = n] = NoCache
    <3>1. n = 0
      BY <2>1, <2>2, <2>3, Constants
    <3> QED BY <2>3, <3>1 DEF NoCache
  <2> QED BY <2>1, <2>2, <2>3 DEF CacheRecords
<1>6. cache' \in [Objects -> [Families -> [Layers -> CacheRecords]]]
  <2>1. \A o \in Objects, f \in Families, l \in Layers : cache'[o][f][l] \in CacheRecords
    <3> SUFFICES ASSUME NEW o \in Objects, NEW l \in Layers
                 PROVE  /\ cache'[o]["attention"][l] \in CacheRecords
                        /\ cache'[o]["deltanet"][l] \in CacheRecords
      BY DEF Families
    <3>1. cache'[o]["deltanet"][l] \in CacheRecords
      BY <1>3, <1>4 DEF OtherObject, Objects, Families
    <3>2. cache[o]["attention"][l] \in CacheRecords
      BY <1>3 DEF Families
    <3>3. CASE o = "live"
      <4> DEFINE n == cache["scratch"]["attention"][l].length
                 c == cache["live"]["attention"][l]
      <4>1. cache'[o]["attention"][l] = [c EXCEPT !.length = n]
        BY <1>4, <3>3
      <4>2. [c EXCEPT !.length = n] \in CacheRecords
        BY <1>5
      <4> QED BY <3>1, <4>1, <4>2
    <3>4. CASE o = "scratch"
      BY <1>4, <3>1, <3>2, <3>4
    <3> QED BY <3>3, <3>4 DEF Objects
  <2>2. ASSUME NEW o \in Objects PROVE cache'[o] \in [Families -> [Layers -> CacheRecords]]
    <3> DEFINE A == [l \in Layers |-> IF o = "live"
                     THEN [cache[o]["attention"][l] EXCEPT
                             !.length = cache["scratch"]["attention"][l].length]
                     ELSE cache[o]["attention"][l]]
               D == Swapped[o]["deltanet"]
    <3>1. cache'[o] = [attention |-> A, deltanet |-> D]
      BY DEF Rollback, RolledBack
    <3>2. D = cache[OtherObject(o)]["deltanet"]
      BY DEF Swapped, OtherObject
    <3>3. D \in [Layers -> CacheRecords]
      BY <1>3, <3>2 DEF OtherObject, Objects, Families
    <3>4. A = cache'[o]["attention"]
      BY <3>1
    <3>5. A \in [Layers -> CacheRecords]
      BY <2>1, <3>4 DEF Families
    <3> HIDE DEF A, D
    <3>6. cache'[o] = [f \in Families |-> IF f = "attention" THEN A ELSE D]
      BY <3>1 DEF Families
    <3> QED BY <3>3, <3>5, <3>6
  <2>3. cache' = [o \in Objects |-> cache'[o]]
    BY DEF Rollback, RolledBack
  <2> QED BY <2>2, <2>3
<1>7. Moved({"deltanet"})
  <2> SUFFICES ASSUME NEW o \in Objects, NEW f \in Families, NEW l \in Layers,
                      NEW from, from = cache[IF f \in {"deltanet"} THEN OtherObject(o) ELSE o][f][l]
               PROVE  /\ cache'[o][f][l] \in CacheRecords
                      /\ cache'[o][f][l].first = from.first
                      /\ cache'[o][f][l].second = from.second
                      /\ cache'[o][f][l].capacity = from.capacity
                      /\ \/ cache'[o][f][l] = from
                         \/ f = "attention" /\ cache'[o][f][l].length <= from.capacity
                            /\ (from = NoCache => cache'[o][f][l] = NoCache)
    BY DEF Moved
  <2>1. cache'[o][f][l] \in CacheRecords
    BY <1>6
  <2>2. CASE f = "deltanet" \/ o = "scratch"
    <3>1. cache'[o][f][l] = from
      BY <1>4, <2>2 DEF Families, Objects
    <3> QED BY <2>1, <3>1
  <2>3. CASE f = "attention" /\ o = "live"
    <3> DEFINE n == cache["scratch"]["attention"][l].length
    <3>0. from = cache["live"]["attention"][l]
      BY <2>3
    <3>1. cache'[o][f][l] = [from EXCEPT !.length = n] /\ from \in CacheRecords
          /\ from = cache["live"]["attention"][l]
      BY <1>3, <1>4, <2>3, <3>0 DEF Objects, Families
    <3>2. n <= from.capacity /\ (from = NoCache => [from EXCEPT !.length = n] = NoCache)
          /\ [from EXCEPT !.length = n] \in CacheRecords
      BY <1>5, <3>1
    <3> HIDE DEF n
    <3>3. /\ [from EXCEPT !.length = n].first = from.first
          /\ [from EXCEPT !.length = n].second = from.second
          /\ [from EXCEPT !.length = n].capacity = from.capacity
          /\ [from EXCEPT !.length = n].length = n
      BY <3>1 DEF CacheRecords
    <3> QED BY <2>3, <3>1, <3>2, <3>3
  <2> QED BY <2>2, <2>3 DEF Families, Objects
<1>8. TypeInv' /\ OpInv' /\ ShapeInv' /\ ApartInv' /\ CloneInv'
  BY <1>1, <1>2, <1>6, <1>7, MoveStep
<1>9. PICK x, y \in Seq(Token) : Settled(heap, cache, phase, x, y)
  BY <1>1, <1>2, IdleText
<1>10. /\ \A s \in Slots : SlotIs(heap, cache, "live", s, x) /\ SlotIs(heap, cache, "scratch", s, y)
       /\ IsPrefixOf(y, x)
  BY <1>1, <1>9 DEF Settled, Related
<1>11. ASSUME NEW s \in Slots
       PROVE  /\ SlotIs(heap', cache', "live", s, y)
              /\ ContentOf(heap', cache', "scratch", s) =
                   ContentOf(heap, cache, IF s[2] = "kv" THEN "scratch" ELSE "live", s)
  <2>1. CASE s[2] # "kv"
    <3>1. FamilyOf(s) = "deltanet"
      BY <2>1 DEF FamilyOf
    <3>2. /\ CacheOf(cache', "live", s) = CacheOf(cache, "scratch", s)
          /\ CacheOf(cache', "scratch", s) = CacheOf(cache, "live", s)
      BY <1>4, <3>1 DEF CacheOf, OtherObject, Objects
    <3>3. SlotIs(heap, cache, "scratch", s, y)
      BY <1>10
    <3> QED BY <1>1, <2>1, <3>2, <3>3 DEF SlotIs, ContentOf
  <2>2. CASE s[2] = "kv"
    <3> DEFINE c == CacheOf(cache, "live", s)
               n == CacheOf(cache, "scratch", s).length
    <3>1. FamilyOf(s) = "attention" /\ s[1] \in Layers
      BY <2>2, SlotFacts DEF FamilyOf
    <3>2. c \in CacheRecords /\ AttentionShape(heap, c, s[1], cap)
      BY <1>3, <3>1 DEF CacheOf, Objects, Families, ShapeInv
    <3>3. CacheOf(cache', "live", s) = [c EXCEPT !.length = n]
          /\ CacheOf(cache', "scratch", s) = CacheOf(cache, "scratch", s)
      BY <1>4, <3>1 DEF CacheOf, Objects
    <3>4. RowsOf(heap, c) = x /\ c.length = Len(x) /\ n = Len(y)
      BY <1>10, <2>2 DEF SlotIs, ContentOf, ValueOf
    <3> HIDE DEF c, n
    <3> DEFINE d == [c EXCEPT !.length = n]
    <3>5. d.first = c.first /\ d.second = c.second /\ d.length = n
      BY <3>2 DEF CacheRecords
    <3> HIDE DEF d
    <3>6. RowsOf(heap, d) = y
      BY <1>3, <1>10, <3>2, <3>4, <3>5, Truncated
    <3>7. CacheOf(cache', "live", s) = d
      BY <3>3 DEF d
    <3> QED BY <1>1, <2>2, <3>3, <3>4, <3>5, <3>6, <3>7 DEF SlotIs, ContentOf, ValueOf
  <2> QED BY <2>1, <2>2
<1>12. Texts(heap', cache', op', phase', y, y)
  BY <1>1, <1>11, IdleTexts DEF Settled, Related
<1>13. TextInv'
  BY <1>12, TextsPrimed
<1>14. \A s \in Slots : ContentOf(heap', cache', "live", s) = ContentOf(heap, cache, "scratch", s)
  BY <1>10, <1>11 DEF SlotIs
<1> QED BY <1>8, <1>11, <1>13, <1>14


-----------------------------------------------------------------------------
\* Cloning.

LEMMA CloneFacts ==
  ASSUME TypeInv, OpInv, ShapeInv, op.kind = "clone"
  PROVE  /\ op \in CloneOps /\ op.layer \in Layers /\ op.layer \in Nat /\ op.family \in Families
         /\ op.stage \in {"first", "second", "publish"}
         /\ cap \in Nat \ {0} /\ Source \in CacheRecords /\ Destination \in CacheRecords
         /\ \A c \in {Source, Destination} :
              \/ c = NoCache
              \/ /\ initialized(c) /\ c.first \in Buf /\ c.second \in Buf
                 /\ c.capacity = IF op.family = "attention" THEN cap ELSE 0
<1>1. op \in CloneOps /\ op # NoOp
  BY DEF TypeInv, NoOp, ForwardOps
<1>2. /\ op.layer \in Layers /\ op.family \in Families
      /\ op.stage \in {"first", "second", "publish"}
  BY <1>1 DEF CloneOps
<1>3. cap \in Nat \ {0}
  BY <1>1, Constants DEF TypeInv, OpInv
<1>4. Source \in CacheRecords /\ Destination \in CacheRecords
  BY <1>2 DEF TypeInv, Source, Destination, Objects
<1>5. ASSUME NEW o \in Objects, NEW c, c = cache[o][op.family][op.layer]
      PROVE  \/ c = NoCache
             \/ /\ initialized(c) /\ c.first \in Buf /\ c.second \in Buf
                /\ c.capacity = IF op.family = "attention" THEN cap ELSE 0
  <2>1. CASE op.family = "attention"
    <3>1. AttentionShape(heap, c, op.layer, cap)
      BY <1>2, <1>5, <2>1 DEF ShapeInv
    <3> QED BY <1>3, <2>1, <3>1, Constants DEF AttentionShape, initialized
  <2>2. CASE op.family = "deltanet"
    <3>1. DeltaNetShape(c, op.layer, HalfDone(op, cap, o, op.layer))
      BY <1>2, <1>5, <2>2 DEF ShapeInv
    <3>2. ~HalfDone(op, cap, o, op.layer)
      BY <1>3 DEF HalfDone
    <3> QED BY <2>2, <3>1, <3>2, Constants DEF DeltaNetShape, initialized
  <2> QED BY <1>2, <2>1, <2>2 DEF Families
<1>6. \A c \in {Source, Destination} :
              \/ c = NoCache
              \/ /\ initialized(c) /\ c.first \in Buf /\ c.second \in Buf
                 /\ c.capacity = IF op.family = "attention" THEN cap ELSE 0
  BY <1>5 DEF Source, Destination, Objects
<1>7. op.layer \in Nat
  BY <1>2 DEF Layers
<1> QED BY <1>1, <1>2, <1>3, <1>4, <1>6, <1>7

\* The slots of the cache being copied.
OfCache(p, s) == s[1] = p.layer /\ FamilyOf(s) = p.family

LEMMA CopiedFacts ==
  ASSUME NEW s \in Slots, NEW p, p.layer \in Nat, Copied(p, s)
  PROVE  ~OfCache(p, s)
BY SlotFacts DEF Copied, OfCache, FamilyOf

\* Cloning goes on to the next cache, or is over.
CopiesMore ==
  /\ op'.kind = "clone" /\ phase' = phase
  /\ op'.stage = "first" /\ op'.first = NoBuf /\ op'.second = NoBuf
  /\ \A s \in Slots : Copied(op', s) <=> Copied(op, s) \/ OfCache(op, s)
CopiesEnd ==
  /\ op' = NoOp /\ phase' = "copy"
  /\ \A s \in Slots : Copied(op, s) \/ OfCache(op, s)

LEMMA NextCacheFacts ==
  ASSUME TypeInv, OpInv, ShapeInv, op.kind = "clone", cap' = cap, NextCache
  PROVE  /\ CopiesMore \/ CopiesEnd
         /\ op' \in {NoOp} \cup ForwardOps \cup CloneOps
         /\ phase' \in {"none", "copy", "ahead", "behind"}
         /\ OpInv' /\ CloneInv'
         /\ op'.kind # "forward"
<1>1. /\ op \in CloneOps /\ op.layer \in Layers /\ op.layer \in Nat /\ op.family \in Families
      /\ cap \in Nat \ {0} /\ phase \in {"none", "copy", "ahead", "behind"}
  BY CloneFacts DEF TypeInv
<1>2. ASSUME NEW s \in Slots
      PROVE  /\ s[1] \in Nat /\ s[1] \in Layers
             /\ FamilyOf(s) = "attention" <=> s[2] = "kv"
  BY SlotFacts DEF FamilyOf
<1>3. CASE op.family = "attention"
  <2>1. op' = CloneOp(op.layer, "deltanet", "first", NoBuf, NoBuf) /\ phase' = phase
    BY <1>3 DEF NextCache
  <2>2. /\ op' \in CloneOps /\ op'.kind = "clone" /\ op'.layer = op.layer
        /\ op'.family = "deltanet" /\ op'.stage = "first"
        /\ op'.first = NoBuf /\ op'.second = NoBuf
    BY <1>1, <2>1 DEF CloneOp, CloneOps, Families
  <2>3. ASSUME NEW s \in Slots
        PROVE  Copied(op', s) <=> Copied(op, s) \/ OfCache(op, s)
    BY <1>2, <1>3, <2>2 DEF Copied, OfCache
  <2>4. CopiesMore
    BY <2>1, <2>2, <2>3 DEF CopiesMore
  <2> QED BY <1>1, <2>1, <2>2, <2>4 DEF OpInv, CloneInv
<1>4. CASE op.family = "deltanet" /\ op.layer < NumLayers
  <2>1. op' = CloneOp(op.layer + 1, "attention", "first", NoBuf, NoBuf) /\ phase' = phase
    BY <1>4 DEF NextCache
  <2>2. op.layer + 1 \in Layers
    BY <1>1, <1>4, Constants DEF Layers
  <2>3. /\ op' \in CloneOps /\ op'.kind = "clone" /\ op'.layer = op.layer + 1
        /\ op'.family = "attention" /\ op'.stage = "first"
        /\ op'.first = NoBuf /\ op'.second = NoBuf
    BY <1>1, <2>1, <2>2 DEF CloneOp, CloneOps, Families
  <2>4. ASSUME NEW s \in Slots
        PROVE  Copied(op', s) <=> Copied(op, s) \/ OfCache(op, s)
    <3>1. s[1] < op.layer + 1 <=> s[1] < op.layer \/ s[1] = op.layer
      BY <1>1, <1>2
    <3>2. FamilyOf(s) = "deltanet" <=> s[2] # "kv"
      BY DEF FamilyOf
    <3> QED BY <1>4, <2>3, <3>1, <3>2 DEF Copied, OfCache
  <2>5. CopiesMore
    BY <2>1, <2>3, <2>4 DEF CopiesMore
  <2> QED BY <1>1, <2>1, <2>3, <2>5 DEF OpInv, CloneInv
<1>5. CASE op.family = "deltanet" /\ ~ op.layer < NumLayers
  <2>1. op' = NoOp /\ phase' = "copy"
    BY <1>5 DEF NextCache
  <2>2. op'.kind = "idle"
    BY <2>1 DEF NoOp
  <2>3. ASSUME NEW s \in Slots PROVE Copied(op, s) \/ OfCache(op, s)
    <3>1. s[1] < op.layer \/ s[1] = op.layer
      BY <1>1, <1>2, <1>5, Constants DEF Layers
    <3>2. FamilyOf(s) = "deltanet" <=> s[2] # "kv"
      BY DEF FamilyOf
    <3> QED BY <1>5, <3>1, <3>2 DEF Copied, OfCache
  <2>4. CopiesEnd
    BY <2>1, <2>3 DEF CopiesEnd
  <2> QED BY <1>1, <2>1, <2>2, <2>4 DEF OpInv, CloneInv
<1> QED BY <1>1, <1>3, <1>4, <1>5 DEF Families

\* The texts while and after a cache is copied.
LEMMA CloneText ==
  ASSUME TypeInv, OpInv, ShapeInv, TextInv, op.kind = "clone", cap' = cap,
         NEW w, Only("scratch", op.family, op.layer, w),
         \/ /\ op'.kind = "clone" /\ phase' = phase
            /\ op'.layer = op.layer /\ op'.family = op.family
         \/ /\ CopiesMore \/ CopiesEnd
            /\ \A s \in Slots : OfCache(op, s) => \A x \in Seq(Token) :
                 SlotIs(heap, cache, "live", s, x) => SlotIs(heap', cache', "scratch", s, x)
  PROVE  /\ TextInv'
         /\ \A s \in Slots :
              /\ ContentOf(heap', cache', "live", s) = ContentOf(heap, cache, "live", s)
              /\ ~OfCache(op, s) =>
                   ContentOf(heap', cache', "scratch", s) = ContentOf(heap, cache, "scratch", s)
<1>1. /\ op.layer \in Layers /\ op.layer \in Nat /\ op.family \in Families /\ cap > 0
      /\ "live" \in Objects /\ "scratch" \in Objects
  BY CloneFacts DEF Objects
<1>2. ASSUME NEW s \in Slots
      PROVE  /\ CacheOf(cache', "live", s) = CacheOf(cache, "live", s)
             /\ ContentOf(heap', cache', "live", s) = ContentOf(heap, cache, "live", s)
             /\ ~OfCache(op, s) =>
                  /\ CacheOf(cache', "scratch", s) = CacheOf(cache, "scratch", s)
                  /\ ContentOf(heap', cache', "scratch", s) = ContentOf(heap, cache, "scratch", s)
  <2>1. <<"live", FamilyOf(s), s[1]>> # <<"scratch", op.family, op.layer>>
    OBVIOUS
  <2>2. ~OfCache(op, s) =>
          <<"scratch", FamilyOf(s), s[1]>> # <<"scratch", op.family, op.layer>>
    BY DEF OfCache
  <2> QED BY <1>1, <2>1, <2>2, Elsewhere
<1>3. PICK x, y \in Seq(Token) : Texts(heap, cache, op, phase, x, y)
  BY <1>1 DEF TextInv
<1>4. \A s \in Slots : /\ SlotIs(heap, cache, "live", s, x)
                       /\ Copied(op, s) => SlotIs(heap, cache, "scratch", s, x)
  BY <1>3 DEF Texts, Expected, Advanced
<1>5. \A s \in Slots : /\ SlotIs(heap', cache', "live", s, x)
                       /\ Copied(op, s) => SlotIs(heap', cache', "scratch", s, x)
  BY <1>1, <1>2, <1>4, CopiedFacts DEF SlotIs
<1>6. CASE /\ op'.kind = "clone" /\ phase' = phase
           /\ op'.layer = op.layer /\ op'.family = op.family
  <2>1. \A s \in Slots : Copied(op', s) <=> Copied(op, s)
    BY <1>6 DEF Copied
  <2>2. Texts(heap', cache', op', phase', x, y)
    BY <1>5, <1>6, <2>1 DEF Texts, Expected, Advanced
  <2>3. TextInv'
    BY <2>2, TextsPrimed
  <2> QED BY <1>2, <2>3
<1>7. CASE /\ CopiesMore \/ CopiesEnd
           /\ \A s \in Slots : OfCache(op, s) => \A z \in Seq(Token) :
                SlotIs(heap, cache, "live", s, z) => SlotIs(heap', cache', "scratch", s, z)
  <2>1. \A s \in Slots : OfCache(op, s) => SlotIs(heap', cache', "scratch", s, x)
    BY <1>4, <1>7
  <2>2. CASE CopiesMore
    <3>1. Texts(heap', cache', op', phase', x, y)
      BY <1>5, <2>1, <2>2 DEF CopiesMore, Texts, Expected, Advanced
    <3> QED BY <1>2, <3>1, TextsPrimed
  <2>3. CASE CopiesEnd
    <3>1. \A s \in Slots : SlotIs(heap', cache', "scratch", s, x)
      BY <1>5, <2>1, <2>3 DEF CopiesEnd
    <3>2. Settled(heap', cache', phase', x, x)
      BY <1>5, <2>3, <3>1 DEF CopiesEnd, Settled, Related
    <3>3. Texts(heap', cache', op', phase', x, x)
      BY <2>3, <3>2, IdleTexts DEF CopiesEnd
    <3> QED BY <1>2, <3>3, TextsPrimed
  <2> QED BY <1>7, <2>2, <2>3
<1> QED BY <1>6, <1>7


\* What a step of cloning keeps.
LEMMA CloneKept ==
  ASSUME CacheInv, op.kind = "clone", cap' = cap,
         NEW w, Only("scratch", op.family, op.layer, w),
         NEW d, d = cache'["scratch"][op.family][op.layer],
         d = NoCache \/ (initialized(d) /\ d.first \in Buf /\ d.second \in Buf
                         /\ d.first # d.second),
         Buffers(d) \cap Buf \subseteq w \cup Buffers(Destination),
         op.family = "attention" => AttentionShape(heap', d, op.layer, cap),
         op.family = "deltanet" /\ d # NoCache => d.capacity = 0 /\ op.layer \in LinearLayers
  PROVE  ShapeInv' /\ ApartInv'
<1> USE DEF CacheInv
<1>1. op.layer \in Layers /\ op.family \in Families /\ cap # 0 /\ "scratch" \in Objects
  BY CloneFacts DEF Objects
<1>2. ApartInv'
  <2>1. d.first \in Buf => d.first # d.second
    BY Constants
  <2>2. Buffers(d) \cap Buf \subseteq w \cup Buffers(cache["scratch"][op.family][op.layer])
    BY DEF Destination
  <2> QED BY <1>1, <2>1, <2>2, ApartKept
<1>3. \A o \in Objects, l \in Layers : ~HalfDone(op, cap, o, l)
  BY <1>1 DEF HalfDone
<1>4. op.family = "deltanet" =>
        DeltaNetShape(d, op.layer, HalfDone(op', cap, "scratch", op.layer))
  BY DEF DeltaNetShape
<1>5. ShapeInv'
  <2>1. \A o2 \in Objects, l2 \in LinearLayers :
           <<o2, "deltanet", l2>> # <<"scratch", op.family, op.layer>>
             /\ HalfDone(op, cap, o2, l2) => HalfDone(op', cap, o2, l2)
    BY <1>3, CacheAssumption
  <2> QED BY <1>1, <1>4, <2>1, ShapeKept
<1> QED BY <1>2, <1>5

LEMMA CloneNothingStep ==
  ASSUME CacheInv, CloneNothing
  PROVE  /\ CacheInv'
         /\ \A s \in Slots :
              /\ ContentOf(heap', cache', "live", s) = ContentOf(heap, cache, "live", s)
              /\ ContentOf(heap', cache', "scratch", s) =
                   ContentOf(heap, cache, IF OfCache(op, s) THEN "live" ELSE "scratch", s)
<1> USE DEF CacheInv
<1>1. /\ op.kind = "clone" /\ op.stage = "first" /\ ~initialized(Source) /\ NextCache
      /\ heap' = heap /\ cap' = cap
      /\ cache' = [cache EXCEPT !["scratch"][op.family][op.layer] = NoCache]
  BY DEF CloneNothing
<1>2. /\ op.layer \in Layers /\ op.layer \in Nat /\ op.family \in Families
      /\ "live" \in Objects /\ "scratch" \in Objects /\ Source = NoCache
  BY <1>1, CloneFacts DEF Objects
<1>3. heap \in [Buf -> Rowed] /\ cache \in [Objects -> [Families -> [Layers -> CacheRecords]]]
  BY DEF TypeInv
<1>4. cache' \in [Objects -> [Families -> [Layers -> CacheRecords]]]
      /\ cache'["scratch"][op.family][op.layer] = NoCache
  BY <1>1, <1>2, <1>3, Constants
<1>5. Only("scratch", op.family, op.layer, {})
  BY <1>1, <1>2, <1>3 DEF Only
<1>6. ASSUME NEW s \in Slots, OfCache(op, s)
      PROVE  /\ CacheOf(cache, "live", s) = NoCache /\ CacheOf(cache', "scratch", s) = NoCache
             /\ ContentOf(heap', cache', "scratch", s) = ContentOf(heap, cache, "live", s)
  <2>1. CacheOf(cache, "live", s) = NoCache /\ CacheOf(cache', "scratch", s) = NoCache
    BY <1>2, <1>4, <1>6 DEF CacheOf, OfCache, Source
  <2> QED BY <2>1, EmptyValue DEF ContentOf
<1>7. /\ CopiesMore \/ CopiesEnd
      /\ TypeInv' /\ OpInv' /\ CloneInv'
  <2>1. /\ CopiesMore \/ CopiesEnd
        /\ op' \in {NoOp} \cup ForwardOps \cup CloneOps
        /\ phase' \in {"none", "copy", "ahead", "behind"}
        /\ OpInv' /\ CloneInv'
    BY <1>1, NextCacheFacts
  <2> QED BY <1>1, <1>3, <1>4, <2>1 DEF TypeInv
<1>8. \A s \in Slots : OfCache(op, s) => \A x \in Seq(Token) :
        SlotIs(heap, cache, "live", s, x) => SlotIs(heap', cache', "scratch", s, x)
  BY <1>6 DEF SlotIs
<1>9. ShapeInv' /\ ApartInv'
  <2>1. AttentionShape(heap', NoCache, op.layer, cap)
    BY DEF AttentionShape
  <2>2. Buffers(NoCache) \cap Buf \subseteq {} \cup Buffers(Destination)
    BY Constants DEF Buffers
  <2> QED BY <1>1, <1>4, <1>5, <2>1, <2>2, CloneKept
<1>10. /\ TextInv'
       /\ \A s \in Slots :
              /\ ContentOf(heap', cache', "live", s) = ContentOf(heap, cache, "live", s)
              /\ ~OfCache(op, s) =>
                   ContentOf(heap', cache', "scratch", s) = ContentOf(heap, cache, "scratch", s)
  BY <1>1, <1>5, <1>7, <1>8, CloneText
<1> QED BY <1>6, <1>7, <1>9, <1>10

LEMMA CopyFirstStep ==
  ASSUME CacheInv, NEW f \in Families, CopyFirst(f)
  PROVE  /\ CacheInv'
         /\ \A s \in Slots :
              /\ ContentOf(heap', cache', "live", s) = ContentOf(heap, cache, "live", s)
              /\ ~OfCache(op, s) =>
                   ContentOf(heap', cache', "scratch", s) = ContentOf(heap, cache, "scratch", s)
         /\ cache' = cache /\ StateOf(heap', Destination.second) = StateOf(heap, Destination.second)
<1> USE DEF CacheInv
<1>1. /\ op.kind = "clone" /\ op.family = f /\ op.stage = "first" /\ initialized(Source)
      /\ cache' = cache /\ cap' = cap /\ phase' = phase
  BY DEF CopyFirst
<1>2. PICK p \in CloneBuffers :
        /\ heap' = [heap EXCEPT ![p[1]] = heap[Source.first],
                                ![p[2]] = IF p[2] \in Free THEN << >> ELSE @]
        /\ op' = CloneOp(op.layer, f, "second", p[1], p[2])
  BY DEF CopyFirst
<1>3. /\ op.layer \in Layers /\ op.layer \in Nat /\ op.family \in Families /\ cap \in Nat \ {0}
      /\ "live" \in Objects /\ "scratch" \in Objects
      /\ Source.first \in Buf /\ Source.second \in Buf
      /\ Source.capacity = IF f = "attention" THEN cap ELSE 0
      /\ Destination \in CacheRecords
      /\ \/ Destination = NoCache
         \/ /\ initialized(Destination) /\ Destination.first \in Buf /\ Destination.second \in Buf
            /\ Destination.capacity = Source.capacity
  BY <1>1, CloneFacts, Constants DEF Objects
<1>4. heap \in [Buf -> Rowed] /\ cache \in [Objects -> [Families -> [Layers -> CacheRecords]]]
  BY DEF TypeInv
<1>5. /\ p[1] \in Buf /\ p[2] \in Buf /\ p[1] # p[2]
      /\ \A o \in Objects, f2 \in Families, l \in Layers :
           <<o, f2, l>> # <<"scratch", f, op.layer>> =>
             p[1] \notin Buffers(cache[o][f2][l]) /\ p[2] \notin Buffers(cache[o][f2][l])
      /\ \/ p[1] = Destination.first /\ p[2] = Destination.second /\ p[2] \notin Free
         \/ Destination = NoCache /\ p[1] \notin InCaches /\ p[2] \notin InCaches
  <2>1. CASE Destination = NoCache
    <3>1. ~initialized(Destination)
      BY <2>1, Constants
    <3>2. p \in FreshPairs
      BY <3>1 DEF CloneBuffers
    <3> QED BY <2>1, <3>2, FreshPairFacts, FreshFacts
  <2>2. CASE Destination # NoCache
    <3>1. p = <<Destination.first, Destination.second>>
      BY <1>2, <1>3, <2>2 DEF CloneBuffers
    <3>2. Destination.first # Destination.second
      BY <1>1, <1>3, <2>2 DEF ApartInv, Destination
    <3>3. ASSUME NEW o \in Objects, NEW f2 \in Families, NEW l \in Layers,
                 <<o, f2, l>> # <<"scratch", f, op.layer>>
          PROVE  p[1] \notin Buffers(cache[o][f2][l]) /\ p[2] \notin Buffers(cache[o][f2][l])
      <4>1. Disjoint(Destination, cache[o][f2][l])
        BY <1>1, <1>3, <3>3 DEF ApartInv, Destination
      <4>2. p[1] \in Buffers(Destination) /\ p[2] \in Buffers(Destination)
        BY <3>1 DEF Buffers
      <4> QED BY <1>3, <2>2, <3>1, <4>1, <4>2 DEF Disjoint
    <3>4. p[2] \notin Free
      BY <1>1, <1>3, <3>1, FreshFacts DEF Destination, Buffers
    <3> QED BY <1>3, <2>2, <3>1, <3>2, <3>3, <3>4
  <2> QED BY <2>1, <2>2
<1>6. /\ heap' \in [Buf -> Rowed] /\ heap'[p[1]] = heap[Source.first]
      /\ p[2] \notin Free => heap'[p[2]] = heap[p[2]]
      /\ \A b \in Buf \ {p[1], p[2]} : heap'[b] = heap[b]
  <2>1. << >> \in Rowed
    BY EmptySeq DEF Rowed
  <2> QED BY <1>2, <1>3, <1>4, <1>5, <2>1
<1>7. Only("scratch", op.family, op.layer, {p[1], p[2]})
  BY <1>1, <1>5, <1>6 DEF Only
<1>8. /\ op' \in CloneOps /\ op'.kind = "clone" /\ op'.layer = op.layer /\ op'.family = op.family
      /\ op'.stage = "second" /\ op'.first = p[1] /\ op'.second = p[2]
  BY <1>1, <1>2, <1>3, <1>5 DEF CloneOp, CloneOps
<1>9. TypeInv'
  BY <1>1, <1>4, <1>6, <1>8 DEF TypeInv
<1>10. OpInv'
  BY <1>1, <1>3, <1>8 DEF OpInv
<1>11. ShapeInv' /\ ApartInv'
  <2> DEFINE d == Destination
  <2>1. d = cache'["scratch"][op.family][op.layer]
    BY <1>1 DEF Destination
  <2>2. d = NoCache \/ (initialized(d) /\ d.first \in Buf /\ d.second \in Buf /\ d.first # d.second)
    BY <1>3, <1>5, Constants
  <2>3. op.family = "attention" => AttentionShape(heap', d, op.layer, cap)
    <3>1. SUFFICES ASSUME op.family = "attention", d # NoCache
                   PROVE  AttentionShape(heap', d, op.layer, cap)
      BY DEF AttentionShape
    <3>2. AttentionShape(heap, d, op.layer, cap) /\ AttentionShape(heap, Source, op.layer, cap)
      BY <1>3, <3>1 DEF ShapeInv, Destination, Source
    <3>3. p[1] = d.first /\ p[2] = d.second /\ p[2] \notin Free
      BY <1>5, <3>1
    <3>4. Source # NoCache /\ Source.capacity = cap /\ d.capacity = cap
      BY <1>1, <1>3, <3>1, Constants
    <3>5. heap'[d.second] = heap[d.second] /\ Len(heap'[d.first]) = cap
      BY <1>6, <3>2, <3>3, <3>4 DEF AttentionShape
    <3> QED BY <3>1, <3>2, <3>4, <3>5 DEF AttentionShape
  <2>4. op.family = "deltanet" /\ d # NoCache => d.capacity = 0 /\ op.layer \in LinearLayers
    BY <1>3 DEF ShapeInv, DeltaNetShape, Destination
  <2>5. Buffers(d) \cap Buf \subseteq {p[1], p[2]} \cup Buffers(Destination)
    OBVIOUS
  <2> HIDE DEF d
  <2> QED BY <1>1, <1>7, <2>1, <2>2, <2>3, <2>4, <2>5, CloneKept
<1>12. Source' = Source /\ Destination' = Destination /\ InCaches' = InCaches
  BY <1>1, <1>8 DEF Source, Destination, InCaches
<1>13. CloneInv'
  <2>1. Source.first # p[1] /\ Source.first # p[2]
    BY <1>3, <1>5, <1>1 DEF Source, Buffers
  <2>2. heap'[Source.first] = heap[Source.first]
    BY <1>3, <1>6, <2>1
  <2>3. initialized(Source)'
    BY <1>1, <1>12 DEF initialized
  <2>4. heap'[op'.first] = heap'[Source'.first]
    BY <1>6, <1>8, <1>12, <2>2
  <2> QED BY <1>5, <1>8, <1>12, <2>3, <2>4 DEF CloneInv, initialized
<1>14. /\ TextInv'
       /\ \A s \in Slots :
              /\ ContentOf(heap', cache', "live", s) = ContentOf(heap, cache, "live", s)
              /\ ~OfCache(op, s) =>
                   ContentOf(heap', cache', "scratch", s) = ContentOf(heap, cache, "scratch", s)
  BY <1>1, <1>7, <1>8, CloneText
<1>15. StateOf(heap', Destination.second) = StateOf(heap, Destination.second)
  <2>1. Destination.second = NoBuf \/ (p[2] = Destination.second /\ p[2] \notin Free)
    BY <1>5, Constants
  <2> QED BY <1>6, <2>1 DEF StateOf
<1> QED BY <1>1, <1>9, <1>10, <1>11, <1>13, <1>14, <1>15


\* The buffers being filled are no other cache's.
LEMMA FilledFacts ==
  ASSUME CacheInv, op.kind = "clone", op.stage # "first"
  PROVE  /\ op.first \in Buf /\ op.second \in Buf /\ op.first # op.second
         /\ initialized(Source) /\ heap[op.first] = heap[Source.first]
         /\ op.stage = "publish" => heap[op.second] = heap[Source.second]
         /\ \A o \in Objects, f2 \in Families, l \in Layers :
              <<o, f2, l>> # <<"scratch", op.family, op.layer>> =>
                /\ op.first \notin Buffers(cache[o][f2][l])
                /\ op.second \notin Buffers(cache[o][f2][l])
         /\ \/ op.first = Destination.first /\ op.second = Destination.second
            \/ Destination = NoCache /\ op.first \notin InCaches /\ op.second \notin InCaches
         /\ Source.first \notin {op.first, op.second} /\ Source.second \notin {op.first, op.second}
<1> USE DEF CacheInv
<1>1. /\ op.layer \in Layers /\ op.family \in Families /\ "live" \in Objects
      /\ "scratch" \in Objects /\ Source \in CacheRecords
  BY CloneFacts DEF Objects
<1>2. /\ op.first \in Buf /\ op.second \in Buf /\ op.first # op.second
      /\ initialized(Source) /\ heap[op.first] = heap[Source.first]
      /\ op.stage = "publish" => heap[op.second] = heap[Source.second]
      /\ \/ op.first = Destination.first /\ op.second = Destination.second
         \/ Destination = NoCache /\ op.first \notin InCaches /\ op.second \notin InCaches
  BY DEF CloneInv
<1>3. ASSUME NEW o \in Objects, NEW f2 \in Families, NEW l \in Layers,
             <<o, f2, l>> # <<"scratch", op.family, op.layer>>
      PROVE  op.first \notin Buffers(cache[o][f2][l]) /\ op.second \notin Buffers(cache[o][f2][l])
  <2>1. CASE op.first = Destination.first /\ op.second = Destination.second
    <3>1. Disjoint(Destination, cache[o][f2][l])
      BY <1>1, <1>3 DEF ApartInv, Destination
    <3>2. op.first \in Buffers(Destination) /\ op.second \in Buffers(Destination)
      BY <2>1 DEF Buffers
    <3> QED BY <1>2, <3>1, <3>2 DEF Disjoint
  <2>2. CASE op.first \notin InCaches /\ op.second \notin InCaches
    <3> DEFINE all == {{cache[o2][f3][l3].first, cache[o2][f3][l3].second} :
                         o2 \in Objects, f3 \in Families, l3 \in Layers}
    <3>1. Buffers(cache[o][f2][l]) \in all
      BY DEF Buffers
    <3>2. InCaches = UNION all
      BY DEF InCaches
    <3> HIDE DEF all
    <3> QED BY <2>2, <3>1, <3>2
  <2> QED BY <1>2, <2>1, <2>2
<1>4. Source.first \in Buffers(Source) /\ Source.second \in Buffers(Source)
      /\ op.first \notin Buffers(Source) /\ op.second \notin Buffers(Source)
  BY <1>1, <1>3 DEF Source, Buffers
<1>5. Source.first \notin {op.first, op.second} /\ Source.second \notin {op.first, op.second}
  BY <1>4
<1> QED BY <1>2, <1>3, <1>5

LEMMA CopySecondStep ==
  ASSUME CacheInv, NEW f \in Families, CopySecond(f)
  PROVE  /\ CacheInv'
         /\ \A s \in Slots :
              /\ ContentOf(heap', cache', "live", s) = ContentOf(heap, cache, "live", s)
              /\ ~OfCache(op, s) =>
                   ContentOf(heap', cache', "scratch", s) = ContentOf(heap, cache, "scratch", s)
         /\ cache' = cache /\ StateOf(heap', Destination.first) = StateOf(heap, Destination.first)
<1> USE DEF CacheInv
<1>1. /\ op.kind = "clone" /\ op.family = f /\ op.stage = "second"
      /\ heap' = [heap EXCEPT ![op.second] = heap[Source.second]]
      /\ op' = [op EXCEPT !.stage = "publish"]
      /\ cache' = cache /\ cap' = cap /\ phase' = phase
  BY DEF CopySecond
<1>2. /\ op \in CloneOps /\ op.layer \in Layers /\ op.layer \in Nat /\ op.family \in Families
      /\ cap \in Nat \ {0} /\ "live" \in Objects /\ "scratch" \in Objects
      /\ Source \in CacheRecords /\ Destination \in CacheRecords
      /\ \A c \in {Source, Destination} :
              \/ c = NoCache
              \/ /\ initialized(c) /\ c.first \in Buf /\ c.second \in Buf
                 /\ c.capacity = IF op.family = "attention" THEN cap ELSE 0
  BY <1>1, CloneFacts DEF Objects
<1>3. heap \in [Buf -> Rowed]
  BY DEF TypeInv
<1>4. /\ op.first \in Buf /\ op.second \in Buf /\ op.first # op.second
      /\ initialized(Source) /\ heap[op.first] = heap[Source.first]
      /\ \A o \in Objects, f2 \in Families, l \in Layers :
              <<o, f2, l>> # <<"scratch", op.family, op.layer>> =>
                /\ op.first \notin Buffers(cache[o][f2][l])
                /\ op.second \notin Buffers(cache[o][f2][l])
      /\ \/ op.first = Destination.first /\ op.second = Destination.second
         \/ Destination = NoCache /\ op.first \notin InCaches /\ op.second \notin InCaches
      /\ Source.first \notin {op.first, op.second} /\ Source.second \notin {op.first, op.second}
  BY <1>1, FilledFacts
<1>5. Source # NoCache /\ Source.first \in Buf /\ Source.second \in Buf
  BY <1>2, <1>4, Constants
<1>6. /\ heap' \in [Buf -> Rowed] /\ heap'[op.second] = heap[Source.second]
      /\ \A b \in Buf \ {op.second} : heap'[b] = heap[b]
  BY <1>1, <1>3, <1>4, <1>5
<1>7. Only("scratch", op.family, op.layer, {op.second})
  BY <1>1, <1>4, <1>6 DEF Only
<1>8. /\ op' \in CloneOps /\ op'.kind = "clone" /\ op'.layer = op.layer /\ op'.family = op.family
      /\ op'.stage = "publish" /\ op'.first = op.first /\ op'.second = op.second
  BY <1>1, <1>2 DEF CloneOps
<1>9. TypeInv'
  BY <1>1, <1>6, <1>8 DEF TypeInv
<1>10. OpInv'
  BY <1>1, <1>2, <1>8 DEF OpInv
<1>11. ShapeInv' /\ ApartInv'
  <2> DEFINE d == Destination
  <2>1. d = cache'["scratch"][op.family][op.layer]
    BY <1>1 DEF Destination
  <2>2. d = NoCache \/ (initialized(d) /\ d.first \in Buf /\ d.second \in Buf /\ d.first # d.second)
    BY <1>2, <1>4, Constants
  <2>3. op.family = "attention" => AttentionShape(heap', d, op.layer, cap)
    <3>1. SUFFICES ASSUME op.family = "attention", d # NoCache
                   PROVE  AttentionShape(heap', d, op.layer, cap)
      BY DEF AttentionShape
    <3>2. AttentionShape(heap, d, op.layer, cap) /\ AttentionShape(heap, Source, op.layer, cap)
      BY <1>2, <3>1 DEF ShapeInv, Destination, Source
    <3>3. op.first = d.first /\ op.second = d.second
      BY <1>4, <3>1
    <3>4. Source.capacity = cap /\ d.capacity = cap
      BY <1>2, <1>5, <3>1
    <3>5. heap'[d.first] = heap[d.first] /\ Len(heap'[d.second]) = cap
      BY <1>4, <1>5, <1>6, <3>2, <3>3, <3>4 DEF AttentionShape
    <3> QED BY <3>1, <3>2, <3>4, <3>5 DEF AttentionShape
  <2>4. op.family = "deltanet" /\ d # NoCache => d.capacity = 0 /\ op.layer \in LinearLayers
    BY <1>2 DEF ShapeInv, DeltaNetShape, Destination
  <2>5. Buffers(d) \cap Buf \subseteq {op.second} \cup Buffers(Destination)
    OBVIOUS
  <2> HIDE DEF d
  <2> QED BY <1>1, <1>7, <2>1, <2>2, <2>3, <2>4, <2>5, CloneKept
<1>12. Source' = Source /\ Destination' = Destination /\ InCaches' = InCaches
  BY <1>1, <1>8 DEF Source, Destination, InCaches
<1>13. CloneInv'
  <2>1. heap'[op.first] = heap[op.first] /\ heap'[Source.first] = heap[Source.first]
        /\ heap'[Source.second] = heap[Source.second]
    BY <1>4, <1>5, <1>6
  <2>2. initialized(Source)'
    BY <1>4, <1>12 DEF initialized
  <2>3. heap'[op'.first] = heap'[Source'.first] /\ heap'[op'.second] = heap'[Source'.second]
    BY <1>4, <1>6, <1>8, <1>12, <2>1
  <2> QED BY <1>4, <1>8, <1>12, <2>2, <2>3 DEF CloneInv, initialized
<1>14. /\ TextInv'
       /\ \A s \in Slots :
              /\ ContentOf(heap', cache', "live", s) = ContentOf(heap, cache, "live", s)
              /\ ~OfCache(op, s) =>
                   ContentOf(heap', cache', "scratch", s) = ContentOf(heap, cache, "scratch", s)
  BY <1>1, <1>7, <1>8, CloneText
<1>15. StateOf(heap', Destination.first) = StateOf(heap, Destination.first)
  <2>1. Destination.first = NoBuf \/ (Destination.first \in Buf /\ Destination.first # op.second)
    BY <1>4, Constants
  <2> QED BY <1>6, <2>1 DEF StateOf
<1> QED BY <1>1, <1>9, <1>10, <1>11, <1>13, <1>14, <1>15

LEMMA PublishStep ==
  ASSUME CacheInv, NEW f \in Families, Publish(f)
  PROVE  /\ CacheInv'
         /\ \A s \in Slots :
              /\ ContentOf(heap', cache', "live", s) = ContentOf(heap, cache, "live", s)
              /\ ContentOf(heap', cache', "scratch", s) =
                   ContentOf(heap, cache, IF OfCache(op, s) THEN "live" ELSE "scratch", s)
<1> USE DEF CacheInv
<1> DEFINE d == [Source EXCEPT !.first = op.first, !.second = op.second]
<1>1. /\ op.kind = "clone" /\ op.family = f /\ op.stage = "publish" /\ NextCache
      /\ heap' = heap /\ cap' = cap
      /\ cache' = [cache EXCEPT !["scratch"][op.family][op.layer] = d]
  BY DEF Publish
<1>2. /\ op.layer \in Layers /\ op.layer \in Nat /\ op.family \in Families
      /\ cap \in Nat \ {0} /\ "live" \in Objects /\ "scratch" \in Objects
      /\ Source \in CacheRecords
      /\ \/ Source = NoCache
         \/ /\ initialized(Source) /\ Source.first \in Buf /\ Source.second \in Buf
            /\ Source.capacity = IF op.family = "attention" THEN cap ELSE 0
  BY <1>1, CloneFacts DEF Objects
<1>3. heap \in [Buf -> Rowed] /\ cache \in [Objects -> [Families -> [Layers -> CacheRecords]]]
  BY DEF TypeInv
<1>4. /\ op.first \in Buf /\ op.second \in Buf /\ op.first # op.second
      /\ initialized(Source)
      /\ heap[op.first] = heap[Source.first] /\ heap[op.second] = heap[Source.second]
      /\ \A o \in Objects, f2 \in Families, l \in Layers :
              <<o, f2, l>> # <<"scratch", op.family, op.layer>> =>
                /\ op.first \notin Buffers(cache[o][f2][l])
                /\ op.second \notin Buffers(cache[o][f2][l])
  BY <1>1, FilledFacts
<1>5. Source # NoCache
  BY <1>4, Constants
<1>6. /\ d \in CacheRecords /\ d.first = op.first /\ d.second = op.second
      /\ d.length = Source.length /\ d.capacity = Source.capacity
  BY <1>2, <1>4 DEF CacheRecords
<1> HIDE DEF d
<1>7. cache' \in [Objects -> [Families -> [Layers -> CacheRecords]]]
      /\ d = cache'["scratch"][op.family][op.layer]
  BY <1>1, <1>2, <1>3, <1>6
<1>8. Only("scratch", op.family, op.layer, {op.first, op.second})
  BY <1>1, <1>2, <1>3, <1>4 DEF Only
<1>9. initialized(d)
  BY <1>4, <1>6, Constants DEF initialized
<1>10. \A half : ValueOf(heap, d, half) = ValueOf(heap, Source, half)
  BY <1>2, <1>4, <1>5, <1>6, <1>9, Constants DEF ValueOf, StateOf, RowsOf, initialized
<1>11. ASSUME NEW s \in Slots, OfCache(op, s)
       PROVE  /\ CacheOf(cache, "live", s) = Source /\ CacheOf(cache', "scratch", s) = d
              /\ ContentOf(heap', cache', "scratch", s) = ContentOf(heap, cache, "live", s)
  <2>1. CacheOf(cache, "live", s) = Source /\ CacheOf(cache', "scratch", s) = d
    BY <1>7, <1>11 DEF CacheOf, OfCache, Source
  <2> QED BY <1>1, <1>10, <2>1 DEF ContentOf
<1>12. /\ CopiesMore \/ CopiesEnd
       /\ TypeInv' /\ OpInv' /\ CloneInv'
  <2>1. /\ CopiesMore \/ CopiesEnd
        /\ op' \in {NoOp} \cup ForwardOps \cup CloneOps
        /\ phase' \in {"none", "copy", "ahead", "behind"}
        /\ OpInv' /\ CloneInv'
    BY <1>1, NextCacheFacts
  <2> QED BY <1>1, <1>3, <1>7, <2>1 DEF TypeInv
<1>13. \A s \in Slots : OfCache(op, s) => \A x \in Seq(Token) :
        SlotIs(heap, cache, "live", s, x) => SlotIs(heap', cache', "scratch", s, x)
  BY <1>6, <1>11 DEF SlotIs
<1>14. ShapeInv' /\ ApartInv'
  <2>1. d = NoCache \/ (initialized(d) /\ d.first \in Buf /\ d.second \in Buf /\ d.first # d.second)
    BY <1>4, <1>6, <1>9
  <2>2. op.family = "attention" => AttentionShape(heap', d, op.layer, cap)
    <3>1. SUFFICES ASSUME op.family = "attention"
                   PROVE  AttentionShape(heap', d, op.layer, cap)
      OBVIOUS
    <3>2. AttentionShape(heap, Source, op.layer, cap)
      BY <1>2, <3>1 DEF ShapeInv, Source
    <3> QED BY <1>1, <1>4, <1>5, <1>6, <3>2 DEF AttentionShape
  <2>3. op.family = "deltanet" /\ d # NoCache => d.capacity = 0 /\ op.layer \in LinearLayers
    BY <1>2, <1>5, <1>6 DEF ShapeInv, DeltaNetShape, Source
  <2>4. Buffers(d) \cap Buf \subseteq {op.first, op.second} \cup Buffers(Destination)
    BY <1>6 DEF Buffers
  <2> QED BY <1>1, <1>7, <1>8, <2>1, <2>2, <2>3, <2>4, CloneKept
<1>15. /\ TextInv'
       /\ \A s \in Slots :
              /\ ContentOf(heap', cache', "live", s) = ContentOf(heap, cache, "live", s)
              /\ ~OfCache(op, s) =>
                   ContentOf(heap', cache', "scratch", s) = ContentOf(heap, cache, "scratch", s)
  BY <1>1, <1>8, <1>12, <1>13, CloneText
<1> QED BY <1>11, <1>12, <1>14, <1>15


-----------------------------------------------------------------------------
\* The invariant, and what a step makes of the contents.

Contents(h, k) == [o \in Objects |-> [s \in Slots |-> ContentOf(h, k, o, s)]]

LEMMA ContentsAre == contents = Contents(heap, cache)
<1>1. ASSUME NEW o \in Objects, NEW s \in Slots
      PROVE  Content(o, s) = ContentOf(heap, cache, o, s)
  <2>1. s[2] \in {"kv", "conv", "recurrent"}
    BY SlotFacts
  <2>2. CASE s[2] = "kv"
    BY <2>2 DEF Content, ContentOf, ValueOf, RowsOf, CacheOf, FamilyOf, Rows
  <2>3. CASE s[2] = "conv"
    BY <2>3 DEF Content, ContentOf, ValueOf, StateOf, CacheOf, FamilyOf, State
  <2>4. CASE s[2] = "recurrent"
    BY <2>4 DEF Content, ContentOf, ValueOf, StateOf, CacheOf, FamilyOf, State
  <2> QED BY <2>1, <2>2, <2>3, <2>4
<1> QED BY <1>1 DEF contents, Contents

LEMMA ContentsPrimed == (contents = Contents(heap, cache))'
BY ContentsAre, PTL

\* What steps do to the contents, and what each step comes to (Outcome).
Starts == UNCHANGED <<heap, cache>>
Absorbing == \E s \in Slots : op.kind = "forward" /\ Absorbs(op.obj, s)
Leaves(o) ==
  \A s \in Slots : ContentOf(heap', cache', o, s) = ContentOf(heap, cache, o, s)
Empties(o) == \A s \in Slots : ContentOf(heap', cache', o, s) = << >>
Takes(o, o2) ==
  \A s \in Slots : ContentOf(heap', cache', o, s) = ContentOf(heap, cache, o2, s)
Copying ==
  \A s \in Slots : ~OfCache(op, s) =>
    ContentOf(heap', cache', "scratch", s) = ContentOf(heap, cache, "scratch", s)
CopyDone ==
  \A s \in Slots : OfCache(op, s) =>
    ContentOf(heap', cache', "scratch", s) = ContentOf(heap, cache, "live", s)

Outcome ==
  \/ Starts
  \/ op = NoOp /\ \A o \in Objects : Empties(o)
  \/ Leaves("live") /\ Empties("scratch")
  \/ Absorbing
  \/ op = NoOp /\ Takes("live", "scratch") /\ Takes("scratch", "live")
  \/ op = NoOp /\ Takes("live", "scratch") /\ Rollback
  \/ Leaves("live") /\ Copying /\ CopyDone
  \/ /\ Leaves("live") /\ Copying
     /\ \E f \in Families : CopyFirst(f) \/ CopySecond(f)

LEMMA StepLemma ==
  ASSUME CacheInv, [Next]_vars
  PROVE  CacheInv' /\ Outcome
<1>1. ASSUME NEW c \in Capacities, Begin(c)
      PROVE  CacheInv' /\ Outcome
  BY <1>1, BeginStep DEF Empties, Begin, Outcome
<1>2. ASSUME NEW o \in Objects, NEW ids \in Inputs, Forward(o, ids)
      PROVE  CacheInv' /\ Outcome
  BY <1>2, StartStep DEF Forward, Starts, Outcome
<1>3. CASE Clone
  BY <1>3, StartStep DEF Clone, Starts, Outcome
<1>4. CASE Swap
  <2>1. CacheInv' /\ \A o \in Objects, s \in Slots :
           ContentOf(heap', cache', o, s) = ContentOf(heap, cache, OtherObject(o), s)
    BY <1>4, SwapStep
  <2>2. Takes("live", "scratch") /\ Takes("scratch", "live")
    BY <2>1 DEF Takes, OtherObject, Objects
  <2> QED BY <1>4, <2>1, <2>2 DEF Swap, Outcome
<1>5. CASE Rollback
  <2>1. CacheInv' /\ Takes("live", "scratch")
    BY <1>5, RollbackStep DEF Takes
  <2> QED BY <1>5, <2>1 DEF Rollback, Outcome
<1>6. CASE Finish
  BY <1>6, FinishStep DEF Leaves, Empties, Outcome
<1>7. CASE Attend
  BY <1>7, AttendStep DEF Absorbing, Outcome
<1>8. CASE Convolve
  BY <1>8, ConvolveStep DEF Absorbing, Outcome
<1>9. CASE Recur
  BY <1>9, RecurStep DEF Absorbing, Outcome
<1>10. CASE CloneNothing
  BY <1>10, CloneNothingStep DEF Leaves, Copying, CopyDone, Outcome
<1>11. ASSUME NEW f \in Families, CopyFirst(f) \/ CopySecond(f)
       PROVE  CacheInv' /\ Outcome
  BY <1>11, CopyFirstStep, CopySecondStep DEF Leaves, Copying, Outcome
<1>12. ASSUME NEW f \in Families, Publish(f)
       PROVE  CacheInv' /\ Outcome
  BY <1>12, PublishStep DEF Leaves, Copying, CopyDone, Outcome
<1>13. CASE UNCHANGED vars
  <2> USE DEF CacheInv
  <2>1. heap' = heap /\ cache' = cache /\ cap' = cap /\ op' = op /\ phase' = phase
    BY <1>13 DEF vars
  <2>2. TypeInv' /\ OpInv'
    BY <2>1 DEF TypeInv, OpInv
  <2>3. ShapeInv'
    BY <2>1 DEF ShapeInv, AttentionShape, DeltaNetShape, HalfDone
  <2>4. ApartInv'
    BY <2>1 DEF ApartInv, Disjoint, Buffers
  <2>5. CloneInv'
    <3>1. Source' = Source /\ Destination' = Destination /\ InCaches' = InCaches
      BY <2>1 DEF Source, Destination, InCaches
    <3>2. initialized(Source)' = initialized(Source)
      BY <3>1 DEF initialized
    <3> QED BY <2>1, <3>1, <3>2 DEF CloneInv
  <2>6. TextInv'
    <3>1. cap' > 0 => \E x, y \in Seq(Token) : Texts(heap', cache', op', phase', x, y)
      BY <2>1 DEF TextInv
    <3> QED BY <3>1, TextsPrimed
  <2> QED BY <2>1, <2>2, <2>3, <2>4, <2>5, <2>6 DEF Outcome, Starts
<1>14. ASSUME CloneAttention \/ CloneDeltaNet
       PROVE  \E f \in Families : CopyFirst(f) \/ CopySecond(f) \/ Publish(f)
  BY <1>14 DEF CloneAttention, CloneDeltaNet, Families
<1> QED BY <1>1, <1>2, <1>3, <1>4, <1>5, <1>6, <1>7, <1>8, <1>9, <1>10, <1>11, <1>12, <1>13,
           <1>14 DEF Next, Call, Step

LEMMA Invariance == Spec => []CacheInv
<1>1. CacheInv /\ [Next]_vars => CacheInv'
  BY StepLemma
<1> QED BY InitStep, <1>1, PTL DEF Spec


-----------------------------------------------------------------------------
\* The theorems.

\* The type invariant: whichever operation fails where, buffers hold tokens or
\* unwritten memory, and caches have buffers, lengths and capacities.
THEOREM CachesTyped == Spec => []TypeOK
<1>1. CacheInv => TypeOK
  <2> SUFFICES ASSUME CacheInv PROVE TypeOK
    OBVIOUS
  <2>1. op.kind \in {"idle", "forward", "clone"}
    BY DEF CacheInv, TypeInv, NoOp, ForwardOps, CloneOps
  <2> QED BY <2>1 DEF CacheInv, TypeInv, TypeOK, Rowed, CacheRecords
<1> QED BY Invariance, <1>1, PTL

\* No tensor buffer is referred to by two caches, or as both halves of one,
\* whatever clone(), swap() and restore() have moved where.
THEOREM CachesApart == Spec => []IndependentStorage
<1>1. CacheInv => IndependentStorage
  <2> SUFFICES ASSUME CacheInv, NEW r \in Refs, NEW q \in Refs, r # q, BufferAt(r) = BufferAt(q)
               PROVE  BufferAt(r) = NoBuf
    BY DEF IndependentStorage
  <2> USE DEF CacheInv
  <2>1. ASSUME NEW z \in Refs
        PROVE  /\ z = <<z[1], z[2], z[3], z[4]>>
               /\ z[1] \in Objects /\ z[2] \in Families /\ z[3] \in Layers
               /\ z[4] \in {"first", "second"}
               /\ BufferAt(z) = IF z[4] = "first" THEN cache[z[1]][z[2]][z[3]].first
                                ELSE cache[z[1]][z[2]][z[3]].second
    BY DEF Refs, BufferAt
  <2> DEFINE c == cache[r[1]][r[2]][r[3]]
             d == cache[q[1]][q[2]][q[3]]
  <2>2. c \in CacheRecords /\ d \in CacheRecords
    BY <2>1 DEF TypeInv
  <2>3. BufferAt(r) \in Buffers(c) /\ BufferAt(q) \in Buffers(d)
    BY <2>1 DEF Buffers
  <2>4. BufferAt(r) \in Buf \cup {NoBuf}
    BY <2>2, <2>3 DEF CacheRecords, Buffers
  <2>5. CASE <<r[1], r[2], r[3]>> # <<q[1], q[2], q[3]>>
    <3>1. Disjoint(c, d)
      BY <2>1, <2>5 DEF ApartInv
    <3> QED BY <2>3, <2>4, <3>1 DEF Disjoint
  <2>6. CASE <<r[1], r[2], r[3]>> = <<q[1], q[2], q[3]>>
    <3>1. r[1] = q[1] /\ r[2] = q[2] /\ r[3] = q[3]
      BY <2>6
    <3>2. r[4] # q[4] /\ c = d
      BY <2>1, <3>1
    <3>3. c.first \in Buf => c.first # c.second
      BY <2>1 DEF ApartInv
    <3>4. c.first = c.second /\ BufferAt(r) = c.first
      BY <2>1, <3>2
    <3> QED BY <2>4, <3>3, <3>4
  <2> QED BY <2>5, <2>6
<1> QED BY Invariance, <1>1, PTL

LEMMA ContentIs ==
  ASSUME NEW o \in Objects, NEW s \in Slots
  PROVE  Content(o, s) = ContentOf(heap, cache, o, s)
<1>1. contents[o][s] = Content(o, s) /\ Contents(heap, cache)[o][s] = ContentOf(heap, cache, o, s)
  BY DEF contents, Contents
<1> QED BY <1>1, ContentsAre

\* Between operations every layer of the live caches, and of a scratch copy in
\* use, has absorbed the same text, and the caches' lengths are its length.
THEOREM LayersAgree == Spec => []LayersInStep
<1>1. CacheInv => LayersInStep
  <2> SUFFICES ASSUME CacheInv, op = NoOp, cap > 0,
                      NEW o \in IF phase = "none" THEN {"live"} ELSE Objects
               PROVE  /\ \A s, t \in Slots : Content(o, s) = Content(o, t)
                      /\ \A s \in Slots :
                           cache[o][IF s[2] = "kv" THEN "attention" ELSE "deltanet"][s[1]].length
                             = Len(Content(o, s))
    BY DEF LayersInStep
  <2> USE DEF CacheInv
  <2>1. PICK x, y \in Seq(Token) : Settled(heap, cache, phase, x, y)
    BY IdleText
  <2>2. o \in Objects
    BY DEF Objects
  <2>3. PICK z \in Seq(Token) : \A s \in Slots : SlotIs(heap, cache, o, s, z)
    BY <2>1 DEF Settled, Objects
  <2>4. ASSUME NEW s \in Slots
        PROVE  /\ Content(o, s) = z
               /\ cache[o][IF s[2] = "kv" THEN "attention" ELSE "deltanet"][s[1]].length
                    = Len(Content(o, s))
    <3>1. Content(o, s) = z
      BY <2>2, <2>3, ContentIs DEF SlotIs
    <3>2. CASE s[2] # "conv"
      BY <2>3, <3>1, <3>2 DEF SlotIs, CacheOf, FamilyOf
    <3>3. CASE s[2] = "conv"
      <4> DEFINE t == <<s[1], "recurrent">>
      <4>1. t \in Slots /\ t[1] = s[1] /\ t[2] = "recurrent"
        BY <3>3, SlotFacts DEF Slots
      <4>2. CacheOf(cache, o, t).length = Len(z)
        BY <2>3, <4>1 DEF SlotIs
      <4> QED BY <3>1, <3>3, <4>1, <4>2 DEF CacheOf, FamilyOf
    <3> QED BY <3>2, <3>3
  <2> QED BY <2>4
<1> QED BY Invariance, <1>1, PTL

\* A scratch copy is what was copied until a pass extends it, or the live
\* caches.
THEOREM ScratchFollows == Spec => []ScratchFollowsPhase
<1>1. CacheInv => ScratchFollowsPhase
  <2> SUFFICES ASSUME CacheInv, op = NoOp, NEW s \in Slots, phase # "none"
               PROVE  LET l == Content("live", s)
                          x == Content("scratch", s)
                      IN  /\ phase = "copy" => l = x
                          /\ phase = "ahead" => l # x /\ IsPrefixOf(l, x)
                          /\ phase = "behind" => l # x /\ IsPrefixOf(x, l)
    BY DEF ScratchFollowsPhase
  <2> USE DEF CacheInv
  <2>1. cap > 0
    BY DEF OpInv
  <2>2. PICK x, y \in Seq(Token) : Settled(heap, cache, phase, x, y)
    BY <2>1, IdleText
  <2>3. Content("live", s) = x /\ Content("scratch", s) = y
    BY <2>2, ContentIs DEF Settled, SlotIs, Objects
  <2> QED BY <2>2, <2>3 DEF Settled, Related
<1> QED BY Invariance, <1>1, PTL


\* clone() and passes over the clone leave what the live caches hold alone,
\* and so does a failure in either.
THEOREM ScratchIsolated == Spec => ScratchWorkIsIsolated
<1>1. CacheInv /\ [Next]_vars => (OnScratch => contents'["live"] = contents["live"])
  <2> SUFFICES ASSUME CacheInv, [Next]_vars, OnScratch
               PROVE  contents'["live"] = contents["live"]
    OBVIOUS
  <2>1. Outcome
    BY StepLemma
  <2>2. op # NoOp
    BY DEF OnScratch, NoOp
  <2>3. Leaves("live")
    <3>1. CASE Starts
      BY <3>1 DEF Starts, Leaves, ContentOf, CacheOf, ValueOf, StateOf, RowsOf
    <3>2. CASE Absorbing
      <4>1. PICK s \in Slots : op.kind = "forward" /\ Absorbs(op.obj, s)
        BY <3>2 DEF Absorbing
      <4>2. op.obj = "scratch"
        BY <4>1 DEF OnScratch
      <4> QED BY <4>1, <4>2 DEF Absorbs, Leaves, Objects
    <3> QED BY <2>1, <2>2, <3>1, <3>2 DEF Outcome
  <2>4. contents' = Contents(heap', cache') /\ contents = Contents(heap, cache)
    BY ContentsAre, ContentsPrimed
  <2> QED BY <2>3, <2>4 DEF Contents, Leaves, Objects
<1> QED BY Invariance, <1>1, PTL DEF Spec, ScratchWorkIsIsolated

LEMMA ContentsTyped == CacheInv => contents \in [Objects -> [Slots -> Rowed]]
<1> SUFFICES ASSUME CacheInv, NEW o \in Objects, NEW s \in Slots
             PROVE  ContentOf(heap, cache, o, s) \in Rowed
  BY ContentsAre DEF Contents
<1> USE DEF CacheInv
<1> DEFINE c == CacheOf(cache, o, s)
<1>1. heap \in [Buf -> Rowed] /\ c \in CacheRecords /\ << >> \in Rowed /\ <<Junk>> \in Rowed
  BY SlotFacts, EmptySeq DEF TypeInv, CacheOf, Rowed
<1>2. \A b \in Buf \cup {NoBuf} : StateOf(heap, b) \in Rowed
  BY <1>1 DEF StateOf
<1>3. s[2] = "kv" => RowsOf(heap, c) \in Rowed
  <2> SUFFICES ASSUME s[2] = "kv", initialized(c) PROVE RowsOf(heap, c) \in Rowed
    BY <1>1 DEF RowsOf
  <2>1. AttentionShape(heap, c, s[1], cap)
    BY SlotFacts DEF ShapeInv, CacheOf, FamilyOf
  <2>2. c.first \in Buf /\ c.second \in Buf /\ c.length <= Len(heap[c.first]) /\ c.length \in Nat
    BY <1>1, <2>1, Constants DEF AttentionShape, CacheRecords
  <2>3. SubSeq(heap[c.first], 1, c.length) \in Rowed
    BY <1>1, <2>2, FirstRows
  <2> QED BY <1>1, <2>3 DEF RowsOf
<1>4. c.first \in Buf \cup {NoBuf} /\ c.second \in Buf \cup {NoBuf}
  BY <1>1 DEF CacheRecords
<1>5. s[2] \in {"kv", "conv", "recurrent"}
  BY SlotFacts
<1> HIDE DEF c
<1>6. ValueOf(heap, c, s[2]) \in Rowed
  BY <1>2, <1>3, <1>4, <1>5 DEF ValueOf
<1> QED BY <1>6 DEF ContentOf, c

LEMMA ContentsTypedPrimed == (CacheInv => contents \in [Objects -> [Slots -> Rowed]])'
BY ContentsTyped, PTL

\* While a buffer is being copied, one slot of the scratch caches changes.
LEMMA OneSlotSpoiled ==
  ASSUME CacheInv, NEW f \in Families, CopyFirst(f) \/ CopySecond(f), Copying
  PROVE  \E s1 \in Slots : \A s \in Slots : s # s1 =>
           ContentOf(heap', cache', "scratch", s) = ContentOf(heap, cache, "scratch", s)
<1> USE DEF CacheInv
<1>1. /\ op.kind = "clone" /\ op.family = f /\ cache' = cache
      /\ CopyFirst(f) => op.stage = "first" /\ initialized(Source)
      /\ CopySecond(f) => op.stage = "second"
  BY DEF CopyFirst, CopySecond
<1>2. initialized(Source) /\ op.layer \in Layers /\ Source # NoCache
  BY <1>1, CloneFacts, FilledFacts, Constants
<1>3. ASSUME NEW s \in Slots
      PROVE  s = <<s[1], s[2]>> /\ s[2] \in {"kv", "conv", "recurrent"}
  BY SlotFacts
<1>4. CASE f = "attention"
  <2> DEFINE s1 == <<op.layer, "kv">>
  <2>1. s1 \in Slots
    BY <1>1, <1>2, <1>4 DEF ShapeInv, AttentionShape, Source, Objects, Slots
  <2>2. ASSUME NEW s \in Slots, s # s1 PROVE ~OfCache(op, s)
    BY <1>1, <1>3, <1>4, <2>2 DEF OfCache, FamilyOf
  <2> QED BY <2>1, <2>2 DEF Copying
<1>5. CASE f = "deltanet"
  <2>1. op.layer \in LinearLayers
    BY <1>1, <1>2, <1>5 DEF ShapeInv, DeltaNetShape, Source, Objects
  <2>2. ASSUME NEW s \in Slots, OfCache(op, s)
        PROVE  s[1] = op.layer /\ s[2] # "kv" /\ CacheOf(cache, "scratch", s) = Destination
    BY <1>1, <1>5, <2>2 DEF OfCache, FamilyOf, CacheOf, Destination
  <2>3. CASE CopyFirst(f)
    <3> DEFINE s1 == <<op.layer, "conv">>
    <3>1. s1 \in Slots
      BY <2>1 DEF Slots
    <3>2. StateOf(heap', Destination.second) = StateOf(heap, Destination.second)
      BY <2>3, CopyFirstStep
    <3>3. ASSUME NEW s \in Slots, s # s1, OfCache(op, s)
          PROVE  ContentOf(heap', cache', "scratch", s) = ContentOf(heap, cache, "scratch", s)
      <4>1. s[2] = "recurrent"
        BY <1>3, <2>2, <3>3
      <4> QED BY <1>1, <2>2, <3>2, <3>3, <4>1 DEF ContentOf, CacheOf, ValueOf
    <3> QED BY <3>1, <3>3 DEF Copying
  <2>4. CASE CopySecond(f)
    <3> DEFINE s1 == <<op.layer, "recurrent">>
    <3>1. s1 \in Slots
      BY <2>1 DEF Slots
    <3>2. StateOf(heap', Destination.first) = StateOf(heap, Destination.first)
      BY <2>4, CopySecondStep
    <3>3. ASSUME NEW s \in Slots, s # s1, OfCache(op, s)
          PROVE  ContentOf(heap', cache', "scratch", s) = ContentOf(heap, cache, "scratch", s)
      <4>1. s[2] = "conv"
        BY <1>3, <2>2, <3>3
      <4> QED BY <1>1, <2>2, <3>2, <3>3, <4>1 DEF ContentOf, CacheOf, ValueOf
    <3> QED BY <3>1, <3>3 DEF Copying
  <2> QED BY <2>3, <2>4
<1> QED BY <1>4, <1>5 DEF Families


\* The caches are values: what the generator's own and the scratch caches have
\* absorbed changes as CacheValues lets it change.
THEOREM CachesAreValues == Spec => RefinesCacheValues
<1> DEFINE V == contents
           W == contents'
<1>1. Init => Values!Init
  <2> SUFFICES ASSUME Init PROVE Values!Init
    OBVIOUS
  <2>1. \A o \in Objects, s \in Slots : ContentOf(heap, cache, o, s) = << >>
    <3> SUFFICES ASSUME NEW o \in Objects, NEW s \in Slots
                 PROVE  ContentOf(heap, cache, o, s) = << >>
      OBVIOUS
    <3>1. CacheOf(cache, o, s) = NoCache
      BY SlotFacts DEF Init, NoCaches, CacheOf
    <3> QED BY <3>1, EmptyValue DEF ContentOf
  <2>2. contents = [o \in Objects |-> [s \in Slots |-> << >>]]
    BY <2>1, ContentsAre DEF Contents
  <2> QED BY <2>2 DEF Values!Init, Values!Blank, Values!Objects, Objects
<1>2. CacheInv /\ [Next]_vars => [Values!Next]_contents
  <2> SUFFICES ASSUME CacheInv, [Next]_vars
               PROVE  Values!Next \/ contents' = contents
    OBVIOUS
  <2>1. Outcome /\ CacheInv'
    BY StepLemma
  <2>2. V = Contents(heap, cache) /\ W = Contents(heap', cache')
    BY ContentsAre, ContentsPrimed
  <2>3. V \in [Objects -> [Slots -> Rowed]] /\ W \in [Objects -> [Slots -> Rowed]]
    BY <2>1, ContentsTyped, ContentsTypedPrimed
  <2>4. \A o \in Objects, s \in Slots :
          V[o][s] = ContentOf(heap, cache, o, s) /\ W[o][s] = ContentOf(heap', cache', o, s)
    BY <2>2 DEF Contents
  <2>5. Values!Objects = Objects
    BY DEF Values!Objects, Objects
  <2> HIDE DEF V, W
  <2>6. \A P \in [Objects -> [Slots -> Rowed]] :
          (\A o \in Objects, s \in Slots : P[o][s] = W[o][s]) => P = W
    <3> SUFFICES ASSUME NEW P \in [Objects -> [Slots -> Rowed]],
                        \A o \in Objects, s \in Slots : P[o][s] = W[o][s]
                 PROVE  P = W
      OBVIOUS
    <3>1. \A o \in Objects : P[o] = W[o]
      BY <2>3
    <3> QED BY <2>3, <3>1
  <2>7. CASE Starts
    <3>1. \A o \in Objects, s \in Slots : V[o][s] = W[o][s]
      <4>1. heap' = heap /\ cache' = cache
        BY <2>7 DEF Starts
      <4> QED BY <2>4, <4>1
    <3>2. V = W
      BY <2>3, <2>6, <3>1
    <3> QED BY <3>2 DEF V, W
  <2>8. CASE \A o \in Objects : Empties(o)
    <3> DEFINE P == [o \in Objects |-> [s \in Slots |-> << >>]]
    <3>1. P \in [Objects -> [Slots -> Rowed]]
      BY EmptySeq DEF Rowed
    <3>2. \A o \in Objects, s \in Slots : P[o][s] = W[o][s]
      BY <2>4, <2>8 DEF Empties
    <3>3. P = W
      BY <2>6, <3>1, <3>2
    <3> QED BY <3>3, <2>5 DEF Values!Next, Values!ClearAll, Values!Blank, W
  <2>9. CASE Leaves("live") /\ Empties("scratch")
    <3> DEFINE P == [V EXCEPT !["scratch"] = [s \in Slots |-> << >>]]
    <3>1. P \in [Objects -> [Slots -> Rowed]]
      BY <2>3, EmptySeq DEF Rowed
    <3>2. \A o \in Objects, s \in Slots : P[o][s] = W[o][s]
      BY <2>3, <2>4, <2>9 DEF Empties, Leaves, Objects
    <3>3. P = W
      BY <2>6, <3>1, <3>2
    <3>4. Values!Clear("scratch")
      BY <3>3 DEF Values!Clear, Values!Blank, V, W
    <3> QED BY <2>5, <3>4 DEF Values!Next, Objects
  <2>10. CASE Absorbing
    <3>1. PICK s0 \in Slots : op.kind = "forward" /\ Absorbs(op.obj, s0)
      BY <2>10 DEF Absorbing
    <3>2. op.obj \in Objects /\ op.ids \in Inputs /\ op.ids \in Rowed
      BY <3>1, ForwardFacts, Constants DEF CacheInv
    <3> DEFINE P == [V EXCEPT ![op.obj][s0] = @ \o op.ids]
    <3>3. V[op.obj][s0] \o op.ids \in Rowed
      <4>1. V[op.obj][s0] \in Rowed
        BY <2>3, <3>2
      <4> QED BY <3>2, <4>1, ConcatProperties DEF Rowed
    <3>4. P \in [Objects -> [Slots -> Rowed]]
      BY <2>3, <3>2, <3>3
    <3>5. \A o \in Objects, s \in Slots :
            P[o][s] = IF o = op.obj /\ s = s0 THEN V[o][s] \o op.ids ELSE V[o][s]
      BY <2>3, <3>2
    <3>6. \A o \in Objects, s \in Slots :
            W[o][s] = IF o = op.obj /\ s = s0 THEN V[o][s] \o op.ids ELSE V[o][s]
      <4> SUFFICES ASSUME NEW o \in Objects, NEW s \in Slots
                   PROVE  W[o][s] = IF o = op.obj /\ s = s0 THEN V[o][s] \o op.ids ELSE V[o][s]
        OBVIOUS
      <4>1. ContentOf(heap', cache', o, s) =
              IF o = op.obj /\ s = s0 THEN ContentOf(heap, cache, o, s) \o op.ids
              ELSE ContentOf(heap, cache, o, s)
        BY <3>1 DEF Absorbs
      <4>2. V[o][s] = ContentOf(heap, cache, o, s) /\ W[o][s] = ContentOf(heap', cache', o, s)
        BY <2>4
      <4> QED BY <4>1, <4>2
    <3> HIDE DEF P
    <3>7. P = W
      BY <2>6, <3>4, <3>5, <3>6
    <3>8. Values!Absorb(op.obj, s0)
      BY <3>2, <3>7 DEF Values!Absorb, P, V, W
    <3> QED BY <2>5, <3>2, <3>8 DEF Values!Next
  <2>11. CASE Takes("live", "scratch") /\ Takes("scratch", "live")
    <3> DEFINE P == [o \in Objects |-> IF o = "live" THEN V["scratch"] ELSE V["live"]]
    <3>1. P \in [Objects -> [Slots -> Rowed]]
      BY <2>3 DEF Objects
    <3>2. \A o \in Objects, s \in Slots : P[o][s] = W[o][s]
      BY <2>4, <2>11 DEF Takes, Objects
    <3>3. P = W
      BY <2>6, <3>1, <3>2
    <3> QED BY <2>5, <3>3 DEF Values!Next, Values!Exchange, V, W
  <2>12. CASE Takes("live", "scratch") /\ Rollback
    <3>1. \A s \in Slots : W["live"][s] = V["scratch"][s]
      BY <2>4, <2>12 DEF Takes, Objects
    <3>2. W["live"] = V["scratch"]
      BY <2>3, <3>1 DEF Objects
    <3>3. W["scratch"] \in [Slots -> Rowed] /\ DOMAIN W = Objects
      BY <2>3 DEF Objects
    <3> QED BY <2>5, <3>2, <3>3 DEF Values!Next, Values!Undo, Rowed, V, W
  <2>13. CASE Leaves("live") /\ Copying /\ CopyDone
    <3> DEFINE S == {s \in Slots : OfCache(op, s)}
               P == [V EXCEPT !["scratch"] =
                       [s \in Slots |-> IF s \in S THEN V["live"][s] ELSE @[s]]]
    <3>1. P \in [Objects -> [Slots -> Rowed]]
      BY <2>3 DEF Objects
    <3>2. \A o \in Objects, s \in Slots : P[o][s] = W[o][s]
      <4>1. P["live"] = V["live"]
        BY <2>3 DEF Objects
      <4>2. \A s \in Slots : P["scratch"][s] =
              IF OfCache(op, s) THEN V["live"][s] ELSE V["scratch"][s]
        BY <2>3 DEF Objects
      <4>3. \A s \in Slots : W["live"][s] = V["live"][s]
        BY <2>4, <2>13 DEF Leaves, Objects
      <4>4. \A s \in Slots : W["scratch"][s] =
              IF OfCache(op, s) THEN V["live"][s] ELSE V["scratch"][s]
        BY <2>4, <2>13 DEF Copying, CopyDone, Objects
      <4> HIDE DEF P
      <4> QED BY <4>1, <4>2, <4>3, <4>4 DEF Objects
    <3>3. P = W
      BY <2>6, <3>1, <3>2
    <3>4. Values!Copy(S) /\ S \in SUBSET Slots
      BY <3>3 DEF Values!Copy, V, W
    <3> QED BY <3>4 DEF Values!Next
  <2>14. CASE Leaves("live") /\ Copying /\ \E f \in Families : CopyFirst(f) \/ CopySecond(f)
    <3>1. PICK s1 \in Slots : \A s \in Slots : s # s1 =>
            ContentOf(heap', cache', "scratch", s) = ContentOf(heap, cache, "scratch", s)
      BY <2>14, OneSlotSpoiled
    <3> DEFINE P == [V EXCEPT !["scratch"][s1] = W["scratch"][s1]]
    <3>2. W["scratch"][s1] \in Rowed
      BY <2>3 DEF Objects
    <3>3. P \in [Objects -> [Slots -> Rowed]]
      BY <2>3, <3>2
    <3>4. \A o \in Objects, s \in Slots : P[o][s] = W[o][s]
      BY <2>3, <2>4, <2>14, <3>1 DEF Leaves, Objects
    <3>5. P = W
      BY <2>6, <3>3, <3>4
    <3>6. Values!Spoil(s1)
      BY <3>2, <3>5 DEF Values!Spoil, Rowed, V, W
    <3> QED BY <3>6 DEF Values!Next
  <2> QED BY <2>1, <2>7, <2>8, <2>9, <2>10, <2>11, <2>12, <2>13, <2>14 DEF Outcome
<1> QED BY Invariance, <1>1, <1>2, PTL DEF Spec, RefinesCacheValues, Values!Spec


\* The buffers of the caches and of clone(), by object, layer and half.
BufferOf(o, l, half) ==
  LET c == cache[o][IF l \in LinearLayers THEN "deltanet" ELSE "attention"][l] IN
  IF op.kind = "clone" /\ op.stage # "first" /\ o = "scratch" /\ l = op.layer
  THEN IF half = "first" THEN op.first ELSE op.second
  ELSE IF half = "first" THEN c.first ELSE c.second

LEMMA EveryBufferHasAPlace ==
  ASSUME CacheInv, NEW b \in (InCaches \cup InClone) \ {NoBuf}
  PROVE  \E o \in Objects, l \in Layers, half \in {"first", "second"} : b = BufferOf(o, l, half)
<1> USE DEF CacheInv
<1>1. CASE b \in InCaches
  <2> DEFINE all == {{cache[o2][f2][l2].first, cache[o2][f2][l2].second} :
                       o2 \in Objects, f2 \in Families, l2 \in Layers}
  <2>1. InCaches = UNION all
    BY DEF InCaches
  <2>2. PICK B \in all : b \in B
    BY <1>1, <2>1
  <2>3. PICK o \in Objects, f \in Families, l \in Layers :
          b \in Buffers(cache[o][f][l])
    BY <2>2 DEF Buffers
  <2> HIDE DEF all
  <2> DEFINE c == cache[o][f][l]
  <2>4. c # NoCache /\ b \in {c.first, c.second}
    BY <2>3, Constants DEF Buffers
  <2>5. f = IF l \in LinearLayers THEN "deltanet" ELSE "attention"
    <3>1. CASE f = "attention"
      <4>1. AttentionShape(heap, c, l, cap)
        BY <3>1 DEF ShapeInv
      <4>2. l \in AttentionLayers
        BY <2>4, <4>1 DEF AttentionShape
      <4> QED BY <3>1, <4>2 DEF AttentionLayers
    <3>2. CASE f = "deltanet"
      <4>1. DeltaNetShape(c, l, HalfDone(op, cap, o, l))
        BY <3>2 DEF ShapeInv
      <4> QED BY <2>4, <3>2, <4>1 DEF DeltaNetShape
    <3> QED BY <3>1, <3>2 DEF Families
  <2>6. CASE op.kind = "clone" /\ op.stage # "first" /\ o = "scratch" /\ l = op.layer
    <3>1. initialized(Source) /\ op.family \in Families
          /\ \/ op.first = Destination.first /\ op.second = Destination.second
             \/ Destination = NoCache
      BY <2>6, FilledFacts, CloneFacts
    <3>2. Source # NoCache
      BY <3>1, Constants
    <3>3. op.family = f
      <4>1. CASE op.family = "attention"
        <5>1. AttentionShape(heap, Source, l, cap)
          BY <2>6, <4>1 DEF ShapeInv, Source, Objects
        <5>2. l \notin LinearLayers
          BY <3>2, <5>1 DEF AttentionShape, AttentionLayers
        <5> QED BY <2>5, <4>1, <5>2
      <4>2. CASE op.family = "deltanet"
        <5>1. DeltaNetShape(Source, l, HalfDone(op, cap, "live", l))
          BY <2>6, <4>2 DEF ShapeInv, Source, Objects
        <5>2. l \in LinearLayers
          BY <3>2, <5>1 DEF DeltaNetShape
        <5> QED BY <2>5, <4>2, <5>2
      <4> QED BY <3>1, <4>1, <4>2 DEF Families
    <3>4. c = Destination
      BY <2>6, <3>3 DEF Destination
    <3>5. b = op.first \/ b = op.second
      BY <2>4, <3>1, <3>4
    <3>6. BufferOf(o, l, "first") = op.first /\ BufferOf(o, l, "second") = op.second
      BY <2>6 DEF BufferOf
    <3> QED BY <3>5, <3>6
  <2>7. CASE ~(op.kind = "clone" /\ op.stage # "first" /\ o = "scratch" /\ l = op.layer)
    <3>1. BufferOf(o, l, "first") = c.first /\ BufferOf(o, l, "second") = c.second
      BY <2>5, <2>7 DEF BufferOf
    <3> QED BY <2>4, <3>1
  <2> QED BY <2>6, <2>7
<1>2. CASE b \in InClone
  <2>1. op.kind = "clone" /\ b \in {op.first, op.second} /\ op.stage # "first"
    BY <1>2 DEF InClone, CloneInv
  <2>2. op.layer \in Layers
    BY <2>1, CloneFacts
  <2>3. BufferOf("scratch", op.layer, "first") = op.first
        /\ BufferOf("scratch", op.layer, "second") = op.second
    BY <2>1 DEF BufferOf
  <2> QED BY <2>1, <2>2, <2>3 DEF Objects
<1> QED BY <1>1, <1>2

\* However many rounds a call makes, the caches and a clone under way hold at
\* most two buffers for each layer of each object.
THEOREM StorageIsBounded == Spec => []StorageBound
<1>1. CacheInv => StorageBound
  <2> SUFFICES ASSUME CacheInv PROVE StorageBound
    OBVIOUS
  <2> DEFINE Halves == {"first", "second"}
             Places == Objects \X (Layers \X Halves)
             H == [q \in Places |-> BufferOf(q[1], q[2][1], q[2][2])]
             I == {H[q] : q \in Places}
             T == (InCaches \cup InClone) \ {NoBuf}
  <2>1. IsFiniteSet(Halves) /\ Cardinality(Halves) = 2
    <3>1. IsFiniteSet({"first"}) /\ Cardinality({"first"}) = 1
      BY FS_Singleton
    <3>2. Halves = {"first"} \cup {"second"} /\ "second" \notin {"first"}
      OBVIOUS
    <3> HIDE DEF Halves
    <3> QED BY <3>1, <3>2, FS_AddElement
  <2>2. IsFiniteSet(Objects) /\ Cardinality(Objects) = 2
    <3>1. IsFiniteSet({"live"}) /\ Cardinality({"live"}) = 1
      BY FS_Singleton
    <3>2. Objects = {"live"} \cup {"scratch"} /\ "scratch" \notin {"live"}
      BY DEF Objects
    <3> QED BY <3>1, <3>2, FS_AddElement
  <2>3. IsFiniteSet(Layers) /\ Cardinality(Layers) = NumLayers
    BY Constants, FS_Interval DEF Layers
  <2> HIDE DEF Halves
  <2>4. IsFiniteSet(Places) /\ Cardinality(Places) = 4 * NumLayers
    <3>1. IsFiniteSet(Layers \X Halves) /\ Cardinality(Layers \X Halves) = NumLayers * 2
      BY <2>1, <2>3, FS_Product
    <3>2. IsFiniteSet(Places) /\ Cardinality(Places) = 2 * (NumLayers * 2)
      BY <2>2, <3>1, FS_Product
    <3>3. 2 * (NumLayers * 2) = 4 * NumLayers
      BY Constants
    <3> QED BY <3>2, <3>3
  <2>5. H \in Surjection(Places, I)
    <3> HIDE DEF Places
    <3>1. H \in [Places -> I] /\ \A t \in I : \E q \in Places : H[q] = t
      OBVIOUS
    <3> QED BY <3>1 DEF Surjection
  <2>6. IsFiniteSet(I) /\ Cardinality(I) <= Cardinality(Places)
    <3> HIDE DEF H, I, Places
    <3> QED BY <2>4, <2>5, FS_Surjection
  <2>7. T \subseteq I
    <3> SUFFICES ASSUME NEW b \in T PROVE b \in I
      OBVIOUS
    <3>1. PICK o \in Objects, l \in Layers, half \in Halves : b = BufferOf(o, l, half)
      BY EveryBufferHasAPlace DEF Halves
    <3> DEFINE q == <<o, <<l, half>>>>
    <3>2. q \in Places /\ H[q] = b
      BY <3>1
    <3> QED BY <3>2
  <2>8. IsFiniteSet(T) /\ Cardinality(T) <= Cardinality(I)
    <3> HIDE DEF I, T
    <3> QED BY <2>6, <2>7, FS_Subset
  <2>9. Cardinality(T) \in Nat /\ Cardinality(I) \in Nat
    <3> HIDE DEF I, T
    <3> QED BY <2>6, <2>8, FS_CardinalityType
  <2> HIDE DEF I, Places
  <2>10. Cardinality(T) <= 4 * NumLayers
    <3> HIDE DEF T
    <3> QED BY <2>4, <2>6, <2>8, <2>9, Constants
  <2> QED BY <2>10 DEF StorageBound
<1> QED BY Invariance, <1>1, PTL


=============================================================================
