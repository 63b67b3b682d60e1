--------------------------- MODULE TokenizerProofs ---------------------------
(***************************************************************************)
(* Proofs about encode() and decode(), for every text and every tokenizer  *)
(* file of which the assumptions of TokenizerReference hold.               *)
(*   AddedTokensAlwaysAtomic: the added tokens of a text come out as their *)
(*     ids, once each and in order, whatever merging makes of the rest.    *)
(*   PiecesAlwaysMatchRegex: the branches of pre_tokenize() split a text   *)
(*     into the words of the regular expression they stand for.            *)
(*   WordsAlwaysMatchSweep: merging the best pair again and again gives    *)
(*     what the merges give when applied in the order of their list.       *)
(*   TextAlwaysComesBack: what is decoded from the ids of a well-formed    *)
(*     text is the text, less the special tokens that are to be skipped.   *)
(*                                                                         *)
(* The sections before the inductive invariant say what the operators of   *)
(* the three modules compute: scans over a text, flattened sequences, the  *)
(* branches one by one, the conversions and the segments.                  *)
(***************************************************************************)
EXTENDS TokenizerReference, SumFacts, SequenceTheorems, TLAPS

-----------------------------------------------------------------------------
\* Least and greatest numbers.

LEMMA MaxIs ==
  ASSUME NEW S \in SUBSET Int, NEW m \in S, \A x \in S : x <= m
  PROVE  Max(S) = m
<1>1. \A y \in S : m >= y
  OBVIOUS
<1>2. Max(S) \in S /\ \A y \in S : Max(S) >= y
  BY <1>1 DEF Max
<1>3. Max(S) \in Int /\ Max(S) <= m /\ Max(S) >= m
  BY <1>2
<1> QED BY <1>3

LEMMA MinIs ==
  ASSUME NEW S \in SUBSET Int, NEW m \in S, \A x \in S : m <= x
  PROVE  Min(S) = m
<1>1. Min(S) \in S /\ \A y \in S : Min(S) =< y
  BY DEF Min
<1>2. Min(S) \in Int /\ Min(S) <= m /\ Min(S) >= m
  BY <1>1
<1> QED BY <1>2

LEMMA MinOfTwo ==
  ASSUME NEW a \in Int, NEW b \in Int
  PROVE  Min({a, b}) = IF a <= b THEN a ELSE b
<1>1. CASE a <= b
  BY <1>1, MinIs
<1>2. CASE ~(a <= b)
  BY <1>2, MinIs
<1> QED BY <1>1, <1>2

\* A bounded set of numbers has a greatest element.
LEMMA Greatest ==
  ASSUME NEW S \in SUBSET Int, S # {}, NEW b \in Int, \A x \in S : x <= b
  PROVE  \E m \in S : \A x \in S : x <= m
<1> DEFINE D == {n \in Nat : b - n \in S}
<1>1. \A x \in S : b - x \in D /\ b - (b - x) = x
  OBVIOUS
<1>2. D \in SUBSET Nat /\ D # {}
  BY <1>1
<1>3. PICK d \in D : \A n \in D : d <= n
  BY <1>2, LeastNumber
<1>4. b - d \in S /\ d \in Nat
  BY <1>3
<1>5. ASSUME NEW x \in S PROVE x <= b - d
  <2>1. d <= b - x /\ x \in Int
    BY <1>1, <1>3
  <2> QED BY <1>4, <2>1
<1> QED BY <1>4, <1>5

LEMMA MaxFacts ==
  ASSUME NEW S \in SUBSET Int, S # {}, NEW b \in Int, \A x \in S : x <= b
  PROVE  Max(S) \in S /\ \A x \in S : x <= Max(S)
<1>1. PICK m \in S : \A x \in S : x <= m
  BY Greatest
<1>2. Max(S) = m
  BY <1>1, MaxIs
<1> QED BY <1>1, <1>2

LEMMA MinFacts ==
  ASSUME NEW S \in SUBSET Nat, S # {}
  PROVE  Min(S) \in S /\ \A x \in S : Min(S) <= x
<1>1. PICK m \in S : \A x \in S : m <= x
  BY LeastNumber
<1>2. Min(S) = m
  BY <1>1, MinIs
<1> QED BY <1>1, <1>2

\* What holds at the end and, below it, when it holds further on, holds
\* everywhere.
LEMMA DownTo ==
  ASSUME NEW n \in Nat, NEW T, n + 1 \in T,
         \A i \in 1 .. n : (\A j \in i + 1 .. n + 1 : j \in T) => i \in T
  PROVE  \A i \in 1 .. n + 1 : i \in T
<1> DEFINE D == {k \in Nat : \A j \in 1 .. n + 1 : n + 1 - k <= j => j \in T}
<1>1. 0 \in D
  OBVIOUS
<1>2. ASSUME NEW k \in D PROVE k + 1 \in D
  <2>1. k \in Nat /\ \A j \in 1 .. n + 1 : n + 1 - k <= j => j \in T
    OBVIOUS
  <2>2. ASSUME NEW j \in 1 .. n + 1, n + 1 - (k + 1) <= j PROVE j \in T
    <3>1. CASE n + 1 - k <= j
      BY <2>1, <3>1
    <3>2. CASE ~(n + 1 - k <= j)
      <4>1. j \in 1 .. n /\ \A i \in j + 1 .. n + 1 : i \in 1 .. n + 1 /\ n + 1 - k <= i
        BY <2>1, <2>2, <3>2
      <4> QED BY <2>1, <4>1
    <3> QED BY <3>1, <3>2
  <2> QED BY <2>1, <2>2
<1> HIDE DEF D
<1>3. n + 1 \in D
  <2>1. D \in SUBSET Nat
    BY DEF D
  <2> QED BY <1>1, <1>2, <2>1, NumberInduction
<1> QED BY <1>3 DEF D

-----------------------------------------------------------------------------
\* Sequences.

LEMMA FunctionIsSeq ==
  ASSUME NEW S, NEW n \in Nat, NEW f \in [1 .. n -> S]
  PROVE  f \in Seq(S) /\ Len(f) = n
<1>1. f \in Seq(S)
  BY SeqDef
<1>2. DOMAIN f = 1 .. Len(f) /\ Len(f) \in Nat
  BY <1>1, LenProperties
<1> QED BY <1>1, <1>2

-----------------------------------------------------------------------------
\* A scan is a sequence at each place, and goes on as its definition says.

GoesOn(item, next) == \A i \in 1 .. Len(item) : next[i] \in i + 1 .. Len(item) + 1

\* One unfolding of Scan.
ScanStep(item, next, g, i) == IF i > Len(item) THEN <<>> ELSE item[i] \o g[next[i]]

\* What ScanIs asks of a scan over S, and what it shows.
CanScan(S, item, next) == item \in Seq(Seq(S)) /\ GoesOn(item, next)

Scanned(S, item, next) ==
  /\ \A i \in 1 .. Len(item) + 1 : Scan(item, next)[i] \in Seq(S)
  /\ Scan(item, next)[Len(item) + 1] = <<>>
  /\ \A i \in 1 .. Len(item) :
       Scan(item, next)[i] = item[i] \o Scan(item, next)[next[i]]

LEMMA ScanIs ==
  ASSUME NEW S, NEW item, NEW next, CanScan(S, item, next)
  PROVE  Scanned(S, item, next)
<1> DEFINE n == Len(item)
           Fns == [1 .. n + 1 -> Seq(S)]
           K == {k \in Nat : k <= n =>
                   \E g \in Fns : \A i \in 1 .. n + 1 : n + 1 - k <= i
                                    => g[i] = ScanStep(item, next, g, i)}
<1>s. item \in Seq(Seq(S))
  BY DEF CanScan
<1>g. \A i \in 1 .. n : next[i] \in i + 1 .. n + 1
  BY DEF CanScan, GoesOn
<1>0. n \in Nat /\ \A i \in 1 .. n : item[i] \in Seq(S)
  BY <1>s, LenProperties, ElementOfSeq
<1>1. 0 \in K
  <2> DEFINE g == [i \in 1 .. n + 1 |-> <<>>]
  <2>1. g \in Fns
    BY EmptySeq
  <2>2. ASSUME NEW i \in 1 .. n + 1, n + 1 - 0 <= i
        PROVE  g[i] = ScanStep(item, next, g, i)
    <3>1. i > n /\ g[i] = <<>>
      BY <1>0, <2>2
    <3> HIDE DEF g
    <3> QED BY <3>1 DEF ScanStep
  <2> HIDE DEF g
  <2> QED BY <2>1, <2>2
<1>2. ASSUME NEW k \in K PROVE k + 1 \in K
  <2>0. k \in Nat /\ k + 1 \in Nat
    OBVIOUS
  <2> SUFFICES ASSUME k + 1 <= n
               PROVE  \E h \in Fns : \A i \in 1 .. n + 1 : n + 1 - (k + 1) <= i
                                       => h[i] = ScanStep(item, next, h, i)
    <3> HIDE DEF n, Fns
    <3> QED BY <2>0
  <2>1. PICK g \in Fns : \A i \in 1 .. n + 1 : n + 1 - k <= i
                           => g[i] = ScanStep(item, next, g, i)
    <3>1. k <= n
      BY <1>0, <2>0
    <3> HIDE DEF n, Fns
    <3> QED BY <3>1
  <2> DEFINE m == n - k
             h == [g EXCEPT ![m] = item[m] \o g[next[m]]]
  <2> HIDE DEF n
  <2>2. m \in 1 .. n /\ next[m] \in m + 1 .. n + 1
    <3>1. m \in 1 .. n
      BY <1>0, <2>0
    <3> HIDE DEF m
    <3> QED BY <1>g, <3>1
  <2>3. item[m] \o g[next[m]] \in Seq(S)
    <3>0. m \in 1 .. n /\ next[m] \in 1 .. n + 1
      BY <1>0, <2>2
    <3> HIDE DEF m
    <3>1. item[m] \in Seq(S) /\ g[next[m]] \in Seq(S)
      BY <1>0, <3>0
    <3> QED BY <3>1, ConcatProperties
  <2>4. h \in Fns /\ h[m] = item[m] \o g[next[m]] /\ \A i \in 1 .. n + 1 : i # m => h[i] = g[i]
    <3>1. m \in 1 .. n + 1
      BY <1>0, <2>2
    <3> HIDE DEF m
    <3> QED BY <2>3, <3>1
  <2> HIDE DEF h
  <2>5. ASSUME NEW i \in 1 .. n + 1, n + 1 - (k + 1) <= i
        PROVE  h[i] = ScanStep(item, next, h, i)
    <3> HIDE DEF m
    <3>1. CASE i = m
      <4>1. h[next[m]] = g[next[m]]
        BY <1>0, <2>2, <2>4
      <4>2. ~(m > n)
        BY <1>0, <2>2
      <4> QED BY <2>4, <3>1, <4>1, <4>2 DEF ScanStep, n
    <3>2. CASE i # m
      <4>1. n + 1 - k <= i
        BY <1>0, <2>0, <2>5, <3>2 DEF m
      <4>2. h[i] = g[i] /\ g[i] = ScanStep(item, next, g, i)
        BY <2>1, <2>4, <3>2, <4>1
      <4>3. CASE i > n
        BY <4>2, <4>3 DEF ScanStep, n
      <4>4. CASE ~(i > n)
        <5>1. i \in 1 .. n /\ next[i] \in i + 1 .. n + 1
          BY <1>0, <1>g, <4>4
        <5>2. next[i] \in 1 .. n + 1 /\ next[i] # m
          <6>1. m \in Int /\ m < i /\ i \in Int
            BY <1>0, <2>0, <4>1, <5>1 DEF m
          <6> QED BY <1>0, <5>1, <6>1
        <5>3. h[next[i]] = g[next[i]]
          BY <2>4, <5>2
        <5> QED BY <4>2, <4>4, <5>3 DEF ScanStep, n
      <4> QED BY <4>3, <4>4
    <3> QED BY <3>1, <3>2
  <2> QED BY <2>4, <2>5
<1> HIDE DEF K
<1>3. n \in K
  <2>1. K \in SUBSET Nat
    BY DEF K
  <2> QED BY <1>0, <1>1, <1>2, <2>1, NumberInduction
<1>4. PICK g \in Fns : \A i \in 1 .. n + 1 : g[i] = ScanStep(item, next, g, i)
  BY <1>0, <1>3 DEF K
<1> DEFINE Rec(f) == [i \in 1 .. n + 1 |-> ScanStep(item, next, f, i)]
           f == Scan(item, next)
<1>5. f = CHOOSE h : h = Rec(h)
  BY DEF Scan, ScanStep
<1>6. g = Rec(g)
  BY <1>4
<1>7. f = Rec(f)
  <2> HIDE DEF Rec, f
  <2> QED BY <1>5, <1>6
<1>8. \A i \in 1 .. n + 1 : f[i] = ScanStep(item, next, f, i)
  <2>1. \A i \in 1 .. n + 1 : Rec(f)[i] = ScanStep(item, next, f, i)
    OBVIOUS
  <2> HIDE DEF Rec, f
  <2> QED BY <1>7, <2>1
<1> HIDE DEF f
<1>9. f[n + 1] = <<>> /\ \A i \in 1 .. n : f[i] = item[i] \o f[next[i]]
  <2>1. n + 1 \in 1 .. n + 1 /\ n + 1 > n /\ \A i \in 1 .. n : i \in 1 .. n + 1 /\ ~(i > n)
    BY <1>0
  <2> QED BY <1>8, <2>1 DEF ScanStep
<1>10. \A i \in 1 .. n + 1 : f[i] \in Seq(S)
  <2> DEFINE T == {i \in 1 .. n + 1 : f[i] \in Seq(S)}
  <2> HIDE DEF n
  <2>e. <<>> \in Seq(S) /\ n + 1 \in 1 .. n + 1
    BY <1>0, EmptySeq
  <2>1. n + 1 \in T
    BY <1>9, <2>e
  <2>2. ASSUME NEW i \in 1 .. n, \A j \in i + 1 .. n + 1 : j \in T PROVE i \in T
    <3>1. f[next[i]] \in Seq(S)
      BY <1>g, <2>2
    <3>2. item[i] \o f[next[i]] \in Seq(S)
      BY <1>0, <3>1, ConcatProperties
    <3>3. f[i] = item[i] \o f[next[i]]
      BY <1>9
    <3>4. i \in 1 .. n + 1
      BY <1>0
    <3> QED BY <3>2, <3>3, <3>4
  <2> HIDE DEF T
  <2>3. \A i \in 1 .. n + 1 : i \in T
    BY <1>0, <2>1, <2>2, DownTo
  <2> QED BY <2>3 DEF T
<1> QED BY <1>9, <1>10 DEF f, Scanned

-----------------------------------------------------------------------------
\* Flattening a sequence of sequences.

AreSeqs(S, a, b, c) == a \in Seq(S) /\ b \in Seq(S) /\ c \in Seq(S)

LEMMA ConcatThree ==
  ASSUME NEW S, NEW a, NEW b, NEW c, AreSeqs(S, a, b, c)
  PROVE  (a \o b) \o c = a \o (b \o c)
BY ConcatAssociative DEF AreSeqs

LEMMA FlatEmpty == FlattenSeq(<<>>) = <<>>
BY EmptySeq DEF FlattenSeq

LEMMA FlatRecursion ==
  ASSUME NEW S, NEW ss \in Seq(Seq(S)), ss # <<>>
  PROVE  \E f \in [1 .. Len(ss) -> Seq(S)] :
           /\ FlattenSeq(ss) = f[Len(ss)]
           /\ f[1] = ss[1]
           /\ \A i \in 2 .. Len(ss) : f[i] = f[i - 1] \o ss[i]
<1> DEFINE n == Len(ss)
           Step(f, i) == IF i = 1 THEN ss[i] ELSE f[i - 1] \o ss[i]
           Fns == [1 .. n -> Seq(S)]
           K == {k \in Nat : k <= n =>
                   \E g \in Fns : \A i \in 1 .. n : i <= k => g[i] = Step(g, i)}
<1>0. n \in Nat /\ n >= 1 /\ \A i \in 1 .. n : ss[i] \in Seq(S)
  BY LenProperties, ElementOfSeq, EmptySeq
<1>1. 0 \in K
  <2> DEFINE g == [i \in 1 .. n |-> <<>>]
  <2>1. g \in Fns
    BY EmptySeq
  <2>2. \A i \in 1 .. n : i <= 0 => g[i] = Step(g, i)
    <3> HIDE DEF Step, g, n
    <3> QED BY <1>0
  <2> HIDE DEF g, Step, Fns
  <2> QED BY <2>1, <2>2
<1>2. ASSUME NEW k \in K PROVE k + 1 \in K
  <2>0. k \in Nat /\ k + 1 \in Nat
    OBVIOUS
  <2> SUFFICES ASSUME k + 1 <= n
               PROVE  \E h \in Fns : \A i \in 1 .. n : i <= k + 1 => h[i] = Step(h, i)
    <3> HIDE DEF n, Fns, Step
    <3> QED BY <2>0
  <2>1. PICK g \in Fns : \A i \in 1 .. n : i <= k => g[i] = Step(g, i)
    <3>1. k <= n
      BY <1>0, <2>0
    <3> HIDE DEF n, Fns, Step
    <3> QED BY <3>1
  <2> DEFINE m == k + 1
             h == [g EXCEPT ![m] = Step(g, m)]
  <2> HIDE DEF n
  <2>2. m \in 1 .. n
    BY <1>0, <2>0
  <2>3. Step(g, m) \in Seq(S)
    <3>1. CASE m = 1
      BY <1>0, <2>2, <3>1
    <3>2. CASE m # 1
      <4>1. m - 1 \in 1 .. n
        BY <1>0, <2>2, <3>2
      <4> HIDE DEF m
      <4>2. g[m - 1] \in Seq(S) /\ ss[m] \in Seq(S)
        BY <1>0, <2>2, <4>1
      <4> QED BY <3>2, <4>2, ConcatProperties
    <3> QED BY <3>1, <3>2
  <2>4. h \in Fns /\ h[m] = Step(g, m) /\ \A i \in 1 .. n : i # m => h[i] = g[i]
    <3> HIDE DEF m, Step
    <3> QED BY <2>2, <2>3
  <2>5. ASSUME NEW i \in 1 .. n, i <= k + 1 PROVE h[i] = Step(h, i)
    <3> HIDE DEF h
    <3>1. i # 1 => i - 1 \in 1 .. n /\ i - 1 # m
      BY <1>0, <2>0, <2>5
    <3>2. i # 1 => h[i - 1] = g[i - 1]
      BY <2>4, <3>1
    <3>3. Step(h, i) = Step(g, i)
      BY <3>2
    <3>4. h[i] = Step(g, i)
      <4>1. CASE i = m
        BY <2>4, <4>1
      <4>2. CASE i # m
        <5>1. i <= k
          BY <1>0, <2>0, <2>5, <4>2
        <5> HIDE DEF Step, m
        <5> QED BY <2>1, <2>4, <4>2, <5>1
      <4> QED BY <4>1, <4>2
    <3> QED BY <3>3, <3>4
  <2> HIDE DEF h, Step, Fns
  <2> QED BY <2>4, <2>5
<1>3. n \in K
  <2> HIDE DEF K
  <2>1. K \in SUBSET Nat
    BY DEF K
  <2> QED BY <1>0, <1>1, <1>2, <2>1, NumberInduction
<1>4. PICK g \in Fns : \A i \in 1 .. n : g[i] = Step(g, i)
  <2>1. \A i \in 1 .. n : i <= n
    BY <1>0
  <2> HIDE DEF n, Step, Fns
  <2> QED BY <1>0, <1>3, <2>1
<1> DEFINE Rec(f) == [i \in 1 .. n |-> Step(f, i)]
           f == CHOOSE h : h = Rec(h)
<1>5. FlattenSeq(ss) = f[n]
  BY <1>0 DEF FlattenSeq
<1>6. g = Rec(g)
  BY <1>4
<1>7. f = Rec(f)
  <2> HIDE DEF Rec
  <2> QED BY <1>6
<1>8. \A i \in 1 .. n : f[i] = Step(f, i)
  <2>1. \A i \in 1 .. n : Rec(f)[i] = Step(f, i)
    OBVIOUS
  <2> HIDE DEF Rec, f, Step
  <2> QED BY <1>7, <2>1
<1>9. DOMAIN f = 1 .. n /\ f = [i \in 1 .. n |-> f[i]]
  <2>1. DOMAIN Rec(f) = 1 .. n /\ Rec(f) = [i \in 1 .. n |-> Rec(f)[i]]
    OBVIOUS
  <2> HIDE DEF Rec, f
  <2> QED BY <1>7, <2>1
<1> HIDE DEF f, n
<1>10. f[1] = ss[1] /\ \A i \in 2 .. n : f[i] = f[i - 1] \o ss[i]
  <2>1. \A i \in 2 .. n : i \in 1 .. n /\ i # 1
    BY <1>0
  <2>2. 1 \in 1 .. n /\ f[1] = ss[1]
    BY <1>0, <1>8
  <2>3. ASSUME NEW i \in 2 .. n PROVE f[i] = f[i - 1] \o ss[i]
    <3>1. f[i] = Step(f, i) /\ i # 1
      BY <1>8, <2>1
    <3> QED BY <3>1
  <2> HIDE DEF Step
  <2> QED BY <2>2, <2>3
<1>11. \A i \in 1 .. n : f[i] \in Seq(S)
  <2> DEFINE T == {k \in Nat : k + 1 <= n => f[k + 1] \in Seq(S)}
  <2>1. 0 \in T
    BY <1>0, <1>10
  <2>2. ASSUME NEW k \in T PROVE k + 1 \in T
    <3>0. k \in Nat /\ k + 1 \in Nat /\ (k + 1) + 1 \in Nat
      OBVIOUS
    <3> DEFINE j == (k + 1) + 1
    <3>1. CASE j <= n
      <4>1. k + 1 <= n /\ j \in 2 .. n /\ j - 1 = k + 1 /\ j \in 1 .. n
        BY <1>0, <3>0, <3>1
      <4>2. f[k + 1] \in Seq(S)
        BY <4>1
      <4> HIDE DEF j
      <4>3. f[j] = f[k + 1] \o ss[j] /\ ss[j] \in Seq(S)
        BY <1>0, <1>10, <4>1
      <4>4. f[j] \in Seq(S)
        BY <4>2, <4>3, ConcatProperties
      <4> QED BY <3>0, <4>4 DEF j
    <3>2. CASE ~(j <= n)
      BY <3>0, <3>2
    <3> QED BY <3>1, <3>2
  <2> HIDE DEF T
  <2>3. \A k \in Nat : k \in T
    <3>1. T \in SUBSET Nat
      BY DEF T
    <3> QED BY <2>1, <2>2, <3>1, NumberInduction
  <2>4. ASSUME NEW i \in 1 .. n PROVE f[i] \in Seq(S)
    <3>1. i - 1 \in Nat /\ (i - 1) + 1 = i /\ i <= n
      BY <1>0
    <3> QED BY <2>3, <3>1 DEF T
  <2> QED BY <2>4
<1>12. f \in Fns
  BY <1>9, <1>11
<1> QED BY <1>5, <1>10, <1>12 DEF n

LEMMA FlatType ==
  ASSUME NEW S, NEW ss \in Seq(Seq(S))
  PROVE  FlattenSeq(ss) \in Seq(S)
<1>1. CASE ss = <<>>
  BY <1>1, FlatEmpty, EmptySeq
<1>2. CASE ss # <<>>
  <2>1. PICK f \in [1 .. Len(ss) -> Seq(S)] : FlattenSeq(ss) = f[Len(ss)]
    BY <1>2, FlatRecursion
  <2>2. Len(ss) \in 1 .. Len(ss)
    BY <1>2, EmptySeq
  <2> QED BY <2>1, <2>2
<1> QED BY <1>1, <1>2

LEMMA FlatAppend ==
  ASSUME NEW S, NEW ss \in Seq(Seq(S)), NEW x \in Seq(S)
  PROVE  FlattenSeq(Append(ss, x)) = FlattenSeq(ss) \o x
<1> DEFINE tt == Append(ss, x)
           n == Len(ss)
<1>1. /\ tt \in Seq(Seq(S)) /\ tt # <<>> /\ Len(tt) = n + 1 /\ n \in Nat
      /\ tt[n + 1] = x /\ \A i \in 1 .. n : tt[i] = ss[i]
  BY AppendProperties, LenProperties
<1> HIDE DEF tt
<1>2. PICK g \in [1 .. Len(tt) -> Seq(S)] :
        /\ FlattenSeq(tt) = g[Len(tt)] /\ g[1] = tt[1]
        /\ \A i \in 2 .. Len(tt) : g[i] = g[i - 1] \o tt[i]
  <2>1. tt \in Seq(Seq(S)) /\ tt # <<>>
    BY <1>1
  <2> QED BY <2>1, FlatRecursion
<1>3. CASE ss = <<>>
  <2>1. n = 0
    BY <1>3, EmptySeq
  <2>2. FlattenSeq(tt) = x
    BY <1>1, <1>2, <2>1
  <2> QED BY <1>3, <2>2, FlatEmpty, ConcatEmptySeq DEF tt
<1>4. CASE ss # <<>>
  <2>0. n >= 1
    BY <1>1, <1>4, EmptySeq
  <2>1. PICK f \in [1 .. n -> Seq(S)] :
          /\ FlattenSeq(ss) = f[n] /\ f[1] = ss[1]
          /\ \A i \in 2 .. n : f[i] = f[i - 1] \o ss[i]
    BY <1>4, FlatRecursion
  <2> DEFINE T == {k \in Nat : k + 1 <= n => g[k + 1] = f[k + 1]}
  <2> HIDE DEF n
  <2>2. 0 \in T
    BY <1>1, <1>2, <2>0, <2>1
  <2>3. ASSUME NEW k \in T PROVE k + 1 \in T
    <3>0. k \in Nat /\ k + 1 \in Nat /\ (k + 1) + 1 \in Nat
      OBVIOUS
    <3> DEFINE j == (k + 1) + 1
    <3>1. CASE j <= n
      <4>1. /\ k + 1 <= n /\ j \in 2 .. n /\ j - 1 = k + 1 /\ j \in 1 .. n
            /\ j \in 2 .. Len(tt)
        BY <1>1, <3>0, <3>1
      <4>2. f[k + 1] = g[k + 1]
        BY <4>1
      <4> HIDE DEF j
      <4>3. f[j] = f[k + 1] \o ss[j] /\ g[j] = g[k + 1] \o tt[j] /\ ss[j] = tt[j]
        BY <1>1, <1>2, <2>1, <4>1
      <4>4. f[j] = g[j]
        BY <4>2, <4>3
      <4> QED BY <3>0, <4>4 DEF j
    <3>2. CASE ~(j <= n)
      BY <3>0, <3>2
    <3> QED BY <3>1, <3>2
  <2> HIDE DEF T
  <2>4. \A k \in Nat : k \in T
    <3>1. T \in SUBSET Nat
      BY DEF T
    <3> QED BY <2>2, <2>3, <3>1, NumberInduction
  <2>5. g[n] = f[n]
    <3>1. n - 1 \in Nat /\ (n - 1) + 1 = n /\ n <= n
      BY <1>1, <2>0
    <3> QED BY <2>4, <3>1 DEF T
  <2>6. g[n + 1] = g[n] \o tt[n + 1]
    <3>1. n + 1 \in 2 .. Len(tt) /\ (n + 1) - 1 = n
      BY <1>1, <2>0
    <3> QED BY <1>2, <3>1
  <2> QED BY <1>1, <1>2, <2>1, <2>5, <2>6 DEF tt
<1> QED BY <1>3, <1>4

LEMMA FlatOne ==
  ASSUME NEW S, NEW x \in Seq(S)
  PROVE  FlattenSeq(<<x>>) = x
<1>1. <<>> \in Seq(Seq(S)) /\ Append(<<>>, x) = <<x>>
  BY EmptySeq
<1>2. FlattenSeq(Append(<<>>, x)) = <<>> \o x
  BY <1>1, FlatAppend, FlatEmpty
<1> QED BY <1>1, <1>2, ConcatEmptySeq

LEMMA FlatConcat ==
  ASSUME NEW S, NEW ss \in Seq(Seq(S)), NEW tt \in Seq(Seq(S))
  PROVE  FlattenSeq(ss \o tt) = FlattenSeq(ss) \o FlattenSeq(tt)
<1> DEFINE Q == Seq(S)
           P(k) == SubSeq(tt, 1, k)
           T == {k \in Nat : k <= Len(tt) =>
                   FlattenSeq(ss \o P(k)) = FlattenSeq(ss) \o FlattenSeq(P(k))}
<1>0. /\ Len(tt) \in Nat /\ \A i \in 1 .. Len(tt) : tt[i] \in Q
      /\ \A k \in Nat : k <= Len(tt) => P(k) \in Seq(Q)
  <2>1. Len(tt) \in Nat /\ \A i \in 1 .. Len(tt) : tt[i] \in Q
    BY LenProperties, ElementOfSeq
  <2>2. ASSUME NEW k \in Nat, k <= Len(tt) PROVE P(k) \in Seq(Q)
    <3>1. \A i \in 1 .. k : tt[i] \in Q
      BY <2>1, <2>2
    <3> HIDE DEF Q
    <3> QED BY <3>1, SubSeqProperties
  <2> QED BY <2>1, <2>2
<1>1. 0 \in T
  <2>1. P(0) = <<>>
    BY SubSeqEmpty
  <2>2. ss \o P(0) = ss
    BY <2>1, ConcatEmptySeq
  <2>3. FlattenSeq(ss) \o FlattenSeq(P(0)) = FlattenSeq(ss)
    <3>1. FlattenSeq(ss) \in Seq(S)
      BY FlatType
    <3>2. FlattenSeq(P(0)) = <<>>
      BY <2>1, FlatEmpty
    <3> HIDE DEF P
    <3> QED BY <3>1, <3>2, ConcatEmptySeq
  <2> HIDE DEF P
  <2> QED BY <2>2, <2>3
<1>2. ASSUME NEW k \in T PROVE k + 1 \in T
  <2>0. k \in Nat /\ k + 1 \in Nat
    OBVIOUS
  <2> SUFFICES ASSUME k + 1 <= Len(tt)
               PROVE  FlattenSeq(ss \o P(k + 1)) = FlattenSeq(ss) \o FlattenSeq(P(k + 1))
    <3> HIDE DEF P
    <3> QED BY <2>0
  <2> DEFINE x == tt[k + 1]
  <2>1. k <= Len(tt) /\ x \in Q /\ P(k) \in Seq(Q)
    BY <1>0, <2>0
  <2>2. P(k + 1) = Append(P(k), x)
    <3>1. k + 1 \in 1 .. Len(tt) /\ 1 \in 1 .. Len(tt) /\ k + 1 \in 1 .. Len(tt) /\ (k + 1) - 1 = k
      BY <1>0, <2>0
    <3>2. P(k + 1) = P(k) \o <<x>>
      BY <3>1, SubSeqRecursiveSecond
    <3> HIDE DEF P, Q, x
    <3> QED BY <2>1, <3>2, AppendIsConcat
  <2>3. FlattenSeq(ss \o P(k)) = FlattenSeq(ss) \o FlattenSeq(P(k))
    <3> HIDE DEF P
    <3> QED BY <2>1
  <2> HIDE DEF P, x
  <2>4. ss \o Append(P(k), x) = Append(ss \o P(k), x)
    <3> HIDE DEF Q
    <3>1. ss \in Seq(Q) /\ <<x>> \in Seq(Q) /\ Append(P(k), x) = P(k) \o <<x>>
      BY <2>1, AppendIsConcat DEF Q
    <3>2. ss \o P(k) \in Seq(Q)
      BY <2>1, <3>1, ConcatProperties
    <3>3. Append(ss \o P(k), x) = (ss \o P(k)) \o <<x>>
      BY <2>1, <3>2, AppendIsConcat
    <3>4. (ss \o P(k)) \o <<x>> = ss \o (P(k) \o <<x>>)
      <4> DEFINE p == P(k)
                 y == <<x>>
      <4>2. p \in Seq(Q) /\ y \in Seq(Q)
        BY <2>1, <3>1
      <4> HIDE DEF p, y
      <4>3. (ss \o p) \o y = ss \o (p \o y)
        <5>1. AreSeqs(Q, ss, p, y)
          BY <3>1, <4>2 DEF AreSeqs
        <5> QED BY <5>1, ConcatThree
      <4> QED BY <4>3 DEF p, y
    <3> QED BY <3>1, <3>3, <3>4
  <2>5. ss \o P(k) \in Seq(Q)
    BY <2>1, ConcatProperties
  <2>6. FlattenSeq(Append(ss \o P(k), x)) = FlattenSeq(ss \o P(k)) \o x
    BY <2>1, <2>5, FlatAppend
  <2>7. FlattenSeq(Append(P(k), x)) = FlattenSeq(P(k)) \o x
    BY <2>1, FlatAppend
  <2>8. FlattenSeq(ss) \in Seq(S) /\ FlattenSeq(P(k)) \in Seq(S) /\ x \in Seq(S)
    BY <2>1, FlatType
  <2>9. (FlattenSeq(ss) \o FlattenSeq(P(k))) \o x = FlattenSeq(ss) \o (FlattenSeq(P(k)) \o x)
    <3> DEFINE a == FlattenSeq(ss)
               b == FlattenSeq(P(k))
    <3>1. a \in Seq(S) /\ b \in Seq(S) /\ x \in Seq(S)
      BY <2>8
    <3> HIDE DEF a, b, T, Q
    <3>2. AreSeqs(S, a, b, x)
      BY <3>1 DEF AreSeqs
    <3>3. (a \o b) \o x = a \o (b \o x)
      BY <3>2, ConcatThree
    <3> QED BY <3>3 DEF a, b
  <2> QED BY <2>2, <2>3, <2>4, <2>6, <2>7, <2>9
<1>3. Len(tt) \in T
  <2> HIDE DEF T
  <2>1. T \in SUBSET Nat
    BY DEF T
  <2> QED BY <1>0, <1>1, <1>2, <2>1, NumberInduction
<1>4. P(Len(tt)) = tt
  BY SubSeqFull
<1> HIDE DEF P
<1> QED BY <1>0, <1>3, <1>4

-----------------------------------------------------------------------------
\* Replacing each element of a sequence by a sequence: most of what the
\* tokenizer does is of this form.

\* f is a function from elements to sequences.
FlatMap(f, s) == FlattenSeq([i \in DOMAIN s |-> f[s[i]]])

\* f gives each element of X a sequence of elements of S.
MapsTo(f, X, S) == f \in [X -> Seq(S)]

LEMMA MapType ==
  ASSUME NEW X, NEW S, NEW f \in [X -> S], NEW s \in Seq(X)
  PROVE  /\ [i \in DOMAIN s |-> f[s[i]]] \in Seq(S)
         /\ Len([i \in DOMAIN s |-> f[s[i]]]) = Len(s)
<1>1. /\ DOMAIN s = 1 .. Len(s) /\ Len(s) \in Nat
      /\ \A i \in 1 .. Len(s) : s[i] \in X
  BY LenProperties, ElementOfSeq
<1> DEFINE g == [i \in DOMAIN s |-> f[s[i]]]
           n == Len(s)
<1>2. g \in [1 .. n -> S] /\ n \in Nat
  BY <1>1
<1> HIDE DEF g, n
<1>3. g \in Seq(S)
  BY <1>2, SeqDef
<1>4. DOMAIN g = 1 .. Len(g) /\ Len(g) \in Nat
  BY <1>3, LenProperties
<1>5. Len(g) = n
  BY <1>2, <1>4
<1> QED BY <1>3, <1>5 DEF g, n

LEMMA FlatMapType ==
  ASSUME NEW X, NEW S, NEW f, MapsTo(f, X, S), NEW s \in Seq(X)
  PROVE  FlatMap(f, s) \in Seq(S)
<1> DEFINE Q == Seq(S)
           g == [i \in DOMAIN s |-> f[s[i]]]
<1>1. g \in Seq(Q)
  BY MapType DEF MapsTo
<1> HIDE DEF g
<1>2. FlattenSeq(g) \in Seq(S)
  BY <1>1, FlatType
<1> QED BY <1>2 DEF FlatMap, g

LEMMA FlatMapEmpty ==
  ASSUME NEW f
  PROVE  FlatMap(f, <<>>) = <<>>
<1>1. [i \in DOMAIN <<>> |-> f[<<>>[i]]] = <<>>
  OBVIOUS
<1> QED BY <1>1, FlatEmpty DEF FlatMap

LEMMA FlatMapConcat ==
  ASSUME NEW X, NEW S, NEW f, MapsTo(f, X, S), NEW s \in Seq(X), NEW t \in Seq(X)
  PROVE  FlatMap(f, s \o t) = FlatMap(f, s) \o FlatMap(f, t)
<1> DEFINE m(u) == [i \in DOMAIN u |-> f[u[i]]]
           Q == Seq(S)
<1>1. /\ s \o t \in Seq(X) /\ Len(s \o t) = Len(s) + Len(t)
      /\ \A i \in 1 .. Len(s) + Len(t) : (s \o t)[i] =
           IF i <= Len(s) THEN s[i] ELSE t[i - Len(s)]
      /\ Len(s) \in Nat /\ Len(t) \in Nat
      /\ DOMAIN s = 1 .. Len(s) /\ DOMAIN t = 1 .. Len(t)
      /\ DOMAIN (s \o t) = 1 .. Len(s) + Len(t)
  <2>1. s \o t \in Seq(X) /\ Len(s \o t) = Len(s) + Len(t)
    BY ConcatProperties
  <2>2. DOMAIN (s \o t) = 1 .. Len(s \o t)
    BY <2>1, LenProperties
  <2> QED BY <2>1, <2>2, ConcatProperties, LenProperties
<1>2. /\ m(s) \in Seq(Q) /\ Len(m(s)) = Len(s) /\ m(t) \in Seq(Q) /\ Len(m(t)) = Len(t)
      /\ m(s \o t) \in Seq(Q) /\ Len(m(s \o t)) = Len(s \o t)
  BY <1>1, MapType DEF MapsTo
<1>3. /\ \A i \in 1 .. Len(s) : m(s)[i] = f[s[i]]
      /\ \A i \in 1 .. Len(t) : m(t)[i] = f[t[i]]
      /\ \A i \in 1 .. Len(s) + Len(t) : m(s \o t)[i] = f[(s \o t)[i]]
  BY <1>1
<1> HIDE DEF m, Q
<1>4. m(s \o t) = m(s) \o m(t)
  <2>1. /\ m(s) \o m(t) \in Seq(Q) /\ Len(m(s) \o m(t)) = Len(s) + Len(t)
        /\ \A i \in 1 .. Len(s) + Len(t) : (m(s) \o m(t))[i] =
             IF i <= Len(s) THEN m(s)[i] ELSE m(t)[i - Len(s)]
    <3> DEFINE a == m(s)
               b == m(t)
    <3>1. a \in Seq(Q) /\ b \in Seq(Q) /\ Len(a) = Len(s) /\ Len(b) = Len(t)
      BY <1>2
    <3> HIDE DEF a, b
    <3>2. /\ a \o b \in Seq(Q) /\ Len(a \o b) = Len(a) + Len(b)
          /\ \A i \in 1 .. Len(a) + Len(b) : (a \o b)[i] =
               IF i <= Len(a) THEN a[i] ELSE b[i - Len(a)]
      BY <3>1, ConcatProperties
    <3> QED BY <3>1, <3>2 DEF a, b
  <2>2. ASSUME NEW i \in 1 .. Len(s) + Len(t)
        PROVE  m(s \o t)[i] = (m(s) \o m(t))[i]
    <3>1. CASE i <= Len(s)
      <4>1. i \in 1 .. Len(s)
        BY <1>1, <3>1
      <4>2. (s \o t)[i] = s[i] /\ (m(s) \o m(t))[i] = m(s)[i]
        BY <1>1, <2>1, <3>1
      <4> QED BY <1>3, <4>1, <4>2
    <3>2. CASE ~(i <= Len(s))
      <4>1. i - Len(s) \in 1 .. Len(t)
        BY <1>1, <3>2
      <4>2. (s \o t)[i] = t[i - Len(s)] /\ (m(s) \o m(t))[i] = m(t)[i - Len(s)]
        BY <1>1, <2>1, <3>2
      <4> QED BY <1>3, <4>1, <4>2
    <3> QED BY <3>1, <3>2
  <2>3. Len(m(s \o t)) = Len(s) + Len(t)
    BY <1>1, <1>2
  <2> QED BY <1>2, <2>1, <2>2, <2>3, SeqEqual
<1>5. FlattenSeq(m(s) \o m(t)) = FlattenSeq(m(s)) \o FlattenSeq(m(t))
  BY <1>2, FlatConcat DEF Q
<1> QED BY <1>4, <1>5 DEF FlatMap, m

LEMMA FlatMapOne ==
  ASSUME NEW X, NEW S, NEW f, MapsTo(f, X, S), NEW x \in X
  PROVE  FlatMap(f, <<x>>) = f[x]
<1>1. [i \in DOMAIN <<x>> |-> f[<<x>>[i]]] = <<f[x]>>
  OBVIOUS
<1>2. FlatMap(f, <<x>>) = FlattenSeq(<<f[x]>>)
  BY <1>1 DEF FlatMap
<1>3. f[x] \in Seq(S)
  BY DEF MapsTo
<1> QED BY <1>2, <1>3, FlatOne

LEMMA FlatMapAppend ==
  ASSUME NEW X, NEW S, NEW f, MapsTo(f, X, S), NEW s \in Seq(X), NEW x \in X
  PROVE  FlatMap(f, Append(s, x)) = FlatMap(f, s) \o f[x]
<1>1. Append(s, x) = s \o <<x>> /\ <<x>> \in Seq(X)
  BY AppendIsConcat
<1>2. FlatMap(f, s \o <<x>>) = FlatMap(f, s) \o FlatMap(f, <<x>>)
  <2> DEFINE t == <<x>>
  <2>1. t \in Seq(X)
    OBVIOUS
  <2> HIDE DEF t
  <2>2. FlatMap(f, s \o t) = FlatMap(f, s) \o FlatMap(f, t)
    BY <2>1, FlatMapConcat
  <2> QED BY <2>2 DEF t
<1>3. FlatMap(f, <<x>>) = f[x]
  BY FlatMapOne
<1> QED BY <1>1, <1>2, <1>3

LEMMA HeadThenTail ==
  ASSUME NEW X, NEW s \in Seq(X), s # <<>>
  PROVE  s = <<Head(s)>> \o Tail(s) /\ Head(s) \in X /\ Tail(s) \in Seq(X)
<1>1. Head(s) \in X /\ Tail(s) \in Seq(X) /\ Tail(s) = SubSeq(s, 2, Len(s))
  BY HeadTailProperties, TailIsSubSeq
<1>2. 1 \in 1 .. Len(s) /\ Len(s) \in 1 .. Len(s)
  BY EmptySeq
<1>3. SubSeq(s, 1, Len(s)) = <<s[1]>> \o SubSeq(s, 1 + 1, Len(s))
  BY <1>2, SubSeqRecursiveFirst
<1>4. SubSeq(s, 1, Len(s)) = s /\ Head(s) = s[1]
  BY <1>2, SubSeqFull, HeadTailOfSubSeq
<1> QED BY <1>1, <1>3, <1>4

LEMMA FlatMapHead ==
  ASSUME NEW X, NEW S, NEW f, MapsTo(f, X, S), NEW s \in Seq(X), s # <<>>
  PROVE  FlatMap(f, s) = f[Head(s)] \o FlatMap(f, Tail(s))
<1>1. s = <<Head(s)>> \o Tail(s) /\ Head(s) \in X /\ Tail(s) \in Seq(X)
  BY HeadThenTail
<1>2. FlatMap(f, <<Head(s)>> \o Tail(s)) = FlatMap(f, <<Head(s)>>) \o FlatMap(f, Tail(s))
  <2> DEFINE h == <<Head(s)>>
             t == Tail(s)
  <2>1. h \in Seq(X)
    BY <1>1
  <2>2. t \in Seq(X)
    BY <1>1
  <2> HIDE DEF h, t
  <2>3. FlatMap(f, h \o t) = FlatMap(f, h) \o FlatMap(f, t)
    BY <2>1, <2>2, FlatMapConcat
  <2> QED BY <2>3 DEF h, t
<1>3. FlatMap(f, <<Head(s)>>) = f[Head(s)]
  BY <1>1, FlatMapOne
<1> QED BY <1>1, <1>2, <1>3

\* What is nothing for each element is nothing.
LEMMA FlatMapNothing ==
  ASSUME NEW X, NEW S, NEW f, MapsTo(f, X, S), NEW s \in Seq(X),
         \A i \in 1 .. Len(s) : f[s[i]] = <<>>
  PROVE  FlatMap(f, s) = <<>>
<1> DEFINE ss == [i \in DOMAIN s |-> f[s[i]]]
           n == Len(ss)
<1>1. ss \in Seq(Seq(S)) /\ Len(ss) = Len(s) /\ n \in Nat
  <2> DEFINE Q == Seq(S)
  <2>1. ss \in Seq(Q) /\ Len(ss) = Len(s)
    BY MapType DEF MapsTo
  <2> QED BY <2>1, LenProperties
<1>2. \A i \in 1 .. n : ss[i] = <<>>
  BY <1>1, LenProperties
<1>3. FlatMap(f, s) = FlattenSeq(ss)
  BY DEF FlatMap
<1> HIDE DEF ss
<1>4. CASE ss = <<>>
  BY <1>3, <1>4, FlatEmpty
<1>5. CASE ss # <<>>
  <2>1. PICK g \in [1 .. Len(ss) -> Seq(S)] :
          /\ FlattenSeq(ss) = g[Len(ss)] /\ g[1] = ss[1]
          /\ \A i \in 2 .. Len(ss) : g[i] = g[i - 1] \o ss[i]
    BY <1>1, <1>5, FlatRecursion
  <2>0. n >= 1 /\ n \in Nat
    BY <1>1, <1>5, EmptySeq
  <2>e. <<>> \o <<>> = <<>>
    BY EmptySeq, ConcatEmptySeq
  <2> DEFINE T == {k \in Nat : k + 1 <= n => g[k + 1] = <<>>}
  <2>2. 0 \in T
    BY <1>2, <2>0, <2>1
  <2>3. ASSUME NEW k \in T PROVE k + 1 \in T
    <3>0. k \in Nat /\ k + 1 \in Nat /\ (k + 1) + 1 \in Nat
      OBVIOUS
    <3> DEFINE j == (k + 1) + 1
    <3>1. CASE j <= n
      <4>1. k + 1 <= n /\ j \in 2 .. n /\ j - 1 = k + 1 /\ j \in 1 .. n
        BY <2>0, <3>0, <3>1
      <4>2. g[k + 1] = <<>>
        BY <4>1
      <4> HIDE DEF j
      <4>3. g[j] = <<>> \o <<>>
        BY <1>2, <2>1, <4>1, <4>2
      <4> QED BY <2>e, <3>0, <4>3 DEF j
    <3>2. CASE ~(j <= n)
      BY <3>0, <3>2
    <3> QED BY <3>1, <3>2
  <2> HIDE DEF T
  <2>4. \A k \in Nat : k \in T
    <3>1. T \in SUBSET Nat
      BY DEF T
    <3> QED BY <2>2, <2>3, <3>1, NumberInduction
  <2>5. g[n] = <<>>
    <3>1. n - 1 \in Nat /\ (n - 1) + 1 = n /\ n <= n
      BY <2>0
    <3> QED BY <2>4, <3>1 DEF T
  <2> QED BY <1>3, <2>1, <2>5
<1> QED BY <1>4, <1>5

-----------------------------------------------------------------------------
\* The elements of a sequence that are in a set.

\* Keeps the elements of X that are in S.
Pick(X, S) == [x \in X |-> IF x \in S THEN <<x>> ELSE <<>>]

LEMMA OnlyIsFlatMap ==
  ASSUME NEW X, NEW S, NEW s \in Seq(X)
  PROVE  Only(s, S) = FlatMap(Pick(X, S), s) /\ MapsTo(Pick(X, S), X, S)
<1>1. \A i \in DOMAIN s : s[i] \in X
  BY LenProperties, ElementOfSeq
<1>2. [i \in DOMAIN s |-> IF s[i] \in S THEN <<s[i]>> ELSE <<>>]
        = [i \in DOMAIN s |-> Pick(X, S)[s[i]]]
  BY <1>1 DEF Pick
<1>3. \A x \in X : (IF x \in S THEN <<x>> ELSE <<>>) \in Seq(S)
  BY EmptySeq
<1> QED BY <1>2, <1>3 DEF Only, FlatMap, Pick, MapsTo

LEMMA OnlyType ==
  ASSUME NEW X, NEW S, NEW s \in Seq(X)
  PROVE  Only(s, S) \in Seq(S)
<1> DEFINE f == Pick(X, S)
<1>1. Only(s, S) = FlatMap(f, s) /\ MapsTo(f, X, S)
  BY OnlyIsFlatMap
<1> HIDE DEF f
<1> QED BY <1>1, FlatMapType

LEMMA OnlyConcat ==
  ASSUME NEW X, NEW S, NEW s \in Seq(X), NEW t \in Seq(X)
  PROVE  Only(s \o t, S) = Only(s, S) \o Only(t, S)
<1>1. s \o t \in Seq(X)
  BY ConcatProperties
<1>2. /\ Only(s, S) = FlatMap(Pick(X, S), s) /\ Only(t, S) = FlatMap(Pick(X, S), t)
      /\ Only(s \o t, S) = FlatMap(Pick(X, S), s \o t) /\ MapsTo(Pick(X, S), X, S)
  BY <1>1, OnlyIsFlatMap
<1>3. FlatMap(Pick(X, S), s \o t) = FlatMap(Pick(X, S), s) \o FlatMap(Pick(X, S), t)
  <2> DEFINE f == Pick(X, S)
  <2>1. MapsTo(f, X, S)
    BY <1>2
  <2> HIDE DEF f
  <2>2. FlatMap(f, s \o t) = FlatMap(f, s) \o FlatMap(f, t)
    BY <2>1, FlatMapConcat
  <2> QED BY <2>2 DEF f
<1> QED BY <1>2, <1>3

LEMMA OnlyOne ==
  ASSUME NEW S, NEW x \in S
  PROVE  Only(<<x>>, S) = <<x>>
<1>1. <<x>> \in Seq(S) /\ Pick(S, S)[x] = <<x>>
  BY DEF Pick
<1>2. Only(<<x>>, S) = FlatMap(Pick(S, S), <<x>>) /\ MapsTo(Pick(S, S), S, S)
  BY <1>1, OnlyIsFlatMap
<1> QED BY <1>1, <1>2, FlatMapOne

LEMMA OnlyNone ==
  ASSUME NEW X, NEW S, NEW s \in Seq(X), \A i \in 1 .. Len(s) : s[i] \notin S
  PROVE  Only(s, S) = <<>>
<1>1. \A i \in 1 .. Len(s) : Pick(X, S)[s[i]] = <<>>
  BY ElementOfSeq DEF Pick
<1>2. Only(s, S) = FlatMap(Pick(X, S), s) /\ MapsTo(Pick(X, S), X, S)
  BY OnlyIsFlatMap
<1> QED BY <1>1, <1>2, FlatMapNothing

-----------------------------------------------------------------------------
\* The added tokens at a place of a text.

LEMMA AddedType ==
  ASSUME NEW t \in added_tokens
  PROVE  t.content \in Seq(Byte) /\ t.id \in Int /\ t.content # <<>> /\ Len(t.content) \in Nat \ {0}
<1>1. t \in Range(File.added_tokens) /\ t.content # <<>>
  BY DEF added_tokens
<1>2. t.content \in Seq(Byte) /\ t.id \in Int
  BY <1>1, FileAssumption
<1> QED BY <1>1, <1>2, EmptySeq

LEMMA FromFacts ==
  ASSUME NEW S, NEW s \in Seq(S), NEW i \in 1 .. Len(s) + 1
  PROVE  /\ From(s, i) \in Seq(S) /\ Len(From(s, i)) = Len(s) - i + 1
         /\ \A j \in 1 .. Len(s) - i + 1 : From(s, i)[j] = s[i + j - 1]
<1>1. Len(s) \in Nat /\ \A j \in i .. Len(s) : s[j] \in S
  BY LenProperties, ElementOfSeq
<1>2. i \in Int /\ Len(s) \in Int
  BY <1>1
<1>3. /\ SubSeq(s, i, Len(s)) \in Seq(S)
      /\ Len(SubSeq(s, i, Len(s))) = IF i <= Len(s) THEN Len(s) - i + 1 ELSE 0
      /\ \A j \in 1 .. Len(s) - i + 1 : SubSeq(s, i, Len(s))[j] = s[i + j - 1]
  BY <1>1, <1>2, SubSeqProperties
<1>4. ~(i <= Len(s)) => Len(s) - i + 1 = 0
  BY <1>1
<1> QED BY <1>3, <1>4 DEF From

LEMMA FromEmpty ==
  ASSUME NEW S, NEW s \in Seq(S), NEW i \in 1 .. Len(s) + 1
  PROVE  From(s, i) = <<>> <=> i = Len(s) + 1
<1>1. Len(From(s, i)) = Len(s) - i + 1 /\ From(s, i) \in Seq(S) /\ Len(s) \in Nat
  BY FromFacts, LenProperties
<1>2. From(s, i) = <<>> <=> Len(From(s, i)) = 0
  BY <1>1, EmptySeq
<1> QED BY <1>1, <1>2

LEMMA FromNext ==
  ASSUME NEW S, NEW s \in Seq(S), NEW i \in 1 .. Len(s)
  PROVE  From(s, i) = <<s[i]>> \o From(s, i + 1)
<1> DEFINE n == Len(s)
<1>1. n \in i .. n
  BY LenProperties
<1> HIDE DEF n
<1>2. SubSeq(s, i, n) = <<s[i]>> \o SubSeq(s, i + 1, n)
  BY <1>1, SubSeqRecursiveFirst DEF n
<1> QED BY <1>2 DEF From, n

LEMMA LongestFacts ==
  ASSUME NEW s \in Seq(Byte), NEW i \in 1 .. Len(s), AddedAt(s, i) # {}
  PROVE  /\ LongestAt(s, i) \in AddedAt(s, i)
         /\ LongestAt(s, i) \in added_tokens
         /\ IsPrefix(LongestAt(s, i).content, From(s, i))
         /\ Len(LongestAt(s, i).content) \in 1 .. Len(s) - i + 1
<1> DEFINE A == AddedAt(s, i)
           L == {Len(t.content) : t \in A}
<1>1. Len(s) \in Nat /\ Len(From(s, i)) = Len(s) - i + 1
  BY LenProperties, FromFacts
<1>2. \A t \in A : /\ t \in added_tokens /\ Len(t.content) \in Nat \ {0}
                   /\ IsPrefix(t.content, From(s, i))
                   /\ Len(t.content) <= Len(s) - i + 1
  BY <1>1, AddedType DEF AddedAt, IsPrefix
<1>3. L \in SUBSET Int /\ L # {} /\ \A x \in L : x <= Len(s) - i + 1
  <2>1. L # {}
    OBVIOUS
  <2>2. ASSUME NEW x \in L PROVE x \in Int /\ x <= Len(s) - i + 1
    <3>1. PICK t \in A : x = Len(t.content)
      OBVIOUS
    <3>2. Len(t.content) \in Nat /\ Len(t.content) <= Len(s) - i + 1
      BY <1>2
    <3> QED BY <3>1, <3>2
  <2> HIDE DEF L
  <2> QED BY <2>1, <2>2
<1>4. PICK m \in L : \A x \in L : x <= m
  <2>1. Len(s) - i + 1 \in Int
    BY <1>1
  <2> HIDE DEF L
  <2> QED BY <1>3, <2>1, Greatest
<1>5. \E t \in A : \A u \in A : Len(u.content) <= Len(t.content)
  BY <1>4
<1>6. LongestAt(s, i) \in A
  <2> HIDE DEF A
  <2>1. LongestAt(s, i) = CHOOSE t \in A : \A u \in A : Len(u.content) <= Len(t.content)
    BY DEF LongestAt, A
  <2> QED BY <1>5, <2>1
<1> QED BY <1>1, <1>2, <1>6

LEMMA BehindFacts ==
  ASSUME NEW s \in Seq(Byte), NEW i \in 1 .. Len(s)
  PROVE  /\ Behind(s)[i] \in i + 1 .. Len(s) + 1
         /\ Behind(s)[i] =
              IF AddedAt(s, i) = {} THEN i + 1 ELSE i + Len(LongestAt(s, i).content)
<1>1. DOMAIN s = 1 .. Len(s) /\ Len(s) \in Nat
  BY LenProperties
<1>2. Behind(s)[i] = IF AddedAt(s, i) = {} THEN i + 1 ELSE i + Len(LongestAt(s, i).content)
  BY <1>1 DEF Behind
<1>3. CASE AddedAt(s, i) = {}
  BY <1>1, <1>2, <1>3
<1>4. CASE AddedAt(s, i) # {}
  <2>1. Len(LongestAt(s, i).content) \in 1 .. Len(s) - i + 1
    BY <1>4, LongestFacts
  <2> QED BY <1>1, <1>2, <1>4, <2>1
<1> QED BY <1>2, <1>3, <1>4

\* The ids found in a text, place by place.
LEMMA AddedFromIs ==
  ASSUME NEW s \in Seq(Byte)
  PROVE  /\ \A i \in 1 .. Len(s) + 1 : AddedFrom(s)[i] \in Seq(AddedIds)
         /\ AddedFrom(s)[Len(s) + 1] = <<>>
         /\ \A i \in 1 .. Len(s) :
              AddedFrom(s)[i] =
                IF AddedAt(s, i) = {} THEN AddedFrom(s)[i + 1]
                ELSE <<LongestAt(s, i).id>>
                       \o AddedFrom(s)[i + Len(LongestAt(s, i).content)]
<1> DEFINE item == [i \in DOMAIN s |->
                      IF AddedAt(s, i) = {} THEN <<>> ELSE <<LongestAt(s, i).id>>]
           next == Behind(s)
           Q == Seq(AddedIds)
<1>1. DOMAIN s = 1 .. Len(s) /\ Len(s) \in Nat
  BY LenProperties
<1>2. ASSUME NEW i \in 1 .. Len(s)
      PROVE  (IF AddedAt(s, i) = {} THEN <<>> ELSE <<LongestAt(s, i).id>>) \in Q
  <2>1. AddedAt(s, i) # {} => LongestAt(s, i).id \in AddedIds
    BY LongestFacts DEF AddedIds
  <2> QED BY <2>1, EmptySeq
<1>3. item \in [1 .. Len(s) -> Q]
  BY <1>1, <1>2
<1>4. \A i \in 1 .. Len(s) : item[i] = IF AddedAt(s, i) = {} THEN <<>> ELSE <<LongestAt(s, i).id>>
  BY <1>1
<1>5. AddedFrom(s) = Scan(item, next)
  BY DEF AddedFrom
<1> HIDE DEF item, next, Q
<1>6. item \in Seq(Q) /\ Len(item) = Len(s)
  BY <1>1, <1>3, FunctionIsSeq
<1>7. \A i \in 1 .. Len(s) : next[i] \in i + 1 .. Len(s) + 1
  BY BehindFacts DEF next
<1>8. /\ \A i \in 1 .. Len(item) + 1 : Scan(item, next)[i] \in Q
      /\ Scan(item, next)[Len(item) + 1] = <<>>
      /\ \A i \in 1 .. Len(item) :
           Scan(item, next)[i] = item[i] \o Scan(item, next)[next[i]]
  <2>1. item \in Seq(Seq(AddedIds)) /\ GoesOn(item, next)
    BY <1>6, <1>7 DEF Q, GoesOn
  <2>2. CanScan(AddedIds, item, next)
    BY <2>1 DEF CanScan
  <2>3. Scanned(AddedIds, item, next)
    BY <2>2, ScanIs
  <2> QED BY <2>3 DEF Scanned, Q
<1>9. ASSUME NEW i \in 1 .. Len(s)
      PROVE  AddedFrom(s)[i] =
                IF AddedAt(s, i) = {} THEN AddedFrom(s)[i + 1]
                ELSE <<LongestAt(s, i).id>>
                       \o AddedFrom(s)[i + Len(LongestAt(s, i).content)]
  <2>1. /\ AddedFrom(s)[i] = item[i] \o AddedFrom(s)[next[i]]
        /\ AddedFrom(s)[next[i]] \in Q
    <3>1. next[i] \in 1 .. Len(s) + 1
      BY <1>1, <1>7
    <3> QED BY <1>5, <1>6, <1>8, <3>1
  <2>2. CASE AddedAt(s, i) = {}
    <3>1. next[i] = i + 1 /\ item[i] = <<>>
      BY <1>4, <2>2, BehindFacts DEF next
    <3>2. <<>> \o AddedFrom(s)[next[i]] = AddedFrom(s)[next[i]]
      BY <2>1, ConcatEmptySeq DEF Q
    <3> QED BY <2>1, <2>2, <3>1, <3>2
  <2>3. CASE AddedAt(s, i) # {}
    <3>1. next[i] = i + Len(LongestAt(s, i).content) /\ item[i] = <<LongestAt(s, i).id>>
      BY <1>4, <2>3, BehindFacts DEF next
    <3> QED BY <2>1, <2>3, <3>1
  <2> QED BY <2>2, <2>3
<1> QED BY <1>5, <1>6, <1>8, <1>9 DEF Q

-----------------------------------------------------------------------------
\* The loops of the pre-tokenizer.

LEMMA SpanFacts ==
  ASSUME NEW S, NEW r \in Seq(S), NEW from \in 1 .. Len(r) + 1,
         NEW places \in SUBSET (1 .. Len(r))
  PROVE  /\ Span(r, from, places) \in 0 .. Len(r) - from + 1
         /\ \A i \in from .. from + Span(r, from, places) - 1 : i \in places
         /\ from + Span(r, from, places) \notin places
<1> DEFINE N == {n \in 0 .. Len(r) : from .. from + n - 1 \subseteq places}
           m == Span(r, from, places)
<1>0. Len(r) \in Nat /\ from \in Nat /\ from >= 1
  BY LenProperties
<1>1. N \in SUBSET Int /\ \A x \in N : x <= Len(r)
  BY <1>0
<1>2. 0 \in N
  <2>1. from .. from + 0 - 1 = {}
    BY <1>0
  <2> QED BY <1>0, <2>1
<1>3. m = Max(N)
  BY DEF Span
<1>4. m \in N /\ \A x \in N : x <= m
  <2> HIDE DEF N, m
  <2>1. N # {} /\ Len(r) \in Int
    BY <1>0, <1>2
  <2> QED BY <1>1, <1>3, <2>1, MaxFacts
<1>5. m \in 0 .. Len(r) /\ from .. from + m - 1 \subseteq places
  <2> HIDE DEF m
  <2> QED BY <1>4
<1> HIDE DEF m
<1>6. m <= Len(r) - from + 1
  <2>1. CASE m = 0
    BY <1>0, <2>1
  <2>2. CASE m # 0
    <3>1. from + m - 1 \in from .. from + m - 1
      BY <1>0, <1>5, <2>2
    <3>2. from + m - 1 \in 1 .. Len(r)
      BY <1>5, <3>1
    <3> QED BY <1>0, <1>5, <3>2
  <2> QED BY <2>1, <2>2
<1>7. ASSUME from + m \in places PROVE FALSE
  <2>1. from + m <= Len(r) /\ m + 1 \in 0 .. Len(r)
    BY <1>0, <1>5, <1>7
  <2>2. ASSUME NEW i \in from .. from + (m + 1) - 1 PROVE i \in places
    <3>1. CASE i = from + m
      BY <1>7, <3>1
    <3>2. CASE i # from + m
      <4>1. i \in from .. from + m - 1
        BY <1>0, <1>5, <3>2
      <4> QED BY <1>5, <4>1
    <3> QED BY <3>1, <3>2
  <2>3. m + 1 \in N
    BY <2>1, <2>2
  <2> HIDE DEF N
  <2>4. m + 1 <= m
    BY <1>4, <2>3
  <2> QED BY <1>5, <2>4
<1>8. m \in 0 .. Len(r) - from + 1
  BY <1>0, <1>5, <1>6
<1> QED BY <1>5, <1>7, <1>8 DEF m

\* The kinds exclude each other.
LEMMA KindFacts ==
  ASSUME NEW S, NEW r \in Seq(S), NEW i
  PROVE  /\ i \in OfKind(r, {"letter", "mark"}) <=>
              i \in 1 .. Len(r) /\ Kind(r, i) \in {"letter", "mark"}
         /\ i \in OfKind(r, {"symbol"}) <=> i \in 1 .. Len(r) /\ Kind(r, i) = "symbol"
         /\ i \in OfKind(r, {"whitespace"}) <=>
              i \in 1 .. Len(r) /\ Kind(r, i) = "whitespace"
         /\ i \notin 1 .. Len(r) => Kind(r, i) = "undefined" /\ ~IsNewline(r, i)
         /\ Kind(r, i) \in {"whitespace", "letter", "number", "mark", "symbol", "undefined"}
         /\ IsNewline(r, i) => i \in 1 .. Len(r) /\ Kind(r, i) = "whitespace"
         /\ (i \in 1 .. Len(r) /\ r[i] = 32) => Kind(r, i) = "whitespace"
         /\ (i \in 1 .. Len(r) /\ IsDefined(r[i])) => Kind(r, i) # "undefined"
<1>1. DOMAIN r = 1 .. Len(r)
  BY LenProperties
<1>2. 10 \in Whitespace /\ 13 \in Whitespace /\ 32 \in Whitespace
  BY DEF Whitespace
<1>4. \A cp : /\ codepoint_flags(cp) \in
                   {"whitespace", "letter", "number", "mark", "symbol", "undefined"}
              /\ cp \in Whitespace => codepoint_flags(cp) = "whitespace"
              /\ IsDefined(cp) => codepoint_flags(cp) # "undefined"
  BY DEF codepoint_flags
<1>5. /\ i \in 1 .. Len(r) => Kind(r, i) = codepoint_flags(r[i])
      /\ i \notin 1 .. Len(r) => Kind(r, i) = "undefined"
  BY <1>1 DEF Kind
<1>6. IsNewline(r, i) <=> i \in 1 .. Len(r) /\ r[i] \in {10, 13}
  BY <1>1 DEF IsNewline
<1>7. /\ i \in OfKind(r, {"letter", "mark"}) <=>
           i \in 1 .. Len(r) /\ Kind(r, i) \in {"letter", "mark"}
      /\ i \in OfKind(r, {"symbol"}) <=> i \in 1 .. Len(r) /\ Kind(r, i) = "symbol"
      /\ i \in OfKind(r, {"whitespace"}) <=>
           i \in 1 .. Len(r) /\ Kind(r, i) = "whitespace"
  BY <1>1 DEF OfKind
<1>8. IsNewline(r, i) => i \in 1 .. Len(r) /\ Kind(r, i) = "whitespace"
  BY <1>2, <1>4, <1>5, <1>6
<1>9. (i \in 1 .. Len(r) /\ r[i] = 32) => Kind(r, i) = "whitespace"
  BY <1>2, <1>4, <1>5
<1>10. (i \in 1 .. Len(r) /\ IsDefined(r[i])) => Kind(r, i) # "undefined"
  BY <1>4, <1>5
<1>11. Kind(r, i) \in {"whitespace", "letter", "number", "mark", "symbol", "undefined"}
  BY <1>4, <1>5
<1> QED BY <1>5, <1>6, <1>7, <1>8, <1>9, <1>10, <1>11

-----------------------------------------------------------------------------
\* Each branch takes the longest match of its alternative, and does not apply
\* when there is none.

\* n is the greatest length in M, or 0 when there is none.
LongestIn(n, M) == IF M = {} THEN n = 0 ELSE n \in M /\ \A m \in M : m <= n

LEMMA WordIsLongest ==
  ASSUME NEW S, NEW r \in Seq(S), r # <<>>
  PROVE  Word(r) \in 0 .. Len(r) /\ LongestIn(Word(r), {n \in DOMAIN r : MatchesWord(r, n)})
<1> DEFINE places == OfKind(r, {"letter", "mark"})
           m == Span(r, 2, places)
           M == {n \in DOMAIN r : MatchesWord(r, n)}
<1>0. DOMAIN r = 1 .. Len(r) /\ Len(r) \in Nat /\ Len(r) >= 1
  BY LenProperties, EmptySeq
<1>1. \A i : i \in places <=> i \in 1 .. Len(r) /\ IsWordPart(r, i)
  BY KindFacts DEF IsWordPart
<1>2. \A i : /\ IsNewline(r, i) => ~IsWordPart(r, i)
             /\ Kind(r, i) = "number" => ~IsWordPart(r, i)
             /\ Kind(r, i) = "letter" => IsWordPart(r, i)
             /\ IsWordPart(r, i) => i \in 1 .. Len(r)
  BY KindFacts DEF IsWordPart
<1>3. /\ m \in 0 .. Len(r) - 2 + 1
      /\ \A i \in 2 .. 2 + m - 1 : i \in places
      /\ 2 + m \notin places
  <2>1. places \in SUBSET (1 .. Len(r)) /\ 2 \in 1 .. Len(r) + 1
    BY <1>0, <1>1
  <2> HIDE DEF places
  <2> QED BY <2>1, SpanFacts
<1>4. \A n \in 1 .. Len(r) : MatchesWord(r, n) <=>
        \E opt \in {0, 1} : /\ opt < n
                            /\ opt = 1 => /\ ~IsNewline(r, 1) /\ Kind(r, 1) # "number"
                                          /\ Kind(r, 1) # "letter"
                            /\ \A i \in opt + 1 .. n : IsWordPart(r, i)
  BY DEF MatchesWord, IsWordPart
<1>5. Word(r) = IF IsNewline(r, 1) \/ Kind(r, 1) = "number" THEN 0
                ELSE IF IsWordPart(r, 1) \/ IsWordPart(r, 2) THEN 1 + m ELSE 0
  BY DEF Word
<1>6. \A n : n \in M <=> n \in 1 .. Len(r) /\ MatchesWord(r, n)
  BY <1>0
<1> HIDE DEF places, m, M
<1>7. CASE Word(r) = 0 /\ \A n \in 1 .. Len(r) : ~MatchesWord(r, n)
  <2>1. M = {}
    BY <1>6, <1>7
  <2> QED BY <1>0, <1>7, <2>1 DEF LongestIn, M
<1>8. CASE IsNewline(r, 1) \/ Kind(r, 1) = "number"
  <2>1. ASSUME NEW n \in 1 .. Len(r), MatchesWord(r, n) PROVE FALSE
    <3>1. 1 \in 0 + 1 .. n
      OBVIOUS
    <3> QED BY <1>2, <1>4, <1>8, <2>1, <3>1
  <2> QED BY <1>5, <1>7, <1>8, <2>1
<1>9. CASE /\ ~(IsNewline(r, 1) \/ Kind(r, 1) = "number")
           /\ ~(IsWordPart(r, 1) \/ IsWordPart(r, 2))
  <2>1. ASSUME NEW n \in 1 .. Len(r), MatchesWord(r, n) PROVE FALSE
    <3>1. PICK opt \in {0, 1} : opt < n /\ \A i \in opt + 1 .. n : IsWordPart(r, i)
      BY <1>4, <2>1
    <3>2. opt + 1 \in opt + 1 .. n
      BY <3>1
    <3> QED BY <1>9, <3>1, <3>2
  <2> QED BY <1>5, <1>7, <1>9, <2>1
<1>10. CASE /\ ~(IsNewline(r, 1) \/ Kind(r, 1) = "number")
            /\ IsWordPart(r, 1) \/ IsWordPart(r, 2)
  <2>1. Word(r) = 1 + m /\ m \in Nat
    BY <1>0, <1>3, <1>5, <1>10
  <2>2. IsWordPart(r, 2) => m >= 1
    <3>1. CASE IsWordPart(r, 2) /\ m = 0
      BY <1>1, <1>2, <1>3, <3>1
    <3> QED BY <2>1, <3>1
  <2>3. 1 + m \in 1 .. Len(r)
    BY <1>0, <1>2, <1>3, <1>10, <2>1
  <2>4. \A i \in 2 .. 1 + m : IsWordPart(r, i)
    BY <1>1, <1>3, <2>1
  <2>5. MatchesWord(r, 1 + m)
    <3>1. CASE IsWordPart(r, 1)
      <4>1. \A i \in 0 + 1 .. 1 + m : IsWordPart(r, i)
        BY <2>1, <2>4, <3>1
      <4>2. 0 < 1 + m
        BY <2>1
      <4> QED BY <1>4, <2>3, <4>1, <4>2
    <3>2. CASE ~IsWordPart(r, 1)
      <4>1. 1 < 1 + m /\ \A i \in 1 + 1 .. 1 + m : IsWordPart(r, i)
        BY <1>10, <2>1, <2>2, <2>4, <3>2
      <4> QED BY <1>2, <1>4, <1>10, <2>3, <3>2, <4>1
    <3> QED BY <3>1, <3>2
  <2>6. ASSUME NEW n \in M PROVE n <= 1 + m
    <3>1. n \in 1 .. Len(r) /\ MatchesWord(r, n)
      BY <1>6, <2>6
    <3>2. PICK opt \in {0, 1} : opt < n /\ \A i \in opt + 1 .. n : IsWordPart(r, i)
      BY <1>4, <3>1
    <3>3. ASSUME n > 1 + m PROVE FALSE
      <4>1. 2 + m \in opt + 1 .. n
        BY <2>1, <3>1, <3>3
      <4>2. 2 + m \in places
        BY <1>1, <1>2, <3>2, <4>1
      <4> QED BY <1>3, <4>2
    <3> QED BY <2>1, <3>1, <3>3
  <2>7. 1 + m \in M
    BY <1>6, <2>3, <2>5
  <2> QED BY <1>0, <2>1, <2>3, <2>6, <2>7 DEF LongestIn, M
<1> QED BY <1>8, <1>9, <1>10

LEMMA NumberIsLongest ==
  ASSUME NEW S, NEW r \in Seq(S), r # <<>>
  PROVE  /\ Number(r) \in 0 .. Len(r)
         /\ LongestIn(Number(r), {n \in DOMAIN r : MatchesNumber(r, n)})
<1> DEFINE M == {n \in DOMAIN r : MatchesNumber(r, n)}
<1>0. DOMAIN r = 1 .. Len(r) /\ Len(r) \in Nat /\ Len(r) >= 1
  BY LenProperties, EmptySeq
<1>1. \A n : n \in M <=> n = 1 /\ Kind(r, 1) = "number"
  BY <1>0 DEF MatchesNumber
<1> HIDE DEF M
<1>2. CASE Kind(r, 1) = "number"
  BY <1>0, <1>1, <1>2 DEF LongestIn, Number, M
<1>3. CASE Kind(r, 1) # "number"
  <2>1. M = {}
    BY <1>1, <1>3
  <2> QED BY <1>0, <1>3, <2>1 DEF LongestIn, Number, M
<1> QED BY <1>2, <1>3

\* The tails of the contractions: one letter or two.
LEMMA ContractionTail ==
  ASSUME NEW S, NEW r \in Seq(S), NEW n \in 1 .. Len(r)
  PROVE  MatchesContraction(r, n) <=>
           /\ r[1] = 39
           /\ \/ n = 2 /\ Lower(r[2]) \in {115, 116, 109, 100}
              \/ /\ n = 3
                 /\ <<Lower(r[2]), Lower(r[3])>> \in {<<114, 101>>, <<118, 101>>, <<108, 108>>}
<1> DEFINE f == [i \in 1 .. n - 1 |-> Lower(r[i + 1])]
<1>0. n \in Nat /\ n - 1 \in Nat
  BY LenProperties
<1>l. \A x, y, z : <<x>> # <<y, z>>
  <2> SUFFICES ASSUME NEW x, NEW y, NEW z, <<x>> = <<y, z>> PROVE FALSE
    OBVIOUS
  <2>1. Len(<<x>>) = 1 /\ Len(<<y, z>>) = 2
    OBVIOUS
  <2> QED BY <2>1
<1>1. f \in Seq({Lower(r[i + 1]) : i \in 1 .. n - 1}) /\ Len(f) = n - 1
  <2> DEFINE X == {Lower(r[i + 1]) : i \in 1 .. n - 1}
  <2>1. f \in [1 .. n - 1 -> X]
    OBVIOUS
  <2> HIDE DEF f, X
  <2>2. f \in Seq(X) /\ Len(f) = n - 1
    BY <1>0, <2>1, FunctionIsSeq
  <2> QED BY <2>2 DEF X
<1>2. CASE n = 2
  <2>1. f = <<Lower(r[2])>>
    BY <1>2
  <2>2. f \in ContractionTails <=> Lower(r[2]) \in {115, 116, 109, 100}
    <3> DEFINE x == Lower(r[2])
    <3>1. f = <<x>>
      BY <2>1
    <3>2. f \in ContractionTails <=> <<x>> \in {<<115>>, <<116>>, <<109>>, <<100>>}
      <4> HIDE DEF f, x
      <4> QED BY <1>l, <3>1 DEF ContractionTails
    <3>3. <<x>> \in {<<115>>, <<116>>, <<109>>, <<100>>} <=> x \in {115, 116, 109, 100}
      <4> HIDE DEF x
      <4> QED OBVIOUS
    <3> QED BY <3>2, <3>3
  <2> QED BY <1>2, <2>2 DEF MatchesContraction
<1>3. CASE n = 3
  <2>1. f = <<Lower(r[2]), Lower(r[3])>>
    BY <1>3
  <2>2. f \in ContractionTails <=>
          <<Lower(r[2]), Lower(r[3])>> \in {<<114, 101>>, <<118, 101>>, <<108, 108>>}
    <3> DEFINE x == Lower(r[2])
               y == Lower(r[3])
    <3>1. f = <<x, y>>
      BY <2>1
    <3>2. f \in ContractionTails <=> <<x, y>> \in {<<114, 101>>, <<118, 101>>, <<108, 108>>}
      <4> HIDE DEF f, x, y
      <4> QED BY <1>l, <3>1 DEF ContractionTails
    <3> QED BY <3>2
  <2> QED BY <1>3, <2>2 DEF MatchesContraction
<1>4. CASE n # 2 /\ n # 3
  <2>1. \A t \in ContractionTails : Len(t) = 1 \/ Len(t) = 2
    BY DEF ContractionTails
  <2>2. f \notin ContractionTails
    <3> SUFFICES ASSUME f \in ContractionTails PROVE FALSE
      OBVIOUS
    <3> HIDE DEF f
    <3>1. Len(f) = 1 \/ Len(f) = 2
      BY <2>1
    <3> QED BY <1>0, <1>1, <1>4, <3>1
  <2> QED BY <1>4, <2>2 DEF MatchesContraction
<1> QED BY <1>2, <1>3, <1>4

LEMMA ContractionIsLongest ==
  ASSUME NEW S, NEW r \in Seq(S), r # <<>>
  PROVE  /\ Contraction(r) \in 0 .. Len(r)
         /\ LongestIn(Contraction(r), {n \in DOMAIN r : MatchesContraction(r, n)})
<1> DEFINE M == {n \in DOMAIN r : MatchesContraction(r, n)}
           One == Lower(r[2]) \in {115, 116, 109, 100}
           Two == <<Lower(r[2]), Lower(r[3])>> \in {<<114, 101>>, <<118, 101>>, <<108, 108>>}
<1>0. DOMAIN r = 1 .. Len(r) /\ Len(r) \in Nat /\ Len(r) >= 1
  BY LenProperties, EmptySeq
<1>1. ASSUME NEW n
      PROVE  n \in M <=> /\ n \in 1 .. Len(r) /\ r[1] = 39
                         /\ (n = 2 /\ One) \/ (n = 3 /\ Two)
  <2>1. n \in 1 .. Len(r) => (MatchesContraction(r, n) <=>
           r[1] = 39 /\ ((n = 2 /\ One) \/ (n = 3 /\ Two)))
    BY ContractionTail
  <2> HIDE DEF One, Two
  <2> QED BY <1>0, <2>1
<1>2. One => ~Two
  OBVIOUS
<1>3. Contraction(r) = IF r[1] # 39 \/ Len(r) < 2 THEN 0
                       ELSE IF One THEN 2 ELSE IF Len(r) > 2 /\ Two THEN 3 ELSE 0
  BY DEF Contraction
<1> HIDE DEF M, One, Two
<1>4. CASE r[1] = 39 /\ Len(r) >= 2 /\ One
  <2>1. Contraction(r) = 2 /\ 2 \in M /\ \A n \in M : n = 2
    BY <1>0, <1>1, <1>2, <1>3, <1>4
  <2> QED BY <1>0, <1>4, <2>1 DEF LongestIn, M
<1>5. CASE r[1] = 39 /\ Len(r) >= 2 /\ ~One /\ Len(r) > 2 /\ Two
  <2>1. Contraction(r) = 3 /\ 3 \in M /\ \A n \in M : n = 3
    BY <1>0, <1>1, <1>3, <1>5
  <2> QED BY <1>0, <1>5, <2>1 DEF LongestIn, M
<1>6. CASE ~(r[1] = 39 /\ Len(r) >= 2 /\ (One \/ (Len(r) > 2 /\ Two)))
  <2>1. Contraction(r) = 0
    BY <1>0, <1>3, <1>6
  <2>2. M = {}
    BY <1>0, <1>1, <1>6
  <2> QED BY <1>0, <2>1, <2>2 DEF LongestIn, M
<1> QED BY <1>4, <1>5, <1>6

LEMMA SymbolsIsLongest ==
  ASSUME NEW S, NEW r \in Seq(S), r # <<>>
  PROVE  /\ Symbols(r) \in 0 .. Len(r)
         /\ (\A i \in 1 .. Len(r) : IsDefined(r[i]))
              => LongestIn(Symbols(r), {n \in DOMAIN r : MatchesSymbols(r, n)})
<1> DEFINE first == IF r[1] = 32 THEN 2 ELSE 1
           symbols == OfKind(r, {"symbol"})
           newlines == {i \in DOMAIN r : IsNewline(r, i)}
           count == Span(r, first, symbols)
           after == first + count
           breaks == Span(r, after, newlines)
           M == {n \in DOMAIN r : MatchesSymbols(r, n)}
           Sym(i) == Kind(r, i) = "symbol"
<1>0. DOMAIN r = 1 .. Len(r) /\ Len(r) \in Nat /\ Len(r) >= 1
  BY LenProperties, EmptySeq
<1>1. \A i : /\ i \in symbols <=> i \in 1 .. Len(r) /\ Sym(i)
             /\ i \in newlines <=> IsNewline(r, i)
             /\ Sym(i) => i \in 1 .. Len(r) /\ ~IsNewline(r, i)
             /\ (i \in 1 .. Len(r) /\ r[i] = 32) => Kind(r, i) = "whitespace"
  BY <1>0, KindFacts
<1>2. first \in {1, 2} /\ (first = 2 <=> r[1] = 32)
  OBVIOUS
<1>3. Symbols(r) = IF ~Sym(first) THEN 0 ELSE after - 1 + breaks
  BY DEF Symbols
<1> HIDE DEF first
<1>4. count \in 0 .. Len(r) - first + 1 /\ first + count \notin symbols
      /\ \A i \in first .. first + count - 1 : i \in symbols
  <2>1. symbols \in SUBSET (1 .. Len(r)) /\ first \in 1 .. Len(r) + 1
    BY <1>0, <1>1, <1>2
  <2> HIDE DEF symbols
  <2> QED BY <2>1, SpanFacts
<1>5. after \in 1 .. Len(r) + 1 /\ count \in Nat
  BY <1>0, <1>2, <1>4
<1> HIDE DEF count
<1>6. /\ breaks \in 0 .. Len(r) - after + 1 /\ after + breaks \notin newlines
      /\ \A i \in after .. after + breaks - 1 : i \in newlines
  <2>1. newlines \in SUBSET (1 .. Len(r))
    BY <1>0
  <2> HIDE DEF newlines, after
  <2> QED BY <1>5, <2>1, SpanFacts
<1>t. Symbols(r) \in 0 .. Len(r)
  <2>1. CASE ~Sym(first)
    BY <1>0, <1>3, <2>1
  <2>2. CASE Sym(first)
    <3>1. first \in symbols
      BY <1>1, <2>2
    <3>2. count = 0 => first + count = first
      BY <1>2
    <3>3. count >= 1 /\ after >= 1 + count /\ after \in Nat /\ breaks \in Nat
      BY <1>0, <1>2, <1>4, <1>5, <1>6, <3>1, <3>2
    <3> HIDE DEF after, breaks
    <3> QED BY <1>0, <1>3, <1>5, <1>6, <2>2, <3>3
  <2> QED BY <2>1, <2>2
<1> SUFFICES ASSUME \A i \in 1 .. Len(r) : IsDefined(r[i])
             PROVE  LongestIn(Symbols(r), M)
  BY <1>t
<1>d. \A i \in 1 .. Len(r) :
        Kind(r, i) \notin {"whitespace", "letter", "mark", "number"} <=> Sym(i)
  BY <1>0, KindFacts
<1>7. ASSUME NEW n \in 1 .. Len(r)
      PROVE  MatchesSymbols(r, n) <=>
        \E opt \in {0, 1} : \E end \in opt + 1 .. n :
          /\ opt = 1 => r[1] = 32
          /\ \A i \in opt + 1 .. end : Sym(i)
          /\ \A i \in end + 1 .. n : IsNewline(r, i)
  <2>1. ASSUME NEW opt \in {0, 1}, NEW end \in opt + 1 .. n, NEW i \in opt + 1 .. end
        PROVE  Kind(r, i) \notin {"whitespace", "letter", "mark", "number"} <=> Sym(i)
    <3>1. i \in 1 .. Len(r)
      BY <1>0
    <3> QED BY <1>d, <3>1
  <2> HIDE DEF Sym
  <2> QED BY <2>1 DEF MatchesSymbols
<1>8. \A n : n \in M <=> n \in 1 .. Len(r) /\ MatchesSymbols(r, n)
  BY <1>0
<1> HIDE DEF M, breaks, newlines, symbols
\* Whatever is skipped, it is what the code skips.
<1>9. ASSUME NEW n \in 1 .. Len(r), NEW opt \in {0, 1}, opt + 1 <= n,
             opt = 1 => r[1] = 32, Sym(opt + 1)
      PROVE  first = opt + 1
  <2>1. CASE opt = 1
    BY <1>2, <1>9, <2>1
  <2>2. CASE opt = 0
    <3>1. r[1] # 32
      BY <1>0, <1>1, <1>9, <2>2
    <3> QED BY <1>2, <2>2, <3>1
  <2> QED BY <2>1, <2>2
<1>10. ASSUME NEW n \in M
       PROVE  \E end \in first .. n : /\ \A i \in first .. end : Sym(i)
                                      /\ \A i \in end + 1 .. n : IsNewline(r, i)
  <2>1. n \in 1 .. Len(r) /\ MatchesSymbols(r, n)
    BY <1>8
  <2>2. PICK opt \in {0, 1} : \E end \in opt + 1 .. n :
          /\ opt = 1 => r[1] = 32
          /\ \A i \in opt + 1 .. end : Sym(i)
          /\ \A i \in end + 1 .. n : IsNewline(r, i)
    BY <1>7, <2>1
  <2>3. PICK end \in opt + 1 .. n :
          /\ opt = 1 => r[1] = 32
          /\ \A i \in opt + 1 .. end : Sym(i)
          /\ \A i \in end + 1 .. n : IsNewline(r, i)
    BY <2>2
  <2>4. opt + 1 \in opt + 1 .. end /\ opt + 1 <= n
    BY <2>1, <2>3
  <2>5. Sym(opt + 1)
    BY <2>3, <2>4
  <2>6. first = opt + 1
    BY <1>9, <2>1, <2>3, <2>4, <2>5
  <2> QED BY <2>3, <2>6
<1>11. CASE ~Sym(first)
  <2>1. ASSUME NEW n \in M PROVE FALSE
    <3>1. PICK end \in first .. n : \A i \in first .. end : Sym(i)
      BY <1>10, <2>1
    <3>2. first \in first .. end
      BY <1>2, <1>8, <2>1
    <3> QED BY <1>11, <3>1, <3>2
  <2>2. M = {}
    BY <2>1
  <2>3. Symbols(r) = 0
    BY <1>3, <1>11
  <2> QED BY <1>0, <2>2, <2>3 DEF LongestIn, M
<1>12. CASE Sym(first)
  <2> DEFINE m == after - 1 + breaks
  <2>1. Symbols(r) = m
    BY <1>3, <1>12
  <2>2. count >= 1
    <3>1. first \in symbols
      BY <1>1, <1>12
    <3>2. count = 0 => first + count = first
      BY <1>2
    <3> QED BY <1>4, <1>5, <3>1, <3>2
  <2>3. /\ m \in 1 .. Len(r) /\ after - 1 \in first .. m /\ breaks \in Nat
        /\ after \in Nat /\ (after - 1) + 1 = after /\ first \in Nat
    BY <1>0, <1>2, <1>5, <1>6, <2>2
  <2>4. ASSUME NEW i \in first .. after - 1 PROVE Sym(i)
    <3>1. i \in first .. first + count - 1
      BY <1>2, <1>5
    <3>2. i \in symbols
      BY <1>4, <3>1
    <3> QED BY <1>1, <3>2
  <2>5. \A i \in after .. m : IsNewline(r, i)
    <3>1. after + breaks - 1 = m
      BY <2>3
    <3> QED BY <1>1, <1>6, <3>1
  <2>n. after \notin symbols /\ m + 1 \notin newlines /\ m >= after - 1
    <3>1. m + 1 = after + breaks
      BY <2>3
    <3> QED BY <1>4, <1>6, <2>3, <3>1
  <2> HIDE DEF m, after
  <2>6. MatchesSymbols(r, m)
    <3> DEFINE opt == first - 1
    <3>1. opt \in {0, 1} /\ opt + 1 = first /\ (opt = 1 => r[1] = 32)
      BY <1>2
    <3> HIDE DEF opt
    <3>2. after - 1 \in opt + 1 .. m
      BY <2>3, <3>1
    <3>3. \A i \in opt + 1 .. after - 1 : Sym(i)
      BY <2>4, <3>1
    <3>4. \A i \in (after - 1) + 1 .. m : IsNewline(r, i)
      BY <2>3, <2>5
    <3> QED BY <1>7, <2>3, <3>1, <3>2, <3>3, <3>4
  <2>7. ASSUME NEW n \in M PROVE n <= m
    <3>0. n \in 1 .. Len(r)
      BY <1>8
    <3>1. PICK end \in first .. n : /\ \A i \in first .. end : Sym(i)
                                    /\ \A i \in end + 1 .. n : IsNewline(r, i)
      BY <1>10
    <3>2. end <= after - 1
      <4>1. ASSUME end >= after PROVE FALSE
        <5>1. after \in first .. end
          BY <2>3, <3>0, <3>1, <4>1
        <5>2. Sym(after)
          BY <3>1, <5>1
        <5> QED BY <1>1, <2>n, <5>2
      <4> QED BY <2>3, <3>0, <3>1, <4>1
    <3>3. CASE end < after - 1
      <4>1. ASSUME end + 1 <= n PROVE FALSE
        <5>1. end + 1 \in first .. after - 1 /\ end + 1 \in end + 1 .. n
          BY <2>3, <3>0, <3>1, <3>3, <4>1
        <5>2. Sym(end + 1) /\ IsNewline(r, end + 1)
          BY <2>4, <3>1, <5>1
        <5> QED BY <1>1, <5>2
      <4> QED BY <2>3, <2>n, <3>0, <3>1, <3>3, <4>1
    <3>4. CASE end = after - 1
      <4>1. ASSUME n > m PROVE FALSE
        <5>1. m + 1 \in end + 1 .. n
          BY <2>3, <2>n, <3>0, <3>1, <3>4, <4>1
        <5>2. IsNewline(r, m + 1)
          BY <3>1, <5>1
        <5> QED BY <1>1, <2>n, <5>2
      <4> QED BY <2>3, <3>0, <4>1
    <3> QED BY <2>3, <3>0, <3>1, <3>2, <3>3, <3>4
  <2>8. m \in M
    BY <1>8, <2>3, <2>6
  <2> QED BY <1>0, <2>1, <2>3, <2>7, <2>8 DEF LongestIn, M
<1> QED BY <1>11, <1>12

LEMMA SpacesFacts ==
  ASSUME NEW S, NEW r \in Seq(S), r # <<>>
  PROVE  /\ SpaceRun(r) \in 0 .. Len(r)
         /\ \A n \in 1 .. Len(r) : Spaces(r, n) <=> n <= SpaceRun(r)
         /\ \A i \in 1 .. Len(r) : i <= SpaceRun(r) => Kind(r, i) = "whitespace"
         /\ Kind(r, SpaceRun(r) + 1) # "whitespace"
<1> DEFINE places == OfKind(r, {"whitespace"})
           m == SpaceRun(r)
<1>0. Len(r) \in Nat /\ Len(r) >= 1
  BY LenProperties, EmptySeq
<1>1. \A i : /\ i \in places <=> i \in 1 .. Len(r) /\ Kind(r, i) = "whitespace"
             /\ i \notin 1 .. Len(r) => Kind(r, i) # "whitespace"
  BY KindFacts
<1>2. m = Span(r, 1, places)
  BY DEF SpaceRun
<1> HIDE DEF places, m
<1>3. m \in 0 .. Len(r) - 1 + 1 /\ 1 + m \notin places /\ \A i \in 1 .. 1 + m - 1 : i \in places
  <2>1. places \in SUBSET (1 .. Len(r)) /\ 1 \in 1 .. Len(r) + 1
    BY <1>0, <1>1
  <2> QED BY <1>2, <2>1, SpanFacts
<1>4. m \in 0 .. Len(r) /\ m + 1 = 1 + m /\ 1 + m - 1 = m
  BY <1>0, <1>3
<1>5. \A i \in 1 .. Len(r) : i <= m => Kind(r, i) = "whitespace"
  BY <1>0, <1>1, <1>3, <1>4
<1>6. Kind(r, m + 1) # "whitespace"
  BY <1>1, <1>3, <1>4
<1>7. ASSUME NEW n \in 1 .. Len(r) PROVE Spaces(r, n) <=> n <= m
  <2>1. CASE n <= m
    <3>1. \A i \in 1 .. n : i \in 1 .. Len(r) /\ i <= m
      BY <1>0, <1>4, <2>1
    <3> QED BY <1>5, <2>1, <3>1 DEF Spaces
  <2>2. CASE ~(n <= m)
    <3>1. m + 1 \in 1 .. n
      BY <1>0, <1>4, <2>2
    <3> QED BY <1>6, <2>2, <3>1 DEF Spaces
  <2> QED BY <2>1, <2>2
<1> QED BY <1>4, <1>5, <1>6, <1>7 DEF m

LEMMA LineBreaksIsLongest ==
  ASSUME NEW S, NEW r \in Seq(S), r # <<>>
  PROVE  /\ LineBreaks(r) \in 0 .. Len(r)
         /\ LongestIn(LineBreaks(r), {n \in DOMAIN r : MatchesLineBreaks(r, n)})
<1> DEFINE M == {n \in DOMAIN r : MatchesLineBreaks(r, n)}
           B == {0} \cup {i \in 1 .. SpaceRun(r) : IsNewline(r, i)}
           m == LineBreaks(r)
<1>0. DOMAIN r = 1 .. Len(r) /\ Len(r) \in Nat /\ Len(r) >= 1
  BY LenProperties, EmptySeq
<1>1. /\ SpaceRun(r) \in 0 .. Len(r)
      /\ \A n \in 1 .. Len(r) : Spaces(r, n) <=> n <= SpaceRun(r)
  BY SpacesFacts
<1>2. \A n : n \in M <=> n \in 1 .. SpaceRun(r) /\ IsNewline(r, n)
  BY <1>0, <1>1 DEF MatchesLineBreaks
<1>3. B \in SUBSET Int /\ 0 \in B /\ \A x \in B : x <= Len(r) /\ x >= 0
  BY <1>0, <1>1
<1>4. m = Max(B)
  BY DEF LineBreaks
<1>5. \A n : n \in B <=> n = 0 \/ n \in M
  BY <1>2
<1> HIDE DEF M, B, m
<1>6. m \in B /\ \A x \in B : x <= m
  <2>1. B # {} /\ Len(r) \in Int /\ \A x \in B : x <= Len(r)
    BY <1>0, <1>3
  <2> QED BY <1>3, <1>4, <2>1, MaxFacts
<1>7. m \in 0 .. Len(r)
  BY <1>0, <1>3, <1>6
<1>8. CASE M = {}
  <2>1. m = 0
    BY <1>5, <1>6, <1>8
  <2> QED BY <1>7, <1>8, <2>1 DEF LongestIn, M, m
<1>9. CASE M # {}
  <2>1. PICK n \in M : TRUE
    BY <1>9
  <2>2. n >= 1 /\ n <= m /\ n \in Int
    BY <1>1, <1>2, <1>5, <1>6, <2>1
  <2>3. m # 0
    BY <2>2
  <2>4. m \in M
    BY <1>5, <1>6, <2>3
  <2> QED BY <1>5, <1>6, <1>7, <1>9, <2>4 DEF LongestIn, M, m
<1> QED BY <1>8, <1>9

\* A branch takes part of what is left.
LEMMA BranchTypes ==
  ASSUME NEW S, NEW r \in Seq(S), r # <<>>, NEW b \in 1 .. 8
  PROVE  Branches(r)[b] \in 0 .. Len(r)
<1>0. Len(r) \in Nat /\ Len(r) >= 1
  BY LenProperties, EmptySeq
<1>1. /\ Contraction(r) \in 0 .. Len(r) /\ Word(r) \in 0 .. Len(r) /\ Number(r) \in 0 .. Len(r)
      /\ Symbols(r) \in 0 .. Len(r) /\ LineBreaks(r) \in 0 .. Len(r)
      /\ SpaceRun(r) \in 0 .. Len(r)
  BY ContractionIsLongest, WordIsLongest, NumberIsLongest, SymbolsIsLongest,
     LineBreaksIsLongest, SpacesFacts
<1>2. AllButOneSpace(r) \in 0 .. Len(r)
  BY <1>0, <1>1 DEF AllButOneSpace
<1>3. 1 \in 0 .. Len(r)
  BY <1>0
<1> DEFINE T == 0 .. Len(r)
<1>4. /\ Contraction(r) \in T /\ Word(r) \in T /\ Number(r) \in T /\ Symbols(r) \in T
      /\ LineBreaks(r) \in T /\ AllButOneSpace(r) \in T /\ SpaceRun(r) \in T /\ 1 \in T
  BY <1>1, <1>2, <1>3
<1> HIDE DEF T
<1>5. Branches(r)[b] \in T
  BY <1>4 DEF Branches
<1> QED BY <1>5 DEF T

\* The first branch that applies takes what the first alternative that
\* matches takes.
LEMMA BranchIsMatch ==
  ASSUME NEW S, NEW r \in Seq(S), r # <<>>, \A i \in 1 .. Len(r) : IsDefined(r[i]),
         NEW b \in 1 .. 8, Branches(r)[b] > 0, \A a \in 1 .. b - 1 : Branches(r)[a] = 0
  PROVE  Branches(r)[b] = MatchLength(r)
<1> DEFINE M(k) == Matches(r)[k]
           B(k) == Branches(r)[k]
           m == SpaceRun(r)
           matching == {k \in 1 .. 7 : M(k) # {}}
<1>0. DOMAIN r = 1 .. Len(r) /\ Len(r) \in Nat /\ Len(r) >= 1
  BY LenProperties, EmptySeq
<1>1. \A k \in 1 .. 8 : B(k) \in 0 .. Len(r)
  BY BranchTypes
<1>2. \A k \in 1 .. 7 : M(k) \in SUBSET (1 .. Len(r))
  BY <1>0 DEF Matches
<1>3. DOMAIN Matches(r) = 1 .. 7
  BY DEF Matches
<1>4. MatchLength(r) = IF matching = {} THEN 1 ELSE Max(M(Min(matching)))
  BY <1>3 DEF MatchLength
<1>5. /\ B(1) = Contraction(r) /\ B(2) = Word(r) /\ B(3) = Number(r) /\ B(4) = Symbols(r)
      /\ B(5) = LineBreaks(r) /\ B(6) = AllButOneSpace(r) /\ B(7) = m /\ B(8) = 1
  BY DEF Branches
<1>6. /\ M(1) = {n \in DOMAIN r : MatchesContraction(r, n)}
      /\ M(2) = {n \in DOMAIN r : MatchesWord(r, n)}
      /\ M(3) = {n \in DOMAIN r : MatchesNumber(r, n)}
      /\ M(4) = {n \in DOMAIN r : MatchesSymbols(r, n)}
      /\ M(5) = {n \in DOMAIN r : MatchesLineBreaks(r, n)}
      /\ M(6) = {n \in DOMAIN r : MatchesTrailing(r, n)}
      /\ M(7) = {n \in DOMAIN r : Spaces(r, n)}
  BY DEF Matches
<1>7. /\ m \in 0 .. Len(r)
      /\ \A n \in 1 .. Len(r) : Spaces(r, n) <=> n <= m
      /\ \A i \in 1 .. Len(r) : i <= m => Kind(r, i) = "whitespace"
      /\ Kind(r, m + 1) # "whitespace"
  BY SpacesFacts
<1>8. /\ LongestIn(B(1), M(1)) /\ LongestIn(B(2), M(2)) /\ LongestIn(B(3), M(3))
      /\ LongestIn(B(4), M(4)) /\ LongestIn(B(5), M(5))
  BY <1>5, <1>6, ContractionIsLongest, WordIsLongest, NumberIsLongest, SymbolsIsLongest,
     LineBreaksIsLongest
<1>9. \A n : n \in M(7) <=> n \in 1 .. m
  BY <1>0, <1>6, <1>7
<1>10. ASSUME NEW n
       PROVE  n \in M(6) <=> n \in 1 .. m /\ (n < m \/ m = Len(r))
  <2>1. n \in M(6) <=> /\ n \in 1 .. Len(r) /\ n <= m
                       /\ n = Len(r) \/ Kind(r, n + 1) = "whitespace"
    BY <1>0, <1>6, <1>7 DEF MatchesTrailing
  <2>2. ASSUME n \in 1 .. m PROVE n \in 1 .. Len(r) /\ n <= m
    BY <1>0, <1>7, <2>2
  <2>3. CASE n \in 1 .. m /\ n < m
    <3>1. n + 1 \in 1 .. Len(r) /\ n + 1 <= m
      BY <1>0, <1>7, <2>3
    <3> QED BY <1>7, <2>1, <2>2, <2>3, <3>1
  <2>4. CASE n = m /\ n \in 1 .. m
    <3>1. Kind(r, n + 1) # "whitespace"
      BY <1>7, <2>4
    <3> QED BY <1>7, <2>1, <2>2, <2>4, <3>1
  <2>5. CASE n \notin 1 .. m
    <3>1. ~(n \in 1 .. Len(r) /\ n <= m)
      BY <1>0, <1>7, <2>5
    <3> QED BY <2>1, <2>5, <3>1
  <2>6. n \in 1 .. m => n < m \/ n = m
    BY <1>7
  <2> QED BY <2>3, <2>4, <2>5, <2>6
<1> HIDE DEF M, B, m, matching
\* The branches before the last three are the alternatives.
<1>11. ASSUME NEW k \in 1 .. 7, M(k) # {}, \A a \in 1 .. k - 1 : M(a) = {},
              NEW n \in M(k), \A x \in M(k) : x <= n
       PROVE  MatchLength(r) = n
  <2>1. k \in matching /\ matching \in SUBSET Int
    BY <1>11 DEF matching
  <2>2. ASSUME NEW x \in matching PROVE k <= x
    <3>1. x \in 1 .. 7 /\ M(x) # {}
      BY DEF matching
    <3>2. CASE x < k
      <4>1. x \in 1 .. k - 1
        BY <3>1, <3>2
      <4> QED BY <1>11, <3>1, <4>1
    <3> QED BY <3>1, <3>2
  <2>3. Min(matching) = k
    BY <2>1, <2>2, MinIs
  <2>4. Max(M(k)) = n
    <3>1. M(k) \in SUBSET Int
      BY <1>2 DEF M
    <3> QED BY <1>11, <3>1, MaxIs
  <2> QED BY <1>4, <2>1, <2>3, <2>4
<1>12. \A a \in 1 .. 5 : B(a) = 0 <=> M(a) = {}
  <2>1. ASSUME NEW a \in 1 .. 5 PROVE B(a) = 0 <=> M(a) = {}
    <3>1. LongestIn(B(a), M(a)) /\ M(a) \in SUBSET (1 .. Len(r))
      BY <1>2, <1>8 DEF M
    <3> QED BY <3>1 DEF LongestIn
  <2> QED BY <2>1
<1>13. \A a \in 1 .. b - 1 : B(a) = 0
  BY DEF B
<1>14. B(b) > 0
  BY DEF B
<1>15. CASE b \in 1 .. 5
  <2>1. LongestIn(B(b), M(b)) /\ M(b) # {}
    BY <1>8, <1>12, <1>14, <1>15
  <2>2. B(b) \in M(b) /\ \A x \in M(b) : x <= B(b)
    BY <2>1 DEF LongestIn
  <2>3. \A a \in 1 .. b - 1 : M(a) = {}
    BY <1>12, <1>13, <1>15
  <2>4. b \in 1 .. 7
    BY <1>15
  <2>5. MatchLength(r) = B(b)
    BY <1>11, <2>1, <2>2, <2>3, <2>4
  <2> QED BY <2>5 DEF B
<1>16. CASE b \in {6, 7, 8}
  <2>1. \A a \in 1 .. 5 : M(a) = {}
    BY <1>12, <1>13, <1>16
  <2>2. AllButOneSpace(r) = IF m > 1 /\ m < Len(r) THEN m - 1 ELSE 0
    BY DEF AllButOneSpace, m
  <2>3. CASE b = 6
    <3>1. m > 1 /\ m < Len(r) /\ B(6) = m - 1
      BY <1>5, <1>14, <2>2, <2>3 DEF B
    <3>2. m - 1 \in M(6) /\ \A x \in M(6) : x <= m - 1
      BY <1>7, <1>10, <3>1
    <3>3. \A a \in 1 .. 6 - 1 : M(a) = {}
      BY <2>1
    <3>4. MatchLength(r) = m - 1
      BY <1>11, <3>2, <3>3
    <3> QED BY <2>3, <3>1, <3>4 DEF B
  <2>4. CASE b = 7
    <3>1. m > 0 /\ B(7) = m /\ m \in Int
      BY <1>5, <1>7, <1>14, <2>4 DEF B
    <3>2. ~(m > 1 /\ m < Len(r))
      <4>1. B(6) = 0
        BY <1>13, <2>4
      <4> QED BY <1>5, <2>2, <3>1, <4>1 DEF B
    <3>3. CASE m = Len(r)
      <4>1. m \in M(6) /\ \A x \in M(6) : x <= m
        BY <1>7, <1>10, <3>1, <3>3
      <4>2. \A a \in 1 .. 6 - 1 : M(a) = {}
        BY <2>1
      <4>3. MatchLength(r) = m
        BY <1>11, <4>1, <4>2
      <4> QED BY <2>4, <3>1, <4>3 DEF B
    <3>4. CASE m # Len(r)
      <4>0. m \in Int /\ Len(r) \in Int /\ m <= Len(r)
        BY <1>0, <1>7
      <4>1. m = 1
        <5>1. m < Len(r)
          BY <3>4, <4>0
        <5>2. ~(m > 1)
          BY <3>2, <5>1
        <5> QED BY <3>1, <4>0, <5>2
      <4>2. M(6) = {}
        BY <1>10, <3>4, <4>1
      <4>3. \A a \in 1 .. 7 - 1 : M(a) = {}
        BY <2>1, <4>2
      <4>4. m \in M(7) /\ \A x \in M(7) : x <= m
        BY <1>9, <3>1
      <4>5. MatchLength(r) = m
        BY <1>11, <4>3, <4>4
      <4> QED BY <2>4, <3>1, <4>5 DEF B
    <3> QED BY <3>3, <3>4
  <2>5. CASE b = 8
    <3>1. m = 0
      BY <1>5, <1>13, <2>5 DEF B
    <3>2. M(6) = {} /\ M(7) = {}
      BY <1>9, <1>10, <3>1
    <3>3. matching = {}
      BY <2>1, <3>2 DEF matching
    <3> QED BY <1>4, <1>5, <2>5, <3>3 DEF B
  <2> QED BY <1>16, <2>3, <2>4, <2>5
<1>17. b \in 1 .. 5 \/ b \in {6, 7, 8}
  OBVIOUS
<1> QED BY <1>15, <1>16, <1>17

-----------------------------------------------------------------------------
\* The words of a text.

LEMMA MatchLengthBounds ==
  ASSUME NEW S, NEW r \in Seq(S), r # <<>>
  PROVE  MatchLength(r) \in 1 .. Len(r)
<1> DEFINE M(k) == Matches(r)[k]
           matching == {k \in 1 .. 7 : M(k) # {}}
<1>1. DOMAIN r = 1 .. Len(r) /\ Len(r) \in Nat /\ Len(r) >= 1
  BY LenProperties, EmptySeq
<1>2. \A k \in 1 .. 7 : M(k) \in SUBSET (1 .. Len(r))
  BY <1>1 DEF Matches
<1>3. DOMAIN Matches(r) = 1 .. 7
  BY DEF Matches
<1>4. MatchLength(r) = IF matching = {} THEN 1 ELSE Max(M(Min(matching)))
  BY <1>3 DEF MatchLength
<1> HIDE DEF M
<1>5. CASE matching = {}
  BY <1>1, <1>4, <1>5
<1>6. CASE matching # {}
  <2>1. matching \in SUBSET Nat
    OBVIOUS
  <2>2. Min(matching) \in matching
    <3> HIDE DEF matching
    <3> QED BY <1>6, <2>1, MinFacts
  <2> DEFINE k == Min(matching)
  <2>3. k \in 1 .. 7 /\ M(k) # {}
    BY <2>2
  <2> HIDE DEF k
  <2>4. M(k) \in SUBSET (1 .. Len(r)) /\ M(k) \in SUBSET Int
    BY <1>1, <1>2, <2>3
  <2>5. Max(M(k)) \in M(k)
    <3> DEFINE X == M(k)
               c == Len(r)
    <3>1. X \in SUBSET Int /\ X # {} /\ c \in Int /\ \A x \in X : x <= c
      BY <1>1, <2>3, <2>4
    <3> HIDE DEF X, c, matching
    <3>2. Max(X) \in X
      BY <3>1, MaxFacts
    <3> QED BY <3>2 DEF X
  <2> QED BY <1>4, <1>6, <2>4, <2>5 DEF k
<1> QED BY <1>5, <1>6

\* The words from place i on are the word at i and the words behind it.
LEMMA WordsIs ==
  ASSUME NEW S, NEW r \in Seq(S), NEW P, \A t \in Seq(S) : codepoints_to_utf8(t) \in P
  PROVE  /\ \A i \in 1 .. Len(r) + 1 : Words(r)[i] \in Seq(P)
         /\ Words(r)[Len(r) + 1] = <<>>
         /\ \A i \in 1 .. Len(r) :
              LET n == MatchLength(From(r, i))
              IN  /\ n \in 1 .. Len(r) - i + 1
                  /\ Words(r)[i] = <<codepoints_to_utf8(SubSeq(From(r, i), 1, n))>>
                                     \o Words(r)[i + n]
<1> DEFINE n(i) == MatchLength(From(r, i))
           item == [i \in DOMAIN r |-> <<codepoints_to_utf8(SubSeq(r, i, i + n(i) - 1))>>]
           next == [i \in DOMAIN r |-> i + n(i)]
           Q == Seq(P)
<1>1. DOMAIN r = 1 .. Len(r) /\ Len(r) \in Nat
  BY LenProperties
<1>2. ASSUME NEW i \in 1 .. Len(r)
      PROVE  n(i) \in 1 .. Len(r) - i + 1
  <2>1. i \in 1 .. Len(r) + 1 /\ i # Len(r) + 1
    BY <1>1
  <2>2. From(r, i) \in Seq(S) /\ Len(From(r, i)) = Len(r) - i + 1 /\ From(r, i) # <<>>
    BY <2>1, FromFacts, FromEmpty
  <2> QED BY <2>2, MatchLengthBounds
<1>3. ASSUME NEW i \in 1 .. Len(r)
      PROVE  SubSeq(r, i, i + n(i) - 1) = SubSeq(From(r, i), 1, n(i))
                /\ SubSeq(r, i, i + n(i) - 1) \in Seq(S)
  <2> HIDE DEF n
  <2> DEFINE a == SubSeq(r, i, i + n(i) - 1)
             b == SubSeq(From(r, i), 1, n(i))
  <2>1. n(i) \in 1 .. Len(r) - i + 1 /\ n(i) \in Int /\ i \in Int
    BY <1>1, <1>2
  <2>2. i \in 1 .. Len(r) + 1
    BY <1>1
  <2>3. /\ From(r, i) \in Seq(S) /\ Len(From(r, i)) = Len(r) - i + 1
        /\ \A j \in 1 .. Len(r) - i + 1 : From(r, i)[j] = r[i + j - 1]
    BY <2>2, FromFacts
  <2>4. /\ \A j \in i .. i + n(i) - 1 : r[j] \in S
        /\ \A j \in 1 .. n(i) : From(r, i)[j] \in S
    <3>1. \A j \in 1 .. Len(r) : r[j] \in S
      BY ElementOfSeq
    <3>2. \A j \in 1 .. Len(r) - i + 1 : From(r, i)[j] \in S
      BY <2>3, ElementOfSeq
    <3> QED BY <1>1, <2>1, <3>1, <3>2
  <2>5. /\ a \in Seq(S) /\ Len(a) = n(i)
        /\ \A j \in 1 .. n(i) : a[j] = r[i + j - 1]
    <3>1. i + n(i) - 1 \in Int /\ i <= i + n(i) - 1 /\ i + n(i) - 1 - i + 1 = n(i)
      BY <2>1
    <3>2. /\ a \in Seq(S)
          /\ Len(a) = IF i <= i + n(i) - 1 THEN i + n(i) - 1 - i + 1 ELSE 0
          /\ \A j \in 1 .. i + n(i) - 1 - i + 1 : a[j] = r[i + j - 1]
      BY <2>1, <2>4, <3>1, SubSeqProperties
    <3> HIDE DEF a
    <3> QED BY <3>1, <3>2
  <2>6. /\ b \in Seq(S) /\ Len(b) = n(i)
        /\ \A j \in 1 .. n(i) : b[j] = From(r, i)[j]
    <3>1. 1 <= n(i) /\ n(i) - 1 + 1 = n(i)
      BY <2>1
    <3>2. /\ b \in Seq(S)
          /\ Len(b) = IF 1 <= n(i) THEN n(i) - 1 + 1 ELSE 0
          /\ \A j \in 1 .. n(i) - 1 + 1 : b[j] = From(r, i)[1 + j - 1]
      BY <2>1, <2>3, <2>4, SubSeqProperties
    <3>3. \A j \in 1 .. n(i) : 1 + j - 1 = j
      BY <2>1
    <3> HIDE DEF b
    <3> QED BY <3>1, <3>2, <3>3
  <2>7. \A j \in 1 .. n(i) : a[j] = b[j]
    <3>1. \A j \in 1 .. n(i) : j \in 1 .. Len(r) - i + 1
      BY <1>1, <2>1
    <3> HIDE DEF a, b
    <3> QED BY <2>3, <2>5, <2>6, <3>1
  <2>8. a = b
    <3> HIDE DEF a, b
    <3> QED BY <2>5, <2>6, <2>7, SeqEqual
  <2> QED BY <2>5, <2>8
<1>4. item \in Seq(Q) /\ Len(item) = Len(r)
  <2>1. \A i \in 1 .. Len(r) : <<codepoints_to_utf8(SubSeq(r, i, i + n(i) - 1))>> \in Q
    <3>1. \A i \in 1 .. Len(r) : codepoints_to_utf8(SubSeq(r, i, i + n(i) - 1)) \in P
      BY <1>3
    <3> QED BY <3>1
  <2>2. item \in [1 .. Len(r) -> Q]
    BY <1>1, <2>1
  <2> HIDE DEF item, Q
  <2> QED BY <1>1, <2>2, FunctionIsSeq
<1>5. GoesOn(item, next)
  <2>1. \A i \in 1 .. Len(r) : next[i] \in i + 1 .. Len(r) + 1
    <3> HIDE DEF n
    <3> QED BY <1>1, <1>2
  <2> QED BY <1>4, <2>1 DEF GoesOn
<1>6. Words(r) = Scan(item, next)
  BY DEF Words
<1>7. \A i \in 1 .. Len(r) :
        /\ item[i] = <<codepoints_to_utf8(SubSeq(From(r, i), 1, n(i)))>>
        /\ next[i] = i + n(i)
  BY <1>1, <1>3
<1>8. /\ \A i \in 1 .. Len(item) + 1 : Scan(item, next)[i] \in Seq(P)
      /\ Scan(item, next)[Len(item) + 1] = <<>>
      /\ \A i \in 1 .. Len(item) : Scan(item, next)[i] = item[i] \o Scan(item, next)[next[i]]
  <2>1. item \in Seq(Seq(P))
    BY <1>4
  <2> HIDE DEF item, next
  <2>2. CanScan(P, item, next)
    BY <1>5, <2>1 DEF CanScan
  <2>3. Scanned(P, item, next)
    BY <2>2, ScanIs
  <2> QED BY <2>3 DEF Scanned
<1> HIDE DEF item, next
<1> QED BY <1>2, <1>4, <1>6, <1>7, <1>8

-----------------------------------------------------------------------------
\* What the conversions are made of: the code points that fit the sequences of
\* UTF-8, and the code points that stand for bytes in the vocabulary.

Codes == {c \in Nat : c < 2097152}
Signs == {build_bytes_to_unicode(b) : b \in Byte}

\* One sequence starts at each place and ends within the text.
LEMMA SequenceEnd ==
  ASSUME NEW s \in Seq(Byte), NEW i \in 1 .. Len(s)
  PROVE  LET n == utf8_sequence_length(s[i])
             end == Min({Len(s), i + n - 1})
         IN  /\ n \in 1 .. 4 /\ end \in i .. Len(s) /\ end <= i + n - 1
             /\ i + n - 1 <= Len(s) => end = i + n - 1
             /\ SubSeq(s, i + 1, end) \in Seq(Byte)
             /\ Len(SubSeq(s, i + 1, end)) = end - i
             /\ \A j \in 1 .. end - i : SubSeq(s, i + 1, end)[j] = s[i + j]
<1> DEFINE n == utf8_sequence_length(s[i])
           end == Min({Len(s), i + n - 1})
           t == SubSeq(s, i + 1, end)
<1>1. Len(s) \in Nat /\ \A j \in 1 .. Len(s) : s[j] \in Byte
  BY LenProperties, ElementOfSeq
<1>2. n \in 1 .. 4
  BY DEF utf8_sequence_length
<1> HIDE DEF n
<1>3. end = IF Len(s) <= i + n - 1 THEN Len(s) ELSE i + n - 1
  <2>1. Len(s) \in Int /\ i + n - 1 \in Int
    BY <1>1, <1>2
  <2> QED BY <2>1, MinOfTwo
<1> HIDE DEF end
<1>4. end \in i .. Len(s) /\ end <= i + n - 1 /\ (i + n - 1 <= Len(s) => end = i + n - 1)
  BY <1>1, <1>2, <1>3
<1>5. t \in Seq(Byte) /\ Len(t) = end - i /\ \A j \in 1 .. end - i : t[j] = s[i + j]
  <2>1. i + 1 \in Int /\ end \in Int /\ \A j \in i + 1 .. end : s[j] \in Byte
    BY <1>1, <1>4
  <2>2. /\ t \in Seq(Byte)
        /\ Len(t) = IF i + 1 <= end THEN end - (i + 1) + 1 ELSE 0
        /\ \A j \in 1 .. end - (i + 1) + 1 : t[j] = s[(i + 1) + j - 1]
    <3> HIDE DEF Byte
    <3> QED BY <2>1, SubSeqProperties
  <2> HIDE DEF t
  <2>3. end - (i + 1) + 1 = end - i
    BY <1>4
  <2>4. Len(t) = end - i
    BY <1>4, <2>2
  <2>5. \A j \in 1 .. end - i : (i + 1) + j - 1 = i + j
    BY <1>4
  <2> QED BY <2>2, <2>3, <2>4, <2>5
<1> QED BY <1>2, <1>4, <1>5 DEF end, n, t

\* The length of a sequence tells the range of its first byte.
LeadRange(n, lead) ==
  /\ n \in 1 .. 4
  /\ n = 2 <=> lead \in 192 .. 223
  /\ n = 3 <=> lead \in 224 .. 239
  /\ n = 4 <=> lead \in 240 .. 247

LEMMA SequenceLength ==
  ASSUME NEW lead \in Byte
  PROVE  LeadRange(utf8_sequence_length(lead), lead)
<1> DEFINE n == utf8_sequence_length(lead)
<1>0. lead \in 0 .. 255
  BY DEF Byte
<1>1. CASE lead \in 192 .. 223
  <2>1. n = 2
    BY SMT, <1>1 DEF utf8_sequence_length
  <2> QED BY SMT, <1>1, <2>1 DEF LeadRange
<1>2. CASE lead \in 224 .. 239
  <2>1. n = 3
    BY SMT, <1>2 DEF utf8_sequence_length
  <2> QED BY SMT, <1>2, <2>1 DEF LeadRange
<1>3. CASE lead \in 240 .. 247
  <2>1. n = 4
    BY SMT, <1>3 DEF utf8_sequence_length
  <2> QED BY SMT, <1>3, <2>1 DEF LeadRange
<1>4. CASE lead \notin 192 .. 247
  <2>1. n = 1
    BY SMT, <1>0, <1>4 DEF utf8_sequence_length
  <2> QED BY SMT, <1>4, <2>1 DEF LeadRange
<1> QED BY SMT, <1>0, <1>1, <1>2, <1>3, <1>4

LEMMA LowBits ==
  ASSUME NEW t \in Seq(Byte), NEW k \in 1 .. Len(t)
  PROVE  t[k] % 64 \in 0 .. 63
<1> DEFINE x == t[k]
<1>1. x \in 0 .. 255
  BY ElementOfSeq DEF Byte
<1> HIDE DEF x
<1>2. x % 64 \in 0 .. 63
  BY <1>1
<1> QED BY <1>2 DEF x

LEMMA CodepointType ==
  ASSUME NEW lead \in Byte, NEW tail \in Seq(Byte),
         NEW n, n = utf8_sequence_length(lead), Len(tail) < n
  PROVE  CodepointOf(lead, tail) \in Codes
<1> DEFINE l == Len(tail)
           high == lead % <<128, 64, 32, 16>>[n]
           a == tail[1] % 64
           b == tail[2] % 64
           c == tail[3] % 64
           cp == CodepointOf(lead, tail)
<1>1. lead \in 0 .. 255
  BY DEF Byte
<1>2. /\ n \in 1 .. 4
      /\ (n = 2 => lead \in 192 .. 223)
      /\ (n = 3 => lead \in 224 .. 239)
      /\ (n = 4 => lead \in 240 .. 247)
  <2>1. LeadRange(n, lead)
    BY SequenceLength
  <2> QED BY <2>1 DEF LeadRange
<1>3. l \in Nat /\ l < n
  BY LenProperties
<1> HIDE DEF l
<1>4. l \in {0, 1, 2, 3} /\ (l = 1 => n >= 2) /\ (l = 2 => n >= 3) /\ (l = 3 => n = 4)
  BY <1>2, <1>3
<1>5. n > 1 => high \in Nat /\ high < 32 /\ (n >= 3 => high < 16) /\ (n = 4 => high < 8)
  <2>1. CASE n = 2
    <3>1. high = lead % 64 /\ lead \in 192 .. 223
      BY <1>2, <2>1
    <3> HIDE DEF high
    <3>2. high = lead - 192
      BY <3>1
    <3> QED BY <2>1, <3>1, <3>2
  <2>2. CASE n = 3
    <3>1. high = lead % 32 /\ lead \in 224 .. 239
      BY <1>2, <2>2
    <3> HIDE DEF high
    <3>2. high = lead - 224
      BY <3>1
    <3> QED BY <2>2, <3>1, <3>2
  <2>3. CASE n = 4
    <3>1. high = lead % 16 /\ lead \in 240 .. 247
      BY <1>2, <2>3
    <3> HIDE DEF high
    <3>2. high = lead - 240
      BY <3>1
    <3> QED BY <2>3, <3>1, <3>2
  <2> QED BY <1>2, <2>1, <2>2, <2>3
<1>6. (l >= 1 => a \in 0 .. 63) /\ (l >= 2 => b \in 0 .. 63) /\ (l >= 3 => c \in 0 .. 63)
  BY <1>4, LowBits DEF l
<1> SUFFICES cp \in Codes
  OBVIOUS
<1> HIDE DEF high, a, b, c, cp
<1>7. cp =
        CASE n = 1 -> IF lead < 128 THEN lead ELSE 0
          [] n > 1 /\ \E i \in DOMAIN tail : ~IsContinuation(tail[i]) -> 0
          [] OTHER ->
               CASE l = 0 -> high
                 [] l = 1 -> (64 * high) + a
                 [] l = 2 -> (4096 * high) + (64 * a) + b
                 [] l = 3 ->
                      (262144 * high) + (4096 * a) + (64 * b) + c
  BY SMT DEF CodepointOf, high, l, a, b, c, cp
<1>9. CASE n = 1
  <2>1. cp = IF lead < 128 THEN lead ELSE 0
    BY SMT, <1>7, <1>9
  <2>2. lead \in Nat
    BY <1>1
  <2> QED BY SMT, <2>1, <2>2 DEF Codes
<1>10. CASE n > 1 /\ \E i \in DOMAIN tail : ~IsContinuation(tail[i])
  <2>1. n # 1
    BY <1>2, <1>10
  <2>2. cp = 0
    BY SMT, <1>7, <1>10, <2>1
  <2> QED BY SMT, <2>2 DEF Codes
<1>11. CASE n > 1 /\ ~\E i \in DOMAIN tail : ~IsContinuation(tail[i])
  <2>0. n # 1
    BY <1>2, <1>11
  <2>1. CASE l = 0
    <3>1. cp = high
      BY SMT, <1>7, <1>11, <2>0, <2>1
    <3>2. high \in Nat /\ high < 32
      BY <1>5, <1>11
    <3> QED BY SMT, <3>1, <3>2 DEF Codes
  <2>2. CASE l = 1
    <3>1. cp = (64 * high) + a
      BY SMT, <1>7, <1>11, <2>0, <2>2
    <3>2. high \in Nat /\ high < 32 /\ a \in 0 .. 63
      BY <1>5, <1>6, <1>11, <2>2
    <3>3. cp \in Int /\ 0 <= cp /\ cp < 65536
      BY SMT, <3>1, <3>2
    <3> QED BY SMT, <3>3 DEF Codes
  <2>3. CASE l = 2
    <3>1. cp = (4096 * high) + (64 * a) + b
      BY SMT, <1>7, <1>11, <2>0, <2>3
    <3>2. high \in Nat /\ high < 16 /\ a \in 0 .. 63 /\ b \in 0 .. 63
      BY <1>4, <1>5, <1>6, <1>11, <2>3
    <3>3. cp \in Int /\ 0 <= cp /\ cp < 65536
      BY SMT, <3>1, <3>2
    <3> QED BY SMT, <3>3 DEF Codes
  <2>4. CASE l = 3
    <3>1. cp
            = (262144 * high) + (4096 * a) + (64 * b) + c
      BY SMT, <1>7, <1>11, <2>0, <2>4
    <3>2. /\ high \in Nat /\ high < 8
          /\ a \in 0 .. 63 /\ b \in 0 .. 63 /\ c \in 0 .. 63
      BY <1>4, <1>5, <1>6, <1>11, <2>4
    <3> QED BY SMT, <3>1, <3>2 DEF Codes
  <2> QED BY <1>4, <2>1, <2>2, <2>3, <2>4
<1>12. n = 1 \/ n > 1
  BY <1>2
<1> QED BY <1>9, <1>10, <1>11, <1>12

\* The decoder skips 0.
Chars == {c \in Codes : c # 0}

\* What is decoded from each place of a text on.

DecodedEnd(s, i) == Min({Len(s), i + utf8_sequence_length(s[i]) - 1})
DecodedCode(s, i) == CodepointOf(s[i], SubSeq(s, i + 1, DecodedEnd(s, i)))
DecodedHere(s, i) == IF DecodedCode(s, i) = 0 THEN <<>> ELSE <<DecodedCode(s, i)>>

DecodedFrom(s) ==
  Scan([i \in DOMAIN s |-> DecodedHere(s, i)], [i \in DOMAIN s |-> DecodedEnd(s, i) + 1])

LEMMA DecodedFromIs ==
  ASSUME NEW s \in Seq(Byte)
  PROVE  /\ utf8_to_codepoints(s) = DecodedFrom(s)[1]
         /\ \A i \in 1 .. Len(s) + 1 : DecodedFrom(s)[i] \in Seq(Chars)
         /\ DecodedFrom(s)[Len(s) + 1] = <<>>
         /\ \A i \in 1 .. Len(s) : /\ DecodedEnd(s, i) \in i .. Len(s)
                                   /\ DecodedHere(s, i) \in Seq(Chars)
                                   /\ DecodedFrom(s)[i] =
                                        DecodedHere(s, i) \o DecodedFrom(s)[DecodedEnd(s, i) + 1]
<1> DEFINE item == [i \in DOMAIN s |-> DecodedHere(s, i)]
           next == [i \in DOMAIN s |-> DecodedEnd(s, i) + 1]
           Q == Seq(Chars)
<1>1. DOMAIN s = 1 .. Len(s) /\ Len(s) \in Nat
  BY LenProperties
<1>2. ASSUME NEW i \in 1 .. Len(s)
      PROVE  DecodedEnd(s, i) \in i .. Len(s) /\ DecodedCode(s, i) \in Codes
  <2> DEFINE n == utf8_sequence_length(s[i])
             end == DecodedEnd(s, i)
             t == SubSeq(s, i + 1, end)
             l == Len(t)
  <2>1. /\ n \in 1 .. 4 /\ end \in i .. Len(s) /\ end <= i + n - 1
        /\ t \in Seq(Byte) /\ l = end - i
    BY SequenceEnd DEF DecodedEnd
  <2>2. s[i] \in Byte
    BY ElementOfSeq
  <2>3. l < n
    <3> HIDE DEF n, l, end
    <3> QED BY <1>1, <2>1
  <2>4. CodepointOf(s[i], t) \in Codes
    <3>1. t \in Seq(Byte) /\ l = Len(t) /\ l < n /\ n = utf8_sequence_length(s[i])
      BY <2>1, <2>3
    <3> HIDE DEF t, l, n
    <3> QED BY <2>2, <3>1, CodepointType
  <2> QED BY <2>1, <2>4 DEF DecodedCode
<1>3. ASSUME NEW i \in 1 .. Len(s) PROVE DecodedHere(s, i) \in Q
  <2>1. DecodedCode(s, i) # 0 => DecodedCode(s, i) \in Chars
    BY <1>2 DEF Chars
  <2>2. <<>> \in Q /\ \A c \in Chars : <<c>> \in Q
    BY EmptySeq
  <2> HIDE DEF Q
  <2> QED BY <2>1, <2>2 DEF DecodedHere
<1>4. item \in Seq(Q) /\ Len(item) = Len(s)
  <2>1. item \in [1 .. Len(s) -> Q]
    BY <1>1, <1>3
  <2> HIDE DEF item, Q
  <2> QED BY <1>1, <2>1, FunctionIsSeq
<1>5. GoesOn(item, next)
  <2>1. \A i \in 1 .. Len(s) : next[i] \in i + 1 .. Len(s) + 1
    BY <1>1, <1>2
  <2> QED BY <1>4, <2>1 DEF GoesOn
<1>6. Scanned(Chars, item, next)
  <2>1. item \in Seq(Seq(Chars))
    BY <1>4
  <2> HIDE DEF item, next
  <2> QED BY <1>5, <2>1, ScanIs DEF CanScan
<1>7. DecodedFrom(s) = Scan(item, next)
  BY DEF DecodedFrom
<1>8. \A i \in 1 .. Len(s) : item[i] = DecodedHere(s, i) /\ next[i] = DecodedEnd(s, i) + 1
  BY <1>1
<1>9. utf8_to_codepoints(s) = DecodedFrom(s)[1]
  BY DEF utf8_to_codepoints, DecodedFrom, DecodedHere, DecodedCode, DecodedEnd
<1> HIDE DEF item, next
<1>10. /\ \A i \in 1 .. Len(s) + 1 : DecodedFrom(s)[i] \in Seq(Chars)
       /\ DecodedFrom(s)[Len(s) + 1] = <<>>
       /\ \A i \in 1 .. Len(s) : DecodedFrom(s)[i] = item[i] \o DecodedFrom(s)[next[i]]
  BY <1>4, <1>6, <1>7 DEF Scanned
<1> QED BY <1>2, <1>3, <1>8, <1>9, <1>10

LEMMA DecodedType ==
  ASSUME NEW s \in Seq(Byte)
  PROVE  utf8_to_codepoints(s) \in Seq(Codes)
<1>1. 1 \in 1 .. Len(s) + 1
  BY LenProperties
<1>2. utf8_to_codepoints(s) \in Seq(Chars)
  BY <1>1, DecodedFromIs
<1>3. Chars \subseteq Codes
  BY DEF Chars
<1> QED BY <1>2, <1>3, SeqMonotonic

LEMMA Utf8Type ==
  ASSUME NEW c \in Codes
  PROVE  Utf8(c) \in Seq(Byte)
<1>0. c \in Int /\ 0 <= c /\ c < 2097152
  BY SMT DEF Codes
<1>1. \A p \in {1, 64, 4096} : Continuation(c, p) \in Byte
  BY SMT, <1>0 DEF Continuation, Byte
<1>2. CASE c < 128
  <2>1. Utf8(c) = <<c>> /\ c \in Byte
    BY SMT, <1>0, <1>2 DEF Utf8, Byte
  <2> QED BY <2>1
<1>3. CASE 128 <= c /\ c < 2048
  <2>1. Utf8(c) = <<192 + c \div 64, Continuation(c, 1)>> /\ 192 + c \div 64 \in Byte
    BY SMT, <1>0, <1>3 DEF Utf8, Byte
  <2> QED BY <1>1, <2>1
<1>4. CASE 2048 <= c /\ c < 65536
  <2>1. /\ Utf8(c) = <<224 + c \div 4096, Continuation(c, 64), Continuation(c, 1)>>
        /\ 224 + c \div 4096 \in Byte
    BY SMT, <1>0, <1>4 DEF Utf8, Byte
  <2> QED BY <1>1, <2>1
<1>5. CASE 65536 <= c
  <2>1. /\ Utf8(c) = <<240 + c \div 262144, Continuation(c, 4096),
                       Continuation(c, 64), Continuation(c, 1)>>
        /\ 240 + c \div 262144 \in Byte
    BY SMT, <1>0, <1>5 DEF Utf8, Byte
  <2> QED BY <1>1, <2>1
<1> QED BY <1>0, <1>2, <1>3, <1>4, <1>5

\* The encoding of each code point.
Encode == [c \in Codes |-> Utf8(c)]

LEMMA EncodedIs ==
  ASSUME NEW cps \in Seq(Codes)
  PROVE  /\ codepoints_to_utf8(cps) = FlatMap(Encode, cps) /\ MapsTo(Encode, Codes, Byte)
         /\ codepoints_to_utf8(cps) \in Seq(Byte)
<1>1. \A i \in DOMAIN cps : cps[i] \in Codes
  BY LenProperties, ElementOfSeq
<1>2. [i \in DOMAIN cps |-> Utf8(cps[i])] = [i \in DOMAIN cps |-> Encode[cps[i]]]
  BY <1>1 DEF Encode
<1>3. MapsTo(Encode, Codes, Byte)
  BY Utf8Type DEF MapsTo, Encode
<1>4. codepoints_to_utf8(cps) = FlatMap(Encode, cps)
  BY <1>2 DEF codepoints_to_utf8, FlatMap
<1>5. FlatMap(Encode, cps) \in Seq(Byte)
  BY <1>3, FlatMapType
<1> QED BY <1>3, <1>4, <1>5

-----------------------------------------------------------------------------
\* The tokens of a word.

Tokens == Seq(Signs)
VocabIds == {vocab[t] : t \in Tokens \cap DOMAIN vocab}

LEMMA EncodedBytes ==
  ASSUME NEW p \in Seq(Byte)
  PROVE  byte_encode(p) \in Seq(Tokens) /\ Len(byte_encode(p)) = Len(p)
<1>1. DOMAIN p = 1 .. Len(p) /\ Len(p) \in Nat /\ \A i \in 1 .. Len(p) : p[i] \in Byte
  BY LenProperties, ElementOfSeq
<1>2. \A b \in Byte : <<build_bytes_to_unicode(b)>> \in Tokens
  <2>1. \A x \in Signs : <<x>> \in Seq(Signs)
    OBVIOUS
  <2>2. \A b \in Byte : build_bytes_to_unicode(b) \in Signs
    BY DEF Signs
  <2> QED BY <2>1, <2>2 DEF Tokens
<1>3. byte_encode(p) \in [1 .. Len(p) -> Tokens]
  <2> HIDE DEF Tokens, Byte
  <2> QED BY <1>1, <1>2 DEF byte_encode
<1> QED BY <1>1, <1>3, FunctionIsSeq

LEMMA MergesType ==
  ASSUME NEW pair \in DOMAIN merges
  PROVE  /\ merges[pair] \in DOMAIN File.merges /\ merges[pair] \in Nat
         /\ File.merges[merges[pair]] = pair
<1> DEFINE m == File.merges
           P == {i \in DOMAIN m : m[i] = pair}
           l == Len(m)
<1>1. DOMAIN m = 1 .. l /\ l \in Nat
  BY FileAssumption, LenProperties
<1>2. pair \in Range(m) /\ merges[pair] = Max(P)
  BY DEF merges
<1>3. P # {}
  BY <1>2 DEF Range
<1>4. P \in SUBSET Int /\ l \in Int /\ \A x \in P : x <= l
  <2> HIDE DEF l
  <2> QED BY <1>1
<1> HIDE DEF l
<1>5. Max(P) \in P
  <2> HIDE DEF P
  <2> QED BY <1>3, <1>4, MaxFacts
<1>6. m[Max(P)] = pair
  BY <1>5
<1> QED BY <1>1, <1>2, <1>5, <1>6

LEMMA BestPairIs ==
  ASSUME NEW S, NEW w \in Seq(S), Mergeable(w) # {}
  PROVE  /\ BestPair(w) \in Mergeable(w)
         /\ \A j \in Mergeable(w) :
              /\ Rank(w, BestPair(w)) <= Rank(w, j)
              /\ Rank(w, j) = Rank(w, BestPair(w)) => BestPair(w) <= j
<1> DEFINE M == Mergeable(w)
           R == {Rank(w, i) : i \in M}
           B == {i \in M : \A j \in M : Rank(w, i) <= Rank(w, j)}
<1>1. R \in SUBSET Nat /\ R # {}
  <2>1. \A i \in M : <<w[i], w[i + 1]>> \in DOMAIN merges
    BY DEF Mergeable
  <2>2. \A i \in M : Rank(w, i) \in Nat
    BY <2>1, MergesType DEF Rank
  <2> QED BY <2>2
<1>2. M \in SUBSET Nat
  BY DEF Mergeable
<1>3. Min(R) \in R /\ \A x \in R : Min(R) <= x
  <2> HIDE DEF R
  <2> QED BY <1>1, MinFacts
<1>4. PICK i \in M : Rank(w, i) = Min(R)
  BY <1>3
<1>5. i \in B
  BY <1>3, <1>4
<1>6. B \in SUBSET Nat /\ B # {}
  BY <1>2, <1>5
<1>7. Min(B) \in B /\ \A j \in B : Min(B) <= j
  <2> HIDE DEF B
  <2> QED BY <1>6, MinFacts
<1> DEFINE b == Min(B)
<1>8. b = BestPair(w)
  BY DEF BestPair
<1>9. b \in M /\ \A j \in M : Rank(w, b) <= Rank(w, j)
  BY <1>7
<1>10. \A j \in B : b <= j
  BY <1>7
<1> HIDE DEF b
<1>11. ASSUME NEW j \in M, Rank(w, j) = Rank(w, b) PROVE b <= j
  <2>1. j \in B
    BY <1>9, <1>11
  <2> QED BY <1>10, <2>1
<1> HIDE DEF B, M
<1> QED BY <1>8, <1>9, <1>11 DEF M

LEMMA MergedType ==
  ASSUME NEW w \in Seq(Tokens), NEW i \in Mergeable(w)
  PROVE  /\ MergedAt(w, i) \in Seq(Tokens)
         /\ w[i] \in Tokens /\ w[i + 1] \in Tokens /\ w[i] \o w[i + 1] \in Tokens
<1> DEFINE l == Len(w)
           a == SubSeq(w, 1, i - 1)
           b == SubSeq(w, i + 2, l)
           c == w[i] \o w[i + 1]
<1>1. l \in Nat /\ \A j \in 1 .. l : w[j] \in Tokens
  <2> HIDE DEF Tokens
  <2> QED BY LenProperties, ElementOfSeq
<1> HIDE DEF l
<1>2. i \in 1 .. l - 1 /\ i \in Int
  BY <1>1 DEF Mergeable, l
<1>3. w[i] \in Tokens /\ w[i + 1] \in Tokens
  <2>1. i \in 1 .. l /\ i + 1 \in 1 .. l
    BY <1>1, <1>2
  <2> QED BY <1>1, <2>1
<1>4. c \in Tokens
  BY <1>3, ConcatProperties DEF Tokens
<1>5. a \in Seq(Tokens)
  <2>1. 1 \in Int /\ i - 1 \in Int /\ \A j \in 1 .. i - 1 : w[j] \in Tokens
    BY <1>1, <1>2
  <2> HIDE DEF Tokens
  <2> QED BY <2>1, SubSeqProperties
<1>6. b \in Seq(Tokens)
  <2>1. i + 2 \in Int /\ l \in Int /\ \A j \in i + 2 .. l : w[j] \in Tokens
    BY <1>1, <1>2
  <2> HIDE DEF Tokens
  <2> QED BY <2>1, SubSeqProperties
<1>7. a \o <<c>> \o b \in Seq(Tokens)
  <2> HIDE DEF a, b, c, Tokens
  <2>1. <<c>> \in Seq(Tokens)
    BY <1>4
  <2>2. a \o <<c>> \in Seq(Tokens)
    BY <1>5, <2>1, ConcatProperties
  <2> QED BY <1>6, <2>2, ConcatProperties
<1> QED BY <1>3, <1>4, <1>7 DEF MergedAt, l

-----------------------------------------------------------------------------
\* The sweeps of the merges over a word.

\* What one sweep makes of a word, place by place.
Sweeps(w, pair) ==
  /\ \A i \in 1 .. Len(w) + 1 : SweepFrom(w, pair)[i] \in Seq(Tokens)
  /\ SweepFrom(w, pair)[Len(w) + 1] = <<>>
  /\ \A i \in 1 .. Len(w) :
       SweepFrom(w, pair)[i] =
         IF Meets(w, pair, i) THEN <<w[i] \o w[i + 1]>> \o SweepFrom(w, pair)[i + 2]
         ELSE <<w[i]>> \o SweepFrom(w, pair)[i + 1]

LEMMA SweepIs ==
  ASSUME NEW w \in Seq(Tokens), NEW pair
  PROVE  Sweeps(w, pair)
<1> DEFINE item == [i \in DOMAIN w |->
                      IF Meets(w, pair, i) THEN <<w[i] \o w[i + 1]>> ELSE <<w[i]>>]
           next == [i \in DOMAIN w |-> IF Meets(w, pair, i) THEN i + 2 ELSE i + 1]
           n == Len(w)
           Q == Seq(Tokens)
<1>1. DOMAIN w = 1 .. n /\ n \in Nat /\ \A i \in 1 .. n : w[i] \in Tokens
  <2> HIDE DEF Tokens
  <2> QED BY LenProperties, ElementOfSeq
<1>2. \A i \in 1 .. n : Meets(w, pair, i) => i + 1 \in 1 .. n /\ i + 2 \in i + 1 .. n + 1
  BY <1>1 DEF Meets
<1>3. ASSUME NEW i \in 1 .. n
      PROVE  (IF Meets(w, pair, i) THEN <<w[i] \o w[i + 1]>> ELSE <<w[i]>>) \in Q
  <2>1. \A t \in Tokens : <<t>> \in Seq(Tokens)
    <3> HIDE DEF Tokens
    <3> QED OBVIOUS
  <2>2. w[i] \in Tokens /\ (Meets(w, pair, i) => w[i + 1] \in Tokens)
    BY <1>1, <1>2
  <2>3. \A s, t \in Tokens : s \o t \in Tokens
    BY ConcatProperties DEF Tokens
  <2> HIDE DEF Tokens, n
  <2> QED BY <2>1, <2>2, <2>3
<1>4. item \in [1 .. n -> Q]
  <2> HIDE DEF Q, n
  <2> QED BY <1>1, <1>3
<1>5. SweepFrom(w, pair) = Scan(item, next)
  BY DEF SweepFrom
<1>6. \A i \in 1 .. n :
        /\ item[i] = IF Meets(w, pair, i) THEN <<w[i] \o w[i + 1]>> ELSE <<w[i]>>
        /\ next[i] = IF Meets(w, pair, i) THEN i + 2 ELSE i + 1
  BY <1>1
<1> HIDE DEF item, next, n
<1>7. item \in Seq(Q) /\ Len(item) = n
  BY <1>1, <1>4, FunctionIsSeq
<1>8. \A i \in 1 .. n : next[i] \in i + 1 .. n + 1
  <2>1. \A i \in 1 .. n : i + 1 \in i + 1 .. n + 1
    BY <1>1
  <2> QED BY <1>2, <1>6, <2>1
<1>9. CanScan(Tokens, item, next)
  BY <1>7, <1>8 DEF CanScan, GoesOn
<1>10. Scanned(Tokens, item, next)
  BY <1>9, ScanIs
<1> DEFINE f == SweepFrom(w, pair)
<1>11. /\ \A i \in 1 .. n + 1 : f[i] \in Q
       /\ f[n + 1] = <<>>
       /\ \A i \in 1 .. n : f[i] = item[i] \o f[next[i]]
  BY <1>5, <1>7, <1>10 DEF Scanned
<1>12. \A i \in 1 .. n : f[i] = IF Meets(w, pair, i) THEN <<w[i] \o w[i + 1]>> \o f[i + 2]
                                ELSE <<w[i]>> \o f[i + 1]
  <2> HIDE DEF f
  <2> QED BY <1>6, <1>11
<1> QED BY <1>11, <1>12 DEF Sweeps, n

\* A word without the pair stays as it is.
LEMMA SweepNothing ==
  ASSUME NEW w \in Seq(Tokens), NEW pair, \A i \in 1 .. Len(w) : ~Meets(w, pair, i)
  PROVE  Sweep(w, pair) = w
<1> DEFINE f == SweepFrom(w, pair)
           n == Len(w)
           T == {i \in 1 .. n + 1 : f[i] = From(w, i)}
<1>1. n \in Nat /\ From(w, 1) = w
  BY LenProperties, SubSeqFull DEF From
<1>2. /\ f[n + 1] = <<>>
      /\ \A i \in 1 .. n : f[i] = <<w[i]>> \o f[i + 1]
  BY SweepIs DEF Sweeps
<1> HIDE DEF f
<1>3. n + 1 \in T
  <2>1. n + 1 \in 1 .. n + 1
    BY <1>1
  <2>2. From(w, n + 1) = <<>>
    BY <2>1, FromEmpty
  <2> QED BY <1>2, <2>1, <2>2
<1>4. ASSUME NEW i \in 1 .. n, \A j \in i + 1 .. n + 1 : j \in T
      PROVE  i \in T
  <2>1. i + 1 \in i + 1 .. n + 1 /\ i \in 1 .. n + 1
    BY <1>1
  <2>2. f[i] = <<w[i]>> \o From(w, i + 1)
    <3>1. i + 1 \in T
      BY <1>4, <2>1
    <3> HIDE DEF n
    <3> QED BY <1>2, <3>1
  <2>3. From(w, i) = <<w[i]>> \o From(w, i + 1)
    BY FromNext
  <2> QED BY <2>1, <2>2, <2>3
<1> HIDE DEF n, T
<1>5. \A i \in 1 .. n + 1 : i \in T
  BY <1>1, <1>3, <1>4, DownTo
<1>6. 1 \in T
  BY <1>1, <1>5
<1> QED BY <1>1, <1>6 DEF T, f, Sweep

\* What merging two neighbours makes of a word, token by token.
MergesTo(w, i, v) ==
  /\ v \in Seq(Tokens) /\ Len(v) = Len(w) - 1 /\ i \in 1 .. Len(w) - 1 /\ Len(w) \in Nat
  /\ v[i] = w[i] \o w[i + 1]
  /\ \A j \in 1 .. i - 1 : v[j] = w[j]
  /\ \A j \in i + 1 .. Len(w) - 1 : v[j] = w[j + 1]

LEMMA MergedAtIs ==
  ASSUME NEW w \in Seq(Tokens), NEW i \in Mergeable(w)
  PROVE  MergesTo(w, i, MergedAt(w, i))
<1> DEFINE n == Len(w)
           a == SubSeq(w, 1, i - 1)
           b == SubSeq(w, i + 2, n)
           c == w[i] \o w[i + 1]
           t == <<c>>
           v == MergedAt(w, i)
<1>1. n \in Nat /\ i \in 1 .. n - 1 /\ \A j \in 1 .. n : w[j] \in Tokens
  <2> HIDE DEF Tokens
  <2> QED BY LenProperties, ElementOfSeq DEF Mergeable
<1>2. v \in Seq(Tokens) /\ c \in Tokens
  BY MergedType
<1>3. v = (a \o t) \o b
  BY DEF MergedAt
<1> HIDE DEF n, v, c, Tokens
<1>4. /\ a \in Seq(Tokens) /\ Len(a) = i - 1 /\ \A j \in 1 .. i - 1 : a[j] = w[j]
  <2>1. 1 \in Int /\ i - 1 \in Int /\ \A j \in 1 .. i - 1 : w[j] \in Tokens
    BY <1>1
  <2>2. /\ SubSeq(w, 1, i - 1) \in Seq(Tokens)
        /\ Len(SubSeq(w, 1, i - 1)) = IF 1 <= i - 1 THEN (i - 1) - 1 + 1 ELSE 0
        /\ \A j \in 1 .. (i - 1) - 1 + 1 : SubSeq(w, 1, i - 1)[j] = w[1 + j - 1]
    BY <2>1, SubSeqProperties
  <2>3. (IF 1 <= i - 1 THEN (i - 1) - 1 + 1 ELSE 0) = i - 1 /\ (i - 1) - 1 + 1 = i - 1
    BY <1>1
  <2>4. \A j \in 1 .. i - 1 : 1 + j - 1 = j
    BY <1>1
  <2> HIDE DEF a
  <2> QED BY <2>2, <2>3, <2>4 DEF a
<1>5. /\ b \in Seq(Tokens) /\ Len(b) = n - i - 1
      /\ \A j \in 1 .. n - i - 1 : b[j] = w[i + 1 + j]
  <2>1. i + 2 \in Int /\ n \in Int /\ \A j \in i + 2 .. n : w[j] \in Tokens
    BY <1>1
  <2>2. /\ SubSeq(w, i + 2, n) \in Seq(Tokens)
        /\ Len(SubSeq(w, i + 2, n)) = IF i + 2 <= n THEN n - (i + 2) + 1 ELSE 0
        /\ \A j \in 1 .. n - (i + 2) + 1 : SubSeq(w, i + 2, n)[j] = w[(i + 2) + j - 1]
    BY <2>1, SubSeqProperties
  <2>3. (IF i + 2 <= n THEN n - (i + 2) + 1 ELSE 0) = n - i - 1 /\ n - (i + 2) + 1 = n - i - 1
    BY <1>1
  <2>4. \A j \in 1 .. n - i - 1 : (i + 2) + j - 1 = i + 1 + j
    BY <1>1
  <2> HIDE DEF b
  <2> QED BY <2>2, <2>3, <2>4 DEF b
<1>6. t \in Seq(Tokens) /\ Len(t) = 1 /\ t[1] = c
  BY <1>2
<1> HIDE DEF a, b, t
<1> DEFINE u == a \o t
<1>7. /\ u \in Seq(Tokens) /\ Len(u) = i /\ u[i] = c
      /\ \A j \in 1 .. i - 1 : u[j] = w[j]
  <2>1. /\ u \in Seq(Tokens) /\ Len(u) = Len(a) + Len(t)
        /\ \A j \in 1 .. Len(a) + Len(t) : u[j] = IF j <= Len(a) THEN a[j] ELSE t[j - Len(a)]
    BY <1>4, <1>6, ConcatProperties
  <2> HIDE DEF u
  <2>2. Len(a) + Len(t) = i /\ i \in 1 .. i /\ ~(i <= i - 1) /\ i - (i - 1) = 1
        /\ \A j \in 1 .. i - 1 : j \in 1 .. i /\ j <= i - 1
    BY <1>1, <1>4, <1>6
  <2>3. Len(u) = i /\ \A j \in 1 .. i : u[j] = IF j <= i - 1 THEN a[j] ELSE t[j - (i - 1)]
    BY <1>4, <2>1, <2>2
  <2> QED BY <1>4, <1>6, <2>1, <2>2, <2>3
<1> HIDE DEF u
<1>8. /\ Len(v) = n - 1 /\ v[i] = c
      /\ \A j \in 1 .. i - 1 : v[j] = w[j]
      /\ \A j \in i + 1 .. n - 1 : v[j] = w[j + 1]
  <2>1. /\ u \o b \in Seq(Tokens) /\ Len(u \o b) = Len(u) + Len(b)
        /\ \A j \in 1 .. Len(u) + Len(b) :
             (u \o b)[j] = IF j <= Len(u) THEN u[j] ELSE b[j - Len(u)]
    BY <1>5, <1>7, ConcatProperties
  <2>2. v = u \o b
    BY <1>3 DEF u
  <2>3. Len(u) + Len(b) = n - 1
    BY <1>1, <1>5, <1>7
  <2>4. Len(v) = n - 1 /\ \A j \in 1 .. n - 1 : v[j] = IF j <= i THEN u[j] ELSE b[j - i]
    BY <1>7, <2>1, <2>2, <2>3
  <2>5. \A j \in 1 .. i : j \in 1 .. n - 1 /\ j <= i
    BY <1>1
  <2>6. i \in 1 .. i /\ \A j \in 1 .. i - 1 : j \in 1 .. i
    BY <1>1
  <2>7. \A j \in i + 1 .. n - 1 : /\ j \in 1 .. n - 1 /\ ~(j <= i)
                                  /\ j - i \in 1 .. n - i - 1 /\ i + 1 + (j - i) = j + 1
    BY <1>1
  <2>8. \A j \in 1 .. i : v[j] = u[j]
    BY <2>4, <2>5
  <2>9. ASSUME NEW j \in i + 1 .. n - 1 PROVE v[j] = w[j + 1]
    <3>1. v[j] = b[j - i]
      BY <2>4, <2>7
    <3>2. b[j - i] = w[i + 1 + (j - i)]
      BY <1>5, <2>7
    <3> QED BY <2>7, <3>1, <3>2
  <2> QED BY <1>7, <2>4, <2>6, <2>8, <2>9
<1> QED BY <1>1, <1>2, <1>8 DEF MergesTo, n, v, c

\* The place is the first of the pair, and the token made is no part of it.
FirstOf(w, pair, i) ==
  /\ Meets(w, pair, i) /\ w[i] \o w[i + 1] \notin {pair[1], pair[2]}
  /\ \A j \in 1 .. i - 1 : ~Meets(w, pair, j)

\* A sweep does not see whether the first place of its pair is merged already.
LEMMA SweepMerged ==
  ASSUME NEW w \in Seq(Tokens), NEW pair, NEW i, NEW v,
         MergesTo(w, i, v), FirstOf(w, pair, i)
  PROVE  Sweep(v, pair) = Sweep(w, pair)
<1> DEFINE n == Len(w)
           f == SweepFrom(w, pair)
           g == SweepFrom(v, pair)
<1>1. /\ v \in Seq(Tokens) /\ Len(v) = n - 1 /\ i \in 1 .. n - 1 /\ n \in Nat
      /\ v[i] = w[i] \o w[i + 1]
      /\ \A j \in 1 .. i - 1 : v[j] = w[j]
      /\ \A j \in i + 1 .. n - 1 : v[j] = w[j + 1]
  BY DEF MergesTo
<1>2. /\ f[n + 1] = <<>>
      /\ \A j \in 1 .. n : f[j] = IF Meets(w, pair, j) THEN <<w[j] \o w[j + 1]>> \o f[j + 2]
                                  ELSE <<w[j]>> \o f[j + 1]
  BY SweepIs DEF Sweeps
<1>3. /\ g[n] = <<>>
      /\ \A j \in 1 .. n - 1 : g[j] = IF Meets(v, pair, j) THEN <<v[j] \o v[j + 1]>> \o g[j + 2]
                                      ELSE <<v[j]>> \o g[j + 1]
  <2>1. /\ g[Len(v) + 1] = <<>>
        /\ \A j \in 1 .. Len(v) :
             g[j] = IF Meets(v, pair, j) THEN <<v[j] \o v[j + 1]>> \o g[j + 2]
                    ELSE <<v[j]>> \o g[j + 1]
    BY <1>1, SweepIs DEF Sweeps
  <2>2. Len(v) = n - 1 /\ Len(v) + 1 = n
    BY <1>1
  <2> HIDE DEF g, n
  <2> QED BY <2>1, <2>2
<1>4. ASSUME NEW j \in i + 1 .. n - 1
      PROVE  /\ Meets(v, pair, j) <=> Meets(w, pair, j + 1)
             /\ j < n - 1 => v[j + 1] = w[j + 2]
  <2>1. j < n - 1 => j + 1 \in i + 1 .. n - 1 /\ (j + 1) + 1 = j + 2
    BY <1>1
  <2>2. v[j] = w[j + 1] /\ (j < n - 1 => v[j + 1] = w[j + 2])
    BY <1>1, <2>1
  <2>3. (j < n - 1 <=> j < Len(v)) /\ (j < n - 1 <=> j + 1 < n) /\ (j + 1) + 1 = j + 2
    BY <1>1
  <2>4. CASE j < n - 1
    BY <2>2, <2>3, <2>4 DEF Meets, n
  <2>5. CASE ~(j < n - 1)
    BY <2>3, <2>5 DEF Meets, n
  <2> QED BY <2>2, <2>4, <2>5
<1>5. \A j \in 1 .. i : ~Meets(v, pair, j)
  <2>1. ASSUME NEW j \in 1 .. i, Meets(v, pair, j) PROVE FALSE
    <3>1. <<v[j], v[j + 1]>> = pair /\ pair[1] = v[j] /\ pair[2] = v[j + 1]
      BY <2>1 DEF Meets
    <3>2. v[i] \notin {pair[1], pair[2]}
      BY <1>1 DEF FirstOf
    <3>3. j # i /\ j + 1 # i
      BY <3>1, <3>2
    <3>4. j \in 1 .. i - 1 /\ j + 1 \in 1 .. i - 1
      BY <1>1, <3>3
    <3>5. v[j] = w[j] /\ v[j + 1] = w[j + 1] /\ j < n
      BY <1>1, <3>4
    <3>6. Meets(w, pair, j)
      BY <3>1, <3>5 DEF Meets, n
    <3> QED BY <3>4, <3>6 DEF FirstOf
  <2> QED BY <2>1
<1> HIDE DEF f, g, n
\* Behind the place the words are the same, one place apart.
<1> DEFINE Ahead == {j \in 1 .. n : j > i => g[j] = f[j + 1]}
<1>6. \A j \in 1 .. n : j \in Ahead
  <2> DEFINE m == n - 1
  <2>1. m \in Nat /\ m + 1 = n
    BY <1>1
  <2>2. m + 1 \in Ahead
    <3>1. n \in 1 .. n
      BY <1>1
    <3> QED BY <1>2, <1>3, <2>1, <3>1
  <2>3. ASSUME NEW j \in 1 .. m, \A k \in j + 1 .. m + 1 : k \in Ahead
        PROVE  j \in Ahead
    <3> SUFFICES ASSUME j > i PROVE g[j] = f[j + 1]
      BY <2>1
    <3>1. j \in i + 1 .. n - 1 /\ j \in 1 .. n - 1 /\ j + 1 \in 1 .. n
      BY <1>1
    <3>2. v[j] = w[j + 1]
      BY <1>1, <3>1
    <3>3. j + 1 \in j + 1 .. m + 1 /\ j + 1 > i /\ (j + 1) + 1 = j + 2 /\ (j + 1) + 2 = j + 3
      BY <1>1, <3>1
    <3>4. CASE Meets(v, pair, j)
      <4>1. j < n - 1
        BY <1>1, <3>4 DEF Meets
      <4>2. j + 2 \in j + 1 .. m + 1 /\ j + 2 > i /\ (j + 2) + 1 = j + 3
        BY <1>1, <3>1, <4>1
      <4>3. Meets(w, pair, j + 1) /\ v[j + 1] = w[j + 2]
        BY <1>4, <3>1, <3>4, <4>1
      <4>4. g[j + 2] = f[j + 3]
        BY <2>3, <4>2
      <4>5. g[j] = <<v[j] \o v[j + 1]>> \o g[j + 2]
        BY <1>3, <3>1, <3>4
      <4>6. f[j + 1] = <<w[j + 1] \o w[j + 2]>> \o f[j + 3]
        BY <1>2, <3>1, <3>3, <4>3
      <4> QED BY <3>2, <4>3, <4>4, <4>5, <4>6
    <3>5. CASE ~Meets(v, pair, j)
      <4>1. ~Meets(w, pair, j + 1)
        BY <1>4, <3>1, <3>5
      <4>2. g[j + 1] = f[j + 2]
        BY <2>3, <3>3
      <4>3. g[j] = <<v[j]>> \o g[j + 1]
        BY <1>3, <3>1, <3>5
      <4>4. f[j + 1] = <<w[j + 1]>> \o f[j + 2]
        BY <1>2, <3>1, <3>3, <4>1
      <4> QED BY <3>2, <4>2, <4>3, <4>4
    <3> QED BY <3>4, <3>5
  <2> HIDE DEF Ahead, m
  <2>4. \A j \in 1 .. m + 1 : j \in Ahead
    BY <2>1, <2>2, <2>3, DownTo
  <2> QED BY <2>1, <2>4
\* At the place and before it the sweeps give the same.
<1> DEFINE Same == {j \in 1 .. i : g[j] = f[j]}
<1>7. i \in Same
  <2>1. i \in 1 .. n /\ i \in 1 .. n - 1 /\ i + 1 \in 1 .. n /\ i + 1 > i /\ (i + 1) + 1 = i + 2
        /\ i \in 1 .. i
    BY <1>1
  <2>2. g[i] = <<v[i]>> \o g[i + 1]
    BY <1>3, <1>5, <2>1
  <2>3. Meets(w, pair, i)
    BY DEF FirstOf
  <2>4. f[i] = <<w[i] \o w[i + 1]>> \o f[i + 2]
    BY <1>2, <2>1, <2>3
  <2>5. g[i + 1] = f[i + 2]
    BY <1>6, <2>1
  <2>6. v[i] = w[i] \o w[i + 1]
    BY <1>1
  <2> QED BY <2>1, <2>2, <2>4, <2>5, <2>6
<1>8. \A j \in 1 .. i : j \in Same
  <2> DEFINE m == i - 1
  <2>1. m \in Nat /\ m + 1 = i
    BY <1>1
  <2>2. m + 1 \in Same
    BY <1>7, <2>1
  <2>3. ASSUME NEW j \in 1 .. m, \A k \in j + 1 .. m + 1 : k \in Same
        PROVE  j \in Same
    <3>1. /\ j \in 1 .. i - 1 /\ j \in 1 .. i /\ j \in 1 .. n /\ j \in 1 .. n - 1
          /\ j + 1 \in j + 1 .. m + 1
      BY <1>1, <2>1
    <3>2. g[j + 1] = f[j + 1]
      BY <2>3, <3>1
    <3>3. g[j] = <<v[j]>> \o g[j + 1]
      BY <1>3, <1>5, <3>1
    <3>4. ~Meets(w, pair, j)
      BY <3>1 DEF FirstOf
    <3>5. f[j] = <<w[j]>> \o f[j + 1]
      BY <1>2, <3>1, <3>4
    <3>6. v[j] = w[j]
      BY <1>1, <3>1
    <3> QED BY <3>1, <3>2, <3>3, <3>5, <3>6
  <2> HIDE DEF Same, m
  <2>4. \A j \in 1 .. m + 1 : j \in Same
    BY <2>1, <2>2, <2>3, DownTo
  <2> QED BY <2>1, <2>4
<1>9. 1 \in Same
  <2>1. 1 \in 1 .. i
    BY <1>1
  <2> QED BY <1>8, <2>1
<1> QED BY <1>9 DEF Sweep, f, g

-----------------------------------------------------------------------------
\* The sweeps of all ranks, one after the other.

Ranks == Len(File.merges)

LEMMA SweepRankType ==
  ASSUME NEW w \in Seq(Tokens), NEW rank
  PROVE  SweepRank(w, rank) \in Seq(Tokens)
<1> DEFINE pair == File.merges[rank]
<1>1. 1 \in 1 .. Len(w) + 1
  BY LenProperties
<1>2. Sweep(w, pair) \in Seq(Tokens)
  BY <1>1, SweepIs DEF Sweeps, Sweep
<1> QED BY <1>2 DEF SweepRank

Swept(w) ==
  /\ Ranks \in Nat
  /\ SweptTo(w)[0] = w
  /\ \A k \in 1 .. Ranks : SweptTo(w)[k] = SweepRank(SweptTo(w)[k - 1], k)
  /\ \A k \in 0 .. Ranks : SweptTo(w)[k] \in Seq(Tokens)

LEMMA SweptIs ==
  ASSUME NEW w \in Seq(Tokens)
  PROVE  Swept(w)
<1> DEFINE n == Ranks
           Q == Seq(Tokens)
           Step(g, i) == IF i = 0 THEN w ELSE SweepRank(g[i - 1], i)
           Fns == [0 .. n -> Q]
           K == {k \in Nat : k <= n =>
                   \E g \in Fns : \A i \in 0 .. n : i <= k => g[i] = Step(g, i)}
<1>0. n \in Nat
  BY FileAssumption, LenProperties DEF Ranks
<1>t. w \in Q /\ \A v \in Q : \A k : SweepRank(v, k) \in Q
  BY SweepRankType
<1> HIDE DEF n, Q
<1>1. 0 \in K
  <2> DEFINE g == [i \in 0 .. n |-> w]
  <2>1. g \in Fns
    BY <1>t
  <2>2. ASSUME NEW i \in 0 .. n, i <= 0 PROVE g[i] = Step(g, i)
    BY <2>2
  <2> HIDE DEF g, Step, Fns
  <2> QED BY <2>1, <2>2
<1>2. ASSUME NEW k \in K PROVE k + 1 \in K
  <2>0. k \in Nat /\ k + 1 \in Nat
    OBVIOUS
  <2> SUFFICES ASSUME k + 1 <= n
               PROVE  \E h \in Fns : \A i \in 0 .. n : i <= k + 1 => h[i] = Step(h, i)
    <3> HIDE DEF Fns, Step
    <3> QED BY <2>0
  <2>1. PICK g \in Fns : \A i \in 0 .. n : i <= k => g[i] = Step(g, i)
    <3>1. k <= n
      BY <1>0, <2>0
    <3> HIDE DEF Fns, Step
    <3> QED BY <3>1
  <2> DEFINE m == k + 1
             h == [g EXCEPT ![m] = Step(g, m)]
  <2>2. m \in 0 .. n /\ m # 0 /\ m - 1 \in 0 .. n /\ m - 1 = k
    BY <1>0, <2>0
  <2> HIDE DEF m
  <2>3. Step(g, m) \in Q
    <3>1. g[m - 1] \in Q
      BY <2>2
    <3> QED BY <1>t, <2>2, <3>1
  <2>4. h \in Fns /\ h[m] = Step(g, m) /\ \A i \in 0 .. n : i # m => h[i] = g[i]
    <3> HIDE DEF Step
    <3> QED BY <2>2, <2>3
  <2> HIDE DEF h
  <2>5. ASSUME NEW i \in 0 .. n, i <= k + 1 PROVE h[i] = Step(h, i)
    <3>1. i # 0 => i - 1 \in 0 .. n /\ i - 1 # m
      BY <1>0, <2>0, <2>5 DEF m
    <3>2. i # 0 => h[i - 1] = g[i - 1]
      BY <2>4, <3>1
    <3>3. Step(h, i) = Step(g, i)
      BY <3>2
    <3> HIDE DEF Step
    <3>4. CASE i = m
      BY <2>4, <3>3, <3>4
    <3>5. CASE i # m
      <4>1. i <= k
        BY <1>0, <2>0, <2>5, <3>5 DEF m
      <4> QED BY <2>1, <2>4, <3>3, <3>5, <4>1
    <3> QED BY <3>4, <3>5
  <2> HIDE DEF Step, Fns
  <2> QED BY <2>4, <2>5
<1>3. n \in K
  <2> HIDE DEF K
  <2>1. K \in SUBSET Nat
    BY DEF K
  <2> QED BY <1>0, <1>1, <1>2, <2>1, NumberInduction
<1>4. PICK g \in Fns : \A i \in 0 .. n : g[i] = Step(g, i)
  <2>1. \A i \in 0 .. n : i <= n
    BY <1>0
  <2> HIDE DEF Step, Fns
  <2> QED BY <1>0, <1>3, <2>1
<1> DEFINE Rec(f) == [i \in 0 .. n |-> Step(f, i)]
           f == SweptTo(w)
<1>5. f = CHOOSE h : h = Rec(h)
  BY DEF SweptTo, n, Ranks
<1>6. g = Rec(g)
  BY <1>4
<1>7. f = Rec(f)
  <2> HIDE DEF Rec, f
  <2> QED BY <1>5, <1>6
<1>8. \A i \in 0 .. n : f[i] = Step(f, i)
  <2>1. \A i \in 0 .. n : Rec(f)[i] = Step(f, i)
    OBVIOUS
  <2> HIDE DEF Rec, f, Step
  <2> QED BY <1>7, <2>1
<1> HIDE DEF f
<1>9. f[0] = w /\ \A i \in 1 .. n : f[i] = SweepRank(f[i - 1], i)
  <2>1. 0 \in 0 .. n /\ \A i \in 1 .. n : i \in 0 .. n /\ i # 0
    BY <1>0
  <2> QED BY <1>8, <2>1
<1>10. ASSUME NEW k \in 0 .. n PROVE f[k] \in Q
  <2> DEFINE T == {j \in Nat : j <= n => f[j] \in Q}
  <2>1. 0 \in T
    BY <1>9, <1>t
  <2>2. ASSUME NEW j \in T PROVE j + 1 \in T
    <3>1. j \in Nat /\ j + 1 \in Nat /\ (j + 1) - 1 = j
      OBVIOUS
    <3>2. CASE j + 1 <= n
      <4>1. j <= n /\ j + 1 \in 1 .. n
        BY <1>0, <3>1, <3>2
      <4>2. f[j] \in Q
        BY <4>1
      <4>3. f[j + 1] = SweepRank(f[j], j + 1)
        BY <1>9, <3>1, <4>1
      <4> QED BY <1>t, <3>1, <4>2, <4>3
    <3> QED BY <3>1, <3>2
  <2> HIDE DEF T
  <2>3. k \in T
    <3>1. T \in SUBSET Nat
      BY DEF T
    <3> QED BY <1>0, <2>1, <2>2, <3>1, NumberInduction
  <2> QED BY <1>0, <2>3 DEF T
<1> QED BY <1>0, <1>9, <1>10 DEF Swept, f, n, Q

\* Sweeps that change nothing up to a rank.
LEMMA SweptUnchanged ==
  ASSUME NEW w \in Seq(Tokens), NEW r \in 0 .. Ranks,
         \A k \in 1 .. r : SweepRank(w, k) = w
  PROVE  \A k \in 0 .. r : SweptTo(w)[k] = w
<1> DEFINE T == {k \in Nat : k <= r => SweptTo(w)[k] = w}
<1>1. /\ Ranks \in Nat /\ SweptTo(w)[0] = w
      /\ \A k \in 1 .. Ranks : SweptTo(w)[k] = SweepRank(SweptTo(w)[k - 1], k)
  BY SweptIs DEF Swept
<1>2. 0 \in T
  BY <1>1
<1>3. ASSUME NEW k \in T PROVE k + 1 \in T
  <2>1. k \in Nat /\ k + 1 \in Nat /\ (k + 1) - 1 = k
    OBVIOUS
  <2>2. CASE k + 1 <= r
    <3>1. k <= r /\ k + 1 \in 1 .. r /\ k + 1 \in 1 .. Ranks
      BY <1>1, <2>1, <2>2
    <3>2. SweptTo(w)[k] = w
      BY <3>1
    <3>3. SweptTo(w)[k + 1] = SweepRank(w, k + 1)
      BY <1>1, <2>1, <3>1, <3>2
    <3> QED BY <2>1, <3>1, <3>3
  <2> QED BY <2>1, <2>2
<1> HIDE DEF T
<1>4. T \in SUBSET Nat
  BY DEF T
<1>5. \A k \in Nat : k \in T
  BY <1>2, <1>3, <1>4, NumberInduction
<1> QED BY <1>1, <1>5 DEF T

\* Words that agree after some rank agree after the last.
LEMMA SweptAgree ==
  ASSUME NEW w \in Seq(Tokens), NEW v \in Seq(Tokens), NEW r \in 0 .. Ranks,
         SweptTo(v)[r] = SweptTo(w)[r]
  PROVE  RankSweep(v) = RankSweep(w)
<1> DEFINE T == {k \in Nat : r + k <= Ranks => SweptTo(v)[r + k] = SweptTo(w)[r + k]}
<1>1. /\ Ranks \in Nat
      /\ \A k \in 1 .. Ranks : SweptTo(w)[k] = SweepRank(SweptTo(w)[k - 1], k)
      /\ \A k \in 1 .. Ranks : SweptTo(v)[k] = SweepRank(SweptTo(v)[k - 1], k)
  BY SweptIs DEF Swept
<1>2. 0 \in T
  <2>1. r + 0 = r
    BY <1>1
  <2> QED BY <2>1
<1>3. ASSUME NEW k \in T PROVE k + 1 \in T
  <2>1. k \in Nat /\ k + 1 \in Nat
    OBVIOUS
  <2>2. CASE r + (k + 1) <= Ranks
    <3>1. r + k <= Ranks /\ r + (k + 1) \in 1 .. Ranks /\ (r + (k + 1)) - 1 = r + k
      BY <1>1, <2>1, <2>2
    <3>2. SweptTo(v)[r + k] = SweptTo(w)[r + k]
      BY <3>1
    <3> QED BY <1>1, <2>1, <3>1, <3>2
  <2> QED BY <2>1, <2>2
<1> HIDE DEF T
<1>4. T \in SUBSET Nat
  BY DEF T
<1>5. Ranks - r \in T
  <2>1. Ranks - r \in Nat
    BY <1>1
  <2> QED BY <1>2, <1>3, <1>4, <2>1, NumberInduction
<1>6. r + (Ranks - r) = Ranks
  BY <1>1
<1>7. SweptTo(v)[Ranks] = SweptTo(w)[Ranks]
  BY <1>1, <1>5, <1>6 DEF T
<1> QED BY <1>7 DEF RankSweep, Ranks

-----------------------------------------------------------------------------
\* Merging the best pair of a word does not change what the sweeps make of it.

\* A token is made before any pair that it is part of.
LEMMA MadeBefore ==
  ASSUME NEW a, NEW b, NEW x, NEW y, <<a, b>> \in DOMAIN merges, <<x, y>> \in DOMAIN merges,
         a \o b \in {x, y}
  PROVE  merges[<<a, b>>] < merges[<<x, y>>]
<1> DEFINE pair == <<x, y>>
           made == <<a, b>>
<1>1. \A part \in Range(pair) : \A m \in DOMAIN merges :
        m[1] \o m[2] = part => merges[m] < merges[pair]
  BY MergesAssumption DEF TrainedMerges
<1>2. x \in Range(pair) /\ y \in Range(pair)
  <2>1. 1 \in DOMAIN pair /\ 2 \in DOMAIN pair /\ pair[1] = x /\ pair[2] = y
    OBVIOUS
  <2> HIDE DEF pair
  <2> QED BY <2>1 DEF Range
<1>3. made[1] = a /\ made[2] = b /\ made \in DOMAIN merges
  OBVIOUS
<1> HIDE DEF pair, made
<1>4. merges[made] < merges[pair]
  BY <1>1, <1>2, <1>3
<1> QED BY <1>4 DEF pair, made

\* A word none of whose pairs has the rank is not changed by its sweep.
LEMMA SweepRankNothing ==
  ASSUME NEW w \in Seq(Tokens), NEW k \in 1 .. Ranks,
         \A j \in Mergeable(w) : Rank(w, j) # k
  PROVE  SweepRank(w, k) = w
<1> DEFINE q == File.merges[k]
<1>1. q \in DOMAIN merges
  <2>1. DOMAIN File.merges = 1 .. Ranks
    BY FileAssumption, LenProperties DEF Ranks
  <2>2. q \in Range(File.merges)
    BY <2>1 DEF Range
  <2> QED BY <2>2 DEF merges
<1>2. CASE merges[q] = k
  <2>1. ASSUME NEW j \in 1 .. Len(w), Meets(w, q, j) PROVE FALSE
    <3>1. j \in 1 .. Len(w) - 1 /\ <<w[j], w[j + 1]>> = q
      BY <2>1, LenProperties DEF Meets
    <3>2. j \in Mergeable(w)
      BY <1>1, <3>1 DEF Mergeable
    <3>3. Rank(w, j) = k
      BY <1>2, <3>1 DEF Rank
    <3> QED BY <3>2, <3>3
  <2> HIDE DEF q
  <2>2. Sweep(w, q) = w
    BY <2>1, SweepNothing
  <2> QED BY <1>2, <2>2 DEF SweepRank, q
<1>3. CASE merges[q] # k
  BY <1>3 DEF SweepRank
<1> QED BY <1>2, <1>3

\* What is not merged by any pair has been swept.
LEMMA SweepsNothing ==
  ASSUME NEW w \in Seq(Tokens), Mergeable(w) = {}
  PROVE  RankSweep(w) = w
<1>1. Ranks \in Nat
  BY SweptIs DEF Swept
<1>2. \A k \in 1 .. Ranks : SweepRank(w, k) = w
  BY SweepRankNothing
<1>3. Ranks \in 0 .. Ranks
  BY <1>1
<1>4. SweptTo(w)[Ranks] = w
  BY <1>2, <1>3, SweptUnchanged
<1> QED BY <1>4 DEF RankSweep, Ranks

LEMMA SweepsMerged ==
  ASSUME NEW w \in Seq(Tokens), Mergeable(w) # {}
  PROVE  RankSweep(MergedAt(w, BestPair(w))) = RankSweep(w)
<1> DEFINE i == BestPair(w)
           v == MergedAt(w, i)
           pair == <<w[i], w[i + 1]>>
           r == merges[pair]
<1>1. /\ i \in Mergeable(w)
      /\ \A j \in Mergeable(w) : r <= Rank(w, j) /\ (Rank(w, j) = r => i <= j)
  BY BestPairIs DEF Rank
<1>2. MergesTo(w, i, v)
  BY <1>1, MergedAtIs
<1>3. pair \in DOMAIN merges /\ i \in 1 .. Len(w) - 1
  BY <1>1 DEF Mergeable
<1>4. r \in 1 .. Ranks /\ r \in Nat /\ File.merges[r] = pair /\ Ranks \in Nat
  BY <1>3, MergesType, FileAssumption, LenProperties DEF Ranks
<1>5. \A j \in Mergeable(w) : Rank(w, j) \in Nat
  BY MergesType DEF Mergeable, Rank
<1>6. v \in Seq(Tokens)
  BY <1>2 DEF MergesTo
<1> HIDE DEF i, v, r
\* The pairs of the merged word come later: they were there before, or the
\* new token is part of them.
<1>7. ASSUME NEW j \in Mergeable(v), j = i \/ j = i - 1
      PROVE  r < Rank(v, j)
  <2>1. <<v[j], v[j + 1]>> \in DOMAIN merges
    BY DEF Mergeable
  <2>2. v[i] = w[i] \o w[i + 1]
    BY <1>2 DEF MergesTo
  <2>3. v[i] \in {v[j], v[j + 1]}
    <3>1. i - 1 + 1 = i
      BY <1>3
    <3> QED BY <1>7, <3>1
  <2>4. r < merges[<<v[j], v[j + 1]>>]
    BY <1>3, <2>1, <2>2, <2>3, MadeBefore DEF r
  <2> QED BY <2>4 DEF Rank
<1>8. ASSUME NEW j \in Mergeable(v), ~(j = i \/ j = i - 1)
      PROVE  \E m \in Mergeable(w) : Rank(v, j) = Rank(w, m)
  <2>1. /\ Len(v) = Len(w) - 1 /\ Len(w) \in Nat
        /\ \A m \in 1 .. i - 1 : v[m] = w[m]
        /\ \A m \in i + 1 .. Len(w) - 1 : v[m] = w[m + 1]
    BY <1>2 DEF MergesTo
  <2>2. j \in 1 .. Len(w) - 2 /\ <<v[j], v[j + 1]>> \in DOMAIN merges
    BY <2>1 DEF Mergeable
  <2>3. CASE j < i
    <3>1. j \in 1 .. i - 1 /\ j + 1 \in 1 .. i - 1 /\ j \in 1 .. Len(w) - 1
      BY <1>3, <1>8, <2>1, <2>2, <2>3
    <3>2. v[j] = w[j] /\ v[j + 1] = w[j + 1]
      BY <2>1, <3>1
    <3>3. j \in Mergeable(w) /\ Rank(v, j) = Rank(w, j)
      BY <2>2, <3>1, <3>2 DEF Mergeable, Rank
    <3> QED BY <3>3
  <2>4. CASE ~(j < i)
    <3>1. /\ j \in i + 1 .. Len(w) - 1 /\ j + 1 \in i + 1 .. Len(w) - 1
          /\ j + 1 \in 1 .. Len(w) - 1
      BY <1>3, <1>8, <2>1, <2>2, <2>4
    <3>2. v[j] = w[j + 1] /\ v[j + 1] = w[(j + 1) + 1]
      BY <2>1, <3>1
    <3>3. j + 1 \in Mergeable(w) /\ Rank(v, j) = Rank(w, j + 1)
      BY <2>2, <3>1, <3>2 DEF Mergeable, Rank
    <3> QED BY <3>3
  <2> QED BY <2>3, <2>4
\* So the sweeps of the ranks before change neither word.
<1>9. \A k \in 1 .. r - 1 : SweepRank(w, k) = w /\ SweepRank(v, k) = v
  <2> SUFFICES ASSUME NEW k \in 1 .. r - 1 PROVE SweepRank(w, k) = w /\ SweepRank(v, k) = v
    OBVIOUS
  <2>1. k \in 1 .. Ranks /\ k < r /\ ~(r <= k) /\ ~(r < k)
    BY <1>4
  <2>2. \A j \in Mergeable(w) : Rank(w, j) # k
    BY <1>1, <2>1
  <2>3. \A j \in Mergeable(v) : Rank(v, j) # k
    BY <1>7, <1>8, <2>1, <2>2
  <2> QED BY <1>6, <2>1, <2>2, <2>3, SweepRankNothing
<1>10. r - 1 \in 0 .. r - 1 /\ r - 1 \in 0 .. Ranks
  BY <1>4
<1>11. SweptTo(w)[r - 1] = w /\ SweptTo(v)[r - 1] = v
  <2> DEFINE p == r - 1
  <2>1. p \in 0 .. Ranks /\ p \in 0 .. p
    BY <1>10
  <2>2. \A k \in 1 .. p : SweepRank(w, k) = w /\ SweepRank(v, k) = v
    BY <1>9
  <2> HIDE DEF p
  <2>3. SweptTo(w)[p] = w /\ SweptTo(v)[p] = v
    BY <1>6, <2>1, <2>2, SweptUnchanged
  <2> QED BY <2>3 DEF p
<1>12. SweptTo(w)[r] = SweepRank(w, r) /\ SweptTo(v)[r] = SweepRank(v, r)
  <2>1. /\ SweptTo(w)[r] = SweepRank(SweptTo(w)[r - 1], r)
        /\ SweptTo(v)[r] = SweepRank(SweptTo(v)[r - 1], r)
    BY <1>4, <1>6, SweptIs DEF Swept
  <2> QED BY <1>11, <2>1
\* The sweep of the pair itself makes the same of both.
<1>13. FirstOf(w, pair, i)
  <2>1. Meets(w, pair, i)
    BY <1>3, LenProperties DEF Meets
  <2>2. w[i] \o w[i + 1] \notin {w[i], w[i + 1]}
    <3> SUFFICES ASSUME w[i] \o w[i + 1] \in {w[i], w[i + 1]} PROVE FALSE
      OBVIOUS
    <3>1. r < r
      BY <1>3, MadeBefore DEF r
    <3> QED BY <1>4, <3>1
  <2>3. ASSUME NEW j \in 1 .. i - 1, Meets(w, pair, j) PROVE FALSE
    <3>1. j \in 1 .. Len(w) - 1 /\ <<w[j], w[j + 1]>> = pair /\ ~(i <= j)
      BY <1>3, <2>3, LenProperties DEF Meets
    <3>2. j \in Mergeable(w) /\ Rank(w, j) = r
      BY <1>3, <3>1 DEF Mergeable, Rank, r
    <3> QED BY <1>1, <3>1, <3>2
  <2>4. pair[1] = w[i] /\ pair[2] = w[i + 1]
    OBVIOUS
  <2> HIDE DEF pair
  <2> QED BY <2>1, <2>2, <2>3, <2>4 DEF FirstOf
<1>14. Sweep(v, pair) = Sweep(w, pair)
  <2> HIDE DEF pair
  <2> QED BY <1>2, <1>13, SweepMerged
<1>15. SweepRank(v, r) = SweepRank(w, r)
  <2>1. merges[File.merges[r]] = r
    BY <1>4 DEF r
  <2> HIDE DEF pair
  <2> QED BY <1>4, <1>14, <2>1 DEF SweepRank
<1>16. r \in 0 .. Ranks
  BY <1>4
<1>17. RankSweep(v) = RankSweep(w)
  BY <1>6, <1>12, <1>15, <1>16, SweptAgree
<1> QED BY <1>17 DEF v, i

-----------------------------------------------------------------------------
\* The ids of the tokens that the vocabulary knows.
IdsOf(w) == [i \in DOMAIN Known(w) |-> vocab[Known(w)[i]]]

LEMMA IdsOfType ==
  ASSUME NEW w \in Seq(Tokens)
  PROVE  IdsOf(w) \in Seq(VocabIds)
<1> DEFINE k == Known(w)
           V == Tokens \cap DOMAIN vocab
<1>1. k \in Seq(V)
  <2>1. \A i \in DOMAIN w : w[i] \in Tokens
    <3> HIDE DEF Tokens
    <3> QED BY LenProperties, ElementOfSeq
  <2>2. Only(w, DOMAIN vocab) = Only(w, V)
    BY <2>1 DEF Only
  <2> QED BY <2>2, OnlyType DEF Known
<1> HIDE DEF k
<1>2. DOMAIN k = 1 .. Len(k) /\ Len(k) \in Nat /\ \A i \in 1 .. Len(k) : k[i] \in V
  <2> HIDE DEF V
  <2> QED BY <1>1, LenProperties, ElementOfSeq
<1>3. [i \in DOMAIN k |-> vocab[k[i]]] \in [1 .. Len(k) -> VocabIds]
  BY <1>2 DEF VocabIds
<1>4. [i \in DOMAIN k |-> vocab[k[i]]] \in Seq(VocabIds)
  <2> DEFINE f == [i \in DOMAIN k |-> vocab[k[i]]]
  <2> HIDE DEF f
  <2>1. f \in [1 .. Len(k) -> VocabIds]
    BY <1>3 DEF f
  <2> QED BY <1>2, <2>1, FunctionIsSeq DEF f
<1> QED BY <1>4 DEF IdsOf, k

\* None of them is the id of an added token.
LEMMA IdsOfAreNew ==
  ASSUME NEW w \in Seq(Tokens)
  PROVE  Only(IdsOf(w), AddedIds) = <<>>
<1>1. IdsOf(w) \in Seq(VocabIds) /\ \A x \in VocabIds : x \notin AddedIds
  BY IdsOfType, NewIdsAssumption DEF AddedIdsAreNew, VocabIds
<1>2. \A i \in 1 .. Len(IdsOf(w)) : IdsOf(w)[i] \notin AddedIds
  BY <1>1, ElementOfSeq
<1> QED BY <1>1, <1>2, OnlyNone

-----------------------------------------------------------------------------
\* The segments of a text, and the ids of the added tokens among them.

Segment == {Special(t) : t \in added_tokens} \cup {Plain(s) : s \in Seq(Byte)}

SegmentIds == [g \in Segment |-> IF g.is_special THEN <<g.id>> ELSE <<>>]

SpecialIds(segs) == FlatMap(SegmentIds, segs)

LEMMA SegmentIdsType == MapsTo(SegmentIds, Segment, AddedIds)
<1>1. ASSUME NEW g \in Segment
      PROVE  (IF g.is_special THEN <<g.id>> ELSE <<>>) \in Seq(AddedIds)
  <2>1. CASE g \in {Special(t) : t \in added_tokens}
    <3>1. PICK t \in added_tokens : g = Special(t)
      BY <2>1
    <3>2. g.is_special /\ g.id = t.id
      BY <3>1 DEF Special
    <3>3. t.id \in AddedIds
      BY DEF AddedIds
    <3>4. <<t.id>> \in Seq(AddedIds)
      BY <3>3
    <3> QED BY <3>2, <3>4
  <2>2. CASE g \in {Plain(s) : s \in Seq(Byte)}
    <3>1. ~g.is_special
      BY <2>2 DEF Plain
    <3> QED BY <3>1, EmptySeq
  <2> QED BY <2>1, <2>2 DEF Segment
<1> QED BY <1>1 DEF MapsTo, SegmentIds

LEMMA SegmentFacts ==
  /\ \A t \in added_tokens :
       /\ Special(t) \in Segment /\ Special(t).is_special
       /\ Special(t).id = t.id /\ SegmentIds[Special(t)] = <<t.id>>
  /\ \A s \in Seq(Byte) :
       /\ Plain(s) \in Segment /\ ~Plain(s).is_special
       /\ Plain(s).text = s /\ SegmentIds[Plain(s)] = <<>>
  /\ \A g \in Segment :
       /\ g.is_special => g.id \in AddedIds /\ SegmentIds[g] = <<g.id>>
       /\ ~g.is_special => g.text \in Seq(Byte) /\ SegmentIds[g] = <<>>
<1>1. \A t \in added_tokens : Special(t) \in Segment /\ Special(t).is_special
                                /\ Special(t).id = t.id
  BY DEF Special, Segment
<1>2. \A s \in Seq(Byte) : Plain(s) \in Segment /\ ~Plain(s).is_special /\ Plain(s).text = s
  BY DEF Plain, Segment
<1>3. ASSUME NEW g \in Segment
      PROVE  /\ g.is_special => g.id \in AddedIds
             /\ ~g.is_special => g.text \in Seq(Byte)
  BY <1>1, <1>2 DEF Segment, AddedIds
<1>4. \A g \in Segment : SegmentIds[g] = IF g.is_special THEN <<g.id>> ELSE <<>>
  BY DEF SegmentIds
<1>5. \A t \in added_tokens : SegmentIds[Special(t)] = <<t.id>>
  BY <1>1, <1>4
<1>6. \A s \in Seq(Byte) : SegmentIds[Plain(s)] = <<>>
  BY <1>2, <1>4
<1>7. ASSUME NEW g \in Segment
      PROVE  /\ g.is_special => SegmentIds[g] = <<g.id>>
             /\ ~g.is_special => SegmentIds[g] = <<>>
  <2>1. SegmentIds[g] = IF g.is_special THEN <<g.id>> ELSE <<>>
    BY <1>4
  <2> QED BY <2>1
<1>8. \A t \in added_tokens :
        /\ Special(t) \in Segment /\ Special(t).is_special
        /\ Special(t).id = t.id /\ SegmentIds[Special(t)] = <<t.id>>
  BY <1>1, <1>5
<1>9. \A s \in Seq(Byte) :
        /\ Plain(s) \in Segment /\ ~Plain(s).is_special
        /\ Plain(s).text = s /\ SegmentIds[Plain(s)] = <<>>
  BY <1>2, <1>6
<1>10. ASSUME NEW g \in Segment
       PROVE  /\ g.is_special => g.id \in AddedIds /\ SegmentIds[g] = <<g.id>>
              /\ ~g.is_special => g.text \in Seq(Byte) /\ SegmentIds[g] = <<>>
  <2>1. (g.is_special => g.id \in AddedIds) /\ (~g.is_special => g.text \in Seq(Byte))
    BY <1>3
  <2>2. /\ g.is_special => SegmentIds[g] = <<g.id>>
        /\ ~g.is_special => SegmentIds[g] = <<>>
    BY <1>7
  <2> QED BY <2>1, <2>2
<1> QED BY <1>8, <1>9, <1>10

LEMMA SpecialIdsFacts ==
  ASSUME NEW segs \in Seq(Segment)
  PROVE  /\ SpecialIds(segs) \in Seq(AddedIds)
         /\ \A t \in added_tokens :
              SpecialIds(Append(segs, Special(t))) = SpecialIds(segs) \o <<t.id>>
         /\ \A s \in Seq(Byte) : SpecialIds(Append(segs, Plain(s))) = SpecialIds(segs)
<1>1. SpecialIds(segs) \in Seq(AddedIds)
  BY SegmentIdsType, FlatMapType DEF SpecialIds
<1>2. \A g \in Segment : SpecialIds(Append(segs, g)) = SpecialIds(segs) \o SegmentIds[g]
  BY SegmentIdsType, FlatMapAppend DEF SpecialIds
<1>3. SpecialIds(segs) \o <<>> = SpecialIds(segs)
  BY <1>1, ConcatEmptySeq
<1>4. ASSUME NEW t \in added_tokens
      PROVE  SpecialIds(Append(segs, Special(t))) = SpecialIds(segs) \o <<t.id>>
  <2>1. Special(t) \in Segment /\ SegmentIds[Special(t)] = <<t.id>>
    BY SegmentFacts
  <2> QED BY <1>2, <2>1
<1>5. ASSUME NEW s \in Seq(Byte)
      PROVE  SpecialIds(Append(segs, Plain(s))) = SpecialIds(segs)
  <2>1. Plain(s) \in Segment /\ SegmentIds[Plain(s)] = <<>>
    BY SegmentFacts
  <2> QED BY <1>2, <1>3, <2>1
<1> QED BY <1>1, <1>4, <1>5

\* The first segment gives its own ids, then come those of the others.
LEMMA SpecialIdsHead ==
  ASSUME NEW segs \in Seq(Segment), segs # <<>>
  PROVE  /\ Head(segs) \in Segment /\ Tail(segs) \in Seq(Segment)
         /\ Head(segs).is_special =>
              SpecialIds(segs) = <<Head(segs).id>> \o SpecialIds(Tail(segs))
         /\ ~Head(segs).is_special => SpecialIds(segs) = SpecialIds(Tail(segs))
<1>1. Head(segs) \in Segment /\ Tail(segs) \in Seq(Segment)
  BY HeadTailProperties
<1>2. SpecialIds(segs) = SegmentIds[Head(segs)] \o SpecialIds(Tail(segs))
  BY SegmentIdsType, FlatMapHead DEF SpecialIds
<1>3. <<>> \o SpecialIds(Tail(segs)) = SpecialIds(Tail(segs))
  BY <1>1, SpecialIdsFacts, ConcatEmptySeq
<1> QED BY <1>1, <1>2, <1>3, SegmentFacts

\* A sequence is what comes before its last element, and this.
LEMMA FrontAndLast ==
  ASSUME NEW S, NEW s \in Seq(S), s # <<>>
  PROVE  Front(s) \in Seq(S) /\ Last(s) \in S /\ s = Append(Front(s), Last(s))
<1> DEFINE n == Len(s)
<1>1. n \in Nat /\ n >= 1 /\ n \in 1 .. n
  BY EmptySeq
<1>2. s[n] \in S
  BY <1>1, ElementOfSeq
<1>3. s = SubSeq(s, 1, n - 1) \o <<s[n]>>
  <2>1. 1 \in 1 .. Len(s) /\ n \in 1 .. Len(s)
    BY <1>1
  <2>2. SubSeq(s, 1, n) = SubSeq(s, 1, n - 1) \o <<s[n]>>
    BY <2>1, SubSeqRecursiveSecond
  <2> QED BY <2>2, SubSeqFull
<1>4. SubSeq(s, 1, n - 1) \in Seq(S)
  <2>1. 1 \in Int /\ n - 1 \in Int /\ \A i \in 1 .. n - 1 : i \in 1 .. Len(s)
    BY <1>1
  <2>2. \A i \in 1 .. n - 1 : s[i] \in S
    BY <2>1, ElementOfSeq
  <2> QED BY <2>1, <2>2, SubSeqProperties
<1>5. Last(s) = s[n] /\ Front(s) = SubSeq(s, 1, n - 1)
  BY DEF Last, Front
<1> QED BY <1>2, <1>3, <1>4, <1>5, AppendIsConcat

LEMMA FrontOfAppend ==
  ASSUME NEW S, NEW s \in Seq(S), NEW x \in S
  PROVE  Front(Append(s, x)) = s /\ Last(Append(s, x)) = x
<1> DEFINE t == Append(s, x)
<1>1. t \in Seq(S) /\ t # <<>>
  BY AppendProperties
<1>2. Front(t) \in Seq(S) /\ Last(t) \in S /\ t = Append(Front(t), Last(t))
  <2> HIDE DEF t
  <2> QED BY <1>1, FrontAndLast
<1> DEFINE f == Front(t)
           l == Last(t)
<1>3. f \in Seq(S) /\ l \in S /\ Append(s, x) = Append(f, l)
  BY <1>2
<1> HIDE DEF f, l
<1>4. s = f /\ x = l
  BY <1>3, AppendInjective
<1> QED BY <1>4 DEF f, l

\* A plain segment may be replaced by a longer one.
LEMMA SpecialIdsLast ==
  ASSUME NEW segs \in Seq(Segment), segs # <<>>, ~Last(segs).is_special, NEW s \in Seq(Byte)
  PROVE  /\ Last(segs) \in Segment /\ Last(segs).text \in Seq(Byte)
         /\ Front(segs) \in Seq(Segment) /\ segs = Append(Front(segs), Last(segs))
         /\ SpecialIds(Append(Front(segs), Plain(s))) = SpecialIds(segs)
<1>1. /\ Last(segs) \in Segment /\ Front(segs) \in Seq(Segment)
      /\ segs = Append(Front(segs), Last(segs))
  BY FrontAndLast
<1>2. Last(segs).text \in Seq(Byte) /\ SegmentIds[Last(segs)] = <<>>
  BY <1>1, SegmentFacts
<1>3. SpecialIds(Append(Front(segs), Last(segs))) = SpecialIds(Front(segs))
  <2>1. SpecialIds(Append(Front(segs), Last(segs)))
          = SpecialIds(Front(segs)) \o SegmentIds[Last(segs)]
    BY <1>1, SegmentIdsType, FlatMapAppend DEF SpecialIds
  <2> QED BY <1>1, <1>2, <2>1, SpecialIdsFacts, ConcatEmptySeq
<1>4. SpecialIds(Append(Front(segs), Plain(s))) = SpecialIds(Front(segs))
  BY <1>1, SpecialIdsFacts
<1> QED BY <1>1, <1>2, <1>3, <1>4

-----------------------------------------------------------------------------
\* Cutting what is left of a text once more.
LEMMA FromFrom ==
  ASSUME NEW S, NEW s \in Seq(S), NEW k \in 1 .. Len(s) + 1, NEW n \in 0 .. Len(s) - k + 1
  PROVE  SubSeq(From(s, k), n + 1, Len(From(s, k))) = From(s, k + n)
<1> DEFINE r == From(s, k)
           a == From(r, n + 1)
           b == From(s, k + n)
<1>0. Len(s) \in Nat /\ k \in Int /\ n \in Int
  BY LenProperties
<1>1. /\ r \in Seq(S) /\ Len(r) = Len(s) - k + 1
      /\ \A j \in 1 .. Len(s) - k + 1 : r[j] = s[k + j - 1]
  BY FromFacts
<1>2. k + n \in 1 .. Len(s) + 1
  BY <1>0
<1>3. /\ b \in Seq(S) /\ Len(b) = Len(s) - (k + n) + 1
      /\ \A j \in 1 .. Len(s) - (k + n) + 1 : b[j] = s[(k + n) + j - 1]
  BY <1>2, FromFacts
<1> HIDE DEF r
<1>4. n + 1 \in 1 .. Len(r) + 1
  BY <1>0, <1>1
<1>r. r \in Seq(S)
  BY <1>1
<1>5. /\ a \in Seq(S) /\ Len(a) = Len(r) - (n + 1) + 1
      /\ \A j \in 1 .. Len(r) - (n + 1) + 1 : a[j] = r[(n + 1) + j - 1]
  <2> DEFINE m == n + 1
  <2>1. m \in 1 .. Len(r) + 1
    BY <1>4
  <2> HIDE DEF m
  <2>2. /\ From(r, m) \in Seq(S) /\ Len(From(r, m)) = Len(r) - m + 1
        /\ \A j \in 1 .. Len(r) - m + 1 : From(r, m)[j] = r[m + j - 1]
    BY <1>r, <2>1, FromFacts
  <2> QED BY <2>2 DEF m
<1> HIDE DEF a, b
<1>6. Len(a) = Len(b) /\ Len(a) = Len(s) - k - n + 1
  BY <1>0, <1>1, <1>3, <1>5
<1>7. ASSUME NEW j \in 1 .. Len(a) PROVE a[j] = b[j]
  <2>1. a[j] = r[(n + 1) + j - 1]
    BY <1>0, <1>1, <1>5, <1>6
  <2>2. (n + 1) + j - 1 \in 1 .. Len(s) - k + 1 /\ k + ((n + 1) + j - 1) - 1 = (k + n) + j - 1
    BY <1>0, <1>6
  <2>3. r[(n + 1) + j - 1] = s[(k + n) + j - 1]
    BY <1>1, <2>2
  <2>4. j \in 1 .. Len(s) - (k + n) + 1
    BY <1>0, <1>6
  <2> QED BY <1>3, <2>1, <2>3, <2>4
<1>8. a = b
  BY <1>3, <1>5, <1>6, <1>7, SeqEqual
<1> QED BY <1>8 DEF a, b, r, From

-----------------------------------------------------------------------------
(* The inductive invariant. At every step, the added tokens whose ids are  *)
(* in the result, those that wait as segments and those that are still to  *)
(* be cut off are the added tokens of the text, in this order; and while a *)
(* segment is split, the pieces taken and the words of the regular         *)
(* expression from the place reached on are all the words of the segment.  *)

Working == {"pre_tokenize", "piece", "bpe"}

\* What the variables hold.
TypeInv ==
  /\ pc \in {"split", "segment", "done"} \cup Working
  /\ text \in Seq(Byte)
  /\ segments \in Seq(Segment)
  /\ cut \in 0 .. Len(text)
  /\ rest \in Seq(Codes)
  /\ pieces \in Seq(Seq(Byte))
  /\ word \in Seq(Tokens)
  /\ ids \in Seq(AddedIds \cup VocabIds)

\* Which of them are in use at which place of encode().
ControlInv ==
  /\ pc # "split" => cut = Len(text)
  /\ pc \in Working => segments # <<>> /\ ~Head(segments).is_special
  /\ pc \in {"split", "segment"} => pieces = <<>>
  /\ pc = "bpe" => pieces # <<>>
  /\ pc = "done" => segments = <<>>

\* The added tokens found, waiting and still ahead are those of the text.
AddedInv ==
  (Only(ids, AddedIds) \o SpecialIds(segments)) \o AddedFrom(text)[cut + 1] = AddedFrom(text)[1]

AllDefined(cps) == \A i \in 1 .. Len(cps) : IsDefined(cps[i])

\* The pieces before place k of cps and its words from there on are its words.
SplitUpTo(cps, k) ==
  /\ k \in 1 .. Len(cps) + 1
  /\ rest = From(cps, k)
  /\ pieces \o Words(cps)[k] = Words(cps)[1]

\* The words of the segment being split, those ahead included.
WordsInv ==
  pc = "pre_tokenize" =>
    LET cps == utf8_to_codepoints(Head(segments).text)
    IN  AllDefined(cps) => \E k : SplitUpTo(cps, k)

TokenizerInv == TypeInv /\ ControlInv /\ AddedInv /\ WordsInv

LEMMA StartsRight ==
  ASSUME Init
  PROVE  TokenizerInv
<1>1. text \in Seq(Byte) /\ Len(text) \in Nat
  BY FileAssumption, LenProperties DEF Init
<1>2. TypeInv
  <2>1. /\ <<>> \in Seq(Segment) /\ <<>> \in Seq(Codes) /\ <<>> \in Seq(Seq(Byte))
        /\ <<>> \in Seq(Tokens) /\ <<>> \in Seq(AddedIds \cup VocabIds)
    BY EmptySeq
  <2> QED BY <1>1, <2>1 DEF TypeInv, Init
<1>3. ControlInv
  BY DEF ControlInv, Init, Working
<1>4. AddedInv
  <2>1. Only(<<>>, AddedIds) = <<>>
    <3>1. Only(<<>>, AddedIds) = FlatMap(Pick(AddedIds, AddedIds), <<>>)
      BY EmptySeq, OnlyIsFlatMap
    <3> QED BY <3>1, FlatMapEmpty
  <2>2. SpecialIds(<<>>) = <<>>
    BY FlatMapEmpty DEF SpecialIds
  <2>3. 1 \in 1 .. Len(text) + 1
    BY <1>1
  <2>4. AddedFrom(text)[1] \in Seq(AddedIds)
    BY <1>1, <2>3, AddedFromIs
  <2>5. (<<>> \o <<>>) \o AddedFrom(text)[1] = AddedFrom(text)[1]
    BY <2>4, EmptySeq, ConcatEmptySeq
  <2>6. ids = <<>> /\ segments = <<>> /\ cut + 1 = 1
    BY DEF Init
  <2> QED BY <2>1, <2>2, <2>5, <2>6 DEF AddedInv
<1>5. WordsInv
  BY DEF WordsInv, Init
<1> QED BY <1>2, <1>3, <1>4, <1>5 DEF TokenizerInv

LEMMA StutterKeeps ==
  ASSUME TokenizerInv, UNCHANGED vars
  PROVE  TokenizerInv'
<1> USE DEF vars
<1>1. TypeInv'
  BY DEF TokenizerInv, TypeInv
<1>2. ControlInv'
  BY DEF TokenizerInv, ControlInv
<1>3. AddedInv'
  BY DEF TokenizerInv, AddedInv
<1>4. WordsInv'
  BY DEF TokenizerInv, WordsInv, SplitUpTo
<1> QED BY <1>1, <1>2, <1>3, <1>4 DEF TokenizerInv

\* What is found in the text cannot be told from what is found from cut on.
LEMMA UnreadIs ==
  ASSUME TypeInv
  PROVE  /\ Unread = From(text, cut + 1) /\ Unread \in Seq(Byte)
         /\ Unread # <<>> <=> cut + 1 \in 1 .. Len(text)
         /\ Unread # <<>> => Head(Unread) = text[cut + 1]
         /\ cut \in Nat /\ Len(text) \in Nat /\ cut <= Len(text)
         /\ AddedHere = AddedAt(text, cut + 1)
         /\ Longest(AddedHere) = LongestAt(text, cut + 1)
<1>1. text \in Seq(Byte) /\ Len(text) \in Nat /\ cut \in 0 .. Len(text)
  BY LenProperties DEF TypeInv
<1>2. cut \in Nat /\ cut <= Len(text) /\ cut + 1 \in 1 .. Len(text) + 1
  BY <1>1
<1>3. Unread = From(text, cut + 1)
  BY DEF Unread, From
<1>4. /\ From(text, cut + 1) \in Seq(Byte)
      /\ Len(From(text, cut + 1)) = Len(text) - (cut + 1) + 1
      /\ \A j \in 1 .. Len(text) - (cut + 1) + 1 :
           From(text, cut + 1)[j] = text[(cut + 1) + j - 1]
      /\ From(text, cut + 1) = <<>> <=> cut + 1 = Len(text) + 1
  BY <1>1, <1>2, FromFacts, FromEmpty
<1>5. Unread # <<>> <=> cut + 1 \in 1 .. Len(text)
  BY <1>1, <1>2, <1>3, <1>4
<1>6. ASSUME Unread # <<>> PROVE Head(Unread) = text[cut + 1]
  <2>1. Head(Unread) = Unread[1]
    OBVIOUS
  <2>2. 1 \in 1 .. Len(text) - (cut + 1) + 1 /\ (cut + 1) + 1 - 1 = cut + 1
    BY <1>1, <1>2, <1>5, <1>6
  <2> QED BY <1>3, <1>4, <2>1, <2>2
<1>7. AddedHere = AddedAt(text, cut + 1)
  BY <1>3 DEF AddedHere, AddedAt
<1>8. Longest(AddedHere) = LongestAt(text, cut + 1)
  BY <1>7 DEF Longest, LongestAt
<1> QED BY <1>1, <1>2, <1>3, <1>4, <1>5, <1>6, <1>7, <1>8

\* The parts of the invariant on added tokens are sequences of ids.
LEMMA AddedParts ==
  ASSUME TypeInv
  PROVE  /\ Only(ids, AddedIds) \in Seq(AddedIds) /\ SpecialIds(segments) \in Seq(AddedIds)
         /\ \A i \in 1 .. Len(text) + 1 : AddedFrom(text)[i] \in Seq(AddedIds)
         /\ cut + 1 \in 1 .. Len(text) + 1
<1>1. Only(ids, AddedIds) \in Seq(AddedIds)
  BY OnlyType DEF TypeInv
<1>2. SpecialIds(segments) \in Seq(AddedIds)
  BY SpecialIdsFacts DEF TypeInv
<1>3. \A i \in 1 .. Len(text) + 1 : AddedFrom(text)[i] \in Seq(AddedIds)
  BY AddedFromIs DEF TypeInv
<1>4. cut + 1 \in 1 .. Len(text) + 1
  BY UnreadIs
<1> QED BY <1>1, <1>2, <1>3, <1>4

LEMMA CutAddedKeeps ==
  ASSUME TokenizerInv, CutAdded
  PROVE  TokenizerInv'
<1> USE DEF TokenizerInv
<1>1. PICK t \in CutAt : segments' = Append(segments, Special(t)) /\ cut' = cut + Len(t.content)
  BY DEF CutAdded
<1>2. /\ pc' = pc /\ text' = text /\ rest' = rest /\ pieces' = pieces
      /\ word' = word /\ ids' = ids /\ pc = "split" /\ Unread # <<>>
  BY DEF CutAdded
<1>3. /\ AddedAt(text, cut + 1) # {} /\ t = LongestAt(text, cut + 1)
      /\ cut + 1 \in 1 .. Len(text) /\ cut \in Nat /\ Len(text) \in Nat
  <2>1. AddedHere # {} /\ t = Longest(AddedHere)
    BY DEF CutAt
  <2> QED BY <1>2, <2>1, UnreadIs
<1>4. t \in added_tokens /\ Len(t.content) \in 1 .. Len(text) - (cut + 1) + 1
  BY <1>3, LongestFacts DEF TypeInv
<1>5. TypeInv'
  <2>1. segments' \in Seq(Segment)
    <3>1. Special(t) \in Segment
      BY <1>4, SegmentFacts
    <3> QED BY <1>1, <3>1, AppendProperties DEF TypeInv
  <2>2. cut' \in 0 .. Len(text)
    <3> DEFINE n == Len(t.content)
    <3>1. n \in 1 .. Len(text) - (cut + 1) + 1 /\ cut' = cut + n
      BY <1>1, <1>4
    <3> HIDE DEF n
    <3> QED BY <1>3, <3>1
  <2> QED BY <1>2, <2>1, <2>2 DEF TypeInv
<1>6. ControlInv'
  BY <1>2 DEF ControlInv, Working
<1>7. AddedInv'
  <2> DEFINE A == Only(ids, AddedIds)
             B == SpecialIds(segments)
             F == AddedFrom(text)
             c == <<t.id>>
             d == F[(cut + 1) + Len(t.content)]
  <2>1. F[cut + 1] = c \o d
    BY <1>3, AddedFromIs DEF TypeInv
  <2>2. cut' + 1 = (cut + 1) + Len(t.content)
    <3> DEFINE n == Len(t.content)
    <3>1. n \in Int /\ cut' = cut + n
      BY <1>1, <1>4
    <3> HIDE DEF n
    <3>2. cut' + 1 = (cut + 1) + n
      BY <1>3, <3>1
    <3> QED BY <3>2 DEF n
  <2>3. SpecialIds(segments') = B \o c
    BY <1>1, <1>4, SpecialIdsFacts DEF TypeInv
  <2>4. A \in Seq(AddedIds) /\ B \in Seq(AddedIds)
    BY AddedParts
  <2>5. c \in Seq(AddedIds)
    <3>1. t.id \in AddedIds
      BY <1>4 DEF AddedIds
    <3> QED BY <3>1
  <2>6. d \in Seq(AddedIds)
    <3> DEFINE n == Len(t.content)
    <3>1. n \in 1 .. Len(text) - (cut + 1) + 1
      BY <1>4
    <3>2. (cut + 1) + n \in 1 .. Len(text) + 1
      <4> HIDE DEF n
      <4> QED BY <1>3, <3>1
    <3> QED BY <3>2, AddedParts
  <2>7. (A \o B) \o F[cut + 1] = F[1]
    BY DEF AddedInv
  <2> HIDE DEF A, B, F, c, d
  <2>8. (A \o (B \o c)) \o d = (A \o B) \o (c \o d)
    <3> DEFINE E == A \o B
    <3>1. E \o c = A \o (B \o c)
      BY <2>4, <2>5, ConcatAssociative
    <3>2. E \in Seq(AddedIds)
      BY <2>4, ConcatProperties
    <3> HIDE DEF E
    <3>3. (E \o c) \o d = E \o (c \o d)
      BY <2>5, <2>6, <3>2, ConcatAssociative
    <3> QED BY <3>1, <3>3 DEF E
  <2>9. (A \o SpecialIds(segments')) \o F[cut' + 1] = F[1]
    BY <2>1, <2>2, <2>3, <2>7, <2>8 DEF d
  <2> QED BY <1>2, <2>9 DEF AddedInv, A, F
<1>8. WordsInv'
  BY <1>2 DEF WordsInv
<1> QED BY <1>5, <1>6, <1>7, <1>8

LEMMA CutByteKeeps ==
  ASSUME TokenizerInv, CutByte
  PROVE  TokenizerInv'
<1> USE DEF TokenizerInv
<1> DEFINE grows == segments # <<>> /\ ~Last(segments).is_special
           b == Head(Unread)
<1>1. /\ grows => segments' = Append(Front(segments), Plain(Append(Last(segments).text, b)))
      /\ ~grows => segments' = Append(segments, Plain(<<b>>))
      /\ cut' = cut + 1
  BY DEF CutByte
<1>2. /\ pc' = pc /\ text' = text /\ rest' = rest /\ pieces' = pieces
      /\ word' = word /\ ids' = ids /\ pc = "split" /\ Unread # <<>> /\ CutAt = {}
  BY DEF CutByte
<1>3. /\ AddedAt(text, cut + 1) = {} /\ b = text[cut + 1]
      /\ cut + 1 \in 1 .. Len(text) /\ cut \in Nat /\ Len(text) \in Nat
  <2>1. AddedHere = {}
    BY <1>2 DEF CutAt
  <2> QED BY <1>2, <2>1, UnreadIs
<1>4. b \in Byte
  BY <1>3, ElementOfSeq DEF TypeInv
<1> HIDE DEF b
<1>5. segments' \in Seq(Segment) /\ SpecialIds(segments') = SpecialIds(segments)
  <2>1. CASE grows
    <3> DEFINE s == Append(Last(segments).text, b)
    <3>1. /\ Last(segments).text \in Seq(Byte) /\ Front(segments) \in Seq(Segment)
      <4>1. <<>> \in Seq(Byte)
        BY EmptySeq
      <4> QED BY <2>1, <4>1, SpecialIdsLast DEF TypeInv
    <3>2. s \in Seq(Byte)
      BY <1>4, <3>1, AppendProperties
    <3>3. segments' = Append(Front(segments), Plain(s))
      BY <1>1, <2>1
    <3> HIDE DEF s
    <3>4. SpecialIds(Append(Front(segments), Plain(s))) = SpecialIds(segments)
      BY <2>1, <3>2, SpecialIdsLast DEF TypeInv
    <3>5. Plain(s) \in Segment
      BY <3>2, SegmentFacts
    <3> QED BY <3>1, <3>3, <3>4, <3>5, AppendProperties
  <2>2. CASE ~grows
    <3> DEFINE s == <<b>>
    <3>1. s \in Seq(Byte) /\ segments' = Append(segments, Plain(s))
      BY <1>1, <1>4, <2>2
    <3> HIDE DEF s
    <3>2. Plain(s) \in Segment /\ SpecialIds(Append(segments, Plain(s))) = SpecialIds(segments)
      BY <3>1, SegmentFacts, SpecialIdsFacts DEF TypeInv
    <3> QED BY <3>1, <3>2, AppendProperties DEF TypeInv
  <2> QED BY <2>1, <2>2
<1>6. TypeInv'
  <2>1. cut' \in 0 .. Len(text)
    BY <1>1, <1>3
  <2> QED BY <1>2, <1>5, <2>1 DEF TypeInv
<1>7. ControlInv'
  BY <1>2 DEF ControlInv, Working
<1>8. AddedInv'
  <2>1. AddedFrom(text)[cut + 1] = AddedFrom(text)[(cut + 1) + 1]
    BY <1>3, AddedFromIs DEF TypeInv
  <2>2. (Only(ids, AddedIds) \o SpecialIds(segments)) \o AddedFrom(text)[cut + 1]
          = AddedFrom(text)[1]
    BY DEF AddedInv
  <2> QED BY <1>1, <1>2, <1>5, <2>1, <2>2 DEF AddedInv
<1>9. WordsInv'
  BY <1>2 DEF WordsInv
<1> QED BY <1>6, <1>7, <1>8, <1>9

LEMMA EndSplitKeeps ==
  ASSUME TokenizerInv, EndSplit
  PROVE  TokenizerInv'
<1> USE DEF TokenizerInv
<1>1. /\ pc = "split" /\ pc' = "segment" /\ Unread = <<>>
      /\ text' = text /\ segments' = segments /\ cut' = cut /\ rest' = rest
      /\ pieces' = pieces /\ word' = word /\ ids' = ids
  BY DEF EndSplit
<1>2. cut = Len(text)
  <2>1. ~(cut + 1 \in 1 .. Len(text)) /\ cut \in Nat /\ Len(text) \in Nat /\ cut <= Len(text)
    BY <1>1, UnreadIs
  <2> QED BY <2>1
<1>3. TypeInv'
  BY <1>1 DEF TypeInv
<1>4. ControlInv'
  BY <1>1, <1>2 DEF ControlInv, Working
<1>5. AddedInv'
  BY <1>1 DEF AddedInv
<1>6. WordsInv'
  BY <1>1 DEF WordsInv
<1> QED BY <1>3, <1>4, <1>5, <1>6

LEMMA TakeSpecialKeeps ==
  ASSUME TokenizerInv, TakeSpecial
  PROVE  TokenizerInv'
<1> USE DEF TokenizerInv
<1> DEFINE x == Head(segments).id
<1>1. /\ pc = "segment" /\ segments # <<>> /\ Head(segments).is_special
      /\ ids' = Append(ids, x) /\ segments' = Tail(segments)
      /\ pc' = pc /\ text' = text /\ cut' = cut /\ rest' = rest
      /\ pieces' = pieces /\ word' = word
  BY DEF TakeSpecial
<1>2. /\ Head(segments) \in Segment /\ Tail(segments) \in Seq(Segment)
      /\ SpecialIds(segments) = <<x>> \o SpecialIds(Tail(segments))
  BY <1>1, SpecialIdsHead DEF TypeInv
<1>3. x \in AddedIds
  BY <1>1, <1>2, SegmentFacts
<1> HIDE DEF x
<1> DEFINE I == AddedIds \cup VocabIds
<1>4. ids \in Seq(I) /\ x \in I /\ <<x>> \in Seq(I)
  BY <1>3 DEF TypeInv
<1> HIDE DEF I
<1>5. ids' \in Seq(I)
  BY <1>1, <1>4, AppendProperties
<1>6. TypeInv'
  BY <1>1, <1>2, <1>5 DEF TypeInv, I
<1>7. ControlInv'
  BY <1>1 DEF ControlInv, Working
<1>8. AddedInv'
  <2> DEFINE A == Only(ids, AddedIds)
             B == SpecialIds(Tail(segments))
             c == <<x>>
  <2>1. ids' = ids \o c
    BY <1>1, <1>4, AppendIsConcat
  <2>2. Only(ids \o c, AddedIds) = A \o Only(c, AddedIds)
    BY <1>4, OnlyConcat
  <2>3. Only(c, AddedIds) = c
    BY <1>3, OnlyOne
  <2>4. A \in Seq(AddedIds) /\ B \in Seq(AddedIds) /\ c \in Seq(AddedIds)
    BY <1>2, <1>3, AddedParts, SpecialIdsFacts
  <2> HIDE DEF A, B, c
  <2>5. (A \o c) \o B = A \o (c \o B)
    BY <2>4, ConcatAssociative
  <2>6. (A \o (c \o B)) \o AddedFrom(text)[cut + 1] = AddedFrom(text)[1]
    BY <1>2 DEF AddedInv, A, B, c
  <2>7. Only(ids', AddedIds) = A \o c /\ SpecialIds(segments') = B
    BY <1>1, <2>1, <2>2, <2>3 DEF B
  <2> QED BY <1>1, <2>5, <2>6, <2>7 DEF AddedInv
<1>9. WordsInv'
  BY <1>1 DEF WordsInv
<1> QED BY <1>6, <1>7, <1>8, <1>9

LEMMA TakePlainKeeps ==
  ASSUME TokenizerInv, TakePlain
  PROVE  TokenizerInv'
<1> USE DEF TokenizerInv
<1> DEFINE cps == utf8_to_codepoints(Head(segments).text)
<1>1. /\ pc = "segment" /\ segments # <<>> /\ ~Head(segments).is_special
      /\ rest' = cps /\ pc' = "pre_tokenize"
      /\ text' = text /\ segments' = segments /\ cut' = cut
      /\ pieces' = pieces /\ word' = word /\ ids' = ids
  BY DEF TakePlain
<1>2. cps \in Seq(Codes)
  <2>1. Head(segments) \in Segment
    BY <1>1, SpecialIdsHead DEF TypeInv
  <2>2. Head(segments).text \in Seq(Byte)
    BY <1>1, <2>1, SegmentFacts
  <2> QED BY <2>2, DecodedType
<1> HIDE DEF cps
<1>3. TypeInv'
  BY <1>1, <1>2 DEF TypeInv, Working
<1>4. ControlInv'
  BY <1>1 DEF ControlInv, Working
<1>5. AddedInv'
  BY <1>1 DEF AddedInv
<1>6. WordsInv'
  <2>1. Len(cps) \in Nat /\ 1 \in 1 .. Len(cps) + 1
    BY <1>2, LenProperties
  <2>2. From(cps, 1) = cps
    BY <1>2, SubSeqFull DEF From
  <2>3. pieces = <<>>
    BY <1>1 DEF ControlInv
  <2>4. <<>> \o Words(cps)[1] = Words(cps)[1]
    <3>1. Words(cps)[1] \in Seq(Seq(Byte))
      <4>1. \A t \in Seq(Codes) : codepoints_to_utf8(t) \in Seq(Byte)
        BY EncodedIs
      <4> QED BY <1>2, <2>1, <4>1, WordsIs
    <3> QED BY <3>1, ConcatEmptySeq
  <2>5. SplitUpTo(cps, 1)'
    BY <1>1, <2>1, <2>2, <2>3, <2>4 DEF SplitUpTo, cps
  <2> QED BY <1>1, <2>5 DEF WordsInv, cps
<1> QED BY <1>3, <1>4, <1>5, <1>6

\* A branch of the loop over the code points of a segment.
LEMMA TakeKeeps ==
  ASSUME TokenizerInv, NEW branch \in 1 .. 8, Take(branch)
  PROVE  TokenizerInv'
<1> USE DEF TokenizerInv
<1> DEFINE n == Branches(rest)[branch]
           piece == codepoints_to_utf8(SubSeq(rest, 1, n))
           tail == SubSeq(rest, n + 1, Len(rest))
           cps == utf8_to_codepoints(Head(segments).text)
<1>1. /\ pc = "pre_tokenize" /\ rest # <<>> /\ n > 0
      /\ \A b \in 1 .. branch - 1 : Branches(rest)[b] = 0
      /\ pieces' = Append(pieces, piece) /\ rest' = tail
      /\ pc' = pc /\ text' = text /\ segments' = segments /\ cut' = cut
      /\ word' = word /\ ids' = ids
  BY DEF Take
<1>2. rest \in Seq(Codes) /\ Len(rest) \in Nat
  BY LenProperties DEF TypeInv
<1>3. n \in 0 .. Len(rest)
  BY <1>1, <1>2, BranchTypes
<1>4. n \in 1 .. Len(rest)
  <2> HIDE DEF n
  <2> QED BY <1>1, <1>2, <1>3
<1>5. piece \in Seq(Byte)
  <2> HIDE DEF n
  <2>1. 1 \in Int /\ n \in Int /\ \A i \in 1 .. n : i \in 1 .. Len(rest)
    BY <1>2, <1>4
  <2>2. \A i \in 1 .. n : rest[i] \in Codes
    BY <1>2, <2>1, ElementOfSeq
  <2>3. SubSeq(rest, 1, n) \in Seq(Codes)
    BY <2>1, <2>2, SubSeqProperties
  <2> QED BY <2>3, EncodedIs
<1>6. tail \in Seq(Codes)
  <2> HIDE DEF n
  <2>1. n + 1 \in 1 .. Len(rest) + 1
    BY <1>2, <1>4
  <2> QED BY <1>2, <2>1, FromFacts DEF From
<1> HIDE DEF n, piece, tail
<1>7. pieces \in Seq(Seq(Byte)) /\ pieces' = pieces \o <<piece>> /\ pieces' \in Seq(Seq(Byte))
  <2> DEFINE Q == Seq(Byte)
  <2>1. pieces \in Seq(Q) /\ piece \in Q
    BY <1>5 DEF TypeInv
  <2> HIDE DEF Q
  <2>2. Append(pieces, piece) \in Seq(Q) /\ Append(pieces, piece) = pieces \o <<piece>>
    BY <2>1, AppendProperties, AppendIsConcat
  <2> QED BY <1>1, <2>1, <2>2 DEF Q
<1>8. TypeInv'
  BY <1>1, <1>6, <1>7 DEF TypeInv
<1>9. ControlInv'
  BY <1>1 DEF ControlInv, Working
<1>10. AddedInv'
  BY <1>1 DEF AddedInv
<1>11. cps \in Seq(Codes)
  <2>1. segments \in Seq(Segment) /\ segments # <<>> /\ ~Head(segments).is_special
    BY <1>1 DEF TypeInv, ControlInv, Working
  <2>2. Head(segments) \in Segment
    BY <2>1, SpecialIdsHead
  <2>3. Head(segments).text \in Seq(Byte)
    BY <2>1, <2>2, SegmentFacts
  <2> QED BY <2>3, DecodedType
<1>12. AllDefined(cps) => \E k : SplitUpTo(cps, k)
  BY <1>1 DEF WordsInv
<1> HIDE DEF cps
<1>13. ASSUME AllDefined(cps)
       PROVE  \E k : SplitUpTo(cps, k)'
  <2>1. PICK k : SplitUpTo(cps, k)
    BY <1>12, <1>13
  <2>2. /\ k \in 1 .. Len(cps) + 1 /\ rest = From(cps, k)
        /\ pieces \o Words(cps)[k] = Words(cps)[1]
    BY <2>1 DEF SplitUpTo
  <2>3. Len(cps) \in Nat /\ k \in 1 .. Len(cps) /\ Len(rest) = Len(cps) - k + 1
    <3>1. k # Len(cps) + 1
      BY <1>1, <1>11, <2>2, FromEmpty
    <3>2. Len(cps) \in Nat /\ Len(rest) = Len(cps) - k + 1
      BY <1>11, <2>2, FromFacts, LenProperties
    <3> QED BY <2>2, <3>1, <3>2
  <2>4. \A i \in 1 .. Len(rest) : IsDefined(rest[i])
    <3>1. \A i \in 1 .. Len(cps) - k + 1 : rest[i] = cps[k + i - 1]
      BY <1>11, <2>2, FromFacts
    <3>2. \A i \in 1 .. Len(cps) - k + 1 : k + i - 1 \in 1 .. Len(cps)
      BY <2>3
    <3> QED BY <1>13, <2>3, <3>1, <3>2 DEF AllDefined
  <2>5. n = MatchLength(From(cps, k))
    <3>1. n = MatchLength(rest)
      BY <1>1, <1>2, <2>4, BranchIsMatch DEF n
    <3> QED BY <2>2, <3>1
  <2>6. \A t \in Seq(Codes) : codepoints_to_utf8(t) \in Seq(Byte)
    BY EncodedIs
  <2> DEFINE Q == Seq(Byte)
             W == Words(cps)
  <2>7. /\ W[k] = <<piece>> \o W[k + n] /\ W[k + n] \in Seq(Q)
        /\ k + n \in 1 .. Len(cps) + 1
    <3>1. \A t \in Seq(Codes) : codepoints_to_utf8(t) \in Q
      BY <2>6
    <3> HIDE DEF Q
    <3>2. /\ MatchLength(From(cps, k)) \in 1 .. Len(cps) - k + 1
          /\ W[k] = <<codepoints_to_utf8(SubSeq(From(cps, k), 1, MatchLength(From(cps, k))))>>
                      \o W[k + MatchLength(From(cps, k))]
      BY <1>11, <2>3, <3>1, WordsIs
    <3>3. W[k] = <<piece>> \o W[k + n] /\ n \in 1 .. Len(cps) - k + 1
      BY <2>2, <2>5, <3>2 DEF piece
    <3>4. k + n \in 1 .. Len(cps) + 1
      BY <2>3, <3>3
    <3>5. W[k + n] \in Seq(Q)
      BY <1>11, <3>1, <3>4, WordsIs
    <3> QED BY <3>3, <3>4, <3>5
  <2>8. pieces' \o W[k + n] = W[1]
    <3>1. pieces \in Seq(Q) /\ <<piece>> \in Seq(Q) /\ pieces' = pieces \o <<piece>>
      BY <1>5, <1>7
    <3> DEFINE p == <<piece>>
               w == W[k + n]
    <3> HIDE DEF p, w, Q, W
    <3>2. (pieces \o p) \o w = pieces \o (p \o w)
      <4>1. pieces \in Seq(Q) /\ p \in Seq(Q) /\ w \in Seq(Q)
        BY <2>7, <3>1 DEF p, w
      <4> QED BY <4>1, ConcatAssociative
    <3> QED BY <2>2, <2>7, <3>1, <3>2 DEF p, w, W
  <2>9. rest' = From(cps, k + n)
    <3>1. n \in 0 .. Len(cps) - k + 1
      BY <1>4, <2>3
    <3>2. SubSeq(From(cps, k), n + 1, Len(From(cps, k))) = From(cps, k + n)
      BY <1>11, <2>2, <3>1, FromFrom
    <3> QED BY <1>1, <2>2, <3>2 DEF tail
  <2>10. PICK m : m = k + n
    OBVIOUS
  <2>11. cps' = cps
    BY <1>1 DEF cps
  <2>12. SplitUpTo(cps, m)'
    BY <2>7, <2>8, <2>9, <2>10, <2>11 DEF SplitUpTo
  <2> QED BY <2>12
<1>14. WordsInv'
  BY <1>1, <1>13 DEF WordsInv, cps
<1> QED BY <1>8, <1>9, <1>10, <1>14

LEMMA EndPreTokenizeKeeps ==
  ASSUME TokenizerInv, EndPreTokenize
  PROVE  TokenizerInv'
<1> USE DEF TokenizerInv
<1>1. /\ pc = "pre_tokenize" /\ pc' = "piece"
      /\ text' = text /\ segments' = segments /\ cut' = cut /\ rest' = rest
      /\ pieces' = pieces /\ word' = word /\ ids' = ids
  BY DEF EndPreTokenize
<1>2. TypeInv'
  BY <1>1 DEF TypeInv, Working
<1>3. ControlInv'
  BY <1>1 DEF ControlInv, Working
<1>4. AddedInv'
  BY <1>1 DEF AddedInv
<1>5. WordsInv'
  BY <1>1 DEF WordsInv
<1> QED BY <1>2, <1>3, <1>4, <1>5

LEMMA StartPieceKeeps ==
  ASSUME TokenizerInv, StartPiece
  PROVE  TokenizerInv'
<1> USE DEF TokenizerInv
<1>1. /\ pc = "piece" /\ pieces # <<>> /\ word' = byte_encode(Head(pieces)) /\ pc' = "bpe"
      /\ text' = text /\ segments' = segments /\ cut' = cut /\ rest' = rest
      /\ pieces' = pieces /\ ids' = ids
  BY DEF StartPiece
<1>2. word' \in Seq(Tokens)
  <2> DEFINE Q == Seq(Byte)
  <2>1. pieces \in Seq(Q)
    BY DEF TypeInv
  <2>2. Head(pieces) \in Q
    <3> HIDE DEF Q
    <3> QED BY <1>1, <2>1, HeadTailProperties
  <2> QED BY <1>1, <2>2, EncodedBytes
<1>3. TypeInv'
  BY <1>1, <1>2 DEF TypeInv, Working
<1>4. ControlInv'
  BY <1>1 DEF ControlInv, Working
<1>5. AddedInv'
  BY <1>1 DEF AddedInv
<1>6. WordsInv'
  BY <1>1 DEF WordsInv
<1> QED BY <1>3, <1>4, <1>5, <1>6

LEMMA MergeKeeps ==
  ASSUME TokenizerInv, Merge
  PROVE  TokenizerInv'
<1> USE DEF TokenizerInv
<1>1. /\ pc = "bpe" /\ Mergeable(word) # {} /\ word' = MergedAt(word, BestPair(word))
      /\ pc' = pc /\ text' = text /\ segments' = segments /\ cut' = cut /\ rest' = rest
      /\ pieces' = pieces /\ ids' = ids
  BY DEF Merge
<1>2. word' \in Seq(Tokens)
  <2>1. word \in Seq(Tokens)
    BY DEF TypeInv
  <2>2. BestPair(word) \in Mergeable(word)
    BY <1>1, <2>1, BestPairIs
  <2> QED BY <1>1, <2>1, <2>2, MergedType
<1>3. TypeInv'
  BY <1>1, <1>2 DEF TypeInv
<1>4. ControlInv'
  BY <1>1 DEF ControlInv, Working
<1>5. AddedInv'
  BY <1>1 DEF AddedInv
<1>6. WordsInv'
  BY <1>1 DEF WordsInv
<1> QED BY <1>3, <1>4, <1>5, <1>6

LEMMA EndPieceKeeps ==
  ASSUME TokenizerInv, EndPiece
  PROVE  TokenizerInv'
<1> USE DEF TokenizerInv
<1> DEFINE new == IdsOf(word)
           I == AddedIds \cup VocabIds
<1>1. /\ pc = "bpe" /\ pc' = "piece" /\ word' = <<>>
      /\ ids' = ids \o new /\ pieces' = Tail(pieces)
      /\ text' = text /\ segments' = segments /\ cut' = cut /\ rest' = rest
  BY DEF EndPiece, IdsOf
<1>2. new \in Seq(I) /\ ids \in Seq(I)
  <2>1. new \in Seq(VocabIds)
    BY IdsOfType DEF TypeInv
  <2>2. VocabIds \subseteq I
    OBVIOUS
  <2>3. ids \in Seq(I)
    BY DEF TypeInv
  <2> HIDE DEF I, new
  <2> QED BY <2>1, <2>2, <2>3, SeqMonotonic
<1>3. Only(new, AddedIds) = <<>>
  BY IdsOfAreNew DEF TypeInv
<1> HIDE DEF new, I
<1>4. ids \o new \in Seq(I)
  BY <1>2, ConcatProperties
<1>5. pieces # <<>> /\ Tail(pieces) \in Seq(Seq(Byte))
  <2> DEFINE Q == Seq(Byte)
  <2>1. pieces \in Seq(Q) /\ pieces # <<>>
    BY <1>1 DEF TypeInv, ControlInv
  <2>2. Tail(pieces) \in Seq(Q)
    <3> HIDE DEF Q
    <3> QED BY <2>1, HeadTailProperties
  <2> QED BY <2>1, <2>2
<1>6. TypeInv'
  <2>1. <<>> \in Seq(Tokens)
    BY EmptySeq
  <2> QED BY <1>1, <1>4, <1>5, <2>1 DEF TypeInv, I, Working
<1>7. ControlInv'
  BY <1>1 DEF ControlInv, Working
<1>8. AddedInv'
  <2>1. Only(ids \o new, AddedIds) = Only(ids, AddedIds) \o Only(new, AddedIds)
    BY <1>2, OnlyConcat
  <2>2. Only(ids, AddedIds) \o <<>> = Only(ids, AddedIds)
    BY AddedParts, ConcatEmptySeq
  <2> QED BY <1>1, <1>3, <2>1, <2>2 DEF AddedInv
<1>9. WordsInv'
  BY <1>1 DEF WordsInv
<1> QED BY <1>6, <1>7, <1>8, <1>9

LEMMA EndSegmentKeeps ==
  ASSUME TokenizerInv, EndSegment
  PROVE  TokenizerInv'
<1> USE DEF TokenizerInv
<1>1. /\ pc = "piece" /\ pieces = <<>> /\ pc' = "segment" /\ segments' = Tail(segments)
      /\ text' = text /\ cut' = cut /\ rest' = rest /\ pieces' = pieces
      /\ word' = word /\ ids' = ids
  BY DEF EndSegment
<1>2. segments # <<>> /\ ~Head(segments).is_special
  BY <1>1 DEF ControlInv, Working
<1>3. Tail(segments) \in Seq(Segment) /\ SpecialIds(segments) = SpecialIds(Tail(segments))
  BY <1>2, SpecialIdsHead DEF TypeInv
<1>4. TypeInv'
  BY <1>1, <1>3 DEF TypeInv
<1>5. ControlInv'
  BY <1>1 DEF ControlInv, Working
<1>6. AddedInv'
  BY <1>1, <1>3 DEF AddedInv
<1>7. WordsInv'
  BY <1>1 DEF WordsInv
<1> QED BY <1>4, <1>5, <1>6, <1>7

LEMMA DecodeKeeps ==
  ASSUME TokenizerInv, Decode
  PROVE  TokenizerInv'
<1> USE DEF TokenizerInv
<1>1. /\ pc = "segment" /\ segments = <<>> /\ pc' = "done"
      /\ text' = text /\ segments' = segments /\ cut' = cut /\ rest' = rest
      /\ pieces' = pieces /\ word' = word /\ ids' = ids
  BY DEF Decode
<1>2. TypeInv'
  BY <1>1 DEF TypeInv
<1>3. ControlInv'
  BY <1>1 DEF ControlInv, Working
<1>4. AddedInv'
  BY <1>1 DEF AddedInv
<1>5. WordsInv'
  BY <1>1 DEF WordsInv
<1> QED BY <1>2, <1>3, <1>4, <1>5

-----------------------------------------------------------------------------
\* The invariant holds in every reachable state of the tokenizer.
THEOREM TokenizerInvariant == Spec => []TokenizerInv
<1>1. Init => TokenizerInv
  BY StartsRight
<1>2. TokenizerInv /\ [Next]_vars => TokenizerInv'
  <2> SUFFICES ASSUME TokenizerInv, [Next]_vars PROVE TokenizerInv'
    OBVIOUS
  <2>1. CASE CutAdded
    BY <2>1, CutAddedKeeps
  <2>2. CASE CutByte
    BY <2>2, CutByteKeeps
  <2>3. CASE EndSplit
    BY <2>3, EndSplitKeeps
  <2>4. CASE TakeSpecial
    BY <2>4, TakeSpecialKeeps
  <2>5. CASE TakePlain
    BY <2>5, TakePlainKeeps
  <2>6. CASE \E branch \in 1 .. 8 : Take(branch)
    BY <2>6, TakeKeeps
  <2>7. CASE EndPreTokenize
    BY <2>7, EndPreTokenizeKeeps
  <2>8. CASE StartPiece
    BY <2>8, StartPieceKeeps
  <2>9. CASE Merge
    BY <2>9, MergeKeeps
  <2>10. CASE EndPiece
    BY <2>10, EndPieceKeeps
  <2>11. CASE EndSegment
    BY <2>11, EndSegmentKeeps
  <2>12. CASE Decode
    BY <2>12, DecodeKeeps
  <2>13. CASE UNCHANGED vars
    BY <2>13, StutterKeeps
  <2>14. (\/ TakeContraction \/ TakeWord \/ TakeNumber \/ TakeSymbols
          \/ TakeLineBreaks \/ TakeAllButOneSpace \/ TakeSpaces \/ TakeUnmatched)
         => \E branch \in 1 .. 8 : Take(branch)
    <3>1. \A b \in {1, 2, 3, 4, 5, 6, 7, 8} : b \in 1 .. 8
      OBVIOUS
    <3> QED BY <3>1 DEF TakeContraction, TakeWord, TakeNumber, TakeSymbols, TakeLineBreaks,
                        TakeAllButOneSpace, TakeSpaces, TakeUnmatched
  <2> QED BY <2>1, <2>2, <2>3, <2>4, <2>5, <2>6, <2>7, <2>8, <2>9, <2>10, <2>11, <2>12,
             <2>13, <2>14 DEF Next
<1> QED BY <1>1, <1>2, PTL DEF Spec

\* qwen_tokenizer.h promises that added tokens of the input are always
\* recognised as such: whatever the text and the tables, the ids that are
\* returned hold one id for each added token of the text, in order, and no
\* other id of an added token.
THEOREM AddedTokensAlwaysAtomic == Spec => []AddedTokensAreAtomic
<1>1. TokenizerInv => AddedTokensAreAtomic
  <2> SUFFICES ASSUME TokenizerInv, pc = "done"
               PROVE  Only(ids, AddedIds) = AddedFrom(text)[1]
    BY DEF AddedTokensAreAtomic
  <2> DEFINE A == Only(ids, AddedIds)
  <2>1. segments = <<>> /\ cut = Len(text)
    BY DEF TokenizerInv, ControlInv
  <2>2. SpecialIds(segments) = <<>>
    BY <2>1, FlatMapEmpty DEF SpecialIds
  <2>3. AddedFrom(text)[cut + 1] = <<>>
    BY <2>1, AddedFromIs DEF TokenizerInv, TypeInv
  <2>4. A \in Seq(AddedIds)
    BY AddedParts DEF TokenizerInv
  <2> HIDE DEF A
  <2>5. (A \o <<>>) \o <<>> = A
    BY <2>4, ConcatEmptySeq
  <2>6. (A \o SpecialIds(segments)) \o AddedFrom(text)[cut + 1] = AddedFrom(text)[1]
    BY DEF TokenizerInv, AddedInv, A
  <2> QED BY <2>2, <2>3, <2>5, <2>6 DEF A
<1> QED BY <1>1, TokenizerInvariant, PTL

\* The scans of pre_tokenize() and the regular expression in its comments
\* split every well-formed segment of every text into the same words.
THEOREM PiecesAlwaysMatchRegex == Spec => []PiecesMatchRegex
<1>1. TokenizerInv => PiecesMatchRegex
  <2> DEFINE cps == utf8_to_codepoints(Head(segments).text)
  <2> SUFFICES ASSUME TokenizerInv, pc = "pre_tokenize", rest = <<>>,
                      WellFormed(Head(segments).text)
               PROVE  pieces = RegexSplit(cps)
    BY DEF PiecesMatchRegex
  <2>1. cps \in Seq(Codes)
    <3>1. segments \in Seq(Segment) /\ segments # <<>> /\ ~Head(segments).is_special
      BY DEF TokenizerInv, TypeInv, ControlInv, Working
    <3>2. Head(segments) \in Segment
      BY <3>1, SpecialIdsHead
    <3>3. Head(segments).text \in Seq(Byte)
      BY <3>1, <3>2, SegmentFacts
    <3> QED BY <3>3, DecodedType
  <2>2. AllDefined(cps)
    <3>1. \A i \in DOMAIN cps : IsDefined(cps[i])
      BY DEF WellFormed
    <3>2. DOMAIN cps = 1 .. Len(cps)
      BY <2>1, LenProperties
    <3> QED BY <3>1, <3>2 DEF AllDefined
  <2>3. PICK k : SplitUpTo(cps, k)
    BY <2>2 DEF TokenizerInv, WordsInv
  <2> HIDE DEF cps
  <2>4. k = Len(cps) + 1
    BY <2>1, <2>3, FromEmpty DEF SplitUpTo
  <2>5. Words(cps)[k] = <<>>
    <3>1. \A t \in Seq(Codes) : codepoints_to_utf8(t) \in Seq(Byte)
      BY EncodedIs
    <3> QED BY <2>1, <2>4, <3>1, WordsIs
  <2>6. pieces \o <<>> = pieces
    <3> DEFINE Q == Seq(Byte)
    <3>1. pieces \in Seq(Q)
      BY DEF TokenizerInv, TypeInv
    <3> HIDE DEF Q
    <3> QED BY <3>1, ConcatEmptySeq
  <2> QED BY <2>3, <2>5, <2>6 DEF SplitUpTo, RegexSplit
<1> QED BY <1>1, TokenizerInvariant, PTL

-----------------------------------------------------------------------------
\* While a piece is merged, the sweeps make of the word what they make of the
\* bytes of the piece.
SweepInv == pc = "bpe" => RankSweep(word) = RankSweep(byte_encode(Head(pieces)))

LEMMA SweepInvKeeps ==
  ASSUME TokenizerInv, SweepInv, [Next]_vars
  PROVE  SweepInv'
<1> SUFFICES ASSUME pc' = "bpe"
             PROVE  RankSweep(word') = RankSweep(byte_encode(Head(pieces')))
  BY DEF SweepInv
<1>1. StartPiece \/ Merge \/ (pc = "bpe" /\ word' = word /\ pieces' = pieces)
  <2>1. CASE UNCHANGED vars
    BY <2>1 DEF vars
  <2>2. CASE CutAdded \/ CutByte \/ EndSplit \/ TakeSpecial \/ TakePlain
    BY <2>2 DEF CutAdded, CutByte, EndSplit, TakeSpecial, TakePlain
  <2>3. CASE \/ TakeContraction \/ TakeWord \/ TakeNumber \/ TakeSymbols
             \/ TakeLineBreaks \/ TakeAllButOneSpace \/ TakeSpaces \/ TakeUnmatched
    <3>1. PICK branch \in 1 .. 8 : Take(branch)
      <4>1. \A b \in {1, 2, 3, 4, 5, 6, 7, 8} : b \in 1 .. 8
        OBVIOUS
      <4> QED BY <2>3, <4>1 DEF TakeContraction, TakeWord, TakeNumber, TakeSymbols,
                  TakeLineBreaks, TakeAllButOneSpace, TakeSpaces, TakeUnmatched
    <3> QED BY <3>1 DEF Take
  <2>4. CASE EndPreTokenize \/ EndPiece \/ EndSegment \/ Decode
    BY <2>4 DEF EndPreTokenize, EndPiece, EndSegment, Decode
  <2> QED BY <2>1, <2>2, <2>3, <2>4 DEF Next
<1>2. CASE StartPiece
  BY <1>2 DEF StartPiece
<1>3. CASE Merge
  <2>1. /\ pc = "bpe" /\ Mergeable(word) # {} /\ word' = MergedAt(word, BestPair(word))
        /\ pieces' = pieces
    BY <1>3 DEF Merge
  <2>2. word \in Seq(Tokens)
    BY DEF TokenizerInv, TypeInv
  <2>3. RankSweep(word') = RankSweep(word)
    BY <2>1, <2>2, SweepsMerged
  <2> QED BY <2>1, <2>3 DEF SweepInv
<1>4. CASE pc = "bpe" /\ word' = word /\ pieces' = pieces
  BY <1>4 DEF SweepInv
<1> QED BY <1>1, <1>2, <1>3, <1>4

\* bpe() picks the leftmost pair of least rank and looks again; it ends with
\* the tokens that the merges give when each is applied to the whole word in
\* the order of the list, for every word and every merge list of training.
THEOREM WordsAlwaysMatchSweep == Spec => []WordsMatchRankSweep
<1>1. Init => SweepInv
  BY DEF Init, SweepInv
<1>2. TokenizerInv /\ SweepInv /\ [Next]_vars => SweepInv'
  BY SweepInvKeeps
<1>3. TokenizerInv /\ SweepInv => WordsMatchRankSweep
  <2> SUFFICES ASSUME TokenizerInv, SweepInv, pc = "bpe", Mergeable(word) = {}
               PROVE  word = RankSweep(byte_encode(Head(pieces)))
    BY DEF WordsMatchRankSweep
  <2>1. word \in Seq(Tokens)
    BY DEF TokenizerInv, TypeInv
  <2>2. RankSweep(word) = word
    BY <2>1, SweepsNothing
  <2> QED BY <2>2 DEF SweepInv
<1> QED BY <1>1, <1>2, <1>3, TokenizerInvariant, PTL DEF Spec

-----------------------------------------------------------------------------
\* The bytes of one code point.

\* A first byte and as many continuations as it announces.
OneSequence(u) ==
  /\ u \in Seq(Byte) /\ Len(u) \in 1 .. 4
  /\ utf8_sequence_length(u[1]) = Len(u) /\ ~IsContinuation(u[1])
  /\ \A j \in 2 .. Len(u) : IsContinuation(u[j])

SequenceCode(u) == CodepointOf(u[1], SubSeq(u, 2, Len(u)))

CharBytes(c, u) == c \in Chars /\ OneSequence(u) /\ SequenceCode(u) = c

LEMMA ContinuationBits ==
  ASSUME NEW c \in Nat, NEW p \in {1, 64, 4096}
  PROVE  /\ Continuation(c, p) \in 128 .. 191 /\ IsContinuation(Continuation(c, p))
         /\ Continuation(c, p) % 64 = (c \div p) % 64
<1> DEFINE x == (c \div p) % 64
<1>1. x \in 0 .. 63
  BY SMT
<1>2. Continuation(c, p) = 128 + x
  BY SMT DEF Continuation
<1> HIDE DEF x
<1>3. 128 + x \in 128 .. 191 /\ (128 + x) % 64 = x
  BY SMT, <1>1
<1>4. IsContinuation(128 + x)
  BY SMT, <1>1 DEF IsContinuation
<1> QED BY <1>2, <1>3, <1>4 DEF x

LEMMA SequenceCodeIs ==
  ASSUME NEW u, OneSequence(u)
  PROVE  /\ Len(u) = 2 =>
              SequenceCode(u) = (64 * (u[1] % 64)) + (u[2] % 64)
         /\ Len(u) = 3 =>
              SequenceCode(u) = (4096 * (u[1] % 32)) + (64 * (u[2] % 64)) + (u[3] % 64)
         /\ Len(u) = 4 =>
              SequenceCode(u) = (262144 * (u[1] % 16)) + (4096 * (u[2] % 64))
                                  + (64 * (u[3] % 64)) + (u[4] % 64)
<1> DEFINE lead == u[1]
           tail == SubSeq(u, 2, Len(u))
           n == utf8_sequence_length(lead)
           l == Len(tail)
           high == lead % <<128, 64, 32, 16>>[n]
           a == tail[1] % 64
           b == tail[2] % 64
           c == tail[3] % 64
           cp == SequenceCode(u)
<1>1. /\ u \in Seq(Byte) /\ Len(u) \in 1 .. 4 /\ n = Len(u)
      /\ \A j \in 2 .. Len(u) : IsContinuation(u[j])
  BY DEF OneSequence
<1>2. /\ tail \in Seq(Byte) /\ l = Len(u) - 1
      /\ \A j \in 1 .. Len(u) - 1 : tail[j] = u[j + 1]
  <2>1. 2 \in Int /\ Len(u) \in Int /\ \A j \in 2 .. Len(u) : u[j] \in Byte
    <3>1. \A j \in 2 .. Len(u) : j \in 1 .. Len(u)
      BY <1>1
    <3> QED BY <1>1, <3>1, ElementOfSeq
  <2>2. /\ tail \in Seq(Byte) /\ l = IF 2 <= Len(u) THEN Len(u) - 2 + 1 ELSE 0
        /\ \A j \in 1 .. Len(u) - 2 + 1 : tail[j] = u[2 + j - 1]
    <3> HIDE DEF Byte
    <3> QED BY <2>1, SubSeqProperties
  <2> HIDE DEF tail, l
  <2>3. l = Len(u) - 1 /\ Len(u) - 2 + 1 = Len(u) - 1
    <3>1. Len(u) \in 1 .. 4 /\ l = IF 2 <= Len(u) THEN Len(u) - 2 + 1 ELSE 0
      BY <1>1, <2>2
    <3> QED BY SMT, <3>1
  <2>4. \A j \in 1 .. Len(u) - 1 : 2 + j - 1 = j + 1
    BY <1>1
  <2> QED BY <2>2, <2>3, <2>4
<1>3. \A i \in DOMAIN tail : IsContinuation(tail[i])
  <2>1. DOMAIN tail = 1 .. Len(u) - 1
    BY <1>2, LenProperties
  <2> HIDE DEF tail
  <2>2. \A i \in 1 .. Len(u) - 1 : i + 1 \in 2 .. Len(u)
    BY <1>1
  <2> QED BY <1>1, <1>2, <2>1, <2>2
<1>4. cp =
        CASE n = 1 -> IF lead < 128 THEN lead ELSE 0
          [] n > 1 /\ \E i \in DOMAIN tail : ~IsContinuation(tail[i]) -> 0
          [] OTHER ->
               CASE l = 0 -> high
                 [] l = 1 -> (64 * high) + a
                 [] l = 2 -> (4096 * high) + (64 * a) + b
                 [] l = 3 ->
                      (262144 * high) + (4096 * a) + (64 * b) + c
  BY SMT DEF CodepointOf, SequenceCode
<1>5. /\ n = 2 => high = lead % 64
      /\ n = 3 => high = lead % 32
      /\ n = 4 => high = lead % 16
  <2> HIDE DEF n, lead
  <2> QED OBVIOUS
<1>6. ~\E i \in DOMAIN tail : ~IsContinuation(tail[i])
  BY <1>3
<1>7. /\ Len(u) >= 2 => tail[1] = u[2]
      /\ Len(u) >= 3 => tail[2] = u[3]
      /\ Len(u) >= 4 => tail[3] = u[4]
  <2> HIDE DEF tail
  <2>1. /\ Len(u) >= 2 => 1 \in 1 .. Len(u) - 1
        /\ Len(u) >= 3 => 2 \in 1 .. Len(u) - 1
        /\ Len(u) >= 4 => 3 \in 1 .. Len(u) - 1
    BY <1>1
  <2> QED BY <1>2, <2>1
<1> HIDE DEF high, a, b, c, cp, n, l, lead, tail
<1>8. Len(u) = 2 => cp = (64 * (lead % 64)) + (u[2] % 64)
  <2> SUFFICES ASSUME Len(u) = 2 PROVE cp = (64 * (lead % 64)) + (u[2] % 64)
    OBVIOUS
  <2>1. n = 2 /\ n # 1 /\ l = 1 /\ high = lead % 64
    BY <1>1, <1>2, <1>5
  <2>2. cp = (64 * high) + a
    BY SMT, <1>4, <1>6, <2>1
  <2>3. a = u[2] % 64
    BY <1>7 DEF a
  <2> QED BY <2>1, <2>2, <2>3
<1>9. Len(u) = 3 => cp = (4096 * (lead % 32)) + (64 * (u[2] % 64)) + (u[3] % 64)
  <2> SUFFICES ASSUME Len(u) = 3
               PROVE  cp = (4096 * (lead % 32)) + (64 * (u[2] % 64)) + (u[3] % 64)
    OBVIOUS
  <2>1. n = 3 /\ n # 1 /\ l = 2 /\ high = lead % 32
    BY <1>1, <1>2, <1>5
  <2>2. cp = (4096 * high) + (64 * a) + b
    BY SMT, <1>4, <1>6, <2>1
  <2>3. a = u[2] % 64 /\ b = u[3] % 64
    BY <1>7 DEF a, b
  <2> QED BY SMT, <2>1, <2>2, <2>3
<1>10. Len(u) = 4 =>
         cp = (262144 * (lead % 16)) + (4096 * (u[2] % 64)) + (64 * (u[3] % 64)) + (u[4] % 64)
  <2> SUFFICES ASSUME Len(u) = 4
               PROVE  cp = (262144 * (lead % 16)) + (4096 * (u[2] % 64))
                             + (64 * (u[3] % 64)) + (u[4] % 64)
    OBVIOUS
  <2>1. n = 4 /\ n # 1 /\ l = 3 /\ high = lead % 16
    BY <1>1, <1>2, <1>5
  <2>2. cp = (262144 * high) + (4096 * a) + (64 * b) + c
    BY SMT, <1>4, <1>6, <2>1
  <2>3. a = u[2] % 64 /\ b = u[3] % 64 /\ c = u[4] % 64
    BY <1>7 DEF a, b, c
  <2> QED BY SMT, <2>1, <2>2, <2>3
<1> QED BY <1>8, <1>9, <1>10 DEF cp, lead

\* How many bytes the encoding of a code point has.
CodeRange(c, n) ==
  /\ n = 1 => c < 128
  /\ n = 2 => 128 <= c /\ c < 2048
  /\ n = 3 => 2048 <= c /\ c < 65536
  /\ n = 4 => 65536 <= c

LEMMA OneByte ==
  ASSUME NEW c \in Chars, CodeRange(c, 1)
  PROVE  CharBytes(c, Utf8(c))
<1> DEFINE u == Utf8(c)
<1>0. c \in Int /\ 0 <= c /\ c < 128
  BY SMT DEF Codes, Chars, CodeRange
<1>1. u = <<c>>
  BY SMT, <1>0 DEF Utf8
<1>2. u \in Seq(Byte)
  BY Utf8Type DEF Chars
<1> HIDE DEF u
<1>3. Len(u) = 1 /\ u[1] = c /\ SubSeq(u, 2, Len(u)) = <<>>
  BY <1>1
<1>4. utf8_sequence_length(c) = 1 /\ ~IsContinuation(c)
  BY SMT, <1>0 DEF utf8_sequence_length, IsContinuation
<1>5. CodepointOf(c, <<>>) = c
  BY SMT, <1>0, <1>4 DEF CodepointOf
<1>6. OneSequence(u)
  <2>1. Len(u) \in 1 .. 4 /\ utf8_sequence_length(u[1]) = Len(u) /\ ~IsContinuation(u[1])
    BY <1>3, <1>4
  <2>2. \A j \in 2 .. Len(u) : IsContinuation(u[j])
    BY <1>3
  <2> QED BY <1>2, <2>1, <2>2 DEF OneSequence
<1>7. CharBytes(c, u)
  BY <1>3, <1>5, <1>6 DEF CharBytes, SequenceCode
<1> QED BY <1>7 DEF u

LEMMA TwoBytes ==
  ASSUME NEW c \in Chars, CodeRange(c, 2)
  PROVE  CharBytes(c, Utf8(c))
<1> DEFINE u == Utf8(c)
           h == c \div 64
           a == Continuation(c, 1)
           lead == 192 + h
<1>0. c \in Nat /\ 128 <= c /\ c < 2048
  BY SMT DEF Codes, Chars, CodeRange
<1>1. u = <<lead, a>>
  BY SMT, <1>0 DEF Utf8
<1>2. u \in Seq(Byte)
  BY Utf8Type DEF Chars
<1>3. h \in 0 .. 31 /\ c = (64 * h) + (c % 64)
  BY SMT, <1>0
<1>4. /\ a % 64 = c % 64 /\ IsContinuation(a)
  <2>1. /\ a % 64 = (c \div 1) % 64 /\ IsContinuation(a)
    BY SMT, <1>0, ContinuationBits
  <2>2. c \div 1 = c
    BY SMT, <1>0
  <2> HIDE DEF a
  <2> QED BY <2>1, <2>2
<1> HIDE DEF u, h, a
<1>5. lead % 64 = h /\ lead \in 192 .. 223
  BY SMT, <1>3
<1> HIDE DEF lead
<1>6. utf8_sequence_length(lead) = 2 /\ ~IsContinuation(lead)
  BY SMT, <1>5 DEF utf8_sequence_length, IsContinuation
<1>7. Len(u) = 2 /\ u[1] = lead /\ u[2] = a
  BY SMT, <1>1
<1>8. \A j \in 2 .. Len(u) : IsContinuation(u[j])
  <2>1. \A j \in 2 .. 2 : j = 2
    BY SMT
  <2> QED BY <1>4, <1>7, <2>1
<1>9. OneSequence(u)
  <2>1. Len(u) \in 1 .. 4 /\ utf8_sequence_length(u[1]) = Len(u) /\ ~IsContinuation(u[1])
    BY SMT, <1>6, <1>7
  <2> QED BY <1>2, <1>8, <2>1 DEF OneSequence
<1>10. SequenceCode(u) = (64 * (lead % 64)) + (a % 64)
  BY SMT, <1>7, <1>9, SequenceCodeIs
<1>11. SequenceCode(u) = c
  BY SMT, <1>3, <1>4, <1>5, <1>10
<1>12. CharBytes(c, u)
  BY <1>9, <1>11 DEF CharBytes
<1> QED BY <1>12 DEF u

LEMMA ThreeBytes ==
  ASSUME NEW c \in Chars, CodeRange(c, 3)
  PROVE  CharBytes(c, Utf8(c))
<1> DEFINE u == Utf8(c)
           h == c \div 4096
           b == Continuation(c, 64)
           a == Continuation(c, 1)
           x == (c \div 64) % 64
           lead == 224 + h
<1>0. c \in Nat /\ 2048 <= c /\ c < 65536
  BY SMT DEF Codes, Chars, CodeRange
<1>1. u = <<lead, b, a>>
  BY SMT, <1>0 DEF Utf8
<1>2. u \in Seq(Byte)
  BY Utf8Type DEF Chars
<1>3. h \in 0 .. 15 /\ c = (4096 * h) + (64 * x) + (c % 64)
  BY SMT, <1>0
<1>4. /\ a % 64 = c % 64 /\ IsContinuation(a)
      /\ b % 64 = x /\ IsContinuation(b)
  <2>1. /\ a % 64 = (c \div 1) % 64 /\ IsContinuation(a)
        /\ b % 64 = x /\ IsContinuation(b)
    BY SMT, <1>0, ContinuationBits
  <2>2. c \div 1 = c
    BY SMT, <1>0
  <2> HIDE DEF b, a, x
  <2> QED BY <2>1, <2>2
<1> HIDE DEF u, h, b, a, x
<1>5. lead % 32 = h /\ lead \in 224 .. 239
  BY SMT, <1>3
<1> HIDE DEF lead
<1>6. utf8_sequence_length(lead) = 3 /\ ~IsContinuation(lead)
  BY SMT, <1>5 DEF utf8_sequence_length, IsContinuation
<1>7. Len(u) = 3 /\ u[1] = lead /\ u[2] = b /\ u[3] = a
  BY SMT, <1>1
<1>8. \A j \in 2 .. Len(u) : IsContinuation(u[j])
  <2>1. \A j \in 2 .. 3 : j = 2 \/ j = 3
    BY SMT
  <2> QED BY <1>4, <1>7, <2>1
<1>9. OneSequence(u)
  <2>1. Len(u) \in 1 .. 4 /\ utf8_sequence_length(u[1]) = Len(u) /\ ~IsContinuation(u[1])
    BY SMT, <1>6, <1>7
  <2> QED BY <1>2, <1>8, <2>1 DEF OneSequence
<1>10. SequenceCode(u) = (4096 * (lead % 32)) + (64 * (b % 64)) + (a % 64)
  BY SMT, <1>7, <1>9, SequenceCodeIs
<1>11. SequenceCode(u) = c
  BY SMT, <1>3, <1>4, <1>5, <1>10
<1>12. CharBytes(c, u)
  BY <1>9, <1>11 DEF CharBytes
<1> QED BY <1>12 DEF u

LEMMA FourBytes ==
  ASSUME NEW c \in Chars, CodeRange(c, 4)
  PROVE  CharBytes(c, Utf8(c))
<1> DEFINE u == Utf8(c)
           h == c \div 262144
           d == Continuation(c, 4096)
           b == Continuation(c, 64)
           a == Continuation(c, 1)
           x == (c \div 64) % 64
           y == (c \div 4096) % 64
           lead == 240 + h
<1>0. c \in Nat /\ 65536 <= c /\ c < 2097152
  BY SMT DEF Codes, Chars, CodeRange
<1>1. u = <<lead, d, b, a>>
  BY SMT, <1>0 DEF Utf8
<1>2. u \in Seq(Byte)
  BY Utf8Type DEF Chars
<1>3. h \in 0 .. 7 /\ c = (262144 * h) + (4096 * y) + (64 * x) + (c % 64)
  BY SMT, <1>0
<1>4. /\ a % 64 = c % 64 /\ IsContinuation(a)
      /\ b % 64 = x /\ IsContinuation(b)
      /\ d % 64 = y /\ IsContinuation(d)
  <2>1. /\ a % 64 = (c \div 1) % 64 /\ IsContinuation(a)
        /\ b % 64 = x /\ IsContinuation(b)
        /\ d % 64 = y /\ IsContinuation(d)
    BY SMT, <1>0, ContinuationBits
  <2>2. c \div 1 = c
    BY SMT, <1>0
  <2> HIDE DEF d, b, a, x, y
  <2> QED BY <2>1, <2>2
<1> HIDE DEF u, h, d, b, a, x, y
<1>5. lead % 16 = h /\ lead \in 240 .. 247
  BY SMT, <1>3
<1> HIDE DEF lead
<1>6. utf8_sequence_length(lead) = 4 /\ ~IsContinuation(lead)
  BY SMT, <1>5 DEF utf8_sequence_length, IsContinuation
<1>7. Len(u) = 4 /\ u[1] = lead /\ u[2] = d /\ u[3] = b /\ u[4] = a
  BY SMT, <1>1
<1>8. \A j \in 2 .. Len(u) : IsContinuation(u[j])
  <2>1. \A j \in 2 .. 4 : j = 2 \/ j = 3 \/ j = 4
    BY SMT
  <2> QED BY <1>4, <1>7, <2>1
<1>9. OneSequence(u)
  <2>1. Len(u) \in 1 .. 4 /\ utf8_sequence_length(u[1]) = Len(u) /\ ~IsContinuation(u[1])
    BY SMT, <1>6, <1>7
  <2> QED BY <1>2, <1>8, <2>1 DEF OneSequence
<1>10. SequenceCode(u) = (262144 * (lead % 16)) + (4096 * (d % 64)) + (64 * (b % 64)) + (a % 64)
  BY SMT, <1>7, <1>9, SequenceCodeIs
<1>11. SequenceCode(u) = c
  BY SMT, <1>3, <1>4, <1>5, <1>10
<1>12. CharBytes(c, u)
  BY <1>9, <1>11 DEF CharBytes
<1> QED BY <1>12 DEF u

LEMMA CharIs ==
  ASSUME NEW c \in Chars
  PROVE  CharBytes(c, Utf8(c))
<1>1. CodeRange(c, 1) \/ CodeRange(c, 2) \/ CodeRange(c, 3) \/ CodeRange(c, 4)
  BY SMT DEF Chars, Codes, CodeRange
<1> QED BY <1>1, OneByte, TwoBytes, ThreeBytes, FourBytes

-----------------------------------------------------------------------------
\* Text made of whole characters. It can be cut where no continuation follows.

Edge(s, i) == i \in 1 .. Len(s) + 1 /\ (i <= Len(s) => ~IsContinuation(s[i]))

CharAt(s, i, c) ==
  /\ i + Len(Utf8(c)) <= Len(s) + 1
  /\ \A j \in 1 .. Len(Utf8(c)) : s[i + j - 1] = Utf8(c)[j]

WholeAt(s, i) == \E c \in Chars : CharAt(s, i, c) /\ Edge(s, i + Len(Utf8(c)))

Whole(s) ==
  /\ s \in Seq(Byte) /\ Edge(s, 1)
  /\ \A i \in 1 .. Len(s) : ~IsContinuation(s[i]) => WholeAt(s, i)

\* A character is found where it begins.
LEMMA CharIsDecoded ==
  ASSUME NEW s \in Seq(Byte), NEW i \in 1 .. Len(s), NEW c \in Chars, CharAt(s, i, c)
  PROVE  /\ DecodedEnd(s, i) + 1 = i + Len(Utf8(c))
         /\ DecodedHere(s, i) = <<c>>
<1> DEFINE u == Utf8(c)
           n == Len(u)
           end == DecodedEnd(s, i)
           t == SubSeq(s, i + 1, end)
           v == SubSeq(u, 2, n)
<1>1. OneSequence(u) /\ SequenceCode(u) = c
  BY CharIs DEF CharBytes
<1>2. /\ i + n <= Len(s) + 1 /\ \A j \in 1 .. n : s[i + j - 1] = u[j]
  BY DEF CharAt
<1> HIDE DEF u
<1>3. u \in Seq(Byte) /\ n \in 1 .. 4 /\ utf8_sequence_length(u[1]) = n
  BY <1>1 DEF OneSequence
<1>4. s[i] = u[1]
  <2>1. 1 \in 1 .. n /\ i + 1 - 1 = i
    BY <1>3
  <2> QED BY <1>2, <2>1
<1>5. end = i + n - 1 /\ t \in Seq(Byte) /\ Len(t) = n - 1 /\ \A j \in 1 .. n - 1 : t[j] = s[i + j]
  <2>0. Len(s) \in Nat /\ i + n - 1 <= Len(s)
    BY <1>2, <1>3, LenProperties
  <2> DEFINE m == utf8_sequence_length(s[i])
  <2>r. /\ i + m - 1 <= Len(s) => end = i + m - 1
        /\ t \in Seq(Byte) /\ Len(t) = end - i
        /\ \A j \in 1 .. end - i : t[j] = s[i + j]
    BY SequenceEnd DEF DecodedEnd
  <2>m. m = n
    BY <1>3, <1>4
  <2> HIDE DEF m, n, end, t
  <2>1. /\ i + n - 1 <= Len(s) => end = i + n - 1
        /\ t \in Seq(Byte) /\ Len(t) = end - i
        /\ \A j \in 1 .. end - i : t[j] = s[i + j]
    BY <2>r, <2>m
  <2>2. end = i + n - 1
    BY <2>0, <2>1
  <2>3. end - i = n - 1
    BY <1>3, <2>2
  <2> QED BY <2>1, <2>2, <2>3
<1>6. v \in Seq(Byte) /\ Len(v) = n - 1 /\ \A j \in 1 .. n - 1 : v[j] = u[j + 1]
  <2>1. 2 \in 1 .. Len(u) + 1
    BY <1>3
  <2>2. /\ From(u, 2) \in Seq(Byte) /\ Len(From(u, 2)) = Len(u) - 2 + 1
        /\ \A j \in 1 .. Len(u) - 2 + 1 : From(u, 2)[j] = u[2 + j - 1]
    BY <1>3, <2>1, FromFacts
  <2>3. n - 2 + 1 = n - 1 /\ \A j \in 1 .. n - 1 : 2 + j - 1 = j + 1
    BY <1>3
  <2> QED BY <2>2, <2>3 DEF From
<1> HIDE DEF t, v
<1>7. t = v
  <2>1. ASSUME NEW j \in 1 .. Len(t) PROVE t[j] = v[j]
    <3>1. j \in 1 .. n - 1 /\ j + 1 \in 1 .. n /\ i + (j + 1) - 1 = i + j
      BY <1>3, <1>5
    <3>2. s[i + j] = u[j + 1]
      BY <1>2, <3>1
    <3> QED BY <1>5, <1>6, <3>1, <3>2
  <2> QED BY <1>5, <1>6, <2>1, SeqEqual
<1>8. DecodedCode(s, i) = c
  BY <1>1, <1>4, <1>7 DEF DecodedCode, SequenceCode, t, v
<1>9. end + 1 = i + n
  BY <1>3, <1>5
<1>10. c # 0
  BY DEF Chars
<1> QED BY <1>8, <1>9, <1>10 DEF DecodedHere, u

LEMMA CharLength ==
  ASSUME NEW c \in Chars
  PROVE  /\ Utf8(c) \in Seq(Byte) /\ Len(Utf8(c)) \in 1 .. 4
         /\ ~IsContinuation(Utf8(c)[1])
         /\ utf8_sequence_length(Utf8(c)[1]) = Len(Utf8(c))
         /\ \A j \in 2 .. Len(Utf8(c)) : IsContinuation(Utf8(c)[j])
BY CharIs DEF CharBytes, OneSequence

\* Where a text of whole characters can be cut, the rest is decoded and encoded
\* without a change.
LEMMA WholeComesBack ==
  ASSUME NEW s, Whole(s)
  PROVE  codepoints_to_utf8(utf8_to_codepoints(s)) = s
<1> DEFINE n == Len(s)
           D == DecodedFrom(s)
           T == {i \in 1 .. n + 1 : Edge(s, i) => FlatMap(Encode, D[i]) = From(s, i)}
<1>1. /\ s \in Seq(Byte) /\ Edge(s, 1) /\ n \in Nat
      /\ \A i \in 1 .. n : ~IsContinuation(s[i]) => WholeAt(s, i)
  BY LenProperties DEF Whole
<1>2. /\ utf8_to_codepoints(s) = D[1]
      /\ \A i \in 1 .. n + 1 : D[i] \in Seq(Chars)
      /\ D[n + 1] = <<>>
      /\ \A i \in 1 .. n : D[i] = DecodedHere(s, i) \o D[DecodedEnd(s, i) + 1]
  BY <1>1, DecodedFromIs
<1>e. MapsTo(Encode, Codes, Byte)
  <2>1. <<>> \in Seq(Codes)
    OBVIOUS
  <2> QED BY <2>1, EncodedIs
<1> HIDE DEF D
<1>3. n + 1 \in 1 .. n + 1 /\ n + 1 \in T
  <2>1. n + 1 \in 1 .. n + 1
    BY <1>1
  <2>2. From(s, n + 1) = <<>>
    BY <1>1, <2>1, FromEmpty
  <2> QED BY <1>2, <2>1, <2>2, FlatMapEmpty
<1>4. ASSUME NEW i \in 1 .. n, \A j \in i + 1 .. n + 1 : j \in T
      PROVE  i \in T
  <2>0. i \in 1 .. n + 1
    BY <1>1
  <2> SUFFICES ASSUME Edge(s, i) PROVE FlatMap(Encode, D[i]) = From(s, i)
    BY <2>0
  <2>1. PICK c \in Chars : CharAt(s, i, c) /\ Edge(s, i + Len(Utf8(c)))
    BY <1>1 DEF Edge, WholeAt
  <2> DEFINE u == Utf8(c)
             k == i + Len(u)
  <2>2. u \in Seq(Byte) /\ Len(u) \in 1 .. 4
    BY CharLength
  <2>3. D[i] = <<c>> \o D[k]
    BY <1>1, <1>2, <2>1, CharIsDecoded
  <2>4. Edge(s, k) /\ k \in i + 1 .. n + 1
    <3>1. Edge(s, k) /\ k <= n + 1
      BY <2>1 DEF Edge
    <3> DEFINE l == Len(u)
    <3>2. l \in 1 .. 4 /\ i + l <= n + 1
      BY <2>2, <3>1
    <3> HIDE DEF l
    <3>3. i + l \in i + 1 .. n + 1
      BY <1>1, <3>2
    <3> QED BY <3>1, <3>3 DEF l
  <2>5. FlatMap(Encode, D[k]) = From(s, k)
    BY <1>4, <2>4
  <2>6. FlatMap(Encode, D[i]) = u \o From(s, k)
    <3> DEFINE h == <<c>>
    <3>1. c \in Codes
      BY DEF Chars
    <3>2. h \in Seq(Codes) /\ FlatMap(Encode, h) = Encode[c]
      BY <1>e, <3>1, FlatMapOne
    <3>3. Encode[c] = u
      BY <3>1 DEF Encode
    <3>4. D[k] \in Seq(Codes)
      <4>1. D[k] \in Seq(Chars)
        BY <1>1, <1>2, <2>4
      <4>2. Chars \subseteq Codes
        BY DEF Chars
      <4> QED BY <4>1, <4>2, SeqMonotonic
    <3> DEFINE e == D[k]
    <3>6. e \in Seq(Codes) /\ h \in Seq(Codes)
      BY <3>2, <3>4
    <3> HIDE DEF h, u, k, e
    <3>5. FlatMap(Encode, h \o e) = FlatMap(Encode, h) \o FlatMap(Encode, e)
      BY <1>e, <3>6, FlatMapConcat
    <3> QED BY <2>3, <2>5, <3>2, <3>3, <3>5 DEF h, e
  <2>7. u \o From(s, k) = From(s, i)
    <3> DEFINE r == From(s, k)
               a == u \o r
               b == From(s, i)
    <3>1. /\ r \in Seq(Byte) /\ Len(r) = n - k + 1 /\ \A j \in 1 .. n - k + 1 : r[j] = s[k + j - 1]
      <4> HIDE DEF u
      <4>1. k \in 1 .. n + 1
        BY <1>1, <2>4
      <4> HIDE DEF k
      <4> QED BY <1>1, <4>1, FromFacts
    <3>2. /\ b \in Seq(Byte) /\ Len(b) = n - i + 1 /\ \A j \in 1 .. n - i + 1 : b[j] = s[i + j - 1]
      BY <1>1, <2>0, FromFacts
    <3>c. \A j \in 1 .. Len(u) : s[i + j - 1] = u[j]
      BY <2>1 DEF CharAt
    <3> HIDE DEF u, r
    <3>3. /\ a \in Seq(Byte) /\ Len(a) = Len(u) + Len(r)
          /\ \A j \in 1 .. Len(u) + Len(r) : a[j] = IF j <= Len(u) THEN u[j] ELSE r[j - Len(u)]
      BY <2>2, <3>1, ConcatProperties
    <3> HIDE DEF a, b
    <3>4. Len(a) = Len(b) /\ Len(a) = n - i + 1
      BY <1>1, <2>2, <3>1, <3>2, <3>3
    <3>5. ASSUME NEW j \in 1 .. Len(a) PROVE a[j] = b[j]
      <4>1. b[j] = s[i + j - 1] /\ j \in 1 .. Len(u) + Len(r)
        BY <3>2, <3>3, <3>4
      <4>2. CASE j <= Len(u)
        <5>1. j \in 1 .. Len(u) /\ a[j] = u[j]
          BY <2>2, <3>3, <4>1, <4>2
        <5> QED BY <3>c, <4>1, <5>1
      <4>3. CASE ~(j <= Len(u))
        <5>1. a[j] = r[j - Len(u)]
          BY <3>3, <4>1, <4>3
        <5>2. j - Len(u) \in 1 .. n - k + 1 /\ k + (j - Len(u)) - 1 = i + j - 1
          BY <1>1, <2>2, <3>4, <4>3
        <5> QED BY <3>1, <4>1, <5>1, <5>2
      <4> QED BY <4>2, <4>3
    <3>6. a = b
      BY <3>2, <3>3, <3>4, <3>5, SeqEqual
    <3> QED BY <3>6 DEF a, b, r
  <2> QED BY <2>6, <2>7
<1> HIDE DEF T
<1>5. \A i \in 1 .. n + 1 : i \in T
  BY <1>1, <1>3, <1>4, DownTo
<1>6. FlatMap(Encode, D[1]) = From(s, 1)
  <2>1. 1 \in T
    BY <1>1, <1>5
  <2> QED BY <1>1, <2>1 DEF T
<1>7. From(s, 1) = s
  BY <1>1, SubSeqFull DEF From
<1>8. D[1] \in Seq(Codes)
  <2>1. D[1] \in Seq(Chars)
    BY <1>1, <1>2
  <2>2. Chars \subseteq Codes
    BY DEF Chars
  <2> QED BY <2>1, <2>2, SeqMonotonic
<1> QED BY <1>2, <1>6, <1>7, <1>8, EncodedIs

LEMMA NothingIsWhole == Whole(<<>>)
<1>1. Len(<<>>) = 0 /\ <<>> \in Seq(Byte)
  BY EmptySeq
<1>2. Edge(<<>>, 1)
  BY <1>1 DEF Edge
<1> QED BY <1>1, <1>2 DEF Whole

\* One more character in front.
LEMMA WholeAndOne ==
  ASSUME NEW r, Whole(r), NEW c \in Chars
  PROVE  Whole(Utf8(c) \o r)
<1> DEFINE u == Utf8(c)
           l == Len(u)
           s == u \o r
<1>1. /\ r \in Seq(Byte) /\ Edge(r, 1) /\ Len(r) \in Nat
      /\ \A i \in 1 .. Len(r) : ~IsContinuation(r[i]) => WholeAt(r, i)
  BY LenProperties DEF Whole
<1>2. /\ u \in Seq(Byte) /\ l \in 1 .. 4 /\ ~IsContinuation(u[1])
      /\ \A j \in 2 .. l : IsContinuation(u[j])
  BY CharLength
<1> HIDE DEF u
<1>3. s \in Seq(Byte) /\ Len(s) = l + Len(r)
  BY <1>1, <1>2, ConcatProperties
<1>4. /\ \A j \in 1 .. l : s[j] = u[j]
      /\ \A j \in 1 .. Len(r) : s[l + j] = r[j]
  <2>0. \A j \in 1 .. Len(u) + Len(r) : s[j] = IF j <= Len(u) THEN u[j] ELSE r[j - Len(u)]
    BY <1>1, <1>2, ConcatProperties
  <2> HIDE DEF s
  <2>1. ASSUME NEW j \in 1 .. l PROVE s[j] = u[j]
    <3>1. j \in 1 .. Len(u) + Len(r) /\ j <= Len(u)
      BY <1>1, <1>2
    <3> QED BY <2>0, <3>1
  <2>2. ASSUME NEW j \in 1 .. Len(r) PROVE s[l + j] = r[j]
    <3>1. l + j \in 1 .. Len(u) + Len(r) /\ ~(l + j <= Len(u)) /\ (l + j) - Len(u) = j
      BY <1>1, <1>2
    <3> QED BY <2>0, <3>1
  <2> QED BY <2>1, <2>2
<1> HIDE DEF s, l
<1>5. ASSUME NEW j, Edge(r, j) PROVE Edge(s, l + j)
  <2>1. j \in 1 .. Len(r) + 1 /\ (j <= Len(r) => ~IsContinuation(r[j]))
    BY <1>5 DEF Edge
  <2>2. l + j \in 1 .. Len(s) + 1
    BY <1>1, <1>2, <1>3, <2>1
  <2>3. ASSUME l + j <= Len(s) PROVE ~IsContinuation(s[l + j])
    <3>1. j \in 1 .. Len(r)
      BY <1>1, <1>2, <1>3, <2>1, <2>3
    <3> QED BY <1>4, <2>1, <3>1
  <2> QED BY <2>2, <2>3 DEF Edge
<1>6. Edge(s, 1)
  <2>1. 1 \in 1 .. l /\ 1 \in 1 .. Len(s) + 1
    BY <1>1, <1>2, <1>3
  <2> QED BY <1>2, <1>4, <2>1 DEF Edge
<1>7. ASSUME NEW i \in 1 .. Len(s), ~IsContinuation(s[i]) PROVE WholeAt(s, i)
  <2>1. CASE i <= l
    <3>1. i = 1
      <4>1. i \in 1 .. l
        BY <1>2, <2>1
      <4>2. i \notin 2 .. l
        BY <1>2, <1>4, <1>7, <4>1
      <4> QED BY <1>2, <4>1, <4>2
    <3>2. CharAt(s, 1, c)
      <4>1. 1 + Len(u) <= Len(s) + 1
        BY <1>1, <1>2, <1>3 DEF l
      <4>2. \A j \in 1 .. Len(u) : 1 + j - 1 = j
        BY <1>2 DEF l
      <4>3. \A j \in 1 .. Len(u) : s[1 + j - 1] = u[j]
        BY <1>4, <4>2 DEF l
      <4> QED BY <4>1, <4>3 DEF CharAt, u
    <3>3. Edge(s, 1 + Len(Utf8(c)))
      <4>1. Edge(s, l + 1) /\ l + 1 = 1 + l
        BY <1>1, <1>2, <1>5
      <4> QED BY <4>1 DEF l, u
    <3> QED BY <3>1, <3>2, <3>3 DEF WholeAt
  <2>2. CASE ~(i <= l)
    <3> DEFINE k == i - l
    <3>1. k \in 1 .. Len(r) /\ l + k = i
      BY <1>1, <1>2, <1>3, <2>2
    <3> HIDE DEF k
    <3>2. ~IsContinuation(r[k])
      BY <1>4, <1>7, <3>1
    <3>3. PICK d \in Chars : CharAt(r, k, d) /\ Edge(r, k + Len(Utf8(d)))
      BY <1>1, <3>1, <3>2 DEF WholeAt
    <3> DEFINE v == Utf8(d)
               m == Len(v)
    <3>4. m \in 1 .. 4
      BY CharLength
    <3>5. k + m <= Len(r) + 1 /\ \A j \in 1 .. m : r[k + j - 1] = v[j]
      BY <3>3 DEF CharAt
    <3>6. Edge(s, l + (k + m))
      BY <1>5, <3>3
    <3> HIDE DEF v, m
    <3>7. l + (k + m) = i + m /\ i + m <= Len(s) + 1
      BY <1>1, <1>2, <1>3, <3>1, <3>4, <3>5
    <3>8. ASSUME NEW j \in 1 .. m PROVE s[i + j - 1] = v[j]
      <4>1. k + j - 1 \in 1 .. Len(r) /\ l + (k + j - 1) = i + j - 1
        BY <1>1, <1>2, <3>1, <3>4, <3>5
      <4> QED BY <1>4, <3>5, <4>1
    <3>9. CharAt(s, i, d)
      BY <3>7, <3>8 DEF CharAt, m, v
    <3>10. Edge(s, i + Len(Utf8(d)))
      BY <3>6, <3>7 DEF m, v
    <3> QED BY <3>9, <3>10 DEF WholeAt
  <2> QED BY <2>1, <2>2
<1>8. Whole(s)
  BY <1>3, <1>6, <1>7 DEF Whole
<1> QED BY <1>8 DEF s, u

LEMMA EncodedIsWhole ==
  ASSUME NEW cps \in Seq(Chars)
  PROVE  Whole(codepoints_to_utf8(cps))
<1> DEFINE n == Len(cps)
           T == {i \in 1 .. n + 1 : Whole(FlatMap(Encode, From(cps, i)))}
<1>0. n \in Nat /\ Chars \subseteq Codes
  BY LenProperties DEF Chars
<1>c. cps \in Seq(Codes)
  BY <1>0, SeqMonotonic
<1>e. MapsTo(Encode, Codes, Byte) /\ codepoints_to_utf8(cps) = FlatMap(Encode, cps)
  BY <1>c, EncodedIs
<1>1. n + 1 \in T
  <2>1. n + 1 \in 1 .. n + 1
    BY <1>0
  <2>2. From(cps, n + 1) = <<>>
    BY <2>1, FromEmpty
  <2> QED BY <2>1, <2>2, FlatMapEmpty, NothingIsWhole
<1>2. ASSUME NEW i \in 1 .. n, \A j \in i + 1 .. n + 1 : j \in T
      PROVE  i \in T
  <2> DEFINE c == cps[i]
             h == <<c>>
             r == From(cps, i + 1)
  <2>1. i + 1 \in i + 1 .. n + 1 /\ i + 1 \in 1 .. n + 1 /\ i \in 1 .. n + 1
    BY <1>0
  <2>2. Whole(FlatMap(Encode, r))
    BY <1>2, <2>1
  <2>3. c \in Chars /\ c \in Codes
    BY <1>0, ElementOfSeq
  <2>4. From(cps, i) = h \o r
    BY FromNext
  <2>5. r \in Seq(Codes)
    BY <1>c, <2>1, FromFacts
  <2>6. h \in Seq(Codes) /\ FlatMap(Encode, h) = Utf8(c)
    <3>1. FlatMap(Encode, <<c>>) = Encode[c]
      BY <1>e, <2>3, FlatMapOne
    <3> QED BY <2>3, <3>1 DEF Encode
  <2> HIDE DEF h, r, c
  <2>7. FlatMap(Encode, h \o r) = FlatMap(Encode, h) \o FlatMap(Encode, r)
    BY <1>e, <2>5, <2>6, FlatMapConcat
  <2>8. Whole(Utf8(c) \o FlatMap(Encode, r))
    BY <2>2, <2>3, WholeAndOne
  <2> QED BY <2>1, <2>4, <2>6, <2>7, <2>8
<1> HIDE DEF T
<1>3. \A i \in 1 .. n + 1 : i \in T
  BY <1>0, <1>1, <1>2, DownTo
<1>4. Whole(FlatMap(Encode, From(cps, 1)))
  <2>1. 1 \in T
    BY <1>0, <1>3
  <2> QED BY <2>1 DEF T
<1>5. From(cps, 1) = cps
  BY SubSeqFull DEF From
<1> QED BY <1>e, <1>4, <1>5

LEMMA WellFormedIsWhole ==
  ASSUME NEW s \in Seq(Byte), WellFormed(s)
  PROVE  Whole(s)
<1> DEFINE cps == utf8_to_codepoints(s)
<1>1. cps \in Seq(Chars)
  <2>1. 1 \in 1 .. Len(s) + 1
    BY LenProperties
  <2> QED BY <2>1, DecodedFromIs
<1>2. codepoints_to_utf8(cps) = s
  BY DEF WellFormed
<1> HIDE DEF cps
<1> QED BY <1>1, <1>2, EncodedIsWhole

\* What lies between two places where the text can be cut.
LEMMA WholePart ==
  ASSUME NEW s, Whole(s), NEW i, Edge(s, i), NEW k, Edge(s, k), i <= k
  PROVE  Whole(SubSeq(s, i, k - 1))
<1> DEFINE p == SubSeq(s, i, k - 1)
<1>1. /\ s \in Seq(Byte) /\ Len(s) \in Nat
      /\ \A j \in 1 .. Len(s) : ~IsContinuation(s[j]) => WholeAt(s, j)
  BY LenProperties DEF Whole
<1>2. /\ i \in 1 .. Len(s) + 1 /\ (i <= Len(s) => ~IsContinuation(s[i]))
      /\ k \in 1 .. Len(s) + 1 /\ (k <= Len(s) => ~IsContinuation(s[k]))
  BY DEF Edge
<1>3. p \in Seq(Byte) /\ Len(p) = k - i /\ \A j \in 1 .. k - i : p[j] = s[i + j - 1]
  <2>1. i \in Int /\ k - 1 \in Int /\ \A j \in i .. k - 1 : s[j] \in Byte
    <3>1. \A j \in i .. k - 1 : j \in 1 .. Len(s)
      BY <1>1, <1>2
    <3> QED BY <1>1, <1>2, <3>1, ElementOfSeq
  <2>2. /\ p \in Seq(Byte) /\ Len(p) = IF i <= k - 1 THEN (k - 1) - i + 1 ELSE 0
        /\ \A j \in 1 .. (k - 1) - i + 1 : p[j] = s[i + j - 1]
    <3> DEFINE e == k - 1
    <3>1. e \in Int /\ \A j \in i .. e : s[j] \in Byte
      BY <2>1
    <3> HIDE DEF e, Byte
    <3>2. /\ SubSeq(s, i, e) \in Seq(Byte)
          /\ Len(SubSeq(s, i, e)) = IF i <= e THEN e - i + 1 ELSE 0
          /\ \A j \in 1 .. e - i + 1 : SubSeq(s, i, e)[j] = s[i + j - 1]
      BY <2>1, <3>1, SubSeqProperties
    <3> QED BY <3>2 DEF e
  <2> HIDE DEF p
  <2>3. (k - 1) - i + 1 = k - i /\ (~(i <= k - 1) => k - i = 0)
    BY <1>2
  <2> QED BY <2>2, <2>3
<1> HIDE DEF p
<1>4. Edge(p, 1)
  <2>1. 1 \in 1 .. Len(p) + 1
    BY <1>2, <1>3
  <2>2. ASSUME 1 <= Len(p) PROVE ~IsContinuation(p[1])
    <3>1. i <= Len(s) /\ 1 \in 1 .. k - i /\ i + 1 - 1 = i
      BY <1>1, <1>2, <1>3, <2>2
    <3> QED BY <1>2, <1>3, <3>1
  <2> QED BY <2>1, <2>2 DEF Edge
<1>5. ASSUME NEW j \in 1 .. Len(p), ~IsContinuation(p[j]) PROVE WholeAt(p, j)
  <2> DEFINE a == i + j - 1
  <2>1. a \in 1 .. Len(s) /\ a < k /\ p[j] = s[a]
    BY <1>1, <1>2, <1>3
  <2> HIDE DEF a
  <2>2. PICK c \in Chars : CharAt(s, a, c) /\ Edge(s, a + Len(Utf8(c)))
    BY <1>1, <1>5, <2>1 DEF WholeAt
  <2> DEFINE u == Utf8(c)
             m == Len(u)
  <2>3. m \in 1 .. 4 /\ \A q \in 2 .. m : IsContinuation(u[q])
    BY CharLength
  <2>4. a + m <= Len(s) + 1 /\ \A q \in 1 .. m : s[a + q - 1] = u[q]
    BY <2>2 DEF CharAt
  <2>5. a + m <= Len(s) => ~IsContinuation(s[a + m])
    BY <2>2 DEF Edge
  <2> HIDE DEF u, m
  <2>6. a + m <= k
    <3> SUFFICES ASSUME ~(a + m <= k) PROVE FALSE
      OBVIOUS
    <3> DEFINE q == k - a + 1
    <3>1. q \in 2 .. m /\ q \in 1 .. m /\ a + q - 1 = k /\ k <= Len(s)
      BY <1>1, <1>2, <2>1, <2>3, <2>4
    <3> HIDE DEF q
    <3> QED BY <1>2, <2>3, <2>4, <3>1
  <2>7. j + m <= Len(p) + 1 /\ j + m \in 1 .. Len(p) + 1
    <3>1. i \in Nat /\ k \in Nat /\ j \in Nat /\ j >= 1 /\ m \in Nat /\ (i + j - 1) + m <= k
      BY <1>1, <1>2, <2>3, <2>6 DEF a
    <3>2. Len(p) = k - i
      BY <1>3
    <3> QED BY <3>1, <3>2
  <2>8. ASSUME NEW q \in 1 .. m PROVE p[j + q - 1] = u[q]
    <3>1. j + q - 1 \in 1 .. k - i /\ i + (j + q - 1) - 1 = a + q - 1
      BY <1>2, <1>3, <2>3, <2>7 DEF a
    <3> QED BY <1>3, <2>4, <3>1
  <2>9. CharAt(p, j, c)
    BY <2>7, <2>8 DEF CharAt, m, u
  <2>10. ASSUME j + m <= Len(p) PROVE ~IsContinuation(p[j + m])
    <3>1. j + m \in 1 .. k - i /\ i + (j + m) - 1 = a + m /\ a + m <= Len(s)
      BY <1>1, <1>2, <1>3, <2>3, <2>7, <2>10 DEF a
    <3> QED BY <1>3, <2>5, <3>1
  <2>11. Edge(p, j + m)
    BY <2>7, <2>10 DEF Edge
  <2> QED BY <2>9, <2>11 DEF WholeAt, m, u
<1>6. Whole(p)
  BY <1>3, <1>4, <1>5 DEF Whole
<1> QED BY <1>6 DEF p

\* A text of whole characters found in another one begins and ends where that
\* can be cut.
LEMMA EdgesOfPart ==
  ASSUME NEW s, Whole(s), NEW t, Whole(t), t # <<>>, NEW i \in 1 .. Len(s) + 1,
         IsPrefix(t, From(s, i))
  PROVE  Edge(s, i) /\ Edge(s, i + Len(t))
<1>1. /\ s \in Seq(Byte) /\ Len(s) \in Nat
      /\ \A j \in 1 .. Len(s) : ~IsContinuation(s[j]) => WholeAt(s, j)
  BY LenProperties DEF Whole
<1>2. /\ t \in Seq(Byte) /\ Len(t) \in Nat \ {0} /\ Edge(t, 1)
      /\ \A j \in 1 .. Len(t) : ~IsContinuation(t[j]) => WholeAt(t, j)
  <2>1. t \in Seq(Byte) /\ Edge(t, 1)
        /\ \A j \in 1 .. Len(t) : ~IsContinuation(t[j]) => WholeAt(t, j)
    BY DEF Whole
  <2> QED BY <2>1, LenProperties, EmptySeq
<1>3. /\ i + Len(t) <= Len(s) + 1
      /\ \A j \in 1 .. Len(t) : t[j] = s[i + j - 1]
  <2> DEFINE r == From(s, i)
  <2>1. /\ r \in Seq(Byte) /\ Len(r) = Len(s) - i + 1
        /\ \A j \in 1 .. Len(s) - i + 1 : r[j] = s[i + j - 1]
    BY <1>1, FromFacts
  <2>2. Len(t) <= Len(r) /\ SubSeq(t, 1, Len(t)) = SubSeq(r, 1, Len(t))
    BY DEF IsPrefix
  <2> HIDE DEF r
  <2>3. SubSeq(t, 1, Len(t)) = t
    BY <1>2, SubSeqFull
  <2>4. ASSUME NEW j \in 1 .. Len(t) PROVE t[j] = r[j]
    <3>1. 1 \in Int /\ Len(t) \in Int /\ \A q \in 1 .. Len(t) : r[q] \in Byte
      <4>1. \A q \in 1 .. Len(t) : q \in 1 .. Len(r)
        BY <1>1, <1>2, <2>1, <2>2
      <4> QED BY <1>2, <2>1, <4>1, ElementOfSeq
    <3> DEFINE l == Len(t)
    <3> HIDE DEF Byte, l
    <3>2. \A q \in 1 .. l - 1 + 1 : SubSeq(r, 1, l)[q] = r[1 + q - 1]
      BY <3>1, SubSeqProperties DEF l
    <3>3. j \in 1 .. l - 1 + 1 /\ 1 + j - 1 = j
      BY <3>1 DEF l
    <3>4. SubSeq(r, 1, l)[j] = r[j]
      BY <3>2, <3>3
    <3> QED BY <2>2, <2>3, <3>4 DEF l
  <2>5. \A j \in 1 .. Len(t) : j \in 1 .. Len(s) - i + 1
    BY <1>1, <1>2, <2>1, <2>2
  <2>6. i + Len(t) <= Len(s) + 1
    BY <1>1, <1>2, <2>1, <2>2
  <2> QED BY <2>1, <2>4, <2>5, <2>6
<1>4. Edge(s, i)
  <2>1. 1 \in 1 .. Len(t) /\ i + 1 - 1 = i /\ 1 <= Len(t)
    BY <1>2
  <2>2. ~IsContinuation(t[1])
    BY <1>2, <2>1 DEF Edge
  <2> QED BY <1>3, <2>1, <2>2 DEF Edge
<1>5. Edge(s, i + Len(t))
  <2> DEFINE N == {j \in 1 .. Len(t) : ~IsContinuation(t[j])}
  <2>1. 1 \in N
    <3>1. 1 \in 1 .. Len(t) /\ 1 <= Len(t)
      BY <1>2
    <3> QED BY <1>2, <3>1 DEF Edge
  <2>2. PICK j \in N : \A x \in N : x <= j
    <3>1. N \in SUBSET Int /\ Len(t) \in Int /\ \A x \in N : x <= Len(t)
      BY <1>2
    <3> HIDE DEF N
    <3> QED BY <2>1, <3>1, Greatest
  <2>3. j \in 1 .. Len(t) /\ ~IsContinuation(t[j])
    OBVIOUS
  <2>4. PICK c \in Chars : CharAt(t, j, c) /\ Edge(t, j + Len(Utf8(c)))
    BY <1>2, <2>3 DEF WholeAt
  <2> DEFINE u == Utf8(c)
             m == Len(u)
             a == i + j - 1
  <2>5. m \in 1 .. 4 /\ utf8_sequence_length(u[1]) = m
    BY CharLength
  <2>6. j + m <= Len(t) + 1 /\ \A q \in 1 .. m : t[j + q - 1] = u[q]
    BY <2>4 DEF CharAt
  <2>7. j + m <= Len(t) => ~IsContinuation(t[j + m])
    BY <2>4 DEF Edge
  <2> HIDE DEF u, m
  <2>8. j + m = Len(t) + 1
    <3> SUFFICES ASSUME j + m # Len(t) + 1 PROVE FALSE
      OBVIOUS
    <3>1. j + m \in 1 .. Len(t) /\ j + m <= Len(t) /\ ~(j + m <= j)
      BY <1>2, <2>3, <2>5, <2>6
    <3>2. j + m \in N
      BY <2>7, <3>1
    <3> HIDE DEF N
    <3> QED BY <2>2, <3>1, <3>2
  <2> HIDE DEF N
  <2>9. a \in 1 .. Len(s) /\ s[a] = t[j]
    BY <1>1, <1>2, <1>3, <2>3
  <2> HIDE DEF a
  <2>10. PICK d \in Chars : CharAt(s, a, d) /\ Edge(s, a + Len(Utf8(d)))
    BY <1>1, <2>3, <2>9 DEF WholeAt
  <2> DEFINE v == Utf8(d)
  <2>11. Len(v) \in 1 .. 4 /\ utf8_sequence_length(v[1]) = Len(v)
    BY CharLength
  <2>12. \A q \in 1 .. Len(v) : s[a + q - 1] = v[q]
    BY <2>10 DEF CharAt
  <2>13. Edge(s, a + Len(v))
    BY <2>10
  <2> HIDE DEF v
  <2>14. u[1] = t[j] /\ v[1] = s[a]
    <3>1. 1 \in 1 .. m /\ j + 1 - 1 = j /\ 1 \in 1 .. Len(v) /\ a + 1 - 1 = a
      BY <2>3, <2>5, <2>9, <2>11
    <3> QED BY <2>6, <2>12, <3>1
  <2>15. Len(v) = m
    BY <2>5, <2>9, <2>11, <2>14
  <2>16. a + m = i + Len(t)
    BY <1>2, <2>3, <2>5, <2>8 DEF a
  <2> QED BY <2>13, <2>15, <2>16
<1> QED BY <1>4, <1>5

-----------------------------------------------------------------------------
\* The bytes that the tokens of a word stand for.

\* Different bytes stand for different code points.
LEMMA SignsDiffer ==
  ASSUME NEW a \in Byte, NEW b \in Byte,
         build_bytes_to_unicode(a) = build_bytes_to_unicode(b)
  PROVE  a = b
<1> DEFINE U == Unprintable
           Below(x) == {y \in U : y < x}
           card(x) == Cardinality(Below(x))
<1>1. IsFiniteSet(U) /\ U \subseteq Byte
  <2>1. IsFiniteSet(0 .. 32) /\ IsFiniteSet(127 .. 160) /\ IsFiniteSet({173})
    <3>1. \A x \in Int, y \in Int : IsFiniteSet(x .. y)
      BY FS_Interval
    <3>2. 0 \in Int /\ 32 \in Int /\ 127 \in Int /\ 160 \in Int
      BY SMT
    <3>3. IsFiniteSet(0 .. 32) /\ IsFiniteSet(127 .. 160)
      BY <3>1, <3>2
    <3> QED BY <3>3, FS_Singleton
  <2>2. IsFiniteSet(0 .. 32 \cup 127 .. 160)
    BY <2>1, FS_Union
  <2>3. IsFiniteSet((0 .. 32 \cup 127 .. 160) \cup {173})
    BY <2>1, <2>2, FS_Union
  <2>4. U = (0 .. 32 \cup 127 .. 160) \cup {173}
    BY DEF Unprintable
  <2>5. U \subseteq Byte
    BY SMT DEF Unprintable, Byte
  <2> QED BY <2>3, <2>4, <2>5
<1>2. a \in Int /\ b \in Int /\ a < 256 /\ b < 256
  BY SMT DEF Byte
<1>3. \A x \in Byte : /\ IsFiniteSet(Below(x)) /\ card(x) \in Nat
                      /\ Below(x) \in SUBSET U
  <2> TAKE x \in Byte
  <2>1. Below(x) \in SUBSET U
    OBVIOUS
  <2> HIDE DEF U, Below
  <2> QED BY <1>1, <2>1, FS_Subset, FS_CardinalityType
<1>4. ASSUME NEW x \in U, NEW y \in U, x < y PROVE card(x) # card(y)
  <2>0. x \in Int /\ y \in Int /\ x \in Byte /\ y \in Byte
    BY <1>1 DEF Byte
  <2>1. Below(x) \subseteq Below(y)
    <3>1. \A z \in U : z \in Int
      BY <1>1 DEF Byte
    <3> HIDE DEF U
    <3>2. ASSUME NEW z \in U, z < x PROVE z < y
      <4>1. z \in Int
        BY <3>1
      <4> QED BY <1>4, <2>0, <3>2, <4>1
    <3> QED BY <3>2
  <2>2. x \in Below(y) /\ x \notin Below(x)
    <3> HIDE DEF U
    <3> QED BY <1>4, <2>0
  <2> HIDE DEF Below, U
  <2>3. Below(x) # Below(y)
    BY <2>2
  <2>4. Cardinality(Below(y)) = Cardinality(Below(x)) => Below(y) = Below(x)
    BY <1>3, <2>0, <2>1, FS_Subset
  <2> QED BY <2>3, <2>4
<1>5. \A x \in Byte : build_bytes_to_unicode(x) = IF x \notin U THEN x ELSE 256 + card(x)
  BY DEF build_bytes_to_unicode
<1> HIDE DEF U, card, Below
<1>6. CASE a \notin U /\ b \notin U
  BY <1>5, <1>6
<1>7. CASE a \notin U /\ b \in U
  <2>1. a = 256 + card(b) /\ card(b) \in Nat
    BY <1>3, <1>5, <1>7
  <2> QED BY SMT, <1>2, <2>1
<1>8. CASE a \in U /\ b \notin U
  <2>1. b = 256 + card(a) /\ card(a) \in Nat
    BY <1>3, <1>5, <1>8
  <2> QED BY SMT, <1>2, <2>1
<1>9. CASE a \in U /\ b \in U
  <2>1. 256 + card(a) = 256 + card(b) /\ card(a) \in Nat /\ card(b) \in Nat
    BY <1>3, <1>5, <1>9
  <2>2. card(a) = card(b)
    BY SMT, <2>1
  <2>3. a < b \/ b < a \/ a = b
    BY <1>2
  <2> QED BY <1>4, <1>9, <2>2, <2>3
<1> QED BY <1>6, <1>7, <1>8, <1>9

LEMMA SignComesBack ==
  ASSUME NEW b \in Byte
  PROVE  SetToSeq(build_unicode_to_bytes(build_bytes_to_unicode(b))) = <<b>>
<1> DEFINE x == build_bytes_to_unicode(b)
           U == Unprintable
           C == IF x < 256 THEN {x} \ U ELSE U
           B == {y \in C : build_bytes_to_unicode(y) = x}
<1>1. build_unicode_to_bytes(x) = B
  BY DEF build_unicode_to_bytes
<1>2. b \in C /\ C \subseteq Byte
  <2>0. b \in Int /\ b < 256 /\ U \subseteq Byte
    <3>1. b \in Int /\ b < 256
      BY SMT DEF Byte
    <3>2. U \subseteq Byte
      BY SMT DEF Unprintable, Byte
    <3> QED BY <3>1, <3>2
  <2>1. CASE b \notin U
    <3>1. x = b
      BY <2>1 DEF build_bytes_to_unicode
    <3>2. C = {b}
      <4> HIDE DEF U, x
      <4>1. x < 256
        BY <2>0, <3>1
      <4> QED BY <2>1, <3>1, <4>1
    <3> QED BY <3>2
  <2>2. CASE b \in U
    <3> DEFINE S == {y \in U : y < b}
    <3>1. x = 256 + Cardinality(S)
      BY <2>2 DEF build_bytes_to_unicode
    <3>2. Cardinality(S) \in Nat
      <4>1. IsFiniteSet(0 .. 255) /\ S \in SUBSET (0 .. 255)
        <5>1. 0 \in Int /\ 255 \in Int
          BY SMT
        <5>2. S \in SUBSET (0 .. 255)
          BY <2>0 DEF Byte
        <5> QED BY <5>1, <5>2, FS_Interval
      <4> HIDE DEF S
      <4> QED BY <4>1, FS_Subset, FS_CardinalityType
    <3> HIDE DEF S, x, U
    <3>3. ~(x < 256)
      BY SMT, <3>1, <3>2
    <3> QED BY <2>0, <2>2, <3>3
  <2> QED BY <2>1, <2>2
<1>3. B = {b}
  <2> HIDE DEF C
  <2> QED BY <1>2, SignsDiffer
<1>4. SetToSeq({b}) = <<b>>
  <2>1. Cardinality({b}) = 1
    BY FS_Singleton
  <2>2. SetToSeq({b}) = CHOOSE f \in [1 .. 1 -> {b}] : IsInjective(f)
    BY <2>1 DEF SetToSeq
  <2>3. <<b>> \in [1 .. 1 -> {b}] /\ \A f \in [1 .. 1 -> {b}] : f = <<b>>
    OBVIOUS
  <2>4. IsInjective(<<b>>)
    BY DEF IsInjective
  <2>5. (CHOOSE f \in [1 .. 1 -> {b}] : IsInjective(f)) \in [1 .. 1 -> {b}]
    BY <2>3, <2>4
  <2> QED BY <2>2, <2>3, <2>5
<1> QED BY <1>1, <1>3, <1>4

\* The byte of each sign, the bytes of each token and those of a word.
SignByte == [x \in Signs |-> SetToSeq(build_unicode_to_bytes(x))]
TokenBytes == [t \in Tokens |-> BytesOf(t)]
WordBytes(w) == FlatMap(TokenBytes, w)

LEMMA SignByteIs ==
  /\ MapsTo(SignByte, Signs, Byte)
  /\ \A b \in Byte : /\ build_bytes_to_unicode(b) \in Signs
                     /\ SignByte[build_bytes_to_unicode(b)] = <<b>>
<1>1. \A b \in Byte : /\ build_bytes_to_unicode(b) \in Signs
                      /\ SignByte[build_bytes_to_unicode(b)] = <<b>>
  BY SignComesBack DEF SignByte, Signs
<1>2. \A x \in Signs : SignByte[x] \in Seq(Byte)
  <2> TAKE x \in Signs
  <2>1. PICK b \in Byte : x = build_bytes_to_unicode(b)
    BY DEF Signs
  <2>2. SignByte[x] = <<b>>
    BY <1>1, <2>1
  <2> HIDE DEF Byte
  <2> QED BY <2>2
<1>3. DOMAIN SignByte = Signs /\ SignByte = [x \in Signs |-> SignByte[x]]
  BY DEF SignByte
<1>4. SignByte \in [Signs -> Seq(Byte)]
  BY <1>2, <1>3
<1> QED BY <1>1, <1>4 DEF MapsTo

LEMMA BytesOfIs ==
  ASSUME NEW t \in Tokens
  PROVE  BytesOf(t) = FlatMap(SignByte, t) /\ BytesOf(t) \in Seq(Byte)
<1>1. t \in Seq(Signs) /\ \A i \in DOMAIN t : t[i] \in Signs
  BY LenProperties, ElementOfSeq DEF Tokens
<1>2. [i \in DOMAIN t |-> SetToSeq(build_unicode_to_bytes(t[i]))]
        = [i \in DOMAIN t |-> SignByte[t[i]]]
  BY <1>1 DEF SignByte
<1>3. BytesOf(t) = FlatMap(SignByte, t)
  BY <1>2 DEF BytesOf, FlatMap
<1> QED BY <1>1, <1>3, SignByteIs, FlatMapType

LEMMA TokenBytesType == MapsTo(TokenBytes, Tokens, Byte)
BY BytesOfIs DEF MapsTo, TokenBytes

\* What is one element of its own for each element is not changed.
LEMMA FlatMapSame ==
  ASSUME NEW X, NEW f, MapsTo(f, X, X), NEW s \in Seq(X),
         \A i \in 1 .. Len(s) : f[s[i]] = <<s[i]>>
  PROVE  FlatMap(f, s) = s
<1> DEFINE n == Len(s)
           T == {i \in 1 .. n + 1 : FlatMap(f, From(s, i)) = From(s, i)}
<1>0. n \in Nat /\ \A i \in 1 .. n : s[i] \in X
  BY LenProperties, ElementOfSeq
<1>1. n + 1 \in T
  <2>1. n + 1 \in 1 .. n + 1
    BY <1>0
  <2>2. From(s, n + 1) = <<>>
    BY <2>1, FromEmpty
  <2> QED BY <2>1, <2>2, FlatMapEmpty
<1>2. ASSUME NEW i \in 1 .. n, \A j \in i + 1 .. n + 1 : j \in T
      PROVE  i \in T
  <2> DEFINE h == <<s[i]>>
             r == From(s, i + 1)
  <2>1. i + 1 \in i + 1 .. n + 1 /\ i + 1 \in 1 .. n + 1 /\ i \in 1 .. n + 1
    BY <1>0
  <2>2. FlatMap(f, r) = r /\ r \in Seq(X)
    BY <1>2, <2>1, FromFacts
  <2>3. From(s, i) = h \o r
    BY FromNext
  <2>4. h \in Seq(X) /\ FlatMap(f, h) = h
    <3>1. s[i] \in X
      BY <1>0
    <3>2. FlatMap(f, <<s[i]>>) = f[s[i]]
      BY <3>1, FlatMapOne
    <3>3. f[s[i]] = <<s[i]>>
      OBVIOUS
    <3>4. <<s[i]>> \in Seq(X)
      BY <3>1
    <3> QED BY <3>2, <3>3, <3>4
  <2> HIDE DEF h, r, T, n
  <2>5. FlatMap(f, h \o r) = FlatMap(f, h) \o FlatMap(f, r)
    <3>1. h \in Seq(X) /\ r \in Seq(X)
      BY <2>2, <2>4
    <3> QED BY <3>1, FlatMapConcat
  <2> QED BY <2>1, <2>2, <2>3, <2>4, <2>5 DEF T
<1> HIDE DEF T
<1>3. \A i \in 1 .. n + 1 : i \in T
  BY <1>0, <1>1, <1>2, DownTo
<1>4. FlatMap(f, From(s, 1)) = From(s, 1)
  <2>1. 1 \in T
    BY <1>0, <1>3
  <2> QED BY <2>1 DEF T
<1>5. From(s, 1) = s
  BY SubSeqFull DEF From
<1> QED BY <1>4, <1>5

LEMMA EncodedBytesBack ==
  ASSUME NEW p \in Seq(Byte)
  PROVE  WordBytes(byte_encode(p)) = p
<1> DEFINE One == [b \in Byte |-> <<b>>]
           e == byte_encode(p)
<1>1. DOMAIN p = 1 .. Len(p) /\ \A i \in DOMAIN p : p[i] \in Byte
  BY LenProperties, ElementOfSeq
<1>2. e = [i \in DOMAIN p |-> <<build_bytes_to_unicode(p[i])>>]
  BY DEF byte_encode
<1>3. ASSUME NEW b \in Byte PROVE TokenBytes[<<build_bytes_to_unicode(b)>>] = <<b>>
  <2> DEFINE x == build_bytes_to_unicode(b)
             t == <<x>>
  <2>1. x \in Signs /\ SignByte[x] = <<b>>
    BY SignByteIs
  <2> HIDE DEF x
  <2>2. t \in Tokens
    BY <2>1 DEF Tokens
  <2>3. FlatMap(SignByte, t) = SignByte[x]
    BY <2>1, SignByteIs, FlatMapOne
  <2> HIDE DEF t
  <2>4. TokenBytes[t] = <<b>>
    BY <2>1, <2>2, <2>3, BytesOfIs DEF TokenBytes
  <2> QED BY <2>4 DEF t, x
<1>4. \A i \in DOMAIN p : TokenBytes[e[i]] = One[p[i]]
  <2> HIDE DEF Byte
  <2> QED BY <1>1, <1>2, <1>3
<1>5. DOMAIN e = DOMAIN p
  BY <1>2
<1> HIDE DEF e
<1>6. WordBytes(e) = FlatMap(One, p)
  <2>1. [i \in DOMAIN e |-> TokenBytes[e[i]]] = [i \in DOMAIN p |-> One[p[i]]]
    <3> HIDE DEF One
    <3> QED BY <1>4, <1>5
  <2> QED BY <2>1 DEF WordBytes, FlatMap
<1>7. MapsTo(One, Byte, Byte) /\ \A i \in 1 .. Len(p) : One[p[i]] = <<p[i]>>
  <2> HIDE DEF Byte
  <2>1. \A b \in Byte : <<b>> \in Seq(Byte)
    OBVIOUS
  <2> QED BY <1>1, <2>1 DEF MapsTo
<1> HIDE DEF One
<1> QED BY <1>6, <1>7, FlatMapSame DEF e

LEMMA WordBytesType ==
  ASSUME NEW w \in Seq(Tokens)
  PROVE  WordBytes(w) \in Seq(Byte)
BY TokenBytesType, FlatMapType DEF WordBytes

LEMMA WordBytesConcat ==
  ASSUME NEW v \in Seq(Tokens), NEW w \in Seq(Tokens)
  PROVE  WordBytes(v \o w) = WordBytes(v) \o WordBytes(w)
BY TokenBytesType, FlatMapConcat DEF WordBytes

LEMMA WordBytesOne ==
  ASSUME NEW t \in Tokens
  PROVE  <<t>> \in Seq(Tokens) /\ WordBytes(<<t>>) = TokenBytes[t] /\ TokenBytes[t] \in Seq(Byte)
<1>1. WordBytes(<<t>>) = TokenBytes[t]
  BY TokenBytesType, FlatMapOne DEF WordBytes
<1> QED BY <1>1, BytesOfIs DEF TokenBytes

\* A text is what comes before a place and what comes from there on.
LEMMA CutInTwo ==
  ASSUME NEW S, NEW s \in Seq(S), NEW i \in 1 .. Len(s) + 1
  PROVE  SubSeq(s, 1, i - 1) \in Seq(S) /\ s = SubSeq(s, 1, i - 1) \o From(s, i)
<1> DEFINE k == i - 1
           n == Len(s)
<1>1. n \in Nat
  BY LenProperties
<1>2. 1 \in 1 .. n + 1 /\ k \in 1 - 1 .. n /\ n \in k .. n /\ k + 1 = i
  BY <1>1
<1>3. SubSeq(s, 1, k) \in Seq(S)
  <2>1. 1 \in Int /\ k \in Int /\ \A j \in 1 .. k : s[j] \in S
    <3>1. \A j \in 1 .. k : j \in 1 .. n
      BY <1>1
    <3> QED BY <1>1, <3>1, ElementOfSeq
  <2> HIDE DEF k
  <2> QED BY <2>1, SubSeqProperties
<1> HIDE DEF k, n
<1>4. SubSeq(s, 1, k) \o SubSeq(s, k + 1, n) = SubSeq(s, 1, n)
  BY <1>2, ConcatAdjacentSubSeq DEF n
<1>5. SubSeq(s, 1, n) = s
  BY SubSeqFull DEF n
<1> QED BY <1>2, <1>3, <1>4, <1>5 DEF From, n, k

LEMMA MergedBytes ==
  ASSUME NEW w \in Seq(Tokens), NEW i \in Mergeable(w)
  PROVE  WordBytes(MergedAt(w, i)) = WordBytes(w)
<1> DEFINE a == SubSeq(w, 1, i - 1)
           b == From(w, i + 2)
           x == <<w[i]>>
           y == <<w[i + 1]>>
           c == <<w[i] \o w[i + 1]>>
           B(v) == WordBytes(v)
<1>1. Len(w) \in Nat /\ i \in 1 .. Len(w) - 1
  BY LenProperties DEF Mergeable
<1>2. /\ i \in 1 .. Len(w) /\ i \in 1 .. Len(w) + 1 /\ i + 1 \in 1 .. Len(w)
      /\ i + 2 \in 1 .. Len(w) + 1 /\ (i + 1) + 1 = i + 2
  BY <1>1
<1>3. w = a \o (x \o (y \o b))
  <2>1. w = a \o From(w, i)
    BY <1>2, CutInTwo
  <2>2. From(w, i) = x \o From(w, i + 1)
    BY <1>2, FromNext
  <2>3. From(w, i + 1) = y \o b
    <3> DEFINE j == i + 1
    <3>1. j \in 1 .. Len(w)
      BY <1>2
    <3> HIDE DEF j
    <3>2. From(w, j) = <<w[j]>> \o From(w, j + 1)
      BY <3>1, FromNext
    <3> QED BY <1>2, <3>2 DEF j
  <2> QED BY <2>1, <2>2, <2>3
<1>4. MergedAt(w, i) = (a \o c) \o b
  BY DEF MergedAt, From
<1>5. /\ w[i] \in Tokens /\ w[i + 1] \in Tokens /\ w[i] \o w[i + 1] \in Tokens
      /\ a \in Seq(Tokens) /\ b \in Seq(Tokens)
  <2>1. w[i] \in Tokens /\ w[i + 1] \in Tokens /\ w[i] \o w[i + 1] \in Tokens
    BY MergedType
  <2> HIDE DEF Tokens
  <2>2. a \in Seq(Tokens)
    BY <1>2, CutInTwo
  <2>3. b \in Seq(Tokens)
    BY <1>2, FromFacts
  <2> QED BY <2>1, <2>2, <2>3
<1>6. TokenBytes[w[i] \o w[i + 1]] = TokenBytes[w[i]] \o TokenBytes[w[i + 1]]
  <2> DEFINE s == w[i]
             t == w[i + 1]
  <2>1. s \in Tokens /\ t \in Tokens /\ s \o t \in Tokens
    BY <1>5
  <2> HIDE DEF s, t
  <2>2. s \in Seq(Signs) /\ t \in Seq(Signs)
    BY <2>1 DEF Tokens
  <2>3. FlatMap(SignByte, s \o t) = FlatMap(SignByte, s) \o FlatMap(SignByte, t)
    BY <2>2, SignByteIs, FlatMapConcat
  <2>4. /\ BytesOf(s) = FlatMap(SignByte, s) /\ BytesOf(t) = FlatMap(SignByte, t)
        /\ BytesOf(s \o t) = FlatMap(SignByte, s \o t)
    BY <2>1, BytesOfIs
  <2>5. TokenBytes[s \o t] = TokenBytes[s] \o TokenBytes[t]
    BY <2>1, <2>3, <2>4 DEF TokenBytes
  <2> QED BY <2>5 DEF s, t
<1>7. /\ x \in Seq(Tokens) /\ B(x) = TokenBytes[w[i]] /\ B(x) \in Seq(Byte)
      /\ y \in Seq(Tokens) /\ B(y) = TokenBytes[w[i + 1]] /\ B(y) \in Seq(Byte)
      /\ c \in Seq(Tokens) /\ B(c) = TokenBytes[w[i] \o w[i + 1]]
  BY <1>5, WordBytesOne
<1>8. B(c) = B(x) \o B(y)
  BY <1>6, <1>7
<1> HIDE DEF a, b, c, x, y, B
<1>9. B(a) \in Seq(Byte) /\ B(b) \in Seq(Byte) /\ B(x) \in Seq(Byte) /\ B(y) \in Seq(Byte)
  BY <1>5, <1>7, WordBytesType DEF B
<1>10. B((a \o c) \o b) = (B(a) \o B(c)) \o B(b)
  <2>1. a \o c \in Seq(Tokens)
    BY <1>5, <1>7, ConcatProperties
  <2>2. B((a \o c) \o b) = B(a \o c) \o B(b)
    BY <1>5, <2>1, WordBytesConcat DEF B
  <2>3. B(a \o c) = B(a) \o B(c)
    BY <1>5, <1>7, WordBytesConcat DEF B
  <2> QED BY <2>2, <2>3
<1>11. B(a \o (x \o (y \o b))) = B(a) \o (B(x) \o (B(y) \o B(b)))
  <2>1. y \o b \in Seq(Tokens)
    BY <1>5, <1>7, ConcatProperties
  <2>2. x \o (y \o b) \in Seq(Tokens)
    BY <1>7, <2>1, ConcatProperties
  <2>3. B(a \o (x \o (y \o b))) = B(a) \o B(x \o (y \o b))
    BY <1>5, <2>2, WordBytesConcat DEF B
  <2>4. B(x \o (y \o b)) = B(x) \o B(y \o b)
    BY <1>7, <2>1, WordBytesConcat DEF B
  <2>5. B(y \o b) = B(y) \o B(b)
    BY <1>5, <1>7, WordBytesConcat DEF B
  <2> QED BY <2>3, <2>4, <2>5
<1>12. (B(a) \o (B(x) \o B(y))) \o B(b) = B(a) \o (B(x) \o (B(y) \o B(b)))
  <2> DEFINE A == B(a)
             X == B(x)
             Y == B(y)
             C == B(b)
  <2> HIDE DEF A, X, Y, C
  <2>1. A \in Seq(Byte) /\ X \in Seq(Byte) /\ Y \in Seq(Byte) /\ C \in Seq(Byte)
    BY <1>9 DEF A, X, Y, C
  <2>2. X \o Y \in Seq(Byte)
    BY <2>1, ConcatProperties
  <2> DEFINE Z == X \o Y
  <2> HIDE DEF Z
  <2>3. (A \o Z) \o C = A \o (Z \o C)
    <3>1. Z \in Seq(Byte)
      BY <2>2 DEF Z
    <3>2. AreSeqs(Byte, A, Z, C)
      BY <2>1, <3>1 DEF AreSeqs
    <3> QED BY <3>2, ConcatThree
  <2>4. (X \o Y) \o C = X \o (Y \o C)
    BY <2>1, ConcatThree DEF AreSeqs
  <2> QED BY <2>3, <2>4 DEF A, X, Y, Z, C
<1>13. B(MergedAt(w, i)) = B(w)
  BY <1>3, <1>4, <1>8, <1>10, <1>11, <1>12
<1> QED BY <1>13 DEF B

-----------------------------------------------------------------------------
\* What is decoded from an id, and from the ids of a word.

AllIds == AddedIds \cup VocabIds
IdText(skip) == [x \in AllIds |-> DecodedId(x, skip)]

LEMMA AddedIdBack ==
  ASSUME NEW skip, NEW t \in added_tokens
  PROVE  /\ t.id \in AllIds
         /\ DecodedId(t.id, skip) = IF skip /\ t.special THEN <<>> ELSE t.content
<1>1. t.id \in AllIds
  BY DEF AddedIds, AllIds
<1>2. \A u \in added_tokens : u.id = t.id => u = t
  BY ContentAssumption DEF AddedTokensAreText
<1>3. (CHOOSE u \in added_tokens : u.id = t.id) = t
  BY <1>2
<1>4. \E u \in added_tokens : u.id = t.id
  OBVIOUS
<1> QED BY <1>1, <1>3, <1>4 DEF DecodedId

LEMMA VocabIdBack ==
  ASSUME NEW skip, NEW t \in Tokens, t \in DOMAIN vocab
  PROVE  vocab[t] \in AllIds /\ DecodedId(vocab[t], skip) = BytesOf(t)
<1> DEFINE x == vocab[t]
<1>1. x \in AllIds
  BY DEF VocabIds, AllIds
<1>2. ~\E u \in added_tokens : u.id = x
  BY NewIdsAssumption DEF AddedIdsAreNew, AddedIds
<1>3. x \in Range(vocab)
  BY DEF Range
<1>4. \A u \in DOMAIN vocab : vocab[u] = x => u = t
  BY CompleteAssumption DEF VocabularyIsComplete, IsInjective
<1>5. id_to_token = [y \in Range(vocab) |->
                       CHOOSE u \in DOMAIN vocab : y \in Range(vocab) => vocab[u] = y]
  BY DEF id_to_token, AntiFunction, Inverse
<1>6. id_to_token[x] = CHOOSE u \in DOMAIN vocab : x \in Range(vocab) => vocab[u] = x
  BY <1>3, <1>5
<1>7. (CHOOSE u \in DOMAIN vocab : x \in Range(vocab) => vocab[u] = x) = t
  BY <1>3, <1>4
<1>8. x \in DOMAIN id_to_token
  BY <1>3, <1>5
<1> QED BY <1>1, <1>2, <1>6, <1>7, <1>8 DEF DecodedId

LEMMA IdTextType ==
  ASSUME NEW skip
  PROVE  MapsTo(IdText(skip), AllIds, Byte)
<1>1. ASSUME NEW x \in AllIds PROVE DecodedId(x, skip) \in Seq(Byte)
  <2>1. CASE x \in AddedIds
    <3>1. PICK t \in added_tokens : x = t.id
      BY <2>1 DEF AddedIds
    <3>2. DecodedId(x, skip) = IF skip /\ t.special THEN <<>> ELSE t.content
      BY <3>1, AddedIdBack
    <3> QED BY <3>2, AddedType, EmptySeq
  <2>2. CASE x \in VocabIds
    <3>1. PICK t \in Tokens \cap DOMAIN vocab : x = vocab[t]
      BY <2>2 DEF VocabIds
    <3>2. DecodedId(x, skip) = BytesOf(t)
      BY <3>1, VocabIdBack
    <3> QED BY <3>1, <3>2, BytesOfIs
  <2> QED BY <2>1, <2>2 DEF AllIds
<1> QED BY <1>1 DEF IdText, MapsTo

LEMMA DecodedIs ==
  ASSUME NEW skip, NEW s \in Seq(AllIds)
  PROVE  Decoded(s, skip) = FlatMap(IdText(skip), s) /\ Decoded(s, skip) \in Seq(Byte)
<1>1. \A i \in DOMAIN s : s[i] \in AllIds
  BY LenProperties, ElementOfSeq
<1>2. [i \in DOMAIN s |-> DecodedId(s[i], skip)] = [i \in DOMAIN s |-> IdText(skip)[s[i]]]
  BY <1>1 DEF IdText
<1>3. Decoded(s, skip) = FlatMap(IdText(skip), s)
  BY <1>2 DEF Decoded, FlatMap
<1>4. FlatMap(IdText(skip), s) \in Seq(Byte)
  BY IdTextType, FlatMapType
<1> QED BY <1>3, <1>4

LEMMA DecodedConcat ==
  ASSUME NEW skip, NEW s \in Seq(AllIds), NEW t \in Seq(AllIds)
  PROVE  Decoded(s \o t, skip) = Decoded(s, skip) \o Decoded(t, skip)
<1>1. s \o t \in Seq(AllIds)
  BY ConcatProperties
<1> DEFINE f == IdText(skip)
<1>2. /\ Decoded(s \o t, skip) = FlatMap(f, s \o t)
      /\ Decoded(s, skip) = FlatMap(f, s) /\ Decoded(t, skip) = FlatMap(f, t)
  BY <1>1, DecodedIs
<1>3. MapsTo(f, AllIds, Byte)
  BY IdTextType
<1> HIDE DEF f
<1>4. FlatMap(f, s \o t) = FlatMap(f, s) \o FlatMap(f, t)
  BY <1>3, FlatMapConcat
<1> QED BY <1>2, <1>4

LEMMA DecodedAppend ==
  ASSUME NEW skip, NEW s \in Seq(AllIds), NEW x \in AllIds
  PROVE  Decoded(Append(s, x), skip) = Decoded(s, skip) \o DecodedId(x, skip)
<1>1. Append(s, x) \in Seq(AllIds)
  BY AppendProperties
<1> DEFINE f == IdText(skip)
<1>2. /\ Decoded(Append(s, x), skip) = FlatMap(f, Append(s, x))
      /\ Decoded(s, skip) = FlatMap(f, s) /\ DecodedId(x, skip) = f[x]
  BY <1>1, DecodedIs DEF IdText
<1>3. MapsTo(f, AllIds, Byte)
  BY IdTextType
<1> HIDE DEF f
<1>4. FlatMap(f, Append(s, x)) = FlatMap(f, s) \o f[x]
  BY <1>3, FlatMapAppend
<1> QED BY <1>2, <1>4

\* Words of which every token has an id.
InVocab(w) == \A i \in 1 .. Len(w) : w[i] \in DOMAIN vocab

LEMMA KnownIsAll ==
  ASSUME NEW w \in Seq(Tokens), InVocab(w)
  PROVE  Known(w) = w
<1> DEFINE V == Tokens \cap DOMAIN vocab
           f == Pick(V, V)
<1>1. \A i \in 1 .. Len(w) : w[i] \in Tokens
  <2> HIDE DEF Tokens
  <2> QED BY ElementOfSeq
<1>2. DOMAIN w = 1 .. Len(w) /\ Len(w) \in Nat
  BY LenProperties
<1>3. \A i \in 1 .. Len(w) : w[i] \in V
  BY <1>1 DEF InVocab
<1>4. w \in Seq(V)
  <2>1. w = [i \in 1 .. Len(w) |-> w[i]]
    BY <1>2
  <2> HIDE DEF V
  <2>2. w \in [1 .. Len(w) -> V]
    BY <1>3, <2>1
  <2> QED BY <1>2, <2>2, FunctionIsSeq
<1>5. Known(w) = Only(w, V)
  BY <1>1, <1>2 DEF Known, Only
<1> HIDE DEF V
<1>6. Only(w, V) = FlatMap(f, w) /\ MapsTo(f, V, V)
  BY <1>4, OnlyIsFlatMap
<1>7. \A i \in 1 .. Len(w) : f[w[i]] = <<w[i]>>
  BY <1>3 DEF Pick
<1> HIDE DEF f
<1>8. FlatMap(f, w) = w
  BY <1>4, <1>6, <1>7, FlatMapSame
<1> QED BY <1>5, <1>6, <1>8

\* The ids of such a word stand for its bytes.
LEMMA IdsOfBack ==
  ASSUME NEW skip, NEW w \in Seq(Tokens), InVocab(w)
  PROVE  IdsOf(w) \in Seq(AllIds) /\ Decoded(IdsOf(w), skip) = WordBytes(w)
<1>1. IdsOf(w) = [i \in DOMAIN w |-> vocab[w[i]]]
  BY KnownIsAll DEF IdsOf
<1>2. DOMAIN w = 1 .. Len(w) /\ Len(w) \in Nat
  BY LenProperties
<1>3. ASSUME NEW i \in DOMAIN w
      PROVE  DecodedId(vocab[w[i]], skip) = TokenBytes[w[i]]
  <2>1. w[i] \in Tokens
    <3> HIDE DEF Tokens
    <3> QED BY <1>2, ElementOfSeq
  <2>2. w[i] \in DOMAIN vocab
    BY <1>2 DEF InVocab
  <2> QED BY <2>1, <2>2, VocabIdBack DEF TokenBytes
<1>4. [i \in DOMAIN IdsOf(w) |-> DecodedId(IdsOf(w)[i], skip)]
        = [i \in DOMAIN w |-> TokenBytes[w[i]]]
  BY <1>1, <1>3
<1>5. Decoded(IdsOf(w), skip) = WordBytes(w)
  BY <1>4 DEF Decoded, WordBytes, FlatMap
<1>6. IdsOf(w) \in Seq(AllIds)
  <2>1. IdsOf(w) \in Seq(VocabIds)
    BY IdsOfType
  <2> QED BY <2>1, SeqMonotonic DEF AllIds
<1> QED BY <1>5, <1>6

-----------------------------------------------------------------------------
\* The text without the tokens to be skipped, place by place.

LEMMA VisibleFromIs ==
  ASSUME NEW skip, NEW s \in Seq(Byte)
  PROVE  /\ \A i \in 1 .. Len(s) + 1 : VisibleFrom(s, skip)[i] \in Seq(Byte)
         /\ VisibleFrom(s, skip)[Len(s) + 1] = <<>>
         /\ \A i \in 1 .. Len(s) :
              VisibleFrom(s, skip)[i] =
                IF AddedAt(s, i) = {} THEN <<s[i]>> \o VisibleFrom(s, skip)[i + 1]
                ELSE DecodedId(LongestAt(s, i).id, skip)
                       \o VisibleFrom(s, skip)[i + Len(LongestAt(s, i).content)]
<1> DEFINE Here(i) == IF AddedAt(s, i) = {} THEN <<s[i]>>
                      ELSE IF skip /\ LongestAt(s, i).special THEN <<>>
                      ELSE LongestAt(s, i).content
           item == [i \in DOMAIN s |-> Here(i)]
           next == Behind(s)
           Q == Seq(Byte)
           V == VisibleFrom(s, skip)
<1>1. DOMAIN s = 1 .. Len(s) /\ Len(s) \in Nat /\ \A i \in 1 .. Len(s) : s[i] \in Byte
  BY LenProperties, ElementOfSeq
<1>2. ASSUME NEW i \in 1 .. Len(s)
      PROVE  /\ Here(i) \in Q
             /\ AddedAt(s, i) # {} => Here(i) = DecodedId(LongestAt(s, i).id, skip)
  <2>1. AddedAt(s, i) # {} => LongestAt(s, i) \in added_tokens
    BY LongestFacts
  <2>2. s[i] \in Byte
    BY <1>1
  <2>3. <<s[i]>> \in Q
    <3> HIDE DEF Byte
    <3> QED BY <2>2
  <2> QED BY <2>1, <2>3, AddedType, AddedIdBack, EmptySeq
<1> HIDE DEF Here
<1>3. item \in [1 .. Len(s) -> Q]
  BY <1>1, <1>2
<1>4. \A i \in 1 .. Len(s) : item[i] = Here(i)
  BY <1>1
<1>5. V = Scan(item, next)
  BY DEF VisibleFrom, Here
<1> HIDE DEF item, next, Q, V
<1>6. item \in Seq(Q) /\ Len(item) = Len(s)
  BY <1>1, <1>3, FunctionIsSeq
<1>7. \A i \in 1 .. Len(s) : next[i] \in i + 1 .. Len(s) + 1
  BY BehindFacts DEF next
<1>8. /\ \A i \in 1 .. Len(item) + 1 : V[i] \in Q
      /\ V[Len(item) + 1] = <<>>
      /\ \A i \in 1 .. Len(item) : V[i] = item[i] \o V[next[i]]
  <2>1. item \in Seq(Seq(Byte)) /\ GoesOn(item, next)
    BY <1>6, <1>7 DEF Q, GoesOn
  <2>2. CanScan(Byte, item, next)
    BY <2>1 DEF CanScan
  <2>3. Scanned(Byte, item, next)
    BY <2>2, ScanIs
  <2> QED BY <1>5, <2>3 DEF Scanned, Q
<1>9. ASSUME NEW i \in 1 .. Len(s)
      PROVE  V[i] = IF AddedAt(s, i) = {} THEN <<s[i]>> \o V[i + 1]
                    ELSE DecodedId(LongestAt(s, i).id, skip)
                           \o V[i + Len(LongestAt(s, i).content)]
  <2>1. V[i] = Here(i) \o V[next[i]]
    BY <1>4, <1>6, <1>8
  <2>2. CASE AddedAt(s, i) = {}
    <3>1. next[i] = i + 1
      BY <2>2, BehindFacts DEF next
    <3>2. Here(i) = <<s[i]>>
      BY <2>2 DEF Here
    <3> QED BY <2>1, <2>2, <3>1, <3>2
  <2>3. CASE AddedAt(s, i) # {}
    <3>1. next[i] = i + Len(LongestAt(s, i).content)
      BY <2>3, BehindFacts DEF next
    <3>2. Here(i) = DecodedId(LongestAt(s, i).id, skip)
      BY <1>2, <2>3
    <3> QED BY <2>1, <2>3, <3>1, <3>2
  <2> QED BY <2>2, <2>3
<1> QED BY <1>6, <1>8, <1>9 DEF Q, V

\* What the segments that wait will be decoded to.
SegText(skip) == [g \in Segment |-> IF g.is_special THEN DecodedId(g.id, skip) ELSE g.text]
SegVis(segs, skip) == FlatMap(SegText(skip), segs)

LEMMA SegTextIs ==
  ASSUME NEW skip
  PROVE  /\ MapsTo(SegText(skip), Segment, Byte)
         /\ \A t \in added_tokens : SegText(skip)[Special(t)] = DecodedId(t.id, skip)
         /\ \A s \in Seq(Byte) : SegText(skip)[Plain(s)] = s
<1>1. \A x \in AllIds : DecodedId(x, skip) \in Seq(Byte)
  BY IdTextType DEF MapsTo, IdText
<1>2. ASSUME NEW g \in Segment
      PROVE  (IF g.is_special THEN DecodedId(g.id, skip) ELSE g.text) \in Seq(Byte)
  <2>1. /\ g.is_special => g.id \in AllIds
        /\ ~g.is_special => g.text \in Seq(Byte)
    BY SegmentFacts DEF AllIds
  <2> QED BY <1>1, <2>1
<1>3. MapsTo(SegText(skip), Segment, Byte)
  BY <1>2 DEF SegText, MapsTo
<1>4. \A t \in added_tokens : /\ Special(t) \in Segment /\ Special(t).is_special
                              /\ Special(t).id = t.id
  BY SegmentFacts
<1>5. \A t \in added_tokens : SegText(skip)[Special(t)] = DecodedId(t.id, skip)
  BY <1>4 DEF SegText
<1>6. \A s \in Seq(Byte) : Plain(s) \in Segment /\ ~Plain(s).is_special /\ Plain(s).text = s
  BY SegmentFacts
<1>7. \A s \in Seq(Byte) : SegText(skip)[Plain(s)] = s
  BY <1>6 DEF SegText
<1> QED BY <1>3, <1>5, <1>7

LEMMA SegVisType ==
  ASSUME NEW skip, NEW segs \in Seq(Segment)
  PROVE  SegVis(segs, skip) \in Seq(Byte)
<1> DEFINE f == SegText(skip)
<1>1. MapsTo(f, Segment, Byte)
  BY SegTextIs
<1> HIDE DEF f
<1> QED BY <1>1, FlatMapType DEF SegVis, f

LEMMA SegVisAppend ==
  ASSUME NEW skip, NEW segs \in Seq(Segment)
  PROVE  /\ \A t \in added_tokens :
              SegVis(Append(segs, Special(t)), skip) = SegVis(segs, skip) \o DecodedId(t.id, skip)
         /\ \A s \in Seq(Byte) :
              SegVis(Append(segs, Plain(s)), skip) = SegVis(segs, skip) \o s
<1> DEFINE f == SegText(skip)
<1>1. MapsTo(f, Segment, Byte)
  BY SegTextIs
<1>2. /\ \A t \in added_tokens : Special(t) \in Segment /\ f[Special(t)] = DecodedId(t.id, skip)
      /\ \A s \in Seq(Byte) : Plain(s) \in Segment /\ f[Plain(s)] = s
  BY SegTextIs, SegmentFacts
<1> HIDE DEF f
<1>3. \A g \in Segment : FlatMap(f, Append(segs, g)) = FlatMap(f, segs) \o f[g]
  BY <1>1, FlatMapAppend
<1>4. ASSUME NEW t \in added_tokens
      PROVE  SegVis(Append(segs, Special(t)), skip) = SegVis(segs, skip) \o DecodedId(t.id, skip)
  BY <1>2, <1>3 DEF SegVis, f
<1>5. ASSUME NEW s \in Seq(Byte)
      PROVE  SegVis(Append(segs, Plain(s)), skip) = SegVis(segs, skip) \o s
  BY <1>2, <1>3 DEF SegVis, f
<1> QED BY <1>4, <1>5

LEMMA SegVisHead ==
  ASSUME NEW skip, NEW segs \in Seq(Segment), segs # <<>>
  PROVE  /\ Head(segs) \in Segment /\ Tail(segs) \in Seq(Segment)
         /\ Head(segs).is_special =>
              SegVis(segs, skip) = DecodedId(Head(segs).id, skip) \o SegVis(Tail(segs), skip)
         /\ ~Head(segs).is_special =>
              SegVis(segs, skip) = Head(segs).text \o SegVis(Tail(segs), skip)
<1> DEFINE f == SegText(skip)
           g == Head(segs)
<1>1. MapsTo(f, Segment, Byte)
  BY SegTextIs
<1>2. g \in Segment /\ Tail(segs) \in Seq(Segment)
  BY HeadTailProperties
<1>3. f[g] = IF g.is_special THEN DecodedId(g.id, skip) ELSE g.text
  <2> HIDE DEF g
  <2> QED BY <1>2 DEF SegText
<1> HIDE DEF f
<1>4. FlatMap(f, segs) = f[g] \o FlatMap(f, Tail(segs))
  BY <1>1, FlatMapHead
<1> HIDE DEF g
<1>5. SegVis(segs, skip) = f[g] \o SegVis(Tail(segs), skip)
  BY <1>4 DEF SegVis, f
<1>6. CASE g.is_special
  BY <1>2, <1>3, <1>5, <1>6 DEF g
<1>7. CASE ~g.is_special
  BY <1>2, <1>3, <1>5, <1>7 DEF g
<1> QED BY <1>6, <1>7 DEF g

LEMMA SegVisGrows ==
  ASSUME NEW skip, NEW segs \in Seq(Segment), segs # <<>>, ~Last(segs).is_special,
         NEW b \in Byte
  PROVE  SegVis(Append(Front(segs), Plain(Append(Last(segs).text, b))), skip)
           = SegVis(segs, skip) \o <<b>>
<1> DEFINE front == Front(segs)
           last == Last(segs)
           s == last.text
           h == <<b>>
           B == SegVis(front, skip)
<1>1. /\ last \in Segment /\ s \in Seq(Byte) /\ front \in Seq(Segment)
      /\ segs = Append(front, last)
  <2>1. <<>> \in Seq(Byte)
    BY EmptySeq
  <2> QED BY <2>1, SpecialIdsLast
<1>2. SegVis(segs, skip) = B \o s
  <2> DEFINE f == SegText(skip)
  <2>1. MapsTo(f, Segment, Byte)
    BY SegTextIs
  <2>2. f[last] = s
    <3> HIDE DEF last
    <3>1. ~last.is_special
      BY DEF last
    <3> QED BY <1>1, <3>1 DEF SegText
  <2> HIDE DEF f, last, s, front
  <2>3. FlatMap(f, Append(front, last)) = FlatMap(f, front) \o f[last]
    BY <1>1, <2>1, FlatMapAppend
  <2> QED BY <1>1, <2>2, <2>3 DEF SegVis, f
<1>3. h \in Seq(Byte)
  <2> HIDE DEF Byte
  <2> QED OBVIOUS
<1> HIDE DEF s, front, h
<1>4. Append(s, b) = s \o h /\ Append(s, b) \in Seq(Byte)
  BY <1>1, AppendProperties, AppendIsConcat DEF h
<1>5. SegVis(Append(front, Plain(Append(s, b))), skip) = B \o (s \o h)
  <2> DEFINE x == Append(s, b)
  <2> HIDE DEF x
  <2>1. x \in Seq(Byte) /\ x = s \o h
    BY <1>4 DEF x
  <2>2. SegVis(Append(front, Plain(x)), skip) = B \o x
    BY <1>1, <2>1, SegVisAppend
  <2> QED BY <2>1, <2>2 DEF x
<1>6. B \in Seq(Byte)
  BY <1>1, SegVisType
<1> HIDE DEF B
<1>7. (B \o s) \o h = B \o (s \o h)
  <2>1. AreSeqs(Byte, B, s, h)
    BY <1>1, <1>3, <1>6 DEF AreSeqs
  <2> QED BY <2>1, ConcatThree
<1>8. SegVis(Append(front, Plain(Append(s, b))), skip) = SegVis(segs, skip) \o h
  BY <1>2, <1>5, <1>7
<1> QED BY <1>8 DEF s, front, h

-----------------------------------------------------------------------------
\* The segments of a well-formed text. Segments without a broken character.
CleanSegment == {g \in Segment : ~g.is_special => Whole(g.text)}

LEMMA CleanSegments ==
  /\ CleanSegment \subseteq Segment
  /\ \A t \in added_tokens : Special(t) \in CleanSegment
  /\ \A s : Whole(s) => Plain(s) \in CleanSegment
<1>1. \A t \in added_tokens : Special(t) \in CleanSegment
  BY SegmentFacts DEF CleanSegment
<1>2. ASSUME NEW s, Whole(s) PROVE Plain(s) \in CleanSegment
  <2>1. s \in Seq(Byte)
    BY <1>2 DEF Whole
  <2>2. Plain(s) \in Segment /\ Plain(s).text = s
    BY <2>1, SegmentFacts
  <2> QED BY <1>2, <2>2 DEF CleanSegment
<1>3. CleanSegment \subseteq Segment
  BY DEF CleanSegment
<1> QED BY <1>1, <1>2, <1>3

Growing == segments # <<>> /\ ~Last(segments).is_special

\* The last segment is the text from a place, where a character begins, up to
\* what has been cut.
CutFrom(b) ==
  Edge(text, b) /\ b <= cut /\ Last(segments).text = SubSeq(text, b, cut)

\* Added tokens are cut off between characters, so that only the last plain
\* segment can end within one, as long as it grows.
CleanInv ==
  WellFormed(text) =>
    /\ pc = "split" /\ Growing =>
         Front(segments) \in Seq(CleanSegment) /\ \E b : CutFrom(b)
    /\ pc = "split" /\ ~Growing =>
         segments \in Seq(CleanSegment) /\ Edge(text, cut + 1)
    /\ pc # "split" => segments \in Seq(CleanSegment)

LEMMA EdgesOfAdded ==
  ASSUME TypeInv, WellFormed(text), NEW t \in added_tokens,
         IsPrefix(t.content, From(text, cut + 1))
  PROVE  Edge(text, cut + 1) /\ Edge(text, cut + 1 + Len(t.content))
<1>1. Whole(text)
  BY WellFormedIsWhole DEF TypeInv
<1>2. t.content # <<>> /\ Whole(t.content)
  <2>1. t.content \in Seq(Byte) /\ t.content # <<>>
    BY AddedType
  <2>2. WellFormed(t.content)
    BY ContentAssumption DEF AddedTokensAreText
  <2> QED BY <2>1, <2>2, WellFormedIsWhole
<1>3. cut + 1 \in 1 .. Len(text) + 1
  BY UnreadIs
<1> DEFINE i == cut + 1
           c == t.content
<1> HIDE DEF i, c
<1>4. Edge(text, i) /\ Edge(text, i + Len(c))
  BY <1>1, <1>2, <1>3, EdgesOfPart DEF i, c
<1> QED BY <1>4 DEF i, c

\* A growing segment is whole where a character begins.
LEMMA GrownIsClean ==
  ASSUME TypeInv, WellFormed(text), Growing, NEW b, CutFrom(b), Edge(text, cut + 1),
         Front(segments) \in Seq(CleanSegment)
  PROVE  segments \in Seq(CleanSegment)
<1>1. Whole(text)
  BY WellFormedIsWhole DEF TypeInv
<1>2. cut \in Nat /\ (cut + 1) - 1 = cut
  BY UnreadIs
<1>3. b \in Nat /\ b <= cut + 1 /\ Edge(text, b) /\ Last(segments).text = SubSeq(text, b, cut)
  <2>1. b \in Nat
    BY LenProperties DEF CutFrom, Edge, TypeInv
  <2> QED BY <1>2, <2>1 DEF CutFrom
<1>4. Whole(SubSeq(text, b, cut))
  <2> DEFINE k == cut + 1
  <2>1. Edge(text, k) /\ b <= k /\ k - 1 = cut
    BY <1>2, <1>3
  <2> HIDE DEF k
  <2>2. Whole(SubSeq(text, b, k - 1))
    BY <1>1, <1>3, <2>1, WholePart
  <2> QED BY <2>1, <2>2
<1>5. segments \in Seq(Segment) /\ segments # <<>>
  BY DEF TypeInv, Growing
<1>6. Last(segments) \in Segment /\ segments = Append(Front(segments), Last(segments))
  BY <1>5, FrontAndLast
<1>7. Last(segments) \in CleanSegment
  BY <1>3, <1>4, <1>6 DEF CleanSegment
<1> DEFINE f == Front(segments)
           l == Last(segments)
<1> HIDE DEF f, l
<1>8. Append(f, l) \in Seq(CleanSegment)
  <2>1. f \in Seq(CleanSegment) /\ l \in CleanSegment
    BY <1>7 DEF f, l
  <2> QED BY <2>1, AppendProperties
<1> QED BY <1>6, <1>8 DEF f, l

LEMMA CleanCutAdded ==
  ASSUME TokenizerInv, CleanInv, CutAdded
  PROVE  CleanInv'
<1>1. PICK t \in CutAt : segments' = Append(segments, Special(t)) /\ cut' = cut + Len(t.content)
  BY DEF CutAdded
<1>2. pc = "split" /\ pc' = pc /\ text' = text /\ Unread # <<>>
  BY DEF CutAdded
<1>3. TypeInv
  BY DEF TokenizerInv
<1>4. t \in added_tokens /\ IsPrefix(t.content, From(text, cut + 1))
  <2>1. AddedHere # {} /\ t = Longest(AddedHere)
    BY DEF CutAt
  <2>2. AddedAt(text, cut + 1) # {} /\ t = LongestAt(text, cut + 1)
        /\ cut + 1 \in 1 .. Len(text)
    BY <1>2, <1>3, <2>1, UnreadIs
  <2> QED BY <1>3, <2>2, LongestFacts DEF TypeInv
<1> SUFFICES ASSUME WellFormed(text)
             PROVE  /\ segments' \in Seq(CleanSegment) /\ Last(segments').is_special
                    /\ Edge(text, cut' + 1)
  <2>1. (~Growing)' <=> segments' = <<>> \/ Last(segments').is_special
    BY DEF Growing
  <2> QED BY <1>2, <2>1 DEF CleanInv
<1>5. Edge(text, cut + 1) /\ Edge(text, cut + 1 + Len(t.content))
  BY <1>3, <1>4, EdgesOfAdded
<1>6. segments \in Seq(CleanSegment)
  <2>1. CASE Growing
    <3>1. Front(segments) \in Seq(CleanSegment)
      BY <1>2, <2>1 DEF CleanInv
    <3>2. PICK b : CutFrom(b)
      BY <1>2, <2>1 DEF CleanInv
    <3> QED BY <1>3, <1>5, <2>1, <3>1, <3>2, GrownIsClean
  <2>2. CASE ~Growing
    BY <1>2, <2>2 DEF CleanInv
  <2> QED BY <2>1, <2>2
<1>7. Special(t) \in CleanSegment /\ Special(t).is_special
  BY <1>4, CleanSegments, SegmentFacts
<1>8. segments' \in Seq(CleanSegment) /\ Last(segments') = Special(t)
  BY <1>1, <1>6, <1>7, AppendProperties, FrontOfAppend
<1>9. cut' + 1 = cut + 1 + Len(t.content)
  <2>1. cut \in Nat /\ Len(t.content) \in Nat
    BY <1>3, <1>4, UnreadIs, AddedType
  <2> DEFINE n == Len(t.content)
  <2>2. n \in Nat /\ cut \in Nat
    BY <2>1
  <2> HIDE DEF n
  <2>3. cut + n + 1 = cut + 1 + n
    BY <2>2
  <2> QED BY <1>1, <2>3 DEF n
<1> QED BY <1>5, <1>7, <1>8, <1>9

LEMMA CleanCutByte ==
  ASSUME TokenizerInv, CleanInv, CutByte
  PROVE  CleanInv'
<1> DEFINE c == Head(Unread)
<1>1. /\ Growing => segments' = Append(Front(segments), Plain(Append(Last(segments).text, c)))
      /\ ~Growing => segments' = Append(segments, Plain(<<c>>))
      /\ cut' = cut + 1
  BY DEF CutByte, Growing
<1>2. pc = "split" /\ pc' = pc /\ text' = text /\ Unread # <<>>
  BY DEF CutByte
<1>3. TypeInv
  BY DEF TokenizerInv
<1>4. /\ c = text[cut + 1] /\ cut + 1 \in 1 .. Len(text) /\ cut \in Nat /\ Len(text) \in Nat
      /\ text \in Seq(Byte)
  BY <1>2, <1>3, UnreadIs DEF TypeInv
<1>5. c \in Byte
  BY <1>4, ElementOfSeq
<1> HIDE DEF c
<1>6. ASSUME NEW b \in 1 .. cut + 1
      PROVE  /\ SubSeq(text, b, cut) \in Seq(Byte)
             /\ SubSeq(text, b, cut + 1) = SubSeq(text, b, cut) \o <<c>>
  <2>1. \A j \in b .. cut : text[j] \in Byte
    <3>1. \A j \in b .. cut : j \in 1 .. Len(text)
      BY <1>4
    <3> QED BY <1>4, <3>1, ElementOfSeq
  <2>2. SubSeq(text, b, cut) \in Seq(Byte)
    <3>1. b \in Int /\ cut \in Int
      BY <1>4
    <3> QED BY <1>4, <2>1, <3>1, SubSeqProperties
  <2> DEFINE k == cut + 1
  <2>3. b \in 1 .. Len(text) /\ k \in b .. Len(text) /\ k - 1 = cut
    BY <1>4
  <2> HIDE DEF k
  <2>4. SubSeq(text, b, k) = SubSeq(text, b, k - 1) \o <<text[k]>>
    BY <1>4, <2>3, SubSeqRecursiveSecond
  <2> QED BY <1>4, <2>2, <2>3, <2>4 DEF k
<1> SUFFICES ASSUME WellFormed(text)
             PROVE  /\ Growing' /\ Front(segments') \in Seq(CleanSegment)
                    /\ \E b : CutFrom(b)'
  BY <1>2 DEF CleanInv
<1>7. \A s \in Seq(Byte) : Plain(s) \in Segment /\ ~Plain(s).is_special /\ Plain(s).text = s
  BY SegmentFacts
<1>8. CASE Growing
  <2>1. Front(segments) \in Seq(CleanSegment)
    BY <1>2, <1>8 DEF CleanInv
  <2>2. PICK b : CutFrom(b)
    BY <1>2, <1>8 DEF CleanInv
  <2>3. /\ Edge(text, b) /\ b <= cut /\ b \in 1 .. cut + 1
        /\ Last(segments).text = SubSeq(text, b, cut)
    <3>1. Edge(text, b) /\ b <= cut /\ Last(segments).text = SubSeq(text, b, cut)
      BY <2>2 DEF CutFrom
    <3>2. b \in 1 .. Len(text) + 1
      BY <3>1 DEF Edge
    <3> QED BY <1>4, <3>1, <3>2
  <2> DEFINE s == Append(Last(segments).text, c)
             f == Front(segments)
  <2>4. s \in Seq(Byte) /\ s = SubSeq(text, b, cut + 1)
    <3> DEFINE u == SubSeq(text, b, cut)
    <3>1. u \in Seq(Byte) /\ SubSeq(text, b, cut + 1) = u \o <<c>>
      BY <1>6, <2>3
    <3>2. s = Append(u, c)
      BY <2>3
    <3> HIDE DEF u, s
    <3>3. Append(u, c) \in Seq(Byte) /\ Append(u, c) = u \o <<c>>
      BY <1>5, <3>1, AppendProperties, AppendIsConcat
    <3> QED BY <3>1, <3>2, <3>3
  <2>5. segments' = Append(f, Plain(s))
    BY <1>1, <1>8
  <2>6. f \in Seq(CleanSegment)
    BY <2>1
  <2> HIDE DEF s, f
  <2>7. Plain(s) \in Segment /\ ~Plain(s).is_special /\ Plain(s).text = s
    BY <1>7, <2>4
  <2>8. f \in Seq(Segment)
    BY <2>6, CleanSegments, SeqMonotonic
  <2> DEFINE p == Plain(s)
  <2>9. /\ Front(segments') = f /\ Last(segments') = p /\ segments' # <<>>
    <3>1. p \in Segment
      BY <2>7
    <3> HIDE DEF p
    <3> QED BY <2>5, <2>8, <3>1, FrontOfAppend, AppendProperties DEF p
  <2>10. Growing'
    BY <2>7, <2>9 DEF Growing
  <2>11. CutFrom(b)'
    <3>1. Edge(text, b)' /\ b' = b
      BY <1>2, <2>3 DEF Edge
    <3>2. b <= cut'
      BY <1>1, <1>4, <2>3
    <3>3. Last(segments').text = SubSeq(text', b, cut')
      BY <1>1, <1>2, <2>4, <2>7, <2>9
    <3> QED BY <3>1, <3>2, <3>3 DEF CutFrom
  <2> QED BY <2>6, <2>9, <2>10, <2>11
<1>9. CASE ~Growing
  <2>1. segments \in Seq(CleanSegment) /\ Edge(text, cut + 1)
    BY <1>2, <1>9 DEF CleanInv
  <2> DEFINE s == <<c>>
             b == cut + 1
  <2>2. segments' = Append(segments, Plain(s))
    BY <1>1, <1>9
  <2>3. s \in Seq(Byte)
    <3> HIDE DEF Byte
    <3> QED BY <1>5
  <2>4. SubSeq(text, b, cut + 1) = s
    <3>1. 1 \in Nat /\ cut + 1 \in 1 .. cut + 1
      BY <1>4
    <3>2. SubSeq(text, cut + 1, cut + 1) = SubSeq(text, cut + 1, cut) \o <<c>>
      BY <1>6, <3>1
    <3>3. SubSeq(text, cut + 1, cut) = <<>>
      BY <1>4, SubSeqEmpty
    <3>4. <<>> \o s = s
      BY <2>3, ConcatEmptySeq
    <3> QED BY <3>2, <3>3, <3>4
  <2> HIDE DEF s
  <2>5. Plain(s) \in Segment /\ ~Plain(s).is_special /\ Plain(s).text = s
    BY <1>7, <2>3
  <2>6. segments \in Seq(Segment)
    BY <2>1, CleanSegments, SeqMonotonic
  <2> DEFINE p == Plain(s)
  <2>7. /\ Front(segments') = segments /\ Last(segments') = p /\ segments' # <<>>
    <3>1. p \in Segment
      BY <2>5
    <3> HIDE DEF p
    <3> QED BY <2>2, <2>6, <3>1, FrontOfAppend, AppendProperties DEF p
  <2>8. Growing'
    BY <2>5, <2>7 DEF Growing
  <2>9. \E d : CutFrom(d)'
    <3>0. PICK d : d = b
      OBVIOUS
    <3>1. Edge(text, d)'
      BY <1>2, <2>1, <3>0 DEF Edge
    <3>2. d <= cut'
      BY <1>1, <1>4, <3>0
    <3>3. Last(segments').text = SubSeq(text', d, cut')
      BY <1>1, <1>2, <2>4, <2>5, <2>7, <3>0
    <3>4. CutFrom(d)'
      BY <3>1, <3>2, <3>3 DEF CutFrom
    <3> QED BY <3>4
  <2> QED BY <2>1, <2>7, <2>8, <2>9
<1> QED BY <1>8, <1>9

LEMMA CleanEndSplit ==
  ASSUME TokenizerInv, CleanInv, EndSplit
  PROVE  CleanInv'
<1>1. /\ pc = "split" /\ pc' = "segment" /\ Unread = <<>>
      /\ text' = text /\ segments' = segments
  BY DEF EndSplit
<1>2. TypeInv
  BY DEF TokenizerInv
<1> SUFFICES ASSUME WellFormed(text) PROVE segments \in Seq(CleanSegment)
  BY <1>1 DEF CleanInv
<1>3. CASE Growing
  <2>1. Front(segments) \in Seq(CleanSegment)
    BY <1>1, <1>3 DEF CleanInv
  <2>2. PICK b : CutFrom(b)
    BY <1>1, <1>3 DEF CleanInv
  <2>3. Edge(text, cut + 1)
    <3>1. ~(cut + 1 \in 1 .. Len(text)) /\ cut \in Nat /\ Len(text) \in Nat /\ cut <= Len(text)
      BY <1>1, <1>2, UnreadIs
    <3> QED BY <3>1 DEF Edge
  <2> QED BY <1>2, <1>3, <2>1, <2>2, <2>3, GrownIsClean
<1>4. CASE ~Growing
  BY <1>1, <1>4 DEF CleanInv
<1> QED BY <1>3, <1>4

\* Later only the first segment is removed.
LEMMA CleanLater ==
  ASSUME CleanInv, pc # "split", pc' # "split", text' = text,
         segments' = segments \/ (segments # <<>> /\ segments' = Tail(segments))
  PROVE  CleanInv'
<1> SUFFICES ASSUME WellFormed(text) PROVE segments' \in Seq(CleanSegment)
  BY DEF CleanInv
<1>1. segments \in Seq(CleanSegment)
  BY DEF CleanInv
<1>2. segments # <<>> => Tail(segments) \in Seq(CleanSegment)
  BY <1>1, HeadTailProperties
<1> QED BY <1>1, <1>2

-----------------------------------------------------------------------------
\* While a piece is merged, the word stands for its bytes, and all its tokens
\* are in the vocabulary.
WordInv ==
  pc = "bpe" => WordBytes(word) = Head(pieces) /\ InVocab(word)

LEMMA EncodedInVocab ==
  ASSUME NEW p \in Seq(Byte)
  PROVE  InVocab(byte_encode(p))
<1> DEFINE e == byte_encode(p)
<1>1. DOMAIN p = 1 .. Len(p) /\ Len(p) \in Nat /\ \A i \in 1 .. Len(p) : p[i] \in Byte
  BY LenProperties, ElementOfSeq
<1>2. e = [i \in 1 .. Len(p) |-> <<build_bytes_to_unicode(p[i])>>]
  BY <1>1 DEF byte_encode
<1>3. \A b \in Byte : <<build_bytes_to_unicode(b)>> \in DOMAIN vocab
  BY CompleteAssumption DEF VocabularyIsComplete
<1>4. Len(e) = Len(p)
  <2>1. e \in Seq(Tokens)
    BY EncodedBytes
  <2>2. DOMAIN e = 1 .. Len(e) /\ Len(e) \in Nat
    <3> HIDE DEF e
    <3> QED BY <2>1, LenProperties
  <2>3. DOMAIN e = 1 .. Len(p) /\ e = [i \in DOMAIN e |-> e[i]]
    BY <1>2
  <2> HIDE DEF e
  <2>4. \A i \in DOMAIN e : e[i] \in Tokens
    <3> HIDE DEF Tokens
    <3> QED BY <2>1, <2>2, ElementOfSeq
  <2>5. e \in [1 .. Len(p) -> Tokens]
    <3> HIDE DEF Tokens
    <3> QED BY <2>3, <2>4
  <2> QED BY <1>1, <2>5, FunctionIsSeq
<1>5. \A i \in 1 .. Len(p) : e[i] \in DOMAIN vocab
  <2> HIDE DEF Byte
  <2> QED BY <1>1, <1>2, <1>3
<1> QED BY <1>4, <1>5 DEF InVocab

LEMMA MergedInVocab ==
  ASSUME NEW w \in Seq(Tokens), InVocab(w), NEW i \in Mergeable(w)
  PROVE  InVocab(MergedAt(w, i))
<1> DEFINE v == MergedAt(w, i)
<1>1. i \in 1 .. Len(w) - 1 /\ <<w[i], w[i + 1]>> \in DOMAIN merges /\ Len(w) \in Nat
  BY LenProperties DEF Mergeable
<1>2. w[i] \o w[i + 1] \in DOMAIN vocab
  BY <1>1, CompleteAssumption DEF VocabularyIsComplete
<1>3. MergesTo(w, i, v)
  BY <1>1, MergedAtIs
<1> HIDE DEF v
<1>4. ASSUME NEW j \in 1 .. Len(v) PROVE v[j] \in DOMAIN vocab
  <2>1. \A k \in 1 .. Len(w) : w[k] \in DOMAIN vocab
    BY DEF InVocab
  <2>2. /\ Len(w) \in Nat /\ i \in 1 .. Len(w) - 1 /\ j \in 1 .. Len(w) - 1
        /\ v[i] = w[i] \o w[i + 1]
        /\ \A k \in 1 .. i - 1 : v[k] = w[k]
        /\ \A k \in i + 1 .. Len(w) - 1 : v[k] = w[k + 1]
    BY <1>3 DEF MergesTo
  <2>3. CASE j = i
    BY <1>2, <2>2, <2>3
  <2>4. CASE j < i
    <3>1. j \in 1 .. i - 1 /\ j \in 1 .. Len(w)
      BY <2>2, <2>4
    <3>2. v[j] = w[j]
      BY <2>2, <3>1
    <3> QED BY <2>1, <3>1, <3>2
  <2>5. CASE j > i
    <3>1. j \in i + 1 .. Len(w) - 1 /\ j + 1 \in 1 .. Len(w)
      BY <2>2, <2>5
    <3>2. v[j] = w[j + 1]
      BY <2>2, <3>1
    <3> QED BY <2>1, <3>1, <3>2
  <2>6. i \in Int /\ j \in Int
    BY <2>2
  <2> QED BY <2>3, <2>4, <2>5, <2>6
<1> QED BY <1>4 DEF InVocab, v

LEMMA WordInvKeeps ==
  ASSUME TokenizerInv, WordInv, [Next]_vars
  PROVE  WordInv'
<1> SUFFICES ASSUME pc' = "bpe"
             PROVE  WordBytes(word') = Head(pieces') /\ InVocab(word')
  BY DEF WordInv, WordBytes, InVocab
<1>1. StartPiece \/ Merge \/ (pc = "bpe" /\ word' = word /\ pieces' = pieces)
  <2>1. CASE UNCHANGED vars
    BY <2>1 DEF vars
  <2>2. CASE CutAdded \/ CutByte \/ EndSplit \/ TakeSpecial \/ TakePlain
    BY <2>2 DEF CutAdded, CutByte, EndSplit, TakeSpecial, TakePlain
  <2>3. CASE \/ TakeContraction \/ TakeWord \/ TakeNumber \/ TakeSymbols
             \/ TakeLineBreaks \/ TakeAllButOneSpace \/ TakeSpaces \/ TakeUnmatched
    <3>1. PICK branch \in 1 .. 8 : Take(branch)
      <4>1. \A b \in {1, 2, 3, 4, 5, 6, 7, 8} : b \in 1 .. 8
        OBVIOUS
      <4> QED BY <2>3, <4>1 DEF TakeContraction, TakeWord, TakeNumber, TakeSymbols,
                  TakeLineBreaks, TakeAllButOneSpace, TakeSpaces, TakeUnmatched
    <3> QED BY <3>1 DEF Take
  <2>4. CASE EndPreTokenize \/ EndPiece \/ EndSegment \/ Decode
    BY <2>4 DEF EndPreTokenize, EndPiece, EndSegment, Decode
  <2> QED BY <2>1, <2>2, <2>3, <2>4 DEF Next
<1>2. CASE StartPiece
  <2>1. pieces # <<>> /\ word' = byte_encode(Head(pieces)) /\ pieces' = pieces
    BY <1>2 DEF StartPiece
  <2>2. Head(pieces) \in Seq(Byte)
    <3> DEFINE Q == Seq(Byte)
    <3>1. pieces \in Seq(Q)
      BY DEF TokenizerInv, TypeInv
    <3> HIDE DEF Q
    <3>2. Head(pieces) \in Q
      BY <2>1, <3>1, HeadTailProperties
    <3> QED BY <3>2 DEF Q
  <2> QED BY <2>1, <2>2, EncodedBytesBack, EncodedInVocab
<1>3. CASE Merge
  <2>1. /\ pc = "bpe" /\ Mergeable(word) # {} /\ word' = MergedAt(word, BestPair(word))
        /\ pieces' = pieces
    BY <1>3 DEF Merge
  <2>2. word \in Seq(Tokens)
    BY DEF TokenizerInv, TypeInv
  <2>3. BestPair(word) \in Mergeable(word)
    BY <2>1, <2>2, BestPairIs
  <2>4. WordBytes(word) = Head(pieces) /\ InVocab(word)
    BY <2>1 DEF WordInv
  <2> DEFINE i == BestPair(word)
  <2> HIDE DEF i
  <2>5. WordBytes(MergedAt(word, i)) = WordBytes(word) /\ InVocab(MergedAt(word, i))
    BY <2>2, <2>3, <2>4, MergedBytes, MergedInVocab DEF i
  <2> QED BY <2>1, <2>4, <2>5 DEF i
<1>4. CASE pc = "bpe" /\ word' = word /\ pieces' = pieces
  BY <1>4 DEF WordInv
<1> QED BY <1>1, <1>2, <1>3, <1>4

-----------------------------------------------------------------------------
\* The text that is decoded from the ids in the result, and the text that is
\* still to be turned into ids, are together the text to be seen.

\* What is left of the segment being worked on.
Left ==
  IF pc = "pre_tokenize" THEN FlattenSeq(pieces) \o codepoints_to_utf8(rest)
  ELSE FlattenSeq(pieces)

AllVisible(skip) ==
  LET V == VisibleFrom(text, skip)
  IN  /\ pc \notin Working =>
           Decoded(ids, skip) \o (SegVis(segments, skip) \o V[cut + 1]) = V[1]
      /\ pc \in Working =>
           Decoded(ids, skip) \o (Left \o SegVis(Tail(segments), skip)) = V[1]

VisibleInv == WellFormed(text) => \A skip \in BOOLEAN : AllVisible(skip)

LEMMA VisibleParts ==
  ASSUME TypeInv, NEW skip
  PROVE  /\ ids \in Seq(AllIds) /\ Decoded(ids, skip) \in Seq(Byte)
         /\ SegVis(segments, skip) \in Seq(Byte)
         /\ segments # <<>> => SegVis(Tail(segments), skip) \in Seq(Byte)
         /\ \A i \in 1 .. Len(text) + 1 : VisibleFrom(text, skip)[i] \in Seq(Byte)
         /\ cut = Len(text) => VisibleFrom(text, skip)[cut + 1] = <<>>
         /\ cut + 1 \in 1 .. Len(text) + 1
         /\ FlattenSeq(pieces) \in Seq(Byte) /\ codepoints_to_utf8(rest) \in Seq(Byte)
<1>1. ids \in Seq(AllIds)
  BY DEF TypeInv, AllIds
<1>2. Decoded(ids, skip) \in Seq(Byte)
  BY <1>1, DecodedIs
<1>3. segments \in Seq(Segment) /\ text \in Seq(Byte) /\ rest \in Seq(Codes)
      /\ pieces \in Seq(Seq(Byte))
  BY DEF TypeInv
<1>4. SegVis(segments, skip) \in Seq(Byte)
  BY <1>3, SegVisType
<1>5. segments # <<>> => SegVis(Tail(segments), skip) \in Seq(Byte)
  BY <1>3, HeadTailProperties, SegVisType
<1>6. /\ \A i \in 1 .. Len(text) + 1 : VisibleFrom(text, skip)[i] \in Seq(Byte)
      /\ VisibleFrom(text, skip)[Len(text) + 1] = <<>>
  BY <1>3, VisibleFromIs
<1>7. cut + 1 \in 1 .. Len(text) + 1
  BY UnreadIs
<1>8. FlattenSeq(pieces) \in Seq(Byte)
  BY <1>3, FlatType
<1>9. codepoints_to_utf8(rest) \in Seq(Byte)
  BY <1>3, EncodedIs
<1> QED BY <1>1, <1>2, <1>4, <1>5, <1>6, <1>7, <1>8, <1>9

\* An id is decoded to bytes.
LEMMA SeenType ==
  ASSUME NEW skip
  PROVE  \A x \in AllIds : DecodedId(x, skip) \in Seq(Byte)
BY IdTextType DEF MapsTo, IdText

\* Moving the border between what is done and what is ahead.
AreFour(S, a, b, c, d) == a \in Seq(S) /\ b \in Seq(S) /\ c \in Seq(S) /\ d \in Seq(S)

LEMMA NextJoins ==
  ASSUME NEW S, NEW a, NEW b, NEW c, NEW d, AreFour(S, a, b, c, d)
  PROVE  a \o ((b \o c) \o d) = a \o (b \o (c \o d))
<1>1. AreSeqs(S, b, c, d)
  BY DEF AreFour, AreSeqs
<1>2. (b \o c) \o d = b \o (c \o d)
  BY <1>1, ConcatThree
<1> QED BY <1>2

LEMMA NextIsDone ==
  ASSUME NEW S, NEW a, NEW b, NEW c, NEW d, AreFour(S, a, b, c, d)
  PROVE  (a \o b) \o (c \o d) = a \o ((b \o c) \o d)
<1> DEFINE e == c \o d
<1>1. e \in Seq(S)
  BY ConcatProperties DEF AreFour
<1> HIDE DEF e
<1>2. AreSeqs(S, a, b, e)
  BY <1>1 DEF AreFour, AreSeqs
<1>3. (a \o b) \o e = a \o (b \o e)
  BY <1>2, ConcatThree
<1>4. a \o ((b \o c) \o d) = a \o (b \o (c \o d))
  BY NextJoins
<1> QED BY <1>3, <1>4 DEF e

LEMMA VisibleCutAdded ==
  ASSUME TokenizerInv, VisibleInv, CutAdded
  PROVE  VisibleInv'
<1>1. PICK t \in CutAt : segments' = Append(segments, Special(t)) /\ cut' = cut + Len(t.content)
  BY DEF CutAdded
<1>2. /\ pc = "split" /\ pc' = pc /\ text' = text /\ ids' = ids /\ Unread # <<>>
      /\ pc \notin Working
  BY DEF CutAdded, Working
<1>3. TypeInv
  BY DEF TokenizerInv
<1>4. /\ t \in added_tokens /\ AddedAt(text, cut + 1) # {} /\ t = LongestAt(text, cut + 1)
      /\ cut + 1 \in 1 .. Len(text)
      /\ Len(t.content) \in 1 .. Len(text) - (cut + 1) + 1
  <2>1. AddedHere # {} /\ t = Longest(AddedHere)
    BY DEF CutAt
  <2>2. AddedAt(text, cut + 1) # {} /\ t = LongestAt(text, cut + 1)
        /\ cut + 1 \in 1 .. Len(text)
    BY <1>2, <1>3, <2>1, UnreadIs
  <2> QED BY <1>3, <2>2, LongestFacts DEF TypeInv
<1> SUFFICES ASSUME WellFormed(text), NEW skip \in BOOLEAN
             PROVE  Decoded(ids, skip)
                      \o (SegVis(segments', skip) \o VisibleFrom(text, skip)[cut' + 1])
                      = VisibleFrom(text, skip)[1]
  BY <1>2 DEF VisibleInv, AllVisible
<1> DEFINE V == VisibleFrom(text, skip)
           D == Decoded(ids, skip)
           a == SegVis(segments, skip)
           d == DecodedId(t.id, skip)
           k == cut' + 1
           v == V[k]
<1>5. k = cut + 1 + Len(t.content) /\ k \in 1 .. Len(text) + 1
  <2> DEFINE n == Len(t.content)
  <2>1. /\ n \in 1 .. Len(text) - (cut + 1) + 1 /\ cut \in Nat /\ Len(text) \in Nat
        /\ k = cut + n + 1
    BY <1>1, <1>3, <1>4, UnreadIs
  <2> HIDE DEF n, k
  <2>2. k = cut + 1 + n /\ k \in 1 .. Len(text) + 1
    BY <2>1
  <2> QED BY <2>2 DEF n
<1>6. V[cut + 1] = d \o v
  <2>1. V[cut + 1] = d \o V[cut + 1 + Len(t.content)]
    BY <1>3, <1>4, VisibleFromIs DEF TypeInv
  <2> QED BY <1>5, <2>1
<1>7. SegVis(segments', skip) = a \o d
  BY <1>1, <1>3, <1>4, SegVisAppend DEF TypeInv
<1>8. D \in Seq(Byte) /\ a \in Seq(Byte) /\ d \in Seq(Byte) /\ v \in Seq(Byte)
  <2>1. D \in Seq(Byte) /\ a \in Seq(Byte)
    BY <1>3, VisibleParts
  <2>2. d \in Seq(Byte)
    BY <1>4, AddedIdBack, SeenType
  <2>3. v \in Seq(Byte)
    <3> HIDE DEF k
    <3> QED BY <1>3, <1>5, VisibleParts
  <2> QED BY <2>1, <2>2, <2>3
<1>9. D \o (a \o V[cut + 1]) = V[1]
  BY <1>2 DEF VisibleInv, AllVisible
<1>10. D \o (a \o (d \o v)) = V[1]
  BY <1>6, <1>9
<1> HIDE DEF V, D, a, d, v
<1>11. D \o ((a \o d) \o v) = D \o (a \o (d \o v))
  <2>1. AreFour(Byte, D, a, d, v)
    BY <1>8 DEF AreFour
  <2> QED BY <2>1, NextJoins
<1>12. D \o ((a \o d) \o v) = V[1]
  BY <1>10, <1>11
<1> QED BY <1>7, <1>12 DEF D, V, v, k

LEMMA VisibleCutByte ==
  ASSUME TokenizerInv, VisibleInv, CutByte
  PROVE  VisibleInv'
<1> DEFINE b == Head(Unread)
           grows == segments # <<>> /\ ~Last(segments).is_special
<1>1. /\ grows => segments' = Append(Front(segments), Plain(Append(Last(segments).text, b)))
      /\ ~grows => segments' = Append(segments, Plain(<<b>>))
      /\ cut' = cut + 1
  BY DEF CutByte
<1>2. /\ pc = "split" /\ pc' = pc /\ text' = text /\ ids' = ids /\ Unread # <<>>
      /\ CutAt = {} /\ pc \notin Working
  BY DEF CutByte, Working
<1>3. TypeInv
  BY DEF TokenizerInv
<1>4. /\ AddedAt(text, cut + 1) = {} /\ b = text[cut + 1]
      /\ cut + 1 \in 1 .. Len(text) /\ cut \in Nat /\ Len(text) \in Nat
  <2>1. AddedHere = {}
    BY <1>2 DEF CutAt
  <2> QED BY <1>2, <1>3, <2>1, UnreadIs
<1>5. b \in Byte
  BY <1>3, <1>4, ElementOfSeq DEF TypeInv
<1> HIDE DEF b
<1> SUFFICES ASSUME WellFormed(text), NEW skip \in BOOLEAN
             PROVE  Decoded(ids, skip)
                      \o (SegVis(segments', skip) \o VisibleFrom(text, skip)[cut' + 1])
                      = VisibleFrom(text, skip)[1]
  BY <1>2 DEF VisibleInv, AllVisible
<1> DEFINE V == VisibleFrom(text, skip)
           D == Decoded(ids, skip)
           a == SegVis(segments, skip)
           h == <<b>>
           k == cut' + 1
           v == V[k]
<1>6. V[cut + 1] = h \o v
  <2>1. V[cut + 1] = <<text[cut + 1]>> \o V[(cut + 1) + 1]
    BY <1>3, <1>4, VisibleFromIs DEF TypeInv
  <2>2. k = (cut + 1) + 1
    BY <1>1
  <2> QED BY <1>4, <2>1, <2>2
<1>7. h \in Seq(Byte)
  <2> HIDE DEF Byte
  <2> QED BY <1>5
<1>8. SegVis(segments', skip) = a \o h
  <2>1. CASE grows
    BY <1>1, <1>3, <1>5, <2>1, SegVisGrows DEF TypeInv
  <2>2. CASE ~grows
    BY <1>1, <1>3, <1>7, <2>2, SegVisAppend DEF TypeInv
  <2> QED BY <2>1, <2>2
<1>9. D \in Seq(Byte) /\ a \in Seq(Byte) /\ v \in Seq(Byte)
  <2>1. k \in 1 .. Len(text) + 1
    BY <1>1, <1>4
  <2> HIDE DEF k
  <2> QED BY <1>3, <2>1, VisibleParts
<1>10. D \o (a \o (h \o v)) = V[1]
  <2>1. D \o (a \o V[cut + 1]) = V[1]
    BY <1>2 DEF VisibleInv, AllVisible
  <2> QED BY <1>6, <2>1
<1> HIDE DEF V, D, a, h, v, k, grows
<1>11. D \o ((a \o h) \o v) = D \o (a \o (h \o v))
  <2>1. AreSeqs(Byte, a, h, v)
    BY <1>7, <1>9 DEF AreSeqs
  <2>2. (a \o h) \o v = a \o (h \o v)
    BY <2>1, ConcatThree
  <2> QED BY <2>2
<1>12. D \o ((a \o h) \o v) = V[1]
  BY <1>10, <1>11
<1> QED BY <1>8, <1>12 DEF D, V, v, k

LEMMA VisibleTakeSpecial ==
  ASSUME TokenizerInv, VisibleInv, TakeSpecial
  PROVE  VisibleInv'
<1> DEFINE x == Head(segments).id
<1>1. /\ pc = "segment" /\ segments # <<>> /\ Head(segments).is_special
      /\ ids' = Append(ids, x) /\ segments' = Tail(segments)
      /\ pc' = pc /\ text' = text /\ cut' = cut /\ pc \notin Working
  BY DEF TakeSpecial, Working
<1>2. TypeInv
  BY DEF TokenizerInv
<1>3. x \in AllIds
  <2>1. Head(segments) \in Segment
    BY <1>1, <1>2, HeadTailProperties DEF TypeInv
  <2> QED BY <1>1, <2>1, SegmentFacts DEF AllIds
<1> SUFFICES ASSUME WellFormed(text), NEW skip \in BOOLEAN
             PROVE  Decoded(ids', skip)
                      \o (SegVis(segments', skip) \o VisibleFrom(text, skip)[cut + 1])
                      = VisibleFrom(text, skip)[1]
  BY <1>1 DEF VisibleInv, AllVisible
<1> DEFINE V == VisibleFrom(text, skip)
           D == Decoded(ids, skip)
           d == DecodedId(x, skip)
           s == SegVis(Tail(segments), skip)
           v == V[cut + 1]
<1>4. D \o (SegVis(segments, skip) \o v) = V[1]
  BY <1>1 DEF VisibleInv, AllVisible
<1>5. SegVis(segments, skip) = d \o s
  BY <1>1, <1>2, SegVisHead DEF TypeInv
<1>6. Decoded(ids', skip) = D \o d
  <2> HIDE DEF x
  <2>1. ids \in Seq(AllIds)
    BY <1>2, VisibleParts
  <2> QED BY <1>1, <1>3, <2>1, DecodedAppend
<1>7. D \in Seq(Byte) /\ d \in Seq(Byte) /\ s \in Seq(Byte) /\ v \in Seq(Byte)
  <2>1. D \in Seq(Byte) /\ s \in Seq(Byte) /\ v \in Seq(Byte)
    BY <1>1, <1>2, VisibleParts
  <2>2. d \in Seq(Byte)
    <3> HIDE DEF x
    <3> QED BY <1>3, SeenType
  <2> QED BY <2>1, <2>2
<1>8. D \o ((d \o s) \o v) = V[1]
  BY <1>4, <1>5
<1> HIDE DEF V, D, d, s, v
<1>9. (D \o d) \o (s \o v) = D \o ((d \o s) \o v)
  <2>1. AreFour(Byte, D, d, s, v)
    BY <1>7 DEF AreFour
  <2> QED BY <2>1, NextIsDone
<1>10. (D \o d) \o (s \o v) = V[1]
  BY <1>8, <1>9
<1> QED BY <1>1, <1>6, <1>10 DEF V, s, v

LEMMA VisibleTakePlain ==
  ASSUME TokenizerInv, CleanInv, VisibleInv, TakePlain
  PROVE  VisibleInv'
<1> DEFINE x == Head(segments).text
<1>1. /\ pc = "segment" /\ segments # <<>> /\ ~Head(segments).is_special
      /\ rest' = utf8_to_codepoints(x) /\ pc' = "pre_tokenize"
      /\ text' = text /\ segments' = segments /\ pieces' = pieces /\ ids' = ids
      /\ pc \notin Working /\ pc' \in Working
  BY DEF TakePlain, Working
<1>2. TypeInv /\ cut = Len(text) /\ pieces = <<>>
  BY <1>1 DEF TokenizerInv, ControlInv
<1> SUFFICES ASSUME WellFormed(text), NEW skip \in BOOLEAN
             PROVE  Decoded(ids, skip) \o (Left' \o SegVis(Tail(segments), skip))
                      = VisibleFrom(text, skip)[1]
  BY <1>1 DEF VisibleInv, AllVisible
<1>3. Whole(x)
  <2>1. segments \in Seq(CleanSegment)
    BY <1>1 DEF CleanInv
  <2>2. Head(segments) \in CleanSegment
    BY <1>1, <2>1, HeadTailProperties
  <2> QED BY <1>1, <2>2 DEF CleanSegment
<1>4. Left' = x
  <2>1. Left' = FlattenSeq(<<>>) \o codepoints_to_utf8(utf8_to_codepoints(x))
    BY <1>1, <1>2 DEF Left
  <2>2. codepoints_to_utf8(utf8_to_codepoints(x)) = x /\ x \in Seq(Byte)
    <3> HIDE DEF x
    <3>1. x \in Seq(Byte)
      BY <1>3 DEF Whole
    <3> QED BY <1>3, <3>1, WholeComesBack
  <2>3. <<>> \o x = x
    <3> HIDE DEF x
    <3> QED BY <2>2, ConcatEmptySeq
  <2> QED BY <2>1, <2>2, <2>3, FlatEmpty
<1> DEFINE V == VisibleFrom(text, skip)
           D == Decoded(ids, skip)
           s == SegVis(Tail(segments), skip)
<1>5. D \o (SegVis(segments, skip) \o V[cut + 1]) = V[1]
  BY <1>1 DEF VisibleInv, AllVisible
<1>6. V[cut + 1] = <<>> /\ SegVis(segments, skip) \in Seq(Byte)
  BY <1>2, VisibleParts
<1>7. SegVis(segments, skip) \o <<>> = SegVis(segments, skip)
  BY <1>6, ConcatEmptySeq
<1>8. SegVis(segments, skip) = x \o s
  BY <1>1, <1>2, SegVisHead DEF TypeInv
<1> QED BY <1>4, <1>5, <1>6, <1>7, <1>8

LEMMA EncodedConcat ==
  ASSUME NEW s \in Seq(Codes), NEW t \in Seq(Codes)
  PROVE  codepoints_to_utf8(s \o t) = codepoints_to_utf8(s) \o codepoints_to_utf8(t)
<1>1. s \o t \in Seq(Codes)
  BY ConcatProperties
<1>2. /\ codepoints_to_utf8(s \o t) = FlatMap(Encode, s \o t)
      /\ codepoints_to_utf8(s) = FlatMap(Encode, s)
      /\ codepoints_to_utf8(t) = FlatMap(Encode, t)
      /\ MapsTo(Encode, Codes, Byte)
  BY <1>1, EncodedIs
<1>3. FlatMap(Encode, s \o t) = FlatMap(Encode, s) \o FlatMap(Encode, t)
  BY <1>2, FlatMapConcat
<1> QED BY <1>2, <1>3

LEMMA VisibleTake ==
  ASSUME TokenizerInv, VisibleInv, NEW branch \in 1 .. 8, Take(branch)
  PROVE  VisibleInv'
<1> DEFINE n == Branches(rest)[branch]
           front == SubSeq(rest, 1, n)
           tail == SubSeq(rest, n + 1, Len(rest))
           piece == codepoints_to_utf8(front)
<1>1. /\ pc = "pre_tokenize" /\ rest # <<>> /\ n > 0
      /\ pieces' = Append(pieces, piece) /\ rest' = tail
      /\ pc' = pc /\ text' = text /\ segments' = segments /\ ids' = ids
      /\ pc \in Working
  BY DEF Take, Working
<1>2. TypeInv /\ rest \in Seq(Codes) /\ Len(rest) \in Nat
  BY LenProperties DEF TokenizerInv, TypeInv
<1>3. n \in 0 .. Len(rest)
  BY <1>1, <1>2, BranchTypes
<1>4. rest = front \o tail /\ front \in Seq(Codes) /\ tail \in Seq(Codes)
  <2> HIDE DEF n
  <2> DEFINE i == n + 1
  <2>1. i \in 1 .. Len(rest) + 1 /\ i - 1 = n
    BY <1>2, <1>3
  <2> HIDE DEF i
  <2>2. SubSeq(rest, 1, i - 1) \in Seq(Codes) /\ rest = SubSeq(rest, 1, i - 1) \o From(rest, i)
    BY <1>2, <2>1, CutInTwo
  <2>3. From(rest, i) \in Seq(Codes)
    BY <1>2, <2>1, FromFacts
  <2> QED BY <2>1, <2>2, <2>3 DEF i, From
<1> HIDE DEF n, front, tail
<1>5. codepoints_to_utf8(rest) = piece \o codepoints_to_utf8(tail)
  BY <1>4, EncodedConcat
<1>6. piece \in Seq(Byte) /\ codepoints_to_utf8(tail) \in Seq(Byte)
  BY <1>4, EncodedIs
<1>7. pieces \in Seq(Seq(Byte)) /\ FlattenSeq(pieces) \in Seq(Byte)
  BY <1>2, VisibleParts DEF TypeInv
<1>8. FlattenSeq(pieces') = FlattenSeq(pieces) \o piece
  <2> HIDE DEF piece
  <2> QED BY <1>1, <1>6, <1>7, FlatAppend
<1>9. Left' = Left
  <2> DEFINE p == FlattenSeq(pieces)
             q == codepoints_to_utf8(tail)
  <2>1. Left' = (p \o piece) \o q /\ Left = p \o (piece \o q)
    BY <1>1, <1>5, <1>8 DEF Left
  <2>2. AreSeqs(Byte, p, piece, q)
    BY <1>6, <1>7 DEF AreSeqs
  <2> HIDE DEF p, piece, q
  <2>3. (p \o piece) \o q = p \o (piece \o q)
    BY <2>2, ConcatThree
  <2> QED BY <2>1, <2>3
<1> QED BY <1>1, <1>9 DEF VisibleInv, AllVisible

LEMMA VisibleEndPreTokenize ==
  ASSUME TokenizerInv, VisibleInv, EndPreTokenize
  PROVE  VisibleInv'
<1>1. /\ pc = "pre_tokenize" /\ pc' = "piece" /\ rest = <<>>
      /\ text' = text /\ segments' = segments /\ pieces' = pieces /\ ids' = ids
      /\ pc \in Working /\ pc' \in Working
  BY DEF EndPreTokenize, Working
<1>2. TypeInv
  BY DEF TokenizerInv
<1>3. Left' = Left
  <2>1. codepoints_to_utf8(<<>>) = <<>>
    <3>1. codepoints_to_utf8(<<>>) = FlatMap(Encode, <<>>)
      BY EmptySeq, EncodedIs
    <3> QED BY <3>1, FlatMapEmpty
  <2>2. FlattenSeq(pieces) \o <<>> = FlattenSeq(pieces)
    BY <1>2, VisibleParts, ConcatEmptySeq
  <2>3. Left' = FlattenSeq(pieces) /\ Left = FlattenSeq(pieces) \o codepoints_to_utf8(<<>>)
    BY <1>1 DEF Left
  <2> QED BY <2>1, <2>2, <2>3
<1> QED BY <1>1, <1>3 DEF VisibleInv, AllVisible

LEMMA VisibleEndPiece ==
  ASSUME TokenizerInv, WordInv, VisibleInv, EndPiece
  PROVE  VisibleInv'
<1>1. /\ pc = "bpe" /\ pc' = "piece" /\ ids' = ids \o IdsOf(word) /\ pieces' = Tail(pieces)
      /\ text' = text /\ segments' = segments /\ pc \in Working /\ pc' \in Working
  BY DEF EndPiece, IdsOf, Working
<1>2. TypeInv /\ word \in Seq(Tokens) /\ segments # <<>> /\ pieces # <<>>
  BY <1>1 DEF TokenizerInv, TypeInv, ControlInv, Working
<1>3. WordBytes(word) = Head(pieces) /\ InVocab(word)
  BY <1>1 DEF WordInv
<1> SUFFICES ASSUME WellFormed(text), NEW skip \in BOOLEAN
             PROVE  Decoded(ids', skip) \o (Left' \o SegVis(Tail(segments), skip))
                      = VisibleFrom(text, skip)[1]
  BY <1>1 DEF VisibleInv, AllVisible
<1> DEFINE V == VisibleFrom(text, skip)
           D == Decoded(ids, skip)
           h == Head(pieces)
           p == FlattenSeq(Tail(pieces))
           s == SegVis(Tail(segments), skip)
<1>4. Decoded(ids', skip) = D \o h
  <2>1. IdsOf(word) \in Seq(AllIds) /\ Decoded(IdsOf(word), skip) = WordBytes(word)
    BY <1>2, <1>3, IdsOfBack
  <2>2. ids \in Seq(AllIds)
    BY <1>2, VisibleParts
  <2> DEFINE new == IdsOf(word)
  <2>3. new \in Seq(AllIds) /\ Decoded(new, skip) = h /\ ids' = ids \o new
    BY <1>1, <1>3, <2>1
  <2> HIDE DEF new, h
  <2>4. Decoded(ids \o new, skip) = Decoded(ids, skip) \o Decoded(new, skip)
    BY <2>2, <2>3, DecodedConcat
  <2> QED BY <2>3, <2>4
<1>5. Left' = p /\ Left = FlattenSeq(pieces)
  BY <1>1 DEF Left
<1>6. FlattenSeq(pieces) = h \o p /\ h \in Seq(Byte) /\ p \in Seq(Byte)
  <2> DEFINE Q == Seq(Byte)
             t == Tail(pieces)
             u == <<h>>
  <2>1. pieces \in Seq(Q)
    BY <1>2 DEF TypeInv
  <2>2. pieces = u \o t /\ h \in Q /\ t \in Seq(Q) /\ u \in Seq(Q)
    <3> HIDE DEF Q
    <3> QED BY <1>2, <2>1, HeadThenTail
  <2>3. FlattenSeq(u) = h
    <3> HIDE DEF h
    <3> QED BY <2>2, FlatOne
  <2> HIDE DEF t, u
  <2>4. FlattenSeq(u \o t) = FlattenSeq(u) \o FlattenSeq(t)
    BY <2>2, FlatConcat
  <2>5. FlattenSeq(t) \in Seq(Byte)
    BY <2>2, FlatType
  <2> QED BY <2>2, <2>3, <2>4, <2>5 DEF t
<1>7. D \in Seq(Byte) /\ s \in Seq(Byte)
  BY <1>2, VisibleParts
<1>8. D \o (Left \o s) = V[1]
  BY <1>1 DEF VisibleInv, AllVisible
<1>9. D \o ((h \o p) \o s) = V[1]
  BY <1>5, <1>6, <1>8
<1> HIDE DEF V, D, h, p, s
<1>10. (D \o h) \o (p \o s) = D \o ((h \o p) \o s)
  <2>1. AreFour(Byte, D, h, p, s)
    BY <1>6, <1>7 DEF AreFour
  <2> QED BY <2>1, NextIsDone
<1>11. (D \o h) \o (p \o s) = V[1]
  BY <1>9, <1>10
<1> QED BY <1>4, <1>5, <1>11 DEF V, s

LEMMA VisibleEndSegment ==
  ASSUME TokenizerInv, VisibleInv, EndSegment
  PROVE  VisibleInv'
<1>1. /\ pc = "piece" /\ pieces = <<>> /\ pc' = "segment" /\ segments' = Tail(segments)
      /\ text' = text /\ cut' = cut /\ ids' = ids /\ pc \in Working /\ pc' \notin Working
  BY DEF EndSegment, Working
<1>2. TypeInv /\ segments # <<>> /\ cut = Len(text)
  BY <1>1 DEF TokenizerInv, ControlInv
<1> SUFFICES ASSUME WellFormed(text), NEW skip \in BOOLEAN
             PROVE  Decoded(ids, skip)
                      \o (SegVis(Tail(segments), skip) \o VisibleFrom(text, skip)[cut + 1])
                      = VisibleFrom(text, skip)[1]
  BY <1>1 DEF VisibleInv, AllVisible
<1> DEFINE s == SegVis(Tail(segments), skip)
<1>3. s \in Seq(Byte) /\ VisibleFrom(text, skip)[cut + 1] = <<>>
  BY <1>2, VisibleParts
<1>4. Left = <<>>
  BY <1>1, FlatEmpty DEF Left
<1>5. Decoded(ids, skip) \o (Left \o s) = VisibleFrom(text, skip)[1]
  BY <1>1 DEF VisibleInv, AllVisible
<1> HIDE DEF s
<1>6. <<>> \o s = s /\ s \o <<>> = s
  BY <1>3, ConcatEmptySeq
<1> QED BY <1>3, <1>4, <1>5, <1>6 DEF s

LEMMA VisibleElse ==
  ASSUME VisibleInv, EndSplit \/ StartPiece \/ Merge \/ Decode \/ UNCHANGED vars
  PROVE  VisibleInv'
<1>1. CASE EndSplit \/ Decode
  <2>1. /\ pc \notin Working /\ pc' \notin Working /\ text' = text
        /\ segments' = segments /\ cut' = cut /\ ids' = ids
    BY <1>1 DEF EndSplit, Decode, Working
  <2> QED BY <2>1 DEF VisibleInv, AllVisible
<1>2. CASE StartPiece \/ Merge
  <2>1. /\ pc \in Working /\ pc' \in Working /\ text' = text /\ pc # "pre_tokenize"
        /\ pc' # "pre_tokenize" /\ segments' = segments /\ pieces' = pieces /\ ids' = ids
    BY <1>2 DEF StartPiece, Merge, Working
  <2>2. Left' = Left
    BY <2>1 DEF Left
  <2> QED BY <2>1, <2>2 DEF VisibleInv, AllVisible
<1>3. CASE UNCHANGED vars
  <2>1. /\ pc' = pc /\ text' = text /\ segments' = segments /\ cut' = cut
        /\ pieces' = pieces /\ rest' = rest /\ ids' = ids
    BY <1>3 DEF vars
  <2>2. Left' = Left
    BY <2>1 DEF Left
  <2> QED BY <2>1, <2>2 DEF VisibleInv, AllVisible
<1> QED BY <1>1, <1>2, <1>3

-----------------------------------------------------------------------------
\* What decode() has returned.
OutputInv == pc = "done" => output.skip \in BOOLEAN /\ output.text = Decoded(ids, output.skip)

BackInv == CleanInv /\ WordInv /\ VisibleInv /\ OutputInv

LEMMA StartsBack ==
  ASSUME Init
  PROVE  BackInv
<1>1. pc = "split" /\ text \in Seq(Byte) /\ cut = 0 /\ segments = <<>> /\ ids = <<>>
      /\ pc \notin Working
  BY FileAssumption DEF Init, Working
<1>2. CleanInv
  <2>1. ~Growing
    BY <1>1 DEF Growing
  <2>2. segments \in Seq(CleanSegment)
    BY <1>1, EmptySeq
  <2>3. WellFormed(text) => Edge(text, cut + 1)
    <3> SUFFICES ASSUME WellFormed(text) PROVE Edge(text, 1)
      BY <1>1
    <3>1. Whole(text)
      BY <1>1, WellFormedIsWhole
    <3> QED BY <3>1 DEF Whole
  <2> QED BY <1>1, <2>1, <2>2, <2>3 DEF CleanInv
<1>3. WordInv /\ OutputInv
  BY <1>1 DEF WordInv, OutputInv
<1>4. VisibleInv
  <2> SUFFICES ASSUME NEW skip \in BOOLEAN
               PROVE  Decoded(<<>>, skip) \o (SegVis(<<>>, skip) \o VisibleFrom(text, skip)[1])
                        = VisibleFrom(text, skip)[1]
    BY <1>1 DEF VisibleInv, AllVisible
  <2> DEFINE v == VisibleFrom(text, skip)[1]
  <2>1. v \in Seq(Byte)
    <3>1. 1 \in 1 .. Len(text) + 1
      BY <1>1, LenProperties
    <3> QED BY <1>1, <3>1, VisibleFromIs
  <2>2. Decoded(<<>>, skip) = <<>>
    <3>1. Decoded(<<>>, skip) = FlatMap(IdText(skip), <<>>)
      BY EmptySeq, DecodedIs
    <3> QED BY <3>1, FlatMapEmpty
  <2>3. SegVis(<<>>, skip) = <<>>
    BY FlatMapEmpty DEF SegVis
  <2> HIDE DEF v
  <2>4. <<>> \o v = v
    BY <2>1, ConcatEmptySeq
  <2> QED BY <2>2, <2>3, <2>4 DEF v
<1> QED BY <1>2, <1>3, <1>4 DEF BackInv

LEMMA OutputInvKeeps ==
  ASSUME OutputInv, [Next]_vars
  PROVE  OutputInv'
<1> SUFFICES ASSUME pc' = "done"
             PROVE  output'.skip \in BOOLEAN /\ output'.text = Decoded(ids', output'.skip)
  BY DEF OutputInv
<1>1. Decode \/ (pc = "done" /\ output' = output /\ ids' = ids)
  <2>1. CASE UNCHANGED vars
    BY <2>1 DEF vars
  <2>2. CASE CutAdded \/ CutByte \/ EndSplit \/ TakeSpecial \/ TakePlain
    BY <2>2 DEF CutAdded, CutByte, EndSplit, TakeSpecial, TakePlain
  <2>3. CASE \/ TakeContraction \/ TakeWord \/ TakeNumber \/ TakeSymbols
             \/ TakeLineBreaks \/ TakeAllButOneSpace \/ TakeSpaces \/ TakeUnmatched
    <3>1. PICK branch \in 1 .. 8 : Take(branch)
      <4>1. \A b \in {1, 2, 3, 4, 5, 6, 7, 8} : b \in 1 .. 8
        OBVIOUS
      <4> QED BY <2>3, <4>1 DEF TakeContraction, TakeWord, TakeNumber, TakeSymbols,
                  TakeLineBreaks, TakeAllButOneSpace, TakeSpaces, TakeUnmatched
    <3> QED BY <3>1 DEF Take
  <2>4. CASE EndPreTokenize \/ StartPiece \/ Merge \/ EndPiece \/ EndSegment
    BY <2>4 DEF EndPreTokenize, StartPiece, Merge, EndPiece, EndSegment
  <2> QED BY <2>1, <2>2, <2>3, <2>4 DEF Next
<1>2. CASE Decode
  <2>1. PICK skip \in BOOLEAN : output' = [text |-> Decoded(ids, skip), skip |-> skip]
    BY <1>2 DEF Decode
  <2>2. ids' = ids
    BY <1>2 DEF Decode
  <2> QED BY <2>1, <2>2
<1>3. CASE pc = "done" /\ output' = output /\ ids' = ids
  BY <1>3 DEF OutputInv
<1> QED BY <1>1, <1>2, <1>3

LEMMA BackInvKeeps ==
  ASSUME TokenizerInv, BackInv, [Next]_vars
  PROVE  BackInv'
<1> USE DEF BackInv
<1>1. WordInv' /\ OutputInv'
  BY WordInvKeeps, OutputInvKeeps
<1>2. CleanInv' /\ VisibleInv'
  <2>1. CASE CutAdded
    BY <2>1, CleanCutAdded, VisibleCutAdded
  <2>2. CASE CutByte
    BY <2>2, CleanCutByte, VisibleCutByte
  <2>3. CASE EndSplit
    BY <2>3, CleanEndSplit, VisibleElse
  <2>4. CASE TakeSpecial
    <3>1. CleanInv'
      BY <2>4, CleanLater DEF TakeSpecial
    <3> QED BY <2>4, <3>1, VisibleTakeSpecial
  <2>5. CASE TakePlain
    <3>1. CleanInv'
      BY <2>5, CleanLater DEF TakePlain
    <3> QED BY <2>5, <3>1, VisibleTakePlain
  <2>6. CASE \E branch \in 1 .. 8 : Take(branch)
    <3>1. PICK branch \in 1 .. 8 : Take(branch)
      BY <2>6
    <3>2. CleanInv'
      BY <3>1, CleanLater DEF Take
    <3> QED BY <3>1, <3>2, VisibleTake
  <2>7. CASE EndPreTokenize
    <3>1. CleanInv'
      BY <2>7, CleanLater DEF EndPreTokenize
    <3> QED BY <2>7, <3>1, VisibleEndPreTokenize
  <2>8. CASE StartPiece \/ Merge \/ Decode
    <3>1. CleanInv'
      BY <2>8, CleanLater DEF StartPiece, Merge, Decode
    <3> QED BY <2>8, <3>1, VisibleElse
  <2>9. CASE EndPiece
    <3>1. CleanInv'
      BY <2>9, CleanLater DEF EndPiece
    <3> QED BY <2>9, <3>1, VisibleEndPiece
  <2>10. CASE EndSegment
    <3>1. segments # <<>>
      BY <2>10 DEF EndSegment, TokenizerInv, ControlInv, Working
    <3>2. CleanInv'
      BY <2>10, <3>1, CleanLater DEF EndSegment
    <3> QED BY <2>10, <3>2, VisibleEndSegment
  <2>11. CASE UNCHANGED vars
    <3>1. CleanInv'
      BY <2>11 DEF vars, CleanInv, Growing, CutFrom
    <3> QED BY <2>11, <3>1, VisibleElse
  <2>12. (\/ TakeContraction \/ TakeWord \/ TakeNumber \/ TakeSymbols
          \/ TakeLineBreaks \/ TakeAllButOneSpace \/ TakeSpaces \/ TakeUnmatched)
         => \E branch \in 1 .. 8 : Take(branch)
    <3>1. \A b \in {1, 2, 3, 4, 5, 6, 7, 8} : b \in 1 .. 8
      OBVIOUS
    <3> QED BY <3>1 DEF TakeContraction, TakeWord, TakeNumber, TakeSymbols, TakeLineBreaks,
                        TakeAllButOneSpace, TakeSpaces, TakeUnmatched
  <2> QED BY <2>1, <2>2, <2>3, <2>4, <2>5, <2>6, <2>7, <2>8, <2>9, <2>10, <2>11, <2>12
          DEF Next
<1> QED BY <1>1, <1>2

\* Whatever the text, as long as it is well formed: decode() makes of the ids
\* that encode() returns the text itself, or the text without its special added
\* tokens when these are to be skipped. Nothing is lost between the cuts, the
\* scans, the byte table, the merges and the vocabulary, and nothing is added.
THEOREM TextAlwaysComesBack == Spec => []TextComesBack
<1>1. Init => BackInv
  BY StartsBack
<1>2. TokenizerInv /\ BackInv /\ [Next]_vars => BackInv'
  BY BackInvKeeps
<1>3. TokenizerInv /\ BackInv => TextComesBack
  <2> SUFFICES ASSUME TokenizerInv, BackInv, pc = "done", WellFormed(text)
               PROVE  output.text = VisibleFrom(text, output.skip)[1]
    BY DEF TextComesBack
  <2>1. output.skip \in BOOLEAN /\ output.text = Decoded(ids, output.skip)
    BY DEF BackInv, OutputInv
  <2>2. PICK skip \in BOOLEAN : skip = output.skip
    BY <2>1
  <2>3. TypeInv /\ segments = <<>> /\ cut = Len(text) /\ pc \notin Working
    BY DEF TokenizerInv, ControlInv, Working
  <2> DEFINE D == Decoded(ids, skip)
             V == VisibleFrom(text, skip)
  <2>4. D \o (SegVis(segments, skip) \o V[cut + 1]) = V[1]
    BY <2>3 DEF BackInv, VisibleInv, AllVisible
  <2>5. SegVis(segments, skip) = <<>>
    BY <2>3, FlatMapEmpty DEF SegVis
  <2>6. V[cut + 1] = <<>> /\ D \in Seq(Byte)
    BY <2>3, VisibleParts
  <2>7. <<>> \o <<>> = <<>>
    BY EmptySeq, ConcatEmptySeq
  <2>8. D \o <<>> = D
    <3> HIDE DEF D
    <3> QED BY <2>6, ConcatEmptySeq
  <2>9. D = V[1]
    BY <2>4, <2>5, <2>6, <2>7, <2>8
  <2> QED BY <2>1, <2>2, <2>9
<1> QED BY <1>1, <1>2, <1>3, TokenizerInvariant, PTL DEF Spec
=============================================================================
