----------------------- MODULE SpeculativeDecodeProofs ----------------------
(***************************************************************************)
(* Proofs that speculative decoding keeps its caches in step with its      *)
(* output, never exceeds them, returns what greedy decoding returns, keeps *)
(* statistics that add up and an MTP history of committed tokens, for      *)
(* every vocabulary, model, set of requests, cache layout and proposal     *)
(* width.                                                                  *)
(***************************************************************************)
EXTENDS SpeculativeDecode, SequenceTheorems, WellFoundedInduction, TLAPS

-----------------------------------------------------------------------------
\* Sequences.

LEMMA FunctionIsSeq ==
  ASSUME NEW S, NEW n \in Nat, NEW f \in [1 .. n -> S]
  PROVE  f \in Seq(S) /\ Len(f) = n
<1>1. f \in Seq(S)
  BY SeqDef
<1>2. DOMAIN f = 1 .. Len(f) /\ Len(f) \in Nat
  BY <1>1, LenProperties
<1> QED BY <1>1, <1>2

LEMMA PrefixFacts ==
  ASSUME NEW S, NEW s \in Seq(S), NEW n \in 0 .. Len(s)
  PROVE  /\ Prefix(s, n) \in Seq(S)
         /\ Len(Prefix(s, n)) = n
         /\ \A i \in 1 .. n : Prefix(s, n)[i] = s[i]
<1>1. \A i \in 1 .. n : s[i] \in S
  BY ElementOfSeq, LenProperties
<1>2. n \in Int /\ n >= 0
  BY LenProperties
<1> QED BY <1>1, <1>2, SubSeqProperties DEF Prefix

\* A prefix of a concatenation that ends in its first part.
LEMMA PrefixInFirst ==
  ASSUME NEW S, NEW s \in Seq(S), NEW t \in Seq(S), NEW n \in 0 .. Len(s)
  PROVE  Prefix(s \o t, n) = Prefix(s, n)
<1>1. /\ s \o t \in Seq(S) /\ Len(s \o t) = Len(s) + Len(t)
      /\ \A i \in 1 .. Len(s) : (s \o t)[i] = s[i]
      /\ Len(s) \in Nat /\ Len(t) \in Nat
  BY ConcatProperties, LenProperties
<1>2. n \in 0 .. Len(s \o t)
  BY <1>1
<1>3. /\ Prefix(s, n) \in Seq(S) /\ Prefix(s \o t, n) \in Seq(S)
      /\ Len(Prefix(s, n)) = n /\ Len(Prefix(s \o t, n)) = n
      /\ \A i \in 1 .. n : Prefix(s, n)[i] = s[i]
      /\ \A i \in 1 .. n : Prefix(s \o t, n)[i] = (s \o t)[i]
  BY <1>1, <1>2, PrefixFacts
<1>4. \A i \in 1 .. n : Prefix(s \o t, n)[i] = Prefix(s, n)[i]
  BY <1>1, <1>3
<1> HIDE DEF Prefix
<1> QED BY <1>3, <1>4, SeqEqual

\* A prefix of a concatenation that ends in its second part.
LEMMA PrefixInSecond ==
  ASSUME NEW S, NEW s \in Seq(S), NEW t \in Seq(S), NEW n \in 0 .. Len(t)
  PROVE  Prefix(s \o t, Len(s) + n) = s \o Prefix(t, n)
<1> DEFINE l == Prefix(s \o t, Len(s) + n)
           r == s \o Prefix(t, n)
<1>1. /\ s \o t \in Seq(S) /\ Len(s \o t) = Len(s) + Len(t)
      /\ \A i \in 1 .. Len(s) + Len(t) : (s \o t)[i] =
           IF i <= Len(s) THEN s[i] ELSE t[i - Len(s)]
      /\ Len(s) \in Nat /\ Len(t) \in Nat
  BY ConcatProperties, LenProperties
<1>2. Len(s) + n \in 0 .. Len(s \o t)
  BY <1>1
<1>3. /\ l \in Seq(S) /\ Len(l) = Len(s) + n
      /\ \A i \in 1 .. Len(s) + n : l[i] = (s \o t)[i]
  BY <1>1, <1>2, PrefixFacts
<1>4. /\ Prefix(t, n) \in Seq(S) /\ Len(Prefix(t, n)) = n
      /\ \A i \in 1 .. n : Prefix(t, n)[i] = t[i]
  BY PrefixFacts
<1>5. /\ r \in Seq(S) /\ Len(r) = Len(s) + n
      /\ \A i \in 1 .. Len(s) + n : r[i] =
           IF i <= Len(s) THEN s[i] ELSE Prefix(t, n)[i - Len(s)]
  <2> DEFINE q == Prefix(t, n)
  <2>1. q \in Seq(S) /\ Len(q) = n
    BY <1>4
  <2> HIDE DEF q
  <2>2. /\ s \o q \in Seq(S) /\ Len(s \o q) = Len(s) + Len(q)
        /\ \A i \in 1 .. Len(s) + Len(q) : (s \o q)[i] =
             IF i <= Len(s) THEN s[i] ELSE q[i - Len(s)]
    BY <2>1, ConcatProperties
  <2>3. r = s \o q
    BY DEF q
  <2>4. q = Prefix(t, n)
    BY DEF q
  <2> QED BY <2>1, <2>2, <2>3, <2>4
<1> HIDE DEF l, r
<1>6. ASSUME NEW i \in 1 .. Len(s) + n PROVE l[i] = r[i]
  <2>1. CASE i <= Len(s)
    BY <1>1, <1>3, <1>5, <2>1
  <2>2. CASE i > Len(s)
    <3>1. i - Len(s) \in 1 .. n /\ i \in 1 .. Len(s) + Len(t)
      BY <1>1, <2>2
    <3>2. l[i] = t[i - Len(s)] /\ r[i] = Prefix(t, n)[i - Len(s)]
      BY <1>1, <1>3, <1>5, <2>2, <3>1
    <3> QED BY <1>4, <3>1, <3>2
  <2> QED BY <1>1, <2>1, <2>2
<1>7. l = r
  BY <1>3, <1>5, <1>6, SeqEqual
<1> QED BY <1>7 DEF l, r

LEMMA WholePrefix ==
  ASSUME NEW S, NEW s \in Seq(S)
  PROVE  Prefix(s, Len(s)) = s /\ Prefix(s, 0) = << >>
BY SubSeqFull, SubSeqEmpty DEF Prefix

LEMMA FirstOfConcat ==
  ASSUME NEW S, NEW s \in Seq(S), NEW t \in Seq(S)
  PROVE  Prefix(s \o t, Len(s)) = s
BY PrefixInFirst, WholePrefix, LenProperties

LEMMA ExtendsConcat ==
  ASSUME NEW S, NEW s \in Seq(S), NEW t \in Seq(S)
  PROVE  Extends(s, s \o t)
BY FirstOfConcat, ConcatProperties, LenProperties DEF Extends

\* A greedy output followed by predictions of the target is greedy.
LEMMA GreedyConcat ==
  ASSUME NEW m \in Model, NEW s \in Seq(Token), NEW t \in Seq(Token),
         NEW n \in 0 .. Len(s),
         GreedyFrom(m, s, n),
         Len(s) > n => s[Len(s)] \notin Eos,
         \A i \in 1 .. Len(t) : t[i] = Target(m, s \o Prefix(t, i - 1)),
         \A i \in 1 .. Len(t) : t[i] \in Eos => i = Len(t)
  PROVE  GreedyFrom(m, s \o t, n)
<1>1. /\ s \o t \in Seq(Token) /\ Len(s \o t) = Len(s) + Len(t)
      /\ \A i \in 1 .. Len(s) + Len(t) : (s \o t)[i] =
           IF i <= Len(s) THEN s[i] ELSE t[i - Len(s)]
      /\ Len(s) \in Nat /\ Len(t) \in Nat
  BY ConcatProperties, LenProperties
<1> SUFFICES ASSUME NEW i \in n + 1 .. Len(s \o t)
             PROVE  /\ (s \o t)[i] = Target(m, Prefix(s \o t, i - 1))
                    /\ i < Len(s \o t) => (s \o t)[i] \notin Eos
  BY DEF GreedyFrom
<1>2. CASE i <= Len(s)
  <2>1. i \in n + 1 .. Len(s) /\ i - 1 \in 0 .. Len(s) /\ i \in 1 .. Len(s) + Len(t)
    BY <1>1, <1>2
  <2>2. s[i] = Target(m, Prefix(s, i - 1)) /\ (i < Len(s) => s[i] \notin Eos)
    BY <2>1 DEF GreedyFrom
  <2>3. (s \o t)[i] = s[i] /\ Prefix(s \o t, i - 1) = Prefix(s, i - 1)
    BY <1>1, <1>2, <2>1, PrefixInFirst
  <2>4. s[i] \notin Eos
    BY <1>1, <2>1, <2>2
  <2> QED BY <2>2, <2>3, <2>4
<1>3. CASE i > Len(s)
  <2> DEFINE j == i - Len(s)
  <2>1. j \in 1 .. Len(t) /\ j - 1 \in 0 .. Len(t) /\ i - 1 = Len(s) + (j - 1)
        /\ (i < Len(s \o t) => j # Len(t))
    BY <1>1, <1>3
  <2>2. (s \o t)[i] = t[j]
    BY <1>1, <1>3
  <2> HIDE DEF j
  <2>3. Prefix(s \o t, i - 1) = s \o Prefix(t, j - 1)
    <3>1. Prefix(s \o t, Len(s) + (j - 1)) = s \o Prefix(t, j - 1)
      <4> DEFINE k == j - 1
      <4>1. k \in 0 .. Len(t)
        BY <2>1
      <4> HIDE DEF k
      <4>2. Prefix(s \o t, Len(s) + k) = s \o Prefix(t, k)
        BY <4>1, PrefixInSecond
      <4> QED BY <4>2 DEF k
    <3>2. i - 1 = Len(s) + (j - 1)
      BY <2>1
    <3> QED BY <3>1, <3>2
  <2> QED BY <2>1, <2>2, <2>3
<1> QED BY <1>1, <1>2, <1>3

LEMMA GreedyAppend ==
  ASSUME NEW m \in Model, NEW s \in Seq(Token), NEW e \in Token,
         NEW n \in 0 .. Len(s),
         GreedyFrom(m, s, n),
         Len(s) > n => s[Len(s)] \notin Eos,
         e = Target(m, s)
  PROVE  GreedyFrom(m, s \o <<e>>, n)
<1> DEFINE t == <<e>>
<1>1. t \in Seq(Token) /\ Len(t) = 1 /\ t[1] = e
  OBVIOUS
<1>2. Prefix(t, 0) = << >> /\ s \o << >> = s
  BY <1>1, WholePrefix, ConcatEmptySeq
<1> HIDE DEF t
<1>3. ASSUME NEW i \in 1 .. Len(t)
      PROVE  t[i] = Target(m, s \o Prefix(t, i - 1)) /\ i = Len(t)
  <2>1. i = 1 /\ i - 1 = 0
    BY <1>1
  <2> QED BY <1>1, <1>2, <2>1
<1>4. \A i \in 1 .. Len(t) : t[i] = Target(m, s \o Prefix(t, i - 1))
  BY <1>3
<1>5. \A i \in 1 .. Len(t) : t[i] \in Eos => i = Len(t)
  BY <1>3
<1>6. GreedyFrom(m, s \o t, n)
  BY <1>1, <1>4, <1>5, GreedyConcat
<1> QED BY <1>6 DEF t

LEMMA PrefixOfPrefix ==
  ASSUME NEW S, NEW s \in Seq(S), NEW k \in 0 .. Len(s), NEW n \in 0 .. k
  PROVE  Prefix(Prefix(s, k), n) = Prefix(s, n)
<1> DEFINE p == Prefix(s, k)
<1>1. /\ p \in Seq(S) /\ Len(p) = k /\ \A i \in 1 .. k : p[i] = s[i]
  BY PrefixFacts
<1>2. n \in 0 .. Len(p) /\ n \in 0 .. Len(s) /\ \A i \in 1 .. n : i \in 1 .. k
  BY <1>1, LenProperties
<1> HIDE DEF p
<1>3. /\ Prefix(p, n) \in Seq(S) /\ Len(Prefix(p, n)) = n
      /\ \A i \in 1 .. n : Prefix(p, n)[i] = p[i]
  BY <1>1, <1>2, PrefixFacts
<1>4. /\ Prefix(s, n) \in Seq(S) /\ Len(Prefix(s, n)) = n
      /\ \A i \in 1 .. n : Prefix(s, n)[i] = s[i]
  BY <1>2, PrefixFacts
<1>5. \A i \in 1 .. n : Prefix(p, n)[i] = Prefix(s, n)[i]
  BY <1>1, <1>2, <1>3, <1>4
<1>6. Prefix(p, n) = Prefix(s, n)
  BY <1>3, <1>4, <1>5, SeqEqual
<1> QED BY <1>6 DEF p

-----------------------------------------------------------------------------
\* Passes of the target over caches that all hold the same tokens.

LEMMA TargetToken ==
  ASSUME NEW m \in Model, NEW s \in Seq(Token), s # << >>, Len(s) <= MaxPosition
  PROVE  Target(m, s) \in Token
<1>1. s \in [1 .. Len(s) -> Token] /\ Len(s) \in 1 .. MaxPosition
  BY LenProperties, EmptySeq, VocabularyAssumption
<1>2. s \in Context
  BY <1>1 DEF Context
<1> QED BY <1>2, VocabularyAssumption

LEMMA PassFacts ==
  ASSUME NEW m \in Model, NEW s \in Seq(Token), NEW ids \in Seq(Token),
         ids # << >>, Len(s) + Len(ids) <= MaxPosition,
         NEW c, c = [k \in Slots |-> s],
         NEW rows \in Predictions(m, c, ids)
  PROVE  /\ rows \in Seq(Token) /\ rows # << >> /\ Len(rows) = Len(ids)
         /\ rows = [i \in 1 .. Len(ids) |-> Target(m, s \o Prefix(ids, i))]
         /\ LastRow(rows) = Target(m, s \o ids)
         /\ LastRow(rows) \in Token
<1>1. Synchronised(c) /\ c[1] = s
  BY SlotAssumption DEF Synchronised, Slots
<1>2. rows = [i \in 1 .. Len(ids) |-> Target(m, s \o Prefix(ids, i))]
  BY <1>1 DEF Predictions
<1>3. Len(ids) \in Nat \ {0} /\ Len(s) \in Nat
  BY LenProperties, EmptySeq
<1>4. ASSUME NEW i \in 1 .. Len(ids) PROVE Target(m, s \o Prefix(ids, i)) \in Token
  <2>1. Prefix(ids, i) \in Seq(Token) /\ Len(Prefix(ids, i)) = i
    BY PrefixFacts
  <2>2. s \o Prefix(ids, i) \in Seq(Token) /\ Len(s \o Prefix(ids, i)) = Len(s) + i
    BY <2>1, ConcatProperties
  <2>3. s \o Prefix(ids, i) # << >> /\ Len(s) + i <= MaxPosition
    BY <1>3, <2>2, EmptySeq, VocabularyAssumption
  <2> QED BY <2>2, <2>3, TargetToken
<1>5. rows \in [1 .. Len(ids) -> Token]
  BY <1>2, <1>4
<1>6. rows \in Seq(Token) /\ Len(rows) = Len(ids) /\ rows # << >>
  BY <1>3, <1>5, SeqDef, LenProperties, EmptySeq
<1>7. LastRow(rows) = Target(m, s \o ids)
  BY <1>2, <1>3, <1>6, WholePrefix DEF LastRow
<1>8. LastRow(rows) \in Token
  BY <1>3, <1>5, <1>6 DEF LastRow
<1> QED BY <1>2, <1>6, <1>7, <1>8

LEMMA AdvanceFacts ==
  ASSUME NEW s, NEW ids, NEW c, c = [k \in Slots |-> s]
  PROVE  Advance(c, ids) = [k \in Slots |-> s \o ids]
BY DEF Advance

LEMMA FitsFacts ==
  ASSUME NEW s, NEW ids, NEW c, c = [k \in Slots |-> s],
         NEW capacity, Len(s) + Len(ids) <= capacity
  PROVE  Fits(c, ids, capacity)
BY SlotAssumption DEF Fits, FitsUpTo, Slots

\* Whatever a failed pass leaves is still a row of caches.
LEMMA FailedFacts ==
  ASSUME NEW c \in [Slots -> Seq(Token)], NEW ids \in Seq(Token), NEW capacity,
         NEW d \in FailedAdvances(c, ids, capacity)
  PROVE  d \in [Slots -> Seq(Token)]
<1>1. \A s \in Slots : c[s] \in Seq(Token) /\ c[s] \o ids \in Seq(Token)
  BY ConcatProperties
<1>2. PICK k \in 0 .. NumSlots : d = AdvanceUpTo(c, ids, k)
  BY DEF FailedAdvances
<1> QED BY <1>1, <1>2 DEF AdvanceUpTo

-----------------------------------------------------------------------------
\* The accepted prefix exists and agrees with the predictions.
LEMMA AcceptedFacts ==
  ASSUME candidates \in Seq(Token)
  PROVE  /\ Accepted \in 0 .. Len(candidates)
         /\ \A i \in 1 .. Accepted : predictions[i] = candidates[i]
<1> DEFINE Refuted == {i \in 0 .. Len(candidates) - 1 :
                         predictions[i + 1] # candidates[i + 1]}
           Agrees(n) == \A i \in 1 .. n : predictions[i] = candidates[i]
           Right(n) == /\ Agrees(n)
                       /\ n < Len(candidates) =>
                            predictions[n + 1] # candidates[n + 1]
<1>1. Len(candidates) \in Nat
  BY LenProperties
<1>2. \E n \in 0 .. Len(candidates) : Right(n)
  <2>1. CASE Refuted = {}
    <3>1. ASSUME NEW i \in 1 .. Len(candidates)
          PROVE  predictions[i] = candidates[i]
      <4>1. i - 1 \in 0 .. Len(candidates) - 1 /\ (i - 1) + 1 = i
        BY <1>1
      <4> QED BY <2>1, <4>1
    <3>2. Right(Len(candidates))
      BY <1>1, <3>1
    <3> QED BY <1>1, <3>2
  <2>2. CASE Refuted # {}
    <3>1. Refuted \subseteq Nat
      OBVIOUS
    <3>2. PICK n \in Refuted : \A i \in Refuted : ~(<<i, n>> \in OpToRel(<, Nat))
      BY <2>2, <3>1, NatLessThanWellFounded, WFMin
    <3>3. ASSUME NEW i \in 1 .. n PROVE predictions[i] = candidates[i]
      <4>1. i - 1 \in Nat /\ n \in Nat /\ i - 1 < n /\ (i - 1) + 1 = i
            /\ i - 1 \in 0 .. Len(candidates) - 1
        BY <1>1, <3>1
      <4>2. <<i - 1, n>> \in OpToRel(<, Nat)
        BY <4>1 DEF OpToRel
      <4>3. i - 1 \notin Refuted
        BY <3>2, <4>2
      <4> QED BY <4>1, <4>3
    <3>4. Right(n) /\ n \in 0 .. Len(candidates)
      BY <1>1, <3>3
    <3> QED BY <3>4
  <2> QED BY <2>1, <2>2
<1>3. Accepted \in 0 .. Len(candidates) /\ Right(Accepted)
  BY <1>2 DEF Accepted
<1> QED BY <1>3

LEMMA TokensConcat ==
  \A a, b, c \in Seq(Token) : (a \o b) \o c = a \o (b \o c)
<1> SUFFICES ASSUME NEW a \in Seq(Token), NEW b \in Seq(Token), NEW c \in Seq(Token)
             PROVE  (a \o b) \o c = a \o (b \o c)
  OBVIOUS
<1> QED BY ConcatAssociative

-----------------------------------------------------------------------------
\* The inductive invariant.

InRound == {"propose", "verify", "accept"}

\* A call has a request the model can serve, and runs within its budget.
RequestInv ==
  /\ pc # "idle" <=> status = "running"
  /\ pc # "idle" =>
       /\ prompt_count >= 1 /\ max_new_tokens >= 1
       /\ max_cache_len <= MaxPosition
       /\ prompt_count <= Len(generated) /\ Len(generated) <= max_cache_len
  /\ pc \in {"prefill", "seed"} => Len(generated) = prompt_count
  /\ pc \in {"head", "recover"} => Len(generated) < max_cache_len
  /\ pc = "recover" => Len(generated) > prompt_count
  /\ pc \in InRound => Remaining >= 2

\* The proposal leaves room for the correction, the scratch cache and the
\* checkpoints have grown with it, and the MTP history is no longer than
\* the output.
RoundInv ==
  /\ pc \in {"seed", "head"} \cup InRound => next_target \in Token
  /\ pc \in {"head"} \cup InRound => Len(mtp) <= Len(generated)
  /\ pc = "recover" => Len(mtp) < Len(generated)
  /\ pc \in InRound =>
       /\ next_target \notin Eos
       /\ Len(candidates) <= proposal_count
       /\ pc = "propose" => Len(candidates) < proposal_count
       /\ \A i \in 1 .. Len(candidates) :
            candidates[i] \in Eos => (pc # "propose" /\ i = Len(candidates))
       /\ Len(scratch) = Len(mtp) + Len(candidates)
       /\ Len(checkpoints) = Len(candidates) + 1
       /\ \A k \in 1 .. Len(checkpoints) :
            Len(checkpoints[k]) = Len(mtp) + k - 1

\* Every slot holds the output, and the clone the proposal as well.
CacheInv ==
  /\ pc = "prefill" => caches = EmptyCaches
  /\ pc \in {"seed", "head", "recover"} \cup InRound =>
       caches = [s \in Slots |-> generated]
  /\ pc = "accept" =>
       verification = [s \in Slots |-> generated \o verification_ids]
  /\ pc = "return" =>
       \A s \in Slots : \/ caches[s] = generated
                        \/ caches[s] = Prefix(generated, Len(generated) - 1)

\* The output is greedy, unfinished until the call returns, and the
\* predictions at hand are the target's.
GreedyInv ==
  /\ pc # "idle" => GreedyFrom(model, generated, prompt_count)
  /\ pc \notin {"idle", "return"} /\ Len(generated) > prompt_count =>
       generated[Len(generated)] \notin Eos
  /\ pc \in {"seed", "head"} \cup InRound =>
       next_target = Target(model, generated)
  /\ pc = "accept" =>
       predictions = [i \in 1 .. Len(verification_ids) |->
                        Target(model, generated \o Prefix(verification_ids, i))]
  /\ pc = "recover" =>
       predictions # << >> /\ LastRow(predictions) = Target(model, generated)
  /\ pc = "return" => Complete(generated, prompt_count, max_new_tokens)

SpeculativeInv == TypeOK /\ RequestInv /\ RoundInv /\ CacheInv /\ GreedyInv

\* Between calls only the types matter.
LEMMA IdleInv ==
  ASSUME TypeOK', pc' = "idle", status' # "running"
  PROVE  SpeculativeInv'
BY DEF SpeculativeInv, RequestInv, RoundInv, CacheInv, GreedyInv, InRound

LEMMA EmptyTypes ==
  /\ << >> \in Seq(Token) /\ << >> \in Rows /\ << >> \in Seq(Rows)
  /\ EmptyCaches \in Caches
  /\ ZeroCounts \in [DOMAIN ZeroCounts -> Nat]
  /\ NoHidden \in Nat
  /\ \A c : ResetCaches(c) = EmptyCaches
<1>1. << >> \in Seq(Token) /\ << >> \in Rows /\ << >> \in Seq(Rows)
  BY EmptySeq DEF Rows
<1>2. EmptyCaches \in Caches
  BY <1>1 DEF EmptyCaches, Caches
<1>3. ZeroCounts \in [DOMAIN ZeroCounts -> Nat]
  BY DEF ZeroCounts
<1> QED BY <1>1, <1>2, <1>3 DEF NoHidden, ResetCaches, EmptyCaches

LEMMA InitInv == Init => SpeculativeInv
<1> SUFFICES ASSUME Init PROVE SpeculativeInv
  OBVIOUS
<1>1. TypeOK
  BY EmptyTypes DEF Init, TypeOK
<1> QED BY <1>1 DEF Init, SpeculativeInv, RequestInv, RoundInv, CacheInv,
                     GreedyInv, InRound

LEMMA GenerateInv ==
  ASSUME SpeculativeInv, NEW p \in Prompts, NEW n \in Budgets, Generate(p, n)
  PROVE  SpeculativeInv'
<1>1. p \in Seq(Token) /\ p # << >> /\ Len(p) \in Nat \ {0} /\ n \in Nat \ {0}
  BY RequestAssumption, EmptySeq
<1>2. TypeOK'
  BY <1>1, EmptyTypes DEF SpeculativeInv, TypeOK, Generate, locals
<1>3. CASE Len(p) + n > MaxPosition
  BY <1>2, <1>3, IdleInv DEF Generate
<1>4. CASE ~(Len(p) + n > MaxPosition)
  <2>1. RequestInv'
    BY <1>1, <1>4, VocabularyAssumption
    DEF Generate, RequestInv, InRound, max_cache_len
  <2>2. RoundInv'
    BY <1>4 DEF Generate, RoundInv, InRound
  <2>3. CacheInv'
    BY <1>4, EmptyTypes DEF Generate, CacheInv, InRound
  <2>4. GreedyInv'
    BY <1>1, <1>4 DEF Generate, GreedyInv, GreedyFrom, InRound
  <2> QED BY <1>2, <2>1, <2>2, <2>3, <2>4 DEF SpeculativeInv
<1> QED BY <1>3, <1>4

LEMMA BetweenCallsInv ==
  ASSUME SpeculativeInv, Reject \/ Reset
  PROVE  SpeculativeInv'
<1>1. TypeOK'
  BY EmptyTypes DEF SpeculativeInv, TypeOK, Reject, Reset, request, locals
<1>2. pc' = "idle" /\ status' # "running"
  BY DEF SpeculativeInv, RequestInv, Reject, Reset
<1> QED BY <1>1, <1>2, IdleInv

LEMMA PrefillInv ==
  ASSUME SpeculativeInv, Prefill
  PROVE  SpeculativeInv'
<1>1. /\ model \in Model /\ generated \in Seq(Token) /\ generated # << >>
      /\ Len(generated) <= MaxPosition
  BY VocabularyAssumption, EmptySeq
  DEF SpeculativeInv, TypeOK, RequestInv, Prefill, max_cache_len
<1>2. caches = [s \in Slots |-> << >>]
  BY DEF SpeculativeInv, CacheInv, Prefill, EmptyCaches
<1>3. << >> \in Seq(Token) /\ << >> \o generated = generated /\ Len(<< >>) = 0
  BY <1>1, ConcatEmptySeq, EmptySeq
<1>4. PICK rows \in Predictions(model, caches, generated) :
        next_target' = LastRow(rows)
  BY DEF Prefill
<1>5. LastRow(rows) = Target(model, generated) /\ LastRow(rows) \in Token
  <2> DEFINE e == << >>
  <2>1. /\ e \in Seq(Token) /\ Len(e) + Len(generated) <= MaxPosition
        /\ caches = [k \in Slots |-> e]
    BY <1>1, <1>2, <1>3, LenProperties
  <2>2. e \o generated = generated
    BY <1>3
  <2> HIDE DEF e
  <2>3. rows \in Predictions(model, caches, generated)
    BY <1>4
  <2>4. LastRow(rows) = Target(model, e \o generated)
    BY <1>1, <2>1, <2>3, PassFacts
  <2>5. LastRow(rows) \in Token
    BY <1>1, <2>1, <2>3, PassFacts
  <2> QED BY <2>2, <2>4, <2>5
<1>6. caches' = [s \in Slots |-> generated]
  <2>1. caches' = [s \in Slots |-> << >> \o generated]
    BY <1>2 DEF Prefill, Advance
  <2> QED BY <1>3, <2>1
<1>7. TypeOK'
  BY <1>1, <1>4, <1>5, <1>6, LenProperties
  DEF SpeculativeInv, TypeOK, Prefill, Caches, request
<1>8. RequestInv' /\ RoundInv'
  BY <1>4, <1>5 DEF SpeculativeInv, RequestInv, RoundInv, Prefill, InRound, request,
     max_cache_len
<1>9. CacheInv'
  BY <1>6 DEF SpeculativeInv, CacheInv, Prefill, InRound
<1>10. GreedyInv'
  BY <1>3, <1>4, <1>5 DEF SpeculativeInv, GreedyInv, Prefill, InRound, request
<1> QED BY <1>7, <1>8, <1>9, <1>10 DEF SpeculativeInv

LEMMA SeedMtpInv ==
  ASSUME SpeculativeInv, SeedMtp
  PROVE  SpeculativeInv'
<1>1. generated \in Seq(Token) /\ Len(generated) \in Nat
  BY LenProperties DEF SpeculativeInv, TypeOK
<1>2. mtp' \in Rows /\ Len(mtp') = Len(generated)
  <2>1. \A i \in 1 .. Len(generated) :
          Row(generated[i], i) \in [token : Token, hidden : Nat]
    BY <1>1, ElementOfSeq DEF Row
  <2>2. mtp' \in [1 .. Len(generated) -> [token : Token, hidden : Nat]]
    BY <2>1 DEF SeedMtp, PromptRows
  <2> QED BY <1>1, <2>2, FunctionIsSeq DEF Rows
<1>3. TypeOK'
  BY <1>2 DEF SpeculativeInv, TypeOK, SeedMtp, request, locals
<1>4. RequestInv'
  BY <1>1 DEF SpeculativeInv, TypeOK, RequestInv, SeedMtp, InRound, request, max_cache_len
<1>5. RoundInv'
  BY <1>1, <1>2 DEF SpeculativeInv, RoundInv, SeedMtp, InRound, locals
<1>6. CacheInv'
  BY DEF SpeculativeInv, CacheInv, SeedMtp, InRound
<1>7. GreedyInv'
  BY DEF SpeculativeInv, GreedyInv, SeedMtp, InRound, request, locals
<1> QED BY <1>3, <1>4, <1>5, <1>6, <1>7 DEF SpeculativeInv

\* The variables of a round, with the facts every step of it starts from.
LEMMA RoundFacts ==
  ASSUME SpeculativeInv, pc \in InRound
  PROVE  /\ model \in Model /\ generated \in Seq(Token) /\ generated # << >>
         /\ Len(generated) \in Nat \ {0} /\ prompt_count \in 1 .. Len(generated)
         /\ max_cache_len \in Nat /\ max_cache_len <= MaxPosition
         /\ next_target \in Token \ Eos
         /\ candidates \in Seq(Token) /\ Len(candidates) \in Nat
         /\ Len(generated) + Len(candidates) + 1 <= max_cache_len
         /\ proposal_count \in Nat \ {0}
         /\ proposal_count + 1 <= max_cache_len - Len(generated)
         /\ verification_ids \in Seq(Token) /\ verification_ids # << >>
         /\ Len(verification_ids) = Len(candidates) + 1
         /\ verification_ids[1] = next_target
         /\ \A i \in 1 .. Len(candidates) : verification_ids[i + 1] = candidates[i]
         /\ caches = [s \in Slots |-> generated]
<1>1. /\ model \in Model /\ generated \in Seq(Token) /\ candidates \in Seq(Token)
      /\ prompt_count \in Nat /\ max_new_tokens \in Nat
      /\ next_target \in Token \ Eos
      /\ caches = [s \in Slots |-> generated]
  BY DEF SpeculativeInv, TypeOK, RoundInv, CacheInv, InRound
<1>2. Len(generated) \in Nat /\ Len(candidates) \in Nat /\ Width \in 1 .. 16
  BY <1>1, LenProperties, WidthAssumption
<1>3. /\ prompt_count >= 1 /\ prompt_count <= Len(generated)
      /\ max_cache_len <= MaxPosition
      /\ Remaining >= 2 /\ Len(candidates) <= proposal_count
  BY DEF SpeculativeInv, RequestInv, RoundInv, InRound
<1>4. /\ max_cache_len \in Nat /\ Remaining = max_cache_len - Len(generated)
      /\ Remaining \in Int
  BY <1>1, <1>2 DEF max_cache_len, Remaining
<1>5. proposal_count \in Nat \ {0} /\ proposal_count + 1 <= Remaining
  BY <1>2, <1>3, <1>4 DEF proposal_count
<1>6. /\ <<next_target>> \in Seq(Token) /\ Len(<<next_target>>) = 1
      /\ <<next_target>>[1] = next_target
  BY <1>1
<1>7. /\ verification_ids \in Seq(Token)
      /\ Len(verification_ids) = Len(candidates) + 1
      /\ verification_ids[1] = next_target
      /\ \A i \in 1 .. Len(candidates) : verification_ids[i + 1] = candidates[i]
  BY <1>1, <1>2, <1>6, ConcatProperties DEF verification_ids
<1>8. generated # << >> /\ verification_ids # << >>
  BY <1>1, <1>2, <1>3, <1>7, EmptySeq
<1> QED BY <1>1, <1>2, <1>3, <1>4, <1>5, <1>7, <1>8

\* The statistics stay natural numbers.
LEMMA TallyType ==
  ASSUME SpeculativeInv, NEW events, \A f \in DOMAIN events : events[f] \in Nat
  PROVE  Tally(events) \in [DOMAIN ZeroCounts -> Nat]
BY DEF Tally, SpeculativeInv, TypeOK

LEMMA LastTokenInv ==
  ASSUME SpeculativeInv, LastToken
  PROVE  SpeculativeInv'
<1>1. /\ model \in Model /\ generated \in Seq(Token) /\ next_target \in Token
      /\ prompt_count \in Nat /\ max_new_tokens \in Nat
      /\ Len(generated) \in Nat
  BY LenProperties DEF SpeculativeInv, TypeOK, RoundInv, LastToken
<1>2. /\ prompt_count >= 1 /\ prompt_count <= Len(generated)
      /\ max_cache_len <= MaxPosition /\ Len(generated) < max_cache_len
      /\ max_new_tokens >= 1
  BY DEF SpeculativeInv, RequestInv, LastToken
<1>3. /\ generated' = generated \o <<next_target>>
      /\ generated' \in Seq(Token) /\ Len(generated') = Len(generated) + 1
      /\ generated'[Len(generated')] = next_target
  BY <1>1, AppendProperties, AppendIsConcat DEF LastToken
<1>4. TypeOK'
  BY <1>3 DEF SpeculativeInv, TypeOK, LastToken, request, locals
<1>5. RequestInv'
  BY <1>1, <1>2, <1>3
  DEF SpeculativeInv, RequestInv, LastToken, InRound, request, max_cache_len
<1>6. RoundInv'
  BY DEF LastToken, RoundInv, InRound
<1>7. CacheInv'
  <2>1. Prefix(generated', Len(generated') - 1) = generated
    <3> DEFINE t == <<next_target>>
    <3>1. t \in Seq(Token)
      BY <1>1
    <3>2. generated' = generated \o t /\ Len(generated') - 1 = Len(generated)
      BY <1>1, <1>3
    <3> HIDE DEF t
    <3> QED BY <1>1, <3>1, <3>2, FirstOfConcat
  <2>2. \A s \in Slots : caches[s] = generated
    BY DEF SpeculativeInv, CacheInv, LastToken
  <2> QED BY <2>1, <2>2 DEF CacheInv, LastToken, InRound
<1>8. GreedyInv'
  <2>1. GreedyFrom(model, generated, prompt_count)
        /\ (Len(generated) > prompt_count => generated[Len(generated)] \notin Eos)
        /\ next_target = Target(model, generated)
    BY DEF SpeculativeInv, GreedyInv, LastToken
  <2>2. prompt_count \in 0 .. Len(generated)
    BY <1>1, <1>2
  <2>3. GreedyFrom(model, generated \o <<next_target>>, prompt_count)
    BY <1>1, <2>1, <2>2, GreedyAppend
  <2>4. Complete(generated', prompt_count, max_new_tokens)
    BY <1>1, <1>2, <1>3 DEF LastToken, Complete, Remaining, max_cache_len
  <2> QED BY <1>3, <2>3, <2>4 DEF GreedyInv, LastToken, InRound, request
<1> QED BY <1>4, <1>5, <1>6, <1>7, <1>8 DEF SpeculativeInv

LEMMA StartRoundInv ==
  ASSUME SpeculativeInv, StartRound
  PROVE  SpeculativeInv'
<1>1. /\ mtp \in Rows /\ generated \in Seq(Token)
      /\ prompt_count \in Nat /\ max_new_tokens \in Nat
      /\ Len(generated) \in Nat /\ Len(mtp) \in Nat
  BY LenProperties DEF SpeculativeInv, TypeOK, Rows
<1>2. /\ <<mtp>> \in Seq(Rows) /\ Len(<<mtp>>) = 1 /\ <<mtp>>[1] = mtp
      /\ << >> \in Seq(Token) /\ Len(<< >>) = 0
  BY <1>1, EmptySeq
<1>3. counts' \in [DOMAIN ZeroCounts -> Nat]
  BY TallyType DEF StartRound
<1>4. TypeOK'
  BY <1>1, <1>2, <1>3 DEF SpeculativeInv, TypeOK, StartRound, request
<1>5. Remaining >= 2 /\ Remaining' = Remaining
  BY <1>1 DEF SpeculativeInv, RequestInv, StartRound, request,
              max_cache_len, Remaining
<1>6. RequestInv'
  BY <1>5 DEF SpeculativeInv, RequestInv, StartRound, InRound, request,
              max_cache_len
<1>7. RoundInv'
  <2>1. proposal_count' \in Nat \ {0}
    BY <1>1, <1>5, WidthAssumption DEF proposal_count, Remaining
  <2>2. next_target \in Token \ Eos /\ Len(mtp) <= Len(generated)
    BY DEF SpeculativeInv, RoundInv, StartRound
  <2>3. /\ pc' = "propose" /\ candidates' = << >> /\ scratch' = mtp
        /\ checkpoints' = <<mtp>> /\ mtp' = mtp /\ generated' = generated
        /\ next_target' = next_target
    BY DEF StartRound
  <2>4. \A k \in 1 .. Len(checkpoints') : Len(checkpoints'[k]) = Len(mtp) + k - 1
    BY <1>1, <1>2, <2>3
  <2> QED BY <1>1, <1>2, <2>1, <2>2, <2>3, <2>4 DEF RoundInv, InRound
<1>8. CacheInv'
  BY DEF SpeculativeInv, CacheInv, StartRound, InRound
<1>9. GreedyInv'
  BY DEF SpeculativeInv, GreedyInv, StartRound, InRound, request
<1> QED BY <1>4, <1>6, <1>7, <1>8, <1>9 DEF SpeculativeInv

LEMMA ProposeInv ==
  ASSUME SpeculativeInv, NEW t \in Token, Propose(t)
  PROVE  SpeculativeInv'
<1>1. /\ pc \in InRound /\ pc = "propose" /\ pc' \in {"propose", "verify"}
      /\ candidates' = Append(candidates, t)
      /\ checkpoints' = Append(checkpoints, scratch')
      /\ pc' = "propose" => t \notin Eos /\ Len(candidates') # proposal_count
      /\ UNCHANGED <<request, generated, status, result, caches, mtp, next_target,
                     target_hidden, verification, predictions>>
  BY DEF Propose, InRound
<1>2. /\ candidates \in Seq(Token) /\ Len(candidates) \in Nat
      /\ next_target \in Token /\ Len(generated) \in Nat
      /\ max_cache_len \in Nat /\ proposal_count \in Nat \ {0}
  BY <1>1, RoundFacts
<1>3. /\ scratch \in Rows /\ checkpoints \in Seq(Rows) /\ target_hidden \in Nat
      /\ mtp \in Rows /\ Len(mtp) \in Nat
      /\ Len(scratch) \in Nat /\ Len(checkpoints) \in Nat
  BY LenProperties DEF SpeculativeInv, TypeOK, Rows
<1>4. PICK r \in [token : Token, hidden : Nat] : scratch' = Append(scratch, r)
  <2>1. CASE candidates = << >>
    BY <1>2, <1>3, <2>1 DEF Propose, Row
  <2>2. CASE candidates # << >>
    <3>1. candidates[Len(candidates)] \in Token
      BY <1>2, <2>2, EmptySeq, ElementOfSeq
    <3> QED BY <2>2, <3>1 DEF Propose, Row, Draft
  <2> QED BY <2>1, <2>2
<1>5. scratch' \in Rows /\ Len(scratch') = Len(scratch) + 1
  BY <1>3, <1>4, AppendProperties DEF Rows
<1>6. /\ candidates' \in Seq(Token) /\ Len(candidates') = Len(candidates) + 1
      /\ \A i \in 1 .. Len(candidates) : candidates'[i] = candidates[i]
      /\ candidates'[Len(candidates) + 1] = t
  BY <1>1, <1>2, AppendProperties
<1>7. /\ checkpoints' \in Seq(Rows) /\ Len(checkpoints') = Len(checkpoints) + 1
      /\ \A k \in 1 .. Len(checkpoints) : checkpoints'[k] = checkpoints[k]
      /\ checkpoints'[Len(checkpoints) + 1] = scratch'
  BY <1>1, <1>3, <1>5, AppendProperties
<1>8. TypeOK'
  <2>1. counts' \in [DOMAIN ZeroCounts -> Nat]
    BY TallyType DEF Propose
  <2> QED BY <1>1, <1>5, <1>6, <1>7, <2>1 DEF SpeculativeInv, TypeOK, request
<1>9. RequestInv'
  BY <1>1 DEF SpeculativeInv, RequestInv, InRound, request, max_cache_len, Remaining
<1>10. RoundInv'
  <2>1. /\ next_target \in Token \ Eos /\ Len(mtp) <= Len(generated)
        /\ Len(candidates) < proposal_count
        /\ \A i \in 1 .. Len(candidates) : candidates[i] \notin Eos
        /\ Len(scratch) = Len(mtp) + Len(candidates)
        /\ Len(checkpoints) = Len(candidates) + 1
        /\ \A k \in 1 .. Len(checkpoints) :
             Len(checkpoints[k]) = Len(mtp) + k - 1
    BY <1>1 DEF SpeculativeInv, RoundInv, InRound
  <2>2. proposal_count' = proposal_count
    BY <1>1 DEF proposal_count, Remaining, request
  <2>3. /\ Len(candidates') <= proposal_count
        /\ pc' = "propose" => Len(candidates') < proposal_count
    BY <1>1, <1>2, <1>6, <2>1
  <2>4. ASSUME NEW i \in 1 .. Len(candidates'), candidates'[i] \in Eos
        PROVE  pc' # "propose" /\ i = Len(candidates')
    BY <1>1, <1>2, <1>6, <2>1, <2>4
  <2>5. ASSUME NEW k \in 1 .. Len(checkpoints')
        PROVE  Len(checkpoints'[k]) = Len(mtp) + k - 1
    <3>1. CASE k = Len(checkpoints) + 1
      BY <1>2, <1>3, <1>5, <1>7, <2>1, <3>1
    <3>2. CASE k # Len(checkpoints) + 1
      <4>1. k \in 1 .. Len(checkpoints)
        BY <1>3, <1>7, <3>2
      <4>2. checkpoints'[k] = checkpoints[k]
        BY <1>7, <4>1
      <4> QED BY <2>1, <4>1, <4>2
    <3> QED BY <3>1, <3>2
  <2>6. /\ Len(scratch') = Len(mtp) + Len(candidates')
        /\ Len(checkpoints') = Len(candidates') + 1
    BY <1>2, <1>3, <1>5, <1>6, <1>7, <2>1
  <2> QED BY <1>1, <2>1, <2>2, <2>3, <2>4, <2>5, <2>6 DEF RoundInv, InRound
<1>11. CacheInv'
  BY <1>1 DEF SpeculativeInv, CacheInv, InRound
<1>12. GreedyInv'
  BY <1>1 DEF SpeculativeInv, GreedyInv, InRound, request
<1> QED BY <1>8, <1>9, <1>10, <1>11, <1>12 DEF SpeculativeInv

LEMMA VerifyInv ==
  ASSUME SpeculativeInv, Verify
  PROVE  SpeculativeInv'
<1>1. /\ pc \in InRound /\ pc = "verify" /\ pc' = "accept"
      /\ UNCHANGED <<request, generated, status, result, caches, mtp, next_target,
                     target_hidden, scratch, checkpoints, candidates>>
      /\ verification_ids' = verification_ids
  BY DEF Verify, InRound, verification_ids
<1>2. /\ model \in Model /\ generated \in Seq(Token)
      /\ verification_ids \in Seq(Token) /\ verification_ids # << >>
      /\ caches = [s \in Slots |-> generated]
      /\ Len(generated) + Len(verification_ids) <= MaxPosition
  <2>1. /\ max_cache_len \in Nat /\ max_cache_len <= MaxPosition
        /\ Len(generated) \in Nat /\ Len(candidates) \in Nat
        /\ Len(generated) + Len(candidates) + 1 <= max_cache_len
        /\ Len(verification_ids) = Len(candidates) + 1
    BY <1>1, RoundFacts
  <2> QED BY <1>1, <2>1, RoundFacts, VocabularyAssumption
<1>3. /\ predictions' \in Seq(Token)
      /\ predictions' = [i \in 1 .. Len(verification_ids) |->
                           Target(model, generated \o Prefix(verification_ids, i))]
  <2>1. predictions' \in Predictions(model, caches, verification_ids)
    BY DEF Verify
  <2> QED BY <1>2, <2>1, PassFacts
<1>4. verification' = [s \in Slots |-> generated \o verification_ids]
  <2> DEFINE g == generated
             v == verification_ids
             c == caches
  <2>1. c = [s \in Slots |-> g] /\ verification' = Advance(c, v)
    BY <1>2 DEF Verify
  <2> HIDE DEF g, v, c
  <2>2. Advance(c, v) = [s \in Slots |-> g \o v]
    BY <2>1, AdvanceFacts
  <2>3. verification' = [s \in Slots |-> g \o v]
    BY <2>1, <2>2
  <2> QED BY <2>3 DEF g, v
<1>5. TypeOK'
  <2>1. verification' \in Caches
    BY <1>2, <1>4, ConcatProperties DEF Caches
  <2>2. counts' \in [DOMAIN ZeroCounts -> Nat]
    BY TallyType DEF Verify
  <2> QED BY <1>1, <1>3, <2>1, <2>2 DEF SpeculativeInv, TypeOK, request
<1>6. RequestInv'
  BY <1>1 DEF SpeculativeInv, RequestInv, InRound, request, max_cache_len, Remaining
<1>7. RoundInv'
  <2>1. proposal_count' = proposal_count
    BY <1>1 DEF proposal_count, Remaining, request
  <2> QED BY <1>1, <2>1 DEF SpeculativeInv, RoundInv, InRound
<1>8. CacheInv'
  BY <1>1, <1>4 DEF SpeculativeInv, CacheInv, InRound
<1>9. GreedyInv'
  BY <1>1, <1>3 DEF SpeculativeInv, GreedyInv, InRound, request
<1> QED BY <1>5, <1>6, <1>7, <1>8, <1>9 DEF SpeculativeInv

\* What the verification established: the predictions are the target's, and
\* they agree with the accepted prefix.
LEMMA AcceptFacts ==
  ASSUME SpeculativeInv, pc = "accept"
  PROVE  /\ Accepted \in 0 .. Len(candidates)
         /\ predictions \in Seq(Token) /\ predictions # << >>
         /\ Len(predictions) = Len(candidates) + 1
         /\ \A i \in 1 .. Len(candidates) + 1 : predictions[i] =
              Target(model, generated \o Prefix(verification_ids, i))
         /\ LastRow(predictions) = Target(model, generated \o verification_ids)
         /\ LastRow(predictions) \in Token
         /\ \A i \in 1 .. Accepted : predictions[i] = candidates[i]
<1>1. /\ candidates \in Seq(Token) /\ Len(candidates) \in Nat
      /\ Len(verification_ids) = Len(candidates) + 1
  BY RoundFacts DEF InRound
<1>2. /\ model \in Model /\ generated \in Seq(Token)
      /\ verification_ids \in Seq(Token) /\ verification_ids # << >>
      /\ caches = [s \in Slots |-> generated]
      /\ Len(generated) + Len(verification_ids) <= MaxPosition
  <2>1. /\ pc \in InRound
        /\ max_cache_len \in Nat /\ max_cache_len <= MaxPosition
        /\ Len(generated) \in Nat
        /\ Len(generated) + Len(candidates) + 1 <= max_cache_len
    BY RoundFacts DEF InRound
  <2> QED BY <1>1, <2>1, RoundFacts, VocabularyAssumption
<1>3. predictions = [i \in 1 .. Len(verification_ids) |->
                       Target(model, generated \o Prefix(verification_ids, i))]
  BY DEF SpeculativeInv, GreedyInv
<1>4. predictions \in Predictions(model, caches, verification_ids)
  <2>1. Synchronised(caches) /\ caches[1] = generated
    BY <1>2, SlotAssumption DEF Synchronised, Slots
  <2> QED BY <1>3, <2>1 DEF Predictions
<1>5. /\ predictions \in Seq(Token) /\ predictions # << >>
      /\ Len(predictions) = Len(verification_ids)
      /\ LastRow(predictions) \in Token
  BY <1>2, <1>4, PassFacts
<1>6. LastRow(predictions) = Target(model, generated \o verification_ids)
  BY <1>2, <1>4, PassFacts
<1>7. \A i \in 1 .. Len(candidates) + 1 : predictions[i] =
        Target(model, generated \o Prefix(verification_ids, i))
  BY <1>1, <1>3
<1> QED BY <1>1, <1>5, <1>6, <1>7, AcceptedFacts

\* The tokens a round commits on the strength of the verification are greedy,
\* and only the last candidate may end the sequence.
LEMMA CommittedGreedy ==
  ASSUME SpeculativeInv, pc = "accept", NEW n \in 0 .. Accepted + 1
  PROVE  /\ GreedyFrom(model, generated \o Prefix(verification_ids, n), prompt_count)
         /\ \A i \in 1 .. n :
              verification_ids[i] \in Eos => i = Len(verification_ids)
<1> DEFINE t == Prefix(verification_ids, n)
<1>1. /\ model \in Model /\ generated \in Seq(Token)
      /\ prompt_count \in 0 .. Len(generated)
      /\ Len(candidates) \in Nat /\ next_target \notin Eos
      /\ verification_ids \in Seq(Token)
      /\ Len(verification_ids) = Len(candidates) + 1
      /\ verification_ids[1] = next_target
      /\ \A i \in 1 .. Len(candidates) : verification_ids[i + 1] = candidates[i]
  <2>1. pc \in InRound
    BY DEF InRound
  <2> QED BY <2>1, RoundFacts
<1>2. /\ Accepted \in 0 .. Len(candidates)
      /\ \A i \in 1 .. Len(candidates) + 1 : predictions[i] =
           Target(model, generated \o Prefix(verification_ids, i))
      /\ \A i \in 1 .. Accepted : predictions[i] = candidates[i]
  BY AcceptFacts
<1>3. /\ GreedyFrom(model, generated, prompt_count)
      /\ Len(generated) > prompt_count => generated[Len(generated)] \notin Eos
      /\ next_target = Target(model, generated)
      /\ \A i \in 1 .. Len(candidates) :
           candidates[i] \in Eos => i = Len(candidates)
  BY DEF SpeculativeInv, GreedyInv, RoundInv, InRound
<1>4. n \in 0 .. Len(verification_ids)
  BY <1>1, <1>2
<1>5. /\ t \in Seq(Token) /\ Len(t) = n
      /\ \A i \in 1 .. n : t[i] = verification_ids[i]
  BY <1>1, <1>4, PrefixFacts
<1>6. Prefix(verification_ids, 0) = << >> /\ generated \o << >> = generated
  BY <1>1, WholePrefix, ConcatEmptySeq
<1> HIDE DEF t
<1>7. ASSUME NEW i \in 1 .. n
      PROVE  verification_ids[i] =
               Target(model, generated \o Prefix(verification_ids, i - 1))
  <2>1. CASE i = 1
    <3>1. i - 1 = 0
      BY <2>1
    <3>2. generated \o Prefix(verification_ids, i - 1) = generated
      BY <1>6, <3>1
    <3>3. verification_ids[i] = next_target
      BY <1>1, <2>1
    <3> QED BY <1>3, <3>2, <3>3
  <2>2. CASE i # 1
    <3> DEFINE j == i - 1
    <3>1. j \in 1 .. Accepted /\ j \in 1 .. Len(candidates) /\ j + 1 = i
      BY <1>1, <1>2, <2>2
    <3> HIDE DEF j
    <3>2. verification_ids[j + 1] = candidates[j] /\ predictions[j] = candidates[j]
      BY <1>1, <1>2, <3>1
    <3>3. predictions[j] = Target(model, generated \o Prefix(verification_ids, j))
      BY <1>1, <1>2, <3>1
    <3> QED BY <3>1, <3>2, <3>3 DEF j
  <2> QED BY <2>1, <2>2
<1>8. ASSUME NEW i \in 1 .. n, verification_ids[i] \in Eos
      PROVE  i = Len(verification_ids)
  <2>1. i # 1
    BY <1>1, <1>8
  <2> DEFINE j == i - 1
  <2>2. j \in 1 .. Len(candidates) /\ j + 1 = i
    BY <1>1, <1>2, <2>1
  <2>3. candidates[j] \in Eos
    BY <1>1, <1>8, <2>2
  <2> HIDE DEF j
  <2>4. j = Len(candidates)
    BY <1>3, <2>2, <2>3
  <2> QED BY <1>1, <2>2, <2>4
<1>9. ASSUME NEW i \in 1 .. Len(t)
      PROVE  t[i] = Target(model, generated \o Prefix(t, i - 1))
  <2>1. i \in 1 .. n /\ i - 1 \in 0 .. n
    BY <1>5
  <2>2. Prefix(t, i - 1) = Prefix(verification_ids, i - 1)
    BY <1>1, <1>4, <2>1, PrefixOfPrefix DEF t
  <2> QED BY <1>5, <1>7, <2>1, <2>2
<1>10. \A i \in 1 .. Len(t) : t[i] \in Eos => i = Len(t)
  BY <1>1, <1>4, <1>5, <1>8
<1>11. GreedyFrom(model, generated \o t, prompt_count)
  BY <1>1, <1>3, <1>5, <1>9, <1>10, GreedyConcat
<1> QED BY <1>8, <1>11 DEF t

\* Where a round leaves the loop: it goes on exactly when the output is
\* unfinished.
LEMMA AfterRoundFacts ==
  ASSUME NEW s \in Seq(Token), prompt_count \in Nat, max_new_tokens \in Nat,
         Len(s) > prompt_count, Len(s) <= max_cache_len
  PROVE  /\ AfterRound(s) \in {"head", "return"}
         /\ AfterRound(s) = "head" => Len(s) < max_cache_len /\ s[Len(s)] \notin Eos
         /\ AfterRound(s) = "return" => Complete(s, prompt_count, max_new_tokens)
<1>1. Len(s) \in Nat /\ max_cache_len = prompt_count + max_new_tokens
  BY LenProperties DEF max_cache_len
<1> QED BY <1>1 DEF AfterRound, Complete

LEMMA CommitAllInv ==
  ASSUME SpeculativeInv, CommitAll
  PROVE  SpeculativeInv'
<1>1. /\ pc = "accept" /\ pc \in InRound /\ Accepted = Len(candidates)
      /\ caches' = verification /\ mtp' = scratch
      /\ generated' = generated \o verification_ids
      /\ next_target' = LastRow(predictions)
      /\ target_hidden' \in {Len(verification[1]), NoHidden}
      /\ pc' = AfterRound(generated')
      /\ UNCHANGED <<request, status, result, scratch, checkpoints, candidates,
                     verification, predictions>>
  BY DEF CommitAll, InRound
<1>2. /\ model \in Model /\ generated \in Seq(Token) /\ Len(generated) \in Nat
      /\ prompt_count \in Nat /\ max_new_tokens \in Nat
      /\ prompt_count <= Len(generated) /\ prompt_count >= 1 /\ max_new_tokens >= 1
      /\ Len(candidates) \in Nat /\ max_cache_len \in Nat
      /\ max_cache_len <= MaxPosition
      /\ verification_ids \in Seq(Token)
      /\ Len(verification_ids) = Len(candidates) + 1
      /\ Len(generated) + Len(candidates) + 1 <= max_cache_len
  <2>1. max_new_tokens \in Nat /\ max_new_tokens >= 1
    BY <1>1 DEF SpeculativeInv, TypeOK, RequestInv
  <2> QED BY <1>1, <2>1, RoundFacts
<1>3. /\ generated' \in Seq(Token)
      /\ Len(generated') = Len(generated) + Len(candidates) + 1
      /\ Len(generated') \in Nat
      /\ Len(generated') <= max_cache_len /\ Len(generated') > prompt_count
  <2>1. /\ generated' \in Seq(Token)
        /\ Len(generated') = Len(generated) + Len(verification_ids)
    BY <1>1, <1>2, ConcatProperties
  <2> QED BY <1>2, <2>1
<1>4. /\ pc' \in {"head", "return"}
      /\ pc' = "head" => Len(generated') < max_cache_len
                         /\ generated'[Len(generated')] \notin Eos
      /\ pc' = "return" => Complete(generated', prompt_count, max_new_tokens)
  BY <1>1, <1>2, <1>3, AfterRoundFacts
<1>5. LastRow(predictions) = Target(model, generated') /\ LastRow(predictions) \in Token
  BY <1>1, AcceptFacts
<1>6. verification = [s \in Slots |-> generated']
  BY <1>1 DEF SpeculativeInv, CacheInv
<1>7. max_cache_len' = max_cache_len
  BY <1>1 DEF max_cache_len, request
<1>8. TypeOK'
  <2>1. target_hidden' \in Nat
    <3>1. verification[1] = generated'
      BY <1>6, SlotAssumption DEF Slots
    <3> QED BY <1>1, <1>3, <3>1 DEF NoHidden
  <2>2. counts' \in [DOMAIN ZeroCounts -> Nat]
    BY <1>2, TallyType DEF CommitAll
  <2>3. pc' \in {"idle", "prefill", "seed", "head", "propose", "verify", "accept",
                 "recover", "return"}
    BY <1>4
  <2> QED BY <1>1, <1>3, <1>5, <2>1, <2>2, <2>3
          DEF SpeculativeInv, TypeOK, request
<1>9. RequestInv'
  <2>1. status' = "running"
    BY <1>1 DEF SpeculativeInv, RequestInv
  <2> QED BY <1>1, <1>2, <1>3, <1>4, <1>7, <2>1 DEF RequestInv, InRound, request
<1>10. RoundInv'
  <2>1. Len(mtp) \in Nat /\ Len(mtp) <= Len(generated)
        /\ Len(scratch) = Len(mtp) + Len(candidates)
    BY <1>1, LenProperties DEF SpeculativeInv, TypeOK, Rows, RoundInv, InRound
  <2>2. Len(mtp') <= Len(generated')
    BY <1>1, <1>2, <1>3, <2>1
  <2> QED BY <1>1, <1>4, <1>5, <2>2 DEF RoundInv, InRound
<1>11. CacheInv'
  BY <1>1, <1>4, <1>6 DEF CacheInv, InRound
<1>12. GreedyInv'
  <2>1. Prefix(verification_ids, Len(candidates) + 1) = verification_ids
    BY <1>2, WholePrefix
  <2>2. Len(candidates) + 1 \in 0 .. Accepted + 1
    BY <1>1, <1>2
  <2>3. GreedyFrom(model, generated', prompt_count)
    BY <1>1, <2>1, <2>2, CommittedGreedy
  <2> QED BY <1>1, <1>4, <1>5, <2>3 DEF GreedyInv, InRound, request
<1> QED BY <1>8, <1>9, <1>10, <1>11, <1>12 DEF SpeculativeInv

\* A replay always has room for the correction.
LEMMA ReplayFacts ==
  ASSUME SpeculativeInv, pc = "accept", Accepted < Len(candidates)
  PROVE  /\ replay_ids \in Seq(Token) /\ replay_ids # << >>
         /\ Len(replay_ids) = Accepted + 2
         /\ Len(generated) + Accepted + 2 <= max_cache_len
         /\ Remaining > Accepted + 1
         /\ correction \in Token
         /\ replay_ids =
              Prefix(verification_ids, Accepted + 1) \o <<correction>>
         /\ Accepted \in Nat
<1>1. pc \in InRound
  BY DEF InRound
<1>2. /\ Accepted \in Nat /\ Accepted + 1 \in 1 .. Len(predictions)
      /\ predictions \in Seq(Token) /\ Accepted \in 0 .. Len(candidates)
      /\ candidates \in Seq(Token)
  BY <1>1, AcceptFacts, RoundFacts
<1>3. correction \in Token
  BY <1>2, ElementOfSeq DEF correction
<1>4. <<next_target>> \in Seq(Token) /\ Len(<<next_target>>) = 1
  BY <1>1, RoundFacts
<1>5. <<next_target>> \o Prefix(candidates, Accepted) =
        Prefix(verification_ids, Accepted + 1)
  <2> DEFINE h == <<next_target>>
  <2>1. h \in Seq(Token) /\ Len(h) + Accepted = Accepted + 1
    BY <1>2, <1>4
  <2>2. verification_ids = h \o candidates
    BY DEF verification_ids
  <2> HIDE DEF h
  <2>3. Prefix(h \o candidates, Len(h) + Accepted) = h \o Prefix(candidates, Accepted)
    BY <1>2, <2>1, PrefixInSecond
  <2>4. Prefix(verification_ids, Accepted + 1) = h \o Prefix(candidates, Accepted)
    BY <2>1, <2>2, <2>3
  <2> QED BY <2>4 DEF h
<1>6. replay_ids = Prefix(verification_ids, Accepted + 1) \o <<correction>>
  BY <1>5 DEF replay_ids
<1>7. /\ Prefix(verification_ids, Accepted + 1) \in Seq(Token)
      /\ Len(Prefix(verification_ids, Accepted + 1)) = Accepted + 1
  <2>1. verification_ids \in Seq(Token) /\ Accepted + 1 \in 0 .. Len(verification_ids)
    BY <1>1, <1>2, RoundFacts
  <2> QED BY <2>1, PrefixFacts
<1>8. /\ replay_ids \in Seq(Token) /\ Len(replay_ids) = Accepted + 2
      /\ replay_ids # << >>
  <2> DEFINE c == <<correction>>
  <2>1. c \in Seq(Token) /\ Len(c) = 1
    BY <1>3
  <2>2. replay_ids = Prefix(verification_ids, Accepted + 1) \o c
    BY <1>6
  <2> HIDE DEF c
  <2> DEFINE p == Prefix(verification_ids, Accepted + 1)
  <2>3. p \in Seq(Token) /\ Len(p) = Accepted + 1 /\ replay_ids = p \o c
    BY <1>7, <2>2
  <2> HIDE DEF p
  <2>4. replay_ids \in Seq(Token) /\ Len(replay_ids) = Len(p) + Len(c)
    BY <2>1, <2>3, ConcatProperties
  <2> QED BY <1>2, <2>1, <2>3, <2>4, EmptySeq
<1>9. Len(generated) + Accepted + 2 <= max_cache_len /\ Remaining > Accepted + 1
  <2>1. /\ Len(generated) \in Nat /\ Len(candidates) \in Nat /\ max_cache_len \in Nat
        /\ Len(generated) + Len(candidates) + 1 <= max_cache_len
    BY <1>1, RoundFacts
  <2>2. Remaining = max_cache_len - Len(generated)
    BY <2>1 DEF SpeculativeInv, TypeOK, Remaining, max_cache_len
  <2> QED BY <1>2, <2>1, <2>2
<1> QED BY <1>2, <1>3, <1>6, <1>8, <1>9

LEMMA ReplayInv ==
  ASSUME SpeculativeInv, Replay
  PROVE  SpeculativeInv'
<1>1. /\ pc = "accept" /\ pc \in InRound /\ Accepted < Len(candidates)
      /\ predictions' \in Predictions(model, caches, replay_ids)
      /\ caches' = Advance(caches, replay_ids)
      /\ UNCHANGED <<request, status, result, next_target, target_hidden, scratch,
                     checkpoints, candidates, verification>>
  BY DEF Replay, InRound
<1>2. /\ replay_ids \in Seq(Token) /\ replay_ids # << >>
      /\ Len(replay_ids) = Accepted + 2
      /\ Len(generated) + Accepted + 2 <= max_cache_len
      /\ Accepted \in Nat /\ correction \in Token
  BY <1>1, ReplayFacts
<1>3. /\ model \in Model /\ generated \in Seq(Token) /\ Len(generated) \in Nat
      /\ prompt_count \in Nat /\ max_new_tokens \in Nat
      /\ prompt_count <= Len(generated) /\ prompt_count >= 1 /\ max_new_tokens >= 1
      /\ max_cache_len \in Nat /\ max_cache_len <= MaxPosition
      /\ caches = [s \in Slots |-> generated] /\ candidates \in Seq(Token)
  <2>1. max_new_tokens \in Nat /\ max_new_tokens >= 1
    BY <1>1 DEF SpeculativeInv, TypeOK, RequestInv
  <2> QED BY <1>1, <2>1, RoundFacts
<1>4. generated' = generated \o replay_ids
  BY <1>1, ReplayFacts DEF Replay
<1>5. generated' \in Seq(Token) /\ Len(generated') = Len(generated) + Accepted + 2
  <2>1. generated' \in Seq(Token) /\ Len(generated') = Len(generated) + Len(replay_ids)
    BY <1>2, <1>3, <1>4, ConcatProperties
  <2> QED BY <1>2, <1>3, <2>1
<1>6. generated'[Len(generated')] = correction
      /\ GreedyFrom(model, generated', prompt_count)
  <2> DEFINE p == Prefix(verification_ids, Accepted + 1)
             c == <<correction>>
             s == generated \o p
  <2>1. /\ p \in Seq(Token) /\ c \in Seq(Token) /\ Len(p) = Accepted + 1
        /\ \A i \in 1 .. Accepted + 1 : p[i] = verification_ids[i]
        /\ Len(verification_ids) = Len(candidates) + 1
    <3>1. /\ verification_ids \in Seq(Token) /\ Accepted + 1 \in 0 .. Len(verification_ids)
          /\ Len(verification_ids) = Len(candidates) + 1
      BY <1>1, <1>2, RoundFacts
    <3> DEFINE v == verification_ids
               n == Accepted + 1
    <3>2. v \in Seq(Token) /\ n \in 0 .. Len(v)
      BY <3>1
    <3>3. Prefix(v, n) \in Seq(Token) /\ Len(Prefix(v, n)) = n
          /\ \A i \in 1 .. n : Prefix(v, n)[i] = v[i]
      <4> HIDE DEF v, n
      <4> QED BY <3>2, PrefixFacts
    <3>4. c \in Seq(Token)
      BY <1>2
    <3> QED BY <3>1, <3>3, <3>4
  <2>2. /\ Accepted + 1 \in 0 .. Accepted + 1 /\ Accepted + 1 \in 1 .. Len(candidates) + 1
        /\ Accepted + 1 \in 1 .. Accepted + 1
        /\ Accepted + 1 # Len(candidates) + 1
    BY <1>1, <1>2, AcceptFacts
  <2>3. /\ GreedyFrom(model, s, prompt_count)
        /\ \A i \in 1 .. Accepted + 1 :
             verification_ids[i] \in Eos => i = Len(verification_ids)
    BY <1>1, <2>2, CommittedGreedy
  <2>4. correction = Target(model, s)
    BY <1>1, <2>2, AcceptFacts DEF correction
  <2>5. replay_ids = p \o c
    BY <1>1, ReplayFacts
  <2> HIDE DEF p
  <2>6. s \in Seq(Token) /\ Len(s) = Len(generated) + Len(p) /\ s[Len(s)] = p[Len(p)]
    <3>1. /\ s \in Seq(Token) /\ Len(s) = Len(generated) + Len(p)
          /\ \A i \in 1 .. Len(generated) + Len(p) : s[i] =
               IF i <= Len(generated) THEN generated[i] ELSE p[i - Len(generated)]
      BY <1>3, <2>1, ConcatProperties
    <3>2. /\ Len(s) \in 1 .. Len(generated) + Len(p)
          /\ ~(Len(s) <= Len(generated)) /\ Len(s) - Len(generated) = Len(p)
      BY <1>2, <1>3, <2>1, <3>1
    <3> HIDE DEF s
    <3> QED BY <3>1, <3>2
  <2>7. p[Len(p)] \notin Eos
    BY <2>1, <2>2, <2>3
  <2>8. generated' = s \o c
    <3> DEFINE g == generated
    <3>1. g \in Seq(Token) /\ p \in Seq(Token) /\ c \in Seq(Token) /\ generated' = g \o (p \o c)
      BY <1>3, <1>4, <2>1, <2>5
    <3> HIDE DEF g, c
    <3>2. (g \o p) \o c = g \o (p \o c)
      BY <3>1, TokensConcat
    <3>3. generated' = (g \o p) \o c
      BY <3>1, <3>2
    <3> QED BY <3>3 DEF g
  <2> HIDE DEF s
  <2>9. generated'[Len(generated')] = correction
    BY <1>2, <2>6, <2>8, AppendProperties, AppendIsConcat
  <2>10. GreedyFrom(model, s \o <<correction>>, prompt_count)
    <3>1. prompt_count \in 0 .. Len(s) /\ s[Len(s)] \notin Eos
      BY <1>2, <1>3, <2>1, <2>6, <2>7
    <3> QED BY <1>2, <1>3, <2>3, <2>4, <2>6, <3>1, GreedyAppend
  <2> QED BY <2>8, <2>9, <2>10
<1>7. /\ predictions' \in Seq(Token) /\ predictions' # << >>
      /\ LastRow(predictions') = Target(model, generated')
  <2>1. Len(generated) + Len(replay_ids) <= MaxPosition
    BY <1>2, <1>3, VocabularyAssumption
  <2>2. replay_ids \in Seq(Token) /\ replay_ids # << >>
    BY <1>2
  <2>3. predictions' \in Seq(Token) /\ predictions' # << >>
    BY <1>1, <1>3, <2>1, <2>2, PassFacts
  <2>4. LastRow(predictions') = Target(model, generated \o replay_ids)
    BY <1>1, <1>3, <2>1, <2>2, PassFacts
  <2> QED BY <1>4, <2>3, <2>4
<1>8. caches' = [s \in Slots |-> generated']
  BY <1>1, <1>3, <1>4 DEF Advance
<1>9. /\ pc' \in {"return", "recover"}
      /\ pc' = "return" => /\ Complete(generated', prompt_count, max_new_tokens)
                           /\ mtp' = mtp
      /\ pc' = "recover" => /\ Len(generated') < max_cache_len
                            /\ correction \notin Eos
                            /\ mtp' = AcceptedHistory
  <2> DEFINE over == Len(generated') >= max_cache_len \/ correction \in Eos
  <2>1. /\ over => pc' = "return" /\ mtp' = mtp
        /\ ~over => pc' = "recover" /\ mtp' = AcceptedHistory
    BY DEF Replay
  <2>2. over => Complete(generated', prompt_count, max_new_tokens)
    <3>1. Len(generated') > prompt_count /\ Len(generated') <= max_cache_len
      BY <1>2, <1>3, <1>5
    <3>2. Len(generated') >= max_cache_len =>
            Len(generated') = prompt_count + max_new_tokens
      <4> DEFINE n == Len(generated')
                 m == prompt_count + max_new_tokens
      <4>1. n \in Nat /\ m \in Nat /\ n <= m /\ max_cache_len = m
        BY <1>3, <1>5, <3>1, LenProperties DEF max_cache_len
      <4> HIDE DEF n, m
      <4>2. n >= m => n = m
        BY <4>1
      <4> QED BY <4>1, <4>2 DEF n, m
    <3>3. correction \in Eos => generated'[Len(generated')] \in Eos
      BY <1>6
    <3> QED BY <3>1, <3>2, <3>3 DEF Complete
  <2>3. ~over => Len(generated') < max_cache_len /\ correction \notin Eos
    BY <1>2, <1>3, <1>5
  <2> HIDE DEF over
  <2> QED BY <2>1, <2>2, <2>3
<1>10. AcceptedHistory \in Rows /\ Len(AcceptedHistory) <= Len(generated) + Accepted
  <2>1. /\ Len(checkpoints) = Len(candidates) + 1
        /\ \A k \in 1 .. Len(checkpoints) : Len(checkpoints[k]) = Len(mtp) + k - 1
        /\ Len(mtp) <= Len(generated) /\ checkpoints \in Seq(Rows)
        /\ Len(mtp) \in Nat /\ Len(candidates) \in Nat
    BY <1>1, <1>3, LenProperties
    DEF SpeculativeInv, TypeOK, RoundInv, Rows, InRound
  <2>2. Accepted + 1 \in 1 .. Len(checkpoints)
    BY <1>1, <1>2, <2>1
  <2> DEFINE k == Accepted + 1
  <2>3. checkpoints[k] \in Rows
    BY <2>1, <2>2, ElementOfSeq
  <2>4. Len(checkpoints[k]) = Len(mtp) + k - 1
    BY <2>1, <2>2
  <2>5. AcceptedHistory = checkpoints[k]
    BY DEF AcceptedHistory
  <2>6. Len(mtp) + k - 1 = Len(mtp) + Accepted /\ Len(generated) \in Nat
    BY <1>2, <1>3, <2>1
  <2> HIDE DEF k
  <2> QED BY <1>2, <2>1, <2>3, <2>4, <2>5, <2>6
<1>11. max_cache_len' = max_cache_len
  BY <1>1 DEF max_cache_len, request
<1>12. TypeOK'
  <2>1. counts' \in [DOMAIN ZeroCounts -> Nat]
    <3>1. Rejected \in Nat /\ Len(replay_ids) \in Nat
      BY <1>1, <1>2, <1>3, LenProperties DEF Rejected
    <3> DEFINE events == [accepted |-> Accepted, rejected |-> Rejected,
                          corrections |-> 1, replayed |-> Len(replay_ids)]
    <3>2. \A f \in DOMAIN events : events[f] \in Nat
      BY <1>2, <3>1
    <3>3. counts' = Tally(events)
      BY DEF Replay
    <3> HIDE DEF events
    <3> QED BY <3>2, <3>3, TallyType
  <2>2. caches' \in Caches
    BY <1>5, <1>8 DEF Caches
  <2>3. mtp' \in Rows
    BY <1>9, <1>10 DEF SpeculativeInv, TypeOK
  <2>4. pc' \in {"idle", "prefill", "seed", "head", "propose", "verify", "accept",
                 "recover", "return"}
    BY <1>9
  <2> QED BY <1>1, <1>5, <1>7, <2>1, <2>2, <2>3, <2>4
          DEF SpeculativeInv, TypeOK, request
<1>13. RequestInv'
  <2>1. status' = "running"
    BY <1>1 DEF SpeculativeInv, RequestInv
  <2> QED BY <1>1, <1>2, <1>3, <1>5, <1>9, <1>11, <2>1 DEF RequestInv, InRound, request
<1>14. RoundInv'
  <2>1. pc' = "recover" => Len(mtp') < Len(generated')
    <3> HAVE pc' = "recover"
    <3>1. mtp' = AcceptedHistory /\ Len(mtp') \in Nat
      BY <1>9, <1>10, LenProperties DEF Rows
    <3> QED BY <1>2, <1>3, <1>5, <1>10, <3>1
  <2> QED BY <1>9, <2>1 DEF RoundInv, InRound
<1>15. CacheInv'
  BY <1>8, <1>9 DEF CacheInv, InRound
<1>16. GreedyInv'
  BY <1>1, <1>6, <1>7, <1>9 DEF GreedyInv, InRound, request
<1> QED BY <1>12, <1>13, <1>14, <1>15, <1>16 DEF SpeculativeInv

LEMMA RecoverInv ==
  ASSUME SpeculativeInv, Recover
  PROVE  SpeculativeInv'
<1>1. /\ pc = "recover"
      /\ mtp' = Append(mtp, Row(generated[Len(generated)], Len(caches[1]) - 1))
      /\ next_target' = LastRow(predictions)
      /\ target_hidden' = Len(caches[1])
      /\ pc' = AfterRound(generated)
      /\ UNCHANGED <<request, generated, status, result, caches, scratch,
                     checkpoints, candidates, verification, predictions>>
  BY DEF Recover
<1>2. /\ model \in Model /\ generated \in Seq(Token) /\ Len(generated) \in Nat
      /\ prompt_count \in Nat /\ max_new_tokens \in Nat
      /\ max_cache_len \in Nat
      /\ mtp \in Rows /\ Len(mtp) \in Nat
      /\ predictions \in Seq(Token) /\ predictions # << >>
      /\ GreedyFrom(model, generated, prompt_count)
      /\ LastRow(predictions) = Target(model, generated)
      /\ caches = [s \in Slots |-> generated]
      /\ status = "running"
  <2>1. /\ model \in Model /\ generated \in Seq(Token)
        /\ prompt_count \in Nat /\ max_new_tokens \in Nat
        /\ mtp \in Rows /\ predictions \in Seq(Token)
    BY DEF SpeculativeInv, TypeOK
  <2>2. max_cache_len \in Nat
    BY <2>1 DEF max_cache_len
  <2>3. Len(generated) \in Nat /\ Len(mtp) \in Nat
    BY <2>1, LenProperties DEF Rows
  <2>4. status = "running"
    BY <1>1 DEF SpeculativeInv, RequestInv
  <2>5. /\ GreedyFrom(model, generated, prompt_count)
        /\ predictions # << >> /\ LastRow(predictions) = Target(model, generated)
        /\ caches = [s \in Slots |-> generated]
    BY <1>1 DEF SpeculativeInv, RequestInv, GreedyInv, CacheInv
  <2> QED BY <2>1, <2>2, <2>3, <2>4, <2>5
<1>3. /\ prompt_count >= 1 /\ max_new_tokens >= 1 /\ max_cache_len <= MaxPosition
      /\ prompt_count <= Len(generated) /\ Len(generated) < max_cache_len
      /\ Len(mtp) < Len(generated)
  BY <1>1 DEF SpeculativeInv, RequestInv, RoundInv, InRound
<1>4. generated # << >> /\ Len(generated) \in Nat \ {0}
      /\ generated[Len(generated)] \in Token
  BY <1>2, <1>3, EmptySeq, ElementOfSeq
<1>5. caches[1] = generated
  BY <1>2, SlotAssumption DEF Slots
<1>6. mtp' \in Rows /\ Len(mtp') = Len(mtp) + 1
  <2>1. Row(generated[Len(generated)], Len(caches[1]) - 1) \in [token : Token, hidden : Nat]
    BY <1>4, <1>5 DEF Row
  <2> QED BY <1>1, <1>2, <2>1, AppendProperties DEF Rows
<1>7. LastRow(predictions) \in Token
  BY <1>2, EmptySeq, ElementOfSeq DEF LastRow
<1>8. pc' = "head" /\ generated[Len(generated)] \notin Eos
  <2>1. Len(generated) > prompt_count
    BY <1>1 DEF SpeculativeInv, RequestInv
  <2>2. generated[Len(generated)] \notin Eos
    BY <1>1, <2>1 DEF SpeculativeInv, GreedyInv
  <2> QED BY <1>1, <1>2, <1>3, <2>2 DEF AfterRound
<1>9. TypeOK'
  <2>1. counts' \in [DOMAIN ZeroCounts -> Nat]
    BY TallyType DEF Recover
  <2> QED BY <1>1, <1>4, <1>5, <1>6, <1>7, <1>8, <2>1
          DEF SpeculativeInv, TypeOK, request
<1>10. RequestInv'
  BY <1>1, <1>2, <1>3, <1>8
  DEF SpeculativeInv, RequestInv, InRound, request, max_cache_len
<1>11. RoundInv'
  BY <1>1, <1>2, <1>3, <1>6, <1>7, <1>8 DEF RoundInv, InRound
<1>12. CacheInv'
  BY <1>1, <1>2, <1>8 DEF CacheInv, InRound
<1>13. GreedyInv'
  BY <1>1, <1>2, <1>8 DEF GreedyInv, InRound, request
<1> QED BY <1>9, <1>10, <1>11, <1>12, <1>13 DEF SpeculativeInv

LEMMA ReturnInv ==
  ASSUME SpeculativeInv, Return
  PROVE  SpeculativeInv'
<1>1. result' \in Seq(Token)
  <2>1. generated \in Seq(Token) /\ prompt_count \in Nat /\ Len(generated) \in Nat
    BY LenProperties DEF SpeculativeInv, TypeOK
  <2>2. \A i \in prompt_count + 1 .. Len(generated) : generated[i] \in Token
    BY <2>1, ElementOfSeq
  <2>3. prompt_count + 1 \in Int /\ Len(generated) \in Int
    BY <2>1
  <2> QED BY <2>2, <2>3, SubSeqProperties DEF Return, Suffix
<1>2. TypeOK'
  BY <1>1, EmptyTypes DEF SpeculativeInv, TypeOK, Return, NoLocals, request
<1> QED BY <1>2, IdleInv DEF Return

LEMMA FailureInv ==
  ASSUME SpeculativeInv, Failure \/ FailWithoutHidden
  PROVE  SpeculativeInv'
<1>1. Abort
  BY DEF Failure, FailOnClones, FailWithoutHidden, FailPrefill, FailReplay, FailRecover
<1>2. caches' \in Caches
  <2>1. caches \in Caches /\ generated \in Seq(Token)
    BY DEF SpeculativeInv, TypeOK
  <2>2. CASE FailPrefill
    BY <2>1, <2>2, FailedFacts DEF Caches, FailPrefill
  <2>3. CASE FailReplay
    <3>1. replay_ids \in Seq(Token)
      BY <2>3, ReplayFacts DEF FailReplay
    <3> QED BY <2>1, <2>3, <3>1, FailedFacts DEF Caches, FailReplay
  <2>4. CASE ~FailPrefill /\ ~FailReplay
    BY <2>1, <2>4 DEF Failure, FailOnClones, FailWithoutHidden, FailRecover
  <2> QED BY <2>2, <2>3, <2>4
<1>3. mtp' \in Rows
  <2>1. mtp \in Rows
    BY DEF SpeculativeInv, TypeOK
  <2>2. CASE FailRecover
    <3>1. /\ generated \in Seq(Token) /\ Len(generated) \in Nat
          /\ prompt_count \in Nat
          /\ Len(generated) > prompt_count /\ caches = [s \in Slots |-> generated]
      BY <2>2, LenProperties
      DEF SpeculativeInv, TypeOK, RequestInv, CacheInv, FailRecover
    <3>2. generated[Len(generated)] \in Token
      BY <3>1, ElementOfSeq
    <3>3. caches[1] = generated
      BY <3>1, SlotAssumption DEF Slots
    <3>4. Row(generated[Len(generated)], Len(caches[1]) - 1) \in [token : Token, hidden : Nat]
      BY <3>1, <3>2, <3>3 DEF Row
    <3>5. Append(mtp, Row(generated[Len(generated)], Len(caches[1]) - 1)) \in Rows
      BY <2>1, <3>4, AppendProperties DEF Rows
    <3> QED BY <2>1, <2>2, <3>5 DEF FailRecover
  <2>3. CASE ~FailRecover
    BY <2>1, <2>3 DEF Failure, FailOnClones, FailWithoutHidden, FailPrefill, FailReplay
  <2> QED BY <2>2, <2>3
<1>4. TypeOK'
  BY <1>1, <1>2, <1>3, EmptyTypes
  DEF SpeculativeInv, TypeOK, Abort, NoLocals, request
<1> QED BY <1>1, <1>4, IdleInv DEF Abort

\* Every step keeps the invariant.
LEMMA StepInv == SpeculativeInv /\ [Next]_vars => SpeculativeInv'
<1> SUFFICES ASSUME SpeculativeInv, [Next]_vars PROVE SpeculativeInv'
  OBVIOUS
<1>1. CASE Call
  BY <1>1, GenerateInv, BetweenCallsInv DEF Call
<1>2. CASE Step
  BY <1>2, PrefillInv, SeedMtpInv, LastTokenInv, StartRoundInv, ProposeInv,
     VerifyInv, CommitAllInv, ReplayInv, RecoverInv, ReturnInv, FailureInv DEF Step
<1>3. CASE Failure
  BY <1>3, FailureInv
<1>4. CASE UNCHANGED vars
  BY <1>4, ZenonT(30)
  DEF vars, request, locals, SpeculativeInv, TypeOK, RequestInv, RoundInv,
     CacheInv, GreedyInv, InRound, max_cache_len, Remaining, proposal_count,
     verification_ids
<1> QED BY <1>1, <1>2, <1>3, <1>4 DEF Next

THEOREM SpeculativeInvariant == Spec => []SpeculativeInv
<1>1. Init => SpeculativeInv
  BY InitInv
<1>2. SpeculativeInv /\ [Next]_vars => SpeculativeInv'
  BY StepInv
<1> QED BY <1>1, <1>2, PTL DEF Spec

\* TypeOK holds in every reachable state.
THEOREM SpeculativeTypes == Spec => []TypeOK
<1>1. SpeculativeInv => TypeOK
  BY DEF SpeculativeInv
<1> QED BY <1>1, SpeculativeInvariant, PTL

\* From the prefill on every committed cache of every layer has absorbed the
\* output and nothing else.
THEOREM SpeculativeCaches == Spec => []CachesFollowOutput
<1>1. SpeculativeInv => CachesFollowOutput
  BY DEF SpeculativeInv, CacheInv, CachesFollowOutput, InRound
<1> QED BY <1>1, SpeculativeInvariant, PTL

\* No pass of the call, committed or on clones, exceeds the capacity its
\* caches were sized for.
THEOREM SpeculativeCapacity == Spec => []PassesFit
<1>1. SpeculativeInv => PassesFit
  <2> SUFFICES ASSUME SpeculativeInv PROVE PassesFit
    OBVIOUS
  <2>1. pc = "prefill" => Fits(caches, generated, max_cache_len)
    <3> HAVE pc = "prefill"
    <3> DEFINE e == << >>
    <3>1. caches = [s \in Slots |-> e] /\ Len(e) = 0
      BY EmptySeq DEF SpeculativeInv, CacheInv, EmptyCaches
    <3>2. Len(generated) \in Nat /\ Len(generated) <= max_cache_len
      BY LenProperties DEF SpeculativeInv, TypeOK, RequestInv
    <3> HIDE DEF e
    <3>3. Len(e) + Len(generated) <= max_cache_len
      BY <3>1, <3>2
    <3> QED BY <3>1, <3>3, FitsFacts
  <2>2. pc = "seed" => Len(generated) <= max_cache_len
    BY DEF SpeculativeInv, RequestInv
  <2>3. pc = "propose" => Len(scratch) < max_cache_len
    <3> HAVE pc = "propose"
    <3>1. /\ Len(candidates) \in Nat /\ Len(generated) \in Nat /\ max_cache_len \in Nat
          /\ Len(generated) + Len(candidates) + 1 <= max_cache_len
      BY RoundFacts DEF InRound
    <3>2. /\ Len(scratch) = Len(mtp) + Len(candidates)
          /\ Len(mtp) <= Len(generated) /\ Len(mtp) \in Nat
      BY LenProperties DEF SpeculativeInv, TypeOK, RoundInv, InRound, Rows
    <3> QED BY <3>1, <3>2
  <2>4. pc = "verify" => Fits(caches, verification_ids, max_cache_len)
    <3> HAVE pc = "verify"
    <3>1. /\ Len(candidates) \in Nat /\ Len(generated) \in Nat /\ max_cache_len \in Nat
          /\ Len(generated) + Len(candidates) + 1 <= max_cache_len
          /\ Len(verification_ids) = Len(candidates) + 1
          /\ caches = [s \in Slots |-> generated]
      BY RoundFacts DEF InRound
    <3>2. Len(generated) + Len(verification_ids) <= max_cache_len
      BY <3>1
    <3> QED BY <3>1, <3>2, FitsFacts
  <2>5. pc = "accept" /\ Accepted < Len(candidates) =>
          Fits(caches, replay_ids, max_cache_len)
    <3> HAVE pc = "accept" /\ Accepted < Len(candidates)
    <3>1. /\ Len(replay_ids) = Accepted + 2 /\ Accepted \in Nat
          /\ Len(generated) + Accepted + 2 <= max_cache_len
      BY ReplayFacts
    <3>2. Len(generated) \in Nat /\ max_cache_len \in Nat
          /\ caches = [s \in Slots |-> generated]
      BY RoundFacts DEF InRound
    <3>3. Len(generated) + Len(replay_ids) <= max_cache_len
      BY <3>1, <3>2
    <3> QED BY <3>2, <3>3, FitsFacts
  <2>6. pc = "recover" => Len(mtp) < max_cache_len
    <3> HAVE pc = "recover"
    <3>1. /\ Len(mtp) \in Nat /\ Len(generated) \in Nat /\ max_cache_len \in Nat
          /\ Len(mtp) < Len(generated) /\ Len(generated) < max_cache_len
      BY LenProperties DEF SpeculativeInv, TypeOK, RequestInv, RoundInv, Rows,
                           InRound, max_cache_len
    <3> QED BY <3>1
  <2> QED BY <2>1, <2>2, <2>3, <2>4, <2>5, <2>6 DEF PassesFit
<1> QED BY <1>1, SpeculativeInvariant, PTL

-----------------------------------------------------------------------------
\* The refinement. Tokens are decided by LastToken, CommitAll and Replay, each
\* of which emits at least one; the other steps of a call are invisible.

LEMMA GreedyInit == Init => Greedy!Init
BY DEF Init, Greedy!Init

LEMMA EmitFacts ==
  ASSUME SpeculativeInv, pc # "idle", NEW ids \in Seq(Token), ids # << >>,
         generated' = generated \o ids,
         SpeculativeInv', pc' # "idle",
         UNCHANGED <<request, status, result>>
  PROVE  Greedy!Emit
<1>1. generated \in Seq(Token) /\ Len(generated) \in Nat
      /\ Len(ids) \in Nat \ {0} /\ status = "running"
  BY LenProperties, EmptySeq DEF SpeculativeInv, TypeOK, RequestInv
<1>2. Len(generated') > Len(generated)
  BY <1>1, ConcatProperties
<1>3. Extends(generated, generated')
  BY <1>1, ExtendsConcat
<1>4. GreedyFrom(model, generated', prompt_count)
      /\ Len(generated') <= prompt_count + max_new_tokens
  BY DEF SpeculativeInv, GreedyInv, RequestInv, request, max_cache_len
<1> QED BY <1>1, <1>2, <1>3, <1>4
        DEF Greedy!Emit, Greedy!Extends, Greedy!Prefix, Greedy!GreedyFrom,
            Extends, Prefix, GreedyFrom, request

LEMMA StepRefines == SpeculativeInv /\ [Next]_vars => [Greedy!Next]_(Greedy!greedyVars)
<1> SUFFICES ASSUME SpeculativeInv, [Next]_vars,
                    Greedy!greedyVars' # Greedy!greedyVars
             PROVE  Greedy!Next
  OBVIOUS
<1>1. SpeculativeInv'
  BY StepInv
<1>2. pc # "idle" <=> status = "running"
  BY DEF SpeculativeInv, RequestInv
<1>3. ASSUME NEW p \in Prompts, NEW n \in Budgets, Generate(p, n)
      PROVE  Greedy!Next
  <2>1. CASE Len(p) + n > MaxPosition
    BY <1>2, <1>3, <2>1 DEF Generate, Greedy!Next, Greedy!Refuse
  <2>2. CASE ~(Len(p) + n > MaxPosition)
    <3>1. Greedy!Begin(p, n)
      BY <1>2, <1>3, <2>2 DEF Generate, Greedy!Begin
    <3> QED BY <3>1 DEF Greedy!Next
  <2> QED BY <2>1, <2>2
<1>4. CASE Reject
  BY <1>2, <1>4 DEF Reject, request, Greedy!Next, Greedy!Refuse
<1>5. CASE LastToken
  <2> DEFINE ids == <<next_target>>
  <2>1. generated \in Seq(Token) /\ next_target \in Token
    BY <1>5 DEF SpeculativeInv, TypeOK, RoundInv, LastToken
  <2>2. ids \in Seq(Token) /\ ids # << >> /\ generated' = generated \o ids
    BY <1>5, <2>1, AppendIsConcat DEF LastToken
  <2>3. pc # "idle" /\ pc' # "idle" /\ UNCHANGED <<request, status, result>>
    BY <1>5 DEF LastToken
  <2> HIDE DEF ids
  <2> QED BY <1>1, <2>2, <2>3, EmitFacts DEF Greedy!Next
<1>6. CASE CommitAll
  <2>1. generated' = generated \o verification_ids
        /\ verification_ids \in Seq(Token) /\ verification_ids # << >>
    BY <1>6, RoundFacts DEF CommitAll, InRound
  <2>2. pc # "idle" /\ pc' # "idle" /\ UNCHANGED <<request, status, result>>
    BY <1>6 DEF CommitAll, AfterRound
  <2> QED BY <1>1, <2>1, <2>2, EmitFacts DEF Greedy!Next
<1>7. CASE Replay
  <2>1. generated' = generated \o replay_ids
        /\ replay_ids \in Seq(Token) /\ replay_ids # << >>
    BY <1>7, ReplayFacts DEF Replay
  <2>2. pc # "idle" /\ pc' # "idle" /\ UNCHANGED <<request, status, result>>
    BY <1>7 DEF Replay
  <2> QED BY <1>1, <2>1, <2>2, EmitFacts DEF Greedy!Next
<1>8. CASE Return
  <2>1. Complete(generated, prompt_count, max_new_tokens) /\ status = "running"
    BY <1>8 DEF SpeculativeInv, GreedyInv, RequestInv, Return
  <2> QED BY <1>8, <2>1
          DEF Return, request, Complete, Suffix,
              Greedy!Next, Greedy!Finish, Greedy!Complete, Greedy!Suffix
<1>9. CASE Failure \/ FailWithoutHidden
  <2>1. Abort /\ status = "running"
    BY <1>2, <1>9 DEF Failure, FailOnClones, FailWithoutHidden, FailPrefill,
                      FailReplay, FailRecover
  <2> QED BY <2>1 DEF Abort, request, Greedy!Next, Greedy!Fail
<1>10. ASSUME \/ Reset \/ Prefill \/ SeedMtp \/ StartRound
              \/ \E t \in Token : Propose(t)
              \/ Verify \/ Recover \/ UNCHANGED vars
       PROVE  FALSE
  BY <1>10 DEF Reset, Prefill, SeedMtp, StartRound, Propose, Verify, Recover, vars,
               request, Greedy!greedyVars
<1> QED BY <1>3, <1>4, <1>5, <1>6, <1>7, <1>8, <1>9, <1>10 DEF Next, Call, Step

\* Speculation is invisible in the output: generate() implements greedy
\* decoding, whatever the MTP head proposes and whichever backend call fails.
THEOREM SpeculationIsGreedy == Spec => RefinesGreedy
<1>1. Init => Greedy!Init
  BY GreedyInit
<1>2. SpeculativeInv /\ [Next]_vars => [Greedy!Next]_(Greedy!greedyVars)
  BY StepRefines
<1> QED BY <1>1, <1>2, SpeculativeInvariant, PTL DEF Spec, RefinesGreedy, Greedy!Spec

-----------------------------------------------------------------------------
\* The statistics. Inside a round they run ahead of the output: a round that
\* has begun has produced nothing yet, a proposed candidate is neither
\* accepted nor rejected, and a correction is not recovered.

\* The length the statistics give the output.
Decided == prompt_count + counts.rounds + counts.accepted + counts.corrections

CountsInv ==
  /\ pc \in {"prefill", "seed"} => counts = ZeroCounts
  /\ pc \in {"head", "recover", "return"} \cup InRound =>
       counts.mtpClones = 2 * counts.rounds + counts.proposed
  /\ pc \in {"head", "recover", "return"} =>
       /\ counts.proposed = counts.accepted + counts.rejected
       /\ counts.targetClones = counts.rounds
       /\ counts.corrections <= counts.rounds
  /\ pc \in {"head", "recover"} => Len(generated) = Decided
  /\ pc = "return" => Len(generated) = Decided \/ Len(generated) = Decided + 1
  /\ pc = "head" => counts.recovered = counts.corrections
  /\ pc = "recover" => counts.recovered + 1 = counts.corrections
  /\ pc \in InRound =>
       /\ counts.proposed =
            counts.accepted + counts.rejected + Len(candidates)
       /\ counts.targetClones + (IF pc = "accept" THEN 0 ELSE 1) = counts.rounds
       /\ counts.corrections + 1 <= counts.rounds
       /\ counts.recovered = counts.corrections
       /\ Len(generated) + 1 = Decided

LEMMA CountNames ==
  DOMAIN ZeroCounts = {"proposed", "accepted", "rejected", "corrections",
                       "replayed", "rounds", "recovered", "mtpClones",
                       "targetClones"}
BY SMTT(30) DEF ZeroCounts

\* The counters as numbers, and the length of the output.
LEMMA CountTypes ==
  ASSUME SpeculativeInv
  PROVE  /\ counts.proposed \in Nat /\ counts.accepted \in Nat
         /\ counts.rejected \in Nat /\ counts.corrections \in Nat
         /\ counts.rounds \in Nat /\ counts.recovered \in Nat
         /\ counts.mtpClones \in Nat /\ counts.targetClones \in Nat
         /\ Len(generated) \in Nat /\ prompt_count \in Nat
         /\ Len(candidates) \in Nat /\ Decided \in Nat
<1>1. /\ counts.proposed \in Nat /\ counts.accepted \in Nat
      /\ counts.rejected \in Nat /\ counts.corrections \in Nat
      /\ counts.rounds \in Nat /\ counts.recovered \in Nat
      /\ counts.mtpClones \in Nat /\ counts.targetClones \in Nat
      /\ Len(generated) \in Nat /\ prompt_count \in Nat
      /\ Len(candidates) \in Nat
  BY CountNames, LenProperties DEF SpeculativeInv, TypeOK
<1> DEFINE p == prompt_count
           r == counts.rounds
           a == counts.accepted
           c == counts.corrections
<1>2. p + r + a + c \in Nat
  <2>1. p \in Nat /\ r \in Nat /\ a \in Nat /\ c \in Nat
    BY <1>1
  <2> HIDE DEF p, r, a, c
  <2> QED BY <2>1
<1> QED BY <1>1, <1>2 DEF Decided

LEMMA CountsStep ==
  ASSUME SpeculativeInv, SpeculativeInv', CountsInv, [Next]_vars
  PROVE  CountsInv'
<1>0. /\ counts.proposed \in Nat /\ counts.accepted \in Nat
      /\ counts.rejected \in Nat /\ counts.corrections \in Nat
      /\ counts.rounds \in Nat /\ counts.recovered \in Nat
      /\ counts.mtpClones \in Nat /\ counts.targetClones \in Nat
      /\ Len(generated) \in Nat /\ prompt_count \in Nat
      /\ Len(candidates) \in Nat
  BY CountTypes
<1>d. Decided \in Nat
  BY CountTypes
<1>1. CASE pc' = "idle"
  BY <1>1 DEF CountsInv, InRound
<1>2. ASSUME NEW p \in Prompts, NEW n \in Budgets, Generate(p, n)
      PROVE  CountsInv'
  BY <1>2 DEF Generate, CountsInv, InRound
<1>3. CASE Prefill
  BY <1>3 DEF Prefill, CountsInv, InRound
<1>4. CASE SeedMtp
  <2>1. /\ pc' = "head" /\ counts' = ZeroCounts
    BY <1>4 DEF SeedMtp, CountsInv
  <2>2. /\ Len(generated') = prompt_count' /\ prompt_count' \in Nat
    BY <1>4 DEF SeedMtp, SpeculativeInv, RequestInv, TypeOK, request
  <2>3. Len(generated') = Decided'
    <3>1. /\ counts'.rounds = 0 /\ counts'.accepted = 0
          /\ counts'.corrections = 0
      BY <2>1 DEF ZeroCounts
    <3>2. prompt_count' \in Nat
      BY <2>2
    <3>3. Decided' = prompt_count'
      <4> DEFINE p == prompt_count'
      <4>1. Decided' = p + 0 + 0 + 0
        BY <3>1 DEF Decided
      <4>2. p + 0 + 0 + 0 = p
        <5>1. p \in Nat
          BY <3>2
        <5> HIDE DEF p
        <5> QED BY <5>1
      <4> QED BY <4>1, <4>2
    <3> QED BY <2>2, <3>3
  <2> QED BY <1>0, <1>d, <2>1, <2>3 DEF CountsInv, InRound, ZeroCounts
<1>5. CASE LastToken
  <2>1. Len(generated') = Len(generated) + 1
    BY <1>5, AppendProperties DEF LastToken, SpeculativeInv, TypeOK, RoundInv
  <2>2. /\ pc = "head" /\ pc' = "return" /\ counts' = counts
    BY <1>5 DEF LastToken
  <2>3. Decided' = Decided
    BY <1>5 DEF LastToken, request, Decided
  <2> QED BY <1>0, <1>d, <2>1, <2>2, <2>3 DEF CountsInv, InRound
<1>6. CASE StartRound
  <2>1. /\ counts'.rounds = counts.rounds + 1
        /\ counts'.mtpClones = counts.mtpClones + 2
        /\ counts'.proposed = counts.proposed /\ counts'.accepted = counts.accepted
        /\ counts'.rejected = counts.rejected
        /\ counts'.corrections = counts.corrections
        /\ counts'.recovered = counts.recovered
        /\ counts'.targetClones = counts.targetClones
    BY <1>6, CountNames, SMTT(30) DEF Tally, SpeculativeInv, TypeOK, StartRound
  <2>2. /\ pc = "head" /\ pc' = "propose" /\ generated' = generated
        /\ Len(candidates') = 0 /\ prompt_count' = prompt_count
    BY <1>6, EmptySeq DEF StartRound, request
  <2>3. Decided' = Decided + 1
    <3> DEFINE p == prompt_count
               r == counts.rounds
               a == counts.accepted
               c == counts.corrections
    <3>1. /\ p \in Nat /\ r \in Nat /\ a \in Nat /\ c \in Nat
          /\ Decided = p + r + a + c
          /\ Decided' = p + (r + 1) + a + c
      BY <1>0, <2>1, <2>2 DEF Decided
    <3>2. p + (r + 1) + a + c = p + r + a + c + 1
      <4> HIDE DEF p, r, a, c
      <4> QED BY <3>1
    <3> QED BY <3>1, <3>2
  <2>4. /\ counts.mtpClones = 2 * counts.rounds + counts.proposed
        /\ counts.proposed = counts.accepted + counts.rejected
        /\ counts.targetClones = counts.rounds
        /\ counts.corrections <= counts.rounds
        /\ Len(generated) = Decided
        /\ counts.recovered = counts.corrections
    BY <2>2 DEF CountsInv
  <2>5. /\ counts'.mtpClones = 2 * counts'.rounds + counts'.proposed
        /\ counts'.proposed =
             counts'.accepted + counts'.rejected + Len(candidates')
    <3> DEFINE m == counts.mtpClones
               r == counts.rounds
               p == counts.proposed
               a == counts.accepted
               x == counts.rejected
    <3>1. /\ m \in Nat /\ r \in Nat /\ p \in Nat
          /\ a \in Nat /\ x \in Nat
          /\ m = 2 * r + p /\ p = a + x
      BY <1>0, <2>4
    <3>2. m + 2 = 2 * (r + 1) + p /\ p = a + x + 0
      <4> HIDE DEF m, r, p, a, x
      <4> QED BY <3>1
    <3> QED BY <3>2, <2>1, <2>2
  <2>6. /\ counts'.targetClones + 1 = counts'.rounds
        /\ counts'.corrections + 1 <= counts'.rounds
        /\ counts'.recovered = counts'.corrections
    BY <1>0, <2>1, <2>4
  <2>7. Len(generated') + 1 = Decided'
    BY <1>0, <1>d, <2>2, <2>3, <2>4
  <2> QED BY <2>2, <2>5, <2>6, <2>7 DEF CountsInv, InRound
<1>7. ASSUME NEW t \in Token, Propose(t) PROVE CountsInv'
  <2>1. /\ counts'.proposed = counts.proposed + 1
        /\ counts'.mtpClones = counts.mtpClones + 1
        /\ counts'.rounds = counts.rounds /\ counts'.accepted = counts.accepted
        /\ counts'.rejected = counts.rejected
        /\ counts'.corrections = counts.corrections
        /\ counts'.recovered = counts.recovered
        /\ counts'.targetClones = counts.targetClones
    BY <1>7, CountNames, SMTT(30) DEF Tally, SpeculativeInv, TypeOK, Propose
  <2>2. Len(candidates') = Len(candidates) + 1
    BY <1>7, AppendProperties DEF Propose, SpeculativeInv, TypeOK
  <2>3. /\ pc = "propose" /\ pc' \in {"propose", "verify"}
        /\ generated' = generated /\ prompt_count' = prompt_count
    BY <1>7 DEF Propose, request
  <2>4. Decided' = Decided
    BY <1>0, <2>1, <2>3 DEF Decided
  <2>5. /\ counts.mtpClones = 2 * counts.rounds + counts.proposed
        /\ counts.proposed =
             counts.accepted + counts.rejected + Len(candidates)
        /\ counts.targetClones + 1 = counts.rounds
        /\ counts.corrections + 1 <= counts.rounds
        /\ counts.recovered = counts.corrections
        /\ Len(generated) + 1 = Decided
    BY <2>3 DEF CountsInv, InRound
  <2>6. /\ counts'.mtpClones = 2 * counts'.rounds + counts'.proposed
        /\ counts'.proposed =
             counts'.accepted + counts'.rejected + Len(candidates')
    <3> DEFINE m == counts.mtpClones
               r == counts.rounds
               p == counts.proposed
               a == counts.accepted
               x == counts.rejected
               n == Len(candidates)
    <3>1. /\ m \in Nat /\ r \in Nat /\ p \in Nat
          /\ a \in Nat /\ x \in Nat /\ n \in Nat
          /\ m = 2 * r + p /\ p = a + x + n
      BY <1>0, <2>5
    <3>2. /\ m + 1 = 2 * r + (p + 1)
          /\ p + 1 = a + x + (n + 1)
      <4> HIDE DEF m, r, p, a, x, n
      <4> QED BY <3>1
    <3> QED BY <3>2, <2>1, <2>2
  <2>7. /\ counts'.targetClones + 1 = counts'.rounds
        /\ counts'.corrections + 1 <= counts'.rounds
        /\ counts'.recovered = counts'.corrections
    BY <2>1, <2>5
  <2>8. Len(generated') + 1 = Decided'
    BY <2>3, <2>4, <2>5
  <2> QED BY <2>3, <2>6, <2>7, <2>8 DEF CountsInv, InRound
<1>8. CASE Verify
  <2>1. /\ counts'.targetClones = counts.targetClones + 1
        /\ counts'.mtpClones = counts.mtpClones
        /\ counts'.proposed = counts.proposed /\ counts'.accepted = counts.accepted
        /\ counts'.rejected = counts.rejected
        /\ counts'.corrections = counts.corrections
        /\ counts'.recovered = counts.recovered
        /\ counts'.rounds = counts.rounds
    BY <1>8, CountNames, SMTT(30) DEF Tally, SpeculativeInv, TypeOK, Verify
  <2>2. /\ pc = "verify" /\ pc' = "accept" /\ generated' = generated
        /\ prompt_count' = prompt_count /\ candidates' = candidates
    BY <1>8 DEF Verify, request
  <2>3. Decided' = Decided
    BY <1>0, <2>1, <2>2 DEF Decided
  <2>4. /\ counts.mtpClones = 2 * counts.rounds + counts.proposed
        /\ counts.proposed = counts.accepted + counts.rejected + Len(candidates)
        /\ counts.targetClones + 1 = counts.rounds
        /\ counts.corrections + 1 <= counts.rounds
        /\ counts.recovered = counts.corrections
        /\ Len(generated) + 1 = Decided
    BY <2>2 DEF CountsInv, InRound
  <2>5. counts'.targetClones = counts'.rounds /\ counts'.targetClones + 0 = counts'.rounds
    <3> DEFINE n == counts.rounds
    <3>1. n \in Nat /\ counts'.rounds = n /\ counts'.targetClones = n
      BY <1>0, <2>1, <2>4
    <3> HIDE DEF n
    <3>2. n + 0 = n
      BY <3>1
    <3> QED BY <3>1, <3>2
  <2>6. /\ counts'.mtpClones = 2 * counts'.rounds + counts'.proposed
        /\ counts'.proposed = counts'.accepted + counts'.rejected + Len(candidates')
        /\ counts'.corrections + 1 <= counts'.rounds
        /\ counts'.recovered = counts'.corrections
        /\ Len(generated') + 1 = Decided'
    BY <2>1, <2>2, <2>3, <2>4
  <2> QED BY <2>2, <2>5, <2>6 DEF CountsInv, InRound
<1>9. CASE CommitAll
  <2>1. /\ counts'.accepted = counts.accepted + Len(candidates)
        /\ counts'.mtpClones = counts.mtpClones
        /\ counts'.proposed = counts.proposed
        /\ counts'.rejected = counts.rejected
        /\ counts'.corrections = counts.corrections
        /\ counts'.recovered = counts.recovered
        /\ counts'.rounds = counts.rounds
        /\ counts'.targetClones = counts.targetClones
    <3>1. counts' = Tally([accepted |-> Len(candidates)])
      BY <1>9 DEF CommitAll
    <3>2. counts \in [DOMAIN ZeroCounts -> Nat]
      BY DEF SpeculativeInv, TypeOK
    <3> QED BY <1>0, <3>1, <3>2, CountNames, SMTT(30) DEF Tally
  <2>2. Len(generated') = Len(generated) + Len(candidates) + 1
    <3>1. /\ generated \in Seq(Token) /\ verification_ids \in Seq(Token)
          /\ Len(verification_ids) = Len(candidates) + 1
      BY <1>9, RoundFacts DEF CommitAll, InRound
    <3>2. Len(generated') = Len(generated) + Len(verification_ids)
      BY <1>9, <3>1, ConcatProperties DEF CommitAll
    <3> QED BY <1>0, <3>1, <3>2
  <2>3. /\ pc = "accept" /\ pc' \in {"head", "return"}
        /\ prompt_count' = prompt_count
    BY <1>9 DEF CommitAll, AfterRound, request
  <2>4. Decided' = Decided + Len(candidates)
    <3> DEFINE p == prompt_count
               r == counts.rounds
               a == counts.accepted
               c == counts.corrections
               n == Len(candidates)
    <3>1. /\ p \in Nat /\ r \in Nat /\ a \in Nat /\ c \in Nat /\ n \in Nat
          /\ Decided = p + r + a + c
          /\ Decided' = p + r + (a + n) + c
      BY <1>0, <2>1, <2>3 DEF Decided
    <3>2. p + r + (a + n) + c = p + r + a + c + n
      <4> HIDE DEF p, r, a, c, n
      <4> QED BY <3>1
    <3> QED BY <3>1, <3>2
  <2>5. /\ counts.mtpClones = 2 * counts.rounds + counts.proposed
        /\ counts.proposed =
             counts.accepted + counts.rejected + Len(candidates)
        /\ counts.targetClones = counts.rounds
        /\ counts.corrections + 1 <= counts.rounds
        /\ counts.recovered = counts.corrections
        /\ Len(generated) + 1 = Decided
    BY <1>0, <2>3 DEF CountsInv, InRound
  <2>6. /\ counts'.mtpClones = 2 * counts'.rounds + counts'.proposed
        /\ counts'.proposed = counts'.accepted + counts'.rejected
    BY <1>0, <2>1, <2>5
  <2>7. /\ counts'.targetClones = counts'.rounds
        /\ counts'.corrections <= counts'.rounds
        /\ counts'.recovered = counts'.corrections
    BY <1>0, <2>1, <2>5
  <2>8. Len(generated') = Decided'
    <3> DEFINE g == Len(generated)
               g1 == Len(generated')
               n == Len(candidates)
    <3>1. /\ g \in Nat /\ n \in Nat /\ Decided = g + 1
          /\ g1 = g + n + 1 /\ Decided' = Decided + n
      BY <1>0, <2>2, <2>4, <2>5
    <3> HIDE DEF g, g1, n
    <3>2. g1 = Decided'
      BY <3>1
    <3> QED BY <3>2 DEF g1
  <2> QED BY <2>3, <2>6, <2>7, <2>8 DEF CountsInv, InRound
<1>10. CASE Replay
  <2>1. /\ Accepted \in Nat /\ Accepted < Len(candidates)
        /\ Len(replay_ids) = Accepted + 2
    BY <1>10, ReplayFacts DEF Replay
  <2>2. /\ counts'.accepted = counts.accepted + Accepted
        /\ counts'.rejected = counts.rejected + (Len(candidates) - Accepted)
        /\ counts'.corrections = counts.corrections + 1
        /\ counts'.mtpClones = counts.mtpClones
        /\ counts'.proposed = counts.proposed
        /\ counts'.recovered = counts.recovered
        /\ counts'.rounds = counts.rounds
        /\ counts'.targetClones = counts.targetClones
    BY <1>10, CountNames, SMTT(30) DEF Tally, SpeculativeInv, TypeOK, Replay, Rejected
  <2>3. Len(generated') = Len(generated) + Accepted + 2
    <3>1. /\ generated \in Seq(Token) /\ replay_ids \in Seq(Token)
          /\ generated' = generated \o replay_ids
      BY <1>10, ReplayFacts DEF Replay, SpeculativeInv, TypeOK
    <3>2. Len(generated') = Len(generated) + Len(replay_ids)
      BY <3>1, ConcatProperties
    <3> QED BY <1>0, <2>1, <3>2
  <2>4. /\ pc = "accept" /\ pc' \in {"recover", "return"}
        /\ prompt_count' = prompt_count
    BY <1>10 DEF Replay, request
  <2>5. Decided' = Decided + Accepted + 1
    <3> DEFINE n == Accepted
    <3>1. /\ n \in Nat /\ counts'.accepted = counts.accepted + n
          /\ counts'.corrections = counts.corrections + 1
          /\ counts'.rounds = counts.rounds /\ prompt_count' = prompt_count
      BY <2>1, <2>2, <2>4
    <3> DEFINE p == prompt_count
               r == counts.rounds
               a == counts.accepted
               c == counts.corrections
    <3>2. /\ p \in Nat /\ r \in Nat /\ a \in Nat /\ c \in Nat
          /\ Decided = p + r + a + c
          /\ Decided' = p + r + (a + n) + (c + 1)
      BY <1>0, <3>1 DEF Decided
    <3>3. Decided' = Decided + n + 1
      <4> HIDE DEF n, p, r, a, c
      <4> QED BY <3>1, <3>2
    <3> QED BY <3>3
  <2>6. /\ counts.mtpClones = 2 * counts.rounds + counts.proposed
        /\ counts.proposed =
             counts.accepted + counts.rejected + Len(candidates)
        /\ counts.targetClones = counts.rounds
        /\ counts.corrections + 1 <= counts.rounds
        /\ counts.recovered = counts.corrections
        /\ Len(generated) + 1 = Decided
    BY <1>0, <2>4 DEF CountsInv, InRound
  <2>7. /\ counts'.mtpClones = 2 * counts'.rounds + counts'.proposed
        /\ counts'.proposed = counts'.accepted + counts'.rejected
    <3> DEFINE a == counts.accepted
               x == counts.rejected
               n == Accepted
               l == Len(candidates)
    <3>1. a \in Nat /\ x \in Nat /\ n \in Nat /\ l \in Nat
      BY <1>0, <2>1
    <3>2. counts'.accepted + counts'.rejected = (a + n) + (x + (l - n))
      BY <2>2
    <3>3. counts'.proposed = a + x + l
      BY <2>2, <2>6
    <3>4. (a + n) + (x + (l - n)) = a + x + l
      <4> HIDE DEF a, x, n, l
      <4> QED BY <3>1
    <3>5. counts'.mtpClones = 2 * counts'.rounds + counts'.proposed
      BY <2>2, <2>6
    <3> QED BY <3>2, <3>3, <3>4, <3>5
  <2>8. /\ counts'.targetClones = counts'.rounds
        /\ counts'.corrections <= counts'.rounds
        /\ counts'.recovered + 1 = counts'.corrections
    BY <1>0, <2>2, <2>6
  <2>9. Len(generated') = Decided'
    <3> DEFINE g == Len(generated)
               g1 == Len(generated')
               n == Accepted
    <3>1. /\ g \in Nat /\ n \in Nat /\ Decided = g + 1
          /\ g1 = g + n + 2 /\ Decided' = Decided + n + 1
      BY <1>0, <2>1, <2>3, <2>5, <2>6
    <3> HIDE DEF g, g1, n
    <3>2. g1 = Decided'
      BY <3>1
    <3> QED BY <3>2 DEF g1
  <2> QED BY <2>4, <2>7, <2>8, <2>9 DEF CountsInv, InRound
<1>11. CASE Recover
  <2>1. /\ counts'.recovered = counts.recovered + 1
        /\ counts'.accepted = counts.accepted
        /\ counts'.mtpClones = counts.mtpClones
        /\ counts'.proposed = counts.proposed
        /\ counts'.rejected = counts.rejected
        /\ counts'.corrections = counts.corrections
        /\ counts'.rounds = counts.rounds
        /\ counts'.targetClones = counts.targetClones
    BY <1>11, CountNames, SMTT(30) DEF Tally, SpeculativeInv, TypeOK, Recover
  <2>2. /\ pc = "recover" /\ pc' \in {"head", "return"}
        /\ generated' = generated /\ prompt_count' = prompt_count
    BY <1>11 DEF Recover, AfterRound, request
  <2>3. Decided' = Decided
    BY <1>0, <2>1, <2>2 DEF Decided
  <2> QED BY <1>0, <1>d, <2>1, <2>2, <2>3 DEF CountsInv, InRound
<1>12. CASE UNCHANGED vars
  BY <1>12 DEF vars, request, locals, CountsInv, InRound, Decided
<1>13. Reject \/ Reset \/ Return \/ Failure \/ FailWithoutHidden => pc' = "idle"
  BY DEF Reject, Reset, Return, Failure, FailOnClones, FailWithoutHidden,
         FailPrefill, FailReplay, FailRecover, Abort
<1> QED BY <1>1, <1>2, <1>3, <1>4, <1>5, <1>6, <1>7, <1>8, <1>9, <1>10, <1>11,
           <1>12, <1>13 DEF Next, Call, Step

\* The statistics of every call add up.
THEOREM SpeculativeCounts == Spec => []CountsBalance
<1>1. Init => CountsInv
  BY DEF Init, CountsInv, InRound
<1>2. SpeculativeInv /\ SpeculativeInv' /\ CountsInv /\ [Next]_vars => CountsInv'
  BY CountsStep
<1>3. SpeculativeInv /\ CountsInv => CountsBalance
  <2> SUFFICES ASSUME SpeculativeInv, CountsInv, pc \in {"head", "return"}
               PROVE  CountsBalance
    BY DEF CountsBalance
  <2> DEFINE d == counts.rounds + counts.accepted + counts.corrections
  <2>1. /\ Len(generated) \in Nat /\ prompt_count \in Nat /\ d \in Nat
        /\ Decided = prompt_count + d
    <3> DEFINE p == prompt_count
               r == counts.rounds
               a == counts.accepted
               c == counts.corrections
    <3>1. /\ Len(generated) \in Nat
          /\ p \in Nat /\ r \in Nat /\ a \in Nat /\ c \in Nat
      BY CountTypes
    <3>2. Decided = p + r + a + c
      BY DEF Decided
    <3>3. r + a + c \in Nat /\ p + r + a + c = p + (r + a + c)
      <4> HIDE DEF p, r, a, c
      <4> QED BY <3>1
    <3> QED BY <3>1, <3>2, <3>3
  <2>2. /\ pc = "head" => Len(generated) = Decided
        /\ Len(generated) = Decided \/ Len(generated) = Decided + 1
    BY DEF CountsInv
  <2>3. /\ pc = "head" => Len(generated) - prompt_count = d
        /\ Len(generated) - prompt_count \in {d + k : k \in {0, 1}}
    <3> HIDE DEF d
    <3> QED BY <2>1, <2>2
  <2> QED BY <2>3 DEF CountsInv, CountsBalance
<1> QED BY <1>1, <1>2, <1>3, SpeculativeInvariant, PTL DEF Spec

-----------------------------------------------------------------------------
(* The MTP history holds rows of committed tokens only, each at the place  *)
(* its hidden row calls for, whatever was proposed, refuted, replayed and  *)
(* recovered before. Its inductive invariant:                              *)

\* Row i of history m was absorbed at its place in the output g: it descends
\* through drafted rows from a row paired with a target hidden row.
Follows(m, g, p, i) ==
  \E b \in p + 1 .. i :
    /\ m[b].hidden # Draft
    /\ \A k \in b + 1 .. i : m[k].hidden = Draft
    /\ m[b].hidden + 1 + (i - b) \in 1 .. Len(g)
    /\ m[i].token = g[m[b].hidden + 1 + (i - b)]

\* History m holds the p prompt rows of output g, then rows that follow it.
History(m, g, p) ==
  /\ p <= Len(m)
  /\ \A i \in 1 .. p : m[i] = Row(g[i], i)
  /\ \A i \in p + 1 .. Len(m) : Follows(m, g, p, i)

\* History h is m and one row for each of the first n tokens of ids: the
\* first paired with the hidden row of output g, the others drafted.
Drafts(h, m, g, ids, n) ==
  /\ Len(h) = Len(m) + n
  /\ \A i \in 1 .. Len(m) : h[i] = m[i]
  /\ \A j \in 1 .. n : h[Len(m) + j].token = ids[j]
  /\ n > 0 => h[Len(m) + 1].hidden = Len(g)
  /\ \A j \in 2 .. n : h[Len(m) + j].hidden = Draft

\* The history is one row short for every round that has ended.
RoundsInv ==
  /\ pc \in {"prefill", "seed"} => counts.rounds = 0
  /\ pc = "head" => Len(mtp) + counts.rounds = Len(generated)
  /\ pc \in InRound => Len(mtp) + counts.rounds = Len(generated) + 1
  /\ pc = "recover" => Len(mtp) + counts.rounds + 1 = Len(generated)

\* The hidden row handed to the MTP head is the one of the last token.
HiddenInv ==
  /\ pc \in {"seed", "head"} \cup InRound =>
       target_hidden \in {Len(generated), NoHidden}
  /\ pc \in InRound /\ Len(candidates) > 0 => target_hidden = Len(generated)

\* The history is committed, the scratch cache adds a row for next_target and
\* for every candidate but the last, and each checkpoint is a prefix of it.
RowsInv ==
  /\ pc \in {"head", "recover"} \cup InRound =>
       History(mtp, generated, prompt_count)
  /\ pc \in InRound =>
       \A k \in 0 .. Len(candidates) :
         Drafts(checkpoints[k + 1], mtp, generated, verification_ids, k)
  /\ pc \in InRound => scratch = checkpoints[Len(candidates) + 1]

HistoryInv == RoundsInv /\ HiddenInv /\ RowsInv

-----------------------------------------------------------------------------
\* Histories grow in two ways: by the rows of a proposal that was accepted,
\* and by the recovery row of a correction.

LEMMA FollowsKept ==
  ASSUME NEW m \in Rows, NEW h \in Rows, NEW g \in Seq(Token), NEW f \in Seq(Token),
         NEW p \in Nat, NEW i \in p + 1 .. Len(m), Follows(m, g, p, i),
         \A k \in 1 .. Len(m) : h[k] = m[k],
         Len(g) <= Len(f), \A k \in 1 .. Len(g) : f[k] = g[k]
  PROVE  Follows(h, f, p, i)
<1>1. Len(m) \in Nat /\ Len(g) \in Nat /\ Len(f) \in Nat
  BY LenProperties DEF Rows
<1>2. PICK b \in p + 1 .. i :
        /\ m[b].hidden # Draft
        /\ \A k \in b + 1 .. i : m[k].hidden = Draft
        /\ m[b].hidden + 1 + (i - b) \in 1 .. Len(g)
        /\ m[i].token = g[m[b].hidden + 1 + (i - b)]
  BY DEF Follows
<1>3. h[i] = m[i] /\ h[b] = m[b] /\ \A k \in b + 1 .. i : h[k] = m[k]
  BY <1>1
<1>4. m[b].hidden + 1 + (i - b) \in 1 .. Len(f)
      /\ f[m[b].hidden + 1 + (i - b)] = g[m[b].hidden + 1 + (i - b)]
  BY <1>1, <1>2
<1> QED
  BY <1>2, <1>3, <1>4 DEF Follows

LEMMA DraftedHistory ==
  ASSUME NEW m \in Rows, NEW h \in Rows, NEW g \in Seq(Token), NEW ids \in Seq(Token),
         NEW p \in Nat, NEW n \in 0 .. Len(ids), p <= Len(g), g # << >>,
         History(m, g, p), Drafts(h, m, g, ids, n)
  PROVE  History(h, g \o ids, p)
<1>1. /\ Len(m) \in Nat /\ Len(h) = Len(m) + n /\ Len(g) \in Nat \ {0}
      /\ Len(ids) \in Nat /\ n \in Nat /\ p <= Len(m)
      /\ \A i \in 1 .. Len(m) : h[i] = m[i]
      /\ \A i \in 1 .. p : m[i] = Row(g[i], i)
      /\ \A i \in p + 1 .. Len(m) : Follows(m, g, p, i)
  BY LenProperties, EmptySeq DEF Rows, History, Drafts
<1>2. /\ g \o ids \in Seq(Token) /\ Len(g \o ids) = Len(g) + Len(ids)
      /\ \A i \in 1 .. Len(g) : (g \o ids)[i] = g[i]
      /\ \A j \in 1 .. Len(ids) : (g \o ids)[Len(g) + j] = ids[j]
  <2>1. /\ g \o ids \in Seq(Token) /\ Len(g \o ids) = Len(g) + Len(ids)
        /\ \A i \in 1 .. Len(g) + Len(ids) : (g \o ids)[i] =
             IF i <= Len(g) THEN g[i] ELSE ids[i - Len(g)]
    BY ConcatProperties
  <2>2. ASSUME NEW j \in 1 .. Len(ids) PROVE (g \o ids)[Len(g) + j] = ids[j]
    <3>1. Len(g) + j \in 1 .. Len(g) + Len(ids) /\ ~(Len(g) + j <= Len(g))
          /\ Len(g) + j - Len(g) = j
      BY <1>1
    <3> QED BY <2>1, <3>1
  <2> QED BY <1>1, <2>1, <2>2
<1>3. ASSUME NEW i \in p + 1 .. Len(h) PROVE Follows(h, g \o ids, p, i)
  <2>1. CASE i <= Len(m)
    <3>1. i \in p + 1 .. Len(m) /\ Len(g) <= Len(g \o ids)
      BY <1>1, <1>2, <2>1
    <3> QED BY <1>1, <1>2, <3>1, FollowsKept
  <2>2. CASE i > Len(m)
    <3> DEFINE b == Len(m) + 1
               j == i - Len(m)
    <3>1. /\ j \in 1 .. n /\ j \in 1 .. Len(ids) /\ i = Len(m) + j /\ b \in p + 1 .. i
          /\ n > 0
      BY <1>1, <2>2
    <3>2. h[b].hidden = Len(g) /\ h[i].token = ids[j]
      BY <3>1 DEF Drafts
    <3>3. \A k \in b + 1 .. i : h[k].hidden = Draft
      <4>1. ASSUME NEW k \in b + 1 .. i PROVE h[k].hidden = Draft
        <5>1. k - Len(m) \in 2 .. n /\ k = Len(m) + (k - Len(m))
          BY <1>1, <3>1
        <5> QED BY <5>1 DEF Drafts
      <4> QED BY <4>1
    <3>4. /\ h[b].hidden + 1 + (i - b) = Len(g) + j
          /\ Len(g) + j \in 1 .. Len(g \o ids)
      BY <1>1, <1>2, <3>1, <3>2
    <3>5. (g \o ids)[Len(g) + j] = ids[j]
      BY <1>2, <3>1
    <3>6. h[b].hidden # Draft
      BY <1>1, <3>2 DEF Draft
    <3> HIDE DEF b, j
    <3> QED BY <3>1, <3>2, <3>3, <3>4, <3>5, <3>6 DEF Follows
  <2> QED BY <1>1, <2>1, <2>2
<1>4. ASSUME NEW i \in 1 .. p PROVE h[i] = Row((g \o ids)[i], i)
  <2>1. h[i] = m[i] /\ m[i] = Row(g[i], i) /\ (g \o ids)[i] = g[i]
    BY <1>1, <1>2
  <2> QED BY <2>1
<1> QED
  BY <1>1, <1>3, <1>4 DEF History

LEMMA RecoveredHistory ==
  ASSUME NEW m \in Rows, NEW g \in Seq(Token), NEW p \in Nat,
         1 <= p, p < Len(g), History(m, g, p),
         NEW r \in [token : Token, hidden : Nat], r = Row(g[Len(g)], Len(g) - 1)
  PROVE  History(Append(m, r), g, p)
<1> DEFINE h == Append(m, r)
<1>1. /\ Len(m) \in Nat /\ Len(g) \in Nat /\ p <= Len(m)
      /\ \A i \in 1 .. p : m[i] = Row(g[i], i)
      /\ \A i \in p + 1 .. Len(m) : Follows(m, g, p, i)
  BY LenProperties DEF Rows, History
<1>2. /\ h \in Rows /\ Len(h) = Len(m) + 1 /\ h[Len(m) + 1] = r
      /\ \A i \in 1 .. Len(m) : h[i] = m[i]
  BY AppendProperties DEF Rows
<1> HIDE DEF h
<1>3. ASSUME NEW i \in p + 1 .. Len(h) PROVE Follows(h, g, p, i)
  <2>1. CASE i <= Len(m)
    <3>1. i \in p + 1 .. Len(m) /\ Follows(m, g, p, i)
      BY <1>1, <1>2, <2>1
    <3>2. Len(g) <= Len(g) /\ \A k \in 1 .. Len(g) : g[k] = g[k]
      BY <1>1
    <3> QED BY <1>2, <3>1, <3>2, FollowsKept
  <2>2. CASE i > Len(m)
    <3>1. i = Len(m) + 1 /\ i \in p + 1 .. i
      BY <1>1, <1>2, <2>2
    <3>2. h[i].hidden = Len(g) - 1 /\ h[i].token = g[Len(g)]
      BY <1>2, <3>1 DEF Row
    <3>3. /\ h[i].hidden # Draft /\ h[i].hidden + 1 + (i - i) = Len(g)
          /\ Len(g) \in 1 .. Len(g) /\ \A k \in i + 1 .. i : FALSE
      BY <1>1, <3>1, <3>2 DEF Draft
    <3> QED BY <3>1, <3>2, <3>3 DEF Follows
  <2> QED BY <1>1, <1>2, <2>1, <2>2
<1>4. \A i \in 1 .. p : h[i] = Row(g[i], i)
  BY <1>1, <1>2
<1> QED
  BY <1>1, <1>2, <1>3, <1>4 DEF History, h

-----------------------------------------------------------------------------
\* The steps.

LEMMA SeedHistory ==
  ASSUME SpeculativeInv, HistoryInv, SeedMtp
  PROVE  HistoryInv'
<1>1. /\ pc = "seed" /\ pc' = "head" /\ mtp' = PromptRows /\ counts' = counts
      /\ generated' = generated /\ prompt_count' = prompt_count
      /\ target_hidden' = target_hidden
      /\ generated \in Seq(Token) /\ Len(generated) \in Nat
      /\ Len(generated) = prompt_count /\ counts.rounds = 0
  BY LenProperties
  DEF SeedMtp, SpeculativeInv, TypeOK, RequestInv, HistoryInv, RoundsInv, request, locals
<1>2. /\ Len(mtp') = Len(generated)
      /\ \A i \in 1 .. Len(generated) : mtp'[i] = Row(generated[i], i)
  <2>1. \A i \in 1 .. Len(generated) :
          Row(generated[i], i) \in [token : Token, hidden : Nat]
    BY <1>1, ElementOfSeq DEF Row
  <2>2. mtp' \in [1 .. Len(generated) -> [token : Token, hidden : Nat]]
    BY <1>1, <2>1 DEF PromptRows
  <2>3. Len(mtp') = Len(generated)
    BY <1>1, <2>2, FunctionIsSeq
  <2> QED BY <1>1, <2>3 DEF PromptRows
<1>3. RoundsInv'
  BY <1>1, <1>2 DEF RoundsInv, InRound
<1>4. HiddenInv'
  BY <1>1 DEF HistoryInv, HiddenInv, InRound
<1>5. RowsInv'
  <2>1. History(mtp', generated', prompt_count')
    BY <1>1, <1>2 DEF History
  <2> QED BY <1>1, <2>1 DEF RowsInv, InRound, History, Follows
<1> QED BY <1>3, <1>4, <1>5 DEF HistoryInv

LEMMA StartRoundHistory ==
  ASSUME SpeculativeInv, HistoryInv, StartRound
  PROVE  HistoryInv'
<1>1. /\ pc = "head" /\ pc' = "propose" /\ scratch' = mtp /\ checkpoints' = <<mtp>>
      /\ candidates' = << >> /\ mtp' = mtp /\ generated' = generated
      /\ prompt_count' = prompt_count /\ target_hidden' = target_hidden
      /\ next_target' = next_target
  BY DEF StartRound, request
<1>2. /\ mtp \in Rows /\ Len(mtp) \in Nat /\ Len(generated) \in Nat
      /\ << >> \in Seq(Token) /\ Len(<< >>) = 0
  BY LenProperties, EmptySeq DEF SpeculativeInv, TypeOK, Rows
<1>3. RoundsInv'
  <2>1. counts'.rounds = counts.rounds + 1 /\ counts.rounds \in Nat
    BY CountNames, SMTT(30) DEF Tally, SpeculativeInv, TypeOK, StartRound
  <2>2. Len(mtp) + counts.rounds = Len(generated)
    BY <1>1 DEF HistoryInv, RoundsInv
  <2> QED BY <1>1, <1>2, <2>1, <2>2 DEF RoundsInv, InRound
<1>4. HiddenInv'
  <2>1. Len(candidates') = 0
    BY <1>1, <1>2
  <2> QED BY <1>1, <2>1 DEF HistoryInv, HiddenInv, InRound
<1>5. RowsInv'
  <2>1. History(mtp, generated, prompt_count)
    BY <1>1 DEF HistoryInv, RowsInv
  <2>2. /\ Len(candidates') = 0 /\ checkpoints'[1] = mtp
        /\ scratch' = checkpoints'[Len(candidates') + 1]
    BY <1>1, <1>2
  <2>3. ASSUME NEW k \in 0 .. Len(candidates')
        PROVE  Drafts(checkpoints'[k + 1], mtp', generated', verification_ids', k)
    <3>1. k = 0 /\ checkpoints'[k + 1] = mtp'
      BY <1>1, <2>2
    <3> QED BY <1>1, <1>2, <3>1 DEF Drafts
  <2>4. History(mtp', generated', prompt_count')
    BY <1>1, <2>1
  <2> QED BY <1>1, <2>2, <2>3, <2>4 DEF RowsInv, InRound, History, Follows, Drafts
<1> QED BY <1>3, <1>4, <1>5 DEF HistoryInv

LEMMA ProposeHistory ==
  ASSUME SpeculativeInv, HistoryInv, NEW t \in Token, Propose(t)
  PROVE  HistoryInv'
<1>1. /\ pc \in InRound /\ pc = "propose" /\ pc' \in {"propose", "verify"}
      /\ candidates' = Append(candidates, t)
      /\ checkpoints' = Append(checkpoints, scratch')
      /\ mtp' = mtp /\ generated' = generated /\ prompt_count' = prompt_count
      /\ target_hidden' = target_hidden /\ next_target' = next_target
      /\ target_hidden # NoHidden
  BY DEF Propose, InRound, request
<1>2. /\ candidates \in Seq(Token) /\ Len(candidates) \in Nat
      /\ next_target \in Token /\ Len(generated) \in Nat
      /\ verification_ids \in Seq(Token)
      /\ Len(verification_ids) = Len(candidates) + 1
      /\ verification_ids[1] = next_target
      /\ \A i \in 1 .. Len(candidates) : verification_ids[i + 1] = candidates[i]
  BY <1>1, RoundFacts
<1>3. /\ mtp \in Rows /\ Len(mtp) \in Nat /\ scratch \in Rows
      /\ checkpoints \in Seq(Rows) /\ Len(checkpoints) = Len(candidates) + 1
      /\ target_hidden = Len(generated) /\ target_hidden \in Nat
  BY <1>1, LenProperties
  DEF SpeculativeInv, TypeOK, Rows, RoundInv, HistoryInv, HiddenInv
<1> DEFINE n == Len(candidates)
<1>4. /\ \A k \in 0 .. n :
           Drafts(checkpoints[k + 1], mtp, generated, verification_ids, k)
      /\ scratch = checkpoints[n + 1]
      /\ History(mtp, generated, prompt_count)
  BY <1>1 DEF HistoryInv, RowsInv
<1>5. /\ candidates' \in Seq(Token) /\ Len(candidates') = n + 1
      /\ \A i \in 1 .. n : candidates'[i] = candidates[i]
  BY <1>1, <1>2, AppendProperties
<1>6. PICK r \in [token : Token, hidden : Nat] :
        /\ scratch' = Append(scratch, r)
        /\ r = IF n = 0 THEN Row(next_target, target_hidden)
                        ELSE Row(candidates[n], Draft)
  <2>1. CASE candidates = << >>
    <3>1. n = 0 /\ Row(next_target, target_hidden) \in [token : Token, hidden : Nat]
      BY <1>2, <1>3, <2>1, EmptySeq DEF Row
    <3> QED BY <2>1, <3>1 DEF Propose
  <2>2. CASE candidates # << >>
    <3>1. n # 0 /\ candidates[n] \in Token
      BY <1>2, <2>2, EmptySeq, ElementOfSeq
    <3>2. Row(candidates[n], Draft) \in [token : Token, hidden : Nat]
      BY <3>1 DEF Row, Draft
    <3> QED BY <2>2, <3>1, <3>2 DEF Propose
  <2> QED BY <2>1, <2>2
<1>7. /\ scratch' \in Rows /\ Len(scratch') = Len(scratch) + 1
      /\ \A i \in 1 .. Len(scratch) : scratch'[i] = scratch[i]
      /\ scratch'[Len(scratch) + 1] = r
  BY <1>3, <1>6, AppendProperties DEF Rows
<1>8. /\ Len(checkpoints') = n + 2 /\ checkpoints'[n + 2] = scratch'
      /\ \A k \in 0 .. n : checkpoints'[k + 1] = checkpoints[k + 1]
  <2>1. /\ Len(checkpoints') = Len(checkpoints) + 1
        /\ \A k \in 1 .. Len(checkpoints) : checkpoints'[k] = checkpoints[k]
        /\ checkpoints'[Len(checkpoints) + 1] = scratch'
    BY <1>1, <1>3, <1>7, AppendProperties
  <2>2. \A k \in 0 .. n : k + 1 \in 1 .. Len(checkpoints)
    BY <1>2, <1>3
  <2> QED BY <1>2, <1>3, <2>1, <2>2
<1>9. \A i \in 1 .. n + 1 : verification_ids'[i] = verification_ids[i]
  <2> DEFINE h == <<next_target>>
             c == candidates'
  <2>1. /\ h \in Seq(Token) /\ Len(h) = 1 /\ h[1] = next_target /\ c \in Seq(Token)
    BY <1>2, <1>5
  <2>2. verification_ids' = h \o c
    BY <1>1 DEF verification_ids
  <2>3. Len(c) = n + 1 /\ \A i \in 1 .. n : c[i] = candidates[i]
    BY <1>5
  <2> HIDE DEF h, c
  <2>4. \A i \in 1 .. Len(h) + Len(c) : (h \o c)[i] =
          IF i <= Len(h) THEN h[i] ELSE c[i - Len(h)]
    BY <2>1, ConcatProperties
  <2>5. ASSUME NEW i \in 1 .. n + 1
        PROVE  verification_ids'[i] = verification_ids[i]
    <3>1. CASE i = 1
      <4>1. 1 \in 1 .. Len(h) + Len(c) /\ 1 <= Len(h)
        BY <1>2, <2>1, <2>3
      <4>2. (h \o c)[1] = next_target
        BY <2>1, <2>4, <4>1
      <4> QED BY <1>2, <2>2, <3>1, <4>2
    <3>2. CASE i # 1
      <4>1. /\ i - 1 \in 1 .. n /\ i - 1 + 1 = i /\ i - Len(h) = i - 1
            /\ i \in 1 .. Len(h) + Len(c) /\ ~(i <= Len(h))
        BY <1>2, <2>1, <2>3, <3>2
      <4>2. verification_ids'[i] = c[i - 1]
        <5>1. (h \o c)[i] = c[i - 1]
          BY <2>4, <4>1
        <5> QED BY <2>2, <5>1
      <4>3. verification_ids[i] = candidates[i - 1]
        BY <1>2, <4>1
      <4> QED BY <2>3, <4>1, <4>2, <4>3
    <3> QED BY <3>1, <3>2
  <2> QED BY <2>5
<1>10. ASSUME NEW k \in 0 .. n
       PROVE  Drafts(checkpoints[k + 1], mtp, generated, verification_ids', k)
  <2>1. Drafts(checkpoints[k + 1], mtp, generated, verification_ids, k)
    BY <1>4
  <2>2. \A j \in 1 .. k : j \in 1 .. n + 1
    BY <1>2
  <2> QED BY <1>9, <2>1, <2>2 DEF Drafts
<1>11. Drafts(scratch', mtp, generated, verification_ids', n + 1)
  <2>1. Drafts(scratch, mtp, generated, verification_ids', n)
    BY <1>2, <1>4, <1>10
  <2>2. Len(scratch) = Len(mtp) + n /\ Len(scratch') = Len(mtp) + (n + 1)
    BY <1>2, <1>3, <1>7, <2>1 DEF Drafts
  <2>3. \A i \in 1 .. Len(mtp) : scratch'[i] = mtp[i]
    <3>1. \A i \in 1 .. Len(mtp) : i \in 1 .. Len(scratch)
      BY <1>2, <1>3, <2>2
    <3> QED BY <1>7, <2>1, <3>1 DEF Drafts
  <2>4. \A j \in 1 .. n : scratch'[Len(mtp) + j] = scratch[Len(mtp) + j]
    <3>1. \A j \in 1 .. n : Len(mtp) + j \in 1 .. Len(scratch)
      BY <1>2, <1>3, <2>2
    <3> QED BY <1>7, <3>1
  <2>5. scratch'[Len(mtp) + (n + 1)] = r
    BY <1>2, <1>3, <1>7, <2>2
  <2>6. r.token = verification_ids'[n + 1]
    <3>1. verification_ids'[n + 1] = verification_ids[n + 1]
      BY <1>2, <1>9
    <3>2. CASE n = 0
      BY <1>2, <1>6, <3>1, <3>2 DEF Row
    <3>3. CASE n # 0
      <4>1. verification_ids[n + 1] = candidates[n]
        BY <1>2, <3>3
      <4> QED BY <1>6, <3>1, <3>3, <4>1 DEF Row
    <3> QED BY <3>2, <3>3
  <2>7. ASSUME NEW j \in 1 .. n + 1
        PROVE  scratch'[Len(mtp) + j].token = verification_ids'[j]
    <3>1. CASE j = n + 1
      BY <2>5, <2>6, <3>1
    <3>2. CASE j # n + 1
      <4>1. j \in 1 .. n
        BY <1>2, <3>2
      <4> QED BY <2>1, <2>4, <4>1 DEF Drafts
    <3> QED BY <3>1, <3>2
  <2>8. scratch'[Len(mtp) + 1].hidden = Len(generated)
    <3>1. CASE n = 0
      <4>1. r.hidden = Len(generated)
        BY <1>3, <1>6, <3>1 DEF Row
      <4>2. n + 1 = 1
        BY <3>1
      <4> HIDE DEF n
      <4> QED BY <2>5, <4>1, <4>2
    <3>2. CASE n # 0
      <4>1. 1 \in 1 .. n /\ n > 0
        BY <1>2, <3>2
      <4> QED BY <2>1, <2>4, <4>1 DEF Drafts
    <3> QED BY <3>1, <3>2
  <2>9. ASSUME NEW j \in 2 .. n + 1
        PROVE  scratch'[Len(mtp) + j].hidden = Draft
    <3>1. CASE j = n + 1
      <4>1. n # 0
        BY <1>2, <3>1
      <4>2. r.hidden = Draft
        BY <1>6, <4>1 DEF Row
      <4> QED BY <2>5, <3>1, <4>2
    <3>2. CASE j # n + 1
      <4>1. j \in 2 .. n /\ j \in 1 .. n
        BY <1>2, <3>2
      <4> QED BY <2>1, <2>4, <4>1 DEF Drafts
    <3> QED BY <3>1, <3>2
  <2> HIDE DEF n
  <2> QED BY <2>2, <2>3, <2>7, <2>8, <2>9 DEF Drafts
<1>12. RoundsInv'
  <2>1. counts'.rounds = counts.rounds
    BY CountNames, SMTT(30) DEF Tally, SpeculativeInv, TypeOK, Propose
  <2> QED BY <1>1, <2>1 DEF HistoryInv, RoundsInv, InRound
<1>13. HiddenInv'
  BY <1>1, <1>3 DEF HiddenInv, InRound
<1>14. RowsInv'
  <2>1. ASSUME NEW k \in 0 .. n + 1
        PROVE  Drafts(checkpoints'[k + 1], mtp', generated', verification_ids', k)
    <3>1. CASE k = n + 1
      <4>1. checkpoints'[k + 1] = scratch'
        <5>1. k + 1 = n + 2
          BY <1>2, <3>1
        <5> QED BY <1>8, <5>1
      <4> QED BY <1>1, <1>11, <3>1, <4>1
    <3>2. CASE k # n + 1
      <4>1. k \in 0 .. n
        BY <1>2, <3>2
      <4>2. checkpoints'[k + 1] = checkpoints[k + 1]
        BY <1>8, <4>1
      <4> QED BY <1>1, <1>10, <4>1, <4>2
    <3> QED BY <3>1, <3>2
  <2>2. scratch' = checkpoints'[Len(candidates') + 1]
    <3>1. Len(candidates') + 1 = n + 2
      BY <1>2, <1>5
    <3> QED BY <1>8, <3>1
  <2>3. History(mtp', generated', prompt_count')
    BY <1>1, <1>4
  <2> HIDE DEF n
  <2> QED BY <1>5, <2>1, <2>2, <2>3 DEF RowsInv, History, Follows, Drafts
<1> QED BY <1>12, <1>13, <1>14 DEF HistoryInv

LEMMA VerifyHistory ==
  ASSUME SpeculativeInv, HistoryInv, Verify
  PROVE  HistoryInv'
<1>1. /\ pc \in InRound /\ pc = "verify" /\ pc' = "accept"
      /\ UNCHANGED <<mtp, generated, prompt_count, target_hidden, next_target,
                     candidates, scratch, checkpoints>>
  BY DEF Verify, InRound, request
<1>2. counts'.rounds = counts.rounds
  BY CountNames, SMTT(30) DEF Tally, SpeculativeInv, TypeOK, Verify
<1>3. RoundsInv' /\ HiddenInv'
  BY <1>1, <1>2 DEF HistoryInv, RoundsInv, HiddenInv, InRound
<1>4. RowsInv'
  BY <1>1, ZenonT(30) DEF HistoryInv, RowsInv, InRound, verification_ids, History, Follows, Drafts
<1> QED BY <1>3, <1>4 DEF HistoryInv

LEMMA CommitAllHistory ==
  ASSUME SpeculativeInv, HistoryInv, CommitAll
  PROVE  HistoryInv'
<1> DEFINE n == Len(candidates)
<1>1. /\ pc \in InRound /\ pc = "accept" /\ pc' \in {"head", "return"}
      /\ mtp' = scratch /\ generated' = generated \o verification_ids
      /\ prompt_count' = prompt_count
      /\ target_hidden' \in {Len(verification[1]), NoHidden}
  BY DEF CommitAll, InRound, AfterRound, request
<1>2. /\ generated \in Seq(Token) /\ generated # << >> /\ Len(generated) \in Nat
      /\ prompt_count \in Nat /\ prompt_count <= Len(generated)
      /\ verification_ids \in Seq(Token) /\ Len(verification_ids) = n + 1 /\ n \in Nat
      /\ mtp \in Rows /\ scratch \in Rows /\ Len(mtp) \in Nat
      /\ Len(generated') = Len(generated) + n + 1
  <2>1. /\ generated \in Seq(Token) /\ generated # << >> /\ Len(generated) \in Nat
        /\ prompt_count \in 1 .. Len(generated)
        /\ verification_ids \in Seq(Token) /\ Len(verification_ids) = n + 1 /\ n \in Nat
    BY <1>1, RoundFacts
  <2>2. mtp \in Rows /\ scratch \in Rows /\ Len(mtp) \in Nat
    BY LenProperties DEF SpeculativeInv, TypeOK, Rows
  <2>3. Len(generated') = Len(generated) + Len(verification_ids)
    BY <1>1, <2>1, ConcatProperties
  <2> HIDE DEF n
  <2> QED BY <2>1, <2>2, <2>3
<1>3. History(scratch, generated \o verification_ids, prompt_count)
      /\ Len(scratch) = Len(mtp) + n
  <2>1. /\ Drafts(scratch, mtp, generated, verification_ids, n)
        /\ History(mtp, generated, prompt_count)
    <3>1. /\ scratch = checkpoints[n + 1]
          /\ \A k \in 0 .. n :
               Drafts(checkpoints[k + 1], mtp, generated, verification_ids, k)
      BY <1>1 DEF HistoryInv, RowsInv
    <3> QED BY <1>1, <1>2, <3>1 DEF HistoryInv, RowsInv
  <2>2. n \in 0 .. Len(verification_ids)
    BY <1>2
  <2> HIDE DEF n
  <2>3. History(scratch, generated \o verification_ids, prompt_count)
    BY <1>2, <2>1, <2>2, DraftedHistory
  <2> QED BY <2>1, <2>3 DEF Drafts
<1>4. RoundsInv'
  <2>1. counts'.rounds = counts.rounds /\ counts.rounds \in Nat
    BY CountNames, SMTT(30) DEF Tally, SpeculativeInv, TypeOK, CommitAll
  <2>2. Len(mtp) + counts.rounds = Len(generated) + 1
    BY <1>1 DEF HistoryInv, RoundsInv
  <2>3. Len(mtp') + counts'.rounds = Len(generated')
    <3> DEFINE m == Len(mtp)
               g == Len(generated)
               c == counts.rounds
    <3>1. /\ m \in Nat /\ g \in Nat /\ c \in Nat /\ n \in Nat /\ m + c = g + 1
          /\ Len(mtp') = m + n /\ counts'.rounds = c /\ Len(generated') = g + n + 1
      BY <1>1, <1>2, <1>3, <2>1, <2>2
    <3>2. (m + n) + c = g + n + 1
      <4> HIDE DEF m, g, c, n
      <4> QED BY <3>1
    <3> QED BY <3>1, <3>2
  <2> QED BY <1>1, <2>3 DEF RoundsInv, InRound
<1>5. HiddenInv'
  <2>1. verification[1] = generated'
    <3>1. verification = [s \in Slots |-> generated \o verification_ids]
      BY <1>1 DEF SpeculativeInv, CacheInv
    <3>2. 1 \in Slots
      BY SlotAssumption DEF Slots
    <3> QED BY <1>1, <3>1, <3>2
  <2> QED BY <1>1, <2>1 DEF HiddenInv, InRound
<1>6. RowsInv'
  <2>1. History(mtp', generated', prompt_count')
    BY <1>1, <1>3
  <2> QED BY <1>1, <2>1 DEF RowsInv, InRound, History, Follows
<1> QED BY <1>4, <1>5, <1>6 DEF HistoryInv

LEMMA ReplayHistory ==
  ASSUME SpeculativeInv, HistoryInv, Replay
  PROVE  HistoryInv'
<1> DEFINE n == Accepted
           h == checkpoints[n + 1]
<1>1. /\ pc \in InRound /\ pc = "accept" /\ pc' \in {"recover", "return"}
      /\ pc' = "recover" => mtp' = h
      /\ prompt_count' = prompt_count /\ Accepted < Len(candidates)
  BY DEF Replay, InRound, AcceptedHistory, request
<1>2. /\ replay_ids \in Seq(Token) /\ Len(replay_ids) = n + 2 /\ n \in Nat
      /\ generated' = generated \o replay_ids
      /\ replay_ids = Prefix(verification_ids, n + 1) \o <<correction>>
      /\ correction \in Token
  BY <1>1, ReplayFacts DEF Replay
<1>3. /\ generated \in Seq(Token) /\ generated # << >> /\ Len(generated) \in Nat
      /\ prompt_count \in Nat /\ prompt_count <= Len(generated)
      /\ verification_ids \in Seq(Token)
      /\ Len(verification_ids) = Len(candidates) + 1 /\ Len(candidates) \in Nat
  <2>1. /\ generated \in Seq(Token) /\ generated # << >> /\ Len(generated) \in Nat
        /\ prompt_count \in 1 .. Len(generated)
        /\ verification_ids \in Seq(Token)
        /\ Len(verification_ids) = Len(candidates) + 1 /\ Len(candidates) \in Nat
    BY <1>1, RoundFacts
  <2> QED BY <2>1
<1>4. mtp \in Rows /\ h \in Rows /\ Len(mtp) \in Nat
  <2>1. checkpoints \in Seq(Rows) /\ Len(checkpoints) = Len(candidates) + 1
    BY <1>1 DEF SpeculativeInv, TypeOK, RoundInv
  <2>2. n + 1 \in 1 .. Len(checkpoints)
    BY <1>1, <1>2, <1>3, <2>1
  <2>3. h \in Rows
    BY <2>1, <2>2, ElementOfSeq
  <2> QED BY <2>3, LenProperties DEF SpeculativeInv, TypeOK, Rows
<1>5. \A j \in 1 .. n : replay_ids[j] = verification_ids[j]
  <2> DEFINE v == Prefix(verification_ids, n + 1)
             c == <<correction>>
  <2>1. n + 1 \in 0 .. Len(verification_ids)
    BY <1>1, <1>2, <1>3
  <2>2. /\ v \in Seq(Token) /\ Len(v) = n + 1
        /\ \A j \in 1 .. n + 1 : v[j] = verification_ids[j]
    BY <1>3, <2>1, PrefixFacts
  <2>3. c \in Seq(Token) /\ Len(c) = 1 /\ replay_ids = v \o c
    BY <1>2
  <2> HIDE DEF n, v, c
  <2>4. \A j \in 1 .. Len(v) + Len(c) : (v \o c)[j] =
          IF j <= Len(v) THEN v[j] ELSE c[j - Len(v)]
    BY <2>2, <2>3, ConcatProperties
  <2>5. \A j \in 1 .. n : j \in 1 .. n + 1 /\ j \in 1 .. Len(v) + Len(c) /\ j <= Len(v)
    BY <1>2, <2>2, <2>3
  <2> QED BY <2>2, <2>3, <2>4, <2>5
<1>6. Drafts(h, mtp, generated, replay_ids, n) /\ History(mtp, generated, prompt_count)
  <2>1. \A k \in 0 .. Len(candidates) :
          Drafts(checkpoints[k + 1], mtp, generated, verification_ids, k)
    BY <1>1 DEF HistoryInv, RowsInv
  <2>2. n \in 0 .. Len(candidates)
    BY <1>1, <1>2, <1>3
  <2>3. Drafts(h, mtp, generated, verification_ids, n)
    BY <2>1, <2>2
  <2>4. Drafts(h, mtp, generated, replay_ids, n)
    <3> HIDE DEF h, n
    <3> QED BY <1>5, <2>3 DEF Drafts
  <2> QED BY <1>1, <2>4 DEF HistoryInv, RowsInv
<1>7. History(h, generated \o replay_ids, prompt_count)
  <2>1. n \in 0 .. Len(replay_ids)
    BY <1>2
  <2> HIDE DEF h, n
  <2> QED BY <1>2, <1>3, <1>4, <1>6, <2>1, DraftedHistory
<1>8. RoundsInv'
  <2>1. counts'.rounds = counts.rounds /\ counts.rounds \in Nat
    BY CountNames, SMTT(30) DEF Tally, SpeculativeInv, TypeOK, Replay
  <2>2. Len(mtp) + counts.rounds = Len(generated) + 1
    BY <1>1 DEF HistoryInv, RoundsInv
  <2>3. Len(generated') = Len(generated) + n + 2
    <3>1. Len(generated') = Len(generated) + Len(replay_ids)
      BY <1>2, <1>3, ConcatProperties
    <3> HIDE DEF n
    <3> QED BY <1>2, <1>3, <3>1
  <2>4. Len(h) = Len(mtp) + n
    BY <1>6 DEF Drafts
  <2>5. Len(h) + counts'.rounds + 1 = Len(generated')
    <3> DEFINE m == Len(mtp)
               g == Len(generated)
               c == counts.rounds
    <3>1. /\ m \in Nat /\ g \in Nat /\ c \in Nat /\ n \in Nat /\ m + c = g + 1
          /\ Len(h) = m + n /\ counts'.rounds = c /\ Len(generated') = g + n + 2
      BY <1>2, <1>3, <1>4, <2>1, <2>2, <2>3, <2>4
    <3>2. (m + n) + c + 1 = g + n + 2
      <4> HIDE DEF m, g, c, n
      <4> QED BY <3>1
    <3> QED BY <3>1, <3>2
  <2> QED BY <1>1, <2>5 DEF RoundsInv, InRound
<1>9. HiddenInv'
  BY <1>1 DEF HiddenInv, InRound
<1>10. RowsInv'
  <2>1. pc' = "recover" => History(mtp', generated', prompt_count')
    BY <1>1, <1>2, <1>7
  <2> QED BY <1>1, <2>1 DEF RowsInv, InRound, History, Follows
<1> QED BY <1>8, <1>9, <1>10 DEF HistoryInv

LEMMA RecoverHistory ==
  ASSUME SpeculativeInv, HistoryInv, Recover
  PROVE  HistoryInv'
<1> DEFINE r == Row(generated[Len(generated)], Len(generated) - 1)
<1>1. caches[1] = generated
  BY SlotAssumption DEF Recover, SpeculativeInv, CacheInv, Slots
<1>2. /\ pc = "recover" /\ pc' \in {"head", "return"} /\ mtp' = Append(mtp, r)
      /\ generated' = generated /\ prompt_count' = prompt_count
      /\ target_hidden' = Len(generated)
  BY <1>1 DEF Recover, AfterRound, request
<1>3. /\ generated \in Seq(Token) /\ Len(generated) \in Nat /\ prompt_count \in Nat
      /\ 1 <= prompt_count /\ prompt_count < Len(generated)
      /\ mtp \in Rows /\ Len(mtp) \in Nat
  BY <1>2, LenProperties DEF SpeculativeInv, TypeOK, RequestInv, Rows
<1>4. r \in [token : Token, hidden : Nat]
  <2>1. Len(generated) \in 1 .. Len(generated) /\ Len(generated) - 1 \in Nat
    BY <1>3
  <2>2. generated[Len(generated)] \in Token
    BY <1>3, <2>1, ElementOfSeq
  <2> QED BY <2>1, <2>2 DEF Row
<1>5. History(mtp', generated', prompt_count')
  <2>1. History(mtp, generated, prompt_count)
    BY <1>2 DEF HistoryInv, RowsInv
  <2> QED BY <1>2, <1>3, <1>4, <2>1, RecoveredHistory
<1>6. RoundsInv'
  <2>1. counts'.rounds = counts.rounds /\ counts.rounds \in Nat
    BY CountNames, SMTT(30) DEF Tally, SpeculativeInv, TypeOK, Recover
  <2>2. Len(mtp) + counts.rounds + 1 = Len(generated)
    BY <1>2 DEF HistoryInv, RoundsInv
  <2>3. Len(mtp') = Len(mtp) + 1
    BY <1>2, <1>3, <1>4, AppendProperties DEF Rows
  <2>4. Len(mtp') + counts'.rounds = Len(generated')
    BY <1>2, <1>3, <2>1, <2>2, <2>3
  <2> QED BY <1>2, <2>4 DEF RoundsInv, InRound
<1>7. HiddenInv'
  BY <1>2 DEF HiddenInv, InRound
<1>8. RowsInv'
  BY <1>2, <1>5 DEF RowsInv, InRound, History, Follows
<1> QED BY <1>6, <1>7, <1>8 DEF HistoryInv

LEMMA HistoryStep ==
  ASSUME SpeculativeInv, HistoryInv, [Next]_vars
  PROVE  HistoryInv'
<1>1. CASE pc' = "idle"
  BY <1>1 DEF HistoryInv, RoundsInv, HiddenInv, RowsInv, InRound
<1>2. ASSUME NEW p \in Prompts, NEW n \in Budgets, Generate(p, n)
      PROVE  HistoryInv'
  BY <1>2 DEF Generate, HistoryInv, RoundsInv, HiddenInv, RowsInv, InRound, ZeroCounts
<1>3. CASE Prefill
  BY <1>3 DEF Prefill, HistoryInv, RoundsInv, HiddenInv, RowsInv, InRound
<1>4. CASE LastToken
  BY <1>4 DEF LastToken, HistoryInv, RoundsInv, HiddenInv, RowsInv, InRound
<1>5. CASE UNCHANGED vars
  BY <1>5, ZenonT(30)
  DEF vars, request, locals, HistoryInv, RoundsInv, HiddenInv, RowsInv, InRound,
      verification_ids, History, Follows, Drafts
<1>6. Reject \/ Reset \/ Return \/ Failure \/ FailWithoutHidden => pc' = "idle"
  BY DEF Reject, Reset, Return, Failure, FailOnClones, FailWithoutHidden,
         FailPrefill, FailReplay, FailRecover, Abort
<1> QED
  BY <1>1, <1>2, <1>3, <1>4, <1>5, <1>6, SeedHistory, StartRoundHistory,
     ProposeHistory, VerifyHistory, CommitAllHistory, ReplayHistory, RecoverHistory
  DEF Next, Call, Step

-----------------------------------------------------------------------------
\* Whatever the rounds of a call proposed, committed, refuted and replayed,
\* the history the next round clones holds rows of committed tokens only,
\* each following the hidden row it descends from. (generator.cc:450-1117)
THEOREM SpeculativeHistory == Spec => []MtpHistoryIsCommitted
<1>1. Init => HistoryInv
  BY DEF Init, HistoryInv, RoundsInv, HiddenInv, RowsInv, InRound
<1>2. SpeculativeInv /\ HistoryInv /\ [Next]_vars => HistoryInv'
  BY HistoryStep
<1>3. HistoryInv => MtpHistoryIsCommitted
  <2> SUFFICES ASSUME HistoryInv, pc = "head" PROVE MtpHistoryIsCommitted
    BY DEF MtpHistoryIsCommitted
  <2>1. Len(mtp) + counts.rounds = Len(generated) /\ History(mtp, generated, prompt_count)
    BY DEF HistoryInv, RoundsInv, RowsInv
  <2> QED BY <2>1 DEF MtpHistoryIsCommitted, History, Follows
<1> QED
  BY <1>1, <1>2, <1>3, SpeculativeInvariant, PTL DEF Spec
=============================================================================
