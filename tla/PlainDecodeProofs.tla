-------------------------- MODULE PlainDecodeProofs -------------------------
(***************************************************************************)
(* Proofs that decoding token by token reads every token once, counts its  *)
(* guesses and returns what greedy decoding returns, in all three modes    *)
(* and for every vocabulary, model, set of requests and cache layout.      *)
(***************************************************************************)
EXTENDS PlainDecode, SequenceTheorems, TLAPS

-----------------------------------------------------------------------------
\* Sequences and greedy continuations.

LEMMA PrefixFacts ==
  ASSUME NEW S, NEW s \in Seq(S), NEW n \in 0 .. Len(s)
  PROVE  /\ Prefix(s, n) \in Seq(S)
         /\ Len(Prefix(s, n)) = n
         /\ \A i \in 1 .. n : Prefix(s, n)[i] = s[i]
<1>1. \A i \in 1 .. n : s[i] \in S
  BY ElementOfSeq, LenProperties
<1>2. n \in Int /\ n >= 0
  BY LenProperties
<1> QED BY <1>1, <1>2, SubSeqProperties DEF Prefix

\* A prefix of a concatenation that ends in its first part.
LEMMA PrefixInFirst ==
  ASSUME NEW S, NEW s \in Seq(S), NEW t \in Seq(S), NEW n \in 0 .. Len(s)
  PROVE  Prefix(s \o t, n) = Prefix(s, n)
<1>1. /\ s \o t \in Seq(S) /\ Len(s \o t) = Len(s) + Len(t)
      /\ \A i \in 1 .. Len(s) : (s \o t)[i] = s[i]
      /\ Len(s) \in Nat /\ Len(t) \in Nat
  BY ConcatProperties, LenProperties
<1>2. n \in 0 .. Len(s \o t)
  BY <1>1
<1>3. /\ Prefix(s, n) \in Seq(S) /\ Prefix(s \o t, n) \in Seq(S)
      /\ Len(Prefix(s, n)) = n /\ Len(Prefix(s \o t, n)) = n
      /\ \A i \in 1 .. n : Prefix(s, n)[i] = s[i]
      /\ \A i \in 1 .. n : Prefix(s \o t, n)[i] = (s \o t)[i]
  BY <1>1, <1>2, PrefixFacts
<1>4. \A i \in 1 .. n : Prefix(s \o t, n)[i] = Prefix(s, n)[i]
  BY <1>1, <1>3
<1> HIDE DEF Prefix
<1> QED BY <1>3, <1>4, SeqEqual

LEMMA WholePrefix ==
  ASSUME NEW S, NEW s \in Seq(S)
  PROVE  Prefix(s, Len(s)) = s /\ Prefix(s, 0) = << >>
BY SubSeqFull, SubSeqEmpty DEF Prefix

LEMMA FirstOfConcat ==
  ASSUME NEW S, NEW s \in Seq(S), NEW t \in Seq(S)
  PROVE  Prefix(s \o t, Len(s)) = s
BY PrefixInFirst, WholePrefix, LenProperties

LEMMA ExtendsConcat ==
  ASSUME NEW S, NEW s \in Seq(S), NEW t \in Seq(S)
  PROVE  Extends(s, s \o t)
BY FirstOfConcat, ConcatProperties, LenProperties DEF Extends

\* A greedy output followed by the target's prediction is greedy.
LEMMA GreedyAppend ==
  ASSUME NEW m \in Model, NEW s \in Seq(Token), NEW e \in Token,
         NEW n \in 0 .. Len(s),
         GreedyFrom(m, s, n),
         Len(s) > n => s[Len(s)] \notin Eos,
         e = Target(m, s)
  PROVE  GreedyFrom(m, s \o <<e>>, n)
<1> DEFINE t == <<e>>
<1>1. t \in Seq(Token) /\ Len(t) = 1 /\ t[1] = e
  OBVIOUS
<1> HIDE DEF t
<1>2. /\ Len(s) \in Nat /\ Len(s \o t) = Len(s) + 1
      /\ \A i \in 1 .. Len(s) + 1 : (s \o t)[i] =
           IF i <= Len(s) THEN s[i] ELSE t[i - Len(s)]
  <2>1. /\ Len(s) \in Nat /\ Len(s \o t) = Len(s) + Len(t)
        /\ \A i \in 1 .. Len(s) + Len(t) : (s \o t)[i] =
             IF i <= Len(s) THEN s[i] ELSE t[i - Len(s)]
    BY <1>1, ConcatProperties, LenProperties
  <2> QED BY <1>1, <2>1
<1>3. ASSUME NEW i \in n + 1 .. Len(s \o t)
      PROVE  /\ (s \o t)[i] = Target(m, Prefix(s \o t, i - 1))
             /\ i < Len(s \o t) => (s \o t)[i] \notin Eos
  <2>1. i - 1 \in 0 .. Len(s) /\ i \in 1 .. Len(s) + 1
    BY <1>2
  <2>2. Prefix(s \o t, i - 1) = Prefix(s, i - 1)
    BY <1>1, <2>1, PrefixInFirst
  <2>3. CASE i <= Len(s)
    <3>1. i \in n + 1 .. Len(s) /\ (s \o t)[i] = s[i]
      BY <1>2, <2>1, <2>3
    <3>2. s[i] = Target(m, Prefix(s, i - 1)) /\ (i < Len(s) => s[i] \notin Eos)
      BY <3>1 DEF GreedyFrom
    <3>3. i = Len(s) => s[i] \notin Eos
      BY <1>2, <3>1
    <3>4. i < Len(s) \/ i = Len(s)
      BY <1>2, <2>1, <2>3
    <3> QED BY <2>2, <3>1, <3>2, <3>3, <3>4
  <2>4. CASE i = Len(s) + 1
    <3>1. (s \o t)[i] = e /\ i - 1 = Len(s) /\ ~(i < Len(s \o t))
      BY <1>1, <1>2, <2>4
    <3>2. Prefix(s, i - 1) = s
      BY <3>1, WholePrefix
    <3> QED BY <2>2, <3>1, <3>2
  <2> QED BY <1>2, <2>1, <2>3, <2>4
<1>4. GreedyFrom(m, s \o t, n)
  BY <1>3 DEF GreedyFrom
<1> QED BY <1>4 DEF t

-----------------------------------------------------------------------------
\* Passes of the target over caches that all hold the same tokens.

LEMMA TargetToken ==
  ASSUME NEW m \in Model, NEW s \in Seq(Token), s # << >>, Len(s) <= MaxPosition
  PROVE  Target(m, s) \in Token
<1>1. s \in [1 .. Len(s) -> Token] /\ Len(s) \in 1 .. MaxPosition
  BY LenProperties, EmptySeq, VocabularyAssumption
<1>2. s \in Context
  BY <1>1 DEF Context
<1> QED BY <1>2, VocabularyAssumption

LEMMA PassFacts ==
  ASSUME NEW m \in Model, NEW s \in Seq(Token), NEW more \in Seq(Token),
         more # << >>, Len(s) + Len(more) <= MaxPosition,
         NEW c, c = [k \in Slots |-> s],
         NEW rows \in Predictions(m, c, more)
  PROVE  /\ rows \in Seq(Token) /\ rows # << >> /\ Len(rows) = Len(more)
         /\ rows = [i \in 1 .. Len(more) |-> Target(m, s \o Prefix(more, i))]
         /\ LastRow(rows) = Target(m, s \o more)
         /\ LastRow(rows) \in Token
<1>1. Synchronised(c) /\ c[1] = s
  BY SlotAssumption DEF Synchronised, Slots
<1>2. rows = [i \in 1 .. Len(more) |-> Target(m, s \o Prefix(more, i))]
  BY <1>1 DEF Predictions
<1>3. Len(more) \in Nat \ {0} /\ Len(s) \in Nat
  BY LenProperties, EmptySeq
<1>4. ASSUME NEW i \in 1 .. Len(more) PROVE Target(m, s \o Prefix(more, i)) \in Token
  <2>1. Prefix(more, i) \in Seq(Token) /\ Len(Prefix(more, i)) = i
    BY PrefixFacts
  <2>2. s \o Prefix(more, i) \in Seq(Token) /\ Len(s \o Prefix(more, i)) = Len(s) + i
    BY <2>1, ConcatProperties
  <2>3. s \o Prefix(more, i) # << >> /\ Len(s) + i <= MaxPosition
    BY <1>3, <2>2, EmptySeq, VocabularyAssumption
  <2> QED BY <2>2, <2>3, TargetToken
<1>5. rows \in [1 .. Len(more) -> Token]
  BY <1>2, <1>4
<1>6. rows \in Seq(Token) /\ Len(rows) = Len(more) /\ rows # << >>
  BY <1>3, <1>5, SeqDef, LenProperties, EmptySeq
<1>7. LastRow(rows) = Target(m, s \o more)
  BY <1>2, <1>3, <1>6, WholePrefix DEF LastRow
<1>8. LastRow(rows) \in Token
  BY <1>3, <1>5, <1>6 DEF LastRow
<1> QED BY <1>2, <1>6, <1>7, <1>8

\* Whatever a failed pass leaves is still a row of caches.
LEMMA FailedFacts ==
  ASSUME NEW c \in [Slots -> Seq(Token)], NEW more \in Seq(Token), NEW capacity,
         NEW d \in FailedAdvances(c, more, capacity)
  PROVE  d \in [Slots -> Seq(Token)]
<1>1. \A s \in Slots : c[s] \in Seq(Token) /\ c[s] \o more \in Seq(Token)
  BY ConcatProperties
<1>2. PICK k \in 0 .. NumSlots : d = AdvanceUpTo(c, more, k)
  BY DEF FailedAdvances
<1> QED BY <1>1, <1>2 DEF AdvanceUpTo

-----------------------------------------------------------------------------
\* The inductive invariant.

InStep == {"target", "probe", "decide"}

\* What every layer has read before the target pass of a step.
Read == IF step = 0 THEN << >> ELSE Prefix(generated, Len(generated) - 1)

\* A call has a request the model can serve, and runs within its budget.
RequestInv ==
  /\ pc # "idle" <=> status = "running"
  /\ pc # "idle" =>
       /\ prompt_count >= 1 /\ max_new_tokens >= 1
       /\ max_cache_len <= MaxPosition
       /\ prompt_count <= Len(generated) /\ Len(generated) <= max_cache_len
  /\ pc \in InStep => Len(generated) < max_cache_len
  /\ pc = "probe" => mode = "probe"

\* Every slot has read the text up to the step's inputs, then all of it; the
\* MTP history of a probing call is one pass behind.
CacheInv ==
  /\ pc = "target" => caches = [s \in Slots |-> Read]
  /\ pc \in {"probe", "decide"} => caches = [s \in Slots |-> generated]
  /\ pc \in InStep /\ mode = "probe" => mtp = Read

\* The output is greedy and unfinished until the call returns.
GreedyInv ==
  /\ pc # "idle" => GreedyFrom(model, generated, prompt_count)
  /\ pc \in InStep /\ Len(generated) > prompt_count =>
       generated[Len(generated)] \notin Eos
  /\ pc \in {"probe", "decide"} =>
       next \in Token /\ next = Target(model, generated)
  /\ pc = "return" => Complete(generated, prompt_count, max_new_tokens)

\* One guess per token of the output, the current step's not counted.
GuessInv ==
  pc # "idle" =>
    /\ counts.proposed = counts.accepted + counts.fallback
    /\ counts.proposed = IF mode = "probe" THEN step ELSE 0

PlainInv == TypeOK /\ RequestInv /\ CacheInv /\ GreedyInv /\ GuessInv

\* Between calls only the types matter.
LEMMA IdleInv ==
  ASSUME TypeOK', pc' = "idle", status' # "running"
  PROVE  PlainInv'
BY DEF PlainInv, RequestInv, CacheInv, GreedyInv, GuessInv, InStep

LEMMA EmptyTypes ==
  /\ << >> \in Seq(Token)
  /\ EmptyCaches \in [Slots -> Seq(Token)]
  /\ ZeroCounts \in [DOMAIN ZeroCounts -> Nat]
  /\ \A c : ResetCaches(c) = EmptyCaches
<1>1. << >> \in Seq(Token)
  BY EmptySeq
<1> QED BY <1>1 DEF EmptyCaches, ResetCaches, ZeroCounts

LEMMA InitInv == Init => PlainInv
<1> SUFFICES ASSUME Init PROVE PlainInv
  OBVIOUS
<1>1. TypeOK
  BY EmptyTypes DEF Init, TypeOK, Modes
<1> QED BY <1>1 DEF Init, PlainInv, RequestInv, CacheInv, GreedyInv, GuessInv, InStep

LEMMA GenerateInv ==
  ASSUME PlainInv, NEW p \in Prompts, NEW n \in Budgets, NEW m \in Modes,
         Generate(p, n, m)
  PROVE  PlainInv'
<1>1. p \in Seq(Token) /\ p # << >> /\ Len(p) \in Nat \ {0} /\ n \in Nat \ {0}
  BY RequestAssumption, EmptySeq
<1>2. TypeOK'
  BY <1>1, EmptyTypes DEF PlainInv, TypeOK, Generate
<1>3. CASE Len(p) + n > MaxPosition
  BY <1>2, <1>3, IdleInv DEF Generate
<1>4. CASE ~(Len(p) + n > MaxPosition)
  <2>1. RequestInv'
    BY <1>1, <1>4, VocabularyAssumption
    DEF Generate, RequestInv, InStep, max_cache_len
  <2>2. CacheInv'
    BY <1>1, <1>4, EmptyTypes DEF Generate, CacheInv, InStep, Read, step, EmptyCaches
  <2>3. GreedyInv'
    BY <1>1, <1>4 DEF Generate, GreedyInv, GreedyFrom, InStep
  <2>4. GuessInv'
    BY <1>1, <1>4 DEF Generate, GuessInv, ZeroCounts, step
  <2> QED BY <1>2, <2>1, <2>2, <2>3, <2>4 DEF PlainInv
<1> QED BY <1>3, <1>4

LEMMA BetweenCallsInv ==
  ASSUME PlainInv, Reject \/ Reset
  PROVE  PlainInv'
<1>1. TypeOK'
  BY EmptyTypes DEF PlainInv, TypeOK, Reject, Reset, request
<1>2. pc' = "idle" /\ status' # "running"
  BY DEF PlainInv, RequestInv, Reject, Reset
<1> QED BY <1>1, <1>2, IdleInv

\* In a step, what has been read and what is read next make up the text.
LEMMA StepFacts ==
  ASSUME PlainInv, pc \in InStep
  PROVE  /\ model \in Model /\ generated \in Seq(Token) /\ generated # << >>
         /\ Len(generated) \in Nat \ {0} /\ prompt_count \in 1 .. Len(generated)
         /\ Len(generated) < max_cache_len /\ max_cache_len <= MaxPosition
         /\ max_cache_len \in Nat
         /\ Read \in Seq(Token) /\ ids \in Seq(Token) /\ ids # << >>
         /\ Read \o ids = generated
         /\ Len(Read) + Len(ids) = Len(generated)
<1>1. /\ model \in Model /\ generated \in Seq(Token)
      /\ prompt_count \in Nat /\ max_new_tokens \in Nat
      /\ prompt_count >= 1 /\ prompt_count <= Len(generated)
      /\ Len(generated) < max_cache_len /\ max_cache_len <= MaxPosition
  BY DEF PlainInv, TypeOK, RequestInv, InStep
<1>2. /\ Len(generated) \in Nat \ {0} /\ prompt_count \in 1 .. Len(generated)
      /\ max_cache_len \in Nat /\ generated # << >>
  BY <1>1, LenProperties, EmptySeq DEF max_cache_len
<1>3. CASE step = 0
  <2>1. Read = << >> /\ ids = generated
    BY <1>3 DEF Read, ids
  <2> QED BY <1>1, <1>2, <2>1, ConcatEmptySeq, EmptySeq
<1>4. CASE step # 0
  <2> DEFINE n == Len(generated) - 1
  <2>1. n \in 0 .. Len(generated) /\ n + 1 = Len(generated)
    BY <1>2
  <2>2. Read = Prefix(generated, n) /\ ids = <<generated[n + 1]>>
    BY <1>4, <2>1 DEF Read, ids
  <2> HIDE DEF n
  <2>3. /\ Prefix(generated, n) \in Seq(Token) /\ Len(Prefix(generated, n)) = n
        /\ \A i \in 1 .. n : Prefix(generated, n)[i] = generated[i]
    BY <1>1, <2>1, PrefixFacts
  <2>4. generated[n + 1] \in Token
    BY <1>1, <1>2, <2>1, ElementOfSeq
  <2> DEFINE t == <<generated[n + 1]>>
             r == Prefix(generated, n)
  <2>5. t \in Seq(Token) /\ Len(t) = 1 /\ t[1] = generated[n + 1]
    BY <2>4
  <2>r. r \in Seq(Token) /\ Len(r) = n /\ \A i \in 1 .. n : r[i] = generated[i]
    BY <2>3
  <2> HIDE DEF t, r
  <2>6. /\ r \o t \in Seq(Token) /\ Len(r \o t) = Len(generated)
        /\ \A i \in 1 .. Len(r) + Len(t) :
             (r \o t)[i] = IF i <= Len(r) THEN r[i] ELSE t[i - Len(r)]
    <3>1. /\ r \o t \in Seq(Token) /\ Len(r \o t) = Len(r) + Len(t)
          /\ \A i \in 1 .. Len(r) + Len(t) :
               (r \o t)[i] = IF i <= Len(r) THEN r[i] ELSE t[i - Len(r)]
      BY <2>5, <2>r, ConcatProperties
    <3> QED BY <2>1, <2>5, <2>r, <3>1
  <2>7. \A i \in 1 .. Len(generated) : (r \o t)[i] = generated[i]
    <3> SUFFICES ASSUME NEW i \in 1 .. n + 1 PROVE (r \o t)[i] = generated[i]
      BY <2>1
    <3>0. i \in 1 .. Len(r) + Len(t) /\ n \in Nat
      BY <2>1, <2>5, <2>r
    <3>1. CASE i <= n
      BY <3>0, <2>6, <2>r, <3>1
    <3>2. CASE i = n + 1
      <4>1. (r \o t)[i] = t[i - Len(r)] /\ i - Len(r) = 1
        BY <3>0, <2>6, <2>r, <3>2
      <4> QED BY <2>5, <3>2, <4>1
    <3> QED BY <3>0, <3>1, <3>2
  <2>8. r \o t = generated
    BY <1>1, <2>6, <2>7, SeqEqual
  <2>9. t # << >>
    BY DEF t
  <2>10. Read = r /\ ids = t
    BY <2>2 DEF r, t
  <2> QED BY <1>1, <1>2, <2>1, <2>5, <2>r, <2>8, <2>9, <2>10
<1> QED BY <1>1, <1>2, <1>3, <1>4

LEMMA TargetPassInv ==
  ASSUME PlainInv, TargetPass
  PROVE  PlainInv'
<1>1. pc = "target" /\ pc \in InStep /\ pc' \in {"probe", "decide"}
      /\ pc' = (IF mode = "probe" THEN "probe" ELSE "decide")
      /\ UNCHANGED <<request, generated, status, mtp, counts>>
  BY DEF TargetPass, InStep
<1>2. PICK rows \in Predictions(model, caches, ids) : next' = LastRow(rows)
  BY DEF TargetPass
<1>3. caches = [s \in Slots |-> Read]
  BY <1>1 DEF PlainInv, CacheInv
<1>4. next' = Target(model, generated) /\ next' \in Token
  <2> DEFINE r == Read
             j == ids
  <2>1. /\ r \in Seq(Token) /\ j \in Seq(Token) /\ j # << >>
        /\ Len(r) + Len(j) <= MaxPosition
        /\ caches = [s \in Slots |-> r] /\ rows \in Predictions(model, caches, j)
        /\ model \in Model
    <3>1. /\ Len(Read) + Len(ids) = Len(generated)
          /\ Len(generated) < max_cache_len /\ max_cache_len <= MaxPosition
          /\ Len(generated) \in Nat /\ max_cache_len \in Nat
      BY <1>1, StepFacts
    <3>2. Len(Read) + Len(ids) <= MaxPosition
      BY <3>1, VocabularyAssumption
    <3> QED BY <1>1, <1>2, <1>3, <3>2, StepFacts
  <2>o. r \o j = generated
    BY <1>1, StepFacts
  <2> HIDE DEF r, j
  <2>2. LastRow(rows) = Target(model, r \o j)
    BY <2>1, PassFacts
  <2>3. LastRow(rows) \in Token
    BY <2>1, PassFacts
  <2> QED BY <1>2, <2>o, <2>2, <2>3
<1>5. caches' = [s \in Slots |-> generated]
  <2>1. caches' = [s \in Slots |-> Read \o ids]
    BY <1>3 DEF TargetPass, Advance
  <2> QED BY <1>1, <2>1, StepFacts
<1>6. TypeOK'
  BY <1>1, <1>4, <1>5, StepFacts DEF PlainInv, TypeOK, TargetPass, request
<1>7. RequestInv'
  BY <1>1 DEF PlainInv, RequestInv, InStep, request, max_cache_len
<1>8. CacheInv'
  BY <1>1, <1>5 DEF PlainInv, CacheInv, InStep, request, Read, step
<1>9. GreedyInv'
  BY <1>1, <1>4 DEF PlainInv, GreedyInv, InStep, request
<1>10. GuessInv'
  BY <1>1 DEF PlainInv, GuessInv, request, step
<1> QED BY <1>6, <1>7, <1>8, <1>9, <1>10 DEF PlainInv

LEMMA ProbeInv ==
  ASSUME PlainInv, NEW t \in Token, Probe(t)
  PROVE  PlainInv'
<1>1. /\ pc = "probe" /\ pc' = "decide"
      /\ UNCHANGED <<request, generated, status, caches, mtp, next, counts>>
  BY DEF Probe
<1>2. TypeOK'
  BY <1>1 DEF PlainInv, TypeOK, Probe, request
<1>3. RequestInv'
  BY <1>1 DEF PlainInv, RequestInv, InStep, request, max_cache_len
<1>4. CacheInv'
  BY <1>1 DEF PlainInv, CacheInv, InStep, request, Read, step
<1>5. GreedyInv'
  BY <1>1 DEF PlainInv, GreedyInv, InStep, request
<1>6. GuessInv'
  BY <1>1 DEF PlainInv, GuessInv, request, step
<1> QED BY <1>2, <1>3, <1>4, <1>5, <1>6 DEF PlainInv

LEMMA DecideInv ==
  ASSUME PlainInv, Decide
  PROVE  PlainInv'
<1>1. /\ pc = "decide" /\ pc \in InStep /\ pc' \in {"target", "return"}
      /\ pc' = (IF LoopEnds(next) THEN "return" ELSE "target")
      /\ generated' = Append(generated, next)
      /\ UNCHANGED <<model, prompt_count, max_new_tokens, mode, status, caches>>
  BY DEF Decide, InStep, request
<1>2. next \in Token /\ next = Target(model, generated)
  BY <1>1 DEF PlainInv, GreedyInv
<1>3. /\ generated' = generated \o <<next>> /\ generated' \in Seq(Token)
      /\ Len(generated') = Len(generated) + 1
      /\ generated'[Len(generated) + 1] = next
      /\ \A i \in 1 .. Len(generated) : generated'[i] = generated[i]
  BY <1>1, <1>2, StepFacts, AppendProperties, AppendIsConcat
<1>f. /\ generated \in Seq(Token) /\ Len(generated) \in Nat \ {0}
      /\ prompt_count \in 1 .. Len(generated)
      /\ Len(generated) < max_cache_len /\ max_cache_len \in Nat
      /\ prompt_count \in Nat /\ max_new_tokens \in Nat
      /\ step \in Nat /\ step' = step + 1 /\ step' # 0
  BY <1>1, <1>3, StepFacts DEF step, PlainInv, TypeOK
<1>4. Prefix(generated', Len(generated') - 1) = generated /\ Read' = generated
  <2>1. Len(generated') - 1 = Len(generated)
    BY <1>3, <1>f
  <2>2. Prefix(generated \o <<next>>, Len(generated)) = generated
    <3> DEFINE t == <<next>>
    <3>1. t \in Seq(Token)
      BY <1>2
    <3> HIDE DEF t
    <3>2. Prefix(generated \o t, Len(generated)) = generated
      BY <1>f, <3>1, FirstOfConcat
    <3> QED BY <3>2 DEF t
  <2>3. Prefix(generated', Len(generated') - 1) = generated
    BY <1>3, <2>1, <2>2
  <2> QED BY <1>f, <2>3 DEF Read
<1>5. mode = "probe" => mtp' = generated
  <2> HAVE mode = "probe"
  <2>1. mtp = Read
    BY <1>1 DEF PlainInv, CacheInv
  <2>2. mtp' = mtp \o ids
    BY DEF Decide, ProbeHistory
  <2> QED BY <1>1, <2>1, <2>2, StepFacts
<1>6. counts' \in [DOMAIN ZeroCounts -> Nat] /\ GuessInv'
  <2>1. /\ counts \in [DOMAIN ZeroCounts -> Nat]
        /\ counts.proposed = counts.accepted + counts.fallback
        /\ counts.proposed = IF mode = "probe" THEN step ELSE 0
    BY <1>1 DEF PlainInv, TypeOK, GuessInv
  <2>2. DOMAIN ZeroCounts = {"proposed", "accepted", "fallback"}
    BY DEF ZeroCounts
  <2>3. CASE mode = "probe"
    <3>1. counts' = AgreementCounts(counts)
      BY <2>3 DEF Decide
    <3>a. counts.proposed \in Nat /\ counts.accepted \in Nat /\ counts.fallback \in Nat
      BY <2>1, <2>2
    <3>b. /\ DOMAIN counts = {"proposed", "accepted", "fallback"}
          /\ \A k \in {"proposed", "accepted", "fallback"} : counts[k] \in Nat
      BY <2>1, <2>2
    <3>2. /\ counts'.proposed = counts.proposed + 1
          /\ counts'.accepted = IF mtp_next = next THEN counts.accepted + 1 ELSE counts.accepted
          /\ counts'.fallback = IF mtp_next = next THEN counts.fallback ELSE counts.fallback + 1
          /\ counts' = [k \in {"proposed", "accepted", "fallback"} |-> counts'[k]]
      <4>1. CASE mtp_next = next
        BY <3>1, <3>b, <4>1 DEF AgreementCounts
      <4>2. CASE mtp_next # next
        BY <3>1, <3>b, <4>2 DEF AgreementCounts
      <4> QED BY <4>1, <4>2
    <3>3. \A k \in {"proposed", "accepted", "fallback"} : counts'[k] \in Nat
      BY <3>a, <3>2
    <3>4. counts' \in [DOMAIN ZeroCounts -> Nat]
      BY <2>2, <3>2, <3>3
    <3>5. counts'.proposed = counts'.accepted + counts'.fallback
      BY <2>1, <3>a, <3>2
    <3> QED BY <1>1, <1>f, <2>1, <2>3, <3>2, <3>4, <3>5 DEF GuessInv
  <2>4. CASE mode # "probe"
    <3>1. counts' = counts
      BY <2>4 DEF Decide
    <3> QED BY <1>1, <2>1, <2>4, <3>1 DEF GuessInv
  <2> QED BY <2>3, <2>4
<1>7. TypeOK'
  <2>1. mtp' \in Seq(Token)
    <3>1. mode # "probe" => mtp' = mtp
      BY DEF Decide
    <3> QED BY <1>5, <1>f, <3>1 DEF PlainInv, TypeOK
  <2> QED BY <1>1, <1>3, <1>6, <2>1 DEF PlainInv, TypeOK, Decide
<1>8. LoopEnds(next) = (next \in Eos \/ step + 1 = max_new_tokens)
  BY DEF LoopEnds
<1>9. RequestInv'
  <2>1. max_cache_len' = max_cache_len /\ Len(generated') <= max_cache_len
    BY <1>1, <1>3, <1>f DEF max_cache_len
  <2>2. ASSUME pc' = "target" PROVE Len(generated') < max_cache_len
    <3>1. step + 1 # max_new_tokens
      BY <1>1, <1>8, <2>2
    <3> DEFINE n == Len(generated)
               k == Len(generated')
    <3>2. /\ n \in Nat /\ prompt_count \in Nat /\ max_new_tokens \in Nat
          /\ k = n + 1 /\ n < prompt_count + max_new_tokens
      BY <1>3, <1>f DEF max_cache_len
    <3>3. n - prompt_count + 1 # max_new_tokens
      BY <3>1 DEF step
    <3> HIDE DEF n, k
    <3>4. k < prompt_count + max_new_tokens
      BY <3>2, <3>3
    <3> QED BY <3>4 DEF k, max_cache_len
  <2> QED BY <1>1, <1>3, <1>f, <2>1, <2>2 DEF PlainInv, RequestInv, InStep
<1>10. CacheInv'
  <2>1. caches = [s \in Slots |-> generated]
    BY <1>1 DEF PlainInv, CacheInv
  <2>2. pc' \notin {"probe", "decide"} /\ mode' = mode /\ caches' = caches
    BY <1>1
  <2> QED BY <1>4, <1>5, <2>1, <2>2 DEF CacheInv
<1>11. GreedyInv'
  <2>1. /\ GreedyFrom(model, generated, prompt_count)
        /\ Len(generated) > prompt_count => generated[Len(generated)] \notin Eos
    BY <1>1 DEF PlainInv, GreedyInv
  <2>2. GreedyFrom(model, generated \o <<next>>, prompt_count)
    <3>1. model \in Model /\ prompt_count \in 0 .. Len(generated)
      BY <1>1, <1>f, StepFacts
    <3> QED BY <1>2, <1>f, <2>1, <3>1, GreedyAppend
  <2>3. pc' = "target" => generated'[Len(generated')] \notin Eos
    BY <1>1, <1>3, <1>8
  <2>4. pc' = "return" => Complete(generated', prompt_count', max_new_tokens')
    <3> HAVE pc' = "return"
    <3>1. next \in Eos \/ step + 1 = max_new_tokens
      BY <1>1, <1>8
    <3>2. Len(generated') > prompt_count
      BY <1>3, <1>f
    <3>3. Len(generated') = prompt_count + max_new_tokens \/ generated'[Len(generated')] \in Eos
      BY <1>3, <1>f, <3>1 DEF step
    <3> QED BY <1>1, <3>2, <3>3 DEF Complete
  <2> QED BY <1>1, <1>3, <2>2, <2>3, <2>4 DEF GreedyInv, InStep
<1> QED BY <1>6, <1>7, <1>9, <1>10, <1>11 DEF PlainInv

LEMMA ReturnInv ==
  ASSUME PlainInv, Return
  PROVE  PlainInv'
<1>1. result' \in Seq(Token)
  <2>1. /\ generated \in Seq(Token) /\ Len(generated) \in Nat
        /\ prompt_count + 1 \in 1 .. Len(generated) + 1
    BY LenProperties DEF PlainInv, TypeOK, RequestInv, Return
  <2>2. \A i \in prompt_count + 1 .. Len(generated) : generated[i] \in Token
    BY <2>1, ElementOfSeq
  <2> QED BY <2>1, <2>2, SubSeqProperties DEF Return, Suffix
<1>2. TypeOK'
  BY <1>1 DEF PlainInv, TypeOK, Return, request
<1> QED BY <1>2, IdleInv DEF Return

LEMMA FailureInv ==
  ASSUME PlainInv, Failure
  PROVE  PlainInv'
<1>1. Abort
  BY DEF Failure, FailTargetPass, FailAfterTargetPass
<1>2. caches' \in [Slots -> Seq(Token)]
  <2>1. caches \in [Slots -> Seq(Token)]
    BY DEF PlainInv, TypeOK
  <2>2. CASE FailTargetPass
    <3>1. ids \in Seq(Token)
      BY <2>2, StepFacts DEF FailTargetPass, InStep
    <3> QED BY <2>1, <2>2, <3>1, FailedFacts DEF FailTargetPass
  <2>3. CASE FailAfterTargetPass
    BY <2>1, <2>3 DEF FailAfterTargetPass
  <2> QED BY <2>2, <2>3 DEF Failure
<1>3. TypeOK'
  BY <1>1, <1>2 DEF PlainInv, TypeOK, Abort, request
<1> QED BY <1>1, <1>3, IdleInv DEF Abort

\* Every step keeps the invariant.
LEMMA StepInv == PlainInv /\ [Next]_vars => PlainInv'
<1> SUFFICES ASSUME PlainInv, [Next]_vars PROVE PlainInv'
  OBVIOUS
<1>1. CASE Call
  BY <1>1, GenerateInv, BetweenCallsInv DEF Call
<1>2. CASE Step
  BY <1>2, TargetPassInv, ProbeInv, DecideInv, ReturnInv DEF Step
<1>3. CASE Failure
  BY <1>3, FailureInv
<1>4. CASE UNCHANGED vars
  BY <1>4, ZenonT(30)
  DEF vars, request, PlainInv, TypeOK, RequestInv, CacheInv, GreedyInv, GuessInv,
      InStep, Read, step, max_cache_len
<1> QED BY <1>1, <1>2, <1>3, <1>4 DEF Next

-----------------------------------------------------------------------------
THEOREM PlainInvariant == Spec => []PlainInv
<1>1. Init => PlainInv
  BY InitInv
<1>2. PlainInv /\ [Next]_vars => PlainInv'
  BY StepInv
<1> QED BY <1>1, <1>2, PTL DEF Spec

\* TypeOK holds in every reachable state.
THEOREM PlainTypes == Spec => []TypeOK
<1>1. PlainInv => TypeOK
  BY DEF PlainInv
<1> QED BY <1>1, PlainInvariant, PTL

\* A step feeds every layer, and the MTP head, exactly what they have not read.
THEOREM PlainReadsOnce == Spec => []EachTokenReadOnce
<1>1. PlainInv => EachTokenReadOnce
  <2> SUFFICES ASSUME PlainInv PROVE EachTokenReadOnce
    OBVIOUS
  <2>1. pc \in InStep => Read \o ids = generated
    BY StepFacts
  <2> QED BY <2>1 DEF PlainInv, CacheInv, EachTokenReadOnce, InStep
<1> QED BY <1>1, PlainInvariant, PTL

\* A probing call counts one guess for each token of its output.
THEOREM PlainGuesses == Spec => []GuessesBalance
<1>1. PlainInv => GuessesBalance
  BY DEF PlainInv, GuessInv, GuessesBalance
<1> QED BY <1>1, PlainInvariant, PTL

-----------------------------------------------------------------------------
\* The refinement: Decide emits a token, the passes are invisible.

LEMMA StepRefines == PlainInv /\ [Next]_vars => [Greedy!Next]_(Greedy!greedyVars)
<1> SUFFICES ASSUME PlainInv, [Next]_vars,
                    Greedy!greedyVars' # Greedy!greedyVars
             PROVE  Greedy!Next
  OBVIOUS
<1>1. PlainInv'
  BY StepInv
<1>2. pc # "idle" <=> status = "running"
  BY DEF PlainInv, RequestInv
<1>3. ASSUME NEW p \in Prompts, NEW n \in Budgets, NEW m \in Modes, Generate(p, n, m)
      PROVE  Greedy!Next
  <2>1. CASE Len(p) + n > MaxPosition
    BY <1>2, <1>3, <2>1 DEF Generate, Greedy!Next, Greedy!Refuse
  <2>2. CASE ~(Len(p) + n > MaxPosition)
    <3>1. Greedy!Begin(p, n)
      BY <1>2, <1>3, <2>2 DEF Generate, Greedy!Begin
    <3> QED BY <3>1 DEF Greedy!Next
  <2> QED BY <2>1, <2>2
<1>4. CASE Reject
  BY <1>2, <1>4 DEF Reject, request, Greedy!Next, Greedy!Refuse
<1>5. CASE Decide
  <2>1. /\ generated \in Seq(Token) /\ next \in Token /\ Len(generated) \in Nat
        /\ generated' = generated \o <<next>> /\ status = "running"
        /\ pc' # "idle"
        /\ UNCHANGED <<model, prompt_count, max_new_tokens, status, result>>
    BY <1>2, <1>5, StepFacts, AppendIsConcat
    DEF Decide, InStep, PlainInv, GreedyInv, request
  <2>2. /\ Len(generated') > Len(generated) /\ Extends(generated, generated')
    <3> DEFINE t == <<next>>
    <3>1. t \in Seq(Token) /\ Len(t) = 1 /\ generated' = generated \o t
      BY <2>1
    <3> HIDE DEF t
    <3> QED BY <2>1, <3>1, ConcatProperties, ExtendsConcat
  <2>3. /\ GreedyFrom(model, generated', prompt_count)
        /\ Len(generated') <= prompt_count + max_new_tokens
    BY <1>1, <2>1 DEF PlainInv, GreedyInv, RequestInv, max_cache_len
  <2> QED BY <2>1, <2>2, <2>3
          DEF Greedy!Next, Greedy!Emit, Greedy!Extends, Greedy!Prefix,
              Greedy!GreedyFrom, Extends, Prefix, GreedyFrom
<1>6. CASE Return
  <2>1. Complete(generated, prompt_count, max_new_tokens) /\ status = "running"
    BY <1>6 DEF PlainInv, GreedyInv, RequestInv, Return
  <2> QED BY <1>6, <2>1
          DEF Return, request, Complete, Suffix,
              Greedy!Next, Greedy!Finish, Greedy!Complete, Greedy!Suffix
<1>7. CASE Failure
  <2>1. Abort /\ status = "running"
    BY <1>2, <1>7 DEF Failure, FailTargetPass, FailAfterTargetPass
  <2> QED BY <2>1 DEF Abort, request, Greedy!Next, Greedy!Fail
<1>8. ASSUME Reset \/ TargetPass \/ (\E t \in Token : Probe(t)) \/ UNCHANGED vars
      PROVE  FALSE
  BY <1>8 DEF Reset, TargetPass, Probe, vars, request, Greedy!greedyVars
<1> QED BY <1>3, <1>4, <1>5, <1>6, <1>7, <1>8 DEF Next, Call, Step

\* Whichever of its three modes a call uses, it implements greedy decoding.
THEOREM PlainIsGreedy == Spec => RefinesGreedy
<1>1. Init => Greedy!Init
  BY DEF Init, Greedy!Init
<1>2. PlainInv /\ [Next]_vars => [Greedy!Next]_(Greedy!greedyVars)
  BY StepRefines
<1> QED BY <1>1, <1>2, PlainInvariant, PTL DEF Spec, RefinesGreedy, Greedy!Spec
=============================================================================
