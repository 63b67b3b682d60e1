----------------------------- MODULE PlainDecode ----------------------------
(***************************************************************************)
(* The token-by-token branch of Generator::generate (src/generator.cc,     *)
(* lines 450-547 and 1119-1328). It has three modes:                       *)
(*   "plain"     the target pass alone, on the generator's own caches;     *)
(*   "probe"     GeneratorOptions::enable_mtp: after each target pass the  *)
(*               MTP head reads the same tokens and its guess is compared  *)
(*               with the target's token, which alone is kept;             *)
(*   "isolated"  enable_speculative_mtp without MTP layers: each target    *)
(*               pass runs on a clone that is swapped in when it succeeds. *)
(***************************************************************************)
EXTENDS TargetForward

CONSTANT NoToken   \* next and mtp_next before they are known

ASSUME NoTokenAssumption == NoToken \notin Token

VARIABLES
  model, generated, prompt_count, max_new_tokens, status, result,
  pc,         \* where the call is; "idle" between calls
  mode,       \* which of the three ways the call decodes
  caches,     \* attention_caches_ and deltanet_caches_
  mtp,        \* mtp_attention_caches_: the tokens it has absorbed
  next,       \* the last row's argmax of this step's target pass
  mtp_next,   \* the last row's argmax of this step's MTP pass
  counts      \* statistics of the call

request == <<model, prompt_count, max_new_tokens, mode>>
vars == <<request, generated, status, result, pc, caches, mtp, next, mtp_next,
          counts>>

-----------------------------------------------------------------------------
max_cache_len == prompt_count + max_new_tokens
step == Len(generated) - prompt_count

\* What a step feeds to the model: the prompt first, then the last token.
\* Faulty variant: the prompt again.
IdsAlwaysAll == generated
ids == IF step = 0 THEN generated ELSE <<generated[Len(generated)]>>

ZeroCounts == [proposed |-> 0, accepted |-> 0, fallback |-> 0]

Init ==
  /\ model \in Model
  /\ generated = << >> /\ prompt_count = 0 /\ max_new_tokens = 0
  /\ status = "idle" /\ result = << >> /\ pc = "idle" /\ mode = "plain"
  /\ caches = EmptyCaches /\ mtp = << >>
  /\ next = NoToken /\ mtp_next = NoToken
  /\ counts = ZeroCounts

Generate(p, n, m) ==
  /\ pc = "idle"
  /\ caches' = ResetCaches(caches) /\ mtp' = << >>
  /\ IF Len(p) + n > MaxPosition
     THEN /\ status' = "invalid"
          /\ UNCHANGED <<pc, generated, prompt_count, max_new_tokens, mode, counts>>
     ELSE /\ status' = "running" /\ pc' = "target"
          /\ generated' = p /\ prompt_count' = Len(p) /\ max_new_tokens' = n
          /\ mode' = m
          /\ counts' = ZeroCounts
  /\ UNCHANGED <<model, result, next, mtp_next>>

Reject ==
  /\ pc = "idle"
  /\ status' = "invalid"
  /\ UNCHANGED <<request, generated, result, pc, caches, mtp, next, mtp_next,
                 counts>>

Reset ==
  /\ pc = "idle"
  /\ caches' = ResetCaches(caches) /\ mtp' = << >>
  /\ UNCHANGED <<request, generated, status, result, pc, next, mtp_next, counts>>

\* The target pass of one step. Faulty variant: the argmax is never written
\* back.
TargetPassWithoutArgmax ==
  /\ pc = "target"
  /\ Fits(caches, ids, max_cache_len)
  /\ caches' = Advance(caches, ids)
  /\ pc' = IF mode = "probe" THEN "probe" ELSE "decide"
  /\ UNCHANGED <<request, generated, status, result, mtp, next, mtp_next, counts>>
TargetPass ==
  /\ pc = "target"
  /\ Fits(caches, ids, max_cache_len)
  /\ \E rows \in Predictions(model, caches, ids) : next' = LastRow(rows)
  /\ caches' = Advance(caches, ids)
  /\ pc' = IF mode = "probe" THEN "probe" ELSE "decide"
  /\ UNCHANGED <<request, generated, status, result, mtp, mtp_next, counts>>

\* The MTP pass of one step, on a clone that Decide swaps in.
Probe(t) ==
  /\ pc = "probe"
  /\ Len(mtp) + Len(ids) <= max_cache_len
  /\ mtp_next' = t
  /\ pc' = "decide"
  /\ UNCHANGED <<request, generated, status, result, caches, mtp, next, counts>>

\* A guess equal to the target's token counts as accepted, any other as a
\* fallback. Faulty variant: it counts as both.
AgreementCountsBoth(c) ==
  [c EXCEPT !.proposed = @ + 1,
            !.accepted = IF mtp_next = next THEN @ + 1 ELSE @,
            !.fallback = @ + 1]
AgreementCounts(c) ==
  [c EXCEPT !.proposed = @ + 1,
            !.accepted = IF mtp_next = next THEN @ + 1 ELSE @,
            !.fallback = IF mtp_next = next THEN @ ELSE @ + 1]

\* The MTP history of the next step. Faulty variant: the clone is dropped.
KeepProbeHistory == mtp
ProbeHistory == mtp \o ids

\* The token is appended; it ends the loop when it is an end-of-sequence
\* token or the budget is spent. Faulty variant: one step too many.
LoopEndsLate(t) == t \in Eos \/ step = max_new_tokens
LoopEnds(t) == t \in Eos \/ step + 1 = max_new_tokens

Decide ==
  /\ pc = "decide"
  /\ IF mode = "probe"
     THEN counts' = AgreementCounts(counts) /\ mtp' = ProbeHistory
     ELSE UNCHANGED <<counts, mtp>>
  /\ generated' = Append(generated, next)
  /\ pc' = IF LoopEnds(next) THEN "return" ELSE "target"
  /\ next' = NoToken /\ mtp_next' = NoToken
  /\ UNCHANGED <<request, status, result, caches>>

Return ==
  /\ pc = "return"
  /\ result' = Suffix(generated, prompt_count)
  /\ status' = "ok" /\ pc' = "idle"
  /\ UNCHANGED <<request, generated, caches, mtp, next, mtp_next, counts>>

-----------------------------------------------------------------------------
Abort ==
  /\ status' = "error" /\ pc' = "idle"
  /\ next' = NoToken /\ mtp_next' = NoToken
  /\ UNCHANGED <<request, generated, result, mtp, counts>>

\* A target pass fails: on a clone it leaves the caches alone.
FailTargetPass ==
  /\ pc = "target"
  /\ Abort
  /\ IF mode = "isolated"
     THEN UNCHANGED caches
     ELSE caches' \in FailedAdvances(caches, ids, max_cache_len)

\* The MTP pass or one of the argmaxes fails: the target pass is kept.
FailAfterTargetPass ==
  /\ pc \in {"probe", "decide"}
  /\ Abort
  /\ UNCHANGED caches

Failure == FailTargetPass \/ FailAfterTargetPass

Step == TargetPass \/ (\E t \in Token : Probe(t)) \/ Decide \/ Return

\* The mode of a call follows from its options and from whether MTP layers
\* are loaded; a load_model() that failed half-way may have unloaded them
\* between two calls, so any mode may follow any other.
Modes == {"plain", "probe", "isolated"}

Call ==
  \/ \E p \in Prompts, n \in Budgets, m \in Modes : Generate(p, n, m)
  \/ Reject \/ Reset

Next == Call \/ Step \/ Failure

Spec == Init /\ [][Next]_vars

\* A call in progress runs on until it returns; no failure is owed.
FairSpec == Spec /\ WF_vars(Step)

-----------------------------------------------------------------------------
TypeOK ==
  /\ model \in Model /\ mode \in Modes
  /\ generated \in Seq(Token) /\ prompt_count \in Nat /\ max_new_tokens \in Nat
  /\ status \in {"idle", "running", "ok", "invalid", "error"}
  /\ result \in Seq(Token)
  /\ pc \in {"idle", "target", "probe", "decide", "return"}
  /\ caches \in [Slots -> Seq(Token)] /\ mtp \in Seq(Token)
  /\ next \in Token \cup {NoToken} /\ mtp_next \in Token \cup {NoToken}
  /\ counts \in [DOMAIN ZeroCounts -> Nat]

\* A step's inputs are exactly the tokens the caches have not absorbed: no
\* position of the text is skipped or read twice by any layer, and the MTP
\* history of a probing call covers the same text.
EachTokenReadOnce ==
  /\ pc = "target" => \A s \in Slots : caches[s] \o ids = generated
  /\ pc = "target" /\ mode = "probe" => mtp \o ids = generated
  /\ pc \in {"probe", "decide"} => \A s \in Slots : caches[s] = generated

\* Every guess of the MTP head is counted once, and a call that probes has
\* one guess for each token of its output.
GuessesBalance ==
  pc \in {"target", "return"} =>
    /\ counts.proposed = counts.accepted + counts.fallback
    /\ counts.proposed = IF mode = "probe" THEN step ELSE 0

\* The three modes return what greedy decoding returns.
Greedy == INSTANCE GreedyDecode
RefinesGreedy == Greedy!Spec

\* Every call returns, and none needs a backend failure to do so.
CallsReturn == pc # "idle" ~> pc = "idle"
=============================================================================
