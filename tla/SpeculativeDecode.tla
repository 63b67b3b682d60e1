-------------------------- MODULE SpeculativeDecode -------------------------
(***************************************************************************)
(* The speculative branch of Generator::generate (src/generator.cc,        *)
(* lines 450-1117): the target model's own prediction (next_target) heads  *)
(* each round, the MTP head proposes up to Width further tokens, one       *)
(* target pass over a clone of the caches verifies them all, and the round *)
(* either commits the clone or replays the accepted prefix and the         *)
(* target's correction on the committed caches.                            *)
(*                                                                         *)
(* Every backend call may fail. A failure ends the call at once and leaves *)
(* the generator's own caches as the interrupted pass left them.           *)
(***************************************************************************)
EXTENDS TargetForward

CONSTANTS
  Width,     \* speculative_proposal_width()
  NoToken    \* next_target before there is one

ASSUME WidthAssumption == Width \in 1 .. 16
ASSUME NoTokenAssumption == NoToken \notin Token

VARIABLES
  model, generated, prompt_count, max_new_tokens, status, result,
  pc,              \* where the call is; "idle" between calls
  caches,          \* attention_caches_ and deltanet_caches_
  mtp,             \* mtp_attention_caches_: one row per absorbed input
  next_target,     \* the target's prediction after generated
  target_hidden,   \* tokens read by the hidden row passed to MTP, or NoHidden
  scratch,         \* mtp_scratch
  checkpoints,     \* mtp_prefix_checkpoints; entry k + 1 is checkpoint k
  candidates,      \* the proposal of this round
  verification,    \* the clone of caches the proposal was verified on
  predictions,     \* argmax rows of the last multi-row target pass
  counts           \* statistics of the call

request == <<model, prompt_count, max_new_tokens>>
locals == <<next_target, target_hidden, scratch, checkpoints, candidates,
            verification, predictions>>
vars == <<request, generated, status, result, pc, caches, mtp, locals, counts>>

-----------------------------------------------------------------------------
max_cache_len == prompt_count + max_new_tokens
Remaining == prompt_count + max_new_tokens - Len(generated)

\* A proposal leaves room for the correction that follows it. Faulty variant:
\* it fills the budget.
proposal_fills == IF Width < Remaining THEN Width ELSE Remaining
proposal_count == IF Width < Remaining - 1 THEN Width ELSE Remaining - 1

\* A row of an MTP cache: the token whose embedding entered and the number
\* of tokens read by the target hidden row it was paired with, or Draft when
\* it was paired with the MTP head's own hidden row. The index of the row is
\* its RoPE position.
Draft == 0
NoHidden == 0
Row(t, h) == [token |-> t, hidden |-> h]

\* Rows absorbed while seeding: prompt token i with its own hidden row.
PromptRows == [i \in 1 .. Len(generated) |-> Row(generated[i], i)]

verification_ids == <<next_target>> \o candidates

\* Length of the common prefix of the proposal and the target's predictions.
Accepted ==
  CHOOSE n \in 0 .. Len(candidates) :
    /\ \A i \in 1 .. n : predictions[i] = candidates[i]
    /\ n < Len(candidates) => predictions[n + 1] # candidates[n + 1]

correction == predictions[Accepted + 1]

\* Candidates after the accepted prefix. Faulty variant: only the refuted one
\* is counted.
FirstRejected == 1
Rejected == Len(candidates) - Accepted

\* The MTP history after a mismatch. Faulty variant: the whole proposal.
ProposalHistory == scratch
AcceptedHistory == checkpoints[Accepted + 1]

replay_ids == <<next_target>> \o Prefix(candidates, Accepted) \o <<correction>>

ZeroCounts ==
  [proposed |-> 0, accepted |-> 0, rejected |-> 0, corrections |-> 0,
   replayed |-> 0, rounds |-> 0, recovered |-> 0, mtpClones |-> 0,
   targetClones |-> 0]

\* The statistics after the events of a step.
Tally(events) ==
  [f \in DOMAIN counts |->
     counts[f] + (IF f \in DOMAIN events THEN events[f] ELSE 0)]

\* The variables of the loop, destroyed whenever the call returns.
NoLocals ==
  /\ next_target' = NoToken /\ target_hidden' = NoHidden
  /\ scratch' = << >> /\ checkpoints' = << >> /\ candidates' = << >>
  /\ verification' = EmptyCaches /\ predictions' = << >>

-----------------------------------------------------------------------------
Init ==
  /\ model \in Model
  /\ generated = << >> /\ prompt_count = 0 /\ max_new_tokens = 0
  /\ status = "idle" /\ result = << >> /\ pc = "idle"
  /\ caches = EmptyCaches /\ mtp = << >>
  /\ next_target = NoToken /\ target_hidden = NoHidden
  /\ scratch = << >> /\ checkpoints = << >> /\ candidates = << >>
  /\ verification = EmptyCaches /\ predictions = << >>
  /\ counts = ZeroCounts

\* generate() with a usable request: reset(), encode, the context check.
Generate(p, n) ==
  /\ pc = "idle"
  /\ caches' = ResetCaches(caches) /\ mtp' = << >>
  /\ IF Len(p) + n > MaxPosition
     THEN /\ status' = "invalid"
          /\ UNCHANGED <<pc, generated, prompt_count, max_new_tokens, counts>>
     ELSE /\ status' = "running" /\ pc' = "prefill"
          /\ generated' = p /\ prompt_count' = Len(p) /\ max_new_tokens' = n
          /\ counts' = ZeroCounts
  /\ UNCHANGED <<model, result, locals>>

\* generate() with an empty prompt, no budget, no result or no model.
Reject ==
  /\ pc = "idle"
  /\ status' = "invalid"
  /\ UNCHANGED <<request, generated, result, pc, caches, mtp, locals, counts>>

\* Generator::reset(), which the caller may also call itself.
Reset ==
  /\ pc = "idle"
  /\ caches' = ResetCaches(caches) /\ mtp' = << >>
  /\ UNCHANGED <<request, generated, status, result, pc, locals, counts>>

\* The prompt goes through the committed caches. Faulty variant: the argmax
\* is never written back.
PrefillWithoutArgmax ==
  /\ pc = "prefill"
  /\ Fits(caches, generated, max_cache_len)
  /\ caches' = Advance(caches, generated)
  /\ pc' = "seed"
  /\ UNCHANGED <<request, generated, status, result, mtp, locals, counts>>
Prefill ==
  /\ pc = "prefill"
  /\ Fits(caches, generated, max_cache_len)
  /\ \E rows \in Predictions(model, caches, generated) :
       next_target' = LastRow(rows)
  /\ caches' = Advance(caches, generated)
  /\ target_hidden' = Len(generated)
  /\ pc' = "seed"
  /\ UNCHANGED <<request, generated, status, result, mtp, scratch, checkpoints,
                 candidates, verification, predictions, counts>>

\* The prompt rows go through a fresh MTP cache, which is then swapped in.
SeedMtp ==
  /\ pc = "seed"
  /\ Len(generated) <= max_cache_len
  /\ mtp' = PromptRows
  /\ pc' = "head"
  /\ UNCHANGED <<request, generated, status, result, caches, locals, counts>>

\* Loop head, last token: next_target ends the sequence or the budget.
LastToken ==
  /\ pc = "head"
  /\ next_target \in Eos \/ Remaining = 1
  /\ generated' = Append(generated, next_target)
  /\ pc' = "return"
  /\ UNCHANGED <<request, status, result, caches, mtp, locals, counts>>

\* Loop head, otherwise: clone the MTP history into the scratch cache and
\* into checkpoint 0.
StartRound ==
  /\ pc = "head"
  /\ next_target \notin Eos /\ Remaining # 1
  /\ scratch' = mtp /\ checkpoints' = <<mtp>>
  /\ candidates' = << >>
  /\ counts' = Tally([rounds |-> 1, mtpClones |-> 2])
  /\ pc' = "propose"
  /\ UNCHANGED <<request, generated, status, result, caches, mtp, next_target,
                 target_hidden, verification, predictions>>

\* One MTP forward of the last candidate (first of next_target), its argmax
\* and a checkpoint of the scratch cache. The MTP head is not the target:
\* its candidate may be any token.
Propose(t) ==
  /\ pc = "propose"
  /\ target_hidden # NoHidden
  /\ Len(scratch) + 1 <= max_cache_len
  /\ scratch' = Append(scratch,
       IF candidates = << >> THEN Row(next_target, target_hidden)
                             ELSE Row(candidates[Len(candidates)], Draft))
  /\ candidates' = Append(candidates, t)
  /\ checkpoints' = Append(checkpoints, scratch')
  /\ counts' = Tally([proposed |-> 1, mtpClones |-> 1])
  /\ pc' = IF t \in Eos \/ Len(candidates') = proposal_count
           THEN "verify" ELSE "propose"
  /\ UNCHANGED <<request, generated, status, result, caches, mtp, next_target,
                 target_hidden, verification, predictions>>

\* One target pass over a clone of both cache families.
Verify ==
  /\ pc = "verify"
  /\ Fits(caches, verification_ids, max_cache_len)
  /\ predictions' \in Predictions(model, caches, verification_ids)
  /\ verification' = Advance(caches, verification_ids)
  /\ counts' = Tally([targetClones |-> 1])
  /\ pc' = "accept"
  /\ UNCHANGED <<request, generated, status, result, caches, mtp, next_target,
                 target_hidden, scratch, checkpoints, candidates>>

\* Where the loop goes once the tokens of a round are in s. Faulty variant:
\* only the budget ends it.
AfterRoundBudgetOnly(s) == IF Len(s) >= max_cache_len THEN "return" ELSE "head"
AfterRound(s) ==
  IF Len(s) >= max_cache_len \/ s[Len(s)] \in Eos THEN "return" ELSE "head"

\* Every candidate matched: the clone and the scratch cache are swapped in.
\* Nothing checks that the copy of the last hidden row succeeded.
CommitAll ==
  /\ pc = "accept"
  /\ Accepted = Len(candidates)
  /\ caches' = verification /\ mtp' = scratch
  /\ generated' = generated \o verification_ids
  /\ next_target' = LastRow(predictions)
  /\ target_hidden' \in {Len(verification[1]), NoHidden}
  /\ counts' = Tally([accepted |-> Len(candidates)])
  /\ pc' = AfterRound(generated')
  /\ UNCHANGED <<request, status, result, scratch, checkpoints, candidates,
                 verification, predictions>>

\* A candidate was refuted: next_target, the accepted prefix and the
\* correction go through the committed caches, and unless the call is over
\* the MTP history becomes the checkpoint of the accepted prefix.
Replay ==
  /\ pc = "accept"
  /\ Accepted < Len(candidates)
  /\ Fits(caches, replay_ids, max_cache_len)
  /\ predictions' \in Predictions(model, caches, replay_ids)
  /\ caches' = Advance(caches, replay_ids)
  /\ generated' = generated \o (IF Remaining > Accepted + 1 THEN replay_ids
                                ELSE <<next_target>> \o Prefix(candidates, Accepted))
  /\ counts' = Tally([accepted |-> Accepted, rejected |-> Rejected,
                      corrections |-> 1, replayed |-> Len(replay_ids)])
  /\ IF \/ Len(generated') >= max_cache_len
        \/ correction \in Eos
     THEN pc' = "return" /\ UNCHANGED mtp
     ELSE pc' = "recover" /\ mtp' = AcceptedHistory
  /\ UNCHANGED <<request, status, result, next_target, target_hidden, scratch,
                 checkpoints, candidates, verification>>

\* One MTP forward of the correction, paired with the replayed hidden row
\* before it, then the next target token from the replayed logits.
Recover ==
  /\ pc = "recover"
  /\ Len(mtp) + 1 <= max_cache_len
  /\ mtp' = Append(mtp, Row(generated[Len(generated)], Len(caches[1]) - 1))
  /\ next_target' = LastRow(predictions)
  /\ target_hidden' = Len(caches[1])
  /\ counts' = Tally([recovered |-> 1])
  /\ pc' = AfterRound(generated)
  /\ UNCHANGED <<request, generated, status, result, caches, scratch,
                 checkpoints, candidates, verification, predictions>>

\* The result is filled and the call returns OK.
Return ==
  /\ pc = "return"
  /\ result' = Suffix(generated, prompt_count)
  /\ status' = "ok" /\ pc' = "idle"
  /\ NoLocals
  /\ UNCHANGED <<request, generated, caches, mtp, counts>>

-----------------------------------------------------------------------------
\* A backend call fails and generate() returns the error.
Abort ==
  /\ status' = "error" /\ pc' = "idle"
  /\ NoLocals
  /\ UNCHANGED <<request, generated, result, counts>>

\* Clones, scratch and verification passes fail without touching what the
\* generator keeps.
FailOnClones ==
  /\ \/ pc \in {"seed", "verify"}
     \/ pc = "propose" /\ target_hidden # NoHidden
     \/ pc = "head" /\ next_target \notin Eos /\ Remaining # 1
  /\ Abort
  /\ UNCHANGED <<caches, mtp>>

\* The MTP head refuses the hidden row CommitAll failed to copy.
FailWithoutHidden ==
  /\ pc = "propose" /\ target_hidden = NoHidden
  /\ Abort
  /\ UNCHANGED <<caches, mtp>>

FailPrefill ==
  /\ pc = "prefill"
  /\ Abort
  /\ caches' \in FailedAdvances(caches, generated, max_cache_len)
  /\ UNCHANGED mtp

FailReplay ==
  /\ pc = "accept"
  /\ Accepted < Len(candidates)
  /\ Abort
  /\ caches' \in FailedAdvances(caches, replay_ids, max_cache_len)
  /\ UNCHANGED mtp

\* The recovery forward runs on the committed MTP history.
FailRecover ==
  /\ pc = "recover"
  /\ Abort
  /\ mtp' \in {mtp, Append(mtp, Row(generated[Len(generated)], Len(caches[1]) - 1))}
  /\ UNCHANGED caches

Failure == FailOnClones \/ FailPrefill \/ FailReplay \/ FailRecover

Step ==
  \/ Prefill \/ SeedMtp \/ LastToken \/ StartRound
  \/ \E t \in Token : Propose(t)
  \/ FailWithoutHidden
  \/ Verify \/ CommitAll \/ Replay \/ Recover \/ Return

Call ==
  \/ \E p \in Prompts, n \in Budgets : Generate(p, n)
  \/ Reject \/ Reset

Next == Call \/ Step \/ Failure

Spec == Init /\ [][Next]_vars

\* A call in progress is one thread that runs on until it returns. Nothing
\* obliges a caller to make another call, nor the backend to fail.
FairSpec == Spec /\ WF_vars(Step)

-----------------------------------------------------------------------------
Caches == [Slots -> Seq(Token)]
Rows == Seq([token : Token, hidden : Nat])

TypeOK ==
  /\ model \in Model
  /\ generated \in Seq(Token) /\ prompt_count \in Nat /\ max_new_tokens \in Nat
  /\ status \in {"idle", "running", "ok", "invalid", "error"}
  /\ result \in Seq(Token)
  /\ pc \in {"idle", "prefill", "seed", "head", "propose", "verify", "accept",
             "recover", "return"}
  /\ caches \in Caches /\ verification \in Caches
  /\ mtp \in Rows /\ scratch \in Rows /\ checkpoints \in Seq(Rows)
  /\ next_target \in Token \cup {NoToken} /\ target_hidden \in Nat
  /\ candidates \in Seq(Token) /\ predictions \in Seq(Token)
  /\ counts \in [DOMAIN ZeroCounts -> Nat]

\* From the prefill on, every committed cache of every layer has absorbed the
\* output and nothing else: no rejected candidate survives a round, no layer
\* lags behind another, and a failed earlier call has left nothing behind.
\* When the call is over only its last token may be missing.
CachesFollowOutput ==
  /\ pc = "prefill" => caches = EmptyCaches
  /\ pc \in {"seed", "head", "propose", "verify", "accept", "recover"} =>
       \A s \in Slots : caches[s] = generated
  /\ pc = "return" =>
       \A s \in Slots : \/ caches[s] = generated
                        \/ caches[s] = Prefix(generated, Len(generated) - 1)

\* No pass is ever refused by the capacity check of an attention cache:
\* a verification or replay writes past the tokens it may keep, but never
\* past the prompt_count + max_new_tokens rows the caches were sized for.
PassesFit ==
  /\ pc = "prefill" => Fits(caches, generated, max_cache_len)
  /\ pc = "seed" => Len(generated) <= max_cache_len
  /\ pc = "propose" => Len(scratch) < max_cache_len
  /\ pc = "verify" => Fits(caches, verification_ids, max_cache_len)
  /\ pc = "accept" /\ Accepted < Len(candidates) =>
       Fits(caches, replay_ids, max_cache_len)
  /\ pc = "recover" => Len(mtp) < max_cache_len

\* What the MTP history holds when a round begins: the prompt rows, then
\* rows of committed tokens only, each paired with the target hidden row of
\* the token before it or, inside a run of drafts, following in the output
\* the row before it. It is one row short for every round of the call.
MtpHistoryIsCommitted ==
  pc = "head" =>
    /\ Len(mtp) + counts.rounds = Len(generated)
    /\ \A i \in 1 .. prompt_count : mtp[i] = Row(generated[i], i)
    /\ \A i \in prompt_count + 1 .. Len(mtp) :
         \E b \in prompt_count + 1 .. i :
           /\ mtp[b].hidden # Draft
           /\ \A k \in b + 1 .. i : mtp[k].hidden = Draft
           /\ mtp[i].token = generated[mtp[b].hidden + 1 + (i - b)]

\* The statistics of a call add up: every proposed token was accepted or
\* rejected, every token of the output is a round's own target token, an
\* accepted candidate, a correction or the last token, every correction was
\* replayed after its round's accepted prefix, and each round cost one
\* target clone and two MTP clones plus one per candidate.
CountsBalance ==
  /\ pc \in {"head", "return"} =>
       /\ counts.proposed = counts.accepted + counts.rejected
       /\ counts.targetClones = counts.rounds
       /\ counts.corrections <= counts.rounds
       /\ counts.mtpClones = 2 * counts.rounds + counts.proposed
       /\ Len(generated) - prompt_count \in
            {counts.rounds + counts.accepted + counts.corrections + k : k \in {0, 1}}
  /\ pc = "head" =>
       /\ counts.recovered = counts.corrections
       /\ Len(generated) - prompt_count =
            counts.rounds + counts.accepted + counts.corrections

\* Speculation is invisible in the output: whatever the MTP head proposes and
\* whichever backend call fails, generate() does what greedy decoding does.
Greedy == INSTANCE GreedyDecode
RefinesGreedy == Greedy!Spec

\* Every call returns without waiting for a backend call to fail: the loop
\* always reaches its end, and no pass finds its caches too small.
CallsReturn == pc # "idle" ~> pc = "idle"

-----------------------------------------------------------------------------
\* tests/generator_mtp_test.cc:111-118 says that after a mismatch with two
\* accepted candidates "the committed MTP history contains the original nine
\* rows, next_target, and the two accepted candidate rows", retained_length
\* = base_length + 1 + accepted: all of the output but the correction.
MtpHistoryAfterMismatch == pc = "recover" => Len(mtp) = Len(generated) - 1

\* doc/plan.md:232-234 says that after a mismatch the request goes on in
\* "target-only fallback": it proposes nothing more.
NoProposalAfterMismatch == counts.corrections > 0 => pc # "propose"
=============================================================================
