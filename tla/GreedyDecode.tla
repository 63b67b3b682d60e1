---------------------------- MODULE GreedyDecode ----------------------------
(***************************************************************************)
(* What Generator::generate promises to its caller (include/hybrid.h),     *)
(* whatever decoding strategy it uses inside: the tokens it returns are    *)
(* the greedy continuation of the prompt under the target model, they stop *)
(* at the first end-of-sequence token or at max_new_tokens, and a call     *)
(* that fails leaves the caller's result alone.                            *)
(***************************************************************************)
EXTENDS Decoding

VARIABLES
  model,            \* the loaded checkpoint
  generated,        \* the prompt followed by the tokens decided so far
  prompt_count,     \* length of the prompt inside generated
  max_new_tokens,   \* budget of the current call
  status,           \* "running" during a call, else how the last call ended
  result            \* token_ids of the caller's GenerationResult

greedyVars ==
  <<model, generated, prompt_count, max_new_tokens, status, result>>

-----------------------------------------------------------------------------
Init ==
  /\ model \in Model
  /\ generated = << >> /\ prompt_count = 0 /\ max_new_tokens = 0
  /\ status = "idle" /\ result = << >>

Begin(p, n) ==
  /\ status # "running"
  /\ status' = "running"
  /\ generated' = p /\ prompt_count' = Len(p) /\ max_new_tokens' = n
  /\ UNCHANGED <<model, result>>

Refuse ==
  /\ status # "running"
  /\ status' = "invalid"
  /\ UNCHANGED <<model, generated, prompt_count, max_new_tokens, result>>

\* One or more tokens are decided at once.
Emit ==
  /\ status = "running"
  /\ Len(generated') > Len(generated)
  /\ Extends(generated, generated')
  /\ Len(generated') <= prompt_count + max_new_tokens
  /\ GreedyFrom(model, generated', prompt_count)
  /\ UNCHANGED <<model, prompt_count, max_new_tokens, status, result>>

Finish ==
  /\ status = "running"
  /\ Complete(generated, prompt_count, max_new_tokens)
  /\ status' = "ok"
  /\ result' = Suffix(generated, prompt_count)
  /\ UNCHANGED <<model, generated, prompt_count, max_new_tokens>>

Fail ==
  /\ status = "running"
  /\ status' = "error"
  /\ UNCHANGED <<model, generated, prompt_count, max_new_tokens, result>>

Next ==
  \/ \E p \in Prompts, n \in Budgets : Begin(p, n)
  \/ Refuse \/ Emit \/ Finish \/ Fail

Spec == Init /\ [][Next]_greedyVars
=============================================================================
