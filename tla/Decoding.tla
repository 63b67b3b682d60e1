------------------------------ MODULE Decoding ------------------------------
(***************************************************************************)
(* The vocabulary, the target model and the requests that every decoding   *)
(* loop of the generator shares, and what it means for a token sequence    *)
(* to be the greedy continuation of a prompt.                              *)
(***************************************************************************)
EXTENDS Integers, Sequences

CONSTANTS
  Token,          \* the vocabulary
  Eos,            \* end-of-sequence token ids (config and tokenizer merged)
  Model,          \* the checkpoints a generator may have loaded
  Target(_, _),   \* Target(m, s): argmax of the logits of m after reading s
  Prompts,        \* encoded prompts a caller may pass
  Budgets,        \* values of max_new_tokens a caller may pass
  MaxPosition     \* config.max_position_embeddings

\* What a forward pass may have read: at most MaxPosition tokens.
Context == UNION {[1 .. n -> Token] : n \in 1 .. MaxPosition}

ASSUME VocabularyAssumption ==
  /\ Eos \subseteq Token
  /\ MaxPosition \in Nat
  /\ \A m \in Model : \A s \in Context : Target(m, s) \in Token

ASSUME RequestAssumption ==
  /\ Prompts \subseteq Seq(Token) \ {<< >>}
  /\ Budgets \subseteq Nat \ {0}

Prefix(s, n) == SubSeq(s, 1, n)

\* Every token after the first n is the target's argmax after the tokens
\* before it, and nothing follows an end-of-sequence token.
GreedyFrom(m, s, n) ==
  \A i \in n + 1 .. Len(s) :
    /\ s[i] = Target(m, Prefix(s, i - 1))
    /\ i < Len(s) => s[i] \notin Eos

\* A continuation of a prompt of n tokens may be returned: it filled its
\* budget or its last token ends the sequence.
Complete(s, n, budget) ==
  /\ Len(s) > n
  /\ Len(s) = n + budget \/ s[Len(s)] \in Eos

Suffix(s, n) == SubSeq(s, n + 1, Len(s))

Extends(s, t) == Len(s) <= Len(t) /\ Prefix(t, Len(s)) = s
=============================================================================
