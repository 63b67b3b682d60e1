------------------------ MODULE MCSpeculativeDecode -------------------------
(* A three-token vocabulary with one end-of-sequence token and models that  *)
(* end their output after a chosen number of tokens of context.             *)
EXTENDS SpeculativeDecode

MCToken == 0 .. 2
MCEos == {0}
MCModel == {3, 5, 9}

\* Model m ends a text of m tokens or more. Below that its prediction changes
\* with the length, the first and the last token of the context.
MCTarget(m, s) ==
  IF Len(s) >= m THEN 0 ELSE 1 + ((Len(s) + s[1] + s[Len(s)]) % 2)

\* Chat prompts hold end-of-sequence tokens; the last one is too long for
\* the largest budget.
MCPrompts == {<<1>>, <<2, 0>>, <<1, 0, 2>>}
MCBudgets == {1, 4, 6}
MCAttentionSlots == {3}
=============================================================================
