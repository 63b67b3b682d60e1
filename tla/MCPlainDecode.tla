--------------------------- MODULE MCPlainDecode ----------------------------
(* The same small vocabulary and models as MCSpeculativeDecode.             *)
EXTENDS PlainDecode

MCToken == 0 .. 2
MCEos == {0}
MCModel == {3, 5, 9}
MCTarget(m, s) ==
  IF Len(s) >= m THEN 0 ELSE 1 + ((Len(s) + s[1] + s[Len(s)]) % 2)
MCPrompts == {<<1>>, <<2, 0>>, <<1, 0, 2>>}
MCBudgets == {1, 3, 5}
MCAttentionSlots == {3}
=============================================================================
