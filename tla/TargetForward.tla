--------------------------- MODULE TargetForward ----------------------------
(***************************************************************************)
(* One forward pass of the target model over its decoder caches, as both   *)
(* decoding loops of generate() use it.                                    *)
(*                                                                         *)
(* The caches are a row of slots in the order a pass updates them: an      *)
(* attention layer has one slot (its KV rows, whose number is              *)
(* AttentionKVCache::length), a DeltaNet layer has two (the convolution    *)
(* state, then the recurrent state together with DeltaNetCache::length).   *)
(* What a slot holds is determined by the tokens it has absorbed, so a     *)
(* slot is the sequence of those tokens.                                   *)
(***************************************************************************)
EXTENDS Decoding

CONSTANTS
  NumSlots,        \* number of cache slots of the loaded model
  AttentionSlots   \* the slots that are attention KV caches

ASSUME SlotAssumption ==
  /\ NumSlots \in Nat \ {0}
  /\ AttentionSlots \subseteq 1 .. NumSlots

Slots == 1 .. NumSlots

EmptyCaches == [s \in Slots |-> << >>]

\* reset(): every cache is replaced by a default-constructed one.
\* Faulty variant: only the KV caches are.
ResetKvOnly(c) == [s \in Slots |-> IF s \in AttentionSlots THEN << >> ELSE c[s]]
ResetCaches(c) == [s \in Slots |-> << >>]

\* AttentionLayer's capacity check, for the slots up to k: DeltaNet states
\* have a fixed size. Faulty variant: one row is held back.
FitsWithSpare(c, ids, capacity, k) ==
  \A s \in AttentionSlots \cap 1 .. k : Len(c[s]) + Len(ids) < capacity
FitsUpTo(c, ids, capacity, k) ==
  \A s \in AttentionSlots \cap 1 .. k : Len(c[s]) + Len(ids) <= capacity

Fits(c, ids, capacity) == FitsUpTo(c, ids, capacity, NumSlots)

\* The pass got through the first k slots.
AdvanceUpTo(c, ids, k) == [s \in Slots |-> IF s <= k THEN c[s] \o ids ELSE c[s]]

Advance(c, ids) == [s \in Slots |-> c[s] \o ids]

\* What a pass that fails leaves behind: the slots before the failure have
\* absorbed the tokens, the others have not. k = NumSlots is a failure after
\* the last layer (final norm, lm_head, argmax, row copy).
FailedAdvances(c, ids, capacity) ==
  {AdvanceUpTo(c, ids, k) : k \in {j \in 0 .. NumSlots : FitsUpTo(c, ids, capacity, j)}}

\* All layers have absorbed the same tokens.
Synchronised(c) == \A s, t \in Slots : c[s] = c[t]

\* The argmax of the last row of the logits.
LastRow(rows) == rows[Len(rows)]

\* argmax of each row of the logits. Row i has read the cached context and
\* ids[1 .. i]; layers that disagree about the context predict anything.
Predictions(m, c, ids) ==
  IF Synchronised(c)
  THEN {[i \in 1 .. Len(ids) |-> Target(m, c[1] \o Prefix(ids, i))]}
  ELSE [1 .. Len(ids) -> Token]
=============================================================================
