----------------------------- MODULE CacheValues -----------------------------
(***************************************************************************)
(* What the decoder caches promise their user, the generator: every slot   *)
(* of the generator's own caches and of the scratch caches is a value, the *)
(* sequence of the tokens it has absorbed. A copy is a copy of values, and *)
(* nothing done to one object shows in the other. The decoding modules     *)
(* use caches of this kind; CacheObjects implements them with buffers.     *)
(***************************************************************************)
EXTENDS Sequences

CONSTANTS
  Token,
  Junk,    \* what memory holds that nobody has written
  Slots,   \* the places of one object that hold state
  Inputs   \* what forward passes read: non-empty sequences of tokens

VARIABLE value   \* value[o][s]: what slot s of object o has absorbed

Objects == {"live", "scratch"}

Blank == [s \in Slots |-> << >>]

Init == value = [o \in Objects |-> Blank]

\* A request begins, or scratch work is abandoned.
Clear(o) == value' = [value EXCEPT ![o] = Blank]
ClearAll == value' = [o \in Objects |-> Blank]

\* A layer of a forward pass over one of the objects.
Absorb(o, s) ==
  \E ids \in Inputs : value' = [value EXCEPT ![o][s] = @ \o ids]

\* Slots of the scratch object become copies; until then the copying may
\* leave anything in them.
Copy(S) ==
  value' = [value EXCEPT !["scratch"] =
              [s \in Slots |-> IF s \in S THEN value["live"][s] ELSE @[s]]]
Spoil(s) ==
  /\ value'["scratch"][s] \in Seq(Token \cup {Junk})
  /\ value' = [value EXCEPT !["scratch"][s] = value'["scratch"][s]]

\* Scratch work is committed.
Exchange == value' = [o \in Objects |->
                        IF o = "live" THEN value["scratch"] ELSE value["live"]]

\* Work on the live object is undone; the checkpoint is used up.
Undo ==
  /\ value'["live"] = value["scratch"]
  /\ value'["scratch"] \in [Slots -> Seq(Token \cup {Junk})]
  /\ DOMAIN value' = Objects

Next ==
  \/ ClearAll \/ Exchange \/ Undo
  \/ \E o \in Objects : Clear(o)
  \/ \E o \in Objects, s \in Slots : Absorb(o, s)
  \/ \E S \in SUBSET Slots : Copy(S)
  \/ \E s \in Slots : Spoil(s)

Spec == Init /\ [][Next]_value
=============================================================================
