------------------------------ MODULE Allocator ------------------------------
(***************************************************************************)
(* What the interface Allocator (src/backends/interface/backend.h)         *)
(* promises: memory is granted to one caller at a time.                    *)
(***************************************************************************)
EXTENDS Integers

CONSTANTS Ptr, Sizes

VARIABLE live   \* live[p]: bytes granted at p, or 0

Init == live = [p \in Ptr |-> 0]

Allocate(n, p) == live[p] = 0 /\ live' = [live EXCEPT ![p] = n]

Deallocate(p) == live[p] > 0 /\ live' = [live EXCEPT ![p] = 0]

Next ==
  \/ \E n \in Sizes, p \in Ptr : Allocate(n, p)
  \/ \E p \in Ptr : Deallocate(p)

Spec == Init /\ [][Next]_live
=============================================================================
