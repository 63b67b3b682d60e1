---------------------------- MODULE MCDeviceStreams ----------------------------
(***************************************************************************)
(* Two devices with a few blocks of memory each.                           *)
(***************************************************************************)
EXTENDS DeviceStreams, TLC

CONSTANTS d1, d2, a1, a2, a3, b1, b2

MCHome == [b \in Blocks |-> IF b \in {a1, a2, a3} THEN d1 ELSE d2]

\* The blocks of one device are interchangeable.
BlockSymmetry == Permutations({a1, a2, a3}) \cup Permutations({b1, b2})
=============================================================================
