------------------------------ MODULE Placement ------------------------------
(***************************************************************************)
(* Which device owns which layer: consecutive ranges, one per device       *)
(* (src/models/qwen3_weights.cc, plan_distributed(), lines 396-440).       *)
(* Layers and devices are numbered from 0, as in the code.                 *)
(***************************************************************************)
EXTENDS Integers, FiniteSets

LayerNumbers(L) == 0 .. L - 1
DeviceNumbers(D) == 0 .. D - 1

\* Device i of D owns the layers from first_layer to last_layer.
first_layer(L, D, i) == (L * i) \div D
last_layer(L, D, i) == (L * (i + 1)) \div D - 1

Owned(L, D, i) == first_layer(L, D, i) .. last_layer(L, D, i)

\* Every layer has exactly one owner, every device a layer, and no device more
\* than one layer more than another; the layers go from device to device in
\* order. (doc/plan.md:9)
EachLayerOwnedOnce(L, D) ==
  \A l \in LayerNumbers(L) :
    \E i \in DeviceNumbers(D) :
      /\ l \in Owned(L, D, i)
      /\ \A j \in DeviceNumbers(D) : l \in Owned(L, D, j) => j = i

EachDeviceUsed(L, D) ==
  \A i \in DeviceNumbers(D) :
    first_layer(L, D, i) <= last_layer(L, D, i)

Share(L, D, i) == last_layer(L, D, i) - first_layer(L, D, i) + 1
SharesDifferByOne(L, D) ==
  \A i, j \in DeviceNumbers(D) : Share(L, D, i) <= Share(L, D, j) + 1
=============================================================================
