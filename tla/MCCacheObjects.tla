--------------------------- MODULE MCCacheObjects ---------------------------
(* A DeltaNet layer and an attention layer; two more buffers than the two    *)
(* sets of caches need, so that a leak would show.                           *)
EXTENDS CacheObjects

MCBuf == 1 .. 10
MCNoBuf == -1
MCToken == {1, 2}
MCInputs == {<<1>>, <<2>>, <<1, 2>>}
MCLinearLayers == {1}
MCCapacities == {2, 3}
=============================================================================
