---------------------------- MODULE MCRocblasHandle ----------------------------
(* Two threads, two devices, the null stream and one created stream.       *)
EXTENDS RocblasHandle

MCThreads == {"t1", "t2"}
MCDevices == {"d1", "d2"}
MCStreams == {NullStream, "s1"}
=============================================================================
