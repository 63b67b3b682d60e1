----------------------------- MODULE RocblasHandle -----------------------------
(***************************************************************************)
(* The rocBLAS handle of a device (src/backends/hip/hip_backend.cc), which *)
(* all backend objects and all host threads share. A GEMM runs on the      *)
(* stream its handle was last given; each thread remembers which stream it *)
(* gave the handle last and does not set it again. Calls on the handle do  *)
(* not overlap: gemm() is one step.                                        *)
(***************************************************************************)
EXTENDS FiniteSets

CONSTANTS
  Threads,   \* host threads that call gemm()
  Devices,
  Streams    \* streams a caller may pass; NullStream is one of them

NullStream == "null"
NoStream == "none"
NoGemm == [device |-> NoStream, asked |-> NullStream, ran |-> NullStream]

VARIABLES
  handles,       \* the devices whose handle has been created
  stream,        \* device -> the stream its handle is set to
  last_streams,  \* thread -> device -> the stream it set last, or NoStream
  backends,      \* the backend objects that hold a handle, or failed to get it
  gemm           \* the last GEMM: where it was to run and where it ran

vars == <<handles, stream, last_streams, backends, gemm>>

\* HipBackend(): shared_rocblas_handle() creates the handle of a device once.
\* When that fails the object has no handle, and the next one tries again.
CreateBackend(d) ==
  \E created \in BOOLEAN :
    /\ d \in handles => created
    /\ handles' = IF created THEN handles \cup {d} ELSE handles
    /\ backends' = backends \cup {[device |-> d, rocblas |-> created]}
    /\ UNCHANGED <<stream, last_streams, gemm>>

\* A stream that is the one remembered is not set again. Setting another may
\* fail: then the thread remembers what it did before.
set_rocblas_stream_if_changed(t, d, s, ok) ==
  /\ last_streams[t][d] = s => ok
  /\ stream' = [stream EXCEPT ![d] = IF ok /\ last_streams[t][d] # s THEN s ELSE @]
  /\ last_streams' = [last_streams EXCEPT ![t][d] = IF ok THEN s ELSE @]

\* Without the stream the call returns before it starts anything.
Gemm(t, d, s) ==
  /\ [device |-> d, rocblas |-> TRUE] \in backends
  /\ \E ok \in BOOLEAN :
       /\ set_rocblas_stream_if_changed(t, d, s, ok)
       /\ gemm' = IF ok THEN [device |-> d, asked |-> s, ran |-> stream'[d]] ELSE gemm
  /\ UNCHANGED <<handles, backends>>

\* A new handle runs on the null stream.
Init ==
  /\ handles = {}
  /\ stream = [d \in Devices |-> NullStream]
  /\ last_streams = [t \in Threads |-> [d \in Devices |-> NoStream]]
  /\ backends = {}
  /\ gemm = NoGemm

Next ==
  \E d \in Devices :
    \/ CreateBackend(d)
    \/ \E t \in Threads, s \in Streams : Gemm(t, d, s)

Spec == Init /\ [][Next]_vars

-----------------------------------------------------------------------------
\* "keep the cache thread-local so different callers never reuse stream state
\* from another host thread" (hip_backend.cc): a GEMM runs on the stream that
\* its caller asks for, whatever other threads have done with the handle.
GemmRunsWhereAsked == gemm.ran = gemm.asked
=============================================================================
