----------------------------- MODULE DeviceStreams -----------------------------
(***************************************************************************)
(* The inference thread and the GPUs (src/backends/hip/hip_backend.cc).    *)
(* Every copy and every kernel is put on the null stream of its device and *)
(* executed there later, in order, while the thread goes on: it drops      *)
(* tensors, whose memory the pool hands out again at once, reuses the      *)
(* DeltaNet workspaces, moves tensors between devices, uploads weights     *)
(* through pinned memory and reads the next token back.                    *)
(*                                                                         *)
(* Program order says what a tensor holds (val); the devices decide what   *)
(* its memory holds. A command that does not find in memory what program   *)
(* order says produces Garbage.                                            *)
(*                                                                         *)
(* What the HIP runtime is taken to do: a stream executes in order; a copy *)
(* from pageable host memory has read it when the call returns; a copy     *)
(* between devices starts after what was put on the source's null stream   *)
(* before it. Kernels and copies do not fail.                              *)
(***************************************************************************)
EXTENDS Integers, Sequences

CONSTANTS
  Devices,   \* the HIP devices
  Blocks,    \* the blocks of device memory
  Home,      \* Home[b] is the device whose memory block b is
  MaxOps     \* bound: commands enqueued in a behaviour

\* Pinned staging memory and the host variable the token is read into.
Staging == "staging"
Result == "result"
Places == Blocks \cup {Staging, Result}

\* The contents that no command of the program has produced.
Garbage == 0
NoBlock == "none"

ASSUME HomeAssumption ==
  /\ Home \in [Blocks -> Devices]
  /\ Staging \notin Blocks /\ Result \notin Blocks /\ NoBlock \notin Blocks

VARIABLES
  memory,      \* place -> the value it holds
  queue,       \* device -> the commands on its null stream
  tensors,     \* the tensors the program holds: [dev, block, val]
  heap,        \* blocks not allocated from the runtime
  pools,       \* pool -> the blocks it keeps for reuse
  workspaces,  \* device -> the blocks in the static DeltaNet pools
  argmax,      \* device -> the buffer kept for the token, or NoBlock
  host,        \* what the inference thread is waiting for, or "run"
  answer,      \* the last token read: as read and by program order
  ops          \* commands enqueued so far

vars == <<memory, queue, tensors, heap, pools, workspaces, argmax, host, answer, ops>>

Tensor(d, b, v) == [dev |-> d, block |-> b, val |-> v]
Running == [wait |-> "run"]

-----------------------------------------------------------------------------
(* Memory. Each device and type has one pool, whichever backend object     *)
(* asks for it; the pool returns a kept block before it allocates another. *)

\* As shared_memory_pool, with a key that leaves out the device.
PoolOfType(d) == CHOOSE e \in Devices : TRUE

shared_memory_pool(d) == d

\* What create_buffer() may return when "taken" are in use already.
Free(d, taken) ==
  LET kept == pools[shared_memory_pool(d)] \ taken
  IN  IF kept # {} THEN kept ELSE {b \in heap \ taken : Home[b] = d}

Allocate(blocks) ==
  /\ heap' = heap \ blocks
  /\ pools' = [p \in Devices |-> pools[p] \ blocks]

Release(d, blocks) ==
  pools' = [pools EXCEPT ![shared_memory_pool(d)] = @ \cup blocks]

Inputs(d) == {t \in tensors : t.dev = d}

-----------------------------------------------------------------------------
(* Commands. reads is a set of tensors, or of staged data.                 *)

Command(n, reads, writes, val) ==
  [at |-> ops + n, reads |-> reads, writes |-> writes, val |-> val]

Enqueue(d, commands) ==
  /\ ops + Len(commands) <= MaxOps
  /\ queue' = [queue EXCEPT ![d] = @ \o commands]
  /\ ops' = ops + Len(commands)

\* The value of the next command put on a stream.
New == ops + 1

\* A kernel that reads one or two tensors and writes a new one.
Compute(d) ==
  /\ host = Running
  /\ \E x, y \in Inputs(d) : \E b \in Free(d, {}) :
       /\ Enqueue(d, <<Command(1, {x, y}, {b}, New)>>)
       /\ Allocate({b})
       /\ tensors' = tensors \cup {Tensor(d, b, New)}
  /\ UNCHANGED <<memory, workspaces, argmax, host, answer>>

\* A kernel that writes a tensor into a tensor that is kept, a cache.
Append_kv_cache(d) ==
  /\ host = Running
  /\ \E x, cache \in Inputs(d) :
       /\ x # cache
       /\ Enqueue(d, <<Command(1, {x, cache}, {cache.block}, New)>>)
       /\ tensors' = (tensors \ {cache}) \cup {Tensor(d, cache.block, New)}
  /\ UNCHANGED <<memory, heap, pools, workspaces, argmax, host, answer>>

\* As FreeWorkspaces, for entries that someone still holds.
WorkspacesInUse(d) == workspaces[d]

\* use_count() == 1: only the static pool holds the buffer.
FreeWorkspaces(d) == workspaces[d] \ {t.block : t \in tensors}

\* A DeltaNet kernel: it updates a state and writes into a workspace, one that
\* the host has let go of if there is one.
Recurrent(d) ==
  /\ host = Running
  /\ \E x, state \in Inputs(d) :
     \E b \in (IF FreeWorkspaces(d) # {} THEN FreeWorkspaces(d) ELSE Free(d, {})) :
       /\ x # state
       /\ Enqueue(d, <<Command(1, {x, state}, {state.block, b}, New)>>)
       /\ Allocate({b})
       /\ workspaces' = [workspaces EXCEPT ![d] = @ \cup {b}]
       /\ tensors' = (tensors \ {state})
                       \cup {Tensor(d, state.block, New), Tensor(d, b, New)}
  /\ UNCHANGED <<memory, argmax, host, answer>>

\* lookup_embedding(): the ids go into a device buffer that is dropped when
\* the function returns, with its copy and the gather still on the stream.
Lookup_embedding(d) ==
  /\ host = Running
  /\ \E x \in Inputs(d) : \E b \in Free(d, {}) : \E c \in Free(d, {b}) :
       /\ Enqueue(d, <<Command(1, {}, {c}, New),
                       Command(2, {x, Tensor(d, c, New)}, {b}, New + 1)>>)
       /\ heap' = heap \ {b, c}
       /\ pools' = [pools EXCEPT ![shared_memory_pool(d)] = (@ \cup {c}) \ {b}]
       /\ tensors' = tensors \cup {Tensor(d, b, New + 1)}
  /\ UNCHANGED <<memory, workspaces, argmax, host, answer>>

\* lookup_embedding_into() with buffers that the caller keeps: each proposal
\* overwrites the ids and the embedding of the one before it.
Lookup_embedding_into(d) ==
  /\ host = Running
  /\ \E x, output, ids \in Inputs(d) :
       /\ x # output /\ x # ids /\ output # ids
       /\ Enqueue(d, <<Command(1, {}, {ids.block}, New),
                       Command(2, {x, Tensor(d, ids.block, New)}, {output.block}, New + 1)>>)
       /\ tensors' = (tensors \ {output, ids})
            \cup {Tensor(d, ids.block, New), Tensor(d, output.block, New + 1)}
  /\ UNCHANGED <<memory, heap, pools, workspaces, argmax, host, answer>>

\* generate() begins: it creates the buffer for the token, or fails to, and
\* the first read then tries again.
Generate(d) ==
  /\ host = Running /\ argmax[d] = NoBlock
  /\ \E b \in Free(d, {}) :
       /\ Allocate({b})
       /\ argmax' = [argmax EXCEPT ![d] = b]
  /\ UNCHANGED <<memory, queue, tensors, workspaces, host, answer, ops>>

\* generate() returns: the buffer is a local of it.
Return(d) ==
  /\ host = Running /\ argmax[d] # NoBlock
  /\ Release(d, {argmax[d]})
  /\ argmax' = [argmax EXCEPT ![d] = NoBlock]
  /\ UNCHANGED <<memory, queue, tensors, heap, workspaces, host, answer, ops>>

\* The last reference goes: the block is free for the next buffer, or, in a
\* workspace, for the next forward pass.
Drop ==
  /\ host = Running
  /\ \E t \in tensors :
       /\ tensors' = tensors \ {t}
       /\ IF \E d \in Devices : t.block \in workspaces[d]
          THEN UNCHANGED pools
          ELSE Release(t.dev, {t.block})
  /\ UNCHANGED <<memory, queue, heap, workspaces, argmax, host, answer, ops>>

-----------------------------------------------------------------------------
(* The calls that wait: hipDeviceSynchronize() returns when the stream of  *)
(* the device is empty.                                                    *)

\* As Synchronized, without the call.
NotSynchronized(d) == TRUE

\* In Tensor::to, SafeTensorLoader::load and argmax_last_row_reference.
Moved(d) == queue[d] = <<>>
Uploaded(d) == queue[d] = <<>>
Read(d) == queue[d] = <<>>

\* Tensor::to(): the target's backend copies, on its own stream.
BeginTo(d) ==
  /\ host = Running
  /\ \E x \in tensors : \E b \in Free(d, {}) :
       /\ x.dev # d
       /\ Enqueue(d, <<Command(1, {x}, {b}, x.val)>>)
       /\ Allocate({b})
       /\ host' = [wait |-> "to", dev |-> d, tensor |-> Tensor(d, b, x.val)]
  /\ UNCHANGED <<memory, tensors, workspaces, argmax, answer>>

EndTo ==
  /\ host.wait = "to" /\ Moved(host.dev)
  /\ tensors' = tensors \cup {host.tensor}
  /\ host' = Running
  /\ UNCHANGED <<memory, queue, heap, pools, workspaces, argmax, answer, ops>>

\* SafeTensorLoader::load(): the file is read into pinned memory first.
BeginLoad(d) ==
  /\ host = Running
  /\ \E b \in Free(d, {}) :
       /\ Enqueue(d, <<Command(1, {[block |-> Staging, val |-> New]}, {b}, New)>>)
       /\ Allocate({b})
       /\ host' = [wait |-> "load", dev |-> d, tensor |-> Tensor(d, b, New)]
  /\ memory' = [memory EXCEPT ![Staging] = New]
  /\ UNCHANGED <<tensors, workspaces, argmax, answer>>

EndLoad ==
  /\ host.wait = "load" /\ Uploaded(host.dev)
  /\ memory' = [memory EXCEPT ![Staging] = Garbage]
  /\ tensors' = tensors \cup {host.tensor}
  /\ host' = Running
  /\ UNCHANGED <<queue, heap, pools, workspaces, argmax, answer, ops>>

\* argmax_last_row_reference(): a kernel, and a copy into a host variable.
BeginRead(d) ==
  /\ host = Running
  /\ \E logits \in Inputs(d) :
     \E b \in (IF argmax[d] = NoBlock THEN Free(d, {}) ELSE {argmax[d]}) :
       /\ Enqueue(d, <<Command(1, {logits}, {b}, New),
                       Command(2, {Tensor(d, b, New)}, {Result}, New)>>)
       /\ Allocate({b})
       /\ argmax' = [argmax EXCEPT ![d] = b]
       /\ host' = [wait |-> "read", dev |-> d, val |-> New]
  /\ UNCHANGED <<memory, tensors, workspaces, answer>>

EndRead ==
  /\ host.wait = "read" /\ Read(host.dev)
  /\ answer' = [read |-> memory[Result], expected |-> host.val]
  /\ host' = Running
  /\ UNCHANGED <<memory, queue, tensors, heap, pools, workspaces, argmax, ops>>

-----------------------------------------------------------------------------
(* The devices.                                                            *)

\* Nothing that was put on another device's stream before c and that c may
\* depend on is still to be executed.
SourcesReached(d, c) ==
  \A t \in c.reads : t.block \in Blocks =>
    \A e \in {Home[t.block]} \ {d} : \A i \in DOMAIN queue[e] : queue[e][i].at > c.at

Execute(d) ==
  /\ queue[d] # <<>>
  /\ LET c == Head(queue[d])
         found == \A t \in c.reads : memory[t.block] = t.val
     IN  /\ SourcesReached(d, c)
         /\ memory' = [p \in Places |->
              IF p \notin c.writes THEN memory[p]
              ELSE IF found THEN c.val ELSE Garbage]
  /\ queue' = [queue EXCEPT ![d] = Tail(@)]
  /\ UNCHANGED <<tensors, heap, pools, workspaces, argmax, host, answer, ops>>

-----------------------------------------------------------------------------
Init ==
  /\ memory = [p \in Places |-> Garbage]
  /\ queue = [d \in Devices |-> <<>>]
  /\ tensors = {}
  /\ heap = Blocks
  /\ pools = [d \in Devices |-> {}]
  /\ workspaces = [d \in Devices |-> {}]
  /\ argmax = [d \in Devices |-> NoBlock]
  /\ host = Running
  /\ answer = [read |-> Garbage, expected |-> Garbage]
  /\ ops = 0

Next ==
  \/ \E d \in Devices :
       \/ Compute(d) \/ Append_kv_cache(d) \/ Recurrent(d)
       \/ Lookup_embedding(d) \/ Lookup_embedding_into(d)
       \/ Generate(d) \/ Return(d)
       \/ BeginTo(d) \/ BeginLoad(d) \/ BeginRead(d)
       \/ Execute(d)
  \/ EndTo \/ EndLoad \/ EndRead
  \/ Drop

Spec == Init /\ [][Next]_vars

-----------------------------------------------------------------------------
\* Whenever a device has caught up, the memory of each of its tensors holds
\* what program order says: no command has read memory that was handed out
\* again before its turn, and none has overwritten memory still to be read.
TensorsHoldTheirValues ==
  \A t \in tensors : queue[t.dev] = <<>> => memory[t.block] = t.val

\* The token the host goes on with is the one the program computes, although
\* the copy into the host variable is asynchronous.
AnswersAreFinal == answer.read = answer.expected

\* "The temporary host buffer must remain alive until an asynchronous HIP copy
\* has completed" (safetensor_loader.cc): a queued upload finds its data in
\* the staging memory.
StagingOutlivesCopies ==
  \A d \in Devices : \A i \in DOMAIN queue[d] : \A t \in queue[d][i].reads :
    t.block = Staging => memory[Staging] = t.val

\* The tensors of the program and the one it is waiting for.
Held == tensors \cup (IF host.wait \in {"to", "load"} THEN {host.tensor} ELSE {})
Used == {t.block : t \in Held}

\* Each block of a device is one thing only: still to be allocated, kept in the
\* pool, a workspace, the buffer of the token or a tensor's; but the tensor that
\* a DeltaNet kernel writes lies in a workspace.
Accounted(d) ==
  /\ \A b \in pools[d] \cup workspaces[d] : Home[b] = d
  /\ argmax[d] # NoBlock => Home[argmax[d]] = d
  /\ pools[d] \cap (heap \cup workspaces[d] \cup {argmax[d]} \cup Used) = {}
  /\ heap \cap (workspaces[d] \cup {argmax[d]} \cup Used) = {}
  /\ argmax[d] \notin workspaces[d] \cup Used
  /\ \A b \in Blocks : Home[b] = d =>
       b \in heap \cup pools[d] \cup workspaces[d] \cup {argmax[d]} \cup Used

\* A buffer says truly which device its memory is on, so that the device check
\* of the kernels means something. No two tensors share a block, the one that is
\* being moved or loaded included, and every block of memory is accounted for:
\* none has two owners, except a workspace that a tensor lies in, and none is
\* lost.
BuffersAreWhereTheySay ==
  /\ \A t \in Held : Home[t.block] = t.dev
  /\ \A t, u \in Held : t.block = u.block => t = u
  /\ \A d \in Devices : Accounted(d)
=============================================================================
