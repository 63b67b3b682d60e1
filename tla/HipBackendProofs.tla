---------------------------- MODULE HipBackendProofs ----------------------------
(***************************************************************************)
(* Proofs about the two modules of the HIP backend. DeviceStreams: memory  *)
(* which the host hands out again while commands on it are still queued    *)
(* never shows in a result, for any number of devices, blocks and          *)
(* commands: every tensor holds what program order says once its device    *)
(* has caught up, every token read back is final, uploads find their data, *)
(* and no block has two owners. RocblasHandle, at the end: with a single   *)
(* host thread, which is how the program uses the shared handle, every     *)
(* GEMM runs on the stream it asks for.                                    *)
(***************************************************************************)
EXTENDS DeviceStreams, SequenceTheorems, TLAPS

-----------------------------------------------------------------------------
\* The inductive invariant.

TensorSet == [dev : Devices, block : Blocks, val : Nat]
Readings == TensorSet \cup [block : {Staging}, val : Nat]
Commands ==
  [at : Nat, reads : SUBSET Readings, writes : SUBSET Places, val : Nat]

\* With memory m, place p holds v once the first n commands of stream q have
\* been executed and have found what they read.
Holds(q, m, p, n, v) ==
  \/ m[p] = v /\ \A j \in 1 .. n : p \notin q[j].writes
  \/ \E i \in 1 .. n :
       /\ p \in q[i].writes /\ q[i].val = v
       /\ \A j \in i + 1 .. n : p \notin q[j].writes

\* Stream q of device d, after k commands of the program: its commands write
\* memory of the device only, and those that read it find it as they should.
Orderly(q, m, d, k) ==
  \A i \in 1 .. Len(q) :
    /\ q[i].at <= k
    /\ Staging \notin q[i].writes
    /\ \A b \in q[i].writes \cap Blocks : Home[b] = d
    /\ \A t \in q[i].reads :
         t.block \in Blocks /\ Home[t.block] = d => Holds(q, m, t.block, i - 1, t.val)

\* A command between tensors of one device.
Plain(c, d) ==
  /\ Result \notin c.writes
  /\ \A t \in c.reads : t.block \in Blocks /\ Home[t.block] = d

\* The command the host waits for: a copy from another device, which nothing
\* has been put on a stream after, an upload or the copy of the token.
Awaited(c, d, h, k, m, qs) ==
  /\ h.dev = d
  /\ \/ /\ h.wait = "to" /\ c.at = k /\ Result \notin c.writes
        /\ \A t \in c.reads :
             /\ t.block \in Blocks /\ Home[t.block] # d
             /\ Holds(qs[Home[t.block]], m, t.block, Len(qs[Home[t.block]]), t.val)
     \/ /\ h.wait = "load" /\ Result \notin c.writes
        /\ \A t \in c.reads : t.block = Staging /\ m[Staging] = t.val
     \/ /\ h.wait = "read"
        /\ \A t \in c.reads : t.block \in Blocks /\ Home[t.block] = d

TypeInv ==
  /\ memory \in [Places -> Nat] /\ queue \in [Devices -> Seq(Commands)]
  /\ tensors \subseteq TensorSet /\ heap \subseteq Blocks
  /\ pools \in [Devices -> SUBSET Blocks] /\ workspaces \in [Devices -> SUBSET Blocks]
  /\ argmax \in [Devices -> Blocks \cup {NoBlock}]
  /\ \/ host = Running
     \/ host \in [wait : {"to", "load"}, dev : Devices, tensor : TensorSet]
     \/ host \in [wait : {"read"}, dev : Devices, val : Nat]
  /\ ops \in Nat

OrderInv == \A d \in Devices : Orderly(queue[d], memory, d, ops)

WaitInv ==
  \A d \in Devices : \A i \in 1 .. Len(queue[d]) :
    \/ Plain(queue[d][i], d)
    \/ Awaited(queue[d][i], d, host, ops, memory, queue)

TensorInv ==
  /\ \A t \in Held :
       /\ Home[t.block] = t.dev
       /\ Holds(queue[t.dev], memory, t.block, Len(queue[t.dev]), t.val)
  /\ \A t, u \in Held : t.block = u.block => t = u

BlockInv == \A d \in Devices : Accounted(d)

ReadInv ==
  host.wait = "read" =>
    Holds(queue[host.dev], memory, Result, Len(queue[host.dev]), host.val)

StreamInv ==
  /\ TypeInv /\ OrderInv /\ WaitInv /\ TensorInv /\ BlockInv /\ ReadInv
  /\ AnswersAreFinal

-----------------------------------------------------------------------------
\* What a stream makes of memory.

LEMMA Names ==
  /\ Staging # Result /\ Staging \notin Blocks /\ Result \notin Blocks
  /\ NoBlock \notin Blocks
  /\ Blocks \subseteq Places /\ Staging \in Places /\ Result \in Places
  /\ \A b \in Blocks : Home[b] \in Devices
BY HomeAssumption DEF Staging, Result, Places

\* A command more or other memory elsewhere changes nothing.
LEMMA HoldsKept ==
  ASSUME NEW q \in Seq(Commands), NEW r \in Seq(Commands), NEW m, NEW m2, NEW p,
         NEW n \in Nat, NEW v, Holds(q, m, p, n, v), m2[p] = m[p],
         \A i \in 1 .. n : r[i] = q[i]
  PROVE  Holds(r, m2, p, n, v)
<1>1. CASE m[p] = v /\ \A j \in 1 .. n : p \notin q[j].writes
  BY <1>1 DEF Holds
<1>2. ASSUME NEW i \in 1 .. n, p \in q[i].writes, q[i].val = v,
             \A j \in i + 1 .. n : p \notin q[j].writes
      PROVE  Holds(r, m2, p, n, v)
  <2>1. \A j \in i + 1 .. n : j \in 1 .. n
    OBVIOUS
  <2> QED BY <1>2, <2>1 DEF Holds
<1> QED BY <1>1, <1>2 DEF Holds

LEMMA HoldsPast ==
  ASSUME NEW q \in Seq(Commands), NEW c \in Commands, NEW m, NEW p, NEW v,
         Holds(q, m, p, Len(q), v), p \notin c.writes
  PROVE  Holds(Append(q, c), m, p, Len(q) + 1, v)
<1> DEFINE r == Append(q, c)
           n == Len(q)
<1>1. n \in Nat /\ r[n + 1] = c /\ \A i \in 1 .. n : r[i] = q[i]
  BY AppendProperties, LenProperties
<1> HIDE DEF r, n
<1>2. CASE m[p] = v /\ \A j \in 1 .. n : p \notin q[j].writes
  <2>1. \A j \in 1 .. n + 1 : j \in 1 .. n \/ j = n + 1
    BY <1>1
  <2>2. \A j \in 1 .. n + 1 : p \notin r[j].writes
    BY <1>1, <1>2, <2>1
  <2> QED BY <1>2, <2>2 DEF Holds, n, r
<1>3. ASSUME NEW i \in 1 .. n, p \in q[i].writes, q[i].val = v,
             \A j \in i + 1 .. n : p \notin q[j].writes
      PROVE  Holds(r, m, p, n + 1, v)
  <2>1. \A j \in i + 1 .. n + 1 : (j \in i + 1 .. n /\ j \in 1 .. n) \/ j = n + 1
    BY <1>1
  <2>2. i \in 1 .. n + 1 /\ r[i] = q[i] /\ \A j \in i + 1 .. n + 1 : p \notin r[j].writes
    BY <1>1, <1>3, <2>1
  <2> QED BY <1>3, <2>2 DEF Holds
<1> QED BY <1>2, <1>3 DEF Holds, n, r

LEMMA HoldsWritten ==
  ASSUME NEW q \in Seq(Commands), NEW c \in Commands, NEW m, NEW p, p \in c.writes
  PROVE  Holds(Append(q, c), m, p, Len(q) + 1, c.val)
<1> DEFINE r == Append(q, c)
           n == Len(q)
<1>1. n \in Nat /\ r[n + 1] = c
  BY AppendProperties, LenProperties
<1> HIDE DEF r, n
<1>2. n + 1 \in 1 .. n + 1 /\ \A j \in n + 1 + 1 .. n + 1 : FALSE
  BY <1>1
<1>3. Holds(r, m, p, n + 1, c.val)
  BY <1>1, <1>2 DEF Holds
<1> QED BY <1>3 DEF n, r

\* Stream r of device d, after k commands, is q with command c put on it.
Extended(q, r, c, m, m2, d, k) ==
  /\ r \in Seq(Commands) /\ Len(r) = Len(q) + 1
  /\ r[Len(q) + 1] = c /\ \A i \in 1 .. Len(q) : r[i] = q[i]
  /\ Orderly(r, m2, d, k)
  /\ \A p \in Blocks : \A v : Holds(q, m, p, Len(q), v) /\ p \notin c.writes =>
       Holds(r, m2, p, Len(r), v)
  /\ \A p \in c.writes : Holds(r, m2, p, Len(r), c.val)

\* One more command of the program on a stream.
LEMMA OneMore ==
  ASSUME NEW d \in Devices, NEW q \in Seq(Commands), NEW c \in Commands,
         NEW m, NEW m2, \A b \in Blocks : m2[b] = m[b],
         NEW k \in Nat, NEW k2 \in Nat, k <= k2, c.at <= k2, Orderly(q, m, d, k),
         Staging \notin c.writes, \A b \in c.writes \cap Blocks : Home[b] = d,
         \A t \in c.reads : t.block \in Blocks /\ Home[t.block] = d =>
           Holds(q, m, t.block, Len(q), t.val)
  PROVE  Extended(q, Append(q, c), c, m, m2, d, k2)
<1> DEFINE r == Append(q, c)
           n == Len(q)
<1>1. /\ r \in Seq(Commands) /\ Len(r) = n + 1 /\ n \in Nat
      /\ r[n + 1] = c /\ \A i \in 1 .. n : r[i] = q[i]
  BY AppendProperties, LenProperties
<1>2. ASSUME NEW p \in Blocks, NEW v, Holds(q, m, p, n, v), p \notin c.writes
      PROVE  Holds(r, m2, p, n + 1, v)
  <2>1. Holds(q, m2, p, n, v)
    BY <1>1, <1>2, HoldsKept
  <2> QED BY <1>2, <2>1, HoldsPast
<1>3. \A p \in c.writes : Holds(r, m2, p, n + 1, c.val)
  BY HoldsWritten
<1>4. Orderly(r, m2, d, k2)
  <2>1. ASSUME NEW i \in 1 .. n
        PROVE  /\ r[i].at <= k2 /\ Staging \notin r[i].writes
               /\ \A b \in r[i].writes \cap Blocks : Home[b] = d
    <3>1. q[i] \in Commands
      BY ElementOfSeq
    <3>2. q[i].at \in Nat
      BY <3>1 DEF Commands
    <3>3. r[i] = q[i] /\ q[i].at <= k
      BY <1>1 DEF Orderly
    <3>4. q[i].at <= k2
      BY <3>2, <3>3
    <3> QED BY <3>3, <3>4 DEF Orderly
  <2>2. ASSUME NEW i \in 1 .. n, NEW t \in r[i].reads,
               t.block \in Blocks, Home[t.block] = d
        PROVE  Holds(r, m2, t.block, i - 1, t.val)
    <3>1. r[i] = q[i] /\ i - 1 \in Nat /\ \A j \in 1 .. i - 1 : j \in 1 .. n
      BY <1>1
    <3>2. Holds(q, m, t.block, i - 1, t.val)
      BY <2>2, <3>1 DEF Orderly
    <3>3. \A j \in 1 .. i - 1 : r[j] = q[j]
      BY <1>1, <3>1
    <3>4. m2[t.block] = m[t.block] /\ r \in Seq(Commands)
      BY <1>1, <2>2
    <3> DEFINE j == i - 1
    <3>5. /\ j \in Nat /\ Holds(q, m, t.block, j, t.val)
          /\ \A x \in 1 .. j : r[x] = q[x]
      BY <3>1, <3>2, <3>3
    <3> HIDE DEF r, j
    <3>6. Holds(r, m2, t.block, j, t.val)
      BY <3>4, <3>5, HoldsKept
    <3> QED BY <3>6 DEF j
  <2>3. ASSUME NEW t \in c.reads, t.block \in Blocks, Home[t.block] = d
        PROVE  Holds(r, m2, t.block, n, t.val)
    <3> HIDE DEF r
    <3> QED BY <1>1, <2>3, HoldsKept
  <2>4. \A i \in 1 .. n + 1 : i \in 1 .. n \/ i = n + 1
    BY <1>1
  <2>5. n + 1 - 1 = n
    BY <1>1
  <2> HIDE DEF r, n
  <2>6. ASSUME NEW i \in 1 .. Len(r)
        PROVE  /\ r[i].at <= k2 /\ Staging \notin r[i].writes
               /\ \A b \in r[i].writes \cap Blocks : Home[b] = d
               /\ \A t \in r[i].reads : t.block \in Blocks /\ Home[t.block] = d =>
                    Holds(r, m2, t.block, i - 1, t.val)
    <3>1. CASE i \in 1 .. n
      BY <2>1, <2>2, <3>1
    <3>2. CASE i = n + 1
      BY <1>1, <2>3, <2>5, <3>2
    <3> QED BY <1>1, <2>4, <3>1, <3>2
  <2> QED BY <2>6 DEF Orderly
<1> QED BY <1>1, <1>2, <1>3, <1>4 DEF Extended

\* The first command is executed and finds what it reads.
LEMMA OneLess ==
  ASSUME NEW d \in Devices, NEW q \in Seq(Commands), q # << >>,
         NEW m, NEW m2 \in [Places -> Nat],
         \A p \in Places : m2[p] = IF p \in Head(q).writes THEN Head(q).val ELSE m[p]
  PROVE  /\ Tail(q) \in Seq(Commands) /\ Len(Tail(q)) = Len(q) - 1 /\ Len(q) \in Nat \ {0}
         /\ \A i \in 1 .. Len(q) - 1 : Tail(q)[i] = q[i + 1]
         /\ Head(q) = q[1] /\ Head(q) \in Commands
         /\ \A p \in Places : \A n \in 1 .. Len(q) : \A v :
              Holds(q, m, p, n, v) => Holds(Tail(q), m2, p, n - 1, v)
         /\ \A k : Orderly(q, m, d, k) => Orderly(Tail(q), m2, d, k)
<1> DEFINE r == Tail(q)
           l == Len(q)
<1>1. /\ r \in Seq(Commands) /\ Len(r) = l - 1 /\ l \in Nat \ {0}
      /\ \A i \in 1 .. l - 1 : r[i] = q[i + 1]
      /\ Head(q) = q[1] /\ Head(q) \in Commands
  <2>1. /\ r \in Seq(Commands) /\ Len(r) = l - 1
        /\ \A i \in 1 .. Len(r) : r[i] = q[i + 1]
        /\ Head(q) \in Commands
    BY HeadTailProperties
  <2>2. l \in Nat \ {0}
    BY EmptySeq
  <2> QED BY <2>1, <2>2
<1> HIDE DEF r, l
<1>2. ASSUME NEW p \in Places, NEW n \in 1 .. l, NEW v, Holds(q, m, p, n, v)
      PROVE  Holds(r, m2, p, n - 1, v)
  <2>1. \A j \in 1 .. n - 1 : r[j] = q[j + 1] /\ j + 1 \in 2 .. n /\ j + 1 \in 1 .. n
    BY <1>1
  <2>2. CASE m[p] = v /\ \A j \in 1 .. n : p \notin q[j].writes
    <3>1. p \notin q[1].writes /\ m2[p] = v
      BY <1>1, <2>2
    <3> QED BY <2>1, <2>2, <3>1 DEF Holds
  <2>3. ASSUME NEW i \in 1 .. n, p \in q[i].writes, q[i].val = v,
               \A j \in i + 1 .. n : p \notin q[j].writes
        PROVE  Holds(r, m2, p, n - 1, v)
    <3>1. \A j \in i .. n - 1 : j + 1 \in i + 1 .. n /\ (j > 0 => r[j] = q[j + 1])
      BY <1>1
    <3>2. CASE i = 1
      <4>1. m2[p] = v
        BY <1>1, <2>3, <3>2
      <4> QED BY <2>3, <3>1, <3>2, <4>1 DEF Holds
    <3>3. CASE i # 1
      <4>1. /\ i - 1 \in 1 .. n - 1 /\ i - 1 + 1 = i
            /\ \A j \in i - 1 + 1 .. n - 1 : j \in i .. n - 1 /\ j > 0
        BY <1>1, <3>3
      <4>2. r[i - 1] = q[i]
        BY <2>1, <4>1
      <4>3. \A j \in i - 1 + 1 .. n - 1 : p \notin r[j].writes
        BY <2>3, <3>1, <4>1
      <4> QED BY <2>3, <4>1, <4>2, <4>3 DEF Holds
    <3> QED BY <3>2, <3>3
  <2> QED BY <1>2, <2>2, <2>3 DEF Holds
<1>3. ASSUME NEW k, Orderly(q, m, d, k) PROVE Orderly(r, m2, d, k)
  <2>0. \A j \in 1 .. l : \A u \in q[j].reads :
          u.block \in Blocks /\ Home[u.block] = d => Holds(q, m, u.block, j - 1, u.val)
    BY <1>3 DEF Orderly, l
  <2>1. ASSUME NEW i \in 1 .. l - 1
        PROVE  /\ i + 1 \in 1 .. l /\ r[i] = q[i + 1] /\ i + 1 - 1 \in 1 .. l
               /\ i + 1 - 1 - 1 = i - 1
    BY <1>1
  <2>2. ASSUME NEW i \in 1 .. l - 1, NEW t \in r[i].reads,
               t.block \in Blocks, Home[t.block] = d
        PROVE  Holds(r, m2, t.block, i - 1, t.val)
    <3> DEFINE j == i + 1
    <3>1. j \in 1 .. l /\ t \in q[j].reads /\ j - 1 \in 1 .. l /\ j - 1 - 1 = i - 1
      BY <2>1, <2>2
    <3> HIDE DEF j
    <3>2. Holds(q, m, t.block, j - 1, t.val)
      BY <2>0, <2>2, <3>1
    <3>3. t.block \in Places
      BY <2>2, Names
    <3>4. Holds(r, m2, t.block, j - 1 - 1, t.val)
      BY <1>2, <3>1, <3>2, <3>3
    <3> QED BY <3>1, <3>4
  <2>3. \A i \in 1 .. l - 1 :
          /\ r[i].at <= k /\ Staging \notin r[i].writes
          /\ \A b \in r[i].writes \cap Blocks : Home[b] = d
    BY <1>3, <2>1 DEF Orderly, l
  <2> QED BY <1>1, <2>2, <2>3 DEF Orderly
<1> QED BY <1>1, <1>2, <1>3 DEF r, l

\* Memory of other devices, of the host and of the staging buffer does not
\* concern a stream.
LEMMA OrderlyElsewhere ==
  ASSUME NEW d \in Devices, NEW q \in Seq(Commands), NEW m, NEW m2, NEW k \in Nat,
         Orderly(q, m, d, k), \A b \in Blocks : Home[b] = d => m2[b] = m[b],
         NEW k2 \in Nat, k <= k2
  PROVE  Orderly(q, m2, d, k2)
<1>1. ASSUME NEW i \in 1 .. Len(q)
      PROVE  /\ q[i].at <= k2 /\ Staging \notin q[i].writes
             /\ \A b \in q[i].writes \cap Blocks : Home[b] = d
  <2>1. q[i] \in Commands
    BY ElementOfSeq
  <2>2. q[i].at \in Nat
    BY <2>1 DEF Commands
  <2>3. q[i].at <= k
    BY DEF Orderly
  <2>4. q[i].at <= k2
    BY <2>2, <2>3
  <2> QED BY <2>4 DEF Orderly
<1>2. ASSUME NEW i \in 1 .. Len(q), NEW t \in q[i].reads,
             t.block \in Blocks, Home[t.block] = d
      PROVE  Holds(q, m2, t.block, i - 1, t.val)
  <2>1. Len(q) \in Nat /\ i - 1 \in Nat /\ Holds(q, m, t.block, i - 1, t.val)
    BY <1>2, LenProperties DEF Orderly
  <2> QED BY <1>2, <2>1, HoldsKept
<1> QED BY <1>1, <1>2 DEF Orderly

-----------------------------------------------------------------------------
\* What the actions have in common.

\* While the host runs, nothing on a stream is waited for.
LEMMA RunningFacts ==
  ASSUME StreamInv, host = Running
  PROVE  /\ Held = tensors /\ Used = {t.block : t \in tensors}
         /\ \A d \in Devices : \A i \in 1 .. Len(queue[d]) : Plain(queue[d][i], d)
         /\ \A t \in tensors :
              /\ t \in TensorSet /\ Home[t.block] = t.dev
              /\ Holds(queue[t.dev], memory, t.block, Len(queue[t.dev]), t.val)
         /\ \A t, u \in tensors : t.block = u.block => t = u
<1>1. host.wait = "run"
  BY DEF Running
<1>2. Held = tensors
  BY <1>1 DEF Held
<1>3. \A d \in Devices : \A i \in 1 .. Len(queue[d]) : Plain(queue[d][i], d)
  BY <1>1 DEF StreamInv, WaitInv, Awaited
<1> QED BY <1>2, <1>3 DEF StreamInv, TensorInv, TypeInv, Used

\* A block create_buffer() may return is nobody's.
LEMMA FreeFacts ==
  ASSUME StreamInv, NEW d \in Devices, NEW taken, NEW b \in Free(d, taken)
  PROVE  /\ b \in Blocks /\ Home[b] = d /\ b \notin taken /\ b \notin Used
         /\ b \in pools[d] \/ b \in heap
         /\ \A e \in Devices : b \notin workspaces[e] /\ b # argmax[e]
<1>1. /\ pools \in [Devices -> SUBSET Blocks] /\ heap \subseteq Blocks
      /\ workspaces \in [Devices -> SUBSET Blocks]
      /\ argmax \in [Devices -> Blocks \cup {NoBlock}]
  BY DEF StreamInv, TypeInv
<1>2. b \in pools[d] \/ (b \in heap /\ Home[b] = d)
  BY DEF Free, shared_memory_pool
<1>3. b \notin taken
  BY DEF Free
<1>4. b \in Blocks /\ Home[b] = d
  BY <1>1, <1>2 DEF StreamInv, BlockInv, Accounted
<1>5. b \notin Used
  BY <1>2 DEF StreamInv, BlockInv, Accounted
<1>6. ASSUME NEW e \in Devices PROVE b \notin workspaces[e] /\ b # argmax[e]
  <2>1. CASE b \in heap
    BY <2>1 DEF StreamInv, BlockInv, Accounted
  <2>2. CASE b \in pools[d] /\ e = d
    BY <2>2 DEF StreamInv, BlockInv, Accounted
  <2>3. CASE e # d
    <3>1. b \in workspaces[e] => Home[b] = e
      BY DEF StreamInv, BlockInv, Accounted
    <3>2. b = argmax[e] => Home[b] = e
      BY <1>4, Names DEF StreamInv, BlockInv, Accounted
    <3> QED BY <1>4, <2>3, <3>1, <3>2
  <2> QED BY <1>2, <2>1, <2>2, <2>3
<1> QED BY <1>2, <1>3, <1>4, <1>5, <1>6

\* Commands went on the stream of d, the last of them c, which write what is
\* in written.
Enqueued(d, c, written) ==
  /\ queue' \in [Devices -> Seq(Commands)]
  /\ \A e \in Devices : Orderly(queue'[e], memory', e, ops')
  /\ \A e \in Devices : \A i \in 1 .. Len(queue'[e]) :
       Plain(queue'[e][i], e) \/ (e = d /\ queue'[e][i] = c)
  /\ \A e \in Devices : \A p \in Blocks \ written : \A v :
       Holds(queue[e], memory, p, Len(queue[e]), v) =>
         Holds(queue'[e], memory', p, Len(queue'[e]), v)
  /\ \A p \in c.writes : Holds(queue'[d], memory', p, Len(queue'[d]), c.val)
  /\ \A e \in Devices \ {d} : queue'[e] = queue[e]

LEMMA EnqueueOne ==
  ASSUME StreamInv, host = Running, NEW d \in Devices, NEW c \in Commands,
         Enqueue(d, <<c>>), c.at = ops + 1, \A b \in Blocks : memory'[b] = memory[b],
         Staging \notin c.writes, \A b \in c.writes \cap Blocks : Home[b] = d,
         \A t \in c.reads : t.block \in Blocks /\ Home[t.block] = d => t \in tensors
  PROVE  Enqueued(d, c, c.writes) /\ ops' = ops + 1
<1>1. /\ queue \in [Devices -> Seq(Commands)] /\ queue[d] \in Seq(Commands) /\ ops \in Nat
      /\ \A e \in Devices : Orderly(queue[e], memory, e, ops)
  BY DEF StreamInv, TypeInv, OrderInv
<1>2. /\ queue' = [queue EXCEPT ![d] = Append(queue[d], c)] /\ ops' = ops + 1
  <2>1. <<c>> \in Seq(Commands) /\ Len(<<c>>) = 1
    OBVIOUS
  <2>2. Append(queue[d], c) = queue[d] \o <<c>>
    BY <1>1, AppendIsConcat
  <2> QED BY <2>1, <2>2 DEF Enqueue
<1> DEFINE q == queue[d]
           r == Append(q, c)
<1>3. Extended(q, r, c, memory, memory', d, ops + 1)
  <2>1. \A t \in c.reads : t.block \in Blocks /\ Home[t.block] = d =>
          Holds(q, memory, t.block, Len(q), t.val)
    BY RunningFacts
  <2>2. Orderly(q, memory, d, ops) /\ q \in Seq(Commands)
    BY <1>1
  <2>3. ops + 1 \in Nat /\ ops <= ops + 1 /\ c.at <= ops + 1
    BY <1>1
  <2> HIDE DEF q
  <2> QED BY <1>1, <2>1, <2>2, <2>3, OneMore
<1>4. /\ queue' \in [Devices -> Seq(Commands)] /\ queue'[d] = r
      /\ \A e \in Devices \ {d} : queue'[e] = queue[e]
  BY <1>1, <1>2, <1>3
<1> HIDE DEF r
<1>5. ASSUME NEW e \in Devices PROVE Orderly(queue'[e], memory', e, ops')
  <2>1. CASE e = d
    BY <1>2, <1>3, <1>4, <2>1 DEF Extended
  <2>2. CASE e # d
    <3>1. queue'[e] = queue[e] /\ queue[e] \in Seq(Commands) /\ ops + 1 \in Nat /\ ops <= ops + 1
      BY <1>1, <1>4, <2>2
    <3>2. Orderly(queue[e], memory', e, ops + 1)
      BY <1>1, <3>1, OrderlyElsewhere
    <3> QED BY <1>2, <3>1, <3>2
  <2> QED BY <2>1, <2>2
<1>6. ASSUME NEW e \in Devices, NEW i \in 1 .. Len(queue'[e])
      PROVE  Plain(queue'[e][i], e) \/ (e = d /\ queue'[e][i] = c)
  <2>1. CASE e = d
    <3>1. Len(q) \in Nat
      BY <1>1, LenProperties
    <3>2. i \in 1 .. Len(q) \/ i = Len(q) + 1
      BY <1>3, <1>4, <2>1, <3>1 DEF Extended
    <3>3. i \in 1 .. Len(q) => Plain(q[i], d)
      BY RunningFacts
    <3> QED BY <1>3, <1>4, <2>1, <3>2, <3>3 DEF Extended
  <2>2. CASE e # d
    BY <1>4, <2>2, RunningFacts
  <2> QED BY <2>1, <2>2
<1>7. ASSUME NEW e \in Devices, NEW p \in Blocks \ c.writes, NEW v,
             Holds(queue[e], memory, p, Len(queue[e]), v)
      PROVE  Holds(queue'[e], memory', p, Len(queue'[e]), v)
  <2>1. CASE e = d
    BY <1>3, <1>4, <1>7, <2>1 DEF Extended
  <2>2. CASE e # d
    <3>1. queue'[e] = queue[e] /\ queue[e] \in Seq(Commands) /\ Len(queue[e]) \in Nat
          /\ memory'[p] = memory[p]
      BY <1>1, <1>4, <2>2, LenProperties
    <3>2. Holds(queue[e], memory', p, Len(queue[e]), v)
      BY <1>7, <3>1, HoldsKept
    <3> QED BY <3>1, <3>2
  <2> QED BY <2>1, <2>2
<1>8. \A p \in c.writes : Holds(queue'[d], memory', p, Len(queue'[d]), c.val)
  BY <1>3, <1>4 DEF Extended
<1> QED BY <1>2, <1>4, <1>5, <1>6, <1>7, <1>8 DEF Enqueued

\* Two commands put on a stream together are put there one after the other.
LEMMA TwoAppended ==
  ASSUME NEW q \in Seq(Commands), NEW c1 \in Commands, NEW c2 \in Commands
  PROVE  q \o <<c1, c2>> = Append(Append(q, c1), c2) /\ Len(<<c1, c2>>) = 2
<1>1. /\ <<c1, c2>> \in Seq(Commands) /\ Len(<<c1, c2>>) = 2
      /\ <<c1, c2>>[1] = c1 /\ <<c1, c2>>[2] = c2
  OBVIOUS
<1> DEFINE s == <<c1, c2>>
           q1 == Append(q, c1)
           r == Append(q1, c2)
           n == Len(q)
<1>2. /\ q1 \in Seq(Commands) /\ Len(q1) = n + 1 /\ n \in Nat
      /\ q1[n + 1] = c1 /\ \A i \in 1 .. n : q1[i] = q[i]
  BY AppendProperties, LenProperties
<1> HIDE DEF s, q1
<1>3. /\ r \in Seq(Commands) /\ Len(r) = n + 2
      /\ r[n + 2] = c2 /\ \A i \in 1 .. n + 1 : r[i] = q1[i]
  <2>1. /\ r \in Seq(Commands) /\ Len(r) = Len(q1) + 1
        /\ r[Len(q1) + 1] = c2 /\ \A i \in 1 .. Len(q1) : r[i] = q1[i]
    BY <1>2, AppendProperties
  <2> QED BY <1>2, <2>1
<1>4. /\ q \o s \in Seq(Commands) /\ Len(q \o s) = n + 2
      /\ \A i \in 1 .. n + 2 : (q \o s)[i] = IF i <= n THEN q[i] ELSE s[i - n]
  BY <1>1, <1>2, ConcatProperties DEF s
<1> HIDE DEF r, n
<1>5. ASSUME NEW i \in 1 .. n + 2 PROVE (q \o s)[i] = r[i]
  <2>1. CASE i \in 1 .. n
    BY <1>2, <1>3, <1>4, <2>1
  <2>2. CASE i = n + 1
    <3>1. i - n = 1 /\ ~ i <= n /\ i \in 1 .. n + 1
      BY <1>2, <2>2
    <3>2. s[1] = c1
      BY <1>1 DEF s
    <3> QED BY <1>2, <1>3, <1>4, <2>2, <3>1, <3>2
  <2>3. CASE i = n + 2
    <3>1. i - n = 2 /\ ~ i <= n
      BY <1>2, <2>3
    <3>2. s[2] = c2
      BY <1>1 DEF s
    <3> QED BY <1>3, <1>4, <2>3, <3>1, <3>2
  <2>4. i \in 1 .. n \/ i = n + 1 \/ i = n + 2
    BY <1>2
  <2> QED BY <2>1, <2>2, <2>3, <2>4
<1>6. q \o s = r
  BY <1>3, <1>4, <1>5, SeqEqual
<1> QED BY <1>1, <1>6 DEF s, q1, r

LEMMA EnqueueTwo ==
  ASSUME StreamInv, host = Running, NEW d \in Devices,
         NEW c1 \in Commands, NEW c2 \in Commands,
         Enqueue(d, <<c1, c2>>), c1.at = ops + 1, c2.at = ops + 2, memory' = memory,
         c1.writes \subseteq Blocks, Staging \notin c2.writes,
         \A b \in (c1.writes \cup c2.writes) \cap Blocks : Home[b] = d,
         c1.reads \subseteq {t \in tensors : t.dev = d},
         \A t \in c2.reads :
           \/ t.block \in c1.writes /\ t.val = c1.val
           \/ t \in tensors /\ t.dev = d /\ t.block \notin c1.writes
  PROVE  /\ Enqueued(d, c2, c1.writes \cup c2.writes) /\ ops' = ops + 2
         /\ \A p \in c1.writes \ c2.writes :
              Holds(queue'[d], memory', p, Len(queue'[d]), c1.val)
<1>1. /\ queue \in [Devices -> Seq(Commands)] /\ queue[d] \in Seq(Commands) /\ ops \in Nat
      /\ \A e \in Devices : Orderly(queue[e], memory, e, ops)
  BY DEF StreamInv, TypeInv, OrderInv
<1> DEFINE q == queue[d]
           q1 == Append(q, c1)
           r == Append(q1, c2)
<1>2. queue' = [queue EXCEPT ![d] = r] /\ ops' = ops + 2 /\ q1 \in Seq(Commands)
  <2>1. q1 \in Seq(Commands)
    BY <1>1, AppendProperties
  <2> QED BY <1>1, <2>1, TwoAppended DEF Enqueue
<1>3. Extended(q, q1, c1, memory, memory, d, ops + 1)
  <2>1. \A t \in c1.reads : t.block \in Blocks /\ Home[t.block] = d =>
          Holds(q, memory, t.block, Len(q), t.val)
    BY RunningFacts
  <2>2. /\ Orderly(q, memory, d, ops) /\ Staging \notin c1.writes /\ q \in Seq(Commands)
        /\ \A b \in c1.writes \cap Blocks : Home[b] = d
    BY <1>1, Names
  <2>3. ops + 1 \in Nat /\ ops <= ops + 1 /\ c1.at <= ops + 1
    BY <1>1
  <2> HIDE DEF q
  <2> QED BY <1>1, <2>1, <2>2, <2>3, OneMore
<1>4. Extended(q1, r, c2, memory, memory, d, ops + 2)
  <2>1. ASSUME NEW t \in c2.reads, t.block \in Blocks, Home[t.block] = d
        PROVE  Holds(q1, memory, t.block, Len(q1), t.val)
    <3>1. CASE t.block \in c1.writes /\ t.val = c1.val
      BY <1>3, <3>1 DEF Extended
    <3>2. CASE t \in tensors /\ t.dev = d /\ t.block \notin c1.writes
      <4>1. Holds(q, memory, t.block, Len(q), t.val)
        BY <3>2, RunningFacts
      <4> QED BY <1>3, <2>1, <3>2, <4>1 DEF Extended
    <3> QED BY <3>1, <3>2
  <2>2. Orderly(q1, memory, d, ops + 1) /\ q1 \in Seq(Commands)
    BY <1>3 DEF Extended
  <2>3. /\ ops + 1 \in Nat /\ ops + 2 \in Nat /\ ops + 1 <= ops + 2 /\ c2.at <= ops + 2
        /\ \A b \in c2.writes \cap Blocks : Home[b] = d
    BY <1>1
  <2> HIDE DEF q1
  <2> QED BY <2>1, <2>2, <2>3, OneMore
<1>5. /\ queue' \in [Devices -> Seq(Commands)] /\ queue'[d] = r
      /\ \A e \in Devices \ {d} : queue'[e] = queue[e]
  BY <1>1, <1>2, <1>4 DEF Extended
<1>6. Len(q) \in Nat
  BY <1>1, LenProperties
<1> HIDE DEF q1, r
<1>7. ASSUME NEW e \in Devices PROVE Orderly(queue'[e], memory', e, ops')
  <2>1. CASE e = d
    BY <1>2, <1>4, <1>5, <2>1 DEF Extended
  <2>2. CASE e # d
    <3>1. queue'[e] = queue[e] /\ queue[e] \in Seq(Commands) /\ ops + 2 \in Nat /\ ops <= ops + 2
      BY <1>1, <1>5, <2>2
    <3>2. Orderly(queue[e], memory, e, ops + 2)
      BY <1>1, <3>1, OrderlyElsewhere
    <3> QED BY <1>2, <3>1, <3>2
  <2> QED BY <2>1, <2>2
<1>8. ASSUME NEW e \in Devices, NEW i \in 1 .. Len(queue'[e])
      PROVE  Plain(queue'[e][i], e) \/ (e = d /\ queue'[e][i] = c2)
  <2>1. CASE e = d
    <3>1. i \in 1 .. Len(q) \/ i = Len(q) + 1 \/ i = Len(q1) + 1
      BY <1>3, <1>4, <1>5, <1>6, <2>1 DEF Extended
    <3>2. CASE i \in 1 .. Len(q)
      <4>1. i \in 1 .. Len(q1)
        BY <1>3, <1>6, <3>2 DEF Extended
      <4>2. Plain(q[i], d)
        BY <3>2, RunningFacts
      <4> QED BY <1>3, <1>4, <1>5, <2>1, <3>2, <4>1, <4>2 DEF Extended
    <3>3. CASE i = Len(q) + 1
      <4>1. i \in 1 .. Len(q1)
        BY <1>3, <1>6, <3>3 DEF Extended
      <4>2. queue'[e][i] = c1
        BY <1>3, <1>4, <1>5, <2>1, <3>3, <4>1 DEF Extended
      <4>3. Plain(c1, d)
        BY RunningFacts, Names DEF Plain, TensorSet
      <4> QED BY <2>1, <4>2, <4>3
    <3> QED BY <1>4, <1>5, <2>1, <3>1, <3>2, <3>3 DEF Extended
  <2>2. CASE e # d
    BY <1>5, <2>2, RunningFacts
  <2> QED BY <2>1, <2>2
<1>9. ASSUME NEW e \in Devices, NEW p \in Blocks \ (c1.writes \cup c2.writes), NEW v,
             Holds(queue[e], memory, p, Len(queue[e]), v)
      PROVE  Holds(queue'[e], memory', p, Len(queue'[e]), v)
  <2>1. CASE e = d
    <3>1. Holds(q1, memory, p, Len(q1), v)
      BY <1>3, <1>9, <2>1 DEF Extended
    <3>2. Holds(r, memory, p, Len(r), v)
      BY <1>4, <3>1 DEF Extended
    <3> QED BY <1>5, <2>1, <3>2
  <2>2. CASE e # d
    BY <1>5, <1>9, <2>2
  <2> QED BY <2>1, <2>2
<1>10. \A p \in c2.writes : Holds(queue'[d], memory', p, Len(queue'[d]), c2.val)
  BY <1>4, <1>5 DEF Extended
<1>11. ASSUME NEW p \in c1.writes \ c2.writes
       PROVE  Holds(queue'[d], memory', p, Len(queue'[d]), c1.val)
  <2>1. Holds(q1, memory, p, Len(q1), c1.val)
    BY <1>3 DEF Extended
  <2>2. Holds(r, memory, p, Len(r), c1.val)
    BY <1>4, <2>1 DEF Extended
  <2> QED BY <1>5, <2>2
<1> QED BY <1>2, <1>5, <1>7, <1>8, <1>9, <1>10, <1>11 DEF Enqueued

\* What an action that puts commands on a stream has to keep.
LEMMA EnqueuedInv ==
  ASSUME StreamInv, host = Running, NEW d \in Devices, NEW c \in Commands, NEW written,
         Enqueued(d, c, written), TypeInv', BlockInv', answer' = answer,
         Plain(c, d) \/ Awaited(c, d, host', ops', memory', queue'),
         \A t \in Held' :
           \/ t \in tensors /\ t.block \notin written
           \/ t.dev = d /\ t.block \in c.writes /\ Home[t.block] = d /\ t.val = c.val
           \/ /\ t.dev = d /\ Home[t.block] = d
              /\ Holds(queue'[d], memory', t.block, Len(queue'[d]), t.val),
         \A t, u \in Held' : t.block = u.block => t = u,
         host'.wait = "read" => host'.dev = d /\ Result \in c.writes /\ host'.val = c.val
  PROVE  StreamInv'
<1>1. OrderInv'
  <2>1. \A e \in Devices : Orderly(queue'[e], memory', e, ops')
    BY DEF Enqueued
  <2> QED BY <2>1 DEF OrderInv, Orderly, Holds
<1>2. WaitInv'
  <2>1. \A e \in Devices : \A i \in 1 .. Len(queue'[e]) :
          \/ Plain(queue'[e][i], e)
          \/ Awaited(queue'[e][i], e, host', ops', memory', queue')
    BY DEF Enqueued
  <2> QED BY <2>1 DEF WaitInv, Plain, Awaited, Holds
<1>3. TensorInv'
  <2>1. ASSUME NEW t \in Held'
        PROVE  /\ Home[t.block] = t.dev
               /\ Holds(queue'[t.dev], memory', t.block, Len(queue'[t.dev]), t.val)
    <3>1. CASE t \in tensors /\ t.block \notin written
      <4>1. /\ t \in TensorSet /\ Home[t.block] = t.dev
            /\ Holds(queue[t.dev], memory, t.block, Len(queue[t.dev]), t.val)
        BY <3>1, RunningFacts
      <4>2. t.block \in Blocks \ written /\ t.dev \in Devices
        BY <3>1, <4>1 DEF TensorSet
      <4> QED BY <4>1, <4>2 DEF Enqueued
    <3>2. CASE t.dev = d /\ t.block \in c.writes /\ Home[t.block] = d /\ t.val = c.val
      BY <3>2 DEF Enqueued
    <3>3. CASE /\ t.dev = d /\ Home[t.block] = d
               /\ Holds(queue'[d], memory', t.block, Len(queue'[d]), t.val)
      BY <3>3
    <3> QED BY <3>1, <3>2, <3>3
  <2>2. \A t \in Held' :
          /\ Home[t.block] = t.dev
          /\ Holds(queue'[t.dev], memory', t.block, Len(queue'[t.dev]), t.val)
    BY <2>1
  <2> QED BY <2>2 DEF TensorInv, Holds
<1>4. ReadInv'
  <2>1. host'.wait = "read" =>
          Holds(queue'[host'.dev], memory', Result, Len(queue'[host'.dev]), host'.val)
    BY DEF Enqueued
  <2> QED BY <2>1 DEF ReadInv, Holds
<1>5. AnswersAreFinal'
  BY DEF StreamInv, AnswersAreFinal
<1> QED BY <1>1, <1>2, <1>3, <1>4, <1>5 DEF StreamInv

\* Blocks are taken out of the pools and the heap for tensors, or into the
\* workspaces of a device.
LEMMA Allocated ==
  ASSUME StreamInv, NEW d \in Devices, NEW b \in Free(d, {}), Allocate({b}),
         argmax' = argmax, Used' = Used \cup {b}, workspaces' = workspaces
  PROVE  BlockInv'
<1>1. /\ b \in Blocks /\ Home[b] = d
      /\ \A e \in Devices : b # argmax[e]
  BY FreeFacts
<1>2. heap' = heap \ {b} /\ \A e \in Devices : pools'[e] = pools[e] \ {b}
  BY DEF Allocate
<1>3. ASSUME NEW e \in Devices
      PROVE  Accounted(e)'
  BY <1>1, <1>2 DEF StreamInv, BlockInv, Accounted
<1> QED BY <1>3 DEF BlockInv

\* One tensor more, in a block of its own.
LEMMA Added ==
  ASSUME StreamInv, host = Running, NEW d \in Devices, NEW b \in Free(d, {}),
         NEW v, Held' = tensors \cup {Tensor(d, b, v)}
  PROVE  /\ Used' = Used \cup {b}
         /\ \A t \in Held' :
              \/ t \in tensors /\ t.block \notin {b}
              \/ t.dev = d /\ t.block \in {b} /\ Home[t.block] = d /\ t.val = v
         /\ \A t, u \in Held' : t.block = u.block => t = u
<1>1. b \in Blocks /\ Home[b] = d /\ b \notin Used
  BY FreeFacts
<1> DEFINE n == Tensor(d, b, v)
<1>2. Used' = {t.block : t \in Held'}
  BY DEF Used
<1>3. n.dev = d /\ n.block = b /\ n.val = v /\ Held' = tensors \cup {n}
  BY DEF Tensor
<1> HIDE DEF n
<1>4. Used = {t.block : t \in tensors}
  BY RunningFacts
<1>5. Used' = Used \cup {b}
  BY <1>2, <1>3, <1>4
<1>6. \A t \in tensors : t.block # b
  BY <1>1, <1>4
<1> QED BY <1>1, <1>3, <1>5, <1>6, RunningFacts

LEMMA HeldRunning ==
  ASSUME host' = Running PROVE Held' = tensors'
<1>1. host'.wait = "run"
  BY DEF Running
<1> QED BY <1>1 DEF Held

-----------------------------------------------------------------------------
\* The actions.

LEMMA ComputeStep ==
  ASSUME StreamInv, NEW d \in Devices, Compute(d)
  PROVE  StreamInv'
<1>1. PICK x \in Inputs(d), y \in Inputs(d), b \in Free(d, {}) :
        /\ Enqueue(d, <<Command(1, {x, y}, {b}, New)>>)
        /\ Allocate({b})
        /\ tensors' = tensors \cup {Tensor(d, b, New)}
  BY DEF Compute
<1> DEFINE c == Command(1, {x, y}, {b}, New)
<1>2. /\ host = Running /\ host' = host /\ memory' = memory /\ answer' = answer
      /\ workspaces' = workspaces /\ argmax' = argmax
  BY DEF Compute
<1>3. /\ b \in Blocks /\ Home[b] = d /\ b \notin Used
      /\ x \in tensors /\ y \in tensors /\ x \in TensorSet /\ y \in TensorSet
      /\ x.dev = d /\ y.dev = d /\ ops \in Nat
  BY FreeFacts, RunningFacts, <1>2 DEF Inputs, StreamInv, TypeInv
<1>4. c \in Commands /\ c.at = ops + 1 /\ c.val = New /\ c.reads = {x, y} /\ c.writes = {b}
  BY <1>3, Names DEF Command, Commands, Readings, New
<1> HIDE DEF c
<1>5. Enqueued(d, c, c.writes) /\ ops' = ops + 1
  BY <1>1, <1>2, <1>3, <1>4, Names, EnqueueOne DEF c
<1>6. Plain(c, d)
  BY <1>3, <1>4, Names, RunningFacts, <1>2 DEF Plain, TensorSet
<1>7. Held' = tensors \cup {Tensor(d, b, c.val)}
  BY <1>1, <1>2, <1>4, HeldRunning
<1>8. /\ Used' = Used \cup {b}
      /\ \A t \in Held' :
           \/ t \in tensors /\ t.block \notin c.writes
           \/ t.dev = d /\ t.block \in c.writes /\ Home[t.block] = d /\ t.val = c.val
      /\ \A t, u \in Held' : t.block = u.block => t = u
  BY <1>2, <1>4, <1>7, Added
<1>9. BlockInv'
  BY <1>1, <1>2, <1>8, Allocated
<1>10. TypeInv'
  BY <1>1, <1>2, <1>3, <1>5 DEF StreamInv, TypeInv, Enqueued, Allocate, Tensor, TensorSet, New
<1>11. host'.wait # "read"
  BY <1>2 DEF Running
<1> QED BY <1>2, <1>4, <1>5, <1>6, <1>8, <1>9, <1>10, <1>11, EnqueuedInv

LEMMA AppendStep ==
  ASSUME StreamInv, NEW d \in Devices, Append_kv_cache(d)
  PROVE  StreamInv'
<1>1. PICK x \in Inputs(d), cache \in Inputs(d) :
        /\ x # cache
        /\ Enqueue(d, <<Command(1, {x, cache}, {cache.block}, New)>>)
        /\ tensors' = (tensors \ {cache}) \cup {Tensor(d, cache.block, New)}
  BY DEF Append_kv_cache
<1> DEFINE c == Command(1, {x, cache}, {cache.block}, New)
           n == Tensor(d, cache.block, New)
<1>2. /\ host = Running /\ host' = host /\ memory' = memory /\ answer' = answer
      /\ heap' = heap /\ pools' = pools /\ workspaces' = workspaces /\ argmax' = argmax
  BY DEF Append_kv_cache
<1>3. /\ x \in tensors /\ cache \in tensors /\ x \in TensorSet /\ cache \in TensorSet
      /\ x.dev = d /\ cache.dev = d /\ ops \in Nat
      /\ cache.block \in Blocks /\ Home[cache.block] = d
  BY RunningFacts, <1>2 DEF Inputs, StreamInv, TypeInv, TensorSet
<1>4. /\ c \in Commands /\ c.at = ops + 1 /\ c.val = New
      /\ c.reads = {x, cache} /\ c.writes = {cache.block}
  BY <1>3, Names DEF Command, Commands, Readings, New
<1> HIDE DEF c
<1>5. Enqueued(d, c, c.writes) /\ ops' = ops + 1
  BY <1>1, <1>2, <1>3, <1>4, Names, EnqueueOne DEF c
<1>6. Plain(c, d)
  BY <1>3, <1>4, Names, RunningFacts, <1>2 DEF Plain, TensorSet
<1>7. /\ n \in TensorSet /\ n.dev = d /\ n.block = cache.block /\ n.val = c.val
      /\ Held' = (tensors \ {cache}) \cup {n}
  BY <1>1, <1>2, <1>3, <1>4, HeldRunning DEF Tensor, TensorSet, New
<1> HIDE DEF n
<1>8. Used' = Used
  <2>1. Used' = {t.block : t \in Held'}
    BY DEF Used
  <2> QED BY <1>2, <1>3, <1>7, <2>1, RunningFacts
<1>9. BlockInv'
  BY <1>2, <1>8 DEF StreamInv, BlockInv, Accounted
<1>10. TypeInv'
  BY <1>1, <1>2, <1>5, <1>7 DEF StreamInv, TypeInv, Enqueued, n
<1>11. /\ \A t \in Held' :
            \/ t \in tensors /\ t.block \notin c.writes
            \/ t.dev = d /\ t.block \in c.writes /\ Home[t.block] = d /\ t.val = c.val
       /\ \A t, u \in Held' : t.block = u.block => t = u
  BY <1>2, <1>3, <1>4, <1>7, RunningFacts
<1>12. host'.wait # "read"
  BY <1>2 DEF Running
<1> QED BY <1>2, <1>4, <1>5, <1>6, <1>9, <1>10, <1>11, <1>12, EnqueuedInv

LEMMA RecurrentStep ==
  ASSUME StreamInv, NEW d \in Devices, Recurrent(d)
  PROVE  StreamInv'
<1>1. PICK x \in Inputs(d), state \in Inputs(d) :
        \E b \in (IF FreeWorkspaces(d) # {} THEN FreeWorkspaces(d) ELSE Free(d, {})) :
          /\ x # state
          /\ Enqueue(d, <<Command(1, {x, state}, {state.block, b}, New)>>)
          /\ Allocate({b})
          /\ workspaces' = [workspaces EXCEPT ![d] = @ \cup {b}]
          /\ tensors' = (tensors \ {state})
                          \cup {Tensor(d, state.block, New), Tensor(d, b, New)}
  BY DEF Recurrent
<1>2. PICK b \in (IF FreeWorkspaces(d) # {} THEN FreeWorkspaces(d) ELSE Free(d, {})) :
        /\ Enqueue(d, <<Command(1, {x, state}, {state.block, b}, New)>>)
        /\ Allocate({b})
        /\ workspaces' = [workspaces EXCEPT ![d] = @ \cup {b}]
        /\ tensors' = (tensors \ {state})
                        \cup {Tensor(d, state.block, New), Tensor(d, b, New)}
  BY <1>1
<1> DEFINE c == Command(1, {x, state}, {state.block, b}, New)
           n == Tensor(d, state.block, New)
           w == Tensor(d, b, New)
<1>3. /\ host = Running /\ host' = host /\ memory' = memory /\ answer' = answer
      /\ argmax' = argmax
  BY DEF Recurrent
<1>4. /\ x \in tensors /\ state \in tensors /\ x \in TensorSet /\ state \in TensorSet
      /\ x.dev = d /\ state.dev = d /\ ops \in Nat
      /\ state.block \in Blocks /\ Home[state.block] = d
  BY RunningFacts, <1>3 DEF Inputs, StreamInv, TypeInv, TensorSet
<1>5. /\ b \in Blocks /\ Home[b] = d /\ b \notin Used
      /\ \A e \in Devices : b # argmax[e]
      /\ b \in workspaces[d] => b \notin heap /\ \A e \in Devices : b \notin pools[e]
      /\ b \notin workspaces[d] => \A e \in Devices : b \notin workspaces[e]
  <2>1. CASE b \in Free(d, {})
    BY <2>1, FreeFacts
  <2>2. CASE b \in FreeWorkspaces(d)
    <3>1. b \in workspaces[d] /\ b \notin Used
      BY <1>3, <2>2, RunningFacts DEF FreeWorkspaces
    <3>2. b \in Blocks
      BY <3>1 DEF StreamInv, TypeInv
    <3>3. Home[b] = d
      BY <3>1 DEF StreamInv, BlockInv, Accounted
    <3>4. ASSUME NEW e \in Devices PROVE b # argmax[e] /\ b \notin pools[e] /\ b \notin heap
      <4>1. argmax[e] # NoBlock => Home[argmax[e]] = e
        BY DEF StreamInv, BlockInv, Accounted
      <4>2. b \in pools[e] => Home[b] = e
        BY DEF StreamInv, BlockInv, Accounted
      <4>3. /\ b # argmax[d] /\ b \notin pools[d] /\ b \notin heap
        BY <3>1 DEF StreamInv, BlockInv, Accounted
      <4> QED BY <3>2, <3>3, <4>1, <4>2, <4>3, Names
    <3> QED BY <3>1, <3>2, <3>3, <3>4
  <2> QED BY <2>1, <2>2
<1>6. /\ c \in Commands /\ c.at = ops + 1 /\ c.val = New
      /\ c.reads = {x, state} /\ c.writes = {state.block, b}
  BY <1>4, <1>5, Names DEF Command, Commands, Readings, New
<1> HIDE DEF c
<1>7. Enqueued(d, c, c.writes) /\ ops' = ops + 1
  BY <1>2, <1>3, <1>4, <1>5, <1>6, Names, EnqueueOne DEF c
<1>8. Plain(c, d)
  BY <1>4, <1>5, <1>6, Names, RunningFacts, <1>3 DEF Plain, TensorSet
<1>9. /\ n \in TensorSet /\ n.dev = d /\ n.block = state.block /\ n.val = c.val
      /\ w \in TensorSet /\ w.dev = d /\ w.block = b /\ w.val = c.val
      /\ Held' = (tensors \ {state}) \cup {n, w}
  BY <1>2, <1>3, <1>4, <1>5, <1>6, HeldRunning DEF Tensor, TensorSet, New
<1> HIDE DEF n, w
<1>10. Used' = Used \cup {b}
  <2>1. Used' = {t.block : t \in Held'}
    BY DEF Used
  <2> QED BY <1>3, <1>4, <1>9, <2>1, RunningFacts
<1>11. BlockInv'
  <2>1. /\ heap' = heap \ {b} /\ \A e \in Devices : pools'[e] = pools[e] \ {b}
        /\ \A e \in Devices \ {d} : workspaces'[e] = workspaces[e]
        /\ workspaces'[d] = workspaces[d] \cup {b}
    BY <1>2 DEF Allocate, StreamInv, TypeInv
  <2>2. ASSUME NEW e \in Devices
        PROVE  Accounted(e)'
    BY <1>3, <1>5, <1>10, <2>1 DEF StreamInv, BlockInv, Accounted
  <2> QED BY <2>2 DEF BlockInv
<1>12. TypeInv'
  <2>1. tensors' \subseteq TensorSet
    BY <1>2, <1>4, <1>9 DEF StreamInv, TypeInv, n, w
  <2>2. /\ heap' \subseteq Blocks /\ pools' \in [Devices -> SUBSET Blocks]
        /\ workspaces' \in [Devices -> SUBSET Blocks]
    BY <1>2, <1>5 DEF StreamInv, TypeInv, Allocate
  <2> QED BY <1>3, <1>4, <1>7, <2>1, <2>2 DEF StreamInv, TypeInv, Enqueued
<1>13. /\ \A t \in Held' :
            \/ t \in tensors /\ t.block \notin c.writes
            \/ t.dev = d /\ t.block \in c.writes /\ Home[t.block] = d /\ t.val = c.val
       /\ \A t, u \in Held' : t.block = u.block => t = u
  BY <1>3, <1>4, <1>5, <1>6, <1>9, RunningFacts
<1>14. host'.wait # "read"
  BY <1>3 DEF Running
<1> QED BY <1>3, <1>6, <1>7, <1>8, <1>11, <1>12, <1>13, <1>14, EnqueuedInv

LEMMA LookupStep ==
  ASSUME StreamInv, NEW d \in Devices, Lookup_embedding(d)
  PROVE  StreamInv'
<1>1. PICK x \in Inputs(d), b \in Free(d, {}) : \E a \in Free(d, {b}) :
        /\ Enqueue(d, <<Command(1, {}, {a}, New),
                        Command(2, {x, Tensor(d, a, New)}, {b}, New + 1)>>)
        /\ heap' = heap \ {b, a}
        /\ pools' = [pools EXCEPT ![shared_memory_pool(d)] = (@ \cup {a}) \ {b}]
        /\ tensors' = tensors \cup {Tensor(d, b, New + 1)}
  BY DEF Lookup_embedding
<1>2. PICK a \in Free(d, {b}) :
        /\ Enqueue(d, <<Command(1, {}, {a}, New),
                        Command(2, {x, Tensor(d, a, New)}, {b}, New + 1)>>)
        /\ heap' = heap \ {b, a}
        /\ pools' = [pools EXCEPT ![d] = (@ \cup {a}) \ {b}]
        /\ tensors' = tensors \cup {Tensor(d, b, New + 1)}
  BY <1>1 DEF shared_memory_pool
<1> DEFINE c1 == Command(1, {}, {a}, New)
           c2 == Command(2, {x, Tensor(d, a, New)}, {b}, New + 1)
<1>3. /\ host = Running /\ host' = host /\ memory' = memory /\ answer' = answer
      /\ workspaces' = workspaces /\ argmax' = argmax /\ ops \in Nat
  BY DEF Lookup_embedding, StreamInv, TypeInv
<1>4. /\ b \in Blocks /\ Home[b] = d /\ b \notin Used
      /\ a \in Blocks /\ Home[a] = d /\ a \notin Used /\ a # b
      /\ \A e \in Devices : /\ b \notin workspaces[e] /\ b # argmax[e]
                            /\ a \notin workspaces[e] /\ a # argmax[e]
  BY FreeFacts
<1>5. /\ Tensor(d, a, New) \in TensorSet /\ Tensor(d, b, New + 1) \in TensorSet
      /\ Tensor(d, a, New).block = a /\ Tensor(d, a, New).val = New
      /\ x \in tensors /\ x \in TensorSet /\ x.dev = d /\ x.block \in Blocks
      /\ Home[x.block] = d /\ x.block # a
  BY <1>3, <1>4, RunningFacts DEF Tensor, TensorSet, New, Inputs
<1>6. /\ c1 \in Commands /\ c1.at = ops + 1 /\ c1.val = New
      /\ c1.reads = {} /\ c1.writes = {a}
  BY <1>3, <1>4, Names DEF Command, Commands, Readings, New
<1>7. /\ c2 \in Commands /\ c2.at = ops + 2 /\ c2.val = New + 1
      /\ c2.reads = {x, Tensor(d, a, New)} /\ c2.writes = {b}
  BY <1>3, <1>4, <1>5, Names DEF Command, Commands, Readings, New
<1>8. Enqueue(d, <<c1, c2>>)
  BY <1>2
<1> HIDE DEF c1, c2
<1>9. Enqueued(d, c2, {a, b}) /\ ops' = ops + 2
  <2>1. c1.writes \cup c2.writes = {a, b}
    BY <1>6, <1>7
  <2>2. \A t \in c2.reads :
          \/ t.block \in c1.writes /\ t.val = c1.val
          \/ t \in tensors /\ t.dev = d /\ t.block \notin c1.writes
    BY <1>5, <1>6, <1>7
  <2>3. /\ c1.writes \subseteq Blocks /\ Staging \notin c2.writes
        /\ \A p \in (c1.writes \cup c2.writes) \cap Blocks : Home[p] = d
        /\ c1.reads \subseteq {t \in tensors : t.dev = d}
    BY <1>4, <1>6, <1>7, Names
  <2>4. c1 \in Commands /\ c2 \in Commands /\ c1.at = ops + 1 /\ c2.at = ops + 2
    BY <1>6, <1>7
  <2>5. Enqueued(d, c2, c1.writes \cup c2.writes) /\ ops' = ops + 2
    BY <1>3, <1>8, <2>2, <2>3, <2>4, EnqueueTwo
  <2> QED BY <2>1, <2>5
<1>10. Plain(c2, d)
  BY <1>4, <1>5, <1>7, Names DEF Plain
<1>11. Held' = tensors \cup {Tensor(d, b, c2.val)}
  BY <1>2, <1>3, <1>7, HeldRunning
<1>12. /\ Used' = Used \cup {b}
       /\ \A t \in Held' :
            \/ t \in tensors /\ t.block \notin {b}
            \/ t.dev = d /\ t.block \in {b} /\ Home[t.block] = d /\ t.val = c2.val
       /\ \A t, u \in Held' : t.block = u.block => t = u
  BY <1>3, <1>11, Added
<1>13. \A t \in Held' :
         \/ t \in tensors /\ t.block \notin {a, b}
         \/ t.dev = d /\ t.block \in c2.writes /\ Home[t.block] = d /\ t.val = c2.val
  <2>1. \A t \in tensors : t.block # a
    BY <1>3, <1>4, RunningFacts
  <2> QED BY <1>7, <1>12, <2>1
<1>14. BlockInv'
  <2>1. /\ pools'[d] = (pools[d] \cup {a}) \ {b}
        /\ \A e \in Devices \ {d} : pools'[e] = pools[e]
    BY <1>2 DEF StreamInv, TypeInv
  <2>2. ASSUME NEW e \in Devices
        PROVE  Accounted(e)'
    <3>1. Accounted(e)
      BY DEF StreamInv, BlockInv, Accounted
    <3> QED BY <1>2, <1>3, <1>4, <1>12, <2>1, <3>1 DEF Accounted
  <2> QED BY <2>2 DEF BlockInv
<1>15. TypeInv'
  <2>1. tensors' \subseteq TensorSet /\ heap' \subseteq Blocks
    BY <1>2, <1>5 DEF StreamInv, TypeInv
  <2>2. pools' \in [Devices -> SUBSET Blocks]
    BY <1>2, <1>4 DEF StreamInv, TypeInv
  <2> QED BY <1>3, <1>9, <2>1, <2>2 DEF StreamInv, TypeInv, Enqueued
<1>16. host'.wait # "read"
  BY <1>3 DEF Running
<1> QED BY <1>3, <1>7, <1>9, <1>10, <1>12, <1>13, <1>14, <1>15, <1>16, EnqueuedInv

LEMMA LookupIntoStep ==
  ASSUME StreamInv, NEW d \in Devices, Lookup_embedding_into(d)
  PROVE  StreamInv'
<1>1. PICK x \in Inputs(d), output \in Inputs(d), ids \in Inputs(d) :
        /\ x # output /\ x # ids /\ output # ids
        /\ Enqueue(d, <<Command(1, {}, {ids.block}, New),
                        Command(2, {x, Tensor(d, ids.block, New)}, {output.block}, New + 1)>>)
        /\ tensors' = (tensors \ {output, ids})
             \cup {Tensor(d, ids.block, New), Tensor(d, output.block, New + 1)}
  BY DEF Lookup_embedding_into
<1> DEFINE a == ids.block
           b == output.block
           i == Tensor(d, a, New)
           o == Tensor(d, b, New + 1)
           c1 == Command(1, {}, {a}, New)
           c2 == Command(2, {x, i}, {b}, New + 1)
<1>2. /\ host = Running /\ host' = host /\ memory' = memory /\ answer' = answer
      /\ heap' = heap /\ pools' = pools /\ workspaces' = workspaces /\ argmax' = argmax
      /\ ops \in Nat
  BY DEF Lookup_embedding_into, StreamInv, TypeInv
<1>3. /\ {x, output, ids} \subseteq tensors /\ {x, output, ids} \subseteq TensorSet
      /\ x.dev = d /\ output.dev = d /\ ids.dev = d
      /\ a \in Blocks /\ b \in Blocks /\ Home[a] = d /\ Home[b] = d /\ a # b
      /\ x.block \in Blocks /\ Home[x.block] = d /\ x.block # a
  BY <1>1, <1>2, RunningFacts DEF Inputs, TensorSet
<1>4. /\ i \in TensorSet /\ i.dev = d /\ i.block = a /\ i.val = New
      /\ o \in TensorSet /\ o.dev = d /\ o.block = b /\ o.val = New + 1
  BY <1>2, <1>3 DEF Tensor, TensorSet, New
<1>5. Enqueue(d, <<c1, c2>>) /\ tensors' = (tensors \ {output, ids}) \cup {i, o}
  BY <1>1
<1> HIDE DEF i, o
<1>6. /\ c1 \in Commands /\ c1.at = ops + 1 /\ c1.val = New
      /\ c1.reads = {} /\ c1.writes = {a}
  BY <1>2, <1>3, Names DEF Command, Commands, Readings, New
<1>7. /\ c2 \in Commands /\ c2.at = ops + 2 /\ c2.val = New + 1
      /\ c2.reads = {x, i} /\ c2.writes = {b}
  BY <1>2, <1>3, <1>4, Names DEF Command, Commands, Readings, New
<1> HIDE DEF c1, c2, a, b
<1>8. /\ Enqueued(d, c2, {a, b}) /\ ops' = ops + 2
      /\ \A p \in c1.writes \ c2.writes :
           Holds(queue'[d], memory', p, Len(queue'[d]), c1.val)
  <2>1. c1.writes \cup c2.writes = {a, b}
    BY <1>6, <1>7
  <2>2. \A t \in c2.reads :
          \/ t.block \in c1.writes /\ t.val = c1.val
          \/ t \in tensors /\ t.dev = d /\ t.block \notin c1.writes
    BY <1>3, <1>4, <1>6, <1>7
  <2>3. /\ c1.writes \subseteq Blocks /\ Staging \notin c2.writes
        /\ \A p \in (c1.writes \cup c2.writes) \cap Blocks : Home[p] = d
        /\ c1.reads \subseteq {t \in tensors : t.dev = d}
    BY <1>3, <1>6, <1>7, Names DEF a, b
  <2>4. c1 \in Commands /\ c2 \in Commands /\ c1.at = ops + 1 /\ c2.at = ops + 2
    BY <1>6, <1>7
  <2>5. /\ Enqueued(d, c2, c1.writes \cup c2.writes) /\ ops' = ops + 2
        /\ \A p \in c1.writes \ c2.writes :
             Holds(queue'[d], memory', p, Len(queue'[d]), c1.val)
    BY <1>2, <1>5, <2>2, <2>3, <2>4, EnqueueTwo
  <2> QED BY <2>1, <2>5
<1>9. Plain(c2, d)
  BY <1>3, <1>4, <1>7, Names DEF Plain
<1>10. Held' = (tensors \ {output, ids}) \cup {i, o}
  BY <1>2, <1>5, HeldRunning
<1>11. Used' = Used
  <2>1. Used' = {t.block : t \in Held'}
    BY DEF Used
  <2> QED BY <1>2, <1>3, <1>4, <1>10, <2>1, RunningFacts DEF a, b
<1>12. BlockInv'
  BY <1>2, <1>11 DEF StreamInv, BlockInv, Accounted
<1>13. TypeInv'
  BY <1>2, <1>4, <1>5, <1>8 DEF StreamInv, TypeInv, Enqueued
<1>14. \A t, u \in Held' : t.block = u.block => t = u
  BY <1>2, <1>3, <1>4, <1>10, RunningFacts DEF a, b
<1>15. \A t \in Held' :
         \/ t \in tensors /\ t.block \notin {a, b}
         \/ t.dev = d /\ t.block \in c2.writes /\ Home[t.block] = d /\ t.val = c2.val
         \/ /\ t.dev = d /\ Home[t.block] = d
            /\ Holds(queue'[d], memory', t.block, Len(queue'[d]), t.val)
  <2>1. \A t \in tensors \ {output, ids} : t.block \notin {a, b}
    BY <1>2, <1>3, RunningFacts DEF a, b
  <2>2. a \in c1.writes \ c2.writes
    BY <1>3, <1>6, <1>7
  <2>3. Holds(queue'[d], memory', a, Len(queue'[d]), c1.val)
    BY <1>8, <2>2
  <2> QED BY <1>3, <1>4, <1>6, <1>7, <1>10, <2>1, <2>3
<1>16. host'.wait # "read"
  BY <1>2 DEF Running
<1> QED BY <1>2, <1>7, <1>8, <1>9, <1>12, <1>13, <1>14, <1>15, <1>16,
           EnqueuedInv

LEMMA BeginToStep ==
  ASSUME StreamInv, NEW d \in Devices, BeginTo(d)
  PROVE  StreamInv'
<1>1. PICK x \in tensors, b \in Free(d, {}) :
        /\ x.dev # d
        /\ Enqueue(d, <<Command(1, {x}, {b}, x.val)>>)
        /\ Allocate({b})
        /\ host' = [wait |-> "to", dev |-> d, tensor |-> Tensor(d, b, x.val)]
  BY DEF BeginTo
<1> DEFINE c == Command(1, {x}, {b}, x.val)
           n == Tensor(d, b, x.val)
<1>2. /\ host = Running /\ memory' = memory /\ answer' = answer /\ tensors' = tensors
      /\ workspaces' = workspaces /\ argmax' = argmax /\ ops \in Nat
  BY DEF BeginTo, StreamInv, TypeInv
<1>3. /\ b \in Blocks /\ Home[b] = d /\ b \notin Used
      /\ x \in TensorSet /\ x.block \in Blocks /\ x.val \in Nat /\ x.dev \in Devices
      /\ Home[x.block] = x.dev /\ x.dev # d
      /\ Holds(queue[x.dev], memory, x.block, Len(queue[x.dev]), x.val)
  BY <1>1, <1>2, FreeFacts, RunningFacts DEF TensorSet
<1>4. c \in Commands /\ c.at = ops + 1 /\ c.val = x.val /\ c.reads = {x} /\ c.writes = {b}
  BY <1>2, <1>3, Names DEF Command, Commands, Readings
<1>5. /\ host'.wait = "to" /\ host'.dev = d /\ host'.tensor = n
      /\ n \in TensorSet
  BY <1>1, <1>3 DEF Tensor, TensorSet
<1> HIDE DEF c
<1>6. Enqueued(d, c, c.writes) /\ ops' = ops + 1
  BY <1>1, <1>2, <1>3, <1>4, Names, EnqueueOne DEF c
<1>7. Awaited(c, d, host', ops', memory', queue')
  <2>1. Holds(queue'[x.dev], memory', x.block, Len(queue'[x.dev]), x.val)
    BY <1>2, <1>3, <1>6 DEF Enqueued
  <2> QED BY <1>3, <1>4, <1>5, <1>6, <2>1, Names DEF Awaited
<1>8. Held' = tensors \cup {n}
  BY <1>2, <1>5 DEF Held
<1>9. /\ Used' = Used \cup {b}
      /\ \A t \in Held' :
           \/ t \in tensors /\ t.block \notin c.writes
           \/ t.dev = d /\ t.block \in c.writes /\ Home[t.block] = d /\ t.val = c.val
      /\ \A t, u \in Held' : t.block = u.block => t = u
  BY <1>2, <1>4, <1>8, Added
<1>10. BlockInv'
  BY <1>1, <1>2, <1>9, Allocated
<1>11. TypeInv'
  <2>1. host' \in [wait : {"to", "load"}, dev : Devices, tensor : TensorSet]
    BY <1>1, <1>5
  <2>2. heap' \subseteq Blocks /\ pools' \in [Devices -> SUBSET Blocks]
    BY <1>1 DEF StreamInv, TypeInv, Allocate
  <2> QED BY <1>2, <1>6, <2>1, <2>2 DEF StreamInv, TypeInv, Enqueued
<1>12. host'.wait # "read"
  BY <1>5
<1> QED BY <1>2, <1>4, <1>6, <1>7, <1>9, <1>10, <1>11, <1>12, EnqueuedInv

LEMMA BeginLoadStep ==
  ASSUME StreamInv, NEW d \in Devices, BeginLoad(d)
  PROVE  StreamInv'
<1>1. PICK b \in Free(d, {}) :
        /\ Enqueue(d, <<Command(1, {[block |-> Staging, val |-> New]}, {b}, New)>>)
        /\ Allocate({b})
        /\ host' = [wait |-> "load", dev |-> d, tensor |-> Tensor(d, b, New)]
  BY DEF BeginLoad
<1> DEFINE s == [block |-> Staging, val |-> New]
           c == Command(1, {s}, {b}, New)
           n == Tensor(d, b, New)
<1>2. /\ host = Running /\ memory' = [memory EXCEPT ![Staging] = New] /\ answer' = answer
      /\ tensors' = tensors /\ workspaces' = workspaces /\ argmax' = argmax
      /\ ops \in Nat /\ memory \in [Places -> Nat]
  BY DEF BeginLoad, StreamInv, TypeInv
<1>3. /\ b \in Blocks /\ Home[b] = d /\ b \notin Used
  BY FreeFacts
<1>4. /\ s \in Readings /\ s.block = Staging /\ s.val = New
      /\ memory'[Staging] = New /\ \A p \in Blocks : memory'[p] = memory[p]
  BY <1>2, Names DEF Readings, New
<1>5. /\ host'.wait = "load" /\ host'.dev = d /\ host'.tensor = n
      /\ n \in TensorSet
  BY <1>1, <1>2, <1>3 DEF Tensor, TensorSet, New
<1> HIDE DEF s
<1>6. c \in Commands /\ c.at = ops + 1 /\ c.val = New /\ c.reads = {s} /\ c.writes = {b}
  BY <1>2, <1>3, <1>4, Names DEF Command, Commands, New
<1> HIDE DEF c
<1>7. Enqueued(d, c, c.writes) /\ ops' = ops + 1
  <2>1. Enqueue(d, <<c>>)
    BY <1>1 DEF c, s
  <2>2. \A t \in c.reads : t.block \notin Blocks
    BY <1>4, <1>6, Names
  <2> QED BY <1>2, <1>3, <1>4, <1>6, <2>1, <2>2, Names, EnqueueOne
<1>8. Awaited(c, d, host', ops', memory', queue')
  BY <1>3, <1>4, <1>5, <1>6, Names DEF Awaited
<1>9. Held' = tensors \cup {n}
  BY <1>2, <1>5 DEF Held
<1>10. /\ Used' = Used \cup {b}
       /\ \A t \in Held' :
            \/ t \in tensors /\ t.block \notin c.writes
            \/ t.dev = d /\ t.block \in c.writes /\ Home[t.block] = d /\ t.val = c.val
       /\ \A t, u \in Held' : t.block = u.block => t = u
  BY <1>2, <1>6, <1>9, Added
<1>11. BlockInv'
  BY <1>1, <1>2, <1>10, Allocated
<1>12. TypeInv'
  <2>1. host' \in [wait : {"to", "load"}, dev : Devices, tensor : TensorSet]
    BY <1>1, <1>5
  <2>2. heap' \subseteq Blocks /\ pools' \in [Devices -> SUBSET Blocks]
    BY <1>1 DEF StreamInv, TypeInv, Allocate
  <2>3. memory' \in [Places -> Nat]
    <3>1. New \in Nat
      BY <1>2 DEF New
    <3> QED BY <1>2, <3>1
  <2> QED BY <1>2, <1>7, <2>1, <2>2, <2>3 DEF StreamInv, TypeInv, Enqueued
<1>13. host'.wait # "read" /\ host = Running /\ answer' = answer /\ c \in Commands
  BY <1>2, <1>5, <1>6
<1>14. \A t \in Held' :
         \/ t \in tensors /\ t.block \notin c.writes
         \/ t.dev = d /\ t.block \in c.writes /\ Home[t.block] = d /\ t.val = c.val
         \/ /\ t.dev = d /\ Home[t.block] = d
            /\ Holds(queue'[d], memory', t.block, Len(queue'[d]), t.val)
  BY <1>6, <1>10
<1> QED BY <1>7, <1>8, <1>10, <1>11, <1>12, <1>13, <1>14, EnqueuedInv

LEMMA BeginReadStep ==
  ASSUME StreamInv, NEW d \in Devices, BeginRead(d)
  PROVE  StreamInv'
<1>1. PICK logits \in Inputs(d) :
        \E b \in (IF argmax[d] = NoBlock THEN Free(d, {}) ELSE {argmax[d]}) :
          /\ Enqueue(d, <<Command(1, {logits}, {b}, New),
                          Command(2, {Tensor(d, b, New)}, {Result}, New)>>)
          /\ Allocate({b})
          /\ argmax' = [argmax EXCEPT ![d] = b]
          /\ host' = [wait |-> "read", dev |-> d, val |-> New]
  BY DEF BeginRead
<1>2. PICK b \in (IF argmax[d] = NoBlock THEN Free(d, {}) ELSE {argmax[d]}) :
        /\ Enqueue(d, <<Command(1, {logits}, {b}, New),
                        Command(2, {Tensor(d, b, New)}, {Result}, New)>>)
        /\ Allocate({b})
        /\ argmax' = [argmax EXCEPT ![d] = b]
        /\ host' = [wait |-> "read", dev |-> d, val |-> New]
  BY <1>1
<1> DEFINE c1 == Command(1, {logits}, {b}, New)
           c2 == Command(2, {Tensor(d, b, New)}, {Result}, New)
<1>3. /\ host = Running /\ memory' = memory /\ answer' = answer /\ tensors' = tensors
      /\ workspaces' = workspaces /\ ops \in Nat
      /\ argmax \in [Devices -> Blocks \cup {NoBlock}]
  BY DEF BeginRead, StreamInv, TypeInv
<1>4. /\ b \in Blocks /\ Home[b] = d /\ b \notin Used
      /\ \A e \in Devices : b \notin workspaces[e] /\ (b = argmax[e] => e = d)
  <2>1. CASE b \in Free(d, {})
    BY <2>1, FreeFacts
  <2>2. CASE b = argmax[d] /\ b # NoBlock
    <3>1. b \in Blocks
      BY <1>3, <2>2
    <3>2. Home[b] = d /\ b \notin Used /\ b \notin workspaces[d]
      BY <2>2 DEF StreamInv, BlockInv, Accounted
    <3>3. ASSUME NEW e \in Devices PROVE b \notin workspaces[e] /\ (b = argmax[e] => e = d)
      BY <2>2, <3>2 DEF StreamInv, BlockInv, Accounted
    <3> QED BY <3>1, <3>2, <3>3
  <2> QED BY <2>1, <2>2
<1>5. /\ Tensor(d, b, New) \in TensorSet /\ New \in Nat
      /\ Tensor(d, b, New).block = b /\ Tensor(d, b, New).val = New
      /\ logits \in tensors /\ logits \in TensorSet /\ logits.dev = d
  BY <1>3, <1>4, RunningFacts DEF Tensor, TensorSet, New, Inputs
<1>6. /\ c1 \in Commands /\ c1.at = ops + 1 /\ c1.val = New
      /\ c1.reads = {logits} /\ c1.writes = {b}
  BY <1>3, <1>4, <1>5, Names DEF Command, Commands, Readings
<1>7. /\ c2 \in Commands /\ c2.at = ops + 2 /\ c2.val = New
      /\ c2.reads = {Tensor(d, b, New)} /\ c2.writes = {Result}
  BY <1>3, <1>4, <1>5, Names DEF Command, Commands, Readings
<1>8. Enqueue(d, <<c1, c2>>)
  BY <1>2
<1> HIDE DEF c1, c2
<1>9. Enqueued(d, c2, {b, Result}) /\ ops' = ops + 2
  <2>1. c1.writes \cup c2.writes = {b, Result}
    BY <1>6, <1>7
  <2>2. \A t \in c2.reads : t.block \in c1.writes /\ t.val = c1.val
    BY <1>5, <1>6, <1>7
  <2>3. c1.reads \subseteq {t \in tensors : t.dev = d}
    BY <1>5, <1>6
  <2>4. /\ c1.writes \subseteq Blocks /\ Staging \notin c2.writes
        /\ \A p \in (c1.writes \cup c2.writes) \cap Blocks : Home[p] = d
    BY <1>4, <1>6, <1>7, Names
  <2>5. c1 \in Commands /\ c2 \in Commands /\ c1.at = ops + 1 /\ c2.at = ops + 2
    BY <1>6, <1>7
  <2>6. Enqueued(d, c2, c1.writes \cup c2.writes) /\ ops' = ops + 2
    BY <1>3, <1>8, <2>2, <2>3, <2>4, <2>5, EnqueueTwo
  <2> QED BY <2>1, <2>6
<1>10. host'.wait = "read" /\ host'.dev = d /\ host'.val = c2.val
  BY <1>2, <1>7
<1>11. Awaited(c2, d, host', ops', memory', queue')
  BY <1>4, <1>5, <1>7, <1>10 DEF Awaited
<1>12. Held' = tensors /\ Used' = Used
  <2>1. Held' = tensors
    BY <1>3, <1>10 DEF Held
  <2> QED BY <1>3, <2>1, RunningFacts DEF Used
<1>13. BlockInv'
  <2>1. /\ heap' = heap \ {b} /\ \A e \in Devices : pools'[e] = pools[e] \ {b}
        /\ argmax'[d] = b /\ \A e \in Devices \ {d} : argmax'[e] = argmax[e]
    BY <1>2, <1>3 DEF Allocate
  <2>2. ASSUME NEW e \in Devices
        PROVE  Accounted(e)'
    <3>1. Accounted(e)
      BY DEF StreamInv, BlockInv, Accounted
    <3>2. CASE e = d
      <4>1. argmax[d] # NoBlock => argmax[d] = b
        BY <1>2
      <4> QED BY <1>3, <1>4, <1>12, <2>1, <3>1, <3>2, <4>1, Names DEF Accounted
    <3>3. CASE e # d
      BY <1>3, <1>4, <1>12, <2>1, <3>1, <3>3 DEF Accounted
    <3> QED BY <3>2, <3>3
  <2> QED BY <2>2 DEF BlockInv
<1>14. TypeInv'
  <2>1. host' \in [wait : {"read"}, dev : Devices, val : Nat]
    BY <1>2, <1>5
  <2>2. heap' \subseteq Blocks /\ pools' \in [Devices -> SUBSET Blocks]
    BY <1>2 DEF StreamInv, TypeInv, Allocate
  <2>3. argmax' \in [Devices -> Blocks \cup {NoBlock}]
    BY <1>2, <1>3, <1>4
  <2> QED BY <1>3, <1>9, <2>1, <2>2, <2>3 DEF StreamInv, TypeInv, Enqueued
<1>15. /\ \A t \in Held' :
            \/ t \in tensors /\ t.block \notin {b, Result}
            \/ t.dev = d /\ t.block \in c2.writes /\ Home[t.block] = d /\ t.val = c2.val
       /\ \A t, u \in Held' : t.block = u.block => t = u
  <2>1. \A t \in tensors : t.block # b /\ t.block \in Blocks
    BY <1>3, <1>4, RunningFacts DEF TensorSet
  <2> QED BY <1>3, <1>12, <2>1, Names, RunningFacts
<1> QED BY <1>3, <1>7, <1>9, <1>10, <1>11, <1>13, <1>14, <1>15, EnqueuedInv

\* What an action keeps that only ends a wait or lets go of a tensor.
LEMMA QuietInv ==
  ASSUME StreamInv, host' = Running, queue' = queue, ops' = ops,
         \A p \in Blocks : memory'[p] = memory[p],
         \A e \in Devices : \A i \in 1 .. Len(queue[e]) : Plain(queue[e][i], e),
         tensors' \subseteq Held, TypeInv', BlockInv', AnswersAreFinal'
  PROVE  StreamInv'
<1>1. Held' = tensors' /\ host'.wait = "run"
  BY HeldRunning DEF Running
<1>2. OrderInv'
  <2>1. ASSUME NEW e \in Devices PROVE Orderly(queue'[e], memory', e, ops')
    <3>1. Orderly(queue[e], memory, e, ops) /\ queue[e] \in Seq(Commands) /\ ops \in Nat
      BY DEF StreamInv, OrderInv, TypeInv
    <3>2. Orderly(queue[e], memory', e, ops)
      BY <3>1, OrderlyElsewhere
    <3> QED BY <3>2
  <2> QED BY <2>1 DEF OrderInv, Orderly, Holds
<1>3. WaitInv'
  BY DEF WaitInv, Plain
<1>4. TensorInv'
  <2>1. ASSUME NEW t \in Held'
        PROVE  /\ Home[t.block] = t.dev
               /\ Holds(queue'[t.dev], memory', t.block, Len(queue'[t.dev]), t.val)
    <3>1. t \in Held /\ t \in TensorSet
      BY <1>1 DEF TypeInv
    <3>2. /\ Home[t.block] = t.dev
          /\ Holds(queue[t.dev], memory, t.block, Len(queue[t.dev]), t.val)
      BY <3>1 DEF StreamInv, TensorInv
    <3>3. t.block \in Blocks /\ queue[t.dev] \in Seq(Commands) /\ Len(queue[t.dev]) \in Nat
      BY <3>1, LenProperties DEF TensorSet, StreamInv, TypeInv
    <3>4. Holds(queue[t.dev], memory', t.block, Len(queue[t.dev]), t.val)
      BY <3>2, <3>3, HoldsKept
    <3> QED BY <3>2, <3>4
  <2>2. \A t \in Held' :
          /\ Home[t.block] = t.dev
          /\ Holds(queue'[t.dev], memory', t.block, Len(queue'[t.dev]), t.val)
    BY <2>1
  <2>3. \A t, u \in Held' : t.block = u.block => t = u
    BY <1>1 DEF StreamInv, TensorInv
  <2> QED BY <2>2, <2>3 DEF TensorInv, Holds
<1>5. ReadInv'
  BY <1>1 DEF ReadInv
<1> QED BY <1>2, <1>3, <1>4, <1>5 DEF StreamInv

\* A wait is over when the stream waited for is empty.
LEMMA WaitOver ==
  ASSUME StreamInv, queue[host.dev] = << >>
  PROVE  \A e \in Devices : \A i \in 1 .. Len(queue[e]) : Plain(queue[e][i], e)
<1>1. ASSUME NEW e \in Devices, NEW i \in 1 .. Len(queue[e]) PROVE Plain(queue[e][i], e)
  <2>1. host.dev # e
    <3>1. queue[e] # << >>
      <4>1. Len(<< >>) = 0
        OBVIOUS
      <4> QED BY <4>1
    <3> QED BY <3>1
  <2> QED BY <2>1 DEF StreamInv, WaitInv, Awaited
<1> QED BY <1>1

LEMMA EndToStep ==
  ASSUME StreamInv, EndTo
  PROVE  StreamInv'
<1>1. /\ host.wait = "to" /\ queue[host.dev] = << >> /\ host' = Running
      /\ tensors' = tensors \cup {host.tensor}
      /\ UNCHANGED <<memory, queue, heap, pools, workspaces, argmax, answer, ops>>
  BY DEF EndTo, Moved
<1>2. Held' = Held /\ tensors' = Held
  BY <1>1, HeldRunning DEF Held
<1>3. Used' = Used
  BY <1>2 DEF Used
<1>4. host.tensor \in TensorSet
  BY <1>1 DEF StreamInv, TypeInv, Running
<1>5. TypeInv' /\ BlockInv' /\ AnswersAreFinal'
  BY <1>1, <1>3, <1>4 DEF StreamInv, TypeInv, BlockInv, Accounted, AnswersAreFinal
<1> QED BY <1>1, <1>2, <1>5, WaitOver, QuietInv

LEMMA EndLoadStep ==
  ASSUME StreamInv, EndLoad
  PROVE  StreamInv'
<1>1. /\ host.wait = "load" /\ queue[host.dev] = << >> /\ host' = Running
      /\ tensors' = tensors \cup {host.tensor}
      /\ memory' = [memory EXCEPT ![Staging] = Garbage]
      /\ UNCHANGED <<queue, heap, pools, workspaces, argmax, answer, ops>>
  BY DEF EndLoad, Uploaded
<1>2. Held' = Held /\ tensors' = Held
  BY <1>1, HeldRunning DEF Held
<1>3. Used' = Used
  BY <1>2 DEF Used
<1>4. host.tensor \in TensorSet
  BY <1>1 DEF StreamInv, TypeInv, Running
<1>5. memory' \in [Places -> Nat] /\ \A p \in Blocks : memory'[p] = memory[p]
  BY <1>1, Names DEF StreamInv, TypeInv, Garbage
<1>6. TypeInv' /\ BlockInv' /\ AnswersAreFinal'
  BY <1>1, <1>3, <1>4, <1>5 DEF StreamInv, TypeInv, BlockInv, Accounted, AnswersAreFinal
<1> QED BY <1>1, <1>2, <1>5, <1>6, WaitOver, QuietInv

\* The copy of the token has been executed when the host goes on.
LEMMA EndReadStep ==
  ASSUME StreamInv, EndRead
  PROVE  StreamInv'
<1>1. /\ host.wait = "read" /\ queue[host.dev] = << >> /\ host' = Running
      /\ answer' = [read |-> memory[Result], expected |-> host.val]
      /\ UNCHANGED <<memory, queue, tensors, heap, pools, workspaces, argmax, ops>>
  BY DEF EndRead, Read
<1>2. Held' = Held /\ tensors' = Held
  BY <1>1, HeldRunning DEF Held
<1>3. Used' = Used
  BY <1>2 DEF Used
<1>4. AnswersAreFinal'
  <2>1. Holds(<< >>, memory, Result, 0, host.val)
    BY <1>1 DEF StreamInv, ReadInv
  <2>2. memory[Result] = host.val
    BY <2>1 DEF Holds
  <2> QED BY <1>1, <2>2 DEF AnswersAreFinal
<1>5. TypeInv' /\ BlockInv'
  BY <1>1, <1>3 DEF StreamInv, TypeInv, BlockInv, Accounted
<1> QED BY <1>1, <1>2, <1>4, <1>5, WaitOver, QuietInv

LEMMA DropStep ==
  ASSUME StreamInv, Drop
  PROVE  StreamInv'
<1>1. PICK t \in tensors :
        /\ tensors' = tensors \ {t}
        /\ IF \E d \in Devices : t.block \in workspaces[d]
           THEN UNCHANGED pools
           ELSE pools' = [pools EXCEPT ![t.dev] = @ \cup {t.block}]
  BY DEF Drop, Release, shared_memory_pool
<1>2. /\ host = Running /\ host' = Running
      /\ UNCHANGED <<memory, queue, heap, workspaces, argmax, host, answer, ops>>
  BY DEF Drop
<1>3. /\ t \in TensorSet /\ t.dev \in Devices /\ t.block \in Blocks
      /\ Home[t.block] = t.dev /\ t.block \in Used
  BY <1>2, RunningFacts DEF TensorSet
<1>4. Held' = tensors \ {t}
  BY <1>1, <1>2, HeldRunning
<1>5. Used' = Used \ {t.block}
  <2>1. Used' = {u.block : u \in Held'}
    BY DEF Used
  <2>2. \A u \in tensors \ {t} : u.block # t.block
    BY <1>2, RunningFacts
  <2>3. Used = {u.block : u \in tensors}
    BY <1>2, RunningFacts
  <2> QED BY <1>4, <2>1, <2>2, <2>3
<1>6. TypeInv'
  <2>1. pools \in [Devices -> SUBSET Blocks] /\ tensors \subseteq TensorSet
    BY DEF StreamInv, TypeInv
  <2>2. pools' \in [Devices -> SUBSET Blocks]
    <3>1. CASE pools' = pools
      BY <2>1, <3>1
    <3>2. CASE pools' = [pools EXCEPT ![t.dev] = @ \cup {t.block}]
      BY <1>3, <2>1, <3>2
    <3> QED BY <1>1, <3>1, <3>2
  <2> QED BY <1>1, <1>2, <2>1, <2>2 DEF StreamInv, TypeInv
<1>7. BlockInv'
  <2>1. CASE \E d \in Devices : t.block \in workspaces[d]
    BY <1>1, <1>2, <1>5, <2>1 DEF StreamInv, BlockInv, Accounted
  <2>2. CASE ~ \E d \in Devices : t.block \in workspaces[d]
    <3>1. /\ pools'[t.dev] = pools[t.dev] \cup {t.block}
          /\ \A e \in Devices \ {t.dev} : pools'[e] = pools[e]
      BY <1>1, <1>3, <2>2 DEF StreamInv, TypeInv
    <3>2. ASSUME NEW e \in Devices
          PROVE  Accounted(e)'
      <4>1. Accounted(e)
        BY DEF StreamInv, BlockInv, Accounted
      <4> QED BY <1>2, <1>3, <1>5, <2>2, <3>1, <4>1 DEF Accounted
    <3> QED BY <3>2 DEF BlockInv
  <2> QED BY <2>1, <2>2
<1>8. AnswersAreFinal'
  BY <1>2 DEF StreamInv, AnswersAreFinal
<1> QED BY <1>1, <1>2, <1>6, <1>7, <1>8, RunningFacts, QuietInv

\* The buffer of the token is taken, and given back.
LEMMA GenerateStep ==
  ASSUME StreamInv, NEW d \in Devices, Generate(d)
  PROVE  StreamInv'
<1>1. PICK b \in Free(d, {}) : Allocate({b}) /\ argmax' = [argmax EXCEPT ![d] = b]
  BY DEF Generate
<1>2. /\ host = Running /\ host' = Running /\ argmax[d] = NoBlock
      /\ UNCHANGED <<memory, queue, tensors, workspaces, host, answer, ops>>
      /\ argmax \in [Devices -> Blocks \cup {NoBlock}]
  BY DEF Generate, StreamInv, TypeInv
<1>3. /\ b \in Blocks /\ Home[b] = d /\ b \notin Used
      /\ \A e \in Devices : b \notin workspaces[e] /\ b # argmax[e]
  BY FreeFacts
<1>4. Used' = Used /\ tensors' \subseteq Held
  BY <1>2 DEF Used, Held
<1>5. /\ heap' = heap \ {b} /\ \A e \in Devices : pools'[e] = pools[e] \ {b}
      /\ argmax'[d] = b /\ \A e \in Devices \ {d} : argmax'[e] = argmax[e]
  BY <1>1, <1>2 DEF Allocate
<1>6. BlockInv'
  <2>1. ASSUME NEW e \in Devices PROVE Accounted(e)'
    BY <1>2, <1>3, <1>4, <1>5, Names DEF StreamInv, BlockInv, Accounted
  <2> QED BY <2>1 DEF BlockInv
<1>7. TypeInv'
  <2>1. heap' \subseteq Blocks /\ pools' \in [Devices -> SUBSET Blocks]
    BY <1>1 DEF StreamInv, TypeInv, Allocate
  <2>2. argmax' \in [Devices -> Blocks \cup {NoBlock}]
    BY <1>1, <1>2, <1>3
  <2> QED BY <1>2, <2>1, <2>2 DEF StreamInv, TypeInv
<1>8. AnswersAreFinal'
  BY <1>2 DEF StreamInv, AnswersAreFinal
<1> QED BY <1>2, <1>4, <1>6, <1>7, <1>8, RunningFacts, QuietInv

LEMMA ReturnStep ==
  ASSUME StreamInv, NEW d \in Devices, Return(d)
  PROVE  StreamInv'
<1> DEFINE b == argmax[d]
<1>1. /\ pools' = [pools EXCEPT ![d] = @ \cup {b}]
      /\ argmax' = [argmax EXCEPT ![d] = NoBlock]
      /\ host = Running /\ host' = Running /\ b # NoBlock
      /\ UNCHANGED <<memory, queue, tensors, heap, workspaces, host, answer, ops>>
  BY DEF Return, Release, shared_memory_pool
<1>2. /\ argmax \in [Devices -> Blocks \cup {NoBlock}]
      /\ pools \in [Devices -> SUBSET Blocks] /\ b \in Blocks
  BY <1>1 DEF StreamInv, TypeInv
<1>3. Used' = Used /\ tensors' \subseteq Held
  BY <1>1 DEF Used, Held
<1>4. /\ pools'[d] = pools[d] \cup {b} /\ \A e \in Devices \ {d} : pools'[e] = pools[e]
      /\ argmax'[d] = NoBlock /\ \A e \in Devices \ {d} : argmax'[e] = argmax[e]
  BY <1>1, <1>2
<1>5. BlockInv'
  <2>1. ASSUME NEW e \in Devices PROVE Accounted(e)'
    <3>1. Accounted(d) /\ Accounted(e)
      BY DEF StreamInv, BlockInv
    <3>2. Home[b] = d /\ b \notin heap /\ b \notin workspaces[d] \cup Used
      BY <1>1, <3>1 DEF Accounted
    <3>3. NoBlock \notin pools'[e] \cup heap \cup workspaces[e] \cup Used
      <4>1. workspaces[e] \subseteq Blocks /\ heap \subseteq Blocks /\ pools'[e] \subseteq Blocks
        BY <1>2, <1>4 DEF StreamInv, TypeInv
      <4>2. \A t \in tensors : t.block \in Blocks
        BY DEF StreamInv, TypeInv, TensorSet
      <4>3. Used = {t.block : t \in tensors}
        BY <1>1, RunningFacts
      <4> QED BY <4>1, <4>2, <4>3, Names
    <3> HIDE DEF b
    <3>4. CASE e = d
      <4>1. argmax[e] = b
        BY <3>4 DEF b
      <4> QED BY <1>1, <1>3, <1>4, <3>1, <3>2, <3>3, <3>4, <4>1 DEF Accounted
    <3>5. CASE e # d
      BY <1>1, <1>3, <1>4, <3>1, <3>5 DEF Accounted
    <3> QED BY <3>4, <3>5
  <2> QED BY <2>1 DEF BlockInv
<1>6. TypeInv'
  BY <1>1, <1>2 DEF StreamInv, TypeInv
<1>7. AnswersAreFinal'
  BY <1>1 DEF StreamInv, AnswersAreFinal
<1> QED BY <1>1, <1>3, <1>5, <1>6, <1>7, RunningFacts, QuietInv

\* A device executes its next command: the command finds what it reads, and
\* no other stream is concerned.
LEMMA Found ==
  ASSUME StreamInv, NEW d \in Devices, Execute(d)
  PROVE  \A t \in Head(queue[d]).reads : memory[t.block] = t.val
<1> DEFINE c == Head(queue[d])
           q == queue[d]
<1>1. /\ q \in Seq(Commands) /\ q # << >> /\ SourcesReached(d, c)
      /\ \A e \in Devices : queue[e] \in Seq(Commands) /\ Orderly(queue[e], memory, e, ops)
  BY DEF Execute, StreamInv, TypeInv, OrderInv
<1>2. Len(q) \in Nat \ {0} /\ c = q[1] /\ 1 \in 1 .. Len(q)
  <2>1. Len(q) \in Nat /\ Len(q) # 0
    BY <1>1, LenProperties, EmptySeq
  <2> QED BY <1>1, <2>1
<1>3. Plain(c, d) \/ Awaited(c, d, host, ops, memory, queue)
  BY <1>2 DEF StreamInv, WaitInv
<1>4. ASSUME NEW t \in c.reads, t.block \in Blocks, Home[t.block] = d
      PROVE  memory[t.block] = t.val
  <2>1. Holds(q, memory, t.block, 1 - 1, t.val)
    BY <1>1, <1>2, <1>4 DEF Orderly
  <2> QED BY <2>1 DEF Holds
<1>5. ASSUME NEW t \in c.reads, t.block \in Blocks, Home[t.block] # d, c.at = ops,
             Holds(queue[Home[t.block]], memory, t.block, Len(queue[Home[t.block]]), t.val)
      PROVE  memory[t.block] = t.val
  <2> DEFINE e == Home[t.block]
  <2>1. e \in Devices
    BY <1>5, Names
  <2>2. \A i \in DOMAIN queue[e] : queue[e][i].at > c.at
    BY <1>1, <1>5 DEF SourcesReached
  <2>3. queue[e] \in Seq(Commands) /\ Len(queue[e]) \in Nat /\ DOMAIN queue[e] = 1 .. Len(queue[e])
    BY <1>1, <2>1, LenProperties
  <2>4. Len(queue[e]) = 0
    <3>1. SUFFICES ASSUME Len(queue[e]) # 0 PROVE FALSE
      OBVIOUS
    <3>2. 1 \in 1 .. Len(queue[e])
      BY <2>3, <3>1
    <3>3. queue[e][1].at > ops /\ queue[e][1].at <= ops
      BY <1>1, <1>5, <2>1, <2>2, <2>3, <3>2 DEF Orderly
    <3>4. queue[e][1] \in Commands
      BY <2>3, <3>2, ElementOfSeq
    <3>5. queue[e][1].at \in Nat /\ ops \in Nat
      BY <3>4 DEF Commands, StreamInv, TypeInv
    <3> QED BY <3>3, <3>5
  <2>5. Holds(queue[e], memory, t.block, 0, t.val)
    BY <1>5, <2>4
  <2> QED BY <2>5 DEF Holds
<1>6. CASE Plain(c, d)
  BY <1>4, <1>6 DEF Plain
<1>7. CASE Awaited(c, d, host, ops, memory, queue)
  <2>1. CASE host.wait = "to"
    BY <1>5, <1>7, <2>1 DEF Awaited
  <2>2. CASE host.wait = "load"
    BY <1>7, <2>2 DEF Awaited
  <2>3. CASE host.wait = "read"
    BY <1>4, <1>7, <2>3 DEF Awaited
  <2> QED BY <1>7, <2>1, <2>2, <2>3 DEF Awaited
<1> QED BY <1>3, <1>6, <1>7

LEMMA ExecuteFacts ==
  ASSUME StreamInv, NEW d \in Devices, Execute(d)
  PROVE  /\ queue' = [queue EXCEPT ![d] = Tail(queue[d])]
         /\ queue[d] \in Seq(Commands) /\ queue[d] # << >>
         /\ memory' \in [Places -> Nat]
         /\ \A p \in Places : memory'[p] =
              IF p \in Head(queue[d]).writes THEN Head(queue[d]).val ELSE memory[p]
         /\ Staging \notin Head(queue[d]).writes
         /\ \A b \in Head(queue[d]).writes \cap Blocks : Home[b] = d
<1> DEFINE c == Head(queue[d])
<1>1. /\ queue' = [queue EXCEPT ![d] = Tail(queue[d])]
      /\ queue[d] \in Seq(Commands) /\ queue[d] # << >>
  BY DEF Execute, StreamInv, TypeInv
<1>2. Len(queue[d]) \in Nat \ {0} /\ c = queue[d][1]
  BY <1>1, LenProperties, EmptySeq
<1>3. 1 \in 1 .. Len(queue[d])
  BY <1>2
<1>4. c \in Commands
  BY <1>1, <1>2, <1>3, ElementOfSeq
<1>5. Staging \notin c.writes /\ \A b \in c.writes \cap Blocks : Home[b] = d
  BY <1>2, <1>3 DEF StreamInv, OrderInv, Orderly
<1>6. memory' = [p \in Places |-> IF p \notin c.writes THEN memory[p] ELSE c.val]
  BY Found DEF Execute
<1>7. c.val \in Nat /\ memory \in [Places -> Nat]
  BY <1>4 DEF Commands, StreamInv, TypeInv
<1> HIDE DEF c
<1>8. /\ memory' \in [Places -> Nat]
      /\ \A p \in Places : memory'[p] = IF p \in c.writes THEN c.val ELSE memory[p]
  BY <1>6, <1>7
<1> QED BY <1>1, <1>5, <1>8 DEF c

LEMMA ExecuteStep ==
  ASSUME StreamInv, NEW d \in Devices, Execute(d)
  PROVE  StreamInv'
<1> DEFINE q == queue[d]
           r == Tail(queue[d])
           c == Head(queue[d])
<1>1. /\ queue' = [queue EXCEPT ![d] = r]
      /\ queue \in [Devices -> Seq(Commands)] /\ q \in Seq(Commands) /\ q # << >>
      /\ UNCHANGED <<tensors, heap, pools, workspaces, argmax, host, answer, ops>>
      /\ ops \in Nat
  BY ExecuteFacts DEF Execute, StreamInv, TypeInv
<1>2. /\ memory' \in [Places -> Nat]
      /\ \A p \in Places : memory'[p] = IF p \in c.writes THEN c.val ELSE memory[p]
      /\ Staging \notin c.writes /\ \A b \in c.writes \cap Blocks : Home[b] = d
  BY ExecuteFacts
<1>3. /\ r \in Seq(Commands) /\ Len(r) = Len(q) - 1 /\ Len(q) \in Nat \ {0}
      /\ \A i \in 1 .. Len(q) - 1 : r[i] = q[i + 1]
      /\ c = q[1] /\ c \in Commands
      /\ \A p \in Places : \A n \in 1 .. Len(q) : \A v :
           Holds(q, memory, p, n, v) => Holds(r, memory', p, n - 1, v)
      /\ \A k : Orderly(q, memory, d, k) => Orderly(r, memory', d, k)
  BY <1>1, <1>2, OneLess
<1>4. /\ queue'[d] = r /\ \A e \in Devices \ {d} : queue'[e] = queue[e]
      /\ queue' \in [Devices -> Seq(Commands)]
  BY <1>1, <1>3
<1> HIDE DEF q, r, c
<1>5. ASSUME NEW p \in Places, NEW v, Holds(q, memory, p, Len(q), v)
      PROVE  Holds(r, memory', p, Len(r), v)
  BY <1>3, <1>5
<1>6. /\ memory'[Staging] = memory[Staging]
      /\ \A b \in Blocks : Home[b] # d => memory'[b] = memory[b]
  BY <1>2, Names
<1>7. ASSUME NEW b \in Blocks, NEW v,
             Holds(queue[Home[b]], memory, b, Len(queue[Home[b]]), v)
      PROVE  Holds(queue'[Home[b]], memory', b, Len(queue'[Home[b]]), v)
  <2>1. CASE Home[b] = d
    BY <1>4, <1>5, <1>7, <2>1, Names DEF q
  <2>2. CASE Home[b] # d
    <3>1. /\ queue'[Home[b]] = queue[Home[b]] /\ queue[Home[b]] \in Seq(Commands)
          /\ Len(queue[Home[b]]) \in Nat /\ memory'[b] = memory[b]
      BY <1>1, <1>4, <1>6, <2>2, Names, LenProperties
    <3>2. Holds(queue[Home[b]], memory', b, Len(queue[Home[b]]), v)
      BY <1>7, <3>1, HoldsKept
    <3> QED BY <3>1, <3>2
  <2> QED BY <2>1, <2>2
<1>8. OrderInv'
  <2>1. ASSUME NEW e \in Devices PROVE Orderly(queue'[e], memory', e, ops')
    <3>1. Orderly(queue[e], memory, e, ops)
      BY DEF StreamInv, OrderInv
    <3>2. CASE e = d
      BY <1>1, <1>3, <1>4, <3>1, <3>2 DEF q
    <3>3. CASE e # d
      <4>1. Orderly(queue[e], memory', e, ops)
        BY <1>1, <1>6, <3>1, <3>3, OrderlyElsewhere
      <4> QED BY <1>1, <1>4, <3>3, <4>1
    <3> QED BY <3>2, <3>3
  <2> QED BY <2>1 DEF OrderInv, Orderly, Holds
<1>9. ASSUME NEW a \in Commands, NEW e \in Devices,
             Plain(a, e) \/ Awaited(a, e, host, ops, memory, queue)
      PROVE  Plain(a, e) \/ Awaited(a, e, host', ops', memory', queue')
  <2>1. CASE Plain(a, e)
    BY <2>1
  <2>2. CASE Awaited(a, e, host, ops, memory, queue)
    <3>1. host' = host /\ ops' = ops /\ host.dev = e
      BY <1>1, <2>2 DEF Awaited
    <3>2. CASE /\ host.wait = "to" /\ a.at = ops /\ Result \notin a.writes
               /\ \A t \in a.reads :
                    /\ t.block \in Blocks /\ Home[t.block] # e
                    /\ Holds(queue[Home[t.block]], memory, t.block,
                             Len(queue[Home[t.block]]), t.val)
      BY <1>7, <3>1, <3>2 DEF Awaited
    <3>3. CASE /\ host.wait = "load" /\ Result \notin a.writes
               /\ \A t \in a.reads : t.block = Staging /\ memory[Staging] = t.val
      BY <1>6, <3>1, <3>3 DEF Awaited
    <3>4. CASE /\ host.wait = "read"
               /\ \A t \in a.reads : t.block \in Blocks /\ Home[t.block] = e
      BY <3>1, <3>4 DEF Awaited
    <3> QED BY <2>2, <3>2, <3>3, <3>4 DEF Awaited
  <2> QED BY <1>9, <2>1, <2>2
<1>10. WaitInv'
  <2>1. ASSUME NEW e \in Devices, NEW i \in 1 .. Len(queue'[e])
        PROVE  \/ Plain(queue'[e][i], e)
               \/ Awaited(queue'[e][i], e, host', ops', memory', queue')
    <3>1. PICK j \in 1 .. Len(queue[e]) : queue'[e][i] = queue[e][j]
      <4>1. CASE e = d
        <5>1. i \in 1 .. Len(q) - 1 /\ i + 1 \in 1 .. Len(q)
          BY <1>3, <1>4, <4>1
        <5> QED BY <1>3, <1>4, <4>1, <5>1 DEF q
      <4>2. CASE e # d
        BY <1>4, <4>2
      <4> QED BY <4>1, <4>2
    <3>2. queue[e] \in Seq(Commands)
      BY <1>1
    <3>3. queue[e][j] \in Commands
      BY <3>2, ElementOfSeq
    <3>4. Plain(queue[e][j], e) \/ Awaited(queue[e][j], e, host, ops, memory, queue)
      BY DEF StreamInv, WaitInv
    <3> QED BY <1>9, <3>1, <3>3, <3>4
  <2> QED BY <2>1 DEF WaitInv, Plain, Awaited, Holds
<1>11. Held' = Held /\ Used' = Used
  BY <1>1 DEF Held, Used
<1>12. TensorInv'
  <2>1. ASSUME NEW t \in Held'
        PROVE  /\ Home[t.block] = t.dev
               /\ Holds(queue'[t.dev], memory', t.block, Len(queue'[t.dev]), t.val)
    <3>1. /\ Home[t.block] = t.dev
          /\ Holds(queue[t.dev], memory, t.block, Len(queue[t.dev]), t.val)
      BY <1>11 DEF StreamInv, TensorInv
    <3>2. t \in TensorSet
      BY <1>11 DEF Held, StreamInv, TypeInv, Running
    <3>3. t.block \in Blocks
      BY <3>2 DEF TensorSet
    <3> QED BY <1>7, <3>1, <3>3
  <2>2. \A t \in Held' :
          /\ Home[t.block] = t.dev
          /\ Holds(queue'[t.dev], memory', t.block, Len(queue'[t.dev]), t.val)
    BY <2>1
  <2>3. \A t, u \in Held' : t.block = u.block => t = u
    BY <1>11 DEF StreamInv, TensorInv
  <2> QED BY <2>2, <2>3 DEF TensorInv, Holds
<1>13. ReadInv'
  <2>1. ASSUME host'.wait = "read"
        PROVE  Holds(queue'[host'.dev], memory', Result, Len(queue'[host'.dev]), host'.val)
    <3>1. /\ host' = host /\ host.dev \in Devices
          /\ Holds(queue[host.dev], memory, Result, Len(queue[host.dev]), host.val)
      BY <1>1, <2>1 DEF StreamInv, ReadInv, TypeInv, Running
    <3>2. CASE host.dev = d
      BY <1>4, <1>5, <3>1, <3>2, Names DEF q
    <3>3. CASE host.dev # d
      <4>1. 1 \in 1 .. Len(q)
        BY <1>3
      <4>2. Result \notin c.writes
        BY <1>3, <3>3, <4>1 DEF StreamInv, WaitInv, Plain, Awaited, q
      <4>3. memory'[Result] = memory[Result]
        BY <1>2, <4>2, Names
      <4>4. queue[host.dev] \in Seq(Commands) /\ Len(queue[host.dev]) \in Nat
        BY <1>1, <3>1, LenProperties
      <4>5. Holds(queue[host.dev], memory', Result, Len(queue[host.dev]), host.val)
        BY <3>1, <4>3, <4>4, HoldsKept
      <4> QED BY <1>4, <3>1, <3>3, <4>5
    <3> QED BY <3>2, <3>3
  <2> QED BY <2>1 DEF ReadInv, Holds
<1>14. TypeInv' /\ BlockInv' /\ AnswersAreFinal'
  BY <1>1, <1>2, <1>4, <1>11 DEF StreamInv, TypeInv, BlockInv, Accounted, AnswersAreFinal
<1> QED BY <1>8, <1>10, <1>12, <1>13, <1>14 DEF StreamInv

-----------------------------------------------------------------------------
\* The theorems.

LEMMA InitInv == Init => StreamInv
<1> SUFFICES ASSUME Init PROVE StreamInv
  OBVIOUS
<1>1. host.wait = "run" /\ tensors = {}
  BY DEF Init, Running
<1>2. Held = {} /\ Used = {}
  BY <1>1 DEF Held, Used
<1>3. \A d \in Devices : queue[d] = << >> /\ Len(queue[d]) = 0
  BY DEF Init
<1>4. \A i \in 1 .. 0 : FALSE
  OBVIOUS
<1>5. TypeInv
  <2>1. << >> \in Seq(Commands)
    BY EmptySeq
  <2> QED BY <1>1, <2>1 DEF Init, TypeInv, Garbage
<1>6. OrderInv /\ WaitInv
  BY <1>3, <1>4 DEF OrderInv, WaitInv, Orderly
<1>7. TensorInv /\ ReadInv
  BY <1>1, <1>2 DEF TensorInv, ReadInv
<1>8. BlockInv
  BY <1>2, Names DEF Init, BlockInv, Accounted
<1>9. AnswersAreFinal
  BY DEF Init, AnswersAreFinal
<1> QED BY <1>5, <1>6, <1>7, <1>8, <1>9 DEF StreamInv

LEMMA NextInv == StreamInv /\ [Next]_vars => StreamInv'
<1> SUFFICES ASSUME StreamInv, [Next]_vars PROVE StreamInv'
  OBVIOUS
<1>1. ASSUME NEW d \in Devices, Compute(d) \/ Append_kv_cache(d) \/ Recurrent(d)
      PROVE  StreamInv'
  BY <1>1, ComputeStep, AppendStep, RecurrentStep
<1>2. ASSUME NEW d \in Devices,
             Lookup_embedding(d) \/ Lookup_embedding_into(d) \/ BeginTo(d) \/ BeginLoad(d)
      PROVE  StreamInv'
  BY <1>2, LookupStep, LookupIntoStep, BeginToStep, BeginLoadStep
<1>3. ASSUME NEW d \in Devices, Generate(d) \/ Return(d) \/ BeginRead(d) \/ Execute(d)
      PROVE  StreamInv'
  BY <1>3, GenerateStep, ReturnStep, BeginReadStep, ExecuteStep
<1>4. CASE EndTo \/ EndLoad \/ EndRead \/ Drop
  BY <1>4, EndToStep, EndLoadStep, EndReadStep, DropStep
<1>5. CASE UNCHANGED vars
  <2>1. Held' = Held /\ Used' = Used
    BY <1>5 DEF vars, Held, Used
  <2>2. /\ host' = host /\ ops' = ops /\ memory' = memory /\ queue' = queue
        /\ tensors' = tensors /\ answer' = answer
    BY <1>5 DEF vars
  <2>3. TypeInv' = TypeInv
    BY <1>5 DEF TypeInv, vars
  <2>4. OrderInv' = OrderInv
    BY <2>2 DEF OrderInv, Orderly, Holds
  <2>5. WaitInv' = WaitInv
    BY <2>2 DEF WaitInv, Plain, Awaited, Holds
  <2>6. TensorInv' = TensorInv
    BY <2>1, <2>2 DEF TensorInv, Holds
  <2>7. BlockInv' = BlockInv
    BY <1>5, <2>1 DEF BlockInv, Accounted, vars
  <2>8. ReadInv' = ReadInv
    BY <2>2 DEF ReadInv, Holds
  <2>9. AnswersAreFinal' = AnswersAreFinal
    BY <2>2 DEF AnswersAreFinal
  <2> QED BY <2>3, <2>4, <2>5, <2>6, <2>7, <2>8, <2>9 DEF StreamInv
<1> QED BY <1>1, <1>2, <1>3, <1>4, <1>5 DEF Next

LEMMA Invariant == Spec => []StreamInv
BY InitInv, NextInv, PTL DEF Spec

\* A tensor holds what program order says as soon as its device has caught up,
\* whatever memory was handed out again in the meantime.
THEOREM TensorValues == Spec => []TensorsHoldTheirValues
<1>1. StreamInv => TensorsHoldTheirValues
  <2> SUFFICES ASSUME StreamInv, NEW t \in tensors, queue[t.dev] = << >>
               PROVE  memory[t.block] = t.val
    BY DEF TensorsHoldTheirValues
  <2>1. Holds(<< >>, memory, t.block, 0, t.val)
    BY DEF StreamInv, TensorInv, Held
  <2> QED BY <2>1 DEF Holds
<1> QED BY <1>1, Invariant, PTL

\* The host never goes on with a token that was not yet, or no longer, in the
\* variable it is read into.
THEOREM FinalAnswers == Spec => []AnswersAreFinal
<1>1. StreamInv => AnswersAreFinal
  BY DEF StreamInv
<1> QED BY <1>1, Invariant, PTL

\* A queued upload finds its data in the staging memory.
THEOREM UploadsFindTheirData == Spec => []StagingOutlivesCopies
<1>1. StreamInv => StagingOutlivesCopies
  <2> SUFFICES ASSUME StreamInv, NEW d \in Devices, NEW i \in DOMAIN queue[d],
                      NEW t \in queue[d][i].reads, t.block = Staging
               PROVE  memory[Staging] = t.val
    BY DEF StagingOutlivesCopies
  <2>1. i \in 1 .. Len(queue[d])
    BY LenProperties DEF StreamInv, TypeInv
  <2>2. t.block \notin Blocks
    BY Names
  <2> QED BY <2>1, <2>2 DEF StreamInv, WaitInv, Plain, Awaited
<1> QED BY <1>1, Invariant, PTL

\* Buffers say truly which device their memory is on, no two tensors share a
\* block, and every block is accounted for: but for the tensor that lies in a
\* workspace, it has one owner among the runtime, the pools, the workspaces, the
\* token buffers and the tensors, and it is never lost.
THEOREM OneOwnerPerBlock == Spec => []BuffersAreWhereTheySay
<1>1. StreamInv => BuffersAreWhereTheySay
  BY DEF StreamInv, TensorInv, BlockInv, BuffersAreWhereTheySay
<1> QED BY <1>1, Invariant, PTL

-----------------------------------------------------------------------------
(* The rocBLAS handle, which has state and steps of its own. The run       *)
(* gemm_stream shows that two threads break what is proved here for one.   *)

CONSTANTS Threads, Streams
VARIABLES handles, stream, last_streams, backends, gemm

Rocblas == INSTANCE RocblasHandle

\* What a thread remembers of a handle is what the handle is set to.
MemoryIsTrue ==
  /\ stream \in [Devices -> Streams \cup {Rocblas!NullStream}]
  /\ last_streams \in
       [Threads -> [Devices -> Streams \cup {Rocblas!NullStream, Rocblas!NoStream}]]
  /\ \A t \in Threads, d \in Devices : last_streams[t][d] \in {Rocblas!NoStream, stream[d]}
  /\ Rocblas!GemmRunsWhereAsked

\* A GEMM keeps the only thread's memory of the handle true: the stream is set
\* whenever it is not the one remembered.
LEMMA GemmKeepsMemory ==
  ASSUME Rocblas!NoStream \notin Streams,
         \A t, u \in Threads : t = u,
         MemoryIsTrue,
         NEW t \in Threads, NEW d \in Devices, NEW s \in Streams,
         Rocblas!Gemm(t, d, s)
  PROVE  MemoryIsTrue'
<1>0. PICK ok \in BOOLEAN :
        /\ Rocblas!set_rocblas_stream_if_changed(t, d, s, ok)
        /\ gemm' = IF ok THEN [device |-> d, asked |-> s, ran |-> stream'[d]] ELSE gemm
  BY DEF Rocblas!Gemm
<1>1. stream'[d] = (IF ok THEN s ELSE stream[d])
  BY <1>0 DEF MemoryIsTrue, Rocblas!set_rocblas_stream_if_changed
<1>2. stream' \in [Devices -> Streams \cup {Rocblas!NullStream}]
  BY <1>0 DEF MemoryIsTrue, Rocblas!set_rocblas_stream_if_changed
<1>3. last_streams' \in
        [Threads -> [Devices -> Streams \cup {Rocblas!NullStream, Rocblas!NoStream}]]
  BY <1>0 DEF MemoryIsTrue, Rocblas!set_rocblas_stream_if_changed
<1>4. ASSUME NEW u \in Threads, NEW e \in Devices
      PROVE  last_streams'[u][e] \in {Rocblas!NoStream, stream'[e]}
  <2>1. u = t
    OBVIOUS
  <2>2. CASE e = d
    BY <1>0, <1>1, <2>1, <2>2 DEF MemoryIsTrue, Rocblas!set_rocblas_stream_if_changed
  <2>3. CASE e # d
    BY <1>0, <2>1, <2>3 DEF MemoryIsTrue, Rocblas!set_rocblas_stream_if_changed
  <2>4. QED
    BY <2>2, <2>3
<1>5. Rocblas!GemmRunsWhereAsked'
  BY <1>0, <1>1 DEF MemoryIsTrue, Rocblas!GemmRunsWhereAsked
<1>6. QED
  BY <1>2, <1>3, <1>4, <1>5 DEF MemoryIsTrue

\* "A device-shared rocBLAS handle is normally used by one inference thread"
\* (hip_backend.cc): then each GEMM runs on the stream its caller passes,
\* although the stream is set only when it changes, although setting it may
\* fail, and although backend objects come and go.
THEOREM OneThreadRunsWhereAsked ==
  ASSUME Rocblas!NoStream \notin Streams, \A t, u \in Threads : t = u
  PROVE  Rocblas!Spec => []Rocblas!GemmRunsWhereAsked
<1>1. Rocblas!Init => MemoryIsTrue
  BY DEF Rocblas!Init, MemoryIsTrue, Rocblas!GemmRunsWhereAsked, Rocblas!NoGemm
<1>2. MemoryIsTrue /\ [Rocblas!Next]_Rocblas!vars => MemoryIsTrue'
  <2> SUFFICES ASSUME MemoryIsTrue, [Rocblas!Next]_Rocblas!vars
               PROVE  MemoryIsTrue'
    OBVIOUS
  <2>1. ASSUME NEW d \in Devices, Rocblas!CreateBackend(d)
        PROVE  MemoryIsTrue'
    BY <2>1 DEF Rocblas!CreateBackend, MemoryIsTrue, Rocblas!GemmRunsWhereAsked
  <2>2. ASSUME NEW d \in Devices, NEW t \in Threads, NEW s \in Streams, Rocblas!Gemm(t, d, s)
        PROVE  MemoryIsTrue'
    BY <2>2, GemmKeepsMemory
  <2>3. CASE UNCHANGED Rocblas!vars
    BY <2>3 DEF Rocblas!vars, MemoryIsTrue, Rocblas!GemmRunsWhereAsked
  <2>4. QED
    BY <2>1, <2>2, <2>3 DEF Rocblas!Next
<1>3. MemoryIsTrue => Rocblas!GemmRunsWhereAsked
  BY DEF MemoryIsTrue
<1>4. QED
  BY <1>1, <1>2, <1>3, PTL DEF Rocblas!Spec
=============================================================================
